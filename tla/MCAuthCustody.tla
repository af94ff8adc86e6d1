--------------------------- MODULE MCAuthCustody ---------------------------
(* Symmetry of the custody run.                                            *)
EXTENDS AuthCustody, TLC

ThreadSymmetry == Permutations(Thread)
=============================================================================
