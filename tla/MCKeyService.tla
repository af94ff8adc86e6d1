---------------------------- MODULE MCKeyService ----------------------------
(* Symmetry of the key service run.                                        *)
EXTENDS KeyService, TLC

KeyServiceSymmetry == Permutations(Key) \cup Permutations(Nonce) \cup Permutations(Binding)
=============================================================================
