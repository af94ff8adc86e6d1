------------------------ MODULE MCOwnerFileProvider ------------------------
(* Symmetry of the provider run.                                           *)
EXTENDS OwnerFileProvider, TLC

ProviderSymmetry == Permutations(Provider) \cup Permutations(Path) \cup Permutations(Nonce)
                  \cup Permutations(Installation)
=============================================================================
