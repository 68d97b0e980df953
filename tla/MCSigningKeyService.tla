------------------------ MODULE MCSigningKeyService ------------------------
(* SigningKeyService on small instances: two requests, three keys.         *)
EXTENDS SigningKeyService, TLC

Symmetry == Permutations(Workers) \union Permutations(Kids)

\* The TTLs of the runs: one for every start, or a lower one after a restart.
OneTtl == {1}
CloseTtls == {2, 3}
TtlLowered == {1, 4}
=============================================================================
