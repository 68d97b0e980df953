-------------------------- MODULE MCTokenVerifier --------------------------
(* TokenVerifier on a small instance: one request, two keys.             *)
EXTENDS TokenVerifier, TLC

Symmetry == Permutations(Kids)
OneTtl == {1}

\* Each defect alone, and others' claims not signed by the server.
FewDefects == {{}} \union {{d} : d \in ForeignDefects \union ClaimDefects}
                  \union {{"signature", d} : d \in ClaimDefects}
=============================================================================
