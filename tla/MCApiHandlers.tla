--------------------------- MODULE MCApiHandlers ---------------------------
(* ApiHandlers on a small instance: two requests at a time, two clients.   *)
EXTENDS ApiHandlers, TLC

Symmetry == Permutations(Workers) \union Permutations(ClientIds)
=============================================================================
