---------------------------- MODULE MCJsonStore ----------------------------
(* JsonStore on a small instance: two stores share a directory.            *)
EXTENDS JsonStore, TLC

Symmetry == Permutations(Stores) \union Permutations(Docs) \union Permutations(TempNames)
=============================================================================
