------------------------ MODULE MCRevocationService ------------------------
(* RevocationService on small instances.                                   *)
EXTENDS RevocationService

OneTtl == {1}
TwoTtls == {1, 2}
=============================================================================
