---------------------------- MODULE MCIdpServer ----------------------------
(* IdpServer on a small instance: two flags, every route and some more.    *)
EXTENDS IdpServer

FewValues ==
  [o \in Options |-> CASE o = "host" -> {"", "a", "b"}
                       [] o = "port" -> {"7", " 7", "8", "-1", "x"}
                       [] o = "issuer" -> {"", "url/"}
                       [] o = "admin-token-file" -> {"f"}]

AllMethods == {"GET", "POST", "PUT", "DELETE", "PATCH"}

\* The paths of the routes with an id in them, and paths near them.
SomePaths ==
  {[i \in DOMAIN r.segments |-> IF r.segments[i] = "{id}" THEN "c1" ELSE r.segments[i]] :
     r \in ToSet(Routes)}
  \union {<<"">>, <<"admin">>, <<"docs", "">>, <<"admin", "clients", "">>,
          <<"admin", "clients", "c1", "keys">>, <<"admin", "keys", "rotate", "grants">>}

\* Grants that are right, with operations repeated and a group named twice, and
\* wrong: a typo, a null or a missing or blank field anywhere.
Named(keyGroup, operations) == [keyGroup |-> keyGroup, operations |-> operations]
SomeGroups == {
  Named("a", <<"DECRYPT">>), Named("a", <<"ENCRYPT", "DECRYPT", "ENCRYPT">>),
  Named("b", <<"RE_ENCRYPT">>),
  Named("a", <<"DECRYPT", "decrypt">>), Named("a", <<Null, "x">>), Named("", <<"DECRYPT">>),
  Named(Null, <<"x">>), Named("a", <<>>), Named("a", Null), Null}
SomeClaims == [control : BOOLEAN, groups : BoundedSeq(SomeGroups, 2) \union {Null}]
=============================================================================
