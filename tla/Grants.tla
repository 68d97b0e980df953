------------------------------- MODULE Grants -------------------------------
(***************************************************************************)
(* What a client may do, in its two forms: the claim (GrantsClaim.java) of *)
(* admin requests and tokens, and the domain's Authorization.java, with    *)
(* the conversions between them.  Fields that a JSON text leaves out, or   *)
(* makes null, are Null.                                                   *)
(***************************************************************************)
EXTENDS Checks, SequencesExt

CONSTANT Null

KeyOperations == {"GENERATE_DATA_KEY", "ENCRYPT", "DECRYPT", "RE_ENCRYPT"}

\* A blank key group and an empty set of operations are refused.
Grant == [keyGroup : STRING \ {""}, operations : (SUBSET KeyOperations) \ {{}}]
Authorization == [controlPlane : BOOLEAN, grants : Seq(Grant)]

\* What Jackson makes of a JSON text.
Operations == Seq(STRING \union {Null})
Group == [keyGroup : STRING \union {Null}, operations : Operations \union {Null}]
Groups == Seq(Group \union {Null})
GrantsClaim == [control : BOOLEAN, groups : Groups \union {Null}]

\* A null is told from everything else (and the names of the operations are
\* strings, which no prover can tell from a literal).
ASSUME GrantsAssumption ==
  /\ Null \notin STRING \union Operations \union Group \union Groups \union GrantsClaim
  /\ KeyOperations \subseteq STRING

\* Authorization.none().
None == [controlPlane |-> FALSE, grants |-> <<>>]

OrEmpty(list) == IF list = Null THEN <<>> ELSE list

-----------------------------------------------------------------------------
(* From the wire: GrantsClaim.toAuthorization, and what the handlers make  *)
(* of its exceptions.  An IllegalArgumentException is answered 400, a      *)
(* NullPointerException 500.                                               *)

\* KeyOperation.valueOf.
OperationCheck(op) ==
  Check(op = Null, 500) \union Check(op # Null /\ op \notin KeyOperations, 400)

\* The body of the outer loop: dereference, each operation, new Grant.
GroupChecks(group) ==
  IF group = Null THEN <<Check(TRUE, 500)>>
  ELSE LET ops == OrEmpty(group.operations)
       IN [i \in 1 .. Len(ops) + 2 |->
             IF i <= Len(ops) THEN OperationCheck(ops[i])
             ELSE IF i = Len(ops) + 1 THEN Check(group.keyGroup \in {Null, ""}, 400)
             ELSE Check(ops = <<>>, 400)]

GroupObjection(group) == {a \in {400, 500} : Answers(GroupChecks(group), 0, a)}

\* What a claim is answered for its grants; no claim at all is none().
ClaimObjection(claim) ==
  IF claim = Null THEN {}
  ELSE LET groups == OrEmpty(claim.groups)
       IN {a \in {400, 500} :
             Answers([i \in DOMAIN groups |-> GroupObjection(groups[i])], 0, a)}

\* The authorization of a claim that nothing is wrong with.  The operations
\* are a set that keeps the order of the list, which nobody reads.
ToAuthorization(claim) ==
  IF claim = Null THEN None
  ELSE LET groups == OrEmpty(claim.groups)
       IN [controlPlane |-> claim.control,
           grants |-> [i \in DOMAIN groups |->
                         [keyGroup |-> groups[i].keyGroup,
                          operations |-> ToSet(groups[i].operations)]]]

-----------------------------------------------------------------------------
(* To the wire.                                                            *)

\* Mutant of From: the last grant of a key group stands for all of them.
FromLast(authorization) ==
  LET last == {i \in DOMAIN authorization.grants :
                 \A j \in DOMAIN authorization.grants :
                   authorization.grants[j].keyGroup = authorization.grants[i].keyGroup => j <= i}
      kept == SetToSeq({authorization.grants[i] : i \in last})
  IN [control |-> authorization.controlPlane,
      groups |-> [i \in DOMAIN kept |-> [keyGroup |-> kept[i].keyGroup,
                                         operations |-> SetToSeq(kept[i].operations)]]]

\* GrantsClaim.from.
From(authorization) ==
  [control |-> authorization.controlPlane,
   groups |-> [i \in DOMAIN authorization.grants |->
                 [keyGroup |-> authorization.grants[i].keyGroup,
                  operations |-> SetToSeq(authorization.grants[i].operations)]]]

\* What a claim says its bearer may do: use the control plane, and operations
\* on key groups.
Says(claim) ==
  IF claim = Null THEN [control |-> FALSE, may |-> {}]
  ELSE [control |-> claim.control,
        may |-> UNION {{<<g.keyGroup, op>> : op \in ToSet(g.operations)} :
                         g \in ToSet(OrEmpty(claim.groups))}]

=============================================================================
