---------------------------- MODULE Grants_proofs ----------------------------
(***************************************************************************)
(* Theorems about grants on the wire and in the domain, for every claim    *)
(* that Jackson can make of a JSON text.                                   *)
(***************************************************************************)
EXTENDS Grants, SequenceTheorems, FiniteSetTheorems, TLAPS

-----------------------------------------------------------------------------
(* Lists of sets.                                                          *)

\* SetToSeq lists a finite set without leaving any of it out.
LEMMA ListsAll ==
  ASSUME NEW S, IsFiniteSet(S)
  PROVE  SetToSeq(S) \in Seq(S) /\ ToSet(SetToSeq(S)) = S
<1> DEFINE n == Cardinality(S)
           f == SetToSeq(S)
<1>1. n \in Nat /\ ExistsBijection(1 .. n, S)
  BY FS_CardinalityType
<1>2. f \in [1 .. n -> S] /\ IsInjective(f)
  <2>1. \E g \in [1 .. n -> S] : IsInjective(g)
    BY <1>1 DEF ExistsBijection, Bijection, Injection
  <2> QED
    BY <2>1 DEF SetToSeq
<1>3. IsFiniteSet(1 .. n) /\ Cardinality(1 .. n) = n
  BY <1>1, FS_Interval
<1>4. f \in Surjection(1 .. n, S)
  <2>1. f \in Injection(1 .. n, S)
    BY <1>2 DEF Injection
  <2> HIDE DEF f
  <2> QED
    BY <1>3, <2>1, FS_Injection
<1> HIDE DEF n, f
<1>5. f \in Seq(S) /\ DOMAIN f = 1 .. n
  BY <1>1, <1>2
<1>6. ToSet(f) = S
  BY <1>2, <1>4, <1>5 DEF ToSet, Surjection
<1> QED
  BY <1>5, <1>6 DEF f

LEMMA FewOperations == ASSUME NEW S \in SUBSET KeyOperations PROVE IsFiniteSet(S)
<1>1. IsFiniteSet({"GENERATE_DATA_KEY"})
  BY FS_Singleton
<1>2. IsFiniteSet({"GENERATE_DATA_KEY", "ENCRYPT"})
  <2>1. {"GENERATE_DATA_KEY", "ENCRYPT"} = {"GENERATE_DATA_KEY"} \cup {"ENCRYPT"}
    OBVIOUS
  <2> QED
    BY ONLY <1>1, <2>1, FS_AddElement
<1>3. IsFiniteSet({"GENERATE_DATA_KEY", "ENCRYPT", "DECRYPT"})
  <2>1. {"GENERATE_DATA_KEY", "ENCRYPT", "DECRYPT"} = {"GENERATE_DATA_KEY", "ENCRYPT"} \cup {"DECRYPT"}
    OBVIOUS
  <2> QED
    BY ONLY <1>2, <2>1, FS_AddElement
<1>4. IsFiniteSet(KeyOperations)
  <2>1. KeyOperations = {"GENERATE_DATA_KEY", "ENCRYPT", "DECRYPT"} \cup {"RE_ENCRYPT"}
    BY DEF KeyOperations
  <2> QED
    BY ONLY <1>3, <2>1, FS_AddElement
<1> QED
  BY <1>4, FS_Subset

-----------------------------------------------------------------------------
(* Ordered checks.                                                         *)

\* A set of numbers has a least one.  (The sets 1 .. i are well founded.)
LEMMA LeastNumber ==
  ASSUME NEW T \in SUBSET Nat, T # {}
  PROVE  \E m \in T : \A k \in T : m <= k
<1> DEFINE U == {1 .. i : i \in T}
<1>1. U \subseteq FiniteSubsetsOf(Nat) /\ U # {}
  <2>1. ASSUME NEW i \in T
        PROVE  1 .. i \in SUBSET Nat /\ IsFiniteSet(1 .. i)
    <3>1. i \in Int /\ 1 \in Int /\ 1 .. i \subseteq Nat
      OBVIOUS
    <3> QED
      BY <3>1, FS_Interval
  <2> QED
    BY <2>1 DEF FiniteSubsetsOf
<1>2. IsWellFoundedOn(StrictSubsetOrdering(Nat), FiniteSubsetsOf(Nat))
  BY FS_StrictSubsetOrderingWellFounded
<1> HIDE DEF U
<1>3. PICK x \in U : \A y \in U : <<y, x>> \notin StrictSubsetOrdering(Nat)
  BY <1>1, <1>2, WFMin
<1>4. PICK m \in T : x = 1 .. m
  BY <1>3 DEF U
<1>5. ASSUME NEW k \in T, k < m
      PROVE  FALSE
  <2>1. 1 .. k \in U /\ 1 .. k \subseteq 1 .. m /\ m \in 1 .. m /\ m \notin 1 .. k
    BY <1>5 DEF U
  <2>2. <<1 .. k, 1 .. m>> \in StrictSubsetOrdering(Nat)
    BY <2>1 DEF StrictSubsetOrdering
  <2> QED
    BY <1>3, <1>4, <2>1, <2>2
<1> QED
  BY <1>5

\* Ordered checks object to nothing exactly if none of them does.
LEMMA NoneObjects ==
  ASSUME NEW cs, NEW n \in Nat, DOMAIN cs = 1 .. n, NEW codes, NEW pass, pass \notin codes,
         \A i \in 1 .. n : cs[i] \subseteq codes
  PROVE  (\A a \in codes : ~Answers(cs, pass, a)) <=> \A i \in 1 .. n : cs[i] = {}
<1>1. ASSUME NEW k \in 1 .. n, cs[k] # {}
      PROVE  \E a \in codes : Answers(cs, pass, a)
  <2> DEFINE T == {i \in 1 .. n : cs[i] # {}}
  <2>1. PICK m \in T : \A i \in T : m <= i
    <3>1. T \in SUBSET Nat /\ T # {}
      BY <1>1
    <3> HIDE DEF T
    <3> QED
      BY <3>1, LeastNumber
  <2>2. \A j \in 1 .. m - 1 : cs[j] = {}
    BY <2>1
  <2>3. PICK a : a \in cs[m]
    BY <2>1
  <2>4. m \in DOMAIN cs /\ a \in codes
    BY <2>1, <2>3
  <2> QED
    BY <2>2, <2>3, <2>4 DEF Answers
<1>2. ASSUME \A i \in 1 .. n : cs[i] = {}, NEW a \in codes
      PROVE  ~Answers(cs, pass, a)
  BY <1>2 DEF Answers
<1> QED
  BY <1>1, <1>2

-----------------------------------------------------------------------------
(* What a claim is refused for.                                            *)

LEMMA OperationAccepted ==
  ASSUME NEW op
  PROVE  /\ OperationCheck(op) \subseteq {400, 500}
         /\ (OperationCheck(op) = {}) <=> op \in KeyOperations
<1>1. Null \notin KeyOperations
  BY GrantsAssumption
<1>2. OperationCheck(op) = IF op = Null THEN {500} ELSE IF op \in KeyOperations THEN {} ELSE {400}
  BY DEF OperationCheck, Check
<1>3. CASE op = Null
  BY <1>1, <1>2, <1>3
<1>4. CASE op # Null /\ op \in KeyOperations
  BY <1>2, <1>4
<1>5. CASE op # Null /\ op \notin KeyOperations
  BY <1>2, <1>5
<1> QED
  BY <1>3, <1>4, <1>5

\* A group is accepted exactly if it names a key group and operations, and
\* only operations that there are.
LEMMA GroupAccepted ==
  ASSUME NEW group \in Group \union {Null}
  PROVE  GroupObjection(group) = {} <=>
           /\ group # Null
           /\ group.keyGroup \notin {Null, ""}
           /\ OrEmpty(group.operations) # <<>>
           /\ \A i \in 1 .. Len(OrEmpty(group.operations)) :
                OrEmpty(group.operations)[i] \in KeyOperations
<1>2. CASE group = Null
  <2>1. GroupChecks(group) = <<{500}>>
    BY <1>2 DEF GroupChecks, Check
  <2> DEFINE cs == GroupChecks(group)
  <2>2. 1 \in DOMAIN cs /\ cs[1] = {500}
    BY <2>1
  <2>3. Answers(cs, 0, 500)
    BY <2>2 DEF Answers
  <2> QED
    BY <1>2, <2>3 DEF GroupObjection
<1>3. CASE group # Null
  <2> DEFINE ops == OrEmpty(group.operations)
             n == Len(ops)
             cs == GroupChecks(group)
  <2>1. group \in Group
    BY <1>3
  <2>2. ops \in Operations /\ n \in Nat /\ DOMAIN ops = 1 .. n
    <3>1. group.operations \in Operations \union {Null}
      BY <2>1 DEF Group
    <3>2. ops \in Operations
      BY <3>1, EmptySeq DEF OrEmpty, Operations
    <3> QED
      BY <3>2, LenProperties DEF Operations
  <2>3. cs = [i \in 1 .. n + 2 |->
                IF i <= n THEN OperationCheck(ops[i])
                ELSE IF i = n + 1 THEN Check(group.keyGroup \in {Null, ""}, 400)
                ELSE Check(ops = <<>>, 400)]
    BY <1>3 DEF GroupChecks
  <2> HIDE DEF cs, n, ops
  <2>4. /\ DOMAIN cs = 1 .. n + 2
        /\ \A i \in 1 .. n : cs[i] = OperationCheck(ops[i])
        /\ cs[n + 1] \in {{}, {400}} /\ cs[n + 2] \in {{}, {400}}
    <3>1. n + 1 \in 1 .. n + 2 /\ n + 2 \in 1 .. n + 2 /\ \A i \in 1 .. n : i \in 1 .. n + 2 /\ i <= n
      BY <2>2
    <3>2. ~(n + 1 <= n) /\ ~(n + 2 <= n) /\ n + 2 # n + 1
      BY <2>2
    <3> QED
      BY <2>3, <3>1, <3>2, Zenon DEF Check
  <2>5. /\ (cs[n + 1] = {}) <=> group.keyGroup \notin {Null, ""}
        /\ (cs[n + 2] = {}) <=> ops # <<>>
    <3>1. n + 1 \in 1 .. n + 2 /\ n + 2 \in 1 .. n + 2
      BY <2>2
    <3>2. ~(n + 1 <= n) /\ ~(n + 2 <= n) /\ n + 2 # n + 1 /\ {400} # {}
      BY <2>2
    <3> QED
      BY <2>3, <3>1, <3>2, Zenon DEF Check
  <2>6. ASSUME NEW i \in 1 .. n
        PROVE  cs[i] \subseteq {400, 500} /\ ((cs[i] = {}) <=> ops[i] \in KeyOperations)
    <3>1. cs[i] = OperationCheck(ops[i])
      BY <2>4
    <3>2. /\ OperationCheck(ops[i]) \subseteq {400, 500}
          /\ (OperationCheck(ops[i]) = {}) <=> ops[i] \in KeyOperations
      BY OperationAccepted
    <3> QED
      BY <3>1, <3>2
  <2>7. \A i \in 1 .. n + 2 : cs[i] \subseteq {400, 500}
    <3>1. \A i \in 1 .. n + 2 : i \in 1 .. n \/ i = n + 1 \/ i = n + 2
      BY <2>2
    <3>2. ASSUME NEW i \in 1 .. n + 2
          PROVE  cs[i] \subseteq {400, 500}
      <4>1. CASE i \in 1 .. n
        BY <2>6, <4>1
      <4>2. CASE i = n + 1
        BY <2>4, <4>2
      <4>3. CASE i = n + 2
        BY <2>4, <4>3
      <4> QED
        BY <3>1, <4>1, <4>2, <4>3
    <3> QED
      BY <3>2
  <2>8. (\A a \in {400, 500} : ~Answers(cs, 0, a)) <=> \A i \in 1 .. n + 2 : cs[i] = {}
    <3> DEFINE m == n + 2
               codes == {400, 500}
    <3>1. m \in Nat /\ 0 \notin codes
      BY <2>2
    <3>2. DOMAIN cs = 1 .. m /\ \A i \in 1 .. m : cs[i] \subseteq codes
      BY <2>4, <2>7
    <3> HIDE DEF m, codes
    <3>3. (\A a \in codes : ~Answers(cs, 0, a)) <=> \A i \in 1 .. m : cs[i] = {}
      BY <3>1, <3>2, NoneObjects
    <3> QED
      BY <3>3 DEF m, codes
  <2>9. (\A i \in 1 .. n + 2 : cs[i] = {}) <=>
          cs[n + 1] = {} /\ cs[n + 2] = {} /\ \A i \in 1 .. n : cs[i] = {}
    <3>1. \A i \in 1 .. n + 2 : i \in 1 .. n \/ i = n + 1 \/ i = n + 2
      BY <2>2
    <3>2. n + 1 \in 1 .. n + 2 /\ n + 2 \in 1 .. n + 2 /\ \A i \in 1 .. n : i \in 1 .. n + 2
      BY <2>2
    <3> QED
      BY <3>1, <3>2
  <2>10. (\A i \in 1 .. n : cs[i] = {}) <=> \A i \in 1 .. n : ops[i] \in KeyOperations
    BY <2>6
  <2> QED
    <3>1. (GroupObjection(group) = {}) <=> \A a \in {400, 500} : ~Answers(cs, 0, a)
      BY DEF GroupObjection, cs
    <3>2. (GroupObjection(group) = {}) <=>
             /\ group.keyGroup \notin {Null, ""} /\ ops # <<>>
             /\ \A i \in 1 .. n : ops[i] \in KeyOperations
      BY <2>8, <2>9, <2>5, <2>10, <3>1, Zenon
    <3> QED
      BY <1>3, <3>2, Zenon DEF n, ops
<1> QED
  BY <1>2, <1>3

\* A claim is accepted exactly if each of its groups is.
LEMMA ClaimAccepted ==
  ASSUME NEW claim \in GrantsClaim
  PROVE  /\ OrEmpty(claim.groups) \in Groups
         /\ ClaimObjection(claim) = {} <=>
              \A i \in 1 .. Len(OrEmpty(claim.groups)) :
                GroupObjection(OrEmpty(claim.groups)[i]) = {}
<1> DEFINE groups == OrEmpty(claim.groups)
           cs == [i \in DOMAIN groups |-> GroupObjection(groups[i])]
<1>1. groups \in Groups
  <2>1. claim.groups \in Groups \union {Null}
    BY DEF GrantsClaim
  <2> QED
    BY <2>1, EmptySeq DEF OrEmpty, Groups
<1>2. Len(groups) \in Nat /\ DOMAIN groups = 1 .. Len(groups)
  BY <1>1, LenProperties DEF Groups
<1>3. claim # Null
  BY GrantsAssumption
<1>4. (ClaimObjection(claim) = {}) <=> \A a \in {400, 500} : ~Answers(cs, 0, a)
  BY <1>3 DEF ClaimObjection
<1>5. \A g : GroupObjection(g) \subseteq {400, 500}
  BY DEF GroupObjection
<1> HIDE DEF groups
<1>6. DOMAIN cs = 1 .. Len(groups) /\ \A i \in 1 .. Len(groups) : cs[i] = GroupObjection(groups[i])
  BY <1>2
<1> HIDE DEF cs
<1>7. \A i \in 1 .. Len(groups) : cs[i] \subseteq {400, 500}
  BY <1>5, <1>6
<1>8. (\A a \in {400, 500} : ~Answers(cs, 0, a)) <=> \A i \in 1 .. Len(groups) : cs[i] = {}
  <2> DEFINE m == Len(groups)
             codes == {400, 500}
  <2>1. m \in Nat /\ 0 \notin codes
    BY <1>2
  <2>2. DOMAIN cs = 1 .. m /\ \A i \in 1 .. m : cs[i] \subseteq codes
    BY <1>6, <1>7
  <2> HIDE DEF m, codes
  <2>3. (\A a \in codes : ~Answers(cs, 0, a)) <=> \A i \in 1 .. m : cs[i] = {}
    BY <2>1, <2>2, NoneObjects
  <2> QED
    BY <2>3 DEF m, codes
<1> QED
  <2>1. (\A i \in 1 .. Len(groups) : cs[i] = {}) <=>
          \A i \in 1 .. Len(groups) : GroupObjection(groups[i]) = {}
    BY <1>6, Zenon
  <2> QED
    BY <1>1, <1>4, <1>8, <2>1, Zenon DEF groups

-----------------------------------------------------------------------------
(* The conversions.                                                        *)

\* What an accepted claim with groups is made of.
LEMMA AcceptedGroups ==
  ASSUME NEW claim \in GrantsClaim, ClaimObjection(claim) = {},
         NEW i \in 1 .. Len(OrEmpty(claim.groups))
  PROVE  LET group == OrEmpty(claim.groups)[i] IN
           /\ group \in Group /\ group.keyGroup \in STRING \ {""}
           /\ group.operations # Null /\ group.operations \in Seq(KeyOperations) \ {<<>>}
<1> DEFINE group == OrEmpty(claim.groups)[i]
           ops == OrEmpty(group.operations)
<1>1. group \in Group \union {Null} /\ GroupObjection(group) = {}
  <2>1. OrEmpty(claim.groups) \in Seq(Group \union {Null})
    BY ClaimAccepted DEF Groups
  <2> QED
    BY <2>1, ClaimAccepted, ElementOfSeq
<1> HIDE DEF group
<1>2. /\ group \in Group /\ group.keyGroup \notin {Null, ""} /\ ops # <<>>
      /\ \A j \in 1 .. Len(ops) : ops[j] \in KeyOperations
  BY <1>1, GroupAccepted
<1>3. group.keyGroup \in STRING \ {""} /\ group.operations \in Operations \union {Null}
  BY <1>2 DEF Group
<1>4. group.operations # Null /\ ops = group.operations
  BY <1>2 DEF OrEmpty
<1>5. ops \in Seq(STRING \union {Null})
  BY <1>3, <1>4 DEF Operations
<1>6. ops \in Seq(KeyOperations)
  <2> HIDE DEF ops
  <2>1. Len(ops) \in Nat /\ ops \in [1 .. Len(ops) -> STRING \union {Null}]
    BY <1>5, LenProperties
  <2>2. ops \in [1 .. Len(ops) -> KeyOperations]
    BY <1>2, <2>1
  <2> QED
    BY <2>1, <2>2
<1> QED
  BY <1>2, <1>3, <1>4, <1>6 DEF group

\* What the server stores of an accepted claim is an authorization: no blank
\* key group, no empty set of operations, none that does not exist.
THEOREM AcceptedIsAuthorization ==
  ASSUME NEW claim \in GrantsClaim \union {Null}, ClaimObjection(claim) = {}
  PROVE  ToAuthorization(claim) \in Authorization
<1>1. CASE claim = Null
  BY <1>1, EmptySeq DEF ToAuthorization, None, Authorization
<1>2. CASE claim # Null
  <2> DEFINE groups == OrEmpty(claim.groups)
             grants == [i \in DOMAIN groups |-> [keyGroup |-> groups[i].keyGroup,
                                                 operations |-> ToSet(groups[i].operations)]]
  <2>1. claim \in GrantsClaim
    BY <1>2
  <2>2. Len(groups) \in Nat /\ DOMAIN groups = 1 .. Len(groups)
    BY <2>1, ClaimAccepted, LenProperties DEF Groups
  <2>3. ASSUME NEW i \in 1 .. Len(groups)
        PROVE  grants[i] \in Grant
    <3>1. groups[i].keyGroup \in STRING \ {""} /\ groups[i].operations \in Seq(KeyOperations) \ {<<>>}
      BY <2>1, AcceptedGroups
    <3> DEFINE ops == groups[i].operations
    <3>2. ToSet(ops) \in (SUBSET KeyOperations) \ {{}}
      <4> HIDE DEF ops
      <4>1. Len(ops) \in Nat \ {0} /\ DOMAIN ops = 1 .. Len(ops) /\ \A j \in 1 .. Len(ops) : ops[j] \in KeyOperations
        BY <3>1, LenProperties, ElementOfSeq, EmptySeq DEF ops
      <4>2. 1 \in DOMAIN ops
        BY <4>1
      <4>3. ToSet(ops) \subseteq KeyOperations
        BY <4>1, Zenon DEF ToSet
      <4>4. ops[1] \in ToSet(ops)
        BY <4>2, Zenon DEF ToSet
      <4> QED
        BY <4>3, <4>4
    <3>3. grants[i] = [keyGroup |-> groups[i].keyGroup, operations |-> ToSet(ops)]
      BY <2>2
    <3>4. ASSUME NEW A, NEW B, NEW k \in A, NEW o \in B
          PROVE  [keyGroup |-> k, operations |-> o] \in [keyGroup : A, operations : B]
      OBVIOUS
    <3> HIDE DEF ops, grants
    <3>5. [keyGroup |-> groups[i].keyGroup, operations |-> ToSet(ops)] \in Grant
      BY <3>1, <3>2, <3>4, Zenon DEF Grant
    <3> QED
      BY <3>3, <3>5, Zenon
  <2>4. grants \in Seq(Grant)
    <3>1. DOMAIN grants = 1 .. Len(groups) /\ grants = [i \in 1 .. Len(groups) |-> grants[i]]
      BY <2>2
    <3> HIDE DEF grants
    <3>2. grants \in [1 .. Len(groups) -> Grant]
      BY <2>3, <3>1
    <3> QED
      BY <2>2, <3>2
  <2>5. claim.control \in BOOLEAN
    BY <2>1 DEF GrantsClaim
  <2>6. ToAuthorization(claim) = [controlPlane |-> claim.control, grants |-> grants]
    BY <1>2 DEF ToAuthorization
  <2> HIDE DEF grants
  <2> QED
    BY <2>4, <2>5, <2>6 DEF Authorization
<1> QED
  BY <1>1, <1>2

LEMMA SameElements == ASSUME NEW A, NEW B, \A x : x \in A <=> x \in B PROVE A = B
  OBVIOUS

LEMMA GroupMade ==
  ASSUME NEW k \in STRING \union {Null}, NEW o \in Operations \union {Null}
  PROVE  [keyGroup |-> k, operations |-> o] \in Group
  BY DEF Group

LEMMA GrantFields ==
  ASSUME NEW g \in Grant
  PROVE  g = [keyGroup |-> g.keyGroup, operations |-> g.operations]
<1>1. ASSUME NEW A, NEW B, NEW r \in [keyGroup : A, operations : B]
      PROVE  r = [keyGroup |-> r.keyGroup, operations |-> r.operations]
  OBVIOUS
<1> QED
  BY <1>1, Zenon DEF Grant

\* What From writes of one grant.
LEMMA GrantWritten ==
  ASSUME NEW g \in Grant, NEW w, w = [keyGroup |-> g.keyGroup, operations |-> SetToSeq(g.operations)]
  PROVE  /\ w \in Group /\ GroupObjection(w) = {}
         /\ w.keyGroup = g.keyGroup /\ w.operations # Null
         /\ w.operations \in Seq(KeyOperations) /\ ToSet(w.operations) = g.operations
<1> DEFINE ops == SetToSeq(g.operations)
<1>1. g.keyGroup \in STRING \ {""} /\ g.operations \in SUBSET KeyOperations /\ g.operations # {}
  BY Zenon DEF Grant
<1>2. ops \in Seq(g.operations) /\ ToSet(ops) = g.operations
  BY <1>1, FewOperations, ListsAll
<1>3. w.keyGroup = g.keyGroup /\ w.operations = ops
  OBVIOUS
<1> HIDE DEF ops
<1>4. ops \in Seq(KeyOperations)
  BY <1>1, <1>2, SeqMonotonic
<1>5. Len(ops) \in Nat /\ \A i \in 1 .. Len(ops) : ops[i] \in KeyOperations
  BY <1>4, LenProperties, ElementOfSeq
<1>6. ops # <<>>
  <2>1. ASSUME ops = <<>> PROVE FALSE
    <3>1. DOMAIN ops = {}
      BY <2>1
    <3> QED
      BY <1>1, <1>2, <3>1 DEF ToSet
  <2> QED
    BY <2>1
<1>7. ops \in Operations /\ ops # Null
  <2>1. KeyOperations \subseteq STRING \union {Null}
    BY GrantsAssumption
  <2>2. ops \in Seq(STRING \union {Null})
    BY <1>4, <2>1, SeqMonotonic
  <2> QED
    BY <2>2, GrantsAssumption DEF Operations
<1>8. w \in Group
  <2>1. w = [keyGroup |-> g.keyGroup, operations |-> ops]
    BY DEF ops
  <2>2. g.keyGroup \in STRING \union {Null} /\ ops \in Operations \union {Null}
    BY <1>1, <1>7
  <2> QED
    BY <2>1, <2>2, GroupMade, Zenon
<1>9. Null # w /\ w.keyGroup \notin {Null, ""} /\ OrEmpty(w.operations) = ops
  BY <1>1, <1>3, <1>7, <1>8, GrantsAssumption DEF OrEmpty
<1>10. GroupObjection(w) = {}
  <2> w \in Group \union {Null}
    BY <1>8
  <2> QED
    BY <1>5, <1>6, <1>9, GroupAccepted
<1> QED
  BY <1>2, <1>3, <1>4, <1>7, <1>8, <1>10

\* What From writes of an authorization.
LEMMA GrantsWritten ==
  ASSUME NEW a \in Authorization
  PROVE  /\ From(a) \in GrantsClaim /\ From(a).control = a.controlPlane
         /\ From(a).groups \in Groups /\ From(a).groups # Null
         /\ Len(a.grants) \in Nat
         /\ DOMAIN From(a).groups = 1 .. Len(a.grants) /\ Len(From(a).groups) = Len(a.grants)
         /\ \A i \in 1 .. Len(a.grants) :
              /\ a.grants[i] \in Grant
              /\ From(a).groups[i] = [keyGroup |-> a.grants[i].keyGroup,
                                      operations |-> SetToSeq(a.grants[i].operations)]
<1> DEFINE n == Len(a.grants)
           groups == [i \in DOMAIN a.grants |->
                        [keyGroup |-> a.grants[i].keyGroup,
                         operations |-> SetToSeq(a.grants[i].operations)]]
<1>1. a.controlPlane \in BOOLEAN /\ a.grants \in Seq(Grant)
  BY Zenon DEF Authorization
<1>2. n \in Nat /\ DOMAIN a.grants = 1 .. n
  BY <1>1, LenProperties
<1>3. \A i \in 1 .. n : a.grants[i] \in Grant
  BY <1>1, ElementOfSeq
<1>4. From(a) = [control |-> a.controlPlane, groups |-> groups]
  BY DEF From
<1> HIDE DEF n
<1>5. \A i \in 1 .. n : groups[i] = [keyGroup |-> a.grants[i].keyGroup,
                                     operations |-> SetToSeq(a.grants[i].operations)]
  BY <1>2
<1>6. DOMAIN groups = 1 .. n /\ groups = [i \in 1 .. n |-> groups[i]]
  BY <1>2
<1> HIDE DEF groups
<1>7. \A i \in 1 .. n : groups[i] \in Group
  BY <1>3, <1>5, GrantWritten
<1>8. groups \in Groups
  <2>1. groups \in [1 .. n -> Group \union {Null}]
    BY <1>6, <1>7
  <2> QED
    BY <1>2, <2>1 DEF Groups
<1>9. groups # Null
  BY <1>8, GrantsAssumption
<1>10. From(a) \in GrantsClaim
  BY <1>1, <1>4, <1>8 DEF GrantsClaim
<1>11. Len(groups) = n
  BY <1>2, <1>6, <1>8, LenProperties DEF Groups
<1>12. From(a).control = a.controlPlane /\ From(a).groups = groups
  BY <1>4
<1> QED
  BY <1>2, <1>3, <1>5, <1>6, <1>8, <1>9, <1>10, <1>11, <1>12, Zenon DEF n

\* From and toAuthorization are inverses on authorizations: the claim that the
\* server signs is accepted by whoever reads it, and read as what was stored.
THEOREM RoundTrip ==
  ASSUME NEW a \in Authorization
  PROVE  ClaimObjection(From(a)) = {} /\ ToAuthorization(From(a)) = a
<1> DEFINE n == Len(a.grants)
           groups == From(a).groups
           grants == [i \in DOMAIN groups |-> [keyGroup |-> groups[i].keyGroup,
                                               operations |-> ToSet(groups[i].operations)]]
<1>1. /\ From(a) \in GrantsClaim /\ From(a) # Null /\ OrEmpty(groups) = groups
      /\ n \in Nat /\ DOMAIN groups = 1 .. n /\ Len(groups) = n
  BY GrantsWritten, GrantsAssumption DEF OrEmpty
<1>2. ASSUME NEW i \in 1 .. n
      PROVE  /\ GroupObjection(groups[i]) = {} /\ a.grants[i] \in Grant
             /\ groups[i].keyGroup = a.grants[i].keyGroup
             /\ ToSet(groups[i].operations) = a.grants[i].operations
  <2> DEFINE g == a.grants[i]
             r == groups[i]
  <2>1. g \in Grant /\ r = [keyGroup |-> g.keyGroup, operations |-> SetToSeq(g.operations)]
    BY GrantsWritten, Zenon
  <2> HIDE DEF g, r
  <2>2. GroupObjection(r) = {} /\ r.keyGroup = g.keyGroup /\ ToSet(r.operations) = g.operations
    BY <2>1, GrantWritten
  <2> QED
    BY <2>1, <2>2, Zenon DEF g, r
<1>3. ClaimObjection(From(a)) = {}
  BY <1>1, <1>2, ClaimAccepted
<1>4. grants = a.grants
  <2>2. \A i \in 1 .. n : grants[i] = a.grants[i]
    <3> TAKE i \in 1 .. n
    <3>1. grants[i] = [keyGroup |-> a.grants[i].keyGroup, operations |-> a.grants[i].operations]
      BY <1>1, <1>2
    <3> QED
      BY <1>2, <3>1, GrantFields, Zenon
  <2>3. DOMAIN grants = 1 .. n /\ grants = [i \in 1 .. n |-> grants[i]]
    BY <1>1
  <2>4. a.grants = [i \in 1 .. n |-> a.grants[i]]
    <3>1. a.grants \in Seq(Grant)
      BY Zenon DEF Authorization
    <3> QED
      BY <3>1
  <2> HIDE DEF grants, n
  <2> QED
    BY <2>2, <2>3, <2>4
<1>5. ToAuthorization(From(a)) = [controlPlane |-> a.controlPlane, grants |-> a.grants]
  <2>1. From(a).control = a.controlPlane
    BY GrantsWritten
  <2> QED
    BY <1>1, <1>4, <2>1 DEF ToAuthorization
<1>6. a = [controlPlane |-> a.controlPlane, grants |-> a.grants]
  BY DEF Authorization
<1> QED
  BY <1>3, <1>5, <1>6

\* What a claim with groups, none of them null, says its bearer may do.
LEMMA Saying ==
  ASSUME NEW claim, claim # Null, NEW groups, groups = OrEmpty(claim.groups),
         NEW n \in Nat, DOMAIN groups = 1 .. n
  PROVE  /\ Says(claim) = [control |-> claim.control, may |-> Says(claim).may]
         /\ \A x : x \in Says(claim).may <=>
              \E i \in 1 .. n : \E op \in ToSet(groups[i].operations) : x = <<groups[i].keyGroup, op>>
<1> DEFINE may == UNION {{<<g.keyGroup, op>> : op \in ToSet(g.operations)} : g \in ToSet(groups)}
<1>1. Says(claim) = [control |-> claim.control, may |-> may]
  BY DEF Says
<1>2. \A g : g \in ToSet(groups) <=> \E i \in 1 .. n : g = groups[i]
  BY DEF ToSet
<1>3. \A x : x \in may <=> \E g \in ToSet(groups) : \E op \in ToSet(g.operations) : x = <<g.keyGroup, op>>
  OBVIOUS
<1> HIDE DEF may
<1>4. \A x : x \in may <=>
        \E i \in 1 .. n : \E op \in ToSet(groups[i].operations) : x = <<groups[i].keyGroup, op>>
  <2> TAKE x
  <2>1. x \in may <=> \E g \in ToSet(groups) : \E op \in ToSet(g.operations) : x = <<g.keyGroup, op>>
    BY <1>3
  <2> HIDE DEF may
  <2> QED
    BY ONLY <1>2, <2>1
<1> QED
  BY <1>1, <1>4

\* What the server stores of an accepted claim, written back, says what the
\* claim said: no operation or group more, none less.
THEOREM SaysTheSame ==
  ASSUME NEW claim \in GrantsClaim \union {Null}, ClaimObjection(claim) = {}
  PROVE  Says(From(ToAuthorization(claim))) = Says(claim)
<1> DEFINE a == ToAuthorization(claim)
           w == From(a)
<1>1. a \in Authorization
  BY AcceptedIsAuthorization
<1>2. /\ w \in GrantsClaim /\ w # Null /\ w.control = a.controlPlane
      /\ OrEmpty(w.groups) = w.groups /\ Len(a.grants) \in Nat
      /\ DOMAIN w.groups = 1 .. Len(a.grants)
  BY <1>1, GrantsWritten, GrantsAssumption DEF OrEmpty
<1>3. ASSUME NEW i \in 1 .. Len(a.grants)
      PROVE  /\ w.groups[i].keyGroup = a.grants[i].keyGroup
             /\ ToSet(w.groups[i].operations) = a.grants[i].operations
  BY <1>1, GrantsWritten, GrantWritten
<1>4. /\ Says(w) = [control |-> w.control, may |-> Says(w).may]
      /\ \A x : x \in Says(w).may <=>
           \E i \in 1 .. Len(a.grants) :
             \E op \in ToSet(w.groups[i].operations) : x = <<w.groups[i].keyGroup, op>>
  BY <1>2, Saying
<1>5. /\ Says(w) = [control |-> a.controlPlane, may |-> Says(w).may]
      /\ \A x : x \in Says(w).may <=>
           \E i \in 1 .. Len(a.grants) :
             \E op \in a.grants[i].operations : x = <<a.grants[i].keyGroup, op>>
  <2> HIDE DEF w, a
  <2>1. \A x : (\E i \in 1 .. Len(a.grants) :
                  \E op \in ToSet(w.groups[i].operations) : x = <<w.groups[i].keyGroup, op>>) <=>
               (\E i \in 1 .. Len(a.grants) :
                  \E op \in a.grants[i].operations : x = <<a.grants[i].keyGroup, op>>)
    BY <1>3
  <2> QED
    BY <1>2, <1>4, <2>1
<1>6. CASE claim = Null
  <2>1. a = None
    BY <1>6 DEF ToAuthorization
  <2>2. a.controlPlane = FALSE /\ Len(a.grants) = 0
    BY <2>1 DEF None
  <2>3. Says(w).may = {}
    BY <1>5, <2>2
  <2>4. Says(claim) = [control |-> FALSE, may |-> {}]
    BY <1>6 DEF Says
  <2> QED
    BY <1>5, <2>2, <2>3, <2>4, Zenon
<1>7. CASE claim # Null
  <2> DEFINE groups == OrEmpty(claim.groups)
             n == Len(groups)
  <2>1. claim \in GrantsClaim
    BY <1>7
  <2>2. n \in Nat /\ DOMAIN groups = 1 .. n
    BY <2>1, ClaimAccepted, LenProperties DEF Groups
  <2>3. /\ Says(claim) = [control |-> claim.control, may |-> Says(claim).may]
        /\ \A x : x \in Says(claim).may <=>
             \E i \in 1 .. n : \E op \in ToSet(groups[i].operations) : x = <<groups[i].keyGroup, op>>
    <3> HIDE DEF n, groups
    <3>1. groups = OrEmpty(claim.groups)
      BY DEF groups
    <3> QED
      BY <1>7, <2>2, <3>1, Saying
  <2>4. a = [controlPlane |-> claim.control,
             grants |-> [i \in DOMAIN groups |->
                           [keyGroup |-> groups[i].keyGroup,
                            operations |-> ToSet(groups[i].operations)]]]
    BY <1>7 DEF ToAuthorization
  <2> HIDE DEF n, groups, a
  <2>5. /\ a.controlPlane = claim.control /\ DOMAIN a.grants = 1 .. n
        /\ \A i \in 1 .. n : /\ a.grants[i].keyGroup = groups[i].keyGroup
                             /\ a.grants[i].operations = ToSet(groups[i].operations)
    BY <2>2, <2>4
  <2>6. Len(a.grants) = n
    <3>1. a.grants \in Seq(Grant)
      BY <1>1, Zenon DEF Authorization
    <3> QED
      BY <2>2, <2>5, <3>1, LenProperties
  <2>7. \A x : x \in Says(w).may <=> x \in Says(claim).may
    <3> TAKE x
    <3>1. x \in Says(w).may <=>
            \E i \in 1 .. n : \E op \in a.grants[i].operations : x = <<a.grants[i].keyGroup, op>>
      BY <1>5, <2>6
    <3>2. x \in Says(claim).may <=>
            \E i \in 1 .. n : \E op \in ToSet(groups[i].operations) : x = <<groups[i].keyGroup, op>>
      BY <2>3
    <3> QED
      BY ONLY <2>5, <3>1, <3>2
  <2>8. Says(w).may = Says(claim).may
    BY <2>7, SameElements, Zenon
  <2> QED
    BY <1>5, <2>3, <2>5, <2>8, Zenon DEF a
<1> QED
  BY <1>6, <1>7
=============================================================================
