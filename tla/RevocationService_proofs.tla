---------------------- MODULE RevocationService_proofs ----------------------
(***************************************************************************)
(* Theorems about RevocationService, for every value of its constants: type *)
(* correctness, how far an entry's horizon can fall short of its token,     *)
(* that a revoked token gets through only once the clock has passed its     *)
(* exp, and, under Margin, that a verifier working from a polled denylist   *)
(* never accepts a token whose revocation was acknowledged before the poll, *)
(* and that acknowledged revocations are durable.                           *)
(***************************************************************************)
EXTENDS RevocationService, TLAPS

-----------------------------------------------------------------------------
(* Type correctness.                                                       *)

LEMMA PrunedType ==
  ASSUME NEW m \in Entries, NEW t \in Nat
  PROVE  /\ Pruned(m, t) \in Entries
         /\ Listed(Pruned(m, t)) \subseteq Listed(m)
         /\ \A j \in Listed(Pruned(m, t)) : Pruned(m, t)[j] = m[j]
         /\ \A j \in Listed(m) \ Listed(Pruned(m, t)) : m[j] \in Nat /\ m[j] < t
BY RevocationAssumption DEF Entries, Pruned, Listed

\* A put leaves a well-formed map.
LEMMA PutType ==
  ASSUME TypeOK, NEW a \in Admins, Put(a)
  PROVE  /\ request[a].jti \in Jtis /\ request[a].expiresAt \in Nat
         /\ [byJti EXCEPT ![request[a].jti] = request[a].expiresAt] \in Entries
         /\ byJti' \in Entries
         /\ request' \in [Admins -> Requests]
<1>1. request[a].jti \in Jtis /\ request[a].expiresAt \in Nat
  BY DEF Put, TypeOK, Requests
<1>2. [byJti EXCEPT ![request[a].jti] = request[a].expiresAt] \in Entries
  BY <1>1 DEF TypeOK, Entries
<1>3. byJti' \in Entries
  BY <1>2, PrunedType DEF Put, TypeOK
<1>4. request' \in [Admins -> Requests]
  BY DEF Put, TypeOK, Requests
<1> QED
  BY <1>1, <1>2, <1>3, <1>4

\* Every variable keeps its type.
THEOREM TypeCorrect == Spec => []TypeOK
<1>1. Init => TypeOK
  <2> SUFFICES ASSUME Init
               PROVE  TypeOK
    OBVIOUS
  <2>1. byJti \in Entries /\ disk \in Entries /\ exp \in Entries
    BY DEF Init, Entries
  <2>2. request \in [Admins -> Requests]
    BY DEF Init, Requests
  <2>3. /\ copy \in [Verifiers -> SUBSET Jtis] /\ seen \in [Verifiers -> SUBSET Jtis]
        /\ token \in [Verifiers -> Jtis \union {None}]
    BY DEF Init
  <2> QED
    BY <2>1, <2>2, <2>3 DEF Init, TypeOK, Entries
<1>2. TypeOK /\ [Next]_vars => TypeOK'
  <2> SUFFICES ASSUME TypeOK, [Next]_vars
               PROVE  TypeOK'
    OBVIOUS
  <2> USE DEF TypeOK
  <2>t. Ttls \subseteq Nat /\ ttl \in Nat
    BY RevocationAssumption
  <2>1. CASE Tick
    BY <2>1 DEF Tick, store, readers
  <2>2. CASE Crash
    BY <2>2 DEF Crash, readers, Entries, Requests
  <2>3. ASSUME NEW t \in Ttls, Start(t)
        PROVE  TypeOK'
    BY <2>3 DEF Start, readers
  <2>4. ASSUME NEW j \in Jtis, Issue(j)
        PROVE  TypeOK'
    BY <2>4, <2>t DEF Issue, store, readers
  <2>5. ASSUME NEW a \in Admins, NEW j \in Jtis, ReceiveRevocation(a, j)
        PROVE  TypeOK'
    <3>1. PICK e \in ExpiresAt(j) : request' = [request EXCEPT ![a] = [jti |-> j, expiresAt |-> e]]
      BY <2>5 DEF ReceiveRevocation
    <3>2. e \in Nat
      BY <2>5, <2>t DEF ExpiresAt, ReceiveRevocation
    <3>3. request' \in [Admins -> Requests]
      BY <3>1, <3>2 DEF Requests
    <3> QED
      BY <2>5, <3>3 DEF ReceiveRevocation, store, readers
  <2>6. ASSUME NEW a \in Admins, Revoke(a)
        PROVE  TypeOK'
    BY <2>6, PutType DEF Revoke, Put, Acked, readers
  <2>7. ASSUME NEW a \in Admins, RevokeFails(a)
        PROVE  TypeOK'
    BY <2>7, PutType DEF RevokeFails, Put, Acked, readers
  <2>8. ASSUME NEW v \in Verifiers, Poll(v)
        PROVE  TypeOK'
    <3>1. byJti' \in Entries
      BY <2>8, PrunedType DEF Poll
    <3>2. copy' \in [Verifiers -> SUBSET Jtis]
      BY <2>8 DEF Poll, Listed
    <3> QED
      BY <2>8, <3>1, <3>2 DEF Poll
  <2>9. ASSUME NEW v \in Verifiers, NEW j \in Jtis, PassTimeWindow(v, j)
        PROVE  TypeOK'
    BY <2>9 DEF PassTimeWindow, store
  <2>10. ASSUME NEW v \in Verifiers, DecidePolled(v)
         PROVE  TypeOK'
    BY <2>10 DEF DecidePolled, store
  <2>11. ASSUME NEW v \in Verifiers, DecideDirect(v)
         PROVE  TypeOK'
    BY <2>11, PrunedType DEF DecideDirect
  <2>12. CASE StepBack
    BY <2>12 DEF StepBack, store, readers
  <2>13. CASE UNCHANGED vars
    BY <2>13 DEF vars, store, readers
  <2> QED
    BY <2>1, <2>2, <2>3, <2>4, <2>5, <2>6, <2>7, <2>8, <2>9, <2>10, <2>11, <2>12, <2>13
    DEF Next
<1> QED
  BY <1>1, <1>2, PTL DEF Spec

-----------------------------------------------------------------------------
(* How long entries linger.                                                *)

\* The numbers the proofs below compute with.
LEMMA Numbers ==
  ASSUME TypeOK
  PROVE  /\ Leeway \in Nat /\ Setback \in Nat /\ Ttls \subseteq Nat /\ ttl \in Ttls /\ ttl \in Nat
         /\ clock \in Nat /\ hi \in Nat
         /\ None \notin Nat /\ None \notin Jtis
         /\ \A j \in Jtis : exp[j] # None => exp[j] \in Nat
BY RevocationAssumption DEF TypeOK

\* A horizon that covers a lifetime still does after a step that keeps exp.
LEMMA CoveredStays ==
  ASSUME NEW j, NEW e, LifetimeCovered(j, e), exp'[j] = exp[j]
  PROVE  LifetimeCovered(j, e)'
BY DEF LifetimeCovered

\* Pruning invents no entry and changes none.
LEMMA PrunedLingers ==
  ASSUME NEW m \in Entries, NEW t \in Nat, \A j \in Listed(m) : LifetimeCovered(j, m[j])
  PROVE  \A j \in Listed(Pruned(m, t)) : LifetimeCovered(j, Pruned(m, t)[j])
BY PrunedType

\* A revocation's put writes the horizon its request carries.
LEMMA PutLingers ==
  ASSUME TypeOK, EntriesLinger, NEW a \in Admins, Put(a)
  PROVE  \A j \in Listed(byJti') : LifetimeCovered(j, byJti'[j])
<1> DEFINE r == request[a]
           m == [byJti EXCEPT ![r.jti] = r.expiresAt]
<1>1. r.jti \in Jtis /\ r.expiresAt \in Nat /\ m \in Entries
  BY PutType
<1>2. LifetimeCovered(r.jti, r.expiresAt) /\ \A j \in Listed(byJti) : LifetimeCovered(j, byJti[j])
  BY DEF EntriesLinger, Put
<1>3. ASSUME NEW j \in Listed(m)
      PROVE  LifetimeCovered(j, m[j])
  <2>1. CASE j = r.jti
    BY <1>1, <1>2, <2>1 DEF TypeOK, Entries
  <2>2. CASE j # r.jti
    <3>1. m[j] = byJti[j] /\ j \in Listed(byJti)
      BY <1>1, <2>2 DEF Listed, TypeOK, Entries
    <3> QED
      BY <1>2, <3>1
  <2> QED
    BY <2>1, <2>2
<1>4. byJti' = Pruned(m, clock) /\ clock \in Nat
  BY DEF Put, TypeOK
<1> HIDE DEF m
<1> QED
  BY <1>1, <1>3, <1>4, PrunedLingers

\* Every step keeps the horizons of the entries, and of those to come.
LEMMA LingerStep ==
  ASSUME TypeOK, TypeOK', LingerInv, [Next]_vars
  PROVE  LingerInv'
<1>t. /\ Leeway \in Nat /\ Setback \in Nat /\ Ttls \subseteq Nat /\ ttl \in Ttls /\ ttl \in Nat
      /\ clock \in Nat /\ hi \in Nat /\ clock' \in Nat /\ hi' \in Nat
      /\ None \notin Nat /\ None \notin Jtis
      /\ \A j \in Jtis : exp[j] # None => exp[j] \in Nat
  BY Numbers DEF TypeOK
<1>i. /\ clock <= hi /\ hi <= clock + Setback
      /\ \A j \in Jtis : exp[j] # None => \E t \in Ttls : exp[j] <= hi + t
      /\ EntriesLinger
  BY DEF LingerInv
<1>k. ASSUME UNCHANGED <<clock, hi, exp>>, EntriesLinger'
      PROVE  LingerInv'
  BY <1>i, <1>k DEF LingerInv
<1>1. CASE Tick \/ StepBack
  <2>1. clock' <= hi' /\ hi' <= clock' + Setback /\ hi <= hi' /\ UNCHANGED <<exp, byJti, disk, request>>
    <3>1. CASE Tick
      BY <1>t, <1>i, <3>1 DEF Tick, store
    <3>2. CASE StepBack
      <4>1. PICK c \in 0 .. clock - 1 : c >= hi - Setback /\ clock' = c
        BY <3>2 DEF StepBack
      <4> QED
        BY <1>t, <1>i, <3>2, <4>1 DEF StepBack, store
    <3> QED
      BY <1>1, <3>1, <3>2
  <2>2. ASSUME NEW j \in Jtis, exp[j] # None
        PROVE  \E t \in Ttls : exp[j] <= hi' + t
    <3>1. exp[j] \in Nat /\ \E t \in Ttls : exp[j] <= hi + t
      BY <1>t, <1>i, <2>2
    <3>2. PICK t \in Ttls : exp[j] <= hi + t
      BY <3>1
    <3>3. exp[j] <= hi' + t
      BY <1>t, <2>1, <3>1, <3>2
    <3> QED
      BY <3>3
  <2>3. EntriesLinger'
    BY <1>i, <2>1 DEF EntriesLinger, LifetimeCovered, Listed
  <2> QED
    BY <2>1, <2>2, <2>3 DEF LingerInv
<1>2. CASE Crash
  <2>1. Listed(byJti') = {} /\ UNCHANGED <<clock, hi, exp, disk>> /\ \A a \in Admins : request'[a] = NoRequest
    BY <1>2 DEF Crash, Listed
  <2>2. EntriesLinger'
    BY <1>i, <2>1 DEF EntriesLinger, LifetimeCovered, Listed, NoRequest
  <2> QED
    BY <1>k, <2>1, <2>2
<1>3. ASSUME NEW t \in Ttls, Start(t)
      PROVE  LingerInv'
  <2>1. EntriesLinger'
    BY <1>i, <1>3 DEF Start, EntriesLinger, LifetimeCovered, Listed
  <2> QED
    BY <1>3, <1>k, <2>1 DEF Start
<1>4. ASSUME NEW j \in Jtis, Issue(j)
      PROVE  LingerInv'
  <2>1. /\ exp' = [exp EXCEPT ![j] = clock + ttl] /\ exp[j] = None
        /\ UNCHANGED <<clock, hi, byJti, disk, request>>
    BY <1>4 DEF Issue, store
  <2>2. exp'[j] = clock + ttl /\ \A i \in Jtis \ {j} : exp'[i] = exp[i]
    BY <2>1 DEF TypeOK
  <2>3. ASSUME NEW i \in Jtis, exp'[i] # None
        PROVE  \E t \in Ttls : exp'[i] <= hi + t
    <3>1. CASE i = j
      BY <1>t, <1>i, <2>2, <3>1
    <3>2. CASE i # j
      BY <1>i, <2>2, <2>3, <3>2
    <3> QED
      BY <3>1, <3>2
  <2>4. ASSUME NEW i \in Jtis, NEW e, LifetimeCovered(i, e)
        PROVE  LifetimeCovered(i, e)'
    <3>1. exp'[i] = exp[i]
      BY <2>1, <2>2, <2>4 DEF LifetimeCovered
    <3> QED
      BY <2>4, <3>1, CoveredStays
  <2>5. \A a \in Admins : request[a] # NoRequest => request[a].jti \in Jtis
    BY DEF TypeOK, Requests
  <2>6. ASSUME NEW a \in Admins, request'[a] # NoRequest
        PROVE  LifetimeCovered(request[a].jti, request[a].expiresAt)'
    BY <1>i, <2>1, <2>4, <2>5, <2>6 DEF EntriesLinger
  <2>7. ASSUME NEW i \in Listed(byJti')
        PROVE  LifetimeCovered(i, byJti[i])'
    BY <1>i, <2>1, <2>4, <2>7 DEF EntriesLinger, Listed
  <2>8. ASSUME NEW i \in Listed(disk')
        PROVE  LifetimeCovered(i, disk[i])'
    BY <1>i, <2>1, <2>4, <2>8 DEF EntriesLinger, Listed
  <2>9. EntriesLinger'
    BY <2>6, <2>7, <2>8 DEF EntriesLinger
  <2> QED
    BY <1>i, <2>1, <2>3, <2>9 DEF LingerInv
<1>5. ASSUME NEW a \in Admins, NEW j \in Jtis, ReceiveRevocation(a, j)
      PROVE  LingerInv'
  <2>1. PICK e \in ExpiresAt(j) : request' = [request EXCEPT ![a] = [jti |-> j, expiresAt |-> e]]
    BY <1>5 DEF ReceiveRevocation
  <2>2. exp[j] \in Nat /\ \E t \in Ttls : exp[j] <= hi + t
    BY <1>5, <1>t, <1>i DEF ReceiveRevocation
  <2>3. LifetimeCovered(j, e)
    <3>1. CASE e = exp[j]
      BY <1>t, <2>2, <3>1 DEF LifetimeCovered
    <3>2. CASE e = clock + ttl
      <4>1. PICK t \in Ttls : exp[j] <= hi + t
        BY <2>2
      <4>2. exp[j] + ttl <= e + Setback + t
        BY <1>t, <1>i, <2>2, <3>2, <4>1
      <4> QED
        BY <1>t, <2>2, <4>2 DEF LifetimeCovered
    <3> QED
      BY <3>1, <3>2 DEF ExpiresAt
  <2>4. UNCHANGED <<clock, hi, exp, byJti, disk>>
    BY <1>5 DEF ReceiveRevocation, store
  <2>5. ASSUME NEW b \in Admins, request'[b] # NoRequest
        PROVE  LifetimeCovered(request'[b].jti, request'[b].expiresAt)
    <3>1. CASE b = a
      BY <2>1, <2>3, <3>1 DEF TypeOK
    <3>2. CASE b # a
      <4>1. request'[b] = request[b]
        BY <2>1, <3>2 DEF TypeOK
      <4> QED
        BY <1>i, <2>5, <4>1 DEF EntriesLinger
    <3> QED
      BY <3>1, <3>2
  <2>6. EntriesLinger'
    BY <1>i, <2>4, <2>5 DEF EntriesLinger, LifetimeCovered, Listed
  <2> QED
    BY <1>k, <2>4, <2>6
<1>6. ASSUME NEW a \in Admins, Revoke(a) \/ RevokeFails(a)
      PROVE  LingerInv'
  <2>1. Put(a) /\ (disk' = disk \/ disk' = byJti')
    BY <1>6 DEF Revoke, RevokeFails
  <2>2. /\ UNCHANGED <<clock, hi, exp>>
        /\ request' = [request EXCEPT ![a] = NoRequest]
    BY <2>1 DEF Put
  <2>3. \A j \in Listed(byJti') : LifetimeCovered(j, byJti'[j])
    BY <1>i, <2>1, PutLingers
  <2>4. \A j \in Listed(disk') : LifetimeCovered(j, disk'[j])
    BY <1>i, <2>1, <2>3 DEF EntriesLinger
  <2>5. \A b \in Admins : request'[b] # NoRequest => request'[b] = request[b]
    BY <2>2 DEF TypeOK
  <2>6. EntriesLinger'
    BY <1>i, <2>2, <2>3, <2>4, <2>5 DEF EntriesLinger, LifetimeCovered, Listed
  <2> QED
    BY <1>k, <2>2, <2>6
<1>7. ASSUME NEW v \in Verifiers, Poll(v) \/ DecideDirect(v)
      PROVE  LingerInv'
  <2>1. byJti' = Pruned(byJti, clock) /\ UNCHANGED <<clock, hi, exp, disk, request>>
    BY <1>7 DEF Poll, DecideDirect
  <2>2. \A j \in Listed(byJti') : LifetimeCovered(j, byJti'[j])
    BY <1>t, <1>i, <2>1, PrunedLingers DEF EntriesLinger, TypeOK
  <2>3. EntriesLinger'
    BY <1>i, <2>1, <2>2 DEF EntriesLinger, LifetimeCovered, Listed
  <2> QED
    BY <1>k, <2>1, <2>3
<1>8. ASSUME UNCHANGED <<clock, hi, exp, byJti, disk, request>>
      PROVE  LingerInv'
  BY <1>i, <1>8 DEF LingerInv, EntriesLinger, LifetimeCovered, Listed
<1>9. ASSUME NEW v \in Verifiers, NEW j \in Jtis, PassTimeWindow(v, j)
      PROVE  LingerInv'
  BY <1>8, <1>9 DEF PassTimeWindow, store
<1>10. ASSUME NEW v \in Verifiers, DecidePolled(v)
       PROVE  LingerInv'
  BY <1>8, <1>10 DEF DecidePolled, store
<1>11. CASE UNCHANGED vars
  BY <1>8, <1>11 DEF vars, store
<1> QED
  BY <1>1, <1>2, <1>3, <1>4, <1>5, <1>6, <1>7, <1>9, <1>10, <1>11 DEF Next

LEMMA LingerInvariant == Spec => []LingerInv
<1>1. Init => LingerInv
  BY RevocationAssumption DEF Init, LingerInv, EntriesLinger, Listed
<1>2. TypeOK /\ TypeOK' /\ LingerInv /\ [Next]_vars => LingerInv'
  BY LingerStep
<1> QED
  BY <1>1, <1>2, TypeCorrect, PTL DEF Spec

\* No entry's horizon falls short of its token by more than the largest setback
\* of the clock and the difference of two configured TTLs.
THEOREM EntriesLingerAlways == Spec => []EntriesLinger
<1>1. LingerInv => EntriesLinger
  BY DEF LingerInv
<1> QED
  BY <1>1, LingerInvariant, PTL

\* With one TTL and a clock that is never set back, every entry covers its token.
COROLLARY EntriesCover ==
  ASSUME Setback = 0, \A t1, t2 \in Ttls : t1 = t2
  PROVE  Spec => [](Listed(byJti) \subseteq Covering(byJti))
<1>1. ASSUME TypeOK, EntriesLinger, NEW j \in Listed(byJti)
      PROVE  j \in Covering(byJti)
  <2>1. j \in Jtis /\ byJti[j] \in Nat /\ LifetimeCovered(j, byJti[j])
    BY <1>1 DEF Listed, EntriesLinger, TypeOK, Entries
  <2>2. exp[j] \in Nat /\ Ttls \subseteq Nat
    BY <1>1, <2>1, Numbers DEF LifetimeCovered
  <2>3. PICK t1, t2 \in Ttls : exp[j] + t2 <= byJti[j] + Setback + t1
    BY <2>1 DEF LifetimeCovered
  <2>4. exp[j] <= byJti[j]
    BY <2>1, <2>2, <2>3
  <2> QED
    BY <1>1, <2>1, <2>4 DEF Covering, Covers, LifetimeCovered
<1>2. TypeOK /\ EntriesLinger => Listed(byJti) \subseteq Covering(byJti)
  BY <1>1
<1> QED
  BY <1>2, TypeCorrect, EntriesLingerAlways, PTL

-----------------------------------------------------------------------------
(* Revocations.                                                            *)

\* What pruning takes from the covering entries belonged to tokens that have expired.
LEMMA PrunedAreExpired ==
  ASSUME TypeOK, LingerInv, NEW m \in Entries, NEW j \in Covering(m)
  PROVE  Expired(j) \/ j \in Covering(Pruned(m, clock))
<1>1. /\ j \in Jtis /\ m[j] \in Nat /\ j \in Listed(m)
      /\ exp[j] \in Nat /\ exp[j] <= m[j]
  BY Numbers DEF Covering, Covers, Listed, Entries
<1>2. CASE m[j] < clock
  BY <1>1, <1>2, Numbers DEF Expired, LingerInv
<1>3. CASE ~(m[j] < clock)
  BY <1>1, <1>3, Numbers DEF Pruned, Covering, Covers, Listed
<1> QED
  BY <1>2, <1>3

\* What a revocation does to the memory, whether or not its save succeeds: a
\* covering entry, old or new, is there or its token has expired, unless the
\* revocation replaces it by one that does not cover the token.
LEMMA PutKeeps ==
  ASSUME TypeOK, LingerInv, NEW a \in Admins, Put(a),
         NEW j \in Jtis,
         \/ j # request[a].jti /\ j \in Covering(byJti)
         \/ j = request[a].jti /\ Covers(request[a].expiresAt, j)
  PROVE  Expired(j) \/ (j \in Covering(byJti'))
<1> DEFINE r == request[a]
           m == [byJti EXCEPT ![r.jti] = r.expiresAt]
<1>1. r.jti \in Jtis /\ r.expiresAt \in Nat /\ m \in Entries
  BY PutType
<1>2. j \in Covering(m)
  BY <1>1, Numbers DEF Covering, Covers, Listed, TypeOK, Entries
<1>3. byJti' = Pruned(m, clock)
  BY DEF Put
<1> HIDE DEF m
<1> QED
  BY <1>1, <1>2, <1>3, PrunedAreExpired

\* Every step preserves the invariant.
LEMMA IInvStep ==
  ASSUME TypeOK, TypeOK', IInv, LingerInv', [Next]_vars
  PROVE  IInv'
<1>t. /\ Leeway \in Nat /\ Setback \in Nat /\ clock \in Nat /\ hi \in Nat /\ hi' \in Nat
      /\ None \notin Nat /\ None \notin Jtis /\ acked \subseteq Jtis
      /\ \A j \in Jtis : exp[j] # None => exp[j] \in Nat
  BY Numbers DEF TypeOK
<1>i. /\ LingerInv /\ hi <= clock + Setback
      /\ \A j \in acked : /\ exp[j] # None
                          /\ Expired(j) \/ (j \in Covering(disk) /\ (up => j \in Covering(byJti)))
      /\ \A v \in Verifiers : \A j \in seen[v] : exp[j] # None /\ (Expired(j) \/ j \in copy[v])
      /\ Margin => \A v \in Verifiers : token[v] \in seen[v] => token[v] \in copy[v]
  BY DEF IInv, LingerInv, RevokedNeverAccepted
<1>1. CASE Tick \/ StepBack
  <2>1. hi <= hi' /\ UNCHANGED <<up, exp, byJti, disk, acked, readers>>
    BY <1>1, <1>t DEF Tick, StepBack, store
  <2>2. \A j \in Jtis : exp[j] # None /\ Expired(j) => Expired(j)'
    BY <1>t, <2>1 DEF Expired
  <2>3. \A j \in acked : j \in Jtis
    BY <1>t
  <2>4. \A v \in Verifiers : \A j \in seen[v] : j \in Jtis
    BY DEF TypeOK
  <2> QED
    BY <1>i, <2>1, <2>2, <2>3, <2>4 DEF IInv, RevokedNeverAccepted, Covering, Covers, Listed, readers
<1>2. CASE Crash
  <2>1. ~up' /\ UNCHANGED <<clock, hi, exp, disk, acked, readers>>
    BY <1>2 DEF Crash
  <2> QED
    BY <1>i, <2>1 DEF IInv, RevokedNeverAccepted, Expired, Covering, Covers, Listed, readers
<1>3. ASSUME NEW t \in Ttls, Start(t)
      PROVE  IInv'
  BY <1>3, <1>i DEF Start, IInv, RevokedNeverAccepted, Expired, Covering, Covers, Listed, readers
<1>4. ASSUME NEW j \in Jtis, Issue(j)
      PROVE  IInv'
  <2>1. /\ exp' = [exp EXCEPT ![j] = clock + ttl] /\ exp[j] = None
        /\ UNCHANGED <<clock, hi, up, byJti, disk, acked, readers>>
    BY <1>4 DEF Issue, store
  <2>2. \A i \in Jtis : exp[i] # None => exp'[i] = exp[i]
    BY <2>1 DEF TypeOK
  <2>3. ASSUME NEW i \in Jtis, exp[i] # None
        PROVE  /\ Expired(i) => Expired(i)'
               /\ i \in Covering(disk) => (i \in Covering(disk))'
               /\ i \in Covering(byJti) => (i \in Covering(byJti))'
    BY <2>1, <2>2, <2>3 DEF Expired, Covering, Covers, Listed
  <2>4. \A i \in acked : i \in Jtis
    BY <1>t
  <2>5. \A v \in Verifiers : \A i \in seen[v] : i \in Jtis
    BY DEF TypeOK
  <2>6. \A i \in acked : /\ exp'[i] # None
                         /\ Expired(i)' \/ ((i \in Covering(disk))' /\ (up => (i \in Covering(byJti))'))
    BY <1>i, <2>2, <2>3, <2>4
  <2>7. \A v \in Verifiers : \A i \in seen[v] : exp'[i] # None /\ (Expired(i)' \/ i \in copy[v])
    BY <1>i, <2>2, <2>3, <2>5
  <2> QED
    BY <1>i, <2>1, <2>6, <2>7 DEF IInv, RevokedNeverAccepted, readers
<1>5. ASSUME NEW a \in Admins, NEW j \in Jtis, ReceiveRevocation(a, j)
      PROVE  IInv'
  BY <1>5, <1>i DEF ReceiveRevocation, IInv, RevokedNeverAccepted, Expired, Covering, Covers, Listed, store, readers
<1>6. ASSUME NEW a \in Admins, Revoke(a) \/ RevokeFails(a)
      PROVE  IInv'
  <2> DEFINE r == request[a]
  <2>1. Put(a)
    BY <1>6 DEF Revoke, RevokeFails
  <2>2. /\ UNCHANGED <<clock, hi, up, exp, copy, token, seen>> /\ up
        /\ r.jti \in Jtis
    BY <2>1, PutType DEF Put, readers
  <2>3. \/ disk' = byJti' /\ acked' = Acked(a, acked \union {r.jti})
        \/ (disk' = disk \/ disk' = byJti') /\ acked' = Acked(a, acked)
    BY <1>6 DEF Revoke, RevokeFails
  <2>4. ASSUME NEW j \in acked'
        PROVE  /\ j \in Jtis
               /\ j = r.jti => Covers(r.expiresAt, j)
               /\ j \in acked \/ (disk' = byJti' /\ j = r.jti)
    BY <1>t, <2>2, <2>3, <2>4 DEF Acked
  <2>5. ASSUME NEW j \in acked'
        PROVE  /\ exp[j] # None
               /\ Expired(j) \/ (j \in Covering(disk') /\ j \in Covering(byJti'))
    <3>1. j \in Jtis /\ exp[j] # None
      BY <1>i, <2>4 DEF Covers
    <3>2. \/ Expired(j)
          \/ j # r.jti /\ j \in Covering(byJti)
          \/ j = r.jti /\ Covers(r.expiresAt, j)
      BY <1>i, <2>2, <2>4
    <3>3. Expired(j) \/ j \in Covering(byJti')
      BY <1>i, <2>1, <3>1, <3>2, PutKeeps
    <3>4. Expired(j) \/ j \in Covering(disk')
      BY <1>i, <2>3, <2>4, <3>3
    <3> QED
      BY <3>1, <3>3, <3>4
  <2> QED
    BY <1>i, <2>2, <2>5 DEF IInv, RevokedNeverAccepted, Expired, Covering, Covers, Listed
<1>7. ASSUME NEW v \in Verifiers, Poll(v)
      PROVE  IInv'
  <2>1. /\ byJti' = Pruned(byJti, clock) /\ up /\ token[v] = None
        /\ UNCHANGED <<clock, hi, up, exp, disk, request, token, acked>>
        /\ copy' = [copy EXCEPT ![v] = Listed(byJti')]
        /\ seen' = [seen EXCEPT ![v] = acked]
    BY <1>7 DEF Poll
  <2>2. \A j \in acked : exp[j] # None /\ (Expired(j) \/ (j \in Covering(disk) /\ j \in Covering(byJti')))
    BY <1>i, <2>1, PrunedAreExpired DEF TypeOK
  <2>3. ASSUME NEW u \in Verifiers
        PROVE  /\ \A j \in seen'[u] : exp[j] # None /\ (Expired(j) \/ j \in copy'[u])
               /\ Margin => (token[u] \in seen'[u] => token[u] \in copy'[u])
    <3>1. CASE u = v
      <4>1. seen'[u] = acked /\ copy'[u] = Listed(byJti')
        BY <2>1, <3>1 DEF TypeOK
      <4>2. token[u] \notin acked
        BY <1>t, <2>1, <3>1
      <4>3. \A j \in Covering(byJti') : j \in Listed(byJti')
        BY DEF Covering
      <4> QED
        BY <2>2, <4>1, <4>2, <4>3
    <3>2. CASE u # v
      BY <1>i, <2>1, <3>2 DEF TypeOK
    <3> QED
      BY <3>1, <3>2
  <2> QED
    BY <1>i, <2>1, <2>2, <2>3 DEF IInv, RevokedNeverAccepted, Expired, Covering, Covers, Listed
<1>8. ASSUME NEW v \in Verifiers, NEW j \in Jtis, PassTimeWindow(v, j)
      PROVE  IInv'
  <2>1. /\ token' = [token EXCEPT ![v] = j] /\ exp[j] \in Nat /\ clock - Leeway < exp[j]
        /\ UNCHANGED <<clock, hi, up, exp, store, request, copy, seen>>
    BY <1>8, <1>t DEF PassTimeWindow
  <2>2. Margin => ~Expired(j)
    BY <1>t, <1>i, <2>1 DEF Expired, Margin
  <2>3. Margin => \A u \in Verifiers : token'[u] \in seen[u] => token'[u] \in copy[u]
    BY <1>i, <2>1, <2>2 DEF TypeOK
  <2> QED
    BY <1>i, <2>1, <2>3 DEF IInv, RevokedNeverAccepted, Expired, Covering, Covers, Listed, store
<1>9. ASSUME NEW v \in Verifiers, DecidePolled(v) \/ DecideDirect(v)
      PROVE  IInv'
  <2>1. /\ token' = [token EXCEPT ![v] = None]
        /\ UNCHANGED <<clock, hi, up, exp, disk, request, copy, acked, seen>>
        /\ byJti' = byJti \/ byJti' = Pruned(byJti, clock)
    BY <1>9 DEF DecidePolled, DecideDirect, store
  <2>2. \A j \in acked : exp[j] # None
                         /\ (Expired(j) \/ (j \in Covering(disk) /\ (up => j \in Covering(byJti'))))
    BY <1>i, <2>1, PrunedAreExpired DEF TypeOK
  <2>3. Margin => \A u \in Verifiers : token'[u] \in seen[u] => token'[u] \in copy[u]
    BY <1>t, <1>i, <2>1 DEF TypeOK
  <2> QED
    BY <1>i, <2>1, <2>2, <2>3 DEF IInv, RevokedNeverAccepted, Expired, Covering, Covers, Listed
<1>10. CASE UNCHANGED vars
  BY <1>10, <1>i DEF vars, store, readers, IInv, RevokedNeverAccepted, Expired, Covering, Covers, Listed
<1> QED
  BY <1>1, <1>2, <1>3, <1>4, <1>5, <1>6, <1>7, <1>8, <1>9, <1>10 DEF Next

\* The inductive invariant holds.
THEOREM IInvHolds == Spec => []IInv
<1>1. Init => IInv
  BY RevocationAssumption DEF Init, IInv, LingerInv, EntriesLinger, Listed, RevokedNeverAccepted
<1>2. TypeOK /\ TypeOK' /\ LingerInv' /\ IInv /\ [Next]_vars => IInv'
  BY IInvStep
<1> QED
  BY <1>1, <1>2, TypeCorrect, LingerInvariant, PTL DEF Spec

\* Under Margin a polled denylist is enough: no token is accepted whose
\* revocation was acknowledged, with an entry that covers it, before the poll.
THEOREM PolledRevocationHolds ==
  ASSUME Margin
  PROVE  Spec => []RevokedNeverAccepted
<1>1. IInv => RevokedNeverAccepted
  BY Margin DEF IInv
<1> QED
  BY <1>1, IInvHolds, PTL

\* Under Margin an acknowledged revocation stays, across restarts, as long as
\* its token could still be accepted.
THEOREM RevocationsAreDurable ==
  ASSUME Margin
  PROVE  Spec => []RevocationIsDurable
<1>1. TypeOK /\ IInv => RevocationIsDurable
  <2> SUFFICES ASSUME TypeOK, IInv, NEW j \in acked, clock - Leeway < exp[j]
               PROVE  j \in Listed(disk) /\ (up => j \in Listed(byJti))
    BY DEF RevocationIsDurable
  <2>1. exp[j] \in Nat /\ j \in Jtis
    BY Numbers DEF IInv, TypeOK
  <2>2. ~Expired(j)
    BY <2>1, Margin, Numbers DEF Margin, Expired, IInv, LingerInv
  <2> QED
    BY <2>2 DEF IInv, Covering
<1> QED
  BY <1>1, IInvHolds, TypeCorrect, PTL

\* Whatever the leeway and the setbacks, no revoked token gets past a verifier,
\* polled copy or not, before the clock has passed its exp.
THEOREM RevokedPassesLate == Spec => []RevokedPassesOnlyLate
<1>1. TypeOK /\ IInv => RevokedPassesOnlyLate
  <2> SUFFICES ASSUME TypeOK, IInv, NEW v \in Verifiers, token[v] # None, hi <= exp[token[v]]
               PROVE  /\ token[v] \in seen[v] => token[v] \in copy[v]
                      /\ up /\ token[v] \in acked => token[v] \in Listed(Pruned(byJti, clock))
    BY DEF RevokedPassesOnlyLate
  <2> DEFINE j == token[v]
  <2>1. j \in Jtis
    BY DEF TypeOK
  <2>2. ASSUME exp[j] # None
        PROVE  ~Expired(j)
    BY <2>1, <2>2, Numbers DEF Expired
  <2>3. j \in seen[v] => j \in copy[v]
    BY <2>2 DEF IInv
  <2>4. ASSUME up, j \in acked
        PROVE  j \in Listed(Pruned(byJti, clock))
    <3>1. j \in Covering(byJti) /\ ~Expired(j)
      BY <2>2, <2>4 DEF IInv
    <3>2. j \in Covering(Pruned(byJti, clock))
      BY <3>1, PrunedAreExpired DEF IInv, TypeOK
    <3> QED
      BY <3>2 DEF Covering
  <2> QED
    BY <2>3, <2>4
<1> QED
  BY <1>1, IInvHolds, TypeCorrect, PTL

=============================================================================
