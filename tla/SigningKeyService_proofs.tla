---------------------- MODULE SigningKeyService_proofs ----------------------
(***************************************************************************)
(* Theorems about SigningKeyService, for every value of its constants.     *)
(*                                                                         *)
(* TypeOK is inductive.  KeysInv, the shape of the two key sets (memory    *)
(* and document), is inductive on top of it and gives ExactlyOneActive and *)
(* DemotedNeverActive.  ClaimsInv follows every token, handed out or being *)
(* signed, to the records of its key, and gives how long a key is kept;    *)
(* under Margin that covers every live token.                              *)
(***************************************************************************)
EXTENDS SigningKeyService, TLAPS

-----------------------------------------------------------------------------
(* Operators on key sets.                                                  *)

\* Retirement keeps every kid, leaves no key active, and stamps exactly the
\* keys that were active.
LEMMA RetireActiveFacts ==
  ASSUME NEW ks \in SUBSET KeyRecord, NEW t \in Nat
  PROVE  /\ RetireActive(ks, t) \in SUBSET KeyRecord
         /\ \A r \in RetireActive(ks, t) :
              /\ ~r.active
              /\ \E s \in ks : s.kid = r.kid /\ (s = r \/ (s.active /\ r.retiredAt = t))
         /\ \A s \in ks : \E r \in RetireActive(ks, t) : r.kid = s.kid
<1> DEFINE image(r) == IF r.active THEN [r EXCEPT !.active = FALSE, !.retiredAt = t] ELSE r
<1>1. ASSUME NEW r \in ks
      PROVE  /\ image(r) \in KeyRecord
             /\ image(r).kid = r.kid
             /\ ~image(r).active
             /\ \/ image(r) = r
                \/ r.active /\ image(r).retiredAt = t
  BY DEF KeyRecord
<1>2. RetireActive(ks, t) = {image(r) : r \in ks}
  BY DEF RetireActive
<1>3. ASSUME NEW r \in RetireActive(ks, t)
      PROVE  /\ r \in KeyRecord /\ ~r.active
             /\ \E s \in ks : s.kid = r.kid /\ (s = r \/ (s.active /\ r.retiredAt = t))
  <2>1. PICK s \in ks : r = image(s)
    BY <1>2
  <2> HIDE DEF image
  <2> QED
    BY <1>1, <2>1
<1>4. ASSUME NEW s \in ks
      PROVE  \E r \in RetireActive(ks, t) : r.kid = s.kid
  <2> HIDE DEF image
  <2> QED
    BY <1>1, <1>2
<1> QED
  BY <1>3, <1>4

\* Pruning keeps every active key and removes only keys retired before the
\* cutoff.
LEMMA RetainedFacts ==
  ASSUME NEW ks \in SUBSET KeyRecord, NEW t \in Nat, ttl \in Nat
  PROVE  /\ Retained(ks, t) \in SUBSET ks
         /\ \A r \in ks \ Retained(ks, t) :
              /\ ~r.active
              /\ r.retiredAt \in Nat
              /\ r.retiredAt + Retention < t
BY DEF Retained, Retention, KeyRecord

-----------------------------------------------------------------------------
(* Type correctness.                                                       *)

\* The document of the running process is a document.
LEMMA DocumentType ==
  ASSUME NEW k \in Kids, NEW ks \in SUBSET KeyRecord
  PROVE  /\ [activeKid |-> k, keys |-> ks] \in Document
         /\ NewKey(k) \in KeyRecord
BY DEF Document, KeyRecord, NewKey

\* Demote leaves a well-typed key set, whose new active key is fresh.
LEMMA DemoteType ==
  ASSUME TypeOK, NEW w \in Workers, Demote(w)
  PROVE  /\ keys' \in SUBSET KeyRecord
         /\ activeKid' \in Kids \ minted
         /\ minted' = minted \union {activeKid'}
         /\ pc' \in [Workers -> {"idle", "stamped", "signing", "rotating"}]
         /\ now' \in [Workers -> Nat]
<1>1. ttl \in Nat /\ clock \in Nat /\ now[w] \in Nat /\ keys \in SUBSET KeyRecord
  BY KeysAssumption DEF TypeOK
<1>2. PICK k \in Kids \ minted :
        /\ minted' = minted \union {k}
        /\ keys' = Retained(RetireActive(keys, now[w]) \union {NewKey(k)}, clock)
        /\ activeKid' = k
  BY DEF Demote
<1>3. RetireActive(keys, now[w]) \union {NewKey(k)} \in SUBSET KeyRecord
  <2>1. RetireActive(keys, now[w]) \in SUBSET KeyRecord
    BY <1>1, RetireActiveFacts
  <2>2. NewKey(k) \in KeyRecord
    BY <1>1, <1>2, DocumentType
  <2> QED
    BY <2>1, <2>2
<1>4. keys' \in SUBSET KeyRecord
  BY <1>1, <1>2, <1>3, RetainedFacts
<1> QED
  BY <1>2, <1>4 DEF Demote, TypeOK

\* Every variable keeps its type.
THEOREM TypeCorrect == Spec => []TypeOK
<1>1. Init => TypeOK
  <2> SUFFICES ASSUME Init
               PROVE  TypeOK
    OBVIOUS
  <2>1. disk \in Document
    BY DEF Init, Absent, Document
  <2>2. /\ pc \in [Workers -> {"idle", "stamped", "signing", "rotating"}]
        /\ now \in [Workers -> Nat]
        /\ kid \in [Workers -> Kids \union {NoKid}]
    BY DEF Init, Idle
  <2> QED
    BY <2>1, <2>2 DEF Init, TypeOK
<1>2. TypeOK /\ [Next]_vars => TypeOK'
  <2> SUFFICES ASSUME TypeOK, [Next]_vars
               PROVE  TypeOK'
    OBVIOUS
  <2> USE DEF TypeOK
  <2>t. Ttls \subseteq Nat /\ ttl \in Nat
    BY KeysAssumption
  <2>1. CASE Tick
    BY <2>1 DEF Tick, service, requests
  <2>2. CASE StepBack
    BY <2>2 DEF StepBack, service, requests
  <2>3. ASSUME NEW t \in Ttls, StartLoaded(t)
        PROVE  TypeOK'
    BY <2>3 DEF StartLoaded, requests, Document
  <2>4. ASSUME NEW t \in Ttls, StartMinting(t)
        PROVE  TypeOK'
    <3>1. PICK k \in Kids \ minted :
            /\ minted' = minted \union {k}
            /\ keys' = disk.keys \union {NewKey(k)}
            /\ activeKid' = k
      BY <2>4 DEF StartMinting
    <3>2. keys' \in SUBSET KeyRecord
      BY <3>1, DocumentType DEF Document
    <3>3. disk' \in Document
      BY <2>4, <3>1, <3>2, DocumentType DEF StartMinting
    <3> QED
      BY <2>4, <3>1, <3>2, <3>3 DEF StartMinting, requests
  <2>5. CASE StartFails
    <3>1. PICK k \in Kids \ minted :
            /\ minted' = minted \union {k}
            /\ disk' = [activeKid |-> k, keys |-> disk.keys \union {NewKey(k)}]
      BY <2>5 DEF StartFails
    <3>2. disk' \in Document
      BY <3>1, DocumentType DEF Document
    <3> QED
      BY <2>5, <3>1, <3>2 DEF StartFails, requests
  <2>6. CASE Crash
    BY <2>6 DEF Crash, KidsOf, KeyRecord
  <2>7. ASSUME NEW w \in Workers, Stamp(w)
        PROVE  TypeOK'
    BY <2>7 DEF Stamp, service
  <2>8. ASSUME NEW w \in Workers, GetSigner(w)
        PROVE  TypeOK'
    BY <2>8 DEF GetSigner, service
  <2>9. ASSUME NEW w \in Workers, Sign(w)
        PROVE  TypeOK'
    <3>1. lastExp' = [k \in Kids |-> IF k = kid[w] /\ now[w] + ttl > lastExp[k]
                                       THEN now[w] + ttl ELSE lastExp[k]]
      BY <2>9 DEF Sign
    <3>2. now[w] + ttl \in Nat
      BY <2>t
    <3>3. lastExp' \in [Kids -> Nat]
      BY <3>1, <3>2
    <3> QED
      BY <2>9, <3>3 DEF Sign, service
  <2>10. ASSUME NEW w \in Workers, RotateEnter(w)
         PROVE  TypeOK'
    BY <2>10 DEF RotateEnter, service
  <2>11. ASSUME NEW w \in Workers, Rotate(w)
         PROVE  TypeOK'
    <3>1. Demote(w)
      BY <2>11 DEF Rotate
    <3>2. disk' \in Document
      BY <2>11, <3>1, DemoteType, DocumentType DEF Rotate
    <3>3. KidsOf({r \in keys : r.active}) \subseteq Kids
      BY DEF KidsOf, KeyRecord
    <3> QED
      BY <2>11, <3>1, <3>2, <3>3, DemoteType DEF Rotate, Demote
  <2>12. ASSUME NEW w \in Workers, RotateFails(w)
         PROVE  TypeOK'
    <3>1. Demote(w)
      BY <2>12 DEF RotateFails
    <3>2. disk' \in Document
      BY <2>12, <3>1, DemoteType, DocumentType DEF RotateFails
    <3> QED
      BY <2>12, <3>1, <3>2, DemoteType DEF RotateFails, Demote
  <2>13. CASE JwkSet
    BY <2>13, <2>t, RetainedFacts DEF JwkSet, requests
  <2>14. CASE UNCHANGED vars
    BY <2>14 DEF vars, service, requests
  <2> QED
    BY <2>1, <2>2, <2>3, <2>4, <2>5, <2>6, <2>7, <2>8, <2>9, <2>10, <2>11, <2>12,
       <2>13, <2>14 DEF Next
<1> QED
  BY <1>1, <1>2, PTL DEF Spec

-----------------------------------------------------------------------------
(* The shape of the key sets.                                              *)

\* What a rotation does to the memory, whether or not its save succeeds: one
\* fresh active key; every other key is an old one, as it was or just
\* retired; and a key that is gone was retired before the cutoff.
LEMMA DemoteKeys ==
  ASSUME TypeOK, NEW w \in Workers, Demote(w)
  PROVE  /\ NewKey(activeKid') \in keys'
         /\ \A r \in keys' :
              \/ r = NewKey(activeKid')
              \/ /\ ~r.active
                 /\ \E s \in keys : s.kid = r.kid /\ (s = r \/ (s.active /\ r.retiredAt = now[w]))
         /\ \A s \in keys :
              \/ s.kid \in KidsOf(keys')
              \/ \E t \in Nat : /\ t + Retention < clock
                                /\ \/ s.retiredAt = t
                                   \/ s.active /\ t = now[w]
<1>1. ttl \in Nat /\ clock \in Nat /\ now[w] \in Nat /\ keys \in SUBSET KeyRecord
  BY KeysAssumption DEF TypeOK
<1>2. \A r \in RetireActive(keys, now[w]) :
        /\ ~r.active
        /\ \E s \in keys : s.kid = r.kid /\ (s = r \/ (s.active /\ r.retiredAt = now[w]))
  BY <1>1, RetireActiveFacts
<1>3. PICK k \in Kids \ minted :
        /\ keys' = Retained(RetireActive(keys, now[w]) \union {NewKey(k)}, clock)
        /\ activeKid' = k
  BY DEF Demote
<1> DEFINE retired == RetireActive(keys, now[w])
           all == retired \union {NewKey(k)}
<1>4. retired \in SUBSET KeyRecord /\ NewKey(k) \in KeyRecord /\ NewKey(k).active
  BY <1>1, RetireActiveFacts, DocumentType DEF NewKey
<1>5. all \in SUBSET KeyRecord
  BY <1>4
<1>6. /\ keys' \in SUBSET all
      /\ \A r \in all \ keys' :
           /\ ~r.active
           /\ r.retiredAt \in Nat
           /\ r.retiredAt + Retention < clock
  <2> HIDE DEF all
  <2> QED
    BY <1>1, <1>3, <1>5, RetainedFacts DEF all
<1>7. NewKey(k) \in keys'
  BY <1>4, <1>6
<1>8. ASSUME NEW s \in keys, s.kid \notin KidsOf(keys')
      PROVE  \E t \in Nat : /\ t + Retention < clock
                            /\ \/ s.retiredAt = t
                               \/ s.active /\ t = now[w]
  <2> DEFINE r == IF s.active THEN [s EXCEPT !.active = FALSE, !.retiredAt = now[w]] ELSE s
  <2>1. s \in KeyRecord
    BY <1>1
  <2>2. r \in retired /\ r.kid = s.kid /\ (IF s.active THEN r.retiredAt = now[w] ELSE r = s)
    BY <2>1 DEF RetireActive, KeyRecord
  <2> HIDE DEF r
  <2>3. r \notin keys'
    BY <2>2, <1>8 DEF KidsOf
  <2>4. r.retiredAt \in Nat /\ r.retiredAt + Retention < clock
    BY <2>2, <2>3, <1>6
  <2> QED
    BY <2>2, <2>4
<1> QED
  BY <1>3, <1>6, <1>2, <1>7, <1>8

\* A set with one active key has that key as its only active one.
LEMMA OneActiveFacts ==
  ASSUME NEW ks, NEW r \in ks, r.active, \A s \in ks : s.active => s = r
  PROVE  OneActive(ks, r.kid)
BY DEF OneActive

\* KeysInv looks at nothing but the service's state and which requests run.
LEMMA KeysInvFrame ==
  ASSUME KeysInv, UNCHANGED <<service, up>>,
         up \/ pc' = pc
  PROVE  KeysInv'
BY DEF KeysInv, ExactlyOneActive, service

\* A rotation preserves the shape of the memory, and that of the document if
\* it replaces it.
LEMMA DemoteKeysInv ==
  ASSUME TypeOK, KeysInv, NEW w \in Workers, Demote(w),
         disk' \in {disk, [activeKid |-> activeKid', keys |-> keys']},
         demoted' = demoted
           \/ (demoted' = demoted \union KidsOf({r \in keys : r.active})
                /\ disk' = [activeKid |-> activeKid', keys |-> keys'])
  PROVE  KeysInv'
<1> DEFINE k == activeKid'
           new == NewKey(k)
<1>1. k \in Kids \ minted /\ minted' = minted \union {k}
  BY DemoteType
<1>2. /\ new \in keys'
      /\ \A r \in keys' : r = new \/ (~r.active /\ r.kid \in KidsOf(keys))
  BY DemoteKeys DEF KidsOf
<1>3. new.kid = k /\ new.active /\ new.retiredAt = NoTime
  BY DEF NewKey
<1>4. KidsOf(keys) \subseteq minted /\ KidsOf(disk.keys) \subseteq minted /\ demoted \subseteq minted
  BY DEF KeysInv
<1>5. \A r \in disk.keys : r.kid \in minted /\ r.kid # k
  BY <1>1, <1>4 DEF KidsOf
<1>6. demoted' \subseteq minted
  BY <1>4 DEF KidsOf
<1> HIDE DEF k, new
<1>7. OneActive(keys', k)
  BY <1>2, <1>3, OneActiveFacts
<1>8. disk' = disk \/ (disk'.keys = keys' /\ disk'.activeKid = k)
  BY DEF k
<1>9. \A r \in keys' : r.kid \in minted \union {k} /\ (r.active => r = new) /\ (r # new => r.kid # k)
  BY <1>1, <1>2, <1>3, <1>4
<1>10. up' /\ up
  BY DEF Demote
<1>11. ExactlyOneActive'
  BY <1>7, <1>8, <1>10 DEF ExactlyOneActive, k, KeysInv
<1>12. (KidsOf(keys) \union KidsOf(disk.keys) \union demoted \subseteq minted)'
  BY <1>1, <1>5, <1>6, <1>8, <1>9 DEF KidsOf
<1>13. ASSUME NEW r \in keys' \union disk'.keys, r.active
       PROVE  r.retiredAt = NoTime /\ r.kid \notin demoted'
  <2>1. CASE r \in keys'
    BY <2>1, <1>13, <1>1, <1>3, <1>6, <1>9
  <2>2. CASE r \notin keys'
    <3>1. disk' = disk /\ r \in disk.keys
      BY <2>2, <1>8
    <3>2. demoted' = demoted
      BY <3>1, <2>2, <1>8, <1>5, <1>2, <1>3
    <3> QED
      BY <3>1, <3>2, <1>13 DEF KeysInv
  <2> QED
    BY <2>1, <2>2
<1>14. \A r \in keys' \union disk'.keys : r.retiredAt # NoTime => r.kid # k
  BY <1>3, <1>5, <1>8, <1>9
<1>15. \A r \in disk'.keys : r.retiredAt # NoTime => r.kid # disk'.activeKid
  BY <1>8, <1>14 DEF KeysInv
<1> QED
  BY <1>10, <1>11, <1>12, <1>13, <1>14, <1>15 DEF KeysInv, k

\* Every step preserves the shape of the key sets.
LEMMA KeysInvStep ==
  ASSUME TypeOK, KeysInv, [Next]_vars
  PROVE  KeysInv'
<1>1. CASE Tick \/ StepBack
  BY <1>1, KeysInvFrame DEF Tick, StepBack, requests
<1>2. ASSUME NEW t \in Ttls, StartLoaded(t)
      PROVE  KeysInv'
  <2>1. disk # Absent
    BY <1>2 DEF StartLoaded, HasActive, Absent
  <2>2. OneActive(disk.keys, disk.activeKid)
    BY <2>1 DEF KeysInv, ExactlyOneActive
  <2>3. OneActive(keys', activeKid')
    BY <1>2, <2>2 DEF StartLoaded
  <2> QED
    BY <1>2, <2>2, <2>3 DEF StartLoaded, KeysInv, ExactlyOneActive
<1>3. ASSUME NEW k \in Kids \ minted,
             ~up, ~HasActive(disk.keys, disk.activeKid),
             minted' = minted \union {k},
             disk' = [activeKid |-> k, keys |-> disk.keys \union {NewKey(k)}],
             \/ /\ up' /\ keys' = disk'.keys /\ activeKid' = k
             \/ UNCHANGED <<up, keys, activeKid>>,
             UNCHANGED <<requests, demoted>>
      PROVE  KeysInv'
  \* The first key: the document it joins is the empty one.
  <2>1. disk = Absent
    BY <1>3 DEF KeysInv, ExactlyOneActive, OneActive, HasActive
  <2>2. disk'.keys = {NewKey(k)} /\ disk'.activeKid = k
    BY <1>3, <2>1 DEF Absent
  <2>3. NewKey(k).kid = k /\ NewKey(k).active /\ NewKey(k).retiredAt = NoTime
    BY DEF NewKey
  <2>4. OneActive(disk'.keys, disk'.activeKid)
    BY <2>2, <2>3, OneActiveFacts
  <2>5. demoted' \subseteq minted /\ k \notin demoted'
    BY <1>3 DEF KeysInv
  <2>6. keys' = {} \/ keys' = {NewKey(k)}
    BY <1>3, <2>2 DEF KeysInv
  <2>7. ExactlyOneActive'
    BY <1>3, <2>4 DEF ExactlyOneActive
  <2>8. (KidsOf(keys) \union KidsOf(disk.keys) \union demoted \subseteq minted)'
    BY <1>3, <2>2, <2>3, <2>5, <2>6 DEF KidsOf
  <2> QED
    BY <1>3, <2>2, <2>3, <2>5, <2>6, <2>7, <2>8 DEF KeysInv, requests
<1>4. ASSUME NEW t \in Ttls, StartMinting(t)
      PROVE  KeysInv'
  BY <1>3, <1>4 DEF StartMinting
<1>5. CASE StartFails
  BY <1>3, <1>5 DEF StartFails
<1>6. CASE Crash
  <2>1. keys' = {} /\ disk' = disk /\ minted' = minted /\ demoted' = demoted
    BY <1>6 DEF Crash
  <2>2. (KidsOf(keys) \union KidsOf(disk.keys) \union demoted \subseteq minted)'
    BY <2>1 DEF KeysInv, KidsOf
  <2>3. \A r \in disk.keys : r.kid # NoKid
    BY KeysAssumption DEF TypeOK, Document, KeyRecord
  <2> QED
    BY <1>6, <2>1, <2>2, <2>3 DEF Crash, KeysInv, ExactlyOneActive
<1>7. ASSUME NEW w \in Workers, Stamp(w) \/ GetSigner(w) \/ Sign(w) \/ RotateEnter(w)
      PROVE  KeysInv'
  BY <1>7, KeysInvFrame DEF Stamp, GetSigner, Sign, RotateEnter
<1>8. ASSUME NEW w \in Workers, Rotate(w)
      PROVE  KeysInv'
  BY <1>8, DemoteKeysInv DEF Rotate
<1>9. ASSUME NEW w \in Workers, RotateFails(w)
      PROVE  KeysInv'
  BY <1>9, DemoteKeysInv DEF RotateFails
<1>10. CASE JwkSet
  <2>1. keys' \in SUBSET keys /\ \A r \in keys : r.active => r \in keys'
    BY <1>10 DEF JwkSet, Retained
  <2>2. UNCHANGED <<up, activeKid, disk, minted, demoted>> /\ up
    BY <1>10 DEF JwkSet
  <2>3. PICK r \in keys : r.kid = activeKid /\ {s \in keys : s.active} = {r}
    BY <2>2 DEF KeysInv, ExactlyOneActive, OneActive
  <2>4. r \in keys' /\ {s \in keys' : s.active} = {r}
    BY <2>1, <2>3
  <2>5. OneActive(keys', activeKid')
    BY <2>2, <2>3, <2>4 DEF OneActive
  <2>6. (KidsOf(keys) \union KidsOf(disk.keys) \union demoted \subseteq minted)'
    BY <2>1, <2>2 DEF KeysInv, KidsOf
  <2> QED
    BY <2>1, <2>2, <2>5, <2>6 DEF KeysInv, ExactlyOneActive
<1>11. CASE UNCHANGED vars
  BY <1>11, KeysInvFrame DEF vars, requests
<1> QED
  BY <1>1, <1>2, <1>4, <1>5, <1>6, <1>7, <1>8, <1>9, <1>10, <1>11 DEF Next

LEMMA KeysInvariant == Spec => []KeysInv
<1>1. Init => KeysInv
  BY DEF Init, Idle, KeysInv, ExactlyOneActive, KidsOf, Absent
<1>2. TypeOK /\ KeysInv /\ [Next]_vars => KeysInv'
  BY KeysInvStep
<1> QED
  BY <1>1, <1>2, TypeCorrect, PTL DEF Spec

\* At every instant exactly one key signs: overlapping rotations, crashes and
\* half-way saves notwithstanding, for any number of requests and keys.
THEOREM OneActiveKey == Spec => []ExactlyOneActive
<1>1. KeysInv => ExactlyOneActive
  BY DEF KeysInv
<1> QED
  BY <1>1, KeysInvariant, PTL

\* A key retired by a rotation that returned never signs again.
THEOREM DemotionIsFinal == Spec => []DemotedNeverActive
<1>1. TypeOK /\ KeysInv => DemotedNeverActive
  <2> SUFFICES ASSUME TypeOK, KeysInv
               PROVE  DemotedNeverActive
    OBVIOUS
  <2>1. NoKid \notin demoted
    BY KeysAssumption DEF TypeOK
  <2>2. activeKid = NoKid \/ \E r \in keys : r.active /\ r.kid = activeKid
    BY DEF KeysInv, ExactlyOneActive, OneActive
  <2>3. disk.activeKid = NoKid \/ \E r \in disk.keys : r.active /\ r.kid = disk.activeKid
    BY DEF KeysInv, ExactlyOneActive, OneActive, Absent
  <2> QED
    BY <2>1, <2>2, <2>3 DEF KeysInv, DemotedNeverActive
<1> QED
  BY <1>1, KeysInvariant, TypeCorrect, PTL

-----------------------------------------------------------------------------
(* A retirement is final.                                                  *)

OneRecordEach(ks) == \A r, s \in ks : r.kid = s.kid => r = s

\* The document never says of a key that it is retired while the memory says
\* otherwise; the reverse is what a failed save leaves.
StampsInv ==
  /\ OneRecordEach(keys)
  /\ OneRecordEach(disk.keys)
  /\ StampsStay(disk.keys, keys)

\* A rotation keeps the record of every key that was retired before.
LEMMA DemoteKeepsStamps ==
  ASSUME TypeOK, KeysInv, StampsInv, NEW w \in Workers, Demote(w)
  PROVE  /\ OneRecordEach(keys')
         /\ StampsStay(disk.keys, keys')
         /\ StampsStay(keys, keys')
<1> DEFINE new == NewKey(activeKid')
<1>1. /\ new.kid \notin minted
      /\ keys' \in SUBSET KeyRecord
  BY DemoteType DEF NewKey
<1>2. ASSUME NEW r \in keys', r # new
      PROVE  /\ ~r.active
             /\ \E s \in keys : s.kid = r.kid /\ (s = r \/ (s.active /\ r.retiredAt = now[w]))
  BY <1>2, DemoteKeys
<1>3. \A s \in keys \union disk.keys : s.kid \in minted
  BY DEF KeysInv, KidsOf
<1>4. \A s \in keys \union disk.keys : s.active => s.retiredAt = NoTime
  BY DEF KeysInv
<1> HIDE DEF new
<1>5. ASSUME NEW r \in keys', NEW q \in keys', r.kid = q.kid
      PROVE  r = q
  <2>1. CASE r = new \/ q = new
    BY <1>1, <1>2, <1>3, <1>5, <2>1
  <2>2. CASE r # new /\ q # new
    <3>1. PICK s \in keys : s.kid = r.kid /\ (s = r \/ (s.active /\ r.retiredAt = now[w]))
      BY <1>2, <2>2
    <3>2. PICK t \in keys : t.kid = q.kid /\ (t = q \/ (t.active /\ q.retiredAt = now[w]))
      BY <1>2, <2>2
    <3>3. s = t
      BY <1>5, <3>1, <3>2 DEF StampsInv, OneRecordEach
    <3>4. ~r.active /\ ~q.active
      BY <1>2, <2>2
    <3>5. r.retiredAt = q.retiredAt
      BY <3>1, <3>2, <3>3, <3>4
    <3>6. r \in KeyRecord /\ q \in KeyRecord
      BY <1>1
    <3> QED
      BY <1>5, <3>4, <3>5, <3>6 DEF KeyRecord
  <2> QED
    BY <2>1, <2>2
<1>6. ASSUME NEW s \in keys, NEW r \in keys', s.kid = r.kid, s.retiredAt # NoTime
      PROVE  r = s
  <2>1. r # new
    BY <1>1, <1>3, <1>6
  <2>2. PICK q \in keys : q.kid = r.kid /\ (q = r \/ (q.active /\ r.retiredAt = now[w]))
    BY <1>2, <2>1
  <2>3. q = s
    BY <1>6, <2>2 DEF StampsInv, OneRecordEach
  <2> QED
    BY <1>4, <1>6, <2>2, <2>3
<1>7. ASSUME NEW d \in disk.keys, NEW r \in keys', d.kid = r.kid, d.retiredAt # NoTime
      PROVE  r = d
  <2>1. r # new
    BY <1>1, <1>3, <1>7
  <2>2. PICK s \in keys : s.kid = r.kid
    BY <1>2, <2>1
  <2>3. s = d
    BY <1>7, <2>2 DEF StampsInv, StampsStay
  <2> QED
    BY <1>6, <1>7, <2>3
<1> QED
  BY <1>5, <1>6, <1>7 DEF OneRecordEach, StampsStay

\* The document and the memory after a step, whatever the step.
LEMMA StampsStep ==
  ASSUME TypeOK, KeysInv, StampsInv, [Next]_vars
  PROVE  /\ StampsInv'
         /\ StampsStay(disk.keys, disk'.keys)
         /\ up /\ up' => StampsStay(keys, keys')
<1> DEFINE Goal == /\ StampsInv'
                   /\ StampsStay(disk.keys, disk'.keys)
                   /\ up /\ up' => StampsStay(keys, keys')
<1> USE DEF StampsInv
<1>1. ASSUME UNCHANGED <<keys, disk>>
      PROVE  Goal
  BY <1>1 DEF OneRecordEach, StampsStay
<1>2. ASSUME keys' \in SUBSET keys, disk' = disk
      PROVE  Goal
  BY <1>2 DEF OneRecordEach, StampsStay
<1>3. ASSUME NEW t \in Ttls, StartLoaded(t)
      PROVE  Goal
  BY <1>3 DEF StartLoaded, OneRecordEach, StampsStay
<1>4. ASSUME NEW k \in Kids, ~up, ~HasActive(disk.keys, disk.activeKid),
             disk' = [activeKid |-> k, keys |-> disk.keys \union {NewKey(k)}],
             keys' = disk'.keys \/ keys' = keys
      PROVE  Goal
  <2>1. disk.keys = {} /\ keys = {}
    BY <1>4 DEF KeysInv, ExactlyOneActive, OneActive, HasActive, Absent
  <2>2. disk'.keys = {NewKey(k)} /\ (keys' = {} \/ keys' = {NewKey(k)})
    BY <1>4, <2>1
  <2> QED
    BY <1>4, <2>1, <2>2 DEF OneRecordEach, StampsStay
<1>5. ASSUME NEW w \in Workers, Demote(w),
             disk' \in {disk, [activeKid |-> activeKid', keys |-> keys']}
      PROVE  Goal
  <2>1. /\ OneRecordEach(keys')
        /\ StampsStay(disk.keys, keys')
        /\ StampsStay(keys, keys')
    BY <1>5, DemoteKeepsStamps
  <2>2. disk'.keys = disk.keys \/ disk'.keys = keys'
    BY <1>5
  <2> QED
    BY <2>1, <2>2 DEF OneRecordEach, StampsStay
<1> HIDE DEF Goal
<1>6. ASSUME Tick \/ StepBack \/ UNCHANGED vars
      PROVE  Goal
  BY <1>1, <1>6 DEF Tick, StepBack, vars, service
<1>7. ASSUME NEW t \in Ttls, StartMinting(t)
      PROVE  Goal
  BY <1>4, <1>7 DEF StartMinting
<1>8. ASSUME StartFails
      PROVE  Goal
  BY <1>4, <1>8 DEF StartFails
<1>9. ASSUME Crash
      PROVE  Goal
  BY <1>2, <1>9 DEF Crash
<1>10. ASSUME NEW w \in Workers, Stamp(w) \/ GetSigner(w) \/ Sign(w) \/ RotateEnter(w)
       PROVE  Goal
  BY <1>1, <1>10 DEF Stamp, GetSigner, Sign, RotateEnter, service
<1>11. ASSUME NEW w \in Workers, Rotate(w) \/ RotateFails(w)
       PROVE  Goal
  BY <1>5, <1>11 DEF Rotate, RotateFails
<1>12. ASSUME JwkSet
       PROVE  Goal
  BY <1>2, <1>12 DEF JwkSet, Retained
<1> QED
  BY <1>3, <1>6, <1>7, <1>8, <1>9, <1>10, <1>11, <1>12 DEF Next, Goal

\* A key is retired once, at one time, in memory and in the document, whatever
\* rotations, failed saves, crashes and restarts follow.
THEOREM RetiredOnce == Spec => RetirementIsFinal
<1>1. Init => StampsInv
  BY DEF Init, Absent, StampsInv, OneRecordEach, StampsStay
<1>2. TypeOK /\ KeysInv /\ StampsInv /\ [Next]_vars => StampsInv'
  BY StampsStep
<1>3. TypeOK /\ KeysInv /\ StampsInv /\ [Next]_vars
        => [/\ StampsStay(disk.keys, disk'.keys)
            /\ up /\ up' => StampsStay(keys, keys')]_vars
  BY StampsStep
<1> QED
  BY <1>1, <1>2, <1>3, TypeCorrect, KeysInvariant, PTL DEF Spec, RetirementIsFinal

-----------------------------------------------------------------------------
(* The clock, and the tokens that depend on it.                            *)

\* A step leaves every earlier reading within Setback of the clock.
LEMMA ClockInvStep ==
  ASSUME TypeOK, ClockInv, [Next]_vars
  PROVE  ClockInv' /\ hi <= hi'
<1> USE DEF TypeOK, ClockInv
<1>t. Setback \in Nat
  BY KeysAssumption
<1>1. CASE Tick
  BY <1>1, <1>t DEF Tick, requests
<1>2. CASE StepBack
  BY <1>2, <1>t DEF StepBack, requests
<1>3. ASSUME NEW w \in Workers, Stamp(w) \/ RotateEnter(w)
      PROVE  ClockInv' /\ hi <= hi'
  BY <1>3 DEF Stamp, RotateEnter
<1>4. ASSUME NEW w \in Workers, GetSigner(w) \/ Sign(w) \/ Rotate(w) \/ RotateFails(w)
      PROVE  ClockInv' /\ hi <= hi'
  BY <1>4 DEF GetSigner, Sign, Rotate, RotateFails, Demote
<1>5. CASE Crash
  BY <1>5 DEF Crash
<1>6. CASE JwkSet \/ StartFails \/ (\E t \in Ttls : StartLoaded(t) \/ StartMinting(t))
  BY <1>6 DEF JwkSet, StartFails, StartLoaded, StartMinting, requests
<1>7. CASE UNCHANGED vars
  BY <1>7 DEF vars, requests
<1> QED
  BY <1>1, <1>2, <1>3, <1>4, <1>5, <1>6, <1>7 DEF Next

\* StampedBy is monotone in the reading.
LEMMA StampedByLater ==
  ASSUME NEW exp \in Nat, NEW t \in Int, NEW u \in Int, t <= u, StampedBy(exp, t)
  PROVE  StampedBy(exp, u)
BY KeysAssumption DEF StampedBy

\* Once a key's retirement is older than the retention of the process that
\* looks, the retention of every token stamped before it is over.
LEMMA PrunedIsOver ==
  ASSUME TypeOK, ClockInv, NEW exp \in Nat, NEW t \in Nat,
         t + Retention < clock, StampedBy(exp, t + Setback)
  PROVE  RetentionOver(exp)
<1>1. PICK d \in Ttls : exp <= t + Setback + d
  BY DEF StampedBy
<1>2. ttl \in Nat /\ d \in Nat /\ Setback \in Nat /\ clock \in Nat /\ hi \in Nat
  BY KeysAssumption DEF TypeOK
<1>3. t + 2 * ttl < clock /\ clock <= hi
  BY DEF Retention, ClockInv
<1>4. exp + 2 * ttl + 1 <= hi + Setback + d
  BY <1>1, <1>2, <1>3
<1> QED
  BY <1>1, <1>4 DEF RetentionOver, TypeOK

\* RetentionOver is monotone in hi.
LEMMA OverStaysOver ==
  ASSUME NEW exp \in Nat, hi \in Nat, hi' \in Nat, hi <= hi', RetentionOver(exp)
  PROVE  RetentionOver(exp)'
<1>1. PICK t1 \in Ttls, t2 \in Ttls : exp + 2 * t1 + 1 <= hi + Setback + t2
  BY DEF RetentionOver
<1>2. t1 \in Nat /\ t2 \in Nat /\ Setback \in Nat
  BY KeysAssumption
<1>3. \A h1, h2, x, y, s, e \in Nat :
        h1 <= h2 /\ e + 2 * x + 1 <= h1 + s + y => e + 2 * x + 1 <= h2 + s + y
  OBVIOUS
<1>4. exp + 2 * t1 + 1 <= hi' + Setback + t2
  BY <1>1, <1>2, <1>3
<1> QED
  BY <1>4 DEF RetentionOver

\* Under Margin a token whose retention is over has expired for every
\* verifier, now and after any setback to come.
LEMMA OverIsExpired ==
  ASSUME Margin, NEW exp \in Nat, hi \in Nat, RetentionOver(exp)
  PROVE  exp + Leeway + Setback <= hi
<1>1. PICK t1 \in Ttls, t2 \in Ttls : exp + 2 * t1 + 1 <= hi + Setback + t2
  BY DEF RetentionOver
<1>2. Leeway + 2 * Setback <= 2 * t1 - t2 + 1
  BY DEF Margin
<1>3. t1 \in Nat /\ t2 \in Nat /\ Setback \in Nat /\ Leeway \in Nat
  BY KeysAssumption
<1> QED
  BY <1>1, <1>2, <1>3

\* A step that touches no key set and starts no rotation keeps every token
\* backed.
LEMMA BackedFrame ==
  ASSUME TypeOK, TypeOK', hi <= hi', UNCHANGED <<keys, disk, up, lost>>,
         \A w \in Workers : pc'[w] = "rotating" => pc[w] = "rotating" /\ now'[w] = now[w],
         NEW k \in Kids, NEW exp \in Nat, Backed(k, exp)
  PROVE  Backed(k, exp)'
<1>1. hi \in Nat /\ hi' \in Nat /\ Leeway \in Nat /\ Setback \in Nat
  BY KeysAssumption DEF TypeOK
<1>2. StampedBy(exp, hi')
  BY <1>1, StampedByLater DEF Backed
<1>3. RetentionOver(exp) => RetentionOver(exp)'
  BY <1>1, OverStaysOver
<1> QED
  BY <1>2, <1>3 DEF Backed, StampedBy

\* Pruning, on its own or after a rotation's retirement, drops only keys
\* whose retention is over.
LEMMA BackedShrink ==
  ASSUME TypeOK, TypeOK', ClockInv, up, up', UNCHANGED <<hi, lost>>,
         NEW T \in SUBSET Nat,
         \A w \in Workers : pc'[w] = "rotating" => pc[w] = "rotating" /\ now'[w] = now[w],
         \A t \in T : \E w \in Workers : pc[w] = "rotating" /\ t = now[w],
         \A r \in keys' : r.retiredAt # NoTime =>
           \E s \in keys : s.kid = r.kid /\ (s = r \/ r.retiredAt \in T),
         \A s \in keys : \/ s.kid \in KidsOf(keys')
                         \/ \E t \in Nat : /\ t + Retention < clock
                                           /\ s.retiredAt = t \/ t \in T,
         disk' = disk \/ disk'.keys = keys',
         NEW k \in Kids, NEW exp \in Nat, Backed(k, exp)
  PROVE  Backed(k, exp)'
<1>1. \A t \in T : StampedBy(exp, t + Setback)
  BY DEF Backed
<1>2. \A r \in keys \union disk.keys :
        r.kid = k /\ r.retiredAt # NoTime => StampedBy(exp, r.retiredAt + Setback)
  BY DEF Backed
<1>3. \A r \in keys' \union disk'.keys :
        r.kid = k /\ r.retiredAt # NoTime => StampedBy(exp, r.retiredAt + Setback)
  BY <1>1, <1>2
<1>4. ASSUME NEW s \in keys, s.kid = k, k \notin KidsOf(keys')
      PROVE  RetentionOver(exp)
  <2>1. PICK t \in Nat : /\ t + Retention < clock
                         /\ s.retiredAt = t \/ t \in T
    BY <1>4
  <2>2. t # NoTime
    BY KeysAssumption
  <2>3. StampedBy(exp, t + Setback)
    BY <1>1, <1>2, <1>4, <2>1, <2>2
  <2> QED
    BY <2>1, <2>3, PrunedIsOver
<1>5. RetentionOver(exp) \/ k \in KidsOf(keys) \union lost
  BY DEF Backed
<1>6. RetentionOver(exp) \/ k \in KidsOf(keys') \union lost
  BY <1>4, <1>5 DEF KidsOf
<1>7. RetentionOver(exp)' <=> RetentionOver(exp)
  BY DEF RetentionOver
<1>8. StampedBy(exp, hi')
  BY DEF Backed
<1>9. \A w \in Workers : pc'[w] = "rotating" => StampedBy(exp, now'[w] + Setback)
  BY DEF Backed
<1> QED
  BY <1>3, <1>6, <1>7, <1>8, <1>9 DEF Backed, StampedBy

\* No step takes the backing of a token away.
LEMMA BackedStep ==
  ASSUME TypeOK, TypeOK', KeysInv, ClockInv, [Next]_vars, hi <= hi',
         NEW k \in Kids, NEW exp \in Nat, Backed(k, exp)
  PROVE  Backed(k, exp)'
<1>1. CASE Tick \/ StepBack
  BY <1>1, BackedFrame DEF Tick, StepBack, service, requests
<1>2. ASSUME NEW t \in Ttls, StartLoaded(t)
      PROVE  Backed(k, exp)'
  <2>1. keys = {} /\ keys' = disk.keys /\ UNCHANGED <<disk, hi, lost, pc, now>>
    BY <1>2 DEF StartLoaded, KeysInv, requests
  <2> QED
    BY <2>1 DEF Backed, KidsOf, RetentionOver, StampedBy
<1>3. ASSUME NEW j \in Kids,
             ~up, ~HasActive(disk.keys, disk.activeKid),
             disk' = [activeKid |-> j, keys |-> disk.keys \union {NewKey(j)}],
             keys' = disk'.keys \/ keys' = keys,
             UNCHANGED <<hi, requests, lost>>
      PROVE  Backed(k, exp)'
  <2>1. disk.keys = {} /\ keys = {}
    BY <1>3 DEF KeysInv, ExactlyOneActive, OneActive, HasActive, Absent
  <2>2. \A r \in keys' \union disk'.keys : r.retiredAt = NoTime
    BY <1>3, <2>1 DEF NewKey
  <2>3. RetentionOver(exp) \/ k \in lost
    BY <2>1 DEF Backed, KidsOf
  <2> QED
    BY <1>3, <2>2, <2>3 DEF Backed, RetentionOver, StampedBy, requests
<1>4. ASSUME NEW t \in Ttls, StartMinting(t)
      PROVE  Backed(k, exp)'
  BY <1>3, <1>4 DEF StartMinting
<1>5. CASE StartFails
  BY <1>3, <1>5 DEF StartFails
<1>6. CASE Crash
  <2>1. /\ keys' = {} /\ ~up' /\ UNCHANGED <<disk, hi>>
        /\ lost' = lost \union (KidsOf(keys) \ KidsOf(disk.keys))
        /\ \A w \in Workers : pc'[w] = "idle"
    BY <1>6 DEF Crash
  <2> QED
    BY <2>1 DEF Backed, RetentionOver, StampedBy
<1>7. ASSUME NEW w \in Workers, Stamp(w) \/ GetSigner(w) \/ Sign(w)
      PROVE  Backed(k, exp)'
  <2>1. \A v \in Workers : pc'[v] = "rotating" => pc[v] = "rotating" /\ now'[v] = now[v]
    BY <1>7 DEF Stamp, GetSigner, Sign, TypeOK
  <2> QED
    BY <1>7, <2>1, BackedFrame DEF Stamp, GetSigner, Sign, service
<1>8. ASSUME NEW w \in Workers, RotateEnter(w)
      PROVE  Backed(k, exp)'
  <2>1. /\ UNCHANGED <<keys, disk, up, lost, hi>>
        /\ \A v \in Workers : pc'[v] = "rotating" => v = w /\ now'[v] = clock
    BY <1>8 DEF RotateEnter, MonitorFree, service, TypeOK
  <2>2. StampedBy(exp, clock + Setback)
    BY StampedByLater, KeysAssumption DEF Backed, ClockInv, TypeOK
  <2> QED
    BY <2>1, <2>2 DEF Backed, RetentionOver, StampedBy
<1>9. ASSUME NEW w \in Workers, Rotate(w) \/ RotateFails(w)
      PROVE  Backed(k, exp)'
  <2>1. Demote(w)
    BY <1>9 DEF Rotate, RotateFails
  <2>2. disk' = disk \/ disk'.keys = keys'
    BY <1>9 DEF Rotate, RotateFails
  <2>3. /\ up /\ up' /\ UNCHANGED <<hi, lost>> /\ pc[w] = "rotating"
        /\ \A v \in Workers : pc'[v] = "rotating" => pc[v] = "rotating" /\ now'[v] = now[v]
    BY <2>1 DEF Demote, TypeOK
  <2>4. \A r \in keys' : r.retiredAt # NoTime =>
          \E s \in keys : s.kid = r.kid /\ (s = r \/ r.retiredAt \in {now[w]})
    BY <2>1, DemoteKeys DEF NewKey
  <2>5. \A s \in keys : \/ s.kid \in KidsOf(keys')
                        \/ \E t \in Nat : /\ t + Retention < clock
                                          /\ s.retiredAt = t \/ t \in {now[w]}
    BY <2>1, DemoteKeys
  <2>6. {now[w]} \in SUBSET Nat
    BY DEF TypeOK
  <2> QED
    BY <2>2, <2>3, <2>4, <2>5, <2>6, BackedShrink
<1>10. CASE JwkSet
  <2>1. keys' = Retained(keys, clock) /\ UNCHANGED <<hi, up, disk, pc, now, lost>> /\ up
    BY <1>10 DEF JwkSet, requests
  <2>2. ttl \in Nat /\ clock \in Nat /\ keys \in SUBSET KeyRecord
    BY KeysAssumption DEF TypeOK
  <2>3. /\ keys' \in SUBSET keys
        /\ \A s \in keys \ keys' : s.retiredAt \in Nat /\ s.retiredAt + Retention < clock
    BY <2>1, <2>2, RetainedFacts
  <2>4. \A s \in keys : \/ s.kid \in KidsOf(keys')
                        \/ \E t \in Nat : /\ t + Retention < clock
                                          /\ s.retiredAt = t \/ t \in {}
    BY <2>3 DEF KidsOf
  <2>5. \A r \in keys' : r.retiredAt # NoTime =>
          \E s \in keys : s.kid = r.kid /\ (s = r \/ r.retiredAt \in {})
    BY <2>3
  <2>6. /\ \A v \in Workers : pc'[v] = "rotating" => pc[v] = "rotating" /\ now'[v] = now[v]
        /\ up' /\ up /\ UNCHANGED <<hi, lost>> /\ disk' = disk
    BY <2>1
  <2>7. \A t \in {} : \E v \in Workers : pc[v] = "rotating" /\ t = now[v]
    OBVIOUS
  <2>8. {} \in SUBSET Nat
    OBVIOUS
  <2> QED
    BY <2>4, <2>5, <2>6, <2>7, <2>8, BackedShrink
<1>11. CASE UNCHANGED vars
  BY <1>11, BackedFrame DEF vars, service, requests
<1> QED
  BY <1>1, <1>2, <1>4, <1>5, <1>6, <1>7, <1>8, <1>9, <1>10, <1>11 DEF Next

\* A request that takes the active key as its signer is backed: that key is
\* in memory and no record of it anywhere is retired.
LEMMA SignerBacked ==
  ASSUME TypeOK, KeysInv, ClockInv, NEW w \in Workers, GetSigner(w)
  PROVE  activeKid \in Kids /\ Backed(activeKid, now[w] + ttl)
<1>1. \A r \in keys \union disk.keys : r.retiredAt # NoTime => r.kid # activeKid
  BY DEF KeysInv
<1>2. activeKid \in KidsOf(keys) /\ activeKid \in Kids
  BY DEF GetSigner, HasActive, KidsOf, TypeOK, KeyRecord
<1>3. StampedBy(now[w] + ttl, hi)
  <2>1. now[w] <= hi /\ now[w] \in Nat /\ hi \in Nat /\ ttl \in Ttls /\ ttl \in Nat
    BY KeysAssumption DEF ClockInv, TypeOK
  <2> QED
    BY <2>1 DEF StampedBy
<1>4. \A v \in Workers : pc[v] # "rotating"
  BY DEF GetSigner, MonitorFree
<1> QED
  BY <1>1, <1>2, <1>3, <1>4 DEF Backed

LEMMA ClaimsInvStep ==
  ASSUME TypeOK, TypeOK', KeysInv, ClockInv, ClaimsInv, [Next]_vars, hi <= hi'
  PROVE  ClaimsInv'
<1>t. Ttls \subseteq Nat /\ ttl \in Nat /\ ttl' \in Nat
  BY KeysAssumption DEF TypeOK
<1>1. ASSUME NEW k \in Kids, NEW exp \in Nat, exp > 0, exp = lastExp'[k]
      PROVE  Backed(k, exp)'
  <2>1. lastExp[k] \in Nat
    BY DEF TypeOK
  <2>2. CASE exp = lastExp[k]
    <3>1. Backed(k, exp)
      BY <1>1, <2>1, <2>2 DEF ClaimsInv
    <3> QED
      BY <3>1, BackedStep
  <2>3. CASE exp # lastExp[k]
    <3>1. PICK w \in Workers : Sign(w)
      BY <1>1, <2>3 DEF Next, vars, Tick, StepBack, StartLoaded, StartMinting, StartFails,
                  Crash, Stamp, GetSigner, RotateEnter, Rotate, RotateFails, Demote, JwkSet
    <3>2. k = kid[w] /\ exp = now[w] + ttl
      BY <1>1, <2>3, <3>1 DEF Sign, TypeOK
    <3>3. Backed(k, exp)
      BY <3>1, <3>2 DEF ClaimsInv, Sign
    <3> QED
      BY <3>3, BackedStep
  <2> QED
    BY <2>2, <2>3
<1>2. ASSUME NEW w \in Workers, pc'[w] = "signing",
             NEW k, k = kid'[w], NEW exp, exp = now'[w] + ttl'
      PROVE  k \in Kids /\ Backed(k, exp)'
  <2>1. now[w] + ttl \in Nat
    BY <1>t DEF TypeOK
  <2>2. \/ pc[w] = "signing" /\ UNCHANGED <<kid[w], now[w], ttl>>
        \/ GetSigner(w) /\ kid'[w] = activeKid /\ UNCHANGED <<now, ttl>>
    <3> USE <1>2 DEF TypeOK
    <3>1. CASE Tick \/ StepBack \/ JwkSet \/ UNCHANGED vars
      BY <3>1 DEF Tick, StepBack, JwkSet, vars, requests
    <3>2. CASE Crash \/ StartFails \/ \E t \in Ttls : StartLoaded(t) \/ StartMinting(t)
      BY <3>2 DEF Crash, StartFails, StartLoaded, StartMinting, requests, KeysInv
    <3>3. ASSUME NEW v \in Workers, Stamp(v) \/ Sign(v) \/ RotateEnter(v) \/ Rotate(v) \/ RotateFails(v)
          PROVE  pc[w] = "signing" /\ UNCHANGED <<kid[w], now[w], ttl>>
      BY <3>3 DEF Stamp, Sign, RotateEnter, Rotate, RotateFails, Demote
    <3>4. ASSUME NEW v \in Workers, GetSigner(v)
          PROVE  \/ pc[w] = "signing" /\ UNCHANGED <<kid[w], now[w], ttl>>
                 \/ GetSigner(w) /\ kid'[w] = activeKid /\ UNCHANGED <<now, ttl>>
      <4>1. CASE v = w
        BY <3>4, <4>1 DEF GetSigner
      <4>2. CASE v # w
        BY <3>4, <4>2 DEF GetSigner
      <4> QED
        BY <4>1, <4>2
    <3> QED
      BY <3>1, <3>2, <3>3, <3>4 DEF Next
  <2>3. k \in Kids /\ Backed(k, exp) /\ exp = now[w] + ttl
    BY <1>2, <2>2, SignerBacked DEF ClaimsInv
  <2> QED
    BY <2>1, <2>3, BackedStep
<1>3. \A k \in Kids : lastExp'[k] \in Nat
  BY DEF TypeOK
<1> QED
  BY <1>1, <1>2, <1>3 DEF ClaimsInv, Backed, StampedBy, RetentionOver

\* The inductive invariant: the shape of the key sets, how far the clock has
\* fallen back, and that every token is backed by its key until the retention
\* of that key is over.
THEOREM InductiveInvariant == Spec => [](TypeOK /\ IInv)
<1>1. Init => ClockInv /\ ClaimsInv
  <2> SUFFICES ASSUME Init
               PROVE  ClockInv /\ ClaimsInv
    OBVIOUS
  <2>1. ClockInv
    BY KeysAssumption DEF Init, Idle, ClockInv
  <2>2. /\ \A k \in Kids : ~(lastExp[k] > 0)
        /\ \A w \in Workers : pc[w] # "signing"
    BY DEF Init, Idle
  <2> QED
    BY <2>1, <2>2 DEF ClaimsInv
<1>2. TypeOK /\ TypeOK' /\ KeysInv /\ ClockInv /\ ClaimsInv /\ [Next]_vars
        => ClockInv' /\ ClaimsInv'
  BY ClockInvStep, ClaimsInvStep
<1> QED
  BY <1>1, <1>2, TypeCorrect, KeysInvariant, PTL DEF Spec, IInv

\* What the invariant says of the JWKS: a token whose retention is not over
\* has its key in memory, and pruning at the present reading of the clock
\* would not remove it.
LEMMA BackedIsPublished ==
  ASSUME TypeOK, IInv, up, NEW k \in Kids \ lost, lastExp[k] > 0
  PROVE  k \in Published \/ RetentionOver(lastExp[k])
<1> SUFFICES ASSUME ~RetentionOver(lastExp[k])
             PROVE  k \in Published
  OBVIOUS
<1> DEFINE exp == lastExp[k]
<1>1. exp \in Nat /\ clock \in Nat /\ ttl \in Nat /\ keys \in SUBSET KeyRecord
  BY KeysAssumption DEF TypeOK
<1>2. Backed(k, exp) /\ ~RetentionOver(exp)
  BY DEF IInv, ClaimsInv
<1> HIDE DEF exp
<1>3. PICK r \in keys : r.kid = k
  BY <1>2 DEF Backed, KidsOf
<1>4. r \in Retained(keys, clock)
  <2> SUFFICES ASSUME r \notin Retained(keys, clock)
               PROVE  FALSE
    OBVIOUS
  <2>1. r.retiredAt \in Nat /\ r.retiredAt + Retention < clock
    BY <1>1, RetainedFacts
  <2>2. r.retiredAt # NoTime
    BY <2>1, KeysAssumption
  <2>3. StampedBy(exp, r.retiredAt + Setback)
    BY <1>2, <1>3, <2>2 DEF Backed
  <2> QED
    BY <1>1, <1>2, <2>1, <2>3, PrunedIsOver DEF IInv
<1> QED
  BY <1>3, <1>4 DEF Published, KidsOf

\* Whatever the TTLs, the leeway and the setbacks, and however many saves fail:
\* a key that any process stored stays published until the retention of its
\* last token is over.  This is the most that a lowered TTL can cost a token.
THEOREM KeysAreKept == Spec => []KeptForRetention
<1>1. TypeOK /\ IInv => KeptForRetention
  BY BackedIsPublished DEF KeptForRetention
<1> QED
  BY <1>1, InductiveInvariant, PTL

\* Under Margin a live token's retention is not over.
LEMMA KeptIsPublished ==
  ASSUME Margin, TypeOK, ClockInv, KeptForRetention
  PROVE  LiveTokenPublishedUnlessLost
<1> SUFFICES ASSUME up, NEW k \in Kids \ lost, Live(k)
             PROVE  k \in Published
  BY DEF LiveTokenPublishedUnlessLost
<1>1. lastExp[k] \in Nat /\ clock \in Nat /\ hi \in Nat /\ Leeway \in Nat /\ Setback \in Nat
  BY KeysAssumption DEF TypeOK
<1>2. lastExp[k] > 0 /\ clock - Leeway < lastExp[k] /\ hi <= clock + Setback
  BY DEF Live, ClockInv
<1>3. ~RetentionOver(lastExp[k])
  BY <1>1, <1>2, OverIsExpired
<1> QED
  BY <1>2, <1>3 DEF KeptForRetention

\* Under Margin no live token is ever left with an unpublished kid, through
\* rotations, crashes, changes of TTL, clock setbacks and failed saves, except
\* for the tokens of a key that a failed save never stored and a crash wiped.
THEOREM PublishedUnlessLost ==
  ASSUME Margin
  PROVE  Spec => []LiveTokenPublishedUnlessLost
<1>1. TypeOK /\ IInv /\ KeptForRetention => LiveTokenPublishedUnlessLost
  BY Margin, KeptIsPublished DEF IInv
<1> QED
  BY <1>1, Margin, InductiveInvariant, KeysAreKept, PTL

\* While no save fails, every key in memory is in the document as well, so a
\* crash wipes none.
NothingLost == lost = {} /\ KidsOf(keys) \subseteq KidsOf(disk.keys)

LEMMA NothingLostInvariant ==
  ASSUME ~SaveMayFail
  PROVE  Spec => []NothingLost
<1>1. Init => NothingLost
  BY DEF Init, NothingLost, KidsOf
<1>2. NothingLost /\ [Next]_vars => NothingLost'
  <2> SUFFICES ASSUME NothingLost, [Next]_vars
               PROVE  NothingLost'
    OBVIOUS
  <2> USE DEF NothingLost
  <2>1. CASE Tick \/ StepBack \/ UNCHANGED vars
    BY <2>1 DEF Tick, StepBack, vars, service
  <2>2. ASSUME NEW t \in Ttls, StartLoaded(t) \/ StartMinting(t)
        PROVE  NothingLost'
    BY <2>2 DEF StartLoaded, StartMinting
  <2>3. CASE Crash
    BY <2>3 DEF Crash, KidsOf
  <2>4. ASSUME NEW w \in Workers, Stamp(w) \/ GetSigner(w) \/ Sign(w) \/ RotateEnter(w)
        PROVE  NothingLost'
    BY <2>4 DEF Stamp, GetSigner, Sign, RotateEnter, service
  <2>5. ASSUME NEW w \in Workers, Rotate(w)
        PROVE  NothingLost'
    BY <2>5 DEF Rotate, Demote
  <2>6. CASE JwkSet
    BY <2>6 DEF JwkSet, Retained, KidsOf
  <2> QED
    BY <2>1, <2>2, <2>3, <2>4, <2>5, <2>6, ~SaveMayFail DEF Next, StartFails, RotateFails
<1> QED
  BY <1>1, <1>2, PTL DEF Spec

\* Where saves succeed the doc's claim holds as it stands: while the process
\* runs, the JWKS has the key of every token a verifier would still accept.
THEOREM LiveTokensArePublished ==
  ASSUME Margin, ~SaveMayFail
  PROVE  Spec => []LiveTokenPublished
<1>1. NothingLost /\ LiveTokenPublishedUnlessLost => LiveTokenPublished
  BY DEF NothingLost, LiveTokenPublishedUnlessLost, LiveTokenPublished
<1> QED
  BY <1>1, Margin, ~SaveMayFail, PublishedUnlessLost, NothingLostInvariant, PTL

=============================================================================
