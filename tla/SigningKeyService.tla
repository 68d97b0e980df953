------------------------- MODULE SigningKeyService -------------------------
(***************************************************************************)
(* The signing keys of the IDP (SigningKeyService.java) together with the  *)
(* token requests that use them (TokenIssuer.java), the wall clock both    *)
(* read, and the process that crashes and restarts around them.            *)
(*                                                                         *)
(* Each request runs on a virtual thread of its own.  Issuing a token is   *)
(* three steps: the clock is read outside any lock (Stamp), the active key *)
(* is taken under the service's monitor (GetSigner), and the token is      *)
(* signed and handed over (Sign).  A rotation holds the monitor from its   *)
(* clock reading (RotateEnter) to its return (Rotate, RotateFails).        *)
(*                                                                         *)
(* A key is its kid and its life-cycle fields: the key pair is unique per  *)
(* kid and createdAt is never read.  The list of keys is a set, since      *)
(* nothing depends on its order.                                           *)
(***************************************************************************)
EXTENDS Integers

CONSTANTS
  Workers,      \* the request threads
  Kids,         \* the kids the random generator may return
  Ttls,         \* the token TTLs an operator configures, one per start
  Leeway,       \* the clock-skew allowance of the token's verifier
  Setback,      \* how far below its highest reading the wall clock may step
  MaxTime,      \* bound: the clock stops here
  SaveMayFail,  \* whether JsonStore.save may throw
  NoTime,       \* the null of SigningKeyRecord.retiredAt
  NoKid         \* the null of SigningKeyService.activeKid

ASSUME KeysAssumption ==
  /\ Ttls \subseteq Nat \ {0}
  /\ Leeway \in Nat
  /\ Setback \in Nat
  /\ MaxTime \in Nat
  /\ SaveMayFail \in BOOLEAN
  /\ NoTime \notin Nat
  /\ NoKid \notin Kids

VARIABLES
  clock,      \* what clock.instant() returns, in seconds
  hi,         \* the highest value clock has had
  up,         \* the process runs and its services are constructed
  ttl,        \* the process's configured token TTL
  keys,       \* SigningKeyService.keys
  activeKid,  \* SigningKeyService.activeKid
  disk,       \* the signing-keys document in the data directory
  minted,     \* every kid generated so far
  pc,         \* what each worker's request is doing
  now,        \* the request's local reading of the clock
  kid,        \* the kid of the signer the request holds
  lastExp,    \* history: per kid, the latest exp of a token handed out, or 0
  demoted,    \* history: kids retired by a rotation that returned normally
  lost        \* history: kids that were in memory only when the process died

service == <<keys, activeKid, disk, minted, demoted, lost>>
requests == <<pc, now, kid>>
vars == <<clock, hi, up, ttl, service, requests, lastExp>>

-----------------------------------------------------------------------------
(* Key records and documents.                                              *)

KeyRecord == [kid : Kids, active : BOOLEAN, retiredAt : Nat \union {NoTime}]
Document == [activeKid : Kids \union {NoKid}, keys : SUBSET KeyRecord]

\* No file yet: the constructor goes on as if it had loaded an empty set.
Absent == [activeKid |-> NoKid, keys |-> {}]

KidsOf(ks) == {r.kid : r \in ks}

\* The record generateActive() adds.
NewKey(k) == [kid |-> k, active |-> TRUE, retiredAt |-> NoTime]

\* Mutants of RetireActive: the old key stays active; a second too early; a
\* key that was retired before is retired again.
RetireNone(ks, t) == ks
RetireEarly(ks, t) ==
  {IF r.active THEN [r EXCEPT !.active = FALSE, !.retiredAt = t - 1] ELSE r : r \in ks}
RetireAll(ks, t) == {[r EXCEPT !.active = FALSE, !.retiredAt = t] : r \in ks}

\* rotate()'s loop: every active key is retired at t.
RetireActive(ks, t) ==
  {IF r.active THEN [r EXCEPT !.active = FALSE, !.retiredAt = t] ELSE r : r \in ks}

\* Mutant of Retention: as long as one token lives, not two.
RetentionOneTtl == ttl

\* ServerConfig.retiredKeyRetention().
Retention == 2 * ttl

\* Mutant of Retained: drops a key in the second of its cutoff.
RetainedStrictly(ks, t) ==
  {r \in ks : r.active \/ r.retiredAt = NoTime \/ r.retiredAt > t - Retention}

\* pruneExpiredRetired() when the clock reads t.
Retained(ks, t) ==
  {r \in ks : r.active \/ r.retiredAt = NoTime \/ r.retiredAt >= t - Retention}

\* findActive() # null
HasActive(ks, a) == \E r \in ks : r.active /\ r.kid = a

Idle ==
  /\ pc = [w \in Workers |-> "idle"]
  /\ now = [w \in Workers |-> 0]
  /\ kid = [w \in Workers |-> NoKid]

Init ==
  /\ clock = 0 /\ hi = 0
  /\ up = FALSE /\ ttl \in Ttls
  /\ keys = {} /\ activeKid = NoKid
  /\ disk = Absent
  /\ minted = {}
  /\ Idle
  /\ lastExp = [k \in Kids |-> 0]
  /\ demoted = {} /\ lost = {}

-----------------------------------------------------------------------------
(* The wall clock: it advances, and an adjustment may set it back.         *)

Tick ==
  /\ clock < MaxTime
  /\ clock' = clock + 1
  /\ hi' = IF clock' > hi THEN clock' ELSE hi
  /\ UNCHANGED <<up, ttl, service, requests, lastExp>>

StepBack ==
  /\ \E c \in 0 .. clock - 1 : c >= hi - Setback /\ clock' = c
  /\ UNCHANGED <<hi, up, ttl, service, requests, lastExp>>

-----------------------------------------------------------------------------
(* The process.                                                            *)

\* The constructor finds an active key in the stored document.
StartLoaded(t) ==
  /\ ~up /\ HasActive(disk.keys, disk.activeKid)
  /\ up' = TRUE /\ ttl' = t
  /\ keys' = disk.keys /\ activeKid' = disk.activeKid
  /\ UNCHANGED <<clock, hi, disk, minted, requests, lastExp, demoted, lost>>

\* The constructor mints the initial key and stores it.
StartMinting(t) ==
  /\ ~up /\ ~HasActive(disk.keys, disk.activeKid)
  /\ up' = TRUE /\ ttl' = t
  /\ \E k \in Kids \ minted :
       /\ minted' = minted \union {k}
       /\ keys' = disk.keys \union {NewKey(k)} /\ activeKid' = k
  /\ disk' = [activeKid |-> activeKid', keys |-> keys']
  /\ UNCHANGED <<clock, hi, requests, lastExp, demoted, lost>>

\* The same, but the save throws once the new document is in place:
\* construction fails and the process exits, leaving the document.  (A save
\* that throws earlier leaves nothing behind: the start did not happen.)
StartFails ==
  /\ SaveMayFail
  /\ ~up /\ ~HasActive(disk.keys, disk.activeKid)
  /\ \E k \in Kids \ minted :
       /\ minted' = minted \union {k}
       /\ disk' = [activeKid |-> k, keys |-> disk.keys \union {NewKey(k)}]
  /\ UNCHANGED <<clock, hi, up, ttl, keys, activeKid, requests, lastExp, demoted, lost>>

\* The process dies, at any moment, with everything it had in memory.
Crash ==
  /\ up
  /\ up' = FALSE
  /\ keys' = {} /\ activeKid' = NoKid
  /\ pc' = [w \in Workers |-> "idle"]
  /\ now' = [w \in Workers |-> 0]
  /\ kid' = [w \in Workers |-> NoKid]
  /\ lost' = lost \union (KidsOf(keys) \ KidsOf(disk.keys))
  /\ UNCHANGED <<clock, hi, ttl, disk, minted, lastExp, demoted>>

-----------------------------------------------------------------------------
(* Requests.  The service's methods are synchronized: none runs while a    *)
(* rotation is inside the monitor.                                         *)

\* Mutant of MonitorFree: the methods are not synchronized.
Unsynchronized == TRUE

MonitorFree == \A w \in Workers : pc[w] # "rotating"

\* TokenIssuer.issue reads the clock for iat and exp; no lock is held.
Stamp(w) ==
  /\ up /\ pc[w] = "idle"
  /\ pc' = [pc EXCEPT ![w] = "stamped"]
  /\ now' = [now EXCEPT ![w] = clock]
  /\ UNCHANGED <<clock, hi, up, ttl, service, kid, lastExp>>

\* SigningKeyService.currentSigner().
GetSigner(w) ==
  /\ up /\ pc[w] = "stamped"
  /\ MonitorFree
  /\ HasActive(keys, activeKid)
  /\ pc' = [pc EXCEPT ![w] = "signing"]
  /\ kid' = [kid EXCEPT ![w] = activeKid]
  /\ UNCHANGED <<clock, hi, up, ttl, service, now, lastExp>>

\* Jws.sign, and the token goes to the client.  Of the tokens under one kid
\* the one that expires last is all that matters to the key's retention.
Sign(w) ==
  /\ up /\ pc[w] = "signing"
  /\ LET exp == now[w] + ttl IN
       lastExp' = [lastExp EXCEPT ![kid[w]] = IF exp > @ THEN exp ELSE @]
  /\ pc' = [pc EXCEPT ![w] = "idle"]
  /\ now' = [now EXCEPT ![w] = 0]
  /\ kid' = [kid EXCEPT ![w] = NoKid]
  /\ UNCHANGED <<clock, hi, up, ttl, service>>

\* rotate() enters the monitor and reads the clock.
RotateEnter(w) ==
  /\ up /\ pc[w] = "idle"
  /\ MonitorFree
  /\ pc' = [pc EXCEPT ![w] = "rotating"]
  /\ now' = [now EXCEPT ![w] = clock]
  /\ UNCHANGED <<clock, hi, up, ttl, service, kid, lastExp>>

\* The rest of rotate() up to its save: retire, generate, prune (with a clock
\* reading of its own).
Demote(w) ==
  /\ up /\ pc[w] = "rotating"
  /\ \E k \in Kids \ minted :
       /\ minted' = minted \union {k}
       /\ keys' = Retained(RetireActive(keys, now[w]) \union {NewKey(k)}, clock)
       /\ activeKid' = k
  /\ pc' = [pc EXCEPT ![w] = "idle"]
  /\ now' = [now EXCEPT ![w] = 0]
  /\ UNCHANGED <<clock, hi, up, ttl, kid, lastExp, lost>>

\* Mutant of Rotate: returns without persist().
RotateUnsaved(w) ==
  /\ Demote(w)
  /\ UNCHANGED disk
  /\ demoted' = demoted \union KidsOf({r \in keys : r.active})

\* ... and the save succeeds: rotate() returns the new kid.
Rotate(w) ==
  /\ Demote(w)
  /\ disk' = [activeKid |-> activeKid', keys |-> keys']
  /\ demoted' = demoted \union KidsOf({r \in keys : r.active})

\* ... or the save throws, before or after the new document is in place: the
\* caller gets an error while the memory keeps the rotated keys.
RotateFails(w) ==
  /\ SaveMayFail
  /\ Demote(w)
  /\ disk' \in {disk, [activeKid |-> activeKid', keys |-> keys']}
  /\ UNCHANGED demoted

\* jwkSet(): prunes the memory, not the document, and serves what is left.
JwkSet ==
  /\ up /\ MonitorFree
  /\ keys' = Retained(keys, clock)
  /\ UNCHANGED <<clock, hi, up, ttl, activeKid, disk, minted, requests, lastExp, demoted, lost>>

Next ==
  \/ Tick \/ StepBack
  \/ \E t \in Ttls : StartLoaded(t) \/ StartMinting(t)
  \/ StartFails \/ Crash
  \/ \E w \in Workers : Stamp(w) \/ GetSigner(w) \/ Sign(w)
  \/ \E w \in Workers : RotateEnter(w) \/ Rotate(w) \/ RotateFails(w)
  \/ JwkSet

Spec == Init /\ [][Next]_vars

-----------------------------------------------------------------------------
(* Properties.                                                             *)

TypeOK ==
  /\ clock \in Nat /\ hi \in Nat
  /\ up \in BOOLEAN /\ ttl \in Ttls
  /\ keys \in SUBSET KeyRecord
  /\ activeKid \in Kids \union {NoKid}
  /\ disk \in Document
  /\ minted \in SUBSET Kids
  /\ pc \in [Workers -> {"idle", "stamped", "signing", "rotating"}]
  /\ now \in [Workers -> Nat]
  /\ kid \in [Workers -> Kids \union {NoKid}]
  /\ lastExp \in [Kids -> Nat]
  /\ demoted \in SUBSET Kids /\ lost \in SUBSET Kids

OneActive(ks, a) == \E r \in ks : r.kid = a /\ {s \in ks : s.active} = {r}

\* "Exactly one active key signs new tokens": in memory whenever the process
\* runs, and in the stored document whenever there is one, the active keys
\* are one key, the one activeKid names - through overlapping rotations,
\* crashes between and inside them, and saves that fail half way.
ExactlyOneActive ==
  /\ up => OneActive(keys, activeKid)
  /\ disk # Absent => OneActive(disk.keys, disk.activeKid)

\* What a JWKS request would be answered now.
Published == KidsOf(Retained(keys, clock))

\* Some token under k is still accepted on its expiry by a verifier whose
\* clock is the server's and which allows Leeway (TokenVerifier.verify).
Live(k) == lastExp[k] > 0 /\ clock - Leeway < lastExp[k]

\* "No live token is ever left with an unpublished kid": while the process
\* runs, the JWKS holds the key of every token a verifier would still accept,
\* whatever the interleaving of issuing with rotation and pruning, across
\* restarts and clock adjustments.
LiveTokenPublished == up => \A k \in Kids : Live(k) => k \in Published

\* The same when saves may fail: the only live tokens without a published
\* key are those signed by a key that a failed save never stored and a crash
\* then wiped from memory.
LiveTokenPublishedUnlessLost ==
  up => \A k \in Kids \ lost : Live(k) => k \in Published

\* Even a key that is gone was kept for its retention: it was retired no
\* earlier than its last token was stamped (t2 is the TTL of the process that
\* stamped it, Setback what its clock may have been ahead), and it is pruned
\* only once 2 * t1 more have passed (t1 is the TTL of the process that prunes).
RetentionOver(exp) == \E t1, t2 \in Ttls : exp + 2 * t1 + 1 <= hi + Setback + t2

\* Whatever TTLs the starts configure, even where live tokens lose their key:
\* while the process runs, the JWKS holds the key of every token handed out
\* until the retention of that key is over.  So a start that lowers the TTL
\* from t2 to t1 costs a token the last t2 - 2 * t1 seconds of its life at
\* most.
KeptForRetention ==
  up => \A k \in Kids \ lost :
          lastExp[k] > 0 => k \in Published \/ RetentionOver(lastExp[k])

\* A rotation that returned is final: a key it retired never again is the
\* one that signs, neither in the running process nor in the document the
\* next start loads.
DemotedNeverActive ==
  /\ activeKid \notin demoted
  /\ disk.activeKid \notin demoted

\* Every record of ls whose key was retired in ks is that very record.
StampsStay(ks, ls) == \A r \in ks, s \in ls : r.kid = s.kid /\ r.retiredAt # NoTime => s = r

\* A key is retired once.  While its record lasts, in the document for ever and
\* in memory until the process dies, it keeps the time it was retired at and is
\* never activated again, so that its retention runs from there and ends: later
\* rotations, failed saves, and starts that load an older list change nothing.
RetirementIsFinal ==
  [][/\ StampsStay(disk.keys, disk'.keys)
     /\ up /\ up' => StampsStay(keys, keys')]_vars

\* The retention of any configured TTL outlasts a token of any configured
\* TTL, by the leeway and by a clock set back at the retirement and again at
\* the verification; the 1 is the second in which retiredAt = cutoff, where
\* the key is still kept.
Margin == \A t1, t2 \in Ttls : Leeway + 2 * Setback <= 2 * t1 - t2 + 1

-----------------------------------------------------------------------------
(* The inductive invariant behind the properties.                          *)

\* The shape of the key sets.  A retired key is never the signing one, in the
\* process or after the next start, so no later token can be under it.
KeysInv ==
  /\ ~up => keys = {} /\ activeKid = NoKid /\ \A w \in Workers : pc[w] = "idle"
  /\ ExactlyOneActive
  /\ KidsOf(keys) \union KidsOf(disk.keys) \union demoted \subseteq minted
  /\ \A r \in keys \union disk.keys : r.active => r.retiredAt = NoTime /\ r.kid \notin demoted
  /\ \A r \in keys \union disk.keys : r.retiredAt # NoTime => r.kid # activeKid
  /\ \A r \in disk.keys : r.retiredAt # NoTime => r.kid # disk.activeKid

\* No reading of the clock is more than Setback below an earlier one.
ClockInv ==
  /\ clock <= hi /\ hi <= clock + Setback
  /\ \A w \in Workers : now[w] <= hi

\* exp is the expiry of a token whose clock reading was at most t.
StampedBy(exp, t) == \E d \in Ttls : exp <= t + d

\* What keeps a token under k with this exp verifiable: its key is in memory
\* and in the document until its retention is over, and wherever the key is
\* retired, or about to be, it is at a time that covers the token.
Backed(k, exp) ==
  /\ StampedBy(exp, hi)
  /\ \A r \in keys \union disk.keys :
       r.kid = k /\ r.retiredAt # NoTime => StampedBy(exp, r.retiredAt + Setback)
  /\ \A w \in Workers : pc[w] = "rotating" => StampedBy(exp, now[w] + Setback)
  /\ up => RetentionOver(exp) \/ k \in KidsOf(keys) \union lost
  /\ RetentionOver(exp) \/ k \in KidsOf(keys) \union KidsOf(disk.keys) \union lost

\* Every token handed out, and every one about to be, is backed.
ClaimsInv ==
  /\ \A k \in Kids : lastExp[k] > 0 => Backed(k, lastExp[k])
  /\ \A w \in Workers : pc[w] = "signing" => kid[w] \in Kids /\ Backed(kid[w], now[w] + ttl)

\* The inductive invariant.
IInv == KeysInv /\ ClockInv /\ ClaimsInv

=============================================================================
