------------------------- MODULE RevocationService -------------------------
(***************************************************************************)
(* The revocation denylist (RevocationService.java), the admin handler     *)
(* that writes it (ApiHandlers.revoke), the verifiers that read it         *)
(* (TokenVerifier.verify with either a polled copy of the denylist or the  *)
(* service's own isRevoked), and the process that crashes around them.     *)
(*                                                                         *)
(* The handler fixes the entry's expiry before it enters the service's     *)
(* monitor; the verifier reads its clock before it consults the denylist.  *)
(* Both gaps are separate steps here.  A token is its jti and its exp; the *)
(* checks of verify that come before the time window do not depend on the  *)
(* denylist and are taken to have passed.                                  *)
(***************************************************************************)
EXTENDS Integers

CONSTANTS
  Jtis,         \* token ids
  Admins,       \* threads that serve POST /admin/revocations
  Verifiers,    \* parties that verify tokens
  Ttls,         \* the token TTLs an operator configures, one per start
  Leeway,       \* TokenVerifier's clock-skew allowance
  Setback,      \* how far below its highest reading the wall clock may step
  Horizons,     \* "supplied": admins send the token's exp; "default": they do not
  MaxTime,      \* bound: the clock stops here
  SaveMayFail,  \* whether JsonStore.save may throw
  None          \* a jti without an entry, a verifier or handler without a token

ASSUME RevocationAssumption ==
  /\ Ttls \subseteq Nat \ {0}
  /\ Leeway \in Nat
  /\ Setback \in Nat
  /\ Horizons \subseteq {"supplied", "default"}
  /\ MaxTime \in Nat
  /\ SaveMayFail \in BOOLEAN
  /\ None \notin Nat /\ None \notin Jtis

VARIABLES
  clock,        \* what clock.instant() returns, in seconds
  hi,           \* the highest value clock has had
  up,           \* the process runs and its services are constructed
  ttl,          \* the process's configured token TTL
  exp,          \* per jti, the exp of the issued token, or None
  byJti,        \* RevocationService.byJti: per jti, the entry's expiresAt, or None
  disk,         \* the revocations document, as byJti
  request,      \* per admin thread, the revocation it is about to make
  copy,         \* per verifier, the jtis on the denylist it polled last
  token,        \* per verifier, the token that passed its time window, or None
  acked,        \* history: jtis whose revoke() returned normally with a horizon
                \* that covers the token, and that none has since cut short
  seen          \* history: per verifier, acked at its last poll

store == <<byJti, disk, acked>>
readers == <<copy, token, seen>>
vars == <<clock, hi, up, ttl, exp, store, request, readers>>

Entries == [Jtis -> Nat \union {None}]
NoRequest == [jti |-> None, expiresAt |-> None]
Requests == [jti : Jtis, expiresAt : Nat] \union {NoRequest}

Listed(entries) == {j \in Jtis : entries[j] # None}

\* An entry for j that expires then is what the API asks for: not before the token.
Covers(expiresAt, j) == exp[j] # None /\ exp[j] <= expiresAt

\* Mutants of Pruned: nothing is dropped; an entry is, in its last second.
PrunedNever(entries, t) == entries
PrunedEarly(entries, t) ==
  [j \in Jtis |-> IF entries[j] # None /\ entries[j] <= t THEN None ELSE entries[j]]

\* prune() when the clock reads t.
Pruned(entries, t) ==
  [j \in Jtis |-> IF entries[j] # None /\ entries[j] < t THEN None ELSE entries[j]]

Init ==
  /\ clock = 0 /\ hi = 0
  /\ up = FALSE /\ ttl \in Ttls
  /\ exp = [j \in Jtis |-> None]
  /\ byJti = [j \in Jtis |-> None] /\ disk = [j \in Jtis |-> None]
  /\ request = [a \in Admins |-> NoRequest]
  /\ copy = [v \in Verifiers |-> {}]
  /\ token = [v \in Verifiers |-> None]
  /\ acked = {} /\ seen = [v \in Verifiers |-> {}]

-----------------------------------------------------------------------------
(* The clock and the process.                                              *)

Tick ==
  /\ clock < MaxTime
  /\ clock' = clock + 1
  /\ hi' = IF clock' > hi THEN clock' ELSE hi
  /\ UNCHANGED <<up, ttl, exp, store, request, readers>>

\* An adjustment sets the wall clock back.
StepBack ==
  /\ \E c \in 0 .. clock - 1 : c >= hi - Setback /\ clock' = c
  /\ UNCHANGED <<hi, up, ttl, exp, store, request, readers>>

\* The constructor loads the document as it is, without pruning.
Start(t) ==
  /\ ~up
  /\ up' = TRUE /\ ttl' = t
  /\ byJti' = disk
  /\ UNCHANGED <<clock, hi, exp, disk, request, acked, readers>>

\* The process dies; the verifiers are other processes and live on.
Crash ==
  /\ up
  /\ up' = FALSE
  /\ byJti' = [j \in Jtis |-> None]
  /\ request' = [a \in Admins |-> NoRequest]
  /\ UNCHANGED <<clock, hi, ttl, exp, disk, acked, readers>>

\* TokenIssuer.issue hands out a token.
Issue(j) ==
  /\ up /\ exp[j] = None
  /\ exp' = [exp EXCEPT ![j] = clock + ttl]
  /\ UNCHANGED <<clock, hi, up, ttl, store, request, readers>>

-----------------------------------------------------------------------------
(* Revoking.                                                               *)

\* Mutants of ExpiresAt: no default for the missing field; the default is now.
ExpiresAtSupplied(j) == {IF h = "supplied" THEN exp[j] ELSE None : h \in Horizons}
ExpiresAtNow(j) == {IF h = "supplied" THEN exp[j] ELSE clock : h \in Horizons}

\* The expiresAt of a revocation of j: the one the admin sent, or the handler's
\* default from a clock reading of its own.
ExpiresAt(j) == {IF h = "supplied" THEN exp[j] ELSE clock + ttl : h \in Horizons}

\* The handler fixes expiresAt.  An admin revokes tokens that exist.
ReceiveRevocation(a, j) ==
  /\ up /\ request[a] = NoRequest /\ exp[j] # None
  /\ \E e \in ExpiresAt(j) : request' = [request EXCEPT ![a] = [jti |-> j, expiresAt |-> e]]
  /\ UNCHANGED <<clock, hi, up, ttl, exp, store, readers>>

\* revoke() up to its save: put, which replaces an entry of the same jti, and
\* prune, with the clock as it is by now.
Put(a) ==
  /\ up /\ request[a] # NoRequest
  /\ byJti' = Pruned([byJti EXCEPT ![request[a].jti] = request[a].expiresAt], clock)
  /\ request' = [request EXCEPT ![a] = NoRequest]
  /\ UNCHANGED <<clock, hi, up, ttl, exp, readers>>

\* An entry that does not cover its token replaces one that did.
Acked(a, jtis) ==
  IF Covers(request[a].expiresAt, request[a].jti) THEN jtis ELSE jtis \ {request[a].jti}

\* Mutant of Revoke: returns without persist().
RevokeUnsaved(a) ==
  /\ Put(a)
  /\ UNCHANGED disk
  /\ acked' = Acked(a, acked \union {request[a].jti})

\* ... and the save succeeds.
Revoke(a) ==
  /\ Put(a)
  /\ disk' = byJti'
  /\ acked' = Acked(a, acked \union {request[a].jti})

\* ... or the save throws, before or after the new document is in place: the
\* admin gets an error, and the memory keeps the entry.
RevokeFails(a) ==
  /\ SaveMayFail
  /\ Put(a)
  /\ disk' \in {disk, byJti'}
  /\ acked' = Acked(a, acked)

-----------------------------------------------------------------------------
(* Verifying.                                                              *)

\* A verifier polls activeDenylist(), which prunes the memory but not the
\* document, between two verifications.
Poll(v) ==
  /\ up /\ token[v] = None
  /\ byJti' = Pruned(byJti, clock)
  /\ copy' = [copy EXCEPT ![v] = Listed(byJti')]
  /\ seen' = [seen EXCEPT ![v] = acked]
  /\ UNCHANGED <<clock, hi, up, ttl, exp, disk, request, token, acked>>

\* verify() reads the clock and the token is neither early nor EXPIRED.
PassTimeWindow(v, j) ==
  /\ token[v] = None /\ exp[j] # None
  /\ clock - Leeway < exp[j]
  /\ token' = [token EXCEPT ![v] = j]
  /\ UNCHANGED <<clock, hi, up, ttl, exp, store, request, copy, seen>>

\* verify() goes on to test the jti against the polled copy.
DecidePolled(v) ==
  /\ token[v] # None
  /\ token' = [token EXCEPT ![v] = None]
  /\ UNCHANGED <<clock, hi, up, ttl, exp, store, request, copy, seen>>

\* verify() goes on to test the jti with isRevoked(), which prunes first.
DecideDirect(v) ==
  /\ up /\ token[v] # None
  /\ byJti' = Pruned(byJti, clock)
  /\ token' = [token EXCEPT ![v] = None]
  /\ UNCHANGED <<clock, hi, up, ttl, exp, disk, request, copy, acked, seen>>

Next ==
  \/ Tick \/ StepBack \/ Crash
  \/ \E t \in Ttls : Start(t)
  \/ \E j \in Jtis : Issue(j)
  \/ \E a \in Admins, j \in Jtis : ReceiveRevocation(a, j)
  \/ \E a \in Admins : Revoke(a) \/ RevokeFails(a)
  \/ \E v \in Verifiers, j \in Jtis : PassTimeWindow(v, j)
  \/ \E v \in Verifiers : Poll(v) \/ DecidePolled(v) \/ DecideDirect(v)

Spec == Init /\ [][Next]_vars

\* Time passes, and passes what the clock was set back by; an administrator
\* restarts the server, and the verifiers poll it again and again.
Fairness ==
  /\ WF_vars(Tick) /\ SF_vars(Tick /\ clock = hi)
  /\ WF_vars(\E t \in Ttls : Start(t))
  /\ \A v \in Verifiers : WF_vars(DecidePolled(v)) /\ SF_vars(Poll(v))

FairSpec == Spec /\ Fairness

-----------------------------------------------------------------------------
(* Properties.                                                             *)

TypeOK ==
  /\ clock \in Nat /\ hi \in Nat
  /\ up \in BOOLEAN /\ ttl \in Ttls
  /\ exp \in [Jtis -> Nat \union {None}]
  /\ byJti \in Entries /\ disk \in Entries
  /\ request \in [Admins -> Requests]
  /\ copy \in [Verifiers -> SUBSET Jtis]
  /\ token \in [Verifiers -> Jtis \union {None}]
  /\ acked \in SUBSET Jtis
  /\ seen \in [Verifiers -> SUBSET Jtis]

\* A token whose revocation was acknowledged before a verifier's last poll, with
\* an entry that covers it, is never accepted by it: once past the time window,
\* it is on the polled copy, however the pruning of the entry, crashes, failed
\* saves, setbacks of the clock and further revocations fall.
RevokedNeverAccepted ==
  \A v \in Verifiers : token[v] \in seen[v] => token[v] \in copy[v]

\* The same for a verifier that asks the service itself: a token it has found
\* to be in time, and whose revocation was acknowledged, is still listed.
RevokedNeverAcceptedDirectly ==
  \A v \in Verifiers : up /\ token[v] \in acked => token[v] \in Listed(Pruned(byJti, clock))

\* An acknowledged revocation is in memory and in the document, so survives a
\* restart, for as long as a verifier would find its token to be in time.
RevocationIsDurable ==
  \A j \in acked :
    clock - Leeway < exp[j] => j \in Listed(disk) /\ (up => j \in Listed(byJti))

\* "So the entry lingers at least one full lifetime": no entry, and none about
\* to be, falls short of its token by more than the most the clock may be set
\* back and the most that one configured TTL is above another.
LifetimeCovered(j, expiresAt) ==
  exp[j] # None /\ \E t1, t2 \in Ttls : exp[j] + t2 <= expiresAt + Setback + t1

EntriesLinger ==
  /\ \A a \in Admins : request[a] # NoRequest =>
       LifetimeCovered(request[a].jti, request[a].expiresAt)
  /\ \A j \in Listed(byJti) : LifetimeCovered(j, byJti[j])
  /\ \A j \in Listed(disk) : LifetimeCovered(j, disk[j])

\* "This denylist stays small": every entry whose expiry the clock passes for
\* good leaves the memory, or is renewed by another revocation, if the
\* verifiers keep polling.
EntriesDrain ==
  LET last == MaxTime - Setback IN
  \A j \in Jtis : byJti[j] # None /\ byJti[j] < last ~> byJti[j] = None \/ byJti[j] >= last

\* The verifiers' leeway, and a clock set back between prune and verify, are
\* within the second by which prune() lags the entry's expiry.
Margin == Leeway + Setback <= 1

\* Beyond Margin, and for verifiers that ask the service itself, a revoked token
\* can get through, but only after the clock has passed its exp, if only once:
\* until then every verifier refuses what it was, or would be, told of.
RevokedPassesOnlyLate ==
  \A v \in Verifiers : token[v] # None /\ hi <= exp[token[v]] =>
    /\ token[v] \in seen[v] => token[v] \in copy[v]
    /\ up /\ token[v] \in acked => token[v] \in Listed(Pruned(byJti, clock))

-----------------------------------------------------------------------------
(* The inductive invariant behind the safety properties.                   *)

\* The clock has passed the token's exp, if only once.
Expired(j) == exp[j] < hi

\* The entries, in memory or in the document, that cover their tokens.
Covering(entries) == {j \in Listed(entries) : Covers(entries[j], j)}

\* What EntriesLinger rests on: no token outlives one issued at hi.
LingerInv ==
  /\ clock <= hi /\ hi <= clock + Setback
  /\ \A j \in Jtis : exp[j] # None => \E t \in Ttls : exp[j] <= hi + t
  /\ EntriesLinger

\* Pruning only takes the entries of tokens that have expired.
IInv ==
  /\ LingerInv
  /\ \A j \in acked : /\ exp[j] # None
                      /\ Expired(j) \/ (j \in Covering(disk) /\ (up => j \in Covering(byJti)))
  /\ \A v \in Verifiers : \A j \in seen[v] : exp[j] # None /\ (Expired(j) \/ j \in copy[v])
  /\ Margin => RevokedNeverAccepted

=============================================================================
