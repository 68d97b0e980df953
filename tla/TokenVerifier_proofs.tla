------------------------ MODULE TokenVerifier_proofs ------------------------
(***************************************************************************)
(* Proofs about the verifier.  Every behaviour of the verifier is one of   *)
(* SigningKeyService, whose theorems therefore hold of it; what a copy of  *)
(* the JWKS promises follows from the inductive invariant of that module.  *)
(***************************************************************************)
EXTENDS TokenVerifier, SigningKeyService_proofs

\* A verifier takes nothing from the server it verifies for: with the
\* verifier's variables hidden, every behaviour of the two together is one of
\* the server alone, down to the pruning that each JWKS request does, so that
\* every theorem about the keys holds of a server that is being verified against.
THEOREM ServerRuns == VerifierSpec => Spec
<1>1. VerifierInit => Init
  BY DEF VerifierInit
<1>2. [VerifierNext]_verifierVars => [Next]_vars
  <2> SUFFICES ASSUME [VerifierNext]_verifierVars
               PROVE  [Next]_vars
    OBVIOUS
  <2>1. CASE ServerStep
    BY <2>1 DEF ServerStep
  <2>2. CASE FetchJwks
    BY <2>2 DEF FetchJwks, Next
  <2>3. ASSUME NEW t, Present(t)
        PROVE  UNCHANGED vars
    BY <2>3 DEF Present
  <2>4. ASSUME NEW revoked, Conclude(revoked)
        PROVE  UNCHANGED vars
    BY <2>4 DEF Conclude
  <2> QED
    BY <2>1, <2>2, <2>3, <2>4 DEF VerifierNext, verifierVars
<1> QED
  BY <1>1, <1>2, PTL DEF VerifierSpec, Spec

\* What the checks before the clock say of a token.
LEMMA EarlyAnswer ==
  ASSUME NEW t, NEW ks, NEW a, t.defects \subseteq ForeignDefects \union ClaimDefects,
         Answers(EarlyChecks(t, ks), "pending", a)
  PROVE  /\ a \in Outcomes \ {"VALID", "NOT_YET_VALID", "EXPIRED", "REVOKED"}
         /\ a = "pending" => t.defects = {}
         /\ a = "UNKNOWN_KID" => t.kid \notin ks
         /\ a \in {"WRONG_ISSUER", "WRONG_AUDIENCE"} => t.defects \intersect ForeignDefects = {}
         /\ t.defects = {} => a \in {"pending", "UNKNOWN_KID"}
<1> DEFINE cs == EarlyChecks(t, ks)
<1>1. DOMAIN cs = 1 .. 8
  <2>1. \E c1, c2, c3, c4, c5, c6, c7, c8 : cs = <<c1, c2, c3, c4, c5, c6, c7, c8>>
    BY Zenon DEF EarlyChecks
  <2> HIDE DEF cs
  <2> QED
    BY <2>1
<1>2. /\ cs[1] = Check("format" \in t.defects, "BAD_FORMAT")
      /\ cs[2] = Check("null header" \in t.defects, "throws")
      /\ cs[3] = Check(t.kid \notin ks, "UNKNOWN_KID")
      /\ cs[4] = Check("encoding" \in t.defects, "throws")
      /\ cs[5] = Check("signature" \in t.defects, "BAD_SIGNATURE")
      /\ cs[6] = Check("payload" \in t.defects, "BAD_FORMAT")
      /\ cs[7] = Check("issuer" \in t.defects, "WRONG_ISSUER")
      /\ cs[8] = Check("audience" \in t.defects, "WRONG_AUDIENCE")
  BY DEF EarlyChecks
<1>3. \/ (\A i \in 1 .. 8 : cs[i] = {}) /\ a = "pending"
      \/ \E i \in 1 .. 8 : a \in cs[i] /\ \A j \in 1 .. i - 1 : cs[j] = {}
  BY <1>1 DEF Answers
<1> HIDE DEF cs
<1>4. ASSUME \A i \in 1 .. 8 : cs[i] = {}
      PROVE  t.defects = {}
  <2>1. /\ cs[1] = {} /\ cs[2] = {} /\ cs[4] = {} /\ cs[5] = {} /\ cs[6] = {}
        /\ cs[7] = {} /\ cs[8] = {}
    BY <1>4
  <2> QED
    BY <1>2, <2>1 DEF Check, ForeignDefects, ClaimDefects
<1>5. ASSUME NEW i \in 1 .. 8, a \in cs[i], \A j \in 1 .. i - 1 : cs[j] = {}
      PROVE  /\ a \in Outcomes \ {"pending", "VALID", "NOT_YET_VALID", "EXPIRED", "REVOKED"}
             /\ a = "UNKNOWN_KID" => t.kid \notin ks
             /\ a \in {"WRONG_ISSUER", "WRONG_AUDIENCE"} => t.defects \intersect ForeignDefects = {}
             /\ t.defects = {} => a = "UNKNOWN_KID"
  <2>8. \/ i = 1 \/ i = 2 \/ i = 3 \/ i = 4
        \/ i = 5 \/ i = 6 \/ i \in {7, 8}
    OBVIOUS
  <2>9. i \in {7, 8} =>
          cs[1] = {} /\ cs[2] = {} /\ cs[4] = {} /\ cs[5] = {} /\ cs[6] = {}
    BY <1>5
  <2> USE <1>2 DEF Check, Outcomes
  <2>1. CASE i = 1
    BY <1>5, <2>1
  <2>2. CASE i = 2
    BY <1>5, <2>2
  <2>3. CASE i = 3
    BY <1>5, <2>3
  <2>4. CASE i = 4
    BY <1>5, <2>4
  <2>5. CASE i = 5
    BY <1>5, <2>5
  <2>6. CASE i = 6
    BY <1>5, <2>6
  <2>7. CASE i \in {7, 8}
    <3>1. t.defects \intersect ForeignDefects = {}
      BY <2>7, <2>9 DEF ForeignDefects
    <3>2. a \in {"WRONG_ISSUER", "WRONG_AUDIENCE"} /\ t.defects # {}
      BY <1>5, <2>7
    <3> QED
      BY <3>1, <3>2
  <2> QED
    BY <2>1, <2>2, <2>3, <2>4, <2>5, <2>6, <2>7, <2>8
<1>6. CASE (\A i \in 1 .. 8 : cs[i] = {}) /\ a = "pending"
  BY <1>4, <1>6 DEF Outcomes
<1>7. CASE \E i \in 1 .. 8 : a \in cs[i] /\ \A j \in 1 .. i - 1 : cs[j] = {}
  <2>1. PICK i \in 1 .. 8 : a \in cs[i] /\ \A j \in 1 .. i - 1 : cs[j] = {}
    BY <1>7
  <2> QED
    BY <1>5, <2>1
<1> QED
  BY <1>3, <1>6, <1>7

\* What the checks that read the clock say of it.
LEMMA LateAnswer ==
  ASSUME NEW t, NEW n \in Nat, NEW revoked \in BOOLEAN, NEW a, t.nbf \in Int, t.exp \in Nat,
         Answers(LateChecks(t, n, revoked), "VALID", a)
  PROVE  /\ a \in {"VALID", "NOT_YET_VALID", "EXPIRED", "REVOKED"}
         /\ a = "VALID" => t.nbf - Leeway <= n /\ n < t.exp + Leeway
         /\ a = "EXPIRED" => t.exp + Leeway <= n
<1> USE KeysAssumption DEF Answers, LateChecks, Check
<1>1. DOMAIN LateChecks(t, n, revoked) = 1 .. 3
  OBVIOUS
<1>2. CASE \A i \in 1 .. 3 : LateChecks(t, n, revoked)[i] = {}
  BY <1>1, <1>2
<1>3. ASSUME NEW i \in 1 .. 3, a \in LateChecks(t, n, revoked)[i]
      PROVE  /\ a \in {"NOT_YET_VALID", "EXPIRED", "REVOKED"}
             /\ a = "EXPIRED" => t.exp + Leeway <= n
  <2>1. i \in {1, 2, 3}
    OBVIOUS
  <2> QED
    BY <1>3, <2>1
<1> QED
  BY <1>1, <1>2, <1>3

\* What the server does only adds to the histories.
LEMMA HistoriesGrow ==
  ASSUME TypeOK, [Next]_vars
  PROVE  /\ \A k \in Kids : lastExp[k] <= lastExp'[k]
         /\ lost \subseteq lost'
<1> USE DEF TypeOK
<1>1. ASSUME NEW w \in Workers, Sign(w)
      PROVE  \A k \in Kids : lastExp[k] <= lastExp'[k]
  <2>1. now[w] + ttl \in Nat
    BY KeysAssumption
  <2> QED
    BY <1>1, <2>1 DEF Sign
<1>2. (\E w \in Workers : Sign(w)) \/ UNCHANGED lastExp
  BY DEF Next, Tick, StepBack, StartLoaded, StartMinting, StartFails, Crash, Stamp, GetSigner,
     RotateEnter, Rotate, RotateFails, Demote, JwkSet, vars
<1>3. lost \subseteq lost'
  BY DEF Next, Tick, StepBack, StartLoaded, StartMinting, StartFails, Crash, Stamp, GetSigner,
     Sign, RotateEnter, Rotate, RotateFails, Demote, JwkSet, vars, service
<1> QED
  BY <1>1, <1>2, <1>3

-----------------------------------------------------------------------------
(* Type correctness.                                                       *)

\* The tokens presented are tokens.
LEMMA PresentedType ==
  ASSUME TypeOK, NEW t \in OwnTokens \union ForeignTokens
  PROVE  /\ t \in Token
         /\ t \in OwnTokens => /\ t.kid \in Kids /\ 0 < t.exp /\ t.exp = lastExp[t.kid]
                               /\ t.defects \subseteq ClaimDefects
         /\ t.defects \intersect ForeignDefects = {} => t \in OwnTokens
<1> USE VerifierAssumption, KeysAssumption
<1>1. ASSUME t \in OwnTokens
      PROVE  /\ t \in Token
             /\ t.kid \in Kids /\ 0 < t.exp /\ t.exp = lastExp[t.kid]
             /\ t.defects \subseteq ClaimDefects
  <2>1. PICK k \in Kids, d \in Ttls, D \in SUBSET ClaimDefects :
          /\ lastExp[k] > 0
          /\ t = [kid |-> k, nbf |-> lastExp[k] - d, exp |-> lastExp[k], defects |-> D]
    BY <1>1 DEF OwnTokens
  <2>2. lastExp[k] \in Nat /\ d \in Nat
    BY DEF TypeOK
  <2> QED
    BY <2>1, <2>2 DEF Token
<1>2. ASSUME t \in ForeignTokens
      PROVE  t \in Token /\ t.defects \intersect ForeignDefects # {}
  <2>1. MaxTime + Leeway + 1 \in Nat
    OBVIOUS
  <2>2. t.defects \subseteq ForeignDefects \union ClaimDefects /\ ~(t.defects \subseteq ClaimDefects)
    BY <1>2 DEF ForeignTokens
  <2>3. t = [kid |-> t.kid, nbf |-> 0, exp |-> MaxTime + Leeway + 1, defects |-> t.defects]
        /\ t.kid \in Kids \union {NoKid}
    BY <1>2 DEF ForeignTokens
  <2>4. t \in Token
    BY <2>1, <2>2, <2>3 DEF Token
  <2> QED
    BY <2>2, <2>4
<1> QED
  BY <1>1, <1>2

\* What a verification is after its first half, and after its second.
LEMMA CallType ==
  ASSUME TypeOK, VerifierTypeOK
  PROVE  /\ \A t \in OwnTokens \union ForeignTokens : Present(t) =>
              /\ call' \in Call /\ call'.token = t
              /\ call'.fresh <=> t \in OwnTokens /\ t.exp <= cachedExp[t.kid]
              /\ Answers(EarlyChecks(t, jwks), "pending", call'.outcome)
         /\ \A revoked \in BOOLEAN : Conclude(revoked) =>
              /\ call' \in Call /\ call'.token = call.token
              /\ call'.fresh <=> call.fresh
              /\ call'.at = clock
              /\ call \in Call /\ call.outcome = "pending"
              /\ Answers(LateChecks(call.token, clock, revoked), "VALID", call'.outcome)
<1>1. ASSUME NEW t \in OwnTokens \union ForeignTokens, Present(t)
      PROVE  /\ call' \in Call /\ call'.token = t
             /\ call'.fresh <=> t \in OwnTokens /\ t.exp <= cachedExp[t.kid]
             /\ Answers(EarlyChecks(t, jwks), "pending", call'.outcome)
  <2> DEFINE fresh == t \in OwnTokens /\ t.exp <= cachedExp[t.kid]
  <2>1. PICK answer \in Outcomes :
          /\ Answers(EarlyChecks(t, jwks), "pending", answer)
          /\ call' = [token |-> t, fresh |-> fresh, at |-> 0, outcome |-> answer]
    BY <1>1 DEF Present
  <2>2. t \in Token /\ fresh \in BOOLEAN
    BY PresentedType
  <2> HIDE DEF fresh
  <2>3. call' \in Call /\ call'.token = t /\ call'.outcome = answer
    BY <2>1, <2>2 DEF Call
  <2>4. call'.fresh = fresh
    BY <2>1
  <2> QED
    BY <2>1, <2>3, <2>4 DEF fresh
<1>2. ASSUME NEW revoked \in BOOLEAN, Conclude(revoked)
      PROVE  /\ call' \in Call /\ call'.token = call.token
             /\ call'.fresh <=> call.fresh
             /\ call'.at = clock
             /\ call \in Call /\ call.outcome = "pending"
             /\ Answers(LateChecks(call.token, clock, revoked), "VALID", call'.outcome)
  <2>1. call \in Call /\ clock \in Nat
    BY <1>2 DEF Conclude, VerifierTypeOK, TypeOK
  <2>2. PICK answer \in Outcomes :
          /\ Answers(LateChecks(call.token, clock, revoked), "VALID", answer)
          /\ call' = [call EXCEPT !.at = clock, !.outcome = answer]
    BY <1>2 DEF Conclude
  <2> QED
    BY <1>2, <2>1, <2>2 DEF Call, Conclude
<1> QED
  BY <1>1, <1>2

\* Every variable of the verifier keeps its type.
THEOREM VerifierTypeCorrect == VerifierSpec => []VerifierTypeOK
<1>1. VerifierInit => VerifierTypeOK
  BY DEF VerifierInit, VerifierTypeOK
<1>2. TypeOK /\ VerifierTypeOK /\ [VerifierNext]_verifierVars => VerifierTypeOK'
  <2> SUFFICES ASSUME TypeOK, VerifierTypeOK, [VerifierNext]_verifierVars
               PROVE  VerifierTypeOK'
    OBVIOUS
  <2>1. CASE ServerStep \/ UNCHANGED verifierVars
    BY <2>1 DEF ServerStep, verifierVars, verifier, VerifierTypeOK
  <2>2. CASE FetchJwks
    <3>1. KidsOf(keys') \subseteq Kids
      BY <2>2 DEF FetchJwks, JwkSet, Retained, KidsOf, TypeOK, KeyRecord
    <3> QED
      BY <2>2, <3>1 DEF FetchJwks, VerifierTypeOK, TypeOK
  <2>3. ASSUME NEW t \in OwnTokens \union ForeignTokens, Present(t)
        PROVE  VerifierTypeOK'
    BY <2>3, CallType DEF Present, VerifierTypeOK
  <2>4. ASSUME NEW revoked \in BOOLEAN, Conclude(revoked)
        PROVE  VerifierTypeOK'
    BY <2>4, CallType DEF Conclude, VerifierTypeOK
  <2> QED
    BY <2>1, <2>2, <2>3, <2>4 DEF VerifierNext
<1> QED
  BY <1>1, <1>2, ServerRuns, TypeCorrect, PTL DEF VerifierSpec

-----------------------------------------------------------------------------
(* What an answer says of the token.                                       *)

\* "We never trust unsigned claim data": answers that depend on the claims are
\* only given for tokens that the server signed.
THEOREM SignatureFirst == VerifierSpec => []ClaimsOnlyIfSigned
<1>1. VerifierInit => ClaimsOnlyIfSigned
  BY DEF VerifierInit, ClaimsOnlyIfSigned
<1>2. TypeOK /\ VerifierTypeOK /\ ClaimsOnlyIfSigned /\ [VerifierNext]_verifierVars
        => ClaimsOnlyIfSigned'
  <2> SUFFICES ASSUME TypeOK, VerifierTypeOK, ClaimsOnlyIfSigned, [VerifierNext]_verifierVars
               PROVE  ClaimsOnlyIfSigned'
    OBVIOUS
  <2> USE DEF ClaimsOnlyIfSigned
  <2>1. CASE ServerStep \/ FetchJwks \/ UNCHANGED verifierVars
    <3>1. UNCHANGED call /\ [Next]_vars
      BY <2>1 DEF ServerStep, FetchJwks, verifierVars, verifier, Next
    <3>2. \A k \in Kids : lastExp[k] \in Nat /\ lastExp'[k] >= lastExp[k]
      BY <3>1, HistoriesGrow DEF TypeOK
    <3>3. \A k \in Kids : lastExp'[k] \in Nat
      <4>1. (\E w \in Workers : Sign(w)) \/ UNCHANGED lastExp
        BY <3>1 DEF Next, Tick, StepBack, StartLoaded, StartMinting, StartFails, Crash, Stamp,
           GetSigner, RotateEnter, Rotate, RotateFails, Demote, JwkSet, vars
      <4>2. \A w \in Workers : now[w] + ttl \in Nat
        BY KeysAssumption DEF TypeOK
      <4> QED
        BY <4>1, <4>2 DEF Sign, TypeOK
    <3>4. call = NoCall \/ call.token.exp \in Nat
      BY DEF VerifierTypeOK, Call, Token
    <3> QED
      BY <3>1, <3>2, <3>3, <3>4
  <2>2. ASSUME NEW t \in OwnTokens \union ForeignTokens, Present(t)
        PROVE  ClaimsOnlyIfSigned'
    <3>1. /\ call'.token = t
          /\ Answers(EarlyChecks(t, jwks), "pending", call'.outcome)
          /\ UNCHANGED lastExp
      BY <2>2, CallType DEF Present, vars
    <3>2. t \in Token
      BY PresentedType
    <3>3. t.defects \subseteq ForeignDefects \union ClaimDefects
      BY <3>2 DEF Token
    <3>4. call'.outcome \in {"pending", "WRONG_ISSUER", "WRONG_AUDIENCE"}
            => t.defects \intersect ForeignDefects = {}
      BY <3>1, <3>3, EarlyAnswer
    <3>5. call'.outcome \notin {"VALID", "NOT_YET_VALID", "EXPIRED", "REVOKED"}
      BY <3>1, <3>3, EarlyAnswer
    <3>6. t \in OwnTokens => t.kid \in Kids /\ 0 < t.exp /\ t.exp = lastExp[t.kid]
      BY PresentedType
    <3> QED
      BY <3>1, <3>2, <3>4, <3>5, <3>6, PresentedType DEF Token
  <2>3. ASSUME NEW revoked \in BOOLEAN, Conclude(revoked)
        PROVE  ClaimsOnlyIfSigned'
    BY <2>3, CallType DEF Conclude, vars
  <2> QED
    BY <2>1, <2>2, <2>3 DEF VerifierNext
<1> QED
  BY <1>1, <1>2, ServerRuns, TypeCorrect, VerifierTypeCorrect, PTL DEF VerifierSpec

\* A token still under verification has passed every check but the last.
PendingIsOwn == call # NoCall /\ call.outcome = "pending" => call.token.defects = {}

\* Only a token that the server delivered for this verifier is accepted, and
\* only in its window.
THEOREM AcceptedIsGenuine == VerifierSpec => []NoFalseAcceptance
<1> DEFINE Inv == PendingIsOwn /\ NoFalseAcceptance
<1>1. VerifierInit => Inv
  BY DEF VerifierInit, PendingIsOwn, NoFalseAcceptance
<1>2. TypeOK /\ VerifierTypeOK /\ Inv /\ [VerifierNext]_verifierVars => Inv'
  <2> SUFFICES ASSUME TypeOK, VerifierTypeOK, Inv, [VerifierNext]_verifierVars
               PROVE  Inv'
    OBVIOUS
  <2> USE DEF PendingIsOwn, NoFalseAcceptance
  <2>1. CASE ServerStep \/ FetchJwks \/ UNCHANGED verifierVars
    BY <2>1 DEF ServerStep, FetchJwks, verifierVars, verifier
  <2>2. ASSUME NEW t \in OwnTokens \union ForeignTokens, Present(t)
        PROVE  Inv'
    <3>1. /\ call'.token = t
          /\ Answers(EarlyChecks(t, jwks), "pending", call'.outcome)
      BY <2>2, CallType
    <3>2. t.defects \subseteq ForeignDefects \union ClaimDefects
      BY PresentedType DEF Token
    <3> QED
      BY <3>1, <3>2, EarlyAnswer
  <2>3. ASSUME NEW revoked \in BOOLEAN, Conclude(revoked)
        PROVE  Inv'
    <3>1. /\ call'.token = call.token /\ call'.at = clock
          /\ call \in Call /\ call.outcome = "pending" /\ call # NoCall
          /\ Answers(LateChecks(call.token, clock, revoked), "VALID", call'.outcome)
      BY <2>3, CallType DEF Conclude
    <3>2. call.token.nbf \in Int /\ call.token.exp \in Nat /\ clock \in Nat
      BY <3>1 DEF Call, Token, TypeOK
    <3> QED
      BY <3>1, <3>2, LateAnswer
  <2> QED
    BY <2>1, <2>2, <2>3 DEF VerifierNext
<1>3. Inv => NoFalseAcceptance
  OBVIOUS
<1> QED
  BY <1>1, <1>2, <1>3, ServerRuns, TypeCorrect, VerifierTypeCorrect, PTL DEF VerifierSpec

-----------------------------------------------------------------------------
(* What a copy of the JWKS promises.                                       *)

\* CacheInv speaks of histories that only grow once the copy is there.
LEMMA CacheInvStep ==
  ASSUME TypeOK, IInv, TypeOK', IInv', VerifierTypeOK, CacheInv,
         [VerifierNext]_verifierVars
  PROVE  CacheInv'
<1> USE DEF CacheInv
<1>1. [Next]_vars
  BY DEF VerifierNext, ServerStep, FetchJwks, Present, Conclude, Next, verifierVars
<1>2. lost \subseteq lost' /\ hi <= hi' /\ hi \in Nat /\ hi' \in Nat
  BY <1>1, HistoriesGrow, ClockInvStep DEF IInv, TypeOK
<1>3. CASE UNCHANGED <<jwks, cachedExp>>
  <2>1. ASSUME NEW k \in Kids, NEW exp \in Nat, exp = cachedExp[k], RetentionOver(exp)
        PROVE  RetentionOver(exp)'
    BY <1>2, <2>1, OverStaysOver
  <2> QED
    BY <1>2, <1>3, <2>1 DEF VerifierTypeOK, RetentionOver
<1>4. CASE FetchJwks
  <2>1. up' /\ jwks' = KidsOf(keys') /\ cachedExp' = lastExp'
    BY <1>4 DEF FetchJwks, JwkSet
  <2>2. \A k \in Kids : lastExp'[k] > 0 =>
          RetentionOver(lastExp[k])' \/ k \in KidsOf(keys') \union lost'
    BY <2>1 DEF IInv, ClaimsInv, Backed
  <2> QED
    BY <2>1, <2>2 DEF RetentionOver
<1> QED
  BY <1>3, <1>4 DEF VerifierNext, ServerStep, Present, Conclude, verifierVars, verifier

\* A token that the copy answers UNKNOWN_KID for, though it was delivered before
\* the copy was fetched, has expired or its key was lost.
LEMMA UnknownIsOver ==
  ASSUME Margin, TypeOK, VerifierTypeOK, CacheInv, NEW t \in OwnTokens,
         t.exp <= cachedExp[t.kid], t.kid \notin jwks
  PROVE  t.kid \in lost \/ t.exp + Leeway <= hi
<1>1. t.kid \in Kids /\ 0 < t.exp /\ t.exp \in Nat
  BY PresentedType DEF Token
<1>2. cachedExp[t.kid] \in Nat /\ cachedExp[t.kid] > 0
  BY <1>1 DEF VerifierTypeOK
<1>3. t.kid \in lost \/ RetentionOver(cachedExp[t.kid])
  BY <1>1, <1>2 DEF CacheInv
<1>4. Leeway \in Nat /\ Setback \in Nat /\ hi \in Nat
  BY KeysAssumption DEF TypeOK
<1>5. t.kid \in lost \/ cachedExp[t.kid] + Leeway + Setback <= hi
  BY <1>2, <1>3, <1>4, OverIsExpired
<1> QED
  BY <1>1, <1>2, <1>4, <1>5

\* A token delivered before a copy of the JWKS was fetched verifies against that
\* copy until it expires, whatever rotations, prunes, restarts and clock
\* adjustments come between.
THEOREM OverlapVerifies ==
  ASSUME Margin
  PROVE  VerifierSpec => []NoFalseRejection
<1> DEFINE Inv == CacheInv /\ NoFalseRejection
<1>1. VerifierInit => Inv
  BY DEF VerifierInit, CacheInv, NoFalseRejection
<1>2. ASSUME TypeOK, IInv, TypeOK', IInv', VerifierTypeOK, Inv, [VerifierNext]_verifierVars
      PROVE  Inv'
  <2> USE DEF NoFalseRejection
  <2>1. CacheInv'
    BY <1>2, CacheInvStep
  <2>2. CASE ServerStep \/ FetchJwks \/ UNCHANGED verifierVars
    <3>1. UNCHANGED call /\ [Next]_vars
      BY <2>2 DEF ServerStep, FetchJwks, verifierVars, verifier, Next
    <3>2. lost \subseteq lost' /\ hi <= hi' /\ hi \in Nat /\ hi' \in Nat
      BY <1>2, <3>1, HistoriesGrow, ClockInvStep DEF IInv, TypeOK
    <3>3. call = NoCall \/ call.token.exp \in Nat
      BY <1>2 DEF VerifierTypeOK, Call, Token
    <3> QED
      BY <1>2, <2>1, <3>1, <3>2, <3>3, KeysAssumption
  <2>3. ASSUME NEW t \in OwnTokens \union ForeignTokens, Present(t)
        PROVE  Inv'
    <3>1. /\ call'.token = t
          /\ call'.fresh <=> t \in OwnTokens /\ t.exp <= cachedExp[t.kid]
          /\ Answers(EarlyChecks(t, jwks), "pending", call'.outcome)
          /\ UNCHANGED <<lost, hi>>
      BY <1>2, <2>3, CallType DEF Present, vars, service
    <3>2. t.defects \subseteq ForeignDefects \union ClaimDefects
      BY <1>2, PresentedType DEF Token
    <3>3. /\ t.defects = {} => call'.outcome \in {"pending", "UNKNOWN_KID"}
          /\ call'.outcome = "UNKNOWN_KID" => t.kid \notin jwks
      BY <3>1, <3>2, EarlyAnswer
    <3>4. call'.fresh /\ t.kid \notin jwks => t.kid \in lost \/ t.exp + Leeway <= hi
      BY <1>2, <3>1, Margin, UnknownIsOver
    <3> QED
      BY <2>1, <3>1, <3>3, <3>4
  <2>4. ASSUME NEW revoked \in BOOLEAN, Conclude(revoked)
        PROVE  Inv'
    <3>1. /\ call'.token = call.token
          /\ call \in Call
          /\ Answers(LateChecks(call.token, clock, revoked), "VALID", call'.outcome)
          /\ UNCHANGED <<lost, hi>>
      BY <1>2, <2>4, CallType DEF Conclude, vars, service
    <3>2. call.token.nbf \in Int /\ call.token.exp \in Nat /\ clock \in Nat /\ hi \in Nat /\ clock <= hi
      BY <1>2, <3>1 DEF Call, Token, TypeOK, IInv, ClockInv
    <3>3. /\ call'.outcome \in {"VALID", "NOT_YET_VALID", "EXPIRED", "REVOKED"}
          /\ call'.outcome = "EXPIRED" => call.token.exp + Leeway <= clock
      BY <3>1, <3>2, LateAnswer
    <3> QED
      BY <2>1, <3>1, <3>2, <3>3, KeysAssumption
  <2> QED
    BY <1>2, <2>2, <2>3, <2>4 DEF VerifierNext
<1>3. Inv => NoFalseRejection
  OBVIOUS
<1> HIDE DEF Inv
<1> QED
  BY <1>1, <1>2, <1>3, Margin, ServerRuns, InductiveInvariant, VerifierTypeCorrect, PTL
  DEF VerifierSpec

=============================================================================
