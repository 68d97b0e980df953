--------------------------- MODULE TokenVerifier ---------------------------
(***************************************************************************)
(* A verifier (TokenVerifier.java) of the tokens of SigningKeyService.  It *)
(* fetches the JWKS now and then and verifies tokens against the copy it   *)
(* has, while the server signs, rotates, prunes, crashes and restarts.     *)
(*                                                                         *)
(* verify() first makes the checks that depend on the token and the copy   *)
(* alone (Present), then reads the clock and asks the caller's predicate   *)
(* for the revocation (Conclude).  The predicate may say anything here;    *)
(* RevocationService models the one that reads the denylist.               *)
(*                                                                         *)
(* A token is its kid, its time window and its defects: what tells it from *)
(* a token that the server delivered for this verifier.                    *)
(***************************************************************************)
EXTENDS SigningKeyService, Checks, Sequences

CONSTANTS
  DefectSets,  \* the sets of defects a presented token may have
  NoCall       \* the verifier has not verified anything yet

VARIABLES
  jwks,       \* the kids of the verifier's copy of the JWKS, {} before the first
  cachedExp,  \* history: lastExp when the copy was fetched
  call        \* the verification under way, or the last one

verifier == <<jwks, cachedExp, call>>
verifierVars == <<vars, verifier>>

\* No header to parse; a header that is the literal null; a signature segment
\* that is not base64url; not signed by the server; no payload to parse.
ForeignDefects == {"format", "null header", "encoding", "signature", "payload"}

\* A token the server signed when it was configured otherwise.
ClaimDefects == {"issuer", "audience"}

Outcomes == {"pending", "VALID", "BAD_FORMAT", "UNKNOWN_KID", "BAD_SIGNATURE", "WRONG_ISSUER",
             "WRONG_AUDIENCE", "NOT_YET_VALID", "EXPIRED", "REVOKED", "throws"}

Token == [kid : Kids \union {NoKid}, nbf : Int, exp : Nat,
          defects : SUBSET (ForeignDefects \union ClaimDefects)]

Call == [token : Token, fresh : BOOLEAN, at : Nat, outcome : Outcomes]

ASSUME VerifierAssumption ==
  /\ DefectSets \subseteq SUBSET (ForeignDefects \union ClaimDefects)
  /\ NoCall \notin Call

OwnTokens ==
  {[kid |-> k, nbf |-> lastExp[k] - d, exp |-> lastExp[k], defects |-> D] :
     k \in {k \in Kids : lastExp[k] > 0}, d \in Ttls, D \in DefectSets \intersect SUBSET ClaimDefects}

\* Any kid, or none, and a window that would always do.
ForeignTokens ==
  [kid : Kids \union {NoKid}, nbf : {0}, exp : {MaxTime + Leeway + 1},
   defects : DefectSets \ SUBSET ClaimDefects]

-----------------------------------------------------------------------------
(* The checks of verify(), in order.                                       *)

\* Mutants of EarlyChecks: a claim before the signature; no audience check.
IssuerFirst(t, ks) == <<
  Check("format" \in t.defects, "BAD_FORMAT"),
  Check("null header" \in t.defects, "throws"),
  Check(t.kid \notin ks, "UNKNOWN_KID"),
  Check("payload" \in t.defects, "BAD_FORMAT"),
  Check("issuer" \in t.defects, "WRONG_ISSUER"),
  Check("encoding" \in t.defects, "throws"),
  Check("signature" \in t.defects, "BAD_SIGNATURE"),
  Check("audience" \in t.defects, "WRONG_AUDIENCE") >>
AnyAudience(t, ks) == <<
  Check("format" \in t.defects, "BAD_FORMAT"),
  Check("null header" \in t.defects, "throws"),
  Check(t.kid \notin ks, "UNKNOWN_KID"),
  Check("encoding" \in t.defects, "throws"),
  Check("signature" \in t.defects, "BAD_SIGNATURE"),
  Check("payload" \in t.defects, "BAD_FORMAT"),
  Check("issuer" \in t.defects, "WRONG_ISSUER") >>

\* Those that read the token and the keys only.  The null header is dereferenced
\* outside the try block, and Jws.verifySignature lets the decoder's exception
\* through: verify throws.
EarlyChecks(t, ks) == <<
  Check("format" \in t.defects, "BAD_FORMAT"),
  Check("null header" \in t.defects, "throws"),
  Check(t.kid \notin ks, "UNKNOWN_KID"),
  Check("encoding" \in t.defects, "throws"),
  Check("signature" \in t.defects, "BAD_SIGNATURE"),
  Check("payload" \in t.defects, "BAD_FORMAT"),
  Check("issuer" \in t.defects, "WRONG_ISSUER"),
  Check("audience" \in t.defects, "WRONG_AUDIENCE") >>

\* Those that read the clock and the denylist.
LateChecks(t, now_, revoked) == <<
  Check(now_ + Leeway < t.nbf, "NOT_YET_VALID"),
  Check(now_ - Leeway >= t.exp, "EXPIRED"),
  Check(revoked, "REVOKED") >>

-----------------------------------------------------------------------------
(* The verifier.                                                           *)

VerifierInit ==
  /\ Init
  /\ jwks = {}
  /\ cachedExp = [k \in Kids |-> 0]
  /\ call = NoCall

\* Mutants of FetchJwks: only the key that signs now; no look at the answer.
FetchActive ==
  /\ JwkSet
  /\ jwks' = {activeKid}
  /\ cachedExp' = lastExp
  /\ UNCHANGED call
FetchUnchecked ==
  /\ jwks' = {activeKid}
  /\ cachedExp' = lastExp
  /\ UNCHANGED <<vars, call>>

\* GET /.well-known/jwks.json, the answer replacing the copy.
FetchJwks ==
  /\ JwkSet
  /\ jwks' = KidsOf(keys')
  /\ cachedExp' = lastExp
  /\ UNCHANGED call

\* verify(), up to the clock.  A fresh token is one that the server had
\* delivered when the copy was fetched.
Present(t) ==
  /\ \E answer \in Outcomes :
       /\ Answers(EarlyChecks(t, jwks), "pending", answer)
       /\ call' = [token |-> t,
                   fresh |-> t \in OwnTokens /\ t.exp <= cachedExp[t.kid],
                   at |-> 0,
                   outcome |-> answer]
  /\ UNCHANGED <<vars, jwks, cachedExp>>

\* The rest of verify().
Conclude(revoked) ==
  /\ call # NoCall /\ call.outcome = "pending"
  /\ \E answer \in Outcomes :
       /\ Answers(LateChecks(call.token, clock, revoked), "VALID", answer)
       /\ call' = [call EXCEPT !.at = clock, !.outcome = answer]
  /\ UNCHANGED <<vars, jwks, cachedExp>>

ServerStep == Next /\ UNCHANGED verifier

VerifierNext ==
  \/ ServerStep
  \/ FetchJwks
  \/ \E t \in OwnTokens \union ForeignTokens : Present(t)
  \/ \E revoked \in BOOLEAN : Conclude(revoked)

VerifierSpec == VerifierInit /\ [][VerifierNext]_verifierVars

-----------------------------------------------------------------------------
(* Properties.                                                             *)

VerifierTypeOK ==
  /\ jwks \in SUBSET Kids
  /\ cachedExp \in [Kids -> Nat]
  /\ call \in Call \union {NoCall}

\* "A token signed just before a rotation keeps verifying until it expires",
\* against a copy of the JWKS however old: a token that was delivered before
\* the copy was fetched, for this verifier, is never rejected but because it
\* expired, because the clock was set back before it, because it is revoked,
\* or because its key was never stored.
NoFalseRejection ==
  call # NoCall /\ call.fresh /\ call.token.defects = {} =>
    \/ call.outcome \in {"pending", "VALID", "NOT_YET_VALID", "REVOKED"}
    \/ call.token.kid \in lost
    \/ call.outcome \in {"UNKNOWN_KID", "EXPIRED"} /\ call.token.exp + Leeway <= hi

\* "We never trust unsigned claim data": an answer that depends on a token's
\* claims is only given for a token that the server signed.
ClaimsOnlyIfSigned ==
  call # NoCall /\ call.outcome \in {"pending", "VALID", "WRONG_ISSUER", "WRONG_AUDIENCE",
                                     "NOT_YET_VALID", "EXPIRED", "REVOKED"} =>
    /\ call.token.defects \intersect ForeignDefects = {}
    /\ call.token.kid \in Kids
    /\ 0 < call.token.exp /\ call.token.exp <= lastExp[call.token.kid]

\* A token is accepted only if the server delivered it for this verifier and
\* its window, widened by the leeway, held the clock after the call began.
NoFalseAcceptance ==
  call # NoCall /\ call.outcome = "VALID" =>
    /\ call.token.defects = {}
    /\ call.token.nbf - Leeway <= call.at /\ call.at < call.token.exp + Leeway

\* The inductive invariant behind NoFalseRejection: a kid of the copy is
\* missing only if its retention is over or its key was lost.
CacheInv ==
  \A k \in Kids : cachedExp[k] > 0 => k \in jwks \union lost \/ RetentionOver(cachedExp[k])

=============================================================================
