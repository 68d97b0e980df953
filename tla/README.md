# Verification of mini-idp

mini-idp issues short-lived Ed25519-signed tokens to registered clients, publishes the keys that
verify them, rotates those keys, revokes tokens and logs what it did, all from one process whose
state is four JSON files. This directory holds TLA+ models of it, TLC runs on small instances and
TLAPS proofs for all sizes. Paths below are relative to the Java packages
`core/src/main/java/com/codeheadsystems/miniidp/` and `server/src/main/java/com/codeheadsystems/miniidp/server/`.

## The system

| component | state | operations | hard part |
|---|---|---|---|
| Signing keys, `service/SigningKeyService` | the key list, `activeKid`, `signing-keys.json` | constructor (load or mint), `currentSigner`, `jwkSet` (prunes), `rotate` | a key must stay published as long as a token under it lives, across rotation, restart, failed saves, clock and TTL changes |
| Token issuing, `service/TokenIssuer` | none | `issue`: clock, then signer, then signature | the three are not one step |
| Revocation denylist, `service/RevocationService` | `byJti`, `revocations.json` | constructor, `revoke`, `isRevoked`, `activeDenylist` (all three prune) | an entry must outlive its token by the verifier's clock |
| Token verification, `service/TokenVerifier` | none | `verify` | a JWKS copy of any age; no claim trusted before the signature; reads the clock, then the denylist |
| Client registry, `service/ClientService` | `clients`, `clients.json` | constructor, `register`, `remove`, `setAuthorization`, `authenticate`, `list`, `get` | memory changes before the save, which may throw |
| Audit log, `service/AuditService` | `entries`, `audit.json` | constructor, `record`, `list` | rewritten whole on every append |
| JSON store, `store/JsonStore` | a file, a temp file | `exists`, `load`, `save` | throws and crashes between any two steps |
| HTTP handlers, `ApiHandlers` | none | one per route | each calls a service and then the audit log, under two different monitors |
| Routing, `http/Router`, `AdminAuthenticator` | the route table | `handle`, `requireAdmin` | any throw is a 500 and undoes nothing; each admin handler guards itself |
| Configuration, `ServerConfig` | its fields | `resolve` | environment, repeated flags, blank values, a default made of two others |
| Assembly, `IdpServer`, `ServerMain` | configuration, the services | build, start, stop | any step of the start can fail after an earlier one has saved; the TTL may change at every start |
| Authorization model, `auth/*`, `token/GrantsClaim` | none | `from`, `toAuthorization`, the constructors' checks | a typo, a null or a repeated group must not widen or narrow access |
| JWS, JWK, Argon2 hashing, random ids, documentation pages | none | stateless | |

How they interact: every request runs on a virtual thread of its own (`IdpServer.create`). The public
methods of a service are `synchronized` on that service and save to its store before they return.
Nothing spans two services: `POST /oauth/token` takes the registry's monitor, then the signing keys',
then the audit log's, and the process can die and other requests can run between them. No background
task exists: keys and revocations are pruned only by the requests that touch them. Verifiers are other
processes that fetch the JWKS and poll the denylist.

What makes each component correct:

- keys: one active key, in memory and on disk; no live token with an unpublished kid; a rotation that
  returned is final;
- denylist: an acknowledged revocation holds for every verifier that polled since, and survives a
  restart, until the token has expired; the list drains;
- registry: what was answered with success holds, also after a crash; what was answered "no such
  client" is gone;
- tokens: issued from a record no older than what an administrator had been told when the request came in;
- audit log: every success is in the stored log, and so is every change in effect unless the process died, the
  audit save failed or the save of the change itself failed first; the log only grows;
- grants: stored and handed on exactly as they were sent, or refused whole;
- store: a file is always a whole document, old or new;
- verification: a token the server delivered is accepted against any copy of the JWKS fetched since, until it
  expires or is revoked; nothing that the server did not sign has its claims looked at;
- start-up and routing: configuration resolves as documented; a request that is refused changes nothing, nor does
  a start that fails, but for a signing key minted where none was active; a document that cannot be read is never
  overwritten.

## The modules

| module | models |
|---|---|
| `SigningKeyService` | signing keys with the issuing requests, the clock, crashes and restarts |
| `RevocationService` | the denylist, the handler that revokes, verifiers that poll or ask directly, restarts under another TTL, a clock that is set back |
| `ClientService`, `AuditService` | the operations of the two services, composed by `ApiHandlers` |
| `ApiHandlers` | the six handlers that write the audit log, over both services, with crashes and failing saves |
| `AtomicDocument` | what a store promises: a document replaced in one step |
| `JsonStore` | `save` step by step, shown to implement `AtomicDocument` |
| `TokenVerifier` | `verify` with a cached JWKS, over `SigningKeyService` |
| `ServerConfig` | `resolve`, flag by flag |
| `Router` | one HTTP request: the routes, each handler's checks, its saves, its status |
| `IdpServer` | the process: start, services over documents that may be missing or unreadable, serving; composes the two above |
| `Grants` | the two forms of a client's grants and the conversions between them, with what they refuse |
| `Checks` | ordered checks, the first that objects giving the answer; used by `TokenVerifier`, `Grants` and `Router` |
| `MC*` | small instances and TTL sets for TLC |
| `*_proofs` | theorems |

Definitions keep the source's names where they can; `PROJECT.json` maps each to its lines.

**SigningKeyService.** `keys`, `activeKid` are the fields; `disk` is the document. Retirement, minting and
pruning are the operators `RetireActive`, `NewKey`, `Retained`. `issue` is `Stamp` (clock, no lock),
`GetSigner` (monitor) and `Sign` (delivery). `rotate` is `RotateEnter` (monitor and clock) and `Rotate`
or `RotateFails` (everything else and its save). Between the two the monitor is held, so the only
things that happen are clock ticks, other requests' unlocked steps, and a crash. The constructor is
`StartLoaded`, `StartMinting`, `StartFails`; each start chooses a TTL. `lastExp`, `demoted` and `lost` are
history: the latest expiry of a token delivered under a kid, the kids a completed rotation retired, and
the kids that were only in memory when the process died.

**RevocationService.** `ReceiveRevocation` fixes the entry's expiry outside the monitor, `Revoke` /
`RevokeFails` put, prune and save inside it. `Poll` copies the pruned list to a verifier;
`PassTimeWindow` is `verify` up to its expiry check, `DecidePolled` / `DecideDirect` the revocation check.
`acked` and `seen` are history. A revocation counts as acknowledged if its save returned and its entry covers the
token's `exp`: that is what the API asks of a supplied horizon (`Revocation.java:15`), and what the default does not
ensure when the TTL was lowered since the token was issued, or the clock set back. A later revocation of the same
token that falls short takes it out of `acked` again, because `put` replaces the entry. How short an entry may fall is
a property of its own, `EntriesLinger`, which counts nothing out.

**ApiHandlers.** A handler is its service call (`RegisterClient`, `DeleteClient`, `SetGrants`, `ChangeElsewhere` for
rotation and revocation, whose effects are in their own modules, and `...Fails` when the registry's save throws) and
then `Answer`, the audit entry with the answer, or `AuditFails`. `token()` has a step more: `AskToken` is the request,
`IssueToken` the return of `authenticate` with the record that the token is made of, `RefuseToken` the 401.
A registry record is the serial number of the request that wrote it, which orders changes. The 404 of a DELETE is
`DeleteUnknown`; a 404 of a PUT and requests that fail the admin check or parsing change nothing and are left out.
`answered`, `cut`, `acked`, `dropped`, `told` and `floor` are history: the entries of successes, the entries that a
crash, a failed audit save or a failed save of the change itself cut off, the last acknowledged change per client, the
clients taken out, those answered 404, and the last acknowledged change when a token was asked for. `RegistryIsAudited`
asks of every record in the registry and the document, and of every client missing there, for the entry of the
change that made it so: `cut` is the only excuse.

**JsonStore.** One action per file-system call, each followed by a possible throw or crash. A file holds a
document, or `Partial`. That a service's save may fail "before or after the new document is in place" in
the other modules is exactly what `AtomicDocument` allows.

**TokenVerifier.** A step of the server (`ServerStep`) is a step of `SigningKeyService`; the verifier's own steps leave
it alone, but for `FetchJwks`, which makes the server prune. `Present` is `verify` up to the clock reading, `Conclude`
the rest, so the server and the clock move in between. A token is a kid, a window and a set of defects. Own tokens
are those delivered under a kid (`lastExp`), perhaps under another issuer or audience setting; foreign ones have a defect that no
token of the server has, a signature that is not the server's among them, and a window that always holds. A header
that is the literal `null` and a signature segment that is not base64url make `verify` throw. `cachedExp` is
history: what had been delivered when the copy was fetched. The revocation predicate may answer anything.

**ServerConfig.** `ReadEnv`, `ReadFlag`, `BadArgument` and `Resolve` are `resolve` from top to bottom; `given` is its
locals. Four options stand for ten (see the module). Values are a few strings, on which trimming, the stripped
slash, blankness and `parseInt` are defined by what they do.

**Router.** `Receive`, `RouteNext` and `RouteEnd` are the loop of `dispatch`; `Handle` is the handler up to its first
save, a sequence of `Checks`; `Save` and `SaveFails` are the saves of the services it calls, in order; `Finish` the
answer. It is one request at a time: how requests overlap is in the services' modules. A registration or a PUT
carries a claim, whose grants `ValidGrants` checks and whose `authorization` the exchange keeps once it is saved.

**Grants.** `ToAuthorization` and `From` are the conversions, `ClaimObjection` what is wrong with a claim, found in the
order of the loops: an `IllegalArgumentException` is answered 400, the dereference of a null 500. `GrantsClaim` and its
parts are what Jackson can make of a JSON text, `Authorization` and `Grant` what the constructors let through;
`GrantsAssumption` tells `Null` from all of it. In the run key groups are a few strings, the operations those of the enum and some that are not.

**IdpServer.** `Launch`, `Configure`, `ResolveAdminToken`, the four constructors (`Build`, `BuildMinting`, `MintingFails`,
`BuildFails`) and `Bind`, `BindFails` are `main` in order, with the exit code of each failure. A document is absent, good
or garbled, that of the signing keys also keyless (readable, but without an active key, as `{}` is: the constructor
mints over it, and keeps the keys it has), and is edited by hand only while the process is down. `Serve` is a step of `Router`, its saves
reaching the documents.

Each module that models code also holds a few mutants: variants of one definition with a bug, named in a
comment, that the runs must detect and no specification uses.

## The runs

| run | instance | shows |
|---|---|---|
| `keys_setback` | 2 requests, 3 kids, TTL 1, clock set back by 1, to time 5 | all key properties, how long a key is kept, and the inductive invariant |
| `keys_savefails` | 2 requests, 3 kids, TTLs 2 and 3 (restarts change them), leeway 2, to time 5, saves throw | at the very edge of `Margin`, only an unsaved key's tokens are ever left unpublished; a key is retired once |
| `keys_keylost` | TTL 1, to time 5, saves throw, violation | the unsaved key, see findings |
| `keys_ttllowered` | TTLs 1 and 4, violation | retention of the new TTL, see findings |
| `revocations_safe` | 1 token, 2 admins, a verifier, TTLs 1 and 2 (restarts change them), clock set back by 1, to time 5, saves throw, fairness | acknowledged revocations hold and last, and lapse only past the token's expiry; entries linger and then leave the list; the inductive invariant |
| `revocations_leeway` | leeway 2, violation | see findings |
| `revocations_direct` | violation | see findings |
| `store_atomic` | 2 stores, 2 documents, 3 temp names | `save` refines `AtomicDocument`; no stray temp file |
| `handlers` | 2 requests at a time, 2 clients, 4 requests in all, saves throw | acknowledged changes, current tokens, audited answers and registry, append-only log |
| `handlers_deleteretried` | violation | see findings |
| `tokens` | 1 request, 2 kids, TTL 1, leeway 1, to time 3, each defect alone and claims of others' tokens | own tokens verify against any copy fetched since; foreign ones are rejected before their claims are read |
| `server` | every route, method and near-miss path; 2 flags, 2 to 5 values per option; any of the four documents missing or garbled, or without an active key; claims of up to 2 of 10 groups, good and bad | configuration as documented, failed starts change nothing but a missing key, refused requests nothing, garbled documents are kept, grants are exact |

Bounds. `MaxTime` stops the clock. It is large enough for a token to be issued, its key retired, the
retention to pass and the key to be pruned, with a restart anywhere in between: that takes a token
lifetime plus a retention, three TTLs at most. Two requests are enough for every pairwise overlap;
the proofs cover any number. Three kids are an active key, a retired one and a third that prunes.
In `revocations_safe`
the clock has the time for a token of the higher TTL, a setback, a restart under the lower TTL, two revocations, a prune
and another setback; leeway 0 with a setback of 1 is the edge of `Margin`; the proofs cover the other one, leeway 1. One token is enough: entries of different tokens never touch each other, and both admins meet on it. In
`tokens` two kids and time 3 let a copy outlive a rotation and the pruning of the key it still has. In
`server` two flags are enough to repeat one or to combine two. `MaxRequests = 4` allows a registration, two overlapping changes and a deletion or a retry. Three temp
names are one per store and one left by a crash. In `server` two
groups repeat a key group or put a bad one after a good one. Histories are sets or maxima and add no depth. Symmetry
is used with invariants and with `AuditAppendOnly` and `RetirementIsFinal`, properties of single steps that name no
client, kid or worker; never with `EntriesDrain` or `AtomicSave`.

Fairness is used in one run. `FairSpec` assumes that time passes and now and then passes the highest reading so far
(strongly fair, since a setback disables it: without that a clock set back for ever would keep every entry), that an
operator restarts a server that died, that a verifier finishes a verification, and that it keeps polling (strongly fair,
since a crash disables a poll again and again). Nothing is assumed of the server's own threads: Java monitors give
no order, and no property here says a request gets its lock.

## The findings

1. `rotate` changes memory first and saves last. If the save throws, the new key signs tokens though no
   document has it; a restart leaves those tokens without a published key (`keys_keylost`).
2. A key's retention is twice the TTL of the *current* process. After a restart with less than half the TTL,
   keys of live tokens are pruned (`keys_ttllowered`).
3. A denylist entry lives one second past `exp`. A verifier with two or more seconds of leeway accepts the
   revoked token again (`revocations_leeway`).
4. `verify` reads the clock before it asks `isRevoked`, which prunes by a later reading: in a token's last
   second both checks can pass (`revocations_direct`).
5. `remove` removes from memory, then saves. If the save throws, a retried DELETE answers "no such client" of a
   client that the next start loads again (`handlers_deleteretried`).

Related observations without a run of their own are hazards in `PROJECT.json`: the default revocation horizon
falls short of its token after a TTL was lowered or a clock set back (`EntriesLinger` says by how much at most), a
registration's secret is lost with a failed audit save, a change goes unaudited after a crash or a failed save, the literal `null` as
the body of a PUT strips a client of its grants.

## The proofs

For every value of the constants, from the named assumptions of the modules (TTLs are positive, the null
values are distinct from the others, and so on):

| theorem | property | further assumption |
|---|---|---|
| `SigningKeyService_proofs!TypeCorrect` | `TypeOK` | |
| `OneActiveKey` | `ExactlyOneActive` | |
| `DemotionIsFinal` | `DemotedNeverActive` | |
| `RetiredOnce` | `RetirementIsFinal` | |
| `InductiveInvariant`, `KeysAreKept` | `IInv`, `KeptForRetention` | |
| `PublishedUnlessLost` | `LiveTokenPublishedUnlessLost` | `Margin` |
| `LiveTokensArePublished` | `LiveTokenPublished` | `Margin`, no save fails |
| `RevocationService_proofs!TypeCorrect` | `TypeOK` | |
| `EntriesLingerAlways` | `EntriesLinger` | |
| `EntriesCover` | every entry covers its token | no setback, one TTL |
| `IInvHolds`, `RevokedPassesLate` | `IInv`, `RevokedPassesOnlyLate` | |
| `PolledRevocationHolds` | `RevokedNeverAccepted` | `Margin` |
| `RevocationsAreDurable` | `RevocationIsDurable` | `Margin` |
| `VerifierTypeCorrect`, `SignatureFirst`, `AcceptedIsGenuine` | `VerifierTypeOK`, `ClaimsOnlyIfSigned`, `NoFalseAcceptance` | |
| `OverlapVerifies` | `NoFalseRejection` | `Margin` |
| `ServerRuns` | a server with its verifier behaves like the server alone | |
| `JsonStore_proofs!TypeCorrect`, `SaveIsAtomic`, `TempsAreDeleted` | `TypeOK`, `AtomicSave`, `NoStrayTemp` | |
| `ApiHandlers_proofs!TypeCorrect` | `TypeOK` | |
| `AcknowledgedChanges` | `AckedChangesHold` | |
| `CurrentTokens` | `TokensAreCurrent` | |
| `AnswersAudited`, `RegistryAudited`, `AppendOnly` | `AnswersAreAudited`, `RegistryIsAudited`, `AuditAppendOnly` | |
| `UnknownUnlessSaveFails` | `UnknownStaysUnknown` | no save fails |
| `Grants_proofs!AcceptedIsAuthorization` | an accepted claim makes an `Authorization` | |
| `RoundTrip`, `SaysTheSame` | `ToAuthorization(From(a)) = a`; what is handed on says what was sent | |
| `IdpServer_proofs!TypeCorrect`, `GrantsAreExact` | `ServerTypeOK`, `GrantsExact` | |
| `ConfigResolved` | `ConfigAsDocumented` | |
| `FailedStarts`, `GarbledStays` | `FailedStartOnlyMints`, `GarbledKept` | |
| `TableIsFollowed`, `RefusalsAreClean`, `AdminIsGuarded` | `DispatchByTable`, `RefusedChangesNothing`, `AdminGuarded` | |

`SigningKeyService!Margin` is `Leeway + 2 * Setback <= 2 * t1 - t2 + 1` for all configured TTLs: the retention of
any start covers a token of any other, the verifier's skew and a clock set back at the retirement and again
at the verification. With one TTL and a clock that only advances it reads `Leeway <= TTL + 1`; the second
finding is its failure. `RevocationService!Margin` is `Leeway + Setback <= 1`, the one second by which `prune` lags an
entry's expiry; the third finding is its failure.

The argument for the keys. `LiveTokenPublished` is not inductive: it speaks of tokens delivered, and a request
may hold a signer across a rotation. `IInv` adds three things. `KeysInv`: the shape of the key sets, and that a
retired key is not the one that signs, so no later token can be under it. `ClockInv`: no reading is more than
`Setback` below an earlier one. `ClaimsInv`: each token, delivered or about to be, is `Backed`, that is, its key
is in memory and in the document until its retention is over (`RetentionOver`), and wherever the key is retired (or a
rotation has already read the clock to retire it) the time covers the token. Pruning then removes only keys
whose retention is over (`PrunedIsOver`), and none of that needs `Margin`: `KeysAreKept` is what the code does under any
TTLs, and the extent of the second finding, namely that a TTL lowered from `t2` to `t1` costs a token its last
`t2 - 2 * t1` seconds at most. `Margin` enters once, in `OverIsExpired`: then a retention that is over is over after the
token has expired for every verifier. `OneActiveKey` and `DemotionIsFinal` need `KeysInv` alone. `RetiredOnce` needs that
a kid has one record in memory and one in the document, and that where the document has it retired the memory agrees
(`StampsInv`): a rotation then finds every key that was ever retired inactive, and passes it by.

The argument for the verifier. Every behaviour of `VerifierSpec` is one of `SigningKeyService!Spec` (`ServerRuns`), so its
theorems hold here too. `CacheInv` says that a kid missing from the copy had no token delivered when the copy was fetched, or
only tokens whose retention is over, or was lost; `FetchJwks` establishes it from `IInv`, and nothing else
writes the copy. The rest is what the ordered checks of `verify` say of an answer (`EarlyAnswer`, `LateAnswer`).

The argument for the denylist: no token outlives one issued at the highest reading of the clock (`LingerInv`), so a
default entry, made at most `Setback` below it, falls short by that and by the difference of two TTLs at most. An
acknowledged jti has a covering entry in both maps, or the clock has passed the token's `exp` (`Expired`); `put` can only
shorten an entry by way of `Acked`; pruning drops a covering entry only when the clock is past it. A poll copies that to
the verifier. So whatever the leeway and the setbacks, and also for a verifier that asks directly, a revoked token
passes again only late (`RevokedPassesLate`): findings 3 and 4 live in the seconds between `exp` and the end of the
leeway. `Margin` makes these seconds empty, now and after a setback.

The argument for the registry: a request's pending change is already held by memory and document (`Waiting`), and
later requests only write larger serial numbers or remove, so it still holds when it is answered; a token's record is
then at least as new as what had been acknowledged when it was asked for. As long as no
save fails memory and document agree (`SavedInv`), so a client that DELETE does not find is in neither: the fifth
finding takes a failed save.
For the log: the list in memory extends the
document whenever the process runs, so nothing stored is lost. An entry leaves its request only for the stored log or
for `cut` (`AccountedStays`); a change makes its record and its entry in one step (`ChangeExplained`), and every other
step copies records between memory and document that were explained already (`ExplainedStays`). A client never
registered has no record, which the case of a registration that was not saved needs.

The argument for the store: a temp name belongs to one save at a time, and what is moved is the whole document; the
abstract steps are `Begin` at `Save`, `Install` at `Move`, `Return` or `Throw` at `Leave`.

The argument for the process: a start is a walk through `Order`, and `StartInv` says that what it has passed is readable
and that only a key minted may differ from what it found; so by the time it serves nothing is garbled. For the
configuration, `ConfigInv` says that `given` is what the flags read so far, or else the environment, say of each option
(`Said`, whose last flag exists because every append makes one); `Resolve` then is the documented rule. For requests,
`RequestInv` and `GuardInv` say what an exchange carries at each step, and that whoever passed the checks of a handler
under `/admin` sent the token; that the handler of such a path is one of the guarded ones is `AdminRoutes`, from the
table. `PhaseInv` says in which phases the configuration is read or refused and an exchange exists; with `ConfigInv`
and `GrantInv` every type follows. `DispatchInv` says that the loop has passed no route of the request, and `RoutesApart` that no two routes of a
method match the same path.

The argument for the grants needs no induction over the lists: of the checks that object, some check has the least
number (`LeastNumber`), and it is the answer; so a claim is accepted exactly if no check objects to it (`ClaimAccepted`),
and its groups are then those the constructors accept. `SetToSeq` of a set of operations is known by its range alone
(`ListsAll`), which is all that `ToSet` on the way back looks at. `GrantInv` carries the claim and what was made of it
through an exchange to the store and back.

Model-checked only: `EntriesDrain`, which is liveness under fairness.

## Not modelled, and the plan

Left out for good: cryptography (signatures, Argon2, key encodings), file permissions, HTTP parsing of the
JDK server, formatting, the documentation pages, power loss (the store never syncs; a process crash keeps what a
finished system call did).

Tokens' keys and their revocation are in two modules, `TokenVerifier` and `RevocationService`, and are not composed:
`verify` tests them one after the other, they share nothing but the clock, and each module lets the other's part answer
anything. `OverlapVerifies` and `PolledRevocationHolds` therefore both hold of a verifier that caches both.

What is left, most important first:

1. A power loss, with `JsonStore` over a file system that reorders unsynced writes and renames.
2. The services' persistence in `SigningKeyService` and `RevocationService` as instances of `AtomicDocument`, so that
   the refinement reaches them by a theorem, where it is now by the same two outcomes of a failed save.
3. `verify` throwing on a malformed signature segment or a `null` header, which `TokenVerifier` has as an outcome, as a
   run that states the comment at `Jws.java:90`.
