---------------------------- MODULE ApiHandlers ----------------------------
(***************************************************************************)
(* The handlers of ApiHandlers.java that change something or hand out      *)
(* tokens.  Each calls one service, which takes and leaves its monitor,    *)
(* and then records an audit entry under another monitor, so requests      *)
(* interleave, and the process may die, between the two.  Only then is the *)
(* answer written.  Any throw becomes a 500 (Router.handle), and undoes    *)
(* nothing.                                                                *)
(*                                                                         *)
(* The registry is in this model; what the other services do when called   *)
(* is in SigningKeyService and RevocationService.  Requests that pass no   *)
(* check (admin token, secret, body) change nothing and are left out.      *)
(***************************************************************************)
EXTENDS ClientService, AuditService

CONSTANTS
  Workers,      \* the request threads
  MaxRequests,  \* bound: no request after this many
  SaveMayFail,  \* whether JsonStore.save may throw
  NoClient,     \* the clientId of an entry that concerns no client
  NoRequest     \* a worker that serves no request

\* The audited events; those of the changes that other modules model.
Elsewhere == {"key.rotated", "token.revoked"}
Events == {"client.registered", "client.grants_set", "client.removed", "token.issued"} \union Elsewhere
Entry == [event : Events, clientId : ClientIds \union {NoClient}, serial : 1 .. MaxRequests]

\* A request that asks for a token and has not authenticated yet.
Asked == [event : {"token.asked"}, clientId : ClientIds, serial : 1 .. MaxRequests]

ASSUME HandlersAssumption ==
  /\ MaxRequests \in Nat /\ SaveMayFail \in BOOLEAN
  /\ NoRequest \notin Entry \union Asked
  /\ NoClient \notin ClientIds

VARIABLES
  up,        \* the process runs and its services are constructed
  served,    \* the serial number of the last request
  request,   \* per worker, the audit entry its request is about to record
  record,    \* per worker, the client record its token is issued from
  answered,  \* history: the entries of the requests answered with success
  cut,       \* history: the entries of the calls that a crash, a failed save of
             \* the change or a failed save of the log cut off
  acked,     \* history: per client, the last change answered with success, or 0
  dropped,   \* history: the clients some request took out of the registry
  told,      \* history: the clients a DELETE answered 404 "no such client" for
  floor      \* history: per worker, acked of its client when its token was asked for

issuing == <<record, floor>>
vars == <<registry, audit, up, served, request, issuing, answered, cut, acked, dropped, told>>

Init ==
  /\ ClientsInit /\ AuditInit
  /\ up = FALSE
  /\ served = 0
  /\ request = [w \in Workers |-> NoRequest]
  /\ record = [w \in Workers |-> 0] /\ floor = [w \in Workers |-> 0]
  /\ answered = {} /\ cut = {}
  /\ acked = NoClients
  /\ dropped = {} /\ told = {}

Start ==
  /\ ~up
  /\ up' = TRUE
  /\ ClientsLoad /\ AuditLoad
  /\ UNCHANGED <<served, request, issuing, answered, cut, acked, dropped, told>>

Crash ==
  /\ up
  /\ up' = FALSE
  /\ ClientsForget /\ AuditForget
  /\ request' = [w \in Workers |-> NoRequest]
  /\ cut' = cut \union ({request[w] : w \in Workers} \intersect Entry)
  /\ UNCHANGED <<served, issuing, answered, acked, dropped, told>>

-----------------------------------------------------------------------------
(* The first half of a handler: the call of the service.                   *)

Accept(w) ==
  /\ up /\ request[w] = NoRequest
  /\ served < MaxRequests
  /\ served' = served + 1

\* What the request just accepted is to record.
NewEntry(event, c) == [event |-> event, clientId |-> c, serial |-> served']

\* The service returned; the audit entry is next.
Pending(w, event, c) ==
  /\ request' = [request EXCEPT ![w] = NewEntry(event, c)]
  /\ UNCHANGED cut

\* The save of the change threw, past the audit entry.
CutOff(event, c) ==
  /\ cut' = cut \union {NewEntry(event, c)}
  /\ UNCHANGED request

RegisterClient(w, c) ==
  /\ Accept(w)
  /\ Register(c, served') /\ Persist
  /\ Pending(w, "client.registered", c)
  /\ UNCHANGED <<audit, up, issuing, answered, acked, dropped, told>>

RegisterClientFails(w, c) ==
  /\ Accept(w)
  /\ SaveMayFail /\ Register(c, served') /\ PersistFails
  /\ CutOff("client.registered", c)
  /\ UNCHANGED <<audit, up, issuing, answered, acked, dropped, told>>

\* Mutant of DeleteClient: the answer leaves without an audit entry.
DeleteClientUnaudited(w, c) ==
  /\ Accept(w)
  /\ Remove(c) /\ Persist
  /\ dropped' = dropped \union {c}
  /\ UNCHANGED <<audit, up, request, issuing, answered, cut, acked, told>>

DeleteClient(w, c) ==
  /\ Accept(w)
  /\ Remove(c) /\ Persist
  /\ Pending(w, "client.removed", c)
  /\ dropped' = dropped \union {c}
  /\ UNCHANGED <<audit, up, issuing, answered, acked, told>>

DeleteClientFails(w, c) ==
  /\ Accept(w)
  /\ SaveMayFail /\ Remove(c) /\ PersistFails
  /\ CutOff("client.removed", c)
  /\ dropped' = dropped \union {c}
  /\ UNCHANGED <<audit, up, issuing, answered, acked, told>>

\* remove() found no client: 404.
DeleteUnknown(w, c) ==
  /\ Accept(w)
  /\ c \in minted /\ clients[c] = 0
  /\ told' = told \union {c}
  /\ UNCHANGED <<registry, audit, up, request, issuing, answered, cut, acked, dropped>>

SetGrants(w, c) ==
  /\ Accept(w)
  /\ SetAuthorization(c, served') /\ Persist
  /\ Pending(w, "client.grants_set", c)
  /\ UNCHANGED <<audit, up, issuing, answered, acked, dropped, told>>

SetGrantsFails(w, c) ==
  /\ Accept(w)
  /\ SaveMayFail /\ SetAuthorization(c, served') /\ PersistFails
  /\ CutOff("client.grants_set", c)
  /\ UNCHANGED <<audit, up, issuing, answered, acked, dropped, told>>

\* rotateKeys() and revoke(): the call of the other service returned.
ChangeElsewhere(w, event) ==
  /\ Accept(w)
  /\ Pending(w, event, NoClient)
  /\ UNCHANGED <<registry, audit, up, issuing, answered, acked, dropped, told>>

\* token(): the request, with its client's secret, is there.
AskToken(w, c) ==
  /\ Accept(w)
  /\ c \in minted
  /\ request' = [request EXCEPT ![w] = NewEntry("token.asked", c)]
  /\ floor' = [floor EXCEPT ![w] = acked[c]]
  /\ UNCHANGED <<registry, audit, up, record, answered, cut, acked, dropped, told>>

Asking(w) == request[w] # NoRequest /\ request[w].event = "token.asked"

\* ... authenticate() returns the record the token will be issued from,
IssueToken(w) ==
  LET c == request[w].clientId IN
  /\ Asking(w) /\ Authenticates(c)
  /\ record' = [record EXCEPT ![w] = clients[c]]
  /\ request' = [request EXCEPT ![w].event = "token.issued"]
  /\ UNCHANGED <<registry, audit, up, served, floor, answered, cut, acked, dropped, told>>

\* ... or does not find the client: 401.
RefuseToken(w) ==
  /\ Asking(w) /\ ~Authenticates(request[w].clientId)
  /\ request' = [request EXCEPT ![w] = NoRequest]
  /\ UNCHANGED <<registry, audit, up, served, issuing, answered, cut, acked, dropped, told>>

-----------------------------------------------------------------------------
(* The second half: the audit entry and the answer.                        *)

\* The change of a client an entry stands for, if any, is the last one of it.
Acked(entry) ==
  IF entry.clientId = NoClient \/ entry.event = "token.issued" \/ entry.serial < acked[entry.clientId]
  THEN acked
  ELSE [acked EXCEPT ![entry.clientId] = entry.serial]

Waits(w) == request[w] # NoRequest /\ ~Asking(w)

Answer(w) ==
  /\ Waits(w)
  /\ Record(request[w])
  /\ request' = [request EXCEPT ![w] = NoRequest]
  /\ answered' = answered \union {request[w]}
  /\ acked' = Acked(request[w])
  /\ UNCHANGED <<registry, up, served, issuing, cut, dropped, told>>

AuditFails(w) ==
  /\ Waits(w)
  /\ SaveMayFail /\ RecordFails(request[w])
  /\ request' = [request EXCEPT ![w] = NoRequest]
  /\ cut' = cut \union {request[w]}
  /\ UNCHANGED <<registry, up, served, issuing, answered, acked, dropped, told>>

Next ==
  \/ Start \/ Crash
  \/ \E w \in Workers, c \in ClientIds :
       \/ RegisterClient(w, c) \/ RegisterClientFails(w, c)
       \/ DeleteClient(w, c) \/ DeleteClientFails(w, c) \/ DeleteUnknown(w, c)
       \/ SetGrants(w, c) \/ SetGrantsFails(w, c)
       \/ AskToken(w, c)
  \/ \E w \in Workers : IssueToken(w) \/ RefuseToken(w) \/ Answer(w) \/ AuditFails(w)
  \/ \E w \in Workers, event \in Elsewhere : ChangeElsewhere(w, event)

Spec == Init /\ [][Next]_vars

-----------------------------------------------------------------------------
(* Properties.                                                             *)

TypeOK ==
  /\ clients \in [ClientIds -> 0 .. MaxRequests]
  /\ clientsFile \in [ClientIds -> 0 .. MaxRequests]
  /\ minted \in SUBSET ClientIds
  /\ entries \in Seq(Entry) /\ auditFile \in Seq(Entry)
  /\ up \in BOOLEAN
  /\ served \in 0 .. MaxRequests
  /\ request \in [Workers -> Entry \union Asked \union {NoRequest}]
  /\ record \in [Workers -> 0 .. MaxRequests] /\ floor \in [Workers -> 0 .. MaxRequests]
  /\ answered \in SUBSET Entry /\ cut \in SUBSET Entry
  /\ acked \in [ClientIds -> 0 .. MaxRequests]
  /\ dropped \in SUBSET ClientIds
  /\ told \in SUBSET ClientIds

\* What an administrator was told is done stays done: whatever fails, crashes
\* or overlaps afterwards, neither the running registry nor the document the
\* next start loads holds a record older than a client's last acknowledged
\* change - nor any record if that was its removal - and a client is missing
\* only if some request took it out.
Holds(records, c, serial) ==
  IF records[c] # 0 THEN records[c] >= serial ELSE serial = 0 \/ c \in dropped

AckedChangesHold ==
  \A c \in ClientIds :
    Holds(clientsFile, c, acked[c]) /\ (up => Holds(clients, c, acked[c]))

\* A token is issued from a record no older than what its client's
\* administrator had been told when the request came in: no grants from before
\* an acknowledged change, no token at all after an acknowledged removal.
TokensAreCurrent ==
  \A w \in Workers : Waits(w) /\ request[w].event = "token.issued" =>
    record[w] # 0 /\ record[w] >= floor[w]

Logged(entry) == \E i \in 1 .. Len(auditFile) : auditFile[i] = entry

\* No request is answered with success, no token handed out, without its
\* entry in the stored audit log, then and for ever.
AnswersAreAudited == \A entry \in answered : Logged(entry)

\* An entry is in the stored log, a request is about to record it, or the crash
\* or the failed save that kept it out has happened.
Accounted(entry) == Logged(entry) \/ entry \in cut \/ \E w \in Workers : request[w] = entry

\* The change that left client c with this record, or with none, is accounted
\* for.  (A registration that was cut off may have left none.)
Explained(c, serial) ==
  LET Of(event, n) == [event |-> event, clientId |-> c, serial |-> n] IN
  IF serial # 0
  THEN Accounted(Of("client.registered", serial)) \/ Accounted(Of("client.grants_set", serial))
  ELSE \E n \in 1 .. served :
         Accounted(Of("client.removed", n)) \/ Of("client.registered", n) \in cut

\* The log is of "grant changes, ... client registration/removal": whatever the
\* running registry holds, and whatever the document holds that the next start
\* loads, each record and each removal in it has its entry in the stored log, or
\* a request is about to record it, unless the process died, the save of the log
\* failed, or the save of the change itself failed in between.  So a change in
\* effect without an entry is one that its administrator was not told is done.
RegistryIsAudited ==
  \A c \in minted : Explained(c, clientsFile[c]) /\ (up => Explained(c, clients[c]))

\* The log t is the log s with zero or more entries appended.
Extends(t, s) == Len(s) <= Len(t) /\ \A i \in 1 .. Len(s) : t[i] = s[i]

\* "An append-only audit log": what the document holds stays there, in its
\* order, through failed saves, crashes and appends of concurrent requests.
AuditAppendOnly ==
  [][Extends(auditFile', auditFile)]_vars

\* "No such client": a client DELETE answers 404 for is not in the document,
\* so cannot come back with the next start.
UnknownStaysUnknown == \A c \in told : clientsFile[c] = 0

-----------------------------------------------------------------------------
(* The inductive invariants behind the properties.                         *)

\* A change stays in the registry and its document while its request waits for
\* the audit log, so whenever it is answered it still holds.
Waiting(w) ==
  request[w] # NoRequest =>
    /\ up
    /\ request[w].serial \in 1 .. served
    /\ Asking(w) => floor[w] <= acked[request[w].clientId]
    /\ Waits(w) /\ request[w].event # "token.issued" /\ request[w].clientId # NoClient =>
         /\ Holds(clientsFile, request[w].clientId, request[w].serial)
         /\ Holds(clients, request[w].clientId, request[w].serial)

\* The inductive invariant behind AckedChangesHold and TokensAreCurrent.
IInv ==
  /\ TypeOK
  /\ ~up => clients = NoClients
  /\ \A c \in ClientIds : acked[c] <= served
  /\ AckedChangesHold
  /\ \A w \in Workers : Waiting(w)
  /\ TokensAreCurrent

\* The inductive invariant behind the log's properties: the list in memory is
\* ahead of the document, never behind or beside it, and a client that was never
\* registered has no record.
AuditInv ==
  /\ AnswersAreAudited
  /\ RegistryIsAudited
  /\ up => Extends(entries, auditFile)
  /\ \A c \in ClientIds \ minted : clients[c] = 0 /\ clientsFile[c] = 0

=============================================================================
