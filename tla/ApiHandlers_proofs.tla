------------------------- MODULE ApiHandlers_proofs -------------------------
(***************************************************************************)
(* Theorems about the handlers, the registry and the audit log, for any    *)
(* number of requests, threads and clients, whatever saves fail and        *)
(* whenever the process dies.                                              *)
(***************************************************************************)
EXTENDS ApiHandlers, SequenceTheorems, TLAPS

\* The actions of a worker on a client.
Handle(w, c) ==
  \/ RegisterClient(w, c) \/ RegisterClientFails(w, c)
  \/ DeleteClient(w, c) \/ DeleteClientFails(w, c) \/ DeleteUnknown(w, c)
  \/ SetGrants(w, c) \/ SetGrantsFails(w, c)
  \/ AskToken(w, c)

\* The actions that end a request, or take a token's one step further.
Proceed(w) == IssueToken(w) \/ RefuseToken(w) \/ Answer(w) \/ AuditFails(w)

\* The token requests and the rest are told apart by their event.
LEMMA Kinds ==
  ASSUME TypeOK, NEW w \in Workers
  PROVE  /\ Asking(w) => request[w] \in Asked /\ request[w] \notin Entry
         /\ Waits(w) => request[w] \in Entry
         /\ NoRequest \notin Entry
<1> USE HandlersAssumption
<1>1. ASSUME Asking(w)
      PROVE  request[w] \in Asked /\ request[w] \notin Entry
  BY <1>1 DEF TypeOK, Asking, Entry, Events, Elsewhere
<1>2. ASSUME Waits(w)
      PROVE  request[w] \in Entry
  BY <1>2 DEF TypeOK, Asking, Waits, Asked
<1> QED
  BY <1>1, <1>2

-----------------------------------------------------------------------------
(* Type correctness.                                                       *)

\* What the first half of a handler leaves well-formed.
LEMMA HandleType ==
  ASSUME TypeOK, NEW w \in Workers, NEW c \in ClientIds, Handle(w, c)
  PROVE  TypeOK'
<1> USE HandlersAssumption
<1>1. served + 1 \in 1 .. MaxRequests /\ served' = served + 1
  BY DEF TypeOK, Handle, Accept, RegisterClient, RegisterClientFails, DeleteClient,
         DeleteClientFails, DeleteUnknown, SetGrants, SetGrantsFails, AskToken
<1>2. /\ clients' \in [ClientIds -> 0 .. MaxRequests]
      /\ clientsFile' \in [ClientIds -> 0 .. MaxRequests]
      /\ minted' \in SUBSET ClientIds
  <2>1. /\ \/ clients' = clients
           \/ clients' = [clients EXCEPT ![c] = served']
           \/ clients' = [clients EXCEPT ![c] = 0]
        /\ minted' \in {minted, minted \union {c}}
    BY DEF Handle, registry, Register, Remove, SetAuthorization, RegisterClient,
           RegisterClientFails, DeleteClient, DeleteClientFails, DeleteUnknown, SetGrants,
           SetGrantsFails, AskToken
  <2>2. clientsFile' \in {clientsFile, clients'}
    BY DEF Handle, registry, Persist, PersistFails, RegisterClient, RegisterClientFails,
           DeleteClient, DeleteClientFails, DeleteUnknown, SetGrants, SetGrantsFails, AskToken
  <2>3. 0 \in 0 .. MaxRequests /\ served' \in 0 .. MaxRequests
    BY <1>1
  <2>4. clients' \in [ClientIds -> 0 .. MaxRequests]
    BY <2>1, <2>3 DEF TypeOK
  <2>5. clientsFile' \in [ClientIds -> 0 .. MaxRequests]
    BY <2>2, <2>4 DEF TypeOK
  <2> QED
    BY <2>1, <2>4, <2>5 DEF TypeOK
<1>3. \A e \in Events :
        [event |-> e, clientId |-> c, serial |-> served'] \in Entry
  BY <1>1 DEF Entry
<1>4. ASSUME NEW e \in Events, Pending(w, e, c)
      PROVE  /\ request' \in [Workers -> Entry \union Asked \union {NoRequest}]
             /\ cut' \in SUBSET Entry
  BY <1>3, <1>4 DEF TypeOK, Pending, NewEntry
<1>5. /\ request' \in [Workers -> Entry \union Asked \union {NoRequest}]
      /\ cut' \in SUBSET Entry
  <2>1. CASE \E e \in Events : Pending(w, e, c)
    BY <1>4, <2>1
  <2>4. CASE \E e \in Events : CutOff(e, c)
    BY <1>3, <2>4 DEF TypeOK, CutOff, NewEntry
  <2>2. CASE AskToken(w, c)
    <3>1. [event |-> "token.asked", clientId |-> c, serial |-> served'] \in Asked
      BY <1>1 DEF Asked
    <3> QED
      BY <2>2, <3>1 DEF AskToken, NewEntry, TypeOK
  <2>3. CASE UNCHANGED <<request, cut>>
    BY <2>3 DEF TypeOK
  <2> QED
    BY <2>1, <2>2, <2>3, <2>4 DEF Handle, Events, RegisterClient, RegisterClientFails,
              DeleteClient, DeleteClientFails, DeleteUnknown, SetGrants, SetGrantsFails
<1>6. floor' \in [Workers -> 0 .. MaxRequests]
  BY DEF TypeOK, Handle, issuing, RegisterClient, RegisterClientFails, DeleteClient,
         DeleteClientFails, DeleteUnknown, SetGrants, SetGrantsFails, AskToken
<1>7. UNCHANGED <<audit, up, record, answered, acked>>
  BY DEF Handle, issuing, RegisterClient, RegisterClientFails, DeleteClient,
         DeleteClientFails, DeleteUnknown, SetGrants, SetGrantsFails, AskToken
<1>8. /\ dropped' \in SUBSET ClientIds /\ told' \in SUBSET ClientIds
  BY DEF TypeOK, Handle, RegisterClient, RegisterClientFails, DeleteClient,
         DeleteClientFails, DeleteUnknown, SetGrants, SetGrantsFails, AskToken
<1> QED
  BY <1>1, <1>2, <1>5, <1>6, <1>7, <1>8 DEF TypeOK, audit

\* What the rest of a request leaves well-formed.
LEMMA ProceedType ==
  ASSUME TypeOK, NEW w \in Workers, Proceed(w)
  PROVE  TypeOK'
<1> USE HandlersAssumption
<1>1. CASE IssueToken(w)
  <2> DEFINE entry == [request[w] EXCEPT !.event = "token.issued"]
  <2>1. request[w] \in Asked
    BY <1>1, Kinds DEF IssueToken
  <2>2. entry \in Entry
    BY <2>1 DEF Asked, Entry, Events
  <2>3. clients[request[w].clientId] \in 0 .. MaxRequests
    BY <2>1 DEF Asked, TypeOK
  <2>4. /\ record' = [record EXCEPT ![w] = clients[request[w].clientId]]
        /\ request' = [request EXCEPT ![w] = entry]
        /\ UNCHANGED <<registry, audit, up, served, floor, answered, cut, acked, dropped, told>>
    BY <1>1 DEF IssueToken
  <2> QED
    BY <2>2, <2>3, <2>4 DEF TypeOK, registry, audit
<1>2. CASE RefuseToken(w)
  <2>1. request' \in [Workers -> Entry \union Asked \union {NoRequest}]
    BY <1>2 DEF RefuseToken, TypeOK
  <2> QED
    BY <1>2, <2>1 DEF RefuseToken, TypeOK, registry, audit, issuing
<1>3. CASE Answer(w) \/ AuditFails(w)
  <2>1. request[w] \in Entry
    BY <1>3, Kinds DEF Answer, AuditFails
  <2>2. entries' \in Seq(Entry) /\ auditFile' \in Seq(Entry)
    <3>1. Append(entries, request[w]) \in Seq(Entry)
      BY <2>1, AppendProperties DEF TypeOK
    <3>2. /\ entries' = Append(entries, request[w])
          /\ auditFile' \in {auditFile, entries'}
      BY <1>3 DEF Answer, AuditFails, Record, RecordFails
    <3> QED
      BY <3>1, <3>2 DEF TypeOK
  <2>3. acked' \in [ClientIds -> 0 .. MaxRequests]
    <3>1. /\ request[w].clientId \in ClientIds \union {NoClient}
          /\ request[w].serial \in 0 .. MaxRequests
      BY <2>1 DEF Entry
    <3>2. \/ acked' = acked
          \/ /\ request[w].clientId # NoClient
             /\ acked' = [acked EXCEPT ![request[w].clientId] = request[w].serial]
      BY <1>3 DEF Answer, AuditFails, Acked
    <3> QED
      BY <3>1, <3>2 DEF TypeOK
  <2>4. request' \in [Workers -> Entry \union Asked \union {NoRequest}]
    BY <1>3 DEF TypeOK, Answer, AuditFails
  <2>5. answered' \in SUBSET Entry /\ cut' \in SUBSET Entry
    BY <1>3, <2>1 DEF TypeOK, Answer, AuditFails
  <2>6. UNCHANGED <<registry, up, served, issuing, dropped, told>>
    BY <1>3 DEF Answer, AuditFails
  <2> QED
    BY <2>2, <2>3, <2>4, <2>5, <2>6 DEF TypeOK, registry, issuing
<1> QED
  BY <1>1, <1>2, <1>3 DEF Proceed

\* A change that another service made.
LEMMA ElsewhereType ==
  ASSUME TypeOK, NEW w \in Workers, NEW event \in Elsewhere, ChangeElsewhere(w, event)
  PROVE  TypeOK'
<1> USE HandlersAssumption
<1>1. served + 1 \in 1 .. MaxRequests /\ served' = served + 1
  BY DEF TypeOK, ChangeElsewhere, Accept
<1>2. [event |-> event, clientId |-> NoClient, serial |-> served'] \in Entry
  BY <1>1 DEF Entry, Events
<1>3. /\ request' \in [Workers -> Entry \union Asked \union {NoRequest}]
      /\ cut' \in SUBSET Entry
  BY <1>2 DEF ChangeElsewhere, Pending, NewEntry, TypeOK
<1> QED
  BY <1>1, <1>3 DEF ChangeElsewhere, TypeOK, registry, audit, issuing

\* Every variable keeps its type.
THEOREM TypeCorrect == Spec => []TypeOK
<1> USE HandlersAssumption
<1>1. Init => TypeOK
  <2>1. NoClients \in [ClientIds -> 0 .. MaxRequests] /\ << >> \in Seq(Entry)
    BY DEF NoClients
  <2>2. 0 \in 0 .. MaxRequests
    OBVIOUS
  <2>3. /\ [w \in Workers |-> NoRequest] \in [Workers -> Entry \union Asked \union {NoRequest}]
        /\ [w \in Workers |-> 0] \in [Workers -> 0 .. MaxRequests]
    BY <2>2
  <2> SUFFICES ASSUME Init PROVE TypeOK
    OBVIOUS
  <2>4. /\ clients = NoClients /\ clientsFile = NoClients /\ acked = NoClients
        /\ entries = << >> /\ auditFile = << >> /\ served = 0 /\ up = FALSE
        /\ request = [w \in Workers |-> NoRequest]
        /\ record = [w \in Workers |-> 0] /\ floor = [w \in Workers |-> 0]
        /\ minted = {} /\ answered = {} /\ cut = {} /\ dropped = {} /\ told = {}
    BY DEF Init, ClientsInit, AuditInit
  <2> QED
    BY <2>1, <2>2, <2>3, <2>4 DEF TypeOK
<1>2. TypeOK /\ [Next]_vars => TypeOK'
  <2> SUFFICES ASSUME TypeOK, [Next]_vars PROVE TypeOK'
    OBVIOUS
  <2>1. CASE Start
    BY <2>1 DEF TypeOK, Start, ClientsLoad, AuditLoad, issuing
  <2>2. CASE Crash
    <3>1. NoClients \in [ClientIds -> 0 .. MaxRequests] /\ << >> \in Seq(Entry)
      BY DEF NoClients
    <3>2. /\ clients' \in [ClientIds -> 0 .. MaxRequests]
          /\ entries' \in Seq(Entry) /\ up' \in BOOLEAN
          /\ request' \in [Workers -> Entry \union Asked \union {NoRequest}]
          /\ cut' \in SUBSET Entry
      BY <2>2, <3>1 DEF Crash, ClientsForget, AuditForget, TypeOK
    <3>3. UNCHANGED <<clientsFile, minted, auditFile, served, issuing, answered, acked, dropped, told>>
      BY <2>2 DEF Crash, ClientsForget, AuditForget
    <3> QED
      BY <3>2, <3>3 DEF TypeOK, issuing
  <2>3. ASSUME NEW w \in Workers, NEW c \in ClientIds, Handle(w, c) PROVE TypeOK'
    BY <2>3, HandleType
  <2>4. ASSUME NEW w \in Workers, Proceed(w) PROVE TypeOK'
    BY <2>4, ProceedType
  <2>5. ASSUME NEW w \in Workers, NEW event \in Elsewhere, ChangeElsewhere(w, event) PROVE TypeOK'
    BY <2>5, ElsewhereType
  <2>6. CASE UNCHANGED vars
    BY <2>6 DEF TypeOK, vars, registry, audit, issuing
  <2> QED
    BY <2>1, <2>2, <2>3, <2>4, <2>5, <2>6 DEF Next, Handle, Proceed
<1> QED
  BY <1>1, <1>2, PTL DEF Spec

-----------------------------------------------------------------------------
(* Acknowledged changes.                                                   *)

\* Serial numbers only grow, so a change is covered by any later one.
LEMMA NewerHolds ==
  ASSUME TypeOK, NEW w \in Workers, NEW c \in ClientIds, Handle(w, c),
         NEW d \in ClientIds, NEW n \in 0 .. served,
         Holds(clientsFile, d, n), Holds(clients, d, n)
  PROVE  Holds(clientsFile, d, n)' /\ Holds(clients, d, n)'
<1> USE HandlersAssumption
<1>1. served' = served + 1
  BY DEF Handle, Accept, RegisterClient, RegisterClientFails, DeleteClient,
         DeleteClientFails, DeleteUnknown, SetGrants, SetGrantsFails, AskToken
<1>2. clientsFile' \in {clientsFile, clients'}
  BY DEF Handle, registry, Persist, PersistFails, RegisterClient, RegisterClientFails,
         DeleteClient, DeleteClientFails, DeleteUnknown, SetGrants, SetGrantsFails, AskToken
<1>3. dropped \subseteq dropped'
  BY DEF Handle, RegisterClient, RegisterClientFails, DeleteClient,
         DeleteClientFails, DeleteUnknown, SetGrants, SetGrantsFails, AskToken
<1>4. \/ clients' = clients
      \/ clients' = [clients EXCEPT ![c] = served']
      \/ clients' = [clients EXCEPT ![c] = 0] /\ c \in dropped'
  BY DEF Handle, registry, Register, Remove, SetAuthorization, RegisterClient,
         RegisterClientFails, DeleteClient, DeleteClientFails, DeleteUnknown, SetGrants,
         SetGrantsFails, AskToken
<1>5. \/ clients'[d] = clients[d]
      \/ clients'[d] = served + 1
      \/ clients'[d] = 0 /\ d \in dropped'
  BY <1>1, <1>4 DEF TypeOK
<1>6. served + 1 # 0 /\ served + 1 >= n
  BY DEF TypeOK
<1>7. Holds(clients, d, n)'
  BY <1>3, <1>5, <1>6 DEF Holds
<1>8. Holds(clientsFile, d, n)'
  BY <1>2, <1>3, <1>7 DEF Holds
<1> QED
  BY <1>7, <1>8

\* A change of a client that waits for its audit entry is in the registry and
\* in the document.
LEMMA PendingHolds ==
  ASSUME TypeOK, NEW w \in Workers, NEW c \in ClientIds,
         RegisterClient(w, c) \/ DeleteClient(w, c) \/ SetGrants(w, c)
  PROVE  /\ clientsFile' = clients'
         /\ clients'[c] = served + 1 \/ (clients'[c] = 0 /\ c \in dropped')
<1>1. clientsFile' = clients' /\ served' = served + 1 /\ served \in Nat
  BY HandlersAssumption DEF Accept, Persist, RegisterClient, DeleteClient, SetGrants, TypeOK
<1>2. \/ clients' = [clients EXCEPT ![c] = served']
      \/ clients' = [clients EXCEPT ![c] = 0] /\ c \in dropped'
  BY DEF Register, Remove, SetAuthorization, RegisterClient, DeleteClient, SetGrants
<1>3. clients'[c] = served + 1 \/ (clients'[c] = 0 /\ c \in dropped')
  BY <1>1, <1>2 DEF TypeOK
<1> QED
  BY <1>1, <1>3

\* Whatever another request does, one that waits keeps what it waits with.
LEMMA OthersWait ==
  ASSUME IInv, NEW v \in Workers, Waiting(v),
         request'[v] = request[v], floor'[v] = floor[v], up' = up, served' \in Nat,
         served <= served', \A d \in ClientIds : acked[d] <= acked'[d],
         \A d \in ClientIds, n \in 0 .. served :
           Holds(clientsFile, d, n) /\ Holds(clients, d, n) =>
             Holds(clientsFile, d, n)' /\ Holds(clients, d, n)',
         acked' \in [ClientIds -> 0 .. MaxRequests]
  PROVE  Waiting(v)'
<1> SUFFICES ASSUME request[v] # NoRequest
             PROVE  Waiting(v)'
  BY DEF Waiting
<1>1. /\ up /\ request[v].serial \in 1 .. served /\ served \in Nat
      /\ Asking(v) => floor[v] <= acked[request[v].clientId]
  BY HandlersAssumption DEF Waiting, IInv, TypeOK
<1>2. request[v].serial \in 1 .. served'
  BY <1>1
<1>3. (Asking(v) <=> Asking(v)') /\ (Waits(v) <=> Waits(v)')
  BY DEF Asking, Waits
<1>4. ASSUME Asking(v)
      PROVE  floor[v] <= acked'[request[v].clientId]
  <2>1. request[v].clientId \in ClientIds
    BY <1>4, Kinds DEF IInv, Asked
  <2>2. /\ floor[v] \in Nat /\ acked[request[v].clientId] \in Nat
        /\ acked'[request[v].clientId] \in Nat
    BY <2>1, HandlersAssumption DEF IInv, TypeOK
  <2> QED
    BY <1>1, <1>4, <2>1, <2>2
<1>5. ASSUME Waits(v), request[v].event # "token.issued", request[v].clientId # NoClient
      PROVE  /\ Holds(clientsFile, request[v].clientId, request[v].serial)'
             /\ Holds(clients, request[v].clientId, request[v].serial)'
  <2>1. request[v].clientId \in ClientIds
    BY <1>5, Kinds DEF IInv, Entry
  <2>2. /\ Holds(clientsFile, request[v].clientId, request[v].serial)
        /\ Holds(clients, request[v].clientId, request[v].serial)
    BY <1>5 DEF Waiting
  <2>3. request[v].serial \in 0 .. served
    BY <1>1
  <2> QED
    BY <2>1, <2>2, <2>3 DEF Holds
<1> QED
  BY <1>1, <1>2, <1>3, <1>4, <1>5 DEF Waiting

\* A token stays as current as it was when it was issued.
LEMMA OthersCurrent ==
  ASSUME IInv, NEW v \in Workers,
         request'[v] = request[v], record'[v] = record[v], floor'[v] = floor[v]
  PROVE  Waits(v)' /\ request'[v].event = "token.issued" => record'[v] # 0 /\ record'[v] >= floor'[v]
BY DEF IInv, TokensAreCurrent, Waits, Asking

\* A request that finds the service running keeps the invariant, its own
\* pending change included.
LEMMA HandleInv ==
  ASSUME IInv, NEW w \in Workers, NEW c \in ClientIds, Handle(w, c)
  PROVE  IInv'
<1> USE HandlersAssumption
<1>1. TypeOK'
  BY HandleType DEF IInv
<1>2. /\ up /\ request[w] = NoRequest /\ served' = served + 1
      /\ UNCHANGED <<up, acked, record>>
  BY DEF Handle, issuing, Accept, RegisterClient, RegisterClientFails, DeleteClient,
         DeleteClientFails, DeleteUnknown, SetGrants, SetGrantsFails, AskToken
<1>3. served \in Nat /\ served' \in Nat /\ \A d \in ClientIds : acked[d] \in 0 .. served
  BY <1>2 DEF IInv, TypeOK
<1>4. \A d \in ClientIds, n \in 0 .. served :
        Holds(clientsFile, d, n) /\ Holds(clients, d, n) =>
          Holds(clientsFile, d, n)' /\ Holds(clients, d, n)'
  BY NewerHolds DEF IInv, Holds
<1>5. AckedChangesHold'
  <2>1. \A d \in ClientIds : Holds(clientsFile, d, acked[d]) /\ Holds(clients, d, acked[d])
    BY <1>2 DEF IInv, AckedChangesHold
  <2> QED
    BY <1>2, <1>3, <1>4, <2>1 DEF AckedChangesHold, Holds
<1>6. \/ UNCHANGED <<request, floor>>
      \/ /\ \E e \in Events : Pending(w, e, c)
         /\ RegisterClient(w, c) \/ DeleteClient(w, c) \/ SetGrants(w, c)
         /\ UNCHANGED floor
      \/ AskToken(w, c)
  BY DEF Handle, issuing, Events, RegisterClient, RegisterClientFails, DeleteClient,
         DeleteClientFails, DeleteUnknown, SetGrants, SetGrantsFails, CutOff
<1>7. ASSUME NEW v \in Workers, v # w
      PROVE  request'[v] = request[v] /\ floor'[v] = floor[v]
  BY <1>6, <1>7 DEF IInv, TypeOK, Pending, NewEntry, AskToken
<1>8. ASSUME NEW v \in Workers
      PROVE  /\ Waiting(v)'
             /\ Waits(v)' /\ request'[v].event = "token.issued" => record'[v] # 0 /\ record'[v] >= floor'[v]
  <2>1. CASE request'[v] = request[v] /\ floor'[v] = floor[v]
    <3>1. served <= served' /\ \A d \in ClientIds : acked[d] <= acked'[d]
      BY <1>2, <1>3
    <3>2. Waiting(v) /\ acked' \in [ClientIds -> 0 .. MaxRequests]
      BY <1>1 DEF IInv, TypeOK
    <3>3. Waiting(v)'
      BY <1>2, <1>3, <1>4, <2>1, <3>1, <3>2, OthersWait
    <3> QED
      BY <1>2, <2>1, <3>3, OthersCurrent
  <2>2. CASE v = w /\ AskToken(w, c)
    <3>1. /\ request'[w] = [event |-> "token.asked", clientId |-> c, serial |-> served']
          /\ floor'[w] = acked[c]
      BY <2>2 DEF AskToken, NewEntry, IInv, TypeOK
    <3>2. Asking(w)' /\ ~Waits(w)' /\ floor'[w] <= acked'[c] /\ request'[w].serial \in 1 .. served'
      BY <1>1, <1>2, <1>3, <3>1 DEF Asking, Waits, TypeOK, Asked
    <3> QED
      BY <1>2, <2>2, <3>1, <3>2 DEF Waiting
  <2>3. CASE /\ v = w
             /\ \E e \in Events : Pending(w, e, c)
             /\ RegisterClient(w, c) \/ DeleteClient(w, c) \/ SetGrants(w, c)
    <3>1. request'[w].clientId = c /\ request'[w].serial = served'
      BY <2>3 DEF Pending, NewEntry, IInv, TypeOK
    <3>2. request'[w].event \in {"client.registered", "client.removed", "client.grants_set"}
      BY <2>3 DEF Pending, NewEntry, RegisterClient, DeleteClient, SetGrants, IInv, TypeOK
    <3>3. ~Asking(w)' /\ request'[w].event # "token.issued"
      BY <3>2 DEF Asking
    <3>4. /\ clientsFile' = clients'
          /\ clients'[c] = served' \/ (clients'[c] = 0 /\ c \in dropped')
      BY <1>2, <2>3, PendingHolds DEF IInv
    <3>5. request'[w].serial \in 1 .. served'
      BY <1>2, <1>3, <3>1
    <3> QED
      BY <1>2, <1>3, <2>3, <3>1, <3>3, <3>4, <3>5 DEF Waiting, Holds
  <2> QED
    BY <1>6, <1>7, <2>1, <2>2, <2>3
<1>9. (\A v \in Workers : Waiting(v))' /\ TokensAreCurrent'
  BY <1>8 DEF TokensAreCurrent
<1> QED
  BY <1>1, <1>2, <1>3, <1>5, <1>9 DEF IInv

\* A token is issued from what the registry holds, which is no older than what
\* had been acknowledged; an answer turns a pending change into an acknowledged one.
LEMMA ProceedInv ==
  ASSUME IInv, NEW w \in Workers, Proceed(w), TypeOK'
  PROVE  IInv'
<1> USE HandlersAssumption
<1>1. UNCHANGED <<clients, clientsFile, up, served, dropped, floor>> /\ request[w] # NoRequest
  BY DEF Proceed, IssueToken, RefuseToken, Answer, AuditFails, registry, issuing, Asking, Waits
<1>2. up /\ request[w].serial \in 1 .. served /\ served \in Nat
  BY <1>1 DEF IInv, TypeOK, Waiting
<1>3. \/ acked' = acked
      \/ /\ Waits(w) /\ request[w].event # "token.issued" /\ request[w].clientId # NoClient
         /\ request[w].serial >= acked[request[w].clientId]
         /\ acked' = [acked EXCEPT ![request[w].clientId] = request[w].serial]
  <2>1. CASE Answer(w)
    <3>1. Waits(w) /\ acked' = Acked(request[w])
      BY <2>1 DEF Answer
    <3>2. CASE acked' # acked
      <4>1. request[w].clientId \in ClientIds /\ request[w].clientId # NoClient
        BY <3>1, <3>2, Kinds DEF Acked, Entry, IInv
      <4>2. acked[request[w].clientId] \in Nat /\ request[w].serial \in Nat
        BY <1>2, <4>1 DEF IInv, TypeOK
      <4> QED
        BY <3>1, <3>2, <4>1, <4>2 DEF Acked
    <3> QED
      BY <3>2
  <2>2. CASE ~Answer(w)
    BY <2>2 DEF Proceed, IssueToken, RefuseToken, AuditFails
  <2> QED
    BY <2>1, <2>2
<1>4. \A d \in ClientIds :
        \/ acked'[d] = acked[d]
        \/ /\ Waits(w) /\ request[w].event # "token.issued" /\ request[w].clientId = d
           /\ d # NoClient /\ request[w].serial >= acked[d] /\ acked'[d] = request[w].serial
  BY <1>3 DEF IInv, TypeOK
<1>5. ASSUME NEW d \in ClientIds
      PROVE  acked'[d] <= served' /\ acked[d] <= acked'[d]
  <2>1. acked[d] \in Nat /\ acked'[d] \in Nat /\ acked[d] <= served
    BY DEF IInv, TypeOK
  <2> QED
    BY <1>1, <1>2, <1>4, <2>1
<1>6. AckedChangesHold'
  BY <1>1, <1>2, <1>4 DEF IInv, AckedChangesHold, Waiting, Holds
<1>7. \A d \in ClientIds, n \in 0 .. served :
        Holds(clientsFile, d, n) /\ Holds(clients, d, n) =>
          Holds(clientsFile, d, n)' /\ Holds(clients, d, n)'
  BY <1>1 DEF Holds
<1>8. ASSUME NEW v \in Workers
      PROVE  /\ Waiting(v)'
             /\ Waits(v)' /\ request'[v].event = "token.issued" => record'[v] # 0 /\ record'[v] >= floor'[v]
  <2>1. CASE request'[v] = request[v] /\ record'[v] = record[v]
    <3>1. served <= served' /\ served' \in Nat /\ \A d \in ClientIds : acked[d] <= acked'[d]
      BY <1>1, <1>2, <1>5
    <3>2. Waiting(v) /\ acked' \in [ClientIds -> 0 .. MaxRequests]
      BY DEF IInv, TypeOK
    <3>3. floor'[v] = floor[v]
      BY <1>1
    <3>4. Waiting(v)'
      BY <1>1, <1>7, <2>1, <3>1, <3>2, <3>3, OthersWait
    <3> QED
      BY <2>1, <3>3, <3>4, OthersCurrent
  <2>2. CASE request'[v] = NoRequest
    BY <2>2 DEF Waiting, Waits, Asking
  <2>3. CASE v = w /\ IssueToken(w)
    <3> DEFINE d == request[w].clientId
               entry == [request[w] EXCEPT !.event = "token.issued"]
    <3>1. Asking(w) /\ request[w] \in Asked /\ d \in ClientIds
      BY <2>3, Kinds DEF IInv, IssueToken, Asked
    <3>2. request'[w] = entry /\ record'[w] = clients[d] /\ clients[d] # 0
      BY <2>3 DEF IssueToken, Authenticates, IInv, TypeOK
    <3>3. entry.event = "token.issued" /\ entry.serial = request[w].serial
      BY <3>1 DEF Asked
    <3>4. ~Asking(w)' /\ request'[w].event = "token.issued" /\ request'[w].serial = request[w].serial
      BY <3>2, <3>3 DEF Asking
    <3>5. Waiting(w)'
      BY <1>1, <1>2, <3>4 DEF Waiting
    <3>6. floor[w] <= acked[d] /\ clients[d] >= acked[d]
      BY <1>1, <1>2, <3>1, <3>2 DEF IInv, Waiting, AckedChangesHold, Holds
    <3>7. floor[w] \in Nat /\ acked[d] \in Nat /\ clients[d] \in Nat
      BY <3>1 DEF IInv, TypeOK
    <3>8. clients[d] >= floor[w]
      BY <3>6, <3>7
    <3> QED
      BY <1>1, <2>3, <3>2, <3>5, <3>8
  <2>4. \/ request'[v] = request[v] /\ record'[v] = record[v]
        \/ request'[v] = NoRequest
        \/ v = w /\ IssueToken(w)
    BY DEF IInv, TypeOK, Proceed, IssueToken, RefuseToken, Answer, AuditFails, issuing
  <2> QED
    BY <2>1, <2>2, <2>3, <2>4
<1>9. (\A v \in Workers : Waiting(v))' /\ TokensAreCurrent'
  BY <1>8 DEF TokensAreCurrent
<1> QED
  BY <1>1, <1>2, <1>5, <1>6, <1>9 DEF IInv

\* A change that another service made leaves the registry alone.
LEMMA ElsewhereInv ==
  ASSUME IInv, NEW w \in Workers, NEW event \in Elsewhere, ChangeElsewhere(w, event), TypeOK'
  PROVE  IInv'
<1> USE HandlersAssumption
<1>1. /\ up /\ served' = served + 1 /\ Pending(w, event, NoClient)
      /\ UNCHANGED <<clients, clientsFile, up, record, floor, acked, dropped>>
  BY DEF ChangeElsewhere, Accept, registry, issuing
<1>2. served \in Nat /\ served' \in Nat /\ \A d \in ClientIds : acked[d] \in 0 .. served
  BY <1>1 DEF IInv, TypeOK
<1>3. ASSUME NEW v \in Workers
      PROVE  /\ Waiting(v)'
             /\ Waits(v)' /\ request'[v].event = "token.issued" => record'[v] # 0 /\ record'[v] >= floor'[v]
  <2>1. CASE v # w
    <3>1. request'[v] = request[v]
      BY <1>1, <2>1 DEF Pending, NewEntry, IInv, TypeOK
    <3>2. \A d \in ClientIds : acked[d] <= acked'[d]
      BY <1>1, <1>2
    <3>3. Waiting(v)'
      BY <1>1, <1>2, <3>1, <3>2, OthersWait DEF IInv, TypeOK, Holds
    <3> QED
      BY <1>1, <3>1, <3>3, OthersCurrent
  <2>2. CASE v = w
    <3>1. /\ request'[w].event = event /\ request'[w].clientId = NoClient
          /\ request'[w].serial = served'
      BY <1>1 DEF Pending, NewEntry, IInv, TypeOK
    <3>2. event # "token.asked" /\ event # "token.issued"
      BY DEF Elsewhere
    <3>3. request'[w].serial \in 1 .. served'
      BY <1>1, <1>2, <3>1
    <3> QED
      BY <1>1, <2>2, <3>1, <3>2, <3>3 DEF Waiting, Asking
  <2> QED
    BY <2>1, <2>2
<1>4. (\A v \in Workers : Waiting(v))' /\ TokensAreCurrent'
  BY <1>3 DEF TokensAreCurrent
<1>5. AckedChangesHold' /\ \A d \in ClientIds : acked'[d] <= served'
  BY <1>1, <1>2 DEF IInv, AckedChangesHold, Holds
<1> QED
  BY <1>1, <1>4, <1>5 DEF IInv

LEMMA InductiveInvariant == Spec => []IInv
<1> USE HandlersAssumption
<1>1. TypeOK /\ Init => IInv
  <2> SUFFICES ASSUME TypeOK, Init PROVE IInv
    OBVIOUS
  <2>1. \A c \in ClientIds : clientsFile[c] = 0 /\ clients[c] = 0 /\ acked[c] = 0
    BY DEF Init, ClientsInit, NoClients
  <2>2. ~up /\ clients = NoClients /\ served = 0 /\ \A w \in Workers : request[w] = NoRequest
    BY DEF Init, ClientsInit
  <2> QED
    BY <2>1, <2>2 DEF IInv, AckedChangesHold, Waiting, Holds, TokensAreCurrent, Waits
<1>2. TypeOK' /\ IInv /\ [Next]_vars => IInv'
  <2> SUFFICES ASSUME TypeOK', IInv, [Next]_vars PROVE IInv'
    OBVIOUS
  <2>1. CASE Start
    <3>1. /\ clients' = clientsFile /\ up' /\ ~up
          /\ UNCHANGED <<clientsFile, served, request, record, floor, acked, dropped>>
      BY <2>1 DEF Start, ClientsLoad, issuing
    <3>2. \A w \in Workers : request[w] = NoRequest
      BY <3>1 DEF IInv, Waiting
    <3>3. AckedChangesHold'
      BY <3>1 DEF IInv, AckedChangesHold, Holds
    <3> QED
      BY <3>1, <3>2, <3>3 DEF IInv, Waiting, TokensAreCurrent, Waits
  <2>2. CASE Crash
    <3>1. /\ ~up' /\ clients' = NoClients /\ \A w \in Workers : request'[w] = NoRequest
          /\ UNCHANGED <<clientsFile, served, acked, dropped>>
      BY <2>2 DEF Crash, ClientsForget
    <3>2. AckedChangesHold'
      BY <3>1 DEF IInv, AckedChangesHold, Holds
    <3> QED
      BY <3>1, <3>2 DEF IInv, Waiting, TokensAreCurrent, Waits
  <2>3. ASSUME NEW w \in Workers, NEW c \in ClientIds, Handle(w, c) PROVE IInv'
    BY <2>3, HandleInv
  <2>4. ASSUME NEW w \in Workers, Proceed(w) PROVE IInv'
    BY <2>4, ProceedInv
  <2>5. ASSUME NEW w \in Workers, NEW event \in Elsewhere, ChangeElsewhere(w, event) PROVE IInv'
    BY <2>5, ElsewhereInv
  <2>6. CASE UNCHANGED vars
    BY <2>6 DEF IInv, vars, registry, issuing, AckedChangesHold, Waiting, Holds, TokensAreCurrent, Waits, Asking
  <2> QED
    BY <2>1, <2>2, <2>3, <2>4, <2>5, <2>6 DEF Next, Handle, Proceed
<1> QED
  BY <1>1, <1>2, TypeCorrect, PTL DEF Spec

\* The registry and its document honour every change answered with success.
THEOREM AcknowledgedChanges == Spec => []AckedChangesHold
<1>1. IInv => AckedChangesHold
  BY DEF IInv
<1> QED
  BY <1>1, InductiveInvariant, PTL

\* No token is issued from a record older than what was acknowledged when it
\* was asked for.
THEOREM CurrentTokens == Spec => []TokensAreCurrent
<1>1. IInv => TokensAreCurrent
  BY DEF IInv
<1> QED
  BY <1>1, InductiveInvariant, PTL

-----------------------------------------------------------------------------
(* The audit log.                                                          *)

\* A record only appends, to the list, and to the document what the list had
\* and the document lacked.
LEMMA RecordExtends ==
  ASSUME TypeOK, NEW e \in Entry, Extends(entries, auditFile),
         entries' = Append(entries, e), auditFile' \in {auditFile, entries'}
  PROVE  Extends(auditFile', auditFile) /\ Extends(entries', auditFile')
<1>1. /\ Len(entries') = Len(entries) + 1
      /\ \A i \in 1 .. Len(entries) : entries'[i] = entries[i]
  BY AppendProperties DEF TypeOK
<1>2. Len(entries) \in Nat /\ Len(auditFile) \in Nat
  BY DEF TypeOK
<1>3. Extends(entries', auditFile)
  BY <1>1, <1>2 DEF Extends
<1> QED
  BY <1>1, <1>2, <1>3 DEF Extends

\* What a step leaves of the log: what it held, and the answers' entries.
LogKept ==
  /\ AnswersAreAudited' /\ (up => Extends(entries, auditFile))'
  /\ Extends(auditFile', auditFile)
  /\ \A e : Logged(e) => Logged(e)'

\* A step that leaves the log alone.
LEMMA QuietStep ==
  ASSUME TypeOK, AuditInv, UNCHANGED <<auditFile, answered>>, up' => up /\ entries' = entries
  PROVE  LogKept
<1>1. Len(auditFile) \in Nat /\ Extends(auditFile', auditFile)
  BY DEF TypeOK, Extends
<1>2. \A e : Logged(e) => Logged(e)'
  BY DEF Logged
<1>3. AnswersAreAudited'
  BY <1>2 DEF AuditInv, AnswersAreAudited
<1>4. (up => Extends(entries, auditFile))'
  BY DEF AuditInv
<1> QED
  BY <1>1, <1>2, <1>3, <1>4 DEF LogKept

\* An audit entry is saved, or not: the log keeps what it had.
LEMMA RecordStep ==
  ASSUME TypeOK, IInv, AuditInv, NEW w \in Workers, Answer(w) \/ AuditFails(w)
  PROVE  LogKept /\ (Answer(w) => \A e : e = request[w] => Logged(e)')
<1>1. /\ request[w] \in Entry /\ up /\ up' = up
      /\ entries' = Append(entries, request[w]) /\ auditFile' \in {auditFile, entries'}
  <2>1. Waits(w)
    BY DEF Answer, AuditFails
  <2>2. request[w] \in Entry /\ up
    BY <2>1, Kinds DEF IInv, Waiting, Waits
  <2> QED
    BY <2>2 DEF Answer, AuditFails, Record, RecordFails
<1>2. Extends(auditFile', auditFile) /\ Extends(entries', auditFile')
  BY <1>1, RecordExtends DEF AuditInv
<1>3. /\ Len(auditFile) \in Nat /\ Len(auditFile') \in Nat
      /\ \A i \in 1 .. Len(auditFile) : i \in 1 .. Len(auditFile') /\ auditFile'[i] = auditFile[i]
  <2>1. Len(entries') \in Nat /\ Len(auditFile) \in Nat
    BY <1>1, AppendProperties DEF TypeOK
  <2> QED
    BY <1>1, <1>2, <2>1 DEF Extends
<1>4. ASSUME NEW e, Logged(e)
      PROVE  Logged(e)'
  BY <1>3, <1>4 DEF Logged
<1>5. ASSUME Answer(w), NEW e, e = request[w]
      PROVE  Logged(e)'
  <2>1. auditFile' = Append(entries, request[w]) /\ Len(entries) \in Nat
    BY <1>5 DEF Answer, Record, TypeOK
  <2>2. /\ Len(auditFile') = Len(entries) + 1
        /\ auditFile'[Len(entries) + 1] = request[w]
    BY <1>1, <2>1, AppendProperties DEF TypeOK
  <2> QED
    BY <1>5, <2>1, <2>2 DEF Logged
<1>6. ASSUME NEW e \in answered'
      PROVE  Logged(e)'
  <2>1. e \in answered \/ (Answer(w) /\ e = request[w])
    BY <1>6 DEF Answer, AuditFails
  <2>2. ASSUME e \in answered
        PROVE  Logged(e)
    BY <2>2 DEF AuditInv, AnswersAreAudited
  <2>3. ASSUME Answer(w), e = request[w]
        PROVE  Logged(e)'
    BY <1>5, <2>3
  <2> QED
    BY <1>4, <2>1, <2>2, <2>3
<1>7. AnswersAreAudited'
  BY <1>6 DEF AnswersAreAudited
<1> QED
  BY <1>1, <1>2, <1>4, <1>5, <1>7 DEF LogKept

\* No step takes anything out of the document.
LEMMA LogStep ==
  ASSUME TypeOK, IInv, AuditInv, [Next]_vars
  PROVE  LogKept
<1>1. CASE Start
  <2>1. UNCHANGED <<auditFile, answered>> /\ entries' = auditFile
    BY <1>1 DEF Start, AuditLoad
  <2>2. Len(auditFile) \in Nat /\ Extends(auditFile', auditFile) /\ Extends(entries', auditFile')
    BY <2>1 DEF TypeOK, Extends
  <2>3. (\A e : Logged(e) => Logged(e)') /\ AnswersAreAudited'
    BY <2>1 DEF Logged, AuditInv, AnswersAreAudited
  <2> QED
    BY <2>2, <2>3 DEF LogKept
<1>2. CASE Crash
  BY <1>2, QuietStep DEF Crash, AuditForget
<1>3. ASSUME NEW w \in Workers, NEW c \in ClientIds, Handle(w, c)
      PROVE  LogKept
  <2>1. UNCHANGED <<audit, up, answered>>
    BY <1>3 DEF Handle, RegisterClient, RegisterClientFails, DeleteClient,
                DeleteClientFails, DeleteUnknown, SetGrants, SetGrantsFails, AskToken
  <2> QED
    BY <2>1, QuietStep DEF audit
<1>4. ASSUME NEW w \in Workers, NEW event \in Elsewhere, ChangeElsewhere(w, event)
      PROVE  LogKept
  BY <1>4, QuietStep DEF ChangeElsewhere, audit
<1>5. ASSUME NEW w \in Workers, IssueToken(w) \/ RefuseToken(w)
      PROVE  LogKept
  BY <1>5, QuietStep DEF IssueToken, RefuseToken, audit
<1>6. ASSUME NEW w \in Workers, Answer(w) \/ AuditFails(w)
      PROVE  LogKept
  BY <1>6, RecordStep
<1>7. CASE UNCHANGED vars
  BY <1>7, QuietStep DEF vars, audit
<1> QED
  BY <1>1, <1>2, <1>3, <1>4, <1>5, <1>6, <1>7 DEF Next, Handle

\* Nothing leaves the history of what was cut off, and serial numbers grow.
LEMMA Grows ==
  ASSUME TypeOK, [Next]_vars
  PROVE  cut \subseteq cut' /\ served <= served'
<1>1. served \in Nat
  BY HandlersAssumption DEF TypeOK
<1>2. served' \in {served, served + 1}
  BY DEF Next, Start, Crash, Accept, RegisterClient, RegisterClientFails, DeleteClient,
         DeleteClientFails, DeleteUnknown, SetGrants, SetGrantsFails, AskToken, ChangeElsewhere,
         IssueToken, RefuseToken, Answer, AuditFails, vars
<1>3. cut \subseteq cut'
  BY DEF Next, Start, Crash, Pending, CutOff, RegisterClient, RegisterClientFails, DeleteClient,
         DeleteClientFails, DeleteUnknown, SetGrants, SetGrantsFails, AskToken, ChangeElsewhere,
         IssueToken, RefuseToken, Answer, AuditFails, vars
<1> QED
  BY <1>1, <1>2, <1>3

\* What is accounted for stays so: an entry leaves its request for the log, or
\* for the history of what was cut off.
LEMMA AccountedStays ==
  ASSUME TypeOK, IInv, AuditInv, [Next]_vars, LogKept, NEW e \in Entry, Accounted(e)
  PROVE  Accounted(e)'
<1>1. CASE Logged(e)
  BY <1>1 DEF LogKept, Accounted
<1>2. CASE e \in cut
  BY <1>2, Grows DEF Accounted
<1>3. ASSUME NEW w \in Workers, request[w] = e
      PROVE  Accounted(e)'
  <2>1. CASE request'[w] = e
    BY <2>1 DEF Accounted
  <2>2. CASE Crash
    BY <1>3, <2>2 DEF Crash, Accounted
  <2>3. ASSUME NEW v \in Workers, \A u \in Workers \ {v} : request'[u] = request[u],
               request[v] \notin Entry
        PROVE  request'[w] = e
    BY <1>3, <2>3
  <2>4. ASSUME NEW v \in Workers, NEW c \in ClientIds, Handle(v, c)
        PROVE  request'[w] = e
    <3>1. request[v] = NoRequest
      BY <2>4 DEF Handle, Accept, RegisterClient, RegisterClientFails, DeleteClient,
                  DeleteClientFails, DeleteUnknown, SetGrants, SetGrantsFails, AskToken
    <3>2. \A u \in Workers \ {v} : request'[u] = request[u]
      BY <2>4 DEF Handle, Pending, CutOff, RegisterClient, RegisterClientFails, DeleteClient,
                  DeleteClientFails, DeleteUnknown, SetGrants, SetGrantsFails, AskToken, TypeOK
    <3> QED
      BY <2>3, <3>1, <3>2, HandlersAssumption
  <2>5. ASSUME NEW v \in Workers, NEW event \in Elsewhere, ChangeElsewhere(v, event)
        PROVE  request'[w] = e
    BY <2>3, <2>5, HandlersAssumption DEF ChangeElsewhere, Accept, Pending, TypeOK
  <2>6. ASSUME NEW v \in Workers, IssueToken(v) \/ RefuseToken(v)
        PROVE  request'[w] = e
    <3>1. request[v] \notin Entry
      BY <2>6, Kinds DEF IssueToken, RefuseToken
    <3>2. \A u \in Workers \ {v} : request'[u] = request[u]
      BY <2>6 DEF IssueToken, RefuseToken, TypeOK
    <3> QED
      BY <2>3, <3>1, <3>2
  <2>7. ASSUME NEW v \in Workers, Answer(v) \/ AuditFails(v)
        PROVE  Accounted(e)'
    <3>1. CASE v # w
      BY <1>3, <2>7, <3>1 DEF Answer, AuditFails, TypeOK, Accounted
    <3>2. CASE v = w /\ Answer(v)
      BY <1>3, <3>2, RecordStep DEF Accounted
    <3>3. CASE v = w /\ AuditFails(v)
      BY <1>3, <3>3 DEF AuditFails, Accounted
    <3> QED
      BY <2>7, <3>1, <3>2, <3>3
  <2>8. CASE Start \/ UNCHANGED vars
    BY <1>3, <2>1, <2>8 DEF Start, vars
  <2> QED
    BY <2>1, <2>2, <2>4, <2>5, <2>6, <2>7, <2>8 DEF Next, Handle
<1> QED
  BY <1>1, <1>2, <1>3 DEF Accounted

\* So a record stays explained.
LEMMA ExplainedStays ==
  ASSUME TypeOK, IInv, AuditInv, [Next]_vars, LogKept, TypeOK',
         NEW c \in ClientIds, NEW n \in 0 .. MaxRequests, Explained(c, n)
  PROVE  Explained(c, n)'
<1> USE HandlersAssumption
<1>1. cut \subseteq cut' /\ \A m \in 1 .. served : m \in 1 .. served' /\ m \in 1 .. MaxRequests
  BY Grows DEF TypeOK
<1>2. \A e \in Entry : Accounted(e) => Accounted(e)'
  BY AccountedStays
<1>3. \A event \in Events, m \in 1 .. MaxRequests :
        [event |-> event, clientId |-> c, serial |-> m] \in Entry
  BY DEF Entry
<1>4. /\ "client.registered" \in Events /\ "client.grants_set" \in Events
      /\ "client.removed" \in Events
  BY DEF Events
<1>5. CASE n # 0
  <2>1. n \in 1 .. MaxRequests
    BY <1>5
  <2> QED
    BY <1>2, <1>3, <1>4, <1>5, <2>1 DEF Explained
<1>6. CASE n = 0
  BY <1>1, <1>2, <1>3, <1>4, <1>6 DEF Explained
<1> QED
  BY <1>5, <1>6

\* The actions that change the registry, or try to.
Change(w, c) ==
  \/ RegisterClient(w, c) \/ RegisterClientFails(w, c)
  \/ DeleteClient(w, c) \/ DeleteClientFails(w, c)
  \/ SetGrants(w, c) \/ SetGrantsFails(w, c)

\* The record that a change leaves in memory is explained by its own entry,
\* which waits or was cut off.
LEMMA ChangeExplained ==
  ASSUME TypeOK, NEW w \in Workers, NEW c \in ClientIds, Change(w, c),
         NEW s, s = served', NEW n, n = clients'[c]
  PROVE  Explained(c, n)'
<1>1. s \in Nat /\ s # 0 /\ s \in 1 .. served'
  BY HandlersAssumption DEF Change, Accept, RegisterClient, RegisterClientFails, DeleteClient,
     DeleteClientFails, SetGrants, SetGrantsFails, TypeOK
<1>2. ASSUME NEW event, Pending(w, event, c) \/ CutOff(event, c)
      PROVE  Accounted([event |-> event, clientId |-> c, serial |-> s])'
  BY <1>2 DEF Pending, CutOff, NewEntry, Accounted, TypeOK
<1>3. CASE RegisterClient(w, c) \/ RegisterClientFails(w, c)
  <2>1. n = s
    BY <1>3 DEF RegisterClient, RegisterClientFails, Register, TypeOK
  <2>2. Accounted([event |-> "client.registered", clientId |-> c, serial |-> s])'
    BY <1>2, <1>3 DEF RegisterClient, RegisterClientFails
  <2> QED
    BY <1>1, <2>1, <2>2 DEF Explained
<1>4. CASE SetGrants(w, c) \/ SetGrantsFails(w, c)
  <2>1. n = s
    BY <1>4 DEF SetGrants, SetGrantsFails, SetAuthorization, TypeOK
  <2>2. Accounted([event |-> "client.grants_set", clientId |-> c, serial |-> s])'
    BY <1>2, <1>4 DEF SetGrants, SetGrantsFails
  <2> QED
    BY <1>1, <2>1, <2>2 DEF Explained
<1>5. CASE DeleteClient(w, c) \/ DeleteClientFails(w, c)
  <2>1. n = 0
    BY <1>5 DEF DeleteClient, DeleteClientFails, Remove, TypeOK
  <2>2. Accounted([event |-> "client.removed", clientId |-> c, serial |-> s])'
    BY <1>2, <1>5 DEF DeleteClient, DeleteClientFails
  <2> QED
    BY <1>1, <2>1, <2>2 DEF Explained
<1> QED
  BY <1>3, <1>4, <1>5 DEF Change

\* What AuditInv says of the registry.
RegistryInv ==
  /\ RegistryIsAudited
  /\ \A c \in ClientIds \ minted : clients[c] = 0 /\ clientsFile[c] = 0

\* A change of one client leaves every record explained, in memory and in the
\* document, whether its save returned or threw.
LEMMA ChangeStep ==
  ASSUME TypeOK, IInv, AuditInv, [Next]_vars, LogKept, TypeOK',
         NEW w \in Workers, NEW c \in ClientIds, Change(w, c)
  PROVE  RegistryInv'
<1>1. /\ up /\ minted' \in {minted, minted \union {c}} /\ c \in minted'
      /\ \A d \in ClientIds \ {c} : clients'[d] = clients[d]
      /\ clientsFile' \in {clientsFile, clients'}
  <2>1. CASE RegisterClient(w, c) \/ RegisterClientFails(w, c)
    BY <2>1 DEF RegisterClient, RegisterClientFails, Accept, Register, Persist, PersistFails, TypeOK
  <2>2. c \in minted \/ clients[c] = 0
    BY DEF AuditInv
  <2>3. CASE DeleteClient(w, c) \/ DeleteClientFails(w, c)
    BY <2>2, <2>3 DEF DeleteClient, DeleteClientFails, Accept, Remove, Persist, PersistFails, TypeOK
  <2>4. CASE SetGrants(w, c) \/ SetGrantsFails(w, c)
    BY <2>2, <2>4 DEF SetGrants, SetGrantsFails, Accept, SetAuthorization, Persist, PersistFails, TypeOK
  <2> QED
    BY <2>1, <2>3, <2>4 DEF Change
<1>2. ASSUME NEW d \in minted, NEW n, n = clientsFile[d] \/ n = clients[d]
      PROVE  Explained(d, n)'
  <2>1. d \in ClientIds /\ n \in 0 .. MaxRequests
    BY <1>2 DEF TypeOK
  <2>2. Explained(d, n)
    BY <1>1, <1>2 DEF AuditInv, RegistryIsAudited
  <2> QED
    BY <2>1, <2>2, ExplainedStays
<1>3. ASSUME NEW n, n = clients'[c]
      PROVE  Explained(c, n)'
  BY <1>3, ChangeExplained
<1>4. ASSUME NEW n, n = clientsFile'[c]
      PROVE  Explained(c, n)'
  <2>1. CASE clientsFile' = clients'
    BY <1>3, <1>4, <2>1
  <2>2. CASE clientsFile' = clientsFile /\ c \in minted
    BY <1>2, <1>4, <2>2
  <2>3. CASE clientsFile' = clientsFile /\ clientsFile' # clients' /\ c \notin minted
    <3>1. n = 0 /\ clients[c] = 0
      BY <1>4, <2>3 DEF AuditInv
    <3>2. RegisterClientFails(w, c)
      BY <2>3, <3>1 DEF Change, RegisterClient, DeleteClient, DeleteClientFails, SetGrants,
                        SetGrantsFails, Remove, SetAuthorization, Persist
    <3>3. /\ [event |-> "client.registered", clientId |-> c, serial |-> served'] \in cut'
          /\ served' \in 1 .. served'
      BY <3>2, HandlersAssumption DEF RegisterClientFails, Accept, CutOff, NewEntry, TypeOK
    <3> QED
      BY <3>1, <3>3 DEF Explained
  <2> QED
    BY <1>1, <2>1, <2>2, <2>3
<1>5. ASSUME NEW d \in minted', NEW n, n = clientsFile'[d] \/ n = clients'[d]
      PROVE  Explained(d, n)'
  <2>1. CASE d = c
    BY <1>3, <1>4, <1>5, <2>1
  <2>2. CASE d # c
    <3>1. d \in minted /\ d \in ClientIds
      BY <1>1, <2>2 DEF TypeOK
    <3>2. n = clientsFile[d] \/ n = clients[d]
      BY <1>1, <1>5, <2>2, <3>1
    <3> QED
      BY <1>2, <3>1, <3>2
  <2> QED
    BY <2>1, <2>2
<1>6. RegistryIsAudited'
  BY <1>5 DEF RegistryIsAudited
<1>7. \A d \in ClientIds \ minted' : clients'[d] = 0 /\ clientsFile'[d] = 0
  BY <1>1 DEF AuditInv
<1> QED
  BY <1>6, <1>7 DEF RegistryInv

\* A step that leaves the document alone, and the registry, unless it starts or
\* ends the process.
LEMMA UnchangedStep ==
  ASSUME TypeOK, IInv, AuditInv, [Next]_vars, LogKept, TypeOK',
         UNCHANGED <<clientsFile, minted>>,
         \/ clients' = clients /\ up' = up
         \/ clients' = clientsFile
         \/ clients' = NoClients /\ ~up'
  PROVE  RegistryInv'
<1>1. ASSUME NEW d \in minted', NEW n, n = clientsFile'[d] \/ (up' /\ n = clients'[d])
      PROVE  Explained(d, n)'
  <2>1. d \in ClientIds /\ d \in minted /\ n \in 0 .. MaxRequests
    BY <1>1 DEF TypeOK
  <2>2. n = clientsFile[d] \/ (up /\ n = clients[d])
    BY <1>1
  <2>3. Explained(d, n)
    BY <2>1, <2>2 DEF AuditInv, RegistryIsAudited
  <2> QED
    BY <2>1, <2>3, ExplainedStays
<1>2. RegistryIsAudited'
  BY <1>1 DEF RegistryIsAudited
<1>3. \A d \in ClientIds \ minted' : clients'[d] = 0 /\ clientsFile'[d] = 0
  BY DEF AuditInv, NoClients
<1> QED
  BY <1>2, <1>3 DEF RegistryInv

\* Every step keeps the log, and the registry explained by it.
LEMMA AuditStep ==
  ASSUME TypeOK, IInv, AuditInv, [Next]_vars, TypeOK'
  PROVE  AuditInv' /\ Extends(auditFile', auditFile)
<1>1. LogKept
  BY LogStep
<1>2. ASSUME NEW w \in Workers, NEW c \in ClientIds, Change(w, c)
      PROVE  RegistryInv'
  BY <1>1, <1>2, ChangeStep
<1>3. ASSUME ~ \E w \in Workers, c \in ClientIds : Change(w, c)
      PROVE  RegistryInv'
  <2>1. /\ UNCHANGED <<clientsFile, minted>>
        /\ \/ clients' = clients /\ up' = up
           \/ clients' = clientsFile
           \/ clients' = NoClients /\ ~up'
    BY <1>3 DEF Change, Next, Start, Crash, ClientsLoad, ClientsForget, registry, DeleteUnknown,
                AskToken, ChangeElsewhere, IssueToken, RefuseToken, Answer, AuditFails, vars
  <2> QED
    BY <1>1, <2>1, UnchangedStep
<1>4. RegistryInv'
  BY <1>2, <1>3
<1> QED
  BY <1>1, <1>4 DEF LogKept, RegistryInv, AuditInv

LEMMA AuditInvariant == Spec => []AuditInv
<1>1. Init => AuditInv
  BY DEF Init, ClientsInit, NoClients, AuditInit, AuditInv, AnswersAreAudited, RegistryIsAudited
<1> QED
  BY <1>1, AuditStep, TypeCorrect, InductiveInvariant, PTL DEF Spec

\* Every answer is in the stored audit log.
THEOREM AnswersAudited == Spec => []AnswersAreAudited
<1>1. AuditInv => AnswersAreAudited
  BY DEF AuditInv
<1> QED
  BY <1>1, AuditInvariant, PTL

\* What the registry and its document hold has its entries in the stored audit
\* log, or a request is about to put them there, but for crashes, and failed
\* saves of the log or of the change itself.
THEOREM RegistryAudited == Spec => []RegistryIsAudited
<1>1. AuditInv => RegistryIsAudited
  BY DEF AuditInv
<1> QED
  BY <1>1, AuditInvariant, PTL

\* The stored audit log only grows.
THEOREM AppendOnly == Spec => AuditAppendOnly
<1>1. TypeOK /\ IInv /\ AuditInv /\ TypeOK' /\ [Next]_vars => [Extends(auditFile', auditFile)]_vars
  BY AuditStep
<1> QED
  BY <1>1, TypeCorrect, InductiveInvariant, AuditInvariant, PTL DEF Spec, AuditAppendOnly

-----------------------------------------------------------------------------
(* Clients that a DELETE does not find, while every save succeeds.         *)

\* The registry is its document, and who was told to be unknown stays so.
SavedInv ==
  /\ up => clients = clientsFile
  /\ told \subseteq minted
  /\ UnknownStaysUnknown

LEMMA SavedStep ==
  ASSUME ~SaveMayFail, TypeOK, SavedInv, [Next]_vars
  PROVE  SavedInv'
<1>1. CASE Start \/ Crash
  BY <1>1 DEF SavedInv, Start, Crash, ClientsLoad, ClientsForget, UnknownStaysUnknown
<1>2. ASSUME NEW w \in Workers, NEW c \in ClientIds, Handle(w, c)
      PROVE  SavedInv'
  <2>1. up /\ up' /\ clients = clientsFile /\ served + 1 # 0 /\ served' = served + 1
    BY <1>2, HandlersAssumption
    DEF Handle, Accept, RegisterClient, RegisterClientFails, DeleteClient, DeleteClientFails,
        DeleteUnknown, SetGrants, SetGrantsFails, AskToken, SavedInv, TypeOK
  <2>2. CASE RegisterClient(w, c)
    <3>1. /\ c \notin told /\ told' = told /\ minted \subseteq minted'
          /\ clients' = [clients EXCEPT ![c] = served'] /\ clientsFile' = clients'
      BY <2>2 DEF RegisterClient, Register, Persist, SavedInv
    <3> QED
      BY <2>1, <3>1 DEF SavedInv, UnknownStaysUnknown, TypeOK
  <2>3. CASE DeleteClient(w, c)
    <3>1. /\ told' = told /\ minted' = minted
          /\ clients' = [clients EXCEPT ![c] = 0] /\ clientsFile' = clients'
      BY <2>3 DEF DeleteClient, Remove, Persist
    <3> QED
      BY <2>1, <3>1 DEF SavedInv, UnknownStaysUnknown, TypeOK
  <2>4. CASE DeleteUnknown(w, c)
    <3>1. /\ c \in minted /\ clientsFile[c] = 0 /\ told' = told \union {c}
          /\ UNCHANGED <<clients, clientsFile, minted>>
      BY <2>1, <2>4 DEF DeleteUnknown, registry
    <3> QED
      BY <2>1, <3>1 DEF SavedInv, UnknownStaysUnknown
  <2>5. CASE SetGrants(w, c)
    <3>1. /\ clients[c] # 0 /\ told' = told /\ minted' = minted
          /\ clients' = [clients EXCEPT ![c] = served'] /\ clientsFile' = clients'
      BY <2>5 DEF SetGrants, SetAuthorization, Persist
    <3>2. c \notin told
      BY <2>1, <3>1 DEF SavedInv, UnknownStaysUnknown
    <3> QED
      BY <2>1, <3>1, <3>2 DEF SavedInv, UnknownStaysUnknown, TypeOK
  <2>6. CASE AskToken(w, c)
    BY <2>1, <2>6 DEF AskToken, registry, SavedInv, UnknownStaysUnknown
  <2> QED
    BY <1>2, <2>2, <2>3, <2>4, <2>5, <2>6
    DEF Handle, RegisterClientFails, DeleteClientFails, SetGrantsFails
<1>3. CASE \/ \E w \in Workers : Proceed(w)
           \/ \E w \in Workers, event \in Elsewhere : ChangeElsewhere(w, event)
           \/ UNCHANGED vars
  <2>1. UNCHANGED <<clients, clientsFile, minted, told, up>>
    BY <1>3
    DEF Proceed, IssueToken, RefuseToken, Answer, AuditFails, ChangeElsewhere, vars, registry
  <2> QED
    BY <2>1 DEF SavedInv, UnknownStaysUnknown
<1> QED
  BY <1>1, <1>2, <1>3 DEF Next, Handle, Proceed

\* A DELETE misleads only after a save that failed: while none fails, a client it
\* answers 404 for is not in the document, whatever crashes and overlaps.
THEOREM UnknownUnlessSaveFails ==
  ASSUME ~SaveMayFail
  PROVE  Spec => []UnknownStaysUnknown
<1>1. Init => SavedInv
  BY DEF Init, ClientsInit, SavedInv, UnknownStaysUnknown
<1>2. TypeOK /\ SavedInv /\ [Next]_vars => SavedInv'
  BY SavedStep
<1>3. SavedInv => UnknownStaysUnknown
  BY DEF SavedInv
<1> QED
  BY <1>1, <1>2, <1>3, TypeCorrect, PTL DEF Spec

=============================================================================
