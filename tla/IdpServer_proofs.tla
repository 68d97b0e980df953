--------------------------- MODULE IdpServer_proofs ---------------------------
(***************************************************************************)
(* Theorems about the process, its configuration and its requests, for     *)
(* every environment, command line, path, method and content of requests,  *)
(* and whenever the process fails or is stopped.                           *)
(***************************************************************************)
EXTENDS IdpServer, Grants_proofs, SequenceTheorems, TLAPS

LEMMA Docs ==
  /\ Len(Order) = 4 /\ Documents = {"clients", "signing-keys", "revocations", "audit"}
  /\ \A i \in 1 .. 4 : Order[i] \in Documents
  /\ Documents = {Order[i] : i \in 1 .. 4}
<1>1. Len(Order) = 4 /\ DOMAIN Order = 1 .. 4
  BY DEF Order
<1>2. /\ Order[1] = "clients" /\ Order[2] = "signing-keys"
      /\ Order[3] = "revocations" /\ Order[4] = "audit"
  BY DEF Order
<1>3. \A i \in 1 .. 4 : i = 1 \/ i = 2 \/ i = 3 \/ i = 4
  OBVIOUS
<1>4. Documents = {Order[i] : i \in 1 .. 4}
  BY <1>1 DEF Documents, ToSet
<1>5. Documents = {"clients", "signing-keys", "revocations", "audit"}
  <2>1. {Order[i] : i \in 1 .. 4} \subseteq {"clients", "signing-keys", "revocations", "audit"}
    BY <1>2, <1>3
  <2>2. /\ Order[1] \in {Order[i] : i \in 1 .. 4} /\ Order[2] \in {Order[i] : i \in 1 .. 4}
        /\ Order[3] \in {Order[i] : i \in 1 .. 4} /\ Order[4] \in {Order[i] : i \in 1 .. 4}
    OBVIOUS
  <2> QED
    BY <1>2, <1>4, <2>1, <2>2
<1> QED
  BY <1>1, <1>4, <1>5

-----------------------------------------------------------------------------
(* The data directory through starts and stops.                            *)

Documented ==
  /\ DOMAIN files = Documents /\ DOMAIN before = Documents
  /\ \A d \in Documents : files[d] \in Contents(d) /\ before[d] \in Contents(d)

\* What the documents may differ in from those the start found.
OnlyMints ==
  \A d \in Documents : \/ files[d] = before[d]
                       \/ d = "signing-keys" /\ before[d] \in NoActiveKey /\ files[d] = "good"

\* The inductive invariant of the start.
StartInv ==
  /\ phase \in Phases /\ built \in 0 .. 4
  /\ Documented
  /\ phase # "down" => exit = 0
  /\ phase # "serving" => OnlyMints
  /\ phase \in {"building", "binding", "serving"} => \A i \in 1 .. built : files[Order[i]] # "garbled"
  /\ phase \in {"binding", "serving"} => built = 4
  /\ phase \in {"down", "resolving", "authenticating"} => built = 0

\* A constructor has read, or written, the next document.
LEMMA BuiltInv ==
  ASSUME StartInv, NEW d \in Documents, NextToBuild(d), Built,
         \/ UNCHANGED files /\ files[d] # "garbled"
         \/ d = "signing-keys" /\ files[d] \in NoActiveKey /\ files' = [files EXCEPT ![d] = "good"]
  PROVE  StartInv'
<1>1. /\ phase = "building" /\ built \in 0 .. 3 /\ d = Order[built + 1] /\ built' = built + 1
      /\ phase' = (IF built' = 4 THEN "binding" ELSE phase)
      /\ UNCHANGED <<before, exit>>
  BY Docs DEF NextToBuild, Built, StartInv
<1>2. Documented' /\ files'[d] # "garbled"
      /\ \A e \in Documents \ {d} : files'[e] = files[e]
  BY <1>1 DEF StartInv, Documented, Contents
<1>3. OnlyMints'
  BY <1>1, <1>2 DEF StartInv, OnlyMints, Documented
<1>4. ASSUME NEW i \in 1 .. built'
      PROVE  files'[Order[i]] # "garbled"
  <2>1. CASE i = built + 1
    BY <1>1, <1>2, <2>1
  <2>2. CASE i \in 1 .. built
    <3>1. files[Order[i]] # "garbled" /\ Order[i] \in Documents
      BY <1>1, <2>2, Docs DEF StartInv
    <3> QED
      BY <1>2, <3>1
  <2> QED
    BY <1>1, <2>1, <2>2
<1>5. phase' \in Phases /\ built' \in 0 .. 4 /\ (phase' \in {"binding", "serving"} => built' = 4)
      /\ exit' = 0 /\ phase' \in {"building", "binding"}
  BY <1>1 DEF StartInv, Phases
<1> QED
  BY <1>1, <1>2, <1>3, <1>4, <1>5 DEF StartInv

\* The process ends, with the documents as they are, or a key minted.
LEMMA EndInv ==
  ASSUME StartInv, NEW code, End(code), OnlyMints', Documented'
  PROVE  StartInv'
BY DEF StartInv, End, Phases

\* Every step of the process preserves the invariant.
LEMMA StartStep ==
  ASSUME StartInv, [ServerNext]_serverVars
  PROVE  StartInv'
<1>1. ASSUME NEW d \in Documents, NEW content \in Contents(d), Edit(d, content)
      PROVE  StartInv'
  <2>1. Documented'
    BY <1>1 DEF Edit, StartInv, Documented
  <2> QED
    BY <1>1, <2>1 DEF Edit, StartInv, OnlyMints
<1>2. ASSUME NEW e \in Environments, Launch(e)
      PROVE  StartInv'
  BY <1>2 DEF Launch, StartInv, OnlyMints, Documented, Phases
<1>3. CASE Configure
  BY <1>3 DEF Configure, StartInv, OnlyMints, Documented, Phases
<1>4. CASE ConfigRefused
  <2>1. OnlyMints' /\ Documented'
    BY <1>4 DEF ConfigRefused, StartInv, OnlyMints, Documented
  <2> QED
    BY <1>4, <2>1, EndInv DEF ConfigRefused, StartInv
<1>5. ASSUME NEW envToken, NEW fileToken, ResolveAdminToken(envToken, fileToken)
      PROVE  StartInv'
  <2>1. phase = "authenticating" /\ OnlyMints' /\ Documented' /\ UNCHANGED <<files, before>>
    BY <1>5 DEF ResolveAdminToken, StartInv, OnlyMints, Documented
  <2>2. CASE phase' = "building" /\ UNCHANGED <<built, exit>>
    <3>1. built = 0 /\ \A i \in 1 .. 0 : files'[Order[i]] # "garbled"
      BY <2>1 DEF StartInv
    <3> QED
      BY <2>1, <2>2, <3>1 DEF StartInv, Phases
  <2>3. CASE \E code : End(code)
    BY <2>1, <2>3, EndInv DEF StartInv
  <2> QED
    BY <1>5, <2>2, <2>3 DEF ResolveAdminToken
<1>6. ASSUME NEW d \in Documents, Build(d)
      PROVE  StartInv'
  BY <1>6, BuiltInv DEF Build
<1>7. ASSUME NEW d \in Documents, BuildFails(d)
      PROVE  StartInv'
  <2>1. OnlyMints' /\ Documented'
    BY <1>7 DEF BuildFails, NextToBuild, StartInv, OnlyMints, Documented
  <2> QED
    BY <1>7, <2>1, EndInv DEF BuildFails, StartInv
<1>8. CASE BuildMinting
  BY <1>8, BuiltInv, Docs DEF BuildMinting
<1>9. CASE MintingFails
  <2>1. /\ files["signing-keys"] \in NoActiveKey /\ End(1) /\ UNCHANGED before
        /\ files' = files \/ files' = [files EXCEPT !["signing-keys"] = "good"]
        /\ OnlyMints /\ Documented
    BY <1>9 DEF MintingFails, NextToBuild, StartInv
  <2>2. Documented'
    BY <2>1 DEF Documented, Contents
  <2>3. OnlyMints'
    BY <2>1, Docs DEF OnlyMints, Documented
  <2> QED
    BY <2>1, <2>2, <2>3, EndInv DEF StartInv
<1>10. CASE Bind
  BY <1>10 DEF Bind, StartInv, OnlyMints, Documented, Phases
<1>11. CASE BindFails
  <2>1. OnlyMints' /\ Documented' /\ \E code : End(code)
    BY <1>11 DEF BindFails, StartInv, OnlyMints, Documented
  <2> QED
    BY <2>1, EndInv DEF StartInv
<1>12. CASE Serve
  <2>1. /\ phase = "serving" /\ UNCHANGED <<phase, built, before, exit>>
        /\ files' = [d \in Documents |-> IF d \in ToSet(exchange'.saved) THEN "good" ELSE files[d]]
    BY <1>12 DEF Serve
  <2>2. Documented' /\ \A d \in Documents : files'[d] \in {"good", files[d]}
    BY <2>1 DEF StartInv, Documented, Contents
  <2>3. \A i \in 1 .. built : files'[Order[i]] # "garbled"
    BY <2>1, <2>2, Docs DEF StartInv
  <2> QED
    BY <2>1, <2>2, <2>3 DEF StartInv
<1>13. CASE Stop
  <2>1. End(0) /\ files' = files /\ before' = files
    BY <1>13 DEF Stop
  <2>2. OnlyMints' /\ Documented'
    BY <2>1 DEF OnlyMints, StartInv, Documented
  <2> QED
    BY <2>1, <2>2, EndInv DEF StartInv
<1>14. CASE UNCHANGED serverVars
  BY <1>14 DEF serverVars, processVars, StartInv, OnlyMints, Documented
<1> QED
  BY <1>1, <1>2, <1>3, <1>4, <1>5, <1>6, <1>7, <1>8, <1>9, <1>10, <1>11, <1>12, <1>13, <1>14
  DEF ServerNext

LEMMA StartInvariant == ServerSpec => []StartInv
<1>1. ServerInit => StartInv
  BY DEF ServerInit, StartInv, OnlyMints, Documented, Contents, Phases
<1> QED
  BY <1>1, StartStep, PTL DEF ServerSpec

\* A start that fails leaves the data directory as it found it, but for a signing
\* key minted where there was no active one.
THEOREM FailedStarts == ServerSpec => []FailedStartOnlyMints
<1>1. StartInv => FailedStartOnlyMints
  BY DEF StartInv, FailedStartOnlyMints, OnlyMints
<1> QED
  BY <1>1, StartInvariant, PTL

\* No step of the process writes over a document that it cannot read: once it
\* serves, it has read all of them.
THEOREM GarbledStays == ServerSpec => GarbledKept
<1> DEFINE Kept == \A d \in Documents : phase # "down" /\ files[d] = "garbled" => files'[d] = "garbled"
<1>1. StartInv /\ [ServerNext]_serverVars => [Kept]_serverVars
  <2> SUFFICES ASSUME StartInv, ServerNext, NEW d \in Documents, phase # "down", files[d] = "garbled"
               PROVE  files'[d] = "garbled"
    OBVIOUS
  <2>1. CASE BuildMinting \/ MintingFails
    BY <2>1, Docs DEF BuildMinting, MintingFails, StartInv, Documented, NoActiveKey
  <2>2. ~Serve
    BY Docs DEF Serve, StartInv
  <2> QED
    BY <2>1, <2>2
    DEF ServerNext, Edit, Launch, Configure, ConfigRefused, ResolveAdminToken, Build, BuildFails,
        Bind, BindFails, Stop
<1> QED
  BY <1>1, StartInvariant, PTL DEF ServerSpec, GarbledKept

-----------------------------------------------------------------------------
(* Requests.                                                               *)

Fields == {"pc", "method", "path", "cursor", "wrongMethod", "content", "authorization",
           "saved", "status"}

\* What a request carries at each point of its way.
RequestInv ==
  exchange # NoExchange =>
    /\ DOMAIN exchange = Fields
    /\ exchange.pc \in {"routing", "handling"} =>
         exchange.saved = <<>> /\ exchange.content = {} /\ exchange.status = 0
    /\ exchange.pc = "saving" => exchange.status = 0
    /\ RefusedChangesNothing

\* The loop stands at a route, which the handler found is of.
RoutedInv ==
  exchange # NoExchange =>
    /\ exchange.cursor \in Nat
    /\ exchange.pc \in {"routing", "handling", "saving"} => exchange.cursor \in 1 .. Len(Routes) + 1
    /\ exchange.pc \in {"handling", "saving"} =>
         exchange.cursor <= Len(Routes) /\ Match(Current.segments, exchange.path)

\* AdminGuarded, also for a request that is about to save.
GuardInv ==
  exchange # NoExchange /\ exchange.path[1] = "admin"
    /\ (exchange.pc = "saving" \/ exchange.saved # <<>> \/ exchange.status \in {200, 201, 204}) =>
      \A q \in exchange.content : q.bearer = "admin"

\* The handlers of the routes under /admin.
AdminHandlers == {"registerClient", "listClients", "deleteClient", "setGrants", "rotateKeys",
                  "revoke", "listRevocations", "auditLog"}

LEMMA RouteCount == Len(Routes) = 17 /\ DOMAIN Routes = 1 .. 17
<1>1. \E c1, c2, c3, c4, c5, c6, c7, c8, c9, c10, c11, c12, c13, c14, c15, c16, c17 :
        Routes = <<c1, c2, c3, c4, c5, c6, c7, c8, c9, c10, c11, c12, c13, c14, c15, c16, c17>>
  BY Zenon DEF Routes
<1> HIDE DEF Routes
<1> QED
  BY <1>1

\* Whatever matches a path under /admin is a route of an admin handler.
LEMMA AdminRoutes ==
  ASSUME NEW i \in 1 .. 17, NEW path, Match(Routes[i].segments, path), path[1] = "admin"
  PROVE  Routes[i].handler \in AdminHandlers
<1>1. /\ Routes[10].handler = "registerClient" /\ Routes[11].handler = "listClients"
      /\ Routes[12].handler = "deleteClient" /\ Routes[13].handler = "setGrants"
      /\ Routes[14].handler = "rotateKeys" /\ Routes[15].handler = "revoke"
      /\ Routes[16].handler = "listRevocations" /\ Routes[17].handler = "auditLog"
  BY DEF Routes, Route
<1>2. /\ Routes[1].segments[1] = "oauth" /\ Len(Routes[1].segments) = 2
      /\ Routes[2].segments[1] = ".well-known" /\ Len(Routes[2].segments) = 2
      /\ Routes[3].segments[1] = ".well-known" /\ Len(Routes[3].segments) = 2
      /\ Routes[4].segments[1] = "health" /\ Len(Routes[4].segments) = 1
      /\ Routes[5].segments[1] = "openapi.yaml" /\ Len(Routes[5].segments) = 1
      /\ Routes[6].segments[1] = "openapi.json" /\ Len(Routes[6].segments) = 1
      /\ Routes[7].segments[1] = "docs" /\ Len(Routes[7].segments) = 1
      /\ Routes[8].segments[1] = "docs" /\ Len(Routes[8].segments) = 2
      /\ Routes[9].segments[1] = "docs" /\ Len(Routes[9].segments) = 2
  BY DEF Routes, Route
<1>3. CASE i \in 10 .. 17
  <2>1. i = 10 \/ i = 11 \/ i = 12 \/ i = 13 \/ i = 14 \/ i = 15 \/ i = 16 \/ i = 17
    BY <1>3
  <2> QED
    BY <1>1, <2>1 DEF AdminHandlers
<1>4. CASE i \in 1 .. 9
  <2>1. i = 1 \/ i = 2 \/ i = 3 \/ i = 4 \/ i = 5 \/ i = 6 \/ i = 7 \/ i = 8 \/ i = 9
    BY <1>4
  <2>2. Routes[i].segments[1] \in {"oauth", ".well-known", "health", "openapi.yaml", "openapi.json", "docs"}
    BY <1>2, <2>1, Zenon
  <2>3. Len(Routes[i].segments) = 1 \/ Len(Routes[i].segments) = 2
    BY <1>2, <2>1, Zenon
  <2>4. 1 \in 1 .. Len(Routes[i].segments)
    BY ONLY <2>3
  <2>5. Routes[i].segments[1] \in {"{id}", path[1]}
    BY <2>4, Zenon DEF Match
  <2> QED
    BY <2>2, <2>5
<1> QED
  BY <1>3, <1>4

\* No check objects with 0, so a request that goes on has passed them all, and
\* the first check of an admin handler is of the token.
LEMMA AdminPasses ==
  ASSUME NEW h \in AdminHandlers, NEW q, Answers(HandlerChecks(h, q), 0, 0)
  PROVE  q.bearer = "admin"
<1>1. \A fails, code : code # 0 => 0 \notin Check(fails, code)
  BY DEF Check
<1>2. 0 \notin Admin(q) /\ 0 \notin Parsed(q) /\ 0 \notin NotNull(q) /\ 0 \notin Valid(q)
      /\ 0 \notin ValidGrants(q) /\ 0 \notin Known(q)
  BY <1>1 DEF Admin, Parsed, NotNull, Valid, Known, ValidGrants, ClaimObjection
<1>3. SUFFICES Admin(q) = {}
  BY <1>3 DEF Admin, Check
<1> DEFINE cs == HandlerChecks(h, q)
<1>4. cs[1] = Admin(q) /\ 1 \in DOMAIN cs /\ \A i \in DOMAIN cs : 0 \notin cs[i]
  <2>1. CASE h = "registerClient"
    <3>1. cs = <<Admin(q), Parsed(q), NotNull(q), ValidGrants(q)>>
      BY <2>1, Zenon DEF HandlerChecks
    <3> HIDE DEF cs
    <3> QED
      BY <1>2, <3>1
  <2>2. CASE h = "revoke"
    <3>1. cs = <<Admin(q), Parsed(q), NotNull(q), Valid(q)>>
      BY <2>2 DEF HandlerChecks
    <3> HIDE DEF cs
    <3> QED
      BY <1>2, <3>1
  <2>3. CASE h = "setGrants"
    <3>1. cs = <<Admin(q), Parsed(q), ValidGrants(q), Known(q)>>
      BY <2>3 DEF HandlerChecks
    <3> HIDE DEF cs
    <3> QED
      BY <1>2, <3>1
  <2>4. CASE h = "deleteClient"
    <3>1. cs = <<Admin(q), Known(q)>>
      BY <2>4 DEF HandlerChecks
    <3> HIDE DEF cs
    <3> QED
      BY <1>2, <3>1
  <2>5. CASE h \in {"rotateKeys", "listClients", "listRevocations", "auditLog"}
    <3>1. cs = <<Admin(q)>>
      BY <2>5 DEF HandlerChecks
    <3> HIDE DEF cs
    <3> QED
      BY <1>2, <3>1
  <2> QED
    BY <2>1, <2>2, <2>3, <2>4, <2>5 DEF AdminHandlers
<1> QED
  BY <1>4 DEF Answers

\* One step of a request.
LEMMA RouterStep ==
  ASSUME RequestInv, RoutedInv, GuardInv, RouterNext
  PROVE  RequestInv' /\ RoutedInv' /\ GuardInv'
<1> DEFINE Inv == RequestInv /\ RoutedInv /\ GuardInv
<1>1. ASSUME NEW method \in Methods, NEW path \in Paths, Receive(method, path)
      PROVE  Inv'
  <2>1. /\ exchange'.pc = "routing" /\ exchange'.saved = <<>> /\ exchange'.content = {}
        /\ exchange'.status = 0 /\ exchange'.cursor = 1 /\ DOMAIN exchange' = Fields
    BY <1>1 DEF Receive, Fields
  <2> QED
    BY <2>1, RouteCount DEF RequestInv, RoutedInv, GuardInv, RefusedChangesNothing, In
<1>2. CASE RouteNext
  <2>1. /\ exchange # NoExchange /\ exchange.pc = "routing" /\ exchange.cursor \in 1 .. 17
        /\ DOMAIN exchange = Fields
        /\ exchange.saved = <<>> /\ exchange.content = {} /\ exchange.status = 0
    BY <1>2, RouteCount DEF RouteNext, In, RequestInv, RoutedInv
  <2>2. CASE exchange' = [exchange EXCEPT !.pc = "handling"] /\ Match(Current.segments, exchange.path)
    <3>1. /\ exchange'.pc = "handling" /\ exchange'.saved = <<>> /\ exchange'.content = {}
          /\ exchange'.status = 0 /\ exchange'.cursor = exchange.cursor /\ DOMAIN exchange' = Fields
          /\ exchange'.path = exchange.path
      BY <2>1, <2>2 DEF Fields
    <3> QED
      BY <2>1, <2>2, <3>1, RouteCount
      DEF RequestInv, RoutedInv, GuardInv, RefusedChangesNothing, In, Current
  <2>3. CASE \E w : exchange' = [exchange EXCEPT !.cursor = @ + 1, !.wrongMethod = w]
    <3>1. /\ exchange'.pc = "routing" /\ exchange'.saved = <<>> /\ exchange'.content = {}
          /\ exchange'.status = 0 /\ exchange'.cursor = exchange.cursor + 1 /\ DOMAIN exchange' = Fields
      BY <2>1, <2>3 DEF Fields
    <3> QED
      BY <2>1, <3>1, RouteCount DEF RequestInv, RoutedInv, GuardInv, RefusedChangesNothing, In
  <2> QED
    BY <1>2, <2>2, <2>3 DEF RouteNext
<1>3. CASE RouteEnd
  <2>1. /\ exchange # NoExchange /\ DOMAIN exchange = Fields /\ exchange.cursor \in Nat
        /\ exchange.saved = <<>> /\ exchange.content = {}
    BY <1>3 DEF RouteEnd, In, RequestInv, RoutedInv
  <2>2. /\ exchange'.pc = "answered" /\ exchange'.saved = <<>> /\ exchange'.content = {}
        /\ exchange'.cursor = exchange.cursor /\ DOMAIN exchange' = Fields
    BY <1>3, <2>1 DEF RouteEnd, Answered, Fields
  <2> QED
    BY <2>1, <2>2 DEF RequestInv, RoutedInv, GuardInv, RefusedChangesNothing
<1>4. ASSUME NEW q, Handle(q)
      PROVE  Inv'
  <2>1. PICK answer \in {0, 400, 401, 404, 500} :
          /\ Answers(HandlerChecks(Current.handler, q), 0, answer)
          /\ exchange' = [exchange EXCEPT
               !.pc = IF answer = 0 THEN "saving" ELSE "answered",
               !.content = {q},
               !.authorization = IF answer = 0 /\ Current.handler \in Granting
                                 THEN ToAuthorization(q.claim) ELSE Null,
               !.status = answer]
    BY <1>4 DEF Handle
  <2>2. /\ exchange # NoExchange /\ DOMAIN exchange = Fields /\ exchange.cursor \in 1 .. 17
        /\ Match(Current.segments, exchange.path) /\ exchange.saved = <<>>
    BY <1>4, RouteCount DEF Handle, In, RequestInv, RoutedInv
  <2>3. /\ exchange'.pc = IF answer = 0 THEN "saving" ELSE "answered"
        /\ exchange'.saved = <<>> /\ exchange'.content = {q} /\ exchange'.status = answer
        /\ exchange'.cursor = exchange.cursor /\ exchange'.path = exchange.path
        /\ DOMAIN exchange' = Fields
    BY <2>1, <2>2 DEF Fields
  <2>4. RequestInv' /\ RoutedInv'
    BY <2>2, <2>3, RouteCount DEF RequestInv, RoutedInv, RefusedChangesNothing, In, Current
  <2>5. answer = 0 /\ exchange.path[1] = "admin" => q.bearer = "admin"
    <3> SUFFICES ASSUME answer = 0, exchange.path[1] = "admin"
                 PROVE  q.bearer = "admin"
      OBVIOUS
    <3>1. Match(Routes[exchange.cursor].segments, exchange.path)
      BY <2>2 DEF Current
    <3>2. Current.handler \in AdminHandlers
      BY <2>2, <3>1, AdminRoutes DEF Current
    <3>3. Answers(HandlerChecks(Current.handler, q), 0, 0)
      BY <2>1
    <3> QED
      BY <3>2, <3>3, AdminPasses
  <2>6. GuardInv'
    BY <2>3, <2>5 DEF GuardInv
  <2> QED
    BY <2>4, <2>6
<1>5. ASSUME NEW d \in Documents, Save(d) \/ SaveFails(d)
      PROVE  Inv'
  <2>1. /\ exchange # NoExchange /\ exchange.pc = "saving" /\ DOMAIN exchange = Fields
        /\ exchange.status = 0
    BY <1>5 DEF Save, SaveFails, Unsaved, In, RequestInv
  <2>2. /\ \/ exchange'.pc = "saving" /\ exchange'.status = 0
           \/ exchange'.pc = "answered" /\ exchange'.status = 500
        /\ exchange'.cursor = exchange.cursor /\ exchange'.path = exchange.path
        /\ exchange'.content = exchange.content /\ DOMAIN exchange' = Fields
    <3>1. CASE Save(d)
      BY <2>1, <3>1 DEF Save, Fields
    <3>2. CASE SaveFails(d)
      <4> DEFINE failed == Answered(500)
      <4>1. /\ failed.pc = "answered" /\ failed.status = 500 /\ DOMAIN failed = Fields
            /\ failed.cursor = exchange.cursor /\ failed.path = exchange.path
            /\ failed.content = exchange.content
        BY <2>1 DEF Answered, Fields
      <4>2. \E l : exchange' \in {failed, [failed EXCEPT !.saved = l]}
        BY <3>2 DEF SaveFails
      <4> HIDE DEF failed
      <4> QED
        BY <4>1, <4>2 DEF Fields
    <3> QED
      BY <1>5, <3>1, <3>2
  <2> QED
    <3>0. exchange'.pc = "saving" \/ (exchange'.pc = "answered" /\ exchange'.status \notin 400 .. 499)
      <4>1. 500 \notin 400 .. 499
        OBVIOUS
      <4> QED
        BY <2>2, <4>1, Zenon
    <3>1. RequestInv'
      BY <2>2, <3>0 DEF RequestInv, RefusedChangesNothing, In
    <3>2. RoutedInv'
      BY <2>1, <2>2 DEF RoutedInv, Current
    <3>3. GuardInv'
      BY <2>1, <2>2 DEF GuardInv
    <3> QED
      BY <3>1, <3>2, <3>3
<1>6. CASE Finish
  <2>1. /\ exchange # NoExchange /\ exchange.pc = "saving" /\ DOMAIN exchange = Fields
    BY <1>6 DEF Finish, In, RequestInv
  <2>2. Success(Current.handler) \in {200, 201, 204}
    BY DEF Success
  <2>3. /\ exchange'.pc = "answered" /\ exchange'.status \in {200, 201, 204}
        /\ exchange'.cursor = exchange.cursor /\ exchange'.path = exchange.path
        /\ exchange'.content = exchange.content /\ DOMAIN exchange' = Fields
    BY <1>6, <2>1, <2>2 DEF Finish, Answered, Fields
  <2> QED
    <3>0. exchange'.status \notin 400 .. 499
      <4>1. 200 \notin 400 .. 499 /\ 201 \notin 400 .. 499 /\ 204 \notin 400 .. 499
        OBVIOUS
      <4> QED
        BY <2>3, <4>1, Zenon
    <3>1. RequestInv'
      BY <2>3, <3>0 DEF RequestInv, RefusedChangesNothing, In
    <3>2. RoutedInv'
      BY <2>1, <2>3 DEF RoutedInv
    <3>3. GuardInv'
      BY <2>1, <2>3 DEF GuardInv
    <3> QED
      BY <3>1, <3>2, <3>3
<1> QED
  BY <1>1, <1>2, <1>3, <1>4, <1>5, <1>6 DEF RouterNext

LEMMA RequestInvariant == ServerSpec => [](RequestInv /\ RoutedInv /\ GuardInv)
<1> DEFINE Inv == RequestInv /\ RoutedInv /\ GuardInv
<1>1. ServerInit => Inv
  BY DEF ServerInit, RequestInv, RoutedInv, GuardInv
<1>2. Inv /\ [ServerNext]_serverVars => Inv'
  <2> SUFFICES ASSUME Inv, [ServerNext]_serverVars
               PROVE  Inv'
    OBVIOUS
  <2>1. CASE RouterNext
    BY <2>1, RouterStep
  <2>2. CASE exchange' = NoExchange
    BY <2>2 DEF RequestInv, RoutedInv, GuardInv
  <2>3. CASE exchange' = exchange
    BY <2>3 DEF RequestInv, RoutedInv, GuardInv, RefusedChangesNothing, In, Current
  <2> QED
    BY <2>1, <2>2, <2>3
    DEF ServerNext, serverVars, Edit, Launch, Configure, ConfigRefused, ResolveAdminToken,
        Build, BuildFails, BuildMinting, MintingFails, Built, Bind, BindFails, Serve, Stop, End
<1> QED
  BY <1>1, <1>2, PTL DEF ServerSpec

\* A request answered 4xx has saved nothing.
THEOREM RefusalsAreClean == ServerSpec => []RefusedChangesNothing
<1>1. RequestInv => RefusedChangesNothing
  BY DEF RequestInv, RefusedChangesNothing, In
<1> QED
  BY <1>1, RequestInvariant, PTL

\* Whatever a path under /admin is answered, nothing is saved and no success is
\* reported without the admin token.
THEOREM AdminIsGuarded == ServerSpec => []AdminGuarded
<1>1. GuardInv => AdminGuarded
  BY DEF GuardInv, AdminGuarded
<1> QED
  BY <1>1, RequestInvariant, PTL

-----------------------------------------------------------------------------
(* The configuration.                                                      *)

Value == Texts \union {Absent}
Flag == [flag : Options \union {Absent}, value : Value]

\* A flag that was given was given a last time.
FlagsHaveLast ==
  \A o : FlagsOf(o) # {} => \E i \in FlagsOf(o) : \A j \in FlagsOf(o) : j <= i

\* While resolve runs, its locals are what the arguments read so far, or else
\* the environment, say.
ConfigInv ==
  /\ args \in Seq(Flag) /\ FlagsHaveLast
  /\ env \in [Options -> Value] /\ given \in [Options -> Value]
  /\ config \in {Unresolved, Refused} \union Config
  /\ config = Unresolved => \A o \in Options : given[o] = Said(o)
  /\ ConfigAsDocumented

\* The values offered are texts, also when they are trimmed or stripped.
LEMMA OfferedValues ==
  /\ \A o \in Options : Offered[o] \subseteq Value
  /\ Environments \subseteq [Options -> Value]
  /\ "127.0.0.1" \in Texts /\ "8455" \in Texts
  /\ \A t \in Texts : Trim(t) \in Texts /\ StripTrailingSlash(t) \in Texts
<1>1. \A o \in Options : Offered[o] \subseteq Value
  BY DEF Texts, Value
<1>2. Environments \subseteq [Options -> Value]
  BY <1>1 DEF Environments, Value
<1> QED
  BY <1>1, <1>2 DEF Texts, Trim, StripTrailingSlash

\* Without arguments the environment has the say.
LEMMA SaidAtFirst ==
  ASSUME args = <<>>
  PROVE  FlagsHaveLast /\ \A o : Said(o) = EnvValue(env, o)
<1>1. DOMAIN args = {}
  OBVIOUS
<1>2. \A o : FlagsOf(o) = {}
  BY <1>1 DEF FlagsOf
<1> QED
  BY <1>2, Zenon DEF FlagsHaveLast, Said

\* An argument more is the last of its flag, and of no other.
LEMMA SaidAppend ==
  ASSUME args \in Seq(Flag), FlagsHaveLast,
         NEW f \in Flag, args' = Append(args, f), env' = env
  PROVE  /\ args' \in Seq(Flag) /\ FlagsHaveLast'
         /\ Said(f.flag)' = f.value /\ FlagsOf(f.flag)' # {}
         /\ \A o : o # f.flag => Said(o)' = Said(o)
<1>1. /\ args' \in Seq(Flag) /\ Len(args') = Len(args) + 1 /\ Len(args) \in Nat
      /\ \A i \in 1 .. Len(args) : args'[i] = args[i]
      /\ args'[Len(args) + 1] = f
      /\ DOMAIN args = 1 .. Len(args) /\ DOMAIN args' = 1 .. Len(args')
  BY AppendProperties
<1> DEFINE n == Len(args) + 1
<1>2. n \in FlagsOf(f.flag)' /\ \A j \in FlagsOf(f.flag)' : j \in 1 .. n
  BY <1>1 DEF FlagsOf
<1>3. Said(f.flag)' = f.value
  <2> DEFINE last == CHOOSE i \in FlagsOf(f.flag)' : \A j \in FlagsOf(f.flag)' : j <= i
  <2>1. \E i \in FlagsOf(f.flag)' : \A j \in FlagsOf(f.flag)' : j <= i
    BY <1>1, <1>2
  <2>2. last \in FlagsOf(f.flag)' /\ \A j \in FlagsOf(f.flag)' : j <= last
    BY <2>1
  <2>3. last = n
    BY <1>1, <1>2, <2>2
  <2>4. Said(f.flag)' = args'[last].value
    BY <1>2, Zenon DEF Said
  <2> QED
    BY <1>1, <2>3, <2>4
<1>4. ASSUME NEW o, o # f.flag
      PROVE  FlagsOf(o)' = FlagsOf(o) /\ Said(o)' = Said(o)
  <2>1. FlagsOf(o)' = FlagsOf(o)
    BY <1>1, <1>4 DEF FlagsOf
  <2>2. CASE FlagsOf(o) = {}
    BY <2>1, <2>2 DEF Said
  <2>3. CASE FlagsOf(o) # {}
    <3> DEFINE last == CHOOSE i \in FlagsOf(o) : \A j \in FlagsOf(o) : j <= i
    <3>1. Said(o) = args[last].value /\ Said(o)' = args'[last].value
      BY <2>1, <2>3, Zenon DEF Said
    <3>2. last \in FlagsOf(o)
      BY <2>3 DEF FlagsHaveLast
    <3>3. last \in 1 .. Len(args)
      BY <1>1, <3>2 DEF FlagsOf
    <3> QED
      BY <1>1, <2>1, <3>1, <3>3
  <2> QED
    BY <2>2, <2>3
<1>5. FlagsHaveLast'
  <2> SUFFICES ASSUME NEW o, FlagsOf(o)' # {}
               PROVE  \E i \in FlagsOf(o)' : \A j \in FlagsOf(o)' : j <= i
    BY Zenon DEF FlagsHaveLast
  <2>1. CASE o = f.flag
    BY <1>1, <1>2, <2>1
  <2>2. CASE o # f.flag
    BY <1>4, <2>2 DEF FlagsHaveLast
  <2> QED
    BY <2>1, <2>2
<1> QED
  BY <1>1, <1>2, <1>3, <1>4, <1>5

\* The numbers of an environment are trimmed, its texts are not.
LEMMA EnvValues ==
  ASSUME NEW e \in Environments, NEW o \in Options
  PROVE  EnvValue(e, o) \in Value
<1>1. e[o] \in Value
  BY OfferedValues
<1> QED
  BY <1>1, OfferedValues DEF EnvValue, Value

\* resolve reads the environment.
LEMMA EnvStep ==
  ASSUME NEW e \in Environments, ReadEnv(e)
  PROVE  ConfigInv'
<1>1. args' = <<>> /\ env' = e /\ given' = [o \in Options |-> EnvValue(e, o)]
  BY DEF ReadEnv
<1>2. FlagsHaveLast' /\ \A o : Said(o)' = EnvValue(e, o)
  <2>1. DOMAIN args' = {}
    BY <1>1
  <2>2. \A o : FlagsOf(o)' = {}
    BY <2>1 DEF FlagsOf
  <2> QED
    BY <1>1, <2>2, Zenon DEF FlagsHaveLast, Said
<1>3. args' \in Seq(Flag) /\ env' \in [Options -> Value] /\ given' \in [Options -> Value]
  BY <1>1, EnvValues, OfferedValues
<1>4. \A o \in Options : given'[o] = Said(o)'
  BY <1>1, <1>2
<1>5. CASE config' = Unresolved
  BY <1>2, <1>3, <1>4, <1>5, OfferedAssumption DEF ConfigInv, ConfigAsDocumented
<1>6. CASE config' = Refused
  <2>1. PICK o \in Options : ~Parses(o, EnvValue(e, o))
    BY <1>1, <1>6, OfferedAssumption DEF ReadEnv
  <2>2. ~Parses("port", EnvValue(e, "port"))
    BY <2>1 DEF Parses
  <2> QED
    BY <1>1, <1>2, <1>3, <1>6, <2>2, OfferedAssumption DEF ConfigInv, ConfigAsDocumented
<1> QED
  BY <1>5, <1>6 DEF ReadEnv

\* It reads a flag.
LEMMA FlagStep ==
  ASSUME ConfigInv, NEW o \in Options, NEW v \in Offered[o], ReadFlag(o, v)
  PROVE  ConfigInv'
<1> DEFINE f == [flag |-> o, value |-> v]
<1>1. v \in Value /\ f \in Flag /\ f.flag = o /\ f.value = v
  BY OfferedValues DEF Flag
<1>2. /\ config = Unresolved /\ args' = Append(args, f) /\ env' = env
      /\ args \in Seq(Flag) /\ FlagsHaveLast
  BY DEF ReadFlag, Resolving, ConfigInv
<1>3. /\ args' \in Seq(Flag) /\ FlagsHaveLast'
      /\ Said(o)' = v /\ \A p : p # o => Said(p)' = Said(p)
  <2> HIDE DEF f
  <2> QED
    BY <1>1, <1>2, SaidAppend
<1>4. CASE given' = [given EXCEPT ![o] = v] /\ config' = config
  <2>1. given' \in [Options -> Value] /\ \A p \in Options : given'[p] = Said(p)'
    BY <1>1, <1>2, <1>3, <1>4 DEF ConfigInv
  <2> QED
    BY <1>2, <1>3, <1>4, <2>1, OfferedAssumption DEF ConfigInv, ConfigAsDocumented
<1>5. CASE config' = Refused /\ given' = given /\ ~Parses(o, v)
  <2>1. ~Parses("port", Said("port")')
    BY <1>3, <1>5 DEF Parses
  <2> QED
    BY <1>2, <1>3, <1>5, <2>1, OfferedAssumption DEF ConfigInv, ConfigAsDocumented
<1> QED
  BY <1>4, <1>5 DEF ReadFlag

\* It refuses an argument.
LEMMA BadArgumentStep ==
  ASSUME ConfigInv, BadArgument
  PROVE  ConfigInv'
<1> DEFINE f == [flag |-> Absent, value |-> Absent]
<1>1. f \in Flag /\ f.flag = Absent
  BY DEF Flag, Value
<1>2. /\ args' = Append(args, f) /\ env' = env /\ given' = given /\ config' = Refused
      /\ args \in Seq(Flag) /\ FlagsHaveLast
  BY DEF BadArgument, ConfigInv
<1>3. args' \in Seq(Flag) /\ FlagsHaveLast' /\ FlagsOf(Absent)' # {}
  <2> HIDE DEF f
  <2> QED
    BY <1>1, <1>2, SaidAppend
<1> QED
  BY <1>2, <1>3, OfferedAssumption DEF ConfigInv, ConfigAsDocumented

\* It takes the defaults and checks the range.
LEMMA ResolveStep ==
  ASSUME ConfigInv, Resolve
  PROVE  ConfigInv'
<1>1. /\ config = Unresolved /\ UNCHANGED <<env, args, given>>
      /\ given["host"] = Said("host") /\ given["port"] = Said("port")
      /\ given["issuer"] = Said("issuer") /\ given["admin-token-file"] = Said("admin-token-file")
      /\ given["host"] \in Value /\ given["port"] \in Value
      /\ given["issuer"] \in Value /\ given["admin-token-file"] \in Value
  BY DEF Resolve, Resolving, ConfigInv, Options
<1> DEFINE host == TextOr(given["host"], "127.0.0.1")
           port == NumberOr(given["port"], "8455")
           issuer == IF TextOr(given["issuer"], Absent) # Absent
                     THEN <<StripTrailingSlash(given["issuer"])>> ELSE <<host, port>>
           resolved == [host |-> host, port |-> port, issuer |-> issuer,
                        tokenFile |-> given["admin-token-file"]]
<1>2. config' = IF port = "-1" THEN Refused ELSE resolved
  BY DEF Resolve
<1>3. \A o : FlagsOf(o)' = FlagsOf(o) /\ Said(o)' = Said(o)
  BY <1>1 DEF FlagsOf, Said
<1>4. FlagsHaveLast'
  BY <1>3, Zenon DEF FlagsHaveLast, ConfigInv
<1>5. CASE port = "-1"
  BY <1>1, <1>2, <1>3, <1>4, <1>5, OfferedAssumption DEF ConfigInv, ConfigAsDocumented
<1>6. CASE port # "-1"
  <2>1. host \in Texts /\ port \in Texts
    BY <1>1, OfferedValues DEF TextOr, NumberOr, Value
  <2>2. issuer = IF Said("issuer") \in {Absent, ""} THEN <<host, port>>
                 ELSE <<StripTrailingSlash(Said("issuer"))>>
    BY <1>1 DEF TextOr, IsBlank
  <2>3. issuer \in {<<t>> : t \in Texts} \union (Texts \X Texts)
    <3>1. Said("issuer") \notin {Absent, ""} => StripTrailingSlash(Said("issuer")) \in Texts
      BY <1>1, OfferedValues DEF Value
    <3> HIDE DEF host, port, issuer
    <3>2. CASE Said("issuer") \in {Absent, ""}
      BY <2>1, <2>2, <3>2
    <3>3. CASE Said("issuer") \notin {Absent, ""}
      BY <2>2, <3>1, <3>3
    <3> QED
      BY <3>2, <3>3
  <2>4. resolved \in Config
    BY <1>1, <2>1, <2>3 DEF Config, Value
  <2>5. config' = resolved /\ config' # Refused /\ config' # Unresolved
    BY <1>2, <1>6, <2>4, OfferedAssumption
  <2>6. /\ config'.host = host /\ config'.port = port /\ config'.issuer = issuer
        /\ config'.tokenFile = Said("admin-token-file")
    BY <1>1, <2>5
  <2>7. ConfigAsDocumented'
    BY <1>1, <1>3, <1>6, <2>2, <2>5, <2>6 DEF ConfigAsDocumented
  <2> QED
    BY <1>1, <1>4, <2>4, <2>5, <2>7 DEF ConfigInv
<1> QED
  BY <1>5, <1>6

\* The rest of the process does not read it any more.
LEMMA DropStep ==
  ASSUME DropConfig
  PROVE  ConfigInv'
<1>1. /\ args' = <<>> /\ env' = [o \in Options |-> Absent] /\ given' = env'
      /\ config' = Unresolved
  BY DEF DropConfig
<1>2. \A o : FlagsOf(o)' = {}
  <2>1. DOMAIN args' = {}
    BY <1>1
  <2> QED
    BY <2>1 DEF FlagsOf
<1>3. FlagsHaveLast' /\ \A o : Said(o)' = EnvValue(env', o)
  BY <1>2, Zenon DEF FlagsHaveLast, Said
<1>4. \A o \in Options : given'[o] = Said(o)'
  BY <1>1, <1>3 DEF EnvValue
<1> QED
  BY <1>1, <1>3, <1>4, OfferedAssumption DEF ConfigInv, ConfigAsDocumented, Value

LEMMA ConfigInvariant == ServerSpec => []ConfigInv
<1>1. ServerInit => ConfigInv
  <2> SUFFICES ASSUME ServerInit
               PROVE  ConfigInv
    OBVIOUS
  <2>1. /\ args = <<>> /\ env = [o \in Options |-> Absent] /\ given = env
        /\ config = Unresolved
    BY DEF ServerInit, ConfigInit
  <2>2. FlagsHaveLast /\ \A o \in Options : Said(o) = given[o]
    BY <2>1, SaidAtFirst DEF EnvValue
  <2> QED
    BY <2>1, <2>2, OfferedAssumption DEF ConfigInv, ConfigAsDocumented, Value
<1>2. ConfigInv /\ [ServerNext]_serverVars => ConfigInv'
  <2> SUFFICES ASSUME ConfigInv, [ServerNext]_serverVars
               PROVE  ConfigInv'
    OBVIOUS
  <2>1. CASE \E e \in Environments : Launch(e)
    BY <2>1, EnvStep DEF Launch
  <2>2. CASE Configure
    BY <2>2, FlagStep, BadArgumentStep, ResolveStep DEF Configure, ConfigNext
  <2>3. CASE DropConfig
    BY <2>3, DropStep
  <2>4. CASE UNCHANGED configVars
    <3>1. UNCHANGED <<env, args, given, config>>
      BY <2>4 DEF configVars
    <3>2. \A o : FlagsOf(o)' = FlagsOf(o) /\ Said(o)' = Said(o)
      BY <3>1 DEF FlagsOf, Said
    <3>3. FlagsHaveLast'
      BY <3>2, Zenon DEF FlagsHaveLast, ConfigInv
    <3>4. ConfigAsDocumented'
      BY <3>1, <3>2, Zenon DEF ConfigAsDocumented, ConfigInv
    <3> QED
      BY <3>1, <3>2, <3>3, <3>4 DEF ConfigInv
  <2> QED
    BY <2>1, <2>2, <2>3, <2>4
    DEF ServerNext, serverVars, Edit, ConfigRefused, ResolveAdminToken,
        Build, BuildFails, BuildMinting, MintingFails, Built, Bind, BindFails, Serve, Stop, End
<1> QED
  BY <1>1, <1>2, PTL DEF ServerSpec

\* Whatever the environment and the command line, of any length, the
\* configuration is what the documentation says of them.
THEOREM ConfigResolved == ServerSpec => []ConfigAsDocumented
<1>1. ConfigInv => ConfigAsDocumented
  BY DEF ConfigInv
<1> QED
  BY <1>1, ConfigInvariant, PTL

-----------------------------------------------------------------------------
(* The routing table.                                                      *)

\* What tells the routes apart: the method, the length, and the segments before
\* any id.
Method(i) == Routes[i].method
Size(i) == Len(Routes[i].segments)
First(i) == Routes[i].segments[1]
Second(i) == Routes[i].segments[2]

Alike(i, j) ==
  /\ Method(i) = Method(j) /\ Size(i) = Size(j) /\ First(i) = First(j)
  /\ Size(i) # 1 => Second(i) = Second(j)

LEMMA RouteFacts ==
  /\ Method(1) = "POST" /\ Size(1) = 2 /\ First(1) = "oauth" /\ Second(1) = "token"
  /\ Method(2) = "GET" /\ Size(2) = 2 /\ First(2) = ".well-known" /\ Second(2) = "jwks.json"
  /\ Method(3) = "GET" /\ Size(3) = 2 /\ First(3) = ".well-known" /\ Second(3) = "idp-configuration"
  /\ Method(4) = "GET" /\ Size(4) = 1 /\ First(4) = "health"
  /\ Method(5) = "GET" /\ Size(5) = 1 /\ First(5) = "openapi.yaml"
  /\ Method(6) = "GET" /\ Size(6) = 1 /\ First(6) = "openapi.json"
  /\ Method(7) = "GET" /\ Size(7) = 1 /\ First(7) = "docs"
  /\ Method(8) = "GET" /\ Size(8) = 2 /\ First(8) = "docs" /\ Second(8) = "swagger-ui.css"
  /\ Method(9) = "GET" /\ Size(9) = 2 /\ First(9) = "docs" /\ Second(9) = "swagger-ui-bundle.js"
  /\ Method(10) = "POST" /\ Size(10) = 2 /\ First(10) = "admin" /\ Second(10) = "clients"
  /\ Method(11) = "GET" /\ Size(11) = 2 /\ First(11) = "admin" /\ Second(11) = "clients"
  /\ Method(12) = "DELETE" /\ Size(12) = 3 /\ First(12) = "admin" /\ Second(12) = "clients"
  /\ Method(13) = "PUT" /\ Size(13) = 4 /\ First(13) = "admin" /\ Second(13) = "clients"
  /\ Method(14) = "POST" /\ Size(14) = 3 /\ First(14) = "admin" /\ Second(14) = "keys"
  /\ Method(15) = "POST" /\ Size(15) = 2 /\ First(15) = "admin" /\ Second(15) = "revocations"
  /\ Method(16) = "GET" /\ Size(16) = 2 /\ First(16) = "admin" /\ Second(16) = "revocations"
  /\ Method(17) = "GET" /\ Size(17) = 2 /\ First(17) = "admin" /\ Second(17) = "audit"
BY DEF Routes, Route, Method, Size, First, Second

LEMMA RoutesApart == \A i, j \in 1 .. 17 : Alike(i, j) => i = j
<1>1. \A j \in 1 .. 17 : Alike(1, j) => j = 1
  BY RouteFacts DEF Alike
<1>2. \A j \in 1 .. 17 : Alike(2, j) => j = 2
  BY RouteFacts DEF Alike
<1>3. \A j \in 1 .. 17 : Alike(3, j) => j = 3
  BY RouteFacts DEF Alike
<1>4. \A j \in 1 .. 17 : Alike(4, j) => j = 4
  BY RouteFacts DEF Alike
<1>5. \A j \in 1 .. 17 : Alike(5, j) => j = 5
  BY RouteFacts DEF Alike
<1>6. \A j \in 1 .. 17 : Alike(6, j) => j = 6
  BY RouteFacts DEF Alike
<1>7. \A j \in 1 .. 17 : Alike(7, j) => j = 7
  BY RouteFacts DEF Alike
<1>8. \A j \in 1 .. 17 : Alike(8, j) => j = 8
  BY RouteFacts DEF Alike
<1>9. \A j \in 1 .. 17 : Alike(9, j) => j = 9
  BY RouteFacts DEF Alike
<1>10. \A j \in 1 .. 17 : Alike(10, j) => j = 10
  BY RouteFacts DEF Alike
<1>11. \A j \in 1 .. 17 : Alike(11, j) => j = 11
  BY RouteFacts DEF Alike
<1>12. \A j \in 1 .. 17 : Alike(12, j) => j = 12
  BY RouteFacts DEF Alike
<1>13. \A j \in 1 .. 17 : Alike(13, j) => j = 13
  BY RouteFacts DEF Alike
<1>14. \A j \in 1 .. 17 : Alike(14, j) => j = 14
  BY RouteFacts DEF Alike
<1>15. \A j \in 1 .. 17 : Alike(15, j) => j = 15
  BY RouteFacts DEF Alike
<1>16. \A j \in 1 .. 17 : Alike(16, j) => j = 16
  BY RouteFacts DEF Alike
<1>17. \A j \in 1 .. 17 : Alike(17, j) => j = 17
  BY RouteFacts DEF Alike
<1> QED
  BY <1>1, <1>2, <1>3, <1>4, <1>5, <1>6, <1>7, <1>8, <1>9, <1>10, <1>11, <1>12, <1>13, <1>14, <1>15, <1>16, <1>17

\* Two routes of one method that match the same path are one route.
LEMMA OneRoute ==
  ASSUME NEW i \in 1 .. 17, NEW j \in 1 .. 17, NEW path,
         Match(Routes[i].segments, path), Match(Routes[j].segments, path),
         Routes[i].method = Routes[j].method
  PROVE  i = j
<1> DEFINE Firsts == {"oauth", ".well-known", "health", "openapi.yaml", "openapi.json", "docs", "admin"}
           Seconds == {"token", "jwks.json", "idp-configuration", "swagger-ui.css",
                       "swagger-ui-bundle.js", "clients", "keys", "revocations", "audit"}
<1>1. \A k \in 1 .. 17 : First(k) \in Firsts
  BY RouteFacts
<1>2. \A k \in 1 .. 17 : Size(k) \in Nat /\ Size(k) >= 1
  BY RouteFacts
<1>3. \A k \in 1 .. 17 : Size(k) # 1 => Second(k) \in Seconds
  BY RouteFacts
<1>4. ASSUME NEW k \in 1 .. 17, Match(Routes[k].segments, path)
      PROVE  /\ Size(k) = Len(path) /\ First(k) = path[1]
             /\ Size(k) # 1 => Second(k) = path[2]
  <2>1. Size(k) = Len(path) /\ \A n \in 1 .. Size(k) : Routes[k].segments[n] \in {"{id}", path[n]}
    BY <1>4 DEF Match, Size
  <2>2. First(k) = path[1]
    <3>1. 1 \in 1 .. Size(k)
      BY <1>2
    <3>2. First(k) \in {"{id}", path[1]}
      BY <2>1, <3>1, Zenon DEF First
    <3>3. First(k) \in Firsts
      BY <1>1
    <3> QED
      BY <3>2, <3>3
  <2>3. ASSUME Size(k) # 1
        PROVE  Second(k) = path[2]
    <3>1. 2 \in 1 .. Size(k)
      BY <1>2, <2>3
    <3>2. Second(k) \in {"{id}", path[2]}
      BY <2>1, <3>1, Zenon DEF Second
    <3>3. Second(k) \in Seconds
      BY <1>3, <2>3
    <3> QED
      BY <3>2, <3>3
  <2> QED
    BY <2>1, <2>2, <2>3
<1>5. Alike(i, j)
  BY <1>4 DEF Alike, Method
<1> QED
  BY <1>5, RoutesApart

\* The loop has passed the routes before the cursor: none of them is of the
\* request, and it knows whether one was of its path.
DispatchInv ==
  exchange # NoExchange =>
    /\ exchange.pc = "routing" =>
         /\ \A j \in 1 .. 17 : j < exchange.cursor =>
              ~(j \in OfMethod)
         /\ exchange.wrongMethod <=> \E j \in 1 .. 17 : j < exchange.cursor /\ j \in OfPath
    /\ exchange.pc \in {"handling", "saving"} => exchange.cursor \in OfMethod
    /\ exchange.pc = "saving" => exchange.content # {}
    /\ exchange.pc = "answered" /\ exchange.content = {} =>
         OfMethod = {} /\ exchange.status = IF OfPath = {} THEN 404 ELSE 405

LEMMA OfFacts ==
  /\ OfPath \subseteq 1 .. 17 /\ OfMethod \subseteq OfPath
  /\ \A j \in 1 .. 17 : j \in OfPath <=> Match(Routes[j].segments, exchange.path)
  /\ \A j \in OfPath : j \in OfMethod <=> Routes[j].method = exchange.method
BY RouteCount DEF OfPath, OfMethod

\* The routes of a request stay what they are.
LEMMA OfFrame ==
  ASSUME exchange'.path = exchange.path, exchange'.method = exchange.method
  PROVE  OfPath' = OfPath /\ OfMethod' = OfMethod
BY DEF OfPath, OfMethod

\* One step of a request.
LEMMA DispatchStep ==
  ASSUME RequestInv, RoutedInv, DispatchInv, RouterNext
  PROVE  DispatchInv'
<1>1. ASSUME NEW method \in Methods, NEW path \in Paths, Receive(method, path)
      PROVE  DispatchInv'
  <2>1. /\ exchange'.pc = "routing" /\ exchange'.cursor = 1 /\ exchange'.wrongMethod = FALSE
    BY <1>1 DEF Receive
  <2> QED
    BY <2>1 DEF DispatchInv
<1>2. CASE RouteNext
  <2>1. /\ exchange # NoExchange /\ exchange.pc = "routing" /\ exchange.cursor \in 1 .. 17
        /\ DOMAIN exchange = Fields
    BY <1>2, RouteCount DEF RouteNext, In, RequestInv, RoutedInv
  <2> DEFINE matches == Match(Current.segments, exchange.path)
             same == Current.method = exchange.method
  <2>2. CASE matches /\ same
    <3>1. exchange' = [exchange EXCEPT !.pc = "handling"]
      BY <1>2, <2>2 DEF RouteNext
    <3>2. /\ exchange'.pc = "handling" /\ exchange'.cursor = exchange.cursor
          /\ exchange'.path = exchange.path /\ exchange'.method = exchange.method
      BY <2>1, <3>1 DEF Fields
    <3>3. exchange.cursor \in OfMethod
      BY <2>1, <2>2, OfFacts DEF Current
    <3> QED
      BY <3>2, <3>3, OfFrame DEF DispatchInv
  <2>3. CASE ~(matches /\ same)
    <3>1. exchange' = [exchange EXCEPT !.cursor = @ + 1, !.wrongMethod = @ \/ matches]
      BY <1>2, <2>3 DEF RouteNext
    <3>2. /\ exchange'.pc = "routing" /\ exchange'.cursor = exchange.cursor + 1
          /\ exchange'.path = exchange.path /\ exchange'.method = exchange.method
          /\ exchange'.wrongMethod = (exchange.wrongMethod \/ matches)
      <4> HIDE DEF matches
      <4> QED
        BY <2>1, <3>1 DEF Fields
    <3>3. OfPath' = OfPath /\ OfMethod' = OfMethod
      BY <3>2, OfFrame
    <3>4. matches <=> exchange.cursor \in OfPath
      BY <2>1, OfFacts DEF Current
    <3>5. exchange.cursor \notin OfMethod
      BY <2>1, <2>3, OfFacts DEF Current
    <3>6. \A j \in 1 .. 17 : j < exchange'.cursor <=> j < exchange.cursor \/ j = exchange.cursor
      BY <2>1, <3>2
    <3>7. \A j \in 1 .. 17 : j < exchange'.cursor => ~(j \in OfMethod')
      BY <2>1, <3>3, <3>5, <3>6 DEF DispatchInv
    <3>8. exchange'.wrongMethod <=> \E j \in 1 .. 17 : j < exchange'.cursor /\ j \in OfPath'
      <4>1. exchange.wrongMethod <=> \E j \in 1 .. 17 : j < exchange.cursor /\ j \in OfPath
        BY <2>1, Zenon DEF DispatchInv
      <4> HIDE DEF matches
      <4> QED
        BY <2>1, <3>2, <3>3, <3>4, <3>6, <4>1, Zenon
    <3> QED
      BY <3>2, <3>7, <3>8 DEF DispatchInv
  <2> QED
    BY <2>2, <2>3
<1>3. CASE RouteEnd
  <2>1. /\ exchange # NoExchange /\ DOMAIN exchange = Fields /\ exchange.pc = "routing"
        /\ exchange.cursor = 18
    BY <1>3, RouteCount DEF RouteEnd, In, RequestInv, RoutedInv
  <2>2. \A j \in 1 .. 17 : j < exchange.cursor
    BY <2>1
  <2>3. OfMethod = {}
    BY <2>1, <2>2, OfFacts DEF DispatchInv
  <2>4. exchange.wrongMethod <=> OfPath # {}
    <3>1. exchange.wrongMethod <=> \E j \in 1 .. 17 : j < exchange.cursor /\ j \in OfPath
      BY <2>1, Zenon DEF DispatchInv
    <3> QED
      BY <2>2, <3>1, OfFacts, Zenon
  <2> DEFINE code == IF exchange.wrongMethod THEN 405 ELSE 404
  <2>5. code = IF OfPath = {} THEN 404 ELSE 405
    BY <2>4, Zenon
  <2>6. exchange' = Answered(code)
    BY <1>3 DEF RouteEnd
  <2> HIDE DEF code
  <2>7. /\ exchange'.pc = "answered" /\ exchange'.status = code
        /\ exchange'.path = exchange.path /\ exchange'.method = exchange.method
    BY <2>1, <2>6 DEF Answered, Fields
  <2> QED
    BY <2>3, <2>5, <2>7, OfFrame DEF DispatchInv
<1>4. ASSUME NEW q, Handle(q)
      PROVE  DispatchInv'
  <2>1. /\ exchange # NoExchange /\ DOMAIN exchange = Fields /\ exchange.pc = "handling"
    BY <1>4 DEF Handle, In, RequestInv
  <2>2. /\ exchange'.pc \in {"saving", "answered"} /\ exchange'.content = {q}
        /\ exchange'.cursor = exchange.cursor
        /\ exchange'.path = exchange.path /\ exchange'.method = exchange.method
    BY <1>4, <2>1 DEF Handle, Fields
  <2> QED
    BY <2>1, <2>2, OfFrame DEF DispatchInv
<1>5. ASSUME \/ \E d \in Documents : Save(d) \/ SaveFails(d)
             \/ Finish
      PROVE  DispatchInv'
  <2>1. /\ exchange # NoExchange /\ DOMAIN exchange = Fields /\ exchange.pc = "saving"
    BY <1>5 DEF Save, SaveFails, Unsaved, Finish, In, RequestInv
  <2>2. /\ exchange'.pc \in {"saving", "answered"} /\ exchange'.content = exchange.content
        /\ exchange'.cursor = exchange.cursor
        /\ exchange'.path = exchange.path /\ exchange'.method = exchange.method
    <3>1. CASE \E d \in Documents : Save(d)
      BY <2>1, <3>1 DEF Save, Fields
    <3>2. CASE \/ \E d \in Documents : SaveFails(d)
               \/ Finish
      <4>1. PICK code : \/ exchange' = Answered(code)
                        \/ \E l : exchange' = [Answered(code) EXCEPT !.saved = l]
        BY <3>2 DEF SaveFails, Finish
      <4> DEFINE failed == Answered(code)
      <4>2. /\ failed.pc = "answered" /\ failed.content = exchange.content /\ DOMAIN failed = Fields
            /\ failed.cursor = exchange.cursor
            /\ failed.path = exchange.path /\ failed.method = exchange.method
        BY <2>1 DEF Answered, Fields
      <4>3. exchange' = failed \/ \E l : exchange' = [failed EXCEPT !.saved = l]
        BY <4>1
      <4> HIDE DEF failed
      <4> QED
        BY <4>2, <4>3 DEF Fields
    <3> QED
      BY <1>5, <3>1, <3>2
  <2> QED
    BY <2>1, <2>2, OfFrame DEF DispatchInv
<1> QED
  BY <1>1, <1>2, <1>3, <1>4, <1>5 DEF RouterNext

\* Whatever the method and the path, the handler is that of the one route they
\* match, and a request without one is answered 404, or 405 if its path has
\* routes of other methods.
THEOREM TableIsFollowed == ServerSpec => []DispatchByTable
<1>1. ServerInit => DispatchInv
  BY DEF ServerInit, DispatchInv
<1>2. RequestInv /\ RoutedInv /\ DispatchInv /\ [ServerNext]_serverVars => DispatchInv'
  <2> SUFFICES ASSUME RequestInv, RoutedInv, DispatchInv, [ServerNext]_serverVars
               PROVE  DispatchInv'
    OBVIOUS
  <2>1. CASE RouterNext
    BY <2>1, DispatchStep
  <2>2. CASE exchange' = NoExchange
    BY <2>2 DEF DispatchInv
  <2>3. CASE exchange' = exchange
    BY <2>3 DEF DispatchInv, OfPath, OfMethod
  <2> QED
    BY <2>1, <2>2, <2>3
    DEF ServerNext, serverVars, Edit, Launch, Configure, ConfigRefused, ResolveAdminToken,
        Build, BuildFails, BuildMinting, MintingFails, Built, Bind, BindFails, Serve, Stop, End
<1>3. DispatchInv => DispatchByTable
  <2> SUFFICES ASSUME DispatchInv, exchange # NoExchange
               PROVE  /\ exchange.pc \in {"handling", "saving"} => OfMethod = {exchange.cursor}
                      /\ In("answered") /\ exchange.content = {} =>
                           OfMethod = {} /\ exchange.status = (IF OfPath = {} THEN 404 ELSE 405)
    BY DEF DispatchByTable
  <2>1. ASSUME NEW i \in OfMethod, NEW j \in OfMethod
        PROVE  i = j
    <3>1. /\ i \in 1 .. 17 /\ j \in 1 .. 17
          /\ Match(Routes[i].segments, exchange.path) /\ Match(Routes[j].segments, exchange.path)
          /\ Routes[i].method = Routes[j].method
      BY OfFacts
    <3> QED
      BY <3>1, OneRoute
  <2> QED
    BY <2>1 DEF DispatchInv, In
<1> QED
  BY <1>1, <1>2, <1>3, RequestInvariant, PTL DEF ServerSpec

-----------------------------------------------------------------------------
(* Types, and the grants that are stored.                                  *)

\* What is stored is what an accepted claim says.
GrantInv ==
  exchange # NoExchange /\ exchange.authorization # Null =>
    \A q \in exchange.content :
      /\ q.claim \in GrantsClaim \union {Null} /\ ClaimObjection(q.claim) = {}
      /\ exchange.authorization = ToAuthorization(q.claim)

\* A request with grants that goes on has had its claim accepted.
LEMMA GrantsPass ==
  ASSUME NEW h \in Granting, NEW q, Answers(HandlerChecks(h, q), 0, 0)
  PROVE  ClaimObjection(q.claim) = {}
<1>1. \A fails, code : code # 0 => 0 \notin Check(fails, code)
  BY DEF Check
<1>2. 0 \notin Admin(q) /\ 0 \notin Parsed(q) /\ 0 \notin NotNull(q)
      /\ 0 \notin ValidGrants(q) /\ 0 \notin Known(q)
  BY <1>1 DEF Admin, Parsed, NotNull, Known, ValidGrants, ClaimObjection
<1> DEFINE cs == HandlerChecks(h, q)
<1>3. CASE h = "registerClient"
  <2>1. cs = <<Admin(q), Parsed(q), NotNull(q), ValidGrants(q)>>
    BY <1>3, Zenon DEF HandlerChecks
  <2> HIDE DEF cs
  <2>2. cs[4] = ValidGrants(q) /\ 4 \in DOMAIN cs /\ \A i \in DOMAIN cs : 0 \notin cs[i]
    BY <1>2, <2>1
  <2> QED
    BY <2>2 DEF Answers, ValidGrants, cs
<1>4. CASE h = "setGrants"
  <2>1. cs = <<Admin(q), Parsed(q), ValidGrants(q), Known(q)>>
    BY <1>4 DEF HandlerChecks
  <2> HIDE DEF cs
  <2>2. cs[3] = ValidGrants(q) /\ 3 \in DOMAIN cs /\ \A i \in DOMAIN cs : 0 \notin cs[i]
    BY <1>2, <2>1
  <2> QED
    BY <2>2 DEF Answers, ValidGrants, cs
<1> QED
  BY <1>3, <1>4 DEF Granting

LEMMA ContentClaim ==
  ASSUME NEW h, NEW q \in Content(h)
  PROVE  q.claim \in GrantsClaim \union {Null}
<1>1. q.claim \in (IF h \in Granting THEN Claims ELSE {}) \union {Null}
  BY DEF Content
<1> QED
  BY <1>1, ClaimsAssumption

\* One step of a request.
LEMMA TypeStep ==
  ASSUME RequestInv, RoutedInv, ExchangeTypeOK, GrantInv, RouterNext
  PROVE  ExchangeTypeOK' /\ GrantInv'
<1> DEFINE Inv == ExchangeTypeOK /\ GrantInv
           Statuses == {0, 200, 201, 204, 400, 401, 404, 405, 500}
<1>1. ASSUME NEW method \in Methods, NEW path \in Paths, Receive(method, path)
      PROVE  Inv'
  <2>1. /\ exchange'.pc = "routing" /\ exchange'.method = method /\ exchange'.path = path
        /\ exchange'.cursor = 1 /\ exchange'.wrongMethod = FALSE /\ exchange'.content = {}
        /\ exchange'.authorization = Null /\ exchange'.saved = <<>> /\ exchange'.status = 0
    BY <1>1 DEF Receive
  <2>2. 1 \in 1 .. Len(Routes) + 1 /\ <<>> \in Seq(Documents)
    BY RouteCount
  <2>3. \A q \in exchange'.content : q \in Content((Current.handler)')
    BY <2>1
  <2>4. ExchangeTypeOK'
    <3>1. exchange'.wrongMethod \in BOOLEAN /\ exchange'.authorization \in Authorization \union {Null}
      BY <2>1
    <3>2. exchange'.cursor \in 1 .. Len(Routes) + 1 /\ exchange'.saved \in Seq(Documents)
      BY <2>1, <2>2
    <3>3. /\ exchange'.pc \in {"routing", "handling", "saving", "answered"}
          /\ exchange'.method \in Methods /\ exchange'.path \in Paths
          /\ exchange'.status \in Statuses
      BY <1>1, <2>1
    <3> QED
      BY <2>3, <3>1, <3>2, <3>3, Zenon DEF ExchangeTypeOK
  <2>5. GrantInv'
    BY <2>1 DEF GrantInv
  <2> QED
    BY <2>4, <2>5
<1>2. CASE RouteNext
  <2>1. /\ exchange # NoExchange /\ exchange.pc = "routing" /\ exchange.cursor \in 1 .. 17
        /\ DOMAIN exchange = Fields /\ exchange.content = {}
    BY <1>2, RouteCount DEF RouteNext, In, RequestInv, RoutedInv
  <2> DEFINE matches == Match(Current.segments, exchange.path)
             same == Current.method = exchange.method
  <2>2. matches \in BOOLEAN /\ exchange.wrongMethod \in BOOLEAN
    BY <2>1 DEF Match, ExchangeTypeOK
  <2>3. /\ exchange' = IF matches /\ same THEN [exchange EXCEPT !.pc = "handling"]
                       ELSE [exchange EXCEPT !.cursor = @ + 1, !.wrongMethod = @ \/ matches]
    BY <1>2 DEF RouteNext
  <2> HIDE DEF matches, same
  <2>4. /\ exchange'.pc \in {"routing", "handling"} /\ exchange'.cursor \in 1 .. 18
        /\ exchange'.wrongMethod \in BOOLEAN
        /\ exchange'.method = exchange.method /\ exchange'.path = exchange.path
        /\ exchange'.content = {} /\ exchange'.authorization = exchange.authorization
        /\ exchange'.saved = exchange.saved /\ exchange'.status = exchange.status
    <3>1. CASE matches /\ same
      BY <2>1, <2>2, <2>3, <3>1 DEF Fields
    <3>2. CASE ~(matches /\ same)
      <4>1. exchange' = [exchange EXCEPT !.cursor = @ + 1, !.wrongMethod = @ \/ matches]
        BY <2>3, <3>2
      <4>2. (exchange.wrongMethod \/ matches) \in BOOLEAN
        BY <2>2
      <4> QED
        BY <2>1, <4>1, <4>2 DEF Fields
    <3> QED
      BY <3>1, <3>2
  <2> QED
    BY <2>1, <2>4, RouteCount DEF ExchangeTypeOK, GrantInv
<1>3. CASE RouteEnd
  <2>1. /\ exchange # NoExchange /\ DOMAIN exchange = Fields /\ exchange.content = {}
    BY <1>3 DEF RouteEnd, In, RequestInv
  <2>2. PICK code \in {404, 405} : exchange' = Answered(code)
    BY <1>3 DEF RouteEnd
  <2>3. /\ exchange'.pc = "answered" /\ exchange'.cursor = exchange.cursor
        /\ exchange'.wrongMethod = exchange.wrongMethod
        /\ exchange'.method = exchange.method /\ exchange'.path = exchange.path
        /\ exchange'.content = {} /\ exchange'.authorization = exchange.authorization
        /\ exchange'.saved = exchange.saved /\ exchange'.status = code
    BY <2>1, <2>2 DEF Answered, Fields
  <2> QED
    BY <2>1, <2>3 DEF ExchangeTypeOK, GrantInv
<1>4. ASSUME NEW q \in Content(Current.handler), Handle(q)
      PROVE  Inv'
  <2>1. /\ exchange # NoExchange /\ DOMAIN exchange = Fields /\ exchange.cursor \in 1 .. 17
    BY <1>4, RouteCount DEF Handle, In, RequestInv, RoutedInv
  <2> DEFINE h == Current.handler
  <2>2. PICK answer \in {0, 400, 401, 404, 500} :
          /\ Answers(HandlerChecks(h, q), 0, answer)
          /\ exchange' = [exchange EXCEPT
               !.pc = IF answer = 0 THEN "saving" ELSE "answered",
               !.content = {q},
               !.authorization = IF answer = 0 /\ h \in Granting THEN ToAuthorization(q.claim) ELSE Null,
               !.status = answer]
    BY <1>4 DEF Handle
  <2>3. /\ exchange'.pc \in {"saving", "answered"} /\ exchange'.cursor = exchange.cursor
        /\ exchange'.wrongMethod = exchange.wrongMethod
        /\ exchange'.method = exchange.method /\ exchange'.path = exchange.path
        /\ exchange'.content = {q}
        /\ exchange'.authorization = (IF answer = 0 /\ h \in Granting
                                      THEN ToAuthorization(q.claim) ELSE Null)
        /\ exchange'.saved = exchange.saved /\ exchange'.status = answer
    <3> DEFINE pc == IF answer = 0 THEN "saving" ELSE "answered"
               authorization == IF answer = 0 /\ h \in Granting THEN ToAuthorization(q.claim) ELSE Null
    <3>1. pc \in {"saving", "answered"}
      OBVIOUS
    <3>2. exchange' = [exchange EXCEPT !.pc = pc, !.content = {q},
                                       !.authorization = authorization, !.status = answer]
      BY <2>2
    <3> HIDE DEF pc, authorization
    <3>3. /\ exchange'.pc = pc /\ exchange'.cursor = exchange.cursor
          /\ exchange'.wrongMethod = exchange.wrongMethod
          /\ exchange'.method = exchange.method /\ exchange'.path = exchange.path
          /\ exchange'.content = {q} /\ exchange'.authorization = authorization
          /\ exchange'.saved = exchange.saved /\ exchange'.status = answer
      BY <2>1, <3>2 DEF Fields
    <3> QED
      BY <3>1, <3>3 DEF authorization
  <2>4. (Current.handler)' = h
    BY <2>3 DEF Current
  <2>5. q.claim \in GrantsClaim \union {Null}
    BY <1>4, ContentClaim
  <2>6. answer = 0 /\ h \in Granting =>
          ClaimObjection(q.claim) = {} /\ ToAuthorization(q.claim) \in Authorization
    <3> SUFFICES ASSUME answer = 0, h \in Granting
                 PROVE  ClaimObjection(q.claim) = {} /\ ToAuthorization(q.claim) \in Authorization
      OBVIOUS
    <3>1. Answers(HandlerChecks(h, q), 0, 0)
      BY <2>2
    <3> HIDE DEF h
    <3>2. ClaimObjection(q.claim) = {}
      BY <3>1, GrantsPass
    <3> QED
      BY <2>5, <3>2, AcceptedIsAuthorization
  <2> HIDE DEF h
  <2>7. exchange'.authorization \in Authorization \union {Null}
    BY <2>3, <2>6
  <2>8. ExchangeTypeOK'
    <3>1. \A p \in exchange'.content : p \in Content((Current.handler)')
      BY <1>4, <2>3, <2>4 DEF h
    <3>2. answer \in Statuses
      OBVIOUS
    <3> QED
      BY <2>1, <2>3, <2>7, <3>1, <3>2 DEF ExchangeTypeOK
  <2>9. GrantInv'
    <3> SUFFICES ASSUME exchange'.authorization # Null, NEW p \in exchange'.content
                 PROVE  /\ p.claim \in GrantsClaim \union {Null} /\ ClaimObjection(p.claim) = {}
                        /\ exchange'.authorization = ToAuthorization(p.claim)
      BY DEF GrantInv
    <3>1. p = q /\ answer = 0 /\ h \in Granting /\ exchange'.authorization = ToAuthorization(q.claim)
      BY <2>3
    <3> QED
      BY <2>5, <2>6, <3>1
  <2> QED
    BY <2>8, <2>9
<1>5. ASSUME \/ \E d \in Documents : Save(d) \/ SaveFails(d)
             \/ Finish
      PROVE  Inv'
  <2>1. /\ exchange # NoExchange /\ DOMAIN exchange = Fields
    BY <1>5 DEF Save, SaveFails, Unsaved, Finish, In, RequestInv
  <2>2. exchange.saved \in Seq(Documents) /\ exchange.status \in Statuses
    BY <2>1 DEF ExchangeTypeOK
  <2> DEFINE Kept ==
        /\ exchange'.pc \in {"saving", "answered"} /\ exchange'.cursor = exchange.cursor
        /\ exchange'.wrongMethod = exchange.wrongMethod
        /\ exchange'.method = exchange.method /\ exchange'.path = exchange.path
        /\ exchange'.content = exchange.content /\ exchange'.authorization = exchange.authorization
        /\ exchange'.saved \in Seq(Documents) /\ exchange'.status \in Statuses
  <2>3. Kept
    <3>1. ASSUME NEW d \in Documents, Save(d)
          PROVE  Kept
      <4>1. exchange.pc = "saving" /\ exchange' = [exchange EXCEPT !.saved = Append(@, d)]
        BY <3>1 DEF Save, Unsaved, In
      <4>2. Append(exchange.saved, d) \in Seq(Documents)
        BY <2>2, AppendProperties
      <4> QED
        BY <2>1, <2>2, <4>1, <4>2 DEF Fields
    <3>2. ASSUME NEW code \in Statuses, NEW l \in Seq(Documents),
                 exchange' \in {Answered(code), [Answered(code) EXCEPT !.saved = l]}
          PROVE  Kept
      <4> DEFINE failed == Answered(code)
      <4>1. /\ failed.pc = "answered" /\ failed.status = code /\ DOMAIN failed = Fields
            /\ failed.cursor = exchange.cursor /\ failed.wrongMethod = exchange.wrongMethod
            /\ failed.method = exchange.method /\ failed.path = exchange.path
            /\ failed.content = exchange.content /\ failed.authorization = exchange.authorization
            /\ failed.saved = exchange.saved
        BY <2>1 DEF Answered, Fields
      <4>2. exchange' = failed \/ exchange' = [failed EXCEPT !.saved = l]
        BY <3>2
      <4> HIDE DEF failed
      <4> QED
        BY <2>2, <4>1, <4>2 DEF Fields
    <3>3. ASSUME NEW d \in Documents, SaveFails(d)
          PROVE  Kept
      <4> DEFINE l == Append(exchange.saved, d)
      <4>1. l \in Seq(Documents)
        BY <2>2, AppendProperties
      <4>2. (Answered(500)).saved = exchange.saved
        BY <2>1 DEF Answered, Fields
      <4>3. exchange' \in {Answered(500), [Answered(500) EXCEPT !.saved = l]}
        BY <3>3, <4>2 DEF SaveFails
      <4> HIDE DEF l
      <4> QED
        BY <3>2, <4>1, <4>3
    <3>4. CASE Finish
      <4>1. exchange' = Answered(Success(Current.handler)) /\ Success(Current.handler) \in Statuses
        BY <3>4 DEF Finish, Success
      <4> DEFINE code == Success(Current.handler)
      <4>2. exchange' \in {Answered(code), [Answered(code) EXCEPT !.saved = exchange.saved]}
        BY <4>1
      <4>3. code \in Statuses
        BY <4>1
      <4> HIDE DEF code, Statuses, Kept
      <4> QED
        BY <2>2, <3>2, <4>2, <4>3
    <3> QED
      BY <1>5, <3>1, <3>3, <3>4
  <2>4. (Current.handler)' = Current.handler
    BY <2>3 DEF Current
  <2>5. \A q \in exchange'.content : q \in Content((Current.handler)')
    BY <2>1, <2>3, <2>4 DEF ExchangeTypeOK
  <2>6. ExchangeTypeOK'
    BY <2>1, <2>3, <2>5 DEF ExchangeTypeOK
  <2>7. GrantInv'
    BY <2>1, <2>3 DEF GrantInv
  <2> QED
    BY <2>6, <2>7
<1> QED
  BY <1>1, <1>2, <1>3, <1>4, <1>5 DEF RouterNext

LEMMA ExchangeInvariant == ServerSpec => [](ExchangeTypeOK /\ GrantInv)
<1> DEFINE Inv == ExchangeTypeOK /\ GrantInv
<1>1. ServerInit => Inv
  BY DEF ServerInit, ExchangeTypeOK, GrantInv
<1>2. RequestInv /\ RoutedInv /\ Inv /\ [ServerNext]_serverVars => Inv'
  <2> SUFFICES ASSUME RequestInv, RoutedInv, Inv, [ServerNext]_serverVars
               PROVE  Inv'
    OBVIOUS
  <2>1. CASE RouterNext
    BY <2>1, TypeStep
  <2>2. CASE exchange' = NoExchange
    BY <2>2 DEF ExchangeTypeOK, GrantInv
  <2>3. CASE exchange' = exchange
    <3>1. (Current.handler)' = Current.handler
      BY <2>3 DEF Current
    <3>2. ExchangeTypeOK'
      BY <2>3, <3>1 DEF ExchangeTypeOK
    <3>3. GrantInv'
      BY <2>3 DEF GrantInv
    <3> QED
      BY <3>2, <3>3
  <2> QED
    BY <2>1, <2>2, <2>3
    DEF ServerNext, serverVars, Edit, Launch, Configure, ConfigRefused, ResolveAdminToken,
        Build, BuildFails, BuildMinting, MintingFails, Built, Bind, BindFails, Serve, Stop, End
<1> QED
  BY <1>1, <1>2, RequestInvariant, PTL DEF ServerSpec

\* What is stored of a registration or a PUT grants what the request said, no
\* more and no less, and a verifier reads the same in every token made of it:
\* for any claim that Jackson can make of a text.
THEOREM GrantsAreExact == ServerSpec => []GrantsExact
<1>1. ExchangeTypeOK /\ GrantInv => GrantsExact
  <2> SUFFICES ASSUME ExchangeTypeOK, GrantInv, exchange # NoExchange, exchange.authorization # Null
               PROVE  LET claim == From(exchange.authorization) IN
                        /\ \A q \in exchange.content : Says(claim) = Says(q.claim)
                        /\ ClaimObjection(claim) = {} /\ ToAuthorization(claim) = exchange.authorization
    BY DEF GrantsExact
  <2> DEFINE a == exchange.authorization
  <2>1. a \in Authorization
    BY DEF ExchangeTypeOK
  <2>2. ClaimObjection(From(a)) = {} /\ ToAuthorization(From(a)) = a
    BY <2>1, RoundTrip
  <2>3. ASSUME NEW q \in exchange.content
        PROVE  Says(From(a)) = Says(q.claim)
    <3>1. /\ q.claim \in GrantsClaim \union {Null} /\ ClaimObjection(q.claim) = {}
          /\ a = ToAuthorization(q.claim)
      BY DEF GrantInv
    <3> QED
      BY <3>1, SaysTheSame
  <2> QED
    BY <2>2, <2>3
<1> QED
  BY <1>1, ExchangeInvariant, PTL

\* The configuration is read, and refused, only while it is resolved, and
\* requests are served only once all is built.
PhaseInv ==
  /\ env \in Environments /\ DOMAIN given = Options /\ Len(args) <= MaxFlags + 1
  /\ Len(args) <= MaxFlags \/ config = Refused
  /\ phase # "serving" => exchange = NoExchange
  /\ phase # "resolving" => config # Refused
  /\ exit \in {0, 1, 64, 74}

LEMMA ResolvingStep ==
  ASSUME PhaseInv, ConfigInv, ConfigNext
  PROVE  /\ env' = env /\ DOMAIN given' = Options /\ Len(args') <= MaxFlags + 1
         /\ Len(args') <= MaxFlags \/ config' = Refused
<1>1. args \in Seq(Flag) /\ Len(args) \in Nat /\ MaxFlags \in Nat /\ given \in [Options -> Value]
  BY OfferedAssumption DEF ConfigInv
<1>2. ASSUME NEW f \in Flag
      PROVE  Len(Append(args, f)) = Len(args) + 1
  BY <1>1, AppendProperties
<1>3. ASSUME NEW o \in Options, NEW v \in Offered[o], ReadFlag(o, v)
      PROVE  env' = env /\ DOMAIN given' = Options /\ Len(args') <= MaxFlags
  <2>1. [flag |-> o, value |-> v] \in Flag
    BY OfferedValues DEF Flag
  <2>2. Len(args) < MaxFlags /\ Len(args') = Len(args) + 1
    BY <1>2, <1>3, <2>1 DEF ReadFlag
  <2>3. env' = env /\ DOMAIN given' = Options
    BY <1>1, <1>3 DEF ReadFlag
  <2> QED
    BY <1>1, <2>2, <2>3
<1>4. CASE BadArgument
  <2>1. [flag |-> Absent, value |-> Absent] \in Flag
    BY DEF Flag, Value
  <2>2. Len(args') = Len(args) + 1 /\ config = Unresolved /\ config' = Refused
    BY <1>2, <1>4, <2>1 DEF BadArgument, Resolving
  <2>3. Len(args) <= MaxFlags
    BY <2>2, OfferedAssumption DEF PhaseInv
  <2> QED
    BY <1>1, <1>4, <2>2, <2>3 DEF BadArgument
<1>5. CASE Resolve
  <2>1. config = Unresolved /\ UNCHANGED <<env, args, given>>
    BY <1>5 DEF Resolve, Resolving
  <2> QED
    BY <1>1, <2>1, OfferedAssumption DEF PhaseInv
<1> QED
  BY <1>1, <1>3, <1>4, <1>5 DEF ConfigNext

LEMMA NoEnvironment ==
  ASSUME NEW e, e = [o \in Options |-> Absent]
  PROVE  e \in Environments /\ DOMAIN e = Options
BY DEF Environments

\* Every step of the process.
LEMMA PhaseStep ==
  ASSUME PhaseInv, ConfigInv, [ServerNext]_serverVars
  PROVE  PhaseInv'
<1>1. MaxFlags \in Nat /\ Unresolved # Refused
  BY OfferedAssumption
<1>2. ASSUME NEW code \in {0, 1, 64, 74}, End(code)
      PROVE  PhaseInv'
  <2>1. /\ phase' = "down" /\ exit' = code /\ exchange' = NoExchange
        /\ args' = <<>> /\ env' = [o \in Options |-> Absent] /\ given' = env' /\ config' = Unresolved
    BY <1>2 DEF End, DropConfig
  <2>2. env' \in Environments /\ DOMAIN given' = Options /\ Len(args') = 0
    BY <2>1, NoEnvironment
  <2> QED
    BY <1>1, <2>1, <2>2 DEF PhaseInv
<1>3. ASSUME NEW d \in Documents, NEW content, Edit(d, content)
      PROVE  PhaseInv'
  BY <1>3 DEF Edit, configVars, PhaseInv
<1>4. ASSUME NEW e \in Environments, Launch(e)
      PROVE  PhaseInv'
  <2>1. /\ phase = "down" /\ phase' = "resolving" /\ exit' = 0 /\ UNCHANGED exchange
        /\ env' = e /\ args' = <<>> /\ DOMAIN given' = Options
    BY <1>4 DEF Launch, ReadEnv
  <2>2. Len(args') = 0
    BY <2>1
  <2> QED
    BY <1>1, <2>1, <2>2 DEF PhaseInv
<1>5. CASE Configure
  <2>1. /\ phase = "resolving" /\ UNCHANGED <<exit, exchange>> /\ ConfigNext
        /\ phase' = IF config' \in {Unresolved, Refused} THEN phase ELSE "authenticating"
    BY <1>5 DEF Configure
  <2>2. /\ env' = env /\ DOMAIN given' = Options /\ Len(args') <= MaxFlags + 1
        /\ Len(args') <= MaxFlags \/ config' = Refused
    BY <2>1, ResolvingStep
  <2> QED
    BY <2>1, <2>2 DEF PhaseInv
<1>6. CASE ConfigRefused \/ BindFails \/ MintingFails \/ Stop \/ \E d \in Documents : BuildFails(d)
  <2>1. \E code \in {0, 1, 64, 74} : End(code)
    BY <1>6 DEF ConfigRefused, BindFails, MintingFails, Stop, BuildFails
  <2> QED
    BY <1>2, <2>1
<1>7. ASSUME NEW envToken, NEW fileToken, ResolveAdminToken(envToken, fileToken)
      PROVE  PhaseInv'
  <2>1. CASE phase' = "building" /\ UNCHANGED <<built, exit, exchange>> /\ DropConfig
    <3>1. /\ args' = <<>> /\ env' = [o \in Options |-> Absent] /\ given' = env' /\ config' = Unresolved
      BY <2>1 DEF DropConfig
    <3>2. env' \in Environments /\ DOMAIN given' = Options /\ Len(args') = 0
      BY <3>1, NoEnvironment
    <3>3. phase = "authenticating"
      BY <1>7 DEF ResolveAdminToken
    <3> QED
      BY <1>1, <2>1, <3>1, <3>2, <3>3 DEF PhaseInv
  <2>2. CASE \E code \in {64, 74} : End(code)
    BY <1>2, <2>2
  <2>3. ASSUME NEW A, End(IF A THEN 74 ELSE 64)
        PROVE  \E code \in {64, 74} : End(code)
    <3>1. (IF A THEN 74 ELSE 64) \in {64, 74}
      OBVIOUS
    <3> QED
      BY <2>3, <3>1, Zenon
  <2> QED
    BY <1>7, <2>1, <2>2, <2>3, Zenon DEF ResolveAdminToken
<1>8. CASE Bind \/ BuildMinting \/ \E d \in Documents : Build(d)
  <2>1. /\ phase \in {"building", "binding"} /\ UNCHANGED <<exit, env, args, given, config, exchange>>
    BY <1>8 DEF Bind, BuildMinting, Build, Built, NextToBuild, configVars
  <2>2. exchange' = NoExchange /\ config' # Refused
    BY <2>1 DEF PhaseInv
  <2> QED
    BY <2>1, <2>2 DEF PhaseInv
<1>9. CASE Serve
  <2>1. phase = "serving" /\ phase' = "serving" /\ UNCHANGED <<exit, env, args, given, config>>
    BY <1>9 DEF Serve, configVars
  <2> QED
    BY <2>1 DEF PhaseInv
<1>10. CASE UNCHANGED serverVars
  BY <1>10 DEF serverVars, processVars, configVars, PhaseInv
<1> QED
  BY <1>3, <1>4, <1>5, <1>6, <1>7, <1>8, <1>9, <1>10 DEF ServerNext

LEMMA PhaseInvariant == ServerSpec => []PhaseInv
<1>1. ServerInit => PhaseInv
  <2> SUFFICES ASSUME ServerInit
               PROVE  PhaseInv
    OBVIOUS
  <2>1. /\ phase = "down" /\ exit = 0 /\ exchange = NoExchange
        /\ args = <<>> /\ env = [o \in Options |-> Absent] /\ given = env /\ config = Unresolved
    BY DEF ServerInit, ConfigInit
  <2>2. env \in Environments /\ DOMAIN given = Options /\ Len(args) = 0
    BY <2>1, NoEnvironment
  <2> QED
    BY <2>1, <2>2, OfferedAssumption DEF PhaseInv
<1> QED
  BY <1>1, PhaseStep, ConfigInvariant, PTL DEF ServerSpec

\* The process, its configuration and its requests have their types, and stand
\* where their phase lets them.
THEOREM TypeCorrect == ServerSpec => []ServerTypeOK
<1>1. StartInv /\ PhaseInv /\ ExchangeTypeOK => ServerTypeOK
  BY Docs DEF StartInv, PhaseInv, ServerTypeOK, Documented
<1> QED
  BY <1>1, StartInvariant, PhaseInvariant, ExchangeInvariant, PTL

=============================================================================
