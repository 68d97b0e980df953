------------------------------- MODULE Router -------------------------------
(***************************************************************************)
(* One HTTP request through Router.java: the loop over the routes, and the *)
(* handler that it finds, with the checks that ApiHandlers.java makes      *)
(* before it touches a service, the saves of the services it calls, and    *)
(* the status of the answer.  What the saves contain, and how requests     *)
(* overlap, is in ApiHandlers and the modules of the services.             *)
(***************************************************************************)
EXTENDS Grants

CONSTANTS
  Methods,    \* the methods of requests
  Paths,      \* their paths, split at the slashes
  Claims,     \* the grants that admins send
  NoExchange  \* no request has come in

ASSUME ClaimsAssumption == Claims \subseteq GrantsClaim

VARIABLE exchange  \* the HttpExchange under way, or the last one

-----------------------------------------------------------------------------
(* The routes, in the order ApiHandlers.router registers them.             *)

Route(method, segments, handler) ==
  [method |-> method, segments |-> segments, handler |-> handler]

Routes == <<
  Route("POST", <<"oauth", "token">>, "token"),
  Route("GET", <<".well-known", "jwks.json">>, "jwks"),
  Route("GET", <<".well-known", "idp-configuration">>, "discovery"),
  Route("GET", <<"health">>, "health"),
  Route("GET", <<"openapi.yaml">>, "openApiYaml"),
  Route("GET", <<"openapi.json">>, "openApiJson"),
  Route("GET", <<"docs">>, "docs"),
  Route("GET", <<"docs", "swagger-ui.css">>, "asset"),
  Route("GET", <<"docs", "swagger-ui-bundle.js">>, "asset"),
  Route("POST", <<"admin", "clients">>, "registerClient"),
  Route("GET", <<"admin", "clients">>, "listClients"),
  Route("DELETE", <<"admin", "clients", "{id}">>, "deleteClient"),
  Route("PUT", <<"admin", "clients", "{id}", "grants">>, "setGrants"),
  Route("POST", <<"admin", "keys", "rotate">>, "rotateKeys"),
  Route("POST", <<"admin", "revocations">>, "revoke"),
  Route("GET", <<"admin", "revocations">>, "listRevocations"),
  Route("GET", <<"admin", "audit">>, "auditLog") >>

Handlers == {Routes[i].handler : i \in DOMAIN Routes}

Match(pattern, actual) ==
  /\ Len(pattern) = Len(actual)
  /\ \A i \in 1 .. Len(pattern) : pattern[i] \in {"{id}", actual[i]}

-----------------------------------------------------------------------------
(* The handlers.                                                           *)

\* What the handler reads: the bearer token, the body, whether the client named
\* in the path, or the credentials in the form, are known, and the grants in
\* the body: those of a registration may be left out, those of a PUT are all
\* of it.
Granting == {"registerClient", "setGrants"}
Bodies == {"empty", "malformed", "null", "invalid", "good"}
Content(h) ==
  {q \in [bearer : {"none", "other", "admin"}, body : Bodies, known : BOOLEAN,
          claim : (IF h \in Granting THEN Claims ELSE {}) \union {Null}] :
     /\ q.claim # Null => q.body = "good"
     /\ h = "setGrants" /\ q.body = "good" => q.claim # Null
     /\ h \in Granting => q.body # "invalid"}

\* Mutant of Admin: the header is there, whatever it says.
AnyBearer(q) == Check(q.bearer = "none", 401)

\* AdminAuthenticator.requireAdmin.
Admin(q) == Check(q.bearer # "admin", 401)

\* Json.parse: a body that is there and is JSON.
Parsed(q) == Check(q.body \in {"empty", "malformed"}, 400)

\* The literal null parses to a null that the handler dereferences.
NotNull(q) == Check(q.body = "null", 500)

\* A jti, or a grant type with credentials.
Valid(q) == Check(q.body = "invalid", 400)

\* toAuthorization.
ValidGrants(q) == ClaimObjection(q.claim)

\* The client in the path is registered.
Known(q) == Check(~q.known, 404)

\* token() decodes the form, looks at grant_type and authenticates.  PUT grants
\* takes the literal null for no grants.
HandlerChecks(h, q) ==
  CASE h = "token" -> << Check(q.body = "malformed", 500), Check(q.body # "good", 400),
                         Check(~q.known, 401) >>
    [] h = "registerClient" -> <<Admin(q), Parsed(q), NotNull(q), ValidGrants(q)>>
    [] h = "revoke" -> <<Admin(q), Parsed(q), NotNull(q), Valid(q)>>
    [] h = "setGrants" -> <<Admin(q), Parsed(q), ValidGrants(q), Known(q)>>
    [] h = "deleteClient" -> <<Admin(q), Known(q)>>
    [] h \in {"rotateKeys", "listClients", "listRevocations", "auditLog"} -> <<Admin(q)>>
    [] OTHER -> <<>>

\* The documents of the data directory, in the order their services are built.
Order == <<"clients", "signing-keys", "revocations", "audit">>
Documents == ToSet(Order)

\* The documents the handler's services save, in order.
Saves(h) ==
  CASE h = "token" -> <<"audit">>
    [] h \in {"registerClient", "deleteClient", "setGrants"} -> <<"clients", "audit">>
    [] h = "rotateKeys" -> <<"signing-keys", "audit">>
    [] h = "revoke" -> <<"revocations", "audit">>
    [] OTHER -> <<>>

Success(h) ==
  CASE h \in {"registerClient", "revoke"} -> 201
    [] h = "deleteClient" -> 204
    [] OTHER -> 200

-----------------------------------------------------------------------------
(* The exchange.                                                           *)

In(pc) == exchange # NoExchange /\ exchange.pc = pc

Receive(method, path) ==
  /\ \A pc \in {"routing", "handling", "saving"} : ~In(pc)
  /\ exchange' = [pc |-> "routing", method |-> method, path |-> path, cursor |-> 1,
                  wrongMethod |-> FALSE, content |-> {}, authorization |-> Null,
                  saved |-> <<>>, status |-> 0]

\* The route the loop is at, and its handler once it is found.
Current == Routes[exchange.cursor]

Answered(status) == [exchange EXCEPT !.pc = "answered", !.status = status]

\* Mutant of RouteNext: the first route of the path, whatever its method.
RouteByPath ==
  /\ In("routing") /\ exchange.cursor <= Len(Routes)
  /\ exchange' = IF Match(Current.segments, exchange.path)
                 THEN [exchange EXCEPT !.pc = "handling"]
                 ELSE [exchange EXCEPT !.cursor = @ + 1]

\* One turn of the loop in dispatch.
RouteNext ==
  /\ In("routing") /\ exchange.cursor <= Len(Routes)
  /\ LET matches == Match(Current.segments, exchange.path)
         same == Current.method = exchange.method
     IN exchange' = IF matches /\ same
                    THEN [exchange EXCEPT !.pc = "handling"]
                    ELSE [exchange EXCEPT !.cursor = @ + 1, !.wrongMethod = @ \/ matches]

\* The loop ends without a handler.
RouteEnd ==
  /\ In("routing") /\ exchange.cursor > Len(Routes)
  /\ exchange' = Answered(IF exchange.wrongMethod THEN 405 ELSE 404)

\* The handler up to its first save.
Handle(q) ==
  /\ In("handling")
  /\ \E answer \in {0, 400, 401, 404, 500} :
       /\ Answers(HandlerChecks(Current.handler, q), 0, answer)
       /\ exchange' = [exchange EXCEPT
            !.pc = IF answer = 0 THEN "saving" ELSE "answered",
            !.content = {q},
            !.authorization = IF answer = 0 /\ Current.handler \in Granting
                              THEN ToAuthorization(q.claim) ELSE Null,
            !.status = answer]

\* The next document to save.
Unsaved(d) ==
  /\ In("saving")
  /\ Len(exchange.saved) < Len(Saves(Current.handler))
  /\ d = Saves(Current.handler)[Len(exchange.saved) + 1]

Save(d) == Unsaved(d) /\ exchange' = [exchange EXCEPT !.saved = Append(@, d)]

\* Mutant of SaveFails: every exception of a handler is the request's fault.
SaveRefused(d) ==
  /\ Unsaved(d)
  /\ exchange' \in {Answered(400), [Answered(400) EXCEPT !.saved = Append(@, d)]}

\* The save throws, before or after the document is in place.  Router answers
\* any exception but an ApiException with a 500.
SaveFails(d) ==
  /\ Unsaved(d)
  /\ exchange' \in {Answered(500), [Answered(500) EXCEPT !.saved = Append(@, d)]}

Finish ==
  /\ In("saving") /\ exchange.saved = Saves(Current.handler)
  /\ exchange' = Answered(Success(Current.handler))

RouterNext ==
  \/ \E method \in Methods, path \in Paths : Receive(method, path)
  \/ RouteNext
  \/ RouteEnd
  \/ In("handling") /\ \E q \in Content(Current.handler) : Handle(q)
  \/ \E d \in Documents : Save(d) \/ SaveFails(d)
  \/ Finish

-----------------------------------------------------------------------------
(* Properties.                                                             *)

ExchangeTypeOK ==
  exchange # NoExchange =>
    /\ exchange.pc \in {"routing", "handling", "saving", "answered"}
    /\ exchange.method \in Methods /\ exchange.path \in Paths
    /\ exchange.cursor \in 1 .. Len(Routes) + 1 /\ exchange.wrongMethod \in BOOLEAN
    /\ \A q \in exchange.content : q \in Content(Current.handler)
    /\ exchange.authorization \in Authorization \union {Null}
    /\ exchange.saved \in Seq(Documents)
    /\ exchange.status \in {0, 200, 201, 204, 400, 401, 404, 405, 500}

\* The routes of a path, and those of them for the method.
OfPath == {i \in DOMAIN Routes : Match(Routes[i].segments, exchange.path)}
OfMethod == {i \in OfPath : Routes[i].method = exchange.method}

\* "A path that matches but with the wrong method yields 405, an unmatched path
\* yields 404": the loop's answer is right whatever the order of the routes,
\* since no two of them claim the same request.
DispatchByTable ==
  exchange # NoExchange =>
    /\ exchange.pc \in {"handling", "saving"} => OfMethod = {exchange.cursor}
    /\ In("answered") /\ exchange.content = {} =>
         OfMethod = {} /\ exchange.status = (IF OfPath = {} THEN 404 ELSE 405)

\* A request that is answered 4xx has changed nothing: its checks come before
\* the first call that changes a service.
RefusedChangesNothing ==
  In("answered") /\ exchange.status \in 400 .. 499 => exchange.saved = <<>>

\* Nothing under /admin changes or is shown without the admin token.
AdminGuarded ==
  exchange # NoExchange /\ exchange.path[1] = "admin"
    /\ (exchange.saved # <<>> \/ exchange.status \in {200, 201, 204}) =>
      \A q \in exchange.content : q.bearer = "admin"

\* "Unknown operation names are rejected loudly rather than silently dropped, so
\* a typo in a grant cannot quietly widen or narrow access": the authorization
\* that a registration or a PUT stores says neither more nor less than the
\* request did, and a verifier reads the same in the token made of it.
GrantsExact ==
  exchange # NoExchange /\ exchange.authorization # Null =>
    LET claim == From(exchange.authorization) IN
      /\ \A q \in exchange.content : Says(claim) = Says(q.claim)
      /\ ClaimObjection(claim) = {} /\ ToAuthorization(claim) = exchange.authorization

=============================================================================
