------------------------------ MODULE Pipeline ------------------------------
(***************************************************************************)
(* What a request passes on its way to a handler: the Host/Origin guard,   *)
(* the gate before routing, the router, the dependency that enforces a     *)
(* route's declared policy, and on the MCP mount the verifier and the      *)
(* scope of the tool; with the credentials it may present, the owner's     *)
(* browser session and personal access tokens                              *)
(* (backend/app/ingress.py, backend/app/auth/, services/tokens.py).        *)
(*                                                                         *)
(* The principal is resolved once, in a transaction of its own, before the *)
(* body is read and the handler runs: credentials may go, expire or be     *)
(* revoked by the owner elsewhere in between.  Whatever of a request is    *)
(* read at one place only is chosen there.  MCP OAuth grants are Grants.   *)
(***************************************************************************)
EXTENDS Integers, FiniteSets

CONSTANTS
    Requests,
    Tokens,     \* personal access tokens that may be minted, each once
    Sessions,   \* browser sessions that may be begun, each once
    None

ASSUME PipelineAssumption ==
    None \notin Tokens \cup Sessions /\ {"absent", "malformed", "wrong"} \cap Tokens = {}

Scopes == {"read", "write", "admin"}

\* POST stands for every unsafe method that something declares; OPTIONS and PUT are
\* a safe and an unsafe one that no route here does.
Methods == {"GET", "OPTIONS", "POST", "PUT"}
SafeMethods == {"GET", "OPTIONS"}

\* A route as the registry declares it: act names what its handler does, limited
\* whether it declares a body budget.
Route(path, method, credential, act) ==
    [path |-> path, method |-> method, credential |-> credential, act |-> act,
     bearerRefused |-> path \in {"/auth/login", "/auth/logout"},
     limited |-> path \in {"/auth/login", "/auth/logout"}]

Routes == {
    Route("/healthz", "GET", "anonymous", "look"),
    Route("/readyz", "GET", "internal", "look"),
    Route("/auth/session", "GET", "anonymous", "look"),
    Route("/auth/login", "POST", "anonymous", "login"),
    Route("/auth/logout", "POST", "anonymous", "logout"),
    Route("/auth/tokens", "GET", "admin", "list"),
    Route("/auth/tokens", "POST", "admin", "mint"),
    Route("/auth/tokens/id", "POST", "admin", "revoke"),
    Route("/settings", "GET", "read", "read"),
    Route("/settings", "POST", "admin", "reconfigure"),
    Route("/kits", "GET", "read", "read"),
    Route("/kits", "POST", "write", "write") }

\* The child app: the transport, one of the six protocol routes, and a path it does
\* not have.
MountPaths == {"/mcp/", "/mcp/token", "/mcp/nowhere"}

\* The verbs the registry declares for the child's routes; of the transport's, POST
\* stands for DELETE too.
Declared == [path \in {"/mcp/", "/mcp/token"} |->
    IF path = "/mcp/" THEN {"GET", "POST"} ELSE {"OPTIONS", "POST"}]

\* A discovery document, and a path nothing serves.
Paths == {r.path : r \in Routes} \cup MountPaths \cup {"/.well-known/", "/nowhere"}

\* What a handler, or an MCP tool, needs of whoever it acts for.
Needs(act) ==
    CASE act = "read" -> {"read"}
      [] act = "write" -> {"write"}
      [] act \in {"list", "mint", "revoke", "reconfigure"} -> {"admin"}
      [] OTHER -> {}

Bearers == {"absent", "malformed", "wrong"} \cup Tokens

\* from: the owner's own page, another site's in the owner's browser, or a script.
\* csrf: the X-CSRF-Token is the session's.  History: may, what the credential it
\* presents gave it at its arrival, and leak, that it was a token revoked by then.
Asked == [from : {"page", "site", "script"}, path : Paths, method : Methods,
          bearer : Bearers, cookie : Sessions \cup {None},
          origin : {"own", "foreign", "absent"}, csrf : BOOLEAN,
          may : SUBSET Scopes, leak : BOOLEAN]

Principals == [kind : {"anon", "owner", "pat"}, scopes : SUBSET Scopes]
Anon == [kind |-> "anon", scopes |-> {}]
Owner == [kind |-> "owner", scopes |-> Scopes]

Idle == [at |-> "idle"]

VARIABLES
    tokens,     \* rows: "none" before it is minted; its scopes
    sessions,   \* "none" before it begins
    requests,
    reported    \* tokens that auth.token_use_after_revoke rows name

vars == <<tokens, sessions, requests, reported>>

Request ==
    {Idle}
    \cup [at : {"arrived"}, asked : Asked]
    \cup [at : {"resolved"}, asked : Asked, principal : Principals]
    \cup [at : {"answered"}, asked : Asked, status : {200, 401, 403, 404, 405, 413, 421, 422, 429},
          did : {r.act : r \in Routes} \cup {"nothing"}]

TypeOK ==
    /\ tokens \in [Tokens -> [state : {"none", "live", "expired", "revoked"}, scopes : SUBSET Scopes]]
    /\ sessions \in [Sessions -> {"none", "live", "over"}]
    /\ requests \in [Requests -> Request]
    /\ reported \subseteq Tokens

-----------------------------------------------------------------------------
(* Arrival.                                                                *)

\* What a request may ask for, said without the program: a presented bearer alone
\* decides when there is one, else the cookie's session.
Authority(bearer, cookie) ==
    IF bearer # "absent"
    THEN IF bearer \in Tokens /\ tokens[bearer].state = "live" THEN tokens[bearer].scopes ELSE {}
    ELSE IF cookie # None /\ sessions[cookie] = "live" THEN Scopes ELSE {}

\* A page of another origin cannot read the token it would need, nor set
\* Authorization; it can leave out neither the cookie nor, always, its origin.
Possible(from, bearer, origin, csrf) ==
    CASE from = "page" -> bearer = "absent" /\ origin = "own" /\ csrf
      [] from = "site" -> bearer = "absent" /\ origin # "own" /\ ~csrf
      [] from = "script" -> origin # "foreign"

\* HostOriginGuardMiddleware: an unsafe request's Origin, or else its Referer.
OriginAllowed(method, origin) == method \in SafeMethods \/ origin # "foreign"

Answers(r, asked, status, did) ==
    requests' = [requests EXCEPT ![r] =
        [at |-> "answered", asked |-> asked, status |-> status, did |-> did]]

\* A presented token or cookie is one that was given out.
Arrive(r) ==
    /\ requests[r].at = "idle"
    /\ \E from \in {"page", "site", "script"}, path \in Paths, method \in Methods,
          bearer \in {"absent", "malformed", "wrong"} \cup {t \in Tokens : tokens[t].state # "none"},
          cookie \in {None} \cup {s \in Sessions : sessions[s] # "none"},
          origin \in {"own", "foreign", "absent"}, csrf \in BOOLEAN, hostAllowed \in BOOLEAN :
          /\ Possible(from, bearer, origin, csrf)
          /\ LET asked == [from |-> from, path |-> path, method |-> method, bearer |-> bearer,
                           cookie |-> cookie, origin |-> origin, csrf |-> csrf,
                           may |-> Authority(bearer, cookie),
                           leak |-> bearer \in Tokens /\ tokens[bearer].state = "revoked"]
             IN  IF ~hostAllowed THEN Answers(r, asked, 421, "nothing")
                 ELSE IF ~OriginAllowed(method, origin) THEN Answers(r, asked, 403, "nothing")
                 ELSE requests' = [requests EXCEPT ![r] = [at |-> "arrived", asked |-> asked]]
    /\ UNCHANGED <<tokens, sessions, reported>>

-----------------------------------------------------------------------------
(* The gate before routing.                                                *)

Protocol == [kind |-> "protocol", routes |-> {}]

\* What the router will do with it: the protocol's namespace and the mount decide
\* for themselves.
Outcome(asked) ==
    LET there == {route \in Routes : route.path = asked.path}
        full == {route \in there : route.method = asked.method}
    IN  IF asked.path = "/.well-known/" THEN Protocol
        ELSE IF asked.path \in MountPaths THEN [kind |-> "mount", routes |-> {}]
        ELSE IF full # {} THEN [kind |-> "full", routes |-> full]
        ELSE IF there # {} THEN [kind |-> "partial", routes |-> there]
        ELSE [kind |-> "none", routes |-> {}]

\* Whether a request without a credential is refused before the router sees it.
RefusesAnonymous(outcome) ==
    CASE outcome.kind \in {"mount", "protocol"} -> FALSE
      [] outcome.kind = "none" -> TRUE
      [] outcome.kind = "full" ->
            \E route \in outcome.routes : route.credential \notin {"anonymous", "internal"}
      [] outcome.kind = "partial" ->
            \E route \in outcome.routes : route.credential # "anonymous"

\* Mutant of Resolve: a bearer that fails leaves the cookie to decide.
ResolveEither(asked) ==
    IF asked.bearer \in Tokens /\ tokens[asked.bearer].state = "live"
    THEN [kind |-> "pat", scopes |-> tokens[asked.bearer].scopes]
    ELSE IF asked.cookie # None /\ sessions[asked.cookie] = "live" THEN Owner
    ELSE Anon

\* resolve_principal: None for a bearer that was presented and failed; a cookie
\* that names no live session is nobody's.
Resolve(asked) ==
    IF asked.bearer # "absent"
    THEN IF asked.bearer \in Tokens /\ tokens[asked.bearer].state = "live"
         THEN [kind |-> "pat", scopes |-> tokens[asked.bearer].scopes]
         ELSE None
    ELSE IF asked.cookie # None /\ sessions[asked.cookie] = "live" THEN Owner
    ELSE Anon

\* The row a revoked token's right secret earns, committed before the refusal.
Reports(asked) ==
    {t \in Tokens : asked.bearer = t /\ tokens[t].state = "revoked"}

Goes(r, principal) ==
    requests' = [requests EXCEPT ![r] =
        [at |-> "resolved", asked |-> requests[r].asked, principal |-> principal]]

\* PreRoutingAuthMiddleware, up to the body.
PassGate(r) ==
    /\ requests[r].at = "arrived"
    /\ requests[r].asked.path \notin MountPaths \cup {"/.well-known/"}
    /\ LET asked == requests[r].asked
           principal == Resolve(asked)
       IN  /\ reported' = reported \cup Reports(asked)
           /\ IF principal = None \/ (principal = Anon /\ RefusesAnonymous(Outcome(asked)))
              THEN Answers(r, asked, 401, "nothing")
              ELSE Goes(r, principal)
    /\ UNCHANGED <<tokens, sessions>>

\* Discovery is anonymous by protocol; local mode answers 404 there, its documents'
\* routes 405 to a verb they do not have.
Discover(r) ==
    /\ requests[r].at = "arrived"
    /\ requests[r].asked.path = "/.well-known/"
    /\ \/ Answers(r, requests[r].asked, 404, "nothing")
       \/ /\ requests[r].asked.method \notin SafeMethods
          /\ Answers(r, requests[r].asked, 405, "nothing")
    /\ UNCHANGED <<tokens, sessions, reported>>

AtMount(r) == requests[r].at = "arrived" /\ requests[r].asked.path \in MountPaths

\* The mount answers without asking who is there, though FastMCP's middleware may
\* have had a presented bearer verified by then.
MountAnswers(r, status) ==
    /\ reported' \in {reported, reported \cup Reports(requests[r].asked)}
    /\ Answers(r, requests[r].asked, status, "nothing")
    /\ UNCHANGED <<tokens, sessions>>

\* FastMCP's own guard judges an Origin whatever the method; it reads no Referer.
ChildGuardRefuses(r) ==
    AtMount(r) /\ requests[r].asked.origin = "foreign" /\ MountAnswers(r, 403)

\* RouteBinding: a verb the route does not declare, before what the route wraps.
RefuseVerb(r) ==
    /\ AtMount(r)
    /\ requests[r].asked.path \in DOMAIN Declared
    /\ requests[r].asked.method \notin Declared[requests[r].asked.path]
    /\ MountAnswers(r, 405)

\* A protocol route in local mode, or a path the child does not have.
NotInChild(r) ==
    /\ AtMount(r)
    /\ \/ /\ requests[r].asked.path = "/mcp/token"
          /\ requests[r].asked.method \in Declared["/mcp/token"]
       \/ requests[r].asked.path = "/mcp/nowhere"
    /\ MountAnswers(r, 404)

\* Below the binding FastMCP asks PersonalAccessTokenVerifier; a cookie is not read.
VerifyBearer(r) ==
    /\ requests[r].at = "arrived"
    /\ requests[r].asked.path = "/mcp/"
    /\ requests[r].asked.method \in Declared["/mcp/"]
    /\ LET asked == requests[r].asked
           principal == Resolve([asked EXCEPT !.cookie = None])
       IN  /\ reported' = reported \cup Reports(asked)
           /\ IF principal \in {None, Anon} THEN Answers(r, asked, 401, "nothing")
              ELSE Goes(r, principal)
    /\ UNCHANGED <<tokens, sessions>>

-----------------------------------------------------------------------------
(* The router, the dependency and the handlers.                            *)

\* The client leaves while its body is read: nothing runs and nothing is answered.
Disconnect(r) ==
    /\ requests[r].at = "resolved"
    /\ requests[r].asked.method = "POST"
    /\ requests' = [requests EXCEPT ![r] = Idle]
    /\ UNCHANGED <<tokens, sessions, reported>>

\* The router's own answers, for those the gate let through.
NotRouted(r) ==
    /\ requests[r].at = "resolved"
    /\ LET asked == requests[r].asked
           kind == Outcome(asked).kind
       IN  \/ kind = "none" /\ Answers(r, asked, 404, "nothing")
           \/ kind = "partial" /\ Answers(r, asked, 405, "nothing")
    /\ UNCHANGED <<tokens, sessions, reported>>

Reached(r, route) ==
    /\ requests[r].at = "resolved"
    /\ requests[r].asked.path = route.path
    /\ requests[r].asked.method = route.method

\* A body over the route's budget, before any parser; one that is no JSON, before
\* the dependency.
BadBody(r, route) ==
    /\ Reached(r, route)
    /\ route.method = "POST"
    /\ \/ route.limited /\ Answers(r, requests[r].asked, 413, "nothing")
       \/ Answers(r, requests[r].asked, 422, "nothing")
    /\ UNCHANGED <<tokens, sessions, reported>>

\* A cookie-borne unsafe request names its origin and carries the session's token.
CsrfHolds(asked, principal) ==
    asked.method \in SafeMethods \/ principal.kind # "owner" \/ (asked.origin # "absent" /\ asked.csrf)

\* enforce_route_policy's refusal, 0 for none.
Refusal(asked, principal, route) ==
    IF ~CsrfHolds(asked, principal) \/ (route.bearerRefused /\ principal.kind = "pat") THEN 403
    ELSE IF route.credential \in {"anonymous", "internal"} THEN 0
    ELSE IF principal = Anon THEN 401
    ELSE IF route.credential \in principal.scopes THEN 0
    ELSE 403

Refuse(r, route) ==
    /\ Reached(r, route)
    /\ LET q == requests[r]
           status == Refusal(q.asked, q.principal, route)
       IN  status # 0 /\ Answers(r, q.asked, status, "nothing")
    /\ UNCHANGED <<tokens, sessions, reported>>

Admitted(r, route) ==
    /\ Reached(r, route)
    /\ Refusal(requests[r].asked, requests[r].principal, route) = 0

\* Handlers that leave credentials alone.
Serve(r, route) ==
    /\ Admitted(r, route)
    /\ route.act \in {"look", "list", "read", "write", "reconfigure"}
    /\ \/ Answers(r, requests[r].asked, 200, route.act)
       \/ route.credential = "internal" /\ Answers(r, requests[r].asked, 404, "nothing")
    /\ UNCHANGED <<tokens, sessions, reported>>

\* The password is right and a session begins, or it is not, or is not looked at.
SignIn(r, route) ==
    /\ Admitted(r, route)
    /\ route.act = "login"
    /\ \/ \E s \in Sessions :
             /\ sessions[s] = "none"
             /\ sessions' = [sessions EXCEPT ![s] = "live"]
             /\ Answers(r, requests[r].asked, 200, "login")
       \/ /\ \E status \in {403, 429} : Answers(r, requests[r].asked, status, "nothing")
          /\ UNCHANGED sessions
    /\ UNCHANGED <<tokens, reported>>

\* Revokes the session the gate resolved, if it is still live.
SignOut(r, route) ==
    /\ Admitted(r, route)
    /\ route.act = "logout"
    /\ LET asked == requests[r].asked
       IN  IF requests[r].principal = Owner
           THEN /\ sessions' = [sessions EXCEPT ![asked.cookie] = "over"]
                /\ Answers(r, asked, 200, "logout")
           ELSE UNCHANGED sessions /\ Answers(r, asked, 200, "nothing")
    /\ UNCHANGED <<tokens, reported>>

\* A token may hold read and write, never admin.
Grantable(scopes) == scopes # {} /\ scopes \subseteq {"read", "write"}

\* Write implies read.
Encoded(scopes) == IF "write" \in scopes THEN scopes \cup {"read"} ELSE scopes

Mint(r, route) ==
    /\ Admitted(r, route)
    /\ route.act = "mint"
    /\ \E t \in Tokens, scopes \in SUBSET Scopes :
          /\ tokens[t].state = "none"
          /\ IF Grantable(scopes)
             THEN /\ tokens' = [tokens EXCEPT ![t] = [state |-> "live", scopes |-> Encoded(scopes)]]
                  /\ Answers(r, requests[r].asked, 200, "mint")
             ELSE UNCHANGED tokens /\ Answers(r, requests[r].asked, 422, "nothing")
    /\ UNCHANGED <<sessions, reported>>

\* Idempotent; 404 for an id no token has.
Revoke(r, route) ==
    /\ Admitted(r, route)
    /\ route.act = "revoke"
    /\ \/ \E t \in Tokens :
             /\ tokens[t].state # "none"
             /\ tokens' = [tokens EXCEPT ![t].state = "revoked"]
             /\ Answers(r, requests[r].asked, 200, "revoke")
       \/ Answers(r, requests[r].asked, 404, "nothing") /\ UNCHANGED tokens
    /\ UNCHANGED <<sessions, reported>>

\* ToolScopeMiddleware: a tool needs the scope it declares, read or write.
CallTool(r, act) ==
    /\ requests[r].at = "resolved"
    /\ requests[r].asked.path = "/mcp/"
    /\ requests[r].asked.method = "POST"
    /\ LET q == requests[r]
       IN Answers(r, q.asked, 200, IF Needs(act) \subseteq q.principal.scopes THEN act ELSE "nothing")
    /\ UNCHANGED <<tokens, sessions, reported>>

\* A stream opened or ended, or a message that calls no tool.
UseTransport(r) ==
    /\ requests[r].at = "resolved"
    /\ requests[r].asked.path = "/mcp/"
    /\ Answers(r, requests[r].asked, 200, "nothing")
    /\ UNCHANGED <<tokens, sessions, reported>>

Leave(r) ==
    /\ requests[r].at = "answered"
    /\ requests' = [requests EXCEPT ![r] = Idle]
    /\ UNCHANGED <<tokens, sessions, reported>>

-----------------------------------------------------------------------------
(* Meanwhile.                                                              *)

Expire(t) ==
    /\ tokens[t].state = "live"
    /\ tokens' = [tokens EXCEPT ![t].state = "expired"]
    /\ UNCHANGED <<sessions, requests, reported>>

\* The owner revokes it in another tab.
RevokeElsewhere(t) ==
    /\ tokens[t].state \in {"live", "expired"}
    /\ tokens' = [tokens EXCEPT ![t].state = "revoked"]
    /\ UNCHANGED <<sessions, requests, reported>>

\* It expires or idles out, is signed out in another tab, or the host revokes it.
EndSession(s) ==
    /\ sessions[s] = "live"
    /\ sessions' = [sessions EXCEPT ![s] = "over"]
    /\ UNCHANGED <<tokens, requests, reported>>

Init ==
    /\ tokens = [t \in Tokens |-> [state |-> "none", scopes |-> {}]]
    /\ sessions = [s \in Sessions |-> "none"]
    /\ requests = [r \in Requests |-> Idle]
    /\ reported = {}

Next ==
    \/ \E r \in Requests :
          \/ Arrive(r) \/ PassGate(r) \/ Discover(r) \/ VerifyBearer(r)
          \/ ChildGuardRefuses(r) \/ RefuseVerb(r) \/ NotInChild(r)
          \/ Disconnect(r) \/ NotRouted(r) \/ UseTransport(r) \/ Leave(r)
          \/ \E act \in {"read", "write"} : CallTool(r, act)
          \/ \E route \in Routes :
                \/ BadBody(r, route) \/ Refuse(r, route) \/ Serve(r, route)
                \/ SignIn(r, route) \/ SignOut(r, route) \/ Mint(r, route) \/ Revoke(r, route)
    \/ \E t \in Tokens : Expire(t) \/ RevokeElsewhere(t)
    \/ \E s \in Sessions : EndSession(s)

Spec == Init /\ [][Next]_vars

-----------------------------------------------------------------------------
(* Properties.                                                             *)

Answered == {r \in Requests : requests[r].at = "answered"}

\* What was done for a request is within what the credential it presented gave it
\* when it came: a bearer is never helped by a cookie beside it, and nothing is
\* changed for another site's page but what a password, and no session, is for.
WithinAuthority ==
    \A r \in Answered :
        LET q == requests[r]
        IN  /\ Needs(q.did) \subseteq q.asked.may
            /\ q.did = "logout" => "admin" \in q.asked.may
            /\ q.did \in {"login", "logout"} => q.asked.bearer = "absent"
            /\ q.asked.from = "site" /\ q.asked.may # {}
               => q.did \in {"look", "list", "read", "login", "nothing"}

\* Whether everything at the path is public, whatever the method.
Open(asked) ==
    \/ asked.path \in {"/.well-known/", "/healthz", "/auth/session", "/auth/login", "/auth/logout"}
    \/ asked.path = "/readyz" /\ asked.method = "GET"

\* Whether the mount answers before a bearer is required: but for the transport's
\* own verbs it always does.
BeforeBearer(asked) ==
    /\ asked.path \in MountPaths
    /\ asked.path = "/mcp/" => asked.method \notin Declared["/mcp/"]

\* What the mount then says, to anyone.
SaidToAll(asked) ==
    IF asked.path \in DOMAIN Declared /\ asked.method \notin Declared[asked.path] THEN 405 ELSE 404

\* A caller whose credential gives it nothing reads one answer on every other path:
\* not which paths, methods and bodies there are.  What the mount answers before it
\* requires a bearer is public, and is the same to a caller whose credential is good:
\* it says nothing of the credential.
TellsNothing ==
    \A r \in Answered :
        LET q == requests[r]
        IN  q.status \notin {421, 403} =>
               IF BeforeBearer(q.asked) THEN q.status = SaidToAll(q.asked) /\ q.did = "nothing"
               ELSE q.asked.may = {} /\ ~Open(q.asked) => q.status = 401

\* A 403 it reads is a guard's, which knows no routes.
GuardOnly ==
    \A r \in Answered :
        LET q == requests[r]
        IN  q.asked.may = {} /\ ~Open(q.asked) /\ q.status = 403
                => /\ q.asked.origin = "foreign"
                   /\ q.asked.method \notin SafeMethods \/ q.asked.path \in MountPaths

TokensAreNoAdmins == \A t \in Tokens : "admin" \notin tokens[t].scopes

\* A token that is used after it was revoked is reported, whatever it is used for
\* where a credential counts, though the refusal ends its request's transaction.
LeakIsReported ==
    \A r \in Answered :
        LET q == requests[r]
        IN  /\ q.asked.leak /\ q.status \notin {421, 403}
            /\ q.asked.path # "/.well-known/" /\ ~BeforeBearer(q.asked)
            => q.asked.bearer \in reported

\* Of every request: what it may do and learn, that no token comes by the scope that
\* mints tokens, and that a leaked one is noticed ("a token cannot mint a token",
\* auth/registry.py; "an anonymous client could map the route table without a
\* credential", auth/prerouting.py; "the use-after-revoke audit row has to land
\* first", auth/resolver.py).
Admission ==
    TypeOK /\ WithinAuthority /\ TellsNothing /\ GuardOnly /\ TokensAreNoAdmins /\ LeakIsReported

=============================================================================
