--------------------------- MODULE PipelineProofs ---------------------------
(* Theorems about a request's way to its handler (Pipeline) and about the   *)
(* rows of those the guard refuses (AuditLog), for any number of requests,  *)
(* tokens, sessions, addresses and recorders.                               *)
EXTENDS Pipeline, AuditLog, SumLemmas

-----------------------------------------------------------------------------
(* The pipeline: what holds of a request on its way.                       *)

(* What a request that came with asked may rely on: the credential it shows  *)
(* was given out, and gives it no more than it did then.                     *)
Borne(asked) ==
    /\ asked.bearer \in Tokens => tokens[asked.bearer].state # "none"
    /\ asked.cookie # None => sessions[asked.cookie] # "none"
    /\ Authority(asked.bearer, asked.cookie) \subseteq asked.may
    /\ asked.leak => asked.bearer \in Tokens /\ tokens[asked.bearer].state = "revoked"
    /\ asked.from = "site" => asked.bearer = "absent" /\ ~asked.csrf

(* What holds of a request the gate or the verifier has let through: its     *)
(* principal is its credential's, and one without any asks for what is open. *)
Through(asked, principal) ==
    /\ principal.scopes \subseteq asked.may
    /\ principal.kind = "anon" => principal = Anon /\ asked.path # "/mcp/"
    /\ principal.kind = "owner" => principal = Owner /\ asked.path # "/mcp/"
    /\ ~BeforeBearer(asked)
    /\ principal.kind = "pat" <=> asked.bearer # "absent"
    /\ asked.may = {} => Open(asked)
    /\ ~asked.leak
    /\ asked.from = "site" => asked.bearer = "absent" /\ ~asked.csrf

(* What is promised of an answer, the tokens reported being told.            *)
Promise(asked, status, did, told) ==
    /\ Needs(did) \subseteq asked.may
    /\ did = "logout" => "admin" \in asked.may
    /\ did \in {"login", "logout"} => asked.bearer = "absent"
    /\ asked.from = "site" /\ asked.may # {}
         => did \in {"look", "list", "read", "login", "nothing"}
    /\ status \notin {421, 403} /\ BeforeBearer(asked)
         => status = SaidToAll(asked) /\ did = "nothing"
    /\ status \notin {421, 403} /\ ~BeforeBearer(asked) /\ asked.may = {} /\ ~Open(asked)
         => status = 401
    /\ asked.may = {} /\ ~Open(asked) /\ status = 403
         => /\ asked.origin = "foreign"
            /\ asked.method \notin SafeMethods \/ asked.path \in MountPaths
    /\ asked.leak /\ status \notin {421, 403} /\ asked.path # "/.well-known/" /\ ~BeforeBearer(asked)
         => asked.bearer \in told

Way(q) ==
    /\ q.at = "arrived" => Borne(q.asked)
    /\ q.at = "resolved" => Through(q.asked, q.principal)
    /\ q.at = "answered" => Promise(q.asked, q.status, q.did, reported)

(* A token in use has a scope, and none has the administrator's.             *)
TokensScoped ==
    \A t \in Tokens : /\ tokens[t].scopes \subseteq {"read", "write"}
                      /\ tokens[t].state = "live" => tokens[t].scopes # {}

AdmissionInv == TypeOK /\ TokensScoped /\ \A r \in Requests : Way(requests[r])

-----------------------------------------------------------------------------
(* The route table.                                                        *)

\* What the routes' declarations have in common.
LEMMA RoutesDeclared ==
    ASSUME NEW route \in Routes
    PROVE  /\ route.credential = "anonymous" =>
                route.path \in {"/healthz", "/auth/session", "/auth/login", "/auth/logout"}
           /\ route.credential = "internal" => route.path = "/readyz" /\ route.method = "GET"
           /\ route.credential \in {"anonymous", "internal"} =>
                route.act \in {"look", "login", "logout"}
           /\ route.credential \notin {"anonymous", "internal"} =>
                route.act \notin {"login", "logout"} /\ Needs(route.act) \subseteq {route.credential}
           /\ route.act \in {"login", "logout"} => route.bearerRefused
           /\ route.method = "GET" => route.act \in {"look", "list", "read"}
           /\ route.path \notin MountPaths \cup {"/.well-known/", "/nowhere"}
           /\ route.act \in {"look", "login", "logout", "list", "mint", "revoke",
                             "read", "reconfigure", "write"}
           /\ route.method \in {"GET", "POST"}
  <1>1. /\ route.credential = "anonymous" =>
             route.path \in {"/healthz", "/auth/session", "/auth/login", "/auth/logout"}
        /\ route.credential = "internal" => route.path = "/readyz" /\ route.method = "GET"
    BY DEF Route, Routes
  <1>2. route.credential \in {"anonymous", "internal"} => route.act \in {"look", "login", "logout"}
    BY DEF Route, Routes
  <1>3. route.credential \notin {"anonymous", "internal"} => route.act \notin {"login", "logout"}
    BY DEF Route, Routes
  <1>4. /\ route.act \in {"login", "logout"} => route.path \in {"/auth/login", "/auth/logout"}
        /\ route.method = "GET" => route.act \in {"look", "list", "read"}
    BY DEF Route, Routes
  <1>5. /\ route.path \notin MountPaths \cup {"/.well-known/", "/nowhere"}
        /\ route.act \in {"look", "login", "logout", "list", "mint", "revoke",
                          "read", "reconfigure", "write"}
        /\ route.method \in {"GET", "POST"}
    BY DEF Route, Routes, MountPaths
  <1>6. /\ route.act = "read" => route.credential = "read"
        /\ route.act = "write" => route.credential = "write"
        /\ route.act \in {"list", "mint", "revoke", "reconfigure"} => route.credential = "admin"
    BY DEF Route, Routes
  <1>8. route.bearerRefused = (route.path \in {"/auth/login", "/auth/logout"})
    <2>1. PICK path, method, credential, act : route = Route(path, method, credential, act)
      BY DEF Routes
    <2> QED
      BY <2>1 DEF Route
  <1>7. Needs(route.act) \subseteq {route.credential}
    BY <1>5, <1>6 DEF Needs
  <1> QED
    BY <1>1, <1>2, <1>3, <1>4, <1>5, <1>7, <1>8

\* What the gate lets an anonymous caller through to is open.
LEMMA AnonymousReachesTheOpen ==
    ASSUME NEW asked \in Asked, asked.path \notin MountPaths \cup {"/.well-known/"},
           ~RefusesAnonymous(Outcome(asked))
    PROVE  Open(asked)
  <1> DEFINE there == {route \in Routes : route.path = asked.path}
             full == {route \in there : route.method = asked.method}
  <1>1. CASE full # {}
    <2>1. Outcome(asked) = [kind |-> "full", routes |-> full]
      BY <1>1 DEF Outcome
    <2>2. \A route \in full : route.credential \in {"anonymous", "internal"}
      BY <2>1 DEF RefusesAnonymous
    <2>3. PICK route \in full : TRUE
      BY <1>1
    <2>4. /\ route \in Routes /\ route.path = asked.path /\ route.method = asked.method
          /\ route.credential \in {"anonymous", "internal"}
      BY <2>2, <2>3
    <2> HIDE DEF there, full
    <2> QED
      BY <2>4, RoutesDeclared DEF Open
  <1>2. CASE full = {} /\ there # {}
    <2>1. Outcome(asked) = [kind |-> "partial", routes |-> there]
      BY <1>2 DEF Outcome
    <2>2. \A route \in there : route.credential = "anonymous"
      BY <2>1 DEF RefusesAnonymous
    <2>3. PICK route \in there : TRUE
      BY <1>2
    <2>4. route \in Routes /\ route.path = asked.path /\ route.credential = "anonymous"
      BY <2>2, <2>3
    <2> HIDE DEF there, full
    <2> QED
      BY <2>4, RoutesDeclared DEF Open
  <1>3. CASE full = {} /\ there = {}
    <2>1. Outcome(asked) = [kind |-> "none", routes |-> {}]
      BY <1>3 DEF Outcome
    <2> QED
      BY <2>1 DEF RefusesAnonymous
  <1> QED
    BY <1>1, <1>2, <1>3

-----------------------------------------------------------------------------
(* What a request is known by.                                             *)

LEMMA RequestCases ==
    ASSUME NEW q \in Request
    PROVE  /\ q.at \in {"idle", "arrived", "resolved", "answered"}
           /\ q.at # "idle" => q.asked \in Asked
           /\ q.at = "resolved" => q.principal \in Principals
  BY DEF Request, Idle

\* What resolves a credential keeps within what it gives.
LEMMA ResolvedWithin ==
    ASSUME AdmissionInv, NEW asked \in Asked
    PROVE  LET p == Resolve(asked)
           IN  p # None =>
                  /\ p \in Principals
                  /\ p.scopes = Authority(asked.bearer, asked.cookie)
                  /\ p.kind = "anon" => p = Anon
                  /\ p.kind = "owner" => p = Owner
                  /\ p.kind = "pat" <=> asked.bearer # "absent"
                  /\ p.kind = "pat" => p.scopes # {} /\ tokens[asked.bearer].state = "live"
  <1>1. CASE asked.bearer # "absent" /\ asked.bearer \in Tokens /\ tokens[asked.bearer].state = "live"
    <2>1. tokens[asked.bearer].scopes \subseteq Scopes /\ tokens[asked.bearer].scopes # {}
      BY <1>1 DEF AdmissionInv, TypeOK, TokensScoped, Scopes
    <2> QED
      BY <1>1, <2>1 DEF Resolve, Authority, Principals, Anon, Owner
  <1>2. CASE asked.bearer = "absent" /\ asked.cookie # None /\ sessions[asked.cookie] = "live"
    BY <1>2 DEF Resolve, Authority, Principals, Owner, Scopes
  <1>3. CASE asked.bearer = "absent" /\ ~(asked.cookie # None /\ sessions[asked.cookie] = "live")
    BY <1>3 DEF Resolve, Authority, Principals, Anon
  <1>4. CASE asked.bearer # "absent" /\ ~(asked.bearer \in Tokens /\ tokens[asked.bearer].state = "live")
    BY <1>4 DEF Resolve
  <1> QED
    BY <1>1, <1>2, <1>3, <1>4

-----------------------------------------------------------------------------
(* Time passes for the others: credentials are given out once, and come to *)
(* an end; what was reported stays reported.                               *)

Later ==
    /\ \A t \in Tokens :
          /\ tokens[t].state # "none" =>
                /\ tokens'[t].state # "none"
                /\ tokens'[t].state = "live" =>
                      tokens[t].state = "live" /\ tokens'[t].scopes = tokens[t].scopes
          /\ tokens[t].state = "revoked" => tokens'[t].state = "revoked"
    /\ \A s \in Sessions :
          sessions[s] # "none" =>
             sessions'[s] # "none" /\ (sessions'[s] = "live" => sessions[s] = "live")
    /\ reported \subseteq reported'

LEMMA LaterKeepsTheWay ==
    ASSUME AdmissionInv, Later, NEW r \in Requests, requests'[r] = requests[r]
    PROVE  Way(requests[r])'
  <1> DEFINE q == requests[r]
  <1>0. q \in Request /\ Way(q)
    BY DEF AdmissionInv, TypeOK
  <1>1. q.at # "idle" =>
          /\ q.asked.cookie \in Sessions \cup {None} /\ q.asked.may \subseteq Scopes
          /\ q.asked.bearer \in Bearers
    BY <1>0, RequestCases DEF Asked
  <1>2. requests'[r].at = "arrived" => Borne(requests[r].asked)'
    <2> SUFFICES ASSUME q.at = "arrived" PROVE Borne(requests[r].asked)'
      OBVIOUS
    <2>1. Borne(q.asked)
      BY <1>0 DEF Way
    <2>2. Authority(requests[r].asked.bearer, requests[r].asked.cookie)'
            \subseteq Authority(q.asked.bearer, q.asked.cookie)
      BY <1>1, <2>1 DEF Borne, Authority, Later
    <2> QED
      BY <1>1, <2>1, <2>2 DEF Borne, Later
  <1>3. requests'[r].at = "resolved" => Through(requests[r].asked, requests[r].principal)'
    BY <1>0 DEF Way, Through, BeforeBearer, Open, Anon, Owner, Scopes
  <1>4. q.at = "answered" => Promise(q.asked, q.status, q.did, reported')
    BY <1>0 DEF Way, Promise, Later
  <1> QED
    BY <1>2, <1>3, <1>4 DEF Way

\* The types of what requests rely on.
CredentialsTyped ==
    /\ tokens \in [Tokens -> [state : {"none", "live", "expired", "revoked"}, scopes : SUBSET Scopes]]
    /\ sessions \in [Sessions -> {"none", "live", "over"}]
    /\ reported \subseteq Tokens

\* A step of one request, which leaves the others where they are.
LEMMA OneRequestMoves ==
    ASSUME AdmissionInv, Later, CredentialsTyped', TokensScoped', NEW r \in Requests,
           NEW q \in Request, requests' = [requests EXCEPT ![r] = q], Way(requests[r])'
    PROVE  AdmissionInv'
  <1>1. requests \in [Requests -> Request]
    BY DEF AdmissionInv, TypeOK
  <1>2. requests' \in [Requests -> Request]
    BY <1>1
  <1>3. ASSUME NEW s \in Requests PROVE Way(requests[s])'
    <2>1. CASE s = r
      BY <2>1
    <2>2. CASE s # r
      <3>1. requests'[s] = requests[s]
        BY <1>1, <2>2
      <3> QED
        BY <3>1, LaterKeepsTheWay
    <2> QED
      BY <2>1, <2>2
  <1>4. TypeOK'
    BY <1>2 DEF TypeOK, CredentialsTyped
  <1> QED
    BY <1>3, <1>4 DEF AdmissionInv

\* A step that moves no request.
LEMMA NoRequestMoves ==
    ASSUME AdmissionInv, Later, CredentialsTyped', TokensScoped', requests' = requests
    PROVE  AdmissionInv'
  <1>1. requests \in [Requests -> Request]
    BY DEF AdmissionInv, TypeOK
  <1>2. ASSUME NEW s \in Requests PROVE Way(requests[s])'
    BY LaterKeepsTheWay
  <1>3. TypeOK'
    BY <1>1 DEF TypeOK, CredentialsTyped
  <1> QED
    BY <1>2, <1>3 DEF AdmissionInv

\* Most steps leave the credentials alone.
LEMMA CredentialsStay ==
    ASSUME AdmissionInv, UNCHANGED <<tokens, sessions>>,
           reported \subseteq reported' /\ reported' \subseteq Tokens
    PROVE  Later /\ CredentialsTyped' /\ TokensScoped'
  BY DEF AdmissionInv, TypeOK, Later, CredentialsTyped, TokensScoped

LEMMA RequestTyped ==
    ASSUME AdmissionInv, NEW r \in Requests
    PROVE  /\ requests[r] \in Request /\ Way(requests[r])
           /\ requests[r].at # "idle" => requests[r].asked \in Asked
           /\ requests[r].at = "resolved" => requests[r].principal \in Principals
           /\ \A q : [requests EXCEPT ![r] = q][r] = q
  <1>1. requests \in [Requests -> Request]
    BY DEF AdmissionInv, TypeOK
  <1>2. requests[r] \in Request /\ Way(requests[r]) /\ \A q : [requests EXCEPT ![r] = q][r] = q
    BY <1>1 DEF AdmissionInv
  <1> QED
    BY <1>2, RequestCases


Statuses == {200, 401, 403, 404, 405, 413, 421, 422, 429}
Deeds == {route.act : route \in Routes} \cup {"nothing"}

\* A request is answered.
LEMMA AnsweringKeeps ==
    ASSUME AdmissionInv, Later, CredentialsTyped', TokensScoped', NEW r \in Requests,
           NEW asked \in Asked, NEW status \in Statuses, NEW did \in Deeds,
           Answers(r, asked, status, did), Promise(asked, status, did, reported')
    PROVE  AdmissionInv'
  <1> DEFINE q == [at |-> "answered", asked |-> asked, status |-> status, did |-> did]
  <1>1. q \in Request
    BY DEF Request, Statuses, Deeds
  <1>2. requests' = [requests EXCEPT ![r] = q] /\ requests'[r] = q
    BY RequestTyped DEF Answers
  <1>3. Way(requests[r])'
    BY <1>2 DEF Way
  <1> HIDE DEF q
  <1> QED
    BY <1>1, <1>2, <1>3, OneRequestMoves

\* A request the gate let through is answered: the answer tells nothing it could
\* not know, and what is left to show is that what was done is its to do.
LEMMA ThroughAnswers ==
    ASSUME AdmissionInv, Later, CredentialsTyped', TokensScoped', NEW r \in Requests,
           requests[r].at = "resolved", NEW status \in Statuses, NEW did \in Deeds,
           Answers(r, requests[r].asked, status, did),
           Needs(did) \subseteq requests[r].asked.may,
           did = "logout" => "admin" \in requests[r].asked.may,
           did \in {"login", "logout"} => requests[r].asked.bearer = "absent",
           requests[r].asked.from = "site" => did \in {"look", "list", "read", "login", "nothing"}
    PROVE  AdmissionInv'
  <1>1. requests[r].asked \in Asked /\ Through(requests[r].asked, requests[r].principal)
    BY RequestTyped DEF Way
  <1>2. Promise(requests[r].asked, status, did, reported')
    BY <1>1 DEF Through, Promise
  <1> QED
    BY <1>1, <1>2, AnsweringKeeps

LEMMA ThroughRefused ==
    ASSUME AdmissionInv, UNCHANGED <<tokens, sessions, reported>>, NEW r \in Requests,
           requests[r].at = "resolved", NEW status \in Statuses,
           Answers(r, requests[r].asked, status, "nothing")
    PROVE  AdmissionInv'
  <1>1. Needs("nothing") = {} /\ "nothing" \in Deeds
    BY DEF Needs, Deeds
  <1>2. Later /\ CredentialsTyped' /\ TokensScoped'
    BY CredentialsStay DEF AdmissionInv, TypeOK
  <1> QED
    BY <1>1, <1>2, ThroughAnswers

-----------------------------------------------------------------------------
(* Steps.                                                                  *)

LEMMA ArriveKeeps ==
    ASSUME AdmissionInv, NEW r \in Requests, Arrive(r)
    PROVE  AdmissionInv'
  <1>0. PICK from \in {"page", "site", "script"}, path \in Paths, method \in Methods,
             bearer \in {"absent", "malformed", "wrong"} \cup {t \in Tokens : tokens[t].state # "none"},
             cookie \in {None} \cup {s \in Sessions : sessions[s] # "none"},
             origin \in {"own", "foreign", "absent"}, csrf \in BOOLEAN, hostAllowed \in BOOLEAN :
             /\ Possible(from, bearer, origin, csrf)
             /\ LET asked == [from |-> from, path |-> path, method |-> method, bearer |-> bearer,
                              cookie |-> cookie, origin |-> origin, csrf |-> csrf,
                              may |-> Authority(bearer, cookie),
                              leak |-> bearer \in Tokens /\ tokens[bearer].state = "revoked"]
                IN  IF ~hostAllowed THEN Answers(r, asked, 421, "nothing")
                    ELSE IF ~OriginAllowed(method, origin) THEN Answers(r, asked, 403, "nothing")
                    ELSE requests' = [requests EXCEPT ![r] = [at |-> "arrived", asked |-> asked]]
    BY DEF Arrive
  <1> DEFINE asked == [from |-> from, path |-> path, method |-> method, bearer |-> bearer,
                       cookie |-> cookie, origin |-> origin, csrf |-> csrf,
                       may |-> Authority(bearer, cookie),
                       leak |-> bearer \in Tokens /\ tokens[bearer].state = "revoked"]
  <1>1. /\ Possible(from, bearer, origin, csrf)
        /\ \/ Answers(r, asked, 421, "nothing")
           \/ ~OriginAllowed(method, origin) /\ Answers(r, asked, 403, "nothing")
           \/ requests' = [requests EXCEPT ![r] = [at |-> "arrived", asked |-> asked]]
    BY <1>0
  <1>2. Authority(bearer, cookie) \subseteq Scopes
    BY DEF AdmissionInv, TypeOK, Authority
  <1>3. asked \in Asked
    BY <1>2 DEF Asked, Bearers
  <1>4. Later /\ CredentialsTyped' /\ TokensScoped' /\ UNCHANGED <<tokens, sessions, reported>>
    BY CredentialsStay DEF Arrive, AdmissionInv, TypeOK
  <1>5. Needs("nothing") = {} /\ "nothing" \in Deeds
    BY DEF Needs, Deeds
  <1>6. /\ asked.from = "site" => asked.bearer = "absent" /\ ~asked.csrf
        /\ asked.bearer \in Tokens => tokens[asked.bearer].state # "none"
        /\ asked.cookie # None => sessions[asked.cookie] # "none"
        /\ asked.may = Authority(asked.bearer, asked.cookie)
        /\ asked.leak => asked.bearer \in Tokens /\ tokens[asked.bearer].state = "revoked"
        /\ ~OriginAllowed(method, origin) =>
              asked.origin = "foreign" /\ asked.method \notin SafeMethods
    BY <1>1, PipelineAssumption DEF Possible, OriginAllowed
  <1> HIDE DEF asked
  <1>7. CASE Answers(r, asked, 421, "nothing")
    <2>1. Promise(asked, 421, "nothing", reported')
      BY <1>5 DEF Promise
    <2> QED
      BY <1>3, <1>4, <1>5, <1>7, <2>1, AnsweringKeeps DEF Statuses
  <1>8. CASE ~OriginAllowed(method, origin) /\ Answers(r, asked, 403, "nothing")
    <2>1. Promise(asked, 403, "nothing", reported')
      BY <1>5, <1>6, <1>8 DEF Promise
    <2> QED
      BY <1>3, <1>4, <1>5, <1>8, <2>1, AnsweringKeeps DEF Statuses
  <1>9. CASE requests' = [requests EXCEPT ![r] = [at |-> "arrived", asked |-> asked]]
    <2> DEFINE q == [at |-> "arrived", asked |-> asked]
    <2>1. q \in Request /\ requests'[r] = q
      BY <1>3, <1>9, RequestTyped DEF Request
    <2>2. Borne(asked)
      BY <1>6 DEF Borne
    <2>3. Borne(requests[r].asked)'
      BY <1>4, <2>1, <2>2 DEF Borne, Authority
    <2>4. Way(requests[r])'
      BY <2>1, <2>3 DEF Way
    <2> HIDE DEF q
    <2> QED
      BY <1>4, <1>9, <2>1, <2>4, OneRequestMoves DEF q
  <1> QED
    BY <1>1, <1>7, <1>8, <1>9 DEF asked

\* The gate and the verifier: a credential that fails is refused, and one that was
\* revoked is reported with it.
LEMMA ResolvingKeeps ==
    ASSUME AdmissionInv, NEW r \in Requests, PassGate(r) \/ VerifyBearer(r)
    PROVE  AdmissionInv'
  <1> DEFINE asked == requests[r].asked
             principal == IF asked.path = "/mcp/" THEN Resolve([asked EXCEPT !.cookie = None])
                          ELSE Resolve(asked)
  <1>1. /\ requests[r].at = "arrived" /\ asked.path # "/.well-known/" /\ ~BeforeBearer(asked)
        /\ reported' = reported \cup Reports(asked)
        /\ UNCHANGED <<tokens, sessions>>
        /\ \/ Answers(r, asked, 401, "nothing")
           \/ /\ principal # None
              /\ principal = Anon => asked.path \notin MountPaths /\ ~RefusesAnonymous(Outcome(asked))
              /\ Goes(r, principal)
    BY DEF PassGate, VerifyBearer, BeforeBearer, MountPaths
  <1>2. asked \in Asked /\ Borne(asked)
    BY <1>1, RequestTyped DEF Way
  <1>3. Later /\ CredentialsTyped' /\ TokensScoped'
    BY <1>1, CredentialsStay DEF Reports, AdmissionInv, TypeOK
  <1>4. asked.leak => asked.bearer \in reported'
    BY <1>1, <1>2 DEF Reports, Borne
  <1>5. CASE Answers(r, asked, 401, "nothing")
    <2>1. Needs("nothing") = {} /\ "nothing" \in Deeds
      BY DEF Needs, Deeds
    <2>2. Promise(asked, 401, "nothing", reported')
      BY <1>1, <1>4, <2>1 DEF Promise
    <2> HIDE DEF asked
    <2> QED
      BY <1>2, <1>3, <1>5, <2>1, <2>2, AnsweringKeeps DEF Statuses
  <1>6. CASE /\ principal # None
             /\ principal = Anon => asked.path \notin MountPaths /\ ~RefusesAnonymous(Outcome(asked))
             /\ Goes(r, principal)
    <2> DEFINE judged == IF asked.path = "/mcp/" THEN [asked EXCEPT !.cookie = None] ELSE asked
    <2>1. judged \in Asked /\ judged.bearer = asked.bearer
          /\ judged.cookie \in {None, asked.cookie} /\ (asked.path = "/mcp/" => judged.cookie = None)
      BY <1>2 DEF Asked
    <2>2. principal = Resolve(judged)
      OBVIOUS
    <2> HIDE DEF judged, principal
    <2>3. /\ principal \in Principals
          /\ principal.scopes = Authority(judged.bearer, judged.cookie)
          /\ principal.kind = "anon" => principal = Anon
          /\ principal.kind = "owner" => principal = Owner
          /\ principal.kind = "pat" <=> asked.bearer # "absent"
          /\ principal.kind = "pat" => principal.scopes # {} /\ tokens[asked.bearer].state = "live"
      BY <1>6, <2>1, <2>2, ResolvedWithin
    <2>4. Authority(judged.bearer, judged.cookie) \subseteq Authority(asked.bearer, asked.cookie)
      BY <2>1 DEF Authority
    <2>5. principal.scopes \subseteq asked.may
      BY <1>2, <2>3, <2>4 DEF Borne
    <2>6. principal.kind = "owner" => asked.path # "/mcp/"
      <3>1. asked.path = "/mcp/" /\ asked.bearer = "absent" => principal = Anon
        BY <2>1, <2>2 DEF Resolve
      <3> QED
        BY <2>3, <3>1 DEF Anon
    <2>7. asked.may = {} => Open(asked)
      <3>1. ASSUME asked.may = {} PROVE principal = Anon
        BY <2>3, <2>5, <3>1 DEF Principals, Owner, Scopes
      <3>2. principal = Anon => Open(asked)
        BY <1>1, <1>2, <1>6, AnonymousReachesTheOpen
      <3> QED
        BY <3>1, <3>2
    <2>8. ~asked.leak
      <3>1. asked.leak => asked.bearer \in Tokens /\ tokens[asked.bearer].state = "revoked"
        BY <1>2 DEF Borne
      <3> QED
        BY <2>3, <3>1, PipelineAssumption
    <2>9. Through(asked, principal)
      BY <1>1, <1>2, <1>6, <2>3, <2>5, <2>6, <2>7, <2>8 DEF Through, Borne, MountPaths
    <2> DEFINE q == [at |-> "resolved", asked |-> asked, principal |-> principal]
    <2>10. q \in Request /\ requests' = [requests EXCEPT ![r] = q] /\ requests'[r] = q
      BY <1>2, <1>6, <2>3, RequestTyped DEF Request, Goes
    <2>11. Way(requests[r])'
      BY <2>9, <2>10 DEF Way, Through
    <2> HIDE DEF q
    <2> QED
      BY <1>3, <2>10, <2>11, OneRequestMoves
  <1> QED
    BY <1>1, <1>5, <1>6

LEMMA DiscoverKeeps ==
    ASSUME AdmissionInv, NEW r \in Requests, Discover(r)
    PROVE  AdmissionInv'
  <1>1. requests[r].asked \in Asked /\ requests[r].asked.path = "/.well-known/"
    BY RequestTyped DEF Discover
  <1>2. Later /\ CredentialsTyped' /\ TokensScoped'
    BY CredentialsStay DEF Discover, AdmissionInv, TypeOK
  <1>3. Needs("nothing") = {} /\ "nothing" \in Deeds
    BY DEF Needs, Deeds
  <1>4. ASSUME NEW status \in {404, 405}
        PROVE  Promise(requests[r].asked, status, "nothing", reported')
    BY <1>1, <1>3 DEF Promise, Open, BeforeBearer, MountPaths
  <1> QED
    BY <1>1, <1>2, <1>3, <1>4, AnsweringKeeps DEF Discover, Statuses

\* What the mount answers before it requires a bearer.
LEMMA MountAnswersKeep ==
    ASSUME AdmissionInv, NEW r \in Requests,
           ChildGuardRefuses(r) \/ RefuseVerb(r) \/ NotInChild(r)
    PROVE  AdmissionInv'
  <1> DEFINE asked == requests[r].asked
  <1>1. /\ requests[r].at = "arrived" /\ asked.path \in MountPaths
        /\ reported \subseteq reported' /\ reported' \subseteq reported \cup Reports(asked)
        /\ UNCHANGED <<tokens, sessions>>
    BY DEF ChildGuardRefuses, RefuseVerb, NotInChild, AtMount, MountAnswers
  <1>2. asked \in Asked
    BY <1>1, RequestTyped
  <1>3. PICK status \in {403, 404, 405} :
           /\ Answers(r, asked, status, "nothing")
           /\ status = 403 => asked.origin = "foreign"
           /\ status # 403 => BeforeBearer(asked) /\ status = SaidToAll(asked)
    <2>1. CASE ChildGuardRefuses(r)
      BY <2>1 DEF ChildGuardRefuses, MountAnswers
    <2>2. CASE RefuseVerb(r)
      BY <1>1, <2>2 DEF RefuseVerb, MountAnswers, BeforeBearer, SaidToAll
    <2>3. CASE NotInChild(r)
      <3>1. BeforeBearer(asked)
        BY <1>1, <2>3 DEF NotInChild, BeforeBearer, MountPaths
      <3>2. SaidToAll(asked) = 404
        BY <1>1, <2>3 DEF NotInChild, SaidToAll, Declared, MountPaths
      <3> QED
        BY <2>3, <3>1, <3>2 DEF NotInChild, MountAnswers
    <2> QED
      BY <2>1, <2>2, <2>3
  <1>4. Later /\ CredentialsTyped' /\ TokensScoped'
    BY <1>1, CredentialsStay DEF Reports, AdmissionInv, TypeOK
  <1>5. Needs("nothing") = {} /\ "nothing" \in Deeds
    BY DEF Needs, Deeds
  <1> HIDE DEF asked
  <1>6. Promise(asked, status, "nothing", reported')
    BY <1>1, <1>3, <1>5 DEF Promise
  <1> QED
    BY <1>2, <1>3, <1>4, <1>5, <1>6, AnsweringKeeps DEF Statuses

\* A request is dropped, or has had its answer.
LEMMA LeavingKeeps ==
    ASSUME AdmissionInv, NEW r \in Requests, Disconnect(r) \/ Leave(r)
    PROVE  AdmissionInv'
  <1>1. requests' = [requests EXCEPT ![r] = Idle] /\ UNCHANGED <<tokens, sessions, reported>>
    BY DEF Disconnect, Leave
  <1>2. Later /\ CredentialsTyped' /\ TokensScoped'
    BY <1>1, CredentialsStay DEF AdmissionInv, TypeOK
  <1>3. Idle \in Request /\ requests'[r] = Idle
    BY <1>1, RequestTyped DEF Request
  <1>4. Way(requests[r])'
    BY <1>3 DEF Way, Idle
  <1> QED
    BY <1>1, <1>2, <1>3, <1>4, OneRequestMoves

\* Refusals and answers that do nothing.
LEMMA RefusingKeeps ==
    ASSUME AdmissionInv, NEW r \in Requests,
           \/ NotRouted(r) \/ UseTransport(r)
           \/ \E route \in Routes : BadBody(r, route) \/ Refuse(r, route)
    PROVE  AdmissionInv'
  <1>1. /\ requests[r].at = "resolved" /\ UNCHANGED <<tokens, sessions, reported>>
        /\ \E status \in Statuses : Answers(r, requests[r].asked, status, "nothing")
    BY DEF NotRouted, UseTransport, BadBody, Refuse, Reached, Refusal, Statuses
  <1> QED
    BY <1>1, ThroughRefused

\* What the dependency admits is the caller's to do.
LEMMA AdmittedMay ==
    ASSUME AdmissionInv, NEW r \in Requests, NEW route \in Routes, Admitted(r, route)
    PROVE  /\ requests[r].at = "resolved"
           /\ Needs(route.act) \subseteq requests[r].asked.may
           /\ route.act \in {"login", "logout"} => requests[r].asked.bearer = "absent"
           /\ requests[r].asked.from = "site" =>
                 /\ route.act \in {"look", "list", "read", "login", "logout"}
                 /\ route.act = "logout" => requests[r].principal # Owner
  <1> DEFINE asked == requests[r].asked
             principal == requests[r].principal
  <1>1. /\ requests[r].at = "resolved" /\ asked.path = route.path /\ asked.method = route.method
        /\ Refusal(asked, principal, route) = 0
    BY DEF Admitted, Reached
  <1>2. /\ asked \in Asked /\ principal \in Principals /\ Through(asked, principal)
    BY <1>1, RequestTyped DEF Way
  <1> HIDE DEF asked, principal
  <1>3. /\ CsrfHolds(asked, principal)
        /\ ~(route.bearerRefused /\ principal.kind = "pat")
        /\ \/ route.credential \in {"anonymous", "internal"}
           \/ principal # Anon /\ route.credential \in principal.scopes
    BY <1>1 DEF Refusal
  <1>4. Needs(route.act) \subseteq asked.may
    <2>1. route.act \in {"look", "login", "logout"} => Needs(route.act) = {}
      BY DEF Needs
    <2> QED
      BY <1>2, <1>3, <2>1, RoutesDeclared DEF Through
  <1>5. route.act \in {"login", "logout"} => asked.bearer = "absent"
    BY <1>2, <1>3, RoutesDeclared DEF Through
  <1>6. ASSUME asked.from = "site"
        PROVE  /\ route.act \in {"look", "list", "read", "login", "logout"}
               /\ route.act = "logout" => principal # Owner
    <2>1. CASE route.method = "GET"
      BY <2>1, RoutesDeclared
    <2>2. CASE route.method # "GET"
      <3>0. asked.method \notin SafeMethods
        BY <1>1, <2>2, RoutesDeclared DEF SafeMethods
      <3>1. principal.kind = "anon" /\ principal = Anon
        BY <1>2, <1>3, <1>6, <3>0 DEF Through, CsrfHolds, Principals
      <3> QED
        BY <1>3, <3>1, RoutesDeclared DEF Anon, Owner
    <2> QED
      BY <2>1, <2>2
  <1> QED
    BY <1>1, <1>4, <1>5, <1>6 DEF asked, principal

LEMMA ServeKeeps ==
    ASSUME AdmissionInv, NEW r \in Requests, NEW route \in Routes, Serve(r, route)
    PROVE  AdmissionInv'
  <1>1. /\ requests[r].at = "resolved"
        /\ Needs(route.act) \subseteq requests[r].asked.may
        /\ requests[r].asked.from = "site" => route.act \in {"look", "list", "read", "login", "logout"}
    BY AdmittedMay DEF Serve
  <1>2. route.act \in {"look", "list", "read", "write", "reconfigure"} /\ route.act \in Deeds
    BY DEF Serve, Deeds
  <1>3. Later /\ CredentialsTyped' /\ TokensScoped' /\ UNCHANGED <<tokens, sessions, reported>>
    BY CredentialsStay DEF Serve, AdmissionInv, TypeOK
  <1>4. CASE Answers(r, requests[r].asked, 200, route.act)
    BY <1>1, <1>2, <1>3, <1>4, ThroughAnswers DEF Statuses
  <1>5. CASE Answers(r, requests[r].asked, 404, "nothing")
    BY <1>1, <1>3, <1>5, ThroughRefused DEF Statuses
  <1> QED
    BY <1>4, <1>5 DEF Serve

LEMMA SignInKeeps ==
    ASSUME AdmissionInv, NEW r \in Requests, NEW route \in Routes, SignIn(r, route)
    PROVE  AdmissionInv'
  <1>1. requests[r].at = "resolved" /\ requests[r].asked.bearer = "absent" /\ route.act = "login"
    BY AdmittedMay DEF SignIn
  <1>2. Needs("login") = {} /\ "login" \in Deeds
    BY <1>1 DEF Needs, Deeds
  <1>3. Later /\ CredentialsTyped' /\ TokensScoped'
    BY DEF SignIn, Later, CredentialsTyped, TokensScoped, AdmissionInv, TypeOK
  <1>4. CASE Answers(r, requests[r].asked, 200, "login")
    BY <1>1, <1>2, <1>3, <1>4, ThroughAnswers DEF Statuses
  <1>5. CASE /\ \E status \in {403, 429} : Answers(r, requests[r].asked, status, "nothing")
             /\ UNCHANGED sessions
    BY <1>1, <1>5, ThroughRefused DEF SignIn, Statuses
  <1> QED
    BY <1>4, <1>5 DEF SignIn

LEMMA SignOutKeeps ==
    ASSUME AdmissionInv, NEW r \in Requests, NEW route \in Routes, SignOut(r, route)
    PROVE  AdmissionInv'
  <1>1. /\ requests[r].at = "resolved" /\ requests[r].asked.bearer = "absent" /\ route.act = "logout"
        /\ requests[r].asked.from = "site" => requests[r].principal # Owner
    BY AdmittedMay DEF SignOut
  <1>2. Needs("logout") = {} /\ "logout" \in Deeds
    BY <1>1 DEF Needs, Deeds
  <1>3. Later /\ CredentialsTyped' /\ TokensScoped'
    BY DEF SignOut, Later, CredentialsTyped, TokensScoped, AdmissionInv, TypeOK
  <1>4. CASE requests[r].principal = Owner
    <2>1. Answers(r, requests[r].asked, 200, "logout")
      BY <1>4 DEF SignOut
    <2>2. "admin" \in requests[r].asked.may
      BY <1>1, <1>4, RequestTyped DEF Way, Through, Owner, Scopes
    <2> QED
      BY <1>1, <1>2, <1>3, <1>4, <2>1, <2>2, ThroughAnswers DEF Statuses
  <1>5. CASE requests[r].principal # Owner
    BY <1>1, <1>5, ThroughRefused DEF SignOut, Statuses
  <1> QED
    BY <1>4, <1>5

\* A token is minted with scopes it may hold, or revoked.
LEMMA TokenWriteKeeps ==
    ASSUME AdmissionInv, NEW r \in Requests, NEW route \in Routes,
           Mint(r, route) \/ Revoke(r, route)
    PROVE  AdmissionInv'
  <1>1. /\ requests[r].at = "resolved" /\ route.act \in {"mint", "revoke"}
        /\ Needs(route.act) \subseteq requests[r].asked.may
        /\ requests[r].asked.from # "site"
    BY AdmittedMay DEF Mint, Revoke
  <1>2. route.act \in Deeds
    BY DEF Deeds
  <1>3. CASE \E t \in Tokens, scopes \in SUBSET Scopes :
                /\ tokens[t].state = "none" /\ Grantable(scopes)
                /\ tokens' = [tokens EXCEPT ![t] = [state |-> "live", scopes |-> Encoded(scopes)]]
                /\ Answers(r, requests[r].asked, 200, "mint") /\ route.act = "mint"
                /\ UNCHANGED <<sessions, reported>>
    <2>1. PICK t \in Tokens, scopes \in SUBSET Scopes :
                /\ tokens[t].state = "none" /\ Grantable(scopes)
                /\ tokens' = [tokens EXCEPT ![t] = [state |-> "live", scopes |-> Encoded(scopes)]]
                /\ Answers(r, requests[r].asked, 200, "mint") /\ route.act = "mint"
                /\ UNCHANGED <<sessions, reported>>
      BY <1>3
    <2>2. Encoded(scopes) \subseteq {"read", "write"} /\ Encoded(scopes) # {} /\ Encoded(scopes) \subseteq Scopes
      BY <2>1 DEF Grantable, Encoded, Scopes
    <2>3. Later /\ CredentialsTyped' /\ TokensScoped'
      BY <2>1, <2>2 DEF Later, CredentialsTyped, TokensScoped, AdmissionInv, TypeOK
    <2> QED
      BY <1>1, <1>2, <2>1, <2>3, ThroughAnswers DEF Statuses
  <1>4. CASE \E t \in Tokens :
                /\ tokens[t].state # "none"
                /\ tokens' = [tokens EXCEPT ![t].state = "revoked"]
                /\ Answers(r, requests[r].asked, 200, "revoke") /\ route.act = "revoke"
                /\ UNCHANGED <<sessions, reported>>
    <2>1. Later /\ CredentialsTyped' /\ TokensScoped'
      BY <1>4 DEF Later, CredentialsTyped, TokensScoped, AdmissionInv, TypeOK
    <2> QED
      BY <1>1, <1>2, <1>4, <2>1, ThroughAnswers DEF Statuses
  <1>5. CASE /\ UNCHANGED <<tokens, sessions, reported>>
             /\ \E status \in Statuses : Answers(r, requests[r].asked, status, "nothing")
    BY <1>1, <1>5, ThroughRefused
  <1> QED
    BY <1>3, <1>4, <1>5 DEF Mint, Revoke, Statuses

LEMMA CallToolKeeps ==
    ASSUME AdmissionInv, NEW r \in Requests, NEW act \in {"read", "write"}, CallTool(r, act)
    PROVE  AdmissionInv'
  <1> DEFINE q == requests[r]
  <1>1. /\ q.at = "resolved" /\ q.asked.path = "/mcp/"
        /\ Answers(r, q.asked, 200, IF Needs(act) \subseteq q.principal.scopes THEN act ELSE "nothing")
        /\ UNCHANGED <<tokens, sessions, reported>>
    BY DEF CallTool
  <1>2. q.principal \in Principals /\ Through(q.asked, q.principal)
    BY <1>1, RequestTyped DEF Way
  <1>3. CASE Needs(act) \subseteq q.principal.scopes
    <2>1. Route("/kits", "GET", "read", "read").act = "read" /\ Route("/kits", "POST", "write", "write").act = "write"
      BY DEF Route
    <2>2. act \in Deeds
      BY <2>1 DEF Deeds, Routes
    <2>3. q.asked.from # "site"
      BY <1>1, <1>2 DEF Through, Principals
    <2>4. Needs(act) \subseteq q.asked.may
      BY <1>2, <1>3 DEF Through
    <2>5. Later /\ CredentialsTyped' /\ TokensScoped'
      BY <1>1, CredentialsStay DEF AdmissionInv, TypeOK
    <2> QED
      BY <1>1, <1>3, <2>2, <2>3, <2>4, <2>5, ThroughAnswers DEF Statuses
  <1>4. CASE ~(Needs(act) \subseteq q.principal.scopes)
    BY <1>1, <1>4, ThroughRefused DEF Statuses
  <1> QED
    BY <1>3, <1>4

\* Credentials come to an end by themselves or elsewhere.
LEMMA EndingKeeps ==
    ASSUME AdmissionInv,
           \/ \E t \in Tokens : Expire(t) \/ RevokeElsewhere(t)
           \/ \E s \in Sessions : EndSession(s)
           \/ UNCHANGED vars
    PROVE  AdmissionInv'
  <1>1. Later /\ CredentialsTyped' /\ TokensScoped' /\ requests' = requests
    BY DEF Expire, RevokeElsewhere, EndSession, vars, Later, CredentialsTyped, TokensScoped,
           AdmissionInv, TypeOK
  <1> QED
    BY <1>1, NoRequestMoves

\* Every request is answered within what its credential gave it; where a credential
\* counts, one without any learns nothing of the routes and a leaked token is noticed,
\* and where the mount answers before it asks for one (RouteBinding's 405, the child's
\* 404) it says the same to all; whatever happens to credentials while the request is
\* on its way (resolve_principal, PreRoutingAuthMiddleware, enforce_route_policy).
THEOREM RequestsAdmitted == Spec => []Admission
  <1>1. Init => AdmissionInv
    BY DEF Init, AdmissionInv, TypeOK, TokensScoped, Way, Idle, Request
  <1>2. AdmissionInv /\ [Next]_vars => AdmissionInv'
    <2> SUFFICES ASSUME AdmissionInv, [Next]_vars PROVE AdmissionInv'
      OBVIOUS
    <2>1. ASSUME NEW r \in Requests,
                 \/ Arrive(r) \/ PassGate(r) \/ Discover(r) \/ VerifyBearer(r)
                 \/ ChildGuardRefuses(r) \/ RefuseVerb(r) \/ NotInChild(r)
                 \/ Disconnect(r) \/ NotRouted(r) \/ UseTransport(r) \/ Leave(r)
          PROVE  AdmissionInv'
      BY <2>1, ArriveKeeps, ResolvingKeeps, DiscoverKeeps, MountAnswersKeep, LeavingKeeps,
         RefusingKeeps
    <2>2. ASSUME NEW r \in Requests, \E act \in {"read", "write"} : CallTool(r, act)
          PROVE  AdmissionInv'
      BY <2>2, CallToolKeeps
    <2>3. ASSUME NEW r \in Requests, NEW route \in Routes,
                 \/ BadBody(r, route) \/ Refuse(r, route) \/ Serve(r, route)
                 \/ SignIn(r, route) \/ SignOut(r, route) \/ Mint(r, route) \/ Revoke(r, route)
          PROVE  AdmissionInv'
      BY <2>3, RefusingKeeps, ServeKeeps, SignInKeeps, SignOutKeeps, TokenWriteKeeps
    <2>4. CASE \/ \E t \in Tokens : Expire(t) \/ RevokeElsewhere(t)
               \/ \E s \in Sessions : EndSession(s)
               \/ UNCHANGED vars
      BY <2>4, EndingKeeps
    <2> QED
      BY <2>1, <2>2, <2>3, <2>4 DEF Next
  <1>3. AdmissionInv => Admission
    <2> SUFFICES ASSUME AdmissionInv PROVE Admission
      OBVIOUS
    <2>1. ASSUME NEW r \in Requests, requests[r].at = "answered"
          PROVE  Promise(requests[r].asked, requests[r].status, requests[r].did, reported)
      BY <2>1 DEF AdmissionInv, Way
    <2>2. WithinAuthority /\ TellsNothing /\ GuardOnly /\ LeakIsReported
      BY <2>1 DEF WithinAuthority, TellsNothing, GuardOnly, LeakIsReported, Promise, Answered
    <2>3. TokensAreNoAdmins
      BY DEF AdmissionInv, TokensScoped, TokensAreNoAdmins
    <2> QED
      BY <2>2, <2>3 DEF AdmissionInv, Admission
  <1> QED
    BY <1>1, <1>2, <1>3, PTL DEF Spec

-----------------------------------------------------------------------------
(* The audit log: where every refusal is.                                  *)

(* What every refusal is in: the log, a count, a recorder's hands, or lost.  *)
Accounted == refused = table.rows + table.told + suppressed + pending + InFlight + lost

(* Rows of this window: as many as its addresses were granted and at most    *)
(* one summary, which leaves nothing to tell before the window ends.         *)
Budgeted ==
    /\ Total(byAddress) <= PerWindow
    /\ \/ granted = Total(byAddress)
       \/ granted = Total(byAddress) + 1 /\ pending = 0

(* A process that is down holds no counts.                                   *)
DownIsEmpty == process = "down" => suppressed = 0 /\ pending = 0

AuditInv == AuditTypeOK /\ Accounted /\ Budgeted /\ DownIsEmpty

Entry == [busy : BOOLEAN, summary : Nat]

LEMMA HeldIsNat ==
    ASSUME NEW rec \in [Recorders -> Entry]
    PROVE  /\ \A w \in Recorders : Held(rec)[w] \in Nat
           /\ SumFunctionOnSet(Held(rec), Recorders) \in Nat
  <1>1. \A w \in Recorders : Held(rec)[w] \in Nat
    BY DEF Held, Entry
  <1>2. IsFiniteSet(Recorders)
    BY AuditLogAssumption
  <1> QED
    BY <1>1, <1>2, SumNat

\* One recorder takes up or finishes its write.
LEMMA HeldStep ==
    ASSUME NEW rec \in [Recorders -> Entry], NEW w \in Recorders, NEW e \in Entry
    PROVE  LET new == [rec EXCEPT ![w] = e]
           IN  /\ SumFunctionOnSet(Held(new), Recorders)
                    = SumFunctionOnSet(Held(rec), Recorders)
                        - (IF rec[w].busy THEN 1 + rec[w].summary ELSE 0)
                        + (IF e.busy THEN 1 + e.summary ELSE 0)
               /\ (IF rec[w].busy THEN 1 + rec[w].summary ELSE 0)
                    <= SumFunctionOnSet(Held(rec), Recorders)
  <1> DEFINE new == [rec EXCEPT ![w] = e]
             f == Held(rec)
             g == Held(new)
  <1>1. new \in [Recorders -> Entry]
    OBVIOUS
  <1>2. \A v \in Recorders : f[v] \in Nat /\ g[v] \in Nat
    BY <1>1, HeldIsNat
  <1>3. \A v \in Recorders \ {w} : f[v] = g[v]
    BY DEF Held
  <1>4. f[w] = (IF rec[w].busy THEN 1 + rec[w].summary ELSE 0) /\ g[w] = (IF e.busy THEN 1 + e.summary ELSE 0)
    BY DEF Held
  <1>5. IsFiniteSet(Recorders) /\ IsFiniteSet(Recorders \ {w})
    BY AuditLogAssumption, FS_RemoveElement
  <1> HIDE DEF f, g
  <1>6. SumFunctionOnSet(g, Recorders) = SumFunctionOnSet(f, Recorders) - f[w] + g[w]
    BY <1>2, <1>3, <1>5, SumStep
  <1>7. SumFunctionOnSet(f, Recorders) = f[w] + SumFunctionOnSet(f, Recorders \ {w})
    BY <1>2, <1>5, SumOfOne
  <1>8. SumFunctionOnSet(f, Recorders \ {w}) \in Nat
    BY <1>2, <1>5, SumNat
  <1>9. f[w] <= SumFunctionOnSet(f, Recorders)
    BY <1>2, <1>7, <1>8
  <1> QED
    BY <1>4, <1>6, <1>9 DEF f, g

LEMMA NobodyHolds ==
    SumFunctionOnSet(Held([w \in Recorders |-> Nobody]), Recorders) = 0
  <1> DEFINE f == Held([w \in Recorders |-> Nobody])
  <1>1. \A w \in Recorders : f[w] = 0
    BY DEF Held, Nobody
  <1>2. IsFiniteSet(Recorders)
    BY AuditLogAssumption
  <1> HIDE DEF f
  <1>3. SumFunctionOnSet(f, {}) = SumFunctionOnSet(f, Recorders)
    BY <1>1, <1>2, SumSupport
  <1> QED
    BY <1>3, SumEmpty DEF f

LEMMA NothingGranted ==
    Total([b \in Addresses |-> 0]) = 0
  <1> DEFINE f == [b \in Addresses |-> 0]
  <1>1. \A b \in Addresses : f[b] = 0
    OBVIOUS
  <1>2. IsFiniteSet(Addresses)
    BY AuditLogAssumption
  <1> HIDE DEF f
  <1>3. SumFunctionOnSet(f, {}) = SumFunctionOnSet(f, Addresses)
    BY <1>1, <1>2, SumSupport
  <1> QED
    BY <1>3, SumEmpty DEF f, Total

LEMMA GrantedOneMore ==
    ASSUME NEW granting \in [Addresses -> Nat], NEW a \in Addresses
    PROVE  /\ Total(granting) \in Nat
           /\ Total([granting EXCEPT ![a] = @ + 1]) = Total(granting) + 1
  <1> DEFINE g == [granting EXCEPT ![a] = @ + 1]
  <1>1. \A b \in Addresses : granting[b] \in Nat /\ g[b] \in Nat
    OBVIOUS
  <1>2. \A b \in Addresses \ {a} : granting[b] = g[b]
    OBVIOUS
  <1>3. g[a] = granting[a] + 1
    OBVIOUS
  <1>4. IsFiniteSet(Addresses)
    BY AuditLogAssumption
  <1> HIDE DEF g
  <1>5. SumFunctionOnSet(g, Addresses) = SumFunctionOnSet(granting, Addresses) - granting[a] + g[a]
    BY <1>1, <1>2, <1>4, SumStep
  <1>6. SumFunctionOnSet(granting, Addresses) \in Nat
    BY <1>1, <1>4, SumNat
  <1>7. SumFunctionOnSet(g, Addresses) = SumFunctionOnSet(granting, Addresses) + 1
    BY <1>1, <1>3, <1>5, <1>6
  <1> QED
    BY <1>6, <1>7 DEF g, Total

-----------------------------------------------------------------------------
(* Steps.                                                                  *)

LEMMA Amounts ==
    ASSUME AuditInv
    PROVE  /\ InFlight \in Nat
           /\ Total(byAddress) \in Nat
           /\ recording \in [Recorders -> Entry]
           /\ \A w \in Recorders : recording[w].busy => 1 + recording[w].summary <= InFlight
  <1>1. recording \in [Recorders -> Entry]
    BY DEF AuditInv, AuditTypeOK, Counts, Entry
  <1>2. InFlight \in Nat
    BY <1>1, HeldIsNat DEF InFlight
  <1>3. Total(byAddress) \in Nat
    <2>1. byAddress \in [Addresses -> Nat]
      BY DEF AuditInv, AuditTypeOK
    <2>2. \A b \in Addresses : byAddress[b] \in Nat
      BY <2>1
    <2> QED
      BY <2>2, SumNat, AuditLogAssumption DEF Total
  <1>4. ASSUME NEW w \in Recorders, recording[w].busy
        PROVE  1 + recording[w].summary <= InFlight
    BY <1>1, <1>4, HeldStep DEF InFlight
  <1> QED
    BY <1>1, <1>2, <1>3, <1>4

\* A refusal recorded or counted.
LEMMA RefuseIngressKeeps ==
    ASSUME AuditInv, NEW a \in Addresses, NEW w \in Recorders, RefuseIngress(a, w)
    PROVE  AuditInv'
  <1> DEFINE granting == IF elapsed THEN [b \in Addresses |-> 0] ELSE byAddress
             telling == IF elapsed THEN pending + suppressed ELSE pending
             counted == IF elapsed THEN 0 ELSE suppressed
             writers == IF elapsed THEN 0 ELSE granted
  <1>0. MaxRefused \in Nat /\ PerAddress \in Nat /\ PerWindow \in Nat
    BY AuditLogAssumption
  <1>1. /\ InFlight \in Nat /\ recording \in [Recorders -> Entry]
        /\ Total(byAddress) \in Nat
    BY Amounts
  <1>2. /\ granting \in [Addresses -> 0..PerAddress]
        /\ Total(granting) \in Nat /\ Total(granting) <= PerWindow
        /\ telling \in Nat /\ counted \in Nat /\ telling + counted = pending + suppressed
        /\ \/ writers = Total(granting)
           \/ writers = Total(granting) + 1 /\ telling = 0
    BY <1>0, <1>1, NothingGranted DEF AuditInv, AuditTypeOK, Budgeted, Counts
  <1>3. /\ refused = table.rows + table.told + telling + counted + InFlight + lost
        /\ table.rows \in Nat /\ table.told \in Nat /\ lost \in Nat /\ refused \in Nat
    BY <1>1, <1>2 DEF AuditInv, Accounted, AuditTypeOK, Counts
  <1>4. /\ process = "up" /\ refused + 1 <= MaxRefused /\ refused' = refused + 1 /\ elapsed' = FALSE
        /\ UNCHANGED <<process, table, lost, retention, aged>>
    BY <1>0, <1>3 DEF RefuseIngress
  <1>5. CASE Total(granting) >= PerWindow \/ granting[a] >= PerAddress
    <2>1. /\ suppressed' = counted + 1 /\ pending' = telling /\ byAddress' = granting
          /\ granted' = writers /\ recording' = recording
      BY <1>5 DEF RefuseIngress, Rolled
    <2>2. InFlight' = InFlight
      BY <2>1 DEF InFlight
    <2> HIDE DEF granting, telling, counted, writers
    <2>3. Accounted'
      BY <1>1, <1>2, <1>3, <1>4, <2>1, <2>2 DEF Accounted
    <2>4. Budgeted'
      BY <1>2, <2>1 DEF Budgeted, Total
    <2>5. suppressed' \in Counts /\ pending' \in Counts /\ refused' \in Counts
      BY <1>0, <1>1, <1>2, <1>3, <1>4, <2>1 DEF Counts
    <2>6. granted' \in Nat
      BY <1>2, <2>1
    <2>7. AuditTypeOK'
      BY <1>2, <1>4, <2>1, <2>5, <2>6 DEF AuditInv, AuditTypeOK
    <2> QED
      BY <1>4, <2>3, <2>4, <2>7 DEF AuditInv, DownIsEmpty
  <1>6. CASE ~(Total(granting) >= PerWindow \/ granting[a] >= PerAddress)
    <2> DEFINE e == [busy |-> TRUE, summary |-> telling]
    <2>1. /\ ~recording[w].busy
          /\ byAddress' = [granting EXCEPT ![a] = @ + 1]
          /\ recording' = [recording EXCEPT ![w] = e]
          /\ granted' = writers + (IF telling > 0 THEN 2 ELSE 1)
          /\ pending' = 0 /\ suppressed' = counted
      BY <1>6 DEF RefuseIngress, Rolled
    <2> HIDE DEF granting, telling, counted, writers
    <2>2. e \in Entry
      BY <1>2 DEF Entry
    <2>3. InFlight' = InFlight + 1 + telling
      <3>1. SumFunctionOnSet(Held([recording EXCEPT ![w] = e]), Recorders)
              = SumFunctionOnSet(Held(recording), Recorders)
                  - (IF recording[w].busy THEN 1 + recording[w].summary ELSE 0)
                  + (IF e.busy THEN 1 + e.summary ELSE 0)
        BY <1>1, <2>2, HeldStep
      <3> QED
        BY <1>1, <1>2, <2>1, <3>1 DEF InFlight
    <2>4. Accounted'
      BY <1>1, <1>2, <1>3, <1>4, <2>1, <2>3 DEF Accounted
    <2>5. Total([granting EXCEPT ![a] = @ + 1]) = Total(granting) + 1
      <3>1. granting \in [Addresses -> Nat]
        BY <1>0, <1>2
      <3> QED
        BY <3>1, GrantedOneMore
    <2>6. Total(byAddress') = Total(granting) + 1 /\ Total(granting) + 1 <= PerWindow
      BY <1>0, <1>2, <1>6, <2>1, <2>5
    <2>7. Budgeted'
      <3>1. Total(byAddress)' = Total(byAddress')
        BY DEF Total
      <3> QED
        BY <1>0, <1>2, <2>1, <2>6, <3>1 DEF Budgeted
    <2>8. byAddress' \in [Addresses -> 0..PerAddress]
      BY <1>0, <1>2, <1>6, <2>1
    <2>9. /\ telling \in Counts /\ suppressed' \in Counts /\ pending' \in Counts
          /\ granted' \in Nat /\ refused' \in Counts
      BY <1>0, <1>1, <1>2, <1>3, <1>4, <2>1 DEF Counts
    <2>10. recording' \in [Recorders -> [busy : BOOLEAN, summary : Counts]]
      BY <2>1, <2>9 DEF AuditInv, AuditTypeOK
    <2>11. AuditTypeOK'
      BY <1>4, <2>8, <2>9, <2>10 DEF AuditInv, AuditTypeOK
    <2> QED
      BY <1>4, <2>4, <2>7, <2>11 DEF AuditInv, DownIsEmpty
  <1> QED
    BY <1>5, <1>6

\* A write ends, in the log or in the process's own record of its failure.
LEMMA WriteEndsKeeps ==
    ASSUME AuditInv, NEW w \in Recorders, RowsWritten(w) \/ WriteFails(w)
    PROVE  AuditInv'
  <1> DEFINE n == 1 + recording[w].summary
  <1>0. MaxRefused \in Nat
    BY AuditLogAssumption
  <1>1. /\ InFlight \in Nat /\ recording \in [Recorders -> Entry]
        /\ recording[w].busy /\ n <= InFlight /\ n \in Nat /\ recording[w].summary \in Nat
        /\ recording' = [recording EXCEPT ![w] = Nobody]
        /\ UNCHANGED <<process, budget, granted, refused, retention, aged>>
    BY Amounts DEF RowsWritten, WriteFails, Entry
  <1>2. InFlight' = InFlight - n
    <2>1. Nobody \in Entry /\ Nobody.busy = FALSE
      BY DEF Nobody, Entry
    <2>2. SumFunctionOnSet(Held([recording EXCEPT ![w] = Nobody]), Recorders)
            = SumFunctionOnSet(Held(recording), Recorders)
                - (IF recording[w].busy THEN 1 + recording[w].summary ELSE 0)
                + (IF Nobody.busy THEN 1 + Nobody.summary ELSE 0)
      BY <1>1, <2>1, HeldStep
    <2> QED
      BY <1>1, <2>1, <2>2 DEF InFlight
  <1>3. /\ table \in [rows : Nat, told : Nat] /\ table' \in [rows : Nat, told : Nat]
        /\ lost \in Nat /\ lost' \in Nat /\ suppressed \in Nat /\ pending \in Nat
        /\ table'.rows + table'.told + lost' = table.rows + table.told + lost + n
    BY <1>1 DEF AuditInv, AuditTypeOK, Counts, RowsWritten, WriteFails
  <1> HIDE DEF n
  <1>4. refused = table.rows + table.told + suppressed + pending + InFlight + lost
    BY DEF AuditInv, Accounted
  <1>5. suppressed' = suppressed /\ pending' = pending /\ refused' = refused
    BY <1>1 DEF budget
  <1>6. refused' = table'.rows + table'.told + suppressed' + pending' + InFlight' + lost'
    BY <1>1, <1>2, <1>3, <1>4, <1>5
  <1>7. refused \in 0..MaxRefused
    BY DEF AuditInv, AuditTypeOK, Counts
  <1>8. table' \in [rows : Counts, told : Counts] /\ lost' \in Counts
    BY <1>0, <1>1, <1>2, <1>3, <1>5, <1>6, <1>7 DEF Counts
  <1>9. recording' \in [Recorders -> [busy : BOOLEAN, summary : Counts]]
    BY <1>0, <1>1 DEF AuditInv, AuditTypeOK, Nobody, Counts
  <1>10. AuditTypeOK'
    BY <1>1, <1>8, <1>9 DEF AuditInv, AuditTypeOK, budget
  <1>11. Budgeted'
    BY <1>1 DEF AuditInv, Budgeted, Total, budget
  <1> QED
    BY <1>1, <1>5, <1>6, <1>10, <1>11 DEF AuditInv, Accounted, DownIsEmpty

\* What the process held when it ends is lost.
LEMMA DiesKeeps ==
    ASSUME AuditInv, Dies
    PROVE  AuditInv'
  <1>0. MaxRefused \in Nat
    BY AuditLogAssumption
  <1>1. InFlight \in Nat
    BY Amounts
  <1>2. InFlight' = 0
    BY NobodyHolds DEF InFlight, Dies
  <1>3. Accounted' /\ lost' \in Counts
    BY <1>0, <1>1, <1>2 DEF AuditInv, AuditTypeOK, Accounted, Counts, Dies
  <1>4. Budgeted'
    BY DEF AuditInv, Budgeted, Total, Dies
  <1>5. AuditTypeOK'
    BY <1>0, <1>3 DEF AuditInv, AuditTypeOK, Counts, Dies, Nobody
  <1> QED
    BY <1>3, <1>4, <1>5 DEF AuditInv, DownIsEmpty, Dies

LEMMA StartsUpKeeps ==
    ASSUME AuditInv, StartsUp
    PROVE  AuditInv'
  <1>0. MaxRefused \in Nat /\ PerAddress \in Nat /\ PerWindow \in Nat
    BY AuditLogAssumption
  <1>1. InFlight \in Nat
    BY Amounts
  <1>2. InFlight' = InFlight
    BY DEF InFlight, StartsUp
  <1>3. suppressed = 0 /\ pending = 0
    BY DEF AuditInv, DownIsEmpty, StartsUp
  <1>4. Accounted'
    BY <1>2, <1>3 DEF AuditInv, Accounted, StartsUp
  <1>5. Budgeted'
    BY <1>0, NothingGranted DEF Budgeted, Total, StartsUp
  <1>6. byAddress' \in [Addresses -> 0..PerAddress] /\ 0 \in Counts
    BY <1>0 DEF Counts, StartsUp
  <1>7. AuditTypeOK'
    BY <1>6 DEF AuditInv, AuditTypeOK, StartsUp
  <1> QED
    BY <1>4, <1>5, <1>7 DEF AuditInv, DownIsEmpty, StartsUp

LEMMA AuditInvInitially == AuditInit => AuditInv
  <1> SUFFICES ASSUME AuditInit PROVE AuditInv
    OBVIOUS
  <1>0. MaxRefused \in Nat /\ PerWindow \in Nat /\ PerAddress \in Nat
    BY AuditLogAssumption
  <1>1. InFlight = 0
    BY NobodyHolds DEF AuditInit, InFlight
  <1>2. Total(byAddress) = 0
    BY NothingGranted DEF AuditInit
  <1>3. AuditTypeOK
    <2>1. Nobody \in [busy : BOOLEAN, summary : Counts] /\ 0 \in Counts
      BY <1>0 DEF Nobody, Counts
    <2>2. [a \in Addresses |-> 0] \in [Addresses -> 0..PerAddress]
      BY <1>0
    <2> QED
      BY <2>1, <2>2 DEF AuditInit, AuditTypeOK
  <1> QED
    BY <1>0, <1>1, <1>2, <1>3 DEF AuditInit, AuditInv, Accounted, Budgeted, DownIsEmpty

\* Steps that touch no count of refusals.
LEMMA OtherStepsKeep ==
    ASSUME AuditInv,
           \/ WindowElapses \/ RowsAge \/ PassSucceeds \/ PassFails \/ Wakes
           \/ ShutdownBegins \/ LoopCancelled \/ UNCHANGED auditVars
    PROVE  AuditInv'
  <1>1. /\ UNCHANGED <<byAddress, suppressed, pending, recording, table, granted, refused, lost>>
        /\ process' \in {"up", "stopping", "down"} /\ elapsed' \in BOOLEAN /\ aged' \in BOOLEAN
        /\ retention' \in {"off", "pass", "asleep"}
    BY DEF AuditInv, AuditTypeOK, WindowElapses, RowsAge, PassSucceeds, PassFails, Wakes,
           ShutdownBegins, LoopCancelled, auditVars, budget, AfterFailure
  <1>2. InFlight' = InFlight /\ Total(byAddress)' = Total(byAddress)
    BY <1>1 DEF InFlight, Total
  <1>3. Accounted' /\ Budgeted'
    BY <1>1, <1>2 DEF AuditInv, Accounted, Budgeted
  <1>4. AuditTypeOK'
    BY <1>1 DEF AuditInv, AuditTypeOK
  <1>5. DownIsEmpty'
    BY <1>1 DEF AuditInv, DownIsEmpty, WindowElapses, RowsAge, PassSucceeds, PassFails, Wakes,
           ShutdownBegins, LoopCancelled, auditVars
  <1> QED
    BY <1>3, <1>4, <1>5 DEF AuditInv

\* Every refusal is written, counted, about to be, or lost with a failed write or
\* with its process, and a window's rows are bounded (RefusalBudget, the recorder).
THEOREM RefusalsStayAccounted == AuditSpec => []RefusalsAccounted
  <1>1. AuditInit => AuditInv
    BY AuditInvInitially
  <1>2. AuditInv /\ [AuditNext]_auditVars => AuditInv'
    <2> SUFFICES ASSUME AuditInv, [AuditNext]_auditVars PROVE AuditInv'
      OBVIOUS
    <2>1. CASE \E a \in Addresses, w \in Recorders : RefuseIngress(a, w)
      BY <2>1, RefuseIngressKeeps
    <2>2. CASE \E w \in Recorders : RowsWritten(w) \/ WriteFails(w)
      BY <2>2, WriteEndsKeeps
    <2>3. CASE StartsUp
      BY <2>3, StartsUpKeeps
    <2>4. CASE ShutdownEnds \/ Crashes
      BY <2>4, DiesKeeps DEF ShutdownEnds, Crashes
    <2>5. CASE \/ WindowElapses \/ RowsAge \/ PassSucceeds \/ PassFails \/ Wakes
               \/ ShutdownBegins \/ LoopCancelled \/ UNCHANGED auditVars
      BY <2>5, OtherStepsKeep
    <2> QED
      BY <2>1, <2>2, <2>3, <2>4, <2>5 DEF AuditNext
  <1>3. AuditInv => RefusalsAccounted
    <2> SUFFICES ASSUME AuditInv PROVE RefusalsAccounted
      OBVIOUS
    <2>1. Total(byAddress) \in Nat /\ PerWindow \in Nat
      BY Amounts, AuditLogAssumption
    <2> QED
      BY <2>1 DEF AuditInv, RefusalsAccounted, Accounted, Budgeted
  <1> QED
    BY <1>1, <1>2, <1>3, PTL DEF AuditSpec

\* The retention loop lives exactly as long as its process, whatever fails in it: what
\* RetentionGoesOn rests on beside fairness.
THEOREM RetentionStaysWithItsProcess == AuditSpec => []LoopLivesWithItsProcess
  <1>1. AuditInit => LoopLivesWithItsProcess
    BY DEF AuditInit, LoopLivesWithItsProcess
  <1>2. LoopLivesWithItsProcess /\ [AuditNext]_auditVars => LoopLivesWithItsProcess'
    <2> SUFFICES ASSUME LoopLivesWithItsProcess, [AuditNext]_auditVars
                 PROVE  LoopLivesWithItsProcess'
      OBVIOUS
    <2>1. CASE UNCHANGED <<process, retention>>
      BY <2>1 DEF LoopLivesWithItsProcess
    <2>2. CASE PassSucceeds \/ PassFails \/ Wakes
      BY <2>2 DEF LoopLivesWithItsProcess, PassSucceeds, PassFails, AfterFailure, Wakes
    <2>3. CASE StartsUp \/ ShutdownBegins \/ LoopCancelled \/ Dies
      BY <2>3 DEF LoopLivesWithItsProcess, StartsUp, ShutdownBegins, LoopCancelled, Dies
    <2> QED
      BY <2>1, <2>2, <2>3
      DEF AuditNext, RefuseIngress, RowsWritten, WriteFails, WindowElapses, RowsAge,
          ShutdownEnds, Crashes, auditVars
  <1> QED
    BY <1>1, <1>2, PTL DEF AuditSpec

=============================================================================
