-------------------------------- MODULE Forms --------------------------------
(***************************************************************************)
(* A client's request to /authorize, /token or /revoke, as the guard in    *)
(* front of the SDK's handlers decodes it and as the handler then takes it *)
(* (auth/mcp_oauth.py ProtocolRequest, resource_identity, authorize).      *)
(*                                                                         *)
(* A form is a sequence of pairs, of which those that are dropped leave    *)
(* the others in their places.  Of its fields, client_id stands for the    *)
(* ones every endpoint knows; a field of another endpoint is one to ignore.*)
(***************************************************************************)
EXTENDS Integers, Sequences, SequencesExt

CONSTANTS
    MaxPairs    \* bounds the forms explored

ASSUME FormsAssumption == MaxPairs \in Nat

VARIABLES
    sent,    \* the request as sent
    handed,  \* the form the handler is given, once it is
    reply    \* the answer, "" before it

formVars == <<sent, handed, reply>>

FormEndpoints == {"authorize", "token", "revoke"}

\* RECOGNISED_PARAMETERS, as far as the fields modelled.
Recognised == [authorize |-> {"client_id", "code_challenge_method", "resource"},
               token |-> {"client_id", "grant_type", "resource"},
               revoke |-> {"client_id"}]

\* Resource indicators: this server's or another's, bare, with a query, with a fragment.
Resource == {"here", "here?q", "here#f", "there", "there#f"}

Blank == ""
Values(field) ==
    CASE field = "grant_type" -> {Blank, "refresh_token", "password"}
      [] field = "code_challenge_method" -> {"S256", "plain"}
      [] field = "resource" -> {Blank} \cup Resource
      [] OTHER -> {Blank, "x"}

FormPair == UNION {{[field |-> f, value |-> v] : v \in Values(f)} :
                  f \in {"client_id", "grant_type", "code_challenge_method", "resource"}}

SentForms ==
    [endpoint : FormEndpoints, method : {"GET", "POST"}, pairs : SeqOf(FormPair, MaxPairs),
     body : {"form", "crowded", "other_media", "too_large"}]

Empty(p) == p.value = Blank

-----------------------------------------------------------------------------
(* Decoding.                                                               *)

\* resource_identity: a fragment, as no absolute URI, is malformed; a query is not compared.
Malformed(v) == v \in {"here#f", "there#f"}
AcceptsResource(v) == v \in {"here", "here?q"}

\* The places of a field.
Named(pairs, field) == {i \in DOMAIN pairs : pairs[i].field = field}

\* The first of some places: one, or none if there is none.
First(places) == {i \in places : \A j \in places : i <= j}

\* The fields the endpoint does not know are dropped before anything is judged.
Judgeable(a) ==
    Restrict(a.pairs, {i \in DOMAIN a.pairs : a.pairs[i].field \in Recognised[a.endpoint]})

Repeated(pairs) ==
    \E i, j \in DOMAIN pairs : i # j /\ pairs[i].field = pairs[j].field /\ pairs[i].field # "resource"

UnsupportedGrant(a, pairs) ==
    a.endpoint = "token" /\
    \E i \in Named(pairs, "grant_type") : ~Empty(pairs[i]) /\ pairs[i].value # "refresh_token"

Stated(pairs) == Restrict(pairs, {i \in DOMAIN pairs : ~Empty(pairs[i])})
Foreign(pairs) == {i \in Named(pairs, "resource") : ~AcceptsResource(pairs[i].value)}

\* Mutant of OneResource: the first value stands for the set.
OneResourceFirst(pairs) ==
    LET resources == Named(pairs, "resource")
    IN  Restrict(pairs, (DOMAIN pairs \ resources) \cup First(resources))

\* Of a set of resources the handler is given one: the first that is not this
\* server's, for it to refuse, or else the first.
OneResource(pairs) ==
    LET resources == Named(pairs, "resource")
        chosen == First(IF Foreign(pairs) # {} THEN Foreign(pairs) ELSE resources)
    IN  Restrict(pairs, (DOMAIN pairs \ resources) \cup chosen)

\* An omitted method is "plain", which the handler refuses as it does a stated one.
WithMethod(a, pairs) ==
    IF a.endpoint = "authorize" /\ Named(pairs, "code_challenge_method") = {}
    THEN [i \in DOMAIN pairs \cup {MaxPairs + 1} |->
             IF i \in DOMAIN pairs THEN pairs[i]
             ELSE [field |-> "code_challenge_method", value |-> "plain"]]
    ELSE pairs

Reduced(a) == WithMethod(a, OneResource(Stated(Judgeable(a))))

\* Verbs that pass through, and the reasons the body itself is refused for, in order.
Passed(a) == a.method = "GET" /\ a.endpoint # "authorize"
BodyRefusal(a) ==
    IF a.method = "POST" /\ a.body = "too_large" THEN "too_large"
    ELSE IF (a.method = "POST" /\ a.body = "other_media") \/ a.body = "crowded" THEN "invalid_request"
    ELSE ""

FormRefusal(a) ==
    LET pairs == Judgeable(a)
        stated == Stated(pairs)
    IN  IF Repeated(pairs) THEN "invalid_request"
        ELSE IF UnsupportedGrant(a, pairs) THEN "unsupported_grant_type"
        ELSE IF \/ \E i \in Named(stated, "resource") : Malformed(stated[i].value)
                \/ a.endpoint = "token" /\ Foreign(stated) # {}
        THEN "invalid_target"
        ELSE ""

Waiting == reply = "" /\ handed = <<>>

PassThrough ==
    /\ Waiting /\ Passed(sent)
    /\ reply' = "method_not_allowed" /\ UNCHANGED <<sent, handed>>

RefuseForm ==
    /\ Waiting /\ ~Passed(sent)
    /\ reply' = IF BodyRefusal(sent) # "" THEN BodyRefusal(sent) ELSE FormRefusal(sent)
    /\ reply' # ""
    /\ UNCHANGED <<sent, handed>>

HandOn ==
    /\ Waiting /\ ~Passed(sent)
    /\ BodyRefusal(sent) = "" /\ FormRefusal(sent) = ""
    /\ handed' = << Reduced(sent) >>
    /\ UNCHANGED <<sent, reply>>

\* The handlers keep one value a field, the last.
Taken(form, field) ==
    LET places == Named(form, field) IN IF places = {} THEN Blank ELSE form[Max(places)].value

Understood(a, form) ==
    /\ Taken(form, "client_id") # Blank
    /\ a.endpoint = "token" => Taken(form, "grant_type") # Blank
    /\ a.endpoint = "authorize" => Taken(form, "code_challenge_method") = "S256"

\* Who the client is, /token and /revoke ask first (ClientAssertionAuthenticator);
\* authorize judges the resource again.
HandlersAnswer(a, form) ==
    IF a.endpoint # "authorize" /\ Taken(form, "client_id") = Blank THEN "invalid_client"
    ELSE IF ~Understood(a, form) THEN "invalid_request"
    ELSE IF /\ a.endpoint = "authorize"
            /\ Named(form, "resource") # {} /\ ~AcceptsResource(Taken(form, "resource"))
    THEN "invalid_target" ELSE "done"

Handle ==
    /\ handed # <<>> /\ reply = ""
    /\ reply' = HandlersAnswer(sent, handed[1])
    /\ UNCHANGED <<sent, handed>>

\* authorize resolves the identity provider before it looks at the resource.
ProviderGone ==
    /\ handed # <<>> /\ reply = "" /\ sent.endpoint = "authorize" /\ Understood(sent, handed[1])
    /\ reply' = "temporarily_unavailable"
    /\ UNCHANGED <<sent, handed>>

\* A query has no body to be of another media type or too large; what a body's form
\* holds matters only where it is read.
FormsInit ==
    /\ sent \in SentForms
    /\ sent.method = "GET" => sent.body \in {"form", "crowded"}
    /\ sent.body # "form" => Len(sent.pairs) <= 1
    /\ handed = <<>>
    /\ reply = ""

FormsNext == PassThrough \/ RefuseForm \/ HandOn \/ Handle \/ ProviderGone

FormsSpec == FormsInit /\ [][FormsNext]_formVars

-----------------------------------------------------------------------------
(* Properties.                                                             *)

\* What may be carried out, whatever the order of its pairs: no field the endpoint
\* knows more than once, and every resource a client names is this server.
Proper(a) ==
    LET known == {i \in DOMAIN a.pairs : a.pairs[i].field \in Recognised[a.endpoint]}
        Of(field) == {i \in known : a.pairs[i].field = field}
        Says(field, value) == {a.pairs[i].value : i \in Of(field)} = {value}
    IN  /\ ~Passed(a) /\ a.body = "form"
        /\ \A i, j \in known : a.pairs[i].field = a.pairs[j].field =>
              i = j \/ a.pairs[i].field = "resource"
        /\ \A i \in Of("resource") : a.pairs[i].value \in {Blank, "here", "here?q"}
        /\ Says("client_id", "x")
        /\ a.endpoint = "token" => Says("grant_type", "refresh_token")
        /\ a.endpoint = "authorize" => Says("code_challenge_method", "S256")

\* "A parameter MUST NOT be included more than once", one without a value is omitted,
\* one that is not known is ignored, and a set of resources that names another target
\* is refused: a form is carried out exactly if it is proper, whichever pair comes
\* first; the handler, which keeps a field's last value, is given each field once
\* (ProtocolRequest, authorize).
FormsJudged ==
    /\ reply = "done" => Proper(sent)
    /\ reply # "" /\ Proper(sent) => reply \in {"done", "temporarily_unavailable"}
    /\ \A k \in DOMAIN handed : \A i, j \in DOMAIN handed[k] :
          handed[k][i].field = handed[k][j].field => i = j

=============================================================================
