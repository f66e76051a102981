--------------------------- MODULE ClientAssertions ---------------------------
(***************************************************************************)
(* How a client proves itself at /mcp/token and /mcp/revoke                *)
(* (backend/app/auth/mcp_oauth.py ClientAssertionAuthenticator).           *)
(*                                                                         *)
(* Requests of one client interleave where they wait: for its document,    *)
(* and for the keys to verify with.  The document and the keys it hosts    *)
(* change at any time.  FastMCP's document fetcher and its cache, its      *)
(* validator and its verifiers' cache are external, modelled as the        *)
(* subclasses here use and bound them: what may be stored is used until it *)
(* is too old; the signature is verified first, and the jti spent last, in *)
(* one step.                                                               *)
(***************************************************************************)
EXTENDS Integers, Sequences, FiniteSetsExt

CONSTANTS
    Authenticating,
    Endpoints,  \* the token and the revocation URL
    KeyRecords, \* [material, kid, permits]: a JWK's key, its kid or NoKid, and
                \* whether its alg, use and key_ops admit verifying the assertion
    KeySets,    \* sequences of usable records a client publishes
    Documents,  \* [method, inline, stored]: inline a key set, or Hosted for a jwks_uri;
                \* stored unless it is served with no-store
    Assertions, \* [jti, aud, material, kid, early]: aud the endpoints it names;
                \* early when its nbf is ahead
    Hosted,
    NoKid,
    Unset

ASSUME ClientAssertionsAssumption ==
    /\ KeySets \subseteq Seq(KeyRecords)
    /\ {Hosted, Unset} \cap KeySets = {}
    /\ \A d \in Documents : d.inline \in KeySets \cup {Hosted}
    /\ {"idle", "admitted", "refused"} \cap Endpoints = {}
    /\ Unset \notin Documents /\ Unset \notin Assertions /\ Unset \notin KeyRecords

VARIABLES
    document, \* the client's metadata document as its host serves it now
    cached,   \* the document FastMCP's fetcher keeps, or Unset
    hosted,   \* the key set its jwks_uri serves now
    fetched,  \* the key set of each endpoint's verifier, or Unset
    spent,    \* the jtis of the replay cache
    arrived,  \* the early assertions' nbf has come
    asking,   \* the requests
    storable, \* history: every document served that may be stored, in this process's life
    served,   \* history: every key set hosted in this process's life
    uses      \* history: how often each jti was admitted in this process's life

assertionVars == <<document, cached, hosted, fetched, spent, arrived, asking, storable, served, uses>>

Jtis == {a.jti : a \in Assertions}

Storable(d) == {e \in {d} : e.stored}

\* A request; seen is a history: the documents of no-store served while it ran.
NoRequest == [at |-> "idle", assertion |-> Unset, answer |-> Unset, snapshot |-> Unset,
              key |-> Unset, seen |-> {}]

world == <<document, hosted, arrived, storable, served>>

-----------------------------------------------------------------------------
(* Selecting a key.                                                        *)

\* A named kid selects the records that carry it; none, the only usable record.
SelectRecords(usable, kid) ==
    {i \in DOMAIN usable : IF kid = NoKid THEN Len(usable) = 1 ELSE usable[i].kid = kid}

\* Of several under one kid, the inline set's first and the fetched set's last.
KeyFor(d, keys, kid) ==
    LET candidates == SelectRecords(keys, kid)
    IN  IF candidates = {} THEN Unset
        ELSE keys[IF d.inline = Hosted THEN Max(candidates) ELSE Min(candidates)]

\* The signature verifies under the record, whose restrictions admit it.
Verifies(key, a) == key # Unset /\ key.material = a.material /\ key.permits

-----------------------------------------------------------------------------
(* A request.                                                              *)

Refused(r) == [asking EXCEPT ![r] = [NoRequest EXCEPT !.at = "refused"]]

NotYetValid(a) == a # Unset /\ a.early /\ ~arrived

\* The inventory: any Authorization header, a secret beside an assertion, or an
\* assertion ahead of its time is refused before anything is looked up or spent.
Present(r) ==
    /\ asking[r].at = "idle"
    /\ \E e \in Endpoints, a \in Assertions \cup {Unset}, header, secret \in BOOLEAN :
          asking' = IF header \/ (a # Unset /\ secret) \/ NotYetValid(a)
                    THEN Refused(r)
                    ELSE [asking EXCEPT ![r] = [NoRequest EXCEPT !.at = e, !.assertion = a,
                                         !.seen = {document} \ Storable(document)]]
    /\ UNCHANGED <<world, cached, fetched, spent, uses>>

Looking(r) == asking[r].at \in Endpoints /\ asking[r].snapshot = Unset

\* The client is resolved once, to d: a client of method none may present no
\* assertion, one of private_key_jwt must.
Dispatched(r, d) ==
    IF d.method = "none" /\ asking[r].assertion = Unset
    THEN [asking EXCEPT ![r].at = "admitted", ![r].answer = Unset, ![r].snapshot = d]
    ELSE IF d.method = "private_key_jwt" /\ asking[r].assertion # Unset
    THEN [asking EXCEPT ![r].answer = Unset, ![r].snapshot = d]
    ELSE Refused(r)

\* From the cache, while what it keeps is not too old.
LookUp(r) ==
    /\ Looking(r)
    /\ asking[r].answer = Unset
    /\ cached # Unset
    /\ asking' = Dispatched(r, cached)
    /\ UNCHANGED <<world, cached, fetched, spent, uses>>

\* Or fetched: the host answers with what it serves by then, or it does not answer.
Fetch(r) ==
    /\ Looking(r)
    /\ asking[r].answer = Unset
    /\ \/ asking' = [asking EXCEPT ![r].answer = document]
       \/ asking' = Refused(r)
    /\ UNCHANGED <<world, cached, fetched, spent, uses>>

\* The answer comes, and is stored unless it said no-store.
Receive(r) ==
    /\ Looking(r)
    /\ asking[r].answer # Unset
    /\ cached' = IF asking[r].answer.stored THEN asking[r].answer ELSE cached
    /\ asking' = Dispatched(r, asking[r].answer)
    /\ UNCHANGED <<world, fetched, spent, uses>>

\* BoundedCache: another client's document takes the last place.
Evict ==
    /\ cached' = Unset
    /\ UNCHANGED <<world, fetched, spent, asking, uses>>

Verifying(r) == asking[r].at \in Endpoints /\ asking[r].snapshot # Unset

\* The endpoint's verifier fetches the hosted keys when it holds none or they are old.
FetchKeys(r) ==
    /\ Verifying(r)
    /\ asking[r].snapshot.inline = Hosted
    /\ fetched' = [fetched EXCEPT ![asking[r].at] = hosted]
    /\ UNCHANGED <<world, cached, spent, asking, uses>>

\* Mutant of Judged: the document is looked up again for its keys.
JudgedAgain(r) == document

\* The document whose keys verify the assertion.
Judged(r) == asking[r].snapshot

\* The signature, the audience and the replay; then the jti is spent.
ValidateAssertion(r) ==
    /\ Verifying(r)
    /\ LET a == asking[r].assertion
           d == Judged(r)
           keys == IF d.inline = Hosted THEN fetched[asking[r].at] ELSE d.inline
           key == KeyFor(d, keys, a.kid)
       IN  /\ keys # Unset
           /\ IF Verifies(key, a) /\ asking[r].at \in a.aud /\ a.jti \notin spent
              THEN /\ asking' = [asking EXCEPT ![r].at = "admitted", ![r].key = key]
                   /\ spent' = spent \cup {a.jti}
                   /\ uses' = [uses EXCEPT ![a.jti] = @ + 1]
              ELSE asking' = Refused(r) /\ UNCHANGED <<spent, uses>>
    /\ UNCHANGED <<world, cached, fetched>>

EndRequest(r) ==
    /\ asking[r].at \in {"admitted", "refused"}
    /\ asking' = [asking EXCEPT ![r] = NoRequest]
    /\ UNCHANGED <<world, cached, fetched, spent, uses>>

-----------------------------------------------------------------------------
(* The world.                                                              *)

InFlight(r) == asking[r].at \in Endpoints

Publish(d) ==
    /\ document' = d
    /\ storable' = storable \cup Storable(d)
    /\ asking' = [r \in Authenticating |->
                     IF InFlight(r) THEN [asking[r] EXCEPT !.seen = @ \cup ({d} \ Storable(d))]
                     ELSE asking[r]]
    /\ UNCHANGED <<cached, hosted, fetched, spent, arrived, served, uses>>

HostKeys(keys) ==
    /\ hosted' = keys
    /\ served' = served \cup {keys}
    /\ UNCHANGED <<document, cached, fetched, spent, arrived, asking, storable, uses>>

NbfArrives ==
    /\ arrived' = TRUE
    /\ UNCHANGED <<document, cached, hosted, fetched, spent, asking, storable, served, uses>>

\* Both caches of FastMCP's and the replay cache are process memory.
Restart ==
    /\ cached' = Unset
    /\ fetched' = [e \in Endpoints |-> Unset]
    /\ spent' = {}
    /\ uses' = [j \in Jtis |-> 0]
    /\ asking' = [r \in Authenticating |-> NoRequest]
    /\ storable' = Storable(document)
    /\ served' = {hosted}
    /\ UNCHANGED <<document, hosted, arrived>>

AssertionsInit ==
    /\ document \in Documents
    /\ storable = Storable(document)
    /\ cached = Unset
    /\ hosted \in KeySets
    /\ served = {hosted}
    /\ fetched = [e \in Endpoints |-> Unset]
    /\ spent = {}
    /\ arrived = FALSE
    /\ asking = [r \in Authenticating |-> NoRequest]
    /\ uses = [j \in Jtis |-> 0]

AssertionsNext ==
    \/ \E r \in Authenticating :
          \/ Present(r) \/ LookUp(r) \/ Fetch(r) \/ Receive(r)
          \/ FetchKeys(r) \/ ValidateAssertion(r) \/ EndRequest(r)
    \/ \E d \in Documents : Publish(d)
    \/ \E keys \in KeySets : HostKeys(keys)
    \/ Evict \/ NbfArrives \/ Restart

AssertionsSpec == AssertionsInit /\ [][AssertionsNext]_assertionVars

-----------------------------------------------------------------------------
(* Properties.                                                             *)

\* The replay cache is one for both endpoints: however requests interleave, an
\* assertion authenticates at most once in a process's life, and a jti is spent
\* only by an admission ("a refusal ... spending nothing").
SpentOnce == \A j \in Jtis : uses[j] = (IF j \in spent THEN 1 ELSE 0)

\* "One client snapshot": an admitted request satisfied a single document, its method
\* and a key of its own, whose restrictions admitted the assertion; never one
\* document's method with another's keys.  The document was served while the request
\* ran, or was served before, in this process's life, and said it may be stored: one
\* served with no-store and then withdrawn admits nobody.
OneDocument ==
    \A r \in Authenticating : asking[r].at = "admitted" =>
        \E d \in asking[r].seen \cup storable :
            LET a == asking[r].assertion
                published == IF d.inline = Hosted THEN served ELSE {d.inline}
            IN  \/ d.method = "none" /\ a = Unset
                \/ /\ d.method = "private_key_jwt" /\ a # Unset
                   /\ \E keys \in published : \E i \in DOMAIN keys :
                         /\ keys[i] = asking[r].key
                         /\ keys[i].material = a.material /\ keys[i].permits
                         /\ a.kid \in {NoKid, keys[i].kid}

\* A client is authenticated as one decision (ClientAssertionAuthenticator).
AssertionsHold == SpentOnce /\ OneDocument

=============================================================================
