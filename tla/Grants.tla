------------------------------- MODULE Grants -------------------------------
(***************************************************************************)
(* MCP OAuth grants: the record behind every token the proxy issues, from  *)
(* the exchange of an authorization code to its end                        *)
(* (backend/app/auth/mcp_oauth.py, mcp_oauth_state.py, services/oidc.py).  *)
(*                                                                         *)
(* A client's refresh, the refresh behind a request and a revocation all   *)
(* rewrite a record, two of them across a call to the provider, and so     *)
(* does the rebind on the host.  The store commits each statement by       *)
(* itself; an advisory lock per grant orders the writers, within and       *)
(* across processes.  The provider rotates: each refresh token it issues   *)
(* is good once.  The claim of the owner row is OwnerAccess; here only who *)
(* is bound matters.  When an access token nears its expiry is the clock's *)
(* choice, so a request may refresh at any time.                           *)
(***************************************************************************)
EXTENDS Integers, FiniteSets

CONSTANTS
    GrantIds,     \* ids of grant records, never used twice
    Codes,        \* authorization codes; each stands for one provider login
    Tokens,       \* pairs of an access and a refresh token
    Requests,
    Identities,   \* (issuer, subject) pairs
    MaxRotation,  \* refresh tokens the provider issues after a login's first
    None

\* Whose grant it is, which login its provider tokens stem from, and which of that
\* login's refresh tokens is held.
Record == [owner : Identities, login : Codes, rt : 0..MaxRotation]

\* Whether the mappings from the two tokens to the grant are still there; a
\* refresh token's hash entry goes with its mapping.  who is the binding in the
\* claims.
Pair == [grant : GrantIds, who : Identities, access : BOOLEAN, refresh : BOOLEAN]

ASSUME GrantsAssumption ==
    /\ MaxRotation \in Nat
    /\ IsFiniteSet(Requests) /\ IsFiniteSet(Tokens)
    /\ None \notin Identities \cup GrantIds \cup Codes \cup Tokens \cup Record \cup Pair

\* The id_token a refresh brings back: none or the one already verified, one that
\* fails the contract, or a new one naming somebody.
Says == {"same", "invalid"} \cup Identities

Issuing == {"issue", "store", "mint"}
Locking == {"asked", "answered", "admitted", "stored"}
Places == {"idle", "queued", "revoking"} \cup Issuing \cup Locking

Kinds == {"none", "exchange", "refresh", "use", "revoke access", "revoke refresh"}

Request == [at : Places, kind : Kinds, pair : Tokens \cup {None},
            grant : GrantIds \cup {None}, login : Codes \cup {None},
            rt : 0..MaxRotation, says : Says]

Idle == [at |-> "idle", kind |-> "none", pair |-> None, grant |-> None,
         login |-> None, rt |-> 0, says |-> "same"]

\* The rebind: the records it listed, the locks it has, what its uncommitted DELETE
\* removed, and the refresh tokens it read to revoke at the provider, those of the
\* listed records and those of pending codes.  late is history: the logins whose
\* grant was stored since the listing.
Host == [at : {"idle", "locking", "read", "deleted", "committed"}, listed : SUBSET GrantIds,
         held : SUBSET GrantIds, records : SUBSET GrantIds, pairs : SUBSET Tokens,
         codes : SUBSET Codes, credentials : SUBSET (Codes \X (0..MaxRotation)),
         pending : SUBSET Codes, late : SUBSET Codes]

HostIdle == [at |-> "idle", listed |-> {}, held |-> {}, records |-> {}, pairs |-> {},
             codes |-> {}, credentials |-> {}, pending |-> {}, late |-> {}]

VARIABLES
    bound,     \* the owner row's identity
    codes,     \* "new" before its login, "held" until redeemed, refused or purged
    records, pairs,
    requests,
    host,
    account,   \* at the provider: who logged in, None for an id_token that fails
    issued,    \* at the provider: the login's current refresh token
    dead,      \* at the provider: logins whose tokens were revoked
    ended,     \* history: grants that a revocation, a refusal or the rebind ended
    lost       \* history: logins of which some answer never reached the store

store == <<codes, records, pairs>>
provider == <<account, issued, dead>>
vars == <<bound, store, requests, host, provider, ended, lost>>

TypeOK ==
    /\ bound \in Identities \cup {None}
    /\ codes \in [Codes -> {"new", "held", "gone"}]
    /\ records \in [GrantIds -> Record \cup {None}]
    /\ pairs \in [Tokens -> Pair \cup {None}]
    /\ requests \in [Requests -> Request]
    /\ host \in Host
    /\ account \in [Codes -> Identities \cup {None}]
    /\ issued \in [Codes -> 0..MaxRotation]
    /\ dead \subseteq Codes
    /\ ended \subseteq GrantIds
    /\ lost \subseteq Codes

Init ==
    /\ bound = None
    /\ codes = [c \in Codes |-> "new"]
    /\ records = [g \in GrantIds |-> None]
    /\ pairs = [t \in Tokens |-> None]
    /\ requests = [r \in Requests |-> Idle]
    /\ host = HostIdle
    /\ account = [c \in Codes |-> None]
    /\ issued = [c \in Codes |-> 0]
    /\ dead = {} /\ ended = {} /\ lost = {}

-----------------------------------------------------------------------------
(* The locks.                                                              *)

HoldsCode(r, c) == requests[r].at \in Issuing /\ requests[r].login = c

HoldsGrant(r, g) == requests[r].at \in Locking /\ requests[r].grant = g

Free(g) == g \notin host.held /\ \A r \in Requests : ~HoldsGrant(r, g)

\* A row an uncommitted DELETE has removed: who writes or deletes it waits.
Writable(g) == g \notin host.records
Deletable(c) == c \notin host.codes

Goes(r, place) == requests' = [requests EXCEPT ![r].at = place]

Leaves(r) == requests' = [requests EXCEPT ![r] = Idle]

Spends(c) == codes' = [codes EXCEPT ![c] = "gone"]

-----------------------------------------------------------------------------
(* The owner and the provider.                                             *)

\* A provider login in the browser binds an instance that is unbound.  The owner
\* row is locked while a rebind is running.
BindOwner(i) ==
    /\ bound = None
    /\ host.at \in {"idle", "committed"}
    /\ bound' = i
    /\ UNCHANGED <<store, requests, host, provider, ended, lost>>

\* Somebody logs in at the provider; the callback files the tokens under a code.
LogIn(c, who) ==
    /\ codes[c] = "new"
    /\ codes' = [codes EXCEPT ![c] = "held"]
    /\ account' = [account EXCEPT ![c] = who]
    /\ UNCHANGED <<bound, records, pairs, requests, host, issued, dead, ended, lost>>

-----------------------------------------------------------------------------
(* exchange_authorization_code.                                            *)

\* Mutant of BeginExchange: the code is read without its lock.
BeginExchangeUnlocked(r, c) ==
    /\ requests[r] = Idle
    /\ codes[c] = "held"
    /\ requests' = [requests EXCEPT ![r] = [Idle EXCEPT !.at = "issue", !.kind = "exchange",
                                                       !.login = c]]
    /\ UNCHANGED <<bound, store, host, provider, ended, lost>>

BeginExchange(r, c) ==
    /\ \A q \in Requests : ~HoldsCode(q, c)
    /\ BeginExchangeUnlocked(r, c)

\* The id_token names the owner.
Verify(r) ==
    /\ requests[r].at = "issue"
    /\ account[requests[r].login] # None
    /\ account[requests[r].login] = bound
    /\ Goes(r, "store")
    /\ UNCHANGED <<bound, store, host, provider, ended, lost>>

\* It does not, or it fails the contract, or the keys cannot be had: the code is
\* consumed all the same.
RefuseExchange(r) ==
    /\ requests[r].at = "issue"
    /\ Deletable(requests[r].login)
    /\ Spends(requests[r].login)
    /\ Leaves(r)
    /\ UNCHANGED <<bound, records, pairs, host, provider, ended, lost>>

Fresh(g) ==
    /\ records[g] = None
    /\ g \notin ended
    /\ \A t \in Tokens : pairs[t] # None => pairs[t].grant # g
    /\ \A r \in Requests : requests[r].grant # g

\* New ids are random; which of the unused ones is taken makes no difference.
NewGrant == CHOOSE g \in GrantIds : Fresh(g)
NewToken == CHOOSE t \in Tokens : pairs[t] = None

\* Bound: nobody begins what would need more tokens than there are.
Spare ==
    Cardinality({r \in Requests :
                   requests[r].at \in {"mint", "answered", "admitted", "stored"}})
      < Cardinality({t \in Tokens : pairs[t] = None})

\* The gate admits the first write of a record at issuance only.
StoreRecord(r) ==
    LET c == requests[r].login
        g == NewGrant
    IN
    /\ requests[r].at = "store"
    /\ \E h \in GrantIds : Fresh(h)
    /\ Spare
    /\ records' = [records EXCEPT ![g] = [owner |-> account[c], login |-> c, rt |-> 0]]
    /\ requests' = [requests EXCEPT ![r].at = "mint", ![r].grant = g]
    /\ host' = IF host.at = "idle" THEN host ELSE [host EXCEPT !.late = @ \cup {c}]
    /\ UNCHANGED <<bound, codes, pairs, provider, ended, lost>>

\* The pair and its mappings, and the code's deletion before the client has them.
MintPair(r) ==
    LET req == requests[r] IN
    /\ req.at = "mint"
    /\ Deletable(req.login)
    /\ pairs' = [pairs EXCEPT ![NewToken] = [grant |-> req.grant, who |-> account[req.login],
                                            access |-> TRUE, refresh |-> TRUE]]
    /\ Spends(req.login)
    /\ Leaves(r)
    /\ UNCHANGED <<bound, records, host, provider, ended, lost>>

-----------------------------------------------------------------------------
(* A client's refresh, and the refresh behind a request, up to the lock.    *)

Starts(r, t, kind, place) ==
    /\ requests[r] = Idle
    /\ pairs[t] # None
    /\ requests' = [requests EXCEPT ![r] = [Idle EXCEPT !.at = place, !.kind = kind,
                                             !.pair = t, !.grant = pairs[t].grant]]
    /\ UNCHANGED <<bound, store, host, provider, ended, lost>>

\* exchange_refresh_token: the binding still holds, and a mapping is found.
BeginRefresh(r, t) ==
    /\ Starts(r, t, "refresh", "queued")
    /\ pairs[t].refresh
    /\ pairs[t].who = bound

\* load_access_token: the binding still holds, and FastMCP finds mapping and record.
BeginUse(r, t) ==
    /\ Starts(r, t, "use", "queued")
    /\ pairs[t].who = bound
    /\ pairs[t].access
    /\ records[pairs[t].grant] # None

\* Under the lock the record or the mapping is gone.
NotThere(r) ==
    /\ requests[r].at = "queued"
    /\ Free(requests[r].grant)
    /\ \/ records[requests[r].grant] = None
       \/ requests[r].kind = "refresh" /\ ~pairs[requests[r].pair].refresh
    /\ Leaves(r)
    /\ UNCHANGED <<bound, store, host, provider, ended, lost>>

\* Under the lock the record is read again, and so is the presented refresh token's
\* mapping, which an earlier redemption takes away; the provider is then asked
\* with the refresh token the record holds now.
TakeGrant(r) ==
    LET req == requests[r]
        held == records[req.grant]
    IN  /\ req.at = "queued"
        /\ Free(req.grant)
        /\ held # None
        /\ req.kind = "refresh" => pairs[req.pair].refresh
        /\ requests' = [requests EXCEPT ![r].at = "asked", ![r].login = held.login,
                                        ![r].rt = held.rt]
        /\ UNCHANGED <<bound, store, host, provider, ended, lost>>

-----------------------------------------------------------------------------
(* The provider's answer, and the gate on the record.                      *)

Answer(r, says) ==
    LET c == requests[r].login IN
    /\ requests[r].at = "asked"
    /\ c \notin dead
    /\ requests[r].rt = issued[c]
    /\ issued[c] < MaxRotation
    /\ Spare
    /\ issued' = [issued EXCEPT ![c] = @ + 1]
    /\ requests' = [requests EXCEPT ![r].at = "answered", ![r].rt = issued[c] + 1,
                                    ![r].says = says]
    /\ UNCHANGED <<bound, store, host, account, dead, ended, lost>>

\* Mutant of AnswerFails: the error path never leaves the lock's block.
AnswerHangs(r) ==
    /\ requests[r].at = "asked"
    /\ UNCHANGED vars

\* The provider refuses, or cannot be reached within the client's timeout.
AnswerFails(r) ==
    /\ requests[r].at = "asked"
    /\ Leaves(r)
    /\ UNCHANGED <<bound, store, host, provider, ended, lost>>

\* The provider has rotated, but its answer never arrives; or the gate finds the
\* record gone or another identity's; or its keys cannot be had to verify a new
\* id_token.  Nothing is stored and nothing ends.
AnswerLost(r) ==
    /\ requests[r].at = "answered"
    /\ lost' = lost \cup {requests[r].login}
    /\ Leaves(r)
    /\ UNCHANGED <<bound, store, host, provider, ended>>

\* The record is read back: it is there, and the identity the tokens carry.
Current(r) ==
    LET req == requests[r] IN
    /\ req.at = "answered"
    /\ records[req.grant] # None
    /\ records[req.grant].owner = pairs[req.pair].who

\* Mutant of Authorised: whoever is the owner now may renew the grant.
AuthorisedNow(r) ==
    LET req == requests[r] IN req.says = "same" \/ req.says = bound

\* The id_token is the one already verified, or it names who is the owner now and
\* who authorized the grant.
Authorised(r) ==
    LET req == requests[r] IN
    req.says = "same" \/ (req.says = bound /\ req.says = records[req.grant].owner)

Admit(r) ==
    /\ Current(r)
    /\ Authorised(r)
    /\ Goes(r, "admitted")
    /\ UNCHANGED <<bound, store, host, provider, ended, lost>>

\* Another identity, or an id_token that fails the contract, ends the grant.
Refuse(r) ==
    LET req == requests[r] IN
    /\ Current(r)
    /\ ~Authorised(r)
    /\ Writable(req.grant)
    /\ records' = [records EXCEPT ![req.grant] = None]
    /\ pairs' = IF req.kind = "use" THEN [pairs EXCEPT ![req.pair].access = FALSE]
                ELSE [pairs EXCEPT ![req.pair].refresh = FALSE]
    /\ ended' = ended \cup {req.grant}
    /\ Leaves(r)
    /\ UNCHANGED <<bound, codes, host, provider, lost>>

\* The identity the gate left on the transition.
Binding(req) == IF req.says = "same" THEN pairs[req.pair].who ELSE req.says

\* The store's put is an upsert.  A request has what it needs; a refresh goes on.
Put(r) ==
    LET req == requests[r] IN
        /\ req.at = "admitted"
        /\ Writable(req.grant)
        /\ records' = [records EXCEPT ![req.grant] =
                         [owner |-> Binding(req), login |-> req.login, rt |-> req.rt]]
        /\ IF req.kind = "use" THEN Leaves(r) ELSE Goes(r, "stored")
        /\ UNCHANGED <<bound, codes, pairs, host, provider, ended, lost>>

\* The new pair is minted and the presented refresh token's mapping deleted.
Rotate(r) ==
    LET req == requests[r] IN
    /\ req.at = "stored"
    /\ pairs' = [pairs EXCEPT ![req.pair].refresh = FALSE,
                              ![NewToken] = [grant |-> req.grant, who |-> Binding(req),
                                             access |-> TRUE, refresh |-> TRUE]]
    /\ Leaves(r)
    /\ UNCHANGED <<bound, codes, records, host, provider, ended, lost>>

-----------------------------------------------------------------------------
(* Revocation by the client.                                               *)

\* Either token is located by its mapping alone, whoever is the owner now.
BeginRevoke(r, t) ==
    \/ Starts(r, t, "revoke access", "revoking") /\ pairs[t].access
    \/ Starts(r, t, "revoke refresh", "revoking") /\ pairs[t].refresh

\* Mutant of RevokeLocally: no lock is taken.
RevokeUnlocked(r, asked) ==
    LET req == requests[r]
        held == records[req.grant]
    IN  /\ req.at = "revoking"
        /\ Writable(req.grant)
        /\ records' = [records EXCEPT ![req.grant] = None]
        /\ pairs' = IF req.kind = "revoke access"
                    THEN [pairs EXCEPT ![req.pair].access = FALSE]
                    ELSE [pairs EXCEPT ![req.pair].refresh = FALSE]
        /\ ended' = ended \cup {req.grant}
        /\ dead' = IF asked /\ held # None /\ held.rt = issued[held.login]
                   THEN dead \cup {held.login} ELSE dead
        /\ Leaves(r)
        /\ UNCHANGED <<bound, codes, host, account, issued, lost>>

\* Under the grant's lock, the record first.  Then, best effort, the provider is asked
\* to revoke what the record held; nothing else can use that any more.
RevokeLocally(r, asked) ==
    /\ Free(requests[r].grant)
    /\ RevokeUnlocked(r, asked)

-----------------------------------------------------------------------------
(* recovery_rebind_oidc: one transaction, then the provider.               *)

RebindList ==
    /\ host.at = "idle"
    /\ host' = [HostIdle EXCEPT !.at = "locking",
                                !.listed = {g \in GrantIds : records[g] # None}]
    /\ UNCHANGED <<bound, store, requests, provider, ended, lost>>

\* One lock after the other, in the order of the keys.
RebindLock(g) ==
    /\ host.at = "locking"
    /\ g \in host.listed \ host.held
    /\ Free(g)
    /\ host' = [host EXCEPT !.held = @ \cup {g}]
    /\ UNCHANGED <<bound, store, requests, provider, ended, lost>>

\* With every lock held, what the provider can be asked to revoke: the tokens of the
\* listed records, which their locks keep as they are, and those filed under codes
\* not yet redeemed, which nothing does.
RebindRead ==
    /\ host.at = "locking"
    /\ host.held = host.listed
    /\ host' = [host EXCEPT
           !.at = "read",
           !.pending = {c \in Codes : codes[c] = "held"},
           !.credentials = {<<records[g].login, records[g].rt>> :
                               g \in {h \in host.listed : records[h] # None}}]
    /\ UNCHANGED <<bound, store, requests, provider, ended, lost>>

\* Then all rows of the moment are deleted, those of a grant issued since the listing
\* among them.
RebindDelete ==
    /\ host.at = "read"
    /\ host' = [host EXCEPT
           !.at = "deleted",
           !.records = {g \in GrantIds : records[g] # None},
           !.pairs = {t \in Tokens : pairs[t] # None},
           !.codes = {c \in Codes : codes[c] = "held"}]
    /\ UNCHANGED <<bound, store, requests, provider, ended, lost>>

\* A transition is at work on a grant the rebind did not list, and so has no lock of.
Overtaken(g) == g \notin host.listed /\ \E r \in Requests : HoldsGrant(r, g)

\* The commit shows the deletion and the unbound owner, and releases the locks.  It
\* ends what was listed or deleted, except a grant deleted from under a transition,
\* which may write the record back: the docstring's concurrent-issuance window.
RebindCommit ==
    /\ host.at = "deleted"
    /\ bound' = None
    /\ codes' = [c \in Codes |-> IF c \in host.codes THEN "gone" ELSE codes[c]]
    /\ records' = [g \in GrantIds |-> IF g \in host.records THEN None ELSE records[g]]
    /\ pairs' = [t \in Tokens |->
                    IF t \in host.pairs
                    THEN [pairs[t] EXCEPT !.access = FALSE, !.refresh = FALSE] ELSE pairs[t]]
    /\ ended' = ended \cup {g \in host.listed \cup host.records : ~Overtaken(g)}
    /\ host' = [HostIdle EXCEPT !.at = "committed", !.credentials = host.credentials,
                                !.pending = host.pending, !.late = host.late]
    /\ UNCHANGED <<requests, provider, lost>>

\* What the rebind hands over for revocation; a code's token is its login's first.
HandedOver == host.credentials \cup (host.pending \X {0})

\* After the commit the provider is asked to revoke what was read, best effort:
\* none, some or all of it, and not at all when the command dies first.
RebindUpstream(asked) ==
    /\ host.at = "committed"
    /\ dead' = dead \cup {c \in Codes : <<c, issued[c]>> \in asked}
    /\ host' = HostIdle
    /\ UNCHANGED <<bound, store, requests, account, issued, ended, lost>>

\* The command dies before its commit: the transaction rolls back.
RebindDies ==
    /\ host.at \in {"locking", "read", "deleted"}
    /\ host' = HostIdle
    /\ UNCHANGED <<bound, store, requests, provider, ended, lost>>

\* The API's process dies.  Locks go with its connections; an answer not yet
\* stored, and a record whose code was not yet deleted, leave a login's tokens in
\* two places.
Crash ==
    /\ \E r \in Requests : requests[r] # Idle
    /\ lost' = lost \cup {requests[r].login :
                  r \in {q \in Requests : requests[q].at \in {"mint", "answered", "admitted"}}}
    /\ requests' = [r \in Requests |-> Idle]
    /\ UNCHANGED <<bound, store, host, provider, ended>>

-----------------------------------------------------------------------------
(* The specification.                                                      *)

Exchange(r) ==
    \/ \E c \in Codes : BeginExchange(r, c)
    \/ Verify(r) \/ RefuseExchange(r)
    \/ StoreRecord(r) \/ MintPair(r)

\* What a request does while it holds a grant's lock.
Transition(r) ==
    \/ \E says \in Says : Answer(r, says)
    \/ AnswerFails(r) \/ AnswerLost(r)
    \/ Admit(r) \/ Refuse(r) \/ Put(r) \/ Rotate(r)

Refresh(r) ==
    \/ \E t \in Tokens : BeginRefresh(r, t) \/ BeginUse(r, t)
    \/ NotThere(r) \/ TakeGrant(r)

Revoke(r) ==
    \/ \E t \in Tokens : BeginRevoke(r, t)
    \/ \E asked \in BOOLEAN : RevokeLocally(r, asked)

Rebind ==
    \/ RebindList
    \/ \E g \in GrantIds : RebindLock(g)
    \/ RebindRead \/ RebindDelete \/ RebindCommit \/ RebindDies
    \/ \E asked \in SUBSET HandedOver : RebindUpstream(asked)

Next ==
    \/ \E i \in Identities : BindOwner(i)
    \/ \E c \in Codes, who \in Identities \cup {None} : LogIn(c, who)
    \/ \E r \in Requests : Exchange(r) \/ Transition(r) \/ Refresh(r) \/ Revoke(r)
    \/ Rebind
    \/ Crash

\* A call to the provider ends by the client's timeout, the database answers, and
\* the queue for an advisory lock is first come, first served.
Fairness ==
    /\ \A r \in Requests : WF_vars(Transition(r))
    /\ \A g \in GrantIds : SF_vars(RebindLock(g))

Spec == Init /\ [][Next]_vars /\ Fairness

-----------------------------------------------------------------------------
(* Properties.                                                             *)

\* A grant that a revocation, a refusal or the rebind ended stays without a record,
\* whatever refresh was at the provider when it ended, although the store's write
\* is an upsert.  The rebind ends every grant it listed and every other one it
\* deleted unless a transition was at work on it (Overtaken): that one can return.
EndedForGood == \A g \in ended : records[g] = None

\* Nobody presents a refresh token the provider has already rotated away: the one in
\* a record no transition is working on is its login's latest, unless an answer
\* was lost on the way, and no two records live on one login.
StoredIsCurrent ==
    \A g \in GrantIds :
        records[g] # None /\ records[g].login \notin lost /\ Free(g) =>
            records[g].rt = issued[records[g].login]

\* What the rebind hands over for revocation at the provider is what the provider
\* still honours, not what it has just rotated away: for every listed grant, and for
\* every pending code unless its grant was stored since the listing, when a refresh
\* of that grant may have rotated the token while the rebind was holding it.
HandedOverIsCurrent ==
    host.at \in {"read", "deleted", "committed"} =>
        /\ \A held \in host.credentials : held[1] \notin lost => held[2] = issued[held[1]]
        /\ \A c \in host.pending \ (lost \cup host.late) : issued[c] = 0

\* The store is of its types, and every refresh token in it or handed on is one the
\* provider still takes: no two transitions of one grant overlap.
CurrentPair == TypeOK /\ StoredIsCurrent /\ HandedOverIsCurrent

\* The identity that authorized a grant at its login is the one its record names and
\* its tokens carry for ever, whoever owns the instance by then and whatever
\* identity the provider's refreshes claim.
OneAuthoriser ==
    /\ \A g \in GrantIds : records[g] # None => records[g].owner = account[records[g].login]
    /\ \A s, t \in Tokens :
          pairs[s] # None /\ pairs[t] # None /\ pairs[s].grant = pairs[t].grant =>
              pairs[s].who = pairs[t].who

\* A rebind gets every lock it waits for, unless it is broken off, however many
\* refreshes of the same grant queue with it.
RebindGetsLocks == []<>(host.at # "locking" \/ host.held = host.listed)

\* A transition has a lock and cannot go on: it is to write its record, or to end the
\* grant, and an uncommitted deletion has the row.
WaitsForCommit(r) ==
    /\ \/ requests[r].at = "admitted"
       \/ Current(r) /\ ~Authorised(r)
    /\ ~Writable(requests[r].grant)

\* Nobody waits in a circle: a lock the rebind still asks for is free, or its one holder
\* needs nothing but the provider and the store; and a transition that waits for the
\* rebind's commit (its grant is younger than the rebind's listing) finds it past its
\* last lock.
LocksAreLetGo ==
    /\ host.at = "locking" =>
           \A g \in host.listed \ host.held :
               \/ Free(g)
               \/ \E r \in Requests :
                     /\ HoldsGrant(r, g) /\ ~WaitsForCommit(r)
                     /\ \A q \in Requests : HoldsGrant(q, g) => q = r
    /\ \A r \in Requests :
           WaitsForCommit(r) => host.at = "deleted" /\ requests[r].grant \notin host.listed

=============================================================================
