----------------------------- MODULE OwnerAccess -----------------------------
(***************************************************************************)
(* How the instance meets its owner: the setup token a start announces,    *)
(* the claim with a password or with the first provider login, sign-in and *)
(* sign-out, the change of authentication mode across a restart, and the   *)
(* recovery commands run on the host beside the API                        *)
(* (backend/app/services/auth.py, services/oidc.py, routers/auth.py,       *)
(* auth/setup_token.py, auth/recovery.py, main.py).                        *)
(*                                                                         *)
(* The database outlives the process; the setup token and the requests in  *)
(* flight do not.  A request whose parts run in different transactions, or *)
(* act on the process after their commit, is one action per part.  Whether *)
(* a password check is throttled, and the audit rows, are left out: a      *)
(* throttled or refused request changes nothing here.                      *)
(***************************************************************************)
EXTENDS Integers, FiniteSets

CONSTANTS
    Sessions,    \* session rows, never deleted; absent rows are None
    Logins,      \* oidc_login rows; a purged one is Purged
    Requests,    \* requests the process can have in flight
    Passwords,
    Identities,  \* (issuer, subject) pairs the provider can assert
    None,
    Purged

Modes == {"local", "oidc"}

\* bound is the owner row's (oidc_issuer, oidc_subject).
Owner == [claimed : BOOLEAN,
          credential : Passwords \cup {None},
          bound : Identities \cup {None}]

\* live: neither revoked nor expired.  key is what its sign-in proved, and by
\* the setup, the password login or the provider login that minted it.
Session == [mode : Modes, live : BOOLEAN, key : Passwords \cup Identities,
            by : {"setup", "login"} \cup Logins]

\* open: neither used nor expired.
Login == [claiming : BOOLEAN, open : BOOLEAN]

Request == [at : {"idle", "setup", "claimed", "exchange", "bound"},
            login : Logins \cup {None}, claiming : BOOLEAN]

Idle == [at |-> "idle", login |-> None, claiming |-> FALSE]

ASSUME DistinctAssumption ==
    /\ None \notin Passwords \cup Identities \cup Session \cup Login
    /\ Purged \notin Login \cup {None}
    /\ Passwords \cap Identities = {}
    /\ {"setup", "login"} \cap Logins = {}

VARIABLES
    owner, sessions, logins,  \* the tables
    mode,      \* the mode the API runs in, or "down"
    token,     \* whether the process holds a setup token
    requests,
    rebound,   \* history: the binding was cleared since this start
    refused    \* history: sessions a running API would have refused

tables == <<owner, sessions, logins>>
vars == <<owner, sessions, logins, mode, token, requests, rebound, refused>>

TypeOK ==
    /\ owner \in Owner
    /\ owner.credential # None \/ owner.bound # None => owner.claimed
    /\ sessions \in [Sessions -> Session \cup {None}]
    /\ logins \in [Logins -> Login \cup {None, Purged}]
    /\ mode \in Modes \cup {"down"}
    /\ token \in BOOLEAN
    /\ requests \in [Requests -> Request]
    /\ rebound \in BOOLEAN
    /\ refused \subseteq Sessions

-----------------------------------------------------------------------------

\* What the resolver takes for the owner.
Accepted(s) ==
    /\ mode # "down"
    /\ sessions[s] # None
    /\ sessions[s].live
    /\ sessions[s].mode = mode

Unbound == ~owner.claimed \/ owner.bound = None

\* The instance reports that it needs setting up.
NeedsSetup(m) == IF m = "oidc" THEN Unbound ELSE ~owner.claimed

\* A fresh session for whoever signed in.
Mint(s, m, key, by) ==
    /\ sessions[s] = None
    /\ sessions' = [sessions EXCEPT ![s] =
                      [mode |-> m, live |-> TRUE, key |-> key, by |-> by]]

RevokeWhere(gone) ==
    sessions' = [s \in Sessions |->
                   IF s \in gone THEN [sessions[s] EXCEPT !.live = FALSE] ELSE sessions[s]]

Live == {s \in Sessions : sessions[s] # None /\ sessions[s].live}

At(r, place) == requests' = [requests EXCEPT ![r].at = place]

Leave(r) == requests' = [requests EXCEPT ![r] = Idle]

-----------------------------------------------------------------------------
(* The process.                                                            *)

\* Mutant of Start: the sessions of the other mode are left alone.
StartUnswept(m) ==
    /\ mode = "down"
    /\ mode' = m
    /\ token' = NeedsSetup(m)
    /\ rebound' = FALSE
    /\ UNCHANGED <<owner, sessions, logins, requests>>

\* The lifespan: sweep the other mode's sessions, then announce a token if the
\* instance needs one.  Nothing is served before both are done.
Start(m) ==
    /\ mode = "down"
    /\ mode' = m
    /\ RevokeWhere({s \in Live : sessions[s].mode # m})
    /\ token' = NeedsSetup(m)
    /\ rebound' = FALSE
    /\ UNCHANGED <<owner, logins, requests>>

\* A stop or a crash, at any point.
Stop ==
    /\ mode # "down"
    /\ mode' = "down"
    /\ token' = FALSE
    /\ requests' = [r \in Requests |-> Idle]
    /\ UNCHANGED <<owner, sessions, logins, rebound>>

\* A refusal by the provider, or a fault before the commit.
GiveUp(r) ==
    /\ requests[r].at \in {"setup", "exchange"}
    /\ Leave(r)
    /\ UNCHANGED <<owner, sessions, logins, mode, token, rebound>>

-----------------------------------------------------------------------------
(* Local mode.                                                             *)

\* POST /auth/setup, up to the token's match: neither the owner row nor the token
\* is held while it is looked at.
SetupMatch(r) ==
    /\ mode = "local"
    /\ requests[r] = Idle
    /\ ~owner.claimed
    /\ token
    /\ At(r, "setup")
    /\ UNCHANGED <<owner, sessions, logins, mode, token, rebound>>

\* A claimed instance answers 410, and drops a token it still holds.
SetupGone ==
    /\ mode = "local"
    /\ owner.claimed
    /\ token' = FALSE
    /\ UNCHANGED <<owner, sessions, logins, mode, requests, rebound>>

\* Mutant of ClaimInstance: the owner row is not read again under the gate.
ClaimInstanceUnchecked(r, p, s) ==
    /\ requests[r].at = "setup"
    /\ owner' = [owner EXCEPT !.claimed = TRUE, !.credential = p]
    /\ Mint(s, "local", p, "setup")
    /\ At(r, "claimed")
    /\ UNCHANGED <<logins, mode, token, rebound>>

\* claim_instance, under the gate.  (Finding the instance claimed is GiveUp.)
ClaimInstance(r, p, s) ==
    /\ requests[r].at = "setup"
    /\ ~owner.claimed
    /\ owner' = [owner EXCEPT !.claimed = TRUE, !.credential = p]
    /\ Mint(s, "local", p, "setup")
    /\ At(r, "claimed")
    /\ UNCHANGED <<logins, mode, token, rebound>>

\* The token is spent by what committed, the provider's claim included.
ConsumeToken(r) ==
    /\ requests[r].at \in {"claimed", "bound"}
    /\ token' = FALSE
    /\ Leave(r)
    /\ UNCHANGED <<owner, sessions, logins, mode, rebound>>

\* login: the password is verified and the session minted under one gate.
SignIn(p, s) ==
    /\ mode = "local"
    /\ owner.credential = p
    /\ Mint(s, "local", p, "login")
    /\ UNCHANGED <<owner, logins, mode, token, requests, rebound>>

\* logout, or the end of a session's idle or absolute lifetime.
EndSession(s) ==
    /\ s \in Live
    /\ RevokeWhere({s})
    /\ UNCHANGED <<owner, logins, mode, token, requests, rebound>>

-----------------------------------------------------------------------------
(* OIDC mode.                                                              *)

\* begin_login: while the owner is unbound the setup token is owed, and the row
\* remembers it was given.  Rows that can no longer complete are purged.
BeginLogin(l) ==
    /\ mode = "oidc"
    /\ logins[l] = None
    /\ Unbound => token
    /\ logins' = [k \in Logins |->
                    CASE k = l -> [claiming |-> Unbound, open |-> TRUE]
                      [] k # l /\ logins[k] \in Login /\ ~logins[k].open -> Purged
                      [] OTHER -> logins[k]]
    /\ UNCHANGED <<owner, sessions, mode, token, requests, rebound>>

LoginExpires(l) ==
    /\ logins[l] \in Login
    /\ logins[l].open
    /\ logins' = [logins EXCEPT ![l].open = FALSE]
    /\ UNCHANGED <<owner, sessions, mode, token, requests, rebound>>

Exchange(r, l) ==
    /\ mode = "oidc"
    /\ requests[r] = Idle
    /\ logins[l] \in Login
    /\ logins[l].open
    /\ requests' = [requests EXCEPT ![r] =
                      [at |-> "exchange", login |-> l, claiming |-> logins[l].claiming]]

\* Mutant of ConsumeLogin: the setup token goes with the row.
ConsumeLoginAndToken(r, l) ==
    /\ Exchange(r, l)
    /\ logins' = [logins EXCEPT ![l].open = FALSE]
    /\ token' = (token /\ ~logins[l].claiming)
    /\ UNCHANGED <<owner, sessions, mode, rebound>>

\* complete_login, first transaction: the row is used before the provider is
\* asked anything.
ConsumeLogin(r, l) ==
    /\ Exchange(r, l)
    /\ logins' = [logins EXCEPT ![l].open = FALSE]
    /\ UNCHANGED <<owner, sessions, mode, token, rebound>>

\* Mutant of Bind: a login that gave the token binds, whoever is bound by now.
BindOver(r, i, s) ==
    /\ requests[r].at = "exchange"
    /\ requests[r].claiming
    /\ owner' = [owner EXCEPT !.claimed = TRUE, !.bound = i]
    /\ Mint(s, "oidc", i, requests[r].login)
    /\ At(r, "bound")
    /\ UNCHANGED <<logins, mode, token, rebound>>

\* Second transaction, after the exchange: the owner row is read here, under the
\* gate.  An unbound owner takes the identity of a login that gave the token.
Bind(r, i, s) ==
    /\ requests[r].at = "exchange"
    /\ Unbound
    /\ requests[r].claiming
    /\ owner' = [owner EXCEPT !.claimed = TRUE, !.bound = i]
    /\ Mint(s, "oidc", i, requests[r].login)
    /\ At(r, "bound")
    /\ UNCHANGED <<logins, mode, token, rebound>>

\* A bound owner signs in again; any other identity, or a login begun without
\* the token for an owner who is unbound now, is refused (GiveUp).
SignInAtProvider(r, i, s) ==
    /\ requests[r].at = "exchange"
    /\ ~Unbound
    /\ owner.bound = i
    /\ Mint(s, "oidc", i, requests[r].login)
    /\ Leave(r)
    /\ UNCHANGED <<owner, logins, mode, token, rebound>>

-----------------------------------------------------------------------------
(* Recovery, from a shell on the host, whether or not the API is up.       *)

ResetPassword(p) ==
    /\ owner' = [owner EXCEPT !.claimed = TRUE, !.credential = p]
    /\ RevokeWhere(Live)
    /\ UNCHANGED <<logins, mode, token, requests, rebound>>

RevokeSessions ==
    /\ RevokeWhere(Live)
    /\ UNCHANGED <<owner, logins, mode, token, requests, rebound>>

\* Mutant of RebindOidc: the old identity's sessions stay.
RebindOidcOnly ==
    /\ owner' = [owner EXCEPT !.bound = None]
    /\ rebound' = TRUE
    /\ UNCHANGED <<sessions, logins, mode, token, requests>>

RebindOidc ==
    /\ owner' = [owner EXCEPT !.bound = None]
    /\ RevokeWhere(Live)
    /\ rebound' = TRUE
    /\ UNCHANGED <<logins, mode, token, requests>>

-----------------------------------------------------------------------------

Init ==
    /\ owner = [claimed |-> FALSE, credential |-> None, bound |-> None]
    /\ sessions = [s \in Sessions |-> None]
    /\ logins = [l \in Logins |-> None]
    /\ mode = "down"
    /\ token = FALSE
    /\ requests = [r \in Requests |-> Idle]
    /\ rebound = FALSE
    /\ refused = {}

ProcessNext ==
    \/ \E m \in Modes : Start(m)
    \/ Stop
    \/ \E r \in Requests : GiveUp(r) \/ ConsumeToken(r)
    \/ \E s \in Sessions : EndSession(s)

LocalNext ==
    \/ \E r \in Requests : SetupMatch(r)
    \/ SetupGone
    \/ \E r \in Requests, p \in Passwords, s \in Sessions : ClaimInstance(r, p, s)
    \/ \E p \in Passwords, s \in Sessions : SignIn(p, s)

OidcNext ==
    \/ \E l \in Logins : BeginLogin(l) \/ LoginExpires(l)
    \/ \E r \in Requests, l \in Logins : ConsumeLogin(r, l)
    \/ \E r \in Requests, i \in Identities, s \in Sessions :
          Bind(r, i, s) \/ SignInAtProvider(r, i, s)

RecoveryNext ==
    \/ \E p \in Passwords : ResetPassword(p)
    \/ RevokeSessions
    \/ RebindOidc

\* The sessions a running API refuses now are remembered.
Remember ==
    refused' = refused \cup
        IF mode' = "down" THEN {}
        ELSE {s \in Sessions : sessions'[s] # None /\ ~Accepted(s)'}

Next == (ProcessNext \/ LocalNext \/ OidcNext \/ RecoveryNext) /\ Remember

Spec == Init /\ [][Next]_vars

-----------------------------------------------------------------------------
(* Properties.                                                             *)

\* A session the API accepts proves what the owner row says today: the password
\* that is set, or the identity that is bound, through claims, resets, rebinds
\* and changes of mode that land between its sign-in and its next request.
SessionsOfTheOwner ==
    \A s \in Sessions :
        Accepted(s) =>
            sessions[s].key = IF mode = "local" THEN owner.credential ELSE owner.bound

\* "Switching back does not find those sessions live again": a session that was
\* once refused, in whatever mode and for whatever reason, is refused for ever.
SignedOutForGood == \A s \in refused : ~Accepted(s)

\* A running instance that needs setting up has announced the token for it, unless
\* the operator cleared the binding since the start, which asks for a restart.
\* No failed, raced or abandoned attempt leaves the owner outside (#353).
NotStranded == mode # "down" /\ NeedsSetup(mode) /\ ~rebound => token

\* However many setups match the one token, one claims the instance.
OneClaim == Cardinality({s \in Sessions : sessions[s] # None /\ sessions[s].by = "setup"}) <= 1

\* A provider's answer is good for one session, however often its callback is
\* replayed while the first is still talking to the provider.
OneSessionPerLogin ==
    \A l \in Logins :
        Cardinality({s \in Sessions : sessions[s] # None /\ sessions[s].by = l}) <= 1

\* One token is good for one claim, and one answer of a provider's for one session.
OpenedOnce == OneClaim /\ OneSessionPerLogin

\* Only the host unbinds: a bound identity is never replaced by another in one
\* step, whichever of the logins in flight come back first.
BindingHolds ==
    [][owner.bound # None => owner'.bound \in {owner.bound, None}]_owner

=============================================================================
