------------------------- MODULE OwnerAccessProofs --------------------------
(* Theorems about OwnerAccess, for any number of sessions, logins,          *)
(* requests, passwords and identities, about Provider, for any number of    *)
(* calls and rotations, and about Throttle, for any callers and any budget. *)
EXTENDS OwnerAccess, Provider, Throttle, FiniteSetTheorems, TLAPS

\* A live session proves what the owner row says for its own mode, whether or
\* not that is the mode the API runs in: the claim and the binding only ever
\* fill an empty place, and whatever empties one revokes every session.
LiveProves ==
    \A s \in Sessions :
        sessions[s] # None /\ sessions[s].live =>
            sessions[s].key = IF sessions[s].mode = "local" THEN owner.credential
                                                           ELSE owner.bound

\* A start leaves no session of the other mode behind, and none is minted.
Swept ==
    mode # "down" =>
        \A s \in Sessions :
            sessions[s] # None /\ sessions[s].live => sessions[s].mode = mode

\* What was refused is revoked or expired, not merely of the wrong mode.
RefusedAreDead == \A s \in refused : sessions[s] # None /\ ~sessions[s].live

\* A request past its commit has done what spends the token.
Stages ==
    \A r \in Requests :
        /\ requests[r].at \in {"setup", "claimed"} => mode = "local"
        /\ requests[r].at \in {"exchange", "bound"} => mode = "oidc"
        /\ requests[r].at \in {"claimed", "bound"} => owner.claimed
        /\ requests[r].at = "bound" => owner.bound # None \/ rebound
        /\ requests[r].at = "exchange" => requests[r].login \in Logins

IInv == TypeOK /\ LiveProves /\ Swept /\ RefusedAreDead /\ Stages /\ NotStranded

-----------------------------------------------------------------------------

LEMMA InitIInv == Init => IInv
  <1> SUFFICES ASSUME Init PROVE IInv
    OBVIOUS
  <1>1. Idle \in Request /\ Idle.at = "idle"
    BY DEF Idle, Request
  <1>2. [claimed |-> FALSE, credential |-> None, bound |-> None] \in Owner
    BY DEF Owner
  <1>3. TypeOK
    BY <1>1, <1>2 DEF Init, TypeOK
  <1> QED
    BY <1>1, <1>3 DEF Init, IInv, LiveProves, Swept, RefusedAreDead, Stages, NotStranded

\* What every action does to one session row: nothing, end it, or mint it.
SessionStep(s) ==
    \/ sessions'[s] = sessions[s]
    \/ /\ sessions[s] # None /\ sessions'[s] # None
       /\ ~sessions'[s].live
       /\ sessions'[s].by = sessions[s].by
    \/ /\ sessions[s] = None
       /\ sessions'[s] \in Session
       /\ sessions'[s].live
       /\ sessions'[s].mode = mode
       /\ mode' = mode
       /\ sessions'[s].key = IF mode = "local" THEN owner'.credential ELSE owner'.bound

LEMMA RevokeStep ==
    ASSUME TypeOK, NEW gone \in SUBSET Live, RevokeWhere(gone)
    PROVE  /\ sessions' \in [Sessions -> Session \cup {None}]
           /\ \A s \in Sessions : SessionStep(s)
           /\ \A s \in Sessions \ gone : sessions'[s] = sessions[s]
           /\ \A s \in gone : sessions'[s] # None /\ ~sessions'[s].live
  <1>1. \A s \in gone : sessions[s] \in Session /\ sessions[s] # None
    BY DEF TypeOK, Live
  <1>2. ASSUME NEW row \in Session
        PROVE  /\ [row EXCEPT !.live = FALSE] \in Session
               /\ ~[row EXCEPT !.live = FALSE].live
               /\ [row EXCEPT !.live = FALSE].by = row.by
    BY DEF Session
  <1>3. \A s \in Sessions :
           sessions'[s] = IF s \in gone THEN [sessions[s] EXCEPT !.live = FALSE] ELSE sessions[s]
    BY DEF RevokeWhere
  <1>4. sessions' \in [Sessions -> Session \cup {None}]
    <2>1. \A s \in Sessions : sessions'[s] \in Session \cup {None}
      BY <1>1, <1>2, <1>3 DEF TypeOK
    <2>2. DOMAIN sessions' = Sessions /\ sessions' = [s \in Sessions |-> sessions'[s]]
      BY DEF RevokeWhere
    <2> QED
      BY <2>1, <2>2
  <1>5. \A s \in gone : /\ sessions'[s] # None /\ ~sessions'[s].live
                        /\ sessions'[s].by = sessions[s].by
    BY <1>1, <1>2, <1>3, DistinctAssumption DEF Live
  <1> QED
    BY <1>1, <1>3, <1>4, <1>5 DEF SessionStep, Live

LEMMA MintStep ==
    ASSUME TypeOK, NEW s \in Sessions, NEW m \in Modes, NEW key \in Passwords \cup Identities,
           NEW by \in {"setup", "login"} \cup Logins,
           Mint(s, m, key, by), m = mode, mode' = mode,
           key = IF m = "local" THEN owner'.credential ELSE owner'.bound
    PROVE  /\ sessions' \in [Sessions -> Session \cup {None}]
           /\ \A t \in Sessions : SessionStep(t)
  <1> DEFINE row == [mode |-> m, live |-> TRUE, key |-> key, by |-> by]
  <1>1. row \in Session
    BY DEF Session
  <1>2. sessions' = [sessions EXCEPT ![s] = row] /\ sessions[s] = None
    BY DEF Mint
  <1>3. sessions' \in [Sessions -> Session \cup {None}]
    BY <1>1, <1>2 DEF TypeOK
  <1>4. \A t \in Sessions : t # s => sessions'[t] = sessions[t]
    BY <1>2 DEF TypeOK
  <1>5. sessions'[s] = row
    BY <1>2 DEF TypeOK
  <1>6. SessionStep(s)
    BY <1>1, <1>2, <1>5 DEF SessionStep
  <1> QED
    BY <1>3, <1>4, <1>6 DEF SessionStep

\* What every action does to the owner row.
OwnerStep ==
    \/ \A s \in Sessions : sessions'[s] # None => ~sessions'[s].live
    \/ /\ owner.credential # None => owner'.credential = owner.credential
       /\ owner.bound # None => owner'.bound = owner.bound

Types ==
    /\ owner' \in Owner
    /\ owner'.credential # None \/ owner'.bound # None => owner'.claimed
    /\ sessions' \in [Sessions -> Session \cup {None}]
    /\ logins' \in [Logins -> Login \cup {None, Purged}]
    /\ mode' \in Modes \cup {"down"}
    /\ token' \in BOOLEAN
    /\ requests' \in [Requests -> Request]
    /\ rebound' \in BOOLEAN

\* What one action owes the invariant.  The history is Remember's.
Keeps ==
    /\ Types
    /\ \A s \in Sessions : SessionStep(s)
    /\ OwnerStep
    /\ Swept'
    /\ Stages'
    /\ NotStranded'

LEMMA KeepsEnough ==
    ASSUME IInv, Keeps, Remember
    PROVE  IInv'
  <1> USE DEF IInv, Keeps
  <1>1. TypeOK'
    BY DEF Types, TypeOK, Remember
  <1>2. LiveProves'
    <2> SUFFICES ASSUME NEW s \in Sessions, sessions'[s] # None, sessions'[s].live
                 PROVE  sessions'[s].key = IF sessions'[s].mode = "local"
                                             THEN owner'.credential ELSE owner'.bound
      BY DEF LiveProves
    <2>1. sessions'[s] \in Session
      BY DEF Types
    <2>2. CASE sessions'[s] = sessions[s]
      <3>1. sessions[s].key # None
        BY <2>1, <2>2, DistinctAssumption DEF Session
      <3>2. sessions[s].key = IF sessions[s].mode = "local" THEN owner.credential ELSE owner.bound
        BY <2>2 DEF LiveProves
      <3> QED
        BY <2>2, <3>1, <3>2 DEF OwnerStep
    <2> QED
      BY <2>2 DEF SessionStep
  <1>3. RefusedAreDead'
    <2> SUFFICES ASSUME NEW s \in refused' PROVE sessions'[s] # None /\ ~sessions'[s].live
      BY DEF RefusedAreDead
    <2>1. s \in Sessions
      BY <1>1 DEF TypeOK
    <2>2. CASE s \in refused
      <3>1. sessions[s] \in Session /\ sessions[s] # None /\ ~sessions[s].live
        BY <2>1, <2>2 DEF RefusedAreDead, TypeOK
      <3> QED
        BY <2>1, <3>1 DEF SessionStep
    <2>3. CASE s \notin refused
      <3>1. mode' # "down" /\ sessions'[s] # None /\ ~Accepted(s)'
        BY <2>1, <2>3 DEF Remember
      <3> QED
        BY <2>1, <3>1 DEF Accepted, Swept
    <2> QED
      BY <2>2, <2>3
  <1> QED
    BY <1>1, <1>2, <1>3

-----------------------------------------------------------------------------

LEMMA StillSessions ==
    ASSUME TypeOK, sessions' = sessions
    PROVE  /\ sessions' \in [Sessions -> Session \cup {None}]
           /\ \A s \in Sessions : SessionStep(s)
  BY DEF TypeOK, SessionStep

\* Revocation alone, by the owner or from the host.
LEMMA RevokeOnlyKeeps ==
    ASSUME IInv, NEW gone \in SUBSET Live, RevokeWhere(gone),
           UNCHANGED <<owner, logins, mode, token, requests, rebound>>
    PROVE  Keeps
  <1> USE DEF IInv
  <1>1. /\ sessions' \in [Sessions -> Session \cup {None}]
        /\ \A s \in Sessions : SessionStep(s)
    BY RevokeStep
  <1>2. Types /\ Stages'
    BY <1>1 DEF Types, TypeOK, Stages
  <1>3. Swept' /\ NotStranded'
    BY <1>1 DEF Swept, NotStranded, NeedsSetup, Unbound, SessionStep
  <1> QED
    BY <1>1, <1>2, <1>3 DEF Keeps, OwnerStep

LEMMA AtStep ==
    ASSUME TypeOK, NEW r \in Requests, At(r, "setup") \/ At(r, "claimed") \/ At(r, "bound")
    PROVE  /\ requests' \in [Requests -> Request]
           /\ \A q \in Requests : q # r => requests'[q] = requests[q]
           /\ requests'[r].login = requests[r].login
           /\ \A place : At(r, place) => requests'[r].at = place
  <1>1. PICK place \in {"setup", "claimed", "bound"} : At(r, place)
    OBVIOUS
  <1>2. requests[r] \in Request
    BY DEF TypeOK
  <1>3. /\ [requests[r] EXCEPT !.at = place] \in Request
        /\ [requests[r] EXCEPT !.at = place].at = place
        /\ [requests[r] EXCEPT !.at = place].login = requests[r].login
    BY <1>2 DEF Request
  <1>4. /\ requests' \in [Requests -> Request]
        /\ requests'[r] = [requests[r] EXCEPT !.at = place]
        /\ \A q \in Requests : q # r => requests'[q] = requests[q]
    BY <1>1, <1>3 DEF At, TypeOK
  <1>5. ASSUME NEW p, At(r, p) PROVE requests'[r].at = p
    BY <1>2, <1>5 DEF At, TypeOK, Request
  <1> QED
    BY <1>3, <1>4, <1>5

LEMMA LeaveStep ==
    ASSUME TypeOK, NEW r \in Requests, Leave(r)
    PROVE  /\ requests' \in [Requests -> Request]
           /\ \A q \in Requests : q # r => requests'[q] = requests[q]
           /\ requests'[r].at = "idle"
  <1>1. Idle \in Request /\ Idle.at = "idle"
    BY DEF Idle, Request
  <1> QED
    BY <1>1 DEF Leave, TypeOK

LEMMA ProcessKeeps ==
    ASSUME IInv, ProcessNext
    PROVE  Keeps
  <1> USE DEF IInv
  <1>1. ASSUME NEW m \in Modes, Start(m) PROVE Keeps
    <2> DEFINE gone == {s \in Live : sessions[s].mode # m}
    <2>1. /\ RevokeWhere(gone) /\ mode = "down" /\ mode' = m
          /\ token' = NeedsSetup(m) /\ rebound' = FALSE
          /\ UNCHANGED <<owner, logins, requests>>
      BY <1>1 DEF Start
    <2>2. /\ sessions' \in [Sessions -> Session \cup {None}]
          /\ \A s \in Sessions : SessionStep(s)
          /\ \A s \in Sessions \ gone : sessions'[s] = sessions[s]
          /\ \A s \in gone : sessions'[s] # None /\ ~sessions'[s].live
      BY <2>1, RevokeStep
    <2>3. Swept'
      BY <2>1, <2>2 DEF Swept, Live
    <2>4. NeedsSetup(m) \in BOOLEAN
      BY DEF NeedsSetup, Unbound, TypeOK, Owner
    <2>5. Types
      BY <2>1, <2>2, <2>4 DEF Types, TypeOK
    <2>6. NotStranded'
      BY <2>1 DEF NotStranded, NeedsSetup, Unbound
    <2>7. Stages'
      BY <2>1 DEF Stages, Modes
    <2> QED
      BY <2>1, <2>2, <2>3, <2>5, <2>6, <2>7 DEF Keeps, OwnerStep
  <1>2. CASE Stop
    <2>1. Idle \in Request /\ Idle.at = "idle"
      BY DEF Idle, Request
    <2>2. /\ mode' = "down" /\ token' = FALSE /\ requests' = [r \in Requests |-> Idle]
          /\ UNCHANGED <<owner, sessions, logins, rebound>>
      BY <1>2 DEF Stop
    <2>3. Types
      BY <2>1, <2>2 DEF Types, TypeOK
    <2>4. Stages'
      BY <2>1, <2>2 DEF Stages
    <2> QED
      BY <2>2, <2>3, <2>4, StillSessions DEF Keeps, OwnerStep, Swept, NotStranded
  <1>3. ASSUME NEW r \in Requests, GiveUp(r) PROVE Keeps
    <2>1. Leave(r) /\ UNCHANGED <<owner, sessions, logins, mode, token, rebound>>
      BY <1>3 DEF GiveUp
    <2>2. Types /\ Stages'
      BY <2>1, LeaveStep DEF Types, TypeOK, Stages
    <2>3. Swept' /\ NotStranded'
      BY <2>1 DEF Swept, NotStranded, NeedsSetup, Unbound
    <2> QED
      BY <2>1, <2>2, <2>3, StillSessions DEF Keeps, OwnerStep
  <1>4. ASSUME NEW r \in Requests, ConsumeToken(r) PROVE Keeps
    <2>1. /\ requests[r].at \in {"claimed", "bound"} /\ token' = FALSE
          /\ Leave(r) /\ UNCHANGED <<owner, sessions, logins, mode, rebound>>
      BY <1>4 DEF ConsumeToken
    <2>2. Types /\ Stages'
      BY <2>1, LeaveStep DEF Types, TypeOK, Stages
    <2>3. NotStranded'
      BY <2>1 DEF NotStranded, NeedsSetup, Unbound, Stages
    <2>4. Swept'
      BY <2>1 DEF Swept
    <2> QED
      BY <2>1, <2>2, <2>3, <2>4, StillSessions DEF Keeps, OwnerStep
  <1>5. ASSUME NEW s \in Sessions, EndSession(s) PROVE Keeps
    <2>1. /\ s \in Live /\ RevokeWhere({s})
          /\ UNCHANGED <<owner, logins, mode, token, requests, rebound>>
      BY <1>5 DEF EndSession
    <2> HIDE DEF IInv
    <2> QED
      BY <2>1, RevokeOnlyKeeps
  <1> QED
    BY <1>1, <1>2, <1>3, <1>4, <1>5 DEF ProcessNext

LEMMA LocalKeeps ==
    ASSUME IInv, LocalNext
    PROVE  Keeps
  <1> USE DEF IInv
  <1>1. ASSUME NEW r \in Requests, SetupMatch(r) PROVE Keeps
    <2>1. /\ mode = "local" /\ At(r, "setup")
          /\ UNCHANGED <<owner, sessions, logins, mode, token, rebound>>
      BY <1>1 DEF SetupMatch
    <2>2. Types /\ Stages'
      BY <2>1, AtStep DEF Types, TypeOK, Stages
    <2>3. Swept' /\ NotStranded'
      BY <2>1 DEF Swept, NotStranded, NeedsSetup, Unbound
    <2> QED
      BY <2>1, <2>2, <2>3, StillSessions DEF Keeps, OwnerStep
  <1>2. CASE SetupGone
    <2>1. /\ mode = "local" /\ owner.claimed /\ token' = FALSE
          /\ UNCHANGED <<owner, sessions, logins, mode, requests, rebound>>
      BY <1>2 DEF SetupGone
    <2>2. Types /\ Stages' /\ Swept' /\ NotStranded'
      BY <2>1 DEF Types, TypeOK, Stages, Swept, NotStranded, NeedsSetup
    <2> QED
      BY <2>1, <2>2, StillSessions DEF Keeps, OwnerStep
  <1>3. ASSUME NEW r \in Requests, NEW p \in Passwords, NEW s \in Sessions,
               ClaimInstance(r, p, s)
        PROVE  Keeps
    <2>1. /\ requests[r].at = "setup" /\ ~owner.claimed
          /\ owner' = [owner EXCEPT !.claimed = TRUE, !.credential = p]
          /\ Mint(s, "local", p, "setup") /\ At(r, "claimed")
          /\ UNCHANGED <<logins, mode, token, rebound>>
      BY <1>3 DEF ClaimInstance
    <2>2. mode = "local"
      BY <2>1 DEF Stages
    <2>3. /\ owner' \in Owner /\ owner'.claimed /\ owner'.credential = p
          /\ owner'.bound = owner.bound /\ owner.credential = None
      BY <2>1 DEF TypeOK, Owner
    <2>4. /\ sessions' \in [Sessions -> Session \cup {None}]
          /\ \A t \in Sessions : SessionStep(t)
      BY <2>1, <2>2, <2>3, MintStep DEF Modes
    <2>5. Types /\ Stages'
      BY <2>1, <2>2, <2>3, <2>4, AtStep DEF Types, TypeOK, Stages
    <2>6. Swept' /\ NotStranded'
      BY <2>1, <2>2, <2>3, <2>4 DEF Swept, NotStranded, NeedsSetup, SessionStep
    <2> QED
      BY <2>3, <2>4, <2>5, <2>6 DEF Keeps, OwnerStep
  <1>4. ASSUME NEW p \in Passwords, NEW s \in Sessions, SignIn(p, s) PROVE Keeps
    <2>1. /\ mode = "local" /\ owner.credential = p /\ Mint(s, "local", p, "login")
          /\ UNCHANGED <<owner, logins, mode, token, requests, rebound>>
      BY <1>4 DEF SignIn
    <2>2. /\ sessions' \in [Sessions -> Session \cup {None}]
          /\ \A t \in Sessions : SessionStep(t)
      BY <2>1, MintStep DEF Modes
    <2>3. Types /\ Stages'
      BY <2>1, <2>2 DEF Types, TypeOK, Stages
    <2>4. Swept' /\ NotStranded'
      BY <2>1, <2>2 DEF Swept, NotStranded, NeedsSetup, Unbound, SessionStep
    <2> QED
      BY <2>1, <2>2, <2>3, <2>4 DEF Keeps, OwnerStep
  <1> QED
    BY <1>1, <1>2, <1>3, <1>4 DEF LocalNext

LEMMA OidcKeeps ==
    ASSUME IInv, OidcNext
    PROVE  Keeps
  <1> USE DEF IInv
  <1>1. ASSUME NEW l \in Logins, logins' \in [Logins -> Login \cup {None, Purged}],
               UNCHANGED <<owner, sessions, mode, token, requests, rebound>>
        PROVE  Keeps
    <2>1. Types /\ Stages'
      BY <1>1 DEF Types, TypeOK, Stages
    <2>2. Swept' /\ NotStranded'
      BY <1>1 DEF Swept, NotStranded, NeedsSetup, Unbound
    <2> QED
      BY <1>1, <2>1, <2>2, StillSessions DEF Keeps, OwnerStep
  <1>2. ASSUME NEW l \in Logins, BeginLogin(l) PROVE Keeps
    <2>1. Unbound \in BOOLEAN
      BY DEF Unbound, TypeOK, Owner
    <2>2. [claiming |-> Unbound, open |-> TRUE] \in Login
      BY <2>1 DEF Login
    <2>3. logins' \in [Logins -> Login \cup {None, Purged}]
      BY <1>2, <2>2 DEF BeginLogin, TypeOK
    <2> QED
      BY <1>1, <1>2, <2>3 DEF BeginLogin
  <1>3. ASSUME NEW l \in Logins, LoginExpires(l) PROVE Keeps
    <2>1. [logins[l] EXCEPT !.open = FALSE] \in Login
      BY <1>3 DEF LoginExpires, Login
    <2>2. logins' \in [Logins -> Login \cup {None, Purged}]
      BY <1>3, <2>1 DEF LoginExpires, TypeOK
    <2> QED
      BY <1>1, <1>3, <2>2 DEF LoginExpires
  <1>4. ASSUME NEW r \in Requests, NEW l \in Logins, ConsumeLogin(r, l) PROVE Keeps
    <2> DEFINE new == [at |-> "exchange", login |-> l, claiming |-> logins[l].claiming]
    <2>1. /\ mode = "oidc" /\ logins[l] \in Login
          /\ requests' = [requests EXCEPT ![r] = new]
          /\ logins' = [logins EXCEPT ![l].open = FALSE]
          /\ UNCHANGED <<owner, sessions, mode, token, rebound>>
      BY <1>4 DEF ConsumeLogin, Exchange
    <2>2. new \in Request /\ new.at = "exchange" /\ [logins[l] EXCEPT !.open = FALSE] \in Login
      BY <2>1 DEF Request, Login
    <2>3. Types /\ Stages'
      BY <2>1, <2>2 DEF Types, TypeOK, Stages
    <2>4. Swept' /\ NotStranded'
      BY <2>1 DEF Swept, NotStranded, NeedsSetup, Unbound
    <2> QED
      BY <2>1, <2>3, <2>4, StillSessions DEF Keeps, OwnerStep
  <1>5. ASSUME NEW r \in Requests, NEW i \in Identities, NEW s \in Sessions, Bind(r, i, s)
        PROVE  Keeps
    <2>1. /\ requests[r].at = "exchange" /\ Unbound
          /\ owner' = [owner EXCEPT !.claimed = TRUE, !.bound = i]
          /\ Mint(s, "oidc", i, requests[r].login) /\ At(r, "bound")
          /\ UNCHANGED <<logins, mode, token, rebound>>
      BY <1>5 DEF Bind
    <2>2. mode = "oidc"
      BY <2>1 DEF Stages
    <2>3. /\ owner' \in Owner /\ owner'.claimed /\ owner'.bound = i
          /\ owner'.credential = owner.credential /\ owner.bound = None /\ i # None
      BY <2>1, DistinctAssumption DEF TypeOK, Owner, Unbound
    <2>4. requests[r].login \in Logins
      BY <2>1 DEF Stages
    <2>5. /\ sessions' \in [Sessions -> Session \cup {None}]
          /\ \A t \in Sessions : SessionStep(t)
      BY <2>1, <2>2, <2>3, <2>4, MintStep DEF Modes
    <2>6. Types /\ Stages'
      BY <2>1, <2>2, <2>3, <2>5, AtStep DEF Types, TypeOK, Stages
    <2>7. Swept' /\ NotStranded'
      BY <2>1, <2>2, <2>3, <2>5 DEF Swept, NotStranded, NeedsSetup, Unbound, SessionStep
    <2> QED
      BY <2>3, <2>5, <2>6, <2>7 DEF Keeps, OwnerStep
  <1>6. ASSUME NEW r \in Requests, NEW i \in Identities, NEW s \in Sessions,
               SignInAtProvider(r, i, s)
        PROVE  Keeps
    <2>1. /\ requests[r].at = "exchange" /\ owner.bound = i
          /\ Mint(s, "oidc", i, requests[r].login) /\ Leave(r)
          /\ UNCHANGED <<owner, logins, mode, token, rebound>>
      BY <1>6 DEF SignInAtProvider
    <2>2. mode = "oidc" /\ requests[r].login \in Logins
      BY <2>1 DEF Stages
    <2>3. /\ sessions' \in [Sessions -> Session \cup {None}]
          /\ \A t \in Sessions : SessionStep(t)
      BY <2>1, <2>2, MintStep DEF Modes
    <2>4. Types /\ Stages'
      BY <2>1, <2>3, LeaveStep DEF Types, TypeOK, Stages
    <2>5. Swept' /\ NotStranded'
      BY <2>1, <2>2, <2>3 DEF Swept, NotStranded, NeedsSetup, Unbound, SessionStep
    <2> QED
      BY <2>1, <2>3, <2>4, <2>5 DEF Keeps, OwnerStep
  <1> QED
    BY <1>2, <1>3, <1>4, <1>5, <1>6 DEF OidcNext

LEMMA RecoveryKeeps ==
    ASSUME IInv, RecoveryNext
    PROVE  Keeps
  <1> USE DEF IInv
  <1>1. CASE RevokeSessions
    <2> HIDE DEF IInv
    <2> QED
      BY <1>1, RevokeOnlyKeeps DEF RevokeSessions
  <1>2. ASSUME RevokeWhere(Live)
        PROVE  /\ sessions' \in [Sessions -> Session \cup {None}]
               /\ \A s \in Sessions : SessionStep(s)
               /\ \A s \in Sessions : sessions'[s] # None => ~sessions'[s].live
    BY <1>2, RevokeStep DEF Live
  <1>3. ASSUME NEW p \in Passwords, ResetPassword(p) PROVE Keeps
    <2>1. /\ owner' = [owner EXCEPT !.claimed = TRUE, !.credential = p] /\ RevokeWhere(Live)
          /\ UNCHANGED <<logins, mode, token, requests, rebound>>
      BY <1>3 DEF ResetPassword
    <2>2. /\ owner' \in Owner /\ owner'.claimed /\ owner'.bound = owner.bound
      BY <2>1 DEF TypeOK, Owner
    <2>3. Types /\ Stages'
      BY <1>2, <2>1, <2>2 DEF Types, TypeOK, Stages
    <2>4. Swept' /\ NotStranded'
      BY <1>2, <2>1, <2>2 DEF Swept, NotStranded, NeedsSetup, Unbound
    <2> QED
      BY <1>2, <2>1, <2>3, <2>4 DEF Keeps, OwnerStep
  <1>4. CASE RebindOidc
    <2>1. /\ owner' = [owner EXCEPT !.bound = None] /\ RevokeWhere(Live) /\ rebound' = TRUE
          /\ UNCHANGED <<logins, mode, token, requests>>
      BY <1>4 DEF RebindOidc
    <2>2. /\ owner' \in Owner /\ owner'.bound = None /\ owner'.claimed = owner.claimed
          /\ owner'.credential = owner.credential
      BY <2>1 DEF TypeOK, Owner
    <2>3. Types /\ Stages'
      BY <1>2, <2>1, <2>2 DEF Types, TypeOK, Stages
    <2>4. Swept' /\ NotStranded'
      BY <1>2, <2>1 DEF Swept, NotStranded
    <2> QED
      BY <1>2, <2>1, <2>3, <2>4 DEF Keeps, OwnerStep
  <1> QED
    BY <1>1, <1>3, <1>4 DEF RecoveryNext

LEMMA NextIInv == IInv /\ [Next]_vars => IInv'
  <1>1. CASE UNCHANGED vars
    BY <1>1 DEF vars, IInv, TypeOK, LiveProves, Swept, RefusedAreDead, Stages, NotStranded,
                NeedsSetup, Unbound
  <1>2. CASE Next
    BY <1>2, ProcessKeeps, LocalKeeps, OidcKeeps, RecoveryKeeps, KeepsEnough DEF Next
  <1> QED
    BY <1>1, <1>2

LEMMA Invariance == Spec => []IInv
  BY InitIInv, NextIInv, PTL DEF Spec

-----------------------------------------------------------------------------

\* The tables, the process and its requests keep the shapes the code gives them.
THEOREM TypeCorrect == Spec => []TypeOK
  <1>1. IInv => TypeOK
    BY DEF IInv
  <1> QED
    BY Invariance, <1>1, PTL

\* Whatever the resolver accepts was signed in with the password that is set or
\* the identity that is bound at that moment.
THEOREM OnlyTheOwner == Spec => []SessionsOfTheOwner
  <1>1. IInv => SessionsOfTheOwner
    BY DEF IInv, LiveProves, SessionsOfTheOwner, Accepted, TypeOK, Modes
  <1> QED
    BY Invariance, <1>1, PTL

\* A session refused once, by a revocation, an expiry or a start in the other
\* mode, is never accepted again.
THEOREM RefusedForGood == Spec => []SignedOutForGood
  <1>1. IInv => SignedOutForGood
    BY DEF IInv, RefusedAreDead, SignedOutForGood, Accepted
  <1> QED
    BY Invariance, <1>1, PTL

\* A running instance that still needs its owner holds the token that lets the
\* owner in, whatever attempts failed, raced or were cut off.
THEOREM OwnerNeverStranded == Spec => []NotStranded
  <1>1. IInv => NotStranded
    BY DEF IInv
  <1> QED
    BY Invariance, <1>1, PTL

-----------------------------------------------------------------------------
(* One claim, one session for each provider login, and a binding that only *)
(* the host undoes: what a single login row, or the setup token, is good    *)
(* for.                                                                     *)

\* A login row that no request can use any more.
Spent(l) == logins[l] # None /\ (logins[l] \in Login => ~logins[l].open)

\* The request talks to the provider on behalf of a login.
Exchanging(r) == requests[r].at = "exchange"

Setups ==
    /\ \A s \in Sessions : sessions[s] # None /\ sessions[s].by = "setup" => owner.claimed
    /\ \A s, t \in Sessions :
           /\ sessions[s] # None /\ sessions[s].by = "setup"
           /\ sessions[t] # None /\ sessions[t].by = "setup"
           => s = t

\* One of three: the row is open, one request exchanges its code, one session
\* came of it.
Tickets ==
    /\ \A r \in Requests : Exchanging(r) => Spent(requests[r].login)
    /\ \A r, q \in Requests :
           Exchanging(r) /\ Exchanging(q) /\ requests[r].login = requests[q].login => r = q
    /\ \A r \in Requests, s \in Sessions :
           Exchanging(r) /\ sessions[s] # None => sessions[s].by # requests[r].login
    /\ \A s \in Sessions :
           sessions[s] # None /\ sessions[s].by \in Logins => Spent(sessions[s].by)
    /\ \A s, t \in Sessions :
           /\ sessions[s] # None /\ sessions[t] # None
           /\ sessions[s].by \in Logins /\ sessions[s].by = sessions[t].by
           => s = t

\* No row is minted.
OldRows ==
    \A s \in Sessions :
        sessions'[s] # None => sessions[s] # None /\ sessions'[s].by = sessions[s].by

\* One row is, by this.
NewRow(by) ==
    \E t \in Sessions :
        /\ sessions[t] = None
        /\ sessions'[t] # None
        /\ sessions'[t].by = by
        /\ \A s \in Sessions : s # t => sessions'[s] = sessions[s]

\* The request stops exchanging, and no other request moves.
Settles(r) ==
    /\ Exchanging(r)
    /\ ~Exchanging(r)'
    /\ \A q \in Requests : q # r => requests'[q] = requests[q]

\* What one action does to claims, rows and requests.
Effect ==
    /\ owner.claimed => owner'.claimed
    /\ owner.bound # None => owner'.bound \in {owner.bound, None}
    /\ \A l \in Logins : Spent(l) => Spent(l)'
    /\ \A r \in Requests : Exchanging(r)' =>
           \/ requests'[r] = requests[r]
           \/ /\ \E l \in Logins : requests'[r].login = l /\ ~Spent(l) /\ Spent(l)'
              /\ OldRows
              /\ \A q \in Requests : q # r => requests'[q] = requests[q]
    /\ \/ OldRows
       \/ NewRow("login")
       \/ NewRow("setup") /\ ~owner.claimed /\ owner'.claimed
       \/ \E r \in Requests : Settles(r) /\ NewRow(requests[r].login)

-----------------------------------------------------------------------------

LEMMA MintNews ==
    ASSUME TypeOK, NEW s \in Sessions, NEW m \in Modes, NEW key \in Passwords \cup Identities,
           NEW by \in {"setup", "login"} \cup Logins, Mint(s, m, key, by)
    PROVE  NewRow(by)
  <1> DEFINE row == [mode |-> m, live |-> TRUE, key |-> key, by |-> by]
  <1>1. row \in Session /\ row.by = by
    BY DEF Session
  <1>2. sessions' = [sessions EXCEPT ![s] = row] /\ sessions[s] = None
    BY DEF Mint
  <1>3. sessions'[s] = row /\ \A t \in Sessions : t # s => sessions'[t] = sessions[t]
    BY <1>2 DEF TypeOK
  <1> QED
    BY <1>1, <1>2, <1>3, DistinctAssumption DEF NewRow

\* Actions that mint nothing and start no exchange.
LEMMA QuietEffect ==
    ASSUME \A s \in Sessions : SessionStep(s),
           sessions' = sessions \/ (\E gone \in SUBSET Live : RevokeWhere(gone)),
           TypeOK,
           owner.claimed => owner'.claimed,
           owner.bound # None => owner'.bound \in {owner.bound, None},
           \A l \in Logins : Spent(l) => Spent(l)',
           \A r \in Requests : Exchanging(r)' => requests'[r] = requests[r]
    PROVE  Effect
  <1>1. ASSUME NEW gone \in SUBSET Live, RevokeWhere(gone) PROVE OldRows
    <2>1. \A s \in Sessions :
             sessions'[s] = IF s \in gone THEN [sessions[s] EXCEPT !.live = FALSE] ELSE sessions[s]
      BY <1>1 DEF RevokeWhere
    <2>2. \A s \in gone : sessions[s] # None
      BY DEF Live
    <2> QED
      BY <2>1, <2>2 DEF OldRows, SessionStep
  <1> QED
    BY <1>1 DEF Effect, OldRows

LEMMA ProcessEffect ==
    ASSUME IInv, ProcessNext
    PROVE  Effect
  <1> USE DEF IInv
  <1>0. \A s \in Sessions : SessionStep(s)
    BY ProcessKeeps DEF Keeps
  <1>1. ASSUME NEW m \in Modes, Start(m) PROVE Effect
    <2>1. {s \in Live : sessions[s].mode # m} \in SUBSET Live
      OBVIOUS
    <2> QED
      BY <1>0, <1>1, <2>1, QuietEffect DEF Start, Spent, Exchanging
  <1>2. CASE Stop
    <2>1. Idle.at = "idle"
      BY DEF Idle
    <2> QED
      BY <1>0, <1>2, <2>1, QuietEffect DEF Stop, Spent, Exchanging
  <1>3. ASSUME NEW r \in Requests, GiveUp(r) PROVE Effect
    BY <1>0, <1>3, LeaveStep, QuietEffect DEF GiveUp, Spent, Exchanging
  <1>4. ASSUME NEW r \in Requests, ConsumeToken(r) PROVE Effect
    BY <1>0, <1>4, LeaveStep, QuietEffect DEF ConsumeToken, Spent, Exchanging
  <1>5. ASSUME NEW s \in Sessions, EndSession(s) PROVE Effect
    <2>1. {s} \in SUBSET Live
      BY <1>5 DEF EndSession
    <2> QED
      BY <1>0, <1>5, <2>1, QuietEffect DEF EndSession, Spent, Exchanging
  <1> QED
    BY <1>1, <1>2, <1>3, <1>4, <1>5 DEF ProcessNext

LEMMA LocalEffect ==
    ASSUME IInv, LocalNext
    PROVE  Effect
  <1> USE DEF IInv
  <1>0. \A s \in Sessions : SessionStep(s)
    BY LocalKeeps DEF Keeps
  <1>1. ASSUME NEW r \in Requests, SetupMatch(r) PROVE Effect
    BY <1>0, <1>1, AtStep, QuietEffect DEF SetupMatch, Spent, Exchanging
  <1>2. CASE SetupGone
    BY <1>0, <1>2, QuietEffect DEF SetupGone, Spent, Exchanging
  <1>3. ASSUME NEW r \in Requests, NEW p \in Passwords, NEW s \in Sessions,
               ClaimInstance(r, p, s)
        PROVE  Effect
    <2>1. /\ ~owner.claimed /\ Mint(s, "local", p, "setup") /\ At(r, "claimed")
          /\ owner' = [owner EXCEPT !.claimed = TRUE, !.credential = p]
          /\ UNCHANGED <<logins, mode, token, rebound>>
      BY <1>3 DEF ClaimInstance
    <2>2. owner'.claimed /\ owner'.bound = owner.bound
      BY <2>1 DEF TypeOK, Owner
    <2>3. NewRow("setup")
      BY <2>1, MintNews DEF Modes
    <2>4. \A q \in Requests : Exchanging(q)' => requests'[q] = requests[q]
      BY <2>1, AtStep DEF Exchanging
    <2> QED
      BY <2>1, <2>2, <2>3, <2>4 DEF Effect, Spent
  <1>4. ASSUME NEW p \in Passwords, NEW s \in Sessions, SignIn(p, s) PROVE Effect
    <2>1. NewRow("login")
      BY <1>4, MintNews DEF SignIn, Modes
    <2> QED
      BY <1>4, <2>1 DEF SignIn, Effect, Spent, Exchanging
  <1> QED
    BY <1>1, <1>2, <1>3, <1>4 DEF LocalNext

LEMMA OidcEffect ==
    ASSUME IInv, OidcNext
    PROVE  Effect
  <1> USE DEF IInv
  <1>0. \A s \in Sessions : SessionStep(s)
    BY OidcKeeps DEF Keeps
  <1>1. ASSUME NEW l \in Logins, BeginLogin(l) PROVE Effect
    <2>1. \A k \in Logins : Spent(k) => Spent(k)'
      BY <1>1, DistinctAssumption DEF BeginLogin, Spent, TypeOK
    <2> QED
      BY <1>0, <1>1, <2>1, QuietEffect DEF BeginLogin, Exchanging
  <1>2. ASSUME NEW l \in Logins, LoginExpires(l) PROVE Effect
    <2>1. [logins[l] EXCEPT !.open = FALSE] \in Login /\ ~[logins[l] EXCEPT !.open = FALSE].open
      BY <1>2 DEF LoginExpires, Login
    <2>2. \A k \in Logins : Spent(k) => Spent(k)'
      BY <1>2, <2>1, DistinctAssumption DEF LoginExpires, Spent, TypeOK
    <2> QED
      BY <1>0, <1>2, <2>2, QuietEffect DEF LoginExpires, Exchanging
  <1>3. ASSUME NEW r \in Requests, NEW l \in Logins, ConsumeLogin(r, l) PROVE Effect
    <2> DEFINE new == [at |-> "exchange", login |-> l, claiming |-> logins[l].claiming]
    <2>1. /\ logins[l] \in Login /\ logins[l].open
          /\ requests' = [requests EXCEPT ![r] = new]
          /\ logins' = [logins EXCEPT ![l].open = FALSE]
          /\ UNCHANGED <<owner, sessions>>
      BY <1>3 DEF ConsumeLogin, Exchange
    <2>2. [logins[l] EXCEPT !.open = FALSE] \in Login /\ ~[logins[l] EXCEPT !.open = FALSE].open
      BY <2>1 DEF Login
    <2>3. \A k \in Logins : Spent(k) => Spent(k)'
      BY <2>1, <2>2, DistinctAssumption DEF Spent, TypeOK
    <2>4. ~Spent(l) /\ Spent(l)'
      BY <2>1, <2>2, DistinctAssumption DEF Spent, TypeOK
    <2>5. requests'[r].login = l /\ \A q \in Requests : q # r => requests'[q] = requests[q]
      BY <2>1 DEF TypeOK
    <2> QED
      BY <2>1, <2>3, <2>4, <2>5 DEF Effect, OldRows
  <1>4. ASSUME NEW r \in Requests, NEW i \in Identities, NEW s \in Sessions, Bind(r, i, s)
        PROVE  Effect
    <2>1. /\ Exchanging(r) /\ Unbound
          /\ owner' = [owner EXCEPT !.claimed = TRUE, !.bound = i]
          /\ Mint(s, "oidc", i, requests[r].login) /\ At(r, "bound")
          /\ UNCHANGED <<logins, mode, token, rebound>>
      BY <1>4 DEF Bind, Exchanging
    <2>2. owner'.claimed /\ owner.bound = None
      BY <2>1 DEF TypeOK, Owner, Unbound
    <2>3. requests[r].login \in Logins
      BY <2>1 DEF Stages, Exchanging
    <2>4. NewRow(requests[r].login)
      BY <2>1, <2>3, MintNews DEF Modes
    <2>5. Settles(r)
      BY <2>1, AtStep DEF Settles, Exchanging
    <2>6. \A q \in Requests : Exchanging(q)' => requests'[q] = requests[q]
      BY <2>5 DEF Settles
    <2> QED
      BY <2>1, <2>2, <2>4, <2>5, <2>6 DEF Effect, Spent
  <1>5. ASSUME NEW r \in Requests, NEW i \in Identities, NEW s \in Sessions,
               SignInAtProvider(r, i, s)
        PROVE  Effect
    <2>1. /\ Exchanging(r) /\ Mint(s, "oidc", i, requests[r].login) /\ Leave(r)
          /\ UNCHANGED <<owner, logins, mode, token, rebound>>
      BY <1>5 DEF SignInAtProvider, Exchanging
    <2>2. requests[r].login \in Logins
      BY <2>1 DEF Stages, Exchanging
    <2>3. NewRow(requests[r].login)
      BY <2>1, <2>2, MintNews DEF Modes
    <2>4. Settles(r)
      BY <2>1, LeaveStep DEF Settles, Exchanging
    <2>5. \A q \in Requests : Exchanging(q)' => requests'[q] = requests[q]
      BY <2>4 DEF Settles
    <2> QED
      BY <2>1, <2>3, <2>4, <2>5 DEF Effect, Spent
  <1> QED
    BY <1>1, <1>2, <1>3, <1>4, <1>5 DEF OidcNext

LEMMA RecoveryEffect ==
    ASSUME IInv, RecoveryNext
    PROVE  Effect
  <1> USE DEF IInv
  <1>0. \A s \in Sessions : SessionStep(s)
    BY RecoveryKeeps DEF Keeps
  <1>1. ASSUME NEW p \in Passwords, ResetPassword(p) PROVE Effect
    <2>1. owner'.claimed /\ owner'.bound = owner.bound
      BY <1>1 DEF ResetPassword, TypeOK, Owner
    <2> QED
      BY <1>0, <1>1, <2>1, QuietEffect DEF ResetPassword, Spent, Exchanging
  <1>2. CASE RevokeSessions
    BY <1>0, <1>2, QuietEffect DEF RevokeSessions, Spent, Exchanging
  <1>3. CASE RebindOidc
    <2>1. owner'.claimed = owner.claimed /\ owner'.bound = None
      BY <1>3 DEF RebindOidc, TypeOK, Owner
    <2> QED
      BY <1>0, <1>3, <2>1, QuietEffect DEF RebindOidc, Spent, Exchanging
  <1> QED
    BY <1>1, <1>2, <1>3 DEF RecoveryNext

LEMMA NextEffect ==
    ASSUME IInv, [Next]_vars
    PROVE  Effect
  <1>1. CASE UNCHANGED vars
    BY <1>1 DEF vars, Effect, OldRows, Spent, Exchanging
  <1>2. CASE Next
    BY <1>2, ProcessEffect, LocalEffect, OidcEffect, RecoveryEffect DEF Next
  <1> QED
    BY <1>1, <1>2


-----------------------------------------------------------------------------

LEMMA SetupsKept ==
    ASSUME Setups, Effect, Stages
    PROVE  Setups'
  <1>1. ASSUME NEW s \in Sessions, sessions'[s] # None, sessions'[s].by = "setup",
               sessions[s] = None
        PROVE  /\ ~owner.claimed /\ owner'.claimed
               /\ \A t \in Sessions : t # s => sessions'[t] = sessions[t]
    <2>1. ~OldRows
      BY <1>1 DEF OldRows
    <2>2. ASSUME NEW by, NewRow(by) PROVE by = "setup"
      BY <1>1, <2>2 DEF NewRow
    <2>3. ~\E r \in Requests : Settles(r) /\ NewRow(requests[r].login)
      <3> SUFFICES ASSUME NEW r \in Requests, Settles(r), NewRow(requests[r].login)
                   PROVE  FALSE
        OBVIOUS
      <3> QED
        BY <2>2, DistinctAssumption DEF Settles, Exchanging, Stages
    <2> QED
      BY <1>1, <2>1, <2>2, <2>3 DEF Effect, NewRow
  <1>2. ASSUME NEW s \in Sessions, sessions'[s] # None, sessions[s] # None
        PROVE  sessions'[s].by = sessions[s].by
    <2>1. ASSUME NEW by, NewRow(by) PROVE sessions'[s] = sessions[s]
      BY <1>2, <2>1 DEF NewRow
    <2>2. ASSUME OldRows PROVE sessions'[s].by = sessions[s].by
      BY <1>2, <2>2 DEF OldRows
    <2> QED
      BY <2>1, <2>2 DEF Effect
  <1>3. ASSUME NEW s \in Sessions, sessions'[s] # None, sessions'[s].by = "setup"
        PROVE  owner'.claimed
    BY <1>1, <1>2, <1>3 DEF Setups, Effect
  <1>4. ASSUME NEW s \in Sessions, NEW t \in Sessions,
               sessions'[s] # None, sessions'[s].by = "setup",
               sessions'[t] # None, sessions'[t].by = "setup"
        PROVE  s = t
    <2>1. CASE sessions[s] # None /\ sessions[t] # None
      BY <1>2, <1>4, <2>1 DEF Setups
    <2>2. CASE sessions[s] = None
      BY <1>1, <1>4, <2>2 DEF Setups
    <2>3. CASE sessions[t] = None
      BY <1>1, <1>4, <2>3 DEF Setups
    <2> QED
      BY <2>1, <2>2, <2>3
  <1> QED
    BY <1>3, <1>4 DEF Setups

\* Where a new row comes from, if it is a login's.
LEMMA LoginRow ==
    ASSUME Effect, Stages, NEW s \in Sessions, sessions'[s] # None,
           sessions'[s].by \in Logins
    PROVE  \/ sessions[s] # None /\ sessions[s].by = sessions'[s].by
           \/ /\ sessions[s] = None
              /\ \A t \in Sessions : t # s => sessions'[t] = sessions[t]
              /\ \E r \in Requests : Settles(r) /\ requests[r].login = sessions'[s].by
  <1>1. ASSUME NEW by, NewRow(by)
        PROVE  \/ sessions[s] # None /\ sessions'[s] = sessions[s]
               \/ /\ sessions[s] = None /\ sessions'[s].by = by
                  /\ \A t \in Sessions : t # s => sessions'[t] = sessions[t]
    BY <1>1 DEF NewRow
  <1>2. CASE OldRows
    BY <1>2 DEF OldRows
  <1>3. CASE NewRow("login") \/ NewRow("setup")
    BY <1>1, <1>3, DistinctAssumption
  <1>4. ASSUME NEW r \in Requests, Settles(r), NewRow(requests[r].login)
        PROVE  \/ sessions[s] # None /\ sessions[s].by = sessions'[s].by
               \/ /\ sessions[s] = None
                  /\ \A t \in Sessions : t # s => sessions'[t] = sessions[t]
                  /\ \E q \in Requests : Settles(q) /\ requests[q].login = sessions'[s].by
    BY <1>1, <1>4
  <1> QED
    BY <1>2, <1>3, <1>4 DEF Effect

LEMMA TicketsKept ==
    ASSUME Tickets, Effect, Stages
    PROVE  Tickets'
  <1>1. ASSUME NEW r \in Requests, Exchanging(r)'
        PROVE  \/ Exchanging(r) /\ requests'[r] = requests[r]
               \/ /\ \E l \in Logins : requests'[r].login = l /\ ~Spent(l) /\ Spent(l)'
                  /\ OldRows
                  /\ \A q \in Requests : q # r => requests'[q] = requests[q]
    BY <1>1 DEF Effect, Exchanging
  <1>2. \A r \in Requests : Exchanging(r) => requests[r].login \in Logins
    BY DEF Stages, Exchanging
  <1>3. ASSUME NEW r \in Requests, Exchanging(r)'
        PROVE  \E l \in Logins : requests'[r].login = l /\ Spent(l)'
    BY <1>1, <1>2, <1>3 DEF Tickets, Effect
  <1>4. ASSUME NEW r \in Requests, NEW q \in Requests, Exchanging(r)', Exchanging(q)',
               requests'[r].login = requests'[q].login
        PROVE  r = q
    BY <1>1, <1>4 DEF Tickets, Exchanging
  <1>5. ASSUME NEW r \in Requests, NEW s \in Sessions, Exchanging(r)', sessions'[s] # None
        PROVE  sessions'[s].by # requests'[r].login
    <2> SUFFICES ASSUME sessions'[s].by = requests'[r].login PROVE FALSE
      OBVIOUS
    <2>1. sessions'[s].by \in Logins
      BY <1>3, <1>5
    <2>2. CASE sessions[s] # None /\ sessions[s].by = sessions'[s].by
      BY <1>1, <1>5, <2>1, <2>2 DEF Tickets
    <2>3. ASSUME sessions[s] = None, NEW q \in Requests, Settles(q),
                 requests[q].login = sessions'[s].by
          PROVE  FALSE
      <3>1. ~OldRows
        BY <1>5, <2>3 DEF OldRows
      <3>2. Exchanging(r) /\ requests'[r] = requests[r]
        BY <1>1, <1>5, <3>1
      <3> QED
        BY <1>5, <2>3, <3>2 DEF Settles, Tickets
    <2> QED
      BY <1>5, <2>1, <2>2, <2>3, LoginRow
  <1>6. ASSUME NEW s \in Sessions, sessions'[s] # None, sessions'[s].by \in Logins
        PROVE  \E l \in Logins : sessions'[s].by = l /\ Spent(l)'
    BY <1>6, LoginRow DEF Tickets, Settles, Effect
  <1>7. ASSUME NEW s \in Sessions, NEW t \in Sessions, sessions'[s] # None,
               sessions'[t] # None, sessions'[s].by \in Logins,
               sessions'[s].by = sessions'[t].by
        PROVE  s = t
    BY <1>7, LoginRow DEF Tickets, Settles
  <1>8. \A r \in Requests : Exchanging(r)' => Spent(requests[r].login)'
    BY <1>3 DEF Spent
  <1>9. \A s \in Sessions : sessions'[s] # None /\ sessions'[s].by \in Logins => Spent(sessions[s].by)'
    BY <1>6 DEF Spent
  <1> QED
    BY <1>4, <1>5, <1>7, <1>8, <1>9 DEF Tickets

LEMMA Together == Spec => [](IInv /\ Setups /\ Tickets)
  <1>1. Init => Setups /\ Tickets
    BY DEF Init, Setups, Tickets, Exchanging, Idle
  <1>2. (IInv /\ Setups /\ Tickets) /\ [Next]_vars => (IInv /\ Setups /\ Tickets)'
    BY NextIInv, NextEffect, SetupsKept, TicketsKept DEF IInv
  <1> QED
    BY InitIInv, <1>1, <1>2, PTL DEF Spec

LEMMA AtMostOne ==
    ASSUME NEW S, \A s, t \in S : s = t
    PROVE  Cardinality(S) <= 1
  <1>1. CASE S = {}
    BY <1>1, FS_EmptySet
  <1>2. ASSUME NEW s \in S PROVE Cardinality(S) <= 1
    <2>1. S = {s}
      OBVIOUS
    <2>2. Cardinality({s}) = 1
      BY FS_Singleton
    <2> QED
      BY <2>1, <2>2
  <1> QED
    BY <1>1, <1>2

-----------------------------------------------------------------------------

\* However many setups match the token, whoever loses the race, is cut off or
\* comes after a restart, one session was ever opened by a setup.
THEOREM OneSetupClaims == Spec => []OneClaim
  <1>1. Setups => OneClaim
    BY AtMostOne DEF Setups, OneClaim
  <1> QED
    BY Together, <1>1, PTL

\* A provider login opens one session, for any number of replayed callbacks.
THEOREM LoginsOpenOneSession == Spec => []OneSessionPerLogin
  <1>1. Tickets => OneSessionPerLogin
    BY AtMostOne DEF Tickets, OneSessionPerLogin
  <1> QED
    BY Together, <1>1, PTL

\* Neither the token nor a provider's answer opens a second session.
THEOREM SessionsOpenOnce == Spec => []OpenedOnce
  <1>1. OneClaim /\ OneSessionPerLogin => OpenedOnce
    BY DEF OpenedOnce
  <1> QED
    BY OneSetupClaims, LoginsOpenOneSession, <1>1, PTL

\* No step of any request replaces a bound identity by another.
THEOREM OnlyTheHostUnbinds == Spec => BindingHolds
  <1>1. IInv /\ [Next]_vars => [owner.bound # None => owner'.bound \in {owner.bound, None}]_owner
    BY NextEffect DEF Effect
  <1> QED
    BY Together, <1>1, PTL DEF Spec, BindingHolds

-----------------------------------------------------------------------------
(* Provider.                                                               *)

(* A call on its way has a token only once there is one, knows whether its   *)
(* key stayed published, and the document it fetches is newer than what is   *)
(* cached and holds that key.                                                *)
CallHolds(call) ==
    /\ call.answer = "signature" => ~call.held
    /\ call.at # "over" =>
          /\ call.kind \in Kinds /\ call.answer = "none"
          /\ call.kind = "mcp" => call.token # NoToken
          /\ call.token = NoToken => ~call.refresh /\ ~call.held
          /\ call.held => call.token.key \in published.keys
    /\ call.at = "posts" => call.token = NoToken
    /\ call.at \in {"waits_for_keys", "fetches_keys"} /\ call.token = NoToken =>
          call.kind = "warm_up"
    /\ call.at = "waits_for_keys" => call.document = Uncached
    /\ call.at = "fetches_keys" /\ call.document # Uncached =>
          /\ cachedKeys.number <= call.document.number
          /\ call.document.number <= published.number
          /\ call.held => call.token.key \in call.document.keys

(* One call at a time fetches, and it holds the lock.                        *)
OneFetches ==
    /\ \A c \in Calls : calls[c].at \in Fetching <=> c \in lock
    /\ \A c, d \in lock : c = d

CacheHolds == cachedKeys.number = newest /\ newest <= published.number

ProviderInv ==
    ProviderTypeOK /\ OneFetches /\ CacheHolds /\ \A c \in Calls : CallHolds(calls[c])

(* An ended call holds, whatever it was answered but a signature refused for a key it held. *)
LEMMA EndedCallHolds ==
    ASSUME NEW call \in Call, call.kind \in Kinds,
           NEW answer \in {"accepted", "refused", "signature", "ready", "revoked",
                           "unconfirmed", "unavailable"},
           answer = "signature" => ~call.held
    PROVE  /\ Over(call, answer) \in Call
           /\ Over(call, answer).at = "over"
           /\ CallHolds(Over(call, answer))
<1>1. NoCall \in Call
    BY DEF NoCall, Call, NoToken, Uncached
<1>2. Over(call, answer) = [NoCall EXCEPT !.kind = call.kind, !.held = call.held, !.answer = answer]
    BY DEF Over
<1>3. Over(call, answer) \in Call
    BY <1>1, <1>2 DEF Call
<1>4. /\ Over(call, answer).at = "over"
      /\ Over(call, answer).answer = answer
      /\ Over(call, answer).held = call.held
    BY <1>1, <1>2 DEF Call, NoCall
<1> QED
    BY <1>3, <1>4 DEF CallHolds

(* A call that goes for the keys, discovered or not. *)
LEMMA FetchKeysHolds ==
    ASSUME NEW call \in Call, NEW discovered \in BOOLEAN,
           call.kind \in Kinds,
           call.answer = "none",
           call.kind = "mcp" => call.token # NoToken,
           discovered /\ call.token = NoToken => call.kind = "warm_up",
           call.token = NoToken => ~call.refresh /\ ~call.held,
           call.held => call.token.key \in published.keys
    PROVE  /\ FetchKeys(call, discovered) \in Call
           /\ FetchKeys(call, discovered).at \in {"waits_for_keys", "waits_for_metadata"}
           /\ CallHolds(FetchKeys(call, discovered))
<1> DEFINE q == FetchKeys(call, discovered)
<1>1. q \in Call
    BY DEF FetchKeys, Call, Uncached
<1>2. /\ q.at = IF discovered THEN "waits_for_keys" ELSE "waits_for_metadata"
      /\ q.document = Uncached
      /\ q.kind = call.kind /\ q.token = call.token /\ q.refresh = call.refresh
      /\ q.held = call.held /\ q.answer = call.answer
    BY DEF FetchKeys, Call
<1> QED
    BY <1>1, <1>2 DEF CallHolds

(* What the verification does next holds, if the keys at hand have the call's   *)
(* own when it is already the second time.                                      *)
LEMMA VerifiedHolds ==
    ASSUME NEW call \in Call, NEW keys, NEW discovered \in BOOLEAN,
           call.kind \in Kinds,
           call.answer = "none",
           call.token # NoToken,
           call.held => call.token.key \in published.keys,
           call.refresh /\ call.held => call.token.key \in keys
    PROVE  /\ Verified(call, keys, discovered) \in Call
           /\ Verified(call, keys, discovered).at \in {"over", "waits_for_keys", "waits_for_metadata"}
           /\ CallHolds(Verified(call, keys, discovered))
<1>1. CASE call.token.key \in keys
    <2> DEFINE answer == IF ClaimsHold(call) THEN "accepted" ELSE "refused"
    <2>1. answer \in {"accepted", "refused"}
        OBVIOUS
    <2>2. Verified(call, keys, discovered) = Over(call, answer)
        BY <1>1 DEF Verified
    <2> HIDE DEF answer
    <2> QED
        BY <2>1, <2>2, EndedCallHolds
<1>2. CASE call.token.key \notin keys /\ call.refresh
    <2>1. Verified(call, keys, discovered) = Over(call, "signature")
        BY <1>2 DEF Verified
    <2> QED
        BY <1>2, <2>1, EndedCallHolds
<1>3. CASE call.token.key \notin keys /\ ~call.refresh
    <2> DEFINE again == [call EXCEPT !.refresh = TRUE]
    <2>1. again \in Call /\ again.kind = call.kind /\ again.answer = call.answer
          /\ again.token = call.token /\ again.held = call.held
        BY DEF Call
    <2>2. Verified(call, keys, discovered) = FetchKeys(again, discovered)
        BY <1>3 DEF Verified
    <2> HIDE DEF again
    <2> QED
        BY <2>1, <2>2, FetchKeysHolds
<1> QED
    BY <1>1, <1>2, <1>3 DEF Call

(* A verification that begins holds. *)
LEMMA VerifyingHolds ==
    ASSUME ProviderTypeOK,
           NEW call \in Call, NEW signed \in Tokens,
           call.kind \in Kinds, ~call.refresh, call.answer = "none"
    PROVE  /\ Verifying(call, signed) \in Call
           /\ Verifying(call, signed).at \in {"over", "waits_for_keys", "waits_for_metadata"}
           /\ CallHolds(Verifying(call, signed))
<1> DEFINE held == signed.key \in published.keys
           begun == [call EXCEPT !.token = signed, !.held = held]
<1>a. held \in BOOLEAN
    OBVIOUS
<1> HIDE DEF held
<1>0. signed # NoToken
    BY ProviderAssumption DEF Tokens, NoToken
<1>1. begun \in Call
    BY <1>a DEF Call
<1>2. /\ begun.token = signed /\ begun.held = held
      /\ begun.kind = call.kind /\ begun.refresh = call.refresh /\ begun.answer = call.answer
    BY DEF Call
<1>3. metadata \in BOOLEAN
    BY DEF ProviderTypeOK
<1>4. Verifying(call, signed) = IF cachedKeys # Uncached THEN Verified(begun, cachedKeys.keys, metadata)
                               ELSE FetchKeys(begun, metadata)
    BY DEF Verifying, held
<1>b. begun.held => begun.token.key \in published.keys
    BY <1>2 DEF held
<1> HIDE DEF begun
<1>5. /\ Verified(begun, cachedKeys.keys, metadata) \in Call
      /\ Verified(begun, cachedKeys.keys, metadata).at \in {"over", "waits_for_keys", "waits_for_metadata"}
      /\ CallHolds(Verified(begun, cachedKeys.keys, metadata))
    BY <1>0, <1>1, <1>2, <1>3, <1>b, VerifiedHolds
<1>6. /\ FetchKeys(begun, metadata) \in Call
      /\ FetchKeys(begun, metadata).at \in {"waits_for_keys", "waits_for_metadata"}
      /\ CallHolds(FetchKeys(begun, metadata))
    BY <1>0, <1>1, <1>2, <1>3, <1>b, FetchKeysHolds
<1> QED
    BY <1>4, <1>5, <1>6

(* What follows discovery holds. *)
LEMMA DiscoveredHolds ==
    ASSUME NEW call \in Call,
           call.kind \in Kinds,
           call.answer = "none",
           call.kind = "mcp" => call.token # NoToken,
           call.token = NoToken => ~call.refresh /\ ~call.held,
           call.held => call.token.key \in published.keys
    PROVE  /\ Discovered(call) \in Call
           /\ Discovered(call).at \in {"over", "posts", "waits_for_keys", "waits_for_metadata"}
           /\ CallHolds(Discovered(call))
<1>1. CASE call.kind \in {"login", "revoke"} /\ call.token = NoToken
    <2>1. Discovered(call) = [call EXCEPT !.at = "posts"]
        BY <1>1 DEF Discovered
    <2>2. Discovered(call) \in Call
        BY <2>1 DEF Call
    <2>3. /\ Discovered(call).at = "posts" /\ Discovered(call).answer = call.answer
          /\ Discovered(call).token = call.token /\ Discovered(call).kind = call.kind
          /\ Discovered(call).refresh = call.refresh /\ Discovered(call).held = call.held
        BY <2>1 DEF Call
    <2> QED
        BY <1>1, <2>2, <2>3 DEF CallHolds
<1>2. CASE call.kind = "warm_up" /\ cachedKeys # Uncached
    <2>1. Discovered(call) = Over(call, "ready")
        BY <1>2 DEF Discovered
    <2> QED
        BY <2>1, EndedCallHolds
<1>3. CASE /\ ~(call.kind \in {"login", "revoke"} /\ call.token = NoToken)
           /\ ~(call.kind = "warm_up" /\ cachedKeys # Uncached)
    <2>1. Discovered(call) = FetchKeys(call, TRUE)
        BY <1>3 DEF Discovered
    <2>2. call.token = NoToken => call.kind = "warm_up"
        BY <1>3 DEF Kinds
    <2> QED
        BY <2>1, <2>2, FetchKeysHolds
<1> QED
    BY <1>1, <1>2, <1>3

(* A step of one call, outside the lock or letting it go, that leaves the keys as they are. *)
LEMMA OneCallMoves ==
    ASSUME ProviderInv, NEW c \in Calls, NEW q \in Call, CallHolds(q),
           calls' = [calls EXCEPT ![c] = q],
           \/ q.at \notin Fetching /\ lock' = lock \ {c}
           \/ q.at \in Fetching /\ lock' = lock /\ c \in lock
           \/ q.at \in Fetching /\ lock = {} /\ lock' = {c},
           metadata' \in BOOLEAN,
           UNCHANGED <<published, cachedKeys, newest>>
    PROVE  ProviderInv'
<1>1. ProviderTypeOK'
    BY DEF ProviderInv, ProviderTypeOK
<1>2. \A d \in Calls : calls'[d] = IF d = c THEN q ELSE calls[d]
    BY DEF ProviderInv, ProviderTypeOK
<1>3. OneFetches'
    BY <1>2 DEF ProviderInv, ProviderTypeOK, OneFetches
<1>4. CacheHolds'
    BY DEF ProviderInv, CacheHolds
<1>5. \A d \in Calls : CallHolds(calls[d])'
    BY <1>2 DEF ProviderInv, CallHolds
<1> QED
    BY <1>1, <1>3, <1>4, <1>5 DEF ProviderInv

(* Every step of the provider's clients, and of the provider, keeps it. *)
LEMMA ProviderStep ==
    ASSUME ProviderInv, ProviderNext
    PROVE  ProviderInv'
<1> USE ProviderAssumption
<1>1. CASE Rotate
    <2>1. PICK kept \in SUBSET published.keys :
              /\ published' = [number |-> published.number + 1, keys |-> kept \cup {published.number + 1}]
              /\ calls' = [c \in Calls |->
                     [calls[c] EXCEPT !.held =
                         @ /\ (calls[c].at = "over" \/ calls[c].token.key \in kept)]]
        BY <1>1 DEF Rotate
    <2>2. UNCHANGED <<metadata, cachedKeys, lock, newest>> /\ published.number < MaxPublications
        BY <1>1 DEF Rotate
    <2>3. published.number \in 1..MaxPublications /\ published.keys \in SUBSET (1..MaxPublications)
        BY DEF ProviderInv, ProviderTypeOK, Publication
    <2>4. published' \in Publication
        BY <2>1, <2>2, <2>3 DEF Publication
    <2>5. published'.number = published.number + 1 /\ published'.keys = kept \cup {published.number + 1}
        BY <2>1
    <2>6. ASSUME NEW c \in Calls
          PROVE  /\ calls'[c] \in Call
                 /\ calls'[c].at = calls[c].at
                 /\ CallHolds(calls[c])'
        <3> DEFINE held == calls[c].held /\ (calls[c].at = "over" \/ calls[c].token.key \in kept)
        <3>1. calls[c] \in Call /\ CallHolds(calls[c])
            BY DEF ProviderInv, ProviderTypeOK
        <3>2. held \in BOOLEAN
            BY <3>1 DEF Call
        <3>3. held => calls[c].held /\ (calls[c].at = "over" \/ calls[c].token.key \in kept)
            OBVIOUS
        <3>4. calls'[c] = [calls[c] EXCEPT !.held = held]
            BY <2>1
        <3> HIDE DEF held
        <3>5. calls'[c] \in Call
            BY <3>1, <3>2, <3>4 DEF Call
        <3>6. /\ calls'[c].held = held /\ calls'[c].at = calls[c].at /\ calls'[c].kind = calls[c].kind
              /\ calls'[c].token = calls[c].token /\ calls'[c].refresh = calls[c].refresh
              /\ calls'[c].document = calls[c].document /\ calls'[c].answer = calls[c].answer
            BY <3>1, <3>4 DEF Call
        <3>7. calls[c].document \in Publication \cup {Uncached}
            BY <3>1 DEF Call
        <3> QED
            BY <2>2, <2>3, <2>5, <3>1, <3>3, <3>5, <3>6, <3>7 DEF CallHolds, Publication, Uncached
    <2>7. DOMAIN calls' = Calls /\ calls' \in [Calls -> Call]
        BY <2>1, <2>6
    <2>8. ProviderTypeOK'
        BY <2>2, <2>4, <2>7 DEF ProviderInv, ProviderTypeOK
    <2>9. OneFetches'
        BY <2>2, <2>6 DEF ProviderInv, OneFetches
    <2>10. CacheHolds'
        BY <2>2, <2>3, <2>5 DEF ProviderInv, ProviderTypeOK, CacheHolds
    <2> QED
        BY <2>6, <2>8, <2>9, <2>10 DEF ProviderInv
<1>2. ASSUME NEW c \in Calls, Serve(c)
      PROVE  ProviderInv'
    <2> DEFINE q == [calls[c] EXCEPT !.document = published]
    <2>1. calls[c].at = "fetches_keys" /\ calls' = [calls EXCEPT ![c] = q]
          /\ UNCHANGED <<published, metadata, cachedKeys, lock, newest>>
        BY <1>2 DEF Serve
    <2>2. calls[c] \in Call /\ CallHolds(calls[c]) /\ published \in Publication
        BY DEF ProviderInv, ProviderTypeOK
    <2>3. q \in Call
        BY <2>2 DEF Call
    <2>4. /\ q.document = published /\ q.at = calls[c].at /\ q.kind = calls[c].kind
          /\ q.token = calls[c].token /\ q.refresh = calls[c].refresh
          /\ q.held = calls[c].held /\ q.answer = calls[c].answer
        BY <2>2 DEF Call
    <2>5. cachedKeys.number <= published.number /\ published.number <= published.number
        BY DEF ProviderInv, ProviderTypeOK, CacheHolds, Publication
    <2>6. CallHolds(q)
        BY <2>1, <2>2, <2>4, <2>5 DEF CallHolds
    <2>7. c \in lock
        BY <2>1 DEF ProviderInv, OneFetches, Fetching
    <2> HIDE DEF q
    <2> QED
        BY <2>1, <2>3, <2>4, <2>6, <2>7, OneCallMoves DEF Fetching, ProviderInv, ProviderTypeOK
<1>3. ASSUME NEW c \in Calls, MetadataArrives(c)
      PROVE  ProviderInv'
    <2> DEFINE q == Discovered(calls[c])
    <2>1. /\ calls[c].at = "fetches_metadata" /\ calls' = [calls EXCEPT ![c] = q]
          /\ metadata' = TRUE /\ lock' = lock \ {c} /\ UNCHANGED <<published, cachedKeys, newest>>
        BY <1>3 DEF MetadataArrives
    <2>2. calls[c] \in Call /\ CallHolds(calls[c])
        BY DEF ProviderInv, ProviderTypeOK
    <2>3. /\ q \in Call /\ CallHolds(q)
          /\ q.at \in {"over", "posts", "waits_for_keys", "waits_for_metadata"}
        BY <2>1, <2>2, DiscoveredHolds DEF CallHolds
    <2> HIDE DEF q
    <2> QED
        BY <2>1, <2>3, OneCallMoves DEF Fetching
<1>4. ASSUME NEW c \in Calls, KeysArrive(c)
      PROVE  ProviderInv'
    <2> DEFINE call == calls[c]
               fetched == calls[c].document
               q == IF call.kind = "warm_up" THEN Over(call, "ready")
                    ELSE Verified(call, fetched.keys, TRUE)
    <2>1. /\ call.at = "fetches_keys" /\ fetched # Uncached /\ calls' = [calls EXCEPT ![c] = q]
          /\ cachedKeys' = fetched /\ lock' = lock \ {c}
          /\ newest' = IF fetched.number > newest THEN fetched.number ELSE newest
          /\ UNCHANGED <<published, metadata>>
        BY <1>4 DEF KeysArrive
    <2>2. call \in Call /\ CallHolds(call)
        BY DEF ProviderInv, ProviderTypeOK
    <2>3. fetched \in Publication
        BY <2>1, <2>2 DEF Call
    <2>4. /\ Over(call, "ready") \in Call /\ Over(call, "ready").at = "over"
          /\ CallHolds(Over(call, "ready"))
        BY <2>1, <2>2, EndedCallHolds DEF CallHolds
    <2>5. ASSUME call.kind # "warm_up"
          PROVE  /\ Verified(call, fetched.keys, TRUE) \in Call
                 /\ Verified(call, fetched.keys, TRUE).at
                        \in {"over", "waits_for_keys", "waits_for_metadata"}
                 /\ CallHolds(Verified(call, fetched.keys, TRUE))
        BY <2>1, <2>2, <2>5, VerifiedHolds DEF CallHolds
    <2>6. q \in Call /\ q.at \in {"over", "waits_for_keys", "waits_for_metadata"} /\ CallHolds(q)
        BY <2>4, <2>5
    <2>7. fetched.number = newest' /\ newest' <= published.number /\ newest' \in 0..MaxPublications
        BY <2>1, <2>2, <2>3 DEF ProviderInv, ProviderTypeOK, CacheHolds, CallHolds, Publication
    <2>p. PICK p \in Call : p = q
        BY <2>6
    <2> HIDE DEF q
    <2>8. \A d \in Calls : calls'[d] = IF d = c THEN p ELSE calls[d]
        BY <2>1, <2>p DEF ProviderInv, ProviderTypeOK
    <2>9. ProviderTypeOK'
        BY <2>1, <2>3, <2>6, <2>7 DEF ProviderInv, ProviderTypeOK
    <2>10. c \in lock /\ \A d \in Calls \ {c} : calls[d].at \notin Fetching
        BY <2>1 DEF ProviderInv, OneFetches, Fetching
    <2>11. OneFetches'
        BY <2>1, <2>6, <2>p, <2>8, <2>10 DEF ProviderInv, ProviderTypeOK, OneFetches, Fetching
    <2>12. CacheHolds'
        BY <2>1, <2>7 DEF CacheHolds
    <2>a. CallHolds(p)'
        BY <2>1, <2>6, <2>p DEF CallHolds
    <2>b. ASSUME NEW d \in Calls, d # c PROVE CallHolds(calls[d])'
        <3>1. calls'[d] = calls[d] /\ calls[d].at # "fetches_keys" /\ CallHolds(calls[d])
            BY <2>8, <2>10, <2>b DEF ProviderInv, Fetching
        <3> QED
            BY <2>1, <3>1 DEF CallHolds
    <2>13. \A d \in Calls : CallHolds(calls[d])'
        BY <2>8, <2>a, <2>b
    <2> QED
        BY <2>9, <2>11, <2>12, <2>13 DEF ProviderInv
<1>5. ASSUME NEW c \in Calls, CodeExchanged(c)
      PROVE  ProviderInv'
    <2>1. calls[c] \in Call /\ CallHolds(calls[c])
        BY DEF ProviderInv, ProviderTypeOK
    <2>2. /\ calls[c].at = "posts" /\ calls[c].kind \in Kinds /\ calls[c].answer = "none"
          /\ ~calls[c].refresh /\ UNCHANGED <<published, metadata, cachedKeys, lock, newest>>
        BY <1>5, <2>1 DEF CodeExchanged, CallHolds
    <2>3. c \notin lock
        BY <2>2 DEF ProviderInv, OneFetches, Fetching
    <2>4. ASSUME NEW signed \in Tokens, calls' = [calls EXCEPT ![c] = Verifying(calls[c], signed)]
          PROVE  ProviderInv'
        <3> DEFINE q == Verifying(calls[c], signed)
        <3>1. q \in Call /\ q.at \in {"over", "waits_for_keys", "waits_for_metadata"} /\ CallHolds(q)
            BY <2>1, <2>2, VerifyingHolds DEF ProviderInv
        <3>2. calls' = [calls EXCEPT ![c] = q]
            BY <2>4
        <3> HIDE DEF q
        <3> QED
            BY <2>2, <2>3, <3>1, <3>2, OneCallMoves DEF Fetching, ProviderInv, ProviderTypeOK
    <2>5. CASE calls' = [calls EXCEPT ![c] = Over(calls[c], "refused")]
        <3> DEFINE q == Over(calls[c], "refused")
        <3>1. q \in Call /\ q.at = "over" /\ CallHolds(q)
            BY <2>1, <2>2, EndedCallHolds
        <3>2. calls' = [calls EXCEPT ![c] = q]
            BY <2>5
        <3> HIDE DEF q
        <3> QED
            BY <2>2, <2>3, <3>1, <3>2, OneCallMoves DEF Fetching, ProviderInv, ProviderTypeOK
    <2> QED
        BY <1>5, <2>4, <2>5 DEF CodeExchanged
<1>6. ASSUME NEW c \in Calls, Revoked(c)
      PROVE  ProviderInv'
    <2>1. calls[c] \in Call /\ CallHolds(calls[c])
        BY DEF ProviderInv, ProviderTypeOK
    <2>2. /\ calls[c].at = "posts" /\ calls[c].kind \in Kinds
          /\ UNCHANGED <<published, metadata, cachedKeys, lock, newest>>
        BY <1>6, <2>1 DEF Revoked, CallHolds
    <2>3. c \notin lock
        BY <2>2 DEF ProviderInv, OneFetches, Fetching
    <2>4. PICK answer \in {"revoked", "unconfirmed"} : calls' = [calls EXCEPT ![c] = Over(calls[c], answer)]
        BY <1>6 DEF Revoked
    <2> DEFINE q == Over(calls[c], answer)
    <2>5. q \in Call /\ q.at = "over" /\ CallHolds(q)
        BY <2>1, <2>2, EndedCallHolds
    <2>6. calls' = [calls EXCEPT ![c] = q]
        BY <2>4
    <2> HIDE DEF q
    <2> QED
        BY <2>2, <2>3, <2>5, <2>6, OneCallMoves DEF Fetching, ProviderInv, ProviderTypeOK
<1>7. ASSUME NEW c \in Calls, Unavailable(c)
      PROVE  ProviderInv'
    <2> DEFINE q == Over(calls[c], "unavailable")
    <2>1. calls[c] \in Call /\ CallHolds(calls[c])
        BY DEF ProviderInv, ProviderTypeOK
    <2>2. /\ calls[c].kind \in Kinds /\ calls' = [calls EXCEPT ![c] = q]
          /\ lock' = lock \ {c} /\ UNCHANGED <<published, metadata, cachedKeys, newest>>
        BY <1>7, <2>1 DEF Unavailable, CallHolds, Fetching
    <2>3. q \in Call /\ q.at = "over" /\ CallHolds(q)
        BY <2>1, <2>2, EndedCallHolds
    <2> HIDE DEF q
    <2> QED
        BY <2>2, <2>3, OneCallMoves DEF Fetching, ProviderInv, ProviderTypeOK
<1>8. ASSUME NEW c \in Calls, LockForMetadata(c)
      PROVE  ProviderInv'
    <2>1. calls[c] \in Call /\ CallHolds(calls[c])
        BY DEF ProviderInv, ProviderTypeOK
    <2>2. /\ calls[c].at = "waits_for_metadata" /\ lock = {}
          /\ UNCHANGED <<published, metadata, cachedKeys, newest>>
        BY <1>8 DEF LockForMetadata
    <2>3. CASE metadata
        <3> DEFINE q == Discovered(calls[c])
        <3>1. calls' = [calls EXCEPT ![c] = q] /\ lock' = lock
            BY <1>8, <2>3 DEF LockForMetadata
        <3>2. /\ q \in Call /\ CallHolds(q)
              /\ q.at \in {"over", "posts", "waits_for_keys", "waits_for_metadata"}
            BY <2>1, <2>2, DiscoveredHolds DEF CallHolds
        <3> HIDE DEF q
        <3> QED
            BY <2>2, <3>1, <3>2, OneCallMoves DEF Fetching, ProviderInv, ProviderTypeOK
    <2>4. CASE ~metadata
        <3> DEFINE q == [calls[c] EXCEPT !.at = "fetches_metadata"]
        <3>1. calls' = [calls EXCEPT ![c] = q] /\ lock' = {c}
            BY <1>8, <2>4 DEF LockForMetadata
        <3>2. q \in Call
            BY <2>1 DEF Call, Fetching
        <3>3. /\ q.at = "fetches_metadata" /\ q.kind = calls[c].kind /\ q.token = calls[c].token
              /\ q.refresh = calls[c].refresh /\ q.held = calls[c].held /\ q.answer = calls[c].answer
            BY <2>1 DEF Call
        <3>4. CallHolds(q)
            BY <2>1, <2>2, <3>3 DEF CallHolds
        <3> HIDE DEF q
        <3> QED
            BY <2>2, <3>1, <3>2, <3>3, <3>4, OneCallMoves DEF Fetching, ProviderInv, ProviderTypeOK
    <2> QED
        BY <2>3, <2>4
<1>9. ASSUME NEW c \in Calls, LockForKeys(c)
      PROVE  ProviderInv'
    <2> DEFINE q == [calls[c] EXCEPT !.at = "fetches_keys"]
    <2>1. calls[c] \in Call /\ CallHolds(calls[c])
        BY DEF ProviderInv, ProviderTypeOK
    <2>2. /\ calls[c].at = "waits_for_keys" /\ lock = {} /\ lock' = {c}
          /\ calls' = [calls EXCEPT ![c] = q] /\ UNCHANGED <<published, metadata, cachedKeys, newest>>
        BY <1>9 DEF LockForKeys
    <2>3. q \in Call
        BY <2>1 DEF Call, Fetching
    <2>4. /\ q.at = "fetches_keys" /\ q.kind = calls[c].kind /\ q.token = calls[c].token
          /\ q.refresh = calls[c].refresh /\ q.held = calls[c].held /\ q.answer = calls[c].answer
          /\ q.document = calls[c].document
        BY <2>1 DEF Call
    <2>5. CallHolds(q)
        BY <2>1, <2>2, <2>4 DEF CallHolds
    <2> HIDE DEF q
    <2> QED
        BY <2>2, <2>3, <2>4, <2>5, OneCallMoves DEF Fetching, ProviderInv, ProviderTypeOK
<1>10. ASSUME NEW c \in Calls, NEW kind \in Kinds, Begin(c, kind)
       PROVE  ProviderInv'
    <2>1. PICK nonce \in Nonces, signed \in Tokens :
              LET call == [NoCall EXCEPT !.kind = kind,
                              !.nonce = IF kind = "login" THEN nonce ELSE "none"]
              IN  calls' = [calls EXCEPT ![c] =
                      IF kind = "mcp" THEN Verifying(call, signed)
                      ELSE IF metadata THEN Discovered(call)
                      ELSE FetchKeys(call, FALSE)]
        BY <1>10 DEF Begin
    <2>2. calls[c].at = "over" /\ UNCHANGED <<published, metadata, cachedKeys, lock, newest>>
        BY <1>10 DEF Begin
    <2>3. c \notin lock
        BY <2>2 DEF ProviderInv, OneFetches, Fetching
    <2> DEFINE sent == IF kind = "login" THEN nonce ELSE "none"
               call == [NoCall EXCEPT !.kind = kind, !.nonce = sent]
               q == IF kind = "mcp" THEN Verifying(call, signed)
                    ELSE IF metadata THEN Discovered(call) ELSE FetchKeys(call, FALSE)
    <2>4. calls' = [calls EXCEPT ![c] = q]
        BY <2>1
    <2>5. NoCall \in Call
        BY DEF NoCall, Call, NoToken, Uncached
    <2>6. call \in Call
        BY <2>5 DEF Call
    <2>7. /\ call.kind = kind /\ ~call.refresh /\ ~call.held /\ call.answer = "none"
          /\ call.token = NoToken
        BY <2>5 DEF Call, NoCall
    <2> HIDE DEF call
    <2>8. ASSUME kind = "mcp"
          PROVE  /\ q \in Call /\ CallHolds(q)
                 /\ q.at \in {"over", "posts", "waits_for_keys", "waits_for_metadata"}
        <3>1. q = Verifying(call, signed)
            BY <2>8
        <3>2. /\ Verifying(call, signed) \in Call /\ CallHolds(Verifying(call, signed))
              /\ Verifying(call, signed).at \in {"over", "waits_for_keys", "waits_for_metadata"}
            BY <2>6, <2>7, VerifyingHolds DEF ProviderInv
        <3> QED
            BY <3>1, <3>2
    <2>9. ASSUME kind # "mcp" /\ metadata
          PROVE  /\ q \in Call /\ CallHolds(q)
                 /\ q.at \in {"over", "posts", "waits_for_keys", "waits_for_metadata"}
        <3>1. q = Discovered(call)
            BY <2>9
        <3>2. /\ Discovered(call) \in Call /\ CallHolds(Discovered(call))
              /\ Discovered(call).at \in {"over", "posts", "waits_for_keys", "waits_for_metadata"}
            BY <2>6, <2>7, <2>9, DiscoveredHolds
        <3> QED
            BY <3>1, <3>2
    <2>10. ASSUME kind # "mcp" /\ ~metadata
          PROVE  /\ q \in Call /\ CallHolds(q)
                 /\ q.at \in {"over", "posts", "waits_for_keys", "waits_for_metadata"}
        <3>1. q = FetchKeys(call, FALSE)
            BY <2>10
        <3>2. /\ FetchKeys(call, FALSE) \in Call /\ CallHolds(FetchKeys(call, FALSE))
              /\ FetchKeys(call, FALSE).at \in {"waits_for_keys", "waits_for_metadata"}
            BY <2>6, <2>7, <2>10, FetchKeysHolds
        <3> QED
            BY <3>1, <3>2
    <2> HIDE DEF q
    <2>11. /\ q \in Call /\ CallHolds(q)
           /\ q.at \in {"over", "posts", "waits_for_keys", "waits_for_metadata"}
        BY <2>8, <2>9, <2>10 DEF q
    <2> QED
        BY <2>2, <2>3, <2>4, <2>11, OneCallMoves DEF Fetching, ProviderInv, ProviderTypeOK
<1> QED
    BY <1>1, <1>2, <1>3, <1>4, <1>5, <1>6, <1>7, <1>8, <1>9, <1>10 DEF ProviderNext, Answered, Granted

LEMMA ProviderAlways == ProviderSpec => []ProviderInv
<1>1. ProviderInit => ProviderInv
    <2>1. NoCall \in Call /\ NoCall.at = "over" /\ NoCall.answer = "none"
        BY DEF NoCall, Call, NoToken, Uncached
    <2>a. {1} \in SUBSET (1..MaxPublications) /\ 1 \in 1..MaxPublications /\ 0 \in 0..MaxPublications
        BY ProviderAssumption
    <2>2. ProviderInit => ProviderTypeOK
        <3>1. [number |-> 1, keys |-> {1}] \in Publication
            BY <2>a DEF Publication
        <3>2. ProviderInit => calls \in [Calls -> Call]
            BY <2>1 DEF ProviderInit
        <3> QED
            BY <2>a, <3>1, <3>2 DEF ProviderInit, ProviderTypeOK
    <2> QED
        BY <2>1, <2>2, ProviderAssumption
        DEF ProviderInit, ProviderInv, OneFetches, CacheHolds, CallHolds, Fetching, Uncached
<1>2. ProviderInv /\ [ProviderNext]_providerVars => ProviderInv'
    <2>1. ProviderInv /\ UNCHANGED providerVars => ProviderInv'
        BY DEF ProviderInv, ProviderTypeOK, OneFetches, CacheHolds, CallHolds, providerVars
    <2> QED
        BY <2>1, ProviderStep
<1> QED
    BY <1>1, <1>2, PTL DEF ProviderSpec

(* OidcProvider: a login, an MCP request or a revocation is never refused for the *)
(* signature of a key that stayed published while it was verified, the keys       *)
(* cached never go back, and the lock's holder is on the network.                 *)
THEOREM KeysFollowed == ProviderSpec => []LoginsFollowTheKeys
<1>1. ProviderInv => LoginsFollowTheKeys
    BY DEF ProviderInv, ProviderTypeOK, OneFetches, CacheHolds, CallHolds, LoginsFollowTheKeys,
           HolderFetches, KeysNeverGoBack, PublishedKeysVerify
<1> QED
    BY <1>1, ProviderAlways, PTL

\* The provider's one lock is held by the one call that fetches, and by nobody else:
\* what CallsEnd rests on beside fairness, for any number of calls.
THEOREM LockIsTheFetchers == ProviderSpec => []OneFetcher
  <1>1. ProviderInv => OneFetcher
    BY DEF ProviderInv, ProviderTypeOK, OneFetches, OneFetcher
  <1> QED
    BY <1>1, ProviderAlways, PTL

-----------------------------------------------------------------------------
(* The failure budgets.                                                     *)

LEMMA BudgetsPositive ==
    /\ BaseDelay \in Nat \ {0} /\ MaxDelay \in Nat \ {0} /\ MaxTracked \in Nat \ {0}
    /\ Minute \in Nat \ {0} /\ Capacity \in Nat \ {0} /\ Reserved \in Nat \ {0}
    /\ DecayAfter \in Nat /\ DecayAfter >= MaxDelay
  <1>1. /\ BaseDelay \in Nat \ {0} /\ MaxDelay \in Nat \ {0} /\ MaxTracked \in Nat \ {0}
        /\ Minute \in Nat \ {0} /\ Capacity \in Nat \ {0} /\ Reserved \in Nat \ {0}
    BY ThrottleAssumption
  <1> QED
    BY <1>1 DEF DecayAfter

\* Doubling outgrows counting: n things have their n singletons and the empty set.
LEMMA DoublingGrows ==
    ASSUME NEW n \in Nat
    PROVE  2^n \in Nat /\ 2^n >= n + 1
  <1> DEFINE S == 1 .. n
             f == [i \in 0 .. n |-> IF i = 0 THEN {} ELSE {i}]
  <1>1. IsFiniteSet(S) /\ Cardinality(S) = n
    BY FS_Interval
  <1>2. IsFiniteSet(SUBSET S) /\ Cardinality(SUBSET S) = 2^n
    BY <1>1, FS_SUBSET
  <1>3. IsFiniteSet(0 .. n) /\ Cardinality(0 .. n) = n + 1
    BY FS_Interval
  <1>4. f \in Injection(0 .. n, SUBSET S)
    <2>1. f \in [0 .. n -> SUBSET S]
      OBVIOUS
    <2>2. \A a, b \in 0 .. n : f[a] = f[b] => a = b
      OBVIOUS
    <2> QED
      BY <2>1, <2>2 DEF Injection, IsInjective
  <1> HIDE DEF S, f
  <1>5. Cardinality(0 .. n) <= Cardinality(SUBSET S)
    BY <1>2, <1>4, FS_Injection
  <1>6. Cardinality(SUBSET S) \in Nat
    BY <1>2, FS_CardinalityType
  <1> QED
    BY <1>2, <1>3, <1>5, <1>6

LEMMA StreakBounded == MaxStreak \in 1 .. MaxDelay
  <1> DEFINE Reaches(n) == BaseDelay * 2^(n - 1) >= MaxDelay
             T == {n \in 1 .. MaxDelay : Reaches(n)}
             R == OpToRel(<, Nat)
  <1>1. T # {} /\ T \in SUBSET Nat
    <2>1. MaxDelay - 1 \in Nat
      BY BudgetsPositive
    <2>2. 2^(MaxDelay - 1) \in Nat /\ 2^(MaxDelay - 1) >= MaxDelay
      BY <2>1, DoublingGrows, BudgetsPositive
    <2> DEFINE p == 2^(MaxDelay - 1)
    <2> HIDE DEF p
    <2>3. p \in Nat /\ p >= MaxDelay
      BY <2>2 DEF p
    <2>4. BaseDelay * p >= MaxDelay
      BY <2>3, BudgetsPositive
    <2>5. MaxDelay \in T
      BY <2>4, BudgetsPositive DEF p
    <2> QED
      BY <2>5
  <1>2. IsFiniteSet(T)
    <2>1. IsFiniteSet(1 .. MaxDelay)
      BY BudgetsPositive, FS_Interval
    <2> QED
      BY <2>1, FS_Subset
  <1> HIDE DEF T
  <1>3. PICK n \in T : \A m \in T : ~(m < n)
    <2>1. IsWellFoundedOn(R, Nat)
      BY NatLessThanWellFounded
    <2>2. \E n \in T : \A m \in T : <<m, n>> \notin R
      BY <1>1, <2>1, WFMin
    <2> QED
      BY <1>1, <2>2 DEF OpToRel
  <1> USE DEF T
  <1>4. /\ n \in 1 .. MaxDelay /\ BaseDelay * 2^(n - 1) >= MaxDelay
        /\ \A m \in 1 .. (n - 1) : BaseDelay * 2^(m - 1) < MaxDelay
    <2> SUFFICES ASSUME NEW m \in 1 .. (n - 1) PROVE BaseDelay * 2^(m - 1) < MaxDelay
      BY <1>3
    <2>1. m \in 1 .. MaxDelay /\ m < n
      BY <1>3, BudgetsPositive
    <2>2. ~(BaseDelay * 2^(m - 1) >= MaxDelay)
      BY <1>3, <2>1
    <2>3. m - 1 \in Nat
      OBVIOUS
    <2>4. 2^(m - 1) \in Nat
      BY <2>3, DoublingGrows
    <2> DEFINE p == 2^(m - 1)
    <2> HIDE DEF p
    <2>5. p \in Nat /\ ~(BaseDelay * p >= MaxDelay)
      BY <2>2, <2>4 DEF p
    <2>6. BaseDelay * p < MaxDelay
      BY <2>5, BudgetsPositive
    <2> QED
      BY <2>6 DEF p
  <1> QED
    BY <1>4 DEF MaxStreak

\* The delay after a number of failures in a row.
Delay(n) == Least(BaseDelay * 2^(n - 1), MaxDelay)

LEMMA DelayBounded ==
    ASSUME NEW n \in 1 .. MaxStreak
    PROVE  Delay(n) \in 0 .. MaxDelay
  <1>1. n - 1 \in Nat
    BY StreakBounded, BudgetsPositive
  <1> DEFINE p == 2^(n - 1)
  <1>2. p \in Nat
    BY <1>1, DoublingGrows
  <1>3. Delay(n) = Least(BaseDelay * p, MaxDelay)
    BY DEF Delay
  <1> HIDE DEF p
  <1>4. BaseDelay * p \in Nat
    BY <1>2, BudgetsPositive
  <1> QED
    BY <1>3, <1>4, BudgetsPositive DEF Least

LEMMA RoundedUp ==
    ASSUME NEW x \in Nat \ {0}, NEW C \in Nat \ {0}
    PROVE  (x + C - 1) \div C \in 1 .. x /\ C * ((x + C - 1) \div C) >= x
  <1> DEFINE q == (x + C - 1) \div C
             r == (x + C - 1) % C
  <1>1. q \in Int /\ r \in 0 .. (C - 1) /\ x + C - 1 = C * q + r
    OBVIOUS
  <1> HIDE DEF q, r
  <1>2. C * q >= x
    BY <1>1
  <1>3. q >= 1
    BY <1>1, <1>2
  <1>4. q <= x
    BY <1>1, <1>3
  <1> QED
    BY <1>2, <1>3, <1>4, <1>1 DEF q

Streak == [failures : 0 .. MaxStreak, quiet : 0 .. (DecayAfter + 1)]
Forgotten == [failures |-> 0, quiet |-> DecayAfter + 1]

\* One more failure after s.
OneMore(s) ==
    [failures |-> IF s.quiet > DecayAfter THEN 1 ELSE Least(s.failures + 1, MaxStreak), quiet |-> 0]

Later(s) == [s EXCEPT !.quiet = Least(@ + 1, DecayAfter + 1)]

\* A ladder is what the failures counted for its address make of it.
Recorded(l, s) ==
    /\ l \in Ladder /\ s \in Streak
    /\ l.failures = s.failures /\ l.quiet = s.quiet /\ l.locked = Holds(s)
    /\ s.failures = 0 => s.quiet = DecayAfter + 1

LEMMA FreshIsRecorded == Recorded(FreshLadder, Forgotten)
  <1>1. MaxStreak \in Nat
    BY StreakBounded, BudgetsPositive
  <1> QED
    BY <1>1, BudgetsPositive DEF Recorded, FreshLadder, Forgotten, Ladder, Streak, Holds

LEMMA HoldsByDelay ==
    ASSUME NEW s \in Streak
    PROVE  Holds(s) = LET delay == IF s.failures = 0 THEN 0 ELSE Delay(s.failures)
                      IN  IF delay > s.quiet THEN delay - s.quiet ELSE 0
  BY DEF Holds, Delay

LEMMA FailureIsRecorded ==
    ASSUME NEW l, NEW s, Recorded(l, s)
    PROVE  Recorded(Failed(l), OneMore(s))
  <1> DEFINE n == IF l.quiet > DecayAfter THEN 1 ELSE Least(l.failures + 1, MaxStreak)
  <1>1. MaxStreak \in Nat \ {0} /\ MaxStreak \in 1 .. MaxDelay
    BY StreakBounded, BudgetsPositive
  <1>2. l \in Ladder /\ s \in Streak /\ l.failures = s.failures /\ l.quiet = s.quiet
    BY DEF Recorded
  <1>3. n \in 1 .. MaxStreak
    BY <1>1, <1>2 DEF Ladder, Least
  <1>4. Failed(l) = [failures |-> n, locked |-> Delay(n), quiet |-> 0]
    BY DEF Failed, Delay
  <1>5. OneMore(s) = [failures |-> n, quiet |-> 0]
    BY <1>2 DEF OneMore
  <1> HIDE DEF n
  <1>6. Delay(n) \in 0 .. MaxDelay
    BY <1>3, DelayBounded
  <1>7. Failed(l) \in Ladder /\ OneMore(s) \in Streak
    BY <1>1, <1>3, <1>4, <1>5, <1>6, BudgetsPositive DEF Ladder, Streak
  <1>8. Holds(OneMore(s)) = Delay(n)
    BY <1>1, <1>3, <1>5, <1>6, <1>7, HoldsByDelay
  <1> QED
    BY <1>1, <1>3, <1>4, <1>5, <1>7, <1>8 DEF Recorded

LEMMA TimeIsRecorded ==
    ASSUME NEW l, NEW s, Recorded(l, s)
    PROVE  Recorded(Second(l), Later(s)) /\ Second(l).locked = IF l.locked > 0 THEN l.locked - 1 ELSE 0
  <1>1. l \in Ladder /\ s \in Streak /\ l.failures = s.failures /\ l.quiet = s.quiet /\ l.locked = Holds(s)
    BY DEF Recorded
  <1>2. /\ Second(l) \in Ladder /\ Second(l).failures = l.failures
        /\ Second(l).locked = IF l.locked > 0 THEN l.locked - 1 ELSE 0
        /\ Second(l).quiet = Least(l.quiet + 1, DecayAfter + 1)
    <2>1. /\ Least(l.quiet + 1, DecayAfter + 1) \in 0 .. (DecayAfter + 1)
          /\ (IF l.locked > 0 THEN l.locked - 1 ELSE 0) \in 0 .. MaxDelay
      BY <1>1, BudgetsPositive DEF Ladder, Least
    <2> QED
      BY <1>1, <2>1 DEF Second, Ladder
  <1>3. Later(s) = [failures |-> s.failures, quiet |-> Least(s.quiet + 1, DecayAfter + 1)]
    BY <1>1 DEF Later, Streak
  <1>4. Later(s) \in Streak
    BY <1>1, <1>3, BudgetsPositive DEF Streak, Least
  <1> DEFINE delay == IF s.failures = 0 THEN 0 ELSE Delay(s.failures)
  <1>5. delay \in 0 .. MaxDelay
    <2>1. s.failures # 0 => s.failures \in 1 .. MaxStreak
      BY <1>1, StreakBounded, BudgetsPositive DEF Streak
    <2> QED
      BY <2>1, DelayBounded, BudgetsPositive
  <1>6. /\ Holds(s) = IF delay > s.quiet THEN delay - s.quiet ELSE 0
        /\ Holds(Later(s)) = IF delay > Later(s).quiet THEN delay - Later(s).quiet ELSE 0
    BY <1>1, <1>3, <1>4, HoldsByDelay
  <1> HIDE DEF delay
  <1>7. Second(l).locked = Holds(Later(s))
    BY <1>1, <1>2, <1>3, <1>5, <1>6, BudgetsPositive DEF Least, Streak
  <1>8. s.failures = 0 => Later(s).quiet = DecayAfter + 1
    BY <1>3, BudgetsPositive DEF Recorded, Least
  <1> QED
    BY <1>1, <1>2, <1>3, <1>4, <1>7, <1>8 DEF Recorded

-----------------------------------------------------------------------------
(* The table of ladders.                                                    *)

\* The table, within its bound, has what the history says; what it has not is forgotten.
Agree(table, hist) ==
    /\ DOMAIN table \subseteq Keys /\ IsFiniteSet(DOMAIN table)
    /\ Cardinality(DOMAIN table) <= MaxTracked
    /\ hist \in [Keys -> Streak]
    /\ \A k \in DOMAIN table : Recorded(table[k], hist[k])
    /\ \A k \in Keys \ DOMAIN table : hist[k] = Forgotten

LEMMA ForgottenIsAStreak == Forgotten \in Streak
  BY FreshIsRecorded DEF Recorded

LEMMA FailureCounts ==
    ASSUME NEW table, NEW hist, Agree(table, hist), NEW k \in DOMAIN table
    PROVE  Agree([table EXCEPT ![k] = Failed(@)], Counts(hist, k))
  <1> DEFINE t == [table EXCEPT ![k] = Failed(@)]
             h == Counts(hist, k)
  <1>1. k \in Keys /\ hist \in [Keys -> Streak] /\ Recorded(table[k], hist[k])
    BY DEF Agree
  <1>2. h = [hist EXCEPT ![k] = OneMore(hist[k])]
    BY DEF Counts, OneMore
  <1>3. Recorded(Failed(table[k]), OneMore(hist[k]))
    BY <1>1, FailureIsRecorded
  <1>4. DOMAIN t = DOMAIN table /\ t[k] = Failed(table[k]) /\ \A j \in DOMAIN table \ {k} : t[j] = table[j]
    OBVIOUS
  <1>5. OneMore(hist[k]) \in Streak
    BY <1>3 DEF Recorded
  <1>6. /\ h \in [Keys -> Streak] /\ h[k] = OneMore(hist[k])
        /\ \A j \in Keys \ {k} : h[j] = hist[j]
    BY <1>1, <1>2, <1>5
  <1> HIDE DEF t, h
  <1>7. \A j \in DOMAIN t : Recorded(t[j], h[j])
    BY <1>1, <1>3, <1>4, <1>6 DEF Agree
  <1>8. \A j \in Keys \ DOMAIN t : h[j] = Forgotten
    BY <1>4, <1>6 DEF Agree
  <1>9. Agree(t, h)
    BY <1>4, <1>6, <1>7, <1>8 DEF Agree
  <1> QED
    BY <1>9 DEF t, h

LEMMA ResetForgets ==
    ASSUME NEW table, NEW hist, Agree(table, hist), NEW k \in DOMAIN table
    PROVE  Agree([table EXCEPT ![k] = FreshLadder], [hist EXCEPT ![k] = Forgotten])
  <1> DEFINE t == [table EXCEPT ![k] = FreshLadder]
             h == [hist EXCEPT ![k] = Forgotten]
  <1>1. k \in Keys /\ hist \in [Keys -> Streak]
    BY DEF Agree
  <1>2. DOMAIN t = DOMAIN table /\ t[k] = FreshLadder /\ \A j \in DOMAIN table \ {k} : t[j] = table[j]
    OBVIOUS
  <1>3. h \in [Keys -> Streak] /\ h[k] = Forgotten /\ \A j \in Keys \ {k} : h[j] = hist[j]
    BY <1>1, ForgottenIsAStreak
  <1> HIDE DEF t, h
  <1>4. \A j \in DOMAIN t : Recorded(t[j], h[j])
    BY <1>2, <1>3, FreshIsRecorded DEF Agree
  <1>5. \A j \in Keys \ DOMAIN t : h[j] = Forgotten
    BY <1>2, <1>3 DEF Agree
  <1>6. Agree(t, h)
    BY <1>2, <1>3, <1>4, <1>5 DEF Agree
  <1> QED
    BY <1>6 DEF t, h

LEMMA TimeGoesBy ==
    ASSUME NEW table, NEW hist, Agree(table, hist)
    PROVE  Agree([k \in DOMAIN table |-> Second(table[k])], [k \in Keys |-> Later(hist[k])])
  <1> DEFINE t == [k \in DOMAIN table |-> Second(table[k])]
             h == [k \in Keys |-> Later(hist[k])]
  <1>1. DOMAIN t = DOMAIN table /\ \A k \in DOMAIN table : t[k] = Second(table[k])
    OBVIOUS
  <1>2. \A k \in DOMAIN table : k \in Keys /\ Recorded(t[k], h[k])
    BY <1>1, TimeIsRecorded DEF Agree
  <1>3. ASSUME NEW k \in Keys \ DOMAIN table PROVE h[k] = Forgotten
    <2>1. hist[k] = Forgotten
      BY DEF Agree
    <2>2. Later(Forgotten) = Forgotten
      BY BudgetsPositive DEF Later, Forgotten, Least
    <2> QED
      BY <2>1, <2>2
  <1>4. \A k \in Keys : h[k] \in Streak
    BY <1>2, <1>3, ForgottenIsAStreak DEF Recorded
  <1>5. h \in [Keys -> Streak]
    BY <1>4
  <1> HIDE DEF t, h
  <1>6. Agree(t, h)
    BY <1>1, <1>2, <1>3, <1>5 DEF Agree
  <1> QED
    BY <1>6 DEF t, h

\* What making room may drop: nothing, the ladders that are decayed, or one, and then
\* all are kept that failed since.
LEMMA RoomMade ==
    ASSUME NEW hist, Agree(ladders, hist), NEW k \in Keys, NEW gone \in Dropped(k)
    PROVE  /\ gone \subseteq DOMAIN ladders /\ k \notin gone
           /\ k \notin DOMAIN ladders =>
                 Cardinality(DOMAIN ladders \ gone) < MaxTracked
           /\ \A j \in gone : \/ Decayed(ladders[j])
                              \/ /\ Cardinality(DOMAIN ladders) >= MaxTracked
                                 /\ \A i \in DOMAIN ladders :
                                       ladders[i].quiet <= ladders[j].quiet
  <1> DEFINE D == DOMAIN ladders
             idle == {j \in D : Decayed(ladders[j])}
  <1>1. IsFiniteSet(D) /\ Cardinality(D) \in Nat /\ Cardinality(D) <= MaxTracked
    BY FS_CardinalityType DEF Agree
  <1>2. CASE k \in D \/ Cardinality(D) < MaxTracked
    <2>1. gone = {}
      BY <1>2 DEF Dropped
    <2>2. D \ gone = D
      BY <2>1
    <2> QED
      BY <1>2, <2>1, <2>2
  <1>3. CASE k \notin D /\ ~(Cardinality(D) < MaxTracked)
    <2>1. gone \in Evicted
      BY <1>3 DEF Dropped
    <2>2. \/ gone = idle /\ idle # {}
          \/ \E v \in D : gone = {v} /\ \A i \in D : ladders[i].quiet <= ladders[v].quiet
      BY <2>1 DEF Evicted
    <2>3. gone \subseteq D /\ gone # {}
      BY <2>2
    <2>4. IsFiniteSet(D \ gone) /\ Cardinality(D \ gone) \in Nat /\ Cardinality(D \ gone) <= Cardinality(D)
          /\ (Cardinality(D) = Cardinality(D \ gone) => D = D \ gone)
      BY <1>1, FS_Subset, FS_CardinalityType
    <2>5. Cardinality(D \ gone) < MaxTracked
      BY <1>1, <2>3, <2>4, BudgetsPositive
    <2>6. Cardinality(D) >= MaxTracked
      BY <1>1, <1>3, BudgetsPositive
    <2>7. ASSUME NEW j \in gone
          PROVE  Decayed(ladders[j]) \/ \A i \in D : ladders[i].quiet <= ladders[j].quiet
      BY <2>2
    <2> QED
      BY <1>3, <2>3, <2>5, <2>6, <2>7
  <1> QED
    BY <1>2, <1>3

LEMMA LookedUp ==
    ASSUME NEW hist, Agree(ladders, hist), NEW k \in Keys, NEW gone \in Dropped(k),
           NEW forgets, forgets = [j \in Keys |-> IF j \in gone THEN Forgotten ELSE hist[j]]
    PROVE  Agree(With(k, gone), forgets) /\ k \in DOMAIN With(k, gone)
  <1> DEFINE D == DOMAIN ladders
             t == With(k, gone)
  <1>1. /\ DOMAIN t = (D \ gone) \cup {k}
        /\ \A j \in DOMAIN t : t[j] = IF j \in D THEN ladders[j] ELSE FreshLadder
    BY DEF With
  <1>2. gone \subseteq D /\ k \notin gone /\ (k \notin D => Cardinality(D \ gone) < MaxTracked)
    BY RoomMade
  <1>3. /\ D \subseteq Keys /\ IsFiniteSet(D) /\ Cardinality(D) <= MaxTracked /\ Cardinality(D) \in Nat
        /\ hist \in [Keys -> Streak]
        /\ (\A j \in D : Recorded(ladders[j], hist[j])) /\ \A j \in Keys \ D : hist[j] = Forgotten
    BY FS_CardinalityType DEF Agree
  <1> HIDE DEF t, D
  <1>4. forgets \in [Keys -> Streak] /\ \A j \in Keys : forgets[j] = IF j \in gone THEN Forgotten ELSE hist[j]
    BY <1>3, ForgottenIsAStreak
  <1>5. \A j \in DOMAIN t : Recorded(t[j], forgets[j])
    BY <1>1, <1>2, <1>3, <1>4, FreshIsRecorded
  <1>6. \A j \in Keys \ DOMAIN t : forgets[j] = Forgotten
    BY <1>1, <1>3, <1>4
  <1>7. DOMAIN t \subseteq Keys
    BY <1>1, <1>3
  <1>8. IsFiniteSet(DOMAIN t) /\ Cardinality(DOMAIN t) <= MaxTracked
    <2>1. IsFiniteSet(D \ gone) /\ Cardinality(D \ gone) \in Nat /\ Cardinality(D \ gone) <= Cardinality(D)
      BY <1>3, FS_Subset, FS_CardinalityType
    <2>2. /\ IsFiniteSet(DOMAIN t)
          /\ Cardinality(DOMAIN t) = IF k \in D \ gone THEN Cardinality(D \ gone) ELSE Cardinality(D \ gone) + 1
      <3> DEFINE E == D \ gone
      <3>1. IsFiniteSet(E) /\ DOMAIN t = E \cup {k}
        BY <1>1, <2>1
      <3> HIDE DEF E
      <3>2. /\ IsFiniteSet(E \cup {k})
            /\ Cardinality(E \cup {k}) = IF k \in E THEN Cardinality(E) ELSE Cardinality(E) + 1
        BY <3>1, FS_AddElement
      <3> QED
        BY <3>1, <3>2 DEF E
    <2> QED
      BY <1>2, <1>3, <2>1, <2>2, BudgetsPositive
  <1>9. Agree(t, forgets)
    BY <1>4, <1>5, <1>6, <1>7, <1>8 DEF Agree
  <1> QED
    BY <1>1, <1>9 DEF t

-----------------------------------------------------------------------------
(* Steps.                                                                   *)

\* Waiting as it was told will do for c: its ladder lets it in by then, or the bucket
\* has a token by then.
Enough(w, c, table, parts) ==
    /\ w.by # "none"
    /\ w.by \in Targets /\ <<w.by, Address[c]>> \in DOMAIN table =>
          table[<<w.by, Address[c]>>].locked <= w.left
    /\ w.by = "instance" => parts + Capacity * w.left >= Minute

BudgetTypes ==
    /\ general \in 0 .. (Capacity * Minute)
    /\ reserved \in 0 .. (Reserved * Minute)
    /\ claimed \in BOOLEAN
    /\ known \in SUBSET Owners
    /\ attempts \in [Callers -> Attempt]
    /\ told \in [Callers -> Told]

\* A request that holds the table's ladder finds it there, and whoever was told to wait
\* and was not disturbed need only wait.
ThrottleInv ==
    /\ BudgetTypes
    /\ Agree(ladders, streak)
    /\ \A c \in Callers : attempts[c].at # "idle" /\ attempts[c].tracked => Key(c) \in DOMAIN ladders
    /\ \A c \in Callers : told[c].undisturbed => Enough(told[c], c, ladders, general)
    /\ \A c \in Callers : attempts[c].at = "claiming" => c \in Owners

\* What WaitIsEnough and ForgottenOnlyInAFlood say of a step.
Patience ==
    \A c \in Callers :
        told[c].undisturbed /\ told[c].left = 0 /\ told'[c].by = told[c].by => told'[c].left = 0

Lost(k) ==
    Cardinality({j \in Keys \ {k} :
        streak[j].failures > 0 /\ streak[j].quiet <= streak[k].quiet}) >= MaxTracked - 1

Flood ==
    \A k \in Keys :
        /\ streak[k].failures > 0 /\ streak[k].quiet <= DecayAfter
        /\ k \in DOMAIN ladders /\ k \notin DOMAIN ladders'
        => Lost(k)

LEMMA KeysFinite == IsFiniteSet(Keys)
  <1>1. IsFiniteSet(Targets)
    <2>1. Targets = {"login"} \cup {"setup"}
      BY DEF Targets
    <2> QED
      BY <2>1, FS_Singleton, FS_AddElement
  <1>2. IsFiniteSet(Addresses)
    <2> DEFINE f == [c \in Callers |-> Address[c]]
    <2>1. f \in Surjection(Callers, Addresses)
      BY DEF Surjection, Addresses
    <2> QED
      BY <2>1, ThrottleAssumption, FS_Surjection
  <1> QED
    BY <1>1, <1>2, FS_Product DEF Keys

\* A ladder that still counts is dropped only where every other one has failed since.
LEMMA DroppedInAFlood ==
    ASSUME Agree(ladders, streak), NEW k \in Keys, NEW gone \in Dropped(k), NEW j \in gone,
           streak[j].failures > 0, streak[j].quiet <= DecayAfter
    PROVE  Lost(j)
  <1> DEFINE D == DOMAIN ladders
             since == {i \in Keys \ {j} : streak[i].failures > 0 /\ streak[i].quiet <= streak[j].quiet}
  <1>1. j \in D /\ D \subseteq Keys /\ IsFiniteSet(D) /\ \A i \in D : Recorded(ladders[i], streak[i])
    BY RoomMade DEF Agree
  <1>2. ~Decayed(ladders[j])
    BY <1>1, BudgetsPositive DEF Decayed, Recorded, Ladder
  <1>3. Cardinality(D) >= MaxTracked /\ \A i \in D : ladders[i].quiet <= ladders[j].quiet
    BY <1>2, RoomMade
  <1>4. D \ {j} \subseteq since
    <2> SUFFICES ASSUME NEW i \in D \ {j} PROVE i \in since
      OBVIOUS
    <2>1. streak[i].quiet <= streak[j].quiet
      BY <1>1, <1>3 DEF Recorded
    <2>2. /\ streak[i].failures \in Nat
          /\ streak[i].failures = 0 => streak[i].quiet = DecayAfter + 1
          /\ streak[j].quiet \in Nat
      BY <1>1, StreakBounded, BudgetsPositive DEF Recorded, Streak
    <2>3. streak[i].failures > 0
      BY <2>1, <2>2, BudgetsPositive
    <2> QED
      BY <1>1, <2>1, <2>3
  <1>5. IsFiniteSet(since)
    BY KeysFinite, FS_Subset
  <1> HIDE DEF since, D
  <1>6. /\ Cardinality(D \ {j}) = Cardinality(D) - 1 /\ Cardinality(D) \in Nat
    BY <1>1, FS_RemoveElement, FS_CardinalityType
  <1>7. Cardinality(D \ {j}) <= Cardinality(since) /\ Cardinality(since) \in Nat
    BY <1>4, <1>5, FS_Subset, FS_CardinalityType
  <1>8. Cardinality(since) >= MaxTracked - 1
    BY <1>3, <1>6, <1>7, BudgetsPositive DEF D
  <1> QED
    BY <1>8 DEF Lost, since

\* What a request finds when it has looked its ladder up.
Found(c, k, gone, table) ==
    /\ k \in Keys /\ k \in DOMAIN table /\ table[k] \in Ladder
    /\ Agree(table, Forgets(gone))
    /\ \A j \in DOMAIN table : table[j].locked = IF j \in DOMAIN ladders THEN ladders[j].locked ELSE 0
    /\ Orphaned(gone) \in [Callers -> Attempt]
    /\ \A d \in Callers :
          /\ Orphaned(gone)[d].at = attempts[d].at
          /\ attempts[d].at # "idle" /\ Orphaned(gone)[d].tracked => Key(d) \in DOMAIN table
    /\ \A j \in DOMAIN ladders \ DOMAIN table :
          streak[j].failures > 0 /\ streak[j].quiet <= DecayAfter => Lost(j)

LEMMA LookupFinds ==
    ASSUME ThrottleInv, NEW c \in Callers, NEW t \in Targets, NEW gone \in Dropped(<<t, Address[c]>>)
    PROVE  Found(c, <<t, Address[c]>>, gone, With(<<t, Address[c]>>, gone))
  <1> DEFINE k == <<t, Address[c]>>
             table == With(k, gone)
  <1>1. k \in Keys
    BY DEF Keys, Addresses
  <1>2. Agree(ladders, streak)
    BY DEF ThrottleInv
  <1>3. Forgets(gone) = [j \in Keys |-> IF j \in gone THEN Forgotten ELSE streak[j]]
    BY DEF Forgets, Forgotten
  <1>4. /\ DOMAIN table = (DOMAIN ladders \ gone) \cup {k}
        /\ \A j \in DOMAIN table : table[j] = IF j \in DOMAIN ladders THEN ladders[j] ELSE FreshLadder
    BY DEF With
  <1> HIDE DEF k
  <1>5. Agree(table, Forgets(gone)) /\ k \in DOMAIN table
    BY <1>1, <1>2, <1>3, LookedUp DEF k
  <1> HIDE DEF table
  <1>6. table[k] \in Ladder
    BY <1>5 DEF Agree, Recorded
  <1>7. \A j \in DOMAIN table : table[j].locked = IF j \in DOMAIN ladders THEN ladders[j].locked ELSE 0
    BY <1>4 DEF FreshLadder
  <1>8. ASSUME NEW d \in Callers
        PROVE  /\ Orphaned(gone)[d] \in Attempt
               /\ Orphaned(gone)[d].at = attempts[d].at
               /\ attempts[d].at # "idle" /\ Orphaned(gone)[d].tracked => Key(d) \in DOMAIN table
    <2>1. attempts[d] \in Attempt /\ (attempts[d].at # "idle" /\ attempts[d].tracked => Key(d) \in DOMAIN ladders)
      BY DEF ThrottleInv, BudgetTypes
    <2>2. CASE attempts[d].at # "idle" /\ Key(d) \in gone
      <3>1. Orphaned(gone)[d] = [attempts[d] EXCEPT !.tracked = FALSE]
        BY <2>2 DEF Orphaned
      <3> QED
        BY <2>1, <3>1 DEF Attempt
    <2>3. CASE ~(attempts[d].at # "idle" /\ Key(d) \in gone)
      <3>1. Orphaned(gone)[d] = attempts[d]
        BY <2>3 DEF Orphaned
      <3> QED
        BY <1>4, <2>1, <2>3, <3>1
    <2> QED
      BY <2>2, <2>3
  <1>9. Orphaned(gone) \in [Callers -> Attempt]
    BY <1>8 DEF Orphaned
  <1>10. ASSUME NEW j \in DOMAIN ladders \ DOMAIN table,
                streak[j].failures > 0, streak[j].quiet <= DecayAfter
         PROVE  Lost(j)
    <2>1. j \in gone
      BY <1>4, <1>10
    <2> QED
      BY <1>1, <1>2, <1>10, <2>1, DroppedInAFlood DEF k
  <1> QED
    BY <1>1, <1>5, <1>6, <1>7, <1>8, <1>9, <1>10 DEF Found, k, table

\* Nobody's wait grows where a ladder has been looked up.
LEMMA StillEnough ==
    ASSUME NEW c, NEW k, NEW gone, NEW table, Found(c, k, gone, table), NEW d \in Callers,
           NEW w \in Told, Enough(w, d, ladders, general)
    PROVE  Enough(w, d, table, general)
  BY DEF Found, Enough, Told

LEMMA WaitSuffices ==
    ASSUME general \in 0 .. (Capacity * Minute), general < Minute
    PROVE  Wait(general) \in 1 .. Minute /\ general + Capacity * Wait(general) >= Minute
  <1> DEFINE x == Minute - general
             q == (x + Capacity - 1) \div Capacity
  <1>1. x \in Nat \ {0} /\ x <= Minute
    BY BudgetsPositive
  <1> HIDE DEF x
  <1>2. q \in 1 .. x /\ Capacity * q >= x
    BY <1>1, BudgetsPositive, RoundedUp
  <1>3. Wait(general) = IF q < 1 THEN 1 ELSE q
    BY DEF Wait, x
  <1> HIDE DEF q
  <1>4. Wait(general) = q
    BY <1>2, <1>3
  <1>5. Capacity * Wait(general) >= x /\ Capacity * Wait(general) \in Int
    BY <1>2, <1>4, BudgetsPositive
  <1>6. general \in Int /\ Minute \in Int
    BY BudgetsPositive
  <1> QED
    BY <1>1, <1>2, <1>4, <1>5, <1>6 DEF x

LEMMA WaitsFit == MaxWait \in Nat /\ MaxWait >= Minute /\ MaxWait >= MaxDelay
  BY BudgetsPositive DEF MaxWait

\* The keys of requests that stay what they are stay theirs.
LEMMA SameKey ==
    ASSUME NEW c \in Callers, attempts'[c].at = attempts[c].at
    PROVE  Key(c)' = Key(c)
  BY DEF Key, Target

LEMMA RefusalKeeps ==
    ASSUME ThrottleInv, NEW c \in Callers, NEW t \in Targets, NEW gone, NEW table,
           Found(c, <<t, Address[c]>>, gone, table), NEW by, NEW wait,
           \/ by = t /\ wait = table[<<t, Address[c]>>].locked /\ wait > 0
           \/ by = "instance" /\ wait = Wait(general) /\ general < Minute,
           MayAttempt(c), Refuse(c, table, gone, by, wait)
    PROVE  ThrottleInv' /\ Patience /\ Flood
  <1> DEFINE k == <<t, Address[c]>>
  <1>1. /\ ladders' = table /\ attempts' = Orphaned(gone) /\ streak' = Forgets(gone)
        /\ told' = IF c \in Owners
                   THEN [told EXCEPT ![c] = [by |-> by, left |-> wait, undisturbed |-> TRUE]] ELSE told
        /\ UNCHANGED <<general, reserved, claimed, known>>
    BY DEF Refuse
  <1>2. BudgetTypes /\ told \in [Callers -> Told]
    BY DEF ThrottleInv, BudgetTypes
  <1>3. wait \in 1 .. MaxWait /\ by \in Targets \cup {"instance"}
    <2>1. CASE by = t /\ wait = table[k].locked /\ wait > 0
      BY <2>1, WaitsFit, BudgetsPositive DEF Found, Ladder
    <2>2. CASE by = "instance" /\ wait = Wait(general) /\ general < Minute
      BY <1>2, <2>2, WaitsFit, WaitSuffices, BudgetsPositive DEF BudgetTypes
    <2> QED
      BY <2>1, <2>2
  <1>4. [by |-> by, left |-> wait, undisturbed |-> TRUE] \in Told
    BY <1>3, WaitsFit DEF Told
  <1>5. told' \in [Callers -> Told]
    BY <1>1, <1>2, <1>4
  <1>6. BudgetTypes'
    BY <1>1, <1>2, <1>5 DEF BudgetTypes, Found
  <1>7. ASSUME NEW d \in Callers, attempts'[d].at # "idle", attempts'[d].tracked
        PROVE  Key(d)' \in DOMAIN ladders'
    <2>1. attempts'[d].at = attempts[d].at
      BY <1>1 DEF Found
    <2>2. Key(d)' = Key(d)
      BY <2>1, SameKey
    <2> QED
      BY <1>1, <1>7, <2>1, <2>2 DEF Found
  <1>8. ASSUME NEW d \in Callers, told'[d].undisturbed
        PROVE  Enough(told'[d], d, ladders', general')
    <2>1. CASE told'[d] = told[d]
      <3>1. Enough(told[d], d, ladders, general) /\ told[d] \in Told
        BY <1>2, <1>8, <2>1 DEF ThrottleInv
      <3>2. Enough(told[d], d, table, general)
        BY <3>1, StillEnough
      <3> QED
        BY <1>1, <2>1, <3>2
    <2>2. CASE d = c /\ told'[d] = [by |-> by, left |-> wait, undisturbed |-> TRUE]
      <3>1. by # "none" /\ (by \in Targets => by # "instance")
        BY <1>3 DEF Targets
      <3>2. CASE by = t /\ wait = table[k].locked
        BY <1>1, <2>2, <3>1, <3>2, <1>3 DEF Enough, Found, Ladder
      <3>3. CASE by = "instance" /\ wait = Wait(general) /\ general < Minute
        <4>1. general + Capacity * wait >= Minute
          BY <1>2, <3>3, WaitSuffices DEF BudgetTypes
        <4> QED
          BY <1>1, <2>2, <3>1, <3>3, <4>1 DEF Enough
      <3> QED
        BY <3>2, <3>3
    <2> QED
      BY <1>1, <1>2, <2>1, <2>2
  <1>9. Patience
    <2> SUFFICES ASSUME NEW d \in Callers, told[d].undisturbed, told[d].left = 0,
                        told'[d].by = told[d].by, told'[d].left # 0
                 PROVE  FALSE
      BY DEF Patience
    <2>1. d = c /\ told'[d] = [by |-> by, left |-> wait, undisturbed |-> TRUE]
      BY <1>1, <1>2
    <2>2. Enough(told[c], c, ladders, general) /\ told[c].by = by /\ told[c].left = 0
      BY <2>1 DEF ThrottleInv
    <2>3. CASE by = t /\ wait = table[k].locked /\ wait > 0
      BY <2>2, <2>3 DEF Enough, Found, Ladder
    <2>4. CASE by = "instance" /\ general < Minute
      BY <1>2, <2>2, <2>4, BudgetsPositive DEF Enough, BudgetTypes
    <2> QED
      BY <2>3, <2>4
  <1>10. Flood
    BY <1>1 DEF Flood, Found
  <1>11. Agree(ladders', streak')
    BY <1>1 DEF Found
  <1>12. \A d \in Callers : attempts'[d].at = "claiming" => d \in Owners
    BY <1>1 DEF ThrottleInv, Found
  <1> QED
    BY <1>6, <1>7, <1>8, <1>9, <1>10, <1>11, <1>12 DEF ThrottleInv

\* A request let through holds its ladder.
LEMMA AdmissionKeeps ==
    ASSUME ThrottleInv, NEW c \in Callers, NEW t \in Targets, NEW gone, NEW table,
           Found(c, <<t, Address[c]>>, gone, table), MayAttempt(c),
           NEW at \in {"verifying", "claiming"}, t = IF at = "claiming" THEN "setup" ELSE "login",
           at = "claiming" => c \in Owners,
           ladders' = table, streak' = Forgets(gone),
           attempts' = [Orphaned(gone) EXCEPT ![c] = [at |-> at, tracked |-> TRUE]],
           UNCHANGED <<claimed, known>>,
           general' \in 0 .. (Capacity * Minute), reserved' \in 0 .. (Reserved * Minute),
           \/ general' = general /\ told' = [told EXCEPT ![c] = NotTold]
           \/ told' = [Disturbs(told, Callers) EXCEPT ![c] = NotTold]
    PROVE  ThrottleInv' /\ Patience /\ Flood
  <1>1. BudgetTypes /\ told \in [Callers -> Told]
    BY DEF ThrottleInv, BudgetTypes
  <1>2. NotTold \in Told
    BY WaitsFit DEF NotTold, Told
  <1>3. ASSUME NEW d \in Callers
        PROVE  /\ told'[d] \in Told
               /\ d = c => told'[d] = NotTold
               /\ told'[d].undisturbed => told'[d] = told[d] /\ general' = general
               /\ d # c => told'[d].left = told[d].left
    <2>1. told[d] \in Told
      BY <1>1
    <2>2. CASE d = c
      <3>1. \/ told' = [told EXCEPT ![c] = NotTold]
            \/ told' = [Disturbs(told, Callers) EXCEPT ![c] = NotTold]
        OBVIOUS
      <3>2. DOMAIN told = Callers /\ DOMAIN Disturbs(told, Callers) = Callers
        BY <1>1 DEF Disturbs
      <3>3. told'[c] = NotTold
        BY <3>1, <3>2
      <3>4. ~NotTold.undisturbed
        BY DEF NotTold
      <3> QED
        BY <1>2, <2>2, <3>3, <3>4
    <2>3. CASE d # c /\ general' = general /\ told' = [told EXCEPT ![c] = NotTold]
      BY <1>1, <2>1, <2>3
    <2>4. CASE d # c /\ told' = [Disturbs(told, Callers) EXCEPT ![c] = NotTold]
      <3>1. told'[d] = [told[d] EXCEPT !.undisturbed = FALSE]
        BY <2>4 DEF Disturbs
      <3>2. [told[d] EXCEPT !.undisturbed = FALSE] \in Told
        BY <2>1 DEF Told
      <3>3. told'[d].undisturbed = FALSE /\ told'[d].left = told[d].left
        BY <2>1, <3>1 DEF Told
      <3> QED
        BY <2>4, <3>1, <3>2, <3>3
    <2> QED
      BY <2>2, <2>3, <2>4
  <1>4. DOMAIN told' = Callers /\ told' \in [Callers -> Told]
    <2>1. \/ told' = [told EXCEPT ![c] = NotTold]
          \/ told' = [Disturbs(told, Callers) EXCEPT ![c] = NotTold]
      OBVIOUS
    <2>2. told' = [d \in Callers |-> told'[d]]
      BY <1>1, <2>1 DEF Disturbs
    <2> QED
      BY <1>3, <2>2
  <1>5. /\ attempts' \in [Callers -> Attempt]
        /\ attempts'[c] = [at |-> at, tracked |-> TRUE]
        /\ \A d \in Callers \ {c} : attempts'[d] = Orphaned(gone)[d]
    BY DEF Found, Attempt
  <1>6. BudgetTypes'
    BY <1>1, <1>4, <1>5 DEF BudgetTypes
  <1>7. ASSUME NEW d \in Callers, attempts'[d].at # "idle", attempts'[d].tracked
        PROVE  Key(d)' \in DOMAIN ladders'
    <2>1. CASE d = c
      <3>1. Key(c)' = <<t, Address[c]>>
        BY <1>5 DEF Key, Target
      <3> QED
        BY <2>1, <3>1 DEF Found
    <2>2. CASE d # c
      <3>1. attempts'[d].at = attempts[d].at
        BY <1>5, <2>2 DEF Found
      <3>2. Key(d)' = Key(d)
        BY <3>1, SameKey
      <3> QED
        BY <1>5, <1>7, <2>2, <3>1, <3>2 DEF Found
    <2> QED
      BY <2>1, <2>2
  <1>8. ASSUME NEW d \in Callers, told'[d].undisturbed
        PROVE  Enough(told'[d], d, ladders', general')
    <2>1. told'[d] = told[d] /\ general' = general /\ told[d] \in Told
      BY <1>1, <1>3, <1>8
    <2>2. Enough(told[d], d, ladders, general)
      BY <1>8, <2>1 DEF ThrottleInv
    <2>3. Enough(told[d], d, table, general)
      BY <2>1, <2>2, StillEnough
    <2> QED
      BY <2>1, <2>3
  <1>9. Patience
    BY <1>3 DEF Patience, NotTold
  <1>10. Flood
    BY DEF Flood, Found
  <1>11. Agree(ladders', streak')
    BY DEF Found
  <1>12. \A d \in Callers : attempts'[d].at = "claiming" => d \in Owners
    BY <1>5 DEF ThrottleInv, Found
  <1> QED
    BY <1>6, <1>7, <1>8, <1>9, <1>10, <1>11, <1>12 DEF ThrottleInv

LEMMA DisturbedMayStillWait ==
    ASSUME told \in [Callers -> Told], NEW S
    PROVE  /\ Disturbs(told, S) \in [Callers -> Told]
           /\ \A d \in Callers :
                 /\ Disturbs(told, S)[d].left = told[d].left
                 /\ Disturbs(told, S)[d].undisturbed => Disturbs(told, S)[d] = told[d] /\ d \notin S
  <1>1. ASSUME NEW d \in Callers
        PROVE  /\ Disturbs(told, S)[d] \in Told
               /\ Disturbs(told, S)[d].left = told[d].left
               /\ Disturbs(told, S)[d].undisturbed => Disturbs(told, S)[d] = told[d] /\ d \notin S
    <2>1. told[d] \in Told
      OBVIOUS
    <2>2. CASE d \in S
      <3>1. Disturbs(told, S)[d] = [told[d] EXCEPT !.undisturbed = FALSE]
        BY <2>2 DEF Disturbs
      <3>2. [told[d] EXCEPT !.undisturbed = FALSE] \in Told
        BY <2>1 DEF Told
      <3>3. Disturbs(told, S)[d].undisturbed = FALSE /\ Disturbs(told, S)[d].left = told[d].left
        BY <2>1, <3>1 DEF Told
      <3> QED
        BY <3>1, <3>2, <3>3
    <2>3. CASE d \notin S
      <3>1. Disturbs(told, S)[d] = told[d]
        BY <2>3 DEF Disturbs
      <3> QED
        BY <2>1, <2>3, <3>1
    <2> QED
      BY <2>2, <2>3
  <1> QED
    BY <1>1 DEF Disturbs

\* A wrong setup token is judged and counted in one go.
LEMMA WrongTokenKeeps ==
    ASSUME ThrottleInv, NEW c \in Callers, NEW gone, NEW table,
           Found(c, <<"setup", Address[c]>>, gone, table), MayAttempt(c),
           ladders' = [table EXCEPT ![<<"setup", Address[c]>>] = Failed(@)],
           attempts' = Orphaned(gone),
           streak' = Counts(Forgets(gone), <<"setup", Address[c]>>),
           told' = [Disturbs(told, Neighbours(Address[c])) EXCEPT ![c] = NotTold],
           UNCHANGED <<general, reserved, claimed, known>>
    PROVE  ThrottleInv' /\ Patience /\ Flood
  <1> DEFINE k == <<"setup", Address[c]>>
             S == Neighbours(Address[c])
  <1>1. BudgetTypes /\ told \in [Callers -> Told]
    BY DEF ThrottleInv, BudgetTypes
  <1>2. /\ NotTold \in Told /\ NotTold.left = 0 /\ ~NotTold.undisturbed
    BY WaitsFit DEF NotTold, Told
  <1>3. /\ Disturbs(told, S) \in [Callers -> Told]
        /\ \A d \in Callers :
              /\ Disturbs(told, S)[d].left = told[d].left
              /\ Disturbs(told, S)[d].undisturbed => Disturbs(told, S)[d] = told[d] /\ d \notin S
    BY <1>1, DisturbedMayStillWait
  <1>4. /\ told' \in [Callers -> Told] /\ told'[c] = NotTold
        /\ \A d \in Callers \ {c} : told'[d] = Disturbs(told, S)[d]
    BY <1>2, <1>3
  <1>5. BudgetTypes'
    BY <1>1, <1>4 DEF BudgetTypes, Found
  <1>6. /\ DOMAIN ladders' = DOMAIN table
        /\ \A j \in DOMAIN table \ {k} : ladders'[j] = table[j]
    OBVIOUS
  <1>7. Agree(ladders', streak')
    BY FailureCounts DEF Found
  <1>8. ASSUME NEW d \in Callers, attempts'[d].at # "idle", attempts'[d].tracked
        PROVE  Key(d)' \in DOMAIN ladders'
    <2>1. attempts'[d].at = attempts[d].at
      BY DEF Found
    <2>2. Key(d)' = Key(d)
      BY <2>1, SameKey
    <2> QED
      BY <1>6, <1>8, <2>1, <2>2 DEF Found
  <1>9. ASSUME NEW d \in Callers, told'[d].undisturbed
        PROVE  Enough(told'[d], d, ladders', general')
    <2>1. d # c
      BY <1>2, <1>4, <1>9
    <2>2. told'[d] = told[d] /\ d \notin S /\ told[d] \in Told
      BY <1>1, <1>3, <1>4, <1>9, <2>1
    <2>3. Address[d] # Address[c]
      BY <2>2 DEF Neighbours
    <2>4. Enough(told[d], d, ladders, general)
      BY <1>9, <2>2 DEF ThrottleInv
    <2>5. Enough(told[d], d, table, general)
      BY <2>2, <2>4, StillEnough
    <2>6. <<told[d].by, Address[d]>> # k
      BY <2>3
    <2> QED
      BY <1>6, <2>2, <2>5, <2>6 DEF Enough
  <1>10. Patience
    BY <1>2, <1>3, <1>4 DEF Patience
  <1>11. Flood
    BY <1>6 DEF Flood, Found
  <1>12. \A d \in Callers : attempts'[d].at = "claiming" => d \in Owners
    BY DEF ThrottleInv, Found
  <1> QED
    BY <1>5, <1>7, <1>8, <1>9, <1>10, <1>11, <1>12 DEF ThrottleInv

\* A request that ends may have changed what is counted, and no wait but of those it
\* disturbed has grown.
LEMMA EndKeeps ==
    ASSUME ThrottleInv, NEW c \in Callers, Ends(c),
           DOMAIN ladders' = DOMAIN ladders, Agree(ladders', streak'),
           UNCHANGED <<general, reserved>>, claimed' \in BOOLEAN, known' \in SUBSET Owners,
           told' \in [Callers -> Told],
           \A d \in Callers :
              /\ told'[d].left = told[d].left
              /\ told'[d].undisturbed =>
                    /\ told'[d] = told[d]
                    /\ \A t \in Targets : <<t, Address[d]>> \in DOMAIN ladders =>
                          \/ ladders'[<<t, Address[d]>>] = ladders[<<t, Address[d]>>]
                          \/ ladders'[<<t, Address[d]>>].locked = 0
    PROVE  ThrottleInv' /\ Patience /\ Flood
  <1>1. BudgetTypes /\ told \in [Callers -> Told] /\ attempts \in [Callers -> Attempt]
    BY DEF ThrottleInv, BudgetTypes
  <1>2. /\ attempts' = [attempts EXCEPT ![c] = [at |-> "idle", tracked |-> FALSE]]
    BY DEF Ends
  <1>3. attempts' \in [Callers -> Attempt]
    BY <1>1, <1>2 DEF Attempt
  <1>4. BudgetTypes'
    BY <1>1, <1>3 DEF BudgetTypes
  <1>5. ASSUME NEW d \in Callers, attempts'[d].at # "idle", attempts'[d].tracked
        PROVE  Key(d)' \in DOMAIN ladders'
    <2>1. d # c /\ attempts'[d] = attempts[d]
      BY <1>1, <1>2, <1>5
    <2>2. Key(d)' = Key(d)
      BY <2>1, SameKey
    <2> QED
      BY <1>5, <2>1, <2>2 DEF ThrottleInv
  <1>6. ASSUME NEW d \in Callers, told'[d].undisturbed
        PROVE  Enough(told'[d], d, ladders', general')
    <2>1. told'[d] = told[d] /\ told[d] \in Told /\ Enough(told[d], d, ladders, general)
      BY <1>1, <1>6 DEF ThrottleInv
    <2>2. told[d].left \in Nat
      BY <2>1, WaitsFit DEF Told
    <2> QED
      BY <1>6, <2>1, <2>2 DEF Enough
  <1>7. Patience
    BY DEF Patience
  <1>8. Flood
    BY DEF Flood
  <1>9. \A d \in Callers : attempts'[d].at = "claiming" => d \in Owners
    BY <1>1, <1>2 DEF ThrottleInv
  <1> QED
    BY <1>4, <1>5, <1>6, <1>7, <1>8, <1>9 DEF ThrottleInv

LEMMA ResetKeeps ==
    ASSUME ThrottleInv, NEW c \in Callers, attempts[c].at # "idle", Resets(c), Ends(c),
           UNCHANGED <<general, reserved, told>>, claimed' \in BOOLEAN, known' \in SUBSET Owners
    PROVE  ThrottleInv' /\ Patience /\ Flood
  <1>1. Agree(ladders, streak) /\ told \in [Callers -> Told]
    BY DEF ThrottleInv, BudgetTypes
  <1>2. CASE attempts[c].tracked
    <2>1. Key(c) \in DOMAIN ladders
      BY <1>2 DEF ThrottleInv
    <2>2. /\ ladders' = [ladders EXCEPT ![Key(c)] = FreshLadder]
          /\ streak' = [streak EXCEPT ![Key(c)] = Forgotten]
      BY <1>2 DEF Resets, Forgotten
    <2>3. Agree(ladders', streak')
      BY <1>1, <2>1, <2>2, ResetForgets
    <2>4. DOMAIN ladders' = DOMAIN ladders
      BY <2>2
    <2>5. \A j \in DOMAIN ladders : ladders'[j] = ladders[j] \/ ladders'[j].locked = 0
      BY <2>1, <2>2 DEF FreshLadder
    <2> QED
      BY <1>1, <2>3, <2>4, <2>5, EndKeeps
  <1>3. CASE ~attempts[c].tracked
    <2>1. ladders' = ladders /\ streak' = streak
      BY <1>3 DEF Resets
    <2> QED
      BY <1>1, <2>1, EndKeeps
  <1> QED
    BY <1>2, <1>3

LEMMA FailureKeeps ==
    ASSUME ThrottleInv, NEW c \in Callers, VerifyFails(c)
    PROVE  ThrottleInv' /\ Patience /\ Flood
  <1>1. Agree(ladders, streak) /\ told \in [Callers -> Told] /\ claimed \in BOOLEAN /\ known \in SUBSET Owners
    BY DEF ThrottleInv, BudgetTypes
  <1>2. /\ attempts[c].at = "verifying" /\ Ends(c)
        /\ UNCHANGED <<general, reserved>> /\ claimed' = claimed /\ known' = known
    BY DEF VerifyFails
  <1>3. CASE attempts[c].tracked
    <2>1. Key(c) \in DOMAIN ladders
      BY <1>2, <1>3 DEF ThrottleInv
    <2>2. /\ ladders' = [ladders EXCEPT ![Key(c)] = Failed(@)]
          /\ streak' = Counts(streak, Key(c))
          /\ told' = Disturbs(told, Neighbours(Address[c]))
      BY <1>3 DEF VerifyFails
    <2>3. Agree(ladders', streak')
      BY <1>1, <2>1, <2>2, FailureCounts
    <2>4. DOMAIN ladders' = DOMAIN ladders /\ \A j \in DOMAIN ladders \ {Key(c)} : ladders'[j] = ladders[j]
      BY <2>2
    <2>5. /\ told' \in [Callers -> Told]
          /\ \A d \in Callers :
                /\ told'[d].left = told[d].left
                /\ told'[d].undisturbed => told'[d] = told[d] /\ d \notin Neighbours(Address[c])
      BY <1>1, <2>2, DisturbedMayStillWait
    <2>6. ASSUME NEW d \in Callers, d \notin Neighbours(Address[c]), NEW t \in Targets,
                 <<t, Address[d]>> \in DOMAIN ladders
          PROVE  ladders'[<<t, Address[d]>>] = ladders[<<t, Address[d]>>]
      <3>1. <<t, Address[d]>> # Key(c)
        BY <2>6 DEF Neighbours, Key
      <3> QED
        BY <2>4, <2>6, <3>1
    <2> QED
      BY <1>1, <1>2, <2>3, <2>4, <2>5, <2>6, EndKeeps
  <1>4. CASE ~attempts[c].tracked
    <2>1. UNCHANGED <<ladders, streak, told>>
      BY <1>4 DEF VerifyFails
    <2> QED
      BY <1>1, <1>2, <2>1, EndKeeps
  <1> QED
    BY <1>3, <1>4

\* A bucket that has a token can give one.
LEMMA TokenDrawn ==
    ASSUME BudgetTypes
    PROVE  /\ general >= Minute => general - Minute \in 0 .. (Capacity * Minute)
           /\ reserved >= Minute => reserved - Minute \in 0 .. (Reserved * Minute)
  <1>1. Capacity * Minute \in Nat /\ Reserved * Minute \in Nat /\ Minute \in Nat
    BY BudgetsPositive
  <1> QED
    BY <1>1 DEF BudgetTypes

LEMMA LoginKeeps ==
    ASSUME ThrottleInv, NEW c \in Callers, PasswordLogin(c)
    PROVE  ThrottleInv' /\ Patience /\ Flood
  <1> DEFINE k == <<"login", Address[c]>>
  <1>1. MayAttempt(c) /\ BudgetTypes
    BY DEF PasswordLogin, ThrottleInv
  <1>2. PICK gone \in Dropped(k) :
          LET table == With(k, gone)
          IN  IF table[k].locked > 0 THEN Refuse(c, table, gone, "login", table[k].locked)
              ELSE IF ~DrawsReserved(c) /\ general < Minute
              THEN Refuse(c, table, gone, "instance", Wait(general))
              ELSE
                 /\ ladders' = table
                 /\ attempts' = [Orphaned(gone) EXCEPT ![c] = [at |-> "verifying", tracked |-> TRUE]]
                 /\ streak' = Forgets(gone)
                 /\ IF DrawsReserved(c)
                    THEN /\ reserved' = reserved - Minute
                         /\ told' = [told EXCEPT ![c] = NotTold]
                         /\ UNCHANGED general
                    ELSE /\ general' = general - Minute
                         /\ told' = [Disturbs(told, Callers) EXCEPT ![c] = NotTold]
                         /\ UNCHANGED reserved
                 /\ UNCHANGED <<claimed, known>>
    BY DEF PasswordLogin
  <1> DEFINE table == With(k, gone)
  <1>3. "login" \in Targets
    BY DEF Targets
  <1>4. Found(c, k, gone, table)
    BY <1>2, <1>3, LookupFinds
  <1> HIDE DEF table
  <1>5. CASE table[k].locked > 0
    <2>1. Refuse(c, table, gone, "login", table[k].locked)
      BY <1>2, <1>5 DEF table
    <2> QED
      BY <1>1, <1>3, <1>4, <1>5, <2>1, RefusalKeeps
  <1>6. CASE ~(table[k].locked > 0) /\ ~DrawsReserved(c) /\ general < Minute
    <2>1. Refuse(c, table, gone, "instance", Wait(general))
      BY <1>2, <1>6 DEF table
    <2> QED
      BY <1>1, <1>3, <1>4, <1>6, <2>1, RefusalKeeps
  <1>7. CASE ~(table[k].locked > 0) /\ ~(~DrawsReserved(c) /\ general < Minute)
    <2>1. /\ ladders' = table /\ streak' = Forgets(gone)
          /\ attempts' = [Orphaned(gone) EXCEPT ![c] = [at |-> "verifying", tracked |-> TRUE]]
          /\ UNCHANGED <<claimed, known>>
          /\ \/ /\ DrawsReserved(c) /\ reserved' = reserved - Minute /\ general' = general
                /\ told' = [told EXCEPT ![c] = NotTold]
             \/ /\ general >= Minute /\ general' = general - Minute /\ reserved' = reserved
                /\ told' = [Disturbs(told, Callers) EXCEPT ![c] = NotTold]
      <3>1. ~(general < Minute) => general >= Minute
        BY <1>1, BudgetsPositive DEF BudgetTypes
      <3> QED
        BY <1>2, <1>7, <3>1 DEF table
    <2>2. general' \in 0 .. (Capacity * Minute) /\ reserved' \in 0 .. (Reserved * Minute)
      BY <1>1, <2>1, TokenDrawn DEF BudgetTypes, DrawsReserved
    <2>3. "verifying" # "claiming" /\ "verifying" \in {"verifying", "claiming"} /\ "login" = IF "verifying" = "claiming" THEN "setup" ELSE "login"
      OBVIOUS
    <2>4. \/ general' = general /\ told' = [told EXCEPT ![c] = NotTold]
          \/ told' = [Disturbs(told, Callers) EXCEPT ![c] = NotTold]
      BY <2>1
    <2> QED
      BY <1>1, <1>3, <1>4, <2>1, <2>2, <2>3, <2>4, AdmissionKeeps
  <1> QED
    BY <1>5, <1>6, <1>7

LEMMA SetupFailsKeeps ==
    ASSUME ThrottleInv, NEW c \in Callers, SetupFails(c)
    PROVE  ThrottleInv' /\ Patience /\ Flood
  <1> DEFINE k == <<"setup", Address[c]>>
  <1>1. MayAttempt(c)
    BY DEF SetupFails
  <1>2. PICK gone \in Dropped(k) :
          LET table == With(k, gone)
          IN  IF table[k].locked > 0 THEN Refuse(c, table, gone, "setup", table[k].locked)
              ELSE
                 /\ ladders' = [table EXCEPT ![k] = Failed(@)]
                 /\ attempts' = Orphaned(gone)
                 /\ streak' = Counts(Forgets(gone), k)
                 /\ told' = [Disturbs(told, Neighbours(Address[c])) EXCEPT ![c] = NotTold]
                 /\ UNCHANGED <<general, reserved, claimed, known>>
    BY DEF SetupFails
  <1> DEFINE table == With(k, gone)
  <1>3. "setup" \in Targets
    BY DEF Targets
  <1>4. Found(c, k, gone, table)
    BY <1>2, <1>3, LookupFinds
  <1> HIDE DEF table
  <1>5. CASE table[k].locked > 0
    <2>1. Refuse(c, table, gone, "setup", table[k].locked)
      BY <1>2, <1>5 DEF table
    <2> QED
      BY <1>1, <1>3, <1>4, <1>5, <2>1, RefusalKeeps
  <1>6. CASE ~(table[k].locked > 0)
    <2>1. /\ ladders' = [table EXCEPT ![k] = Failed(@)]
          /\ attempts' = Orphaned(gone)
          /\ streak' = Counts(Forgets(gone), k)
          /\ told' = [Disturbs(told, Neighbours(Address[c])) EXCEPT ![c] = NotTold]
          /\ UNCHANGED <<general, reserved, claimed, known>>
      BY <1>2, <1>6 DEF table
    <2> QED
      BY <1>1, <1>4, <2>1, WrongTokenKeeps
  <1> QED
    BY <1>5, <1>6

LEMMA SetupKeeps ==
    ASSUME ThrottleInv, NEW c \in Callers, Setup(c)
    PROVE  ThrottleInv' /\ Patience /\ Flood
  <1> DEFINE k == <<"setup", Address[c]>>
  <1>1. MayAttempt(c) /\ BudgetTypes
    BY DEF Setup, ThrottleInv
  <1>2. PICK gone \in Dropped(k) :
          LET table == With(k, gone)
          IN  IF table[k].locked > 0 THEN Refuse(c, table, gone, "setup", table[k].locked)
              ELSE
                 /\ ladders' = table
                 /\ attempts' = [Orphaned(gone) EXCEPT ![c] = [at |-> "claiming", tracked |-> TRUE]]
                 /\ streak' = Forgets(gone)
                 /\ told' = [told EXCEPT ![c] = NotTold]
                 /\ UNCHANGED <<general, reserved, claimed, known>>
    BY DEF Setup
  <1> DEFINE table == With(k, gone)
  <1>3. "setup" \in Targets
    BY DEF Targets
  <1>4. Found(c, k, gone, table)
    BY <1>2, <1>3, LookupFinds
  <1> HIDE DEF table
  <1>5. CASE table[k].locked > 0
    <2>1. Refuse(c, table, gone, "setup", table[k].locked)
      BY <1>2, <1>5 DEF table
    <2> QED
      BY <1>1, <1>3, <1>4, <1>5, <2>1, RefusalKeeps
  <1>6. CASE ~(table[k].locked > 0)
    <2>1. /\ ladders' = table /\ streak' = Forgets(gone)
          /\ attempts' = [Orphaned(gone) EXCEPT ![c] = [at |-> "claiming", tracked |-> TRUE]]
          /\ told' = [told EXCEPT ![c] = NotTold]
          /\ UNCHANGED <<general, reserved, claimed, known>>
      BY <1>2, <1>6 DEF table
    <2>2. general' \in 0 .. (Capacity * Minute) /\ reserved' \in 0 .. (Reserved * Minute)
      BY <1>1, <2>1 DEF BudgetTypes
    <2>3. "claiming" \in {"verifying", "claiming"} /\ "setup" = IF "claiming" = "claiming" THEN "setup" ELSE "login"
      OBVIOUS
    <2>4. c \in Owners
      BY DEF Setup
    <2> QED
      BY <1>1, <1>3, <1>4, <2>1, <2>2, <2>3, <2>4, AdmissionKeeps
  <1> QED
    BY <1>5, <1>6

\* Waits, delays and buckets run out at one pace.
LEMMA TickKeeps ==
    ASSUME ThrottleInv, Tick
    PROVE  ThrottleInv' /\ Patience /\ Flood
  <1>1. /\ ladders' = [k \in DOMAIN ladders |-> Second(ladders[k])]
        /\ general' = Refilled(general, Capacity)
        /\ reserved' = Refilled(reserved, Reserved)
        /\ streak' = [k \in Keys |-> Later(streak[k])]
        /\ told' = [c \in Callers |-> [told[c] EXCEPT !.left = IF @ > 0 THEN @ - 1 ELSE 0]]
        /\ UNCHANGED <<claimed, known, attempts>>
    BY DEF Tick, Later
  <1>2. BudgetTypes /\ Agree(ladders, streak)
    BY DEF ThrottleInv
  <1>3. Agree(ladders', streak')
    BY <1>1, <1>2, TimeGoesBy
  <1>4. /\ Capacity * Minute \in Nat /\ Reserved * Minute \in Nat /\ Capacity * Minute >= Minute
    BY BudgetsPositive
  <1>5. general' \in 0 .. (Capacity * Minute) /\ reserved' \in 0 .. (Reserved * Minute)
    BY <1>1, <1>2, <1>4, BudgetsPositive DEF BudgetTypes, Refilled, Least
  <1>6. ASSUME NEW c \in Callers
        PROVE  /\ told'[c] \in Told /\ told'[c].by = told[c].by
               /\ told'[c].undisturbed = told[c].undisturbed
               /\ told'[c].left = IF told[c].left > 0 THEN told[c].left - 1 ELSE 0
               /\ told[c].left \in Nat
    <2> DEFINE w == told[c]
               left == IF told[c].left > 0 THEN told[c].left - 1 ELSE 0
    <2>1. w \in Told /\ told'[c] = [w EXCEPT !.left = left]
      BY <1>1, <1>2 DEF BudgetTypes
    <2>2. left \in 0 .. MaxWait /\ w.left \in Nat
      BY <2>1, WaitsFit DEF Told
    <2> HIDE DEF w, left
    <2>3. [w EXCEPT !.left = left] \in Told
      BY <2>1, <2>2 DEF Told
    <2>4. /\ [w EXCEPT !.left = left].by = w.by /\ [w EXCEPT !.left = left].left = left
          /\ [w EXCEPT !.left = left].undisturbed = w.undisturbed
      BY <2>1 DEF Told
    <2> QED
      BY <2>1, <2>2, <2>3, <2>4 DEF w, left
  <1>7. BudgetTypes'
    <2>1. told' \in [Callers -> Told]
      BY <1>1, <1>6
    <2> QED
      BY <1>1, <1>2, <1>5, <2>1 DEF BudgetTypes
  <1>8. ASSUME NEW c \in Callers, attempts'[c].at # "idle", attempts'[c].tracked
        PROVE  Key(c)' \in DOMAIN ladders'
    <2>1. Key(c)' = Key(c) /\ DOMAIN ladders' = DOMAIN ladders
      BY <1>1 DEF Key, Target
    <2> QED
      BY <1>1, <1>8, <2>1 DEF ThrottleInv
  <1>9. ASSUME NEW c \in Callers, told'[c].undisturbed
        PROVE  Enough(told'[c], c, ladders', general')
    <2>1. Enough(told[c], c, ladders, general)
      BY <1>6, <1>9 DEF ThrottleInv
    <2>2. ASSUME <<told[c].by, Address[c]>> \in DOMAIN ladders, told[c].by \in Targets
          PROVE  ladders'[<<told[c].by, Address[c]>>].locked <= told'[c].left
      <3> DEFINE k == <<told[c].by, Address[c]>>
      <3>1. Recorded(ladders[k], streak[k]) /\ ladders'[k] = Second(ladders[k])
        BY <1>1, <1>2, <2>2 DEF Agree
      <3>2. ladders'[k].locked = IF ladders[k].locked > 0 THEN ladders[k].locked - 1 ELSE 0
        BY <3>1, TimeIsRecorded
      <3>3. ladders[k].locked \in Nat
        BY <3>1, BudgetsPositive DEF Recorded, Ladder
      <3>4. ladders[k].locked <= told[c].left
        BY <2>1, <2>2 DEF Enough
      <3> QED
        BY <1>6, <3>2, <3>3, <3>4
    <2>3. ASSUME told[c].by = "instance"
          PROVE  general' + Capacity * told'[c].left >= Minute
      <3>1. general + Capacity * told[c].left >= Minute /\ general \in Nat
        BY <1>2, <1>4, <2>1, <2>3 DEF Enough, BudgetTypes
      <3>2. Capacity * told'[c].left \in Nat
        BY <1>6, BudgetsPositive
      <3>3. CASE general' = Capacity * Minute
        BY <1>4, <3>2, <3>3, BudgetsPositive
      <3>4. CASE general' = general + Capacity
        <4>1. Capacity * told[c].left <= Capacity + Capacity * told'[c].left
          BY <1>6, BudgetsPositive
        <4>2. Capacity * told[c].left \in Nat
          BY <1>6, BudgetsPositive
        <4> QED
          BY <3>1, <3>2, <3>4, <4>1, <4>2, BudgetsPositive
      <3> QED
        BY <1>1, <3>3, <3>4 DEF Refilled, Least
    <2>4. DOMAIN ladders' = DOMAIN ladders
      BY <1>1
    <2> QED
      BY <1>6, <2>1, <2>2, <2>3, <2>4 DEF Enough
  <1>10. Patience
    BY <1>6 DEF Patience
  <1>11. Flood
    BY <1>1 DEF Flood
  <1>12. \A d \in Callers : attempts'[d].at = "claiming" => d \in Owners
    BY <1>1 DEF ThrottleInv
  <1> QED
    BY <1>3, <1>7, <1>8, <1>9, <1>10, <1>11, <1>12 DEF ThrottleInv

LEMMA BudgetsAtStart == ThrottleInit => ThrottleInv
  <1> SUFFICES ASSUME ThrottleInit PROVE ThrottleInv
    OBVIOUS
  <1>1. /\ ladders = [k \in {} |-> FreshLadder]
        /\ general = Capacity * Minute /\ reserved = Reserved * Minute
        /\ claimed \in BOOLEAN /\ known \in SUBSET Owners
        /\ attempts = [c \in Callers |-> [at |-> "idle", tracked |-> FALSE]]
        /\ streak = [k \in Keys |-> Forgotten]
        /\ told = [c \in Callers |-> NotTold]
    BY DEF ThrottleInit, Forgotten
  <1>2. general \in 0 .. (Capacity * Minute) /\ reserved \in 0 .. (Reserved * Minute)
    BY <1>1, BudgetsPositive
  <1>3. NotTold \in Told /\ ~NotTold.undisturbed
    BY WaitsFit DEF NotTold, Told
  <1>4. attempts \in [Callers -> Attempt]
    BY <1>1 DEF Attempt
  <1>5. BudgetTypes
    BY <1>1, <1>2, <1>3, <1>4 DEF BudgetTypes
  <1>6. Agree(ladders, streak)
    <2>1. DOMAIN ladders = {}
      BY <1>1
    <2>2. IsFiniteSet(DOMAIN ladders) /\ Cardinality(DOMAIN ladders) = 0
      BY <2>1, FS_EmptySet
    <2> QED
      BY <1>1, <2>1, <2>2, ForgottenIsAStreak, BudgetsPositive DEF Agree
  <1> QED
    BY <1>1, <1>3, <1>5, <1>6 DEF ThrottleInv

LEMMA BudgetSteps ==
    ASSUME ThrottleInv, [ThrottleNext]_throttleVars
    PROVE  ThrottleInv' /\ (ThrottleNext => Patience /\ Flood)
  <1>1. CASE Tick
    BY <1>1, TickKeeps
  <1>2. ASSUME NEW c \in Callers, PasswordLogin(c) \/ SetupFails(c) \/ Setup(c)
        PROVE  ThrottleInv' /\ Patience /\ Flood
    BY <1>2, LoginKeeps, SetupFailsKeeps, SetupKeeps
  <1>3. ASSUME NEW c \in Callers, VerifyFails(c)
        PROVE  ThrottleInv' /\ Patience /\ Flood
    BY <1>3, FailureKeeps
  <1>4. ASSUME NEW c \in Callers, VerifySucceeds(c)
        PROVE  ThrottleInv' /\ Patience /\ Flood
    BY <1>4, ResetKeeps DEF VerifySucceeds, ThrottleInv, BudgetTypes
  <1>5. ASSUME NEW c \in Callers, Claims(c)
        PROVE  ThrottleInv' /\ Patience /\ Flood
    <2>1. /\ attempts[c].at = "claiming" /\ Ends(c) /\ UNCHANGED <<general, reserved, told>>
          /\ \/ claimed' = claimed /\ known' = known /\ UNCHANGED <<ladders, streak>>
             \/ claimed' = TRUE /\ known' = known \cup {c} /\ Resets(c)
      BY <1>5 DEF Claims
    <2>2. c \in Owners /\ claimed \in BOOLEAN /\ known \in SUBSET Owners
      BY <2>1 DEF ThrottleInv, BudgetTypes
    <2>3. CASE claimed' = claimed /\ known' = known /\ UNCHANGED <<ladders, streak>>
      BY <2>1, <2>2, <2>3, EndKeeps DEF ThrottleInv, BudgetTypes
    <2>4. CASE claimed' = TRUE /\ known' = known \cup {c} /\ Resets(c)
      <3>1. attempts[c].at # "idle"
        BY <2>1
      <3> QED
        BY <2>1, <2>2, <2>4, <3>1, ResetKeeps
    <2> QED
      BY <2>1, <2>3, <2>4
  <1>6. ASSUME NEW c \in Callers, Cancel(c)
        PROVE  ThrottleInv' /\ Patience /\ Flood
    BY <1>6, EndKeeps DEF Cancel, ThrottleInv, BudgetTypes
  <1>7. CASE UNCHANGED throttleVars
    BY <1>7 DEF throttleVars, ThrottleInv, BudgetTypes, Agree, Enough, Key, Target, Patience, Flood
  <1> QED
    BY <1>1, <1>2, <1>3, <1>4, <1>5, <1>6, <1>7 DEF ThrottleNext

LEMMA BudgetsSay == ThrottleInv => ThrottleTypeOK /\ HeldForItsOwn
  <1> SUFFICES ASSUME ThrottleInv PROVE ThrottleTypeOK /\ HeldForItsOwn
    OBVIOUS
  <1>1. BudgetTypes /\ Agree(ladders, streak)
    BY DEF ThrottleInv
  <1>2. ThrottleTypeOK
    BY <1>1 DEF BudgetTypes, Agree, Recorded, Streak, ThrottleTypeOK
  <1>3. ASSUME NEW k \in Keys
        PROVE  (IF k \in DOMAIN ladders THEN ladders[k].locked ELSE 0) = Holds(streak[k])
    <2>1. Holds(Forgotten) = 0
      BY FreshIsRecorded DEF Recorded, FreshLadder
    <2> QED
      BY <1>1, <2>1 DEF Agree, Recorded
  <1> QED
    BY <1>2, <1>3 DEF HeldForItsOwn

\* ThrottleHonest: whatever order attempts, answers, evictions and seconds come in,
\* the table and the buckets keep within their bounds, an address is held back for
\* its own failures and for as long as they say, is forgotten only in a flood, and
\* whoever waited as it was told is not refused for the same reason.
THEOREM BudgetsStayHonest == ThrottleSpec => ThrottleHonest
  <1>1. ThrottleInit => ThrottleInv
    BY BudgetsAtStart
  <1>2. ThrottleInv /\ [ThrottleNext]_throttleVars => ThrottleInv'
    BY BudgetSteps
  <1>3. ThrottleSpec => []ThrottleInv /\ [][ThrottleNext]_throttleVars
    BY <1>1, <1>2, PTL DEF ThrottleSpec
  <1>4. ThrottleInv /\ [ThrottleNext]_throttleVars =>
          [\A k \in Keys :
              /\ streak[k].failures > 0 /\ streak[k].quiet <= DecayAfter
              /\ k \in DOMAIN ladders /\ k \notin DOMAIN ladders'
              => Cardinality({j \in Keys \ {k} :
                     streak[j].failures > 0 /\ streak[j].quiet <= streak[k].quiet})
                 >= MaxTracked - 1]_throttleVars
    BY BudgetSteps DEF Flood, Lost
  <1>5. ThrottleInv /\ [ThrottleNext]_throttleVars =>
          [\A c \in Callers :
              told[c].undisturbed /\ told[c].left = 0 /\ told'[c].by = told[c].by
                  => told'[c].left = 0]_throttleVars
    BY BudgetSteps DEF Patience
  <1>6. ThrottleInv => ThrottleTypeOK /\ HeldForItsOwn
    BY BudgetsSay
  <1> QED
    BY <1>3, <1>4, <1>5, <1>6, PTL
       DEF ThrottleHonest, LaddersHold, ForgottenOnlyInAFlood, WaitIsEnough

\* Whatever is in the table, an entry can be found to make room.
LEMMA RoomCanBeMade ==
    ASSUME ThrottleInv, NEW k \in Keys
    PROVE  \E gone \in Dropped(k) : TRUE
  <1> DEFINE table == DOMAIN ladders
             idle == {j \in table : Decayed(ladders[j])}
             oldest == {j \in table : \A i \in table : ladders[i].quiet <= ladders[j].quiet}
             ages == {DecayAfter + 1 - ladders[j].quiet : j \in table}
             R == OpToRel(<, Nat)
  <1>1. CASE k \in table \/ Cardinality(table) < MaxTracked
    <2>1. Dropped(k) = {{}}
      BY <1>1 DEF Dropped
    <2> QED
      BY <2>1
  <1>2. CASE ~(k \in table \/ Cardinality(table) < MaxTracked)
    <2>0. Dropped(k) = Evicted
      BY <1>2 DEF Dropped
    <2>1. table # {}
      <3>1. CASE table = {}
        BY <1>2, <3>1, FS_EmptySet, BudgetsPositive
      <3> QED
        BY <3>1
    <2>2. \A j \in table : ladders[j].quiet \in 0 .. (DecayAfter + 1)
      BY DEF ThrottleInv, Agree, Recorded, Ladder
    <2>3. ages \subseteq Nat /\ ages # {}
      BY <2>1, <2>2, BudgetsPositive
    <2> HIDE DEF ages
    <2>4. \E n \in ages : \A m \in ages : <<m, n>> \notin R
      <3>1. IsWellFoundedOn(R, Nat)
        BY NatLessThanWellFounded
      <3> QED
        BY <2>3, <3>1, WFMin
    <2>5. PICK n \in ages : \A m \in ages : ~(m < n)
      BY <2>3, <2>4 DEF OpToRel
    <2> USE DEF ages
    <2>6. PICK v \in table : n = DecayAfter + 1 - ladders[v].quiet
      BY <2>5
    <2>7. ASSUME NEW i \in table PROVE ladders[i].quiet <= ladders[v].quiet
      <3>1. ~(DecayAfter + 1 - ladders[i].quiet < DecayAfter + 1 - ladders[v].quiet)
        BY <2>5, <2>6
      <3>2. ladders[i].quiet \in Nat /\ ladders[v].quiet \in Nat
        BY <2>2, BudgetsPositive
      <3> QED
        BY <3>1, <3>2, BudgetsPositive
    <2>8. v \in oldest
      BY <2>7
    <2>9. Evicted = IF idle # {} THEN {idle} ELSE {{w} : w \in oldest}
      BY DEF Evicted
    <2> QED
      BY <2>0, <2>8, <2>9
  <1> QED
    BY <1>1, <1>2

\* A key that is not held back still is not once it has been looked up.
LEMMA LookupIsFair ==
    ASSUME ThrottleInv, NEW k \in Keys, Holds(streak[k]) = 0, NEW gone
    PROVE  With(k, gone)[k].locked = 0
  <1>1. With(k, gone)[k] = IF k \in DOMAIN ladders THEN ladders[k] ELSE FreshLadder
    BY DEF With
  <1>2. FreshLadder.locked = 0
    BY DEF FreshLadder
  <1>3. k \in DOMAIN ladders => ladders[k].locked = 0
    BY DEF ThrottleInv, Agree, Recorded
  <1> QED
    BY <1>1, <1>2, <1>3

\* Each step that draws on the reserved bucket is the judgement of a known caller.
LEMMA ReservedDraws ==
    ASSUME ThrottleInv, ThrottleNext
    PROVE  \/ reserved' >= reserved
           \/ \E c \in known : /\ attempts[c].at = "idle" /\ attempts'[c].at = "verifying"
                               /\ reserved' = reserved - Minute
  <1>0. reserved \in Nat /\ Reserved \in Nat /\ Reserved * Minute \in Nat /\ reserved <= Reserved * Minute
    BY BudgetsPositive DEF ThrottleInv, BudgetTypes
  <1>1. CASE Tick
    BY <1>0, <1>1 DEF Tick, Refilled, Least
  <1>2. ASSUME NEW c \in Callers, PasswordLogin(c), reserved' # reserved
        PROVE  /\ c \in known /\ attempts[c].at = "idle" /\ attempts'[c].at = "verifying"
               /\ reserved' = reserved - Minute
    <2>1. attempts[c].at = "idle"
      BY <1>2 DEF PasswordLogin, MayAttempt
    <2>2. PICK gone \in Dropped(<<"login", Address[c]>>) :
             /\ attempts' = [Orphaned(gone) EXCEPT ![c] = [at |-> "verifying", tracked |-> TRUE]]
             /\ DrawsReserved(c) /\ reserved' = reserved - Minute
      BY <1>2 DEF PasswordLogin, Refuse
    <2>3. attempts'[c] = [at |-> "verifying", tracked |-> TRUE]
      BY <2>2 DEF Orphaned
    <2> QED
      BY <2>1, <2>2, <2>3 DEF DrawsReserved
  <1>3. ASSUME NEW c \in Callers, ~PasswordLogin(c),
               \/ SetupFails(c) \/ Setup(c) \/ VerifyFails(c) \/ VerifySucceeds(c)
               \/ Claims(c) \/ Cancel(c)
        PROVE  reserved' = reserved
    BY <1>3 DEF SetupFails, Setup, Refuse, VerifyFails, VerifySucceeds, Claims, Cancel
  <1> QED
    BY <1>0, <1>1, <1>2, <1>3 DEF ThrottleNext

\* A browser that has signed in before is judged by its own address's failures alone,
\* however full the table is, and draws on a bucket that nobody else does: what
\* OwnerGetsThrough rests on beside fairness, for any callers, budgets and bounds.
THEOREM OwnersAreNotCrowdedOut == ThrottleSpec => OwnersKeepTheirBudget
  <1>1. ThrottleSpec => []ThrottleInv /\ [][ThrottleNext]_throttleVars
    BY BudgetsAtStart, BudgetSteps, PTL DEF ThrottleSpec
  <1>2. ThrottleInv => OwnerIsNotCrowdedOut
    <2> SUFFICES ASSUME ThrottleInv, NEW c \in known, Holds(streak[<<"login", Address[c]>>]) = 0
                 PROVE  \E gone \in Dropped(<<"login", Address[c]>>) :
                            With(<<"login", Address[c]>>, gone)[<<"login", Address[c]>>].locked = 0
      BY DEF OwnerIsNotCrowdedOut
    <2>1. <<"login", Address[c]>> \in Keys
      BY ThrottleAssumption DEF ThrottleInv, BudgetTypes, Keys, Targets, Addresses
    <2> QED
      BY <2>1, RoomCanBeMade, LookupIsFair
  <1>3. ThrottleInv /\ [ThrottleNext]_throttleVars =>
          [\/ reserved' >= reserved
           \/ \E c \in known : /\ attempts[c].at = "idle" /\ attempts'[c].at = "verifying"
                               /\ reserved' = reserved - Minute]_throttleVars
    BY ReservedDraws
  <1> QED
    BY <1>1, <1>2, <1>3, PTL DEF OwnersKeepTheirBudget, ReservedForOwners

===============================================================================
