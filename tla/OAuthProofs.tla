----------------------------- MODULE OAuthProofs -----------------------------
(* Theorems about MCP OAuth: Grants, for any number of grants, codes, tokens, *)
(* requests and identities, and however often the provider rotates; then      *)
(* ClientRecords, ClientAssertions and Forms, for every value of their        *)
(* constants.                                                                 *)
EXTENDS Grants, ClientRecords, ClientAssertions, Forms, SumLemmas, SequenceTheorems,
        FiniteSetTheorems, WellFoundedInduction, TLAPS

-----------------------------------------------------------------------------
(* Grants.                                                                 *)

-----------------------------------------------------------------------------
(* The inductive invariant.                                                *)

Lock(r) == requests[r].at \in Locking
Code(r) == requests[r].at \in Issuing
Began(r) == requests[r].at \in {"queued", "revoking"} \cup Locking
Renewed(r) == requests[r].at \in {"answered", "admitted"}

\* One transition at a time works on a grant, and none on one the rebind has
\* locked; one exchange at a time on a code.
Exclusive ==
    /\ \A r, q \in Requests :
          Lock(r) /\ Lock(q) /\ requests[r].grant = requests[q].grant => r = q
    /\ \A r \in Requests : Lock(r) => requests[r].grant \notin host.held
    /\ \A r, q \in Requests :
          Code(r) /\ Code(q) /\ requests[r].login = requests[q].login => r = q

\* What the rebind has locked and deleted, at each of its places.
HostShape ==
    /\ host.held \subseteq host.listed
    /\ host.at \in {"idle", "committed"} => host.held = {} /\ host.listed = {}
    /\ host.at # "deleted" => host.records = {} /\ host.pairs = {}
    /\ host.at \in {"read", "deleted"} => host.held = host.listed
    /\ host.at \in {"idle", "locking"} => host.pending = {} /\ host.credentials = {}
    /\ \A t \in host.pairs : pairs[t] # None
    /\ \A g \in host.listed : records[g] # None \/ g \in ended
    /\ host.at = "deleted" => host.listed \subseteq host.records \cup ended

\* A request names the tokens it came with and their grant.
Presented ==
    \A r \in Requests : Began(r) =>
        /\ requests[r].pair \in Tokens
        /\ pairs[requests[r].pair] # None
        /\ requests[r].grant = pairs[requests[r].pair].grant

\* A grant that is being issued is nobody else's.
Alone ==
    \A r \in Requests : requests[r].at = "mint" =>
        /\ requests[r].grant \in GrantIds
        /\ \A t \in Tokens : pairs[t] # None => pairs[t].grant # requests[r].grant
        /\ \A q \in Requests : requests[q].grant = requests[r].grant => q = r
        /\ records[requests[r].grant] # None =>
              records[requests[r].grant].login = requests[r].login

\* Each place where an identity is written down has the one of the login.
OneName ==
    /\ \A r \in Requests : Code(r) \/ Lock(r) =>
          requests[r].login \in Codes /\ codes[requests[r].login] # "new"
    /\ \A r \in Requests : requests[r].at \in {"store", "mint"} =>
          account[requests[r].login] # None
    /\ \A g \in GrantIds : records[g] # None =>
          /\ codes[records[g].login] # "new"
          /\ records[g].owner = account[records[g].login]
    /\ \A g \in GrantIds, t \in Tokens :
          records[g] # None /\ pairs[t] # None /\ pairs[t].grant = g =>
              pairs[t].who = records[g].owner
    /\ \A s, t \in Tokens :
          pairs[s] # None /\ pairs[t] # None /\ pairs[s].grant = pairs[t].grant =>
              pairs[s].who = pairs[t].who
    /\ \A r \in Requests : Lock(r) =>
          /\ account[requests[r].login] = pairs[requests[r].pair].who
          /\ records[requests[r].grant] # None =>
                records[requests[r].grant].login = requests[r].login
    /\ \A r \in Requests : requests[r].at \in {"admitted", "stored"} =>
          Binding(requests[r]) = pairs[requests[r].pair].who

\* What has ended has no record, and nobody at work on it who could write one.
Finished ==
    \A g \in ended :
        /\ records[g] = None
        /\ \A r \in Requests : Lock(r) => requests[r].grant # g

\* There is a pair of tokens for everybody who will mint one.
Minting == {r \in Requests : requests[r].at \in {"mint", "answered", "admitted", "stored"}}
Unminted == {t \in Tokens : pairs[t] = None}
Supplied == Cardinality(Minting) <= Cardinality(Unminted)

-----------------------------------------------------------------------------

\* Grant g has its tokens from login c: by its record, by the transition at work
\* on it, or by the exchange that is issuing it.
ByRecord(g, c) == records[g] # None /\ records[g].login = c
ByLock(r, c) == Lock(r) /\ requests[r].login = c
ByMint(r, c) == requests[r].at = "mint" /\ requests[r].login = c

Claims(g, c) ==
    \/ ByRecord(g, c)
    \/ \E r \in Requests : requests[r].grant = g /\ (ByLock(r, c) \/ ByMint(r, c))

\* Login c may still become a grant's, or is about to.
Startable(c) ==
    \/ codes[c] # "gone" /\ \A r \in Requests : ~ByMint(r, c)
    \/ \E r \in Requests : requests[r].at \in {"issue", "store"} /\ requests[r].login = c

Unused(c) == issued[c] = 0 /\ \A g \in GrantIds : ~Claims(g, c)

\* One grant lives on a login.
OneGrant(c) == \A g, h \in GrantIds : Claims(g, c) /\ Claims(h, c) => g = h

\* Its record or the transition that renewed it holds the login's latest token.
Latest(c) ==
    /\ \A r \in Requests : Renewed(r) /\ ByLock(r, c) => requests[r].rt = issued[c]
    /\ \A g \in GrantIds :
          ByRecord(g, c) /\ (\A r \in Requests : Renewed(r) => requests[r].grant # g) =>
              records[g].rt = issued[c]

\* Nobody is at work on login c, nor can be before the rebind's commit or after it: the
\* rebind holds the lock of every grant that has its tokens, and deletes it.
Frozen(c) ==
    /\ \A r \in Requests : ~ByLock(r, c)
    /\ \A g \in GrantIds : ByRecord(g, c) =>
          /\ g \in host.held
          /\ \/ host.at = "read"
             \/ host.at = "deleted" /\ g \in host.records

\* What the rebind read under its locks nobody uses afterwards.
Handed(c) ==
    \A n \in 0..MaxRotation : <<c, n>> \in host.credentials =>
        n = issued[c] /\ ~Startable(c) /\ Frozen(c)

\* A pending code's token is unused, as long as no grant is stored for it.
Pended(c) == c \in host.pending \ host.late => issued[c] = 0 /\ Frozen(c)

\* A login whose grant is being issued has not been refreshed, and that grant is one the
\* rebind listed, or is late.
Minted(c) ==
    \A r \in Requests : ByMint(r, c) =>
        /\ issued[c] = 0
        /\ host.at \in {"locking", "read", "deleted"} =>
              \/ c \in host.late
              \/ requests[r].grant \in host.listed
              \/ records[requests[r].grant] = None

Rotation ==
    \A c \in Codes \ lost :
        /\ Startable(c) => Unused(c)
        /\ OneGrant(c)
        /\ Latest(c)
        /\ Handed(c)
        /\ Pended(c)
        /\ Minted(c)

GInv ==
    /\ TypeOK /\ Exclusive /\ HostShape /\ Presented /\ Alone /\ OneName /\ Finished
    /\ Supplied /\ Rotation

-----------------------------------------------------------------------------
(* Types.                                                                  *)

LEMMA NoneIsNothing ==
    /\ None \notin Identities /\ None \notin GrantIds /\ None \notin Codes
    /\ None \notin Tokens /\ None \notin Record /\ None \notin Pair
  BY GrantsAssumption

LEMMA NewGrantIsFresh ==
    ASSUME \E g \in GrantIds : Fresh(g)
    PROVE  NewGrant \in GrantIds /\ Fresh(NewGrant)
  BY DEF NewGrant

\* Somebody who mints finds a pair of tokens not yet issued.
LEMMA NewTokenIsThere ==
    ASSUME TypeOK, Supplied, Minting # {}
    PROVE  NewToken \in Tokens /\ pairs[NewToken] = None
  <1>1. IsFiniteSet(Minting)
    BY GrantsAssumption, FS_Subset DEF Minting
  <1>2. IsFiniteSet(Unminted)
    BY GrantsAssumption, FS_Subset DEF Unminted
  <1>3. Cardinality(Minting) \in Nat /\ Cardinality(Minting) # 0
    BY <1>1, FS_CardinalityType, FS_EmptySet
  <1>4. Cardinality(Unminted) \in Nat /\ Cardinality(Unminted) # 0
    BY <1>2, <1>3, FS_CardinalityType DEF Supplied
  <1>5. Unminted # {}
    BY <1>4, FS_EmptySet
  <1> QED
    BY <1>5 DEF Unminted, NewToken

LEMMA IdleType == Idle \in Request
  BY GrantsAssumption DEF Idle, Request, Places, Kinds, Says

LEMMA TypeInit == Init => TypeOK
  BY IdleType, GrantsAssumption DEF Init, TypeOK, HostIdle, Host

LEMMA TypeStep ==
    ASSUME GInv, [Next]_vars
    PROVE  TypeOK'
  <1> USE IdleType DEF Goes, Leaves, Spends
  <1>0. TypeOK
    BY DEF GInv
  <1>u. CASE UNCHANGED vars
    BY <1>u, <1>0 DEF vars, store, provider, TypeOK
  <1>o. CASE \E i \in Identities : BindOwner(i)
    BY <1>o, <1>0 DEF BindOwner, store, provider, TypeOK
  <1>l. CASE \E c \in Codes, who \in Identities \cup {None} : LogIn(c, who)
    BY <1>l, <1>0 DEF LogIn, TypeOK
  <1>e. ASSUME NEW r \in Requests, Exchange(r)
        PROVE  TypeOK'
    <2>1. ASSUME NEW c \in Codes, BeginExchange(r, c)
          PROVE  TypeOK'
      <3>1. [Idle EXCEPT !.at = "issue", !.kind = "exchange", !.login = c] \in Request
        BY GrantsAssumption DEF Idle, Request, Places, Issuing, Kinds, Says
      <3> QED
        BY <2>1, <3>1, <1>0 DEF BeginExchange, BeginExchangeUnlocked, store, provider, TypeOK
    <2>2. CASE Verify(r)
      BY <2>2, <1>0 DEF Verify, store, provider, TypeOK, Request, Places, Issuing
    <2>3. CASE RefuseExchange(r)
      BY <2>3, <1>0 DEF RefuseExchange, provider, TypeOK
    <2>4. CASE StoreRecord(r)
      <3> DEFINE c == requests[r].login
      <3>1. NewGrant \in GrantIds
        BY <2>4, NewGrantIsFresh DEF StoreRecord
      <3>2. c \in Codes /\ account[c] \in Identities
        BY <2>4, <1>0 DEF StoreRecord, GInv, OneName, Code, Issuing, TypeOK
      <3>3. [owner |-> account[c], login |-> c, rt |-> 0] \in Record
        BY <3>2, GrantsAssumption DEF Record
      <3>4. host' \in Host
        BY <2>4, <1>0, <3>2 DEF StoreRecord, TypeOK, Host
      <3> QED
        BY ZenonT(60), <2>4, <1>0, <3>1, <3>3, <3>4 DEF StoreRecord, provider, TypeOK, Request, Places, Issuing
    <2>5. CASE MintPair(r)
      <3> DEFINE req == requests[r]
                 new == [grant |-> req.grant, who |-> account[req.login],
                         access |-> TRUE, refresh |-> TRUE]
      <3>1. req.login \in Codes /\ account[req.login] \in Identities /\ req.grant \in GrantIds
        BY <2>5, <1>0 DEF MintPair, GInv, OneName, Alone, Code, Issuing, TypeOK
      <3>2. new \in Pair
        BY <3>1 DEF Pair
      <3> QED
        BY <2>5, <1>0, <3>1, <3>2 DEF MintPair, provider, TypeOK
    <2> QED
      BY <1>e, <2>1, <2>2, <2>3, <2>4, <2>5 DEF Exchange
  <1>f. ASSUME NEW r \in Requests, Refresh(r) \/ Revoke(r)
        PROVE  TypeOK'
    <2>1. ASSUME NEW t \in Tokens, NEW kind \in Kinds, NEW place \in Places,
                 Starts(r, t, kind, place)
          PROVE  TypeOK'
      <3>1. pairs[t] \in Pair /\ pairs[t].grant \in GrantIds
        BY <2>1, <1>0 DEF Starts, TypeOK, Pair
      <3> QED
        BY <2>1, <3>1, <1>0, GrantsAssumption DEF Starts, Idle, store, provider, TypeOK, Request, Says
    <2>2. CASE NotThere(r)
      BY <2>2, <1>0 DEF NotThere, store, provider, TypeOK
    <2>3. CASE TakeGrant(r)
      <3>1. records[requests[r].grant] \in Record
        BY <2>3, <1>0 DEF TakeGrant, TypeOK, GInv, Presented, Began, Pair
      <3>2. [requests[r] EXCEPT !.at = "asked", !.login = records[requests[r].grant].login,
                                !.rt = records[requests[r].grant].rt] \in Request
        BY <3>1, <1>0 DEF TypeOK, Record, Request, Places, Locking
      <3> QED
        BY <2>3, <3>2, <1>0 DEF TakeGrant, store, provider, TypeOK
    <2>4. ASSUME NEW asked \in BOOLEAN, RevokeUnlocked(r, asked)
          PROVE  TypeOK'
      <3>1. /\ requests[r].pair \in Tokens /\ pairs[requests[r].pair] \in Pair
            /\ requests[r].grant \in GrantIds
        BY <2>4, <1>0 DEF RevokeUnlocked, TypeOK, GInv, Presented, Began, Pair
      <3>2. records[requests[r].grant] # None => records[requests[r].grant].login \in Codes
        BY <3>1, <1>0 DEF TypeOK, Record
      <3> QED
        BY <2>4, <3>1, <3>2, <1>0 DEF RevokeUnlocked, Pair, TypeOK
    <2> QED
      BY <1>f, <2>1, <2>2, <2>3, <2>4
         DEF Refresh, Revoke, BeginRefresh, BeginUse, BeginRevoke, RevokeLocally, Kinds, Places
  <1>t. ASSUME NEW r \in Requests, Transition(r)
        PROVE  TypeOK'
    <2> DEFINE req == requests[r]
    <2>0. /\ req.pair \in Tokens /\ pairs[req.pair] \in Pair /\ req.grant \in GrantIds
          /\ req.login \in Codes
      BY ZenonT(60), <1>t, <1>0 DEF Transition, Answer, AnswerFails, AnswerLost, Admit, Current, Refuse, Put,
           Rotate, TypeOK, GInv, Presented, Began, Pair, OneName, Lock, Locking
    <2>1. ASSUME NEW says \in Says, Answer(r, says)
          PROVE  TypeOK'
      <3>1. issued[req.login] + 1 \in 0..MaxRotation
        BY <2>1, <2>0, <1>0, GrantsAssumption DEF Answer, TypeOK
      <3> QED
        BY <2>1, <2>0, <3>1, <1>0 DEF Answer, store, TypeOK, Request, Places, Locking
    <2>2. CASE AnswerFails(r)
      BY <2>2, <1>0 DEF AnswerFails, store, provider, TypeOK
    <2>3. CASE AnswerLost(r)
      BY <2>3, <2>0, <1>0 DEF AnswerLost, store, provider, TypeOK
    <2>4. CASE Admit(r)
      BY <2>4, <1>0 DEF Admit, store, provider, TypeOK, Request, Places, Locking
    <2>5. CASE Refuse(r)
      BY <2>5, <2>0, <1>0 DEF Refuse, Pair, provider, TypeOK
    <2>6. ASSUME req.at \in {"admitted", "stored"}
          PROVE  Binding(req) \in Identities
      BY <2>6, <2>0, <1>0 DEF GInv, OneName, Pair
    <2>7. CASE Put(r)
      <3>1. [owner |-> Binding(req), login |-> req.login, rt |-> req.rt] \in Record
        BY <2>0, <2>6, <2>7, <1>0 DEF Put, Record, Request, TypeOK
      <3> QED
        BY <2>7, <2>0, <3>1, <1>0 DEF Put, provider, TypeOK, Request, Places, Locking
    <2>8. CASE Rotate(r)
      <3>1. [grant |-> req.grant, who |-> Binding(req), access |-> TRUE, refresh |-> TRUE] \in Pair
        BY <2>0, <2>6, <2>8, <1>0 DEF Rotate, Pair, TypeOK
      <3>2. [pairs[req.pair] EXCEPT !.refresh = FALSE] \in Pair
        BY <2>0 DEF Pair
      <3> QED
        BY <2>8, <2>0, <3>1, <3>2, <1>0 DEF Rotate, provider, TypeOK
    <2> QED
      BY <1>t, <2>1, <2>2, <2>3, <2>4, <2>5, <2>7, <2>8 DEF Transition
  <1>h. CASE Rebind
    <2> USE DEF Host, HostIdle
    <2>1. CASE RebindList
      BY <2>1, <1>0 DEF RebindList, store, provider, TypeOK
    <2>2. CASE \E g \in GrantIds : RebindLock(g)
      BY <2>2, <1>0 DEF RebindLock, store, provider, TypeOK
    <2>3. CASE RebindRead
      <3> DEFINE read == {<<records[g].login, records[g].rt>> :
                             g \in {h \in host.listed : records[h] # None}}
      <3>1. ASSUME NEW g \in host.listed, records[g] # None
            PROVE  <<records[g].login, records[g].rt>> \in Codes \X (0..MaxRotation)
        BY <3>1, <1>0 DEF TypeOK, Record
      <3>2. read \in SUBSET (Codes \X (0..MaxRotation))
        BY <3>1
      <3> HIDE DEF read
      <3>3. ASSUME NEW filed \in SUBSET Codes, NEW old \in Host
            PROVE  [old EXCEPT !.at = "read", !.pending = filed, !.credentials = read] \in Host
        BY <3>2
      <3>4. host' \in Host
        BY ZenonT(60), <2>3, <3>3, <1>0 DEF RebindRead, TypeOK, read
      <3> QED
        BY <2>3, <3>4, <1>0 DEF RebindRead, store, provider, TypeOK
    <2>7. CASE RebindDelete
      BY <2>7, <1>0 DEF RebindDelete, store, provider, TypeOK
    <2>4. CASE RebindCommit
      <3>1. ASSUME NEW t \in host.pairs
            PROVE  [pairs[t] EXCEPT !.access = FALSE, !.refresh = FALSE] \in Pair
        BY ZenonT(60), <3>1, <1>0 DEF GInv, HostShape, TypeOK, Pair
      <3> QED
        BY <2>4, <3>1, <1>0 DEF RebindCommit, provider, TypeOK
    <2>5. CASE RebindDies
      BY <2>5, <1>0 DEF RebindDies, store, provider, TypeOK
    <2>6. CASE \E asked \in SUBSET HandedOver : RebindUpstream(asked)
      BY <2>6, <1>0 DEF RebindUpstream, store, TypeOK
    <2> QED
      BY <1>h, <2>1, <2>2, <2>3, <2>4, <2>5, <2>6, <2>7 DEF Rebind
  <1>c. CASE Crash
    <2>1. ASSUME NEW r \in Requests, requests[r].at \in {"mint", "answered", "admitted"}
          PROVE  requests[r].login \in Codes
      BY <2>1, <1>0 DEF GInv, OneName, Lock, Code, Issuing, Locking
    <2> QED
      BY <1>c, <2>1, <1>0 DEF Crash, store, provider, TypeOK
  <1> QED
    BY <1>u, <1>o, <1>l, <1>e, <1>f, <1>t, <1>h, <1>c DEF Next

-----------------------------------------------------------------------------
(* What each step does to the requests.                                    *)

Only(r) == \A q \in Requests \ {r} : requests'[q] = requests[q]

\* Request r goes on to a place with what it has.
GoesOn(r, place) ==
    /\ Only(r)
    /\ requests'[r].at = place
    /\ requests'[r].kind = requests[r].kind
    /\ requests'[r].pair = requests[r].pair
    /\ requests'[r].grant = requests[r].grant
    /\ requests'[r].login = requests[r].login
    /\ requests'[r].rt = requests[r].rt
    /\ requests'[r].says = requests[r].says

\* Request r is over.
Ends(r) == Only(r) /\ requests'[r] = Idle

LEMMA Moves ==
    ASSUME TypeOK, NEW r \in Requests
    PROVE  /\ \A place \in Places : Goes(r, place) => GoesOn(r, place)
           /\ Leaves(r) => Ends(r)
  <1>1. ASSUME NEW place \in Places, Goes(r, place)
        PROVE  GoesOn(r, place)
    BY <1>1 DEF TypeOK, Request, Goes, GoesOn, Only
  <1>2. ASSUME Leaves(r)
        PROVE  Ends(r)
    BY <1>2 DEF TypeOK, Leaves, Ends, Only
  <1> QED
    BY <1>1, <1>2

LEMMA ExchangeMoves ==
    ASSUME TypeOK, NEW r \in Requests
    PROVE  /\ \A c \in Codes : BeginExchange(r, c) =>
                  /\ requests[r].at = "idle" /\ Only(r)
                  /\ requests'[r].at = "issue" /\ requests'[r].login = c
                  /\ requests'[r].grant = None
           /\ Verify(r) => requests[r].at = "issue" /\ GoesOn(r, "store")
           /\ RefuseExchange(r) => requests[r].at = "issue" /\ Ends(r)
           /\ StoreRecord(r) =>
                  /\ requests[r].at = "store" /\ Only(r)
                  /\ requests'[r].at = "mint"
                  /\ requests'[r].grant = NewGrant
                  /\ requests'[r].login = requests[r].login
                  /\ requests'[r].pair = requests[r].pair
           /\ MintPair(r) => requests[r].at = "mint" /\ Ends(r)
  <1>1. ASSUME NEW c \in Codes, BeginExchange(r, c)
        PROVE  /\ requests[r].at = "idle" /\ Only(r)
               /\ requests'[r].at = "issue" /\ requests'[r].login = c
               /\ requests'[r].grant = None
    BY <1>1 DEF BeginExchange, BeginExchangeUnlocked, Idle, TypeOK, Request, Only
  <1>2. Verify(r) => GoesOn(r, "store")
    BY Moves DEF Verify, Places, Issuing
  <1>3. ASSUME StoreRecord(r)
        PROVE  /\ Only(r)
               /\ requests'[r].at = "mint"
               /\ requests'[r].grant = NewGrant
               /\ requests'[r].login = requests[r].login
               /\ requests'[r].pair = requests[r].pair
    BY <1>3 DEF StoreRecord, TypeOK, Request, Only
  <1> QED
    BY <1>1, <1>2, <1>3, Moves DEF RefuseExchange, MintPair, Verify, StoreRecord

LEMMA GrantMoves ==
    ASSUME TypeOK, NEW r \in Requests
    PROVE  /\ \A t \in Tokens, kind \in Kinds, place \in Places : Starts(r, t, kind, place) =>
                  /\ requests[r].at = "idle" /\ pairs[t] # None /\ Only(r)
                  /\ requests'[r].at = place
                  /\ requests'[r].pair = t
                  /\ requests'[r].grant = pairs[t].grant
           /\ NotThere(r) => requests[r].at = "queued" /\ Ends(r)
           /\ TakeGrant(r) =>
                  /\ requests[r].at = "queued" /\ Only(r)
                  /\ requests'[r].at = "asked"
                  /\ requests'[r].pair = requests[r].pair
                  /\ requests'[r].grant = requests[r].grant
                  /\ requests'[r].login = records[requests[r].grant].login
                  /\ requests'[r].rt = records[requests[r].grant].rt
                  /\ requests'[r].says = requests[r].says
           /\ \A asked \in BOOLEAN : RevokeUnlocked(r, asked) =>
                  requests[r].at = "revoking" /\ Ends(r)
  <1>1. ASSUME NEW t \in Tokens, NEW kind \in Kinds, NEW place \in Places, Starts(r, t, kind, place)
        PROVE  /\ requests[r].at = "idle" /\ pairs[t] # None /\ Only(r)
               /\ requests'[r].at = place
               /\ requests'[r].pair = t
               /\ requests'[r].grant = pairs[t].grant
    BY <1>1 DEF Starts, Idle, TypeOK, Request, Only
  <1>2. ASSUME TakeGrant(r)
        PROVE  /\ Only(r)
               /\ requests'[r].at = "asked"
               /\ requests'[r].pair = requests[r].pair
               /\ requests'[r].grant = requests[r].grant
               /\ requests'[r].login = records[requests[r].grant].login
               /\ requests'[r].rt = records[requests[r].grant].rt
               /\ requests'[r].says = requests[r].says
    BY <1>2 DEF TakeGrant, TypeOK, Request, Only
  <1>3. NotThere(r) => requests[r].at = "queued" /\ Ends(r)
    BY Moves DEF NotThere
  <1>4. ASSUME NEW asked \in BOOLEAN, RevokeUnlocked(r, asked)
        PROVE  requests[r].at = "revoking" /\ Ends(r)
    BY <1>4, Moves DEF RevokeUnlocked
  <1> QED
    BY <1>1, <1>2, <1>3, <1>4 DEF TakeGrant

LEMMA TransitionMoves ==
    ASSUME TypeOK, NEW r \in Requests
    PROVE  /\ \A says \in Says : Answer(r, says) =>
                  /\ requests[r].at = "asked" /\ Only(r)
                  /\ requests'[r].at = "answered"
                  /\ requests'[r].pair = requests[r].pair
                  /\ requests'[r].grant = requests[r].grant
                  /\ requests'[r].login = requests[r].login
                  /\ requests'[r].rt = issued[requests[r].login] + 1
           /\ AnswerFails(r) => requests[r].at = "asked" /\ Ends(r)
           /\ AnswerLost(r) => requests[r].at = "answered" /\ Ends(r)
           /\ Admit(r) => requests[r].at = "answered" /\ GoesOn(r, "admitted")
           /\ Refuse(r) => requests[r].at = "answered" /\ Ends(r)
           /\ Put(r) => requests[r].at = "admitted" /\ (Ends(r) \/ GoesOn(r, "stored"))
           /\ Rotate(r) => requests[r].at = "stored" /\ Ends(r)
  <1>1. ASSUME NEW says \in Says, Answer(r, says)
        PROVE  /\ requests[r].at = "asked" /\ Only(r)
               /\ requests'[r].at = "answered"
               /\ requests'[r].pair = requests[r].pair
               /\ requests'[r].grant = requests[r].grant
               /\ requests'[r].login = requests[r].login
               /\ requests'[r].rt = issued[requests[r].login] + 1
    BY <1>1 DEF Answer, TypeOK, Request, Only
  <1>2. {"admitted", "stored"} \subseteq Places
    BY DEF Places, Locking
  <1>3. Put(r) => Ends(r) \/ GoesOn(r, "stored")
    BY <1>2, Moves DEF Put
  <1> QED
    BY <1>1, <1>2, <1>3, Moves DEF AnswerFails, AnswerLost, Admit, Current, Refuse, Rotate, Put

\* A record that is stored while a rebind runs makes its login late, and no more.
LEMMA StoringMakesLate ==
    ASSUME TypeOK, NEW r \in Requests, StoreRecord(r)
    PROVE  /\ host'.at = host.at /\ host'.listed = host.listed /\ host'.held = host.held
           /\ host'.records = host.records /\ host'.pairs = host.pairs
           /\ host'.credentials = host.credentials /\ host'.pending = host.pending
           /\ host'.late = IF host.at = "idle" THEN host.late
                           ELSE host.late \cup {requests[r].login}
  BY DEF StoreRecord, TypeOK, Host

\* The rebind's steps past its locks.
LEMMA RebindMoves ==
    ASSUME TypeOK
    PROVE  /\ RebindRead =>
                  /\ host'.at = "read" /\ host'.listed = host.listed /\ host'.held = host.held
                  /\ host'.records = host.records /\ host'.pairs = host.pairs
                  /\ host'.late = host.late
                  /\ host'.pending = {c \in Codes : codes[c] = "held"}
                  /\ host'.credentials = {<<records[g].login, records[g].rt>> :
                                             g \in {h \in host.listed : records[h] # None}}
           /\ RebindDelete =>
                  /\ host'.at = "deleted" /\ host'.listed = host.listed /\ host'.held = host.held
                  /\ host'.records = {g \in GrantIds : records[g] # None}
                  /\ host'.pairs = {t \in Tokens : pairs[t] # None}
                  /\ host'.late = host.late /\ host'.pending = host.pending
                  /\ host'.credentials = host.credentials
           /\ RebindCommit =>
                  /\ host'.at = "committed" /\ host'.listed = {} /\ host'.held = {}
                  /\ host'.records = {} /\ host'.pairs = {}
                  /\ host'.late = host.late /\ host'.pending = host.pending
                  /\ host'.credentials = host.credentials
  <1>1. CASE RebindRead
    BY <1>1 DEF RebindRead, RebindDelete, RebindCommit, TypeOK, Host
  <1>2. CASE RebindDelete
    BY <1>2 DEF RebindRead, RebindDelete, RebindCommit, TypeOK, Host
  <1>3. CASE RebindCommit
    <2>1. ASSUME NEW x, NEW y, NEW z,
                 host' = [HostIdle EXCEPT !.at = "committed", !.credentials = x,
                                          !.pending = y, !.late = z]
          PROVE  /\ host'.at = "committed" /\ host'.listed = {} /\ host'.held = {}
                 /\ host'.records = {} /\ host'.pairs = {}
                 /\ host'.late = z /\ host'.pending = y /\ host'.credentials = x
      BY <2>1 DEF HostIdle
    <2>2. host.at = "deleted"
      BY <1>3 DEF RebindCommit
    <2> QED
      BY <1>3, <2>1, <2>2 DEF RebindRead, RebindDelete, RebindCommit
  <1> QED
    BY <1>1, <1>2, <1>3

\* The steps with which a request is over.
Leaving(r) ==
    \/ Crash
    \/ RefuseExchange(r) \/ MintPair(r)
    \/ NotThere(r) \/ \E asked \in BOOLEAN : RevokeUnlocked(r, asked)
    \/ AnswerFails(r) \/ AnswerLost(r) \/ Refuse(r) \/ Put(r) \/ Rotate(r)

\* What becomes of a request in a step, its own or another's.
Fate(r) ==
    \/ requests'[r] = requests[r]
    \/ requests'[r] = Idle /\ Leaving(r)
    \/ \E c \in Codes : BeginExchange(r, c)
    \/ Verify(r) \/ StoreRecord(r)
    \/ \E t \in Tokens, kind \in Kinds, place \in {"queued", "revoking"} :
           Starts(r, t, kind, place)
    \/ TakeGrant(r)
    \/ \E says \in Says : Answer(r, says)
    \/ Admit(r)
    \/ Put(r) /\ GoesOn(r, "stored")

LEMMA Fates ==
    ASSUME TypeOK, [Next]_vars, NEW r \in Requests
    PROVE  Fate(r)
  <1>1. CASE requests'[r] = requests[r] \/ Crash
    BY <1>1 DEF Crash, Fate, Leaving
  <1>2. ASSUME NEW q \in Requests, Only(q), q # r
        PROVE  Fate(r)
    BY <1>2, <1>1 DEF Only
  <1>3. ASSUME NEW q \in Requests, Ends(q), Leaving(q)
        PROVE  Fate(r)
    BY <1>3, <1>2 DEF Ends, Fate
  <1>4. ASSUME NEW q \in Requests, Exchange(q)
        PROVE  Fate(r)
    <2>1. CASE q = r
      BY <1>3, <1>4, <2>1, ExchangeMoves DEF Exchange, Fate, Leaving
    <2>2. CASE q # r
      BY <1>2, <1>4, <2>2, ExchangeMoves DEF Exchange, Ends, GoesOn
    <2> QED
      BY <2>1, <2>2
  <1>5. ASSUME NEW q \in Requests, Transition(q)
        PROVE  Fate(r)
    <2>1. CASE q = r
      BY <1>3, <1>5, <2>1, TransitionMoves DEF Transition, Fate, Leaving
    <2>2. CASE q # r
      BY <1>2, <1>5, <2>2, TransitionMoves DEF Transition, Ends, GoesOn
    <2> QED
      BY <2>1, <2>2
  <1>6. ASSUME NEW q \in Requests, Refresh(q) \/ Revoke(q)
        PROVE  Fate(r)
    <2>1. ASSUME NEW t \in Tokens, NEW kind \in Kinds, NEW place \in {"queued", "revoking"},
                 Starts(q, t, kind, place)
          PROVE  Fate(r)
      <3>1. CASE q = r
        BY <2>1, <3>1 DEF Fate
      <3>2. CASE q # r
        BY <1>2, <2>1, <3>2, GrantMoves DEF Places
      <3> QED
        BY <3>1, <3>2
    <2>2. CASE TakeGrant(q)
      <3>1. CASE q = r
        BY <2>2, <3>1 DEF Fate
      <3>2. CASE q # r
        BY <1>2, <2>2, <3>2, GrantMoves
      <3> QED
        BY <3>1, <3>2
    <2>3. CASE NotThere(q) \/ \E asked \in BOOLEAN : RevokeUnlocked(q, asked)
      BY <1>3, <2>3, GrantMoves DEF Leaving
    <2> QED
      BY <1>6, <2>1, <2>2, <2>3 DEF Refresh, Revoke, BeginRefresh, BeginUse, BeginRevoke,
           RevokeLocally, Kinds
  <1> QED
    BY <1>1, <1>4, <1>5, <1>6 DEF Next, vars, BindOwner, LogIn, Rebind, RebindList, RebindLock,
         RebindRead, RebindDelete, RebindCommit, RebindUpstream, RebindDies

-----------------------------------------------------------------------------
(* Locks, and what a request came with.                                    *)

LEMMA IdleAt == Idle.at = "idle" /\ Idle.grant = None
  BY DEF Idle

LEMMA ExclusiveStep ==
    ASSUME GInv, [Next]_vars
    PROVE  Exclusive'
  <1> USE IdleAt DEF Goes, Leaves, Lock, Code, Locking, Issuing, Exclusive
  <1>0. TypeOK /\ Exclusive /\ HostShape
    BY DEF GInv
  <1>k. CASE UNCHANGED <<requests, host>>
    BY <1>k, <1>0
  <1>e. ASSUME NEW r \in Requests, Exchange(r)
        PROVE  Exclusive'
    <2>1. ASSUME NEW c \in Codes, BeginExchange(r, c)
          PROVE  Exclusive'
      <3>1. /\ requests'[r].at = "issue" /\ requests'[r].login = c
            /\ \A q \in Requests \ {r} : requests'[q] = requests[q]
            /\ host' = host
        BY <2>1, <1>0 DEF BeginExchange, BeginExchangeUnlocked, TypeOK, Request, Idle
      <3> QED
        BY <2>1, <3>1, <1>0 DEF BeginExchange, HoldsCode
    <2>2. CASE Verify(r) \/ RefuseExchange(r) \/ MintPair(r)
      <3>1. /\ Ends(r) \/ (requests[r].at = "issue" /\ GoesOn(r, "store"))
            /\ host' = host
        BY <2>2, <1>0, ExchangeMoves DEF Verify, RefuseExchange, MintPair
      <3> QED
        BY <3>1, <1>0 DEF Ends, GoesOn, Only
    <2>3. CASE StoreRecord(r)
      <3>1. /\ requests[r].at = "store" /\ requests'[r].at = "mint"
            /\ requests'[r].login = requests[r].login
            /\ \A q \in Requests \ {r} : requests'[q] = requests[q]
            /\ host'.held = host.held
        BY <2>3, <1>0, ExchangeMoves, StoringMakesLate DEF Only
      <3> QED
        BY <3>1, <1>0
    <2> QED
      BY <1>e, <2>1, <2>2, <2>3 DEF Exchange
  <1>t. ASSUME NEW r \in Requests, Transition(r)
        PROVE  Exclusive'
    BY SMTT(30), <1>t, <1>0 DEF Transition, Answer, AnswerFails, AnswerLost, Admit, Current, Refuse, Put,
         Rotate, TypeOK, Request
  <1>f. ASSUME NEW r \in Requests, Refresh(r) \/ Revoke(r)
        PROVE  Exclusive'
    <2>1. CASE TakeGrant(r)
      <3>1. /\ requests'[r].grant = requests[r].grant /\ requests'[r].at = "asked"
            /\ \A q \in Requests \ {r} : requests'[q] = requests[q]
            /\ host' = host
        BY <2>1, <1>0 DEF TakeGrant, TypeOK, Request
      <3>2. requests[r].grant \notin host.held
            /\ \A q \in Requests : Lock(q) => requests[q].grant # requests[r].grant
        BY <2>1 DEF TakeGrant, Free, HoldsGrant
      <3> QED
        BY <3>1, <3>2, <1>0
    <2>2. ASSUME NEW t \in Tokens, NEW kind, NEW place \in {"queued", "revoking"},
                 Starts(r, t, kind, place)
          PROVE  Exclusive'
      BY <2>2, <1>0 DEF Starts, Idle, TypeOK, Request
    <2>3. CASE requests' = [requests EXCEPT ![r] = Idle] /\ host' = host
      BY <2>3, <1>0 DEF TypeOK
    <2> QED
      BY <1>f, <2>1, <2>2, <2>3
         DEF Refresh, Revoke, BeginRefresh, BeginUse, BeginRevoke, RevokeLocally, NotThere,
             RevokeUnlocked
  <1>h. CASE Rebind
    <2>1. ASSUME NEW g \in GrantIds, RebindLock(g)
          PROVE  Exclusive'
      BY <2>1, <1>0 DEF RebindLock, Free, HoldsGrant, TypeOK, Host
    <2>2. CASE requests' = requests /\ host'.held \subseteq host.held
      BY <2>2, <1>0
    <2>3. CASE RebindList \/ RebindCommit \/ RebindDies
      <3>1. host'.held = {}
        <4>1. ASSUME NEW y, host' = [HostIdle EXCEPT !.at = "locking", !.listed = y]
              PROVE  host'.held = {}
          BY <4>1 DEF HostIdle
        <4>2. CASE RebindList
          BY <4>1, <4>2 DEF RebindList
        <4>3. CASE RebindCommit
          BY <1>0, <4>3, RebindMoves
        <4>4. CASE RebindDies
          BY <4>4 DEF RebindDies, HostIdle
        <4> QED
          BY <2>3, <4>2, <4>3, <4>4
      <3> QED
        BY <2>3, <3>1, <2>2 DEF RebindList, RebindCommit, RebindDies
    <2>4. CASE RebindRead \/ RebindDelete
      BY <2>4, <2>2, <1>0, RebindMoves DEF RebindRead, RebindDelete
    <2>5. CASE \E asked \in SUBSET HandedOver : RebindUpstream(asked)
      BY <2>5, <2>2, <1>0 DEF RebindUpstream, HostIdle
    <2> QED
      BY <1>h, <2>1, <2>3, <2>4, <2>5 DEF Rebind
  <1>c. CASE Crash
    BY <1>c, <1>0 DEF Crash
  <1> QED
    BY <1>k, <1>e, <1>t, <1>f, <1>h, <1>c DEF Next, BindOwner, LogIn, vars

\* A pair once issued keeps its grant and its identity; only its mappings go.
Same(p, q) == q # None /\ q.grant = p.grant /\ q.who = p.who

LEMMA PairsStay ==
    ASSUME GInv, [Next]_vars, NEW t \in Tokens, pairs[t] # None
    PROVE  Same(pairs[t], pairs'[t])
  <1> USE DEF Same
  <1>0. TypeOK /\ pairs[t] \in Pair
    BY DEF GInv, TypeOK
  <1>1. ASSUME NEW p \in Pair, NEW x \in BOOLEAN, NEW y \in BOOLEAN
        PROVE  /\ Same(p, [p EXCEPT !.access = x])
               /\ Same(p, [p EXCEPT !.refresh = x])
               /\ Same(p, [p EXCEPT !.access = x, !.refresh = y])
    <2>1. /\ [p EXCEPT !.access = x] \in Pair
          /\ [p EXCEPT !.refresh = x] \in Pair
          /\ [p EXCEPT !.access = x, !.refresh = y] \in Pair
      BY DEF Pair
    <2> QED
      BY <2>1, NoneIsNothing DEF Pair
  <1>2. Same(pairs[t], pairs[t])
    OBVIOUS
  <1> HIDE DEF Same
  <1>3. ASSUME NEW r \in Requests, MintPair(r) \/ Rotate(r)
        PROVE  NewToken # t
    <2>1. r \in Minting
      BY <1>3 DEF MintPair, Rotate, Minting
    <2> QED
      BY <2>1, NewTokenIsThere DEF GInv
  <1>4. CASE pairs' = pairs
    BY <1>2, <1>4
  <1>5. ASSUME NEW r \in Requests, MintPair(r)
        PROVE  Same(pairs[t], pairs'[t])
    BY <1>2, <1>3, <1>5, <1>0 DEF MintPair, TypeOK
  <1>6. ASSUME NEW r \in Requests, Rotate(r)
        PROVE  Same(pairs[t], pairs'[t])
    BY <1>1, <1>2, <1>3, <1>6, <1>0 DEF Rotate, TypeOK
  <1>7. ASSUME NEW r \in Requests, Refuse(r) \/ \E asked \in BOOLEAN : RevokeUnlocked(r, asked)
        PROVE  Same(pairs[t], pairs'[t])
    BY ZenonT(60), <1>1, <1>2, <1>7, <1>0 DEF Refuse, RevokeUnlocked, TypeOK
  <1>8. CASE RebindCommit
    BY <1>1, <1>2, <1>8, <1>0 DEF RebindCommit, TypeOK
  <1> QED
    BY ZenonT(60), <1>4, <1>5, <1>6, <1>7, <1>8
       DEF Next, vars, store, BindOwner, LogIn, Exchange, BeginExchange, BeginExchangeUnlocked, Verify,
           RefuseExchange, StoreRecord, Refresh, BeginRefresh, BeginUse, BeginRevoke, Starts,
           NotThere, TakeGrant, Transition, Answer, AnswerFails, AnswerLost, Admit, Put, Revoke,
           RevokeLocally, Rebind, RebindList, RebindLock, RebindRead, RebindDelete, RebindDies,
           RebindUpstream, Crash

\* A record goes when its grant ends.
LEMMA RecordsGo ==
    ASSUME GInv, [Next]_vars, NEW g \in GrantIds, records[g] # None, ~RebindCommit
    PROVE  records'[g] # None \/ g \in ended'
  <1> DEFINE Goal == records'[g] # None \/ g \in ended'
  <1>0. TypeOK /\ records[g] \in Record
    BY DEF GInv, TypeOK
  <1>t. TypeOK'
    BY TypeStep
  <1>1. ASSUME records' = records
        PROVE  Goal
    BY <1>1
  <1>2. ASSUME NEW r \in Requests, StoreRecord(r)
        PROVE  Goal
    <2>1. NewGrant # g
      BY <1>2, NewGrantIsFresh DEF StoreRecord, Fresh
    <2> QED
      BY <1>0, <1>2, <2>1 DEF StoreRecord, TypeOK
  <1>3. ASSUME NEW r \in Requests, Put(r)
        PROVE  Goal
    <2>1. requests[r].grant = g => records'[g].rt = requests[r].rt /\ records'[g] # None
      <3> DEFINE new == [owner |-> Binding(requests[r]), login |-> requests[r].login,
                         rt |-> requests[r].rt]
      <3>1. /\ Began(r) /\ Lock(r) /\ requests[r].login \in Codes /\ requests[r].rt \in 0..MaxRotation
            /\ Binding(requests[r]) = pairs[requests[r].pair].who
            /\ pairs[requests[r].pair] \in Pair
        BY <1>0, <1>3 DEF Put, Began, Lock, Locking, GInv, OneName, Presented, TypeOK, Request
      <3>2. new \in Record
        BY <3>1 DEF Record, Pair
      <3> HIDE DEF new
      <3>3. requests[r].grant = g => records'[g] = new
        BY <1>0, <1>3 DEF Put, TypeOK, new
      <3> QED
        BY <3>2, <3>3, NoneIsNothing DEF new
    <2>2. requests[r].grant # g => records'[g] = records[g]
      BY <1>0, <1>3 DEF Put, TypeOK
    <2> QED
      BY <2>1, <2>2
  <1>4. ASSUME NEW r \in Requests, Refuse(r) \/ \E asked \in BOOLEAN : RevokeUnlocked(r, asked)
        PROVE  Goal
    BY <1>0, <1>4 DEF Refuse, RevokeUnlocked, TypeOK
  <1> HIDE DEF Goal
  <1>5. Goal
    <2>1. ASSUME NEW r \in Requests, Exchange(r)
          PROVE  Goal
      BY <1>1, <1>2, <2>1 DEF Exchange, BeginExchange, BeginExchangeUnlocked, Verify, RefuseExchange,
           MintPair, store
    <2>2. ASSUME NEW r \in Requests, Transition(r)
          PROVE  Goal
      BY <1>1, <1>3, <1>4, <2>2 DEF Transition, Answer, AnswerFails, AnswerLost, Admit, Rotate, store
    <2>3. ASSUME NEW r \in Requests, Refresh(r) \/ Revoke(r)
          PROVE  Goal
      BY <1>1, <1>4, <2>3 DEF Refresh, BeginRefresh, BeginUse, BeginRevoke, Starts, NotThere,
           TakeGrant, Revoke, RevokeLocally, store
    <2>4. ASSUME Rebind
          PROVE  Goal
      BY <1>1, <2>4 DEF Rebind, RebindList, RebindLock, RebindRead, RebindDelete, RebindDies, RebindUpstream,
           store
    <2> QED
      BY <1>1, <2>1, <2>2, <2>3, <2>4 DEF Next, vars, store, BindOwner, LogIn, Crash
  <1> QED
    BY <1>5 DEF Goal

LEMMA EndedStays ==
    ASSUME [Next]_vars
    PROVE  ended \subseteq ended'
  BY ZenonT(60) DEF Next, vars, store, BindOwner, LogIn, Exchange, BeginExchange, BeginExchangeUnlocked, Verify,
     RefuseExchange, StoreRecord, MintPair, Refresh, BeginRefresh, BeginUse, BeginRevoke, Starts,
     NotThere, TakeGrant, Transition, Answer, AnswerFails, AnswerLost, Admit, Refuse, Put,
     Rotate, Revoke, RevokeLocally, RevokeUnlocked, Rebind, RebindList, RebindLock, RebindRead, RebindDelete,
     RebindCommit, RebindDies, RebindUpstream, Crash

LEMMA HostShapeStep ==
    ASSUME GInv, [Next]_vars
    PROVE  HostShape'
  <1>0. TypeOK /\ HostShape
    BY DEF GInv
  <1>1. \A t \in Tokens : pairs[t] # None => pairs'[t] # None
    BY PairsStay DEF Same
  <1>2. host.pairs \subseteq Tokens /\ host.listed \subseteq GrantIds
    BY <1>0 DEF TypeOK, Host
  <1>r. ASSUME ~RebindCommit
        PROVE  /\ \A g \in host.listed : records'[g] # None \/ g \in ended'
               /\ host.at = "deleted" => host.listed \subseteq host.records \cup ended'
    BY <1>0, <1>2, <1>r, RecordsGo, EndedStays DEF HostShape
  <1>3. CASE host' = host /\ ~RebindCommit
    BY <1>0, <1>1, <1>2, <1>3, <1>r DEF HostShape
  <1>5. CASE RebindList
    <2> DEFINE there == {g \in GrantIds : records[g] # None}
    <2>1. host' = [HostIdle EXCEPT !.at = "locking", !.listed = there] /\ records' = records
      BY <1>5 DEF RebindList, store
    <2>2. \A g \in there : records[g] # None
      OBVIOUS
    <2> HIDE DEF there
    <2> QED
      BY <2>1, <2>2 DEF HostShape, HostIdle
  <1>6. ASSUME NEW g \in GrantIds, RebindLock(g)
        PROVE  HostShape'
    <2>1. /\ host'.at = host.at /\ host'.held = host.held \cup {g} /\ host'.listed = host.listed
          /\ host'.pairs = host.pairs /\ host'.records = host.records
          /\ host'.pending = host.pending /\ host'.credentials = host.credentials
          /\ host.at = "locking" /\ g \in host.listed
          /\ records' = records /\ pairs' = pairs /\ ended' = ended
      BY <1>0, <1>6 DEF RebindLock, TypeOK, Host, store
    <2> QED
      BY <1>0, <2>1 DEF HostShape
  <1>7. CASE RebindRead
    <2>1. /\ host.at = "locking" /\ host.held = host.listed
          /\ pairs' = pairs /\ records' = records /\ ended' = ended
      BY <1>7 DEF RebindRead, store
    <2> QED
      BY <1>0, <1>2, <1>7, <2>1, RebindMoves DEF HostShape
  <1>11. CASE RebindDelete
    <2>1. host.at = "read" /\ pairs' = pairs /\ records' = records /\ ended' = ended
      BY <1>11 DEF RebindDelete, store
    <2> QED
      BY <1>0, <1>2, <1>11, <2>1, RebindMoves DEF HostShape
  <1>8. CASE RebindCommit
    BY <1>0, <1>8, RebindMoves DEF HostShape
  <1>9. CASE RebindDies \/ \E asked \in SUBSET HandedOver : RebindUpstream(asked)
    <2>1. host' = HostIdle
      BY <1>9 DEF RebindDies, RebindUpstream
    <2> QED
      BY <2>1 DEF HostIdle, HostShape
  <1>12. ASSUME NEW r \in Requests, StoreRecord(r)
         PROVE  HostShape'
    <2>1. ~RebindCommit
      BY <1>0, <1>12, ExchangeMoves, IdleAt DEF RebindCommit, StoreRecord, Only
    <2> QED
      BY <1>0, <1>1, <1>2, <1>12, <2>1, <1>r, StoringMakesLate DEF HostShape
  <1>10. ASSUME NEW r \in Requests, Exchange(r) \/ Refresh(r) \/ Revoke(r) \/ Transition(r),
                ~StoreRecord(r)
         PROVE  host' = host
    BY <1>10
       DEF Exchange, BeginExchange, BeginExchangeUnlocked, Verify,
           RefuseExchange, MintPair, Refresh, BeginRefresh, BeginUse, BeginRevoke, Starts,
           NotThere, TakeGrant, Transition, Answer, AnswerFails, AnswerLost, Admit, Refuse, Put,
           Rotate, Revoke, RevokeLocally, RevokeUnlocked, vars
  <1> QED
    BY <1>3, <1>5, <1>6, <1>7, <1>8, <1>9, <1>10, <1>11, <1>12
       DEF Next, vars, BindOwner, LogIn, Rebind, Crash

\* A request names what it came with to the end.
LEMMA PresentedStep ==
    ASSUME GInv, [Next]_vars
    PROVE  Presented'
  <1>0. TypeOK /\ Presented
    BY DEF GInv
  <1>1. \A t \in Tokens : pairs[t] # None => pairs'[t] # None /\ pairs'[t].grant = pairs[t].grant
    BY PairsStay DEF Same
  <1>2. ASSUME NEW r \in Requests, Began(r)'
        PROVE  \/ Began(r) /\ requests'[r].pair = requests[r].pair /\ requests'[r].grant = requests[r].grant
               \/ \E t \in Tokens : pairs[t] # None /\ requests'[r].pair = t
                                        /\ requests'[r].grant = pairs[t].grant
    BY <1>0, <1>2, IdleAt, Fates, ExchangeMoves, GrantMoves, TransitionMoves
       DEF Fate, Began, Locking, Places, Only, GoesOn
  <1> QED
    BY <1>0, <1>1, <1>2 DEF Presented

-----------------------------------------------------------------------------
(* Where records and pairs come from.                                      *)

LEMMA RecordsWritten ==
    ASSUME GInv, [Next]_vars, NEW g \in GrantIds, records'[g] # None
    PROVE  \/ records'[g] = records[g]
           \/ \E r \in Requests :
                 /\ StoreRecord(r) /\ g = NewGrant
                 /\ records'[g] = [owner |-> account[requests[r].login],
                                   login |-> requests[r].login, rt |-> 0]
           \/ \E r \in Requests :
                 /\ Put(r) /\ g = requests[r].grant
                 /\ records'[g] = [owner |-> Binding(requests[r]),
                                   login |-> requests[r].login, rt |-> requests[r].rt]
  <1> DEFINE Written ==
           \/ records'[g] = records[g]
           \/ \E r \in Requests :
                 /\ StoreRecord(r) /\ g = NewGrant
                 /\ records'[g] = [owner |-> account[requests[r].login],
                                   login |-> requests[r].login, rt |-> 0]
           \/ \E r \in Requests :
                 /\ Put(r) /\ g = requests[r].grant
                 /\ records'[g] = [owner |-> Binding(requests[r]),
                                   login |-> requests[r].login, rt |-> requests[r].rt]
  <1>0. TypeOK
    BY DEF GInv
  <1>1. ASSUME records' = records
        PROVE  Written
    BY <1>1
  <1>2. ASSUME NEW r \in Requests, StoreRecord(r)
        PROVE  Written
    BY <1>0, <1>2 DEF StoreRecord, TypeOK
  <1>3. ASSUME NEW r \in Requests, Put(r)
        PROVE  Written
    BY <1>0, <1>3 DEF Put, TypeOK
  <1>4. ASSUME NEW r \in Requests, Refuse(r) \/ \E asked \in BOOLEAN : RevokeUnlocked(r, asked)
        PROVE  Written
    BY <1>0, <1>4 DEF Refuse, RevokeUnlocked, TypeOK
  <1>5. ASSUME RebindCommit
        PROVE  Written
    BY <1>0, <1>5 DEF RebindCommit, TypeOK
  <1> HIDE DEF Written
  <1>6. Written
    <2>1. ASSUME NEW r \in Requests, Exchange(r)
          PROVE  Written
      BY <1>1, <1>2, <2>1 DEF Exchange, BeginExchange, BeginExchangeUnlocked, Verify, RefuseExchange,
           MintPair, store
    <2>2. ASSUME NEW r \in Requests, Transition(r)
          PROVE  Written
      BY SMTT(30), <1>1, <1>3, <1>4, <2>2 DEF Transition, Answer, AnswerFails, AnswerLost, Admit, Rotate, store
    <2>3. ASSUME NEW r \in Requests, Refresh(r) \/ Revoke(r)
          PROVE  Written
      BY <1>1, <1>4, <2>3 DEF Refresh, BeginRefresh, BeginUse, BeginRevoke, Starts, NotThere,
           TakeGrant, Revoke, RevokeLocally, store
    <2>4. ASSUME Rebind
          PROVE  Written
      BY <1>1, <1>5, <2>4 DEF Rebind, RebindList, RebindLock, RebindRead, RebindDelete, RebindDies, RebindUpstream,
           store
    <2> QED
      BY <1>1, <2>1, <2>2, <2>3, <2>4 DEF Next, vars, store, BindOwner, LogIn, Crash
  <1> QED
    BY <1>6 DEF Written

LEMMA LoginsWritten ==
    ASSUME GInv, [Next]_vars, NEW g \in GrantIds, records'[g] # None
    PROVE  \/ records'[g] = records[g]
           \/ \E r \in Requests :
                 /\ StoreRecord(r) /\ g = NewGrant
                 /\ records'[g].login = requests[r].login /\ records'[g].rt = 0
           \/ \E r \in Requests :
                 /\ Put(r) /\ g = requests[r].grant
                 /\ records'[g].login = requests[r].login /\ records'[g].rt = requests[r].rt
  <1>1. ASSUME NEW r \in Requests,
               records'[g] = [owner |-> account[requests[r].login],
                              login |-> requests[r].login, rt |-> 0]
        PROVE  records'[g].login = requests[r].login /\ records'[g].rt = 0
    BY <1>1
  <1>2. ASSUME NEW r \in Requests,
               records'[g] = [owner |-> Binding(requests[r]),
                              login |-> requests[r].login, rt |-> requests[r].rt]
        PROVE  records'[g].login = requests[r].login /\ records'[g].rt = requests[r].rt
    BY <1>2
  <1> QED
    BY <1>1, <1>2, RecordsWritten

LEMMA PairsMinted ==
    ASSUME GInv, [Next]_vars, NEW t \in Tokens, pairs'[t] # None
    PROVE  \/ pairs[t] # None /\ Same(pairs[t], pairs'[t])
           \/ \E r \in Requests :
                 /\ MintPair(r) /\ t = NewToken
                 /\ pairs'[t].grant = requests[r].grant
                 /\ pairs'[t].who = account[requests[r].login]
           \/ \E r \in Requests :
                 /\ Rotate(r) /\ t = NewToken
                 /\ pairs'[t].grant = requests[r].grant
                 /\ pairs'[t].who = Binding(requests[r])
  <1>1. CASE pairs[t] # None
    BY <1>1, PairsStay
  <1>2. CASE pairs[t] = None
    <2> DEFINE MintedNow ==
           \/ \E r \in Requests :
                 /\ MintPair(r) /\ t = NewToken
                 /\ pairs'[t].grant = requests[r].grant
                 /\ pairs'[t].who = account[requests[r].login]
           \/ \E r \in Requests :
                 /\ Rotate(r) /\ t = NewToken
                 /\ pairs'[t].grant = requests[r].grant
                 /\ pairs'[t].who = Binding(requests[r])
    <2>0. TypeOK /\ HostShape /\ Presented
      BY DEF GInv
    <2>1. ASSUME NEW r \in Requests, MintPair(r)
          PROVE  MintedNow
      BY <1>2, <2>0, <2>1 DEF MintPair, TypeOK
    <2>2. ASSUME NEW r \in Requests, Began(r)
          PROVE  requests[r].pair # t
      BY <1>2, <2>0, <2>2 DEF Presented
    <2>3. ASSUME NEW r \in Requests, Rotate(r)
          PROVE  MintedNow
      BY <1>2, <2>0, <2>2, <2>3 DEF Rotate, TypeOK, Began, Locking
    <2>4. ASSUME NEW r \in Requests, Refuse(r) \/ \E asked \in BOOLEAN : RevokeUnlocked(r, asked)
          PROVE  pairs'[t] = pairs[t]
      BY <2>0, <2>2, <2>4 DEF Refuse, Current, RevokeUnlocked, TypeOK, Began, Locking
    <2>5. CASE RebindCommit
      BY <1>2, <2>0, <2>5 DEF RebindCommit, TypeOK, HostShape
    <2> HIDE DEF MintedNow
    <2>6. MintedNow
      BY ZenonT(60), <1>2, <2>1, <2>3, <2>4, <2>5
         DEF Next, vars, store, BindOwner, LogIn, Exchange, BeginExchange, BeginExchangeUnlocked,
             Verify, RefuseExchange, StoreRecord, Refresh, BeginRefresh, BeginUse, BeginRevoke, Starts,
             NotThere, TakeGrant, Transition, Answer, AnswerFails, AnswerLost, Admit, Put, Revoke,
             RevokeLocally, Rebind, RebindList, RebindLock, RebindRead, RebindDelete, RebindDies,
             RebindUpstream, Crash
    <2> QED
      BY <2>6 DEF MintedNow
  <1> QED
    BY <1>1, <1>2

LEMMA AloneStep ==
    ASSUME GInv, [Next]_vars
    PROVE  Alone'
  <1>0. TypeOK /\ Alone /\ Presented
    BY DEF GInv
  <1> USE IdleAt
  <1>1. ASSUME NEW q \in Requests
        PROVE  \/ requests'[q].grant = requests[q].grant
               \/ requests'[q].grant = None /\ requests'[q].at # "mint"
               \/ StoreRecord(q) /\ requests'[q].grant = NewGrant
               \/ \E t \in Tokens : pairs[t] # None /\ requests'[q].grant = pairs[t].grant
                                    /\ requests'[q].at # "mint"
    BY <1>0, Fates, ExchangeMoves, GrantMoves, TransitionMoves DEF Fate, Places, GoesOn
  <1>2. ASSUME NEW r \in Requests, requests'[r].at = "mint"
        PROVE  \/ requests[r].at = "mint" /\ requests'[r] = requests[r]
               \/ StoreRecord(r)
    BY <1>0, <1>2, Fates, ExchangeMoves, GrantMoves, TransitionMoves DEF Fate, Places, GoesOn
  <1>3. ASSUME NEW r \in Requests, requests[r].at = "mint", requests'[r] = requests[r]
        PROVE  /\ requests[r].grant \in GrantIds
               /\ \A t \in Tokens : pairs'[t] # None => pairs'[t].grant # requests[r].grant
               /\ \A q \in Requests : requests'[q].grant = requests[r].grant => q = r
               /\ records'[requests[r].grant] # None =>
                     records'[requests[r].grant].login = requests[r].login
    <2> DEFINE g == requests[r].grant
    <2>1. g \in GrantIds
      BY <1>0, <1>3 DEF Alone
    <2>2. ASSUME NEW q \in Requests, q # r
          PROVE  requests[q].grant # g
      BY <1>0, <1>3, <2>2 DEF Alone
    <2>3. \A q \in Requests : ~MintPair(q) \/ q # r
      BY <1>0, <1>3, ExchangeMoves DEF Ends
    <2>4. \A q \in Requests : ~Rotate(q) \/ q # r
      BY <1>3 DEF Rotate
    <2>5. ASSUME NEW t \in Tokens, pairs'[t] # None
          PROVE  pairs'[t].grant # g
      BY <1>0, <1>3, <2>2, <2>3, <2>4, <2>5, PairsMinted DEF Alone, Same
    <2>6. \A q \in Requests : StoreRecord(q) => NewGrant # g
      BY <1>3, NewGrantIsFresh DEF StoreRecord, Fresh
    <2>7. ASSUME NEW q \in Requests, requests'[q].grant = g
          PROVE  q = r
      BY <1>0, <1>1, <1>3, <2>1, <2>2, <2>6, <2>7, NoneIsNothing DEF Alone
    <2>8. ASSUME records'[g] # None
          PROVE  records'[g].login = requests[r].login
      <3>1. \A q \in Requests : Put(q) => q # r
        BY <1>3 DEF Put
      <3>2. records'[g] = records[g]
        BY <2>1, <2>2, <2>6, <2>8, <3>1, RecordsWritten
      <3> QED
        BY <1>0, <1>3, <2>8, <3>2 DEF Alone
    <2> QED
      BY <2>1, <2>5, <2>7, <2>8
  <1>4. ASSUME NEW r \in Requests, StoreRecord(r)
        PROVE  /\ NewGrant \in GrantIds
               /\ \A t \in Tokens : pairs'[t] # None => pairs'[t].grant # NewGrant
               /\ \A q \in Requests : requests'[q].grant = NewGrant => q = r
               /\ records'[NewGrant].login = requests'[r].login
               /\ requests'[r].grant = NewGrant
    <2>1. NewGrant \in GrantIds /\ Fresh(NewGrant)
      BY <1>4, NewGrantIsFresh DEF StoreRecord
    <2>2. Only(r) /\ requests'[r].grant = NewGrant /\ requests'[r].login = requests[r].login
      BY <1>0, <1>4, ExchangeMoves
    <2>3. pairs' = pairs
      BY <1>4 DEF StoreRecord
    <2>4. records'[NewGrant].login = requests[r].login
      BY <1>0, <1>4, <2>1 DEF StoreRecord, TypeOK
    <2> QED
      BY <2>1, <2>2, <2>3, <2>4 DEF Fresh, Only
  <1> QED
    BY <1>2, <1>3, <1>4 DEF Alone

-----------------------------------------------------------------------------
(* One name.                                                               *)

\* Who logged in stays known, and a code that is gone does not come back.
LoginStays(c) ==
    /\ codes'[c] # "new" /\ account'[c] = account[c]
    /\ codes[c] = "gone" => codes'[c] = "gone"

LEMMA LoginsStay ==
    ASSUME GInv, [Next]_vars, NEW c \in Codes, codes[c] # "new"
    PROVE  LoginStays(c)
  <1>0. TypeOK
    BY DEF GInv
  <1>1. CASE codes' = codes /\ account' = account
    BY <1>1 DEF LoginStays
  <1>2. ASSUME NEW d \in Codes, NEW who, LogIn(d, who)
        PROVE  LoginStays(c)
    BY <1>0, <1>2 DEF LoginStays, LogIn, TypeOK
  <1>3. ASSUME NEW d, Spends(d), account' = account
        PROVE  LoginStays(c)
    BY <1>0, <1>3 DEF LoginStays, Spends, TypeOK
  <1>4. CASE RebindCommit
    BY <1>0, <1>4 DEF LoginStays, RebindCommit, TypeOK, provider
  <1>5. ASSUME NEW r \in Requests, Exchange(r)
        PROVE  LoginStays(c)
    BY <1>1, <1>3, <1>5 DEF Exchange, BeginExchange, BeginExchangeUnlocked, Verify, RefuseExchange,
         StoreRecord, MintPair, store, provider
  <1>6. ASSUME NEW r \in Requests, Transition(r)
        PROVE  LoginStays(c)
    BY SMTT(30), <1>1, <1>6 DEF Transition, Answer, AnswerFails, AnswerLost, Admit, Refuse, Put, Rotate, store, provider
  <1>7. ASSUME NEW r \in Requests, Refresh(r) \/ Revoke(r)
        PROVE  LoginStays(c)
    BY <1>1, <1>7 DEF Refresh, BeginRefresh, BeginUse, BeginRevoke, Starts, NotThere,
         TakeGrant, Revoke, RevokeLocally, RevokeUnlocked, store, provider
  <1>8. CASE Rebind
    BY <1>1, <1>4, <1>8 DEF Rebind, RebindList, RebindLock, RebindRead, RebindDelete, RebindDies, RebindUpstream,
         store, provider
  <1> QED
    BY <1>1, <1>2, <1>5, <1>6, <1>7, <1>8 DEF Next, vars, store, provider, BindOwner, Crash

\* A request's login is one that took place.
LEMMA NamesLogins ==
    ASSUME GInv, [Next]_vars, NEW r \in Requests, Code(r)' \/ Lock(r)'
    PROVE  /\ requests'[r].login \in Codes
           /\ codes[requests'[r].login] # "new"
           /\ requests'[r].at \in {"store", "mint"} => account[requests'[r].login] # None
  <1>0. TypeOK /\ OneName /\ Presented
    BY DEF GInv
  <1> USE DEF Code, Lock, Issuing, Locking
  <1>1. CASE requests'[r] = requests[r]
    BY <1>0, <1>1 DEF OneName
  <1>2. CASE \E c \in Codes : BeginExchange(r, c)
    BY <1>0, <1>2, ExchangeMoves DEF BeginExchange, BeginExchangeUnlocked
  <1>3. CASE Verify(r) \/ StoreRecord(r)
    BY <1>0, <1>3, ExchangeMoves DEF GoesOn, OneName, Verify
  <1>4. CASE TakeGrant(r)
    <2>1. records[requests[r].grant] \in Record /\ requests[r].grant \in GrantIds
      BY <1>0, <1>4 DEF TakeGrant, Presented, Began, TypeOK, Pair
    <2> QED
      BY <1>0, <1>4, <2>1, GrantMoves, NoneIsNothing DEF OneName, Record
  <1>5. CASE \E says \in Says : Answer(r, says)
    BY <1>0, <1>5, TransitionMoves DEF OneName
  <1>6. CASE Admit(r) \/ (Put(r) /\ GoesOn(r, "stored"))
    BY <1>0, <1>6, TransitionMoves DEF OneName, GoesOn
  <1> QED
    <2>1. requests'[r] # Idle
      BY IdleAt
    <2>2. ~ \E t \in Tokens, kind \in Kinds, place \in {"queued", "revoking"} :
             Starts(r, t, kind, place)
      BY <1>0, GrantMoves DEF Places
    <2>3. Fate(r)
      BY <1>0, Fates
    <2> QED
      BY <1>1, <1>2, <1>3, <1>4, <1>5, <1>6, <2>1, <2>2, <2>3 DEF Fate

LEMMA OneNameStep ==
    ASSUME GInv, [Next]_vars
    PROVE  OneName'
  <1>0. TypeOK /\ OneName /\ Presented /\ Alone /\ Exclusive
    BY DEF GInv
  <1>t. TypeOK' /\ Presented'
    BY TypeStep, PresentedStep
  <1>1. ASSUME NEW r \in Requests, Code(r)' \/ Lock(r)'
        PROVE  /\ requests'[r].login \in Codes
               /\ codes'[requests'[r].login] # "new"
               /\ account'[requests'[r].login] = account[requests'[r].login]
               /\ requests'[r].at \in {"store", "mint"} => account'[requests'[r].login] # None
    BY <1>1, NamesLogins, LoginsStay DEF LoginStays
  \* The records, by who has written them.
  <1>2. ASSUME NEW g \in GrantIds, records'[g] # None
        PROVE  /\ codes'[records'[g].login] # "new"
               /\ records'[g].owner = account'[records'[g].login]
               /\ \A t \in Tokens : pairs[t] # None /\ pairs[t].grant = g =>
                     pairs[t].who = records'[g].owner
    <2>1. ASSUME records'[g] = records[g]
          PROVE  /\ records[g].login \in Codes
                 /\ codes[records'[g].login] # "new"
                 /\ records'[g].owner = account[records'[g].login]
                 /\ \A t \in Tokens : pairs[t] # None /\ pairs[t].grant = g =>
                       pairs[t].who = records'[g].owner
      BY <1>0, <1>2, <2>1 DEF OneName, TypeOK, Record
    <2>2. ASSUME NEW r \in Requests, StoreRecord(r), g = NewGrant,
                 records'[g] = [owner |-> account[requests[r].login],
                                login |-> requests[r].login, rt |-> 0]
          PROVE  /\ records'[g].login \in Codes
                 /\ codes[records'[g].login] # "new"
                 /\ records'[g].owner = account[records'[g].login]
                 /\ \A t \in Tokens : pairs[t] # None => pairs[t].grant # g
      BY <1>0, <2>2, NewGrantIsFresh DEF StoreRecord, Fresh, OneName, Code, Issuing
    <2>3. ASSUME NEW r \in Requests, Put(r), g = requests[r].grant,
                 records'[g] = [owner |-> Binding(requests[r]),
                                login |-> requests[r].login, rt |-> requests[r].rt]
          PROVE  /\ records'[g].login \in Codes
                 /\ codes[records'[g].login] # "new"
                 /\ records'[g].owner = account[records'[g].login]
                 /\ \A t \in Tokens : pairs[t] # None /\ pairs[t].grant = g =>
                       pairs[t].who = records'[g].owner
      <3>1. Lock(r) /\ Began(r) /\ requests[r].at = "admitted"
        BY <2>3 DEF Put, Lock, Locking, Began
      <3>2. records'[g].owner = pairs[requests[r].pair].who
        BY <1>0, <2>3, <3>1 DEF OneName
      <3> QED
        BY <1>0, <2>3, <3>1, <3>2 DEF OneName, Presented
    <2>4. records'[g].login \in Codes
      BY <1>2, <1>t DEF TypeOK, Record
    <2> QED
      BY <1>2, <2>1, <2>2, <2>3, <2>4, RecordsWritten, LoginsStay DEF LoginStays
  \* The pairs, by who has minted them.
  <1>3. ASSUME NEW t \in Tokens, pairs[t] = None, pairs'[t] # None
        PROVE  /\ \A s \in Tokens : pairs[s] # None /\ pairs[s].grant = pairs'[t].grant =>
                     pairs[s].who = pairs'[t].who
               /\ \A g \in GrantIds : records'[g] # None /\ pairs'[t].grant = g =>
                     pairs'[t].who = records'[g].owner
    <2>1. ASSUME NEW r \in Requests, MintPair(r), pairs'[t].grant = requests[r].grant,
                 pairs'[t].who = account[requests[r].login]
          PROVE  /\ \A s \in Tokens : pairs[s] # None => pairs[s].grant # pairs'[t].grant
                 /\ \A g \in GrantIds : records'[g] # None /\ pairs'[t].grant = g =>
                       pairs'[t].who = records'[g].owner
      <3>1. requests[r].at = "mint" /\ records' = records
        BY <2>1 DEF MintPair
      <3> QED
        BY <1>0, <2>1, <3>1 DEF Alone, OneName
    <2>2. ASSUME NEW r \in Requests, Rotate(r), pairs'[t].grant = requests[r].grant,
                 pairs'[t].who = Binding(requests[r])
          PROVE  /\ \A s \in Tokens : pairs[s] # None /\ pairs[s].grant = pairs'[t].grant =>
                       pairs[s].who = pairs'[t].who
                 /\ \A g \in GrantIds : records'[g] # None /\ pairs'[t].grant = g =>
                       pairs'[t].who = records'[g].owner
      <3>1. requests[r].at = "stored" /\ records' = records /\ Began(r)
        BY <2>2 DEF Rotate, Began, Locking
      <3>2. pairs'[t].who = pairs[requests[r].pair].who
        BY <1>0, <2>2, <3>1 DEF OneName
      <3> QED
        BY <1>0, <2>2, <3>1, <3>2 DEF OneName, Presented
    <2> QED
      BY <1>3, <2>1, <2>2, PairsMinted
  <1>4. ASSUME NEW s \in Tokens, pairs[s] # None
        PROVE  Same(pairs[s], pairs'[s])
    BY <1>4, PairsStay
  <1>5. ASSUME NEW g \in GrantIds, NEW t \in Tokens,
               records'[g] # None, pairs'[t] # None, pairs'[t].grant = g
        PROVE  pairs'[t].who = records'[g].owner
    BY <1>2, <1>3, <1>4, <1>5 DEF Same
  <1>6. ASSUME NEW s \in Tokens, NEW t \in Tokens,
               pairs'[s] # None, pairs'[t] # None, pairs'[s].grant = pairs'[t].grant
        PROVE  pairs'[s].who = pairs'[t].who
    <2>1. pairs[s] = None /\ pairs[t] = None => s = t
      BY <1>6, PairsMinted
    <2>2. pairs[s] # None /\ pairs[t] # None => pairs[s].who = pairs[t].who
      BY <1>0, <1>4, <1>6 DEF OneName, Same
    <2> QED
      BY <1>3, <1>4, <1>6, <2>1, <2>2 DEF Same
  \* The requests.
  <1>7. ASSUME NEW r \in Requests, Lock(r)'
        PROVE  /\ account'[requests'[r].login] = pairs'[requests'[r].pair].who
               /\ records'[requests'[r].grant] # None =>
                     records'[requests'[r].grant].login = requests'[r].login
    <2> USE DEF Lock, Locking, Began
    <2>1. CASE Lock(r) /\ requests'[r].login = requests[r].login
                       /\ requests'[r].pair = requests[r].pair
                       /\ requests'[r].grant = requests[r].grant
      <3>1. account[requests[r].login] = pairs[requests[r].pair].who
        BY <1>0, <2>1 DEF OneName
      <3>2. Same(pairs[requests[r].pair], pairs'[requests[r].pair])
        BY <1>0, <1>4, <2>1 DEF Presented
      <3>3. ASSUME records'[requests[r].grant] # None
            PROVE  records'[requests[r].grant].login = requests[r].login
        <4>1. requests[r].grant \in GrantIds
          BY <1>0, <2>1 DEF Presented, TypeOK, Pair
        <4>2. \A q \in Requests : StoreRecord(q) => NewGrant # requests[r].grant
          BY NewGrantIsFresh DEF StoreRecord, Fresh
        <4>3. \A q \in Requests : Put(q) /\ requests[q].grant = requests[r].grant => q = r
          BY <1>0, <2>1 DEF Put, Exclusive
        <4>4. records[requests[r].grant] # None =>
                 records[requests[r].grant].login = requests[r].login
          BY <1>0, <2>1 DEF OneName
        <4> HIDE DEF Lock, Locking
        <4> QED
          BY <3>3, <4>1, <4>2, <4>3, <4>4, LoginsWritten
      <3> QED
        BY <1>1, <1>7, <2>1, <3>1, <3>2, <3>3 DEF Same
    <2>2. CASE TakeGrant(r)
      <3>1. /\ requests[r].pair \in Tokens /\ pairs[requests[r].pair] # None
            /\ requests[r].grant = pairs[requests[r].pair].grant
            /\ requests[r].grant \in GrantIds /\ records[requests[r].grant] # None
        BY <1>0, <2>2 DEF TakeGrant, Presented, TypeOK, Pair
      <3>2. account[records[requests[r].grant].login] = pairs[requests[r].pair].who
        BY <1>0, <3>1 DEF OneName
      <3>3. /\ requests'[r].login = records[requests[r].grant].login
            /\ requests'[r].pair = requests[r].pair
        BY <1>0, <2>2, GrantMoves
      <3>4. Same(pairs[requests[r].pair], pairs'[requests[r].pair])
        BY SMTT(30), <1>4, <3>1
      <3>5. requests'[r].grant = requests[r].grant /\ records' = records
        BY <1>0, <2>2, GrantMoves DEF TakeGrant, store
      <3> QED
        BY <1>1, <1>7, <3>2, <3>3, <3>4, <3>5 DEF Same
    <2> QED
      BY <1>0, <1>7, <2>1, <2>2, Fates, IdleAt, ExchangeMoves, GrantMoves, TransitionMoves
         DEF Fate, Places, GoesOn
  <1>8. ASSUME NEW r \in Requests, requests'[r].at \in {"admitted", "stored"}
        PROVE  Binding(requests[r])' = pairs'[requests'[r].pair].who
    <2> USE DEF Locking, Began
    <2>1. CASE requests[r].at \in {"admitted", "stored"} /\ requests'[r].says = requests[r].says
                       /\ requests'[r].pair = requests[r].pair
      <3>1. Binding(requests[r]) = pairs[requests[r].pair].who
        BY <1>0, <2>1 DEF OneName
      <3>2. Same(pairs[requests[r].pair], pairs'[requests[r].pair])
        BY <1>0, <1>4, <2>1 DEF Presented
      <3> QED
        BY <2>1, <3>1, <3>2 DEF Same, Binding
    <2>2. CASE Admit(r)
      <3>1. Binding(requests[r]) = pairs[requests[r].pair].who
        BY <2>2 DEF Admit, Current, Authorised, Binding
      <3>2. /\ requests'[r].says = requests[r].says
            /\ requests'[r].pair = requests[r].pair
        BY <1>0, <2>2, TransitionMoves DEF GoesOn
      <3>3. Same(pairs[requests[r].pair], pairs'[requests[r].pair])
        BY <1>0, <1>4, <2>2 DEF Presented, Admit, Current
      <3> QED
        BY <3>1, <3>2, <3>3 DEF Same, Binding
    <2> QED
      BY <1>0, <1>8, <2>1, <2>2, Fates, IdleAt, ExchangeMoves, GrantMoves, TransitionMoves
         DEF Fate, Places, GoesOn
  <1> QED
    BY <1>1, <1>2, <1>5, <1>6, <1>7, <1>8 DEF OneName, Code, Lock, Issuing

-----------------------------------------------------------------------------
(* Ended for good.                                                         *)

LEMMA OverStep ==
    ASSUME GInv, [Next]_vars
    PROVE  Finished'
  <1>0. TypeOK /\ Finished /\ Exclusive /\ HostShape /\ Presented
    BY DEF GInv
  <1> USE DEF Lock, Locking
  \* A transition that is there afterwards was there before, or has just taken a
  \* grant with a record and nobody else at work on it.
  <1>1. ASSUME NEW r \in Requests, Lock(r)'
        PROVE  \/ Lock(r) /\ requests'[r].grant = requests[r].grant
               \/ TakeGrant(r) /\ requests'[r].grant = requests[r].grant
    BY <1>0, <1>1, Fates, IdleAt, ExchangeMoves, GrantMoves, TransitionMoves
       DEF Fate, Places, GoesOn
  <1>2. ASSUME NEW g \in ended
        PROVE  records'[g] = None /\ \A r \in Requests : Lock(r)' => requests'[r].grant # g
    <2>1. g \in GrantIds /\ records[g] = None
      BY SMTT(30), <1>0 DEF TypeOK, Finished
    <2>2. ASSUME NEW r \in Requests, Lock(r)'
          PROVE  requests'[r].grant # g
      BY <1>0, <1>1, <2>1, <2>2 DEF Finished, TakeGrant
    <2>3. \A r \in Requests : StoreRecord(r) => NewGrant # g
      BY NewGrantIsFresh DEF StoreRecord, Fresh
    <2>4. \A r \in Requests : Put(r) => requests[r].grant # g
      BY <1>0 DEF Put, Finished
    <2>5. records'[g] = None
      BY <2>1, <2>3, <2>4, RecordsWritten
    <2> QED
      BY <2>2, <2>5
  \* Who ends a grant is the only one at work on it.
  <1>3. ASSUME NEW r \in Requests, Refuse(r)
        PROVE  /\ ended' = ended \cup {requests[r].grant}
               /\ records'[requests[r].grant] = None
               /\ \A q \in Requests : Lock(q)' => requests'[q].grant # requests[r].grant
    <2>1. /\ Began(r) /\ Lock(r) /\ Ends(r) /\ requests[r].grant \in GrantIds
      BY <1>0, <1>3, TransitionMoves DEF Began, Presented, TypeOK, Pair
    <2>2. records'[requests[r].grant] = None
      BY <1>0, <1>3, <2>1 DEF Refuse, TypeOK
    <2> QED
      BY <1>0, <1>3, <2>1, <2>2, IdleAt DEF Refuse, Ends, Only, Exclusive
  <1>4. ASSUME NEW r \in Requests, NEW asked \in BOOLEAN, RevokeLocally(r, asked)
        PROVE  /\ ended' = ended \cup {requests[r].grant}
               /\ records'[requests[r].grant] = None
               /\ \A q \in Requests : Lock(q)' => requests'[q].grant # requests[r].grant
    <2>1. /\ Began(r) /\ Ends(r) /\ requests[r].grant \in GrantIds
      BY <1>0, <1>4, GrantMoves DEF RevokeLocally, Began, Presented, TypeOK, Pair
    <2>2. records'[requests[r].grant] = None /\ ended' = ended \cup {requests[r].grant}
      BY <1>0, <1>4, <2>1 DEF RevokeLocally, RevokeUnlocked, TypeOK
    <2>3. \A q \in Requests : Lock(q) => requests[q].grant # requests[r].grant
      BY <1>4 DEF RevokeLocally, Free, HoldsGrant
    <2> QED
      BY <2>1, <2>2, <2>3, IdleAt DEF Ends, Only
  <1>5. CASE RebindCommit
    <2>1. /\ host.at = "deleted" /\ host.held = host.listed /\ requests' = requests
          /\ ended' = ended \cup {g \in host.listed \cup host.records : ~Overtaken(g)}
      BY <1>0, <1>5 DEF RebindCommit, HostShape
    <2>2. ASSUME NEW g \in host.listed \cup host.records, ~Overtaken(g)
          PROVE  records'[g] = None /\ \A r \in Requests : Lock(r) => requests[r].grant # g
      <3>1. \A r \in Requests : Lock(r) => requests[r].grant # g
        BY <1>0, <2>1, <2>2 DEF Exclusive, Overtaken, HoldsGrant
      <3>2. g \in GrantIds
        BY <1>0 DEF TypeOK, Host
      <3>3. records'[g] = IF g \in host.records THEN None ELSE records[g]
        BY <1>5, <3>2 DEF RebindCommit
      <3>4. records'[g] = None
        BY <1>0, <2>1, <3>3 DEF HostShape, Finished
      <3> QED
        BY <3>1, <3>4
    <2> QED
      BY <1>2, <2>1, <2>2 DEF Finished
  <1>6. CASE ended' = ended
    BY <1>2, <1>6 DEF Finished
  <1>7. ASSUME NEW g, ended' = ended \cup {g}, records'[g] = None,
               \A q \in Requests : Lock(q)' => requests'[q].grant # g
        PROVE  Finished'
    BY <1>2, <1>7 DEF Finished
  <1> HIDE DEF Lock, Locking
  <1>8. ASSUME NEW r \in Requests, Exchange(r)
        PROVE  Finished'
    BY <1>6, <1>8 DEF Exchange, BeginExchange, BeginExchangeUnlocked, Verify, RefuseExchange,
         StoreRecord, MintPair
  <1>9. ASSUME NEW r \in Requests, Transition(r)
        PROVE  Finished'
    BY SMTT(30), <1>3, <1>6, <1>7, <1>9 DEF Transition, Answer, AnswerFails, AnswerLost, Admit, Put, Rotate
  <1>10. ASSUME NEW r \in Requests, Refresh(r) \/ Revoke(r)
         PROVE  Finished'
    BY <1>4, <1>6, <1>7, <1>10 DEF Refresh, BeginRefresh, BeginUse, BeginRevoke, Starts, NotThere,
         TakeGrant, Revoke
  <1>11. CASE Rebind
    BY <1>5, <1>6, <1>11 DEF Rebind, RebindList, RebindLock, RebindRead, RebindDelete, RebindDies, RebindUpstream
  <1> QED
    BY <1>6, <1>8, <1>9, <1>10, <1>11 DEF Next, vars, BindOwner, LogIn, Crash

-----------------------------------------------------------------------------
(* Tokens enough for everybody.                                            *)

LEMMA SuppliedStep ==
    ASSUME GInv, [Next]_vars
    PROVE  Supplied'
  <1>0. TypeOK /\ Supplied
    BY DEF GInv
  <1> DEFINE M == Minting  U == Unminted
             N == {r \in Requests : requests'[r].at \in {"mint", "answered", "admitted", "stored"}}
             V == {t \in Tokens : pairs'[t] = None}
  <1>1. N = Minting' /\ V = Unminted'
    BY DEF Minting, Unminted
  <1>2. /\ IsFiniteSet(M) /\ IsFiniteSet(U) /\ IsFiniteSet(N) /\ IsFiniteSet(V)
    BY GrantsAssumption, FS_Subset DEF Minting, Unminted
  <1>3. /\ Cardinality(M) \in Nat /\ Cardinality(U) \in Nat
        /\ Cardinality(N) \in Nat /\ Cardinality(V) \in Nat
    BY <1>2, FS_CardinalityType
  <1>4. Cardinality(M) <= Cardinality(U)
    BY <1>0 DEF Supplied
  <1> SUFFICES Cardinality(N) <= Cardinality(V)
    BY <1>1 DEF Supplied
  \* Who joins those who will mint has asked first.
  <1>5. ASSUME NEW r \in N, r \notin M
        PROVE  /\ Cardinality(M) < Cardinality(U)
               /\ Only(r)
               /\ \A q \in Requests : ~MintPair(q) /\ ~Rotate(q)
    <2>1. StoreRecord(r) \/ \E says \in Says : Answer(r, says)
      BY SMTT(30), <1>0, <1>5, Fates, IdleAt, ExchangeMoves, GrantMoves, TransitionMoves
         DEF Fate, Places, GoesOn, Minting
    <2>2. Spare /\ Only(r)
      BY <1>0, <2>1, ExchangeMoves, TransitionMoves DEF StoreRecord, Answer
    <2>3. Cardinality(M) < Cardinality(U)
      BY <2>2 DEF Spare, Minting, Unminted
    <2>4. ASSUME NEW q \in Requests
          PROVE  ~MintPair(q) /\ ~Rotate(q)
      BY <1>0, <1>5, <2>1, <2>2, IdleAt, ExchangeMoves, TransitionMoves DEF Ends, Only, Minting
    <2> QED
      BY <2>2, <2>3, <2>4
  <1> HIDE DEF M, U, N, V
  <1>6. ASSUME NEW r \in Requests, MintPair(r) \/ Rotate(r)
        PROVE  Cardinality(N) <= Cardinality(V)
    <2>1. r \in M /\ NewToken \in U /\ N \subseteq M \ {r}
      BY <1>0, <1>5, <1>6, NewTokenIsThere, ExchangeMoves, TransitionMoves, IdleAt
         DEF M, U, N, Minting, Unminted, MintPair, Rotate, Ends
    <2>2. U \ {NewToken} \subseteq V
      BY PairsMinted DEF U, V, Unminted
    <2>3. /\ IsFiniteSet(M \ {r}) /\ Cardinality(M \ {r}) = Cardinality(M) - 1
          /\ IsFiniteSet(U \ {NewToken}) /\ Cardinality(U \ {NewToken}) = Cardinality(U) - 1
      BY <1>2, <2>1, FS_RemoveElement
    <2>4. Cardinality(N) <= Cardinality(M) - 1 /\ Cardinality(U) - 1 <= Cardinality(V)
      BY <1>2, <2>1, <2>2, <2>3, FS_Subset
    <2> QED
      BY <1>3, <1>4, <2>4
  <1>7. CASE \A r \in Requests : ~MintPair(r) /\ ~Rotate(r)
    <2>1. U \subseteq V
      BY <1>7, PairsMinted DEF U, V, Unminted
    <2>2. Cardinality(U) <= Cardinality(V)
      BY <1>2, <2>1, FS_Subset
    <2>3. CASE N \subseteq M
      <3>1. Cardinality(N) <= Cardinality(M)
        BY <1>2, <2>3, FS_Subset
      <3> QED
        BY <1>3, <1>4, <2>2, <3>1
    <2>4. ASSUME NEW r \in N, r \notin M
          PROVE  Cardinality(N) <= Cardinality(V)
      <3>1. Cardinality(M) < Cardinality(U) /\ N \subseteq M \cup {r}
        BY <1>5, <2>4 DEF N, M, Minting, Only
      <3>2. IsFiniteSet(M \cup {r}) /\ Cardinality(M \cup {r}) = Cardinality(M) + 1
        BY <1>2, <2>4, FS_AddElement
      <3>3. Cardinality(N) <= Cardinality(M) + 1
        BY <1>2, <3>1, <3>2, FS_Subset
      <3> QED
        BY <1>3, <2>2, <3>1, <3>3
    <2> QED
      BY <2>3, <2>4
  <1> QED
    BY <1>6, <1>7

-----------------------------------------------------------------------------
(* The provider's rotation.                                                *)

LEMMA LostStays ==
    ASSUME [Next]_vars
    PROVE  lost \subseteq lost'
  BY ZenonT(60) DEF Next, vars, store, BindOwner, LogIn, Exchange, BeginExchange, BeginExchangeUnlocked, Verify,
     RefuseExchange, StoreRecord, MintPair, Refresh, BeginRefresh, BeginUse, BeginRevoke, Starts,
     NotThere, TakeGrant, Transition, Answer, AnswerFails, AnswerLost, Admit, Refuse, Put,
     Rotate, Revoke, RevokeLocally, RevokeUnlocked, Rebind, RebindList, RebindLock, RebindRead, RebindDelete,
     RebindCommit, RebindDies, RebindUpstream, Crash

\* The provider rotates only in an answer.
LEMMA IssuedMoves ==
    ASSUME TypeOK, [Next]_vars, NEW c \in Codes
    PROVE  \/ issued'[c] = issued[c]
           \/ \E r \in Requests, says \in Says :
                 Answer(r, says) /\ requests[r].login = c /\ issued'[c] = issued[c] + 1
  <1>1. ASSUME NEW r \in Requests, NEW says \in Says, Answer(r, says)
        PROVE  \/ issued'[c] = issued[c]
               \/ requests[r].login = c /\ issued'[c] = issued[c] + 1
    BY <1>1 DEF Answer, TypeOK
  <1>2. ASSUME issued' # issued
        PROVE  \E r \in Requests, says \in Says : Answer(r, says)
    BY ZenonT(60), <1>2 DEF Next, vars, store, provider, BindOwner, LogIn, Exchange, BeginExchange,
     BeginExchangeUnlocked, Verify,
     RefuseExchange, StoreRecord, MintPair, Refresh, BeginRefresh, BeginUse, BeginRevoke, Starts,
     NotThere, TakeGrant, Transition, AnswerFails, AnswerLost, Admit, Refuse, Put,
     Rotate, Revoke, RevokeLocally, RevokeUnlocked, Rebind, RebindList, RebindLock, RebindRead, RebindDelete,
     RebindCommit, RebindDies, RebindUpstream, Crash
  <1> QED
    BY <1>1, <1>2

\* A transition goes on, or it begins on a grant with a record.
LEMMA LocksMove ==
    ASSUME TypeOK, [Next]_vars, NEW r \in Requests, Lock(r)'
    PROVE  \/ /\ Lock(r) /\ requests'[r].grant = requests[r].grant
              /\ requests'[r].login = requests[r].login
           \/ /\ TakeGrant(r) /\ requests'[r].at = "asked"
              /\ requests'[r].grant = requests[r].grant
              /\ requests'[r].login = records[requests[r].grant].login
  BY Fates, IdleAt, ExchangeMoves, GrantMoves, TransitionMoves
     DEF Fate, Places, GoesOn, Lock, Locking

LEMMA CodesMove ==
    ASSUME TypeOK, [Next]_vars, NEW r \in Requests, Code(r)'
    PROVE  \/ requests'[r] = requests[r]
           \/ \E c \in Codes : BeginExchange(r, c) /\ requests'[r].login = c
                               /\ requests'[r].at = "issue"
           \/ Verify(r) /\ requests[r].at = "issue" /\ requests'[r].at = "store"
                        /\ requests'[r].login = requests[r].login
           \/ StoreRecord(r) /\ requests'[r].at = "mint" /\ requests'[r].grant = NewGrant
                             /\ requests'[r].login = requests[r].login
  BY Fates, IdleAt, ExchangeMoves, GrantMoves, TransitionMoves
     DEF Fate, Places, GoesOn, Code, Issuing

\* A claim is as before, or a login's first.
LEMMA ClaimsMove ==
    ASSUME GInv, [Next]_vars, NEW g \in GrantIds, NEW c \in Codes, Claims(g, c)'
    PROVE  \/ Claims(g, c)
           \/ \E r \in Requests : StoreRecord(r) /\ requests[r].login = c /\ g = NewGrant
  <1>0. TypeOK /\ Presented
    BY DEF GInv
  <1>1. CASE ByRecord(g, c)'
    <2>1. \A r \in Requests : Put(r) => Lock(r)
      BY DEF Put, Lock, Locking
    <2> QED
      BY <1>1, <2>1, LoginsWritten DEF ByRecord, ByLock, Claims
  <1>2. ASSUME NEW r \in Requests, requests'[r].grant = g, ByLock(r, c)'
        PROVE  Claims(g, c)
    <2>1. CASE Lock(r) /\ requests'[r].grant = requests[r].grant
               /\ requests'[r].login = requests[r].login
      BY SMTT(30), <1>2, <2>1 DEF ByLock, Claims
    <2>2. CASE /\ TakeGrant(r) /\ requests'[r].at = "asked"
               /\ requests'[r].grant = requests[r].grant
               /\ requests'[r].login = records[requests[r].grant].login
      BY <1>2, <2>2 DEF ByLock, ByRecord, Claims, TakeGrant
    <2> QED
      BY <1>0, <1>2, <2>1, <2>2, LocksMove DEF ByLock
  <1>3. ASSUME NEW r \in Requests, requests'[r].grant = g, ByMint(r, c)'
        PROVE  \/ Claims(g, c)
               \/ StoreRecord(r) /\ requests[r].login = c /\ g = NewGrant
    <2>1. Code(r)' /\ requests'[r].at = "mint" /\ requests'[r].login = c
      BY <1>3 DEF ByMint, Code, Issuing
    <2> QED
      BY <1>0, <1>3, <2>1, CodesMove DEF Claims, ByMint
  <1> QED
    BY <1>1, <1>2, <1>3 DEF Claims

\* A code does not come back.
LEMMA StartableGoes ==
    ASSUME GInv, [Next]_vars, NEW c \in Codes, c \notin lost', Startable(c)'
    PROVE  Startable(c)
  <1>0. TypeOK
    BY DEF GInv
  <1>1. ASSUME NEW r \in Requests, requests'[r].at \in {"issue", "store"}, requests'[r].login = c
        PROVE  Startable(c)
    <2>1. CASE requests[r].at \in {"issue", "store"} /\ requests[r].login = c
      BY <2>1 DEF Startable
    <2>2. CASE BeginExchange(r, c)
      BY <2>2 DEF BeginExchange, BeginExchangeUnlocked, HoldsCode, Issuing, Startable, ByMint
    <2> QED
      BY <1>0, <1>1, <2>1, <2>2, CodesMove DEF Code, Issuing
  <1>2. ASSUME codes'[c] # "gone", \A r \in Requests : ~ByMint(r, c)'
        PROVE  Startable(c)
    <2>1. ASSUME NEW r \in Requests, ByMint(r, c)
          PROVE  FALSE
      <3>1. requests'[r] # requests[r]
        BY <1>2, <2>1 DEF ByMint
      <3>2. Leaving(r)
        BY <1>0, <2>1, <3>1, Fates, ExchangeMoves, GrantMoves, TransitionMoves
           DEF Fate, Places, ByMint
      <3>3. CASE MintPair(r)
        BY <1>0, <1>2, <2>1, <3>3 DEF MintPair, Spends, TypeOK, ByMint
      <3>4. CASE Crash
        BY <2>1, <3>4 DEF Crash, ByMint
      <3> QED
        BY <1>0, <2>1, <3>2, <3>3, <3>4, ExchangeMoves, GrantMoves, TransitionMoves
           DEF Leaving, ByMint
    <2>2. codes[c] # "gone"
      <3>1. codes[c] # "new" \/ codes[c] # "gone"
        OBVIOUS
      <3> QED
        BY <1>2, <3>1, LoginsStay DEF LoginStays
    <2> QED
      BY <2>1, <2>2 DEF Startable
  <1> QED
    BY <1>1, <1>2 DEF Startable

LEMMA UnusedStep ==
    ASSUME GInv, [Next]_vars, NEW c \in Codes, c \notin lost', Startable(c)'
    PROVE  Unused(c)'
  <1>0. TypeOK /\ Exclusive /\ Presented
    BY DEF GInv
  <1>1. c \notin lost /\ Startable(c)
    BY LostStays, StartableGoes
  <1>2. Unused(c)
    BY <1>1 DEF GInv, Rotation
  <1>3. ASSUME NEW r \in Requests, ByLock(r, c)
        PROVE  FALSE
    <2>1. requests[r].grant \in GrantIds
      BY SMTT(30), <1>0, <1>3 DEF ByLock, Lock, Began, Presented, TypeOK, Pair
    <2> QED
      BY <1>2, <1>3, <2>1 DEF Unused, Claims
  <1>4. issued'[c] = 0
    BY <1>0, <1>2, <1>3, IssuedMoves DEF Unused, Answer, ByLock, Lock, Locking
  <1>5. ASSUME NEW r \in Requests, StoreRecord(r), requests[r].login = c
        PROVE  FALSE
    <2>1. /\ Only(r) /\ requests'[r].at = "mint" /\ requests'[r].login = c
      BY <1>0, <1>5, ExchangeMoves
    <2>2. PICK q \in Requests : requests'[q].at \in {"issue", "store"} /\ requests'[q].login = c
      BY <2>1 DEF Startable, ByMint
    <2>3. q # r
      BY <2>1, <2>2
    <2>4. Code(q) /\ Code(r) /\ requests[q].login = c
      BY <1>5, <2>1, <2>2, <2>3 DEF Only, Code, Issuing, StoreRecord
    <2> QED
      BY <1>0, <1>5, <2>3, <2>4 DEF Exclusive
  <1>6. ASSUME NEW g \in GrantIds
        PROVE  ~Claims(g, c)'
    BY <1>2, <1>5, ClaimsMove DEF Unused
  <1> QED
    BY <1>4, <1>6 DEF Unused

LEMMA OneGrantStep ==
    ASSUME GInv, [Next]_vars, NEW c \in Codes, c \notin lost'
    PROVE  OneGrant(c)'
  <1>0. TypeOK /\ Exclusive
    BY DEF GInv
  <1>1. c \notin lost /\ OneGrant(c) /\ (Startable(c) => Unused(c))
    BY LostStays DEF GInv, Rotation
  <1>2. ASSUME NEW r \in Requests, StoreRecord(r), requests[r].login = c
        PROVE  \A g \in GrantIds : ~Claims(g, c)
    BY <1>1, <1>2 DEF StoreRecord, Startable, Unused
  <1>3. ASSUME NEW g \in GrantIds, NEW h \in GrantIds, Claims(g, c)', Claims(h, c)'
        PROVE  g = h
    BY <1>1, <1>2, <1>3, ClaimsMove DEF OneGrant
  <1> QED
    BY <1>3 DEF OneGrant

LEMMA LatestStep ==
    ASSUME GInv, [Next]_vars, NEW c \in Codes, c \notin lost'
    PROVE  Latest(c)'
  <1>0. TypeOK /\ Exclusive /\ Presented /\ OneName
    BY DEF GInv
  <1>1. c \notin lost /\ OneGrant(c) /\ Latest(c) /\ (Startable(c) => Unused(c))
    BY LostStays DEF GInv, Rotation
  <1>2. ASSUME NEW r \in Requests, Lock(r)
        PROVE  requests[r].grant \in GrantIds
    BY <1>0, <1>2 DEF Lock, Began, Presented, TypeOK, Pair
  \* Only one transition is at work on the login's tokens.
  <1>3. ASSUME NEW q \in Requests, NEW says \in Says, Answer(q, says), requests[q].login = c
        PROVE  /\ Lock(q) /\ Renewed(q)' /\ requests'[q].grant = requests[q].grant
               /\ requests'[q].rt = issued'[c]
               /\ \A g \in GrantIds : Claims(g, c) => g = requests[q].grant
               /\ \A r \in Requests : ByLock(r, c) => r = q
    <2>1. Lock(q) /\ ByLock(q, c)
      BY <1>3 DEF Answer, Lock, Locking, ByLock
    <2>2. Renewed(q)' /\ requests'[q].grant = requests[q].grant /\ requests'[q].rt = issued[c] + 1
      BY <1>0, <1>3, TransitionMoves DEF Renewed
    <2>3. issued'[c] = issued[c] + 1
      BY <1>0, <1>3 DEF Answer, TypeOK
    <2>4. \A g \in GrantIds : Claims(g, c) => g = requests[q].grant
      BY <1>1, <1>2, <2>1 DEF OneGrant, Claims
    <2>5. ASSUME NEW r \in Requests, ByLock(r, c)
          PROVE  r = q
      BY <1>0, <1>2, <2>1, <2>4, <2>5 DEF Claims, ByLock, Exclusive
    <2> QED
      BY <2>1, <2>2, <2>3, <2>4, <2>5
  <1>4. ASSUME NEW r \in Requests, Renewed(r)', ByLock(r, c)'
        PROVE  requests'[r].rt = issued'[c]
    <2>1. CASE Renewed(r) /\ ByLock(r, c) /\ requests'[r].rt = requests[r].rt
      <3>1. requests[r].rt = issued[c]
        BY <1>1, <2>1 DEF Latest
      <3>2. \A q \in Requests, says \in Says : Answer(q, says) => q # r
        BY <2>1 DEF Answer, Renewed
      <3>3. issued'[c] = issued[c]
        BY <1>0, <1>3, <2>1, <3>2, IssuedMoves
      <3> QED
        BY <2>1, <3>1, <3>3
    <2>2. CASE \E says \in Says : Answer(r, says) /\ requests[r].login = c
      BY <1>3, <2>2
    <2> QED
      BY <1>0, <1>4, <2>1, <2>2, Fates, IdleAt, ExchangeMoves, GrantMoves, TransitionMoves
         DEF Fate, Places, GoesOn, Renewed, ByLock, Lock, Locking
  <1>5. ASSUME NEW g \in GrantIds, ByRecord(g, c)',
               \A r \in Requests : Renewed(r)' => requests'[r].grant # g
        PROVE  records'[g].rt = issued'[c]
    <2>3. ASSUME NEW r \in Requests, Put(r), requests[r].grant = g
          PROVE  records'[g].rt = issued'[c]
      <3>1. records'[g] = [owner |-> Binding(requests[r]), login |-> requests[r].login,
                           rt |-> requests[r].rt]
        BY <1>0, <2>3 DEF Put, TypeOK
      <3>2. records'[g].login = requests[r].login /\ records'[g].rt = requests[r].rt
        BY <3>1
      <3> QED
        BY <1>1, <1>5, <2>3, <3>2 DEF ByRecord, Put, Latest, Renewed, ByLock, Lock, Locking, provider
    <2>1. CASE /\ records'[g] = records[g]
               /\ \A r \in Requests : ~(Put(r) /\ requests[r].grant = g)
      <3>1. ByRecord(g, c)
        BY <1>5, <2>1 DEF ByRecord
      <3>2. ASSUME NEW r \in Requests, Renewed(r), requests[r].grant = g
            PROVE  FALSE
        <4>1. Lock(r) /\ requests[r].login = c
          BY <1>0, <3>1, <3>2 DEF Renewed, Lock, Locking, OneName, ByRecord
        <4>2. Leaving(r)
          BY <1>0, <1>5, <2>1, <3>2, Fates, ExchangeMoves, GrantMoves, TransitionMoves
             DEF Fate, Places, GoesOn, Renewed
        <4>3. CASE Crash \/ AnswerLost(r)
          BY <3>2, <4>1, <4>3 DEF Crash, AnswerLost, Renewed
        <4>4. CASE Refuse(r)
          BY <1>0, <1>5, <3>2, <4>4 DEF Refuse, TypeOK, ByRecord
        <4> QED
          BY <1>0, <2>1, <3>2, <4>2, <4>3, <4>4, ExchangeMoves, GrantMoves, TransitionMoves
             DEF Leaving, Renewed
      <3>3. records[g].rt = issued[c]
        BY <1>1, <3>1, <3>2 DEF Latest
      <3>4. issued'[c] = issued[c]
        BY <1>0, <1>3, <1>5, <3>1, IssuedMoves DEF Claims
      <3> QED
        BY <2>1, <3>3, <3>4
    <2>2. ASSUME NEW r \in Requests, StoreRecord(r), records'[g].login = requests[r].login,
                 records'[g].rt = 0
          PROVE  records'[g].rt = issued'[c]
      BY <1>1, <1>5, <2>2 DEF ByRecord, StoreRecord, Startable, Unused, provider
    <2> QED
      BY <1>5, <2>1, <2>2, <2>3, LoginsWritten DEF ByRecord
  <1> QED
    BY <1>4, <1>5 DEF Latest

\* The rebind begins, or it is over: nothing has been read.
LEMMA ListedAnew ==
    /\ RebindList \/ host' = HostIdle => host'.credentials = {} /\ host'.pending = {}
    /\ RebindList => host'.listed = {g \in GrantIds : records[g] # None}
  <1>1. ASSUME NEW y, host' = [HostIdle EXCEPT !.at = "locking", !.listed = y]
        PROVE  host'.credentials = {} /\ host'.pending = {} /\ host'.listed = y
    BY <1>1 DEF HostIdle
  <1>2. ASSUME RebindList
        PROVE  /\ host'.credentials = {} /\ host'.pending = {}
               /\ host'.listed = {g \in GrantIds : records[g] # None}
    BY <1>1, <1>2 DEF RebindList
  <1>3. host' = HostIdle => host'.credentials = {} /\ host'.pending = {}
    BY DEF HostIdle
  <1> QED
    BY <1>2, <1>3

\* No transition is at work on a login whose grant is being issued.
LEMMA MintedAlone ==
    ASSUME TypeOK, Presented, Alone, NEW c \in Codes, OneGrant(c),
           NEW r \in Requests, ByMint(r, c)
    PROVE  \A q \in Requests : ~ByLock(q, c)
  <1>1. ASSUME NEW q \in Requests, ByLock(q, c)
        PROVE  FALSE
    <2>1. requests[q].grant \in GrantIds
      BY <1>1 DEF ByLock, Lock, Began, Presented, TypeOK, Pair
    <2>2. requests[r].at = "mint" /\ requests[r].grant \in GrantIds
      BY DEF ByMint, Alone
    <2>3. requests[q].grant = requests[r].grant
      BY <1>1, <2>1, <2>2 DEF OneGrant, Claims
    <2>4. q = r
      BY <2>2, <2>3 DEF Alone
    <2> QED
      BY <1>1, <2>2, <2>4 DEF ByLock, Lock, Locking
  <1> QED
    BY <1>1

\* What is being issued and has no record is given none by others.
LEMMA NoneStays ==
    ASSUME GInv, [Next]_vars, NEW r \in Requests, requests[r].at = "mint",
           requests'[r] = requests[r], records[requests[r].grant] = None
    PROVE  records'[requests[r].grant] = None
  <1>0. TypeOK /\ Alone
    BY DEF GInv
  <1>1. /\ requests[r].grant \in GrantIds
        /\ \A q \in Requests : requests[q].grant = requests[r].grant => q = r
    BY <1>0 DEF Alone
  <1>2. \A q \in Requests : Put(q) => requests[q].grant # requests[r].grant
    BY <1>1 DEF Put
  <1>3. ASSUME NEW q \in Requests, StoreRecord(q)
        PROVE  NewGrant # requests[r].grant
    <2>1. Fresh(NewGrant)
      BY <1>3, NewGrantIsFresh DEF StoreRecord
    <2> QED
      BY <2>1 DEF Fresh
  <1> QED
    BY <1>1, <1>2, <1>3, LoginsWritten

\* What a step leaves of the rebind's state, unless it is one of the rebind's own.
HostStays ==
    /\ host'.at = host.at /\ host'.listed = host.listed /\ host'.records = host.records
    /\ host'.credentials = host.credentials /\ host'.pending = host.pending
    /\ host.late \subseteq host'.late
    /\ host.at # "locking" => host'.held = host.held

LEMMA HostMoves ==
    ASSUME TypeOK, [Next]_vars
    PROVE  \/ HostStays
           \/ RebindRead \/ RebindDelete \/ RebindCommit \/ RebindList
           \/ host' = HostIdle
  <1>1. CASE host' = host
    BY <1>1 DEF HostStays
  <1>2. ASSUME NEW r \in Requests, Exchange(r) \/ Refresh(r) \/ Revoke(r) \/ Transition(r),
               ~StoreRecord(r)
        PROVE  host' = host
    BY <1>2
       DEF Exchange, BeginExchange, BeginExchangeUnlocked, Verify,
           RefuseExchange, MintPair, Refresh, BeginRefresh, BeginUse, BeginRevoke, Starts,
           NotThere, TakeGrant, Transition, Answer, AnswerFails, AnswerLost, Admit, Refuse, Put,
           Rotate, Revoke, RevokeLocally, RevokeUnlocked, vars
  <1>3. ASSUME NEW r \in Requests, StoreRecord(r)
        PROVE  HostStays
    BY <1>3, StoringMakesLate DEF HostStays
  <1>4. ASSUME NEW g \in GrantIds, RebindLock(g)
        PROVE  HostStays
    <2>1. /\ host.at = "locking" /\ host'.at = host.at /\ host'.listed = host.listed
          /\ host'.records = host.records /\ host'.credentials = host.credentials
          /\ host'.pending = host.pending /\ host'.late = host.late
      BY <1>4 DEF RebindLock, TypeOK, Host
    <2> QED
      BY <2>1 DEF HostStays
  <1> QED
    BY <1>1, <1>2, <1>3, <1>4
       DEF Next, vars, BindOwner, LogIn, Rebind, RebindUpstream, RebindDies, Crash

\* A login nobody is at work on stays so from the rebind's reading to its end, unless a
\* grant is stored for it.
LEMMA FrozenStays ==
    ASSUME GInv, [Next]_vars, NEW c \in Codes, Frozen(c),
           HostStays \/ RebindDelete \/ RebindCommit,
           host.at \notin {"idle", "locking"},
           \A r \in Requests : StoreRecord(r) => requests[r].login # c
    PROVE  /\ issued'[c] = issued[c]
           /\ Frozen(c)'
  <1>0. TypeOK /\ Presented /\ HostShape
    BY DEF GInv
  <1>1. issued'[c] = issued[c]
    BY ZenonT(60), <1>0, IssuedMoves DEF Frozen, Answer, ByLock, Lock, Locking
  <1>2. ASSUME NEW r \in Requests, ByLock(r, c)'
        PROVE  FALSE
    <2>1. TakeGrant(r) /\ ByRecord(requests[r].grant, c)
      BY <1>0, <1>2, LocksMove DEF ByLock, ByRecord, TakeGrant, Frozen
    <2>2. requests[r].grant \in GrantIds /\ requests[r].grant \notin host.held
      BY <1>0, <2>1 DEF TakeGrant, Free, Presented, Began, TypeOK, Pair
    <2> QED
      BY <2>1, <2>2 DEF Frozen
  <1>3. ASSUME NEW g \in GrantIds, ByRecord(g, c)'
        PROVE  /\ g \in host'.held
               /\ host'.at = "read" \/ (host'.at = "deleted" /\ g \in host'.records)
    <2>1. \A r \in Requests : Put(r) => requests[r].login # c
      BY DEF Put, ByLock, Lock, Locking, Frozen
    <2>2. ByRecord(g, c) /\ records'[g] = records[g]
      BY <1>3, <2>1, LoginsWritten DEF ByRecord
    <2>3. /\ g \in host.held
          /\ host.at = "read" \/ (host.at = "deleted" /\ g \in host.records)
      BY <2>2 DEF Frozen
    <2>4. CASE HostStays
      BY <2>3, <2>4 DEF HostStays
    <2>5. CASE RebindDelete
      BY <1>0, <2>2, <2>3, <2>5, RebindMoves DEF ByRecord
    <2>6. CASE RebindCommit
      BY <1>3, <2>2, <2>3, <2>6 DEF RebindCommit, ByRecord
    <2> QED
      BY <2>4, <2>5, <2>6
  <1> QED
    BY <1>1, <1>2, <1>3 DEF Frozen

\* The rebind reads a listed record's login with every lock held.
LEMMA ReadUnderLocks ==
    ASSUME GInv, RebindRead, NEW c \in Codes \ lost, NEW h \in host.listed,
           records[h] # None, records[h].login = c
    PROVE  /\ records[h].rt = issued[c]
           /\ ~Startable(c)'
           /\ Frozen(c)'
  <1>0. TypeOK /\ Exclusive /\ Presented /\ HostShape
    BY DEF GInv
  <1>1. OneGrant(c) /\ Latest(c) /\ (Startable(c) => Unused(c))
    BY DEF GInv, Rotation
  <1>2. /\ host.held = host.listed /\ records' = records /\ requests' = requests /\ codes' = codes
        /\ host'.at = "read" /\ host'.held = host.held
    BY <1>0, RebindMoves DEF RebindRead, store
  <1>3. h \in GrantIds /\ h \in host.held /\ ByRecord(h, c)
    BY <1>0, <1>2 DEF TypeOK, Host, ByRecord
  <1>4. \A r \in Requests : Lock(r) => requests[r].grant # h
    BY <1>0, <1>3 DEF Exclusive
  <1>5. records[h].rt = issued[c]
    BY <1>1, <1>3, <1>4 DEF Latest, Renewed, Lock, Locking
  <1>6. ~Startable(c)
    BY <1>1, <1>3 DEF Unused, Claims
  <1>7. ASSUME NEW r \in Requests, ByLock(r, c)
        PROVE  FALSE
    <2>1. requests[r].grant \in GrantIds
      BY <1>0, <1>7 DEF ByLock, Lock, Began, Presented, TypeOK, Pair
    <2> QED
      BY <1>1, <1>3, <1>4, <1>7, <2>1 DEF OneGrant, Claims, ByLock
  <1>8. \A g \in GrantIds : ByRecord(g, c) => g = h
    BY <1>1, <1>3 DEF OneGrant, Claims
  <1> QED
    BY <1>2, <1>3, <1>5, <1>6, <1>7, <1>8 DEF Startable, Frozen, ByLock, ByMint, ByRecord, Lock

LEMMA HandedStep ==
    ASSUME GInv, [Next]_vars, NEW c \in Codes, c \notin lost'
    PROVE  Handed(c)'
  <1>0. TypeOK /\ HostShape
    BY DEF GInv
  <1>1. c \notin lost /\ Handed(c)
    BY LostStays DEF GInv, Rotation
  \* What was read before stays as it was read, until the command is over.
  <1>2. CASE HostStays \/ RebindDelete \/ RebindCommit
    <2>1. host'.credentials = host.credentials
      BY <1>0, <1>2, RebindMoves DEF HostStays
    <2>2. ASSUME NEW n \in 0..MaxRotation, <<c, n>> \in host.credentials
          PROVE  n = issued'[c] /\ ~Startable(c)' /\ Frozen(c)'
      <3>1. n = issued[c] /\ ~Startable(c) /\ Frozen(c)
        BY <1>1, <2>2 DEF Handed
      <3>2. host.at \notin {"idle", "locking"}
        BY <1>0, <2>2 DEF HostShape
      <3>3. \A r \in Requests : StoreRecord(r) => requests[r].login # c
        BY <3>1 DEF StoreRecord, Startable
      <3> QED
        BY <1>2, <3>1, <3>2, <3>3, FrozenStays, StartableGoes
    <2> QED
      BY <2>1, <2>2 DEF Handed
  <1>3. CASE RebindRead
    <2>1. /\ host'.credentials = {<<records[g].login, records[g].rt>> :
                                     g \in {h \in host.listed : records[h] # None}}
          /\ issued' = issued
      BY <1>0, <1>3, RebindMoves DEF RebindRead, provider
    <2>2. ASSUME NEW n \in 0..MaxRotation, <<c, n>> \in host'.credentials
          PROVE  n = issued'[c] /\ ~Startable(c)' /\ Frozen(c)'
      <3>1. PICK h \in host.listed : records[h] # None /\ c = records[h].login /\ n = records[h].rt
        BY <2>1, <2>2
      <3> QED
        BY <1>1, <1>3, <2>1, <3>1, ReadUnderLocks
    <2> QED
      BY <2>2 DEF Handed
  <1>4. CASE RebindList \/ host' = HostIdle
    <2>1. host'.credentials = {}
      BY <1>4, ListedAnew
    <2> QED
      BY <2>1 DEF Handed
  <1> QED
    BY <1>0, <1>2, <1>3, <1>4, HostMoves

LEMMA PendedStep ==
    ASSUME GInv, [Next]_vars, NEW c \in Codes, c \notin lost'
    PROVE  Pended(c)'
  <1>0. TypeOK /\ HostShape /\ Presented /\ Alone
    BY DEF GInv
  <1>1. /\ c \notin lost /\ Pended(c) /\ Minted(c) /\ OneGrant(c)
        /\ Startable(c) => Unused(c)
    BY LostStays DEF GInv, Rotation
  <1>2. CASE HostStays \/ RebindDelete \/ RebindCommit
    <2>1. host'.pending = host.pending /\ host.late \subseteq host'.late
      BY <1>0, <1>2, RebindMoves DEF HostStays
    <2>2. ASSUME c \in host.pending, c \notin host'.late
          PROVE  issued'[c] = 0 /\ Frozen(c)'
      <3>1. issued[c] = 0 /\ Frozen(c)
        BY <1>1, <2>1, <2>2 DEF Pended
      <3>2. host.at \notin {"idle", "locking"}
        BY <1>0, <2>2 DEF HostShape
      <3>3. \A r \in Requests : StoreRecord(r) => requests[r].login # c
        BY <1>0, <2>2, <3>2, StoringMakesLate
      <3> QED
        BY <1>2, <3>1, <3>2, <3>3, FrozenStays
    <2> QED
      BY <2>1, <2>2 DEF Pended
  \* A code not yet redeemed has no grant, or one the rebind listed.
  <1>3. CASE RebindRead
    <2>1. /\ host.at = "locking" /\ host.held = host.listed
          /\ records' = records /\ requests' = requests /\ issued' = issued
          /\ host'.at = "read" /\ host'.held = host.held /\ host'.late = host.late
          /\ host'.pending = {d \in Codes : codes[d] = "held"}
      BY <1>0, <1>3, RebindMoves DEF RebindRead, store, provider
    <2>2. ASSUME codes[c] = "held", c \notin host.late
          PROVE  /\ issued[c] = 0
                 /\ \A r \in Requests : ~ByLock(r, c)
                 /\ \A g \in GrantIds : ByRecord(g, c) => g \in host.held
      <3>1. CASE Startable(c)
        <4>1. Unused(c)
          BY <1>1, <3>1
        <4>2. ASSUME NEW r \in Requests, ByLock(r, c)
              PROVE  FALSE
          <5>1. requests[r].grant \in GrantIds
            BY <1>0, <4>2 DEF ByLock, Lock, Began, Presented, TypeOK, Pair
          <5> QED
            BY <4>1, <4>2, <5>1 DEF Unused, Claims
        <4> QED
          BY <4>1, <4>2 DEF Unused, Claims
      <3>2. CASE ~Startable(c)
        <4>1. PICK r \in Requests : ByMint(r, c)
          BY <2>2, <3>2 DEF Startable
        <4>2. /\ requests[r].at = "mint" /\ requests[r].grant \in GrantIds
              /\ Claims(requests[r].grant, c)
          BY <1>0, <4>1 DEF ByMint, Alone, Claims
        <4>3. \A q \in Requests : ~ByLock(q, c)
          BY <1>0, <1>1, <4>1, MintedAlone
        <4>4. \A g \in GrantIds : ByRecord(g, c) => g = requests[r].grant
          BY <1>1, <4>2 DEF OneGrant, Claims
        <4>5. /\ issued[c] = 0
              /\ requests[r].grant \in host.listed \/ records[requests[r].grant] = None
          BY <1>1, <2>1, <2>2, <4>1 DEF Minted
        <4> QED
          BY <2>1, <4>3, <4>4, <4>5 DEF ByRecord
      <3> QED
        BY <3>1, <3>2
    <2> QED
      BY <2>1, <2>2 DEF Pended, Frozen, ByLock, ByRecord, Lock
  <1>4. CASE RebindList \/ host' = HostIdle
    <2>1. host'.pending = {}
      BY <1>4, ListedAnew
    <2> QED
      BY <2>1 DEF Pended
  <1> QED
    BY <1>0, <1>2, <1>3, <1>4, HostMoves

LEMMA MintedStep ==
    ASSUME GInv, [Next]_vars, NEW c \in Codes, c \notin lost'
    PROVE  Minted(c)'
  <1>0. TypeOK /\ HostShape /\ Presented /\ Alone
    BY DEF GInv
  <1>1. /\ c \notin lost /\ Minted(c) /\ OneGrant(c)
        /\ Startable(c) => Unused(c)
    BY LostStays DEF GInv, Rotation
  <1> SUFFICES ASSUME NEW r \in Requests, ByMint(r, c)'
               PROVE  /\ issued'[c] = 0
                      /\ host'.at \in {"locking", "read", "deleted"} =>
                            \/ c \in host'.late
                            \/ requests'[r].grant \in host'.listed
                            \/ records'[requests'[r].grant] = None
    BY DEF Minted
  <1>2. \/ StoreRecord(r) /\ requests[r].login = c
        \/ ByMint(r, c) /\ requests'[r] = requests[r]
    <2>1. Code(r)' /\ requests'[r].at = "mint" /\ requests'[r].login = c
      BY DEF ByMint, Code, Issuing
    <2> QED
      BY <1>0, <2>1, CodesMove DEF ByMint
  <1>3. CASE StoreRecord(r) /\ requests[r].login = c
    <2>1. issued[c] = 0 /\ issued' = issued
      BY <1>1, <1>3 DEF StoreRecord, Startable, Unused, provider
    <2> QED
      BY <1>0, <1>3, <2>1, StoringMakesLate
  <1>4. CASE ByMint(r, c) /\ requests'[r] = requests[r]
    <2>1. /\ requests[r].at = "mint" /\ requests[r].grant \in GrantIds
          /\ \A q \in Requests : requests[q].grant = requests[r].grant => q = r
      BY <1>0, <1>4 DEF ByMint, Alone
    <2>2. \A q \in Requests : ~ByLock(q, c)
      BY <1>0, <1>1, <1>4, MintedAlone
    <2>3. issued'[c] = 0
      BY ZenonT(60), <1>0, <1>1, <1>4, <2>2, IssuedMoves DEF Minted, Answer, ByLock, Lock, Locking
    <2>4. ASSUME records[requests[r].grant] = None
          PROVE  records'[requests[r].grant] = None
      BY <1>0, <1>4, <2>1, <2>4, NoneStays
    <2>5. CASE HostStays \/ RebindRead \/ RebindDelete
      <3>1. host'.listed = host.listed /\ host.late \subseteq host'.late
            /\ (host'.at \in {"locking", "read", "deleted"}
                   => host.at \in {"locking", "read", "deleted"})
        BY <1>0, <2>5, RebindMoves DEF HostStays, RebindRead, RebindDelete
      <3> QED
        BY <1>1, <1>4, <2>3, <2>4, <3>1 DEF Minted
    <2>6. CASE RebindList
      <3>1. host'.listed = {g \in GrantIds : records[g] # None}
        BY <2>6, ListedAnew
      <3> QED
        BY <1>4, <2>1, <2>3, <2>4, <3>1
    <2>7. CASE RebindCommit \/ host' = HostIdle
      BY <1>0, <2>3, <2>7, RebindMoves DEF HostIdle
    <2> QED
      BY <1>0, <2>5, <2>6, <2>7, HostMoves
  <1> QED
    BY <1>2, <1>3, <1>4

LEMMA RotationStep ==
    ASSUME GInv, [Next]_vars
    PROVE  Rotation'
  <1>1. ASSUME NEW c \in Codes, c \notin lost'
        PROVE  /\ (Startable(c) => Unused(c))'
               /\ OneGrant(c)' /\ Latest(c)' /\ Handed(c)' /\ Pended(c)' /\ Minted(c)'
    BY <1>1, UnusedStep, OneGrantStep, LatestStep, HandedStep, PendedStep, MintedStep
  <1> QED
    BY <1>1 DEF Rotation

-----------------------------------------------------------------------------
(* The theorems.                                                           *)

LEMMA GInvInit == Init => GInv
  <1> SUFFICES ASSUME Init PROVE GInv
    OBVIOUS
  <1>1. TypeOK
    BY TypeInit
  <1>2. \A r \in Requests : requests[r] = Idle
    BY DEF Init
  <1>3. Exclusive /\ Presented /\ Alone
    BY <1>2, IdleAt DEF Exclusive, Presented, Alone, Lock, Code, Began, Locking, Issuing
  <1>4. HostShape
    BY DEF Init, HostIdle, HostShape
  <1>5. OneName /\ Finished
    BY <1>2, IdleAt DEF Init, OneName, Finished, Lock, Code, Locking, Issuing
  <1>6. Supplied
    <2>1. Minting = {}
      BY <1>2, IdleAt DEF Minting
    <2>2. IsFiniteSet(Unminted)
      BY GrantsAssumption, FS_Subset DEF Unminted
    <2>3. Cardinality(Minting) = 0 /\ Cardinality(Unminted) \in Nat
      BY <2>1, <2>2, FS_EmptySet, FS_CardinalityType
    <2> QED
      BY <2>3 DEF Supplied
  <1>7. Rotation
    <2>1. \A g \in GrantIds, c \in Codes : ~ByRecord(g, c)
      BY DEF Init, ByRecord
    <2>2. \A r \in Requests, c \in Codes : ~ByLock(r, c) /\ ~ByMint(r, c)
      BY <1>2, IdleAt DEF ByLock, ByMint, Lock, Locking
    <2>3. \A g \in GrantIds, c \in Codes : ~Claims(g, c)
      BY <2>1, <2>2 DEF Claims
    <2>4. host.credentials = {} /\ host.pending = {} /\ \A c \in Codes : issued[c] = 0
      BY DEF Init, HostIdle
    <2> QED
      BY <2>1, <2>2, <2>3, <2>4
         DEF Rotation, Unused, OneGrant, Latest, Handed, Pended, Minted
  <1> QED
    BY <1>1, <1>3, <1>4, <1>5, <1>6, <1>7 DEF GInv

\* What the three theorems below follow from.
THEOREM GrantsInvariant == Spec => []GInv
  <1>1. GInv /\ [Next]_vars => GInv'
    BY TypeStep, ExclusiveStep, HostShapeStep, PresentedStep, AloneStep, OneNameStep, OverStep,
       SuppliedStep, RotationStep DEF GInv
  <1> QED
    BY GInvInit, <1>1, PTL DEF Spec

\* A grant that a revocation, a refusal or the rebind ended never has a record again,
\* for any number of requests that refresh, use and revoke it; the rebind ends what it
\* listed and what it deleted with no transition at work on it (exchange_refresh_token,
\* revoke_token, recovery_rebind_oidc).
THEOREM EndedStayEnded == Spec => []EndedForGood
  <1>1. GInv => EndedForGood
    BY DEF GInv, Finished, EndedForGood
  <1> QED
    BY <1>1, GrantsInvariant, PTL

\* The store is of its types; the refresh token in a record nobody is working on, and
\* each one the rebind hands over, a listed grant's or a pending code's, is the latest
\* the provider issued for its login, unless an answer was lost or the code was
\* exchanged while the rebind held its token (exchange_refresh_token,
\* _try_transparent_refresh, recovery_rebind_oidc).
THEOREM TokensStayCurrent == Spec => []CurrentPair
  <1>1. GInv => StoredIsCurrent
    <2> SUFFICES ASSUME GInv, NEW g \in GrantIds, records[g] # None,
                        records[g].login \notin lost, Free(g)
                 PROVE  records[g].rt = issued[records[g].login]
      BY DEF StoredIsCurrent
    <2> DEFINE c == records[g].login
    <2>1. c \in Codes /\ Latest(c)
      BY DEF GInv, TypeOK, Record, Rotation
    <2>2. \A r \in Requests : Renewed(r) => requests[r].grant # g
      BY DEF Free, HoldsGrant, Renewed, Locking
    <2> QED
      BY <2>1, <2>2 DEF Latest, ByRecord
  <1>2. GInv => HandedOverIsCurrent
    <2>1. ASSUME GInv, NEW held \in host.credentials, held[1] \notin lost
          PROVE  held[2] = issued[held[1]]
      <3>1. held \in Codes \X (0..MaxRotation)
        BY <2>1 DEF GInv, TypeOK, Host
      <3>2. /\ held[1] \in Codes /\ held[2] \in 0..MaxRotation
            /\ <<held[1], held[2]>> \in host.credentials
        BY <2>1, <3>1
      <3> QED
        BY <2>1, <3>2 DEF GInv, Rotation, Handed
    <2>2. ASSUME GInv, NEW c \in host.pending \ (lost \cup host.late)
          PROVE  issued[c] = 0
      BY <2>2 DEF GInv, TypeOK, Host, Rotation, Pended
    <2> QED
      BY <2>1, <2>2 DEF HandedOverIsCurrent
  <1>3. GInv => CurrentPair
    BY <1>1, <1>2 DEF GInv, CurrentPair
  <1> QED
    BY <1>3, GrantsInvariant, PTL

\* A record names the identity that logged in, and all tokens of a grant carry one
\* identity, whoever owns the instance by then and whatever the provider's refreshes
\* claim (exchange_authorization_code, exchange_refresh_token).
THEOREM AuthoriserStays == Spec => []OneAuthoriser
  <1>1. GInv => OneAuthoriser
    BY DEF GInv, OneName, OneAuthoriser
  <1> QED
    BY <1>1, GrantsInvariant, PTL

\* Nobody waits in a circle: the rebind waits for a lock only while its one holder needs
\* nothing but the provider and the store, and a transition that waits for the rebind's
\* commit finds it past its last lock, for any number of grants and requests (what
\* RebindGetsLocks rests on beside fairness).
THEOREM RebindMeetsNoCircle == Spec => []LocksAreLetGo
  <1>1. ASSUME GInv, NEW r \in Requests, WaitsForCommit(r)
        PROVE  /\ Lock(r) /\ requests[r].grant \in host.records
               /\ host.at = "deleted" /\ requests[r].grant \notin host.listed
    <2>1. Lock(r)
      BY <1>1 DEF WaitsForCommit, Current, Lock, Locking
    <2>2. requests[r].grant \in GrantIds
      BY <1>1, <2>1 DEF GInv, TypeOK, Presented, Began, Lock, Pair
    <2>3. requests[r].grant \in host.records
      BY <1>1, <2>2 DEF WaitsForCommit, Writable
    <2>4. host.at = "deleted" /\ host.held = host.listed
      BY <1>1, <2>3 DEF GInv, HostShape
    <2> QED
      BY <1>1, <2>1, <2>3, <2>4 DEF GInv, Exclusive
  <1>2. ASSUME GInv, host.at = "locking", NEW g \in host.listed \ host.held, ~Free(g)
        PROVE  \E r \in Requests :
                  /\ HoldsGrant(r, g) /\ ~WaitsForCommit(r)
                  /\ \A q \in Requests : HoldsGrant(q, g) => q = r
    <2>1. PICK r \in Requests : HoldsGrant(r, g)
      BY <1>2 DEF Free
    <2>2. ~WaitsForCommit(r)
      BY <1>1, <1>2
    <2>3. ASSUME NEW q \in Requests, HoldsGrant(q, g) PROVE q = r
      BY <1>2, <2>1, <2>3 DEF GInv, Exclusive, HoldsGrant, Lock
    <2> QED
      BY <2>1, <2>2, <2>3
  <1>3. GInv => LocksAreLetGo
    BY <1>1, <1>2 DEF LocksAreLetGo
  <1> QED
    BY <1>3, GrantsInvariant, PTL

-----------------------------------------------------------------------------
(* ClientRecords.                                                            *)

(* The quota's table: one window an address, those that are over first, and  *)
(* an address's registrations are its current window's, if it has one.       *)
TableHolds ==
    /\ \E n \in 0..Len(windows) : \A i \in DOMAIN windows : windows[i].over <=> i <= n
    /\ \A i, j \in DOMAIN windows : windows[i].address = windows[j].address => i = j
    /\ \A i \in DOMAIN windows :
          made[windows[i].address] = IF windows[i].over THEN 0 ELSE windows[i].count
    /\ \A a \in Addresses : Of(a) = {} => made[a] = 0

(* A minted id is one registration's until it is told; only a client that    *)
(* was told exchanges codes.                                                 *)
IdsMinted ==
    /\ \A q \in Registering :
          /\ registering[q].client \notin told
          /\ registering[q].at \in {"minted", "culled", "counted"} => registering[q].client # Nobody
    /\ \A p, q \in Registering :
          registering[p].client = registering[q].client /\ registering[p].client # Nobody => p = q
    /\ \A c \in Clients : exchanging[c] # "no" => c \in told
    /\ kept \subseteq told

Counting == {q \in Registering : registering[q].at = "counted"}

(* A registration that counted may still write.                              *)
RoomLeft ==
    Cardinality(Live \ revived) + Cardinality(Counting) < MaxRecords + Cardinality(Registering)

RecordsInv == RecordsTypeOK /\ TableHolds /\ IdsMinted /\ KeptForGood /\ RoomLeft

-----------------------------------------------------------------------------
(* The quota.                                                              *)

LEMMA OthersWindows ==
    ASSUME NEW t \in Seq(Window), NEW k \in 0..Len(t), NEW w \in Window
    PROVE  LET u == Append(SubSeq(t, k + 1, Len(t)), w)
           IN  /\ u \in Seq(Window) /\ Len(u) = Len(t) - k + 1
               /\ u[Len(u)] = w
               /\ \A j \in 1..(Len(t) - k) : u[j] = t[j + k]
  <1> DEFINE s == SubSeq(t, k + 1, Len(t))
  <1>1. /\ s \in Seq(Window) /\ Len(s) = Len(t) - k
        /\ \A j \in 1..(Len(t) - k) : s[j] = t[j + k]
    BY SubSeqProperties
  <1> HIDE DEF s
  <1> DEFINE u == Append(s, w)
  <1>2. /\ u \in Seq(Window) /\ Len(u) = Len(s) + 1 /\ u[Len(s) + 1] = w
        /\ \A j \in 1..Len(s) : u[j] = s[j]
    BY <1>1, AppendProperties
  <1> HIDE DEF u
  <1>3. Len(u) = Len(t) - k + 1 /\ u[Len(u)] = w /\ \A j \in 1..(Len(t) - k) : u[j] = t[j + k]
    BY <1>1, <1>2
  <1> QED
    BY <1>2, <1>3 DEF s, u

LEMMA OneWindowLess ==
    ASSUME NEW t \in Seq(Window), NEW i \in 1..Len(t), NEW w \in Window
    PROVE  LET u == Append(RemoveAt(t, i), w)
           IN  /\ u \in Seq(Window) /\ Len(u) = Len(t)
               /\ u[Len(u)] = w
               /\ \A j \in 1..(Len(t) - 1) : u[j] = t[IF j < i THEN j ELSE j + 1]
  <1> DEFINE r == SubSeq(t, 1, i - 1)
             s == SubSeq(t, i + 1, Len(t))
             v == r \o s
  <1>1. r \in Seq(Window) /\ Len(r) = i - 1 /\ \A j \in 1..(i - 1) : r[j] = t[j]
    BY SubSeqProperties
  <1>2. s \in Seq(Window) /\ Len(s) = Len(t) - i /\ \A j \in 1..(Len(t) - i) : s[j] = t[j + i]
    BY SubSeqProperties
  <1> HIDE DEF r, s
  <1>3. /\ v \in Seq(Window) /\ Len(v) = Len(t) - 1
        /\ \A j \in 1..(Len(t) - 1) : v[j] = t[IF j < i THEN j ELSE j + 1]
    <2>1. /\ v \in Seq(Window) /\ Len(v) = Len(r) + Len(s)
          /\ \A j \in 1..(Len(r) + Len(s)) : v[j] = IF j <= Len(r) THEN r[j] ELSE s[j - Len(r)]
      BY <1>1, <1>2, ConcatProperties
    <2> HIDE DEF v
    <2>2. ASSUME NEW j \in 1..(Len(t) - 1) PROVE v[j] = t[IF j < i THEN j ELSE j + 1]
      <3>1. CASE j < i
        <4>1. j \in 1..(Len(r) + Len(s)) /\ j <= Len(r) /\ j \in 1..(i - 1)
          BY <1>1, <1>2, <3>1
        <4>2. v[j] = r[j] /\ r[j] = t[j]
          BY <1>1, <2>1, <4>1
        <4> QED
          BY <3>1, <4>2
      <3>2. CASE ~(j < i)
        <4>0. /\ j \in 1..(Len(r) + Len(s)) /\ ~(j <= Len(r)) /\ j - Len(r) = j - (i - 1)
              /\ j - (i - 1) \in 1..(Len(t) - i)
          BY <1>1, <1>2, <3>2
        <4>1. v[j] = s[j - (i - 1)]
          BY <2>1, <4>0
        <4>2. (j - (i - 1)) + i = j + 1
          OBVIOUS
        <4> QED
          BY <1>2, <3>2, <4>0, <4>1, <4>2
      <3> QED
        BY <3>1, <3>2
    <2> QED
      BY <1>1, <1>2, <2>1, <2>2
  <1> HIDE DEF v
  <1>4. RemoveAt(t, i) = v
    BY DEF RemoveAt, r, s, v
  <1> DEFINE u == Append(v, w)
  <1>5. /\ u \in Seq(Window) /\ Len(u) = Len(v) + 1 /\ u[Len(v) + 1] = w
        /\ \A j \in 1..Len(v) : u[j] = v[j]
    BY <1>3, AppendProperties
  <1> HIDE DEF u
  <1>6. Len(u) = Len(t) /\ u[Len(u)] = w /\ \A j \in 1..(Len(t) - 1) : u[j] = v[j]
    BY <1>3, <1>5
  <1> QED
    BY <1>3, <1>4, <1>5, <1>6 DEF u

New(a) == [address |-> a, count |-> 1, over |-> FALSE]

LEMMA OverIsThere ==
    ASSUME TableHolds, NEW n, n = Over(windows)
    PROVE  n \in 0..Len(windows) /\ \A i \in DOMAIN windows : windows[i].over <=> i <= n
  BY DEF TableHolds, Over

LEMMA TableKeepsItsRules ==
    ASSUME RecordsTypeOK, TableHolds, NEW q \in Registering, NEW a \in Addresses, Ask(q, a)
    PROVE  /\ TableHolds'
           /\ windows' \in Seq(Window) /\ Len(windows') <= MaxWindows
           /\ made' \in [Addresses -> Nat]
  <1> DEFINE L == Len(windows)
  <1>1. /\ windows \in Seq(Window) /\ L \in Nat /\ L <= MaxWindows /\ DOMAIN windows = 1..L
        /\ made \in [Addresses -> Nat] /\ MaxWindows \in Nat \ {0} /\ Quota \in Nat \ {0}
        /\ \A i \in 1..L : windows[i] \in Window
    BY ClientRecordsAssumption, LenProperties, ElementOfSeq DEF RecordsTypeOK
  <1> HIDE DEF L
  <1>2. /\ windows' = Admitting(a)
        /\ made' = [b \in Addresses |->
                       IF b = a THEN made[a] + 1
                       ELSE IF Flooded(b) /\ \A i \in DOMAIN windows' : windows'[i].address # b
                       THEN 0 ELSE made[b]]
    BY DEF Ask
  <1>3. made' \in [Addresses -> Nat]
    BY <1>1, <1>2
  <1>4. New(a) \in Window
    BY <1>1 DEF New, Window
  <1>5. CASE Of(a) = {}
    <2>1. PICK k \in 0..L :
             /\ windows' = Append(SubSeq(windows, k + 1, L), New(a))
             /\ L - k + 1 <= MaxWindows
             /\ \/ \A i \in 1..L : i <= k => windows[i].over
                \/ k = 1 /\ L >= MaxWindows /\ \A i \in 1..L : ~windows[i].over
      <3>1. CASE L < MaxWindows
        <4>1. SubSeq(windows, 1, L) = windows
          BY <1>1, SubSeqFull DEF L
        <4>2. windows' = Append(SubSeq(windows, 0 + 1, L), New(a))
          BY <1>1, <1>2, <1>5, <3>1, <4>1 DEF Admitting, New, L
        <4> QED
          BY SMTT(30), <1>1, <3>1, <4>2
      <3>2. CASE L >= MaxWindows
        <4> DEFINE n == Over(windows)
                   current == SubSeq(windows, n + 1, L)
        <4>1. n \in 0..L /\ \A i \in 1..L : windows[i].over <=> i <= n
          BY <1>1, OverIsThere DEF L
        <4>2. Len(current) = L - n
          BY <1>1, <4>1, SubSeqProperties
        <4>3. windows' = Append(IF Len(current) >= MaxWindows THEN Tail(current) ELSE current, New(a))
          BY <1>1, <1>2, <1>5, <3>2 DEF Admitting, Evicted, New, L
        <4>4. CASE n = 0
          <5>1. current = windows /\ Tail(current) = SubSeq(windows, 2, L)
            BY <1>1, <3>2, <4>4, SubSeqFull, TailIsSubSeq DEF L
          <5>2. windows' = Append(SubSeq(windows, 1 + 1, L), New(a))
            BY SMTT(30), <1>1, <3>2, <4>2, <4>3, <4>4, <5>1
          <5> QED
            BY SMTT(30), <1>1, <3>2, <4>1, <4>4, <5>2
        <4>5. CASE n # 0
          <5>1. windows' = Append(SubSeq(windows, n + 1, L), New(a))
            BY SMTT(30), <1>1, <4>1, <4>2, <4>3, <4>5
          <5>2. L - n + 1 <= MaxWindows /\ \A i \in 1..L : i <= n => windows[i].over
            BY <1>1, <4>1, <4>5
          <5> HIDE DEF n, current
          <5> QED
            BY <4>1, <5>1, <5>2
        <4> QED
          BY <4>4, <4>5
      <3> QED
        BY <1>1, <3>1, <3>2
    <2>2. /\ windows' \in Seq(Window) /\ Len(windows') = L - k + 1
          /\ windows'[L - k + 1] = New(a)
          /\ \A j \in 1..(L - k) : windows'[j] = windows[j + k]
      <3>1. windows' = Append(SubSeq(windows, k + 1, Len(windows)), New(a)) /\ k \in 0..Len(windows)
        BY <2>1 DEF L
      <3> DEFINE w == New(a)
      <3>2. w \in Window
        BY <1>4
      <3> HIDE DEF w
      <3>3. LET u == Append(SubSeq(windows, k + 1, Len(windows)), w)
            IN  /\ u \in Seq(Window) /\ Len(u) = Len(windows) - k + 1
                /\ u[Len(u)] = w
                /\ \A j \in 1..(Len(windows) - k) : u[j] = windows[j + k]
        BY ZenonT(60), <1>1, <3>1, <3>2, OthersWindows
      <3> QED
        BY <3>1, <3>3 DEF w, L
    <2>3. DOMAIN windows' = 1..(L - k + 1)
      BY <1>1, <2>1, <2>2, LenProperties
    <2>4. \A j \in 1..(L - k) : j + k \in 1..L /\ windows'[j].address # a
      <3>1. \A j \in 1..(L - k) : j + k \in 1..L
        BY <1>1, <2>1
      <3>2. \A i \in 1..L : windows[i].address # a
        BY <1>1, <1>5 DEF Of
      <3> QED
        BY <2>2, <3>1, <3>2
    <2> DEFINE last == L - k + 1
    <2>12. /\ last \in Nat \ {0} /\ \A j \in 1..last : j = last \/ j \in 1..(L - k)
           /\ last \notin 1..(L - k) /\ 0 \in 0..last /\ last > L - k
      BY <1>1, <2>1
    <2>5. PICK n \in 0..L : \A i \in 1..L : windows[i].over <=> i <= n
      BY <1>1 DEF TableHolds, L
    <2> DEFINE Split(m) == \A j \in 1..last : windows'[j].over <=> j <= m
    <2>6. \E m \in 0..last : Split(m)
      <3>1. CASE n <= k
        <4>1. \A j \in 1..(L - k) : ~windows'[j].over
          BY <1>1, <2>1, <2>2, <2>4, <2>5, <3>1
        <4>2. Split(0)
          BY <2>2, <2>12, <4>1 DEF New
        <4> HIDE DEF Split, last
        <4> QED
          BY <2>12, <4>2
      <3>2. CASE n > k
        <4>1. \A j \in 1..(L - k) : windows'[j].over <=> j <= n - k
          <5> SUFFICES ASSUME NEW j \in 1..(L - k) PROVE windows'[j].over <=> j <= n - k
            OBVIOUS
          <5>1. j + k \in 1..L /\ windows'[j] = windows[j + k]
            BY <2>2, <2>4
          <5>2. j + k <= n <=> j <= n - k
            BY <1>1, <2>1, <2>5
          <5> QED
            BY <2>5, <5>1, <5>2
        <4>2. n - k \in 0..last /\ ~(last <= n - k)
          BY <1>1, <2>1, <2>5, <3>2
        <4>3. Split(n - k)
          BY <2>2, <2>12, <4>1, <4>2 DEF New
        <4> HIDE DEF Split, last
        <4> QED
          BY <4>2, <4>3
      <3>3. n <= k \/ n > k
        BY <1>1, <2>1, <2>5
      <3> HIDE DEF Split, last
      <3> QED
        BY <3>1, <3>2, <3>3
    <2>7. \A i, j \in DOMAIN windows' : windows'[i].address = windows'[j].address => i = j
      <3> SUFFICES ASSUME NEW i \in 1..last, NEW j \in 1..last,
                          windows'[i].address = windows'[j].address
                   PROVE  i = j
        BY <2>3
      <3>1. CASE i \in 1..(L - k) /\ j \in 1..(L - k)
        <4>1. windows[i + k].address = windows[j + k].address
          BY <2>2, <3>1
        <4>2. i + k = j + k
          BY <1>1, <2>4, <3>1, <4>1 DEF TableHolds
        <4> QED
          BY <1>1, <2>1, <3>1, <4>2
      <3>2. windows'[last].address = a
        BY <2>2 DEF New
      <3> HIDE DEF last
      <3> QED
        BY <2>4, <2>12, <3>1, <3>2
    <2>8. \A b \in Addresses \ {a} : (\A j \in DOMAIN windows' : windows'[j].address # b) => made'[b] = 0
      <3> SUFFICES ASSUME NEW b \in Addresses \ {a}, \A j \in DOMAIN windows' : windows'[j].address # b
                   PROVE  made'[b] = 0
        OBVIOUS
      <3>1. CASE Of(b) = {}
        BY <1>2, <3>1 DEF TableHolds
      <3>2. CASE Of(b) # {}
        <4>1. PICK i \in 1..L : windows[i].address = b
          BY <1>1, <3>2 DEF Of
        <4>2. i <= k
          <5> SUFFICES ASSUME i > k PROVE FALSE
            BY <1>1, <2>1
          <5>1. i - k \in 1..(L - k) /\ (i - k) + k = i
            BY <1>1, <2>1
          <5>2. windows'[i - k] = windows[i]
            BY <2>2, <5>1
          <5>3. i - k \in DOMAIN windows'
            BY <1>1, <2>1, <2>3, <5>1
          <5> QED
            BY <4>1, <5>2, <5>3
        <4>3. CASE windows[i].over
          <5>1. made[b] = 0
            BY <1>1, <4>1, <4>3 DEF TableHolds
          <5> QED
            BY <1>2, <5>1
        <4>4. CASE ~windows[i].over
          <5>1. i = 1 /\ k = 1 /\ L >= MaxWindows /\ \A j \in 1..L : ~windows[j].over
            BY <1>1, <2>1, <4>2, <4>4
          <5>2. Flooded(b)
            BY <1>1, <4>1, <5>1 DEF Flooded, Of, L
          <5> QED
            BY <1>2, <5>2
        <4> QED
          BY <4>3, <4>4
      <3> QED
        BY <3>1, <3>2
    <2>9. \A j \in DOMAIN windows' :
             made'[windows'[j].address] = IF windows'[j].over THEN 0 ELSE windows'[j].count
      <3> SUFFICES ASSUME NEW j \in 1..(L - k + 1)
                   PROVE  made'[windows'[j].address] = IF windows'[j].over THEN 0 ELSE windows'[j].count
        BY <2>3
      <3>1. CASE j = L - k + 1
        <4>1. made[a] = 0
          BY <1>5 DEF TableHolds
        <4> QED
          BY <1>2, <2>2, <3>1, <4>1 DEF New
      <3>2. CASE j # L - k + 1
        <4>1. j \in 1..(L - k) /\ j \in DOMAIN windows'
          BY <1>1, <2>1, <2>3, <3>2
        <4>2. windows'[j] = windows[j + k] /\ j + k \in 1..L /\ windows'[j].address # a
          BY <2>2, <2>4, <4>1
        <4>3. windows[j + k].address \in Addresses
          BY <1>1, <4>2 DEF Window
        <4>4. made'[windows'[j].address] = made[windows[j + k].address]
          BY <1>2, <4>1, <4>2, <4>3
        <4> QED
          BY <1>1, <4>2, <4>4 DEF TableHolds
      <3> QED
        BY <3>1, <3>2
    <2>10. L - k + 1 \in DOMAIN windows' /\ windows'[L - k + 1].address = a
      BY <1>1, <2>1, <2>2, <2>3 DEF New
    <2>11. TableHolds'
      BY <2>2, <2>3, <2>6, <2>7, <2>8, <2>9, <2>10 DEF TableHolds, Of
    <2> QED
      BY <1>1, <1>3, <2>1, <2>2, <2>11
  <1>6. CASE Of(a) # {}
    <2> DEFINE i == CHOOSE j \in Of(a) : TRUE
    <2>1. i \in 1..L /\ windows[i].address = a
      BY <1>1, <1>6 DEF Of
    <2>2. windows' = IF windows[i].over THEN Append(RemoveAt(windows, i), New(a))
                     ELSE [windows EXCEPT ![i].count = @ + 1]
      BY <1>2, <1>6 DEF Admitting, New
    <2> HIDE DEF i
    <2>3. made'[a] = made[a] + 1 /\ made[a] = IF windows[i].over THEN 0 ELSE windows[i].count
      BY <1>1, <1>2, <2>1 DEF TableHolds
    <2>4. PICK n \in 0..L : \A j \in 1..L : windows[j].over <=> j <= n
      BY <1>1 DEF TableHolds, L
    <2>5. \A j, h \in 1..L : windows[j].address = windows[h].address => j = h
      BY <1>1 DEF TableHolds, L
    <2>6. \A j \in 1..L : j # i => windows[j].address # a
      BY <2>1, <2>5
    <2>7. CASE windows[i].over
      <3>1. /\ windows' \in Seq(Window) /\ Len(windows') = L
            /\ windows'[L] = New(a)
            /\ \A j \in 1..(L - 1) : windows'[j] = windows[IF j < i THEN j ELSE j + 1]
        <4>1. windows' = Append(RemoveAt(windows, i), New(a)) /\ i \in 1..Len(windows)
          BY <2>1, <2>2, <2>7 DEF L
        <4> DEFINE w == New(a)
        <4>2. w \in Window
          BY <1>4
        <4> HIDE DEF w
        <4>3. LET u == Append(RemoveAt(windows, i), w)
              IN  /\ u \in Seq(Window) /\ Len(u) = Len(windows)
                  /\ u[Len(u)] = w
                  /\ \A j \in 1..(Len(windows) - 1) : u[j] = windows[IF j < i THEN j ELSE j + 1]
          BY <1>1, <4>1, <4>2, OneWindowLess
        <4> QED
          BY <4>1, <4>3 DEF w, L
      <3>2. DOMAIN windows' = 1..L
        BY <3>1, LenProperties
      <3> DEFINE from(j) == IF j < i THEN j ELSE j + 1
      <3>3. \A j \in 1..(L - 1) : from(j) \in 1..L /\ from(j) # i
        BY <1>1, <2>1
      <3>4. \A j, h \in 1..(L - 1) : from(j) = from(h) => j = h
        BY <1>1, <2>1
      <3>5. \A b \in 1..L : b # i => \E j \in 1..(L - 1) : from(j) = b
        <4> SUFFICES ASSUME NEW b \in 1..L, b # i PROVE \E j \in 1..(L - 1) : from(j) = b
          OBVIOUS
        <4>1. CASE b < i
          <5>1. b \in 1..(L - 1) /\ from(b) = b
            BY <1>1, <2>1, <4>1
          <5> QED
            BY <5>1
        <4>2. CASE b > i
          <5>1. b - 1 \in 1..(L - 1) /\ from(b - 1) = b
            BY <1>1, <2>1, <4>2
          <5> QED
            BY <5>1
        <4> QED
          BY <1>1, <2>1, <4>1, <4>2
      <3>6. n >= 1 /\ \A j \in 1..(L - 1) : from(j) <= n <=> j <= n - 1
        BY <1>1, <2>1, <2>4, <2>7
      <3> HIDE DEF from
      <3>7. \A j \in 1..(L - 1) : windows'[j] = windows[from(j)]
        BY <3>1 DEF from
      <3>8. \A j \in 1..L : windows'[j].over <=> j <= n - 1
        <4>1. \A j \in 1..(L - 1) : windows'[j].over <=> j <= n - 1
          BY <2>4, <3>3, <3>6, <3>7
        <4>2. ~windows'[L].over /\ ~(L <= n - 1)
          BY <1>1, <2>4, <3>1 DEF New
        <4> QED
          BY <1>1, <4>1, <4>2
      <3>9. \E m \in 0..Len(windows') : \A j \in DOMAIN windows' : windows'[j].over <=> j <= m
        <4>1. n - 1 \in 0..L
          BY <1>1, <2>4, <3>6
        <4> QED
          BY <3>1, <3>2, <3>8, <4>1
      <3>10. \A j \in 1..(L - 1) : windows'[j].address # a
        BY <2>6, <3>3, <3>7
      <3>11. \A j, h \in DOMAIN windows' : windows'[j].address = windows'[h].address => j = h
        <4>1. \A j, h \in 1..(L - 1) : windows'[j].address = windows'[h].address => j = h
          BY <2>5, <3>3, <3>4, <3>7
        <4>2. windows'[L].address = a
          BY <3>1 DEF New
        <4> QED
          BY <1>1, <3>2, <3>10, <4>1, <4>2
      <3>12. \A b \in Addresses : b # a /\ Of(b) # {} => \E j \in DOMAIN windows' : windows'[j].address = b
        <4> SUFFICES ASSUME NEW b \in Addresses, b # a, Of(b) # {}
                     PROVE  \E j \in DOMAIN windows' : windows'[j].address = b
          OBVIOUS
        <4>1. PICK h \in 1..L : windows[h].address = b
          BY <1>1 DEF Of
        <4>2. PICK j \in 1..(L - 1) : from(j) = h
          BY <2>1, <3>5, <4>1
        <4>3. j \in DOMAIN windows' /\ windows'[j].address = b
          BY <1>1, <3>2, <3>7, <4>1, <4>2
        <4> QED
          BY <4>3
      <3>13. \A b \in Addresses : b # a /\ Of(b) = {} => made'[b] = 0
        BY <1>2 DEF TableHolds
      <3>14. \A j \in 1..(L - 1) : made'[windows'[j].address] = made[windows[from(j)].address]
        <4> SUFFICES ASSUME NEW j \in 1..(L - 1)
                     PROVE  made'[windows'[j].address] = made[windows[from(j)].address]
          OBVIOUS
        <4>0. windows'[j] = windows[from(j)] /\ from(j) \in 1..L
          BY <3>3, <3>7
        <4>1. windows[from(j)] \in Window
          BY <1>1, <4>0
        <4>2. windows'[j].address \in Addresses
          BY <4>0, <4>1 DEF Window
        <4>3. windows'[j].address # a /\ j \in DOMAIN windows'
          BY <1>1, <3>2, <3>10
        <4> QED
          BY <1>2, <4>0, <4>2, <4>3
      <3>15. \A j \in DOMAIN windows' :
                made'[windows'[j].address] = IF windows'[j].over THEN 0 ELSE windows'[j].count
        <4>1. \A j \in 1..(L - 1) :
                 made'[windows'[j].address] = IF windows'[j].over THEN 0 ELSE windows'[j].count
          BY <1>1, <3>3, <3>7, <3>14 DEF TableHolds
        <4>2. made'[windows'[L].address] = IF windows'[L].over THEN 0 ELSE windows'[L].count
          BY <2>3, <2>7, <3>1 DEF New
        <4> QED
          BY <1>1, <3>2, <4>1, <4>2
      <3>16. L \in DOMAIN windows' /\ windows'[L].address = a
        BY <1>1, <2>1, <3>1, <3>2 DEF New
      <3>17. TableHolds'
        BY <3>9, <3>11, <3>12, <3>13, <3>15, <3>16 DEF TableHolds, Of
      <3> QED
        BY <1>1, <1>3, <3>1, <3>17
    <2>8. CASE ~windows[i].over
      <3>1. windows' = [windows EXCEPT ![i].count = @ + 1]
        BY <2>2, <2>8
      <3>2. windows[i].count < Quota /\ windows[i].count \in 1..Quota
        <4>1. ~Throttled(a) /\ i \in Of(a)
          BY <1>1, <2>1 DEF Ask, Of
        <4>2. windows[i].count \in 1..Quota
          BY <1>1, <2>1 DEF Window
        <4> QED
          BY <1>1, <2>8, <4>1, <4>2 DEF Throttled
      <3>3. [windows[i] EXCEPT !.count = @ + 1] \in Window
        <4>1. windows[i] \in [address : Addresses, count : 1..Quota, over : BOOLEAN]
          BY <1>1, <2>1 DEF Window
        <4>2. windows[i].count + 1 \in 1..Quota
          BY <1>1, <3>2
        <4> QED
          BY <4>1, <4>2 DEF Window
      <3>4. windows' \in Seq(Window) /\ Len(windows') = L /\ DOMAIN windows' = 1..L
        BY <1>1, <2>1, <3>1, <3>3, ExceptSeq DEF L
      <3>5. \A j \in 1..L : /\ windows'[j].address = windows[j].address
                            /\ windows'[j].over = windows[j].over
                            /\ windows'[j].count = IF j = i THEN windows[i].count + 1 ELSE windows[j].count
        <4>1. \A j \in 1..L : j # i => windows'[j] = windows[j]
          BY <1>1, <2>1, <3>1
        <4>2. windows'[i] = [windows[i] EXCEPT !.count = @ + 1]
          BY <1>1, <2>1, <3>1
        <4>3. windows[i] \in [address : Addresses, count : 1..Quota, over : BOOLEAN]
          BY <1>1, <2>1 DEF Window
        <4>4. /\ windows'[i].address = windows[i].address /\ windows'[i].over = windows[i].over
              /\ windows'[i].count = windows[i].count + 1
          BY <4>2, <4>3
        <4> QED
          BY <4>1, <4>4
      <3>6. \A b \in Addresses : Of(b)' = Of(b)
        BY <1>1, <3>4, <3>5 DEF Of
      <3>7. \A b \in Addresses : b # a => made'[b] = made[b]
        <4> SUFFICES ASSUME NEW b \in Addresses, b # a PROVE made'[b] = made[b]
          OBVIOUS
        <4>1. Of(b) # {} => \E j \in DOMAIN windows' : windows'[j].address = b
          BY <1>1, <3>4, <3>5 DEF Of
        <4>2. Flooded(b) => Of(b) # {}
          BY DEF Flooded
        <4> QED
          BY <1>2, <4>1, <4>2
      <3>8. \A j \in 1..L : windows[j].address \in Addresses
        BY <1>1 DEF Window
      <3>9. \A j \in DOMAIN windows' :
                made'[windows'[j].address] = IF windows'[j].over THEN 0 ELSE windows'[j].count
        <4>1. \A j \in 1..L : j # i => made'[windows'[j].address] = made[windows[j].address]
          BY <2>6, <3>5, <3>7, <3>8
        <4>2. made'[windows'[i].address] = windows[i].count + 1
          BY <2>1, <2>3, <2>8, <3>5
        <4> QED
          BY <1>1, <2>1, <2>8, <3>4, <3>5, <4>1, <4>2 DEF TableHolds
      <3>10. a \in Addresses /\ Of(a) # {}
        BY <1>6
      <3>11. \A b \in Addresses : Of(b)' = {} => made'[b] = 0
        BY <3>6, <3>7, <3>10 DEF TableHolds
      <3>12. \E m \in 0..Len(windows') : \A j \in DOMAIN windows' : windows'[j].over <=> j <= m
        BY <2>4, <3>4, <3>5
      <3>13. \A j, h \in DOMAIN windows' : windows'[j].address = windows'[h].address => j = h
        BY <2>5, <3>4, <3>5
      <3>14. TableHolds'
        BY <3>9, <3>11, <3>12, <3>13 DEF TableHolds
      <3> QED
        BY <1>1, <1>3, <3>4, <3>14
    <2> QED
      BY <2>7, <2>8
  <1> QED
    BY <1>5, <1>6


LEMMA WindowEndsInOrder ==
    ASSUME RecordsTypeOK, TableHolds, WindowEnds
    PROVE  /\ TableHolds'
           /\ windows' \in Seq(Window) /\ Len(windows') <= MaxWindows
           /\ made' \in [Addresses -> Nat]
  <1> DEFINE L == Len(windows)
  <1>1. /\ windows \in Seq(Window) /\ L \in Nat /\ L <= MaxWindows /\ DOMAIN windows = 1..L
        /\ made \in [Addresses -> Nat] /\ \A i \in 1..L : windows[i] \in Window
    BY LenProperties, ElementOfSeq DEF RecordsTypeOK
  <1> HIDE DEF L
  <1>2. PICK i \in DOMAIN windows :
           /\ ~windows[i].over
           /\ \A j \in 1..(i - 1) : windows[j].over
           /\ windows' = [windows EXCEPT ![i].over = TRUE]
           /\ made' = [made EXCEPT ![windows[i].address] = 0]
    BY DEF WindowEnds
  <1>3. PICK n \in 0..L : \A j \in 1..L : windows[j].over <=> j <= n
    BY <1>1 DEF TableHolds, L
  <1>4. n + 1 = i /\ i \in 1..L
    <2>1. ~(i <= n)
      BY <1>1, <1>2, <1>3
    <2>2. i - 1 <= n
      <3> SUFFICES ASSUME i - 1 > n PROVE FALSE
        BY <1>1, <1>3
      <3>1. i - 1 \in 1..(i - 1) /\ i - 1 \in 1..L
        BY <1>1, <1>3
      <3> QED
        BY <1>2, <1>3, <3>1
    <2> QED
      BY <1>1, <1>3, <2>1, <2>2
  <1>5. windows[i] \in [address : Addresses, count : 1..Quota, over : BOOLEAN]
    BY <1>1, <1>4 DEF Window
  <1>6. [windows[i] EXCEPT !.over = TRUE] \in Window
    BY <1>5 DEF Window
  <1>7. windows' \in Seq(Window) /\ Len(windows') = L /\ DOMAIN windows' = 1..L
    BY <1>1, <1>2, <1>4, <1>6, ExceptSeq DEF L
  <1>8. \A j \in 1..L : /\ windows'[j].address = windows[j].address
                        /\ windows'[j].count = windows[j].count
                        /\ windows'[j].over <=> windows[j].over \/ j = i
    <2>1. \A j \in 1..L : j # i => windows'[j] = windows[j]
      BY <1>1, <1>2, <1>4
    <2>2. windows'[i] = [windows[i] EXCEPT !.over = TRUE]
      BY <1>1, <1>2, <1>4
    <2>3. windows'[i].address = windows[i].address /\ windows'[i].count = windows[i].count /\ windows'[i].over
      BY <1>5, <2>2
    <2> QED
      BY <2>1, <2>3
  <1>9. \A j \in 1..L : windows'[j].over <=> j <= n + 1
    BY <1>1, <1>3, <1>4, <1>8
  <1>10. \E m \in 0..Len(windows') : \A j \in DOMAIN windows' : windows'[j].over <=> j <= m
    <2>1. n + 1 \in 0..Len(windows')
      BY <1>1, <1>3, <1>4, <1>7
    <2> QED
      BY <1>7, <1>9, <2>1
  <1>11. \A j, h \in 1..L : windows[j].address = windows[h].address => j = h
    BY <1>1 DEF TableHolds
  <1>12. \A j \in 1..L : windows[j].address \in Addresses
    BY <1>1 DEF Window
  <1>13. \A j \in 1..L : made'[windows[j].address] = IF j = i THEN 0 ELSE made[windows[j].address]
    BY <1>1, <1>2, <1>4, <1>11, <1>12
  <1>14. \A j \in DOMAIN windows' :
            made'[windows'[j].address] = IF windows'[j].over THEN 0 ELSE windows'[j].count
    BY <1>1, <1>7, <1>8, <1>13 DEF TableHolds
  <1>15. \A j, h \in DOMAIN windows' : windows'[j].address = windows'[h].address => j = h
    BY <1>7, <1>8, <1>11
  <1>16. \A b \in Addresses : Of(b)' = {} => made'[b] = 0
    BY <1>1, <1>2, <1>7, <1>8 DEF TableHolds, Of
  <1>17. made' \in [Addresses -> Nat]
    BY <1>1, <1>2
  <1> QED
    BY <1>1, <1>7, <1>10, <1>14, <1>15, <1>16, <1>17 DEF TableHolds

LEMMA TableForgotten ==
    ASSUME windows' = <<>>, made' = [a \in Addresses |-> 0], MaxWindows \in Nat
    PROVE  /\ TableHolds'
           /\ windows' \in Seq(Window) /\ Len(windows') <= MaxWindows
           /\ made' \in [Addresses -> Nat]
  <1>1. windows' \in Seq(Window) /\ Len(windows') = 0 /\ DOMAIN windows' = {} /\ 0 \in 0..Len(windows')
    OBVIOUS
  <1>2. \E m \in 0..Len(windows') : \A j \in DOMAIN windows' : windows'[j].over <=> j <= m
    BY <1>1
  <1> QED
    BY <1>1, <1>2 DEF TableHolds, Of

-----------------------------------------------------------------------------
(* The cap.                                                                *)

(* A set that does not grow keeps the room there is.                         *)
LEMMA RoomIsKept ==
    ASSUME RecordsTypeOK, RoomLeft,
           (Live \ revived)' \subseteq Live \ revived, Counting' \subseteq Counting
    PROVE  RoomLeft'
  <1>1. IsFiniteSet(Live \ revived) /\ IsFiniteSet(Counting)
    BY ClientRecordsAssumption, FS_Subset DEF Live, Counting
  <1>2. /\ Cardinality((Live \ revived)') <= Cardinality(Live \ revived)
        /\ Cardinality(Counting') <= Cardinality(Counting)
        /\ IsFiniteSet((Live \ revived)') /\ IsFiniteSet(Counting')
    BY <1>1, FS_Subset
  <1>3. /\ Cardinality((Live \ revived)') \in Nat /\ Cardinality(Live \ revived) \in Nat
        /\ Cardinality(Counting') \in Nat /\ Cardinality(Counting) \in Nat
        /\ Cardinality(Registering) \in Nat /\ MaxRecords \in Nat
    BY <1>1, <1>2, ClientRecordsAssumption, FS_CardinalityType
  <1> DEFINE m1 == Cardinality((Live \ revived)')
             m2 == Cardinality(Live \ revived)
             k1 == Cardinality(Counting')
             k2 == Cardinality(Counting)
             R == Cardinality(Registering)
  <1>4. m2 + k2 < MaxRecords + R
    BY DEF RoomLeft
  <1> HIDE DEF m1, m2, k1, k2, R
  <1>5. m1 + k1 < MaxRecords + R
    BY <1>2, <1>3, <1>4 DEF m1, m2, k1, k2, R
  <1> QED
    BY <1>5 DEF RoomLeft, m1, k1, R

(* What was counted fits, however many counted with it.                      *)
LEMMA RoomIsCounted ==
    ASSUME RecordsTypeOK, RoomLeft, NEW q \in Registering, CountLive(q)
    PROVE  RoomLeft'
  <1>1. CASE ~Fits
    <2>1. (Live \ revived)' = Live \ revived
      BY DEF CountLive, Live
    <2>2. Counting' \subseteq Counting
      BY <1>1 DEF CountLive, Counting, RecordsTypeOK, Away
    <2> QED
      BY <2>1, <2>2, RoomIsKept
  <1>2. CASE Fits
    <2>1. IsFiniteSet(Live) /\ IsFiniteSet(Live \ revived) /\ IsFiniteSet(Counting')
      BY ClientRecordsAssumption, FS_Subset DEF Live, Counting
    <2>2. /\ Cardinality(Live \ revived) <= Cardinality(Live)
          /\ Cardinality(Counting') <= Cardinality(Registering)
      BY <2>1, ClientRecordsAssumption, FS_Subset DEF Counting
    <2>3. /\ Cardinality(Live \ revived) \in Nat /\ Cardinality(Live) \in Nat
          /\ Cardinality(Counting') \in Nat
          /\ Cardinality(Registering) \in Nat /\ MaxRecords \in Nat
      BY <2>1, ClientRecordsAssumption, FS_CardinalityType
    <2>4. (Live \ revived)' = Live \ revived
      BY DEF CountLive, Live
    <2>5. Cardinality(Live) < MaxRecords
      BY <1>2 DEF Fits
    <2>6. Cardinality(Live \ revived) + Cardinality(Counting') < MaxRecords + Cardinality(Registering)
      BY <2>2, <2>3, <2>5
    <2> QED
      BY <2>4, <2>6 DEF RoomLeft
  <1> QED
    BY <1>1, <1>2

(* The row that is written takes the place of a registration that counted.   *)
LEMMA RoomIsTaken ==
    ASSUME RecordsTypeOK, RoomLeft, NEW q \in Registering, Register(q)
    PROVE  RoomLeft'
  <1> DEFINE c == registering[q].client
  <1>1. (Live \ revived)' \subseteq (Live \ revived) \cup {c}
    BY DEF Register, Live, RecordsTypeOK
  <1>2. Counting' \subseteq Counting \ {q} /\ q \in Counting
    BY DEF Register, Counting, RecordsTypeOK, Away
  <1> HIDE DEF c
  <1>3. IsFiniteSet(Live \ revived) /\ IsFiniteSet(Counting)
    BY ClientRecordsAssumption, FS_Subset DEF Live, Counting
  <1>4. /\ IsFiniteSet((Live \ revived) \cup {c})
        /\ Cardinality((Live \ revived) \cup {c}) \in {Cardinality(Live \ revived), Cardinality(Live \ revived) + 1}
    BY <1>3, FS_AddElement
  <1>5. IsFiniteSet(Counting \ {q}) /\ Cardinality(Counting \ {q}) = Cardinality(Counting) - 1
    BY <1>2, <1>3, FS_RemoveElement
  <1>6. /\ Cardinality((Live \ revived)') <= Cardinality((Live \ revived) \cup {c})
        /\ Cardinality(Counting') <= Cardinality(Counting \ {q})
        /\ IsFiniteSet((Live \ revived)') /\ IsFiniteSet(Counting')
    BY <1>1, <1>2, <1>4, <1>5, FS_Subset
  <1>7. /\ Cardinality((Live \ revived)') \in Nat /\ Cardinality(Live \ revived) \in Nat
        /\ Cardinality(Counting') \in Nat /\ Cardinality(Counting) \in Nat
        /\ Cardinality(Registering) \in Nat /\ MaxRecords \in Nat
    BY <1>3, <1>6, ClientRecordsAssumption, FS_CardinalityType
  <1> DEFINE m1 == Cardinality((Live \ revived)')
             m2 == Cardinality(Live \ revived)
             k1 == Cardinality(Counting')
             k2 == Cardinality(Counting)
             R == Cardinality(Registering)
  <1>8. m1 <= m2 + 1 /\ k1 <= k2 - 1
    BY <1>4, <1>5, <1>6, <1>7
  <1>9. m2 + k2 < MaxRecords + R
    BY DEF RoomLeft
  <1>10. m1 \in Nat /\ m2 \in Nat /\ k1 \in Nat /\ k2 \in Nat /\ R \in Nat /\ MaxRecords \in Nat
    BY <1>7
  <1> HIDE DEF m1, m2, k1, k2, R
  <1>11. m1 + k1 < MaxRecords + R
    BY <1>8, <1>9, <1>10
  <1> QED
    BY <1>11 DEF RoomLeft, m1, k1, R

-----------------------------------------------------------------------------
(* A step.                                                                 *)

LEMMA RecordsInitially ==
    ASSUME RecordsInit
    PROVE  RecordsInv
  <1>1. windows \in Seq(Window) /\ Len(windows) = 0 /\ DOMAIN windows = {} /\ 0 \in 0..Len(windows)
    BY DEF RecordsInit
  <1>2. MaxWindows \in Nat /\ MaxRecords \in Nat \ {0} /\ IsFiniteSet(Registering)
    BY ClientRecordsAssumption
  <1>3. RecordsTypeOK
    BY <1>1, <1>2 DEF RecordsInit, RecordsTypeOK, Lifetimes, Away
  <1>4. TableHolds
    <2>1. \E n \in 0..Len(windows) : \A i \in DOMAIN windows : windows[i].over <=> i <= n
      BY <1>1
    <2> QED
      BY <1>1, <2>1 DEF RecordsInit, TableHolds, Of
  <1>5. IdsMinted /\ KeptForGood
    BY DEF RecordsInit, IdsMinted, KeptForGood, Away
  <1>6. RoomLeft
    <2>1. Live \ revived = {} /\ Counting = {}
      BY DEF RecordsInit, Live, Counting, Away
    <2>2. Cardinality({}) = 0 /\ Cardinality(Registering) \in Nat
      BY <1>2, FS_EmptySet, FS_CardinalityType
    <2> QED
      BY <1>2, <2>1, <2>2 DEF RoomLeft
  <1> QED
    BY <1>3, <1>4, <1>5, <1>6 DEF RecordsInv

LEMMA RecordsStep ==
    ASSUME RecordsInv, RecordsNext
    PROVE  RecordsInv'
  <1> USE DEF RecordsInv
  <1> DEFINE Steps == [at : {"idle", "admitted", "minted", "culled", "counted"},
                       client : Clients \cup {Nobody}]
             Ways == {"no", "known", "issued", "read"}
  <1>t. /\ rows \in [Clients -> Lifetimes] /\ registering \in [Registering -> Steps]
        /\ told \subseteq Clients /\ exchanging \in [Clients -> Ways]
        /\ windows \in Seq(Window) /\ Len(windows) <= MaxWindows
        /\ revived \subseteq kept /\ kept \subseteq Clients
        /\ made \in [Addresses -> Nat]
    BY DEF RecordsTypeOK
  <1>n. Nobody \notin Clients
    BY ClientRecordsAssumption
  <1>u. ASSUME UNCHANGED <<windows, made>>
        PROVE  TableHolds' /\ windows' \in Seq(Window) /\ Len(windows') <= MaxWindows
               /\ made' \in [Addresses -> Nat]
    BY <1>t, <1>u DEF TableHolds, Of
  <1>1. ASSUME NEW q \in Registering, NEW a \in Addresses, Ask(q, a) PROVE RecordsInv'
    <2>1. /\ TableHolds' /\ windows' \in Seq(Window) /\ Len(windows') <= MaxWindows
          /\ made' \in [Addresses -> Nat]
      BY <1>1, TableKeepsItsRules
    <2>2. rows' \in [Clients -> Lifetimes] /\ \A c \in Clients : rows[c] = "linked" <=> rows'[c] = "linked"
      BY <1>t, <1>1 DEF Ask, Culled, Lifetimes
    <2>3. registering' \in [Registering -> Steps]
      BY <1>t, <1>1 DEF Ask
    <2>4. RecordsTypeOK'
      BY <1>t, <1>1, <2>1, <2>2, <2>3 DEF RecordsTypeOK, Ask
    <2>5. IdsMinted'
      BY <1>t, <1>n, <1>1 DEF IdsMinted, Ask, Away
    <2>6. KeptForGood'
      BY <1>t, <1>1, <2>2 DEF KeptForGood, Ask
    <2>7. (Live \ revived)' \subseteq Live \ revived /\ Counting' \subseteq Counting
      BY <1>t, <1>1 DEF Ask, Live, Counting, Culled
    <2> QED
      BY <2>1, <2>4, <2>5, <2>6, <2>7, RoomIsKept
  <1>2. ASSUME NEW q \in Registering, NEW c \in Clients, Mint(q, c) PROVE RecordsInv'
    <2>1. registering' \in [Registering -> Steps]
      BY <1>t, <1>2 DEF Mint, Away
    <2>2. RecordsTypeOK'
      BY <1>t, <1>2, <2>1 DEF RecordsTypeOK, Mint
    <2>3. IdsMinted'
      BY <1>t, <1>n, <1>2 DEF IdsMinted, Mint, Away
    <2>4. KeptForGood'
      BY <1>2 DEF KeptForGood, Mint
    <2>5. (Live \ revived)' \subseteq Live \ revived /\ Counting' \subseteq Counting
      BY <1>t, <1>2 DEF Mint, Live, Counting, Away
    <2> QED
      BY <1>u, <1>2, <2>2, <2>3, <2>4, <2>5, RoomIsKept DEF Mint
  <1>3. ASSUME NEW q \in Registering, CullExpired(q) PROVE RecordsInv'
    <2>1. registering' \in [Registering -> Steps] /\ rows' \in [Clients -> Lifetimes]
      BY <1>t, <1>3 DEF CullExpired, Culled, Lifetimes
    <2>2. RecordsTypeOK'
      BY <1>t, <1>3, <2>1 DEF RecordsTypeOK, CullExpired
    <2>3. IdsMinted'
      BY <1>t, <1>n, <1>3 DEF IdsMinted, CullExpired
    <2>4. KeptForGood'
      BY <1>t, <1>3 DEF KeptForGood, CullExpired, Culled
    <2>5. (Live \ revived)' \subseteq Live \ revived /\ Counting' \subseteq Counting
      BY <1>t, <1>3 DEF CullExpired, Live, Counting, Culled
    <2> QED
      BY <1>u, <1>3, <2>2, <2>3, <2>4, <2>5, RoomIsKept DEF CullExpired
  <1>4. ASSUME NEW q \in Registering, CountLive(q) PROVE RecordsInv'
    <2>1. registering' \in [Registering -> Steps]
      BY <1>t, <1>4 DEF CountLive, Away
    <2>2. RecordsTypeOK'
      BY <1>t, <1>4, <2>1 DEF RecordsTypeOK, CountLive
    <2>3. IdsMinted'
      BY <1>t, <1>n, <1>4 DEF IdsMinted, CountLive, Away
    <2>4. KeptForGood'
      BY <1>4 DEF KeptForGood, CountLive
    <2> QED
      BY <1>u, <1>4, <2>2, <2>3, <2>4, RoomIsCounted DEF CountLive
  <1>5. ASSUME NEW q \in Registering, Register(q) PROVE RecordsInv'
    <2>0. registering[q].client \in Clients /\ registering[q].client \notin told
      BY <1>t, <1>5 DEF IdsMinted, Register
    <2>1. registering' \in [Registering -> Steps] /\ rows' \in [Clients -> Lifetimes]
      BY <1>t, <1>5 DEF Register, Away, Lifetimes
    <2>2. RecordsTypeOK'
      BY <1>t, <1>5, <2>0, <2>1 DEF RecordsTypeOK, Register
    <2>3. IdsMinted'
      BY <1>t, <1>n, <1>5, <2>0 DEF IdsMinted, Register, Away
    <2>4. KeptForGood'
      BY <1>t, <1>5, <2>0 DEF KeptForGood, IdsMinted, Register
    <2> QED
      BY <1>u, <1>5, <2>2, <2>3, <2>4, RoomIsTaken DEF Register
  <1>6. ASSUME NEW q \in Registering, GiveUp(q) PROVE RecordsInv'
    <2>1. registering' \in [Registering -> Steps]
      BY <1>t, <1>6 DEF GiveUp, Away
    <2>2. RecordsTypeOK'
      BY <1>t, <1>6, <2>1 DEF RecordsTypeOK, GiveUp
    <2>3. IdsMinted'
      BY <1>t, <1>n, <1>6 DEF IdsMinted, GiveUp, Away
    <2>4. KeptForGood'
      BY <1>6 DEF KeptForGood, GiveUp
    <2>5. (Live \ revived)' \subseteq Live \ revived /\ Counting' \subseteq Counting
      BY <1>t, <1>6 DEF GiveUp, Live, Counting, Away
    <2> QED
      BY <1>u, <1>6, <2>2, <2>3, <2>4, <2>5, RoomIsKept DEF GiveUp
  <1>7. ASSUME NEW c \in Clients, AuthenticateClient(c) \/ Issue(c) \/ ReadRecord(c) PROVE RecordsInv'
    <2>0. /\ exchanging' \in [Clients -> Ways] /\ UNCHANGED <<rows, registering, told, windows, kept, revived, made>>
          /\ \A d \in Clients : exchanging'[d] # "no" => d \in told
      BY <1>t, <1>7 DEF AuthenticateClient, Issue, ReadRecord, IdsMinted
    <2>2. RecordsTypeOK'
      BY <1>t, <2>0 DEF RecordsTypeOK
    <2>3. IdsMinted' /\ KeptForGood'
      BY <2>0 DEF IdsMinted, KeptForGood
    <2>5. (Live \ revived)' \subseteq Live \ revived /\ Counting' \subseteq Counting
      BY <2>0 DEF Live, Counting
    <2> QED
      BY <1>u, <2>0, <2>2, <2>3, <2>5, RoomIsKept
  <1>8. ASSUME NEW c \in Clients, WriteRecord(c) PROVE RecordsInv'
    <2>0. c \in told
      BY <1>t, <1>8 DEF IdsMinted, WriteRecord
    <2>1. exchanging' \in [Clients -> Ways] /\ rows' \in [Clients -> Lifetimes]
      BY <1>t, <1>8 DEF WriteRecord, KeptAs, Lifetimes
    <2>2. RecordsTypeOK'
      BY <1>t, <1>8, <2>1 DEF RecordsTypeOK, WriteRecord
    <2>3. IdsMinted'
      BY <1>t, <1>8, <2>0 DEF IdsMinted, WriteRecord
    <2>4. KeptForGood'
      BY <1>t, <1>8 DEF KeptForGood, WriteRecord, KeptAs
    <2>5. (Live \ revived)' \subseteq Live \ revived /\ Counting' \subseteq Counting
      BY <1>t, <1>8 DEF WriteRecord, KeptAs, Live, Counting
    <2> QED
      BY <1>u, <1>8, <2>2, <2>3, <2>4, <2>5, RoomIsKept DEF WriteRecord
  <1>9. ASSUME NEW c \in Clients, ExpireRecord(c) PROVE RecordsInv'
    <2>1. rows' \in [Clients -> Lifetimes]
      BY <1>t, <1>9 DEF ExpireRecord, Lifetimes
    <2>2. RecordsTypeOK'
      BY <1>t, <1>9, <2>1 DEF RecordsTypeOK, ExpireRecord
    <2>3. IdsMinted'
      BY <1>9 DEF IdsMinted, ExpireRecord
    <2>4. KeptForGood'
      BY <1>t, <1>9 DEF KeptForGood, ExpireRecord
    <2>5. (Live \ revived)' \subseteq Live \ revived /\ Counting' \subseteq Counting
      BY <1>t, <1>9 DEF ExpireRecord, Live, Counting
    <2> QED
      BY <1>u, <1>9, <2>2, <2>3, <2>4, <2>5, RoomIsKept DEF ExpireRecord
  <1>10. ASSUME WindowEnds PROVE RecordsInv'
    <2>0. UNCHANGED <<rows, registering, told, exchanging, kept, revived>>
      BY <1>10 DEF WindowEnds
    <2>1. /\ TableHolds' /\ windows' \in Seq(Window) /\ Len(windows') <= MaxWindows
          /\ made' \in [Addresses -> Nat]
      BY <1>10, WindowEndsInOrder
    <2>2. RecordsTypeOK'
      BY <1>t, <2>0, <2>1 DEF RecordsTypeOK
    <2>3. IdsMinted' /\ KeptForGood'
      BY <2>0 DEF IdsMinted, KeptForGood
    <2>5. (Live \ revived)' \subseteq Live \ revived /\ Counting' \subseteq Counting
      BY <2>0 DEF Live, Counting
    <2> QED
      BY <2>1, <2>2, <2>3, <2>5, RoomIsKept
  <1>11. ASSUME EndProcess PROVE RecordsInv'
    <2>1. /\ TableHolds' /\ windows' \in Seq(Window) /\ Len(windows') <= MaxWindows
          /\ made' \in [Addresses -> Nat]
      BY <1>11, TableForgotten, ClientRecordsAssumption DEF EndProcess
    <2>2. registering' \in [Registering -> Steps] /\ exchanging' \in [Clients -> Ways]
      BY <1>11 DEF EndProcess, Away
    <2>3. RecordsTypeOK'
      BY <1>t, <1>11, <2>1, <2>2 DEF RecordsTypeOK, EndProcess
    <2>4. IdsMinted' /\ KeptForGood'
      BY <1>t, <1>n, <1>11 DEF IdsMinted, KeptForGood, EndProcess, Away
    <2>5. (Live \ revived)' \subseteq Live \ revived /\ Counting' \subseteq Counting
      BY <1>11 DEF EndProcess, Live, Counting, Away
    <2> QED
      BY <2>1, <2>3, <2>4, <2>5, RoomIsKept
  <1> QED
    BY <1>1, <1>2, <1>3, <1>4, <1>5, <1>6, <1>7, <1>8, <1>9, <1>10, <1>11 DEF RecordsNext

LEMMA RecordsBounds ==
    ASSUME RecordsInv
    PROVE  RegistrationsBounded
  <1>1. CapHolds
    <2>1. IsFiniteSet(Live \ revived) /\ IsFiniteSet(Counting)
      BY ClientRecordsAssumption, FS_Subset DEF Live, Counting
    <2>2. /\ Cardinality(Live \ revived) \in Nat /\ Cardinality(Counting) \in Nat
          /\ Cardinality(Registering) \in Nat /\ MaxRecords \in Nat
      BY <2>1, ClientRecordsAssumption, FS_CardinalityType
    <2> QED
      BY <2>2 DEF RecordsInv, RoomLeft, CapHolds
  <1>2. QuotaHolds
    <2>1. Quota \in Nat /\ windows \in Seq(Window)
      BY ClientRecordsAssumption DEF RecordsInv, RecordsTypeOK
    <2> SUFFICES ASSUME NEW a \in Addresses PROVE made[a] <= Quota
      BY DEF QuotaHolds
    <2>2. CASE Of(a) = {}
      BY <2>1, <2>2 DEF RecordsInv, TableHolds
    <2>3. CASE Of(a) # {}
      <3>1. PICK i \in DOMAIN windows : windows[i].address = a
        BY <2>3 DEF Of
      <3>2. windows[i] \in Window
        BY <2>1, <3>1, ElementOfSeq, LenProperties
      <3>3. windows[i].count \in 1..Quota
        BY <3>2 DEF Window
      <3>4. made[a] = IF windows[i].over THEN 0 ELSE windows[i].count
        BY <3>1 DEF RecordsInv, TableHolds
      <3> QED
        BY <2>1, <3>3, <3>4
    <2> QED
      BY <2>2, <2>3
  <1> QED
    BY <1>1, <1>2 DEF RecordsInv, RegistrationsBounded

\* Whatever anyone registers, however many at once and whatever expires between two
\* statements: the live records and an address's registrations are bounded, and a
\* client that was kept stays kept.
THEOREM RegistrationsStayBounded == RecordsSpec => []RegistrationsBounded
  <1>1. RecordsInit => RecordsInv
    BY RecordsInitially
  <1>2. RecordsInv /\ [RecordsNext]_recordVars => RecordsInv'
    <2> SUFFICES ASSUME RecordsInv, [RecordsNext]_recordVars PROVE RecordsInv'
      OBVIOUS
    <2>1. CASE RecordsNext
      BY <2>1, RecordsStep
    <2>2. CASE UNCHANGED recordVars
      BY <2>2 DEF recordVars, RecordsInv, RecordsTypeOK, TableHolds, Of, IdsMinted, KeptForGood,
                  RoomLeft, Live, Counting
    <2> QED
      BY <2>1, <2>2
  <1>3. RecordsInv => RegistrationsBounded
    BY RecordsBounds
  <1> QED
    BY <1>1, <1>2, <1>3, PTL DEF RecordsSpec

-----------------------------------------------------------------------------
(* ClientAssertions: the ends of a set of positions.                        *)

LEMMA MinIsThere ==
    ASSUME NEW n \in Nat, NEW S \in SUBSET (1..n), S # {}
    PROVE  Min(S) \in S
  <1> DEFINE all == 1..n
             upTo == {1..x : x \in S}
  <1>1. upTo \in SUBSET (SUBSET all) /\ upTo # {}
    <2>1. \A x \in S : 1..x \subseteq 1..n
      OBVIOUS
    <2> QED
      BY <2>1
  <1>f. IsFiniteSet(all)
    BY FS_Interval
  <1> HIDE DEF all, upTo
  <1>2. PICK T \in upTo : \A U \in upTo : U \subseteq T => U = T
    BY <1>1, <1>f, MinimalSubset
  <1> USE DEF all, upTo
  <1>3. PICK x \in S : T = 1..x
    BY <1>2
  <1>4. \A y \in S : x <= y
    <2> SUFFICES ASSUME NEW y \in S, ~(x <= y) PROVE FALSE
      OBVIOUS
    <2>1. y \in Int /\ x \in Int /\ 1 <= x /\ y < x
      OBVIOUS
    <2>2. 1..y \in upTo /\ 1..y \subseteq 1..x /\ x \in 1..x /\ x \notin 1..y
      BY <2>1
    <2> QED
      BY <1>2, <1>3, <2>2
  <1> QED
    BY <1>4 DEF Min

LEMMA MaxIsThere ==
    ASSUME NEW n \in Nat, NEW S \in SUBSET (1..n), S # {}
    PROVE  Max(S) \in S
  <1> DEFINE all == 1..n
             from == {x..n : x \in S}
  <1>1. from \in SUBSET (SUBSET all) /\ from # {}
    <2>1. \A x \in S : x..n \subseteq 1..n
      OBVIOUS
    <2> QED
      BY <2>1
  <1>f. IsFiniteSet(all)
    BY FS_Interval
  <1> HIDE DEF all, from
  <1>2. PICK T \in from : \A U \in from : U \subseteq T => U = T
    BY <1>1, <1>f, MinimalSubset
  <1> USE DEF all, from
  <1>3. PICK x \in S : T = x..n
    BY <1>2
  <1>4. \A y \in S : x >= y
    <2> SUFFICES ASSUME NEW y \in S, ~(x >= y) PROVE FALSE
      OBVIOUS
    <2>1. y \in Int /\ x \in Int /\ x <= n /\ y > x
      OBVIOUS
    <2>2. y..n \in from /\ y..n \subseteq x..n /\ x \in x..n /\ x \notin y..n
      BY <2>1
    <2> QED
      BY <1>2, <1>3, <2>2
  <1> QED
    BY <1>4 DEF Max

(* The key that verifies is one of the set's, under a kid the assertion may  *)
(* name.                                                                     *)
LEMMA KeyIsOfTheSet ==
    ASSUME NEW d, NEW keys \in Seq(KeyRecords), NEW kid, KeyFor(d, keys, kid) # Unset
    PROVE  \E i \in DOMAIN keys : keys[i] = KeyFor(d, keys, kid) /\ kid \in {NoKid, keys[i].kid}
  <1> DEFINE candidates == SelectRecords(keys, kid)
  <1>1. candidates \in SUBSET (1..Len(keys)) /\ Len(keys) \in Nat /\ DOMAIN keys = 1..Len(keys)
    BY DEF SelectRecords
  <1>2. candidates # {}
    BY DEF KeyFor
  <1>3. \A i \in candidates : kid \in {NoKid, keys[i].kid}
    BY DEF SelectRecords
  <1>4. KeyFor(d, keys, kid) = keys[IF d.inline = Hosted THEN Max(candidates) ELSE Min(candidates)]
    BY <1>2 DEF KeyFor
  <1> HIDE DEF candidates
  <1>5. Max(candidates) \in candidates /\ Min(candidates) \in candidates
    BY <1>1, <1>2, MaxIsThere, MinIsThere
  <1>6. (IF d.inline = Hosted THEN Max(candidates) ELSE Min(candidates)) \in candidates
    BY <1>5
  <1> QED
    BY <1>1, <1>3, <1>4, <1>6

-----------------------------------------------------------------------------
(* The invariant.  What a request is answered, and what it is verified by,   *)
(* is one document it may rely on: served while it ran, or served before and *)
(* fit to be stored.  The cache keeps only the latter, and a verifier only   *)
(* keys that were served.                                                    *)

Asking == [at : {"idle", "admitted", "refused"} \cup Endpoints, assertion : Assertions \cup {Unset},
           answer : Documents \cup {Unset}, snapshot : Documents \cup {Unset},
           key : KeyRecords \cup {Unset}, seen : SUBSET Documents]

Reliable(q) == q.seen \cup storable

OneLookup(q) ==
    q.at \in Endpoints =>
        /\ document \in Reliable(q)
        /\ \A d \in q.seen : ~d.stored
        /\ q.answer # Unset => q.answer \in Reliable(q)
        /\ q.snapshot # Unset =>
              /\ q.snapshot \in Reliable(q)
              /\ q.snapshot.method = "private_key_jwt" /\ q.assertion # Unset

OneDecision(q) ==
    q.at = "admitted" =>
        \E d \in Reliable(q) :
            LET a == q.assertion
                published == IF d.inline = Hosted THEN served ELSE {d.inline}
            IN  \/ d.method = "none" /\ a = Unset
                \/ /\ d.method = "private_key_jwt" /\ a # Unset
                   /\ \E keys \in published : \E i \in DOMAIN keys :
                         /\ keys[i] = q.key
                         /\ keys[i].material = a.material /\ keys[i].permits
                         /\ a.kid \in {NoKid, keys[i].kid}

AssertionsTyped ==
    /\ document \in Documents
    /\ storable \subseteq Documents /\ cached \in storable \cup {Unset}
    /\ document.stored => document \in storable
    /\ hosted \in served /\ served \subseteq KeySets
    /\ fetched \in [Endpoints -> served \cup {Unset}]
    /\ spent \subseteq Jtis /\ uses \in [Jtis -> Nat]
    /\ asking \in [Authenticating -> Asking]

AssertionsInv ==
    /\ AssertionsTyped
    /\ \A r \in Authenticating : OneLookup(asking[r]) /\ OneDecision(asking[r])
    /\ SpentOnce

LEMMA OneRequestMoves ==
    ASSUME AssertionsInv, NEW r \in Authenticating, NEW q \in Asking,
           asking' = [asking EXCEPT ![r] = q], UNCHANGED world,
           OneLookup(q), OneDecision(q), cached' \in storable \cup {Unset},
           fetched' \in [Endpoints -> served \cup {Unset}],
           spent' \subseteq Jtis, uses' \in [Jtis -> Nat], SpentOnce'
    PROVE  AssertionsInv'
  <1>0. UNCHANGED <<document, hosted, storable, served>>
    BY DEF world
  <1>1. AssertionsTyped'
    BY <1>0 DEF AssertionsInv, AssertionsTyped
  <1>2. \A p \in Authenticating : asking'[p] = IF p = r THEN q ELSE asking[p]
    BY DEF AssertionsInv, AssertionsTyped
  <1>3. ASSUME NEW p \in Authenticating PROVE OneLookup(asking[p])' /\ OneDecision(asking[p])'
    <2>1. OneLookup(asking[p])'
      BY <1>0, <1>2 DEF AssertionsInv, OneLookup, Reliable
    <2>2. OneDecision(asking[p])'
      BY <1>0, <1>2 DEF AssertionsInv, OneDecision, Reliable
    <2> QED
      BY <2>1, <2>2
  <1> QED
    BY <1>1, <1>3 DEF AssertionsInv

LEMMA VerifyDecides ==
    ASSUME AssertionsInv, NEW r \in Authenticating, ValidateAssertion(r)
    PROVE  AssertionsInv'
  <1>1. /\ asking[r] \in Asking /\ asking[r].at \in Endpoints
        /\ fetched \in [Endpoints -> served \cup {Unset}] /\ served \subseteq KeySets
        /\ spent \subseteq Jtis /\ uses \in [Jtis -> Nat] /\ asking \in [Authenticating -> Asking]
        /\ cached \in storable \cup {Unset}
    BY DEF AssertionsInv, AssertionsTyped, ValidateAssertion, Verifying
  <1> DEFINE a == asking[r].assertion
             d == asking[r].snapshot
             keys == IF d.inline = Hosted THEN fetched[asking[r].at] ELSE d.inline
             key == KeyFor(d, keys, a.kid)
             q == [asking[r] EXCEPT !.at = "admitted", !.key = key]
  <1>2. /\ d \in Documents /\ d \in Reliable(asking[r]) /\ d.method = "private_key_jwt"
        /\ a \in Assertions /\ a # Unset
    BY <1>1 DEF AssertionsInv, OneLookup, Asking, ValidateAssertion, Verifying
  <1>3. /\ keys # Unset
        /\ IF Verifies(key, a) /\ asking[r].at \in a.aud /\ a.jti \notin spent
           THEN /\ asking' = [asking EXCEPT ![r].at = "admitted", ![r].key = key]
                /\ spent' = spent \cup {a.jti}
                /\ uses' = [uses EXCEPT ![a.jti] = @ + 1]
           ELSE asking' = Refused(r) /\ UNCHANGED <<spent, uses>>
        /\ UNCHANGED <<world, cached, fetched>>
    BY DEF ValidateAssertion, Judged
  <1>4. /\ keys \in KeySets /\ keys \in Seq(KeyRecords)
        /\ keys \in (IF d.inline = Hosted THEN served ELSE {d.inline})
    BY <1>1, <1>2, <1>3, ClientAssertionsAssumption
  <1>5. a.jti \in Jtis
    BY <1>2 DEF Jtis
  <1>6. CASE Verifies(key, a) /\ asking[r].at \in a.aud /\ a.jti \notin spent
    <2>1. key # Unset /\ key.material = a.material /\ key.permits
      BY <1>6 DEF Verifies
    <2>2. \E i \in DOMAIN keys : keys[i] = key /\ a.kid \in {NoKid, keys[i].kid}
      <3> HIDE DEF a, d, keys
      <3> QED
        BY <1>4, <2>1, KeyIsOfTheSet
    <2>3. PICK i \in DOMAIN keys : keys[i] = key /\ a.kid \in {NoKid, keys[i].kid}
      BY <2>2
    <2>4. key \in KeyRecords
      <3> HIDE DEF keys, key, a
      <3> QED
        BY <1>4, <2>3
    <2>5. asking' = [asking EXCEPT ![r] = q]
      BY <1>1, <1>3, <1>6
    <2>6. /\ q \in Asking /\ q.at = "admitted" /\ q.key = key /\ q.assertion = a
          /\ q.seen = asking[r].seen
      <3> HIDE DEF key
      <3> QED
        BY <1>1, <2>4 DEF Asking
    <2>7. SpentOnce' /\ spent' \subseteq Jtis /\ uses' \in [Jtis -> Nat]
      <3> HIDE DEF a, keys, key, q
      <3>1. spent' = spent \cup {a.jti} /\ uses' = [uses EXCEPT ![a.jti] = @ + 1] /\ a.jti \notin spent
        BY <1>3, <1>6
      <3>2. \A j \in Jtis : uses[j] = (IF j \in spent THEN 1 ELSE 0)
        BY DEF AssertionsInv, SpentOnce
      <3>3. \A j \in Jtis : uses'[j] = IF j = a.jti THEN uses[j] + 1 ELSE uses[j]
        BY <1>1, <1>5, <3>1
      <3>4. \A j \in Jtis : uses'[j] = (IF j \in spent' THEN 1 ELSE 0)
        BY <3>1, <3>2, <3>3
      <3>5. spent' \subseteq Jtis /\ uses' \in [Jtis -> Nat]
        BY <1>1, <1>5, <3>1
      <3> QED
        BY <3>4, <3>5 DEF SpentOnce
    <2> HIDE DEF a, d, keys, key, q
    <2>8. OneLookup(q)
      BY <2>6, ClientAssertionsAssumption DEF OneLookup
    <2>9. OneDecision(q)
      BY <1>2, <1>4, <2>1, <2>3, <2>6 DEF OneDecision, Reliable
    <2> QED
      BY <1>1, <1>3, <2>5, <2>6, <2>7, <2>8, <2>9, OneRequestMoves
  <1>7. CASE ~(Verifies(key, a) /\ asking[r].at \in a.aud /\ a.jti \notin spent)
    <2> DEFINE w == [NoRequest EXCEPT !.at = "refused"]
    <2>1. asking' = [asking EXCEPT ![r] = w] /\ UNCHANGED <<spent, uses>>
      BY <1>3, <1>7 DEF Refused
    <2>2. w \in Asking /\ w.at = "refused"
      BY DEF NoRequest, Asking
    <2> HIDE DEF w
    <2>3. OneLookup(w) /\ OneDecision(w)
      BY <2>2, ClientAssertionsAssumption DEF OneLookup, OneDecision
    <2>4. SpentOnce'
      BY <2>1 DEF AssertionsInv, SpentOnce
    <2> QED
      BY <1>1, <1>3, <2>1, <2>2, <2>3, <2>4, OneRequestMoves
  <1> QED
    BY <1>6, <1>7

\* The document a request was resolved to decides what becomes of it.
LEMMA DispatchKeeps ==
    ASSUME AssertionsInv, NEW r \in Authenticating, Looking(r), NEW d \in Documents,
           d \in Reliable(asking[r]), asking' = Dispatched(r, d),
           UNCHANGED <<world, fetched, spent, uses>>, cached' \in storable \cup {Unset}
    PROVE  AssertionsInv'
  <1>1. /\ asking[r] \in Asking /\ asking[r].at \in Endpoints /\ asking[r].snapshot = Unset
        /\ OneLookup(asking[r])
    BY DEF AssertionsInv, AssertionsTyped, Looking
  <1>2. /\ fetched' \in [Endpoints -> served \cup {Unset}]
        /\ spent' \subseteq Jtis /\ uses' \in [Jtis -> Nat] /\ SpentOnce'
    BY DEF AssertionsInv, AssertionsTyped, SpentOnce
  <1> DEFINE w == [NoRequest EXCEPT !.at = "refused"]
             p == [asking[r] EXCEPT !.at = "admitted", !.answer = Unset, !.snapshot = d]
             q == [asking[r] EXCEPT !.answer = Unset, !.snapshot = d]
  <1>3. w \in Asking /\ w.at = "refused" /\ p \in Asking /\ q \in Asking
    BY <1>1 DEF Asking, NoRequest
  <1>4. /\ p.at = "admitted" /\ p.seen = asking[r].seen /\ p.assertion = asking[r].assertion
        /\ q.at = asking[r].at /\ q.seen = asking[r].seen /\ q.assertion = asking[r].assertion
        /\ q.answer = Unset /\ q.snapshot = d
    BY <1>1 DEF Asking
  <1>5. \/ asking' = [asking EXCEPT ![r] = w]
        \/ /\ d.method = "none" /\ asking[r].assertion = Unset
           /\ asking' = [asking EXCEPT ![r] = p]
        \/ /\ d.method = "private_key_jwt" /\ asking[r].assertion # Unset
           /\ asking' = [asking EXCEPT ![r] = q]
    BY DEF AssertionsInv, AssertionsTyped, Dispatched, Refused
  <1> HIDE DEF w, p, q
  <1>6. OneLookup(w) /\ OneDecision(w)
    BY <1>3, ClientAssertionsAssumption DEF OneLookup, OneDecision
  <1>7. ASSUME d.method = "none", asking[r].assertion = Unset
        PROVE  OneLookup(p) /\ OneDecision(p)
    BY <1>4, <1>7, ClientAssertionsAssumption DEF OneLookup, OneDecision, Reliable
  <1>8. ASSUME d.method = "private_key_jwt", asking[r].assertion # Unset
        PROVE  OneLookup(q) /\ OneDecision(q)
    BY <1>1, <1>4, <1>8, ClientAssertionsAssumption DEF OneLookup, OneDecision, Reliable
  <1> QED
    BY <1>2, <1>3, <1>5, <1>6, <1>7, <1>8, OneRequestMoves

LEMMA AssertionsStep ==
    ASSUME AssertionsInv, AssertionsNext
    PROVE  AssertionsInv'
  <1>t. AssertionsTyped /\ SpentOnce /\ \A r \in Authenticating : OneLookup(asking[r]) /\ OneDecision(asking[r])
    BY DEF AssertionsInv
  <1>w. [NoRequest EXCEPT !.at = "refused"] \in Asking /\ NoRequest \in Asking
    BY DEF NoRequest, Asking
  <1>v. ASSUME NEW q \in {[NoRequest EXCEPT !.at = "refused"], NoRequest}
        PROVE  OneLookup(q) /\ OneDecision(q)
    BY <1>v, ClientAssertionsAssumption DEF NoRequest, OneLookup, OneDecision
  <1>s. ASSUME UNCHANGED <<spent, uses>> PROVE spent' \subseteq Jtis /\ uses' \in [Jtis -> Nat] /\ SpentOnce'
    BY <1>t, <1>s DEF AssertionsTyped, SpentOnce
  <1>1. ASSUME NEW r \in Authenticating, Present(r) PROVE AssertionsInv'
    <2>1. PICK e \in Endpoints, a \in Assertions \cup {Unset}, header, secret \in BOOLEAN :
             asking' = IF header \/ (a # Unset /\ secret) \/ NotYetValid(a)
                       THEN Refused(r)
                       ELSE [asking EXCEPT ![r] = [NoRequest EXCEPT !.at = e, !.assertion = a,
                                                        !.seen = {document} \ Storable(document)]]
      BY <1>1 DEF Present
    <2> DEFINE q == [NoRequest EXCEPT !.at = e, !.assertion = a,
                                      !.seen = {document} \ Storable(document)]
    <2>6. /\ q \in Asking /\ q.at = e /\ q.seen = {document} \ Storable(document)
          /\ q.answer = Unset /\ q.snapshot = Unset
      BY <1>t DEF AssertionsTyped, Asking, NoRequest
    <2>7. document.stored => document \in storable
      BY <1>t DEF AssertionsTyped
    <2>3. \/ asking' = [asking EXCEPT ![r] = [NoRequest EXCEPT !.at = "refused"]]
          \/ asking' = [asking EXCEPT ![r] = q]
      BY <2>1 DEF Refused
    <2> HIDE DEF q
    <2>2. OneLookup(q) /\ OneDecision(q)
      BY <2>6, <2>7, ClientAssertionsAssumption DEF OneLookup, OneDecision, Reliable, Storable
    <2>4. UNCHANGED <<world, cached, fetched, spent, uses>>
      BY <1>1 DEF Present
    <2>5. fetched' \in [Endpoints -> served \cup {Unset}] /\ cached' \in storable \cup {Unset}
      BY <1>t, <2>4 DEF AssertionsTyped
    <2> QED
      BY <1>s, <1>w, <1>v, <2>2, <2>3, <2>4, <2>5, <2>6, OneRequestMoves
  <1>2. ASSUME NEW r \in Authenticating, LookUp(r) \/ Receive(r) PROVE AssertionsInv'
    <2>1. /\ Looking(r) /\ UNCHANGED <<world, fetched, spent, uses>>
          /\ asking[r].at \in Endpoints /\ OneLookup(asking[r])
      BY <1>t, <1>2 DEF LookUp, Receive, Looking
    <2>2. PICK d \in Documents : /\ d \in Reliable(asking[r]) /\ asking' = Dispatched(r, d)
                                 /\ cached' \in storable \cup {Unset}
      <3>1. CASE LookUp(r)
        BY <1>t, <3>1 DEF LookUp, AssertionsTyped, Reliable
      <3>2. CASE Receive(r)
        <4>1. /\ asking[r] \in Asking /\ asking[r].answer # Unset
              /\ asking' = Dispatched(r, asking[r].answer)
              /\ cached' = IF asking[r].answer.stored THEN asking[r].answer ELSE cached
          BY <1>t, <3>2 DEF Receive, AssertionsTyped
        <4>2. asking[r].answer \in Documents /\ asking[r].answer \in Reliable(asking[r])
          BY <2>1, <4>1 DEF Asking, OneLookup
        <4>3. asking[r].answer.stored => asking[r].answer \in storable
          BY <2>1, <4>2 DEF OneLookup, Reliable
        <4> QED
          BY <1>t, <4>1, <4>2, <4>3 DEF AssertionsTyped
      <3> QED
        BY <1>2, <3>1, <3>2
    <2> QED
      BY <2>1, <2>2, DispatchKeeps
  <1>9. ASSUME NEW r \in Authenticating, Fetch(r) PROVE AssertionsInv'
    <2>1. /\ UNCHANGED <<world, cached, fetched, spent, uses>>
          /\ asking[r] \in Asking /\ asking[r].at \in Endpoints /\ OneLookup(asking[r])
          /\ fetched \in [Endpoints -> served \cup {Unset}] /\ cached \in storable \cup {Unset}
          /\ document \in Documents
      BY <1>t, <1>9 DEF Fetch, Looking, AssertionsTyped
    <2> DEFINE q == [asking[r] EXCEPT !.answer = document]
    <2>2. /\ q \in Asking /\ q.at = asking[r].at /\ q.seen = asking[r].seen /\ q.answer = document
          /\ q.snapshot = asking[r].snapshot /\ q.assertion = asking[r].assertion
      BY <2>1 DEF Asking
    <2>3. \/ asking' = [asking EXCEPT ![r] = [NoRequest EXCEPT !.at = "refused"]]
          \/ asking' = [asking EXCEPT ![r] = q]
      BY <1>t, <1>9 DEF Fetch, Refused, AssertionsTyped
    <2> HIDE DEF q
    <2>4. OneLookup(q) /\ OneDecision(q)
      BY <2>1, <2>2, ClientAssertionsAssumption DEF OneLookup, OneDecision, Reliable
    <2> QED
      BY <1>s, <1>w, <1>v, <2>1, <2>2, <2>3, <2>4, OneRequestMoves
  <1>10. ASSUME Evict PROVE AssertionsInv'
    <2>1. UNCHANGED <<document, hosted, fetched, spent, asking, storable, served, uses>> /\ cached' = Unset
      BY <1>10 DEF Evict, world
    <2>2. AssertionsTyped' /\ \A r \in Authenticating : OneLookup(asking[r])' /\ OneDecision(asking[r])'
      BY <1>t, <2>1 DEF AssertionsTyped, OneLookup, OneDecision, Reliable
    <2> QED
      BY <1>s, <2>1, <2>2 DEF AssertionsInv
  <1>3. ASSUME NEW r \in Authenticating, FetchKeys(r) PROVE AssertionsInv'
    <2>1. fetched' \in [Endpoints -> served \cup {Unset}]
      BY <1>t, <1>3 DEF FetchKeys, AssertionsTyped
    <2>2. UNCHANGED <<document, cached, hosted, spent, asking, storable, served, uses>>
      BY <1>3 DEF FetchKeys, world
    <2>3. AssertionsTyped'
      BY <1>t, <2>1, <2>2 DEF AssertionsTyped
    <2>4. \A q \in Authenticating : OneLookup(asking[q])' /\ OneDecision(asking[q])'
      BY <1>t, <2>2 DEF OneLookup, OneDecision, Reliable
    <2> QED
      BY <1>s, <2>2, <2>3, <2>4 DEF AssertionsInv
  <1>4. ASSUME NEW r \in Authenticating, EndRequest(r) PROVE AssertionsInv'
    <2>1. UNCHANGED <<world, cached, fetched, spent, uses>>
      BY <1>4 DEF EndRequest
    <2>2. fetched' \in [Endpoints -> served \cup {Unset}] /\ cached' \in storable \cup {Unset}
      BY <1>t, <2>1 DEF AssertionsTyped
    <2>3. asking' = [asking EXCEPT ![r] = NoRequest]
      BY <1>4 DEF EndRequest
    <2> QED
      BY <1>s, <1>w, <1>v, <2>1, <2>2, <2>3, OneRequestMoves
  <1>5. ASSUME NEW d \in Documents, Publish(d) PROVE AssertionsInv'
    <2>1. /\ UNCHANGED <<cached, hosted, fetched, spent, uses, served>> /\ document' = d
          /\ storable' = storable \cup Storable(d)
      BY <1>5 DEF Publish
    <2>2. ASSUME NEW r \in Authenticating
          PROVE  /\ asking'[r] \in Asking
                 /\ asking'[r].at = asking[r].at /\ asking'[r].assertion = asking[r].assertion
                 /\ asking'[r].answer = asking[r].answer
                 /\ asking'[r].snapshot = asking[r].snapshot /\ asking'[r].key = asking[r].key
                 /\ asking[r].at \in Endpoints => asking'[r].seen = asking[r].seen \cup ({d} \ Storable(d))
                 /\ asking[r].at \notin Endpoints => asking'[r] = asking[r]
      <3>1. asking[r] \in Asking
        BY <1>t DEF AssertionsTyped
      <3>2. asking'[r] = IF asking[r].at \in Endpoints
                         THEN [asking[r] EXCEPT !.seen = @ \cup ({d} \ Storable(d))] ELSE asking[r]
        BY <1>5 DEF Publish, InFlight
      <3> QED
        BY <3>1, <3>2 DEF Asking
    <2>3. asking' \in [Authenticating -> Asking]
      <3>1. DOMAIN asking' = Authenticating /\ asking' = [r \in Authenticating |-> asking'[r]]
        BY <1>5 DEF Publish
      <3> QED
        BY <2>2, <3>1
    <2>4. AssertionsTyped'
      BY <1>t, <2>1, <2>3 DEF AssertionsTyped, Storable
    <2>5. ASSUME NEW r \in Authenticating PROVE OneLookup(asking[r])' /\ OneDecision(asking[r])'
      <3>1. OneLookup(asking[r])'
        BY <1>t, <2>1, <2>2 DEF OneLookup, Reliable, Storable
      <3>2. OneDecision(asking[r])'
        <4>1. asking'[r].at = "admitted" => asking'[r] = asking[r]
          BY <2>2, ClientAssertionsAssumption
        <4> QED
          BY <1>t, <2>1, <4>1 DEF OneDecision, Reliable
      <3> QED
        BY <3>1, <3>2
    <2> QED
      BY <1>s, <2>1, <2>4, <2>5 DEF AssertionsInv
  <1>6. ASSUME NEW keys \in KeySets, HostKeys(keys) PROVE AssertionsInv'
    <2>1. /\ UNCHANGED <<document, cached, fetched, spent, uses, asking, storable>> /\ hosted' = keys
          /\ served' = served \cup {keys}
      BY <1>6 DEF HostKeys
    <2>2. AssertionsTyped'
      <3>1. fetched' \in [Endpoints -> served' \cup {Unset}]
        BY <1>t, <2>1 DEF AssertionsTyped
      <3> QED
        BY <1>t, <2>1, <3>1 DEF AssertionsTyped
    <2>3. ASSUME NEW r \in Authenticating PROVE OneLookup(asking[r])' /\ OneDecision(asking[r])'
      <3>1. OneLookup(asking[r])'
        BY <1>t, <2>1 DEF OneLookup, Reliable
      <3>2. OneDecision(asking[r])'
        <4>1. served \subseteq served' /\ asking'[r] = asking[r] /\ storable' = storable
          BY <2>1
        <4> QED
          BY <1>t, <4>1 DEF OneDecision, Reliable
      <3> QED
        BY <3>1, <3>2
    <2> QED
      BY <1>s, <2>1, <2>2, <2>3 DEF AssertionsInv
  <1>7. ASSUME NbfArrives PROVE AssertionsInv'
    <2>1. UNCHANGED <<document, cached, hosted, fetched, spent, uses, asking, storable, served>>
      BY <1>7 DEF NbfArrives
    <2>2. AssertionsTyped' /\ \A r \in Authenticating : OneLookup(asking[r])' /\ OneDecision(asking[r])'
      BY <1>t, <2>1 DEF AssertionsTyped, OneLookup, OneDecision, Reliable
    <2> QED
      BY <1>s, <2>1, <2>2 DEF AssertionsInv
  <1>8. ASSUME Restart PROVE AssertionsInv'
    <2>1. /\ fetched' = [e \in Endpoints |-> Unset] /\ spent' = {} /\ uses' = [j \in Jtis |-> 0]
          /\ asking' = [r \in Authenticating |-> NoRequest] /\ UNCHANGED <<document, hosted>>
          /\ cached' = Unset /\ storable' = Storable(document) /\ served' = {hosted}
      BY <1>8 DEF Restart
    <2>2. AssertionsTyped' /\ SpentOnce'
      BY <1>t, <1>w, <2>1 DEF AssertionsTyped, SpentOnce, Storable
    <2>3. \A r \in Authenticating : OneLookup(asking[r])' /\ OneDecision(asking[r])'
      BY <2>1, ClientAssertionsAssumption DEF OneLookup, OneDecision, NoRequest
    <2> QED
      BY <2>2, <2>3 DEF AssertionsInv
  <1> QED
    BY <1>1, <1>2, <1>3, <1>4, <1>5, <1>6, <1>7, <1>8, <1>9, <1>10, VerifyDecides DEF AssertionsNext

\* A client authenticates by one document, served while its request ran or before and
\* fit to be stored, and by an assertion at most once at either endpoint, whatever is
\* published, fetched, stored, forgotten or presented meanwhile
\* (ClientAssertionAuthenticator, FastMCP's document cache).
THEOREM AssertionsAlwaysHold == AssertionsSpec => []AssertionsHold
  <1>1. AssertionsInit => AssertionsInv
    <2> SUFFICES ASSUME AssertionsInit PROVE AssertionsInv
      OBVIOUS
    <2>1. NoRequest \in Asking /\ NoRequest.at = "idle"
      BY DEF NoRequest, Asking
    <2>2. AssertionsTyped /\ SpentOnce
      BY <2>1 DEF AssertionsInit, AssertionsTyped, SpentOnce, Storable
    <2>3. \A r \in Authenticating : OneLookup(asking[r]) /\ OneDecision(asking[r])
      BY <2>1, ClientAssertionsAssumption DEF AssertionsInit, OneLookup, OneDecision
    <2> QED
      BY <2>2, <2>3 DEF AssertionsInv
  <1>2. AssertionsInv /\ [AssertionsNext]_assertionVars => AssertionsInv'
    <2> SUFFICES ASSUME AssertionsInv, [AssertionsNext]_assertionVars PROVE AssertionsInv'
      OBVIOUS
    <2>1. CASE UNCHANGED assertionVars
      BY <2>1 DEF assertionVars, AssertionsInv, AssertionsTyped, OneLookup, OneDecision, Reliable,
                  SpentOnce
    <2> QED
      BY <2>1, AssertionsStep
  <1>3. AssertionsInv => AssertionsHold
    BY DEF AssertionsInv, AssertionsHold, OneDocument, OneDecision, Reliable
  <1> QED
    BY <1>1, <1>2, <1>3, PTL DEF AssertionsSpec

-----------------------------------------------------------------------------
(* Forms: what the gate in front of the SDK hands on.                       *)

\* The pairs of a that its endpoint knows, those with a value, and those of one field.
Known(a) == {i \in DOMAIN a.pairs : a.pairs[i].field \in Recognised[a.endpoint]}
Filled(a) == {i \in Known(a) : a.pairs[i].value # Blank}
Under(a, f) == {i \in Filled(a) : a.pairs[i].field = f}

\* The known pairs of f are there and all say v; no known field is there twice.
OnlySays(a, f, v) ==
    /\ \E i \in Known(a) : a.pairs[i].field = f
    /\ \A i \in Known(a) : a.pairs[i].field = f => a.pairs[i].value = v
Once(a) ==
    \A i, j \in Known(a) : a.pairs[i].field = a.pairs[j].field => i = j \/ a.pairs[i].field = "resource"
Ours(a) == \A i \in Known(a) : a.pairs[i].field = "resource" => a.pairs[i].value \in {Blank, "here", "here?q"}

LEMMA ProperMeans ==
    ASSUME NEW a
    PROVE  Proper(a) <=> /\ ~Passed(a) /\ a.body = "form" /\ Once(a) /\ Ours(a)
                         /\ OnlySays(a, "client_id", "x")
                         /\ a.endpoint = "token" => OnlySays(a, "grant_type", "refresh_token")
                         /\ a.endpoint = "authorize" => OnlySays(a, "code_challenge_method", "S256")
  <1> DEFINE Bearing(f) == {i \in Known(a) : a.pairs[i].field = f}
             AllSay(f, v) == {a.pairs[i].value : i \in Bearing(f)} = {v}
  <1>1. \A f, v : AllSay(f, v) <=> OnlySays(a, f, v)
    BY DEF OnlySays
  <1>2. Proper(a) <=> /\ ~Passed(a) /\ a.body = "form" /\ Once(a)
                      /\ \A i \in Bearing("resource") : a.pairs[i].value \in {Blank, "here", "here?q"}
                      /\ AllSay("client_id", "x")
                      /\ a.endpoint = "token" => AllSay("grant_type", "refresh_token")
                      /\ a.endpoint = "authorize" => AllSay("code_challenge_method", "S256")
    BY DEF Proper, Known, Once
  <1>3. Ours(a) <=> \A i \in Bearing("resource") : a.pairs[i].value \in {Blank, "here", "here?q"}
    BY DEF Ours
  <1> HIDE DEF AllSay, Bearing
  <1> QED
    BY <1>1, <1>2, <1>3

LEMMA PairsTyped ==
    ASSUME NEW a \in SentForms
    PROVE  /\ a.endpoint \in FormEndpoints /\ a.method \in {"GET", "POST"}
           /\ DOMAIN a.pairs \subseteq 1 .. MaxPairs
           /\ \A i \in DOMAIN a.pairs : a.pairs[i] \in FormPair
  <1>1. /\ a.endpoint \in FormEndpoints /\ a.method \in {"GET", "POST"}
        /\ a.pairs \in SeqOf(FormPair, MaxPairs)
    BY DEF SentForms
  <1>2. PICK m \in 0 .. MaxPairs : a.pairs \in [1 .. m -> FormPair]
    BY <1>1 DEF SeqOf
  <1> QED
    BY <1>1, <1>2, FormsAssumption

LEMMA ValuesTyped ==
    ASSUME NEW p \in FormPair
    PROVE  /\ p.field \in {"client_id", "grant_type", "code_challenge_method", "resource"}
           /\ p.field = "client_id" => p.value \in {Blank, "x"}
           /\ p.field = "grant_type" => p.value \in {Blank, "refresh_token", "password"}
           /\ p.field = "code_challenge_method" => p.value \in {"S256", "plain"}
           /\ p.field = "resource" => p.value \in {Blank} \cup Resource
  <1>1. PICK f \in {"client_id", "grant_type", "code_challenge_method", "resource"} :
           p \in [field : {f}, value : Values(f)]
    <2>1. PICK f \in {"client_id", "grant_type", "code_challenge_method", "resource"} :
             p \in {[field |-> f, value |-> v] : v \in Values(f)}
      BY DEF FormPair
    <2> QED
      BY <2>1
  <1>2. p.field = f /\ p.value \in Values(f)
    BY <1>1
  <1> QED
    BY <1>2 DEF Values

\* Dropping what is not known and what has no value leaves the pairs that are filled in.
LEMMA StatedIsFilled ==
    ASSUME NEW a \in SentForms
    PROVE  /\ DOMAIN Judgeable(a) = Known(a)
           /\ \A i \in Known(a) : Judgeable(a)[i] = a.pairs[i]
           /\ DOMAIN Stated(Judgeable(a)) = Filled(a)
           /\ \A i \in Filled(a) : Stated(Judgeable(a))[i] = a.pairs[i]
  <1>1. /\ DOMAIN Judgeable(a) = Known(a)
        /\ \A i \in Known(a) : Judgeable(a)[i] = a.pairs[i]
    BY DEF Judgeable, Known, Restrict
  <1> QED
    BY <1>1 DEF Stated, Filled, Restrict, Empty

\* What is refused is not proper; of what is not, each field but resource is there
\* once, and what is stated is not malformed and, at token, not foreign.
LEMMA RefusedIsImproper ==
    ASSUME NEW a \in SentForms, Passed(a) \/ BodyRefusal(a) # "" \/ FormRefusal(a) # ""
    PROVE  ~Proper(a)
  <1> DEFINE J == Judgeable(a)
             S == Stated(J)
  <1> SUFFICES ASSUME Proper(a) PROVE FALSE
    OBVIOUS
  <1>1. ~Passed(a) /\ a.body = "form"
    BY ProperMeans
  <1>2. BodyRefusal(a) = ""
    BY <1>1 DEF BodyRefusal
  <1>3. \/ Repeated(J) \/ UnsupportedGrant(a, J)
        \/ \E i \in Named(S, "resource") : Malformed(S[i].value)
        \/ Foreign(S) # {}
    BY <1>1, <1>2 DEF FormRefusal
  <1>4. ~Repeated(J)
    BY ZenonT(60), StatedIsFilled, ProperMeans DEF Repeated, Once
  <1>5. ~UnsupportedGrant(a, J)
    BY ZenonT(60), StatedIsFilled, ProperMeans DEF UnsupportedGrant, Named, OnlySays
  <1>6. \A i \in Named(S, "resource") : S[i].value \in {"here", "here?q"}
    BY ZenonT(60), StatedIsFilled, ProperMeans DEF Named, Ours, Filled
  <1> QED
    BY <1>3, <1>4, <1>5, <1>6 DEF Foreign, Malformed, AcceptsResource

\* What FormRefusal leaves: each field but resource is there once, a token request asks
\* for the one grant offered, and no resource is malformed or, at token, foreign.
Unrefused(a) == ~Passed(a) /\ BodyRefusal(a) = "" /\ FormRefusal(a) = ""
Abroad(a) == {i \in Under(a, "resource") : ~AcceptsResource(a.pairs[i].value)}

LEMMA WhatIsLeft ==
    ASSUME NEW a \in SentForms, Unrefused(a)
    PROVE  /\ Once(a)
           /\ a.endpoint = "token" => \A i \in Under(a, "grant_type") : a.pairs[i].value = "refresh_token"
           /\ \A i \in Under(a, "resource") : ~Malformed(a.pairs[i].value)
           /\ a.endpoint = "token" => Abroad(a) = {}
  <1> DEFINE J == Judgeable(a)
             S == Stated(J)
  <1>1. /\ ~Repeated(J) /\ ~UnsupportedGrant(a, J)
        /\ \A i \in Named(S, "resource") : ~Malformed(S[i].value)
        /\ a.endpoint = "token" => Foreign(S) = {}
    BY DEF FormRefusal, Unrefused
  <1>2. Once(a)
    BY <1>1, StatedIsFilled DEF Repeated, Once
  <1>3. a.endpoint = "token" => \A i \in Under(a, "grant_type") : a.pairs[i].value = "refresh_token"
    BY <1>1, StatedIsFilled DEF UnsupportedGrant, Named, Under, Filled, Empty
  <1>4. Named(S, "resource") = Under(a, "resource") /\ \A i \in Under(a, "resource") : S[i] = a.pairs[i]
    BY StatedIsFilled DEF Named, Under
  <1>5. Foreign(S) = Abroad(a)
    BY <1>4 DEF Foreign, Abroad
  <1> QED
    BY <1>1, <1>2, <1>3, <1>4, <1>5

\* The first of some places is one place.
LEMMA FirstIsOne ==
    ASSUME NEW places \in SUBSET Nat
    PROVE  /\ First(places) \subseteq places
           /\ \A i, j \in First(places) : i = j
           /\ places # {} => First(places) # {}
  <1>1. ASSUME places # {} PROVE First(places) # {}
    <2> DEFINE R == OpToRel(<, Nat)
    <2>1. IsWellFoundedOn(R, Nat)
      BY NatLessThanWellFounded
    <2>2. PICK i \in places : \A j \in places : <<j, i>> \notin R
      BY <1>1, <2>1, WFMin
    <2>3. \A j \in places : ~(j < i)
      BY <2>2 DEF OpToRel
    <2> QED
      BY <2>3 DEF First
  <1> QED
    BY <1>1 DEF First

\* The resource handed on: one if there are any, another's if there are any of those.
Chosen(a) == First(IF Abroad(a) # {} THEN Abroad(a) ELSE Under(a, "resource"))

LEMMA ChosenIsOne ==
    ASSUME NEW a \in SentForms
    PROVE  /\ Chosen(a) \subseteq Under(a, "resource")
           /\ \A i, j \in Chosen(a) : i = j
           /\ Under(a, "resource") # {} => Chosen(a) # {}
           /\ Abroad(a) # {} => Chosen(a) \subseteq Abroad(a)
  <1>1. Under(a, "resource") \subseteq Nat /\ Abroad(a) \subseteq Under(a, "resource")
    BY PairsTyped, FormsAssumption DEF Under, Filled, Known, Abroad
  <1> QED
    BY <1>1, FirstIsOne DEF Chosen

LEMMA OneResourceLeft ==
    ASSUME NEW a \in SentForms
    PROVE  LET O == OneResource(Stated(Judgeable(a)))
           IN  /\ DOMAIN O = (Filled(a) \ Under(a, "resource")) \cup Chosen(a)
               /\ \A i \in DOMAIN O : O[i] = a.pairs[i]
  <1> DEFINE S == Stated(Judgeable(a))
             O == OneResource(S)
  <1>1. Named(S, "resource") = Under(a, "resource") /\ \A i \in Under(a, "resource") : S[i] = a.pairs[i]
    BY StatedIsFilled DEF Named, Under
  <1>2. Foreign(S) = Abroad(a)
    BY <1>1 DEF Foreign, Abroad
  <1>3. O = Restrict(S, (DOMAIN S \ Under(a, "resource")) \cup Chosen(a))
    BY <1>1, <1>2 DEF OneResource, Chosen
  <1>4. DOMAIN S = Filled(a) /\ \A i \in Filled(a) : S[i] = a.pairs[i]
    BY StatedIsFilled
  <1>5. Chosen(a) \subseteq Filled(a)
    BY ChosenIsOne DEF Under
  <1> HIDE DEF S, O
  <1>6. DOMAIN O = (Filled(a) \ Under(a, "resource")) \cup Chosen(a)
        /\ \A i \in DOMAIN O : O[i] = S[i]
    BY <1>3, <1>4 DEF Restrict
  <1>7. \A i \in DOMAIN O : O[i] = a.pairs[i]
    BY <1>4, <1>5, <1>6
  <1> QED
    BY <1>6, <1>7 DEF O, S

\* In the form handed on, a field other than resource has its pairs that have a value,
\* or the method that was added; resource has the one chosen.
LEMMA ReducedPlaces ==
    ASSUME NEW a \in SentForms, NEW f
    PROVE  LET H == Reduced(a)
               added == IF /\ a.endpoint = "authorize" /\ f = "code_challenge_method"
                           /\ Under(a, "code_challenge_method") = {}
                        THEN {MaxPairs + 1} ELSE {}
           IN  /\ Named(H, f) = (IF f = "resource" THEN Chosen(a) ELSE Under(a, f)) \cup added
               /\ \A i \in Named(H, f) \ added : H[i] = a.pairs[i]
               /\ \A i \in added : H[i].value = "plain"
  <1> DEFINE O == OneResource(Stated(Judgeable(a)))
             H == Reduced(a)
             fills == a.endpoint = "authorize" /\ Under(a, "code_challenge_method") = {}
             added == IF fills /\ f = "code_challenge_method" THEN {MaxPairs + 1} ELSE {}
  <1>1. /\ DOMAIN O = (Filled(a) \ Under(a, "resource")) \cup Chosen(a)
        /\ \A i \in DOMAIN O : O[i] = a.pairs[i]
    BY OneResourceLeft
  <1>2. H = WithMethod(a, O)
    BY DEF Reduced
  <1> HIDE DEF O, H
  <1>3. \A g : Named(O, g) = IF g = "resource" THEN Chosen(a) ELSE Under(a, g)
    BY <1>1, ChosenIsOne DEF Named, Under
  <1>4. MaxPairs + 1 \notin DOMAIN O
    BY <1>1, ChosenIsOne, PairsTyped, FormsAssumption DEF Under, Filled, Known
  <1>5. /\ DOMAIN H = DOMAIN O \cup (IF fills THEN {MaxPairs + 1} ELSE {})
        /\ \A i \in DOMAIN O : H[i] = O[i]
        /\ fills => H[MaxPairs + 1] = [field |-> "code_challenge_method", value |-> "plain"]
    BY <1>2, <1>3, <1>4 DEF WithMethod
  <1>6. Named(H, f) = Named(O, f) \cup added
    BY <1>5, <1>4 DEF Named
  <1>7. \A i \in Named(H, f) \ added : H[i] = a.pairs[i]
    BY <1>1, <1>5, <1>6 DEF Named
  <1>8. \A i \in added : H[i].value = "plain"
    BY <1>5
  <1> QED
    BY <1>3, <1>6, <1>7, <1>8 DEF H

LEMMA TakenIsTheOne ==
    ASSUME NEW form, NEW f,
           \A i, j \in Named(form, f) : i = j, Named(form, f) \subseteq Nat
    PROVE  \A i \in Named(form, f) : Taken(form, f) = form[i].value
  <1> SUFFICES ASSUME NEW i \in Named(form, f) PROVE Taken(form, f) = form[i].value
    OBVIOUS
  <1>1. Max(Named(form, f)) = i
    BY DEF Max
  <1> QED
    BY <1>1 DEF Taken

\* A field other than resource, where it is known and once: what the handler takes is
\* what all its pairs say, if they say anything.
LEMMA TakenIsSaid ==
    ASSUME NEW a \in SentForms, Once(a), NEW f \in Recognised[a.endpoint], f # "resource",
           NEW v, v # Blank, v # "plain"
    PROVE  (Taken(Reduced(a), f) = v) <=> OnlySays(a, f, v)
  <1> DEFINE H == Reduced(a)
  <1>1. Under(a, f) \subseteq Nat /\ \A i, j \in Under(a, f) : i = j
    BY PairsTyped, FormsAssumption DEF Under, Filled, Known, Once
  <1>2. CASE Under(a, f) # {}
    <2>1. PICK i \in Under(a, f) : Named(H, f) = {i} /\ H[i] = a.pairs[i]
      BY <1>1, <1>2, ReducedPlaces
    <2>2. Taken(H, f) = a.pairs[i].value
      BY <1>1, <2>1, TakenIsTheOne
    <2>3. \A j \in Known(a) : a.pairs[j].field = f => j = i
      BY DEF Once, Under, Filled
    <2> QED
      BY <2>2, <2>3 DEF OnlySays, Under, Filled
  <1>3. CASE Under(a, f) = {}
    <2>1. \A j \in Known(a) : a.pairs[j].field = f => a.pairs[j].value = Blank
      BY <1>3 DEF Under, Filled
    <2>2. ~OnlySays(a, f, v)
      BY <2>1 DEF OnlySays
    <2>3. Taken(H, f) \in {Blank, "plain"}
      <3>1. CASE Named(H, f) = {}
        BY <3>1 DEF Taken
      <3>2. CASE Named(H, f) # {}
        <4>1. Named(H, f) = {MaxPairs + 1} /\ H[MaxPairs + 1].value = "plain"
          BY <1>3, <3>2, ReducedPlaces
        <4> QED
          BY <4>1, FormsAssumption, TakenIsTheOne
      <3> QED
        BY <3>1, <3>2
    <2> QED
      BY <2>2, <2>3
  <1> QED
    BY <1>2, <1>3

\* A form that is handed on is carried out exactly if it is proper.
LEMMA AnsweredRightly ==
    ASSUME NEW a \in SentForms, Unrefused(a), a.method = "GET" => a.body \in {"form", "crowded"}
    PROVE  /\ (HandlersAnswer(a, Reduced(a)) = "done") <=> Proper(a)
           /\ HandlersAnswer(a, Reduced(a)) \in
                {"done", "invalid_client", "invalid_request", "invalid_target"}
  <1> DEFINE H == Reduced(a)
  <1>1. /\ Once(a) /\ a.endpoint \in FormEndpoints
        /\ a.endpoint = "token" => \A i \in Under(a, "grant_type") : a.pairs[i].value = "refresh_token"
        /\ \A i \in Under(a, "resource") : ~Malformed(a.pairs[i].value)
        /\ a.endpoint = "token" => Abroad(a) = {}
    BY WhatIsLeft, PairsTyped
  <1>2. ~Passed(a) /\ a.body = "form"
    <2>1. a.method \in {"GET", "POST"} /\ a.body \in {"form", "crowded", "other_media", "too_large"}
      BY DEF SentForms
    <2> QED
      BY <2>1 DEF Unrefused, BodyRefusal
  <1>3. (Taken(H, "client_id") # Blank) <=> OnlySays(a, "client_id", "x")
    <2>1. Taken(H, "client_id") \in {Blank, "x"}
      <3>1. Named(H, "client_id") = Under(a, "client_id")
            /\ \A i \in Under(a, "client_id") : H[i] = a.pairs[i]
        BY ReducedPlaces
      <3>2. Under(a, "client_id") \subseteq Nat /\ \A i, j \in Under(a, "client_id") : i = j
        BY <1>1, PairsTyped, FormsAssumption DEF Under, Filled, Known, Once
      <3>3. \A i \in Under(a, "client_id") : a.pairs[i].value = "x"
        BY PairsTyped, ValuesTyped DEF Under, Filled, Known
      <3>4. \A i \in Named(H, "client_id") : Taken(H, "client_id") = H[i].value
        BY <3>1, <3>2, TakenIsTheOne
      <3>5. Named(H, "client_id") = {} => Taken(H, "client_id") = Blank
        BY DEF Taken
      <3> QED
        BY <3>1, <3>3, <3>4, <3>5
    <2>2. "client_id" \in Recognised[a.endpoint]
      BY <1>1 DEF Recognised, FormEndpoints
    <2>3. (Taken(H, "client_id") = "x") <=> OnlySays(a, "client_id", "x")
      BY <1>1, <2>2, TakenIsSaid DEF Blank
    <2> QED
      BY <2>1, <2>3 DEF Blank
  <1>4. ASSUME a.endpoint = "token"
        PROVE  (Taken(H, "grant_type") # Blank) <=> OnlySays(a, "grant_type", "refresh_token")
    <2>1. Named(H, "grant_type") = Under(a, "grant_type")
          /\ \A i \in Under(a, "grant_type") : H[i] = a.pairs[i]
      BY ReducedPlaces
    <2>2. Under(a, "grant_type") \subseteq Nat /\ \A i, j \in Under(a, "grant_type") : i = j
      BY <1>1, PairsTyped, FormsAssumption DEF Under, Filled, Known, Once
    <2>3. \A i \in Named(H, "grant_type") : Taken(H, "grant_type") = H[i].value
      BY <2>1, <2>2, TakenIsTheOne
    <2>4. Named(H, "grant_type") = {} => Taken(H, "grant_type") = Blank
      BY DEF Taken
    <2>5. Taken(H, "grant_type") \in {Blank, "refresh_token"}
      BY <1>1, <1>4, <2>1, <2>3, <2>4
    <2>6. (Taken(H, "grant_type") = "refresh_token") <=> OnlySays(a, "grant_type", "refresh_token")
      <3>1. "grant_type" \in Recognised[a.endpoint]
        BY <1>4 DEF Recognised
      <3> QED
        BY <1>1, <3>1, TakenIsSaid DEF Blank
    <2> QED
      BY <2>5, <2>6 DEF Blank
  <1>5. ASSUME a.endpoint = "authorize"
        PROVE  (Taken(H, "code_challenge_method") = "S256") <=> OnlySays(a, "code_challenge_method", "S256")
    <2>1. "code_challenge_method" \in Recognised[a.endpoint]
      BY <1>5 DEF Recognised
    <2> QED
      BY <1>1, <2>1, TakenIsSaid DEF Blank
  <1>6. Understood(a, H) <=> /\ OnlySays(a, "client_id", "x")
                             /\ a.endpoint = "token" => OnlySays(a, "grant_type", "refresh_token")
                             /\ a.endpoint = "authorize" => OnlySays(a, "code_challenge_method", "S256")
    BY <1>3, <1>4, <1>5 DEF Understood
  <1>7. Ours(a) <=> Abroad(a) = {}
    <2>1. \A i \in Known(a) : a.pairs[i].field = "resource" /\ a.pairs[i].value # Blank
            <=> i \in Under(a, "resource")
      BY DEF Under, Filled
    <2> QED
      BY <2>1 DEF Ours, Abroad, Under, Filled, AcceptsResource, Blank
  <1>8. ASSUME a.endpoint = "authorize"
        PROVE  (Named(H, "resource") # {} /\ ~AcceptsResource(Taken(H, "resource"))) <=> Abroad(a) # {}
    <2>1. Named(H, "resource") = Chosen(a) /\ \A i \in Chosen(a) : H[i] = a.pairs[i]
      BY ReducedPlaces
    <2>2. Chosen(a) \subseteq Nat /\ Under(a, "resource") \subseteq Nat
      BY ChosenIsOne, PairsTyped, FormsAssumption DEF Under, Filled, Known
    <2>3. \A i \in Chosen(a) : Taken(H, "resource") = a.pairs[i].value
      BY <2>1, <2>2, ChosenIsOne, TakenIsTheOne
    <2>4. Abroad(a) \subseteq Under(a, "resource")
      BY DEF Abroad
    <2> QED
      BY <2>1, <2>3, <2>4, ChosenIsOne DEF Abroad
  <1>9. a.endpoint = "revoke" => Abroad(a) = {}
    BY DEF Abroad, Under, Filled, Known, Recognised
  <1>10. a.endpoint \in {"authorize", "token", "revoke"}
    BY <1>1 DEF FormEndpoints
  <1>11. (HandlersAnswer(a, H) = "done") <=> Understood(a, H) /\ Abroad(a) = {}
    BY <1>1, <1>8, <1>9, <1>10 DEF HandlersAnswer, Understood
  <1>12. Proper(a) <=> Understood(a, H) /\ Abroad(a) = {}
    BY <1>1, <1>2, <1>6, <1>7, ProperMeans
  <1> QED
    BY <1>11, <1>12 DEF HandlersAnswer

LEMMA EachFieldOnce ==
    ASSUME NEW a \in SentForms, Unrefused(a)
    PROVE  \A i, j \in DOMAIN Reduced(a) : Reduced(a)[i].field = Reduced(a)[j].field => i = j
  <1> SUFFICES ASSUME NEW i \in DOMAIN Reduced(a), NEW j \in DOMAIN Reduced(a),
                      Reduced(a)[i].field = Reduced(a)[j].field
               PROVE  i = j
    OBVIOUS
  <1> DEFINE f == Reduced(a)[i].field
  <1>1. i \in Named(Reduced(a), f) /\ j \in Named(Reduced(a), f)
    BY DEF Named
  <1>2. Once(a)
    BY WhatIsLeft
  <1>3. \A k, l \in Under(a, f) : f # "resource" => k = l
    BY <1>2 DEF Once, Under, Filled
  <1> HIDE DEF f
  <1>4. CASE f = "resource"
    BY <1>1, <1>4, ReducedPlaces, ChosenIsOne
  <1>5. CASE f # "resource"
    BY <1>1, <1>3, <1>5, ReducedPlaces
  <1> QED
    BY <1>4, <1>5

\* Where a request is: not answered; answered by the gate, for which it was not
\* proper; or handed on, and answered as it should be.
FormsInv ==
    /\ sent \in SentForms
    /\ sent.method = "GET" => sent.body \in {"form", "crowded"}
    /\ \/ handed = <<>> /\ reply = ""
       \/ handed = <<>> /\ reply \notin {"", "done", "temporarily_unavailable"} /\ ~Proper(sent)
       \/ /\ handed = << Reduced(sent) >> /\ Unrefused(sent)
          /\ \/ reply \in {"", "temporarily_unavailable"}
             \/ reply = "done" /\ Proper(sent)
             \/ reply \in {"invalid_client", "invalid_request", "invalid_target"} /\ ~Proper(sent)

LEMMA FormsInvHolds == FormsSpec => []FormsInv
  <1>1. FormsInit => FormsInv
    BY DEF FormsInit, FormsInv
  <1>2. FormsInv /\ [FormsNext]_formVars => FormsInv'
    <2> SUFFICES ASSUME FormsInv, [FormsNext]_formVars PROVE FormsInv'
      OBVIOUS
    <2>1. /\ sent \in SentForms
          /\ sent.method = "GET" => sent.body \in {"form", "crowded"}
      BY DEF FormsInv
    <2>2. sent' = sent
      BY DEF FormsNext, formVars, PassThrough, RefuseForm, HandOn, Handle, ProviderGone
    <2>3. CASE PassThrough
      <3>1. handed' = <<>> /\ reply' = "method_not_allowed" /\ Passed(sent)
        BY <2>3 DEF PassThrough, Waiting
      <3>2. ~Proper(sent)
        BY <2>1, <3>1, RefusedIsImproper
      <3> QED
        BY <2>1, <2>2, <3>1, <3>2 DEF FormsInv
    <2>4. CASE RefuseForm
      <3>1. /\ handed' = <<>> /\ reply' # ""
            /\ reply' = IF BodyRefusal(sent) # "" THEN BodyRefusal(sent) ELSE FormRefusal(sent)
        BY <2>4 DEF RefuseForm, Waiting
      <3>2. ~Proper(sent)
        BY <2>1, <3>1, RefusedIsImproper
      <3>3. reply' \notin {"", "done", "temporarily_unavailable"}
        BY <3>1 DEF BodyRefusal, FormRefusal
      <3> QED
        BY <2>1, <2>2, <3>1, <3>2, <3>3 DEF FormsInv
    <2>5. CASE HandOn
      <3>1. handed' = << Reduced(sent) >> /\ reply' = "" /\ Unrefused(sent)
        BY <2>5 DEF HandOn, Waiting, Unrefused
      <3> QED
        BY <2>1, <2>2, <3>1 DEF FormsInv
    <2>6. CASE Handle
      <3>1. /\ handed = << Reduced(sent) >> /\ Unrefused(sent) /\ handed' = handed
            /\ reply' = HandlersAnswer(sent, Reduced(sent))
        <4>1. /\ handed # <<>> /\ handed' = handed
              /\ reply' = HandlersAnswer(sent, handed[1])
          BY <2>6 DEF Handle
        <4>2. handed = << Reduced(sent) >> /\ Unrefused(sent)
          BY <4>1 DEF FormsInv
        <4>3. handed[1] = Reduced(sent)
          BY <4>2
        <4> QED
          BY <4>1, <4>2, <4>3
      <3>2. /\ (reply' = "done") <=> Proper(sent)
            /\ reply' \in {"done", "invalid_client", "invalid_request", "invalid_target"}
        BY <2>1, <3>1, AnsweredRightly
      <3> QED
        BY <2>1, <2>2, <3>1, <3>2 DEF FormsInv
    <2>7. CASE ProviderGone
      <3>1. /\ handed = << Reduced(sent) >> /\ Unrefused(sent) /\ handed' = handed
            /\ reply' = "temporarily_unavailable"
        BY <2>7 DEF ProviderGone, FormsInv
      <3> QED
        BY <2>1, <2>2, <3>1 DEF FormsInv
    <2>8. CASE UNCHANGED formVars
      BY <2>1, <2>8 DEF FormsInv, formVars
    <2> QED
      BY <2>3, <2>4, <2>5, <2>6, <2>7, <2>8 DEF FormsNext
  <1> QED
    BY <1>1, <1>2, PTL DEF FormsSpec

\* However a client writes its form, it is carried out exactly if it is proper, and the
\* handler is given each field once (ProtocolRequest, authorize).
THEOREM FormsAlwaysJudged == FormsSpec => []FormsJudged
  <1>1. FormsInv => FormsJudged
    <2> SUFFICES ASSUME FormsInv PROVE FormsJudged
      OBVIOUS
    <2>1. sent \in SentForms
      BY DEF FormsInv
    <2>2. CASE handed = <<>>
      <3>1. handed # << Reduced(sent) >>
        <4> DEFINE form == Reduced(sent)
        <4>1. handed # << form >>
          BY <2>2
        <4> QED
          BY <4>1
      <3>2. reply = "" \/ (reply \notin {"", "done", "temporarily_unavailable"} /\ ~Proper(sent))
        BY <3>1 DEF FormsInv
      <3>3. \A k \in DOMAIN handed : FALSE
        BY <2>2
      <3> QED
        BY <3>2, <3>3 DEF FormsJudged
    <2>3. CASE handed # <<>>
      <3>1. handed = << Reduced(sent) >> /\ Unrefused(sent)
        BY <2>3 DEF FormsInv
      <3>2. \A k \in DOMAIN handed : handed[k] = Reduced(sent)
        BY <3>1
      <3>3. \A k \in DOMAIN handed : \A i, j \in DOMAIN handed[k] :
              handed[k][i].field = handed[k][j].field => i = j
        BY <2>1, <3>1, <3>2, EachFieldOnce
      <3>4. /\ reply = "done" => Proper(sent)
            /\ reply # "" /\ Proper(sent) => reply \in {"done", "temporarily_unavailable"}
        BY <2>3 DEF FormsInv
      <3> QED
        BY <3>3, <3>4 DEF FormsJudged
    <2> QED
      BY <2>2, <2>3
  <1> QED
    BY <1>1, FormsInvHolds, PTL
===============================================================================
