------------------------------ MODULE Throttle ------------------------------
(***************************************************************************)
(* The failure budgets of a sign-in and of a claim: a ladder of growing    *)
(* delays per action and client address in a bounded table, and two token  *)
(* buckets over the password checks, one of them reserved for browsers     *)
(* that have signed in before (backend/app/auth/budget.py and its use in   *)
(* services/auth.py and routers/auth.py).                                  *)
(*                                                                         *)
(* One process, one event loop: between two awaits a request runs alone.   *)
(* A sign-in awaits the write gate between its judgement and its password  *)
(* check, and a claim between its token and the owner row; a wrong setup   *)
(* token is judged and counted in one go.  Time is in whole seconds; what  *)
(* has gone by is kept, not the clock, so that it never ends.              *)
(***************************************************************************)
EXTENDS Integers, FiniteSets, Functions

CONSTANTS
    Callers,    \* browsers, each at its own address or sharing one
    Address,    \* where each caller's requests come from
    Owners,     \* the callers that know the password and the setup token
    BaseDelay,  \* the first failure's delay
    MaxDelay,   \* the ceiling of the delays
    MaxTracked, \* ladders kept at once
    Minute,     \* seconds in which a bucket refills
    Capacity,   \* checks the general bucket holds
    Reserved    \* checks the reserved bucket holds

ASSUME ThrottleAssumption ==
    /\ Owners \subseteq Callers /\ IsFiniteSet(Callers)
    /\ {BaseDelay, MaxDelay, MaxTracked, Minute, Capacity, Reserved} \subseteq Nat \ {0}

Addresses == {Address[c] : c \in Callers}

\* POST /auth/oidc/start presents the setup token as POST /auth/setup does.
Targets == {"login", "setup"}
Keys == Targets \X Addresses

DecayAfter == 2 * MaxDelay

\* Bound: failures beyond the one that reaches the ceiling delay alike, and are
\* not told apart.
MaxStreak == CHOOSE n \in 1..MaxDelay :
                /\ BaseDelay * 2^(n - 1) >= MaxDelay
                /\ \A m \in 1..(n - 1) : BaseDelay * 2^(m - 1) < MaxDelay

\* Consecutive failures, seconds until the next attempt is allowed, and seconds since
\* the last failure, of which more than DecayAfter are all one.
Ladder == [failures : 0..MaxStreak, locked : 0..MaxDelay, quiet : 0..(DecayAfter + 1)]

FreshLadder == [failures |-> 0, locked |-> 0, quiet |-> DecayAfter + 1]

VARIABLES
    ladders,   \* the table, from some keys to their ladders
    general,   \* the buckets, in parts of a token: a second refills capacity of them
    reserved,
    claimed,
    known,     \* callers that hold a session cookie the instance has stored
    attempts,  \* what each caller's request is doing
    streak,    \* history: per key, its failures in a row since the table forgot it
    told       \* history: how long an owner was told to wait, and if undisturbed

throttleVars == <<ladders, general, reserved, claimed, known, attempts, streak, told>>

\* tracked: the ladder the request holds is still the one in the table.
Attempt == [at : {"idle", "verifying", "claiming"}, tracked : BOOLEAN]

\* The longest a refused caller is told to wait.
MaxWait == IF Minute > MaxDelay THEN Minute ELSE MaxDelay

\* by: the budget that said so, a ladder by its action or the general bucket.
Told == [by : Targets \cup {"instance", "none"}, left : 0..MaxWait, undisturbed : BOOLEAN]
NotTold == [by |-> "none", left |-> 0, undisturbed |-> FALSE]

\* The table never outgrows its bound, and a bucket never its capacity, whatever
\* order attempts, evictions and refills come in.
ThrottleTypeOK ==
    /\ DOMAIN ladders \subseteq Keys
    /\ Cardinality(DOMAIN ladders) <= MaxTracked
    /\ \A k \in DOMAIN ladders : ladders[k] \in Ladder
    /\ general \in 0..(Capacity * Minute)
    /\ reserved \in 0..(Reserved * Minute)
    /\ claimed \in BOOLEAN
    /\ known \in SUBSET Owners
    /\ attempts \in [Callers -> Attempt]
    /\ streak \in [Keys -> [failures : 0..MaxStreak, quiet : 0..(DecayAfter + 1)]]
    /\ told \in [Callers -> Told]

-----------------------------------------------------------------------------
(* Ladders.                                                                *)

Least(a, b) == IF a < b THEN a ELSE b

\* One more failure; after a long enough quiet, the first of a new streak.
Failed(l) ==
    LET n == IF l.quiet > DecayAfter THEN 1 ELSE Least(l.failures + 1, MaxStreak)
    IN  [failures |-> n, locked |-> Least(BaseDelay * 2^(n - 1), MaxDelay), quiet |-> 0]

Decayed(l) == l.locked = 0 /\ l.quiet > DecayAfter

\* What making room may drop: every idle ladder, or else the one that failed
\* longest ago.
Evicted ==
    LET idle == {k \in DOMAIN ladders : Decayed(ladders[k])}
    IN  IF idle # {} THEN {idle}
        ELSE {{v} : v \in {k \in DOMAIN ladders :
                              \A j \in DOMAIN ladders : ladders[j].quiet <= ladders[k].quiet}}

Dropped(k) ==
    IF k \in DOMAIN ladders \/ Cardinality(DOMAIN ladders) < MaxTracked THEN {{}} ELSE Evicted

\* The table once k has been looked up and those of gone have been dropped.
With(k, gone) ==
    [j \in (DOMAIN ladders \ gone) \cup {k} |->
        IF j \in DOMAIN ladders THEN ladders[j] ELSE FreshLadder]

\* Which key a request's ladder has: its action's and its address's.
Target(c) == IF attempts[c].at = "claiming" THEN "setup" ELSE "login"
Key(c) == <<Target(c), Address[c]>>

-----------------------------------------------------------------------------
(* Buckets.                                                                *)

\* Mutant of Wait: rounded down.
WaitRoundedDown(parts) ==
    LET wait == (Minute - parts) \div Capacity IN IF wait < 1 THEN 1 ELSE wait

\* Whole seconds until the general bucket, now short of a token, has one.
Wait(parts) ==
    LET wait == (Minute - parts + Capacity - 1) \div Capacity IN IF wait < 1 THEN 1 ELSE wait

\* Mutant of DrawsReserved: a browser's cookie buys it nothing.
DrawsReservedNever(c) == FALSE

\* The reserved bucket admits c's check.
DrawsReserved(c) == c \in known /\ reserved >= Minute

-----------------------------------------------------------------------------
(* Attempts.                                                               *)

\* Requests whose ladder left the table with gone.
Orphaned(gone) ==
    [c \in Callers |-> IF attempts[c].at # "idle" /\ Key(c) \in gone
                       THEN [attempts[c] EXCEPT !.tracked = FALSE] ELSE attempts[c]]

Forgets(gone) ==
    [k \in Keys |-> IF k \in gone THEN [failures |-> 0, quiet |-> DecayAfter + 1] ELSE streak[k]]

\* The history of k's own failures, by the rule the module's documentation states.
Counts(hist, k) ==
    [hist EXCEPT ![k] =
        [failures |-> IF @.quiet > DecayAfter THEN 1 ELSE Least(@.failures + 1, MaxStreak),
         quiet |-> 0]]

\* Those who were told to wait by k's ladder, or from one bucket, no longer need only wait.
Disturbs(waits, callers) ==
    [c \in Callers |-> IF c \in callers THEN [waits[c] EXCEPT !.undisturbed = FALSE] ELSE waits[c]]

Neighbours(a) == {c \in Callers : Address[c] = a}

\* An owner who was told how long to wait, waits; nobody else does.
MayAttempt(c) == attempts[c].at = "idle" /\ told[c].left = 0

\* A sign-in is refused, with the seconds it is to wait: its ladder is judged
\* first and spends nothing.
Refuse(c, table, gone, by, wait) ==
    /\ ladders' = table
    /\ attempts' = Orphaned(gone)
    /\ streak' = Forgets(gone)
    /\ told' = IF c \in Owners
               THEN [told EXCEPT ![c] = [by |-> by, left |-> wait, undisturbed |-> TRUE]] ELSE told
    /\ UNCHANGED <<general, reserved, claimed, known>>

\* POST /auth/login up to its first await after the judgement.
PasswordLogin(c) ==
    /\ MayAttempt(c)
    /\ LET k == <<"login", Address[c]>>
       IN \E gone \in Dropped(k) :
             LET table == With(k, gone)
             IN  IF table[k].locked > 0 THEN Refuse(c, table, gone, "login", table[k].locked)
                 ELSE IF ~DrawsReserved(c) /\ general < Minute
                 THEN Refuse(c, table, gone, "instance", Wait(general))
                 ELSE
                    /\ ladders' = table
                    /\ attempts' = [Orphaned(gone) EXCEPT ![c] = [at |-> "verifying", tracked |-> TRUE]]
                    /\ streak' = Forgets(gone)
                    /\ IF DrawsReserved(c)
                       THEN /\ reserved' = reserved - Minute
                            /\ told' = [told EXCEPT ![c] = NotTold]
                            /\ UNCHANGED general
                       ELSE /\ general' = general - Minute
                            /\ told' = [Disturbs(told, Callers) EXCEPT ![c] = NotTold]
                            /\ UNCHANGED reserved
                    /\ UNCHANGED <<claimed, known>>

\* POST /auth/setup with a wrong token: throttled, or counted at once.
SetupFails(c) ==
    /\ ~claimed
    /\ MayAttempt(c)
    /\ LET k == <<"setup", Address[c]>>
       IN \E gone \in Dropped(k) :
             LET table == With(k, gone)
             IN  IF table[k].locked > 0 THEN Refuse(c, table, gone, "setup", table[k].locked)
                 ELSE
                    /\ ladders' = [table EXCEPT ![k] = Failed(@)]
                    /\ attempts' = Orphaned(gone)
                    /\ streak' = Counts(Forgets(gone), k)
                    /\ told' = [Disturbs(told, Neighbours(Address[c])) EXCEPT ![c] = NotTold]
                    /\ UNCHANGED <<general, reserved, claimed, known>>

\* POST /auth/setup with the right token goes on to wait for the write gate.
Setup(c) ==
    /\ c \in Owners
    /\ ~claimed
    /\ MayAttempt(c)
    /\ LET k == <<"setup", Address[c]>>
       IN \E gone \in Dropped(k) :
             LET table == With(k, gone)
             IN  IF table[k].locked > 0 THEN Refuse(c, table, gone, "setup", table[k].locked)
                 ELSE
                    /\ ladders' = table
                    /\ attempts' = [Orphaned(gone) EXCEPT ![c] = [at |-> "claiming", tracked |-> TRUE]]
                    /\ streak' = Forgets(gone)
                    /\ told' = [told EXCEPT ![c] = NotTold]
                    /\ UNCHANGED <<general, reserved, claimed, known>>

Ends(c) == attempts' = [attempts EXCEPT ![c] = [at |-> "idle", tracked |-> FALSE]]

\* The ladder a request holds starts over, and with it, if it is the table's, what
\* is held against the address.
Resets(c) ==
    /\ ladders' = IF attempts[c].tracked THEN [ladders EXCEPT ![Key(c)] = FreshLadder] ELSE ladders
    /\ streak' = IF attempts[c].tracked
                 THEN [streak EXCEPT ![Key(c)] = [failures |-> 0, quiet |-> DecayAfter + 1]]
                 ELSE streak

\* A password that is wrong, or that no credential is there to match, counts on
\* the ladder the request was judged by.
VerifyFails(c) ==
    /\ attempts[c].at = "verifying"
    /\ IF attempts[c].tracked
       THEN /\ ladders' = [ladders EXCEPT ![Key(c)] = Failed(@)]
            /\ streak' = Counts(streak, Key(c))
            /\ told' = Disturbs(told, Neighbours(Address[c]))
       ELSE UNCHANGED <<ladders, streak, told>>
    /\ Ends(c)
    /\ UNCHANGED <<general, reserved, claimed, known>>

VerifySucceeds(c) ==
    /\ attempts[c].at = "verifying"
    /\ c \in Owners
    /\ claimed
    /\ Resets(c)
    /\ known' = known \cup {c}
    /\ Ends(c)
    /\ UNCHANGED <<general, reserved, claimed, told>>

\* The write gate is c's: the instance is claimed, unless another claim was first.
Claims(c) ==
    /\ attempts[c].at = "claiming"
    /\ IF claimed THEN UNCHANGED <<ladders, streak, claimed, known>>
       ELSE /\ claimed' = TRUE
            /\ known' = known \cup {c}
            /\ Resets(c)
    /\ Ends(c)
    /\ UNCHANGED <<general, reserved, told>>

\* A request is cut off while it waits for the gate or the database.
Cancel(c) ==
    /\ attempts[c].at # "idle"
    /\ Ends(c)
    /\ UNCHANGED <<ladders, general, reserved, claimed, known, streak, told>>

Second(l) ==
    [l EXCEPT !.locked = IF @ > 0 THEN @ - 1 ELSE 0, !.quiet = Least(@ + 1, DecayAfter + 1)]

\* A bucket refills capacity tokens a minute; refilling it when it is next drawn from
\* comes to the same.
Refilled(parts, capacity) == Least(capacity * Minute, parts + capacity)

\* A second goes by.
Tick ==
    /\ ladders' = [k \in DOMAIN ladders |-> Second(ladders[k])]
    /\ general' = Refilled(general, Capacity)
    /\ reserved' = Refilled(reserved, Reserved)
    /\ streak' = [k \in Keys |-> [streak[k] EXCEPT !.quiet = Least(@ + 1, DecayAfter + 1)]]
    /\ told' = [c \in Callers |-> [told[c] EXCEPT !.left = IF @ > 0 THEN @ - 1 ELSE 0]]
    /\ UNCHANGED <<claimed, known, attempts>>

ThrottleInit ==
    /\ ladders = [k \in {} |-> FreshLadder]
    /\ general = Capacity * Minute
    /\ reserved = Reserved * Minute
    /\ claimed \in BOOLEAN
    /\ known \in IF claimed THEN SUBSET Owners ELSE {{}}
    /\ attempts = [c \in Callers |-> [at |-> "idle", tracked |-> FALSE]]
    /\ streak = [k \in Keys |-> [failures |-> 0, quiet |-> DecayAfter + 1]]
    /\ told = [c \in Callers |-> NotTold]

ThrottleNext ==
    \/ Tick
    \/ \E c \in Callers :
          \/ PasswordLogin(c) \/ SetupFails(c) \/ Setup(c)
          \/ VerifyFails(c) \/ VerifySucceeds(c) \/ Claims(c) \/ Cancel(c)

ThrottleSpec == ThrottleInit /\ [][ThrottleNext]_throttleVars

-----------------------------------------------------------------------------
(* Properties.                                                             *)

\* How long the failures counted in h hold their address back.
Holds(h) ==
    LET delay == IF h.failures = 0 THEN 0 ELSE Least(BaseDelay * 2^(h.failures - 1), MaxDelay)
    IN  IF delay > h.quiet THEN delay - h.quiet ELSE 0

\* "The guesser's own": an address is held back at an action for as long as its
\* own failures there say, doubling up to the ceiling and decaying, and never for
\* what happened at another address, at the other action or in another's
\* eviction; a success there frees it.
HeldForItsOwn ==
    \A k \in Keys :
        (IF k \in DOMAIN ladders THEN ladders[k].locked ELSE 0) = Holds(streak[k])

\* "When it is full, idle ladders go first, then the least recently failed - a
\* wide-enough flood": an address that is held back, or whose failures have not
\* decayed, is forgotten only while every other place in the table is taken by
\* an address that has failed since.
ForgottenOnlyInAFlood ==
    [][\A k \in Keys :
          /\ streak[k].failures > 0 /\ streak[k].quiet <= DecayAfter
          /\ k \in DOMAIN ladders /\ k \notin DOMAIN ladders'
          => Cardinality({j \in Keys \ {k} :
                 streak[j].failures > 0 /\ streak[j].quiet <= streak[k].quiet}) >= MaxTracked - 1]_throttleVars

\* Both: a ladder says no more and no less than its address's own failures, and is
\* only lost to a flood (BackoffTable).
LaddersHold == []HeldForItsOwn /\ ForgottenOnlyInAFlood

\* "A Retry-After that says 0 while the gate is still shut would invite an
\* immediate retry that is refused again": a caller that waited as it was told is
\* not refused for the same reason, unless an attempt at its address failed or one
\* drew from the bucket meanwhile.
WaitIsEnough ==
    [][\A c \in Callers :
          told[c].undisturbed /\ told[c].left = 0 /\ told'[c].by = told[c].by
              => told'[c].left = 0]_throttleVars

\* A caller held back is held for its own address's failures, no shorter and no
\* longer, and no longer than it was told, by tables and buckets within their
\* bounds (BackoffTable, TokenBucket.retry_after).
ThrottleHonest == []ThrottleTypeOK /\ LaddersHold /\ WaitIsEnough

\* "The owner's own admission under a flood": a browser that has signed in
\* before, keeps its cookie and keeps trying is verified again and again, however
\* many other addresses keep the general bucket empty and the table full.
OwnerGetsThrough ==
    \A c \in Owners : <>[](c \in known) => []<>(attempts[c].at = "verifying")

\* A browser that has signed in before is judged by its own address's failures and the
\* reserved bucket alone: however full the table is, room is made for it.
OwnerIsNotCrowdedOut ==
    \A c \in known :
        LET k == <<"login", Address[c]>>
        IN  Holds(streak[k]) = 0 =>
                \E gone \in Dropped(k) : With(k, gone)[k].locked = 0

\* And that bucket is spent on nobody else.
ReservedForOwners ==
    [][\/ reserved' >= reserved
       \/ \E c \in known : /\ attempts[c].at = "idle" /\ attempts'[c].at = "verifying"
                           /\ reserved' = reserved - Minute]_throttleVars

OwnersKeepTheirBudget == []OwnerIsNotCrowdedOut /\ ReservedForOwners

=============================================================================
