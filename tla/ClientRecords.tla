---------------------------- MODULE ClientRecords ----------------------------
(***************************************************************************)
(* Records of dynamically registered MCP clients: what anyone may create   *)
(* and what bounds it, and what a grant makes permanent                    *)
(* (backend/app/auth/mcp_oauth.py, mcp_oauth_state.py).                    *)
(*                                                                         *)
(* The store commits each statement by itself and no lock is taken: a      *)
(* registration culls, counts and writes in three awaits, and records      *)
(* expire meanwhile.  An expired row reads as absent until it is culled.   *)
(***************************************************************************)
EXTENDS Integers, FiniteSets, Sequences, SequencesExt

CONSTANTS
    Clients,     \* client ids, each minted once
    Registering, \* requests to /mcp/register at once
    Addresses,
    MaxRecords,  \* MAX_CLIENT_RECORDS
    Quota,       \* REGISTRATIONS_PER_ADDRESS
    MaxWindows,  \* REGISTRATION_QUOTA_ENTRIES
    Nobody

ASSUME ClientRecordsAssumption ==
    /\ {MaxRecords, Quota, MaxWindows} \subseteq Nat \ {0}
    /\ IsFiniteSet(Clients) /\ IsFiniteSet(Registering)
    /\ Nobody \notin Clients

Lifetimes == {"absent", "unlinked", "expired", "linked"}

\* An address's registrations since its window began; over when the hour has passed.
Window == [address : Addresses, count : 1..Quota, over : BOOLEAN]

VARIABLES
    rows,       \* each client's row and lifetime
    registering,
    told,       \* clients whose id was answered
    exchanging, \* clients whose code is being exchanged, with how far that is
    windows,    \* the quota's table, by the start of each window
    kept,       \* history: clients whose grant was issued and recorded in full
    revived,    \* history: those of them whose record expired while it was being kept
    made        \* history: an address's registrations in the hour of its first,
                \* since a flood last made the table forget it

recordVars == <<rows, registering, told, exchanging, windows, kept, revived, made>>

Away == [at |-> "idle", client |-> Nobody]

RecordsTypeOK ==
    /\ rows \in [Clients -> Lifetimes]
    /\ registering \in [Registering ->
          [at : {"idle", "admitted", "minted", "culled", "counted"}, client : Clients \cup {Nobody}]]
    /\ told \subseteq Clients
    /\ exchanging \in [Clients -> {"no", "known", "issued", "read"}]
    /\ windows \in Seq(Window) /\ Len(windows) <= MaxWindows
    /\ revived \subseteq kept /\ kept \subseteq Clients
    /\ made \in [Addresses -> Nat]

Live == {c \in Clients : rows[c] \in {"unlinked", "linked"}}

Culled == [c \in Clients |-> IF rows[c] = "expired" THEN "absent" ELSE rows[c]]

-----------------------------------------------------------------------------
(* The quota.                                                              *)

Of(a) == {i \in DOMAIN windows : windows[i].address = a}

\* Windows end in the order they began: the first so many of the table are over.
Over(table) == CHOOSE n \in 0..Len(table) : \A i \in DOMAIN table : table[i].over <=> i <= n

\* Windows that are over go first, then the one that began first.
Evicted(table) ==
    LET current == SubSeq(table, Over(table) + 1, Len(table))
    IN  IF Len(current) >= MaxWindows THEN Tail(current) ELSE current

\* The table after one more registration from a: its window goes on, begins anew
\* when it is over, or is made room for.
Admitting(a) ==
    IF Of(a) = {} THEN
        Append(IF Len(windows) >= MaxWindows THEN Evicted(windows) ELSE windows,
               [address |-> a, count |-> 1, over |-> FALSE])
    ELSE LET i == CHOOSE j \in Of(a) : TRUE
         IN  IF windows[i].over
             THEN Append(RemoveAt(windows, i), [address |-> a, count |-> 1, over |-> FALSE])
             ELSE [windows EXCEPT ![i].count = @ + 1]

Throttled(a) == \E i \in Of(a) : ~windows[i].over /\ windows[i].count >= Quota

\* Addresses a flood drove out: every other window is current and began later.
Flooded(a) ==
    \E i \in Of(a) :
        /\ Len(windows) >= MaxWindows
        /\ \A j \in DOMAIN windows : ~windows[j].over /\ j >= i

-----------------------------------------------------------------------------
(* Registration.                                                           *)

\* ClientMetadataBody: the body is JSON and the address within its quota; expired
\* rows are culled, at most once an interval; or 429.
Ask(q, a) ==
    /\ registering[q] = Away
    /\ ~Throttled(a)
    /\ windows' = Admitting(a)
    /\ made' = [b \in Addresses |->
                   IF b = a THEN made[a] + 1
                   ELSE IF Flooded(b) /\ \A i \in DOMAIN windows' : windows'[i].address # b
                   THEN 0 ELSE made[b]]
    /\ rows' \in {rows, Culled}
    /\ registering' = [registering EXCEPT ![q].at = "admitted"]
    /\ UNCHANGED <<told, exchanging, kept, revived>>

\* The early check, 503 when the collection is full; then the handler mints an id.
Mint(q, c) ==
    /\ registering[q].at = "admitted"
    /\ rows[c] = "absent" /\ c \notin told
    /\ \A p \in Registering : registering[p].client # c
    /\ registering' = IF Cardinality(Live) >= MaxRecords
                      THEN [registering EXCEPT ![q] = Away]
                      ELSE [registering EXCEPT ![q] = [at |-> "minted", client |-> c]]
    /\ UNCHANGED <<rows, told, exchanging, windows, kept, revived, made>>

\* ClientRecords.put of a record that is not there: the expired rows go first.
CullExpired(q) ==
    /\ registering[q].at = "minted"
    /\ rows' = Culled
    /\ registering' = [registering EXCEPT ![q].at = "culled"]
    /\ UNCHANGED <<told, exchanging, windows, kept, revived, made>>

Fits == Cardinality(Live) < MaxRecords

\* The live records are counted; at the cap the registration is refused.
CountLive(q) ==
    /\ registering[q].at = "culled"
    /\ registering' = IF Fits THEN [registering EXCEPT ![q].at = "counted"]
                      ELSE [registering EXCEPT ![q] = Away]
    /\ UNCHANGED <<rows, told, exchanging, windows, kept, revived, made>>

\* The row is written, twice with the same lifetime, and its id answered.
Register(q) ==
    /\ registering[q].at = "counted"
    /\ rows' = [rows EXCEPT ![registering[q].client] = "unlinked"]
    /\ told' = told \cup {registering[q].client}
    /\ registering' = [registering EXCEPT ![q] = Away]
    /\ UNCHANGED <<exchanging, windows, kept, revived, made>>

\* The client leaves or the store fails.
GiveUp(q) ==
    /\ registering[q] # Away
    /\ registering' = [registering EXCEPT ![q] = Away]
    /\ UNCHANGED <<rows, told, exchanging, windows, kept, revived, made>>

-----------------------------------------------------------------------------
(* Linking.                                                                *)

\* A code of c's is redeemed: the client is authenticated from its record.
AuthenticateClient(c) ==
    /\ c \in told
    /\ exchanging[c] = "no"
    /\ c \in Live
    /\ exchanging' = [exchanging EXCEPT ![c] = "known"]
    /\ UNCHANGED <<rows, registering, told, windows, kept, revived, made>>

Issue(c) ==
    /\ exchanging[c] = "known"
    /\ exchanging' = [exchanging EXCEPT ![c] = "issued"]
    /\ UNCHANGED <<rows, registering, told, windows, kept, revived, made>>

\* ClientRecords.keep: a record that expired meanwhile is not there to keep.
ReadRecord(c) ==
    /\ exchanging[c] = "issued"
    /\ exchanging' = [exchanging EXCEPT ![c] = IF c \in Live THEN "read" ELSE "no"]
    /\ UNCHANGED <<rows, registering, told, windows, kept, revived, made>>

\* Mutant of KeptAs: the record is written by put, which asks for no lifetime.
KeptAsUnlinked(c) == IF rows[c] = "linked" THEN "linked" ELSE "unlinked"

\* The lifetime issuance gives a record: none.
KeptAs(c) == "linked"

WriteRecord(c) ==
    /\ exchanging[c] = "read"
    /\ rows' = [rows EXCEPT ![c] = KeptAs(c)]
    /\ kept' = kept \cup {c}
    /\ revived' = IF c \in Live THEN revived ELSE revived \cup {c}
    /\ exchanging' = [exchanging EXCEPT ![c] = "no"]
    /\ UNCHANGED <<registering, told, windows, made>>

-----------------------------------------------------------------------------
(* Time and failure.                                                       *)

\* UNLINKED_CLIENT_TTL_SECONDS after it was written.
ExpireRecord(c) ==
    /\ rows[c] = "unlinked"
    /\ rows' = [rows EXCEPT ![c] = "expired"]
    /\ UNCHANGED <<registering, told, exchanging, windows, kept, revived, made>>

\* The window that began first is over.
WindowEnds ==
    \E i \in DOMAIN windows :
        /\ ~windows[i].over
        /\ \A j \in 1..(i - 1) : windows[j].over
        /\ windows' = [windows EXCEPT ![i].over = TRUE]
        /\ made' = [made EXCEPT ![windows[i].address] = 0]
        /\ UNCHANGED <<rows, registering, told, exchanging, kept, revived>>

\* The process ends: requests and quota with it, between any two statements.
EndProcess ==
    /\ registering' = [q \in Registering |-> Away]
    /\ exchanging' = [c \in Clients |-> "no"]
    /\ windows' = <<>>
    /\ made' = [a \in Addresses |-> 0]
    /\ UNCHANGED <<rows, told, kept, revived>>

RecordsInit ==
    /\ rows = [c \in Clients |-> "absent"]
    /\ registering = [q \in Registering |-> Away]
    /\ told = {}
    /\ exchanging = [c \in Clients |-> "no"]
    /\ windows = <<>>
    /\ kept = {}
    /\ revived = {}
    /\ made = [a \in Addresses |-> 0]

RecordsNext ==
    \/ \E q \in Registering :
          \/ CullExpired(q) \/ CountLive(q) \/ Register(q) \/ GiveUp(q)
          \/ \E a \in Addresses : Ask(q, a)
          \/ \E c \in Clients : Mint(q, c)
    \/ \E c \in Clients :
          AuthenticateClient(c) \/ Issue(c) \/ ReadRecord(c) \/ WriteRecord(c) \/ ExpireRecord(c)
    \/ WindowEnds \/ EndProcess

RecordsSpec == RecordsInit /\ [][RecordsNext]_recordVars

-----------------------------------------------------------------------------
(* Properties.                                                             *)

\* "A permanent record stays permanent": a client whose grant was issued and
\* recorded in full has its record from then on, whatever expires, is culled, is
\* refused or dies around it (ClientRecords).
KeptForGood == \A c \in kept : rows[c] = "linked"

\* MAX_CLIENT_RECORDS bounds the live records, but a count and the write it
\* permits are two statements: registrations that counted together pass the cap,
\* by one less than run at once, and a record that expires between keep's read and
\* its write comes back whatever filled the collection meanwhile.
CapHolds == Cardinality(Live \ revived) < MaxRecords + Cardinality(Registering)

\* An address makes at most its quota of registrations in a window (the fixed hour
\* its first one opened, not any hour), unless a flood of other addresses' newer
\* windows filled the table (RegistrationQuota).
QuotaHolds == \A a \in Addresses : made[a] <= Quota

\* What anyone may create without a credential stays bounded, and at the bounds
\* the clients that are linked lose nothing.
RegistrationsBounded == RecordsTypeOK /\ KeptForGood /\ CapHolds /\ QuotaHolds

=============================================================================
