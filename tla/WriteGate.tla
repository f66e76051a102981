----------------------------- MODULE WriteGate ------------------------------
(***************************************************************************)
(* How requests share the collection: the write gate every mutation takes  *)
(* before it reads what it decides from (services/write_gate.py), the read *)
(* snapshot of an export or a summary (services/read_snapshot.py), and the *)
(* import that is previewed without the gate and applied under it, by      *)
(* whole-table TRUNCATE when it replaces everything                        *)
(* (services/portability/importing.py).                                    *)
(*                                                                         *)
(* One request is one database transaction, an import two: its preview and *)
(* its apply.  PostgreSQL's part is modelled as the code relies on it:     *)
(* the advisory lock is granted in the order it was asked for and ends     *)
(* with the transaction; a READ COMMITTED statement sees the last commit,  *)
(* a REPEATABLE READ one the state at the transaction's first statement;   *)
(* a SELECT keeps ACCESS SHARE on its table and TRUNCATE takes ACCESS      *)
(* EXCLUSIVE, table by table; a table truncated after a snapshot was taken *)
(* reads empty under it; one party of a deadlock is aborted.               *)
(***************************************************************************)
EXTENDS CollectionJobs, Sequences, SequencesExt

CONSTANTS
    Requests,
    Kinds       \* the kinds of job requests may bring

ASSUME NoneAssumption ==
    None \notin Requests \cup JobsOf(Kinds) \cup Databases \cup [db : Databases, truncations : Nat]

VARIABLES
    db,           \* the committed collection
    truncations,  \* replace_all imports committed so far
    gate,         \* who holds the advisory lock
    queue,        \* who waits for it, in order
    pc,           \* where each request is
    job,          \* what it asks for, None before it arrives
    pinned,       \* its REPEATABLE READ snapshot, None under READ COMMITTED
    seen,         \* how many of its tables it has read
    view,         \* what it read there
    shown,        \* an import: what its preview had read
    shared,       \* who holds ACCESS SHARE on each table
    exclusive     \* how many tables its TRUNCATE has locked

vars == <<db, truncations, gate, queue, pc, job, pinned, seen, view, shown, shared, exclusive>>

Tables == {"retailers", "orders", "kits"}

Answers == {"done", "refused", "failed"}
Places == {"new", "begin", "reading", "preview", "reviewed", "waiting", "gated", "writing"}
          \cup Answers

\* No two rows of retailers bear the same name, though the check for one and the
\* insert are two statements.
TypeOK ==
    /\ db \in Databases
    /\ db.retailers <= 1
    /\ truncations \in Nat
    /\ gate \in Requests \cup {None}
    /\ queue \in Seq(Requests)
    /\ pc \in [Requests -> Places]
    /\ job \in [Requests -> JobsOf(Kinds) \cup {None}]
    /\ pinned \in [Requests -> [db : Databases, truncations : Nat] \cup {None}]
    /\ seen \in [Requests -> 0..3]
    /\ view \in [Requests -> Databases]
    /\ shown \in [Requests -> Databases \cup {None}]
    /\ shared \in [Tables -> SUBSET Requests]
    /\ exclusive \in [Requests -> 0..3]

-----------------------------------------------------------------------------
(* Tables and locks.                                                       *)

\* The tables a request reads, in its order.
ReadOrder(kind) ==
    CASE kind = "export" -> <<"orders", "kits", "retailers">>
      [] kind = "summary" -> <<"kits", "orders">>
      [] kind \in ImportKinds -> <<"retailers", "orders", "kits">>
      [] kind = "create_order" -> <<"retailers">>
      [] kind = "update_kit" -> <<"kits">>
      [] OTHER -> <<"orders", "kits">>

\* The order TRUNCATE names its tables in.
TruncateOrder == <<"kits", "retailers", "orders">>

HasRead(r) == seen[r] = Len(ReadOrder(job[r].kind))

NextTable(r) == ReadOrder(job[r].kind)[seen[r] + 1]

Truncating(r) == pc[r] = "writing" /\ job[r].kind = "replace_all"

\* Tables r's TRUNCATE has locked, or is queued for ahead of later readers.
Locked(r) == {TruncateOrder[n] : n \in 1..exclusive[r]}
Wanted(r) == IF Truncating(r) /\ exclusive[r] < 3 THEN {TruncateOrder[exclusive[r] + 1]} ELSE {}

CanShare(r, t) == \A s \in Requests \ {r} : t \notin Locked(s) \cup Wanted(s)

\* r waits for a table lock s holds.
WaitsFor(r, s) ==
    \/ pc[r] \in {"reading", "preview", "gated"} /\ ~HasRead(r) /\ NextTable(r) \in Locked(s)
    \/ \E t \in Wanted(r) : s \in shared[t]

Deadlocked(r) == \E s \in Requests \ {r} : WaitsFor(r, s) /\ WaitsFor(s, r)

\* What a statement of r sees in a table.
Visible(r, t) ==
    CASE pinned[r] = None -> db[t]
      [] pinned[r] # None /\ pinned[r].truncations = truncations -> pinned[r].db[t]
      [] OTHER -> EmptyDatabase[t]

\* Mutant of HasTurn: the advisory lock taken in its shared form.
HasTurnShared(r) == r \in ToSet(queue)

\* The lock is free and r is the first who asked for it.
HasTurn(r) == gate = None /\ queue # <<>> /\ Head(queue) = r

\* Mutant of Leave: the lock is session-scoped and outlives the transaction.
LeaveHolding(r, answer) ==
    /\ pc' = [pc EXCEPT ![r] = answer]
    /\ queue' = RemoveFirst(queue, r)
    /\ shared' = [t \in Tables |-> shared[t] \ {r}]
    /\ exclusive' = [exclusive EXCEPT ![r] = 0]
    /\ UNCHANGED gate

\* r's transaction ends: COMMIT or ROLLBACK releases everything it holds.
Leave(r, answer) ==
    /\ pc' = [pc EXCEPT ![r] = answer]
    /\ gate' = IF gate = r THEN None ELSE gate
    /\ queue' = RemoveFirst(queue, r)
    /\ shared' = [t \in Tables |-> shared[t] \ {r}]
    /\ exclusive' = [exclusive EXCEPT ![r] = 0]

-----------------------------------------------------------------------------
(* Imports.                                                                *)

Present(f) == {x \in DOMAIN f : f[x] # None}

\* Mutant of PlanHash: the rows to be deleted are counted, not listed.
PlanHashCounted(j, s) ==
    IF j.kind = "replace_all"
    THEN <<s.retailers, Cardinality(Present(s.orders)), Cardinality(Present(s.kits))>>
    ELSE <<s.retailers = 0,
           [x \in j.ids |-> <<s.orders[x],
                              s.orders[x] = "open" /\ s.kits[x] = "in_transit">>]>>

\* The fingerprint of an import's plan against state s: for a merge, how each row
\* of the sheet is met and which kits its receipt moves; for a replacement,
\* which rows go.
PlanHash(j, s) ==
    IF j.kind = "replace_all" THEN <<s.retailers, Present(s.orders), Present(s.kits)>>
    ELSE <<s.retailers = 0,
           [x \in j.ids |-> <<s.orders[x],
                              s.orders[x] = "open" /\ s.kits[x] = "in_transit">>]>>

\* The plan made again under the gate is not the one the preview returned.
Stale(r) == /\ job[r].kind \in ImportKinds
            /\ PlanHash(job[r], shown[r]) # PlanHash(job[r], view[r])

-----------------------------------------------------------------------------
(* Actions.                                                                *)

\* The id of a new order is a fresh UUID, and no sheet names it before it is stored.
Mintable(j) ==
    \A x \in j.ids :
        /\ j.kind = "create_order" =>
              db.orders[x] = None /\ \A s \in Requests : job[s] # None => x \notin job[s].ids
        /\ j.kind # "create_order" =>
              \A s \in Requests :
                  job[s] # None /\ job[s].kind = "create_order" /\ x \in job[s].ids =>
                      pc[s] = "done"

Arrive(r) ==
    /\ pc[r] = "new"
    /\ \E j \in JobsOf(Kinds) :
          /\ Mintable(j)
          /\ job' = [job EXCEPT ![r] = j]
          /\ pc' = [pc EXCEPT ![r] = CASE j.kind \in ReadKinds -> "begin"
                                       [] j.kind \in ImportKinds -> "preview"
                                       [] OTHER -> "waiting"]
          /\ queue' = IF j.kind \in RowKinds THEN Append(queue, r) ELSE queue
    /\ UNCHANGED <<db, truncations, gate, pinned, seen, view, shown, shared, exclusive>>

\* The first statement of an export or a summary takes its snapshot, before it
\* has the lock on the table it reads.
BeginReadSnapshot(r) ==
    /\ pc[r] = "begin"
    /\ pinned' = [pinned EXCEPT ![r] = [db |-> db, truncations |-> truncations]]
    /\ pc' = [pc EXCEPT ![r] = "reading"]
    /\ UNCHANGED <<db, truncations, gate, queue, job, seen, view, shown, shared, exclusive>>

ReadTable(r) ==
    /\ pc[r] \in {"reading", "preview", "gated"}
    /\ ~HasRead(r)
    /\ LET t == NextTable(r)
       IN  /\ CanShare(r, t)
           /\ view' = [view EXCEPT ![r][t] = Visible(r, t)]
           /\ shared' = [shared EXCEPT ![t] = @ \cup {r}]
    /\ seen' = [seen EXCEPT ![r] = @ + 1]
    /\ UNCHANGED <<db, truncations, gate, queue, pc, job, pinned, shown, exclusive>>

\* An export's archive or a summary's counts are handed over.
Deliver(r) ==
    /\ pc[r] = "reading"
    /\ HasRead(r)
    /\ Leave(r, "done")
    /\ UNCHANGED <<db, truncations, job, pinned, seen, view, shown>>

PreviewImport(r) ==
    /\ pc[r] = "preview"
    /\ HasRead(r)
    /\ shown' = [shown EXCEPT ![r] = view[r]]
    /\ view' = [view EXCEPT ![r] = EmptyDatabase]
    /\ seen' = [seen EXCEPT ![r] = 0]
    /\ Leave(r, "reviewed")
    /\ UNCHANGED <<db, truncations, job, pinned>>

\* The owner approves the preview: the apply arrives, and asks for the gate.
ApproveImport(r) ==
    /\ pc[r] = "reviewed"
    /\ pc' = [pc EXCEPT ![r] = "waiting"]
    /\ queue' = Append(queue, r)
    /\ UNCHANGED <<db, truncations, gate, job, pinned, seen, view, shown, shared, exclusive>>

AcquireWriteGate(r) ==
    /\ pc[r] = "waiting"
    /\ HasTurn(r)
    /\ gate' = r
    /\ queue' = RemoveFirst(queue, r)
    /\ pc' = [pc EXCEPT ![r] = "gated"]
    /\ UNCHANGED <<db, truncations, job, pinned, seen, view, shown, shared, exclusive>>

Refuse(r) ==
    /\ pc[r] = "gated"
    /\ HasRead(r)
    /\ ~Allowed(job[r], view[r]) \/ Stale(r)
    /\ Leave(r, "refused")
    /\ UNCHANGED <<db, truncations, job, pinned, seen, view, shown>>

Decide(r) ==
    /\ pc[r] = "gated"
    /\ HasRead(r)
    /\ Allowed(job[r], view[r])
    /\ ~Stale(r)
    /\ pc' = [pc EXCEPT ![r] = "writing"]
    /\ UNCHANGED <<db, truncations, gate, queue, job, pinned, seen, view, shown,
                   shared, exclusive>>

\* TRUNCATE gets the next of its tables once nobody else reads it.
TruncateTable(r) ==
    /\ \E t \in Wanted(r) : shared[t] \subseteq {r}
    /\ exclusive' = [exclusive EXCEPT ![r] = @ + 1]
    /\ UNCHANGED <<db, truncations, gate, queue, pc, job, pinned, seen, view, shown, shared>>

\* What r's rows make of the collection: the rows it changed in the state it read,
\* and, after a TRUNCATE, nothing else.
Written(r) ==
    LET before == view[r]
        after == Outcome(job[r], before)
        Merge(t) == [x \in Ids |-> IF after[t][x] # before[t][x] THEN after[t][x] ELSE db[t][x]]
    IN  IF job[r].kind = "replace_all" THEN after
        ELSE [retailers |-> db.retailers + (after.retailers - before.retailers),
              orders |-> Merge("orders"),
              kits |-> Merge("kits")]

Commit(r) ==
    /\ pc[r] = "writing"
    /\ Wanted(r) = {}
    /\ db' = Written(r)
    /\ truncations' = truncations + IF Truncating(r) THEN 1 ELSE 0
    /\ Leave(r, "done")
    /\ UNCHANGED <<job, pinned, seen, view, shown>>

Active == Places \ (Answers \cup {"new", "reviewed"})

RollBack(r) ==
    /\ pc[r] \in Active
    /\ Leave(r, "failed")
    /\ UNCHANGED <<db, truncations, job, pinned, seen, view, shown>>

\* The client goes away, the process dies, an unhandled error: at any point.
Crash(r) == RollBack(r)

\* PostgreSQL aborts one of the parties of a deadlock.
AbortDeadlocked(r) == Deadlocked(r) /\ RollBack(r)

Init ==
    /\ db \in {s \in [retailers : {0, 1},
                      orders : [Ids -> OrderStates \cup {None}],
                      kits : [Ids -> KitStates \cup {None}]] : Reachable(s)}
    /\ truncations = 0
    /\ gate = None
    /\ queue = <<>>
    /\ pc = [r \in Requests |-> "new"]
    /\ job = [r \in Requests |-> None]
    /\ pinned = [r \in Requests |-> None]
    /\ seen = [r \in Requests |-> 0]
    /\ view = [r \in Requests |-> EmptyDatabase]
    /\ shown = [r \in Requests |-> None]
    /\ shared = [t \in Tables |-> {}]
    /\ exclusive = [r \in Requests |-> 0]

\* What the server does of itself for a request it has received.
Step(r) ==
    \/ BeginReadSnapshot(r)
    \/ ReadTable(r)
    \/ Deliver(r)
    \/ PreviewImport(r)
    \/ AcquireWriteGate(r)
    \/ Refuse(r)
    \/ Decide(r)
    \/ TruncateTable(r)
    \/ Commit(r)
    \/ AbortDeadlocked(r)

Next == \E r \in Requests : Arrive(r) \/ ApproveImport(r) \/ Step(r) \/ Crash(r)

Spec == Init /\ [][Next]_vars

FairSpec == Spec /\ \A r \in Requests : WF_vars(Step(r))

-----------------------------------------------------------------------------
(* Properties.                                                             *)

\* "A second writer waits, then works from what the first one committed": what a
\* request read under the gate is still the collection's state whenever it
\* decides or writes, whoever else reads, previews, crashes or is refused.
DecisionsFresh ==
    \A r \in Requests :
        pc[r] \in {"gated", "writing"} =>
            \A n \in 1..seen[r] :
                LET t == ReadOrder(job[r].kind)[n] IN view[r][t] = db[t]

\* Every request takes effect as if alone, at one instant, and a refusal is
\* one the state at that instant deserves (SerialCollection).
Serial == INSTANCE SerialCollection
              WITH answer <- [r \in Requests |-> IF pc[r] \in Answers THEN pc[r] ELSE "none"]
Serializable == Serial!Spec

\* "An apply is only allowed to do what a preview showed": a committed merge
\* changes the rows, and moves the kits, that its preview would have, and nothing
\* else; a replacement destroys exactly the rows its preview counted as lost.
Effects(s, t) ==
    [created  |-> {x \in Ids : s.orders[x] = None /\ t.orders[x] # None},
     lost     |-> {x \in Ids : s.orders[x] # None /\ t.orders[x] = None},
     received |-> {x \in Ids : s.orders[x] = "open" /\ t.orders[x] = "received"},
     moved    |-> {x \in Ids : s.orders[x] # None /\ s.kits[x] # t.kits[x]}]

AppliesWhatWasShown ==
    [][\A r \in Requests :
          pc[r] = "writing" /\ pc'[r] = "done" =>
              /\ job[r].kind = "merge" =>
                    Effects(db, db') = Effects(shown[r], Outcome(job[r], shown[r]))
              /\ job[r].kind = "replace_all" =>
                    /\ Present(db.orders) = Present(shown[r].orders)
                    /\ Present(db.kits) = Present(shown[r].kits)]_vars

\* "An export reports the collection as of its first read": whatever commits while
\* its tables are read one by one, the archive, or the summary, is the committed
\* collection of one instant.
ArchiveOfOneInstant ==
    \A r \in Requests :
        pc[r] = "done" /\ job[r].kind \in ReadKinds =>
            \A n \in 1..seen[r] :
                LET t == ReadOrder(job[r].kind)[n] IN view[r][t] = pinned[r].db[t]

\* What an archive keeps all the same: a table that is not the instant's is empty in
\* it, and only a replacing import that committed since can have emptied it.
ArchiveWholeOrEmptied ==
    \A r \in Requests :
        pc[r] = "done" /\ job[r].kind \in ReadKinds =>
            \A n \in 1..seen[r] :
                LET t == ReadOrder(job[r].kind)[n]
                IN  \/ view[r][t] = pinned[r].db[t]
                    \/ view[r][t] = EmptyDatabase[t] /\ pinned[r].truncations < truncations

\* What a request waits for: the gate and its turn at it, a table a TRUNCATE has
\* locked or is queued for, the readers of a table its own TRUNCATE wants.
HeldUpBy(r, s) ==
    \/ pc[r] = "waiting" /\ gate \in {s, None} /\ (gate = None => Head(queue) = s)
    \/ /\ pc[r] \in {"reading", "preview", "gated"} /\ ~HasRead(r)
       /\ NextTable(r) \in Locked(s) \cup Wanted(s)
    \/ \E t \in Wanted(r) : s \in shared[t]

\* The server can go on with r at once: nobody holds it up, or the deadlock it is
\* in is found.
CanStep(r) ==
    /\ pc[r] \in Active
    /\ (\A s \in Requests \ {r} : ~HeldUpBy(r, s)) \/ Deadlocked(r)

\* No request stands still for good: each one can go on, or is held up, directly
\* or over one other request, by one that can.
NobodyStandsStill ==
    \A r \in Requests : pc[r] \in Active =>
        \/ CanStep(r)
        \/ \E s \in Requests : HeldUpBy(r, s) /\ CanStep(s)
        \/ \E s, u \in Requests : HeldUpBy(r, s) /\ HeldUpBy(s, u) /\ CanStep(u)

\* Only a replacing import and a read or preview ever deadlock, each with the other:
\* no row write, and no merge past its preview, is aborted by PostgreSQL for what
\* somebody else does.
DeadlocksSpareRowWrites ==
    \A r, s \in Requests :
        r # s /\ WaitsFor(r, s) /\ WaitsFor(s, r) =>
            \/ Truncating(r) /\ pc[s] \in {"reading", "preview"}
            \/ Truncating(s) /\ pc[r] \in {"reading", "preview"}

\* Every request the server has received is answered: neither a crash, a refusal
\* nor a deadlock of another request leaves it waiting for ever.
Answered == \A r \in Requests : []<>(pc[r] \notin Active)

=============================================================================
