-------------------------- MODULE WriteGateProofs ---------------------------
(* Theorems about WriteGate, for every value of its constants.             *)
EXTENDS WriteGate, TLAPS

(* The inductive invariant.  DecisionsFresh is not inductive: a commit moves *)
(* db under any request that reads, unless the one who commits is the only  *)
(* one past the gate; and a statement sees the last commit only in a        *)
(* transaction without a snapshot.                                          *)

\* As much of the type invariant as the proof needs.
Shapes ==
    /\ pc \in [Requests -> Places]
    /\ seen \in [Requests -> Nat]
    /\ DOMAIN job = Requests
    /\ DOMAIN pinned = Requests
    /\ DOMAIN view = Requests
    /\ \A r \in Requests : DOMAIN view[r] = Tables

\* Only the holder of the gate is past it.
HolderOnly == \A r \in Requests : pc[r] \in {"gated", "writing"} => gate = r

\* A snapshot belongs to an export or a summary, which never writes.
SnapshotsRead == \A r \in Requests : pinned[r] # None => pc[r] \in {"reading"} \cup Answers

\* A transaction starts with nothing read, and reads its tables once each.
ReadsInOrder ==
    \A r \in Requests :
        /\ pc[r] \in {"new", "begin", "reviewed", "waiting"} => seen[r] = 0
        /\ seen[r] <= Len(ReadOrder(job[r].kind)) \/ pc[r] \in {"new"}

IInv == Shapes /\ HolderOnly /\ SnapshotsRead /\ ReadsInOrder /\ DecisionsFresh

-----------------------------------------------------------------------------

LEMMA ReadOrderType ==
    \A kind : /\ Len(ReadOrder(kind)) \in Nat
              /\ \A n \in 1..Len(ReadOrder(kind)) : ReadOrder(kind)[n] \in Tables
  BY DEF ReadOrder, Tables, ImportKinds

LEMMA InitIInv == Init => IInv
  <1> SUFFICES ASSUME Init PROVE IInv
    OBVIOUS
  <1>1. Shapes
    BY DEF Init, Shapes, Places, Answers, EmptyDatabase, Tables
  <1>2. QED
    BY <1>1 DEF Init, IInv, HolderOnly, SnapshotsRead, ReadsInOrder, DecisionsFresh

\* The end of a transaction, however it comes.
LEMMA LeaveIInv ==
    ASSUME IInv, NEW r \in Requests, NEW answer \in Answers \cup {"reviewed"},
           Leave(r, answer),
           UNCHANGED <<job, pinned>>,
           \A s \in Requests : s # r => seen'[s] = seen[s] /\ view'[s] = view[s],
           seen' \in [Requests -> Nat],
           DOMAIN view' = Requests, DOMAIN view'[r] = Tables,
           seen'[r] <= Len(ReadOrder(job[r].kind)),
           answer = "reviewed" => seen'[r] = 0 /\ pinned[r] = None,
           db' = db \/ gate = r
    PROVE  IInv'
  <1> USE DEF IInv
  <1>1. Shapes'
    BY DEF Shapes, Leave, Places, Answers
  <1>2. \A s \in Requests : pc'[s] = IF s = r THEN answer ELSE pc[s]
    BY DEF Leave, Shapes
  <1>3. \A s \in Requests : pc'[s] \in {"gated", "writing"} => s # r /\ pc[s] = pc'[s] /\ gate = s
    BY <1>2 DEF HolderOnly, Answers
  <1>4. HolderOnly'
    BY <1>3 DEF HolderOnly, Leave
  <1>5. SnapshotsRead'
    BY <1>2 DEF SnapshotsRead, Answers
  <1>6. ReadsInOrder'
    BY <1>2 DEF ReadsInOrder, Answers, Shapes
  <1>7. DecisionsFresh'
    BY <1>3 DEF DecisionsFresh
  <1> QED
    BY <1>1, <1>4, <1>5, <1>6, <1>7

LEMMA NextIInv == IInv /\ [Next]_vars => IInv'
  <1> SUFFICES ASSUME IInv, [Next]_vars PROVE IInv'
    OBVIOUS
  <1>0. CASE UNCHANGED vars
    BY <1>0 DEF IInv, Shapes, HolderOnly, SnapshotsRead, ReadsInOrder, DecisionsFresh, vars
  <1> SUFFICES ASSUME NEW r \in Requests,
                      Arrive(r) \/ ApproveImport(r) \/ Step(r) \/ Crash(r)
               PROVE  IInv'
    BY <1>0 DEF Next
  <1> USE DEF IInv
  <1>1. CASE Arrive(r)
    <2>1. PICK j \in JobsOf(Kinds) :
              /\ job' = [job EXCEPT ![r] = j]
              /\ pc' = [pc EXCEPT ![r] = CASE j.kind \in ReadKinds -> "begin"
                                           [] j.kind \in ImportKinds -> "preview"
                                           [] OTHER -> "waiting"]
      BY <1>1 DEF Arrive
    <2>2. /\ pc[r] = "new" /\ UNCHANGED <<db, gate, pinned, seen, view>>
      BY <1>1 DEF Arrive
    <2>3. (CASE j.kind \in ReadKinds -> "begin" [] j.kind \in ImportKinds -> "preview"
             [] OTHER -> "waiting") \in {"begin", "preview", "waiting"}
      OBVIOUS
    <2>4. PICK place \in {"begin", "preview", "waiting"} : pc' = [pc EXCEPT ![r] = place]
      BY <2>1, <2>3
    <2>5. Shapes'
      BY <2>1, <2>2, <2>4 DEF Shapes, Places
    <2>6. HolderOnly' /\ SnapshotsRead'
      BY <2>2, <2>4 DEF Shapes, HolderOnly, SnapshotsRead, Answers
    <2>7. ReadsInOrder'
      BY <2>1, <2>2, <2>4, ReadOrderType DEF Shapes, ReadsInOrder
    <2>8. DecisionsFresh'
      BY <2>1, <2>2, <2>4 DEF Shapes, DecisionsFresh
    <2> QED
      BY <2>5, <2>6, <2>7, <2>8
  <1>2. CASE ApproveImport(r)
    BY <1>2 DEF ApproveImport, Shapes, HolderOnly, SnapshotsRead, ReadsInOrder, DecisionsFresh,
                Places, Answers
  <1>3. CASE BeginReadSnapshot(r)
    BY <1>3 DEF BeginReadSnapshot, Shapes, HolderOnly, SnapshotsRead, ReadsInOrder,
                DecisionsFresh, Places, Answers
  <1>4. CASE ReadTable(r)
    <2> DEFINE t == NextTable(r)
    <2>1. /\ pc[r] \in {"reading", "preview", "gated"}
          /\ view' = [view EXCEPT ![r][t] = Visible(r, t)]
          /\ seen' = [seen EXCEPT ![r] = @ + 1]
          /\ ~HasRead(r)
          /\ UNCHANGED <<db, gate, pc, job, pinned>>
      BY <1>4 DEF ReadTable
    <2>2. /\ seen[r] + 1 <= Len(ReadOrder(job[r].kind))
          /\ t \in Tables
          /\ t = ReadOrder(job[r].kind)[seen[r] + 1]
      <3> DEFINE order == ReadOrder(job[r].kind)
      <3>1. t = order[seen[r] + 1]
        BY DEF NextTable
      <3>2. seen[r] <= Len(order) /\ seen[r] # Len(order) /\ seen[r] \in Nat
        BY <2>1 DEF ReadsInOrder, HasRead, Shapes
      <3>3. Len(order) \in Nat /\ \A n \in 1..Len(order) : order[n] \in Tables
        BY ReadOrderType
      <3> HIDE DEF order, t
      <3>4. seen[r] + 1 <= Len(order) /\ seen[r] + 1 \in 1..Len(order)
        BY <3>2, <3>3
      <3> QED
        BY <3>1, <3>3, <3>4 DEF order
    <2>3. /\ view'[r][t] = Visible(r, t)
          /\ \A u \in Tables : u # t => view'[r][u] = view[r][u]
          /\ \A s \in Requests : s # r => view'[s] = view[s] /\ seen'[s] = seen[s]
          /\ seen'[r] = seen[r] + 1
      BY <2>1, <2>2 DEF Shapes
    <2>4. Shapes'
      BY <2>1 DEF Shapes
    <2>5. HolderOnly' /\ SnapshotsRead'
      BY <2>1 DEF HolderOnly, SnapshotsRead
    <2>6. ReadsInOrder'
      BY <2>1, <2>2, <2>3 DEF ReadsInOrder, Shapes
    <2>7. pc[r] = "gated" => Visible(r, t) = db[t]
      BY DEF Visible, SnapshotsRead, Answers
    <2>8. ASSUME NEW s \in Requests, pc'[s] \in {"gated", "writing"}, NEW n \in 1..seen'[s]
          PROVE  view'[s][ReadOrder(job'[s].kind)[n]] = db'[ReadOrder(job'[s].kind)[n]]
      <3>1. CASE s # r
        BY <2>1, <2>3, <2>8, <3>1 DEF DecisionsFresh
      <3>2. CASE s = r
        <4>1. pc[r] = "gated"
          BY <2>1, <2>8, <3>2
        <4>2. ReadOrder(job[r].kind)[n] \in Tables
          BY <2>2, <2>3, <2>8, <3>2, ReadOrderType DEF Shapes
        <4>3. CASE ReadOrder(job[r].kind)[n] = t
          BY <2>1, <2>3, <2>7, <3>2, <4>1, <4>3
        <4>4. CASE ReadOrder(job[r].kind)[n] # t
          <5>1. n \in 1..seen[r]
            BY <2>2, <2>3, <2>8, <3>2, <4>4 DEF Shapes
          <5> QED
            BY <2>1, <2>3, <3>2, <4>1, <4>2, <4>4, <5>1 DEF DecisionsFresh
        <4> QED
          BY <4>3, <4>4
      <3> QED
        BY <3>1, <3>2
    <2>9. DecisionsFresh'
      BY <2>8 DEF DecisionsFresh
    <2> QED
      BY <2>4, <2>5, <2>6, <2>9
  <1>5. CASE Deliver(r) \/ Refuse(r) \/ Crash(r) \/ AbortDeadlocked(r)
    <2>1. PICK answer \in Answers : Leave(r, answer)
      BY <1>5 DEF Deliver, Refuse, Crash, AbortDeadlocked, RollBack, Answers
    <2>2. UNCHANGED <<db, job, pinned, seen, view>> /\ pc[r] # "new"
      BY <1>5 DEF Deliver, Refuse, Crash, AbortDeadlocked, RollBack, Active
    <2>3. answer # "reviewed"
      BY DEF Answers
    <2> QED
      BY <2>1, <2>2, <2>3, LeaveIInv DEF Shapes, ReadsInOrder
  <1>6. CASE PreviewImport(r)
    <2>1. /\ Leave(r, "reviewed")
          /\ UNCHANGED <<db, job, pinned>>
          /\ view' = [view EXCEPT ![r] = EmptyDatabase]
          /\ seen' = [seen EXCEPT ![r] = 0]
          /\ pc[r] = "preview"
      BY <1>6 DEF PreviewImport
    <2>2. /\ DOMAIN view' = Requests /\ DOMAIN view'[r] = Tables
          /\ seen' \in [Requests -> Nat] /\ seen'[r] = 0
          /\ \A s \in Requests : s # r => seen'[s] = seen[s] /\ view'[s] = view[s]
      BY <2>1 DEF Shapes, EmptyDatabase, Tables
    <2>3. pinned[r] = None
      BY <2>1 DEF SnapshotsRead, Answers
    <2>4. seen'[r] <= Len(ReadOrder(job[r].kind))
      BY <2>2, ReadOrderType
    <2> QED
      BY <2>1, <2>2, <2>3, <2>4, LeaveIInv
  <1>7. CASE AcquireWriteGate(r)
    <2>1. /\ pc[r] = "waiting" /\ gate = None /\ gate' = r
          /\ pc' = [pc EXCEPT ![r] = "gated"]
          /\ UNCHANGED <<db, job, pinned, seen, view>>
      BY <1>7 DEF AcquireWriteGate, HasTurn
    <2>2. \A s \in Requests : pc[s] \notin {"gated", "writing"}
      BY <2>1, NoneAssumption DEF HolderOnly
    <2>3. seen[r] = 0 /\ pinned[r] = None
      BY <2>1 DEF ReadsInOrder, SnapshotsRead, Answers
    <2>4. Shapes' /\ HolderOnly' /\ SnapshotsRead'
      BY <2>1, <2>2, <2>3 DEF Shapes, HolderOnly, SnapshotsRead, Places, Answers
    <2>5. ReadsInOrder'
      BY <2>1, <2>3, ReadOrderType DEF Shapes, ReadsInOrder
    <2>6. DecisionsFresh'
      BY <2>1, <2>2, <2>3 DEF Shapes, DecisionsFresh
    <2> QED
      BY <2>4, <2>5, <2>6
  <1>8. CASE Decide(r)
    BY <1>8 DEF Decide, Shapes, HolderOnly, SnapshotsRead, ReadsInOrder, DecisionsFresh,
                Places, Answers
  <1>9. CASE TruncateTable(r)
    BY <1>9 DEF TruncateTable, Shapes, HolderOnly, SnapshotsRead, ReadsInOrder, DecisionsFresh
  <1>10. CASE Commit(r)
    <2>1. /\ Leave(r, "done") /\ pc[r] = "writing"
          /\ UNCHANGED <<job, pinned, seen, view>>
      BY <1>10 DEF Commit
    <2>2. gate = r
      BY <2>1 DEF HolderOnly
    <2> QED
      BY <2>1, <2>2, LeaveIInv DEF Shapes, ReadsInOrder, Answers
  <1> QED
    BY <1>1, <1>2, <1>3, <1>4, <1>5, <1>6, <1>7, <1>8, <1>9, <1>10 DEF Step

\* What a request read under the gate is the collection's state until it ends,
\* for any number of requests, rows and kinds of job.
THEOREM GateKeepsDecisionsFresh == Spec => []DecisionsFresh
  <1>1. IInv => DecisionsFresh
    BY DEF IInv
  <1> QED
    BY InitIInv, NextIInv, <1>1, PTL DEF Spec

-----------------------------------------------------------------------------
(* Serializable.  What a request read under the gate is the collection's     *)
(* state when it commits, so what it decided from there is what the state    *)
(* deserves, and what it writes is what its job makes of that state.         *)

Typed ==
    /\ db \in Databases /\ truncations \in Nat
    /\ job \in [Requests -> JobsOf(Kinds) \cup {None}]
    /\ view \in [Requests -> Databases]
    /\ pinned \in [Requests -> [db : Databases, truncations : Nat] \cup {None}]
    /\ DOMAIN shown = Requests

\* A table not read yet is seen as an empty one.
UnreadIsEmpty ==
    \A r \in Requests : \A t \in Tables :
        (\A n \in 1..seen[r] : ReadOrder(job[r].kind)[n] # t) => view[r][t] = EmptyDatabase[t]

\* What a request asks for, and, past the gate, what it was found to be.
Judged ==
    \A r \in Requests :
        /\ pc[r] = "new" <=> job[r] = None
        /\ pc[r] \in {"begin", "reading"} => job[r].kind \in ReadKinds
        /\ pc[r] \in {"preview", "reviewed"} => job[r].kind \in ImportKinds
        /\ pc[r] \in {"waiting", "gated", "writing"} => job[r].kind \notin ReadKinds
        /\ pc[r] \in {"reviewed", "waiting", "gated", "writing"} /\ job[r].kind \in ImportKinds =>
              shown[r] \in Databases
        /\ pc[r] = "writing" => HasRead(r) /\ Allowed(job[r], view[r]) /\ ~Stale(r)

SerialInv == IInv /\ Typed /\ UnreadIsEmpty /\ Judged

LEMMA DatabaseFields ==
    ASSUME NEW s \in Databases
    PROVE  /\ s = [retailers |-> s.retailers, orders |-> s.orders, kits |-> s.kits]
           /\ s.retailers \in Nat
           /\ s.orders \in [Ids -> OrderStates \cup {None}]
           /\ s.kits \in [Ids -> KitStates \cup {None}]
  BY DEF Databases

LEMMA EmptyIsDatabase == EmptyDatabase \in Databases
  BY DEF EmptyDatabase, Databases

LEMMA JobShape ==
    ASSUME NEW j \in JobsOf(Kinds)
    PROVE  /\ j # None
           /\ j.kind \in RowKinds \cup ImportKinds \cup ReadKinds
           /\ j.ids \subseteq Ids
           /\ j.kind \in ReadKinds => j.ids = {}
  BY NoneAssumption DEF JobsOf, RowKinds, ImportKinds, ReadKinds

(* What a job makes of a collection is a collection. *)
LEMMA OutcomeIsDatabase ==
    ASSUME NEW j \in JobsOf(Kinds), NEW s \in Databases
    PROVE  Outcome(j, s) \in Databases
  <1>1. /\ s.retailers \in Nat
        /\ s.orders \in [Ids -> OrderStates \cup {None}]
        /\ s.kits \in [Ids -> KitStates \cup {None}]
    BY DatabaseFields
  <1>2. WithRetailer(s.retailers) \in Nat
    BY <1>1 DEF WithRetailer
  <1>3. \A x \in Ids : Arrived(s.kits[x]) \in KitStates \cup {None}
    BY <1>1 DEF Arrived, KitStates
  <1> DEFINE On(f, g) == [x \in Ids |-> IF x \in j.ids THEN g[x] ELSE f[x]]
             all(v) == [x \in Ids |-> v]
             absent == {x \in j.ids : s.orders[x] = None}
  <1>4. CASE j.kind = "create_order"
    <2>1. Outcome(j, s) = [retailers |-> WithRetailer(s.retailers),
                           orders |-> On(s.orders, all("open")),
                           kits |-> On(s.kits, all("in_transit"))]
      BY <1>4 DEF Outcome
    <2> QED
      BY <1>1, <1>2, <2>1 DEF Databases, OrderStates, KitStates
  <1>5. CASE j.kind = "receive_order"
    <2>1. Outcome(j, s) = [s EXCEPT !.orders = On(s.orders, all("received")),
                                    !.kits = On(s.kits, [x \in Ids |-> Arrived(s.kits[x])])]
      BY <1>5 DEF Outcome
    <2>2. /\ On(s.orders, all("received")) \in [Ids -> OrderStates \cup {None}]
          /\ On(s.kits, [x \in Ids |-> Arrived(s.kits[x])]) \in [Ids -> KitStates \cup {None}]
      BY <1>1, <1>3 DEF OrderStates
    <2> HIDE DEF On, all
    <2> QED
      BY <2>1, <2>2 DEF Databases
  <1>6. CASE j.kind = "update_kit"
    <2>1. Outcome(j, s) = [s EXCEPT !.kits = On(s.kits, all("in_progress"))]
      BY <1>6 DEF Outcome
    <2>2. On(s.kits, all("in_progress")) \in [Ids -> KitStates \cup {None}]
      BY <1>1 DEF KitStates
    <2> HIDE DEF On, all
    <2> QED
      BY <2>1, <2>2 DEF Databases
  <1>7. CASE j.kind = "delete_order"
    <2>1. Outcome(j, s) = [s EXCEPT !.orders = On(s.orders, all(None)), !.kits = On(s.kits, all(None))]
      BY <1>7 DEF Outcome
    <2>2. /\ On(s.orders, all(None)) \in [Ids -> OrderStates \cup {None}]
          /\ On(s.kits, all(None)) \in [Ids -> KitStates \cup {None}]
      BY <1>1
    <2> HIDE DEF On, all
    <2> QED
      BY <2>1, <2>2 DEF Databases
  <1>8. CASE j.kind = "merge"
    <2> DEFINE moved == [x \in Ids |-> CASE s.orders[x] = None -> "backlog"
                                         [] s.orders[x] = "open" -> Arrived(s.kits[x])
                                         [] OTHER -> s.kits[x]]
    <2>1. Outcome(j, s) =
            [retailers |-> IF absent # {} THEN WithRetailer(s.retailers) ELSE s.retailers,
             orders |-> On(s.orders, all("received")),
             kits |-> On(s.kits, moved)]
      BY <1>8 DEF Outcome
    <2>2. \A x \in Ids : moved[x] \in KitStates \cup {None}
      BY <1>1, <1>3 DEF KitStates
    <2>3. On(s.kits, moved) \in [Ids -> KitStates \cup {None}]
      <3> HIDE DEF moved
      <3> QED
        BY <1>1, <2>2
    <2>4. On(s.orders, all("received")) \in [Ids -> OrderStates \cup {None}]
      BY <1>1 DEF OrderStates
    <2>5. (IF absent # {} THEN WithRetailer(s.retailers) ELSE s.retailers) \in Nat
      BY <1>1, <1>2
    <2> HIDE DEF On, all, moved, absent
    <2> QED
      BY <2>1, <2>3, <2>4, <2>5 DEF Databases
  <1>9. CASE j.kind = "replace_all"
    <2>1. Outcome(j, s) = [retailers |-> 1,
                           orders |-> On(EmptyDatabase.orders, all("received")),
                           kits |-> On(EmptyDatabase.kits, all("backlog"))]
      BY <1>9 DEF Outcome
    <2> QED
      BY <2>1 DEF Databases, OrderStates, KitStates, EmptyDatabase
  <1>10. CASE j.kind \in ReadKinds
    BY <1>10 DEF Outcome, ReadKinds
  <1> QED
    BY <1>4, <1>5, <1>6, <1>7, <1>8, <1>9, <1>10, JobShape DEF RowKinds, ImportKinds

(* What a request past the gate has read, it has as it is committed. *)
LEMMA ReadAsCommitted ==
    ASSUME SerialInv, NEW r \in Requests, pc[r] \in {"gated", "writing"}, HasRead(r)
    PROVE  /\ job[r] \in JobsOf(Kinds) /\ view[r] \in Databases /\ db \in Databases
           /\ job[r].kind \in RowKinds \cup ImportKinds
           /\ job[r].kind = "create_order" =>
                 /\ view[r].retailers = db.retailers
                 /\ view[r].orders = EmptyDatabase.orders /\ view[r].kits = EmptyDatabase.kits
           /\ job[r].kind = "update_kit" => view[r].kits = db.kits
           /\ job[r].kind \in {"receive_order", "delete_order"} =>
                 view[r].orders = db.orders /\ view[r].kits = db.kits
           /\ job[r].kind \in ImportKinds => view[r] = db
  <1> DEFINE kind == job[r].kind
  <1>1. job[r] \in JobsOf(Kinds) /\ view[r] \in Databases /\ db \in Databases
    BY DEF SerialInv, Typed, Judged
  <1>2. kind \in RowKinds \cup ImportKinds
    BY <1>1, JobShape DEF SerialInv, Judged
  <1>3. \A n \in 1..seen[r] : view[r][ReadOrder(kind)[n]] = db[ReadOrder(kind)[n]]
    BY DEF SerialInv, IInv, DecisionsFresh
  <1>4. seen[r] = Len(ReadOrder(kind))
    BY DEF HasRead
  <1>5. \A t \in Tables :
            (\A n \in 1..seen[r] : ReadOrder(kind)[n] # t) => view[r][t] = EmptyDatabase[t]
    BY DEF SerialInv, UnreadIsEmpty
  <1> HIDE DEF kind
  <1>6. ASSUME kind = "create_order"
        PROVE  /\ view[r].retailers = db.retailers
               /\ view[r].orders = EmptyDatabase.orders /\ view[r].kits = EmptyDatabase.kits
    <2>1. ReadOrder(kind) = <<"retailers">>
      BY <1>6 DEF ReadOrder, ImportKinds
    <2> QED
      BY <1>3, <1>4, <1>5, <2>1 DEF Tables
  <1>7. ASSUME kind = "update_kit" PROVE view[r].kits = db.kits
    <2>1. ReadOrder(kind) = <<"kits">>
      BY <1>7 DEF ReadOrder, ImportKinds
    <2> QED
      BY <1>3, <1>4, <2>1
  <1>8. ASSUME kind \in {"receive_order", "delete_order"}
        PROVE  view[r].orders = db.orders /\ view[r].kits = db.kits
    <2>1. ReadOrder(kind) = <<"orders", "kits">>
      BY <1>8 DEF ReadOrder, ImportKinds
    <2> QED
      BY <1>3, <1>4, <2>1
  <1>9. ASSUME kind \in ImportKinds PROVE view[r] = db
    <2>1. ReadOrder(kind) = <<"retailers", "orders", "kits">>
      BY <1>9 DEF ReadOrder, ImportKinds
    <2>2. 1 \in 1..seen[r] /\ 2 \in 1..seen[r] /\ 3 \in 1..seen[r]
      BY <1>4, <2>1
    <2>3. /\ view[r].retailers = db.retailers
          /\ view[r].orders = db.orders /\ view[r].kits = db.kits
      BY <1>3, <2>1, <2>2
    <2> QED
      BY <1>1, <2>3, DatabaseFields
  <1> QED
    BY <1>1, <1>2, <1>6, <1>7, <1>8, <1>9 DEF kind

(* So the decision is the one the committed collection deserves. *)
LEMMA AllowedAsCommitted ==
    ASSUME SerialInv, NEW r \in Requests, pc[r] \in {"gated", "writing"}, HasRead(r)
    PROVE  Allowed(job[r], view[r]) <=> Allowed(job[r], db)
  BY ReadAsCommitted DEF Allowed, RowKinds, ImportKinds

(* And what is written is what the job makes of it. *)
LEMMA WrittenAsDecided ==
    ASSUME SerialInv, NEW r \in Requests, pc[r] = "writing", HasRead(r)
    PROVE  Written(r) = Outcome(job[r], db)
  <1> DEFINE j == job[r]
             before == view[r]
             after == Outcome(j, before)
             result == Outcome(j, db)
             Merge(t) == [x \in Ids |-> IF after[t][x] # before[t][x] THEN after[t][x] ELSE db[t][x]]
             merged == [retailers |-> db.retailers + (after.retailers - before.retailers),
                        orders |-> Merge("orders"), kits |-> Merge("kits")]
  <1>1. /\ j \in JobsOf(Kinds) /\ before \in Databases /\ db \in Databases
        /\ j.kind \in RowKinds \cup ImportKinds
    BY ReadAsCommitted
  <1>2. after \in Databases /\ result \in Databases
    BY <1>1, OutcomeIsDatabase
  <1>3. Written(r) = IF j.kind = "replace_all" THEN after ELSE merged
    BY DEF Written
  <1>4. CASE j.kind = "replace_all"
    BY <1>3, <1>4, ReadAsCommitted DEF ImportKinds
  <1> DEFINE Goal ==
             /\ db.retailers + (after.retailers - before.retailers) = result.retailers
             /\ \A x \in Ids :
                   /\ (IF after.orders[x] # before.orders[x] THEN after.orders[x] ELSE db.orders[x])
                         = result.orders[x]
                   /\ (IF after.kits[x] # before.kits[x] THEN after.kits[x] ELSE db.kits[x])
                         = result.kits[x]
  <1>7. /\ db.retailers \in Nat /\ before.retailers \in Nat
        /\ db.orders \in [Ids -> OrderStates \cup {None}]
        /\ db.kits \in [Ids -> KitStates \cup {None}]
        /\ before.orders \in [Ids -> OrderStates \cup {None}]
        /\ before.kits \in [Ids -> KitStates \cup {None}]
    BY <1>1, DatabaseFields
  <1>8. ASSUME j.kind = "create_order" PROVE Goal
    <2>1. before.retailers = db.retailers
          /\ \A x \in Ids : before.orders[x] = None /\ before.kits[x] = None
      BY <1>8, ReadAsCommitted DEF EmptyDatabase
    <2>2. /\ after.retailers = WithRetailer(before.retailers)
          /\ \A x \in Ids : after.orders[x] = IF x \in j.ids THEN "open" ELSE before.orders[x]
          /\ \A x \in Ids : after.kits[x] = IF x \in j.ids THEN "in_transit" ELSE before.kits[x]
      BY <1>8 DEF Outcome
    <2>3. /\ result.retailers = WithRetailer(db.retailers)
          /\ \A x \in Ids : result.orders[x] = IF x \in j.ids THEN "open" ELSE db.orders[x]
          /\ \A x \in Ids : result.kits[x] = IF x \in j.ids THEN "in_transit" ELSE db.kits[x]
      BY <1>8 DEF Outcome
    <2> HIDE DEF before, after, result
    <2>4. db.retailers + (after.retailers - before.retailers) = result.retailers
      BY <1>7, <2>1, <2>2, <2>3 DEF WithRetailer
    <2>5. None \notin {"open", "in_transit"}
      BY NoneIsNoState DEF OrderStates, KitStates
    <2> QED
      BY <2>1, <2>2, <2>3, <2>4, <2>5
  <1>9. ASSUME j.kind = "receive_order" PROVE Goal
    <2>1. before.orders = db.orders /\ before.kits = db.kits
      BY SMTT(30), <1>9, ReadAsCommitted
    <2>2. /\ after.retailers = before.retailers
          /\ \A x \in Ids : after.orders[x] = IF x \in j.ids THEN "received" ELSE before.orders[x]
          /\ \A x \in Ids : after.kits[x] = IF x \in j.ids THEN Arrived(before.kits[x])
                                                          ELSE before.kits[x]
      BY <1>1, <1>9 DEF Outcome, Databases
    <2>3. /\ result.retailers = db.retailers
          /\ \A x \in Ids : result.orders[x] = IF x \in j.ids THEN "received" ELSE db.orders[x]
          /\ \A x \in Ids : result.kits[x] = IF x \in j.ids THEN Arrived(db.kits[x]) ELSE db.kits[x]
      BY <1>1, <1>9 DEF Outcome, Databases
    <2> HIDE DEF before, after, result
    <2> QED
      BY <1>7, <2>1, <2>2, <2>3
  <1>10. ASSUME j.kind = "update_kit" PROVE Goal
    <2>1. before.kits = db.kits
      BY <1>10, ReadAsCommitted
    <2>2. /\ after.retailers = before.retailers /\ after.orders = before.orders
          /\ \A x \in Ids : after.kits[x] = IF x \in j.ids THEN "in_progress" ELSE before.kits[x]
      BY <1>1, <1>10 DEF Outcome, Databases
    <2>3. /\ result.retailers = db.retailers /\ result.orders = db.orders
          /\ \A x \in Ids : result.kits[x] = IF x \in j.ids THEN "in_progress" ELSE db.kits[x]
      BY <1>1, <1>10 DEF Outcome, Databases
    <2> HIDE DEF before, after, result
    <2> QED
      BY <1>7, <2>1, <2>2, <2>3
  <1>11. ASSUME j.kind = "delete_order" PROVE Goal
    <2>1. before.orders = db.orders /\ before.kits = db.kits
      BY SMTT(30), <1>11, ReadAsCommitted
    <2>2. /\ after.retailers = before.retailers
          /\ \A x \in Ids : after.orders[x] = IF x \in j.ids THEN None ELSE before.orders[x]
          /\ \A x \in Ids : after.kits[x] = IF x \in j.ids THEN None ELSE before.kits[x]
      BY <1>1, <1>11 DEF Outcome, Databases
    <2>3. /\ result.retailers = db.retailers
          /\ \A x \in Ids : result.orders[x] = IF x \in j.ids THEN None ELSE db.orders[x]
          /\ \A x \in Ids : result.kits[x] = IF x \in j.ids THEN None ELSE db.kits[x]
      BY <1>1, <1>11 DEF Outcome, Databases
    <2> HIDE DEF before, after, result
    <2> QED
      BY <1>7, <2>1, <2>2, <2>3
  <1>12. ASSUME j.kind = "merge" PROVE Goal
    <2>1. before = db
      BY <1>12, ReadAsCommitted DEF ImportKinds
    <2>2. after = result
      BY <2>1
    <2>3. result.retailers \in Nat
      BY <1>2, DatabaseFields
    <2> HIDE DEF before, after, result
    <2> QED
      BY <1>7, <2>1, <2>2, <2>3
  <1>13. CASE j.kind # "replace_all"
    <2>1. Goal
      BY <1>1, <1>8, <1>9, <1>10, <1>11, <1>12, <1>13 DEF RowKinds, ImportKinds
    <2>2. result = [retailers |-> result.retailers, orders |-> result.orders, kits |-> result.kits]
          /\ result.orders \in [Ids -> OrderStates \cup {None}]
          /\ result.kits \in [Ids -> KitStates \cup {None}]
      BY <1>2, DatabaseFields
    <2> HIDE DEF result, after, before
    <2>3. Merge("orders") = result.orders
      BY <2>1, <2>2
    <2>4. Merge("kits") = result.kits
      BY <2>1, <2>2
    <2>5. merged = result
      BY <2>1, <2>2, <2>3, <2>4
    <2> QED
      BY <1>3, <1>13, <2>5 DEF result
  <1> QED
    BY <1>4, <1>13

(* A request whose answer does not change, and whose transaction goes on. *)
LEMMA VisibleIsOfTable ==
    ASSUME Typed, NEW r \in Requests, NEW t \in Tables
    PROVE  [view[r] EXCEPT ![t] = Visible(r, t)] \in Databases
  <1>1. view[r] \in Databases /\ db \in Databases
    BY DEF Typed
  <1>2. PICK s \in Databases : Visible(r, t) = s[t]
    BY <1>1, EmptyIsDatabase DEF Visible, Typed
  <1> QED
    BY <1>1, <1>2 DEF Databases, Tables

(* The end of a transaction, with an answer or a preview to show. *)
LEMMA LeaveJudged ==
    ASSUME SerialInv, NEW r \in Requests, NEW answer \in Answers \cup {"reviewed"},
           Leave(r, answer), job' = job,
           pc[r] # "new",
           answer = "reviewed" => job[r].kind \in ImportKinds /\ shown'[r] \in Databases,
           \A s \in Requests : s # r => seen'[s] = seen[s] /\ view'[s] = view[s] /\ shown'[s] = shown[s]
    PROVE  Judged'
  <1>1. \A s \in Requests : pc'[s] = IF s = r THEN answer ELSE pc[s]
    BY DEF Leave, SerialInv, IInv, Shapes
  <1>2. \A s \in Requests : s # r => (HasRead(s) <=> HasRead(s)') /\ (Stale(s) <=> Stale(s)')
    BY DEF HasRead, Stale
  <1> QED
    BY <1>1, <1>2 DEF SerialInv, Judged, Answers

LEMMA NextSerialInv == SerialInv /\ [Next]_vars => SerialInv'
  <1> SUFFICES ASSUME SerialInv, [Next]_vars PROVE SerialInv'
    OBVIOUS
  <1>i. IInv'
    BY NextIInv DEF SerialInv
  <1>0. CASE UNCHANGED vars
    BY <1>i, <1>0 DEF SerialInv, Typed, UnreadIsEmpty, Judged, vars, HasRead, Stale
  <1> SUFFICES ASSUME NEW r \in Requests,
                      Arrive(r) \/ ApproveImport(r) \/ Step(r) \/ Crash(r)
               PROVE  Typed' /\ UnreadIsEmpty' /\ Judged'
    BY <1>0, <1>i DEF Next, SerialInv
  <1>t. /\ db \in Databases /\ view \in [Requests -> Databases] /\ view[r] \in Databases
        /\ job \in [Requests -> JobsOf(Kinds) \cup {None}] /\ pc \in [Requests -> Places]
        /\ DOMAIN shown = Requests
    BY DEF SerialInv, Typed, IInv, Shapes
  <1>1. CASE Arrive(r)
    <2>1. PICK j \in JobsOf(Kinds) :
              /\ job' = [job EXCEPT ![r] = j]
              /\ pc' = [pc EXCEPT ![r] = CASE j.kind \in ReadKinds -> "begin"
                                           [] j.kind \in ImportKinds -> "preview"
                                           [] OTHER -> "waiting"]
      BY <1>1 DEF Arrive
    <2>2. pc[r] = "new" /\ UNCHANGED <<db, truncations, pinned, seen, view, shown>>
      BY <1>1 DEF Arrive
    <2>3. PICK place \in {"begin", "preview", "waiting"} :
              /\ pc' = [pc EXCEPT ![r] = place]
              /\ place = "begin" => j.kind \in ReadKinds
              /\ place = "preview" => j.kind \in ImportKinds
              /\ place = "waiting" => j.kind \notin ReadKinds \cup ImportKinds
      <3> DEFINE place == CASE j.kind \in ReadKinds -> "begin"
                            [] j.kind \in ImportKinds -> "preview"
                            [] OTHER -> "waiting"
      <3>1. /\ place \in {"begin", "preview", "waiting"}
            /\ place = "begin" => j.kind \in ReadKinds
            /\ place = "preview" => j.kind \in ImportKinds
            /\ place = "waiting" => j.kind \notin ReadKinds \cup ImportKinds
        BY DEF ReadKinds, ImportKinds
      <3>2. pc' = [pc EXCEPT ![r] = place]
        BY <2>1
      <3> HIDE DEF place
      <3> QED
        BY <3>1, <3>2
    <2>4. /\ \A s \in Requests : s # r => pc'[s] = pc[s] /\ job'[s] = job[s]
          /\ pc'[r] = place /\ job'[r] = j
      BY <1>t, <2>1, <2>3
    <2>5. Typed'
      BY <2>1, <2>2, <1>t DEF SerialInv, Typed
    <2>6. seen[r] = 0
      BY <2>2 DEF SerialInv, IInv, ReadsInOrder
    <2>7. \A t \in Tables : view[r][t] = EmptyDatabase[t]
      BY <2>6 DEF SerialInv, UnreadIsEmpty
    <2>8. UnreadIsEmpty'
      BY <2>2, <2>4, <2>7 DEF SerialInv, UnreadIsEmpty
    <2>9. \A s \in Requests : s # r => (HasRead(s) <=> HasRead(s)') /\ (Stale(s) <=> Stale(s)')
      BY <2>2, <2>4 DEF HasRead, Stale
    <2>10. j # None
      BY JobShape
    <2>11. Judged'
      BY <2>2, <2>3, <2>4, <2>9, <2>10 DEF SerialInv, Judged
    <2> QED
      BY <2>5, <2>8, <2>11
  <1>2. CASE ApproveImport(r) \/ BeginReadSnapshot(r) \/ AcquireWriteGate(r) \/ TruncateTable(r)
    <2>1. UNCHANGED <<db, job, seen, view, shown>>
      BY <1>2 DEF ApproveImport, BeginReadSnapshot, AcquireWriteGate, TruncateTable
    <2>2. \/ pc[r] = "reviewed" /\ pc' = [pc EXCEPT ![r] = "waiting"]
          \/ pc[r] = "begin" /\ pc' = [pc EXCEPT ![r] = "reading"]
          \/ pc[r] = "waiting" /\ pc' = [pc EXCEPT ![r] = "gated"]
          \/ pc' = pc
      BY <1>2 DEF ApproveImport, BeginReadSnapshot, AcquireWriteGate, TruncateTable
    <2>3. truncations \in Nat /\ truncations' = truncations
      BY <1>2 DEF ApproveImport, BeginReadSnapshot, AcquireWriteGate, TruncateTable, SerialInv, Typed
    <2>4. pinned' \in [Requests -> [db : Databases, truncations : Nat] \cup {None}]
      BY <1>2, <2>3 DEF ApproveImport, BeginReadSnapshot, AcquireWriteGate, TruncateTable,
                        SerialInv, Typed
    <2>5. Typed'
      BY <2>1, <2>3, <2>4 DEF SerialInv, Typed
    <2>6. UnreadIsEmpty'
      BY <2>1 DEF SerialInv, UnreadIsEmpty
    <2>7. \A s \in Requests : (HasRead(s) <=> HasRead(s)') /\ (Stale(s) <=> Stale(s)')
      BY <2>1 DEF HasRead, Stale
    <2>8. Judged'
      BY <1>t, <2>1, <2>2, <2>7 DEF SerialInv, Judged, ReadKinds, ImportKinds
    <2> QED
      BY <2>5, <2>6, <2>8
  <1>3. CASE ReadTable(r)
    <2> DEFINE t == NextTable(r)
    <2>1. /\ pc[r] \in {"reading", "preview", "gated"} /\ ~HasRead(r)
          /\ view' = [view EXCEPT ![r][t] = Visible(r, t)]
          /\ seen' = [seen EXCEPT ![r] = @ + 1]
          /\ UNCHANGED <<db, truncations, pc, job, pinned, shown>>
      BY <1>3 DEF ReadTable
    <2>2. seen \in [Requests -> Nat]
      BY DEF SerialInv, IInv, Shapes
    <2>3. seen[r] + 1 \in 1..Len(ReadOrder(job[r].kind)) /\ t = ReadOrder(job[r].kind)[seen[r] + 1]
      <3> DEFINE order == ReadOrder(job[r].kind)
      <3>1. t = order[seen[r] + 1]
        BY DEF NextTable
      <3>2. seen[r] <= Len(order) /\ seen[r] # Len(order) /\ seen[r] \in Nat
        BY <2>1, <2>2 DEF SerialInv, IInv, ReadsInOrder, HasRead
      <3>3. Len(order) \in Nat
        BY ReadOrderType
      <3> HIDE DEF order
      <3> QED
        BY <3>1, <3>2, <3>3 DEF order
    <2>4. t \in Tables
      BY <2>3, ReadOrderType
    <2> HIDE DEF t
    <2>5. /\ view' = [view EXCEPT ![r] = [view[r] EXCEPT ![t] = Visible(r, t)]]
          /\ [view[r] EXCEPT ![t] = Visible(r, t)] \in Databases
      BY <2>1, <2>4, VisibleIsOfTable DEF SerialInv
    <2>6. Typed'
      BY <1>t, <2>1, <2>5 DEF SerialInv, Typed
    <2>7. /\ \A s \in Requests : s # r => view'[s] = view[s] /\ seen'[s] = seen[s]
          /\ seen'[r] = seen[r] + 1
          /\ \A u \in Tables : u # t => view'[r][u] = view[r][u]
      BY <1>t, <2>1, <2>2, <2>4, <2>5 DEF SerialInv, IInv, Shapes
    <2>8. ASSUME NEW s \in Requests, NEW u \in Tables,
                 \A n \in 1..seen'[s] : ReadOrder(job'[s].kind)[n] # u
          PROVE  view'[s][u] = EmptyDatabase[u]
      <3>1. CASE s # r
        BY <2>1, <2>7, <2>8, <3>1 DEF SerialInv, UnreadIsEmpty
      <3>2. CASE s = r
        <4>1. seen'[r] \in 1..seen'[r]
          BY <2>2, <2>7
        <4>2. u # t
          BY <2>1, <2>3, <2>7, <2>8, <3>2, <4>1
        <4>3. \A n \in 1..seen[r] : n \in 1..seen'[r]
          BY <2>2, <2>7
        <4> QED
          BY <2>1, <2>7, <2>8, <3>2, <4>2, <4>3 DEF SerialInv, UnreadIsEmpty
      <3> QED
        BY <3>1, <3>2
    <2>9. UnreadIsEmpty'
      BY <2>8 DEF UnreadIsEmpty
    <2>10. \A s \in Requests : s # r => (HasRead(s) <=> HasRead(s)') /\ (Stale(s) <=> Stale(s)')
      BY <2>1, <2>7 DEF HasRead, Stale
    <2>11. Judged'
      BY <2>1, <2>7, <2>10 DEF SerialInv, Judged
    <2> QED
      BY <2>6, <2>9, <2>11
  <1>4. CASE Deliver(r) \/ Refuse(r) \/ Crash(r) \/ AbortDeadlocked(r)
    <2>1. PICK answer \in Answers : Leave(r, answer)
      BY <1>4 DEF Deliver, Refuse, Crash, AbortDeadlocked, RollBack, Answers
    <2>2. UNCHANGED <<db, truncations, job, pinned, seen, view, shown>> /\ pc[r] # "new"
      BY <1>4 DEF Deliver, Refuse, Crash, AbortDeadlocked, RollBack, Active
    <2>3. Typed' /\ UnreadIsEmpty'
      BY <2>2 DEF SerialInv, Typed, UnreadIsEmpty
    <2> QED
      BY <2>1, <2>2, <2>3, LeaveJudged DEF Answers
  <1>5. CASE PreviewImport(r)
    <2>1. /\ Leave(r, "reviewed") /\ pc[r] = "preview"
          /\ UNCHANGED <<db, truncations, job, pinned>>
          /\ shown' = [shown EXCEPT ![r] = view[r]]
          /\ view' = [view EXCEPT ![r] = EmptyDatabase]
          /\ seen' = [seen EXCEPT ![r] = 0]
      BY <1>5 DEF PreviewImport
    <2>2. /\ \A s \in Requests : s # r =>
                seen'[s] = seen[s] /\ view'[s] = view[s] /\ shown'[s] = shown[s]
          /\ view'[r] = EmptyDatabase /\ shown'[r] = view[r]
      BY <1>t, <2>1 DEF SerialInv, IInv, Shapes
    <2>3. Typed'
      BY <1>t, <2>1, EmptyIsDatabase DEF SerialInv, Typed
    <2>4. UnreadIsEmpty'
      BY <2>1, <2>2 DEF SerialInv, UnreadIsEmpty
    <2>5. job[r].kind \in ImportKinds
      BY <2>1 DEF SerialInv, Judged
    <2> QED
      BY <1>t, <2>1, <2>2, <2>3, <2>4, <2>5, LeaveJudged
  <1>6. CASE Decide(r)
    <2>1. /\ pc[r] = "gated" /\ HasRead(r) /\ Allowed(job[r], view[r]) /\ ~Stale(r)
          /\ pc' = [pc EXCEPT ![r] = "writing"]
          /\ UNCHANGED <<db, truncations, job, pinned, seen, view, shown>>
      BY <1>6 DEF Decide
    <2>2. Typed' /\ UnreadIsEmpty'
      BY <2>1 DEF SerialInv, Typed, UnreadIsEmpty
    <2>3. \A s \in Requests : (HasRead(s) <=> HasRead(s)') /\ (Stale(s) <=> Stale(s)')
      BY <2>1 DEF HasRead, Stale
    <2>4. Judged'
      BY <1>t, <2>1, <2>3 DEF SerialInv, Judged
    <2> QED
      BY <2>2, <2>4
  <1>7. CASE Commit(r)
    <2>1. /\ pc[r] = "writing" /\ db' = Written(r) /\ Leave(r, "done")
          /\ UNCHANGED <<job, pinned, seen, view, shown>>
      BY <1>7 DEF Commit
    <2>2. HasRead(r)
      BY <2>1 DEF SerialInv, Judged
    <2>3. job[r] \in JobsOf(Kinds)
      BY <2>1, <2>2, ReadAsCommitted
    <2>4. db' \in Databases
      BY <1>t, <2>1, <2>2, <2>3, WrittenAsDecided, OutcomeIsDatabase
    <2>a. truncations' \in Nat
      BY <1>7 DEF Commit, SerialInv, Typed
    <2>5. Typed' /\ UnreadIsEmpty'
      BY <2>1, <2>4, <2>a DEF SerialInv, Typed, UnreadIsEmpty
    <2> QED
      BY <2>1, <2>5, LeaveJudged DEF Answers
  <1> QED
    BY <1>1, <1>2, <1>3, <1>4, <1>5, <1>6, <1>7 DEF Step

LEMMA InitSerialInv == Init => SerialInv
  <1> SUFFICES ASSUME Init PROVE SerialInv
    OBVIOUS
  <1>1. IInv
    BY InitIInv
  <1>2. db \in Databases
    BY DEF Init, Databases
  <1>3. Typed
    BY <1>2, EmptyIsDatabase DEF Init, Typed
  <1>4. UnreadIsEmpty
    BY DEF Init, UnreadIsEmpty
  <1>5. Judged
    BY DEF Init, Judged
  <1> QED
    BY <1>1, <1>3, <1>4, <1>5 DEF SerialInv

Answer == [r \in Requests |-> IF pc[r] \in Answers THEN pc[r] ELSE "none"]

(* What the end of a request looks like to who only sees its answer. *)
LEMMA AnswerGiven ==
    ASSUME SerialInv, NEW r \in Requests, NEW answer \in Answers, Leave(r, answer),
           pc[r] \notin Answers
    PROVE  Answer' = [Answer EXCEPT ![r] = answer] /\ Answer[r] = "none"
  <1>1. pc' = [pc EXCEPT ![r] = answer] /\ pc \in [Requests -> Places]
    BY DEF Leave, SerialInv, IInv, Shapes
  <1> QED
    BY <1>1 DEF Answer

LEMMA AnswerStays ==
    ASSUME SerialInv, NEW r \in Requests, NEW place \in Places \ Answers,
           pc' = [pc EXCEPT ![r] = place], pc[r] \notin Answers
    PROVE  Answer' = Answer
  <1>1. pc \in [Requests -> Places]
    BY DEF SerialInv, IInv, Shapes
  <1> QED
    BY <1>1 DEF Answer

(* The jobs of the two modules are the same. *)
LEMMA SameJobs ==
    /\ Serial!JobsOf(Kinds) = JobsOf(Kinds)
    /\ Serial!ImportKinds = ImportKinds
    /\ \A j, s : Serial!Allowed(j, s) = Allowed(j, s)
    /\ \A j, s : Serial!Outcome(j, s) = Outcome(j, s)
  <1>1. Serial!JobsOf(Kinds) = JobsOf(Kinds)
    BY DEF Serial!JobsOf, JobsOf, Serial!RowKinds, RowKinds, Serial!ImportKinds, ImportKinds,
           Serial!ReadKinds, ReadKinds
  <1>2. Serial!ImportKinds = ImportKinds
    BY DEF Serial!ImportKinds, ImportKinds
  <1>3. \A j, s : Serial!Allowed(j, s) = Allowed(j, s)
    BY DEF Serial!Allowed, Allowed
  <1>6. \A j, s : Serial!Outcome(j, s) = Outcome(j, s)
    BY DEF Serial!Outcome, Outcome, Serial!WithRetailer, WithRetailer, Serial!Arrived, Arrived,
           Serial!EmptyDatabase, EmptyDatabase
  <1> QED
    BY <1>1, <1>2, <1>3, <1>6

(* Every step is a step of the serial collection, or one it does not see. *)
LEMMA SerialStep ==
    ASSUME SerialInv, SerialInv', [Next]_vars
    PROVE  [Serial!Next]_(Serial!vars)
  <1> USE DEF Answer
  <1>a. Serial!vars = <<db, job, Answer>>
    BY DEF Serial!vars
  <1>t. pc \in [Requests -> Places] /\ job \in [Requests -> JobsOf(Kinds) \cup {None}]
    BY DEF SerialInv, IInv, Shapes, Typed
  <1>0. CASE UNCHANGED vars
    BY <1>0 DEF vars, Serial!vars
  <1> SUFFICES ASSUME Next PROVE [Serial!Next]_(Serial!vars)
    BY <1>0
  <1>b. Serial!vars' = <<db', job', Answer'>>
    BY DEF Serial!vars
  <1> HIDE DEF Answer
  <1> SUFFICES ASSUME NEW r \in Requests,
                      Arrive(r) \/ ApproveImport(r) \/ Step(r) \/ Crash(r)
               PROVE  \/ Serial!Arrive(r) \/ Serial!Serve(r) \/ Serial!Refuse(r) \/ Serial!Fail(r)
                      \/ UNCHANGED <<db, job, Answer>>
    <2>1. PICK r \in Requests : Arrive(r) \/ ApproveImport(r) \/ Step(r) \/ Crash(r)
      BY DEF Next
    <2>2. CASE UNCHANGED <<db, job, Answer>>
      BY <1>a, <1>b, <2>2
    <2>3. CASE Serial!Arrive(r) \/ Serial!Serve(r) \/ Serial!Refuse(r) \/ Serial!Fail(r)
      BY <2>3 DEF Serial!Next
    <2> QED
      BY <2>1, <2>2, <2>3
  <1> HIDE DEF Answer
  <1>1. CASE Arrive(r)
    <2>1. PICK j \in JobsOf(Kinds) : job' = [job EXCEPT ![r] = j]
      BY <1>1 DEF Arrive
    <2>2. pc[r] = "new" /\ db' = db
      BY <1>1 DEF Arrive
    <2>3. PICK place \in {"begin", "preview", "waiting"} : pc' = [pc EXCEPT ![r] = place]
      BY <1>1 DEF Arrive
    <2>4. Answer' = Answer
      BY <2>2, <2>3, AnswerStays DEF Places, Answers
    <2>5. job[r] = None
      BY <2>2 DEF SerialInv, Judged
    <2> QED
      BY <2>1, <2>2, <2>4, <2>5, SameJobs DEF Serial!Arrive, Answer
  <1>2. CASE ApproveImport(r) \/ BeginReadSnapshot(r) \/ AcquireWriteGate(r) \/ Decide(r) \/ PreviewImport(r)
    <2>1. PICK place \in {"waiting", "reading", "gated", "writing", "reviewed"} :
              pc' = [pc EXCEPT ![r] = place]
      BY <1>2 DEF ApproveImport, BeginReadSnapshot, AcquireWriteGate, Decide, PreviewImport, Leave
    <2>2. pc[r] \notin Answers /\ UNCHANGED <<db, job>>
      BY <1>2 DEF ApproveImport, BeginReadSnapshot, AcquireWriteGate, Decide, PreviewImport, Answers
    <2> QED
      BY <2>1, <2>2, AnswerStays DEF Places, Answers
  <1>3. CASE ReadTable(r) \/ TruncateTable(r)
    BY <1>3 DEF ReadTable, TruncateTable, Answer
  <1>4. CASE Deliver(r)
    <2>1. pc[r] = "reading" /\ Leave(r, "done") /\ UNCHANGED <<db, job>>
      BY <1>4 DEF Deliver
    <2>2. Answer' = [Answer EXCEPT ![r] = "done"] /\ Answer[r] = "none"
      BY <2>1, AnswerGiven DEF Answers
    <2>3. job[r] \in JobsOf(Kinds) /\ job[r].kind \in ReadKinds /\ job[r].ids = {} /\ job[r] # None
      BY <1>t, <2>1, JobShape DEF SerialInv, Judged
    <2>4. Allowed(job[r], db)
      BY <2>3 DEF Allowed
    <2>5. Outcome(job[r], db) = db
      BY <2>3 DEF Outcome, ReadKinds
    <2> QED
      BY <2>1, <2>2, <2>3, <2>4, <2>5, SameJobs DEF Serial!Serve, Serial!Pending, Answer
  <1>5. CASE Refuse(r)
    <2>1. /\ pc[r] = "gated" /\ HasRead(r) /\ Leave(r, "refused") /\ UNCHANGED <<db, job>>
          /\ ~Allowed(job[r], view[r]) \/ job[r].kind \in ImportKinds
      BY <1>5 DEF Refuse, Stale
    <2>2. Answer' = [Answer EXCEPT ![r] = "refused"] /\ Answer[r] = "none"
      BY <2>1, AnswerGiven DEF Answers
    <2>3. job[r] # None
      BY <2>1 DEF SerialInv, Judged
    <2>4. ~Allowed(job[r], db) \/ job[r].kind \in ImportKinds
      BY <2>1, AllowedAsCommitted
    <2> QED
      BY <2>1, <2>2, <2>3, <2>4, SameJobs DEF Serial!Refuse, Serial!Pending, Answer
  <1>6. CASE Crash(r) \/ AbortDeadlocked(r)
    <2>1. pc[r] \in Active /\ Leave(r, "failed") /\ UNCHANGED <<db, job>>
      BY <1>6 DEF Crash, AbortDeadlocked, RollBack
    <2>2. Answer' = [Answer EXCEPT ![r] = "failed"] /\ Answer[r] = "none"
      BY <2>1, AnswerGiven DEF Answers, Active
    <2>3. job[r] # None
      BY <2>1 DEF SerialInv, Judged, Active
    <2> QED
      BY <2>1, <2>2, <2>3 DEF Serial!Fail, Serial!Pending, Answer
  <1>7. CASE Commit(r)
    <2>1. pc[r] = "writing" /\ db' = Written(r) /\ Leave(r, "done") /\ job' = job
      BY <1>7 DEF Commit
    <2>2. Answer' = [Answer EXCEPT ![r] = "done"] /\ Answer[r] = "none"
      BY <2>1, AnswerGiven DEF Answers
    <2>3. HasRead(r) /\ Allowed(job[r], view[r]) /\ job[r] # None
      BY <2>1 DEF SerialInv, Judged
    <2>4. Allowed(job[r], db) /\ db' = Outcome(job[r], db)
      BY <2>1, <2>3, AllowedAsCommitted, WrittenAsDecided
    <2> QED
      BY <2>1, <2>2, <2>3, <2>4, SameJobs DEF Serial!Serve, Serial!Pending, Answer
  <1> QED
    BY <1>1, <1>2, <1>3, <1>4, <1>5, <1>6, <1>7 DEF Step

(* The write gate makes requests take effect one at a time: WriteGate implements  *)
(* SerialCollection, for any number of requests, rows and kinds of job, through   *)
(* crashes, deadlocks, stale previews and whole-table TRUNCATEs.                  *)
THEOREM GateSerializes == Spec => Serializable
  <1>1. Init => Serial!Init
    BY DEF Init, Serial!Init, Answers, Serial!OrderStates, OrderStates, Serial!KitStates, KitStates,
           Serial!Reachable, Reachable
  <1> QED
    BY <1>1, InitSerialInv, NextSerialInv, SerialStep, PTL DEF Spec, Serializable, Serial!Spec

-----------------------------------------------------------------------------
(* AppliesWhatWasShown.  An import that writes has the plan it was shown.    *)

LEMMA MergeDoesWhatWasShown ==
    ASSUME NEW j \in JobsOf(Kinds), j.kind = "merge",
           NEW s \in Databases, NEW t \in Databases,
           PlanHash(j, s) = PlanHash(j, t)
    PROVE  Effects(s, Outcome(j, s)) = Effects(t, Outcome(j, t))
  <1> DEFINE row(d) == [x \in j.ids |-> <<d.orders[x], d.orders[x] = "open" /\ d.kits[x] = "in_transit">>]
  <1>1. row(s) = row(t)
    BY DEF PlanHash
  <1>2. \A x \in j.ids : /\ s.orders[x] = t.orders[x]
                         /\ s.orders[x] = "open" => (s.kits[x] = "in_transit" <=> t.kits[x] = "in_transit")
    <2> TAKE x \in j.ids
    <2>1. row(s)[x] = row(t)[x]
      BY <1>1
    <2> QED
      BY <2>1
  <1> HIDE DEF row
  <1>3. ASSUME NEW d \in Databases, NEW x \in Ids
        PROVE  /\ Outcome(j, d).orders[x] = IF x \in j.ids THEN "received" ELSE d.orders[x]
               /\ Outcome(j, d).kits[x] =
                     IF x \in j.ids THEN CASE d.orders[x] = None -> "backlog"
                                           [] d.orders[x] = "open" -> Arrived(d.kits[x])
                                           [] OTHER -> d.kits[x]
                     ELSE d.kits[x]
    BY DEF Outcome
  <1>4. ASSUME NEW d \in Databases
        PROVE  Effects(d, Outcome(j, d)) =
                 [created  |-> {x \in j.ids : d.orders[x] = None},
                  lost     |-> {},
                  received |-> {x \in j.ids : d.orders[x] = "open"},
                  moved    |-> {x \in j.ids : d.orders[x] = "open" /\ d.kits[x] = "in_transit"}]
    <2> DEFINE after == Outcome(j, d)
    <2>1. j.ids \subseteq Ids /\ None \notin {"open", "received"}
      BY JobShape, NoneIsNoState DEF OrderStates
    <2>2. \A x \in Ids : d.orders[x] \in {"open", "received", None}
      BY DatabaseFields DEF OrderStates
    <2>3. /\ \A x \in Ids : after.orders[x] = IF x \in j.ids THEN "received" ELSE d.orders[x]
          /\ \A x \in Ids : after.kits[x] =
                IF x \in j.ids THEN CASE d.orders[x] = None -> "backlog"
                                      [] d.orders[x] = "open" -> Arrived(d.kits[x])
                                      [] OTHER -> d.kits[x]
                ELSE d.kits[x]
      BY <1>3
    <2> HIDE DEF after
    <2>4. {x \in Ids : d.orders[x] = None /\ after.orders[x] # None} = {x \in j.ids : d.orders[x] = None}
      BY <2>1, <2>3
    <2>5. {x \in Ids : d.orders[x] # None /\ after.orders[x] = None} = {}
      BY <2>1, <2>3
    <2>6. {x \in Ids : d.orders[x] = "open" /\ after.orders[x] = "received"}
            = {x \in j.ids : d.orders[x] = "open"}
      BY <2>1, <2>3
    <2>7. ASSUME NEW x \in Ids
          PROVE  d.orders[x] # None /\ d.kits[x] # after.kits[x]
                   <=> x \in j.ids /\ d.orders[x] = "open" /\ d.kits[x] = "in_transit"
      <3>1. CASE x \notin j.ids
        BY <2>3, <3>1
      <3>2. CASE x \in j.ids /\ d.orders[x] = None
        BY <2>1, <3>2
      <3>3. CASE x \in j.ids /\ d.orders[x] = "open"
        <4>1. after.kits[x] = Arrived(d.kits[x])
          BY <2>1, <2>3, <3>3
        <4> QED
          BY <2>1, <3>3, <4>1 DEF Arrived
      <3>4. CASE x \in j.ids /\ d.orders[x] = "received"
        <4>1. after.kits[x] = d.kits[x]
          BY <2>1, <2>3, <3>4
        <4> QED
          BY <3>4, <4>1
      <3> QED
        BY <2>2, <3>1, <3>2, <3>3, <3>4
    <2>8. {x \in Ids : d.orders[x] # None /\ d.kits[x] # after.kits[x]}
            = {x \in j.ids : d.orders[x] = "open" /\ d.kits[x] = "in_transit"}
      BY <2>1, <2>7
    <2> QED
      BY <2>4, <2>5, <2>6, <2>8 DEF Effects, after
  <1>5. /\ {x \in j.ids : s.orders[x] = None} = {x \in j.ids : t.orders[x] = None}
        /\ {x \in j.ids : s.orders[x] = "open"} = {x \in j.ids : t.orders[x] = "open"}
        /\ {x \in j.ids : s.orders[x] = "open" /\ s.kits[x] = "in_transit"}
             = {x \in j.ids : t.orders[x] = "open" /\ t.kits[x] = "in_transit"}
    BY <1>2
  <1> QED
    BY <1>4, <1>5

(* "An apply is only allowed to do what a preview showed", for any number of      *)
(* requests, rows and kinds of job: the plan made again under the gate is the one *)
(* shown, and the state it was made from is the one it is applied to.             *)
THEOREM PreviewsAreKept == Spec => AppliesWhatWasShown
  <1> DEFINE Kept ==
        \A r \in Requests :
          pc[r] = "writing" /\ pc'[r] = "done" =>
              /\ job[r].kind = "merge" =>
                    Effects(db, db') = Effects(shown[r], Outcome(job[r], shown[r]))
              /\ job[r].kind = "replace_all" =>
                    /\ Present(db.orders) = Present(shown[r].orders)
                    /\ Present(db.kits) = Present(shown[r].kits)
  <1>1. ASSUME SerialInv, Next PROVE Kept
    <2> SUFFICES ASSUME NEW r \in Requests, pc[r] = "writing", pc'[r] = "done",
                        job[r].kind \in {"merge", "replace_all"}
                 PROVE  /\ job[r].kind = "merge" =>
                              Effects(db, db') = Effects(shown[r], Outcome(job[r], shown[r]))
                        /\ job[r].kind = "replace_all" =>
                              /\ Present(db.orders) = Present(shown[r].orders)
                              /\ Present(db.kits) = Present(shown[r].kits)
      OBVIOUS
    <2>1. /\ HasRead(r) /\ ~Stale(r) /\ job[r].kind \in ImportKinds /\ shown[r] \in Databases
      BY <1>1 DEF SerialInv, Judged, ImportKinds
    <2>2. view[r] = db /\ job[r] \in JobsOf(Kinds) /\ db \in Databases
      BY <1>1, <2>1, ReadAsCommitted
    <2>3. PlanHash(job[r], shown[r]) = PlanHash(job[r], db)
      BY <2>1, <2>2 DEF Stale
    <2>4. CASE job[r].kind = "replace_all"
      BY <2>3, <2>4 DEF PlanHash
    <2>5. CASE job[r].kind = "merge"
      <3>1. db' = Written(r)
        <4>0. pc \in [Requests -> Places]
          BY <1>1 DEF SerialInv, IInv, Shapes
        <4>1. PICK q \in Requests : Arrive(q) \/ ApproveImport(q) \/ Step(q) \/ Crash(q)
          BY <1>1 DEF Next
        <4>2. ASSUME q # r PROVE pc'[r] = pc[r]
          BY <4>0, <4>1, <4>2 DEF Step, Arrive, ApproveImport, Crash, BeginReadSnapshot, ReadTable,
                 Deliver, PreviewImport, AcquireWriteGate, Refuse, Decide, TruncateTable, Commit,
                 AbortDeadlocked, RollBack, Leave
        <4>3. q = r
          BY <4>2
        <4> QED
          BY <4>0, <4>1, <4>3 DEF Step, Arrive, ApproveImport, Crash, BeginReadSnapshot, ReadTable,
                 Deliver, PreviewImport, AcquireWriteGate, Refuse, Decide, TruncateTable, Commit,
                 AbortDeadlocked, RollBack, Leave
      <3>2. db' = Outcome(job[r], db)
        BY <1>1, <2>1, <3>1, WrittenAsDecided
      <3> QED
        BY <2>1, <2>2, <2>3, <2>5, <3>2, MergeDoesWhatWasShown
    <2> QED
      BY <2>4, <2>5
  <1>2. SerialInv /\ [Next]_vars => [Kept]_vars
    BY <1>1
  <1>3. Spec => []SerialInv /\ [][Next]_vars
    BY InitSerialInv, NextSerialInv, PTL DEF Spec
  <1> QED
    BY <1>2, <1>3, PTL DEF AppliesWhatWasShown

-----------------------------------------------------------------------------
(* NobodyStandsStill.  Every lock a request waits for is held, or was asked  *)
(* for, by a request that is under way and knows what it will do next.       *)

Distinct(q) == \A i, k \in 1..Len(q) : q[i] = q[k] => i = k
In(q, s) == \E i \in 1..Len(q) : q[i] = s

\* The gate's holder is past it; those who wait for it stand in its queue, once.
GateHeld ==
    /\ gate \in Requests \cup {None}
    /\ gate # None => pc[gate] \in {"gated", "writing"}
    /\ queue \in Seq(Requests) /\ Distinct(queue)
    /\ \A s \in Requests : In(queue, s) <=> pc[s] = "waiting"

\* A table is shared by who has read it and goes on, and locked by a TRUNCATE.
TablesHeld ==
    /\ shared \in [Tables -> SUBSET Requests]
    /\ exclusive \in [Requests -> 0..3]
    /\ \A s \in Requests : exclusive[s] > 0 => Truncating(s)
    /\ \A t \in Tables : \A s \in shared[t] :
          /\ pc[s] \in {"reading", "preview", "gated", "writing"}
          /\ \E n \in 1..seen[s] : ReadOrder(job[s].kind)[n] = t

LocksHeld == SerialInv /\ GateHeld /\ TablesHeld

LEMMA Removed ==
    ASSUME NEW q \in Seq(Requests), Distinct(q), NEW r \in Requests
    PROVE  /\ RemoveFirst(q, r) \in Seq(Requests)
           /\ Distinct(RemoveFirst(q, r))
           /\ \A s : In(RemoveFirst(q, r), s) <=> In(q, s) /\ s # r
  <1>1. CASE ~In(q, r)
    <2>1. RemoveFirst(q, r) = q
      BY <1>1 DEF RemoveFirst, In
    <2> QED
      BY <1>1, <2>1 DEF In
  <1>2. ASSUME NEW i \in 1..Len(q), q[i] = r
        PROVE  /\ RemoveFirst(q, r) \in Seq(Requests)
               /\ Distinct(RemoveFirst(q, r))
               /\ \A s : In(RemoveFirst(q, r), s) <=> In(q, s) /\ s # r
    <2>1. {k \in 1..Len(q) : q[k] = r} = {i}
      BY <1>2 DEF Distinct
    <2>2. SelectInSeq(q, LAMBDA v : v = r) = i
      <3>1. Min({i}) = i
        BY DEF Min
      <3> QED
        BY <2>1, <3>1 DEF SelectInSeq
    <2>9. RemoveFirst(q, r) = SubSeq(q, 1, i - 1) \o SubSeq(q, i + 1, Len(q))
      BY <1>2, <2>2 DEF RemoveFirst, RemoveAt
    <2> DEFINE p == SubSeq(q, 1, i - 1) \o SubSeq(q, i + 1, Len(q))
    <2>3. /\ p \in Seq(Requests) /\ Len(p) = Len(q) - 1
          /\ \A k \in 1..Len(p) : p[k] = IF k < i THEN q[k] ELSE q[k + 1]
      <3> DEFINE a == SubSeq(q, 1, i - 1)
                 b == SubSeq(q, i + 1, Len(q))
      <3>1. a \in Seq(Requests) /\ Len(a) = i - 1 /\ \A k \in 1..(i - 1) : a[k] = q[k]
        BY <1>2
      <3>2. b \in Seq(Requests) /\ Len(b) = Len(q) - i
            /\ \A k \in 1..(Len(q) - i) : b[k] = q[k + i]
        BY <1>2
      <3>3. p = a \o b
        OBVIOUS
      <3> HIDE DEF a, b, p
      <3>8. a \in Seq(Requests) /\ b \in Seq(Requests)
        BY <3>1, <3>2
      <3>4. p \in Seq(Requests) /\ Len(p) = Len(a) + Len(b)
        BY <3>3, <3>8
      <3>5. \A k \in 1..Len(a) : p[k] = a[k]
        BY <3>1, <3>2, <3>3
      <3>6. \A k \in 1..Len(b) : p[k + Len(a)] = b[k]
        BY <3>1, <3>2, <3>3
      <3>7. ASSUME NEW k \in 1..Len(p) PROVE p[k] = IF k < i THEN q[k] ELSE q[k + 1]
        <4>1. CASE k < i
          BY <3>1, <3>5, <4>1
        <4>2. CASE ~(k < i)
          <5>1. k - (i - 1) \in 1..Len(b) /\ (k - (i - 1)) + Len(a) = k
            BY <3>1, <3>2, <3>4, <4>2, <1>2
          <5>2. p[k] = b[k - (i - 1)]
            BY <3>6, <5>1
          <5>3. k - (i - 1) \in 1..(Len(q) - i) /\ (k - (i - 1)) + i = k + 1
            BY <3>2, <5>1, <4>2, <1>2
          <5> QED
            BY <3>2, <4>2, <5>2, <5>3
        <4> QED
          BY <4>1, <4>2
      <3> QED
        BY <3>1, <3>2, <3>4, <3>7
    <2> HIDE DEF p
    <2>a. Len(q) \in Nat /\ Len(p) = Len(q) - 1
      BY <2>3
    <2>b. \A k \in 1..Len(p) :
              LET m == IF k < i THEN k ELSE k + 1 IN m \in 1..Len(q) /\ m # i /\ p[k] = q[m]
      BY <1>2, <2>3, <2>a
    <2>4. Distinct(p)
      <3> SUFFICES ASSUME NEW k \in 1..Len(p), NEW l \in 1..Len(p), p[k] = p[l] PROVE k = l
        BY DEF Distinct
      <3>1. (IF k < i THEN k ELSE k + 1) = (IF l < i THEN l ELSE l + 1)
        BY <2>b DEF Distinct
      <3> QED
        BY <2>a, <3>1
    <2>5. ASSUME NEW s, In(p, s) PROVE In(q, s) /\ s # r
      <3>1. PICK k \in 1..Len(p) : p[k] = s
        BY <2>5 DEF In
      <3>2. PICK m \in 1..Len(q) : m # i /\ q[m] = s
        BY <2>b, <3>1
      <3> QED
        BY <1>2, <3>2 DEF Distinct, In
    <2>6. ASSUME NEW s, In(q, s), s # r PROVE In(p, s)
      <3>1. PICK k \in 1..Len(q) : q[k] = s /\ k # i
        BY <1>2, <2>6 DEF In
      <3>2. IF k < i THEN k \in 1..Len(p) /\ p[k] = s ELSE k - 1 \in 1..Len(p) /\ p[k - 1] = s
        BY <1>2, <2>3, <3>1
      <3> QED
        BY <3>2 DEF In
    <2> QED
      BY <2>9, <2>3, <2>4, <2>5, <2>6 DEF p
  <1> QED
    BY <1>1, <1>2 DEF In

(* The end of a transaction: whoever else holds or waits for a lock still does. *)
LEMMA LeaveLocks ==
    ASSUME LocksHeld, NEW r \in Requests, NEW answer \in Answers \cup {"reviewed"},
           Leave(r, answer), job' = job,
           \A s \in Requests : s # r => seen'[s] = seen[s]
    PROVE  GateHeld' /\ TablesHeld'
  <1>1. /\ \A s \in Requests : pc'[s] = IF s = r THEN answer ELSE pc[s]
        /\ gate' = IF gate = r THEN None ELSE gate
        /\ queue' = RemoveFirst(queue, r)
        /\ \A t \in Tables : shared'[t] = shared[t] \ {r}
        /\ DOMAIN shared' = Tables
        /\ exclusive' = [exclusive EXCEPT ![r] = 0]
    BY DEF Leave, LocksHeld, SerialInv, IInv, Shapes
  <1>2. answer \notin {"waiting", "gated", "writing", "reading", "preview"}
    BY DEF Answers
  <1>3. GateHeld'
    <2>1. gate' \in Requests \cup {None} /\ (gate' # None => pc'[gate'] \in {"gated", "writing"})
      BY <1>1, NoneAssumption DEF LocksHeld, GateHeld
    <2>2. queue \in Seq(Requests) /\ Distinct(queue)
      BY DEF LocksHeld, GateHeld
    <2>3. /\ queue' \in Seq(Requests) /\ Distinct(queue')
          /\ \A s : In(queue', s) <=> In(queue, s) /\ s # r
      BY <1>1, <2>2, Removed
    <2>4. \A s \in Requests : In(queue', s) <=> pc'[s] = "waiting"
      BY <1>1, <1>2, <2>3 DEF LocksHeld, GateHeld
    <2> QED
      BY <2>1, <2>3, <2>4 DEF GateHeld
  <1>4. TablesHeld'
    <2>1. shared' \in [Tables -> SUBSET Requests] /\ exclusive' \in [Requests -> 0..3]
      BY <1>1 DEF LocksHeld, TablesHeld, Leave
    <2>2. ASSUME NEW s \in Requests, exclusive'[s] > 0 PROVE Truncating(s)'
      BY <1>1, <2>2 DEF LocksHeld, TablesHeld, Truncating
    <2>3. ASSUME NEW t \in Tables, NEW s \in shared'[t]
          PROVE  /\ pc'[s] \in {"reading", "preview", "gated", "writing"}
                 /\ \E n \in 1..seen'[s] : ReadOrder(job'[s].kind)[n] = t
      <3>1. s \in shared[t] /\ s # r /\ s \in Requests
        BY <1>1, <2>3 DEF LocksHeld, TablesHeld
      <3> QED
        BY <1>1, <3>1 DEF LocksHeld, TablesHeld
    <2> QED
      BY <2>1, <2>2, <2>3 DEF TablesHeld
  <1> QED
    BY <1>3, <1>4

(* A step that moves one request and touches no table lock. *)
LEMMA KeepTables ==
    ASSUME LocksHeld, NEW r \in Requests, NEW place \in Places,
           pc' = [pc EXCEPT ![r] = place],
           pc[r] \in {"new", "begin", "reviewed", "waiting", "gated"},
           pc[r] = "gated" => place = "writing",
           \A s \in Requests : s # r => job'[s] = job[s],
           UNCHANGED <<seen, shared, exclusive>>,
           pc[r] # "new" => job'[r] = job[r]
    PROVE  TablesHeld'
  <1>1. \A s \in Requests : pc'[s] = IF s = r THEN place ELSE pc[s]
    BY DEF LocksHeld, SerialInv, IInv, Shapes
  <1>2. ASSUME NEW s \in Requests, exclusive[s] > 0 PROVE Truncating(s)'
    BY <1>1, <1>2 DEF LocksHeld, TablesHeld, Truncating
  <1>3. ASSUME NEW t \in Tables, NEW s \in shared[t]
        PROVE  /\ pc'[s] \in {"reading", "preview", "gated", "writing"}
               /\ \E n \in 1..seen[s] : ReadOrder(job'[s].kind)[n] = t
    <2>1. /\ s \in Requests /\ pc[s] \in {"reading", "preview", "gated", "writing"}
          /\ \E n \in 1..seen[s] : ReadOrder(job[s].kind)[n] = t
      BY <1>3 DEF LocksHeld, TablesHeld
    <2> QED
      BY <1>1, <2>1
  <1> QED
    BY <1>2, <1>3 DEF LocksHeld, TablesHeld


(* A request that joins the queue, or moves on outside the gate. *)
LEMMA JoinQueue ==
    ASSUME LocksHeld, NEW r \in Requests, NEW place \in Places \ {"gated", "writing"},
           pc' = [pc EXCEPT ![r] = place],
           pc[r] \in {"new", "begin", "reviewed"},
           queue' = IF place = "waiting" THEN Append(queue, r) ELSE queue,
           gate' = gate
    PROVE  GateHeld'
  <1>1. \A s \in Requests : pc'[s] = IF s = r THEN place ELSE pc[s]
    BY DEF LocksHeld, SerialInv, IInv, Shapes
  <1>2. /\ gate \in Requests \cup {None} /\ gate # r
        /\ gate # None => pc[gate] \in {"gated", "writing"}
        /\ queue \in Seq(Requests) /\ Distinct(queue) /\ ~In(queue, r)
        /\ \A s \in Requests : In(queue, s) <=> pc[s] = "waiting"
    BY NoneAssumption DEF LocksHeld, GateHeld
  <1>3. gate' # None => pc'[gate'] \in {"gated", "writing"}
    BY <1>1, <1>2
  <1>4. CASE place # "waiting"
    BY <1>1, <1>2, <1>3, <1>4 DEF GateHeld
  <1>5. CASE place = "waiting"
    <2> DEFINE q == Append(queue, r)
    <2>1. /\ q \in Seq(Requests) /\ Len(q) = Len(queue) + 1 /\ Len(queue) \in Nat
          /\ \A k \in 1..Len(queue) : q[k] = queue[k]
          /\ q[Len(q)] = r
      BY <1>2
    <2>2. queue' = q
      BY <1>5
    <2> HIDE DEF q
    <2>3. \A k \in 1..Len(q) : k \in 1..Len(queue) \/ k = Len(q)
      BY <2>1
    <2>4. Distinct(q)
      BY <1>2, <2>1, <2>3 DEF Distinct, In
    <2>5. ASSUME NEW s PROVE In(q, s) <=> In(queue, s) \/ s = r
      <3>1. Len(q) \in 1..Len(q) /\ \A k \in 1..Len(queue) : k \in 1..Len(q)
        BY <2>1
      <3> QED
        BY <2>1, <2>3, <3>1 DEF In
    <2>6. \A s \in Requests : In(queue', s) <=> pc'[s] = "waiting"
      BY <1>1, <1>2, <1>5, <2>2, <2>5
    <2> QED
      BY <1>2, <1>3, <2>1, <2>2, <2>4, <2>6 DEF GateHeld
  <1> QED
    BY <1>4, <1>5

LEMMA InitLocks == Init => LocksHeld
  <1> SUFFICES ASSUME Init PROVE LocksHeld
    OBVIOUS
  <1>1. SerialInv
    BY InitSerialInv
  <1>2. GateHeld
    BY DEF Init, GateHeld, Distinct, In
  <1>3. TablesHeld
    BY DEF Init, TablesHeld, Tables
  <1> QED
    BY <1>1, <1>2, <1>3 DEF LocksHeld

LEMMA NextLocks == LocksHeld /\ [Next]_vars => LocksHeld'
  <1> SUFFICES ASSUME LocksHeld, [Next]_vars PROVE LocksHeld'
    OBVIOUS
  <1>s. SerialInv'
    BY NextSerialInv DEF LocksHeld
  <1>0. CASE UNCHANGED vars
    BY <1>s, <1>0 DEF LocksHeld, GateHeld, TablesHeld, In, Distinct, Truncating, vars
  <1> SUFFICES ASSUME NEW r \in Requests,
                      Arrive(r) \/ ApproveImport(r) \/ Step(r) \/ Crash(r)
               PROVE  GateHeld' /\ TablesHeld'
    BY <1>0, <1>s DEF Next, LocksHeld
  <1>t. /\ pc \in [Requests -> Places] /\ seen \in [Requests -> Nat]
        /\ job \in [Requests -> JobsOf(Kinds) \cup {None}]
        /\ queue \in Seq(Requests) /\ Distinct(queue)
    BY DEF LocksHeld, GateHeld, SerialInv, IInv, Shapes, Typed
  <1>1. CASE Arrive(r)
    <2>1. PICK j \in JobsOf(Kinds) :
              /\ job' = [job EXCEPT ![r] = j]
              /\ pc' = [pc EXCEPT ![r] = CASE j.kind \in ReadKinds -> "begin"
                                           [] j.kind \in ImportKinds -> "preview"
                                           [] OTHER -> "waiting"]
              /\ queue' = IF j.kind \in RowKinds THEN Append(queue, r) ELSE queue
      BY <1>1 DEF Arrive
    <2>2. pc[r] = "new" /\ UNCHANGED <<gate, seen, shared, exclusive>>
      BY <1>1 DEF Arrive
    <2>3. j.kind \in RowKinds \cup ImportKinds \cup ReadKinds
      BY JobShape
    <2>4. PICK place \in {"begin", "preview", "waiting"} :
              pc' = [pc EXCEPT ![r] = place] /\ (place = "waiting" <=> j.kind \in RowKinds)
      <3> DEFINE place == CASE j.kind \in ReadKinds -> "begin"
                            [] j.kind \in ImportKinds -> "preview"
                            [] OTHER -> "waiting"
      <3>1. place \in {"begin", "preview", "waiting"} /\ (place = "waiting" <=> j.kind \in RowKinds)
        BY <2>3 DEF ReadKinds, ImportKinds, RowKinds
      <3>2. pc' = [pc EXCEPT ![r] = place]
        BY <2>1
      <3> HIDE DEF place
      <3> QED
        BY <3>1, <3>2
    <2>5. GateHeld'
      <3>1. queue' = IF place = "waiting" THEN Append(queue, r) ELSE queue
        BY <2>1, <2>4
      <3> QED
        BY <2>2, <2>4, <3>1, JoinQueue DEF Places
    <2>6. TablesHeld'
      BY <2>1, <2>2, <2>4, <1>t, KeepTables DEF Places
    <2> QED
      BY <2>5, <2>6
  <1>2. CASE ApproveImport(r)
    <2>1. /\ pc[r] = "reviewed" /\ pc' = [pc EXCEPT ![r] = "waiting"] /\ queue' = Append(queue, r)
          /\ UNCHANGED <<gate, job, seen, shared, exclusive>>
      BY <1>2 DEF ApproveImport
    <2>2. GateHeld'
      BY <2>1, JoinQueue DEF Places
    <2>3. TablesHeld'
      BY <2>1, KeepTables DEF Places
    <2> QED
      BY <2>2, <2>3
  <1>3. CASE BeginReadSnapshot(r)
    <2>1. /\ pc[r] = "begin" /\ pc' = [pc EXCEPT ![r] = "reading"] /\ queue' = queue
          /\ UNCHANGED <<gate, job, seen, shared, exclusive>>
      BY <1>3 DEF BeginReadSnapshot
    <2>2. GateHeld'
      BY <2>1, JoinQueue DEF Places
    <2>3. TablesHeld'
      BY <2>1, KeepTables DEF Places
    <2> QED
      BY <2>2, <2>3
  <1>4. CASE ReadTable(r)
    <2>1. /\ pc[r] \in {"reading", "preview", "gated"} /\ ~HasRead(r)
          /\ seen' = [seen EXCEPT ![r] = @ + 1]
          /\ shared' = [shared EXCEPT ![NextTable(r)] = @ \cup {r}]
          /\ UNCHANGED <<gate, queue, pc, job, exclusive>>
      BY <1>4 DEF ReadTable
    <2>2. NextTable(r) = ReadOrder(job[r].kind)[seen[r] + 1]
      BY DEF NextTable
    <2>3. GateHeld'
      BY <2>1 DEF LocksHeld, GateHeld, In, Distinct
    <2>4. ASSUME NEW s \in Requests, exclusive'[s] > 0 PROVE Truncating(s)'
      BY <2>1, <2>4 DEF LocksHeld, TablesHeld, Truncating
    <2>5. ASSUME NEW t \in Tables, NEW s \in shared'[t]
          PROVE  /\ pc'[s] \in {"reading", "preview", "gated", "writing"}
                 /\ \E n \in 1..seen'[s] : ReadOrder(job'[s].kind)[n] = t
      <3>1. CASE s \in shared[t]
        <4>1. s \in Requests /\ seen[s] \in Nat /\ seen'[s] \in {seen[s], seen[s] + 1}
          BY <1>t, <2>1, <3>1 DEF LocksHeld, TablesHeld
        <4> QED
          BY <2>1, <3>1, <4>1 DEF LocksHeld, TablesHeld
      <3>2. CASE s \notin shared[t]
        <4>1. s = r /\ t = NextTable(r)
          BY <2>1, <2>5, <3>2 DEF LocksHeld, TablesHeld
        <4>2. seen'[r] = seen[r] + 1 /\ seen[r] + 1 \in 1..seen'[r]
          BY <1>t, <2>1
        <4> QED
          BY <2>1, <2>2, <4>1, <4>2
      <3> QED
        BY <3>1, <3>2
    <2>6. shared' \in [Tables -> SUBSET Requests]
      <3>1. shared \in [Tables -> SUBSET Requests]
        BY DEF LocksHeld, TablesHeld
      <3>2. \A t \in Tables : shared'[t] \in {shared[t], shared[t] \cup {r}}
        BY <2>1, <3>1
      <3>3. shared' = [t \in Tables |-> shared'[t]]
        BY <2>1, <3>1
      <3> QED
        BY <3>1, <3>2, <3>3
    <2>7. exclusive' \in [Requests -> 0..3]
      BY <2>1 DEF LocksHeld, TablesHeld
    <2> QED
      BY <2>3, <2>4, <2>5, <2>6, <2>7 DEF TablesHeld
  <1>5. CASE Deliver(r) \/ Refuse(r) \/ Crash(r) \/ AbortDeadlocked(r) \/ Commit(r) \/ PreviewImport(r)
    <2>1. PICK answer \in Answers \cup {"reviewed"} : Leave(r, answer)
      BY <1>5 DEF Deliver, Refuse, Crash, AbortDeadlocked, RollBack, Commit, PreviewImport, Answers
    <2>2. job' = job /\ \A s \in Requests : s # r => seen'[s] = seen[s]
      BY <1>5, <1>t DEF Deliver, Refuse, Crash, AbortDeadlocked, RollBack, Commit, PreviewImport
    <2> QED
      BY <2>1, <2>2, LeaveLocks
  <1>6. CASE AcquireWriteGate(r)
    <2>1. /\ pc[r] = "waiting" /\ pc' = [pc EXCEPT ![r] = "gated"] /\ gate = None /\ gate' = r
          /\ queue' = RemoveFirst(queue, r)
          /\ UNCHANGED <<job, seen, shared, exclusive>>
      BY <1>6 DEF AcquireWriteGate, HasTurn
    <2>2. /\ queue' \in Seq(Requests) /\ Distinct(queue')
          /\ \A s : In(queue', s) <=> In(queue, s) /\ s # r
      BY <1>t, <2>1, Removed
    <2>3. GateHeld'
      BY <1>t, <2>1, <2>2 DEF LocksHeld, GateHeld
    <2>4. TablesHeld'
      BY <2>1, KeepTables DEF Places
    <2> QED
      BY <2>3, <2>4
  <1>7. CASE Decide(r)
    <2>1. /\ pc[r] = "gated" /\ pc' = [pc EXCEPT ![r] = "writing"]
          /\ UNCHANGED <<gate, queue, job, seen, shared, exclusive>>
      BY <1>7 DEF Decide
    <2>2. GateHeld'
      BY <1>t, <2>1 DEF LocksHeld, GateHeld, In, Distinct
    <2>3. TablesHeld'
      BY <2>1, KeepTables DEF Places
    <2> QED
      BY <2>2, <2>3
  <1>8. CASE TruncateTable(r)
    <2>1. /\ Truncating(r) /\ exclusive[r] < 3
          /\ exclusive' = [exclusive EXCEPT ![r] = @ + 1]
          /\ UNCHANGED <<gate, queue, pc, job, seen, shared>>
      BY <1>8 DEF TruncateTable, Wanted
    <2>2. GateHeld'
      BY <2>1 DEF LocksHeld, GateHeld, In, Distinct
    <2>3. exclusive' \in [Requests -> 0..3]
      BY <2>1 DEF LocksHeld, TablesHeld
    <2>4. ASSUME NEW s \in Requests, exclusive'[s] > 0 PROVE Truncating(s)'
      BY <2>1, <2>4 DEF LocksHeld, TablesHeld, Truncating
    <2> QED
      BY <2>1, <2>2, <2>3, <2>4 DEF LocksHeld, TablesHeld
  <1> QED
    BY <1>1, <1>2, <1>3, <1>4, <1>5, <1>6, <1>7, <1>8 DEF Step

\* The gate's holder is the only one who may lock a table, and each request reads a
\* table once.
LEMMA LocksOfTheHolder ==
    ASSUME LocksHeld, NEW s \in Requests, Locked(s) \cup Wanted(s) # {}
    PROVE  Truncating(s) /\ gate = s
  <1>1. Truncating(s)
    <2>1. CASE Wanted(s) # {}
      BY <2>1 DEF Wanted
    <2>2. CASE Locked(s) # {}
      BY <2>2 DEF LocksHeld, TablesHeld, Locked
    <2> QED
      BY <2>1, <2>2
  <1> QED
    BY <1>1 DEF LocksHeld, SerialInv, IInv, HolderOnly, Truncating

LEMMA ReadOnce ==
    \A kind : \A i, k \in 1..Len(ReadOrder(kind)) : ReadOrder(kind)[i] = ReadOrder(kind)[k] => i = k
  BY DEF ReadOrder, ImportKinds

\* Whoever waits for a table waits for the gate's holder, and is outside the gate.
LEMMA ReadersWaitForTheHolder ==
    ASSUME LocksHeld, NEW r \in Requests, NEW s \in Requests, r # s,
           pc[r] \in {"reading", "preview", "gated"},
           NextTable(r) \in Locked(s) \cup Wanted(s)
    PROVE  pc[r] \in {"reading", "preview"} /\ Truncating(s) /\ gate = s
  <1>1. Truncating(s) /\ gate = s
    BY LocksOfTheHolder
  <1> QED
    BY <1>1 DEF LocksHeld, SerialInv, IInv, HolderOnly

\* A reader that has shared the table a TRUNCATE is queued for goes on, or is in a
\* deadlock with it.
LEMMA ReadersGoOn ==
    ASSUME LocksHeld, NEW h \in Requests, NEW s \in Requests, h # s, HeldUpBy(h, s), Truncating(h)
    PROVE  CanStep(s)
  <1>1. PICK t \in Wanted(h) : s \in shared[t]
    BY DEF HeldUpBy, Truncating
  <1>2. t \in Tables /\ Wanted(h) = {t}
    BY <1>1 DEF Wanted, TruncateOrder, Tables, LocksHeld, TablesHeld
  <1>3. gate = h /\ pc[h] = "writing"
    BY <1>1, LocksOfTheHolder DEF Truncating
  <1>4. /\ pc[s] \in {"reading", "preview", "gated", "writing"}
        /\ \E n \in 1..seen[s] : ReadOrder(job[s].kind)[n] = t
    BY <1>1, <1>2 DEF LocksHeld, TablesHeld
  <1>5. pc[s] \in {"reading", "preview"}
    BY <1>3, <1>4 DEF LocksHeld, SerialInv, IInv, HolderOnly
  <1>6. ASSUME ~HasRead(s) PROVE NextTable(s) # t
    <2> DEFINE order == ReadOrder(job[s].kind)
    <2>1. /\ seen[s] \in Nat /\ seen[s] <= Len(order) /\ seen[s] # Len(order)
          /\ NextTable(s) = order[seen[s] + 1]
      BY <1>5, <1>6 DEF LocksHeld, SerialInv, IInv, Shapes, ReadsInOrder, HasRead, NextTable
    <2>2. Len(order) \in Nat /\ \A i, k \in 1..Len(order) : order[i] = order[k] => i = k
      BY ReadOrderType, ReadOnce
    <2>3. PICK n \in 1..seen[s] : order[n] = t
      BY <1>4
    <2> HIDE DEF order
    <2> QED
      BY <2>1, <2>2, <2>3
  <1>7. ASSUME NEW u \in Requests \ {s}, HeldUpBy(s, u), ~Deadlocked(s) PROVE FALSE
    <2>1. ~HasRead(s) /\ NextTable(s) \in Locked(u) \cup Wanted(u)
      BY <1>5, <1>7 DEF HeldUpBy, Wanted, Truncating
    <2>2. u = h
      BY <1>3, <1>5, <2>1, ReadersWaitForTheHolder
    <2>3. WaitsFor(s, h)
      BY <1>2, <1>5, <1>6, <2>1, <2>2 DEF WaitsFor
    <2>4. WaitsFor(h, s)
      BY <1>1 DEF WaitsFor
    <2> QED
      BY <1>7, <2>3, <2>4 DEF Deadlocked
  <1> QED
    BY <1>5, <1>7 DEF CanStep, Active, Places, Answers

LEMMA LocksLetThrough == LocksHeld => NobodyStandsStill
  <1> SUFFICES ASSUME LocksHeld, NEW r \in Requests, pc[r] \in Active, ~CanStep(r)
               PROVE  \/ \E s \in Requests : HeldUpBy(r, s) /\ CanStep(s)
                      \/ \E s, u \in Requests :
                             HeldUpBy(r, s) /\ HeldUpBy(s, u) /\ CanStep(u)
    BY DEF NobodyStandsStill
  <1>1. PICK s \in Requests \ {r} : HeldUpBy(r, s)
    BY DEF CanStep
  <1>2. CASE CanStep(s)
    BY <1>1, <1>2
  <1>3. CASE Truncating(r)
    BY <1>1, <1>3, ReadersGoOn
  <1>4. ASSUME ~CanStep(s), ~Truncating(r), gate = s, s # None
        PROVE  \E u \in Requests : HeldUpBy(s, u) /\ CanStep(u)
    <2>1. pc[s] \in {"gated", "writing"} /\ pc[s] \in Active
      BY <1>4 DEF LocksHeld, GateHeld, Active, Places, Answers
    <2>2. PICK u \in Requests \ {s} : HeldUpBy(s, u)
      BY <1>4, <2>1 DEF CanStep
    <2>3. Truncating(s)
      <3>1. CASE NextTable(s) \in Locked(u) \cup Wanted(u)
        BY <1>4, <2>1, <2>2, <3>1, LocksOfTheHolder
      <3>2. CASE NextTable(s) \notin Locked(u) \cup Wanted(u)
        BY <2>1, <2>2, <3>2 DEF HeldUpBy, Wanted
      <3> QED
        BY <3>1, <3>2
    <2> QED
      BY <2>2, <2>3, ReadersGoOn
  <1>5. CASE pc[r] = "waiting"
    <2>1. gate \in {s, None} /\ (gate = None => Head(queue) = s)
      BY <1>1, <1>5 DEF HeldUpBy, Wanted, Truncating
    <2>2. CASE gate = s
      BY <1>1, <1>2, <1>3, <1>4, <2>2, NoneAssumption
    <2>3. CASE gate = None
      <3>1. /\ queue \in Seq(Requests) /\ Distinct(queue) /\ In(queue, r)
            /\ \A q \in Requests : In(queue, q) <=> pc[q] = "waiting"
        BY <1>5 DEF LocksHeld, GateHeld
      <3>2. 1 \in 1..Len(queue) /\ queue # <<>> /\ Head(queue) = queue[1]
        BY <3>1 DEF In
      <3>3. In(queue, s) /\ pc[s] = "waiting"
        BY <2>1, <2>3, <3>1, <3>2 DEF In
      <3>4. \A u \in Requests \ {s} : ~HeldUpBy(s, u)
        BY <2>1, <2>3, <3>3, NoneAssumption DEF HeldUpBy, Wanted, Truncating
      <3> QED
        BY <1>1, <3>3, <3>4 DEF CanStep, Active, Places, Answers
    <2> QED
      BY <2>1, <2>2, <2>3
  <1>6. CASE pc[r] # "waiting" /\ ~Truncating(r)
    <2>1. /\ pc[r] \in {"reading", "preview", "gated"}
          /\ NextTable(r) \in Locked(s) \cup Wanted(s)
      BY <1>1, <1>6 DEF HeldUpBy, Wanted
    <2>2. gate = s
      BY <2>1, ReadersWaitForTheHolder
    <2> QED
      BY <1>1, <1>2, <1>4, <1>6, <2>2, NoneAssumption
  <1> QED
    BY <1>3, <1>5, <1>6

\* Whatever the number of requests, none stands still for good: each can go on, or
\* waits, over at most one other request, for one that can.
THEOREM GateLetsEveryoneThrough == Spec => []NobodyStandsStill
  BY InitLocks, NextLocks, LocksLetThrough, PTL DEF Spec

\* A deadlock is one of a replacing import with a read or a preview, never one that
\* costs a row write or a merge its transaction.
THEOREM RowWritesNeverDeadlock == Spec => []DeadlocksSpareRowWrites
  <1>1. ASSUME LocksHeld, NEW r \in Requests, NEW s \in Requests, r # s,
               WaitsFor(r, s), WaitsFor(s, r)
        PROVE  \/ Truncating(r) /\ pc[s] \in {"reading", "preview"}
               \/ Truncating(s) /\ pc[r] \in {"reading", "preview"}
    <2>1. ASSUME NEW p \in Requests, NEW q \in Requests, p # q, WaitsFor(p, q)
          PROVE  Truncating(p) \/ (pc[p] \in {"reading", "preview"} /\ Truncating(q))
      <3>1. CASE pc[p] \in {"reading", "preview", "gated"} /\ NextTable(p) \in Locked(q)
        BY <1>1, <2>1, <3>1, ReadersWaitForTheHolder
      <3>2. CASE \E t \in Wanted(p) : q \in shared[t]
        BY <3>2 DEF Wanted
      <3> QED
        BY <2>1, <3>1, <3>2 DEF WaitsFor
    <2>2. ~(Truncating(r) /\ Truncating(s))
      BY <1>1 DEF LocksHeld, SerialInv, IInv, HolderOnly, Truncating
    <2> QED
      BY <1>1, <2>1, <2>2
  <1>2. LocksHeld => DeadlocksSpareRowWrites
    BY <1>1 DEF DeadlocksSpareRowWrites
  <1> QED
    BY InitLocks, NextLocks, <1>2, PTL DEF Spec

-----------------------------------------------------------------------------
(* TypeOK.  That no shop is stored twice is more than a type: the check for  *)
(* its name and the insert are two statements, and the gate joins them.      *)

OneRetailer ==
    /\ db.retailers <= 1
    /\ \A r \in Requests : pinned[r] # None => pinned[r].db \in Databases
    /\ shown \in [Requests -> Databases \cup {None}]
    /\ \A r \in Requests : seen[r] \in 0..3

(* A job leaves one row of the shop it uses, if it found at most one. *)
LEMMA OutcomeShops ==
    ASSUME NEW j \in JobsOf(Kinds), NEW s \in Databases, s.retailers <= 1
    PROVE  Outcome(j, s).retailers <= 1
  <1>1. s.retailers \in {0, 1} /\ WithRetailer(s.retailers) = 1
    BY DEF Databases, WithRetailer
  <1>2. j.kind \in RowKinds \cup ImportKinds \cup ReadKinds
    BY JobShape
  <1> QED
    BY <1>1, <1>2 DEF Outcome, RowKinds, ImportKinds, ReadKinds

LEMMA InitRetailer == Init => OneRetailer
  BY DEF Init, OneRetailer, Reachable

LEMMA NextRetailer == SerialInv /\ OneRetailer /\ [Next]_vars => OneRetailer'
  <1> SUFFICES ASSUME SerialInv, OneRetailer, [Next]_vars PROVE OneRetailer'
    OBVIOUS
  <1>s. SerialInv'
    BY NextSerialInv
  <1>p. \A r \in Requests : pinned'[r] # None => pinned'[r].db \in Databases
    BY <1>s DEF SerialInv, Typed
  <1>n. \A r \in Requests : seen'[r] \in 0..3
    <2> SUFFICES ASSUME NEW r \in Requests PROVE seen'[r] \in 0..3
      OBVIOUS
    <2>1. seen'[r] \in Nat
      BY <1>s DEF SerialInv, IInv, Shapes
    <2>2. CASE pc'[r] = "new"
      <3>1. seen'[r] = 0
        BY <1>s, <2>2 DEF SerialInv, IInv, ReadsInOrder
      <3> QED
        BY <3>1
    <2>3. CASE pc'[r] # "new"
      <3> DEFINE n == Len(ReadOrder(job'[r].kind))
      <3>1. seen'[r] <= n
        BY <1>s, <2>3 DEF SerialInv, IInv, ReadsInOrder
      <3>2. n \in 0..3
        BY DEF ReadOrder, ImportKinds
      <3> HIDE DEF n
      <3> QED
        BY <2>1, <3>1, <3>2
    <2> QED
      BY <2>2, <2>3
  <1>h. shown' \in [Requests -> Databases \cup {None}]
    <2>0. CASE UNCHANGED vars
      BY <2>0 DEF vars, OneRetailer
    <2>1. ASSUME NEW r \in Requests, PreviewImport(r) PROVE shown' \in [Requests -> Databases \cup {None}]
      BY <2>1 DEF PreviewImport, OneRetailer, SerialInv, Typed
    <2>2. ASSUME NEW r \in Requests, Arrive(r) \/ ApproveImport(r) \/ Step(r) \/ Crash(r), ~PreviewImport(r)
          PROVE  shown' = shown
      BY <2>2 DEF Arrive, ApproveImport, Step, Crash, BeginReadSnapshot, ReadTable, Deliver,
                  AcquireWriteGate, Refuse, Decide, TruncateTable, Commit, AbortDeadlocked, RollBack
    <2> QED
      BY <2>0, <2>1, <2>2 DEF Next, OneRetailer
  <1>d. db'.retailers <= 1
    <2>0. CASE UNCHANGED vars
      BY <2>0 DEF vars, OneRetailer
    <2>1. ASSUME NEW r \in Requests, Commit(r) PROVE db'.retailers <= 1
      <3>1. pc[r] = "writing" /\ db' = Written(r)
        BY <2>1 DEF Commit
      <3>2. HasRead(r)
        BY <3>1 DEF SerialInv, Judged
      <3>3. db' = Outcome(job[r], db)
        BY <3>1, <3>2, WrittenAsDecided
      <3>4. job[r] \in JobsOf(Kinds) /\ db \in Databases
        BY <3>1, <3>2, ReadAsCommitted
      <3> QED
        BY <3>3, <3>4, OutcomeShops DEF OneRetailer
    <2>2. ASSUME NEW r \in Requests, Arrive(r) \/ ApproveImport(r) \/ Step(r) \/ Crash(r), ~Commit(r)
          PROVE  db' = db
      BY <2>2 DEF Arrive, ApproveImport, Step, Crash, BeginReadSnapshot, ReadTable, Deliver,
                  AcquireWriteGate, Refuse, Decide, TruncateTable, PreviewImport, AbortDeadlocked, RollBack
    <2> QED
      BY <2>0, <2>1, <2>2 DEF Next, OneRetailer
  <1> QED
    BY <1>p, <1>n, <1>h, <1>d DEF OneRetailer

\* Every variable keeps its type, and no two requests make two rows of one shop.
THEOREM GateTypeCorrect == Spec => []TypeOK
  <1>1. LocksHeld /\ OneRetailer => TypeOK
    <2> SUFFICES ASSUME LocksHeld, OneRetailer PROVE TypeOK
      OBVIOUS
    <2>1. /\ db \in Databases /\ truncations \in Nat /\ pc \in [Requests -> Places]
          /\ job \in [Requests -> JobsOf(Kinds) \cup {None}]
          /\ view \in [Requests -> Databases]
          /\ pinned \in [Requests -> [db : Databases, truncations : Nat] \cup {None}]
          /\ DOMAIN shown = Requests
      BY DEF LocksHeld, SerialInv, IInv, Shapes, Typed
    <2>2. seen \in [Requests -> 0..3]
      BY DEF LocksHeld, SerialInv, IInv, Shapes, OneRetailer
    <2>3. shown \in [Requests -> Databases \cup {None}]
      BY DEF OneRetailer
    <2> QED
      BY <2>1, <2>2, <2>3 DEF LocksHeld, GateHeld, TablesHeld, OneRetailer, TypeOK
  <1> QED
    BY InitLocks, NextLocks, InitRetailer, NextRetailer, <1>1, PTL DEF Spec, LocksHeld

-----------------------------------------------------------------------------
(* ArchiveOfOneInstant fails for one reason only: a TRUNCATE committed after *)
(* the snapshot was taken.                                                   *)

\* What r has read is its snapshot's, or was emptied since.
AsPinned(r) ==
    \A n \in 1..seen[r] :
        LET t == ReadOrder(job[r].kind)[n]
        IN  \/ view[r][t] = pinned[r].db[t]
            \/ view[r][t] = EmptyDatabase[t] /\ pinned[r].truncations < truncations

ArchivesKept ==
    /\ truncations > 0 => "replace_all" \in Kinds
    /\ \A r \in Requests :
          /\ pc[r] = "reading" => pinned[r] # None
          /\ pc[r] = "done" /\ job[r].kind \in ReadKinds => pinned[r] # None
          /\ pinned[r] # None => pinned[r].truncations <= truncations /\ AsPinned(r)

LEMMA InitArchives == Init => ArchivesKept
  BY DEF Init, ArchivesKept

LEMMA NextArchives == SerialInv /\ ArchivesKept /\ [Next]_vars => ArchivesKept'
  <1> SUFFICES ASSUME SerialInv, ArchivesKept, [Next]_vars PROVE ArchivesKept'
    OBVIOUS
  <1>0. CASE UNCHANGED vars
    BY <1>0 DEF ArchivesKept, AsPinned, vars
  <1> SUFFICES ASSUME NEW r \in Requests,
                      Arrive(r) \/ ApproveImport(r) \/ Step(r) \/ Crash(r)
               PROVE  ArchivesKept'
    BY <1>0 DEF Next
  <1>t. /\ pc \in [Requests -> Places] /\ seen \in [Requests -> Nat] /\ truncations \in Nat
        /\ job \in [Requests -> JobsOf(Kinds) \cup {None}]
        /\ view \in [Requests -> Databases]
        /\ pinned \in [Requests -> [db : Databases, truncations : Nat] \cup {None}]
    BY DEF SerialInv, IInv, Shapes, Typed
  <1>p. \A s \in Requests : pinned[s] # None => pc[s] \in {"reading"} \cup Answers
    BY DEF SerialInv, IInv, SnapshotsRead
  <1>1. ASSUME UNCHANGED <<truncations, pinned, seen, view>>,
               \A s \in Requests : pc[s] # "new" => job'[s] = job[s],
               \A s \in Requests :
                   pc'[s] \in {"reading", "done"} => pc[s] \in {pc'[s], "reading", "writing"},
               \A s \in Requests : pc'[s] = "reading" => pc[s] = "reading"
        PROVE  ArchivesKept'
    <2> SUFFICES ASSUME NEW s \in Requests
                 PROVE  /\ pc'[s] = "reading" => pinned[s] # None
                        /\ pc'[s] = "done" /\ job'[s].kind \in ReadKinds => pinned[s] # None
                        /\ pinned[s] # None => AsPinned(s)'
      BY <1>1 DEF ArchivesKept
    <2>1. pinned[s] # None => AsPinned(s)'
      BY <1>1, <1>p DEF ArchivesKept, AsPinned, Answers
    <2>2. pc[s] = "writing" => job[s].kind \notin ReadKinds
      BY DEF SerialInv, Judged
    <2>3. pc'[s] = "reading" => pinned[s] # None
      BY <1>1 DEF ArchivesKept
    <2>4. ASSUME pc'[s] = "done", job'[s].kind \in ReadKinds PROVE pinned[s] # None
      <3>1. pc[s] \in {"done", "reading", "writing"} /\ job'[s] = job[s]
        BY <1>1, <2>4
      <3> QED
        BY <2>2, <2>4, <3>1 DEF ArchivesKept
    <2> QED
      BY <2>1, <2>3, <2>4
  <1>2. CASE Arrive(r)
    <2>1. /\ UNCHANGED <<truncations, pinned, seen, view>> /\ pc[r] = "new"
          /\ \A s \in Requests : s # r => job'[s] = job[s] /\ pc'[s] = pc[s]
          /\ pc'[r] \in {"begin", "preview", "waiting"}
      BY <1>2, <1>t DEF Arrive
    <2> QED
      BY <2>1, <1>1
  <1>3. CASE ApproveImport(r) \/ AcquireWriteGate(r) \/ Decide(r) \/ TruncateTable(r)
    <2>1. UNCHANGED <<truncations, pinned, seen, view, job>>
      BY <1>3 DEF ApproveImport, AcquireWriteGate, Decide, TruncateTable
    <2>2. \A s \in Requests : pc'[s] \in {pc[s], "waiting", "gated", "writing"}
      BY <1>3, <1>t DEF ApproveImport, AcquireWriteGate, Decide, TruncateTable
    <2> QED
      BY <2>1, <2>2, <1>1
  <1>4. CASE Deliver(r) \/ Refuse(r) \/ Crash(r) \/ AbortDeadlocked(r)
    <2>1. UNCHANGED <<truncations, pinned, seen, view, job>>
      BY <1>4 DEF Deliver, Refuse, Crash, AbortDeadlocked, RollBack
    <2>2. /\ \A s \in Requests : s # r => pc'[s] = pc[s]
          /\ pc'[r] \in {"refused", "failed"} \/ (pc[r] = "reading" /\ pc'[r] = "done")
      BY <1>4, <1>t DEF Deliver, Refuse, Crash, AbortDeadlocked, RollBack, Leave
    <2> QED
      BY <2>1, <2>2, <1>1
  <1>5. CASE BeginReadSnapshot(r)
    <2>1. /\ UNCHANGED <<truncations, seen, view, job>>
          /\ pc[r] = "begin" /\ pc' = [pc EXCEPT ![r] = "reading"]
          /\ pinned' = [pinned EXCEPT ![r] = [db |-> db, truncations |-> truncations]]
      BY <1>5 DEF BeginReadSnapshot
    <2>2. seen[r] = 0
      BY <2>1 DEF SerialInv, IInv, ReadsInOrder
    <2>3. pinned'[r] # None /\ pinned'[r].truncations <= truncations
      BY <1>t, <2>1, NoneAssumption DEF SerialInv, Typed
    <2>4. AsPinned(r)'
      BY <2>1, <2>2 DEF AsPinned
    <2>5. \A s \in Requests : s # r => pc'[s] = pc[s] /\ pinned'[s] = pinned[s] /\ (AsPinned(s)' <=> AsPinned(s))
      BY <1>t, <2>1 DEF AsPinned
    <2> QED
      BY <1>t, <2>1, <2>3, <2>4, <2>5 DEF ArchivesKept
  <1>6. CASE ReadTable(r)
    <2> DEFINE t == NextTable(r)
    <2>1. /\ pc[r] \in {"reading", "preview", "gated"} /\ ~HasRead(r)
          /\ view' = [view EXCEPT ![r][t] = Visible(r, t)]
          /\ seen' = [seen EXCEPT ![r] = @ + 1]
          /\ UNCHANGED <<truncations, pc, job, pinned>>
      BY <1>6 DEF ReadTable
    <2>2. t = ReadOrder(job[r].kind)[seen[r] + 1] /\ seen[r] + 1 \in 1..Len(ReadOrder(job[r].kind))
      <3> DEFINE order == ReadOrder(job[r].kind)
      <3>1. t = order[seen[r] + 1]
        BY DEF NextTable
      <3>2. seen[r] <= Len(order) /\ seen[r] # Len(order)
        BY <2>1 DEF SerialInv, IInv, ReadsInOrder, HasRead
      <3>3. Len(order) \in Nat
        BY ReadOrderType
      <3> HIDE DEF order
      <3> QED
        BY <1>t, <3>1, <3>2, <3>3 DEF order
    <2>3. t \in Tables
      BY <2>2, ReadOrderType
    <2>4. pinned[r] # None =>
              \/ Visible(r, t) = pinned[r].db[t]
              \/ Visible(r, t) = EmptyDatabase[t] /\ pinned[r].truncations < truncations
      BY <1>t DEF Visible, ArchivesKept
    <2> HIDE DEF t
    <2>5. /\ view'[r] = [view[r] EXCEPT ![t] = Visible(r, t)]
          /\ \A s \in Requests : s # r => view'[s] = view[s] /\ seen'[s] = seen[s]
          /\ seen'[r] = seen[r] + 1
      BY <1>t, <2>1
    <2>6. DOMAIN view[r] = Tables
      BY DEF SerialInv, IInv, Shapes
    <2>7. \A s \in Requests : s # r => (AsPinned(s)' <=> AsPinned(s))
      BY <2>1, <2>5 DEF AsPinned
    <2>8. ASSUME pinned[r] # None PROVE AsPinned(r)'
      <3>1. ASSUME NEW n \in 1..seen'[r], NEW u, u = ReadOrder(job[r].kind)[n]
            PROVE  \/ view'[r][u] = pinned[r].db[u]
                   \/ view'[r][u] = EmptyDatabase[u] /\ pinned[r].truncations < truncations
        <4>1. CASE u = t
          BY <2>3, <2>4, <2>5, <2>6, <2>8, <4>1
        <4>2. CASE u # t
          <5>1. n \in 1..seen[r]
            BY <1>t, <2>2, <2>5, <3>1, <4>2
          <5>2. view'[r][u] = view[r][u]
            <6>1. u \in Tables
              BY <1>t, <2>2, <3>1, <5>1, ReadOrderType
            <6> QED
              BY <2>5, <2>6, <4>2, <6>1
          <5> QED
            BY <2>8, <3>1, <5>1, <5>2 DEF ArchivesKept, AsPinned
        <4> QED
          BY <4>1, <4>2
      <3> QED
        BY <2>1, <3>1 DEF AsPinned
    <2> QED
      BY <2>1, <2>7, <2>8 DEF ArchivesKept
  <1>7. CASE PreviewImport(r)
    <2>1. /\ pc[r] = "preview" /\ UNCHANGED <<truncations, pinned, job>>
          /\ \A s \in Requests : s # r => pc'[s] = pc[s] /\ view'[s] = view[s] /\ seen'[s] = seen[s]
          /\ pc'[r] = "reviewed"
      BY <1>7, <1>t DEF PreviewImport, Leave
    <2>2. pinned[r] = None
      BY <2>1, <1>p DEF Answers
    <2>3. \A s \in Requests : s # r => (AsPinned(s)' <=> AsPinned(s))
      BY <2>1 DEF AsPinned
    <2> QED
      BY <2>1, <2>2, <2>3 DEF ArchivesKept
  <1>8. CASE Commit(r)
    <2>1. /\ pc[r] = "writing" /\ UNCHANGED <<pinned, job, seen, view>>
          /\ truncations' = truncations + (IF Truncating(r) THEN 1 ELSE 0)
          /\ \A s \in Requests : s # r => pc'[s] = pc[s]
          /\ pc'[r] = "done"
      BY <1>8, <1>t DEF Commit, Leave
    <2>2. pinned[r] = None /\ job[r].kind \notin ReadKinds
      BY <2>1, <1>p DEF SerialInv, Judged, Answers
    <2>3. truncations' \in Nat /\ truncations <= truncations'
      BY <1>t, <2>1
    <2>4. truncations' > 0 => "replace_all" \in Kinds
      <3>1. Truncating(r) => job[r].kind = "replace_all" /\ job[r] \in JobsOf(Kinds)
        BY <1>t, <2>1 DEF Truncating, SerialInv, Judged
      <3>2. \A j \in JobsOf(Kinds) : j.kind = "replace_all" => "replace_all" \in Kinds
        BY DEF JobsOf
      <3> QED
        BY <1>t, <2>1, <3>1, <3>2 DEF ArchivesKept
    <2>5. ASSUME NEW s \in Requests, pinned[s] # None
          PROVE  pinned[s].truncations <= truncations' /\ AsPinned(s)'
      <3>1. pinned[s].truncations \in Nat /\ pinned[s].truncations <= truncations /\ AsPinned(s)
        BY <1>t, <2>5 DEF ArchivesKept
      <3>2. \A t : pinned[s].truncations < truncations => pinned[s].truncations < truncations'
        BY <1>t, <2>3, <3>1
      <3> QED
        BY <1>t, <2>1, <2>3, <3>1, <3>2 DEF AsPinned
    <2> QED
      BY <2>1, <2>2, <2>4, <2>5 DEF ArchivesKept
  <1> QED
    BY <1>2, <1>3, <1>4, <1>5, <1>6, <1>7, <1>8 DEF Step

\* An archive, or a summary, is wrong in one way only, and for one reason.
THEOREM ArchivesAreWholeOrEmptied == Spec => []ArchiveWholeOrEmptied
  <1>1. ArchivesKept => ArchiveWholeOrEmptied
    BY DEF ArchivesKept, ArchiveWholeOrEmptied, AsPinned
  <1> QED
    BY InitSerialInv, NextSerialInv, InitArchives, NextArchives, <1>1, PTL DEF Spec

\* Where nobody replaces the collection, row writes and merges beside it leave an
\* archive what its comment promises: the collection of one instant.
THEOREM ArchivesOfOneInstant ==
    ASSUME "replace_all" \notin Kinds
    PROVE  Spec => []ArchiveOfOneInstant
  <1>1. SerialInv /\ ArchivesKept => ArchiveOfOneInstant
    <2> SUFFICES ASSUME SerialInv, ArchivesKept, NEW r \in Requests,
                        pc[r] = "done", job[r].kind \in ReadKinds
                 PROVE  \A n \in 1..seen[r] :
                            LET t == ReadOrder(job[r].kind)[n] IN view[r][t] = pinned[r].db[t]
      BY DEF ArchiveOfOneInstant
    <2>1. truncations = 0
      BY DEF ArchivesKept, SerialInv, Typed
    <2>2. pinned[r] # None /\ pinned[r].truncations \in Nat
      BY DEF ArchivesKept, SerialInv, Typed
    <2> QED
      BY <2>1, <2>2 DEF ArchivesKept, AsPinned
  <1> QED
    BY InitSerialInv, NextSerialInv, InitArchives, NextArchives, <1>1, PTL DEF Spec

=============================================================================
