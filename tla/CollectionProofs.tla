-------------------------- MODULE CollectionProofs --------------------------
(* Theorems about Collection, for every value of its constants: the receipt *)
(* and the lines it has walked, then the stock ledger, then what a commit   *)
(* leaves alone.                                                            *)
EXTENDS Collection, SumLemmas

(* The inductive invariant.  TypeOK alone is not inductive: a line added by *)
(* an open transaction belongs to its order only if there is one.  The      *)
(* accounting of stock is not either: in the middle of a receipt or an undo *)
(* only the lines already walked have moved their units.                    *)

\* An open transaction is about an order that is there; a closed one has left
\* nothing that is not committed.
TxRooted ==
    /\ tx.op = "idle" => tx = Idle /\ saved = Snapshot
    /\ tx.op # "idle" => tx.order # None /\ orders[tx.order] # None
    /\ tx.op = "receive" => orders[tx.order].received
    /\ \A l \in tx.todo : lines[l] # None /\ lines[l].order = tx.order

\* Every stored line belongs to a stored order.
LinesRooted ==
    /\ \A l \in LineIds : lines[l] # None => orders[lines[l].order] # None
    /\ \A l \in LineIds :
           saved.lines[l] # None => saved.orders[saved.lines[l].order] # None

\* The units a line has in stock, in the middle of a transaction: a receipt has
\* not reached the lines it has still to walk, and an undo has already taken
\* back those it has walked.
Owed(l) ==
    IF /\ lines[l] # None
       /\ lines[l].ref # None
       /\ orders[lines[l].order].received
       /\ ~(tx.op = "receive" /\ l \in tx.todo)
       /\ ~(tx.op = "delete" /\ lines[l].order = tx.order /\ l \notin tx.todo)
    THEN lines[l].qty
    ELSE 0

Accounted == \A l \in LineIds : applied[l] = Owed(l)

\* LineAccounted, with the lines that spawn kits: they put nothing in stock.
SavedAccounted ==
    \A l \in LineIds :
        saved.applied[l] =
            IF /\ saved.lines[l] # None
               /\ saved.lines[l].ref # None
               /\ saved.orders[saved.lines[l].order].received
            THEN saved.lines[l].qty
            ELSE 0

IInv == TypeOK /\ TxRooted /\ LinesRooted /\ Accounted /\ SavedAccounted

-----------------------------------------------------------------------------
(* Type correctness.                                                       *)

\* Every column keeps a value its table can hold, whatever the services do and
\* wherever a transaction is rolled back.
LEMMA InitTypeOK == Init => TypeOK
  <1> SUFFICES ASSUME Init PROVE TypeOK
    OBVIOUS
  <1> USE IdsAssumption, BoundsAssumption
  <1>1. orders \in [OrderIds -> Order \cup {None}]
    BY DEF Init, Empty, Dangling, Order
  <1>2. lines \in [LineIds -> Line \cup {None}]
    BY DEF Init, Empty, Dangling, Line
  <1>3. applied \in [LineIds -> Int]
    BY DEF Init, Empty, Dangling, Quantity
  <1>4. /\ kits \in [KitIds -> Kit \cup {None}]
        /\ stock \in [Items -> 0..MaxInt4 \cup {None}]
        /\ apps \in [AppIds -> Application \cup {None}]
        /\ counted \in [Items -> Int]
    BY DEF Init
  <1>5. saved \in Tables
    BY <1>1, <1>2, <1>3, <1>4 DEF Init, Snapshot, Tables
  <1>6. tx \in Transaction
    BY DEF Init, Idle, Transaction
  <1> QED
    BY <1>1, <1>2, <1>3, <1>4, <1>5, <1>6 DEF TypeOK

\* The tables of TypeOK, without what was committed.
RowsOK ==
    /\ orders \in [OrderIds -> Order \cup {None}]
    /\ lines \in [LineIds -> Line \cup {None}]
    /\ kits \in [KitIds -> Kit \cup {None}]
    /\ stock \in [Items -> 0..MaxInt4 \cup {None}]
    /\ apps \in [AppIds -> Application \cup {None}]
    /\ applied \in [LineIds -> Int]
    /\ counted \in [Items -> Int]

LEMMA AutocommitTypeOK ==
    ASSUME TypeOK, RowsOK', Autocommit
    PROVE  TypeOK'
  BY DEF TypeOK, RowsOK, Autocommit, Snapshot, Tables

\* Deleting kits, and with them their applications, keeps both tables well
\* formed.
LEMMA DropKitsTypeOK ==
    ASSUME NEW gone, TypeOK, DropKits(gone)
    PROVE  /\ kits' \in [KitIds -> Kit \cup {None}]
           /\ apps' \in [AppIds -> Application \cup {None}]
  BY DEF TypeOK, DropKits

LEMMA KitTypeOK == TypeOK /\ KitNext => TypeOK'
  <1> SUFFICES ASSUME TypeOK, KitNext PROVE TypeOK'
    OBVIOUS
  <1>1. ASSUME NEW k \in KitIds, NEW stage \in KitStage, CreateKit(k, stage)
        PROVE  TypeOK'
    <2>1. kits' \in [KitIds -> Kit \cup {None}]
      BY <1>1 DEF TypeOK, CreateKit, Kit
    <2> QED
      BY <1>1, <2>1, AutocommitTypeOK DEF TypeOK, RowsOK, CreateKit, KeepStock
  <1>2. ASSUME NEW k \in KitIds, NEW stage \in KitStage, NEW rated \in BOOLEAN,
               UpdateKit(k, stage, rated)
        PROVE  TypeOK'
    <2>1. kits[k] \in Kit
      BY <1>2 DEF TypeOK, UpdateKit
    <2>2. kits' = [kits EXCEPT ![k] = [kits[k] EXCEPT !.stage = stage, !.rated = rated]]
      BY <1>2, <2>1 DEF UpdateKit, TypeOK, Kit
    <2>3. kits' \in [KitIds -> Kit \cup {None}]
      BY <2>1, <2>2 DEF TypeOK, Kit
    <2> QED
      BY <1>2, <2>3, AutocommitTypeOK DEF TypeOK, RowsOK, UpdateKit, KeepStock
  <1>3. ASSUME NEW k \in KitIds, DeleteKit(k)
        PROVE  TypeOK'
    <2>1. DropKits({k})
      BY <1>3 DEF DeleteKit
    <2> QED
      BY <1>3, <2>1, DropKitsTypeOK, AutocommitTypeOK
      DEF TypeOK, RowsOK, DeleteKit, KeepStock
  <1> QED
    BY <1>1, <1>2, <1>3 DEF KitNext

LEMMA CatalogTypeOK == TypeOK /\ CatalogNext => TypeOK'
  <1> SUFFICES ASSUME TypeOK, CatalogNext PROVE TypeOK'
    OBVIOUS
  <1> USE IdsAssumption, BoundsAssumption
  <1>1. ASSUME NEW i \in Items, NEW n \in 0..MaxInt4, CreateItem(i, n)
        PROVE  TypeOK'
    <2>1. RowsOK'
      BY <1>1 DEF TypeOK, RowsOK, CreateItem
    <2> QED
      BY <1>1, <2>1, AutocommitTypeOK DEF CreateItem
  <1>2. ASSUME NEW i \in Items, NEW delta \in -MaxInt4..MaxInt4, AdjustStock(i, delta)
        PROVE  TypeOK'
    <2>1. stock[i] \in 0..MaxInt4 /\ counted[i] \in Int
      BY <1>2 DEF TypeOK, AdjustStock
    <2>2. RowsOK'
      BY <1>2, <2>1 DEF TypeOK, RowsOK, AdjustStock, FitsStock
    <2> QED
      BY <1>2, <2>2, AutocommitTypeOK DEF AdjustStock
  <1>3. ASSUME NEW i \in Items, NEW n \in 0..MaxInt4, UpdateItem(i, n)
        PROVE  TypeOK'
    <2>1. stock[i] \in 0..MaxInt4 /\ counted[i] \in Int
      BY <1>3 DEF TypeOK, UpdateItem
    <2>2. RowsOK'
      BY <1>3, <2>1 DEF TypeOK, RowsOK, UpdateItem
    <2> QED
      BY <1>3, <2>2, AutocommitTypeOK DEF UpdateItem
  <1>4. ASSUME NEW i \in Items, DeleteItem(i)
        PROVE  TypeOK'
    <2>1. RowsOK'
      BY <1>4 DEF TypeOK, RowsOK, DeleteItem
    <2> QED
      BY <1>4, <2>1, AutocommitTypeOK DEF DeleteItem
  <1> QED
    BY <1>1, <1>2, <1>3, <1>4 DEF CatalogNext

LEMMA UpgradeTypeOK == TypeOK /\ UpgradeNext => TypeOK'
  <1> SUFFICES ASSUME TypeOK, UpgradeNext PROVE TypeOK'
    OBVIOUS
  <1> USE IdsAssumption, BoundsAssumption
  <1>1. ASSUME NEW a \in AppIds, NEW u \in Upgrades, NEW k \in KitIds,
               NEW q \in 1..MaxInt4, ApplyUpgrade(a, u, k, q)
        PROVE  TypeOK'
    <2>1. u \in Items /\ stock[u] \in 0..MaxInt4
      BY <1>1 DEF TypeOK, ApplyUpgrade, Items
    <2>2. stock[u] - q \in 0..MaxInt4
      BY <1>1, <2>1 DEF ApplyUpgrade
    <2>3. stock' \in [Items -> 0..MaxInt4 \cup {None}]
      BY <1>1, <2>1, <2>2 DEF TypeOK, ApplyUpgrade
    <2>4. apps' \in [AppIds -> Application \cup {None}]
      BY <1>1 DEF TypeOK, ApplyUpgrade, Application
    <2> QED
      BY <1>1, <2>3, <2>4, AutocommitTypeOK DEF TypeOK, RowsOK, ApplyUpgrade
  <1>2. ASSUME NEW a \in AppIds, NEW restore \in BOOLEAN, Withdraw(a, restore)
        PROVE  TypeOK'
    <2> DEFINE u == apps[a].upgrade
               q == apps[a].used
    <2>1. apps[a] \in Application
      BY <1>2 DEF TypeOK, Withdraw
    <2>2. u \in Items /\ q \in Int
      BY <2>1 DEF Application, Items
    <2>3. stock[u] \in 0..MaxInt4 /\ counted[u] \in Int
      BY <1>2, <2>2 DEF TypeOK, Withdraw
    <2>4. apps' \in [AppIds -> Application \cup {None}]
      BY <1>2 DEF TypeOK, Withdraw
    <2>5. CASE restore
      <3>1. stock[u] + q \in 0..MaxInt4
        BY <1>2, <2>5 DEF Withdraw, FitsStock
      <3>2. stock' \in [Items -> 0..MaxInt4 \cup {None}] /\ counted' = counted
        BY <1>2, <2>2, <2>5, <3>1 DEF TypeOK, Withdraw
      <3> QED
        BY <1>2, <2>4, <3>2, AutocommitTypeOK DEF TypeOK, RowsOK, Withdraw
    <2>6. CASE ~restore
      <3>1. counted' \in [Items -> Int] /\ stock' = stock
        BY <1>2, <2>2, <2>3, <2>6 DEF TypeOK, Withdraw
      <3> QED
        BY <1>2, <2>4, <3>1, AutocommitTypeOK DEF TypeOK, RowsOK, Withdraw
    <2> QED
      BY <2>5, <2>6
  <1> QED
    BY <1>1, <1>2 DEF UpgradeNext

LEMMA BeginTypeOK == TypeOK /\ BeginNext => TypeOK'
  <1> SUFFICES ASSUME TypeOK, NEW o \in OrderIds,
                      \/ \E received \in BOOLEAN : BeginCreate(o, received)
                      \/ \E removal \in BOOLEAN : BeginUpdate(o, removal)
                      \/ BeginReceive(o)
                      \/ BeginDelete(o)
               PROVE  TypeOK'
    BY DEF BeginNext
  <1> USE IdsAssumption, BoundsAssumption
  <1>1. ASSUME NEW op \in {"create", "update", "receive", "delete"},
               NEW todo \in SUBSET LineIds, NEW removal \in BOOLEAN,
               Begin(op, o, todo, removal), orders' \in [OrderIds -> Order \cup {None}]
        PROVE  TypeOK'
    <2>1. tx' \in Transaction
      BY <1>1 DEF Begin, Transaction
    <2> QED
      BY <1>1, <2>1 DEF TypeOK, Begin, KeepStock
  <1>2. LinesOf(o) \in SUBSET LineIds
    BY DEF LinesOf
  <1>3. ASSUME NEW received \in BOOLEAN, BeginCreate(o, received) PROVE TypeOK'
    <2>1. orders' \in [OrderIds -> Order \cup {None}]
      BY <1>3 DEF TypeOK, BeginCreate, Order
    <2>2. Begin("create", o, {}, FALSE)
      BY <1>3 DEF BeginCreate
    <2> QED
      BY <1>1, <2>1, <2>2
  <1>4. ASSUME NEW removal \in BOOLEAN, BeginUpdate(o, removal) PROVE TypeOK'
    <2>1. orders' \in [OrderIds -> Order \cup {None}]
      BY <1>4 DEF TypeOK, BeginUpdate
    <2>2. Begin("update", o, LinesOf(o), removal)
      BY <1>4 DEF BeginUpdate
    <2> QED
      BY <1>1, <1>2, <2>1, <2>2
  <1>5. ASSUME BeginReceive(o) PROVE TypeOK'
    <2>1. orders[o] \in Order
      BY <1>5 DEF TypeOK, BeginReceive
    <2>2. orders' \in [OrderIds -> Order \cup {None}]
      BY <1>5, <2>1 DEF TypeOK, BeginReceive, Order
    <2>3. Begin("receive", o, LinesOf(o), FALSE)
      BY <1>5 DEF BeginReceive
    <2> QED
      BY <1>1, <1>2, <2>2, <2>3
  <1>6. ASSUME BeginDelete(o) PROVE TypeOK'
    <2>1. Begin("delete", o, LinesOf(o), FALSE) /\ orders' \in [OrderIds -> Order \cup {None}]
      BY <1>6 DEF TypeOK, BeginDelete
    <2> QED
      BY <1>1, <1>2, <2>1
  <1> QED
    BY <1>3, <1>4, <1>5, <1>6

\* The two ways a walk over an order's lines advances.
LEMMA NameTypeOK ==
    ASSUME TypeOK, NEW l \in LineIds, NEW units \in Nat, Name(l, units)
    PROVE  tx' \in Transaction /\ orders' = orders /\ saved' = saved
  <1> USE IdsAssumption, BoundsAssumption
  <1>1. tx \in Transaction /\ tx.units + units \in 0..MaxTotalFanout
    BY DEF TypeOK, Name, Transaction
  <1> QED
    BY <1>1 DEF Name, Transaction

LEMMA DoneTypeOK ==
    ASSUME TypeOK, NEW l \in LineIds, Done(l)
    PROVE  tx' \in Transaction /\ orders' = orders /\ saved' = saved
  BY DEF TypeOK, Done, Transaction

\* Spawned kits are well-formed rows of their line.
LEMMA SpawnKitsTypeOK ==
    ASSUME TypeOK, NEW l \in LineIds, NEW stage \in KitStage, NEW received \in BOOLEAN,
           NEW count, SpawnKits(l, stage, received, count)
    PROVE  kits' \in [KitIds -> Kit \cup {None}]
  <1> DEFINE row == [stage |-> InitialKitStage(stage, received), line |-> l, rated |-> FALSE]
  <1>1. row \in Kit
    BY DEF Kit, InitialKitStage, KitStage
  <1>2. PICK new \in SUBSET KitIds :
           kits' = [k \in KitIds |-> IF k \in new THEN row ELSE kits[k]]
    BY DEF SpawnKits
  <1> QED
    BY <1>1, <1>2 DEF TypeOK

\* A stock delta is applied only if the count stays within its column.
LEMMA AdjustRefTypeOK ==
    ASSUME TypeOK, NEW l \in LineIds, NEW i \in Items, NEW delta \in Int,
           AdjustRef(l, i, delta)
    PROVE  /\ stock' \in [Items -> 0..MaxInt4 \cup {None}]
           /\ applied' \in [LineIds -> Int]
  <1>1. stock[i] + delta \in 0..MaxInt4 /\ applied[l] \in Int
    BY DEF TypeOK, AdjustRef, FitsStock
  <1> QED
    BY <1>1 DEF TypeOK, AdjustRef

\* Undoing a line leaves every table well formed.
LEMMA UndoLineTypeOK ==
    ASSUME TypeOK, NEW l \in LineIds, NEW ok \in BOOLEAN, lines[l] # None, UndoLine(l, ok)
    PROVE  /\ kits' \in [KitIds -> Kit \cup {None}]
           /\ apps' \in [AppIds -> Application \cup {None}]
           /\ stock' \in [Items -> 0..MaxInt4 \cup {None}]
           /\ applied' \in [LineIds -> Int]
           /\ counted' = counted
  <1>1. lines[l] \in Line
    BY DEF TypeOK
  <1>2. CASE lines[l].ref = None
    BY <1>2, DropKitsTypeOK DEF TypeOK, UndoLine, DeleteLineKits, KeepStock
  <1>3. CASE lines[l].ref # None
    <2>1. lines[l].ref \in Items /\ -lines[l].qty \in Int
      BY <1>1, <1>3 DEF Line, Quantity
    <2>2. UNCHANGED <<kits, apps, counted>>
      BY <1>3 DEF UndoLine
    <2>3. CASE AdjustRef(l, lines[l].ref, -lines[l].qty)
      BY <2>1, <2>2, <2>3, AdjustRefTypeOK DEF TypeOK
    <2>4. CASE applied' = [applied EXCEPT ![l] = 0] /\ stock' = stock
      BY <2>2, <2>4 DEF TypeOK
    <2>5. CASE UNCHANGED <<stock, applied>>
      BY <2>2, <2>5 DEF TypeOK
    <2> QED
      BY <1>3, <2>3, <2>4, <2>5 DEF UndoLine
  <1> QED
    BY <1>2, <1>3

LEMMA LineTypeOK == TypeOK /\ TxRooted /\ LineNext => TypeOK'
  <1> SUFFICES ASSUME TypeOK, TxRooted, NEW l \in LineIds,
                      \/ \E q \in Quantity, stage \in KitStage : AddKitLine(l, q, stage)
                      \/ \E q \in Quantity, i \in Items : AddStockLine(l, i, q)
                      \/ \E q \in Quantity, stage \in KitStage : EditKitLine(l, q, stage)
                      \/ \E q \in Quantity : EditStockLine(l, q)
                      \/ \E q \in Quantity, i \in Items : RetargetLine(l, i, q)
                      \/ RemoveLine(l)
                      \/ ReceiveLine(l)
                      \/ DeleteLine(l)
               PROVE  TypeOK'
    BY DEF LineNext
  <1> USE IdsAssumption, BoundsAssumption
  <1>1. l \in tx.todo => lines[l] \in Line
    BY DEF TypeOK, TxRooted
  <1>2. tx.op # "idle" => tx.order \in OrderIds /\ Received \in BOOLEAN
    BY DEF TypeOK, TxRooted, Transaction, Received, Order
  <1>3. ASSUME NEW q \in Quantity, NEW stage \in KitStage, AddKitLine(l, q, stage)
        PROVE  TypeOK'
    <2>1. tx' \in Transaction /\ orders' = orders /\ saved' = saved
      BY <1>3, NameTypeOK DEF AddKitLine, Quantity
    <2>2. kits' \in [KitIds -> Kit \cup {None}]
      BY <1>2, <1>3, SpawnKitsTypeOK DEF AddKitLine
    <2>3. lines' \in [LineIds -> Line \cup {None}]
      BY <1>2, <1>3 DEF TypeOK, AddKitLine, Line
    <2> QED
      BY <1>3, <2>1, <2>2, <2>3 DEF TypeOK, AddKitLine, KeepStock
  <1>4. ASSUME NEW q \in Quantity, NEW i \in Items, AddStockLine(l, i, q)
        PROVE  TypeOK'
    <2> DEFINE put == IF Received THEN q ELSE 0
    <2>1. tx' \in Transaction /\ orders' = orders /\ saved' = saved
      BY <1>4, NameTypeOK DEF AddStockLine
    <2>2. lines' \in [LineIds -> Line \cup {None}]
      BY <1>2, <1>4 DEF TypeOK, AddStockLine, Line
    <2>3. put \in Int /\ OnHand(i) + put \in 0..MaxInt4
      BY <1>4 DEF AddStockLine, Quantity, FitsStock
    <2>4. /\ stock' = [stock EXCEPT ![i] = OnHand(i) + put]
          /\ applied' = [applied EXCEPT ![l] = put]
      BY <1>4 DEF AddStockLine
    <2>5. /\ stock' \in [Items -> 0..MaxInt4 \cup {None}]
          /\ applied' \in [LineIds -> Int]
      BY <2>3, <2>4 DEF TypeOK
    <2> QED
      BY <1>4, <2>1, <2>2, <2>5 DEF TypeOK, AddStockLine
  <1>5. ASSUME NEW q \in Quantity, NEW stage \in KitStage, EditKitLine(l, q, stage)
        PROVE  TypeOK'
    <2> DEFINE held == Cardinality(KitsOf(l))
    <2>1. tx' \in Transaction /\ orders' = orders /\ saved' = saved
      BY <1>5, NameTypeOK DEF EditKitLine, Quantity
    <2>2. lines' \in [LineIds -> Line \cup {None}]
      BY <1>1, <1>5 DEF TypeOK, EditKitLine, Line
    <2>3. CASE SpawnKits(l, stage, Received, q - held) /\ UNCHANGED apps
      BY <1>2, <1>5, <2>1, <2>2, <2>3, SpawnKitsTypeOK DEF TypeOK, EditKitLine, KeepStock
    <2>4. CASE DeleteLineKits(l, held - q)
      BY <1>5, <2>1, <2>2, <2>4, DropKitsTypeOK
      DEF TypeOK, EditKitLine, DeleteLineKits, KeepStock
    <2> QED
      BY <1>5, <2>3, <2>4 DEF EditKitLine
  <1>6. ASSUME NEW q \in Quantity, EditStockLine(l, q)
        PROVE  TypeOK'
    <2>1. tx' \in Transaction /\ orders' = orders /\ saved' = saved
      BY <1>6, NameTypeOK DEF EditStockLine
    <2>2. lines[l] \in Line /\ lines[l].ref \in Items /\ q - lines[l].qty \in Int
      BY <1>1, <1>6 DEF EditStockLine, Line, Quantity
    <2>3. lines' \in [LineIds -> Line \cup {None}]
      BY <1>6, <2>2 DEF TypeOK, EditStockLine, Line
    <2>4. /\ stock' \in [Items -> 0..MaxInt4 \cup {None}]
          /\ applied' \in [LineIds -> Int]
      BY <1>6, <2>2, AdjustRefTypeOK DEF TypeOK, EditStockLine
    <2> QED
      BY <1>6, <2>1, <2>3, <2>4 DEF TypeOK, EditStockLine
  <1>7. ASSUME NEW q \in Quantity, NEW i \in Items, RetargetLine(l, i, q)
        PROVE  TypeOK'
    <2> DEFINE old == lines[l].ref
    <2>1. tx' \in Transaction /\ orders' = orders /\ saved' = saved
      BY <1>7, NameTypeOK DEF RetargetLine
    <2>2. lines[l] \in Line /\ old \in Items /\ old # i
      BY <1>1, <1>7 DEF RetargetLine, Line
    <2>3. lines' \in [LineIds -> Line \cup {None}]
      BY <1>7, <2>2 DEF TypeOK, RetargetLine, Line
    <2>4. CASE Received
      <3>1. stock[old] - lines[l].qty \in 0..MaxInt4 /\ OnHand(i) + q \in 0..MaxInt4
        BY <1>7, <2>4 DEF RetargetLine, FitsStock
      <3>2. /\ stock' = [stock EXCEPT ![old] = @ - lines[l].qty, ![i] = OnHand(i) + q]
            /\ applied' = [applied EXCEPT ![l] = q]
        BY <1>7, <2>4 DEF RetargetLine
      <3>3. /\ stock' \in [Items -> 0..MaxInt4 \cup {None}]
            /\ applied' \in [LineIds -> Int]
        BY <2>2, <3>1, <3>2 DEF TypeOK, Quantity
      <3> QED
        BY <1>7, <2>1, <2>3, <3>3 DEF TypeOK, RetargetLine
    <2>5. CASE ~Received
      <3>1. OnHand(i) \in 0..MaxInt4
        BY DEF OnHand, TypeOK
      <3>2. stock' \in [Items -> 0..MaxInt4 \cup {None}] /\ applied' = applied
        BY <1>7, <2>5, <3>1 DEF TypeOK, RetargetLine
      <3> QED
        BY <1>7, <2>1, <2>3, <3>2 DEF TypeOK, RetargetLine
    <2> QED
      BY <2>4, <2>5
  <1>8. ASSUME RemoveLine(l) PROVE TypeOK'
    <2>1. lines[l] # None
      BY <1>8 DEF RemoveLine, TxRooted
    <2>2. /\ lines' \in [LineIds -> Line \cup {None}]
          /\ orders' = orders /\ saved' = saved
      BY <1>8 DEF TypeOK, RemoveLine
    <2>3. tx' \in Transaction
      BY <1>8 DEF TypeOK, RemoveLine, Transaction
    <2> QED
      BY <1>8, <2>1, <2>2, <2>3, UndoLineTypeOK DEF TypeOK, RemoveLine
  <1>9. ASSUME ReceiveLine(l) PROVE TypeOK'
    <2>1. tx' \in Transaction /\ orders' = orders /\ saved' = saved
      BY <1>9, DoneTypeOK DEF ReceiveLine
    <2>2. lines[l] \in Line
      BY <1>1, <1>9 DEF ReceiveLine
    <2>3. CASE lines[l].ref = None
      <3>1. kits' = [k \in KitIds |->
                       IF k \in KitsOf(l) /\ kits[k].stage = "mail"
                       THEN [kits[k] EXCEPT !.stage = "hand"]
                       ELSE kits[k]]
        BY <1>9, <2>3 DEF ReceiveLine
      <3>2. \A k \in KitsOf(l) : kits[k] \in Kit
        BY DEF KitsOf, TypeOK
      <3>3. kits' \in [KitIds -> Kit \cup {None}]
        BY <3>1, <3>2 DEF TypeOK, Kit, KitStage
      <3> QED
        BY <1>9, <2>1, <2>3, <3>3 DEF TypeOK, ReceiveLine, KeepStock
    <2>4. CASE lines[l].ref # None
      <3>1. lines[l].ref \in Items /\ lines[l].qty \in Int
        BY <2>2, <2>4 DEF Line, Quantity
      <3> QED
        BY <1>9, <2>1, <2>4, <3>1, AdjustRefTypeOK DEF TypeOK, ReceiveLine
    <2> QED
      BY <2>3, <2>4
  <1>10. ASSUME DeleteLine(l) PROVE TypeOK'
    <2>1. tx' \in Transaction /\ orders' = orders /\ saved' = saved
      BY <1>10, DoneTypeOK DEF DeleteLine
    <2>2. lines[l] # None
      BY <1>10 DEF DeleteLine, TxRooted
    <2> QED
      BY <1>10, <2>1, <2>2, UndoLineTypeOK DEF TypeOK, DeleteLine
  <1> QED
    BY <1>3, <1>4, <1>5, <1>6, <1>7, <1>8, <1>9, <1>10

LEMMA EndTypeOK == TypeOK /\ TxRooted /\ (Commit \/ Abort) => TypeOK'
  <1> SUFFICES ASSUME TypeOK, TxRooted, Commit \/ Abort PROVE TypeOK'
    OBVIOUS
  <1> USE IdsAssumption, BoundsAssumption
  <1>1. Idle \in Transaction
    BY DEF Idle, Transaction
  <1>2. CASE Abort
    BY <1>1, <1>2 DEF TypeOK, Abort, Tables
  <1>3. CASE Commit
    <2>1. /\ orders' \in [OrderIds -> Order \cup {None}]
          /\ lines' \in [LineIds -> Line \cup {None}]
          /\ kits' \in [KitIds -> Kit \cup {None}]
      <3>1. CASE tx.op = "delete"
        <4>1. \A k \in KitIds : kits[k] # None => [kits[k] EXCEPT !.line = None] \in Kit
          BY DEF TypeOK, Kit
        <4> QED
          BY <1>3, <3>1, <4>1 DEF TypeOK, Commit, DropOrder
      <3>2. CASE tx.op # "delete"
        BY <1>3, <3>2 DEF TypeOK, Commit
      <3> QED
        BY <3>1, <3>2
    <2>2. RowsOK'
      BY <1>3, <2>1 DEF TypeOK, RowsOK, Commit, KeepStock
    <2> QED
      BY <1>1, <1>3, <2>2 DEF TypeOK, RowsOK, Commit, Snapshot, Tables
  <1> QED
    BY <1>2, <1>3

LEMMA StepTypeOK == TypeOK /\ TxRooted /\ [Next]_vars => TypeOK'
  <1> SUFFICES ASSUME TypeOK, TxRooted, [Next]_vars PROVE TypeOK'
    OBVIOUS
  <1>1. CASE UNCHANGED vars
    BY <1>1 DEF vars, TypeOK
  <1>2. CASE Next
    BY <1>2, KitTypeOK, CatalogTypeOK, UpgradeTypeOK, BeginTypeOK, LineTypeOK, EndTypeOK
    DEF Next
  <1> QED
    BY <1>1, <1>2

-----------------------------------------------------------------------------
(* The rest of the inductive invariant.                                    *)

\* What it says beside the types.
Rest == TxRooted /\ LinesRooted /\ Accounted /\ SavedAccounted

LEMMA InitRest == Init => Rest
  <1> SUFFICES ASSUME Init PROVE Rest
    OBVIOUS
  <1> USE IdsAssumption, AbsentAssumption
  <1>1. TypeOK
    BY InitTypeOK
  <1>2. tx = Idle /\ saved = Snapshot /\ tx.todo = {}
    BY DEF Init, Idle
  <1>3. TxRooted
    BY <1>2 DEF TxRooted, Idle
  <1>4. CASE Empty
    BY <1>2, <1>3, <1>4
    DEF Empty, Rest, LinesRooted, Accounted, SavedAccounted, Owed, Snapshot
  <1>5. ASSUME NEW o \in OrderIds, NEW l \in LineIds, NEW i \in Items, NEW q \in Quantity,
               NEW received \in BOOLEAN, Dangling(o, l, i, q, received)
        PROVE  Rest
    <2>1. /\ [received |-> received] \in Order
          /\ [order |-> o, ref |-> i, qty |-> q] \in Line
      BY DEF Order, Line
    <2>2. \A m \in LineIds : lines[m] # None => m = l
      BY <1>5 DEF Dangling
    <2>3. LinesRooted
      BY <1>2, <1>5, <2>1, <2>2 DEF Dangling, LinesRooted, Snapshot
    <2>4. i # None
      BY DEF Items
    <2>5. /\ lines[l] # None /\ lines[l].ref # None /\ lines[l].qty = q
          /\ orders[lines[l].order].received = received
      BY <1>5, <2>1, <2>4 DEF Dangling
    <2>6. \A m \in LineIds :
             applied[m] = IF /\ lines[m] # None
                             /\ lines[m].ref # None
                             /\ orders[lines[m].order].received
                          THEN lines[m].qty ELSE 0
      BY <1>5, <2>2, <2>5 DEF Dangling
    <2>7. Accounted
      BY <1>2, <2>6 DEF Accounted, Owed, Idle
    <2>8. SavedAccounted
      BY <1>2, <2>6 DEF SavedAccounted, Snapshot
    <2> QED
      BY <1>3, <2>3, <2>7, <2>8 DEF Rest
  <1> QED
    BY <1>4, <1>5 DEF Init

\* A step outside an order transaction: no order, line or accounting moves.
Aside ==
    /\ tx = Idle
    /\ saved' = Snapshot'
    /\ UNCHANGED <<orders, lines, applied, tx>>

LEMMA AsideSteps == KitNext \/ CatalogNext \/ UpgradeNext => Aside
  <1>1. KitNext => Aside
    BY DEF KitNext, Aside, CreateKit, UpdateKit, DeleteKit, KeepStock, Autocommit
  <1>2. CatalogNext => Aside
    BY DEF CatalogNext, Aside, CreateItem, AdjustStock, UpdateItem, DeleteItem, Autocommit
  <1>3. UpgradeNext => Aside
    BY DEF UpgradeNext, Aside, ApplyUpgrade, Withdraw, Autocommit
  <1> QED
    BY <1>1, <1>2, <1>3

LEMMA AsideRest == Rest /\ Aside => Rest'
  <1> SUFFICES ASSUME Rest, Aside PROVE Rest'
    OBVIOUS
  <1>1. TxRooted'
    BY DEF Rest, Aside, TxRooted, Idle
  <1>2. /\ saved'.orders = orders' /\ saved'.lines = lines' /\ saved'.applied = applied'
    BY DEF Aside, Snapshot
  <1>3. LinesRooted'
    BY <1>2 DEF Rest, Aside, LinesRooted
  <1>4. Accounted'
    BY DEF Rest, Aside, Accounted, Owed
  <1>5. SavedAccounted'
    BY <1>2, <1>4 DEF Aside, Accounted, SavedAccounted, Owed, Idle
  <1> QED
    BY <1>1, <1>3, <1>4, <1>5 DEF Rest

LEMMA BeginRest == TypeOK /\ Rest /\ BeginNext => Rest'
  <1> SUFFICES ASSUME TypeOK, Rest, NEW o \in OrderIds,
                      \/ \E received \in BOOLEAN : BeginCreate(o, received)
                      \/ \E removal \in BOOLEAN : BeginUpdate(o, removal)
                      \/ BeginReceive(o)
                      \/ BeginDelete(o)
               PROVE  Rest'
    BY DEF BeginNext
  <1> USE IdsAssumption, AbsentAssumption
  <1>1. /\ tx = Idle
        /\ UNCHANGED <<lines, applied, saved>>
        /\ tx'.order = o
        /\ tx'.op \in {"create", "update", "receive", "delete"}
        /\ tx'.op = "create" => orders[o] = None /\ tx'.todo = {}
        /\ tx'.op # "create" => orders[o] # None /\ tx'.todo = LinesOf(o)
        /\ tx'.op = "receive" => ~orders[o].received /\ orders'[o].received
        /\ \A p \in OrderIds \ {o} : orders'[p] = orders[p]
        /\ tx'.op \in {"update", "delete"} => orders' = orders
    BY DEF BeginCreate, BeginUpdate, BeginReceive, BeginDelete, Begin, KeepStock, TypeOK, Order
  <1>2. TypeOK'
    BY BeginTypeOK DEF BeginNext
  <1>3. orders'[o] # None
    <2>1. ASSUME NEW r \in BOOLEAN, BeginCreate(o, r) PROVE orders'[o] # None
      BY <2>1 DEF BeginCreate, TypeOK, Order
    <2>2. ASSUME BeginReceive(o) PROVE orders'[o] # None
      <3>1. orders[o] \in Order
        BY <2>2 DEF BeginReceive, TypeOK
      <3>2. [orders[o] EXCEPT !.received = TRUE] \in Order
        BY <3>1 DEF Order
      <3> QED
        BY <2>2, <3>2 DEF BeginReceive, TypeOK
    <2> QED
      BY <1>1, <2>1, <2>2 DEF BeginUpdate, BeginDelete
  <1>4. TxRooted'
    BY <1>1, <1>3 DEF TxRooted, LinesOf
  <1>5. LinesRooted'
    BY <1>1, <1>3 DEF Rest, LinesRooted, TypeOK, Line
  <1>6. SavedAccounted'
    BY <1>1 DEF Rest, SavedAccounted
  <1>7. ASSUME NEW l \in LineIds PROVE applied'[l] = Owed(l)'
    <2>1. applied[l] = Owed(l)
      BY DEF Rest, Accounted
    <2>2. CASE lines[l] = None
      BY <1>1, <2>1, <2>2 DEF Owed
    <2>3. CASE lines[l] # None /\ lines[l].order # o
      <3>1. lines[l].order \in OrderIds
        BY <2>3 DEF TypeOK, Line
      <3> QED
        BY <1>1, <2>1, <2>3, <3>1 DEF Owed, Idle, LinesOf
    <2>4. CASE lines[l] # None /\ lines[l].order = o
      <3>1. l \in LinesOf(o) /\ orders[o] # None
        BY <2>4 DEF LinesOf, Rest, LinesRooted
      <3> QED
        BY <1>1, <2>1, <2>4, <3>1 DEF Owed, Idle
    <2> QED
      BY <2>2, <2>3, <2>4
  <1> QED
    BY <1>4, <1>5, <1>6, <1>7 DEF Rest, Accounted

\* A line step: only line l and what it has in stock may change, and l is
\* walked.
LineStep(l) ==
    /\ tx.op # "idle"
    /\ orders' = orders
    /\ saved' = saved
    /\ \A m \in LineIds \ {l} : lines'[m] = lines[m] /\ applied'[m] = applied[m]
    /\ tx'.order = tx.order
    /\ tx'.todo = tx.todo \ {l}
    /\ tx'.op = tx.op \/ (tx.op = "update" /\ tx'.op = "prune")
    /\ lines'[l] # None => lines'[l].order = tx.order

\* A line step keeps the invariant if it settles the account of its own line.
LEMMA LineStepRest ==
    ASSUME TypeOK, Rest, NEW l \in LineIds, LineStep(l), applied'[l] = Owed(l)'
    PROVE  Rest'
  <1> USE IdsAssumption, AbsentAssumption
  <1>1. tx.order # None /\ orders[tx.order] # None
    BY DEF Rest, TxRooted, LineStep
  <1>2. TxRooted'
    BY <1>1 DEF Rest, TxRooted, LineStep, TypeOK, Transaction
  <1>3. LinesRooted'
    BY <1>1 DEF Rest, LinesRooted, LineStep
  <1>4. SavedAccounted'
    BY DEF Rest, SavedAccounted, LineStep
  <1>5. ASSUME NEW m \in LineIds, m # l PROVE applied'[m] = Owed(m)'
    BY <1>5 DEF Rest, Accounted, Owed, LineStep
  <1> QED
    BY <1>2, <1>3, <1>4, <1>5 DEF Rest, Accounted

LEMMA LineRest == TypeOK /\ Rest /\ LineNext => Rest'
  <1> SUFFICES ASSUME TypeOK, Rest, NEW l \in LineIds,
                      \/ \E q \in Quantity, stage \in KitStage : AddKitLine(l, q, stage)
                      \/ \E q \in Quantity, i \in Items : AddStockLine(l, i, q)
                      \/ \E q \in Quantity, stage \in KitStage : EditKitLine(l, q, stage)
                      \/ \E q \in Quantity : EditStockLine(l, q)
                      \/ \E q \in Quantity, i \in Items : RetargetLine(l, i, q)
                      \/ RemoveLine(l)
                      \/ ReceiveLine(l)
                      \/ DeleteLine(l)
               PROVE  Rest'
    BY DEF LineNext
  <1> USE IdsAssumption, AbsentAssumption
  <1>1. applied[l] = Owed(l) /\ applied[l] \in Int
    BY DEF Rest, Accounted, TypeOK
  <1>2. l \in tx.todo => lines[l] \in Line /\ lines[l] # None /\ lines[l].order = tx.order
    BY DEF Rest, TxRooted, TypeOK
  <1>3. tx.op # "idle" => tx.order \in OrderIds /\ Received \in BOOLEAN
    BY DEF Rest, TypeOK, TxRooted, Transaction, Received, Order
  <1>4. tx.op = "receive" => Received
    BY DEF Rest, TxRooted, Received
  <1>5. ASSUME NEW q \in Quantity, NEW stage \in KitStage, AddKitLine(l, q, stage)
        PROVE  Rest'
    <2>1. [order |-> tx.order, ref |-> None, qty |-> q] \in Line
      BY <1>3, <1>5 DEF AddKitLine, Line
    <2>2. LineStep(l)
      BY <1>5, <2>1 DEF AddKitLine, LineStep, Name, KeepStock, TypeOK, Transaction
    <2>3. applied'[l] = 0 /\ lines'[l].ref = None
      BY <1>1, <1>5, <2>1 DEF AddKitLine, KeepStock, Owed, TypeOK
    <2> QED
      BY <2>2, <2>3, LineStepRest DEF Owed
  <1>6. ASSUME NEW q \in Quantity, NEW i \in Items, AddStockLine(l, i, q)
        PROVE  Rest'
    <2> DEFINE row == [order |-> tx.order, ref |-> i, qty |-> q]
    <2>1. row \in Line /\ i # None
      BY <1>3, <1>6 DEF AddStockLine, Line, Items
    <2>2. LineStep(l) /\ tx'.op \in {"create", "update"}
      BY <1>6, <2>1 DEF AddStockLine, LineStep, Name, TypeOK, Transaction
    <2>3. applied'[l] = (IF Received THEN q ELSE 0) /\ lines'[l] = row
      BY <1>6 DEF AddStockLine, TypeOK
    <2>4. applied'[l] = Owed(l)'
      BY <2>1, <2>2, <2>3 DEF Owed, Received, LineStep
    <2> QED
      BY <2>2, <2>4, LineStepRest
  <1>7. ASSUME NEW q \in Quantity, NEW stage \in KitStage, EditKitLine(l, q, stage)
        PROVE  Rest'
    <2>1. lines'[l] = [lines[l] EXCEPT !.qty = q] /\ lines[l] \in Line
      BY <1>2, <1>7 DEF EditKitLine, TypeOK
    <2>2. lines'[l].ref = None /\ lines'[l].order = tx.order
      BY <1>2, <1>7, <2>1 DEF EditKitLine, Line
    <2>3. LineStep(l)
      BY <1>7, <2>2 DEF EditKitLine, LineStep, Name, KeepStock, TypeOK, Transaction
    <2>4. applied'[l] = 0
      BY <1>1, <1>7 DEF EditKitLine, KeepStock, Owed
    <2> QED
      BY <2>2, <2>3, <2>4, LineStepRest DEF Owed
  <1>8. ASSUME NEW q \in Quantity, EditStockLine(l, q)
        PROVE  Rest'
    <2>1. lines'[l] = [lines[l] EXCEPT !.qty = q] /\ lines[l] \in Line
      BY <1>2, <1>8 DEF EditStockLine, TypeOK
    <2>2. /\ lines'[l] \in Line /\ lines'[l].qty = q
          /\ lines'[l].ref = lines[l].ref /\ lines'[l].order = tx.order
      BY <1>2, <1>8, <2>1 DEF EditStockLine, Line
    <2>3. /\ \A m \in LineIds \ {l} : applied'[m] = applied[m]
          /\ applied'[l] = IF Received /\ q # lines[l].qty
                           THEN applied[l] + (q - lines[l].qty) ELSE applied[l]
      BY <1>8 DEF EditStockLine, AdjustRef, TypeOK
    <2>4. LineStep(l) /\ tx.op = "update" /\ tx'.op = "update"
      BY <1>8, <2>2, <2>3 DEF EditStockLine, LineStep, Name, TypeOK, Transaction
    <2>5. lines[l].ref # None /\ lines[l].qty \in Int /\ q \in Int
      BY <1>8, <2>1 DEF EditStockLine, Line, Quantity
    <2>6. applied[l] = IF Received THEN lines[l].qty ELSE 0
      BY <1>1, <1>2, <1>8, <2>4, <2>5 DEF Owed, Received, EditStockLine
    <2>7. applied'[l] = IF Received THEN q ELSE 0
      BY <1>3, <2>3, <2>4, <2>5, <2>6
    <2>8. applied'[l] = Owed(l)'
      BY <2>2, <2>4, <2>5, <2>7 DEF Owed, Received, LineStep
    <2> QED
      BY <2>4, <2>8, LineStepRest
  <1>9. ASSUME NEW q \in Quantity, NEW i \in Items, RetargetLine(l, i, q)
        PROVE  Rest'
    <2>1. lines'[l] = [lines[l] EXCEPT !.ref = i, !.qty = q] /\ lines[l] \in Line
      <3>1. lines[l] \in Line /\ lines' = [lines EXCEPT ![l].ref = i, ![l].qty = q]
        BY <1>2, <1>9 DEF RetargetLine
      <3> QED
        BY <3>1 DEF TypeOK, Line
    <2>2. /\ lines'[l] \in Line /\ lines'[l].qty = q /\ i # None
          /\ lines'[l].ref = i /\ lines'[l].order = tx.order
      <3>1. i # None /\ lines[l].order = tx.order
        BY <1>2, <1>9 DEF RetargetLine, Items
      <3>2. lines'[l] = [order |-> lines[l].order, ref |-> i, qty |-> q]
        BY <2>1 DEF Line
      <3> QED
        BY <2>1, <3>1, <3>2 DEF Line
    <2>3. /\ \A m \in LineIds \ {l} : applied'[m] = applied[m]
          /\ applied'[l] = IF Received THEN q ELSE applied[l]
      BY <1>9 DEF RetargetLine, TypeOK
    <2>4. \A m \in LineIds \ {l} : lines'[m] = lines[m]
      BY <1>9 DEF RetargetLine, TypeOK
    <2>5. LineStep(l) /\ tx.op = "update" /\ tx'.op = "update"
      BY <1>9, <2>2, <2>3, <2>4 DEF RetargetLine, LineStep, Name, TypeOK, Transaction
    <2>6. ~Received => applied[l] = 0
      BY <1>1, <1>2, <1>9, <2>5 DEF Owed, Received, RetargetLine
    <2>7. applied'[l] = Owed(l)'
      BY <1>3, <2>2, <2>3, <2>5, <2>6 DEF Owed, Received, LineStep
    <2> QED
      BY <2>5, <2>7, LineStepRest
  <1>10. ASSUME NEW ok \in BOOLEAN, UndoLine(l, ok), l \in tx.todo,
                tx.op \in {"update", "prune", "delete"}
         PROVE  /\ \A m \in LineIds \ {l} : applied'[m] = applied[m]
                /\ applied'[l] = 0
    <2>1. applied[l] = IF lines[l].ref # None /\ Received THEN lines[l].qty ELSE 0
      BY <1>1, <1>2, <1>10 DEF Owed, Received
    <2>2. lines[l].qty \in Int
      BY <1>2, <1>10 DEF Line, Quantity
    <2>3. CASE lines[l].ref = None
      BY <1>10, <2>1, <2>3 DEF UndoLine, KeepStock
    <2>4. CASE lines[l].ref # None /\ ~Received
      BY <1>10, <2>1, <2>4 DEF UndoLine
    <2>5. CASE lines[l].ref # None /\ Received
      <3>1. CASE AdjustRef(l, lines[l].ref, -lines[l].qty)
        BY <2>1, <2>2, <2>5, <3>1 DEF AdjustRef, TypeOK
      <3>2. CASE applied' = [applied EXCEPT ![l] = 0]
        BY <3>2 DEF TypeOK
      <3> QED
        BY <1>10, <2>5, <3>1, <3>2 DEF UndoLine
    <2> QED
      BY <1>3, <1>10, <2>3, <2>4, <2>5
  <1>11. ASSUME RemoveLine(l) PROVE Rest'
    <2>1. applied'[l] = 0 /\ \A m \in LineIds \ {l} : applied'[m] = applied[m]
      BY <1>10, <1>11 DEF RemoveLine
    <2>2. LineStep(l) /\ lines'[l] = None
      BY <1>11, <2>1 DEF RemoveLine, LineStep, TypeOK, Transaction
    <2> QED
      BY <2>1, <2>2, LineStepRest DEF Owed
  <1>12. ASSUME ReceiveLine(l) PROVE Rest'
    <2>1. lines[l] \in Line /\ lines' = lines
      BY <1>2, <1>12 DEF ReceiveLine
    <2>2. /\ \A m \in LineIds \ {l} : applied'[m] = applied[m]
          /\ applied'[l] = IF lines[l].ref = None THEN applied[l]
                           ELSE applied[l] + lines[l].qty
      BY <1>12 DEF ReceiveLine, AdjustRef, KeepStock, TypeOK
    <2>3. LineStep(l) /\ tx'.op = "receive" /\ l \notin tx'.todo
      BY <1>2, <1>12, <2>1, <2>2 DEF ReceiveLine, LineStep, Done, TypeOK, Transaction
    <2>4. applied[l] = 0 /\ lines[l].qty \in Int
      BY <1>1, <1>12, <2>1 DEF Owed, ReceiveLine, Line, Quantity
    <2>5. applied'[l] = Owed(l)'
      BY <1>2, <1>4, <1>12, <2>1, <2>2, <2>3, <2>4 DEF Owed, Received, ReceiveLine, LineStep
    <2> QED
      BY <2>3, <2>5, LineStepRest
  <1>13. ASSUME DeleteLine(l) PROVE Rest'
    <2>1. applied'[l] = 0 /\ \A m \in LineIds \ {l} : applied'[m] = applied[m]
      BY <1>10, <1>13 DEF DeleteLine
    <2>2. LineStep(l) /\ lines' = lines /\ tx'.op = "delete" /\ l \notin tx'.todo
      BY <1>2, <1>13, <2>1 DEF DeleteLine, LineStep, Done, TypeOK, Transaction
    <2>3. applied'[l] = Owed(l)'
      BY <1>2, <1>13, <2>1, <2>2 DEF Owed, DeleteLine, LineStep
    <2> QED
      BY <2>2, <2>3, LineStepRest
  <1> QED
    BY <1>5, <1>6, <1>7, <1>8, <1>9, <1>11, <1>12, <1>13

LEMMA EndRest == TypeOK /\ Rest /\ (Commit \/ Abort) => Rest'
  <1> SUFFICES ASSUME TypeOK, Rest, Commit \/ Abort PROVE Rest'
    OBVIOUS
  <1> USE IdsAssumption, AbsentAssumption
  <1>1. tx' = Idle
    BY DEF Commit, Abort
  <1>2. CASE Abort
    <2>1. /\ saved' = saved /\ saved = Snapshot'
          /\ lines' = saved.lines /\ orders' = saved.orders /\ applied' = saved.applied
      BY <1>2 DEF Abort, Snapshot, TypeOK, Tables
    <2>2. TxRooted'
      BY <1>1, <2>1 DEF TxRooted, Idle
    <2>3. LinesRooted'
      BY <2>1 DEF Rest, LinesRooted
    <2>4. Accounted' /\ SavedAccounted'
      BY <1>1, <2>1 DEF Rest, SavedAccounted, Accounted, Owed, Idle
    <2> QED
      BY <2>2, <2>3, <2>4 DEF Rest
  <1>3. CASE Commit
    <2>1. /\ saved'.lines = lines' /\ saved'.orders = orders' /\ saved'.applied = applied'
          /\ saved' = Snapshot' /\ applied' = applied
      BY <1>3 DEF Commit, Snapshot, KeepStock
    <2>2. TxRooted'
      BY <1>1, <2>1 DEF TxRooted, Idle
    <2>3. CASE tx.op = "delete"
      <3>1. /\ orders' = [orders EXCEPT ![tx.order] = None]
            /\ lines' = [l \in LineIds |-> IF l \in LinesOf(tx.order) THEN None ELSE lines[l]]
            /\ tx.todo = {}
        BY <1>3, <2>3 DEF Commit, DropOrder, Finished
      <3>2. LinesRooted'
        BY <2>1, <3>1 DEF Rest, LinesRooted, LinesOf, TypeOK, Line
      <3>3. ASSUME NEW l \in LineIds PROVE applied'[l] = Owed(l)'
        BY <1>1, <2>1, <2>3, <3>1
        DEF Rest, Accounted, Owed, LinesOf, Idle, TypeOK, Line
      <3>4. SavedAccounted'
        BY <1>1, <2>1, <3>3 DEF SavedAccounted, Owed, Idle
      <3> QED
        BY <2>2, <3>2, <3>3, <3>4 DEF Rest, Accounted
    <2>4. CASE tx.op # "delete"
      <3>1. UNCHANGED <<orders, lines>> /\ (tx.op = "receive" => tx.todo = {})
        BY <1>3, <2>4 DEF Commit, Finished, TypeOK, Transaction
      <3>2. LinesRooted'
        BY <2>1, <3>1 DEF Rest, LinesRooted
      <3>3. ASSUME NEW l \in LineIds PROVE applied'[l] = Owed(l)'
        BY <1>1, <2>1, <2>4, <3>1 DEF Rest, Accounted, Owed, Idle
      <3>4. SavedAccounted'
        BY <1>1, <2>1, <3>3 DEF SavedAccounted, Owed, Idle
      <3> QED
        BY <2>2, <3>2, <3>3, <3>4 DEF Rest, Accounted
    <2> QED
      BY <2>3, <2>4
  <1> QED
    BY <1>2, <1>3

LEMMA StepRest == TypeOK /\ Rest /\ [Next]_vars => Rest'
  <1> SUFFICES ASSUME TypeOK, Rest, [Next]_vars PROVE Rest'
    OBVIOUS
  <1>1. CASE UNCHANGED vars
    BY <1>1 DEF vars, Rest, TxRooted, LinesRooted, Accounted, Owed, SavedAccounted, Snapshot
  <1>2. CASE Next
    BY <1>2, AsideSteps, AsideRest, BeginRest, LineRest, EndRest DEF Next
  <1> QED
    BY <1>1, <1>2

-----------------------------------------------------------------------------
(* The theorems.                                                           *)

LEMMA Inductive == Spec => []IInv
  <1>1. Init => IInv
    BY InitTypeOK, InitRest DEF IInv, Rest
  <1>2. IInv /\ [Next]_vars => IInv'
    BY StepTypeOK, StepRest DEF IInv, Rest
  <1> QED
    BY <1>1, <1>2, PTL DEF Spec

\* Every variable always holds a value its column or its code can produce, for
\* any number of orders, lines, kits and items and any column width.
THEOREM TypeCorrect == Spec => []TypeOK
  <1>1. IInv => TypeOK
    BY DEF IInv
  <1> QED
    BY <1>1, Inductive, PTL

\* received_at is the sole proxy for stock applied: in the database a line's
\* units are in stock exactly when its order is received, whatever mix of
\* entries, edits, removals, receipts, undos and rollbacks came before.
THEOREM StockFollowsReceipt == Spec => []LineAccounted
  <1>1. IInv => LineAccounted
    BY DEF IInv, SavedAccounted, LineAccounted
  <1> QED
    BY <1>1, Inductive, PTL

-----------------------------------------------------------------------------
(* The stock ledger and the purchase record.  The invariants from here on   *)
(* are those of the tables as they stand, also in the middle of an order    *)
(* transaction, paired with the same of the tables as last committed.       *)

(* Stock explained.                                                        *)

\* What each line of the tables t has in item i, and what each application
\* took of it.
PutBy(t, i) ==
    [l \in LineIds |-> IF t.lines[l] # None /\ t.lines[l].ref = i THEN t.applied[l] ELSE 0]

UsedBy(t, i) ==
    [a \in AppIds |->
        IF t.apps[a] # None /\ t.apps[a].upgrade = i THEN t.apps[a].used ELSE 0]

Put(t, i) == SumFunctionOnSet(PutBy(t, i), LineIds)

Used(t, i) == SumFunctionOnSet(UsedBy(t, i), AppIds)

\* An item that is not there holds nothing and nothing was made of it.
ExplainedIn(t) ==
    \A i \in Items :
        IF t.stock[i] = None
        THEN /\ t.counted[i] = 0
             /\ \A a \in AppIds : t.apps[a] # None => t.apps[a].upgrade # i
        ELSE t.stock[i] = t.counted[i] + Put(t, i) - Used(t, i)

Explained == ExplainedIn(Snapshot) /\ ExplainedIn(saved)

\* The summands are natural numbers.
LEMMA SummandsNat ==
    ASSUME TypeOK, Accounted, NEW i
    PROVE  /\ PutBy(Snapshot, i) \in [LineIds -> Nat]
           /\ UsedBy(Snapshot, i) \in [AppIds -> Nat]
  <1>1. \A l \in LineIds : applied[l] \in Nat
    BY DEF TypeOK, Accounted, Owed, Line, Quantity
  <1>2. \A a \in AppIds : apps[a] # None => apps[a].used \in Nat
    BY DEF TypeOK, Application
  <1> QED
    BY <1>1, <1>2 DEF PutBy, UsedBy, Snapshot

LEMMA PutNat ==
    ASSUME TypeOK, Accounted, NEW i
    PROVE  Put(Snapshot, i) \in Nat /\ Used(Snapshot, i) \in Nat
  BY IdsAssumption, SummandsNat, SumNat DEF Put, Used

\* A step that changes one line changes what the lines put in by that line's
\* change; the same for applications.
LEMMA PutStep ==
    ASSUME TypeOK, Accounted, TypeOK', Accounted', NEW i, NEW l \in LineIds,
           \A m \in LineIds \ {l} : lines'[m] = lines[m] /\ applied'[m] = applied[m]
    PROVE  Put(Snapshot, i)' = Put(Snapshot, i) - PutBy(Snapshot, i)[l] + PutBy(Snapshot, i)'[l]
  <1> DEFINE f == PutBy(Snapshot, i)
             g == PutBy(Snapshot, i)'
  <1>1. f \in [LineIds -> Nat] /\ g \in [LineIds -> Nat]
    <2>1. (PutBy(Snapshot, i) \in [LineIds -> Nat])'
      BY SummandsNat, PTL
    <2> QED
      BY <2>1, SummandsNat
  <1>2. \A m \in LineIds \ {l} : f[m] = g[m]
    BY DEF PutBy, Snapshot
  <1> HIDE DEF f, g
  <1>3. SumFunctionOnSet(g, LineIds) = SumFunctionOnSet(f, LineIds) - f[l] + g[l]
    BY <1>1, <1>2, IdsAssumption, SumStep
  <1> QED
    BY <1>3 DEF f, g, Put
LEMMA UsedStep ==
    ASSUME TypeOK, Accounted, TypeOK', Accounted', NEW i, NEW a \in AppIds,
           \A b \in AppIds \ {a} : apps'[b] = apps[b]
    PROVE  Used(Snapshot, i)' =
              Used(Snapshot, i) - UsedBy(Snapshot, i)[a] + UsedBy(Snapshot, i)'[a]
  <1> DEFINE f == UsedBy(Snapshot, i)
             g == UsedBy(Snapshot, i)'
  <1>1. f \in [AppIds -> Nat] /\ g \in [AppIds -> Nat]
    <2>1. (UsedBy(Snapshot, i) \in [AppIds -> Nat])'
      BY SummandsNat, PTL
    <2> QED
      BY <2>1, SummandsNat
  <1>2. \A b \in AppIds \ {a} : f[b] = g[b]
    BY DEF UsedBy, Snapshot
  <1> HIDE DEF f, g
  <1>3. SumFunctionOnSet(g, AppIds) = SumFunctionOnSet(f, AppIds) - f[a] + g[a]
    BY <1>1, <1>2, IdsAssumption, SumStep
  <1> QED
    BY <1>3 DEF f, g, Used

\* Sums of tables that agree on the rows summed.
LEMMA SumsOf ==
    ASSUME NEW t, NEW s, NEW i
    PROVE  /\ t.lines = s.lines /\ t.applied = s.applied => Put(t, i) = Put(s, i)
           /\ t.apps = s.apps => Used(t, i) = Used(s, i)
  BY DEF Put, Used, PutBy, UsedBy

\* Nothing put in, or nothing used, sums to nothing.
LEMMA NothingPut ==
    ASSUME NEW i, ~OnOrderHistory(i)
    PROVE  Put(Snapshot, i) = 0
  <1>1. \A l \in LineIds : PutBy(Snapshot, i)[l] = 0
    BY DEF OnOrderHistory, PutBy, Snapshot
  <1>2. SumFunctionOnSet(PutBy(Snapshot, i), {}) = SumFunctionOnSet(PutBy(Snapshot, i), LineIds)
    BY <1>1, IdsAssumption, SumSupport
  <1> QED
    BY <1>2, SumEmpty DEF Put

LEMMA NothingUsed ==
    ASSUME NEW i, \A a \in AppIds : apps[a] # None => apps[a].upgrade # i
    PROVE  Used(Snapshot, i) = 0
  <1>1. \A a \in AppIds : UsedBy(Snapshot, i)[a] = 0
    BY DEF UsedBy, Snapshot
  <1>2. SumFunctionOnSet(UsedBy(Snapshot, i), {}) = SumFunctionOnSet(UsedBy(Snapshot, i), AppIds)
    BY <1>1, IdsAssumption, SumSupport
  <1> QED
    BY <1>2, SumEmpty DEF Used

\* What line l has in item i.
Part(l, i) == IF lines[l] # None /\ lines[l].ref = i THEN applied[l] ELSE 0

\* A line step keeps the ledger if each count moves by what the line moved, and
\* items only appear where nothing was.
LEMMA LineExplained ==
    ASSUME IInv, IInv', NEW l \in LineIds, Explained,
           \A m \in LineIds \ {l} : lines'[m] = lines[m] /\ applied'[m] = applied[m],
           saved' = saved, apps' = apps, counted' = counted,
           \A i \in Items :
              \/ stock[i] = None /\ stock'[i] = None
              \/ /\ stock[i] # None \/ FreshItem(i)
                 /\ stock'[i] # None
                 /\ stock'[i] = OnHand(i) - Part(l, i) + Part(l, i)'
    PROVE  Explained'
  <1>1. TypeOK /\ Accounted /\ TypeOK' /\ Accounted'
    BY DEF IInv
  <1>2. ExplainedIn(saved)'
    BY <1>1 DEF Explained, ExplainedIn, Put, PutBy, Used, UsedBy
  <1>3. ASSUME NEW i \in Items
        PROVE  IF stock'[i] = None
               THEN counted'[i] = 0 /\ \A a \in AppIds : apps'[a] # None => apps'[a].upgrade # i
               ELSE stock'[i] = counted'[i] + Put(Snapshot, i)' - Used(Snapshot, i)'
    <2>1. CASE stock'[i] = None
      BY <2>1 DEF Explained, ExplainedIn, Snapshot
    <2>2. CASE stock'[i] # None
      <3>1. OnHand(i) = counted[i] + Put(Snapshot, i) - Used(Snapshot, i)
        <4>1. CASE stock[i] # None
          BY <4>1 DEF Explained, ExplainedIn, Snapshot, OnHand
        <4>2. CASE stock[i] = None
          <5>1. FreshItem(i)
            BY <2>2, <4>2
          <5>2. counted[i] = 0 /\ \A a \in AppIds : apps[a] # None => apps[a].upgrade # i
            BY <4>2 DEF Explained, ExplainedIn, Snapshot
          <5>3. Put(Snapshot, i) = 0 /\ Used(Snapshot, i) = 0
            BY <5>1, <5>2, NothingPut, NothingUsed DEF FreshItem
          <5> QED
            BY <4>2, <5>2, <5>3 DEF OnHand
        <4> QED
          BY <4>1, <4>2
      <3>2. Put(Snapshot, i)' = Put(Snapshot, i) - Part(l, i) + Part(l, i)'
        <4>1. Part(l, i) = PutBy(Snapshot, i)[l] /\ Part(l, i)' = PutBy(Snapshot, i)'[l]
          BY DEF Part, PutBy, Snapshot
        <4> QED
          BY <1>1, <4>1, PutStep
      <3>3. Used(Snapshot, i)' = Used(Snapshot, i)
        BY DEF Used, UsedBy, Snapshot
      <3>4. stock'[i] = OnHand(i) - Part(l, i) + Part(l, i)'
        BY <2>2
      <3>5. /\ Put(Snapshot, i) \in Nat /\ Used(Snapshot, i) \in Nat
            /\ counted[i] \in Int /\ OnHand(i) \in Int
        BY <1>1, PutNat DEF TypeOK, OnHand
      <3>6. Part(l, i) \in Nat /\ Part(l, i)' \in Nat
        BY <1>1 DEF Part, Accounted, Owed, TypeOK, Line, Quantity
      <3> QED
        BY <2>2, <3>1, <3>2, <3>3, <3>4, <3>5, <3>6
    <2> QED
      BY <2>1, <2>2
  <1> QED
    BY <1>2, <1>3 DEF Explained, ExplainedIn, Snapshot

LEMMA AsideExplained == IInv /\ IInv' /\ Explained /\ (KitNext \/ CatalogNext \/ UpgradeNext)
                          => Explained'
  <1> SUFFICES ASSUME IInv, IInv', Explained, KitNext \/ CatalogNext \/ UpgradeNext
               PROVE  Explained'
    OBVIOUS
  <1> USE IdsAssumption, AbsentAssumption
  <1>1. Aside /\ TypeOK /\ Accounted /\ TypeOK' /\ Accounted'
    BY AsideSteps DEF IInv
  <1>2. \A i \in Items : /\ Put(Snapshot, i)' = Put(Snapshot, i)
                         /\ Put(Snapshot, i) \in Nat /\ Used(Snapshot, i) \in Nat
    BY <1>1, PutNat DEF Aside, Put, PutBy, Snapshot
  <1>3. ExplainedIn(Snapshot)' => Explained'
    BY <1>1 DEF Aside, Explained
  <1>4. ASSUME apps' = apps,
               \A i \in Items :
                  \/ stock'[i] = stock[i] /\ counted'[i] = counted[i]
                  \/ FreshItem(i) /\ stock'[i] # None /\ counted'[i] = stock'[i]
                  \/ /\ stock[i] # None /\ stock'[i] # None
                     /\ counted'[i] = counted[i] + stock'[i] - stock[i]
                  \/ /\ stock'[i] = None /\ counted'[i] = 0
                     /\ \A a \in AppIds : apps[a] # None => apps[a].upgrade # i
        PROVE  Explained'
    <2>1. ASSUME NEW i \in Items
          PROVE  IF stock'[i] = None
                 THEN counted'[i] = 0 /\ \A a \in AppIds : apps'[a] # None => apps'[a].upgrade # i
                 ELSE stock'[i] = counted'[i] + Put(Snapshot, i)' - Used(Snapshot, i)'
      <3>1. Used(Snapshot, i)' = Used(Snapshot, i)
        BY <1>4 DEF Used, UsedBy, Snapshot
      <3>2. /\ stock[i] # None => stock[i] \in Int
            /\ stock'[i] # None => stock'[i] \in Int
            /\ counted[i] \in Int
        BY <1>1 DEF TypeOK
      <3>3. IF stock[i] = None
            THEN counted[i] = 0 /\ \A a \in AppIds : apps[a] # None => apps[a].upgrade # i
            ELSE stock[i] = counted[i] + Put(Snapshot, i) - Used(Snapshot, i)
        BY DEF Explained, ExplainedIn, Snapshot
      <3>4. CASE FreshItem(i) /\ stock'[i] # None /\ counted'[i] = stock'[i]
        <4>1. Put(Snapshot, i) = 0 /\ Used(Snapshot, i) = 0
          BY <3>3, <3>4, NothingPut, NothingUsed DEF FreshItem
        <4> QED
          BY <1>2, <3>1, <3>2, <3>4, <4>1
      <3> QED
        BY <1>2, <1>4, <3>1, <3>2, <3>3, <3>4
    <2> QED
      BY <1>3, <2>1 DEF ExplainedIn, Snapshot
  <1>5. ASSUME NEW k \in KitIds, NEW stage \in KitStage, CreateKit(k, stage) PROVE Explained'
    BY <1>4, <1>5 DEF CreateKit, KeepStock
  <1>6. ASSUME NEW k \in KitIds, NEW stage \in KitStage, NEW rated \in BOOLEAN,
               UpdateKit(k, stage, rated)
        PROVE  Explained'
    BY <1>4, <1>6 DEF UpdateKit, KeepStock
  <1>7. ASSUME NEW k \in KitIds, DeleteKit(k) PROVE Explained'
    <2>1. apps' = apps
      BY <1>1, <1>7 DEF DeleteKit, DropKits, HasAppliedUpgrades, TypeOK
    <2> QED
      BY <1>4, <1>7, <2>1 DEF DeleteKit, KeepStock
  <1>8. ASSUME NEW i \in Items, NEW n \in 0..MaxInt4, CreateItem(i, n) PROVE Explained'
    BY <1>1, <1>4, <1>8 DEF CreateItem, TypeOK
  <1>9. ASSUME NEW i \in Items, NEW delta \in -MaxInt4..MaxInt4, AdjustStock(i, delta)
        PROVE  Explained'
    <2>1. stock[i] \in Int /\ counted[i] \in Int /\ stock[i] + delta \in 0..MaxInt4
      BY <1>1, <1>9 DEF AdjustStock, TypeOK, FitsStock
    <2>2. /\ stock'[i] = stock[i] + delta /\ counted'[i] = counted[i] + delta
          /\ \A j \in Items \ {i} : stock'[j] = stock[j] /\ counted'[j] = counted[j]
      BY <1>1, <1>9 DEF AdjustStock, TypeOK
    <2>3. counted'[i] = counted[i] + stock'[i] - stock[i] /\ stock'[i] # None
      BY <2>1, <2>2, BoundsAssumption
    <2> QED
      BY <1>4, <1>9, <2>2, <2>3 DEF AdjustStock
  <1>10. ASSUME NEW i \in Items, NEW n \in 0..MaxInt4, UpdateItem(i, n) PROVE Explained'
    <2>1. n # None
      BY BoundsAssumption
    <2>2. /\ stock[i] # None /\ stock'[i] = n /\ counted'[i] = counted[i] + n - stock[i]
          /\ \A j \in Items \ {i} : stock'[j] = stock[j] /\ counted'[j] = counted[j]
      BY <1>1, <1>10 DEF UpdateItem, TypeOK
    <2> QED
      BY <1>4, <1>10, <2>1, <2>2 DEF UpdateItem
  <1>11. ASSUME NEW i \in Items, DeleteItem(i) PROVE Explained'
    <2>1. apps' = apps
      BY <1>1, <1>11 DEF DeleteItem, TypeOK
    <2> QED
      BY <1>1, <1>4, <1>11, <2>1 DEF DeleteItem, TypeOK
  <1>12. ASSUME NEW a \in AppIds, NEW u \in Items,
                \A b \in AppIds \ {a} : apps'[b] = apps[b],
                \A i \in Items \ {u} : stock'[i] = stock[i] /\ counted'[i] = counted[i],
                \A i \in Items \ {u} : UsedBy(Snapshot, i)'[a] = UsedBy(Snapshot, i)[a],
                \A i \in Items \ {u} : stock[i] = None =>
                    \A b \in AppIds : apps'[b] # None => apps'[b].upgrade # i,
                stock[u] # None, stock'[u] # None,
                stock'[u] = stock[u] + (counted'[u] - counted[u])
                               + UsedBy(Snapshot, u)[a] - UsedBy(Snapshot, u)'[a]
         PROVE  Explained'
    <2>1. ASSUME NEW i \in Items
          PROVE  IF stock'[i] = None
                 THEN counted'[i] = 0 /\ \A b \in AppIds : apps'[b] # None => apps'[b].upgrade # i
                 ELSE stock'[i] = counted'[i] + Put(Snapshot, i)' - Used(Snapshot, i)'
      <3>1. Used(Snapshot, i)' =
               Used(Snapshot, i) - UsedBy(Snapshot, i)[a] + UsedBy(Snapshot, i)'[a]
        BY <1>1, <1>12, UsedStep
      <3>2. /\ UsedBy(Snapshot, i)[a] \in Nat
            /\ UsedBy(Snapshot, i)'[a] \in Nat
        <4>1. (UsedBy(Snapshot, i) \in [AppIds -> Nat])'
          BY <1>1, SummandsNat, PTL
        <4> QED
          BY <1>1, <4>1, SummandsNat
      <3>3. /\ stock[i] # None => stock[i] \in Int
            /\ stock'[i] # None => stock'[i] \in Int
            /\ counted[i] \in Int /\ counted'[i] \in Int
        BY <1>1 DEF TypeOK
      <3>4. IF stock[i] = None
            THEN counted[i] = 0 /\ \A b \in AppIds : apps[b] # None => apps[b].upgrade # i
            ELSE stock[i] = counted[i] + Put(Snapshot, i) - Used(Snapshot, i)
        BY DEF Explained, ExplainedIn, Snapshot
      <3>5. CASE i = u
        <4> HIDE DEF Put, Used
        <4> QED
          BY <1>2, <1>12, <3>1, <3>2, <3>3, <3>4, <3>5
      <3>6. CASE i # u
        <4>1. stock'[i] = stock[i] /\ counted'[i] = counted[i]
          BY <1>12, <3>6
        <4>2. Used(Snapshot, i)' = Used(Snapshot, i)
          BY <1>2, <1>12, <3>1, <3>2, <3>6
        <4> QED
          BY <1>2, <1>12, <3>4, <3>6, <4>1, <4>2
      <3> QED
        BY <3>5, <3>6
    <2> QED
      BY <1>3, <2>1 DEF ExplainedIn, Snapshot
  <1>13. ASSUME NEW a \in AppIds, NEW u \in Upgrades, NEW k \in KitIds, NEW q \in 1..MaxInt4,
                ApplyUpgrade(a, u, k, q)
         PROVE  Explained'
    <2> DEFINE row == [upgrade |-> u, kit |-> k, used |-> q]
    <2>1. u \in Items /\ row # None
      BY DEF Items, Application
    <2>2. /\ apps[a] = None /\ apps'[a] = row
          /\ \A b \in AppIds \ {a} : apps'[b] = apps[b]
      BY <1>1, <1>13 DEF ApplyUpgrade, TypeOK
    <2>3. /\ stock[u] # None /\ stock'[u] = stock[u] - q /\ counted' = counted
          /\ \A i \in Items \ {u} : stock'[i] = stock[i]
          /\ stock[u] \in Int /\ stock[u] >= q
      BY <1>1, <1>13, <2>1 DEF ApplyUpgrade, TypeOK
    <2>4. \A i \in Items : UsedBy(Snapshot, i)[a] = 0
      BY <2>2 DEF UsedBy, Snapshot
    <2>5. \A i \in Items : UsedBy(Snapshot, i)'[a] = IF i = u THEN q ELSE 0
      BY <2>1, <2>2 DEF UsedBy, Snapshot
    <2>6. \A i \in Items \ {u} : stock[i] = None =>
             \A b \in AppIds : apps'[b] # None => apps'[b].upgrade # i
      BY <2>2 DEF Explained, ExplainedIn, Snapshot
    <2>7. counted[u] \in Int /\ q \in Int
      BY <1>1, <2>1 DEF TypeOK
    <2>8. stock'[u] = stock[u] + (counted'[u] - counted[u]) + 0 - q /\ stock'[u] # None
      BY <2>3, <2>7
    <2> HIDE DEF row
    <2> QED
      BY <1>12, <2>1, <2>2, <2>3, <2>4, <2>5, <2>6, <2>8
  <1>14. ASSUME NEW a \in AppIds, NEW restore \in BOOLEAN, Withdraw(a, restore)
         PROVE  Explained'
    <2> DEFINE u == apps[a].upgrade
               q == apps[a].used
    <2>1. apps[a] # None /\ u \in Items /\ q \in Int
      BY <1>1, <1>14 DEF Withdraw, TypeOK, Application, Items
    <2>2. /\ apps'[a] = None
          /\ \A b \in AppIds \ {a} : apps'[b] = apps[b]
      BY <1>1, <1>14 DEF Withdraw, TypeOK
    <2>3. /\ stock[u] # None /\ stock[u] \in Int /\ counted[u] \in Int
      BY <1>1, <1>14, <2>1 DEF Withdraw, TypeOK
    <2>4. /\ \A i \in Items \ {u} : stock'[i] = stock[i] /\ counted'[i] = counted[i]
          /\ IF restore THEN stock'[u] = stock[u] + q /\ counted'[u] = counted[u]
             ELSE stock'[u] = stock[u] /\ counted'[u] = counted[u] - q
      BY <1>1, <1>14, <2>1 DEF Withdraw, TypeOK
    <2>5. /\ \A i \in Items : UsedBy(Snapshot, i)[a] = IF i = u THEN q ELSE 0
          /\ \A i \in Items : UsedBy(Snapshot, i)'[a] = 0
      BY <2>1, <2>2 DEF UsedBy, Snapshot
    <2>6. \A i \in Items \ {u} : stock[i] = None =>
             \A b \in AppIds : apps'[b] # None => apps'[b].upgrade # i
      BY <2>2 DEF Explained, ExplainedIn, Snapshot
    <2> HIDE DEF u, q
    <2>7. stock'[u] = stock[u] + (counted'[u] - counted[u]) + q - 0 /\ stock'[u] # None
      BY <2>1, <2>3, <2>4
    <2> QED
      BY <1>12, <2>1, <2>2, <2>3, <2>4, <2>5, <2>6, <2>7
  <1> QED
    BY <1>5, <1>6, <1>7, <1>8, <1>9, <1>10, <1>11, <1>13, <1>14
    DEF KitNext, CatalogNext, UpgradeNext

\* Deleting a line's unprogressed kits takes no application with it.
LEMMA DeleteLineKitsApps ==
    ASSUME TypeOK, NEW l \in LineIds, NEW count, DeleteLineKits(l, count)
    PROVE  apps' = apps
  BY DEF TypeOK, DeleteLineKits, DropKits, KitProgressed, HasAppliedUpgrades

\* Undoing a line takes out of stock what the line has in it, or finds the item
\* gone.
LEMMA UndoLineMoves ==
    ASSUME IInv, NEW l \in LineIds, NEW ok \in BOOLEAN, l \in tx.todo, UndoLine(l, ok),
           tx.op \in {"update", "prune", "delete"}
    PROVE  /\ apps' = apps /\ counted' = counted
           /\ applied'[l] = 0
           /\ \A m \in LineIds \ {l} : applied'[m] = applied[m]
           /\ \A i \in Items :
                 \/ stock[i] = None /\ stock'[i] = None
                 \/ /\ stock[i] # None /\ stock'[i] # None
                    /\ stock'[i] = OnHand(i) - Part(l, i)
  <1> USE IdsAssumption, BoundsAssumption, AbsentAssumption
  <1>1. /\ TypeOK /\ lines[l] # None /\ lines[l] \in Line
        /\ applied[l] = Owed(l) /\ lines[l].qty \in Nat /\ lines[l].order = tx.order
    BY DEF IInv, TxRooted, TypeOK, Accounted, Line, Quantity
  <1>2. applied[l] = IF lines[l].ref # None /\ Received THEN lines[l].qty ELSE 0
    BY <1>1 DEF Owed, Received
  <1>3. \A i \in Items : i # None /\ (stock[i] # None => stock[i] \in Int)
    BY <1>1 DEF TypeOK, Items
  <1>4. CASE lines[l].ref = None
    <2>1. apps' = apps /\ UNCHANGED <<stock, applied, counted>>
      BY <1>1, <1>4, DeleteLineKitsApps DEF UndoLine, KeepStock
    <2>2. \A i \in Items : Part(l, i) = 0
      BY <1>3, <1>4 DEF Part
    <2> QED
      BY <1>2, <1>3, <1>4, <2>1, <2>2 DEF OnHand
  <1>5. CASE lines[l].ref # None /\ ~Received
    <2>1. UNCHANGED <<apps, stock, applied, counted>>
      BY <1>5 DEF UndoLine
    <2>2. \A i \in Items : Part(l, i) = 0
      BY <1>2, <1>5 DEF Part
    <2> QED
      BY <1>2, <1>3, <1>5, <2>1, <2>2 DEF OnHand
  <1>6. CASE lines[l].ref # None /\ Received
    <2>1. UNCHANGED <<apps, counted>>
      BY <1>6 DEF UndoLine
    <2>2. CASE AdjustRef(l, lines[l].ref, -lines[l].qty)
      <3>1. lines[l].ref \in Items
        BY <1>1, <1>6 DEF Line
      <3>2. /\ applied'[l] = 0 /\ \A m \in LineIds \ {l} : applied'[m] = applied[m]
            /\ stock[lines[l].ref] # None
            /\ stock'[lines[l].ref] = stock[lines[l].ref] - lines[l].qty
            /\ \A i \in Items \ {lines[l].ref} : stock'[i] = stock[i]
        BY <1>1, <1>2, <1>3, <1>6, <2>2, <3>1 DEF AdjustRef, TypeOK
      <3>3. \A i \in Items : Part(l, i) = IF i = lines[l].ref THEN lines[l].qty ELSE 0
        BY <1>1, <1>2, <1>6 DEF Part
      <3>4. stock'[lines[l].ref] # None
        BY <1>1, <1>3, <3>1, <3>2
      <3> QED
        BY <1>3, <2>1, <3>1, <3>2, <3>3, <3>4 DEF OnHand
    <2>3. CASE /\ stock[lines[l].ref] = None
               /\ applied' = [applied EXCEPT ![l] = 0]
               /\ UNCHANGED stock
      <3>1. applied'[l] = 0 /\ \A m \in LineIds \ {l} : applied'[m] = applied[m]
        BY <1>1, <2>3 DEF TypeOK
      <3>2. \A i \in Items : stock[i] # None => Part(l, i) = 0
        BY <2>3 DEF Part
      <3> QED
        BY <1>3, <2>1, <2>3, <3>1, <3>2 DEF OnHand
    <2> QED
      BY <1>6, <2>2, <2>3 DEF UndoLine
  <1> QED
    BY <1>4, <1>5, <1>6

LEMMA LineNextExplained == IInv /\ IInv' /\ Explained /\ LineNext => Explained'
  <1> SUFFICES ASSUME IInv, IInv', Explained, NEW l \in LineIds,
                      \/ \E q \in Quantity, stage \in KitStage : AddKitLine(l, q, stage)
                      \/ \E q \in Quantity, i \in Items : AddStockLine(l, i, q)
                      \/ \E q \in Quantity, stage \in KitStage : EditKitLine(l, q, stage)
                      \/ \E q \in Quantity : EditStockLine(l, q)
                      \/ \E q \in Quantity, i \in Items : RetargetLine(l, i, q)
                      \/ RemoveLine(l)
                      \/ ReceiveLine(l)
                      \/ DeleteLine(l)
               PROVE  Explained'
    BY DEF LineNext
  <1> USE IdsAssumption, BoundsAssumption, AbsentAssumption
  <1>1. /\ TypeOK /\ TypeOK'
        /\ applied[l] = Owed(l) /\ applied[l] \in Int
    BY DEF IInv, Accounted, TypeOK
  <1>2. l \in tx.todo => lines[l] \in Line /\ lines[l] # None /\ lines[l].order = tx.order
    BY DEF IInv, TxRooted, TypeOK
  <1>3. \A i \in Items : i # None /\ (stock[i] # None => stock[i] \in Int)
    BY <1>1 DEF TypeOK, Items
  <1>4. tx.op # "idle" => Received \in BOOLEAN
    BY DEF IInv, TypeOK, TxRooted, Transaction, Received, Order
  <1>5. ASSUME saved' = saved, apps' = apps, counted' = counted, stock' = stock,
               \A m \in LineIds \ {l} : lines'[m] = lines[m] /\ applied'[m] = applied[m],
               \A i \in Items : Part(l, i)' = Part(l, i)
        PROVE  Explained'
    <2>1. \A i \in Items : Part(l, i) \in Int
      BY <1>1 DEF Part
    <2>2. \A i \in Items : stock[i] # None => stock'[i] = OnHand(i) - Part(l, i) + Part(l, i)'
      BY <1>3, <1>5, <2>1 DEF OnHand
    <2> QED
      BY <1>3, <1>5, <2>2, LineExplained
  <1>6. ASSUME NEW q \in Quantity, NEW stage \in KitStage, AddKitLine(l, q, stage)
        PROVE  Explained'
    <2>1. /\ lines[l] = None /\ lines'[l].ref = None
          /\ \A m \in LineIds \ {l} : lines'[m] = lines[m]
      BY <1>1, <1>6 DEF AddKitLine, TypeOK
    <2>2. \A i \in Items : Part(l, i) = 0 /\ Part(l, i)' = 0
      BY <1>3, <2>1 DEF Part
    <2> QED
      BY <1>5, <1>6, <2>1, <2>2 DEF AddKitLine, KeepStock, Name
  <1>7. ASSUME NEW q \in Quantity, NEW i \in Items, AddStockLine(l, i, q)
        PROVE  Explained'
    <2> DEFINE row == [order |-> tx.order, ref |-> i, qty |-> q]
               put == IF Received THEN q ELSE 0
    <2>1. tx.op # "idle" /\ tx.order \in OrderIds
      BY <1>1, <1>7 DEF AddStockLine, TypeOK, IInv, TxRooted, Transaction
    <2>2. row # None
      BY <1>1, <1>7, <2>1 DEF TypeOK, Line
    <2>3. /\ lines[l] = None /\ lines'[l] = row /\ applied'[l] = put
          /\ \A m \in LineIds \ {l} : lines'[m] = lines[m] /\ applied'[m] = applied[m]
      BY <1>1, <1>7 DEF AddStockLine, TypeOK
    <2>4. \A j \in Items : Part(l, j) = 0 /\ Part(l, j)' = IF j = i THEN put ELSE 0
      BY <2>2, <2>3 DEF Part
    <2>5. /\ stock'[i] = OnHand(i) + put
          /\ OnHand(i) + put \in 0..MaxInt4 /\ (stock[i] # None \/ FreshItem(i))
          /\ \A j \in Items \ {i} : stock'[j] = stock[j]
      BY <1>1, <1>7 DEF AddStockLine, TypeOK, FitsStock, Nameable
    <2>6. put \in Int /\ \A j \in Items : OnHand(j) \in Int /\ (stock[j] # None => OnHand(j) = stock[j])
      BY <1>3, <1>4, <2>1 DEF OnHand, Quantity
    <2> HIDE DEF put, row
    <2>7. ASSUME NEW j \in Items
          PROVE  \/ stock[j] = None /\ stock'[j] = None
                 \/ /\ stock[j] # None \/ FreshItem(j)
                    /\ stock'[j] # None
                    /\ stock'[j] = OnHand(j) - Part(l, j) + Part(l, j)'
      <3>1. CASE j = i
        BY <2>4, <2>5, <2>6, <3>1
      <3>2. CASE j # i
        BY <2>4, <2>5, <2>6, <3>2
      <3> QED
        BY <3>1, <3>2
    <2> QED
      BY <1>7, <2>3, <2>7, LineExplained DEF AddStockLine, Name
  <1>8. ASSUME NEW q \in Quantity, NEW stage \in KitStage, EditKitLine(l, q, stage)
        PROVE  Explained'
    <2>1. apps' = apps
      BY <1>1, <1>8, DeleteLineKitsApps DEF EditKitLine
    <2>2. /\ lines[l].ref = None /\ lines'[l].ref = None
          /\ \A m \in LineIds \ {l} : lines'[m] = lines[m]
      <3>1. lines[l] \in Line /\ lines'[l] = [lines[l] EXCEPT !.qty = q]
        BY <1>1, <1>2, <1>8 DEF EditKitLine, TypeOK
      <3> QED
        BY <1>1, <1>8, <3>1 DEF EditKitLine, TypeOK, Line
    <2>3. \A i \in Items : Part(l, i) = 0 /\ Part(l, i)' = 0
      BY <1>3, <2>2 DEF Part
    <2> QED
      BY <1>5, <1>8, <2>1, <2>2, <2>3 DEF EditKitLine, KeepStock, Name
  <1>9. ASSUME NEW q \in Quantity, EditStockLine(l, q)
        PROVE  Explained'
    <2> DEFINE ref == lines[l].ref
               delta == q - lines[l].qty
    <2>1. lines[l] \in Line /\ lines[l] # None /\ ref \in Items /\ delta \in Int
      BY <1>2, <1>9 DEF EditStockLine, Line, Quantity
    <2>2. /\ lines'[l] = [lines[l] EXCEPT !.qty = q]
          /\ \A m \in LineIds \ {l} : lines'[m] = lines[m]
      BY <1>1, <1>9 DEF EditStockLine, TypeOK
    <2>3. lines'[l] # None /\ lines'[l].ref = ref
      BY <2>1, <2>2 DEF Line
    <2>4. CASE Received /\ q # lines[l].qty
      <3>1. /\ stock[ref] # None
            /\ FitsStock(stock[ref] + delta)
            /\ stock' = [stock EXCEPT ![ref] = @ + delta]
            /\ applied' = [applied EXCEPT ![l] = @ + delta]
        BY <1>9, <2>4 DEF EditStockLine, AdjustRef
      <3>2. /\ stock'[ref] = stock[ref] + delta /\ stock'[ref] # None
            /\ \A j \in Items \ {ref} : stock'[j] = stock[j]
            /\ applied'[l] = applied[l] + delta
            /\ \A m \in LineIds \ {l} : applied'[m] = applied[m]
        BY <1>1, <1>3, <2>1, <3>1 DEF TypeOK, FitsStock
      <3>3. \A j \in Items : /\ Part(l, j) = IF j = ref THEN applied[l] ELSE 0
                             /\ Part(l, j)' = IF j = ref THEN applied[l] + delta ELSE 0
        BY <2>1, <2>3, <3>2 DEF Part
      <3> HIDE DEF ref, delta
      <3>4. ASSUME NEW j \in Items
            PROVE  \/ stock[j] = None /\ stock'[j] = None
                   \/ /\ stock[j] # None \/ FreshItem(j)
                      /\ stock'[j] # None
                      /\ stock'[j] = OnHand(j) - Part(l, j) + Part(l, j)'
        BY <1>1, <1>3, <2>1, <3>1, <3>2, <3>3 DEF OnHand
      <3> QED
        BY <1>9, <2>2, <3>2, <3>4, LineExplained DEF EditStockLine, Name
    <2>5. CASE ~(Received /\ q # lines[l].qty)
      <3>1. UNCHANGED <<stock, applied>>
        BY <1>9, <2>5 DEF EditStockLine
      <3>2. \A j \in Items : Part(l, j)' = Part(l, j)
        BY <2>1, <2>3, <3>1 DEF Part
      <3> QED
        BY <1>5, <1>9, <2>2, <3>1, <3>2 DEF EditStockLine, Name
    <2> QED
      BY <2>4, <2>5
  <1>10. ASSUME NEW q \in Quantity, NEW i \in Items, RetargetLine(l, i, q)
         PROVE  Explained'
    <2> DEFINE old == lines[l].ref
               qty == lines[l].qty
    <2>1. /\ lines[l] \in Line /\ lines[l] # None /\ lines[l].order = tx.order
          /\ old \in Items /\ old # i /\ qty \in Int /\ q \in Int /\ tx.op = "update"
      BY <1>2, <1>10 DEF RetargetLine, Line, Quantity
    <2>2. lines'[l] # None /\ lines'[l].ref = i
      <3>1. lines' = [lines EXCEPT ![l].ref = i, ![l].qty = q]
        BY <1>10 DEF RetargetLine
      <3>2. lines'[l] = [lines[l] EXCEPT !.ref = i, !.qty = q]
        BY <1>1, <2>1, <3>1 DEF TypeOK, Line
      <3> QED
        BY <2>1, <3>2 DEF Line
    <2>3. \A m \in LineIds \ {l} : lines'[m] = lines[m] /\ applied'[m] = applied[m]
      BY <1>1, <1>10 DEF RetargetLine, TypeOK
    <2>4. stock[i] # None \/ FreshItem(i)
      BY <1>10 DEF RetargetLine, Nameable
    <2>5. \A j \in Items : OnHand(j) \in Int /\ (stock[j] # None => OnHand(j) = stock[j])
      BY <1>3 DEF OnHand
    <2>6. /\ \A j \in Items : Part(l, j) = IF j = old THEN applied[l] ELSE 0
          /\ \A j \in Items : Part(l, j)' = IF j = i THEN applied'[l] ELSE 0
      BY <2>1, <2>2 DEF Part
    <2>7. CASE Received
      <3>1. applied[l] = qty
        BY <1>1, <1>3, <2>1, <2>7 DEF Owed, Received
      <3>2. /\ stock[old] # None
            /\ stock[old] - qty \in 0..MaxInt4 /\ OnHand(i) + q \in 0..MaxInt4
            /\ stock' = [stock EXCEPT ![old] = @ - qty, ![i] = OnHand(i) + q]
            /\ applied'[l] = q
        BY <1>1, <1>10, <2>7 DEF RetargetLine, FitsStock, TypeOK
      <3>3. /\ stock'[old] = stock[old] - qty /\ stock'[i] = OnHand(i) + q
            /\ stock'[old] # None /\ stock'[i] # None
            /\ \A j \in Items \ {old, i} : stock'[j] = stock[j]
        BY <1>1, <2>1, <3>2 DEF TypeOK
      <3> HIDE DEF old, qty
      <3>4. ASSUME NEW j \in Items
            PROVE  \/ stock[j] = None /\ stock'[j] = None
                   \/ /\ stock[j] # None \/ FreshItem(j)
                      /\ stock'[j] # None
                      /\ stock'[j] = OnHand(j) - Part(l, j) + Part(l, j)'
        <4>1. CASE j = old
          <5>1. OnHand(j) \in Int /\ Part(l, j) = qty /\ Part(l, j)' = 0
            BY <2>1, <2>5, <2>6, <3>1, <4>1
          <5>2. stock'[j] = OnHand(j) - qty
            BY <2>1, <2>5, <3>2, <3>3, <4>1
          <5> QED
            BY <2>1, <3>2, <3>3, <4>1, <5>1, <5>2
        <4>2. CASE j = i
          <5>1. OnHand(j) \in Int /\ Part(l, j) = 0 /\ Part(l, j)' = q
            BY <2>1, <2>5, <2>6, <3>2, <4>2
          <5> QED
            BY <2>1, <2>4, <3>3, <4>2, <5>1
        <4>3. CASE j \notin {old, i}
          BY <1>3, <2>5, <2>6, <3>3, <4>3
        <4> QED
          BY <4>1, <4>2, <4>3
      <3> QED
        BY <1>10, <2>3, <3>4, LineExplained DEF RetargetLine, Name
    <2>8. CASE ~Received
      <3>1. applied[l] = 0
        BY <1>1, <2>1, <2>8 DEF Owed, Received
      <3>2. stock' = [stock EXCEPT ![i] = OnHand(i)] /\ applied'[l] = 0
        BY <1>10, <2>8, <3>1 DEF RetargetLine
      <3>3. stock'[i] = OnHand(i) /\ \A j \in Items \ {i} : stock'[j] = stock[j]
        BY <1>1, <3>2 DEF TypeOK
      <3> HIDE DEF old, qty
      <3>4. ASSUME NEW j \in Items
            PROVE  \/ stock[j] = None /\ stock'[j] = None
                   \/ /\ stock[j] # None \/ FreshItem(j)
                      /\ stock'[j] # None
                      /\ stock'[j] = OnHand(j) - Part(l, j) + Part(l, j)'
        BY <1>3, <2>1, <2>4, <2>5, <2>6, <3>1, <3>2, <3>3
      <3> QED
        BY <1>10, <2>3, <3>4, LineExplained DEF RetargetLine, Name
    <2> QED
      BY <1>4, <2>1, <2>7, <2>8
  <1>11. ASSUME NEW ok \in BOOLEAN, UndoLine(l, ok), l \in tx.todo,
                tx.op \in {"update", "prune", "delete"}, saved' = saved,
                \A m \in LineIds \ {l} : lines'[m] = lines[m]
         PROVE  Explained'
    <2>1. /\ apps' = apps /\ counted' = counted /\ applied'[l] = 0
          /\ \A m \in LineIds \ {l} : applied'[m] = applied[m]
          /\ \A i \in Items :
                \/ stock[i] = None /\ stock'[i] = None
                \/ /\ stock[i] # None /\ stock'[i] # None
                   /\ stock'[i] = OnHand(i) - Part(l, i)
      BY <1>11, UndoLineMoves
    <2>2. \A i \in Items : Part(l, i)' = 0 /\ Part(l, i) \in Int /\ OnHand(i) \in Int
      BY <1>1, <1>3, <2>1 DEF Part, OnHand
    <2>3. \A i \in Items :
             \/ stock[i] = None /\ stock'[i] = None
             \/ /\ stock[i] # None \/ FreshItem(i)
                /\ stock'[i] # None
                /\ stock'[i] = OnHand(i) - Part(l, i) + Part(l, i)'
      BY <2>1, <2>2
    <2> QED
      BY <1>11, <2>1, <2>3, LineExplained
  <1>12. ASSUME RemoveLine(l) PROVE Explained'
    BY <1>1, <1>11, <1>12 DEF RemoveLine, TypeOK
  <1>13. ASSUME DeleteLine(l) PROVE Explained'
    BY <1>11, <1>13 DEF DeleteLine, Done
  <1>14. ASSUME ReceiveLine(l) PROVE Explained'
    <2> DEFINE ref == lines[l].ref
               qty == lines[l].qty
    <2>1. /\ lines[l] \in Line /\ lines[l] # None /\ qty \in Int
          /\ lines' = lines /\ apps' = apps /\ saved' = saved
      BY <1>2, <1>14 DEF ReceiveLine, Done, Line, Quantity
    <2>2. CASE ref = None
      <3>1. UNCHANGED <<stock, applied, counted>>
        BY <1>14, <2>2 DEF ReceiveLine, KeepStock
      <3> QED
        BY <1>5, <2>1, <3>1 DEF Part
    <2>3. CASE ref # None
      <3>1. ref \in Items /\ counted' = counted /\ AdjustRef(l, ref, qty)
        BY <1>14, <2>1, <2>3 DEF ReceiveLine, Line
      <3>2. /\ stock[ref] # None
            /\ stock'[ref] = stock[ref] + qty /\ stock'[ref] # None
            /\ \A j \in Items \ {ref} : stock'[j] = stock[j]
            /\ applied'[l] = applied[l] + qty
            /\ \A m \in LineIds \ {l} : applied'[m] = applied[m]
        BY <1>1, <1>3, <2>1, <3>1 DEF AdjustRef, FitsStock, TypeOK
      <3>3. \A j \in Items : /\ Part(l, j) = IF j = ref THEN applied[l] ELSE 0
                             /\ Part(l, j)' = IF j = ref THEN applied[l] + qty ELSE 0
        BY <2>1, <3>2 DEF Part
      <3> HIDE DEF ref, qty
      <3>4. ASSUME NEW j \in Items
            PROVE  \/ stock[j] = None /\ stock'[j] = None
                   \/ /\ stock[j] # None \/ FreshItem(j)
                      /\ stock'[j] # None
                      /\ stock'[j] = OnHand(j) - Part(l, j) + Part(l, j)'
        BY <1>1, <1>3, <2>1, <3>1, <3>2, <3>3 DEF OnHand
      <3> QED
        BY <2>1, <3>1, <3>2, <3>4, LineExplained
    <2> QED
      BY <2>2, <2>3
  <1> QED
    BY <1>6, <1>7, <1>8, <1>9, <1>10, <1>12, <1>13, <1>14

LEMMA OtherExplained == IInv /\ IInv' /\ Explained /\ (BeginNext \/ Commit \/ Abort)
                          => Explained'
  <1> SUFFICES ASSUME IInv, IInv', Explained, BeginNext \/ Commit \/ Abort PROVE Explained'
    OBVIOUS
  <1> USE AbsentAssumption
  <1>1. CASE BeginNext
    <2>1. UNCHANGED <<lines, stock, apps, applied, counted, saved>>
      BY <1>1 DEF BeginNext, BeginCreate, BeginUpdate, BeginReceive, BeginDelete, Begin, KeepStock
    <2> QED
      BY <2>1 DEF Explained, ExplainedIn, Put, PutBy, Used, UsedBy, Snapshot
  <1>2. CASE Abort
    <2>1. Snapshot' = saved /\ saved' = saved
      BY <1>2 DEF Abort, Snapshot, IInv, TypeOK, Tables
    <2> QED
      BY <2>1 DEF Explained
  <1>3. CASE Commit
    <2>1. saved' = Snapshot' /\ UNCHANGED <<stock, apps, applied, counted>>
      BY <1>3 DEF Commit, KeepStock
    <2>2. \A i \in Items : PutBy(Snapshot, i)' = PutBy(Snapshot, i)
      <3>1. CASE tx.op # "delete"
        BY <1>3, <2>1, <3>1 DEF Commit, PutBy, Snapshot
      <3>2. CASE tx.op = "delete"
        <4>1. /\ lines' = [l \in LineIds |-> IF l \in LinesOf(tx.order) THEN None ELSE lines[l]]
              /\ tx.todo = {}
          BY <1>3, <3>2 DEF Commit, DropOrder, Finished
        <4>2. \A l \in LinesOf(tx.order) : applied[l] = 0
          BY <3>2, <4>1 DEF IInv, Accounted, Owed, LinesOf
        <4> QED
          BY <2>1, <4>1, <4>2 DEF PutBy, Snapshot
      <3> QED
        BY <3>1, <3>2
    <2>3. ExplainedIn(Snapshot)'
      BY <2>1, <2>2 DEF Explained, ExplainedIn, Put, Used, UsedBy, Snapshot
    <2> QED
      BY <2>1, <2>3 DEF Explained
  <1> QED
    BY <1>1, <1>2, <1>3

LEMMA InitExplained == Init => Explained
  <1> SUFFICES ASSUME Init PROVE Explained
    OBVIOUS
  <1>1. ExplainedIn(Snapshot)
    BY DEF Init, ExplainedIn, Snapshot
  <1> QED
    BY <1>1 DEF Init, Explained

LEMMA StepExplained == IInv /\ IInv' /\ Explained /\ [Next]_vars => Explained'
  <1>1. UNCHANGED vars /\ Explained => Explained'
    BY DEF vars, Explained, ExplainedIn, Put, PutBy, Used, UsedBy, Snapshot
  <1> QED
    BY <1>1, AsideExplained, LineNextExplained, OtherExplained DEF Next

\* A count is what was counted by hand, plus what the order lines on record put
\* in, less what the applications on record used: no service leaves one side of
\* the sum behind, whatever mix of services, refusals and rollbacks ran, for
\* any number of rows and any column width.
THEOREM StockAlwaysExplained == Spec => []StockExplained
  <1>1. IInv /\ Explained => StockExplained
    <2> SUFFICES ASSUME IInv, Explained, NEW i \in Items, saved.stock[i] # None
                 PROVE  LET in == {l \in LineIds : saved.lines[l] # None /\ saved.lines[l].ref = i}
                            out == {a \in AppIds : saved.apps[a] # None /\ saved.apps[a].upgrade = i}
                            used == [a \in out |-> saved.apps[a].used]
                        IN  saved.stock[i] = saved.counted[i]
                               + SumFunctionOnSet(saved.applied, in)
                               - SumFunctionOnSet(used, out)
      BY DEF StockExplained
    <2> DEFINE in == {l \in LineIds : saved.lines[l] # None /\ saved.lines[l].ref = i}
               out == {a \in AppIds : saved.apps[a] # None /\ saved.apps[a].upgrade = i}
               used == [a \in out |-> saved.apps[a].used]
    <2>1. \A l \in LineIds : saved.applied[l] \in Nat
      BY DEF IInv, SavedAccounted, TypeOK, Tables, Line, Quantity
    <2>2. \A a \in AppIds : saved.apps[a] # None => saved.apps[a].used \in Nat
      BY DEF IInv, TypeOK, Tables, Application
    <2>3. SumFunctionOnSet(saved.applied, in) = Put(saved, i)
      <3>1. /\ \A l \in LineIds : PutBy(saved, i)[l] \in Nat
            /\ \A l \in LineIds \ in : PutBy(saved, i)[l] = 0
            /\ \A l \in in : saved.applied[l] = PutBy(saved, i)[l]
            /\ in \in SUBSET LineIds
        BY <2>1 DEF PutBy
      <3> HIDE DEF in
      <3> QED
        BY <3>1, IdsAssumption, SumSupport DEF Put
    <2>4. SumFunctionOnSet(used, out) = Used(saved, i)
      <3>1. /\ \A a \in AppIds : UsedBy(saved, i)[a] \in Nat
            /\ \A a \in AppIds \ out : UsedBy(saved, i)[a] = 0
            /\ \A a \in out : used[a] = UsedBy(saved, i)[a]
            /\ out \in SUBSET AppIds
        BY <2>2 DEF UsedBy
      <3> HIDE DEF out, used
      <3> QED
        BY <3>1, IdsAssumption, SumSupport DEF Used
    <2> QED
      BY <2>3, <2>4 DEF Explained, ExplainedIn
  <1>2. Init => Explained
    BY InitExplained
  <1>3. IInv /\ IInv' /\ Explained /\ [Next]_vars => Explained'
    BY StepExplained
  <1> QED
    BY <1>1, <1>2, <1>3, Inductive, PTL DEF Spec

-----------------------------------------------------------------------------
(* The purchase record and the collection.                                 *)

\* A line an open undo has walked: its kits are gone, its row is not yet.
Walked(l) ==
    tx.op = "delete" /\ lines[l].order = tx.order /\ l \notin tx.todo

KitsRooted ==
    \A k \in KitIds :
        kits[k] # None /\ kits[k].line # None =>
            lines[kits[k].line] # None /\ lines[kits[k].line].ref = None

Backed ==
    \A l \in LineIds :
        lines[l] # None /\ lines[l].ref = None =>
            Cardinality(KitsOf(l)) = IF Walked(l) THEN 0 ELSE lines[l].qty

Record == KitsRooted /\ Backed /\ LineBacked

LEMMA KitsOfFinite ==
    ASSUME NEW l
    PROVE  IsFiniteSet(KitsOf(l)) /\ Cardinality(KitsOf(l)) \in Nat
  <1>1. KitsOf(l) \in SUBSET KitIds
    BY DEF KitsOf
  <1>2. IsFiniteSet(KitsOf(l))
    BY <1>1, IdsAssumption, FS_Subset
  <1> QED
    BY <1>2, FS_CardinalityType

\* Spawning adds `count` kits to one line and touches no other row.
LEMMA SpawnKitsOf ==
    ASSUME TypeOK, NEW l \in LineIds, NEW stage \in KitStage, NEW received \in BOOLEAN,
           NEW count \in Nat, SpawnKits(l, stage, received, count)
    PROVE  /\ Cardinality(KitsOf(l))' = Cardinality(KitsOf(l)) + count
           /\ \A m \in LineIds \ {l} : KitsOf(m)' = KitsOf(m)
  <1> USE IdsAssumption, AbsentAssumption
  <1> DEFINE row == [stage |-> InitialKitStage(stage, received), line |-> l, rated |-> FALSE]
  <1>1. row \in Kit
    BY DEF Kit, InitialKitStage, KitStage
  <1>2. PICK new \in SUBSET {k \in KitIds : kits[k] = None /\ saved.kits[k] = None} :
           /\ Cardinality(new) = count
           /\ kits' = [k \in KitIds |-> IF k \in new THEN row ELSE kits[k]]
    BY DEF SpawnKits
  <1>3. row # None /\ row.line = l
    BY <1>1
  <1> HIDE DEF row
  <1>4. KitsOf(l)' = KitsOf(l) \cup new /\ KitsOf(l) \cap new = {}
    BY <1>2, <1>3 DEF KitsOf
  <1>5. \A m \in LineIds \ {l} : KitsOf(m)' = KitsOf(m)
    BY <1>2, <1>3 DEF KitsOf
  <1>6. IsFiniteSet(new)
    <2>1. new \in SUBSET KitIds
      BY <1>2
    <2> QED
      BY <2>1, FS_Subset
  <1>7. Cardinality(KitsOf(l) \cup new) = Cardinality(KitsOf(l)) + Cardinality(new) - 0
    BY <1>4, <1>6, KitsOfFinite, FS_Union, FS_EmptySet
  <1>8. Cardinality(KitsOf(l) \cup new) = Cardinality(KitsOf(l)) + count
    BY <1>2, <1>7, KitsOfFinite
  <1> QED
    BY <1>4, <1>5, <1>8

\* Deleting takes `count` kits from one line and touches no other row.
LEMMA DeleteLineKitsOf ==
    ASSUME TypeOK, NEW l \in LineIds, NEW count, DeleteLineKits(l, count)
    PROVE  /\ Cardinality(KitsOf(l))' = Cardinality(KitsOf(l)) - count
           /\ KitsOf(l)' \subseteq KitsOf(l)
           /\ \A m \in LineIds \ {l} : KitsOf(m)' = KitsOf(m)
  <1>1. PICK gone \in SUBSET {k \in KitsOf(l) : ~KitProgressed(k)} :
           Cardinality(gone) = count /\ DropKits(gone)
    BY DEF DeleteLineKits
  <1>2. kits' = [k \in KitIds |-> IF k \in gone THEN None ELSE kits[k]]
    BY <1>1 DEF DropKits
  <1>3. /\ gone \subseteq KitsOf(l)
        /\ KitsOf(l)' = KitsOf(l) \ gone
        /\ \A m \in LineIds \ {l} : KitsOf(m)' = KitsOf(m)
    BY <1>1, <1>2 DEF KitsOf
  <1> DEFINE left == KitsOf(l) \ gone
  <1>4. IsFiniteSet(gone) /\ IsFiniteSet(left)
    BY <1>3, KitsOfFinite, FS_Subset
  <1>5. Cardinality(gone) \in Nat /\ Cardinality(left) \in Nat
    BY <1>4, FS_CardinalityType
  <1>6. KitsOf(l) = left \cup gone /\ left \cap gone = {}
    BY <1>3
  <1> HIDE DEF left
  <1>7. Cardinality(KitsOf(l)) = Cardinality(left) + Cardinality(gone) - 0
    BY <1>4, <1>6, FS_Union, FS_EmptySet
  <1>8. Cardinality(left) = Cardinality(KitsOf(l)) - count
    BY <1>1, <1>5, <1>7
  <1> QED
    BY <1>3, <1>8 DEF left

\* Outside an order transaction the tables and what is saved are one.
LEMMA SettledRecord ==
    ASSUME tx'.op = "idle", saved' = Snapshot', KitsRooted', Backed'
    PROVE  Record'
  <1>1. /\ saved'.lines = lines' /\ saved'.kits = kits'
    BY DEF Snapshot
  <1>2. \A l \in LineIds : SavedKitsOf(l)' = KitsOf(l)'
    BY <1>1 DEF SavedKitsOf, KitsOf
  <1>3. LineBacked'
    BY <1>1, <1>2 DEF LineBacked, KitsRooted, Backed, Walked
  <1> QED
    BY <1>3 DEF Record

\* A line step keeps the record if it keeps that of its own line.
LEMMA LineRecord ==
    ASSUME IInv, IInv', Record, NEW l \in LineIds, saved' = saved,
           \A m \in LineIds \ {l} : lines'[m] = lines[m] /\ KitsOf(m)' = KitsOf(m),
           tx'.order = tx.order, tx'.todo = tx.todo \ {l},
           tx'.op = "delete" <=> tx.op = "delete",
           KitsOf(l)' = {} \/ (lines'[l] # None /\ lines'[l].ref = None),
           lines'[l] # None /\ lines'[l].ref = None =>
               Cardinality(KitsOf(l))' = IF Walked(l)' THEN 0 ELSE lines'[l].qty
    PROVE  Record'
  <1> USE IdsAssumption, AbsentAssumption
  <1>1. ASSUME NEW k \in KitIds, kits'[k] # None, kits'[k].line # None
        PROVE  lines'[kits'[k].line] # None /\ lines'[kits'[k].line].ref = None
    <2>1. PICK m \in LineIds : kits'[k].line = m
      BY <1>1 DEF IInv, TypeOK, Kit
    <2>2. k \in KitsOf(m)'
      BY <1>1, <2>1 DEF KitsOf
    <2>3. CASE m # l
      <3>1. k \in KitsOf(m)
        BY <2>2, <2>3
      <3> QED
        BY <2>1, <2>3, <3>1 DEF Record, KitsRooted, KitsOf
    <2>4. CASE m = l
      BY <2>1, <2>2, <2>4
    <2> QED
      BY <2>3, <2>4
  <1>2. ASSUME NEW m \in LineIds, lines'[m] # None, lines'[m].ref = None
        PROVE  Cardinality(KitsOf(m))' = IF Walked(m)' THEN 0 ELSE lines'[m].qty
    <2>1. CASE m # l
      <3>1. lines'[m] = lines[m] /\ KitsOf(m)' = KitsOf(m)
        BY <2>1
      <3>2. Walked(m)' = Walked(m)
        BY <2>1, <3>1 DEF Walked
      <3> QED
        BY <1>2, <3>1, <3>2 DEF Record, Backed
    <2> QED
      BY <1>2, <2>1
  <1>3. LineBacked'
    BY DEF Record, LineBacked, SavedKitsOf
  <1> QED
    BY <1>1, <1>2, <1>3 DEF Record, KitsRooted, Backed

LEMMA AsideRecord == IInv /\ IInv' /\ Record /\ (KitNext \/ CatalogNext \/ UpgradeNext)
                       => Record'
  <1> SUFFICES ASSUME IInv, IInv', Record, KitNext \/ CatalogNext \/ UpgradeNext
               PROVE  Record'
    OBVIOUS
  <1> USE IdsAssumption, AbsentAssumption
  <1>1. Aside /\ TypeOK
    BY AsideSteps DEF IInv
  <1>2. ASSUME \A l \in LineIds : KitsOf(l)' = KitsOf(l)
        PROVE  Record'
    <2>1. KitsRooted'
      <3> SUFFICES ASSUME NEW k \in KitIds, kits'[k] # None, kits'[k].line # None
                   PROVE  lines'[kits'[k].line] # None /\ lines'[kits'[k].line].ref = None
        BY DEF KitsRooted
      <3>1. PICK m \in LineIds : kits'[k].line = m
        BY DEF IInv, TypeOK, Kit
      <3>2. k \in KitsOf(m)'
        BY <3>1 DEF KitsOf
      <3>3. k \in KitsOf(m)
        BY <1>2, <3>2
      <3> QED
        BY <1>1, <3>1, <3>3 DEF Record, KitsRooted, KitsOf, Aside
    <2>2. Backed'
      BY <1>1, <1>2 DEF Record, Backed, Walked, Aside
    <2> QED
      BY <1>1, <2>1, <2>2, SettledRecord DEF Aside, Idle
  <1>3. CASE KitNext
    <2>1. ASSUME NEW k \in KitIds, NEW stage \in KitStage, CreateKit(k, stage) PROVE Record'
      <3>1. kits[k] = None /\ kits' = [kits EXCEPT ![k] =
                [stage |-> stage, line |-> None, rated |-> FALSE]]
        BY <2>1 DEF CreateKit
      <3> QED
        BY <1>1, <1>2, <3>1 DEF KitsOf, TypeOK
    <2>2. ASSUME NEW k \in KitIds, NEW stage \in KitStage, NEW rated \in BOOLEAN,
                 UpdateKit(k, stage, rated)
          PROVE  Record'
      <3>1. kits[k] \in Kit /\ kits[k] # None
        BY <1>1, <2>2 DEF UpdateKit, TypeOK
      <3>2. kits' = [kits EXCEPT ![k] = [kits[k] EXCEPT !.stage = stage, !.rated = rated]]
        BY <1>1, <2>2, <3>1 DEF UpdateKit, TypeOK, Kit
      <3>3. kits'[k] \in Kit /\ kits'[k].line = kits[k].line
        BY <1>1, <3>1, <3>2 DEF TypeOK, Kit
      <3> QED
        BY <1>1, <1>2, <3>1, <3>2, <3>3 DEF KitsOf, TypeOK
    <2>3. ASSUME NEW k \in KitIds, DeleteKit(k) PROVE Record'
      BY <1>1, <1>2, <2>3 DEF DeleteKit, DropKits, KitsOf, TypeOK
    <2> QED
      BY <1>3, <2>1, <2>2, <2>3 DEF KitNext
  <1>4. CASE CatalogNext \/ UpgradeNext
    <2>1. kits' = kits
      BY <1>4 DEF CatalogNext, UpgradeNext, CreateItem, AdjustStock, UpdateItem, DeleteItem,
                  ApplyUpgrade, Withdraw
    <2> QED
      BY <1>2, <2>1 DEF KitsOf
  <1> QED
    BY <1>3, <1>4

LEMMA BeginRecord == IInv /\ IInv' /\ Record /\ BeginNext => Record'
  <1> SUFFICES ASSUME IInv, Record, BeginNext PROVE Record'
    OBVIOUS
  <1>1. tx = Idle /\ UNCHANGED <<lines, kits, saved>>
    BY DEF BeginNext, BeginCreate, BeginUpdate, BeginReceive, BeginDelete, Begin, KeepStock
  <1>2. \A l \in LineIds : lines[l] # None => ~Walked(l) /\ ~Walked(l)'
    <2>1. tx'.op = "delete" => tx'.todo = LinesOf(tx'.order)
      BY DEF BeginNext, BeginCreate, BeginUpdate, BeginReceive, BeginDelete, Begin
    <2> QED
      BY <1>1, <2>1 DEF Walked, Idle, LinesOf
  <1> QED
    BY <1>1, <1>2 DEF Record, KitsRooted, Backed, LineBacked, KitsOf, SavedKitsOf

LEMMA UndoLineKits ==
    ASSUME IInv, Record, NEW l \in LineIds, NEW ok \in BOOLEAN, l \in tx.todo, UndoLine(l, ok)
    PROVE  /\ KitsOf(l)' = {}
           /\ \A m \in LineIds \ {l} : KitsOf(m)' = KitsOf(m)
  <1> USE IdsAssumption, AbsentAssumption
  <1>1. TypeOK /\ lines[l] # None
    BY DEF IInv, TxRooted
  <1>2. CASE lines[l].ref = None
    <2>1. DeleteLineKits(l, Cardinality(KitsOf(l)))
      BY <1>2 DEF UndoLine
    <2>2. Cardinality(KitsOf(l))' = Cardinality(KitsOf(l)) - Cardinality(KitsOf(l))
      BY <1>1, <2>1, DeleteLineKitsOf
    <2>3. KitsOf(l)' \subseteq KitsOf(l)
      BY <1>1, <2>1, DeleteLineKitsOf
    <2>4. IsFiniteSet(KitsOf(l)') /\ Cardinality(KitsOf(l)') = 0
      BY <2>2, <2>3, KitsOfFinite, FS_Subset
    <2>5. KitsOf(l)' = {}
      BY <2>4, FS_EmptySet
    <2> QED
      BY <1>1, <2>1, <2>5, DeleteLineKitsOf
  <1>3. CASE lines[l].ref # None
    <2>1. kits' = kits
      BY <1>3 DEF UndoLine
    <2> QED
      BY <1>3, <2>1 DEF Record, KitsRooted, KitsOf
  <1> QED
    BY <1>2, <1>3

LEMMA LineNextRecord == IInv /\ IInv' /\ Record /\ LineNext => Record'
  <1> SUFFICES ASSUME IInv, IInv', Record, NEW l \in LineIds,
                      \/ \E q \in Quantity, stage \in KitStage : AddKitLine(l, q, stage)
                      \/ \E q \in Quantity, i \in Items : AddStockLine(l, i, q)
                      \/ \E q \in Quantity, stage \in KitStage : EditKitLine(l, q, stage)
                      \/ \E q \in Quantity : EditStockLine(l, q)
                      \/ \E q \in Quantity, i \in Items : RetargetLine(l, i, q)
                      \/ RemoveLine(l)
                      \/ ReceiveLine(l)
                      \/ DeleteLine(l)
               PROVE  Record'
    BY DEF LineNext
  <1> USE IdsAssumption, BoundsAssumption, AbsentAssumption
  <1>1. TypeOK /\ TypeOK'
    BY DEF IInv
  <1>2. l \in tx.todo => lines[l] \in Line /\ lines[l] # None /\ lines[l].order = tx.order
    BY DEF IInv, TxRooted, TypeOK
  <1>3. tx.op # "idle" => Received \in BOOLEAN /\ tx.order \in OrderIds
    BY DEF IInv, TypeOK, TxRooted, Transaction, Received, Order
  <1>4. lines[l] = None \/ lines[l].ref # None => KitsOf(l) = {}
    BY DEF Record, KitsRooted, KitsOf
  <1>5. ASSUME NEW q \in Quantity, NEW stage \in KitStage, AddKitLine(l, q, stage)
        PROVE  Record'
    <2>1. SpawnKits(l, stage, Received, q) /\ q \in Nat
      BY <1>5 DEF AddKitLine, Quantity
    <2>2. Cardinality(KitsOf(l)) = 0
      BY <1>4, <1>5, FS_EmptySet DEF AddKitLine
    <2>3. /\ Cardinality(KitsOf(l))' = q
          /\ \A m \in LineIds \ {l} : KitsOf(m)' = KitsOf(m)
      BY <1>1, <1>3, <1>5, <2>1, <2>2, SpawnKitsOf DEF AddKitLine
    <2>4. /\ lines'[l] # None /\ lines'[l].ref = None /\ lines'[l].qty = q
          /\ \A m \in LineIds \ {l} : lines'[m] = lines[m]
      BY <1>1, <1>3, <1>5 DEF AddKitLine, TypeOK, Line
    <2>5. /\ saved' = saved /\ tx'.order = tx.order /\ tx'.todo = tx.todo \ {l}
          /\ tx'.op = tx.op /\ tx.op # "delete"
      BY <1>1, <1>5 DEF AddKitLine, Name, TypeOK, Transaction
    <2>6. Cardinality(KitsOf(l))' = IF Walked(l)' THEN 0 ELSE lines'[l].qty
      BY <2>3, <2>4, <2>5 DEF Walked
    <2> QED
      BY <2>3, <2>4, <2>5, <2>6, LineRecord
  <1>6. ASSUME kits' = kits, saved' = saved, lines[l] = None \/ lines[l].ref # None,
               \A m \in LineIds \ {l} : lines'[m] = lines[m], lines'[l].ref # None,
               tx'.order = tx.order, tx'.todo = tx.todo \ {l}, tx'.op = tx.op
        PROVE  Record'
    <2>1. \A m \in LineIds : KitsOf(m)' = KitsOf(m)
      BY <1>6 DEF KitsOf
    <2> QED
      BY <1>4, <1>6, <2>1, LineRecord
  <1>7. ASSUME NEW q \in Quantity, NEW i \in Items, AddStockLine(l, i, q)
        PROVE  Record'
    <2>1. lines'[l].ref # None
      BY <1>1, <1>7 DEF AddStockLine, TypeOK, Items
    <2> QED
      BY <1>1, <1>6, <1>7, <2>1 DEF AddStockLine, Name, TypeOK, Transaction
  <1>8. ASSUME NEW q \in Quantity, NEW stage \in KitStage, EditKitLine(l, q, stage)
        PROVE  Record'
    <2> DEFINE held == Cardinality(KitsOf(l))
    <2>1. /\ lines[l] \in Line /\ lines' = [lines EXCEPT ![l].qty = q] /\ lines[l].ref = None
      BY <1>2, <1>8 DEF EditKitLine
    <2>2. /\ lines'[l] # None /\ lines'[l].ref = None /\ lines'[l].qty = q
          /\ \A m \in LineIds \ {l} : lines'[m] = lines[m]
      BY <1>1, <2>1 DEF TypeOK, Line
    <2>3. /\ saved' = saved /\ tx'.order = tx.order /\ tx'.todo = tx.todo \ {l}
          /\ tx'.op = tx.op /\ tx.op = "update"
      BY <1>1, <1>8 DEF EditKitLine, Name, TypeOK, Transaction
    <2>4. held \in Nat /\ q \in Nat
      BY KitsOfFinite DEF Quantity
    <2>5. /\ Cardinality(KitsOf(l))' = q
          /\ \A m \in LineIds \ {l} : KitsOf(m)' = KitsOf(m)
      <3>1. CASE q >= held
        <4>1. SpawnKits(l, stage, Received, q - held) /\ q - held \in Nat
          BY <1>8, <2>4, <3>1 DEF EditKitLine
        <4>2. /\ Cardinality(KitsOf(l))' = Cardinality(KitsOf(l)) + (q - held)
              /\ \A m \in LineIds \ {l} : KitsOf(m)' = KitsOf(m)
          BY <1>1, <1>3, <2>3, <4>1, SpawnKitsOf
        <4> QED
          BY <2>4, <4>2
      <3>2. CASE ~(q >= held)
        <4>1. DeleteLineKits(l, held - q)
          BY <1>8, <3>2 DEF EditKitLine
        <4>2. /\ Cardinality(KitsOf(l))' = Cardinality(KitsOf(l)) - (held - q)
              /\ \A m \in LineIds \ {l} : KitsOf(m)' = KitsOf(m)
          BY <1>1, <4>1, DeleteLineKitsOf
        <4> QED
          BY <2>4, <4>2
      <3> QED
        BY <3>1, <3>2
    <2>6. Cardinality(KitsOf(l))' = IF Walked(l)' THEN 0 ELSE lines'[l].qty
      BY <2>2, <2>3, <2>5 DEF Walked
    <2> QED
      BY <2>2, <2>3, <2>5, <2>6, LineRecord
  <1>9. ASSUME NEW q \in Quantity, EditStockLine(l, q)
        PROVE  Record'
    <2>1. lines[l] \in Line /\ lines' = [lines EXCEPT ![l].qty = q] /\ lines[l].ref # None
      BY <1>2, <1>9 DEF EditStockLine
    <2>2. lines'[l].ref # None /\ \A m \in LineIds \ {l} : lines'[m] = lines[m]
      BY <1>1, <2>1 DEF TypeOK, Line
    <2> QED
      BY <1>1, <1>6, <1>9, <2>1, <2>2 DEF EditStockLine, Name, TypeOK, Transaction
  <1>10. ASSUME NEW q \in Quantity, NEW i \in Items, RetargetLine(l, i, q)
         PROVE  Record'
    <2>1. /\ lines[l] \in Line /\ lines[l].ref # None /\ i # None
          /\ lines' = [lines EXCEPT ![l].ref = i, ![l].qty = q]
      BY <1>2, <1>10 DEF RetargetLine, Items
    <2>2. \A m \in LineIds \ {l} : lines'[m] = lines[m]
      BY <1>1, <2>1 DEF TypeOK
    <2>3. lines'[l] = [lines[l] EXCEPT !.ref = i, !.qty = q]
      BY <1>1, <2>1 DEF TypeOK, Line
    <2>4. lines'[l].ref # None
      BY <2>1, <2>3 DEF Line
    <2> QED
      BY <1>1, <1>6, <1>10, <2>1, <2>2, <2>4 DEF RetargetLine, Name, TypeOK, Transaction
  <1>11. ASSUME RemoveLine(l) PROVE Record'
    <2>1. /\ lines'[l] = None /\ \A m \in LineIds \ {l} : lines'[m] = lines[m]
          /\ saved' = saved /\ tx'.order = tx.order /\ tx'.todo = tx.todo \ {l}
          /\ tx'.op # "delete" /\ tx.op # "delete"
      BY <1>1, <1>11 DEF RemoveLine, TypeOK, Transaction
    <2>2. /\ KitsOf(l)' = {}
          /\ \A m \in LineIds \ {l} : KitsOf(m)' = KitsOf(m)
      BY <1>11, UndoLineKits DEF RemoveLine
    <2> QED
      BY <2>1, <2>2, LineRecord
  <1>12. ASSUME DeleteLine(l) PROVE Record'
    <2>1. /\ lines' = lines /\ lines[l].order = tx.order
          /\ saved' = saved /\ tx'.order = tx.order /\ tx'.todo = tx.todo \ {l}
          /\ tx'.op = "delete" /\ tx.op = "delete"
      BY <1>1, <1>2, <1>12 DEF DeleteLine, Done, TypeOK, Transaction
    <2>2. /\ KitsOf(l)' = {}
          /\ \A m \in LineIds \ {l} : KitsOf(m)' = KitsOf(m)
      BY <1>12, UndoLineKits DEF DeleteLine
    <2>3. Walked(l)' /\ Cardinality(KitsOf(l))' = 0
      BY <2>1, <2>2, FS_EmptySet DEF Walked
    <2> QED
      BY <2>1, <2>2, <2>3, LineRecord
  <1>13. ASSUME ReceiveLine(l) PROVE Record'
    <2>1. /\ lines' = lines /\ lines[l] # None
          /\ saved' = saved /\ tx'.order = tx.order /\ tx'.todo = tx.todo \ {l}
          /\ tx'.op = "receive" /\ tx.op = "receive"
      BY <1>1, <1>2, <1>13 DEF ReceiveLine, Done, TypeOK, Transaction
    <2>2. \A m \in LineIds : KitsOf(m)' = KitsOf(m)
      <3>1. CASE lines[l].ref = None
        <4>1. kits' = [k \in KitIds |->
                         IF k \in KitsOf(l) /\ kits[k].stage = "mail"
                         THEN [kits[k] EXCEPT !.stage = "hand"]
                         ELSE kits[k]]
          BY <1>13, <3>1 DEF ReceiveLine
        <4>2. \A k \in KitsOf(l) : [kits[k] EXCEPT !.stage = "hand"] \in Kit
                                   /\ [kits[k] EXCEPT !.stage = "hand"].line = l
          BY <1>1 DEF KitsOf, TypeOK, Kit, KitStage
        <4> QED
          BY <4>1, <4>2 DEF KitsOf
      <3>2. CASE lines[l].ref # None
        BY <1>13, <3>2 DEF ReceiveLine, KitsOf
      <3> QED
        BY <3>1, <3>2
    <2>3. lines[l].ref = None => Cardinality(KitsOf(l))' = lines[l].qty
      BY <2>1, <2>2 DEF Record, Backed, Walked
    <2> QED
      BY <1>4, <2>1, <2>2, <2>3, LineRecord DEF Walked
  <1> QED
    BY <1>5, <1>7, <1>8, <1>9, <1>10, <1>11, <1>12, <1>13

LEMMA EndRecord == IInv /\ IInv' /\ Record /\ (Commit \/ Abort) => Record'
  <1> SUFFICES ASSUME IInv, IInv', Record, Commit \/ Abort PROVE Record'
    OBVIOUS
  <1> USE IdsAssumption, AbsentAssumption
  <1>1. CASE Abort
    <2>1. /\ tx' = Idle /\ saved' = saved /\ saved = Snapshot'
          /\ lines' = saved.lines /\ kits' = saved.kits
      BY <1>1 DEF Abort, Snapshot, IInv, TypeOK, Tables
    <2>2. \A l \in LineIds : KitsOf(l)' = SavedKitsOf(l)
      BY <2>1 DEF KitsOf, SavedKitsOf
    <2>3. KitsRooted' /\ Backed'
      BY <2>1, <2>2 DEF Record, LineBacked, KitsRooted, Backed, Walked, Idle
    <2> QED
      BY <2>1, <2>3, SettledRecord DEF Idle
  <1>2. CASE Commit
    <2>1. tx' = Idle /\ saved' = Snapshot'
      BY <1>2 DEF Commit
    <2>2. CASE tx.op # "delete"
      <3>1. UNCHANGED <<lines, kits>>
        BY <1>2, <2>2 DEF Commit
      <3>2. KitsRooted' /\ Backed'
        BY <2>1, <2>2, <3>1 DEF Record, KitsRooted, Backed, Walked, KitsOf, Idle
      <3> QED
        BY <2>1, <3>2, SettledRecord DEF Idle
    <2>3. CASE tx.op = "delete"
      <3> DEFINE gone == LinesOf(tx.order)
      <3>1. /\ lines' = [l \in LineIds |-> IF l \in gone THEN None ELSE lines[l]]
            /\ kits' = [k \in KitIds |->
                          IF kits[k] # None /\ kits[k].line \in gone
                          THEN [kits[k] EXCEPT !.line = None]
                          ELSE kits[k]]
            /\ tx.todo = {}
        BY <1>2, <2>3 DEF Commit, DropOrder, Finished
      <3>2. ASSUME NEW l \in gone PROVE KitsOf(l) = {}
        <4>1. l \in LineIds /\ lines[l] # None /\ lines[l].order = tx.order
          BY DEF LinesOf
        <4>2. CASE lines[l].ref = None
          <5>1. Cardinality(KitsOf(l)) = 0
            BY <2>3, <3>1, <4>1, <4>2 DEF Record, Backed, Walked
          <5> QED
            BY <5>1, KitsOfFinite, FS_EmptySet
        <4>3. CASE lines[l].ref # None
          BY <4>1, <4>3 DEF Record, KitsRooted, KitsOf
        <4> QED
          BY <4>2, <4>3
      <3>3. kits' = kits
        BY <3>1, <3>2 DEF KitsOf, IInv, TypeOK
      <3>4. KitsRooted'
        BY <3>1, <3>2, <3>3 DEF Record, KitsRooted, KitsOf, IInv, TypeOK, Kit
      <3>5. \A l \in LineIds : lines'[l] # None => lines'[l] = lines[l] /\ ~Walked(l) /\ ~Walked(l)'
        BY <2>1, <3>1 DEF LinesOf, Walked, Idle
      <3>6. Backed'
        BY <3>3, <3>5 DEF Record, Backed, KitsOf
      <3> QED
        BY <2>1, <3>4, <3>6, SettledRecord DEF Idle
    <2> QED
      BY <2>2, <2>3
  <1> QED
    BY <1>1, <1>2

LEMMA InitRecord == Init => Record
  <1> SUFFICES ASSUME Init PROVE Record
    OBVIOUS
  <1> USE IdsAssumption, AbsentAssumption
  <1>1. lines \in [LineIds -> Line \cup {None}]
    BY InitTypeOK DEF TypeOK
  <1>2. \A l \in LineIds : lines[l] = None \/ lines[l].ref # None
    <2>1. ASSUME NEW o \in OrderIds, NEW l \in LineIds, NEW i \in Items, NEW q \in Quantity,
                 NEW received \in BOOLEAN, Dangling(o, l, i, q, received)
          PROVE  \A m \in LineIds : lines[m] = None \/ lines[m].ref # None
      BY <2>1 DEF Dangling, Items
    <2> QED
      BY <2>1 DEF Init, Empty
  <1>3. \A k \in KitIds : kits[k] = None
    BY DEF Init
  <1>4. saved.lines = lines /\ saved.kits = kits
    BY DEF Init, Snapshot
  <1> QED
    BY <1>2, <1>3, <1>4 DEF Record, KitsRooted, Backed, LineBacked

LEMMA StepRecord == IInv /\ IInv' /\ Record /\ [Next]_vars => Record'
  <1>1. UNCHANGED vars /\ Record => Record'
    BY DEF vars, Record, KitsRooted, Backed, LineBacked, KitsOf, SavedKitsOf, Walked
  <1> QED
    BY <1>1, AsideRecord, BeginRecord, LineNextRecord, EndRecord DEF Next

LEMMA RecordAlways == Spec => []Record
  <1>1. Init => Record
    BY InitRecord
  <1>2. IInv /\ IInv' /\ Record /\ [Next]_vars => Record'
    BY StepRecord
  <1> QED
    BY <1>1, <1>2, Inductive, PTL DEF Spec

\* The purchase record and the collection agree in the database: a kit line has
\* exactly as many kits as it says, and a kit that names a line names a kit
\* line that is there, for any number of rows and any line quantity.
THEOREM LinesAlwaysBacked == Spec => []LineBacked
  <1>1. Record => LineBacked
    BY DEF Record
  <1> QED
    BY <1>1, RecordAlways, PTL

-----------------------------------------------------------------------------
(* What a commit spares.                                                   *)

\* What an open transaction has not touched since it was opened: the headers of
\* other orders, and its own unless it creates or receives it; references to
\* items that are there; and the kits somebody worked on.
Spared ==
    /\ \A o \in OrderIds :
          o # tx.order \/ tx.op \notin {"create", "receive"} => orders[o] = saved.orders[o]
    /\ \A l \in LineIds :
          Dangles(Snapshot, l) => Dangles(saved, l) /\ lines[l].ref = saved.lines[l].ref
    /\ apps = saved.apps
    /\ \A k \in KitIds : WorkedOn(saved, k) => kits[k] # None /\ KitProgressed(k)
    /\ tx.op = "create" => tx.todo = {}

\* The kits of the lines an order's receipt, or its entry as received, has
\* walked so far.
Landed ==
    tx.op \in {"create", "receive"} /\ orders[tx.order].received =>
        \A k \in KitIds :
            /\ kits[k] # None /\ kits[k].line # None
            /\ lines[kits[k].line].order = tx.order
            /\ kits[k].line \notin tx.todo
            => kits[k].stage # "mail"

LEMMA SettledSpared ==
    ASSUME tx'.op = "idle", saved' = Snapshot'
    PROVE  Spared' /\ Landed'
  <1>1. /\ saved'.lines = lines' /\ saved'.kits = kits' /\ saved'.apps = apps'
        /\ saved'.orders = orders' /\ saved'.stock = stock'
    BY DEF Snapshot
  <1>2. \A k \in KitIds : WorkedOn(saved, k)' => kits'[k] # None /\ KitProgressed(k)'
    BY <1>1 DEF WorkedOn, KitProgressed, HasAppliedUpgrades
  <1>3. \A l \in LineIds :
           Dangles(Snapshot, l)' => Dangles(saved, l)' /\ lines'[l].ref = saved'.lines[l].ref
    BY <1>1 DEF Dangles, Snapshot
  <1> QED
    BY <1>1, <1>2, <1>3 DEF Spared, Landed

LEMMA BeginSpared ==
    ASSUME IInv, IInv', Record, Spared, Landed, BeginNext
    PROVE  Spared' /\ Landed'
  <1> USE IdsAssumption, AbsentAssumption
  <1>1. /\ tx = Idle /\ saved = Snapshot /\ UNCHANGED <<lines, kits, stock, apps, saved>>
        /\ tx'.order \in OrderIds
        /\ \A o \in OrderIds :
              o # tx'.order \/ tx'.op \notin {"create", "receive"} => orders'[o] = orders[o]
        /\ tx'.op = "create" => orders[tx'.order] = None /\ tx'.todo = {}
        /\ tx'.op # "create" => tx'.todo = LinesOf(tx'.order)
    <2>1. tx = Idle /\ saved = Snapshot /\ UNCHANGED <<lines, kits, stock, apps, saved>>
      BY DEF BeginNext, BeginCreate, BeginUpdate, BeginReceive, BeginDelete, Begin, KeepStock,
             IInv, TxRooted, Idle
    <2>2. PICK o \in OrderIds :
             \/ \E received \in BOOLEAN : BeginCreate(o, received)
             \/ \E removal \in BOOLEAN : BeginUpdate(o, removal)
             \/ BeginReceive(o)
             \/ BeginDelete(o)
      BY DEF BeginNext
    <2> QED
      BY <2>1, <2>2 DEF BeginCreate, BeginUpdate, BeginReceive, BeginDelete, Begin,
                        IInv, TypeOK
  <1>2. Spared'
    BY <1>1 DEF Spared, Snapshot, Dangles, WorkedOn, KitProgressed, HasAppliedUpgrades, Idle
  <1>3. \A k \in KitIds :
           /\ kits[k] # None /\ kits[k].line # None
           /\ lines[kits[k].line].order = tx'.order
           => orders[tx'.order] # None /\ kits[k].line \in LinesOf(tx'.order)
    BY DEF Record, KitsRooted, IInv, LinesRooted, TypeOK, Kit, LinesOf
  <1>4. Landed'
    BY <1>1, <1>3 DEF Landed
  <1> QED
    BY <1>2, <1>4

\* A line step keeps what is spared if no item goes, its own line does not come
\* to point at a missing item, and the worked-on kits stay what they are.
LEMMA LineSpared ==
    ASSUME IInv, Spared, NEW l \in LineIds,
           orders' = orders, saved' = saved, apps' = apps,
           tx'.order = tx.order, tx'.todo = tx.todo \ {l},
           tx'.op = tx.op \/ (tx.op = "update" /\ tx'.op = "prune"),
           \A m \in LineIds \ {l} : lines'[m] = lines[m],
           \A i \in Items : stock'[i] = None => stock[i] = None,
           lines'[l] # None /\ lines'[l].ref # None =>
              \/ stock'[lines'[l].ref] # None
              \/ lines[l] # None /\ lines'[l].ref = lines[l].ref,
           \A k \in KitIds : kits[k] # None /\ KitProgressed(k) =>
              kits'[k] # None /\ KitProgressed(k)'
    PROVE  Spared'
  <1> USE IdsAssumption, AbsentAssumption
  <1>1. \A m \in LineIds : Dangles(Snapshot, m)' => Dangles(Snapshot, m) /\ lines'[m].ref = lines[m].ref
    <2> SUFFICES ASSUME NEW m \in LineIds,
                        lines'[m] # None, lines'[m].ref # None, stock'[lines'[m].ref] = None
                 PROVE  /\ lines[m] # None /\ lines[m].ref # None /\ stock[lines[m].ref] = None
                        /\ lines'[m].ref = lines[m].ref
      BY DEF Dangles, Snapshot
    <2>1. lines[m] # None /\ lines'[m].ref = lines[m].ref
      OBVIOUS
    <2>2. lines[m].ref \in Items
      BY <2>1 DEF IInv, TypeOK, Line
    <2> QED
      BY <2>1, <2>2
  <1>2. \A m \in LineIds :
           Dangles(Snapshot, m)' => Dangles(saved, m)' /\ lines'[m].ref = saved'.lines[m].ref
    BY <1>1 DEF Spared, Dangles
  <1>3. \A k \in KitIds : WorkedOn(saved, k)' => kits'[k] # None /\ KitProgressed(k)'
    BY DEF Spared, WorkedOn
  <1> QED
    BY <1>2, <1>3 DEF Spared

\* Kits somebody worked on outlive spawning, deleting and arriving.
LEMMA ProgressedStays ==
    ASSUME TypeOK, apps' = apps,
           \A k \in KitIds : kits[k] # None /\ KitProgressed(k) =>
              /\ kits'[k] # None
              /\ kits'[k].rated = kits[k].rated
              /\ kits[k].stage = "bench" => kits'[k].stage = "bench"
    PROVE  \A k \in KitIds : kits[k] # None /\ KitProgressed(k) =>
              kits'[k] # None /\ KitProgressed(k)'
  BY DEF KitProgressed, HasAppliedUpgrades

LEMMA DeleteLineKitsSpares ==
    ASSUME TypeOK, NEW l \in LineIds, NEW count, DeleteLineKits(l, count)
    PROVE  /\ apps' = apps
           /\ \A k \in KitIds : kits[k] # None /\ KitProgressed(k) =>
                 kits'[k] # None /\ KitProgressed(k)'
  <1>1. apps' = apps
    BY DeleteLineKitsApps
  <1>2. \A k \in KitIds : kits[k] # None /\ KitProgressed(k) => kits'[k] = kits[k]
    BY DEF DeleteLineKits, DropKits
  <1> QED
    BY <1>1, <1>2, ProgressedStays

LEMMA UndoLineSpares ==
    ASSUME IInv, NEW l \in LineIds, NEW ok \in BOOLEAN, l \in tx.todo, UndoLine(l, ok),
           tx.op \in {"update", "prune", "delete"}
    PROVE  /\ apps' = apps
           /\ \A i \in Items : stock'[i] = None => stock[i] = None
           /\ \A k \in KitIds : kits[k] # None /\ KitProgressed(k) =>
                 kits'[k] # None /\ KitProgressed(k)'
  <1>1. apps' = apps /\ \A i \in Items : stock'[i] = None => stock[i] = None
    BY UndoLineMoves
  <1>2. TypeOK
    BY DEF IInv
  <1>3. CASE lines[l].ref = None
    BY <1>1, <1>2, <1>3, DeleteLineKitsSpares DEF UndoLine
  <1>4. CASE lines[l].ref # None
    BY <1>1, <1>2, <1>4, ProgressedStays DEF UndoLine
  <1> QED
    BY <1>1, <1>3, <1>4

LEMMA SpawnKitsSpares ==
    ASSUME TypeOK, NEW l \in LineIds, NEW stage \in KitStage, NEW received \in BOOLEAN,
           NEW count, SpawnKits(l, stage, received, count), apps' = apps
    PROVE  /\ \A k \in KitIds : kits[k] # None => kits'[k] = kits[k]
           /\ \A k \in KitIds : kits[k] = None /\ kits'[k] # None =>
                 kits'[k].line = l /\ (received => kits'[k].stage # "mail")
           /\ \A k \in KitIds : kits[k] # None /\ KitProgressed(k) =>
                 kits'[k] # None /\ KitProgressed(k)'
  <1>1. /\ \A k \in KitIds : kits[k] # None => kits'[k] = kits[k]
        /\ \A k \in KitIds : kits[k] = None /\ kits'[k] # None =>
              kits'[k].line = l /\ (received => kits'[k].stage # "mail")
    BY DEF SpawnKits, InitialKitStage
  <1>2. \A k \in KitIds : kits[k] # None /\ KitProgressed(k) =>
              kits'[k] # None /\ KitProgressed(k)'
    BY <1>1, ProgressedStays
  <1> QED
    BY <1>1, <1>2

LEMMA LineNextSpared ==
    ASSUME IInv, IInv', Record, Spared, Landed, LineNext
    PROVE  Spared' /\ Landed'
  <1> SUFFICES ASSUME NEW l \in LineIds,
                      \/ \E q \in Quantity, stage \in KitStage : AddKitLine(l, q, stage)
                      \/ \E q \in Quantity, i \in Items : AddStockLine(l, i, q)
                      \/ \E q \in Quantity, stage \in KitStage : EditKitLine(l, q, stage)
                      \/ \E q \in Quantity : EditStockLine(l, q)
                      \/ \E q \in Quantity, i \in Items : RetargetLine(l, i, q)
                      \/ RemoveLine(l)
                      \/ ReceiveLine(l)
                      \/ DeleteLine(l)
               PROVE  Spared' /\ Landed'
    BY DEF LineNext
  <1> USE IdsAssumption, BoundsAssumption, AbsentAssumption
  <1>1. TypeOK /\ TypeOK'
    BY DEF IInv
  <1>2. l \in tx.todo => lines[l] \in Line /\ lines[l] # None /\ lines[l].order = tx.order
    BY DEF IInv, TxRooted, TypeOK
  <1>3. tx.op # "idle" => Received \in BOOLEAN /\ tx.order \in OrderIds
    BY DEF IInv, TypeOK, TxRooted, Transaction, Received, Order
  <1>4. \A m \in LineIds : lines[m] = None \/ lines[m].ref # None =>
           \A k \in KitIds : kits[k] # None => kits[k].line # m
    BY DEF Record, KitsRooted
  <1>5. \A i \in Items : stock[i] # None => stock[i] \in Int
    BY <1>1 DEF TypeOK
  <1>6. tx'.op \notin {"create", "receive"} => Landed'
    BY DEF Landed
  <1>7. ASSUME NEW q \in Quantity, NEW stage \in KitStage, AddKitLine(l, q, stage)
        PROVE  Spared' /\ Landed'
    <2>1. /\ lines[l] = None /\ lines'[l].ref = None
          /\ \A m \in LineIds \ {l} : lines'[m] = lines[m]
      BY <1>1, <1>7 DEF AddKitLine, TypeOK
    <2>2. /\ orders' = orders /\ saved' = saved /\ apps' = apps /\ stock' = stock
          /\ tx'.order = tx.order /\ tx'.op = tx.op /\ tx.op \in {"create", "update"}
          /\ tx'.todo = tx.todo \ {l}
      BY <1>1, <1>7 DEF AddKitLine, Name, KeepStock, TypeOK, Transaction
    <2>3. SpawnKits(l, stage, Received, q) /\ Received \in BOOLEAN
      BY <1>3, <1>7 DEF AddKitLine
    <2>4. Spared'
      BY <1>1, <2>1, <2>2, <2>3, SpawnKitsSpares, LineSpared
    <2>5. ASSUME NEW k \in KitIds, tx.op = "create", Received,
                 kits'[k] # None, kits'[k].line # None,
                 lines'[kits'[k].line].order = tx.order, kits'[k].line \notin tx'.todo
          PROVE  kits'[k].stage # "mail"
      <3>1. CASE kits[k] = None
        <4>1. SpawnKits(l, stage, TRUE, q)
          BY <2>3, <2>5 DEF SpawnKits
        <4> QED
          BY <1>1, <2>2, <2>5, <3>1, <4>1, SpawnKitsSpares
      <3>2. CASE kits[k] # None
        <4>1. kits'[k] = kits[k]
          BY <1>1, <2>2, <2>3, <3>2, SpawnKitsSpares
        <4>2. kits[k].line # l /\ kits[k].line \in LineIds
          BY <1>1, <1>4, <2>1, <2>5, <3>2, <4>1 DEF TypeOK, Kit
        <4> QED
          BY <2>1, <2>2, <2>5, <3>2, <4>1, <4>2 DEF Landed, Received
      <3> QED
        BY <3>1, <3>2
    <2>6. Landed'
      BY <2>2, <2>5 DEF Landed, Received
    <2> QED
      BY <2>4, <2>6
  <1>8. ASSUME NEW q \in Quantity, NEW i \in Items, AddStockLine(l, i, q)
        PROVE  Spared' /\ Landed'
    <2>1. /\ lines[l] = None /\ lines'[l] = [order |-> tx.order, ref |-> i, qty |-> q]
          /\ \A m \in LineIds \ {l} : lines'[m] = lines[m]
      BY <1>1, <1>8 DEF AddStockLine, TypeOK
    <2>2. /\ orders' = orders /\ saved' = saved /\ apps' = apps /\ kits' = kits
          /\ tx'.order = tx.order /\ tx'.op = tx.op /\ tx.op \in {"create", "update"}
          /\ tx'.todo = tx.todo \ {l}
      BY <1>1, <1>8 DEF AddStockLine, Name, TypeOK, Transaction
    <2>3. stock'[i] # None /\ \A j \in Items \ {i} : stock'[j] = stock[j]
      BY <1>1, <1>8 DEF AddStockLine, FitsStock, TypeOK
    <2>4. Spared'
      BY <1>1, <2>1, <2>2, <2>3, ProgressedStays, LineSpared
    <2>5. ASSUME NEW k \in KitIds, tx.op = "create", Received,
                 kits[k] # None, kits[k].line # None,
                 lines'[kits[k].line].order = tx.order, kits[k].line \notin tx'.todo
          PROVE  kits[k].stage # "mail"
      <3>1. kits[k].line # l /\ kits[k].line \in LineIds
        BY <1>1, <1>4, <2>1, <2>5 DEF TypeOK, Kit
      <3> QED
        BY <2>1, <2>2, <2>5, <3>1 DEF Landed, Received
    <2>6. Landed'
      BY <2>2, <2>5 DEF Landed, Received
    <2> QED
      BY <2>4, <2>6
  <1>9. ASSUME NEW q \in Quantity, NEW stage \in KitStage, EditKitLine(l, q, stage)
        PROVE  Spared' /\ Landed'
    <2>1. lines[l] \in Line /\ lines' = [lines EXCEPT ![l].qty = q] /\ lines[l].ref = None
      BY <1>2, <1>9 DEF EditKitLine
    <2>2. lines'[l].ref = None /\ \A m \in LineIds \ {l} : lines'[m] = lines[m]
      BY <1>1, <2>1 DEF TypeOK, Line
    <2>3. /\ orders' = orders /\ saved' = saved /\ stock' = stock
          /\ tx'.order = tx.order /\ tx'.op = tx.op /\ tx.op = "update"
          /\ tx'.todo = tx.todo \ {l}
      BY <1>1, <1>9 DEF EditKitLine, Name, KeepStock, TypeOK, Transaction
    <2>4. /\ apps' = apps
          /\ \A k \in KitIds : kits[k] # None /\ KitProgressed(k) =>
                kits'[k] # None /\ KitProgressed(k)'
      <3> DEFINE held == Cardinality(KitsOf(l))
      <3>1. CASE q >= held
        BY <1>1, <1>3, <1>9, <2>3, <3>1, SpawnKitsSpares DEF EditKitLine
      <3>2. CASE ~(q >= held)
        BY <1>1, <1>9, <3>2, DeleteLineKitsSpares DEF EditKitLine
      <3> QED
        BY <3>1, <3>2
    <2> QED
      BY <1>6, <2>2, <2>3, <2>4, LineSpared
  <1>10. ASSUME NEW q \in Quantity, EditStockLine(l, q)
         PROVE  Spared' /\ Landed'
    <2>1. lines[l] \in Line /\ lines' = [lines EXCEPT ![l].qty = q] /\ lines[l].ref # None
      BY <1>2, <1>10 DEF EditStockLine
    <2>2. lines'[l].ref = lines[l].ref /\ \A m \in LineIds \ {l} : lines'[m] = lines[m]
      BY <1>1, <2>1 DEF TypeOK, Line
    <2>3. /\ orders' = orders /\ saved' = saved /\ apps' = apps /\ kits' = kits
          /\ tx'.order = tx.order /\ tx'.op = tx.op /\ tx.op = "update"
          /\ tx'.todo = tx.todo \ {l}
      BY <1>1, <1>10 DEF EditStockLine, Name, TypeOK, Transaction
    <2>4. \A j \in Items : stock'[j] = None => stock[j] = None
      BY <1>1, <1>10 DEF EditStockLine, AdjustRef, FitsStock, TypeOK
    <2>5. lines[l] # None
      BY <1>2, <1>10 DEF EditStockLine
    <2> QED
      BY <1>1, <1>6, <2>2, <2>3, <2>4, <2>5, ProgressedStays, LineSpared
  <1>11. ASSUME NEW q \in Quantity, NEW i \in Items, RetargetLine(l, i, q)
         PROVE  Spared' /\ Landed'
    <2>1. lines[l] \in Line /\ lines' = [lines EXCEPT ![l].ref = i, ![l].qty = q]
      BY <1>2, <1>11 DEF RetargetLine
    <2>2. lines'[l] = [lines[l] EXCEPT !.ref = i, !.qty = q]
          /\ \A m \in LineIds \ {l} : lines'[m] = lines[m]
      BY <1>1, <2>1 DEF TypeOK, Line
    <2>3. lines'[l].ref = i
      BY <2>1, <2>2 DEF Line
    <2>4. /\ orders' = orders /\ saved' = saved /\ apps' = apps /\ kits' = kits
          /\ tx'.order = tx.order /\ tx'.op = tx.op /\ tx.op = "update"
          /\ tx'.todo = tx.todo \ {l}
      BY <1>1, <1>11 DEF RetargetLine, Name, TypeOK, Transaction
    <2>5. stock'[i] # None /\ \A j \in Items : stock'[j] = None => stock[j] = None
      <3>1. OnHand(i) \in Int
        BY <1>5 DEF OnHand
      <3>2. CASE Received
        <4>1. /\ stock' = [stock EXCEPT ![lines[l].ref] = @ - lines[l].qty, ![i] = OnHand(i) + q]
              /\ stock[lines[l].ref] # None
              /\ stock[lines[l].ref] - lines[l].qty \in 0..MaxInt4
              /\ OnHand(i) + q \in 0..MaxInt4
          BY <1>11, <3>2 DEF RetargetLine, FitsStock
        <4> QED
          BY <1>1, <4>1 DEF TypeOK
      <3>3. CASE ~Received
        <4>1. stock' = [stock EXCEPT ![i] = OnHand(i)]
          BY <1>11, <3>3 DEF RetargetLine
        <4> QED
          BY <1>1, <3>1, <4>1 DEF TypeOK
      <3> QED
        BY <3>2, <3>3
    <2> QED
      BY <1>1, <1>6, <2>2, <2>3, <2>4, <2>5, ProgressedStays, LineSpared
  <1>12. ASSUME RemoveLine(l) PROVE Spared' /\ Landed'
    <2>1. /\ lines'[l] = None /\ \A m \in LineIds \ {l} : lines'[m] = lines[m]
          /\ orders' = orders /\ saved' = saved
          /\ tx'.order = tx.order /\ tx'.op = "prune" /\ tx.op \in {"update", "prune"}
          /\ tx'.todo = tx.todo \ {l}
      BY <1>1, <1>12 DEF RemoveLine, TypeOK, Transaction
    <2>2. /\ apps' = apps
          /\ \A i \in Items : stock'[i] = None => stock[i] = None
          /\ \A k \in KitIds : kits[k] # None /\ KitProgressed(k) =>
                kits'[k] # None /\ KitProgressed(k)'
      BY <1>12, UndoLineSpares DEF RemoveLine
    <2> QED
      BY <1>6, <2>1, <2>2, LineSpared
  <1>13. ASSUME DeleteLine(l) PROVE Spared' /\ Landed'
    <2>1. /\ lines' = lines /\ lines[l] # None /\ orders' = orders /\ saved' = saved
          /\ tx'.order = tx.order /\ tx'.op = "delete" /\ tx.op = "delete"
          /\ tx'.todo = tx.todo \ {l}
      BY <1>1, <1>2, <1>13 DEF DeleteLine, Done, TypeOK, Transaction
    <2>2. /\ apps' = apps
          /\ \A i \in Items : stock'[i] = None => stock[i] = None
          /\ \A k \in KitIds : kits[k] # None /\ KitProgressed(k) =>
                kits'[k] # None /\ KitProgressed(k)'
      BY <1>13, UndoLineSpares DEF DeleteLine
    <2> QED
      BY <1>6, <2>1, <2>2, LineSpared
  <1>14. ASSUME ReceiveLine(l) PROVE Spared' /\ Landed'
    <2>1. /\ lines' = lines /\ lines[l] # None /\ orders' = orders /\ saved' = saved
          /\ apps' = apps /\ tx'.order = tx.order /\ tx'.op = tx.op /\ tx.op = "receive"
          /\ tx'.todo = tx.todo \ {l}
      BY <1>1, <1>2, <1>14 DEF ReceiveLine, Done, TypeOK, Transaction
    <2>2. \A j \in Items : stock'[j] = None => stock[j] = None
      BY <1>1, <1>14 DEF ReceiveLine, AdjustRef, FitsStock, KeepStock, TypeOK
    <2>3. \A k \in KitIds :
             /\ kits[k] = None <=> kits'[k] = None
             /\ kits[k] # None =>
                   /\ kits'[k].line = kits[k].line /\ kits'[k].rated = kits[k].rated
                   /\ kits'[k].stage = IF kits[k].line = l /\ kits[k].stage = "mail"
                                       THEN "hand" ELSE kits[k].stage
      <3>1. CASE lines[l].ref = None
        <4>1. kits' = [k \in KitIds |->
                         IF k \in KitsOf(l) /\ kits[k].stage = "mail"
                         THEN [kits[k] EXCEPT !.stage = "hand"]
                         ELSE kits[k]]
          BY <1>14, <3>1 DEF ReceiveLine
        <4>2. \A k \in KitIds : kits[k] # None =>
                 /\ [kits[k] EXCEPT !.stage = "hand"] \in Kit
                 /\ [kits[k] EXCEPT !.stage = "hand"].line = kits[k].line
                 /\ [kits[k] EXCEPT !.stage = "hand"].rated = kits[k].rated
                 /\ [kits[k] EXCEPT !.stage = "hand"].stage = "hand"
          BY <1>1 DEF TypeOK, Kit, KitStage
        <4> QED
          BY <4>1, <4>2 DEF KitsOf
      <3>2. CASE lines[l].ref # None
        BY <1>4, <1>14, <3>2 DEF ReceiveLine
      <3> QED
        BY <3>1, <3>2
    <2>4. \A k \in KitIds : kits[k] # None /\ KitProgressed(k) =>
             kits'[k] # None /\ KitProgressed(k)'
      BY <1>1, <2>1, <2>3, ProgressedStays
    <2>5. Spared'
      BY <2>1, <2>2, <2>4, LineSpared
    <2>6. Landed'
      BY <2>1, <2>3 DEF Landed
    <2> QED
      BY <2>5, <2>6
  <1> QED
    BY <1>7, <1>8, <1>9, <1>10, <1>11, <1>12, <1>13, <1>14

LEMMA InitSpared == Init => Spared /\ Landed
  BY DEF Init, Spared, Landed, Snapshot, Dangles, WorkedOn, Idle

LEMMA StepSpared == IInv /\ IInv' /\ Record /\ Spared /\ Landed /\ [Next]_vars
                      => Spared' /\ Landed'
  <1> SUFFICES ASSUME IInv, IInv', Record, Spared, Landed, [Next]_vars
               PROVE  Spared' /\ Landed'
    OBVIOUS
  <1>1. CASE UNCHANGED vars
    BY <1>1 DEF vars, Spared, Landed, Dangles, Snapshot, KitProgressed, HasAppliedUpgrades
  <1>2. CASE KitNext \/ CatalogNext \/ UpgradeNext
    BY <1>2, AsideSteps, SettledSpared DEF Aside, Idle
  <1>3. CASE Commit
    BY <1>3, SettledSpared DEF Commit, Idle
  <1>4. CASE Abort
    <2>1. tx' = Idle /\ saved' = Snapshot'
      BY <1>4 DEF Abort, Snapshot, IInv, TypeOK, Tables
    <2> QED
      BY <2>1, SettledSpared DEF Idle
  <1> QED
    BY <1>1, <1>2, <1>3, <1>4, BeginSpared, LineNextSpared DEF Next

LEMMA AsideSpares ==
    ASSUME IInv, KitNext \/ CatalogNext \/ UpgradeNext
    PROVE  BreaksNoReference /\ LandsReceipts /\ KeepsProgress
  <1> USE IdsAssumption, AbsentAssumption
  <1>1. Aside /\ TypeOK /\ saved = Snapshot
    BY AsideSteps DEF Aside, IInv, TxRooted, Idle
  <1>2. /\ saved.lines = lines /\ saved.stock = stock /\ saved.orders = orders
        /\ saved.kits = kits /\ saved.apps = apps
        /\ saved'.lines = lines /\ saved'.stock = stock' /\ saved'.orders = orders
        /\ saved'.kits = kits'
    BY <1>1 DEF Aside, Snapshot
  <1>3. LandsReceipts
    BY <1>2 DEF LandsReceipts, ReceivedIn
  <1>4. BreaksNoReference
    <2>1. \A i \in Items : stock'[i] = None => stock[i] = None \/ ~OnOrderHistory(i)
      <3>1. CASE KitNext
        BY <3>1 DEF KitNext, CreateKit, UpdateKit, DeleteKit, KeepStock
      <3>2. CASE CatalogNext
        <4>1. ASSUME NEW i \in Items, NEW n \in 0..MaxInt4, CreateItem(i, n)
              PROVE  \A j \in Items : stock'[j] = None => stock[j] = None
          BY <1>1, <4>1 DEF CreateItem, TypeOK
        <4>2. ASSUME NEW i \in Items, NEW d \in -MaxInt4..MaxInt4, AdjustStock(i, d)
              PROVE  \A j \in Items : stock'[j] = None => stock[j] = None
          BY <1>1, <4>2 DEF AdjustStock, TypeOK
        <4>3. ASSUME NEW i \in Items, NEW n \in 0..MaxInt4, UpdateItem(i, n)
              PROVE  \A j \in Items : stock'[j] = None => stock[j] = None
          BY <1>1, <4>3 DEF UpdateItem, TypeOK
        <4>4. ASSUME NEW i \in Items, DeleteItem(i)
              PROVE  \A j \in Items : stock'[j] = None => stock[j] = None \/ ~OnOrderHistory(j)
          BY <1>1, <4>4 DEF DeleteItem, TypeOK
        <4> QED
          BY <3>2, <4>1, <4>2, <4>3, <4>4 DEF CatalogNext
      <3>3. CASE UpgradeNext
        <4>1. ASSUME NEW a \in AppIds, NEW u \in Upgrades, NEW k \in KitIds,
                     NEW q \in 1..MaxInt4, ApplyUpgrade(a, u, k, q)
              PROVE  \A j \in Items : stock'[j] = None => stock[j] = None
          BY <1>1, <4>1 DEF ApplyUpgrade, TypeOK
        <4>2. ASSUME NEW a \in AppIds, NEW restore \in BOOLEAN, Withdraw(a, restore)
              PROVE  \A j \in Items : stock'[j] = None => stock[j] = None
          BY <1>1, <4>2 DEF Withdraw, FitsStock, TypeOK
        <4> QED
          BY <3>3, <4>1, <4>2 DEF UpgradeNext
      <3> QED
        BY <3>1, <3>2, <3>3
    <2> SUFFICES ASSUME NEW l \in LineIds, Dangles(saved', l)
                 PROVE  Dangles(saved, l) /\ saved'.lines[l].ref = saved.lines[l].ref
      BY DEF BreaksNoReference
    <2>2. lines[l] # None /\ lines[l].ref # None /\ stock'[lines[l].ref] = None
      BY <1>2 DEF Dangles
    <2>3. lines[l].ref \in Items
      BY <1>1, <2>2 DEF TypeOK, Line
    <2> QED
      BY <1>2, <2>1, <2>2, <2>3 DEF Dangles, OnOrderHistory
  <1>5. KeepsProgress
    <2> SUFFICES ASSUME NEW k \in KitIds, kits[k] # None, kits[k].line # None
                 PROVE  kits'[k] # None
      BY <1>2 DEF KeepsProgress, WorkedOn
    <2>1. ASSUME NEW j \in KitIds, NEW stage \in KitStage, CreateKit(j, stage)
          PROVE  kits'[k] # None
      BY <1>1, <2>1 DEF CreateKit, TypeOK
    <2>2. ASSUME NEW j \in KitIds, NEW stage \in KitStage, NEW rated \in BOOLEAN,
                 UpdateKit(j, stage, rated)
          PROVE  kits'[k] # None
      <3>1. kits[j] \in Kit
        BY <1>1, <2>2 DEF UpdateKit, TypeOK
      <3>2. [kits[j] EXCEPT !.stage = stage, !.rated = rated] \in Kit
        BY <3>1 DEF Kit
      <3>3. kits' = [kits EXCEPT ![j] = [kits[j] EXCEPT !.stage = stage, !.rated = rated]]
        BY <1>1, <2>2, <3>1 DEF UpdateKit, TypeOK, Kit
      <3> QED
        BY <1>1, <3>2, <3>3 DEF TypeOK
    <2>3. ASSUME NEW j \in KitIds, DeleteKit(j) PROVE kits'[k] # None
      BY <2>3 DEF DeleteKit, DropKits
    <2>4. CASE CatalogNext \/ UpgradeNext
      BY <2>4 DEF CatalogNext, UpgradeNext, CreateItem, AdjustStock, UpdateItem, DeleteItem,
                  ApplyUpgrade, Withdraw
    <2> QED
      BY <2>1, <2>2, <2>3, <2>4 DEF KitNext
  <1> QED
    BY <1>3, <1>4, <1>5

LEMMA CommitSpares ==
    ASSUME IInv, IInv', Record, Record', Spared, Landed, Commit
    PROVE  BreaksNoReference /\ LandsReceipts /\ KeepsProgress
  <1> USE IdsAssumption, AbsentAssumption
  <1>1. /\ saved'.lines = lines' /\ saved'.stock = stock /\ saved'.orders = orders'
        /\ saved'.kits = kits' /\ stock' = stock /\ TypeOK
    BY DEF Commit, Snapshot, KeepStock, IInv
  <1>2. /\ \A l \in LineIds : lines'[l] = lines[l] \/ lines'[l] = None
        /\ \A k \in KitIds : kits[k] # None => kits'[k] # None
        /\ \A o \in OrderIds : orders'[o] = orders[o] \/ orders'[o] = None
        /\ tx.op # "delete" => UNCHANGED <<orders, lines, kits>>
    <2>1. CASE tx.op # "delete"
      BY <2>1 DEF Commit
    <2>2. CASE tx.op = "delete"
      <3>1. \A k \in KitIds : kits[k] # None => [kits[k] EXCEPT !.line = None] \in Kit
        BY <1>1 DEF TypeOK, Kit
      <3> QED
        BY <1>1, <2>2, <3>1 DEF Commit, DropOrder, TypeOK
    <2> QED
      BY <2>1, <2>2
  <1>3. BreaksNoReference
    <2> SUFFICES ASSUME NEW l \in LineIds, Dangles(saved', l)
                 PROVE  Dangles(saved, l) /\ saved'.lines[l].ref = saved.lines[l].ref
      BY DEF BreaksNoReference
    <2>1. lines'[l] = lines[l] /\ Dangles(Snapshot, l)
      BY <1>1, <1>2 DEF Dangles, Snapshot
    <2> QED
      BY <1>1, <2>1 DEF Spared
  <1>4. KeepsProgress
    BY <1>1, <1>2 DEF KeepsProgress, Spared
  <1>5. LandsReceipts
    <2> SUFFICES ASSUME NEW o \in OrderIds, ReceivedIn(saved', o), ~ReceivedIn(saved, o),
                        NEW k \in KitIds, kits'[k] # None, kits'[k].line # None,
                        lines'[kits'[k].line].order = o
                 PROVE  kits'[k].stage # "mail"
      BY <1>1 DEF LandsReceipts
    <2>1. orders'[o] = orders[o] /\ orders[o] # None /\ orders[o].received
      BY <1>1, <1>2 DEF ReceivedIn
    <2>2. orders[o] # saved.orders[o]
      BY <2>1 DEF ReceivedIn
    <2>3. o = tx.order /\ tx.op \in {"create", "receive"}
      BY <2>2 DEF Spared
    <2>4. UNCHANGED <<orders, lines, kits>> /\ tx.todo = {}
      <3>1. tx.op = "create" => tx.todo = {}
        BY DEF Spared
      <3> QED
        BY <1>2, <2>3, <3>1 DEF Commit, Finished
    <2> QED
      BY <2>1, <2>3, <2>4 DEF Landed
  <1> QED
    BY <1>3, <1>4, <1>5

\* What no commit does to rows its request was not about: break a reference that
\* held, leave a kit of the order it receives on its way, or take a kit
\* somebody worked on, whatever the request and whatever came before it.
THEOREM CommitsAlwaysSpareTheRest == Spec => CommitsSpareTheRest
  <1>1. Init => Spared /\ Landed
    BY InitSpared
  <1>2. IInv /\ IInv' /\ Record /\ Spared /\ Landed /\ [Next]_vars => Spared' /\ Landed'
    BY StepSpared
  <1>3. IInv /\ IInv' /\ Record /\ Record' /\ Spared /\ Landed /\ [Next]_vars
          => /\ [BreaksNoReference]_saved
             /\ [LandsReceipts]_saved
             /\ [KeepsProgress]_saved
    <2> SUFFICES ASSUME IInv, IInv', Record, Record', Spared, Landed, [Next]_vars,
                        saved' # saved
                 PROVE  BreaksNoReference /\ LandsReceipts /\ KeepsProgress
      OBVIOUS
    <2>1. ~BeginNext /\ ~LineNext /\ ~Abort
      BY ZenonT(60) DEF BeginNext, BeginCreate, BeginUpdate, BeginReceive, BeginDelete, Begin,
             LineNext, AddKitLine, AddStockLine, EditKitLine, EditStockLine, RetargetLine,
             RemoveLine, ReceiveLine, DeleteLine, Name, Done, Abort
    <2>2. KitNext \/ CatalogNext \/ UpgradeNext \/ Commit
      BY <2>1 DEF Next, vars
    <2> QED
      BY <2>2, AsideSpares, CommitSpares
  <1> QED
    BY <1>1, <1>2, <1>3, Inductive, RecordAlways, PTL
    DEF Spec, CommitsSpareTheRest, NoNewDangling, ReceiptLandsAll, ProgressedKept

\* A delete gets past a line whose item is gone: taking the line off the list, and its
\* units off the ledger if they were counted, is a step of it (DanglingUndoable, with
\* the successor written out).
THEOREM DanglingLinesGo ==
    ASSUME NEW l \in LineIds, tx.op = "delete", l \in tx.todo, Dangles(Snapshot, l),
           applied' = IF Received THEN [applied EXCEPT ![l] = 0] ELSE applied,
           tx' = [tx EXCEPT !.todo = @ \ {l}],
           UNCHANGED <<orders, lines, kits, stock, apps, counted, saved>>
    PROVE  DeleteLine(l)
  <1>1. lines[l].ref # None /\ stock[lines[l].ref] = None
    BY DEF Dangles, Snapshot
  <1>2. UndoLine(l, TRUE)
    <2>1. CASE Received
      BY <1>1, <2>1 DEF UndoLine
    <2>2. CASE ~Received
      BY <1>1, <2>2 DEF UndoLine
    <2> QED
      BY <2>1, <2>2
  <1> QED
    BY <1>2 DEF DeleteLine, Done

=============================================================================
