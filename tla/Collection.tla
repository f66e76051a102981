------------------------------ MODULE Collection ------------------------------
(***************************************************************************)
(* The collection and its stock ledger: orders, their lines, the kits the  *)
(* lines spawn, the counted catalog items and the upgrades applied to kits *)
(* (backend/app/services/orders.py, kits.py, catalog.py, upgrades.py).     *)
(*                                                                         *)
(* Every mutating service runs in one database transaction that holds the  *)
(* collection write gate from before its first read to its end, so at most *)
(* one is open here.  (Module WriteGate is about that gate.)  A service    *)
(* that touches one row is one action.  The order services walk a list of  *)
(* lines and any line can refuse the whole request, so they are a Begin,   *)
(* one action per line, and a Commit or an Abort; `saved` is what the      *)
(* database holds meanwhile, and what every reader sees.                   *)
(*                                                                         *)
(* Dates, ship marks and build stamps are in module Timeline.              *)
(***************************************************************************)
EXTENDS Integers, FiniteSets, FiniteSetsExt

CONSTANTS
    OrderIds, LineIds, KitIds, AppIds,  \* row ids; absent rows are None
    Tools, Upgrades,     \* catalog ids; tools, consumables and display items
                         \* count alike and are one kind here
    MaxLineQuantity,     \* MAX_LINE_QUANTITY, orders.py
    MaxTotalFanout,      \* MAX_TOTAL_FANOUT, orders.py
    MaxInt4,             \* the ceiling of an int4 column
    None

ASSUME BoundsAssumption ==
    /\ MaxLineQuantity \in Nat \ {0}
    /\ MaxTotalFanout \in Nat
    /\ MaxInt4 \in Nat

ASSUME IdsAssumption ==
    /\ IsFiniteSet(LineIds) /\ IsFiniteSet(KitIds) /\ IsFiniteSet(AppIds)
    /\ Tools \cap Upgrades = {}
    /\ None \notin OrderIds \cup LineIds \cup KitIds \cup AppIds
    /\ None \notin Tools \cup Upgrades
    /\ None \notin Int

\* The three classes of KitStatus the ledger tells apart: on its way
\* (ARRIVAL_ELIGIBLE), in hand and unbuilt (backlog), and PROGRESSED_STATUSES.
KitStage == {"mail", "hand", "bench"}

Items == Tools \cup Upgrades

Kind(i) == IF i \in Upgrades THEN "upgrade" ELSE "tool"

Quantity == 1..MaxLineQuantity

\* A line with ref = None is a kit line: it spawns kits instead of stock.
Order == [received : BOOLEAN]
Line == [order : OrderIds, ref : Items \cup {None}, qty : Quantity]
Kit == [stage : KitStage, line : LineIds \cup {None}, rated : BOOLEAN]
Application == [upgrade : Upgrades, kit : KitIds, used : 1..MaxInt4]

ASSUME AbsentAssumption == None \notin Order \cup Line \cup Kit \cup Application

VARIABLES
    orders, lines, kits, stock, apps,   \* the tables, as the open transaction sees them
    applied,   \* history: the units each line has put into stock
    counted,   \* history: the units each item holds for reasons other than
               \* lines and applications (created with, adjusted, destroyed)
    saved,     \* the tables as last committed
    tx         \* the open order transaction

tables == <<orders, lines, kits, stock, apps, applied, counted>>
vars == <<orders, lines, kits, stock, apps, applied, counted, saved, tx>>

Idle == [op |-> "idle", order |-> None, todo |-> {}, units |-> 0,
         named |-> FALSE, removal |-> FALSE]

Transaction ==
    [op : {"idle", "create", "update", "prune", "receive", "delete"},
     order : OrderIds \cup {None},
     todo : SUBSET LineIds,   \* stored lines of the order not yet walked
     units : 0..MaxTotalFanout, \* kit units the payload has stated so far
     named : BOOLEAN,         \* the payload has named a line
     removal : BOOLEAN]       \* allow_line_removal

Snapshot == [orders |-> orders, lines |-> lines, kits |-> kits, stock |-> stock,
             apps |-> apps, applied |-> applied, counted |-> counted]

-----------------------------------------------------------------------------
(* Reading the tables.                                                     *)

LinesOf(o) == {l \in LineIds : lines[l] # None /\ lines[l].order = o}

KitsOf(l) == {k \in KitIds : kits[k] # None /\ kits[k].line = l}

HasAppliedUpgrades(k) == \E a \in AppIds : apps[a] # None /\ apps[a].kit = k

\* Evidence that a kit is more than a row an order made: order edits may not
\* delete it.  `rated` stands for a rating or a photo.
KitProgressed(k) ==
    \/ kits[k].stage = "bench"
    \/ kits[k].rated
    \/ HasAppliedUpgrades(k)

OnOrderHistory(i) == \E l \in LineIds : lines[l] # None /\ lines[l].ref = i

\* An id nothing in the database mentions, as a new uuid is.
FreshItem(i) == stock[i] = None /\ ~OnOrderHistory(i)

OnHand(i) == IF stock[i] = None THEN 0 ELSE stock[i]

-----------------------------------------------------------------------------
(* The dispatch helpers shared by the order services.                      *)

\* Mutant of FitsStock: the floor is forgotten.
FitsColumn(n) == n <= MaxInt4

FitsStock(n) == n \in 0..MaxInt4

\* Where a kit starts, given the stage asked for and its order's receipt.
InitialKitStage(requested, received) ==
    IF received /\ requested = "mail" THEN "hand" ELSE requested

\* One kits row per unit, on ids nothing uses or has used in this transaction.
SpawnKits(l, requested, received, count) ==
    \E new \in SUBSET {k \in KitIds : kits[k] = None /\ saved.kits[k] = None} :
        /\ Cardinality(new) = count
        /\ kits' = [k \in KitIds |->
                      IF k \in new
                      THEN [stage |-> InitialKitStage(requested, received),
                            line |-> l, rated |-> FALSE]
                      ELSE kits[k]]

\* Deleting kits takes the applications recorded on them too (ON DELETE CASCADE).
DropKits(gone) ==
    /\ kits' = [k \in KitIds |-> IF k \in gone THEN None ELSE kits[k]]
    /\ apps' = [a \in AppIds |->
                  IF apps[a] # None /\ apps[a].kit \in gone THEN None ELSE apps[a]]

\* Mutant of DeleteLineKits: the newest kits go, progressed or not.
DeleteNewestKits(l, count) ==
    \E gone \in SUBSET KitsOf(l) : Cardinality(gone) = count /\ DropKits(gone)

\* Removes `count` of a line's kits, all of them unprogressed, or refuses.
\* (The newest go first; which ones they are is abstracted.)
DeleteLineKits(l, count) ==
    \E gone \in SUBSET {k \in KitsOf(l) : ~KitProgressed(k)} :
        /\ Cardinality(gone) = count
        /\ DropKits(gone)

\* Moves an existing item's count by a line's delta, within 0..MaxInt4.
AdjustRef(l, i, delta) ==
    /\ stock[i] # None
    /\ FitsStock(stock[i] + delta)
    /\ stock' = [stock EXCEPT ![i] = @ + delta]
    /\ applied' = [applied EXCEPT ![l] = @ + delta]

KeepStock == UNCHANGED <<stock, applied, counted>>

-----------------------------------------------------------------------------
(* Kits and the catalog: a service that writes one row is one step, taken  *)
(* and committed with the gate held.                                       *)

Autocommit ==
    /\ tx = Idle
    /\ saved' = Snapshot'
    /\ UNCHANGED tx

CreateKit(k, stage) ==
    /\ kits[k] = None
    /\ kits' = [kits EXCEPT ![k] = [stage |-> stage, line |-> None, rated |-> FALSE]]
    /\ KeepStock
    /\ UNCHANGED <<orders, lines, apps>>
    /\ Autocommit

\* A PATCH may move a kit to any stage, back as well as on, and set or clear
\* its rating.
UpdateKit(k, stage, rated) ==
    /\ kits[k] # None
    /\ kits' = [kits EXCEPT ![k].stage = stage, ![k].rated = rated]
    /\ KeepStock
    /\ UNCHANGED <<orders, lines, apps>>
    /\ Autocommit

\* Mutant of DeleteKit: a kit an order line spawned may go on its own.
DeleteAnyKit(k) ==
    /\ kits[k] # None
    /\ ~HasAppliedUpgrades(k)
    /\ DropKits({k})
    /\ KeepStock
    /\ UNCHANGED <<orders, lines>>
    /\ Autocommit

DeleteKit(k) ==
    /\ kits[k] # None
    /\ kits[k].line = None
    /\ ~HasAppliedUpgrades(k)
    /\ DropKits({k})
    /\ KeepStock
    /\ UNCHANGED <<orders, lines>>
    /\ Autocommit

CreateItem(i, n) ==
    /\ FreshItem(i)
    /\ FitsStock(n)
    /\ stock' = [stock EXCEPT ![i] = n]
    /\ counted' = [counted EXCEPT ![i] = n]
    /\ UNCHANGED <<orders, lines, kits, apps, applied>>
    /\ Autocommit

\* Adjust by a delta; the floor and the ceiling refuse.
AdjustStock(i, delta) ==
    /\ stock[i] # None
    /\ FitsStock(stock[i] + delta)
    /\ stock' = [stock EXCEPT ![i] = @ + delta]
    /\ counted' = [counted EXCEPT ![i] = @ + delta]
    /\ UNCHANGED <<orders, lines, kits, apps, applied>>
    /\ Autocommit

\* A PATCH of quantity_on_hand: the count is replaced, whatever it was.
UpdateItem(i, n) ==
    /\ stock[i] # None
    /\ FitsStock(n)
    /\ stock' = [stock EXCEPT ![i] = n]
    /\ counted' = [counted EXCEPT ![i] = @ + n - stock[i]]
    /\ UNCHANGED <<orders, lines, kits, apps, applied>>
    /\ Autocommit

DeleteItem(i) ==
    /\ stock[i] # None
    /\ ~OnOrderHistory(i)
    /\ \A a \in AppIds : apps[a] # None => apps[a].upgrade # i
    /\ stock' = [stock EXCEPT ![i] = None]
    /\ counted' = [counted EXCEPT ![i] = 0]
    /\ apps' = [a \in AppIds |->
                  IF apps[a] # None /\ apps[a].upgrade = i THEN None ELSE apps[a]]
    /\ UNCHANGED <<orders, lines, kits, applied>>
    /\ Autocommit

ApplyUpgrade(a, u, k, q) ==
    /\ apps[a] = None
    /\ stock[u] # None
    /\ kits[k] # None
    /\ stock[u] >= q
    /\ stock' = [stock EXCEPT ![u] = @ - q]
    /\ apps' = [apps EXCEPT ![a] = [upgrade |-> u, kit |-> k, used |-> q]]
    /\ UNCHANGED <<orders, lines, kits, applied, counted>>
    /\ Autocommit

\* The caller says whether the parts came back or were destroyed.
Withdraw(a, restore) ==
    /\ apps[a] # None
    /\ LET u == apps[a].upgrade
           q == apps[a].used
       IN  /\ stock[u] # None
           /\ IF restore
              THEN /\ FitsStock(stock[u] + q)
                   /\ stock' = [stock EXCEPT ![u] = @ + q]
                   /\ UNCHANGED counted
              ELSE /\ counted' = [counted EXCEPT ![u] = @ - q]
                   /\ UNCHANGED stock
    /\ apps' = [apps EXCEPT ![a] = None]
    /\ UNCHANGED <<orders, lines, kits, applied>>
    /\ Autocommit

-----------------------------------------------------------------------------
(* The order services.  Each opens the transaction after its own checks,   *)
(* walks its lines in steps only it can see, and commits or aborts.        *)

Begin(op, o, todo, removal) ==
    /\ tx = Idle
    /\ tx' = [op |-> op, order |-> o, todo |-> todo, units |-> 0,
              named |-> FALSE, removal |-> removal]
    /\ KeepStock
    /\ UNCHANGED <<lines, kits, apps, saved>>

BeginCreate(o, received) ==
    /\ orders[o] = None
    /\ orders' = [orders EXCEPT ![o] = [received |-> received]]
    /\ Begin("create", o, {}, FALSE)

\* An edit of the lines, or of the header alone.
BeginUpdate(o, removal) ==
    /\ orders[o] # None
    /\ Begin("update", o, LinesOf(o), removal)
    /\ UNCHANGED orders

\* Mutant of BeginReceive: an order may be received twice.
BeginReceiveAgain(o) ==
    /\ orders[o] # None
    /\ orders' = [orders EXCEPT ![o].received = TRUE]
    /\ Begin("receive", o, LinesOf(o), FALSE)

\* A second receipt is refused, so stock is applied once.
BeginReceive(o) ==
    /\ orders[o] # None
    /\ ~orders[o].received
    /\ orders' = [orders EXCEPT ![o].received = TRUE]
    /\ Begin("receive", o, LinesOf(o), FALSE)

BeginDelete(o) ==
    /\ orders[o] # None
    /\ Begin("delete", o, LinesOf(o), FALSE)
    /\ UNCHANGED orders

Received == orders[tx.order].received

\* The payload states another line; kit lines count towards the fan-out limit.
Name(l, units) ==
    /\ tx.units + units <= MaxTotalFanout
    /\ tx' = [tx EXCEPT !.todo = @ \ {l}, !.units = @ + units, !.named = TRUE]
    /\ UNCHANGED <<orders, saved>>

Done(l) ==
    /\ tx' = [tx EXCEPT !.todo = @ \ {l}]
    /\ UNCHANGED <<orders, saved>>

AddKitLine(l, q, stage) ==
    /\ tx.op \in {"create", "update"}
    /\ lines[l] = None
    /\ Name(l, q)
    /\ lines' = [lines EXCEPT ![l] = [order |-> tx.order, ref |-> None, qty |-> q]]
    /\ SpawnKits(l, stage, Received, q)
    /\ KeepStock
    /\ UNCHANGED apps

\* A stored catalog item, or a new one created by the line at a count of zero.
Nameable(i) == stock[i] # None \/ FreshItem(i)

AddStockLine(l, i, q) ==
    /\ tx.op \in {"create", "update"}
    /\ lines[l] = None
    /\ Nameable(i)
    /\ Name(l, 0)
    /\ lines' = [lines EXCEPT ![l] = [order |-> tx.order, ref |-> i, qty |-> q]]
    /\ LET put == IF Received THEN q ELSE 0
       IN  /\ FitsStock(OnHand(i) + put)
           /\ stock' = [stock EXCEPT ![i] = OnHand(i) + put]
           /\ applied' = [applied EXCEPT ![l] = put]
    /\ UNCHANGED <<kits, apps, counted>>

\* The quantity is compared with the kits that survive, not with the line's.
EditKitLine(l, q, stage) ==
    /\ tx.op = "update"
    /\ l \in tx.todo
    /\ lines[l].ref = None
    /\ Name(l, q)
    /\ lines' = [lines EXCEPT ![l].qty = q]
    /\ LET held == Cardinality(KitsOf(l))
       IN  IF q >= held
           THEN SpawnKits(l, stage, Received, q - held) /\ UNCHANGED apps
           ELSE DeleteLineKits(l, held - q)
    /\ KeepStock

\* The same item at another quantity: only a received line moves stock, and
\* only a moved line needs its item to be there still.
EditStockLine(l, q) ==
    /\ tx.op = "update"
    /\ l \in tx.todo
    /\ lines[l].ref # None
    /\ Name(l, 0)
    /\ lines' = [lines EXCEPT ![l].qty = q]
    /\ IF Received /\ q # lines[l].qty
       THEN AdjustRef(l, lines[l].ref, q - lines[l].qty)
       ELSE UNCHANGED <<stock, applied>>
    /\ UNCHANGED <<kits, apps, counted>>

\* Another item of the same type: a received line gives its old item back the
\* old quantity before the new one takes the new.
RetargetLine(l, i, q) ==
    /\ tx.op = "update"
    /\ l \in tx.todo
    /\ lines[l].ref \notin {None, i}
    /\ Kind(i) = Kind(lines[l].ref)
    /\ Nameable(i)
    /\ Name(l, 0)
    /\ lines' = [lines EXCEPT ![l].ref = i, ![l].qty = q]
    /\ LET old == lines[l].ref
       IN  IF Received
           THEN /\ stock[old] # None
                /\ FitsStock(stock[old] - lines[l].qty)
                /\ FitsStock(OnHand(i) + q)
                /\ stock' = [stock EXCEPT ![old] = @ - lines[l].qty,
                                          ![i] = OnHand(i) + q]
                /\ applied' = [applied EXCEPT ![l] = q]
           ELSE /\ stock' = [stock EXCEPT ![i] = OnHand(i)]
                /\ UNCHANGED applied
    /\ UNCHANGED <<kits, apps, counted>>

\* Gives back what a line did: its kits go, or its units leave stock.  Undoing
\* a whole entry skips an item that is no longer there (missing_ok).
UndoLine(l, missing_ok) ==
    IF lines[l].ref = None
    THEN /\ DeleteLineKits(l, Cardinality(KitsOf(l)))
         /\ KeepStock
    ELSE /\ IF Received
            THEN \/ AdjustRef(l, lines[l].ref, -lines[l].qty)
                 \/ /\ missing_ok
                    /\ stock[lines[l].ref] = None
                    /\ applied' = [applied EXCEPT ![l] = 0]
                    /\ UNCHANGED stock
            ELSE UNCHANGED <<stock, applied>>
         /\ UNCHANGED <<kits, apps, counted>>

\* Mutant of RemoveLine: the line goes without its dispatch being undone.
RemoveLineOnly(l) ==
    /\ tx.op \in {"update", "prune"}
    /\ tx.named /\ tx.removal
    /\ l \in tx.todo
    /\ lines' = [lines EXCEPT ![l] = None]
    /\ tx' = [tx EXCEPT !.op = "prune", !.todo = @ \ {l}]
    /\ KeepStock
    /\ UNCHANGED <<orders, kits, apps, saved>>

\* The payload is a full replacement: stored lines it did not name go last, and
\* only if the caller allowed it.
RemoveLine(l) ==
    /\ tx.op \in {"update", "prune"}
    /\ tx.named /\ tx.removal
    /\ l \in tx.todo
    /\ UndoLine(l, FALSE)
    /\ lines' = [lines EXCEPT ![l] = None]
    /\ tx' = [tx EXCEPT !.op = "prune", !.todo = @ \ {l}]
    /\ UNCHANGED <<orders, saved>>

\* The box's contents arrive: kits still on their way are in hand, and the
\* line's units are put into stock, which needs the item to be there.
ReceiveLine(l) ==
    /\ tx.op = "receive"
    /\ l \in tx.todo
    /\ IF lines[l].ref = None
       THEN /\ kits' = [k \in KitIds |->
                          IF k \in KitsOf(l) /\ kits[k].stage = "mail"
                          THEN [kits[k] EXCEPT !.stage = "hand"]
                          ELSE kits[k]]
            /\ KeepStock
       ELSE /\ AdjustRef(l, lines[l].ref, lines[l].qty)
            /\ UNCHANGED <<kits, counted>>
    /\ UNCHANGED <<lines, apps>>
    /\ Done(l)

\* Mutant of DeleteLine: undoing an entry is as strict as editing it.
DeleteLineStrict(l) ==
    /\ tx.op = "delete"
    /\ l \in tx.todo
    /\ UndoLine(l, FALSE)
    /\ UNCHANGED lines
    /\ Done(l)

DeleteLine(l) ==
    /\ tx.op = "delete"
    /\ l \in tx.todo
    /\ UndoLine(l, TRUE)
    /\ UNCHANGED lines
    /\ Done(l)

\* An update that names no line edits the header and leaves every line alone.
Finished ==
    CASE tx.op = "create" -> tx.named
      [] tx.op = "update" -> tx.todo = {} \/ ~tx.named
      [] tx.op \in {"prune", "receive", "delete"} -> tx.todo = {}
      [] OTHER -> FALSE

\* The order's row goes last: its lines cascade, and a kit still on one of them
\* would lose its line (ON DELETE SET NULL).
DropOrder ==
    LET gone == LinesOf(tx.order)
    IN  /\ orders' = [orders EXCEPT ![tx.order] = None]
        /\ lines' = [l \in LineIds |-> IF l \in gone THEN None ELSE lines[l]]
        /\ kits' = [k \in KitIds |->
                      IF kits[k] # None /\ kits[k].line \in gone
                      THEN [kits[k] EXCEPT !.line = None]
                      ELSE kits[k]]

Commit ==
    /\ Finished
    /\ IF tx.op = "delete" THEN DropOrder ELSE UNCHANGED <<orders, lines, kits>>
    /\ KeepStock
    /\ UNCHANGED apps
    /\ saved' = Snapshot'
    /\ tx' = Idle

\* A refusal, a fault or a killed process: the transaction rolls back.
Abort ==
    /\ tx # Idle
    /\ orders' = saved.orders
    /\ lines' = saved.lines
    /\ kits' = saved.kits
    /\ stock' = saved.stock
    /\ apps' = saved.apps
    /\ applied' = saved.applied
    /\ counted' = saved.counted
    /\ tx' = Idle
    /\ UNCHANGED saved

-----------------------------------------------------------------------------

Tables ==
    [orders : [OrderIds -> Order \cup {None}],
     lines : [LineIds -> Line \cup {None}],
     kits : [KitIds -> Kit \cup {None}],
     stock : [Items -> 0..MaxInt4 \cup {None}],
     apps : [AppIds -> Application \cup {None}],
     applied : [LineIds -> Int],
     counted : [Items -> Int]]

\* A database written before 0.2.4 may hold an order whose line points at an
\* item a racing delete took away.
Dangling(o, l, i, q, received) ==
    /\ orders = [p \in OrderIds |-> IF p = o THEN [received |-> received] ELSE None]
    /\ lines = [m \in LineIds |->
                  IF m = l THEN [order |-> o, ref |-> i, qty |-> q] ELSE None]
    /\ applied = [m \in LineIds |-> IF m = l /\ received THEN q ELSE 0]

Empty ==
    /\ orders = [o \in OrderIds |-> None]
    /\ lines = [l \in LineIds |-> None]
    /\ applied = [l \in LineIds |-> 0]

Init ==
    /\ \/ Empty
       \/ \E o \in OrderIds, l \in LineIds, i \in Items, q \in Quantity,
             received \in BOOLEAN : Dangling(o, l, i, q, received)
    /\ kits = [k \in KitIds |-> None]
    /\ stock = [i \in Items |-> None]
    /\ apps = [a \in AppIds |-> None]
    /\ counted = [i \in Items |-> 0]
    /\ saved = Snapshot
    /\ tx = Idle

KitNext ==
    \/ \E k \in KitIds, stage \in KitStage : CreateKit(k, stage)
    \/ \E k \in KitIds, stage \in KitStage, rated \in BOOLEAN : UpdateKit(k, stage, rated)
    \/ \E k \in KitIds : DeleteKit(k)

CatalogNext ==
    \/ \E i \in Items, n \in 0..MaxInt4 : CreateItem(i, n)
    \/ \E i \in Items, delta \in -MaxInt4..MaxInt4 : AdjustStock(i, delta)
    \/ \E i \in Items, n \in 0..MaxInt4 : UpdateItem(i, n)
    \/ \E i \in Items : DeleteItem(i)

UpgradeNext ==
    \/ \E a \in AppIds, u \in Upgrades, k \in KitIds, q \in 1..MaxInt4 :
          ApplyUpgrade(a, u, k, q)
    \/ \E a \in AppIds, restore \in BOOLEAN : Withdraw(a, restore)

BeginNext ==
    \E o \in OrderIds :
        \/ \E received \in BOOLEAN : BeginCreate(o, received)
        \/ \E removal \in BOOLEAN : BeginUpdate(o, removal)
        \/ BeginReceive(o)
        \/ BeginDelete(o)

LineNext ==
    \E l \in LineIds :
        \/ \E q \in Quantity, stage \in KitStage : AddKitLine(l, q, stage)
        \/ \E q \in Quantity, i \in Items : AddStockLine(l, i, q)
        \/ \E q \in Quantity, stage \in KitStage : EditKitLine(l, q, stage)
        \/ \E q \in Quantity : EditStockLine(l, q)
        \/ \E q \in Quantity, i \in Items : RetargetLine(l, i, q)
        \/ RemoveLine(l)
        \/ ReceiveLine(l)
        \/ DeleteLine(l)

Next == KitNext \/ CatalogNext \/ UpgradeNext \/ BeginNext \/ LineNext \/ Commit \/ Abort

Spec == Init /\ [][Next]_vars

-----------------------------------------------------------------------------
(* Properties.                                                             *)

\* Every table, history and transaction variable holds the values its column
\* or its code can produce.
TypeOK ==
    /\ orders \in [OrderIds -> Order \cup {None}]
    /\ lines \in [LineIds -> Line \cup {None}]
    /\ kits \in [KitIds -> Kit \cup {None}]
    /\ stock \in [Items -> 0..MaxInt4 \cup {None}]
    /\ apps \in [AppIds -> Application \cup {None}]
    /\ applied \in [LineIds -> Int]
    /\ counted \in [Items -> Int]
    /\ saved \in Tables
    /\ tx \in Transaction

SavedKitsOf(l) == {k \in KitIds : saved.kits[k] # None /\ saved.kits[k].line = l}

\* "received_at is the sole proxy for stock applied": in the database, a line
\* of a received order has put exactly its quantity into stock, a line of a
\* pending order has put nothing, and a line that is gone has taken back all
\* it put, through every mix of entry, edit, removal, receipt and undo.
LineAccounted ==
    \A l \in LineIds :
        LET line == saved.lines[l]
        IN  CASE line = None -> saved.applied[l] = 0
              [] line # None /\ line.ref # None ->
                    saved.applied[l] =
                        IF saved.orders[line.order].received THEN line.qty ELSE 0
              [] OTHER -> TRUE

\* A count is never a number nobody can explain: it is what was counted by
\* hand, plus what the order lines still on record put in, less what the
\* applications still on record used.  Deleting a kit, an order, a line or an
\* item may not take one side of that sum away and leave the other.
StockExplained ==
    \A i \in Items :
        saved.stock[i] # None =>
            LET in == {l \in LineIds : saved.lines[l] # None /\ saved.lines[l].ref = i}
                out == {a \in AppIds : saved.apps[a] # None /\ saved.apps[a].upgrade = i}
                used == [a \in out |-> saved.apps[a].used]
            IN  saved.stock[i] = saved.counted[i]
                    + SumFunctionOnSet(saved.applied, in)
                    - SumFunctionOnSet(used, out)

\* The purchase record and the collection agree: a stored kit line has exactly
\* as many kits as it says, and a kit that names a line names a kit line that
\* is there.
LineBacked ==
    /\ \A l \in LineIds :
           saved.lines[l] # None /\ saved.lines[l].ref = None =>
               Cardinality(SavedKitsOf(l)) = saved.lines[l].qty
    /\ \A k \in KitIds :
           saved.kits[k] # None /\ saved.kits[k].line # None =>
               /\ saved.lines[saved.kits[k].line] # None
               /\ saved.lines[saved.kits[k].line].ref = None

\* Undoing an entry is never blocked by a line whose item is gone (#63): the
\* delete can always get past it.
DanglingUndoable ==
    tx.op = "delete" =>
        \A l \in tx.todo :
            lines[l].ref # None /\ stock[lines[l].ref] = None => ENABLED DeleteLine(l)

\* Line l of the tables t points at an item that is not there.
Dangles(t, l) ==
    /\ t.lines[l] # None
    /\ t.lines[l].ref # None
    /\ t.stock[t.lines[l].ref] = None

BreaksNoReference ==
    \A l \in LineIds :
        Dangles(saved', l) => Dangles(saved, l) /\ saved'.lines[l].ref = saved.lines[l].ref

\* No committed step leaves a line pointing at an item that is not there,
\* unless the line did so before.
NoNewDangling == [][BreaksNoReference]_saved

ReceivedIn(t, o) == t.orders[o] # None /\ t.orders[o].received

LandsReceipts ==
    \A o \in OrderIds :
        ReceivedIn(saved', o) /\ ~ReceivedIn(saved, o) =>
            \A k \in KitIds :
                saved'.kits[k] # None /\ saved'.kits[k].line # None =>
                    \/ saved'.lines[saved'.kits[k].line].order # o
                    \/ saved'.kits[k].stage # "mail"

\* When an order becomes received, in the same commit none of its kits is
\* still on its way.
ReceiptLandsAll == [][LandsReceipts]_saved

\* A spawned kit somebody worked on, in the tables t.
WorkedOn(t, k) ==
    /\ t.kits[k] # None
    /\ t.kits[k].line # None
    /\ \/ t.kits[k].stage = "bench"
       \/ t.kits[k].rated
       \/ \E a \in AppIds : t.apps[a] # None /\ t.apps[a].kit = k

KeepsProgress == \A k \in KitIds : WorkedOn(saved, k) => saved'.kits[k] # None

\* Work is not lost by editing a purchase: a spawned kit that was started,
\* rated, photographed or upgraded is still there after every commit.
ProgressedKept == [][KeepsProgress]_saved

\* What a commit does to rows its request was not about: it breaks no reference, it
\* leaves no kit of a received order behind, and it takes no kit somebody worked on
\* (services/orders.py, services/catalog.py).
CommitsSpareTheRest == NoNewDangling /\ ReceiptLandsAll /\ ProgressedKept

=============================================================================
