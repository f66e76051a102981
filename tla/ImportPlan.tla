------------------------------ MODULE ImportPlan ------------------------------
(***************************************************************************)
(* What an import does to a collection: the planner of services/           *)
(* portability/importing.py (_Planner.build), the order rules of           *)
(* invariants.py it asks, and apply_import.                                *)
(*                                                                         *)
(* The planner reads everything before it writes anything and holds the    *)
(* write gate from its read to its commit (module WriteGate has that), so  *)
(* an import is one step: the plan is a function of the collection, the    *)
(* file and the mode, and one refused row refuses the file.                *)
(*                                                                         *)
(* A collection is five tables, each a function from the ids in it to      *)
(* rows.  A file is five sheets of the same names, each a function from    *)
(* the ids its rows carry to the cells they carry: a column the sheet      *)
(* leaves out is not in a row's domain, and a blank cell is None.          *)
(*                                                                         *)
(* One shop and one order date stand for the natural keys' other halves,   *)
(* one catalog table for the four, one name for every kit, and one day for *)
(* every date (module Timeline has the dates).                             *)
(***************************************************************************)
EXTENDS Integers, FiniteSets, Functions

CONSTANTS
    OrderIds, LineIds, KitIds, ItemIds, PhotoIds,
    Names,             \* of items and orders
    Uploads,           \* the files the owner may bring
    Starts,            \* the collections the instance may hold to begin with
    MaxLineQuantity,   \* MAX_LINE_QUANTITY
    MaxTotalFanout,    \* MAX_TOTAL_FANOUT
    MaxOnHand,         \* bound: the receipts explored stop at this count
    MaxImports,        \* bound: the imports explored in one history
    None               \* no value; in a cell, blank

ASSUME BoundsAssumption ==
    /\ MaxLineQuantity \in Nat \ {0}
    /\ MaxTotalFanout \in Nat
    /\ MaxOnHand \in Nat
    /\ MaxImports \in Nat
    /\ IsFiniteSet(LineIds) /\ IsFiniteSet(KitIds)

-----------------------------------------------------------------------------
(* Collections and files.                                                  *)

KitStatus == {"ordered", "in_transit", "backlog", "building"}
ShipEligible == {"ordered"}
ArrivalEligible == {"ordered", "in_transit"}
ProgressedStatuses == {"building"}

\* A row whose id cell is empty or absent.
Unnamed == "unnamed"

Maybe(S) == S \cup {None}
Dates == {"day"}

Item == [name : Names, onHand : Nat]
Order == [number : Maybe(Names), shipped : Maybe(Dates), received : Maybe(Dates)]
\* "null for kit lines": their kits are made fresh.
Line == {l \in [order : OrderIds, type : {"kit", "tool"}, ref : Maybe(ItemIds),
                quantity : 1..MaxLineQuantity] : l.type = "kit" => l.ref = None}
Kit == [line : Maybe(LineIds), status : KitStatus, rating : Maybe(Nat)]
Photo == [kit : KitIds]

\* What a cell of each column may hold, when it is not blank.
ItemColumns == [name |-> Names, onHand |-> Int]
OrderColumns == [number |-> Names, shipped |-> Dates, received |-> Dates]
LineColumns == [order |-> OrderIds, type |-> {"kit", "tool"}, ref |-> ItemIds,
                named |-> Names, quantity |-> Int, kit |-> {"kit"}, status |-> KitStatus]
KitColumns == [line |-> LineIds, status |-> KitStatus, rating |-> Nat]
PhotoColumns == [kit |-> KitIds]

IsTable(table, ids, rows) == DOMAIN table \subseteq ids /\ table \in [DOMAIN table -> rows]

IsSheet(sheet, ids, columns) ==
    /\ DOMAIN sheet \subseteq ids \cup {Unnamed}
    /\ \A key \in DOMAIN sheet :
          /\ DOMAIN sheet[key] \subseteq DOMAIN columns
          /\ \A c \in DOMAIN sheet[key] : sheet[key][c] \in Maybe(columns[c])

\* Every cell of a collection is of its column, and every foreign key holds: a
\* line has its order, a kit on a line has that line, and a photo its kit.
IsCollection(c) ==
    /\ c = [items |-> c.items, orders |-> c.orders, lines |-> c.lines, kits |-> c.kits,
            photos |-> c.photos]
    /\ IsTable(c.items, ItemIds, Item)
    /\ IsTable(c.orders, OrderIds, Order)
    /\ IsTable(c.lines, LineIds, Line)
    /\ IsTable(c.kits, KitIds, Kit)
    /\ IsTable(c.photos, PhotoIds, Photo)
    /\ \A l \in DOMAIN c.lines : c.lines[l].order \in DOMAIN c.orders
    /\ \A k \in DOMAIN c.kits : c.kits[k].line \in Maybe(DOMAIN c.lines)
    /\ \A i \in DOMAIN c.photos : c.photos[i].kit \in DOMAIN c.kits

\* A file is read before it is planned: a cell that is no value of its column is
\* refused there, and every row of photos names a kit or leaves it blank.
IsFile(up) ==
    /\ IsSheet(up.items, ItemIds, ItemColumns)
    /\ IsSheet(up.orders, OrderIds, OrderColumns)
    /\ IsSheet(up.lines, LineIds, LineColumns)
    /\ IsSheet(up.kits, KitIds, KitColumns)
    /\ IsSheet(up.photos, PhotoIds, PhotoColumns)
    /\ \A key \in DOMAIN up.photos : "kit" \in DOMAIN up.photos[key]

ASSUME NoneAssumption ==
    /\ \A ids \in {OrderIds, LineIds, KitIds, ItemIds, PhotoIds} :
          None \notin ids /\ Unnamed \notin ids
    /\ None \notin Names \cup Dates \cup KitStatus \cup {"kit", "tool"} \cup Int
    /\ None \notin Item \cup Order \cup Line \cup Kit \cup Photo

ASSUME InputsAssumption ==
    /\ \A c \in Starts : IsCollection(c)
    /\ \A up \in Uploads : IsFile(up)

VARIABLES
    db,        \* the collection, committed
    applied,   \* for each line, the units a receipt put into stock
    brought,   \* the lines an import made together with a received order
    last,      \* what the last step was: a mode of import, or "live"
    reported,  \* every row the last import said it wrote was there afterwards
    imports    \* how many imports there have been

vars == <<db, applied, brought, last, reported, imports>>

Modes == {"merge", "add_only", "replace_all"}

Nothing == [t \in {"items", "orders", "lines", "kits", "photos"} |-> <<>>]

Cell(row, c) == IF c \in DOMAIN row THEN row[c] ELSE None

-----------------------------------------------------------------------------
(* Matching and classifying a row.                                         *)

\* replace_all may resolve and match against nothing that it is about to
\* delete: its world is the file.
World(c, mode) == IF mode = "replace_all" THEN Nothing ELSE c

\* The row as it will be stored: what it states over what is stored, or over
\* the column defaults, and a blank in a column that cannot hold one is not a
\* statement.
Written(before, row, unstatable) ==
    [c \in DOMAIN before |->
        IF c \in DOMAIN row /\ ~(c \in unstatable /\ row[c] = None)
        THEN row[c] ELSE before[c]]

ActionOf(mode, old, after) ==
    CASE old = None -> "create"
      [] old # None /\ mode = "add_only" -> "skip"
      [] old # None /\ mode # "add_only" /\ after = old -> "unchanged"
      [] OTHER -> "update"

\* What the plan holds for one row: the id it lands on, the row stored there,
\* the cells after resolution, the action, and the row afterwards.
Planned(mode, id, old, row, default, unstatable) ==
    LET after == Written(IF old = None THEN default ELSE old, row, unstatable)
        act == ActionOf(mode, old, after)
    IN  [id |-> id, old |-> old, row |-> row, act |-> act,
         after |-> IF act = "skip" THEN old ELSE after]

\* An id nothing has yet; Unnamed once the model's ids have run out.
Fresh(pool, used) ==
    IF pool \subseteq used THEN Unnamed ELSE CHOOSE i \in pool : i \notin used

\* A create keeps the id its row carries, or gets a fresh one.
IdOf(key, matches, pool, stored, sheet) ==
    CASE matches # {} -> CHOOSE m \in matches : TRUE
      [] matches = {} /\ key # Unnamed -> key
      [] OTHER -> Fresh(pool, DOMAIN stored \cup DOMAIN sheet)

\* A cell of the row that was stored, None for a create.
Old(r, c) == IF r.old = None THEN None ELSE r.old[c]

Row(table, id) == IF id \in DOMAIN table THEN table[id] ELSE None

\* A reference: through the row of the file that carries the id, whatever
\* stored row that one matched, else to the stored row with that id.
Resolve(rows, stored, id) ==
    CASE id \in DOMAIN rows -> rows[id].id
      [] id \notin DOMAIN rows /\ id \in DOMAIN stored -> id
      [] OTHER -> None

ItemsNamed(items, name) == {i \in DOMAIN items : items[i].name = name}

MatchGeneric(stored, key, name) ==
    IF key \in DOMAIN stored THEN {key} ELSE ItemsNamed(stored, name)

ItemRows(w, up, mode) ==
    [key \in DOMAIN up.items |->
        LET row == up.items[key]
            id == IdOf(key, MatchGeneric(w.items, key, Cell(row, "name")),
                       ItemIds, w.items, up.items)
        IN  Planned(mode, id, Row(w.items, id), row, [name |-> None, onHand |-> 0],
                    {"onHand"})]

\* The name a line is bought under: its kit's, or its catalog item's.
CatalogName(w, ref) == IF ref \in DOMAIN w.items THEN w.items[ref].name ELSE None

KitsOn(c, l) == {k \in DOMAIN c.kits : c.kits[k].line = l}

LinesOn(c, o) == {l \in DOMAIN c.lines : c.lines[l].order = o}

StoredFingerprint(w, l) ==
    LET line == w.lines[l]
    IN  <<line.type,
          IF line.type = "kit"
          THEN IF KitsOn(w, l) = {} THEN None ELSE "kit"
          ELSE CatalogName(w, line.ref),
          line.quantity>>

IncomingFingerprint(w, row) ==
    <<Cell(row, "type"),
      CASE Cell(row, "type") = "kit" -> Cell(row, "kit")
        [] Cell(row, "type") # "kit" /\ Cell(row, "named") # None -> row.named
        [] OTHER -> CatalogName(w, Cell(row, "ref")),
      IF Cell(row, "quantity") = None THEN 0 ELSE row.quantity>>

\* Two orders hold the same lines: each fingerprint as often in one as in the
\* other.
SameLines(w, o, up, key) ==
    LET incoming == {r \in DOMAIN up.lines :
                        key # Unnamed /\ Cell(up.lines[r], "order") = key}
        prints == {StoredFingerprint(w, l) : l \in LinesOn(w, o)}
                    \cup {IncomingFingerprint(w, up.lines[r]) : r \in incoming}
    IN  \A f \in prints :
            Cardinality({l \in LinesOn(w, o) : StoredFingerprint(w, l) = f}) =
            Cardinality({r \in incoming : IncomingFingerprint(w, up.lines[r]) = f})

\* An order is matched by id, else by its number, else by its lines.
MatchOrder(w, up, key) ==
    LET number == Cell(up.orders[key], "number")
    IN  CASE key \in DOMAIN w.orders -> {key}
          [] key \notin DOMAIN w.orders /\ number # None ->
                {o \in DOMAIN w.orders : w.orders[o].number = number}
          [] OTHER -> {o \in DOMAIN w.orders : SameLines(w, o, up, key)}

OrderRows(w, up, mode) ==
    [key \in DOMAIN up.orders |->
        LET id == IdOf(key, MatchOrder(w, up, key), OrderIds, w.orders, up.orders)
        IN  Planned(mode, id, Row(w.orders, id), up.orders[key],
                    [number |-> None, shipped |-> None, received |-> None], {})]

\* The type a line will have: what its row states, else what is stored.
EffectiveType(w, key, row) ==
    CASE Cell(row, "type") # None -> row.type
      [] Cell(row, "type") = None /\ key \in DOMAIN w.lines -> w.lines[key].type
      [] OTHER -> None

\* Bound: a file names at most one catalog item that nothing holds.
StubId(w, up) == Fresh(ItemIds, DOMAIN w.items \cup DOMAIN up.items)

\* The id a catalog name stands for: a stored item, a row of the file, or a
\* stub made for it.
ByName(w, up, items, name) ==
    LET pending == {key \in DOMAIN items : Cell(items[key].row, "name") = name}
    IN  CASE ItemsNamed(w.items, name) # {} -> CHOOSE i \in ItemsNamed(w.items, name) : TRUE
          [] ItemsNamed(w.items, name) = {} /\ pending # {} ->
                items[CHOOSE key \in pending : TRUE].id
          [] OTHER -> StubId(w, up)

\* A line's row once its references are resolved.  A kit line has no catalog
\* item, whatever its cell says; a name counts as stating the reference.
ResolvedLine(w, up, items, orders, key) ==
    LET row == up.lines[key]
        type == EffectiveType(w, key, row)
        byId == Resolve(items, w.items, Cell(row, "ref"))
        named == type = "tool" /\ byId = None /\ Cell(row, "named") # None
        ref == CASE type = "kit" -> None
                 [] named -> ByName(w, up, items, row.named)
                 [] OTHER -> byId
    IN  [c \in DOMAIN row \cup (IF named THEN {"ref"} ELSE {}) |->
            CASE c = "order" -> Resolve(orders, w.orders, row.order)
              [] c = "ref" -> ref
              [] OTHER -> row[c]]

\* A line is matched by id, else by the order it is on and its fingerprint.
\* Bound: a file holds at most one row that is matched the second way.
MatchOrderItem(w, key, row) ==
    IF key \in DOMAIN w.lines THEN {key}
    ELSE {l \in LinesOn(w, Cell(row, "order")) :
             StoredFingerprint(w, l) = IncomingFingerprint(w, row)}

LineRows(w, up, mode, items, orders) ==
    [key \in DOMAIN up.lines |->
        LET row == ResolvedLine(w, up, items, orders, key)
            id == IdOf(key, MatchOrderItem(w, key, row), LineIds, w.lines, up.lines)
        IN  Planned(mode, id, Row(w.lines, id), row,
                    [order |-> None, type |-> None, ref |-> None, quantity |-> None], {})]

\* The line a kit's row names.
KitLine(w, lines, id) == Resolve(lines, w.lines, id)

\* A kit is matched by id alone: two of the same kit are two kits.
KitRows(w, up, mode, lines) ==
    [key \in DOMAIN up.kits |->
        LET raw == up.kits[key]
            row == [c \in DOMAIN raw |->
                       IF c = "line" THEN KitLine(w, lines, raw.line) ELSE raw[c]]
            id == IdOf(key, {key} \cap DOMAIN w.kits, KitIds, w.kits, up.kits)
        IN  Planned(mode, id, Row(w.kits, id), row,
                    [line |-> None, status |-> "backlog", rating |-> None], {"status"})]

\* A photo is matched by id, else by its kit (every photo has one path).
PhotoRows(w, up, mode, kits) ==
    [key \in DOMAIN up.photos |->
        LET row == [kit |-> Resolve(kits, w.kits, up.photos[key].kit)]
            matches == IF key \in DOMAIN w.photos THEN {key}
                       ELSE {p \in DOMAIN w.photos : w.photos[p].kit = row.kit}
            id == IdOf(key, matches, PhotoIds, w.photos, up.photos)
        IN  Planned(mode, id, Row(w.photos, id), row, [kit |-> None], {})]

\* The items that lines name and nothing holds, made at 0 on hand.
Stubs(w, up, items, lines) ==
    LET naming == {key \in DOMAIN lines :
                      /\ Cell(lines[key].row, "ref") # None
                      /\ lines[key].row.ref \notin DOMAIN w.items
                      /\ \A r \in DOMAIN items : items[r].id # lines[key].row.ref}
    IN  {[name |-> up.lines[key].named, onHand |-> 0] : key \in naming}

\* The tables, in the order their references need.
Plan(c, up, mode) ==
    LET w == World(c, mode)
        items == ItemRows(w, up, mode)
        orders == OrderRows(w, up, mode)
        lines == LineRows(w, up, mode, items, orders)
        kits == KitRows(w, up, mode, lines)
        photos == PhotoRows(w, up, mode, kits)
    IN  [w |-> w, up |-> up, mode |-> mode, items |-> items, orders |-> orders,
         lines |-> lines, kits |-> kits, photos |-> photos,
         stubs |-> Stubs(w, up, items, lines)]

-----------------------------------------------------------------------------
(* What the plan says about lines and kits once it is written.             *)

Writes(r) == r.act # "skip"

Entries(rows) == {rows[key] : key \in DOMAIN rows}

\* A table once the plan's rows are in it.
After(stored, rows) ==
    [i \in DOMAIN stored \cup {r.id : r \in Entries(rows)} |->
        IF \E r \in Entries(rows) : r.id = i
        THEN (CHOOSE r \in Entries(rows) : r.id = i).after
        ELSE stored[i]]

OrdersAfter(p) == After(p.w.orders, p.orders)
LinesAfter(p) == After(p.w.lines, p.lines)
KitsAfter(p) == After(p.w.kits, p.kits)

\* Mutant: the kits a line holds now.
AttachedNow(p, l) == KitsOn(p.w, l)

\* The kits a line will hold: the stored ones the file leaves or moves there,
\* and the ones it creates there.
AttachedAfter(p, l) == {k \in DOMAIN p.w.kits : KitsAfter(p)[k].line = l}

Covered(p, l) == {r.id : r \in {e \in Entries(p.kits) :
                                    e.act = "create" /\ e.after.line = l}}

Held(p, l) == Cardinality(AttachedAfter(p, l) \cup Covered(p, l))

\* Mutant: any quantity the file states, changed or not.
StatesQuantity(r) == r.act = "create" \/ Cell(r.row, "quantity") # None

WritesQuantity(r) ==
    \/ r.act = "create"
    \/ r.act = "update" /\ r.after.quantity # r.old.quantity

\* The lines whose kits this file may spawn or remove: kit lines it writes a
\* quantity for.
Reconciled(p) ==
    {r.id : r \in {e \in Entries(p.lines) :
                      Writes(e) /\ e.after.type = "kit" /\ WritesQuantity(e)}}

KitProgressed(c, k) ==
    \/ c.kits[k].status \in ProgressedStatuses
    \/ c.kits[k].rating # None
    \/ \E p \in DOMAIN c.photos : c.photos[p].kit = k

\* Every kit with evidence of work on it, stored or in this file.
Protected(p) ==
    {k \in DOMAIN p.w.kits : KitProgressed(p.w, k)}
    \cup {r.id : r \in {e \in Entries(p.kits) :
                           /\ Writes(e)
                           /\ \/ Cell(e.row, "status") \in ProgressedStatuses
                              \/ Cell(e.row, "rating") # None}}
    \cup {r.row.kit : r \in {e \in Entries(p.photos) : Writes(e)}}

Surplus(p, l) == Held(p, l) - LinesAfter(p)[l].quantity

\* A kit the file describes or protects is never given up.
Removable(p, l) ==
    AttachedAfter(p, l) \ ({r.id : r \in Entries(p.kits)} \cup Protected(p))

Short(p) == {l \in Reconciled(p) : Surplus(p, l) < 0}

Over(p) == {l \in Reconciled(p) : Surplus(p, l) > 0}

Spawned(p) == SumFunctionOnSet([l \in Short(p) |-> -Surplus(p, l)], Short(p))

\* What a spawned kit begins as: the status its line's row states, carried on to where
\* its order is.
SpawnStatus(p, l) ==
    LET order == OrdersAfter(p)[LinesAfter(p)[l].order]
        stated == {r.row.status : r \in {e \in Entries(p.lines) :
                                            e.id = l /\ Cell(e.row, "status") # None}}
        landed == IF stated = {} THEN "ordered" ELSE CHOOSE s \in stated : TRUE
    IN  CASE order.received # None /\ landed \in ArrivalEligible -> "backlog"
          [] order.received = None /\ order.shipped # None /\ landed \in ShipEligible ->
                "in_transit"
          [] OTHER -> landed

\* Where the orders this file marks shipped or received carry their stored
\* kits, unless the file gives a kit a status of its own.
NewlySet(r, c) == r.act = "update" /\ r.old[c] = None /\ r.after[c] # None

AdvanceOrders(p, k) ==
    {r \in Entries(p.orders) :
        /\ k \in DOMAIN p.w.kits
        /\ p.w.kits[k].line # None
        /\ p.w.lines[p.w.kits[k].line].order = r.id
        /\ p.w.lines[p.w.kits[k].line].type = "kit"}

ExplicitStatus(p) ==
    {r.id : r \in {e \in Entries(p.kits) : e.old # None /\ "status" \in DOMAIN e.row}}

Advanced(p, k) ==
    LET status == KitsAfter(p)[k].status
        moved(c, eligible) == /\ k \notin ExplicitStatus(p)
                              /\ \E r \in AdvanceOrders(p, k) : NewlySet(r, c)
                              /\ status \in eligible
    IN  CASE moved("received", ArrivalEligible) -> "backlog"
          [] ~moved("received", ArrivalEligible) /\ moved("shipped", ShipEligible) ->
                "in_transit"
          [] OTHER -> status

-----------------------------------------------------------------------------
(* What refuses a file.  Each conjunct of Accepted is one or a few of the  *)
(* code's row errors; one of them anywhere blocks the whole plan.          *)

\* No stored row is the answer to two questions, or one of two answers.
Matched(p) ==
    /\ \A key \in DOMAIN p.up.items :
          Cardinality(MatchGeneric(p.w.items, key, Cell(p.up.items[key], "name"))) < 2
    /\ \A key \in DOMAIN p.up.orders : Cardinality(MatchOrder(p.w, p.up, key)) < 2
    /\ \A rows \in {p.items, p.orders, p.lines, p.kits, p.photos} :
          \A a, b \in DOMAIN rows :
              a # b /\ Writes(rows[a]) /\ Writes(rows[b]) => rows[a].id # rows[b].id

\* A cell the column needs is filled, and a quantity is in the range of one.
Filled(p) ==
    /\ \A r \in Entries(p.items) : r.after.name # None /\ r.after.onHand \in Nat
    /\ \A r \in Entries(p.lines) :
          /\ r.after.type # None
          /\ \A c \in {"type", "quantity"} \cap DOMAIN r.row : r.row[c] # None
          /\ r.after.quantity # None
          /\ Cell(r.row, "quantity") # None => r.row.quantity \in 1..MaxLineQuantity

\* A line names its order, a photo its kit; a kit's line may be left out, but
\* an id that names nothing may not clear a link or be dropped by a restore.
Referenced(p) ==
    /\ \A r \in Entries(p.lines) : Cell(r.row, "order") # None
    /\ \A r \in Entries(p.photos) : r.row.kit # None
    /\ \A key \in DOMAIN p.kits :
          LET r == p.kits[key]
          IN  Cell(p.up.kits[key], "line") # None /\ r.row.line = None =>
                  /\ p.mode # "replace_all"
                  /\ r.act # "skip" => Old(r, "line") = None
    /\ \A key \in DOMAIN p.lines :
          LET r == p.lines[key]
          IN  Cell(p.up.lines[key], "ref") # None /\ r.row.ref = None
                  /\ EffectiveType(p.w, key, p.up.lines[key]) = "tool" =>
                  /\ p.mode # "replace_all"
                  /\ r.act # "skip" => Old(r, "ref") = None

\* A stored line keeps its type and its order.
CheckImmutableLineColumns(p) ==
    \A r \in Entries(p.lines) :
        r.act = "update" => r.after.type = r.old.type /\ r.after.order = r.old.order

\* Mutant: only a new line is asked for its item.
CheckNewCatalogTargets(p) ==
    \A r \in Entries(p.lines) :
        r.act = "create" /\ r.after.type = "tool" => r.after.ref # None

\* A catalog line whose reference is written has one.
CheckCatalogTargets(p) ==
    \A r \in Entries(p.lines) :
        /\ Writes(r)
        /\ r.act = "create" \/ "ref" \in DOMAIN r.row
        /\ r.after.type = "tool"
        => r.after.ref # None

\* A new catalog line may not join a stored order that was received.
CheckLinesJoiningReceivedOrders(p) ==
    \A r \in Entries(p.lines) :
        r.act = "create" /\ r.after.type = "tool" /\ r.after.order \in DOMAIN p.w.orders =>
            p.w.orders[r.after.order].received = None

\* Mutant: the stored lines alone.
CatalogLinesStoredOn(p, o) == {l \in LinesOn(p.w, o) : p.w.lines[l].type = "tool"}

\* The lines an order will hold that move stock: stored, or in the file.
CatalogLinesOn(p, o) ==
    {l \in LinesOn(p.w, o) : p.w.lines[l].type = "tool"}
    \cup {r.id : r \in {e \in Entries(p.lines) :
                           Writes(e) /\ e.after.order = o /\ e.after.type = "tool"}}

\* An order with such lines does not become received, or pending again.
CheckReceiptTransitions(p) ==
    \A r \in Entries(p.orders) :
        r.act = "update" /\ (r.old.received = None) # (r.after.received = None) =>
            CatalogLinesOn(p, r.id) = {}

\* No order is un-shipped.
CheckShipDates(p) ==
    \A r \in Entries(p.orders) :
        r.act = "update" /\ r.old.shipped # None => r.after.shipped # None

\* A protected kit keeps the line that bought it.
KeepsProvenance(p) ==
    \A r \in Entries(p.kits) :
        r.act = "update" /\ r.old.line # None /\ r.id \in Protected(p) =>
            r.after.line = r.old.line

\* A line that a kit moves off or onto, and that the file writes no quantity
\* for, is a kit line and ends up holding what it says.
MovesReconciled(p) ==
    \A r \in Entries(p.kits) :
        LET from == Old(r, "line")
        IN  Writes(r) /\ "line" \in DOMAIN r.row /\ r.after.line # from =>
                \A l \in ({from, r.after.line} \cap DOMAIN LinesAfter(p)) \ Reconciled(p) :
                    LinesAfter(p)[l].type = "kit" /\ Surplus(p, l) = 0

\* A line that needs more kits says what they are, and the file asks for no
\* more than one import may make.
SpawnsStated(p) ==
    /\ \A l \in Short(p) :
          \E r \in Entries(p.lines) : r.id = l /\ Cell(r.row, "kit") # None
    /\ Spawned(p) <= MaxTotalFanout

\* A line that says fewer kits than it will hold has enough it may give up.
RemovalsCovered(p) ==
    \A l \in Over(p) : Surplus(p, l) <= Cardinality(Removable(p, l))

Accepted(p) ==
    /\ Matched(p)
    /\ Filled(p)
    /\ Referenced(p)
    /\ CheckImmutableLineColumns(p)
    /\ CheckCatalogTargets(p)
    /\ CheckLinesJoiningReceivedOrders(p)
    /\ CheckReceiptTransitions(p)
    /\ CheckShipDates(p)
    /\ KeepsProvenance(p)
    /\ MovesReconciled(p)
    /\ SpawnsStated(p)
    /\ RemovalsCovered(p)

-----------------------------------------------------------------------------
(* Applying an accepted plan.                                              *)

\* Bound: the ids the plan still needs are there to be given out.
Room(p) ==
    /\ Spawned(p) <= Cardinality(KitIds \ DOMAIN KitsAfter(p))
    /\ \A rows \in {p.items, p.lines, p.orders, p.kits, p.photos} :
          \A r \in Entries(rows) : r.id # Unnamed
    /\ p.stubs # {} => StubId(p.w, p.up) # Unnamed

\* A table with rows added to it.
With(table, more) ==
    [i \in DOMAIN table \cup DOMAIN more |-> IF i \in DOMAIN table THEN table[i] ELSE more[i]]

\* The stubs take ids nothing else has.
WithStubs(p, items) ==
    IF p.stubs = {} THEN items
    ELSE With(items, [i \in {StubId(p.w, p.up)} |-> CHOOSE s \in p.stubs : TRUE])

\* The kits to spawn, each on its line; which ids they get is not modelled.
Births(p) ==
    {born \in UNION {[new -> Short(p)] : new \in SUBSET (KitIds \ DOMAIN KitsAfter(p))} :
        \A l \in Short(p) : Cardinality({k \in DOMAIN born : born[k] = l}) = -Surplus(p, l)}

\* Which kits go is the newest of those that may; their order is not modelled.
Victims(p) ==
    {gone \in SUBSET UNION {Removable(p, l) : l \in Over(p)} :
        \A l \in Over(p) : Cardinality(gone \cap Removable(p, l)) = Surplus(p, l)}

Without(table, gone) == [i \in DOMAIN table \ gone |-> table[i]]

\* The tables as the commit leaves them: rows written, kits advanced, the
\* given-up kits and their photos gone, the missing kits spawned.
Applied(p, gone, born) ==
    LET kits == KitsAfter(p)
        photos == After(p.w.photos, p.photos)
        spawned == [k \in DOMAIN born |->
                       [line |-> born[k], status |-> SpawnStatus(p, born[k]), rating |-> None]]
    IN  [items |-> WithStubs(p, After(p.w.items, p.items)),
         orders |-> OrdersAfter(p),
         lines |-> LinesAfter(p),
         kits |-> With(Without([k \in DOMAIN kits |->
                                   [kits[k] EXCEPT !.status = Advanced(p, k)]], gone),
                       spawned),
         photos |-> Without(photos, {i \in DOMAIN photos : photos[i].kit \in gone})]

CreatedLine(p, l) == \E r \in Entries(p.lines) : r.id = l /\ r.act = "create"

\* An import applies no stock, received or not: a kept line's stays what its own
\* receipt applied.
AppliedAfter(p) ==
    [l \in LineIds |->
        IF l \in DOMAIN p.w.lines /\ ~CreatedLine(p, l) THEN applied[l] ELSE 0]

\* A new line of a new order that is received already comes with its receipt.  Its
\* units are on hand as far as the sheets of the catalog say so: without such a sheet
\* its item is a stub and has none.
BroughtAfter(p) ==
    LET lines == LinesAfter(p)
        arrived(o) == \E r \in Entries(p.orders) :
                         r.id = o /\ r.act = "create" /\ r.after.received # None
    IN  {l \in brought : l \in DOMAIN p.w.lines /\ ~CreatedLine(p, l)}
        \cup {l \in DOMAIN lines : /\ CreatedLine(p, l) /\ lines[l].type = "tool"
                                   /\ arrived(lines[l].order)}

\* Every row the result counts as written is there.
Reported(p, c) ==
    \A t \in {"items", "orders", "lines", "kits", "photos"} :
        \A r \in Entries(p[t]) : r.act \in {"create", "update"} => r.id \in DOMAIN c[t]

\* POST /import/apply.
ApplyImport(up, mode) ==
    LET p == Plan(db, up, mode)
    IN  /\ imports < MaxImports
        /\ Accepted(p)
        /\ Room(p)
        /\ \E gone \in Victims(p), born \in Births(p) :
              /\ db' = Applied(p, gone, born)
              /\ reported' = Reported(p, db')
        /\ applied' = AppliedAfter(p)
        /\ brought' = BroughtAfter(p)
        /\ last' = mode
        /\ imports' = imports + 1

-----------------------------------------------------------------------------
(* The writers an import meets: module Collection has them in full.        *)

\* The order's kits land and its catalog lines' units go into stock.
ReceiveOrder(o) ==
    LET bought == {l \in LinesOn(db, o) : db.lines[l].type = "tool"}
        units(i) == SumFunctionOnSet([l \in bought |-> db.lines[l].quantity],
                                     {l \in bought : db.lines[l].ref = i})
        landing == {k \in DOMAIN db.kits :
                       /\ db.kits[k].line # None
                       /\ db.lines[db.kits[k].line].order = o
                       /\ db.kits[k].status \in ArrivalEligible}
    IN  /\ db.orders[o].received = None
        /\ \A l \in bought : db.lines[l].ref \in DOMAIN db.items
        /\ \A i \in DOMAIN db.items :
              units(i) > 0 => db.items[i].onHand + units(i) <= MaxOnHand
        /\ db' = [db EXCEPT
              !.orders[o].received = "day",
              !.items = [i \in DOMAIN db.items |->
                            [db.items[i] EXCEPT !.onHand = @ + units(i)]],
              !.kits = [k \in DOMAIN db.kits |->
                           IF k \in landing THEN [db.kits[k] EXCEPT !.status = "backlog"]
                           ELSE db.kits[k]]]
        /\ applied' = [l \in LineIds |-> IF l \in bought THEN db.lines[l].quantity
                                         ELSE applied[l]]
        /\ last' = "live"
        /\ UNCHANGED <<brought, reported, imports>>

\* The owner starts building a kit.
StartBuild(k) ==
    /\ db.kits[k].status = "backlog"
    /\ db' = [db EXCEPT !.kits[k].status = "building"]
    /\ last' = "live"
    /\ UNCHANGED <<applied, brought, reported, imports>>

Init ==
    /\ db \in Starts
    /\ applied = [l \in LineIds |->
          IF /\ l \in DOMAIN db.lines
             /\ db.lines[l].type = "tool"
             /\ db.orders[db.lines[l].order].received # None
          THEN db.lines[l].quantity ELSE 0]
    /\ brought = {}
    /\ last = "live"
    /\ reported = TRUE
    /\ imports = 0

Next ==
    \/ \E up \in Uploads, mode \in Modes : ApplyImport(up, mode)
    \/ \E o \in DOMAIN db.orders : ReceiveOrder(o)
    \/ \E k \in DOMAIN db.kits : StartBuild(k)

Spec == Init /\ [][Next]_vars

-----------------------------------------------------------------------------
(* Properties.                                                             *)

\* No import leaves a line without its order, a kit on a line that is not there,
\* or a photo of a kit that is not there.
TypeOK ==
    /\ IsCollection(db)
    /\ applied \in [LineIds -> 0..MaxLineQuantity]
    /\ brought \subseteq LineIds
    /\ last \in Modes \cup {"live"}
    /\ reported \in BOOLEAN
    /\ imports \in 0..MaxImports

Dangling(c) ==
    \E l \in DOMAIN c.lines : c.lines[l].type = "tool" /\ c.lines[l].ref \notin DOMAIN c.items

\* Applying the plan leaves the collection as it is, whatever it may choose.
ChangesNothing(p) ==
    Victims(p) = {{}} /\ Births(p) = {<<>>} /\ Applied(p, {}, <<>>) = db

\* An archive of the instance's own, brought back in a mode that keeps what
\* is there, is taken and changes nothing, even where older importers left a
\* line with the wrong number of kits.  Where a line's item is gone it may be
\* refused, and still changes nothing.
OwnArchiveHarmless ==
    \A mode \in {"merge", "add_only"} :
        LET p == Plan(db, db, mode)
        IN  IF Accepted(p) THEN ChangesNothing(p) ELSE Dangling(db)

\* A line holds the kits it says, and none if it is not of kits.
AsBought(c) ==
    \A l \in DOMAIN c.lines :
        Cardinality(KitsOn(c, l)) =
            IF c.lines[l].type = "kit" THEN c.lines[l].quantity ELSE 0

\* A collection whose lines hold what they say and name items that are there
\* is put back exactly by its own archive in replace_all.
OwnArchiveRestores ==
    LET p == Plan(db, db, "replace_all")
    IN  AsBought(db) /\ ~Dangling(db) => Accepted(p) /\ ChangesNothing(p)

\* "Export, edit, import": a collection's own archive is never a change to it,
\* whatever mode it comes back in (services/portability/importing.py _plan).
OwnArchive == OwnArchiveHarmless /\ OwnArchiveRestores

\* No import flips a receipt from under the stock (the predicates of invariants.py):
\* whatever mix of imports and receipts led here, a catalog line's order is received
\* exactly when a receipt here put the line's units into stock or an import brought the
\* line in with its received order, and never both, so that none is counted twice.  It
\* does not say that what was brought in is on hand: that is for the file's catalog
\* sheets, and a merge without one leaves a stub at 0 (BroughtAfter).
ReceiptsAccounted ==
    \A l \in DOMAIN db.lines :
        db.lines[l].type = "tool" =>
            LET received == db.orders[db.lines[l].order].received # None
            IN  /\ received <=> (applied[l] > 0 \/ l \in brought)
                /\ ~(applied[l] > 0 /\ l \in brought)

\* The result of an import is true: nothing it says it wrote was removed or
\* cascaded away by the same apply.
ReportedIsThere == reported

Imported == last' \in Modes

\* An import that changes what a kit line says, or which kits are on it,
\* leaves it holding exactly what it says.
KitLinesExact ==
    [][Imported =>
        \A l \in DOMAIN db'.lines :
            /\ db'.lines[l].type = "kit"
            /\ \/ l \notin DOMAIN db.lines
               \/ db'.lines[l].quantity # db.lines[l].quantity
               \/ KitsOn(db', l) # KitsOn(db, l)
            => Cardinality(KitsOn(db', l)) = db'.lines[l].quantity]_vars

\* No import but a restore takes away a kit that has been worked on, or will
\* have been by the same import, or takes it off the line that bought it.
WorkedOnKept ==
    [][last' \in {"merge", "add_only"} =>
        \A k \in DOMAIN db.kits :
            /\ \/ KitProgressed(db, k)
               \/ k \in DOMAIN db'.kits /\ KitProgressed(db', k)
            /\ db.kits[k].line # None
            => k \in DOMAIN db'.kits /\ db'.kits[k].line = db.kits[k].line]_vars

\* add_only adds: every stored row is there afterwards as it was.
AddOnlyAdds ==
    [][last' = "add_only" =>
        \A t \in DOMAIN db :
            \A i \in DOMAIN db[t] : i \in DOMAIN db'[t] /\ db'[t][i] = db[t][i]]_vars

\* What an import does is what its plan said: every row it reported is there, kit
\* lines it touched hold what they say, kits that were worked on stay, and add_only
\* takes nothing away (_plan_kit_line_reconciliation, apply_import).
AsPlanned == []TypeOK /\ []ReportedIsThere /\ KitLinesExact /\ WorkedOnKept /\ AddOnlyAdds

\* Every catalog reference an import leaves either names an item that is
\* there or was already broken, on the same line, before it.
RefsLand ==
    [][Imported =>
        \A l \in DOMAIN db'.lines :
            db'.lines[l].type = "tool" =>
                \/ db'.lines[l].ref \in DOMAIN db'.items
                \/ /\ last' # "replace_all"
                   /\ l \in DOMAIN db.lines
                   /\ db'.lines[l].ref = db.lines[l].ref]_vars

=============================================================================
