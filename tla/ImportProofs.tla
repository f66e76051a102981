---------------------------- MODULE ImportProofs ----------------------------
(* Theorems about how an archive is read (Intake) and what an import does   *)
(* (ImportPlan), for every collection, file and bound.                      *)
EXTENDS ImportPlan, Intake, SumLemmas

-----------------------------------------------------------------------------
(* One row of a plan.                                                       *)

\* What a planned row is to the table it lands in.
Entered(r, mode, stored, default, unstatable) ==
    /\ r.old = Row(stored, r.id)
    /\ r.act \in {"create", "skip", "unchanged", "update"}
    /\ r.act = "create" <=> r.old = None
    /\ r.act = "skip" <=> r.old # None /\ mode = "add_only"
    /\ r.act = "create" => r.after = Written(default, r.row, unstatable)
    /\ r.act \in {"unchanged", "update"} => r.after = Written(r.old, r.row, unstatable)
    /\ r.act \in {"skip", "unchanged"} => r.after = r.old

LEMMA PlannedEnters ==
    ASSUME NEW mode, NEW id, NEW stored, NEW row, NEW default, NEW unstatable
    PROVE  LET r == Planned(mode, id, Row(stored, id), row, default, unstatable)
           IN  r.id = id /\ r.row = row /\ Entered(r, mode, stored, default, unstatable)
  <1> DEFINE old == Row(stored, id)
             after == Written(IF old = None THEN default ELSE old, row, unstatable)
             act == ActionOf(mode, old, after)
             r == Planned(mode, id, old, row, default, unstatable)
  <1>1. r = [id |-> id, old |-> old, row |-> row, act |-> act,
             after |-> IF act = "skip" THEN old ELSE after]
    BY DEF Planned
  <1>2. /\ act \in {"create", "skip", "unchanged", "update"}
        /\ act = "create" <=> old = None
        /\ act = "skip" <=> old # None /\ mode = "add_only"
        /\ act = "unchanged" => after = old
    BY DEF ActionOf
  <1>3. /\ old = None => after = Written(default, row, unstatable)
        /\ old # None => after = Written(old, row, unstatable)
    OBVIOUS
  <1> HIDE DEF r, act, after
  <1>4. /\ r.id = id /\ r.row = row /\ r.old = old /\ r.act = act
        /\ r.after = IF act = "skip" THEN old ELSE after
    BY <1>1
  <1>5. Entered(r, mode, stored, default, unstatable)
    BY <1>2, <1>3, <1>4 DEF Entered
  <1> QED
    BY <1>4, <1>5 DEF r

\* An id is one of its table's, or the model has none left.
LEMMA IdType ==
    ASSUME NEW pool, NEW key \in pool \cup {Unnamed}, NEW matches \in SUBSET pool,
           NEW stored, NEW sheet
    PROVE  /\ IdOf(key, matches, pool, stored, sheet) \in pool \cup {Unnamed}
           /\ matches # {} => IdOf(key, matches, pool, stored, sheet) \in matches
           /\ matches = {} /\ key # Unnamed => IdOf(key, matches, pool, stored, sheet) = key
  <1>1. Fresh(pool, DOMAIN stored \cup DOMAIN sheet) \in pool \cup {Unnamed}
    BY DEF Fresh
  <1> QED
    BY <1>1 DEF IdOf

\* Each table's rows land under ids of the table, no two written under one.
Lands(rows, sheet, ids, mode, stored, default, unstatable) ==
    /\ DOMAIN rows = DOMAIN sheet
    /\ \A key \in DOMAIN rows :
          Entered(rows[key], mode, stored, default, unstatable) /\ rows[key].id \in ids
    /\ \A a, b \in DOMAIN rows :
          a # b /\ Writes(rows[a]) /\ Writes(rows[b]) => rows[a].id # rows[b].id

\* A table after the plan's rows: each row where it lands, and the rest as stored.
Holds(table, rows, stored) ==
    /\ DOMAIN table = DOMAIN stored \cup {r.id : r \in Entries(rows)}
    /\ \A r \in Entries(rows) : r.id \in DOMAIN table /\ table[r.id] = r.after
    /\ \A i \in DOMAIN stored : (\A r \in Entries(rows) : r.id # i) => table[i] = stored[i]

LEMMA AfterFacts ==
    ASSUME NEW rows, NEW sheet, NEW ids, NEW mode, NEW stored, NEW default, NEW unstatable,
           Lands(rows, sheet, ids, mode, stored, default, unstatable)
    PROVE  Holds(After(stored, rows), rows, stored)
  <1>1. ASSUME NEW r \in Entries(rows), NEW s \in Entries(rows), r.id = s.id
        PROVE  r.after = s.after
    <2>1. PICK a \in DOMAIN rows : r = rows[a]
      BY DEF Entries
    <2>2. PICK b \in DOMAIN rows : s = rows[b]
      BY DEF Entries
    <2>3. /\ Entered(r, mode, stored, default, unstatable)
          /\ Entered(s, mode, stored, default, unstatable)
      BY <2>1, <2>2 DEF Lands
    <2>4. CASE Writes(r) /\ Writes(s)
      BY <1>1, <2>1, <2>2, <2>4 DEF Lands
    <2>5. CASE ~(Writes(r) /\ Writes(s))
      <3>1. r.old = s.old
        BY <1>1, <2>3 DEF Entered
      <3>2. r.act = "skip" /\ s.act = "skip"
        BY <2>3, <2>5, <3>1 DEF Entered, Writes
      <3> QED
        BY <2>3, <3>1, <3>2 DEF Entered
    <2> QED
      BY <2>4, <2>5
  <1> DEFINE table == After(stored, rows)
  <1>2. DOMAIN table = DOMAIN stored \cup {r.id : r \in Entries(rows)}
    BY DEF After
  <1>3. ASSUME NEW r \in Entries(rows)
        PROVE  r.id \in DOMAIN table /\ table[r.id] = r.after
    <2>1. r.id \in DOMAIN table
      BY <1>2
    <2>2. PICK s \in Entries(rows) : s.id = r.id /\ table[r.id] = s.after
      BY <2>1 DEF After
    <2> QED
      BY <1>1, <2>1, <2>2
  <1>4. ASSUME NEW i \in DOMAIN stored, \A r \in Entries(rows) : r.id # i
        PROVE  table[i] = stored[i]
    BY <1>4 DEF After
  <1> HIDE DEF table
  <1> QED
    BY <1>2, <1>3, <1>4 DEF table, Holds

-----------------------------------------------------------------------------
(* A plan that is taken, and its five tables.                               *)

\* The plan of a file that is accepted and applied.
Taken(p, c, up, mode) ==
    /\ p = Plan(c, up, mode)
    /\ IsCollection(c) /\ IsFile(up) /\ mode \in Modes
    /\ Accepted(p) /\ Room(p)

LEMMA NothingIsACollection == IsCollection(Nothing)
  <1>1. /\ Nothing.items = <<>> /\ Nothing.orders = <<>> /\ Nothing.lines = <<>>
        /\ Nothing.kits = <<>> /\ Nothing.photos = <<>>
    BY DEF Nothing
  <1>2. Nothing = [items |-> <<>>, orders |-> <<>>, lines |-> <<>>, kits |-> <<>>,
                   photos |-> <<>>]
    BY DEF Nothing
  <1>3. DOMAIN <<>> = {}
    OBVIOUS
  <1>4. \A ids, rows : IsTable(<<>>, ids, rows)
    BY <1>3 DEF IsTable
  <1> QED
    BY <1>1, <1>2, <1>3, <1>4 DEF IsCollection

LEMMA PlanParts ==
    ASSUME NEW p, NEW c, NEW up, NEW mode, p = Plan(c, up, mode)
    PROVE  /\ p.w = World(c, mode) /\ p.up = up /\ p.mode = mode
           /\ p.items = ItemRows(p.w, up, mode)
           /\ p.orders = OrderRows(p.w, up, mode)
           /\ p.lines = LineRows(p.w, up, mode, p.items, p.orders)
           /\ p.kits = KitRows(p.w, up, mode, p.lines)
           /\ p.photos = PhotoRows(p.w, up, mode, p.kits)
           /\ p.stubs = Stubs(p.w, up, p.items, p.lines)
  BY DEF Plan

\* replace_all plans against nothing, the others against what is there.
LEMMA WorldFacts ==
    ASSUME NEW c, IsCollection(c), NEW mode
    PROVE  /\ IsCollection(World(c, mode))
           /\ mode = "replace_all" => World(c, mode) = Nothing
           /\ mode # "replace_all" => World(c, mode) = c
  BY NothingIsACollection DEF World

NewItem == [name |-> None, onHand |-> 0]
NewOrder == [number |-> None, shipped |-> None, received |-> None]
NewLine == [order |-> None, type |-> None, ref |-> None, quantity |-> None]
NewKit == [line |-> None, status |-> "backlog", rating |-> None]
NewPhoto == [kit |-> None]

LEMMA RoomForRows ==
    ASSUME NEW p, Accepted(p), Room(p), NEW rows,
           rows \in {p.items, p.orders, p.lines, p.kits, p.photos}
    PROVE  /\ \A key \in DOMAIN rows : rows[key].id # Unnamed
           /\ \A a, b \in DOMAIN rows :
                 a # b /\ Writes(rows[a]) /\ Writes(rows[b]) => rows[a].id # rows[b].id
  <1>1. \A r \in Entries(rows) : r.id # Unnamed
    BY DEF Room
  <1>2. Matched(p)
    BY DEF Accepted
  <1> QED
    BY <1>1, <1>2 DEF Entries, Matched

LEMMA ItemsLand ==
    ASSUME NEW p, NEW c, NEW up, NEW mode, Taken(p, c, up, mode)
    PROVE  /\ Lands(p.items, up.items, ItemIds, mode, p.w.items, NewItem, {"onHand"})
           /\ \A key \in DOMAIN up.items : p.items[key].row = up.items[key]
  <1>1. p.items = ItemRows(p.w, up, mode) /\ IsCollection(p.w)
    BY PlanParts, WorldFacts DEF Taken
  <1>2. DOMAIN p.w.items \subseteq ItemIds /\ DOMAIN up.items \subseteq ItemIds \cup {Unnamed}
    BY <1>1 DEF IsCollection, IsTable, IsFile, IsSheet, Taken
  <1>3. ASSUME NEW key \in DOMAIN up.items
        PROVE  /\ Entered(p.items[key], mode, p.w.items, NewItem, {"onHand"})
               /\ p.items[key].id \in ItemIds \cup {Unnamed}
               /\ p.items[key].row = up.items[key]
    <2> DEFINE matches == MatchGeneric(p.w.items, key, Cell(up.items[key], "name"))
               id == IdOf(key, matches, ItemIds, p.w.items, up.items)
    <2>1. p.items[key] = Planned(mode, id, Row(p.w.items, id), up.items[key], NewItem, {"onHand"})
      BY <1>1, <1>3 DEF ItemRows, NewItem
    <2>2. matches \in SUBSET ItemIds
      BY <1>2 DEF MatchGeneric, ItemsNamed
    <2>3. id \in ItemIds \cup {Unnamed}
      BY <1>2, <1>3, <2>2, IdType
    <2> HIDE DEF id
    <2> QED
      BY <2>1, <2>3, PlannedEnters
  <1>4. DOMAIN p.items = DOMAIN up.items
    BY <1>1 DEF ItemRows
  <1> QED
    BY <1>3, <1>4, RoomForRows DEF Lands, Taken

LEMMA OrdersLand ==
    ASSUME NEW p, NEW c, NEW up, NEW mode, Taken(p, c, up, mode)
    PROVE  /\ Lands(p.orders, up.orders, OrderIds, mode, p.w.orders, NewOrder, {})
           /\ \A key \in DOMAIN up.orders : p.orders[key].row = up.orders[key]
  <1>1. p.orders = OrderRows(p.w, up, mode) /\ IsCollection(p.w)
    BY PlanParts, WorldFacts DEF Taken
  <1>2. DOMAIN p.w.orders \subseteq OrderIds /\ DOMAIN up.orders \subseteq OrderIds \cup {Unnamed}
    BY <1>1 DEF IsCollection, IsTable, IsFile, IsSheet, Taken
  <1>3. ASSUME NEW key \in DOMAIN up.orders
        PROVE  /\ Entered(p.orders[key], mode, p.w.orders, NewOrder, {})
               /\ p.orders[key].id \in OrderIds \cup {Unnamed}
               /\ p.orders[key].row = up.orders[key]
    <2> DEFINE matches == MatchOrder(p.w, up, key)
               id == IdOf(key, matches, OrderIds, p.w.orders, up.orders)
    <2>1. p.orders[key] = Planned(mode, id, Row(p.w.orders, id), up.orders[key], NewOrder, {})
      BY <1>1, <1>3 DEF OrderRows, NewOrder
    <2>2. matches \in SUBSET OrderIds
      BY <1>2 DEF MatchOrder
    <2>3. id \in OrderIds \cup {Unnamed}
      BY <1>2, <1>3, <2>2, IdType
    <2> HIDE DEF id
    <2> QED
      BY <2>1, <2>3, PlannedEnters
  <1>4. DOMAIN p.orders = DOMAIN up.orders
    BY <1>1 DEF OrderRows
  <1> QED
    BY <1>3, <1>4, RoomForRows DEF Lands, Taken

LEMMA LinesLand ==
    ASSUME NEW p, NEW c, NEW up, NEW mode, Taken(p, c, up, mode)
    PROVE  /\ Lands(p.lines, up.lines, LineIds, mode, p.w.lines, NewLine, {})
           /\ \A key \in DOMAIN up.lines :
                 p.lines[key].row = ResolvedLine(p.w, up, p.items, p.orders, key)
  <1>1. p.lines = LineRows(p.w, up, mode, p.items, p.orders) /\ IsCollection(p.w)
    BY PlanParts, WorldFacts DEF Taken
  <1>2. DOMAIN p.w.lines \subseteq LineIds /\ DOMAIN up.lines \subseteq LineIds \cup {Unnamed}
    BY <1>1 DEF IsCollection, IsTable, IsFile, IsSheet, Taken
  <1>3. ASSUME NEW key \in DOMAIN up.lines
        PROVE  /\ Entered(p.lines[key], mode, p.w.lines, NewLine, {})
               /\ p.lines[key].id \in LineIds \cup {Unnamed}
               /\ p.lines[key].row = ResolvedLine(p.w, up, p.items, p.orders, key)
    <2> DEFINE row == ResolvedLine(p.w, up, p.items, p.orders, key)
               matches == MatchOrderItem(p.w, key, row)
               id == IdOf(key, matches, LineIds, p.w.lines, up.lines)
    <2>1. p.lines[key] = Planned(mode, id, Row(p.w.lines, id), row, NewLine, {})
      BY <1>1, <1>3 DEF LineRows, NewLine
    <2>2. matches \in SUBSET LineIds
      BY <1>2 DEF MatchOrderItem, LinesOn
    <2>3. id \in LineIds \cup {Unnamed}
      BY <1>2, <1>3, <2>2, IdType
    <2> HIDE DEF id, row
    <2> QED
      BY <2>1, <2>3, PlannedEnters DEF row
  <1>4. DOMAIN p.lines = DOMAIN up.lines
    BY <1>1 DEF LineRows
  <1> QED
    BY <1>3, <1>4, RoomForRows DEF Lands, Taken

\* A kit's row, with the line its cell stands for.
ResolvedKit(p, up, key) ==
    [col \in DOMAIN up.kits[key] |->
        IF col = "line" THEN KitLine(p.w, p.lines, up.kits[key].line) ELSE up.kits[key][col]]

LEMMA KitsLand ==
    ASSUME NEW p, NEW c, NEW up, NEW mode, Taken(p, c, up, mode)
    PROVE  /\ Lands(p.kits, up.kits, KitIds, mode, p.w.kits, NewKit, {"status"})
           /\ \A key \in DOMAIN up.kits : p.kits[key].row = ResolvedKit(p, up, key)
  <1>1. p.kits = KitRows(p.w, up, mode, p.lines) /\ IsCollection(p.w)
    BY PlanParts, WorldFacts DEF Taken
  <1>2. DOMAIN p.w.kits \subseteq KitIds /\ DOMAIN up.kits \subseteq KitIds \cup {Unnamed}
    BY <1>1 DEF IsCollection, IsTable, IsFile, IsSheet, Taken
  <1>3. ASSUME NEW key \in DOMAIN up.kits
        PROVE  /\ Entered(p.kits[key], mode, p.w.kits, NewKit, {"status"})
               /\ p.kits[key].id \in KitIds \cup {Unnamed}
               /\ p.kits[key].row = ResolvedKit(p, up, key)
    <2> DEFINE row == ResolvedKit(p, up, key)
               matches == {key} \cap DOMAIN p.w.kits
               id == IdOf(key, matches, KitIds, p.w.kits, up.kits)
    <2>1. p.kits[key] = Planned(mode, id, Row(p.w.kits, id), row, NewKit, {"status"})
      BY <1>1, <1>3 DEF KitRows, NewKit, ResolvedKit
    <2>2. matches \in SUBSET KitIds
      BY <1>2
    <2>3. id \in KitIds \cup {Unnamed}
      BY <1>2, <1>3, <2>2, IdType
    <2> HIDE DEF id, row
    <2> QED
      BY <2>1, <2>3, PlannedEnters DEF row
  <1>4. DOMAIN p.kits = DOMAIN up.kits
    BY <1>1 DEF KitRows
  <1> QED
    BY <1>3, <1>4, RoomForRows DEF Lands, Taken

LEMMA PhotosLand ==
    ASSUME NEW p, NEW c, NEW up, NEW mode, Taken(p, c, up, mode)
    PROVE  /\ Lands(p.photos, up.photos, PhotoIds, mode, p.w.photos, NewPhoto, {})
           /\ \A key \in DOMAIN up.photos :
                 p.photos[key].row = [kit |-> Resolve(p.kits, p.w.kits, up.photos[key].kit)]
  <1>1. p.photos = PhotoRows(p.w, up, mode, p.kits) /\ IsCollection(p.w)
    BY PlanParts, WorldFacts DEF Taken
  <1>2. /\ DOMAIN p.w.photos \subseteq PhotoIds
        /\ DOMAIN up.photos \subseteq PhotoIds \cup {Unnamed}
    BY <1>1 DEF IsCollection, IsTable, IsFile, IsSheet, Taken
  <1>3. ASSUME NEW key \in DOMAIN up.photos
        PROVE  /\ Entered(p.photos[key], mode, p.w.photos, NewPhoto, {})
               /\ p.photos[key].id \in PhotoIds \cup {Unnamed}
               /\ p.photos[key].row = [kit |-> Resolve(p.kits, p.w.kits, up.photos[key].kit)]
    <2> DEFINE row == [kit |-> Resolve(p.kits, p.w.kits, up.photos[key].kit)]
               matches == IF key \in DOMAIN p.w.photos THEN {key}
                          ELSE {i \in DOMAIN p.w.photos : p.w.photos[i].kit = row.kit}
               id == IdOf(key, matches, PhotoIds, p.w.photos, up.photos)
    <2>1. p.photos[key] = Planned(mode, id, Row(p.w.photos, id), row, NewPhoto, {})
      BY <1>1, <1>3 DEF PhotoRows, NewPhoto
    <2>2. matches \in SUBSET PhotoIds
      BY <1>2
    <2> HIDE DEF matches
    <2>3. id \in PhotoIds \cup {Unnamed}
      BY <1>2, <1>3, <2>2, IdType
    <2> HIDE DEF id, row
    <2> QED
      BY <2>1, <2>3, PlannedEnters DEF row
  <1>4. DOMAIN p.photos = DOMAIN up.photos
    BY <1>1 DEF PhotoRows
  <1>5. /\ \A key \in DOMAIN p.photos : p.photos[key].id # Unnamed
        /\ \A a, b \in DOMAIN p.photos :
              a # b /\ Writes(p.photos[a]) /\ Writes(p.photos[b]) =>
                  p.photos[a].id # p.photos[b].id
    BY RoomForRows DEF Taken
  <1> QED
    BY <1>3, <1>4, <1>5 DEF Lands

-----------------------------------------------------------------------------
(* What the rows say once written is of their columns.                      *)

LEMMA WrittenCells ==
    ASSUME NEW before, NEW row, NEW unstatable
    PROVE  LET after == Written(before, row, unstatable)
           IN  /\ after = [c \in DOMAIN before |-> after[c]]
               /\ DOMAIN after = DOMAIN before
               /\ \A c \in DOMAIN before :
                     after[c] = IF c \in DOMAIN row /\ ~(c \in unstatable /\ row[c] = None)
                                THEN row[c] ELSE before[c]
  BY DEF Written

\* The stored rows are those of the table.
LEMMA OldRow ==
    ASSUME NEW stored, NEW ids, NEW RowSet, IsTable(stored, ids, RowSet), None \notin RowSet,
           NEW r, NEW mode, NEW default, NEW unstatable,
           Entered(r, mode, stored, default, unstatable)
    PROVE  /\ r.act = "create" <=> r.id \notin DOMAIN stored
           /\ r.act # "create" => r.old = stored[r.id] /\ r.old \in RowSet
  BY DEF Entered, Row, IsTable

\* Tables whose rows are of their type stay so, and their rows are where they landed.
LEMMA TableAfter ==
    ASSUME NEW rows, NEW sheet, NEW ids, NEW mode, NEW stored, NEW default, NEW unstatable,
           NEW RowSet, Lands(rows, sheet, ids, mode, stored, default, unstatable),
           IsTable(stored, ids, RowSet), \A r \in Entries(rows) : r.after \in RowSet
    PROVE  IsTable(After(stored, rows), ids, RowSet)
  <1> DEFINE table == After(stored, rows)
  <1>1. Holds(table, rows, stored)
    BY AfterFacts
  <1>2. \A r \in Entries(rows) : r.id \in ids
    BY DEF Entries, Lands
  <1>3. table = [i \in DOMAIN table |-> table[i]]
    BY DEF After
  <1> HIDE DEF table
  <1>4. ASSUME NEW i \in DOMAIN table PROVE i \in ids /\ table[i] \in RowSet
    <2>1. CASE \E r \in Entries(rows) : r.id = i
      BY <1>1, <1>2, <2>1 DEF Holds
    <2>2. CASE \A r \in Entries(rows) : r.id # i
      BY <1>1, <1>4, <2>2 DEF IsTable, Holds
    <2> QED
      BY <2>1, <2>2
  <1>5. IsTable(table, ids, RowSet)
    BY <1>3, <1>4 DEF IsTable
  <1> QED
    BY <1>5 DEF table

\* The entries of a table that lands.
LEMMA EntriesLand ==
    ASSUME NEW rows, NEW sheet, NEW ids, NEW mode, NEW stored, NEW default, NEW unstatable,
           Lands(rows, sheet, ids, mode, stored, default, unstatable), NEW r \in Entries(rows)
    PROVE  /\ Entered(r, mode, stored, default, unstatable)
           /\ r.id \in ids
           /\ \E key \in DOMAIN sheet : r = rows[key]
  BY DEF Lands, Entries

LEMMA ItemsTyped ==
    ASSUME NEW p, NEW c, NEW up, NEW mode, Taken(p, c, up, mode), NEW r \in Entries(p.items)
    PROVE  r.after \in Item
  <1>1. PICK key \in DOMAIN up.items : r = p.items[key] /\ r.row = up.items[key]
    BY ItemsLand, EntriesLand
  <1>2. Entered(r, mode, p.w.items, NewItem, {"onHand"})
    BY ItemsLand, EntriesLand
  <1>3. IsTable(p.w.items, ItemIds, Item)
    BY PlanParts, WorldFacts DEF IsCollection, Taken
  <1>4. r.act # "create" => r.old \in Item
    BY <1>2, <1>3, OldRow, NoneAssumption
  <1>5. r.after.name # None /\ r.after.onHand \in Nat
    BY DEF Taken, Accepted, Filled
  <1>6. \A col \in DOMAIN r.row : r.row[col] \in Maybe(ItemColumns[col])
    BY <1>1 DEF Taken, IsFile, IsSheet
  <1>7. ASSUME NEW before, before = NewItem \/ before \in Item,
               r.after = Written(before, r.row, {"onHand"})
        PROVE  r.after \in Item
    <2>1. DOMAIN before = {"name", "onHand"} /\ before.name \in Maybe(Names)
      BY <1>7 DEF NewItem, Item, Maybe
    <2>2. r.after = [col \in {"name", "onHand"} |-> r.after[col]]
      BY <1>7, <2>1, WrittenCells
    <2>3. r.after.name \in Maybe(Names)
      BY <1>6, <1>7, <2>1, WrittenCells DEF ItemColumns
    <2>4. r.after = [name |-> r.after.name, onHand |-> r.after.onHand]
      BY <2>2
    <2> QED
      BY <1>5, <2>3, <2>4 DEF Item, Maybe
  <1> QED
    BY <1>2, <1>4, <1>7 DEF Entered

LEMMA OrdersTyped ==
    ASSUME NEW p, NEW c, NEW up, NEW mode, Taken(p, c, up, mode), NEW r \in Entries(p.orders)
    PROVE  r.after \in Order
  <1>1. PICK key \in DOMAIN up.orders : r = p.orders[key] /\ r.row = up.orders[key]
    BY OrdersLand, EntriesLand
  <1>2. Entered(r, mode, p.w.orders, NewOrder, {})
    BY OrdersLand, EntriesLand
  <1>3. IsTable(p.w.orders, OrderIds, Order)
    BY PlanParts, WorldFacts DEF IsCollection, Taken
  <1>4. r.act # "create" => r.old \in Order
    BY <1>2, <1>3, OldRow, NoneAssumption
  <1>5. \A col \in DOMAIN r.row : r.row[col] \in Maybe(OrderColumns[col])
    BY <1>1 DEF Taken, IsFile, IsSheet
  <1>6. NewOrder \in Order
    BY DEF NewOrder, Order, Maybe
  <1>7. ASSUME NEW before \in Order, r.after = Written(before, r.row, {})
        PROVE  r.after \in Order
    <2>1. DOMAIN before = {"number", "shipped", "received"}
      BY DEF Order
    <2>2. r.after = [col \in {"number", "shipped", "received"} |-> r.after[col]]
      BY <1>7, <2>1, WrittenCells
    <2>3. /\ r.after.number \in Maybe(Names)
          /\ r.after.shipped \in Maybe(Dates) /\ r.after.received \in Maybe(Dates)
      BY <1>5, <1>7, <2>1, WrittenCells DEF OrderColumns, Order
    <2>4. r.after = [number |-> r.after.number, shipped |-> r.after.shipped,
                     received |-> r.after.received]
      BY <2>2
    <2> QED
      BY <2>3, <2>4 DEF Order
  <1> QED
    BY <1>2, <1>4, <1>6, <1>7 DEF Entered

\* A reference that is resolved lands on a row the table will hold.
LEMMA Resolved ==
    ASSUME NEW rows, NEW sheet, NEW ids, NEW mode, NEW stored, NEW default, NEW unstatable,
           Lands(rows, sheet, ids, mode, stored, default, unstatable),
           DOMAIN stored \subseteq ids, NEW id, Resolve(rows, stored, id) # None
    PROVE  /\ Resolve(rows, stored, id) \in ids
           /\ Resolve(rows, stored, id) \in DOMAIN After(stored, rows)
           /\ \/ Resolve(rows, stored, id) \in DOMAIN stored
              \/ \E r \in Entries(rows) : r.id = Resolve(rows, stored, id)
  <1>1. Holds(After(stored, rows), rows, stored)
    BY AfterFacts
  <1>2. CASE id \in DOMAIN rows
    <2>1. rows[id] \in Entries(rows) /\ Resolve(rows, stored, id) = rows[id].id
      BY <1>2 DEF Entries, Resolve
    <2> QED
      BY <1>1, <1>2, <2>1 DEF Holds, Lands
  <1>3. CASE id \notin DOMAIN rows
    BY <1>1, <1>3 DEF Holds, Resolve
  <1> QED
    BY <1>2, <1>3

LEMMA FreshFacts ==
    ASSUME NEW pool, NEW used
    PROVE  /\ Fresh(pool, used) # Unnamed => Fresh(pool, used) \in pool \ used
           /\ Fresh(pool, used) = Unnamed \/ Fresh(pool, used) \in pool
  BY DEF Fresh

\* The items as the import leaves them.
ItemsAfter(p) == WithStubs(p, After(p.w.items, p.items))

LEMMA ItemsAfterHolds ==
    ASSUME NEW p
    PROVE  /\ DOMAIN ItemsAfter(p) = DOMAIN After(p.w.items, p.items)
                 \cup (IF p.stubs = {} THEN {} ELSE {StubId(p.w, p.up)})
           /\ \A i \in DOMAIN After(p.w.items, p.items) :
                 ItemsAfter(p)[i] = After(p.w.items, p.items)[i]
           /\ \A i \in DOMAIN ItemsAfter(p) \ DOMAIN After(p.w.items, p.items) :
                 ItemsAfter(p)[i] = CHOOSE s \in p.stubs : TRUE
           /\ ItemsAfter(p) = [i \in DOMAIN ItemsAfter(p) |-> ItemsAfter(p)[i]]
  <1> DEFINE items == After(p.w.items, p.items)
  <1>1. items = [i \in DOMAIN items |-> items[i]]
    BY DEF After
  <1> HIDE DEF items
  <1>2. CASE p.stubs = {}
    <2>1. ItemsAfter(p) = items
      BY <1>2 DEF ItemsAfter, WithStubs, items
    <2> QED
      BY <1>1, <1>2, <2>1 DEF items
  <1>3. CASE p.stubs # {}
    <2> DEFINE stub == CHOOSE s \in p.stubs : TRUE
    <2>1. ItemsAfter(p) =
             [i \in DOMAIN items \cup {StubId(p.w, p.up)} |->
                 IF i \in DOMAIN items THEN items[i] ELSE stub]
      BY <1>3 DEF ItemsAfter, WithStubs, items, With
    <2> QED
      BY <1>3, <2>1 DEF items
  <1> QED
    BY <1>2, <1>3

\* The item a tool line's row refers to, once it is resolved.
LEMMA ByNameLands ==
    ASSUME NEW p, NEW c, NEW up, NEW mode, Taken(p, c, up, mode), NEW name,
           NEW ref, ref = ByName(p.w, up, p.items, name)
    PROVE  \/ ref \in DOMAIN p.w.items
           \/ \E r \in Entries(p.items) : r.id = ref
           \/ ref = StubId(p.w, up)
  <1> DEFINE pending == {key \in DOMAIN p.items : Cell(p.items[key].row, "name") = name}
  <1>1. CASE ItemsNamed(p.w.items, name) # {}
    BY <1>1 DEF ByName, ItemsNamed
  <1>2. CASE ItemsNamed(p.w.items, name) = {} /\ pending # {}
    <2>1. ref = p.items[CHOOSE key \in pending : TRUE].id
      BY <1>2 DEF ByName
    <2>2. (CHOOSE key \in pending : TRUE) \in DOMAIN p.items
      BY <1>2
    <2> QED
      BY <2>1, <2>2 DEF Entries
  <1>3. CASE ItemsNamed(p.w.items, name) = {} /\ pending = {}
    BY <1>3 DEF ByName
  <1> QED
    BY <1>1, <1>2, <1>3

\* A line's row after resolution: its cells are of their columns, its order and its
\* item are rows there will be, and where they are not stated nothing is.
LEMMA ResolvedCells ==
    ASSUME NEW p, NEW c, NEW up, NEW mode, Taken(p, c, up, mode),
           NEW key \in DOMAIN up.lines, NEW row, row = p.lines[key].row
    PROVE  /\ "order" \in DOMAIN row =>
                 row.order \in Maybe(DOMAIN OrdersAfter(p)) /\ row.order \in Maybe(OrderIds)
           /\ "type" \in DOMAIN row => row.type \in Maybe({"kit", "tool"})
           /\ "quantity" \in DOMAIN row => row.quantity \in Maybe(Int)
           /\ "status" \in DOMAIN row => row.status \in Maybe(KitStatus)
           /\ "ref" \in DOMAIN row /\ row.ref # None =>
                 \/ row.ref \in DOMAIN After(p.w.items, p.items) /\ row.ref \in ItemIds
                 \/ /\ row.ref = StubId(p.w, up)
                    /\ row.ref \notin DOMAIN p.w.items
                    /\ \A r \in Entries(p.items) : r.id # row.ref
                    /\ up.lines[key].named \in Names
  <1> DEFINE raw == up.lines[key]
             type == EffectiveType(p.w, key, raw)
             byId == Resolve(p.items, p.w.items, Cell(raw, "ref"))
             named == type = "tool" /\ byId = None /\ Cell(raw, "named") # None
             ref == CASE type = "kit" -> None
                      [] named -> ByName(p.w, up, p.items, raw.named)
                      [] OTHER -> byId
  <1>1. /\ row = ResolvedLine(p.w, up, p.items, p.orders, key)
        /\ IsCollection(p.w)
    BY LinesLand, PlanParts, WorldFacts DEF Taken
  <1>2. /\ DOMAIN row = DOMAIN raw \cup (IF named THEN {"ref"} ELSE {})
        /\ \A col \in DOMAIN row :
              row[col] = CASE col = "order" -> Resolve(p.orders, p.w.orders, raw.order)
                           [] col = "ref" -> ref
                           [] OTHER -> raw[col]
    BY <1>1 DEF ResolvedLine
  <1>3. \A col \in DOMAIN raw : raw[col] \in Maybe(LineColumns[col])
    BY DEF Taken, IsFile, IsSheet
  <1>4. DOMAIN raw \subseteq {"order", "type", "ref", "named", "quantity", "kit", "status"}
    BY DEF Taken, IsFile, IsSheet, LineColumns
  <1>5. Lands(p.items, up.items, ItemIds, mode, p.w.items, NewItem, {"onHand"})
    BY ItemsLand
  <1>6. Holds(After(p.w.items, p.items), p.items, p.w.items)
    BY <1>5, AfterFacts
  <1>7. DOMAIN p.w.items \subseteq ItemIds
    BY <1>1 DEF IsCollection, IsTable
  <1>8. named => raw.named \in Names
    BY <1>3 DEF Cell, LineColumns, Maybe
  <1>9. byId # None =>
           byId \in DOMAIN After(p.w.items, p.items) /\ byId \in ItemIds
    BY <1>5, <1>7, Resolved
  <1>10. "order" \in DOMAIN row =>
             row.order \in Maybe(DOMAIN OrdersAfter(p)) /\ row.order \in Maybe(OrderIds)
    <2>1. Lands(p.orders, up.orders, OrderIds, mode, p.w.orders, NewOrder, {})
      BY OrdersLand
    <2>2. DOMAIN p.w.orders \subseteq OrderIds
      BY <1>1 DEF IsCollection, IsTable
    <2>3. "order" \in DOMAIN row => row.order = Resolve(p.orders, p.w.orders, raw.order)
      BY <1>2
    <2> QED
      BY <2>1, <2>2, <2>3, Resolved DEF Maybe, OrdersAfter
  <1>11. "type" \in DOMAIN row => row.type \in Maybe({"kit", "tool"})
    BY <1>2, <1>3 DEF LineColumns
  <1>12. "quantity" \in DOMAIN row => row.quantity \in Maybe(Int)
    BY <1>2, <1>3 DEF LineColumns
  <1>15. "status" \in DOMAIN row => row.status \in Maybe(KitStatus)
    BY <1>2, <1>3 DEF LineColumns
  <1>13. "ref" \in DOMAIN row => row.ref = ref
    BY <1>2
  <1>14. ASSUME ref # None
         PROVE  \/ ref \in DOMAIN After(p.w.items, p.items) /\ ref \in ItemIds
                \/ /\ ref = StubId(p.w, up) /\ ref \notin DOMAIN p.w.items
                   /\ \A r \in Entries(p.items) : r.id # ref
                   /\ named
    <2>1. CASE named
      <3>1. ref = ByName(p.w, up, p.items, raw.named)
        BY <2>1
      <3> HIDE DEF named
      <3>2. \/ ref \in DOMAIN p.w.items
            \/ \E r \in Entries(p.items) : r.id = ref
            \/ ref = StubId(p.w, up)
        BY <3>1, ByNameLands
      <3>3. \A r \in Entries(p.items) : r.id \in ItemIds
        BY <1>5, EntriesLand
      <3> QED
        BY <1>6, <1>7, <2>1, <3>2, <3>3 DEF Holds
    <2>2. CASE ~named
      <3>1. ref = byId
        BY <1>14, <2>2
      <3> QED
        BY <1>9, <1>14, <3>1
    <2> QED
      BY <2>1, <2>2
  <1> HIDE DEF named, ref, byId
  <1> QED
    BY <1>8, <1>10, <1>11, <1>12, <1>13, <1>14, <1>15

\* A stub stands for each item that lines name and nothing holds, and for no other.
LEMMA StubsFacts ==
    ASSUME NEW p, NEW c, NEW up, NEW mode, Taken(p, c, up, mode)
    PROVE  /\ \A key \in DOMAIN up.lines :
                 /\ Cell(p.lines[key].row, "ref") # None
                 /\ p.lines[key].row.ref \notin DOMAIN p.w.items
                 /\ \A r \in Entries(p.items) : r.id # p.lines[key].row.ref
                 => p.stubs # {}
           /\ p.stubs \subseteq Item
  <1> DEFINE naming == {key \in DOMAIN p.lines :
                          /\ Cell(p.lines[key].row, "ref") # None
                          /\ p.lines[key].row.ref \notin DOMAIN p.w.items
                          /\ \A r \in DOMAIN p.items : p.items[r].id # p.lines[key].row.ref}
             stub(key) == [name |-> up.lines[key].named, onHand |-> 0]
  <1>1. p.stubs = {stub(key) : key \in naming}
    BY PlanParts DEF Taken, Stubs
  <1>2. DOMAIN p.lines = DOMAIN up.lines
    BY LinesLand DEF Lands
  <1>3. ASSUME NEW key \in naming PROVE stub(key) \in Item
    <2>1. \A r \in Entries(p.items) : r.id # p.lines[key].row.ref
      BY DEF Entries
    <2>2. Holds(After(p.w.items, p.items), p.items, p.w.items)
      BY ItemsLand, AfterFacts
    <2>3. p.lines[key].row.ref \notin DOMAIN After(p.w.items, p.items)
      BY <2>1, <2>2 DEF Holds
    <2>4. "ref" \in DOMAIN p.lines[key].row /\ p.lines[key].row.ref # None
      BY DEF Cell
    <2>5. up.lines[key].named \in Names
      BY <1>2, <2>3, <2>4, ResolvedCells
    <2> QED
      BY <2>5 DEF Item
  <1>4. ASSUME NEW key \in DOMAIN up.lines,
               Cell(p.lines[key].row, "ref") # None,
               p.lines[key].row.ref \notin DOMAIN p.w.items,
               \A r \in Entries(p.items) : r.id # p.lines[key].row.ref
        PROVE  p.stubs # {}
    <2>1. key \in naming
      BY <1>2, <1>4 DEF Entries
    <2> QED
      BY <1>1, <2>1
  <1>5. p.stubs \subseteq Item
    BY <1>1, <1>3
  <1> QED
    BY <1>4, <1>5

\* A line written as a kit line was resolved as one, so it names no item: a line whose
\* type neither its row nor the line of that id states is refused.
LEMMA KitRowsNameNothing ==
    ASSUME NEW p, NEW c, NEW up, NEW mode, Taken(p, c, up, mode), NEW r \in Entries(p.lines),
           r.act # "skip", r.after.type = "kit", "ref" \in DOMAIN r.row
    PROVE  r.row.ref = None
  <1>1. PICK key \in DOMAIN up.lines : r = p.lines[key]
    BY LinesLand, EntriesLand
  <1> DEFINE raw == up.lines[key]
             type == EffectiveType(p.w, key, raw)
             matches == MatchOrderItem(p.w, key, r.row)
  <1>2. /\ r.row = ResolvedLine(p.w, up, p.items, p.orders, key)
        /\ Entered(r, mode, p.w.lines, NewLine, {}) /\ r.id \in LineIds
        /\ p.lines = LineRows(p.w, up, mode, p.items, p.orders) /\ IsCollection(p.w)
    BY <1>1, LinesLand, EntriesLand, PlanParts, WorldFacts DEF Taken
  <1>3. /\ "type" \in DOMAIN r.row <=> "type" \in DOMAIN raw
        /\ "type" \in DOMAIN r.row => r.row.type = raw.type
        /\ type = "kit" => r.row.ref = None
    BY <1>2 DEF ResolvedLine
  <1>4. IsTable(p.w.lines, LineIds, Line) /\ DOMAIN p.w.lines \subseteq LineIds
    BY <1>2 DEF IsCollection, IsTable
  <1>5. r.act # "create" => r.id \in DOMAIN p.w.lines /\ r.old = p.w.lines[r.id] /\ r.old \in Line
    BY <1>2, <1>4, OldRow, NoneAssumption
  <1>6. CASE Cell(raw, "type") # None
    <2>1. "type" \in DOMAIN r.row /\ r.row.type = type /\ r.row.type # None
      BY <1>3, <1>6 DEF Cell, EffectiveType
    <2>2. r.after.type = r.row.type
      BY <1>2, <1>5, <2>1 DEF Entered, Written, NewLine, Line
    <2> QED
      BY <1>3, <2>1, <2>2
  <1>7. CASE Cell(raw, "type") = None
    <2>1. Cell(r.row, "type") = None
      BY <1>3, <1>7 DEF Cell
    <2>2. r.act # "create"
      <3>1. SUFFICES ASSUME r.act = "create" PROVE FALSE
        OBVIOUS
      <3>2. r.after.type = None
        BY SMTT(30), <1>2, <2>1, <3>1 DEF Entered, Written, NewLine, Cell
      <3> QED
        BY <3>2 DEF Taken, Accepted, Filled
    <2>3. PICK id : /\ id = IdOf(key, matches, LineIds, p.w.lines, up.lines)
                    /\ r.id = id
      <3> DEFINE row == ResolvedLine(p.w, up, p.items, p.orders, key)
                 at == IdOf(key, MatchOrderItem(p.w, key, row), LineIds, p.w.lines, up.lines)
      <3>1. p.lines[key] = Planned(mode, at, Row(p.w.lines, at), row, NewLine, {})
        BY <1>1, <1>2 DEF LineRows, NewLine
      <3>2. p.lines[key].id = at
        BY <3>1 DEF Planned
      <3> QED
        BY <1>1, <1>2, <3>2
    <2>4. key \in DOMAIN p.w.lines
      <3>1. SUFFICES ASSUME key \notin DOMAIN p.w.lines PROVE FALSE
        OBVIOUS
      <3>2. matches = {}
        <4>1. ASSUME NEW l \in matches PROVE FALSE
          <5>1. l \in DOMAIN p.w.lines /\ StoredFingerprint(p.w, l) = IncomingFingerprint(p.w, r.row)
            BY <3>1, <4>1 DEF MatchOrderItem, LinesOn
          <5>2. p.w.lines[l].type = Cell(r.row, "type")
            BY <5>1 DEF StoredFingerprint, IncomingFingerprint
          <5>3. p.w.lines[l].type \in {"kit", "tool"}
            BY <1>4, <5>1 DEF IsTable, Line
          <5> QED
            BY <2>1, <5>2, <5>3, NoneAssumption
        <4> QED
          BY <4>1
      <3>3. r.id \notin DOMAIN p.w.lines
        <4>1. Unnamed \notin DOMAIN p.w.lines
          BY <1>4, NoneAssumption
        <4>2. LET f == Fresh(LineIds, DOMAIN p.w.lines \cup DOMAIN up.lines)
              IN  f \notin DOMAIN p.w.lines
          BY <4>1, FreshFacts
        <4> HIDE DEF matches
        <4> QED
          BY <2>3, <3>1, <3>2, <4>2 DEF IdOf
      <3> QED
        BY <1>5, <2>2, <3>3
    <2>5. r.id = key
      BY <2>3, <2>4 DEF MatchOrderItem, IdOf
    <2>6. r.old.type = type
      BY <1>5, <1>7, <2>2, <2>4, <2>5 DEF EffectiveType
    <2>7. r.after.type # None
      BY DEF Taken, Accepted, Filled
    <2>8. r.after.type = r.old.type
      BY <1>2, <1>5, <2>1, <2>2, <2>7 DEF Entered, Written, Line, Cell
    <2> QED
      BY <1>3, <2>6, <2>8
  <1> QED
    BY <1>6, <1>7

LEMMA LinesTyped ==
    ASSUME NEW p, NEW c, NEW up, NEW mode, Taken(p, c, up, mode), NEW r \in Entries(p.lines)
    PROVE  r.after \in Line
  <1>1. PICK key \in DOMAIN up.lines : r = p.lines[key]
    BY LinesLand, EntriesLand
  <1>2. Entered(r, mode, p.w.lines, NewLine, {})
    BY LinesLand, EntriesLand
  <1>3. IsTable(p.w.lines, LineIds, Line)
    BY PlanParts, WorldFacts DEF IsCollection, Taken
  <1>4. r.act # "create" => r.old \in Line
    BY <1>2, <1>3, OldRow, NoneAssumption
  <1>5. /\ r.after.type # None /\ r.after.quantity # None
        /\ Cell(r.row, "quantity") # None => r.row.quantity \in 1..MaxLineQuantity
    BY DEF Taken, Accepted, Filled
  <1>6. Cell(r.row, "order") # None
    BY DEF Taken, Accepted, Referenced
  <1>7. /\ "order" \in DOMAIN r.row /\ r.row.order \in OrderIds
        /\ "type" \in DOMAIN r.row => r.row.type \in Maybe({"kit", "tool"})
        /\ "ref" \in DOMAIN r.row => r.row.ref \in Maybe(ItemIds)
    <2>1. ASSUME "ref" \in DOMAIN r.row, r.row.ref # None, r.row.ref \notin ItemIds
          PROVE  FALSE
      <3>1. /\ r.row.ref = StubId(p.w, up) /\ r.row.ref \notin DOMAIN p.w.items
            /\ \A s \in Entries(p.items) : s.id # r.row.ref
        BY <1>1, <2>1, ResolvedCells
      <3>2. p.stubs # {}
        BY <1>1, <2>1, <3>1, StubsFacts DEF Cell
      <3>3. StubId(p.w, up) # Unnamed
        BY <3>2, PlanParts DEF Taken, Room
      <3> QED
        BY <2>1, <3>1, <3>3, FreshFacts DEF StubId
    <2> QED
      BY <1>1, <1>6, <2>1, ResolvedCells DEF Cell, Maybe
  <1>8. ASSUME NEW before, before = NewLine \/ before \in Line, r.act # "skip",
               r.act # "create" => before = r.old /\ before.type = r.after.type,
               r.act = "create" => before = NewLine,
               r.after = Written(before, r.row, {})
        PROVE  r.after \in Line
    <2>1. DOMAIN before = {"order", "type", "ref", "quantity"}
      BY <1>8 DEF NewLine, Line
    <2>2. /\ before.type \in Maybe({"kit", "tool"}) /\ before.ref \in Maybe(ItemIds)
          /\ before.quantity \in Maybe(1..MaxLineQuantity)
      BY <1>8 DEF NewLine, Line, Maybe
    <2>3. r.after = [col \in {"order", "type", "ref", "quantity"} |-> r.after[col]]
      BY <1>8, <2>1, WrittenCells
    <2>4. r.after.order \in OrderIds /\ r.after.ref \in Maybe(ItemIds)
      BY <1>7, <1>8, <2>1, <2>2, WrittenCells
    <2>8. r.after.type = "kit" => r.after.ref = None
      <3>1. "ref" \in DOMAIN r.row /\ r.after.type = "kit" => r.row.ref = None
        BY <1>8, KitRowsNameNothing
      <3>2. before.type = r.after.type \/ before = NewLine
        BY <1>8
      <3>3. r.after.type = "kit" => before.ref = None
        BY <1>8, <3>2 DEF NewLine, Line
      <3> QED
        BY <1>8, <2>1, <3>1, <3>3, WrittenCells
    <2>5. r.after.type \in {"kit", "tool"}
      BY <1>5, <1>7, <1>8, <2>1, <2>2, WrittenCells DEF Maybe
    <2>6. r.after.quantity \in 1..MaxLineQuantity
      BY <1>5, <1>8, <2>1, <2>2, WrittenCells DEF Maybe, Cell
    <2>7. r.after = [order |-> r.after.order, type |-> r.after.type, ref |-> r.after.ref,
                     quantity |-> r.after.quantity]
      BY <2>3
    <2>9. r.after \in [order : OrderIds, type : {"kit", "tool"}, ref : Maybe(ItemIds),
                       quantity : 1..MaxLineQuantity]
      BY <2>4, <2>5, <2>6, <2>7
    <2> QED
      BY <2>8, <2>9 DEF Line
  <1>9. r.act = "update" => r.after.type = r.old.type
    BY DEF Taken, Accepted, CheckImmutableLineColumns
  <1>10. CASE r.act \in {"skip", "unchanged"}
    BY <1>2, <1>4, <1>10 DEF Entered
  <1>11. CASE r.act \in {"create", "update"}
    BY <1>2, <1>4, <1>8, <1>9, <1>11 DEF Entered
  <1> QED
    BY <1>2, <1>10, <1>11 DEF Entered

LEMMA KitsTyped ==
    ASSUME NEW p, NEW c, NEW up, NEW mode, Taken(p, c, up, mode), NEW r \in Entries(p.kits)
    PROVE  r.after \in Kit /\ r.after.line \in Maybe(DOMAIN LinesAfter(p))
  <1>1. PICK key \in DOMAIN up.kits : r = p.kits[key] /\ r.row = ResolvedKit(p, up, key)
    BY KitsLand, EntriesLand
  <1>2. Entered(r, mode, p.w.kits, NewKit, {"status"}) /\ IsCollection(p.w)
    BY KitsLand, EntriesLand, PlanParts, WorldFacts DEF Taken
  <1>3. /\ IsTable(p.w.kits, KitIds, Kit) /\ DOMAIN p.w.lines \subseteq LineIds
        /\ \A k \in DOMAIN p.w.kits : p.w.kits[k].line \in Maybe(DOMAIN p.w.lines)
    BY <1>2 DEF IsCollection, IsTable
  <1>4. /\ Lands(p.lines, up.lines, LineIds, mode, p.w.lines, NewLine, {})
        /\ Holds(LinesAfter(p), p.lines, p.w.lines)
    BY LinesLand, AfterFacts DEF LinesAfter
  <1>5. r.act # "create" => r.old \in Kit /\ r.old.line \in Maybe(DOMAIN LinesAfter(p))
    BY <1>2, <1>3, <1>4, OldRow, NoneAssumption DEF Holds, Maybe
  <1>6. /\ "line" \in DOMAIN r.row =>
              r.row.line \in Maybe(LineIds) /\ r.row.line \in Maybe(DOMAIN LinesAfter(p))
        /\ "status" \in DOMAIN r.row => r.row.status \in Maybe(KitStatus)
        /\ "rating" \in DOMAIN r.row => r.row.rating \in Maybe(Nat)
    <2>1. \A col \in DOMAIN up.kits[key] : up.kits[key][col] \in Maybe(KitColumns[col])
      BY DEF Taken, IsFile, IsSheet
    <2>2. /\ DOMAIN r.row = DOMAIN up.kits[key]
          /\ "line" \in DOMAIN r.row =>
                r.row.line = Resolve(p.lines, p.w.lines, up.kits[key].line)
          /\ \A col \in DOMAIN r.row \ {"line"} : r.row[col] = up.kits[key][col]
      BY <1>1 DEF ResolvedKit, KitLine
    <2>3. "line" \in DOMAIN r.row =>
             r.row.line \in Maybe(LineIds) /\ r.row.line \in Maybe(DOMAIN LinesAfter(p))
      BY <1>3, <1>4, <2>2, Resolved DEF Maybe, LinesAfter
    <2> QED
      BY SMTT(30), <2>1, <2>2, <2>3 DEF KitColumns
  <1>7. NewKit \in Kit /\ NewKit.line = None
    BY DEF NewKit, Kit, KitStatus, Maybe
  <1>8. ASSUME NEW before \in Kit, before.line \in Maybe(DOMAIN LinesAfter(p)),
               r.after = Written(before, r.row, {"status"})
        PROVE  r.after \in Kit /\ r.after.line \in Maybe(DOMAIN LinesAfter(p))
    <2>1. DOMAIN before = {"line", "status", "rating"}
      BY DEF Kit
    <2>2. r.after = [col \in {"line", "status", "rating"} |-> r.after[col]]
      BY <1>8, <2>1, WrittenCells
    <2>3. r.after.line \in Maybe(LineIds) /\ r.after.line \in Maybe(DOMAIN LinesAfter(p))
      BY <1>6, <1>8, <2>1, WrittenCells DEF Kit
    <2>4. r.after.status \in KitStatus
      BY <1>6, <1>8, <2>1, WrittenCells DEF Kit, Maybe
    <2>5. r.after.rating \in Maybe(Nat)
      BY <1>6, <1>8, <2>1, WrittenCells DEF Kit
    <2>6. r.after = [line |-> r.after.line, status |-> r.after.status,
                     rating |-> r.after.rating]
      BY <2>2
    <2> QED
      BY <2>3, <2>4, <2>5, <2>6 DEF Kit
  <1> QED
    BY <1>2, <1>5, <1>7, <1>8 DEF Entered, Maybe

LEMMA PhotosTyped ==
    ASSUME NEW p, NEW c, NEW up, NEW mode, Taken(p, c, up, mode), NEW r \in Entries(p.photos)
    PROVE  /\ r.after \in Photo /\ r.after.kit \in DOMAIN KitsAfter(p)
           /\ r.act # "skip" => r.after.kit = r.row.kit
  <1>0. PICK key \in DOMAIN up.photos : r = p.photos[key]
    BY PhotosLand, EntriesLand
  <1>1. r.row = [kit |-> Resolve(p.kits, p.w.kits, up.photos[key].kit)]
    BY <1>0, PhotosLand
  <1>2. Entered(r, mode, p.w.photos, NewPhoto, {}) /\ IsCollection(p.w)
    BY PhotosLand, EntriesLand, PlanParts, WorldFacts DEF Taken
  <1>3. /\ IsTable(p.w.photos, PhotoIds, Photo) /\ DOMAIN p.w.kits \subseteq KitIds
        /\ \A i \in DOMAIN p.w.photos : p.w.photos[i].kit \in DOMAIN p.w.kits
    BY <1>2 DEF IsCollection, IsTable
  <1>4. /\ Lands(p.kits, up.kits, KitIds, mode, p.w.kits, NewKit, {"status"})
        /\ Holds(KitsAfter(p), p.kits, p.w.kits)
    BY KitsLand, AfterFacts DEF KitsAfter
  <1>5. r.act # "create" => r.old \in Photo /\ r.old.kit \in DOMAIN KitsAfter(p)
    BY <1>2, <1>3, <1>4, OldRow, NoneAssumption DEF Holds
  <1>6. r.row.kit # None
    BY DEF Taken, Accepted, Referenced
  <1>7. r.row.kit \in KitIds /\ r.row.kit \in DOMAIN KitsAfter(p)
    BY <1>1, <1>3, <1>4, <1>6, Resolved DEF KitsAfter
  <1>8. ASSUME NEW before, before = NewPhoto \/ before \in Photo,
               r.after = Written(before, r.row, {})
        PROVE  r.after = [kit |-> r.row.kit]
    <2>1. DOMAIN before = {"kit"}
      BY <1>8 DEF NewPhoto, Photo
    <2> QED
      BY <1>1, <1>8, <2>1 DEF Written
  <1>9. CASE r.act # "skip"
    <2>1. r.after = [kit |-> r.row.kit]
      BY <1>2, <1>5, <1>8, <1>9 DEF Entered
    <2> QED
      BY <1>7, <2>1 DEF Photo
  <1>10. CASE r.act = "skip"
    BY <1>2, <1>5, <1>10 DEF Entered
  <1> QED
    BY <1>9, <1>10

-----------------------------------------------------------------------------
(* The tables once the rows are written.                                    *)

LEMMA TablesAfter ==
    ASSUME NEW p, NEW c, NEW up, NEW mode, Taken(p, c, up, mode)
    PROVE  /\ IsTable(After(p.w.items, p.items), ItemIds, Item)
           /\ IsTable(OrdersAfter(p), OrderIds, Order)
           /\ IsTable(LinesAfter(p), LineIds, Line)
           /\ IsTable(KitsAfter(p), KitIds, Kit)
           /\ IsTable(After(p.w.photos, p.photos), PhotoIds, Photo)
           /\ Holds(After(p.w.items, p.items), p.items, p.w.items)
           /\ Holds(OrdersAfter(p), p.orders, p.w.orders)
           /\ Holds(LinesAfter(p), p.lines, p.w.lines)
           /\ Holds(KitsAfter(p), p.kits, p.w.kits)
           /\ Holds(After(p.w.photos, p.photos), p.photos, p.w.photos)
  <1>1. IsCollection(p.w)
    BY PlanParts, WorldFacts DEF Taken
  <1>2. /\ IsTable(p.w.items, ItemIds, Item) /\ IsTable(p.w.orders, OrderIds, Order)
        /\ IsTable(p.w.lines, LineIds, Line) /\ IsTable(p.w.kits, KitIds, Kit)
        /\ IsTable(p.w.photos, PhotoIds, Photo)
    BY <1>1 DEF IsCollection
  <1>3. /\ IsTable(After(p.w.items, p.items), ItemIds, Item)
        /\ Holds(After(p.w.items, p.items), p.items, p.w.items)
    BY <1>2, ItemsLand, ItemsTyped, TableAfter, AfterFacts
  <1>4. /\ IsTable(OrdersAfter(p), OrderIds, Order)
        /\ Holds(OrdersAfter(p), p.orders, p.w.orders)
    BY <1>2, OrdersLand, OrdersTyped, TableAfter, AfterFacts DEF OrdersAfter
  <1>5. /\ IsTable(LinesAfter(p), LineIds, Line)
        /\ Holds(LinesAfter(p), p.lines, p.w.lines)
    BY <1>2, LinesLand, LinesTyped, TableAfter, AfterFacts DEF LinesAfter
  <1>6. /\ IsTable(KitsAfter(p), KitIds, Kit)
        /\ Holds(KitsAfter(p), p.kits, p.w.kits)
    BY <1>2, KitsLand, KitsTyped, TableAfter, AfterFacts DEF KitsAfter
  <1>7. /\ IsTable(After(p.w.photos, p.photos), PhotoIds, Photo)
        /\ Holds(After(p.w.photos, p.photos), p.photos, p.w.photos)
    BY <1>2, PhotosLand, PhotosTyped, TableAfter, AfterFacts
  <1> QED
    BY <1>3, <1>4, <1>5, <1>6, <1>7

\* What a stored line was stays: its type, its order, and its item unless the file
\* states another that there will be.
LEMMA LineEntries ==
    ASSUME NEW p, NEW c, NEW up, NEW mode, Taken(p, c, up, mode), NEW r \in Entries(p.lines)
    PROVE  /\ Entered(r, mode, p.w.lines, NewLine, {})
           /\ r.act = "create" <=> r.id \notin DOMAIN p.w.lines
           /\ r.act # "create" =>
                 /\ r.old = p.w.lines[r.id] /\ r.old \in Line
                 /\ r.after.type = r.old.type /\ r.after.order = r.old.order
           /\ r.after.order \in DOMAIN OrdersAfter(p)
  <1>1. PICK key \in DOMAIN up.lines : r = p.lines[key]
    BY LinesLand, EntriesLand
  <1>2. Entered(r, mode, p.w.lines, NewLine, {}) /\ IsCollection(p.w)
    BY LinesLand, EntriesLand, PlanParts, WorldFacts DEF Taken
  <1>3. IsTable(p.w.lines, LineIds, Line)
    BY <1>2 DEF IsCollection
  <1>4. /\ r.act = "create" <=> r.id \notin DOMAIN p.w.lines
        /\ r.act # "create" => r.old = p.w.lines[r.id] /\ r.old \in Line
    BY <1>2, <1>3, OldRow, NoneAssumption
  <1>5. r.act # "create" => r.after.type = r.old.type /\ r.after.order = r.old.order
    <2>1. CASE r.act = "update"
      BY <2>1 DEF Taken, Accepted, CheckImmutableLineColumns
    <2>2. CASE r.act # "update"
      BY <1>2, <2>2 DEF Entered
    <2> QED
      BY <2>1, <2>2
  <1>6. r.after.order \in DOMAIN OrdersAfter(p)
    <2>1. CASE r.act = "create"
      <3>1. Cell(r.row, "order") # None
        BY DEF Taken, Accepted, Referenced
      <3>2. "order" \in DOMAIN r.row /\ r.row.order # None
        BY <3>1 DEF Cell
      <3>3. r.row.order \in DOMAIN OrdersAfter(p)
        BY <1>1, <3>2, ResolvedCells DEF Maybe
      <3>4. r.after.order = r.row.order
        BY <1>2, <2>1, <3>2 DEF Entered, Written, NewLine
      <3> QED
        BY <3>3, <3>4
    <2>2. CASE r.act # "create"
      <3>1. p.w.lines[r.id].order \in DOMAIN p.w.orders
        BY <1>2, <1>4, <2>2 DEF IsCollection
      <3>2. Holds(OrdersAfter(p), p.orders, p.w.orders)
        BY TablesAfter
      <3> QED
        BY <1>4, <1>5, <2>2, <3>1, <3>2 DEF Holds
    <2> QED
      BY <2>1, <2>2
  <1> QED
    BY <1>2, <1>4, <1>5, <1>6

\* Every foreign key of the written tables holds.
LEMMA ReferencesAfter ==
    ASSUME NEW p, NEW c, NEW up, NEW mode, Taken(p, c, up, mode)
    PROVE  /\ \A l \in DOMAIN LinesAfter(p) : LinesAfter(p)[l].order \in DOMAIN OrdersAfter(p)
           /\ \A k \in DOMAIN KitsAfter(p) :
                 KitsAfter(p)[k].line \in Maybe(DOMAIN LinesAfter(p))
           /\ \A i \in DOMAIN After(p.w.photos, p.photos) :
                 After(p.w.photos, p.photos)[i].kit \in DOMAIN KitsAfter(p)
  <1> DEFINE photos == After(p.w.photos, p.photos)
  <1>0. IsCollection(p.w)
    BY PlanParts, WorldFacts DEF Taken
  <1>1. /\ \A l \in DOMAIN p.w.lines : p.w.lines[l].order \in DOMAIN p.w.orders
        /\ \A k \in DOMAIN p.w.kits : p.w.kits[k].line \in Maybe(DOMAIN p.w.lines)
        /\ \A i \in DOMAIN p.w.photos : p.w.photos[i].kit \in DOMAIN p.w.kits
    BY <1>0 DEF IsCollection
  <1>5. /\ Holds(OrdersAfter(p), p.orders, p.w.orders)
        /\ Holds(LinesAfter(p), p.lines, p.w.lines)
        /\ Holds(KitsAfter(p), p.kits, p.w.kits)
        /\ Holds(photos, p.photos, p.w.photos)
    BY TablesAfter
  <1> HIDE DEF photos
  <1>2. ASSUME NEW l \in DOMAIN LinesAfter(p)
        PROVE  LinesAfter(p)[l].order \in DOMAIN OrdersAfter(p)
    <2>1. CASE \E r \in Entries(p.lines) : r.id = l
      BY <1>5, <2>1, LineEntries DEF Holds
    <2>2. CASE \A r \in Entries(p.lines) : r.id # l
      BY <1>1, <1>2, <1>5, <2>2 DEF Holds
    <2> QED
      BY <2>1, <2>2
  <1>3. ASSUME NEW k \in DOMAIN KitsAfter(p)
        PROVE  KitsAfter(p)[k].line \in Maybe(DOMAIN LinesAfter(p))
    <2>1. CASE \E r \in Entries(p.kits) : r.id = k
      BY <1>5, <2>1, KitsTyped DEF Holds
    <2>2. CASE \A r \in Entries(p.kits) : r.id # k
      BY <1>1, <1>3, <1>5, <2>2 DEF Holds, Maybe
    <2> QED
      BY <2>1, <2>2
  <1>4. ASSUME NEW i \in DOMAIN photos
        PROVE  photos[i].kit \in DOMAIN KitsAfter(p)
    <2>1. CASE \E r \in Entries(p.photos) : r.id = i
      BY <1>5, <2>1, PhotosTyped DEF Holds
    <2>2. CASE \A r \in Entries(p.photos) : r.id # i
      BY <1>1, <1>4, <1>5, <2>2 DEF Holds
    <2> QED
      BY <2>1, <2>2
  <1> QED
    BY <1>2, <1>3, <1>4 DEF photos

\* The items there will be: those written, and a stub.
LEMMA ItemsAfterTyped ==
    ASSUME NEW p, NEW c, NEW up, NEW mode, Taken(p, c, up, mode)
    PROVE  IsTable(ItemsAfter(p), ItemIds, Item)
  <1> DEFINE items == After(p.w.items, p.items)
             stub == CHOOSE s \in p.stubs : TRUE
  <1>1. IsTable(items, ItemIds, Item)
    BY TablesAfter
  <1>2. p.stubs # {} => stub \in Item /\ StubId(p.w, p.up) \in ItemIds
    <2>1. p.stubs # {} => stub \in p.stubs
      OBVIOUS
    <2>2. p.stubs # {} => StubId(p.w, p.up) # Unnamed
      BY DEF Taken, Room
    <2> QED
      BY <2>1, <2>2, StubsFacts, FreshFacts DEF StubId
  <1> HIDE DEF items
  <1>3. /\ DOMAIN ItemsAfter(p) = DOMAIN items
              \cup (IF p.stubs = {} THEN {} ELSE {StubId(p.w, p.up)})
        /\ \A i \in DOMAIN items : ItemsAfter(p)[i] = items[i]
        /\ \A i \in DOMAIN ItemsAfter(p) \ DOMAIN items : ItemsAfter(p)[i] = stub
        /\ ItemsAfter(p) = [i \in DOMAIN ItemsAfter(p) |-> ItemsAfter(p)[i]]
    BY ItemsAfterHolds DEF items
  <1> HIDE DEF stub
  <1>4. ASSUME NEW i \in DOMAIN ItemsAfter(p) PROVE i \in ItemIds /\ ItemsAfter(p)[i] \in Item
    <2>1. CASE i \in DOMAIN items
      BY <1>1, <1>3, <2>1 DEF IsTable
    <2>2. CASE i \notin DOMAIN items
      BY <1>2, <1>3, <1>4, <2>2
    <2> QED
      BY <2>1, <2>2
  <1> QED
    BY <1>3, <1>4 DEF IsTable

-----------------------------------------------------------------------------
(* The collection an import leaves.                                         *)

\* The kits that go are stored ones the file neither describes nor protects, each on
\* a line that has too many.
LEMMA VictimsFacts ==
    ASSUME NEW p, NEW gone \in Victims(p), NEW k \in gone
    PROVE  /\ k \in DOMAIN p.w.kits /\ k \notin Protected(p)
           /\ \A r \in Entries(p.kits) : r.id # k
           /\ KitsAfter(p)[k].line \in Over(p)
           /\ k \in Removable(p, KitsAfter(p)[k].line)
  <1>1. PICK l \in Over(p) : k \in Removable(p, l)
    BY DEF Victims
  <1>2. k \in AttachedAfter(p, l) /\ k \notin {r.id : r \in Entries(p.kits)} \cup Protected(p)
    BY <1>1 DEF Removable
  <1>3. k \in DOMAIN p.w.kits /\ KitsAfter(p)[k].line = l
    BY <1>2 DEF AttachedAfter
  <1> QED
    BY <1>1, <1>2, <1>3

\* The kits that are spawned are new, each on a line that has too few.
LEMMA BirthsFacts ==
    ASSUME NEW p, NEW born \in Births(p)
    PROVE  /\ DOMAIN born \subseteq KitIds /\ DOMAIN born \cap DOMAIN KitsAfter(p) = {}
           /\ \A k \in DOMAIN born : born[k] \in Short(p)
           /\ \A l \in Short(p) :
                 Cardinality({k \in DOMAIN born : born[k] = l}) = -Surplus(p, l)
  BY DEF Births

\* A reconciled line is one the file creates or gives another quantity.
LEMMA ReconciledFacts ==
    ASSUME NEW p, NEW l \in Reconciled(p)
    PROVE  \E r \in Entries(p.lines) :
              r.id = l /\ Writes(r) /\ r.after.type = "kit" /\ WritesQuantity(r)
  BY DEF Reconciled

\* A kit that is spawned begins as one of the statuses there are.
LEMMA SpawnStatusTyped ==
    ASSUME NEW p, NEW c, NEW up, NEW mode, Taken(p, c, up, mode), NEW l
    PROVE  SpawnStatus(p, l) \in KitStatus
  <1> DEFINE stated == {r.row.status : r \in {e \in Entries(p.lines) :
                                                 e.id = l /\ Cell(e.row, "status") # None}}
             landed == IF stated = {} THEN "ordered" ELSE CHOOSE s \in stated : TRUE
  <1>1. ASSUME NEW r \in Entries(p.lines), Cell(r.row, "status") # None
        PROVE  r.row.status \in KitStatus
    <2>1. PICK key \in DOMAIN up.lines : r = p.lines[key]
      BY LinesLand, EntriesLand
    <2> QED
      BY <1>1, <2>1, ResolvedCells DEF Cell, Maybe
  <1>2. stated \subseteq KitStatus
    BY <1>1
  <1>3. landed \in KitStatus
    BY <1>2 DEF KitStatus
  <1> HIDE DEF stated
  <1> QED
    BY <1>3 DEF SpawnStatus, KitStatus, stated

\* A kit's status after the move of its order is one there is; a kit is never moved
\* into the work on it.
LEMMA AdvancedFacts ==
    ASSUME NEW p, NEW k
    PROVE  \/ Advanced(p, k) = KitsAfter(p)[k].status
           \/ Advanced(p, k) \in {"backlog", "in_transit"}
  BY DEF Advanced

\* A kit is advanced only by an order the file updates.
LEMMA AdvancedByUpdate ==
    ASSUME NEW p, NEW k, \A r \in Entries(p.orders) : r.act # "update"
    PROVE  Advanced(p, k) = KitsAfter(p)[k].status
  <1>1. \A r \in AdvanceOrders(p, k) : \A c : ~NewlySet(r, c)
    BY DEF AdvanceOrders, NewlySet
  <1> QED
    BY <1>1 DEF Advanced

\* A collection after an import: the tables written, kits advanced, the given-up kits
\* and their photos gone, the missing kits there.
Became(d, p, gone, born) ==
    /\ d = [items |-> d.items, orders |-> d.orders, lines |-> d.lines,
            kits |-> d.kits, photos |-> d.photos]
    /\ d.items = ItemsAfter(p)
    /\ d.orders = OrdersAfter(p) /\ d.lines = LinesAfter(p)
    /\ d.kits = [k \in DOMAIN d.kits |-> d.kits[k]]
    /\ DOMAIN d.kits = (DOMAIN KitsAfter(p) \ gone) \cup DOMAIN born
    /\ \A k \in DOMAIN KitsAfter(p) \ gone :
          d.kits[k] = [KitsAfter(p)[k] EXCEPT !.status = Advanced(p, k)]
    /\ \A k \in DOMAIN born :
          d.kits[k] = [line |-> born[k], status |-> SpawnStatus(p, born[k]),
                       rating |-> None]
    /\ d.photos = [i \in DOMAIN d.photos |-> d.photos[i]]
    /\ DOMAIN d.photos = {i \in DOMAIN After(p.w.photos, p.photos) :
                             After(p.w.photos, p.photos)[i].kit \notin gone}
    /\ \A i \in DOMAIN d.photos : d.photos[i] = After(p.w.photos, p.photos)[i]

LEMMA AppliedFacts ==
    ASSUME NEW p, NEW gone, NEW born,
           DOMAIN born \cap DOMAIN KitsAfter(p) = {}
    PROVE  Became(Applied(p, gone, born), p, gone, born)
  <1> DEFINE d == Applied(p, gone, born)
             kits == KitsAfter(p)
             photos == After(p.w.photos, p.photos)
             spawned == [k \in DOMAIN born |->
                 [line |-> born[k], status |-> SpawnStatus(p, born[k]), rating |-> None]]
             moved == [k \in DOMAIN kits |-> [kits[k] EXCEPT !.status = Advanced(p, k)]]
             staying == Without(moved, gone)
             left == {i \in DOMAIN photos : photos[i].kit \in gone}
  <1>1. d = [items |-> ItemsAfter(p), orders |-> OrdersAfter(p), lines |-> LinesAfter(p),
             kits |-> With(staying, spawned), photos |-> Without(photos, left)]
    BY DEF Applied, ItemsAfter
  <1>2. /\ DOMAIN staying = DOMAIN kits \ gone
        /\ \A k \in DOMAIN kits \ gone :
              staying[k] = [kits[k] EXCEPT !.status = Advanced(p, k)]
    BY DEF Without
  <1>3. /\ DOMAIN spawned = DOMAIN born
        /\ \A k \in DOMAIN born : spawned[k] =
              [line |-> born[k], status |-> SpawnStatus(p, born[k]), rating |-> None]
    OBVIOUS
  <1> HIDE DEF staying, spawned, kits
  <1>4. DOMAIN born \cap DOMAIN kits = {}
    BY DEF kits
  <1>5. LET k2 == With(staying, spawned)
        IN  /\ k2 = [k \in DOMAIN k2 |-> k2[k]]
            /\ DOMAIN k2 = (DOMAIN kits \ gone) \cup DOMAIN born
            /\ \A k \in DOMAIN kits \ gone :
                  k2[k] = [kits[k] EXCEPT !.status = Advanced(p, k)]
            /\ \A k \in DOMAIN born : k2[k] =
                  [line |-> born[k], status |-> SpawnStatus(p, born[k]), rating |-> None]
    BY <1>2, <1>3, <1>4 DEF With
  <1>6. LET ph == Without(photos, left)
        IN  /\ ph = [i \in DOMAIN ph |-> ph[i]]
            /\ DOMAIN ph = {i \in DOMAIN photos : photos[i].kit \notin gone}
            /\ \A i \in DOMAIN ph : ph[i] = photos[i]
    BY DEF Without
  <1> HIDE DEF photos, left, d
  <1>7. /\ d.items = ItemsAfter(p) /\ d.orders = OrdersAfter(p) /\ d.lines = LinesAfter(p)
        /\ d.kits = With(staying, spawned) /\ d.photos = Without(photos, left)
        /\ d = [items |-> d.items, orders |-> d.orders, lines |-> d.lines,
                kits |-> d.kits, photos |-> d.photos]
    BY <1>1
  <1>8. Became(d, p, gone, born)
    BY <1>5, <1>6, <1>7 DEF kits, photos, Became
  <1> QED
    BY <1>8 DEF d

\* An import leaves a collection: every cell of its column, every foreign key in place.
LEMMA AppliedIsCollection ==
    ASSUME NEW p, NEW c, NEW up, NEW mode, Taken(p, c, up, mode),
           NEW gone \in Victims(p), NEW born \in Births(p)
    PROVE  IsCollection(Applied(p, gone, born))
  <1> DEFINE d == Applied(p, gone, born)
             photos == After(p.w.photos, p.photos)
  <1>1. /\ DOMAIN born \subseteq KitIds /\ DOMAIN born \cap DOMAIN KitsAfter(p) = {}
        /\ \A k \in DOMAIN born : born[k] \in Short(p)
    BY BirthsFacts
  <1>2. /\ d = [items |-> d.items, orders |-> d.orders, lines |-> d.lines,
                kits |-> d.kits, photos |-> d.photos]
        /\ d.items = ItemsAfter(p)
        /\ d.orders = OrdersAfter(p) /\ d.lines = LinesAfter(p)
        /\ d.kits = [k \in DOMAIN d.kits |-> d.kits[k]]
        /\ DOMAIN d.kits = (DOMAIN KitsAfter(p) \ gone) \cup DOMAIN born
        /\ \A k \in DOMAIN KitsAfter(p) \ gone :
              d.kits[k] = [KitsAfter(p)[k] EXCEPT !.status = Advanced(p, k)]
        /\ \A k \in DOMAIN born :
              d.kits[k] = [line |-> born[k], status |-> SpawnStatus(p, born[k]),
                           rating |-> None]
        /\ d.photos = [i \in DOMAIN d.photos |-> d.photos[i]]
        /\ DOMAIN d.photos = {i \in DOMAIN photos : photos[i].kit \notin gone}
        /\ \A i \in DOMAIN d.photos : d.photos[i] = photos[i]
    BY <1>1, AppliedFacts DEF Became
  <1>3. /\ IsTable(OrdersAfter(p), OrderIds, Order) /\ IsTable(LinesAfter(p), LineIds, Line)
        /\ IsTable(KitsAfter(p), KitIds, Kit) /\ IsTable(photos, PhotoIds, Photo)
        /\ IsTable(ItemsAfter(p), ItemIds, Item)
    BY TablesAfter, ItemsAfterTyped
  <1>4. /\ \A l \in DOMAIN LinesAfter(p) : LinesAfter(p)[l].order \in DOMAIN OrdersAfter(p)
        /\ \A k \in DOMAIN KitsAfter(p) : KitsAfter(p)[k].line \in Maybe(DOMAIN LinesAfter(p))
        /\ \A i \in DOMAIN photos : photos[i].kit \in DOMAIN KitsAfter(p)
    BY ReferencesAfter
  <1>5. \A l \in Short(p) : l \in DOMAIN LinesAfter(p)
    <2>1. Holds(LinesAfter(p), p.lines, p.w.lines)
      BY TablesAfter
    <2> QED
      BY <2>1, ReconciledFacts DEF Short, Holds
  <1> HIDE DEF d, photos
  <1>6. ASSUME NEW k \in DOMAIN KitsAfter(p) \ gone
        PROVE  d.kits[k] \in Kit /\ d.kits[k].line \in Maybe(DOMAIN LinesAfter(p))
    <2>1. KitsAfter(p)[k] \in Kit
      BY <1>3 DEF IsTable
    <2>2. Advanced(p, k) \in KitStatus
      BY <2>1, AdvancedFacts DEF KitStatus, Kit
    <2>3. d.kits[k] = [KitsAfter(p)[k] EXCEPT !.status = Advanced(p, k)]
      BY <1>2
    <2> QED
      BY <1>4, <2>1, <2>2, <2>3 DEF Kit
  <1>7. ASSUME NEW k \in DOMAIN born
        PROVE  d.kits[k] \in Kit /\ d.kits[k].line \in Maybe(DOMAIN LinesAfter(p))
    <2>1. born[k] \in DOMAIN LinesAfter(p) /\ born[k] \in LineIds
      BY <1>1, <1>3, <1>5 DEF IsTable
    <2>2. SpawnStatus(p, born[k]) \in KitStatus
      BY SpawnStatusTyped
    <2>3. d.kits[k] = [line |-> born[k], status |-> SpawnStatus(p, born[k]), rating |-> None]
      BY <1>2
    <2>4. d.kits[k].line = born[k]
      BY <2>3
    <2>5. born[k] \in Maybe(LineIds) /\ None \in Maybe(Nat)
      BY <2>1 DEF Maybe
    <2>6. d.kits[k] \in Kit
      BY <2>2, <2>3, <2>5 DEF Kit
    <2> QED
      BY <2>1, <2>4, <2>6 DEF Maybe
  <1>8. IsTable(d.kits, KitIds, Kit)
    BY <1>1, <1>2, <1>3, <1>6, <1>7 DEF IsTable
  <1>9. IsTable(d.photos, PhotoIds, Photo)
    BY <1>2, <1>3 DEF IsTable
  <1>10. \A i \in DOMAIN d.photos : d.photos[i].kit \in DOMAIN d.kits
    BY <1>2, <1>4
  <1>11. \A k \in DOMAIN d.kits : d.kits[k].line \in Maybe(DOMAIN d.lines)
    BY <1>2, <1>6, <1>7
  <1>12. \A l \in DOMAIN d.lines : d.lines[l].order \in DOMAIN d.orders
    BY <1>2, <1>4
  <1>13. IsCollection(d)
    BY <1>2, <1>3, <1>8, <1>9, <1>10, <1>11, <1>12 DEF IsCollection
  <1> QED
    BY <1>13 DEF d

-----------------------------------------------------------------------------
(* What a line and its order were, and are.                                 *)

\* A stored line keeps its type and its order; every other line is created.
LEMMA LinesKept ==
    ASSUME NEW p, NEW c, NEW up, NEW mode, Taken(p, c, up, mode), NEW l \in DOMAIN LinesAfter(p)
    PROVE  /\ l \in DOMAIN p.w.lines =>
                 /\ LinesAfter(p)[l].type = p.w.lines[l].type
                 /\ LinesAfter(p)[l].order = p.w.lines[l].order
                 /\ \A r \in Entries(p.lines) : r.id = l => r.act # "create"
           /\ l \notin DOMAIN p.w.lines =>
                 \E r \in Entries(p.lines) :
                    r.id = l /\ r.act = "create" /\ LinesAfter(p)[l] = r.after
  <1>1. Holds(LinesAfter(p), p.lines, p.w.lines)
    BY TablesAfter
  <1>2. CASE \E r \in Entries(p.lines) : r.id = l
    <2>1. PICK r \in Entries(p.lines) : r.id = l
      BY <1>2
    <2>2. LinesAfter(p)[l] = r.after
      BY <1>1, <2>1 DEF Holds
    <2> QED
      BY <2>1, <2>2, LineEntries
  <1>3. CASE \A r \in Entries(p.lines) : r.id # l
    BY <1>1, <1>3 DEF Holds
  <1> QED
    BY <1>2, <1>3

\* An order is received afterwards as it was before if lines on it move stock, and a
\* new order is one that the file creates.
LEMMA OrdersKept ==
    ASSUME NEW p, NEW c, NEW up, NEW mode, Taken(p, c, up, mode), NEW o \in DOMAIN OrdersAfter(p)
    PROVE  /\ o \in DOMAIN p.w.orders /\ CatalogLinesOn(p, o) # {} =>
                 (OrdersAfter(p)[o].received # None <=> p.w.orders[o].received # None)
           /\ (\E r \in Entries(p.orders) :
                  r.id = o /\ r.act = "create" /\ r.after.received # None)
                 <=> o \notin DOMAIN p.w.orders /\ OrdersAfter(p)[o].received # None
  <1>1. Holds(OrdersAfter(p), p.orders, p.w.orders)
    BY TablesAfter
  <1>2. ASSUME NEW r \in Entries(p.orders)
        PROVE  /\ Entered(r, mode, p.w.orders, NewOrder, {})
               /\ r.act = "create" <=> r.id \notin DOMAIN p.w.orders
               /\ r.act # "create" => r.old = p.w.orders[r.id]
    <2>1. Entered(r, mode, p.w.orders, NewOrder, {})
      BY OrdersLand, EntriesLand
    <2>2. IsTable(p.w.orders, OrderIds, Order)
      BY PlanParts, WorldFacts DEF Taken, IsCollection
    <2> QED
      BY <2>1, <2>2, OldRow, NoneAssumption
  <1>3. ASSUME o \in DOMAIN p.w.orders, CatalogLinesOn(p, o) # {}
        PROVE  OrdersAfter(p)[o].received # None <=> p.w.orders[o].received # None
    <2>1. CASE \E r \in Entries(p.orders) : r.id = o
      <3>1. PICK r \in Entries(p.orders) : r.id = o
        BY <2>1
      <3>2. OrdersAfter(p)[o] = r.after /\ r.old = p.w.orders[o] /\ r.act # "create"
        BY <1>1, <1>2, <1>3, <3>1 DEF Holds
      <3>3. CASE r.act = "update"
        <4>1. (r.old.received = None) # (r.after.received = None) => CatalogLinesOn(p, r.id) = {}
          BY <3>3 DEF Taken, Accepted, CheckReceiptTransitions
        <4> QED
          BY <1>3, <3>1, <3>2, <4>1
      <3>4. CASE r.act # "update"
        BY <1>2, <3>2, <3>4 DEF Entered
      <3> QED
        BY <3>3, <3>4
    <2>2. CASE \A r \in Entries(p.orders) : r.id # o
      BY <1>1, <1>3, <2>2 DEF Holds
    <2> QED
      BY <2>1, <2>2
  <1>4. (\E r \in Entries(p.orders) :
            r.id = o /\ r.act = "create" /\ r.after.received # None)
           <=> o \notin DOMAIN p.w.orders /\ OrdersAfter(p)[o].received # None
    <2>1. ASSUME NEW r \in Entries(p.orders), r.id = o, r.act = "create", r.after.received # None
          PROVE  o \notin DOMAIN p.w.orders /\ OrdersAfter(p)[o].received # None
      BY <1>1, <1>2, <2>1 DEF Holds
    <2>2. ASSUME o \notin DOMAIN p.w.orders, OrdersAfter(p)[o].received # None
          PROVE  \E r \in Entries(p.orders) :
                    r.id = o /\ r.act = "create" /\ r.after.received # None
      <3>1. PICK r \in Entries(p.orders) : r.id = o
        BY <1>1, <2>2 DEF Holds
      <3> QED
        BY <1>1, <1>2, <2>2, <3>1 DEF Holds
    <2> QED
      BY <2>1, <2>2
  <1> QED
    BY <1>3, <1>4

\* After an import as before, a catalog line's order is received exactly if its units were
\* counted by a receipt or the line was brought in received.
LEMMA CountedAfter ==
    ASSUME NEW p, NEW up, NEW mode, Taken(p, db, up, mode), TypeOK, ReceiptsAccounted,
           NEW l \in DOMAIN LinesAfter(p), LinesAfter(p)[l].type = "tool"
    PROVE  LET received == OrdersAfter(p)[LinesAfter(p)[l].order].received # None
           IN  /\ received <=> (AppliedAfter(p)[l] > 0 \/ l \in BroughtAfter(p))
               /\ ~(AppliedAfter(p)[l] > 0 /\ l \in BroughtAfter(p))
  <1> DEFINE o == LinesAfter(p)[l].order
             restored == \E r \in Entries(p.orders) :
                            r.id = o /\ r.act = "create" /\ r.after.received # None
  <1>1. IsTable(LinesAfter(p), LineIds, Line) /\ l \in LineIds
    BY TablesAfter DEF IsTable
  <1>2. AppliedAfter(p)[l] =
            IF l \in DOMAIN p.w.lines /\ ~CreatedLine(p, l) THEN applied[l] ELSE 0
    BY <1>1 DEF AppliedAfter
  <1>3. o \in DOMAIN OrdersAfter(p)
    BY ReferencesAfter
  <1>4. restored <=> o \notin DOMAIN p.w.orders /\ OrdersAfter(p)[o].received # None
    BY <1>3, OrdersKept
  <1>7. l \in BroughtAfter(p) <=>
            \/ l \in brought /\ l \in DOMAIN p.w.lines /\ ~CreatedLine(p, l)
            \/ CreatedLine(p, l) /\ restored
    BY DEF BroughtAfter
  <1>5. CASE l \in DOMAIN p.w.lines
    <2>1. ~CreatedLine(p, l) /\ p.w.lines[l].type = "tool" /\ p.w.lines[l].order = o
      BY <1>5, LinesKept DEF CreatedLine
    <2>2. p.w = db
      BY <1>5, PlanParts, WorldFacts DEF Taken, Nothing
    <2>3. /\ db.orders[o].received # None <=> (applied[l] > 0 \/ l \in brought)
          /\ ~(applied[l] > 0 /\ l \in brought)
      BY <1>5, <2>1, <2>2 DEF ReceiptsAccounted
    <2>4. o \in DOMAIN db.orders
      BY <1>5, <2>1, <2>2 DEF TypeOK, IsCollection
    <2>5. l \in CatalogLinesOn(p, o)
      BY <1>5, <2>1 DEF CatalogLinesOn, LinesOn
    <2>6. OrdersAfter(p)[o].received # None <=> db.orders[o].received # None
      BY <1>3, <2>2, <2>4, <2>5, OrdersKept
    <2>7. AppliedAfter(p)[l] = applied[l] /\ (l \in BroughtAfter(p) <=> l \in brought)
      BY <1>2, <1>5, <1>7, <2>1
    <2> QED
      BY <2>3, <2>6, <2>7
  <1>6. CASE l \notin DOMAIN p.w.lines
    <2>1. PICK r \in Entries(p.lines) :
              r.id = l /\ r.act = "create" /\ LinesAfter(p)[l] = r.after
      BY <1>6, LinesKept
    <2>2. o \in DOMAIN p.w.orders => p.w.orders[o].received = None
      BY <2>1 DEF Taken, Accepted, CheckLinesJoiningReceivedOrders
    <2>3. l \in CatalogLinesOn(p, o)
      BY <2>1 DEF CatalogLinesOn, Writes
    <2>4. restored <=> OrdersAfter(p)[o].received # None
      BY <1>3, <1>4, <2>2, <2>3, OrdersKept
    <2>5. CreatedLine(p, l)
      BY <2>1 DEF CreatedLine
    <2>6. AppliedAfter(p)[l] = 0 /\ (l \in BroughtAfter(p) <=> restored)
      BY <1>2, <1>6, <1>7, <2>5
    <2> HIDE DEF restored
    <2> QED
      BY <2>4, <2>6
  <1> QED
    BY <1>5, <1>6

\* Every catalog line's item is there, or was not there before.
LEMMA ReferencesLandAfter ==
    ASSUME NEW p, NEW c, NEW up, NEW mode, Taken(p, c, up, mode),
           NEW l \in DOMAIN LinesAfter(p), LinesAfter(p)[l].type = "tool"
    PROVE  \/ LinesAfter(p)[l].ref \in DOMAIN ItemsAfter(p)
           \/ l \in DOMAIN p.w.lines /\ LinesAfter(p)[l].ref = p.w.lines[l].ref
  <1>1. Holds(LinesAfter(p), p.lines, p.w.lines)
    BY TablesAfter
  <1>2. ASSUME NEW r \in Entries(p.lines), r.id = l
        PROVE  \/ r.after.ref \in DOMAIN ItemsAfter(p)
               \/ l \in DOMAIN p.w.lines /\ r.after.ref = p.w.lines[l].ref
    <2>1. PICK key \in DOMAIN up.lines : r = p.lines[key]
      BY LinesLand, EntriesLand
    <2>2. /\ Entered(r, mode, p.w.lines, NewLine, {})
          /\ r.act = "create" <=> r.id \notin DOMAIN p.w.lines
          /\ r.act # "create" => r.old = p.w.lines[r.id] /\ r.old \in Line
      BY LineEntries
    <2>3. LinesAfter(p)[l] = r.after
      BY <1>1, <1>2 DEF Holds
    <2>4. CASE r.act \in {"skip", "unchanged"}
      BY <1>2, <2>2, <2>4 DEF Entered
    <2>5. CASE r.act = "update" /\ "ref" \notin DOMAIN r.row
      BY <1>2, <2>2, <2>5 DEF Entered, Written, Line
    <2>6. ASSUME "ref" \in DOMAIN r.row, r.after.ref # None, r.after.ref = r.row.ref
          PROVE  r.after.ref \in DOMAIN ItemsAfter(p)
      <3>3. \/ r.row.ref \in DOMAIN After(p.w.items, p.items)
            \/ /\ r.row.ref = StubId(p.w, up)
               /\ r.row.ref \notin DOMAIN p.w.items
               /\ \A s \in Entries(p.items) : s.id # r.row.ref
        BY <2>1, <2>6, ResolvedCells
      <3>4. CASE r.row.ref \in DOMAIN After(p.w.items, p.items)
        BY <2>6, <3>4, ItemsAfterHolds
      <3>5. CASE /\ r.row.ref = StubId(p.w, up)
                 /\ r.row.ref \notin DOMAIN p.w.items
                 /\ \A s \in Entries(p.items) : s.id # r.row.ref
        <4>1. p.stubs # {}
          BY <2>1, <2>6, <3>5, StubsFacts DEF Cell
        <4>2. p.up = up
          BY PlanParts DEF Taken
        <4> QED
          BY ZenonT(60), <2>6, <3>5, <4>1, <4>2, ItemsAfterHolds
      <3> QED
        BY <3>3, <3>4, <3>5
    <2>7. Writes(r) /\ (r.act = "create" \/ "ref" \in DOMAIN r.row) => r.after.ref # None
      BY <2>3 DEF Taken, Accepted, CheckCatalogTargets
    <2>8. CASE r.act = "create"
      <3>1. r.after.ref # None
        BY <2>7, <2>8 DEF Writes
      <3>2. "ref" \in DOMAIN r.row /\ r.after.ref = r.row.ref
        BY <2>2, <2>8, <3>1 DEF Entered, Written, NewLine
      <3> QED
        BY <2>6, <3>1, <3>2
    <2>9. CASE r.act = "update" /\ "ref" \in DOMAIN r.row
      <3>1. r.after.ref # None
        BY <2>7, <2>9 DEF Writes
      <3>2. r.after.ref = r.row.ref
        BY <2>2, <2>9 DEF Entered, Written, Line
      <3> QED
        BY <2>6, <2>9, <3>1, <3>2
    <2> QED
      BY <2>2, <2>4, <2>5, <2>8, <2>9 DEF Entered
  <1>3. CASE \E r \in Entries(p.lines) : r.id = l
    BY <1>1, <1>2, <1>3 DEF Holds
  <1>4. CASE \A r \in Entries(p.lines) : r.id # l
    BY <1>1, <1>4 DEF Holds
  <1> QED
    BY <1>3, <1>4

-----------------------------------------------------------------------------
(* The invariant.                                                           *)

\* That receipts are accounted for is inductive beside the types: a line whose order is
\* there stays on it, and every writer moves the two together or neither.
ImportInv == TypeOK /\ ReceiptsAccounted

LEMMA AppliedTyped ==
    ASSUME NEW p, NEW up, NEW mode, Taken(p, db, up, mode), TypeOK
    PROVE  /\ AppliedAfter(p) \in [LineIds -> 0..MaxLineQuantity]
           /\ BroughtAfter(p) \subseteq LineIds
  <1>1. \A l \in LineIds : applied[l] \in 0..MaxLineQuantity
    BY DEF TypeOK
  <1>2. 0 \in 0..MaxLineQuantity
    BY BoundsAssumption
  <1>3. AppliedAfter(p) \in [LineIds -> 0..MaxLineQuantity]
    BY <1>1, <1>2 DEF AppliedAfter
  <1>4. IsTable(LinesAfter(p), LineIds, Line) /\ brought \subseteq LineIds
    BY TablesAfter DEF TypeOK
  <1>5. BroughtAfter(p) \subseteq LineIds
    BY <1>4 DEF BroughtAfter, IsTable
  <1> QED
    BY <1>3, <1>5

LEMMA ImportTaken ==
    ASSUME TypeOK, NEW up \in Uploads, NEW mode \in Modes, ApplyImport(up, mode)
    PROVE  \E p : \E gone \in Victims(p), born \in Births(p) :
              /\ Taken(p, db, up, mode)
              /\ db' = Applied(p, gone, born)
              /\ applied' = AppliedAfter(p) /\ brought' = BroughtAfter(p)
              /\ reported' = Reported(p, db')
              /\ last' = mode /\ imports' = imports + 1 /\ imports < MaxImports
  BY InputsAssumption DEF ApplyImport, Taken, TypeOK

LEMMA ImportKeepsInv ==
    ASSUME ImportInv, NEW up \in Uploads, NEW mode \in Modes, ApplyImport(up, mode)
    PROVE  ImportInv'
  <1>1. PICK p : \E gone \in Victims(p), born \in Births(p) :
              /\ Taken(p, db, up, mode)
              /\ db' = Applied(p, gone, born)
              /\ applied' = AppliedAfter(p) /\ brought' = BroughtAfter(p)
              /\ reported' = Reported(p, db')
              /\ last' = mode /\ imports' = imports + 1 /\ imports < MaxImports
    BY ImportTaken DEF ImportInv
  <1>2. PICK gone \in Victims(p), born \in Births(p) :
              /\ Taken(p, db, up, mode)
              /\ db' = Applied(p, gone, born)
              /\ applied' = AppliedAfter(p) /\ brought' = BroughtAfter(p)
              /\ reported' = Reported(p, db')
              /\ last' = mode /\ imports' = imports + 1 /\ imports < MaxImports
    BY <1>1
  <1>3. IsCollection(db')
    BY <1>2, AppliedIsCollection
  <1>4. applied' \in [LineIds -> 0..MaxLineQuantity] /\ brought' \subseteq LineIds
    BY <1>2, AppliedTyped DEF ImportInv
  <1>5. Reported(p, db') \in BOOLEAN
    BY DEF Reported
  <1>6. imports' \in 0..MaxImports
    BY <1>2, BoundsAssumption DEF ImportInv, TypeOK
  <1>7. TypeOK'
    BY <1>2, <1>3, <1>4, <1>5, <1>6 DEF TypeOK
  <1>8. db'.lines = LinesAfter(p) /\ db'.orders = OrdersAfter(p)
    <2>1. DOMAIN born \cap DOMAIN KitsAfter(p) = {}
      BY BirthsFacts
    <2>2. Became(Applied(p, gone, born), p, gone, born)
      BY <2>1, AppliedFacts
    <2>3. Became(db', p, gone, born)
      BY <1>2, <2>2
    <2> QED
      BY <2>3 DEF Became
  <1>9. ReceiptsAccounted'
    BY <1>2, <1>8, CountedAfter DEF ImportInv, ReceiptsAccounted
  <1> QED
    BY <1>7, <1>9 DEF ImportInv

\* What a receipt leaves.
LEMMA ReceiptFacts ==
    ASSUME TypeOK, NEW o \in DOMAIN db.orders, ReceiveOrder(o)
    PROVE  /\ db' = [items |-> db'.items, orders |-> db'.orders, lines |-> db'.lines,
                     kits |-> db'.kits, photos |-> db'.photos]
           /\ db'.lines = db.lines /\ db'.photos = db.photos
           /\ db'.orders = [db.orders EXCEPT ![o] = [@ EXCEPT !.received = "day"]]
           /\ IsTable(db'.items, ItemIds, Item) /\ DOMAIN db'.items = DOMAIN db.items
           /\ IsTable(db'.kits, KitIds, Kit) /\ DOMAIN db'.kits = DOMAIN db.kits
           /\ \A k \in DOMAIN db.kits : db'.kits[k].line = db.kits[k].line
           /\ applied' = [l \in LineIds |->
                 IF l \in LinesOn(db, o) /\ db.lines[l].type = "tool"
                 THEN db.lines[l].quantity ELSE applied[l]]
           /\ last' = "live" /\ UNCHANGED <<brought, reported, imports>>
  <1> DEFINE bought == {l \in LinesOn(db, o) : db.lines[l].type = "tool"}
             quantities == [l \in bought |-> db.lines[l].quantity]
             onto(i) == {l \in bought : db.lines[l].ref = i}
             landing == {k \in DOMAIN db.kits :
                            /\ db.kits[k].line # None
                            /\ db.lines[db.kits[k].line].order = o
                            /\ db.kits[k].status \in ArrivalEligible}
             items == [i \in DOMAIN db.items |->
                 [db.items[i] EXCEPT !.onHand = @ + SumFunctionOnSet(quantities, onto(i))]]
             kits == [k \in DOMAIN db.kits |->
                         IF k \in landing THEN [db.kits[k] EXCEPT !.status = "backlog"]
                         ELSE db.kits[k]]
  <1>1. /\ db' = [db EXCEPT !.orders[o].received = "day", !.items = items, !.kits = kits]
        /\ applied' = [l \in LineIds |-> IF l \in bought THEN db.lines[l].quantity
                                         ELSE applied[l]]
        /\ last' = "live" /\ UNCHANGED <<brought, reported, imports>>
    BY DEF ReceiveOrder
  <1>2. /\ IsTable(db.items, ItemIds, Item) /\ IsTable(db.lines, LineIds, Line)
        /\ IsTable(db.kits, KitIds, Kit)
        /\ db = [items |-> db.items, orders |-> db.orders, lines |-> db.lines,
                 kits |-> db.kits, photos |-> db.photos]
    BY DEF TypeOK, IsCollection
  <1>3. ASSUME NEW i \in DOMAIN db.items
        PROVE  items[i] \in Item
    <2>1. IsFiniteSet(onto(i))
      BY <1>2, BoundsAssumption, FS_Subset DEF IsTable, LinesOn
    <2>2. \A l \in onto(i) : quantities[l] \in Nat
      BY <1>2, BoundsAssumption DEF IsTable, LinesOn, Line
    <2> HIDE DEF onto, quantities
    <2>3. SumFunctionOnSet(quantities, onto(i)) \in Nat
      BY <2>1, <2>2, SumNat
    <2>4. db.items[i] \in Item
      BY <1>2 DEF IsTable
    <2> QED
      BY <2>3, <2>4 DEF Item
  <1>4. ASSUME NEW k \in DOMAIN db.kits
        PROVE  kits[k] \in Kit /\ kits[k].line = db.kits[k].line
    BY <1>2 DEF IsTable, Kit, KitStatus
  <1>5. \A l : l \in bought <=> l \in LinesOn(db, o) /\ db.lines[l].type = "tool"
    OBVIOUS
  <1>6. /\ IsTable(items, ItemIds, Item) /\ DOMAIN items = DOMAIN db.items
        /\ IsTable(kits, KitIds, Kit) /\ DOMAIN kits = DOMAIN db.kits
    BY <1>2, <1>3, <1>4 DEF IsTable
  <1> HIDE DEF items, kits, bought
  <1>7. db' = [items |-> items,
               orders |-> [db.orders EXCEPT ![o] = [@ EXCEPT !.received = "day"]],
               lines |-> db.lines, kits |-> kits, photos |-> db.photos]
    BY <1>1, <1>2
  <1> QED
    BY <1>1, <1>4, <1>5, <1>6, <1>7

LEMMA ReceiptKeepsInv ==
    ASSUME ImportInv, NEW o \in DOMAIN db.orders, ReceiveOrder(o)
    PROVE  ImportInv'
  <1>1. /\ db' = [items |-> db'.items, orders |-> db'.orders, lines |-> db'.lines,
                  kits |-> db'.kits, photos |-> db'.photos]
        /\ db'.lines = db.lines /\ db'.photos = db.photos
        /\ db'.orders = [db.orders EXCEPT ![o] = [@ EXCEPT !.received = "day"]]
        /\ IsTable(db'.items, ItemIds, Item) /\ DOMAIN db'.items = DOMAIN db.items
        /\ IsTable(db'.kits, KitIds, Kit) /\ DOMAIN db'.kits = DOMAIN db.kits
        /\ \A k \in DOMAIN db.kits : db'.kits[k].line = db.kits[k].line
        /\ applied' = [l \in LineIds |->
              IF l \in LinesOn(db, o) /\ db.lines[l].type = "tool"
              THEN db.lines[l].quantity ELSE applied[l]]
        /\ last' = "live" /\ UNCHANGED <<brought, reported, imports>>
    BY ReceiptFacts DEF ImportInv
  <1>2. IsCollection(db) /\ applied \in [LineIds -> 0..MaxLineQuantity]
    BY DEF ImportInv, TypeOK
  <1>3. /\ DOMAIN db'.orders = DOMAIN db.orders
        /\ db'.orders[o].received = "day"
        /\ \A q \in DOMAIN db.orders \ {o} : db'.orders[q] = db.orders[q]
        /\ IsTable(db'.orders, OrderIds, Order)
    <2> DEFINE day == [db.orders[o] EXCEPT !.received = "day"]
    <2>1. db'.orders = [db.orders EXCEPT ![o] = day]
      BY <1>1
    <2>2. IsTable(db.orders, OrderIds, Order)
      BY <1>2 DEF IsCollection
    <2>3. db.orders[o] \in Order
      BY <2>2 DEF IsTable
    <2>4. day \in Order /\ day.received = "day"
      BY <2>3 DEF Order, Maybe, Dates
    <2> HIDE DEF day
    <2>5. /\ DOMAIN db'.orders = DOMAIN db.orders
          /\ db'.orders[o] = day
          /\ \A q \in DOMAIN db.orders \ {o} : db'.orders[q] = db.orders[q]
      BY <2>1, <2>2 DEF IsTable
    <2>6. db'.orders \in [DOMAIN db.orders -> Order]
      BY <2>1, <2>2, <2>4 DEF IsTable
    <2> QED
      BY <2>2, <2>4, <2>5, <2>6 DEF IsTable
  <1>4. IsCollection(db')
    BY <1>1, <1>2, <1>3 DEF IsCollection
  <1>5. /\ \A l \in DOMAIN db.lines :
              l \in LineIds /\ db.lines[l].quantity \in 1..MaxLineQuantity
        /\ applied' \in [LineIds -> 0..MaxLineQuantity]
    BY <1>1, <1>2, BoundsAssumption DEF IsCollection, IsTable, Line, LinesOn
  <1>6. TypeOK'
    BY <1>1, <1>4, <1>5 DEF ImportInv, TypeOK
  <1>7. ASSUME NEW l \in DOMAIN db.lines, db.lines[l].type = "tool"
        PROVE  LET received == db'.orders[db.lines[l].order].received # None
               IN  /\ received <=> (applied'[l] > 0 \/ l \in brought)
                   /\ ~(applied'[l] > 0 /\ l \in brought)
    <2>1. db.lines[l].order \in DOMAIN db.orders /\ l \in LineIds
      BY <1>2, <1>5 DEF IsCollection
    <2>2. CASE db.lines[l].order = o
      <3>1. "day" # None
        BY NoneAssumption DEF Dates
      <3>2. applied'[l] = db.lines[l].quantity
        BY <1>1, <1>7, <2>1, <2>2 DEF LinesOn
      <3>3. applied'[l] > 0
        BY <1>5, <3>2, BoundsAssumption
      <3>4. l \notin brought
        BY <1>7, <2>2 DEF ReceiveOrder, ImportInv, ReceiptsAccounted
      <3> QED
        BY <1>3, <2>2, <3>1, <3>3, <3>4
    <2>3. CASE db.lines[l].order # o
      <3>1. /\ applied'[l] = applied[l]
            /\ db'.orders[db.lines[l].order] = db.orders[db.lines[l].order]
        BY <1>1, <1>3, <1>7, <2>1, <2>3 DEF LinesOn
      <3> QED
        BY <1>7, <3>1 DEF ImportInv, ReceiptsAccounted
    <2> QED
      BY <2>2, <2>3
  <1>8. ReceiptsAccounted'
    BY <1>1, <1>7 DEF ReceiptsAccounted
  <1> QED
    BY <1>6, <1>8 DEF ImportInv

LEMMA BuildKeepsInv ==
    ASSUME ImportInv, NEW k \in DOMAIN db.kits, StartBuild(k)
    PROVE  ImportInv'
  <1>1. IsCollection(db)
    BY DEF ImportInv, TypeOK
  <1>2. /\ db' = [db EXCEPT !.kits[k].status = "building"]
        /\ last' = "live" /\ UNCHANGED <<applied, brought, reported, imports>>
    BY DEF StartBuild
  <1>3. /\ db'.items = db.items /\ db'.orders = db.orders /\ db'.lines = db.lines
        /\ db'.photos = db.photos
        /\ db'.kits = [db.kits EXCEPT ![k] = [@ EXCEPT !.status = "building"]]
        /\ db' = [items |-> db'.items, orders |-> db'.orders, lines |-> db'.lines,
                  kits |-> db'.kits, photos |-> db'.photos]
    BY <1>1, <1>2 DEF IsCollection
  <1>4. /\ IsTable(db'.kits, KitIds, Kit) /\ DOMAIN db'.kits = DOMAIN db.kits
        /\ \A x \in DOMAIN db.kits : db'.kits[x].line = db.kits[x].line
    BY <1>1, <1>3 DEF IsCollection, IsTable, Kit, KitStatus
  <1>5. IsCollection(db')
    BY <1>1, <1>3, <1>4 DEF IsCollection
  <1> QED
    BY <1>2, <1>3, <1>5 DEF ImportInv, TypeOK, ReceiptsAccounted

LEMMA ImportInit == Init => ImportInv
  <1> SUFFICES ASSUME Init PROVE ImportInv
    OBVIOUS
  <1>1. IsCollection(db)
    BY InputsAssumption DEF Init
  <1>2. \A l \in DOMAIN db.lines :
           l \in LineIds /\ db.lines[l].quantity \in 1..MaxLineQuantity
    BY <1>1 DEF IsCollection, IsTable, Line
  <1>3. applied \in [LineIds -> 0..MaxLineQuantity]
    BY <1>2, BoundsAssumption DEF Init
  <1>4. ReceiptsAccounted
    BY <1>2, BoundsAssumption DEF Init, ReceiptsAccounted
  <1> QED
    BY <1>1, <1>3, <1>4, BoundsAssumption DEF Init, ImportInv, TypeOK

LEMMA ImportNext == ImportInv /\ [Next]_vars => ImportInv'
  <1> SUFFICES ASSUME ImportInv, [Next]_vars PROVE ImportInv'
    OBVIOUS
  <1>1. ASSUME NEW up \in Uploads, NEW mode \in Modes, ApplyImport(up, mode)
        PROVE  ImportInv'
    BY <1>1, ImportKeepsInv
  <1>2. ASSUME NEW o \in DOMAIN db.orders, ReceiveOrder(o) PROVE ImportInv'
    BY <1>2, ReceiptKeepsInv
  <1>3. ASSUME NEW k \in DOMAIN db.kits, StartBuild(k) PROVE ImportInv'
    BY <1>3, BuildKeepsInv
  <1>4. CASE UNCHANGED vars
    BY <1>4 DEF vars, ImportInv, TypeOK, ReceiptsAccounted
  <1> QED
    BY <1>1, <1>2, <1>3, <1>4 DEF Next

\* Whatever mix of imports and receipts led here, a catalog line's order is received
\* exactly when a receipt put the line's units into stock or an import brought the line
\* in with its received order, and never both: no import flips a receipt, and none is
\* counted twice (services/portability/invariants.py, services/orders.py receive).
THEOREM ReceiptsStayAccounted == Spec => []ReceiptsAccounted
  <1>1. ImportInv => ReceiptsAccounted
    BY DEF ImportInv
  <1> QED
    BY <1>1, ImportInit, ImportNext, PTL DEF Spec

-----------------------------------------------------------------------------
(* What an import does is what its plan said.                               *)

\* The rows of kits and photos: what they write, and what they leave.
LEMMA KitEntries ==
    ASSUME NEW p, NEW c, NEW up, NEW mode, Taken(p, c, up, mode), NEW r \in Entries(p.kits)
    PROVE  /\ Entered(r, mode, p.w.kits, NewKit, {"status"})
           /\ r.act = "create" <=> r.id \notin DOMAIN p.w.kits
           /\ r.act # "create" => r.old = p.w.kits[r.id] /\ r.old \in Kit
           /\ r.after \in Kit
  <1>1. Entered(r, mode, p.w.kits, NewKit, {"status"})
    BY KitsLand, EntriesLand
  <1>2. IsTable(p.w.kits, KitIds, Kit)
    BY PlanParts, WorldFacts DEF Taken, IsCollection
  <1>3. r.after \in Kit
    BY KitsTyped
  <1> QED
    BY <1>1, <1>2, <1>3, OldRow, NoneAssumption

LEMMA PhotoEntries ==
    ASSUME NEW p, NEW c, NEW up, NEW mode, Taken(p, c, up, mode), NEW r \in Entries(p.photos)
    PROVE  /\ Entered(r, mode, p.w.photos, NewPhoto, {})
           /\ r.act = "create" <=> r.id \notin DOMAIN p.w.photos
           /\ r.act # "create" => r.old = p.w.photos[r.id] /\ r.old \in Photo
           /\ r.act # "skip" => r.after.kit = r.row.kit
  <1>1. Entered(r, mode, p.w.photos, NewPhoto, {})
    BY PhotosLand, EntriesLand
  <1>2. IsTable(p.w.photos, PhotoIds, Photo)
    BY PlanParts, WorldFacts DEF Taken, IsCollection
  <1>3. /\ r.act = "create" <=> r.id \notin DOMAIN p.w.photos
        /\ r.act # "create" => r.old = p.w.photos[r.id] /\ r.old \in Photo
    BY <1>1, <1>2, OldRow, NoneAssumption
  <1>4. PICK key \in DOMAIN up.photos : r = p.photos[key]
    BY PhotosLand, EntriesLand
  <1>5. r.row = [kit |-> Resolve(p.kits, p.w.kits, up.photos[key].kit)]
    BY <1>4, PhotosLand
  <1>6. "kit" \in DOMAIN r.row
    BY <1>5
  <1>7. r.act = "create" => r.after.kit = r.row.kit
    BY <1>1, <1>6 DEF Entered, Written, NewPhoto
  <1>8. r.act \in {"unchanged", "update"} => r.after.kit = r.row.kit
    BY <1>1, <1>3, <1>6 DEF Entered, Written, Photo
  <1> QED
    BY <1>1, <1>3, <1>7, <1>8 DEF Entered

\* An import that happened: its plan, the kits it gave up and the kits it made.
Happened(p, up, mode, gone, born) ==
    /\ Taken(p, db, up, mode) /\ gone \in Victims(p) /\ born \in Births(p)
    /\ Became(db', p, gone, born)
    /\ reported' = Reported(p, db') /\ last' = mode

LEMMA ImportHappened ==
    ASSUME TypeOK, [Next]_vars, vars' # vars, Imported
    PROVE  \E p, up, mode, gone, born : Happened(p, up, mode, gone, born)
  <1>1. PICK up \in Uploads, mode \in Modes : ApplyImport(up, mode)
    BY DEF Next, ReceiveOrder, StartBuild, Imported, Modes
  <1>2. PICK p : \E gone \in Victims(p), born \in Births(p) :
              /\ Taken(p, db, up, mode)
              /\ db' = Applied(p, gone, born)
              /\ applied' = AppliedAfter(p) /\ brought' = BroughtAfter(p)
              /\ reported' = Reported(p, db')
              /\ last' = mode /\ imports' = imports + 1 /\ imports < MaxImports
    BY <1>1, ImportTaken
  <1>3. PICK gone \in Victims(p), born \in Births(p) :
              /\ Taken(p, db, up, mode)
              /\ db' = Applied(p, gone, born)
              /\ applied' = AppliedAfter(p) /\ brought' = BroughtAfter(p)
              /\ reported' = Reported(p, db')
              /\ last' = mode /\ imports' = imports + 1 /\ imports < MaxImports
    BY <1>2
  <1>4. DOMAIN born \cap DOMAIN KitsAfter(p) = {}
    BY BirthsFacts
  <1>5. Became(Applied(p, gone, born), p, gone, born)
    BY <1>4, AppliedFacts
  <1>6. Became(db', p, gone, born)
    BY <1>3, <1>5
  <1>7. Happened(p, up, mode, gone, born)
    BY <1>3, <1>6 DEF Happened
  <1> QED
    BY ZenonT(60), <1>7

\* Every catalog reference an import leaves names an item that is there, or was
\* broken on the same line before it (services/portability/importing.py).
THEOREM ReferencesLand == Spec => RefsLand
  <1> DEFINE Landed ==
        Imported =>
            \A l \in DOMAIN db'.lines :
                db'.lines[l].type = "tool" =>
                    \/ db'.lines[l].ref \in DOMAIN db'.items
                    \/ /\ last' # "replace_all"
                       /\ l \in DOMAIN db.lines
                       /\ db'.lines[l].ref = db.lines[l].ref
  <1>1. ImportInv /\ [Next]_vars => [Landed]_vars
    <2> SUFFICES ASSUME ImportInv, [Next]_vars, vars' # vars, Imported,
                        NEW l \in DOMAIN db'.lines, db'.lines[l].type = "tool"
                 PROVE  \/ db'.lines[l].ref \in DOMAIN db'.items
                        \/ /\ last' # "replace_all"
                           /\ l \in DOMAIN db.lines
                           /\ db'.lines[l].ref = db.lines[l].ref
      OBVIOUS
    <2>1. PICK p, up, mode, gone, born : Happened(p, up, mode, gone, born)
      BY ImportHappened DEF ImportInv
    <2>2. /\ Taken(p, db, up, mode) /\ last' = mode
          /\ db'.lines = LinesAfter(p) /\ db'.items = ItemsAfter(p)
      BY <2>1 DEF Happened, Became
    <2>3. \/ LinesAfter(p)[l].ref \in DOMAIN ItemsAfter(p)
          \/ l \in DOMAIN p.w.lines /\ LinesAfter(p)[l].ref = p.w.lines[l].ref
      BY <2>2, ReferencesLandAfter
    <2>4. /\ mode = "replace_all" => p.w = Nothing
          /\ mode # "replace_all" => p.w = db
      BY <2>2, PlanParts, WorldFacts DEF Taken
    <2>5. l \in DOMAIN p.w.lines => mode # "replace_all"
      BY <2>4 DEF Nothing
    <2> QED
      BY <2>2, <2>3, <2>4, <2>5
  <1>2. Spec => []ImportInv /\ [][Next]_vars
    BY ImportInit, ImportNext, PTL DEF Spec
  <1> QED
    BY <1>1, <1>2, PTL DEF RefsLand

\* Nothing an import says it wrote was given up or cascaded away by it.
LEMMA ReportedStays ==
    ASSUME NEW p, NEW up, NEW mode, NEW gone, NEW born, Happened(p, up, mode, gone, born)
    PROVE  Reported(p, db')
  <1>1. /\ Taken(p, db, up, mode) /\ gone \in Victims(p) /\ born \in Births(p)
        /\ Became(db', p, gone, born)
    BY DEF Happened
  <1>2. /\ Holds(After(p.w.items, p.items), p.items, p.w.items)
        /\ Holds(OrdersAfter(p), p.orders, p.w.orders)
        /\ Holds(LinesAfter(p), p.lines, p.w.lines)
        /\ Holds(KitsAfter(p), p.kits, p.w.kits)
        /\ Holds(After(p.w.photos, p.photos), p.photos, p.w.photos)
    BY <1>1, TablesAfter
  <1>3. ASSUME NEW r \in Entries(p.items) PROVE r.id \in DOMAIN db'.items
    <2>1. r.id \in DOMAIN After(p.w.items, p.items)
      BY <1>2 DEF Holds
    <2> QED
      BY ZenonT(60), <1>1, <2>1, ItemsAfterHolds DEF Became
  <1>4. ASSUME NEW r \in Entries(p.orders) PROVE r.id \in DOMAIN db'.orders
    BY <1>1, <1>2 DEF Holds, Became
  <1>5. ASSUME NEW r \in Entries(p.lines) PROVE r.id \in DOMAIN db'.lines
    BY <1>1, <1>2 DEF Holds, Became
  <1>6. ASSUME NEW r \in Entries(p.kits) PROVE r.id \in DOMAIN db'.kits
    <2>1. r.id \in DOMAIN KitsAfter(p)
      BY <1>2 DEF Holds
    <2>2. r.id \notin gone
      BY <1>1, VictimsFacts
    <2> QED
      BY <1>1, <2>1, <2>2 DEF Became
  <1>7. ASSUME NEW r \in Entries(p.photos), r.act \in {"create", "update"}
        PROVE  r.id \in DOMAIN db'.photos
    <2>1. /\ r.id \in DOMAIN After(p.w.photos, p.photos)
          /\ After(p.w.photos, p.photos)[r.id] = r.after
      BY <1>2 DEF Holds
    <2>2. r.after.kit = r.row.kit /\ Writes(r)
      BY <1>1, <1>7, PhotoEntries DEF Writes
    <2>3. r.row.kit \in Protected(p)
      BY <2>2 DEF Protected
    <2>4. r.after.kit \notin gone
      BY <1>1, <2>2, <2>3, VictimsFacts
    <2> QED
      BY <1>1, <2>1, <2>4 DEF Became
  <1> QED
    BY <1>3, <1>4, <1>5, <1>6, <1>7 DEF Reported


\* What an entry of a stored kit leaves of each cell.
LEMMA KitCells ==
    ASSUME NEW p, NEW c, NEW up, NEW mode, Taken(p, c, up, mode), NEW r \in Entries(p.kits),
           r.act # "create"
    PROVE  /\ r.after.status # r.old.status =>
                 Writes(r) /\ "status" \in DOMAIN r.row /\ r.row.status = r.after.status
           /\ r.after.rating # r.old.rating =>
                 Writes(r) /\ "rating" \in DOMAIN r.row /\ r.row.rating = r.after.rating
           /\ r.after.line # r.old.line =>
                 r.act = "update" /\ "line" \in DOMAIN r.row
  <1>1. /\ Entered(r, mode, p.w.kits, NewKit, {"status"}) /\ r.old \in Kit
    BY KitEntries
  <1>2. CASE r.act \in {"skip", "unchanged"}
    BY <1>1, <1>2 DEF Entered
  <1>3. CASE r.act = "update"
    <2>1. r.after = Written(r.old, r.row, {"status"})
      BY <1>1, <1>3 DEF Entered
    <2> QED
      BY <1>1, <1>3, <2>1 DEF Written, Kit, Writes
  <1> QED
    BY <1>1, <1>2, <1>3 DEF Entered

\* A kit that was worked on, or will have been by this import, is protected.
LEMMA WorkProtects ==
    ASSUME NEW p, NEW up, NEW mode, NEW gone, NEW born, Happened(p, up, mode, gone, born),
           mode # "replace_all", IsCollection(db), NEW k \in DOMAIN db.kits,
           \/ KitProgressed(db, k)
           \/ k \in DOMAIN db'.kits /\ KitProgressed(db', k)
    PROVE  k \in Protected(p)
  <1>1. /\ Taken(p, db, up, mode) /\ gone \in Victims(p) /\ born \in Births(p)
        /\ Became(db', p, gone, born)
    BY DEF Happened
  <1>2. p.w = db
    BY <1>1, PlanParts, WorldFacts DEF Taken
  <1>3. Holds(KitsAfter(p), p.kits, db.kits)
    BY <1>1, <1>2, TablesAfter
  <1>4. Holds(After(db.photos, p.photos), p.photos, db.photos)
    BY <1>1, <1>2, TablesAfter
  <1>5. KitProgressed(db, k) => k \in Protected(p)
    BY <1>2 DEF Protected
  <1>6. ASSUME NEW r \in Entries(p.kits), r.id = k,
               r.after.status \in ProgressedStatuses \/ r.after.rating # None
        PROVE  k \in Protected(p)
    <2>1. r.act # "create" /\ r.old = db.kits[k]
      BY <1>1, <1>2, <1>6, KitEntries
    <2>2. CASE r.after.status = r.old.status /\ r.after.rating = r.old.rating
      BY <1>5, <1>6, <2>1, <2>2 DEF KitProgressed
    <2>3. CASE r.after.rating # r.old.rating /\ r.after.rating # None
      <3>1. Writes(r) /\ Cell(r.row, "rating") # None
        BY <1>1, <2>1, <2>3, KitCells DEF Cell
      <3> QED
        BY <1>6, <3>1 DEF Protected
    <2>4. CASE r.after.status # r.old.status /\ r.after.status \in ProgressedStatuses
      <3>1. Writes(r) /\ Cell(r.row, "status") \in ProgressedStatuses
        BY <1>1, <2>1, <2>4, KitCells DEF Cell
      <3> QED
        BY <1>6, <3>1 DEF Protected
    <2>5. CASE r.after.status = r.old.status /\ r.after.status \in ProgressedStatuses
      BY <1>5, <2>1, <2>5 DEF KitProgressed
    <2>6. CASE r.after.rating = r.old.rating /\ r.after.rating # None
      BY <1>5, <2>1, <2>6 DEF KitProgressed
    <2> QED
      BY <1>6, <2>3, <2>4, <2>5, <2>6
  <1>7. ASSUME k \in DOMAIN db'.kits, KitProgressed(db', k)
        PROVE  k \in Protected(p)
    <2>1. k \in DOMAIN KitsAfter(p)
      BY <1>3 DEF Holds
    <2>2. k \in DOMAIN KitsAfter(p) \ gone
      BY <1>1, <1>7, <2>1, BirthsFacts DEF Became
    <2>3. db'.kits[k] = [KitsAfter(p)[k] EXCEPT !.status = Advanced(p, k)]
      BY <1>1, <2>2 DEF Became
    <2>4. KitsAfter(p)[k] \in Kit
      BY <1>1, <2>1, TablesAfter DEF IsTable
    <2>5. /\ db'.kits[k].rating = KitsAfter(p)[k].rating
          /\ db'.kits[k].status = Advanced(p, k)
      BY <2>3, <2>4 DEF Kit
    <2>6. db'.kits[k].status \in ProgressedStatuses =>
              KitsAfter(p)[k].status \in ProgressedStatuses
      BY <2>5, AdvancedFacts DEF ProgressedStatuses
    <2>7. CASE \/ KitsAfter(p)[k].status \in ProgressedStatuses
               \/ KitsAfter(p)[k].rating # None
      <3>1. CASE \E r \in Entries(p.kits) : r.id = k
        BY <1>3, <1>6, <2>7, <3>1 DEF Holds
      <3>2. CASE \A r \in Entries(p.kits) : r.id # k
        BY <1>3, <1>5, <2>7, <3>2 DEF Holds, KitProgressed
      <3> QED
        BY <3>1, <3>2
    <2>8. CASE \E i \in DOMAIN db'.photos : db'.photos[i].kit = k
      <3>1. PICK i \in DOMAIN After(db.photos, p.photos) :
                After(db.photos, p.photos)[i].kit = k
        BY <1>1, <1>2, <2>8 DEF Became
      <3>2. CASE \E r \in Entries(p.photos) : r.id = i
        <4>1. PICK r \in Entries(p.photos) : r.id = i
          BY <3>2
        <4>2. r.after.kit = k
          BY <1>4, <3>1, <4>1 DEF Holds
        <4>3. CASE r.act = "skip"
          <5>1. r.after = r.old /\ r.old = db.photos[i] /\ i \in DOMAIN db.photos
            BY <1>1, <1>2, <4>1, <4>3, PhotoEntries DEF Entered
          <5> QED
            BY <1>5, <4>2, <5>1 DEF KitProgressed
        <4>4. CASE r.act # "skip"
          <5>1. Writes(r) /\ r.row.kit = k
            BY <1>1, <4>2, <4>4, PhotoEntries DEF Writes
          <5> QED
            BY <5>1 DEF Protected
        <4> QED
          BY <4>3, <4>4
      <3>3. CASE \A r \in Entries(p.photos) : r.id # i
        <4>1. i \in DOMAIN db.photos /\ db.photos[i].kit = k
          BY <1>4, <3>1, <3>3 DEF Holds
        <4> QED
          BY <1>5, <4>1 DEF KitProgressed
      <3> QED
        BY <3>2, <3>3
    <2> QED
      BY <1>7, <2>5, <2>6, <2>7, <2>8 DEF KitProgressed
  <1> QED
    BY <1>5, <1>7

\* A protected kit stays, on the line that bought it.
LEMMA ProtectedStays ==
    ASSUME NEW p, NEW up, NEW mode, NEW gone, NEW born, Happened(p, up, mode, gone, born),
           mode # "replace_all", IsCollection(db), NEW k \in DOMAIN db.kits,
           k \in Protected(p), db.kits[k].line # None
    PROVE  k \in DOMAIN db'.kits /\ db'.kits[k].line = db.kits[k].line
  <1>1. /\ Taken(p, db, up, mode) /\ gone \in Victims(p) /\ born \in Births(p)
        /\ Became(db', p, gone, born)
    BY DEF Happened
  <1>2. p.w = db
    BY <1>1, PlanParts, WorldFacts DEF Taken
  <1>3. Holds(KitsAfter(p), p.kits, db.kits) /\ IsTable(KitsAfter(p), KitIds, Kit)
    BY <1>1, <1>2, TablesAfter
  <1>4. k \in DOMAIN KitsAfter(p) \ gone
    BY <1>1, <1>3, VictimsFacts DEF Holds
  <1>5. db'.kits[k] = [KitsAfter(p)[k] EXCEPT !.status = Advanced(p, k)] /\ k \in DOMAIN db'.kits
    BY <1>1, <1>4 DEF Became
  <1>6. db'.kits[k].line = KitsAfter(p)[k].line
    BY <1>3, <1>4, <1>5 DEF IsTable, Kit
  <1>7. CASE \E r \in Entries(p.kits) : r.id = k
    <2>1. PICK r \in Entries(p.kits) : r.id = k
      BY <1>7
    <2>2. KitsAfter(p)[k] = r.after /\ r.old = db.kits[k] /\ r.act # "create"
      BY <1>1, <1>2, <1>3, <2>1, KitEntries DEF Holds
    <2>3. r.act = "update" => r.after.line = r.old.line
      BY <1>1, <2>1, <2>2 DEF Taken, Accepted, KeepsProvenance
    <2>4. r.after.line = r.old.line
      BY <1>1, <2>2, <2>3, KitCells
    <2> QED
      BY <1>5, <1>6, <2>2, <2>4
  <1>8. CASE \A r \in Entries(p.kits) : r.id # k
    BY <1>3, <1>5, <1>6, <1>8 DEF Holds
  <1> QED
    BY <1>7, <1>8

\* A table that an add_only plan writes to.
OnlyAddedTo(rows, stored, table, ids, RowSet, default, unstatable) ==
    /\ IsTable(stored, ids, RowSet) /\ None \notin RowSet
    /\ Holds(table, rows, stored)
    /\ \A r \in Entries(rows) : Entered(r, "add_only", stored, default, unstatable)

\* In add_only a stored row stays as it is, whatever the file says of it.
LEMMA StoredStays ==
    ASSUME NEW rows, NEW stored, NEW table, NEW ids, NEW RowSet, NEW default, NEW unstatable,
           OnlyAddedTo(rows, stored, table, ids, RowSet, default, unstatable),
           NEW i \in DOMAIN stored
    PROVE  i \in DOMAIN table /\ table[i] = stored[i]
  <1>1. ASSUME NEW r \in Entries(rows), r.id = i PROVE r.after = stored[i]
    BY <1>1 DEF OnlyAddedTo, Entered, Row, IsTable
  <1> QED
    BY <1>1 DEF OnlyAddedTo, Holds

\* In add_only every order the file holds is new or left alone, and no kit is given up.
LEMMA AddingSpares ==
    ASSUME NEW p, NEW up, NEW mode, Taken(p, db, up, mode), mode = "add_only",
           NEW gone \in Victims(p)
    PROVE  gone = {} /\ \A k : Advanced(p, k) = KitsAfter(p)[k].status
  <1>1. p.w = db /\ IsCollection(db)
    BY PlanParts, WorldFacts DEF Taken
  <1>2. \A r \in Entries(p.orders) : r.act # "update"
    <2>1. \A r \in Entries(p.orders) : Entered(r, mode, p.w.orders, NewOrder, {})
      BY OrdersLand, EntriesLand
    <2> QED
      BY <2>1 DEF Entered
  <1>3. ASSUME NEW k \in gone PROVE FALSE
    <2>1. /\ k \in DOMAIN db.kits
          /\ \A r \in Entries(p.kits) : r.id # k
          /\ KitsAfter(p)[k].line \in Over(p)
      BY <1>1, <1>3, VictimsFacts
    <2>2. KitsAfter(p)[k] = db.kits[k]
      BY <1>1, <2>1, TablesAfter DEF Holds
    <2>3. PICK r \in Entries(p.lines) : r.id = db.kits[k].line /\ Writes(r) /\ WritesQuantity(r)
      BY <2>1, <2>2, ReconciledFacts DEF Over
    <2>4. Entered(r, mode, p.w.lines, NewLine, {}) /\ (r.act = "create" <=> r.id \notin DOMAIN db.lines)
      BY <1>1, LineEntries
    <2>5. r.id \notin DOMAIN db.lines
      BY <2>3, <2>4 DEF Entered, WritesQuantity
    <2>6. r.id \in LineIds
      BY LinesLand, EntriesLand
    <2>7. db.kits[k].line \in Maybe(DOMAIN db.lines)
      BY <1>1, <2>1 DEF IsCollection
    <2> QED
      BY <2>3, <2>5, <2>6, <2>7, NoneAssumption DEF Maybe
  <1> QED
    BY <1>2, <1>3, AdvancedByUpdate

LEMMA AddingKeeps ==
    ASSUME NEW p, NEW up, NEW mode, NEW gone, NEW born, Happened(p, up, mode, gone, born),
           mode = "add_only", IsCollection(db)
    PROVE  \A t \in DOMAIN db : \A i \in DOMAIN db[t] : i \in DOMAIN db'[t] /\ db'[t][i] = db[t][i]
  <1>1. /\ Taken(p, db, up, mode) /\ gone \in Victims(p) /\ born \in Births(p)
        /\ Became(db', p, gone, born)
    BY DEF Happened
  <1>2. p.w = db
    BY <1>1, PlanParts, WorldFacts DEF Taken
  <1>3. gone = {} /\ \A k : Advanced(p, k) = KitsAfter(p)[k].status
    BY <1>1, AddingSpares
  <1>4. /\ Holds(After(db.items, p.items), p.items, db.items)
        /\ Holds(OrdersAfter(p), p.orders, db.orders)
        /\ Holds(LinesAfter(p), p.lines, db.lines)
        /\ Holds(KitsAfter(p), p.kits, db.kits)
        /\ Holds(After(db.photos, p.photos), p.photos, db.photos)
    BY <1>1, <1>2, TablesAfter
  <1>5. /\ IsTable(db.items, ItemIds, Item) /\ IsTable(db.orders, OrderIds, Order)
        /\ IsTable(db.lines, LineIds, Line) /\ IsTable(db.kits, KitIds, Kit)
        /\ IsTable(db.photos, PhotoIds, Photo)
        /\ DOMAIN db = {"items", "orders", "lines", "kits", "photos"}
    BY DEF IsCollection
  <1>6. /\ \A r \in Entries(p.items) : Entered(r, "add_only", db.items, NewItem, {"onHand"})
        /\ \A r \in Entries(p.orders) : Entered(r, "add_only", db.orders, NewOrder, {})
        /\ \A r \in Entries(p.lines) : Entered(r, "add_only", db.lines, NewLine, {})
        /\ \A r \in Entries(p.kits) : Entered(r, "add_only", db.kits, NewKit, {"status"})
        /\ \A r \in Entries(p.photos) : Entered(r, "add_only", db.photos, NewPhoto, {})
    BY <1>1, <1>2, ItemsLand, OrdersLand, LinesLand, KitsLand, PhotosLand, EntriesLand
  <1>12. /\ None \notin Item /\ None \notin Order /\ None \notin Line /\ None \notin Kit
         /\ None \notin Photo
    BY NoneAssumption
  <1>13. /\ OnlyAddedTo(p.items, db.items, After(db.items, p.items), ItemIds, Item, NewItem,
                        {"onHand"})
         /\ OnlyAddedTo(p.orders, db.orders, OrdersAfter(p), OrderIds, Order, NewOrder, {})
         /\ OnlyAddedTo(p.lines, db.lines, LinesAfter(p), LineIds, Line, NewLine, {})
         /\ OnlyAddedTo(p.kits, db.kits, KitsAfter(p), KitIds, Kit, NewKit, {"status"})
         /\ OnlyAddedTo(p.photos, db.photos, After(db.photos, p.photos), PhotoIds, Photo,
                        NewPhoto, {})
    BY <1>4, <1>5, <1>6, <1>12 DEF OnlyAddedTo
  <1>7. ASSUME NEW i \in DOMAIN db.items
        PROVE  i \in DOMAIN db'.items /\ db'.items[i] = db.items[i]
    <2>1. i \in DOMAIN After(db.items, p.items) /\ After(db.items, p.items)[i] = db.items[i]
      BY <1>13, StoredStays
    <2>2. i \in DOMAIN ItemsAfter(p) /\ ItemsAfter(p)[i] = db.items[i]
      BY <1>2, <2>1, ItemsAfterHolds
    <2> QED
      BY <1>1, <2>2 DEF Became
  <1>8. ASSUME NEW i \in DOMAIN db.orders
        PROVE  i \in DOMAIN db'.orders /\ db'.orders[i] = db.orders[i]
    <2>1. i \in DOMAIN OrdersAfter(p) /\ OrdersAfter(p)[i] = db.orders[i]
      BY <1>13, StoredStays
    <2> QED
      BY <1>1, <2>1 DEF Became
  <1>9. ASSUME NEW i \in DOMAIN db.lines
        PROVE  i \in DOMAIN db'.lines /\ db'.lines[i] = db.lines[i]
    <2>1. i \in DOMAIN LinesAfter(p) /\ LinesAfter(p)[i] = db.lines[i]
      BY <1>13, StoredStays
    <2> QED
      BY <1>1, <2>1 DEF Became
  <1>10. ASSUME NEW i \in DOMAIN db.kits
         PROVE  i \in DOMAIN db'.kits /\ db'.kits[i] = db.kits[i]
    <2>1. i \in DOMAIN KitsAfter(p) /\ KitsAfter(p)[i] = db.kits[i]
      BY <1>13, StoredStays
    <2>2. db.kits[i] \in Kit
      BY <1>5 DEF IsTable
    <2>3. /\ i \in DOMAIN db'.kits
          /\ db'.kits[i] = [KitsAfter(p)[i] EXCEPT !.status = KitsAfter(p)[i].status]
      BY <1>1, <1>3, <2>1 DEF Became
    <2> QED
      BY <2>1, <2>2, <2>3 DEF Kit
  <1>11. ASSUME NEW i \in DOMAIN db.photos
         PROVE  i \in DOMAIN db'.photos /\ db'.photos[i] = db.photos[i]
    <2>1. /\ i \in DOMAIN After(db.photos, p.photos)
          /\ After(db.photos, p.photos)[i] = db.photos[i]
      BY <1>13, StoredStays
    <2> QED
      BY <1>1, <1>2, <1>3, <2>1 DEF Became
  <1> QED
    BY <1>5, <1>7, <1>8, <1>9, <1>10, <1>11


\* The kits a line will hold are the ones that the table of kits puts on it.
LEMMA HeldKits ==
    ASSUME NEW p, NEW c, NEW up, NEW mode, Taken(p, c, up, mode), NEW l
    PROVE  AttachedAfter(p, l) \cup Covered(p, l) =
               {k \in DOMAIN KitsAfter(p) : KitsAfter(p)[k].line = l}
  <1>1. Holds(KitsAfter(p), p.kits, p.w.kits)
    BY TablesAfter
  <1>2. ASSUME NEW k \in Covered(p, l)
        PROVE  k \in DOMAIN KitsAfter(p) /\ KitsAfter(p)[k].line = l
    BY <1>1 DEF Covered, Holds
  <1>3. ASSUME NEW k \in DOMAIN KitsAfter(p), KitsAfter(p)[k].line = l, k \notin DOMAIN p.w.kits
        PROVE  k \in Covered(p, l)
    <2>1. PICK r \in Entries(p.kits) : r.id = k /\ KitsAfter(p)[k] = r.after
      BY <1>1, <1>3 DEF Holds
    <2>2. r.act = "create" /\ r.after.line = l
      BY <1>3, <2>1, KitEntries
    <2> QED
      BY <2>1, <2>2 DEF Covered
  <1>4. DOMAIN p.w.kits \subseteq DOMAIN KitsAfter(p)
    BY <1>1 DEF Holds
  <1> QED
    BY <1>2, <1>3, <1>4 DEF AttachedAfter

\* The kits on a line when the import is done: those it would hold, without the ones
\* given up and with the ones made.
LEMMA KitsOnLine ==
    ASSUME NEW p, NEW up, NEW mode, NEW gone, NEW born, Happened(p, up, mode, gone, born),
           NEW l
    PROVE  KitsOn(db', l) = ((AttachedAfter(p, l) \cup Covered(p, l)) \ gone)
                              \cup {k \in DOMAIN born : born[k] = l}
  <1>1. /\ Taken(p, db, up, mode) /\ Became(db', p, gone, born)
    BY DEF Happened
  <1>2. AttachedAfter(p, l) \cup Covered(p, l) =
            {k \in DOMAIN KitsAfter(p) : KitsAfter(p)[k].line = l}
    BY <1>1, HeldKits
  <1>3. ASSUME NEW k \in DOMAIN KitsAfter(p) \ gone
        PROVE  db'.kits[k].line = KitsAfter(p)[k].line
    <2>1. KitsAfter(p)[k] \in Kit
      BY <1>1, TablesAfter DEF IsTable
    <2>2. db'.kits[k] = [KitsAfter(p)[k] EXCEPT !.status = Advanced(p, k)]
      BY <1>1 DEF Became
    <2> QED
      BY <2>1, <2>2 DEF Kit
  <1>4. ASSUME NEW k \in DOMAIN born
        PROVE  db'.kits[k].line = born[k]
    <2>1. db'.kits[k] = [line |-> born[k], status |-> SpawnStatus(p, born[k]), rating |-> None]
      BY <1>1 DEF Became
    <2> QED
      BY <2>1
  <1>5. DOMAIN db'.kits = (DOMAIN KitsAfter(p) \ gone) \cup DOMAIN born
    BY <1>1 DEF Became
  <1> QED
    BY <1>2, <1>3, <1>4, <1>5 DEF KitsOn

\* A line whose quantity the file writes ends up with that many kits.
LEMMA ReconciledExact ==
    ASSUME NEW p, NEW up, NEW mode, NEW gone, NEW born, Happened(p, up, mode, gone, born),
           NEW l \in Reconciled(p)
    PROVE  Cardinality(KitsOn(db', l)) = LinesAfter(p)[l].quantity
  <1> DEFINE held == AttachedAfter(p, l) \cup Covered(p, l)
             made == {k \in DOMAIN born : born[k] = l}
             q == LinesAfter(p)[l].quantity
  <1>1. /\ Taken(p, db, up, mode) /\ gone \in Victims(p) /\ born \in Births(p)
    BY DEF Happened
  <1>2. KitsOn(db', l) = (held \ gone) \cup made
    BY KitsOnLine
  <1>3. q \in Nat
    <2>1. PICK r \in Entries(p.lines) : r.id = l
      BY ReconciledFacts
    <2>2. Holds(LinesAfter(p), p.lines, p.w.lines) /\ IsTable(LinesAfter(p), LineIds, Line)
      BY <1>1, TablesAfter
    <2> QED
      BY <2>1, <2>2, BoundsAssumption DEF Holds, IsTable, Line
  <1>4. held \subseteq DOMAIN KitsAfter(p)
    BY <1>1, HeldKits
  <1>5. /\ IsFiniteSet(held) /\ IsFiniteSet(made) /\ held \cap made = {}
        /\ DOMAIN born \cap DOMAIN KitsAfter(p) = {}
    <2>1. IsTable(KitsAfter(p), KitIds, Kit)
      BY <1>1, TablesAfter
    <2>2. DOMAIN born \subseteq KitIds /\ DOMAIN born \cap DOMAIN KitsAfter(p) = {}
      BY <1>1, BirthsFacts
    <2>3. held \subseteq KitIds /\ made \subseteq KitIds
      BY <1>4, <2>1, <2>2 DEF IsTable
    <2> QED
      BY <1>4, <2>2, <2>3, BoundsAssumption, FS_Subset
  <1>6. Surplus(p, l) = Cardinality(held) - q
    BY DEF Surplus, Held
  <1>7. Cardinality(held) \in Nat
    BY <1>5, FS_CardinalityType
  <1>8. CASE Surplus(p, l) > 0
    <2>1. l \in Over(p) /\ l \notin Short(p)
      BY <1>3, <1>6, <1>7, <1>8 DEF Over, Short
    <2>2. made = {}
      BY <1>1, <2>1, BirthsFacts
    <2>3. held \cap gone = gone \cap Removable(p, l)
      <3>1. ASSUME NEW k \in gone, k \in held PROVE k \in Removable(p, l)
        <4>1. KitsAfter(p)[k].line = l
          BY <1>1, <3>1, HeldKits
        <4> QED
          BY <1>1, <4>1, VictimsFacts
      <3>2. Removable(p, l) \subseteq held
        BY DEF Removable
      <3> QED
        BY <3>1, <3>2
    <2>4. Cardinality(gone \cap Removable(p, l)) = Surplus(p, l)
      BY <1>1, <2>1 DEF Victims
    <2> HIDE DEF held
    <2>5. Cardinality(held \ gone) = Cardinality(held) - Cardinality(held \cap gone)
      BY <1>5, FS_Difference
    <2>6. KitsOn(db', l) = held \ gone
      BY <1>2, <2>2
    <2>7. Cardinality(held \cap gone) = Surplus(p, l)
      BY <2>3, <2>4
    <2>8. Cardinality(KitsOn(db', l)) = Cardinality(held \ gone)
      BY <2>6
    <2> QED
      BY <1>3, <1>6, <1>7, <2>5, <2>7, <2>8
  <1>9. CASE Surplus(p, l) <= 0
    <2>1. l \notin Over(p)
      BY <1>3, <1>6, <1>7, <1>9 DEF Over
    <2>2. held \cap gone = {}
      <3>1. ASSUME NEW k \in gone, k \in held PROVE FALSE
        <4>1. KitsAfter(p)[k].line = l
          BY <1>1, <3>1, HeldKits
        <4> QED
          BY <1>1, <2>1, <4>1, VictimsFacts
      <3> QED
        BY <3>1
    <2>3. KitsOn(db', l) = held \cup made
      BY <1>2, <2>2
    <2>4. Cardinality(made) = q - Cardinality(held)
      <3>1. CASE Surplus(p, l) < 0
        <4>1. Cardinality(made) = -Surplus(p, l)
          BY <1>1, <3>1, BirthsFacts DEF Short
        <4> QED
          BY <1>3, <1>6, <1>7, <4>1
      <3>2. CASE Surplus(p, l) = 0
        <4>1. made = {}
          BY <1>1, <3>2, BirthsFacts DEF Short
        <4>2. Cardinality(made) = 0
          BY <4>1, FS_EmptySet
        <4>3. Cardinality(held) = q
          BY <1>3, <1>6, <1>7, <3>2
        <4> HIDE DEF made, held, q
        <4> QED
          BY <1>3, <4>2, <4>3
      <3> QED
        BY <1>3, <1>6, <1>7, <1>9, <3>1, <3>2
    <2> HIDE DEF held, made
    <2>5. Cardinality(held \cup made) = Cardinality(held) + Cardinality(made)
      <3>1. Cardinality(held \cup made) =
                Cardinality(held) + Cardinality(made) - Cardinality(held \cap made)
        BY <1>5, FS_Union
      <3>2. Cardinality(held \cap made) = 0
        BY <1>5, FS_EmptySet
      <3>3. Cardinality(made) \in Nat
        BY <1>5, FS_CardinalityType
      <3> QED
        BY <1>7, <3>1, <3>2, <3>3
    <2> QED
      BY <1>3, <1>7, <2>3, <2>4, <2>5
  <1> QED
    BY <1>3, <1>6, <1>7, <1>8, <1>9

\* A line the file writes no quantity for, but moves a kit off or onto, holds what it
\* says already.
LEMMA MovedExact ==
    ASSUME NEW p, NEW up, NEW mode, NEW gone, NEW born, Happened(p, up, mode, gone, born),
           IsCollection(db), NEW l \in DOMAIN LinesAfter(p), l \notin Reconciled(p),
           LinesAfter(p)[l].type = "kit",
           \/ l \notin DOMAIN db.lines
           \/ LinesAfter(p)[l].quantity # db.lines[l].quantity
           \/ KitsOn(db', l) # KitsOn(db, l)
    PROVE  Cardinality(KitsOn(db', l)) = LinesAfter(p)[l].quantity
  <1>1. /\ Taken(p, db, up, mode) /\ gone \in Victims(p) /\ born \in Births(p)
    BY DEF Happened
  <1>2. ASSUME NEW r \in Entries(p.lines), r.id = l
        PROVE  r.act # "create" /\ LinesAfter(p)[l].quantity = p.w.lines[l].quantity
    <2>1. LinesAfter(p)[l] = r.after
      BY <1>1, <1>2, TablesAfter DEF Holds
    <2>2. ~(Writes(r) /\ WritesQuantity(r))
      BY <1>2, <2>1 DEF Reconciled
    <2>3. Entered(r, mode, p.w.lines, NewLine, {}) /\ (r.act # "create" => r.old = p.w.lines[l])
      BY <1>1, <1>2, LineEntries
    <2> QED
      BY <2>1, <2>2, <2>3 DEF Writes, WritesQuantity, Entered
  <1>3. l \in DOMAIN p.w.lines /\ LinesAfter(p)[l].quantity = p.w.lines[l].quantity
    <2>1. Holds(LinesAfter(p), p.lines, p.w.lines)
      BY <1>1, TablesAfter
    <2>2. CASE \E r \in Entries(p.lines) : r.id = l
      BY <1>1, <1>2, <2>2, LineEntries
    <2>3. CASE \A r \in Entries(p.lines) : r.id # l
      BY <2>1, <2>3 DEF Holds
    <2> QED
      BY <2>2, <2>3
  <1>4. p.w = db
    BY <1>1, <1>3, PlanParts, WorldFacts DEF Taken, Nothing
  <1>5. KitsOn(db', l) = AttachedAfter(p, l) \cup Covered(p, l)
    <2>1. l \notin Over(p) /\ l \notin Short(p)
      BY DEF Over, Short
    <2>2. {k \in DOMAIN born : born[k] = l} = {}
      BY <1>1, <2>1, BirthsFacts
    <2>3. ASSUME NEW k \in gone, k \in AttachedAfter(p, l) \cup Covered(p, l) PROVE FALSE
      <3>1. KitsAfter(p)[k].line = l
        BY <1>1, <2>3, HeldKits
      <3> QED
        BY <1>1, <2>1, <3>1, VictimsFacts
    <2>4. KitsOn(db', l) = ((AttachedAfter(p, l) \cup Covered(p, l)) \ gone)
                              \cup {k \in DOMAIN born : born[k] = l}
      BY KitsOnLine
    <2> QED
      BY <2>2, <2>3, <2>4
  <1>6. PICK k : (k \in KitsOn(db, l)) # (k \in KitsOn(db', l))
    BY <1>3, <1>4
  <1>7. PICK r \in Entries(p.kits) :
            /\ r.id = k /\ Writes(r) /\ "line" \in DOMAIN r.row /\ r.after.line # Old(r, "line")
            /\ l \in {Old(r, "line"), r.after.line}
    <2>1. Holds(KitsAfter(p), p.kits, db.kits)
      BY <1>1, <1>4, TablesAfter
    <2>2. k \in KitsOn(db', l) <=> k \in DOMAIN KitsAfter(p) /\ KitsAfter(p)[k].line = l
      BY <1>1, <1>5, HeldKits
    <2>3. k \in KitsOn(db, l) <=> k \in DOMAIN db.kits /\ db.kits[k].line = l
      BY DEF KitsOn
    <2>4. PICK r \in Entries(p.kits) : r.id = k /\ KitsAfter(p)[k] = r.after
      BY <1>6, <2>1, <2>2, <2>3 DEF Holds
    <2>5. /\ Entered(r, mode, db.kits, NewKit, {"status"})
          /\ r.act = "create" <=> k \notin DOMAIN db.kits
          /\ r.act # "create" => r.old = db.kits[k]
      BY <1>1, <1>4, <2>4, KitEntries
    <2>6. l # None
      BY <1>1, TablesAfter, NoneAssumption DEF IsTable
    <2>7. CASE r.act = "create"
      <3>1. r.after.line = l /\ r.old = None
        BY <1>6, <2>1, <2>2, <2>3, <2>4, <2>5, <2>7 DEF Entered
      <3>2. "line" \in DOMAIN r.row
        BY <2>5, <2>6, <2>7, <3>1 DEF Entered, Written, NewKit
      <3> QED
        BY <2>4, <2>6, <2>7, <3>1, <3>2 DEF Writes, Old
    <2>8. CASE r.act # "create"
      <3>1. k \in DOMAIN db.kits /\ k \in DOMAIN KitsAfter(p)
        BY <2>1, <2>5, <2>8 DEF Holds
      <3>2. r.after.line # r.old.line /\ l \in {r.old.line, r.after.line}
        BY <1>6, <2>2, <2>3, <2>4, <2>5, <2>8, <3>1
      <3>3. r.act = "update" /\ "line" \in DOMAIN r.row
        BY <1>1, <2>8, <3>2, KitCells
      <3>4. Old(r, "line") = r.old.line
        BY <2>5, <2>8 DEF Entered, Old
      <3> QED
        BY <2>4, <3>2, <3>3, <3>4 DEF Writes
    <2> QED
      BY <2>7, <2>8
  <1>8. Surplus(p, l) = 0
    BY <1>1, <1>7 DEF Taken, Accepted, MovesReconciled
  <1>9. Cardinality(KitsOn(db', l)) \in Nat
    <2>1. AttachedAfter(p, l) \cup Covered(p, l) \subseteq KitIds
      BY <1>1, HeldKits, TablesAfter DEF IsTable
    <2> QED
      BY <1>5, <2>1, BoundsAssumption, FS_Subset, FS_CardinalityType
  <1>10. LinesAfter(p)[l].quantity \in Nat
    BY <1>1, TablesAfter, BoundsAssumption DEF IsTable, Line
  <1> QED
    BY <1>5, <1>8, <1>9, <1>10 DEF Surplus, Held


\* What an import does is what its plan said: every row it reported is there, kit
\* lines it touched hold what they say, kits that were worked on stay, and add_only
\* takes nothing away (services/portability/importing.py
\* _plan_kit_line_reconciliation, apply_import).
THEOREM ImportsDoAsPlanned == Spec => AsPlanned
  <1> DEFINE
        Exact ==
            Imported =>
                \A l \in DOMAIN db'.lines :
                    /\ db'.lines[l].type = "kit"
                    /\ \/ l \notin DOMAIN db.lines
                       \/ db'.lines[l].quantity # db.lines[l].quantity
                       \/ KitsOn(db', l) # KitsOn(db, l)
                    => Cardinality(KitsOn(db', l)) = db'.lines[l].quantity
        Kept ==
            last' \in {"merge", "add_only"} =>
                \A k \in DOMAIN db.kits :
                    /\ \/ KitProgressed(db, k)
                       \/ k \in DOMAIN db'.kits /\ KitProgressed(db', k)
                    /\ db.kits[k].line # None
                    => k \in DOMAIN db'.kits /\ db'.kits[k].line = db.kits[k].line
        Adds ==
            last' = "add_only" =>
                \A t \in DOMAIN db :
                    \A i \in DOMAIN db[t] : i \in DOMAIN db'[t] /\ db'[t][i] = db[t][i]
  <1>1. ASSUME ImportInv, [Next]_vars, vars' # vars, Imported
        PROVE  reported' /\ Exact /\ Kept /\ Adds
    <2>1. IsCollection(db)
      BY <1>1 DEF ImportInv, TypeOK
    <2>2. PICK p, up, mode, gone, born : Happened(p, up, mode, gone, born)
      BY <1>1, ImportHappened DEF ImportInv
    <2>3. /\ Taken(p, db, up, mode) /\ db'.lines = LinesAfter(p) /\ last' = mode
          /\ reported' = Reported(p, db')
      BY <2>2 DEF Happened, Became
    <2>4. reported'
      BY <2>2, <2>3, ReportedStays
    <2>5. Exact
      BY <2>1, <2>2, <2>3, ReconciledExact, MovedExact
    <2>6. ASSUME mode # "replace_all", NEW k \in DOMAIN db.kits, db.kits[k].line # None,
                 \/ KitProgressed(db, k)
                 \/ k \in DOMAIN db'.kits /\ KitProgressed(db', k)
          PROVE  k \in DOMAIN db'.kits /\ db'.kits[k].line = db.kits[k].line
      BY <2>1, <2>2, <2>6, WorkProtects, ProtectedStays
    <2>7. Kept
      BY <2>3, <2>6
    <2>8. Adds
      BY <2>1, <2>2, <2>3, AddingKeeps
    <2> QED
      BY <2>4, <2>5, <2>7, <2>8
  <1>2. ImportInv /\ [Next]_vars => [Exact]_vars /\ [Kept]_vars /\ [Adds]_vars
    <2>1. "live" \notin Modes
      BY DEF Modes
    <2>2. ASSUME ImportInv, [Next]_vars, vars' # vars PROVE Exact /\ Kept /\ Adds
      BY <1>1, <2>2 DEF Imported, Modes
    <2> QED
      BY <2>2
  <1>3. ImportInv /\ reported /\ [Next]_vars => reported'
    <2> SUFFICES ASSUME ImportInv, reported, [Next]_vars PROVE reported'
      OBVIOUS
    <2>1. CASE vars' = vars
      BY <2>1 DEF vars
    <2>2. CASE vars' # vars /\ Imported
      BY ZenonT(60), <1>1, <2>2
    <2>3. CASE vars' # vars /\ ~Imported
      BY <2>3 DEF Next, ApplyImport, ReceiveOrder, StartBuild, Imported
    <2> QED
      BY <2>1, <2>2, <2>3
  <1>4. Init => reported
    BY DEF Init
  <1>5. ImportInv => TypeOK
    BY DEF ImportInv
  <1>6. Spec => []ImportInv /\ [][Next]_vars
    BY ImportInit, ImportNext, PTL DEF Spec
  <1>7. Spec => []TypeOK
    BY <1>5, <1>6, PTL
  <1>8. Spec => []ReportedIsThere
    BY <1>3, <1>4, <1>6, PTL DEF Spec, ReportedIsThere
  <1>9. Spec => KitLinesExact /\ WorkedOnKept /\ AddOnlyAdds
    BY <1>2, <1>6, PTL DEF KitLinesExact, WorkedOnKept, AddOnlyAdds
  <1> QED
    BY <1>7, <1>8, <1>9 DEF AsPlanned


-----------------------------------------------------------------------------
(* A collection's own archive.                                              *)

\* What an own row comes to in each mode.
OwnAct(mode) ==
    CASE mode = "merge" -> "unchanged"
      [] mode = "add_only" -> "skip"
      [] OTHER -> "create"

OwnRow(mode, key, row) ==
    [id |-> key, old |-> IF mode = "replace_all" THEN None ELSE row, row |-> row,
     act |-> OwnAct(mode), after |-> row]

\* Every row of a table is planned as what it is.
Restated(rows, table, mode) ==
    /\ DOMAIN rows = DOMAIN table
    /\ \A key \in DOMAIN table : rows[key] = OwnRow(mode, key, table[key])

\* What of a table the plan reads.
Facing(mode, table) == IF mode = "replace_all" THEN <<>> ELSE table

\* A row that can be stored as it is.
Storable(row, default, unstatable) ==
    /\ row # None /\ row = [col \in DOMAIN row |-> row[col]]
    /\ DOMAIN default = DOMAIN row
    /\ \A col \in unstatable : row[col] # None

LEMMA OwnRowPlanned ==
    ASSUME NEW mode \in Modes, NEW table, NEW key \in DOMAIN table, NEW row, NEW default,
           NEW unstatable, Storable(row, default, unstatable), row = table[key]
    PROVE  Planned(mode, key, Row(Facing(mode, table), key), row, default, unstatable) =
               OwnRow(mode, key, row)
  <1> DEFINE stored == Facing(mode, table)
             old == IF mode = "replace_all" THEN None ELSE row
             after == Written(IF old = None THEN default ELSE old, row, unstatable)
  <1>1. Row(stored, key) = old
    <2>1. DOMAIN <<>> = {}
      OBVIOUS
    <2> QED
      BY <2>1 DEF Row, Facing, Storable
  <1>2. after = row
    BY DEF Written, Storable
  <1>3. ActionOf(mode, old, after) = OwnAct(mode)
    <2> HIDE DEF after
    <2> QED
      BY <1>2 DEF ActionOf, OwnAct, Modes, Storable
  <1>4. Planned(mode, key, old, row, default, unstatable) =
            [id |-> key, old |-> old, row |-> row, act |-> ActionOf(mode, old, after),
             after |-> IF ActionOf(mode, old, after) = "skip" THEN old ELSE after]
    BY DEF Planned
  <1>5. OwnAct(mode) = "skip" => old = row
    BY DEF OwnAct, Modes
  <1> HIDE DEF old, after
  <1>6. Planned(mode, key, old, row, default, unstatable) =
            [id |-> key, old |-> old, row |-> row, act |-> OwnAct(mode), after |-> row]
    BY <1>2, <1>3, <1>4, <1>5
  <1> QED
    BY <1>1, <1>6 DEF OwnRow, old

\* The plan of a collection's own archive.
OwnPlan(p, c, mode) == p = Plan(c, c, mode) /\ IsCollection(c) /\ mode \in Modes

LEMMA OwnWorld ==
    ASSUME NEW p, NEW c, NEW mode, OwnPlan(p, c, mode)
    PROVE  /\ p.w.items = Facing(mode, c.items)
           /\ p.w.orders = Facing(mode, c.orders)
           /\ p.w.lines = Facing(mode, c.lines)
           /\ p.w.kits = Facing(mode, c.kits)
           /\ p.w.photos = Facing(mode, c.photos)
           /\ p.up = c /\ p.mode = mode
  <1>1. p.w = World(c, mode) /\ p.up = c /\ p.mode = mode
    BY PlanParts DEF OwnPlan
  <1>2. /\ Nothing.items = <<>> /\ Nothing.orders = <<>> /\ Nothing.lines = <<>>
        /\ Nothing.kits = <<>> /\ Nothing.photos = <<>>
    BY DEF Nothing
  <1> QED
    BY <1>1, <1>2 DEF World, Facing

\* A row that carries its id lands on it, whether it is stored or not.
LEMMA OwnId ==
    ASSUME NEW key, key # Unnamed, NEW matches, matches = {key} \/ matches = {},
           NEW pool, NEW stored, NEW sheet
    PROVE  IdOf(key, matches, pool, stored, sheet) = key
  BY DEF IdOf

OwnIds(rows, table) ==
    DOMAIN rows = DOMAIN table /\ \A key \in DOMAIN table : rows[key].id = key

\* A reference of the archive is to the row that carries the id, if one does.
LEMMA OwnResolve ==
    ASSUME NEW mode, NEW table, NEW rows, OwnIds(rows, table), NEW id
    PROVE  Resolve(rows, Facing(mode, table), id) = IF id \in DOMAIN table THEN id ELSE None
  <1>1. DOMAIN <<>> = {}
    OBVIOUS
  <1> QED
    BY <1>1 DEF Resolve, Facing, OwnIds

LEMMA RestatedIds ==
    ASSUME NEW rows, NEW table, NEW mode, Restated(rows, table, mode)
    PROVE  OwnIds(rows, table)
  BY DEF Restated, OwnRow, OwnIds

LEMMA OwnItems ==
    ASSUME NEW p, NEW c, NEW mode, OwnPlan(p, c, mode)
    PROVE  Restated(p.items, c.items, mode)
  <1>1. p.items = ItemRows(p.w, c, mode) /\ IsTable(c.items, ItemIds, Item)
    BY PlanParts DEF OwnPlan, IsCollection
  <1>2. ASSUME NEW key \in DOMAIN c.items
        PROVE  p.items[key] = OwnRow(mode, key, c.items[key])
    <2> DEFINE row == c.items[key]
               matches == MatchGeneric(p.w.items, key, Cell(row, "name"))
               id == IdOf(key, matches, ItemIds, p.w.items, c.items)
    <2>1. p.items[key] = Planned(mode, id, Row(p.w.items, id), row, NewItem, {"onHand"})
      BY <1>1, <1>2 DEF ItemRows, NewItem
    <2>2. matches = {key} \/ matches = {}
      <3>1. DOMAIN <<>> = {}
        OBVIOUS
      <3> QED
        BY <3>1, OwnWorld DEF Facing, MatchGeneric, ItemsNamed
    <2>3. key # Unnamed /\ row \in Item
      BY <1>1, NoneAssumption DEF IsTable
    <2>4. id = key
      BY <2>2, <2>3, OwnId
    <2>5. Storable(row, NewItem, {"onHand"})
      BY <2>3, NoneAssumption DEF Item, NewItem, Storable
    <2> HIDE DEF id, row
    <2>6. p.w.items = Facing(mode, c.items)
      BY OwnWorld
    <2>7. Planned(mode, key, Row(p.w.items, key), row, NewItem, {"onHand"}) = OwnRow(mode, key, row)
      BY <1>2, <2>5, <2>6, OwnRowPlanned DEF OwnPlan, row
    <2> QED
      BY <2>1, <2>4, <2>7 DEF row
  <1> QED
    BY <1>1, <1>2 DEF Restated, ItemRows

LEMMA OwnOrders ==
    ASSUME NEW p, NEW c, NEW mode, OwnPlan(p, c, mode)
    PROVE  Restated(p.orders, c.orders, mode)
  <1>1. p.orders = OrderRows(p.w, c, mode) /\ IsTable(c.orders, OrderIds, Order)
    BY PlanParts DEF OwnPlan, IsCollection
  <1>2. ASSUME NEW key \in DOMAIN c.orders
        PROVE  p.orders[key] = OwnRow(mode, key, c.orders[key])
    <2> DEFINE row == c.orders[key]
               matches == MatchOrder(p.w, c, key)
               id == IdOf(key, matches, OrderIds, p.w.orders, c.orders)
    <2>1. p.orders[key] = Planned(mode, id, Row(p.w.orders, id), row, NewOrder, {})
      BY <1>1, <1>2 DEF OrderRows, NewOrder
    <2>2. matches = {key} \/ matches = {}
      <3>1. DOMAIN <<>> = {}
        OBVIOUS
      <3> QED
        BY <3>1, OwnWorld DEF Facing, MatchOrder
    <2>3. key # Unnamed /\ row \in Order
      BY <1>1, NoneAssumption DEF IsTable
    <2> HIDE DEF matches
    <2>4. id = key
      BY <2>2, <2>3, OwnId
    <2>5. Storable(row, NewOrder, {})
      BY <2>3, NoneAssumption DEF Order, NewOrder, Storable
    <2> HIDE DEF id, row
    <2>6. p.w.orders = Facing(mode, c.orders)
      BY OwnWorld
    <2>7. Planned(mode, key, Row(p.w.orders, key), row, NewOrder, {}) = OwnRow(mode, key, row)
      BY <1>2, <2>5, <2>6, OwnRowPlanned DEF OwnPlan, row
    <2> QED
      BY <2>1, <2>4, <2>7 DEF row
  <1> QED
    BY <1>1, <1>2 DEF Restated, OrderRows

\* A line is planned as what it is, unless it names an item that is not there: then its
\* row is planned to name none.
OwnLine(p, c, mode, key) ==
    /\ p.lines[key].id = key
    /\ c.lines[key].ref \in Maybe(DOMAIN c.items) =>
          p.lines[key] = OwnRow(mode, key, c.lines[key])
    /\ c.lines[key].ref \notin Maybe(DOMAIN c.items) =>
          /\ c.lines[key].type = "tool"
          /\ "ref" \in DOMAIN p.lines[key].row /\ p.lines[key].row.ref = None
          /\ Entered(p.lines[key], mode, p.w.lines, NewLine, {})

LEMMA OwnLines ==
    ASSUME NEW p, NEW c, NEW mode, OwnPlan(p, c, mode)
    PROVE  /\ DOMAIN p.lines = DOMAIN c.lines
           /\ \A key \in DOMAIN c.lines : OwnLine(p, c, mode, key)
  <1>1. /\ p.lines = LineRows(p.w, c, mode, p.items, p.orders)
        /\ IsTable(c.lines, LineIds, Line) /\ DOMAIN c.items \subseteq ItemIds
        /\ \A l \in DOMAIN c.lines : c.lines[l].order \in DOMAIN c.orders
    BY PlanParts DEF OwnPlan, IsCollection, IsTable
  <1>2. ASSUME NEW key \in DOMAIN c.lines PROVE OwnLine(p, c, mode, key)
    <2> DEFINE raw == c.lines[key]
               row == ResolvedLine(p.w, c, p.items, p.orders, key)
               matches == MatchOrderItem(p.w, key, row)
               id == IdOf(key, matches, LineIds, p.w.lines, c.lines)
               ref == IF raw.ref \in DOMAIN c.items THEN raw.ref ELSE None
    <2>1. p.lines[key] = Planned(mode, id, Row(p.w.lines, id), row, NewLine, {})
      BY <1>1, <1>2 DEF LineRows, NewLine
    <2>2. /\ key # Unnamed /\ raw \in Line /\ raw.type \in {"kit", "tool"} /\ raw.type # None
          /\ DOMAIN raw = {"order", "type", "ref", "quantity"}
          /\ raw = [order |-> raw.order, type |-> raw.type, ref |-> raw.ref,
                    quantity |-> raw.quantity]
          /\ raw # None /\ (raw.type = "kit" => raw.ref = None)
      BY <1>1, NoneAssumption DEF IsTable, Line
    <2>3. matches = {key} \/ matches = {}
      <3>1. DOMAIN <<>> = {}
        OBVIOUS
      <3> HIDE DEF row
      <3> QED
        BY <3>1, OwnWorld DEF Facing, MatchOrderItem, LinesOn
    <2> HIDE DEF matches
    <2>4. id = key
      BY <2>2, <2>3, OwnId
    <2> HIDE DEF id
    <2>5. EffectiveType(p.w, key, raw) = raw.type /\ Cell(raw, "named") = None
      BY <2>2 DEF EffectiveType, Cell
    <2>6. Resolve(p.items, p.w.items, Cell(raw, "ref")) = ref
      <3>1. Cell(raw, "ref") = raw.ref
        BY <2>2 DEF Cell
      <3> QED
        BY <3>1, OwnItems, OwnWorld, OwnResolve, RestatedIds
    <2>7. Resolve(p.orders, p.w.orders, raw.order) = raw.order
      BY <1>1, OwnOrders, OwnWorld, OwnResolve, RestatedIds
    <2>8. /\ DOMAIN row = DOMAIN raw
          /\ row = [col \in DOMAIN raw |->
                       CASE col = "order" -> raw.order
                         [] col = "ref" -> IF raw.type = "kit" THEN None ELSE ref
                         [] OTHER -> raw[col]]
      BY <2>5, <2>6, <2>7 DEF ResolvedLine
    <2>9. None \notin DOMAIN c.items
      BY <1>1, NoneAssumption
    <2> HIDE DEF row, raw
    <2>10. CASE raw.ref \in Maybe(DOMAIN c.items)
      <3>1. row = raw
        BY <2>2, <2>8, <2>9, <2>10 DEF Maybe
      <3>2. Storable(raw, NewLine, {})
        BY <2>2 DEF NewLine, Storable
      <3>4. p.w.lines = Facing(mode, c.lines)
        BY OwnWorld
      <3>5. Planned(mode, key, Row(p.w.lines, key), raw, NewLine, {}) = OwnRow(mode, key, raw)
        BY <1>2, <3>2, <3>4, OwnRowPlanned DEF OwnPlan, raw
      <3>6. p.lines[key] = OwnRow(mode, key, raw)
        BY <2>1, <2>4, <3>1, <3>5
      <3> QED
        BY <2>10, <3>6 DEF OwnLine, OwnRow, raw
    <2>11. CASE raw.ref \notin Maybe(DOMAIN c.items)
      <3>1. raw.type = "tool"
        BY <2>2, <2>11 DEF Maybe
      <3>2. "ref" \in DOMAIN row /\ row.ref = None
        BY <2>2, <2>8, <2>11, <3>1 DEF Maybe
      <3>3. /\ p.lines[key].id = key /\ p.lines[key].row = row
            /\ Entered(p.lines[key], mode, p.w.lines, NewLine, {})
        BY <2>1, <2>4, PlannedEnters
      <3> QED
        BY <2>11, <3>1, <3>2, <3>3 DEF OwnLine, raw
    <2> QED
      BY <2>10, <2>11
  <1> QED
    BY <1>1, <1>2 DEF LineRows

LEMMA OwnKits ==
    ASSUME NEW p, NEW c, NEW mode, OwnPlan(p, c, mode)
    PROVE  Restated(p.kits, c.kits, mode)
  <1>1. /\ p.kits = KitRows(p.w, c, mode, p.lines) /\ IsTable(c.kits, KitIds, Kit)
        /\ \A k \in DOMAIN c.kits : c.kits[k].line \in Maybe(DOMAIN c.lines)
        /\ DOMAIN c.lines \subseteq LineIds
    BY PlanParts DEF OwnPlan, IsCollection, IsTable
  <1>2. ASSUME NEW key \in DOMAIN c.kits
        PROVE  p.kits[key] = OwnRow(mode, key, c.kits[key])
    <2> DEFINE raw == c.kits[key]
               row == [col \in DOMAIN raw |->
                          IF col = "line" THEN KitLine(p.w, p.lines, raw.line) ELSE raw[col]]
               matches == {key} \cap DOMAIN p.w.kits
               id == IdOf(key, matches, KitIds, p.w.kits, c.kits)
    <2>1. p.kits[key] = Planned(mode, id, Row(p.w.kits, id), row, NewKit, {"status"})
      BY <1>1, <1>2 DEF KitRows, NewKit
    <2>2. key # Unnamed /\ raw \in Kit
      BY <1>1, NoneAssumption DEF IsTable
    <2>3. id = key
      BY <2>2, OwnId
    <2> HIDE DEF id
    <2>4. Storable(raw, NewKit, {"status"})
      BY <2>2, NoneAssumption DEF Kit, NewKit, Storable
    <2>5. KitLine(p.w, p.lines, raw.line) = raw.line
      <3>1. \A l \in DOMAIN c.lines : p.lines[l].id = l
        BY OwnLines DEF OwnLine
      <3>2. Resolve(p.lines, p.w.lines, raw.line) =
                IF raw.line \in DOMAIN c.lines THEN raw.line ELSE None
        BY <3>1, OwnLines, OwnWorld, OwnResolve DEF OwnIds
      <3> QED
        BY <1>1, <3>2 DEF KitLine, Maybe
    <2>6. row = raw
      BY <2>4, <2>5 DEF Storable
    <2> HIDE DEF raw, row
    <2>7. p.w.kits = Facing(mode, c.kits)
      BY OwnWorld
    <2>8. Planned(mode, key, Row(p.w.kits, key), raw, NewKit, {"status"}) = OwnRow(mode, key, raw)
      BY <1>2, <2>4, <2>7, OwnRowPlanned DEF OwnPlan, raw
    <2> QED
      BY <2>1, <2>3, <2>6, <2>8 DEF raw
  <1> QED
    BY <1>1, <1>2 DEF Restated, KitRows

LEMMA OwnPhotos ==
    ASSUME NEW p, NEW c, NEW mode, OwnPlan(p, c, mode)
    PROVE  Restated(p.photos, c.photos, mode)
  <1>1. /\ p.photos = PhotoRows(p.w, c, mode, p.kits) /\ IsTable(c.photos, PhotoIds, Photo)
        /\ \A i \in DOMAIN c.photos : c.photos[i].kit \in DOMAIN c.kits
    BY PlanParts DEF OwnPlan, IsCollection
  <1>2. ASSUME NEW key \in DOMAIN c.photos
        PROVE  p.photos[key] = OwnRow(mode, key, c.photos[key])
    <2> DEFINE raw == c.photos[key]
               row == [kit |-> Resolve(p.kits, p.w.kits, raw.kit)]
               matches == IF key \in DOMAIN p.w.photos THEN {key}
                          ELSE {i \in DOMAIN p.w.photos : p.w.photos[i].kit = row.kit}
               id == IdOf(key, matches, PhotoIds, p.w.photos, c.photos)
    <2>1. p.photos[key] = Planned(mode, id, Row(p.w.photos, id), row, NewPhoto, {})
      BY <1>1, <1>2 DEF PhotoRows, NewPhoto
    <2>2. key # Unnamed /\ raw \in Photo
      BY <1>1, NoneAssumption DEF IsTable
    <2>3. matches = {key} \/ matches = {}
      <3>1. DOMAIN <<>> = {}
        OBVIOUS
      <3> HIDE DEF row
      <3> QED
        BY <3>1, OwnWorld DEF Facing
    <2> HIDE DEF matches
    <2>4. id = key
      BY <2>2, <2>3, OwnId
    <2> HIDE DEF id
    <2>5. raw = [kit |-> raw.kit] /\ Storable(raw, NewPhoto, {})
      BY <2>2, NoneAssumption DEF Photo, NewPhoto, Storable
    <2>6. Resolve(p.kits, p.w.kits, raw.kit) = raw.kit
      BY <1>1, OwnKits, OwnWorld, OwnResolve, RestatedIds
    <2>7. row = raw
      BY <2>5, <2>6
    <2> HIDE DEF raw, row
    <2>8. p.w.photos = Facing(mode, c.photos)
      BY OwnWorld
    <2>9. Planned(mode, key, Row(p.w.photos, key), raw, NewPhoto, {}) = OwnRow(mode, key, raw)
      BY <1>2, <2>5, <2>8, OwnRowPlanned DEF OwnPlan, raw
    <2> QED
      BY <2>1, <2>4, <2>7, <2>9 DEF raw
  <1> QED
    BY <1>1, <1>2 DEF Restated, PhotoRows

-----------------------------------------------------------------------------
(* What the archive's plan does.                                            *)

\* Every line that names an item names one that is there.
ItemsThere(c) == \A l \in DOMAIN c.lines : c.lines[l].ref \in Maybe(DOMAIN c.items)

LEMMA NoneDangling ==
    ASSUME NEW c, IsCollection(c), ~Dangling(c)
    PROVE  ItemsThere(c)
  BY DEF IsCollection, IsTable, Line, Dangling, ItemsThere, Maybe

\* A line of the archive comes to what it is, and no item is made for it.
Stands(r, l, c, mode) ==
    /\ r.id = l /\ r.act = OwnAct(mode) /\ r.after = c.lines[l]
    /\ r.old = IF mode = "replace_all" THEN None ELSE c.lines[l]
    /\ Cell(r.row, "ref") \in Maybe(DOMAIN c.items)

\* Where a line's item is gone the archive is refused, or its rows are skipped.
LEMMA LinesStand ==
    ASSUME NEW p, NEW c, NEW mode, OwnPlan(p, c, mode), Accepted(p) \/ ItemsThere(c),
           NEW l \in DOMAIN c.lines
    PROVE  Stands(p.lines[l], l, c, mode)
  <1> DEFINE r == p.lines[l]
             line == c.lines[l]
  <1>1. OwnLine(p, c, mode, l) /\ l \in DOMAIN p.lines
    BY OwnLines
  <1>2. line \in Line /\ line # None
    BY NoneAssumption DEF OwnPlan, IsCollection, IsTable
  <1>3. "ref" \in DOMAIN line /\ "type" \in DOMAIN line /\ line.type # None
    BY <1>2, NoneAssumption DEF Line
  <1>4. CASE line.ref \in Maybe(DOMAIN c.items)
    <2>1. r = OwnRow(mode, l, line)
      BY <1>1, <1>4 DEF OwnLine
    <2> HIDE DEF r, line
    <2>2. /\ r.id = l /\ r.act = OwnAct(mode) /\ r.after = line /\ r.row = line
          /\ r.old = IF mode = "replace_all" THEN None ELSE line
      BY <2>1 DEF OwnRow
    <2> QED
      BY <1>3, <1>4, <2>2 DEF Stands, Cell, r, line
  <1>5. CASE line.ref \notin Maybe(DOMAIN c.items)
    <2>1. /\ line.type = "tool" /\ r.id = l /\ "ref" \in DOMAIN r.row /\ r.row.ref = None
          /\ Entered(r, mode, p.w.lines, NewLine, {})
      BY <1>1, <1>5 DEF OwnLine
    <2>2. line.ref # None
      BY <1>5 DEF Maybe
    <2>3. Referenced(p)
      BY <1>5 DEF Accepted, ItemsThere
    <2>4. /\ Cell(p.up.lines[l], "ref") # None
          /\ EffectiveType(p.w, l, p.up.lines[l]) = "tool"
      BY <1>3, <2>1, <2>2, OwnWorld DEF Cell, EffectiveType
    <2>5. p.mode # "replace_all" /\ (r.act # "skip" => Old(r, "ref") = None)
      BY <1>1, <2>1, <2>3, <2>4 DEF Referenced
    <2>6. mode # "replace_all" /\ p.w.lines = c.lines
      BY <2>5, OwnWorld DEF Facing
    <2>7. r.old = line
      BY <2>1, <2>6 DEF Entered, Row
    <2>8. r.act = "skip"
      BY <1>2, <2>2, <2>5, <2>7 DEF Old
    <2>9. mode = "add_only" /\ r.after = line
      BY <2>1, <2>7, <2>8 DEF Entered
    <2> QED
      BY <2>1, <2>6, <2>7, <2>8, <2>9 DEF Stands, OwnAct, Cell, Maybe
  <1> QED
    BY <1>4, <1>5

\* The plan of an archive whose every row comes to what it is.
OwnRows(p, c, mode) ==
    /\ OwnPlan(p, c, mode)
    /\ Restated(p.items, c.items, mode) /\ Restated(p.orders, c.orders, mode)
    /\ Restated(p.kits, c.kits, mode) /\ Restated(p.photos, c.photos, mode)
    /\ DOMAIN p.lines = DOMAIN c.lines
    /\ \A l \in DOMAIN c.lines : Stands(p.lines[l], l, c, mode)

LEMMA OwnRowsPlanned ==
    ASSUME NEW p, NEW c, NEW mode, OwnPlan(p, c, mode), Accepted(p) \/ ItemsThere(c)
    PROVE  OwnRows(p, c, mode)
  BY OwnItems, OwnOrders, OwnKits, OwnPhotos, OwnLines, LinesStand DEF OwnRows

\* A table is itself once its own rows are in it.
Standing(rows, table) ==
    OwnIds(rows, table) /\ \A key \in DOMAIN table : rows[key].after = table[key]

LEMMA OwnAfter ==
    ASSUME NEW rows, NEW table, NEW mode, Standing(rows, table),
           table = [i \in DOMAIN table |-> table[i]]
    PROVE  After(Facing(mode, table), rows) = table
  <1> DEFINE stored == Facing(mode, table)
  <1>1. DOMAIN stored \subseteq DOMAIN table
    <2>1. DOMAIN <<>> = {}
      OBVIOUS
    <2> QED
      BY <2>1 DEF Facing
  <1>2. \A r \in Entries(rows) : r.id \in DOMAIN table /\ r.after = table[r.id]
    BY DEF Standing, OwnIds, Entries
  <1>3. \A i \in DOMAIN table : \E r \in Entries(rows) : r.id = i
    BY DEF Standing, OwnIds, Entries
  <1> HIDE DEF stored
  <1>4. DOMAIN stored \cup {r.id : r \in Entries(rows)} = DOMAIN table
    BY ZenonT(60), <1>1, <1>2, <1>3
  <1>5. \A i \in DOMAIN table :
            (CHOOSE r \in Entries(rows) : r.id = i).after = table[i]
    BY <1>2, <1>3
  <1>6. After(stored, rows) = [i \in DOMAIN table |->
            IF \E r \in Entries(rows) : r.id = i
            THEN (CHOOSE r \in Entries(rows) : r.id = i).after ELSE stored[i]]
    BY <1>4 DEF After
  <1>7. After(stored, rows) = [i \in DOMAIN table |-> table[i]]
    BY <1>3, <1>5, <1>6
  <1> QED
    BY <1>7 DEF stored

LEMMA RestatedStands ==
    ASSUME NEW rows, NEW table, NEW mode, Restated(rows, table, mode)
    PROVE  Standing(rows, table)
  BY DEF Restated, OwnRow, Standing, OwnIds

LEMMA OwnTables ==
    ASSUME NEW p, NEW c, NEW mode, OwnRows(p, c, mode)
    PROVE  /\ After(p.w.items, p.items) = c.items
           /\ OrdersAfter(p) = c.orders /\ LinesAfter(p) = c.lines /\ KitsAfter(p) = c.kits
           /\ After(p.w.photos, p.photos) = c.photos
  <1>1. /\ Standing(p.items, c.items) /\ Standing(p.orders, c.orders)
        /\ Standing(p.kits, c.kits) /\ Standing(p.photos, c.photos)
    BY RestatedStands DEF OwnRows
  <1>2. Standing(p.lines, c.lines)
    BY DEF OwnRows, Stands, Standing, OwnIds
  <1>3. /\ c.items = [i \in DOMAIN c.items |-> c.items[i]]
        /\ c.orders = [i \in DOMAIN c.orders |-> c.orders[i]]
        /\ c.lines = [i \in DOMAIN c.lines |-> c.lines[i]]
        /\ c.kits = [i \in DOMAIN c.kits |-> c.kits[i]]
        /\ c.photos = [i \in DOMAIN c.photos |-> c.photos[i]]
    BY DEF OwnRows, OwnPlan, IsCollection, IsTable
  <1>4. /\ p.w.items = Facing(mode, c.items) /\ p.w.orders = Facing(mode, c.orders)
        /\ p.w.lines = Facing(mode, c.lines) /\ p.w.kits = Facing(mode, c.kits)
        /\ p.w.photos = Facing(mode, c.photos)
    BY OwnWorld DEF OwnRows
  <1>5. After(p.w.items, p.items) = c.items /\ After(p.w.photos, p.photos) = c.photos
    BY <1>1, <1>3, <1>4, OwnAfter
  <1>6. OrdersAfter(p) = c.orders /\ LinesAfter(p) = c.lines /\ KitsAfter(p) = c.kits
    BY <1>1, <1>2, <1>3, <1>4, OwnAfter DEF OrdersAfter, LinesAfter, KitsAfter
  <1> QED
    BY <1>5, <1>6

\* No item is made for a line of the archive.
LEMMA OwnStubs ==
    ASSUME NEW p, NEW c, NEW mode, OwnRows(p, c, mode)
    PROVE  p.stubs = {}
  <1>1. ASSUME NEW l \in DOMAIN p.lines,
               Cell(p.lines[l].row, "ref") # None,
               p.lines[l].row.ref \notin DOMAIN p.w.items,
               \A i \in DOMAIN p.items : p.items[i].id # p.lines[l].row.ref
        PROVE  FALSE
    <2>1. p.lines[l].row.ref \in DOMAIN c.items
      BY <1>1 DEF OwnRows, Stands, Cell, Maybe
    <2>2. OwnIds(p.items, c.items)
      BY RestatedIds DEF OwnRows
    <2> QED
      BY <1>1, <2>1, <2>2 DEF OwnIds
  <1>2. p.stubs = Stubs(p.w, c, p.items, p.lines)
    BY PlanParts DEF OwnRows, OwnPlan
  <1> QED
    BY <1>1, <1>2 DEF Stubs

\* What the archive says about quantities: nothing new where the lines are kept, and
\* everything where they are put back.
LEMMA OwnReconciled ==
    ASSUME NEW p, NEW c, NEW mode, OwnRows(p, c, mode)
    PROVE  /\ mode # "replace_all" => Reconciled(p) = {}
           /\ mode = "replace_all" =>
                 Reconciled(p) = {l \in DOMAIN c.lines : c.lines[l].type = "kit"}
  <1>1. ASSUME NEW r \in Entries(p.lines)
        PROVE  \E l \in DOMAIN c.lines : r = p.lines[l] /\ Stands(r, l, c, mode)
    BY DEF Entries, OwnRows
  <1>2. \A l \in DOMAIN c.lines : p.lines[l] \in Entries(p.lines) /\ Stands(p.lines[l], l, c, mode)
    BY DEF Entries, OwnRows
  <1>3. CASE mode # "replace_all"
    <2>1. \A r \in Entries(p.lines) : r.act \notin {"create", "update"}
      BY <1>1, <1>3 DEF Stands, OwnAct, OwnRows, OwnPlan, Modes
    <2> QED
      BY <1>3, <2>1 DEF Reconciled, WritesQuantity
  <1>4. CASE mode = "replace_all"
    <2>1. ASSUME NEW r \in Entries(p.lines)
          PROVE  /\ Writes(r) /\ WritesQuantity(r) /\ r.id \in DOMAIN c.lines
                 /\ r.after = c.lines[r.id]
      BY <1>1, <1>4, <2>1 DEF Stands, OwnAct, Writes, WritesQuantity
    <2>2. \A l \in DOMAIN c.lines : \E r \in Entries(p.lines) : r.id = l
      BY <1>2 DEF Stands
    <2> QED
      BY <1>4, <2>1, <2>2 DEF Reconciled
  <1> QED
    BY <1>3, <1>4

\* Every line the archive puts back has the kits it says.
LEMMA OwnSurplus ==
    ASSUME NEW p, NEW c, OwnRows(p, c, "replace_all"), AsBought(c),
           NEW l \in DOMAIN c.lines, c.lines[l].type = "kit"
    PROVE  Surplus(p, l) = 0
  <1>1. p.w.kits = <<>> /\ DOMAIN <<>> = {}
    BY OwnWorld DEF Facing, OwnRows
  <1>2. AttachedAfter(p, l) = {}
    BY <1>1 DEF AttachedAfter
  <1>3. Covered(p, l) = KitsOn(c, l)
    <2>1. ASSUME NEW k \in DOMAIN c.kits
          PROVE  /\ p.kits[k].id = k /\ p.kits[k].act = "create"
                 /\ p.kits[k].after = c.kits[k] /\ p.kits[k] \in Entries(p.kits)
      <3>1. p.kits[k] = OwnRow("replace_all", k, c.kits[k]) /\ p.kits[k] \in Entries(p.kits)
        BY DEF OwnRows, Restated, Entries
      <3> QED
        BY <3>1 DEF OwnRow, OwnAct
    <2>2. ASSUME NEW r \in Entries(p.kits)
          PROVE  r.id \in DOMAIN c.kits /\ r.after = c.kits[r.id]
      BY <2>1 DEF OwnRows, Restated, Entries
    <2> QED
      BY <2>1, <2>2 DEF Covered, KitsOn
  <1>4. Held(p, l) = c.lines[l].quantity
    BY <1>2, <1>3 DEF Held, AsBought
  <1>5. c.lines[l].quantity \in Int
    BY BoundsAssumption DEF OwnRows, OwnPlan, IsCollection, IsTable, Line
  <1> QED
    BY <1>4, <1>5, OwnTables DEF Surplus

LEMMA OwnEven ==
    ASSUME NEW p, NEW c, NEW mode, OwnRows(p, c, mode), mode = "replace_all" => AsBought(c)
    PROVE  Short(p) = {} /\ Over(p) = {}
  BY OwnReconciled, OwnSurplus DEF Short, Over

\* The archive takes no kit and makes none.
LEMMA OwnKitsStay ==
    ASSUME NEW p, Short(p) = {}, Over(p) = {}
    PROVE  Victims(p) = {{}} /\ Births(p) = {<<>>} /\ Spawned(p) = 0
  <1>1. Victims(p) = {{}}
    BY DEF Victims
  <1>2. DOMAIN <<>> = {} /\ <<>> = [k \in {} |-> k]
    OBVIOUS
  <1>3. ASSUME NEW new, NEW born \in [new -> {}] PROVE born = <<>>
    <2>1. new = {}
      OBVIOUS
    <2> QED
      BY <1>2, <2>1
  <1>4. <<>> \in [{} -> {}] /\ {} \in SUBSET (KitIds \ DOMAIN KitsAfter(p))
    BY <1>2
  <1> DEFINE all == UNION {[new -> Short(p)] : new \in SUBSET (KitIds \ DOMAIN KitsAfter(p))}
  <1>5. Births(p) = all
    BY DEF Births
  <1>6. <<>> \in all
    BY <1>4
  <1>7. \A born \in all : born = <<>>
    BY <1>3
  <1> HIDE DEF all
  <1>8. Births(p) = {<<>>}
    BY <1>5, <1>6, <1>7
  <1> QED
    BY <1>1, <1>8, SumEmpty DEF Spawned

\* What the archive leaves is what it was taken from.
LEMMA OwnApplied ==
    ASSUME NEW p, NEW c, NEW mode, OwnRows(p, c, mode)
    PROVE  Applied(p, {}, <<>>) = c
  <1> DEFINE d == Applied(p, {}, <<>>)
  <1>0. DOMAIN <<>> = {}
    OBVIOUS
  <1>1. Became(d, p, {}, <<>>)
    BY <1>0, AppliedFacts
  <1>2. ItemsAfter(p) = c.items
    BY OwnStubs, OwnTables DEF ItemsAfter, WithStubs
  <1>3. ASSUME NEW r \in Entries(p.orders) PROVE r.act # "update"
    <2>1. PICK o \in DOMAIN c.orders : r = OwnRow(mode, o, c.orders[o])
      BY DEF OwnRows, Restated, Entries
    <2> QED
      BY <2>1 DEF OwnRow, OwnAct
  <1>4. \A k : Advanced(p, k) = c.kits[k].status
    BY <1>3, AdvancedByUpdate, OwnTables
  <1>5. /\ IsTable(c.kits, KitIds, Kit) /\ IsTable(c.photos, PhotoIds, Photo)
        /\ c = [items |-> c.items, orders |-> c.orders, lines |-> c.lines, kits |-> c.kits,
                photos |-> c.photos]
    BY DEF OwnRows, OwnPlan, IsCollection
  <1> HIDE DEF d
  <1>6. d.kits = c.kits
    <2>1. DOMAIN d.kits = DOMAIN c.kits /\ d.kits = [k \in DOMAIN d.kits |-> d.kits[k]]
      BY <1>0, <1>1, OwnTables DEF Became
    <2>2. ASSUME NEW k \in DOMAIN c.kits PROVE d.kits[k] = c.kits[k]
      <3>1. d.kits[k] = [c.kits[k] EXCEPT !.status = c.kits[k].status]
        BY <1>0, <1>1, <1>4, OwnTables DEF Became
      <3>2. c.kits[k] \in Kit
        BY <1>5 DEF IsTable
      <3> QED
        BY <3>1, <3>2 DEF Kit
    <2>3. c.kits = [k \in DOMAIN c.kits |-> c.kits[k]]
      BY <1>5 DEF IsTable
    <2> QED
      BY <2>1, <2>2, <2>3
  <1>7. d.photos = c.photos
    <2>1. c.photos = [i \in DOMAIN c.photos |-> c.photos[i]]
      BY <1>5 DEF IsTable
    <2> QED
      BY <1>1, <2>1, OwnTables DEF Became
  <1>8. d = c
    BY <1>1, <1>2, <1>5, <1>6, <1>7, OwnTables DEF Became
  <1> QED
    BY <1>8 DEF d

-----------------------------------------------------------------------------
(* The archive is taken.                                                    *)

\* What an entry of a restated table is.
OwnEntry(r, key, table, mode) ==
    /\ r.id = key /\ r.row = table[key] /\ r.after = table[key] /\ r.act = OwnAct(mode)
    /\ r.old = IF mode = "replace_all" THEN None ELSE table[key]

LEMMA RestatedEntry ==
    ASSUME NEW rows, NEW table, NEW mode, Restated(rows, table, mode)
    PROVE  /\ \A key \in DOMAIN table : OwnEntry(rows[key], key, table, mode)
           /\ \A r \in Entries(rows) : \E key \in DOMAIN table : OwnEntry(r, key, table, mode)
           /\ \A a, b \in DOMAIN rows : a # b => rows[a].id # rows[b].id
  <1>1. \A key \in DOMAIN table : OwnEntry(rows[key], key, table, mode)
    BY DEF Restated, OwnRow, OwnEntry
  <1>2. \A r \in Entries(rows) : \E key \in DOMAIN table : OwnEntry(r, key, table, mode)
    BY <1>1 DEF Entries, Restated
  <1> QED
    BY <1>1, <1>2 DEF Restated, OwnEntry

LEMMA OwnActs ==
    ASSUME NEW mode \in Modes
    PROVE  /\ OwnAct(mode) \in {"create", "skip", "unchanged"}
           /\ OwnAct(mode) = "create" <=> mode = "replace_all"
  BY DEF OwnAct, Modes

LEMMA OwnMatched ==
    ASSUME NEW p, NEW c, NEW mode, OwnRows(p, c, mode), Restated(p.lines, c.lines, mode)
    PROVE  Matched(p)
  <1>1. p.up = c
    BY OwnWorld DEF OwnRows
  <1>2. \A x : Cardinality({}) < 2 /\ Cardinality({x}) < 2
    <2>1. Cardinality({}) = 0 /\ \A x : Cardinality({x}) = 1
      BY FS_EmptySet, FS_Singleton
    <2> QED
      BY <2>1
  <1>3. ASSUME NEW key \in DOMAIN c.items
        PROVE  Cardinality(MatchGeneric(p.w.items, key, Cell(c.items[key], "name"))) < 2
    <2> DEFINE matches == MatchGeneric(p.w.items, key, Cell(c.items[key], "name"))
    <2>1. matches = {key} \/ matches = {}
      <3>1. DOMAIN <<>> = {}
        OBVIOUS
      <3> QED
        BY <3>1, OwnWorld DEF OwnRows, Facing, MatchGeneric, ItemsNamed
    <2> HIDE DEF matches
    <2>2. Cardinality(matches) < 2
      BY <1>2, <2>1
    <2> QED
      BY <2>2 DEF matches
  <1>4. ASSUME NEW key \in DOMAIN c.orders
        PROVE  Cardinality(MatchOrder(p.w, c, key)) < 2
    <2> DEFINE matches == MatchOrder(p.w, c, key)
    <2>1. matches = {key} \/ matches = {}
      <3>1. DOMAIN <<>> = {}
        OBVIOUS
      <3> QED
        BY <3>1, OwnWorld DEF OwnRows, Facing, MatchOrder
    <2> HIDE DEF matches
    <2>2. Cardinality(matches) < 2
      BY <1>2, <2>1
    <2> QED
      BY <2>2 DEF matches
  <1>5. \A rows \in {p.items, p.orders, p.lines, p.kits, p.photos} :
            \A a, b \in DOMAIN rows : a # b => rows[a].id # rows[b].id
    BY RestatedEntry DEF OwnRows
  <1> QED
    BY <1>1, <1>3, <1>4, <1>5 DEF Matched

LEMMA OwnFilled ==
    ASSUME NEW p, NEW c, NEW mode, OwnRows(p, c, mode), Restated(p.lines, c.lines, mode)
    PROVE  Filled(p)
  <1>1. ASSUME NEW r \in Entries(p.items) PROVE r.after.name # None /\ r.after.onHand \in Nat
    <2>1. PICK i \in DOMAIN c.items : OwnEntry(r, i, c.items, mode)
      BY RestatedEntry DEF OwnRows
    <2>2. c.items[i] \in Item
      BY DEF OwnRows, OwnPlan, IsCollection, IsTable
    <2> QED
      BY <2>1, <2>2, NoneAssumption DEF OwnEntry, Item
  <1>2. ASSUME NEW r \in Entries(p.lines)
        PROVE  /\ r.after.type # None
               /\ \A col \in {"type", "quantity"} \cap DOMAIN r.row : r.row[col] # None
               /\ r.after.quantity # None
               /\ Cell(r.row, "quantity") # None => r.row.quantity \in 1..MaxLineQuantity
    <2>1. PICK l \in DOMAIN c.lines : OwnEntry(r, l, c.lines, mode)
      BY RestatedEntry
    <2>2. c.lines[l] \in Line
      BY DEF OwnRows, OwnPlan, IsCollection, IsTable
    <2>3. r.row = c.lines[l] /\ r.after = c.lines[l]
      BY <2>1 DEF OwnEntry
    <2>4. /\ c.lines[l].type # None /\ c.lines[l].quantity # None
          /\ c.lines[l].quantity \in 1..MaxLineQuantity
      BY <2>2, NoneAssumption, BoundsAssumption DEF Line
    <2> QED
      BY <2>3, <2>4
  <1> QED
    BY <1>1, <1>2 DEF Filled

LEMMA OwnReferenced ==
    ASSUME NEW p, NEW c, NEW mode, OwnRows(p, c, mode), Restated(p.lines, c.lines, mode)
    PROVE  Referenced(p)
  <1>0. /\ IsTable(c.lines, LineIds, Line) /\ IsTable(c.photos, PhotoIds, Photo)
        /\ DOMAIN c.orders \subseteq OrderIds /\ p.up = c
    BY OwnWorld DEF OwnRows, OwnPlan, IsCollection, IsTable
  <1>1. ASSUME NEW r \in Entries(p.lines) PROVE Cell(r.row, "order") # None
    <2>1. PICK l \in DOMAIN c.lines : OwnEntry(r, l, c.lines, mode)
      BY RestatedEntry
    <2>2. c.lines[l] \in Line
      BY <1>0 DEF IsTable
    <2> QED
      BY <2>1, <2>2, NoneAssumption DEF OwnEntry, Line, Cell
  <1>2. ASSUME NEW r \in Entries(p.photos) PROVE r.row.kit # None
    <2>1. PICK i \in DOMAIN c.photos : OwnEntry(r, i, c.photos, mode)
      BY RestatedEntry DEF OwnRows
    <2>2. c.photos[i] \in Photo
      BY <1>0 DEF IsTable
    <2> QED
      BY <2>1, <2>2, NoneAssumption DEF OwnEntry, Photo
  <1>3. ASSUME NEW key \in DOMAIN p.kits
        PROVE  ~(Cell(p.up.kits[key], "line") # None /\ p.kits[key].row.line = None)
    <2>1. key \in DOMAIN c.kits
      BY DEF OwnRows, Restated
    <2>2. p.kits[key].row = c.kits[key]
      BY <2>1, RestatedEntry DEF OwnRows, OwnEntry
    <2> QED
      BY <1>0, <2>2 DEF Cell
  <1>4. ASSUME NEW key \in DOMAIN p.lines
        PROVE  ~(Cell(p.up.lines[key], "ref") # None /\ p.lines[key].row.ref = None)
    <2>1. key \in DOMAIN c.lines
      BY DEF OwnRows
    <2>2. p.lines[key].row = c.lines[key]
      BY <2>1, RestatedEntry DEF OwnEntry
    <2> QED
      BY <1>0, <2>2 DEF Cell
  <1> QED
    BY <1>1, <1>2, <1>3, <1>4 DEF Referenced

\* The rules about lines, orders and kits that a row may break ask it to be changed, or
\* to be new where there is something to join.
LEMMA OwnUnchanged ==
    ASSUME NEW p, NEW c, NEW mode, OwnRows(p, c, mode), Restated(p.lines, c.lines, mode),
           ~Dangling(c)
    PROVE  /\ CheckImmutableLineColumns(p) /\ CheckCatalogTargets(p)
           /\ CheckLinesJoiningReceivedOrders(p) /\ CheckReceiptTransitions(p)
           /\ CheckShipDates(p) /\ KeepsProvenance(p)
  <1>0. OwnAct(mode) \in {"create", "skip", "unchanged"}
    BY OwnActs DEF OwnRows, OwnPlan
  <1>1. /\ \A r \in Entries(p.lines) : r.act # "update"
        /\ \A r \in Entries(p.orders) : r.act # "update"
        /\ \A r \in Entries(p.kits) : r.act # "update"
    BY <1>0, RestatedEntry DEF OwnRows, OwnEntry
  <1>2. ASSUME NEW r \in Entries(p.lines), r.after.type = "tool" PROVE r.after.ref # None
    <2>1. PICK l \in DOMAIN c.lines : OwnEntry(r, l, c.lines, mode)
      BY RestatedEntry
    <2>2. c.lines[l].ref \in DOMAIN c.items
      BY <1>2, <2>1 DEF OwnEntry, Dangling
    <2>3. None \notin DOMAIN c.items
      BY NoneAssumption DEF OwnRows, OwnPlan, IsCollection, IsTable
    <2> QED
      BY <2>1, <2>2, <2>3 DEF OwnEntry
  <1>3. ASSUME NEW r \in Entries(p.lines), r.act = "create" PROVE DOMAIN p.w.orders = {}
    <2>1. PICK l \in DOMAIN c.lines : OwnEntry(r, l, c.lines, mode)
      BY RestatedEntry
    <2>2. mode = "replace_all"
      BY <1>3, <2>1, OwnActs DEF OwnEntry, OwnRows, OwnPlan
    <2>3. DOMAIN <<>> = {}
      OBVIOUS
    <2> QED
      BY <2>2, <2>3, OwnWorld DEF OwnRows, Facing
  <1>4. CheckImmutableLineColumns(p) /\ CheckReceiptTransitions(p) /\ CheckShipDates(p)
    BY <1>1 DEF CheckImmutableLineColumns, CheckReceiptTransitions, CheckShipDates
  <1>5. KeepsProvenance(p)
    BY <1>1 DEF KeepsProvenance
  <1>6. CheckCatalogTargets(p)
    BY <1>2 DEF CheckCatalogTargets
  <1>7. CheckLinesJoiningReceivedOrders(p)
    BY <1>3 DEF CheckLinesJoiningReceivedOrders
  <1> QED
    BY <1>4, <1>5, <1>6, <1>7

\* Kits move only where they are put back, and there each is on a line of kits.
LEMMA OwnMoves ==
    ASSUME NEW p, NEW c, NEW mode, OwnRows(p, c, mode), mode = "replace_all" => AsBought(c)
    PROVE  MovesReconciled(p)
  <1> SUFFICES ASSUME NEW r \in Entries(p.kits), Writes(r), r.after.line # Old(r, "line"),
                      NEW l \in ({Old(r, "line"), r.after.line} \cap DOMAIN LinesAfter(p))
                                    \ Reconciled(p)
               PROVE  FALSE
    BY DEF MovesReconciled
  <1>1. PICK k \in DOMAIN c.kits : OwnEntry(r, k, c.kits, mode)
    BY RestatedEntry DEF OwnRows
  <1>2. c.kits[k] \in Kit /\ k \in KitIds
    BY DEF OwnRows, OwnPlan, IsCollection, IsTable
  <1>3. mode = "replace_all"
    <2> SUFFICES ASSUME mode # "replace_all" PROVE FALSE
      OBVIOUS
    <2>1. r.old = c.kits[k] /\ r.after = c.kits[k]
      BY <1>1 DEF OwnEntry
    <2>2. r.old # None
      BY <1>2, <2>1, NoneAssumption
    <2> QED
      BY <2>1, <2>2 DEF Old
  <1>4. l \in DOMAIN c.lines
    BY OwnTables
  <1>5. l = c.kits[k].line
    <2>1. Old(r, "line") = None /\ r.after = c.kits[k]
      BY <1>1, <1>3 DEF OwnEntry, Old
    <2>2. None \notin DOMAIN c.lines
      BY NoneAssumption DEF OwnRows, OwnPlan, IsCollection, IsTable
    <2> QED
      BY <1>4, <2>1, <2>2
  <1>6. c.lines[l].type # "kit"
    BY <1>3, <1>4, OwnReconciled
  <1>7. Cardinality(KitsOn(c, l)) = 0
    BY <1>3, <1>4, <1>6 DEF AsBought
  <1>8. k \in KitsOn(c, l)
    BY <1>5 DEF KitsOn
  <1>9. IsFiniteSet(KitsOn(c, l))
    <2>1. KitsOn(c, l) \subseteq KitIds
      BY DEF KitsOn, OwnRows, OwnPlan, IsCollection, IsTable
    <2> QED
      BY <2>1, BoundsAssumption, FS_Subset
  <1> QED
    BY <1>7, <1>8, <1>9, FS_EmptySet

LEMMA OwnAccepted ==
    ASSUME NEW p, NEW c, NEW mode, OwnPlan(p, c, mode), ~Dangling(c),
           mode = "replace_all" => AsBought(c)
    PROVE  Accepted(p)
  <1>1. ItemsThere(c)
    BY NoneDangling DEF OwnPlan
  <1>2. OwnRows(p, c, mode)
    BY <1>1, OwnRowsPlanned
  <1>3. Restated(p.lines, c.lines, mode)
    BY <1>1, OwnLines DEF OwnLine, ItemsThere, Restated
  <1>4. Short(p) = {} /\ Over(p) = {}
    BY <1>2, OwnEven
  <1>5. Spawned(p) = 0
    BY <1>4, OwnKitsStay
  <1>6. SpawnsStated(p) /\ RemovalsCovered(p)
    BY <1>4, <1>5, BoundsAssumption DEF SpawnsStated, RemovalsCovered
  <1> QED
    BY <1>2, <1>3, <1>6, OwnMatched, OwnFilled, OwnReferenced, OwnUnchanged, OwnMoves DEF Accepted

\* "Export, edit, import", without the edit: the archive of a collection, brought back
\* into it in any mode, changes nothing; where lines hold what they say and name items
\* that are there, it is taken (services/portability/importing.py _plan).
THEOREM OwnArchiveIsNoChange == Spec => []OwnArchive
  <1>1. ASSUME TypeOK PROVE OwnArchiveHarmless
    <2> SUFFICES ASSUME NEW mode \in {"merge", "add_only"}
                 PROVE  LET p == Plan(db, db, mode)
                        IN  IF Accepted(p) THEN ChangesNothing(p) ELSE Dangling(db)
      BY DEF OwnArchiveHarmless
    <2> DEFINE p == Plan(db, db, mode)
    <2>1. OwnPlan(p, db, mode) /\ mode # "replace_all"
      BY <1>1 DEF OwnPlan, TypeOK, Modes
    <2> HIDE DEF p
    <2>2. ASSUME Accepted(p) PROVE ChangesNothing(p)
      <3>1. OwnRows(p, db, mode)
        BY <2>1, <2>2, OwnRowsPlanned
      <3> QED
        BY <2>1, <3>1, OwnEven, OwnKitsStay, OwnApplied DEF ChangesNothing
    <2>3. ~Dangling(db) => Accepted(p)
      BY <2>1, OwnAccepted
    <2> QED
      BY <2>2, <2>3 DEF p
  <1>2. ASSUME TypeOK PROVE OwnArchiveRestores
    <2> DEFINE p == Plan(db, db, "replace_all")
    <2>1. OwnPlan(p, db, "replace_all")
      BY <1>2 DEF OwnPlan, TypeOK, Modes
    <2> HIDE DEF p
    <2>2. ASSUME AsBought(db), ~Dangling(db)
          PROVE  Accepted(p) /\ ChangesNothing(p)
      <3>1. Accepted(p)
        BY <2>1, <2>2, OwnAccepted
      <3> QED
        BY <2>1, <2>2, <3>1, OwnRowsPlanned, OwnEven, OwnKitsStay, OwnApplied
           DEF ChangesNothing
    <2> QED
      BY <2>2 DEF OwnArchiveRestores, p
  <1>3. TypeOK => OwnArchive
    BY <1>1, <1>2 DEF OwnArchive
  <1>4. ImportInv => TypeOK
    BY DEF ImportInv
  <1> QED
    BY <1>3, <1>4, ImportInit, ImportNext, PTL DEF Spec

-----------------------------------------------------------------------------
(* Reading an archive back.                                                 *)

\* What is left of a member is of the table whose columns it has.
Sourced(m) ==
    /\ m.columns \in Tables => m.rows \subseteq exported[m.columns] /\ m.name \in {m.columns, "other"}
    /\ m.columns \notin Tables => m.name = "other"

AsExported(m) ==
    /\ m.name \in Tables /\ m.columns = m.name /\ m.dir = "root"
    /\ m.rows = exported[m.name] /\ m.whole

Untouched ==
    /\ manifests = 1 /\ manifest.text = "good"
    /\ \A i \in DOMAIN members : AsExported(members[i])
    /\ \A i, j \in DOMAIN members : members[i].name = members[j].name => i = j
    /\ \A t \in Tables : Claimants(t) # {}

Drawn ==
    verdict.read => /\ verdict.refused = (Unreadable \/ TooNew)
                    /\ verdict.blocking = Blocking
                    /\ verdict.warnings = Warnings

\* The verdict is on the archive as it is, which is what is left of the export.
Traced ==
    /\ IntakeTypeOK
    /\ \A i \in DOMAIN members : Sourced(members[i])
    /\ damage = 0 => Untouched
    /\ Drawn

\* FiniteSetsExt's Max is one of the set it is taken from.
LEMMA LargestIsAMember ==
    ASSUME NEW S, IsFiniteSet(S), S # {}, \A x \in S : x \in Int
    PROVE  Max(S) \in S
  <1> DEFINE Top == {T \in SUBSET S : T # {} /\ \A x \in T : \A y \in S \ T : y < x}
  <1>1. S \in Top
    OBVIOUS
  <1>2. Top \in SUBSET (SUBSET S)
    OBVIOUS
  <1>3. Top # {}
    BY <1>1
  <1> HIDE DEF Top
  <1>4. PICK T \in Top : \A U \in Top : U \subseteq T => U = T
    BY <1>2, <1>3, MinimalSubset
  <1> USE DEF Top
  <1>5. PICK x \in T : TRUE
    BY <1>4
  <1>6. T \subseteq S /\ (\A y \in S : y \in Int) /\ \A a \in T : \A b \in S \ T : b < a
    BY <1>4
  <1>7. \A y, z \in T : ~(y < z)
    <2> SUFFICES ASSUME NEW y \in T, NEW z \in T, y < z PROVE FALSE
      OBVIOUS
    <2> DEFINE U == {a \in T : y < a}
    <2>1. \A a \in U : \A b \in S \ U : b < a
      <3> SUFFICES ASSUME NEW a \in U, NEW b \in S \ U PROVE b < a
        OBVIOUS
      <3>1. CASE b \in T
        BY <1>6, <3>1
      <3> QED
        BY <1>6, <3>1
    <2>2. z \in U /\ U \subseteq T
      OBVIOUS
    <2>4. y \notin U /\ U \subseteq S
      BY <1>6
    <2>3. U \in Top
      BY <2>1, <2>2, <2>4
    <2> QED
      BY <1>4, <2>2, <2>3, <2>4
  <1>8. x \in S /\ \A y \in S : x >= y
    BY <1>5, <1>6, <1>7
  <1> QED
    BY <1>8 DEF Max

\* What opening a path reads is a member under that path.
LEMMA OpenedIsAMember ==
    ASSUME members \in Seq(Member), NEW i \in DOMAIN members
    PROVE  /\ Opened(i) \in Member
           /\ \E j \in DOMAIN members : Opened(i) = members[j] /\ Path(members[j]) = Path(members[i])
  <1> DEFINE S == {j \in DOMAIN members : Path(members[j]) = Path(members[i])}
  <1>1. S \in SUBSET (1 .. Len(members)) /\ S # {} /\ Len(members) \in Nat
    OBVIOUS
  <1>7. IsFiniteSet(S) /\ \A x \in S : x \in Int
    <2>1. IsFiniteSet(1 .. Len(members))
      BY <1>1, FS_Interval
    <2> QED
      BY <1>1, <2>1, FS_Subset
  <1> HIDE DEF S
  <1>2. Max(S) \in S
    BY <1>1, <1>7, LargestIsAMember
  <1> USE DEF S
  <1>3. Opened(i) = members[Max(S)]
    BY DEF Opened
  <1>4. PICK j \in S : j = Max(S)
    BY <1>2
  <1>5. j \in DOMAIN members /\ Path(members[j]) = Path(members[i]) /\ Opened(i) = members[j]
    BY <1>3, <1>4
  <1>6. members[j] \in Member
    BY <1>5
  <1> QED
    BY <1>5, <1>6

Places == Tables \cup {"other", "starter", "none"}

LEMMA RoutedSomewhere ==
    ASSUME NEW m \in Member
    PROVE  Routed(m) \in Places
  BY DEF Routed, Member, Places

LEMMA SaysASaying ==
    ASSUME NEW kind \in {"duplicated", "manifests", "no_data", "absent", "ambiguous", "other_table",
                         "rows", "undeclared", "no_manifest", "skipped"} \cup Texts,
           NEW t \in Places
    PROVE  Says(kind, t) \in Sayings
  BY DEF Says, Sayings, Places

LEMMA BlockingSays ==
    ASSUME IntakeTypeOK
    PROVE  Blocking \in SUBSET Sayings
  <1>1. \A i \in DOMAIN members : members[i].name \in Places
    <2> SUFFICES ASSUME NEW i \in DOMAIN members PROVE members[i].name \in Places
      OBVIOUS
    <2>1. members[i] \in Member
      BY DEF IntakeTypeOK
    <2> QED
      BY <2>1 DEF Member, Places
  <1>2. \A t \in Tables : t \in Places
    BY DEF Places
  <1>3. "none" \in Places
    BY DEF Places
  <1>4. \A i \in Duplicated : members[i].name \in Places
    BY <1>1 DEF Duplicated
  <1>5. {Says("duplicated", members[i].name) : i \in Duplicated} \subseteq Sayings
    BY <1>4, SaysASaying
  <1>6. {Says("manifests", "none") : n \in {manifests} \cap {2}} \subseteq Sayings
    BY <1>3, SaysASaying
  <1>7. Says("no_data", "none") \in Sayings
    BY <1>3, SaysASaying
  <1>8. \A t \in Tables : Says("absent", t) \in Sayings /\ Says("ambiguous", t) \in Sayings
    BY <1>2, SaysASaying
  <1> QED
    BY <1>5, <1>6, <1>7, <1>8 DEF Blocking

LEMMA WarningsSay ==
    ASSUME IntakeTypeOK
    PROVE  Warnings \in SUBSET Sayings
  <1>1. \A i \in DOMAIN members : Routed(Opened(i)) \in Places
    BY OpenedIsAMember, RoutedSomewhere DEF IntakeTypeOK
  <1>2. \A t \in Tables : t \in Places
    BY DEF Places
  <1>3. "none" \in Places
    BY DEF Places
  <1>4. Disagreements \in SUBSET Sayings
    BY ZenonT(60), <1>1, <1>2, SaysASaying DEF Disagreements
  <1>5. manifest.text \in Texts
    BY DEF IntakeTypeOK
  <1> QED
    BY <1>3, <1>4, <1>5, SaysASaying DEF Warnings

\* Members of different paths are each opened as they are.
LEMMA OpenedAsItIs ==
    ASSUME members \in Seq(Member), Duplicated = {}, NEW i \in DOMAIN members
    PROVE  Opened(i) = members[i]
  <1>1. PICK j \in DOMAIN members : Opened(i) = members[j] /\ Path(members[j]) = Path(members[i])
    BY OpenedIsAMember
  <1>2. j = i
    BY <1>1 DEF Duplicated
  <1> QED
    BY <1>1, <1>2

LEMMA NoneIsAmbiguous ==
    ASSUME NEW S, IsFiniteSet(S), ~(Cardinality(S) > 1), NEW x \in S, NEW y \in S
    PROVE  x = y
  <1>1. Cardinality(S) \in Nat /\ (Cardinality(S) = 0 <=> S = {})
    BY FS_CardinalityType, FS_EmptySet
  <1>2. Cardinality(S) = 1
    BY <1>1
  <1> QED
    BY <1>2, FS_Singleton

\* With a manifest that declares, a table that is not taken in whole is warned of.
LEMMA DeclaredIsKept ==
    ASSUME IntakeTypeOK, \A i \in DOMAIN members : Sourced(members[i]),
           Blocking = {}, Declares, NEW t \in Tables
    PROVE  \/ Whole(t)
           \/ \E w \in Warnings : w.kind \in {"rows", "undeclared"} /\ w.table = t
  <1> DEFINE paths == {Path(members[i]) : i \in Claimants(t)}
             One == CHOOSE i \in Claimants(t) : TRUE
             claimed == {Path(members[i]) : i \in UNION {Claimants(u) : u \in Tables}}
  <1>1. /\ Duplicated = {}
        /\ Claimants(t) # {}
        /\ ~(Cardinality(paths) > 1)
    BY DEF Blocking
  <1>2. \A i \in DOMAIN members : Opened(i) = members[i] /\ members[i] \in Member
    BY <1>1, OpenedAsItIs DEF IntakeTypeOK
  <1>3. Claimants(t) \subseteq DOMAIN members /\ IsFiniteSet(paths)
    <2>1. paths \in SUBSET (Directories \X {t})
      BY <1>2 DEF Claimants, Path, Member
    <2>2. IsFiniteSet(Directories)
      <3>1. Directories = {"root"} \cup {"sub"}
        BY DEF Directories
      <3> QED
        BY <3>1, FS_Singleton, FS_AddElement
    <2>3. IsFiniteSet(Directories \X {t})
      BY <2>2, FS_Singleton, FS_Product
    <2> QED
      BY <2>1, <2>3, FS_Subset DEF Claimants
  <1>4. PICK i \in Claimants(t) : TRUE
    BY <1>1
  <1>5. Claimants(t) = {i}
    <2> SUFFICES ASSUME NEW j \in Claimants(t) PROVE j = i
      OBVIOUS
    <2>1. Path(members[j]) \in paths /\ Path(members[i]) \in paths
      OBVIOUS
    <2> HIDE DEF paths
    <2>2. Path(members[j]) = Path(members[i])
      BY <1>1, <1>3, <2>1, NoneIsAmbiguous
    <2> QED
      BY <1>1, <1>3, <2>2 DEF Duplicated
  <1>6. One = i /\ Cardinality(Claimants(t)) = 1
    BY <1>5, FS_Singleton
  <1>7. i \in DOMAIN members /\ members[i].name = t /\ Opened(i) = members[i]
    BY <1>2, <1>4 DEF Claimants
  <1>8. members[i].columns = t /\ Routed(members[i]) = t /\ members[i].rows \subseteq exported[t]
    <2>1. Sourced(members[i]) /\ members[i] \in Member
      BY <1>2, <1>7
    <2>2. t # "other" /\ t # "starter"
      BY IntakeAssumption
    <2> QED
      BY <1>7, <2>1, <2>2, IntakeAssumption DEF Sourced, Routed
  <1>9. CASE Cardinality(members[i].rows) # Declared(t)
    <2>1. Says("rows", t) \in Disagreements
      BY <1>6, <1>7, <1>9 DEF Disagreements
    <2> QED
      BY <2>1 DEF Warnings, Says
  <1>10. ASSUME NEW j \in DOMAIN members \ {i}, Routed(members[j]) = t
         PROVE  \E w \in Warnings : w.kind = "undeclared" /\ w.table = t
    <2>1. members[j].name = "other"
      <3>1. members[j].name # t
        BY <1>5 DEF Claimants
      <3>2. CASE members[j].columns \in Tables
        BY <1>10, <3>1, <3>2, IntakeAssumption DEF Sourced, Routed
      <3> QED
        BY <3>2 DEF Sourced
    <2>2. Path(members[j]) \notin claimed
      BY <2>1, IntakeAssumption DEF Path, Claimants
    <2>3. t # "none"
      BY IntakeAssumption
    <2>4. Says("undeclared", t) \in Disagreements
      <3>1. j \in DOMAIN members /\ Routed(Opened(j)) = t
        BY <1>2, <1>10
      <3> HIDE DEF claimed
      <3>2. \E k \in {k \in DOMAIN members :
                Path(members[k]) \notin claimed /\ Routed(Opened(k)) # "none"} :
                Says("undeclared", t) = Says("undeclared", Routed(Opened(k)))
        BY <2>2, <2>3, <3>1
      <3> USE DEF claimed
      <3> QED
        BY <3>2 DEF Disagreements
    <2> QED
      BY <2>4 DEF Warnings, Says
  <1>11. CASE /\ Cardinality(members[i].rows) = Declared(t)
              /\ \A j \in DOMAIN members \ {i} : Routed(members[j]) # t
    <2>1. members[i].rows = exported[t]
      <3>1. IsFiniteSet(exported[t])
        BY IntakeAssumption, FS_Subset DEF IntakeTypeOK
      <3> QED
        BY <1>8, <1>11, <3>1, FS_Subset DEF Declared
    <2>2. ASSUME NEW row \in Rows
          PROVE  Times(t, row) = IF row \in exported[t] THEN 1 ELSE 0
      <3> DEFINE held == {j \in DOMAIN members :
                    Routed(Opened(j)) = t /\ Opened(j).columns = t /\ row \in Opened(j).rows}
      <3>1. held = IF row \in exported[t] THEN {i} ELSE {}
        BY <1>2, <1>7, <1>8, <1>11, <2>1
      <3>2. Times(t, row) = Cardinality(held)
        BY DEF Times
      <3> HIDE DEF held
      <3> QED
        BY <3>1, <3>2, FS_Singleton, FS_EmptySet
    <2> QED
      BY <2>2 DEF Whole
  <1> QED
    BY <1>9, <1>10, <1>11

\* An archive nothing happened to has nothing to be said of it.
LEMMA UntouchedIsTakenIn ==
    ASSUME IntakeTypeOK, Untouched
    PROVE  Blocking = {} /\ Warnings = {} /\ (Unreadable \/ TooNew => manifest.newer \/ Expanded > MaxExpanded)
  <1>1. /\ manifests = 1 /\ manifest.text = "good" /\ Declares
        /\ \A i \in DOMAIN members : AsExported(members[i])
    BY DEF Untouched, Declares
  <1>2. Duplicated = {}
    BY DEF Untouched, Duplicated, Path
  <1>3. ASSUME NEW i \in DOMAIN members
        PROVE  /\ Opened(i) = members[i] /\ AsExported(members[i]) /\ members[i].name \in Tables
               /\ members[i].name \notin {"none", "starter"}
               /\ Routed(members[i]) = members[i].name
               /\ Contributes(members[i]) # {}
    <2>1. Opened(i) = members[i]
      BY <1>2, OpenedAsItIs DEF IntakeTypeOK
    <2>2. AsExported(members[i]) /\ members[i].name \in Tables /\ members[i].columns = members[i].name
      BY <1>1 DEF AsExported
    <2>3. members[i].name \notin {"none", "starter"}
      BY <2>2, IntakeAssumption
    <2>4. Routed(members[i]) = members[i].name
      BY <2>2, <2>3 DEF Routed
    <2> QED
      BY <2>1, <2>2, <2>3, <2>4 DEF Contributes
  <1>4. ASSUME NEW t \in Tables
        PROVE  \E i \in DOMAIN members : members[i].name = t /\ Claimants(t) = {i}
    BY DEF Untouched, Claimants
  <1>5. Blocking = {}
    <2>1. \E i \in DOMAIN members : Contributes(Opened(i)) # {}
      <3>1. PICK t \in Tables : TRUE
        BY IntakeAssumption
      <3> QED
        BY <1>3, <1>4, <3>1
    <2>2. {u \in Tables : Claimants(u) = {}} = {}
      BY <1>4
    <2>3. {u \in Tables : Cardinality({Path(members[i]) : i \in Claimants(u)}) > 1} = {}
      <3> SUFFICES ASSUME NEW u \in Tables
                   PROVE  ~(Cardinality({Path(members[i]) : i \in Claimants(u)}) > 1)
        OBVIOUS
      <3>1. PICK i \in DOMAIN members : Claimants(u) = {i}
        BY <1>4
      <3>2. {Path(members[j]) : j \in Claimants(u)} = {Path(members[i])}
        BY <3>1
      <3>3. Cardinality({Path(members[i])}) = 1
        BY FS_Singleton
      <3> QED
        BY <3>2, <3>3
    <2>4. {Says("duplicated", members[i].name) : i \in Duplicated} = {}
      BY <1>2
    <2>5. {Says("manifests", "none") : k \in {manifests} \cap {2}} = {}
      BY <1>1
    <2>6. {Says("absent", t) : t \in {u \in Tables : Claimants(u) = {}}} = {}
      BY <2>2
    <2>7. {Says("ambiguous", t) : t \in {u \in Tables :
              Cardinality({Path(members[i]) : i \in Claimants(u)}) > 1}} = {}
      BY <2>3
    <2> QED
      BY <1>1, <2>1, <2>4, <2>5, <2>6, <2>7 DEF Blocking
  <1>6. Disagreements = {}
    <2> DEFINE One(t) == CHOOSE i \in Claimants(t) : TRUE
               sole == {t \in Tables : Cardinality(Claimants(t)) = 1}
               claimed == {Path(members[i]) : i \in UNION {Claimants(t) : t \in Tables}}
    <2>1. ASSUME NEW t \in Tables
          PROVE  /\ Routed(Opened(One(t))) = t
                 /\ Cardinality(Opened(One(t)).rows) = Declared(t)
      <3>1. PICK i \in DOMAIN members : members[i].name = t /\ Claimants(t) = {i}
        BY <1>4
      <3>2. One(t) = i
        BY <3>1
      <3>3. Opened(One(t)) = members[i] /\ Routed(members[i]) = t
        BY <1>3, <3>1, <3>2
      <3>4. members[i].rows = exported[t]
        BY <1>3, <3>1 DEF AsExported
      <3> QED
        BY <3>3, <3>4 DEF Declared
    <2>2. ASSUME NEW j \in DOMAIN members
          PROVE  Path(members[j]) \in claimed
      <3>1. j \in Claimants(members[j].name) /\ members[j].name \in Tables
        BY <1>3 DEF Claimants
      <3> QED
        BY <3>1
    <2>3. {u \in sole : Routed(Opened(One(u))) \notin {u, "none"}} = {}
      BY <2>1
    <2>4. {u \in sole : Cardinality(Opened(One(u)).rows) # Declared(u)} = {}
      BY <2>1
    <2>5. {j \in DOMAIN members :
              Path(members[j]) \notin claimed /\ Routed(Opened(j)) # "none"} = {}
      BY <2>2
    <2> QED
      BY <2>3, <2>4, <2>5 DEF Disagreements
  <1>7. {j \in DOMAIN members : Routed(Opened(j)) = "none"} = {}
    BY <1>3
  <1>8. Warnings = {}
    BY <1>1, <1>6, <1>7 DEF Warnings
  <1>9. Unreadable => Expanded > MaxExpanded
    BY <1>1, <1>3 DEF Unreadable, AsExported
  <1> QED
    BY <1>5, <1>8, <1>9 DEF TooNew

LEMMA TracedIsSeen == Traced => NothingLostUnseen
  <1> SUFFICES ASSUME Traced PROVE NothingLostUnseen
    OBVIOUS
  <1>1. IntakeTypeOK /\ Drawn /\ \A i \in DOMAIN members : Sourced(members[i])
    BY DEF Traced
  <1>2. ASSUME TakenIn, NEW t \in Tables
        PROVE  Whole(t) \/ \E w \in verdict.warnings :
                 \/ w.kind \in {"rows", "other_table", "undeclared"} /\ w.table = t
                 \/ w.kind \in {"no_manifest", "not_json", "no_object"}
    <2>1. Blocking = {} /\ ~Unreadable /\ verdict.warnings = Warnings
      BY <1>1, <1>2 DEF Drawn, TakenIn
    <2>2. CASE Declares
      <3>1. \/ Whole(t)
            \/ \E w \in Warnings : w.kind \in {"rows", "undeclared"} /\ w.table = t
        BY <1>1, <2>1, <2>2, DeclaredIsKept
      <3> QED
        BY <2>1, <3>1
    <2>3. CASE manifests = 0
      <3>1. Says("no_manifest", "none") \in Warnings
        BY <2>3 DEF Warnings
      <3> QED
        BY <2>1, <3>1 DEF Says
    <2>4. CASE manifests = 1 /\ ~Declares
      <3>1. manifest.text \in {"not_json", "no_object"}
        <4>1. manifest.text \in Texts
          BY <1>1 DEF IntakeTypeOK
        <4> QED
          BY <2>1, <2>4, <4>1 DEF Declares, Unreadable, Texts
      <3>2. Says(manifest.text, "none") \in Warnings
        BY <2>4, <3>1 DEF Warnings
      <3> QED
        BY <2>1, <3>1, <3>2 DEF Says
    <2>5. manifests # 2
      <3>1. manifests = 2 => Says("manifests", "none") \in Blocking
        BY DEF Blocking
      <3> QED
        BY <2>1, <3>1
    <2>6. manifests \in 0 .. 2
      BY <1>1 DEF IntakeTypeOK
    <2> QED
      BY <2>2, <2>3, <2>4, <2>5, <2>6
  <1>3. ASSUME verdict.read, damage = 0
        PROVE  /\ verdict.warnings = {} /\ verdict.blocking = {}
               /\ verdict.refused => manifest.newer \/ Expanded > MaxExpanded
    <2>1. Untouched
      BY <1>3 DEF Traced
    <2> QED
      BY <1>1, <1>3, <2>1, UntouchedIsTakenIn DEF Drawn
  <1> QED
    BY <1>1, <1>2, <1>3 DEF NothingLostUnseen

LEMMA ExportIsTraced == IntakeInit => Traced
  <1> SUFFICES ASSUME IntakeInit PROVE Traced
    OBVIOUS
  <1>1. /\ exported \in [Tables -> SUBSET Rows]
        /\ manifests = 1 /\ manifest \in [text : {"good"}, newer : BOOLEAN]
        /\ damage = 0 /\ verdict = Unread
    BY DEF IntakeInit
  <1>2. PICK order \in SetToSeqs(Tables) :
          members = [i \in DOMAIN order |->
             [dir |-> "root", name |-> order[i], columns |-> order[i],
              rows |-> exported[order[i]], whole |-> TRUE]]
    BY DEF IntakeInit
  <1> DEFINE n == Cardinality(Tables)
  <1>3. n \in Nat
    BY IntakeAssumption, FS_CardinalityType
  <1>4. order \in [1 .. n -> Tables] /\ \A i, j \in 1 .. n : i # j => order[i] # order[j]
    BY <1>2 DEF SetToSeqs
  <1> HIDE DEF n
  <1>5. \A t \in Tables : \E i \in 1 .. n : order[i] = t
    <2>1. order \in Injection(1 .. n, Tables)
      BY <1>4 DEF Injection, IsInjective
    <2>2. IsFiniteSet(1 .. n) /\ Cardinality(1 .. n) = n
      BY <1>3, FS_Interval
    <2>3. order \in Surjection(1 .. n, Tables)
      BY <2>1, <2>2, IntakeAssumption, FS_Injection DEF n
    <2> QED
      BY <2>3 DEF Surjection
  <1>6. DOMAIN members = 1 .. n
    BY <1>2, <1>4
  <1>7. ASSUME NEW i \in 1 .. n
        PROVE  /\ members[i] = [dir |-> "root", name |-> order[i], columns |-> order[i],
                                rows |-> exported[order[i]], whole |-> TRUE]
               /\ order[i] \in Tables
               /\ members[i] \in Member /\ AsExported(members[i]) /\ Sourced(members[i])
    <2>1. members[i] = [dir |-> "root", name |-> order[i], columns |-> order[i],
                        rows |-> exported[order[i]], whole |-> TRUE]
      BY <1>2, <1>4
    <2>2. order[i] \in Tables /\ exported[order[i]] \in SUBSET Rows
      BY <1>1, <1>4
    <2>3. members[i] \in Member
      BY <2>1, <2>2 DEF Member, Directories
    <2> QED
      BY <2>1, <2>2, <2>3 DEF AsExported, Sourced
  <1>8. members \in Seq(Member)
    <2>1. members \in [1 .. n -> Member]
      BY <1>2, <1>4, <1>6, <1>7
    <2> QED
      BY <1>3, <2>1
  <1>9. IntakeTypeOK
    <2>1. manifest \in [text : Texts, newer : BOOLEAN]
      BY <1>1 DEF Texts
    <2>2. damage \in 0 .. MaxDamage
      BY <1>1, IntakeAssumption
    <2> QED
      BY <1>1, <1>8, <2>1, <2>2 DEF IntakeTypeOK, Unread
  <1>10. Untouched
    <2>1. \A i, j \in DOMAIN members : members[i].name = members[j].name => i = j
      BY <1>4, <1>6, <1>7
    <2>2. \A t \in Tables : Claimants(t) # {}
      BY <1>5, <1>6, <1>7 DEF Claimants
    <2> QED
      BY <1>1, <1>6, <1>7, <2>1, <2>2 DEF Untouched
  <1> QED
    BY <1>1, <1>6, <1>7, <1>9, <1>10 DEF Traced, Drawn, Unread

\* A member left over, changed or put in is one that was, or a sheet of something else.
LEMMA DamageIsTraced ==
    ASSUME Traced, Damaged, IntakeNext, ~Read
    PROVE  /\ members' \in Seq(Member)
           /\ \A i \in DOMAIN members' : Sourced(members'[i])
           /\ manifests' \in 0 .. 2
           /\ manifest' \in [text : Texts, newer : BOOLEAN]
  <1>1. /\ members \in Seq(Member) /\ manifests \in 0 .. 2
        /\ manifest \in [text : Texts, newer : BOOLEAN]
        /\ exported \in [Tables -> SUBSET Rows]
        /\ \A i \in DOMAIN members : members[i] \in Member /\ Sourced(members[i])
    BY DEF Traced, IntakeTypeOK
  <1> DEFINE Kept(m) == m \in Member /\ Sourced(m)
  <1>2. CASE Lose
    <2>1. PICK i \in DOMAIN members : members' = RemoveAt(members, i)
      BY <1>2 DEF Lose
    <2>2. members' \in Seq(Member) /\ \A j \in DOMAIN members' : \E k \in DOMAIN members : members'[j] = members[k]
      <3> DEFINE first == SubSeq(members, 1, i - 1)
                 rest == SubSeq(members, i + 1, Len(members))
      <3>1. /\ first \in Seq(Member) /\ Len(first) = i - 1
            /\ \A j \in 1 .. i - 1 : first[j] = members[j]
        BY <1>1, <2>1
      <3>2. /\ rest \in Seq(Member) /\ Len(rest) = Len(members) - i
            /\ \A j \in 1 .. Len(members) - i : rest[j] = members[i + j]
        BY <1>1, <2>1
      <3>3. members' = first \o rest
        BY <2>1 DEF RemoveAt
      <3> HIDE DEF first, rest
      <3>4. /\ members' \in Seq(Member) /\ Len(members') = Len(members) - 1
            /\ \A j \in 1 .. Len(members) - 1 :
                  members'[j] = IF j < i THEN first[j] ELSE rest[j - i + 1]
        BY <1>1, <2>1, <3>1, <3>2, <3>3
      <3>5. ASSUME NEW j \in DOMAIN members' PROVE \E k \in DOMAIN members : members'[j] = members[k]
        <4>1. j \in 1 .. Len(members) - 1
          BY <3>4
        <4>2. CASE j < i
          <5>1. members'[j] = members[j] /\ j \in DOMAIN members
            <6>1. i \in 1 .. Len(members) /\ Len(members) \in Nat /\ j \in Int
              BY <1>1, <2>1, <4>1
            <6>2. j \in 1 .. i - 1 /\ j \in 1 .. Len(members)
              BY <4>1, <4>2, <6>1
            <6>3. members'[j] = first[j] /\ first[j] = members[j]
              BY <3>1, <3>4, <4>1, <4>2, <6>2
            <6> QED
              BY <1>1, <6>2, <6>3
          <5> QED
            BY <5>1
        <4>3. CASE ~(j < i)
          <5>1. members'[j] = members[j + 1] /\ j + 1 \in DOMAIN members
            <6>1. i \in 1 .. Len(members) /\ Len(members) \in Nat /\ j \in Int
              BY <1>1, <2>1, <4>1
            <6>2. /\ j - i + 1 \in 1 .. Len(members) - i /\ j + 1 \in 1 .. Len(members)
                  /\ i + (j - i + 1) = j + 1
              BY <4>1, <4>3, <6>1
            <6>3. members'[j] = rest[j - i + 1] /\ rest[j - i + 1] = members[j + 1]
              BY SMTT(30), <3>2, <3>4, <4>1, <4>3, <6>2
            <6> QED
              BY <1>1, <6>2, <6>3
          <5> QED
            BY <5>1
        <4> QED
          BY <4>2, <4>3
      <3> QED
        BY <3>4, <3>5
    <2> QED
      BY <1>1, <1>2, <2>2 DEF Lose
  <1>3. CASE Alter
    <2>1. ASSUME NEW i \in DOMAIN members, NEW m \in Member, Sourced(m),
                 members' = [members EXCEPT ![i] = m]
          PROVE  members' \in Seq(Member) /\ \A j \in DOMAIN members' : Sourced(members'[j])
      BY <1>1, <2>1
    <2>2. ASSUME NEW i \in DOMAIN members, NEW row \in members[i].rows
          PROVE  Kept([members[i] EXCEPT !.rows = @ \ {row}])
      BY <1>1 DEF Member, Sourced
    <2>3. ASSUME NEW i \in DOMAIN members, NEW dir \in Directories, NEW name \in {members[i].name, "other"}
          PROVE  Kept([members[i] EXCEPT !.dir = dir, !.name = name])
      BY <1>1 DEF Member, Sourced
    <2>4. ASSUME NEW i \in DOMAIN members
          PROVE  Kept([members[i] EXCEPT !.whole = FALSE])
      BY <1>1 DEF Member, Sourced
    <2>5. \E i \in DOMAIN members, m \in Member : Sourced(m) /\ members' = [members EXCEPT ![i] = m]
      <3>1. PICK i \in DOMAIN members :
               \/ \E row \in members[i].rows : members' = [members EXCEPT ![i].rows = @ \ {row}]
               \/ \E dir \in Directories, name \in {members[i].name, "other"} :
                     members' = [members EXCEPT ![i].dir = dir, ![i].name = name]
               \/ members' = [members EXCEPT ![i].whole = FALSE]
        BY <1>3 DEF Alter
      <3>2. ASSUME NEW row \in members[i].rows, members' = [members EXCEPT ![i].rows = @ \ {row}]
            PROVE  members' = [members EXCEPT ![i] = [members[i] EXCEPT !.rows = @ \ {row}]]
        BY <3>2
      <3>3. ASSUME NEW dir \in Directories, NEW name \in {members[i].name, "other"},
                   members' = [members EXCEPT ![i].dir = dir, ![i].name = name]
            PROVE  members' = [members EXCEPT ![i] = [members[i] EXCEPT !.dir = dir, !.name = name]]
        BY <3>3
      <3>4. ASSUME members' = [members EXCEPT ![i].whole = FALSE]
            PROVE  members' = [members EXCEPT ![i] = [members[i] EXCEPT !.whole = FALSE]]
        BY <3>4
      <3>5. ASSUME NEW m, Kept(m), members' = [members EXCEPT ![i] = m]
            PROVE  \E j \in DOMAIN members, k \in Member : Sourced(k) /\ members' = [members EXCEPT ![j] = k]
        BY <3>5
      <3> HIDE DEF Kept
      <3>6. CASE \E row \in members[i].rows : members' = [members EXCEPT ![i].rows = @ \ {row}]
        BY <2>2, <3>2, <3>5, <3>6
      <3>7. CASE \E dir \in Directories, name \in {members[i].name, "other"} :
                     members' = [members EXCEPT ![i].dir = dir, ![i].name = name]
        BY <2>3, <3>3, <3>5, <3>7
      <3>8. CASE members' = [members EXCEPT ![i].whole = FALSE]
        BY <2>4, <3>4, <3>5, <3>8
      <3> QED
        BY <3>1, <3>6, <3>7, <3>8
    <2> QED
      BY <1>1, <1>3, <2>1, <2>5 DEF Alter
  <1>4. CASE Put
    <2>1. ASSUME NEW m \in Member, Sourced(m), members' = Append(members, m)
          PROVE  members' \in Seq(Member) /\ \A j \in DOMAIN members' : Sourced(members'[j])
      <3>1. /\ members' \in Seq(Member) /\ Len(members') = Len(members) + 1
            /\ \A j \in 1 .. Len(members) + 1 : members'[j] = IF j = Len(members) + 1 THEN m ELSE members[j]
        BY <1>1, <2>1
      <3> QED
        BY <1>1, <2>1, <3>1
    <2>2. ASSUME NEW i \in DOMAIN members, NEW dir \in Directories
          PROVE  Kept([members[i] EXCEPT !.dir = dir])
      BY <1>1 DEF Member, Sourced
    <2>3. ASSUME NEW columns \in {"starter", "none"}, NEW rows \in {{}, Rows}
          PROVE  Kept([dir |-> "root", name |-> "other", columns |-> columns,
                       rows |-> rows, whole |-> TRUE])
      <3>1. columns \notin Tables
        BY IntakeAssumption
      <3> QED
        BY <3>1 DEF Member, Sourced, Directories
    <2>4. \E m : Kept(m) /\ members' = Append(members, m)
      <3> HIDE DEF Kept
      <3> QED
        BY <1>4, <2>2, <2>3 DEF Put
    <2> QED
      BY <1>1, <1>4, <2>1, <2>4 DEF Put
  <1>5. CASE SpoilManifest
    <2>1. manifests' \in 0 .. 2
      BY <1>1, <1>5 DEF SpoilManifest
    <2>2. manifest' \in [text : Texts, newer : BOOLEAN]
      BY <1>1, <1>5 DEF SpoilManifest, Texts
    <2> QED
      BY <1>1, <1>5, <2>1, <2>2 DEF SpoilManifest
  <1> QED
    BY <1>2, <1>3, <1>4, <1>5 DEF IntakeNext


\* What is made of an archive is a matter of the archive alone.
LEMMA SameArchive ==
    ASSUME UNCHANGED <<exported, members, manifests, manifest>>
    PROVE  Blocking' = Blocking /\ Warnings' = Warnings /\ (Unreadable \/ TooNew)' = (Unreadable \/ TooNew)
  <1>1. ASSUME NEW i PROVE Opened(i)' = Opened(i)
    <2>1. {j \in DOMAIN members : Path(members[j]) = Path(members[i])}'
            = {j \in DOMAIN members : Path(members[j]) = Path(members[i])}
      BY DEF Path
    <2> QED
      BY <2>1 DEF Opened
  <1>2. Duplicated' = Duplicated
    BY DEF Duplicated, Path
  <1>3. Declares' = Declares
    BY DEF Declares
  <1>4. ASSUME NEW t PROVE Claimants(t)' = Claimants(t) /\ Declared(t)' = Declared(t)
    BY DEF Claimants, Declared
  <1>5. ASSUME NEW i PROVE Routed(Opened(i))' = Routed(Opened(i)) /\ Contributes(Opened(i))' = Contributes(Opened(i))
    BY <1>1 DEF Routed, Contributes
  <1>6. ASSUME NEW t
        PROVE  {Path(members[i]) : i \in Claimants(t)}' = {Path(members[i]) : i \in Claimants(t)}
    BY <1>4 DEF Path
  <1>7. Blocking' = Blocking
    <2>1. {Says("duplicated", members[i].name) : i \in Duplicated}'
            = {Says("duplicated", members[i].name) : i \in Duplicated}
      BY <1>2
    <2>2. {u \in Tables : Claimants(u) = {}}' = {u \in Tables : Claimants(u) = {}}
      BY <1>4
    <2>3. {u \in Tables : Cardinality({Path(members[i]) : i \in Claimants(u)}) > 1}'
            = {u \in Tables : Cardinality({Path(members[i]) : i \in Claimants(u)}) > 1}
      BY <1>6
    <2>4. (\A i \in DOMAIN members : Contributes(Opened(i)) = {})'
            = (\A i \in DOMAIN members : Contributes(Opened(i)) = {})
      BY <1>5
    <2> QED
      BY <1>3, <2>1, <2>2, <2>3, <2>4 DEF Blocking
  <1>8. Disagreements' = Disagreements
    BY <1>1, <1>4, <1>5 DEF Disagreements, Path
  <1>9. Warnings' = Warnings
    BY <1>3, <1>5, <1>8 DEF Warnings
  <1>10. Expanded' = Expanded
    <2>1. [i \in DOMAIN members |-> 1 + Cardinality(Opened(i).rows)]'
            = [i \in DOMAIN members |-> 1 + Cardinality(Opened(i).rows)]
      BY <1>1
    <2> QED
      BY <2>1 DEF Expanded
  <1>11. Unreadable' = Unreadable
    BY <1>1, <1>10 DEF Unreadable
  <1>12. TooNew' = TooNew
    BY DEF TooNew
  <1> QED
    BY <1>7, <1>9, <1>11, <1>12

LEMMA TracedStays == Traced /\ [IntakeNext]_intakeVars => Traced'
  <1> SUFFICES ASSUME Traced, [IntakeNext]_intakeVars PROVE Traced'
    OBVIOUS
  <1>1. CASE UNCHANGED intakeVars
    <2>1. UNCHANGED <<exported, members, manifests, manifest, damage, verdict>>
      BY <1>1 DEF intakeVars
    <2>2. IntakeTypeOK'
      BY <2>1 DEF Traced, IntakeTypeOK
    <2>3. \A i \in DOMAIN members' : Sourced(members[i])'
      BY <2>1 DEF Traced, Sourced
    <2>4. damage' = 0 => Untouched'
      BY <2>1 DEF Traced, Untouched, AsExported, Claimants
    <2>5. Drawn'
      BY <2>1, SameArchive DEF Traced, Drawn
    <2> QED
      BY <2>2, <2>3, <2>4, <2>5 DEF Traced
  <1>2. CASE Read
    <2>1. /\ UNCHANGED <<exported, members, manifests, manifest>> /\ damage' = damage
          /\ verdict' = [read |-> TRUE, refused |-> Unreadable \/ TooNew,
                         blocking |-> Blocking, warnings |-> Warnings]
      BY <1>2 DEF Read
    <2>2. IntakeTypeOK
      BY DEF Traced
    <2>3. Blocking \in SUBSET Sayings /\ Warnings \in SUBSET Sayings
      BY <2>2, BlockingSays, WarningsSay
    <2>4. (Unreadable \/ TooNew) \in BOOLEAN
      OBVIOUS
    <2>5. IntakeTypeOK'
      BY <2>1, <2>2, <2>3, <2>4 DEF IntakeTypeOK
    <2>6. \A i \in DOMAIN members' : Sourced(members[i])'
      BY <2>1 DEF Traced, Sourced
    <2>7. damage' = 0 => Untouched'
      BY <2>1 DEF Traced, Untouched, AsExported, Claimants
    <2>8. Drawn'
      BY <2>1, SameArchive DEF Drawn
    <2> QED
      BY <2>5, <2>6, <2>7, <2>8 DEF Traced
  <1>3. CASE IntakeNext /\ ~Read
    <2>1. Damaged
      BY <1>3 DEF IntakeNext, Lose, Alter, Put, SpoilManifest
    <2>2. /\ damage' = damage + 1 /\ damage < MaxDamage
          /\ exported' = exported /\ verdict' = verdict /\ ~verdict.read
      BY <2>1 DEF Damaged
    <2>3. /\ members' \in Seq(Member)
          /\ \A i \in DOMAIN members' : Sourced(members'[i])
          /\ manifests' \in 0 .. 2
          /\ manifest' \in [text : Texts, newer : BOOLEAN]
      BY <1>3, <2>1, DamageIsTraced
    <2>4. damage' \in 0 .. MaxDamage /\ damage' # 0
      BY <2>2, IntakeAssumption DEF Traced, IntakeTypeOK
    <2>5. IntakeTypeOK'
      BY <2>2, <2>3, <2>4 DEF Traced, IntakeTypeOK
    <2>6. \A i \in DOMAIN members' : Sourced(members[i])'
      BY <2>2, <2>3 DEF Sourced
    <2>7. Drawn'
      BY <2>2 DEF Drawn
    <2> QED
      BY <2>4, <2>5, <2>6, <2>7 DEF Traced
  <1> QED
    BY <1>1, <1>2, <1>3

\* NothingLostUnseen: whatever is lost, doubled, trimmed, moved or spoiled between
\* an export and its import, what is taken in short of a table's rows, or with some
\* of them twice, says so; and what nothing happened to is taken in without a word.
THEOREM LossesAreSeen == IntakeSpec => []NothingLostUnseen
  <1> QED
    BY ExportIsTraced, TracedStays, TracedIsSeen, PTL DEF IntakeSpec

=============================================================================
