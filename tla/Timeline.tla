------------------------------ MODULE Timeline ------------------------------
(***************************************************************************)
(* The clocks of an order and of the kits it spawned: entry, shipment,     *)
(* receipt, corrections of both dates, moves made by hand, and the build   *)
(* dates a move stamps (backend/app/services/orders.py, kits.py,           *)
(* order_stage.py).                                                        *)
(*                                                                         *)
(* Nothing here can refuse halfway, and every service holds the write gate *)
(* from its first read to its commit, so each is one action.  Stock, line  *)
(* removal and kit deletion are in module Collection.                      *)
(*                                                                         *)
(* Instants: a date somebody supplies is a past day, of Days; an instant   *)
(* the server takes from its own clock is 1, 2, ... and is never the same  *)
(* twice.  A date in the future is refused, which is no step.              *)
(***************************************************************************)
EXTENDS Integers

CONSTANTS
    OrderIds, KitIds,
    Days,       \* the dates people supply for shipments and receipts
    BuildDays,  \* those they supply for the start or the end of a build
    MaxClock,   \* bound: how many instants the server's clock gives out
    None,
    Unset       \* a build date the request leaves out

ASSUME DaysAssumption ==
    /\ Days \cup BuildDays \subseteq {d \in Int : d < 0}
    /\ MaxClock \in Nat

ASSUME NoneAssumption ==
    /\ None \notin Int
    /\ None \notin OrderIds \cup KitIds
    /\ Unset \notin Int \cup {None}

KitStatus == {"pre_ordered", "ordered", "in_transit", "backlog", "building", "complete"}
ARRIVAL_ELIGIBLE == {"pre_ordered", "ordered", "in_transit"}
SHIP_ELIGIBLE == {"pre_ordered", "ordered"}

Instants == Days \cup 1..MaxClock
Maybe(S) == S \cup {None}

Order == [shipped : Maybe(Instants), received : Maybe(Instants)]

Kit == [order : OrderIds, status : KitStatus, since : Instants,
        started : Maybe(Instants \cup BuildDays),
        completed : Maybe(Instants \cup BuildDays)]

\* What last set a kit's status clock, and whether a hand has moved it since
\* its entry or its last receipt.
History == [mover : {"entry", "ship", "receipt", "hand"}, touched : BOOLEAN]

ASSUME AbsentAssumption == None \notin Order \cup Kit \cup History

VARIABLES
    orders, kits,
    history,   \* history: per kit, who moved it
    clock      \* the server's clock

vars == <<orders, kits, history, clock>>

TypeOK ==
    /\ orders \in [OrderIds -> Maybe(Order)]
    /\ kits \in [KitIds -> Maybe(Kit)]
    /\ history \in [KitIds -> Maybe(History)]
    /\ clock \in 0..MaxClock

-----------------------------------------------------------------------------

\* The instant a service stamps: the date supplied, or the server's clock.  A
\* new row that is given no stamp reads the clock again as it is built, so the
\* two are never equal.
Now == clock + 1
RowNow == clock + 2
Supplied(date) == IF date = None THEN Now ELSE date
Tick == RowNow <= MaxClock /\ clock' = RowNow

KitsOf(o) == {k \in KitIds : kits[k] # None /\ kits[k].order = o}

\* Mutant of initial_kit_status: a shipped order's kits start in transit even
\* though the box has arrived.
initial_kit_status_shipped_first(requested, order) ==
    IF order.shipped # None /\ requested \in SHIP_ELIGIBLE
    THEN "in_transit"
    ELSE IF order.received # None /\ requested \in ARRIVAL_ELIGIBLE
         THEN "backlog" ELSE requested

\* Where a kit starts, given its order: received wins over shipped.
initial_kit_status(requested, order) ==
    IF order.received # None /\ requested \in ARRIVAL_ELIGIBLE
    THEN "backlog"
    ELSE IF order.shipped # None /\ requested \in SHIP_ELIGIBLE
         THEN "in_transit" ELSE requested

\* The status clock of a kit as it is spawned: the order's receipt for a kit in
\* the backlog, its shipment for one in transit, if there is one, and otherwise
\* the moment of entry.
OwnStamp(status, order) ==
    CASE status = "backlog" /\ order.received # None -> order.received
      [] status = "in_transit" /\ order.shipped # None -> order.shipped
      [] OTHER -> RowNow

OwnMover(status, order) ==
    CASE status = "backlog" /\ order.received # None -> "receipt"
      [] status = "in_transit" /\ order.shipped # None -> "ship"
      [] OTHER -> "entry"

\* The fan-out of a kit line: one row per unit, all alike.
SpawnKits(o, new, requested, order) ==
    LET status == initial_kit_status(requested, order)
    IN  /\ \A k \in new : kits[k] = None
        /\ kits' = [k \in KitIds |->
                      IF k \in new
                      THEN [order |-> o, status |-> status,
                            since |-> OwnStamp(status, order),
                            started |-> None, completed |-> None]
                      ELSE kits[k]]
        /\ history' = [k \in KitIds |->
                         IF k \in new
                         THEN [mover |-> OwnMover(status, order), touched |-> FALSE]
                         ELSE history[k]]

-----------------------------------------------------------------------------

\* Entry: `received` with or without a date, and a ship date or none.
create_order(o, received, receipt, shipment, new, requested) ==
    LET order == [received |-> IF received THEN Supplied(receipt) ELSE None,
                  shipped |-> shipment]
    IN  /\ orders[o] = None
        /\ receipt # None => received
        /\ orders' = [orders EXCEPT ![o] = order]
        /\ SpawnKits(o, new, requested, order)
        /\ Tick

\* An edit adds a kit line, or grows one.  (Growing without details clones the
\* line's first kit, asking for pre_ordered or ordered: two of the requests.)
add_kits(o, new, requested) ==
    /\ orders[o] # None
    /\ SpawnKits(o, new, requested, orders[o])
    /\ Tick
    /\ UNCHANGED orders

\* Moves the kits of `moved` to a stage, stamped with one instant.
Advance(moved, status, at, mover) ==
    /\ kits' = [k \in KitIds |->
                  IF k \in moved
                  THEN [kits[k] EXCEPT !.status = status, !.since = at]
                  ELSE kits[k]]
    /\ history' = [k \in KitIds |->
                     IF k \in moved
                     THEN [mover |-> mover,
                           touched |-> mover = "ship" /\ history[k].touched]
                     ELSE history[k]]

receive_order(o, date) ==
    /\ orders[o] # None
    /\ orders[o].received = None
    /\ orders' = [orders EXCEPT ![o].received = Supplied(date)]
    /\ Advance({k \in KitsOf(o) : kits[k].status \in ARRIVAL_ELIGIBLE},
               "backlog", Supplied(date), "receipt")
    /\ Tick

\* Legal before the receipt and after it.
mark_order_shipped(o, date) ==
    /\ orders[o] # None
    /\ orders[o].shipped = None
    /\ orders' = [orders EXCEPT ![o].shipped = Supplied(date)]
    /\ Advance({k \in KitsOf(o) : kits[k].status \in SHIP_ELIGIBLE},
               "in_transit", Supplied(date), "ship")
    /\ Tick

\* A corrected date takes along the kits stamped with the old one.
Restamp(o, old, new, statuses) ==
    kits' = [k \in KitIds |->
               IF k \in KitsOf(o) /\ kits[k].status \in statuses /\ kits[k].since = old
               THEN [kits[k] EXCEPT !.since = new]
               ELSE kits[k]]

\* Mutant of correct_receipt: the kits keep the old date.
correct_receipt_alone(o, date) ==
    /\ orders[o] # None
    /\ orders[o].received # None
    /\ orders' = [orders EXCEPT ![o].received = date]
    /\ UNCHANGED <<kits, history, clock>>

\* PATCH received_at: whatever the kit's status is, the stamp decides.
correct_receipt(o, date) ==
    /\ orders[o] # None
    /\ orders[o].received \notin {None, date}
    /\ Restamp(o, orders[o].received, date, KitStatus)
    /\ orders' = [orders EXCEPT ![o].received = date]
    /\ UNCHANGED <<history, clock>>

\* PATCH shipped_at: only a kit still in transit is the shipment's to re-date.
correct_ship(o, date) ==
    /\ orders[o] # None
    /\ orders[o].shipped \notin {None, date}
    /\ Restamp(o, orders[o].shipped, date, {"in_transit"})
    /\ orders' = [orders EXCEPT ![o].shipped = date]
    /\ UNCHANGED <<history, clock>>

\* Mutant of Stamped: every pass through the stage is stamped.
StampedAlways(field, asked, entered) ==
    IF asked # Unset THEN asked
    ELSE IF entered THEN Now ELSE field

\* A build date after a PATCH: what the request says, and else the clock, if
\* the move enters the stage and the date is still empty (stamp_build_date).
Stamped(field, asked, entered) ==
    IF asked # Unset THEN asked
    ELSE IF entered /\ field = None THEN Now ELSE field

\* PATCH a kit: to any status, with either build date set, cleared or left out.
update_kit(k, status, started, completed) ==
    /\ kits[k] # None
    /\ LET moved == status # kits[k].status
       IN  /\ kits' = [kits EXCEPT ![k] =
                 [order |-> @.order, status |-> status,
                  since |-> IF moved THEN Now ELSE @.since,
                  started |-> Stamped(@.started, started, moved /\ status = "building"),
                  completed |-> Stamped(@.completed, completed,
                                        moved /\ status = "complete")]]
           /\ history' = IF moved
                         THEN [history EXCEPT ![k] = [mover |-> "hand", touched |-> TRUE]]
                         ELSE history
    /\ Tick
    /\ UNCHANGED orders

\* Where an order sits, derived from its dates and its kits.
order_stage(o) ==
    CASE orders[o].received # None -> "received"
      [] orders[o].received = None /\ orders[o].shipped # None -> "in_transit"
      [] OTHER ->
            IF KitsOf(o) # {} /\ \A k \in KitsOf(o) : kits[k].status = "pre_ordered"
            THEN "pre_ordered" ELSE "ordered"

-----------------------------------------------------------------------------

Init ==
    /\ orders = [o \in OrderIds |-> None]
    /\ kits = [k \in KitIds |-> None]
    /\ history = [k \in KitIds |-> None]
    /\ clock = 0

Next ==
    \/ \E o \in OrderIds, received \in BOOLEAN, receipt, shipment \in Maybe(Days),
          new \in SUBSET KitIds, requested \in KitStatus :
          create_order(o, received, receipt, shipment, new, requested)
    \/ \E o \in OrderIds, new \in SUBSET KitIds \ {{}}, requested \in KitStatus :
          add_kits(o, new, requested)
    \/ \E o \in OrderIds, date \in Maybe(Days) :
          receive_order(o, date) \/ mark_order_shipped(o, date)
    \/ \E o \in OrderIds, date \in Days : correct_receipt(o, date) \/ correct_ship(o, date)
    \/ \E k \in KitIds, status \in KitStatus,
          started, completed \in Maybe(BuildDays) \cup {Unset} :
          update_kit(k, status, started, completed)

Spec == Init /\ [][Next]_vars

-----------------------------------------------------------------------------
(* Properties.                                                             *)

\* A kit whose last move was its order's receipt is in the backlog and carries
\* the receipt's date, through every later correction of either date.
ReceiptOwnsItsKits ==
    \A k \in KitIds :
        kits[k] # None /\ history[k].mover = "receipt" =>
            /\ kits[k].status = "backlog"
            /\ kits[k].since = orders[kits[k].order].received

\* A kit is never behind its order unless a hand put it there: on a received
\* order nothing is still on its way, and on one in transit nothing is still
\* only ordered, however entry, shipment, receipt and edits were ordered.
KitsKeepUp ==
    \A k \in KitIds :
        kits[k] # None =>
            LET stage == order_stage(kits[k].order)
            IN  /\ stage = "received" /\ kits[k].status \in ARRIVAL_ELIGIBLE
                       => history[k].touched
                /\ stage = "in_transit" /\ kits[k].status \in SHIP_ELIGIBLE
                       => history[k].mover = "hand"

\* The server's clock never replaces a build date: one that is set, by the user
\* or by an earlier pass through the stage, changes only to a date that was
\* asked for, or is cleared.
BuildDatesKept ==
    [][\A k \in KitIds :
          kits[k] # None =>
              /\ kits[k].started # None =>
                     kits'[k].started \in Maybe(BuildDays) \cup {kits[k].started}
              /\ kits[k].completed # None =>
                     kits'[k].completed \in Maybe(BuildDays) \cup {kits[k].completed}]_kits

\* A status clock that changes while the status stays is a corrected date, and
\* one that changes with a corrected ship date is not the receipt's.
ShipCorrectionSparesReceipt ==
    [][\A k \in KitIds :
          /\ kits[k] # None
          /\ orders'[kits[k].order].received = orders[kits[k].order].received
          /\ history[k].mover = "receipt"
          /\ kits'[k].status = kits[k].status
          => kits'[k].since = kits[k].since]_kits

\* What the comment on _restamp_receipt_kits says: a corrected receipt re-dates
\* exactly the kits whose last transition was that receipt.
CorrectionFollowsReceipt ==
    [][\A k \in KitIds :
          /\ kits[k] # None
          /\ orders'[kits[k].order].received # orders[kits[k].order].received
          /\ orders[kits[k].order].received # None
          /\ kits'[k].since # kits[k].since
          => history[k].mover = "receipt"]_kits

\* What is true of it: a corrected receipt takes along every kit that the receipt
\* moved last, and where the server's clock had dated the receipt, no other kit
\* (an instant of the clock is given out once, a day may be supplied again).
CorrectionTakesReceiptAlong ==
    [][\A k \in KitIds :
          LET old == orders[kits[k].order].received
              new == orders'[kits[k].order].received
          IN  kits[k] # None /\ old # None /\ new # old =>
                  /\ history[k].mover = "receipt" => kits'[k].since = new
                  /\ old \notin Days /\ kits'[k].since # kits[k].since =>
                         history[k].mover = "receipt"]_<<orders, kits>>

\* No date a person gave is replaced by the server's clock, nor the receipt's by
\* what a correction says of the shipment (services/kits.py, services/orders.py).
DatesKept == BuildDatesKept /\ ShipCorrectionSparesReceipt

=============================================================================
