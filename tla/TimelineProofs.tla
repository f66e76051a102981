--------------------------- MODULE TimelineProofs ---------------------------
(* Theorems about what MCTimeline checks side by side, for every value of   *)
(* the constants: Timeline, PriceSnapshot and Tab.                          *)
EXTENDS Timeline, PriceSnapshot, Tab, TLAPS

-----------------------------------------------------------------------------
(* Timeline: the dates of orders and kits.                                  *)

(* The inductive invariant.  That a receipt owns its kits is inductive only *)
(* beside the fact that a stored kit has a stored order, with a history: a  *)
(* new order would otherwise adopt kits it never spawned.                   *)

\* Every kit has its order and its history.
Rooted ==
    \A k \in KitIds :
        kits[k] # None => orders[kits[k].order] # None /\ history[k] # None

IInv == TypeOK /\ Rooted /\ ReceiptOwnsItsKits /\ KitsKeepUp

-----------------------------------------------------------------------------
(* What the parts of the actions do.                                       *)

\* Every instant a service stamps is one of Instants.
LEMMA StampType ==
    ASSUME TypeOK, Tick
    PROVE  /\ clock' \in 0..MaxClock
           /\ Now \in Instants
           /\ RowNow \in Instants
           /\ \A date \in Maybe(Days) : Supplied(date) \in Instants
  BY DaysAssumption DEF TypeOK, Tick, Now, RowNow, Supplied, Instants, Maybe

\* A spawned kit starts where its order is, with the clock of whoever put it
\* there, and no other kit changes.
LEMMA SpawnFacts ==
    ASSUME TypeOK, Tick,
           NEW o \in OrderIds, NEW new \in SUBSET KitIds, NEW requested \in KitStatus,
           NEW order \in Order, SpawnKits(o, new, requested, order)
    PROVE  /\ kits' \in [KitIds -> Maybe(Kit)]
           /\ history' \in [KitIds -> Maybe(History)]
           /\ \A k \in KitIds \ new : kits'[k] = kits[k] /\ history'[k] = history[k]
           /\ \A k \in new :
                 /\ kits'[k] # None /\ history'[k] # None
                 /\ kits'[k].order = o
                 /\ history'[k].mover = "receipt" =>
                       kits'[k].status = "backlog" /\ kits'[k].since = order.received
                 /\ order.received # None => kits'[k].status \notin ARRIVAL_ELIGIBLE
                 /\ order.shipped # None => kits'[k].status \notin SHIP_ELIGIBLE
  <1> DEFINE status == initial_kit_status(requested, order)
             kit == [order |-> o, status |-> status, since |-> OwnStamp(status, order),
                     started |-> None, completed |-> None]
             past == [mover |-> OwnMover(status, order), touched |-> FALSE]
  <1>1. /\ status \in KitStatus
        /\ order.received # None => status \notin ARRIVAL_ELIGIBLE
        /\ order.shipped # None => status \notin SHIP_ELIGIBLE
    BY DEF initial_kit_status, KitStatus, ARRIVAL_ELIGIBLE, SHIP_ELIGIBLE
  <1> HIDE DEF status
  <1>2. OwnStamp(status, order) \in Instants
    <2>1. RowNow \in Instants
      BY StampType
    <2>2. order.received \in Maybe(Instants) /\ order.shipped \in Maybe(Instants)
      BY DEF Order
    <2>3. CASE status = "backlog" /\ order.received # None
      BY <2>2, <2>3 DEF OwnStamp, Maybe
    <2>4. CASE status = "in_transit" /\ order.shipped # None
      BY <2>2, <2>4 DEF OwnStamp, Maybe
    <2>5. CASE ~(status = "backlog" /\ order.received # None)
               /\ ~(status = "in_transit" /\ order.shipped # None)
      BY <2>1, <2>5 DEF OwnStamp
    <2> QED
      BY <2>3, <2>4, <2>5
  <1>3. /\ OwnMover(status, order) \in {"entry", "ship", "receipt"}
        /\ OwnMover(status, order) = "receipt" =>
              status = "backlog" /\ OwnStamp(status, order) = order.received
    <2>1. CASE status = "backlog" /\ order.received # None
      BY <2>1 DEF OwnMover, OwnStamp
    <2>2. CASE status = "in_transit" /\ order.shipped # None
      BY <2>2 DEF OwnMover
    <2>3. CASE ~(status = "backlog" /\ order.received # None)
               /\ ~(status = "in_transit" /\ order.shipped # None)
      BY <2>3 DEF OwnMover
    <2> QED
      BY <2>1, <2>2, <2>3
  <1>4. kit \in Kit /\ past \in History
    BY <1>1, <1>2, <1>3 DEF Kit, History, Maybe
  <1>5. /\ kits' = [k \in KitIds |-> IF k \in new THEN kit ELSE kits[k]]
        /\ history' = [k \in KitIds |-> IF k \in new THEN past ELSE history[k]]
    BY DEF SpawnKits, status
  <1>6. kit # None /\ past # None
    BY <1>4, AbsentAssumption
  <1>7. /\ kit.order = o /\ kit.status = status /\ kit.since = OwnStamp(status, order)
        /\ past.mover = OwnMover(status, order)
    OBVIOUS
  <1> HIDE DEF kit, past
  <1> QED
    BY <1>1, <1>3, <1>4, <1>5, <1>6, <1>7 DEF TypeOK, Maybe

\* What Advance makes of the kits it moves, and of the others.
Stored(moved) == \A k \in moved : k \in KitIds /\ kits[k] # None

Advanced(moved, status, at, mover) ==
    /\ kits' \in [KitIds -> Maybe(Kit)]
    /\ history' \in [KitIds -> Maybe(History)]
    /\ \A k \in KitIds \ moved : kits'[k] = kits[k] /\ history'[k] = history[k]
    /\ \A k \in moved :
          /\ kits'[k] # None /\ history'[k] # None
          /\ kits'[k].order = kits[k].order
          /\ kits'[k].status = status /\ kits'[k].since = at
          /\ history'[k].mover = mover

\* The kits a shipment or a receipt moves take its stage and its stamp.
LEMMA AdvanceFacts ==
    ASSUME IInv, NEW moved, NEW status \in KitStatus, NEW at \in Instants,
           NEW mover \in {"ship", "receipt"},
           Stored(moved), Advance(moved, status, at, mover)
    PROVE  Advanced(moved, status, at, mover)
  <1>0. \A k \in moved : k \in KitIds /\ kits[k] # None
    BY DEF Stored
  <1>1. ASSUME NEW k \in moved
        PROVE  /\ kits[k] \in Kit
               /\ [kits[k] EXCEPT !.status = status, !.since = at] \in Kit
               /\ history[k] \in History
               /\ [mover |-> mover, touched |-> mover = "ship" /\ history[k].touched] \in History
    <2>1. kits[k] \in Kit /\ history[k] \in History
      BY <1>0, <1>1 DEF IInv, TypeOK, Rooted, Maybe
    <2>2. [kits[k] EXCEPT !.status = status, !.since = at] \in Kit
      BY <2>1 DEF Kit
    <2>3. history[k].touched \in BOOLEAN
      BY <2>1 DEF History
    <2>4. (mover = "ship" /\ history[k].touched) \in BOOLEAN
      OBVIOUS
    <2>5. [mover |-> mover, touched |-> mover = "ship" /\ history[k].touched] \in History
      BY <2>4 DEF History
    <2> QED
      BY <2>1, <2>2, <2>5
  <1>2. /\ kits' \in [KitIds -> Maybe(Kit)]
        /\ \A k \in KitIds \ moved : kits'[k] = kits[k]
        /\ \A k \in moved : kits'[k] = [kits[k] EXCEPT !.status = status, !.since = at]
    BY <1>0, <1>1 DEF Advance, IInv, TypeOK, Maybe
  <1>3. /\ history' \in [KitIds -> Maybe(History)]
        /\ \A k \in KitIds \ moved : history'[k] = history[k]
        /\ \A k \in moved : history'[k] =
              [mover |-> mover, touched |-> mover = "ship" /\ history[k].touched]
    BY <1>0, <1>1 DEF Advance, IInv, TypeOK, Maybe
  <1>4. ASSUME NEW k \in moved PROVE kits'[k] # None /\ history'[k] # None
    <2>1. kits'[k] \in Kit
      BY <1>1, <1>2, <1>4
    <2>2. history'[k] \in History
      BY <1>1, <1>3, <1>4
    <2> QED
      BY <2>1, <2>2, AbsentAssumption
  <1>5. ASSUME NEW k \in moved
        PROVE  /\ kits'[k].order = kits[k].order
               /\ kits'[k].status = status /\ kits'[k].since = at
    BY <1>1, <1>2, <1>5 DEF Kit
  <1>6. ASSUME NEW k \in moved PROVE history'[k].mover = mover
    <2> DEFINE hand == mover = "ship" /\ history[k].touched
    <2>1. history'[k] = [mover |-> mover, touched |-> hand]
      BY <1>3, <1>6
    <2> HIDE DEF hand
    <2> QED
      BY <2>1
  <1> QED
    BY <1>2, <1>3, <1>4, <1>5, <1>6 DEF Advanced

\* KitsKeepUp, with the stage of an order spelled out by its dates.
KeptUp(k) ==
    LET order == orders[kits[k].order]
    IN  /\ order.received # None /\ kits[k].status \in ARRIVAL_ELIGIBLE => history[k].touched
        /\ order.received = None /\ order.shipped # None /\ kits[k].status \in SHIP_ELIGIBLE
              => history[k].mover = "hand"

LEMMA StageFacts ==
    \A o : /\ order_stage(o) = "received" <=> orders[o].received # None
           /\ order_stage(o) = "in_transit" <=>
                 orders[o].received = None /\ orders[o].shipped # None
  <1> TAKE o
  <1>1. CASE orders[o].received # None
    BY <1>1 DEF order_stage
  <1>2. CASE orders[o].received = None /\ orders[o].shipped # None
    BY <1>2 DEF order_stage
  <1>3. CASE orders[o].received = None /\ orders[o].shipped = None
    BY <1>3 DEF order_stage
  <1> QED
    BY <1>1, <1>2, <1>3

LEMMA StageFactsNext ==
    \A o : /\ order_stage(o)' = "received" <=> orders'[o].received # None
           /\ order_stage(o)' = "in_transit" <=>
                 orders'[o].received = None /\ orders'[o].shipped # None
  <1> TAKE o
  <1>1. CASE orders'[o].received # None
    BY <1>1 DEF order_stage
  <1>2. CASE orders'[o].received = None /\ orders'[o].shipped # None
    BY <1>2 DEF order_stage
  <1>3. CASE orders'[o].received = None /\ orders'[o].shipped = None
    BY <1>3 DEF order_stage
  <1> QED
    BY <1>1, <1>2, <1>3

LEMMA KeptUpFacts ==
    /\ KitsKeepUp <=> \A k \in KitIds : kits[k] # None => KeptUp(k)
    /\ KitsKeepUp' <=> \A k \in KitIds : kits'[k] # None => KeptUp(k)'
  BY StageFacts, StageFactsNext DEF KitsKeepUp, KeptUp

\* What is left to show of a kit after a step.
Sound(k) ==
    kits[k] # None =>
        /\ orders[kits[k].order] # None /\ history[k] # None
        /\ history[k].mover = "receipt" =>
              kits[k].status = "backlog" /\ kits[k].since = orders[kits[k].order].received
        /\ KeptUp(k)

LEMMA SoundFacts ==
    /\ IInv <=> TypeOK /\ \A k \in KitIds : Sound(k)
    /\ IInv' <=> TypeOK' /\ \A k \in KitIds : Sound(k)'
  BY KeptUpFacts DEF IInv, Sound, Rooted, ReceiptOwnsItsKits

-----------------------------------------------------------------------------

LEMMA InitIInv == Init => IInv
  <1> SUFFICES ASSUME Init PROVE IInv
    OBVIOUS
  <1>1. TypeOK
    BY DaysAssumption DEF Init, TypeOK, Maybe
  <1>2. \A k \in KitIds : kits[k] = None
    BY DEF Init
  <1> QED
    BY <1>1, <1>2, SoundFacts DEF Sound

LEMMA CreateOrderIInv ==
    ASSUME IInv,
           NEW o \in OrderIds, NEW received \in BOOLEAN,
           NEW receipt \in Maybe(Days), NEW shipment \in Maybe(Days),
           NEW new \in SUBSET KitIds, NEW requested \in KitStatus,
           create_order(o, received, receipt, shipment, new, requested)
    PROVE  IInv'
  <1> DEFINE order == [received |-> IF received THEN Supplied(receipt) ELSE None,
                       shipped |-> shipment]
  <1>1. /\ orders[o] = None
        /\ orders' = [orders EXCEPT ![o] = order]
        /\ SpawnKits(o, new, requested, order)
        /\ Tick
    BY DEF create_order
  <1>2. order \in Order
    BY <1>1, StampType DEF IInv, Order, Maybe, Instants
  <1> HIDE DEF order
  <1>3. order # None
    BY <1>2, AbsentAssumption
  <1>4. TypeOK'
    BY <1>1, <1>2, StampType, SpawnFacts DEF IInv, TypeOK, Maybe
  <1>5. ASSUME NEW k \in KitIds PROVE Sound(k)'
    <2>1. CASE k \in new
      <3>1. orders'[o] = order
        BY <1>1 DEF IInv, TypeOK
      <3> QED
        BY <1>1, <1>2, <1>3, <2>1, <3>1, SpawnFacts DEF IInv, Sound, KeptUp
    <2>2. CASE k \notin new
      <3>1. kits'[k] = kits[k] /\ history'[k] = history[k]
        BY <1>1, <1>2, <2>2, SpawnFacts DEF IInv
      <3>2. kits[k] # None => kits[k].order # o /\ orders'[kits[k].order] = orders[kits[k].order]
        BY <1>1 DEF IInv, Rooted, TypeOK
      <3>3. Sound(k)
        BY SoundFacts
      <3> QED
        BY <3>1, <3>2, <3>3 DEF Sound, KeptUp
    <2> QED
      BY <2>1, <2>2
  <1> QED
    BY <1>4, <1>5, SoundFacts

LEMMA AddKitsIInv ==
    ASSUME IInv, NEW o \in OrderIds, NEW new \in SUBSET KitIds, NEW requested \in KitStatus,
           add_kits(o, new, requested)
    PROVE  IInv'
  <1>1. /\ orders[o] # None
        /\ SpawnKits(o, new, requested, orders[o])
        /\ Tick
        /\ orders' = orders
    BY DEF add_kits
  <1> DEFINE order == orders[o]
  <1>2. order \in Order /\ order # None /\ orders'[o] = order
    BY <1>1 DEF IInv, TypeOK, Maybe
  <1>0. SpawnKits(o, new, requested, order)
    BY <1>1
  <1> HIDE DEF order
  <1>3. TypeOK'
    BY <1>0, <1>1, <1>2, StampType, SpawnFacts DEF IInv, TypeOK
  <1>4. ASSUME NEW k \in KitIds PROVE Sound(k)'
    <2>1. CASE k \in new
      BY <1>0, <1>1, <1>2, <2>1, SpawnFacts DEF IInv, Sound, KeptUp
    <2>2. CASE k \notin new
      <3>1. kits'[k] = kits[k] /\ history'[k] = history[k]
        <4>1. TypeOK /\ Tick
          BY <1>1 DEF IInv
        <4> QED
          BY <1>0, <1>2, <2>2, <4>1, SpawnFacts
      <3> QED
        BY <1>1, <3>1, SoundFacts DEF Sound, KeptUp
    <2> QED
      BY <2>1, <2>2
  <1> QED
    BY <1>3, <1>4, SoundFacts

LEMMA ReceiveOrderIInv ==
    ASSUME IInv, NEW o \in OrderIds, NEW date \in Maybe(Days), receive_order(o, date)
    PROVE  IInv'
  <1>m. PICK moved : moved = {k \in KitsOf(o) : kits[k].status \in ARRIVAL_ELIGIBLE}
    OBVIOUS
  <1>a. PICK at : at = Supplied(date)
    OBVIOUS
  <1>1. /\ orders[o] # None /\ orders[o].received = None
        /\ orders' = [orders EXCEPT ![o].received = at]
        /\ Advance(moved, "backlog", at, "receipt")
        /\ Tick
    BY <1>m, <1>a DEF receive_order
  <1>2. (\A k \in moved : k \in KitIds /\ kits[k] # None) /\ at \in Instants
    BY <1>1, <1>m, <1>a, StampType DEF KitsOf, IInv
  <1>0. /\ kits' \in [KitIds -> Maybe(Kit)]
        /\ history' \in [KitIds -> Maybe(History)]
        /\ \A k \in KitIds \ moved : kits'[k] = kits[k] /\ history'[k] = history[k]
        /\ \A k \in moved :
              /\ kits'[k] # None /\ history'[k] # None
              /\ kits'[k].order = kits[k].order
              /\ kits'[k].status = "backlog" /\ kits'[k].since = at
    <2>1. PICK status \in KitStatus : status = "backlog"
      BY DEF KitStatus
    <2>2. PICK mover \in {"ship", "receipt"} : mover = "receipt"
      OBVIOUS
    <2>3. Advance(moved, status, at, mover)
      BY <1>1, <2>1, <2>2
    <2>4. Stored(moved) /\ at \in Instants
      BY <1>2 DEF Stored
    <2>5. Advanced(moved, status, at, mover)
      BY <2>3, <2>4, AdvanceFacts
    <2> QED
      BY <2>1, <2>5 DEF Advanced
  <1>3. orders[o] \in Order /\ None \notin Instants
    BY <1>1, NoneAssumption, DaysAssumption DEF IInv, TypeOK, Maybe, Instants
  <1>4. /\ orders'[o] = [orders[o] EXCEPT !.received = at]
        /\ orders'[o] \in Order /\ orders'[o] # None
        /\ orders'[o].received = at
        /\ \A p \in OrderIds \ {o} : orders'[p] = orders[p]
    BY <1>1, <1>2, <1>3, AbsentAssumption DEF IInv, TypeOK, Order, Maybe
  <1>5. TypeOK'
    <2>1. orders' \in [OrderIds -> Maybe(Order)]
      BY <1>1, <1>4 DEF IInv, TypeOK, Maybe
    <2> QED
      BY <1>0, <1>1, <2>1, StampType DEF IInv, TypeOK
  <1>6. ASSUME NEW k \in KitIds PROVE Sound(k)'
    <2>1. CASE k \in moved
      <3>1. /\ kits'[k].order = o /\ kits'[k].status = "backlog" /\ kits'[k].since = at
            /\ kits'[k] # None /\ history'[k] # None
        BY <1>0, <1>m, <2>1 DEF KitsOf
      <3> QED
        BY <1>2, <1>3, <1>4, <3>1 DEF Sound, KeptUp, ARRIVAL_ELIGIBLE, SHIP_ELIGIBLE
    <2>2. CASE k \notin moved
      <3>1. kits'[k] = kits[k] /\ history'[k] = history[k]
        BY <1>0, <2>2
      <3>2. Sound(k)
        BY SoundFacts
      <3>3. CASE kits[k] # None /\ kits[k].order = o
        <4>1. kits[k].status \notin ARRIVAL_ELIGIBLE /\ kits[k].since \in Instants
          BY <1>m, <2>2, <3>3 DEF KitsOf, IInv, TypeOK, Maybe, Kit
        <4>2. history[k].mover # "receipt"
          BY <1>1, <1>3, <3>2, <3>3, <4>1 DEF Sound
        <4> QED
          BY <1>2, <1>3, <1>4, <3>1, <3>2, <3>3, <4>1, <4>2 DEF Sound, KeptUp
      <3>4. CASE kits[k] # None /\ kits[k].order # o
        <4>1. kits[k].order \in OrderIds
          BY <3>4 DEF IInv, TypeOK, Maybe, Kit
        <4> QED
          BY <1>4, <3>1, <3>2, <3>4, <4>1 DEF Sound, KeptUp
      <3> QED
        BY <3>1, <3>3, <3>4 DEF Sound
    <2> QED
      BY <2>1, <2>2
  <1> QED
    BY <1>5, <1>6, SoundFacts

LEMMA MarkOrderShippedIInv ==
    ASSUME IInv, NEW o \in OrderIds, NEW date \in Maybe(Days), mark_order_shipped(o, date)
    PROVE  IInv'
  <1>m. PICK moved : moved = {k \in KitsOf(o) : kits[k].status \in SHIP_ELIGIBLE}
    OBVIOUS
  <1>a. PICK at : at = Supplied(date)
    OBVIOUS
  <1>1. /\ orders[o] # None /\ orders[o].shipped = None
        /\ orders' = [orders EXCEPT ![o].shipped = at]
        /\ Advance(moved, "in_transit", at, "ship")
        /\ Tick
    BY <1>m, <1>a DEF mark_order_shipped
  <1>2. (\A k \in moved : k \in KitIds /\ kits[k] # None) /\ at \in Instants
    BY <1>1, <1>m, <1>a, StampType DEF KitsOf, IInv
  <1>0. PICK mover \in {"ship", "receipt"} : mover = "ship"
    OBVIOUS
  <1>s. PICK status \in KitStatus : status = "in_transit"
    BY DEF KitStatus
  <1>f. /\ kits' \in [KitIds -> Maybe(Kit)]
        /\ history' \in [KitIds -> Maybe(History)]
        /\ \A k \in KitIds \ moved : kits'[k] = kits[k] /\ history'[k] = history[k]
        /\ \A k \in moved :
              /\ kits'[k] # None /\ history'[k] # None
              /\ kits'[k].order = kits[k].order
              /\ kits'[k].status = status /\ kits'[k].since = at
              /\ history'[k].mover = mover
    <2>1. Advance(moved, status, at, mover)
      BY <1>1, <1>0, <1>s
    <2>2. Stored(moved) /\ at \in Instants
      BY <1>2 DEF Stored
    <2>3. Advanced(moved, status, at, mover)
      BY <2>1, <2>2, AdvanceFacts
    <2> QED
      BY <2>3 DEF Advanced
  <1>3. orders[o] \in Order
    BY <1>1 DEF IInv, TypeOK, Maybe
  <1>4. /\ orders'[o] = [orders[o] EXCEPT !.shipped = at]
        /\ orders'[o] \in Order /\ orders'[o] # None
        /\ orders'[o].received = orders[o].received
        /\ \A p \in OrderIds \ {o} : orders'[p] = orders[p]
    BY <1>1, <1>2, <1>3, AbsentAssumption DEF IInv, TypeOK, Order, Maybe
  <1>5. TypeOK'
    <2>1. orders' \in [OrderIds -> Maybe(Order)]
      BY <1>1, <1>4 DEF IInv, TypeOK, Maybe
    <2> QED
      BY <1>f, <1>1, <2>1, StampType DEF IInv, TypeOK
  <1>6. ASSUME NEW k \in KitIds PROVE Sound(k)'
    <2>0. Sound(k)
      BY SoundFacts
    <2>1. CASE k \in moved
      <3>1. /\ kits'[k].order = o /\ kits'[k].status = "in_transit"
            /\ kits'[k] # None /\ history'[k] # None /\ history'[k].mover = "ship"
        BY <1>0, <1>s, <1>f, <1>m, <2>1 DEF KitsOf
      <3>2. /\ kits[k] # None /\ kits[k].order = o
            /\ kits[k].status \in SHIP_ELIGIBLE /\ kits[k].status \in ARRIVAL_ELIGIBLE
        BY <1>m, <2>1 DEF KitsOf, SHIP_ELIGIBLE, ARRIVAL_ELIGIBLE
      <3>3. orders[o].received # None => history'[k].touched
        <4>1. orders[o].received # None => history[k].touched
          BY <2>0, <3>2 DEF Sound, KeptUp
        <4> DEFINE touched == "ship" = "ship" /\ history[k].touched
        <4>3. k \in KitIds
          BY <1>2, <2>1
        <4>4. history'[k] = [mover |-> "ship", touched |-> touched]
          BY <1>1, <2>1, <4>3 DEF Advance
        <4> HIDE DEF touched
        <4>5. history'[k].touched = touched
          BY <4>4
        <4>6. history[k].touched => touched
          BY DEF touched
        <4>2. history[k].touched => history'[k].touched
          BY <4>5, <4>6
        <4> QED
          BY <4>1, <4>2
      <3> QED
        BY <1>4, <3>1, <3>3 DEF Sound, KeptUp, SHIP_ELIGIBLE
    <2>2. CASE k \notin moved
      <3>1. kits'[k] = kits[k] /\ history'[k] = history[k]
        BY <1>f, <2>2
      <3>3. CASE kits[k] # None /\ kits[k].order = o
        <4>1. kits[k].status \notin SHIP_ELIGIBLE
          BY <1>m, <2>2, <3>3 DEF KitsOf
        <4> QED
          BY ZenonT(60), <1>4, <2>0, <3>1, <3>3, <4>1 DEF Sound, KeptUp
      <3>4. CASE kits[k] # None /\ kits[k].order # o
        <4>1. kits[k].order \in OrderIds
          BY <3>4 DEF IInv, TypeOK, Maybe, Kit
        <4> QED
          BY <1>4, <2>0, <3>1, <3>4, <4>1 DEF Sound, KeptUp
      <3> QED
        BY <3>1, <3>3, <3>4 DEF Sound
    <2> QED
      BY <2>1, <2>2
  <1> QED
    BY <1>5, <1>6, SoundFacts

\* A corrected date moves clocks, never statuses.
LEMMA RestampFacts ==
    ASSUME IInv, NEW o \in OrderIds, NEW old, NEW new \in Instants, NEW statuses,
           Restamp(o, old, new, statuses)
    PROVE  /\ kits' \in [KitIds -> Maybe(Kit)]
           /\ \A k \in KitIds :
                 /\ kits'[k] # None <=> kits[k] # None
                 /\ kits[k] # None =>
                       /\ kits'[k].order = kits[k].order
                       /\ kits'[k].status = kits[k].status
                       /\ kits'[k].since =
                             IF kits[k].order = o /\ kits[k].status \in statuses
                                /\ kits[k].since = old
                             THEN new ELSE kits[k].since
  <1> DEFINE hit(k) == k \in KitsOf(o) /\ kits[k].status \in statuses /\ kits[k].since = old
  <1>1. kits' = [k \in KitIds |-> IF hit(k) THEN [kits[k] EXCEPT !.since = new] ELSE kits[k]]
    BY DEF Restamp
  <1>2. ASSUME NEW k \in KitIds, hit(k)
        PROVE  /\ kits[k] \in Kit /\ [kits[k] EXCEPT !.since = new] \in Kit
               /\ kits[k] # None /\ [kits[k] EXCEPT !.since = new] # None
    <2>1. kits[k] \in Kit
      BY <1>2 DEF KitsOf, IInv, TypeOK, Maybe
    <2>2. [kits[k] EXCEPT !.since = new] \in Kit
      BY <2>1 DEF Kit
    <2> QED
      BY <2>1, <2>2, AbsentAssumption
  <1>3. kits' \in [KitIds -> Maybe(Kit)]
    BY <1>1, <1>2 DEF IInv, TypeOK, Maybe
  <1>4. ASSUME NEW k \in KitIds
        PROVE  /\ kits'[k] # None <=> kits[k] # None
               /\ kits[k] # None =>
                     /\ kits'[k].order = kits[k].order
                     /\ kits'[k].status = kits[k].status
                     /\ kits'[k].since =
                           IF kits[k].order = o /\ kits[k].status \in statuses
                              /\ kits[k].since = old
                           THEN new ELSE kits[k].since
    <2>1. CASE hit(k)
      <3>1. kits'[k] = [kits[k] EXCEPT !.since = new]
        BY <1>1, <2>1
      <3> QED
        BY <1>2, <2>1, <3>1 DEF KitsOf, Kit
    <2>2. CASE ~hit(k)
      <3>1. kits'[k] = kits[k]
        BY <1>1, <2>2
      <3> QED
        BY <2>2, <3>1 DEF KitsOf
    <2> QED
      BY <2>1, <2>2
  <1> QED
    BY <1>3, <1>4

LEMMA CorrectionsIInv ==
    ASSUME IInv, NEW o \in OrderIds, NEW date \in Days,
           correct_receipt(o, date) \/ correct_ship(o, date)
    PROVE  IInv'
  <1>1. date \in Instants /\ date # None
    BY NoneAssumption, DaysAssumption DEF Instants
  <1>2. orders[o] # None /\ orders[o] \in Order
    BY DEF correct_receipt, correct_ship, IInv, TypeOK, Maybe
  <1>3. UNCHANGED <<history, clock>>
    BY DEF correct_receipt, correct_ship
  <1>4. CASE correct_receipt(o, date)
    <2>1. /\ orders[o].received # None
          /\ Restamp(o, orders[o].received, date, KitStatus)
          /\ orders' = [orders EXCEPT ![o].received = date]
      BY <1>4 DEF correct_receipt
    <2>2. /\ orders'[o] \in Order /\ orders'[o] # None
          /\ orders'[o].received = date
          /\ \A p \in OrderIds \ {o} : orders'[p] = orders[p]
          /\ orders' \in [OrderIds -> Maybe(Order)]
      BY <1>1, <1>2, <2>1, AbsentAssumption DEF IInv, TypeOK, Order, Maybe
    <2>3. TypeOK'
      BY <1>1, <1>3, <2>1, <2>2, RestampFacts DEF IInv, TypeOK
    <2>4. ASSUME NEW k \in KitIds PROVE Sound(k)'
      <3>1. /\ kits'[k] # None <=> kits[k] # None
            /\ kits[k] # None =>
                  /\ kits'[k].order = kits[k].order
                  /\ kits'[k].status = kits[k].status
                  /\ kits'[k].since =
                        IF kits[k].order = o /\ kits[k].status \in KitStatus
                           /\ kits[k].since = orders[o].received
                        THEN date ELSE kits[k].since
        BY <1>1, <2>1, RestampFacts
      <3>2. Sound(k)
        BY SoundFacts
      <3>3. kits[k] # None => kits[k].order \in OrderIds /\ kits[k].status \in KitStatus
        BY DEF IInv, TypeOK, Maybe, Kit
      <3> QED
        BY <1>1, <1>2, <1>3, <2>1, <2>2, <3>1, <3>2, <3>3 DEF Sound, KeptUp
    <2> QED
      BY <2>3, <2>4, SoundFacts
  <1>5. CASE correct_ship(o, date)
    <2> DEFINE statuses == {"in_transit"}
    <2>1. /\ orders[o].shipped # None
          /\ Restamp(o, orders[o].shipped, date, statuses)
          /\ orders' = [orders EXCEPT ![o].shipped = date]
      BY <1>5 DEF correct_ship
    <2> HIDE DEF statuses
    <2>2. /\ orders'[o] \in Order /\ orders'[o] # None
          /\ orders'[o].shipped = date
          /\ orders'[o].received = orders[o].received
          /\ \A p \in OrderIds \ {o} : orders'[p] = orders[p]
          /\ orders' \in [OrderIds -> Maybe(Order)]
      BY <1>1, <1>2, <2>1, AbsentAssumption DEF IInv, TypeOK, Order, Maybe
    <2>3. TypeOK'
      BY <1>1, <1>3, <2>1, <2>2, RestampFacts DEF IInv, TypeOK
    <2>4. ASSUME NEW k \in KitIds PROVE Sound(k)'
      <3>1. /\ kits'[k] # None <=> kits[k] # None
            /\ kits[k] # None =>
                  /\ kits'[k].order = kits[k].order
                  /\ kits'[k].status = kits[k].status
                  /\ kits'[k].since =
                        IF kits[k].order = o /\ kits[k].status \in statuses
                           /\ kits[k].since = orders[o].shipped
                        THEN date ELSE kits[k].since
        BY <1>1, <2>1, RestampFacts
      <3>2. Sound(k)
        BY SoundFacts
      <3>3. kits[k] # None => kits[k].order \in OrderIds
        BY DEF IInv, TypeOK, Maybe, Kit
      <3>4. "backlog" \notin statuses
        BY DEF statuses
      <3> QED
        BY <1>1, <1>2, <1>3, <2>1, <2>2, <3>1, <3>2, <3>3, <3>4 DEF Sound, KeptUp
    <2> QED
      BY <2>3, <2>4, SoundFacts
  <1> QED
    BY <1>4, <1>5

LEMMA UpdateKitIInv ==
    ASSUME IInv, NEW k \in KitIds, NEW status \in KitStatus,
           NEW started \in Maybe(BuildDays) \cup {Unset},
           NEW completed \in Maybe(BuildDays) \cup {Unset},
           update_kit(k, status, started, completed)
    PROVE  IInv'
  <1> DEFINE moved == status # kits[k].status
             kit == [order |-> kits[k].order, status |-> status,
                     since |-> IF moved THEN Now ELSE kits[k].since,
                     started |-> Stamped(kits[k].started, started, moved /\ status = "building"),
                     completed |-> Stamped(kits[k].completed, completed,
                                           moved /\ status = "complete")]
             hand == [mover |-> "hand", touched |-> TRUE]
  <1>1. /\ kits[k] # None
        /\ kits' = [kits EXCEPT ![k] = kit]
        /\ history' = IF moved THEN [history EXCEPT ![k] = hand] ELSE history
        /\ Tick
        /\ orders' = orders
    BY DEF update_kit, IInv, TypeOK
  <1>2. kits[k] \in Kit /\ Now \in Instants
    BY <1>1, StampType DEF IInv, TypeOK, Maybe
  <1>3. /\ Stamped(kits[k].started, started, moved /\ status = "building")
              \in Maybe(Instants \cup BuildDays)
        /\ Stamped(kits[k].completed, completed, moved /\ status = "complete")
              \in Maybe(Instants \cup BuildDays)
    BY <1>2 DEF Stamped, Kit, Maybe
  <1>4. kit \in Kit /\ kit # None
    <2>1. kit \in Kit
      BY <1>2, <1>3 DEF Kit
    <2> QED
      BY <2>1, AbsentAssumption
  <1>5. hand \in History /\ hand # None
    <2>1. hand \in History
      BY DEF History
    <2> QED
      BY <2>1, AbsentAssumption
  <1>6. TypeOK'
    BY <1>1, <1>4, <1>5, StampType DEF IInv, TypeOK, Maybe
  <1>7. ASSUME NEW j \in KitIds PROVE Sound(j)'
    <2>0. Sound(j)
      BY SoundFacts
    <2>1. CASE j # k
      BY <1>1, <2>0, <2>1 DEF Sound, KeptUp, IInv, TypeOK
    <2>2. CASE j = k /\ moved
      <3>1. kits'[j] = kit /\ history'[j] = hand
        BY <1>1, <2>2 DEF IInv, TypeOK
      <3> QED
        BY <1>1, <1>4, <1>5, <2>0, <2>2, <3>1 DEF Sound, KeptUp
    <2>3. CASE j = k /\ ~moved
      <3>1. kits'[j] = kit /\ history'[j] = history[j]
        BY <1>1, <2>3 DEF IInv, TypeOK
      <3>2. kit.order = kits[j].order /\ kit.status = kits[j].status /\ kit.since = kits[j].since
        BY <2>3
      <3> QED
        BY <1>1, <1>4, <2>0, <2>3, <3>1, <3>2 DEF Sound, KeptUp
    <2> QED
      BY <2>1, <2>2, <2>3
  <1> QED
    BY <1>6, <1>7, SoundFacts

LEMMA NextIInv == IInv /\ [Next]_vars => IInv'
  <1> SUFFICES ASSUME IInv, [Next]_vars PROVE IInv'
    OBVIOUS
  <1>1. CASE UNCHANGED vars
    BY <1>1 DEF vars, IInv, TypeOK, Rooted, ReceiptOwnsItsKits, KitsKeepUp, order_stage, KitsOf
  <1>2. CASE Next
    BY <1>2, CreateOrderIInv, AddKitsIInv, ReceiveOrderIInv, MarkOrderShippedIInv,
       CorrectionsIInv, UpdateKitIInv DEF Next
  <1> QED
    BY <1>1, <1>2

-----------------------------------------------------------------------------

\* A kit whose last move was its order's receipt is in the backlog and carries
\* the date of that receipt, corrected or not, for any number of orders and kits.
THEOREM ReceiptKeepsItsKits == Spec => []ReceiptOwnsItsKits
  <1>1. IInv => ReceiptOwnsItsKits
    BY DEF IInv
  <1> QED
    BY InitIInv, NextIInv, <1>1, PTL DEF Spec

\* No kit is behind its order unless a hand put it there.
THEOREM NoKitFallsBehind == Spec => []KitsKeepUp
  <1>1. IInv => KitsKeepUp
    BY DEF IInv
  <1> QED
    BY InitIInv, NextIInv, <1>1, PTL DEF Spec

\* One kit keeps the dates people gave: its build dates, and its clock when neither its
\* status nor its order's receipt changes and the receipt moved it last.
KeepsDates(k) ==
    /\ kits[k].started # None =>
           kits'[k].started \in Maybe(BuildDays) \cup {kits[k].started}
    /\ kits[k].completed # None =>
           kits'[k].completed \in Maybe(BuildDays) \cup {kits[k].completed}
    /\ /\ orders'[kits[k].order].received = orders[kits[k].order].received
       /\ history[k].mover = "receipt"
       /\ kits'[k].status = kits[k].status
       => kits'[k].since = kits[k].since

\* A kit that a step leaves alone, or whose status it moves without its build dates.
LEMMA UntouchedKeepsDates ==
    ASSUME NEW k, NEW kit \in Kit, NEW status, NEW at,
           kits[k] = kit,
           \/ kits'[k] = kit
           \/ kits'[k] = [kit EXCEPT !.status = status, !.since = at] /\ status # kit.status
    PROVE  KeepsDates(k)
  <1>1. CASE kits'[k] = kit
    BY <1>1 DEF KeepsDates
  <1>2. CASE kits'[k] = [kit EXCEPT !.status = status, !.since = at] /\ status # kit.status
    BY <1>2 DEF KeepsDates, Kit
  <1> QED
    BY <1>1, <1>2

\* Kits that are there do not change as others are spawned.
LEMMA SpawnKeepsDates ==
    ASSUME IInv, NEW k \in KitIds, kits[k] # None,
           NEW o, NEW new, NEW requested, NEW order, SpawnKits(o, new, requested, order)
    PROVE  KeepsDates(k)
  <1>1. kits[k] \in Kit
    BY DEF IInv, TypeOK, Maybe
  <1>2. k \notin new /\ kits'[k] = kits[k]
    BY DEF SpawnKits
  <1> QED
    BY <1>1, <1>2, UntouchedKeepsDates

\* A shipment and a receipt move only kits whose status they change.
LEMMA AdvanceKeepsDates ==
    ASSUME IInv, NEW k \in KitIds, kits[k] # None,
           NEW moved, NEW status, NEW at, NEW mover, Advance(moved, status, at, mover),
           k \in moved => kits[k].status # status
    PROVE  KeepsDates(k)
  <1>1. kits[k] \in Kit
    BY DEF IInv, TypeOK, Maybe
  <1>2. CASE k \in moved
    <2>1. kits'[k] = [kits[k] EXCEPT !.status = status, !.since = at]
      BY <1>2 DEF Advance
    <2> QED
      BY <1>1, <1>2, <2>1, UntouchedKeepsDates
  <1>3. CASE k \notin moved
    <2>1. kits'[k] = kits[k]
      BY <1>3 DEF Advance
    <2> QED
      BY <1>1, <2>1, UntouchedKeepsDates
  <1> QED
    BY <1>2, <1>3

\* A corrected receipt re-dates kits of its own order alone; a corrected shipment none
\* that is in the backlog, where the receipt's kits are.
LEMMA RestampKeepsDates ==
    ASSUME IInv, NEW k \in KitIds, kits[k] # None,
           NEW o, NEW old, NEW new, NEW statuses, Restamp(o, old, new, statuses),
           \/ orders'[o].received # orders[o].received
           \/ "backlog" \notin statuses
    PROVE  KeepsDates(k)
  <1> DEFINE hit == k \in KitsOf(o) /\ kits[k].status \in statuses /\ kits[k].since = old
  <1>1. kits[k] \in Kit
    BY DEF IInv, TypeOK, Maybe
  <1>2. CASE hit
    <2>1. kits'[k] = [kits[k] EXCEPT !.since = new]
      BY <1>2 DEF Restamp
    <2>2. kits'[k].started = kits[k].started /\ kits'[k].completed = kits[k].completed
      BY <1>1, <2>1 DEF Kit
    <2>3. kits[k].order = o /\ kits[k].status \in statuses
      BY <1>2 DEF KitsOf
    <2>4. history[k].mover = "receipt" => kits[k].status = "backlog"
      BY DEF IInv, ReceiptOwnsItsKits
    <2> QED
      BY <2>2, <2>3, <2>4 DEF KeepsDates
  <1>3. CASE ~hit
    <2>1. kits'[k] = kits[k]
      BY <1>3 DEF Restamp
    <2> QED
      BY <1>1, <2>1, UntouchedKeepsDates
  <1> QED
    BY <1>2, <1>3

\* An edit stamps a build date from the clock only where there is none, and the status
\* clock only with a new status.
LEMMA UpdateKeepsDates ==
    ASSUME IInv, NEW k \in KitIds, kits[k] # None,
           NEW j \in KitIds, NEW status,
           NEW started \in Maybe(BuildDays) \cup {Unset},
           NEW completed \in Maybe(BuildDays) \cup {Unset},
           update_kit(j, status, started, completed)
    PROVE  KeepsDates(k)
  <1> DEFINE moved == status # kits[j].status
             kit == [order |-> kits[j].order, status |-> status,
                     since |-> IF moved THEN Now ELSE kits[j].since,
                     started |-> Stamped(kits[j].started, started, moved /\ status = "building"),
                     completed |-> Stamped(kits[j].completed, completed,
                                           moved /\ status = "complete")]
  <1>1. kits[k] \in Kit
    BY DEF IInv, TypeOK, Maybe
  <1>2. kits' = [kits EXCEPT ![j] = kit]
    BY DEF update_kit, IInv, TypeOK
  <1>3. CASE k # j
    <2>1. kits'[k] = kits[k]
      BY <1>2, <1>3 DEF IInv, TypeOK
    <2> QED
      BY <1>1, <2>1, UntouchedKeepsDates
  <1>4. CASE k = j
    <2>1. kits'[k] = kit
      BY <1>2, <1>4 DEF IInv, TypeOK
    <2>2. ASSUME NEW field, field # None, NEW entered \in BOOLEAN,
                 NEW asked \in Maybe(BuildDays) \cup {Unset}
          PROVE  Stamped(field, asked, entered) \in Maybe(BuildDays) \cup {field}
      BY <2>2 DEF Stamped
    <2> DEFINE starts == moved /\ status = "building"
               completes == moved /\ status = "complete"
    <2>3. starts \in BOOLEAN /\ completes \in BOOLEAN
      OBVIOUS
    <2>4. /\ kits'[k].started = Stamped(kits[k].started, started, starts)
          /\ kits'[k].completed = Stamped(kits[k].completed, completed, completes)
      BY <1>4, <2>1
    <2> HIDE DEF starts, completes
    <2>6. /\ kits[k].started # None =>
                 kits'[k].started \in Maybe(BuildDays) \cup {kits[k].started}
          /\ kits[k].completed # None =>
                 kits'[k].completed \in Maybe(BuildDays) \cup {kits[k].completed}
      BY <2>2, <2>3, <2>4
    <2>5. kits'[k].status = kits[k].status => kits'[k].since = kits[k].since
      BY <1>4, <2>1
    <2> QED
      BY <2>5, <2>6 DEF KeepsDates
  <1> QED
    BY <1>3, <1>4

LEMMA StepKeepsDates ==
    ASSUME IInv, Next, NEW k \in KitIds, kits[k] # None
    PROVE  KeepsDates(k)
  <1>1. ASSUME NEW o \in OrderIds, NEW received \in BOOLEAN, NEW receipt, NEW shipment,
               NEW new, NEW requested,
               create_order(o, received, receipt, shipment, new, requested)
        PROVE  KeepsDates(k)
    <2> DEFINE order == [received |-> IF received THEN Supplied(receipt) ELSE None,
                         shipped |-> shipment]
    <2>1. SpawnKits(o, new, requested, order)
      BY <1>1 DEF create_order
    <2> HIDE DEF order
    <2> QED
      BY <2>1, SpawnKeepsDates
  <1>2. ASSUME NEW o \in OrderIds, NEW new, NEW requested, add_kits(o, new, requested)
        PROVE  KeepsDates(k)
    BY <1>2, SpawnKeepsDates DEF add_kits
  <1>3. ASSUME NEW o \in OrderIds, NEW date, receive_order(o, date)
        PROVE  KeepsDates(k)
    <2> DEFINE moved == {j \in KitsOf(o) : kits[j].status \in ARRIVAL_ELIGIBLE}
    <2>1. Advance(moved, "backlog", Supplied(date), "receipt")
      BY <1>3 DEF receive_order
    <2>2. k \in moved => kits[k].status # "backlog"
      BY DEF ARRIVAL_ELIGIBLE
    <2> HIDE DEF moved
    <2> QED
      BY <2>1, <2>2, AdvanceKeepsDates
  <1>4. ASSUME NEW o \in OrderIds, NEW date, mark_order_shipped(o, date)
        PROVE  KeepsDates(k)
    <2> DEFINE moved == {j \in KitsOf(o) : kits[j].status \in SHIP_ELIGIBLE}
    <2>1. Advance(moved, "in_transit", Supplied(date), "ship")
      BY <1>4 DEF mark_order_shipped
    <2>2. k \in moved => kits[k].status # "in_transit"
      BY DEF SHIP_ELIGIBLE
    <2> HIDE DEF moved
    <2> QED
      BY <2>1, <2>2, AdvanceKeepsDates
  <1>5. ASSUME NEW o \in OrderIds, NEW date, correct_receipt(o, date)
        PROVE  KeepsDates(k)
    <2>1. /\ orders[o] # None /\ orders[o].received # date
          /\ orders' = [orders EXCEPT ![o].received = date]
          /\ Restamp(o, orders[o].received, date, KitStatus)
      BY <1>5 DEF correct_receipt
    <2>2. orders[o] \in Order
      BY <2>1 DEF IInv, TypeOK, Maybe
    <2>3. orders'[o].received # orders[o].received
      BY <2>1, <2>2 DEF IInv, TypeOK, Order
    <2> QED
      BY <2>1, <2>3, RestampKeepsDates
  <1>6. ASSUME NEW o \in OrderIds, NEW date, correct_ship(o, date)
        PROVE  KeepsDates(k)
    <2> DEFINE statuses == {"in_transit"}
    <2>1. Restamp(o, orders[o].shipped, date, statuses)
      BY <1>6 DEF correct_ship
    <2>2. "backlog" \notin statuses
      OBVIOUS
    <2> HIDE DEF statuses
    <2> QED
      BY <2>1, <2>2, RestampKeepsDates
  <1> QED
    BY <1>1, <1>2, <1>3, <1>4, <1>5, <1>6, UpdateKeepsDates DEF Next

\* No date a person gave is replaced by the server's clock, nor the receipt's by a
\* corrected shipment, for any number of orders, kits and dates.
THEOREM DatesAreKept == Spec => DatesKept
  <1> DEFINE Builds == \A k \in KitIds :
                 kits[k] # None =>
                     /\ kits[k].started # None =>
                            kits'[k].started \in Maybe(BuildDays) \cup {kits[k].started}
                     /\ kits[k].completed # None =>
                            kits'[k].completed \in Maybe(BuildDays) \cup {kits[k].completed}
             Spares == \A k \in KitIds :
                 /\ kits[k] # None
                 /\ orders'[kits[k].order].received = orders[kits[k].order].received
                 /\ history[k].mover = "receipt"
                 /\ kits'[k].status = kits[k].status
                 => kits'[k].since = kits[k].since
  <1>1. IInv /\ [Next]_vars => [Builds]_kits /\ [Spares]_kits
    <2> SUFFICES ASSUME IInv, [Next]_vars, kits' # kits
                 PROVE  Builds /\ Spares
      OBVIOUS
    <2>1. Next
      BY DEF vars
    <2>2. \A k \in KitIds : kits[k] # None => KeepsDates(k)
      BY <2>1, StepKeepsDates
    <2> QED
      BY <2>2 DEF KeepsDates
  <1>2. Spec => []IInv /\ [][Next]_vars
    BY InitIInv, NextIInv, PTL DEF Spec
  <1>3. DatesKept <=> [][Builds]_kits /\ [][Spares]_kits
    BY DEF DatesKept, BuildDatesKept, ShipCorrectionSparesReceipt
  <1> QED
    BY <1>1, <1>2, <1>3, PTL

-----------------------------------------------------------------------------
(* Corrected receipts.  That a kit carries an instant of the clock only if  *)
(* whoever put it there was given that instant needs the fact that nothing  *)
(* is dated by an instant the clock has not given out yet.                  *)

\* The days people supply, and the instants that the clock has given out.
Given == Days \cup 1..clock

\* A kit's clock is one of them, and equals an instant of the clock that dates its
\* order's receipt only if the receipt put it there.
Dated(k) ==
    /\ kits[k].since \in Given
    /\ kits[k].since = orders[kits[k].order].received
       /\ orders[kits[k].order].received \notin Days
       => history[k].mover = "receipt"

\* Nothing is dated by an instant the clock has yet to give out.
InstantsGiven ==
    /\ \A o \in OrderIds :
           orders[o] # None => orders[o].received \in Maybe(Given) /\ orders[o].shipped \in Maybe(Given)
    /\ \A k \in KitIds : kits[k] # None => Dated(k)

\* Instants that a service stamps are new.
LEMMA StampsAreNew ==
    ASSUME TypeOK, Tick
    PROVE  /\ \A at \in Given : at \in Given' /\ at # Now /\ at # RowNow
           /\ Now \in Given' /\ RowNow \in Given' /\ Now # RowNow
           /\ Now # None /\ RowNow # None /\ None \notin Given
           /\ \A date \in Maybe(Days) : Supplied(date) \in Days \cup {Now}
  BY DaysAssumption, NoneAssumption DEF Given, TypeOK, Tick, Now, RowNow, Supplied, Maybe

\* A spawned kit has its order's receipt, its shipment or an instant of its own.
LEMMA SpawnDates ==
    ASSUME TypeOK, Tick,
           NEW o \in OrderIds, NEW new \in SUBSET KitIds, NEW requested \in KitStatus,
           NEW order \in Order, SpawnKits(o, new, requested, order),
           order.received \in Maybe(Given \cup {Now}), order.shipped \in Maybe(Given \cup {Now})
    PROVE  \A k \in new :
               /\ kits'[k].since \in Given'
               /\ kits'[k].since = order.received => history'[k].mover = "receipt"
  <1> DEFINE status == initial_kit_status(requested, order)
             past == [mover |-> OwnMover(status, order), touched |-> FALSE]
  <1>1. order.received # None => status # "in_transit"
    BY DEF initial_kit_status, ARRIVAL_ELIGIBLE, SHIP_ELIGIBLE
  <1>2. ASSUME NEW k \in new
        PROVE  kits'[k].since = OwnStamp(status, order)
               /\ history'[k].mover = OwnMover(status, order)
    <2>1. k \in KitIds
      OBVIOUS
    <2>2. kits'[k].since = OwnStamp(status, order)
      BY <1>2, <2>1 DEF SpawnKits, status
    <2>3. history'[k] = past
      BY <1>2, <2>1 DEF SpawnKits, status, past
    <2> QED
      BY <2>2, <2>3 DEF past
  <1> HIDE DEF status
  <1>3. CASE status = "backlog" /\ order.received # None
    <2>1. OwnStamp(status, order) = order.received /\ OwnMover(status, order) = "receipt"
      BY <1>3 DEF OwnStamp, OwnMover
    <2> QED
      BY <1>2, <1>3, <2>1, StampsAreNew DEF Maybe
  <1>4. CASE status = "in_transit" /\ order.shipped # None
    <2>1. OwnStamp(status, order) = order.shipped /\ order.received = None
      BY <1>1, <1>4 DEF OwnStamp
    <2> QED
      BY <1>2, <1>4, <2>1, StampsAreNew DEF Maybe
  <1>5. CASE ~(status = "backlog" /\ order.received # None)
             /\ ~(status = "in_transit" /\ order.shipped # None)
    <2>1. OwnStamp(status, order) = RowNow
      BY <1>5 DEF OwnStamp
    <2> QED
      BY <1>2, <2>1, StampsAreNew DEF Maybe
  <1> QED
    BY <1>3, <1>4, <1>5

LEMMA CreateGiven ==
    ASSUME IInv, IInv', InstantsGiven,
           NEW o \in OrderIds, NEW received \in BOOLEAN,
           NEW receipt \in Maybe(Days), NEW shipment \in Maybe(Days),
           NEW new \in SUBSET KitIds, NEW requested \in KitStatus,
           create_order(o, received, receipt, shipment, new, requested)
    PROVE  InstantsGiven'
  <1> DEFINE order == [received |-> IF received THEN Supplied(receipt) ELSE None,
                       shipped |-> shipment]
  <1>0. TypeOK
    BY DEF IInv
  <1>1. /\ orders[o] = None
        /\ orders' = [orders EXCEPT ![o] = order]
        /\ SpawnKits(o, new, requested, order)
        /\ Tick
    BY DEF create_order
  <1>2. order \in Order
    BY <1>0, <1>1, StampType DEF Order, Maybe, Instants
  <1>3. order.received \in Maybe(Given \cup {Now}) /\ order.shipped \in Maybe(Given \cup {Now})
    BY <1>0, <1>1, StampsAreNew DEF Maybe, Given
  <1> HIDE DEF order
  <1>4. orders'[o] = order /\ \A p \in OrderIds : p # o => orders'[p] = orders[p]
    BY <1>0, <1>1 DEF TypeOK
  <1>5. ASSUME NEW p \in OrderIds, orders'[p] # None
        PROVE  orders'[p].received \in Maybe(Given)' /\ orders'[p].shipped \in Maybe(Given)'
    BY <1>0, <1>1, <1>3, <1>4, <1>5, StampsAreNew DEF InstantsGiven, Maybe
  <1>6. ASSUME NEW k \in KitIds, kits'[k] # None PROVE Dated(k)'
    <2>1. CASE k \in new
      <3>1. kits'[k].order = o
        BY <1>1, <2>1 DEF SpawnKits
      <3> QED
        BY <1>0, <1>1, <1>2, <1>3, <1>4, <2>1, <3>1, SpawnDates DEF Dated
    <2>2. CASE k \notin new
      <3>1. kits'[k] = kits[k] /\ history'[k] = history[k]
        BY <1>0, <1>1, <1>2, <2>2, SpawnFacts
      <3>2. kits[k].order # o /\ kits[k].order \in OrderIds
        BY <1>0, <1>1, <1>6, <3>1 DEF IInv, Rooted, TypeOK, Maybe, Kit
      <3> QED
        BY <1>0, <1>1, <1>4, <1>6, <3>1, <3>2, StampsAreNew DEF InstantsGiven, Dated
    <2> QED
      BY <2>1, <2>2
  <1> QED
    BY <1>5, <1>6 DEF InstantsGiven

LEMMA AddGiven ==
    ASSUME IInv, IInv', InstantsGiven,
           NEW o \in OrderIds, NEW new \in SUBSET KitIds, NEW requested \in KitStatus,
           add_kits(o, new, requested)
    PROVE  InstantsGiven'
  <1>0. TypeOK
    BY DEF IInv
  <1>1. orders[o] # None /\ Tick /\ orders' = orders
    BY DEF add_kits
  <1> DEFINE order == orders[o]
  <1>2. order \in Order
    BY <1>0, <1>1 DEF TypeOK, Maybe
  <1>3. order.received \in Maybe(Given \cup {Now}) /\ order.shipped \in Maybe(Given \cup {Now})
    BY <1>1 DEF InstantsGiven, Maybe
  <1>4. SpawnKits(o, new, requested, order)
    BY DEF add_kits
  <1>7. orders'[o] = order
    BY <1>1
  <1> HIDE DEF order
  <1>5. ASSUME NEW p \in OrderIds, orders'[p] # None
        PROVE  orders'[p].received \in Maybe(Given)' /\ orders'[p].shipped \in Maybe(Given)'
    BY <1>0, <1>1, <1>5, StampsAreNew DEF InstantsGiven, Maybe
  <1>6. ASSUME NEW k \in KitIds, kits'[k] # None PROVE Dated(k)'
    <2>1. CASE k \in new
      <3>1. kits'[k].order = o
        BY <1>4, <2>1 DEF SpawnKits
      <3> QED
        BY <1>0, <1>1, <1>2, <1>3, <1>4, <1>7, <2>1, <3>1, SpawnDates DEF Dated
    <2>2. CASE k \notin new
      <3>1. kits'[k] = kits[k] /\ history'[k] = history[k]
        BY <1>0, <1>1, <1>2, <1>4, <2>2, SpawnFacts
      <3> QED
        BY <1>0, <1>1, <1>6, <3>1, StampsAreNew DEF InstantsGiven, Dated
    <2> QED
      BY <2>1, <2>2
  <1> QED
    BY <1>5, <1>6 DEF InstantsGiven

LEMMA AdvanceGiven ==
    ASSUME IInv, IInv', InstantsGiven, NEW o \in OrderIds, NEW date \in Maybe(Days),
           receive_order(o, date) \/ mark_order_shipped(o, date)
    PROVE  InstantsGiven'
  <1>m. PICK moved : moved = IF orders[o].received # orders'[o].received
                             THEN {k \in KitsOf(o) : kits[k].status \in ARRIVAL_ELIGIBLE}
                             ELSE {k \in KitsOf(o) : kits[k].status \in SHIP_ELIGIBLE}
    OBVIOUS
  <1>a. PICK at : at = Supplied(date)
    OBVIOUS
  <1>0. TypeOK /\ Tick /\ orders[o] \in Order /\ orders[o] # None
    BY DEF IInv, receive_order, mark_order_shipped, TypeOK, Maybe
  <1>1. at \in Days \cup {Now} /\ at \in Given' /\ at # None
    BY <1>0, <1>a, StampsAreNew, NoneAssumption, DaysAssumption DEF Given
  <1>2. \/ /\ orders[o].received = None
           /\ orders' = [orders EXCEPT ![o].received = at]
           /\ moved = {k \in KitsOf(o) : kits[k].status \in ARRIVAL_ELIGIBLE}
           /\ Advance(moved, "backlog", at, "receipt")
        \/ /\ orders[o].shipped = None
           /\ orders' = [orders EXCEPT ![o].shipped = at]
           /\ moved = {k \in KitsOf(o) : kits[k].status \in SHIP_ELIGIBLE}
           /\ Advance(moved, "in_transit", at, "ship")
    <2>1. CASE receive_order(o, date)
      <3>1. orders[o].received = None /\ orders' = [orders EXCEPT ![o].received = at]
        BY <1>a, <2>1 DEF receive_order
      <3>2. orders'[o].received = at
        BY <1>0, <3>1 DEF TypeOK, Order
      <3> QED
        BY <1>1, <1>m, <1>a, <2>1, <3>1, <3>2 DEF receive_order
    <2>2. CASE mark_order_shipped(o, date)
      <3>1. orders[o].shipped = None /\ orders' = [orders EXCEPT ![o].shipped = at]
        BY <1>a, <2>2 DEF mark_order_shipped
      <3>2. orders'[o].received = orders[o].received
        BY <1>0, <3>1 DEF TypeOK, Order
      <3> QED
        BY <1>1, <1>m, <1>a, <2>2, <3>1, <3>2 DEF mark_order_shipped
    <2> QED
      BY <2>1, <2>2
  <1>3. /\ \/ orders'[o].received = orders[o].received
           \/ orders[o].received = None /\ orders'[o].received = at
        /\ orders'[o].shipped \in {orders[o].shipped, at}
        /\ \A p \in OrderIds : p # o => orders'[p] = orders[p]
    <2>1. /\ [orders[o] EXCEPT !.received = at].received = at
          /\ [orders[o] EXCEPT !.received = at].shipped = orders[o].shipped
          /\ [orders[o] EXCEPT !.shipped = at].received = orders[o].received
          /\ [orders[o] EXCEPT !.shipped = at].shipped = at
      BY <1>0 DEF Order
    <2>2. /\ \/ orders'[o] = [orders[o] EXCEPT !.received = at] /\ orders[o].received = None
             \/ orders'[o] = [orders[o] EXCEPT !.shipped = at]
          /\ \A p \in OrderIds : p # o => orders'[p] = orders[p]
      BY <1>0, <1>2 DEF TypeOK
    <2>3. CASE orders'[o] = [orders[o] EXCEPT !.received = at] /\ orders[o].received = None
      BY <2>1, <2>2, <2>3
    <2>4. CASE orders'[o] = [orders[o] EXCEPT !.shipped = at]
      BY <2>1, <2>2, <2>4
    <2> QED
      BY <2>2, <2>3, <2>4
  <1>5. ASSUME NEW p \in OrderIds, orders'[p] # None
        PROVE  orders'[p].received \in Maybe(Given)' /\ orders'[p].shipped \in Maybe(Given)'
    BY <1>0, <1>1, <1>3, <1>5, StampsAreNew DEF InstantsGiven, Maybe
  <1>6. ASSUME NEW k \in KitIds, kits'[k] # None PROVE Dated(k)'
    <2>1. CASE k \in moved
      <3>1. k \in KitIds /\ kits[k] # None /\ kits[k].order = o /\ kits[k] \in Kit
        BY <1>0, <1>2, <2>1 DEF KitsOf, TypeOK, Maybe
      <3>2. kits'[k].since = at /\ kits'[k].order = o
        <4>1. PICK status, mover : Advance(moved, status, at, mover)
          BY <1>2
        <4>2. kits'[k] = [kits[k] EXCEPT !.status = status, !.since = at]
          BY <2>1, <3>1, <4>1 DEF Advance
        <4> QED
          BY <3>1, <4>2 DEF Kit
      <3>3. CASE Advance(moved, "backlog", at, "receipt")
        <4> DEFINE touched == "receipt" = "ship" /\ history[k].touched
        <4>1. history'[k] = [mover |-> "receipt", touched |-> touched]
          BY <2>1, <3>1, <3>3 DEF Advance
        <4> HIDE DEF touched
        <4>2. history'[k].mover = "receipt"
          BY <4>1
        <4> QED
          BY <1>1, <3>2, <4>2 DEF Dated
      <3>4. CASE /\ orders' = [orders EXCEPT ![o].shipped = at]
                 /\ moved = {j \in KitsOf(o) : kits[j].status \in SHIP_ELIGIBLE}
        <4>1. orders'[o].received = orders[o].received
          BY <1>0, <3>4 DEF TypeOK, Order
        <4>2. orders[o].received \in Maybe(Given)
          BY <1>0 DEF InstantsGiven
        <4>3. at \notin Days => at # orders[o].received
          BY <1>0, <1>1, <4>2, StampsAreNew DEF Maybe
        <4> QED
          BY <1>1, <3>2, <4>1, <4>3 DEF Dated
      <3> QED
        BY <1>2, <3>3, <3>4
    <2>2. CASE k \notin moved
      <3>1. kits'[k] = kits[k] /\ history'[k] = history[k]
        BY <1>2, <2>2 DEF Advance
      <3>2. kits[k].order \in OrderIds /\ Dated(k)
        BY <1>0, <1>6, <3>1 DEF TypeOK, Maybe, Kit, InstantsGiven
      <3>3. kits[k].since # Now
        BY <1>0, <3>2, StampsAreNew DEF Dated
      <3>4. orders'[kits[k].order].received \in {orders[kits[k].order].received, at}
        BY <1>3, <3>2
      <3> QED
        BY <1>0, <1>1, <3>1, <3>2, <3>3, <3>4, StampsAreNew DEF Dated
    <2> QED
      BY <2>1, <2>2
  <1> QED
    BY <1>5, <1>6 DEF InstantsGiven

LEMMA CorrectionsGiven ==
    ASSUME IInv, IInv', InstantsGiven, NEW o \in OrderIds, NEW date \in Days,
           correct_receipt(o, date) \/ correct_ship(o, date)
    PROVE  InstantsGiven'
  <1>0. TypeOK /\ orders[o] \in Order /\ orders[o] # None
    BY DEF IInv, correct_receipt, correct_ship, TypeOK, Maybe
  <1>1. PICK old, statuses : Restamp(o, old, date, statuses)
    BY DEF correct_receipt, correct_ship
  <1>2. date \in Instants /\ date \in Given
    BY DEF Instants, Given
  <1>3. /\ orders'[o].received \in {orders[o].received, date}
        /\ orders'[o].shipped \in {orders[o].shipped, date}
        /\ \A p \in OrderIds : p # o => orders'[p] = orders[p]
    BY <1>0 DEF correct_receipt, correct_ship, TypeOK, Order
  <1>4. history' = history /\ Given' = Given
    BY DEF correct_receipt, correct_ship, Given
  <1>5. ASSUME NEW p \in OrderIds, orders'[p] # None
        PROVE  orders'[p].received \in Maybe(Given)' /\ orders'[p].shipped \in Maybe(Given)'
    BY <1>0, <1>2, <1>3, <1>4, <1>5 DEF InstantsGiven, Maybe
  <1>6. ASSUME NEW k \in KitIds, kits'[k] # None PROVE Dated(k)'
    <2>1. /\ kits[k] # None /\ kits'[k].order = kits[k].order
          /\ kits'[k].since \in {kits[k].since, date}
      <3>1. /\ kits'[k] # None <=> kits[k] # None
            /\ kits[k] # None =>
                  /\ kits'[k].order = kits[k].order
                  /\ kits'[k].since =
                        IF kits[k].order = o /\ kits[k].status \in statuses
                           /\ kits[k].since = old
                        THEN date ELSE kits[k].since
        BY <1>1, <1>2, RestampFacts
      <3> QED
        BY <1>6, <3>1
    <2>2. kits[k].order \in OrderIds /\ Dated(k)
      BY <1>0, <2>1 DEF TypeOK, Maybe, Kit, InstantsGiven
    <2>3. orders'[kits[k].order].received \in {orders[kits[k].order].received, date}
      BY <1>3, <2>2
    <2> QED
      BY <1>2, <1>4, <2>1, <2>2, <2>3 DEF Dated
  <1> QED
    BY <1>5, <1>6 DEF InstantsGiven

LEMMA UpdateGiven ==
    ASSUME IInv, IInv', InstantsGiven, NEW j \in KitIds, NEW status, NEW started, NEW completed,
           update_kit(j, status, started, completed)
    PROVE  InstantsGiven'
  <1>0. TypeOK /\ Tick /\ orders' = orders
    BY DEF IInv, update_kit
  <1>5. ASSUME NEW p \in OrderIds, orders'[p] # None
        PROVE  orders'[p].received \in Maybe(Given)' /\ orders'[p].shipped \in Maybe(Given)'
    BY <1>0, <1>5, StampsAreNew DEF InstantsGiven, Maybe
  <1>6. ASSUME NEW k \in KitIds, kits'[k] # None PROVE Dated(k)'
    <2>1. /\ kits[k] # None /\ kits'[k].order = kits[k].order
          /\ \/ kits'[k].since = kits[k].since /\ history'[k] = history[k]
             \/ kits'[k].since = Now
      BY <1>0, <1>6 DEF update_kit, TypeOK
    <2>2. kits[k].order \in OrderIds /\ Dated(k) /\ orders[kits[k].order] # None
      BY <1>0, <2>1 DEF TypeOK, Maybe, Kit, InstantsGiven, IInv, Rooted
    <2>3. orders[kits[k].order].received # Now
      BY <1>0, <2>2, StampsAreNew DEF InstantsGiven, Maybe
    <2> QED
      BY <1>0, <2>1, <2>2, <2>3, StampsAreNew DEF Dated
  <1> QED
    BY <1>5, <1>6 DEF InstantsGiven

LEMMA StepGiven == IInv /\ IInv' /\ InstantsGiven /\ [Next]_vars => InstantsGiven'
  <1> SUFFICES ASSUME IInv, IInv', InstantsGiven, [Next]_vars PROVE InstantsGiven'
    OBVIOUS
  <1>1. CASE UNCHANGED vars
    BY <1>1 DEF vars, InstantsGiven, Dated, Given, Maybe
  <1>2. CASE Next
    BY <1>2, CreateGiven, AddGiven, AdvanceGiven, CorrectionsGiven, UpdateGiven DEF Next
  <1> QED
    BY <1>1, <1>2

\* Only a correction changes the date of a receipt that is there.
LEMMA CorrectionReachesKit ==
    ASSUME IInv, IInv', InstantsGiven, Next, NEW k \in KitIds, kits[k] # None,
           orders[kits[k].order].received # None,
           orders'[kits[k].order].received # orders[kits[k].order].received
    PROVE  /\ history[k].mover = "receipt" =>
                  kits'[k].since = orders'[kits[k].order].received
           /\ orders[kits[k].order].received \notin Days /\ kits'[k].since # kits[k].since =>
                  history[k].mover = "receipt"
  <1> DEFINE p == kits[k].order
  <1>0. TypeOK /\ p \in OrderIds /\ orders[p] # None /\ orders[p] \in Order /\ Dated(k)
    BY DEF IInv, TypeOK, Rooted, Maybe, Kit, InstantsGiven
  <1>1. PICK o \in OrderIds, date \in Days : correct_receipt(o, date)
    <2>1. ASSUME NEW o \in OrderIds, NEW received, NEW receipt, NEW shipment, NEW new,
                 NEW requested, create_order(o, received, receipt, shipment, new, requested)
          PROVE  FALSE
      BY <1>0, <2>1 DEF create_order, TypeOK
    <2>2. ASSUME NEW o \in OrderIds, NEW date, receive_order(o, date)
          PROVE  FALSE
      BY <1>0, <2>2 DEF receive_order, TypeOK
    <2>3. ASSUME NEW o \in OrderIds, NEW date, mark_order_shipped(o, date) \/ correct_ship(o, date)
          PROVE  FALSE
      BY <1>0, <2>3 DEF mark_order_shipped, correct_ship, TypeOK, Order
    <2> QED
      BY <2>1, <2>2, <2>3 DEF Next, add_kits, update_kit
  <1>2. p = o /\ orders'[p].received = date /\ Restamp(p, orders[p].received, date, KitStatus)
    BY <1>0, <1>1 DEF correct_receipt, TypeOK, Order
  <1>3. date \in Instants
    BY DEF Instants
  <1>4. kits[k].status \in KitStatus
    BY <1>0 DEF TypeOK, Maybe, Kit
  <1>5. kits'[k].since = IF kits[k].since = orders[p].received THEN date ELSE kits[k].since
    BY <1>0, <1>2, <1>3, <1>4, RestampFacts
  <1>6. history[k].mover = "receipt" => kits[k].since = orders[p].received
    BY DEF IInv, ReceiptOwnsItsKits
  <1> QED
    BY <1>0, <1>2, <1>5, <1>6 DEF Dated

\* A corrected receipt takes along every kit that it moved last, and no other if the
\* clock had dated it, for any number of orders, kits and dates.
THEOREM CorrectionsTakeTheirKits == Spec => CorrectionTakesReceiptAlong
  <1> DEFINE Takes ==
        \A k \in KitIds :
          LET old == orders[kits[k].order].received
              new == orders'[kits[k].order].received
          IN  kits[k] # None /\ old # None /\ new # old =>
                  /\ history[k].mover = "receipt" => kits'[k].since = new
                  /\ old \notin Days /\ kits'[k].since # kits[k].since =>
                         history[k].mover = "receipt"
  <1>1. Init => InstantsGiven
    BY DEF Init, InstantsGiven
  <1>2. IInv /\ IInv' /\ InstantsGiven /\ [Next]_vars => [Takes]_<<orders, kits>>
    <2> SUFFICES ASSUME IInv, IInv', InstantsGiven, [Next]_vars, <<orders, kits>>' # <<orders, kits>>
                 PROVE  Takes
      OBVIOUS
    <2>1. Next
      BY DEF vars
    <2> QED
      BY <2>1, CorrectionReachesKit
  <1> QED
    BY InitIInv, NextIInv, StepGiven, <1>1, <1>2, PTL DEF Spec, CorrectionTakesReceiptAlong

-----------------------------------------------------------------------------
(* PriceSnapshot: the conversions of lines.                                 *)

\* Both halves or neither.
Whole(s) == s.amount = Null <=> s.code = Null

SnapshotInv == SnapshotTypeOK /\ SnapshotWhole

LEMMA ConvertedWhole ==
    ASSUME reference \in Currencies, NEW stated \in Stated
    PROVE  /\ ConvertedSnapshot(stated) \in Snapshot
           /\ Whole(ConvertedSnapshot(stated))
  BY ValuesAssumption DEF ConvertedSnapshot, Stated, Snapshot, NoSnapshot, Whole, OrNull

LEMMA AppliedWhole ==
    ASSUME NEW stored \in Snapshot, Whole(stored), NEW stated \in Stated,
           NEW fallback \in Currencies \cup {KitRow}
    PROVE  LET new == ApplyConvertedSnapshot(stored, stated, fallback)
           IN  /\ new.code # KitRow => new \in Snapshot /\ Whole(new)
               /\ \/ new.code = stored.code
                  \/ new = NoSnapshot
                  \/ stated.code # Null /\ new.code = stated.code
                  \/ stored.code = Null
  BY ValuesAssumption
     DEF ApplyConvertedSnapshot, Stated, Snapshot, NoSnapshot, Whole, OrNull

LEMMA SnapshotStep == SnapshotInv /\ [SnapshotNext]_snapshotVars => SnapshotInv'
  <1> SUFFICES ASSUME SnapshotInv, [SnapshotNext]_snapshotVars PROVE SnapshotInv'
    OBVIOUS
  <1> USE DEF SnapshotInv
  <1>1. CASE UNCHANGED snapshotVars
    BY <1>1 DEF snapshotVars, SnapshotTypeOK, SnapshotWhole
  <1>2. ASSUME NEW l \in LineIds, NEW kind \in {"kit", "stock"}, NEW stated \in Stated,
               AddLine(l, kind, stated)
        PROVE  SnapshotInv'
    <2> DEFINE row == [kind |-> kind, snapshot |-> ConvertedSnapshot(stated)]
    <2>1. /\ lines' = [lines EXCEPT ![l] = row] /\ reference' = reference
      BY <1>2 DEF AddLine
    <2>2. row \in Line /\ Whole(row.snapshot)
      BY ConvertedWhole DEF Line, SnapshotTypeOK
    <2> QED
      BY <2>1, <2>2 DEF SnapshotTypeOK, SnapshotWhole, Whole, OrNull
  <1>3. ASSUME NEW l \in LineIds, NEW stated \in Stated, NEW details \in BOOLEAN,
               NEW grows \in BOOLEAN, EditLine(l, stated, details, grows)
        PROVE  SnapshotInv'
    <2> DEFINE stored == lines[l].snapshot
               fallback == ReferenceInUpdate(lines[l].kind, details, grows)
               written == ApplyConvertedSnapshot(stored, stated, fallback)
    <2>1. /\ lines[l] # Null /\ reference' = reference
          /\ lines' = [lines EXCEPT ![l] = Flushed(@, written)]
      BY <1>3 DEF EditLine
    <2>2. lines[l] \in Line /\ Whole(stored) /\ stored \in Snapshot
      BY <2>1 DEF SnapshotTypeOK, SnapshotWhole, Whole, OrNull, Line
    <2>3. fallback \in Currencies \cup {KitRow}
      BY DEF ReferenceInUpdate, SnapshotTypeOK
    <2>4. written.code # KitRow => written \in Snapshot /\ Whole(written)
      BY <2>2, <2>3, AppliedWhole
    <2> HIDE DEF written
    <2>5. Flushed(lines[l], written) \in Line /\ Whole(Flushed(lines[l], written).snapshot)
      BY <2>2, <2>4 DEF Flushed, Line
    <2> QED
      BY <2>1, <2>5 DEF SnapshotTypeOK, SnapshotWhole, Whole, OrNull
  <1>4. ASSUME NEW currency \in Currencies, UpdateInstanceSettings(currency) PROVE SnapshotInv'
    BY <1>4 DEF UpdateInstanceSettings, SnapshotTypeOK, SnapshotWhole
  <1> QED
    BY <1>1, <1>2, <1>3, <1>4 DEF SnapshotNext

LEMMA SnapshotInitially == SnapshotInit => SnapshotInv
  BY DEF SnapshotInit, SnapshotInv, SnapshotTypeOK, SnapshotWhole, OrNull

\* An amount and its currency are recorded together or not at all, for any
\* sequence of entries, corrections and clearings.
THEOREM SnapshotsStayWhole == SnapshotSpec => []SnapshotWhole
  <1>1. SnapshotInv => SnapshotWhole
    BY DEF SnapshotInv
  <1> QED
    BY SnapshotInitially, SnapshotStep, <1>1, PTL DEF SnapshotSpec

\* Recorded amounts keep their currency whatever happens to the instance's.
THEOREM RecordsKeepCurrency == SnapshotSpec => RecordKeepsCurrency
  <1> DEFINE CodeKept ==
        \A l \in LineIds :
          /\ lines[l] # Null
          /\ lines[l].snapshot.code # Null
          /\ lines'[l] # lines[l]
          => /\ last'.line = l
             /\ \/ lines'[l].snapshot.code = lines[l].snapshot.code
                \/ lines'[l].snapshot = NoSnapshot
                \/ lines'[l].snapshot.code = last'.stated.code
  <1>1. ASSUME SnapshotInv, [SnapshotNext]_snapshotVars PROVE [CodeKept]_snapshotVars
    <2> SUFFICES ASSUME SnapshotNext PROVE CodeKept
      BY <1>1
    <2> USE <1>1 DEF SnapshotInv
    <2>1. ASSUME NEW l \in LineIds, NEW kind \in {"kit", "stock"}, NEW stated \in Stated,
                 AddLine(l, kind, stated)
          PROVE  CodeKept
      BY <2>1 DEF AddLine, SnapshotTypeOK
    <2>2. ASSUME NEW l \in LineIds, NEW stated \in Stated, NEW details \in BOOLEAN,
                 NEW grows \in BOOLEAN, EditLine(l, stated, details, grows)
          PROVE  CodeKept
      <3> DEFINE stored == lines[l].snapshot
                 fallback == ReferenceInUpdate(lines[l].kind, details, grows)
                 written == ApplyConvertedSnapshot(stored, stated, fallback)
      <3>1. /\ lines[l] # Null
            /\ lines' = [lines EXCEPT ![l] = Flushed(@, written)]
            /\ last' = [line |-> l, stated |-> stated, before |-> stored, reference |-> reference]
        BY <2>2 DEF EditLine, Request
      <3>2. lines[l] \in Line /\ Whole(stored) /\ stored \in Snapshot
        BY <3>1 DEF SnapshotTypeOK, SnapshotWhole, Whole, OrNull, Line
      <3>3. fallback \in Currencies \cup {KitRow}
        BY DEF ReferenceInUpdate, SnapshotTypeOK
      <3>4. \/ written.code = stored.code
            \/ written = NoSnapshot
            \/ stated.code # Null /\ written.code = stated.code
            \/ stored.code = Null
        BY <3>2, <3>3, AppliedWhole
      <3> HIDE DEF written
      <3>5. Flushed(lines[l], written) = lines[l] \/ Flushed(lines[l], written).snapshot = written
        BY <3>2 DEF Flushed, Line
      <3>6. lines'[l] = Flushed(lines[l], written) /\ \A k \in LineIds : k # l => lines'[k] = lines[k]
        BY <3>1 DEF SnapshotTypeOK
      <3> QED
        BY <3>1, <3>4, <3>5, <3>6
    <2>3. ASSUME NEW currency \in Currencies, UpdateInstanceSettings(currency) PROVE CodeKept
      BY <2>3 DEF UpdateInstanceSettings
    <2> QED
      BY <2>1, <2>2, <2>3 DEF SnapshotNext
  <1> QED
    BY SnapshotInitially, SnapshotStep, <1>1, PTL DEF SnapshotSpec, RecordKeepsCurrency

\* Both at once: what was recorded of a price is never half, and never restated.
THEOREM PricesHold == SnapshotSpec => RecordsHold
  <1> QED
    BY SnapshotsStayWhole, RecordsKeepCurrency, PTL DEF RecordsHold

\* StampedOrRolledBack is kept by every step.
LEMMA StampedStep ==
    SnapshotInv /\ StampedOrRolledBack /\ [SnapshotNext]_snapshotVars => StampedOrRolledBack'
  <1> SUFFICES ASSUME SnapshotInv, StampedOrRolledBack, [SnapshotNext]_snapshotVars
               PROVE  StampedOrRolledBack'
    OBVIOUS
  <1> USE DEF SnapshotInv
  <1>1. CASE UNCHANGED <<lines, last>>
    BY <1>1 DEF StampedOrRolledBack
  <1>2. ASSUME NEW l \in LineIds, NEW kind \in {"kit", "stock"}, NEW stated \in Stated,
               AddLine(l, kind, stated)
        PROVE  StampedOrRolledBack'
    <2>1. /\ lines'[l] = [kind |-> kind, snapshot |-> ConvertedSnapshot(stated)]
          /\ last' = [line |-> l, stated |-> stated, before |-> NoSnapshot,
                      reference |-> reference]
      BY <1>2 DEF AddLine, Request, SnapshotTypeOK
    <2>2. stated.amount \in Amounts /\ stated.code = Null =>
              ConvertedSnapshot(stated) = [amount |-> stated.amount, code |-> reference]
      BY ValuesAssumption DEF ConvertedSnapshot
    <2> QED
      BY <2>1, <2>2 DEF StampedOrRolledBack
  <1>3. ASSUME NEW l \in LineIds, NEW stated \in Stated, NEW details \in BOOLEAN,
               NEW grows \in BOOLEAN, EditLine(l, stated, details, grows)
        PROVE  StampedOrRolledBack'
    <2> DEFINE stored == lines[l].snapshot
               fallback == ReferenceInUpdate(lines[l].kind, details, grows)
               written == ApplyConvertedSnapshot(stored, stated, fallback)
    <2>1. /\ lines[l] \in Line
          /\ lines'[l] = Flushed(lines[l], written)
          /\ last' = [line |-> l, stated |-> stated, before |-> stored, reference |-> reference]
      BY <1>3 DEF EditLine, Request, SnapshotTypeOK, OrNull
    <2>2. SUFFICES ASSUME stated.amount \in Amounts, stated.code = Null, stored.code = Null
                   PROVE  \/ lines'[l].snapshot = [amount |-> stated.amount, code |-> reference]
                          \/ lines'[l].kind = "kit" /\ lines'[l].snapshot = stored
      BY <2>1 DEF StampedOrRolledBack
    <2>3. written = [amount |-> stated.amount, code |-> fallback]
      BY <2>2, ValuesAssumption DEF ApplyConvertedSnapshot
    <2>4. CASE fallback = KitRow
      <3>1. lines[l].kind = "kit"
        BY <2>4, ValuesAssumption DEF ReferenceInUpdate, SnapshotTypeOK
      <3>2. lines'[l] = lines[l]
        BY <2>1, <2>3, <2>4 DEF Flushed
      <3> QED
        BY <3>1, <3>2
    <2>5. CASE fallback # KitRow
      <3>1. fallback = reference
        BY <2>5 DEF ReferenceInUpdate
      <3>2. lines'[l].snapshot = written
        BY <2>1, <2>3, <2>5 DEF Flushed, Line
      <3> QED
        BY <2>3, <3>1, <3>2
    <2> QED
      BY <2>4, <2>5
  <1> QED
    BY <1>1, <1>2, <1>3 DEF SnapshotNext, UpdateInstanceSettings, snapshotVars

\* A price without a recorded currency is stamped with the instance's of the moment
\* it is written, or the edit of a kit line is rolled back, for any lines and
\* currencies; no price is ever stamped with a later one.
THEOREM PricesAreStampedOrRolledBack == SnapshotSpec => []StampedOrRolledBack
  <1>1. SnapshotInit => StampedOrRolledBack
    BY DEF SnapshotInit, StampedOrRolledBack
  <1> QED
    BY SnapshotInitially, SnapshotStep, StampedStep, <1>1, PTL DEF SnapshotSpec

-----------------------------------------------------------------------------
(* Tab: sessions, sign-outs and imports of a browser tab.                   *)

\* A session that the cookie carries no longer, or that has ended, for good.
Gone(t) == ~(t = jar /\ t \in live)

\* A session the tab has: shown, read, in use, or what an import or a sign-out began in.
Holds(t) == t \in {csrf, gate, known, leaving.in} \/ \E i \in Imports : sentUnder[i] = t

\* Answers come in the order of the sessions they tell of: whatever the tab holds but
\* what was read last is gone.
ReadInOrder ==
    /\ left \subseteq begun /\ (read \in Sessions => read \in begun)
    /\ \A t \in Sessions : Holds(t) =>
          /\ t \in begun
          /\ read \in Reads /\ t # read => Gone(t)
          /\ known \in Reads /\ t # known => Gone(t)

\* The gate shows a session that is not the token's only when it is gone, and does not
\* come back to it.
TokenKeepsUp ==
    gate \in Sessions /\ csrf # gate =>
        Gone(gate) /\ (csrf \in Sessions => gate \notin {read, known})

\* A sign-out that the server confirmed leaves nothing the tab holds alive.
LeavesForGood ==
    /\ leaving.ended => leaving.at = "answered" /\ \A t \in Sessions : Holds(t) => Gone(t)
    /\ leaving.at # "no" => failure = Nil
    /\ \A t \in left : Gone(t)
    /\ read \notin left
    /\ cached \cap left = {}
    /\ Said /\ failure.kind = "refused" => failure.in \notin left

\* The import kept is the one awaited, or the one whose answer came last.
RunHolds ==
    /\ pending # Nil => flying[pending] = "awaited"
    /\ \A i \in Imports :
          /\ flying[i] = "awaited" => i = pending
          /\ i \in {pending, outcome} => sentUnder[i] = session
          /\ flying[i] = "dropped" /\ sentUnder[i] \in Sessions => Gone(sentUnder[i])

\* The same as of the token: the gate does not come back to a session before the import's.
ImportKeepsUp ==
    \A i \in Imports \cap {pending, outcome} :
        gate \in Sessions /\ sentUnder[i] \in Sessions \ {gate} =>
            Gone(gate) /\ gate \notin {read, known}

\* A draft is shown to an owner; an outcome it draws for the first time is the module's;
\* what is being previewed is what it asks for, or it is late.
SectionHolds ==
    section # Nil =>
        /\ gate \in Sessions
        /\ section.outcome \in Imports \ painted => outcome = section.outcome
        /\ section.preview # Nil =>
              pending = Nil /\ (~section.late => section.preview = section.mode /\ section.file)

TabInv ==
    /\ TabTypeOK
    /\ ReadInOrder /\ TokenKeepsUp /\ LeavesForGood
    /\ RunHolds /\ ImportKeepsUp
    /\ SectionHolds /\ OutcomeNotLost /\ PlanIsOfTheDraft

-----------------------------------------------------------------------------

\* What is gone stays gone.
WorldGoesOn == begun \subseteq begun' /\ \A t \in begun : Gone(t) => Gone(t)'

\* What the rest of a step leaves to be shown of its reads.
LEMMA NothingNew ==
    ASSUME TabTypeOK, ReadInOrder, WorldGoesOn,
           \A t \in Sessions : Holds(t)' => Holds(t),
           left' \subseteq begun, read' \in {read, Nil, "asked"}, known' \in {known, Nil}
    PROVE  ReadInOrder'
  BY TabAssumption DEF TabTypeOK, ReadInOrder, WorldGoesOn, Reads

LEMMA WorldSteps ==
    ASSUME TabTypeOK, TabNext
    PROVE  WorldGoesOn
  <1> USE DEF WorldGoesOn, Gone, TabTypeOK, web, gateVars, outVars, runVars
  <1>1. ASSUME NEW i \in Imports, SendImport(i) PROVE WorldGoesOn
    BY <1>1 DEF SendImport
  <1>2. ASSUME NEW i \in Imports, NEW ok \in BOOLEAN, Settle(i, ok) PROVE WorldGoesOn
    BY <1>2 DEF Settle
  <1>3. CASE Paint \/ Mount \/ Unmount \/ PickFile \/ ChooseMode \/ FallBack \/ RunPreview \/ PreviewAnswers
    BY <1>3 DEF Paint, Mount, Unmount, PickFile, ChooseMode, FallBack, RunPreview, PreviewAnswers
  <1>4. CASE AskSession \/ ServerReads \/ ReadArrives \/ ReadFails \/ Commit \/ PageLoads
    BY <1>4 DEF AskSession, ServerReads, ReadArrives, ReadFails, Commit, PageLoads
  <1>5. CASE Press \/ Conclude \/ Reload
    BY <1>5 DEF Press, Conclude, Reload
  <1>6. CASE LogoutAnswers
    BY <1>6, TabAssumption DEF LogoutAnswers
  <1>7. ASSUME NEW s \in Sessions, SignIn(s) \/ OtherTabSignsIn(s) \/ SessionEnds(s) PROVE WorldGoesOn
    BY <1>7 DEF SignIn, OtherTabSignsIn, SessionEnds
  <1> QED
    BY <1>1, <1>2, <1>3, <1>4, <1>5, <1>6, <1>7 DEF TabNext

-----------------------------------------------------------------------------
(* Sessions, by what a step does to them.                                  *)

SessionsHold == ReadInOrder /\ TokenKeepsUp /\ LeavesForGood

LEMMA SessionsAlone ==
    ASSUME SessionsHold, UNCHANGED <<web, gateVars, outVars, sentUnder>>
    PROVE  SessionsHold'
  BY DEF SessionsHold, ReadInOrder, TokenKeepsUp, LeavesForGood, Holds, Gone, Said,
         web, gateVars, outVars

\* A step that begins, ends or reads nothing, and gives no session to hold.
LEMMA SessionsKept ==
    ASSUME TabTypeOK, SessionsHold, WorldGoesOn,
           \A t \in Sessions : Holds(t)' => Holds(t),
           read' \in {read, Nil, "asked"},
           UNCHANGED <<known, gate, csrf, cached, left, failure>>,
           leaving'.ended => leaving'.at = "answered" /\ leaving.ended,
           leaving'.at # "no" => failure = Nil
    PROVE  SessionsHold'
  <1>1. ReadInOrder'
    BY NothingNew DEF SessionsHold, ReadInOrder
  <1>2. TokenKeepsUp'
    <2> SUFFICES ASSUME gate \in Sessions, csrf # gate
                 PROVE  Gone(gate)' /\ (csrf \in Sessions => gate \notin {read', known})
      BY DEF TokenKeepsUp
    <2>1. Gone(gate) /\ (csrf \in Sessions => gate \notin {read, known}) /\ gate \in begun
      BY DEF SessionsHold, TokenKeepsUp, ReadInOrder, Holds
    <2> QED
      BY <2>1, TabAssumption DEF WorldGoesOn
  <1>3. LeavesForGood'
    <2>1. ASSUME leaving'.ended, NEW t \in Sessions, Holds(t)' PROVE Gone(t)'
      BY <2>1 DEF SessionsHold, LeavesForGood, ReadInOrder, WorldGoesOn
    <2>2. \A t \in left : Gone(t)'
      BY DEF SessionsHold, LeavesForGood, ReadInOrder, WorldGoesOn
    <2>3. read' \notin left
      BY TabAssumption DEF SessionsHold, LeavesForGood, TabTypeOK
    <2>4. Said' = Said
      BY DEF Said
    <2> QED
      BY <2>1, <2>2, <2>3, <2>4 DEF SessionsHold, LeavesForGood
  <1> QED
    BY <1>1, <1>2, <1>3 DEF SessionsHold

LEMMA ServerReadsInOrder ==
    ASSUME TabTypeOK, SessionsHold, ServerReads
    PROVE  SessionsHold'
  <1> USE DEF ServerReads
  <1>1. \A t \in Sessions : (Holds(t)' <=> Holds(t)) /\ (Gone(t)' <=> Gone(t))
    BY DEF Holds, Gone, gateVars, outVars, runVars
  <1>2. \A t \in begun : t # read' => Gone(t)
    BY DEF Gone
  <1>3. read' \in Sessions => read' \in begun /\ ~Gone(read')
    BY TabAssumption DEF TabTypeOK, Gone
  <1>4. ReadInOrder'
    BY <1>1, <1>2, <1>3 DEF SessionsHold, ReadInOrder, gateVars, outVars
  <1>5. TokenKeepsUp'
    BY <1>1, <1>3 DEF SessionsHold, TokenKeepsUp, gateVars
  <1>6. read' \notin left
    BY <1>3, TabAssumption DEF SessionsHold, LeavesForGood, TabTypeOK
  <1>7. Said' = Said /\ UNCHANGED <<leaving, failure, left, cached>>
    BY DEF Said, gateVars, outVars
  <1>8. \A t \in left : Gone(t)'
    BY <1>1 DEF SessionsHold, LeavesForGood, TabTypeOK
  <1>9. LeavesForGood'
    BY <1>1, <1>6, <1>7, <1>8 DEF SessionsHold, LeavesForGood
  <1> QED
    BY <1>4, <1>5, <1>9 DEF SessionsHold

LEMMA ReadArrivesInOrder ==
    ASSUME TabTypeOK, SessionsHold, ReadArrives
    PROVE  SessionsHold'
  <1> USE DEF ReadArrives
  <1>1. \A t \in Sessions : (Holds(t)' => Holds(t) \/ t = read) /\ (Gone(t)' <=> Gone(t))
    BY DEF Holds, Gone, outVars, runVars
  <1>2. UNCHANGED <<live, jar, begun, gate, csrf, cached, leaving, failure, left>> /\ known' = read /\ read' = Nil
    BY DEF outVars
  <1>3. Nil \notin Reads /\ read \in Reads
    BY TabAssumption DEF Reads
  <1>4. ReadInOrder'
    BY <1>1, <1>2, <1>3 DEF SessionsHold, ReadInOrder, TabTypeOK, Reads
  <1>5. TokenKeepsUp'
    BY <1>1, <1>2, <1>3 DEF SessionsHold, TokenKeepsUp, Reads
  <1>6. ~leaving.ended
    BY DEF SessionsHold, LeavesForGood
  <1>7. Said' => failure.in \notin left
    <2> SUFFICES ASSUME Said' PROVE failure.in \notin left
      OBVIOUS
    <2>1. failure # Nil /\ failure.in = Token(read)
      BY <1>2 DEF Said
    <2>2. failure.in \in Sessions
      BY <2>1 DEF TabTypeOK
    <2>3. failure.in = read
      BY <2>1, <2>2, TabAssumption DEF Token
    <2> QED
      BY <2>3 DEF SessionsHold, LeavesForGood
  <1>8. \A t \in left : Gone(t)'
    BY <1>1 DEF SessionsHold, LeavesForGood, TabTypeOK
  <1>9. Nil \notin left
    BY TabAssumption DEF TabTypeOK
  <1>10. LeavesForGood'
    BY <1>2, <1>6, <1>7, <1>8, <1>9 DEF SessionsHold, LeavesForGood
  <1> QED
    BY <1>4, <1>5, <1>10 DEF SessionsHold

LEMMA CommitShowsWhatIsKnown ==
    ASSUME TabTypeOK, SessionsHold, Commit
    PROVE  SessionsHold'
  <1> USE DEF Commit
  <1>1. UNCHANGED <<live, jar, begun, read, known, cached, leaving, failure, left, sentUnder>> /\ gate' = known
    BY DEF web, outVars, runVars, Forgotten
  <1>2. \A t \in Sessions : (Holds(t)' => Holds(t)) /\ (Gone(t)' <=> Gone(t))
    <2>1. csrf' = csrf \/ csrf' = known \/ csrf' = Nil
      BY DEF Token
    <2> QED
      BY <1>1, <2>1, TabAssumption DEF Holds, Gone
  <1>3. ReadInOrder'
    BY <1>1, <1>2 DEF SessionsHold, ReadInOrder
  <1>4. gate' \in Sessions => csrf' = gate'
    BY <1>1, TabAssumption DEF Token
  <1>5. TokenKeepsUp'
    BY <1>4 DEF TokenKeepsUp
  <1>6. Said' <=> Said
    BY <1>1 DEF Said
  <1>7. \A t \in left : Gone(t)'
    BY <1>2 DEF SessionsHold, LeavesForGood, TabTypeOK
  <1>8. LeavesForGood'
    BY <1>1, <1>2, <1>6, <1>7 DEF SessionsHold, LeavesForGood
  <1> QED
    BY <1>3, <1>5, <1>8 DEF SessionsHold

LEMMA PageLoadsOfTheCookie ==
    ASSUME TabTypeOK, SessionsHold, PageLoads
    PROVE  SessionsHold'
  <1> USE DEF PageLoads
  <1>1. UNCHANGED <<live, jar, begun, read, known, gate, csrf, leaving, failure, left, sentUnder>>
    BY DEF web, outVars, runVars
  <1>2. jar \notin left
    BY DEF SessionsHold, LeavesForGood, Gone
  <1>3. ReadInOrder' /\ TokenKeepsUp'
    BY <1>1 DEF SessionsHold, ReadInOrder, TokenKeepsUp, Holds, Gone
  <1>4. LeavesForGood'
    BY <1>1, <1>2 DEF SessionsHold, LeavesForGood, Holds, Gone, Said
  <1> QED
    BY <1>3, <1>4 DEF SessionsHold

LEMMA LogoutEndsTheCookies ==
    ASSUME TabTypeOK, SessionsHold, WorldGoesOn, LogoutAnswers
    PROVE  SessionsHold'
  <1> USE DEF LogoutAnswers
  <1>1. /\ UNCHANGED <<begun, known, gate, csrf, cached, failure, left, sentUnder>> /\ read' = "asked"
        /\ failure = Nil
    BY DEF gateVars, runVars, Forgotten, SessionsHold, LeavesForGood
  <1>2. /\ leaving'.at = "answered" /\ leaving'.in = leaving.in /\ leaving'.ended \in BOOLEAN
        /\ leaving'.ended => jar' = Nil
    BY DEF TabTypeOK
  <1>3. \A t \in Sessions : Holds(t)' => Holds(t)
    BY <1>1, <1>2 DEF Holds
  <1>4. ReadInOrder'
    BY <1>1, <1>3, NothingNew DEF SessionsHold, ReadInOrder
  <1>5. TokenKeepsUp'
    <2> SUFFICES ASSUME gate \in Sessions, csrf # gate
                 PROVE  Gone(gate)' /\ (csrf \in Sessions => gate \notin {"asked", known})
      BY <1>1 DEF TokenKeepsUp
    <2>1. Gone(gate) /\ (csrf \in Sessions => gate \notin {read, known}) /\ gate \in begun
      BY DEF SessionsHold, TokenKeepsUp, ReadInOrder, Holds
    <2> QED
      BY <1>1, <2>1, TabAssumption DEF WorldGoesOn
  <1>6. LeavesForGood'
    <2>1. ASSUME leaving'.ended, NEW t \in Sessions, Holds(t)' PROVE Gone(t)'
      BY <2>1, <1>2, TabAssumption DEF Gone
    <2>2. \A t \in left : Gone(t)'
      BY DEF SessionsHold, LeavesForGood, ReadInOrder, WorldGoesOn
    <2>3. read' \notin left
      BY <1>1, TabAssumption DEF TabTypeOK
    <2>4. ~Said'
      BY <1>1 DEF Said
    <2> QED
      BY <1>1, <1>2, <2>1, <2>2, <2>3, <2>4 DEF SessionsHold, LeavesForGood
  <1> QED
    BY <1>4, <1>5, <1>6 DEF SessionsHold

LEMMA ConcludeByTheRead ==
    ASSUME TabTypeOK, SessionsHold, Conclude
    PROVE  SessionsHold'
  <1>1. /\ UNCHANGED <<live, jar, begun, gate, sentUnder>> /\ read' = Nil /\ leaving' = Staying
        /\ failure = Nil /\ leaving.at = "answered"
        /\ \A t \in Sessions : Gone(t)' <=> Gone(t)
    BY DEF Conclude, runVars, SessionsHold, LeavesForGood, Gone
  <1>2. /\ \A t \in left : Gone(t) /\ t \in begun
        /\ Nil \notin left /\ Nil \notin Reads /\ left \subseteq Sessions /\ cached \subseteq Sessions
        /\ cached \cap left = {}
    BY TabAssumption DEF SessionsHold, LeavesForGood, ReadInOrder, TabTypeOK, Reads
  <1>3. CASE /\ read \in Sessions
             /\ known' = read /\ csrf' = TokenAfter(read)
             /\ failure' = IF leaving.ended THEN Nil ELSE Failed("refused")
             /\ UNCHANGED <<cached, left>>
    <2>1. \A t \in Sessions : Holds(t)' => Holds(t) \/ t = read
      BY <1>1, <1>3, TabAssumption DEF Holds, TokenAfter, Staying
    <2>2. ReadInOrder'
      BY <1>1, <1>2, <1>3, <2>1 DEF SessionsHold, ReadInOrder, Reads
    <2>3. TokenKeepsUp'
      BY <1>1, <1>3, TabAssumption DEF SessionsHold, TokenKeepsUp, ReadInOrder, Holds, TokenAfter, Reads
    <2>4. LeavesForGood'
      <3>1. Said' => failure'.in \notin left
        <4> SUFFICES ASSUME Said' PROVE failure'.in \notin left
          OBVIOUS
        <4>1. failure' = Failed("refused") /\ leaving.in # Nil
          BY <1>3 DEF Said, Failed
        <4>2. failure'.in = leaving.in /\ failure'.in = read
          BY <1>3, <4>1 DEF Said, Failed, Token
        <4> QED
          BY <4>2 DEF SessionsHold, LeavesForGood
      <3> QED
        BY <1>1, <1>2, <1>3, <3>1 DEF LeavesForGood, Staying
    <2> QED
      BY <2>2, <2>3, <2>4 DEF SessionsHold
  <1>4. CASE /\ ~leaving.ended
             /\ failure' = Failed("unconfirmed")
             /\ UNCHANGED <<known, csrf, cached, left>>
    <2>1. \A t \in Sessions : Holds(t)' => Holds(t)
      BY <1>1, <1>4, TabAssumption DEF Holds, Staying
    <2>2. ReadInOrder'
      BY <1>1, <1>2, <1>4, <2>1, TabAssumption DEF SessionsHold, ReadInOrder
    <2>3. TokenKeepsUp'
      BY <1>1, <1>4, TabAssumption DEF SessionsHold, TokenKeepsUp
    <2>4. ~(Said' /\ failure'.kind = "refused")
      BY <1>4 DEF Said, Failed
    <2>5. LeavesForGood'
      BY <1>1, <1>2, <1>4, <2>4 DEF LeavesForGood, Staying
    <2> QED
      BY <2>2, <2>3, <2>5 DEF SessionsHold
  <1>5. CASE /\ \/ read = "nobody" /\ known' = read
                \/ leaving.ended /\ UNCHANGED known
             /\ csrf' = Nil /\ cached' = {}
             /\ left' = left \cup ({leaving.in} \ {Nil})
             /\ UNCHANGED failure
    <2>0. /\ leaving.in \in Sessions \cup {Nil} /\ "nobody" \notin Sessions /\ Nil \notin Sessions
          /\ "nobody" \in Reads
      BY TabAssumption DEF TabTypeOK, Reads
    <2>1. \A t \in Sessions : Holds(t)' => Holds(t)
      BY <1>1, <1>5, <2>0 DEF Holds, Staying
    <2>2. \A t \in Sessions : Holds(t) => Gone(t) /\ t \in begun
      BY <1>5, <2>0 DEF SessionsHold, ReadInOrder, LeavesForGood
    <2>3. left' \subseteq begun /\ \A t \in left' : Gone(t)
      <3>1. leaving.in # Nil => Holds(leaving.in) /\ leaving.in \in Sessions
        BY <2>0 DEF Holds
      <3> QED
        BY <1>2, <1>5, <2>2, <3>1
    <2>4. ReadInOrder'
      BY <1>1, <1>2, <2>0, <2>1, <2>2, <2>3 DEF ReadInOrder
    <2>5. TokenKeepsUp'
      BY <1>1, <1>5, <2>0, <2>2 DEF TokenKeepsUp, Holds
    <2>6. LeavesForGood'
      <3>1. \A t \in left' : Gone(t)'
        BY <1>1, <1>2, <1>5, <2>0, <2>3
      <3>2. ~Said' /\ Nil \notin left'
        BY <1>1, <1>2, <1>5 DEF Said
      <3> QED
        BY <1>1, <1>5, <3>1, <3>2 DEF LeavesForGood, Staying
    <2> QED
      BY <2>4, <2>5, <2>6 DEF SessionsHold
  <1> QED
    BY <1>3, <1>4, <1>5 DEF Conclude

LEMMA SignInBeginsAnew ==
    ASSUME TabTypeOK, SessionsHold, WorldGoesOn, NEW s \in Sessions, SignIn(s)
    PROVE  SessionsHold'
  <1>1. /\ UNCHANGED <<gate, csrf, leaving, failure, left, sentUnder>> /\ read' = "asked" /\ known' = Nil
        /\ cached' = {} /\ gate = "nobody"
    BY DEF SignIn, outVars, runVars
  <1>2. \A t \in Sessions : Holds(t)' => Holds(t)
    BY <1>1, TabAssumption DEF Holds
  <1>3. ReadInOrder'
    BY <1>1, <1>2, NothingNew DEF SessionsHold, ReadInOrder
  <1>4. TokenKeepsUp'
    BY <1>1, TabAssumption DEF TokenKeepsUp
  <1>5. LeavesForGood'
    <2>1. ASSUME leaving'.ended, NEW t \in Sessions, Holds(t)' PROVE Gone(t)'
      BY <1>1, <1>2, <2>1 DEF SessionsHold, LeavesForGood, ReadInOrder, WorldGoesOn
    <2>2. \A t \in left : Gone(t)'
      BY DEF SessionsHold, LeavesForGood, ReadInOrder, WorldGoesOn
    <2>3. read' \notin left
      BY <1>1, TabAssumption DEF TabTypeOK
    <2>4. ~Said'
      BY <1>1, TabAssumption DEF Said, Token, TabTypeOK
    <2> QED
      BY <1>1, <2>1, <2>2, <2>3, <2>4 DEF SessionsHold, LeavesForGood
  <1> QED
    BY <1>3, <1>4, <1>5 DEF SessionsHold

LEMMA SessionsStep ==
    ASSUME TabTypeOK, SessionsHold, TabNext
    PROVE  SessionsHold'
  <1>w. WorldGoesOn
    BY WorldSteps
  <1>1. ASSUME NEW i \in Imports, SendImport(i) PROVE SessionsHold'
    <2>1. UNCHANGED <<web, gateVars, outVars>> /\ sentUnder' = [sentUnder EXCEPT ![i] = csrf]
      BY <1>1 DEF SendImport
    <2>2. \A t \in Sessions : Holds(t)' => Holds(t)
      BY <2>1 DEF Holds, gateVars, outVars, TabTypeOK
    <2> QED
      BY <1>w, <2>1, <2>2, SessionsKept DEF web, gateVars, outVars, SessionsHold, LeavesForGood
  <1>2. ASSUME NEW i \in Imports, NEW ok \in BOOLEAN, Settle(i, ok) PROVE SessionsHold'
    BY <1>2, SessionsAlone DEF Settle
  <1>3. CASE Paint \/ Mount \/ Unmount \/ PickFile \/ ChooseMode \/ FallBack \/ RunPreview \/ PreviewAnswers
    <2>1. UNCHANGED <<web, gateVars, outVars, sentUnder>>
      BY <1>3 DEF Paint, Mount, Unmount, PickFile, ChooseMode, FallBack, RunPreview, PreviewAnswers, runVars
    <2> QED
      BY <2>1, SessionsAlone
  <1>4. CASE AskSession \/ ReadFails
    <2>1. /\ UNCHANGED <<live, jar, begun, gateVars, outVars, runVars>>
          /\ read' \in {read, Nil, "asked"}
      BY <1>4 DEF AskSession, ReadFails
    <2>2. \A t \in Sessions : Holds(t)' => Holds(t)
      BY <2>1 DEF Holds, gateVars, outVars, runVars
    <2> QED
      BY <1>w, <2>1, <2>2, SessionsKept DEF gateVars, outVars, runVars, SessionsHold, LeavesForGood
  <1>5. CASE ServerReads \/ ReadArrives \/ Commit \/ PageLoads
    BY <1>5, ServerReadsInOrder, ReadArrivesInOrder, CommitShowsWhatIsKnown, PageLoadsOfTheCookie
  <1>6. CASE LogoutAnswers \/ Conclude
    BY <1>w, <1>6, LogoutEndsTheCookies, ConcludeByTheRead
  <1>7. CASE Press
    <2>1. /\ UNCHANGED <<web, gateVars, left, runVars>> /\ failure' = Nil
          /\ leaving' = [at |-> "asked", in |-> csrf, ended |-> FALSE]
      BY <1>7 DEF Press
    <2>2. \A t \in Sessions : (Holds(t)' => Holds(t)) /\ (Gone(t)' <=> Gone(t))
      BY <2>1 DEF Holds, Gone, web, gateVars, runVars
    <2>3. ReadInOrder' /\ TokenKeepsUp'
      BY <2>1, <2>2 DEF SessionsHold, ReadInOrder, TokenKeepsUp, web, gateVars
    <2>4. LeavesForGood'
      <3>1. ~Said'
        BY <2>1 DEF Said
      <3>2. \A t \in left : Gone(t)'
        BY <2>2 DEF SessionsHold, LeavesForGood, TabTypeOK
      <3> QED
        BY <2>1, <3>1, <3>2 DEF SessionsHold, LeavesForGood, web, gateVars
    <2> QED
      BY <2>3, <2>4 DEF SessionsHold
  <1>8. ASSUME NEW s \in Sessions, SignIn(s) PROVE SessionsHold'
    BY <1>w, <1>8, SignInBeginsAnew
  <1>9. ASSUME NEW s \in Sessions, OtherTabSignsIn(s) \/ SessionEnds(s) PROVE SessionsHold'
    <2>1. UNCHANGED <<read, gateVars, outVars, runVars>>
      BY <1>9 DEF OtherTabSignsIn, SessionEnds
    <2>2. \A t \in Sessions : Holds(t)' => Holds(t)
      BY <2>1 DEF Holds, gateVars, outVars, runVars
    <2> QED
      BY <1>w, <2>1, <2>2, SessionsKept DEF gateVars, outVars, runVars, SessionsHold, LeavesForGood
  <1>10. CASE Reload
    <2>1. /\ read' = Nil /\ known' = Nil /\ gate' = Nil /\ csrf' = Nil /\ cached' = {}
          /\ leaving' = Staying /\ failure' = Nil /\ sentUnder' = [i \in Imports |-> Nil]
          /\ UNCHANGED <<live, jar, begun, left>>
      BY <1>10 DEF Reload
    <2>2. \A t \in Sessions : ~Holds(t)'
      BY <2>1, TabAssumption DEF Holds, Staying
    <2>3. ReadInOrder' /\ TokenKeepsUp'
      BY <2>1, <2>2, TabAssumption DEF SessionsHold, ReadInOrder, TokenKeepsUp
    <2>4. LeavesForGood'
      <3>1. ~Said' /\ Nil \notin left
        BY <2>1, TabAssumption DEF Said, TabTypeOK
      <3>2. \A t \in left : Gone(t)'
        BY <2>1 DEF SessionsHold, LeavesForGood, TabTypeOK, Gone
      <3> QED
        BY <2>1, <3>1, <3>2 DEF SessionsHold, LeavesForGood, Staying
    <2> QED
      BY <2>3, <2>4 DEF SessionsHold
  <1> QED
    BY <1>1, <1>2, <1>3, <1>4, <1>5, <1>6, <1>7, <1>8, <1>9, <1>10 DEF TabNext

-----------------------------------------------------------------------------
(* The import.                                                             *)

LEMMA RunAlone ==
    ASSUME TabTypeOK, SessionsHold, RunHolds, ImportKeepsUp, WorldGoesOn,
           \/ UNCHANGED <<runVars, gate, known>>
           \/ UNCHANGED <<runVars, gate>> /\ known' = Nil,
           read' \in {read, Nil, "asked"}
    PROVE  RunHolds' /\ ImportKeepsUp'
  <1>1. RunHolds'
    <2>1. \A i \in Imports : sentUnder[i] \in Sessions => sentUnder[i] \in begun
      BY DEF SessionsHold, ReadInOrder, Holds
    <2> QED
      BY <2>1 DEF RunHolds, WorldGoesOn, runVars
  <1>2. ImportKeepsUp'
    <2> SUFFICES ASSUME NEW i \in Imports \cap {pending, outcome}, gate \in Sessions,
                        sentUnder[i] \in Sessions \ {gate}
                 PROVE  Gone(gate)' /\ gate \notin {read', known'}
      BY DEF ImportKeepsUp, runVars
    <2>1. Gone(gate) /\ gate \notin {read, known} /\ gate \in begun
      BY DEF ImportKeepsUp, SessionsHold, ReadInOrder, Holds
    <2> QED
      BY <2>1, TabAssumption DEF WorldGoesOn, runVars
  <1> QED
    BY <1>1, <1>2

LEMMA RunStep ==
    ASSUME TabTypeOK, SessionsHold, RunHolds, ImportKeepsUp, SectionHolds, TabNext
    PROVE  RunHolds' /\ ImportKeepsUp'
  <1>w. WorldGoesOn
    BY WorldSteps
  <1>0. /\ {pending, outcome} \subseteq Imports \cup {Nil} /\ Nil \notin Imports
        /\ flying \in [Imports -> {"unsent", "awaited", "dropped", "over"}]
        /\ sentUnder \in [Imports -> Sessions \cup {Nil}]
    BY TabAssumption DEF TabTypeOK
  <1>h. \A i \in Imports : sentUnder[i] \in Sessions => sentUnder[i] \in begun
    BY DEF SessionsHold, ReadInOrder, Holds
  <1>1. ASSUME NEW i \in Imports, SendImport(i) PROVE RunHolds' /\ ImportKeepsUp'
    <2>1. /\ pending = Nil /\ flying[i] = "unsent"
          /\ pending' = i /\ outcome' = Nil /\ session' = csrf
          /\ flying' = [flying EXCEPT ![i] = "awaited"]
          /\ sentUnder' = [sentUnder EXCEPT ![i] = csrf]
          /\ UNCHANGED <<live, jar, begun, read, known, gate, csrf>>
      BY <1>1 DEF SendImport, web, gateVars
    <2>2. RunHolds'
      BY <1>0, <2>1 DEF RunHolds, Gone
    <2>3. ImportKeepsUp'
      BY <1>0, <2>1 DEF ImportKeepsUp, SessionsHold, TokenKeepsUp, Gone
    <2> QED
      BY <2>2, <2>3
  <1>2. ASSUME NEW i \in Imports, NEW ok \in BOOLEAN, Settle(i, ok) PROVE RunHolds' /\ ImportKeepsUp'
    <2>1. /\ flying' = [flying EXCEPT ![i] = "over"]
          /\ UNCHANGED <<live, jar, begun, read, known, gate, session, sentUnder>>
          /\ \/ flying[i] = "awaited" /\ pending' = Nil /\ outcome' = i
             \/ flying[i] = "dropped" /\ UNCHANGED <<pending, outcome>>
      BY <1>2 DEF Settle, web, gateVars
    <2>2. RunHolds'
      BY <1>0, <2>1 DEF RunHolds, Gone
    <2>3. ImportKeepsUp'
      BY <1>0, <2>1 DEF ImportKeepsUp, RunHolds, Gone
    <2> QED
      BY <2>2, <2>3
  <1>3. CASE Paint
    <2>1. /\ outcome' \in {outcome, Nil}
          /\ UNCHANGED <<live, jar, begun, read, known, gate, pending, session, flying, sentUnder>>
      BY <1>3 DEF Paint, web, gateVars
    <2> QED
      BY <1>0, <2>1 DEF RunHolds, ImportKeepsUp, Gone
  <1>4. CASE Mount \/ Unmount \/ PickFile \/ ChooseMode \/ FallBack \/ RunPreview \/ PreviewAnswers
    <2>1. UNCHANGED <<runVars, gate, known, read>>
      BY <1>4 DEF Mount, Unmount, PickFile, ChooseMode, FallBack, RunPreview, PreviewAnswers, web, gateVars
    <2> QED
      BY <1>w, <2>1, RunAlone
  <1>5. CASE AskSession \/ ReadFails \/ PageLoads \/ Press
    <2>1. UNCHANGED <<runVars, gate, known>> /\ read' \in {read, Nil, "asked"}
      BY <1>5 DEF AskSession, ReadFails, PageLoads, Press, web, gateVars
    <2> QED
      BY <1>w, <2>1, RunAlone
  <1>6. ASSUME NEW s \in Sessions, SignIn(s) \/ OtherTabSignsIn(s) \/ SessionEnds(s)
        PROVE  RunHolds' /\ ImportKeepsUp'
    <2>1. /\ \/ UNCHANGED <<runVars, gate, known>>
             \/ UNCHANGED <<runVars, gate>> /\ known' = Nil
          /\ read' \in {read, Nil, "asked"}
      BY <1>6 DEF SignIn, OtherTabSignsIn, SessionEnds, gateVars
    <2> QED
      BY <1>w, <2>1, RunAlone
  <1>7. CASE ServerReads
    <2>1. /\ UNCHANGED <<live, jar, begun, runVars, gate, known>>
          /\ read' = IF jar \in live THEN jar ELSE "nobody"
      BY <1>7 DEF ServerReads, gateVars
    <2>2. RunHolds'
      BY <2>1 DEF RunHolds, Gone, runVars
    <2>3. ImportKeepsUp'
      BY <2>1, TabAssumption DEF ImportKeepsUp, Gone, runVars
    <2> QED
      BY <2>2, <2>3
  <1>8. CASE ReadArrives \/ Conclude
    <2>1. /\ UNCHANGED <<live, jar, begun, runVars, gate>> /\ read' = Nil /\ known' \in {read, known}
      BY <1>8 DEF ReadArrives, Conclude
    <2>2. RunHolds'
      BY <2>1 DEF RunHolds, Gone, runVars
    <2>3. ImportKeepsUp'
      BY <2>1, TabAssumption DEF ImportKeepsUp, Gone, runVars
    <2> QED
      BY <2>2, <2>3
  <1>f. ASSUME Forgotten, \A i \in Imports : flying[i] = "awaited" /\ sentUnder[i] \in Sessions => Gone(sentUnder[i])'
        PROVE  RunHolds' /\ ImportKeepsUp'
    <2>1. /\ pending' = Nil /\ outcome' = Nil /\ UNCHANGED sentUnder
          /\ flying' = [i \in Imports |-> IF flying[i] = "awaited" THEN "dropped" ELSE flying[i]]
      BY <1>f DEF Forgotten
    <2>2. \A i \in Imports : flying'[i] # "awaited"
                             /\ (flying'[i] = "dropped" => flying[i] \in {"awaited", "dropped"})
      BY <2>1
    <2>3. \A i \in Imports : flying[i] = "dropped" /\ sentUnder[i] \in Sessions => Gone(sentUnder[i])'
      BY <1>w, <1>h, <2>1 DEF RunHolds, WorldGoesOn
    <2>4. RunHolds'
      BY <1>0, <1>f, <2>1, <2>2, <2>3 DEF RunHolds
    <2>5. ImportKeepsUp'
      BY <1>0, <2>1 DEF ImportKeepsUp
    <2> QED
      BY <2>4, <2>5
  <1>9. CASE Commit
    <2>1. UNCHANGED <<live, jar, begun, read, known>> /\ gate' = known
      BY <1>9 DEF Commit, web
    <2>2. CASE known # Nil /\ (pending # Nil \/ outcome # Nil) /\ ~Keeps(Token(known))
      <3>1. Forgotten
        BY <1>9, <2>2 DEF Commit
      <3>2. ASSUME NEW i \in Imports, flying[i] = "awaited", sentUnder[i] \in Sessions PROVE Gone(sentUnder[i])'
        <4>1. sentUnder[i] = session
          BY <3>2, <1>0 DEF RunHolds
        <4>2. sentUnder[i] # known
          BY <2>2, <3>2, <4>1, TabAssumption DEF Keeps, Token
        <4>3. Holds(sentUnder[i]) /\ known \in Reads
          BY <2>2, <3>2 DEF Holds, TabTypeOK
        <4>4. Gone(sentUnder[i])
          BY <3>2, <4>2, <4>3 DEF SessionsHold, ReadInOrder
        <4>5. sentUnder' = sentUnder
          BY <3>1 DEF Forgotten
        <4> QED
          BY <2>1, <4>4, <4>5 DEF Gone
      <3> QED
        BY <1>f, <3>1, <3>2
    <2>3. CASE ~(known # Nil /\ (pending # Nil \/ outcome # Nil) /\ ~Keeps(Token(known)))
      <3>1. UNCHANGED runVars
        BY <1>9, <2>3 DEF Commit
      <3>2. RunHolds'
        BY <2>1, <3>1 DEF RunHolds, Gone, runVars
      <3>3. ImportKeepsUp'
        <4> SUFFICES ASSUME NEW i \in Imports \cap {pending, outcome}, known \in Sessions,
                            sentUnder[i] \in Sessions \ {known}
                     PROVE  FALSE
          BY <2>1, <3>1 DEF ImportKeepsUp, runVars
        <4>1. sentUnder[i] = session /\ known # Nil /\ (pending # Nil \/ outcome # Nil)
          BY <1>0, TabAssumption DEF RunHolds
        <4>2. Keeps(Token(known)) /\ Token(known) = known
          BY <2>3, <4>1 DEF Token
        <4> QED
          BY <4>1, <4>2 DEF Keeps
      <3> QED
        BY <3>2, <3>3
    <2> QED
      BY <2>2, <2>3
  <1>10. CASE LogoutAnswers
    <2>1. PICK reached, answered \in BOOLEAN :
             LET ends == reached /\ (jar \notin live \/ jar = leaving.in)
             IN  /\ jar' = IF ends /\ answered THEN Nil ELSE jar
                 /\ IF ends /\ answered
                    THEN Forgotten /\ section' = Told(Nil)
                    ELSE UNCHANGED <<runVars, section>>
      BY <1>10 DEF LogoutAnswers
    <2>2. UNCHANGED <<gate, known>> /\ read' = "asked"
      BY <1>10 DEF LogoutAnswers, gateVars
    <2>3. CASE UNCHANGED runVars
      BY <1>w, <2>2, <2>3, RunAlone
    <2>4. CASE Forgotten /\ jar' = Nil
      <3>1. \A t \in Sessions : Gone(t)'
        BY <2>4, TabAssumption DEF Gone
      <3>2. sentUnder' = sentUnder
        BY <2>4 DEF Forgotten
      <3>3. \A i \in Imports : sentUnder[i] \in Sessions => Gone(sentUnder[i])'
        BY <3>1, <3>2 DEF Gone
      <3> QED
        BY <1>f, <2>4, <3>3
    <2> QED
      BY <2>1, <2>3, <2>4
  <1>11. CASE Reload
    <2>1. /\ pending' = Nil /\ outcome' = Nil
          /\ flying' = [i \in Imports |-> IF flying[i] = "unsent" THEN "unsent" ELSE "over"]
      BY <1>11 DEF Reload
    <2> QED
      BY <1>0, <2>1 DEF RunHolds, ImportKeepsUp
  <1> QED
    BY <1>1, <1>2, <1>3, <1>4, <1>5, <1>6, <1>7, <1>8, <1>9, <1>10, <1>11 DEF TabNext

-----------------------------------------------------------------------------
(* The section.                                                            *)

DraftsHold == SectionHolds /\ OutcomeNotLost /\ PlanIsOfTheDraft

LEMMA TabTypeStep ==
    ASSUME TabTypeOK, TabNext
    PROVE  TabTypeOK'
  <1> DEFINE Outs == [at : {"no", "asked", "answered"}, in : Sessions \cup {Nil}, ended : BOOLEAN]
             Fails == {Nil} \cup [kind : {"refused", "unconfirmed"}, in : Sessions]
             Flights == {"unsent", "awaited", "dropped", "over"}
  <1>0. /\ live \subseteq begun /\ begun \subseteq Sessions /\ jar \in begun \cup {Nil}
        /\ read \in Reads \cup {Nil, "asked"} /\ known \in Reads \cup {Nil} /\ gate \in Reads \cup {Nil}
        /\ csrf \in Sessions \cup {Nil} /\ session \in Sessions \cup {Nil}
        /\ cached \subseteq Sessions /\ left \subseteq Sessions
        /\ leaving \in Outs /\ failure \in Fails
        /\ {pending, outcome, owed} \subseteq Imports \cup {Nil} /\ painted \subseteq Imports
        /\ flying \in [Imports -> Flights] /\ section \in Draft \cup {Nil}
        /\ sentUnder \in [Imports -> Sessions \cup {Nil}]
    BY DEF TabTypeOK
  <1>1. /\ live' \subseteq begun' /\ begun' \subseteq Sessions /\ jar' \in begun' \cup {Nil}
        /\ read' \in Reads \cup {Nil, "asked"} /\ known' \in Reads \cup {Nil} /\ gate' \in Reads \cup {Nil}
        /\ csrf' \in Sessions \cup {Nil}
        /\ cached' \subseteq Sessions /\ left' \subseteq Sessions
    <2> USE <1>0 DEF web, gateVars, outVars, Reads
    <2>1. CASE \E i \in Imports : SendImport(i) \/ \E ok \in BOOLEAN : Settle(i, ok)
      BY <2>1 DEF SendImport, Settle
    <2>2. CASE Paint \/ Mount \/ Unmount \/ PickFile \/ ChooseMode \/ FallBack \/ RunPreview \/ PreviewAnswers
      BY <2>2 DEF Paint, Mount, Unmount, PickFile, ChooseMode, FallBack, RunPreview, PreviewAnswers
    <2>3. CASE AskSession \/ ServerReads \/ ReadArrives \/ ReadFails
      BY <2>3 DEF AskSession, ServerReads, ReadArrives, ReadFails
    <2>4. CASE Commit \/ PageLoads \/ Press \/ Reload
      BY <2>4 DEF Commit, PageLoads, Press, Reload, Token
    <2>5. CASE LogoutAnswers
      BY <2>5 DEF LogoutAnswers
    <2>6. CASE Conclude
      BY <2>6 DEF Conclude, TokenAfter
    <2>7. CASE \E s \in Sessions : SignIn(s) \/ OtherTabSignsIn(s) \/ SessionEnds(s)
      BY <2>7 DEF SignIn, OtherTabSignsIn, SessionEnds
    <2> QED
      BY <2>1, <2>2, <2>3, <2>4, <2>5, <2>6, <2>7 DEF TabNext
  <1>2. leaving' \in Outs /\ failure' \in Fails
    <2> USE <1>0 DEF outVars
    <2>1. CASE \E i \in Imports : SendImport(i) \/ \E ok \in BOOLEAN : Settle(i, ok)
      BY <2>1 DEF SendImport, Settle
    <2>2. CASE Paint \/ Mount \/ Unmount \/ PickFile \/ ChooseMode \/ FallBack \/ RunPreview \/ PreviewAnswers
      BY <2>2 DEF Paint, Mount, Unmount, PickFile, ChooseMode, FallBack, RunPreview, PreviewAnswers
    <2>3. CASE AskSession \/ ServerReads \/ ReadArrives \/ ReadFails \/ Commit \/ PageLoads
      BY <2>3 DEF AskSession, ServerReads, ReadArrives, ReadFails, Commit, PageLoads
    <2>4. CASE Reload
      BY <2>4 DEF Reload, Staying
    <2>p. CASE Press
      <3>1. leaving' = [at |-> "asked", in |-> csrf, ended |-> FALSE] /\ failure' = Nil
        BY <2>p DEF Press
      <3> QED
        BY <3>1
    <2>5. CASE LogoutAnswers
      <3>1. PICK over \in BOOLEAN : leaving' = [leaving EXCEPT !.at = "answered", !.ended = over]
        BY <2>5 DEF LogoutAnswers
      <3> QED
        BY <2>5, <3>1 DEF LogoutAnswers
    <2>6. CASE Conclude
      BY <2>6 DEF Conclude, Failed, Staying
    <2>7. CASE \E s \in Sessions : SignIn(s) \/ OtherTabSignsIn(s) \/ SessionEnds(s)
      BY <2>7 DEF SignIn, OtherTabSignsIn, SessionEnds
    <2> QED
      BY <2>1, <2>2, <2>3, <2>4, <2>p, <2>5, <2>6, <2>7 DEF TabNext
  <1>3. /\ session' \in Sessions \cup {Nil}
        /\ {pending', outcome', owed'} \subseteq Imports \cup {Nil} /\ painted' \subseteq Imports
        /\ flying' \in [Imports -> Flights] /\ sentUnder' \in [Imports -> Sessions \cup {Nil}]
    <2> DEFINE Goal ==
          /\ session' \in Sessions \cup {Nil}
          /\ {pending', outcome', owed'} \subseteq Imports \cup {Nil} /\ painted' \subseteq Imports
          /\ flying' \in [Imports -> Flights] /\ sentUnder' \in [Imports -> Sessions \cup {Nil}]
    <2> USE <1>0 DEF runVars
    <2>1. CASE UNCHANGED runVars
      BY <2>1
    <2>2. CASE Forgotten
      BY <2>2 DEF Forgotten
    <2>3. ASSUME NEW i \in Imports, SendImport(i) PROVE Goal
      BY <2>3 DEF SendImport
    <2>4. ASSUME NEW i \in Imports, NEW ok \in BOOLEAN, Settle(i, ok) PROVE Goal
      BY <2>4 DEF Settle
    <2>5. CASE Paint
      <3>1. section.outcome \in Imports \cup {Nil}
        BY <2>5 DEF Paint, Draft
      <3> QED
        BY <2>5, <3>1 DEF Paint
    <2>6. CASE Reload
      BY <2>6 DEF Reload
    <2>7. CASE Mount \/ Unmount \/ PickFile \/ ChooseMode \/ FallBack \/ RunPreview \/ PreviewAnswers
      BY <2>1, <2>7 DEF Mount, Unmount, PickFile, ChooseMode, FallBack, RunPreview, PreviewAnswers
    <2>8. CASE AskSession \/ ServerReads \/ ReadArrives \/ ReadFails \/ PageLoads \/ Press \/ Conclude
      BY <2>1, <2>8 DEF AskSession, ServerReads, ReadArrives, ReadFails, PageLoads, Press, Conclude
    <2>9. CASE Commit \/ LogoutAnswers
      BY <2>1, <2>2, <2>9 DEF Commit, LogoutAnswers
    <2>10. CASE \E s \in Sessions : SignIn(s) \/ OtherTabSignsIn(s) \/ SessionEnds(s)
      BY <2>1, <2>10 DEF SignIn, OtherTabSignsIn, SessionEnds
    <2> QED
      BY <2>3, <2>4, <2>5, <2>6, <2>7, <2>8, <2>9, <2>10 DEF TabNext
  <1>4. section' \in Draft \cup {Nil}
    <2> USE <1>0
    <2>1. \A ended \in Imports \cup {Nil} : Told(ended) \in Draft \cup {Nil}
      BY DEF Told, Draft
    <2>2. ASSUME NEW i \in Imports, SendImport(i) PROVE section' \in Draft \cup {Nil}
      BY <2>2 DEF SendImport, Draft
    <2>3. ASSUME NEW i \in Imports, NEW ok \in BOOLEAN, Settle(i, ok) PROVE section' \in Draft \cup {Nil}
      <3>1. section # Nil => [section EXCEPT !.outcome = i, !.file = FALSE, !.plan = Nil] \in Draft
        BY DEF Draft
      <3> QED
        BY <2>1, <2>3, <3>1 DEF Settle
    <2>4. CASE Mount
      BY <2>4 DEF Mount, Draft, Modes
    <2>m. ASSUME NEW draft \in Draft PROVE Moved(draft) \in Draft
      BY DEF Moved, Draft
    <2>n. ASSUME NEW draft \in Draft, NEW chosen \in BOOLEAN, NEW mode \in Modes
          PROVE  /\ [draft EXCEPT !.file = chosen, !.outcome = Nil] \in Draft
                 /\ [draft EXCEPT !.mode = mode, !.outcome = Nil] \in Draft
                 /\ [draft EXCEPT !.mode = mode] \in Draft
      <3>1. [draft EXCEPT !.file = chosen, !.outcome = Nil] \in Draft
        BY DEF Draft
      <3>2. [draft EXCEPT !.mode = mode, !.outcome = Nil] \in Draft
        BY DEF Draft
      <3>3. [draft EXCEPT !.mode = mode] \in Draft
        BY DEF Draft
      <3> QED
        BY <3>1, <3>2, <3>3
    <2>5. CASE PickFile \/ ChooseMode \/ FallBack
      <3> DEFINE d == Moved(section)
      <3>0. section \in Draft /\ d \in Draft
        BY <2>5, <2>m DEF PickFile, ChooseMode, FallBack
      <3>1. CASE PickFile
        <4>1. PICK chosen \in BOOLEAN : section' = [d EXCEPT !.file = chosen, !.outcome = Nil]
          BY <3>1 DEF PickFile
        <4>2. "merge" \in Modes
          BY DEF Modes
        <4> HIDE DEF d
        <4> QED
          BY <2>n, <3>0, <4>1, <4>2
      <3>2. CASE ChooseMode
        <4>1. PICK mode \in Modes : section' = [d EXCEPT !.mode = mode, !.outcome = Nil]
          BY <3>2 DEF ChooseMode
        <4> HIDE DEF d
        <4> QED
          BY <2>n, <3>0, <4>1
      <3>3. CASE FallBack
        <4>1. section' = [d EXCEPT !.mode = "merge"] /\ "merge" \in Modes
          BY <3>3 DEF FallBack, Modes
        <4> HIDE DEF d
        <4> QED
          BY <2>n, <3>0, <4>1
      <3> QED
        BY <2>5, <3>1, <3>2, <3>3
    <2>6. CASE RunPreview
      BY <2>6 DEF RunPreview, Draft
    <2>7. CASE PreviewAnswers
      BY <2>7 DEF PreviewAnswers, Draft
    <2>8. CASE Commit \/ LogoutAnswers
      BY <2>1, <2>8 DEF Commit, LogoutAnswers
    <2>9. CASE Paint \/ Unmount \/ Reload \/ AskSession \/ ServerReads \/ ReadArrives \/ ReadFails
               \/ PageLoads \/ Press \/ Conclude
      BY <2>9 DEF Paint, Unmount, Reload, AskSession, ServerReads, ReadArrives, ReadFails,
                  PageLoads, Press, Conclude
    <2>10. CASE \E s \in Sessions : SignIn(s) \/ OtherTabSignsIn(s) \/ SessionEnds(s)
      BY <2>10 DEF SignIn, OtherTabSignsIn, SessionEnds
    <2> QED
      BY <2>2, <2>3, <2>4, <2>5, <2>6, <2>7, <2>8, <2>9, <2>10 DEF TabNext
  <1> QED
    BY <1>1, <1>2, <1>3, <1>4 DEF TabTypeOK

LEMMA DraftsStep ==
    ASSUME TabTypeOK, RunHolds, DraftsHold, TabNext
    PROVE  DraftsHold'
  <1> USE DEF DraftsHold
  <1>0. /\ {pending, outcome, owed} \subseteq Imports \cup {Nil} /\ painted \subseteq Imports
        /\ Nil \notin Imports /\ Nil \notin Sessions /\ section \in Draft \cup {Nil}
    BY TabAssumption DEF TabTypeOK
  <1>a. ASSUME UNCHANGED <<section, gate, runVars>> PROVE DraftsHold'
    BY <1>a DEF SectionHolds, OutcomeNotLost, PlanIsOfTheDraft, runVars
  <1>f. ASSUME Forgotten, section' = Nil \/ (section' = Told(Nil) /\ (section # Nil => gate' \in Sessions))
        PROVE  DraftsHold'
    <2>1. pending' = Nil /\ outcome' = Nil /\ owed' = Nil /\ painted' = painted
      BY <1>f DEF Forgotten
    <2>2. CASE section' = Nil
      BY <2>1, <2>2 DEF SectionHolds, OutcomeNotLost, PlanIsOfTheDraft
    <2>3. CASE section' = Told(Nil) /\ section # Nil /\ gate' \in Sessions
      <3>1. /\ section'.outcome = Nil /\ section'.preview = section.preview /\ section'.late = section.late
            /\ section'.mode = section.mode /\ section'.file = section.file /\ section'.plan = section.plan
        BY <1>0, <2>3 DEF Told, Draft
      <3> QED
        BY <1>0, <2>1, <2>3, <3>1 DEF SectionHolds, OutcomeNotLost, PlanIsOfTheDraft
    <2> QED
      BY <1>f, <2>2, <2>3 DEF Told
  <1>1. ASSUME NEW i \in Imports, SendImport(i) PROVE DraftsHold'
    <2>1. /\ section # Nil /\ section.preview = Nil /\ section' = [section EXCEPT !.outcome = Nil]
          /\ outcome' = Nil /\ owed' = Nil /\ painted' = painted /\ gate' = gate
      BY <1>1 DEF SendImport, gateVars
    <2>2. /\ section'.outcome = Nil /\ section'.preview = Nil
          /\ section'.mode = section.mode /\ section'.file = section.file /\ section'.plan = section.plan
      BY <1>0, <2>1 DEF Draft
    <2> QED
      BY <1>0, <2>1, <2>2 DEF SectionHolds, OutcomeNotLost, PlanIsOfTheDraft
  <1>2. ASSUME NEW i \in Imports, NEW ok \in BOOLEAN, Settle(i, ok) PROVE DraftsHold'
    <2>1. UNCHANGED <<gate, painted>>
      BY <1>2 DEF Settle, gateVars
    <2>2. CASE flying[i] = "awaited"
      <3>1. pending = i /\ pending' = Nil /\ outcome' = i /\ owed' = i
        BY <1>2, <2>2 DEF Settle, RunHolds
      <3>2. CASE section = Nil
        BY <1>2, <2>1, <2>2, <3>1, <3>2 DEF Settle, Told, SectionHolds, OutcomeNotLost, PlanIsOfTheDraft
      <3>3. CASE section # Nil
        <4>1. section.preview = Nil
          BY <1>0, <3>1, <3>3 DEF SectionHolds
        <4>2. /\ section'.outcome = i /\ section'.preview = Nil /\ section'.mode = section.mode
              /\ \/ section'.plan = Nil
                 \/ section'.plan = section.plan /\ section'.file = section.file
          BY <1>0, <1>2, <2>2, <3>3, <4>1 DEF Settle, Told, Draft
        <4> QED
          BY <1>0, <2>1, <3>1, <3>3, <4>1, <4>2 DEF SectionHolds, OutcomeNotLost, PlanIsOfTheDraft
      <3> QED
        BY <3>2, <3>3
    <2>3. CASE flying[i] # "awaited"
      BY <1>2, <2>1, <2>3 DEF Settle, SectionHolds, OutcomeNotLost, PlanIsOfTheDraft
    <2> QED
      BY <2>2, <2>3
  <1>3. CASE Paint
    <2>1. /\ section # Nil /\ section.outcome # Nil /\ painted' = painted \cup {section.outcome}
          /\ outcome' = IF outcome = section.outcome THEN Nil ELSE outcome
          /\ UNCHANGED <<gate, pending, owed, section>>
      BY <1>3 DEF Paint, gateVars
    <2> QED
      BY <1>0, <2>1 DEF SectionHolds, OutcomeNotLost, PlanIsOfTheDraft
  <1>4. CASE Mount
    <2>1. /\ gate \in Sessions /\ UNCHANGED <<gate, pending, outcome, owed, painted>>
          /\ section' = [file |-> FALSE, mode |-> "merge", plan |-> Nil, preview |-> Nil,
                         late |-> FALSE, outcome |-> outcome]
      BY <1>4 DEF Mount, gateVars, runVars
    <2>2. section'.outcome = outcome /\ section'.preview = Nil /\ section'.plan = Nil
      BY <2>1
    <2> QED
      BY <2>1, <2>2 DEF SectionHolds, OutcomeNotLost, PlanIsOfTheDraft
  <1>5. CASE Unmount \/ Reload
    BY <1>5 DEF Unmount, Reload, runVars, SectionHolds, OutcomeNotLost, PlanIsOfTheDraft
  <1>6. CASE PickFile \/ ChooseMode \/ FallBack
    <2>1. section # Nil /\ UNCHANGED <<gate, pending, outcome, owed, painted>>
      BY <1>6 DEF PickFile, ChooseMode, FallBack, gateVars, runVars
    <2>2. /\ section'.plan = Nil /\ section'.preview = section.preview
          /\ section'.outcome \in {section.outcome, Nil}
          /\ section'.late = (section.preview # Nil)
      <3> DEFINE d == Moved(section)
      <3>1. /\ d \in Draft /\ d.plan = Nil /\ d.preview = section.preview /\ d.outcome = section.outcome
            /\ d.late = (section.preview # Nil)
        BY <1>0, <2>1 DEF Moved, Draft
      <3>2. \/ \E chosen \in BOOLEAN : section' = [d EXCEPT !.file = chosen, !.outcome = Nil]
            \/ \E mode \in Modes : section' = [d EXCEPT !.mode = mode, !.outcome = Nil]
            \/ section' = [d EXCEPT !.mode = "merge"]
        BY <1>6 DEF PickFile, ChooseMode, FallBack
      <3> HIDE DEF d
      <3> QED
        BY <3>1, <3>2 DEF Draft
    <2>3. SectionHolds' /\ PlanIsOfTheDraft' /\ OutcomeNotLost'
      BY <1>0, <2>1, <2>2 DEF SectionHolds, OutcomeNotLost, PlanIsOfTheDraft
    <2> QED
      BY <2>3
  <1>7. CASE RunPreview
    <2>1. section # Nil /\ section.file /\ pending = Nil /\ UNCHANGED <<gate, pending, outcome, owed, painted>>
      BY <1>7 DEF RunPreview, gateVars, runVars
    <2>2. /\ section'.plan = section.plan /\ section'.preview = section.mode /\ section'.mode = section.mode
          /\ section'.outcome = Nil /\ section'.file = section.file
      BY <1>0, <1>7, <2>1 DEF RunPreview, Draft
    <2> QED
      BY <1>0, <2>1, <2>2 DEF SectionHolds, OutcomeNotLost, PlanIsOfTheDraft
  <1>8. CASE PreviewAnswers
    <2>1. section # Nil /\ section.preview # Nil /\ UNCHANGED <<gate, pending, outcome, owed, painted>>
      BY <1>8 DEF PreviewAnswers, gateVars, runVars
    <2>2. /\ section'.preview = Nil /\ section'.mode = section.mode
          /\ section'.outcome = section.outcome /\ section'.file = section.file
          /\ \/ section.late /\ section'.plan = section.plan
             \/ ~section.late /\ section'.plan \in {section.preview, Nil}
      BY <1>0, <1>8, <2>1 DEF PreviewAnswers, Draft
    <2> QED
      BY <1>0, <2>1, <2>2 DEF SectionHolds, OutcomeNotLost, PlanIsOfTheDraft
  <1>9. CASE Commit
    <2> DEFINE forgets == known # Nil /\ (pending # Nil \/ outcome # Nil) /\ ~Keeps(Token(known))
    <2>1. /\ gate' = known
          /\ IF forgets THEN Forgotten ELSE UNCHANGED runVars
          /\ section' = IF known \notin Sessions THEN Nil
                        ELSE IF forgets THEN Told(Nil) ELSE section
      BY <1>9 DEF Commit
    <2> HIDE DEF forgets
    <2>2. CASE forgets
      BY <1>f, <2>1, <2>2
    <2>3. CASE ~forgets
      BY <2>1, <2>3 DEF SectionHolds, OutcomeNotLost, PlanIsOfTheDraft, runVars
    <2> QED
      BY <2>2, <2>3
  <1>10. CASE LogoutAnswers
    <2>1. /\ gate' = gate
          /\ \/ Forgotten /\ section' = Told(Nil)
             \/ UNCHANGED <<runVars, section>>
      BY <1>10 DEF LogoutAnswers, gateVars
    <2>2. section # Nil => gate \in Sessions
      BY DEF SectionHolds
    <2> QED
      BY <1>a, <1>f, <2>1, <2>2
  <1>11. CASE AskSession \/ ServerReads \/ ReadArrives \/ ReadFails \/ PageLoads \/ Press \/ Conclude
    <2>1. UNCHANGED <<section, gate, runVars>>
      BY <1>11 DEF AskSession, ServerReads, ReadArrives, ReadFails, PageLoads, Press, Conclude, gateVars
    <2> QED
      BY <1>a, <2>1
  <1>12. CASE \E s \in Sessions : SignIn(s) \/ OtherTabSignsIn(s) \/ SessionEnds(s)
    <2>1. UNCHANGED <<section, gate, runVars>>
      BY <1>12 DEF SignIn, OtherTabSignsIn, SessionEnds, gateVars
    <2> QED
      BY <1>a, <2>1
  <1> QED
    BY <1>1, <1>2, <1>3, <1>4, <1>5, <1>6, <1>7, <1>8, <1>9, <1>10, <1>11, <1>12 DEF TabNext

-----------------------------------------------------------------------------

LEMMA TabInitially ==
    ASSUME TabInit
    PROVE  TabInv
  <1> USE TabAssumption DEF TabInit
  <1>1. TabTypeOK
    BY DEF TabTypeOK, Staying
  <1>2. \A t \in Sessions : ~Holds(t)
    BY DEF Holds, Staying
  <1>3. ReadInOrder /\ TokenKeepsUp /\ LeavesForGood
    BY <1>2 DEF ReadInOrder, TokenKeepsUp, LeavesForGood, Staying, Said
  <1>4. RunHolds /\ ImportKeepsUp
    BY DEF RunHolds, ImportKeepsUp
  <1>5. SectionHolds /\ OutcomeNotLost /\ PlanIsOfTheDraft
    BY DEF SectionHolds, OutcomeNotLost, PlanIsOfTheDraft
  <1> QED
    BY <1>1, <1>3, <1>4, <1>5 DEF TabInv

LEMMA TabStep == TabInv /\ [TabNext]_tabVars => TabInv'
  <1> SUFFICES ASSUME TabInv, [TabNext]_tabVars PROVE TabInv'
    OBVIOUS
  <1>1. CASE TabNext
    <2>1. TabTypeOK' /\ SessionsHold' /\ RunHolds' /\ ImportKeepsUp' /\ DraftsHold'
      BY <1>1, TabTypeStep, SessionsStep, RunStep, DraftsStep DEF TabInv, SessionsHold, DraftsHold
    <2> QED
      BY <2>1 DEF TabInv, SessionsHold, DraftsHold
  <1>2. CASE UNCHANGED tabVars
    BY <1>2 DEF tabVars, web, gateVars, outVars, runVars, TabInv, TabTypeOK, ReadInOrder, TokenKeepsUp,
                LeavesForGood, RunHolds, ImportKeepsUp, SectionHolds, OutcomeNotLost, PlanIsOfTheDraft,
                Holds, Gone, Said
  <1> QED
    BY <1>1, <1>2

LEMMA TabKeepsImports ==
    ASSUME TabInv
    PROVE  ImportStaysWithItsSession
  <1>0. Nil \notin Imports /\ sentUnder \in [Imports -> Sessions \cup {Nil}]
    BY TabAssumption DEF TabInv, TabTypeOK
  <1>1. OnlyItsSession
    <2> SUFFICES ASSUME Settled, NEW i \in Imports,
                        \/ i \in {pending, outcome}
                        \/ section # Nil /\ section.outcome = i /\ i \notin painted
                 PROVE  sentUnder[i] \in {gate, Nil}
      BY DEF OnlyItsSession
    <2>1. i \in {pending, outcome}
      BY DEF TabInv, SectionHolds
    <2> QED
      BY <1>0, <2>1 DEF TabInv, ImportKeepsUp, Settled
  <1>2. OneInTheAir
    BY <1>0, TabAssumption DEF TabInv, TabTypeOK, RunHolds, Gone, OneInTheAir
  <1> QED
    BY <1>1, <1>2 DEF TabInv, ImportStaysWithItsSession

LEMMA TabSettles ==
    ASSUME TabInv
    PROVE  SignOutSettles
  <1>1. jar = gate /\ jar \in live => csrf = gate
    BY DEF TabInv, TabTypeOK, TokenKeepsUp, Gone
  <1> QED
    BY <1>1 DEF TabInv, LeavesForGood, SignOutSettles

\* Whatever answers are late or lost and whoever else signs in or out: a tab shows and
\* keeps an import only in the session that sent it, one of a live session is in the
\* air, and its outcome is not lost before it was shown.
THEOREM ImportsStayWithTheirSession == TabSpec => []ImportStaysWithItsSession
  <1>1. TabInit => TabInv
    BY TabInitially
  <1>2. TabInv => ImportStaysWithItsSession
    BY TabKeepsImports
  <1> QED
    BY <1>1, <1>2, TabStep, PTL DEF TabSpec

\* A tab that shows the cookie's session has its token, nothing cached of one it
\* signed out of, and never says of that one that it is still signed in.
THEOREM SignOutsSettle == TabSpec => []SignOutSettles
  <1>1. TabInit => TabInv
    BY TabInitially
  <1>2. TabInv => SignOutSettles
    BY TabSettles
  <1> QED
    BY <1>1, <1>2, TabStep, PTL DEF TabSpec

=============================================================================
