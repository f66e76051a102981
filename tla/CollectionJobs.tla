--------------------------- MODULE CollectionJobs ---------------------------
(***************************************************************************)
(* What single requests do to the collection, each as a decision taken     *)
(* from one state of the database and a result written to it: the services *)
(* of orders.py and kits.py, and the importer of portability/importing.py. *)
(* Collection.tla has the services in detail; here a row is as coarse as   *)
(* the concurrency of whole transactions needs.  An order has one kit.     *)
(***************************************************************************)
EXTENDS Integers, FiniteSets

CONSTANTS
    Ids,      \* orders; an order and its kit share an identity
    None

OrderStates == {"open", "received"}
KitStates == {"in_transit", "backlog", "in_progress"}

ASSUME NoneIsNoState == None \notin OrderStates \cup KitStates

\* retailers counts the rows bearing the one shop name the requests use.
Databases == [retailers : Nat,
              orders : [Ids -> OrderStates \cup {None}],
              kits : [Ids -> KitStates \cup {None}]]

EmptyDatabase == [retailers |-> 0,
                  orders |-> [x \in Ids |-> None],
                  kits |-> [x \in Ids |-> None]]

\* A single-row job names one order; an import names the orders of its sheet,
\* each of which the sheet says was received.
RowKinds == {"create_order", "receive_order", "update_kit", "delete_order"}
ImportKinds == {"merge", "replace_all"}
ReadKinds == {"export", "summary"}

JobsOf(kinds) ==
    [kind : kinds \cap RowKinds, ids : {{x} : x \in Ids}]
    \cup [kind : kinds \cap ImportKinds, ids : SUBSET Ids \ {{}}]
    \cup [kind : kinds \cap ReadKinds, ids : {{}}]

\* Refusals: an order received twice, an order or a kit that is not there, an
\* order whose kit the owner has started building.
Allowed(job, s) ==
    \A x \in job.ids :
        CASE job.kind = "receive_order" -> s.orders[x] = "open"
          [] job.kind = "update_kit" -> s.kits[x] # None
          [] job.kind = "delete_order" -> s.orders[x] # None /\ s.kits[x] # "in_progress"
          [] OTHER -> TRUE

Arrived(kit) == IF kit = "in_transit" THEN "backlog" ELSE kit

\* A shop given by name is reused when a row has it, and created when none has.
WithRetailer(n) == IF n = 0 THEN 1 ELSE n

\* The state a job leaves, decided from the state s it read.
Outcome(job, s) ==
    LET On(f, g) == [x \in Ids |-> IF x \in job.ids THEN g[x] ELSE f[x]]
        all(v) == [x \in Ids |-> v]
        absent == {x \in job.ids : s.orders[x] = None}
    IN  CASE job.kind = "create_order" ->
                [retailers |-> WithRetailer(s.retailers),
                 orders |-> On(s.orders, all("open")),
                 kits |-> On(s.kits, all("in_transit"))]
          [] job.kind = "receive_order" ->
                [s EXCEPT !.orders = On(@, all("received")),
                          !.kits = On(@, [x \in Ids |-> Arrived(s.kits[x])])]
          [] job.kind = "update_kit" -> [s EXCEPT !.kits = On(@, all("in_progress"))]
          [] job.kind = "delete_order" ->
                [s EXCEPT !.orders = On(@, all(None)), !.kits = On(@, all(None))]
          [] job.kind = "merge" ->
                [retailers |-> IF absent # {} THEN WithRetailer(s.retailers) ELSE s.retailers,
                 orders |-> On(s.orders, all("received")),
                 kits |-> On(s.kits, [x \in Ids |->
                              CASE s.orders[x] = None -> "backlog"
                                [] s.orders[x] = "open" -> Arrived(s.kits[x])
                                [] OTHER -> s.kits[x]])]
          [] job.kind = "replace_all" ->
                [retailers |-> 1,
                 orders |-> On(EmptyDatabase.orders, all("received")),
                 kits |-> On(EmptyDatabase.kits, all("backlog"))]
          [] OTHER -> s

\* A collection the services can have left: an order has its kit, and a shop.
Reachable(s) ==
    /\ s.retailers \in {0, 1}
    /\ \A x \in Ids : /\ s.orders[x] = None <=> s.kits[x] = None
                      /\ s.orders[x] = "received" => s.kits[x] # "in_transit"
                      /\ s.orders[x] # None => s.retailers = 1

=============================================================================
