---------------------------- MODULE MCImportPlan ----------------------------
(* Instances of ImportPlan and Intake for TLC: what an import does with    *)
(* its files, and how the files are read.  They share no state, so each is *)
(* explored with the other at rest.                                        *)
EXTENDS ImportPlan, Intake, TLC

VARIABLE moving

CONSTANTS o1, o2, l1, l2, k1, k2, k3, t1, t2, p1, n1, n2

Pending(number) == [number |-> number, shipped |-> None, received |-> None]
LineOfKits(o, q) == [order |-> o, type |-> "kit", ref |-> None, quantity |-> q]
LineOfTools(o, t, q) == [order |-> o, type |-> "tool", ref |-> t, quantity |-> q]
Bought(l, status) == [line |-> l, status |-> status, rating |-> None]

\* Two orders of one kit each; one order of two kits; a line that older
\* importers left with a kit too many; stock bought, pending and received;
\* a line whose item is gone; nothing.
MCStarts ==
    {Nothing,
     [Nothing EXCEPT
        !.orders = o1 :> Pending(n1) @@ o2 :> Pending(None),
        !.lines = l1 :> LineOfKits(o1, 1) @@ l2 :> LineOfKits(o2, 1),
        !.kits = k1 :> Bought(l1, "ordered") @@ k2 :> Bought(l2, "ordered")],
     [Nothing EXCEPT
        !.orders = o1 :> Pending(n1),
        !.lines = l1 :> LineOfKits(o1, 1),
        !.kits = k1 :> Bought(l1, "ordered") @@ k2 :> Bought(l1, "backlog")],
     [Nothing EXCEPT
        !.items = t1 :> [name |-> n1, onHand |-> 0],
        !.orders = o1 :> Pending(None),
        !.lines = l1 :> LineOfTools(o1, t1, 1)],
     [Nothing EXCEPT
        !.orders = o1 :> Pending(n1),
        !.lines = l1 :> LineOfTools(o1, t1, 1)]}

NoRow == [x \in {} |-> x]

\* Sheets of kit lines' quantities, of kits moved or worked on, and a photo.
QuantityRows(l, o) ==
    {NoRow} \cup {l :> [order |-> o, quantity |-> q] : q \in {1, 2}}
KitSheets ==
    {NoRow, k1 :> [line |-> l2] @@ k2 :> [line |-> l1],
     k3 :> [line |-> l1], Unnamed :> [line |-> l2, status |-> "ordered"]}
    \cup {k1 :> c : c \in {[status |-> "building"], [line |-> l2], [line |-> None],
                           [line |-> l2, status |-> "building"]}}
    \cup {k2 :> c : c \in {[line |-> l1], [line |-> None, rating |-> 5]}}
KitFiles ==
    {[Nothing EXCEPT !.lines = a @@ b, !.kits = k] :
        a \in QuantityRows(l1, o1), b \in QuantityRows(l2, o2), k \in KitSheets}
    \cup
    {[Nothing EXCEPT !.lines = a, !.photos = p] :
        a \in QuantityRows(l1, o1), p \in {p1 :> [kit |-> k1], Unnamed :> [kit |-> k2]}}

\* Sheets of orders and lines, under their own ids or another collection's.
OrderCells ==
    {[number |-> n1], [number |-> n1, received |-> "day"],
     [number |-> None, shipped |-> "day"], [received |-> None, shipped |-> None]}
OrderSheets ==
    {NoRow} \cup {o1 :> c : c \in OrderCells}
            \cup {o :> [number |-> n1, shipped |-> "day"] : o \in {o2, Unnamed}}
LineCells(o) ==
    {[order |-> o, type |-> "tool", named |-> n1, quantity |-> 1],
     [order |-> o, type |-> "tool", ref |-> t2, named |-> n2, quantity |-> 1],
     [order |-> o, type |-> "kit", quantity |-> 1, kit |-> "kit",
      status |-> IF o = o1 THEN None ELSE "building"]}
LineSheets ==
    {NoRow, l1 :> [order |-> o1, ref |-> None],
     l1 :> [order |-> o1, type |-> "tool", ref |-> t1, quantity |-> 2]}
    \cup {l :> c : l \in {l2, Unnamed}, c \in LineCells(o1) \cup LineCells(o2)}
ItemSheets == {NoRow, t2 :> [name |-> n1]}
OrderFiles ==
    {[Nothing EXCEPT !.items = i, !.orders = o, !.lines = l] :
        i \in ItemSheets, o \in OrderSheets, l \in LineSheets}

MCUploads == KitFiles \cup OrderFiles

\* The archive at rest where it is not read.
Unopened ==
    /\ exported = [t \in Tables |-> {}] /\ members = <<>> /\ manifests = 0
    /\ manifest = [text |-> "good", newer |-> FALSE] /\ damage = 0 /\ verdict = Unread

EitherStart ==
    \/ moving = "plan" /\ Init /\ Unopened
    \/ moving = "intake" /\ Init /\ db = Nothing /\ IntakeInit

PlanMoves == moving = "plan" /\ Next /\ UNCHANGED <<moving, intakeVars>>

IntakeMoves == moving = "intake" /\ IntakeNext /\ UNCHANGED <<moving, vars>>

EitherMoves == PlanMoves \/ IntakeMoves

EitherSpec == EitherStart /\ [][EitherMoves]_<<moving, vars, intakeVars>>

=============================================================================
