----------------------------- MODULE MCTimeline -----------------------------
(* Instances of Timeline, PriceSnapshot and Tab for TLC: what an update of an  *)
(* order or a kit, and of a line or the reference currency, does to what was   *)
(* recorded before it, and what the browser keeps of sessions and imports.     *)
(* They share no state here, so each is explored with the others at rest.      *)
EXTENDS Timeline, PriceSnapshot, Tab, TLC

VARIABLE moving

MCDays == {-2, -1}
MCBuildDays == {-3}

Start ==
    /\ Init /\ SnapshotInit /\ TabInit
    /\ moving \in {"dates", "prices", "tab"}
    /\ moving # "prices" => reference = CHOOSE c \in Currencies : TRUE

DatesMove == moving = "dates" /\ Next /\ UNCHANGED <<moving, snapshotVars, tabVars>>

PricesMove == moving = "prices" /\ SnapshotNext /\ UNCHANGED <<moving, vars, tabVars>>

TabMoves == moving = "tab" /\ TabNext /\ UNCHANGED <<moving, vars, snapshotVars>>

EitherMoves == DatesMove \/ PricesMove \/ TabMoves

EitherSpec == Start /\ [][EitherMoves]_<<moving, vars, snapshotVars, tabVars>>

TabSymmetry == Permutations(Sessions) \cup Permutations(Imports)

=============================================================================
