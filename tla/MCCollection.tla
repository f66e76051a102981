---------------------------- MODULE MCCollection ----------------------------
(* A small instance of Collection for TLC.                                 *)
EXTENDS Collection, TLC

CONSTANT MaxRows  \* bounds the rows of all tables but orders together

ASSUME RowsAssumption == MaxRows \in Nat

Rows(table) == {x \in DOMAIN table : table[x] # None}

\* Beyond it a state is checked but not left, so every table may be full while
\* others are not.
FewRows ==
    Cardinality(Rows(lines)) + Cardinality(Rows(kits)) + Cardinality(Rows(stock))
        + Cardinality(Rows(apps)) <= MaxRows

\* Row ids are uuids the code only compares, so permuting them is sound.
RowSymmetry ==
    Permutations(OrderIds) \cup Permutations(LineIds) \cup Permutations(KitIds)
        \cup Permutations(AppIds) \cup Permutations(Tools) \cup Permutations(Upgrades)

=============================================================================
