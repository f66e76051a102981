SPECIFICATION Spec
CONSTANTS
    OrderIds = {o1, o2}
    LineIds = {l1, l2}
    KitIds = {k1, k2}
    AppIds = {a1}
    Tools = {t1, t2}
    Upgrades = {u1}
    MaxLineQuantity = 2
    MaxTotalFanout = 2
    MaxInt4 = 2
    MaxRows = 5
    None = None
SYMMETRY RowSymmetry
INVARIANTS TypeOK LineAccounted StockExplained DanglingUndoable LineBacked
PROPERTIES CommitsSpareTheRest
CONSTRAINT FewRows
