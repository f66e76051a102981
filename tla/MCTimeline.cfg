SPECIFICATION EitherSpec
CONSTANTS
    OrderIds = {o1}
    KitIds = {k1, k2}
    Days <- MCDays
    BuildDays <- MCBuildDays
    MaxClock = 7
    None = None
    Unset = Unset
    LineIds = {l1, l2}
    Currencies = {AUD, GBP}
    Amounts = {1, 2}
    KitRow = KitRow
    Null = Null
    LeftOut = LeftOut
    Sessions = {s1, s2}
    Imports = {i1, i2}
    Nil = Nil
SYMMETRY TabSymmetry
CHECK_DEADLOCK FALSE
INVARIANTS ReceiptOwnsItsKits KitsKeepUp ImportStaysWithItsSession SignOutSettles
PROPERTIES DatesKept RecordsHold
