SPECIFICATION EitherSpec
CONSTANTS
    OrderIds = {o1}
    KitIds = {k1, k2}
    Days <- MCDays
    BuildDays <- MCBuildDays
    MaxClock = 8
    None = None
    Unset = Unset
    LineIds = {l1, l2}
    Currencies = {AUD, GBP}
    Amounts = {1}
    KitRow = KitRow
    Null = Null
    LeftOut = LeftOut
    Sessions = {s1}
    Imports = {i1}
    Nil = Nil
CHECK_DEADLOCK FALSE
PROPERTIES CorrectionFollowsReceipt
