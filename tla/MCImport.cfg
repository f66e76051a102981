SPECIFICATION EitherSpec
CONSTANTS
    o1 = o1
    o2 = o2
    l1 = l1
    l2 = l2
    k1 = k1
    k2 = k2
    k3 = k3
    t1 = t1
    t2 = t2
    p1 = p1
    n1 = n1
    n2 = n2
    OrderIds = {o1, o2}
    LineIds = {l1, l2}
    KitIds = {k1, k2, k3}
    ItemIds = {t1, t2}
    PhotoIds = {p1}
    Names = {n1, n2}
    Uploads <- MCUploads
    Starts <- MCStarts
    MaxLineQuantity = 2
    MaxTotalFanout = 1
    MaxOnHand = 2
    MaxImports = 2
    None = None
    Tables = {"kits", "orders"}
    Rows = {1, 2}
    MaxDamage = 2
    MaxExpanded = 9
CHECK_DEADLOCK FALSE
INVARIANTS OwnArchive ReceiptsAccounted NothingLostUnseen
PROPERTIES AsPlanned RefsLand
