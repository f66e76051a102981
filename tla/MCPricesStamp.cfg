SPECIFICATION SnapshotSpec
CONSTANTS
    LineIds = {l1, l2}
    Currencies = {AUD, GBP}
    Amounts = {1}
    KitRow = KitRow
    Null = Null
    LeftOut = LeftOut
INVARIANTS StampedAtWrite
