SPECIFICATION Spec
CONSTANTS
    GrantIds = {g1, g2}
    Codes = {c1}
    Tokens = {t1, t2}
    Requests = {r1, r2}
    Identities = {i1, i2}
    MaxRotation = 2
    None = None
INVARIANTS EndedForGood CurrentPair OneAuthoriser
PROPERTIES RebindGetsLocks
CHECK_DEADLOCK FALSE
