SPECIFICATION EitherSpec
CONSTANTS
    Requests = {r1}
    Tokens = {t1, t2}
    Sessions = {s1}
    Addresses = {a1, a2}
    Recorders = {w1, w2}
    PerAddress = 2
    PerWindow = 3
    MaxRefused = 6
    None = None
INVARIANTS Admission RefusalsAccounted
PROPERTIES RetentionGoesOn
