SPECIFICATION Spec
CONSTANTS
    Sessions = {s1, s2, s3}
    Logins = {l1, l2}
    Requests = {r1, r2}
    Passwords = {p1, p2}
    Identities = {i1, i2}
    None = None
    Purged = Purged
SYMMETRY AccessSymmetry
INVARIANTS SessionsOfTheOwner SignedOutForGood NotStranded OpenedOnce
PROPERTIES BindingHolds
