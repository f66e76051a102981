SPECIFICATION MCSpec
CONSTANTS
    Clients = {c1, c2, c3}
    Registering = {q1, q2}
    Addresses = {a1, a2, a3}
    MaxRecords = 1
    Quota = 2
    MaxWindows = 2
    Nobody = Nobody
    Authenticating = {r1, r2}
    Endpoints = {token, revoke}
    KeyRecords <- MCKeyRecords
    KeySets <- MCKeySets
    Documents <- MCDocuments
    Assertions <- MCAssertions
    Hosted = Hosted
    NoKid = NoKid
    Unset = Unset
    MaxPairs = 4
    k1 = k1
    k2 = k2
    kid1 = kid1
    j1 = j1
    token = token
    revoke = revoke
SYMMETRY ClientSymmetry
INVARIANTS RegistrationsBounded AssertionsHold FormsJudged
CHECK_DEADLOCK FALSE
