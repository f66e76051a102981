SPECIFICATION EitherFairSpec
CONSTANTS
    owner = owner
    guest = guest
    other = other
    home = home
    away = away
    Callers = {owner, guest, other}
    Owners = {owner}
    Address <- MCAddress
    BaseDelay = 1
    MaxDelay = 2
    MaxTracked = 2
    Minute = 3
    Capacity = 2
    Reserved = 1
    Calls = {c1, c2}
    Nonces = {n1}
    MaxPublications = 2
INVARIANTS LoginsFollowTheKeys
PROPERTIES ThrottleHonest OwnerGetsThrough CallsEnd
