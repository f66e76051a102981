SPECIFICATION FairSpec
CONSTANTS
    Requests = {r1, r2}
    Ids = {o1, o2}
    None = None
    Kinds <- MCGateKinds
INVARIANTS DecisionsFresh
PROPERTIES Serializable AppliesWhatWasShown Answered
CHECK_DEADLOCK FALSE
