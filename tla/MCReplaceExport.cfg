SPECIFICATION Spec
CONSTANTS
    Requests = {r1, r2}
    Ids = {o1}
    None = None
    Kinds <- MCReplaceKinds
INVARIANTS ArchiveOfOneInstant
CHECK_DEADLOCK FALSE
