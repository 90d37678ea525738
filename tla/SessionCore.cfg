CONSTANTS
    Process = {p1, p2}
    p1 = p1
    p2 = p2
    NoOne = NoOne
    Gone = Gone
    MaxEvents = 3
SPECIFICATION Spec
INVARIANTS
    HolderIsOwner
    EndedStaysEnded
    ClaimIsBacked
PROPERTY
    ConnectedIsResumed
CHECK_DEADLOCK FALSE
