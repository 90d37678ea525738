CONSTANTS
    Phones = {ph}
    NoPhone = NoPhone
    ph = ph
    MaxSockets = 2
    MaxStarts = 2
    MaxEvents = 2
SPECIFICATION Spec
INVARIANTS
    OneSocket
    NeverForgotten
    EndedStaysEnded
    FlowIsTheUsers
CHECK_DEADLOCK FALSE
