SPECIFICATION Spec
CONSTANTS
    Workflows = {w1, w2}
    Subs = {s1}
    Events <- AllEvents
    NoEvent = NoEvent
    BusCapacity = 1
    SubCapacity = 2
    OutCapacity = 1
    MaxChanges = 3
INVARIANTS ClosedByOwnEnd
CHECK_DEADLOCK FALSE
