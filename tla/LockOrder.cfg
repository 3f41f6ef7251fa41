CONSTANTS
    WorkerIDs = {k1, k2}
    Scheduler = scheduler
    Checker = checker
    Cancellers = {canceller}
    Handlers = {handler1, handler2}
CHECK_DEADLOCK FALSE
SPECIFICATION LockSpec
INVARIANTS
    OnlyInversion
