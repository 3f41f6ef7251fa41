CONSTANTS
    WorkerIDs = {k1}
    Scheduler = scheduler
    Checker = checker
    Cancellers = {canceller}
    Handlers = {handler1}
CHECK_DEADLOCK FALSE
SPECIFICATION LockSpec
PROPERTIES
    EveryCallReturns
