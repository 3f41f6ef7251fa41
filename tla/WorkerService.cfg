SPECIFICATION Spec
CONSTANTS
    NoJob = NoJob
    Jobs = {s, h, u}
    ShellTasks = {s}
    HttpTasks = {h}
    Faulty = {s}
    Broken = {h}
    Goroutines = {g1, g2}
    Capacity = 1
    Backoff = 1
INVARIANTS OneCopy AcceptedIsHeld StopWaits
PROPERTIES TaskLeavesTable
CHECK_DEADLOCK FALSE
