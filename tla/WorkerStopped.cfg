SPECIFICATION Spec
CONSTANTS
    NoJob = NoJob
    Jobs = {s}
    ShellTasks = {s}
    HttpTasks = {}
    Faulty = {s}
    Broken = {}
    Goroutines = {g1, g2}
    Capacity = 1
    Backoff = 1
INVARIANTS NoRetryLost
CHECK_DEADLOCK FALSE
