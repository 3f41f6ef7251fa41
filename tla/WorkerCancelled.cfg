SPECIFICATION Spec
CONSTANTS
    NoJob = NoJob
    Jobs = {s}
    ShellTasks = {s}
    HttpTasks = {}
    Faulty = {}
    Broken = {}
    Goroutines = {g1, g2}
    Capacity = 1
    Backoff = 1
PROPERTIES CancelIsFinal
CHECK_DEADLOCK FALSE
