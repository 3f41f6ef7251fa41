SPECIFICATION SchedulerSpec
CONSTANTS
    big = big
    small = small
    zero = zero
    j1 = j1
    j2 = j2
    j3 = j3
    j4 = j4
    NoWorker = NoWorker
    Workers <- MCWorkers
    WorkerCapacity <- MCCapacity
    Capabilities <- MCCapabilities
    Fickle = {big}
    Tasks <- MCTasks
    TypeOf <- MCTypeOf
    BatchSize = 2
    MaxReport = 1
INVARIANTS BoundedImbalance
PROPERTIES NoStarvation
CHECK_DEADLOCK FALSE
