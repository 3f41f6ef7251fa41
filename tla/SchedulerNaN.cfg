SPECIFICATION SchedulerSpec
CONSTANTS
    big = big
    small = small
    zero = zero
    j1 = j1
    j2 = j2
    j3 = j3
    j4 = j4
    NoWorker = NoWorker
    Workers = {big, small, zero}
    WorkerCapacity <- ZeroCapacity
    Capabilities <- MCCapabilities
    Fickle = {}
    Tasks <- ShellJobs
    TypeOf <- MCTypeOf
    BatchSize = 2
    MaxReport = 1
INVARIANTS LessLoadedFirst
CHECK_DEADLOCK FALSE
