CONSTANTS
    wf = wf
    a = a
    b = b
    c = c
    k1 = k1
    k2 = k2
    NoWorker = NoWorker
    NoTask = NoTask
    Workflows <- OneWorkflow
    Tasks <- ThreeTasks
    WorkflowOf <- InWorkflow
    DependsOn <- Join
    Workers <- TwoWorkers
    BatchSize = 2
    PoolCapacity = 3
    Crashable <- OneWorker
    Flaky <- NoWorkers
    Cancels = FALSE
    LossyRPC = FALSE
    ExecutorErrors = FALSE
    PromptCallback = TRUE
SPECIFICATION FairSpec
INVARIANTS
    NoDoubleRun
    HeldOrRecoverable
PROPERTIES
    Terminates
