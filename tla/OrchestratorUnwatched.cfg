CONSTANTS
    wf = wf
    a = a
    b = b
    c = c
    k1 = k1
    k2 = k2
    NoWorker = NoWorker
    NoTask = NoTask
    Workflows <- OneWorkflow
    Tasks <- OneTask
    WorkflowOf <- InWorkflow
    DependsOn <- Parallel
    Workers <- OneWorker
    BatchSize = 3
    PoolCapacity = 3
    Crashable <- OneWorker
    Flaky <- OneWorker
    Cancels = FALSE
    LossyRPC = FALSE
    ExecutorErrors = FALSE
    PromptCallback = FALSE
CHECK_DEADLOCK FALSE
SPECIFICATION FairSpec
PROPERTIES
    CrashDetected
