CONSTANTS
    wf = wf
    a = a
    b = b
    c = c
    k1 = k1
    k2 = k2
    NoWorker = NoWorker
    NoTask = NoTask
    Workflows <- OneWorkflow
    Tasks <- TwoTasks
    WorkflowOf <- InWorkflow
    DependsOn <- Chain
    Workers <- TwoWorkers
    BatchSize = 3
    PoolCapacity = 3
    Crashable <- TwoWorkers
    Flaky <- NoWorkers
    Cancels = TRUE
    LossyRPC = TRUE
    ExecutorErrors = TRUE
    PromptCallback = FALSE
SYMMETRY Symmetry
CHECK_DEADLOCK FALSE
SPECIFICATION Spec
INVARIANTS
    GenuineOrder
PROPERTIES
    EngineSpec
