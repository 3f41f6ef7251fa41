CONSTANTS
    wf = wf
    a = a
    b = b
    c = c
    k1 = k1
    k2 = k2
    NoWorker = NoWorker
    NoTask = NoTask
    Workflows <- OneWorkflow
    Tasks <- TwoTasks
    WorkflowOf <- InWorkflow
    DependsOn <- Parallel
    Workers <- OneWorker
    BatchSize = 3
    PoolCapacity = 1
    Crashable <- NoWorkers
    Flaky <- NoWorkers
    Cancels = FALSE
    LossyRPC = FALSE
    ExecutorErrors = FALSE
    PromptCallback = FALSE
SPECIFICATION Spec
PROPERTIES
    AnswerHonoured
