CONSTANTS
    wf1 = wf1
    wf2 = wf2
    wf3 = wf3
    a = a
    b = b
    c = c
    d = d
    e = e
    k1 = k1
    k2 = k2
    NoWorker = NoWorker
    Workflows <- MCWorkflows
    Tasks <- MCTasks
    WorkflowOf <- MCWorkflowOf
    DependsOn <- MCDependsOn
    Workers <- MCWorkers
SYMMETRY Symmetry
SPECIFICATION Spec
INVARIANTS
    TypeOK
    DepsRespected
    NoOrphans
    NeverStalls
    JobConservation
    Recoverable
    WorkflowVerdict
PROPERTIES
    FinishedIsFinal
    CancelAnnounced
    CancellationIsExact
