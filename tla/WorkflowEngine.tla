--------------------------- MODULE WorkflowEngine ---------------------------
(***************************************************************************)
(* The workflow engine of the control plane (package engine).  It owns the *)
(* status of every workflow and task, decides which tasks are ready and    *)
(* hands them to the scheduler as jobs.  Every entry point takes e.mu for  *)
(* its whole body, so each is one atomic action.                           *)
(*                                                                         *)
(* The rest of the system is the engine's environment, in its most general *)
(* form: a report about any task may arrive at any time and any number of  *)
(* times (late, duplicated, out of order, from a worker that was declared  *)
(* dead); any worker may be declared dead at any time, rightly or wrongly; *)
(* clients cancel whenever they like.  The scheduler is a box of jobs:     *)
(* jobs[t] is how many Job values for task t it holds, wherever they are   *)
(* (in the ready queue, in a batch, in a running Dispatch call).           *)
(***************************************************************************)
EXTENDS Domain, Integers, FiniteSets

CONSTANTS
    Workflows,   \* the workflows clients will submit
    Tasks,       \* the tasks of all of them (task IDs are globally unique)
    WorkflowOf,  \* Task.WorkflowID
    DependsOn,   \* Task.DependsOn, resolved to task IDs
    Workers,     \* worker IDs
    NoWorker     \* the empty string in Task.AssignedTo

TasksOf(w) == {t \in Tasks : WorkflowOf[t] = w}

\* What domain.NewWorkflow guarantees of a workflow it accepts: dependencies
\* were resolved inside the workflow and the graph has no cycle.
ASSUME GraphAssumption ==
    /\ IsFiniteSet(Tasks)
    /\ WorkflowOf \in [Tasks -> Workflows]
    /\ DependsOn \in [Tasks -> SUBSET Tasks]
    /\ \A t \in Tasks : \A d \in DependsOn[t] : WorkflowOf[d] = WorkflowOf[t]
    /\ \E rank \in [Tasks -> 0..Cardinality(Tasks)] :
          \A t \in Tasks : \A d \in DependsOn[t] : rank[d] < rank[t]

ASSUME WorkerAssumption == NoWorker \notin Workers

VARIABLES
    workflows,   \* keys of e.workflows: the workflows submitted so far
    wfStatus,    \* Workflow.status
    status,      \* Task.status
    assignedTo,  \* Task.AssignedTo
    result,      \* Task.result: the status it carries, "NONE" when nil
    jobs,        \* jobs handed to the scheduler and not yet dispatched
    cancels      \* WorkerRPC.CancelTasks calls in flight, one goroutine each

vars == <<workflows, wfStatus, status, assignedTo, result, jobs, cancels>>

ReportStatus == {"RUNNING", "SUCCEEDED", "FAILED"}
CancelCall   == [worker : Workers \cup {NoWorker}, tasks : SUBSET Tasks]

TypeOK ==
    /\ workflows \in SUBSET Workflows
    /\ wfStatus \in [Workflows -> WorkflowStatus]
    /\ status \in [Tasks -> TaskStatus]
    /\ assignedTo \in [Tasks -> Workers \cup {NoWorker}]
    /\ result \in [Tasks -> {"NONE", "SUCCEEDED", "FAILED"}]
    /\ jobs \in [Tasks -> Nat]
    /\ cancels \in SUBSET CancelCall

-----------------------------------------------------------------------------
\* The engine's private helpers, as functions of the statuses they are given.

\* Mutant: dependencies are not looked at.
recomputeReadyTasks_NoDeps(st, w) == {t \in TasksOf(w) : TaskIsReady(st[t])}

recomputeReadyTasks(st, w) ==
    {t \in TasksOf(w) : TaskIsReady(st[t]) /\ AllDepsSucceeded(DependsOn, st, t)}

UpdateWorkflowStatus(ws, w, new) ==
    IF WorkflowCanTransitTo(ws[w], new) THEN [ws EXCEPT ![w] = new] ELSE ws

\* markReadyTasks, in three parts: the statuses, the jobs and the workflow
\* status it leaves behind.
MarkedStatus(st, w) == UpdateStatus(st, recomputeReadyTasks(st, w), "READY")

pushJob(js, T) == [t \in Tasks |-> IF t \in T THEN js[t] + 1 ELSE js[t]]

MarkedWorkflow(ws, st, w) ==
    IF recomputeReadyTasks(st, w) # {} /\ ws[w] = "PENDING"
    THEN UpdateWorkflowStatus(ws, w, "RUNNING")
    ELSE ws

Verdict(st, w) ==
    IF HasFailedTask(st, TasksOf(w)) THEN "FAILED"
    ELSE IF HasCancelledTask(st, TasksOf(w)) THEN "CANCELLED"
    ELSE "SUCCEEDED"

\* Mutant: a workflow with a failed task is not finalised.
finalizeWorkflowIfDone_SuccessOnly(ws, st, w) ==
    IF WorkflowIsFinished(ws[w]) \/ ~AllTasksFinished(st, TasksOf(w))
       \/ HasFailedTask(st, TasksOf(w))
    THEN ws
    ELSE UpdateWorkflowStatus(ws, w, Verdict(st, w))

\* Mutant: the workflow ends with its first report.
finalizeWorkflowIfDone_Early(ws, st, w) ==
    IF WorkflowIsFinished(ws[w]) THEN ws
    ELSE UpdateWorkflowStatus(ws, w, Verdict(st, w))

finalizeWorkflowIfDone(ws, st, w) ==
    IF WorkflowIsFinished(ws[w]) \/ ~AllTasksFinished(st, TasksOf(w))
    THEN ws
    ELSE UpdateWorkflowStatus(ws, w, Verdict(st, w))

\* Mutant: tasks are not grouped by worker, one worker hears of them all.
notifyWorkersOfCancellation_One(refs) ==
    { [worker |-> assignedTo[r], tasks |-> refs] :
        r \in {x \in refs : x = CHOOSE y \in refs : TRUE} }

\* One CancelTasks call per worker, carrying all its tasks among refs.
notifyWorkersOfCancellation(refs) ==
    { [worker |-> assignedTo[r],
       tasks  |-> {t \in refs : assignedTo[t] = assignedTo[r]}] : r \in refs }

-----------------------------------------------------------------------------
Init ==
    /\ workflows = {}
    /\ wfStatus = [w \in Workflows |-> "PENDING"]
    /\ status = [t \in Tasks |-> "PENDING"]
    /\ assignedTo = [t \in Tasks |-> NoWorker]
    /\ result = [t \in Tasks |-> "NONE"]
    /\ jobs = [t \in Tasks |-> 0]
    /\ cancels = {}

SubmitWorkflow(w) ==
    /\ w \notin workflows
    /\ workflows' = workflows \cup {w}
    /\ status' = MarkedStatus(status, w)
    /\ jobs' = pushJob(jobs, recomputeReadyTasks(status, w))
    /\ wfStatus' = MarkedWorkflow(wfStatus, status, w)
    /\ UNCHANGED <<assignedTo, result, cancels>>

\* Mutant: a failure has no cascade.
Reported_NoCascade(t, s) == UpdateStatus(status, {t}, s)

\* The statuses after a report s about t and its cascade.  The list of
\* running tasks that cancelDownstream returns is dropped here.
Reported(t, s) ==
    LET st == UpdateStatus(status, {t}, s)
    IN  IF TaskCanTransitTo(status[t], s) /\ s = "FAILED"
        THEN UpdateStatus(st, cancelDownstream(DependsOn, st, t), "CANCELLED")
        ELSE st

OnTaskResponse(t, s) ==
    LET w  == WorkflowOf[t]
        st == Reported(t, s)
    IN  /\ w \in workflows
        /\ result' = IF TaskCanTransitTo(status[t], s) /\ s # "RUNNING"
                     THEN [result EXCEPT ![t] = s]
                     ELSE result
        /\ status' = MarkedStatus(st, w)
        /\ jobs' = pushJob(jobs, recomputeReadyTasks(st, w))
        /\ wfStatus' = finalizeWorkflowIfDone(MarkedWorkflow(wfStatus, st, w),
                                              MarkedStatus(st, w), w)
        /\ UNCHANGED <<workflows, assignedTo, cancels>>

\* Mutant: the callback runs although the job was already used up.
OnTaskDispatched_Twice(t, wk) ==
    /\ jobs' = [jobs EXCEPT ![t] = @ - 1]
    /\ assignedTo' = [assignedTo EXCEPT ![t] = wk]
    /\ status' = UpdateStatus(status, {t}, "DISPATCHED")
    /\ UNCHANGED <<workflows, wfStatus, result, cancels>>

\* Mutant: the worker's ID is not stored.
OnTaskDispatched_Unassigned(t, wk) ==
    /\ jobs[t] > 0
    /\ jobs' = [jobs EXCEPT ![t] = @ - 1]
    /\ status' = UpdateStatus(status, {t}, "DISPATCHED")
    /\ UNCHANGED <<workflows, wfStatus, assignedTo, result, cancels>>

\* Job.OnDispatched: the scheduler's callback once Dispatch returned without
\* an error.  AssignedTo is written whether or not the status may change.
OnTaskDispatched(t, wk) ==
    /\ jobs[t] > 0
    /\ jobs' = [jobs EXCEPT ![t] = @ - 1]
    /\ assignedTo' = [assignedTo EXCEPT ![t] = wk]
    /\ status' = UpdateStatus(status, {t}, "DISPATCHED")
    /\ UNCHANGED <<workflows, wfStatus, result, cancels>>

CancelWorkflow(w) ==
    LET open == {t \in TasksOf(w) : ~TaskIsFinished(status[t])}
    IN  /\ w \in workflows
        /\ status' = UpdateStatus(status, open, "CANCELLED")
        /\ wfStatus' = UpdateWorkflowStatus(wfStatus, w, "CANCELLED")
        /\ cancels' = cancels \cup notifyWorkersOfCancellation(
                                       {t \in open : TaskOnWorker(status[t])})
        /\ UNCHANGED <<workflows, assignedTo, result, jobs>>

CancelTask(t) ==
    LET w       == WorkflowOf[t]
        st      == UpdateStatus(status, {t}, "CANCELLED")
        cascade == cancelDownstream(DependsOn, st, t)
    IN  /\ w \in workflows
        /\ ~TaskIsFinished(status[t])
        /\ status' = UpdateStatus(st, cascade, "CANCELLED")
        /\ wfStatus' = finalizeWorkflowIfDone(wfStatus, status', w)
        /\ cancels' = cancels \cup notifyWorkersOfCancellation(
                          {r \in {t} \cup cascade : TaskOnWorker(status[r])})
        /\ UNCHANGED <<workflows, assignedTo, result, jobs>>

ReassignDeadWorkerTasks(wk) ==
    LET lost == {t \in Tasks : /\ WorkflowOf[t] \in workflows
                               /\ assignedTo[t] = wk
                               /\ TaskOnWorker(status[t])}
        back == {t \in lost : TaskCanTransitTo(status[t], "READY")}
    IN  /\ assignedTo' = [t \in Tasks |-> IF t \in lost THEN NoWorker
                                                        ELSE assignedTo[t]]
        /\ status' = UpdateStatus(status, lost, "READY")
        /\ jobs' = pushJob(jobs, back)
        /\ UNCHANGED <<workflows, wfStatus, result, cancels>>

\* A CancelTasks goroutine ends, answered or failed: nobody reads the answer.
CancelCallEnds(c) ==
    /\ c \in cancels
    /\ cancels' = cancels \ {c}
    /\ UNCHANGED <<workflows, wfStatus, status, assignedTo, result, jobs>>

Next ==
    \/ \E w \in Workflows : SubmitWorkflow(w)
    \/ \E t \in Tasks, s \in ReportStatus : OnTaskResponse(t, s)
    \/ \E t \in Tasks, wk \in Workers : OnTaskDispatched(t, wk)
    \/ \E w \in Workflows : CancelWorkflow(w)
    \/ \E t \in Tasks : CancelTask(t)
    \/ \E wk \in Workers : ReassignDeadWorkerTasks(wk)
    \/ \E c \in cancels : CancelCallEnds(c)

Spec == Init /\ [][Next]_vars

-----------------------------------------------------------------------------
\* Properties.

\* No task is handed out, runs or ends by itself before every task it waits
\* for has SUCCEEDED (markReadyTasks behind every report, whatever the order
\* in which reports, cancellations and worker deaths arrive).
DepsRespected ==
    \A t \in Tasks :
        status[t] \in {"READY", "DISPATCHED", "RUNNING", "SUCCEEDED", "FAILED"}
            => AllDepsSucceeded(DependsOn, status, t)

\* No task of a submitted workflow is forgotten: one that is still PENDING
\* waits for a task that can still succeed.  It is violated when a cascade
\* stops early or when a success does not recompute the ready tasks.
NoOrphans ==
    \A t \in Tasks :
        WorkflowOf[t] \in workflows /\ status[t] = "PENDING"
            => /\ ~AllDepsSucceeded(DependsOn, status, t)
               /\ \A d \in DependsOn[t] : status[d] \notin {"FAILED", "CANCELLED"}

\* An unfinished workflow with tasks always has one the outside world will
\* bring forward: a task in the scheduler's hands or on a worker.  This is
\* what the comment above cancelDownstream promises ("hangs in RUNNING for
\* ever" otherwise).
NeverStalls ==
    \A w \in workflows :
        TasksOf(w) # {} /\ ~WorkflowIsFinished(wfStatus[w])
            => \E t \in TasksOf(w) : status[t] \in {"READY", "DISPATCHED", "RUNNING"}

\* A READY task is in the scheduler's hands exactly once, a task on a worker
\* or one that ended by itself not at all.  Only a task cancelled while it was
\* READY leaves a job behind: nobody takes it out of the queue.
JobConservation ==
    \A t \in Tasks :
        jobs[t] \in CASE status[t] = "READY"     -> {1}
                      [] status[t] = "CANCELLED" -> {0, 1}
                      [] OTHER                   -> {0}

\* A task on a worker names that worker, so ReassignDeadWorkerTasks can find
\* it when the worker dies and a cancellation knows whom to call.
Recoverable ==
    \A t \in Tasks : TaskOnWorker(status[t]) => assignedTo[t] \in Workers

\* The status of workflow w agrees with its tasks: terminal exactly when every
\* task is, and for a reason the tasks give.
Agrees(ws, st, w) ==
    LET T == TasksOf(w)
    IN  /\ WorkflowIsFinished(ws[w]) <=> AllTasksFinished(st, T)
        /\ ws[w] = "SUCCEEDED" <=> \A t \in T : st[t] = "SUCCEEDED"
        /\ ws[w] = "FAILED"    =>  HasFailedTask(st, T)
        /\ ws[w] = "CANCELLED" =>  HasCancelledTask(st, T)

\* Every submitted workflow with tasks agrees with them.  CancelWorkflow sets
\* the status by itself, without finalizeWorkflowIfDone, and may hide a FAILED
\* task, but never calls a workflow finished that is not.
WorkflowVerdict ==
    \A w \in workflows : TasksOf(w) # {} => Agrees(wfStatus, status, w)

\* What ended stays as it ended: a late or repeated report, a dead worker or a
\* late OnTaskDispatched changes neither the status of a finished task, nor its
\* result, nor a finished workflow.
FinishedIsFinal ==
    [][/\ \A t \in Tasks : TaskIsFinished(status[t]) =>
              status'[t] = status[t] /\ result'[t] = result[t]
       /\ \A w \in Workflows : WorkflowIsFinished(wfStatus[w]) =>
              wfStatus'[w] = wfStatus[w]]_vars

\* Whenever a task on a worker is cancelled, that worker is called.  Not
\* obvious: OnTaskResponse throws away the list cancelDownstream returns, which
\* is right only if a cascade never meets a task on a worker.
CancelAnnounced ==
    [][\A t \in Tasks :
          TaskOnWorker(status[t]) /\ status'[t] = "CANCELLED" =>
              \E c \in cancels' : /\ c.worker = assignedTo[t]
                                  /\ c.worker \in Workers
                                  /\ t \in c.tasks]_vars

\* The tasks that wait for r, directly or not.
Descendants(r) ==
    LET Within[n \in 0..Cardinality(Tasks)] ==
            IF n = 0 THEN {r}
            ELSE LET W == Within[n - 1]
                 IN  W \cup {t \in Tasks : DependsOn[t] \cap W # {}}
    IN  Within[Cardinality(Tasks)] \ {r}

\* A step cancels no more and no less than it should: what still waited for
\* the task that failed; or one unfinished task and all that waited for it; or
\* the unfinished tasks of one workflow.  Independent branches are never
\* touched (the comment above CancelTask).
CancellationIsExact ==
    [][LET failed  == {t \in Tasks : status[t] # "FAILED" /\ status'[t] = "FAILED"}
           gone    == {t \in Tasks : status[t] # "CANCELLED" /\ status'[t] = "CANCELLED"}
           Open(T) == {t \in T : ~TaskIsFinished(status[t])}
       IN  \/ failed = {} /\ gone = {}
           \/ \E r \in failed : failed = {r} /\ gone = Open(Descendants(r))
           \/ failed = {} /\ \E r \in Open(Tasks) :
                                gone = {r} \cup Open(Descendants(r))
           \/ failed = {} /\ \E w \in Workflows : gone = Open(TasksOf(w))]_vars

=============================================================================
