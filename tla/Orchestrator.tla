---------------------------- MODULE Orchestrator ----------------------------
(***************************************************************************)
(* The control plane and its workers together.  Here the engine's jobs are *)
(* real: they travel through the scheduler's ready queue, its batch and    *)
(* its Dispatch call to a worker; reports come only from workers that run  *)
(* the task; deaths are declared by the registry's heartbeat check.        *)
(*                                                                         *)
(*   engine     module WorkflowEngine, one atomic action per entry point   *)
(*   scheduler  one goroutine: pop a batch, snapshot the live workers, then*)
(*              job by job select, call Dispatch, call Job.OnDispatched    *)
(*   registry   worker statuses, heartbeats, and the retry queue's single  *)
(*              goroutine that checks the watched workers                  *)
(*   workers    each with its table of tasks in flight and its pool        *)
(*                                                                         *)
(* A worker's ID is drawn anew at every process start, so a crashed worker *)
(* never comes back under its ID: a restart is another member of Workers.  *)
(* Which worker selectWorker prefers is left open here (any live one).     *)
(***************************************************************************)
EXTENDS Domain, Integers, FiniteSets, Sequences, SequencesExt

CONSTANTS
    Workflows, Tasks, WorkflowOf, DependsOn, Workers, NoWorker, NoTask,
    BatchSize,       \* PopBatch's argument
    PoolCapacity,    \* length of the channel jobChan of a worker's pool
    \* What the environment may do:
    Crashable,       \* workers whose process may die
    Cancels,         \* clients cancel workflows and tasks
    LossyRPC,        \* a Dispatch or ReportResult call may fail on the way
    Flaky,           \* live workers whose heartbeats may come late or fail
    ExecutorErrors,  \* an executor may return an error instead of a result
    PromptCallback   \* OnDispatched runs before anything else can happen

ASSUME BoundAssumption == BatchSize \in Nat \ {0} /\ PoolCapacity \in Nat \ {0}
ASSUME EnvAssumption ==
    /\ Crashable \subseteq Workers /\ Flaky \subseteq Workers
    /\ {Cancels, LossyRPC, ExecutorErrors, PromptCallback} \subseteq BOOLEAN
    /\ NoTask \notin Tasks

VARIABLES
    workflows, wfStatus, status, assignedTo, result, cancels,  \* the engine
    queue,      \* ReadyQueue.items: the tasks of the jobs
    batch,      \* jobs of the current batch not handled yet
    snapshot,   \* AliveWorkers as read at the start of the batch
    sched,      \* where assignOnce is
    job,        \* the job in hand, NoTask if none
    target,     \* the worker selected for it
    answer,     \* what Dispatch answered, if it did
    node,       \* WorkerNode.status, "UNKNOWN" before the first Register
    fresh,      \* is LastHeartbeat within the grace period?
    watched,    \* is there a trigger for the worker in the retry queue?
    check,      \* checkHeartbeat in progress: the worker and how far it is
    proc,       \* the worker process: "new", "up" or "down"
    link,       \* the worker's view of the control plane: "ok"; "failed" while
                \* a failed heartbeat is followed by Register; "suspended"
                \* when that failed too (WorkerService.suspended in the last two)
    exec,       \* exec[k][t]: where task t is on worker k
    ran         \* history: tasks an executor has really completed with success

engineVars   == <<workflows, wfStatus, status, assignedTo, result, cancels>>
schedVars    == <<queue, batch, snapshot, sched, job, target, answer>>
registryVars == <<node, fresh, watched, check>>
workerVars   == <<proc, link, exec, ran>>
vars == <<engineVars, schedVars, registryVars, workerVars>>

\* The jobs the scheduler holds, wherever they are.
Occurrences(t, s) == Cardinality({i \in DOMAIN s : s[i] = t})
JobsHeld == [t \in Tasks |-> Occurrences(t, queue) + Occurrences(t, batch)
                             + IF job = t THEN 1 ELSE 0]

E == INSTANCE WorkflowEngine WITH jobs <- JobsHeld

\* What domain.NewWorkflow lets through, and a worker ID is never empty.
ASSUME EngineAssumption == E!GraphAssumption /\ E!WorkerAssumption

\* none: not in the table unique.  queued: in the pool's channel.  executing:
\* in the executor.  succ, fail: executed, about to report.  retry: the
\* executor returned an error and the pool's retry queue holds the task.
Phase == {"none", "queued", "executing", "succ", "fail", "retry"}

\* stale: the heartbeat was found too old.  ALIVE, SUSPECT, DEAD: the status
\* about to be written.  drop: about to take the trigger out of the queue.
CheckPoint == {"none", "stale", "ALIVE", "SUSPECT", "DEAD", "drop"}
NoCheck == [worker |-> NoWorker, at |-> "none"]

TypeOK ==
    /\ E!TypeOK
    /\ queue \in Seq(Tasks) /\ batch \in Seq(Tasks)
    /\ snapshot \subseteq Workers
    /\ sched \in {"idle", "popped", "loop", "dispatching", "answered"}
    /\ job \in Tasks \cup {NoTask} /\ target \in Workers \cup {NoWorker}
    /\ answer \in {"none", "accepted", "rejected"}
    /\ node \in [Workers -> {"UNKNOWN", "ALIVE", "SUSPECT", "DEAD"}]
    /\ fresh \in [Workers -> BOOLEAN] /\ watched \in [Workers -> BOOLEAN]
    /\ check \in [worker : Workers \cup {NoWorker}, at : CheckPoint]
    /\ proc \in [Workers -> {"new", "up", "down"}]
    /\ link \in [Workers -> {"ok", "failed", "suspended"}]
    /\ exec \in [Workers -> [Tasks -> Phase]]
    /\ ran \subseteq Tasks

Init ==
    /\ workflows = {}
    /\ wfStatus = [w \in Workflows |-> "PENDING"]
    /\ status = [t \in Tasks |-> "PENDING"]
    /\ assignedTo = [t \in Tasks |-> NoWorker]
    /\ result = [t \in Tasks |-> "NONE"]
    /\ cancels = {}
    /\ queue = <<>> /\ batch = <<>> /\ snapshot = {} /\ sched = "idle"
    /\ job = NoTask /\ target = NoWorker /\ answer = "none"
    /\ node = [k \in Workers |-> "UNKNOWN"]
    /\ fresh = [k \in Workers |-> FALSE]
    /\ watched = [k \in Workers |-> FALSE]
    /\ check = NoCheck
    /\ proc = [k \in Workers |-> "new"]
    /\ link = [k \in Workers |-> "ok"]
    /\ exec = [k \in Workers |-> [t \in Tasks |-> "none"]]
    /\ ran = {}

\* The engine pushes the jobs of the tasks in T, in the order in which the
\* range over the map wf.Tasks happens to visit them.
Pushes(T) ==
    /\ \E s \in SetToSeqs(T) : queue' = queue \o s
    /\ UNCHANGED <<batch, snapshot, sched, job, target, answer>>

-----------------------------------------------------------------------------
\* Clients.

Submit(w) ==
    /\ Pushes(E!recomputeReadyTasks(status, w))
    /\ E!SubmitWorkflow(w)
    /\ UNCHANGED <<registryVars, workerVars>>

Cancel ==
    /\ Cancels
    /\ UNCHANGED <<schedVars, registryVars, workerVars>>
    /\ \/ \E w \in Workflows : E!CancelWorkflow(w)
       \/ \E t \in Tasks : E!CancelTask(t)

\* What the call does on the worker (WorkerService.CancelTasks) is to end an
\* execution early; the phases leave that open anyway.
CancelCallEnds ==
    /\ UNCHANGED <<schedVars, registryVars, workerVars>>
    /\ \E c \in cancels : E!CancelCallEnds(c)

-----------------------------------------------------------------------------
\* The scheduler's goroutine.

\* Mutant: the batch is copied and stays in the queue.
PopBatch_Copied ==
    /\ sched = "idle" /\ queue # <<>>
    /\ batch' = SubSeq(queue, 1, 1)
    /\ sched' = "popped"
    /\ UNCHANGED <<queue, snapshot, job, target, answer>>
    /\ UNCHANGED <<engineVars, registryVars, workerVars>>

PopBatch ==
    LET n == IF BatchSize > Len(queue) THEN Len(queue) ELSE BatchSize
    IN  /\ sched = "idle" /\ queue # <<>>
        /\ batch' = SubSeq(queue, 1, n)
        /\ queue' = SubSeq(queue, n + 1, Len(queue))
        /\ sched' = "popped"
        /\ UNCHANGED <<snapshot, job, target, answer>>
        /\ UNCHANGED <<engineVars, registryVars, workerVars>>

AliveWorkers ==
    /\ sched = "popped"
    /\ snapshot' = {k \in Workers : node[k] = "ALIVE"}
    /\ sched' = "loop"
    /\ UNCHANGED <<queue, batch, job, target, answer>>
    /\ UNCHANGED <<engineVars, registryVars, workerVars>>

\* Mutant: a job without a worker is not put back.
SelectFails_Dropped ==
    /\ sched = "loop" /\ batch # <<>> /\ snapshot = {}
    /\ batch' = Tail(batch)
    /\ UNCHANGED <<queue, snapshot, sched, job, target, answer>>
    /\ UNCHANGED <<engineVars, registryVars, workerVars>>

\* No worker to select from: the job goes back to the end of the queue.
SelectFails ==
    /\ sched = "loop" /\ batch # <<>> /\ snapshot = {}
    /\ queue' = Append(queue, Head(batch)) /\ batch' = Tail(batch)
    /\ UNCHANGED <<snapshot, sched, job, target, answer>>
    /\ UNCHANGED <<engineVars, registryVars, workerVars>>

SelectWorker(k) ==
    /\ sched = "loop" /\ batch # <<>> /\ k \in snapshot
    /\ job' = Head(batch) /\ batch' = Tail(batch)
    /\ target' = k
    /\ sched' = "dispatching"
    /\ UNCHANGED <<queue, snapshot, answer>>
    /\ UNCHANGED <<engineVars, registryVars, workerVars>>

BatchDone ==
    /\ sched = "loop" /\ batch = <<>>
    /\ sched' = "idle" /\ snapshot' = {}
    /\ UNCHANGED <<queue, batch, job, target, answer>>
    /\ UNCHANGED <<engineVars, registryVars, workerVars>>

\* WorkerService.DispatchTask on worker k, and what it answers.  A task that
\* is already in the table is accepted and nothing happens.
Queued(k) == Cardinality({t \in Tasks : exec[k][t] = "queued"})
Verdict(k, t) ==
    IF link[k] # "ok" \/ (exec[k][t] = "none" /\ Queued(k) = PoolCapacity)
    THEN "rejected" ELSE "accepted"
DispatchTask(k, t) ==
    IF Verdict(k, t) = "accepted" /\ exec[k][t] = "none"
    THEN exec' = [exec EXCEPT ![k][t] = "queued"]
    ELSE UNCHANGED exec

\* Dispatch answers without an error.  A refusal is an answer like any other.
DispatchReturns ==
    /\ sched = "dispatching" /\ proc[target] = "up"
    /\ DispatchTask(target, job)
    /\ answer' = Verdict(target, job)
    /\ sched' = "answered"
    /\ UNCHANGED <<queue, batch, snapshot, job, target, proc, link, ran>>
    /\ UNCHANGED <<engineVars, registryVars>>

\* Mutant: the job of a failed call is not put back.
DispatchFails_Lost ==
    /\ sched = "dispatching"
    /\ LossyRPC \/ proc[target] = "down"
    /\ job' = NoTask /\ target' = NoWorker
    /\ sched' = "loop"
    /\ UNCHANGED <<queue, batch, snapshot, answer, workerVars>>
    /\ UNCHANGED <<engineVars, registryVars>>

\* Dispatch returns an error, before or after the request reached the worker;
\* the job goes back to the queue.  Apart from a broken network, the death hook
\* may have closed the connection during the call.
DispatchFails ==
    /\ sched = "dispatching"
    /\ LET broken == LossyRPC \/ node[target] = "DEAD"
       IN  \/ (proc[target] = "down" \/ broken) /\ UNCHANGED exec
           \/ broken /\ proc[target] = "up" /\ DispatchTask(target, job)
    /\ queue' = Append(queue, job)
    /\ job' = NoTask /\ target' = NoWorker
    /\ sched' = "loop"
    /\ UNCHANGED <<batch, snapshot, answer, proc, link, ran>>
    /\ UNCHANGED <<engineVars, registryVars>>

\* Job.OnDispatched, whatever the answer was.
OnDispatched ==
    /\ sched = "answered"
    /\ job' = NoTask /\ target' = NoWorker /\ answer' = "none"
    /\ sched' = "loop"
    /\ UNCHANGED <<queue, batch, snapshot>>
    /\ E!OnTaskDispatched(job, target)
    /\ UNCHANGED <<registryVars, workerVars>>

\* Nothing overtakes the callback when the environment is that kind.
MayOvertake == ~PromptCallback \/ sched # "answered"

-----------------------------------------------------------------------------
\* The registry.

\* Mutant: no trigger is pushed.
Register_Unwatched(k) ==
    /\ proc[k] = "new" \/ (proc[k] = "up" /\ link[k] = "failed")
    /\ proc' = [proc EXCEPT ![k] = "up"]
    /\ link' = [link EXCEPT ![k] = "ok"]
    /\ node' = [node EXCEPT ![k] = "ALIVE"]
    /\ fresh' = [fresh EXCEPT ![k] = TRUE]
    /\ UNCHANGED <<engineVars, schedVars, watched, check, exec, ran>>

\* Called by Start and by a heartbeat that failed.
Register(k) ==
    /\ proc[k] = "new" \/ (proc[k] = "up" /\ link[k] = "failed")
    /\ proc' = [proc EXCEPT ![k] = "up"]
    /\ link' = [link EXCEPT ![k] = "ok"]
    /\ node' = [node EXCEPT ![k] = "ALIVE"]
    /\ fresh' = [fresh EXCEPT ![k] = TRUE]
    /\ watched' = [watched EXCEPT ![k] = TRUE]
    /\ UNCHANGED <<engineVars, schedVars, check, exec, ran>>

RegisterFails(k) ==
    /\ k \in Flaky /\ proc[k] = "up" /\ link[k] = "failed"
    /\ link' = [link EXCEPT ![k] = "suspended"]
    /\ UNCHANGED <<engineVars, schedVars, registryVars, proc, exec, ran>>

\* A heartbeat that arrives.  The worker has nothing to do about it: it does
\* not look at suspended.
Heartbeat(k) ==
    /\ proc[k] = "up" /\ link[k] # "failed"
    /\ fresh' = [fresh EXCEPT ![k] = TRUE]
    /\ node' = [node EXCEPT ![k] = "ALIVE"]
    /\ UNCHANGED <<engineVars, schedVars, watched, check, workerVars>>

\* The call to Heartbeat fails: the worker suspends itself and calls Register.
HeartbeatFails(k) ==
    /\ k \in Flaky /\ proc[k] = "up" /\ link[k] # "failed"
    /\ link' = [link EXCEPT ![k] = "failed"]
    /\ UNCHANGED <<engineVars, schedVars, registryVars, proc, exec, ran>>

\* The grace period since the last heartbeat passes.
GraceExpires(k) ==
    /\ fresh[k]
    /\ proc[k] = "down" \/ k \in Flaky
    /\ fresh' = [fresh EXCEPT ![k] = FALSE]
    /\ UNCHANGED <<engineVars, schedVars, node, watched, check, workerVars>>

\* checkHeartbeat, called by the retry queue's goroutine.  It reads the worker
\* without the registry's lock, the heartbeat first and the status again after
\* it, and takes the lock only to write: a heartbeat or a registration may come
\* in between each time.
CheckBegins(k) ==
    /\ check = NoCheck /\ watched[k]
    /\ check' = [worker |-> k, at |-> IF node[k] = "DEAD" THEN "drop"
                                     ELSE IF fresh[k] THEN "ALIVE"
                                     ELSE "stale"]
    /\ UNCHANGED <<engineVars, schedVars, node, fresh, watched, workerVars>>

StatusRead ==
    /\ check.at = "stale"
    /\ check' = [check EXCEPT !.at = IF node[check.worker] = "ALIVE" THEN "SUSPECT"
                                                                    ELSE "DEAD"]
    /\ UNCHANGED <<engineVars, schedVars, node, fresh, watched, workerVars>>

\* updateWorkerStatus with ALIVE or SUSPECT: the trigger stays in the queue.
MarkedLive ==
    /\ check.at \in {"ALIVE", "SUSPECT"}
    /\ node' = [node EXCEPT ![check.worker] = check.at]
    /\ check' = NoCheck
    /\ UNCHANGED <<engineVars, schedVars, fresh, watched, workerVars>>

\* Mutant: nobody is told of the death.
MarkedDead_NoHook ==
    /\ check.at = "DEAD" /\ MayOvertake
    /\ node' = [node EXCEPT ![check.worker] = "DEAD"]
    /\ check' = [check EXCEPT !.at = "drop"]
    /\ UNCHANGED <<engineVars, schedVars, fresh, watched, workerVars>>

\* updateWorkerStatus with DEAD: the hook closes the connection and hands the
\* worker's tasks back to the scheduler.
MarkedDead ==
    LET k    == check.worker
        back == {t \in Tasks : /\ WorkflowOf[t] \in workflows
                               /\ assignedTo[t] = k
                               /\ TaskOnWorker(status[t])}
    IN  /\ check.at = "DEAD" /\ MayOvertake
        /\ node' = [node EXCEPT ![k] = "DEAD"]
        /\ check' = [check EXCEPT !.at = "drop"]
        /\ Pushes(back)
        /\ E!ReassignDeadWorkerTasks(k)
        /\ UNCHANGED <<fresh, watched, workerVars>>

\* RunLoop drops the trigger of a check that answered false.
TriggerDropped ==
    /\ check.at = "drop"
    /\ watched' = [watched EXCEPT ![check.worker] = FALSE]
    /\ check' = NoCheck
    /\ UNCHANGED <<engineVars, schedVars, node, fresh, workerVars>>

-----------------------------------------------------------------------------
\* The workers.

SetPhase(k, t, p) == exec' = [exec EXCEPT ![k][t] = p]

\* ReportResult: the engine hears s about t, or the call fails; the worker
\* only logs a failure.
ReportResult(t, s) ==
    \/ /\ MayOvertake
       /\ Pushes(E!recomputeReadyTasks(E!Reported(t, s), WorkflowOf[t]))
       /\ E!OnTaskResponse(t, s)
    \/ /\ LossyRPC
       /\ UNCHANGED <<engineVars, schedVars>>

\* A pool goroutine takes the task and reports that it runs.
TaskStarts(k, t) ==
    /\ proc[k] = "up" /\ exec[k][t] = "queued"
    /\ SetPhase(k, t, "executing")
    /\ ReportResult(t, "RUNNING")
    /\ UNCHANGED <<registryVars, proc, link, ran>>

\* The executor ends with an exit code or an error text of the task.
Executed(k, t, p) ==
    /\ proc[k] = "up" /\ exec[k][t] = "executing"
    /\ SetPhase(k, t, p)
    /\ ran' = IF p = "succ" THEN ran \cup {t} ELSE ran
    /\ UNCHANGED <<engineVars, schedVars, registryVars, proc, link>>

\* The executor itself failed: the pool keeps the task and tries again.
ExecutorFails(k, t) == ExecutorErrors /\ Executed(k, t, "retry")

RetryComes(k, t) ==
    /\ proc[k] = "up" /\ exec[k][t] = "retry" /\ Queued(k) < PoolCapacity
    /\ SetPhase(k, t, "queued")
    /\ UNCHANGED <<engineVars, schedVars, registryVars, proc, link, ran>>

\* Mutant: the exit code is not looked at.
TaskEnds_Blind(k, t) ==
    /\ proc[k] = "up" /\ exec[k][t] \in {"succ", "fail"}
    /\ SetPhase(k, t, "none")
    /\ ReportResult(t, "SUCCEEDED")
    /\ UNCHANGED <<registryVars, proc, link, ran>>

\* The final report; afterwards the task leaves the table.
TaskEnds(k, t) ==
    /\ proc[k] = "up" /\ exec[k][t] \in {"succ", "fail"}
    /\ SetPhase(k, t, "none")
    /\ ReportResult(t, IF exec[k][t] = "succ" THEN "SUCCEEDED" ELSE "FAILED")
    /\ UNCHANGED <<registryVars, proc, link, ran>>

Crash(k) ==
    /\ k \in Crashable /\ proc[k] = "up"
    /\ proc' = [proc EXCEPT ![k] = "down"]
    /\ exec' = [exec EXCEPT ![k] = [t \in Tasks |-> "none"]]
    /\ link' = [link EXCEPT ![k] = "ok"]
    /\ UNCHANGED <<engineVars, schedVars, registryVars, ran>>

-----------------------------------------------------------------------------
SchedulerStep ==
    \/ PopBatch \/ AliveWorkers \/ SelectFails \/ BatchDone
    \/ \E k \in Workers : SelectWorker(k)
    \/ DispatchReturns \/ DispatchFails \/ OnDispatched

CheckStep == StatusRead \/ MarkedLive \/ MarkedDead \/ TriggerDropped

Next ==
    \/ \E w \in Workflows : Submit(w)
    \/ Cancel \/ CancelCallEnds
    \/ SchedulerStep
    \/ \E k \in Workers :
          \/ Register(k) \/ RegisterFails(k) \/ Heartbeat(k)
          \/ HeartbeatFails(k) \/ GraceExpires(k)
          \/ CheckBegins(k) \/ Crash(k)
          \/ \E t \in Tasks :
                \/ TaskStarts(k, t) \/ TaskEnds(k, t)
                \/ Executed(k, t, "succ") \/ Executed(k, t, "fail")
                \/ ExecutorFails(k, t) \/ RetryComes(k, t)
    \/ CheckStep

Spec == Init /\ [][Next]_vars

\* What a worker's pool does next with a task it holds, errors of the executor
\* aside.
PoolStep(k, t) ==
    \/ TaskStarts(k, t) \/ TaskEnds(k, t) \/ RetryComes(k, t)
    \/ Executed(k, t, "succ") \/ Executed(k, t, "fail")

\* Fairness.  The scheduler's goroutine and the retry queue's keep running and
\* the latter, a FIFO queue, comes round to every watched worker; a pool works
\* on what it holds; calls return; time passes.  Nothing is assumed of clients.
Fairness ==
    /\ WF_vars(SchedulerStep)
    /\ WF_vars(CheckStep)
    /\ \A k \in Workers :
          /\ WF_vars(Register(k))
          /\ WF_vars(Heartbeat(k))
          /\ WF_vars(proc[k] = "down" /\ GraceExpires(k))
          /\ SF_vars(CheckBegins(k))
          /\ WF_vars(\E t \in Tasks : PoolStep(k, t))

FairSpec == Spec /\ Fairness

-----------------------------------------------------------------------------
\* Properties.

\* The control plane implements the engine's specification with the scheduler
\* in place of its box of jobs: no path through queue, batch and Dispatch loses
\* a job or makes two of it, and everything proved of WorkflowEngine holds here.
EngineSpec == E!Spec

\* Dependencies are honoured by what really runs, not only by the statuses: a
\* task is on a worker only after an executor has completed everything it waits
\* for, and a task called SUCCEEDED was completed.  Late reports of a worker
\* declared dead and second executions are included.
GenuineOrder ==
    /\ \A k \in Workers, t \in Tasks : exec[k][t] # "none" => DependsOn[t] \subseteq ran
    /\ \A t \in Tasks : status[t] = "SUCCEEDED" => t \in ran

\* When no call is lost and no live worker is taken for dead, a task is never
\* on two workers at once (the comment above DispatchTask: "it would really be
\* executed twice").
NoDoubleRun ==
    \A t \in Tasks : Cardinality({k \in Workers : exec[k][t] # "none"}) <= 1

\* A task the engine believes to be on a worker is there, or its worker has
\* died and the registry will still find out.
HeldOrRecoverable ==
    \A t \in Tasks : TaskOnWorker(status[t]) =>
        LET k == assignedTo[t]
        IN  \/ exec[k][t] # "none"
            \/ proc[k] = "down" /\ node[k] # "DEAD" /\ watched[k]

\* Every submitted workflow ends.
Terminates ==
    \A w \in Workflows : (w \in workflows) ~> WorkflowIsFinished(wfStatus[w])

-----------------------------------------------------------------------------
\* What the documents and comments say and the code does not do; the
\* configurations OrchestratorRefused, OrchestratorCancelled and
\* OrchestratorUnwatched show it.

\* docs/about.md, commitAssignment: "if err != nil || !resp.Accepted" the
\* assignment failed.  The code looks at err only, and the worker answers a
\* refusal without one.
AnswerHonoured ==
    [][\A t \in Tasks : status[t] = "READY" /\ status'[t] = "DISPATCHED" =>
           answer = "accepted"]_vars

\* docs/about.md, section 4.3: once CANCELLED is committed the Scheduler no
\* longer takes the task for a live one.  The code leaves its job in the queue
\* and never looks at the status again.
NoCancelledDispatch ==
    [][\A k \in Workers, t \in Tasks :
           exec[k][t] = "none" /\ exec'[k][t] = "queued" =>
               status[t] # "CANCELLED"]_vars

\* docs/task.md, stage 3: a worker that is killed is marked DEAD after the grace
\* period.  One that was declared dead before, by a late heartbeat, and came
\* back through the next heartbeat is no longer checked.
CrashDetected ==
    \A k \in Workers : (proc[k] = "down") ~> (node[k] = "DEAD")

=============================================================================
