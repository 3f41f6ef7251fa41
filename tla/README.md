# Verification of the distributed workflow orchestrator

TLA+ modules, TLC configurations and TLAPS proofs for the Go code under `src/`:
a control plane that accepts workflows (directed acyclic graphs of tasks),
hands ready tasks to workers over gRPC, watches the workers by heartbeat and
takes tasks back from dead ones; and the worker process that executes them.

Paths below are relative to `src/`. `PROJECT.json` lists, machine-readably, the
components, the runs, the mutants that show each property can fail, the map from
definitions to source lines, the findings, the hazards and the theorems.

## 1. The system

| Part | State | Operations | Talks to |
|---|---|---|---|
| Domain model `common/domain` | statuses of a task and of a workflow, resolved dependencies, worker status | `NewWorkflow` (validation), `CanTransitTo`, `IsReady`, `AllDepsSucceeded`, ... | pure |
| Engine `infrastructure/control-plane/engine` | `workflows`; per task status, `AssignedTo`, result | `SubmitWorkflow`, `OnTaskResponse`, `OnTaskDispatched`, `CancelWorkflow`, `CancelTask`, `ReassignDeadWorkerTasks` | pushes jobs to the scheduler; starts one `CancelTasks` goroutine per worker; publishes events |
| Scheduler `.../scheduler` | `ReadyQueue`; during a tick the batch and a snapshot of live workers | `PushTask`, `assignOnce` every 200 ms | registry (snapshot, running counts), worker client (`Dispatch`), engine (`Job.OnDispatched`) |
| Registry `.../orchestration`, retry queue `pkg/retry_queue` | per worker: status, last heartbeat, running count; triggers by worker ID | `Register`, `Heartbeat`, `AliveWorkers`, `checkHeartbeat`, `RunLoop` | death hook: closes the connection, calls the engine |
| Worker client `.../client` | one connection per worker | `Dispatch`, `CancelTasks`, `CloseConn` | registry (`AddressOf`), workers |
| gRPC handlers `.../server` | none | submit, get, cancel, stream; register, heartbeat, report | engine, registry, event bus |
| Worker service `infrastructure/worker/service` | `unique` (tasks in flight with their cancel functions), `suspended` | `DispatchTask`, `CancelTasks`, `sendHeartbeat`, `register` | pool, control plane |
| Worker pool `pkg/worker_pool` | channel, two queues, busy count | `TrySubmit`, `worker`, `jobsLoop`, `retryLoop`, `Stop` | executors, reports through `ExecutableTask.Do` |
| Event bus `pkg/event_bus`, stream handler | bounded channels, subscribers | `Publish`, `Subscribe`, `dispatch`, `StreamWorkflowEvents` | engine publishes, streams read |

What is hard here. Every engine entry point is atomic under `WorkflowEngine.mu`,
but a task's journey is not: it passes through a queue, a batch, a blocking RPC, a
callback, a worker's channel, an executor and two reports, while clients cancel and
the registry's goroutine declares workers dead, sometimes wrongly. Calls may be lost
before or after they took effect. Go visits maps in random order. Nothing is
persisted: a restart of the control plane forgets everything, and a worker draws a
new ID at every start. What is recovered is the tasks of dead workers, and the
registrations of live workers with a control plane that has started again.

What makes each part correct:

* validation: accepts exactly the declarations without duplicate, unknown dependency
  or cycle;
* engine: dependencies are respected, no task is forgotten, one job per READY task,
  verdicts agree with the tasks, what ended stays, cancellation is exact and announced;
* scheduler: loses and duplicates no job, shares jobs out by capacity, lets no job starve,
  honours the worker's answer;
* registry: a dead worker is found, its tasks come back exactly once, one trigger per
  worker;
* worker: one copy of a task at a time, no accepted task lost or stuck, attempts run out, a
  cancelled task is not started again, `Stop` loses nothing;
* event stream: in order, ends with its own workflow, leaves no goroutine behind;
* together: every workflow ends.

Not all of it holds of the code; section 3 says what does, what does with which exception,
and what TLC refutes.

`PROJECT.json` lists the places where these are at risk under `hazards`.

## 2. Modules

| Module | Models | Extends / uses |
|---|---|---|
| `Domain` | life cycles, questions about the graph, the cascade as a set | |
| `NewWorkflow` | `NewWorkflow`, `resolveDependencies`, `validateTasksCycle`, `hasCycle` | |
| `NewWorkflowProofs` | theorems about the validation | `NewWorkflow` |
| `CancelDownstream` | the loop of `cancelDownstream` | `Domain` |
| `CancelDownstreamProofs` | theorems about it | `CancelDownstream` |
| `MCAlgorithms` | the inputs of the two for TLC; a behaviour runs one of them | `NewWorkflow`, `CancelDownstream` |
| `WorkflowEngine`, `MCWorkflowEngine` | the engine and the most general environment | `Domain` |
| `WorkflowEngineProofs` | theorems about the engine | `WorkflowEngine` |
| `Orchestrator`, `MCOrchestrator` | scheduler, registry, retry queue, workers around the engine | `Domain`, `INSTANCE WorkflowEngine` |
| `OrchestratorProofs` | the refinement and theorems about the whole | `Orchestrator`, `SequenceCounts`, `INSTANCE WorkflowEngineProofs` |
| `LockOrder` | mutexes of the control plane | |
| `Scheduler`, `MCScheduler` | `selectWorker` and `assignOnce` with loads, capacities, capabilities | |
| `RetryQueue` | the list, the map and `RunLoop` of `pkg/retry_queue` | |
| `Registry` | the registry and the workers' heartbeats over it | `RetryQueue`, `INSTANCE WatchSet` |
| `RegistryProofs` | theorems about registry and retry queue | `Registry`, `SequenceCounts` |
| `WatchSet` | abstract: a set of watched keys, none passed over for ever | |
| `WorkerPool` | `pkg/worker_pool` | |
| `WorkerService` | `DispatchTask`, `CancelTasks`, `unique`, `trackedTask` over the pool | `WorkerPool` |
| `WorkerServiceProofs` | theorems about service and pool | `WorkerService`, `SequenceCounts` |
| `EventBus` | `pkg/event_bus` | |
| `EventStream` | `StreamWorkflowEvents` and the engine as publisher, over the bus | `EventBus` |
| `ControlPlaneProofs` | theorems about event stream, scheduler and mutexes | `EventStream`, `Scheduler`, `LockOrder`, `SequenceCounts` |
| `SequenceCounts` | lemmas: how often a sequence holds members of a set, under `Append`, `Tail`, concatenation, ... | |

`WorkerPool`, `RetryQueue` and `EventBus` are libraries of the code and of the model: they
have no `Next`, and the module that uses them conjoins their steps with its own state
(what a job, a trigger, a handler does).

### WorkflowEngine

One action per entry point of `engine.go`; each takes the mutex for its whole body,
so it is one step, with the trailing `markReadyTasks`, `finalizeWorkflowIfDone`,
pushes and notifications inside. The variables are the fields of the code; `jobs[t]`
counts the `Job` values the scheduler holds for `t` wherever they are, and `cancels`
holds the `CancelTasks` calls in flight. A report about any task of a submitted
workflow may arrive at any time and any number of times; any worker may be declared
dead at any time; only `OnTaskDispatched` needs a job, because only a job carries the
callback. A status the protocol does not define is mapped to PENDING by
`FromProtoTaskStatus` and refused by every state; it is left out. So are payloads,
timeouts, retry settings (the engine reads none of them) and the publication of events.

`GraphAssumption` is what the engine may assume of a workflow: dependencies inside
the workflow and no cycle. The run `algorithms` and the theorem `AcceptedIsDAGCorrect` show
that `NewWorkflow` delivers it.

The cascade is a least fixed point (`Domain!cancelDownstream`); the run `algorithms` and the
theorem `CascadeIsClosureCorrect` show that the loop computes it in every order of visits.

### Orchestrator

The scheduler's goroutine is `PopBatch`, `AliveWorkers`, then per job `SelectFails` or
`SelectWorker`, `DispatchReturns` or `DispatchFails`, `OnDispatched`, and `BatchDone`.
`DispatchFails` may happen before or after the worker took the task; apart from a lossy
network it happens when the death hook closes the connection under a running call.
The registry's check is four steps because the code reads the worker without the lock:
`CheckBegins` (status and age of the heartbeat), `StatusRead` (status again),
`MarkedLive` or `MarkedDead` (the write, with the hook), `TriggerDropped` (the retry
queue forgets the worker). `Register` sets the status and pushes the trigger in two
critical sections of the code; they are one step here, since nothing between them
behaves differently from after both. Time is abstract: `fresh[k]` says whether the last
heartbeat is within the 15 s grace period, `GraceExpires` ends that.
A worker's table `unique` and its pool are `exec[k][t]`; the report of RUNNING is sent by
the step that takes the task from the channel, the final one by the step that removes it
from the table. `ran` is history: tasks that an executor really completed with success.

The engine is `E == INSTANCE WorkflowEngine WITH jobs <- JobsHeld`: its actions are used
with the scheduler's queue, batch and job in hand in place of the counter, and
`EngineSpec == E!Spec` is the refinement: every step of scheduler, registry and worker is
a step of the engine or a stutter.

Left out here: which live worker is preferred, running counts, capabilities (see
`Scheduler`); the inside of the retry queue (see `Registry`); the number
of pool goroutines (every queued task may start); what a `CancelTasks` call does on the
worker (see `WorkerService`), which is to end an execution with any of the outcomes that are possible anyway
(its final report, sent with the cancelled context, is lost or refused: CANCELLED is
final); the short time in which a worker is registered but does not listen yet (a failed
Dispatch, as in the run `lossy`).

Constants say what the environment may do: `Crashable`, `Flaky` (live workers whose
heartbeats come late or fail), `Cancels`, `LossyRPC`, `ExecutorErrors`, and
`PromptCallback`: nothing reaches the engine between the return of `Dispatch` and
`OnDispatched`. The code does not guarantee that last one (see `overtaken`); it isolates
one defect so that the rest can be stated.

### LockOrder

Places of six kinds of sections and the three mutexes that nest; readers of the
registry wait behind a waiting writer, as Go's `RWMutex` makes them.

### Scheduler

A worker's record in the snapshot is a copy `[id, running]`; the registry's `running` goes
on changing by heartbeats and by `IncrementRunning`. Loads are compared as fractions;
division by a capacity of 0 follows IEEE 754 (`n/0` is infinite, `0/0` is NaN, which
differs from everything and is less than nothing). `sort.Slice` is an insertion sort for at
most twelve elements; the model needs only which element ends up first, and that is the
last one less than everything before it (`Records`, `FirstSorted`, over the positions of the
snapshot). `SchedulerAssumption` therefore limits the model to twelve workers; no proof uses
the limit. Beyond it Go sorts by other means, which could change who is first only among equals
and where NaN takes part. The registry's map is visited in any order. `given` is history, the
worker each job went to; `heard` are the workers of which a heartbeat has come, which overwrites
the count that `IncrementRunning` keeps. Job `j4` has a type nobody has an executor for and goes
round for ever.

### Registry, RetryQueue, WatchSet

`RetryQueue` has the list, the keys of `active`, and of the times in it only whether they
have come (`due`). `RunLoop` is four steps, because it lets go of the mutex for `Do`, for
`Cancel` and before it looks the key up again. The one step made of two critical sections
is putting back a trigger that is not due: only the loop itself cancels keys.
`Registry` adds `Register` in its two halves, heartbeats, `checkHeartbeat` in its separate
reads, and the worker's side: a failed heartbeat, then `Register`, then serving again or
suspended. Calls of `Unreliable` workers fail before or after their effect. `Restart`
empties the control plane.

`WatchSpec` is the refinement: the queue implements `WatchSet`, whose only promise is the
strong fairness of `CheckBegins`, with no more than weak fairness of the loop's goroutine.
This is what `Orchestrator!Fairness` asks of it, so the assumption made there is shown here.

### WorkerPool, WorkerService

A job passes `jobChan -> worker -> retryQ -> retryLoop -> jobsQ -> jobsLoop -> jobChan`; each
goroutine's hand is a place of its own, for a job in a hand is in none of the counters
`Stop` reads. Back-off is counted in units of the model. `busyCount` goes up only after the
job was taken, as in the code. A send on the closed `jobChan` panics and ends the process.
`DispatchTask` is two steps, `DispatchAdds` (with the look-up of the executor) and
`DispatchSubmits`: it holds no lock between them, and repeated calls come at any time. `ctx`
is the context behind the cancel function in the table. `Outcomes` says what `Execute` may
return: a result, good or bad, or an error. A shell command whose context is
cancelled before it starts is an error, an HTTP request then a failed result, so only the
former is tried again; `Faulty` tasks may err at any attempt, `Broken` ones (a payload that
cannot be read, a missing binary) do so every time. Nothing limits the attempts, as in the code:
`moveToRetry` puts every job back and `MaxRetries` is never read. `told` and `answer` are history.

### EventBus, EventStream

The engine's call is split into `CallWrites` and `CallPublishes`, since the handler reads the
status without `e.mu`; the call as a whole excludes other calls, makes as many changes as it
likes to its workflow, one publication after each, and may return after any (`CallReturns`).
Which changes they are (READY, DISPATCHED, RUNNING, READY again, ...) makes no difference to bus
and stream; what does is the order and which one ends the workflow. So an event is a workflow
and the number of a change, and the end has the number `MaxChanges`, however many changes
came before it. A stream goes
through look-up, `IsFinished`, snapshot, `Subscribe`, loop, `Unsubscribe`. `missed` is
history: the streams past which the end of their workflow went, because a channel was full
or they had not subscribed.

## 3. Runs

Passing:

| Run | Instance | Shows |
|---|---|---|
| `engine` | `{a, b, c<-a,b, d<-c}`, `{e}`, `{}`; 2 workers; 11,214 states | types and nine properties of the engine |
| `algorithms` | validation: all graphs of 3 tasks, nearly acyclic ones of 4, duplicates, unknown names, empty (111,978 states); cascade: all graphs of 4 tasks, all consistent states, all orders (344,253) | accepted iff sound; the colours mean what the search relies on; an answer always comes; loop = closure; nobody on a worker is met; the walk ends |
| `lossy` | chain of 2 tasks, 2 workers, both may crash, calls may be lost, executors fail, clients cancel; 193,472 states | refinement of the engine, genuine order of execution |
| `flaky` | chain of 2 tasks, 2 workers, one may crash, be late, be suspended, register again; 596,857 states | refinement of the engine under false alarms |
| `steady` | `{a, b, c<-a,b}`, 2 workers, one may crash; 16,845 states | no double run, tasks recoverable, workflow ends |
| `locks` | scheduler, checker, one canceller, two handlers, 2 workers; 433,024 states | the only standstill is the known inversion |
| `worker` | a shell task that may err at every attempt, an HTTP task that always does, a task without executor; 2 goroutines, channel of 1; 83,466 states | one copy per key; accepted tasks are held; what `Stop` waits for; every task that can be executed leaves the table |
| `stream` | 2 workflows of up to 3 changes, 1 stream; bus of 1, subscriber of 2, `out` of 1; 319,948 states | order; end of the stream; no goroutine left |
| `watch` | 2 workers, one unreliable; 2 restarts; 28,409 states | one trigger per worker, deaths noticed, workers recover from a restart, refinement of `WatchSet` |
| `sched` | capacities 2 and 1, the larger worker comes and goes; 4 jobs, one without worker; batches of 2; 210,922 states | nobody ahead of its share by more than a batch; no starvation |

Deadlock is checked in `engine`, `flaky` and `steady`. It is not in `lossy` (both workers
may crash, and then only clients could act), in `algorithms` (functions
end), in `locks` (the code really can stop), nor in the last four: a worker's pool stops or
panics, streams end, and the environment may be quiet.

Violated, with a finding in `PROJECT.json`:

| Run | Property | What happens |
|---|---|---|
| `overtaken` | `Terminates` | the worker's reports arrive before `OnDispatched`, are refused while the task is READY, and the task stays DISPATCHED for ever |
| `stop` | `NoRetryLost` | `Stop` reads four lengths one after the other; a job that fails in between is in the retry queue when the loops have stopped (`worker_pool.go:84`, against the comment at line 81) |

Further counterexamples, each found by TLC with the configuration named (none takes more
than seconds; run `tlc -config X.cfg M`):

| Configuration, module | Property | What happens |
|---|---|---|
| `OrchestratorRefused.cfg`, `MCOrchestrator` | `AnswerHonoured` | `Accepted: false` is ignored (`scheduler.go:141`, against `docs/about.md:896`); the task is DISPATCHED and nowhere |
| `OrchestratorCancelled.cfg`, `MCOrchestrator` | `NoCancelledDispatch` | a task cancelled while READY is still sent and executed (`scheduler.go:110`, against `docs/about.md:654`) |
| `OrchestratorUnwatched.cfg`, `MCOrchestrator` | `CrashDetected` | DEAD by false alarm, ALIVE by heartbeat, no trigger any more: the next crash goes unnoticed (`registry.go:100`, against `docs/task.md:51`) |
| `WorkerCancelled.cfg`, `WorkerService` | `CancelIsFinal` | `CancelTasks` answers true of a shell task whose command has not started, or of one in back-off, and the pool tries it again (`unique.go:71`, `worker_pool.go:128`, against `docs/task.md:60`) |
| `WorkerBroken.cfg`, `WorkerService` | `RetriesRunOut` | a task that errs every time goes round for ever: nobody reads `MaxRetries` (`worker_pool.go:128`, against `docs/about.md:532`) |
| `SchedulerBatch.cfg`, `MCScheduler` | `EvenSplit` | two jobs of one batch go to one of two equal idle workers: the batch is assigned from the snapshot, not from the counts that `IncrementRunning` keeps (`scheduler.go:131`, against the comment two lines above and `docs/task.md:53`) |
| `SchedulerNaN.cfg`, `MCScheduler` | `LessLoadedFirst` | an idle worker without a capacity has load NaN, which stops the insertion half-way; a busy worker is chosen before an idle one (`scheduler.go:89`, against the comment at line 93) |
| `EventStreamForeign.cfg`, `EventStream` | `ClosedByOwnEnd` | the end of another workflow closes the stream (`grpc_orchestration_server.go:206`, against `docs/task.md:168`) |
| `LockOrderInverted.cfg`, `LockOrder` | `EveryCallReturns` | `CloseConn` under the registry's mutex (`registry.go:194`) against `AddressOf` under the client's (`worker_client.go:91`) |

What the properties of the passing runs say only with an exception, because the code does
not do more:

* `OneCopy`: a type without executor leaves its key in the table (`service.go:83`), and every
  later Dispatch of the task is answered with accepted and ignored.
* `AcceptedIsHeld`: a repeated Dispatch is answered with accepted before the first one is
  refused by the full pool (`service.go:116`); the comment at `service.go:63` calls
  DispatchTask idempotent.
* `StopWaits`: it speaks of executions, the channel and the hands of the pool's goroutines. Jobs
  on their way back from an error are excepted, wherever in that loop they are: `stop` shows
  that they are lost (or `jobsLoop` panics on the closed channel).
* `TaskLeavesTable`: not of a `Broken` task, which never leaves (`WorkerBroken.cfg`). That it goes
  round for ever keeps nobody else from leaving.
* `OneTriggerUntilDead`, `DeathNoticed`: after a verdict DEAD a heartbeat revives the worker
  without a trigger; a `Register` before `Cancel` has no trigger, one right after it two
  (`retry_queue.go:93`, `:98`, against the comment at `registry.go:65`).
* `RecoversFromRestart`: a worker known to the registry whose re-registration failed stays
  suspended although its heartbeats succeed (`service.go:161`).
* `BoundedImbalance`: by a batch, not by one job (`SchedulerBatch.cfg`). It asks that the worker which got less
  was there all the time and can do what the other does; that no heartbeat of the two has come,
  since it replaces the count by what the worker had when it sent it (`registry.go:96`); and that nobody
  with the same types has capacity 0 (`SchedulerNaN.cfg`).
* `StreamEnds`: a stream whose workflow ended before `Subscribe`, or whose last event was
  dropped, stays open until the client goes (`grpc_orchestration_server.go:168`).
  `OrderedDelivery` is about events: the snapshot may already show a later status than the
  first event.

Seen while modelling and not stated as a property: a batch's snapshot may name a
worker declared dead since, and a task assigned to it is not taken back
(`scheduler.go:108`); a lost final report leaves the task RUNNING until its worker dies
(`executable_task.go:105`); the report of a worker from which the task was taken away is
accepted (`engine.go:75`, against `docs/about.md:1194`); an empty workflow stays PENDING;
`CancelWorkflow` on a workflow with a FAILED task says CANCELLED.

### Bounds

Two tasks with a dependency are the smallest instance in which a report makes another
task ready; a fork and join adds batches of two jobs and a task that waits for two
(`engine`, `steady`). Two workers are needed for a task to be in two places; a third adds
no new relation, since the properties speak of one task and at most two workers.
`BatchSize` is 2 in `steady`, so that a batch holds less than the queue may, 3 elsewhere;
`PoolCapacity` is 3 (the capacity matters in `refused`-like situations, which suspension
reaches too). Nothing else is bounded: queues are finite because jobs are conserved, and
`jobs` in `engine` needs no bound for the same reason. Workers are interchangeable in
`engine` and `lossy` (symmetry); the liveness runs use no symmetry.

In the components: a channel of one job and two goroutines let the channel be full, a job be
in back-off and another be executing at the same time, which is all that separates the
branches of the pool. Errors are not bounded, and the back-off is one unit of time.
`EventStream` has two workflows, because streams confuse them, and capacities small enough
for each of the three channels to overflow: up to three changes of each workflow (`MaxChanges`)
are six events against a bus of one, a subscriber of two and an `out` of one. `Registry` allows
two triggers of one key beside the first (`MaxTriggers`), which is reached only after a
verdict DEAD; two restarts, so that one can hit the recovery from the other. `Scheduler` has
unequal capacities, so that shares differ, and more jobs than a batch holds, so that a second
snapshot sees what the first batch did; `SchedulerNaN.cfg` has three workers, for an insertion to
be stopped half-way by NaN. A heartbeat reports at most `MaxReport` running jobs, 1.

### Fairness

`Orchestrator!Fairness`: weak fairness of the scheduler's goroutine (a ticker loop that
never ends), of the check in progress, of a worker's registration, heartbeat and pool
steps (goroutines that never stop while the process is up), and of time passing for a
crashed worker; strong fairness of `CheckBegins`, which the run `watch` derives from the
queue. Nothing is assumed of clients, of crashes, of
lost calls or of executors' errors. An executor that never returns is excluded: shell and
HTTP executors run under the task's timeout. `LockOrder`: strong fairness per goroutine,
because Go's mutexes are handed to the longest waiter after 1 ms. The loops of
`CancelDownstream` and `NewWorkflow` just run on.

The components assume weak fairness of their goroutines and of time, and strong fairness
in five places: `WorkerService`, of `jobsLoop`'s send, since a receiver hands a freed place
to a sender that is already blocked before any later `TrySubmit` can have it; `EventStream`,
of a subscriber's return, since `select` chooses at random among the cases that are ready;
`Registry`, of the first half of `Register`, and `Scheduler`, of a job's successful Dispatch:
calls may fail any number of times, but not always. These two are assumptions about the
network; `DeathNoticed`, `WatchSpec` and the safety properties do not use them. The fifth is
about executors, and only `TaskLeavesTable` uses it: a task that can succeed does not end in an
error at every attempt (`Finishes`; `Broken` tasks are the ones for which this is not assumed).

## 4. Proofs

`WorkflowEngineProofs` proves for every set of workflows, every acyclic graph and every
set of workers: `TypeOK`, `DepsRespected`, `NoOrphans`, `JobConservation`, `Recoverable`,
`WorkflowVerdict`, `NeverStalls` as invariants and `FinishedIsFinal`, `CancelAnnounced`,
`CancellationIsExact` as action properties of `Spec`. Assumptions: `GraphAssumption` and `WorkerAssumption` of
`WorkflowEngine`.

The invariants are not inductive one by one. `IInv` is their conjunction with three more
facts: no task is ever RETRYING (nobody asks for that status, and a RETRYING task would
be marked ready again), tasks of a workflow that was not submitted are untouched (so that
submitting starts from PENDING), and a submitted workflow with tasks is not PENDING any
more (so that it may be finalised). `DepsRespected` needs `NoOrphans` and conversely: a
success can only enable tasks because no finished task was left behind, and a cascade
meets no task on a worker because whatever waits for an unfinished task has not been
handed out. That last fact is also why `OnTaskResponse` may throw away the list that
`cancelDownstream` returns (`CancelAnnounced`). The proof has a lemma per action; lemmas
about `cancelDownstream` (closed, contained in the cancellable tasks, all of them waiting
for a cancelled or failed one) are shared. `NeverStalls` follows from `IInv` by
well-founded induction: a rank-minimal unfinished task has all its dependencies
succeeded, so it is not PENDING.

`CancellationIsExact` compares the cascade with `Descendants`, a recursive function that knows
nothing of statuses. That it means what it says is proved without an induction principle, from
least numbers: a least bound up to which the recursion had no solution would be one more than a
bound with a solution, which can be extended (`LayersExist`); a task found in some layer is in the
layer numbered by its rank, so as many layers as there are tasks are enough (`DescendantsOf`).
Then `DescendantsWait`: what waits for an unfinished task is PENDING or CANCELLED. The walk stops
at a CANCELLED task, and misses nothing by it: `NoOrphans` says that nobody PENDING is behind.

### The whole: OrchestratorProofs

`EngineSpecCorrect` is the refinement `Spec => EngineSpec`, with nothing assumed of the
environment: calls are lost before or after their effect, workers crash, are late or are
suspended, clients cancel. It needs the types of scheduler and registry (`PlantOK`) and that
the scheduler conserves jobs: `JobsHeld` counts a task in queue, batch and hand, and every
step that moves a job between them leaves the sum alone (`SequenceCounts`). With it the
engine's theorems hold of the whole system (`EngineInvariantsCorrect`, `EngineStepsCorrect`
with all three action properties, `TypeCorrect`): `WorkflowEngineProofs` is instantiated, not repeated. `EngineAssumption` is
the engine's assumption about the same constants.

The other three rest on lemmas that classify every step once, seen from one task, one
worker or the scheduler (`TaskMoves`, `ExecMoves`, `SiteMoves`, `SchedMoves`).

* `GenuineOrder`, again without any assumption. `OrderInv` adds that already the *job* of a
  task is held only after everything it waits for has run, that an execution about to report
  success has run, and that SUCCEEDED means it has. The engine's `DepsRespected` is what
  makes a new job satisfy this.
* `NoDoubleRun`, on a `Reliable` network: no lost calls, no live worker whose heartbeats are
  late or fail. Both are needed, TLC finds a task on two workers without either: a Dispatch
  that failed after its effect is repeated elsewhere, and a false alarm takes back a task
  that goes on running. `PromptCallback` is not needed, although the run `steady` has it.
  `RegistryInv` says that the registry then doubts only dead workers and watches all others,
  `RunInv` that a task on a worker is on no other and that the engine knows of it: its
  Dispatch has just been answered, or its job is used up and it is assigned there or
  cancelled.
* `HeldOrRecoverable`, for `Steady` operation (`Reliable` and `PromptCallback`) and pools with
  room for all tasks (`Roomy`). An overtaken callback leaves a task DISPATCHED that is nowhere
  (`overtaken`), as does a refused Dispatch (`OrchestratorRefused.cfg`) and a lost final
  report. `HoldInv` adds the moment between the answer of Dispatch and its callback.

`Steady` and `Roomy` hold in the run `steady`, so their conjunction with `Spec` is not empty.

### The worker: WorkerServiceProofs

`OneCopy`, `AcceptedIsHeld` and `StopWaits` for any set of tasks, any finite
number of goroutines (`PoolAssumption`; the code replaces a count of 0 by 5) and any capacity
and back-off. `PoolInv` is about the pool alone: `busyCount` is the number of goroutines
between its increment and decrement, goroutines return only after the channel was closed and
drained, and `Stop` returns only after they have. `TableInv` adds what the table says of the
pool: one copy per key, handlers between `Add` and `TrySubmit` only for tasks with an executor,
without a context as long as they have not submitted, and a context for every task that
`CancelTasks` has answered true of (so that answering and submitting do not overlap).
`StopWaits` needs both: after `Stop` the channel is empty and no goroutine holds a job, so
the one copy of a key, unless it is still with its handler, is in the back-off loop.

### Registry and retry queue: RegistryProofs

`ActiveHasTrigger` and `OneTriggerUntilDead` for any number of workers, failed calls and
restarts, and `WatchStepsCorrect`, the safety half of `WatchSpec` (its fairness half is
checked by TLC). The invariant says of each worker not yet declared dead that it is in the map
with one trigger, in list or hand, or in neither, in which case `Register` is between its two
halves; and that `RunLoop` works on active keys and cancels only keys of dead workers.

### Validation and cascade: NewWorkflowProofs, CancelDownstreamProofs

`AcceptedIsDAG`, `RejectedForReason` and `ColoursAreTrue` for declarations of any length.
`DeclarationsAssumption` says only that a declaration is a sequence of records. "No cycle" is
defined by a numbering (`Acyclic`); the proofs use the equivalent `Grounded`, every set of
tasks has one that waits for no other of it, and two lemmas connect them
(`AcyclicIsGrounded`, `GroundedIsAcyclic`). The invariant has the tasks read and resolved so
far, the stack of calls (gray is on the stack, once; a call waits for the next; what it has
dealt with is black or is the next call), and that the black part is closed and grounded, as
is the part behind every task whose search is over: colours are thrown away between two
searches, so `Searched` has to remember it. A gray dependency gives a set of declared tasks
each of which waits for another of the set, hence a cycle that was really declared.

`CascadeIsClosure` and `NobodyToNotify` for any number of tasks. Tasks are numbered along the
edges (`Task == 1..N`), which every acyclic graph allows. `Sound` says that only members of the
least fixed point are touched, `Complete` that whoever waits for a touched task is touched or
still ahead of the walk.

### Event stream, scheduler, mutexes: ControlPlaneProofs

`OrderedDelivery` for any number of workflows, streams and changes and any capacities of the
channels. An event is a workflow and a number; `Before` orders two events of
one workflow. The invariant says that the channel `out`, the subscriber's queue, the event in
the hand of `dispatch` and the bus, in this sequence, are in order for each stream
(`WayInv`, `BusInv`), that all of it is later than what the stream has last sent, and that what
was published has happened (`Made`), strictly before a change not yet published. The last part is
what makes a new event later than everything under way; it rests on `CallInv`, that the engine
publishes a change before it makes the next. Events lost on a full channel leave an ordered
sequence ordered.

`BoundedImbalance` for any number of workers and jobs, any capacities, counts, batch size and orders
of the map. It rests on the choice being a least one of the snapshot (`BestOfSnapshot`, lemma
`ChoiceIsBest`). Without NaN, `less` is a strict
weak order: `LowerThanAllAbove` shows it of quotients compared by cross products, also
when capacities are 0, where cross products of their own are not transitive. The first element
after the insertion is then a least one (`FirstIsLeast`): a least position with something
less would itself be a record later than the last. `ChoiceInv` adds that neither batch nor
snapshot changes while `Dispatch` is called. `JobsInv` says that no job is lost or held twice, so
that each is given away once. `CountsInv` says that until a heartbeat comes the registry's count is
the number of jobs given, and that a copy in the snapshot is behind it by no more than what the
batch has given out since. The step that gives a job to `a` then has a copy of `a` that was no
more loaded than that of `b`; what `a` has got beyond its copy is less than a batch, and what
`b` has got only helps (`BalanceStep`).

`OnlyInversion` for any number of goroutines and workers, from the types and the fact that only
the checker is inside the hook: a holder of the engine's mutex never waits, so nobody waits for
that mutex in a standstill, and what is left is the hook waiting for the client's mutex and its
holder waiting for the registry's.

### Only model-checked

Liveness and everything that rests on fairness: `Terminates`, `CrashDetected`, `WalkEnds`,
`Answered`, `TaskLeavesTable`, `StreamEnds`, `NoLeak`, `DeathNoticed`, `RecoversFromRestart`,
`NoStarvation`, and the fairness half of `WatchSpec`. The prover does not handle `ENABLED`.
Every invariant and every action property of the passing runs is a theorem as well,
`NoDoubleRun` and `HeldOrRecoverable` under the assumptions named above.

## 5. Not modelled

Raft, persistence, the API gateway, the CLI and multi-tenancy exist in `docs/` only.
Configuration, logging and generated code are I/O or wiring; of the executors only the
outcomes are modelled. `GetWorkflow` reads the engine's objects without its lock and
changes nothing. Code without a caller outside tests is left out: `Submit` of the pool,
`StopLoop` and the readers of the retry queue, `Update` and `Peek` of the priority queue,
the replacement of a subscriber with the same id. (`Stop` of the pool and `Shutdown` of the bus
are in the models although only tests call them.) The worker's `context.Background()` is never
done, so neither are the branches on it.

## 6. Plan

Done, in this order: `Domain`, `WorkflowEngine` and its proofs, `Orchestrator` with the
refinement, `CancelDownstream`, `NewWorkflow`, `LockOrder` with its theorem; then `WorkerPool`,
`WorkerService`, `EventBus`, `EventStream`, `RetryQueue`, `Registry` with the refinement of
`WatchSet`, and `Scheduler`.

Then the proofs: `SequenceCounts`, `RegistryProofs`, `WorkerServiceProofs`,
`OrchestratorProofs`, `CancelDownstreamProofs`, `NewWorkflowProofs`, `ControlPlaneProofs`, and
exact cancellation in `WorkflowEngineProofs`.

Left: a property about `GetWorkflow`, which reads the engine's objects without its lock; it
needs the fields of a workflow to be read one at a time.
