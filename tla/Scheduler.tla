----------------------------- MODULE Scheduler ------------------------------
(***************************************************************************)
(* The scheduler's choice of a worker: assignOnce takes a batch of jobs    *)
(* and a snapshot of the live workers, and selectWorker sorts copies of    *)
(* those that can execute the job's type by load.  The registry's counts   *)
(* of running tasks change meanwhile, by heartbeats and by the scheduler's *)
(* own IncrementRunning; the snapshot does not.  (Module Orchestrator has  *)
(* what a Dispatch does, and any live worker for the choice.)              *)
(***************************************************************************)
EXTENDS Integers, Sequences, FiniteSets, SequencesExt

CONSTANTS
    Workers, NoWorker,
    WorkerCapacity,   \* WorkerCapacity[w]: WorkerNode.Capacity; it may be 0
    Capabilities,     \* Capabilities[w]: the types w has executors for
    Fickle,           \* workers that come and go
    Tasks, TypeOf,    \* the jobs and the type of each
    BatchSize,        \* 50 in the code
    MaxReport         \* bound: tasks a heartbeat reports

ASSUME SchedulerAssumption ==
    /\ IsFiniteSet(Workers) /\ IsFiniteSet(Tasks)
    /\ Cardinality(Workers) <= 12   \* sort.Slice: see FirstSorted
    /\ WorkerCapacity \in [Workers -> Nat]
    /\ NoWorker \notin Workers /\ Fickle \subseteq Workers
    /\ BatchSize \in Nat \ {0} /\ MaxReport \in Nat

VARIABLES
    readyQueue, \* ReadyQueue.items
    batch,      \* the jobs of the batch still to be assigned
    snapshot,   \* AliveWorkers: copies, in the order of the registry's map
    chosen,     \* the worker chosen for Head(batch), while Dispatch is called
    running,    \* running[w]: RunningTasks in the registry
    alive,      \* the workers that are ALIVE in the registry
    sched,      \* where assignOnce is
    given,      \* given[t]: the worker job t was dispatched to
    heard       \* the workers a heartbeat has come from

schedulerVars == <<readyQueue, batch, snapshot, chosen, running, alive, sched, given, heard>>

Copy == [id : Workers, running : 0..(MaxReport + Cardinality(Tasks))]

SchedulerTypeOK ==
    /\ readyQueue \in Seq(Tasks) /\ batch \in Seq(Tasks)
    /\ snapshot \in Seq(Copy)
    /\ chosen \in Workers \cup {NoWorker}
    /\ running \in [Workers -> 0..(MaxReport + Cardinality(Tasks))]
    /\ alive \subseteq Workers /\ heard \subseteq Workers
    /\ given \in [Tasks -> Workers \cup {NoWorker}]
    /\ sched \in {"idle", "popped", "select", "dispatch"}

SchedulerInit ==
    /\ readyQueue = <<>> /\ batch = <<>> /\ snapshot = <<>>
    /\ chosen = NoWorker
    /\ running = [w \in Workers |-> 0]
    /\ alive = Workers \ Fickle
    /\ sched = "idle" /\ heard = {}
    /\ given = [t \in Tasks |-> NoWorker]

-----------------------------------------------------------------------------
\* selectWorker.  The load is a quotient of floats: n/0 is infinite and 0/0
\* not a number, which differs from everything and is less than nothing.
Cap(c)   == WorkerCapacity[c.id]
IsNaN(c) == Cap(c) = 0 /\ c.running = 0

LoadDiffers(c, d) ==
    IsNaN(c) \/ IsNaN(d) \/ c.running * Cap(d) # d.running * Cap(c)
LoadLess(c, d) ==
    ~IsNaN(c) /\ ~IsNaN(d) /\ c.running * Cap(d) < d.running * Cap(c)

less(c, d) == IF LoadDiffers(c, d) THEN LoadLess(c, d) ELSE Cap(c) > Cap(d)

\* The positions of the copies that can execute t; they keep their order.
Candidates(t) == {i \in DOMAIN snapshot : TypeOf[t] \in Capabilities[snapshot[i].id]}

\* sort.Slice sorts up to twelve elements by insertion, in which an element
\* gets to the front exactly if it is less than every element before it: the
\* first of the result is the last such element.
Records(C) == {i \in C : \A j \in C : j < i => less(snapshot[i], snapshot[j])}
FirstSorted(C) == snapshot[Max(Records(C))]
selectWorker(t) == FirstSorted(Candidates(t)).id

-----------------------------------------------------------------------------
\* The engine's PushTask; each job comes once.
InScheduler(t) == t \in ToSet(readyQueue) \cup ToSet(batch)
PushTask(t) ==
    /\ given[t] = NoWorker /\ ~InScheduler(t)
    /\ readyQueue' = Append(readyQueue, t)
    /\ UNCHANGED <<batch, snapshot, chosen, running, alive, sched, given, heard>>

PopBatch ==
    /\ sched = "idle" /\ readyQueue # <<>>
    /\ LET n == IF BatchSize > Len(readyQueue) THEN Len(readyQueue) ELSE BatchSize IN
       /\ batch' = SubSeq(readyQueue, 1, n)
       /\ readyQueue' = SubSeq(readyQueue, n + 1, Len(readyQueue))
    /\ sched' = "popped"
    /\ UNCHANGED <<snapshot, chosen, running, alive, given, heard>>

\* The order of a map is any order.
Orders(S) == {s \in [1..Cardinality(S) -> S] : IsInjective(s)}
AliveWorkers ==
    /\ sched = "popped"
    /\ \E order \in Orders(alive) :
          snapshot' = [i \in DOMAIN order |->
                          [id |-> order[i], running |-> running[order[i]]]]
    /\ sched' = "select"
    /\ UNCHANGED <<readyQueue, batch, chosen, running, alive, given, heard>>

BatchEnds ==
    /\ sched = "select" /\ batch = <<>>
    /\ sched' = "idle" /\ snapshot' = <<>>
    /\ UNCHANGED <<readyQueue, batch, chosen, running, alive, given, heard>>

\* Where a job goes that could not be assigned.
PushedBack_Dropped(q, t) == q
PushedBack(q, t) == Append(q, t)

SelectFails ==
    /\ sched = "select" /\ batch # <<>> /\ Candidates(Head(batch)) = {}
    /\ readyQueue' = PushedBack(readyQueue, Head(batch))
    /\ batch' = Tail(batch)
    /\ UNCHANGED <<snapshot, chosen, running, alive, sched, given, heard>>

Select ==
    /\ sched = "select" /\ batch # <<>> /\ Candidates(Head(batch)) # {}
    /\ chosen' = selectWorker(Head(batch))
    /\ sched' = "dispatch"
    /\ UNCHANGED <<readyQueue, batch, snapshot, running, alive, given, heard>>

\* The registry's count is raised at once, the snapshot's is not.
IncrementRunning_Missing(w) == running' = running
IncrementRunning(w) == running' = [running EXCEPT ![w] = @ + 1]

\* commitAssignment and IncrementRunning.
DispatchOK(t) ==
    /\ sched = "dispatch" /\ t = Head(batch)
    /\ IncrementRunning(chosen)
    /\ given' = [given EXCEPT ![t] = chosen]
    /\ batch' = Tail(batch) /\ chosen' = NoWorker /\ sched' = "select"
    /\ UNCHANGED <<readyQueue, snapshot, alive, heard>>

DispatchFails ==
    /\ sched = "dispatch"
    /\ readyQueue' = PushedBack(readyQueue, Head(batch))
    /\ batch' = Tail(batch) /\ chosen' = NoWorker /\ sched' = "select"
    /\ UNCHANGED <<snapshot, running, alive, given, heard>>

-----------------------------------------------------------------------------
\* The registry: a heartbeat overwrites the count, whatever was added to it.
Heartbeat(w) ==
    /\ w \in alive
    /\ \E n \in 0..MaxReport : running' = [running EXCEPT ![w] = n]
    /\ heard' = heard \cup {w}
    /\ UNCHANGED <<readyQueue, batch, snapshot, chosen, alive, sched, given>>

ComesOrGoes(w) ==
    /\ w \in Fickle
    /\ alive' = IF w \in alive THEN alive \ {w} ELSE alive \cup {w}
    /\ UNCHANGED <<readyQueue, batch, snapshot, chosen, running, sched, given, heard>>

SchedulerNext ==
    \/ \E t \in Tasks : PushTask(t) \/ DispatchOK(t)
    \/ PopBatch \/ AliveWorkers \/ BatchEnds \/ SelectFails \/ Select
    \/ DispatchFails
    \/ \E w \in Workers : Heartbeat(w) \/ ComesOrGoes(w)

\* The ticker's goroutine runs, and not every Dispatch of a job fails.
SchedulerFairness ==
    /\ WF_schedulerVars(PopBatch) /\ WF_schedulerVars(AliveWorkers) /\ WF_schedulerVars(BatchEnds)
    /\ WF_schedulerVars(SelectFails) /\ WF_schedulerVars(Select) /\ WF_schedulerVars(DispatchFails)
    /\ \A t \in Tasks : SF_schedulerVars(DispatchOK(t))

SchedulerSpec == SchedulerInit /\ [][SchedulerNext]_schedulerVars /\ SchedulerFairness

-----------------------------------------------------------------------------
\* The jobs w was given.
Assigned(w) == Cardinality({t \in Tasks : given[t] = w})

\* Worker a has at most `slack' jobs more than its share of what a and b were
\* given, by capacity.  Of b it is asked that it was there all the time and can
\* do what a does, of both that no heartbeat has overwritten what the scheduler
\* has counted, and of the others that none with a's types has capacity 0.
Balance(slack) ==
    \A a, b \in Workers \ heard :
        /\ b \notin Fickle /\ Capabilities[a] \subseteq Capabilities[b]
        /\ \A z \in Workers :
              Capabilities[z] \cap Capabilities[a] # {} => WorkerCapacity[z] > 0
        => (Assigned(a) - slack) * WorkerCapacity[b] <= Assigned(b) * WorkerCapacity[a]

\* No worker gets ahead of its share by more than a batch, however many batches
\* there are and whatever calls fail: the counts IncrementRunning keeps are
\* what the next snapshot is taken from.
BoundedImbalance == Balance(BatchSize)

\* No worker gets ahead of its share by more than one job, the even split the
\* comment on IncrementRunning and the acceptance test of the scheduler
\* describe.  (Violated: within a batch the choice is made from the snapshot.)
EvenSplit == Balance(1)

\* Of two candidates that have a capacity, the one that is chosen is not the
\* more loaded one.  (Violated: an idle worker without a capacity stops the
\* insertion, and what stands behind it in the snapshot is not looked at.)
LessLoadedFirst ==
    sched = "dispatch" =>
        \A i, j \in Candidates(Head(batch)) :
            LET c == snapshot[i]
                b == snapshot[j]
            IN  b.id = chosen /\ Cap(b) > 0 /\ Cap(c) > 0 =>
                   b.running * Cap(c) <= c.running * Cap(b)

\* A job that a worker which stays can execute is dispatched, however many
\* jobs without a worker, and however many failed calls, go round with it.
NoStarvation ==
    \A t \in Tasks :
        (\E w \in Workers \ Fickle : TypeOf[t] \in Capabilities[w]) =>
            (t \in ToSet(readyQueue) ~> given[t] # NoWorker)

=============================================================================
