------------------------- MODULE OrchestratorProofs -------------------------
(***************************************************************************)
(* Machine-checked proofs about Orchestrator, for any workflows, any       *)
(* number of workers and any environment the constants describe.  First    *)
(* the refinement: what the scheduler and the workers do is a step of the  *)
(* engine's specification or none at all.  The theorems about the engine   *)
(* then hold for the composed system and are used to prove the rest.       *)
(***************************************************************************)
EXTENDS Orchestrator, SequenceCounts, TLAPS

\* The engine's theorems, about the engine inside the orchestrator.
EP == INSTANCE WorkflowEngineProofs WITH jobs <- JobsHeld

-----------------------------------------------------------------------------
\* The state of the scheduler, of the registry and of the workers.

\* The scheduler: types, an empty batch between two batches, and a job in hand
\* exactly during Dispatch and its callback.
SchedOK ==
    /\ queue \in Seq(Tasks) /\ batch \in Seq(Tasks)
    /\ snapshot \subseteq Workers
    /\ sched \in {"idle", "popped", "loop", "dispatching", "answered"}
    /\ answer \in {"none", "accepted", "rejected"}
    /\ sched = "idle" => batch = <<>>
    /\ IF sched \in {"dispatching", "answered"}
       THEN job \in Tasks /\ target \in Workers
       ELSE job = NoTask /\ target = NoWorker

\* Registry and workers: types, and a worker under check when there is a check.
SitesOK ==
    /\ node \in [Workers -> {"UNKNOWN", "ALIVE", "SUSPECT", "DEAD"}]
    /\ fresh \in [Workers -> BOOLEAN] /\ watched \in [Workers -> BOOLEAN]
    /\ check \in [worker : Workers \cup {NoWorker}, at : CheckPoint]
    /\ check.at # "none" => check.worker \in Workers
    /\ proc \in [Workers -> {"new", "up", "down"}]
    /\ link \in [Workers -> {"ok", "failed", "suspended"}]
    /\ exec \in [Workers -> [Tasks -> Phase]]
    /\ ran \subseteq Tasks

PlantOK == SchedOK /\ SitesOK

\* A set in some order is a sequence of its members.
LEMMA OrderIsSeq ==
    ASSUME NEW T \in SUBSET Tasks, NEW s \in SetToSeqs(T), IsFiniteSet(T)
    PROVE  s \in Seq(Tasks) /\ s \in Seq(T)
<1>1. Cardinality(T) \in Nat
  BY FS_CardinalityType
<1>2. s \in [1..Cardinality(T) -> T]
  BY DEF SetToSeqs
<1> QED
  BY <1>1, <1>2

\* The tasks are finitely many.
LEMMA TasksFinite == IsFiniteSet(Tasks) /\ \A T \in SUBSET Tasks : IsFiniteSet(T)
<1>1. IsFiniteSet(Tasks)
  BY EngineAssumption, Zenon DEF E!GraphAssumption, E!IsFiniteSet, IsFiniteSet
<1> QED
  BY <1>1, FS_Subset

\* What the engine pushes leaves the queue a sequence of tasks and the rest of
\* the scheduler alone.
LEMMA PushesType ==
    ASSUME queue \in Seq(Tasks), NEW T \in SUBSET Tasks, Pushes(T)
    PROVE  queue' \in Seq(Tasks) /\ UNCHANGED <<batch, snapshot, sched, job, target, answer>>
<1>1. PICK s \in SetToSeqs(T) : queue' = queue \o s
  BY DEF Pushes
<1>2. s \in Seq(Tasks)
  BY OrderIsSeq, TasksFinite
<1>3. queue \o s \in Seq(Tasks)
  BY <1>2, OccConcat
<1>4. queue' \in Seq(Tasks)
  BY <1>1, <1>3, Zenon
<1> QED
  BY <1>4 DEF Pushes

\* It holds at the start.
LEMMA PlantInit == Init => PlantOK
<1> SUFFICES ASSUME Init PROVE PlantOK
  OBVIOUS
<1>1. fresh \in [Workers -> BOOLEAN] /\ watched \in [Workers -> BOOLEAN]
  BY DEF Init
<1>2. check \in [worker : Workers \cup {NoWorker}, at : CheckPoint] /\ check.at = "none"
  BY DEF Init, NoCheck, CheckPoint
<1>3. exec \in [Workers -> [Tasks -> Phase]]
  BY DEF Init, Phase
<1> QED
  BY <1>1, <1>2, <1>3 DEF Init, PlantOK, SchedOK, SitesOK

\* The scheduler's own steps and the pushes of the engine.
LEMMA SchedStep == PlantOK /\ [Next]_vars => SchedOK'
<1> SUFFICES ASSUME PlantOK, [Next]_vars PROVE SchedOK'
  OBVIOUS
<1>0. SchedOK /\ queue \in Seq(Tasks) /\ batch \in Seq(Tasks)
  BY DEF PlantOK, SchedOK
<1>1. ASSUME UNCHANGED schedVars PROVE SchedOK'
  BY <1>0, <1>1 DEF SchedOK, schedVars
<1>2. ASSUME NEW T \in SUBSET Tasks, Pushes(T) PROVE SchedOK'
  BY <1>0, <1>2, PushesType DEF SchedOK
<1>3. ASSUME NEW w \in Workflows, Submit(w) PROVE SchedOK'
  <2>1. E!recomputeReadyTasks(status, w) \in SUBSET Tasks
    BY DEF E!recomputeReadyTasks, E!TasksOf
  <2> QED
    BY <1>2, <1>3, <2>1 DEF Submit
<1>4. CASE MarkedDead
  BY <1>2, <1>4 DEF MarkedDead
<1>5. ASSUME NEW t \in Tasks, NEW s, ReportResult(t, s) PROVE SchedOK'
  <2>1. E!recomputeReadyTasks(E!Reported(t, s), WorkflowOf[t]) \in SUBSET Tasks
    BY DEF E!recomputeReadyTasks, E!TasksOf
  <2> QED
    BY <1>1, <1>2, <1>5, <2>1 DEF ReportResult
<1>6. ASSUME NEW k \in Workers, NEW t \in Tasks, TaskStarts(k, t) \/ TaskEnds(k, t)
      PROVE  SchedOK'
  BY <1>5, <1>6 DEF TaskStarts, TaskEnds
<1>7. CASE PopBatch
  <2> DEFINE n == IF BatchSize > Len(queue) THEN Len(queue) ELSE BatchSize
  <2>1. n \in 0..Len(queue)
    BY <1>0, BoundAssumption
  <2>2. SubSeq(queue, 1, n) \in Seq(Tasks) /\ SubSeq(queue, n + 1, Len(queue)) \in Seq(Tasks)
    BY <1>0, <2>1, OccSplit
  <2>3. batch' = SubSeq(queue, 1, n) /\ queue' = SubSeq(queue, n + 1, Len(queue))
    BY <1>7 DEF PopBatch
  <2> HIDE DEF n
  <2>4. batch' \in Seq(Tasks) /\ queue' \in Seq(Tasks)
    BY <2>2, <2>3, Zenon
  <2> QED
    BY <1>0, <1>7, <2>4 DEF PopBatch, SchedOK
<1>8. CASE AliveWorkers \/ BatchDone
  BY <1>0, <1>8 DEF AliveWorkers, BatchDone, SchedOK
<1>9. ASSUME batch # <<>> PROVE Head(batch) \in Tasks /\ Tail(batch) \in Seq(Tasks)
  BY <1>0, <1>9
<1>10. CASE SelectFails
  <2>1. Head(batch) \in Tasks /\ Tail(batch) \in Seq(Tasks)
    BY <1>9, <1>10 DEF SelectFails
  <2>2. Append(queue, Head(batch)) \in Seq(Tasks)
    BY <1>0, <2>1
  <2>3. batch' \in Seq(Tasks) /\ queue' \in Seq(Tasks)
    BY <1>10, <2>1, <2>2, Zenon DEF SelectFails
  <2> QED
    BY <1>0, <1>10, <2>3 DEF SelectFails, SchedOK
<1>11. ASSUME NEW k \in Workers, SelectWorker(k) PROVE SchedOK'
  <2>1. Head(batch) \in Tasks /\ Tail(batch) \in Seq(Tasks)
    BY <1>9, <1>11 DEF SelectWorker
  <2>2. batch' \in Seq(Tasks) /\ job' \in Tasks
    BY <1>11, <2>1, Zenon DEF SelectWorker
  <2> QED
    BY <1>0, <1>11, <2>2 DEF SelectWorker, SchedOK
<1>12. CASE DispatchReturns
  <2>1. answer' \in {"none", "accepted", "rejected"}
    BY <1>12 DEF DispatchReturns, Verdict
  <2> QED
    BY <1>0, <1>12, <2>1 DEF DispatchReturns, SchedOK
<1>13. CASE DispatchFails
  <2>1. Append(queue, job) \in Seq(Tasks)
    BY <1>0, <1>13 DEF DispatchFails, SchedOK
  <2>2. queue' \in Seq(Tasks)
    BY <1>13, <2>1, Zenon DEF DispatchFails
  <2> QED
    BY <1>0, <1>13, <2>2 DEF DispatchFails, SchedOK
<1>14. CASE OnDispatched
  BY <1>0, <1>14 DEF OnDispatched, SchedOK
<1>15. CASE Cancel \/ CancelCallEnds \/ StatusRead \/ MarkedLive \/ TriggerDropped
            \/ UNCHANGED vars
  BY <1>1, <1>15 DEF Cancel, CancelCallEnds, StatusRead, MarkedLive, TriggerDropped, vars
<1>16. ASSUME NEW k \in Workers,
              \/ Register(k) \/ RegisterFails(k) \/ Heartbeat(k) \/ HeartbeatFails(k)
              \/ GraceExpires(k) \/ CheckBegins(k) \/ Crash(k)
       PROVE  SchedOK'
  BY <1>1, <1>16 DEF Register, RegisterFails, Heartbeat, HeartbeatFails, GraceExpires,
                     CheckBegins, Crash
<1>17. ASSUME NEW k \in Workers, NEW t \in Tasks,
              \/ Executed(k, t, "succ") \/ Executed(k, t, "fail")
              \/ ExecutorFails(k, t) \/ RetryComes(k, t)
       PROVE  SchedOK'
  BY <1>1, <1>17 DEF Executed, ExecutorFails, RetryComes
<1> QED
  BY <1>3, <1>4, <1>6, <1>7, <1>8, <1>10, <1>11, <1>12, <1>13, <1>14, <1>15, <1>16, <1>17
  DEF Next, SchedulerStep, CheckStep

\* A task's phase on a worker is written by Dispatch and by the pool.
LEMMA PhaseType ==
    ASSUME exec \in [Workers -> [Tasks -> Phase]], NEW k \in Workers, NEW t \in Tasks
    PROVE  /\ \A p \in Phase : SetPhase(k, t, p) =>
                 /\ exec' \in [Workers -> [Tasks -> Phase]]
                 /\ exec'[k][t] = p
                 /\ \A l \in Workers, x \in Tasks :
                       l # k \/ x # t => exec'[l][x] = exec[l][x]
           /\ DispatchTask(k, t) =>
                 /\ exec' \in [Workers -> [Tasks -> Phase]]
                 /\ exec'[k][t] = IF Verdict(k, t) = "accepted" /\ exec[k][t] = "none"
                                  THEN "queued" ELSE exec[k][t]
                 /\ \A l \in Workers, x \in Tasks :
                       l # k \/ x # t => exec'[l][x] = exec[l][x]
<1>1. ASSUME NEW p \in Phase, SetPhase(k, t, p)
      PROVE  /\ exec' \in [Workers -> [Tasks -> Phase]]
             /\ exec'[k][t] = p
             /\ \A l \in Workers, x \in Tasks :
                   l # k \/ x # t => exec'[l][x] = exec[l][x]
  BY <1>1 DEF SetPhase
<1>2. DispatchTask(k, t) =>
         \/ SetPhase(k, t, "queued") /\ Verdict(k, t) = "accepted" /\ exec[k][t] = "none"
         \/ UNCHANGED exec /\ ~(Verdict(k, t) = "accepted" /\ exec[k][t] = "none")
  BY DEF DispatchTask, SetPhase
<1>3. "queued" \in Phase
  BY DEF Phase
<1> QED
  BY <1>1, <1>2, <1>3

\* The registry's and the workers' steps.
LEMMA SitesStep == PlantOK /\ [Next]_vars => SitesOK'
<1> SUFFICES ASSUME PlantOK, [Next]_vars PROVE SitesOK'
  OBVIOUS
<1>0. SitesOK /\ exec \in [Workers -> [Tasks -> Phase]]
  BY DEF PlantOK, SitesOK
<1>1. ASSUME UNCHANGED <<registryVars, workerVars>> PROVE SitesOK'
  BY <1>0, <1>1 DEF SitesOK, registryVars, workerVars
<1>2. ASSUME UNCHANGED <<registryVars, proc, link>>, ran' \subseteq Tasks,
             exec' \in [Workers -> [Tasks -> Phase]]
      PROVE  SitesOK'
  BY <1>0, <1>2 DEF SitesOK, registryVars
<1>3. CASE DispatchReturns \/ DispatchFails
  <2>1. target \in Workers /\ job \in Tasks
    BY <1>3 DEF DispatchReturns, DispatchFails, PlantOK, SchedOK
  <2>2. exec' \in [Workers -> [Tasks -> Phase]]
    BY <1>0, <1>3, <2>1, PhaseType DEF DispatchReturns, DispatchFails
  <2> QED
    BY <1>0, <1>2, <1>3, <2>2 DEF DispatchReturns, DispatchFails, SitesOK
<1>4. ASSUME NEW k \in Workers, NEW t \in Tasks,
             \/ TaskStarts(k, t) \/ TaskEnds(k, t)
             \/ Executed(k, t, "succ") \/ Executed(k, t, "fail")
             \/ ExecutorFails(k, t) \/ RetryComes(k, t)
      PROVE  SitesOK'
  <2>1. \E p \in Phase : SetPhase(k, t, p)
    BY <1>4 DEF TaskStarts, TaskEnds, Executed, ExecutorFails, RetryComes, Phase
  <2>2. exec' \in [Workers -> [Tasks -> Phase]]
    BY <1>0, <2>1, PhaseType
  <2>3. ran' \subseteq Tasks /\ UNCHANGED <<registryVars, proc, link>>
    BY <1>0, <1>4 DEF TaskStarts, TaskEnds, Executed, ExecutorFails, RetryComes, SitesOK
  <2> QED
    BY <1>2, <2>2, <2>3
<1>5. ASSUME NEW k \in Workers,
             Register(k) \/ RegisterFails(k) \/ Heartbeat(k) \/ HeartbeatFails(k) \/ GraceExpires(k)
      PROVE  SitesOK'
  <2>1. fresh' \in [Workers -> BOOLEAN] /\ watched' \in [Workers -> BOOLEAN]
    BY <1>0, <1>5 DEF Register, RegisterFails, Heartbeat, HeartbeatFails, GraceExpires, SitesOK,
                      registryVars, workerVars
  <2>2. /\ node' \in [Workers -> {"UNKNOWN", "ALIVE", "SUSPECT", "DEAD"}]
        /\ proc' \in [Workers -> {"new", "up", "down"}]
        /\ link' \in [Workers -> {"ok", "failed", "suspended"}]
        /\ UNCHANGED <<check, exec, ran>>
    BY <1>0, <1>5 DEF Register, RegisterFails, Heartbeat, HeartbeatFails, GraceExpires, SitesOK,
                      registryVars, workerVars
  <2> QED
    BY <1>0, <2>1, <2>2 DEF SitesOK
<1>6. ASSUME NEW k \in Workers, Crash(k) PROVE SitesOK'
  <2>1. exec' \in [Workers -> [Tasks -> Phase]]
    BY <1>0, <1>6 DEF Crash, Phase
  <2> QED
    BY <1>0, <1>6, <2>1 DEF Crash, SitesOK, registryVars
<1>7. ASSUME NEW k \in Workers, CheckBegins(k) PROVE SitesOK'
  <2>1. /\ check' \in [worker : Workers \cup {NoWorker}, at : CheckPoint]
        /\ check'.at # "none" => check'.worker \in Workers
    BY <1>0, <1>7 DEF CheckBegins, CheckPoint, SitesOK
  <2> QED
    BY <1>0, <1>7, <2>1 DEF CheckBegins, SitesOK, workerVars
<1>8. CASE CheckStep
  <2>1. check.at \in {"stale", "ALIVE", "SUSPECT", "DEAD", "drop"} /\ check.worker \in Workers
    BY <1>0, <1>8 DEF CheckStep, StatusRead, MarkedLive, MarkedDead, TriggerDropped, SitesOK
  <2>2. /\ check' \in [worker : Workers \cup {NoWorker}, at : CheckPoint]
        /\ check'.at # "none" => check'.worker \in Workers
    BY <1>0, <1>8, <2>1 DEF CheckStep, StatusRead, MarkedLive, MarkedDead, TriggerDropped, SitesOK,
                            NoCheck, CheckPoint
  <2>3. watched' \in [Workers -> BOOLEAN]
    BY <1>0, <1>8 DEF CheckStep, StatusRead, MarkedLive, MarkedDead, TriggerDropped, SitesOK
  <2>4. node' \in [Workers -> {"UNKNOWN", "ALIVE", "SUSPECT", "DEAD"}]
    BY <1>0, <1>8, <2>1 DEF CheckStep, StatusRead, MarkedLive, MarkedDead, TriggerDropped, SitesOK
  <2>5. UNCHANGED <<fresh, workerVars>>
    BY <1>8 DEF CheckStep, StatusRead, MarkedLive, MarkedDead, TriggerDropped
  <2> QED
    BY <1>0, <2>2, <2>3, <2>4, <2>5 DEF SitesOK, workerVars
<1>9. ASSUME NEW w \in Workflows, Submit(w) PROVE SitesOK'
  BY <1>1, <1>9 DEF Submit
<1>10. CASE Cancel \/ CancelCallEnds \/ PopBatch \/ AliveWorkers \/ SelectFails \/ BatchDone
            \/ OnDispatched \/ UNCHANGED vars
  BY <1>1, <1>10 DEF Cancel, CancelCallEnds, PopBatch, AliveWorkers, SelectFails, BatchDone,
                     OnDispatched, vars
<1>11. ASSUME NEW k \in Workers, SelectWorker(k) PROVE SitesOK'
  BY <1>1, <1>11 DEF SelectWorker
<1> QED
  BY <1>3, <1>4, <1>5, <1>6, <1>7, <1>8, <1>9, <1>10, <1>11 DEF Next, SchedulerStep

-----------------------------------------------------------------------------
\* The refinement.

\* Jobs are counted place by place.
LEMMA HeldForm ==
    ASSUME NEW t \in Tasks
    PROVE  /\ JobsHeld[t] = Occ(queue, t) + Occ(batch, t) + IF job = t THEN 1 ELSE 0
           /\ JobsHeld'[t] = Occ(queue', t) + Occ(batch', t) + IF job' = t THEN 1 ELSE 0
  BY DEF JobsHeld, Occurrences, Occ

\* Both are functions on the tasks, so equal when they agree on every task.
LEMMA HeldSame ==
    ASSUME \A t \in Tasks : JobsHeld'[t] = JobsHeld[t]
    PROVE  JobsHeld' = JobsHeld
<1>1. JobsHeld = [t \in Tasks |-> JobsHeld[t]] /\ JobsHeld' = [t \in Tasks |-> JobsHeld'[t]]
  BY DEF JobsHeld
<1> QED
  BY <1>1

\* The jobs of a batch, of the queue and in hand are counted in Nat.
LEMMA HeldNat ==
    ASSUME SchedOK, NEW t \in Tasks
    PROVE  Occ(queue, t) \in Nat /\ Occ(batch, t) \in Nat /\ JobsHeld[t] \in Nat
<1>1. Occ(queue, t) \in Nat /\ Occ(batch, t) \in Nat
  BY OccType DEF SchedOK
<1> QED
  BY <1>1, HeldForm

\* No step of the scheduler loses a job or makes two of it: a batch taken from
\* the queue, a job put back for want of a worker, one taken for Dispatch, one
\* put back because Dispatch failed.
LEMMA SchedulerKeepsJobs ==
    ASSUME PlantOK,
           \/ PopBatch \/ AliveWorkers \/ SelectFails \/ BatchDone
           \/ (\E k \in Workers : SelectWorker(k)) \/ DispatchReturns \/ DispatchFails
    PROVE  JobsHeld' = JobsHeld
<1>0. /\ queue \in Seq(Tasks) /\ batch \in Seq(Tasks) /\ SchedOK
      /\ sched \notin {"dispatching", "answered"} => job = NoTask
      /\ sched = "dispatching" => job \in Tasks
      /\ NoTask \notin Tasks
  BY EnvAssumption DEF PlantOK, SchedOK
<1> SUFFICES ASSUME NEW t \in Tasks PROVE JobsHeld'[t] = JobsHeld[t]
  BY HeldSame
<1>h. /\ JobsHeld[t] = Occ(queue, t) + Occ(batch, t) + IF job = t THEN 1 ELSE 0
      /\ JobsHeld'[t] = Occ(queue', t) + Occ(batch', t) + IF job' = t THEN 1 ELSE 0
  BY HeldForm
<1>n. Occ(queue, t) \in Nat /\ Occ(batch, t) \in Nat
  BY <1>0, HeldNat
<1>1. CASE PopBatch
  <2> DEFINE n == IF BatchSize > Len(queue) THEN Len(queue) ELSE BatchSize
  <2>1. n \in 0..Len(queue)
    BY <1>0, BoundAssumption
  <2>2. Occ(queue, t) = Occ(SubSeq(queue, 1, n), t) + Occ(SubSeq(queue, n + 1, Len(queue)), t)
    BY <1>0, <2>1, OccSplit
  <2>3. batch' = SubSeq(queue, 1, n) /\ queue' = SubSeq(queue, n + 1, Len(queue))
    BY <1>1 DEF PopBatch
  <2> HIDE DEF n
  <2>4. /\ Occ(batch', t) = Occ(SubSeq(queue, 1, n), t)
        /\ Occ(queue', t) = Occ(SubSeq(queue, n + 1, Len(queue)), t)
    BY <2>3, Zenon
  <2>5. Occ(batch, t) = 0
    <3>1. batch = <<>>
      BY <1>0, <1>1 DEF PopBatch, SchedOK
    <3> QED
      BY <1>0, <3>1, OccType
  <2>6. Occ(batch', t) \in Nat /\ Occ(queue', t) \in Nat
    BY <1>0, <2>1, <2>4, OccSplit, OccType
  <2>7. job' = job
    BY <1>1 DEF PopBatch
  <2> QED
    BY <1>h, <1>n, <2>2, <2>4, <2>5, <2>6, <2>7
<1>2. CASE AliveWorkers \/ BatchDone \/ DispatchReturns
  BY <1>2, <1>h DEF AliveWorkers, BatchDone, DispatchReturns
<1>3. ASSUME batch # <<>>, batch' = Tail(batch)
      PROVE  /\ Head(batch) \in Tasks
             /\ Occ(batch, t) = Occ(batch', t) + IF Head(batch) = t THEN 1 ELSE 0
             /\ Occ(batch', t) \in Nat
  <2>1. /\ Head(batch) \in Tasks /\ Tail(batch) \in Seq(Tasks)
        /\ Occ(batch, t) = Occ(Tail(batch), t) + IF Head(batch) = t THEN 1 ELSE 0
    BY <1>0, <1>3, OccTail
  <2>2. Occ(Tail(batch), t) \in Nat
    BY <2>1, OccType
  <2>3. Occ(batch', t) = Occ(Tail(batch), t)
    BY <1>3, Zenon
  <2> QED
    BY <2>1, <2>2, <2>3
<1>4. ASSUME NEW j \in Tasks, queue' = Append(queue, j)
      PROVE  Occ(queue', t) = Occ(queue, t) + IF j = t THEN 1 ELSE 0
  <2>1. Occ(Append(queue, j), t) = Occ(queue, t) + IF j = t THEN 1 ELSE 0
    BY <1>0, OccAppend
  <2>2. Occ(queue', t) = Occ(Append(queue, j), t)
    BY <1>4, Zenon
  <2> QED
    BY <2>1, <2>2
<1>5. CASE SelectFails
  <2>1. /\ batch # <<>> /\ batch' = Tail(batch) /\ queue' = Append(queue, Head(batch))
        /\ job' = job
    BY <1>5 DEF SelectFails
  <2> DEFINE x == Head(batch)
  <2>2. /\ x \in Tasks /\ Occ(batch, t) = Occ(batch', t) + IF x = t THEN 1 ELSE 0
        /\ Occ(batch', t) \in Nat
    BY <1>3, <2>1
  <2>3. Occ(queue', t) = Occ(queue, t) + IF x = t THEN 1 ELSE 0
    BY <1>4, <2>1, <2>2
  <2> HIDE DEF x
  <2>4. job' = job
    BY <2>1
  <2> QED
    BY <1>h, <1>n, <2>2, <2>3, <2>4
<1>6. ASSUME NEW k \in Workers, SelectWorker(k) PROVE JobsHeld'[t] = JobsHeld[t]
  <2>1. /\ batch # <<>> /\ batch' = Tail(batch) /\ queue' = queue
        /\ job' = Head(batch) /\ job = NoTask
    BY <1>0, <1>6 DEF SelectWorker
  <2> DEFINE x == Head(batch)
  <2>2. /\ x \in Tasks /\ Occ(batch, t) = Occ(batch', t) + IF x = t THEN 1 ELSE 0
        /\ Occ(batch', t) \in Nat
    BY <1>3, <2>1
  <2>3. job' = x /\ Occ(queue', t) = Occ(queue, t) /\ job # t
    BY <1>0, <2>1
  <2> HIDE DEF x
  <2> QED
    BY <1>h, <1>n, <2>2, <2>3
<1>7. CASE DispatchFails
  <2>1. queue' = Append(queue, job) /\ job' = NoTask /\ batch' = batch /\ job \in Tasks
    BY <1>0, <1>7 DEF DispatchFails
  <2>2. Occ(queue', t) = Occ(queue, t) + IF job = t THEN 1 ELSE 0
    <3>1. Occ(Append(queue, job), t) = Occ(queue, t) + IF job = t THEN 1 ELSE 0
      BY <1>0, <2>1, OccAppend
    <3>2. Occ(queue', t) = Occ(Append(queue, job), t)
      BY <2>1, Zenon
    <3> QED
      BY <3>1, <3>2
  <2>3. Occ(batch', t) = Occ(batch, t) /\ job' # t
    BY <1>0, <2>1
  <2> QED
    BY <1>h, <1>n, <2>2, <2>3
<1> QED
  BY <1>1, <1>2, <1>5, <1>6, <1>7

\* The initial states are initial states of the engine.
LEMMA RefineInit == Init => E!Init
<1> SUFFICES ASSUME Init PROVE E!Init
  OBVIOUS
<1>1. \A t \in Tasks : JobsHeld[t] = 0
  <2> TAKE t \in Tasks
  <2>1. queue = <<>> /\ batch = <<>> /\ job = NoTask /\ SchedOK
    BY PlantInit DEF Init, PlantOK
  <2>2. Occ(queue, t) = 0 /\ Occ(batch, t) = 0
    BY <2>1, OccType DEF SchedOK
  <2>3. job # t
    BY <2>1, EnvAssumption
  <2> QED
    BY <2>2, <2>3, HeldForm
<1>2. JobsHeld = [t \in Tasks |-> 0]
  BY <1>1 DEF JobsHeld
<1> QED
  BY <1>2 DEF Init, E!Init

\* Every step is a step of the engine, with the same entry point, or leaves
\* everything the engine has alone.
LEMMA RefineStep == PlantOK /\ [Next]_vars => [E!Next]_(E!vars)
<1> SUFFICES ASSUME PlantOK, [Next]_vars PROVE E!Next \/ UNCHANGED E!vars
  OBVIOUS
<1>1. ASSUME UNCHANGED engineVars, JobsHeld' = JobsHeld PROVE UNCHANGED E!vars
  BY <1>1 DEF engineVars, E!vars
<1>2. ASSUME UNCHANGED <<engineVars, schedVars>> PROVE UNCHANGED E!vars
  <2>1. queue' = queue /\ batch' = batch /\ job' = job
    BY <1>2 DEF schedVars
  <2>2. JobsHeld' = JobsHeld
    BY <2>1 DEF JobsHeld, Occurrences
  <2> QED
    BY <1>1, <1>2, <2>2
<1>3. ASSUME NEW w \in Workflows, Submit(w) PROVE E!Next
  BY <1>3 DEF Submit, E!Next
<1>4. CASE Cancel \/ CancelCallEnds
  BY <1>4 DEF Cancel, CancelCallEnds, E!Next
<1>5. CASE PopBatch \/ AliveWorkers \/ SelectFails \/ BatchDone
           \/ (\E k \in Workers : SelectWorker(k)) \/ DispatchReturns \/ DispatchFails
  <2>1. UNCHANGED engineVars
    BY <1>5 DEF PopBatch, AliveWorkers, SelectFails, BatchDone, SelectWorker, DispatchReturns,
                DispatchFails
  <2>2. JobsHeld' = JobsHeld
    BY <1>5, SchedulerKeepsJobs
  <2> QED
    BY <1>1, <2>1, <2>2
<1>6. CASE OnDispatched
  <2>1. job \in Tasks /\ target \in Workers
    BY <1>6 DEF OnDispatched, PlantOK, SchedOK
  <2> QED
    BY <1>6, <2>1 DEF OnDispatched, E!Next
<1>7. CASE MarkedDead
  <2>1. check.worker \in Workers
    BY <1>7 DEF MarkedDead, PlantOK, SitesOK
  <2> QED
    BY <1>7, <2>1 DEF MarkedDead, E!Next
<1>8. ASSUME NEW t \in Tasks, NEW s \in {"RUNNING", "SUCCEEDED", "FAILED"}, ReportResult(t, s)
      PROVE  E!Next \/ UNCHANGED E!vars
  BY <1>2, <1>8 DEF ReportResult, E!Next, E!ReportStatus
<1>9. ASSUME NEW k \in Workers, NEW t \in Tasks, TaskStarts(k, t) \/ TaskEnds(k, t)
      PROVE  E!Next \/ UNCHANGED E!vars
  <2>1. \E s \in {"RUNNING", "SUCCEEDED", "FAILED"} : ReportResult(t, s)
    BY <1>9 DEF TaskStarts, TaskEnds
  <2> QED
    BY <1>8, <2>1
<1>10. ASSUME NEW k \in Workers,
             \/ Register(k) \/ RegisterFails(k) \/ Heartbeat(k) \/ HeartbeatFails(k)
             \/ GraceExpires(k) \/ CheckBegins(k) \/ Crash(k)
             \/ \E t \in Tasks : \/ Executed(k, t, "succ") \/ Executed(k, t, "fail")
                                \/ ExecutorFails(k, t) \/ RetryComes(k, t)
      PROVE  UNCHANGED E!vars
  BY <1>2, <1>10 DEF Register, RegisterFails, Heartbeat, HeartbeatFails, GraceExpires,
                     CheckBegins, Crash, Executed, ExecutorFails, RetryComes
<1>11. CASE StatusRead \/ MarkedLive \/ TriggerDropped \/ UNCHANGED vars
  BY <1>2, <1>11 DEF StatusRead, MarkedLive, TriggerDropped, vars
<1> QED
  BY <1>3, <1>4, <1>5, <1>6, <1>7, <1>9, <1>10, <1>11 DEF Next, SchedulerStep, CheckStep

\* PlantOK holds throughout.
LEMMA PlantCorrect == Spec => []PlantOK
<1>1. PlantOK /\ [Next]_vars => PlantOK'
  BY SchedStep, SitesStep DEF PlantOK
<1> QED
  BY <1>1, PlantInit, PTL DEF Spec

\* The control plane implements the engine's specification: whatever the
\* scheduler, the registry, the workers and the network do, jobs are neither
\* lost nor doubled on their way and the engine sees one of its own steps.
THEOREM EngineSpecCorrect == Spec => EngineSpec
  BY PlantCorrect, RefineInit, RefineStep, PTL DEF Spec, EngineSpec, E!Spec

-----------------------------------------------------------------------------
\* What is proved of the engine holds here.

\* The engine's assumptions, for its theorems.
LEMMA EngineAssumed == EP!GraphAssumption /\ EP!WorkerAssumption
  BY EngineAssumption, Zenon
  DEF E!GraphAssumption, EP!GraphAssumption, E!WorkerAssumption, EP!WorkerAssumption,
      E!IsFiniteSet, EP!IsFiniteSet, E!Cardinality, EP!Cardinality

\* The instance with the proofs is the instance the orchestrator uses.
LEMMA SameEngine ==
    /\ E!Init <=> EP!Init
    /\ E!Next <=> EP!Next
    /\ UNCHANGED E!vars <=> UNCHANGED EP!vars
<1>1. E!Init <=> EP!Init
  BY Zenon DEF E!Init, EP!Init
<1>2. E!Next <=> EP!Next
  BY ZenonT(60)
  DEF E!Next, EP!Next, E!ReportStatus, EP!ReportStatus, E!SubmitWorkflow,
      EP!SubmitWorkflow, E!OnTaskResponse, EP!OnTaskResponse, E!OnTaskDispatched,
      EP!OnTaskDispatched, E!CancelWorkflow, EP!CancelWorkflow, E!CancelTask,
      EP!CancelTask, E!ReassignDeadWorkerTasks, EP!ReassignDeadWorkerTasks,
      E!CancelCallEnds, EP!CancelCallEnds, E!TasksOf, EP!TasksOf, E!recomputeReadyTasks,
      EP!recomputeReadyTasks, E!UpdateWorkflowStatus, EP!UpdateWorkflowStatus,
      E!MarkedStatus, EP!MarkedStatus, E!pushJob, EP!pushJob, E!MarkedWorkflow,
      EP!MarkedWorkflow, E!Verdict, EP!Verdict, E!finalizeWorkflowIfDone,
      EP!finalizeWorkflowIfDone, E!notifyWorkersOfCancellation,
      EP!notifyWorkersOfCancellation, E!Reported, EP!Reported, E!TaskIsReady,
      EP!TaskIsReady, E!TaskIsFinished, EP!TaskIsFinished, E!TaskOnWorker,
      EP!TaskOnWorker, E!TaskCanTransitTo, EP!TaskCanTransitTo, E!taskStatusesGraph,
      EP!taskStatusesGraph, E!WorkflowIsFinished, EP!WorkflowIsFinished,
      E!WorkflowCanTransitTo, EP!WorkflowCanTransitTo, E!workflowStatusesGraph,
      EP!workflowStatusesGraph, E!AllDepsSucceeded, EP!AllDepsSucceeded,
      E!AllTasksFinished, EP!AllTasksFinished, E!HasFailedTask, EP!HasFailedTask,
      E!HasCancelledTask, EP!HasCancelledTask, E!UpdateStatus, EP!UpdateStatus,
      E!Cancellable, EP!Cancellable, E!CascadeClosed, EP!CascadeClosed,
      E!cancelDownstream, EP!cancelDownstream
<1>3. UNCHANGED E!vars <=> UNCHANGED EP!vars
  BY Zenon DEF E!vars, EP!vars
<1> QED
  BY <1>1, <1>2, <1>3

\* The engine's inductive invariant holds in the composed system.
LEMMA EngineInv == Spec => []EP!IInv
<1>1. EP!Init => EP!IInv
  BY EP!InvInit, EngineAssumed
<1>2. EP!IInv /\ [EP!Next]_(EP!vars) => EP!IInv'
  BY EP!InvStep, EngineAssumed
<1>3. Init => EP!Init
  BY RefineInit, SameEngine
<1>4. PlantOK /\ [Next]_vars => [EP!Next]_(EP!vars)
  BY RefineStep, SameEngine
<1> QED
  BY <1>1, <1>2, <1>3, <1>4, PlantCorrect, PTL DEF Spec

\* The composed system's state is what the code's types allow, everywhere.
THEOREM TypeCorrect == Spec => []TypeOK
<1>1. EP!IInv /\ PlantOK => TypeOK
  <2> SUFFICES ASSUME EP!IInv, PlantOK PROVE TypeOK
    OBVIOUS
  <2>1. E!TypeOK
    <3>1. EP!TypeOK
      BY DEF EP!IInv
    <3> QED
      BY <3>1, Zenon
      DEF E!TypeOK, EP!TypeOK, E!WorkflowStatus, EP!WorkflowStatus, E!TaskStatus,
          EP!TaskStatus, E!CancelCall, EP!CancelCall
  <2>2. job \in Tasks \cup {NoTask} /\ target \in Workers \cup {NoWorker}
    BY DEF PlantOK, SchedOK
  <2> QED
    BY <2>1, <2>2 DEF TypeOK, PlantOK, SchedOK, SitesOK
<1> QED
  BY <1>1, EngineInv, PlantCorrect, PTL

\* Whatever scheduler, workers and network do, no task is handed out before its
\* dependencies have succeeded, none is forgotten, no workflow stalls, every
\* job is held exactly once, every task on a worker can be recovered, and every
\* workflow has the verdict of its tasks.
THEOREM EngineInvariantsCorrect ==
    Spec => [](/\ E!DepsRespected /\ E!NoOrphans /\ E!NeverStalls
               /\ E!JobConservation /\ E!Recoverable /\ E!WorkflowVerdict)
<1>1. EP!IInv => EP!NeverStalls
  BY EP!InvNeverStalls, EngineAssumed
<1>2. ASSUME EP!IInv
      PROVE  /\ E!DepsRespected /\ E!NoOrphans /\ E!NeverStalls
             /\ E!JobConservation /\ E!Recoverable /\ E!WorkflowVerdict
  <2>1. E!DepsRespected
    BY <1>2, Zenon DEF EP!IInv, EP!DepsRespected, E!DepsRespected, EP!AllDepsSucceeded,
                       E!AllDepsSucceeded
  <2>2. E!NoOrphans
    BY <1>2, Zenon DEF EP!IInv, EP!NoOrphans, E!NoOrphans, EP!AllDepsSucceeded,
                       E!AllDepsSucceeded
  <2>3. E!NeverStalls
    BY <1>1, <1>2, Zenon DEF EP!NeverStalls, E!NeverStalls, EP!TasksOf, E!TasksOf,
                             EP!WorkflowIsFinished, E!WorkflowIsFinished
  <2>4. E!JobConservation
    BY <1>2, Zenon DEF EP!IInv, EP!JobConservation, E!JobConservation
  <2>5. E!Recoverable
    BY <1>2, Zenon DEF EP!IInv, EP!Recoverable, E!Recoverable, EP!TaskOnWorker, E!TaskOnWorker
  <2>6. E!WorkflowVerdict
    BY <1>2, Zenon DEF EP!IInv, EP!WorkflowVerdict, E!WorkflowVerdict, EP!Agrees, E!Agrees,
                       EP!TasksOf, E!TasksOf, EP!WorkflowIsFinished, E!WorkflowIsFinished,
                       EP!AllTasksFinished, E!AllTasksFinished, EP!TaskIsFinished,
                       E!TaskIsFinished, EP!HasFailedTask, E!HasFailedTask,
                       EP!HasCancelledTask, E!HasCancelledTask
  <2> QED
    BY <2>1, <2>2, <2>3, <2>4, <2>5, <2>6
<1> QED
  BY <1>2, EngineInv, PTL

\* What the rest of this module uses of the engine's invariant.
LEMMA EngineFacts ==
    ASSUME EP!IInv
    PROVE  /\ status \in [Tasks -> TaskStatus]
           /\ assignedTo \in [Tasks -> Workers \cup {NoWorker}]
           /\ \A t \in Tasks : status[t] # "RETRYING"
           /\ \A t \in Tasks : WorkflowOf[t] \notin workflows => status[t] = "PENDING"
           /\ \A t \in Tasks : status[t] \in {"READY", "DISPATCHED", "RUNNING"} =>
                 \A d \in DependsOn[t] : status[d] = "SUCCEEDED"
           /\ \A t \in Tasks : JobsHeld[t] \in Nat
           /\ \A t \in Tasks : JobsHeld[t] > 0 =>
                 JobsHeld[t] = 1 /\ status[t] \in {"READY", "CANCELLED"}
           /\ \A t \in Tasks : DependsOn[t] \subseteq Tasks
<1>1. status \in [Tasks -> TaskStatus] /\ assignedTo \in [Tasks -> Workers \cup {NoWorker}]
  BY DEF EP!IInv, EP!TypeOK, EP!TaskStatus, TaskStatus
<1>2. /\ \A t \in Tasks : status[t] # "RETRYING"
      /\ \A t \in Tasks : WorkflowOf[t] \notin workflows => status[t] = "PENDING"
  BY DEF EP!IInv, EP!NotRetrying, EP!Untouched
<1>3. \A t \in Tasks : status[t] \in {"READY", "DISPATCHED", "RUNNING"} =>
         \A d \in DependsOn[t] : status[d] = "SUCCEEDED"
  BY DEF EP!IInv, EP!DepsRespected, EP!AllDepsSucceeded
<1>4. \A t \in Tasks : JobsHeld[t] \in Nat
  BY DEF EP!IInv, EP!TypeOK
<1>5. ASSUME NEW t \in Tasks, JobsHeld[t] > 0
      PROVE  JobsHeld[t] = 1 /\ status[t] \in {"READY", "CANCELLED"}
  <2>1. JobsHeld[t] \in CASE status[t] = "READY"     -> {1}
                          [] status[t] = "CANCELLED" -> {0, 1}
                          [] OTHER                   -> {0}
    BY DEF EP!IInv, EP!JobConservation
  <2> QED
    BY <1>5, <2>1
<1>6. \A t \in Tasks : DependsOn[t] \subseteq Tasks
  BY EngineAssumed DEF EP!GraphAssumption
<1> QED
  BY <1>1, <1>2, <1>3, <1>4, <1>5, <1>6

-----------------------------------------------------------------------------
\* What a step of the composed system can do to one task in the engine's books.

Stays(t) == /\ status'[t] = status[t] /\ assignedTo'[t] = assignedTo[t]
            /\ JobsHeld'[t] = JobsHeld[t]

\* By a client, or by the cascade of a failure.
IsCancelled(t) == /\ status'[t] = "CANCELLED" /\ assignedTo'[t] = assignedTo[t]
                  /\ JobsHeld'[t] = JobsHeld[t]

\* By markReadyTasks.
IsReadied(t) == /\ status[t] = "PENDING" /\ status'[t] = "READY"
                /\ JobsHeld'[t] = JobsHeld[t] + 1
                /\ \A d \in DependsOn[t] : status'[d] = "SUCCEEDED"

\* By the death of its worker.
IsTakenBack(t) == /\ check.at = "DEAD" /\ MayOvertake
                  /\ assignedTo[t] = check.worker /\ TaskOnWorker(status[t])
                  /\ status'[t] = "READY" /\ JobsHeld'[t] = JobsHeld[t] + 1

\* By the callback of Dispatch.
IsHanded(t) == /\ sched = "answered" /\ job = t /\ sched' = "loop"
               /\ assignedTo'[t] = target /\ JobsHeld'[t] = JobsHeld[t] - 1
               /\ status[t] \in {"READY", "CANCELLED"}
               /\ status'[t] = IF status[t] = "READY" THEN "DISPATCHED" ELSE "CANCELLED"
               /\ UNCHANGED <<registryVars, workerVars>>

\* By the report of a worker that holds it.
IsHeard(t) == /\ MayOvertake /\ TaskOnWorker(status[t])
              /\ assignedTo'[t] = assignedTo[t] /\ JobsHeld'[t] = JobsHeld[t]
              /\ \E k \in Workers :
                    \/ status'[t] = "RUNNING" /\ exec[k][t] = "queued"
                    \/ status'[t] = "SUCCEEDED" /\ exec[k][t] = "succ" /\ exec'[k][t] = "none"
                    \/ status'[t] = "FAILED" /\ exec[k][t] = "fail" /\ exec'[k][t] = "none"

TaskMove(t) == \/ Stays(t) \/ IsCancelled(t) \/ IsReadied(t) \/ IsTakenBack(t)
               \/ IsHanded(t) \/ IsHeard(t)

\* UpdateStatus, task by task.
LEMMA UpdateEffect ==
    ASSUME NEW st \in [Tasks -> TaskStatus], NEW T, NEW new \in TaskStatus
    PROVE  /\ E!UpdateStatus(st, T, new) \in [Tasks -> TaskStatus]
           /\ \A u \in Tasks : E!UpdateStatus(st, T, new)[u] =
                 IF u \in T /\ TaskCanTransitTo(st[u], new) THEN new ELSE st[u]
  BY DEF E!UpdateStatus, E!TaskCanTransitTo, E!taskStatusesGraph, TaskCanTransitTo,
         taskStatusesGraph

\* A submission readies the tasks that wait for nothing.
LEMMA SubmitMoves ==
    ASSUME EP!IInv, NEW w \in Workflows, Submit(w), NEW t \in Tasks
    PROVE  Stays(t) \/ IsReadied(t)
<1> DEFINE R == E!recomputeReadyTasks(status, w)
<1>1. status \in [Tasks -> TaskStatus] /\ \A u \in Tasks : status[u] # "RETRYING"
  BY EngineFacts
<1>2. /\ status' = E!UpdateStatus(status, R, "READY") /\ assignedTo' = assignedTo
      /\ JobsHeld' = E!pushJob(JobsHeld, R)
  BY DEF Submit, E!SubmitWorkflow, E!MarkedStatus
<1>3. \A u \in Tasks : u \in R =>
         status[u] = "PENDING" /\ \A d \in DependsOn[u] : status[d] = "SUCCEEDED"
  BY <1>1 DEF E!recomputeReadyTasks, E!TaskIsReady, E!AllDepsSucceeded, E!TasksOf
<1> HIDE DEF R
<1>4. \A u \in Tasks : status'[u] =
         IF u \in R /\ TaskCanTransitTo(status[u], "READY") THEN "READY" ELSE status[u]
  BY <1>1, <1>2, UpdateEffect DEF TaskStatus
<1>5. TaskCanTransitTo("PENDING", "READY")
  BY DEF TaskCanTransitTo, taskStatusesGraph
<1>6. JobsHeld'[t] = IF t \in R THEN JobsHeld[t] + 1 ELSE JobsHeld[t]
  BY <1>2 DEF E!pushJob
<1>7. CASE t \in R
  <2>1. \A d \in DependsOn[t] : status'[d] = "SUCCEEDED"
    BY <1>3, <1>4, <1>7, EngineFacts DEF TaskCanTransitTo, taskStatusesGraph
  <2> QED
    BY <1>3, <1>4, <1>5, <1>6, <1>7, <2>1 DEF IsReadied
<1>8. CASE t \notin R
  BY <1>2, <1>4, <1>6, <1>8 DEF Stays
<1> QED
  BY <1>7, <1>8

\* A report about task r: r takes the reported status if it may, a failure may
\* cancel others, and then the tasks whose dependencies have all succeeded are
\* readied.
LEMMA ResponseMoves ==
    ASSUME EP!IInv, NEW r \in Tasks, NEW s \in {"RUNNING", "SUCCEEDED", "FAILED"},
           E!OnTaskResponse(r, s), NEW t \in Tasks
    PROVE  \/ Stays(t) \/ IsCancelled(t) \/ IsReadied(t)
           \/ /\ t = r /\ TaskOnWorker(status[t]) /\ status'[t] = s
              /\ assignedTo'[t] = assignedTo[t] /\ JobsHeld'[t] = JobsHeld[t]
<1> DEFINE st == E!Reported(r, s)
           R  == E!recomputeReadyTasks(st, WorkflowOf[r])
           up == E!UpdateStatus(status, {r}, s)
           C  == E!cancelDownstream(DependsOn, up, r)
<1>1. status \in [Tasks -> TaskStatus] /\ \A u \in Tasks : status[u] # "RETRYING"
  BY EngineFacts
<1>2. /\ status' = E!UpdateStatus(st, R, "READY") /\ assignedTo' = assignedTo
      /\ JobsHeld' = E!pushJob(JobsHeld, R)
  BY DEF E!OnTaskResponse, E!MarkedStatus
<1>3. /\ up \in [Tasks -> TaskStatus]
      /\ \A u \in Tasks : up[u] =
            IF u = r /\ TaskCanTransitTo(status[u], s) THEN s ELSE status[u]
  BY <1>1, UpdateEffect DEF TaskStatus
<1>4. st = up \/ st = E!UpdateStatus(up, C, "CANCELLED")
  BY DEF E!Reported
<1>5. R = {u \in E!TasksOf(WorkflowOf[r]) : E!TaskIsReady(st[u])
                                      /\ E!AllDepsSucceeded(DependsOn, st, u)}
  BY DEF E!recomputeReadyTasks
<1> HIDE DEF st, R, up, C
<1>6. /\ E!UpdateStatus(up, C, "CANCELLED") \in [Tasks -> TaskStatus]
      /\ \A u \in Tasks : E!UpdateStatus(up, C, "CANCELLED")[u] =
            IF u \in C /\ TaskCanTransitTo(up[u], "CANCELLED") THEN "CANCELLED" ELSE up[u]
  BY <1>3, UpdateEffect DEF TaskStatus
<1>7. /\ st \in [Tasks -> TaskStatus]
      /\ \A u \in Tasks : st[u] = up[u]
                          \/ (TaskCanTransitTo(up[u], "CANCELLED") /\ st[u] = "CANCELLED")
  BY <1>3, <1>4, <1>6
<1>8. \A u \in Tasks : st[u] # "RETRYING"
  BY <1>1, <1>3, <1>7
<1>9. \A u \in Tasks : u \in R =>
         st[u] = "PENDING" /\ \A d \in DependsOn[u] : st[d] = "SUCCEEDED"
  BY <1>5, <1>7, <1>8 DEF E!TaskIsReady, E!AllDepsSucceeded, E!TasksOf
<1>10. \A u \in Tasks : status'[u] =
          IF u \in R /\ TaskCanTransitTo(st[u], "READY") THEN "READY" ELSE st[u]
  BY <1>2, <1>7, UpdateEffect DEF TaskStatus
<1>11. JobsHeld'[t] = IF t \in R THEN JobsHeld[t] + 1 ELSE JobsHeld[t]
  BY <1>2 DEF E!pushJob
<1>12. CASE t \in R
  <2>1. status'[t] = "READY" /\ st[t] = "PENDING"
    BY <1>9, <1>10, <1>12 DEF TaskCanTransitTo, taskStatusesGraph
  <2>2. status[t] = "PENDING"
    BY <1>3, <1>7, <2>1
  <2>3. \A d \in DependsOn[t] : status'[d] = "SUCCEEDED"
    BY <1>9, <1>10, <1>12, EngineFacts DEF TaskCanTransitTo, taskStatusesGraph
  <2> QED
    BY <1>11, <1>12, <2>1, <2>2, <2>3 DEF IsReadied
<1>13. CASE t \notin R
  <2>1. status'[t] = st[t] /\ assignedTo'[t] = assignedTo[t] /\ JobsHeld'[t] = JobsHeld[t]
    BY <1>2, <1>10, <1>11, <1>13
  <2>2. CASE st[t] = "CANCELLED"
    BY <2>1, <2>2 DEF IsCancelled
  <2>3. CASE st[t] = up[t]
    <3>1. CASE up[t] = status[t]
      BY <2>1, <2>3, <3>1 DEF Stays
    <3>2. CASE t = r /\ TaskCanTransitTo(status[t], s) /\ up[t] = s
      <4>1. TaskOnWorker(status[t])
        BY <1>1, <3>2 DEF TaskCanTransitTo, taskStatusesGraph, TaskOnWorker, TaskStatus
      <4> QED
        BY <2>1, <2>3, <3>2, <4>1
    <3> QED
      BY <1>3, <3>1, <3>2
  <2> QED
    BY <1>7, <2>2, <2>3
<1> QED
  BY <1>12, <1>13

\* A final report about a task on a worker is never refused.
LEMMA ResponseAccepted ==
    ASSUME EP!IInv, NEW r \in Tasks, NEW s \in {"SUCCEEDED", "FAILED"},
           E!OnTaskResponse(r, s)
    PROVE  ~TaskOnWorker(status'[r])
<1>1. status \in [Tasks -> TaskStatus] /\ \A u \in Tasks : status[u] # "RETRYING"
  BY EngineFacts
<1> DEFINE st == E!Reported(r, s)
           up == E!UpdateStatus(status, {r}, s)
           C  == E!cancelDownstream(DependsOn, up, r)
<1>2. /\ up \in [Tasks -> TaskStatus]
      /\ up[r] = IF TaskCanTransitTo(status[r], s) THEN s ELSE status[r]
  BY <1>1, UpdateEffect DEF TaskStatus
<1>3. ~TaskOnWorker(up[r])
  BY <1>1, <1>2 DEF TaskOnWorker, TaskCanTransitTo, taskStatusesGraph
<1>4. st = up \/ st = E!UpdateStatus(up, C, "CANCELLED")
  BY DEF E!Reported
<1>5. status' = E!UpdateStatus(st, E!recomputeReadyTasks(st, WorkflowOf[r]), "READY")
  BY DEF E!OnTaskResponse, E!MarkedStatus
<1> HIDE DEF st, up, C
<1>6. st \in [Tasks -> TaskStatus] /\ (st[r] = up[r] \/ st[r] = "CANCELLED")
  BY <1>2, <1>4, UpdateEffect DEF TaskStatus
<1>7. status'[r] = st[r] \/ status'[r] = "READY"
  BY <1>5, <1>6, UpdateEffect DEF TaskStatus
<1> QED
  BY <1>3, <1>6, <1>7 DEF TaskOnWorker

\* A step that leaves the engine and the scheduler alone.
LEMMA StaysPut ==
    ASSUME UNCHANGED <<engineVars, schedVars>>, NEW t \in Tasks
    PROVE  Stays(t)
<1>1. queue' = queue /\ batch' = batch /\ job' = job
  BY DEF schedVars
<1>2. JobsHeld' = JobsHeld
  BY <1>1 DEF JobsHeld, Occurrences
<1> QED
  BY <1>2 DEF Stays, engineVars

\* There is no other way for a task's status, worker or job to change.
LEMMA TaskMoves ==
    ASSUME PlantOK, EP!IInv, [Next]_vars, NEW t \in Tasks
    PROVE  TaskMove(t)
<1>0. status \in [Tasks -> TaskStatus]
  BY EngineFacts
<1>1. ASSUME NEW w \in Workflows, Submit(w) PROVE TaskMove(t)
  BY <1>1, SubmitMoves DEF TaskMove
<1>2. CASE Cancel
  <2>1. assignedTo' = assignedTo /\ JobsHeld' = JobsHeld
    BY <1>2 DEF Cancel, E!CancelWorkflow, E!CancelTask
  <2>2. ASSUME NEW w \in Workflows, E!CancelWorkflow(w)
        PROVE  status'[t] \in {status[t], "CANCELLED"}
    BY <1>0, <2>2, UpdateEffect DEF E!CancelWorkflow, TaskStatus
  <2>3. ASSUME NEW r \in Tasks, E!CancelTask(r)
        PROVE  status'[t] \in {status[t], "CANCELLED"}
    <3> DEFINE st == E!UpdateStatus(status, {r}, "CANCELLED")
               C  == E!cancelDownstream(DependsOn, st, r)
    <3>1. st \in [Tasks -> TaskStatus] /\ st[t] \in {status[t], "CANCELLED"}
      BY <1>0, UpdateEffect DEF TaskStatus
    <3>2. status' = E!UpdateStatus(st, C, "CANCELLED")
      BY <2>3 DEF E!CancelTask
    <3> HIDE DEF st, C
    <3> QED
      BY <3>1, <3>2, UpdateEffect DEF TaskStatus
  <2>4. status'[t] \in {status[t], "CANCELLED"}
    BY <1>2, <2>2, <2>3 DEF Cancel
  <2> QED
    BY <2>1, <2>4 DEF TaskMove, Stays, IsCancelled
<1>3. CASE CancelCallEnds
  BY <1>3 DEF CancelCallEnds, E!CancelCallEnds, TaskMove, Stays
<1>4. CASE PopBatch \/ AliveWorkers \/ SelectFails \/ BatchDone
           \/ (\E k \in Workers : SelectWorker(k)) \/ DispatchReturns \/ DispatchFails
  <2>1. UNCHANGED engineVars
    BY <1>4 DEF PopBatch, AliveWorkers, SelectFails, BatchDone, SelectWorker, DispatchReturns,
                DispatchFails
  <2>2. JobsHeld' = JobsHeld
    BY <1>4, SchedulerKeepsJobs
  <2> QED
    BY <2>1, <2>2 DEF engineVars, TaskMove, Stays
<1>5. CASE OnDispatched
  <2>1. /\ job \in Tasks /\ target \in Workers /\ sched = "answered" /\ sched' = "loop"
        /\ E!OnTaskDispatched(job, target) /\ UNCHANGED <<registryVars, workerVars>>
    BY <1>5 DEF OnDispatched, PlantOK, SchedOK
  <2>2. /\ JobsHeld[job] > 0 /\ JobsHeld' = [JobsHeld EXCEPT ![job] = JobsHeld[job] - 1]
        /\ assignedTo' = [assignedTo EXCEPT ![job] = target]
        /\ status' = E!UpdateStatus(status, {job}, "DISPATCHED")
    BY <2>1 DEF E!OnTaskDispatched
  <2>3. JobsHeld \in [Tasks -> Nat] /\ assignedTo \in [Tasks -> Workers \cup {NoWorker}]
    <3>1. JobsHeld \in [Tasks -> Nat]
      BY DEF EP!IInv, EP!TypeOK
    <3> QED
      BY <3>1, EngineFacts
  <2>4. /\ JobsHeld'[t] = IF t = job THEN JobsHeld[t] - 1 ELSE JobsHeld[t]
        /\ assignedTo'[t] = IF t = job THEN target ELSE assignedTo[t]
    BY <2>1, <2>2, <2>3
  <2>5. status[job] \in {"READY", "CANCELLED"}
    BY <2>1, <2>2, EngineFacts
  <2>6. status'[t] = IF t = job /\ TaskCanTransitTo(status[t], "DISPATCHED")
                     THEN "DISPATCHED" ELSE status[t]
    BY <1>0, <2>2, UpdateEffect DEF TaskStatus
  <2>7. CASE t = job
    <3>1. status'[t] = IF status[t] = "READY" THEN "DISPATCHED" ELSE "CANCELLED"
      BY <2>5, <2>6, <2>7 DEF TaskCanTransitTo, taskStatusesGraph
    <3> QED
      BY <2>1, <2>4, <2>5, <2>7, <3>1 DEF TaskMove, IsHanded
  <2>8. CASE t # job
    BY <2>4, <2>6, <2>8 DEF TaskMove, Stays
  <2> QED
    BY <2>7, <2>8
<1>6. CASE MarkedDead
  <2> DEFINE k    == check.worker
             lost == {u \in Tasks : /\ WorkflowOf[u] \in workflows
                                    /\ assignedTo[u] = k
                                    /\ E!TaskOnWorker(status[u])}
             back == {u \in lost : E!TaskCanTransitTo(status[u], "READY")}
  <2>1. /\ check.at = "DEAD" /\ MayOvertake
        /\ assignedTo' = [u \in Tasks |-> IF u \in lost THEN NoWorker ELSE assignedTo[u]]
        /\ status' = E!UpdateStatus(status, lost, "READY")
        /\ JobsHeld' = E!pushJob(JobsHeld, back)
    BY <1>6 DEF MarkedDead, E!ReassignDeadWorkerTasks
  <2>2. t \in lost <=> t \in back
    BY DEF E!TaskOnWorker, E!TaskCanTransitTo, E!taskStatusesGraph
  <2>3. t \in lost => assignedTo[t] = check.worker /\ TaskOnWorker(status[t])
    BY DEF E!TaskOnWorker, TaskOnWorker
  <2> HIDE DEF lost, back
  <2>4. status'[t] = IF t \in lost /\ TaskCanTransitTo(status[t], "READY")
                     THEN "READY" ELSE status[t]
    BY <1>0, <2>1, UpdateEffect DEF TaskStatus
  <2>5. JobsHeld'[t] = IF t \in lost THEN JobsHeld[t] + 1 ELSE JobsHeld[t]
    BY <2>1, <2>2 DEF E!pushJob
  <2>6. CASE t \in lost
    <3>1. TaskCanTransitTo(status[t], "READY")
      BY <2>3, <2>6 DEF TaskOnWorker, TaskCanTransitTo, taskStatusesGraph
    <3> QED
      BY <2>1, <2>3, <2>4, <2>5, <2>6, <3>1 DEF TaskMove, IsTakenBack
  <2>7. CASE t \notin lost
    BY <2>1, <2>4, <2>5, <2>7 DEF TaskMove, Stays
  <2> QED
    BY <2>6, <2>7
<1>7. ASSUME NEW k \in Workers, NEW r \in Tasks, TaskStarts(k, r) PROVE TaskMove(t)
  <2>1. /\ exec[k][r] = "queued"
        /\ \/ MayOvertake /\ E!OnTaskResponse(r, "RUNNING")
           \/ UNCHANGED <<engineVars, schedVars>>
    BY <1>7 DEF TaskStarts, ReportResult
  <2>2. CASE UNCHANGED <<engineVars, schedVars>>
    BY <2>2, StaysPut DEF TaskMove
  <2>3. CASE MayOvertake /\ E!OnTaskResponse(r, "RUNNING")
    BY <2>1, <2>3, ResponseMoves DEF TaskMove, IsHeard
  <2> QED
    BY <2>1, <2>2, <2>3
<1>8. ASSUME NEW k \in Workers, NEW r \in Tasks, TaskEnds(k, r) PROVE TaskMove(t)
  <2>1. exec'[k][r] = "none"
    <3>1. SetPhase(k, r, "none") /\ "none" \in Phase /\ exec \in [Workers -> [Tasks -> Phase]]
      BY <1>8 DEF TaskEnds, Phase, PlantOK, SitesOK
    <3> QED
      BY <3>1, PhaseType
  <2>2. PICK s \in {"SUCCEEDED", "FAILED"} :
           /\ s = (IF exec[k][r] = "succ" THEN "SUCCEEDED" ELSE "FAILED")
           /\ ReportResult(r, s)
    BY <1>8 DEF TaskEnds
  <2>3. \/ s = "SUCCEEDED" /\ exec[k][r] = "succ"
        \/ s = "FAILED" /\ exec[k][r] = "fail"
    BY <1>8, <2>2 DEF TaskEnds
  <2>4. CASE UNCHANGED <<engineVars, schedVars>>
    BY <2>4, StaysPut DEF TaskMove
  <2>5. CASE MayOvertake /\ E!OnTaskResponse(r, s)
    BY <2>1, <2>3, <2>5, ResponseMoves DEF TaskMove, IsHeard
  <2> QED
    BY <2>2, <2>4, <2>5 DEF ReportResult
<1>9. ASSUME NEW k \in Workers,
             \/ Register(k) \/ RegisterFails(k) \/ Heartbeat(k) \/ HeartbeatFails(k)
             \/ GraceExpires(k) \/ CheckBegins(k) \/ Crash(k)
             \/ \E r \in Tasks : \/ Executed(k, r, "succ") \/ Executed(k, r, "fail")
                                \/ ExecutorFails(k, r) \/ RetryComes(k, r)
      PROVE  TaskMove(t)
  <2>1. UNCHANGED <<engineVars, schedVars>>
    BY <1>9 DEF Register, RegisterFails, Heartbeat, HeartbeatFails, GraceExpires,
                CheckBegins, Crash, Executed, ExecutorFails, RetryComes
  <2> QED
    BY <2>1, StaysPut DEF TaskMove
<1>10. CASE StatusRead \/ MarkedLive \/ TriggerDropped \/ UNCHANGED vars
  <2>1. UNCHANGED <<engineVars, schedVars>>
    BY <1>10 DEF StatusRead, MarkedLive, TriggerDropped, vars
  <2> QED
    BY <2>1, StaysPut DEF TaskMove
<1> QED
  BY <1>1, <1>2, <1>3, <1>4, <1>5, <1>6, <1>7, <1>8, <1>9, <1>10
  DEF Next, SchedulerStep, CheckStep

\* What a step can do to one task on one worker.

\* Dispatch puts it into the pool.
IsDispatched(k, t) ==
    /\ sched = "dispatching" /\ job = t /\ target = k /\ proc[k] = "up"
    /\ exec[k][t] = "none" /\ exec'[k][t] = "queued"
    /\ \/ sched' = "answered" /\ job' = job /\ target' = target
       \/ LossyRPC \/ node[k] = "DEAD"

\* The pool goes on with it.
IsWorkedOn(k, t) ==
    /\ proc[k] = "up" /\ exec[k][t] # "none" /\ exec'[k][t] # "none"
    /\ exec'[k][t] = "succ" => t \in ran'

\* It is over, and the engine heard of it unless the call was lost.
IsEnded(k, t) ==
    /\ proc[k] = "up" /\ exec[k][t] # "none" /\ exec'[k][t] = "none"
    /\ LossyRPC \/ (MayOvertake /\ ~TaskOnWorker(status'[t]))

\* The worker dies.
IsKilled(k, t) == proc[k] = "up" /\ proc'[k] = "down" /\ exec'[k][t] = "none"
                  /\ UNCHANGED <<engineVars, schedVars, registryVars>>

ExecMove(k, t) == \/ exec'[k][t] = exec[k][t] \/ IsDispatched(k, t) \/ IsWorkedOn(k, t)
                  \/ IsEnded(k, t) \/ IsKilled(k, t)

\* There is no other way for a task to come, to go or to go on; and what has
\* run has run.
LEMMA ExecMoves ==
    ASSUME PlantOK, EP!IInv, [Next]_vars, NEW l \in Workers, NEW x \in Tasks
    PROVE  ExecMove(l, x) /\ ran \subseteq ran'
<1>0. exec \in [Workers -> [Tasks -> Phase]]
  BY DEF PlantOK, SitesOK
<1>1. ASSUME UNCHANGED <<exec, ran>> PROVE ExecMove(l, x) /\ ran \subseteq ran'
  BY <1>1 DEF ExecMove
<1>2. CASE DispatchReturns \/ DispatchFails
  <2>1. target \in Workers /\ job \in Tasks /\ sched = "dispatching" /\ ran' = ran
    BY <1>2 DEF DispatchReturns, DispatchFails, PlantOK, SchedOK
  <2>2. \/ UNCHANGED exec
        \/ /\ DispatchTask(target, job) /\ proc[target] = "up"
           /\ \/ sched' = "answered" /\ job' = job /\ target' = target
              \/ LossyRPC \/ node[target] = "DEAD"
    BY <1>2 DEF DispatchReturns, DispatchFails
  <2>3. CASE UNCHANGED exec
    BY <1>1, <2>1, <2>3
  <2>4. CASE /\ DispatchTask(target, job) /\ proc[target] = "up"
             /\ \/ sched' = "answered" /\ job' = job /\ target' = target
                \/ LossyRPC \/ node[target] = "DEAD"
    <3>1. exec'[l][x] = exec[l][x]
          \/ (l = target /\ x = job /\ exec[l][x] = "none" /\ exec'[l][x] = "queued")
      BY <1>0, <2>1, <2>4, PhaseType
    <3> QED
      BY <2>1, <2>4, <3>1 DEF ExecMove, IsDispatched
  <2> QED
    BY <2>2, <2>3, <2>4
<1>3. ASSUME NEW k \in Workers, NEW t \in Tasks,
             \/ TaskStarts(k, t) \/ Executed(k, t, "succ") \/ Executed(k, t, "fail")
             \/ ExecutorFails(k, t) \/ RetryComes(k, t)
      PROVE  ExecMove(l, x) /\ ran \subseteq ran'
  <2>1. PICK p \in Phase \ {"none"} : SetPhase(k, t, p) /\ (p = "succ" => t \in ran')
    BY <1>3 DEF TaskStarts, Executed, ExecutorFails, RetryComes, Phase
  <2>2. proc[k] = "up" /\ exec[k][t] # "none" /\ ran \subseteq ran'
    BY <1>3 DEF TaskStarts, Executed, ExecutorFails, RetryComes
  <2>3. exec'[k][t] = p /\ (l # k \/ x # t => exec'[l][x] = exec[l][x])
    BY <1>0, <2>1, PhaseType
  <2> QED
    BY <2>1, <2>2, <2>3 DEF ExecMove, IsWorkedOn
<1>4. ASSUME NEW k \in Workers, NEW t \in Tasks, TaskEnds(k, t)
      PROVE  ExecMove(l, x) /\ ran \subseteq ran'
  <2>1. SetPhase(k, t, "none") /\ proc[k] = "up" /\ exec[k][t] # "none" /\ ran' = ran
    BY <1>4 DEF TaskEnds
  <2>2. exec'[k][t] = "none" /\ (l # k \/ x # t => exec'[l][x] = exec[l][x])
    BY <1>0, <2>1, PhaseType DEF Phase
  <2>3. \E s \in {"SUCCEEDED", "FAILED"} : ReportResult(t, s)
    BY <1>4 DEF TaskEnds
  <2>4. LossyRPC \/ (MayOvertake /\ ~TaskOnWorker(status'[t]))
    BY <2>3, ResponseAccepted DEF ReportResult
  <2> QED
    BY <2>1, <2>2, <2>4 DEF ExecMove, IsEnded
<1>5. ASSUME NEW k \in Workers, Crash(k) PROVE ExecMove(l, x) /\ ran \subseteq ran'
  <2>1. /\ proc[k] = "up" /\ proc' = [proc EXCEPT ![k] = "down"] /\ ran' = ran
        /\ exec' = [exec EXCEPT ![k] = [t \in Tasks |-> "none"]]
        /\ UNCHANGED <<engineVars, schedVars, registryVars>>
    BY <1>5 DEF Crash
  <2>2. proc \in [Workers -> {"new", "up", "down"}]
    BY DEF PlantOK, SitesOK
  <2>3. exec'[l][x] = IF l = k THEN "none" ELSE exec[l][x]
    BY <1>0, <2>1
  <2>4. proc'[k] = "down"
    BY <2>1, <2>2
  <2> QED
    BY <2>1, <2>3, <2>4 DEF ExecMove, IsKilled
<1>6. CASE \/ \E w \in Workflows : Submit(w)
           \/ Cancel \/ CancelCallEnds \/ PopBatch \/ AliveWorkers \/ SelectFails \/ BatchDone
           \/ (\E k \in Workers : SelectWorker(k)) \/ OnDispatched \/ CheckStep
           \/ UNCHANGED vars
  <2>1. UNCHANGED <<exec, ran>>
    BY <1>6 DEF Submit, Cancel, CancelCallEnds, PopBatch, AliveWorkers, SelectFails, BatchDone,
                SelectWorker, OnDispatched, CheckStep, StatusRead, MarkedLive, MarkedDead,
                TriggerDropped, vars, workerVars
  <2> QED
    BY <1>1, <2>1
<1>7. ASSUME NEW k \in Workers,
             \/ Register(k) \/ RegisterFails(k) \/ Heartbeat(k) \/ HeartbeatFails(k)
             \/ GraceExpires(k) \/ CheckBegins(k)
      PROVE  ExecMove(l, x) /\ ran \subseteq ran'
  BY <1>1, <1>7 DEF Register, RegisterFails, Heartbeat, HeartbeatFails, GraceExpires,
                    CheckBegins, workerVars
<1> QED
  BY <1>2, <1>3, <1>4, <1>5, <1>6, <1>7 DEF Next, SchedulerStep

\* What has run has run.
LEMMA RanGrows == [Next]_vars => ran \subseteq ran'
  BY DEF Next, SchedulerStep, CheckStep, Submit, Cancel, CancelCallEnds, PopBatch, AliveWorkers,
         SelectFails, BatchDone, SelectWorker, DispatchReturns, DispatchFails, OnDispatched,
         StatusRead, MarkedLive, MarkedDead, TriggerDropped, Register, RegisterFails, Heartbeat,
         HeartbeatFails, GraceExpires, CheckBegins, Crash, TaskStarts, TaskEnds, Executed,
         ExecutorFails, RetryComes, vars, workerVars

-----------------------------------------------------------------------------
\* Dependencies are honoured by what really runs.

\* A job, too, is only held once everything its task waits for has run, and an
\* execution that ended well has run.
OrderInv ==
    /\ \A t \in Tasks : JobsHeld[t] > 0 => DependsOn[t] \subseteq ran
    /\ \A k \in Workers, t \in Tasks : exec[k][t] # "none" => DependsOn[t] \subseteq ran
    /\ \A k \in Workers, t \in Tasks : exec[k][t] = "succ" => t \in ran
    /\ \A t \in Tasks : status[t] = "SUCCEEDED" => t \in ran

\* It holds at the start: no job, no execution, no success.
LEMMA OrderInit == Init => OrderInv
<1> SUFFICES ASSUME Init PROVE OrderInv
  OBVIOUS
<1>1. \A t \in Tasks : ~(JobsHeld[t] > 0)
  BY RefineInit DEF E!Init
<1> QED
  BY <1>1 DEF Init, OrderInv

\* The job in the scheduler's hand counts.
LEMMA JobInHand ==
    ASSUME SchedOK, sched \in {"dispatching", "answered"}
    PROVE  job \in Tasks /\ target \in Workers /\ JobsHeld[job] > 0
<1>1. job \in Tasks /\ target \in Workers
  BY DEF SchedOK
<1>2. JobsHeld[job] = Occ(queue, job) + Occ(batch, job) + 1
  BY <1>1, HeldForm
<1>3. Occ(queue, job) \in Nat /\ Occ(batch, job) \in Nat
  BY <1>1, HeldNat
<1> QED
  BY <1>1, <1>2, <1>3

\* Every step keeps it.
LEMMA OrderStep == PlantOK /\ EP!IInv /\ OrderInv /\ [Next]_vars => OrderInv'
<1> SUFFICES ASSUME PlantOK, EP!IInv, OrderInv, [Next]_vars PROVE OrderInv'
  OBVIOUS
<1>1. \A t \in Tasks : TaskMove(t)
  BY TaskMoves
<1>2. ran \subseteq ran'
  BY RanGrows
<1>3. \A k \in Workers, t \in Tasks : ExecMove(k, t)
  BY ExecMoves
<1>4. \A t \in Tasks : DependsOn[t] \subseteq Tasks /\ JobsHeld[t] \in Nat
  BY EngineFacts
<1>5. ASSUME NEW t \in Tasks, status'[t] = "SUCCEEDED" PROVE t \in ran
  <2>1. status[t] = "SUCCEEDED" \/ \E k \in Workers : exec[k][t] = "succ"
    BY <1>1, <1>5 DEF TaskMove, Stays, IsCancelled, IsReadied, IsTakenBack, IsHanded, IsHeard
  <2> QED
    BY <2>1 DEF OrderInv
<1>6. ASSUME NEW t \in Tasks, JobsHeld'[t] > 0 PROVE DependsOn[t] \subseteq ran'
  <2>1. CASE JobsHeld[t] > 0
    BY <1>2, <2>1 DEF OrderInv
  <2>2. CASE IsReadied(t)
    BY <1>2, <1>4, <1>5, <2>2 DEF IsReadied
  <2>3. CASE IsTakenBack(t)
    <3>1. \A d \in DependsOn[t] : status[d] = "SUCCEEDED"
      BY <2>3, EngineFacts DEF IsTakenBack, TaskOnWorker
    <3> QED
      BY <1>2, <1>4, <3>1 DEF OrderInv
  <2>4. \/ JobsHeld'[t] = JobsHeld[t] \/ JobsHeld'[t] = JobsHeld[t] - 1
        \/ IsReadied(t) \/ IsTakenBack(t)
    BY <1>1 DEF TaskMove, Stays, IsCancelled, IsHanded, IsHeard
  <2>5. JobsHeld[t] > 0 \/ IsReadied(t) \/ IsTakenBack(t)
    BY <1>4, <1>6, <2>4
  <2> QED
    BY <2>1, <2>2, <2>3, <2>5
<1>7. ASSUME NEW k \in Workers, NEW t \in Tasks, exec'[k][t] # "none"
      PROVE  DependsOn[t] \subseteq ran' /\ (exec'[k][t] = "succ" => t \in ran')
  <2>1. CASE IsDispatched(k, t)
    <3>1. JobsHeld[t] > 0
      BY <2>1, JobInHand DEF IsDispatched, PlantOK
    <3> QED
      BY <1>2, <2>1, <3>1 DEF OrderInv, IsDispatched
  <2>2. CASE exec[k][t] # "none" /\ (exec'[k][t] = exec[k][t] \/ IsWorkedOn(k, t))
    BY <1>2, <2>2 DEF OrderInv, IsWorkedOn
  <2> QED
    BY <1>3, <1>7, <2>1, <2>2 DEF ExecMove, IsWorkedOn, IsEnded, IsKilled
<1> QED
  BY <1>2, <1>5, <1>6, <1>7 DEF OrderInv

\* Whatever is lost, late, retried or taken for dead, a task is on a worker
\* only after an executor has completed everything it waits for, and only a
\* task that was completed is called SUCCEEDED.
THEOREM GenuineOrderCorrect == Spec => []GenuineOrder
<1>1. OrderInv => GenuineOrder
  BY DEF OrderInv, GenuineOrder
<1> QED
  BY <1>1, OrderInit, OrderStep, PlantCorrect, EngineInv, PTL DEF Spec

-----------------------------------------------------------------------------
\* A reliable network: no call is lost, and no live worker's heartbeats are late
\* or fail.  Workers may crash, executors fail and clients cancel.
Reliable == ~LossyRPC /\ Flaky = {}

\* Then the registry is right about the workers: it doubts only the dead, and
\* watches every worker that it has not declared dead.
RegistryInv ==
    /\ \A k \in Workers :
          /\ proc[k] = "up" => fresh[k]
          /\ link[k] = "ok"
          /\ watched[k] => proc[k] # "new"
          /\ node[k] = "DEAD" => proc[k] = "down"
          /\ proc[k] # "new" /\ node[k] # "DEAD" => watched[k]
    /\ check.at \in {"stale", "SUSPECT", "DEAD"} => proc[check.worker] = "down"
    /\ check.at # "none" => watched[check.worker]
    /\ check.at = "drop" => node[check.worker] = "DEAD"

\* It holds at the start.
LEMMA RegistryInit == Init => RegistryInv
  BY DEF Init, RegistryInv, NoCheck

\* Every step keeps it.
LEMMA RegistryStep == Flaky = {} /\ PlantOK /\ RegistryInv /\ [Next]_vars => RegistryInv'
<1> SUFFICES ASSUME Flaky = {}, PlantOK, RegistryInv, [Next]_vars PROVE RegistryInv'
  OBVIOUS
<1>0. SitesOK
  BY DEF PlantOK
<1>1. ASSUME UNCHANGED <<registryVars, proc, link>> PROVE RegistryInv'
  BY <1>1 DEF RegistryInv, registryVars
<1>2. ASSUME NEW k \in Workers, Register(k) PROVE RegistryInv'
  <2>1. /\ proc' = [proc EXCEPT ![k] = "up"] /\ link' = [link EXCEPT ![k] = "ok"]
        /\ node' = [node EXCEPT ![k] = "ALIVE"] /\ fresh' = [fresh EXCEPT ![k] = TRUE]
        /\ watched' = [watched EXCEPT ![k] = TRUE] /\ check' = check /\ proc[k] = "new"
    BY <1>0, <1>2 DEF Register, RegistryInv
  <2>2. \A j \in Workers :
           /\ proc'[j] = IF j = k THEN "up" ELSE proc[j]
           /\ link'[j] = IF j = k THEN "ok" ELSE link[j]
           /\ node'[j] = IF j = k THEN "ALIVE" ELSE node[j]
           /\ fresh'[j] <=> j = k \/ fresh[j]
           /\ watched'[j] <=> j = k \/ watched[j]
    BY <1>0, <2>1 DEF SitesOK
  <2>3. check.at # "none" => check.worker \in Workers /\ check.worker # k
    BY <1>0, <2>1 DEF SitesOK, RegistryInv
  <2>4. \A j \in Workers :
           /\ proc'[j] = "up" => fresh'[j]
           /\ link'[j] = "ok"
           /\ watched'[j] => proc'[j] # "new"
           /\ node'[j] = "DEAD" => proc'[j] = "down"
           /\ proc'[j] # "new" /\ node'[j] # "DEAD" => watched'[j]
    BY <2>2 DEF RegistryInv
  <2>5. /\ check.at \in {"stale", "SUSPECT", "DEAD"} => proc'[check.worker] = "down"
        /\ check.at # "none" => watched'[check.worker]
        /\ check.at = "drop" => node'[check.worker] = "DEAD"
    BY <2>2, <2>3 DEF RegistryInv
  <2> QED
    BY <2>1, <2>4, <2>5 DEF RegistryInv
<1>3. ASSUME NEW k \in Workers, Heartbeat(k) PROVE RegistryInv'
  <2>1. /\ node' = [node EXCEPT ![k] = "ALIVE"] /\ fresh' = [fresh EXCEPT ![k] = TRUE]
        /\ UNCHANGED <<watched, check, proc, link>> /\ proc[k] = "up"
    BY <1>3 DEF Heartbeat, workerVars
  <2>2. \A j \in Workers : /\ node'[j] = IF j = k THEN "ALIVE" ELSE node[j]
                           /\ fresh'[j] = IF j = k THEN TRUE ELSE fresh[j]
    BY <1>0, <2>1 DEF SitesOK
  <2>3. check.at # "none" => check.worker \in Workers
    BY <1>0 DEF SitesOK
  <2>4. node[k] # "DEAD"
    BY <2>1 DEF RegistryInv
  <2> QED
    BY <2>1, <2>2, <2>3, <2>4 DEF RegistryInv
<1>4. ASSUME NEW k \in Workers, RegisterFails(k) \/ HeartbeatFails(k) PROVE RegistryInv'
  BY <1>4 DEF RegisterFails, HeartbeatFails
<1>5. ASSUME NEW k \in Workers, GraceExpires(k) PROVE RegistryInv'
  <2>1. /\ fresh' = [fresh EXCEPT ![k] = FALSE] /\ proc[k] = "down"
        /\ UNCHANGED <<node, watched, check, proc, link>>
    BY <1>5 DEF GraceExpires, workerVars
  <2>2. \A j \in Workers : fresh'[j] = IF j = k THEN FALSE ELSE fresh[j]
    BY <1>0, <2>1 DEF SitesOK
  <2> QED
    BY <2>1, <2>2 DEF RegistryInv
<1>6. ASSUME NEW k \in Workers, Crash(k) PROVE RegistryInv'
  <2>1. /\ proc' = [proc EXCEPT ![k] = "down"] /\ link' = [link EXCEPT ![k] = "ok"]
        /\ UNCHANGED <<node, fresh, watched, check>> /\ proc[k] = "up"
    BY <1>6 DEF Crash, registryVars
  <2>2. \A j \in Workers : /\ proc'[j] = IF j = k THEN "down" ELSE proc[j]
                           /\ link'[j] = IF j = k THEN "ok" ELSE link[j]
    BY <1>0, <2>1 DEF SitesOK
  <2>3. check.at # "none" => check.worker \in Workers
    BY <1>0 DEF SitesOK
  <2> QED
    BY <2>1, <2>2, <2>3 DEF RegistryInv
<1>7. ASSUME NEW k \in Workers, CheckBegins(k) PROVE RegistryInv'
  <2>1. /\ watched[k] /\ UNCHANGED <<node, fresh, watched, proc, link>>
        /\ check'.worker = k
        /\ check'.at = IF node[k] = "DEAD" THEN "drop" ELSE IF fresh[k] THEN "ALIVE" ELSE "stale"
    BY <1>7 DEF CheckBegins, workerVars
  <2>2. check'.at = "stale" => proc[k] = "down"
    BY <1>0, <2>1 DEF RegistryInv, SitesOK
  <2> QED
    BY <2>1, <2>2 DEF RegistryInv
<1>8. CASE StatusRead
  <2>1. /\ check.at = "stale" /\ check'.worker = check.worker
        /\ check'.at \in {"SUSPECT", "DEAD"} /\ UNCHANGED <<node, fresh, watched, proc, link>>
    BY <1>0, <1>8 DEF StatusRead, SitesOK, workerVars
  <2> QED
    BY <2>1 DEF RegistryInv
<1>9. CASE MarkedLive
  <2>1. /\ check.at \in {"ALIVE", "SUSPECT"} /\ node' = [node EXCEPT ![check.worker] = check.at]
        /\ check'.at = "none" /\ UNCHANGED <<fresh, watched, proc, link>>
        /\ check.worker \in Workers
    BY <1>0, <1>9 DEF MarkedLive, SitesOK, workerVars, NoCheck
  <2>2. \A j \in Workers : node'[j] = IF j = check.worker THEN check.at ELSE node[j]
    BY <1>0, <2>1 DEF SitesOK
  <2> QED
    BY <2>1, <2>2 DEF RegistryInv
<1>10. CASE MarkedDead
  <2>1. /\ check.at = "DEAD" /\ node' = [node EXCEPT ![check.worker] = "DEAD"]
        /\ check'.at = "drop" /\ check'.worker = check.worker
        /\ UNCHANGED <<fresh, watched, proc, link>> /\ check.worker \in Workers
    BY <1>0, <1>10 DEF MarkedDead, SitesOK, workerVars
  <2>2. \A j \in Workers : node'[j] = IF j = check.worker THEN "DEAD" ELSE node[j]
    BY <1>0, <2>1 DEF SitesOK
  <2> QED
    BY <2>1, <2>2 DEF RegistryInv
<1>11. CASE TriggerDropped
  <2>1. /\ check.at = "drop" /\ watched' = [watched EXCEPT ![check.worker] = FALSE]
        /\ check'.at = "none" /\ UNCHANGED <<fresh, node, proc, link>>
        /\ check.worker \in Workers
    BY <1>0, <1>11 DEF TriggerDropped, SitesOK, workerVars, NoCheck
  <2>2. \A j \in Workers : watched'[j] = IF j = check.worker THEN FALSE ELSE watched[j]
    BY <1>0, <2>1 DEF SitesOK
  <2> QED
    BY <2>1, <2>2 DEF RegistryInv
<1>12. CASE \/ \E w \in Workflows : Submit(w)
            \/ Cancel \/ CancelCallEnds \/ SchedulerStep \/ UNCHANGED vars
            \/ \E k \in Workers, t \in Tasks :
                  \/ TaskStarts(k, t) \/ TaskEnds(k, t)
                  \/ Executed(k, t, "succ") \/ Executed(k, t, "fail")
                  \/ ExecutorFails(k, t) \/ RetryComes(k, t)
  <2>1. UNCHANGED <<registryVars, proc, link>>
    BY <1>12 DEF Submit, Cancel, CancelCallEnds, SchedulerStep, PopBatch, AliveWorkers,
                 SelectFails, BatchDone, SelectWorker, DispatchReturns, DispatchFails,
                 OnDispatched, TaskStarts, TaskEnds, Executed, ExecutorFails, RetryComes, vars,
                 workerVars
  <2> QED
    BY <1>1, <2>1
<1> QED
  BY <1>2, <1>3, <1>4, <1>5, <1>6, <1>7, <1>8, <1>9, <1>10, <1>11, <1>12 DEF Next, CheckStep

\* A dead process stays dead, one that dies takes its tasks along; a trigger is
\* only dropped by a check that answered false; a worker is only declared dead
\* together with taking back what it holds.
LEMMA SiteMoves ==
    ASSUME PlantOK, EP!IInv, [Next]_vars, NEW k \in Workers
    PROVE  /\ proc[k] = "down" => proc'[k] = "down"
           /\ proc[k] = "up" /\ proc'[k] # "up" => \A t \in Tasks : exec'[k][t] = "none"
           /\ watched[k] /\ ~watched'[k] => check.at = "drop" /\ check.worker = k
           /\ node[k] # "DEAD" /\ node'[k] = "DEAD" =>
                 /\ check.at = "DEAD" /\ check.worker = k /\ MayOvertake
                 /\ \A t \in Tasks : assignedTo[t] = k /\ TaskOnWorker(status[t]) =>
                       status'[t] = "READY"
<1>0. SitesOK
  BY DEF PlantOK
<1> DEFINE Goal == /\ proc[k] = "down" => proc'[k] = "down"
                   /\ proc[k] = "up" /\ proc'[k] # "up" => \A t \in Tasks : exec'[k][t] = "none"
                   /\ watched[k] /\ ~watched'[k] => check.at = "drop" /\ check.worker = k
                   /\ node[k] # "DEAD" /\ node'[k] = "DEAD" =>
                         /\ check.at = "DEAD" /\ check.worker = k /\ MayOvertake
                         /\ \A t \in Tasks : assignedTo[t] = k /\ TaskOnWorker(status[t]) =>
                               status'[t] = "READY"
<1>1. ASSUME UNCHANGED <<proc, watched, node>> PROVE Goal
  BY <1>1
<1>2. ASSUME NEW j \in Workers, Register(j) PROVE Goal
  <2>1. /\ proc' = [proc EXCEPT ![j] = "up"] /\ node' = [node EXCEPT ![j] = "ALIVE"]
        /\ watched' = [watched EXCEPT ![j] = TRUE] /\ proc[j] # "down"
    BY <1>2 DEF Register
  <2>2. /\ proc'[k] = IF k = j THEN "up" ELSE proc[k]
        /\ node'[k] = IF k = j THEN "ALIVE" ELSE node[k]
        /\ watched'[k] <=> k = j \/ watched[k]
    BY <1>0, <2>1 DEF SitesOK
  <2> QED
    BY <2>1, <2>2
<1>3. ASSUME NEW j \in Workers, Heartbeat(j) PROVE Goal
  <2>1. node' = [node EXCEPT ![j] = "ALIVE"] /\ UNCHANGED <<proc, watched>>
    BY <1>3 DEF Heartbeat, workerVars
  <2>2. node'[k] = IF k = j THEN "ALIVE" ELSE node[k]
    BY <1>0, <2>1 DEF SitesOK
  <2> QED
    BY <2>1, <2>2
<1>4. ASSUME NEW j \in Workers, Crash(j) PROVE Goal
  <2>1. /\ proc' = [proc EXCEPT ![j] = "down"] /\ UNCHANGED <<node, watched>>
        /\ exec' = [exec EXCEPT ![j] = [t \in Tasks |-> "none"]]
    BY <1>4 DEF Crash, registryVars
  <2>2. /\ proc'[k] = IF k = j THEN "down" ELSE proc[k]
        /\ k = j => \A t \in Tasks : exec'[k][t] = "none"
    BY <1>0, <2>1 DEF SitesOK
  <2> QED
    BY <2>1, <2>2
<1>5. CASE MarkedLive
  <2>1. node' = [node EXCEPT ![check.worker] = check.at] /\ UNCHANGED <<proc, watched>>
        /\ check.at # "DEAD"
    BY <1>5 DEF MarkedLive, workerVars
  <2>2. node'[k] = IF k = check.worker THEN check.at ELSE node[k]
    BY <1>0, <2>1 DEF SitesOK
  <2> QED
    BY <2>1, <2>2
<1>6. CASE TriggerDropped
  <2>1. /\ watched' = [watched EXCEPT ![check.worker] = FALSE] /\ UNCHANGED <<proc, node>>
        /\ check.at = "drop"
    BY <1>6 DEF TriggerDropped, workerVars
  <2>2. watched[k] /\ ~watched'[k] => check.worker = k
    BY <1>0, <2>1 DEF SitesOK
  <2> QED
    BY <2>1, <2>2
<1>7. CASE MarkedDead
  <2>1. /\ node' = [node EXCEPT ![check.worker] = "DEAD"] /\ UNCHANGED <<proc, watched>>
        /\ check.at = "DEAD" /\ MayOvertake /\ E!ReassignDeadWorkerTasks(check.worker)
    BY <1>7 DEF MarkedDead, workerVars
  <2>2. node'[k] = IF k = check.worker THEN "DEAD" ELSE node[k]
    BY <1>0, <2>1 DEF SitesOK
  <2>3. ASSUME k = check.worker, NEW t \in Tasks, assignedTo[t] = k, TaskOnWorker(status[t])
        PROVE  status'[t] = "READY"
    <3> DEFINE lost == {u \in Tasks : /\ WorkflowOf[u] \in workflows
                                      /\ assignedTo[u] = check.worker
                                      /\ E!TaskOnWorker(status[u])}
    <3>1. status' = E!UpdateStatus(status, lost, "READY")
      BY <2>1 DEF E!ReassignDeadWorkerTasks
    <3>2. WorkflowOf[t] \in workflows /\ status \in [Tasks -> TaskStatus]
      BY <2>3, EngineFacts DEF TaskOnWorker
    <3>3. t \in lost
      BY <2>3, <3>2 DEF TaskOnWorker, E!TaskOnWorker
    <3>4. TaskCanTransitTo(status[t], "READY")
      BY <2>3 DEF TaskOnWorker, TaskCanTransitTo, taskStatusesGraph
    <3> HIDE DEF lost
    <3> QED
      BY <3>1, <3>2, <3>3, <3>4, UpdateEffect DEF TaskStatus
  <2> QED
    BY <2>1, <2>2, <2>3
<1>8. CASE \/ \E w \in Workflows : Submit(w)
           \/ Cancel \/ CancelCallEnds \/ SchedulerStep \/ StatusRead \/ UNCHANGED vars
           \/ \E j \in Workers :
                 \/ RegisterFails(j) \/ HeartbeatFails(j) \/ GraceExpires(j) \/ CheckBegins(j)
                 \/ \E t \in Tasks :
                       \/ TaskStarts(j, t) \/ TaskEnds(j, t)
                       \/ Executed(j, t, "succ") \/ Executed(j, t, "fail")
                       \/ ExecutorFails(j, t) \/ RetryComes(j, t)
  <2>1. UNCHANGED <<proc, watched, node>>
    BY <1>8 DEF Submit, Cancel, CancelCallEnds, SchedulerStep, PopBatch, AliveWorkers,
                SelectFails, BatchDone, SelectWorker, DispatchReturns, DispatchFails,
                OnDispatched, StatusRead, RegisterFails, HeartbeatFails, GraceExpires,
                CheckBegins, TaskStarts, TaskEnds, Executed, ExecutorFails, RetryComes, vars,
                workerVars, registryVars
  <2> QED
    BY <1>1, <2>1
<1> QED
  BY <1>2, <1>3, <1>4, <1>5, <1>6, <1>7, <1>8 DEF Next, CheckStep

\* An answer of Dispatch waits for its callback.
LEMMA SchedMoves ==
    ASSUME [Next]_vars
    PROVE  \/ UNCHANGED <<sched, job, target>>
           \/ sched # "answered" /\ sched' # "answered"
           \/ DispatchReturns
           \/ OnDispatched
<1> DEFINE Goal == \/ UNCHANGED <<sched, job, target>>
                   \/ sched # "answered" /\ sched' # "answered"
                   \/ DispatchReturns
                   \/ OnDispatched
<1>1. CASE SchedulerStep
  BY <1>1 DEF SchedulerStep, PopBatch, AliveWorkers, SelectFails, BatchDone, SelectWorker,
              DispatchFails
<1>2. ASSUME NEW t, NEW s, ReportResult(t, s) PROVE UNCHANGED <<sched, job, target>>
  BY <1>2 DEF ReportResult, Pushes, schedVars
<1>3. CASE \/ \E w \in Workflows : Submit(w)
           \/ Cancel \/ CancelCallEnds \/ CheckStep \/ UNCHANGED vars
  BY <1>3 DEF Submit, Cancel, CancelCallEnds, CheckStep, StatusRead, MarkedLive, MarkedDead,
              TriggerDropped, Pushes, vars, schedVars
<1>4. ASSUME NEW k \in Workers,
             \/ Register(k) \/ RegisterFails(k) \/ Heartbeat(k) \/ HeartbeatFails(k)
             \/ GraceExpires(k) \/ CheckBegins(k) \/ Crash(k)
      PROVE  Goal
  BY <1>4 DEF Register, RegisterFails, Heartbeat, HeartbeatFails, GraceExpires, CheckBegins,
              Crash, schedVars
<1>5. ASSUME NEW k \in Workers, NEW t \in Tasks,
             \/ TaskStarts(k, t) \/ TaskEnds(k, t) \/ Executed(k, t, "succ")
             \/ Executed(k, t, "fail") \/ ExecutorFails(k, t) \/ RetryComes(k, t)
      PROVE  Goal
  BY <1>2, <1>5 DEF TaskStarts, TaskEnds, Executed, ExecutorFails, RetryComes, schedVars
<1> QED
  BY <1>1, <1>3, <1>4, <1>5 DEF Next

-----------------------------------------------------------------------------
\* No task runs twice in steady operation.

\* A task on a worker is on no other, its worker lives, and the engine knows of
\* it: its Dispatch has just been answered, or its job is used up and it is
\* assigned to that worker, unless it was cancelled.
RunInv ==
    /\ \A k \in Workers, t \in Tasks : exec[k][t] # "none" => proc[k] = "up"
    /\ \A k, l \in Workers, t \in Tasks : exec[k][t] # "none" /\ exec[l][t] # "none" => k = l
    /\ \A k \in Workers, t \in Tasks : exec[k][t] # "none" =>
          \/ /\ sched = "answered" /\ job = t /\ target = k
             /\ status[t] \in {"READY", "CANCELLED"}
          \/ /\ JobsHeld[t] = 0
             /\ \/ status[t] = "CANCELLED"
                \/ TaskOnWorker(status[t]) /\ assignedTo[t] = k

\* A task whose job is on its way to a worker is on none.
LEMMA NotYetRunning ==
    ASSUME SchedOK, RunInv, sched = "dispatching", NEW k \in Workers
    PROVE  exec[k][job] = "none"
<1>1. job \in Tasks /\ JobsHeld[job] > 0
  BY JobInHand
<1> QED
  BY <1>1 DEF RunInv

\* Every step keeps it.
LEMMA RunStep ==
    Reliable /\ PlantOK /\ EP!IInv /\ RegistryInv /\ RunInv /\ [Next]_vars => RunInv'
<1> SUFFICES ASSUME Reliable, PlantOK, EP!IInv, RegistryInv, RunInv, [Next]_vars PROVE RunInv'
  OBVIOUS
<1>1. \A t \in Tasks : TaskMove(t)
  BY TaskMoves
<1>2. \A k \in Workers, t \in Tasks : ExecMove(k, t)
  BY ExecMoves
<1>3. \A t \in Tasks : JobsHeld[t] \in Nat /\ (JobsHeld[t] > 0 => JobsHeld[t] = 1)
  BY EngineFacts
<1>4. \A k \in Workers, t \in Tasks : exec'[k][t] # "none" =>
         exec[k][t] # "none" \/ IsDispatched(k, t)
  BY <1>2 DEF ExecMove, IsWorkedOn, IsEnded, IsKilled
<1>5. \A k \in Workers, t \in Tasks : IsDispatched(k, t) =>
         \A l \in Workers : exec[l][t] = "none"
  BY NotYetRunning DEF IsDispatched, PlantOK
<1>6. ASSUME NEW k \in Workers, NEW t \in Tasks, exec'[k][t] # "none" PROVE proc'[k] = "up"
  <2>1. proc[k] = "up"
    BY <1>4, <1>6 DEF RunInv, IsDispatched
  <2> QED
    BY <1>6, <2>1, SiteMoves
<1>7. ASSUME NEW k \in Workers, NEW l \in Workers, NEW t \in Tasks,
             exec'[k][t] # "none", exec'[l][t] # "none"
      PROVE  k = l
  <2>1. CASE IsDispatched(k, t) \/ IsDispatched(l, t)
    BY <1>4, <1>5, <1>7, <2>1 DEF IsDispatched
  <2>2. CASE exec[k][t] # "none" /\ exec[l][t] # "none"
    BY <2>2 DEF RunInv
  <2> QED
    BY <1>4, <1>7, <2>1, <2>2
<1>8. ASSUME NEW k \in Workers, NEW t \in Tasks, exec'[k][t] # "none"
      PROVE  \/ /\ sched' = "answered" /\ job' = t /\ target' = k
                /\ status'[t] \in {"READY", "CANCELLED"}
             \/ /\ JobsHeld'[t] = 0
                /\ \/ status'[t] = "CANCELLED"
                   \/ TaskOnWorker(status'[t]) /\ assignedTo'[t] = k
  <2>1. CASE IsDispatched(k, t)
    <3>1. sched = "dispatching" /\ job = t /\ target = k /\ node[k] # "DEAD"
      BY <2>1 DEF IsDispatched, RegistryInv
    <3>2. sched' = "answered" /\ job' = t /\ target' = k
      BY <2>1, <3>1 DEF IsDispatched, Reliable
    <3>3. JobsHeld[t] > 0
      BY <3>1, JobInHand DEF PlantOK
    <3>4. status[t] \in {"READY", "CANCELLED"}
      BY <3>3, EngineFacts
    <3>5. status'[t] = status[t] \/ status'[t] = "CANCELLED"
      BY <1>1, <3>1, <3>4 DEF TaskMove, Stays, IsCancelled, IsReadied, IsTakenBack, IsHanded,
                              IsHeard, TaskOnWorker
    <3> QED
      BY <3>2, <3>4, <3>5
  <2>2. CASE exec[k][t] # "none" /\ sched = "answered" /\ job = t /\ target = k
    <3>1. status[t] \in {"READY", "CANCELLED"} /\ JobsHeld[t] = 1
      BY <1>3, <2>2, JobInHand, EngineFacts DEF PlantOK
    <3>2. CASE IsHanded(t)
      BY <2>2, <3>1, <3>2 DEF IsHanded, TaskOnWorker
    <3>3. CASE ~IsHanded(t)
      <4>1. UNCHANGED <<sched, job, target>>
        <5>1. CASE OnDispatched
          <6>1. JobsHeld'[t] = JobsHeld[t] - 1
            <7>1. JobsHeld' = [JobsHeld EXCEPT ![job] = JobsHeld[job] - 1]
              BY <5>1 DEF OnDispatched, E!OnTaskDispatched
            <7>2. JobsHeld \in [Tasks -> Nat]
              BY DEF EP!IInv, EP!TypeOK
            <7> QED
              BY <2>2, <7>1, <7>2
          <6> QED
            BY <1>1, <3>1, <3>3, <6>1 DEF TaskMove, Stays, IsCancelled, IsReadied, IsTakenBack,
                                          IsHeard
        <5>2. ~DispatchReturns
          BY <2>2 DEF DispatchReturns
        <5> QED
          BY <2>2, <5>1, <5>2, SchedMoves
      <4>2. status'[t] = status[t] \/ status'[t] = "CANCELLED"
        BY <1>1, <3>1, <3>3 DEF TaskMove, Stays, IsCancelled, IsReadied, IsTakenBack, IsHeard,
                                TaskOnWorker
      <4> QED
        BY <2>2, <3>1, <4>1, <4>2
    <3> QED
      BY <3>2, <3>3
  <2>3. CASE /\ exec[k][t] # "none" /\ JobsHeld[t] = 0
             /\ \/ status[t] = "CANCELLED"
                \/ TaskOnWorker(status[t]) /\ assignedTo[t] = k
    <3>1. CASE Stays(t) \/ IsCancelled(t)
      BY <2>3, <3>1 DEF Stays, IsCancelled
    <3>2. ~IsReadied(t)
      BY <2>3 DEF IsReadied, TaskOnWorker
    <3>3. ~IsTakenBack(t)
      <4>1. proc[k] = "up"
        BY <2>3 DEF RunInv
      <4> QED
        BY <2>3, <4>1 DEF IsTakenBack, RegistryInv, TaskOnWorker
    <3>4. ~IsHanded(t)
      BY <2>3, JobInHand DEF IsHanded, PlantOK
    <3>5. CASE IsHeard(t)
      <4>1. TaskOnWorker(status[t]) /\ assignedTo[t] = k
        BY <2>3, <3>5 DEF IsHeard, TaskOnWorker
      <4>2. PICK l \in Workers :
               \/ status'[t] = "RUNNING" /\ exec[l][t] = "queued"
               \/ exec[l][t] # "none" /\ exec'[l][t] = "none"
        BY <3>5 DEF IsHeard
      <4>3. l = k
        BY <2>3, <4>2 DEF RunInv
      <4>4. status'[t] = "RUNNING"
        BY <1>8, <4>2, <4>3
      <4> QED
        BY <2>3, <3>5, <4>1, <4>4 DEF IsHeard, TaskOnWorker
    <3> QED
      BY <1>1, <3>1, <3>2, <3>3, <3>4, <3>5 DEF TaskMove
  <2> QED
    BY <1>4, <1>8, <2>1, <2>2, <2>3 DEF RunInv
<1> QED
  BY <1>6, <1>7, <1>8 DEF RunInv

\* The registry and the executions on a reliable network.
LEMMA ReliableCorrect == Reliable /\ Spec => [](RegistryInv /\ RunInv)
<1> SUFFICES ASSUME Reliable PROVE Spec => [](RegistryInv /\ RunInv)
  OBVIOUS
<1>1. Init => RegistryInv /\ RunInv
  BY RegistryInit DEF Init, RunInv
<1>2. PlantOK /\ EP!IInv /\ RegistryInv /\ RunInv /\ [Next]_vars => RegistryInv' /\ RunInv'
  BY RegistryStep, RunStep DEF Reliable
<1> QED
  BY <1>1, <1>2, PlantCorrect, EngineInv, PTL DEF Spec

\* When no call is lost and no live worker is taken for dead, a task is never on
\* two workers at once, whichever workers crash, executors fail or tasks are
\* cancelled, and although reports may overtake the callback of Dispatch.
THEOREM NoDoubleRunCorrect == Reliable /\ Spec => []NoDoubleRun
<1>1. ASSUME RunInv, NEW t \in Tasks
      PROVE  Cardinality({k \in Workers : exec[k][t] # "none"}) <= 1
  <2> DEFINE S == {k \in Workers : exec[k][t] # "none"}
  <2>1. \A k, l \in S : k = l
    BY <1>1 DEF RunInv
  <2>2. CASE S = {}
    <3>1. Cardinality(S) = 0
      BY <2>2, FS_EmptySet
    <3> QED
      BY <3>1
  <2>3. CASE S # {}
    <3>1. PICK k \in S : TRUE
      BY <2>3
    <3>2. S = {k}
      BY <2>1, <3>1
    <3>3. Cardinality({k}) = 1
      BY FS_Singleton
    <3> HIDE DEF S
    <3>4. Cardinality(S) = Cardinality({k})
      BY <3>2, Zenon
    <3> QED
      BY <3>3, <3>4 DEF S
  <2> QED
    BY <2>2, <2>3
<1>2. RunInv => NoDoubleRun
  BY <1>1 DEF NoDoubleRun
<1> QED
  BY <1>2, ReliableCorrect, PTL

-----------------------------------------------------------------------------
\* What the engine believes to be on a worker is there.

\* Steady operation: the network is reliable, and the callback of Dispatch is
\* not overtaken.
Steady == Reliable /\ PromptCallback

\* A pool with room for every task never refuses one.
Roomy == Cardinality(Tasks) <= PoolCapacity

\* A worker that has died and whose death the registry will still find out.
Findable(k) == proc[k] = "down" /\ node[k] # "DEAD" /\ watched[k]

\* Already when Dispatch has been answered the task is on the worker, or the
\* worker has died since.
HoldInv ==
    /\ sched = "answered" => exec[target][job] # "none" \/ Findable(target)
    /\ HeldOrRecoverable

\* A death stays to be found out until it is, and then the tasks are taken back.
LEMMA FindableStays ==
    ASSUME PlantOK, EP!IInv, RegistryInv, [Next]_vars, NEW k \in Workers, Findable(k)
    PROVE  \/ Findable(k)'
           \/ /\ MayOvertake
              /\ \A t \in Tasks : assignedTo[t] = k /\ TaskOnWorker(status[t]) =>
                    status'[t] = "READY"
<1>1. proc'[k] = "down"
  BY SiteMoves DEF Findable
<1>2. watched'[k]
  BY SiteMoves DEF Findable, RegistryInv
<1>3. CASE node'[k] # "DEAD"
  BY <1>1, <1>2, <1>3 DEF Findable
<1>4. CASE node'[k] = "DEAD"
  BY <1>4, SiteMoves DEF Findable
<1> QED
  BY <1>3, <1>4

\* A crash is to be found out.
LEMMA KilledFindable ==
    ASSUME RegistryInv, NEW k \in Workers, NEW t \in Tasks, IsKilled(k, t)
    PROVE  Findable(k)'
  BY DEF IsKilled, RegistryInv, Findable, registryVars

\* With room in the pool and a worker that is not suspended, an answer means
\* that the task is on the worker.
LEMMA AnswerMeansHeld ==
    ASSUME Roomy, PlantOK, RegistryInv, DispatchReturns
    PROVE  exec'[target'][job'] # "none"
<1>1. target \in Workers /\ job \in Tasks /\ exec \in [Workers -> [Tasks -> Phase]]
  BY DEF DispatchReturns, PlantOK, SchedOK, SitesOK
<1>2. CASE exec[target][job] # "none"
  <2>1. exec'[target][job] # "none"
    BY <1>1, <1>2, PhaseType DEF DispatchReturns
  <2> QED
    BY <2>1 DEF DispatchReturns
<1>3. CASE exec[target][job] = "none"
  <2> DEFINE Q == {t \in Tasks : exec[target][t] = "queued"}
  <2>1. Q \in SUBSET (Tasks \ {job})
    BY <1>3
  <2>2. /\ IsFiniteSet(Tasks \ {job})
        /\ Cardinality(Tasks \ {job}) = Cardinality(Tasks) - 1
    BY <1>1, TasksFinite, FS_RemoveElement
  <2>3. Cardinality(Q) <= Cardinality(Tasks \ {job}) /\ IsFiniteSet(Q)
    BY <2>1, <2>2, FS_Subset
  <2>4. Cardinality(Q) \in Nat /\ Cardinality(Tasks) \in Nat
    BY <2>3, TasksFinite, FS_CardinalityType
  <2>5. Queued(target) = Cardinality(Q)
    BY DEF Queued
  <2> HIDE DEF Q
  <2>6. Queued(target) # PoolCapacity
    BY <2>2, <2>3, <2>4, <2>5, BoundAssumption DEF Roomy
  <2>7. Verdict(target, job) = "accepted"
    BY <1>1, <2>6 DEF Verdict, RegistryInv
  <2>8. exec'[target][job] = "queued"
    BY <1>1, <1>3, <2>7, PhaseType DEF DispatchReturns
  <2> QED
    BY <2>8 DEF DispatchReturns
<1> QED
  BY <1>2, <1>3

\* Every step keeps it.
LEMMA HoldStep ==
    Steady /\ Roomy /\ PlantOK /\ EP!IInv /\ RegistryInv /\ HoldInv /\ [Next]_vars => HoldInv'
<1> SUFFICES ASSUME Steady, Roomy, PlantOK, EP!IInv, RegistryInv, HoldInv, [Next]_vars
             PROVE  HoldInv'
  OBVIOUS
<1>1. \A t \in Tasks : TaskMove(t)
  BY TaskMoves
<1>2. \A k \in Workers, t \in Tasks : ExecMove(k, t)
  BY ExecMoves
<1>3. \A t \in Tasks : TaskOnWorker(status[t]) => assignedTo[t] \in Workers
  BY DEF EP!IInv, EP!Recoverable, EP!TaskOnWorker, TaskOnWorker
\* What becomes of a task that is held.
<1>4. ASSUME NEW k \in Workers, NEW t \in Tasks, exec[k][t] # "none"
      PROVE  \/ exec'[k][t] # "none" \/ Findable(k)'
             \/ MayOvertake /\ ~TaskOnWorker(status'[t])
  <2>1. CASE IsKilled(k, t)
    BY <2>1, KilledFindable
  <2> QED
    BY <1>2, <1>4, <2>1 DEF ExecMove, IsDispatched, IsWorkedOn, IsEnded, Steady, Reliable
<1>5. ASSUME sched' = "answered" PROVE (exec[target][job] # "none" \/ Findable(target))'
  <2>1. CASE DispatchReturns
    BY <2>1, AnswerMeansHeld
  <2>2. CASE UNCHANGED <<sched, job, target>>
    <3>1. target \in Workers /\ job \in Tasks /\ sched = "answered" /\ ~MayOvertake
      BY <1>5, <2>2, JobInHand DEF MayOvertake, Steady, PlantOK
    <3>2. exec[target][job] # "none" \/ Findable(target)
      BY <3>1 DEF HoldInv
    <3>3. PICK k \in Workers, t \in Tasks : k = target /\ t = job
      BY <3>1
    <3>4. exec'[k][t] # "none" \/ Findable(k)'
      BY <1>4, <3>1, <3>2, <3>3, FindableStays
    <3>5. target' = k /\ job' = t
      BY <2>2, <3>3
    <3> QED
      BY <3>4, <3>5 DEF Findable
  <2>3. sched' # "loop"
    BY <1>5
  <2> QED
    BY <1>5, <2>1, <2>2, <2>3, SchedMoves DEF OnDispatched
<1>6. ASSUME NEW t \in Tasks, TaskOnWorker(status'[t]),
             NEW k, k = assignedTo'[t]
      PROVE  exec'[k][t] # "none" \/ Findable(k)'
  <2>1. CASE Stays(t) \/ IsHeard(t)
    <3>1. TaskOnWorker(status[t]) /\ assignedTo[t] = k /\ k \in Workers
      BY <1>3, <1>6, <2>1 DEF Stays, IsHeard
    <3>2. exec[k][t] # "none" \/ Findable(k)
      BY <3>1 DEF HoldInv, HeldOrRecoverable, Findable
    <3>3. status'[t] # "READY"
      BY <1>6 DEF TaskOnWorker
    <3> QED
      BY <1>4, <1>6, <3>1, <3>2, <3>3, FindableStays
  <2>2. CASE IsHanded(t)
    <3>1. /\ k = target /\ job = t /\ sched = "answered"
          /\ UNCHANGED <<exec, proc, node, watched>>
      BY <1>6, <2>2 DEF IsHanded, registryVars, workerVars
    <3>2. exec[k][t] # "none" \/ Findable(k)
      BY <3>1 DEF HoldInv
    <3> QED
      BY <3>1, <3>2 DEF Findable
  <2> QED
    BY <1>1, <1>6, <2>1, <2>2 DEF TaskMove, IsCancelled, IsReadied, IsTakenBack, TaskOnWorker
<1>7. HeldOrRecoverable'
  BY <1>6 DEF HeldOrRecoverable, Findable
<1>8. (sched = "answered" => exec[target][job] # "none" \/ Findable(target))'
  BY <1>5
<1> QED
  BY <1>7, <1>8 DEF HoldInv

\* In steady operation and with room in the pools, a task the engine believes
\* to be on a worker is there, or its worker has died and the registry still
\* watches it: no task waits for ever for a worker that does not have it.
THEOREM HeldOrRecoverableCorrect == Steady /\ Roomy /\ Spec => []HeldOrRecoverable
<1> SUFFICES ASSUME Steady, Roomy PROVE Spec => []HeldOrRecoverable
  OBVIOUS
<1>1. Init => HoldInv
  BY DEF Init, HoldInv, HeldOrRecoverable, TaskOnWorker
<1>2. PlantOK /\ EP!IInv /\ RegistryInv /\ HoldInv /\ [Next]_vars => HoldInv'
  BY HoldStep
<1>3. Spec => []RegistryInv
  BY ReliableCorrect, PTL DEF Steady
<1>4. HoldInv => HeldOrRecoverable
  BY DEF HoldInv
<1> QED
  BY <1>1, <1>2, <1>3, <1>4, PlantCorrect, EngineInv, PTL DEF Spec

-----------------------------------------------------------------------------
\* The engine's action properties, in the composed system.

\* What ended stays as it ended, a cancelled task's worker is told, and no more
\* and no less is cancelled than what waited for a task that failed or was
\* cancelled.
THEOREM EngineStepsCorrect ==
    Spec => E!FinishedIsFinal /\ E!CancelAnnounced /\ E!CancellationIsExact
<1>1. PlantOK /\ [Next]_vars => [EP!Next]_(EP!vars)
  BY RefineStep, SameEngine
<1>2. EP!IInv /\ [EP!Next]_(EP!vars) =>
         [/\ \A t \in Tasks : E!TaskIsFinished(status[t]) =>
                 status'[t] = status[t] /\ result'[t] = result[t]
          /\ \A w \in Workflows : E!WorkflowIsFinished(wfStatus[w]) =>
                 wfStatus'[w] = wfStatus[w]]_(E!vars)
  BY EP!FinalStep, EngineAssumed DEF EP!TaskIsFinished, E!TaskIsFinished, EP!WorkflowIsFinished,
                                     E!WorkflowIsFinished
<1>3. EP!IInv /\ [EP!Next]_(EP!vars) =>
         [\A t \in Tasks :
             E!TaskOnWorker(status[t]) /\ status'[t] = "CANCELLED" =>
                 \E c \in cancels' : /\ c.worker = assignedTo[t]
                                     /\ c.worker \in Workers
                                     /\ t \in c.tasks]_(E!vars)
  <2>1. CASE UNCHANGED EP!vars
    BY <2>1, SameEngine
  <2>2. ASSUME EP!IInv, EP!Next, NEW t \in Tasks, E!TaskOnWorker(status[t]),
               status'[t] = "CANCELLED"
        PROVE  \E c \in cancels' : /\ c.worker = assignedTo[t]
                                   /\ c.worker \in Workers
                                   /\ t \in c.tasks
    <3>1. EP!TaskOnWorker(status[t])
      BY <2>2 DEF EP!TaskOnWorker, E!TaskOnWorker
    <3> QED
      BY <2>2, <3>1, EP!AnnounceStep, EngineAssumed
  <2> QED
    BY <2>1, <2>2
<1>4. EP!IInv /\ [EP!Next]_(EP!vars) =>
         [LET failed  == {t \in Tasks : status[t] # "FAILED" /\ status'[t] = "FAILED"}
              gone    == {t \in Tasks : status[t] # "CANCELLED" /\ status'[t] = "CANCELLED"}
              Open(T) == {t \in T : ~E!TaskIsFinished(status[t])}
          IN  \/ failed = {} /\ gone = {}
              \/ \E r \in failed : failed = {r} /\ gone = Open(E!Descendants(r))
              \/ failed = {} /\ \E r \in Open(Tasks) :
                                   gone = {r} \cup Open(E!Descendants(r))
              \/ failed = {} /\ \E w \in Workflows : gone = Open(E!TasksOf(w))]_(E!vars)
  <2>1. CASE UNCHANGED EP!vars
    BY <2>1, SameEngine
  <2>2. ASSUME EP!IInv, EP!Next
        PROVE  EP!Exact
    BY <2>2, EP!ExactStep, EngineAssumed
  <2>3. \A r : EP!Descendants(r) = E!Descendants(r)
    BY Zenon DEF EP!Descendants, E!Descendants, E!Cardinality, EP!Cardinality,
                 E!IsFiniteSet, EP!IsFiniteSet
  <2>4. \A w : EP!TasksOf(w) = E!TasksOf(w)
    BY Zenon DEF EP!TasksOf, E!TasksOf
  <2>5. \A x : EP!TaskIsFinished(x) <=> E!TaskIsFinished(x)
    BY Zenon DEF EP!TaskIsFinished, E!TaskIsFinished
  <2> QED
    BY <2>1, <2>2, <2>3, <2>4, <2>5 DEF EP!Exact
<1> QED
  BY <1>1, <1>2, <1>3, <1>4, PlantCorrect, EngineInv, PTL
  DEF Spec, E!FinishedIsFinal, E!CancelAnnounced, E!CancellationIsExact

=============================================================================
