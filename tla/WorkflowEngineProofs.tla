------------------------ MODULE WorkflowEngineProofs ------------------------
(***************************************************************************)
(* Machine-checked proofs about WorkflowEngine, for any finite set of      *)
(* workflows and tasks, any acyclic dependency graph and any set of        *)
(* workers.                                                                *)
(***************************************************************************)
EXTENDS WorkflowEngine, WellFoundedInduction, FiniteSetTheorems, TLAPS

-----------------------------------------------------------------------------
\* Types.

\* Task.UpdateStatus maps status functions to status functions.
LEMMA UpdateStatusType ==
    ASSUME NEW st \in [Tasks -> TaskStatus], NEW T, NEW new \in TaskStatus
    PROVE  UpdateStatus(st, T, new) \in [Tasks -> TaskStatus]
  BY DEF UpdateStatus

\* UpdateWorkflowStatus maps workflow statuses to workflow statuses.
LEMMA UpdateWorkflowStatusType ==
    ASSUME NEW ws \in [Workflows -> WorkflowStatus], NEW w \in Workflows,
           NEW new \in WorkflowStatus
    PROVE  UpdateWorkflowStatus(ws, w, new) \in [Workflows -> WorkflowStatus]
  BY DEF UpdateWorkflowStatus

\* pushJob keeps the scheduler's jobs a bag of tasks.
LEMMA PushJobType ==
    ASSUME NEW js \in [Tasks -> Nat], NEW T
    PROVE  pushJob(js, T) \in [Tasks -> Nat]
  BY DEF pushJob

\* markReadyTasks and finalizeWorkflowIfDone keep the types.
LEMMA MarkedType ==
    ASSUME NEW st \in [Tasks -> TaskStatus],
           NEW ws \in [Workflows -> WorkflowStatus], NEW w \in Workflows
    PROVE  /\ MarkedStatus(st, w) \in [Tasks -> TaskStatus]
           /\ MarkedWorkflow(ws, st, w) \in [Workflows -> WorkflowStatus]
           /\ finalizeWorkflowIfDone(ws, st, w) \in [Workflows -> WorkflowStatus]
<1>1. "READY" \in TaskStatus /\ "RUNNING" \in WorkflowStatus
  BY DEF TaskStatus, WorkflowStatus
<1>2. Verdict(st, w) \in WorkflowStatus
  BY DEF Verdict, WorkflowStatus
<1> QED
  BY <1>1, <1>2, UpdateStatusType, UpdateWorkflowStatusType
     DEF MarkedStatus, MarkedWorkflow, finalizeWorkflowIfDone

\* A notification is addressed to workers the tasks are assigned to.
LEMMA NotifyType ==
    ASSUME TypeOK, NEW refs \in SUBSET Tasks
    PROVE  notifyWorkersOfCancellation(refs) \in SUBSET CancelCall
  BY DEF notifyWorkersOfCancellation, TypeOK, CancelCall

\* The statuses after a report are statuses.
LEMMA ReportedType ==
    ASSUME TypeOK, NEW t \in Tasks, NEW s \in ReportStatus
    PROVE  Reported(t, s) \in [Tasks -> TaskStatus]
<1>1. s \in TaskStatus /\ "CANCELLED" \in TaskStatus
  BY DEF ReportStatus, TaskStatus
<1>2. UpdateStatus(status, {t}, s) \in [Tasks -> TaskStatus]
  BY <1>1, UpdateStatusType DEF TypeOK
<1> QED
  BY <1>1, <1>2, UpdateStatusType DEF Reported

\* Every step keeps the types.
LEMMA TypeStep == TypeOK /\ [Next]_vars => TypeOK'
<1> SUFFICES ASSUME TypeOK, [Next]_vars PROVE TypeOK'
  OBVIOUS
<1> USE GraphAssumption
<1>1. ASSUME NEW w \in Workflows, SubmitWorkflow(w) PROVE TypeOK'
  BY <1>1, MarkedType, PushJobType DEF SubmitWorkflow, TypeOK
<1>2. ASSUME NEW t \in Tasks, NEW s \in ReportStatus, OnTaskResponse(t, s)
      PROVE  TypeOK'
  <2> DEFINE w  == WorkflowOf[t]
             st == Reported(t, s)
             mw == MarkedWorkflow(wfStatus, st, w)
  <2>1. w \in Workflows /\ st \in [Tasks -> TaskStatus]
    BY ReportedType
  <2>2. /\ MarkedStatus(st, w) \in [Tasks -> TaskStatus]
        /\ mw \in [Workflows -> WorkflowStatus]
    BY <2>1, MarkedType DEF TypeOK
  <2>3. finalizeWorkflowIfDone(mw, MarkedStatus(st, w), w)
            \in [Workflows -> WorkflowStatus]
    BY <2>1, <2>2, MarkedType
  <2>4. result' \in [Tasks -> {"NONE", "SUCCEEDED", "FAILED"}]
    BY <1>2 DEF OnTaskResponse, TypeOK, ReportStatus
  <2> QED
    BY <1>2, <2>2, <2>3, <2>4, PushJobType DEF OnTaskResponse, TypeOK
<1>3. ASSUME NEW t \in Tasks, NEW wk \in Workers, OnTaskDispatched(t, wk)
      PROVE  TypeOK'
  <2>1. status' \in [Tasks -> TaskStatus]
    BY <1>3, UpdateStatusType DEF OnTaskDispatched, TypeOK, TaskStatus
  <2>2. jobs' \in [Tasks -> Nat]
    BY <1>3 DEF OnTaskDispatched, TypeOK
  <2> QED
    BY <1>3, <2>1, <2>2 DEF OnTaskDispatched, TypeOK
<1>4. ASSUME NEW w \in Workflows, CancelWorkflow(w) PROVE TypeOK'
  <2>1. status' \in [Tasks -> TaskStatus]
    BY <1>4, UpdateStatusType DEF CancelWorkflow, TypeOK, TaskStatus
  <2>2. wfStatus' \in [Workflows -> WorkflowStatus]
    BY <1>4, UpdateWorkflowStatusType DEF CancelWorkflow, TypeOK, WorkflowStatus
  <2>3. cancels' \in SUBSET CancelCall
    <3> DEFINE refs == {u \in {v \in TasksOf(w) : ~TaskIsFinished(status[v])} :
                            TaskOnWorker(status[u])}
    <3>1. refs \in SUBSET Tasks
      BY DEF TasksOf
    <3>2. cancels' = cancels \cup notifyWorkersOfCancellation(refs)
      BY <1>4 DEF CancelWorkflow
    <3> QED
      BY <3>1, <3>2, NotifyType DEF TypeOK
  <2> QED
    BY <1>4, <2>1, <2>2, <2>3 DEF CancelWorkflow, TypeOK
<1>5. ASSUME NEW t \in Tasks, CancelTask(t) PROVE TypeOK'
  <2> DEFINE st      == UpdateStatus(status, {t}, "CANCELLED")
             cascade == cancelDownstream(DependsOn, st, t)
             refs    == {r \in {t} \cup cascade : TaskOnWorker(status[r])}
  <2>1. "CANCELLED" \in TaskStatus
    BY DEF TaskStatus
  <2>2. st \in [Tasks -> TaskStatus]
    BY <2>1, UpdateStatusType DEF TypeOK
  <2>3. status' \in [Tasks -> TaskStatus]
    BY <1>5, <2>1, <2>2, UpdateStatusType DEF CancelTask
  <2>4. wfStatus' \in [Workflows -> WorkflowStatus]
    BY <1>5, <2>3, MarkedType DEF CancelTask, TypeOK
  <2>5. refs \in SUBSET Tasks
    BY DEF cancelDownstream
  <2>6. cancels' \in SUBSET CancelCall
    BY <1>5, <2>5, NotifyType DEF CancelTask, TypeOK
  <2> QED
    BY <1>5, <2>3, <2>4, <2>6 DEF CancelTask, TypeOK
<1>6. ASSUME NEW wk \in Workers, ReassignDeadWorkerTasks(wk) PROVE TypeOK'
  <2>1. status' \in [Tasks -> TaskStatus]
    BY <1>6, UpdateStatusType DEF ReassignDeadWorkerTasks, TypeOK, TaskStatus
  <2>2. jobs' \in [Tasks -> Nat]
    BY <1>6, PushJobType DEF ReassignDeadWorkerTasks, TypeOK
  <2> QED
    BY <1>6, <2>1, <2>2 DEF ReassignDeadWorkerTasks, TypeOK
<1>7. ASSUME NEW cc \in cancels, CancelCallEnds(cc) PROVE TypeOK'
  BY <1>7 DEF CancelCallEnds, TypeOK
<1>8. CASE UNCHANGED vars
  BY <1>8 DEF vars, TypeOK
<1> QED
  BY <1>1, <1>2, <1>3, <1>4, <1>5, <1>6, <1>7, <1>8 DEF Next

\* The initial state is well typed.
LEMMA TypeInit == Init => TypeOK
  BY DEF Init, TypeOK, TaskStatus, WorkflowStatus, CancelCall

\* Every variable of the engine stays in its type, whatever reports, callbacks,
\* cancellations and deaths arrive.
THEOREM TypeCorrect == Spec => []TypeOK
  BY TypeInit, TypeStep, PTL DEF Spec

-----------------------------------------------------------------------------
\* Facts about the task graph and the helpers.

\* The graph is acyclic, so every nonempty set of tasks has a member that
\* waits for no other member.
LEMMA RootExists ==
    ASSUME NEW S \in SUBSET Tasks, S # {}
    PROVE  \E t \in S : \A d \in DependsOn[t] : d \notin S
<1>1. PICK rank \in [Tasks -> 0..Cardinality(Tasks)] :
          \A t \in Tasks : \A d \in DependsOn[t] : rank[d] < rank[t]
  BY GraphAssumption
<1> DEFINE R == {rank[t] : t \in S}
<1>2. R \subseteq Nat /\ R # {}
  OBVIOUS
<1>3. PICK x \in R : \A y \in R : <<y, x>> \notin OpToRel(<, Nat)
  BY <1>2, NatLessThanWellFounded, WFMin
<1>4. \A y \in R : ~(y < x)
  BY <1>2, <1>3 DEF OpToRel
<1>5. PICK t \in S : rank[t] = x
  OBVIOUS
<1> QED
  BY <1>1, <1>4, <1>5, GraphAssumption

\* cancelDownstream is closed: it holds every task it may cancel that waits for
\* the root or for a member.
LEMMA CascadeIsClosed ==
    ASSUME NEW st, NEW root
    PROVE  CascadeClosed(DependsOn, st, root, cancelDownstream(DependsOn, st, root))
  BY DEF CascadeClosed, cancelDownstream

\* cancelDownstream is the least closed set.
LEMMA CascadeIsLeast ==
    ASSUME NEW st, NEW root, NEW S \in SUBSET Tasks,
           CascadeClosed(DependsOn, st, root, S)
    PROVE  cancelDownstream(DependsOn, st, root) \subseteq S
  BY GraphAssumption DEF cancelDownstream

\* Only tasks of the root's own workflow that may be cancelled, each of them
\* waiting for the root or for another member, are in the cascade.
LEMMA CascadeMembers ==
    ASSUME NEW st, NEW root \in Tasks,
           NEW u \in cancelDownstream(DependsOn, st, root)
    PROVE  /\ u \in Tasks
           /\ Cancellable(st[u])
           /\ WorkflowOf[u] = WorkflowOf[root]
           /\ \E d \in DependsOn[u] :
                 d = root \/ d \in cancelDownstream(DependsOn, st, root)
<1> DEFINE C == cancelDownstream(DependsOn, st, root)
           S == {x \in C : /\ Cancellable(st[x])
                           /\ WorkflowOf[x] = WorkflowOf[root]
                           /\ \E d \in DependsOn[x] : d = root \/ d \in C}
<1>1. C \subseteq Tasks
  BY GraphAssumption DEF cancelDownstream
<1>2. CascadeClosed(DependsOn, st, root, C)
  BY CascadeIsClosed
<1>3. CascadeClosed(DependsOn, st, root, S)
  <2> SUFFICES ASSUME NEW x \in Tasks, Cancellable(st[x]),
                      NEW d \in DependsOn[x], d = root \/ d \in S
               PROVE  x \in S
    BY GraphAssumption DEF CascadeClosed
  <2>1. x \in C
    BY <1>2, GraphAssumption DEF CascadeClosed
  <2>2. WorkflowOf[x] = WorkflowOf[root]
    BY GraphAssumption
  <2> QED
    BY <2>1, <2>2
<1>4. C \subseteq S
  BY <1>1, <1>3, CascadeIsLeast
<1> QED
  BY <1>1, <1>4

-----------------------------------------------------------------------------
\* The inductive invariant.  NoOrphans, DepsRespected, JobConservation,
\* Recoverable and WorkflowVerdict need each other and three more facts: nobody
\* asks for RETRYING, the engine has touched no task of a workflow that was not
\* submitted, and a submitted workflow with tasks has left PENDING.

NotRetrying == \A t \in Tasks : status[t] # "RETRYING"

Untouched ==
    /\ \A t \in Tasks : WorkflowOf[t] \notin workflows => status[t] = "PENDING"
    /\ \A w \in Workflows \ workflows : wfStatus[w] = "PENDING"

Started == \A w \in workflows : TasksOf(w) # {} => wfStatus[w] # "PENDING"

IInv ==
    /\ TypeOK
    /\ NotRetrying
    /\ Untouched
    /\ Started
    /\ DepsRespected
    /\ NoOrphans
    /\ JobConservation
    /\ Recoverable
    /\ WorkflowVerdict

\* What markReadyTasks does to each task.
LEMMA MarkEffect ==
    ASSUME NEW st \in [Tasks -> TaskStatus], NEW w \in Workflows,
           \A u \in Tasks : st[u] # "RETRYING"
    PROVE  /\ \A u \in Tasks : u \in recomputeReadyTasks(st, w) <=>
                  /\ WorkflowOf[u] = w
                  /\ st[u] = "PENDING"
                  /\ \A d \in DependsOn[u] : st[d] = "SUCCEEDED"
           /\ \A u \in Tasks : MarkedStatus(st, w)[u] =
                  IF u \in recomputeReadyTasks(st, w) THEN "READY" ELSE st[u]
<1>1. \A u \in Tasks : u \in recomputeReadyTasks(st, w) <=>
                  /\ WorkflowOf[u] = w
                  /\ st[u] = "PENDING"
                  /\ \A d \in DependsOn[u] : st[d] = "SUCCEEDED"
  BY DEF recomputeReadyTasks, TasksOf, TaskIsReady, AllDepsSucceeded
<1>2. TaskCanTransitTo("PENDING", "READY")
  BY DEF TaskCanTransitTo, taskStatusesGraph
<1> QED
  BY <1>1, <1>2 DEF MarkedStatus, UpdateStatus

\* t takes the status s and the tasks of C, which all wait for t, are cancelled
\* with it; when t ended badly, C leaves nothing behind that waits for t or for
\* a member of C.
TakesDown(st, t, s, C) ==
    /\ C \subseteq Tasks
    /\ \A u \in C : /\ u # t
                    /\ ~TaskIsFinished(status[u])
                    /\ WorkflowOf[u] = WorkflowOf[t]
                    /\ \E d \in DependsOn[u] : d = t \/ d \in C
    /\ s \in {"FAILED", "CANCELLED"} => \A u \in Tasks :
          u # t /\ ~TaskIsFinished(status[u])
              /\ (\E d \in DependsOn[u] : d = t \/ d \in C) => u \in C
    /\ s \notin {"FAILED", "CANCELLED"} => C = {}
    /\ \A u \in Tasks :
          st[u] = IF u = t THEN s ELSE IF u \in C THEN "CANCELLED" ELSE status[u]

\* A task that may end as FAILED or CANCELLED and its cascade: the effect on
\* the statuses of OnTaskResponse (a failure) and of CancelTask.
LEMMA CascadeEffect ==
    ASSUME TypeOK, NotRetrying, NEW t \in Tasks, ~TaskIsFinished(status[t]),
           NEW new \in {"FAILED", "CANCELLED"}, TaskCanTransitTo(status[t], new)
    PROVE  LET st == UpdateStatus(status, {t}, new)
               C  == cancelDownstream(DependsOn, st, t)
           IN  TakesDown(UpdateStatus(st, C, "CANCELLED"), t, new, C)
<1> DEFINE st == UpdateStatus(status, {t}, new)
           C  == cancelDownstream(DependsOn, st, t)
<1>1. \A u \in Tasks : st[u] = IF u = t THEN new ELSE status[u]
  BY DEF UpdateStatus, TypeOK
<1>2. TaskIsFinished(new)
  BY DEF TaskIsFinished
<1>3. \A u \in Tasks : Cancellable(st[u]) <=> u # t /\ ~TaskIsFinished(status[u])
  <2> TAKE u \in Tasks
  <2>1. CASE u = t
    BY <2>1, <1>1, <1>2 DEF Cancellable
  <2>2. CASE u # t
    <3>1. status[u] \in TaskStatus \ {"RETRYING"}
      BY DEF TypeOK, NotRetrying
    <3>2. ~TaskIsFinished(status[u]) => TaskCanTransitTo(status[u], "CANCELLED")
      BY <3>1 DEF TaskStatus, TaskIsFinished, TaskCanTransitTo, taskStatusesGraph
    <3> QED
      BY <2>2, <1>1, <3>2 DEF Cancellable
  <2> QED
    BY <2>1, <2>2
<1>4. \A u \in C : /\ u \in Tasks
                   /\ Cancellable(st[u])
                   /\ WorkflowOf[u] = WorkflowOf[t]
                   /\ \E d \in DependsOn[u] : d = t \/ d \in C
  BY CascadeMembers
<1>5. CascadeClosed(DependsOn, st, t, C)
  BY CascadeIsClosed
<1>6. \A u \in Tasks :
          Cancellable(st[u]) /\ (\E d \in DependsOn[u] : d = t \/ d \in C) => u \in C
  BY <1>5, GraphAssumption DEF CascadeClosed
<1>7. \A u \in Tasks : UpdateStatus(st, C, "CANCELLED")[u] =
                  IF u = t THEN new
                  ELSE IF u \in C THEN "CANCELLED" ELSE status[u]
  <2>1. DOMAIN st = Tasks
    BY DEF UpdateStatus, TypeOK
  <2>2. \A u \in C : TaskCanTransitTo(st[u], "CANCELLED") /\ u # t
    BY <1>3, <1>4 DEF Cancellable
  <2> QED
    BY <1>1, <2>1, <2>2 DEF UpdateStatus
<1> HIDE DEF C, st
<1> QED
  BY <1>3, <1>4, <1>6, <1>7 DEF TakesDown, C, st

\* What a report does to each task: nothing when it is refused, otherwise t was
\* on a worker and takes the reported status, with the cascade of a failure.
LEMMA ReportEffect ==
    ASSUME TypeOK, NotRetrying, NEW t \in Tasks, NEW s \in ReportStatus
    PROVE  \/ ~TaskCanTransitTo(status[t], s) /\ Reported(t, s) = status
           \/ /\ TaskCanTransitTo(status[t], s)
              /\ TaskOnWorker(status[t])
              /\ \E C \in SUBSET Tasks : TakesDown(Reported(t, s), t, s, C)
<1>1. CASE ~TaskCanTransitTo(status[t], s)
  <2>1. UpdateStatus(status, {t}, s) = status
    BY <1>1 DEF UpdateStatus, TypeOK
  <2> QED
    BY <1>1, <2>1 DEF Reported
<1>2. CASE TaskCanTransitTo(status[t], s)
  <2>1. status[t] \in TaskStatus \ {"RETRYING"}
    BY DEF TypeOK, NotRetrying
  <2>2. TaskOnWorker(status[t]) /\ ~TaskIsFinished(status[t])
    BY <1>2, <2>1
       DEF TaskStatus, ReportStatus, TaskCanTransitTo, taskStatusesGraph,
           TaskOnWorker, TaskIsFinished
  <2>3. CASE s = "FAILED"
    <3> DEFINE st == UpdateStatus(status, {t}, s)
               C  == cancelDownstream(DependsOn, st, t)
    <3>1. Reported(t, s) = UpdateStatus(st, C, "CANCELLED")
      BY <1>2, <2>3 DEF Reported
    <3>2. TakesDown(Reported(t, s), t, s, C)
      BY <1>2, <2>2, <2>3, <3>1, CascadeEffect
    <3>3. C \in SUBSET Tasks
      BY <3>2 DEF TakesDown
    <3> QED
      BY <1>2, <2>2, <3>2, <3>3
  <2>4. CASE s # "FAILED"
    <3>1. \A u \in Tasks : Reported(t, s)[u] = IF u = t THEN s ELSE status[u]
      BY <1>2, <2>4 DEF Reported, UpdateStatus, TypeOK
    <3>2. TakesDown(Reported(t, s), t, s, {})
      BY <2>4, <3>1 DEF TakesDown, ReportStatus
    <3> QED
      BY <1>2, <2>2, <3>2
  <2> QED
    BY <2>3, <2>4
<1> QED
  BY <1>1, <1>2

\* finalizeWorkflowIfDone makes a RUNNING workflow agree with its tasks.
LEMMA FinalizeAgrees ==
    ASSUME NEW ws \in [Workflows -> WorkflowStatus], NEW st, NEW w \in Workflows,
           ws[w] = "RUNNING", TasksOf(w) # {}
    PROVE  Agrees(finalizeWorkflowIfDone(ws, st, w), st, w)
<1>1. ~WorkflowIsFinished(ws[w])
  BY DEF WorkflowIsFinished
<1>2. CASE ~AllTasksFinished(st, TasksOf(w))
  <2>1. ~ \A t \in TasksOf(w) : st[t] = "SUCCEEDED"
    BY <1>2 DEF AllTasksFinished, TaskIsFinished
  <2> QED
    BY <1>1, <1>2, <2>1 DEF finalizeWorkflowIfDone, Agrees
<1>3. CASE AllTasksFinished(st, TasksOf(w))
  <2>1. Verdict(st, w) \in {"FAILED", "CANCELLED", "SUCCEEDED"}
    BY DEF Verdict
  <2>2. WorkflowCanTransitTo(ws[w], Verdict(st, w))
    BY <2>1 DEF WorkflowCanTransitTo, workflowStatusesGraph
  <2>3. finalizeWorkflowIfDone(ws, st, w)[w] = Verdict(st, w)
    BY <1>1, <1>3, <2>2 DEF finalizeWorkflowIfDone, UpdateWorkflowStatus
  <2>4. /\ Verdict(st, w) = "SUCCEEDED" <=> \A t \in TasksOf(w) : st[t] = "SUCCEEDED"
        /\ Verdict(st, w) = "FAILED" => HasFailedTask(st, TasksOf(w))
        /\ Verdict(st, w) = "CANCELLED" => HasCancelledTask(st, TasksOf(w))
    BY <1>3 DEF Verdict, HasFailedTask, HasCancelledTask, AllTasksFinished,
                TaskIsFinished
  <2> QED
    BY <1>3, <2>1, <2>3, <2>4 DEF Agrees, WorkflowIsFinished
<1> QED
  BY <1>2, <1>3

\* A step that leaves a workflow's status and tasks alone keeps the agreement.
LEMMA AgreesFrame ==
    ASSUME NEW w, Agrees(wfStatus, status, w), wfStatus'[w] = wfStatus[w],
           \A t \in TasksOf(w) : status'[t] = status[t]
    PROVE  Agrees(wfStatus', status', w)
  BY DEF Agrees, AllTasksFinished, HasFailedTask, HasCancelledTask

-----------------------------------------------------------------------------
\* Every action keeps the invariant.

\* DepsRespected survives a step in which successes stay and every task keeps
\* its status, is cancelled, was handed out before, or has its dependencies.
LEMMA DepsStep ==
    ASSUME DepsRespected,
           \A u \in Tasks : status[u] = "SUCCEEDED" => status'[u] = "SUCCEEDED",
           \A u \in Tasks : \/ status'[u] = status[u]
                            \/ status'[u] = "CANCELLED"
                            \/ status[u] = "READY"
                            \/ TaskOnWorker(status[u])
                            \/ \A d \in DependsOn[u] : status'[d] = "SUCCEEDED"
    PROVE  DepsRespected'
  BY GraphAssumption DEF DepsRespected, AllDepsSucceeded, TaskOnWorker

\* SubmitWorkflow keeps the invariant.
LEMMA SubmitKeeps ==
    ASSUME IInv, TypeOK', NEW w \in Workflows, SubmitWorkflow(w)
    PROVE  IInv'
<1> DEFINE R == recomputeReadyTasks(status, w)
<1> USE DEF IInv
<1>1. /\ \A u \in Tasks : u \in R <=>
             /\ WorkflowOf[u] = w
             /\ status[u] = "PENDING"
             /\ \A d \in DependsOn[u] : status[d] = "SUCCEEDED"
      /\ \A u \in Tasks : status'[u] = IF u \in R THEN "READY" ELSE status[u]
  BY MarkEffect DEF SubmitWorkflow, TypeOK, NotRetrying
<1>2. \A u \in TasksOf(w) : status[u] = "PENDING"
  BY DEF SubmitWorkflow, Untouched, TasksOf
<1>3. TasksOf(w) # {} => R # {}
  <2> SUFFICES ASSUME TasksOf(w) # {} PROVE R # {}
    OBVIOUS
  <2>1. PICK u \in TasksOf(w) : \A d \in DependsOn[u] : d \notin TasksOf(w)
    BY RootExists DEF TasksOf
  <2>2. DependsOn[u] = {}
    BY <2>1, GraphAssumption DEF TasksOf
  <2> QED
    BY <1>1, <1>2, <2>2 DEF TasksOf
<1>4. wfStatus[w] = "PENDING" /\ w \notin workflows
  BY DEF SubmitWorkflow, Untouched
<1>5. wfStatus' = IF R # {} THEN [wfStatus EXCEPT ![w] = "RUNNING"] ELSE wfStatus
  BY <1>4 DEF SubmitWorkflow, MarkedWorkflow, UpdateWorkflowStatus,
              WorkflowCanTransitTo, workflowStatusesGraph
<1>6. workflows' = workflows \cup {w}
  BY DEF SubmitWorkflow
<1>a. NotRetrying'
  BY <1>1 DEF NotRetrying
<1>b. Untouched'
  BY <1>1, <1>5, <1>6 DEF Untouched, TypeOK
<1>c. Started'
  BY <1>3, <1>5, <1>6 DEF Started, TypeOK, TasksOf
<1>d. DepsRespected'
  <2>1. \A u \in Tasks : status[u] = "SUCCEEDED" => status'[u] = "SUCCEEDED"
    BY <1>1
  <2>2. \A u \in R : \A d \in DependsOn[u] : status'[d] = "SUCCEEDED"
    BY <1>1, <2>1, GraphAssumption DEF recomputeReadyTasks, TasksOf
  <2> QED
    BY <1>1, <2>1, <2>2, DepsStep
<1>e. NoOrphans'
  <2> SUFFICES ASSUME NEW u \in Tasks, WorkflowOf[u] \in workflows',
                      status'[u] = "PENDING"
               PROVE  /\ \E d \in DependsOn[u] : status'[d] # "SUCCEEDED"
                      /\ \A d \in DependsOn[u] : status'[d] \notin {"FAILED", "CANCELLED"}
    BY DEF NoOrphans, AllDepsSucceeded
  <2>1. u \notin R /\ status[u] = "PENDING"
    BY <1>1
  <2>2. \A d \in DependsOn[u] : d \in Tasks /\ WorkflowOf[d] = WorkflowOf[u]
    BY GraphAssumption
  <2>3. CASE WorkflowOf[u] = w
    BY <2>1, <2>2, <2>3, <1>1, <1>2 DEF TasksOf
  <2>4. CASE WorkflowOf[u] # w
    BY <2>1, <2>2, <2>4, <1>1, <1>6 DEF NoOrphans, AllDepsSucceeded
  <2> QED
    BY <2>3, <2>4
<1>f. JobConservation'
  <2>1. \A u \in Tasks : jobs'[u] = IF u \in R THEN jobs[u] + 1 ELSE jobs[u]
    BY DEF SubmitWorkflow, pushJob
  <2> QED
    BY <1>1, <2>1 DEF JobConservation, TypeOK
<1>g. Recoverable'
  BY <1>1 DEF Recoverable, SubmitWorkflow, TaskOnWorker
<1>h. WorkflowVerdict'
  <2> SUFFICES ASSUME NEW x \in workflows', TasksOf(x) # {}
               PROVE  Agrees(wfStatus', status', x)
    BY DEF WorkflowVerdict, TasksOf
  <2>1. CASE x = w
    <3>1. PICK u \in TasksOf(w) : u \in R
      BY <1>1, <1>3, <2>1 DEF recomputeReadyTasks
    <3>2. status'[u] = "READY" /\ wfStatus'[w] = "RUNNING"
      BY <1>1, <1>5, <3>1 DEF TasksOf, TypeOK
    <3> QED
      BY <2>1, <3>1, <3>2 DEF Agrees, WorkflowIsFinished, AllTasksFinished,
                              TaskIsFinished
  <2>2. CASE x # w
    <3>1. x \in workflows /\ wfStatus'[x] = wfStatus[x]
      BY <2>2, <1>5, <1>6 DEF TypeOK
    <3>2. \A u \in TasksOf(x) : status'[u] = status[u]
      BY <2>2, <1>1 DEF TasksOf
    <3> QED
      BY <3>1, <3>2, AgreesFrame DEF WorkflowVerdict
  <2> QED
    BY <2>1, <2>2
<1> QED
  BY <1>a, <1>b, <1>c, <1>d, <1>e, <1>f, <1>g, <1>h

\* OnTaskResponse keeps the invariant.
LEMMA ResponseKeeps ==
    ASSUME IInv, TypeOK', NEW t \in Tasks, NEW s \in ReportStatus,
           OnTaskResponse(t, s)
    PROVE  IInv'
<1> DEFINE w  == WorkflowOf[t]
           st == Reported(t, s)
           R  == recomputeReadyTasks(st, w)
<1> USE DEF IInv
<1>1. w \in Workflows /\ w \in workflows /\ workflows' = workflows
  BY GraphAssumption DEF OnTaskResponse
<1>2. st \in [Tasks -> TaskStatus]
  BY ReportedType
\* The statuses after the report and its cascade, before markReadyTasks.
<1>3. \E C \in SUBSET Tasks :
         \/ C = {} /\ st = status
         \/ TaskOnWorker(status[t]) /\ TakesDown(st, t, s, C)
  BY ReportEffect
<1>4. PICK C \in SUBSET Tasks :
         \/ C = {} /\ st = status
         \/ TaskOnWorker(status[t]) /\ TakesDown(st, t, s, C)
  BY <1>3
<1>5. s \in {"RUNNING", "SUCCEEDED", "FAILED"}
  BY DEF ReportStatus
<1>6. \A u \in Tasks : st[u] # "RETRYING"
  BY <1>4, <1>5 DEF TakesDown, NotRetrying
<1>7. /\ \A u \in Tasks : u \in R <=>
             /\ WorkflowOf[u] = w
             /\ st[u] = "PENDING"
             /\ \A d \in DependsOn[u] : st[d] = "SUCCEEDED"
      /\ \A u \in Tasks : status'[u] = IF u \in R THEN "READY" ELSE st[u]
  BY <1>1, <1>2, <1>6, MarkEffect DEF OnTaskResponse
<1> HIDE DEF st, R
<1>8. \A u \in Tasks : WorkflowOf[u] # w => status'[u] = status[u]
  BY <1>4, <1>7 DEF TakesDown
<1>9. \A u \in Tasks : TaskIsFinished(status[u]) => st[u] = status[u]
  BY <1>4 DEF TakesDown, TaskOnWorker, TaskIsFinished
<1>10. TasksOf(w) # {} /\ wfStatus[w] # "PENDING"
  BY <1>1 DEF TasksOf, Started
<1>11. wfStatus' = finalizeWorkflowIfDone(wfStatus, status', w)
  BY <1>10 DEF OnTaskResponse, MarkedWorkflow, R, st
<1>12. \A x \in Workflows : x # w => wfStatus'[x] = wfStatus[x]
  BY <1>11 DEF finalizeWorkflowIfDone, UpdateWorkflowStatus, TypeOK
<1>a. NotRetrying'
  BY <1>6, <1>7 DEF NotRetrying
<1>b. Untouched'
  BY <1>1, <1>8, <1>12 DEF Untouched, TypeOK
<1>c. Started'
  <2>1. wfStatus'[w] # "PENDING"
    BY <1>1, <1>10, <1>11
       DEF finalizeWorkflowIfDone, UpdateWorkflowStatus, Verdict, TypeOK
  <2> QED
    BY <1>1, <1>12, <2>1 DEF Started, TypeOK, TasksOf
<1>d. DepsRespected'
  <2>1. \A u \in Tasks : st[u] = "SUCCEEDED" => status'[u] = "SUCCEEDED"
    BY <1>7
  <2>2. \A u \in Tasks : status[u] = "SUCCEEDED" => status'[u] = "SUCCEEDED"
    BY <1>9, <2>1 DEF TaskIsFinished
  <2>3. \A u \in R : u \in Tasks => \A d \in DependsOn[u] : status'[d] = "SUCCEEDED"
    BY <1>7, <2>1, GraphAssumption
  <2>4. \A u \in Tasks : \/ st[u] = status[u]
                         \/ st[u] = "CANCELLED"
                         \/ TaskOnWorker(status[u])
    BY <1>4 DEF TakesDown
  <2> QED
    BY <1>7, <2>2, <2>3, <2>4, DepsStep
<1>e. NoOrphans'
  <2> SUFFICES ASSUME NEW u \in Tasks, WorkflowOf[u] \in workflows,
                      status'[u] = "PENDING"
               PROVE  /\ \E d \in DependsOn[u] : status'[d] # "SUCCEEDED"
                      /\ \A d \in DependsOn[u] : status'[d] \notin {"FAILED", "CANCELLED"}
    BY <1>1 DEF NoOrphans, AllDepsSucceeded
  <2>1. u \notin R /\ st[u] = "PENDING"
    BY <1>7
  <2>2. status[u] = "PENDING"
    BY <2>1, <1>4, <1>5 DEF TakesDown
  <2>3. \A d \in DependsOn[u] : d \in Tasks /\ WorkflowOf[d] = WorkflowOf[u]
    BY GraphAssumption
  <2>4. /\ \E d \in DependsOn[u] : status[d] # "SUCCEEDED"
        /\ \A d \in DependsOn[u] : status[d] \notin {"FAILED", "CANCELLED"}
    BY <2>2 DEF NoOrphans, AllDepsSucceeded
  <2>5. CASE WorkflowOf[u] = w
    <3>1. \E d \in DependsOn[u] : status'[d] # "SUCCEEDED"
      BY <2>1, <2>3, <2>5, <1>7
    <3>2. ASSUME NEW d \in DependsOn[u] PROVE st[d] \notin {"FAILED", "CANCELLED"}
      <4>1. CASE C = {} /\ st = status
        BY <4>1, <2>4
      <4>2. CASE TaskOnWorker(status[t]) /\ TakesDown(st, t, s, C)
        <5>1. u # t /\ ~TaskIsFinished(status[u]) /\ u \notin C
          BY <4>2, <2>1, <2>2, <1>5 DEF TakesDown, TaskIsFinished
        <5>2. CASE s = "FAILED"
          BY <5>1, <5>2, <4>2, <2>3, <2>4 DEF TakesDown
        <5>3. CASE s # "FAILED"
          BY <5>3, <4>2, <2>3, <2>4, <1>5 DEF TakesDown
        <5> QED
          BY <5>2, <5>3
      <4> QED
        BY <1>4, <4>1, <4>2
    <3> QED
      BY <3>1, <3>2, <2>3, <1>7
  <2>6. CASE WorkflowOf[u] # w
    BY <2>3, <2>4, <2>6, <1>8
  <2> QED
    BY <2>5, <2>6
<1>f. JobConservation'
  <2>1. \A u \in Tasks : jobs'[u] = IF u \in R THEN jobs[u] + 1 ELSE jobs[u]
    BY DEF OnTaskResponse, pushJob, R, st
  <2>2. \A u \in Tasks : u \in R => st[u] = "PENDING"
    BY <1>7
  <2>3. \A u \in Tasks : \/ st[u] = status[u]
                         \/ st[u] = "CANCELLED"
                         \/ TaskOnWorker(status[u]) /\ st[u] = s
    BY <1>4 DEF TakesDown
  <2>4. ASSUME NEW u \in Tasks
        PROVE  jobs'[u] \in CASE status'[u] = "READY"     -> {1}
                              [] status'[u] = "CANCELLED" -> {0, 1}
                              [] OTHER                    -> {0}
    <3>1. jobs[u] \in CASE status[u] = "READY"     -> {1}
                        [] status[u] = "CANCELLED" -> {0, 1}
                        [] OTHER                   -> {0}
      BY DEF JobConservation
    <3>2. CASE u \in R
      <4>1. status[u] = "PENDING"
        BY <3>2, <2>2, <2>3, <1>5
      <4> QED
        BY <3>1, <3>2, <4>1, <2>1, <1>7
    <3>3. CASE u \notin R
      <4>1. jobs'[u] = jobs[u] /\ status'[u] = st[u]
        BY <3>3, <2>1, <1>7
      <4>2. CASE st[u] = status[u]
        BY <4>1, <4>2, <3>1
      <4>3. CASE st[u] = "CANCELLED"
        BY <4>1, <4>3, <3>1
      <4>4. CASE TaskOnWorker(status[u]) /\ st[u] = s
        BY <4>1, <4>4, <3>1, <1>5 DEF TaskOnWorker
      <4> QED
        BY <2>3, <4>2, <4>3, <4>4
    <3> QED
      BY <3>2, <3>3
  <2> QED
    BY <2>4 DEF JobConservation
<1>g. Recoverable'
  <2>1. \A u \in Tasks : TaskOnWorker(status'[u]) => TaskOnWorker(status[u])
    BY <1>4, <1>5, <1>7 DEF TakesDown, TaskOnWorker
  <2> QED
    BY <2>1 DEF Recoverable, OnTaskResponse
<1>h. WorkflowVerdict'
  <2> SUFFICES ASSUME NEW x \in workflows, TasksOf(x) # {}
               PROVE  Agrees(wfStatus', status', x)
    BY <1>1 DEF WorkflowVerdict, TasksOf
  <2>1. x \in Workflows /\ Agrees(wfStatus, status, x)
    BY DEF WorkflowVerdict, TypeOK
  <2>2. CASE x # w
    BY <2>1, <2>2, <1>8, <1>12, AgreesFrame DEF TasksOf
  <2>3. CASE x = w /\ wfStatus[w] = "RUNNING"
    BY <2>3, <1>1, <1>10, <1>11, FinalizeAgrees DEF TypeOK
  <2>4. CASE x = w /\ wfStatus[w] # "RUNNING"
    <3>1. WorkflowIsFinished(wfStatus[w])
      BY <2>4, <1>1, <1>10 DEF TypeOK, WorkflowStatus, WorkflowIsFinished
    <3>2. \A u \in TasksOf(w) : TaskIsFinished(status[u])
      BY <2>1, <2>4, <3>1 DEF Agrees, AllTasksFinished
    <3>3. \A u \in TasksOf(w) : status'[u] = status[u]
      BY <3>2, <1>7, <1>9 DEF TasksOf, TaskIsFinished
    <3>4. wfStatus' = wfStatus
      BY <3>1, <1>11 DEF finalizeWorkflowIfDone
    <3> QED
      BY <2>1, <2>4, <3>3, <3>4, AgreesFrame
  <2> QED
    BY <2>2, <2>3, <2>4
<1> QED
  BY <1>a, <1>b, <1>c, <1>d, <1>e, <1>f, <1>g, <1>h

\* OnTaskDispatched keeps the invariant.
LEMMA DispatchedKeeps ==
    ASSUME IInv, TypeOK', NEW t \in Tasks, NEW wk \in Workers,
           OnTaskDispatched(t, wk)
    PROVE  IInv'
<1> USE DEF IInv
<1>1. jobs[t] \in Nat /\ jobs[t] > 0 /\ jobs'[t] = jobs[t] - 1
  BY DEF OnTaskDispatched, TypeOK
<1>2. status[t] \in {"READY", "CANCELLED"}
  BY <1>1 DEF JobConservation
<1>3. \A u \in Tasks : status'[u] =
          IF u = t /\ status[t] = "READY" THEN "DISPATCHED" ELSE status[u]
  BY <1>2 DEF OnTaskDispatched, UpdateStatus, TypeOK, TaskCanTransitTo,
              taskStatusesGraph
<1>4. /\ \A u \in Tasks : u # t => /\ jobs'[u] = jobs[u]
                                   /\ assignedTo'[u] = assignedTo[u]
      /\ assignedTo'[t] = wk
  BY DEF OnTaskDispatched, TypeOK
<1>5. workflows' = workflows /\ wfStatus' = wfStatus
  BY DEF OnTaskDispatched
<1>a. NotRetrying'
  BY <1>3 DEF NotRetrying
<1>b. Untouched'
  BY <1>2, <1>3, <1>5 DEF Untouched
<1>c. Started'
  BY <1>5 DEF Started, TasksOf
<1>d. DepsRespected'
  BY <1>3, DepsStep
<1>e. NoOrphans'
  <2>1. \A d \in Tasks :
            /\ status'[d] \in {"SUCCEEDED", "FAILED", "CANCELLED"}
                   \/ status[d] \in {"SUCCEEDED", "FAILED", "CANCELLED"}
                 => status'[d] = status[d]
            /\ status'[d] = "PENDING" => status[d] = "PENDING"
    BY <1>3
  <2> QED
    BY <1>5, <2>1, GraphAssumption DEF NoOrphans, AllDepsSucceeded
<1>f. JobConservation'
  BY <1>1, <1>2, <1>3, <1>4 DEF JobConservation
<1>g. Recoverable'
  BY <1>3, <1>4 DEF Recoverable
<1>h. WorkflowVerdict'
  <2> SUFFICES ASSUME NEW x \in workflows, TasksOf(x) # {}
               PROVE  Agrees(wfStatus', status', x)
    BY <1>5 DEF WorkflowVerdict, TasksOf
  <2>1. Agrees(wfStatus, status, x)
    BY DEF WorkflowVerdict
  <2>2. \A u \in TasksOf(x) :
            /\ TaskIsFinished(status'[u]) <=> TaskIsFinished(status[u])
            /\ \A q \in {"SUCCEEDED", "FAILED", "CANCELLED"} :
                  status'[u] = q <=> status[u] = q
    BY <1>3 DEF TasksOf, TaskIsFinished
  <2> QED
    BY <1>5, <2>1, <2>2 DEF Agrees, AllTasksFinished, HasFailedTask,
                            HasCancelledTask
<1> QED
  BY <1>a, <1>b, <1>c, <1>d, <1>e, <1>f, <1>g, <1>h

\* ReassignDeadWorkerTasks keeps the invariant.
LEMMA ReassignKeeps ==
    ASSUME IInv, TypeOK', NEW wk \in Workers, ReassignDeadWorkerTasks(wk)
    PROVE  IInv'
<1> USE DEF IInv
<1> DEFINE lost == {t \in Tasks : /\ WorkflowOf[t] \in workflows
                                  /\ assignedTo[t] = wk
                                  /\ TaskOnWorker(status[t])}
<1>1. \A u \in lost : TaskCanTransitTo(status[u], "READY")
  BY DEF TaskOnWorker, TaskCanTransitTo, taskStatusesGraph
<1>2. \A u \in Tasks :
          /\ status'[u] = IF u \in lost THEN "READY" ELSE status[u]
          /\ jobs'[u] = IF u \in lost THEN jobs[u] + 1 ELSE jobs[u]
          /\ assignedTo'[u] = IF u \in lost THEN NoWorker ELSE assignedTo[u]
  BY <1>1 DEF ReassignDeadWorkerTasks, UpdateStatus, pushJob, TypeOK
<1>3. workflows' = workflows /\ wfStatus' = wfStatus
  BY DEF ReassignDeadWorkerTasks
<1>4. \A u \in Tasks : u \in lost => TaskOnWorker(status[u])
                                     /\ WorkflowOf[u] \in workflows
  OBVIOUS
<1> HIDE DEF lost
<1>a. NotRetrying'
  BY <1>2 DEF NotRetrying
<1>b. Untouched'
  BY <1>2, <1>3, <1>4 DEF Untouched
<1>c. Started'
  BY <1>3 DEF Started, TasksOf
<1>d. DepsRespected'
  <2>1. \A u \in Tasks : status[u] = "SUCCEEDED" => status'[u] = "SUCCEEDED"
    BY <1>2, <1>4 DEF TaskOnWorker
  <2> QED
    BY <1>2, <1>4, <2>1, DepsStep
<1>e. NoOrphans'
  <2>1. \A d \in Tasks :
            /\ status'[d] \in {"SUCCEEDED", "FAILED", "CANCELLED"}
                   \/ status[d] \in {"SUCCEEDED", "FAILED", "CANCELLED"}
                 => status'[d] = status[d]
            /\ status'[d] = "PENDING" => status[d] = "PENDING"
    BY <1>2, <1>4 DEF TaskOnWorker
  <2> QED
    BY <1>3, <2>1, GraphAssumption DEF NoOrphans, AllDepsSucceeded
<1>f. JobConservation'
  <2>1. \A u \in Tasks : u \in lost => jobs[u] = 0
    BY <1>4 DEF JobConservation, TaskOnWorker
  <2> QED
    BY <1>2, <2>1 DEF JobConservation
<1>g. Recoverable'
  BY <1>2 DEF Recoverable, TaskOnWorker
<1>h. WorkflowVerdict'
  <2> SUFFICES ASSUME NEW x \in workflows, TasksOf(x) # {}
               PROVE  Agrees(wfStatus', status', x)
    BY <1>3 DEF WorkflowVerdict, TasksOf
  <2>1. Agrees(wfStatus, status, x)
    BY DEF WorkflowVerdict
  <2>2. \A u \in TasksOf(x) :
            /\ TaskIsFinished(status'[u]) <=> TaskIsFinished(status[u])
            /\ \A q \in {"SUCCEEDED", "FAILED", "CANCELLED"} :
                  status'[u] = q <=> status[u] = q
    BY <1>2, <1>4 DEF TasksOf, TaskIsFinished, TaskOnWorker
  <2> QED
    BY <1>3, <2>1, <2>2 DEF Agrees, AllTasksFinished, HasFailedTask,
                            HasCancelledTask
<1> QED
  BY <1>a, <1>b, <1>c, <1>d, <1>e, <1>f, <1>g, <1>h

\* CancelWorkflow keeps the invariant.
LEMMA CancelWorkflowKeeps ==
    ASSUME IInv, TypeOK', NEW w \in Workflows, CancelWorkflow(w)
    PROVE  IInv'
<1> USE DEF IInv
<1>1. workflows' = workflows /\ w \in workflows /\ jobs' = jobs
      /\ assignedTo' = assignedTo
  BY DEF CancelWorkflow
<1>2. \A u \in Tasks : ~TaskIsFinished(status[u]) =>
                           TaskCanTransitTo(status[u], "CANCELLED")
  BY DEF TypeOK, NotRetrying, TaskStatus, TaskIsFinished, TaskCanTransitTo,
         taskStatusesGraph
<1>3. \A u \in Tasks : status'[u] =
          IF WorkflowOf[u] = w /\ ~TaskIsFinished(status[u])
          THEN "CANCELLED" ELSE status[u]
  BY <1>2 DEF CancelWorkflow, UpdateStatus, TasksOf, TypeOK
<1>4. wfStatus' = UpdateWorkflowStatus(wfStatus, w, "CANCELLED")
  BY DEF CancelWorkflow
<1>5. \A x \in Workflows : x # w => wfStatus'[x] = wfStatus[x]
  BY <1>4 DEF UpdateWorkflowStatus, TypeOK
<1>a. NotRetrying'
  BY <1>3 DEF NotRetrying
<1>b. Untouched'
  BY <1>1, <1>3, <1>5 DEF Untouched
<1>c. Started'
  <2>1. TasksOf(w) # {} => wfStatus'[w] # "PENDING"
    BY <1>1, <1>4 DEF Started, UpdateWorkflowStatus, TypeOK
  <2> QED
    BY <1>1, <1>5, <2>1 DEF Started, TasksOf, TypeOK
<1>d. DepsRespected'
  <2>1. \A u \in Tasks : status[u] = "SUCCEEDED" => status'[u] = "SUCCEEDED"
    BY <1>3 DEF TaskIsFinished
  <2> QED
    BY <1>3, <2>1, DepsStep
<1>e. NoOrphans'
  <2>1. \A u \in Tasks : status'[u] = "PENDING" =>
            status[u] = "PENDING" /\ WorkflowOf[u] # w
    BY <1>3 DEF TaskIsFinished
  <2>2. \A u \in Tasks : WorkflowOf[u] # w => status'[u] = status[u]
    BY <1>3
  <2> QED
    BY <1>1, <2>1, <2>2, GraphAssumption DEF NoOrphans, AllDepsSucceeded
<1>f. JobConservation'
  <2> SUFFICES ASSUME NEW u \in Tasks
               PROVE  jobs[u] \in CASE status'[u] = "READY"     -> {1}
                                    [] status'[u] = "CANCELLED" -> {0, 1}
                                    [] OTHER                    -> {0}
    BY <1>1 DEF JobConservation
  <2>1. jobs[u] \in CASE status[u] = "READY"     -> {1}
                      [] status[u] = "CANCELLED" -> {0, 1}
                      [] OTHER                   -> {0}
    BY DEF JobConservation
  <2> QED
    BY <1>3, <2>1
<1>g. Recoverable'
  BY <1>1, <1>3 DEF Recoverable, TaskOnWorker
<1>h. WorkflowVerdict'
  <2> SUFFICES ASSUME NEW x \in workflows, TasksOf(x) # {}
               PROVE  Agrees(wfStatus', status', x)
    BY <1>1 DEF WorkflowVerdict, TasksOf
  <2>1. x \in Workflows /\ Agrees(wfStatus, status, x)
    BY DEF WorkflowVerdict, TypeOK
  <2>2. CASE x # w
    BY <2>1, <2>2, <1>3, <1>5, AgreesFrame DEF TasksOf
  <2>3. CASE x = w /\ WorkflowIsFinished(wfStatus[w])
    <3>1. \A u \in TasksOf(w) : TaskIsFinished(status[u])
      BY <2>1, <2>3 DEF Agrees, AllTasksFinished
    <3>2. \A u \in TasksOf(w) : status'[u] = status[u]
      BY <3>1, <1>3 DEF TasksOf
    <3>3. wfStatus'[w] = wfStatus[w]
      BY <2>3, <1>4 DEF UpdateWorkflowStatus, WorkflowCanTransitTo,
                        workflowStatusesGraph, WorkflowIsFinished
    <3> QED
      BY <2>1, <2>3, <3>2, <3>3, AgreesFrame
  <2>4. CASE x = w /\ ~WorkflowIsFinished(wfStatus[w])
    <3>1. wfStatus'[w] = "CANCELLED"
      BY <2>4, <1>4 DEF UpdateWorkflowStatus, WorkflowCanTransitTo, TypeOK,
                 workflowStatusesGraph, WorkflowIsFinished, WorkflowStatus
    <3>2. PICK u \in TasksOf(w) : ~TaskIsFinished(status[u])
      BY <2>1, <2>4 DEF Agrees, AllTasksFinished
    <3>3. status'[u] = "CANCELLED" /\ u \in TasksOf(w)
      BY <3>2, <1>3 DEF TasksOf
    <3>4. \A v \in TasksOf(w) : TaskIsFinished(status'[v])
      BY <1>3 DEF TasksOf, TaskIsFinished
    <3> QED
      BY <2>4, <3>1, <3>3, <3>4 DEF Agrees, WorkflowIsFinished, AllTasksFinished,
                                    HasFailedTask, HasCancelledTask
  <2> QED
    BY <2>2, <2>3, <2>4
<1> QED
  BY <1>a, <1>b, <1>c, <1>d, <1>e, <1>f, <1>g, <1>h

\* CancelTask keeps the invariant.
LEMMA CancelTaskKeeps ==
    ASSUME IInv, TypeOK', NEW t \in Tasks, CancelTask(t)
    PROVE  IInv'
<1> USE DEF IInv
<1> DEFINE w  == WorkflowOf[t]
           st == UpdateStatus(status, {t}, "CANCELLED")
           C  == cancelDownstream(DependsOn, st, t)
<1>1. w \in Workflows /\ w \in workflows /\ workflows' = workflows /\ jobs' = jobs
      /\ assignedTo' = assignedTo /\ ~TaskIsFinished(status[t])
  BY GraphAssumption DEF CancelTask
<1>2. TaskCanTransitTo(status[t], "CANCELLED")
  BY <1>1 DEF TypeOK, NotRetrying, TaskStatus, TaskIsFinished, TaskCanTransitTo,
              taskStatusesGraph
<1>3. TakesDown(status', t, "CANCELLED", C)
  BY <1>1, <1>2, CascadeEffect DEF CancelTask
<1> HIDE DEF C
<1>4. \A u \in Tasks : status'[u] =
          IF u = t \/ u \in C THEN "CANCELLED" ELSE status[u]
  BY <1>3 DEF TakesDown
<1>5. \A u \in Tasks : u = t \/ u \in C =>
          ~TaskIsFinished(status[u]) /\ WorkflowOf[u] = w
  BY <1>1, <1>3 DEF TakesDown
<1>6. \A u \in Tasks : WorkflowOf[u] # w => status'[u] = status[u]
  BY <1>4, <1>5
<1>7. TasksOf(w) # {} /\ wfStatus[w] = "RUNNING"
  <2>1. t \in TasksOf(w)
    BY DEF TasksOf
  <2>2. ~WorkflowIsFinished(wfStatus[w]) /\ wfStatus[w] # "PENDING"
    BY <1>1, <2>1 DEF Started, WorkflowVerdict, Agrees, AllTasksFinished
  <2> QED
    BY <1>1, <2>1, <2>2 DEF TypeOK, WorkflowStatus, WorkflowIsFinished
<1>8. wfStatus' = finalizeWorkflowIfDone(wfStatus, status', w)
  BY DEF CancelTask
<1>9. \A x \in Workflows : x # w => wfStatus'[x] = wfStatus[x]
  BY <1>8 DEF finalizeWorkflowIfDone, UpdateWorkflowStatus, TypeOK
<1>a. NotRetrying'
  BY <1>4 DEF NotRetrying
<1>b. Untouched'
  BY <1>1, <1>6, <1>9 DEF Untouched
<1>c. Started'
  <2>1. wfStatus'[w] # "PENDING"
    BY <1>1, <1>7, <1>8 DEF finalizeWorkflowIfDone, UpdateWorkflowStatus,
                            Verdict, TypeOK
  <2> QED
    BY <1>1, <1>9, <2>1 DEF Started, TasksOf, TypeOK
<1>d. DepsRespected'
  <2>1. \A u \in Tasks : status[u] = "SUCCEEDED" => status'[u] = "SUCCEEDED"
    BY <1>4, <1>5 DEF TaskIsFinished
  <2> QED
    BY <1>4, <2>1, DepsStep
<1>e. NoOrphans'
  <2> SUFFICES ASSUME NEW u \in Tasks, WorkflowOf[u] \in workflows,
                      status'[u] = "PENDING"
               PROVE  /\ \E d \in DependsOn[u] : status'[d] # "SUCCEEDED"
                      /\ \A d \in DependsOn[u] : status'[d] \notin {"FAILED", "CANCELLED"}
    BY <1>1 DEF NoOrphans, AllDepsSucceeded
  <2>1. status[u] = "PENDING" /\ u # t /\ u \notin C
    BY <1>4
  <2>2. \A d \in DependsOn[u] : d \in Tasks /\ d # t /\ d \notin C
    BY <2>1, <1>3, GraphAssumption DEF TakesDown, TaskIsFinished
  <2> QED
    BY <2>1, <2>2, <1>4 DEF NoOrphans, AllDepsSucceeded
<1>f. JobConservation'
  <2> SUFFICES ASSUME NEW u \in Tasks
               PROVE  jobs[u] \in CASE status'[u] = "READY"     -> {1}
                                    [] status'[u] = "CANCELLED" -> {0, 1}
                                    [] OTHER                    -> {0}
    BY <1>1 DEF JobConservation
  <2>1. jobs[u] \in CASE status[u] = "READY"     -> {1}
                      [] status[u] = "CANCELLED" -> {0, 1}
                      [] OTHER                   -> {0}
    BY DEF JobConservation
  <2> QED
    BY <1>4, <2>1
<1>g. Recoverable'
  BY <1>1, <1>4 DEF Recoverable, TaskOnWorker
<1>h. WorkflowVerdict'
  <2> SUFFICES ASSUME NEW x \in workflows, TasksOf(x) # {}
               PROVE  Agrees(wfStatus', status', x)
    BY <1>1 DEF WorkflowVerdict, TasksOf
  <2>1. x \in Workflows /\ Agrees(wfStatus, status, x)
    BY DEF WorkflowVerdict, TypeOK
  <2>2. CASE x # w
    BY <2>1, <2>2, <1>6, <1>9, AgreesFrame DEF TasksOf
  <2>3. CASE x = w
    BY <2>3, <1>1, <1>7, <1>8, FinalizeAgrees DEF TypeOK
  <2> QED
    BY <2>2, <2>3
<1> QED
  BY <1>a, <1>b, <1>c, <1>d, <1>e, <1>f, <1>g, <1>h

\* The invariant holds initially.
LEMMA InvInit == Init => IInv
<1> SUFFICES ASSUME Init PROVE IInv
  OBVIOUS
<1>1. TypeOK
  BY TypeInit
<1> QED
  BY <1>1 DEF Init, IInv, NotRetrying, Untouched, Started, DepsRespected, NoOrphans,
              JobConservation, Recoverable, WorkflowVerdict, TaskOnWorker

\* Every step keeps the invariant.
LEMMA InvStep == IInv /\ [Next]_vars => IInv'
<1> SUFFICES ASSUME IInv, [Next]_vars PROVE IInv'
  OBVIOUS
<1>1. TypeOK'
  BY TypeStep DEF IInv
<1>2. CASE Next
  <2>1. ASSUME NEW cc \in cancels, CancelCallEnds(cc) PROVE IInv'
    BY <2>1, <1>1 DEF CancelCallEnds, IInv, NotRetrying, Untouched, Started,
         DepsRespected, NoOrphans, JobConservation, Recoverable, WorkflowVerdict,
         TasksOf
  <2> QED
    BY <1>1, <1>2, <2>1, SubmitKeeps, ResponseKeeps, DispatchedKeeps,
       CancelWorkflowKeeps, CancelTaskKeeps, ReassignKeeps DEF Next
<1>3. CASE UNCHANGED vars
  BY <1>1, <1>3 DEF vars, IInv, NotRetrying, Untouched, Started, DepsRespected,
       NoOrphans, JobConservation, Recoverable, WorkflowVerdict, TasksOf
<1> QED
  BY <1>2, <1>3

\* The inductive invariant holds in every reachable state.
THEOREM InvCorrect == Spec => []IInv
  BY InvInit, InvStep, PTL DEF Spec

-----------------------------------------------------------------------------
\* The results.

\* The inductive invariant rules out a stall: among the unfinished tasks of the
\* workflow, one that waits for no other unfinished task cannot be PENDING.
LEMMA InvNeverStalls == IInv => NeverStalls
<1> SUFFICES ASSUME IInv, NEW w \in workflows, TasksOf(w) # {},
                    ~WorkflowIsFinished(wfStatus[w])
             PROVE  \E t \in TasksOf(w) : status[t] \in {"READY", "DISPATCHED", "RUNNING"}
  BY DEF NeverStalls
<1> USE DEF IInv
<1> DEFINE S == {t \in TasksOf(w) : ~TaskIsFinished(status[t])}
<1>1. S # {} /\ S \in SUBSET Tasks
  BY DEF WorkflowVerdict, Agrees, AllTasksFinished, TasksOf
<1>2. PICK t \in S : \A d \in DependsOn[t] : d \notin S
  BY <1>1, RootExists
<1>3. t \in Tasks /\ WorkflowOf[t] = w /\ ~TaskIsFinished(status[t])
  BY <1>2 DEF TasksOf
<1>4. \A d \in DependsOn[t] : TaskIsFinished(status[d])
  BY <1>2, <1>3, GraphAssumption DEF TasksOf
<1>5. status[t] # "PENDING"
  BY <1>3, <1>4 DEF NoOrphans, AllDepsSucceeded, TaskIsFinished
<1>6. status[t] \in {"READY", "DISPATCHED", "RUNNING"}
  BY <1>3, <1>5 DEF TypeOK, TaskStatus, NotRetrying, TaskIsFinished
<1> QED
  BY <1>2, <1>6

\* No task is handed out before its dependencies succeeded, for every task
\* graph and every order of reports, cancellations and worker deaths.
THEOREM DepsRespectedCorrect == Spec => []DepsRespected
  BY InvCorrect, PTL DEF IInv

\* No task is left waiting for one that failed or was cancelled, or behind
\* dependencies that have all succeeded.
THEOREM NoOrphansCorrect == Spec => []NoOrphans
  BY InvCorrect, PTL DEF IInv

\* Every READY task is in the scheduler's hands exactly once.
THEOREM JobConservationCorrect == Spec => []JobConservation
  BY InvCorrect, PTL DEF IInv

\* Every task on a worker names it.
THEOREM RecoverableCorrect == Spec => []Recoverable
  BY InvCorrect, PTL DEF IInv

\* The status of every workflow with tasks agrees with its tasks.
THEOREM WorkflowVerdictCorrect == Spec => []WorkflowVerdict
  BY InvCorrect, PTL DEF IInv

\* An unfinished workflow always has a task that the scheduler or a worker
\* will bring forward.
THEOREM NeverStallsCorrect == Spec => []NeverStalls
  BY InvCorrect, InvNeverStalls, PTL

\* From a state of the invariant, no step changes what has ended.
LEMMA FinalStep ==
    ASSUME IInv, [Next]_vars
    PROVE  /\ \A t \in Tasks : TaskIsFinished(status[t]) =>
                  status'[t] = status[t] /\ result'[t] = result[t]
           /\ \A w \in Workflows : WorkflowIsFinished(wfStatus[w]) =>
                  wfStatus'[w] = wfStatus[w]
<1> USE DEF IInv
<1>1. \A q, new : TaskIsFinished(q) /\ new \in {"READY", "DISPATCHED", "RUNNING",
                     "SUCCEEDED", "FAILED", "CANCELLED"} => ~TaskCanTransitTo(q, new)
  BY DEF TaskIsFinished, TaskCanTransitTo, taskStatusesGraph
<1>2. \A q, new : WorkflowIsFinished(q) => ~WorkflowCanTransitTo(q, new)
  BY DEF WorkflowIsFinished, WorkflowCanTransitTo, workflowStatusesGraph
<1>3. \A st \in [Tasks -> TaskStatus] : \A T :
        \A new \in {"READY", "DISPATCHED", "RUNNING", "SUCCEEDED", "FAILED", "CANCELLED"} :
          \A t \in Tasks : TaskIsFinished(st[t]) =>
              UpdateStatus(st, T, new)[t] = st[t]
  BY <1>1 DEF UpdateStatus
<1>4. \A ws \in [Workflows -> WorkflowStatus] : \A x, new :
          \A w \in Workflows : WorkflowIsFinished(ws[w]) =>
              UpdateWorkflowStatus(ws, x, new)[w] = ws[w]
  BY <1>2 DEF UpdateWorkflowStatus
<1>5. ASSUME NEW w \in Workflows, SubmitWorkflow(w)
      PROVE  /\ \A t \in Tasks : TaskIsFinished(status[t]) => status'[t] = status[t]
             /\ \A x \in Workflows : WorkflowIsFinished(wfStatus[x]) =>
                    wfStatus'[x] = wfStatus[x]
             /\ result' = result
  BY <1>3, <1>4, <1>5 DEF SubmitWorkflow, MarkedStatus, MarkedWorkflow, TypeOK
<1>6. ASSUME NEW t \in Tasks, NEW s \in ReportStatus, OnTaskResponse(t, s)
      PROVE  /\ \A u \in Tasks : TaskIsFinished(status[u]) =>
                    status'[u] = status[u] /\ result'[u] = result[u]
             /\ \A x \in Workflows : WorkflowIsFinished(wfStatus[x]) =>
                    wfStatus'[x] = wfStatus[x]
  <2> DEFINE w  == WorkflowOf[t]
             st == Reported(t, s)
  <2>1. st \in [Tasks -> TaskStatus] /\ w \in Workflows
    BY ReportedType, GraphAssumption
  <2>2. \A u \in Tasks : TaskIsFinished(status[u]) => st[u] = status[u]
    BY ReportEffect DEF TakesDown, TaskOnWorker, TaskIsFinished
  <2>3. \A u \in Tasks : TaskIsFinished(status[u]) => status'[u] = status[u]
    BY <1>3, <1>6, <2>1, <2>2 DEF OnTaskResponse, MarkedStatus
  <2>4. \A u \in Tasks : TaskIsFinished(status[u]) => result'[u] = result[u]
    BY <1>1, <1>6 DEF OnTaskResponse, ReportStatus, TypeOK
  <2>5. w \in workflows /\ TasksOf(w) # {}
    BY <1>6 DEF OnTaskResponse, TasksOf
  <2>6. MarkedWorkflow(wfStatus, st, w) = wfStatus
    BY <2>5 DEF Started, MarkedWorkflow
  <2>7. wfStatus' = finalizeWorkflowIfDone(wfStatus, status', w)
    BY <1>6, <2>6 DEF OnTaskResponse
  <2>8. \A x \in Workflows : WorkflowIsFinished(wfStatus[x]) =>
            wfStatus'[x] = wfStatus[x]
    BY <1>4, <2>7 DEF finalizeWorkflowIfDone, TypeOK
  <2> QED
    BY <2>3, <2>4, <2>8
<1>7. ASSUME NEW t \in Tasks, NEW wk \in Workers, OnTaskDispatched(t, wk)
      PROVE  /\ \A u \in Tasks : TaskIsFinished(status[u]) => status'[u] = status[u]
             /\ wfStatus' = wfStatus /\ result' = result
  BY <1>3, <1>7 DEF OnTaskDispatched, TypeOK
<1>8. ASSUME NEW w \in Workflows, CancelWorkflow(w)
      PROVE  /\ \A u \in Tasks : TaskIsFinished(status[u]) => status'[u] = status[u]
             /\ \A x \in Workflows : WorkflowIsFinished(wfStatus[x]) =>
                    wfStatus'[x] = wfStatus[x]
             /\ result' = result
  BY <1>3, <1>4, <1>8 DEF CancelWorkflow, TypeOK
<1>9. ASSUME NEW t \in Tasks, CancelTask(t)
      PROVE  /\ \A u \in Tasks : TaskIsFinished(status[u]) => status'[u] = status[u]
             /\ \A x \in Workflows : WorkflowIsFinished(wfStatus[x]) =>
                    wfStatus'[x] = wfStatus[x]
             /\ result' = result
  <2> DEFINE st == UpdateStatus(status, {t}, "CANCELLED")
  <2>1. st \in [Tasks -> TaskStatus]
    BY UpdateStatusType DEF TypeOK, TaskStatus
  <2>2. \A u \in Tasks : TaskIsFinished(status[u]) => st[u] = status[u]
    BY <1>3 DEF TypeOK
  <2> HIDE DEF st
  <2>3. \A u \in Tasks : TaskIsFinished(status[u]) => status'[u] = status[u]
    BY <1>3, <1>9, <2>1, <2>2 DEF CancelTask, st
  <2>4. wfStatus' = finalizeWorkflowIfDone(wfStatus, status', WorkflowOf[t])
    BY <1>9 DEF CancelTask
  <2>5. \A x \in Workflows : WorkflowIsFinished(wfStatus[x]) =>
            wfStatus'[x] = wfStatus[x]
    BY <1>4, <2>4 DEF finalizeWorkflowIfDone, TypeOK
  <2> QED
    BY <1>9, <2>3, <2>5 DEF CancelTask
<1>10. ASSUME NEW wk \in Workers, ReassignDeadWorkerTasks(wk)
       PROVE  /\ \A u \in Tasks : TaskIsFinished(status[u]) => status'[u] = status[u]
              /\ wfStatus' = wfStatus /\ result' = result
  BY <1>3, <1>10 DEF ReassignDeadWorkerTasks, TypeOK
<1>11. ASSUME NEW cc \in cancels, CancelCallEnds(cc)
       PROVE  status' = status /\ wfStatus' = wfStatus /\ result' = result
  BY <1>11 DEF CancelCallEnds
<1>12. CASE UNCHANGED vars
  BY <1>12 DEF vars
<1> QED
  BY <1>5, <1>6, <1>7, <1>8, <1>9, <1>10, <1>11, <1>12 DEF Next

\* What ended stays as it ended, whatever late or repeated report, callback,
\* cancellation or worker death follows.
THEOREM FinishedIsFinalCorrect == Spec => FinishedIsFinal
<1>1. IInv /\ [Next]_vars =>
        [/\ \A t \in Tasks : TaskIsFinished(status[t]) =>
                status'[t] = status[t] /\ result'[t] = result[t]
         /\ \A w \in Workflows : WorkflowIsFinished(wfStatus[w]) =>
                wfStatus'[w] = wfStatus[w]]_vars
  BY FinalStep
<1> QED
  BY <1>1, InvCorrect, PTL DEF Spec, FinishedIsFinal

\* A cascade never meets a task on a worker: its members wait for a task that
\* has not succeeded.
LEMMA CascadeOffWorker ==
    ASSUME IInv, NEW t \in Tasks, ~TaskIsFinished(status[t]),
           NEW st, NEW s, NEW C, TakesDown(st, t, s, C), NEW u \in C
    PROVE  ~TaskOnWorker(status[u])
<1>1. PICK d \in DependsOn[u] : d = t \/ d \in C
  BY DEF TakesDown
<1>2. u \in Tasks /\ ~TaskIsFinished(status[d])
  BY <1>1 DEF TakesDown
<1>3. status[d] # "SUCCEEDED"
  BY <1>2 DEF TaskIsFinished
<1> QED
  BY <1>1, <1>2, <1>3 DEF IInv, DepsRespected, AllDepsSucceeded, TaskOnWorker

\* Each task of refs is in a call to its worker.
LEMMA NotifyCovers ==
    ASSUME NEW refs, NEW t \in refs
    PROVE  \E cc \in notifyWorkersOfCancellation(refs) :
              cc.worker = assignedTo[t] /\ t \in cc.tasks
<1> DEFINE cc == [worker |-> assignedTo[t],
                  tasks  |-> {u \in refs : assignedTo[u] = assignedTo[t]}]
<1>1. cc \in notifyWorkersOfCancellation(refs)
  BY DEF notifyWorkersOfCancellation
<1>2. cc.worker = assignedTo[t] /\ t \in cc.tasks
  OBVIOUS
<1> QED
  BY <1>1, <1>2

\* From a state of the invariant, a step that cancels a task on a worker starts
\* a call to that worker.
LEMMA AnnounceStep ==
    ASSUME IInv, Next, NEW u \in Tasks, TaskOnWorker(status[u]),
           status'[u] = "CANCELLED"
    PROVE  \E cc \in cancels' : /\ cc.worker = assignedTo[u]
                                /\ cc.worker \in Workers
                                /\ u \in cc.tasks
<1> USE DEF IInv
<1>1. assignedTo[u] \in Workers /\ status[u] \in {"DISPATCHED", "RUNNING"}
  BY DEF Recoverable, TaskOnWorker
<1>2. ~TaskIsFinished(status[u])
  BY <1>1 DEF TaskIsFinished
<1>3. ASSUME NEW w \in Workflows, SubmitWorkflow(w) PROVE FALSE
  <2>1. status'[u] \in {"READY", status[u]}
    BY <1>3, MarkEffect DEF SubmitWorkflow, TypeOK, NotRetrying
  <2> QED
    BY <1>1, <2>1
<1>4. ASSUME NEW t \in Tasks, NEW s \in ReportStatus, OnTaskResponse(t, s)
      PROVE  FALSE
  <2>1. Reported(t, s) \in [Tasks -> TaskStatus] /\ WorkflowOf[t] \in Workflows
    BY ReportedType, GraphAssumption
  <2>2. status'[u] \in {"READY", Reported(t, s)[u]}
    BY <1>4, <2>1 DEF OnTaskResponse, MarkedStatus, UpdateStatus
  <2>3. Reported(t, s)[u] \in {"RUNNING", "SUCCEEDED", "FAILED", status[u]}
    <3>1. CASE Reported(t, s) = status
      BY <3>1
    <3>2. CASE Reported(t, s) # status
      <4>1. TaskOnWorker(status[t])
            /\ \E C \in SUBSET Tasks : TakesDown(Reported(t, s), t, s, C)
        BY <3>2, ReportEffect
      <4>2. PICK C \in SUBSET Tasks : TakesDown(Reported(t, s), t, s, C)
        BY <4>1
      <4>3. ~TaskIsFinished(status[t])
        BY <4>1 DEF TaskOnWorker, TaskIsFinished
      <4>4. u \notin C
        BY <4>2, <4>3, CascadeOffWorker
      <4> QED
        BY <4>2, <4>4 DEF TakesDown, ReportStatus
    <3> QED
      BY <3>1, <3>2
  <2> QED
    BY <1>1, <2>2, <2>3
<1>5. ASSUME NEW t \in Tasks, NEW wk \in Workers, OnTaskDispatched(t, wk)
      PROVE  FALSE
  BY <1>1, <1>5 DEF OnTaskDispatched, UpdateStatus, TypeOK
<1>6. ASSUME NEW w \in Workflows, CancelWorkflow(w)
      PROVE  \E cc \in cancels' : cc.worker = assignedTo[u] /\ u \in cc.tasks
  <2> DEFINE refs == {t \in {v \in TasksOf(w) : ~TaskIsFinished(status[v])} :
                          TaskOnWorker(status[t])}
  <2>1. cancels' = cancels \cup notifyWorkersOfCancellation(refs)
    BY <1>6 DEF CancelWorkflow
  <2>2. u \in refs
    BY <1>1, <1>2, <1>6 DEF CancelWorkflow, UpdateStatus, TypeOK
  <2> HIDE DEF refs
  <2> QED
    BY <2>1, <2>2, NotifyCovers
<1>7. ASSUME NEW t \in Tasks, CancelTask(t)
      PROVE  \E cc \in cancels' : cc.worker = assignedTo[u] /\ u \in cc.tasks
  <2> DEFINE st   == UpdateStatus(status, {t}, "CANCELLED")
             C    == cancelDownstream(DependsOn, st, t)
             refs == {r \in {t} \cup C : TaskOnWorker(status[r])}
  <2>1. cancels' = cancels \cup notifyWorkersOfCancellation(refs)
        /\ status' = UpdateStatus(st, C, "CANCELLED")
    BY <1>7 DEF CancelTask
  <2>2. u \in refs
    BY <1>1, <2>1 DEF UpdateStatus, TypeOK
  <2> HIDE DEF refs
  <2> QED
    BY <2>1, <2>2, NotifyCovers
<1>8. ASSUME NEW wk \in Workers, ReassignDeadWorkerTasks(wk) PROVE FALSE
  BY <1>1, <1>8 DEF ReassignDeadWorkerTasks, UpdateStatus, TypeOK
<1>9. ASSUME NEW cc \in cancels, CancelCallEnds(cc) PROVE FALSE
  BY <1>1, <1>9 DEF CancelCallEnds
<1> QED
  BY <1>1, <1>3, <1>4, <1>5, <1>6, <1>7, <1>8, <1>9 DEF Next

\* A task on a worker is never cancelled behind its worker's back, although
\* OnTaskResponse ignores what cancelDownstream returns.
THEOREM CancelAnnouncedCorrect == Spec => CancelAnnounced
<1>1. IInv /\ [Next]_vars =>
        [\A t \in Tasks :
            TaskOnWorker(status[t]) /\ status'[t] = "CANCELLED" =>
                \E c \in cancels' : /\ c.worker = assignedTo[t]
                                    /\ c.worker \in Workers
                                    /\ t \in c.tasks]_vars
  BY AnnounceStep
<1> QED
  BY <1>1, InvCorrect, PTL DEF Spec, CancelAnnounced

-----------------------------------------------------------------------------
\* Exact cancellation.  First, what the recursive definition of Descendants
\* computes; then, that a cascade is what was unfinished of it.

\* A nonempty set of numbers has a least one.
LEMMA LeastNumber ==
    ASSUME NEW S \in SUBSET Nat, S # {}
    PROVE  \E k \in S : \A j \in S : k <= j
<1>1. PICK k \in S : \A j \in S : <<j, k>> \notin OpToRel(<, Nat)
  BY NatLessThanWellFounded, WFMin
<1>2. \A j \in S : ~(j < k)
  BY <1>1 DEF OpToRel
<1> QED
  BY <1>2

\* f lists the tasks within n steps of r, for every n up to k: the recursion
\* of Descendants, cut off at k.
Layers(f, r, k) ==
    f = [n \in 0..k |->
            IF n = 0 THEN {r}
            ELSE f[n - 1] \cup {t \in Tasks : DependsOn[t] \cap f[n - 1] # {}}]

\* The recursion has a solution up to every bound: a smallest bound without
\* one would be one more than a bound with one, which can be extended.
LEMMA LayersExist ==
    ASSUME NEW r, NEW m \in Nat
    PROVE  \E f : Layers(f, r, m)
<1> DEFINE Bad == {k \in Nat : ~ \E f : Layers(f, r, k)}
<1> SUFFICES ASSUME Bad # {} PROVE FALSE
  OBVIOUS
<1>1. PICK k \in Bad : \A j \in Bad : k <= j
  BY LeastNumber
<1>2. k \in Nat /\ \A j \in Nat : j < k => \E f : Layers(f, r, j)
  BY <1>1
<1>3. k # 0
  <2> DEFINE f == [n \in 0..0 |-> {r}]
  <2>1. Layers(f, r, 0)
    BY DEF Layers
  <2> QED
    BY <2>1, <1>1
<1>4. PICK f : Layers(f, r, k - 1)
  BY <1>2, <1>3
<1> DEFINE Up(W) == W \cup {t \in Tasks : DependsOn[t] \cap W # {}}
           g == [n \in 0..k |-> IF n = k THEN Up(f[k - 1]) ELSE f[n]]
<1>5. \A n \in 0..(k - 1) : f[n] = IF n = 0 THEN {r} ELSE Up(f[n - 1])
  BY <1>2, <1>3, <1>4 DEF Layers
<1>6. \A n \in 0..(k - 1) : g[n] = f[n]
  BY <1>2, <1>3
<1>7. g[k] = Up(g[k - 1])
  BY <1>2, <1>3, <1>6
<1>8. \A n \in 0..k : g[n] = IF n = 0 THEN {r} ELSE Up(g[n - 1])
  <2> TAKE n \in 0..k
  <2>1. CASE n = k
    BY <2>1, <1>3, <1>7
  <2>2. CASE n # k /\ n # 0
    <3>1. n \in 0..(k - 1) /\ n - 1 \in 0..(k - 1)
      BY <2>2, <1>2
    <3>2. g[n] = f[n] /\ g[n - 1] = f[n - 1] /\ f[n] = Up(f[n - 1])
      BY <3>1, <2>2, <1>5, <1>6
    <3> QED
      BY <3>2, <2>2
  <2>3. CASE n # k /\ n = 0
    <3>1. n \in 0..(k - 1)
      BY <2>3, <1>2, <1>3
    <3> QED
      BY <3>1, <2>3, <1>5, <1>6
  <2> QED
    BY <2>1, <2>2, <2>3
<1>9. Layers(g, r, k)
  <2>1. g = [n \in 0..k |-> g[n]]
    OBVIOUS
  <2> HIDE DEF g
  <2>2. [n \in 0..k |-> g[n]] = [n \in 0..k |-> IF n = 0 THEN {r} ELSE Up(g[n - 1])]
    BY <1>8
  <2> QED
    BY <2>1, <2>2 DEF Layers
<1> QED
  BY <1>1, <1>9

\* Descendants(r) is the last layer without r.
LEMMA DescendantsLayers ==
    ASSUME NEW r
    PROVE  \E f : /\ Layers(f, r, Cardinality(Tasks))
                  /\ Descendants(r) = f[Cardinality(Tasks)] \ {r}
<1> DEFINE g == CHOOSE f : Layers(f, r, Cardinality(Tasks))
<1>1. \E f : Layers(f, r, Cardinality(Tasks))
  BY LayersExist, FS_CardinalityType, GraphAssumption
<1>2. Layers(g, r, Cardinality(Tasks))
  BY <1>1, Zenon
<1>3. Descendants(r) = g[Cardinality(Tasks)] \ {r}
  BY Zenon DEF Descendants, Layers
<1> QED
  BY <1>2, <1>3

\* What Descendants says: the tasks other than r that wait for r or for one of
\* them, all of them, and each for that reason.
LEMMA DescendantsOf ==
    ASSUME NEW r \in Tasks
    PROVE  /\ Descendants(r) \subseteq Tasks \ {r}
           /\ \A u \in Tasks \ {r} : u \in Descendants(r) <=>
                 \E d \in DependsOn[u] : d = r \/ d \in Descendants(r)
<1> DEFINE N == Cardinality(Tasks)
           D == Descendants(r)
<1>1. N \in Nat
  BY FS_CardinalityType, GraphAssumption
<1>2. PICK f : Layers(f, r, N) /\ D = f[N] \ {r}
  BY DescendantsLayers
<1> HIDE DEF N, D
<1>3. f[0] = {r}
  BY <1>1, <1>2 DEF Layers
<1>4. \A n \in 0..N : n # 0 =>
          f[n] = f[n - 1] \cup {t \in Tasks : DependsOn[t] \cap f[n - 1] # {}}
  BY <1>1, <1>2 DEF Layers
<1>5. \A n \in 0..N : f[n] \subseteq Tasks /\ r \in f[n]
  <2> DEFINE Bad == {n \in 0..N : ~(f[n] \subseteq Tasks /\ r \in f[n])}
  <2> SUFFICES ASSUME Bad # {} PROVE FALSE
    OBVIOUS
  <2>0. Bad \in SUBSET Nat
    BY <1>1
  <2>1. PICK k \in Bad : \A j \in Bad : k <= j
    BY <2>0, LeastNumber
  <2>2. k # 0
    BY <2>1, <1>3
  <2>3. k - 1 \in 0..N /\ k - 1 \notin Bad
    BY <1>1, <2>1, <2>2
  <2> QED
    BY <2>1, <2>2, <2>3, <1>4
<1>6. \A n \in 0..N, m \in 0..N : n <= m => f[n] \subseteq f[m]
  <2> SUFFICES ASSUME NEW n \in 0..N PROVE \A m \in 0..N : n <= m => f[n] \subseteq f[m]
    OBVIOUS
  <2> DEFINE Bad == {m \in 0..N : n <= m /\ ~(f[n] \subseteq f[m])}
  <2> SUFFICES ASSUME Bad # {} PROVE FALSE
    OBVIOUS
  <2>0. Bad \in SUBSET Nat
    BY <1>1
  <2>1. PICK k \in Bad : \A j \in Bad : k <= j
    BY <2>0, LeastNumber
  <2>2. k # n /\ k > n
    BY <1>1, <2>1
  <2>3. k - 1 \in 0..N /\ k - 1 \notin Bad /\ n <= k - 1
    BY <1>1, <2>1, <2>2
  <2> QED
    BY <2>1, <2>2, <2>3, <1>4
\* Who is in a layer and is not r waits for someone of the layer.
<1>7. \A u \in f[N] : u # r => \E d \in DependsOn[u] : d \in f[N]
  <2> SUFFICES ASSUME NEW u \in f[N], u # r PROVE \E d \in DependsOn[u] : d \in f[N]
    OBVIOUS
  <2> DEFINE In == {n \in 0..N : u \in f[n]}
  <2>1. In \subseteq Nat /\ In # {}
    BY <1>1
  <2>2. PICK k \in In : \A j \in In : k <= j
    BY <2>1, LeastNumber
  <2>3. k # 0
    BY <2>2, <1>3
  <2>4. k - 1 \in 0..N /\ k - 1 \notin In
    BY <1>1, <2>2, <2>3
  <2>5. DependsOn[u] \cap f[k - 1] # {}
    BY <2>2, <2>3, <2>4, <1>4
  <2>6. f[k - 1] \subseteq f[N]
    BY <1>1, <1>6, <2>4
  <2> QED
    BY <2>5, <2>6
\* A layer deep enough for the rank of a task holds it if any layer does.
<1>8. PICK rank \in [Tasks -> 0..N] :
          \A t \in Tasks : \A d \in DependsOn[t] : rank[d] < rank[t]
  BY GraphAssumption DEF N
<1>9. f[N] \subseteq Tasks
  BY <1>1, <1>5
<1>10. \A u, d \in Tasks : d \in DependsOn[u] /\ d \in f[rank[d]] => u \in f[rank[u]]
  <2> SUFFICES ASSUME NEW u \in Tasks, NEW d \in Tasks, d \in DependsOn[u], d \in f[rank[d]]
               PROVE  u \in f[rank[u]]
    OBVIOUS
  <2>1. rank[d] \in 0..N /\ rank[u] \in 0..N /\ rank[d] < rank[u]
    BY <1>8
  <2>2. rank[u] - 1 \in 0..N /\ rank[d] <= rank[u] - 1
    BY <1>1, <2>1
  <2>3. d \in f[rank[u] - 1]
    BY <1>6, <2>1, <2>2
  <2>4. rank[u] # 0
    BY <1>1, <2>1
  <2> QED
    BY <1>4, <2>1, <2>3, <2>4
<1>11. \A u \in f[N] : u \in f[rank[u]]
  <2> DEFINE S == {u \in f[N] : u \notin f[rank[u]]}
  <2> SUFFICES ASSUME S # {} PROVE FALSE
    OBVIOUS
  <2>1. PICK u \in S : \A d \in DependsOn[u] : d \notin S
    BY <1>9, RootExists
  <2>2. rank[u] \in 0..N /\ u \in Tasks
    BY <2>1, <1>8, <1>9
  <2>3. u # r
    BY <2>1, <2>2, <1>5
  <2>4. PICK d \in DependsOn[u] : d \in f[N]
    BY <2>1, <2>3, <1>7
  <2>5. d \in Tasks /\ d \in f[rank[d]]
    BY <2>1, <2>4, <1>9
  <2> QED
    BY <2>1, <2>2, <2>5, <1>10
<1>12. \A u \in Tasks : (\E d \in DependsOn[u] : d \in f[N]) => u \in f[N]
  <2> SUFFICES ASSUME NEW u \in Tasks, NEW d \in DependsOn[u], d \in f[N] PROVE u \in f[N]
    OBVIOUS
  <2>1. d \in Tasks /\ d \in f[rank[d]]
    BY <1>9, <1>11
  <2>2. u \in f[rank[u]]
    BY <2>1, <1>10
  <2>3. rank[u] \in 0..N /\ rank[u] <= N
    BY <1>1, <1>8
  <2>4. f[rank[u]] \subseteq f[N]
    BY <1>1, <2>3, <1>6
  <2> QED
    BY <2>2, <2>4
<1>13. r \in f[N]
  BY <1>1, <1>5
<1> QED
  BY <1>2, <1>7, <1>9, <1>12, <1>13 DEF D

\* While t is unfinished, whoever waits for t, directly or not, has not been
\* handed out: a task is handed out only when all it waits for has succeeded.
LEMMA DescendantsWait ==
    ASSUME IInv, NEW t \in Tasks, ~TaskIsFinished(status[t]),
           NEW u \in Descendants(t)
    PROVE  u \in Tasks /\ status[u] \in {"PENDING", "CANCELLED"}
<1> DEFINE D == Descendants(t)
           S == {x \in D : status[x] \notin {"PENDING", "CANCELLED"}}
<1>1. D \subseteq Tasks \ {t}
  BY DescendantsOf
<1> SUFFICES ASSUME S # {} PROVE FALSE
  BY <1>1
<1>2. PICK x \in S : \A d \in DependsOn[x] : d \notin S
  BY <1>1, RootExists
<1>3. x \in Tasks /\ x \in D
  BY <1>1, <1>2
<1>4. PICK d \in DependsOn[x] : d = t \/ d \in D
  BY <1>1, <1>3, DescendantsOf
<1>5. status[x] \in {"READY", "DISPATCHED", "RUNNING", "SUCCEEDED", "FAILED"}
  BY <1>2, <1>3 DEF IInv, TypeOK, NotRetrying, TaskStatus
<1>6. status[d] = "SUCCEEDED"
  BY <1>3, <1>4, <1>5 DEF IInv, DepsRespected, AllDepsSucceeded
<1>7. d # t
  BY <1>6 DEF TaskIsFinished
<1> QED
  BY <1>2, <1>4, <1>6, <1>7

\* The cascade of t is what was unfinished among all that waits for t: the walk
\* only goes on from tasks it cancels, but never misses a task that way.
LEMMA CascadeIsExact ==
    ASSUME IInv, NEW t \in Tasks, ~TaskIsFinished(status[t]),
           NEW st, NEW s \in {"FAILED", "CANCELLED"}, NEW C, TakesDown(st, t, s, C)
    PROVE  C = {u \in Descendants(t) : ~TaskIsFinished(status[u])}
<1> DEFINE D == Descendants(t)
           O == {u \in D : ~TaskIsFinished(status[u])}
<1>1. /\ D \subseteq Tasks \ {t}
      /\ \A u \in Tasks \ {t} : u \in D <=> \E d \in DependsOn[u] : d = t \/ d \in D
  BY DescendantsOf
<1>2. /\ C \subseteq Tasks
      /\ \A u \in C : /\ u # t
                      /\ ~TaskIsFinished(status[u])
                      /\ \E d \in DependsOn[u] : d = t \/ d \in C
      /\ \A u \in Tasks :
            u # t /\ ~TaskIsFinished(status[u])
                /\ (\E d \in DependsOn[u] : d = t \/ d \in C) => u \in C
  BY DEF TakesDown
<1>3. \A u \in D : status[u] \in {"PENDING", "CANCELLED"}
  BY DescendantsWait
<1> HIDE DEF D
<1>4. C \subseteq D
  <2> DEFINE S == C \ D
  <2> SUFFICES ASSUME S # {} PROVE FALSE
    OBVIOUS
  <2>1. PICK u \in S : \A d \in DependsOn[u] : d \notin S
    BY <1>2, RootExists
  <2>2. PICK d \in DependsOn[u] : d = t \/ d \in C
    BY <1>2, <2>1
  <2> QED
    BY <1>1, <1>2, <2>1, <2>2
<1>5. O \subseteq C
  <2> DEFINE S == O \ C
  <2> SUFFICES ASSUME S # {} PROVE FALSE
    OBVIOUS
  <2>1. PICK u \in S : \A d \in DependsOn[u] : d \notin S
    BY <1>1, RootExists
  <2>2. u \in Tasks /\ u # t /\ u \in D /\ ~TaskIsFinished(status[u]) /\ u \notin C
    BY <1>1, <2>1
  <2>3. PICK d \in DependsOn[u] : d = t \/ d \in D
    BY <1>1, <2>2
  <2>4. d # t /\ d \notin C
    BY <1>2, <2>2, <2>3
  <2>5. d \in D /\ TaskIsFinished(status[d])
    BY <2>1, <2>3, <2>4
  <2>6. status[d] = "CANCELLED" /\ status[u] = "PENDING"
    BY <1>3, <2>2, <2>5 DEF TaskIsFinished
  <2>7. d \in Tasks /\ WorkflowOf[d] = WorkflowOf[u]
    BY <1>1, <2>2, <2>3, <2>5, GraphAssumption
  <2>8. WorkflowOf[u] \in workflows
    BY <2>6, <2>7 DEF IInv, Untouched
  <2> QED
    BY <2>2, <2>3, <2>6, <2>8 DEF IInv, NoOrphans
<1>6. C = O
  BY <1>2, <1>4, <1>5
<1> QED
  BY <1>6 DEF D

\* What one step must do for CancellationIsExact.
Exact ==
    LET failed  == {t \in Tasks : status[t] # "FAILED" /\ status'[t] = "FAILED"}
        gone    == {t \in Tasks : status[t] # "CANCELLED" /\ status'[t] = "CANCELLED"}
        Open(T) == {t \in T : ~TaskIsFinished(status[t])}
    IN  \/ failed = {} /\ gone = {}
        \/ \E r \in failed : failed = {r} /\ gone = Open(Descendants(r))
        \/ failed = {} /\ \E r \in Open(Tasks) :
                             gone = {r} \cup Open(Descendants(r))
        \/ failed = {} /\ \E w \in Workflows : gone = Open(TasksOf(w))

\* Every step of the engine from a state of the invariant is exact.
LEMMA ExactStep ==
    ASSUME IInv, Next
    PROVE  Exact
<1> DEFINE failed  == {t \in Tasks : status[t] # "FAILED" /\ status'[t] = "FAILED"}
           gone    == {t \in Tasks : status[t] # "CANCELLED" /\ status'[t] = "CANCELLED"}
           Open(T) == {t \in T : ~TaskIsFinished(status[t])}
<1>0. /\ status \in [Tasks -> TaskStatus]
      /\ \A u \in Tasks : status[u] # "RETRYING"
  BY DEF IInv, TypeOK, NotRetrying
<1>1. ASSUME \A u \in Tasks : status'[u] \in {"FAILED", "CANCELLED"} =>
                                  status'[u] = status[u]
      PROVE  Exact
  <2>1. failed = {} /\ gone = {}
    BY <1>1
  <2> QED
    BY <2>1 DEF Exact
<1>2. ASSUME NEW w \in Workflows, SubmitWorkflow(w) PROVE Exact
  <2>1. \A u \in Tasks : status'[u] \in {"READY", status[u]}
    BY <1>0, <1>2, MarkEffect DEF SubmitWorkflow
  <2> QED
    BY <1>1, <2>1
<1>3. ASSUME NEW t \in Tasks, NEW s \in ReportStatus, OnTaskResponse(t, s)
      PROVE  Exact
  <2>1. WorkflowOf[t] \in Workflows
    BY GraphAssumption
  <2>2. Reported(t, s) \in [Tasks -> TaskStatus]
    BY ReportedType DEF IInv
  <2>3. \A u \in Tasks : status'[u] = Reported(t, s)[u] \/
                            (Reported(t, s)[u] \in {"PENDING", "RETRYING"}
                                /\ status'[u] = "READY")
    BY <1>3, <2>2 DEF OnTaskResponse, MarkedStatus, UpdateStatus,
                      recomputeReadyTasks, TaskIsReady
  <2>4. CASE ~TaskCanTransitTo(status[t], s)
    <3>1. Reported(t, s) = status
      BY <2>4, ReportEffect DEF IInv
    <3> QED
      BY <1>1, <2>3, <3>1
  <2>5. CASE TaskCanTransitTo(status[t], s)
    <3>1. /\ TaskOnWorker(status[t])
          /\ \E C \in SUBSET Tasks : TakesDown(Reported(t, s), t, s, C)
      BY <2>5, ReportEffect DEF IInv
    <3>2. PICK C \in SUBSET Tasks : TakesDown(Reported(t, s), t, s, C)
      BY <3>1
    <3>3. ~TaskIsFinished(status[t])
      BY <3>1 DEF TaskOnWorker, TaskIsFinished
    <3>4. \A u \in Tasks : Reported(t, s)[u] =
              IF u = t THEN s ELSE IF u \in C THEN "CANCELLED" ELSE status[u]
      BY <3>2 DEF TakesDown
    <3>5. CASE s = "FAILED"
      <4>1. C = Open(Descendants(t))
        BY <3>2, <3>3, <3>5, CascadeIsExact
      <4>2. t \notin C /\ \A u \in C : status[u] # "CANCELLED"
        BY <3>2 DEF TakesDown, TaskIsFinished
      <4>3. status[t] # "FAILED"
        BY <3>3 DEF TaskIsFinished
      <4>4. failed = {t}
        BY <2>3, <3>4, <3>5, <4>3
      <4>5. gone = C
        BY <2>3, <3>4, <3>5, <4>2
      <4>6. \E r \in failed : failed = {r} /\ gone = Open(Descendants(r))
        BY <4>1, <4>4, <4>5
      <4> QED
        BY <4>6 DEF Exact
    <3>6. CASE s # "FAILED"
      <4>1. C = {} /\ s \notin {"FAILED", "CANCELLED"}
        BY <3>2, <3>6 DEF TakesDown, ReportStatus
      <4> QED
        BY <1>1, <2>3, <3>4, <4>1
    <3> QED
      BY <3>5, <3>6
  <2> QED
    BY <2>4, <2>5
<1>4. ASSUME NEW t \in Tasks, NEW wk \in Workers, OnTaskDispatched(t, wk)
      PROVE  Exact
  <2>1. \A u \in Tasks : status'[u] \in {"DISPATCHED", status[u]}
    BY <1>0, <1>4 DEF OnTaskDispatched, UpdateStatus
  <2> QED
    BY <1>1, <2>1
<1>5. ASSUME NEW w \in Workflows, CancelWorkflow(w) PROVE Exact
  <2>1. \A u \in Tasks : ~TaskIsFinished(status[u]) =>
                            TaskCanTransitTo(status[u], "CANCELLED")
    BY <1>0 DEF TaskStatus, TaskIsFinished, TaskCanTransitTo, taskStatusesGraph
  <2>2. TasksOf(w) \subseteq Tasks
    BY DEF TasksOf
  <2>3. \A u \in Tasks : status'[u] =
            IF u \in Open(TasksOf(w)) THEN "CANCELLED" ELSE status[u]
    BY <1>0, <1>5, <2>1 DEF CancelWorkflow, UpdateStatus, TasksOf
  <2>4. \A u \in Open(TasksOf(w)) : status[u] # "CANCELLED"
    BY DEF TaskIsFinished
  <2> HIDE DEF Open
  <2>5. failed = {}
    BY <2>3
  <2>6. gone = Open(TasksOf(w))
    BY <2>2, <2>3, <2>4 DEF Open
  <2> QED
    BY <2>5, <2>6 DEF Exact, Open
<1>6. ASSUME NEW t \in Tasks, CancelTask(t) PROVE Exact
  <2> DEFINE C == cancelDownstream(DependsOn, UpdateStatus(status, {t}, "CANCELLED"), t)
  <2>1. ~TaskIsFinished(status[t])
    BY <1>6 DEF CancelTask
  <2>2. TaskCanTransitTo(status[t], "CANCELLED")
    BY <1>0, <2>1 DEF TaskStatus, TaskIsFinished, TaskCanTransitTo, taskStatusesGraph
  <2>3. TakesDown(status', t, "CANCELLED", C)
    BY <1>6, <2>1, <2>2, CascadeEffect DEF CancelTask, IInv
  <2> HIDE DEF C
  <2>4. C = Open(Descendants(t))
    BY <2>1, <2>3, CascadeIsExact
  <2>5. C \subseteq Tasks /\ t \notin C /\ \A u \in C : status[u] # "CANCELLED"
    BY <2>3 DEF TakesDown, TaskIsFinished
  <2>6. \A u \in Tasks : status'[u] =
            IF u = t \/ u \in C THEN "CANCELLED" ELSE status[u]
    BY <2>3 DEF TakesDown
  <2>7. status[t] # "CANCELLED"
    BY <2>1 DEF TaskIsFinished
  <2>8. failed = {}
    BY <2>6
  <2>9. gone = {t} \cup C
    BY <2>5, <2>6, <2>7
  <2>10. t \in Open(Tasks) /\ gone = {t} \cup Open(Descendants(t))
    BY <2>1, <2>4, <2>9
  <2> QED
    BY <2>8, <2>10 DEF Exact
<1>7. ASSUME NEW wk \in Workers, ReassignDeadWorkerTasks(wk) PROVE Exact
  <2>1. \A u \in Tasks : status'[u] \in {"READY", status[u]}
    BY <1>0, <1>7 DEF ReassignDeadWorkerTasks, UpdateStatus
  <2> QED
    BY <1>1, <2>1
<1>8. ASSUME NEW cc \in cancels, CancelCallEnds(cc) PROVE Exact
  BY <1>1, <1>8 DEF CancelCallEnds
<1> QED
  BY <1>2, <1>3, <1>4, <1>5, <1>6, <1>7, <1>8 DEF Next

\* A step cancels exactly what waited for the task that failed, or one
\* unfinished task and what waited for it, or what was unfinished of one
\* workflow: independent branches are never touched and nothing that waits for
\* a dead task is left behind, in any acyclic graph.
THEOREM CancellationIsExactCorrect == Spec => CancellationIsExact
<1>1. IInv /\ [Next]_vars => [Exact]_vars
  BY ExactStep
<1> QED
  BY <1>1, InvCorrect, PTL DEF Spec, CancellationIsExact, Exact

=============================================================================
