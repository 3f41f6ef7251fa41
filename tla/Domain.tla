------------------------------- MODULE Domain -------------------------------
(***************************************************************************)
(* The domain model of the orchestrator (package common/domain): the life  *)
(* cycle of a task and of a workflow, and the questions the engine asks of *)
(* a workflow's task graph.  Everything here is a constant-level operator; *)
(* the state machines are in the modules that EXTEND this one.             *)
(*                                                                         *)
(* A task graph is a function deps: deps[t] is the set of tasks t waits    *)
(* for (Task.DependsOn after names were resolved to IDs).  The current     *)
(* statuses of the tasks are a function st with the same domain.           *)
(***************************************************************************)

-----------------------------------------------------------------------------
\* Task life cycle.

TaskStatus ==
    { "PENDING", "READY", "DISPATCHED", "RUNNING",
      "SUCCEEDED", "FAILED", "RETRYING", "CANCELLED" }

\* Mutant: a late FAILED is allowed to overwrite a success.
taskStatusesGraph_Reopen ==
    { <<"PENDING",    "READY">>,     <<"PENDING",    "CANCELLED">>,
      <<"READY",      "DISPATCHED">>,<<"READY",      "CANCELLED">>,
      <<"DISPATCHED", "RUNNING">>,   <<"DISPATCHED", "SUCCEEDED">>,
      <<"DISPATCHED", "FAILED">>,    <<"DISPATCHED", "READY">>,
      <<"RUNNING",    "SUCCEEDED">>, <<"RUNNING",    "FAILED">>,
      <<"RUNNING",    "READY">>,     <<"SUCCEEDED",  "FAILED">> }

taskStatusesGraph ==
    { <<"PENDING",    "READY">>,     <<"PENDING",    "CANCELLED">>,
      <<"READY",      "DISPATCHED">>,<<"READY",      "CANCELLED">>,
      <<"DISPATCHED", "RUNNING">>,   <<"DISPATCHED", "SUCCEEDED">>,
      <<"DISPATCHED", "FAILED">>,    <<"DISPATCHED", "CANCELLED">>,
      <<"DISPATCHED", "READY">>,
      <<"RUNNING",    "SUCCEEDED">>, <<"RUNNING",    "CANCELLED">>,
      <<"RUNNING",    "FAILED">>,    <<"RUNNING",    "READY">>,
      <<"FAILED",     "RETRYING">>,
      <<"RETRYING",   "DISPATCHED">>,<<"RETRYING",   "RUNNING">> }

TaskCanTransitTo(s, new) == s # new /\ <<s, new>> \in taskStatusesGraph

\* Mutant: a task that is READY already counts as one to be marked.
TaskIsReady_Again(s) == s \in {"PENDING", "READY", "RETRYING"}

TaskIsReady(s)    == s \in {"PENDING", "RETRYING"}
TaskIsFinished(s) == s \in {"SUCCEEDED", "FAILED", "CANCELLED"}

\* The statuses in which the engine believes that a worker holds the task.
TaskOnWorker(s)   == s \in {"DISPATCHED", "RUNNING"}

-----------------------------------------------------------------------------
\* Workflow life cycle.

WorkflowStatus == {"PENDING", "RUNNING", "SUCCEEDED", "FAILED", "CANCELLED"}

workflowStatusesGraph ==
    { <<"PENDING", "RUNNING">>,   <<"PENDING", "CANCELLED">>,
      <<"RUNNING", "SUCCEEDED">>, <<"RUNNING", "FAILED">>,
      <<"RUNNING", "CANCELLED">> }

WorkflowCanTransitTo(s, new) == s # new /\ <<s, new>> \in workflowStatusesGraph

WorkflowIsFinished(s) == s \in {"SUCCEEDED", "FAILED", "CANCELLED"}

-----------------------------------------------------------------------------
\* Questions about a set of tasks T under the statuses st.

AllDepsSucceeded(deps, st, t) == \A d \in deps[t] : st[d] = "SUCCEEDED"

AllTasksFinished(st, T) == \A t \in T : TaskIsFinished(st[t])
HasFailedTask(st, T)    == \E t \in T : st[t] = "FAILED"
HasCancelledTask(st, T) == \E t \in T : st[t] = "CANCELLED"

\* Task.UpdateStatus applied to every task of T: a refused transition leaves
\* that task as it is.
UpdateStatus(st, T, new) ==
    [t \in DOMAIN st |->
        IF t \in T /\ TaskCanTransitTo(st[t], new) THEN new ELSE st[t]]

-----------------------------------------------------------------------------
\* The cascade.  WorkflowEngine.cancelDownstream walks the reversed edges
\* breadth first from root, cancelling every unfinished task it meets and
\* continuing from the ones it cancelled.  Its result does not depend on the
\* order of the walk: it is the least set that holds every task the walk may
\* cancel and that waits for root or for a member of the set.  (The module
\* CancelDownstream runs the loop itself and compares.)

Cancellable(s) == ~TaskIsFinished(s) /\ TaskCanTransitTo(s, "CANCELLED")

CascadeClosed(deps, st, root, S) ==
    \A t \in DOMAIN deps :
        (Cancellable(st[t]) /\ \E d \in deps[t] : d = root \/ d \in S) => t \in S

\* Mutant: the cascade stops at the direct dependants.
cancelDownstream_Direct(deps, st, root) ==
    {t \in DOMAIN deps : Cancellable(st[t]) /\ root \in deps[t]}

cancelDownstream(deps, st, root) ==
    { t \in DOMAIN deps :
        \A S \in SUBSET DOMAIN deps : CascadeClosed(deps, st, root, S) => t \in S }

=============================================================================
