-------------------------- MODULE CancelDownstream --------------------------
(***************************************************************************)
(* The loop of WorkflowEngine.cancelDownstream, step by step: a breadth-   *)
(* first walk from root over the edges "waits for", which cancels what it  *)
(* meets.  Go visits the map wf.Tasks in any order, a different one in     *)
(* every round.  The engine's specification uses the set                   *)
(* Domain!cancelDownstream in place of the loop; this module shows that    *)
(* the loop computes that set.                                             *)
(*                                                                         *)
(* The walk starts from every state of a small workflow that the engine    *)
(* can call it in: root has just become FAILED or CANCELLED and every      *)
(* other task obeys the engine's invariants DepsRespected and NoOrphans.   *)
(***************************************************************************)
EXTENDS Domain, Naturals, Sequences, FiniteSets, SequencesExt

CONSTANT N   \* the number of tasks of the workflow

ASSUME NAssumption == N \in Nat \ {0}

\* Tasks are numbered along the edges: an acyclic graph always can be.
Task == 1..N

VARIABLES
    deps,        \* Task.DependsOn
    before,      \* the statuses when the walk was called
    rootID,      \* the task that failed or was cancelled
    st,          \* the statuses now
    queue,       \* IDs whose dependants are still to be visited
    id,          \* the ID taken last
    unvisited,   \* tasks the range over wf.Tasks has not reached in this round
    running      \* cancelled tasks that were on a worker, to be returned

cascadeVars == <<deps, before, rootID, st, queue, id, unvisited, running>>

DAGs == {g \in [Task -> SUBSET Task] : \A t \in Task : g[t] \subseteq 1..(t - 1)}

\* RETRYING is never entered: no call of UpdateTaskStatus asks for it.
Reached == TaskStatus \ {"RETRYING"}

\* The states in which a report or a cancellation finds the workflow.
Consistent(g, s) ==
    \A t \in Task :
        /\ s[t] \notin {"PENDING", "CANCELLED"} => AllDepsSucceeded(g, s, t)
        /\ s[t] = "PENDING" =>
              /\ ~AllDepsSucceeded(g, s, t)
              /\ \A d \in g[t] : s[d] \notin {"FAILED", "CANCELLED"}

\* root was on a worker and failed, or was not finished and is cancelled.
Ended(s, r, new) ==
    /\ new \in {"FAILED", "CANCELLED"}
    /\ TaskCanTransitTo(s[r], new)

CascadeInit ==
    /\ deps \in DAGs
    /\ rootID \in Task
    /\ \E s \in [Task -> Reached], new \in {"FAILED", "CANCELLED"} :
          /\ Consistent(deps, s) /\ Ended(s, rootID, new)
          /\ before = [s EXCEPT ![rootID] = new]
    /\ st = before
    /\ queue = <<rootID>>
    /\ id = rootID
    /\ unvisited = {}
    /\ running = <<>>

\* Mutant: the queue is not advanced.
NextID_Kept ==
    /\ unvisited = {} /\ queue # <<>>
    /\ id' = Head(queue) /\ queue' = queue
    /\ unvisited' = Task
    /\ UNCHANGED <<deps, before, rootID, st, running>>

\* id := queue[0]; queue = queue[1:]
NextID ==
    /\ unvisited = {} /\ queue # <<>>
    /\ id' = Head(queue) /\ queue' = Tail(queue)
    /\ unvisited' = Task
    /\ UNCHANGED <<deps, before, rootID, st, running>>

\* Mutant: every unfinished task is taken for a dependant.
Skipped_Unrelated(t) == TaskIsFinished(st[t])

\* The walk passes t by.
Skipped(t) == TaskIsFinished(st[t]) \/ id \notin deps[t]

\* Mutant: the walk does not go on from the tasks it cancels.
Visit_OneLevel(t) ==
    /\ t \in unvisited
    /\ unvisited' = unvisited \ {t}
    /\ st' = IF Skipped(t) THEN st ELSE UpdateStatus(st, {t}, "CANCELLED")
    /\ UNCHANGED <<deps, before, rootID, queue, id, running>>

\* One iteration of the range over wf.Tasks.
Visit(t) ==
    /\ t \in unvisited
    /\ unvisited' = unvisited \ {t}
    /\ \/ /\ Skipped(t)
          /\ UNCHANGED <<st, queue, running>>
       \/ /\ ~Skipped(t)
          /\ running' = IF TaskOnWorker(st[t]) THEN Append(running, t) ELSE running
          /\ st' = UpdateStatus(st, {t}, "CANCELLED")
          /\ queue' = IF TaskCanTransitTo(st[t], "CANCELLED")
                      THEN Append(queue, t) ELSE queue
    /\ UNCHANGED <<deps, before, rootID, id>>

CascadeNext == NextID \/ \E t \in Task : Visit(t)

CascadeSpec == CascadeInit /\ [][CascadeNext]_cascadeVars /\ WF_cascadeVars(CascadeNext)

-----------------------------------------------------------------------------
Done == queue = <<>> /\ unvisited = {}

\* Whatever the order of the visits, the walk cancels exactly the tasks of the
\* closure that the engine's specification uses, and changes no other task.
CascadeIsClosure ==
    Done => st = UpdateStatus(before, cancelDownstream(deps, before, rootID),
                              "CANCELLED")

\* The walk meets no task that is on a worker, so the list it returns is empty
\* and OnTaskResponse may drop it: whoever waits for a task that was not yet
\* finished has not been dispatched.
NobodyToNotify == running = <<>>

\* The walk ends.
WalkEnds == <>Done

=============================================================================
