--------------------------- MODULE WorkerService ----------------------------
(***************************************************************************)
(* The worker process: DispatchTask and CancelTasks of the gRPC server,    *)
(* the table `unique' of the tasks in flight, and the pool that executes   *)
(* them.  A Dispatch handler runs concurrently with the pool and with      *)
(* other handlers, of the same task too (the control plane repeats a call  *)
(* whose answer it did not get); between unique.Add and TrySubmit it holds *)
(* no lock.                                                                *)
(*                                                                         *)
(* A Dispatch the worker refuses because it is suspended changes nothing   *)
(* here; the heartbeat loop that suspends it is in module Registry.  What  *)
(* becomes of the reports is in module Orchestrator.                       *)
(***************************************************************************)
EXTENDS WorkerPool

CONSTANTS
    ShellTasks,   \* tasks (members of Jobs) of type shell
    HttpTasks,    \* tasks of type http; the others have no executor here
    Faulty,       \* tasks of which Execute can return an error
    Broken        \* tasks of which it always does: payload, no such command

KnownTasks == ShellTasks \cup HttpTasks

ASSUME ServiceAssumption ==
    /\ KnownTasks \subseteq Jobs /\ ShellTasks \cap HttpTasks = {}
    /\ Faulty \subseteq KnownTasks /\ Broken \subseteq KnownTasks

VARIABLES
    unique,    \* the keys of unique.items
    adding,    \* tasks whose handler is between unique.Add and TrySubmit
    ctx,       \* ctx[t]: the state of the context behind the stored cancel
    told,      \* tasks for which CancelTasks answered true in this stay
    answer     \* answer[t]: what Dispatch has promised for this stay

svcVars == <<unique, adding, ctx, told, answer>>
vars    == <<poolVars, svcVars>>

\* none: no cancel function (nil).  live, cancelled: the attempt is running.
\* ended: the attempt is over, its cancel function still in the table.
Context == {"none", "live", "cancelled", "ended"}

\* accepted: the pool has the task.  early: a repeated Dispatch was told that
\* the task is in flight before the first one had handed it to the pool.
Answer == {"none", "early", "accepted"}

TypeOK ==
    /\ PoolTypeOK
    /\ unique \subseteq Jobs /\ adding \subseteq unique /\ told \subseteq unique
    /\ ctx \in [Jobs -> Context]
    /\ answer \in [Jobs -> Answer]

Init ==
    /\ PoolInit
    /\ unique = {} /\ adding = {} /\ told = {}
    /\ ctx = [t \in Jobs |-> "none"]
    /\ answer = [t \in Jobs |-> "none"]

-----------------------------------------------------------------------------
\* DispatchTask.

\* unique.Add succeeds.  Without an executor for its type the handler returns
\* an error here and leaves the key behind.
DispatchAdds(t) ==
    /\ t \notin unique
    /\ unique' = unique \cup {t}
    /\ ctx' = [ctx EXCEPT ![t] = "none"]
    /\ answer' = [answer EXCEPT ![t] = "none"]
    /\ adding' = IF t \in KnownTasks THEN adding \cup {t} ELSE adding
    /\ UNCHANGED <<told, poolVars>>

\* unique.Add finds the key: accepted, and nothing else happens.
DispatchRepeated(t) ==
    /\ t \in unique
    /\ answer' = [answer EXCEPT ![t] = IF @ = "none" THEN "early" ELSE @]
    /\ UNCHANGED <<unique, adding, ctx, told, poolVars>>

\* "worker pool is full": the key is removed, the task refused.
RefusesFull_Accepts(t) ==
    /\ NotSubmitted
    /\ unique' = unique \ {t} /\ adding' = adding \ {t}
    /\ answer' = [answer EXCEPT ![t] = "accepted"]
RefusesFull(t) ==
    /\ NotSubmitted
    /\ unique' = unique \ {t} /\ adding' = adding \ {t}
    /\ UNCHANGED answer

DispatchSubmits(t) ==
    /\ t \in adding
    /\ UNCHANGED <<ctx, told>>
    /\ \/ /\ Submitted(t)
          /\ adding' = adding \ {t}
          /\ answer' = [answer EXCEPT ![t] = "accepted"]
          /\ UNCHANGED unique
       \/ RefusesFull(t)
       \/ Panics /\ UNCHANGED <<unique, adding, answer>>

-----------------------------------------------------------------------------
\* CancelTasks, for one task of the batch.  The cancel function is called
\* outside the mutex; that of an attempt that has ended does nothing.
Cancel(t) ==
    /\ t \in unique /\ ctx[t] # "none"
    /\ told' = told \cup {t}
    /\ ctx' = [ctx EXCEPT ![t] = IF @ = "live" THEN "cancelled" ELSE @]
    /\ UNCHANGED <<unique, adding, answer, poolVars>>

-----------------------------------------------------------------------------
\* trackedTask and ExecutableTask.

\* Do begins: a new context, its cancel function in the table.
Begin(g) ==
    /\ StartJob(g)
    /\ ctx' = [ctx EXCEPT ![hand[g]] = "live"]
    /\ UNCHANGED <<unique, adding, told, answer>>

\* What Execute can return: failed is a result (exit code, status, time-out),
\* not an error.  A shell command whose context is cancelled before it has
\* started is an error; an http request then is a failed result.
Executed(t) ==
    {"ok", "failed"}
    \cup IF t \in ShellTasks /\ ctx[t] = "cancelled" THEN {"error"} ELSE {}
Outcomes(t) ==
    IF t \in Broken THEN {"error"}
    ELSE Executed(t) \cup IF t \in Faulty THEN {"error"} ELSE {}

\* onDone(nil).
Forget(t) ==
    /\ unique' = unique \ {t}
    /\ told' = told \ {t}
    /\ ctx' = [ctx EXCEPT ![t] = "none"]
    /\ answer' = [answer EXCEPT ![t] = "none"]
    /\ UNCHANGED adding

\* onDone(err): the key stays, for the pool tries the same job again, however
\* often it has failed: nothing reads the task's MaxRetries.
KeepKey_Removed(t) ==
    /\ ctx' = [ctx EXCEPT ![t] = "none"]
    /\ unique' = unique \ {t} /\ told' = told \ {t}
    /\ answer' = [answer EXCEPT ![t] = "none"]
    /\ UNCHANGED adding
KeepKey(t) ==
    /\ ctx' = [ctx EXCEPT ![t] = "ended"]
    /\ UNCHANGED <<unique, adding, told, answer>>

EndsInError(g) ==
    /\ "error" \in Outcomes(hand[g])
    /\ MoveToRetry(g) /\ KeepKey(hand[g])
EndsInResult(g) ==
    /\ Outcomes(hand[g]) # {"error"}
    /\ JobDone(g) /\ Forget(hand[g])
Finishes(t) == \E g \in Goroutines : at[g] = "busy" /\ hand[g] = t /\ EndsInResult(g)
End(g) == at[g] = "busy" /\ (EndsInError(g) \/ EndsInResult(g))

-----------------------------------------------------------------------------
Pool == PoolStep /\ UNCHANGED svcVars

\* Stop has no caller in the process (main serves until it is killed); the
\* pool's tests call it.  The handlers go on during and after it.
Stop == (StopCalled \/ StopNext) /\ UNCHANGED svcVars

Next ==
    /\ ~panicked
    /\ \/ \E t \in Jobs : \/ DispatchAdds(t) \/ DispatchRepeated(t)
                          \/ DispatchSubmits(t) \/ Cancel(t)
       \/ \E g \in Goroutines : Begin(g) \/ End(g)
       \/ Pool \/ Stop

\* The goroutines of the process are scheduled, time passes, and Execute
\* returns: both executors run under the task's time-out.  jobsLoop's send is
\* strongly fair because a blocked sender is the first to get the place a
\* receiver frees, before any later TrySubmit.  Of the executors it is assumed
\* that a task which is not Broken does not end in an error every time.
Alone(A) == ~panicked /\ A /\ UNCHANGED svcVars
Fairness ==
    /\ \A t \in Jobs : WF_vars(~panicked /\ DispatchSubmits(t))
    /\ \A g \in Goroutines :
          /\ WF_vars(Alone(TakeJob(g))) /\ WF_vars(Alone(LeaveJob(g)))
          /\ WF_vars(~panicked /\ Begin(g)) /\ WF_vars(~panicked /\ End(g))
    /\ WF_vars(Alone(TimePasses))
    /\ WF_vars(Alone(RetryLoopTakes)) /\ WF_vars(Alone(RetryLoopQueues))
    /\ WF_vars(Alone(JobsLoopTakes)) /\ SF_vars(Alone(JobsLoopSends))
    /\ \A t \in KnownTasks \ Broken : SF_vars(~panicked /\ Finishes(t))

Spec == Init /\ [][Next]_vars /\ Fairness

-----------------------------------------------------------------------------
\* A key is in the table exactly as long as there is one job for it, in a
\* queue, in a hand or with the handler that is about to submit it: never a
\* second copy (tracked_task.go: the key must outlive a failed attempt), and
\* never a key that shuts a task out which nobody will execute.  Only a type
\* without executor leaves such a key.
OneCopy ==
    \A t \in Jobs :
        IF t \in KnownTasks
        THEN Copies(t) + Cardinality({t} \cap adding) = Cardinality({t} \cap unique)
        ELSE Copies(t) = 0

\* A task whose Dispatch was accepted is in the pool until an attempt ends
\* without an error, unless the answer was given early, to a repeated call.
AcceptedIsHeld ==
    \A t \in Jobs : answer[t] = "accepted" => t \in unique /\ Copies(t) = 1

\* A job on its way back into the channel after an executor error.
InBackoff(t) ==
    \/ jobsHand = t \/ retryHand = t
    \/ \E i \in DOMAIN jobsQ : jobsQ[i] = t
    \/ \E i \in DOMAIN retryQ : retryQ[i].job = t

\* When Stop has returned, no task is executing, in the channel, or between
\* the channel and the counter of a goroutine that has just taken it: what is
\* still in flight is with a handler that has yet to submit it, or on its way
\* back to another attempt.
StopWaits ==
    stop = "returned" =>
        /\ busyCount = 0
        /\ \A t \in unique \cap KnownTasks : t \in adding \/ InBackoff(t)

\* When Stop has returned, no task waits for another attempt: the promise of
\* the comment on Stop and of its test.  (Violated: the four lengths are read
\* one after the other, and a job in between is in none of them.)
NoRetryLost == stop = "returned" => \A t \in KnownTasks : ~InBackoff(t)

\* Every task that can be executed leaves the table, executed or refused,
\* unless the pool is stopped: whatever the order of retries, repeated calls
\* and cancellations, its job is stuck neither in the back-off loop nor behind
\* a full channel, also while another one is going round for ever.
TaskLeavesTable ==
    \A t \in KnownTasks \ Broken : t \in unique ~> (t \notin unique \/ stop # "no")

\* The attempts of a task run out, as its MaxRetries says: it leaves the table
\* even if every one of them ends in an error.  (Violated: moveToRetry.)
RetriesRunOut ==
    \A t \in Broken : t \in unique ~> (t \notin unique \/ stop # "no")

\* After CancelTasks has answered true no further attempt of the task begins
\* before it is dispatched again.  (Violated: Cancel answers true for a task
\* in back-off, and an attempt that its cancellation ended in an error is
\* tried again, with a new context.)
CancelIsFinal ==
    [][\A g \in Goroutines, t \in KnownTasks :
          Begin(g) /\ hand[g] = t => t \notin told]_vars

=============================================================================
