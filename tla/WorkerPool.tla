----------------------------- MODULE WorkerPool -----------------------------
(***************************************************************************)
(* pkg/worker_pool: a bounded channel of jobs, goroutines that execute     *)
(* them, and the way back of a job whose execution returned an error:      *)
(*                                                                         *)
(*     jobChan -> worker -> retryQ -> retryLoop -> jobsQ -> jobsLoop       *)
(*        ^                                                    |           *)
(*        +----------------------------------------------------+           *)
(*                                                                         *)
(* Stop reads the four counters one after the other and then closes the    *)
(* channels.  What a job does when it is executed is left to the module    *)
(* that uses the pool: it conjoins StartJob, JobDone and MoveToRetry with  *)
(* its own state.  The pool's context is context.Background() (main), so   *)
(* the cases for ctx.Done() never happen.                                  *)
(***************************************************************************)
EXTENDS Integers, Sequences, FiniteSets

CONSTANTS
    Jobs,         \* wp.Task values; NoJob is none of them
    NoJob,
    Goroutines,   \* the worker goroutines, workerCount of them
    Capacity,     \* length of jobChan
    Backoff       \* GetWaitDuration, in units of time of the model

ASSUME PoolAssumption ==
    /\ NoJob \notin Jobs
    /\ IsFiniteSet(Goroutines) /\ Goroutines # {}   \* a count of 0 becomes 5
    /\ Capacity \in Nat \ {0} /\ Backoff \in Nat \ {0}

VARIABLES
    jobChan,    \* the buffered channel
    jobsQ,      \* LinkedQueue: jobs whose back-off is over
    retryQ,     \* PriorityQueue: [job, wait] in the order of waitToTime
    hand,       \* hand[g]: the job goroutine g works on
    at,         \* at[g]: where goroutine g is in worker()
    jobsHand,   \* the job jobsLoop has taken and not yet sent
    retryHand,  \* the job retryLoop has taken and not yet queued
    busyCount,  \* the counter of executing goroutines
    jobsLast,   \* jobsLoop is in the round it began before stopChan closed
    stop,       \* where Stop is, "no" before it is called
    panicked    \* a send on the closed jobChan has ended the process

queueVars == <<jobChan, jobsQ, retryQ, jobsHand, retryHand, jobsLast>>
gorVars   == <<hand, at, busyCount>>
poolVars  == <<queueVars, gorVars, stop, panicked>>

\* idle: at the select.  taken: has a job, not counted yet.  busy: in Do.
\* leaving: after OnDone and moveToRetry, still counted.  gone: returned.
Place == {"idle", "taken", "busy", "leaving", "gone"}

\* The counters Stop reads, in this order, and what follows.
StopStep == {"no", "jobsQ", "retryQ", "jobChan", "busyCount", "closing",
             "closed", "returned"}

PoolTypeOK ==
    /\ jobChan \in Seq(Jobs) /\ Len(jobChan) <= Capacity
    /\ jobsQ \in Seq(Jobs)
    /\ retryQ \in Seq([job : Jobs, wait : 0..Backoff])
    /\ hand \in [Goroutines -> Jobs \cup {NoJob}]
    /\ at \in [Goroutines -> Place]
    /\ jobsHand \in Jobs \cup {NoJob} /\ retryHand \in Jobs \cup {NoJob}
    /\ busyCount \in 0..Cardinality(Goroutines) /\ jobsLast \in BOOLEAN
    /\ stop \in StopStep /\ panicked \in BOOLEAN

PoolInit ==
    /\ jobChan = <<>> /\ jobsQ = <<>> /\ retryQ = <<>>
    /\ hand = [g \in Goroutines |-> NoJob]
    /\ at = [g \in Goroutines |-> "idle"]
    /\ jobsHand = NoJob /\ retryHand = NoJob
    /\ busyCount = 0 /\ jobsLast = FALSE
    /\ stop = "no" /\ panicked = FALSE

\* stopChan and jobChan are closed one after the other by the same goroutine.
chanClosed == stop \in {"closed", "returned"}

\* The copies of job j, wherever they are.
In(s, j) == Cardinality({i \in DOMAIN s : s[i] = j})
Copies(j) ==
    In(jobChan, j) + In(jobsQ, j)
    + Cardinality({i \in DOMAIN retryQ : retryQ[i].job = j})
    + Cardinality({g \in Goroutines : hand[g] = j /\ at[g] \in {"taken", "busy"}})
    + (IF jobsHand = j THEN 1 ELSE 0) + (IF retryHand = j THEN 1 ELSE 0)

-----------------------------------------------------------------------------
\* TrySubmit.  A send on a closed channel panics, in a select too.
Full == Len(jobChan) = Capacity
Submitted(j) ==
    /\ ~chanClosed /\ ~Full
    /\ jobChan' = Append(jobChan, j)
    /\ UNCHANGED <<jobsQ, retryQ, jobsHand, retryHand, jobsLast, gorVars, stop, panicked>>
NotSubmitted == ~chanClosed /\ Full /\ UNCHANGED poolVars
Panics ==
    /\ chanClosed
    /\ panicked' = TRUE
    /\ UNCHANGED <<queueVars, gorVars, stop>>

-----------------------------------------------------------------------------
\* worker().

TakeJob(g) ==
    /\ at[g] = "idle" /\ jobChan # <<>>
    /\ jobChan' = Tail(jobChan)
    /\ hand' = [hand EXCEPT ![g] = Head(jobChan)]
    /\ at' = [at EXCEPT ![g] = "taken"]
    /\ UNCHANGED <<jobsQ, retryQ, jobsHand, retryHand, jobsLast, busyCount, stop, panicked>>

\* A closed channel hands out what it still holds before it reports its end.
WorkerReturns_AtOnce(g) ==
    /\ at[g] = "idle" /\ chanClosed
    /\ at' = [at EXCEPT ![g] = "gone"]
    /\ UNCHANGED <<queueVars, hand, busyCount, stop, panicked>>
WorkerReturns(g) ==
    /\ at[g] = "idle" /\ chanClosed /\ jobChan = <<>>
    /\ at' = [at EXCEPT ![g] = "gone"]
    /\ UNCHANGED <<queueVars, hand, busyCount, stop, panicked>>

StartJob(g) ==
    /\ at[g] = "taken"
    /\ at' = [at EXCEPT ![g] = "busy"]
    /\ busyCount' = busyCount + 1
    /\ UNCHANGED <<queueVars, hand, stop, panicked>>

\* Do and OnDone without an error.
JobDone(g) ==
    /\ at[g] = "busy"
    /\ at' = [at EXCEPT ![g] = "leaving"]
    /\ UNCHANGED <<queueVars, hand, busyCount, stop, panicked>>

\* The back-off of a job is the same every time, so the newest entry of the
\* priority queue is the last to come due.
Enqueue(j) == Append(retryQ, [job |-> j, wait |-> Backoff])

MoveToRetry(g) ==
    /\ at[g] = "busy"
    /\ retryQ' = Enqueue(hand[g])
    /\ at' = [at EXCEPT ![g] = "leaving"]
    /\ UNCHANGED <<jobChan, jobsQ, jobsHand, retryHand, jobsLast, hand, busyCount, stop, panicked>>

LeaveJob(g) ==
    /\ at[g] = "leaving"
    /\ busyCount' = busyCount - 1
    /\ at' = [at EXCEPT ![g] = "idle"]
    /\ hand' = [hand EXCEPT ![g] = NoJob]
    /\ UNCHANGED <<queueVars, stop, panicked>>

-----------------------------------------------------------------------------
\* retryLoop and jobsLoop.  Both look at stopChan only at the top of their
\* loops: past that point jobsLoop goes on with one more job, retryLoop with
\* every job that is due (the model does not make it return after that round;
\* nobody takes from jobsQ any more then).

TimePasses ==
    /\ \E i \in DOMAIN retryQ : retryQ[i].wait > 0
    /\ retryQ' = [i \in DOMAIN retryQ |->
                     [retryQ[i] EXCEPT !.wait = IF @ > 0 THEN @ - 1 ELSE 0]]
    /\ UNCHANGED <<jobChan, jobsQ, jobsHand, retryHand, jobsLast, gorVars, stop, panicked>>

RetryLoopTakes_Early ==
    /\ retryHand = NoJob /\ retryQ # <<>> /\ Head(retryQ).wait > 0
    /\ retryHand' = Head(retryQ).job /\ retryQ' = Tail(retryQ)
    /\ UNCHANGED <<jobChan, jobsQ, jobsHand, jobsLast, gorVars, stop, panicked>>
RetryLoopTakes ==
    /\ retryHand = NoJob /\ retryQ # <<>> /\ Head(retryQ).wait = 0
    /\ retryHand' = Head(retryQ).job /\ retryQ' = Tail(retryQ)
    /\ UNCHANGED <<jobChan, jobsQ, jobsHand, jobsLast, gorVars, stop, panicked>>

RetryLoopQueues ==
    /\ retryHand # NoJob
    /\ jobsQ' = Append(jobsQ, retryHand) /\ retryHand' = NoJob
    /\ UNCHANGED <<jobChan, retryQ, jobsHand, jobsLast, gorVars, stop, panicked>>

JobsLoopTakes ==
    /\ jobsHand = NoJob /\ jobsQ # <<>> /\ ~jobsLast
    /\ jobsLast' = chanClosed
    /\ jobsHand' = Head(jobsQ) /\ jobsQ' = Tail(jobsQ)
    /\ UNCHANGED <<jobChan, retryQ, retryHand, gorVars, stop, panicked>>

\* The send blocks while the channel is full and panics once it is closed.
JobsLoopSends ==
    /\ jobsHand # NoJob
    /\ \/ Panics
       \/ /\ ~chanClosed /\ ~Full
          /\ jobChan' = Append(jobChan, jobsHand) /\ jobsHand' = NoJob
          /\ UNCHANGED <<jobsQ, retryQ, retryHand, jobsLast, gorVars, stop, panicked>>

-----------------------------------------------------------------------------
\* Stop.

Counter == [jobsQ |-> Len(jobsQ), retryQ |-> Len(retryQ),
            jobChan |-> Len(jobChan), busyCount |-> busyCount]
After(c) == CASE c = "jobsQ" -> "retryQ" [] c = "retryQ" -> "jobChan"
              [] c = "jobChan" -> "busyCount" [] c = "busyCount" -> "closing"

StopCalled ==
    /\ stop = "no"
    /\ stop' = "jobsQ"
    /\ UNCHANGED <<queueVars, gorVars, panicked>>

\* The next operand of the condition; anything but zero ends the evaluation,
\* and Stop sleeps and starts again.
StopReads ==
    /\ stop \in DOMAIN Counter
    /\ stop' = IF Counter[stop] = 0 THEN After(stop) ELSE "jobsQ"
    /\ UNCHANGED <<queueVars, gorVars, panicked>>

\* close(stopChan) and close(jobChan).
StopCloses ==
    /\ stop = "closing"
    /\ stop' = "closed"
    /\ UNCHANGED <<queueVars, gorVars, panicked>>

\* wg.Wait returns.
StopReturns ==
    /\ stop = "closed" /\ \A g \in Goroutines : at[g] = "gone"
    /\ stop' = "returned"
    /\ UNCHANGED <<queueVars, gorVars, panicked>>

\* The steps that concern the pool alone.
PoolStep ==
    \/ \E g \in Goroutines : TakeJob(g) \/ WorkerReturns(g) \/ LeaveJob(g)
    \/ TimePasses \/ RetryLoopTakes \/ RetryLoopQueues
    \/ JobsLoopTakes \/ JobsLoopSends
StopNext == StopReads \/ StopCloses \/ StopReturns
=============================================================================
