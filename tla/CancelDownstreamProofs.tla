----------------------- MODULE CancelDownstreamProofs -----------------------
(***************************************************************************)
(* Machine-checked proofs about CancelDownstream, for workflows of any     *)
(* size, every graph and every order in which the map is visited: the loop *)
(* computes the set Domain!cancelDownstream that the engine's              *)
(* specification uses, and meets no task that is on a worker.              *)
(***************************************************************************)
EXTENDS CancelDownstream, TLAPS

\* The cascade the walk should cancel.
Cascade == cancelDownstream(deps, before, rootID)

\* Cancelled by the walk so far.
Touched(t) == st[t] # before[t]

Queued(d) == \E i \in DOMAIN queue : queue[i] = d

\* The state the walk was called in: the root has ended, and whoever was handed
\* out waits for tasks that have succeeded, hence not for the root.
CalledOK ==
    /\ deps \in [Task -> SUBSET Task]
    /\ before \in [Task -> Reached]
    /\ rootID \in Task /\ before[rootID] \in {"FAILED", "CANCELLED"}
    /\ \A t \in Task : TaskOnWorker(before[t]) =>
          \A d \in deps[t] : d # rootID /\ before[d] = "SUCCEEDED"

WalkType ==
    /\ st \in [Task -> Reached]
    /\ queue \in Seq(Task) /\ id \in Task /\ unvisited \subseteq Task

\* No more than the cascade is touched, and the walk goes on only from the root
\* and from what it has touched.
Sound ==
    /\ \A t \in Task : Touched(t) =>
          st[t] = "CANCELLED" /\ Cancellable(before[t]) /\ t \in Cascade
    /\ id = rootID \/ Touched(id)
    /\ \A i \in DOMAIN queue : queue[i] = rootID \/ Touched(queue[i])

\* A task of the cascade that is not touched yet is still ahead: a task it
\* waits for is queued, or is being visited and the visit has not come to it.
Complete ==
    \A t \in Task, d \in Task :
        Cancellable(before[t]) /\ d \in deps[t] /\ (d = rootID \/ Touched(d)) =>
            Touched(t) \/ Queued(d) \/ (d = id /\ t \in unvisited)

IInv == CalledOK /\ WalkType /\ Sound /\ Complete /\ NobodyToNotify

-----------------------------------------------------------------------------
\* What can be cancelled, among the statuses that occur.
LEMMA CancellableStatus ==
    \A s \in Reached : /\ Cancellable(s) <=> ~TaskIsFinished(s)
                       /\ TaskCanTransitTo(s, "CANCELLED") <=> ~TaskIsFinished(s)
  BY DEF Reached, TaskStatus, Cancellable, TaskIsFinished, TaskCanTransitTo, taskStatusesGraph

\* The cascade is closed under "waits for", as far as tasks can be cancelled.
LEMMA CascadeGrows ==
    ASSUME CalledOK, NEW t \in Task, Cancellable(before[t]),
           NEW d \in deps[t], d = rootID \/ d \in Cascade
    PROVE  t \in Cascade
  BY DEF Cascade, cancelDownstream, CascadeClosed, CalledOK

\* The invariant holds when the walk is called.
LEMMA InvInit == CascadeInit => IInv
<1> SUFFICES ASSUME CascadeInit PROVE IInv
  OBVIOUS
<1>1. deps \in [Task -> SUBSET Task] /\ rootID \in Task
  BY DEF CascadeInit, DAGs
<1>2. PICK s \in [Task -> Reached], new \in {"FAILED", "CANCELLED"} :
         /\ Consistent(deps, s) /\ Ended(s, rootID, new)
         /\ before = [s EXCEPT ![rootID] = new]
  BY DEF CascadeInit
<1>3. \A t \in Task : before[t] = IF t = rootID THEN new ELSE s[t]
  BY <1>1, <1>2
<1>4. new \in Reached
  BY DEF Reached, TaskStatus
<1>5. before \in [Task -> Reached] /\ before[rootID] \in {"FAILED", "CANCELLED"}
  BY <1>1, <1>2, <1>3, <1>4
<1>6. s[rootID] # "SUCCEEDED"
  BY <1>2 DEF Ended, TaskCanTransitTo, taskStatusesGraph
<1>7. ASSUME NEW t \in Task, TaskOnWorker(before[t]), NEW d \in deps[t]
      PROVE  d # rootID /\ before[d] = "SUCCEEDED"
  <2>1. t # rootID /\ s[t] = before[t] /\ s[t] \notin {"PENDING", "CANCELLED"}
    BY <1>3, <1>7 DEF TaskOnWorker
  <2>2. s[d] = "SUCCEEDED"
    BY <1>2, <1>7, <2>1 DEF Consistent, AllDepsSucceeded
  <2>3. d \in Task /\ d # rootID
    BY <1>1, <1>6, <1>7, <2>2
  <2> QED
    BY <1>3, <2>2, <2>3
<1>8. CalledOK
  BY <1>1, <1>5, <1>7 DEF CalledOK
<1>9. WalkType
  BY <1>1, <1>5 DEF CascadeInit, WalkType
<1>10. queue = <<rootID>> /\ st = before /\ id = rootID /\ running = <<>>
  BY DEF CascadeInit
<1>11. Sound
  BY <1>10 DEF Sound, Touched
<1>12. Queued(rootID)
  BY <1>10 DEF Queued
<1>13. Complete
  BY <1>10, <1>12 DEF Complete, Touched
<1> QED
  BY <1>8, <1>9, <1>10, <1>11, <1>13 DEF IInv, NobodyToNotify

\* Taking the next ID from the queue keeps it.
LEMMA NextIDKeeps == IInv /\ NextID => IInv'
<1> SUFFICES ASSUME IInv, NextID PROVE IInv'
  OBVIOUS
<1>1. /\ unvisited = {} /\ queue # <<>> /\ id' = Head(queue) /\ queue' = Tail(queue)
      /\ unvisited' = Task /\ UNCHANGED <<deps, before, rootID, st, running>>
  BY DEF NextID
<1>2. CalledOK' /\ NobodyToNotify'
  BY <1>1 DEF IInv, CalledOK, NobodyToNotify
<1>3. queue \in Seq(Task) /\ Len(queue) > 0 /\ 1 \in DOMAIN queue /\ Head(queue) = queue[1]
  BY <1>1 DEF IInv, WalkType
<1>4. /\ Tail(queue) \in Seq(Task)
      /\ DOMAIN Tail(queue) = 1..(Len(queue) - 1)
      /\ \A i \in 1..(Len(queue) - 1) : Tail(queue)[i] = queue[i + 1]
  BY <1>3
<1>5. WalkType'
  <2>1. queue' \in Seq(Task)
    BY <1>1, <1>4, Zenon
  <2> QED
    BY <1>1, <1>3, <2>1 DEF IInv, WalkType
<1>6. \A i \in DOMAIN queue' : \E j \in DOMAIN queue : queue'[i] = queue[j]
  BY <1>1, <1>3, <1>4
<1>7. \A d : Queued(d) => d = id' \/ Queued(d)'
  <2> SUFFICES ASSUME NEW d, NEW i \in DOMAIN queue, queue[i] = d, d # queue[1]
               PROVE  \E j \in DOMAIN queue' : queue'[j] = d
    BY <1>1, <1>3 DEF Queued
  <2>1. i \in 2..Len(queue)
    BY <1>3
  <2>2. i - 1 \in 1..(Len(queue) - 1) /\ Tail(queue)[i - 1] = d
    BY <1>3, <1>4, <2>1
  <2> QED
    BY <1>1, <1>4, <2>2
<1>8. \A t : Touched(t)' <=> Touched(t)
  BY <1>1 DEF Touched
<1>9. Cascade' = Cascade
  BY <1>1 DEF Cascade
<1>10. Sound'
  <2>1. \A t \in Task : Touched(t)' =>
           st'[t] = "CANCELLED" /\ Cancellable(before'[t]) /\ t \in Cascade'
    BY <1>1, <1>8, <1>9 DEF IInv, Sound
  <2>2. (id = rootID \/ Touched(id))'
    BY <1>1, <1>3 DEF IInv, Sound, Touched
  <2>3. (\A i \in DOMAIN queue : queue[i] = rootID \/ Touched(queue[i]))'
    BY <1>1, <1>6 DEF IInv, Sound, Touched
  <2> QED
    BY <2>1, <2>2, <2>3 DEF Sound
<1>11. Complete'
  <2> SUFFICES ASSUME NEW t \in Task, NEW d \in Task, Cancellable(before[t]), d \in deps[t],
                      d = rootID \/ Touched(d)
               PROVE  Touched(t) \/ Queued(d)' \/ d = id'
    BY <1>1, <1>8 DEF Complete
  <2>1. Touched(t) \/ Queued(d)
    BY <1>1 DEF IInv, Complete
  <2> QED
    BY <1>7, <2>1
<1> QED
  BY <1>2, <1>5, <1>10, <1>11 DEF IInv

\* A visit keeps it.
LEMMA VisitKeeps == ASSUME IInv, NEW x \in Task, Visit(x) PROVE IInv'
<1>1. /\ x \in unvisited /\ unvisited' = unvisited \ {x} /\ UNCHANGED <<deps, before, rootID, id>>
      /\ queue \in Seq(Task) /\ st \in [Task -> Reached] /\ id \in Task
  BY DEF Visit, IInv, WalkType
<1>2. CalledOK' /\ Cascade' = Cascade
  BY <1>1 DEF IInv, CalledOK, Cascade
<1>3. CASE Skipped(x)
  <2>1. UNCHANGED <<st, queue, running>>
    BY <1>3 DEF Visit
  <2>2. WalkType' /\ NobodyToNotify' /\ Sound'
    BY <1>1, <1>2, <2>1 DEF IInv, WalkType, NobodyToNotify, Sound, Touched
  <2>3. \A t : (Touched(t)' <=> Touched(t)) /\ (Queued(t)' <=> Queued(t))
    BY <1>1, <2>1 DEF Touched, Queued
  <2>4. Complete'
    <3> SUFFICES ASSUME NEW t \in Task, NEW d \in Task, Cancellable(before[t]), d \in deps[t],
                        d = rootID \/ Touched(d), ~Touched(t), ~Queued(d)
                 PROVE  d = id /\ t \in unvisited \ {x}
      BY <1>1, <2>3 DEF Complete
    <3>1. d = id /\ t \in unvisited
      BY DEF IInv, Complete
    <3>2. ~TaskIsFinished(st[t])
      BY DEF Touched, Cancellable
    <3>3. t # x
      BY <1>3, <3>1, <3>2 DEF Skipped
    <3> QED
      BY <3>1, <3>3
  <2> QED
    BY <1>2, <2>2, <2>4 DEF IInv
<1>4. CASE ~Skipped(x)
  <2>1. ~TaskIsFinished(st[x]) /\ id \in deps[x]
    BY <1>4 DEF Skipped
  <2>2. st[x] \in Reached /\ TaskCanTransitTo(st[x], "CANCELLED")
    BY <1>1, <2>1, CancellableStatus
  <2>3. st[x] = before[x] /\ x # rootID
    BY <2>1 DEF IInv, Sound, Touched, TaskIsFinished, CalledOK
  <2>4. Cancellable(before[x])
    BY <2>1, <2>2, <2>3, CancellableStatus
  <2>5. x \in Cascade
    <3>1. id = rootID \/ id \in Cascade
      BY <1>1 DEF IInv, Sound
    <3> QED
      BY <2>1, <2>4, <3>1, CascadeGrows DEF IInv
  \* Whoever waits for id has not been handed out.
  <2>6. ~TaskOnWorker(st[x])
    <3> SUFFICES ASSUME TaskOnWorker(before[x]) PROVE FALSE
      BY <2>3
    <3>1. id # rootID /\ before[id] = "SUCCEEDED"
      BY <2>1 DEF IInv, CalledOK
    <3>2. Cancellable(before[id])
      BY <1>1, <3>1 DEF IInv, Sound
    <3> QED
      BY <3>1, <3>2 DEF Cancellable, TaskIsFinished
  <2>7. running' = running /\ queue' = Append(queue, x)
        /\ st' = UpdateStatus(st, {x}, "CANCELLED")
    BY <1>4, <2>2, <2>6 DEF Visit
  <2>8. \A t \in Task : st'[t] = IF t = x THEN "CANCELLED" ELSE st[t]
    BY <1>1, <2>2, <2>7 DEF UpdateStatus
  <2>9. st' \in [Task -> Reached]
    <3>1. "CANCELLED" \in Reached
      BY DEF Reached, TaskStatus
    <3>2. st' = [t \in Task |-> st'[t]]
      BY <1>1, <2>7 DEF UpdateStatus
    <3> QED
      BY <1>1, <2>8, <3>1, <3>2
  <2>10. /\ Append(queue, x) \in Seq(Task)
         /\ DOMAIN Append(queue, x) = 1..(Len(queue) + 1)
         /\ \A i \in DOMAIN queue : i \in 1..(Len(queue) + 1) /\ Append(queue, x)[i] = queue[i]
         /\ Append(queue, x)[Len(queue) + 1] = x
         /\ \A i \in 1..(Len(queue) + 1) : i \in DOMAIN queue \/ i = Len(queue) + 1
         /\ Len(queue) + 1 \in 1..(Len(queue) + 1)
    BY <1>1
  <2>11. WalkType' /\ NobodyToNotify'
    <3>1. queue' \in Seq(Task)
      BY <2>7, <2>10, Zenon
    <3> QED
      BY <1>1, <2>7, <2>9, <3>1 DEF IInv, WalkType, NobodyToNotify
  <2>12. \A t \in Task : Touched(t)' <=> t = x \/ Touched(t)
    <3>1. before[x] # "CANCELLED"
      BY <2>1, <2>3 DEF TaskIsFinished
    <3> QED
      BY <1>1, <2>8, <3>1 DEF Touched
  <2>13. \A i \in DOMAIN queue' : queue'[i] = x \/ \E j \in DOMAIN queue : queue'[i] = queue[j]
    BY <2>7, <2>10
  <2>14. \A d : Queued(d)' <=> d = x \/ Queued(d)
    BY <2>7, <2>10 DEF Queued
  <2>15. \A i \in DOMAIN queue : queue[i] \in Task
    BY <1>1
  <2>16. Sound'
    <3>1. \A t \in Task : Touched(t)' =>
             st'[t] = "CANCELLED" /\ Cancellable(before[t]) /\ t \in Cascade
      BY <2>4, <2>5, <2>8, <2>12 DEF IInv, Sound
    <3>2. id = rootID \/ Touched(id)'
      BY <1>1, <2>12 DEF IInv, Sound
    <3>3. ASSUME NEW i \in DOMAIN queue' PROVE (queue'[i] = rootID \/ st'[queue'[i]] # before[queue'[i]])
      <4>1. PICK q \in Task : q = queue'[i] /\ (q = x \/ q = rootID \/ Touched(q))
        BY <2>13, <2>15, <3>3 DEF IInv, Sound
      <4>2. q = rootID \/ Touched(q)'
        BY <2>12, <4>1
      <4> QED
        BY <1>1, <4>1, <4>2 DEF Touched
    <3> QED
      BY <1>1, <1>2, <3>1, <3>2, <3>3 DEF Sound, Touched
  <2>17. Complete'
    <3> SUFFICES ASSUME NEW t \in Task, NEW d \in Task, Cancellable(before[t]), d \in deps[t],
                        d = rootID \/ Touched(d)', ~Touched(t)', ~Queued(d)'
                 PROVE  d = id /\ t \in unvisited \ {x}
      BY <1>1 DEF Complete
    <3>1. t # x /\ ~Touched(t) /\ d # x /\ ~Queued(d)
      BY <2>12, <2>14
    <3>2. d = rootID \/ Touched(d)
      BY <2>12, <3>1
    <3> QED
      BY <3>1, <3>2 DEF IInv, Complete
  <2> QED
    BY <1>2, <2>11, <2>16, <2>17 DEF IInv
<1> QED
  BY <1>3, <1>4

\* The invariant holds throughout the walk.
LEMMA InvCorrect == CascadeSpec => []IInv
<1>1. IInv /\ [CascadeNext]_cascadeVars => IInv'
  <2> SUFFICES ASSUME IInv, [CascadeNext]_cascadeVars PROVE IInv'
    OBVIOUS
  <2>1. CASE UNCHANGED cascadeVars
    BY <2>1 DEF cascadeVars, IInv, CalledOK, WalkType, Sound, Complete, NobodyToNotify, Touched, Queued,
                Cascade
  <2> QED
    BY <2>1, NextIDKeeps, VisitKeeps DEF CascadeNext
<1> QED
  BY <1>1, InvInit, PTL DEF CascadeSpec

\* When the walk is over, what it has touched is closed, so it holds the whole
\* cascade; and it holds no more.
LEMMA DoneIsCascade ==
    ASSUME IInv, Done, NEW t \in Task
    PROVE  Touched(t) <=> t \in Cascade
<1> DEFINE W == {u \in Task : Touched(u)}
<1>1. queue = <<>> /\ unvisited = {} /\ DOMAIN deps = Task
  BY DEF Done, IInv, CalledOK
<1>2. \A d : ~Queued(d)
  BY <1>1 DEF Queued
<1>3. CascadeClosed(deps, before, rootID, W)
  <2> SUFFICES ASSUME NEW u \in Task, Cancellable(before[u]),
                      NEW d \in deps[u], d = rootID \/ d \in W
               PROVE  u \in W
    BY <1>1 DEF CascadeClosed
  <2>1. d \in Task
    BY DEF IInv, CalledOK
  <2> QED
    BY <1>1, <1>2, <2>1 DEF IInv, Complete
<1>4. Cascade \subseteq W
  BY <1>1, <1>3 DEF Cascade, cancelDownstream
<1> QED
  BY <1>4 DEF IInv, Sound

\* Whatever the graph, the statuses and the order of the visits, the walk
\* cancels exactly the closure that the engine's specification uses and leaves
\* every other task alone.
THEOREM CascadeIsClosureCorrect == CascadeSpec => []CascadeIsClosure
<1>1. ASSUME IInv, Done PROVE st = UpdateStatus(before, Cascade, "CANCELLED")
  <2>1. \A t \in Task : Touched(t) <=> t \in Cascade
    BY <1>1, DoneIsCascade
  <2>2. st \in [Task -> Reached] /\ before \in [Task -> Reached]
    BY <1>1 DEF IInv, WalkType, CalledOK
  <2>3. \A t \in Task : Touched(t) =>
           st[t] = "CANCELLED" /\ TaskCanTransitTo(before[t], "CANCELLED")
    BY <1>1 DEF IInv, Sound, Cancellable
  <2>4. \A t \in Task : st[t] = IF t \in Cascade /\ TaskCanTransitTo(before[t], "CANCELLED")
                                THEN "CANCELLED" ELSE before[t]
    BY <2>1, <2>3 DEF Touched
  <2> HIDE DEF Cascade
  <2> QED
    BY <2>2, <2>4 DEF UpdateStatus
<1>2. IInv => CascadeIsClosure
  BY <1>1 DEF CascadeIsClosure, Cascade
<1> QED
  BY <1>2, InvCorrect, PTL

\* The walk never meets a task on a worker: dropping the list it returns, as
\* OnTaskResponse does, loses nothing.
THEOREM NobodyToNotifyCorrect == CascadeSpec => []NobodyToNotify
  BY InvCorrect, PTL DEF IInv

=============================================================================
