------------------------ MODULE WorkerServiceProofs -------------------------
(***************************************************************************)
(* Machine-checked proofs about WorkerService and the pool below it, for   *)
(* any number of tasks, of goroutines, of errors and of repeated calls,    *)
(* and for any capacity of the channel.                                    *)
(***************************************************************************)
EXTENDS WorkerService, SequenceCounts

-----------------------------------------------------------------------------
\* The inductive invariant.

\* The goroutines the counter stands for.
Counted == {g \in Goroutines : at[g] \in {"busy", "leaving"}}

\* The pool: the counter is exact, and nobody has returned while there was
\* something in the channel.
PoolInv ==
    /\ PoolTypeOK
    /\ \A g \in Goroutines : at[g] \in {"taken", "busy"} => hand[g] \in Jobs
    /\ busyCount = Cardinality(Counted)
    /\ \A g \in Goroutines : at[g] = "gone" => chanClosed /\ jobChan = <<>>
    /\ stop = "returned" => \A g \in Goroutines : at[g] = "gone"

\* The table: what its entries say of the pool's jobs.  A handler that has
\* not submitted its job has no context yet; a task that CancelTasks has
\* answered for has one.
TableInv ==
    /\ TypeOK
    /\ adding \subseteq KnownTasks
    /\ OneCopy
    /\ AcceptedIsHeld
    /\ \A t \in adding : ctx[t] = "none"
    /\ \A t \in told : ctx[t] # "none"

IInv == PoolInv /\ TableInv

-----------------------------------------------------------------------------
\* Counting the copies of a job.

Entry == [job : Jobs, wait : 0..Backoff]
ROcc(q, j) == Cardinality({i \in DOMAIN q : q[i].job = j})
Holding(h, a, j) == {g \in Goroutines : h[g] = j /\ a[g] \in {"taken", "busy"}}
HOcc(h, a, j) == Cardinality(Holding(h, a, j))

\* Copies is the sum of the counts of the six places.
LEMMA CopiesSum ==
    ASSUME NEW j
    PROVE  /\ Copies(j) = Occ(jobChan, j) + Occ(jobsQ, j) + ROcc(retryQ, j)
                          + HOcc(hand, at, j) + (IF jobsHand = j THEN 1 ELSE 0)
                          + (IF retryHand = j THEN 1 ELSE 0)
           /\ Copies(j)' = Occ(jobChan', j) + Occ(jobsQ', j) + ROcc(retryQ', j)
                           + HOcc(hand', at', j) + (IF jobsHand' = j THEN 1 ELSE 0)
                           + (IF retryHand' = j THEN 1 ELSE 0)
  BY DEF Copies, In, Occ, ROcc, HOcc, Holding

\* Entries of the retry queue, counted by their job.
LEMMA ROccIsCount ==
    ASSUME NEW q \in Seq(Entry), NEW j
    PROVE  ROcc(q, j) = Count(q, {r \in Entry : r.job = j})
<1>1. {i \in DOMAIN q : q[i].job = j} = Positions(q, {r \in Entry : r.job = j})
  BY DEF Positions
<1> QED
  BY <1>1, Zenon DEF ROcc, Count

\* The count of a job in the retry queue is positive when it is there.
LEMMA ROccType ==
    ASSUME NEW q \in Seq(Entry), NEW j
    PROVE  /\ ROcc(q, j) \in Nat
           /\ ROcc(q, j) > 0 <=> \E i \in DOMAIN q : q[i].job = j
<1> DEFINE X == {r \in Entry : r.job = j}
<1>1. ROcc(q, j) = Count(q, X) /\ Count(q, X) \in Nat
  BY ROccIsCount, CountType
<1>2. Count(q, X) = 0 <=> \A i \in 1..Len(q) : q[i] \notin X
  BY CountZero
<1>3. \A i \in 1..Len(q) : q[i] \in Entry
  OBVIOUS
<1> QED
  BY <1>1, <1>2, <1>3

\* A job that failed joins the retry queue.
LEMMA ROccAppend ==
    ASSUME NEW q \in Seq(Entry), NEW e \in Entry, NEW j
    PROVE  /\ Append(q, e) \in Seq(Entry)
           /\ ROcc(Append(q, e), j) = ROcc(q, j) + IF e.job = j THEN 1 ELSE 0
<1> DEFINE X == {r \in Entry : r.job = j}
<1>1. /\ Append(q, e) \in Seq(Entry)
      /\ Count(Append(q, e), X) = Count(q, X) + IF e \in X THEN 1 ELSE 0
  BY CountAppend
<1>2. ROcc(Append(q, e), j) = Count(Append(q, e), X)
  BY <1>1, ROccIsCount
<1>3. ROcc(q, j) = Count(q, X)
  BY ROccIsCount
<1>4. e \in X <=> e.job = j
  OBVIOUS
<1> HIDE DEF X
<1> QED
  BY <1>1, <1>2, <1>3, <1>4

\* The first entry leaves it.
LEMMA ROccTail ==
    ASSUME NEW q \in Seq(Entry), q # <<>>, NEW j
    PROVE  /\ Head(q) \in Entry /\ Tail(q) \in Seq(Entry)
           /\ ROcc(q, j) = ROcc(Tail(q), j) + IF Head(q).job = j THEN 1 ELSE 0
<1> DEFINE X == {r \in Entry : r.job = j}
<1>1. /\ Head(q) \in Entry /\ Tail(q) \in Seq(Entry)
      /\ Count(q, X) = Count(Tail(q), X) + IF Head(q) \in X THEN 1 ELSE 0
  BY CountTail
<1>2. ROcc(Tail(q), j) = Count(Tail(q), X)
  BY <1>1, ROccIsCount
<1>3. ROcc(q, j) = Count(q, X)
  BY ROccIsCount
<1>4. Head(q) \in X <=> Head(q).job = j
  BY <1>1
<1> HIDE DEF X
<1> QED
  BY <1>1, <1>2, <1>3, <1>4

\* The holders of a job are finitely many.
LEMMA HOccType ==
    ASSUME NEW h, NEW a, NEW j
    PROVE  /\ IsFiniteSet(Holding(h, a, j))
           /\ HOcc(h, a, j) \in Nat
<1>1. Holding(h, a, j) \in SUBSET Goroutines
  BY DEF Holding
<1>2. IsFiniteSet(Holding(h, a, j))
  BY <1>1, PoolAssumption, FS_Subset
<1> QED
  BY <1>2, FS_CardinalityType DEF HOcc

\* A goroutine takes a job.
LEMMA HOccTake ==
    ASSUME NEW h, NEW a, NEW h2, NEW a2, NEW g \in Goroutines, NEW j,
           a[g] \notin {"taken", "busy"}, a2[g] \in {"taken", "busy"},
           \A k \in Goroutines \ {g} : h2[k] = h[k] /\ a2[k] = a[k]
    PROVE  HOcc(h2, a2, j) = HOcc(h, a, j) + IF h2[g] = j THEN 1 ELSE 0
<1> DEFINE Q == Holding(h, a, j)
           R == Holding(h2, a2, j)
<1>1. R = IF h2[g] = j THEN Q \cup {g} ELSE Q
  BY DEF Holding
<1>2. g \notin Q
  BY DEF Holding
<1>3. IsFiniteSet(Q) /\ Cardinality(Q) \in Nat
  BY HOccType DEF HOcc
<1> HIDE DEF Q, R
<1>4. Cardinality(Q \cup {g}) = Cardinality(Q) + 1
  BY <1>2, <1>3, FS_AddElement
<1>5. Cardinality(R) = IF h2[g] = j THEN Cardinality(Q \cup {g}) ELSE Cardinality(Q)
  BY <1>1, Zenon
<1> QED
  BY <1>3, <1>4, <1>5 DEF HOcc, Q, R

\* A goroutine lets go of its job.
LEMMA HOccLeave ==
    ASSUME NEW h, NEW a, NEW h2, NEW a2, NEW g \in Goroutines, NEW j,
           a[g] \in {"taken", "busy"}, a2[g] \notin {"taken", "busy"},
           \A k \in Goroutines \ {g} : h[k] = h2[k] /\ a[k] = a2[k]
    PROVE  HOcc(h, a, j) = HOcc(h2, a2, j) + IF h[g] = j THEN 1 ELSE 0
<1> DEFINE Q == Holding(h2, a2, j)
           R == Holding(h, a, j)
<1>1. R = IF h[g] = j THEN Q \cup {g} ELSE Q
  BY DEF Holding
<1>2. g \notin Q
  BY DEF Holding
<1>3. IsFiniteSet(Q) /\ Cardinality(Q) \in Nat
  BY HOccType DEF HOcc
<1> HIDE DEF Q, R
<1>4. Cardinality(Q \cup {g}) = Cardinality(Q) + 1
  BY <1>2, <1>3, FS_AddElement
<1>5. Cardinality(R) = IF h[g] = j THEN Cardinality(Q \cup {g}) ELSE Cardinality(Q)
  BY <1>1, Zenon
<1> QED
  BY <1>3, <1>4, <1>5 DEF HOcc, Q, R

\* Nobody takes or lets go.
LEMMA HOccSame ==
    ASSUME NEW h, NEW a, NEW h2, NEW a2, NEW j,
           \A g \in Goroutines : h[g] = j /\ a[g] \in {"taken", "busy"}
                                  <=> h2[g] = j /\ a2[g] \in {"taken", "busy"}
    PROVE  HOcc(h, a, j) = HOcc(h2, a2, j)
<1>1. Holding(h, a, j) = Holding(h2, a2, j)
  BY DEF Holding
<1> QED
  BY <1>1, Zenon DEF HOcc

\* Every place counts in natural numbers.
LEMMA CountsNat ==
    ASSUME PoolTypeOK, NEW j
    PROVE  /\ Occ(jobChan, j) \in Nat /\ Occ(jobsQ, j) \in Nat
           /\ ROcc(retryQ, j) \in Nat /\ HOcc(hand, at, j) \in Nat
           /\ Copies(j) \in Nat
<1>1. Occ(jobChan, j) \in Nat /\ Occ(jobsQ, j) \in Nat
  BY OccType DEF PoolTypeOK
<1>2. ROcc(retryQ, j) \in Nat /\ HOcc(hand, at, j) \in Nat
  BY ROccType, HOccType DEF PoolTypeOK, Entry
<1> QED
  BY <1>1, <1>2, CopiesSum

\* And after a step.
LEMMA CountsNatNext ==
    ASSUME PoolTypeOK', NEW j
    PROVE  Copies(j)' \in Nat
<1>1. Occ(jobChan', j) \in Nat /\ Occ(jobsQ', j) \in Nat
  BY OccType DEF PoolTypeOK
<1>2. ROcc(retryQ', j) \in Nat /\ HOcc(hand', at', j) \in Nat
  BY ROccType, HOccType DEF PoolTypeOK, Entry
<1> QED
  BY <1>1, <1>2, CopiesSum

\* The steps of the pool alone move jobs between places and make no copy and
\* lose none.
LEMMA PoolConserves ==
    ASSUME PoolTypeOK, PoolStep, NEW j \in Jobs
    PROVE  Copies(j)' = Copies(j)
<1> USE PoolAssumption
<1>0. /\ Occ(jobChan, j) \in Nat /\ Occ(jobsQ, j) \in Nat
      /\ ROcc(retryQ, j) \in Nat /\ HOcc(hand, at, j) \in Nat
      /\ jobChan \in Seq(Jobs) /\ jobsQ \in Seq(Jobs) /\ retryQ \in Seq(Entry)
      /\ hand \in [Goroutines -> Jobs \cup {NoJob}] /\ at \in [Goroutines -> Place]
      /\ j # NoJob
  BY CountsNat DEF PoolTypeOK, Entry
<1> DEFINE Jh == IF jobsHand = j THEN 1 ELSE 0
           Rh == IF retryHand = j THEN 1 ELSE 0
<1>a. /\ Copies(j) = Occ(jobChan, j) + Occ(jobsQ, j) + ROcc(retryQ, j)
                     + HOcc(hand, at, j) + Jh + Rh
      /\ Copies(j)' = Occ(jobChan', j) + Occ(jobsQ', j) + ROcc(retryQ', j)
                      + HOcc(hand', at', j) + (IF jobsHand' = j THEN 1 ELSE 0)
                      + (IF retryHand' = j THEN 1 ELSE 0)
  BY CopiesSum
<1>1. ASSUME NEW g \in Goroutines, TakeJob(g) PROVE Copies(j)' = Copies(j)
  <2> DEFINE x == Head(jobChan)
  <2>1. /\ x \in Jobs /\ Tail(jobChan) \in Seq(Jobs)
        /\ Occ(jobChan, j) = Occ(Tail(jobChan), j) + IF x = j THEN 1 ELSE 0
    <3>1. jobChan # <<>>
      BY <1>1 DEF TakeJob
    <3> QED
      BY <1>0, <3>1, OccTail
  <2>2. at[g] \notin {"taken", "busy"}
    BY <1>1 DEF TakeJob
  <2>3. /\ jobChan' = Tail(jobChan)
        /\ hand' = [hand EXCEPT ![g] = x] /\ at' = [at EXCEPT ![g] = "taken"]
        /\ UNCHANGED <<jobsQ, retryQ, jobsHand, retryHand>>
    BY <1>1 DEF TakeJob
  <2>4. /\ hand'[g] = x /\ at'[g] = "taken"
        /\ \A k \in Goroutines \ {g} : hand'[k] = hand[k] /\ at'[k] = at[k]
    BY <1>0, <2>3
  <2>5. /\ HOcc(hand', at', j) = HOcc(hand, at, j) + IF x = j THEN 1 ELSE 0
        /\ Occ(jobChan', j) = Occ(Tail(jobChan), j)
        /\ Occ(jobsQ', j) = Occ(jobsQ, j) /\ ROcc(retryQ', j) = ROcc(retryQ, j)
    <3>1. HOcc(hand', at', j) = HOcc(hand, at, j) + IF hand'[g] = j THEN 1 ELSE 0
      BY <2>2, <2>4, HOccTake
    <3>2. Occ(jobChan', j) = Occ(Tail(jobChan), j)
      BY <2>3, Zenon
    <3> QED
      BY <2>3, <2>4, <3>1, <3>2
  <2>6. Occ(Tail(jobChan), j) \in Nat
    BY <2>1, OccType
  <2> HIDE DEF x
  <2> QED
    BY <1>0, <1>a, <2>1, <2>3, <2>5, <2>6
<1>2. ASSUME NEW g \in Goroutines, WorkerReturns(g) \/ LeaveJob(g)
      PROVE  Copies(j)' = Copies(j)
  <2>1. UNCHANGED <<jobChan, jobsQ, retryQ, jobsHand, retryHand>>
    BY <1>2 DEF WorkerReturns, LeaveJob, queueVars
  <2>2. \A k \in Goroutines : hand[k] = j /\ at[k] \in {"taken", "busy"}
                              <=> hand'[k] = j /\ at'[k] \in {"taken", "busy"}
    BY <1>0, <1>2 DEF WorkerReturns, LeaveJob
  <2>3. HOcc(hand, at, j) = HOcc(hand', at', j)
    BY <2>2, HOccSame
  <2> QED
    BY <1>a, <2>1, <2>3
<1>3. CASE TimePasses
  <2>1. /\ UNCHANGED <<jobChan, jobsQ, jobsHand, retryHand, hand, at>>
        /\ retryQ' = [i \in DOMAIN retryQ |->
                        [retryQ[i] EXCEPT !.wait = IF @ > 0 THEN @ - 1 ELSE 0]]
    BY <1>3 DEF TimePasses, gorVars
  <2>2. {i \in DOMAIN retryQ : retryQ[i].job = j} = {i \in DOMAIN retryQ' : retryQ'[i].job = j}
    <3>1. DOMAIN retryQ' = DOMAIN retryQ
      BY <2>1
    <3>2. \A i \in DOMAIN retryQ : retryQ[i] \in Entry
      BY <1>0
    <3>3. \A i \in DOMAIN retryQ : retryQ'[i].job = retryQ[i].job
      BY <2>1, <3>2 DEF Entry
    <3> QED
      BY <3>1, <3>3
  <2>3. ROcc(retryQ, j) = ROcc(retryQ', j)
    BY <2>2, Zenon DEF ROcc
  <2> QED
    BY <1>a, <2>1, <2>3
<1>4. CASE RetryLoopTakes
  <2>1. /\ Head(retryQ) \in Entry /\ Tail(retryQ) \in Seq(Entry)
        /\ ROcc(retryQ, j) = ROcc(Tail(retryQ), j) + IF Head(retryQ).job = j THEN 1 ELSE 0
    <3>1. retryQ # <<>>
      BY <1>4 DEF RetryLoopTakes
    <3> QED
      BY <1>0, <3>1, ROccTail
  <2>2. /\ retryHand = NoJob /\ retryHand' = Head(retryQ).job /\ retryQ' = Tail(retryQ)
        /\ UNCHANGED <<jobChan, jobsQ, jobsHand, hand, at>>
    BY <1>4 DEF RetryLoopTakes, gorVars
  <2>3. ROcc(retryQ', j) = ROcc(Tail(retryQ), j)
    BY <2>2, Zenon
  <2>4. ROcc(Tail(retryQ), j) \in Nat
    BY <2>1, ROccType
  <2>5. /\ Occ(jobChan', j) = Occ(jobChan, j) /\ Occ(jobsQ', j) = Occ(jobsQ, j)
        /\ HOcc(hand', at', j) = HOcc(hand, at, j)
    BY <2>2
  <2> DEFINE y == Head(retryQ).job
  <2>6. /\ retryHand' = y /\ retryHand = NoJob /\ jobsHand' = jobsHand
        /\ ROcc(retryQ, j) = ROcc(Tail(retryQ), j) + IF y = j THEN 1 ELSE 0
    BY <2>1, <2>2
  <2> HIDE DEF y
  <2> QED
    BY <1>0, <1>a, <2>3, <2>4, <2>5, <2>6
<1>5. CASE RetryLoopQueues
  <2>1. /\ retryHand # NoJob /\ jobsQ' = Append(jobsQ, retryHand) /\ retryHand' = NoJob
        /\ UNCHANGED <<jobChan, retryQ, jobsHand, hand, at>>
    BY <1>5 DEF RetryLoopQueues, gorVars
  <2>2. Occ(Append(jobsQ, retryHand), j) = Occ(jobsQ, j) + Rh
    BY <1>0, <2>1, OccAppend DEF PoolTypeOK
  <2>3. Occ(jobsQ', j) = Occ(Append(jobsQ, retryHand), j)
    BY <2>1, Zenon
  <2> QED
    BY <1>0, <1>a, <2>1, <2>2, <2>3
<1>6. CASE JobsLoopTakes
  <2>1. /\ Head(jobsQ) \in Jobs /\ Tail(jobsQ) \in Seq(Jobs)
        /\ Occ(jobsQ, j) = Occ(Tail(jobsQ), j) + IF Head(jobsQ) = j THEN 1 ELSE 0
    <3>1. jobsQ # <<>>
      BY <1>6 DEF JobsLoopTakes
    <3> QED
      BY <1>0, <3>1, OccTail
  <2>2. /\ jobsHand = NoJob /\ jobsHand' = Head(jobsQ) /\ jobsQ' = Tail(jobsQ)
        /\ UNCHANGED <<jobChan, retryQ, retryHand, hand, at>>
    BY <1>6 DEF JobsLoopTakes, gorVars
  <2>3. Occ(jobsQ', j) = Occ(Tail(jobsQ), j)
    BY <2>2, Zenon
  <2>4. Occ(Tail(jobsQ), j) \in Nat
    BY <2>1, OccType
  <2>5. /\ Occ(jobChan', j) = Occ(jobChan, j) /\ ROcc(retryQ', j) = ROcc(retryQ, j)
        /\ HOcc(hand', at', j) = HOcc(hand, at, j)
    BY <2>2
  <2> DEFINE y == Head(jobsQ)
  <2>6. /\ jobsHand' = y /\ jobsHand = NoJob /\ retryHand' = retryHand
        /\ Occ(jobsQ, j) = Occ(Tail(jobsQ), j) + IF y = j THEN 1 ELSE 0
    BY <2>1, <2>2
  <2>7. /\ Occ(jobChan, j) \in Nat /\ ROcc(retryQ, j) \in Nat /\ HOcc(hand, at, j) \in Nat
        /\ j # NoJob /\ Rh \in Nat
    BY <1>0
  <2> HIDE DEF y
  <2>8. CASE y = j
    BY <1>a, <2>3, <2>4, <2>5, <2>6, <2>7, <2>8
  <2>9. CASE y # j
    BY <1>a, <2>3, <2>4, <2>5, <2>6, <2>7, <2>9
  <2> QED
    BY <2>8, <2>9
<1>7. CASE JobsLoopSends
  <2>1. CASE Panics
    <3>1. UNCHANGED <<jobChan, jobsQ, retryQ, jobsHand, retryHand, hand, at>>
      BY <2>1 DEF Panics, queueVars, gorVars
    <3> QED
      BY <1>a, <3>1
  <2>2. CASE ~Panics
    <3>1. /\ jobsHand # NoJob /\ jobChan' = Append(jobChan, jobsHand) /\ jobsHand' = NoJob
          /\ UNCHANGED <<jobsQ, retryQ, retryHand, hand, at>>
      BY <1>7, <2>2 DEF JobsLoopSends, gorVars
    <3>2. Occ(Append(jobChan, jobsHand), j) = Occ(jobChan, j) + Jh
      BY <1>0, <3>1, OccAppend DEF PoolTypeOK
    <3>3. Occ(jobChan', j) = Occ(Append(jobChan, jobsHand), j)
      BY <3>1, Zenon
    <3> QED
      BY <1>0, <1>a, <3>1, <3>2, <3>3
  <2> QED
    BY <2>1, <2>2
<1> QED
  BY <1>1, <1>2, <1>3, <1>4, <1>5, <1>6, <1>7 DEF PoolStep

\* What the service adds to the pool and takes from it: Dispatch puts a job in,
\* the end of an attempt takes it out or sends it round again.
LEMMA ServiceCounts ==
    ASSUME PoolTypeOK, NEW j \in Jobs
    PROVE  /\ \A t \in Jobs : Submitted(t) =>
                  Copies(j)' = Copies(j) + IF t = j THEN 1 ELSE 0
           /\ \A g \in Goroutines : StartJob(g) => Copies(j)' = Copies(j)
           /\ \A g \in Goroutines : JobDone(g) =>
                  Copies(j) = Copies(j)' + IF hand[g] = j THEN 1 ELSE 0
           /\ \A g \in Goroutines : MoveToRetry(g) /\ hand[g] \in Jobs =>
                  Copies(j)' = Copies(j)
<1> USE PoolAssumption
<1>0. /\ Occ(jobChan, j) \in Nat /\ Occ(jobsQ, j) \in Nat
      /\ ROcc(retryQ, j) \in Nat /\ HOcc(hand, at, j) \in Nat
      /\ jobChan \in Seq(Jobs) /\ jobsQ \in Seq(Jobs) /\ retryQ \in Seq(Entry)
      /\ hand \in [Goroutines -> Jobs \cup {NoJob}] /\ at \in [Goroutines -> Place]
      /\ j # NoJob
  BY CountsNat DEF PoolTypeOK, Entry
<1>a. /\ Copies(j) = Occ(jobChan, j) + Occ(jobsQ, j) + ROcc(retryQ, j)
                     + HOcc(hand, at, j) + (IF jobsHand = j THEN 1 ELSE 0)
                     + (IF retryHand = j THEN 1 ELSE 0)
      /\ Copies(j)' = Occ(jobChan', j) + Occ(jobsQ', j) + ROcc(retryQ', j)
                      + HOcc(hand', at', j) + (IF jobsHand' = j THEN 1 ELSE 0)
                      + (IF retryHand' = j THEN 1 ELSE 0)
  BY CopiesSum
<1>1. ASSUME NEW t \in Jobs, Submitted(t)
      PROVE  Copies(j)' = Copies(j) + IF t = j THEN 1 ELSE 0
  <2>1. /\ jobChan' = Append(jobChan, t)
        /\ UNCHANGED <<jobsQ, retryQ, jobsHand, retryHand, hand, at>>
    BY <1>1 DEF Submitted, gorVars
  <2>2. Occ(Append(jobChan, t), j) = Occ(jobChan, j) + IF t = j THEN 1 ELSE 0
    BY <1>0, OccAppend
  <2>3. Occ(jobChan', j) = Occ(Append(jobChan, t), j)
    BY <2>1, Zenon
  <2> QED
    BY <1>0, <1>a, <2>1, <2>2, <2>3
<1>2. ASSUME NEW g \in Goroutines, StartJob(g) PROVE Copies(j)' = Copies(j)
  <2>1. UNCHANGED <<jobChan, jobsQ, retryQ, jobsHand, retryHand, hand>>
    BY <1>2 DEF StartJob, queueVars
  <2>2. \A k \in Goroutines : hand[k] = j /\ at[k] \in {"taken", "busy"}
                              <=> hand'[k] = j /\ at'[k] \in {"taken", "busy"}
    BY <1>0, <1>2 DEF StartJob
  <2>3. HOcc(hand, at, j) = HOcc(hand', at', j)
    BY <2>2, HOccSame
  <2> QED
    BY <1>a, <2>1, <2>3
<1>3. ASSUME NEW g \in Goroutines, JobDone(g) \/ MoveToRetry(g)
      PROVE  /\ HOcc(hand, at, j) = HOcc(hand', at', j) + IF hand[g] = j THEN 1 ELSE 0
             /\ HOcc(hand', at', j) \in Nat
             /\ UNCHANGED <<jobChan, jobsQ, jobsHand, retryHand, hand>>
  <2>1. /\ at[g] = "busy" /\ at' = [at EXCEPT ![g] = "leaving"]
        /\ UNCHANGED <<jobChan, jobsQ, jobsHand, retryHand, hand>>
    BY <1>3 DEF JobDone, MoveToRetry, queueVars
  <2>2. /\ at'[g] = "leaving" /\ hand'[g] = hand[g]
        /\ \A k \in Goroutines \ {g} : hand[k] = hand'[k] /\ at[k] = at'[k]
    BY <1>0, <2>1
  <2>a. at'[g] \notin {"taken", "busy"} /\ at[g] \in {"taken", "busy"}
    BY <2>1, <2>2
  <2>3. HOcc(hand, at, j) = HOcc(hand', at', j) + IF hand[g] = j THEN 1 ELSE 0
    BY <2>a, <2>2, HOccLeave
  <2>4. HOcc(hand', at', j) \in Nat
    BY HOccType
  <2> QED
    BY <2>1, <2>3, <2>4
<1>4. ASSUME NEW g \in Goroutines, JobDone(g)
      PROVE  Copies(j) = Copies(j)' + IF hand[g] = j THEN 1 ELSE 0
  <2>1. retryQ' = retryQ
    BY <1>4 DEF JobDone, queueVars
  <2> QED
    BY <1>0, <1>a, <1>3, <1>4, <2>1
<1>5. ASSUME NEW g \in Goroutines, MoveToRetry(g), hand[g] \in Jobs
      PROVE  Copies(j)' = Copies(j)
  <2> DEFINE e == [job |-> hand[g], wait |-> Backoff]
  <2>1. e \in Entry /\ e.job = hand[g]
    BY <1>5 DEF Entry
  <2>2. retryQ' = Append(retryQ, e)
    BY <1>5 DEF MoveToRetry, Enqueue
  <2> HIDE DEF e
  <2>3. ROcc(Append(retryQ, e), j) = ROcc(retryQ, j) + IF hand[g] = j THEN 1 ELSE 0
    BY <1>0, <2>1, ROccAppend
  <2>4. ROcc(retryQ', j) = ROcc(Append(retryQ, e), j)
    BY <2>2, Zenon
  <2>5. /\ HOcc(hand, at, j) = HOcc(hand', at', j) + IF hand[g] = j THEN 1 ELSE 0
        /\ HOcc(hand', at', j) \in Nat
        /\ UNCHANGED <<jobChan, jobsQ, jobsHand, retryHand>>
    BY <1>3, <1>5
  <2> QED
    BY <1>0, <1>a, <2>3, <2>4, <2>5
<1> QED
  BY <1>1, <1>2, <1>4, <1>5

\* Two goroutines with the same job are two copies; so is one, with the job in
\* the hands of nobody else counted, at least one.
LEMMA HolderCounts ==
    ASSUME PoolTypeOK, NEW j, NEW g \in Goroutines, hand[g] = j, at[g] \in {"taken", "busy"}
    PROVE  /\ Copies(j) >= 1
           /\ \A k \in Goroutines \ {g} :
                 hand[k] = j /\ at[k] \in {"taken", "busy"} => Copies(j) >= 2
<1> DEFINE H == Holding(hand, at, j)
<1>0. /\ Occ(jobChan, j) \in Nat /\ Occ(jobsQ, j) \in Nat
      /\ ROcc(retryQ, j) \in Nat /\ HOcc(hand, at, j) \in Nat
  BY CountsNat
<1>1. IsFiniteSet(H) /\ HOcc(hand, at, j) = Cardinality(H)
  BY HOccType DEF HOcc
<1>2. g \in H
  BY DEF Holding
<1>3. Cardinality(H) >= 1
  <2>1. Cardinality(H) # 0
    BY <1>1, <1>2, FS_EmptySet
  <2> QED
    BY <1>0, <1>1, <2>1
<1>4. ASSUME NEW k \in Goroutines \ {g}, hand[k] = j, at[k] \in {"taken", "busy"}
      PROVE  Cardinality(H) >= 2
  <2>1. k \in H /\ {g, k} \in SUBSET H
    BY <1>2, <1>4 DEF Holding
  <2>2. IsFiniteSet({g}) /\ Cardinality({g}) = 1
    BY FS_Singleton
  <2>3. Cardinality({g} \cup {k}) = 2
    <3>1. k \notin {g}
      BY <1>4
    <3>2. Cardinality({g} \cup {k}) = Cardinality({g}) + 1
      BY <2>2, <3>1, FS_AddElement, Zenon
    <3> QED
      BY <2>2, <3>2
  <2>4. {g} \cup {k} \in SUBSET H
    BY <2>1
  <2> HIDE DEF H
  <2>5. Cardinality({g} \cup {k}) <= Cardinality(H)
    BY <1>1, <2>4, FS_Subset
  <2> QED
    BY <1>0, <1>1, <2>3, <2>5
<1> HIDE DEF H
<1> QED
  BY <1>0, <1>1, <1>3, <1>4, CopiesSum

-----------------------------------------------------------------------------
\* The pool keeps its invariant, whatever the service does with it.

\* The counted goroutines are finitely many, and at most all of them.
LEMMA CountedBound ==
    /\ IsFiniteSet(Counted) /\ Cardinality(Counted) \in 0..Cardinality(Goroutines)
    /\ IsFiniteSet(Counted)' /\ Cardinality(Counted)' \in 0..Cardinality(Goroutines)
<1>1. \A S \in SUBSET Goroutines :
         IsFiniteSet(S) /\ Cardinality(S) \in 0..Cardinality(Goroutines)
  <2> TAKE S \in SUBSET Goroutines
  <2>1. IsFiniteSet(S) /\ Cardinality(S) <= Cardinality(Goroutines)
    BY PoolAssumption, FS_Subset
  <2>2. Cardinality(S) \in Nat /\ Cardinality(Goroutines) \in Nat
    BY <2>1, PoolAssumption, FS_CardinalityType
  <2> QED
    BY <2>1, <2>2
<1>2. Counted \in SUBSET Goroutines /\ Counted' \in SUBSET Goroutines
  BY DEF Counted
<1> QED
  BY <1>1, <1>2

\* The counter follows the goroutines: up when Do begins, down after moveToRetry.
LEMMA CounterStep ==
    ASSUME PoolTypeOK, NEW g \in Goroutines, NEW p \in Place,
           at' = [at EXCEPT ![g] = p]
    PROVE  /\ at[g] = "taken" /\ p = "busy" => Cardinality(Counted)' = Cardinality(Counted) + 1
           /\ at[g] = "leaving" /\ p = "idle" => Cardinality(Counted)' = Cardinality(Counted) - 1
           /\ (at[g] \in {"busy", "leaving"} <=> p \in {"busy", "leaving"})
                 => Cardinality(Counted)' = Cardinality(Counted)
<1>0. at \in [Goroutines -> Place]
  BY DEF PoolTypeOK
<1>f. /\ IsFiniteSet(Counted) /\ Cardinality(Counted) \in Nat
      /\ IsFiniteSet(Counted') /\ Cardinality(Counted') \in Nat
  BY CountedBound, FS_CardinalityType
<1>1. ASSUME at[g] = "taken", p = "busy"
      PROVE  Cardinality(Counted') = Cardinality(Counted) + 1
  <2>1. Counted' = Counted \cup {g} /\ g \notin Counted
    BY <1>0, <1>1 DEF Counted
  <2>2. Cardinality(Counted \cup {g}) = Cardinality(Counted) + 1
    BY <1>f, <2>1, FS_AddElement
  <2> QED
    BY <2>1, <2>2, Zenon
<1>2. ASSUME at[g] = "leaving", p = "idle"
      PROVE  Cardinality(Counted') = Cardinality(Counted) - 1
  <2>1. Counted' = Counted \ {g} /\ g \in Counted
    BY <1>0, <1>2 DEF Counted
  <2>2. Cardinality(Counted \ {g}) = Cardinality(Counted) - 1
    BY <1>f, <2>1, FS_RemoveElement
  <2> QED
    BY <2>1, <2>2, Zenon
<1>3. ASSUME at[g] \in {"busy", "leaving"} <=> p \in {"busy", "leaving"}
      PROVE  Cardinality(Counted') = Cardinality(Counted)
  <2>1. Counted' = Counted
    BY <1>0, <1>3 DEF Counted
  <2> QED
    BY <2>1, Zenon
<1> QED
  BY <1>1, <1>2, <1>3

\* Every action of the pool, and every way in which the service uses it,
\* keeps the pool's invariant.
LEMMA PoolKeepsInv ==
    ASSUME PoolInv,
           \/ PoolStep \/ StopCalled \/ StopNext \/ Panics \/ UNCHANGED poolVars
           \/ \E t \in Jobs : Submitted(t)
           \/ \E g \in Goroutines : StartJob(g) \/ JobDone(g) \/ MoveToRetry(g)
    PROVE  PoolInv'
<1> USE PoolAssumption
<1>0. /\ jobChan \in Seq(Jobs) /\ Len(jobChan) \in Nat /\ Len(jobChan) <= Capacity
      /\ jobsQ \in Seq(Jobs) /\ retryQ \in Seq(Entry)
      /\ hand \in [Goroutines -> Jobs \cup {NoJob}] /\ at \in [Goroutines -> Place]
      /\ jobsHand \in Jobs \cup {NoJob} /\ retryHand \in Jobs \cup {NoJob}
      /\ jobsLast \in BOOLEAN /\ stop \in StopStep /\ panicked \in BOOLEAN
      /\ busyCount \in 0..Cardinality(Goroutines) /\ PoolTypeOK
  BY DEF PoolInv, PoolTypeOK, Entry
<1>1. ASSUME NEW g \in Goroutines,
             TakeJob(g) \/ WorkerReturns(g) \/ LeaveJob(g) \/ StartJob(g) \/ JobDone(g)
             \/ MoveToRetry(g)
      PROVE  PoolInv'
  <2>0. PICK p \in Place : at' = [at EXCEPT ![g] = p]
    BY <1>1 DEF TakeJob, WorkerReturns, LeaveJob, StartJob, JobDone, MoveToRetry, Place
  <2>1. busyCount' = Cardinality(Counted)'
    <3>1. busyCount = Cardinality(Counted) /\ Cardinality(Counted) \in Nat
      BY CountedBound DEF PoolInv
    <3>2. /\ at[g] = "taken" /\ p = "busy" => Cardinality(Counted)' = Cardinality(Counted) + 1
          /\ at[g] = "leaving" /\ p = "idle" => Cardinality(Counted)' = Cardinality(Counted) - 1
          /\ (at[g] \in {"busy", "leaving"} <=> p \in {"busy", "leaving"})
                => Cardinality(Counted)' = Cardinality(Counted)
      BY <1>0, <2>0, CounterStep
    <3>3. at'[g] = p
      BY <1>0, <2>0
    <3>4. \/ at[g] = "taken" /\ at'[g] = "busy" /\ busyCount' = busyCount + 1
          \/ at[g] = "leaving" /\ at'[g] = "idle" /\ busyCount' = busyCount - 1
          \/ /\ at[g] \in {"busy", "leaving"} <=> at'[g] \in {"busy", "leaving"}
             /\ busyCount' = busyCount
      BY <1>0, <1>1 DEF TakeJob, WorkerReturns, LeaveJob, StartJob, JobDone, MoveToRetry
    <3> QED
      BY <3>1, <3>2, <3>3, <3>4
  <2>2. /\ jobChan' \in Seq(Jobs) /\ Len(jobChan') <= Capacity
        /\ jobChan' = jobChan \/ jobChan # <<>>
    <3>1. CASE TakeJob(g)
      <4>1. jobChan # <<>> /\ jobChan' = Tail(jobChan)
        BY <3>1 DEF TakeJob
      <4>2. Tail(jobChan) \in Seq(Jobs) /\ Len(Tail(jobChan)) = Len(jobChan) - 1
        BY <1>0, <4>1
      <4>3. jobChan' \in Seq(Jobs) /\ Len(jobChan') = Len(jobChan) - 1
        BY <4>1, <4>2, Zenon
      <4>4. Len(jobChan') <= Capacity
        BY <1>0, <4>3
      <4> QED
        BY <4>1, <4>3, <4>4, Zenon
    <3>2. CASE ~TakeJob(g)
      BY <1>0, <1>1, <3>2 DEF WorkerReturns, LeaveJob, StartJob, JobDone, MoveToRetry, queueVars
    <3> QED
      BY <3>1, <3>2
  <2>3. retryQ' \in Seq(Entry)
    <3>1. CASE MoveToRetry(g)
      <4> DEFINE e == [job |-> hand[g], wait |-> Backoff]
      <4>1. hand[g] \in Jobs /\ retryQ' = Append(retryQ, e)
        BY <3>1 DEF PoolInv, MoveToRetry, Enqueue
      <4>2. e \in Entry
        BY <4>1 DEF Entry
      <4> QED
        BY <1>0, <4>1, <4>2, ROccAppend
    <3>2. CASE ~MoveToRetry(g)
      BY <1>0, <1>1, <3>2 DEF TakeJob, WorkerReturns, LeaveJob, StartJob, JobDone, queueVars
    <3> QED
      BY <3>1, <3>2
  <2>4. /\ hand' \in [Goroutines -> Jobs \cup {NoJob}]
        /\ at[g] # "taken" /\ at'[g] = "taken" => hand'[g] \in Jobs
        /\ ~(at[g] # "taken" /\ at'[g] = "taken") => hand'[g] = hand[g] \/ at'[g] = "idle"
        /\ \A k \in Goroutines \ {g} : hand'[k] = hand[k]
    <3>1. CASE TakeJob(g)
      <4>1. jobChan # <<>> /\ hand' = [hand EXCEPT ![g] = Head(jobChan)]
        BY <3>1 DEF TakeJob
      <4>2. Head(jobChan) \in Jobs
        BY <1>0, <4>1
      <4> QED
        BY <1>0, <3>1, <4>1, <4>2 DEF TakeJob
    <3>2. CASE LeaveJob(g)
      BY <1>0, <3>2 DEF LeaveJob
    <3>3. CASE ~TakeJob(g) /\ ~LeaveJob(g)
      BY <1>0, <1>1, <3>3 DEF WorkerReturns, StartJob, JobDone, MoveToRetry
    <3> QED
      BY <3>1, <3>2, <3>3
  <2>5. /\ UNCHANGED <<jobsQ, jobsHand, retryHand, jobsLast, stop, panicked>>
        /\ at'[g] = "gone" => chanClosed /\ jobChan' = <<>>
        /\ at[g] # "gone"
        /\ at'[g] = "busy" => at[g] = "taken"
    BY <1>0, <1>1 DEF TakeJob, WorkerReturns, LeaveJob, StartJob, JobDone, MoveToRetry, queueVars
  <2>6. at' \in [Goroutines -> Place] /\ \A k \in Goroutines \ {g} : at'[k] = at[k]
    BY <1>0, <2>0
  <2>7. PoolTypeOK'
    BY <1>0, <2>1, <2>2, <2>3, <2>4, <2>5, <2>6, CountedBound DEF PoolTypeOK, Entry
  <2>8. \A k \in Goroutines : at'[k] \in {"taken", "busy"} => hand'[k] \in Jobs
    BY <2>4, <2>5, <2>6 DEF PoolInv
  <2>9. \A k \in Goroutines : at'[k] = "gone" => chanClosed' /\ jobChan' = <<>>
    BY <2>2, <2>5, <2>6 DEF PoolInv, chanClosed
  <2>10. stop' = "returned" => \A k \in Goroutines : at'[k] = "gone"
    BY <2>5, <2>6 DEF PoolInv
  <2> QED
    BY <2>1, <2>7, <2>8, <2>9, <2>10 DEF PoolInv
<1>2. ASSUME UNCHANGED <<hand, at, busyCount>>, PoolTypeOK',
             chanClosed => chanClosed' /\ jobChan' = jobChan,
             stop' = "returned" => stop = "returned" \/ \A g \in Goroutines : at[g] = "gone"
      PROVE  PoolInv'
  <2>1. Cardinality(Counted)' = Cardinality(Counted)
    <3>1. Counted' = Counted
      BY <1>2 DEF Counted
    <3> QED
      BY <3>1, Zenon
  <2> QED
    BY <1>2, <2>1 DEF PoolInv
<1>3. CASE TimePasses
  <2>1. retryQ' \in Seq(Entry)
    <3>1. \A i \in 1..Len(retryQ) : retryQ[i] \in Entry
      BY <1>0
    <3>2. /\ retryQ' = [i \in 1..Len(retryQ) |->
                        [retryQ[i] EXCEPT !.wait = IF @ > 0 THEN @ - 1 ELSE 0]]
          /\ Len(retryQ) \in Nat
      BY <1>0, <1>3 DEF TimePasses
    <3>3. \A i \in 1..Len(retryQ) :
             [retryQ[i] EXCEPT !.wait = IF @ > 0 THEN @ - 1 ELSE 0] \in Entry
      BY <3>1 DEF Entry
    <3> QED
      BY <3>2, <3>3
  <2> QED
    BY <1>0, <1>2, <1>3, <2>1 DEF TimePasses, gorVars, PoolTypeOK, chanClosed, Entry
<1>4. CASE RetryLoopTakes
  <2>1. retryQ # <<>>
    BY <1>4 DEF RetryLoopTakes
  <2>2. Head(retryQ) \in Entry /\ Tail(retryQ) \in Seq(Entry)
    BY <1>0, <2>1, ROccTail
  <2>3. Head(retryQ).job \in Jobs
    BY <2>2 DEF Entry
  <2> QED
    BY <1>0, <1>2, <1>4, <2>2, <2>3 DEF RetryLoopTakes, gorVars, PoolTypeOK, chanClosed, Entry
<1>5. CASE RetryLoopQueues
  <2>1. Append(jobsQ, retryHand) \in Seq(Jobs)
    BY <1>0, <1>5 DEF RetryLoopQueues
  <2> QED
    BY <1>0, <1>2, <1>5, <2>1 DEF RetryLoopQueues, gorVars, PoolTypeOK, chanClosed, Entry
<1>6. CASE JobsLoopTakes
  <2>1. jobsQ # <<>>
    BY <1>6 DEF JobsLoopTakes
  <2>2. Head(jobsQ) \in Jobs /\ Tail(jobsQ) \in Seq(Jobs)
    BY <1>0, <2>1
  <2>3. jobsLast' \in BOOLEAN
    <3>1. jobsLast' = (stop \in {"closed", "returned"})
      BY <1>6 DEF JobsLoopTakes, chanClosed
    <3> QED
      BY <3>1
  <2> QED
    BY <1>0, <1>2, <1>6, <2>2, <2>3 DEF JobsLoopTakes, gorVars, PoolTypeOK, chanClosed, Entry
<1>7. ASSUME NEW j \in Jobs, ~chanClosed, ~Full, jobChan' = Append(jobChan, j),
             jobsHand' \in Jobs \cup {NoJob},
             UNCHANGED <<jobsQ, retryQ, retryHand, jobsLast, gorVars, stop, panicked>>
      PROVE  PoolInv'
  <2>1. Append(jobChan, j) \in Seq(Jobs) /\ Len(Append(jobChan, j)) = Len(jobChan) + 1
    BY <1>0
  <2>2. Len(jobChan) # Capacity
    BY <1>7 DEF Full
  <2>3. jobChan' \in Seq(Jobs) /\ Len(jobChan') <= Capacity
    BY <1>0, <1>7, <2>1, <2>2
  <2> QED
    BY <1>0, <1>2, <1>7, <2>3 DEF gorVars, PoolTypeOK, chanClosed, Entry
<1>8. CASE Panics
  <2>1. panicked' \in BOOLEAN
    BY <1>8 DEF Panics
  <2> QED
    BY <1>0, <1>2, <1>8, <2>1 DEF Panics, queueVars, gorVars, PoolTypeOK, chanClosed, Entry
<1>9. CASE JobsLoopSends
  <2>1. CASE Panics
    BY <1>8, <2>1
  <2>2. CASE ~Panics
    BY <1>0, <1>7, <1>9, <2>2 DEF JobsLoopSends
  <2> QED
    BY <2>1, <2>2
<1>10. ASSUME NEW t \in Jobs, Submitted(t) PROVE PoolInv'
  BY <1>0, <1>7, <1>10 DEF Submitted
<1>11. CASE StopCalled \/ StopNext
  <2>1. UNCHANGED <<queueVars, gorVars, panicked>>
    BY <1>11 DEF StopCalled, StopNext, StopReads, StopCloses, StopReturns
  <2>2. /\ stop' \in StopStep
        /\ chanClosed => chanClosed'
        /\ stop' = "returned" => \A g \in Goroutines : at[g] = "gone"
    BY <1>0, <1>11 DEF StopCalled, StopNext, StopReads, StopCloses, StopReturns, StopStep,
                       chanClosed, Counter, After
  <2>3. UNCHANGED <<hand, at, busyCount, jobChan>>
    BY <2>1 DEF queueVars, gorVars
  <2>4. PoolTypeOK'
    BY <1>0, <2>1, <2>2 DEF queueVars, gorVars, PoolTypeOK, Entry
  <2> QED
    BY <1>2, <2>2, <2>3, <2>4
<1>12. CASE UNCHANGED poolVars
  BY <1>0, <1>2, <1>12 DEF poolVars, queueVars, gorVars, PoolTypeOK, chanClosed, Entry
<1> QED
  BY <1>1, <1>3, <1>4, <1>5, <1>6, <1>8, <1>9, <1>10, <1>11, <1>12 DEF PoolStep

-----------------------------------------------------------------------------
\* The table keeps its invariant.

\* OneCopy with the cardinalities of the two small sets written out.
LEMMA OneCopyForm ==
    /\ OneCopy <=>
         \A t \in Jobs :
            IF t \in KnownTasks
            THEN Copies(t) + (IF t \in adding THEN 1 ELSE 0) = (IF t \in unique THEN 1 ELSE 0)
            ELSE Copies(t) = 0
    /\ OneCopy' <=>
         \A t \in Jobs :
            IF t \in KnownTasks
            THEN Copies(t)' + (IF t \in adding' THEN 1 ELSE 0) = (IF t \in unique' THEN 1 ELSE 0)
            ELSE Copies(t)' = 0
<1>1. \A t, S : Cardinality({t} \cap S) = IF t \in S THEN 1 ELSE 0
  BY CardinalityIndicator
<1> QED
  BY <1>1 DEF OneCopy

\* What the invariant says of a job in the hands of a goroutine, and of one
\* whose handler has not submitted it.
LEMMA TableFacts ==
    ASSUME PoolInv, TableInv
    PROVE  /\ \A t \in adding : Copies(t) = 0 /\ answer[t] # "accepted" /\ t \notin told
           /\ \A g \in Goroutines : at[g] \in {"taken", "busy"} =>
                 /\ hand[g] \in KnownTasks /\ hand[g] \in unique /\ hand[g] \notin adding
                 /\ Copies(hand[g]) = 1
                 /\ \A k \in Goroutines :
                       at[k] \in {"taken", "busy"} /\ hand[k] = hand[g] => k = g
<1>0. /\ PoolTypeOK /\ TypeOK /\ adding \subseteq KnownTasks /\ KnownTasks \subseteq Jobs
      /\ adding \subseteq unique
      /\ \A t \in Jobs : Copies(t) \in Nat
  BY CountsNat, ServiceAssumption DEF PoolInv, TableInv, TypeOK
<1>1. \A t \in Jobs :
         IF t \in KnownTasks
         THEN Copies(t) + (IF t \in adding THEN 1 ELSE 0) = (IF t \in unique THEN 1 ELSE 0)
         ELSE Copies(t) = 0
  BY OneCopyForm DEF TableInv
<1>2. ASSUME NEW t \in adding PROVE Copies(t) = 0 /\ answer[t] # "accepted" /\ t \notin told
  <2>1. Copies(t) = 0
    BY <1>0, <1>1
  <2> QED
    BY <1>0, <2>1 DEF TableInv, AcceptedIsHeld
<1>3. ASSUME NEW g \in Goroutines, at[g] \in {"taken", "busy"}
      PROVE  /\ hand[g] \in KnownTasks /\ hand[g] \in unique /\ hand[g] \notin adding
             /\ Copies(hand[g]) = 1
             /\ \A k \in Goroutines :
                   at[k] \in {"taken", "busy"} /\ hand[k] = hand[g] => k = g
  <2>1. hand[g] \in Jobs
    BY <1>3 DEF PoolInv
  <2>2. /\ Copies(hand[g]) >= 1
        /\ \A k \in Goroutines \ {g} :
              hand[k] = hand[g] /\ at[k] \in {"taken", "busy"} => Copies(hand[g]) >= 2
    BY <1>0, <1>3, HolderCounts
  <2> DEFINE c == Copies(hand[g])
             j == hand[g]
  <2>3. /\ c \in Nat /\ c >= 1
        /\ IF j \in KnownTasks
           THEN c + (IF j \in adding THEN 1 ELSE 0) = (IF j \in unique THEN 1 ELSE 0)
           ELSE c = 0
    BY <1>0, <1>1, <2>1, <2>2
  <2> HIDE DEF c, j
  <2>4. j \in KnownTasks /\ j \in unique /\ j \notin adding /\ c = 1
    BY <2>3
  <2> QED
    BY <2>2, <2>4 DEF c, j
<1> QED
  BY <1>2, <1>3

\* How many jobs a task has after each step of the specification.
LEMMA StepCopies ==
    ASSUME PoolInv, NEW t \in Jobs
    PROVE  /\ PoolStep \/ (\E g \in Goroutines : StartJob(g)) \/ StopCalled \/ StopNext
              \/ Panics \/ UNCHANGED poolVars
                 => Copies(t)' = Copies(t)
           /\ \A j \in Jobs : Submitted(j) =>
                 Copies(t)' = Copies(t) + IF j = t THEN 1 ELSE 0
           /\ \A g \in Goroutines : JobDone(g) =>
                 Copies(t) = Copies(t)' + IF hand[g] = t THEN 1 ELSE 0
           /\ \A g \in Goroutines : MoveToRetry(g) => Copies(t)' = Copies(t)
<1>0. PoolTypeOK
  BY DEF PoolInv
<1>1. ASSUME StopCalled \/ StopNext \/ Panics \/ UNCHANGED poolVars
      PROVE  Copies(t)' = Copies(t)
  <2>1. UNCHANGED <<queueVars, hand, at>>
    BY <1>1 DEF StopCalled, StopNext, StopReads, StopCloses, StopReturns, Panics,
                poolVars, gorVars
  <2>2. UNCHANGED <<jobChan, jobsQ, retryQ, hand, at, jobsHand, retryHand>>
    BY <2>1 DEF queueVars
  <2> QED
    BY <2>2, CopiesSum
<1>2. ASSUME PoolStep PROVE Copies(t)' = Copies(t)
  BY <1>0, <1>2, PoolConserves
<1>3. \A g \in Goroutines : MoveToRetry(g) => hand[g] \in Jobs
  BY DEF PoolInv, MoveToRetry
<1> QED
  BY <1>0, <1>1, <1>2, <1>3, ServiceCounts

\* The invariant holds at the start.
LEMMA InvInit == Init => IInv
<1> SUFFICES ASSUME Init PROVE IInv
  OBVIOUS
<1> USE PoolAssumption, ServiceAssumption DEF Init, PoolInit
<1>1. PoolTypeOK
  <2>1. Cardinality(Goroutines) \in Nat
    BY FS_CardinalityType
  <2>2. panicked \in BOOLEAN /\ jobsLast \in BOOLEAN
    OBVIOUS
  <2> QED
    BY <2>1, <2>2 DEF PoolTypeOK, Place, StopStep
<1>2. PoolInv
  <2>1. Counted = {}
    BY DEF Counted
  <2>2. Cardinality(Counted) = 0
    BY <2>1, FS_EmptySet
  <2> QED
    BY <1>1, <2>2 DEF PoolInv
<1>3. TypeOK
  BY <1>1 DEF TypeOK, Context, Answer
<1>4. \A t \in Jobs : Copies(t) = 0
  <2> TAKE t \in Jobs
  <2>1. Occ(jobChan, t) = 0 /\ Occ(jobsQ, t) = 0 /\ ROcc(retryQ, t) = 0
    <3>1. {i \in DOMAIN jobChan : jobChan[i] = t} = {} /\ {i \in DOMAIN jobsQ : jobsQ[i] = t} = {}
          /\ {i \in DOMAIN retryQ : retryQ[i].job = t} = {}
      OBVIOUS
    <3> QED
      BY <3>1, FS_EmptySet, Zenon DEF Occ, ROcc
  <2>2. HOcc(hand, at, t) = 0
    <3>1. Holding(hand, at, t) = {}
      BY DEF Holding
    <3> QED
      BY <3>1, FS_EmptySet, Zenon DEF HOcc
  <2> QED
    BY <2>1, <2>2, CopiesSum
<1>5. OneCopy
  BY <1>4, OneCopyForm
<1> QED
  BY <1>2, <1>3, <1>5 DEF IInv, TableInv, AcceptedIsHeld, KnownTasks

\* Every action keeps the invariant.
LEMMA InvStep == IInv /\ [Next]_vars => IInv'
<1> SUFFICES ASSUME IInv, [Next]_vars PROVE IInv'
  OBVIOUS
<1> USE ServiceAssumption
<1>0. /\ PoolInv /\ TableInv /\ PoolTypeOK /\ KnownTasks \subseteq Jobs
      /\ unique \subseteq Jobs /\ adding \subseteq unique /\ told \subseteq unique
      /\ ctx \in [Jobs -> Context] /\ answer \in [Jobs -> Answer]
      /\ adding \subseteq KnownTasks
      /\ \A t \in Jobs : Copies(t) \in Nat
  BY CountsNat DEF IInv, PoolInv, TableInv, TypeOK
<1>i. /\ \A t \in Jobs : answer[t] = "accepted" => t \in unique /\ Copies(t) = 1
      /\ \A t \in adding : ctx[t] = "none"
      /\ \A t \in told : ctx[t] # "none"
  BY <1>0 DEF TableInv, AcceptedIsHeld
<1>c. \A t \in Jobs :
         IF t \in KnownTasks
         THEN Copies(t) + (IF t \in adding THEN 1 ELSE 0) = (IF t \in unique THEN 1 ELSE 0)
         ELSE Copies(t) = 0
  BY <1>0, OneCopyForm DEF TableInv
<1>f. /\ \A t \in adding : Copies(t) = 0 /\ answer[t] # "accepted" /\ t \notin told
      /\ \A g \in Goroutines : at[g] \in {"taken", "busy"} =>
            /\ hand[g] \in KnownTasks /\ hand[g] \in unique /\ hand[g] \notin adding
            /\ Copies(hand[g]) = 1
  BY <1>0, TableFacts
\* What remains to be shown of a step, in the terms of the places.
<1>t. ASSUME PoolInv',
             unique' \subseteq Jobs, adding' \subseteq unique', told' \subseteq unique',
             adding' \subseteq KnownTasks,
             ctx' \in [Jobs -> Context], answer' \in [Jobs -> Answer],
             \A t \in Jobs :
                /\ IF t \in KnownTasks
                   THEN Copies(t)' + (IF t \in adding' THEN 1 ELSE 0)
                        = (IF t \in unique' THEN 1 ELSE 0)
                   ELSE Copies(t)' = 0
                /\ answer'[t] = "accepted" => t \in unique' /\ Copies(t)' = 1
                /\ t \in adding' => ctx'[t] = "none"
                /\ t \in told' => ctx'[t] # "none"
      PROVE  IInv'
  <2>1. OneCopy'
    BY <1>t, OneCopyForm
  <2>2. TypeOK'
    BY <1>t DEF TypeOK, PoolInv
  <2>3. AcceptedIsHeld'
    BY <1>t DEF AcceptedIsHeld
  <2> QED
    BY <1>t, <2>1, <2>2, <2>3 DEF IInv, TableInv
<1>s. ASSUME UNCHANGED poolVars
      PROVE  /\ PoolInv'
             /\ \A t \in Jobs : Copies(t)' = Copies(t)
  BY <1>0, <1>s, PoolKeepsInv, StepCopies
<1>u. ASSUME UNCHANGED svcVars, PoolInv',
             \A t \in Jobs : Copies(t)' = Copies(t)
      PROVE  IInv'
  <2>1. UNCHANGED <<unique, adding, ctx, told, answer>>
    BY <1>u DEF svcVars
  <2>2. ASSUME NEW t \in Jobs
        PROVE  /\ IF t \in KnownTasks
                   THEN Copies(t)' + (IF t \in adding' THEN 1 ELSE 0)
                        = (IF t \in unique' THEN 1 ELSE 0)
                   ELSE Copies(t)' = 0
               /\ answer'[t] = "accepted" => t \in unique' /\ Copies(t)' = 1
    <3>1. Copies(t)' = Copies(t)
      BY <1>u
    <3>2. IF t \in KnownTasks
         THEN Copies(t) + (IF t \in adding THEN 1 ELSE 0) = (IF t \in unique THEN 1 ELSE 0)
         ELSE Copies(t) = 0
      BY <1>c
    <3>3. answer[t] = "accepted" => t \in unique /\ Copies(t) = 1
      BY <1>i
    <3> QED
      BY <2>1, <3>1, <3>2, <3>3
  <2>3. ASSUME NEW t \in Jobs
        PROVE  /\ t \in adding' => ctx'[t] = "none"
               /\ t \in told' => ctx'[t] # "none"
    BY <1>i, <1>u, <2>1
  <2> QED
    BY <1>0, <1>u, <1>t, <2>1, <2>2, <2>3
<1>1. ASSUME NEW j \in Jobs, DispatchAdds(j) PROVE IInv'
  <2>1. /\ j \notin unique /\ unique' = unique \cup {j}
        /\ ctx' = [ctx EXCEPT ![j] = "none"] /\ answer' = [answer EXCEPT ![j] = "none"]
        /\ adding' = IF j \in KnownTasks THEN adding \cup {j} ELSE adding
        /\ UNCHANGED <<told, poolVars>>
    BY <1>1 DEF DispatchAdds
  <2>2. /\ unique' \subseteq Jobs /\ adding' \subseteq unique' /\ told' \subseteq unique'
        /\ adding' \subseteq KnownTasks
        /\ ctx' \in [Jobs -> Context] /\ answer' \in [Jobs -> Answer]
    BY <1>0, <2>1 DEF Context, Answer
  <2>3. ASSUME NEW t \in Jobs
        PROVE  /\ IF t \in KnownTasks
                  THEN Copies(t)' + (IF t \in adding' THEN 1 ELSE 0)
                       = (IF t \in unique' THEN 1 ELSE 0)
                  ELSE Copies(t)' = 0
               /\ answer'[t] = "accepted" => t \in unique' /\ Copies(t)' = 1
               /\ t \in adding' => ctx'[t] = "none"
               /\ t \in told' => ctx'[t] # "none"
    BY <1>0, <1>i, <1>c, <1>s, <2>1
  <2> QED
    BY <1>s, <1>t, <2>1, <2>2, <2>3
<1>2. ASSUME NEW j \in Jobs, DispatchRepeated(j) PROVE IInv'
  <2>1. /\ answer' = [answer EXCEPT ![j] = IF @ = "none" THEN "early" ELSE @]
        /\ UNCHANGED <<unique, adding, ctx, told, poolVars>>
    BY <1>2 DEF DispatchRepeated
  <2>2. /\ answer' \in [Jobs -> Answer]
        /\ \A t \in Jobs : answer'[t] = "accepted" => answer[t] = "accepted"
    BY <1>0, <2>1 DEF Answer
  <2> QED
    BY <1>0, <1>i, <1>c, <1>s, <1>t, <2>1, <2>2
<1>3. ASSUME NEW j \in Jobs, DispatchSubmits(j) PROVE IInv'
  <2>0. j \in adding /\ UNCHANGED <<ctx, told>>
    BY <1>3 DEF DispatchSubmits
  <2>1. CASE Submitted(j) /\ adding' = adding \ {j} /\ UNCHANGED unique
             /\ answer' = [answer EXCEPT ![j] = "accepted"]
    <3>1. PoolInv'
      BY <1>0, <2>1, PoolKeepsInv
    <3>2. \A t \in Jobs : Copies(t)' = Copies(t) + IF j = t THEN 1 ELSE 0
      BY <1>0, <2>1, StepCopies
    <3>3. /\ unique' \subseteq Jobs /\ adding' \subseteq unique' /\ told' \subseteq unique'
          /\ adding' \subseteq KnownTasks
          /\ ctx' \in [Jobs -> Context] /\ answer' \in [Jobs -> Answer]
      BY <1>0, <2>0, <2>1 DEF Answer
    <3>4. Copies(j) = 0 /\ j \in KnownTasks /\ j \in unique
      BY <1>0, <1>f, <2>0
    <3>5. ASSUME NEW t \in Jobs
          PROVE  /\ IF t \in KnownTasks
                    THEN Copies(t)' + (IF t \in adding' THEN 1 ELSE 0)
                         = (IF t \in unique' THEN 1 ELSE 0)
                    ELSE Copies(t)' = 0
                 /\ answer'[t] = "accepted" => t \in unique' /\ Copies(t)' = 1
                 /\ t \in adding' => ctx'[t] = "none"
                 /\ t \in told' => ctx'[t] # "none"
      BY <1>0, <1>i, <1>c, <2>0, <2>1, <3>2, <3>4
    <3> QED
      BY <1>t, <3>1, <3>3, <3>5
  <2>2. CASE RefusesFull(j)
    <3>1. /\ UNCHANGED <<poolVars, answer>>
          /\ unique' = unique \ {j} /\ adding' = adding \ {j}
      BY <2>2 DEF RefusesFull, NotSubmitted
    <3>2. j \notin told /\ answer[j] # "accepted" /\ Copies(j) = 0
      BY <1>f, <2>0
    <3>3. /\ unique' \subseteq Jobs /\ adding' \subseteq unique' /\ told' \subseteq unique'
          /\ adding' \subseteq KnownTasks
          /\ ctx' \in [Jobs -> Context] /\ answer' \in [Jobs -> Answer]
      BY <1>0, <2>0, <3>1, <3>2
    <3> QED
      BY <1>0, <1>i, <1>c, <1>s, <1>t, <2>0, <3>1, <3>2, <3>3
  <2>3. CASE Panics /\ UNCHANGED <<unique, adding, answer>>
    <3>1. PoolInv' /\ UNCHANGED svcVars
      BY <1>0, <2>0, <2>3, PoolKeepsInv DEF svcVars
    <3>2. \A t \in Jobs : Copies(t)' = Copies(t)
      BY <1>0, <2>3, StepCopies
    <3> QED
      BY <1>u, <3>1, <3>2
  <2> QED
    BY <1>3, <2>1, <2>2, <2>3 DEF DispatchSubmits
<1>4. ASSUME NEW j \in Jobs, Cancel(j) PROVE IInv'
  <2>1. /\ j \in unique /\ ctx[j] # "none" /\ told' = told \cup {j}
        /\ ctx' = [ctx EXCEPT ![j] = IF @ = "live" THEN "cancelled" ELSE @]
        /\ UNCHANGED <<unique, adding, answer, poolVars>>
    BY <1>4 DEF Cancel
  <2>2. /\ unique' \subseteq Jobs /\ adding' \subseteq unique' /\ told' \subseteq unique'
        /\ adding' \subseteq KnownTasks
        /\ ctx' \in [Jobs -> Context] /\ answer' \in [Jobs -> Answer]
    BY <1>0, <2>1 DEF Context
  <2>3. \A t \in Jobs : ctx'[t] = "none" <=> ctx[t] = "none"
    BY <1>0, <2>1
  <2> QED
    BY <1>0, <1>i, <1>c, <1>s, <1>t, <2>1, <2>2, <2>3
<1>5. ASSUME NEW g \in Goroutines, Begin(g) PROVE IInv'
  <2>2. at[g] = "taken"
    BY <1>5 DEF Begin, StartJob
  <2>0. PICK j \in Jobs : hand[g] = j
    BY <1>0, <1>f, <2>2
  <2>1. /\ StartJob(g) /\ ctx' = [ctx EXCEPT ![j] = "live"]
        /\ UNCHANGED <<unique, adding, told, answer>>
    BY <1>5, <2>0 DEF Begin
  <2>3. j \notin adding
    BY <1>f, <2>0, <2>2
  <2>4. PoolInv'
    BY <1>0, <2>1, PoolKeepsInv
  <2>5. \A t \in Jobs : Copies(t)' = Copies(t)
    BY <1>0, <2>1, StepCopies
  <2>7. /\ unique' \subseteq Jobs /\ adding' \subseteq unique' /\ told' \subseteq unique'
        /\ adding' \subseteq KnownTasks
        /\ ctx' \in [Jobs -> Context] /\ answer' \in [Jobs -> Answer]
    BY <1>0, <2>1 DEF Context
  <2>8. ctx'[j] = "live" /\ \A t \in Jobs \ {j} : ctx'[t] = ctx[t]
    BY <1>0, <2>1, <2>3
  <2>9. ASSUME NEW t \in Jobs
        PROVE  /\ t \in adding' => ctx'[t] = "none"
               /\ t \in told' => ctx'[t] # "none"
    BY <1>0, <1>i, <2>1, <2>3, <2>8
  <2> QED
    BY <1>0, <1>i, <1>c, <1>t, <2>1, <2>4, <2>5, <2>7, <2>9
<1>6. ASSUME NEW g \in Goroutines, End(g) PROVE IInv'
  <2> DEFINE j == hand[g]
  <2>1. at[g] = "busy"
    BY <1>6 DEF End
  <2>2. j \in Jobs /\ j \in KnownTasks /\ j \in unique /\ j \notin adding /\ Copies(j) = 1
    BY <1>0, <1>f, <2>1
  <2>3. CASE MoveToRetry(g) /\ KeepKey(j)
    <3>1. PoolInv'
      BY <1>0, <2>3, PoolKeepsInv
    <3>2. \A t \in Jobs : Copies(t)' = Copies(t)
      BY <1>0, <2>3, StepCopies
    <3>3. /\ ctx' = [ctx EXCEPT ![j] = "ended"]
          /\ UNCHANGED <<unique, adding, told, answer>>
      BY <2>3 DEF KeepKey
    <3> HIDE DEF j
    <3>6. ctx' \in [Jobs -> Context] /\ ctx'[j] = "ended" /\ \A t \in Jobs \ {j} : ctx'[t] = ctx[t]
      BY <1>0, <2>2, <3>3 DEF Context
    <3>7. ASSUME NEW t \in Jobs
          PROVE  /\ t \in adding' => ctx'[t] = "none"
                 /\ t \in told' => ctx'[t] # "none"
      BY <1>0, <1>i, <2>2, <3>3, <3>6
    <3> QED
      BY <1>0, <1>i, <1>c, <1>t, <3>1, <3>2, <3>3, <3>6, <3>7
  <2>4. CASE JobDone(g) /\ Forget(j)
    <3>1. PoolInv'
      BY <1>0, <2>4, PoolKeepsInv
    <3>2. \A t \in Jobs : Copies(t) = Copies(t)' + IF j = t THEN 1 ELSE 0
      BY <1>0, <2>4, StepCopies
    <3>3. /\ unique' = unique \ {j} /\ told' = told \ {j}
          /\ ctx' = [ctx EXCEPT ![j] = "none"] /\ answer' = [answer EXCEPT ![j] = "none"]
          /\ UNCHANGED adding
      BY <2>4 DEF Forget
    <3>n. \A t \in Jobs : Copies(t)' \in Nat
      BY <3>1, CountsNatNext DEF PoolInv
    <3> HIDE DEF j
    <3>4. ctx' \in [Jobs -> Context] /\ ctx'[j] = "none" /\ \A t \in Jobs \ {j} : ctx'[t] = ctx[t]
      BY <1>0, <2>2, <3>3 DEF Context
    <3>5. answer' \in [Jobs -> Answer] /\ answer'[j] = "none"
          /\ \A t \in Jobs \ {j} : answer'[t] = answer[t]
      BY <1>0, <2>2, <3>3 DEF Answer
    <3>6. unique' \subseteq Jobs /\ adding' \subseteq unique' /\ told' \subseteq unique'
      BY <1>0, <2>2, <3>3
    <3>7. ASSUME NEW t \in Jobs
          PROVE  /\ IF t \in KnownTasks
                    THEN Copies(t)' + (IF t \in adding' THEN 1 ELSE 0)
                         = (IF t \in unique' THEN 1 ELSE 0)
                    ELSE Copies(t)' = 0
                 /\ answer'[t] = "accepted" => t \in unique' /\ Copies(t)' = 1
      <4>1. CASE t = j
        BY <1>0, <2>2, <3>2, <3>3, <3>5, <3>n, <4>1
      <4>2. CASE t # j
        BY <1>0, <1>i, <1>c, <2>2, <3>2, <3>3, <3>5, <3>n, <4>2
      <4> QED
        BY <4>1, <4>2
    <3>8. ASSUME NEW t \in Jobs
          PROVE  /\ t \in adding' => ctx'[t] = "none"
                 /\ t \in told' => ctx'[t] # "none"
      BY <1>0, <1>i, <2>2, <3>2, <3>3, <3>4
    <3> QED
      BY <1>0, <1>t, <3>1, <3>3, <3>4, <3>5, <3>6, <3>7, <3>8
  <2> QED
    BY <1>6, <2>3, <2>4 DEF End, EndsInError, EndsInResult
<1>7. CASE Pool \/ Stop
  <2>1. UNCHANGED svcVars /\ (PoolStep \/ StopCalled \/ StopNext)
    BY <1>7 DEF Pool, Stop
  <2>2. PoolInv'
    BY <1>0, <2>1, PoolKeepsInv
  <2>3. \A t \in Jobs : Copies(t)' = Copies(t)
    BY <1>0, <2>1, StepCopies
  <2> QED
    BY <1>u, <2>1, <2>2, <2>3
<1>8. CASE UNCHANGED vars
  BY <1>s, <1>u, <1>8 DEF vars
<1> QED
  BY <1>1, <1>2, <1>3, <1>4, <1>5, <1>6, <1>7, <1>8 DEF Next

-----------------------------------------------------------------------------
\* The results.

\* The invariant holds throughout.
LEMMA InvCorrect == Spec => []IInv
  BY InvInit, InvStep, PTL DEF Spec

\* The channel never holds more than its capacity, the counter of executing
\* goroutines is never negative nor above their number, and the table names
\* tasks only; a task being submitted or answered for by CancelTasks is in it.
THEOREM TypeCorrect == Spec => []TypeOK
<1>1. IInv => TypeOK
  BY DEF IInv, TableInv
<1> QED
  BY <1>1, InvCorrect, PTL

\* unique and the pool agree: a task in the table has exactly one job, in a
\* queue, in a hand or with its handler, whatever the number of goroutines, of
\* repeated calls and of failed attempts.
THEOREM OneCopyCorrect == Spec => []OneCopy
<1>1. IInv => OneCopy
  BY DEF IInv, TableInv
<1> QED
  BY <1>1, InvCorrect, PTL

\* What DispatchTask accepted stays in the pool until an attempt ends without
\* an error.
THEOREM AcceptedIsHeldCorrect == Spec => []AcceptedIsHeld
<1>1. IInv => AcceptedIsHeld
  BY DEF IInv, TableInv
<1> QED
  BY <1>1, InvCorrect, PTL

\* Stop returns only when nobody executes anything and nothing is in the channel
\* or in a hand; what it leaves behind is in back-off or was never submitted.
THEOREM StopWaitsCorrect == Spec => []StopWaits
<1>1. ASSUME IInv PROVE StopWaits
  <2> SUFFICES ASSUME stop = "returned"
               PROVE  /\ busyCount = 0
                      /\ \A t \in unique \cap KnownTasks : t \in adding \/ InBackoff(t)
    BY DEF StopWaits
  <2>0. /\ PoolInv /\ TableInv /\ PoolTypeOK /\ KnownTasks \subseteq Jobs
    BY <1>1, ServiceAssumption DEF IInv, PoolInv
  <2>1. /\ \A g \in Goroutines : at[g] = "gone"
        /\ jobChan = <<>>
    BY <2>0, PoolAssumption DEF PoolInv
  <2>2. busyCount = 0
    <3>1. Counted = {}
      BY <2>1 DEF Counted
    <3> QED
      BY <2>0, <3>1, FS_EmptySet DEF PoolInv
  <2>3. ASSUME NEW t \in unique \cap KnownTasks, t \notin adding PROVE InBackoff(t)
    <3>1. Copies(t) = 1
      <4>1. Copies(t) + (IF t \in adding THEN 1 ELSE 0) = (IF t \in unique THEN 1 ELSE 0)
        BY <2>0, OneCopyForm DEF TableInv
      <4> QED
        BY <2>0, <2>3, <4>1, CountsNat
    <3>2. Occ(jobChan, t) = 0
      <4>1. {i \in DOMAIN jobChan : jobChan[i] = t} = {}
        BY <2>1
      <4> QED
        BY <4>1, FS_EmptySet, Zenon DEF Occ
    <3>3. HOcc(hand, at, t) = 0
      <4>1. Holding(hand, at, t) = {}
        BY <2>1 DEF Holding
      <4> QED
        BY <4>1, FS_EmptySet, Zenon DEF HOcc
    <3>4. /\ Occ(jobsQ, t) \in Nat /\ ROcc(retryQ, t) \in Nat
          /\ Occ(jobsQ, t) > 0 => \E i \in DOMAIN jobsQ : jobsQ[i] = t
          /\ ROcc(retryQ, t) > 0 => \E i \in DOMAIN retryQ : retryQ[i].job = t
      <4>1. jobsQ \in Seq(Jobs) /\ retryQ \in Seq(Entry) /\ DOMAIN jobsQ = 1..Len(jobsQ)
        BY <2>0 DEF PoolTypeOK, Entry
      <4>2. Occ(jobsQ, t) \in Nat /\ (Occ(jobsQ, t) > 0 <=> \E i \in 1..Len(jobsQ) : jobsQ[i] = t)
        BY <4>1, OccType
      <4>3. ROcc(retryQ, t) \in Nat
            /\ (ROcc(retryQ, t) > 0 <=> \E i \in DOMAIN retryQ : retryQ[i].job = t)
        BY <4>1, ROccType
      <4> QED
        BY <4>1, <4>2, <4>3
    <3> QED
      BY <3>1, <3>2, <3>3, <3>4, CopiesSum DEF InBackoff
  <2> QED
    BY <2>2, <2>3
<1> QED
  BY <1>1, InvCorrect, PTL

=============================================================================
