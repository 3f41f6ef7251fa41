--------------------------- MODULE RegistryProofs ---------------------------
(***************************************************************************)
(* Machine-checked proofs about Registry, for any set of workers, any      *)
(* length of the retry queue's list and any number of restarts.            *)
(***************************************************************************)
EXTENDS Registry, SequenceCounts

-----------------------------------------------------------------------------
\* The triggers of a key after the changes the queue makes to its list.

\* A trigger is counted where it is.
LEMMA TriggersSplit ==
    ASSUME TypeOK, NEW k \in Keys
    PROVE  /\ Triggers(k) = Occ(list, k) + IF hand = k THEN 1 ELSE 0
           /\ Occ(list, k) \in Nat
<1>1. Triggers(k) = Occ(list, k) + IF hand = k THEN 1 ELSE 0
  BY DEF Triggers, Occ
<1>2. Occ(list, k) \in Nat
  BY OccType DEF TypeOK, QueueTypeOK
<1> QED
  BY <1>1, <1>2

\* Every step keeps the types.
LEMMA TypeStep == TypeOK /\ [Next]_vars => TypeOK'
<1> SUFFICES ASSUME TypeOK, [Next]_vars PROVE TypeOK'
  OBVIOUS
<1> USE KeyAssumption, RegistryAssumption
<1>1. ASSUME NEW w \in Keys, RegisterStores(w) PROVE TypeOK'
  BY <1>1 DEF RegisterStores, TypeOK, QueueTypeOK, queueVars
<1>2. ASSUME NEW w \in Keys, RegisterPushes(w) PROVE TypeOK'
  <2>1. list' \in Seq(Keys)
    BY <1>2 DEF RegisterPushes, Push, TypeOK, QueueTypeOK
  <2>2. link' \in [Keys -> {"starting", "serving", "registering", "suspended", "down"}]
    BY <1>2 DEF RegisterPushes, TypeOK, Failed
  <2> QED
    BY <1>2, <2>1, <2>2 DEF RegisterPushes, Push, TypeOK, QueueTypeOK
<1>3. ASSUME NEW w \in Keys, RegisterFails(w) PROVE TypeOK'
  BY <1>3 DEF RegisterFails, TypeOK, QueueTypeOK, queueVars, registryVars, Failed
<1>4. ASSUME NEW w \in Keys, Heartbeat(w) PROVE TypeOK'
  BY <1>4 DEF Heartbeat, TypeOK, QueueTypeOK, queueVars
<1>5. ASSUME NEW w \in Keys, HeartbeatFails(w) PROVE TypeOK'
  BY <1>5 DEF HeartbeatFails, TypeOK, QueueTypeOK, queueVars, registryVars
<1>6. ASSUME NEW w \in Keys, GraceExpires(w) PROVE TypeOK'
  BY <1>6 DEF GraceExpires, TypeOK, QueueTypeOK, queueVars
<1>7. ASSUME NEW w \in Keys, Turn(w) PROVE TypeOK'
  BY <1>7 DEF Turn, TurnComes, TypeOK, QueueTypeOK, queueVars, registryVars
<1>8. ASSUME NEW w \in Keys, Crash(w) PROVE TypeOK'
  BY <1>8 DEF Crash, TypeOK, QueueTypeOK, queueVars, registryVars
<1>9. CASE CheckReads
  BY <1>9 DEF CheckReads, Answers, TypeOK, QueueTypeOK, queueVars, Verdict, LoopPlace
<1>10. CASE StatusRead
  BY <1>10 DEF StatusRead, TypeOK, QueueTypeOK, queueVars, Verdict
<1>11. CASE StatusWritten
  BY <1>11 DEF StatusWritten, Answers, TypeOK, QueueTypeOK, Verdict, LoopPlace
<1>12. CASE RunLoop
  <2>1. CASE LoopTakes
    BY <1>12, <2>1 DEF RunLoop, LoopTakes, Requeued, TypeOK, QueueTypeOK, LoopPlace,
                       registryVars
  <2>2. CASE LoopCancels
    BY <1>12, <2>2 DEF RunLoop, LoopCancels, TypeOK, QueueTypeOK, LoopPlace, registryVars
  <2>3. CASE LoopRequeues
    <3>1. again' \in BOOLEAN
      BY <2>3 DEF LoopRequeues
    <3> QED
      BY <1>12, <2>3, <3>1 DEF RunLoop, LoopRequeues, Requeued, TypeOK, QueueTypeOK,
                               LoopPlace, registryVars
  <2> QED
    BY <1>12, <2>1, <2>2, <2>3 DEF RunLoop
<1>13. CASE Restart
  <2>1. again' \in BOOLEAN
    BY <1>13 DEF Restart
  <2> QED
    BY <1>13, <2>1 DEF Restart, TypeOK, QueueTypeOK, LoopPlace, Verdict, Failed
<1>14. CASE UNCHANGED vars
  BY <1>14 DEF vars, registryVars, queueVars, TypeOK, QueueTypeOK
<1> QED
  BY <1>1, <1>2, <1>3, <1>4, <1>5, <1>6, <1>7, <1>8, <1>9, <1>10, <1>11, <1>12,
     <1>13, <1>14 DEF Next

\* The types hold at the start.
LEMMA TypeInit == Init => TypeOK
<1>1. Init => again \in BOOLEAN
  BY DEF Init, QueueInit
<1> QED
  BY <1>1, KeyAssumption, RegistryAssumption
     DEF Init, QueueInit, TypeOK, QueueTypeOK, LoopPlace, Verdict

\* The registry, its queue and the worker processes keep the types of their
\* state, restarts of the control plane included.
THEOREM TypeCorrect == Spec => []TypeOK
  BY TypeInit, TypeStep, PTL DEF Spec

-----------------------------------------------------------------------------
\* The inductive invariant.

\* What the queue and the registry know of a worker agrees.
Watched(w) ==
    \/ w \in active /\ Triggers(w) = 1
    \/ w \notin active /\ Triggers(w) = 0 /\ (Known(w) => w \in pushing)

IInv ==
    /\ TypeOK
    /\ ActiveHasTrigger
    /\ \A w \in active \cup pushing \cup died : Known(w)
    /\ \A w \in Keys : node[w] = "DEAD" => w \in died
    /\ \A w \in Keys \ died : Watched(w)
    /\ loop = "do" => hand \in active
    /\ loop = "cancel" => hand \in died

\* A step that touches neither list nor hand changes no count.
LEMMA TriggersFrame ==
    ASSUME UNCHANGED <<list, hand>>, NEW k
    PROVE  Triggers(k)' = Triggers(k)
  BY DEF Triggers

\* Push of a key that was not active adds its one trigger.
LEMMA PushCounts ==
    ASSUME TypeOK, NEW w \in Keys, Push(w), NEW k \in Keys
    PROVE  Triggers(k)' = Triggers(k) + IF k = w /\ w \notin active THEN 1 ELSE 0
<1>1. /\ Triggers(k) = Occ(list, k) + IF hand = k THEN 1 ELSE 0
      /\ Triggers(k)' = Occ(list', k) + IF hand' = k THEN 1 ELSE 0
  BY DEF Triggers, Occ
<1>2. /\ Occ(list, k) \in Nat /\ list \in Seq(Keys)
      /\ Occ(Append(list, w), k) = Occ(list, k) + IF w = k THEN 1 ELSE 0
  BY OccType, OccAppend DEF TypeOK, QueueTypeOK
<1>3. hand' = hand
  BY DEF Push
<1>4. CASE w \in active
  <2>1. list' = list
    BY <1>4 DEF Push
  <2> QED
    BY <1>1, <1>2, <1>3, <1>4, <2>1
<1>5. CASE w \notin active
  <2>1. list' = Append(list, w)
    BY <1>5 DEF Push
  <2>2. Occ(list', k) = Occ(Append(list, w), k)
    BY <2>1, Zenon
  <2> QED
    BY <1>1, <1>2, <1>3, <1>5, <2>2
<1> QED
  BY <1>4, <1>5

\* The loop takes a trigger into its hand, puts it back, or drops it when its
\* key is no longer active.
LEMMA LoopCounts ==
    ASSUME TypeOK, LoopTakes \/ LoopRequeues, NEW k \in Keys
    PROVE  /\ k \in active => Triggers(k)' = Triggers(k)
           /\ Triggers(k)' <= Triggers(k) /\ Triggers(k)' \in Nat /\ Triggers(k) \in Nat
<1>1. /\ Triggers(k) = Occ(list, k) + IF hand = k THEN 1 ELSE 0
      /\ Triggers(k)' = Occ(list', k) + IF hand' = k THEN 1 ELSE 0
  BY DEF Triggers, Occ
<1>2. list \in Seq(Keys) /\ Occ(list, k) \in Nat
  BY OccType DEF TypeOK, QueueTypeOK
<1>3. CASE LoopTakes
  <2> DEFINE h == Head(list)
  <2>1. /\ h \in Keys /\ Tail(list) \in Seq(Keys)
        /\ Occ(list, k) = Occ(Tail(list), k) + IF h = k THEN 1 ELSE 0
    <3>1. list # <<>>
      BY <1>3 DEF LoopTakes
    <3> QED
      BY <1>2, <3>1, OccTail
  <2>2. /\ Occ(Tail(list), k) \in Nat
        /\ Occ(Append(Tail(list), h), k) = Occ(Tail(list), k) + IF h = k THEN 1 ELSE 0
    <3>1. Occ(Tail(list), k) \in Nat
      BY <2>1, OccType
    <3>2. Occ(Append(Tail(list), h), k) = Occ(Tail(list), k) + IF h = k THEN 1 ELSE 0
      <4>1. \A s \in Seq(Keys), e \in Keys :
               Occ(Append(s, e), k) = Occ(s, k) + IF e = k THEN 1 ELSE 0
        BY OccAppend
      <4> QED
        BY <2>1, <4>1, Zenon
    <3> QED
      BY <3>1, <3>2
  <2>3. hand = NoKey /\ k # NoKey
    BY <1>3, KeyAssumption DEF LoopTakes, TypeOK, QueueTypeOK
  <2>4. CASE h \notin active
    <3>1. list' = Tail(list) /\ hand' = hand
      BY <1>3, <2>4 DEF LoopTakes, TypeOK, QueueTypeOK
    <3>2. Occ(list', k) = Occ(Tail(list), k)
      BY <3>1, Zenon
    <3> QED
      BY <1>1, <2>1, <2>2, <2>3, <2>4, <3>1, <3>2
  <2>5. CASE h \in active \ due
    <3>1. list' = Append(Tail(list), h) /\ hand' = hand
      BY <1>3, <2>5 DEF LoopTakes, Requeued
    <3>2. Occ(list', k) = Occ(Append(Tail(list), h), k)
      BY <3>1, Zenon
    <3> QED
      BY <1>1, <2>1, <2>2, <2>3, <3>1, <3>2
  <2>6. CASE h \in due
    <3>1. list' = Tail(list) /\ hand' = h
      BY <1>3, <2>6 DEF LoopTakes, TypeOK, QueueTypeOK
    <3>2. Occ(list', k) = Occ(Tail(list), k)
      BY <3>1, Zenon
    <3> QED
      BY <1>1, <2>1, <2>2, <2>3, <3>1, <3>2
  <2> QED
    BY <2>4, <2>5, <2>6
<1>4. CASE LoopRequeues
  <2>1. hand \in Keys /\ hand' = NoKey /\ k # NoKey
    BY <1>4, KeyAssumption DEF LoopRequeues, TypeOK, QueueTypeOK
  <2>2. Occ(Append(list, hand), k) = Occ(list, k) + IF hand = k THEN 1 ELSE 0
    BY <1>2, <2>1, OccAppend
  <2>3. CASE hand \in active
    <3>1. list' = Append(list, hand)
      BY <1>4, <2>3 DEF LoopRequeues, Requeued
    <3>2. Occ(list', k) = Occ(Append(list, hand), k)
      BY <3>1, Zenon
    <3> QED
      BY <1>1, <1>2, <2>1, <2>2, <3>2
  <2>4. CASE hand \notin active
    <3>1. list' = list
      BY <1>4, <2>4 DEF LoopRequeues
    <3> QED
      BY <1>1, <1>2, <2>1, <2>4, <3>1
  <2> QED
    BY <2>3, <2>4
<1> QED
  BY <1>3, <1>4

\* What the invariant says of one step that leaves the queue's list and hand.
LEMMA QuietStep ==
    ASSUME IInv, UNCHANGED <<list, hand, active>>, TypeOK',
           \A w \in Keys : node[w] # "absent" => node'[w] # "absent",
           \A w \in pushing' : node'[w] # "absent",
           died \subseteq died',
           \A w \in died' : w \in died \/ w \in active,
           \A w \in Keys : node'[w] = "DEAD" => w \in died',
           \A w \in Keys : w \in pushing => w \in pushing',
           \A w \in Keys : ~Known(w) /\ node'[w] # "absent" => w \in pushing',
           loop' = "do" => loop = "do",
           loop' = "cancel" => loop = "cancel" \/ hand \in died'
    PROVE  IInv'
<1>1. \A k : Triggers(k)' = Triggers(k)
  BY TriggersFrame
<1>2. ActiveHasTrigger'
  BY <1>1 DEF IInv, ActiveHasTrigger
<1>3. \A w \in (active \cup pushing \cup died)' : Known(w)'
  BY DEF IInv, Known, TypeOK, QueueTypeOK
<1>4. ASSUME NEW w \in Keys \ died' PROVE Watched(w)'
  BY <1>1, <1>4 DEF IInv, Watched, Known
<1> QED
  BY <1>2, <1>3, <1>4 DEF IInv

\* Every step keeps the invariant.
LEMMA InvStep == IInv /\ [Next]_vars => IInv'
<1> SUFFICES ASSUME IInv, [Next]_vars PROVE IInv'
  OBVIOUS
<1> USE KeyAssumption
<1>0. TypeOK /\ TypeOK'
  BY TypeStep DEF IInv
<1>1. ASSUME NEW w \in Keys, RegisterStores(w) PROVE IInv'
  BY <1>0, <1>1, QuietStep DEF RegisterStores, IInv, TypeOK, QueueTypeOK, queueVars, Known
<1>2. ASSUME NEW w \in Keys, RegisterPushes(w) PROVE IInv'
  <2>1. /\ Push(w) /\ w \in pushing /\ pushing' = pushing \ {w}
        /\ UNCHANGED <<node, fresh, verdict, died, restarts>>
    BY <1>2 DEF RegisterPushes
  <2>2. \A k \in Keys : Triggers(k)' = Triggers(k) + IF k = w /\ w \notin active THEN 1 ELSE 0
    BY <1>0, <2>1, PushCounts
  <2>3. \A k \in Keys : Triggers(k) \in Nat
    BY <1>0, TriggersSplit
  <2>4. ActiveHasTrigger'
    BY <1>0, <2>1, <2>2, <2>3 DEF IInv, ActiveHasTrigger, Push, TypeOK, QueueTypeOK
  <2>5. \A k \in (active \cup pushing \cup died)' : Known(k)'
    BY <1>0, <2>1 DEF IInv, Push, Known, TypeOK, QueueTypeOK
  <2>6. ASSUME NEW k \in Keys \ died' PROVE Watched(k)'
    BY <1>0, <2>1, <2>2, <2>3, <2>6 DEF IInv, Watched, Push, Known
  <2> QED
    BY <1>0, <2>1, <2>4, <2>5, <2>6 DEF IInv, Push
<1>3. ASSUME NEW w \in Keys, RegisterFails(w) PROVE IInv'
  BY <1>0, <1>3, QuietStep DEF RegisterFails, IInv, queueVars, registryVars, Known
<1>4. ASSUME NEW w \in Keys, Heartbeat(w) PROVE IInv'
  BY <1>0, <1>4, QuietStep DEF Heartbeat, IInv, TypeOK, queueVars, Known
<1>5. ASSUME NEW w \in Keys, HeartbeatFails(w) PROVE IInv'
  BY <1>0, <1>5, QuietStep DEF HeartbeatFails, IInv, queueVars, registryVars, Known
<1>6. ASSUME NEW w \in Keys, GraceExpires(w) PROVE IInv'
  BY <1>0, <1>6, QuietStep DEF GraceExpires, IInv, queueVars, Known
<1>7. ASSUME NEW w \in Keys, Turn(w) PROVE IInv'
  BY <1>0, <1>7, QuietStep DEF Turn, TurnComes, IInv, registryVars, Known
<1>8. ASSUME NEW w \in Keys, Crash(w) PROVE IInv'
  BY <1>0, <1>8, QuietStep DEF Crash, IInv, queueVars, registryVars, Known
<1>9. CASE CheckReads
  <2>1. hand \in active /\ hand \in Keys /\ Known(hand)
    BY <1>0, <1>9 DEF CheckReads, IInv, TypeOK, QueueTypeOK
  <2> QED
    BY <1>0, <1>9, <2>1, QuietStep DEF CheckReads, Answers, IInv, queueVars, Known
<1>10. CASE StatusRead
  BY <1>0, <1>10, QuietStep DEF StatusRead, IInv, queueVars, Known
<1>11. CASE StatusWritten
  <2>1. loop = "do" /\ hand \in active /\ hand \in Keys /\ Known(hand)
    BY <1>0, <1>11 DEF StatusWritten, IInv, TypeOK, QueueTypeOK
  <2>2. /\ UNCHANGED <<list, hand, active, pushing>>
        /\ node' = [node EXCEPT ![hand] = verdict]
        /\ verdict \in {"ALIVE", "SUSPECT", "DEAD"}
        /\ died' = IF verdict = "DEAD" THEN died \cup {hand} ELSE died
        /\ loop' = IF verdict # "DEAD" THEN "requeue" ELSE "cancel"
    BY <1>11 DEF StatusWritten, Answers
  <2> QED
    BY <1>0, <2>1, <2>2, QuietStep DEF IInv, TypeOK, Known
<1>12. CASE RunLoop
  <2>1. UNCHANGED <<node, fresh, verdict, pushing, died>>
    BY <1>12 DEF RunLoop, registryVars
  <2>2. CASE LoopTakes \/ LoopRequeues
    <3>1. \A k \in Keys : /\ k \in active => Triggers(k)' = Triggers(k)
                          /\ Triggers(k)' <= Triggers(k)
                          /\ Triggers(k)' \in Nat /\ Triggers(k) \in Nat
      BY <1>0, <2>2, LoopCounts
    <3>2. active' = active
      BY <2>2 DEF LoopTakes, LoopRequeues
    <3>3. /\ loop' = "do" => hand' \in active'
          /\ loop' # "cancel"
      BY <1>0, <2>2 DEF LoopTakes, LoopRequeues, TypeOK, QueueTypeOK
    <3>4. ActiveHasTrigger'
      BY <1>0, <3>1, <3>2 DEF IInv, ActiveHasTrigger, TypeOK, QueueTypeOK
    <3>5. ASSUME NEW k \in Keys \ died' PROVE Watched(k)'
      BY <2>1, <3>1, <3>2, <3>5 DEF IInv, Watched, Known
    <3> QED
      BY <1>0, <2>1, <3>2, <3>3, <3>4, <3>5 DEF IInv, Known
  <2>3. CASE LoopCancels
    <3>1. \A k : Triggers(k)' = Triggers(k)
      BY <2>3, TriggersFrame DEF LoopCancels
    <3>2. hand \in died
      BY <2>3 DEF LoopCancels, IInv
    <3>3. active' = active \ {hand} /\ loop' = "requeue"
      BY <2>3 DEF LoopCancels
    <3>4. ActiveHasTrigger'
      BY <3>1, <3>3 DEF IInv, ActiveHasTrigger
    <3>5. ASSUME NEW k \in Keys \ died' PROVE Watched(k)'
      BY <2>1, <3>1, <3>2, <3>3, <3>5 DEF IInv, Watched, Known
    <3> QED
      BY <1>0, <2>1, <3>3, <3>4, <3>5 DEF IInv, Known
  <2> QED
    BY <1>12, <2>2, <2>3 DEF RunLoop
<1>13. CASE Restart
  <2>1. /\ list' = <<>> /\ active' = {} /\ hand' = NoKey /\ loop' = "top"
        /\ node' = [k \in Keys |-> "absent"] /\ pushing' = {} /\ died' = {}
    BY <1>13 DEF Restart
  <2>2. ASSUME NEW k \in Keys PROVE Triggers(k)' = 0
    <3>1. Triggers(k)' = Occ(list', k) + IF hand' = k THEN 1 ELSE 0
      BY DEF Triggers, Occ
    <3>2. Occ(list', k) = 0
      BY <2>1, OccType, EmptySeq
    <3> QED
      BY <2>1, <3>1, <3>2
  <2> QED
    BY <1>0, <2>1, <2>2 DEF IInv, ActiveHasTrigger, Watched, Known
<1>14. CASE UNCHANGED vars
  BY <1>0, <1>14, QuietStep DEF vars, queueVars, registryVars, IInv, Known
<1> QED
  BY <1>1, <1>2, <1>3, <1>4, <1>5, <1>6, <1>7, <1>8, <1>9, <1>10, <1>11, <1>12,
     <1>13, <1>14 DEF Next

\* The invariant holds at the start.
LEMMA InvInit == Init => IInv
<1> SUFFICES ASSUME Init PROVE IInv
  OBVIOUS
<1>1. TypeOK
  BY TypeInit
<1>2. ASSUME NEW k \in Keys PROVE Triggers(k) = 0
  <2>1. Triggers(k) = Occ(list, k) + IF hand = k THEN 1 ELSE 0
    BY DEF Triggers, Occ
  <2>2. Occ(list, k) = 0
    BY OccType, EmptySeq DEF Init, QueueInit
  <2> QED
    BY <2>1, <2>2, KeyAssumption DEF Init, QueueInit
<1> QED
  BY <1>1, <1>2 DEF Init, QueueInit, IInv, ActiveHasTrigger, Watched, Known

\* The queue, the registry's statuses and the handlers under way agree on who
\* is watched, whatever calls fail and whenever the control plane restarts.
THEOREM InvCorrect == Spec => []IInv
  BY InvInit, InvStep, PTL DEF Spec

\* A key in the map never loses its last trigger, so Push may leave it alone.
THEOREM ActiveHasTriggerCorrect == Spec => []ActiveHasTrigger
<1>1. IInv => ActiveHasTrigger
  BY DEF IInv
<1> QED
  BY <1>1, InvCorrect, PTL

\* A registered worker is watched by exactly one trigger until it is declared
\* dead for the first time, for any number of registrations.
THEOREM OneTriggerUntilDeadCorrect == Spec => []OneTriggerUntilDead
<1>1. IInv => OneTriggerUntilDead
  BY DEF IInv, OneTriggerUntilDead, Watched
<1> QED
  BY <1>1, InvCorrect, PTL

-----------------------------------------------------------------------------
\* The step part of WatchSpec: the queue behaves like the set of watched keys.
\* (That no key is passed over for ever is fairness, and left to TLC.)

\* Every step of the queue is a step of the set, or none.
LEMMA WatchStep == IInv /\ [Next]_vars => [Watch!Next]_(Watch!vars)
<1> SUFFICES ASSUME IInv, [Next]_vars PROVE [Watch!Next]_(Watch!vars)
  OBVIOUS
<1> USE KeyAssumption DEF Watch!vars
<1>1. ASSUME UNCHANGED <<active, hand, loop>> PROVE UNCHANGED Watch!vars
  BY <1>1
<1>2. ASSUME NEW w \in Keys, RegisterPushes(w) PROVE Watch!Next
  BY <1>2 DEF RegisterPushes, Push, Watch!Next, Watch!Watch
<1>3. CASE Answers(TRUE)
  BY <1>3 DEF Answers, Watch!Next, Watch!Kept, IInv, TypeOK, QueueTypeOK
<1>4. CASE Answers(FALSE)
  BY <1>4 DEF Answers
<1>5. CASE RunLoop
  <2>1. CASE LoopTakes
    BY <2>1 DEF LoopTakes, Watch!Next, Watch!CheckBegins, IInv, TypeOK, QueueTypeOK
  <2>2. CASE LoopCancels
    BY <2>2 DEF LoopCancels, Watch!Next, Watch!Dropped, IInv, TypeOK, QueueTypeOK
  <2>3. CASE LoopRequeues
    BY <2>3 DEF LoopRequeues
  <2> QED
    BY <1>5, <2>1, <2>2, <2>3 DEF RunLoop
<1>6. CASE Restart
  BY <1>6 DEF Restart, Watch!Next, Watch!Reset
<1>7. CASE CheckReads
  BY <1>1, <1>4, <1>7 DEF CheckReads, queueVars
<1>8. CASE StatusWritten
  BY <1>3, <1>4, <1>8 DEF StatusWritten, Answers
<1>9. ASSUME NEW w \in Keys,
             \/ RegisterStores(w) \/ RegisterFails(w) \/ Heartbeat(w)
             \/ HeartbeatFails(w) \/ GraceExpires(w) \/ Turn(w) \/ Crash(w)
      PROVE  UNCHANGED Watch!vars
  BY <1>1, <1>9 DEF RegisterStores, RegisterFails, Heartbeat, HeartbeatFails,
                    GraceExpires, Turn, TurnComes, Crash, queueVars
<1>10. CASE StatusRead
  BY <1>1, <1>10 DEF StatusRead, queueVars
<1>11. CASE UNCHANGED vars
  BY <1>1, <1>11 DEF vars, queueVars
<1> QED
  BY <1>2, <1>5, <1>6, <1>7, <1>8, <1>9, <1>10, <1>11 DEF Next

\* The retry queue, with its list, its map and the two looks its loop takes at
\* the map, implements the set of watched keys that module WatchSet describes
\* and module Orchestrator relies on.
THEOREM WatchStepsCorrect == Spec => Watch!Init /\ [][Watch!Next]_(Watch!vars)
<1>1. Init => Watch!Init
  BY DEF Init, QueueInit, Watch!Init
<1> QED
  BY <1>1, InvCorrect, WatchStep, PTL DEF Spec

=============================================================================
