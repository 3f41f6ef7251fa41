----------------------------- MODULE RetryQueue -----------------------------
(***************************************************************************)
(* pkg/retry_queue: a list of triggers and a map `active' from the keys of *)
(* the triggers to be repeated to the time of their next turn.  One        *)
(* goroutine, RunLoop, takes the first trigger of the list, lets go of the *)
(* mutex, does what the trigger asks for, and takes the mutex again to put *)
(* the trigger back.  What a trigger does, and its answer, belong to the   *)
(* module that uses the queue.  A trigger is its key.                      *)
(*                                                                         *)
(* StopLoop and the functions that only look have no caller.               *)
(***************************************************************************)
EXTENDS Integers, Sequences, FiniteSets

CONSTANTS Keys, NoKey

ASSUME KeyAssumption == NoKey \notin Keys

VARIABLES
    list,     \* the linked list
    active,   \* the keys of the map active
    due,      \* the active keys whose time has come
    hand,     \* the trigger RunLoop works on
    loop,     \* where RunLoop is
    again     \* the loop's variable t is a time in the future

queueVars == <<list, active, due, hand, loop, again>>

LoopPlace == {"top", "do", "cancel", "requeue"}

QueueTypeOK ==
    /\ list \in Seq(Keys)
    /\ active \subseteq Keys /\ due \subseteq active
    /\ hand \in Keys \cup {NoKey}
    /\ loop \in LoopPlace /\ (loop = "top" <=> hand = NoKey)
    /\ again \in BOOLEAN

QueueInit ==
    /\ list = <<>> /\ active = {} /\ due = {}
    /\ hand = NoKey /\ loop = "top" /\ again = FALSE

\* The triggers of key k, in the list and in the loop's hand.
Triggers(k) ==
    Cardinality({i \in DOMAIN list : list[i] = k}) + (IF hand = k THEN 1 ELSE 0)

Push_Always(k) ==
    /\ list' = Append(list, k)
    /\ active' = active \cup {k}
    /\ UNCHANGED <<due, hand, loop, again>>
Push(k) ==
    /\ list' = IF k \in active THEN list ELSE Append(list, k)
    /\ active' = active \cup {k}
    /\ UNCHANGED <<due, hand, loop, again>>

TurnComes(k) ==
    /\ k \in active \ due
    /\ due' = due \cup {k}
    /\ UNCHANGED <<list, active, hand, loop, again>>

\* Where a trigger goes that is put back.
Requeued_InFront(s, k) == <<k>> \o s
Requeued(s, k) == Append(s, k)

\* A trigger that is no longer active is dropped, one whose turn has not come
\* goes back to the end: nobody but the loop itself can cancel it meanwhile.
LoopTakes ==
    /\ loop = "top" /\ list # <<>>
    /\ LET k == Head(list) IN
       \/ /\ k \notin active
          /\ list' = Tail(list)
          /\ UNCHANGED <<hand, loop>>
       \/ /\ k \in active \ due
          /\ list' = Requeued(Tail(list), k)
          /\ UNCHANGED <<hand, loop>>
       \/ /\ k \in due
          /\ list' = Tail(list)
          /\ hand' = k /\ loop' = "do"
    /\ UNCHANGED <<active, due, again>>

\* Do answers true (again at a later time) or false.
Answers(a) ==
    /\ loop = "do"
    /\ loop' = IF a THEN "requeue" ELSE "cancel"
    /\ again' = a
    /\ UNCHANGED <<list, active, due, hand>>

LoopCancels_NoDelete ==
    /\ loop = "cancel"
    /\ loop' = "top" /\ hand' = NoKey
    /\ UNCHANGED <<list, active, due, again>>
LoopCancels ==
    /\ loop = "cancel"
    /\ active' = active \ {hand} /\ due' = due \ {hand}
    /\ loop' = "requeue"
    /\ UNCHANGED <<list, hand, again>>

\* The key is looked up a second time: a Push that came after Cancel has made
\* it active again, with a trigger of its own, and its time is overwritten.
LoopRequeues ==
    /\ loop = "requeue"
    /\ list' = IF hand \in active THEN Requeued(list, hand) ELSE list
    /\ due' = IF hand \notin active THEN due
              ELSE IF again THEN due \ {hand} ELSE due \cup {hand}
    /\ loop' = "top" /\ hand' = NoKey /\ again' = FALSE
    /\ UNCHANGED active
=============================================================================
