------------------------------ MODULE EventBus ------------------------------
(***************************************************************************)
(* pkg/event_bus: Publish puts an event into the bus channel, the          *)
(* dispatcher copies it into the queue of every subscriber, and a          *)
(* goroutine per subscriber calls its handler.  Neither send waits: a full *)
(* channel or queue loses the event.  What a handler does is left to the   *)
(* module that uses the bus.                                               *)
(*                                                                         *)
(* A member of Subs stands for one call of Subscribe.  Its id is a fresh   *)
(* uuid (the stream handler), so the branch of Subscribe that replaces a   *)
(* subscriber of the same id is never taken.                               *)
(***************************************************************************)
EXTENDS Integers, Sequences, FiniteSets

CONSTANTS
    Subs,          \* the subscriptions
    Events, NoEvent,
    BusCapacity,   \* length of Bus.ch
    SubCapacity    \* length of Subscriber.queue

ASSUME BusAssumption ==
    /\ NoEvent \notin Events
    /\ BusCapacity \in Nat \ {0} /\ SubCapacity \in Nat \ {0}

VARIABLES
    ch,           \* Bus.ch
    busHand,      \* the event dispatch() has received and not yet handed on
    subscribers,  \* Bus.subscribers
    queue,        \* queue[s]: Subscriber.queue
    closed,       \* subscriptions whose channel close is closed
    goroutine,    \* goroutine[s]: startSubscriber
    shutdown      \* no / stopping: done is closed / returned

busVars == <<ch, busHand, subscribers, queue, closed, goroutine, shutdown>>

BusTypeOK ==
    /\ ch \in Seq(Events) /\ Len(ch) <= BusCapacity
    /\ busHand \in Events \cup {NoEvent}
    /\ subscribers \subseteq Subs /\ closed \subseteq Subs
    /\ queue \in [Subs -> Seq(Events)]
    /\ \A s \in Subs : Len(queue[s]) <= SubCapacity
    /\ goroutine \in [Subs -> {"none", "running", "returned"}]
    /\ shutdown \in {"no", "stopping", "returned"}

BusInit ==
    /\ ch = <<>> /\ busHand = NoEvent
    /\ subscribers = {} /\ closed = {}
    /\ queue = [s \in Subs |-> <<>>]
    /\ goroutine = [s \in Subs |-> "none"]
    /\ shutdown = "no"

stopped == shutdown # "no"

-----------------------------------------------------------------------------
\* Called with stopped = FALSE; otherwise Subscribe is an error.
Subscribe(s) ==
    /\ ~stopped
    /\ subscribers' = subscribers \cup {s}
    /\ goroutine' = [goroutine EXCEPT ![s] = "running"]
    /\ UNCHANGED <<ch, busHand, queue, closed, shutdown>>

Unsubscribe_NotClosed(s) ==
    /\ subscribers' = subscribers \ {s}
    /\ UNCHANGED <<ch, busHand, queue, closed, goroutine, shutdown>>
Unsubscribe(s) ==
    /\ closed' = IF s \in subscribers THEN closed \cup {s} ELSE closed
    /\ subscribers' = subscribers \ {s}
    /\ UNCHANGED <<ch, busHand, queue, goroutine, shutdown>>

busFull  == Len(ch) = BusCapacity
Lost(s)  == \/ s \notin subscribers \/ goroutine[s] # "running"
            \/ Len(queue[s]) = SubCapacity

Publish(e) ==
    /\ ch' = IF stopped \/ busFull THEN ch ELSE Append(ch, e)
    /\ UNCHANGED <<busHand, subscribers, queue, closed, goroutine, shutdown>>

Shutdown ==
    /\ shutdown = "no"
    /\ shutdown' = "stopping"
    /\ UNCHANGED <<ch, busHand, subscribers, queue, closed, goroutine>>
ShutdownReturns ==
    /\ shutdown = "stopping" /\ \A s \in Subs : goroutine[s] # "running"
    /\ shutdown' = "returned"
    /\ UNCHANGED <<ch, busHand, subscribers, queue, closed, goroutine>>

\* dispatch().  Between the receive and RLock the subscribers may change.
\* Once done is closed the select may still choose the channel; returning is
\* the same as taking no further step.
DispatchTakes ==
    /\ busHand = NoEvent /\ ch # <<>>
    /\ busHand' = Head(ch) /\ ch' = Tail(ch)
    /\ UNCHANGED <<subscribers, queue, closed, goroutine, shutdown>>
DispatchCopies_InFront ==
    /\ busHand # NoEvent
    /\ queue' = [s \in Subs |-> IF Lost(s) THEN queue[s] ELSE <<busHand>> \o queue[s]]
    /\ busHand' = NoEvent
    /\ UNCHANGED <<ch, subscribers, closed, goroutine, shutdown>>
DispatchCopies ==
    /\ busHand # NoEvent
    /\ queue' = [s \in Subs |-> IF Lost(s) THEN queue[s] ELSE Append(queue[s], busHand)]
    /\ busHand' = NoEvent
    /\ UNCHANGED <<ch, subscribers, closed, goroutine, shutdown>>

\* startSubscriber: the select chooses among the cases that are ready.  The
\* queue of a subscriber that has returned is garbage.
HandlerCalled(s) ==
    /\ goroutine[s] = "running" /\ queue[s] # <<>>
    /\ queue' = [queue EXCEPT ![s] = Tail(@)]
    /\ UNCHANGED <<ch, busHand, subscribers, closed, goroutine, shutdown>>
SubscriberReturns(s) ==
    /\ goroutine[s] = "running" /\ (s \in closed \/ stopped)
    /\ goroutine' = [goroutine EXCEPT ![s] = "returned"]
    /\ queue' = [queue EXCEPT ![s] = <<>>]
    /\ UNCHANGED <<ch, busHand, subscribers, closed, shutdown>>
=============================================================================
