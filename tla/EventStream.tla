---------------------------- MODULE EventStream -----------------------------
(***************************************************************************)
(* StreamWorkflowEvents over the event bus, with the engine as publisher.  *)
(*                                                                         *)
(* The engine holds e.mu for a whole call, in which it changes statuses    *)
(* and publishes an event after each change.  The stream handler takes     *)
(* e.mu only to look the workflow up; IsFinished, the snapshot and         *)
(* Subscribe come one after the other, with the engine, the dispatcher and *)
(* the other streams running in between.                                   *)
(*                                                                         *)
(* A change is any transition the engine publishes: of a task (READY, also *)
(* again after a worker's death, DISPATCHED, RUNNING, an end) or of the    *)
(* workflow.  The changes of a workflow are numbered in the order the      *)
(* engine makes them, except that its end always has the number MaxChanges *)
(* however many there were before it; an event is the pair of a workflow   *)
(* and a number.                                                           *)
(***************************************************************************)
EXTENDS EventBus

CONSTANTS
    Workflows,
    OutCapacity,   \* length of the channel out of a stream
    MaxChanges     \* bound: changes of a workflow, its end included

AllEvents == Workflows \X (1..MaxChanges)

ASSUME StreamAssumption ==
    /\ Events = AllEvents /\ NoEvent \notin Workflows
    /\ OutCapacity \in Nat \ {0} /\ MaxChanges \in Nat \ {0}

VARIABLES
    life,       \* life[w]: number of the last change made; -1: not submitted
    section,    \* the engine's call: [wf, unsent]; wf = NoEvent: none
    target,     \* target[s]: the workflow stream s is asked for
    at,         \* at[s]: where the stream handler is
    out,        \* out[s]: events the bus handler has put into the channel
    left,       \* streams whose client has gone (ctx is done)
    last,       \* last[s]: number of the last event of target[s] s received
    missed      \* streams past which the end of their workflow went

streamVars == <<target, at, out, left, last, missed>>
vars == <<busVars, life, section, streamVars>>

NoSection == [wf |-> NoEvent, unsent |-> FALSE]
Place == {"none", "check", "snapshot", "subscribe", "loop", "defer", "closed"}

TypeOK ==
    /\ BusTypeOK
    /\ life \in [Workflows -> -1..MaxChanges]
    /\ section \in [wf : Workflows \cup {NoEvent}, unsent : BOOLEAN]
    /\ target \in [Subs -> Workflows \cup {NoEvent}]
    /\ at \in [Subs -> Place]
    /\ out \in [Subs -> Seq(Events)]
    /\ \A s \in Subs : Len(out[s]) <= OutCapacity
    /\ left \subseteq Subs /\ missed \subseteq Subs
    /\ last \in [Subs -> 0..MaxChanges]

Init ==
    /\ BusInit
    /\ life = [w \in Workflows |-> -1]
    /\ section = NoSection
    /\ target = [s \in Subs |-> NoEvent]
    /\ at = [s \in Subs |-> "none"]
    /\ out = [s \in Subs |-> <<>>]
    /\ left = {} /\ missed = {}
    /\ last = [s \in Subs |-> 0]

Ended(w) == life[w] = MaxChanges
IsEnd(e) == e[2] = MaxChanges
\* The streams asked for e's workflow, if e is its end.
Waiting(e) ==
    {s \in Subs : IsEnd(e) /\ target[s] = e[1] /\ at[s] \notin {"defer", "closed"}}

-----------------------------------------------------------------------------
\* The engine: a call begins with e.mu free.

\* SubmitWorkflow, OnTaskResponse, OnTaskDispatched, CancelTask, CancelWorkflow
\* or ReassignDeadWorkerTasks; the last may be several calls here, one for
\* each workflow.
CallBegins(w) ==
    /\ section = NoSection
    /\ section' = [wf |-> w, unsent |-> FALSE]
    /\ life' = [life EXCEPT ![w] = IF @ = -1 THEN 0 ELSE @]
    /\ UNCHANGED <<busVars, streamVars>>

\* UpdateStatus succeeds: the new status is visible, its event not published.
\* All tasks of a workflow that has ended have, and their statuses are final.
CallWrites ==
    /\ section # NoSection /\ ~section.unsent
    /\ \E n \in {life[section.wf] + 1, MaxChanges} :
          /\ life[section.wf] < n /\ n <= MaxChanges
          /\ life' = [life EXCEPT ![section.wf] = n]
    /\ section' = [section EXCEPT !.unsent = TRUE]
    /\ UNCHANGED <<busVars, streamVars>>

CallPublishes ==
    LET e == <<section.wf, life[section.wf]>> IN
    /\ section.unsent
    /\ Publish(e)
    /\ missed' = IF stopped \/ busFull THEN missed \cup Waiting(e) ELSE missed
    /\ section' = [section EXCEPT !.unsent = FALSE]
    /\ UNCHANGED <<life, target, at, out, left, last>>

CallReturns ==
    /\ section # NoSection /\ ~section.unsent
    /\ section' = NoSection
    /\ UNCHANGED <<busVars, life, streamVars>>

-----------------------------------------------------------------------------
\* The dispatcher and the goroutines of the subscribers.

Dispatcher ==
    \/ DispatchTakes /\ UNCHANGED <<life, section, streamVars>>
    \/ /\ DispatchCopies
       /\ missed' = missed \cup {s \in Waiting(busHand) : Lost(s)}
       /\ UNCHANGED <<life, section, target, at, out, left, last>>

\* The handler closure: an event that finds out full is lost, and so may be
\* one that finds the context done.  Nobody reads out after the loop has been
\* left: what is put there then is not recorded.
Handler(s) ==
    LET e == Head(queue[s])
        full == Len(out[s]) = OutCapacity
    IN
    /\ HandlerCalled(s)
    /\ \/ /\ full \/ s \in left
          /\ missed' = missed \cup ({s} \cap Waiting(e))
          /\ UNCHANGED out
       \/ /\ ~full
          /\ out' = [out EXCEPT ![s] = IF at[s] = "loop" THEN Append(@, e) ELSE @]
          /\ UNCHANGED missed
    /\ UNCHANGED <<life, section, target, at, left, last>>

Returns(s) == SubscriberReturns(s) /\ UNCHANGED <<life, section, streamVars>>
-----------------------------------------------------------------------------
\* StreamWorkflowEvents.

Goes(s, p) ==
    /\ at' = [at EXCEPT ![s] = p]
    /\ UNCHANGED <<life, section>>

\* GetWorkflow waits for e.mu; an unknown workflow is an error.
Open(s, w) ==
    /\ at[s] = "none" /\ section = NoSection
    /\ Goes(s, IF life[w] = -1 THEN "closed" ELSE "check")
    /\ target' = [target EXCEPT ![s] = IF life[w] = -1 THEN @ ELSE w]
    /\ UNCHANGED <<busVars, out, left, last, missed>>

CheckFinished(s) ==
    /\ at[s] = "check"
    /\ Goes(s, IF Ended(target[s]) THEN "closed" ELSE "snapshot")
    /\ UNCHANGED <<busVars, target, out, left, last, missed>>

\* Send fails only if the client has gone.
SendSnapshot(s) ==
    /\ at[s] = "snapshot"
    /\ Goes(s, "subscribe") \/ (s \in left /\ Goes(s, "closed"))
    /\ UNCHANGED <<busVars, target, out, left, last, missed>>

\* An end that was handed on before this never comes.
SubscribeStream(s) ==
    /\ at[s] = "subscribe"
    /\ \/ Subscribe(s) /\ Goes(s, "loop")
       \/ stopped /\ Goes(s, "closed") /\ UNCHANGED busVars
    /\ UNCHANGED <<target, out, left, last, missed>>

\* sendWorkflowEvent: the end of any workflow closes the stream, for it is
\* looked at before the workflow's id; task events are sent whatever their
\* workflow is.
closesStream_ForeignOnly(s, e) == IsEnd(e) /\ e[1] # target[s]
closesStream(s, e) == IsEnd(e)
Receive(s) ==
    LET e == Head(out[s]) IN
    /\ at[s] = "loop" /\ out[s] # <<>>
    /\ out' = [out EXCEPT ![s] = IF closesStream(s, e) THEN <<>> ELSE Tail(@)]
    /\ last' = [last EXCEPT ![s] = IF e[1] = target[s] THEN e[2] ELSE @]
    /\ Goes(s, IF closesStream(s, e) THEN "defer" ELSE "loop")
    /\ UNCHANGED <<busVars, target, left, missed>>

ClientLeaves(s) ==
    /\ at[s] \notin {"none", "closed"} /\ s \notin left
    /\ left' = left \cup {s}
    /\ UNCHANGED <<busVars, life, section, target, at, out, last, missed>>
LoopEnds(s) ==
    /\ at[s] = "loop" /\ s \in left
    /\ Goes(s, "defer")
    /\ out' = [out EXCEPT ![s] = <<>>]
    /\ UNCHANGED <<busVars, target, left, last, missed>>
UnsubscribeStream(s) ==
    /\ at[s] = "defer"
    /\ Unsubscribe(s) /\ Goes(s, "closed")
    /\ UNCHANGED <<target, out, left, last, missed>>

Stream(s) ==
    \/ CheckFinished(s) \/ SendSnapshot(s) \/ SubscribeStream(s)
    \/ Receive(s) \/ LoopEnds(s) \/ UnsubscribeStream(s)

\* Shutdown has no caller but the tests of the bus.
Stop == (Shutdown \/ ShutdownReturns) /\ UNCHANGED <<life, section, streamVars>>

Next ==
    \/ \E w \in Workflows : CallBegins(w)
    \/ CallWrites \/ CallPublishes \/ CallReturns
    \/ Dispatcher
    \/ \E s \in Subs : \/ Handler(s) \/ Returns(s) \/ Stream(s) \/ ClientLeaves(s)
                       \/ \E w \in Workflows : Open(s, w)
    \/ Stop

\* Goroutines are scheduled; clients, workflows and Shutdown come as they like.
Fairness ==
    /\ WF_vars(CallWrites \/ CallReturns) /\ WF_vars(CallPublishes) /\ WF_vars(Dispatcher)
    /\ \A s \in Subs : /\ WF_vars(Handler(s)) /\ SF_vars(Returns(s))
                       /\ WF_vars(Stream(s))

Spec == Init /\ [][Next]_vars /\ Fairness

-----------------------------------------------------------------------------
\* A stream receives the events of its workflow in the order in which the engine
\* made the changes, each at most once, whatever is lost on the way through
\* the three channels.
OrderedDelivery ==
    [][\A s \in Subs : Receive(s) /\ Head(out[s])[1] = target[s]
                          => last'[s] > last[s]]_vars

\* A stream whose workflow has ended is closed, unless the end went past it:
\* the dispatcher handed it on before Subscribe, or found a channel full.
\* (Then the stream stays open until its client goes: nothing repeats the
\* check that comes before Subscribe.)
StreamEnds ==
    \A s \in Subs :
        at[s] = "loop" /\ Ended(target[s])
            ~> at[s] # "loop" \/ s \in missed \/ stopped

\* The server closes a stream for a reason: its client has gone, the bus is
\* stopped, or the workflow the client asked for has ended.  (Violated:
\* sendWorkflowEvent looks at the status before the id.)
ClosedByOwnEnd ==
    \A s \in Subs :
        at[s] \in {"defer", "closed"} /\ target[s] # NoEvent =>
            s \in left \/ stopped \/ Ended(target[s])

\* A stream that is closed, for whatever reason, does not leave its
\* subscriber's goroutine behind.
NoLeak == \A s \in Subs : at[s] = "closed" ~> goroutine[s] # "running"

=============================================================================
