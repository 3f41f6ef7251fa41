------------------------- MODULE ControlPlaneProofs -------------------------
(***************************************************************************)
(* Theorems about three parts of the control plane that share no state,    *)
(* each with its own variables: the event stream, the scheduler's choice   *)
(* of a worker, and the mutexes.                                           *)
(***************************************************************************)
EXTENDS EventStream, Scheduler, LockOrder,
        SequenceCounts, FiniteSetTheorems, SequenceTheorems, WellFoundedInduction, TLAPS

-----------------------------------------------------------------------------
\* The event stream.

\* Of one workflow, e comes before f.
Before(e, f) == e[1] = f[1] => e[2] < f[2]
Ahead(X, Y)  == \A e \in X, f \in Y : Before(e, f)
Ordered(q)   == \A i, j \in DOMAIN q : i < j => Before(q[i], q[j])
Held(q)      == {q[i] : i \in DOMAIN q}
InHand       == {busHand} \ {NoEvent}
InBus        == InHand \cup Held(ch)

\* The change that e tells of has been made, and if the engine is about to
\* publish a change of the same workflow, that one comes later.
Made(e) ==
    /\ e[2] <= life[e[1]]
    /\ section.unsent /\ section.wf = e[1] => e[2] < life[e[1]]

\* The engine's call is about a workflow that was submitted, and what it has to
\* publish is a change.
CallInv ==
    section # NoSection =>
        /\ section.wf \in Workflows /\ life[section.wf] >= 0
        /\ section.unsent => life[section.wf] >= 1

\* What is in the bus is in order.
BusInv ==
    /\ Ordered(ch) /\ Ahead(InHand, Held(ch))
    /\ \A e \in InBus : Made(e)

\* A channel o, then a queue q, then whatever is in B are in order.
InOrder(o, q, B) ==
    /\ Ordered(o) /\ Ordered(q)
    /\ Ahead(Held(o), Held(q)) /\ Ahead(Held(o), B) /\ Ahead(Held(q), B)

\* What is on its way to stream s is in order too, and all of it is news to s.
Coming(s) == Held(out[s]) \cup Held(queue[s]) \cup InBus
WayInv(s) ==
    /\ InOrder(out[s], queue[s], InBus)
    /\ \A e \in Held(out[s]) \cup Held(queue[s]) : Made(e)
    /\ \A e \in Coming(s) : e[1] = target[s] => last[s] < e[2]

\* What s knows of its workflow, and where its handler is.
StreamInv(s) ==
    /\ at[s] = "none" => target[s] = NoEvent /\ last[s] = 0
    /\ at[s] \notin {"none", "closed"} => target[s] # NoEvent
    /\ target[s] # NoEvent => Made(<<target[s], last[s]>>)

IInv ==
    /\ TypeOK /\ CallInv /\ BusInv
    /\ \A s \in Subs : WayInv(s) /\ StreamInv(s)

\* A channel and its parts.
LEMMA HeldEmpty == Held(<<>>) = {} /\ Ordered(<<>>)
BY DEF Held, Ordered

\* The first of a channel and the rest.
LEMMA HeldTail ==
    ASSUME NEW q \in Seq(Events), q # <<>>
    PROVE  /\ Head(q) \in Held(q) /\ Held(Tail(q)) \subseteq Held(q)
           /\ Ordered(q) => Ordered(Tail(q)) /\ Ahead({Head(q)}, Held(Tail(q)))
<1>1. /\ Tail(q) \in Seq(Events) /\ Len(q) >= 1 /\ Len(q) \in Nat
      /\ Len(Tail(q)) = Len(q) - 1
      /\ \A i \in 1..(Len(q) - 1) : Tail(q)[i] = q[i + 1] /\ i + 1 \in 1..Len(q)
      /\ Head(q) = q[1] /\ 1 \in 1..Len(q)
      /\ DOMAIN q = 1..Len(q) /\ DOMAIN Tail(q) = 1..(Len(q) - 1)
  OBVIOUS
<1>2. Head(q) \in Held(q) /\ Held(Tail(q)) \subseteq Held(q)
  BY <1>1 DEF Held
<1>3. ASSUME Ordered(q) PROVE Ordered(Tail(q)) /\ Ahead({Head(q)}, Held(Tail(q)))
  <2>1. \A i, j \in 1..Len(q) : i < j => Before(q[i], q[j])
    BY <1>1, <1>3 DEF Ordered
  <2>2. \A i, j \in 1..(Len(q) - 1) : i < j => Before(q[i + 1], q[j + 1])
    BY <1>1, <2>1
  <2>3. \A i \in 1..(Len(q) - 1) : Before(q[1], q[i + 1])
    BY <1>1, <2>1
  <2>4. Ordered(Tail(q))
    BY <1>1, <2>2 DEF Ordered
  <2>5. Ahead({Head(q)}, Held(Tail(q)))
    BY <1>1, <2>3 DEF Ahead, Held
  <2> QED
    BY <2>4, <2>5
<1> QED
  BY <1>2, <1>3

\* A channel and one event more.
LEMMA HeldAppend ==
    ASSUME NEW q \in Seq(Events), NEW e \in Events
    PROVE  /\ Held(Append(q, e)) = Held(q) \cup {e}
           /\ Ordered(q) /\ Ahead(Held(q), {e}) => Ordered(Append(q, e))
<1>1. /\ Len(q) \in Nat /\ DOMAIN q = 1..Len(q)
      /\ DOMAIN Append(q, e) = 1..(Len(q) + 1)
      /\ \A i \in 1..Len(q) : Append(q, e)[i] = q[i]
      /\ Append(q, e)[Len(q) + 1] = e
  OBVIOUS
<1>2. Held(Append(q, e)) = Held(q) \cup {e}
  BY <1>1 DEF Held
<1>3. ASSUME Ordered(q), Ahead(Held(q), {e}) PROVE Ordered(Append(q, e))
  <2>1. \A i \in 1..Len(q) : Before(q[i], e)
    BY <1>1, <1>3 DEF Ahead, Held
  <2>2. \A i, j \in 1..Len(q) : i < j => Before(q[i], q[j])
    BY <1>1, <1>3 DEF Ordered
  <2> QED
    BY <1>1, <2>1, <2>2 DEF Ordered
<1> QED
  BY <1>2, <1>3

\* On the way of the events to a stream some are lost, or the first of a
\* channel is taken out.
LEMMA WayLoses ==
    ASSUME NEW o \in Seq(Events), NEW q \in Seq(Events), NEW B, NEW D,
           InOrder(o, q, B), D \subseteq B
    PROVE  /\ InOrder(o, q, D) /\ InOrder(o, <<>>, D) /\ InOrder(<<>>, q, D)
           /\ q # <<>> => InOrder(o, Tail(q), D)
           /\ o # <<>> => InOrder(Tail(o), q, D)
BY HeldEmpty, HeldTail DEF InOrder, Ahead

\* The handler passes the first event of the queue on into the channel.
LEMMA WayPasses ==
    ASSUME NEW o \in Seq(Events), NEW q \in Seq(Events), NEW B,
           InOrder(o, q, B), q # <<>>
    PROVE  InOrder(Append(o, Head(q)), Tail(q), B)
<1>0. Head(q) \in Events
  OBVIOUS
<1>1. Head(q) \in Held(q) /\ Held(Tail(q)) \subseteq Held(q)
  BY HeldTail
<1>2. Ordered(Tail(q)) /\ Ahead({Head(q)}, Held(Tail(q)))
  BY HeldTail DEF InOrder
<1>3. Ahead(Held(o), {Head(q)})
  BY <1>1 DEF InOrder, Ahead
<1>4. /\ Held(Append(o, Head(q))) = Held(o) \cup {Head(q)}
      /\ Ordered(Append(o, Head(q)))
  BY <1>0, <1>3, HeldAppend DEF InOrder
<1> QED
  BY <1>1, <1>2, <1>4 DEF InOrder, Ahead

\* The dispatcher puts the event it holds at the end of the queue.
LEMMA WayGains ==
    ASSUME NEW o \in Seq(Events), NEW q \in Seq(Events), NEW e \in Events, NEW D,
           InOrder(o, q, {e} \cup D), Ahead({e}, D)
    PROVE  InOrder(o, Append(q, e), D)
<1>1. Ahead(Held(q), {e})
  BY DEF InOrder, Ahead
<1>2. Held(Append(q, e)) = Held(q) \cup {e} /\ Ordered(Append(q, e))
  BY <1>1, HeldAppend DEF InOrder
<1> QED
  BY <1>2 DEF InOrder, Ahead

\* The steps of the engine.
EngineStep ==
    (\E w \in Workflows : CallBegins(w)) \/ CallWrites \/ CallPublishes \/ CallReturns

\* A workflow makes at least one change, its end.
LEMMA EndIsAChange == MaxChanges \in Nat /\ MaxChanges >= 1
BY StreamAssumption

\* The changes the engine makes stay within a life.
LEMMA TypeCallStep ==
    ASSUME TypeOK, CallInv,
           EngineStep
    PROVE  TypeOK'
<1> USE EndIsAChange DEF TypeOK
<1>1. ASSUME NEW w \in Workflows, CallBegins(w) PROVE TypeOK'
  <2>1. BusTypeOK'
    BY <1>1 DEF CallBegins, busVars, BusTypeOK
  <2>2. life' \in [Workflows -> -1..MaxChanges]
    BY <1>1 DEF CallBegins
  <2>3. section' \in [wf : Workflows \cup {NoEvent}, unsent : BOOLEAN]
    BY <1>1 DEF CallBegins
  <2> QED
    BY <1>1, <2>1, <2>2, <2>3 DEF CallBegins, streamVars
<1>2. CASE CallWrites
  <2>1. BusTypeOK'
    BY <1>2 DEF CallWrites, busVars, BusTypeOK
  <2>2. life' \in [Workflows -> -1..MaxChanges]
    <3>1. PICK n \in {life[section.wf] + 1, MaxChanges} :
             /\ life[section.wf] < n /\ n <= MaxChanges
             /\ life' = [life EXCEPT ![section.wf] = n]
      BY <1>2 DEF CallWrites
    <3>2. section.wf \in Workflows
      BY <1>2 DEF CallWrites, CallInv
    <3>3. life[section.wf] \in -1..MaxChanges
      BY <3>2
    <3>4. n \in -1..MaxChanges
      BY <3>1, <3>3
    <3> QED
      BY <3>1, <3>4
  <2>3. section' \in [wf : Workflows \cup {NoEvent}, unsent : BOOLEAN]
    BY <1>2 DEF CallWrites
  <2> QED
    BY <1>2, <2>1, <2>2, <2>3 DEF CallWrites, streamVars
<1>3. CASE CallPublishes
  <2> DEFINE e == <<section.wf, life[section.wf]>>
  <2>1. section # NoSection
    BY <1>3 DEF CallPublishes, NoSection
  <2>2. e \in Events
    BY <1>3, <2>1, StreamAssumption DEF CallPublishes, CallInv, AllEvents
  <2> HIDE DEF e
  <2>3. Publish(e)
    BY <1>3 DEF CallPublishes, e
  <2>4. ch' \in Seq(Events) /\ Len(ch') <= BusCapacity
    BY <2>2, <2>3, BusAssumption DEF Publish, BusTypeOK, busFull
  <2>5. BusTypeOK'
    BY <2>3, <2>4 DEF Publish, BusTypeOK
  <2>6. section' \in [wf : Workflows \cup {NoEvent}, unsent : BOOLEAN]
    BY <1>3 DEF CallPublishes
  <2>7. missed' \subseteq Subs
    BY <1>3 DEF CallPublishes, Waiting
  <2> QED
    BY <1>3, <2>5, <2>6, <2>7 DEF CallPublishes
<1>4. CASE CallReturns
  <2>1. BusTypeOK'
    BY <1>4 DEF CallReturns, busVars, BusTypeOK
  <2>2. section' \in [wf : Workflows \cup {NoEvent}, unsent : BOOLEAN]
    BY <1>4 DEF CallReturns, NoSection
  <2> QED
    BY <1>4, <2>1, <2>2 DEF CallReturns, streamVars
<1> QED
  BY <1>1, <1>2, <1>3, <1>4 DEF EngineStep

\* So does what the dispatcher, the subscribers and Shutdown do.
LEMMA TypeBusStep ==
    ASSUME TypeOK,
           Dispatcher \/ Stop \/ \E s \in Subs : Handler(s) \/ Returns(s)
    PROVE  TypeOK'
<1> USE DEF TypeOK
<1>1. CASE DispatchTakes /\ UNCHANGED <<life, section, streamVars>>
  <2>1. /\ ch # <<>> /\ ch \in Seq(Events) /\ Len(ch) <= BusCapacity
        /\ busHand' = Head(ch) /\ ch' = Tail(ch)
    BY <1>1 DEF DispatchTakes, BusTypeOK
  <2>2. busHand' \in Events /\ ch' \in Seq(Events) /\ Len(ch') <= BusCapacity
    BY <2>1, BusAssumption
  <2>3. BusTypeOK'
    BY <1>1, <2>2 DEF DispatchTakes, BusTypeOK
  <2> QED
    BY <1>1, <2>3 DEF streamVars
<1>2. ASSUME DispatchCopies, missed' = missed \cup {s \in Waiting(busHand) : Lost(s)},
             UNCHANGED <<life, section, target, at, out, left, last>>
      PROVE  TypeOK'
  <2>1. busHand \in Events
    BY <1>2 DEF DispatchCopies, BusTypeOK
  <2>2. ASSUME NEW s \in Subs
        PROVE  queue'[s] \in Seq(Events) /\ Len(queue'[s]) <= SubCapacity
    BY <1>2, <2>1, BusAssumption DEF DispatchCopies, BusTypeOK, Lost
  <2>3. queue' \in [Subs -> Seq(Events)]
    BY <1>2, <2>2 DEF DispatchCopies
  <2>4. BusTypeOK'
    BY <1>2, <2>2, <2>3 DEF DispatchCopies, BusTypeOK
  <2>5. missed' \subseteq Subs
    BY <1>2 DEF Waiting
  <2> QED
    BY <1>2, <2>4, <2>5
<1>3. ASSUME NEW s \in Subs, Handler(s) PROVE TypeOK'
  <2>0. HandlerCalled(s)
    BY <1>3 DEF Handler
  <2>1. Head(queue[s]) \in Events /\ Tail(queue[s]) \in Seq(Events)
        /\ Len(Tail(queue[s])) <= SubCapacity
    BY <2>0, BusAssumption DEF HandlerCalled, BusTypeOK
  <2>2. BusTypeOK'
    BY <2>0, <2>1 DEF HandlerCalled, BusTypeOK
  <2>3. out' = out \/ (/\ Len(out[s]) # OutCapacity
                       /\ out' = [out EXCEPT ![s] = IF at[s] = "loop"
                                                    THEN Append(out[s], Head(queue[s]))
                                                    ELSE out[s]])
    BY <1>3 DEF Handler
  <2>4. out'[s] \in Seq(Events) /\ Len(out'[s]) <= OutCapacity
    <3>1. out[s] \in Seq(Events) /\ Len(out[s]) <= OutCapacity /\ Len(out[s]) \in Nat
      OBVIOUS
    <3>2. Append(out[s], Head(queue[s])) \in Seq(Events)
          /\ Len(Append(out[s], Head(queue[s]))) = Len(out[s]) + 1
      BY <2>1, <3>1
    <3>3. \/ out'[s] = out[s]
          \/ Len(out[s]) # OutCapacity /\ out'[s] = Append(out[s], Head(queue[s]))
      BY <2>3
    <3>4. CASE out'[s] = out[s]
      BY <3>1, <3>4
    <3>5. CASE Len(out[s]) # OutCapacity /\ out'[s] = Append(out[s], Head(queue[s]))
      <4>1. Len(out[s]) + 1 <= OutCapacity
        BY <3>1, <3>5, StreamAssumption
      <4>2. Len(out'[s]) = Len(out[s]) + 1 /\ out'[s] \in Seq(Events)
        BY <3>2, <3>5
      <4> QED
        BY <4>1, <4>2
    <3> QED
      BY <3>3, <3>4, <3>5
  <2>5. out' \in [Subs -> Seq(Events)] /\ \A r \in Subs : r # s => out'[r] = out[r]
    BY <2>3, <2>4
  <2>6. missed' \subseteq Subs
    BY <1>3 DEF Handler
  <2> QED
    BY <1>3, <2>2, <2>4, <2>5, <2>6 DEF Handler
<1>4. ASSUME NEW s \in Subs, Returns(s) PROVE TypeOK'
  <2>1. BusTypeOK'
    BY <1>4, BusAssumption DEF Returns, SubscriberReturns, BusTypeOK
  <2> QED
    BY <1>4, <2>1 DEF Returns, streamVars
<1>5. CASE Stop
  BY <1>5 DEF Stop, Shutdown, ShutdownReturns, BusTypeOK, streamVars
<1> QED
  BY <1>1, <1>2, <1>3, <1>4, <1>5 DEF Dispatcher

\* So do the stream handlers and their clients.
LEMMA TypeStreamStep ==
    ASSUME TypeOK, NEW s \in Subs,
           Stream(s) \/ ClientLeaves(s) \/ \E w \in Workflows : Open(s, w)
    PROVE  TypeOK'
<1> USE DEF TypeOK, Place, Goes
<1>1. ASSUME NEW w \in Workflows, Open(s, w) PROVE TypeOK'
  BY <1>1 DEF Open, BusTypeOK, busVars
<1>2. CASE CheckFinished(s)
  BY <1>2 DEF CheckFinished, BusTypeOK, busVars
<1>3. CASE SendSnapshot(s)
  BY <1>3 DEF SendSnapshot, BusTypeOK, busVars
<1>4. CASE SubscribeStream(s)
  BY <1>4 DEF SubscribeStream, Subscribe, BusTypeOK, busVars
<1>5. CASE Receive(s)
  <2>1. /\ out[s] # <<>> /\ out[s] \in Seq(Events)
        /\ out' = [out EXCEPT ![s] = IF closesStream(s, Head(out[s]))
                                     THEN <<>> ELSE Tail(out[s])]
        /\ last' = [last EXCEPT ![s] = IF Head(out[s])[1] = target[s]
                                       THEN Head(out[s])[2] ELSE last[s]]
        /\ \E p \in Place : at' = [at EXCEPT ![s] = p]
        /\ UNCHANGED <<life, section, target, left, missed>> /\ UNCHANGED busVars
    BY <1>5 DEF Receive
  <2>2. Tail(out[s]) \in Seq(Events) /\ Len(Tail(out[s])) <= OutCapacity
    BY <2>1, StreamAssumption
  <2>3. Head(out[s])[2] \in 0..MaxChanges
    BY <2>1, StreamAssumption, EndIsAChange DEF AllEvents
  <2>4. last' \in [Subs -> 0..MaxChanges] /\ at' \in [Subs -> Place]
    BY <2>1, <2>3
  <2>5. out'[s] \in Seq(Events) /\ Len(out'[s]) <= OutCapacity
    BY <2>1, <2>2, StreamAssumption
  <2>6. out' \in [Subs -> Seq(Events)] /\ \A r \in Subs : r # s => out'[r] = out[r]
    BY <2>1, <2>5
  <2>7. BusTypeOK'
    BY <2>1 DEF BusTypeOK, busVars
  <2> QED
    BY <2>1, <2>4, <2>5, <2>6, <2>7
<1>6. CASE LoopEnds(s)
  BY <1>6, StreamAssumption DEF LoopEnds, BusTypeOK, busVars
<1>7. CASE UnsubscribeStream(s)
  BY <1>7 DEF UnsubscribeStream, Unsubscribe, BusTypeOK
<1>8. CASE ClientLeaves(s)
  BY <1>8 DEF ClientLeaves, BusTypeOK, busVars
<1> QED
  BY <1>1, <1>2, <1>3, <1>4, <1>5, <1>6, <1>7, <1>8 DEF Stream

Pairs == Workflows \X (0..MaxChanges)

\* A change that was made stays made, whatever the engine does next.
LEMMA MadeStays ==
    ASSUME IInv, EngineStep
    PROVE  \A e \in Pairs : Made(e) => Made(e)'
<1> USE EndIsAChange DEF Made, Pairs
<1>0. TypeOK /\ CallInv
  BY DEF IInv
<1>1. ASSUME NEW w \in Workflows, CallBegins(w)
      PROVE  \A e \in Pairs : Made(e) => Made(e)'
  <2>1. \A v \in Workflows : life'[v] = life[v] \/ (v = w /\ life[v] = -1 /\ life'[v] = 0)
    BY <1>0, <1>1 DEF TypeOK, CallBegins
  <2>2. ~section'.unsent
    BY <1>1 DEF CallBegins
  <2>3. \A v \in Workflows : life[v] \in -1..MaxChanges
    BY <1>0 DEF TypeOK
  <2> QED
    BY <2>1, <2>2, <2>3
<1>2. CASE CallWrites
  <2>1. section.wf \in Workflows /\ ~section.unsent
    BY <1>0, <1>2 DEF CallInv, CallWrites
  <2>2. /\ section'.wf = section.wf
        /\ life'[section.wf] \in 0..MaxChanges /\ life[section.wf] < life'[section.wf]
        /\ \A v \in Workflows : v # section.wf => life'[v] = life[v]
    BY <1>0, <1>2, <2>1 DEF TypeOK, CallWrites
  <2>3. \A v \in Workflows : life[v] \in -1..MaxChanges
    BY <1>0 DEF TypeOK
  <2> QED
    BY <2>1, <2>2, <2>3
<1>3. CASE CallPublishes \/ CallReturns
  <2>1. life' = life /\ ~section'.unsent
    BY <1>0, <1>3 DEF CallPublishes, CallReturns, NoSection, TypeOK
  <2> QED
    BY <2>1
<1> QED
  BY <1>1, <1>2, <1>3 DEF EngineStep

\* A call goes from change to change, and publishes each.
LEMMA CallStep ==
    ASSUME IInv,
           EngineStep
    PROVE  CallInv'
<1> USE EndIsAChange DEF CallInv
<1>0. TypeOK /\ CallInv
  BY DEF IInv
<1>1. ASSUME NEW w \in Workflows, CallBegins(w) PROVE CallInv'
  BY <1>0, <1>1 DEF TypeOK, CallBegins
<1>2. CASE CallWrites
  <2>1. section.wf \in Workflows /\ section'.wf = section.wf /\ life[section.wf] >= 0
    BY <1>0, <1>2 DEF TypeOK, CallWrites
  <2>2. life'[section.wf] \in 0..MaxChanges /\ life[section.wf] < life'[section.wf]
    BY <1>0, <1>2, <2>1 DEF TypeOK, CallWrites
  <2>3. life[section.wf] \in -1..MaxChanges
    BY <1>0, <2>1 DEF TypeOK
  <2> QED
    BY <2>1, <2>2, <2>3
<1>3. CASE CallPublishes
  <2>1. section # NoSection /\ life' = life /\ section'.wf = section.wf /\ ~section'.unsent
    BY <1>0, <1>3 DEF CallPublishes, NoSection, TypeOK
  <2> QED
    BY <1>0, <2>1
<1>4. CASE CallReturns
  BY <1>4 DEF CallReturns
<1> QED
  BY <1>1, <1>2, <1>3, <1>4 DEF EngineStep

\* What the engine publishes comes after all it has published.
LEMMA PublishedLast ==
    ASSUME IInv, section.unsent
    PROVE  LET e == <<section.wf, life[section.wf]>>
           IN  /\ e \in Events
               /\ \A f \in Pairs : Made(f) => Before(f, e)
<1>0. TypeOK /\ CallInv /\ section # NoSection
  BY DEF IInv, NoSection
<1>1. section.wf \in Workflows /\ life[section.wf] \in 1..MaxChanges
  BY <1>0 DEF CallInv, TypeOK
<1>2. <<section.wf, life[section.wf]>> \in Events
  BY <1>1, StreamAssumption DEF AllEvents
<1> QED
  BY <1>1, <1>2, EndIsAChange DEF Made, Before, Pairs

\* What is on its way are events, and all of them were made.
LEMMA BusMade ==
    ASSUME IInv
    PROVE  /\ ch \in Seq(Events) /\ InHand \subseteq Events /\ Held(ch) \subseteq Events
           /\ InBus \subseteq Events /\ Events \subseteq Pairs
           /\ \A e \in InBus : Made(e)
<1>1. ch \in Seq(Events) /\ InHand \subseteq Events
  BY DEF IInv, TypeOK, BusTypeOK, InHand
<1>2. Held(ch) \subseteq Events
  BY <1>1 DEF Held
<1>3. Events \subseteq Pairs
  BY StreamAssumption, EndIsAChange DEF AllEvents, Pairs
<1>4. \A e \in InBus : Made(e)
  BY DEF IInv, BusInv
<1> QED
  BY <1>1, <1>2, <1>3, <1>4 DEF InBus

\* So are the events on their way to a stream.
LEMMA ComingMade ==
    ASSUME IInv, NEW s \in Subs
    PROVE  /\ out[s] \in Seq(Events) /\ queue[s] \in Seq(Events)
           /\ Coming(s) \subseteq Events
           /\ \A e \in Coming(s) : Made(e)
<1>1. out[s] \in Seq(Events) /\ queue[s] \in Seq(Events)
  BY DEF IInv, TypeOK, BusTypeOK
<1>2. Held(out[s]) \subseteq Events /\ Held(queue[s]) \subseteq Events
  BY <1>1 DEF Held
<1>3. \A e \in Held(out[s]) \cup Held(queue[s]) : Made(e)
  BY DEF IInv, WayInv
<1> QED
  BY <1>1, <1>2, <1>3, BusMade DEF Coming

\* The engine's steps keep the events in order.
LEMMA EngineKeeps ==
    ASSUME IInv,
           EngineStep
    PROVE  IInv'
<1>1. TypeOK' /\ CallInv'
  BY TypeCallStep, CallStep DEF IInv
<1>2. UNCHANGED <<out, queue, busHand, target, at, last, left, shutdown>>
  BY DEF EngineStep, CallBegins, CallWrites, CallPublishes, CallReturns, Publish,
         busVars, streamVars
<1>3. \A f \in Pairs : Made(f) => Made(f)'
  BY MadeStays
\* The bus holds at most one event more, which comes after all the others.
<1>4. PICK New \in SUBSET Events :
        /\ Held(ch') = Held(ch) \cup New /\ Ordered(ch')
        /\ \A f \in Pairs, n \in New : Made(f) => Before(f, n)
        /\ \A n \in New : Made(n)'
        /\ \A s \in Subs, n \in New :
              target[s] = n[1] /\ target[s] # NoEvent => last[s] < n[2]
  <2>1. CASE ch' = ch
    <3>1. Held(ch') = Held(ch) \cup {} /\ Ordered(ch')
      BY <2>1 DEF IInv, BusInv
    <3> WITNESS {} \in SUBSET Events
    <3> QED
      BY <3>1
  <2>2. CASE ch' # ch
    <3>1. CallPublishes
      BY <2>2 DEF EngineStep, CallBegins, CallWrites, CallReturns, busVars
    <3>2. section.unsent
      BY <3>1 DEF CallPublishes
    <3>3. PICK e \in Events : e = <<section.wf, life[section.wf]>>
      BY <3>2, PublishedLast
    <3>4. /\ ch' = Append(ch, e) /\ life' = life /\ ~section'.unsent
      BY <2>2, <3>1, <3>3 DEF CallPublishes, Publish, NoSection, IInv, TypeOK
    <3>5. \A f \in Pairs : Made(f) => Before(f, e)
      BY <3>2, <3>3, PublishedLast
    <3>6. Ahead(Held(ch), {e})
      BY <3>5, BusMade DEF InBus, Ahead
    <3>7. Held(ch') = Held(ch) \cup {e} /\ Ordered(ch')
      <4>1. Ordered(ch)
        BY DEF IInv, BusInv
      <4> QED
        BY <3>4, <3>6, <4>1, BusMade, HeldAppend
    <3>8. Made(e)'
      <4>1. e[2] = life[e[1]] /\ life[e[1]] \in Int
        BY <3>3, StreamAssumption DEF AllEvents
      <4> QED
        BY <3>4, <4>1 DEF Made
    <3>9. ASSUME NEW s \in Subs, target[s] = e[1], target[s] # NoEvent PROVE last[s] < e[2]
      <4>1. <<target[s], last[s]>> \in Pairs /\ Made(<<target[s], last[s]>>)
        BY <3>9 DEF IInv, StreamInv, TypeOK, Pairs
      <4> QED
        BY <3>5, <3>9, <4>1 DEF Before
    <3> WITNESS {e} \in SUBSET Events
    <3> QED
      BY <3>5, <3>7, <3>8, <3>9
  <2> QED
    BY <2>1, <2>2
<1>5. InHand' = InHand /\ InBus' = InBus \cup New
  BY <1>2, <1>4 DEF InHand, InBus
<1>6. BusInv'
  <2>1. \A f \in InBus' : Made(f)'
    BY <1>3, <1>4, <1>5, BusMade
  <2>2. Ahead(InHand, Held(ch'))
    BY <1>4, BusMade DEF IInv, BusInv, Ahead, InBus
  <2> QED
    BY <1>4, <1>5, <2>1, <2>2 DEF BusInv
<1>7. ASSUME NEW s \in Subs PROVE WayInv(s)'
  <2>1. Held(out[s]) \subseteq Pairs /\ Held(queue[s]) \subseteq Pairs
        /\ \A f \in Held(out[s]) \cup Held(queue[s]) : Made(f)
    BY ComingMade, BusMade DEF Coming
  <2>2. InOrder(out[s], queue[s], InBus \cup New)
    BY <1>4, <2>1 DEF IInv, WayInv, InOrder, Ahead
  <2>3. \A f \in Coming(s) \cup New : f[1] = target[s] => last[s] < f[2]
    <3>1. \A n \in New : n[1] \in Workflows
      BY <1>4, StreamAssumption DEF AllEvents
    <3> QED
      BY <1>4, <3>1, StreamAssumption DEF IInv, WayInv
  <2>4. \A f \in Held(out[s]) \cup Held(queue[s]) : Made(f)'
    BY <1>3, <2>1
  <2> QED
    BY <1>2, <1>5, <2>2, <2>3, <2>4 DEF WayInv, Coming
<1>8. ASSUME NEW s \in Subs PROVE StreamInv(s)'
  <2>1. ASSUME target[s] # NoEvent PROVE Made(<<target[s], last[s]>>)'
    <3>1. <<target[s], last[s]>> \in Pairs /\ Made(<<target[s], last[s]>>)
      BY <2>1 DEF IInv, StreamInv, TypeOK, Pairs
    <3>2. PICK f \in Pairs : f = <<target[s], last[s]>>
      BY <3>1
    <3>3. Made(f)'
      BY <1>3, <3>1, <3>2
    <3> QED
      BY <1>2, <3>2, <3>3 DEF Made
  <2> QED
    BY <1>2, <2>1 DEF IInv, StreamInv
<1> QED
  BY <1>1, <1>6, <1>7, <1>8 DEF IInv

\* Where the engine stands still, a stream's way keeps the invariant if the
\* events are still in order and none came from nowhere.
LEMMA WayFrame ==
    ASSUME IInv, NEW s \in Subs, UNCHANGED <<life, section>>,
           target'[s] = target[s], last'[s] = last[s],
           InOrder(out[s], queue[s], InBus)', Coming(s)' \subseteq Coming(s)
    PROVE  WayInv(s)'
<1>1. \A e \in Coming(s) : Made(e)'
  BY ComingMade DEF Made
<1>2. \A e \in Coming(s) : e[1] = target[s] => last[s] < e[2]
  BY DEF IInv, WayInv
<1> QED
  BY <1>1, <1>2 DEF WayInv, Coming

\* The dispatcher, the subscribers and Shutdown keep the events in order: what
\* leaves one channel goes to the end of the next, or is lost.
LEMMA BusKeeps ==
    ASSUME IInv,
           Dispatcher \/ Stop \/ \E s \in Subs : Handler(s) \/ Returns(s)
    PROVE  IInv'
<1>1. TypeOK'
  BY TypeBusStep DEF IInv
<1>2. UNCHANGED <<life, section, target, at, left, last>>
  BY DEF Dispatcher, Stop, Handler, Returns, streamVars
<1>4. CallInv'
  BY <1>2 DEF IInv, CallInv
<1>5. \A s \in Subs : StreamInv(s)'
  BY <1>2 DEF IInv, StreamInv, Made
<1> SUFFICES BusInv' /\ \A s \in Subs : WayInv(s)'
  BY <1>1, <1>4, <1>5 DEF IInv
<1>7. \A s \in Subs : /\ out[s] \in Seq(Events) /\ queue[s] \in Seq(Events)
                      /\ InOrder(out[s], queue[s], InBus)
  BY ComingMade DEF IInv, WayInv
<1>8. /\ ch \in Seq(Events) /\ Ordered(ch) /\ Ahead(InHand, Held(ch))
      /\ \A e \in InBus : Made(e)'
  BY <1>2, BusMade DEF IInv, BusInv, Made
<1>9. CASE DispatchTakes
  <2>1. UNCHANGED <<out, queue>> /\ ch # <<>> /\ busHand' = Head(ch) /\ ch' = Tail(ch)
        /\ busHand = NoEvent
    BY <1>9 DEF DispatchTakes, Dispatcher, Stop, Shutdown, ShutdownReturns, Handler,
                HandlerCalled, Returns, SubscriberReturns, DispatchCopies, streamVars
  <2>2. /\ Head(ch) \in Held(ch) /\ Held(ch') \subseteq Held(ch)
        /\ Ordered(ch') /\ Ahead({Head(ch)}, Held(ch'))
    BY <1>8, <2>1, HeldTail
  <2>3. InHand' \subseteq {Head(ch)} /\ InBus' \subseteq InBus
    BY <2>1, <2>2 DEF InHand, InBus
  <2>4. BusInv'
    BY <1>8, <2>2, <2>3 DEF BusInv, Ahead
  <2>5. ASSUME NEW s \in Subs PROVE WayInv(s)'
    <3>1. InOrder(out[s], queue[s], InBus')
      BY <1>7, <2>3, WayLoses
    <3>2. InOrder(out[s], queue[s], InBus)' /\ Coming(s)' \subseteq Coming(s)
      BY <2>1, <2>3, <3>1 DEF Coming
    <3> QED
      BY <1>2, <3>2, WayFrame
  <2> QED
    BY <2>4, <2>5
<1>10. CASE DispatchCopies
  <2>1. /\ UNCHANGED <<out, ch>> /\ busHand # NoEvent /\ busHand' = NoEvent
        /\ queue' = [s \in Subs |-> IF Lost(s) THEN queue[s]
                                               ELSE Append(queue[s], busHand)]
    BY <1>10 DEF DispatchTakes, Dispatcher, Stop, Shutdown, ShutdownReturns, Handler,
                 HandlerCalled, Returns, SubscriberReturns, DispatchCopies, streamVars
  <2>2. InHand = {busHand} /\ busHand \in Events /\ InHand' = {}
    BY <2>1, BusMade DEF InHand
  <2>3. InBus = {busHand} \cup Held(ch) /\ InBus' = Held(ch) /\ Held(ch') = Held(ch)
    BY <2>1, <2>2 DEF InBus
  <2>4. BusInv'
    BY <1>8, <2>1, <2>2, <2>3 DEF BusInv, Ahead
  <2>5. ASSUME NEW s \in Subs PROVE WayInv(s)'
    <3>1. CASE Lost(s)
      <4>1. queue'[s] = queue[s]
        BY <2>1, <3>1
      <4>2. InOrder(out[s], queue[s], InBus')
        BY <1>7, <2>3, WayLoses
      <4>3. InOrder(out[s], queue[s], InBus)' /\ Coming(s)' \subseteq Coming(s)
        BY <2>1, <2>3, <4>1, <4>2 DEF Coming
      <4> QED
        BY <1>2, <4>3, WayFrame
    <3>2. CASE ~Lost(s)
      <4>1. queue'[s] = Append(queue[s], busHand)
        BY <2>1, <3>2
      <4>2. InOrder(out[s], Append(queue[s], busHand), InBus')
        BY <1>7, <1>8, <2>2, <2>3, WayGains
      <4>3. Held(queue'[s]) = Held(queue[s]) \cup {busHand}
        BY <1>7, <2>2, <4>1, HeldAppend
      <4>4. InOrder(out[s], queue[s], InBus)' /\ Coming(s)' \subseteq Coming(s)
        BY <2>1, <2>3, <4>1, <4>2, <4>3 DEF Coming
      <4> QED
        BY <1>2, <4>4, WayFrame
    <3> QED
      BY <3>1, <3>2
  <2> QED
    BY <2>4, <2>5
<1>11. CASE Stop \/ \E s \in Subs : Handler(s) \/ Returns(s)
  <2>1. UNCHANGED <<ch, busHand>>
    BY <1>11 DEF Stop, Shutdown, ShutdownReturns, Handler, HandlerCalled, Returns,
                 SubscriberReturns
  <2>2. InHand' = InHand /\ InBus' = InBus /\ Held(ch') = Held(ch)
    BY <2>1 DEF InHand, InBus
  <2>3. BusInv'
    BY <1>8, <2>1, <2>2 DEF BusInv
  <2>4. ASSUME NEW s \in Subs,
               \/ out'[s] = out[s] /\ queue'[s] \in {queue[s], <<>>}
               \/ /\ queue[s] # <<>> /\ queue'[s] = Tail(queue[s])
                  /\ out'[s] \in {out[s], Append(out[s], Head(queue[s]))}
        PROVE  WayInv(s)'
    <3>1. InOrder(out'[s], queue'[s], InBus)
      BY <1>7, <2>4, WayLoses, WayPasses
    <3>2. queue[s] \in Seq(Events)
      BY <1>7
    <3>3. queue[s] # <<>> => Head(queue[s]) \in Events
      BY <3>2
    <3>4. /\ Held(<<>>) = {}
          /\ queue[s] # <<>> => /\ Held(Tail(queue[s])) \subseteq Held(queue[s])
                                /\ Head(queue[s]) \in Held(queue[s])
      BY <3>2, HeldEmpty, HeldTail
    <3>5. queue[s] # <<>> =>
             Held(Append(out[s], Head(queue[s]))) = Held(out[s]) \cup {Head(queue[s])}
      BY <1>7, <3>3, HeldAppend
    <3>6. Held(out'[s]) \cup Held(queue'[s]) \subseteq Held(out[s]) \cup Held(queue[s])
      BY <2>4, <3>4, <3>5
    <3>7. InOrder(out[s], queue[s], InBus)' /\ Coming(s)' \subseteq Coming(s)
      BY <2>2, <3>1, <3>6 DEF Coming
    <3> QED
      BY <1>2, <3>7, WayFrame
  <2>5. CASE Stop
    BY <2>3, <2>4, <2>5 DEF Stop, Shutdown, ShutdownReturns, streamVars
  <2>6. ASSUME NEW s \in Subs, Handler(s) PROVE \A r \in Subs : WayInv(r)'
    <3>1. /\ queue[s] # <<>> /\ queue' = [queue EXCEPT ![s] = Tail(queue[s])]
          /\ \/ out' = out
             \/ out' = [out EXCEPT ![s] = IF at[s] = "loop"
                                          THEN Append(out[s], Head(queue[s])) ELSE out[s]]
      BY <2>6 DEF Handler, HandlerCalled
    <3>2. out \in [Subs -> Seq(Events)] /\ queue \in [Subs -> Seq(Events)]
      BY DEF IInv, TypeOK, BusTypeOK
    <3>3. ASSUME NEW r \in Subs
          PROVE  \/ out'[r] = out[r] /\ queue'[r] \in {queue[r], <<>>}
                 \/ /\ queue[r] # <<>> /\ queue'[r] = Tail(queue[r])
                    /\ out'[r] \in {out[r], Append(out[r], Head(queue[r]))}
      BY <3>1, <3>2
    <3> QED
      BY <2>4, <3>3
  <2>7. ASSUME NEW s \in Subs, Returns(s) PROVE \A r \in Subs : WayInv(r)'
    <3>1. queue' = [queue EXCEPT ![s] = <<>>] /\ out' = out
      BY <2>7 DEF Returns, SubscriberReturns, streamVars
    <3>2. queue \in [Subs -> Seq(Events)]
      BY DEF IInv, TypeOK, BusTypeOK
    <3>3. \A r \in Subs : out'[r] = out[r] /\ queue'[r] \in {queue[r], <<>>}
      BY <3>1, <3>2
    <3> QED
      BY <2>4, <3>3
  <2> QED
    BY <1>11, <2>3, <2>5, <2>6, <2>7
<1> QED
  BY <1>9, <1>10, <1>11 DEF Dispatcher

\* So do the stream handlers: a stream that is opened has received nothing,
\* and what a stream receives is older than all that is still to come.
LEMMA StreamKeeps ==
    ASSUME IInv, NEW s \in Subs,
           Stream(s) \/ ClientLeaves(s) \/ \E w \in Workflows : Open(s, w)
    PROVE  IInv'
<1>1. TypeOK'
  BY TypeStreamStep DEF IInv
<1>2. UNCHANGED <<life, section, ch, busHand, queue, shutdown>>
  BY DEF Stream, CheckFinished, SendSnapshot, SubscribeStream, Receive, LoopEnds,
         UnsubscribeStream, ClientLeaves, Open, Goes, Subscribe, Unsubscribe, busVars
<1>3. CallInv'
  BY <1>2 DEF IInv, CallInv
<1>4. InHand' = InHand /\ InBus' = InBus /\ \A e : Made(e)' <=> Made(e)
  BY <1>2 DEF InHand, InBus, Made
<1>5. BusInv'
  BY <1>2, <1>4 DEF IInv, BusInv
<1>6. \A r \in Subs : r # s => UNCHANGED <<target[r], at[r], out[r], last[r]>>
  BY DEF IInv, TypeOK, Stream, CheckFinished, SendSnapshot, SubscribeStream, Receive,
         LoopEnds, UnsubscribeStream, ClientLeaves, Open, Goes
<1>7. \A r \in Subs : /\ out[r] \in Seq(Events) /\ queue[r] \in Seq(Events)
                      /\ InOrder(out[r], queue[r], InBus)
  BY ComingMade DEF IInv, WayInv
<1>8. ASSUME NEW r \in Subs, UNCHANGED <<target[r], last[r]>>, out'[r] \in {out[r], <<>>}
      PROVE  WayInv(r)'
  <2>1. InOrder(out'[r], queue[r], InBus)
    BY <1>7, <1>8, WayLoses
  <2>2. Held(out'[r]) \subseteq Held(out[r])
    BY <1>8, HeldEmpty
  <2>3. InOrder(out[r], queue[r], InBus)' /\ Coming(r)' \subseteq Coming(r)
    BY <1>2, <1>4, <2>1, <2>2 DEF Coming
  <2> QED
    BY <1>2, <1>8, <2>3, WayFrame
<1>9. ASSUME NEW r \in Subs, UNCHANGED <<target[r], last[r], at[r]>> PROVE StreamInv(r)'
  BY <1>2, <1>9 DEF IInv, StreamInv, Made
<1>10. \A r \in Subs : r # s => WayInv(r)' /\ StreamInv(r)'
  BY <1>6, <1>8, <1>9
<1>11. ASSUME WayInv(s)', StreamInv(s)' PROVE IInv'
  BY <1>1, <1>3, <1>5, <1>10, <1>11 DEF IInv
<1>12. StreamInv(s) /\ TypeOK
  BY DEF IInv
<1>14. ASSUME NEW w \in Workflows, Open(s, w) PROVE IInv'
  <2>1. /\ at[s] = "none" /\ target[s] = NoEvent /\ last[s] = 0
        /\ ~section.unsent /\ UNCHANGED <<out, last>>
        /\ target'[s] = IF life[w] = -1 THEN NoEvent ELSE w
        /\ at'[s] = IF life[w] = -1 THEN "closed" ELSE "check"
    BY <1>12, <1>14 DEF Open, Goes, StreamInv, TypeOK, NoSection
  <2>2. WayInv(s)'
    <3>1. \A e \in Coming(s) : e[2] > 0
      BY ComingMade, StreamAssumption, EndIsAChange DEF AllEvents
    <3>2. Coming(s)' = Coming(s) /\ InOrder(out[s], queue[s], InBus)'
      BY <1>2, <1>4, <1>7, <2>1 DEF Coming
    <3>3. \A e \in Held(out[s]) \cup Held(queue[s]) : Made(e)'
      BY <1>4, ComingMade DEF Coming
    <3> QED
      BY <1>2, <2>1, <3>1, <3>2, <3>3 DEF WayInv
  <2>3. StreamInv(s)'
    <3>0. life[w] \in -1..MaxChanges
      BY <1>12 DEF TypeOK
    <3>1. life[w] # -1 => 0 <= life[w]
      BY <3>0, EndIsAChange
    <3> QED
      BY <1>2, <1>14, <2>1, <3>1, StreamAssumption DEF StreamInv, Made
  <2> QED
    BY <1>11, <2>2, <2>3
<1>15. CASE CheckFinished(s)
  <2>1. /\ at[s] = "check" /\ UNCHANGED <<target, out, last>>
        /\ at'[s] = IF Ended(target[s]) THEN "closed" ELSE "snapshot"
    BY <1>12, <1>15 DEF CheckFinished, Goes, TypeOK
  <2>3. WayInv(s)'
    BY <1>8, <2>1
  <2>4. StreamInv(s)'
    BY <1>2, <1>12, <2>1 DEF StreamInv, Made
  <2> QED
    BY <1>11, <2>3, <2>4
<1>16. CASE SendSnapshot(s) \/ SubscribeStream(s) \/ LoopEnds(s) \/ UnsubscribeStream(s)
  <2>1. /\ at[s] \notin {"none", "closed"} /\ UNCHANGED <<target, last>>
        /\ out'[s] \in {out[s], <<>>}
        /\ at'[s] # "none"
    BY <1>12, <1>16 DEF SendSnapshot, SubscribeStream, LoopEnds, UnsubscribeStream, Goes, TypeOK
  <2>2. WayInv(s)'
    BY <1>8, <2>1
  <2>3. StreamInv(s)'
    BY <1>2, <1>12, <2>1 DEF StreamInv, Made
  <2> QED
    BY <1>11, <2>2, <2>3
<1>17. CASE ClientLeaves(s)
  <2>1. UNCHANGED <<target, at, out, last>>
    BY <1>17 DEF ClientLeaves
  <2> QED
    BY <1>8, <1>9, <1>11, <2>1
<1>18. CASE Receive(s)
  <2>1. /\ at[s] = "loop" /\ out[s] # <<>> /\ UNCHANGED target
        /\ out'[s] = IF closesStream(s, Head(out[s])) THEN <<>> ELSE Tail(out[s])
        /\ last'[s] = IF Head(out[s])[1] = target[s] THEN Head(out[s])[2] ELSE last[s]
        /\ at'[s] = IF closesStream(s, Head(out[s])) THEN "defer" ELSE "loop"
    BY <1>12, <1>18 DEF Receive, Goes, TypeOK
  <2>2. out[s] \in Seq(Events)
    BY <1>7
  <2>3. PICK e \in Events : e = Head(out[s])
    BY <2>1, <2>2
  <2>4. /\ e \in Held(out[s]) /\ Held(Tail(out[s])) \subseteq Held(out[s])
        /\ Ahead({e}, Held(Tail(out[s])))
    BY <1>7, <2>1, <2>3, HeldTail DEF InOrder
  <2>5. e \in Coming(s) /\ Made(e) /\ e[1] \in Workflows /\ e[2] \in 1..MaxChanges
    BY <2>4, ComingMade, StreamAssumption DEF Coming, AllEvents
  <2>6. WayInv(s)'
    <3>1. InOrder(out'[s], queue[s], InBus)
      BY <1>7, <2>1, WayLoses
    <3>2. Held(out'[s]) \subseteq Held(Tail(out[s]))
      BY <2>1, HeldEmpty
    <3>3. Ahead({e}, Held(out'[s]) \cup Held(queue[s]) \cup InBus)
      BY <1>7, <2>4, <3>2 DEF InOrder, Ahead
    <3>4. /\ Coming(s)' = Held(out'[s]) \cup Held(queue[s]) \cup InBus
          /\ Coming(s)' \subseteq Coming(s)
      BY <1>2, <1>4, <2>4, <3>2 DEF Coming
    <3>5. \A f \in Coming(s) : f[1] = target[s] => last[s] < f[2]
      BY DEF IInv, WayInv
    <3>6. \A f \in Coming(s)' : f[1] = target[s] => last'[s] < f[2]
      BY <2>1, <2>3, <3>3, <3>4, <3>5 DEF Ahead, Before
    <3>7. \A f \in Coming(s)' : Made(f)'
      BY <1>4, <3>4, ComingMade
    <3> QED
      BY <1>2, <1>4, <2>1, <3>1, <3>4, <3>6, <3>7 DEF WayInv, Coming
  <2>7. StreamInv(s)'
    <3>1. target[s] # NoEvent /\ Made(<<target[s], last[s]>>)
      BY <1>12, <2>1 DEF StreamInv
    <3>2. Made(<<target[s], last'[s]>>)
      BY <2>1, <2>3, <2>5, <3>1 DEF Made
    <3> QED
      BY <1>2, <2>1, <3>1, <3>2 DEF StreamInv, Made
  <2> QED
    BY <1>11, <2>6, <2>7
<1> QED
  BY <1>14, <1>15, <1>16, <1>17, <1>18 DEF Stream

\* Every step keeps the invariant.
LEMMA InvStep == IInv /\ [Next]_vars => IInv'
<1> SUFFICES ASSUME IInv, [Next]_vars PROVE IInv'
  OBVIOUS
<1>1. CASE UNCHANGED vars
  BY <1>1 DEF vars, busVars, streamVars, IInv, TypeOK, BusTypeOK, CallInv, BusInv, WayInv,
              StreamInv, Coming, InBus, InHand, Made
<1> QED
  BY <1>1, EngineKeeps, BusKeeps, StreamKeeps DEF Next, EngineStep

\* It holds at the start.
LEMMA InvInit == Init => IInv
<1> SUFFICES ASSUME Init PROVE IInv
  OBVIOUS
<1>1. TypeOK
  BY BusAssumption, StreamAssumption, EndIsAChange
  DEF Init, BusInit, TypeOK, BusTypeOK, NoSection, Place
<1>2. InBus = {} /\ InHand = {} /\ ch = <<>>
  BY HeldEmpty DEF Init, BusInit, InBus, InHand
<1>3. \A s \in Subs : out[s] = <<>> /\ queue[s] = <<>>
  BY DEF Init, BusInit
<1>4. BusInv /\ \A s \in Subs : WayInv(s)
  BY <1>2, <1>3, HeldEmpty DEF BusInv, WayInv, InOrder, Ahead, Coming
<1>5. CallInv /\ \A s \in Subs : StreamInv(s)
  BY DEF Init, CallInv, StreamInv
<1> QED
  BY <1>1, <1>4, <1>5 DEF IInv

\* The bus and the streams stay within their channels and places, and events
\* are in order all the way: through the bus, the subscriber's queue and the
\* stream's channel.
THEOREM StreamInvCorrect == Spec => []IInv
BY InvInit, InvStep, PTL DEF Spec

\* A stream receives the events of its workflow in the order of the changes and
\* none twice, whatever Publish, the dispatcher and the handler lose.
THEOREM OrderedDeliveryCorrect == Spec => OrderedDelivery
<1>1. ASSUME IInv, NEW s \in Subs, Receive(s), Head(out[s])[1] = target[s]
      PROVE  last'[s] > last[s]
  <2>1. out[s] # <<>> /\ last'[s] = Head(out[s])[2]
    BY <1>1 DEF Receive, IInv, TypeOK
  <2>2. Head(out[s]) \in Coming(s)
    BY <1>1, <2>1, ComingMade, HeldTail DEF Coming
  <2>3. last[s] < Head(out[s])[2]
    BY <1>1, <2>2 DEF IInv, WayInv
  <2>4. Head(out[s])[2] \in Int /\ last[s] \in Int
    BY <1>1, <2>2, ComingMade, StreamAssumption DEF AllEvents, IInv, TypeOK
  <2> QED
    BY <2>1, <2>3, <2>4
<1>2. IInv /\ [Next]_vars =>
        [\A s \in Subs : Receive(s) /\ Head(out[s])[1] = target[s] => last'[s] > last[s]]_vars
  BY <1>1
<1> QED
  BY <1>2, StreamInvCorrect, PTL DEF Spec, OrderedDelivery

-----------------------------------------------------------------------------
\* Numbers.

\* A set of natural numbers that is not empty has a least member.
LEMMA LeastNat ==
    ASSUME NEW R, R \subseteq Nat, R # {}
    PROVE  \E m \in R : \A x \in R : m <= x
<1>1. PICK m \in R : \A x \in R : <<x, m>> \notin OpToRel(<, Nat)
  BY NatLessThanWellFounded, WFMin
<1>2. \A x \in R : ~(x < m)
  BY <1>1 DEF OpToRel
<1> QED
  BY <1>2

\* A set of positions of a sequence that is not empty has a greatest member.
LEMMA GreatestPosition ==
    ASSUME NEW n \in Nat, NEW R, R \subseteq 1..n, R # {}
    PROVE  \E m \in R : \A x \in R : m >= x
<1> DEFINE U == {k \in Nat : \A x \in R : x <= k}
<1>1. U \subseteq Nat /\ n \in U
  OBVIOUS
<1>2. PICK m \in U : \A k \in U : m <= k
  BY <1>1, LeastNat
<1>3. PICK x \in R : TRUE
  OBVIOUS
<1>4. m \in R
  <2>1. SUFFICES ASSUME m \notin R PROVE FALSE
    OBVIOUS
  <2>2. \A y \in R : y \in Nat /\ y <= m /\ y # m
    BY <1>2, <2>1
  <2>3. m - 1 \in Nat /\ \A y \in R : y <= m - 1
    BY <1>2, <1>3, <2>2
  <2> QED
    BY <1>2, <2>3
<1> QED
  BY <1>2, <1>4

\* Products and factors.
LEMMA Cancel ==
    ASSUME NEW x \in Nat, NEW y \in Nat, NEW k \in Nat, k > 0
    PROVE  /\ x * k \in Nat /\ y * k \in Nat
           /\ x < y => x * k < y * k
           /\ x * k <= y * k => x <= y
           /\ x * k = y * k => x = y
OBVIOUS

\* Loads as pairs of a count and a capacity, compared as selectWorker does:
\* by the quotient, then by the capacity.
Lower(r, k, s, l) == r * l < s * k \/ (r * l = s * k /\ k > l)

\* The order is total enough for a sort: what is below b is below everything
\* that is not below b.  Capacities of 0 included, unless the count is 0 too.
LEMMA LowerThanAllAbove ==
    ASSUME NEW ra \in Nat, NEW ka \in Nat, NEW rb \in Nat, NEW kb \in Nat,
           NEW rc \in Nat, NEW kc \in Nat,
           ra # 0 \/ ka # 0, rb # 0 \/ kb # 0, rc # 0 \/ kc # 0,
           Lower(ra, ka, rb, kb), ~Lower(rc, kc, rb, kb)
    PROVE  Lower(ra, ka, rc, kc)
<1>0. /\ ra * kb \in Nat /\ rb * ka \in Nat /\ rc * kb \in Nat /\ rb * kc \in Nat
      /\ ra * kc \in Nat /\ rc * ka \in Nat
  OBVIOUS
<1>1. /\ ra * kb <= rb * ka /\ (ra * kb = rb * ka => ka > kb)
      /\ rb * kc <= rc * kb /\ (rb * kc = rc * kb => kc <= kb)
  BY <1>0 DEF Lower
<1>2. CASE kb = 0
  <2>1. rc * kb = 0 /\ ra * kb = 0 /\ rb > 0
    BY <1>2
  <2>2. kc = 0
    <3>1. rb * kc = 0
      BY <1>0, <1>1, <2>1
    <3> QED
      BY <2>1, <3>1
  <2>3. ka > 0
    <3>1. ka = 0 => rb * ka = 0
      OBVIOUS
    <3> QED
      BY <1>1, <1>2, <2>1, <3>1
  <2>4. ra * kc = 0 /\ rc * ka > 0
    BY <2>2, <2>3
  <2> QED
    BY <2>4 DEF Lower
<1>3. CASE kb > 0 /\ kc = 0
  <2>1. rc > 0 /\ ra * kc = 0
    BY <1>3
  <2>2. ka > 0
    <3>1. SUFFICES ASSUME ka = 0 PROVE FALSE
      OBVIOUS
    <3>2. rb * ka = 0 /\ ra * kb > 0
      BY <1>3, <3>1
    <3> QED
      BY <1>1, <3>2
  <2>3. rc * ka > 0
    BY <2>1, <2>2
  <2> QED
    BY <2>1, <2>3 DEF Lower
<1>4. CASE kb > 0 /\ kc > 0
  <2>1. /\ (ra * kb) * kc = (ra * kc) * kb
        /\ (rb * ka) * kc = (rb * kc) * ka
        /\ (rc * kb) * ka = (rc * ka) * kb
    OBVIOUS
  <2>2. (ra * kb) * kc <= (rb * ka) * kc
    BY <1>0, <1>1, <1>4
  <2>3. (rb * kc) * ka <= (rc * kb) * ka
    BY <1>0, <1>1
  <2>4. (ra * kc) * kb <= (rc * ka) * kb
    BY <1>0, <2>1, <2>2, <2>3
  <2>5. ra * kc <= rc * ka
    BY <1>0, <1>4, <2>4, Cancel
  <2>6. ASSUME ra * kc = rc * ka PROVE ka > kc
    <3>1. (ra * kb) * kc = (rb * ka) * kc /\ (rb * kc) * ka = (rc * kb) * ka
      BY <1>0, <2>1, <2>2, <2>3, <2>6
    <3>2. ra * kb = rb * ka
      BY <1>0, <1>4, <3>1, Cancel
    <3>3. ka > kb /\ ka > 0
      BY <1>1, <1>4, <3>2
    <3>4. rb * kc = rc * kb
      BY <1>0, <3>1, <3>3, Cancel
    <3> QED
      BY <1>1, <3>3, <3>4
  <2> QED
    BY <1>0, <2>5, <2>6 DEF Lower
<1> QED
  BY <1>2, <1>3, <1>4

-----------------------------------------------------------------------------
\* The scheduler's choice.

Copies == [id : Workers, running : Nat]

\* Where no load is 0/0, less compares the loads, then the capacities.
LEMMA LessIsLower ==
    ASSUME NEW c \in Copies, NEW d \in Copies,
           ~IsNaN(c), ~IsNaN(d)
    PROVE  /\ Cap(c) \in Nat /\ Cap(d) \in Nat
           /\ c.running # 0 \/ Cap(c) # 0
           /\ less(c, d) <=> Lower(c.running, Cap(c), d.running, Cap(d))
<1>1. /\ Cap(c) \in Nat /\ Cap(d) \in Nat
      /\ c.running \in Nat /\ d.running \in Nat
  BY SchedulerAssumption DEF Cap, Copies
<1>2. c.running # 0 \/ Cap(c) # 0
  BY DEF IsNaN
<1> DEFINE x == c.running * Cap(d)
           y == d.running * Cap(c)
<1>3. x \in Nat /\ y \in Nat
  BY <1>1
<1>4. (LoadDiffers(c, d) <=> x # y) /\ (LoadLess(c, d) <=> x < y)
  BY DEF LoadDiffers, LoadLess
<1>5. less(c, d) <=> x < y \/ (x = y /\ Cap(c) > Cap(d))
  BY <1>3, <1>4 DEF less
<1> QED
  BY <1>1, <1>2, <1>5 DEF Lower

\* The insertion has a first element: among positions of the snapshot the
\* least is a record, and FirstSorted takes the greatest record.
LEMMA LastRecord ==
    ASSUME snapshot \in Seq(Copies),
           NEW C, C \subseteq DOMAIN snapshot, C # {}
    PROVE  LET m == Max(Records(C))
           IN  m \in Records(C) /\ \A i \in Records(C) : i <= m
<1>1. DOMAIN snapshot = 1..Len(snapshot) /\ Len(snapshot) \in Nat
  OBVIOUS
<1>2. PICK least \in C : \A i \in C : least <= i
  BY <1>1, LeastNat
<1>3. least \in Records(C) /\ Records(C) \subseteq 1..Len(snapshot)
  BY <1>1, <1>2 DEF Records
<1>4. \E m \in Records(C) : \A i \in Records(C) : m >= i
  BY <1>1, <1>3, GreatestPosition
<1> DEFINE R == Records(C)
<1> HIDE DEF R
<1>5. Max(R) \in R /\ \A i \in R : Max(R) >= i
  BY <1>4 DEF R, Max
<1>6. \A i \in R : i \in Nat
  BY <1>3 DEF R
<1> QED
  BY <1>5, <1>6 DEF R

\* No candidate is less than the one the insertion puts first, whatever the
\* order in which they stand in the snapshot.
LEMMA FirstIsLeast ==
    ASSUME snapshot \in Seq(Copies),
           NEW C, C \subseteq DOMAIN snapshot, C # {},
           \A i \in C : ~IsNaN(snapshot[i]),
           NEW i \in C
    PROVE  ~less(snapshot[i], FirstSorted(C))
<1> DEFINE m == Max(Records(C))
           Below(a, b) == less(snapshot[a], snapshot[b])
<1>1. /\ m \in C /\ \A a \in C : a < m => Below(m, a)
      /\ \A a \in Records(C) : a <= m
  BY LastRecord DEF Records
<1>2. \A a \in C : a \in Nat /\ snapshot[a] \in Copies
  OBVIOUS
<1>3. \A a, b \in C :
          /\ Cap(snapshot[a]) \in Nat /\ snapshot[a].running \in Nat
          /\ snapshot[a].running # 0 \/ Cap(snapshot[a]) # 0
          /\ Below(a, b) <=> Lower(snapshot[a].running, Cap(snapshot[a]),
                                   snapshot[b].running, Cap(snapshot[b]))
  BY <1>2, LessIsLower DEF Copies
<1> HIDE DEF m, Below
<1>4. \A a, b, c \in C : Below(a, b) /\ ~Below(c, b) => Below(a, c)
  BY <1>3, LowerThanAllAbove
<1>5. \A a, b \in C : Below(a, b) => ~Below(b, a)
  <2> SUFFICES ASSUME NEW a \in C, NEW b \in C, Below(a, b), Below(b, a) PROVE FALSE
    OBVIOUS
  <2>0. /\ snapshot[a].running \in Nat /\ snapshot[b].running \in Nat
        /\ Cap(snapshot[a]) \in Nat /\ Cap(snapshot[b]) \in Nat
    BY <1>3
  <2>1. /\ snapshot[a].running * Cap(snapshot[b]) \in Nat
        /\ snapshot[b].running * Cap(snapshot[a]) \in Nat
    BY <2>0
  <2>2. /\ Lower(snapshot[a].running, Cap(snapshot[a]),
                 snapshot[b].running, Cap(snapshot[b]))
        /\ Lower(snapshot[b].running, Cap(snapshot[b]),
                 snapshot[a].running, Cap(snapshot[a]))
        /\ Cap(snapshot[a]) \in Nat /\ Cap(snapshot[b]) \in Nat
    BY <1>3
  <2> QED
    BY <2>1, <2>2 DEF Lower
<1>6. ~\E a \in C : Below(a, m)
  <2>1. SUFFICES ASSUME \E a \in C : Below(a, m) PROVE FALSE
    OBVIOUS
  <2>2. {a \in C : Below(a, m)} \subseteq Nat /\ {a \in C : Below(a, m)} # {}
    BY <1>2, <2>1
  <2>3. PICK a \in {x \in C : Below(x, m)} : \A x \in {y \in C : Below(y, m)} : a <= x
    BY <2>2, LeastNat
  <2>4. a \in C /\ Below(a, m) /\ a \in Nat /\ m \in Nat
    BY <1>1, <1>2, <2>3
  <2>5. a > m
    BY <1>1, <1>5, <2>4
  <2>6. \A b \in C : b < a => Below(a, b)
    <3> SUFFICES ASSUME NEW b \in C, b < a PROVE Below(a, b)
      OBVIOUS
    <3>1. ~Below(b, m)
      BY <1>2, <2>3, <2>4
    <3> QED
      BY <1>1, <1>4, <2>4, <3>1
  <2>7. a \in Records(C)
    BY <2>4, <2>6 DEF Records, Below
  <2> QED
    BY <1>1, <2>4, <2>5, <2>7
<1> QED
  BY <1>6 DEF FirstSorted, m, Below

\* The inductive invariant: copies of distinct workers, and the worker chosen
\* is the one selectWorker returned, for neither the snapshot nor the batch
\* changes while Dispatch is called.
ChoiceInv ==
    /\ running \in [Workers -> Nat] /\ alive \subseteq Workers
    /\ snapshot \in Seq(Copies)
    /\ \A i, j \in DOMAIN snapshot : snapshot[i].id = snapshot[j].id => i = j
    /\ sched = "dispatch" => /\ Candidates(Head(batch)) # {}
                             /\ chosen = selectWorker(Head(batch))

\* What the scheduler and the registry do keeps the invariant.
LEMMA ChoiceStep == ChoiceInv /\ [SchedulerNext]_schedulerVars => ChoiceInv'
<1> SUFFICES ASSUME ChoiceInv, [SchedulerNext]_schedulerVars PROVE ChoiceInv'
  OBVIOUS
<1> USE DEF ChoiceInv
<1>1. CASE UNCHANGED schedulerVars
  BY <1>1 DEF schedulerVars, Candidates, selectWorker, FirstSorted, Records
<1>2. ASSUME NEW t \in Tasks, PushTask(t) PROVE ChoiceInv'
  BY <1>2 DEF PushTask, Candidates, selectWorker, FirstSorted, Records
<1>3. ASSUME NEW t \in Tasks, DispatchOK(t) PROVE ChoiceInv'
  <2>1. running' = [running EXCEPT ![chosen] = running[chosen] + 1]
    BY <1>3 DEF DispatchOK, IncrementRunning
  <2>2. running' \in [Workers -> Nat]
    <3> HIDE DEF ChoiceInv
    <3>1. running \in [Workers -> Nat]
      BY DEF ChoiceInv
    <3>2. chosen \in Workers => running[chosen] + 1 \in Nat
      BY <3>1
    <3> QED
      BY <2>1, <3>1, <3>2
  <2> QED
    BY <1>3, <2>2 DEF DispatchOK
<1>4. CASE PopBatch
  BY <1>4 DEF PopBatch
<1>5. CASE AliveWorkers
  <2>1. PICK order \in Orders(alive) :
            snapshot' = [i \in DOMAIN order |->
                            [id |-> order[i], running |-> running[order[i]]]]
    BY <1>5 DEF AliveWorkers
  <2>2. Cardinality(alive) \in Nat
    BY SchedulerAssumption, FS_Subset, FS_CardinalityType
  <2>3. order \in [1..Cardinality(alive) -> alive]
    BY DEF Orders
  <2>4. \A i, j \in DOMAIN order : order[i] = order[j] => i = j
    BY <2>3 DEF Orders, IsInjective
  <2>5. \A i \in 1..Cardinality(alive) :
            [id |-> order[i], running |-> running[order[i]]] \in Copies
    BY <2>3 DEF Copies
  <2>6. snapshot' \in [1..Cardinality(alive) -> Copies]
    BY <2>1, <2>3, <2>5
  <2>7. snapshot' \in Seq(Copies) /\ DOMAIN snapshot' = DOMAIN order
    <3> HIDE DEF ChoiceInv
    <3>1. DOMAIN snapshot' = DOMAIN order
      BY <2>3, <2>6
    <3>2. \E n \in Nat : snapshot' \in [1..n -> Copies]
      BY <2>2, <2>6
    <3> QED
      BY <3>1, <3>2, SeqDef
  <2>8. \A i \in DOMAIN order : snapshot'[i].id = order[i]
    BY <2>1
  <2>9. \A i, j \in DOMAIN snapshot' : snapshot'[i].id = snapshot'[j].id => i = j
    BY <2>4, <2>7, <2>8
  <2> QED
    BY <1>5, <2>7, <2>9 DEF AliveWorkers
<1>6. CASE BatchEnds
  BY <1>6 DEF BatchEnds
<1>7. CASE SelectFails
  BY <1>7 DEF SelectFails
<1>8. CASE Select
  BY <1>8 DEF Select, Candidates, selectWorker, FirstSorted, Records
<1>9. CASE DispatchFails
  BY <1>9 DEF DispatchFails
<1>10. ASSUME NEW w \in Workers, Heartbeat(w) PROVE ChoiceInv'
  <2>1. running' \in [Workers -> Nat]
    BY <1>10, SchedulerAssumption DEF Heartbeat
  <2> QED
    BY <1>10, <2>1
    DEF Heartbeat, Candidates, selectWorker, FirstSorted, Records
<1>11. ASSUME NEW w \in Workers, ComesOrGoes(w) PROVE ChoiceInv'
  BY <1>11 DEF ComesOrGoes, Candidates, selectWorker, FirstSorted, Records
<1> QED
  BY <1>1, <1>2, <1>3, <1>4, <1>5, <1>6, <1>7, <1>8, <1>9, <1>10, <1>11 DEF SchedulerNext

\* No candidate of the snapshot is less loaded than the worker chosen, or as
\* loaded and of more capacity, if no candidate is idle with a capacity of 0.
BestOfSnapshot ==
    sched = "dispatch" =>
        LET cs   == {snapshot[i] : i \in Candidates(Head(batch))}
            best == {c \in cs : c.id = chosen}
        IN  /\ best # {}
            /\ (\A c \in cs : ~IsNaN(c)) =>
                  \A c \in cs, b \in best :
                     \/ b.running * Cap(c) < c.running * Cap(b)
                     \/ /\ b.running * Cap(c) = c.running * Cap(b)
                        /\ Cap(b) >= Cap(c)

\* The worker that is being called is the best of the copies.
LEMMA ChoiceIsBest == ChoiceInv => BestOfSnapshot
<1> SUFFICES ASSUME ChoiceInv, sched = "dispatch"
             PROVE  BestOfSnapshot
  BY DEF BestOfSnapshot
<1> DEFINE C == Candidates(Head(batch))
           cs == {snapshot[i] : i \in C}
           best == {c \in cs : c.id = chosen}
           m == Max(Records(C))
<1>1. /\ C \subseteq DOMAIN snapshot /\ C # {} /\ chosen = selectWorker(Head(batch))
      /\ snapshot \in Seq(Copies)
  BY DEF ChoiceInv, Candidates
<1>2. m \in C
  BY <1>1, LastRecord DEF Records
<1>3. chosen = snapshot[m].id /\ FirstSorted(C) = snapshot[m]
  BY <1>1 DEF selectWorker, FirstSorted
<1>4. snapshot[m] \in best
  BY <1>2, <1>3
<1>5. \A b \in best : b = snapshot[m]
  BY <1>1, <1>2, <1>3 DEF ChoiceInv
<1>6. ASSUME \A c \in cs : ~IsNaN(c), NEW c \in cs, NEW b \in best
      PROVE  \/ b.running * Cap(c) < c.running * Cap(b)
             \/ /\ b.running * Cap(c) = c.running * Cap(b)
                /\ Cap(b) >= Cap(c)
  <2>1. PICK i \in C : c = snapshot[i]
    OBVIOUS
  <2>2. \A j \in C : ~IsNaN(snapshot[j])
    BY <1>6
  <2>3. ~less(c, b)
    BY <1>1, <1>3, <1>5, <2>1, <2>2, FirstIsLeast
  <2>4. c \in Copies /\ b \in Copies /\ ~IsNaN(c) /\ ~IsNaN(b)
    BY <1>1, <1>6
  <2>5. /\ ~Lower(c.running, Cap(c), b.running, Cap(b))
        /\ Cap(c) \in Nat /\ Cap(b) \in Nat
    BY <2>3, <2>4, LessIsLower
  <2>6. c.running * Cap(b) \in Nat /\ b.running * Cap(c) \in Nat
    BY <2>4, <2>5 DEF Copies
  <2> QED
    BY <2>5, <2>6 DEF Lower
<1> QED
  BY <1>4, <1>6 DEF BestOfSnapshot

\* A job is in the queue, in the batch or given to a worker, in one of them and
\* once; the batch is no longer than BatchSize; who stays is alive.
Used(t) == IF given[t] = NoWorker THEN 0 ELSE 1
JobsInv ==
    /\ readyQueue \in Seq(Tasks) /\ batch \in Seq(Tasks)
    /\ given \in [Tasks -> Workers \cup {NoWorker}]
    /\ \A t \in Tasks : Occ(readyQueue, t) + Occ(batch, t) + Used(t) <= 1
    /\ Len(batch) <= BatchSize
    /\ sched = "dispatch" => batch # <<>> /\ chosen \in Workers
    /\ Workers \ Fickle \subseteq alive

\* The registry counts what it was told of, until a heartbeat comes; a copy in
\* the snapshot is behind by no more than what the batch has given out since.
CountsInv ==
    /\ \A w \in Workers \ heard : running[w] = Assigned(w)
    /\ sched \in {"select", "dispatch"} =>
          /\ \A w \in Workers \ Fickle : \E i \in DOMAIN snapshot : snapshot[i].id = w
          /\ \A i \in DOMAIN snapshot :
                snapshot[i].id \notin heard =>
                   /\ snapshot[i].running <= running[snapshot[i].id]
                   /\ running[snapshot[i].id] + Len(batch) <= snapshot[i].running + BatchSize

BalanceInv == ChoiceInv /\ JobsInv /\ CountsInv /\ BoundedImbalance

\* The first job of the batch is nowhere else and was not given away.
LEMMA HeadIsFree ==
    ASSUME JobsInv, batch # <<>>
    PROVE  /\ Head(batch) \in Tasks /\ Tail(batch) \in Seq(Tasks)
           /\ Len(Tail(batch)) = Len(batch) - 1 /\ Len(batch) \in Nat /\ Len(batch) >= 1
           /\ given[Head(batch)] = NoWorker
           /\ \A t \in Tasks : /\ Occ(readyQueue, t) \in Nat /\ Occ(batch, t) \in Nat
                               /\ Occ(Tail(batch), t) \in Nat
                               /\ Occ(batch, t) = Occ(Tail(batch), t)
                                                  + IF Head(batch) = t THEN 1 ELSE 0
<1>0. readyQueue \in Seq(Tasks) /\ batch \in Seq(Tasks)
  BY DEF JobsInv
<1>1. /\ Head(batch) \in Tasks /\ Tail(batch) \in Seq(Tasks)
      /\ Len(Tail(batch)) = Len(batch) - 1 /\ Len(batch) \in Nat /\ Len(batch) >= 1
  BY <1>0
<1>2. \A t \in Tasks : /\ Occ(readyQueue, t) \in Nat /\ Occ(batch, t) \in Nat
                       /\ Occ(Tail(batch), t) \in Nat
                       /\ Occ(batch, t) = Occ(Tail(batch), t) + IF Head(batch) = t THEN 1 ELSE 0
  BY <1>0, <1>1, OccType, OccTail
<1>3. PICK h \in Tasks : h = Head(batch)
  BY <1>1
<1>4. Occ(readyQueue, h) + Occ(batch, h) + Used(h) <= 1
  BY DEF JobsInv
<1>5. Occ(batch, h) >= 1 /\ Occ(readyQueue, h) \in Nat /\ Occ(batch, h) \in Nat
  BY <1>2, <1>3
<1>6. Used(h) \in 0..1
  BY DEF Used
<1>7. Used(h) = 0
  BY <1>4, <1>5, <1>6
<1>8. given[h] = NoWorker
  BY <1>7 DEF Used
<1> QED
  BY <1>1, <1>2, <1>3, <1>8

\* A job leaves the batch, for the end of the queue or for a worker.
LEMMA JobLeaves ==
    ASSUME JobsInv, batch # <<>>, batch' = Tail(batch), alive' = alive, sched' = "select",
           \/ readyQueue' = Append(readyQueue, Head(batch)) /\ given' = given
           \/ /\ readyQueue' = readyQueue
              /\ chosen \in Workers /\ given' = [given EXCEPT ![Head(batch)] = chosen]
    PROVE  JobsInv'
<1>h. PICK h \in Tasks : h = Head(batch)
  BY HeadIsFree
<1>1. /\ h \in Tasks /\ Tail(batch) \in Seq(Tasks) /\ Len(Tail(batch)) = Len(batch) - 1
      /\ Len(batch) \in Nat
      /\ given[h] = NoWorker
      /\ \A t \in Tasks : /\ Occ(readyQueue, t) \in Nat /\ Occ(batch, t) \in Nat
                          /\ Occ(Tail(batch), t) \in Nat
                          /\ Occ(batch, t) = Occ(Tail(batch), t) + IF h = t THEN 1 ELSE 0
  BY <1>h, HeadIsFree
<1>2. /\ readyQueue \in Seq(Tasks) /\ given \in [Tasks -> Workers \cup {NoWorker}]
      /\ \A t \in Tasks : Occ(readyQueue, t) + Occ(batch, t) + Used(t) <= 1
      /\ Len(batch) <= BatchSize /\ BatchSize \in Nat
  BY SchedulerAssumption DEF JobsInv
<1>3. \A t \in Tasks : Occ(batch', t) = Occ(Tail(batch), t)
  OBVIOUS
<1>4. \A t \in Tasks : Used(t) \in 0..1
  BY DEF Used
<1>5. CASE readyQueue' = Append(readyQueue, h) /\ given' = given
  <2>1. /\ Append(readyQueue, h) \in Seq(Tasks)
        /\ \A t \in Tasks : Occ(Append(readyQueue, h), t)
                            = Occ(readyQueue, t) + IF h = t THEN 1 ELSE 0
    BY <1>1, <1>2, OccAppend
  <2>2. \A t \in Tasks : Occ(readyQueue', t) = Occ(readyQueue, t) + IF h = t THEN 1 ELSE 0
    BY <1>5, <2>1, Zenon
  <2>3. \A t \in Tasks : Used(t)' = Used(t)
    BY <1>5 DEF Used
  <2>4. ASSUME NEW t \in Tasks PROVE Occ(readyQueue', t) + Occ(batch', t) + Used(t)' <= 1
    <3>1. Occ(readyQueue, t) + Occ(batch, t) + Used(t) <= 1
      BY <1>2
    <3>2. /\ Occ(readyQueue', t) = Occ(readyQueue, t) + IF h = t THEN 1 ELSE 0
          /\ Occ(batch', t) = Occ(Tail(batch), t) /\ Used(t)' = Used(t)
      BY <1>3, <2>2, <2>3
    <3>3. Occ(readyQueue, t) \in Nat /\ Occ(Tail(batch), t) \in Nat /\ Used(t) \in 0..1
      BY <1>1, <1>4
    <3>4. CASE h = t
      <4>1. Occ(batch, t) = Occ(Tail(batch), t) + 1
        BY <1>1, <3>4
      <4> QED
        BY <3>1, <3>2, <3>3, <3>4, <4>1
    <3>5. CASE h # t
      <4>1. Occ(batch, t) = Occ(Tail(batch), t)
        BY <1>1, <3>3, <3>5
      <4> QED
        BY <3>1, <3>2, <3>3, <3>5, <4>1
    <3> QED
      BY <3>4, <3>5
  <2>5. readyQueue' \in Seq(Tasks)
    BY <1>5, <2>1, Zenon
  <2>6. batch' \in Seq(Tasks) /\ Len(batch') <= BatchSize
    BY <1>1, <1>2
  <2> QED
    BY <1>2, <1>5, <2>4, <2>5, <2>6 DEF JobsInv
<1>6. CASE readyQueue' = readyQueue /\ chosen \in Workers /\ given' = [given EXCEPT ![h] = chosen]
  <2>1. /\ given' \in [Tasks -> Workers \cup {NoWorker}] /\ given'[h] = chosen
        /\ \A t \in Tasks \ {h} : given'[t] = given[t]
    BY <1>1, <1>2, <1>6
  <2>2. /\ Used(h) = 0 /\ Used(h)' \in 0..1
        /\ \A t \in Tasks \ {h} : Used(t)' = Used(t)
    BY <1>1, <2>1 DEF Used
  <2>3. ASSUME NEW t \in Tasks PROVE Occ(readyQueue', t) + Occ(batch', t) + Used(t)' <= 1
    <3>1. Occ(readyQueue, t) + Occ(batch, t) + Used(t) <= 1
      BY <1>2
    <3>2. Occ(readyQueue', t) = Occ(readyQueue, t) /\ Occ(batch', t) = Occ(Tail(batch), t)
      BY <1>3, <1>6
    <3>3. CASE t = h
      BY <1>1, <2>2, <3>1, <3>2, <3>3
    <3>4. CASE t # h
      BY <1>1, <1>4, <2>2, <3>1, <3>2, <3>4
    <3> QED
      BY <3>3, <3>4
  <2>4. /\ readyQueue' \in Seq(Tasks) /\ batch' \in Seq(Tasks)
        /\ Len(batch') <= BatchSize
    BY <1>1, <1>2, <1>6
  <2>5. given' \in [Tasks -> Workers \cup {NoWorker}]
    BY <2>1
  <2> QED
    BY <2>3, <2>4, <2>5 DEF JobsInv
<1> QED
  BY <1>h, <1>5, <1>6

\* The worker a call goes to is one of the workers.
LEMMA ChosenIsWorker ==
    ASSUME ChoiceInv, NEW t, Candidates(t) # {}
    PROVE  selectWorker(t) \in Workers
<1> DEFINE C == Candidates(t)
<1>1. C \subseteq DOMAIN snapshot /\ snapshot \in Seq(Copies)
  BY DEF ChoiceInv, Candidates
<1>2. Max(Records(C)) \in C
  BY <1>1, LastRecord DEF Records
<1>3. snapshot[Max(Records(C))] \in Copies
  BY <1>1, <1>2
<1> QED
  BY <1>3 DEF selectWorker, FirstSorted, Copies

\* Jobs are neither lost nor doubled.
LEMMA JobsStep == ChoiceInv /\ JobsInv /\ [SchedulerNext]_schedulerVars => JobsInv'
<1> SUFFICES ASSUME ChoiceInv, JobsInv, [SchedulerNext]_schedulerVars PROVE JobsInv'
  OBVIOUS
<1>0. /\ readyQueue \in Seq(Tasks) /\ batch \in Seq(Tasks)
      /\ given \in [Tasks -> Workers \cup {NoWorker}]
      /\ \A t \in Tasks : Occ(readyQueue, t) + Occ(batch, t) + Used(t) <= 1
      /\ \A t \in Tasks : Occ(readyQueue, t) \in Nat /\ Occ(batch, t) \in Nat
      /\ Len(batch) <= BatchSize /\ BatchSize \in Nat
      /\ Workers \ Fickle \subseteq alive
  BY OccType, SchedulerAssumption DEF JobsInv
<1>f. ASSUME UNCHANGED <<readyQueue, batch, given>>,
             sched' # "dispatch" \/ (batch # <<>> /\ chosen' \in Workers),
             Workers \ Fickle \subseteq alive'
      PROVE  JobsInv'
  BY <1>0, <1>f DEF JobsInv, Used
<1>1. CASE UNCHANGED schedulerVars
  BY <1>f, <1>1 DEF schedulerVars, JobsInv
<1>2. ASSUME NEW t \in Tasks, PushTask(t) PROVE JobsInv'
  <2>1. /\ given[t] = NoWorker /\ ~InScheduler(t) /\ readyQueue' = Append(readyQueue, t)
        /\ UNCHANGED <<batch, given, alive, sched, chosen>>
    BY <1>2 DEF PushTask
  <2>2. Occ(readyQueue, t) = 0 /\ Occ(batch, t) = 0
    <3>1. DOMAIN readyQueue = 1..Len(readyQueue) /\ DOMAIN batch = 1..Len(batch)
      BY <1>0
    <3>2. t \notin {readyQueue[i] : i \in DOMAIN readyQueue}
      BY <2>1 DEF InScheduler, ToSet
    <3>3. t \notin {batch[i] : i \in DOMAIN batch}
      BY <2>1 DEF InScheduler, ToSet
    <3>4. ~(Occ(readyQueue, t) > 0)
      <4>1. ~\E i \in 1..Len(readyQueue) : readyQueue[i] = t
        BY <3>1, <3>2
      <4> QED
        BY <1>0, <4>1, OccType
    <3>5. ~(Occ(batch, t) > 0)
      <4>1. ~\E i \in 1..Len(batch) : batch[i] = t
        BY <3>1, <3>3
      <4> QED
        BY <1>0, <4>1, OccType
    <3> QED
      BY <1>0, <3>4, <3>5
  <2>3. /\ Append(readyQueue, t) \in Seq(Tasks)
        /\ \A u \in Tasks : Occ(Append(readyQueue, t), u)
                            = Occ(readyQueue, u) + IF t = u THEN 1 ELSE 0
    BY <1>0, OccAppend
  <2>4. \A u \in Tasks : Occ(readyQueue', u) = Occ(readyQueue, u) + IF t = u THEN 1 ELSE 0
    BY <2>1, <2>3, Zenon
  <2>5. \A u \in Tasks : Used(u)' = Used(u) /\ Occ(batch', u) = Occ(batch, u)
    BY <2>1 DEF Used
  <2>6. Used(t) = 0
    BY <2>1 DEF Used
  <2>7. \A u \in Tasks : Occ(readyQueue', u) + Occ(batch', u) + Used(u)' <= 1
    <3> TAKE u \in Tasks
    <3>1. CASE u = t
      BY <2>2, <2>4, <2>5, <2>6, <3>1
    <3>2. CASE u # t
      <4>1. /\ Occ(readyQueue', u) = Occ(readyQueue, u) + 0 /\ Occ(readyQueue, u) \in Nat
            /\ Occ(readyQueue, u) + Occ(batch, u) + Used(u) <= 1
        BY <1>0, <2>4, <3>2
      <4> QED
        BY <2>5, <4>1
    <3> QED
      BY <3>1, <3>2
  <2> QED
    BY <1>0, <2>1, <2>3, <2>7 DEF JobsInv
<1>3. ASSUME NEW t \in Tasks, DispatchOK(t) PROVE JobsInv'
  <2>1. batch # <<>> /\ chosen \in Workers
    BY <1>3 DEF DispatchOK, JobsInv
  <2> QED
    BY <1>3, <2>1, JobLeaves DEF DispatchOK
<1>4. CASE PopBatch
  <2> DEFINE n == IF BatchSize > Len(readyQueue) THEN Len(readyQueue) ELSE BatchSize
  <2>1. n \in 0..Len(readyQueue) /\ n <= BatchSize
    BY <1>0
  <2>2. batch' = SubSeq(readyQueue, 1, n) /\ readyQueue' = SubSeq(readyQueue, n + 1, Len(readyQueue))
        /\ UNCHANGED <<given, alive>> /\ sched' = "popped"
    BY <1>4 DEF PopBatch
  <2> HIDE DEF n
  <2>3. /\ SubSeq(readyQueue, 1, n) \in Seq(Tasks)
        /\ SubSeq(readyQueue, n + 1, Len(readyQueue)) \in Seq(Tasks)
        /\ \A t \in Tasks : Occ(readyQueue, t)
              = Occ(SubSeq(readyQueue, 1, n), t) + Occ(SubSeq(readyQueue, n + 1, Len(readyQueue)), t)
    BY <1>0, <2>1, OccSplit
  <2>4. Len(batch') = n
    BY <1>0, <2>1, <2>2
  <2>5. batch' \in Seq(Tasks) /\ readyQueue' \in Seq(Tasks)
    BY <2>2, <2>3, Zenon
  <2>6. \A t \in Tasks : Occ(readyQueue, t) = Occ(batch', t) + Occ(readyQueue', t)
    BY <2>2, <2>3, Zenon
  <2>7. ASSUME NEW t \in Tasks PROVE Occ(readyQueue', t) + Occ(batch', t) + Used(t)' <= 1
    <3>1. Occ(readyQueue', t) \in Nat /\ Occ(batch', t) \in Nat
      BY <2>5, OccType
    <3>2. Used(t)' = Used(t) /\ Used(t) \in 0..1
      BY <2>2 DEF Used
    <3> QED
      BY <1>0, <2>6, <3>1, <3>2
  <2> QED
    BY <1>0, <2>1, <2>2, <2>4, <2>5, <2>7 DEF JobsInv
<1>5. CASE AliveWorkers \/ BatchEnds
  BY <1>0, <1>f, <1>5 DEF AliveWorkers, BatchEnds
<1>6. CASE SelectFails
  <2>1. /\ batch # <<>> /\ readyQueue' = Append(readyQueue, Head(batch)) /\ batch' = Tail(batch)
        /\ UNCHANGED <<given, alive>> /\ sched' = "select"
    BY <1>6 DEF SelectFails, PushedBack
  <2> QED
    BY <2>1, JobLeaves
<1>7. CASE Select
  <2>1. chosen' \in Workers
    BY <1>7, ChosenIsWorker DEF Select
  <2> QED
    BY <1>0, <1>f, <1>7, <2>1 DEF Select
<1>8. CASE DispatchFails
  <2>1. /\ batch # <<>> /\ readyQueue' = Append(readyQueue, Head(batch)) /\ batch' = Tail(batch)
        /\ UNCHANGED <<given, alive>> /\ sched' = "select"
    BY <1>8 DEF DispatchFails, PushedBack, JobsInv
  <2> QED
    BY <2>1, JobLeaves
<1>9. ASSUME NEW w \in Workers, Heartbeat(w) PROVE JobsInv'
  BY <1>0, <1>f, <1>9 DEF Heartbeat, JobsInv
<1>10. ASSUME NEW w \in Workers, ComesOrGoes(w) PROVE JobsInv'
  <2>1. Workers \ Fickle \subseteq alive'
    BY <1>0, <1>10 DEF ComesOrGoes
  <2> QED
    BY <1>0, <1>f, <1>10, <2>1 DEF ComesOrGoes, JobsInv
<1> QED
  BY <1>1, <1>2, <1>3, <1>4, <1>5, <1>6, <1>7, <1>8, <1>9, <1>10 DEF SchedulerNext

\* A worker's jobs are counted: one more when it is given one.
LEMMA AssignedStep ==
    ASSUME given \in [Tasks -> Workers \cup {NoWorker}],
           NEW h \in Tasks, NEW c \in Workers,
           given[h] = NoWorker, given' = [given EXCEPT ![h] = c],
           NEW w \in Workers
    PROVE  /\ Assigned(w) \in Nat
           /\ Assigned(w)' = IF w = c THEN Assigned(w) + 1 ELSE Assigned(w)
<1> DEFINE G == {t \in Tasks : given[t] = w}
           H == {t \in Tasks : given'[t] = w}
<1>1. IsFiniteSet(G) /\ Cardinality(G) \in Nat
  <2>1. G \in SUBSET Tasks /\ IsFiniteSet(Tasks)
    BY SchedulerAssumption
  <2> QED
    BY <2>1, FS_Subset, FS_CardinalityType
<1>2. given'[h] = c /\ \A t \in Tasks \ {h} : given'[t] = given[t]
  OBVIOUS
<1>3. NoWorker # w
  BY SchedulerAssumption
<1>4. CASE w = c
  <2>1. H = G \cup {h} /\ h \notin G
    BY <1>2, <1>3, <1>4
  <2>2. Cardinality(G \cup {h}) = Cardinality(G) + 1
    BY <1>1, <2>1, FS_AddElement
  <2> QED
    BY <1>1, <1>4, <2>1, <2>2 DEF Assigned
<1>5. CASE w # c
  <2>1. H = G
    BY <1>2, <1>3, <1>5
  <2> QED
    BY <1>1, <1>5, <2>1 DEF Assigned
<1> QED
  BY <1>4, <1>5

\* A successful Dispatch of the batch's first job.
LEMMA GivenOne ==
    ASSUME ChoiceInv, JobsInv, NEW t \in Tasks, DispatchOK(t)
    PROVE  /\ chosen \in Workers /\ batch # <<>>
           /\ running'[chosen] = running[chosen] + 1
           /\ \A w \in Workers \ {chosen} : running'[w] = running[w]
           /\ \A w \in Workers : Assigned(w) \in Nat /\ running[w] \in Nat
           /\ \A w \in Workers :
                 Assigned(w)' = IF w = chosen THEN Assigned(w) + 1 ELSE Assigned(w)
           /\ Len(batch) \in Nat /\ Len(batch) >= 1 /\ Len(batch') = Len(batch) - 1
<1>1. PICK c \in Workers : c = chosen
  BY DEF DispatchOK, JobsInv
<1>2. batch # <<>> /\ t = Head(batch) /\ batch' = Tail(batch)
  BY DEF DispatchOK, JobsInv
<1>3. given[t] = NoWorker /\ Len(batch') = Len(batch) - 1 /\ Len(batch) \in Nat /\ Len(batch) >= 1
  BY <1>2, HeadIsFree
<1>4. given' = [given EXCEPT ![t] = c] /\ given \in [Tasks -> Workers \cup {NoWorker}]
  BY <1>1 DEF DispatchOK, JobsInv
<1>5. \A w \in Workers : /\ Assigned(w) \in Nat
                         /\ Assigned(w)' = IF w = c THEN Assigned(w) + 1 ELSE Assigned(w)
  BY <1>3, <1>4, AssignedStep
<1>6. running' = [running EXCEPT ![c] = running[c] + 1] /\ running \in [Workers -> Nat]
  BY <1>1 DEF DispatchOK, IncrementRunning, ChoiceInv
<1>7. /\ running'[c] = running[c] + 1
      /\ \A w \in Workers \ {c} : running'[w] = running[w]
      /\ \A w \in Workers : running[w] \in Nat
  BY <1>6
<1> QED
  BY <1>1, <1>2, <1>3, <1>5, <1>7

\* The counts are kept, and the snapshot does not fall further behind.
LEMMA CountsStep ==
    ChoiceInv /\ JobsInv /\ CountsInv /\ [SchedulerNext]_schedulerVars => CountsInv'
<1> SUFFICES ASSUME ChoiceInv, JobsInv, CountsInv, [SchedulerNext]_schedulerVars
             PROVE  CountsInv'
  OBVIOUS
<1>0. /\ running \in [Workers -> Nat] /\ snapshot \in Seq(Copies)
      /\ batch \in Seq(Tasks) /\ Len(batch) \in Nat /\ Len(batch) <= BatchSize
      /\ BatchSize \in Nat
  BY SchedulerAssumption DEF ChoiceInv, JobsInv
<1>t. \A i \in DOMAIN snapshot : /\ snapshot[i].running \in Nat /\ snapshot[i].id \in Workers
                                 /\ running[snapshot[i].id] \in Nat
  <2> SUFFICES ASSUME NEW i \in DOMAIN snapshot
               PROVE  /\ snapshot[i].running \in Nat /\ snapshot[i].id \in Workers
                      /\ running[snapshot[i].id] \in Nat
    OBVIOUS
  <2>1. snapshot[i] \in Copies
    BY <1>0
  <2>2. snapshot[i].running \in Nat /\ snapshot[i].id \in Workers
    BY <2>1 DEF Copies
  <2> QED
    BY <1>0, <2>2
<1>s. ASSUME UNCHANGED given PROVE \A w \in Workers : Assigned(w)' = Assigned(w)
  BY <1>s DEF Assigned
<1>f. ASSUME UNCHANGED <<given, running>>, heard \subseteq heard',
             sched' \in {"select", "dispatch"} =>
                /\ sched \in {"select", "dispatch"} /\ UNCHANGED <<batch, snapshot>>
      PROVE  CountsInv'
  BY <1>s, <1>f DEF CountsInv
<1>l. ASSUME UNCHANGED <<given, running, heard, snapshot>>, sched \in {"select", "dispatch"},
             batch # <<>>, batch' = Tail(batch)
      PROVE  CountsInv'
  <2>1. Len(batch') = Len(batch) - 1
    BY <1>l, HeadIsFree
  <2>2. \A i \in DOMAIN snapshot :
            snapshot[i].id \notin heard =>
               /\ snapshot[i].running <= running[snapshot[i].id]
               /\ running[snapshot[i].id] + Len(batch) <= snapshot[i].running + BatchSize
    BY <1>l DEF CountsInv
  <2>3. \A i \in DOMAIN snapshot :
            snapshot[i].id \notin heard =>
               /\ snapshot[i].running <= running[snapshot[i].id]
               /\ running[snapshot[i].id] + Len(batch') <= snapshot[i].running + BatchSize
    BY <1>0, <1>t, <2>1, <2>2
  <2> QED
    BY <1>l, <1>s, <2>3 DEF CountsInv
<1>1. CASE UNCHANGED schedulerVars
  BY <1>f, <1>1 DEF schedulerVars
<1>2. ASSUME NEW t \in Tasks, PushTask(t) PROVE CountsInv'
  BY <1>f, <1>2 DEF PushTask
<1>3. ASSUME NEW t \in Tasks, DispatchOK(t) PROVE CountsInv'
  <2>0. /\ UNCHANGED <<snapshot, heard>> /\ sched = "dispatch" /\ sched' = "select"
    BY <1>3 DEF DispatchOK
  <2>1. PICK c \in Workers :
           /\ c = chosen
           /\ running'[c] = running[c] + 1
           /\ \A w \in Workers \ {c} : running'[w] = running[w]
           /\ \A w \in Workers : Assigned(w) \in Nat /\ running[w] \in Nat
           /\ \A w \in Workers :
                 Assigned(w)' = IF w = c THEN Assigned(w) + 1 ELSE Assigned(w)
           /\ Len(batch') = Len(batch) - 1
    BY <1>3, GivenOne
  <2>2. \A w \in Workers \ heard : running'[w] = Assigned(w)'
    <3> TAKE w \in Workers \ heard
    <3>1. running[w] = Assigned(w)
      BY DEF CountsInv
    <3>2. CASE w = c
      BY <2>1, <3>1, <3>2
    <3>3. CASE w # c
      BY <2>1, <3>1, <3>3
    <3> QED
      BY <3>2, <3>3
  <2>3. ASSUME NEW i \in DOMAIN snapshot, snapshot[i].id \notin heard
        PROVE  /\ snapshot[i].running <= running'[snapshot[i].id]
               /\ running'[snapshot[i].id] + Len(batch') <= snapshot[i].running + BatchSize
    <3>1. /\ snapshot[i].running <= running[snapshot[i].id]
          /\ running[snapshot[i].id] + Len(batch) <= snapshot[i].running + BatchSize
      BY <2>0, <2>3 DEF CountsInv
    <3>2. /\ snapshot[i].running \in Nat /\ snapshot[i].id \in Workers
          /\ running[snapshot[i].id] \in Nat
      BY <1>t
    <3>3. \/ running'[snapshot[i].id] = running[snapshot[i].id]
          \/ running'[snapshot[i].id] = running[snapshot[i].id] + 1
      BY <2>1, <3>2
    <3>4. Len(batch') = Len(batch) - 1 /\ Len(batch) \in Nat /\ BatchSize \in Nat
      BY <1>0, <2>1
    <3> QED
      BY <3>1, <3>2, <3>3, <3>4
  <2>4. \A w \in Workers \ Fickle : \E i \in DOMAIN snapshot : snapshot[i].id = w
    BY <2>0 DEF CountsInv
  <2> QED
    BY <2>0, <2>2, <2>3, <2>4 DEF CountsInv
<1>4. CASE PopBatch
  BY <1>f, <1>4 DEF PopBatch
<1>5. CASE AliveWorkers
  <2>1. PICK order \in Orders(alive) :
            snapshot' = [i \in DOMAIN order |->
                            [id |-> order[i], running |-> running[order[i]]]]
    BY <1>5 DEF AliveWorkers
  <2>2. order \in [1..Cardinality(alive) -> alive] /\ IsInjective(order)
    BY DEF Orders
  <2>3. IsFiniteSet(alive) /\ Cardinality(alive) \in Nat /\ alive \subseteq Workers
    BY SchedulerAssumption, FS_Subset, FS_CardinalityType DEF ChoiceInv
  <2>4. \A w \in alive : \E i \in DOMAIN order : order[i] = w
    <3>1. IsFiniteSet(1..Cardinality(alive)) /\ Cardinality(1..Cardinality(alive)) = Cardinality(alive)
      BY <2>3, FS_Interval
    <3>2. order \in Injection(1..Cardinality(alive), alive)
      BY <2>2 DEF Injection, IsInjective
    <3>3. order \in Surjection(1..Cardinality(alive), alive)
      BY <2>3, <3>1, <3>2, FS_Injection
    <3> QED
      BY <2>2, <3>3 DEF Surjection
  <2>5. /\ DOMAIN snapshot' = DOMAIN order
        /\ \A i \in DOMAIN order : /\ snapshot'[i].id = order[i] /\ order[i] \in Workers
                                   /\ snapshot'[i].running = running[order[i]]
    BY <2>1, <2>2, <2>3
  <2>6. \A w \in Workers \ Fickle : \E i \in DOMAIN snapshot' : snapshot'[i].id = w
    BY <2>4, <2>5 DEF JobsInv
  <2>7. UNCHANGED <<given, running, heard, batch>>
    BY <1>5 DEF AliveWorkers
  <2>8. ASSUME NEW i \in DOMAIN snapshot'
        PROVE  /\ snapshot'[i].running <= running'[snapshot'[i].id]
               /\ running'[snapshot'[i].id] + Len(batch') <= snapshot'[i].running + BatchSize
    <3>1. /\ snapshot'[i].running = running'[snapshot'[i].id]
          /\ snapshot'[i].running \in Nat
      BY <1>0, <2>5, <2>7
    <3>2. Len(batch') = Len(batch)
      BY <2>7
    <3> QED
      BY <1>0, <3>1, <3>2
  <2> QED
    BY <1>s, <2>6, <2>7, <2>8 DEF CountsInv
<1>6. CASE BatchEnds
  BY <1>f, <1>6 DEF BatchEnds
<1>7. CASE SelectFails
  BY <1>l, <1>7 DEF SelectFails
<1>8. CASE Select
  BY <1>f, <1>8 DEF Select
<1>9. CASE DispatchFails
  <2>1. batch # <<>>
    BY <1>9 DEF DispatchFails, JobsInv
  <2> QED
    BY <1>l, <1>9, <2>1 DEF DispatchFails
<1>10. ASSUME NEW w \in Workers, Heartbeat(w) PROVE CountsInv'
  <2>1. PICK n \in 0..MaxReport : running' = [running EXCEPT ![w] = n]
    BY <1>10 DEF Heartbeat
  <2>2. \A v \in Workers \ {w} : running'[v] = running[v]
    BY <1>0, <2>1
  <2>3. heard' = heard \cup {w} /\ UNCHANGED <<batch, snapshot, sched, given>>
    BY <1>10 DEF Heartbeat
  <2>4. \A i \in DOMAIN snapshot :
            snapshot[i].id \notin heard' =>
               /\ running'[snapshot[i].id] = running[snapshot[i].id]
               /\ snapshot[i].id \notin heard
    BY <1>t, <2>2, <2>3
  <2>5. \A v \in Workers \ heard' : running'[v] = Assigned(v)'
    BY <1>s, <2>2, <2>3 DEF CountsInv
  <2>6. ASSUME sched' \in {"select", "dispatch"}
        PROVE  \A i \in DOMAIN snapshot' :
                  snapshot'[i].id \notin heard' =>
                     /\ snapshot'[i].running <= running'[snapshot'[i].id]
                     /\ running'[snapshot'[i].id] + Len(batch') <= snapshot'[i].running + BatchSize
    BY <2>3, <2>4, <2>6 DEF CountsInv
  <2>7. ASSUME sched' \in {"select", "dispatch"}
        PROVE  \A v \in Workers \ Fickle : \E i \in DOMAIN snapshot' : snapshot'[i].id = v
    BY <2>3, <2>7 DEF CountsInv
  <2> QED
    BY <2>5, <2>6, <2>7 DEF CountsInv
<1>11. ASSUME NEW w \in Workers, ComesOrGoes(w) PROVE CountsInv'
  BY <1>f, <1>11 DEF ComesOrGoes
<1> QED
  BY <1>1, <1>2, <1>3, <1>4, <1>5, <1>6, <1>7, <1>8, <1>9, <1>10, <1>11 DEF SchedulerNext

\* The arithmetic of the balance: the copy of a that was compared is behind by
\* at most n, and that of b is not ahead.
LEMMA OneMore ==
    ASSUME NEW ga \in Nat, NEW gb \in Nat, NEW ra \in Nat, NEW rb \in Nat,
           NEW ka \in Nat, NEW kb \in Nat, NEW n \in Nat,
           ga <= ra + n, ra * kb <= rb * ka, rb <= gb
    PROVE  (ga - n) * kb <= gb * ka
<1>1. ga - n \in Int /\ ga - n <= ra
  OBVIOUS
<1>2. \A x \in Int : x <= ra => x * kb <= ra * kb
  OBVIOUS
<1>3. (ga - n) * kb <= ra * kb
  BY <1>1, <1>2
<1>4. rb * ka <= gb * ka
  OBVIOUS
<1>5. /\ (ga - n) * kb \in Int /\ ra * kb \in Int
      /\ rb * ka \in Int /\ gb * ka \in Int
  BY <1>1
<1> QED
  BY <1>3, <1>4, <1>5

\* A job is not given to a worker that is more loaded, by the copies, than one
\* that stays and can do it.
LEMMA ChosenIsLessLoaded ==
    ASSUME ChoiceInv, CountsInv, sched = "dispatch", NEW b \in Workers \ Fickle,
           Capabilities[chosen] \subseteq Capabilities[b],
           \A z \in Workers :
              Capabilities[z] \cap Capabilities[chosen] # {} => WorkerCapacity[z] > 0
    PROVE  \E i, j \in DOMAIN snapshot :
              /\ snapshot[i].id = chosen /\ snapshot[j].id = b
              /\ snapshot[i].running * WorkerCapacity[b]
                    <= snapshot[j].running * WorkerCapacity[chosen]
<1> DEFINE t == Head(batch)
           cs == {snapshot[i] : i \in Candidates(t)}
           best == {c \in cs : c.id = chosen}
<1>1. snapshot \in Seq(Copies)
  BY DEF ChoiceInv
<1>2. /\ best # {}
      /\ (\A c \in cs : ~IsNaN(c)) =>
            \A c \in cs, d \in best : \/ d.running * Cap(c) < c.running * Cap(d)
                                      \/ d.running * Cap(c) = c.running * Cap(d)
  BY ChoiceIsBest DEF BestOfSnapshot
<1>3. PICK i \in Candidates(t) : snapshot[i].id = chosen
  BY <1>2
<1>4. i \in DOMAIN snapshot /\ TypeOf[t] \in Capabilities[chosen]
  BY <1>3 DEF Candidates
<1>5. PICK j \in DOMAIN snapshot : snapshot[j].id = b
  BY DEF CountsInv
<1>6. j \in Candidates(t)
  BY <1>4, <1>5 DEF Candidates
<1>7. \A c \in cs : ~IsNaN(c)
  <2> SUFFICES ASSUME NEW k \in Candidates(t) PROVE ~IsNaN(snapshot[k])
    OBVIOUS
  <2>1. /\ snapshot[k] \in Copies
        /\ TypeOf[t] \in Capabilities[snapshot[k].id]
    BY <1>1 DEF Candidates
  <2>2. snapshot[k].id \in Workers
    BY <2>1 DEF Copies
  <2>3. WorkerCapacity[snapshot[k].id] > 0
    BY <1>4, <2>1, <2>2
  <2> QED
    BY <2>2, <2>3, SchedulerAssumption DEF IsNaN, Cap
<1>8. snapshot[j] \in cs /\ snapshot[i] \in best
  BY <1>3, <1>6
<1>9. \/ snapshot[i].running * Cap(snapshot[j]) < snapshot[j].running * Cap(snapshot[i])
      \/ snapshot[i].running * Cap(snapshot[j]) = snapshot[j].running * Cap(snapshot[i])
  <2> HIDE DEF cs, best
  <2> QED
    BY <1>2, <1>7, <1>8
<1>10. Cap(snapshot[j]) = WorkerCapacity[b] /\ Cap(snapshot[i]) = WorkerCapacity[chosen]
  BY <1>3, <1>5 DEF Cap
<1>11. /\ snapshot[i] \in Copies /\ snapshot[j] \in Copies
       /\ Cap(snapshot[j]) \in Nat /\ Cap(snapshot[i]) \in Nat
  <2>1. snapshot[i] \in Copies /\ snapshot[j] \in Copies
    BY <1>1, <1>4
  <2> QED
    BY <2>1, SchedulerAssumption DEF Copies, Cap
<1>12. /\ snapshot[i].running * Cap(snapshot[j]) \in Nat
       /\ snapshot[j].running * Cap(snapshot[i]) \in Nat
  BY <1>11 DEF Copies
<1>13. snapshot[i].running * Cap(snapshot[j]) <= snapshot[j].running * Cap(snapshot[i])
  BY <1>9, <1>12
<1> QED
  BY <1>3, <1>4, <1>5, <1>10, <1>13

\* No job that is given tips the balance.
LEMMA BalanceStep == BalanceInv /\ [SchedulerNext]_schedulerVars => BoundedImbalance'
<1> SUFFICES ASSUME BalanceInv, [SchedulerNext]_schedulerVars PROVE BoundedImbalance'
  OBVIOUS
<1>0. ChoiceInv /\ JobsInv /\ CountsInv /\ BoundedImbalance
  BY DEF BalanceInv
<1>f. ASSUME UNCHANGED given, heard \subseteq heard' PROVE BoundedImbalance'
  <2>1. \A w \in Workers : Assigned(w)' = Assigned(w)
    BY <1>f DEF Assigned
  <2> QED
    BY <1>0, <1>f, <2>1 DEF BoundedImbalance, Balance
<1>1. CASE UNCHANGED schedulerVars
  BY <1>f, <1>1 DEF schedulerVars
<1>2. ASSUME NEW t \in Tasks, DispatchOK(t) PROVE BoundedImbalance'
  <2>0. heard' = heard /\ sched = "dispatch"
    BY <1>2 DEF DispatchOK
  <2>1. PICK c \in Workers :
           /\ c = chosen
           /\ \A w \in Workers : Assigned(w) \in Nat
           /\ \A w \in Workers :
                 Assigned(w)' = IF w = c THEN Assigned(w) + 1 ELSE Assigned(w)
           /\ Len(batch) \in Nat /\ Len(batch) >= 1
    BY <1>0, <1>2, GivenOne
  <2>2. BatchSize \in Nat /\ \A w \in Workers : WorkerCapacity[w] \in Nat
    BY SchedulerAssumption
  <2>3. SUFFICES
           ASSUME NEW a \in Workers \ heard, NEW b \in Workers \ heard,
                  b \notin Fickle, Capabilities[a] \subseteq Capabilities[b],
                  \A z \in Workers :
                     Capabilities[z] \cap Capabilities[a] # {} => WorkerCapacity[z] > 0
           PROVE  (Assigned(a)' - BatchSize) * WorkerCapacity[b] <= Assigned(b)' * WorkerCapacity[a]
    BY <2>0 DEF BoundedImbalance, Balance
  <2>4. (Assigned(a) - BatchSize) * WorkerCapacity[b] <= Assigned(b) * WorkerCapacity[a]
    BY <1>0, <2>3 DEF BoundedImbalance, Balance
  <2>5. PICK ga \in Nat, gb \in Nat, ka \in Nat, kb \in Nat :
           ga = Assigned(a) /\ gb = Assigned(b) /\ ka = WorkerCapacity[a] /\ kb = WorkerCapacity[b]
    BY <2>1, <2>2
  <2>6. (ga - BatchSize) * kb <= gb * ka
    BY <2>4, <2>5
  <2>r. ASSUME NEW na \in Nat, NEW nb \in Nat, Assigned(a)' = na, Assigned(b)' = nb,
               (na - BatchSize) * kb <= nb * ka
        PROVE  (Assigned(a)' - BatchSize) * WorkerCapacity[b] <= Assigned(b)' * WorkerCapacity[a]
    BY <2>5, <2>r
  <2>7. CASE a = c /\ b = c
    <3>1. PICK na \in Nat : na = ga + 1
      OBVIOUS
    <3>2. ka = kb /\ Assigned(a)' = na /\ Assigned(b)' = na
      BY <2>1, <2>5, <2>7, <3>1
    <3>3. \A x \in Int : x <= na => x * kb <= na * kb
      OBVIOUS
    <3>4. na - BatchSize \in Int /\ na - BatchSize <= na
      BY <2>2
    <3>5. (na - BatchSize) * kb <= na * kb
      BY <3>3, <3>4
    <3> QED
      BY <2>r, <3>2, <3>5
  <2>8. CASE a = c /\ b # c
    <3>0. PICK na \in Nat : na = ga + 1
      OBVIOUS
    <3>1. Assigned(a)' = na /\ Assigned(b)' = gb
      BY <2>1, <2>5, <2>8, <3>0
    <3>2. PICK i \in DOMAIN snapshot, j \in DOMAIN snapshot :
             /\ snapshot[i].id = a /\ snapshot[j].id = b
             /\ snapshot[i].running * kb <= snapshot[j].running * ka
      BY <1>0, <2>0, <2>1, <2>3, <2>5, <2>8, ChosenIsLessLoaded
    <3>3. snapshot[i] \in Copies /\ snapshot[j] \in Copies
      BY <1>0 DEF ChoiceInv
    <3>4. snapshot[i].running \in Nat /\ snapshot[j].running \in Nat
      BY <3>3 DEF Copies
    <3>5. /\ running[a] = ga /\ running[b] = gb
          /\ running[a] + Len(batch) <= snapshot[i].running + BatchSize
          /\ snapshot[j].running <= running[b]
      BY <1>0, <2>0, <2>5, <3>2 DEF CountsInv
    <3>6. na <= snapshot[i].running + BatchSize /\ snapshot[j].running <= gb
      BY <2>1, <2>2, <3>0, <3>4, <3>5
    <3>7. (na - BatchSize) * kb <= gb * ka
      BY <2>2, <3>2, <3>4, <3>6, OneMore
    <3> QED
      BY <2>r, <3>1, <3>7
  <2>9. CASE a # c /\ b = c
    <3>1. Assigned(a)' = ga /\ Assigned(b)' = gb + 1
      BY <2>1, <2>5, <2>9
    <3>2. gb * ka <= (gb + 1) * ka /\ gb * ka \in Int /\ (gb + 1) * ka \in Int
      OBVIOUS
    <3>3. (ga - BatchSize) * kb \in Int
      BY <2>2
    <3> QED
      BY <2>5, <2>6, <3>1, <3>2, <3>3
  <2>10. CASE a # c /\ b # c
    BY <2>1, <2>4, <2>10
  <2> QED
    BY <2>7, <2>8, <2>9, <2>10
<1>3. ASSUME NEW t \in Tasks, PushTask(t) PROVE BoundedImbalance'
  BY <1>f, <1>3 DEF PushTask
<1>4. CASE PopBatch \/ AliveWorkers \/ BatchEnds \/ SelectFails \/ Select \/ DispatchFails
  BY <1>f, <1>4 DEF PopBatch, AliveWorkers, BatchEnds, SelectFails, Select, DispatchFails
<1>5. ASSUME NEW w \in Workers, Heartbeat(w) \/ ComesOrGoes(w) PROVE BoundedImbalance'
  BY <1>f, <1>5 DEF Heartbeat, ComesOrGoes
<1> QED
  BY <1>1, <1>2, <1>3, <1>4, <1>5 DEF SchedulerNext

\* Nothing has been given to anybody.
LEMMA BalanceInit == SchedulerInit => BalanceInv
<1> SUFFICES ASSUME SchedulerInit PROVE BalanceInv
  OBVIOUS
<1> USE DEF SchedulerInit
<1>1. ChoiceInv
  BY DEF ChoiceInv
<1>2. JobsInv
  <2>1. \A t \in Tasks : Occ(<<>>, t) = 0 /\ Used(t) = 0
    <3>1. <<>> \in Seq(Tasks)
      OBVIOUS
    <3> QED
      BY <3>1, OccType DEF Used
  <2>2. \A t \in Tasks : Occ(readyQueue, t) + Occ(batch, t) + Used(t) <= 1
    BY <2>1
  <2>3. Len(batch) <= BatchSize
    BY SchedulerAssumption
  <2> QED
    BY <2>2, <2>3 DEF JobsInv
<1>3. \A w \in Workers : Assigned(w) = 0
  <2> SUFFICES ASSUME NEW w \in Workers PROVE Assigned(w) = 0
    OBVIOUS
  <2>1. {t \in Tasks : given[t] = w} = {}
    BY SchedulerAssumption
  <2> QED
    BY <2>1, FS_EmptySet DEF Assigned
<1>4. CountsInv
  BY <1>3 DEF CountsInv
<1>5. BoundedImbalance
  <2> SUFFICES ASSUME NEW a \in Workers, NEW b \in Workers
               PROVE  (Assigned(a) - BatchSize) * WorkerCapacity[b]
                         <= Assigned(b) * WorkerCapacity[a]
    BY DEF BoundedImbalance, Balance
  <2>1. PICK ka \in Nat, kb \in Nat, n \in Nat :
           ka = WorkerCapacity[a] /\ kb = WorkerCapacity[b] /\ n = BatchSize
    BY SchedulerAssumption
  <2>2. (0 - n) * kb <= 0 /\ 0 * ka = 0
    OBVIOUS
  <2> QED
    BY <1>3, <2>1, <2>2
<1> QED
  BY <1>1, <1>2, <1>4, <1>5 DEF BalanceInv

\* However many jobs, workers and batches there are, and whatever calls fail,
\* no worker gets ahead of its share by more than a batch.
THEOREM BoundedImbalanceCorrect == SchedulerSpec => []BoundedImbalance
<1>1. SchedulerInit => BalanceInv
  BY BalanceInit
<1>2. BalanceInv /\ [SchedulerNext]_schedulerVars => BalanceInv'
  <2>1. BalanceInv => ChoiceInv /\ JobsInv /\ CountsInv
    BY DEF BalanceInv
  <2> QED
    BY <2>1, ChoiceStep, JobsStep, CountsStep, BalanceStep DEF BalanceInv
<1>3. BalanceInv => BoundedImbalance
  BY DEF BalanceInv
<1> QED
  BY <1>1, <1>2, <1>3, PTL DEF SchedulerSpec

-----------------------------------------------------------------------------
\* The mutexes.

\* The places of the death hook; only the checker goes there.
HookPlace == {"dead", "closing", "reassign", "reassigning"}

\* The inductive invariant: the types, and that nobody but the checker is in
\* the hook.
LockInv ==
    /\ LockTypeOK
    /\ \A g \in Goroutines : pc[g] \in HookPlace => g = Checker

USE DEF HoldsC, HoldsE, WritesR, ReadsR, WaitsW, LockPlace, HookPlace

\* A step of a goroutine between two places that are both known and of which
\* the new one is not in the hook, or the goroutine is the checker, keeps LockInv.
LEMMA MoveKeepsLocks ==
    ASSUME LockInv, NEW g \in Goroutines, NEW p \in LockPlace,
           pc' = [pc EXCEPT ![g] = p],
           p \in HookPlace => g = Checker,
           about' \in [Goroutines -> WorkerIDs],
           conns' \subseteq WorkerIDs
    PROVE  LockInv'
BY DEF LockInv, LockTypeOK

\* Every step keeps the invariant.
LEMMA LockStep == LockInv /\ [LockNext]_lockVars => LockInv'
<1> SUFFICES ASSUME LockInv, [LockNext]_lockVars PROVE LockInv'
    OBVIOUS
<1>0. /\ about \in [Goroutines -> WorkerIDs] /\ conns \subseteq WorkerIDs
      /\ Checker \in Goroutines
    BY DEF LockInv, LockTypeOK, Goroutines
<1>1. CASE UNCHANGED lockVars
    BY <1>1 DEF LockInv, LockTypeOK, lockVars
<1>2. ASSUME NEW g \in Goroutines, EngineCall(g) \/ Snapshot(g) PROVE LockInv'
    BY <1>0, <1>2, MoveKeepsLocks DEF EngineCall, Snapshot, Go
<1>3. ASSUME NEW g \in Goroutines, NEW k \in WorkerIDs, CallWorker(g, k) \/ RegistryCall(g, k)
      PROVE  LockInv'
    BY <1>0, <1>3, MoveKeepsLocks DEF CallWorker, RegistryCall, Begins, Go
<1>4. ASSUME NEW g \in Goroutines, Step(g) PROVE LockInv'
  <2>1. CASE LockC(g) \/ Cached(g) \/ AddressOf(g)
      BY <1>0, <2>1, MoveKeepsLocks DEF LockC, Cached, AddressOf, Go
  <2>2. CASE Dialled(g)
    <3>1. conns' \subseteq WorkerIDs /\ about' \in [Goroutines -> WorkerIDs]
        BY <1>0, <2>2 DEF Dialled
    <3> QED BY <2>2, <3>1, MoveKeepsLocks DEF Dialled, Go
  <2>3. CASE Called(g) \/ SnapshotTaken(g)
      BY <1>0, <2>3, MoveKeepsLocks DEF Called, SnapshotTaken, Go
  <2>4. CASE LockE(g) \/ UnlockE(g)
      BY <1>0, <2>4, MoveKeepsLocks DEF LockE, UnlockE, Go
  <2>5. CASE LockR(g) \/ UnlockR(g)
      BY <1>0, <2>5, MoveKeepsLocks DEF LockR, UnlockR, Go
  <2> QED BY <1>4, <2>1, <2>2, <2>3, <2>4, <2>5 DEF Step
<1>5. CASE HookStep
  <2>1. CASE MarkDead \/ CloseConn \/ Reassign \/ Reassigned
      BY <1>0, <2>1, MoveKeepsLocks DEF MarkDead, CloseConn, Reassign, Reassigned, Go
  <2>2. CASE Closed
    <3>1. conns' \subseteq WorkerIDs /\ about' \in [Goroutines -> WorkerIDs]
        BY <1>0, <2>2 DEF Closed
    <3> QED BY <1>0, <2>2, <3>1, MoveKeepsLocks DEF Closed, Go
  <2> QED BY <1>5, <2>1, <2>2 DEF HookStep
<1> QED BY <1>1, <1>2, <1>3, <1>4, <1>5 DEF LockNext

\* The goroutines stay where the code can be (the types of LockOrder).
THEOREM LockTypeCorrect == LockSpec => []LockTypeOK
<1>1. LockInit => LockInv
    BY DEF LockInit, LockInv, LockTypeOK
<1>2. LockInv => LockTypeOK
    BY DEF LockInv
<1> QED BY <1>1, <1>2, LockStep, PTL DEF LockSpec

\* Where nobody can go on, the checker and a dialling caller wait for each
\* other: an owner of the engine's mutex, a reader and the closing of a
\* connection are never blocked, which leaves the two.
LEMMA StandstillIsInversion == LockInv => OnlyInversion
<1> SUFFICES ASSUME LockInv, Working # {}, \A g \in Working : Blocked(g)
             PROVE  /\ pc[Checker] = "dead"
                    /\ \E g \in Working : pc[g] = "dialling" /\ about[g] \notin conns
    BY DEF OnlyInversion
<1>1. FreeE
    BY DEF FreeE, In, Working, Blocked
<1>2. \A g \in Goroutines : pc[g] \in WritesR => g = Checker /\ pc[g] = "dead"
    BY <1>1 DEF LockInv, Working, Blocked
<1>3. \A g \in Goroutines : pc[g] \notin ReadsR
    BY DEF Working, Blocked
<1>4. \A g \in Goroutines : pc[g] \in HoldsC => pc[g] = "dialling" /\ about[g] \notin conns
    BY DEF Working, Blocked
<1>5. ~FreeR => pc[Checker] = "dead"
    BY <1>2, <1>3 DEF FreeR, In
<1>6. ~OpenR => pc[Checker] = "dead"
    BY <1>2, <1>5 DEF OpenR, In, Working, Blocked
<1>7. ~FreeC => \E g \in Working : pc[g] = "dialling" /\ about[g] \notin conns
    BY <1>4 DEF FreeC, In, Working
<1>8. ~FreeC => pc[Checker] = "dead"
    BY <1>4, <1>6 DEF FreeC, In, Working, Blocked
<1>9. pc[Checker] = "dead" => ~FreeC
    BY DEF Working, Blocked, Goroutines
<1>10. PICK g \in Working : Blocked(g)
    OBVIOUS
<1> QED BY <1>1, <1>5, <1>6, <1>7, <1>8, <1>9, <1>10 DEF Blocked

\* The control plane can come to a standstill only through the hook that closes
\* a connection while it holds the registry's mutex (updateWorkerStatus and
\* getOrDial); the engine's mutex is never part of it.
THEOREM OnlyInversionCorrect == LockSpec => []OnlyInversion
<1>1. LockInit => LockInv
    BY DEF LockInit, LockInv, LockTypeOK
<1> QED BY <1>1, LockStep, StandstillIsInversion, PTL DEF LockSpec

=============================================================================
