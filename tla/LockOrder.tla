----------------------------- MODULE LockOrder -----------------------------
(***************************************************************************)
(* The mutexes of the control plane and the order in which its goroutines  *)
(* take them:                                                              *)
(*   r  WorkerRegistry.mu, a RWMutex       c  GRPCWorkerClient.mu          *)
(*   e  WorkflowEngine.mu                                                  *)
(* The other modules let each critical section be one atomic step.  Here   *)
(* only entering and leaving the sections matters.  The mutexes of the     *)
(* ready queue, of the retry queue and of the event bus are left out:      *)
(* nothing is called while they are held, and no holder of one waits.      *)
(***************************************************************************)
EXTENDS Naturals, FiniteSets

CONSTANTS
    WorkerIDs,    \* registered workers
    Scheduler,  \* the scheduler's goroutine
    Checker,    \* the goroutine of the registry's retry queue
    Cancellers, \* goroutines of notifyWorkersOfCancellation, one CancelTasks call each
    Handlers    \* goroutines that serve a call of a worker or a client

ASSUME GoroutineAssumption ==
    /\ Checker # Scheduler
    /\ Checker \notin Cancellers \cup Handlers
    /\ Scheduler \notin Cancellers \cup Handlers
    /\ Cancellers \cap Handlers = {}

Goroutines == {Scheduler, Checker} \cup Cancellers \cup Handlers

VARIABLES
    pc,      \* where each goroutine is
    about,   \* the worker its call is about
    conns    \* workers with a connection in GRPCWorkerClient.conns

lockVars == <<pc, about, conns>>

\* Mutant: OnTaskDispatched calls IncrementRunning before it unlocks.
HoldsE_WhileCounting == {"engine", "write", "reassigning"}

\* Who holds what, read off the places.
HoldsC  == {"dialling", "address", "closing"}
HoldsE  == {"engine", "reassigning"}
WritesR == {"writing", "dead", "closing", "reassign", "reassigning"}
ReadsR  == {"address", "snapshot"}
WaitsW  == {"write"}   \* a writer that waits holds new readers back

In(S) == {g \in Goroutines : pc[g] \in S}
FreeC == In(HoldsC) = {}
FreeE == In(HoldsE) = {}
FreeR == In(WritesR \cup ReadsR) = {}   \* a writer may enter
OpenR == In(WritesR \cup WaitsW) = {}   \* a reader may enter

LockInit ==
    /\ pc = [g \in Goroutines |-> "idle"]
    /\ about \in [Goroutines -> WorkerIDs]
    /\ conns = {}

Go(g, from, to) == pc[g] = from /\ pc' = [pc EXCEPT ![g] = to]

Begins(g, k, to) ==
    /\ Go(g, "idle", to)
    /\ about' = [about EXCEPT ![g] = k]
    /\ UNCHANGED conns

\* The scheduler reads the live workers, the checker the worker it checks.
Snapshot(g) ==
    /\ g \in {Scheduler, Checker} /\ OpenR
    /\ Go(g, "idle", "snapshot") /\ UNCHANGED <<about, conns>>
SnapshotTaken(g) == Go(g, "snapshot", "idle") /\ UNCHANGED <<about, conns>>

\* Dispatch or CancelTasks to worker k; getOrDial takes c.
CallWorker(g, k) == g \in {Scheduler} \cup Cancellers /\ Begins(g, k, "dial")
LockC(g) == FreeC /\ Go(g, "dial", "dialling") /\ UNCHANGED <<about, conns>>

\* getOrDial finds a connection, or asks the registry for the address first.
\* The call itself runs without a lock; the scheduler then enters the engine.
Cached(g) ==
    /\ about[g] \in conns
    /\ Go(g, "dialling", "call") /\ UNCHANGED <<about, conns>>
AddressOf(g) ==
    /\ about[g] \notin conns /\ OpenR
    /\ Go(g, "dialling", "address") /\ UNCHANGED <<about, conns>>
Dialled(g) ==
    /\ Go(g, "address", "call")
    /\ conns' = conns \cup {about[g]} /\ UNCHANGED about
Called(g) ==
    /\ Go(g, "call", IF g = Scheduler THEN "enter" ELSE "idle")
    /\ UNCHANGED <<about, conns>>

\* A section under e: OnTaskDispatched, a report, a submission, a cancellation.
EngineCall(g) == g \in Handlers /\ Go(g, "idle", "enter") /\ UNCHANGED <<about, conns>>
LockE(g) == FreeE /\ Go(g, "enter", "engine") /\ UNCHANGED <<about, conns>>
\* The scheduler goes on to IncrementRunning, the others are done.
UnlockE(g) ==
    /\ Go(g, "engine", IF g = Scheduler THEN "write" ELSE "idle")
    /\ UNCHANGED <<about, conns>>

\* A section under r: Register, Heartbeat, IncrementRunning, and the check.
RegistryCall(g, k) == g \in Handlers \cup {Checker} /\ Begins(g, k, "write")
LockR(g) == FreeR /\ Go(g, "write", "writing") /\ UNCHANGED <<about, conns>>
UnlockR(g) == Go(g, "writing", "idle") /\ UNCHANGED <<about, conns>>

\* updateWorkerStatus with DEAD runs the hook while r is held: CloseConn, then
\* ReassignDeadWorkerTasks.
MarkDead == Go(Checker, "writing", "dead") /\ UNCHANGED <<about, conns>>
CloseConn == FreeC /\ Go(Checker, "dead", "closing") /\ UNCHANGED <<about, conns>>
Closed ==
    /\ Go(Checker, "closing", "reassign")
    /\ conns' = conns \ {about[Checker]} /\ UNCHANGED about
Reassign == FreeE /\ Go(Checker, "reassign", "reassigning") /\ UNCHANGED <<about, conns>>
Reassigned == Go(Checker, "reassigning", "idle") /\ UNCHANGED <<about, conns>>

Step(g) ==
    \/ LockC(g) \/ Cached(g) \/ AddressOf(g) \/ Dialled(g) \/ Called(g)
    \/ LockE(g) \/ UnlockE(g) \/ LockR(g) \/ UnlockR(g) \/ SnapshotTaken(g)

HookStep == MarkDead \/ CloseConn \/ Closed \/ Reassign \/ Reassigned

LockNext ==
    \/ \E g \in Goroutines :
          \/ EngineCall(g) \/ Snapshot(g) \/ Step(g)
          \/ \E k \in WorkerIDs : CallWorker(g, k) \/ RegistryCall(g, k)
    \/ HookStep

\* Mutexes are handed out fairly and critical sections end.
LockSpec == /\ LockInit /\ [][LockNext]_lockVars
        /\ \A g \in Goroutines : SF_lockVars(Step(g))
        /\ SF_lockVars(HookStep)

-----------------------------------------------------------------------------
\* Properties.

LockPlace == HoldsC \cup HoldsE \cup WritesR \cup ReadsR \cup WaitsW
             \cup {"idle", "dial", "call", "enter"}

LockTypeOK ==
    /\ pc \in [Goroutines -> LockPlace]
    /\ about \in [Goroutines -> WorkerIDs]
    /\ conns \subseteq WorkerIDs

\* g waits for a mutex that somebody has.
Blocked(g) ==
    \/ pc[g] = "dial" /\ ~FreeC
    \/ pc[g] = "dialling" /\ about[g] \notin conns /\ ~OpenR
    \/ pc[g] = "enter" /\ ~FreeE
    \/ pc[g] = "write" /\ ~FreeR
    \/ pc[g] = "dead" /\ ~FreeC
    \/ pc[g] = "reassign" /\ ~FreeE

Working == {g \in Goroutines : pc[g] # "idle"}

\* There is one way to a standstill only: the check has found a worker dead and
\* waits in CloseConn for c, whose owner is dialling and waits in AddressOf for
\* r.  The engine's mutex, which both the hook and the scheduler's callback
\* take, never closes a circle.
OnlyInversion ==
    Working # {} /\ (\A g \in Working : Blocked(g)) =>
        /\ pc[Checker] = "dead"
        /\ \E g \in Working : pc[g] = "dialling" /\ about[g] \notin conns

\* docs/task.md, stage 3: any worker may be switched off at any moment and the
\* workflow still ends; so every call into the control plane comes back.  The
\* code takes c under r in the hook, and r under c in getOrDial.
EveryCallReturns ==
    \A g \in Goroutines : (pc[g] # "idle") ~> (pc[g] = "idle")

=============================================================================
