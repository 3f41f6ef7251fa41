------------------------------ MODULE Registry ------------------------------
(***************************************************************************)
(* The worker registry over its retry queue, and the workers' side of the  *)
(* protocol: Register, Heartbeat and the dead man's switch checkHeartbeat, *)
(* with the queue as it is implemented.  (Module Orchestrator has the      *)
(* queue as one flag per worker and the tasks that depend on the verdict.) *)
(*                                                                         *)
(* Calls fail before or after they had their effect, workers crash, and    *)
(* the control plane, which keeps nothing on disk, restarts.  A worker     *)
(* that is started again has a new id: it is another member of Keys.       *)
(***************************************************************************)
EXTENDS RetryQueue

CONSTANTS
    Unreliable,    \* workers whose calls may fail or be late, and which crash
    MaxTriggers,   \* bound: triggers of one key in the queue
    MaxRestarts    \* bound: restarts of the control plane

ASSUME RegistryAssumption ==
    /\ Unreliable \subseteq Keys
    /\ MaxTriggers \in Nat \ {0} /\ MaxRestarts \in Nat

VARIABLES
    node,      \* node[w]: the worker's status in the registry, or absent
    fresh,     \* workers whose last heartbeat is within the grace period
    verdict,   \* what checkHeartbeat has found and not yet written
    pushing,   \* Register handlers between the registry's lock and Push
    link,      \* link[w]: the worker process and its heartbeat loop
    died,      \* workers declared DEAD since the control plane started
    restarts

registryVars == <<node, fresh, verdict, pushing, died>>
vars == <<queueVars, registryVars, link, restarts>>

Verdict == {"none", "stale", "ALIVE", "SUSPECT", "DEAD"}

TypeOK ==
    /\ QueueTypeOK
    /\ node \in [Keys -> {"absent", "ALIVE", "SUSPECT", "DEAD"}]
    /\ fresh \subseteq Keys /\ pushing \subseteq Keys /\ died \subseteq Keys
    /\ verdict \in Verdict /\ (verdict # "none" => loop = "do")
    /\ link \in [Keys -> {"starting", "serving", "registering", "suspended", "down"}]
    /\ restarts \in 0..MaxRestarts

Init ==
    /\ QueueInit
    /\ node = [w \in Keys |-> "absent"]
    /\ fresh = {} /\ pushing = {} /\ died = {}
    /\ verdict = "none"
    /\ link = [w \in Keys |-> "starting"]
    /\ restarts = 0

Known(w) == node[w] # "absent"
Calls(w) == link[w] \in {"starting", "registering"}
\* A failed Register ends a process that is starting (main panics).
Failed(w) == IF link[w] \in {"starting", "down"} THEN "down" ELSE "suspended"

-----------------------------------------------------------------------------
\* Register: the worker's entry first, the trigger afterwards.

RegisterStores(w) ==
    /\ Calls(w) /\ w \notin pushing /\ Triggers(w) < MaxTriggers
    /\ node' = [node EXCEPT ![w] = "ALIVE"]
    /\ fresh' = fresh \cup {w}
    /\ pushing' = pushing \cup {w}
    /\ UNCHANGED <<queueVars, verdict, died, link, restarts>>

\* The answer reaches the worker, or it does not.
RegisterPushes(w) ==
    /\ w \in pushing
    /\ pushing' = pushing \ {w}
    /\ Push(w)
    /\ \/ link[w] # "down" /\ link' = [link EXCEPT ![w] = "serving"]
       \/ w \in Unreliable /\ link' = [link EXCEPT ![w] = Failed(w)]
    /\ UNCHANGED <<node, fresh, verdict, died, restarts>>

RegisterFails(w) ==
    /\ w \in Unreliable /\ Calls(w) /\ w \notin pushing
    /\ link' = [link EXCEPT ![w] = Failed(w)]
    /\ UNCHANGED <<queueVars, registryVars, restarts>>

\* sendHeartbeat.  An acknowledged heartbeat changes nothing at the worker: it
\* leaves suspended as it is.
Heartbeat(w) ==
    /\ link[w] \in {"serving", "suspended"} /\ Known(w)
    /\ node' = [node EXCEPT ![w] = "ALIVE"]
    /\ fresh' = fresh \cup {w}
    /\ UNCHANGED <<queueVars, verdict, pushing, died, link, restarts>>

\* The network fails, or the registry does not know the worker: the worker
\* suspends itself and calls Register.
HeartbeatFails_OnlyNetwork(w) ==
    /\ link[w] \in {"serving", "suspended"} /\ Known(w)
    /\ link' = [link EXCEPT ![w] = "registering"]
    /\ UNCHANGED <<queueVars, registryVars, restarts>>
HeartbeatFails(w) ==
    /\ link[w] \in {"serving", "suspended"}
    /\ w \in Unreliable \/ ~Known(w)
    /\ link' = [link EXCEPT ![w] = "registering"]
    /\ UNCHANGED <<queueVars, registryVars, restarts>>

GraceExpires(w) ==
    /\ w \in fresh \cap Unreliable
    /\ fresh' = fresh \ {w}
    /\ UNCHANGED <<queueVars, node, verdict, pushing, died, link, restarts>>

-----------------------------------------------------------------------------
\* checkHeartbeat reads the heartbeat, then the status, without the lock, and
\* takes the lock to write: calls of the worker may come in between.

CheckReads ==
    /\ loop = "do" /\ verdict = "none"
    /\ IF node[hand] \in {"absent", "DEAD"}
       THEN Answers(FALSE) /\ UNCHANGED verdict
       ELSE /\ verdict' = IF hand \in fresh THEN "ALIVE" ELSE "stale"
            /\ UNCHANGED queueVars
    /\ UNCHANGED <<node, fresh, pushing, died, link, restarts>>

StatusRead_NeverDead ==
    /\ verdict = "stale"
    /\ verdict' = "SUSPECT"
    /\ UNCHANGED <<queueVars, node, fresh, pushing, died, link, restarts>>
StatusRead ==
    /\ verdict = "stale"
    /\ verdict' = IF node[hand] = "ALIVE" THEN "SUSPECT" ELSE "DEAD"
    /\ UNCHANGED <<queueVars, node, fresh, pushing, died, link, restarts>>

\* updateWorkerStatus; the hooks are module Orchestrator's.
StatusWritten ==
    /\ verdict \in {"ALIVE", "SUSPECT", "DEAD"}
    /\ node' = [node EXCEPT ![hand] = verdict]
    /\ died' = IF verdict = "DEAD" THEN died \cup {hand} ELSE died
    /\ Answers(verdict # "DEAD")
    /\ verdict' = "none"
    /\ UNCHANGED <<fresh, pushing, link, restarts>>

RunLoop ==
    (LoopTakes \/ LoopCancels \/ LoopRequeues)
        /\ UNCHANGED <<registryVars, link, restarts>>

-----------------------------------------------------------------------------
Crash(w) ==
    /\ w \in Unreliable /\ link[w] \notin {"starting", "down"}
    /\ link' = [link EXCEPT ![w] = "down"]
    /\ UNCHANGED <<queueVars, registryVars, restarts>>

\* Everything the control plane knew is gone; calls under way fail.
Restart ==
    /\ restarts < MaxRestarts
    /\ restarts' = restarts + 1
    /\ list' = <<>> /\ active' = {} /\ due' = {}
    /\ hand' = NoKey /\ loop' = "top" /\ again' = FALSE
    /\ node' = [w \in Keys |-> "absent"]
    /\ fresh' = {} /\ pushing' = {} /\ died' = {} /\ verdict' = "none"
    /\ link' = [w \in Keys |-> IF w \in pushing THEN Failed(w) ELSE link[w]]

Turn(w) == TurnComes(w) /\ UNCHANGED <<registryVars, link, restarts>>

Next ==
    \/ \E w \in Keys : \/ RegisterStores(w) \/ RegisterPushes(w) \/ RegisterFails(w)
                       \/ Heartbeat(w) \/ HeartbeatFails(w) \/ GraceExpires(w)
                       \/ Turn(w) \/ Crash(w)
    \/ CheckReads \/ StatusRead \/ StatusWritten \/ RunLoop \/ Restart

\* RunLoop's goroutine runs (its list is first in, first out: nothing more is
\* asked for), time passes, a process that is up sends its heartbeats, handlers
\* end, and not every Register fails.
Fairness ==
    /\ WF_vars(RunLoop) /\ WF_vars(CheckReads) /\ WF_vars(StatusRead)
    /\ WF_vars(StatusWritten)
    /\ \A w \in Keys : /\ WF_vars(Turn(w))
                       /\ WF_vars(GraceExpires(w) /\ link[w] = "down")
                       /\ WF_vars(HeartbeatFails(w) /\ ~Known(w))
                       /\ SF_vars(RegisterStores(w)) /\ WF_vars(RegisterPushes(w))

Spec == Init /\ [][Next]_vars /\ Fairness

-----------------------------------------------------------------------------
\* A key in the map has a trigger, in the list or with the loop: otherwise
\* Push would never enqueue one again and nobody would check the worker.
ActiveHasTrigger == \A w \in active : Triggers(w) > 0

\* A registered worker that has not been declared dead is watched by exactly
\* one trigger (registry.go: "a second registration starts no second parallel
\* trigger").  After a verdict DEAD both halves fail: a heartbeat revives the
\* worker without a trigger, and a Register between Cancel and the second
\* look at the map leaves two.
OneTriggerUntilDead ==
    \A w \in Keys :
        Known(w) /\ w \notin died /\ w \notin pushing =>
            w \in active /\ Triggers(w) = 1

\* The death of a worker that has not been declared dead before is noticed,
\* whatever its heartbeats, registrations and the other workers do meanwhile.
DeathNoticed ==
    \A w \in Keys :
        link[w] = "down" /\ Known(w) /\ w \notin died
            ~> w \in died \/ ~Known(w)

\* After a restart of the control plane every worker process becomes known to
\* it again by its own heartbeats, suspended or not.
RecoversFromRestart ==
    \A w \in Keys :
        link[w] \in {"serving", "suspended"} /\ ~Known(w) ~> Known(w) \/ link[w] = "down"

\* The retry queue with its list, its map and its two looks at the map is a
\* set of watched keys none of which is passed over for ever.
Watch == INSTANCE WatchSet WITH
            watched  <- active,
            checking <- IF loop \in {"do", "cancel"} THEN hand ELSE NoKey
WatchSpec == Watch!Spec

=============================================================================
