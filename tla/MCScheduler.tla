---------------------------- MODULE MCScheduler -----------------------------
(***************************************************************************)
(* Two shell workers, of capacities 2 and 1, of which the larger comes and *)
(* goes; three shell jobs and one of a type that no worker has.  The other *)
(* two instances: two equal workers and two jobs; a third worker that has  *)
(* no capacity in its configuration.                                       *)
(***************************************************************************)
EXTENDS Scheduler

CONSTANTS big, small, zero, j1, j2, j3, j4

MCWorkers == {big, small}
MCCapacity == (big :> 2) @@ (small :> 1)
ZeroCapacity == MCCapacity @@ (zero :> 0)
EqualCapacity == [w \in MCWorkers |-> 100]
MCCapabilities == [w \in {big, small, zero} |-> {"shell"}]
MCTasks == {j1, j2, j3, j4}
MCTypeOf == (j1 :> "shell") @@ (j2 :> "shell") @@ (j3 :> "shell") @@ (j4 :> "http")
ShellJobs == {j1, j2}
=============================================================================
