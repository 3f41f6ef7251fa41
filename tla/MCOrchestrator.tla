--------------------------- MODULE MCOrchestrator ---------------------------
(***************************************************************************)
(* Instances of Orchestrator for TLC: one workflow of two or three tasks   *)
(* and one or two workers.                                                 *)
(***************************************************************************)
EXTENDS Orchestrator

CONSTANTS wf, a, b, c, k1, k2

OneWorkflow == {wf}
OneTask     == {a}
TwoTasks    == {a, b}
ThreeTasks  == {a, b, c}
InWorkflow  == [t \in Tasks |-> wf]

\* b waits for a; nobody waits; c waits for a and b.
Chain       == [t \in Tasks |-> IF t = b THEN {a} ELSE {}]
Parallel    == [t \in Tasks |-> {}]
Join        == [t \in Tasks |-> IF t = c THEN {a, b} ELSE {}]

OneWorker   == {k1}
TwoWorkers  == {k1, k2}
NoWorkers   == {}

\* Workers are interchangeable where the environment treats them alike.
Symmetry    == Permutations(TwoWorkers)
=============================================================================
