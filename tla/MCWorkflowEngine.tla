-------------------------- MODULE MCWorkflowEngine --------------------------
(***************************************************************************)
(* An instance of WorkflowEngine for TLC.  In wf1 the task c joins the     *)
(* branches a and b, d waits for c, and b is therefore independent of a    *)
(* failure of a; wf2 has the one task e; wf3 has no task at all.           *)
(***************************************************************************)
EXTENDS WorkflowEngine, TLC

CONSTANTS wf1, wf2, wf3, a, b, c, d, e, k1, k2

MCWorkflows  == {wf1, wf2, wf3}
MCTasks      == {a, b, c, d, e}
MCWorkflowOf == [t \in MCTasks |-> IF t = e THEN wf2 ELSE wf1]
MCDependsOn  == [t \in MCTasks |-> CASE t = c -> {a, b}
                                     [] t = d -> {c}
                                     [] OTHER -> {}]
MCWorkers    == {k1, k2}

\* Workers are interchangeable: nothing in the engine tells them apart.
Symmetry     == Permutations(MCWorkers)
=============================================================================
