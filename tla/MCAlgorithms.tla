---------------------------- MODULE MCAlgorithms -----------------------------
(***************************************************************************)
(* The two sequential algorithms of the control plane, the validation of   *)
(* module NewWorkflow and the cascade of module CancelDownstream, each for *)
(* all of its inputs: in a behaviour one of them runs, and the other is at *)
(* its end for the simplest input.                                         *)
(*                                                                         *)
(* Inputs of the validation are every graph over three named tasks, the    *)
(* nearly acyclic ones over four, names nobody has, duplicate names and    *)
(* IDs, and the empty workflow.                                            *)
(***************************************************************************)
EXTENDS NewWorkflow, CancelDownstream

CONSTANTS x, y   \* IDs a caller may give

Declare(i, name, names) == [id |-> i, name |-> name, deps |-> names]
Name == {"a", "b", "c"}

\* All directed graphs over three tasks, loops included.
AllGraphs ==
    { <<Declare(NoID, "a", p), Declare(NoID, "b", q), Declare(NoID, "c", r)>> :
        p, q, r \in SUBSET Name }

\* The second task names one that does not exist, with or without a cycle.
Dangling ==
    { <<Declare(NoID, "a", p), Declare(NoID, "b", {"z"} \cup q)>> :
        p, q \in SUBSET {"a", "b"} }

\* Names and IDs in every pattern of repetition.
Repeated ==
    { <<Declare(i, m, {}), Declare(j, n, {"a"}), Declare(k, "c", {"b"})>> :
        i, j, k \in {NoID, x, y}, m, n \in Name }

\* Four tasks: every acyclic graph with at most one edge more.
Edges == {<<"b", "a">>, <<"c", "a">>, <<"c", "b">>,
          <<"d", "a">>, <<"d", "b">>, <<"d", "c">>}
Four  == {"a", "b", "c", "d"}
Deps(E, n) == {m \in Four : <<n, m>> \in E}
NearlyAcyclic ==
    { <<Declare(NoID, "a", Deps(E \cup e, "a")), Declare(NoID, "b", Deps(E \cup e, "b")),
        Declare(NoID, "c", Deps(E \cup e, "c")), Declare(NoID, "d", Deps(E \cup e, "d"))>> :
        E \in SUBSET Edges, e \in {{}} \cup {{p} : p \in Four \X Four} }

MCDeclarations ==
    {<<>>} \cup AllGraphs \cup NearlyAcyclic \cup Dangling \cup Repeated

-----------------------------------------------------------------------------
\* The empty workflow has been accepted.
EmptyAccepted ==
    /\ tasks = <<>> /\ phase = "accepted" /\ next = 1 /\ todo = {}
    /\ byID = <<>> /\ dependsOn = <<>> /\ colors = <<>> /\ stack = <<>>

\* Task 1 has failed and nobody waits for it.
NobodyWaits ==
    /\ deps = [t \in Task |-> {}] /\ rootID = 1 /\ id = 1
    /\ before = [t \in Task |-> IF t = 1 THEN "FAILED" ELSE "READY"] /\ st = before
    /\ queue = <<>> /\ unvisited = {} /\ running = <<>>

Validating == Next /\ UNCHANGED cascadeVars
Cascading  == CascadeNext /\ UNCHANGED vars

MCInit == (Init /\ NobodyWaits) \/ (CascadeInit /\ EmptyAccepted)
MCNext == Validating \/ Cascading
MCVars == <<vars, cascadeVars>>
MCSpec == MCInit /\ [][MCNext]_MCVars /\ WF_MCVars(Validating) /\ WF_MCVars(Cascading)
=============================================================================
