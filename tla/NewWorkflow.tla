----------------------------- MODULE NewWorkflow -----------------------------
(***************************************************************************)
(* domain.NewWorkflow: what a client declares becomes a workflow or is     *)
(* refused.  The function checks the names and IDs of the declared tasks,  *)
(* replaces in DependsOn the names by IDs (resolveDependencies) and looks  *)
(* for a cycle with a three-coloured depth-first search from every task    *)
(* (validateTasksCycle, hasCycle).  The recursion is an explicit stack;    *)
(* the maps are visited in any order, and so is each DependsOn list: lists *)
(* in every order are among the inputs.                                    *)
(*                                                                         *)
(* The engine relies on the result: its GraphAssumption is the property    *)
(* AcceptedIsDAG of this module.                                           *)
(***************************************************************************)
EXTENDS Naturals, Sequences, FiniteSets

CONSTANTS
    Declarations,   \* the inputs: sequences of [id, name, deps] records
    NoID            \* the empty Task.ID

\* deps is a set of names.  An ID given by the caller is never a fresh one.
ASSUME DeclarationsAssumption ==
    \A decl \in Declarations :
        /\ Len(decl) \in Nat /\ DOMAIN decl = 1..Len(decl)
        /\ \A i \in DOMAIN decl : DOMAIN decl[i] = {"id", "name", "deps"}

VARIABLES
    tasks,      \* the argument
    phase,      \* "index", "resolve", "validate", then "accepted" or "rejected"
    next,       \* index: the position the loop has reached
    byID,       \* keys of tasksMapByID, with the position of the task
    todo,       \* resolve, validate: tasks the range over the map has not reached
    dependsOn,  \* DependsOn of the resolved tasks: sets of IDs
    colors,     \* "white", "gray" or "black", by ID
    stack       \* calls of hasCycle: the task and the dependencies still to see

vars == <<tasks, phase, next, byID, todo, dependsOn, colors, stack>>

\* A task without an ID gets a fresh one, uuid.NewString: its position.
IDOf(i) == IF tasks[i].id = NoID THEN <<"uuid", i>> ELSE tasks[i].id
NameOf(id) == tasks[byID[id]].name

Init ==
    /\ tasks \in Declarations
    /\ phase = "index"
    /\ next = 1
    /\ byID = <<>>
    /\ todo = {}
    /\ dependsOn = <<>>
    /\ colors = <<>>
    /\ stack = <<>>

Reject ==
    /\ phase' = "rejected"
    /\ UNCHANGED <<tasks, next, byID, todo, dependsOn, colors, stack>>

\* f with the value v at x.
With(f, x, v) == [y \in DOMAIN f \cup {x} |-> IF y = x THEN v ELSE f[y]]

-----------------------------------------------------------------------------
\* The loop over the declared tasks.

Duplicate == \E id \in DOMAIN byID : id = IDOf(next) \/ NameOf(id) = tasks[next].name

IndexTask ==
    /\ phase = "index" /\ next <= Len(tasks) /\ ~Duplicate
    /\ byID' = With(byID, IDOf(next), next)
    /\ next' = next + 1
    /\ UNCHANGED <<tasks, phase, todo, dependsOn, colors, stack>>

DuplicateTask ==
    /\ phase = "index" /\ next <= Len(tasks) /\ Duplicate
    /\ Reject

IndexDone ==
    /\ phase = "index" /\ next > Len(tasks)
    /\ phase' = "resolve"
    /\ todo' = DOMAIN byID
    /\ UNCHANGED <<tasks, next, byID, dependsOn, colors, stack>>

-----------------------------------------------------------------------------
\* resolveDependencies.

Known(id) == tasks[byID[id]].deps \subseteq {NameOf(d) : d \in DOMAIN byID}

ResolveTask(id) ==
    /\ phase = "resolve" /\ id \in todo /\ Known(id)
    /\ dependsOn' = With(dependsOn, id,
                         {d \in DOMAIN byID : NameOf(d) \in tasks[byID[id]].deps})
    /\ todo' = todo \ {id}
    /\ UNCHANGED <<tasks, phase, next, byID, colors, stack>>

UnknownDependency(id) ==
    /\ phase = "resolve" /\ id \in todo /\ ~Known(id)
    /\ Reject

ResolveDone ==
    /\ phase = "resolve" /\ todo = {}
    /\ phase' = "validate"
    /\ todo' = DOMAIN byID
    /\ UNCHANGED <<tasks, next, byID, dependsOn, colors, stack>>

-----------------------------------------------------------------------------
\* validateTasksCycle and hasCycle.

Call(id) == Append(stack, [task |-> id, left |-> dependsOn[id]])
Top == stack[Len(stack)]
Taken(d) == [stack EXCEPT ![Len(stack)].left = @ \ {d}]

\* validateTasksCycle calls hasCycle for the next task, with a new colour map.
StartSearch(id) ==
    /\ phase = "validate" /\ stack = <<>> /\ id \in todo
    /\ todo' = todo \ {id}
    /\ stack' = Call(id)
    /\ colors' = [x \in DOMAIN byID |-> IF x = id THEN "gray" ELSE "white"]
    /\ UNCHANGED <<tasks, phase, next, byID, dependsOn>>

\* The next dependency is white: the recursive call.
Descend(d) ==
    /\ phase = "validate" /\ stack # <<>> /\ d \in Top.left
    /\ colors[d] = "white"
    /\ stack' = Append(Taken(d), [task |-> d, left |-> dependsOn[d]])
    /\ colors' = [colors EXCEPT ![d] = "gray"]
    /\ UNCHANGED <<tasks, phase, next, byID, todo, dependsOn>>

\* Mutant: two colours only, every task met twice is a cycle.
CycleFound_TwoColours(d) ==
    /\ phase = "validate" /\ stack # <<>> /\ d \in Top.left
    /\ colors[d] # "white"
    /\ Reject

\* It is gray: an error, which every call on the stack passes on.
CycleFound(d) ==
    /\ phase = "validate" /\ stack # <<>> /\ d \in Top.left
    /\ colors[d] = "gray"
    /\ Reject

\* It is black: nothing to do.
Seen(d) ==
    /\ phase = "validate" /\ stack # <<>> /\ d \in Top.left
    /\ colors[d] = "black"
    /\ stack' = Taken(d)
    /\ UNCHANGED <<tasks, phase, next, byID, todo, dependsOn, colors>>

\* Mutant: a finished task stays gray.
Return_Gray ==
    /\ phase = "validate" /\ stack # <<>> /\ Top.left = {}
    /\ stack' = SubSeq(stack, 1, Len(stack) - 1)
    /\ UNCHANGED <<tasks, phase, next, byID, todo, dependsOn, colors>>

\* Mutant: the call does not come back.
Return_Never ==
    /\ phase = "validate" /\ stack # <<>> /\ Top.left = {}
    /\ colors' = [colors EXCEPT ![Top.task] = "black"]
    /\ UNCHANGED <<tasks, phase, next, byID, todo, dependsOn, stack>>

Return ==
    /\ phase = "validate" /\ stack # <<>> /\ Top.left = {}
    /\ colors' = [colors EXCEPT ![Top.task] = "black"]
    /\ stack' = SubSeq(stack, 1, Len(stack) - 1)
    /\ UNCHANGED <<tasks, phase, next, byID, todo, dependsOn>>

\* Mutant: the search from one task is taken to be enough.
Accept_First ==
    /\ phase = "validate" /\ stack = <<>> /\ todo # DOMAIN byID
    /\ phase' = "accepted"
    /\ UNCHANGED <<tasks, next, byID, todo, dependsOn, colors, stack>>

Accept ==
    /\ phase = "validate" /\ stack = <<>> /\ todo = {}
    /\ phase' = "accepted"
    /\ UNCHANGED <<tasks, next, byID, todo, dependsOn, colors, stack>>

Next ==
    \/ IndexTask \/ DuplicateTask \/ IndexDone
    \/ \E id \in DOMAIN byID :
          \/ ResolveTask(id) \/ UnknownDependency(id)
          \/ StartSearch(id)
          \/ Descend(id) \/ CycleFound(id) \/ Seen(id)
    \/ ResolveDone \/ Return \/ Accept

Spec == Init /\ [][Next]_vars /\ WF_vars(Next)

-----------------------------------------------------------------------------
\* Properties.

\* A reference for the search: a graph has no cycle exactly when its vertices
\* can be numbered so that every edge goes down.
Acyclic(g) ==
    \E rank \in [DOMAIN g -> 1..Cardinality(DOMAIN g)] :
        \A x \in DOMAIN g : \A y \in g[x] : rank[y] < rank[x]

\* The declared graph, by position: i waits for j.
Declared == [i \in DOMAIN tasks |->
                {j \in DOMAIN tasks : tasks[j].name \in tasks[i].deps}]

NamesDistinct == \A i, j \in DOMAIN tasks :
                    i # j => tasks[i].name # tasks[j].name /\ IDOf(i) # IDOf(j)
DepsDeclared  == \A i \in DOMAIN tasks :
                    tasks[i].deps \subseteq {tasks[j].name : j \in DOMAIN tasks}

\* What NewWorkflow returns is what the engine assumes: every declared task is
\* there under its own ID, waits for exactly the tasks it named, and no task
\* waits for itself through others, whatever order the maps were visited in.
AcceptedIsDAG ==
    phase = "accepted" =>
        /\ NamesDistinct /\ DepsDeclared
        /\ DOMAIN dependsOn = {IDOf(i) : i \in DOMAIN tasks}
        /\ \A i \in DOMAIN tasks :
              dependsOn[IDOf(i)] = {IDOf(j) : j \in Declared[i]}
        /\ Acyclic(dependsOn)

\* Nothing sound is refused: an error names a duplicate, an unknown dependency
\* or a cycle that the declaration really has.
RejectedForReason ==
    phase = "rejected" => ~NamesDistinct \/ ~DepsDeclared \/ ~Acyclic(Declared)

\* The gray tasks are the calls in progress, and each waits for the next one:
\* so a gray dependency really closes a cycle.
GrayIsStack ==
    phase = "validate" =>
        /\ {id \in DOMAIN colors : colors[id] = "gray"} = {stack[i].task : i \in DOMAIN stack}
        /\ \A i \in 1..(Len(stack) - 1) :
              stack[i + 1].task \in dependsOn[stack[i].task] \ stack[i].left

\* A black task has nothing but black tasks behind it: the search never leaves
\* a part of the graph unseen.
BlackIsClosed ==
    phase = "validate" /\ stack # <<>> =>
        \A id \in DOMAIN colors : colors[id] = "black" =>
            \A d \in dependsOn[id] : colors[d] = "black"

\* The colours of hasCycle mean what the search relies on, at every step and in
\* every order of the maps: gray is on the stack, black is searched to the end.
ColoursAreTrue == GrayIsStack /\ BlackIsClosed

\* Every declaration gets its answer.
Answered == <>(phase \in {"accepted", "rejected"})

=============================================================================
