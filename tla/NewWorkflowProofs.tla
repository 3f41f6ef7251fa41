-------------------------- MODULE NewWorkflowProofs --------------------------
(***************************************************************************)
(* Machine-checked proofs about NewWorkflow, for declarations of any size  *)
(* and every order in which maps and lists are visited: what is accepted   *)
(* is an acyclic graph over the declared tasks, as the engine assumes, and *)
(* what is refused has a duplicate, an unknown name or a cycle.            *)
(***************************************************************************)
EXTENDS NewWorkflow, FiniteSetTheorems, WellFoundedInduction, TLAPS

-----------------------------------------------------------------------------
\* Graphs.  A set of tasks is grounded when each of its parts has a task that
\* waits for no other of that part: what "no cycle" means without numbering.

Closed(g, A)   == \A x \in A : g[x] \subseteq A
Grounded(g, A) == \A S \in SUBSET A : S # {} => \E m \in S : g[m] \cap S = {}

\* In an acyclic graph, every set has a task that waits for no other of it: one
\* of the lowest number.
LEMMA AcyclicIsGrounded ==
    ASSUME NEW g, Acyclic(g)
    PROVE  Grounded(g, DOMAIN g)
<1> SUFFICES ASSUME NEW S \in SUBSET DOMAIN g, S # {}
             PROVE  \E m \in S : g[m] \cap S = {}
  BY DEF Grounded
<1>1. PICK rank \in [DOMAIN g -> 1..Cardinality(DOMAIN g)] :
         \A x \in DOMAIN g : \A y \in g[x] : rank[y] < rank[x]
  BY DEF Acyclic
<1> DEFINE R == {rank[x] : x \in S}
<1>2. R \subseteq Nat /\ R # {}
  BY <1>1
<1>3. PICK v \in R : \A u \in R : <<u, v>> \notin OpToRel(<, Nat)
  BY <1>2, NatLessThanWellFounded, WFMin
<1>4. \A u \in R : ~(u < v)
  BY <1>2, <1>3 DEF OpToRel
<1>5. PICK m \in S : rank[m] = v
  OBVIOUS
<1>6. g[m] \cap S = {}
  BY <1>1, <1>4, <1>5
<1> QED
  BY <1>6

\* Conversely, the tasks of a finite grounded graph can be numbered: a largest
\* part that is numbered and closed is the whole graph, or the next number
\* would go to a task that waits only for numbered ones.
LEMMA GroundedIsAcyclic ==
    ASSUME NEW g, IsFiniteSet(DOMAIN g), Closed(g, DOMAIN g), Grounded(g, DOMAIN g)
    PROVE  Acyclic(g)
<1> DEFINE V == DOMAIN g
           Numbered(A) == /\ Closed(g, A)
                          /\ \E rank \in [A -> 1..Cardinality(A)] :
                                \A x \in A : \A y \in g[x] : rank[y] < rank[x]
           P == {A \in SUBSET V : Numbered(A)}
           R == {Cardinality(V) - Cardinality(A) : A \in P}
<1>1. \A A \in SUBSET V : /\ IsFiniteSet(A) /\ Cardinality(A) \in Nat
                          /\ Cardinality(A) <= Cardinality(V)
  BY FS_Subset, FS_CardinalityType
<1>2. Cardinality(V) \in Nat
  BY FS_CardinalityType
<1>3. R \subseteq Nat
  BY <1>1, <1>2
<1>4. {} \in P
  <2>1. Closed(g, {})
    BY DEF Closed
  <2>2. [x \in {} |-> 1] \in [{} -> 1..Cardinality({})]
    OBVIOUS
  <2> QED
    BY <2>1, <2>2
<1>5. R # {}
  BY <1>4
<1>6. PICK v \in R : \A u \in R : <<u, v>> \notin OpToRel(<, Nat)
  BY <1>3, <1>5, NatLessThanWellFounded, WFMin
<1>7. \A u \in R : ~(u < v)
  BY <1>3, <1>6 DEF OpToRel
<1>8. PICK A \in P : v = Cardinality(V) - Cardinality(A)
  OBVIOUS
<1>9. A \in SUBSET V /\ Closed(g, A)
  OBVIOUS
<1>10. PICK rank \in [A -> 1..Cardinality(A)] : \A x \in A : \A y \in g[x] : rank[y] < rank[x]
  OBVIOUS
<1>11. CASE A = V
  BY <1>10, <1>11 DEF Acyclic
<1>12. ASSUME A # V PROVE FALSE
  <2>1. V \ A # {} /\ V \ A \in SUBSET V
    BY <1>9, <1>12
  <2>2. PICK m \in V \ A : g[m] \cap (V \ A) = {}
    BY <2>1 DEF Grounded
  <2>3. g[m] \subseteq A
    BY <2>2 DEF Closed
  <2> DEFINE B == A \cup {m}
             n == Cardinality(A) + 1
  <2>4. B \in SUBSET V /\ Cardinality(B) = n /\ n \in Nat /\ Cardinality(A) \in Nat
    BY <1>1, <1>9, <2>2, FS_AddElement
  <2>5. Closed(g, B)
    BY <1>9, <2>3 DEF Closed
  <2> DEFINE r == [x \in B |-> IF x = m THEN n ELSE rank[x]]
  <2>6. r \in [B -> 1..n]
    BY <1>10, <2>4
  <2>7. \A x \in B : \A y \in g[x] : r[y] < r[x]
    <3> SUFFICES ASSUME NEW x \in B, NEW y \in g[x] PROVE r[y] < r[x]
      OBVIOUS
    <3>1. y \in A /\ y # m /\ r[y] = rank[y] /\ rank[y] \in 1..Cardinality(A)
      BY <1>9, <1>10, <2>2, <2>3 DEF Closed
    <3>2. CASE x = m
      BY <2>4, <3>1, <3>2
    <3>3. CASE x # m
      BY <1>10, <3>1, <3>3
    <3> QED
      BY <3>2, <3>3
  <2>8. B \in P
    <3>1. r \in [B -> 1..Cardinality(B)]
      BY <2>4, <2>6
    <3> HIDE DEF r, B, n
    <3> QED
      BY <2>4, <2>5, <2>7, <3>1
  <2> HIDE DEF P, B
  <2>9. Cardinality(V) - Cardinality(B) \in R
    BY <2>8
  <2>10. Cardinality(V) - Cardinality(B) < v
    BY <1>2, <1>8, <2>4
  <2> QED
    BY <1>7, <2>9, <2>10
<1> QED
  BY <1>11, <1>12

\* A set is still grounded with one more task that waits only for tasks of it.
LEMMA GroundedGrows ==
    ASSUME NEW g, NEW A, NEW x, Closed(g, A), Grounded(g, A), g[x] \subseteq A, x \notin A
    PROVE  Closed(g, A \cup {x}) /\ Grounded(g, A \cup {x})
<1>1. Closed(g, A \cup {x})
  BY DEF Closed
<1>2. ASSUME NEW S \in SUBSET (A \cup {x}), S # {} PROVE \E m \in S : g[m] \cap S = {}
  <2>1. CASE S \cap A = {}
    BY <1>2, <2>1
  <2>2. CASE S \cap A # {}
    <3>1. PICK m \in S \cap A : g[m] \cap (S \cap A) = {}
      BY <2>2 DEF Grounded
    <3>2. g[m] \subseteq A
      BY <3>1 DEF Closed
    <3> QED
      BY <3>1, <3>2
  <2> QED
    BY <2>1, <2>2
<1> QED
  BY <1>1, <1>2 DEF Grounded

-----------------------------------------------------------------------------
\* The inductive invariant.

V == DOMAIN byID
Frame == [task : V, left : SUBSET V]
Black == {x \in DOMAIN colors : colors[x] = "black"}

\* The tasks read so far, each under its own ID and name.
Indexed ==
    /\ tasks \in Declarations
    /\ phase \in {"index", "resolve", "validate", "accepted", "rejected"}
    /\ next \in 1..(Len(tasks) + 1)
    /\ phase \in {"resolve", "validate", "accepted"} => next = Len(tasks) + 1
    /\ V = {IDOf(i) : i \in 1..(next - 1)}
    /\ \A i \in 1..(next - 1) : byID[IDOf(i)] = i
    /\ \A i, j \in 1..(next - 1) : i # j => tasks[i].name # tasks[j].name

\* The tasks resolved so far wait for the tasks they named.
Resolved ==
    /\ todo \subseteq V
    /\ phase = "index" => DOMAIN dependsOn = {}
    /\ phase = "resolve" => DOMAIN dependsOn = V \ todo
    /\ phase \in {"validate", "accepted"} => DOMAIN dependsOn = V
    /\ \A id \in DOMAIN dependsOn :
          /\ Known(id)
          /\ dependsOn[id] = {d \in V : NameOf(d) \in tasks[byID[id]].deps}

\* The calls in progress: gray is on the stack, once; each call waits for the
\* next; and what it has dealt with is black or is the next call.
Calls ==
    /\ stack \in Seq(Frame)
    /\ DOMAIN colors \subseteq V
    /\ stack # <<>> => colors \in [V -> {"white", "gray", "black"}]
    /\ \A x \in DOMAIN colors :
          colors[x] = "gray" <=> \E i \in DOMAIN stack : stack[i].task = x
    /\ \A i, j \in DOMAIN stack : stack[i].task = stack[j].task => i = j
    /\ \A i \in DOMAIN stack : stack[i].left \subseteq dependsOn[stack[i].task]
    /\ \A i \in DOMAIN stack : i + 1 \in DOMAIN stack =>
          stack[i + 1].task \in dependsOn[stack[i].task] \ stack[i].left
    /\ \A i \in DOMAIN stack : \A d \in dependsOn[stack[i].task] :
          \/ d \in stack[i].left
          \/ colors[d] = "black"
          \/ i + 1 \in DOMAIN stack /\ d = stack[i + 1].task

\* Behind x there is no cycle.
Searched(x) == \E A \in SUBSET V : x \in A /\ Closed(dependsOn, A) /\ Grounded(dependsOn, A)

\* There is none behind a black task, nor behind one whose search is over.
Progress ==
    /\ phase \in {"index", "resolve"} => stack = <<>> /\ DOMAIN colors = {}
    /\ phase = "accepted" => stack = <<>> /\ todo = {}
    /\ Closed(dependsOn, Black) /\ Grounded(dependsOn, Black)
    /\ phase \in {"validate", "accepted"} =>
          \A x \in V \ todo : Searched(x) \/ (stack # <<>> /\ x = stack[1].task)

IInv == Indexed /\ Resolved /\ Calls /\ Progress /\ RejectedForReason

-----------------------------------------------------------------------------
\* The invariant holds at the start.
LEMMA InvInit == Init => IInv
<1> SUFFICES ASSUME Init PROVE IInv
  OBVIOUS
<1>1. /\ tasks \in Declarations /\ phase = "index" /\ next = 1 /\ byID = <<>> /\ todo = {}
      /\ dependsOn = <<>> /\ colors = <<>> /\ stack = <<>>
  BY DEF Init
<1>2. Len(tasks) \in Nat
  BY <1>1, DeclarationsAssumption
<1>3. V = {} /\ DOMAIN dependsOn = {} /\ DOMAIN colors = {} /\ DOMAIN stack = {}
  BY <1>1 DEF V
<1>4. Indexed
  BY <1>1, <1>2, <1>3 DEF Indexed
<1>5. Resolved
  BY <1>1, <1>3 DEF Resolved
<1>6. Calls
  BY <1>1, <1>3 DEF Calls
<1>7. Progress
  BY <1>1, <1>3 DEF Progress, Black, Closed, Grounded
<1> QED
  BY <1>1, <1>4, <1>5, <1>6, <1>7 DEF IInv, RejectedForReason

\* Once every task is read, the IDs and names are those of the declaration.
LEMMA ReadAll ==
    ASSUME Indexed, next = Len(tasks) + 1
    PROVE  /\ DOMAIN tasks = 1..(next - 1)
           /\ V = {IDOf(i) : i \in DOMAIN tasks}
           /\ \A i \in DOMAIN tasks : byID[IDOf(i)] = i /\ NameOf(IDOf(i)) = tasks[i].name
           /\ \A x \in V : byID[x] \in DOMAIN tasks /\ IDOf(byID[x]) = x
           /\ {NameOf(d) : d \in V} = {tasks[j].name : j \in DOMAIN tasks}
           /\ NamesDistinct
<1>1. Len(tasks) \in Nat /\ DOMAIN tasks = 1..Len(tasks)
  BY DeclarationsAssumption DEF Indexed
<1>2. DOMAIN tasks = 1..(next - 1)
  BY <1>1
<1>3. V = {IDOf(i) : i \in DOMAIN tasks}
  BY <1>2 DEF Indexed
<1>4. \A i \in DOMAIN tasks : byID[IDOf(i)] = i /\ NameOf(IDOf(i)) = tasks[i].name
  BY <1>2 DEF Indexed, NameOf
<1>5. \A x \in V : byID[x] \in DOMAIN tasks /\ IDOf(byID[x]) = x
  BY <1>3, <1>4
<1>6. {NameOf(d) : d \in V} = {tasks[j].name : j \in DOMAIN tasks}
  BY <1>3, <1>4
<1>7. NamesDistinct
  <2> SUFFICES ASSUME NEW i \in DOMAIN tasks, NEW j \in DOMAIN tasks, i # j
               PROVE  tasks[i].name # tasks[j].name /\ IDOf(i) # IDOf(j)
    BY DEF NamesDistinct
  <2>1. IDOf(i) # IDOf(j)
    BY <1>4
  <2>2. tasks[i].name # tasks[j].name
    BY <1>2 DEF Indexed
  <2> QED
    BY <2>1, <2>2
<1> QED
  BY <1>2, <1>3, <1>4, <1>5, <1>6, <1>7

\* What was read stays as it is while the task list and its index do.
LEMMA IndexedKept ==
    ASSUME Indexed, UNCHANGED <<tasks, next, byID>>,
           phase' \in {"index", "resolve", "validate", "accepted", "rejected"},
           phase' \in {"resolve", "validate", "accepted"} => next = Len(tasks) + 1
    PROVE  /\ Indexed' /\ V' = V
           /\ \A x : NameOf(x)' = NameOf(x)
           /\ \A x : Known(x)' <=> Known(x)
<1>1. V' = V /\ tasks' = tasks /\ next' = next /\ byID' = byID
  BY DEF V
<1>2. \A i : IDOf(i)' = IDOf(i)
  BY <1>1 DEF IDOf
<1>3. \A x : NameOf(x)' = NameOf(x)
  BY <1>1 DEF NameOf
<1>4. \A x : Known(x)' <=> Known(x)
  BY <1>1 DEF Known, NameOf
<1>5. {IDOf(i)' : i \in 1..(next' - 1)} = {IDOf(i) : i \in 1..(next - 1)}
  BY <1>1, <1>2
<1>6. V' = {IDOf(i)' : i \in 1..(next' - 1)}
  BY <1>1, <1>5 DEF Indexed
<1>7. \A i \in 1..(next' - 1) : byID'[IDOf(i)'] = i
  BY <1>1, <1>2 DEF Indexed
<1>8. \A i, j \in 1..(next' - 1) : i # j => tasks'[i].name # tasks'[j].name
  BY <1>1 DEF Indexed
<1>9. tasks' \in Declarations /\ next' \in 1..(Len(tasks') + 1)
  BY <1>1 DEF Indexed
<1> HIDE DEF V
<1> QED
  BY <1>1, <1>3, <1>4, <1>6, <1>7, <1>8, <1>9 DEF Indexed

\* A refusal that has its reason keeps the invariant.
LEMMA RejectKeeps ==
    ASSUME IInv, Reject, RejectedForReason'
    PROVE  IInv'
<1>1. phase' = "rejected" /\ UNCHANGED <<tasks, next, byID, todo, dependsOn, colors, stack>>
  BY DEF Reject
<1>2. /\ Indexed' /\ V' = V
      /\ \A x : NameOf(x)' = NameOf(x)
      /\ \A x : Known(x)' <=> Known(x)
  BY <1>1, IndexedKept DEF IInv
<1>3. Resolved'
  <2>1. \A id \in DOMAIN dependsOn :
           {d \in V' : NameOf(d)' \in tasks'[byID'[id]].deps}
           = {d \in V : NameOf(d) \in tasks[byID[id]].deps}
    BY <1>1, <1>2
  <2> QED
    BY <1>1, <1>2, <2>1 DEF IInv, Resolved
<1>4. Frame' = Frame /\ Black' = Black
  BY <1>1, <1>2 DEF Frame, Black
<1>5. Calls'
  BY <1>1, <1>2, <1>4 DEF IInv, Calls
<1>6. Progress'
  <2>1. Closed(dependsOn, Black)' /\ Grounded(dependsOn, Black)'
    BY <1>1, <1>4 DEF IInv, Progress, Closed, Grounded
  <2> QED
    BY <1>1, <2>1 DEF Progress
<1> QED
  BY <1>2, <1>3, <1>5, <1>6 DEF IInv

\* Reading a task, and the end of reading.
LEMMA IndexKeeps == IInv /\ (IndexTask \/ DuplicateTask \/ IndexDone) => IInv'
<1> SUFFICES ASSUME IInv, IndexTask \/ DuplicateTask \/ IndexDone PROVE IInv'
  OBVIOUS
<1>0. /\ phase = "index" /\ Len(tasks) \in Nat /\ DOMAIN tasks = 1..Len(tasks)
      /\ stack = <<>> /\ DOMAIN colors = {} /\ DOMAIN dependsOn = {} /\ DOMAIN stack = {}
  BY DeclarationsAssumption DEF IInv, Indexed, Resolved, Progress, IndexTask, DuplicateTask,
                                IndexDone
<1>1. CASE IndexTask
  <2>1. /\ next <= Len(tasks) /\ ~Duplicate /\ byID' = With(byID, IDOf(next), next)
        /\ next' = next + 1 /\ UNCHANGED <<tasks, phase, todo, dependsOn, colors, stack>>
    BY <1>1 DEF IndexTask
  <2>2. next \in 1..Len(tasks)
    BY <1>0, <2>1 DEF IInv, Indexed
  <2> DEFINE new == IDOf(next)
  <2>3. /\ V' = V \cup {new}
        /\ \A x \in V \cup {new} : byID'[x] = IF x = new THEN next ELSE byID[x]
    BY <2>1 DEF With, V
  <2>4. \A x \in V : x # new /\ NameOf(x) # tasks[next].name
    BY <2>1 DEF Duplicate, V
  <2>5. \A i \in 1..(next - 1) : IDOf(i) \in V /\ IDOf(i) # new /\ tasks[i].name # tasks[next].name
    BY <2>4 DEF IInv, Indexed, NameOf
  <2>6. \A i : IDOf(i)' = IDOf(i)
    BY <2>1 DEF IDOf
  <2>7. 1..(next' - 1) = (1..(next - 1)) \cup {next}
    BY <2>1, <2>2
  <2> HIDE DEF new
  <2>8. V' = {IDOf(i)' : i \in 1..(next' - 1)}
    <3>1. V = {IDOf(i) : i \in 1..(next - 1)}
      BY DEF IInv, Indexed
    <3> QED
      BY <2>3, <2>6, <2>7, <3>1 DEF new
  <2>9. \A i \in 1..(next' - 1) : byID'[IDOf(i)'] = i
    BY <2>3, <2>5, <2>6, <2>7 DEF IInv, Indexed, new
  <2>10. \A i, j \in 1..(next' - 1) : i # j => tasks'[i].name # tasks'[j].name
    BY <2>1, <2>5, <2>7 DEF IInv, Indexed
  <2>11. Indexed'
    BY <1>0, <2>1, <2>2, <2>8, <2>9, <2>10 DEF IInv, Indexed
  <2>12. Resolved'
    BY <1>0, <2>1, <2>3 DEF IInv, Resolved
  <2>13. Calls'
    BY <1>0, <2>1 DEF Calls
  <2>14. Progress'
    BY <1>0, <2>1 DEF Progress, Black, Closed, Grounded
  <2> QED
    BY <1>0, <2>1, <2>11, <2>12, <2>13, <2>14 DEF IInv, RejectedForReason
<1>2. CASE DuplicateTask
  <2>1. /\ next <= Len(tasks) /\ Duplicate /\ phase' = "rejected"
        /\ UNCHANGED <<tasks, next, byID, todo, dependsOn, colors, stack>>
    BY <1>2 DEF DuplicateTask, Reject
  <2>2. PICK i \in 1..(next - 1) : IDOf(i) = IDOf(next) \/ tasks[i].name = tasks[next].name
    BY <2>1 DEF Duplicate, IInv, Indexed, V, NameOf
  <2>3. ~NamesDistinct
    <3>1. i \in DOMAIN tasks /\ next \in DOMAIN tasks /\ i # next
      BY <1>0, <2>1, <2>2 DEF IInv, Indexed
    <3> QED
      BY <2>2, <3>1 DEF NamesDistinct
  <2>4. RejectedForReason'
    BY <2>1, <2>3 DEF RejectedForReason, NamesDistinct, IDOf
  <2> QED
    BY <1>2, <2>4, RejectKeeps DEF DuplicateTask
<1>3. CASE IndexDone
  <2>1. /\ next > Len(tasks) /\ phase' = "resolve" /\ todo' = V
        /\ UNCHANGED <<tasks, next, byID, dependsOn, colors, stack>>
    BY <1>3 DEF IndexDone, V
  <2>2. next = Len(tasks) + 1
    BY <1>0, <2>1 DEF IInv, Indexed
  <2>3. Indexed'
    BY <2>1, <2>2, IndexedKept DEF IInv
  <2>4. Resolved'
    BY <1>0, <2>1 DEF IInv, Resolved, V
  <2>5. Calls' /\ Progress'
    BY <1>0, <2>1 DEF Calls, Progress, Black, Closed, Grounded
  <2> QED
    BY <2>1, <2>3, <2>4, <2>5 DEF IInv, RejectedForReason
<1> QED
  BY <1>1, <1>2, <1>3

\* Resolving a task, and the end of resolving.
LEMMA ResolveKeeps ==
    ASSUME IInv,
           (\E id \in V : ResolveTask(id) \/ UnknownDependency(id)) \/ ResolveDone
    PROVE  IInv'
<1>0. /\ phase = "resolve" /\ next = Len(tasks) + 1 /\ DOMAIN dependsOn = V \ todo
      /\ stack = <<>> /\ DOMAIN colors = {} /\ DOMAIN stack = {}
  <2>1. phase = "resolve"
    BY DEF ResolveTask, UnknownDependency, ResolveDone
  <2> QED
    BY <2>1 DEF IInv, Indexed, Resolved, Progress
<1>1. ASSUME NEW id \in V, ResolveTask(id) PROVE IInv'
  <2>1. /\ id \in todo /\ Known(id) /\ todo' = todo \ {id}
        /\ dependsOn' = With(dependsOn, id, {d \in V : NameOf(d) \in tasks[byID[id]].deps})
        /\ UNCHANGED <<tasks, phase, next, byID, colors, stack>>
    BY <1>1 DEF ResolveTask, V
  <2>2. /\ DOMAIN dependsOn' = DOMAIN dependsOn \cup {id}
        /\ \A x \in DOMAIN dependsOn' : dependsOn'[x] =
              IF x = id THEN {d \in V : NameOf(d) \in tasks[byID[id]].deps} ELSE dependsOn[x]
    BY <2>1 DEF With
  <2>3. Indexed'
    BY <2>1 DEF IInv, Indexed, V, IDOf
  <2>4. V' = V /\ \A x : (Known(x)' <=> Known(x)) /\ NameOf(x)' = NameOf(x)
    BY <2>1 DEF V, Known, NameOf
  <2>5. \A x \in DOMAIN dependsOn' :
           Known(x) /\ dependsOn'[x] = {d \in V : NameOf(d) \in tasks[byID[x]].deps}
    BY <2>1, <2>2 DEF IInv, Resolved
  <2>6. Resolved'
    <3>1. DOMAIN dependsOn' = V' \ todo' /\ todo' \subseteq V'
      BY <1>0, <2>1, <2>2, <2>4 DEF IInv, Resolved
    <3>2. \A x \in DOMAIN dependsOn' :
             Known(x)' /\ dependsOn'[x] = {d \in V' : NameOf(d)' \in tasks'[byID'[x]].deps}
      BY <2>1, <2>4, <2>5
    <3> QED
      BY <1>0, <2>1, <3>1, <3>2 DEF Resolved
  <2>7. Calls' /\ Progress'
    BY <1>0, <2>1 DEF Calls, Progress, Black, Closed, Grounded
  <2> QED
    BY <1>0, <2>1, <2>3, <2>6, <2>7 DEF IInv, RejectedForReason
<1>2. ASSUME NEW id \in V, UnknownDependency(id) PROVE IInv'
  <2>1. /\ ~Known(id) /\ phase' = "rejected"
        /\ UNCHANGED <<tasks, next, byID, todo, dependsOn, colors, stack>>
    BY <1>2 DEF UnknownDependency, Reject
  <2>2. ~DepsDeclared
    <3>1. /\ byID[id] \in DOMAIN tasks
          /\ {NameOf(d) : d \in V} = {tasks[j].name : j \in DOMAIN tasks}
      BY <1>0, ReadAll DEF IInv
    <3> QED
      BY <2>1, <3>1 DEF Known, DepsDeclared, V
  <2>3. RejectedForReason'
    BY <2>1, <2>2 DEF RejectedForReason, DepsDeclared
  <2> QED
    BY <1>2, <2>3, RejectKeeps DEF UnknownDependency
<1>3. CASE ResolveDone
  <2>1. /\ todo = {} /\ phase' = "validate" /\ todo' = V
        /\ UNCHANGED <<tasks, next, byID, dependsOn, colors, stack>>
    BY <1>3 DEF ResolveDone, V
  <2>2. Indexed'
    BY <1>0, <2>1, IndexedKept DEF IInv
  <2>3. Resolved'
    BY <1>0, <2>1 DEF IInv, Resolved, V, Known, NameOf
  <2>4. V' = V
    BY <2>1 DEF V
  <2>5. Calls' /\ Progress'
    BY <1>0, <2>1, <2>4 DEF Calls, Progress, Black, Closed, Grounded
  <2> QED
    BY <2>1, <2>2, <2>3, <2>5 DEF IInv, RejectedForReason
<1> QED
  BY <1>1, <1>2, <1>3

-----------------------------------------------------------------------------
\* The search.

\* During the search the graph stays, and its edges are those declared.
LEMMA GraphKept ==
    ASSUME IInv, phase = "validate", UNCHANGED <<tasks, next, byID, dependsOn>>,
           phase' \in {"validate", "accepted"}, todo' \subseteq todo
    PROVE  /\ Indexed' /\ Resolved' /\ V' = V /\ Frame' = Frame
           /\ \A x : Searched(x)' <=> Searched(x)
<1>1. next = Len(tasks) + 1 /\ DOMAIN dependsOn = V /\ todo \subseteq V
  BY DEF IInv, Indexed, Resolved
<1>2. /\ Indexed' /\ V' = V
      /\ \A x : NameOf(x)' = NameOf(x)
      /\ \A x : Known(x)' <=> Known(x)
  BY <1>1, IndexedKept DEF IInv
<1>3. Resolved'
  <2>1. \A id \in DOMAIN dependsOn :
           {d \in V' : NameOf(d)' \in tasks'[byID'[id]].deps}
           = {d \in V : NameOf(d) \in tasks[byID[id]].deps}
    BY <1>2
  <2> QED
    BY <1>1, <1>2, <2>1 DEF IInv, Resolved
<1>4. Frame' = Frame
  BY <1>2 DEF Frame
<1>5. \A x : Searched(x)' <=> Searched(x)
  BY <1>2 DEF Searched, Closed, Grounded
<1> QED
  BY <1>2, <1>3, <1>4, <1>5

\* An edge of the graph that is searched is an edge of the declaration.
LEMMA EdgeDeclared ==
    ASSUME IInv, phase \in {"validate", "accepted"}
    PROVE  /\ DOMAIN dependsOn = V /\ next = Len(tasks) + 1
           /\ \A x \in V : dependsOn[x] \subseteq V
           /\ \A x \in V : byID[x] \in DOMAIN tasks
           /\ \A x \in V : \A y \in dependsOn[x] : byID[y] \in Declared[byID[x]]
<1>1. DOMAIN dependsOn = V /\ next = Len(tasks) + 1
  BY DEF IInv, Indexed, Resolved
<1>2. \A x \in V : dependsOn[x] = {d \in V : NameOf(d) \in tasks[byID[x]].deps}
  BY <1>1 DEF IInv, Resolved
<1>3. \A x \in V : byID[x] \in DOMAIN tasks
  BY <1>1, ReadAll DEF IInv
<1>4. ASSUME NEW x \in V, NEW y \in dependsOn[x] PROVE byID[y] \in Declared[byID[x]]
  <2>1. y \in V /\ tasks[byID[y]].name \in tasks[byID[x]].deps
    BY <1>2 DEF NameOf
  <2> QED
    BY <1>3, <2>1 DEF Declared
<1> QED
  BY <1>1, <1>2, <1>3, <1>4

\* Taking a dependency changes what is left of the innermost call only.
LEMMA TakenStack ==
    ASSUME stack \in Seq(Frame), stack # <<>>, NEW d
    PROVE  /\ Len(stack) \in Nat \ {0} /\ DOMAIN stack = 1..Len(stack)
           /\ Taken(d) \in Seq(Frame) /\ Len(Taken(d)) = Len(stack)
           /\ DOMAIN Taken(d) = 1..Len(stack)
           /\ \A i \in 1..Len(stack) :
                 /\ Taken(d)[i].task = stack[i].task
                 /\ Taken(d)[i].left =
                       IF i = Len(stack) THEN stack[i].left \ {d} ELSE stack[i].left
<1>1. Len(stack) \in Nat \ {0} /\ DOMAIN stack = 1..Len(stack)
  OBVIOUS
<1>2. \A i \in 1..Len(stack) : stack[i] \in Frame
  BY <1>1
<1> DEFINE n == Len(stack)
           r == [stack[n] EXCEPT !.left = @ \ {d}]
<1>3. n \in 1..n /\ stack[n] \in [task : V, left : SUBSET V]
  BY <1>1, <1>2 DEF Frame
<1>4. r.task = stack[n].task /\ r.left = stack[n].left \ {d} /\ r \in [task : V, left : SUBSET V]
  BY <1>3
<1>5. Taken(d) = [stack EXCEPT ![n] = r]
  BY DEF Taken
<1>6. r \in Frame
  BY <1>4 DEF Frame
<1> HIDE DEF r
<1>7. Taken(d) \in Seq(Frame) /\ Len(Taken(d)) = n /\ DOMAIN Taken(d) = 1..n
  BY <1>1, <1>3, <1>5, <1>6
<1>8. \A i \in 1..n : Taken(d)[i] = IF i = n THEN r ELSE stack[i]
  BY <1>1, <1>5
<1> QED
  BY <1>1, <1>4, <1>7, <1>8

\* The search begins at one more task.
LEMMA StartKeeps ==
    ASSUME IInv, NEW id \in V, StartSearch(id)
    PROVE  IInv'
<1> DEFINE frame == [task |-> id, left |-> dependsOn[id]]
<1>1. /\ phase = "validate" /\ phase' = "validate" /\ stack = <<>> /\ id \in todo
      /\ todo' = todo \ {id} /\ stack' = Append(stack, frame)
      /\ colors' = [x \in V |-> IF x = id THEN "gray" ELSE "white"]
      /\ UNCHANGED <<tasks, next, byID, dependsOn>>
  BY DEF StartSearch, Call, V
<1>2. /\ Indexed' /\ Resolved' /\ V' = V /\ Frame' = Frame
      /\ \A x : Searched(x)' <=> Searched(x)
  BY <1>1, GraphKept
<1>3. frame \in Frame /\ frame.task = id /\ frame.left = dependsOn[id]
  BY <1>1, EdgeDeclared DEF Frame
<1> HIDE DEF frame
<1>4. /\ stack' \in Seq(Frame) /\ DOMAIN stack' = {1} /\ stack'[1] = frame /\ stack' # <<>>
  BY <1>1, <1>3
<1>5. stack'[1].task = id /\ stack'[1].left = dependsOn[id]
  BY <1>3, <1>4
<1>6. Calls'
  BY <1>1, <1>2, <1>4, <1>5 DEF Calls
<1>7. Black' = {}
  BY <1>1 DEF Black
<1>8. Closed(dependsOn, Black)' /\ Grounded(dependsOn, Black)'
  BY <1>7 DEF Closed, Grounded
<1>9. \A x \in V' \ todo' : Searched(x)' \/ (stack' # <<>> /\ x = stack'[1].task)
  BY <1>1, <1>2, <1>4, <1>5 DEF IInv, Progress
<1>10. Progress'
  BY <1>1, <1>8, <1>9 DEF Progress
<1> QED
  BY <1>1, <1>2, <1>6, <1>10 DEF IInv, RejectedForReason


\* What the proofs below use of the invariant, inside a call of hasCycle.
LEMMA InCall ==
    ASSUME IInv, phase = "validate", stack # <<>>
    PROVE  /\ stack \in Seq(Frame) /\ Len(stack) \in Nat \ {0} /\ DOMAIN stack = 1..Len(stack)
           /\ \A i \in 1..Len(stack) : stack[i].task \in V /\ stack[i].left \in SUBSET V
           /\ colors \in [V -> {"white", "gray", "black"}]
           /\ \A x \in V : dependsOn[x] \subseteq V
<1>1. stack \in Seq(Frame) /\ colors \in [V -> {"white", "gray", "black"}]
  BY DEF IInv, Calls
<1>2. Len(stack) \in Nat \ {0} /\ DOMAIN stack = 1..Len(stack)
  BY <1>1
<1>3. \A i \in 1..Len(stack) : stack[i] \in Frame
  BY <1>1, <1>2
<1>4. \A r \in Frame : r.task \in V /\ r.left \in SUBSET V
  BY DEF Frame
<1> QED
  BY <1>1, <1>2, <1>3, <1>4, EdgeDeclared

\* A black dependency is passed over.
LEMMA SeenKeeps ==
    ASSUME IInv, NEW d \in V, Seen(d)
    PROVE  IInv'
<1> DEFINE n == Len(stack)
<1>1. /\ phase = "validate" /\ phase' = "validate" /\ stack # <<>> /\ d \in stack[n].left
      /\ colors[d] = "black" /\ stack' = Taken(d)
      /\ UNCHANGED <<tasks, next, byID, todo, dependsOn, colors>>
  BY DEF Seen, Top
<1>2. /\ Indexed' /\ Resolved' /\ V' = V /\ Frame' = Frame
      /\ \A x : Searched(x)' <=> Searched(x)
  BY <1>1, GraphKept
<1>3. /\ stack \in Seq(Frame) /\ n \in Nat \ {0} /\ DOMAIN stack = 1..n
      /\ colors \in [V -> {"white", "gray", "black"}]
  BY <1>1, InCall
<1>4. /\ Taken(d) \in Seq(Frame) /\ DOMAIN Taken(d) = 1..n
      /\ \A i \in 1..n :
            /\ Taken(d)[i].task = stack[i].task
            /\ Taken(d)[i].left = IF i = n THEN stack[i].left \ {d} ELSE stack[i].left
  BY <1>1, <1>3, TakenStack
<1> HIDE DEF n
<1>5. 1 \in 1..n
  BY <1>3
<1>6. /\ stack' \in Seq(Frame) /\ DOMAIN stack' = 1..n /\ stack' # <<>>
      /\ \A i \in 1..n :
            /\ stack'[i].task = stack[i].task
            /\ stack'[i].left = IF i = n THEN stack[i].left \ {d} ELSE stack[i].left
  <2>1. stack' = Taken(d)
    BY <1>1
  <2>2. DOMAIN stack' # {}
    BY <1>4, <1>5, <2>1
  <2>3. stack' # <<>>
    BY <2>2
  <2> QED
    BY <1>4, <2>1, <2>3
<1>7. /\ \A x \in V : colors[x] = "gray" <=> \E i \in 1..n : stack[i].task = x
      /\ \A i, j \in 1..n : stack[i].task = stack[j].task => i = j
      /\ \A i \in 1..n : stack[i].left \subseteq dependsOn[stack[i].task]
      /\ \A i \in 1..n : i + 1 \in 1..n =>
            stack[i + 1].task \in dependsOn[stack[i].task] \ stack[i].left
  BY <1>3 DEF IInv, Calls
<1>8. Calls'
  <2>1. \A x \in DOMAIN colors' :
           colors'[x] = "gray" <=> \E i \in DOMAIN stack' : stack'[i].task = x
    <3>1. DOMAIN colors' = V /\ colors' = colors
      BY <1>1, <1>3
    <3>2. \A x : (\E i \in DOMAIN stack' : stack'[i].task = x)
                 <=> (\E i \in 1..n : stack[i].task = x)
      BY <1>6
    <3> QED
      BY <1>7, <3>1, <3>2
  <2>2. \A i, j \in DOMAIN stack' : stack'[i].task = stack'[j].task => i = j
    <3> SUFFICES ASSUME NEW i \in 1..n, NEW j \in 1..n, stack'[i].task = stack'[j].task
                 PROVE  i = j
      BY <1>6
    <3>1. stack[i].task = stack[j].task
      BY <1>6
    <3> QED
      BY <1>7, <3>1
  <2>3. \A i \in DOMAIN stack' : stack'[i].left \subseteq dependsOn'[stack'[i].task]
    <3> SUFFICES ASSUME NEW i \in 1..n PROVE stack'[i].left \subseteq dependsOn[stack'[i].task]
      BY <1>1, <1>6
    <3>1. stack'[i].task = stack[i].task /\ stack'[i].left \subseteq stack[i].left
      BY <1>6
    <3>2. stack[i].left \subseteq dependsOn[stack[i].task]
      BY <1>7
    <3> QED
      BY <3>1, <3>2
  <2>4. \A i \in DOMAIN stack' : i + 1 \in DOMAIN stack' =>
           stack'[i + 1].task \in dependsOn'[stack'[i].task] \ stack'[i].left
    <3> SUFFICES ASSUME NEW i \in 1..n, i + 1 \in 1..n
                 PROVE  stack'[i + 1].task \in dependsOn[stack'[i].task] \ stack'[i].left
      BY <1>1, <1>6
    <3>1. /\ stack'[i].task = stack[i].task /\ stack'[i].left \subseteq stack[i].left
          /\ stack'[i + 1].task = stack[i + 1].task
      BY <1>6
    <3>2. stack[i + 1].task \in dependsOn[stack[i].task] \ stack[i].left
      BY <1>7
    <3> QED
      BY <3>1, <3>2
  <2>5. \A i \in DOMAIN stack' : \A e \in dependsOn'[stack'[i].task] :
           \/ e \in stack'[i].left
           \/ colors'[e] = "black"
           \/ i + 1 \in DOMAIN stack' /\ e = stack'[i + 1].task
    <3> SUFFICES ASSUME NEW i \in 1..n, NEW e \in dependsOn[stack[i].task]
                 PROVE  \/ e \in stack'[i].left
                        \/ colors[e] = "black"
                        \/ i + 1 \in 1..n /\ e = stack'[i + 1].task
      BY <1>1, <1>6
    <3>1. \/ e \in stack[i].left
          \/ colors[e] = "black"
          \/ i + 1 \in 1..n /\ e = stack[i + 1].task
      BY <1>3 DEF IInv, Calls
    <3> QED
      BY <1>1, <1>3, <1>6, <3>1
  <2> QED
    BY <1>1, <1>2, <1>3, <1>6, <2>1, <2>2, <2>3, <2>4, <2>5 DEF Calls
<1>9. Black' = Black
  BY <1>1 DEF Black
<1>10. Closed(dependsOn, Black)' /\ Grounded(dependsOn, Black)'
  BY <1>1, <1>9 DEF IInv, Progress, Closed, Grounded
<1>11. stack'[1].task = stack[1].task
  BY <1>5, <1>6
<1>12. \A x \in V' \ todo' : Searched(x)' \/ (stack' # <<>> /\ x = stack'[1].task)
  BY <1>1, <1>2, <1>6, <1>11 DEF IInv, Progress
<1>13. Progress'
  BY <1>1, <1>10, <1>12 DEF Progress
<1> QED
  BY <1>1, <1>2, <1>8, <1>13 DEF IInv, RejectedForReason

\* A white dependency is searched in a call of its own.
LEMMA DescendKeeps ==
    ASSUME IInv, NEW d \in V, Descend(d)
    PROVE  IInv'
<1> DEFINE n == Len(stack)
           frame == [task |-> d, left |-> dependsOn[d]]
<1>1. /\ phase = "validate" /\ phase' = "validate" /\ stack # <<>> /\ d \in stack[n].left
      /\ colors[d] = "white" /\ stack' = Append(Taken(d), frame)
      /\ colors' = [colors EXCEPT ![d] = "gray"]
      /\ UNCHANGED <<tasks, next, byID, todo, dependsOn>>
  BY DEF Descend, Top
<1>2. /\ Indexed' /\ Resolved' /\ V' = V /\ Frame' = Frame
      /\ \A x : Searched(x)' <=> Searched(x)
  BY <1>1, GraphKept
<1>3. /\ stack \in Seq(Frame) /\ n \in Nat \ {0} /\ DOMAIN stack = 1..n
      /\ colors \in [V -> {"white", "gray", "black"}] /\ dependsOn[d] \subseteq V
      /\ \A i \in 1..n : stack[i].task \in V
  BY <1>1, InCall
<1>4. /\ Taken(d) \in Seq(Frame) /\ Len(Taken(d)) = n
      /\ \A i \in 1..n :
            /\ Taken(d)[i].task = stack[i].task
            /\ Taken(d)[i].left = IF i = n THEN stack[i].left \ {d} ELSE stack[i].left
  BY <1>1, <1>3, TakenStack
<1>5. frame \in Frame /\ frame.task = d /\ frame.left = dependsOn[d]
  BY <1>3 DEF Frame
<1> HIDE DEF n, frame
<1>6. /\ stack' \in Seq(Frame) /\ DOMAIN stack' = 1..(n + 1) /\ stack' # <<>>
      /\ stack'[n + 1] = frame /\ \A i \in 1..n : stack'[i] = Taken(d)[i]
  BY <1>1, <1>3, <1>4, <1>5
<1>7. /\ stack'[n + 1].task = d /\ stack'[n + 1].left = dependsOn[d]
      /\ \A i \in 1..n : /\ stack'[i].task = stack[i].task
                         /\ stack'[i].left = IF i = n THEN stack[i].left \ {d} ELSE stack[i].left
  <2>1. stack'[n + 1].task = d /\ stack'[n + 1].left = dependsOn[d]
    BY <1>5, <1>6
  <2>2. ASSUME NEW i \in 1..n
        PROVE  /\ stack'[i].task = stack[i].task
               /\ stack'[i].left = IF i = n THEN stack[i].left \ {d} ELSE stack[i].left
    <3>1. stack'[i] = Taken(d)[i]
      BY <1>6
    <3> QED
      BY <1>4, <3>1
  <2> QED
    BY <2>1, <2>2
<1>8. /\ DOMAIN colors = V /\ DOMAIN colors' = V
      /\ colors' \in [V -> {"white", "gray", "black"}]
      /\ \A x \in V : colors'[x] = IF x = d THEN "gray" ELSE colors[x]
  BY <1>1, <1>3
<1>9. \A i \in 1..n : stack[i].task # d
  BY <1>1, <1>3, <1>8 DEF IInv, Calls
<1>10. 1..(n + 1) = (1..n) \cup {n + 1} /\ n + 1 \notin 1..n
  BY <1>3
<1>11. Calls'
  <2>1. \A x \in DOMAIN colors' :
           colors'[x] = "gray" <=> \E i \in DOMAIN stack' : stack'[i].task = x
    <3> SUFFICES ASSUME NEW x \in V
                 PROVE  colors'[x] = "gray" <=> \E i \in 1..(n + 1) : stack'[i].task = x
      BY <1>6, <1>8
    <3>1. colors[x] = "gray" <=> \E i \in 1..n : stack[i].task = x
      BY <1>3, <1>8 DEF IInv, Calls
    <3>2. CASE x = d
      BY <1>7, <1>8, <1>10, <3>2
    <3>3. CASE x # d
      BY <1>7, <1>8, <1>10, <3>1, <3>3
    <3> QED
      BY <3>2, <3>3
  <2>2. \A i, j \in DOMAIN stack' : stack'[i].task = stack'[j].task => i = j
    <3>1. \A i, j \in 1..n : stack[i].task = stack[j].task => i = j
      BY <1>3 DEF IInv, Calls
    <3> QED
      <4> SUFFICES ASSUME NEW i \in 1..(n + 1), NEW j \in 1..(n + 1),
                          stack'[i].task = stack'[j].task
                   PROVE  i = j
        BY <1>6
      <4>1. CASE i \in 1..n /\ j \in 1..n
        BY <1>7, <3>1, <4>1
      <4>2. CASE i = n + 1 /\ j \in 1..n
        BY <1>7, <1>9, <4>2
      <4>3. CASE i \in 1..n /\ j = n + 1
        BY <1>7, <1>9, <4>3
      <4> QED
        BY <1>10, <4>1, <4>2, <4>3
  <2>3. \A i \in DOMAIN stack' : stack'[i].left \subseteq dependsOn'[stack'[i].task]
    <3>1. \A i \in 1..n : stack[i].left \subseteq dependsOn[stack[i].task]
      BY <1>3 DEF IInv, Calls
    <3> QED
      <4> SUFFICES ASSUME NEW i \in 1..(n + 1)
                   PROVE  stack'[i].left \subseteq dependsOn[stack'[i].task]
        BY <1>1, <1>6
      <4>1. CASE i \in 1..n
        BY <1>7, <3>1, <4>1
      <4>2. CASE i = n + 1
        BY <1>7, <4>2
      <4> QED
        BY <1>10, <4>1, <4>2
  <2>4. \A i \in DOMAIN stack' : i + 1 \in DOMAIN stack' =>
           stack'[i + 1].task \in dependsOn'[stack'[i].task] \ stack'[i].left
    <3> SUFFICES ASSUME NEW i \in 1..n
                 PROVE  stack'[i + 1].task \in dependsOn[stack'[i].task] \ stack'[i].left
      BY <1>1, <1>3, <1>6
    <3>1. CASE i = n
      <4>1. d \in dependsOn[stack[n].task]
        <5>1. n \in DOMAIN stack
          BY <1>3
        <5>2. stack[n].left \subseteq dependsOn[stack[n].task]
          BY <5>1 DEF IInv, Calls
        <5> QED
          BY <1>1, <5>2
      <4> QED
        BY <1>7, <3>1, <4>1
    <3>2. CASE i # n
      <4>1. i + 1 \in 1..n
        BY <1>3, <3>2
      <4>2. stack[i + 1].task \in dependsOn[stack[i].task] \ stack[i].left
        BY <1>3, <4>1 DEF IInv, Calls
      <4> QED
        BY <1>7, <3>2, <4>1, <4>2
    <3> QED
      BY <3>1, <3>2
  <2>5. \A i \in DOMAIN stack' : \A e \in dependsOn'[stack'[i].task] :
           \/ e \in stack'[i].left
           \/ colors'[e] = "black"
           \/ i + 1 \in DOMAIN stack' /\ e = stack'[i + 1].task
    <3>1. ASSUME NEW i \in 1..n, NEW e \in dependsOn[stack[i].task]
          PROVE  \/ e \in stack'[i].left
                 \/ colors'[e] = "black"
                 \/ i + 1 \in 1..(n + 1) /\ e = stack'[i + 1].task
      <4>1. \/ e \in stack[i].left
            \/ colors[e] = "black"
            \/ i + 1 \in 1..n /\ e = stack[i + 1].task
        BY <1>3 DEF IInv, Calls
      <4>2. e \in V
        BY <1>1, <1>3, InCall
      <4>3. CASE e \in stack[i].left
        <5>1. CASE i = n /\ e = d
          <6>1. i + 1 \in 1..(n + 1)
            BY <1>10, <5>1
          <6> QED
            BY <1>7, <5>1, <6>1
        <5>2. CASE ~(i = n /\ e = d)
          BY <1>7, <4>3, <5>2
        <5> QED
          BY <5>1, <5>2
      <4>4. CASE colors[e] = "black"
        BY <1>1, <1>8, <4>2, <4>4
      <4>5. CASE i + 1 \in 1..n /\ e = stack[i + 1].task
        BY <1>7, <1>10, <4>5
      <4> QED
        BY <4>1, <4>3, <4>4, <4>5
    <3>2. \A e \in dependsOn[stack'[n + 1].task] : e \in stack'[n + 1].left
      BY <1>7
    <3>3. ASSUME NEW i \in 1..(n + 1), NEW e \in dependsOn[stack'[i].task]
          PROVE  \/ e \in stack'[i].left
                 \/ colors'[e] = "black"
                 \/ i + 1 \in 1..(n + 1) /\ e = stack'[i + 1].task
      <4>1. CASE i \in 1..n
        BY <1>7, <3>1, <4>1
      <4>2. CASE i = n + 1
        BY <3>2, <4>2
      <4> QED
        BY <1>10, <4>1, <4>2
    <3> QED
      BY <1>1, <1>6, <3>3
  <2> QED
    BY <1>2, <1>6, <1>8, <2>1, <2>2, <2>3, <2>4, <2>5 DEF Calls
<1>12. Black' = Black
  BY <1>1, <1>8 DEF Black
<1>13. Closed(dependsOn, Black)' /\ Grounded(dependsOn, Black)'
  BY <1>1, <1>12 DEF IInv, Progress, Closed, Grounded
<1>14. stack'[1].task = stack[1].task
  <2>1. 1 \in 1..n
    BY <1>3
  <2> QED
    BY <1>7, <2>1
<1>15. \A x \in V' \ todo' : Searched(x)' \/ (stack' # <<>> /\ x = stack'[1].task)
  BY <1>1, <1>2, <1>6, <1>14 DEF IInv, Progress
<1>16. Progress'
  BY <1>1, <1>13, <1>15 DEF Progress
<1> QED
  BY <1>1, <1>2, <1>11, <1>16 DEF IInv, RejectedForReason


\* A call that has seen all its dependencies ends: all of them are black, so
\* its task joins the part of the graph without a cycle.
LEMMA ReturnKeeps ==
    ASSUME IInv, Return
    PROVE  IInv'
<1> DEFINE n == Len(stack)
           top == stack[n].task
<1>1. /\ phase = "validate" /\ phase' = "validate" /\ stack # <<>> /\ stack[n].left = {}
      /\ colors' = [colors EXCEPT ![top] = "black"] /\ stack' = SubSeq(stack, 1, n - 1)
      /\ UNCHANGED <<tasks, next, byID, todo, dependsOn>>
  BY DEF Return, Top
<1>2. /\ Indexed' /\ Resolved' /\ V' = V /\ Frame' = Frame
      /\ \A x : Searched(x)' <=> Searched(x)
  BY <1>1, GraphKept
<1>3. /\ stack \in Seq(Frame) /\ n \in Nat \ {0} /\ DOMAIN stack = 1..n
      /\ colors \in [V -> {"white", "gray", "black"}]
      /\ \A x \in V : dependsOn[x] \subseteq V
      /\ \A i \in 1..n : stack[i].task \in V
  BY <1>1, InCall
<1>4. n \in 1..n /\ n - 1 \in Nat /\ 1 \in 1..n /\ 1..n = (1..(n - 1)) \cup {n}
      /\ n \notin 1..(n - 1)
  BY <1>3
<1>5. top \in V
  BY <1>3, <1>4
<1>6. /\ stack' \in Seq(Frame) /\ DOMAIN stack' = 1..(n - 1)
      /\ \A i \in 1..(n - 1) : stack'[i] = stack[i]
  BY <1>1, <1>3, <1>4
<1>7. /\ DOMAIN colors = V /\ DOMAIN colors' = V
      /\ colors' \in [V -> {"white", "gray", "black"}]
      /\ \A x \in V : colors'[x] = IF x = top THEN "black" ELSE colors[x]
  BY <1>1, <1>3, <1>5
<1>8. /\ \A x \in V : colors[x] = "gray" <=> \E i \in 1..n : stack[i].task = x
      /\ \A i, j \in 1..n : stack[i].task = stack[j].task => i = j
      /\ \A i \in 1..n : stack[i].left \subseteq dependsOn[stack[i].task]
      /\ \A i \in 1..n : i + 1 \in 1..n =>
            stack[i + 1].task \in dependsOn[stack[i].task] \ stack[i].left
      /\ \A i \in 1..n : \A e \in dependsOn[stack[i].task] :
            \/ e \in stack[i].left
            \/ colors[e] = "black"
            \/ i + 1 \in 1..n /\ e = stack[i + 1].task
  <2>1. DOMAIN stack = 1..n /\ DOMAIN colors = V /\ Calls
    BY <1>3, <1>7 DEF IInv
  <2> HIDE DEF n, top
  <2>2. \A x \in V : colors[x] = "gray" <=> \E i \in 1..n : stack[i].task = x
    BY <2>1 DEF Calls
  <2>3. \A i, j \in 1..n : stack[i].task = stack[j].task => i = j
    BY <2>1 DEF Calls
  <2>4. \A i \in 1..n : stack[i].left \subseteq dependsOn[stack[i].task]
    BY <2>1 DEF Calls
  <2>5. \A i \in 1..n : i + 1 \in 1..n =>
           stack[i + 1].task \in dependsOn[stack[i].task] \ stack[i].left
    BY <2>1 DEF Calls
  <2>6. \A i \in 1..n : \A e \in dependsOn[stack[i].task] :
           \/ e \in stack[i].left
           \/ colors[e] = "black"
           \/ i + 1 \in 1..n /\ e = stack[i + 1].task
    BY <2>1 DEF Calls
  <2> QED
    BY <2>2, <2>3, <2>4, <2>5, <2>6
<1>9. colors[top] = "gray"
  BY <1>4, <1>5, <1>8
<1>10. \A e \in dependsOn[top] : colors[e] = "black"
  <2>1. n + 1 \notin 1..n
    BY <1>3
  <2> QED
    BY <1>1, <1>4, <1>8, <2>1
<1>11. \A i \in 1..(n - 1) : i \in 1..n /\ i + 1 \in 1..n /\ stack[i].task # top
  BY <1>3, <1>4, <1>8
<1> HIDE DEF n
<1>12. Calls'
  <2>1. \A x \in DOMAIN colors' :
           colors'[x] = "gray" <=> \E i \in DOMAIN stack' : stack'[i].task = x
    <3> SUFFICES ASSUME NEW x \in V
                 PROVE  colors'[x] = "gray" <=> \E i \in 1..(n - 1) : stack'[i].task = x
      BY <1>6, <1>7
    <3>1. CASE x = top
      BY <1>6, <1>7, <1>11, <3>1
    <3>2. CASE x # top
      <4>1. (\E i \in 1..n : stack[i].task = x) <=> (\E i \in 1..(n - 1) : stack[i].task = x)
        BY <1>4, <3>2
      <4>2. (\E i \in 1..(n - 1) : stack'[i].task = x) <=> (\E i \in 1..(n - 1) : stack[i].task = x)
        BY <1>6
      <4>3. colors'[x] = colors[x]
        BY <1>7, <3>2
      <4> QED
        BY <1>8, <4>1, <4>2, <4>3
    <3> QED
      BY <3>1, <3>2
  <2>2. \A i, j \in DOMAIN stack' : stack'[i].task = stack'[j].task => i = j
    BY <1>6, <1>8, <1>11
  <2>3. \A i \in DOMAIN stack' : stack'[i].left \subseteq dependsOn'[stack'[i].task]
    <3> SUFFICES ASSUME NEW i \in 1..(n - 1) PROVE stack[i].left \subseteq dependsOn[stack[i].task]
      BY <1>1, <1>6
    <3> QED
      BY <1>8, <1>11
  <2>4. \A i \in DOMAIN stack' : i + 1 \in DOMAIN stack' =>
           stack'[i + 1].task \in dependsOn'[stack'[i].task] \ stack'[i].left
    <3> SUFFICES ASSUME NEW i \in 1..(n - 1), i + 1 \in 1..(n - 1)
                 PROVE  stack[i + 1].task \in dependsOn[stack[i].task] \ stack[i].left
      BY <1>1, <1>6
    <3> QED
      BY <1>8, <1>11
  <2>5. \A i \in DOMAIN stack' : \A e \in dependsOn'[stack'[i].task] :
           \/ e \in stack'[i].left
           \/ colors'[e] = "black"
           \/ i + 1 \in DOMAIN stack' /\ e = stack'[i + 1].task
    <3> SUFFICES ASSUME NEW i \in 1..(n - 1), NEW e \in dependsOn[stack[i].task]
                 PROVE  \/ e \in stack[i].left
                        \/ colors'[e] = "black"
                        \/ i + 1 \in 1..(n - 1) /\ e = stack[i + 1].task
      BY <1>1, <1>6
    <3>1. \/ e \in stack[i].left
          \/ colors[e] = "black"
          \/ i + 1 \in 1..n /\ e = stack[i + 1].task
      BY <1>8, <1>11
    <3>2. e \in V
      BY <1>3, <1>11
    <3>3. CASE e \in stack[i].left
      BY <3>3
    <3>4. CASE colors[e] = "black"
      BY <1>7, <3>2, <3>4
    <3>5. CASE i + 1 \in 1..n /\ e = stack[i + 1].task
      <4>1. CASE i + 1 = n
        BY <1>7, <3>2, <3>5, <4>1
      <4>2. CASE i + 1 # n
        BY <1>4, <3>5, <4>2
      <4> QED
        BY <4>1, <4>2
    <3> QED
      BY <3>1, <3>3, <3>4, <3>5
  <2> QED
    BY <1>2, <1>6, <1>7, <2>1, <2>2, <2>3, <2>4, <2>5 DEF Calls
<1>13. Black' = Black \cup {top} /\ top \notin Black
  BY <1>5, <1>7, <1>9 DEF Black
<1>14. dependsOn[top] \subseteq Black
  BY <1>3, <1>5, <1>7, <1>10 DEF Black
<1>15. Closed(dependsOn, Black') /\ Grounded(dependsOn, Black')
  <2>1. Closed(dependsOn, Black) /\ Grounded(dependsOn, Black)
    BY DEF IInv, Progress
  <2> HIDE DEF top
  <2> QED
    BY <1>13, <1>14, <2>1, GroundedGrows
<1>16. Closed(dependsOn, Black)' /\ Grounded(dependsOn, Black)'
  BY <1>1, <1>15 DEF Closed, Grounded
<1>17. Searched(top)
  <2>1. Black' \subseteq V /\ top \in Black'
    BY <1>5, <1>7, <1>13 DEF Black
  <2> QED
    BY <1>15, <2>1 DEF Searched
<1>18. \A x \in V' \ todo' : Searched(x)' \/ (stack' # <<>> /\ x = stack'[1].task)
  <2> SUFFICES ASSUME NEW x \in V \ todo, ~Searched(x)
               PROVE  stack' # <<>> /\ x = stack'[1].task
    BY <1>1, <1>2
  <2>1. x = stack[1].task
    BY <1>1 DEF IInv, Progress
  <2>2. 1 # n
    BY <1>17, <2>1
  <2>3. 1 \in 1..(n - 1)
    BY <1>3, <2>2
  <2>4. stack'[1].task = stack[1].task /\ DOMAIN stack' # {}
    BY <1>6, <2>3
  <2>5. stack' # <<>>
    BY <2>4
  <2> QED
    BY <2>1, <2>4, <2>5
<1>19. Progress'
  BY <1>1, <1>16, <1>18 DEF Progress
<1> QED
  BY <1>1, <1>2, <1>12, <1>19 DEF IInv, RejectedForReason

\* A gray dependency closes a cycle: among the declared tasks of the calls from
\* its own to the innermost one, each waits for another of them.
LEMMA CycleKeeps ==
    ASSUME IInv, NEW d \in V, CycleFound(d)
    PROVE  IInv'
<1> DEFINE n == Len(stack)
<1>1. phase = "validate" /\ stack # <<>> /\ d \in stack[n].left /\ colors[d] = "gray" /\ Reject
  BY DEF CycleFound, Top
<1>2. /\ n \in Nat \ {0} /\ DOMAIN stack = 1..n
      /\ colors \in [V -> {"white", "gray", "black"}]
      /\ \A i \in 1..n : stack[i].task \in V
  BY <1>1, InCall
<1>3. PICK j \in 1..n : stack[j].task = d
  BY <1>1, <1>2 DEF IInv, Calls
<1>4. /\ \A i \in 1..n : stack[i].left \subseteq dependsOn[stack[i].task]
      /\ \A i \in 1..n : i + 1 \in 1..n => stack[i + 1].task \in dependsOn[stack[i].task]
  BY <1>2 DEF IInv, Calls
<1>5. /\ \A x \in V : byID[x] \in DOMAIN tasks
      /\ \A x \in V : \A y \in dependsOn[x] : byID[y] \in Declared[byID[x]]
  BY <1>1, EdgeDeclared
<1> HIDE DEF n
<1> DEFINE S == {byID[stack[i].task] : i \in j..n}
<1>6. j..n \subseteq 1..n /\ j \in j..n /\ n \in 1..n
  BY <1>2, <1>3
<1>7. S \in SUBSET DOMAIN tasks /\ S # {}
  BY <1>2, <1>5, <1>6
<1>8. ASSUME NEW i \in j..n PROVE Declared[byID[stack[i].task]] \cap S # {}
  <2>1. CASE i = n
    <3>1. d \in dependsOn[stack[n].task]
      BY <1>1, <1>4, <1>6
    <3>2. byID[d] \in Declared[byID[stack[i].task]]
      BY <1>2, <1>5, <1>6, <2>1, <3>1
    <3>3. byID[d] \in S
      BY <1>3, <1>6
    <3> QED
      BY <3>2, <3>3
  <2>2. CASE i # n
    <3>1. i + 1 \in j..n /\ i \in 1..n /\ i + 1 \in 1..n
      BY <1>2, <1>3, <2>2
    <3>2. byID[stack[i + 1].task] \in Declared[byID[stack[i].task]]
      BY <1>2, <1>4, <1>5, <3>1
    <3>3. byID[stack[i + 1].task] \in S
      BY <3>1
    <3> QED
      BY <3>2, <3>3
  <2> QED
    BY <2>1, <2>2
<1>9. ~Acyclic(Declared)
  <2>1. DOMAIN Declared = DOMAIN tasks
    BY DEF Declared
  <2>2. SUFFICES ASSUME Acyclic(Declared) PROVE FALSE
    OBVIOUS
  <2>3. Grounded(Declared, DOMAIN tasks)
    BY <2>1, <2>2, AcyclicIsGrounded
  <2>4. PICK m \in S : Declared[m] \cap S = {}
    BY <1>7, <2>3 DEF Grounded
  <2>5. PICK i \in j..n : m = byID[stack[i].task]
    OBVIOUS
  <2> QED
    BY <1>8, <2>4, <2>5
<1>10. Declared' = Declared
  BY <1>1 DEF Reject, Declared
<1>11. ~Acyclic(Declared)'
  BY <1>9, <1>10 DEF Acyclic
<1>12. RejectedForReason'
  BY <1>11 DEF RejectedForReason
<1> QED
  BY <1>1, <1>12, RejectKeeps

\* The end: the last search is over and nothing is left to search.
LEMMA AcceptKeeps ==
    ASSUME IInv, Accept
    PROVE  IInv'
<1>1. /\ phase = "validate" /\ phase' = "accepted" /\ stack = <<>> /\ todo = {}
      /\ UNCHANGED <<tasks, next, byID, todo, dependsOn, colors, stack>>
  BY DEF Accept
<1>2. /\ Indexed' /\ Resolved' /\ V' = V /\ Frame' = Frame
      /\ \A x : Searched(x)' <=> Searched(x)
  BY <1>1, GraphKept
<1>3. Black' = Black
  BY <1>1 DEF Black
<1>4. Calls'
  BY <1>1, <1>2 DEF IInv, Calls
<1>5. Closed(dependsOn, Black)' /\ Grounded(dependsOn, Black)'
  BY <1>1, <1>3 DEF IInv, Progress, Closed, Grounded
<1>6. \A x \in V' \ todo' : Searched(x)'
  BY <1>1, <1>2 DEF IInv, Progress
<1>7. Progress'
  BY <1>1, <1>5, <1>6 DEF Progress
<1> QED
  BY <1>1, <1>2, <1>4, <1>7 DEF IInv, RejectedForReason


-----------------------------------------------------------------------------
\* Every step keeps the invariant.
LEMMA InvStep == IInv /\ [Next]_vars => IInv'
<1> SUFFICES ASSUME IInv, [Next]_vars PROVE IInv'
  OBVIOUS
<1>1. CASE UNCHANGED vars
  <2>1. UNCHANGED <<tasks, phase, next, byID, todo, dependsOn, colors, stack>>
    BY <1>1 DEF vars
  <2>2. /\ Indexed' /\ V' = V
        /\ \A x : NameOf(x)' = NameOf(x)
        /\ \A x : Known(x)' <=> Known(x)
    BY <2>1, IndexedKept DEF IInv, Indexed
  <2>3. Resolved'
    <3>1. \A id \in DOMAIN dependsOn :
             {d \in V' : NameOf(d)' \in tasks'[byID'[id]].deps}
             = {d \in V : NameOf(d) \in tasks[byID[id]].deps}
      BY <2>1, <2>2
    <3> QED
      BY <2>1, <2>2, <3>1 DEF IInv, Resolved
  <2>4. Frame' = Frame /\ Black' = Black
    BY <2>1, <2>2 DEF Frame, Black
  <2>5. Calls'
    BY <2>1, <2>2, <2>4 DEF IInv, Calls
  <2>6. \A x : Searched(x)' <=> Searched(x)
    BY <2>1, <2>2 DEF Searched, Closed, Grounded
  <2>7. Closed(dependsOn, Black)' /\ Grounded(dependsOn, Black)'
    BY <2>1, <2>4 DEF IInv, Progress, Closed, Grounded
  <2>8. Progress'
    BY <2>1, <2>2, <2>6, <2>7 DEF IInv, Progress
  <2>9. RejectedForReason'
    <3>1. /\ NamesDistinct' <=> NamesDistinct
          /\ DepsDeclared' <=> DepsDeclared
          /\ Acyclic(Declared)' <=> Acyclic(Declared)
      BY <2>1 DEF NamesDistinct, DepsDeclared, Acyclic, Declared, IDOf
    <3> QED
      BY <2>1, <3>1 DEF IInv, RejectedForReason
  <2> QED
    BY <2>2, <2>3, <2>5, <2>8, <2>9 DEF IInv
<1>2. CASE IndexTask \/ DuplicateTask \/ IndexDone
  BY <1>2, IndexKeeps
<1>3. CASE (\E id \in V : ResolveTask(id) \/ UnknownDependency(id)) \/ ResolveDone
  BY <1>3, ResolveKeeps
<1>4. ASSUME NEW id \in V, StartSearch(id) PROVE IInv'
  BY <1>4, StartKeeps
<1>5. ASSUME NEW d \in V, Descend(d) PROVE IInv'
  BY <1>5, DescendKeeps
<1>6. ASSUME NEW d \in V, CycleFound(d) PROVE IInv'
  BY <1>6, CycleKeeps
<1>7. ASSUME NEW d \in V, Seen(d) PROVE IInv'
  BY <1>7, SeenKeeps
<1>8. CASE Return
  BY <1>8, ReturnKeeps
<1>9. CASE Accept
  BY <1>9, AcceptKeeps
<1> QED
  BY <1>1, <1>2, <1>3, <1>4, <1>5, <1>6, <1>7, <1>8, <1>9 DEF Next, V

\* The invariant holds of every behaviour.
LEMMA InvCorrect == Spec => []IInv
<1> QED
  BY InvInit, InvStep, PTL DEF Spec

-----------------------------------------------------------------------------
\* NewWorkflow refuses nothing sound: whatever the number of tasks and the
\* order of the maps, an error means a duplicate name or ID, a dependency that
\* nobody declared, or a cycle of the declared graph.
THEOREM RejectedForReasonCorrect == Spec => []RejectedForReason
<1>1. IInv => RejectedForReason
  BY DEF IInv
<1> QED
  BY <1>1, InvCorrect, PTL

\* The colours of hasCycle mean what the search relies on: gray are exactly
\* the calls in progress, each waiting for the next, and behind a black task
\* everything is black.
THEOREM ColoursAreTrueCorrect == Spec => []ColoursAreTrue
<1>1. IInv => ColoursAreTrue
  <2> SUFFICES ASSUME IInv, phase = "validate" PROVE ColoursAreTrue
    BY DEF ColoursAreTrue, GrayIsStack, BlackIsClosed
  <2>1. stack \in Seq(Frame) /\ Calls
    BY DEF IInv, Calls
  <2>2. DOMAIN stack = 1..Len(stack) /\ Len(stack) \in Nat
    BY <2>1
  <2>3. {id \in DOMAIN colors : colors[id] = "gray"} = {stack[i].task : i \in DOMAIN stack}
    <3>1. CASE stack = <<>>
      <4>1. DOMAIN stack = {}
        BY <3>1
      <4> QED
        BY <2>1, <4>1 DEF Calls
    <3>2. CASE stack # <<>>
      <4>1. DOMAIN colors = V /\ \A i \in DOMAIN stack : stack[i].task \in V
        BY <2>2, <3>2, InCall
      <4> QED
        BY <2>1, <4>1 DEF Calls
    <3> QED
      BY <3>1, <3>2
  <2>4. ASSUME NEW i \in 1..(Len(stack) - 1)
        PROVE  stack[i + 1].task \in dependsOn[stack[i].task] \ stack[i].left
    <3>1. i \in DOMAIN stack /\ i + 1 \in DOMAIN stack
      BY <2>2
    <3> QED
      BY <2>1, <3>1 DEF Calls
  <2>5. GrayIsStack
    BY <2>3, <2>4 DEF GrayIsStack
  <2>6. BlackIsClosed
    BY DEF IInv, Progress, BlackIsClosed, Closed, Black
  <2> QED
    BY <2>5, <2>6 DEF ColoursAreTrue
<1> QED
  BY <1>1, InvCorrect, PTL

\* What NewWorkflow returns is what the engine assumes of every workflow it is
\* given (GraphAssumption): the declared tasks, each waiting for exactly those
\* it named, in a graph without a cycle.  Every task has been searched, so
\* every set of tasks has one that waits for no other of it.
THEOREM AcceptedIsDAGCorrect == Spec => []AcceptedIsDAG
<1>1. IInv => AcceptedIsDAG
  <2> SUFFICES ASSUME IInv, phase = "accepted" PROVE AcceptedIsDAG
    BY DEF AcceptedIsDAG
  <2>1. /\ DOMAIN dependsOn = V /\ next = Len(tasks) + 1
        /\ \A x \in V : dependsOn[x] \subseteq V
    BY EdgeDeclared
  <2>2. /\ V = {IDOf(i) : i \in DOMAIN tasks}
        /\ \A i \in DOMAIN tasks : byID[IDOf(i)] = i /\ NameOf(IDOf(i)) = tasks[i].name
        /\ \A x \in V : byID[x] \in DOMAIN tasks /\ IDOf(byID[x]) = x
        /\ {NameOf(d) : d \in V} = {tasks[j].name : j \in DOMAIN tasks}
        /\ NamesDistinct
    BY <2>1, ReadAll DEF IInv
  <2>3. \A id \in V : /\ tasks[byID[id]].deps \subseteq {NameOf(d) : d \in V}
                      /\ dependsOn[id] = {d \in V : NameOf(d) \in tasks[byID[id]].deps}
    BY <2>1 DEF IInv, Resolved, Known, V
  <2>4. DepsDeclared
    <3> SUFFICES ASSUME NEW i \in DOMAIN tasks
                 PROVE  tasks[i].deps \subseteq {tasks[j].name : j \in DOMAIN tasks}
      BY DEF DepsDeclared
    <3>1. IDOf(i) \in V /\ byID[IDOf(i)] = i
      BY <2>2
    <3> QED
      BY <2>2, <2>3, <3>1
  <2>5. ASSUME NEW i \in DOMAIN tasks PROVE dependsOn[IDOf(i)] = {IDOf(j) : j \in Declared[i]}
    <3>1. IDOf(i) \in V /\ byID[IDOf(i)] = i
      BY <2>2
    <3>2. dependsOn[IDOf(i)] = {d \in V : NameOf(d) \in tasks[i].deps}
      BY <2>3, <3>1
    <3>3. Declared[i] = {j \in DOMAIN tasks : tasks[j].name \in tasks[i].deps}
      BY DEF Declared
    <3>4. ASSUME NEW d \in V, NameOf(d) \in tasks[i].deps
          PROVE  d \in {IDOf(j) : j \in Declared[i]}
      <4>1. PICK j \in DOMAIN tasks : d = IDOf(j)
        BY <2>2
      <4>2. j \in Declared[i]
        BY <2>2, <3>3, <3>4, <4>1
      <4> QED
        BY <4>1, <4>2
    <3>5. ASSUME NEW j \in Declared[i] PROVE IDOf(j) \in V /\ NameOf(IDOf(j)) \in tasks[i].deps
      BY <2>2, <3>3
    <3> QED
      BY <3>2, <3>4, <3>5
  <2>6. IsFiniteSet(V)
    <3>1. Len(tasks) \in Nat /\ DOMAIN tasks = 1..Len(tasks)
      BY DeclarationsAssumption DEF IInv, Indexed
    <3>2. IsFiniteSet(DOMAIN tasks)
      BY <3>1, FS_Interval
    <3> DEFINE f == [i \in DOMAIN tasks |-> IDOf(i)]
    <3>3. f \in [DOMAIN tasks -> V] /\ \A x \in V : \E i \in DOMAIN tasks : f[i] = x
      BY <2>2
    <3>4. f \in Surjection(DOMAIN tasks, V)
      BY <3>3 DEF Surjection
    <3> HIDE DEF f
    <3> QED
      BY <3>2, <3>4, FS_Surjection
  <2>7. Grounded(dependsOn, V)
    <3> SUFFICES ASSUME NEW S \in SUBSET V, S # {}
                 PROVE  \E m \in S : dependsOn[m] \cap S = {}
      BY DEF Grounded
    <3>1. PICK x \in S : TRUE
      OBVIOUS
    <3>2. Searched(x)
      BY DEF IInv, Progress
    <3>3. PICK A \in SUBSET V : x \in A /\ Closed(dependsOn, A) /\ Grounded(dependsOn, A)
      BY <3>2 DEF Searched
    <3>4. PICK m \in S \cap A : dependsOn[m] \cap (S \cap A) = {}
      <4>1. S \cap A \in SUBSET A /\ S \cap A # {}
        BY <3>1, <3>3
      <4> QED
        BY <3>3, <4>1 DEF Grounded
    <3>5. dependsOn[m] \subseteq A
      BY <3>3, <3>4 DEF Closed
    <3> QED
      BY <3>4, <3>5
  <2>8. Acyclic(dependsOn)
    <3>1. Closed(dependsOn, V)
      BY <2>1 DEF Closed
    <3> QED
      BY <2>1, <2>6, <2>7, <3>1, GroundedIsAcyclic
  <2>9. DOMAIN dependsOn = {IDOf(i) : i \in DOMAIN tasks}
    BY <2>1, <2>2
  <2> QED
    BY <2>2, <2>4, <2>5, <2>8, <2>9 DEF AcceptedIsDAG
<1> QED
  BY <1>1, InvCorrect, PTL

=============================================================================
