---------------------------- MODULE RootsLeaves ----------------------------
(***************************************************************************)
(* Component.get_roots and Component.get_leaves (tools/ecp_vlog.py).       *)
(* Both run the same recursive visit from every node of one component:     *)
(* get_roots walks edges_rev and collects the nodes without a driver,      *)
(* get_leaves walks edges_fwd and collects the nodes without a load.  The  *)
(* dict `seen` has three states (absent, 0 = on the call stack, 1 = done); *)
(* reaching a node in state 0 prints a cycle warning and returns.          *)
(*                                                                         *)
(* The recursion is modelled by an explicit call stack of frames           *)
(* [node, todo], todo being the part of the adjacency set the frame has    *)
(* still to iterate.  Python set iteration order is unspecified, so every  *)
(* choice of the next element is a nondeterministic \E.  The graph and the *)
(* component are chosen in Init among all graphs over Node and all their   *)
(* components (get_components computes them; see Components.tla).         *)
(*                                                                         *)
(* Python raises RecursionError when a call would exceed the interpreter's *)
(* recursion limit; nothing in print_verilog catches it.  The frames left  *)
(* for visit() depend on sys.getrecursionlimit() and on the depth of its   *)
(* caller, so the number is a choice of Init among RecursionLimits.        *)
(***************************************************************************)
EXTENDS ConnectionGraph, Naturals, Sequences, FiniteSets

CONSTANT RecursionLimits    \* the possible numbers of frames visit() may hold

VARIABLES
    edges,     \* the ConnectionGraph, fixed during the analysis
    comp,      \* self.nodes of the Component
    phase,     \* "roots" (get_roots), "leaves" (get_leaves), "done",
               \* "crashed" (RecursionError)
    limit,     \* the frames visit() may hold
    todo,      \* nodes of `for x in self.nodes` not yet visited
    stack,     \* the active visit() calls, innermost last
    seen,      \* seen[n] \in {"absent", "open" (0), "closed" (1)}
    roots,     \* result of get_roots
    leaves,    \* result of get_leaves
    warned     \* warned[p]: nodes a cycle warning was printed for in phase p

vars == <<edges, comp, phase, limit, todo, stack, seen, roots, leaves, warned>>

Phases == {"roots", "leaves"}

\* mutant: get_roots and get_leaves walking each other's direction
AdjSwapped(p, n) == IF p = "roots" THEN EdgesFwd(edges, n) ELSE EdgesRev(edges, n)

\* self.graph.edges_rev[node] in get_roots, edges_fwd[node] in get_leaves
Adj(p, n) == IF p = "roots" THEN EdgesRev(edges, n) ELSE EdgesFwd(edges, n)

\* the set the phase collects into
AddResult(p, n) ==
    IF p = "roots" THEN /\ roots' = roots \cup {n} /\ UNCHANGED leaves
                   ELSE /\ leaves' = leaves \cup {n} /\ UNCHANGED roots

\* visit(node) on a node already in seen: warn if it is still open, return
VisitSeen(x, st) ==
    /\ seen[x] # "absent"
    /\ warned' = IF seen[x] = "open"
                 THEN [warned EXCEPT ![phase] = @ \cup {x}] ELSE warned
    /\ stack' = st
    /\ UNCHANGED <<phase, seen, roots, leaves>>

\* mutant: visit() without `seen[node] = 0` on entry, marking only on return
VisitEnterNoMark(x, st) ==
    /\ seen[x] = "absent" /\ Len(st) < limit
    /\ IF Adj(phase, x) = {} THEN AddResult(phase, x)
                             ELSE UNCHANGED <<roots, leaves>>
    /\ stack' = Append(st, [node |-> x, todo |-> Adj(phase, x)])
    /\ UNCHANGED <<phase, seen, warned>>

\* visit(node) on a new node: mark it 0, record it if it has no neighbour
\* in this direction, otherwise start iterating over its neighbours
VisitEnter(x, st) ==
    /\ seen[x] = "absent" /\ Len(st) < limit
    /\ seen' = [seen EXCEPT ![x] = "open"]
    /\ IF Adj(phase, x) = {} THEN AddResult(phase, x)
                             ELSE UNCHANGED <<roots, leaves>>
    /\ stack' = Append(st, [node |-> x, todo |-> Adj(phase, x)])
    /\ UNCHANGED <<phase, warned>>

\* visit(node) on a new node with every frame in use: RecursionError
RecursionError(x, st) ==
    /\ seen[x] = "absent" /\ Len(st) = limit
    /\ phase' = "crashed"
    /\ stack' = << >>
    /\ UNCHANGED <<seen, roots, leaves, warned>>

Visit(x, st) == VisitSeen(x, st) \/ VisitEnter(x, st) \/ RecursionError(x, st)

Init ==
    /\ edges \in SUBSET (Node \X Node)
    /\ comp \in ComponentsRef(edges)
    /\ phase = "roots"
    /\ limit \in RecursionLimits
    /\ todo = comp
    /\ stack = << >>
    /\ seen = [n \in Node |-> "absent"]
    /\ roots = {}
    /\ leaves = {}
    /\ warned = [p \in Phases |-> {}]

\* one iteration of `for x in self.nodes: visit(x)`
OuterVisit ==
    /\ phase \in Phases
    /\ stack = << >>
    /\ \E x \in todo :
        /\ todo' = todo \ {x}
        /\ Visit(x, stack)
    /\ UNCHANGED <<edges, comp, limit>>

\* one iteration of `for x in edges[node]: visit(x)` in the innermost call
ChildVisit ==
    /\ stack # << >>
    /\ LET top == stack[Len(stack)] IN
       \E x \in top.todo :
          Visit(x, [stack EXCEPT ![Len(stack)].todo = top.todo \ {x}])
    /\ UNCHANGED <<edges, comp, limit, todo>>

\* mutant: the call returns without setting seen[node] = 1
ReturnStaysOpen ==
    /\ stack # << >>
    /\ stack[Len(stack)].todo = {}
    /\ stack' = SubSeq(stack, 1, Len(stack) - 1)
    /\ UNCHANGED <<edges, comp, phase, limit, todo, seen, roots, leaves, warned>>

\* the innermost call has iterated all neighbours: seen[node] = 1, return
Return ==
    /\ stack # << >>
    /\ stack[Len(stack)].todo = {}
    /\ seen' = [seen EXCEPT ![stack[Len(stack)].node] = "closed"]
    /\ stack' = SubSeq(stack, 1, Len(stack) - 1)
    /\ UNCHANGED <<edges, comp, phase, limit, todo, roots, leaves, warned>>

\* mutant: get_leaves iterating over every node of the graph
StartLeavesAllNodes ==
    /\ phase = "roots"
    /\ todo = {} /\ stack = << >>
    /\ phase' = "leaves"
    /\ todo' = Node
    /\ seen' = [n \in Node |-> "absent"]
    /\ UNCHANGED <<edges, comp, limit, stack, roots, leaves, warned>>

\* get_roots returned; print_verilog filters the roots and, when some are
\* left, calls get_leaves, which starts with a fresh `seen`
StartLeaves ==
    /\ phase = "roots"
    /\ todo = {} /\ stack = << >>
    /\ phase' = "leaves"
    /\ todo' = comp
    /\ seen' = [n \in Node |-> "absent"]
    /\ UNCHANGED <<edges, comp, limit, stack, roots, leaves, warned>>

\* get_leaves returned
Finish ==
    /\ phase = "leaves"
    /\ todo = {} /\ stack = << >>
    /\ phase' = "done"
    /\ UNCHANGED <<edges, comp, limit, todo, stack, seen, roots, leaves, warned>>


Next == OuterVisit \/ ChildVisit \/ Return \/ StartLeaves \/ Finish

Spec == Init /\ [][Next]_vars /\ WF_vars(Next)

-----------------------------------------------------------------------------
TypeOK ==
    /\ edges \subseteq Node \X Node
    /\ comp \subseteq Node
    /\ phase \in Phases \cup {"done", "crashed"}
    /\ limit \in RecursionLimits
    /\ todo \subseteq comp
    /\ \A i \in 1..Len(stack) : stack[i].node \in comp /\ stack[i].todo \subseteq comp
    /\ seen \in [Node -> {"absent", "open", "closed"}]
    /\ roots \subseteq comp /\ leaves \subseteq comp
    /\ warned \in [Phases -> SUBSET comp]

\* get_roots returns exactly the nodes of the component with no driver, and
\* get_leaves exactly those with no load, whatever the iteration order and
\* however cyclic the component is (the early return on a seen node must
\* not hide a node that no other call reaches).
ResultsExact ==
    /\ phase \in {"leaves", "done"} => roots = RootsRef(edges, comp)
    /\ phase = "done" => leaves = LeavesRef(edges, comp)

\* The cycle warning of visit() is sound and complete: a warning only ever
\* names a node that lies on a directed cycle, and once a walk is over it
\* has warned exactly when the component holds a directed cycle.  This is
\* what the three-valued `seen` (0 while on the stack, 1 after) is for.
CycleWarning ==
    /\ \A p \in Phases : \A n \in warned[p] : OnCycle(edges, n)
    /\ phase = "done" =>
         \A p \in Phases : (warned[p] # {}) <=> HasCycleIn(edges, comp)

\* The recursion of visit() is never deeper than the component is large:
\* the active calls are distinct nodes, each reached from its caller in the
\* walk's direction, and while a walk runs they are exactly the nodes in
\* state 0.  A cycle never makes the recursion deeper.
StackSimplePath ==
    /\ \A i, j \in 1..Len(stack) : i # j => stack[i].node # stack[j].node
    /\ \A i \in 1..Len(stack) - 1 : stack[i + 1].node \in Adj(phase, stack[i].node)
    /\ phase \in Phases =>
          {stack[i].node : i \in 1..Len(stack)} = {n \in Node : seen[n] = "open"}

\* visit() raises RecursionError only on a component that holds a directed
\* path through more distinct nodes than the frames it may use: a cycle or
\* a reconvergent path never deepens the recursion, because `seen` stops
\* the walk at every node already entered.
RecursionOnlyOnLongPath ==
    phase = "crashed" => HasSimplePathIn(edges, comp, limit + 1)

\* spec.md section 8: on a graph with a directed cycle the root/leaf
\* computation "must still return a non-empty result"; checked for roots.
CycleStillHasRoot ==
    phase \in {"leaves", "done"} /\ HasCycleIn(edges, comp) => roots # {}
=============================================================================
