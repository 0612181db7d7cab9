----------------------------- MODULE Components -----------------------------
(***************************************************************************)
(* ConnectionGraph.get_components (tools/ecp_vlog.py).  The outer loop     *)
(* runs over the keys of edges_rev and then over the keys of edges_fwd;    *)
(* each key not yet seen starts a new Component, filled by the recursive   *)
(* visit(node, component), which adds the node and recurses into its       *)
(* edges_fwd and then its edges_rev neighbours.  The component is appended *)
(* to the result list when the outermost visit returns.                    *)
(*                                                                         *)
(* Recursion is an explicit stack of frames [node, fwd, rev] holding the   *)
(* neighbours the frame has still to iterate; set iteration order is a     *)
(* nondeterministic choice.                                                *)
(***************************************************************************)
EXTENDS ConnectionGraph, Naturals, Sequences, FiniteSets

VARIABLES
    edges,       \* the ConnectionGraph
    loop,        \* "rev", "fwd": which dict the outer loop iterates; "done"
    todo,        \* keys of that dict not yet iterated
    seen,        \* the set `seen`
    current,     \* component.nodes of the component being filled
    stack,       \* active visit() calls, innermost last
    components   \* the returned list

vars == <<edges, loop, todo, seen, current, stack, components>>

\* mutant: the node is put in the component but not in `seen`
VisitNewNoSeen(x, st) ==
    /\ x \notin seen
    /\ current' = current \cup {x}
    /\ stack' = Append(st, [node |-> x, fwd |-> EdgesFwd(edges, x),
                                        rev |-> EdgesRev(edges, x)])
    /\ UNCHANGED seen

\* visit(node, component) on a node not seen before
VisitNew(x, st) ==
    /\ x \notin seen
    /\ seen' = seen \cup {x}
    /\ current' = current \cup {x}
    /\ stack' = Append(st, [node |-> x, fwd |-> EdgesFwd(edges, x),
                                        rev |-> EdgesRev(edges, x)])

\* visit(node, component) on a seen node returns at once
VisitSeen(x, st) ==
    /\ x \in seen
    /\ stack' = st
    /\ UNCHANGED <<seen, current>>

Init ==
    /\ edges \in SUBSET (Node \X Node)
    /\ loop = "rev"
    /\ todo = RevKeys(edges)
    /\ seen = {}
    /\ current = {}
    /\ stack = << >>
    /\ components = << >>

\* `for node in edges: if node in seen: continue`
OuterSkip ==
    /\ loop \in {"rev", "fwd"} /\ stack = << >>
    /\ \E x \in todo \cap seen : todo' = todo \ {x}
    /\ UNCHANGED <<edges, loop, seen, current, stack, components>>

\* `component = Component(self); visit(node, component)`
OuterStart ==
    /\ loop \in {"rev", "fwd"} /\ stack = << >>
    /\ \E x \in todo \ seen :
        /\ todo' = todo \ {x}
        /\ VisitNew(x, << >>)
    /\ UNCHANGED <<edges, loop, components>>

\* one iteration of `for x in self.edges_fwd[node]: visit(x, component)`
VisitFwd ==
    /\ stack # << >>
    /\ LET top == stack[Len(stack)] IN
       \E x \in top.fwd :
          LET st == [stack EXCEPT ![Len(stack)].fwd = top.fwd \ {x}] IN
          VisitNew(x, st) \/ VisitSeen(x, st)
    /\ UNCHANGED <<edges, loop, todo, components>>

\* mutant: the edges_rev loop dropped, as if edges were directed
VisitRevDropped ==
    /\ stack # << >>
    /\ stack[Len(stack)].fwd = {} /\ stack[Len(stack)].rev # {}
    /\ stack' = [stack EXCEPT ![Len(stack)].rev = {}]
    /\ UNCHANGED <<edges, loop, todo, seen, current, components>>

\* one iteration of `for x in self.edges_rev[node]: visit(x, component)`,
\* once the edges_fwd loop of the frame is over
VisitRev ==
    /\ stack # << >>
    /\ LET top == stack[Len(stack)] IN
       /\ top.fwd = {}
       /\ \E x \in top.rev :
            LET st == [stack EXCEPT ![Len(stack)].rev = top.rev \ {x}] IN
            VisitNew(x, st) \/ VisitSeen(x, st)
    /\ UNCHANGED <<edges, loop, todo, components>>

\* an inner visit returns to its caller
Return ==
    /\ Len(stack) > 1
    /\ stack[Len(stack)].fwd = {} /\ stack[Len(stack)].rev = {}
    /\ stack' = SubSeq(stack, 1, Len(stack) - 1)
    /\ UNCHANGED <<edges, loop, todo, seen, current, components>>

\* mutant: a fresh `seen` for every component
ReturnOuterResetSeen ==
    /\ Len(stack) = 1
    /\ stack[1].fwd = {} /\ stack[1].rev = {}
    /\ stack' = << >>
    /\ components' = Append(components, current)
    /\ current' = {}
    /\ seen' = {}
    /\ UNCHANGED <<edges, loop, todo>>

\* the outermost visit returns: components.append(component)
ReturnOuter ==
    /\ Len(stack) = 1
    /\ stack[1].fwd = {} /\ stack[1].rev = {}
    /\ stack' = << >>
    /\ components' = Append(components, current)
    /\ current' = {}
    /\ UNCHANGED <<edges, loop, todo, seen>>

\* the loop over edges_rev is over; iterate over edges_fwd
NextDict ==
    /\ loop = "rev" /\ todo = {} /\ stack = << >>
    /\ loop' = "fwd"
    /\ todo' = FwdKeys(edges)
    /\ UNCHANGED <<edges, seen, current, stack, components>>

\* get_components returns
Finish ==
    /\ loop = "fwd" /\ todo = {} /\ stack = << >>
    /\ loop' = "done"
    /\ UNCHANGED <<edges, todo, seen, current, stack, components>>

Next == \/ OuterSkip \/ OuterStart \/ VisitFwd \/ VisitRev \/ Return
        \/ ReturnOuter \/ NextDict \/ Finish

Spec == Init /\ [][Next]_vars /\ WF_vars(Next)

-----------------------------------------------------------------------------
TypeOK ==
    /\ edges \subseteq Node \X Node
    /\ loop \in {"rev", "fwd", "done"}
    /\ todo \subseteq Node /\ seen \subseteq Node /\ current \subseteq seen
    /\ \A i \in 1..Len(stack) : stack[i].node \in seen
    /\ \A i \in 1..Len(components) : components[i] \subseteq seen

\* The refinement mapping: the returned list, read as a set, is the result
\* of NetPartition once get_components has returned.
Abstract == INSTANCE NetPartition
    WITH result   <- IF loop = "done"
                     THEN {components[i] : i \in 1..Len(components)} ELSE {},
         finished <- loop = "done"

\* get_components implements NetPartition: it returns, and when it does
\* its list holds exactly the connected components of the graph.
ImplementsPartition == Abstract!Spec

\* No node is put in two components of the list and no component is
\* listed twice: the `seen` set is shared by every visit of the loop.
ComponentsDisjoint ==
    \A i, j \in 1..Len(components) :
        i # j => components[i] \cap components[j] = {}

\* The recursion of visit(node, component) is never deeper than the
\* component is large: the active calls are distinct nodes of the component
\* being filled, each an edges_fwd or edges_rev neighbour of its caller.
\* Only a simple path of about 1000 nodes reaches Python's recursion limit.
StackSimplePath ==
    /\ \A i, j \in 1..Len(stack) : i # j => stack[i].node # stack[j].node
    /\ \A i \in 1..Len(stack) : stack[i].node \in current
    /\ \A i \in 1..Len(stack) - 1 :
          stack[i + 1].node \in EdgesFwd(edges, stack[i].node) \cup EdgesRev(edges, stack[i].node)
=============================================================================
