-------------------------- MODULE ConnectionGraph --------------------------
(***************************************************************************)
(* The ConnectionGraph of tools/ecp_vlog.py: a directed graph of Nodes     *)
(* kept as two maps, edges_fwd (source -> sinks) and edges_rev (sink ->    *)
(* sources).  add_edge is the only writer and inserts into both maps at    *)
(* once, so one set of <<source, sink>> pairs stands for both maps: the    *)
(* keys of edges_fwd are the sources of some edge, the keys of edges_rev   *)
(* the sinks of some edge.                                                 *)
(*                                                                         *)
(* The second half of the module gives the reference definitions the       *)
(* traversals of the code are checked against: a least fixpoint for the  *)
(* components, the Graphs module for paths and cycles.                     *)
(***************************************************************************)
LOCAL INSTANCE FiniteSets
LOCAL INSTANCE Naturals
LOCAL Fn == INSTANCE Functions
LOCAL Gr == INSTANCE Graphs

CONSTANT Node            \* the nodes (wires and BEL pins) of the device

\* add_edge(source, sink): edges_fwd[source].add(sink); edges_rev[sink].add(source)
add_edge(E, source, sink) == E \cup {<<source, sink>>}

\* edges_fwd[n] and edges_rev[n]; a missing key reads as the empty set
EdgesFwd(E, n) == {m \in Node : <<n, m>> \in E}
EdgesRev(E, n) == {m \in Node : <<m, n>> \in E}

\* the keys of the two defaultdicts
FwdKeys(E) == {e[1] : e \in E}
RevKeys(E) == {e[2] : e \in E}

-----------------------------------------------------------------------------
(* Reference definitions.                                                  *)

GraphOf(E) == [node |-> Node, edge |-> E]

\* the smallest superset of X closed under edges taken in either direction
RECURSIVE Connected(_, _)
Connected(E, X) ==
    LET Y == X \cup {m \in Node : \E x \in X : <<x, m>> \in E \/ <<m, x>> \in E}
    IN  IF Y = X THEN X ELSE Connected(E, Y)

\* the connected component of n, edges taken as undirected
ComponentRef(E, n) == Connected(E, {n})

\* every component of the graph: one per node that appears on some edge
ComponentsRef(E) == {ComponentRef(E, n) : n \in FwdKeys(E) \cup RevKeys(E)}

\* drivers (no incoming edge) and loads (no outgoing edge) of a component
RootsRef(E, C)  == {n \in C : EdgesRev(E, n) = {}}
LeavesRef(E, C) == {n \in C : EdgesFwd(E, n) = {}}

\* the component holds a directed cycle
HasCycleIn(E, C) == Gr!HasCycle([node |-> C, edge |-> E \cap (C \X C)])

\* the component holds a directed path through k distinct nodes
HasSimplePathIn(E, C, k) ==
    \E p \in [1..k -> C] :
        Fn!IsInjective(p) /\ \A i \in 1..k - 1 : <<p[i], p[i + 1]>> \in E

\* n lies on a directed cycle: some successor of n leads back to n
OnCycle(E, n) ==
    LET C == Gr!ConnectionsIn(GraphOf(E)) IN \E m \in EdgesFwd(E, n) : C[m, n]
=============================================================================
