----------------------------- MODULE Expansion -----------------------------
(***************************************************************************)
(* gen_config_graph (tools/ecp_vlog.py): the configured arcs of every tile *)
(* become config_graph; then arc_graph is built from them by visit_node,   *)
(* which adds the connections bit decoding does not show (zero-bit mux     *)
(* defaults, fixed BEL pins, fixed "=>" arcs, global clock feeds) and      *)
(* recurses, and by a second pass over the wires of every BEL met.         *)
(*                                                                         *)
(* The routing database is a set of constants over Node.  Wires are the    *)
(* wires rgraph knows, Missing the names visit_node fails to find (the     *)
(* KeyError branch), Pins the BEL pins and BelOf[p] the BEL of pin p (the  *)
(* node wire_to_node(bel[0]) the callback records).                        *)
(*                                                                         *)
(* visit_node recurses; a node is processed once (nodes_seen), and what    *)
(* one call adds and which calls it makes depend only on the node and the  *)
(* fixed config_graph, so the recursion is a work set: Visit runs the body *)
(* of one call, and its recursive calls join `work`.  The loop that calls  *)
(* visit_node waits for `work` to drain, as the call returns only then.    *)
(***************************************************************************)
EXTENDS ConnectionGraph, FiniteSets

CONSTANTS
    Wires, Missing, Pins,
    BelOf,          \* [Pins -> Node]
    BelsUphill,     \* [Wires -> SUBSET Pins]: rwire.belsUphill
    BelsDownhill,   \* [Wires -> SUBSET Pins]: rwire.belsDownhill
    FixedArcs,      \* <<source, sink>> of the "=>" arcs of rgraph
    ZeroBit,        \* [Wires -> SUBSET Node]: get_zero_bit_arcs, per sink
    GlobalFeed,     \* [Wires -> SUBSET Node]: the G_HPBX/G_VPTX/G_HPRX feed
    ConfigArcs,     \* the arcs bit decoding may report (tilecfg.carcs)
    Unresolved,     \* carcs whose name rtile.arcs does not hold
    Ccu2Arcs,       \* [<<F[5X]n_SLICE, Fn>> -> Fn_SLICE] of a slice in CCU2 mode
    DroppedPins     \* RXDATA/TXDATA pins invalid for the gearing mode

VARIABLES
    ccu2,       \* the slice MODE enum is CCU2
    carcs,      \* the configured arcs of the bitstream
    phase,      \* "config", "visit", "bels", "done", "crashed"
    todo,       \* carcs, then config edges, then bels_todo, not yet iterated
    cfg,        \* config_graph
    arc,        \* arc_graph
    seen,       \* nodes_seen
    work,       \* visit_node calls made and not yet run
    belsTodo    \* bels_todo

vars == <<ccu2, carcs, phase, todo, cfg, arc, seen, work, belsTodo>>

-----------------------------------------------------------------------------
\* mutant: the CCU2 rewrite applied without reading the slice's MODE enum
FilteredEdgeNoMode(s, t) ==
    CASE <<s, t>> \in DOMAIN Ccu2Arcs -> {<<Ccu2Arcs[<<s, t>>], t>>}
      [] s \in DroppedPins \/ t \in DroppedPins -> {}
      [] OTHER -> {<<s, t>>}

\* add_edge of gen_config_graph: the edges it inserts for <<source, sink>>.
\* F[5X]n_SLICE -> Fn of a CCU2 slice becomes Fn_SLICE -> Fn; an edge from
\* an RXDATA pin or to a TXDATA pin invalid for the gearing is dropped.
FilteredEdge(s, t) ==
    CASE ccu2 /\ <<s, t>> \in DOMAIN Ccu2Arcs -> {<<Ccu2Arcs[<<s, t>>], t>>}
      [] s \in DroppedPins \/ t \in DroppedPins -> {}
      [] OTHER -> {<<s, t>>}

AddEdges(E, pairs) == E \cup UNION {FilteredEdge(p[1], p[2]) : p \in pairs}

\* the calls and edges of one visit_node(node) on a node rgraph knows
ZeroBitPairs(n) ==
    IF n \notin RevKeys(cfg) THEN {<<s, n>> : s \in ZeroBit[n]} ELSE {}
BelPairs(n) ==
    {<<p, n>> : p \in BelsUphill[n]} \cup {<<n, p>> : p \in BelsDownhill[n]}
FixedPairs(n) == {a \in FixedArcs : n \in {a[1], a[2]}}
GlobalPairs(n) == {<<g, n>> : g \in GlobalFeed[n]}

Calls(n) ==
    {p[1] : p \in ZeroBitPairs(n) \cup GlobalPairs(n)}
    \cup {a[1] : a \in FixedPairs(n)} \cup {a[2] : a \in FixedPairs(n)}

\* the edges between a BEL and the wires of its tile (second pass)
BelWirePairs(b) ==
    UNION {{<<p, w>> : p \in {q \in BelsUphill[w] : BelOf[q] = b}}
           \cup {<<w, p>> : p \in {q \in BelsDownhill[w] : BelOf[q] = b}} : w \in Wires}

-----------------------------------------------------------------------------
Init ==
    /\ ccu2 \in BOOLEAN
    /\ carcs \in SUBSET ConfigArcs
    /\ phase = "config"
    /\ todo = carcs
    /\ cfg = {}
    /\ arc = {}
    /\ seen = {}
    /\ work = {}
    /\ belsTodo = {}

\* for arc in tiledata.cfg.carcs: rtile.arcs[...] -> add_edge(config_graph)
ConfigArc ==
    /\ phase = "config"
    /\ \E a \in todo \ Unresolved :
        /\ todo' = todo \ {a}
        /\ cfg' = AddEdges(cfg, {a})
    /\ UNCHANGED <<ccu2, carcs, phase, arc, seen, work, belsTodo>>

\* rtile.arcs[...] raises KeyError: nothing catches it
ConfigLookupFails ==
    /\ phase = "config"
    /\ \E a \in todo : a \in Unresolved
    /\ phase' = "crashed"
    /\ UNCHANGED <<ccu2, carcs, todo, cfg, arc, seen, work, belsTodo>>

\* the config graph is built; iterate over its edges
StartVisit ==
    /\ phase = "config" /\ todo = {}
    /\ phase' = "visit"
    /\ todo' = cfg
    /\ UNCHANGED <<ccu2, carcs, cfg, arc, seen, work, belsTodo>>

\* mutant: the configured edge is visited but not added to arc_graph
VisitConfigEdgeNoAdd ==
    /\ phase = "visit" /\ work = {}
    /\ \E e \in todo :
        /\ todo' = todo \ {e}
        /\ work' = {e[1], e[2]}
    /\ UNCHANGED <<ccu2, carcs, phase, cfg, arc, seen, belsTodo>>

\* for each config edge: add_edge(arc_graph, ...), visit_node(source),
\* visit_node(sink), once the calls of the previous edge have returned
VisitConfigEdge ==
    /\ phase = "visit" /\ work = {}
    /\ \E e \in todo :
        /\ todo' = todo \ {e}
        /\ arc' = AddEdges(arc, {e})
        /\ work' = {e[1], e[2]}
    /\ UNCHANGED <<ccu2, carcs, phase, cfg, seen, belsTodo>>

\* visit_node on a node already visited returns at once
VisitSeen ==
    /\ \E n \in work \cap seen : work' = work \ {n}
    /\ UNCHANGED <<ccu2, carcs, phase, todo, cfg, arc, seen, belsTodo>>

\* visit_node on a node rgraph does not hold: "Error: failed to find node"
VisitMissing ==
    /\ \E n \in (work \ seen) \ Wires :
        /\ seen' = seen \cup {n}
        /\ work' = work \ {n}
    /\ UNCHANGED <<ccu2, carcs, phase, todo, cfg, arc, belsTodo>>

\* mutant: the callback is given the BEL pin, not the BEL
VisitRecordsPin ==
    /\ \E n \in (work \ seen) \cap Wires :
        /\ seen' = seen \cup {n}
        /\ arc' = AddEdges(arc, ZeroBitPairs(n) \cup BelPairs(n)
                                \cup FixedPairs(n) \cup GlobalPairs(n))
        /\ work' = (work \ {n}) \cup Calls(n)
        /\ belsTodo' = IF phase = "visit"
                       THEN belsTodo \cup BelsUphill[n] \cup BelsDownhill[n]
                       ELSE belsTodo
    /\ UNCHANGED <<ccu2, carcs, phase, todo, cfg>>

\* mutant: nodes_seen.add(node) forgotten
VisitNoMemo ==
    /\ \E n \in (work \ seen) \cap Wires :
        /\ arc' = AddEdges(arc, ZeroBitPairs(n) \cup BelPairs(n)
                                \cup FixedPairs(n) \cup GlobalPairs(n))
        /\ work' = (work \ {n}) \cup Calls(n)
        /\ belsTodo' = IF phase = "visit"
                       THEN belsTodo \cup {BelOf[p] : p \in BelsUphill[n] \cup BelsDownhill[n]}
                       ELSE belsTodo
    /\ UNCHANGED <<ccu2, carcs, phase, todo, cfg, seen>>

\* the body of visit_node(node, bel_func): zero-bit defaults when the node
\* has no configured driver, BEL pins (recording their BEL in the first
\* pass), fixed arcs and global feeds; each source or endpoint so reached
\* is visited in turn
Visit ==
    /\ \E n \in (work \ seen) \cap Wires :
        /\ seen' = seen \cup {n}
        /\ arc' = AddEdges(arc, ZeroBitPairs(n) \cup BelPairs(n)
                                \cup FixedPairs(n) \cup GlobalPairs(n))
        /\ work' = (work \ {n}) \cup Calls(n)
        /\ belsTodo' = IF phase = "visit"
                       THEN belsTodo \cup {BelOf[p] : p \in BelsUphill[n] \cup BelsDownhill[n]}
                       ELSE belsTodo
    /\ UNCHANGED <<ccu2, carcs, phase, todo, cfg>>

\* mutant: the second pass over bels_todo left out
StartBelsSkipped ==
    /\ phase = "visit" /\ todo = {} /\ work = {}
    /\ phase' = "bels"
    /\ todo' = {}
    /\ UNCHANGED <<ccu2, carcs, cfg, arc, seen, work, belsTodo>>

\* the configured arcs are expanded; iterate over the BELs recorded
StartBels ==
    /\ phase = "visit" /\ todo = {} /\ work = {}
    /\ phase' = "bels"
    /\ todo' = belsTodo
    /\ UNCHANGED <<ccu2, carcs, cfg, arc, seen, work, belsTodo>>

\* mutant: the second pass inserts with graph.add_edge, bypassing the filter
BelWiresUnfiltered ==
    /\ phase = "bels" /\ work = {}
    /\ \E b \in todo :
        /\ todo' = todo \ {b}
        /\ arc' = arc \cup BelWirePairs(b)
        /\ work' = {IF p[1] \in Wires THEN p[1] ELSE p[2] : p \in BelWirePairs(b)}
    /\ UNCHANGED <<ccu2, carcs, phase, cfg, seen, belsTodo>>

\* one BEL of the second pass: link every wire of its tile wired to it and
\* visit that wire with a callback that records nothing
BelWires ==
    /\ phase = "bels" /\ work = {}
    /\ \E b \in todo :
        /\ todo' = todo \ {b}
        /\ arc' = AddEdges(arc, BelWirePairs(b))
        /\ work' = {IF p[1] \in Wires THEN p[1] ELSE p[2] : p \in BelWirePairs(b)}
    /\ UNCHANGED <<ccu2, carcs, phase, cfg, seen, belsTodo>>

\* gen_config_graph returns arc_graph
Finish ==
    /\ phase = "bels" /\ todo = {} /\ work = {}
    /\ phase' = "done"
    /\ UNCHANGED <<ccu2, carcs, todo, cfg, arc, seen, work, belsTodo>>

Next == \/ ConfigArc \/ ConfigLookupFails \/ StartVisit \/ VisitConfigEdge
        \/ VisitSeen \/ VisitMissing \/ Visit \/ StartBels \/ BelWires \/ Finish

Spec == Init /\ [][Next]_vars /\ WF_vars(Next)

-----------------------------------------------------------------------------
TypeOK ==
    /\ ccu2 \in BOOLEAN /\ carcs \subseteq ConfigArcs
    /\ phase \in {"config", "visit", "bels", "done", "crashed"}
    /\ cfg \subseteq Node \X Node /\ arc \subseteq Node \X Node
    /\ seen \subseteq Node /\ work \subseteq Node
    /\ belsTodo \subseteq {BelOf[p] : p \in Pins}

NodesOf(E) == FwdKeys(E) \cup RevKeys(E)

\* Every routing wire of the returned graph has been expanded, so its fixed
\* arcs, BEL pins and zero-bit defaults are in the graph, although an edge
\* may be rewritten by the filter to a source visit_node is never called on
\* (it visits the source before the rewrite): the second pass over the BELs
\* must catch those wires.
ExpandedClosure ==
    phase = "done" => NodesOf(arc) \cap Wires \subseteq seen

\* An edge reaches the graph only through the filtering add_edge: no edge
\* of config_graph or arc_graph touches a data pin the gearing disables,
\* at any of the six places the code inserts edges.
NoDisabledDataPin ==
    \A e \in cfg \cup arc : e[1] \notin DroppedPins /\ e[2] \notin DroppedPins

\* The configured connections survive expansion: every edge of
\* config_graph is an edge of the returned arc_graph (the filter is applied
\* to them a second time).
ConfigKept == phase = "done" => cfg \subseteq arc

\* spec.md 4.4: a configured connection that the routing database cannot
\* resolve is logged and skipped, "never fatal".
ConfigLookupNeverFatal == phase # "crashed"

\* gen_config_graph returns (or raises) on every database and bitstream.
Termination == <>(phase \in {"done", "crashed"})
=============================================================================
