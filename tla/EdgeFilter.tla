----------------------------- MODULE EdgeFilter -----------------------------
(***************************************************************************)
(* The special-case filtering of gen_config_graph's add_edge and its       *)
(* helpers _filter_data_pin and _get_enum_value (tools/ecp_vlog.py), as    *)
(* the arcs of one location (configured arcs, BEL pins to their wires)    *)
(* are inserted into the graph.                                            *)
(*                                                                         *)
(* Nodes are tuples naming what the code matches on:                       *)
(*   <<"RX", u, i>> / <<"TX", u, i>>  pin RXDATA<i> / TXDATA<i> of         *)
(*                                    IOLOGIC<u>, u in A..D, i in 0..6     *)
(*   <<"F5", s>> / <<"FX", s>>        wires F5<s>_SLICE / FX<s>_SLICE      *)
(*   <<"FS", d>> / <<"F", d>>         wires F<d>_SLICE / F<d>              *)
(*   <<"W", k>>                       any other wire                       *)
(* The tile configuration is the state the filter reads: ccu2[s] holds     *)
(* when a PLC2 tile at the location has SLICE<s>.MODE = CCU2, wide[p, d]   *)
(* when IOLOGIC<p's first letter><IDDRXN|ODDRXN>.MODE is IDDR71/ODDR71,    *)
(* and Located the IOLOGIC pairs whose enum tile is found (for C/D it is   *)
(* looked up two rows down).  A missing enum reads as "not CCU2" and "not  *)
(* 7:1", which is what comparing None with a string gives.                 *)
(***************************************************************************)
EXTENDS Naturals, FiniteSets

CONSTANTS
    Slices,     \* slice letters of the location
    Digits,     \* the digits d (as strings) of the F<d> mux outputs
    Located,    \* IOLOGIC pairs ("AB", "CD") whose enum tile is found
    Arcs        \* the arcs <<source, sink>> add_edge is called with at the
                \* location: configured arcs and BEL-pin/wire arcs

Units == {"A", "B", "C", "D"}
Pairs == {"AB", "CD"}
Dirs  == {"RX", "TX"}

\* IOLOGIC[AC].[RT]XDATA[456] exist, [456][BD] do not
DataPins == {<<d, u, i>> \in Dirs \X Units \X (0..6) : i <= 3 \/ u \in {"A", "C"}}

NodeSet ==
    DataPins \cup ({"F5", "FX"} \X Slices) \cup ({"FS", "F"} \X Digits)
    \cup {<<"W", k>> : k \in 1..4}

ASSUME Arcs \subseteq NodeSet \X NodeSet

VARIABLES
    ccu2,    \* ccu2[s]: SLICE<s>.MODE = "CCU2" in the PLC2 tile
    wide,    \* wide[p, d]: 7:1 gearing of the pair p in direction d
    todo,    \* arcs of the tile configuration not yet added
    graph    \* the edges the ConnectionGraph received

vars == <<ccu2, wide, todo, graph>>

IsDataPin(n, d) == n[1] = d

\* mutant: the enum tile chosen by bel_id in "AC" instead of "AB"
filter_data_pinPairAC(n) ==
    LET u == n[2]
        i == n[3]
        pair == IF u \in {"A", "C"} THEN "AB" ELSE "CD"
        is71 == wide[pair, n[1]]
    IN  \/ u \in {"A", "C"} /\ i \in 0..3
        \/ pair \notin Located
        \/ i \in 4..6 /\ is71
        \/ i \in 0..3 /\ ~is71

\* _filter_data_pin: A/C pins 0-3 are always kept; otherwise the gearing of
\* the pair decides, and a pair whose enum tile is not found keeps the pin
filter_data_pin(n) ==
    LET u == n[2]
        i == n[3]
        pair == IF u \in {"A", "B"} THEN "AB" ELSE "CD"
        is71 == wide[pair, n[1]]
    IN  \/ u \in {"A", "C"} /\ i \in 0..3
        \/ pair \notin Located
        \/ i \in 4..6 /\ is71
        \/ i \in 0..3 /\ ~is71

\* mutant: the CCU2 source rebuilt from the slice letter, not the sink digit
add_edgeSliceName(s, t) ==
    IF s[1] \in {"F5", "FX"} /\ t[1] = "F"
    THEN {<<IF ccu2[s[2]] THEN <<"FS", s[2]>> ELSE s, t>>}
    ELSE IF IsDataPin(s, "RX") /\ ~filter_data_pin(s) THEN {}
    ELSE IF IsDataPin(t, "TX") /\ ~filter_data_pin(t) THEN {}
    ELSE {<<s, t>>}

\* mutant: the mode enum named after the sink, SLICE<sink.name[1]>.MODE,
\* which no tile has
add_edgeSinkEnum(s, t) ==
    IF s[1] \in {"F5", "FX"} /\ t[1] = "F"
    THEN {<<s, t>>}
    ELSE IF IsDataPin(s, "RX") /\ ~filter_data_pin(s) THEN {}
    ELSE IF IsDataPin(t, "TX") /\ ~filter_data_pin(t) THEN {}
    ELSE {<<s, t>>}

\* add_edge: the edges the graph receives for the arc s -> t (the elif
\* chain of the code); in CCU2 mode F[5X]<s>_SLICE -> F<d> is rewritten to
\* F<d>_SLICE -> F<d>
add_edge(s, t) ==
    IF s[1] \in {"F5", "FX"} /\ t[1] = "F"
    THEN {<<IF ccu2[s[2]] THEN <<"FS", t[2]>> ELSE s, t>>}
    ELSE IF IsDataPin(s, "RX") /\ ~filter_data_pin(s) THEN {}
    ELSE IF IsDataPin(t, "TX") /\ ~filter_data_pin(t) THEN {}
    ELSE {<<s, t>>}

Init ==
    /\ ccu2 \in [Slices -> BOOLEAN]
    /\ wide \in [Pairs \X Dirs -> BOOLEAN]
    /\ todo = Arcs
    /\ graph = {}

\* one call of add_edge: a configured arc (the carcs loop, 320-324) or an
\* arc between a BEL pin and its wire (the second pass, 424-436)
AddArc ==
    /\ \E a \in todo :
        /\ todo' = todo \ {a}
        /\ graph' = graph \cup add_edge(a[1], a[2])
    /\ UNCHANGED <<ccu2, wide>>

Next == AddArc

Spec == Init /\ [][Next]_vars /\ WF_vars(Next)

-----------------------------------------------------------------------------
(* Reference: the rule table of the gearing mutual exclusion.              *)

\* a data pin exists for the configured gearing: indices 0-3 of A/C always,
\* 4-6 only in the wider mode, 0-3 of B/D only in the narrower one
ValidIndex(u, i, isWide) ==
    IF i \in 4..6 THEN isWide ELSE u \in {"A", "C"} \/ ~isWide

PairOf(u) == IF u \in {"A", "B"} THEN "AB" ELSE "CD"

\* the data pin of a configured arc that the filter looks at
FilteredPin(a) ==
    IF IsDataPin(a[1], "RX") THEN a[1] ELSE a[2]

DataArcs == {a \in Arcs : IsDataPin(a[1], "RX") \/ IsDataPin(a[2], "TX")}

-----------------------------------------------------------------------------
TypeOK ==
    /\ ccu2 \in [Slices -> BOOLEAN]
    /\ wide \in [Pairs \X Dirs -> BOOLEAN]
    /\ todo \subseteq Arcs
    /\ graph \subseteq NodeSet \X NodeSet

\* Once every arc is inserted, a data-pin arc of a pair whose gearing enum
\* is found is in the graph exactly when the rule table makes its pin
\* valid for that gearing: the filter drops no valid pin and keeps no pin
\* aliased away by the other gearing.
GearingRespected ==
    todo = {} =>
        \A a \in DataArcs :
            LET p == FilteredPin(a) IN
            PairOf(p[2]) \in Located =>
                (a \in graph <=> ValidIndex(p[2], p[3], wide[PairOf(p[2]), p[1]]))

\* Once every arc is inserted, an F5/FX -> F<d> arc of a slice in CCU2 mode
\* is present only as F<d>_SLICE -> F<d>, and in any other mode as
\* configured.
Ccu2Rewritten ==
    todo = {} =>
        \A a \in Arcs : a[1][1] \in {"F5", "FX"} /\ a[2][1] = "F" =>
            IF ccu2[a[1][2]]
            THEN a \notin graph /\ <<<<"FS", a[2][2]>>, a[2]>> \in graph
            ELSE a \in graph

\* The comment of _filter_data_pin: RXDATA<i+4> of A (C) and RXDATA<i> of
\* B (D) are hardwired together, and the filter picks one of the two so
\* that the shared wire never has two drivers.
AliasedDriversExclusive ==
    \A a, b \in graph :
        ~ /\ IsDataPin(a[1], "RX") /\ IsDataPin(b[1], "RX")
          /\ a[2] = b[2]
          /\ PairOf(a[1][2]) = PairOf(b[1][2])
          /\ a[1][2] \in {"A", "C"} /\ b[1][2] \in {"B", "D"}
          /\ a[1][3] = b[1][3] + 4
=============================================================================
