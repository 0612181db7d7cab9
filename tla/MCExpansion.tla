---------------------------- MODULE MCExpansion ----------------------------
(***************************************************************************)
(* A slice and an IOLOGIC in a small fabric.                               *)
(*   SLICEA drives F5A_SLICE (pin OFX0) and F1_SLICE (pin F1), reads A0    *)
(*   and CLK; F1 is a mux whose zero-bit default is F5A_SLICE; in CCU2     *)
(*   mode the arc F5A_SLICE -> F1 is rewritten to F1_SLICE -> F1.          *)
(*   IOLOGICA's RXDATA4 and IOLOGICB's RXDATA0 both drive wire rx; the     *)
(*   gearing is not 7:1, so RXDATA4 is dropped.                            *)
(*   r1 is a routing wire, a0w the A0 input wire with zero-bit default r1, *)
(*   hpbx a G_HPBX clock wire fed from the tap wire, which has a fixed     *)
(*   "=>" arc from G_ULDDRDEL, a name rgraph does not hold.                *)
(*   The arc tap -> r1 decodes from the bits but rgraph has no such arc.   *)
(*                                                                         *)
(* Expansion takes the filter as the constants Ccu2Arcs and DroppedPins.   *)
(* FilterRefined checks them against the detailed filter of EdgeFilter,    *)
(* with the nodes encoded by the names add_edge matches on and the         *)
(* gearing of IOLOGIC pair AB that drops RXDATA4 (not 7:1).                *)
(***************************************************************************)
EXTENDS Expansion

CONSTANTS f5a, f1s, f1, r1, a0w, rx, hpbx, tap, gdel,   \* wires
          pOFX, pF1, pA0, pCLK, pRX4A, pRX0B,           \* BEL pins
          bSlice, bIolA, bIolB                          \* BELs

MCWires == {f5a, f1s, f1, r1, a0w, rx, hpbx, tap}
MCPins  == {pOFX, pF1, pA0, pCLK, pRX4A, pRX0B}
MCNode  == MCWires \cup MCPins \cup {gdel, bSlice, bIolA, bIolB}

MCBelOf == [p \in MCPins |->
    CASE p \in {pOFX, pF1, pA0, pCLK} -> bSlice
      [] p = pRX4A -> bIolA [] p = pRX0B -> bIolB]

MCBelsUphill == [w \in MCWires |->
    CASE w = f5a -> {pOFX} [] w = f1s -> {pF1} [] w = rx -> {pRX4A, pRX0B}
      [] OTHER -> {}]

MCBelsDownhill == [w \in MCWires |->
    CASE w = a0w -> {pA0} [] w = hpbx -> {pCLK} [] OTHER -> {}]

MCFixedArcs == {<<gdel, tap>>}

MCZeroBit == [w \in MCWires |->
    CASE w = f1 -> {f5a} [] w = a0w -> {r1} [] OTHER -> {}]

MCGlobalFeed == [w \in MCWires |-> IF w = hpbx THEN {tap} ELSE {}]

\* tap -> r1 is decoded from the bits but absent from rgraph's arcs
MCConfigArcs == {<<f5a, f1>>, <<f1, r1>>, <<r1, a0w>>, <<rx, r1>>, <<tap, hpbx>>,
                 <<tap, r1>>}

MCUnresolved == {<<tap, r1>>}

MCCcu2Arcs == [a \in {<<f5a, f1>>} |-> f1s]

\* the names the filter of add_edge reads: F5A_SLICE, F1, F1_SLICE,
\* IOLOGICA.RXDATA4, IOLOGICB.RXDATA0; any other node is an opaque wire
Enc(n) ==
    CASE n = f5a -> <<"F5", "A">> [] n = f1 -> <<"F", "1">> [] n = f1s -> <<"FS", "1">>
      [] n = pRX4A -> <<"RX", "A", 4>> [] n = pRX0B -> <<"RX", "B", 0>>
      [] OTHER -> <<"W", n>>

\* the filter with SLICEA's MODE enum read from ccu2, both IOLOGIC pairs'
\* enum tiles found and their gearing not 7:1
EF == INSTANCE EdgeFilter WITH
        Slices <- {"A"}, Digits <- {"1"}, Located <- {"AB", "CD"}, Arcs <- {},
        ccu2 <- [x \in {"A"} |-> ccu2],
        wide <- [k \in {"AB", "CD"} \X {"RX", "TX"} |-> FALSE],
        todo <- {}, graph <- {}

\* every <<source, sink>> the routing database can hand to add_edge
DbPairs ==
    MCConfigArcs \cup MCFixedArcs
    \cup UNION {{<<x, w>> : x \in MCZeroBit[w] \cup MCGlobalFeed[w] \cup MCBelsUphill[w]}
                \cup {<<w, p>> : p \in MCBelsDownhill[w]} : w \in MCWires}

\* The filter Expansion applies at its six insertion points, the CCU2 map
\* and the dropped pins, is the one add_edge computes: for every pair the
\* database can give and in either slice mode, both insert the same edges.
FilterRefined ==
    \A e \in DbPairs :
        {<<Enc(x[1]), Enc(x[2])>> : x \in FilteredEdge(e[1], e[2])}
            = EF!add_edge(Enc(e[1]), Enc(e[2]))
=============================================================================
