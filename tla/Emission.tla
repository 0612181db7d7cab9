------------------------------ MODULE Emission ------------------------------
(***************************************************************************)
(* print_verilog and its helpers filter_node, Module.create_from_node and  *)
(* Module._print_parameters (tools/ecp_vlog.py): the nets of the expanded  *)
(* graph become instance pin bindings, top-level ports and wires.          *)
(*                                                                         *)
(* A Node is a model value; ModName[n] is its mod_name R<y>C<x>_<name>     *)
(* (the BEL or wire it belongs to) and PinOf[n] its pin name, NoPin for a  *)
(* bare wire.  Name tests of the code are sets: SliceMods / EbrMods are    *)
(* the mod_names starting with SLICE / EBR, EclkMods those containing      *)
(* _ECLKSYNC, InternalPins the pins IOLDO*, IOLTO* and INDD.  NoTile are   *)
(* the block mod_names whose location holds no tile of the expected type.  *)
(*                                                                         *)
(* Components, roots and leaves are taken from the reference definitions   *)
(* of ConnectionGraph, which Components.tla and RootsLeaves.tla show the   *)
(* code computes.  The components are processed in any order (the code     *)
(* sorts them by first root; every order is covered).                      *)
(*                                                                         *)
(* The names the module text gives nodes are str(node): main's rename      *)
(* table mod_renames, built from the package's pins and the LPF map        *)
(* parse_lpf returns, applied to the mod_name, then "$" and the pin.  The  *)
(* table "only affects str(node)", as main notes, so it is a parameter of  *)
(* the names, not state.  A name is the pair of the renamed mod_name, tagged    *)
(* "pkg", "esc" (an LPF comp after "") or "mod" (not renamed), and the    *)
(* pin: no label holds a "$", so the string tells the parts apart as well. *)
(***************************************************************************)
EXTENDS ConnectionGraph, Naturals, FiniteSets

CONSTANTS
    Mod, Pin, NoPin, NoNode,
    ModName, PinOf,
    SliceMods, EbrMods, EclkMods, InternalPins, NoTile,
    Fields,        \* cenums/cwords of the tiles: [bel : Mod, name : STRING],
                   \* name being the part after "<bel>." with "." made "_"
    CandidateEdge, \* the edges the routing database can put in the graph
    PkgPins,       \* iodb["packages"][package]: the package pin names
    PinSite,       \* PinSite[p]: <<PIO mod_name, IOLOGIC mod_name>> at p's site
    Comps, NoComp  \* the LPF comp names; a pin no LOCATE names

ASSUME /\ ModName \in [Node -> Mod] /\ PinOf \in [Node -> Pin \cup {NoPin}]
       /\ CandidateEdge \subseteq Node \X Node
       \* a node is named by its mod_name and pin
       /\ \A m, n \in Node : ModName[m] = ModName[n] /\ PinOf[m] = PinOf[n] => m = n
       \* the package pins are at distinct sites
       /\ PinSite \in [PkgPins -> Mod \X Mod]
       /\ \A p, q \in PkgPins : p # q => PinSite[p][1] # PinSite[q][1]

VARIABLES
    edges,      \* the expanded ConnectionGraph
    phase,      \* "collect", "prune", "done", or "aborted" (exception)
    pending,    \* nets of sorted_components not yet processed
    unhandled,  \* multi-root nets printed as unhandled
    sources,    \* mod_sources
    sinks,      \* mod_sinks: leaf -> root, NoNode where absent
    globals,    \* mod_globals
    modules,    \* the keys of `modules` (mod_names of created instances)
    pinMap      \* modules[m].pin_map[p], NoNode where absent

vars == <<edges, phase, pending, unhandled, sources, sinks, globals, modules, pinMap>>

\* mutant: filter_node without the IOLDO/IOLTO and INDD tests
filter_nodeKeepsInternal(n) ==
    /\ PinOf[n] # NoPin
    /\ ModName[n] \notin EclkMods

\* filter_node: a node is a net endpoint when it is a BEL pin that is not an
\* ECLKSYNC shadow, not an internal IOLOGIC<->PIO pin and not INDD
filter_node(n) ==
    /\ PinOf[n] # NoPin
    /\ ModName[n] \notin EclkMods
    /\ PinOf[n] \notin InternalPins

\* the loop of main over the package pins: a pin's name, or "\" and the
\* comp the LPF locates at it, becomes the name of its PIO and its IOLOGIC;
\* lpf is lpf_map restricted to the package pins
PinName(lpf, p) == IF lpf[p] # NoComp THEN <<"esc", lpf[p]>> ELSE <<"pkg", p>>
ModRename(lpf, m) ==
    IF \E p \in PkgPins : m \in {PinSite[p][1], PinSite[p][2]}
    THEN PinName(lpf, CHOOSE p \in PkgPins : m \in {PinSite[p][1], PinSite[p][2]})
    ELSE <<"mod", m>>

\* Node.__str__: mod_name_map.get(mod_name, mod_name), "$", pin_name
Display(lpf, n) == <<ModRename(lpf, ModName[n]), PinOf[n]>>

\* Module.create_from_node recognises a BEL by its name
IsBlock(m) == m \in SliceMods \cup EbrMods

\* sorted_components: filtered roots and leaves of every component, the
\* components with no filtered root or no filtered leaf dropped
Nets(E) ==
    LET all == {[roots  |-> {n \in RootsRef(E, C) : filter_node(n)},
                 leaves |-> {n \in LeavesRef(E, C) : filter_node(n)}] :
                C \in ComponentsRef(E)}
    IN  {c \in all : c.roots # {} /\ c.leaves # {}}

Endpoints(c) == c.roots \cup c.leaves

\* mutant: the for/else of create_from_node without its raise
TilesFoundAlways(c) == TRUE

\* create_from_node finds a tile of the expected type (PLC2 for a slice,
\* MIB_EBR for an EBR) at the location of every BEL the net reaches
TilesFound(c) == \A n \in Endpoints(c) : IsBlock(ModName[n]) => ModName[n] \notin NoTile

Init ==
    /\ edges \in SUBSET CandidateEdge
    /\ phase = "collect"
    /\ pending = Nets(edges)
    /\ unhandled = {}
    /\ sources = {}
    /\ sinks = [n \in Node |-> NoNode]
    /\ globals = {}
    /\ modules = {}
    /\ pinMap = [k \in Mod \X Pin |-> NoNode]

\* mutant: the multi-root test placed after mod_sources.add(roots[0]) and
\* the mod_sinks loop
CollectMultiRootLeaky ==
    /\ phase = "collect"
    /\ \E c \in pending :
        /\ Cardinality(c.roots) > 1
        /\ pending' = pending \ {c}
        /\ unhandled' = unhandled \cup {c}
        /\ \E r \in c.roots :
            /\ sources' = sources \cup {r}
            /\ sinks' = [n \in Node |-> IF n \in c.leaves THEN r ELSE sinks[n]]
    /\ UNCHANGED <<edges, phase, globals, modules, pinMap>>

\* a component with several roots is printed and skipped
CollectMultiRoot ==
    /\ phase = "collect"
    /\ \E c \in pending :
        /\ Cardinality(c.roots) > 1
        /\ pending' = pending \ {c}
        /\ unhandled' = unhandled \cup {c}
    /\ UNCHANGED <<edges, phase, sources, sinks, globals, modules, pinMap>>

\* mutants of CollectNet: (a) mod_sinks[leaf] set to the list of roots;
\* (b) pin_map written only when the instance is created
CollectNetRootList ==
    /\ phase = "collect"
    /\ \E c \in pending :
        /\ Cardinality(c.roots) = 1
        /\ TilesFound(c)
        /\ LET r == CHOOSE x \in c.roots : TRUE
               bels == {n \in Endpoints(c) : IsBlock(ModName[n])}
           IN
           /\ pending' = pending \ {c}
           /\ sources' = sources \cup {r}
           /\ sinks' = [n \in Node |-> IF n \in c.leaves THEN c.roots ELSE sinks[n]]
           /\ globals' = globals \cup (Endpoints(c) \ bels)
           /\ modules' = modules \cup {ModName[n] : n \in bels}
           /\ pinMap' = [k \in Mod \X Pin |->
                           IF \E n \in bels : k = <<ModName[n], PinOf[n]>>
                           THEN r ELSE pinMap[k]]
    /\ UNCHANGED <<edges, phase, unhandled>>

CollectNetNewOnly ==
    /\ phase = "collect"
    /\ \E c \in pending :
        /\ Cardinality(c.roots) = 1
        /\ TilesFound(c)
        /\ LET r == CHOOSE x \in c.roots : TRUE
               bels == {n \in Endpoints(c) : IsBlock(ModName[n])}
           IN
           /\ pending' = pending \ {c}
           /\ sources' = sources \cup {r}
           /\ sinks' = [n \in Node |-> IF n \in c.leaves THEN r ELSE sinks[n]]
           /\ globals' = globals \cup (Endpoints(c) \ bels)
           /\ modules' = modules \cup {ModName[n] : n \in bels}
           /\ pinMap' = [k \in Mod \X Pin |->
                           IF \E n \in bels : k = <<ModName[n], PinOf[n]>>
                                               /\ ModName[n] \notin modules
                           THEN r ELSE pinMap[k]]
    /\ UNCHANGED <<edges, phase, unhandled>>

\* a single-root net: record the root as a source and as the driver of every
\* leaf; bind each endpoint on a BEL to the root in its instance's pin_map,
\* creating the instance on first sight; an endpoint on no known BEL
\* becomes a global
CollectNet ==
    /\ phase = "collect"
    /\ \E c \in pending :
        /\ Cardinality(c.roots) = 1
        /\ TilesFound(c)
        /\ LET r == CHOOSE x \in c.roots : TRUE
               bels == {n \in Endpoints(c) : IsBlock(ModName[n])}
           IN
           /\ pending' = pending \ {c}
           /\ sources' = sources \cup {r}
           /\ sinks' = [n \in Node |-> IF n \in c.leaves THEN r ELSE sinks[n]]
           /\ globals' = globals \cup (Endpoints(c) \ bels)
           /\ modules' = modules \cup {ModName[n] : n \in bels}
           /\ pinMap' = [k \in Mod \X Pin |->
                           IF \E n \in bels : k = <<ModName[n], PinOf[n]>>
                           THEN r ELSE pinMap[k]]
    /\ UNCHANGED <<edges, phase, unhandled>>

\* create_from_node finds no tile of the BEL's type: the run aborts
CollectAbort ==
    /\ phase = "collect"
    /\ \E c \in pending : Cardinality(c.roots) = 1 /\ ~TilesFound(c)
    /\ phase' = "aborted"
    /\ UNCHANGED <<edges, pending, unhandled, sources, sinks, globals, modules, pinMap>>

\* mutant: the unused-input loop reads the keys of mod_sinks, not its values
PruneByKeys ==
    /\ phase = "collect" /\ pending = {}
    /\ LET passThrough == {n \in globals : sinks[n] \in globals}
           sinks1 == [n \in Node |-> IF n \in passThrough THEN NoNode ELSE sinks[n]]
           allSources == {n \in Node : sinks1[n] # NoNode}
       IN  /\ sinks' = sinks1
           /\ sources' = sources \ {g \in globals : g \notin allSources}
    /\ phase' = "done"
    /\ UNCHANGED <<edges, pending, unhandled, globals, modules, pinMap>>

\* mutant: the unused-input loop run before the passed-through outputs are
\* deleted from mod_sinks
PruneSwapped ==
    /\ phase = "collect" /\ pending = {}
    /\ LET passThrough == {n \in globals : sinks[n] \in globals}
           allSources == {sinks[n] : n \in Node} \ {NoNode}
       IN  /\ sinks' = [n \in Node |-> IF n \in passThrough THEN NoNode ELSE sinks[n]]
           /\ sources' = sources \ {g \in globals : g \notin allSources}
    /\ phase' = "done"
    /\ UNCHANGED <<edges, pending, unhandled, globals, modules, pinMap>>

\* the two pruning loops: drop global outputs fed by a global, then drop
\* global inputs that no remaining sink reads
Prune ==
    /\ phase = "collect" /\ pending = {}
    /\ LET passThrough == {n \in globals : sinks[n] \in globals}
           sinks1 == [n \in Node |-> IF n \in passThrough THEN NoNode ELSE sinks[n]]
           allSources == {sinks1[n] : n \in Node} \ {NoNode}
       IN  /\ sinks' = sinks1
           /\ sources' = sources \ {g \in globals : g \notin allSources}
    /\ phase' = "done"
    /\ UNCHANGED <<edges, pending, unhandled, globals, modules, pinMap>>

Next == CollectMultiRoot \/ CollectNet \/ CollectAbort \/ Prune

Spec == Init /\ [][Next]_vars /\ WF_vars(Next)

-----------------------------------------------------------------------------
(* The emitted module, read off the final state.                           *)

InputPorts  == sources \cap globals               \* "input wire"
OutputPorts == {n \in globals : sinks[n] # NoNode} \* "output wire"
Wires       == sources \ globals                  \* "wire ... ;"
Bound       == {k \in Mod \X Pin : pinMap[k] # NoNode}

\* the parameters SliceModule.print_definition declares
SliceParams ==
    {"MODE", "GSR", "SRMODE", "CEMUX", "CLKMUX", "LSRMUX", "LUT0_INITVAL",
     "LUT1_INITVAL", "REG0_SD", "REG1_SD", "REG0_REGSET", "REG1_REGSET",
     "REG0_LSRMODE", "REG1_LSRMODE", "CCU2_INJECT1_0", "CCU2_INJECT1_1",
     "WREMUX", "WCKMUX", "A0MUX", "A1MUX", "B0MUX", "B1MUX", "C0MUX",
     "C1MUX", "D0MUX", "D1MUX"}

\* the parameters EBRModule.print_definition declares
EbrParams ==
    {"CSDECODE_A", "CSDECODE_B", "ADA0MUX", "ADA2MUX", "ADA3MUX", "ADB0MUX",
     "ADB1MUX", "CEAMUX", "CEBMUX", "CLKAMUX", "CLKBMUX", "DP16KD_DATA_WIDTH_A",
     "DP16KD_DATA_WIDTH_B", "DP16KD_WRITEMODE_A", "DP16KD_WRITEMODE_B", "MODE",
     "OCEAMUX", "OCEBMUX", "PDPW16KD_DATA_WIDTH_R", "PDPW16KD_RESETMODE",
     "WEAMUX", "WEBMUX"}

KnownParams(m) == IF m \in SliceMods THEN SliceParams ELSE EbrParams

\* param_renames of SliceModule.print_instance (EBRModule passes none)
ParamRename(m, name) ==
    CASE m \in SliceMods /\ name = "K0_INIT" -> "LUT0_INITVAL"
      [] m \in SliceMods /\ name = "K1_INIT" -> "LUT1_INITVAL"
      [] OTHER -> name

\* _print_parameters renders every enum/word whose BEL is the instance's;
\* the trailing comment lists the fields of BELs no instance was made for
Rendered == {f \in Fields : f.bel \in modules}
Reported == Fields \ Rendered

-----------------------------------------------------------------------------
TypeOK ==
    /\ edges \subseteq CandidateEdge
    /\ phase \in {"collect", "done", "aborted"}
    /\ sources \subseteq Node /\ globals \subseteq Node
    /\ sinks \in [Node -> Node \cup {NoNode}]
    /\ modules \subseteq Mod
    /\ pinMap \in [Mod \X Pin -> Node \cup {NoNode}]

\* Every signal the module reads is declared: each instance pin and each
\* assign of a global output refers to an input port or to a wire, after
\* both pruning loops have removed ports.
DeclaredSignals ==
    phase = "done" =>
        /\ \A k \in Bound : pinMap[k] \in InputPorts \cup Wires
        /\ \A o \in OutputPorts : sinks[o] \in InputPorts \cup Wires

\* Instance pins are bound exactly to their net's single driver: a pin is
\* bound iff its node is an endpoint of a single-root net, and then to that
\* net's root (pin_map is filled from roots and leaves over many loop
\* iterations, the instance being created by whichever endpoint comes first).
PinsBoundToDriver ==
    LET single == {c \in Nets(edges) : Cardinality(c.roots) = 1} IN
    phase = "done" =>
        \A n \in Node : filter_node(n) /\ IsBlock(ModName[n]) =>
            LET k == <<ModName[n], PinOf[n]>> IN
            \/ \E c \in single : n \in Endpoints(c) /\ c.roots = {pinMap[k]}
            \/ /\ \A c \in single : n \notin Endpoints(c)
               /\ pinMap[k] = NoNode

\* spec.md 4.7/8: a multi-root net is reported and none of its endpoints
\* appears in the generated module, neither as a bound pin nor as a port.
MultiRootExcluded ==
    phase = "done" =>
        \A c \in unhandled : \A n \in Endpoints(c) :
            /\ pinMap[<<ModName[n], PinOf[n]>>] = NoNode
            /\ n \notin InputPorts \cup OutputPorts \cup Wires

\* spec.md 4.7: "Any enumerated/word field not consumed by a known
\* parameter is reported (not rendered)".
UnknownFieldsNotRendered ==
    phase = "done" =>
        \A f \in Rendered : ParamRename(f.bel, f.name) \in KnownParams(f.bel)

\* Every input port the module declares is read: by an instance pin bound
\* to it or by the assign of an output port.  The pass-through loop deletes
\* outputs that only copy an input, so the unused-input loop must run after
\* it to drop the inputs this leaves without readers.
InputsRead ==
    phase = "done" =>
        \A i \in InputPorts :
            (\E k \in Bound : pinMap[k] = i) \/ (\E o \in OutputPorts : sinks[o] = i)

\* the LPF maps that locate no comp at two of the package's sites
LpfInjective ==
    {lpf \in [PkgPins -> Comps \cup {NoComp}] :
        \A p, q \in PkgPins : p # q /\ lpf[p] # NoComp => lpf[p] # lpf[q]}

\* The ports and wires the module declares (by str(node)) have distinct
\* names, after main's renaming by any LPF that locates no comp at two
\* sites: the PIO and the IOLOGIC of a site take the same name,
\* and only filter_node's dropping of IOLDO/IOLTO, the pins they share,
\* keeps two declared nodes from having one name.
NamesDistinct ==
    phase = "done" =>
        \A lpf \in LpfInjective : \A m, n \in InputPorts \cup OutputPorts \cup Wires :
            m # n => Display(lpf, m) # Display(lpf, n)

\* spec.md 4.6/6: a block whose tile config cannot be located is a fatal
\* inconsistency.  Whatever order the nets are processed in, print_verilog
\* ends, and it aborts exactly when a single-root net reaches such a block:
\* a net skipped as multi-root or dropped by filter_node never aborts the
\* run, and no order lets a run complete past a missing tile.
RunOutcome ==
    LET missing == {m \in SliceMods \cup EbrMods : m \in NoTile}
        fatal == \E c \in Nets(edges) :
                    Cardinality(c.roots) = 1 /\ \E n \in Endpoints(c) : ModName[n] \in missing
    IN  <>(phase = IF fatal THEN "aborted" ELSE "done")
=============================================================================
