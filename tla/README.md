# TLA+ models of `tools/ecp_vlog.py` and `tools/html_all.py`

`src/tools/ecp_vlog.py` converts an ECP5 bitstream into a Verilog netlist for simulation. This directory holds TLA+ models of its graph construction, graph analysis, netlist emission and LPF parsing, and TLC runs that check them. `src/tools/html_all.py` is a separate HTML documentation generator; its main loop is modelled too (module `HtmlAll`).

## The system

`ecp_vlog.py` is a single-threaded batch pipeline. `main` runs its stages in this order:

1. **`parse_lpf`** (961-985) reads `LOCATE COMP <comp> SITE <site>` commands into a map from site to comp. `main` uses the map only to rename ports in the output.
2. **`make_tiles_by_loc`** (30-44) decodes each tile's configuration bits into a `TileConfig`. A `TileConfig` holds the tile's configured arcs (`carcs`), enums (`cenums`) and words (`cwords`).
3. **`gen_config_graph`** (209-438) builds the netlist graph.
   - `config_graph` gets one edge per configured arc. The lookup of the arc in the routing tile (line 321) is not guarded.
   - `arc_graph` then gets the configured edges plus what `visit_node` adds. `visit_node` recurses and is memoised by `nodes_seen`. It adds:
     - zero-bit mux defaults for nodes with no configured driver;
     - fixed BEL pins (every BEL met is recorded in `bels_todo`);
     - fixed `=>` arcs;
     - global clock feeds.
   - A second pass links every wire of every recorded BEL.
   - Every insertion goes through the filtering `add_edge` (290-312), which applies two device rules:
     - **CCU2 rewrite:** in CCU2 mode, `F[5X]<s>_SLICE -> F<d>` becomes `F<d>_SLICE -> F<d>`.
     - **Gearing rule:** `RXDATA`/`TXDATA` pins that alias across an IOLOGIC pair are dropped unless `_filter_data_pin` allows them for the pair's gearing mode.
4. **`ConnectionGraph.get_components`** (180-205) splits the graph into weakly connected components. It uses a recursive visit and a `seen` set shared across components.
5. **`Component.get_roots` / `get_leaves`** (124-166) find each component's driverless and loadless nodes. Each uses a recursive visit with a three-valued `seen` map and warns about cycles.
6. **`print_verilog`** (850-958) turns the components into the netlist:
   - It keeps the BEL-pin endpoints (`filter_node`).
   - It skips multi-root nets.
   - It creates `SliceModule` / `EBRModule` instances with `create_from_node`. A missing tile is fatal.
   - It binds each instance pin to its net's root and makes the remaining endpoints global ports.
   - It prunes pass-through outputs, then unused inputs.
   - It prints each instance's parameters (`_print_parameters`) and reports the enums/words it did not print.

The only state that crosses stages is the graph, the `tiles_by_loc` index and the rename table. Nothing runs concurrently. Two things stand in for nondeterminism, and the models replace both with `\E`:
- the iteration order of Python sets and dicts;
- which of several candidates a loop takes first.

## Modules

| Module | Models | State (VARIABLES) | Actions |
|---|---|---|---|
| `ConnectionGraph` | `ConnectionGraph` (170-178) and the reference definitions | — (operators over a set of `<<source, sink>>` pairs) | `add_edge` |
| `RootsLeaves` | `get_roots`, `get_leaves` | `edges, comp, phase, limit, todo, stack, seen, roots, leaves, warned` | `OuterVisit`, `ChildVisit` (a call of `visit`: `VisitSeen`, `VisitEnter` or `RecursionError`), `Return`, `StartLeaves`, `Finish` |
| `Components` | `get_components` | `edges, loop, todo, seen, current, stack, components` | `OuterSkip`, `OuterStart`, `VisitFwd`, `VisitRev`, `Return`, `ReturnOuter`, `NextDict`, `Finish` |
| `NetPartition` | the promise of `get_components` (abstract) | `edges, result, finished` | `Partition` |
| `EdgeFilter` | `add_edge`, `_filter_data_pin`, `_get_enum_value` | `ccu2, wide, todo, graph` | `AddArc` |
| `Expansion` | `gen_config_graph` | `ccu2, carcs, phase, todo, cfg, arc, seen, work, belsTodo` | `ConfigArc`, `ConfigLookupFails`, `StartVisit`, `VisitConfigEdge`, `VisitSeen`, `VisitMissing`, `Visit`, `StartBels`, `BelWires`, `Finish` |
| `Emission` | `print_verilog`, `filter_node`, `create_from_node`, `_print_parameters`, `Node.__str__` with the rename table of `main` | `edges, phase, pending, unhandled, sources, sinks, globals, modules, pinMap` | `CollectMultiRoot`, `CollectNet`, `CollectAbort`, `Prune` |
| `Lpf` | `parse_lpf` | `file, rest, sites, status, logged` | `ParseOther`, `ParseLocate`, `ParseUntokenizable`, `Finish` |
| `NodeOrder` | the `order=True` comparisons of `Ident` and `Node` | `left, right` | (a comparison; no step) |
| `HtmlAll` | `main` of `html_all.py` | `dirs, files, toc, phase, fi, di` | `Start`, `Family`, `Device`, `EndFamily`, `WriteIndex` |

How the modules correspond to the code:

- **Recursion.**
  - In `RootsLeaves` and `Components`, recursion is an explicit stack of frames. Each frame holds the neighbours still to iterate, so `ChildVisit` and `VisitFwd`/`VisitRev` are one loop iteration of the innermost call.
  - In `Expansion`, the effect of one `visit_node` call depends only on the node and the finished `config_graph`. So the recursion is a work set, and `Visit` is the body of one call. A configured edge or a BEL of the second pass is taken only when the work set is empty, because the call returns only then.
- **Whole handlers.**
  - `Prune` is both pruning loops, in their order.
  - `CollectNet` is the whole body of the net loop for a single-root net: source, sinks, pin bindings, instance creation and globals.
  - `StartLeaves` resets `seen`, because `get_leaves` has its own.
- **Data abstraction.**
  - A node is a model value, with `ModName` and `PinOf` giving its names.
  - The name tests of the code (`startswith("SLICE")`, `"_ECLKSYNC" in`, `IOLDO`/`IOLTO`/`INDD`) are constant sets.
  - The routing and bit databases are constant relations.
  - In `EdgeFilter`, a node is a tuple of exactly the name fields the filter parses (unit letter, pin index, slice letter, digit).
  - In `Lpf`, a command is its list of words, or the model value `Untokenizable` for a command on which `shlex.split` raises `ValueError` (an unbalanced quote, including one left by the split at `;`, `#` or `//` inside a quoted name).
- **Reference definitions.** The reference definitions in `ConnectionGraph` state what the traversals should compute:
  - `ComponentsRef`, `RootsRef`, `LeavesRef`. A component is the least set containing a node and closed under edges in either direction (`Connected`, a recursive fixpoint).
  - `HasCycleIn`, `OnCycle`, from the community module `Graphs` (`HasCycle`, `ConnectionsIn`).
  `RootsLeaves` and `Components` are checked against them. `Emission` takes its components from them, since those two runs show the code computes them.
- **The HTML tool.** In `HtmlAll`, a path is a tuple of names below the output folder, and a page is abstracted to whose page it is (`<<"dev", f, d>>`, `<<"tile", f, d, t>>`, `<<"stale">>` for one an earlier run left). `Init` lets the output folder hold any tree of folders and stale pages: the state a crashed or interrupted earlier run leaves. `Raises` stands for `os.mkdir` on a folder that exists, which raises `FileExistsError`; the `path.exists` tests keep it from happening.
- **Composition.** `Emission` consumes the graph that `Expansion` produces. `Expansion` uses the filter in an abstract form: `Ccu2Arcs` and `DroppedPins` stand for the outcome of the rule that `EdgeFilter` models in detail. `MCExpansion` instantiates `EdgeFilter` (`EF`) and checks, with `FilterRefined`, that the two agree. The gearing is fixed to the one that drops RXDATA4.

## Runs

Every run except `node_order` (whose next-state relation is a stutter) uses `CHECK_DEADLOCK FALSE`, because each stage ends: the program returns, or raises and stops. Liveness is stated as `Termination` (Expansion), `RunOutcome` (Emission), `RerunCompletes` (HtmlAll), or as the refinement, under `WF_vars(Next)`. Weak fairness is justified because the code is one thread that keeps executing until it returns; no step waits for anything.

| Run | cfg | Expect | Distinct states | What it shows |
|---|---|---|---|---|
| roots_leaves | `MCRootsLeaves.cfg` | pass | 150 861 | See below. |
| roots_leaves_cycle | `MCRootsLeaves_cycle.cfg` | violation | — | A pure cycle (a self-loop is enough) has no root. `get_roots` returns `{}` and `print_verilog` drops the net silently, while spec §8 demands a non-empty result. |
| components | `MCComponents.cfg` | pass | 69 289 | On every graph over 3 nodes, `get_components` implements `NetPartition` (`ImplementsPartition`): it returns exactly the weakly connected components. They are also pairwise disjoint (`ComponentsDisjoint`), and the active `visit` calls are distinct nodes of the current component, each a neighbour of its caller (`StackSimplePath`; the mutant that does not add the node to `seen` re-enters it around a cycle). |
| edge_filter | `MCEdgeFilter.cfg` | pass | 65 536 | See below. |
| edge_filter_located | `MCEdgeFilter_located.cfg` | violation | — | When the IOLOGICC enum tile is not found, `_filter_data_pin` keeps both RXDATA4C and RXDATA0D, and their shared wire gets two drivers. |
| expansion | `MCExpansion.cfg` | pass | 11 346 | See below. |
| expansion_lookup | `MCExpansion_lookup.cfg` | violation | — | An arc the routing tile does not name raises an uncaught `KeyError` at line 321, while spec §4.4 says such failures are logged and skipped. |
| emission | `MCEmission.cfg` | pass | 5 660 | See below. |
| emission_params | `MCEmission_params.cfg` | violation | — | An EBR enum that `ECP5_EBR` does not declare (`REGMODE_A`) is rendered as an instance parameter, and so is not reported. |
| lpf_malformed | `MCLpf_malformed.cfg` | violation | — | A malformed LOCATE is printed as ignored but still stored in `sites`. A LOCATE with fewer than five words raises `IndexError`, and a command `shlex.split` cannot tokenize raises `ValueError`, while spec §5/§7 call a malformed constraint ignored. |
| node_order | `MCNodeOrder_label.cfg` | violation | — | Nodes order by the Ident's integer id, not by its label (spec §3, §7). |
| html_all | `MCHtmlAll.cfg` | pass | 10 190 | See below. |

**roots_leaves.** On every graph over 3 nodes and every component of it, in every set-iteration order:
- `ResultsExact`: the roots and leaves are exactly the driverless and loadless nodes.
- `CycleWarning`: the cycle warning names only nodes on a directed cycle, and fires exactly when the component has one.
- `StackSimplePath`: the active `visit()` calls are distinct nodes, each reached from its caller in the walk's direction, and they are exactly the nodes marked 0. So the recursion depth is at most the length of a simple path of the component, and a cycle never deepens it. The mutant drops `seen[node] = 0` on entry, so a self-loop or cycle re-enters a node that is already on the stack.
- `RecursionOnlyOnLongPath`: Python's recursion limit is modelled as the frames `visit()` may hold, chosen in `Init` (2 or 3; the limit depends on `sys.getrecursionlimit()` and on the caller's depth). Entering a new node with every frame in use is a `RecursionError`, which unwinds every call and is caught nowhere. The property: a `RecursionError` happens only on a component with a directed simple path through more nodes than the frames. A cycle or a reconvergent path never causes one. The mutant drops `seen[node] = 0` on entry, and a self-loop then raises `RecursionError`.

**edge_filter.** Under every CCU2 and gearing setting, for both IOLOGIC pairs:
- `GearingRespected`: a data-pin arc is kept iff the rule table of spec §4.3 makes its index valid.
- `Ccu2Rewritten`: F5/FX→F`n` is rewritten exactly in CCU2 mode.

**expansion.** For every subset of configured arcs, with the CCU2 rewrite on and off:
- `Termination`: the expansion terminates, even though fixed arcs form a cycle.
- `ConfigKept`: every configured edge survives.
- `ExpandedClosure`: every wire of the result is expanded. This includes a wire reached only through the CCU2 rewrite, which the second pass must catch.
- `NoDisabledDataPin`: no disabled data pin enters through any of the six insertion points.
- `FilterRefined`: the abstract filter `FilteredEdge` inserts the same edges as EdgeFilter's `add_edge`. `FilteredEdge` is built from the constants `Ccu2Arcs` and `DroppedPins` and the `ccu2` flag. The check covers every pair the database can hand over, in both slice modes. `MCExpansion` instantiates `EdgeFilter` with SLICEA's mode taken from `ccu2`, and `Enc` maps each node to the name the filter matches on. This composition shows that the abstract filter `Expansion` relies on is the code's rule. The mutant `FilteredEdgeNoMode` rewrites F5A→F1 without reading the mode.

**emission.** For every subset of the candidate edges:
- `DeclaredSignals`: every signal read is declared, after both prunings.
- `PinsBoundToDriver`: every instance pin is bound to its own net's single driver.
- `MultiRootExcluded`: no endpoint of a multi-root net reaches the module.
- `InputsRead`: every declared input port is read, by a bound instance pin or by an output's assign. The pass-through loop must run before the unused-input loop. The mutant `PruneSwapped` computes `all_sources` first, which leaves the input of a pruned pass-through as a port nothing reads.
- `RunOutcome`: in every order of the nets, `print_verilog` ends, and it aborts exactly when a single-root net reaches a block whose location holds no tile of the block's type (spec §4.6/§6: fatal). A net that is multi-root, or whose block pin `filter_node` drops, never aborts the run. The mutant removes the `raise` of the for/else in `create_from_node`, and TLC then finds a run that completes past the missing tile.
- `NamesDistinct`: the declared ports and wires keep distinct names after `main` renames every package pin's PIO and IOLOGIC to the pin's name or its LPF comp (`Display`). The property holds for every LPF map that locates each comp at most once. It depends on `filter_node` dropping the IOLDO/IOLTO pins, which the PIO and the IOLOGIC share. The mutant `filter_nodeKeepsInternal` keeps those pins, and TLC then finds an input and an output port both named `<pin>$IOLDO`. The rename table is not a variable: `main` notes it "only affects str(node)", so it cannot change what `print_verilog` does. The property therefore quantifies over all such tables.

**html_all.** From every tree of folders and stale pages an earlier run can leave:
- `RerunCompletes`: the run reaches `index.html` (no `FileExistsError`).
- `TocLinksResolve`: the table of contents links every device, and each link's page is the one this run wrote, not a stale one.
- `TilePagesFromLastLister`: each page in a family's `tilehtml` folder holds its tile type as rendered for the last device that lists it. Devices that share a tile type (CIB for LFE5U-25F and LFE5U-45F) overwrite one page in turn. A page left by an earlier run is replaced, never kept. The mutant `DeviceTilesIfAbsent` skips pages that already exist.
- `TypeOK` includes that every page lies in a folder that exists.

Each property of a passing run has a mutant in `PROJECT.json`. A mutant is an operator defined next to the action it replaces, and models a plausible slip in that code. Examples:
- `ReturnStaysOpen` never sets `seen[node] = 1`.
- `VisitNoMemo` forgets `nodes_seen.add`.
- `PruneByKeys` collects the keys of `mod_sinks` instead of its values.
- `CollectMultiRootLeaky` tests for multiple roots after recording the net.
- `filter_data_pinPairAC` groups the IOLOGIC units as A/C.
- `ExistsGuardDropped` calls `os.mkdir` without the `path.exists` test.

TLC finds the property violated under each mutant.

### Bounds and why they are enough

- **RootsLeaves and Components:** 3 nodes, with every graph over them (2^9 edge sets). This covers:
  - self-loops, 2- and 3-cycles;
  - diamonds (reconvergence without a cycle);
  - several components;
  - nodes reachable only backwards.
  Those are all the shapes on which the early return and the three-valued `seen` differ.
  `RootsLeaves` also lets the walk hold 2 or 3 frames. With 3 frames no walk over 3 nodes can overflow, so every check above covers every graph in full. With 2 frames a 3-node chain raises `RecursionError`, which is the case `RecursionOnlyOnLongPath` is about.
- **EdgeFilter:**
  - the RXDATA pairs 4A/0B and 5A/1B, the pair 4C/0D, an unconflicted 0A, and a TXDATA pair fed by one wire;
  - the F5A→F0 and FXA→F1 muxes;
  - all 2^4 gearing settings and both slice modes.
  So every row of the rule table and both pair groupings occur.
- **Expansion:** 8 wires, one missing wire, 6 pins, 3 BELs.
  - The configured arcs include a CCU2-rewritten one, one with an unresolvable name and one to a disabled data pin.
  - A fixed arc leads to the missing wire and to a global feed, and there is a zero-bit default.
  - All of them occur in one graph, together and apart.
- **Emission:** 10 nodes and 11 candidate edges, on two package pins whose PIO and IOLOGIC sites hold the nodes. The LPF maps range over comps {c1, p2}, so an LPF comp can take another pin's package name. Their subsets give:
  - single-root and multi-root nets;
  - nets whose only driver is hidden by `filter_node`;
  - pad-to-pad pass-throughs, including one whose input then becomes unused;
  - two nets meeting at one slice;
  - nets reaching an EBR whose tile is missing;
  - an IOLDO pin of a PIO and of its IOLOGIC, one as an input port and one as an output port.

- **HtmlAll:** two families. The first has three devices: two list tiles and share one tile type, and one lists none. The second has one device and no tiles. The initial states are all 86 prefix-closed folder trees, times every set of stale pages inside them (3 417 states).

## Not modelled

- **`make_tiles_by_loc`, the pytrellis queries, `Ident.from_id`/`from_label`, `bel_to_node`/`wire_to_node`:** decoding of the database and the bitstream. Their results are the constants of the models.
- **The Verilog text** (`print_definition`, `_print_pins` layout, `natsorted` order, the `R{y}C{x}_` spelling of module names): formatting. `Emission` models which signals, bindings and parameters appear, and which names they get, but not how they are printed.
- **`main`:** argument checks and the calls of the stages in order. There is no state beyond the pipeline. An LPF that locates one comp at two pins gives two ports the same name. The code neither rejects nor defines this case, so it is listed as a hazard without a property.
- **Python's recursion limit in `Components` and `Expansion`:** there the stacks are unbounded. `RootsLeaves` models the limit, scaled to 2 or 3 frames. `StackSimplePath` in `Components` bounds the depth of `get_components` by the longest simple path. The real limit of about 1000 frames is out of TLC's reach, but the properties show that only a chain that long can reach it, never a cycle.
- **The IOLOGICC "two rows down" offset, and the mixed `[source.x, sink.y]` tile lookup of the CCU2 rule:** facts of the device layout. `EdgeFilter` models one location, and whether the enum tile is found (`Located`).
- **Inside `html_all.py`:** the HTML text, `html_tilegrid` and `html_bits` (other scripts), the commit hash and the time stamp. A path that exists as a file where a folder is expected is not modelled.

## Plan for the remaining work

The modules above are in order of importance: the graph analyses whose results every net depends on come first, then graph construction, then emission. The one item left open earlier was whether the output text order is deterministic. It follows from properties the runs check, with no model of its own:
- `sorted_components` is keyed by the first root of each net. The nets are disjoint (`ComponentsDisjoint`), so the keys are distinct nodes, and `NodeOrder` shows that `Node` orders them totally. The exception is a `None` pin compared with a pin at the same (row, column, id), which raises `TypeError` (hazard at line 53).
- The `natsorted(..., key=str)` calls sort the declared names. `NamesDistinct` shows these are distinct for every LPF map that locates each comp at most once.

What remains outside the models is listed under "Not modelled": database decoding, output text, and the LPF that locates one comp twice.
