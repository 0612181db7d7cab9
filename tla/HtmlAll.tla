------------------------------- MODULE HtmlAll -------------------------------
(***************************************************************************)
(* main of tools/html_all.py: for every family (in sorted order) and every *)
(* device of it, create the output folders when they do not exist yet,    *)
(* have html_tilegrid write the device's index.html and html_bits one page *)
(* per listed tile type into the family's tilehtml folder, and collect a   *)
(* table of contents; finally write the top-level index.html.              *)
(*                                                                         *)
(* A path is a tuple of names below the output folder fld (<<>> is fld).   *)
(* The output folder may hold what an earlier, possibly interrupted, run   *)
(* left: any tree of folders and stale pages.  What a page holds is        *)
(* abstracted to whose page it is: <<"dev", f, d>> for the tile grid of    *)
(* device d, <<"tile", f, d, t>> for the bits of tile type t as html_bits  *)
(* renders them for device d, <<"index">> for the top-level index,         *)
(* <<"stale">> for a page of an earlier run, <<"none">> for no file.       *)
(***************************************************************************)
EXTENDS Naturals, Sequences, FiniteSets

CONSTANTS
    Fams,       \* sorted(devices.families): a sequence of families
    Devices,    \* Devices[f]: fam_data["devices"], a sequence of devices
    Tiles,      \* the dict `tiles`: [<<family, device>> -> set of tile types]
    TileHtml    \* the folder name "tilehtml"

FamSet == {Fams[i] : i \in 1..Len(Fams)}
DevSet(f) == {Devices[f][j] : j \in 1..Len(Devices[f])}

FamDir(f)    == <<f>>
TileDir(f)   == <<f, TileHtml>>
DevDir(f, d) == <<f, d>>
DevIndex(f, d) == <<f, d, "index.html">>
TilePage(f, t) == <<f, TileHtml, t>>
RootIndex == <<"index.html">>

\* the (family, device) pairs of devices.families
FamDev == UNION {{<<f, d>> : d \in DevSet(f)} : f \in FamSet}

AllDirs ==
    {<< >>} \cup {FamDir(f) : f \in FamSet} \cup {TileDir(f) : f \in FamSet}
    \cup {DevDir(k[1], k[2]) : k \in FamDev}
AllFiles ==
    {RootIndex} \cup {DevIndex(k[1], k[2]) : k \in FamDev}
    \cup UNION {{TilePage(k[1], t) : t \in Tiles[k]} : k \in DOMAIN Tiles}

Parent(p) == SubSeq(p, 1, Len(p) - 1)

VARIABLES
    dirs,     \* the folders that exist
    files,    \* files[p]: what the file at path p holds
    toc,      \* docs_toc: <<"fam", f>> (the <h3> and <ul>), <<"link", f, d>>, <<"end">>
    phase,    \* "start", "fam", "dev", "done", "crashed" (an exception escaped)
    fi,       \* index of the family the loop is at
    di        \* index of the device the inner loop is at

vars == <<dirs, files, toc, phase, fi, di>>

\* mutant: os.mkdir without the path.exists test before it
ExistsGuardDropped(p) == TRUE

\* `if not path.exists(p)`: os.mkdir(p) is called only then
ExistsGuard(p) == p \notin dirs

\* mutant: the os.mkdir calls left out
MkdirSkipped(ps) == dirs

\* the calls os.mkdir(p) for the folders ps, and whether one raises
\* FileExistsError
Mkdir(ps)  == dirs \cup {p \in ps : ExistsGuard(p)}
Raises(ps) == \E p \in ps : ExistsGuard(p) /\ p \in dirs

Init ==
    /\ dirs \in {D \in SUBSET AllDirs : \A p \in D : p # << >> => Parent(p) \in D}
    /\ \E stale \in SUBSET {p \in AllFiles : Parent(p) \in dirs} :
          files = [p \in AllFiles |-> IF p \in stale THEN <<"stale">> ELSE <<"none">>]
    /\ toc = << >>
    /\ phase = "start"
    /\ fi = 1
    /\ di = 1

Crash == phase' = "crashed" /\ UNCHANGED <<dirs, files, toc, fi, di>>

\* parse_args and the output folder
Start ==
    /\ phase = "start"
    /\ IF Raises({<< >>}) THEN Crash
       ELSE /\ dirs' = Mkdir({<< >>})
            /\ phase' = "fam"
            /\ UNCHANGED <<files, toc, fi, di>>

\* one family: its folder and its tilehtml folder, the heading of the toc
Family ==
    /\ phase = "fam" /\ fi <= Len(Fams)
    /\ LET f == Fams[fi] IN
       IF Raises({FamDir(f)}) \/ Raises({TileDir(f)}) THEN Crash
       ELSE /\ dirs' = Mkdir({FamDir(f), TileDir(f)})
            /\ toc' = Append(toc, <<"fam", f>>)
            /\ phase' = "dev"
            /\ di' = 1
            /\ UNCHANGED <<files, fi>>

\* mutant: generate_device_docs indented into `if (fam, dev) in tiles`
DeviceDocsOnlyTiled ==
    /\ phase = "dev" /\ di <= Len(Devices[Fams[fi]])
    /\ LET f == Fams[fi]
           d == Devices[f][di]
           tiled == IF <<f, d>> \in DOMAIN Tiles THEN Tiles[<<f, d>>] ELSE {}
       IN
       IF Raises({DevDir(f, d)}) THEN Crash
       ELSE /\ dirs' = Mkdir({DevDir(f, d)})
            /\ files' = [p \in AllFiles |->
                           CASE tiled # {} /\ p = DevIndex(f, d) -> <<"dev", f, d>>
                             [] \E t \in tiled : p = TilePage(f, t) -> <<"tile", f, d, p[3]>>
                             [] OTHER -> files[p]]
            /\ toc' = Append(toc, <<"link", f, d>>)
            /\ di' = di + 1
            /\ UNCHANGED <<phase, fi>>

\* mutant: generate_tile_docs skips a tile page that already exists
DeviceTilesIfAbsent ==
    /\ phase = "dev" /\ di <= Len(Devices[Fams[fi]])
    /\ LET f == Fams[fi]
           d == Devices[f][di]
           tiled == IF <<f, d>> \in DOMAIN Tiles THEN Tiles[<<f, d>>] ELSE {}
       IN
       IF Raises({DevDir(f, d)}) THEN Crash
       ELSE /\ dirs' = Mkdir({DevDir(f, d)})
            /\ files' = [p \in AllFiles |->
                           CASE p = DevIndex(f, d) -> <<"dev", f, d>>
                             [] \E t \in tiled : p = TilePage(f, t) /\ files[p] = <<"none">>
                                  -> <<"tile", f, d, p[3]>>
                             [] OTHER -> files[p]]
            /\ toc' = Append(toc, <<"link", f, d>>)
            /\ di' = di + 1
            /\ UNCHANGED <<phase, fi>>

\* one device: its folder, generate_device_docs, generate_tile_docs for each
\* tile type listed for it (into the family's tilehtml folder), its toc line
Device ==
    /\ phase = "dev" /\ di <= Len(Devices[Fams[fi]])
    /\ LET f == Fams[fi]
           d == Devices[f][di]
           tiled == IF <<f, d>> \in DOMAIN Tiles THEN Tiles[<<f, d>>] ELSE {}
       IN
       IF Raises({DevDir(f, d)}) THEN Crash
       ELSE /\ dirs' = Mkdir({DevDir(f, d)})
            /\ files' = [p \in AllFiles |->
                           CASE p = DevIndex(f, d) -> <<"dev", f, d>>
                             [] \E t \in tiled : p = TilePage(f, t) -> <<"tile", f, d, p[3]>>
                             [] OTHER -> files[p]]
            /\ toc' = Append(toc, <<"link", f, d>>)
            /\ di' = di + 1
            /\ UNCHANGED <<phase, fi>>

\* the devices of the family are done: close the list
EndFamily ==
    /\ phase = "dev" /\ di > Len(Devices[Fams[fi]])
    /\ toc' = Append(toc, <<"end">>)
    /\ fi' = fi + 1
    /\ phase' = "fam"
    /\ UNCHANGED <<dirs, files, di>>

\* every family is done: substitute the toc into the template, write index.html
WriteIndex ==
    /\ phase = "fam" /\ fi > Len(Fams)
    /\ files' = [files EXCEPT ![RootIndex] = <<"index">>]
    /\ phase' = "done"
    /\ UNCHANGED <<dirs, toc, fi, di>>

Next == Start \/ Family \/ Device \/ EndFamily \/ WriteIndex

\* one thread that runs until main returns or raises
Spec == Init /\ [][Next]_vars /\ WF_vars(Next)

-----------------------------------------------------------------------------
TypeOK ==
    /\ dirs \subseteq AllDirs
    /\ DOMAIN files = AllFiles
    /\ phase \in {"start", "fam", "dev", "done", "crashed"}
    /\ fi \in 1..Len(Fams) + 1
    /\ \A p \in AllFiles : files[p] # <<"none">> => Parent(p) \in dirs

\* The table of contents is complete and none of its links is dangling or
\* stale: when index.html is written, it links every device of every
\* family, and each link's page is the tile grid this run wrote
\* for that device, even when the folder holds pages of an earlier run.
TocLinksResolve ==
    phase = "done" =>
        /\ {<<toc[i][2], toc[i][3]>> : i \in {j \in 1..Len(toc) : toc[j][1] = "link"}} = FamDev
        /\ \A i \in 1..Len(toc) : toc[i][1] = "link" =>
              files[DevIndex(toc[i][2], toc[i][3])] = <<"dev", toc[i][2], toc[i][3]>>

\* Every tile page in a family's tilehtml folder is this run's: after the
\* run, the page of tile type t shows t as rendered for the last device, in
\* the order of fam_data["devices"], that lists t. Each such device
\* overwrites the page, so no stale page of an earlier run and no page of an
\* earlier device survives.
TilePagesFromLastLister ==
    phase = "done" =>
        \A f \in FamSet : \A t \in UNION {Tiles[k] : k \in {k \in DOMAIN Tiles : k[1] = f}} :
            LET listers == {j \in 1..Len(Devices[f]) :
                              <<f, Devices[f][j]>> \in DOMAIN Tiles /\ t \in Tiles[<<f, Devices[f][j]>>]}
                last == CHOOSE j \in listers : \A i \in listers : i <= j
            IN  files[TilePage(f, t)] = <<"tile", f, Devices[f][last], t>>

\* A rerun over the output folder of an earlier, interrupted run gets to the
\* end: the path.exists tests keep os.mkdir from raising on the folders
\* already there, whichever they are.
RerunCompletes == <>(phase = "done")
=============================================================================
