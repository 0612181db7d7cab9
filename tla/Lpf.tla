-------------------------------- MODULE Lpf --------------------------------
(***************************************************************************)
(* parse_lpf (tools/ecp_vlog.py): the LOCATE COMP <comp> SITE <site>       *)
(* commands of an LPF file become the map site -> comp that main uses to   *)
(* name the I/O ports.  The file is taken after its comment stripping, the *)
(* joining of its rows and the split at ";": the input is the sequence of  *)
(* non-empty commands, each the word list shlex.split returns.  Words are  *)
(* drawn from a small set: the three keywords and a few names.             *)
(***************************************************************************)
EXTENDS Naturals, Sequences

CONSTANTS
    Files,      \* the possible files: each the sequence of its commands' word lists
    Names,      \* the comp and site names that occur
    None,       \* sites[s] absent
    Untokenizable \* a command shlex.split rejects (an unbalanced quote or
                  \* a trailing backslash, also left by the split at ";",
                  \* "#" or "//" inside a quoted name)

Words == {"LOCATE", "COMP", "SITE"} \cup Names

VARIABLES
    file,       \* the commands of the LPF file, in order
    rest,       \* commands not yet parsed
    sites,      \* the dict sites: site -> comp, None where absent
    status,     \* "parsing", "done", or "crashed" (IndexError or ValueError)
    logged      \* commands printed as "ignoring malformed LOCATE"

vars == <<file, rest, sites, status, logged>>

\* the grammar check of the loop
WellFormed(w) ==
    Len(w) = 5 /\ w[1] = "LOCATE" /\ w[2] = "COMP" /\ w[4] = "SITE"

Init ==
    /\ file \in Files
    /\ rest = file
    /\ sites = [s \in Words |-> None]
    /\ status = "parsing"
    /\ logged = {}

\* a command that is not a LOCATE is skipped
ParseOther ==
    /\ status = "parsing" /\ rest # << >>
    /\ Head(rest) # Untokenizable
    /\ Head(rest)[1] # "LOCATE"
    /\ rest' = Tail(rest)
    /\ UNCHANGED <<file, sites, status, logged>>

\* a LOCATE: a malformed one is reported, then sites[words[4]] = words[2]
\* is executed for every LOCATE; with fewer than five words words[4] raises
\* an IndexError that nothing catches
ParseLocate ==
    /\ status = "parsing" /\ rest # << >>
    /\ UNCHANGED file
    /\ Head(rest) # Untokenizable
    /\ LET w == Head(rest) IN
       /\ w[1] = "LOCATE"
       /\ logged' = IF WellFormed(w) THEN logged ELSE logged \cup {w}
       /\ IF Len(w) >= 5
          THEN /\ sites' = [sites EXCEPT ![w[5]] = w[3]]
               /\ rest' = Tail(rest)
               /\ UNCHANGED status
          ELSE /\ status' = "crashed"
               /\ UNCHANGED <<sites, rest>>

\* shlex.split raises ValueError, which nothing catches
ParseUntokenizable ==
    /\ status = "parsing" /\ rest # << >>
    /\ Head(rest) = Untokenizable
    /\ status' = "crashed"
    /\ UNCHANGED <<file, rest, sites, logged>>

\* the loop is over: parse_lpf returns sites
Finish ==
    /\ status = "parsing" /\ rest = << >>
    /\ status' = "done"
    /\ UNCHANGED <<file, rest, sites, logged>>

Next == ParseOther \/ ParseLocate \/ ParseUntokenizable \/ Finish

Spec == Init /\ [][Next]_vars /\ WF_vars(Next)

-----------------------------------------------------------------------------
\* spec.md 5/7: a malformed pin-constraint command is logged and ignored,
\* never fatal: parsing ends normally, and every site it maps comes from a
\* well-formed LOCATE COMP <comp> SITE <site> of the file.
MalformedLocateIgnored ==
    /\ status # "crashed"
    /\ \A s \in Words : sites[s] # None =>
          \E i \in 1..Len(file) :
              WellFormed(file[i]) /\ file[i][5] = s /\ file[i][3] = sites[s]
=============================================================================
