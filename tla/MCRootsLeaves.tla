--------------------------- MODULE MCRootsLeaves ---------------------------
(* Model of RootsLeaves: every graph over three nodes, with self-loops,    *)
(* 2-cycles, 3-cycles, chains, forks and joins among them, and a call     *)
(* stack that holds all three nodes or only two.                           *)
EXTENDS RootsLeaves

CONSTANTS n1, n2, n3

MCNode == {n1, n2, n3}

\* With two frames a chain of three nodes raises RecursionError; with
\* three, no walk over three nodes can (StackSimplePath).
MCRecursionLimits == {2, 3}
=============================================================================
