---------------------------- MODULE MCComponents ----------------------------
(* Model of Components: every graph over three nodes.                      *)
EXTENDS Components

CONSTANTS n1, n2, n3

MCNode == {n1, n2, n3}
=============================================================================
