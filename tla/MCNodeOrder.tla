----------------------------- MODULE MCNodeOrder -----------------------------
(* Two identifiers whose ids are interned in the opposite order of their   *)
(* labels (ids follow the routing database, not the alphabet).             *)
EXTENDS NodeOrder

MCLabelRank == [i \in {1, 2} |-> 3 - i]
=============================================================================
