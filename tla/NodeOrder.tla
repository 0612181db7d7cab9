------------------------------ MODULE NodeOrder ------------------------------
(***************************************************************************)
(* The orderings of the dataclasses Ident and Node (tools/ecp_vlog.py),    *)
(* which sorted() uses for the roots and leaves of every net and, through  *)
(* the first root, for the order the nets are processed and printed in.    *)
(* Both classes are order=True dataclasses: they compare as the tuple of   *)
(* their compared fields.  Ident declares its label compare=False, so an   *)
(* Ident compares by its integer id alone.  A label is abstracted by its   *)
(* rank in string order.                                                   *)
(***************************************************************************)
EXTENDS Naturals

CONSTANTS
    Ids,        \* the routing-graph ids in use
    LabelRank,  \* LabelRank[i]: rank of rgraph.to_str(i) in string order
    Coords,     \* the rows and columns in use
    None        \* an absent pin

ASSUME LabelRank \in [Ids -> Nat]

Nodes == [y : Coords, x : Coords, id : Ids, pin : Ids \cup {None}]

\* Ident.__lt__: the tuple (id) of the compared fields
IdentLess(a, b) == a < b

\* Node.__lt__ on the tuple (y, x, id, pin); a pin of None compared with a
\* pin raises TypeError, reported as "error"
NodeCmp(a, b) ==
    IF a.y # b.y THEN IF a.y < b.y THEN "lt" ELSE "gt"
    ELSE IF a.x # b.x THEN IF a.x < b.x THEN "lt" ELSE "gt"
    ELSE IF a.id # b.id THEN IF IdentLess(a.id, b.id) THEN "lt" ELSE "gt"
    ELSE IF a.pin = b.pin THEN "eq"
    ELSE IF a.pin = None \/ b.pin = None THEN "error"
    ELSE IF IdentLess(a.pin, b.pin) THEN "lt" ELSE "gt"

VARIABLES left, right   \* two nodes sorted() compares

vars == <<left, right>>

Init == left \in Nodes /\ right \in Nodes

\* a comparison changes nothing
Next == UNCHANGED vars

Spec == Init /\ [][Next]_vars

-----------------------------------------------------------------------------
\* spec.md 3/7: node ordering is by row, then column, then the label of
\* the wire identifier, the pin taking no part: sorted() never places a
\* node before one with a smaller (row, column, label).
OrderedByLabel ==
    NodeCmp(left, right) = "lt" =>
        ~ \/ right.y < left.y
          \/ right.y = left.y /\ right.x < left.x
          \/ right.y = left.y /\ right.x = left.x /\ LabelRank[right.id] < LabelRank[left.id]
=============================================================================
