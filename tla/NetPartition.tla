---------------------------- MODULE NetPartition ----------------------------
(***************************************************************************)
(* What ConnectionGraph.get_components promises, in one step: the list it *)
(* returns holds every connected component of the graph (edges taken as  *)
(* undirected) once, and nothing else.                                     *)
(***************************************************************************)
EXTENDS ConnectionGraph

VARIABLES edges, result, finished

Init ==
    /\ edges \in SUBSET (Node \X Node)
    /\ result = {}
    /\ finished = FALSE

Partition ==
    /\ ~finished
    /\ result' = ComponentsRef(edges)
    /\ finished' = TRUE
    /\ UNCHANGED edges

Spec == Init /\ [][Partition]_<<edges, result, finished>>
             /\ WF_<<edges, result, finished>>(Partition)
=============================================================================
