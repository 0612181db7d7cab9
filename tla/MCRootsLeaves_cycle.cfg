CONSTANTS
    n1 = n1
    n2 = n2
    n3 = n3
    Node <- MCNode
    RecursionLimits <- MCRecursionLimits

SPECIFICATION Spec


INVARIANT CycleStillHasRoot
CHECK_DEADLOCK FALSE
