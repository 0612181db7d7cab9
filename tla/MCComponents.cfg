CONSTANTS
    n1 = n1
    n2 = n2
    n3 = n3
    Node <- MCNode

SPECIFICATION Spec

INVARIANT TypeOK
INVARIANT ComponentsDisjoint
INVARIANT StackSimplePath

PROPERTY ImplementsPartition
CHECK_DEADLOCK FALSE
