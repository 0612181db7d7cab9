\* Both IOLOGIC pairs find their enum tile.
CONSTANTS
    Slices = {"A"}
    Digits = {"0", "1"}
    Located = {"AB", "CD"}
    Arcs <- MCArcs

SPECIFICATION Spec
INVARIANT TypeOK
INVARIANT GearingRespected
INVARIANT Ccu2Rewritten

\* the insertion loop ends once every arc is added
CHECK_DEADLOCK FALSE
