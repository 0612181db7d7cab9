\* The enum tile of IOLOGICC (two rows down) is not found.
CONSTANTS
    Slices = {"A"}
    Digits = {"0", "1"}
    Located = {"AB"}
    Arcs <- MCArcs

SPECIFICATION Spec
INVARIANT AliasedDriversExclusive

\* the insertion loop ends once every arc is added
CHECK_DEADLOCK FALSE
