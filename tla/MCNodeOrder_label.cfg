\* One location, two ids, pins drawn from the same ids.
CONSTANTS
    Ids = {1, 2}
    Coords = {0}
    None = None
    LabelRank <- MCLabelRank

SPECIFICATION Spec
INVARIANT OrderedByLabel

