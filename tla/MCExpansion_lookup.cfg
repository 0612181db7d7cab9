CONSTANTS
    f5a = f5a  f1s = f1s  f1 = f1  r1 = r1  a0w = a0w  rx = rx
    hpbx = hpbx  tap = tap  gdel = gdel
    pOFX = pOFX  pF1 = pF1  pA0 = pA0  pCLK = pCLK  pRX4A = pRX4A  pRX0B = pRX0B
    bSlice = bSlice  bIolA = bIolA  bIolB = bIolB
    Node <- MCNode
    Wires <- MCWires
    Missing = {gdel}
    Pins <- MCPins
    BelOf <- MCBelOf
    BelsUphill <- MCBelsUphill
    BelsDownhill <- MCBelsDownhill
    FixedArcs <- MCFixedArcs
    ZeroBit <- MCZeroBit
    GlobalFeed <- MCGlobalFeed
    ConfigArcs <- MCConfigArcs
    Unresolved <- MCUnresolved
    Ccu2Arcs <- MCCcu2Arcs
    DroppedPins = {pRX4A}

SPECIFICATION Spec



CHECK_DEADLOCK FALSE
INVARIANT ConfigLookupNeverFatal
