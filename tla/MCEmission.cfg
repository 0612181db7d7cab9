CONSTANTS
    saF0 = saF0  sbA0 = sbA0  sbB0 = sbB0  ebA0 = ebA0  pioO = pioO
    pioI = pioI  iolDO = iolDO  pioDO = pioDO  w1 = w1  w2 = w2
    mSliceA = mSliceA  mSliceB = mSliceB  mEbr = mEbr  mPio = mPio
    mIol = mIol  mPioB = mPioB  mIolB = mIolB  mW1 = mW1  mW2 = mW2
    p1 = p1  p2 = p2  c1 = c1
    PkgPins = {p1, p2}
    PinSite <- MCPinSite
    Comps = {c1, p2}
    NoComp = NoComp
    F0 = F0  A0 = A0  B0 = B0  O = O  I = I  IOLDO = IOLDO
    NoPin = NoPin
    NoNode = NoNode
    Node <- MCNode
    Mod <- MCMod
    Pin <- MCPin
    ModName <- MCModName
    PinOf <- MCPinOf
    SliceMods = {mSliceA, mSliceB}
    EbrMods = {mEbr}
    EclkMods = {}
    InternalPins = {IOLDO}
    NoTile = {mEbr}
    Fields <- MCFields
    CandidateEdge <- MCCandidateEdge

SPECIFICATION Spec

INVARIANT TypeOK
INVARIANT DeclaredSignals
INVARIANT PinsBoundToDriver
INVARIANT MultiRootExcluded
INVARIANT InputsRead

PROPERTY RunOutcome
CHECK_DEADLOCK FALSE
INVARIANT NamesDistinct
