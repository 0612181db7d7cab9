CONSTANTS
    ECP5 = ECP5
    MachXO2 = MachXO2
    d25 = d25
    d45 = d45
    d85 = d85
    d1200 = d1200
    CIB = CIB
    PLC2 = PLC2
    EBR = EBR
    TileHtml = TileHtml
    Fams <- MCFams
    Devices <- MCDevices
    Tiles <- MCTiles
SPECIFICATION Spec
CHECK_DEADLOCK FALSE
INVARIANT TypeOK
INVARIANT TocLinksResolve
INVARIANT TilePagesFromLastLister
PROPERTY RerunCompletes
