CONSTANTS
    ConnectorList <- TwoConnectors
    NumCrtcs = 2
    Possible <- TwoPossible
    TileGroup <- NoTiles
    FullRes = {}
    BootCrtc <- NoBootCrtc
    GetFails = FALSE
SPECIFICATION CrtcSpec
INVARIANTS
    NoSharedCrtc
