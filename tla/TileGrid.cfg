SPECIFICATION Spec
CONSTANTS
    Configs <- MCConfigs
    MaxZoom = 2
    MaxInt = 8
    Addresses <- MCAddresses
    Resolutions = {0, 2, 4}
    Buffers = {0, 1, 3}
    Extents <- MCExtents
    NoBox = NoBox
INVARIANTS TypeOK SquareIsCentred EveryPlaceHasOneTile ChildrenMakeUpTheirParent QueryCoversTile ExtentIsClipped
CHECK_DEADLOCK FALSE
