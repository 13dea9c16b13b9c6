SPECIFICATION FairSpec
CONSTANTS
    a = a
    b = b
    c = c
    r1 = r1
    r2 = r2
    Main = Main
    NoProc = NoProc
    NoListing = NoListing
    Ids <- ThreeIds
    Requests <- Workers
    Asked <- RefreshAndTile
    Catalogs <- OneCatalog
    Unreadable <- NoIds
    MaxDDL = 0
    MaxFaults = 1
PROPERTIES
    RequestsFinish
    ServerComesUp
