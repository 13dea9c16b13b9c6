SPECIFICATION Spec
CONSTANTS
    a = a
    b = b
    c = c
    r1 = r1
    r2 = r2
    Main = Main
    NoProc = NoProc
    NoListing = NoListing
    Ids <- ThreeIds
    Requests <- Workers
    Asked <- AllRequests
    Catalogs <- AllCatalogs
    Unreadable <- OnlyC
    MaxDDL = 1
    MaxFaults = 1
SYMMETRY Symmetric
INVARIANTS
    TypeOK
    RegistryIsWhole
    ListingIsWhole
PROPERTIES
    ImplementsDirectory
    TilesDoNotDisturb
