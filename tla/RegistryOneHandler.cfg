SPECIFICATION Spec
CONSTANTS
    a = a
    b = b
    c = c
    r1 = r1
    r2 = r2
    Main = Main
    NoProc = NoProc
    NoListing = NoListing
    Ids <- ThreeIds
    Requests <- OneWorker
    Asked <- MoreRequests
    Catalogs <- AllCatalogs
    Unreadable <- NoIds
    MaxDDL = 2
    MaxFaults = 0
INVARIANTS
    NotFoundMeansAbsent
    AnswersAreCurrent
