SPECIFICATION FairSpec
CONSTANTS
    h1 = h1
    h2 = h2
    Handlers = {h1, h2}
    NoHandler = NoHandler
    Tables <- SomeTables
    Functions <- SomeFunctions
    Requests <- SomeRequests
    MaxRequests = 2
    Fold <- FoldNames
    Words <- WordPieces
    Numeral <- Numbers
    Unescape <- Fields
    Transpiled <- Filters
    MaxFeaturesPerTile = 10000
    DefaultResolution = 4096
    DefaultBuffer = 256
    PostGISVersion = 3000000
    UrlBase = NoUrlBase
    NoUrlBase = NoUrlBase
    BasePath <- Tiles
    HealthEndpoint <- Health
    ShowPreview = TRUE
    EnableMetrics = TRUE
    Digits <- Numerals
    Escapes <- EscapesOfGo
INVARIANTS
    TypeOK
    TilesAreWhole
    CallsBindTheirArguments
    RefusedForTheRequest
    ListedAsDeclared
    LinksLeadBack
    MetricsTrackValidLayers
PROPERTIES
    RaceWindowCloses
    TilesFinish
CHECK_DEADLOCK FALSE
