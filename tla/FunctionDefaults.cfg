SPECIFICATION Spec
CONSTANTS
    h1 = h1
    h2 = h2
    Handlers = {h1}
    NoHandler = NoHandler
    Tables <- NoTables
    Functions <- CommaFunctions
    Requests <- OneDetail
    MaxRequests = 1
    Fold <- FoldNames
    Words <- WordPieces
    Numeral <- Numbers
    Unescape <- Fields
    Transpiled <- Filters
    MaxFeaturesPerTile = 10000
    DefaultResolution = 4096
    DefaultBuffer = 256
    PostGISVersion = 3000000
    UrlBase = NoUrlBase
    NoUrlBase = NoUrlBase
    BasePath <- Tiles
    HealthEndpoint <- Health
    ShowPreview = TRUE
    EnableMetrics = TRUE
    Digits <- Numerals
    Escapes <- EscapesOfGo
INVARIANTS
    ListedAsDeclared
CHECK_DEADLOCK FALSE
