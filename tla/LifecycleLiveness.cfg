SPECIFICATION FairSpec
CONSTANTS
    Requests = {r1, r2}
    Kinds <- TilesAndLists
    Tls = TRUE
    MaxConns = 1
    DbTimeout = 1
    Grace = 1
CHECK_DEADLOCK FALSE
PROPERTIES
    EveryRequestIsAnswered
    InterruptEndsTheProcess
