SPECIFICATION Spec
CONSTANTS
    Requests = {r1, r2, r3}
    Kinds <- AllKinds
    Tls = FALSE
    MaxConns = 1
    DbTimeout = 2
    Grace = 1
CHECK_DEADLOCK FALSE
SYMMETRY Symmetry
INVARIANTS TypeOK TimeoutsReachTheClient ShutdownServesWhatItAccepted
