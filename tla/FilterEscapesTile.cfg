SPECIFICATION Spec
CONSTANTS
    Filters <- GoodFilters
    Crs <- OneCrs
INVARIANT EveryRowIsInTheTile
CHECK_DEADLOCK FALSE
