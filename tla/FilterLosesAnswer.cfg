SPECIFICATION Spec
CONSTANTS
    Filters <- AllFilters
    Crs <- OneCrs
INVARIANT EveryFilterIsAnswered
CHECK_DEADLOCK FALSE
