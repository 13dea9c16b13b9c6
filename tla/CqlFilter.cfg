SPECIFICATION Spec
CONSTANTS
    Filters <- AllFilters
    Crs <- TwoCrs
INVARIANTS FilterKeepsItsMeaning WellFormedIsAccepted OnlyFiltersAreAccepted
CHECK_DEADLOCK FALSE
