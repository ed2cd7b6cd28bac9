SPECIFICATION Spec
CONSTANTS
    Calls = {c1, c2, c3}
    Pages = {1, 2}
    PageSize = 1
    MaxInFlight = 2
    MaxErrors = 1
    MaxInt = 7
    NoList = none
INVARIANTS
    TypeOK
    DeletedIsNotRead
    PageHoldsItsTotal
    StaleHasCause
PROPERTIES
    AloneReadsStored
CHECK_DEADLOCK FALSE
