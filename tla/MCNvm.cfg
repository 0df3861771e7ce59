SPECIFICATION Spec
CONSTANTS
    MaxPages = 2
    Slots = 3
    Record <- MCRecord
    MayWrap = FALSE
    Patient = TRUE
INVARIANTS
    LatestIsLast
PROPERTY
    ImplementsDurableValue
CHECK_DEADLOCK FALSE
