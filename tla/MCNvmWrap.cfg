SPECIFICATION Spec
CONSTANTS
    MaxPages = 2
    Slots = 2
    Record <- MCRecord
    MayWrap = TRUE
    Patient = TRUE
INVARIANT
    LatestIsLast
