CONSTANTS
    t1 = t1
    t2 = t2
    t3 = t3
    Timer <- MCTimerSet
    Sentinel = Sentinel
    Wrap = 9
    MaxPeriod = 2
    Setting <- MCSetting
    MaxSleep = 1
    WfiMax = 0
    Disciplined = TRUE
SPECIFICATION Spec
INVARIANTS
    ActiveListSound
    MsToNextExact
PROPERTIES
    NoneLeftDue
    UpdateAdvances
    ImplementsTimerService
SYMMETRY Symmetry
