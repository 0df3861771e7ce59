\* Callbacks and interrupts stop and restart whatever timer they like.
CONSTANTS
    t1 = t1
    t2 = t2
    t3 = t3
    Timer <- MCTimerSet
    Sentinel = Sentinel
    Wrap = 9
    MaxPeriod = 2
    Setting <- MCSetting
    MaxSleep = 1
    WfiMax = 0
    Disciplined = FALSE
SPECIFICATION Spec
INVARIANT
    OnlyRunningFire
SYMMETRY Symmetry
