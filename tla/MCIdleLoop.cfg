CONSTANTS
    Wrap = 22
    MaxSlots = 2
    Timeout = {2}
    Iwdg = 4
    MaxSlack = 2
    Request = {0, 1, 3, 6}
    Cap = 3
    WfiMax = 2
    MaxRun = 1
    MaxArm = 1
    MaxRecovery = 1
    Loops <- MCLoops
SPECIFICATION IdleSpec
INVARIANTS
    HealthyNotReset
    SilenceResets
PROPERTIES
    RefusalJust
    SleepTimeKept
VIEW Shifted
