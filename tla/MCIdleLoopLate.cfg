CONSTANTS
    Wrap = 22
    MaxSlots = 1
    Timeout = {2}
    Iwdg = 4
    MaxSlack = 2
    Request = {3}
    Cap = 3
    WfiMax = 2
    MaxRun = 1
    MaxArm = 1
    MaxRecovery = 1
    Loops <- MCSleepingLoop
SPECIFICATION FairIdleSpec
PROPERTY LateResets
