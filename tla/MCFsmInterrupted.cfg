\* Interrupts drive the machine and change its subscriptions at any point.
CONSTANTS
    f1 = f1
    f2 = f2
    other = other
    h0 = h0
    h1 = h1
    A = A
    B = B
    Sub <- MCSub
    Sig <- MCSig
    Topics = 2
    Bucket <- MCBucket
    MaxNest = 1
    MaxServed = 3
    Disciplined = TRUE
    State <- MCState
    FsmSub <- MCFsmSub
    Atomic = FALSE
    MaxCalls = 3
SPECIFICATION FsmSpec
INVARIANTS
    EnteredIsCurrent
    NodesCounted
    OldStateWasLeft
SYMMETRY Symmetry
