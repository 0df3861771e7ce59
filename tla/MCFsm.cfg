CONSTANTS
    f1 = f1
    f2 = f2
    other = other
    h0 = h0
    h1 = h1
    A = A
    B = B
    Sub <- MCSub
    Sig <- MCSig
    Topics = 2
    Bucket <- MCBucket
    MaxNest = 2
    MaxServed = 3
    Disciplined = TRUE
    State <- MCState
    FsmSub <- MCFsmSub
    Atomic = TRUE
    MaxCalls = 2
SPECIFICATION FsmSpec
INVARIANTS
    NodesCounted
    EnteredIsCurrent
PROPERTY
    OnlyLiveStateCalled
SYMMETRY Symmetry
VIEW WithoutHistory
