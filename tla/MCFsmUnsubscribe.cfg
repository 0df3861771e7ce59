\* UnsubscribeAll from a callback while a dispatch goes on with a node of the machine.
CONSTANTS
    f1 = f1
    f2 = f2
    other = other
    h0 = h0
    h1 = h1
    A = A
    B = B
    Sub <- MCFsmNodes
    Sig <- MCSig
    Topics = 2
    Bucket <- MCBucket
    MaxNest = 1
    MaxServed = 3
    Disciplined = FALSE
    State <- MCState
    FsmSub <- MCFsmSub
    Atomic = TRUE
    MaxCalls = 2
SPECIFICATION FsmSpec
INVARIANT
    WalksEnd
SYMMETRY Symmetry
