\* A handler or an interrupt unsubscribes the node a dispatch has saved.
CONSTANTS
    s1 = s1
    s2 = s2
    s3 = s3
    h0 = h0
    h1 = h1
    Sub <- MCSub
    Sig <- MCSig
    Topics = 2
    Bucket <- MCBucket
    MaxNest = 2
    MaxServed = 2
    Disciplined = FALSE
SPECIFICATION Spec
INVARIANT
    RemovedNotCalled
SYMMETRY Symmetry
VIEW WithoutHistory
