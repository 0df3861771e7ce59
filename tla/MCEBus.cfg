CONSTANTS
    s1 = s1
    s2 = s2
    s3 = s3
    h0 = h0
    h1 = h1
    Sub <- MCSub
    Sig <- MCSig
    Topics = 2
    Bucket <- MCBucket
    MaxNest = 3
    MaxServed = 3
    Disciplined = TRUE
SPECIFICATION Spec
INVARIANTS
    BucketsSound
    ServedInOrder
PROPERTIES
    EveryoneServed
    OnlySubscribersCalled
SYMMETRY Symmetry
