\* A subscriber posts the event it retains once more.
CONSTANTS
    e1 = e1
    e2 = e2
    s1 = s1
    s2 = s2
    NULL = NULL
    Block <- MCBlock
    Sub <- MCSub
    Depth = 2
    MaxCtx = 2
    RefMod = 4
    LinkByte <- MCLinkByte
SPECIFICATION AgainSpec
INVARIANT
    RetainedSurvives
