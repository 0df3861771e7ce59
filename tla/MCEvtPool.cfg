\* A queue of one event, so that posting is refused; two interrupt levels.
CONSTANTS
    e1 = e1
    e2 = e2
    s1 = s1
    s2 = s2
    NULL = NULL
    Block <- MCBlock
    Sub <- MCSub
    Depth = 2
    MaxCtx = 2
    RefMod = 4
    LinkByte <- MCLinkByte
SPECIFICATION FairSpec
INVARIANTS
    TypeOK
    OnePlace
    FreeListIntact
    RefCountExact
PROPERTIES
    ImplementsEventPool
    EveryBlockReturns
