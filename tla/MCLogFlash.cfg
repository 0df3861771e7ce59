SPECIFICATION Spec
CONSTANTS
    Pages = 3
    Slots = 2
    SeqMod = 16
    Careful <- MCCareful
INVARIANTS
    NeverReprogram
    RingInOrder
    DumpExact
PROPERTY
    ImplementsRingLog
