CONSTANTS
    b1 = b1
    b2 = b2
    Byte <- MCByte
    Size = 2
    Modulus = 4
    MaxLen = 3
    MaxSent = 6
SPECIFICATION Spec
INVARIANTS
    TypeOK
    ContentsIntact
    DeliveredInOrder
    GrantsHold
PROPERTIES
    ImplementsFifo
SYMMETRY Symmetry
