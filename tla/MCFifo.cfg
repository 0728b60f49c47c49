SPECIFICATION Spec
CONSTANTS
    Size = 4
    Bytes <- MCBytes
    EOF <- MCEof
INVARIANTS
    ReadyMeansByte
    NoSlotRace
    FifoInv
PROPERTIES
    ImplementsByteQueue
