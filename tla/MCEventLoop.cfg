SPECIFICATION FairSpec
CONSTANTS
    Bytes <- MCBytes
    EOF = EOF
    Capacity = 2
    Boards <- MCBoards
    Period = 2
    MaxChars = 3
    MaxTests = 2
CHECK_DEADLOCK FALSE
INVARIANTS LoopInv TestsAccounted
PROPERTIES EveryCharServed EveryTestRuns MsiTestEnds
