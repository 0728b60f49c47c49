SPECIFICATION FairSpec
CONSTANTS
    Tracked <- MCTracked
    NumLevels = 3
    Calls <- MCCalls
    Seeds = {0, 1}
    Hash <- MCHash
    MaxSamples = 2
    MaxCalls = 5
CHECK_DEADLOCK FALSE
INVARIANTS ReaderAlone ChainsExact PoolClean OwnExit
PROPERTIES ReadEnds
