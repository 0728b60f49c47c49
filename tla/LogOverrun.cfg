SPECIFICATION FairSpec
CONSTANTS
    Words = 8
    Sizes <- S46
    Writers = {ctrl, isr}
    Reader = cli
    Priority <- MCPriority
    Stamps = {"data"}
    Retries = 1
    MaxLogs = 5
    Overrun = TRUE
    MaxPos = 40
    cli = cli
    ctrl = ctrl
    pci = pci
    isr = isr
CHECK_DEADLOCK FALSE
INVARIANTS TypeOK KeptWholeOnce
PROPERTIES FlashEnds
