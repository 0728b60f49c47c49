SPECIFICATION FairSpec
CONSTANTS
    Words = 8
    Sizes <- S46
    Writers = {ctrl, pci}
    Reader = cli
    Priority <- MCPriority
    Stamps = {"data", "SEAL"}
    Retries = 2
    MaxLogs = 5
    Overrun = FALSE
    MaxPos = 40
    cli = cli
    ctrl = ctrl
    pci = pci
    isr = isr
CHECK_DEADLOCK FALSE
INVARIANTS WholeOnce Exclusive
PROPERTIES ImplementsLossyLog CallsEnd
