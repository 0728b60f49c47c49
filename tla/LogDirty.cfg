SPECIFICATION Spec
CONSTANTS
    Words = 8
    Sizes <- S46
    Writers = {ctrl, isr}
    Reader = cli
    Priority <- MCPriority
    Stamps = {"data"}
    Retries = 2
    MaxLogs = 5
    Overrun = FALSE
    MaxPos = 40
    cli = cli
    ctrl = ctrl
    pci = pci
    isr = isr
CHECK_DEADLOCK FALSE
INVARIANTS QuietMeansFlushed

