SPECIFICATION RtosFairSpec
CONSTANTS
    Bytes <- MCBytes
    EOF = EOF
    Capacity = 2
    Exit = "exit"
    MaxChars = 3
    Topologies <- MCTopologies
    MaxDevices = 3
    MaxBridges = 2
    MaxFunctions = 3
    MaxBars = 3
    MaxPciMsi = 2
    MaxCaps = 3
    MmioBase = 32
    Wrap = 64
    Least = 1
    Window = 4
CHECK_DEADLOCK FALSE
INVARIANTS CliInv ScanExact BarsApart TestReaches VerdictTrue
PROPERTIES EveryCharServed RequestServed
