SPECIFICATION FairSpec
CONSTANTS
    Top = 6
    Cool = 1
    Low = 2
    Target = 3
    FanOn = 4
    Alarm = 5
    Critical = 6
    Power = 4000
    Mass = 400
    Latency = 3
    Reload = 9
    FailPeriod = 9
    Lag = 1
    Dwell = 1
INVARIANTS SimInv WatchdogQuiet
PROPERTIES TestIsolated EmergencyCools AlarmEnds PauseReturns
