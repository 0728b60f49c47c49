------------------------------- MODULE MCShell ------------------------------
(* A small set of tests, names and lines of the command line.              *)
EXTENDS Shell

Test(enabled, func) == [enabled |-> enabled, func |-> func]

\* More device blocks than system blocks; one disabled, one without a function.
MCRegistry ==
    [dev |-> <<[enabled |-> TRUE, tests |-> <<Test(TRUE, "gpio"), Test(FALSE, "gpio2")>>],
               [enabled |-> FALSE, tests |-> <<Test(TRUE, "pci")>>],
               [enabled |-> TRUE, tests |-> <<Test(TRUE, "null")>>]>>,
     sys |-> <<[enabled |-> TRUE, tests |-> <<Test(TRUE, "test_cli"), Test(TRUE, "null")>>],
               [enabled |-> TRUE, tests |-> <<Test(TRUE, "log")>>]>>]

MCDomains == <<"dev", "sys", "test">>
MCEntities == <<"none", "cli", "sim", "gpio">>
MCLevels == <<"none", "error", "warn", "info">>
MCCapital == [none |-> "NONE", cli |-> "CLI", sim |-> "SIM", gpio |-> "GPIO", dev |-> "DEV", sys |-> "SYS",
              test |-> "TEST", error |-> "ERROR", warn |-> "WARN", info |-> "INFO"]

\* "cli" and "gpio" and their neighbours share slots; no two names share a hash.
Hashes == [none |-> 13, cli |-> 21, sim |-> 6, gpio |-> 29, dev |-> 7, sys |-> 15, test |-> 31,
           error |-> 8, warn |-> 16, info |-> 0]
MCHash == Hashes @@ [w \in {MCCapital[n] : n \in DOMAIN Hashes} |->
                        Hashes[CHOOSE n \in DOMAIN Hashes : MCCapital[n] = w]]
          @@ ("" :> 5) @@ ("zzz" :> 37)

Numbers == [w \in {"-10", "0", "1", "2", "3", "5", "8", "15", "20", "40", "50", "200", "300", "500", "900", "5000", "8000"} |->
    CASE w = "-10" -> -10 [] w = "0" -> 0 [] w = "1" -> 1 [] w = "2" -> 2 [] w = "3" -> 3 [] w = "5" -> 5
      [] w = "8" -> 8 [] w = "15" -> 15 [] w = "20" -> 20 [] w = "40" -> 40 [] w = "50" -> 50 [] w = "200" -> 200
      [] w = "300" -> 300 [] w = "500" -> 500 [] w = "900" -> 900 [] w = "5000" -> 5000 [] w = "8000" -> 8000]
MCAtoi(w) == IF w \in DOMAIN Numbers THEN Numbers[w] ELSE 0

MCWidth(w) == Len(w)

MCTestLines == <<<<"set", "log", "all", "all", "info">>, <<"set", "log", "all", "all", "none">>,
                 <<"set", "log", "sys", "cli", "error">>, <<"set", "log", "test", "cli", "info">>>>

MCMenuLines ==
    {<<w>> : w \in {"back", "quit", "system", "sim", "pci", "dev", "sys", "test", "start", "stop",
                    "pause", "help", "what"}}
    \cup ({"number", "block"} \X (0 .. 3))
    \cup {<<"name", t>> : t \in Tests}

MCSettingLines ==
    {<<"set">>, <<"set", "log">>, <<"set", "log", "dev">>, <<"set", "log", "all", "all", "info">>,
     <<"set", "log", "sys", "cli", "warn">>, <<"set", "log", "test", "gpio", "none">>,
     <<"set", "log", "dev", "none", "info">>, <<"set", "log", "zzz", "cli", "info">>,
     <<"set", "log", "sys", "sim", "error">>, <<"set", "log", "DEV", "cli", "info">>,
     <<"set", "sim">>, <<"set", "sim", "zzz">>, <<"set", "sim", "temp", "5">>,
     <<"set", "sim", "phy", "?">>, <<"set", "sim", "phy", "2">>, <<"set", "sim", "phy", "20", "0", "0", "8000">>,
     <<"set", "sim", "phy", "15", "900">>, <<"set", "sim", "phy", "3", "500", "5000", "0", "40">>,
     <<"set", "sim", "phy", "300", "1", "0", "8000", "-10">>, <<"set", "sim", "phy", "1", "2", "3", "5", "50">>,
     <<"set", "sim", "phy", "1", "2", "3", "5", "8", "0">>,
     <<"show">>, <<"show", "?">>, <<"show", "config">>, <<"show", "config", "sim">>,
     <<"show", "config", "sim", "current">>, <<"show", "config", "sim", "default">>,
     <<"show", "config", "sim", "ranges">>, <<"show", "config", "short">>, <<"show", "config", "log">>,
     <<"show", "stats", "log", "clear">>, <<"show", "stats", "sys">>, <<"show", "stats", "task">>,
     <<"show", "stats", "prof">>, <<"show", "levels">>, <<"show", "levels", "zzz">>, <<"show", "version">>,
     <<"show", "domains">>, <<"show", "entities">>}

MCTabLines == UNION {{SubSeq(line, 1, n) : n \in 1 .. Len(line)}
                     : line \in {l \in MCSettingLines : "?" \notin Words(l)}}

\* The beginnings typed, and the words they begin.
MCBegins == {"", "?", "s", "c", "n", "t"}
MCBeginnings ==
    [s |-> {"sim", "sys", "stats", "short"}, n |-> {"none"},
     c |-> {"config", "cli", "clear", "current"}, t |-> {"task", "temp", "test"}]
=============================================================================
