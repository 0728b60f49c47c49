------------------------------ MODULE Settings ------------------------------
(***************************************************************************)
(* What "set" changes and "show" reads back: the log levels                *)
(* (on_set_log_command in cli_system.c, log_set_level in log_infra.c) and   *)
(* the configuration of the simulation (on_set_sim_command in              *)
(* cli_system.c, set_sim_cfg and get_sim_cfg in freertos_sim.c).  The      *)
(* lines come from CommandTree.                                            *)
(*                                                                         *)
(* Words are numbers through Atoi, 0 for any other word, and 16 bits wide. *)
(* "set sim temp" never arrives here (see CommandTree), so that of the     *)
(* second packet of set_sim_cfg only the ambient temperature does; the     *)
(* sensor latency keeps its default but for the limit it gets with short   *)
(* ramps.                                                                  *)
(***************************************************************************)
EXTENDS CommandTree

CONSTANTS Atoi(_),
          Width(_),         \* word -> its letters
          PageSize,         \* the buffer of a report, 256 in the code
          TestLines         \* the lines of test_cli that set levels

VARIABLES log_level,    \* [domain, entity] -> its level
          sim,          \* the configuration of the simulation: value of each field, and
                        \* in mask the fields set by the user; inuse: it was started once
          last          \* the last set or show line, its answer, what was out of range and the
                        \* pages shown, or the words that completion offered behind it

settings == <<log_level, sim, last>>

Number(word) == Atoi(word) % 65536
Cells == Words(Domains) \X Words(Entities)

Fields == {"ramp", "mass", "cond", "power", "ambient", "latency"}
Default == [ramp |-> 10, mass |-> 400, cond |-> 8192, power |-> 4000, ambient |-> 25, latency |-> 20]
Limits == [ramp |-> <<2, 20>>, mass |-> <<200, 1000>>, cond |-> <<5000, 15000>>, power |-> <<1000, 8000>>,
          ambient |-> <<-10, 40>>, latency |-> <<5, 50>>]
InRange(field, n) == Limits[field][1] <= n /\ n <= Limits[field][2]

NoAnswer == [line |-> <<>>, answer |-> "none", skipped |-> {}, pages |-> <<>>, begun |-> "", offered |-> {}]

SettingsInit ==
    /\ log_level = [c \in Cells |-> IF c = <<"sys", "cli">> THEN "error" ELSE "none"]
    /\ sim = [value |-> [f \in Fields |-> 0], mask |-> {}, inuse |-> FALSE]
    /\ last = NoAnswer

-----------------------------------------------------------------------------
(* set log *)

\* log_set_level, of several cells
LevelSet(levels, cells, level) == [c \in Cells |-> IF c \in cells THEN level ELSE levels[c]]

\* on_set_log_command.  With fewer words than three a null pointer is hashed.
Targets(word, table, names) == IF word = "all" THEN Words(names) ELSE FindName(table, word)
SetLogAnswer(args) ==
    IF Len(args) < 4 THEN "wild"
    ELSE IF FindName(LevelTable, args[4]) = {} THEN "bad level"
    ELSE IF Targets(args[2], DomainTable, Domains) = {} THEN "bad domain"
    ELSE IF Targets(args[3], EntityTable, Entities) = {} THEN "bad entity"
    ELSE "level set"
SetLog(levels, args) ==
    LET named == Targets(args[2], DomainTable, Domains) \X Targets(args[3], EntityTable, Entities)
    IN  IF SetLogAnswer(args) # "level set" THEN levels
        ELSE LevelSet(levels, named, CHOOSE l \in FindName(LevelTable, args[4]) : TRUE)

\* The commands of test_cli, one after another, that change levels.
CliTest(levels) == FoldLeft(LAMBDA m, line : SetLog(m, Tail(line)), levels, TestLines)

-----------------------------------------------------------------------------
(* set sim *)

Clamp(field, n) == Max({Limits[field][1], Min({Limits[field][2], n})})

\* Mass follows from power and ramp, conductance from mass, unless `keep' holds them.
MassOf(value, keep) ==
    IF "mass" \in keep THEN value
    ELSE [value EXCEPT !.mass = Clamp("mass", (value.power * value.ramp) \div 100)]
CondOf(value, keep) ==
    IF "cond" \in keep THEN value
    ELSE [value EXCEPT !.cond = Clamp("cond", 4000 + 20 * value.mass)]

\* Mutant: the conductance follows without its limits.
ThermalMatrixUnlimited(value, keep) ==
    LET v == MassOf(value, keep)
    IN  IF "cond" \in keep THEN v ELSE [v EXCEPT !.cond = 4000 + 20 * v.mass]
\* Mutant: values the user set are computed, too.
ThermalMatrixFresh(value, keep) == CondOf(MassOf(value, {}), {})
ThermalMatrix(value, keep) == CondOf(MassOf(value, keep), keep)

\* The fields a line gives: a 0 counts as none but for the ramp and the ambient temperature,
\* as does a ramp of 256 or more.
Given(args) ==
    {<<PhyArgs[i], Number(args[i + 2])>> : i \in {i \in 1 .. Len(args) - 2 :
        IF i = 1 THEN Number(args[3]) < 256 ELSE i = 5 \/ Number(args[i + 2]) # 0}}
Signed(f, n) == IF f = "ambient" /\ n >= 32768 THEN n - 65536 ELSE n

\* set_sim_cfg; the second packet comes with the ambient temperature.
SetSim(args) ==
    LET given == {<<g[1], Signed(g[1], g[2])>> : g \in Given(args)}
        good == {g \in given : InRange(g[1], g[2])}
        fields == {g[1] : g \in good}
        phy == fields \ {"ambient"}
        named == [f \in Fields |-> IF f \in fields THEN (CHOOSE g \in good : g[1] = f)[2] ELSE sim.value[f]]
        mask == sim.mask \cup fields
        derived == IF phy \cap {"ramp", "power"} = {} THEN named ELSE ThermalMatrix(named, phy)
        limited == IF sim.inuse /\ derived.ramp < 4 /\ derived.latency > 10
                   THEN [derived EXCEPT !.latency = 10] ELSE derived
        second == Len(args) = 7
    IN  [sim |-> [sim EXCEPT !.mask = mask,
                             !.value = IF ~second THEN derived
                                       ELSE IF sim.inuse THEN ThermalMatrix(limited, mask) ELSE limited],
         skipped |-> {g[1] : g \in given \ good}, given |-> {g[1] : g \in given}]

\* The loop over the 16-bit fields takes the ambient temperature for one more of them: it is
\* written behind the first packet, where the header of the second is written after it, and
\* unless it is 0 it leaves a bit in cfg_mask that no range check takes away.
Fifth(args) == Len(args) = 7 /\ Number(args[7]) # 0

\* "Sim config set", if cfg_mask has a bit that is not reported out of range.
SetSimAnswer(args) ==
    IF Len(args) < 3 THEN "wild"
    ELSE IF Fifth(args) \/ ~(SetSim(args).given \subseteq SetSim(args).skipped) THEN "config set"
    ELSE "nothing"

\* The hardware task starts for the first time: temp_ctrl_cfg_init, reset_sim_state(true), and the
\* control task sets the levels of its messages.
FirstStart ==
    LET own == [f \in Fields |-> IF f \in sim.mask THEN sim.value[f] ELSE Default[f]]
    IN  IF sim.inuse THEN UNCHANGED <<log_level, sim>>
        ELSE /\ sim' = [sim EXCEPT !.inuse = TRUE, !.value = ThermalMatrix(own, sim.mask)]
             /\ log_level' = LevelSet(log_level, {<<"sys", "sim">>, <<"dev", "gpio">>}, "info")

\* get_sim_cfg: what "show config sim current" shows.
Shown(field) == IF sim.inuse \/ field \in sim.mask THEN sim.value[field] ELSE Default[field]

-----------------------------------------------------------------------------
(* show *)

\* Text that does not fit the buffer is printed and begun anew, without the line break.
Pages(head, lines) ==
    FoldLeft(LAMBDA pages, line :
                LET n == Len(pages)
                IN  IF pages[n].width + line[2] < PageSize
                    THEN [pages EXCEPT ![n] = [lines |-> Append(@.lines, line[1]), width |-> @.width + line[2]]]
                    ELSE Append(pages, [lines |-> <<line[1]>>, width |-> line[2] - 2]),
             <<[lines |-> <<>>, width |-> head]>>, lines)

\* show_config_log: the cells with a level, "[domain:entity] level" each.
InOrder == FlattenSeq([d \in DOMAIN Domains |-> [e \in DOMAIN Entities |-> <<Domains[d], Entities[e]>>]])
LogText(cell, level) == <<Capital[cell[1]], EntityCapital[cell[2]], Capital[level]>>
LogLine(cell, level) ==
    LET text == LogText(cell, level)
    IN  <<text, 6 + Width(text[1]) + (IF cell[2] = "none" THEN 0 ELSE 1) + Width(text[2]) + Width(text[3])>>
ConfigLog ==
    LET enabled == SelectSeq(InOrder, LAMBDA cell : log_level[cell] # "none")
    IN  IF enabled = <<>> THEN <<>>
        ELSE Pages(12, [i \in DOMAIN enabled |-> LogLine(enabled[i], log_level[enabled[i]])])

\* show_config_sim, the ranges.
Ranges == Pages(22, <<<<"ramp", 24>>, <<"mass", 33>>, <<"cond", 35>>, <<"power", 31>>, <<"ambient", 29>>,
                      <<"latency", 28>>, <<"target", 28>>, <<"critical", 31>>, <<"cooldown", 30>>,
                      <<"hyster", 25>>>>)

\* show_domains, show_entities and show_log_levels: one page, in capitals.
Listed(head, names) ==
    LET shown == [i \in DOMAIN names |-> Capital[names[i]]]
    IN  <<[lines |-> shown, width |-> FoldLeft(LAMBDA n, name : n + 1 + Width(name), head, shown)]>>

Report(line, run) ==
    CASE run = "config log" -> ConfigLog
      [] run = "config sim" /\ line[4] = "ranges" -> Ranges
      [] run = "domains" -> Listed(8, Domains)
      [] run = "entities" -> Listed(9, SelectSeq(Entities, LAMBDA name : name # "none"))
      [] run = "levels" -> Listed(11, Levels)
      [] OTHER -> <<>>

-----------------------------------------------------------------------------
(* A line *)

Answer(line) ==
    LET args == Tail(line)
        run == CmdDispatch(Tree(line[1]), args)
    IN  CASE run = "set log" -> SetLogAnswer(args)
          [] run = "set sim" -> SetSimAnswer(args)
          [] OTHER -> run

Configure(line) ==
    LET args == Tail(line)
        run == CmdDispatch(Tree(line[1]), args)
    IN  /\ log_level' = IF run = "set log" THEN SetLog(log_level, args) ELSE log_level
        /\ sim' = IF run = "set sim" /\ Len(args) >= 3 THEN SetSim(args).sim ELSE sim
        /\ last' = [NoAnswer EXCEPT !.line = line, !.answer = Answer(line),
                                    !.skipped = IF run = "set sim" /\ Len(args) >= 3
                                                THEN SetSim(args).skipped ELSE {},
                                    !.pages = Report(line, run)]

\* The TAB key on a word begun behind a line.
Tab(line, word) ==
    /\ last' = [NoAnswer EXCEPT !.line = line, !.answer = "tab", !.begun = word,
                                !.offered = Completion(Tree(line[1]), Tail(line), word)]
    /\ UNCHANGED <<log_level, sim>>
=============================================================================
