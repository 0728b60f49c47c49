------------------------------- MODULE Session ------------------------------
(***************************************************************************)
(* The menus of the command line (cli_main.c, cli_test.c and the menu part *)
(* of cli_system.c), in the FreeRTOS build on bare metal with simulation,  *)
(* PCI and tests.  A session is cli_data together with what the command    *)
(* line library keeps for it: the application context (an array of         *)
(* commands and the mask of those enabled), the names offered by           *)
(* completion, and the menu last written to the screen.  The library looks *)
(* a name up in one table: hidden commands answer in every menu, only the  *)
(* names "test", "start" and "stop", which have several handlers, depend   *)
(* on the application context.                                             *)
(*                                                                         *)
(* A handler is an operator from a session to a session, as the code calls *)
(* handlers one after another during one line.  Reading the test registry  *)
(* outside its bounds, or before there is one, makes the session wild:     *)
(* nothing is known of the program after it.                               *)
(***************************************************************************)
EXTENDS Integers, Sequences

CONSTANTS Registry,     \* group -> its blocks, sequences of [enabled, tests]
          Results       \* what a test function may answer

ASSUME RegistryAssumption ==
    /\ DOMAIN Registry = {"dev", "sys"}
    /\ \A group \in DOMAIN Registry :
          Registry[group] \in Seq([enabled : BOOLEAN, tests : Seq([enabled : BOOLEAN, func : STRING])])

VARIABLES session,
          stray         \* history: a hidden command was typed outside its menu

Groups == {"dev", "sys"}
MaxIndex(group) == Len(Registry[group])     \* MAX_BLOCK_INDEX, MAX_INFRA_INDEX
Tests == UNION {UNION {{<<g, b, t>> : t \in 0 .. Len(Registry[g][b + 1].tests) - 1}
                       : b \in 0 .. MaxIndex(g) - 1} : g \in Groups}
TestOf(t) == Registry[t[1]][t[2] + 1].tests[t[3] + 1]
Invalid == -1                               \* TEST_INVALID

\* What embeddedCliAddAppContext is given.
Contexts == [main |-> <<"system", "test", "dev", "sys">>,
             sim |-> <<"start", "stop", "pause", "resume">>,
             pci |-> <<"test", "start", "stop">>]

Start == [mode |-> "MAIN", test |-> MaxIndex("dev"), registry |-> "null", msg |-> "",
          base |-> "main", map |-> {0, 1}, offered |-> <<"none">>, screen |-> <<"main">>,
          no_error |-> FALSE, cmd_run |-> FALSE, test_cli |-> FALSE,
          running |-> TRUE, wild |-> FALSE, did |-> <<"nothing">>]

TestMode(s) == s.mode \in {"TEST", "TEST_DEV", "TEST_SYS"}
GetMaxIndex(s) == MaxIndex(IF s.mode = "TEST_SYS" THEN "sys" ELSE "dev")

\* registry[test] of the session can be read.
Readable(s, index) == s.registry \in Groups /\ index \in 0 .. MaxIndex(s.registry) - 1
Block(s, index) == Registry[s.registry][index + 1]
Enabled(block) == block.enabled /\ block.tests # <<>>
Wild(s) == [s EXCEPT !.wild = TRUE]

-----------------------------------------------------------------------------
(* Messages and menus *)

SetMsg(s, msg) == [s EXCEPT !.msg = msg]
PrintMsg(s) == [s EXCEPT !.msg = ""]
ClearMsg(s) == [s EXCEPT !.msg = "", !.no_error = TRUE]

CmdInTestMode(s) == [s EXCEPT !.cmd_run = @ \/ TestMode(s)]

\* Mutant: the commands of the main menu are not put back.
ShowMainMenuMapOnly(s) == PrintMsg([s EXCEPT !.map = {0, 1}, !.screen = <<"main">>])

ShowMainMenu(s) == PrintMsg([s EXCEPT !.base = "main", !.map = {0, 1}, !.screen = <<"main">>])
ShowSystemMenu(s) == [s EXCEPT !.map = {}, !.screen = <<"system">>]
ShowSimMenu(s) == [s EXCEPT !.base = "sim", !.map = 0 .. 3, !.screen = <<"sim">>]
ShowPciMenu(s) == [s EXCEPT !.base = "pci", !.map = 0 .. 2, !.screen = <<"pci">>]
ShowTestMenu(s) ==
    PrintMsg([s EXCEPT !.map = {}, !.offered = <<"blocks", s.registry, s.test>>,
                       !.screen = <<"blocks", s.registry, s.test>>])
\* The array of the context is not set here: it is the one of the menu before.
ShowTestSelectMenu(s) ==
    PrintMsg([s EXCEPT !.test = Invalid, !.map = {2, 3}, !.screen = <<"groups">>])

-----------------------------------------------------------------------------
(* Test menus *)

EnterTests(s, index) ==
    IF index \notin 0 .. GetMaxIndex(s) - 1 THEN SetMsg(s, "invalid")
    ELSE IF ~Readable(s, index) THEN Wild(s)
    ELSE IF ~Enabled(Block(s, index)) THEN SetMsg(s, "block disabled")
    ELSE PrintMsg([s EXCEPT !.no_error = TRUE, !.test = index,
                            !.offered = <<"tests", s.registry, index>>,
                            !.screen = <<"tests", s.registry, index>>])

\* test_cli only asks for the commands of its list to be run later.
ExecuteTest(s, t, result) ==
    LET quiet == [s EXCEPT !.no_error = TRUE]
        test == TestOf(t)
    IN  IF s.test >= GetMaxIndex(s) THEN SetMsg(quiet, "out of range")
        ELSE IF ~Readable(s, s.test) THEN Wild(s)
        ELSE IF <<t[1], t[2]>> # <<s.registry, s.test>> THEN SetMsg(quiet, "elsewhere")
        ELSE IF ~test.enabled THEN SetMsg(quiet, "disabled")
        ELSE IF test.func = "null" THEN SetMsg(quiet, "not configured")
        ELSE IF test.func = "test_cli" THEN [quiet EXCEPT !.msg = "PASS", !.did = <<"test", t>>, !.test_cli = TRUE]
        ELSE [quiet EXCEPT !.msg = result, !.did = <<"test", t>>]

NumberSelected(s, index, result) ==
    IF s.test = GetMaxIndex(s) THEN EnterTests(s, index)
    ELSE IF ~Readable(s, s.test) THEN Wild(s)
    ELSE IF index < Len(Block(s, s.test).tests) THEN ExecuteTest(s, <<s.registry, s.test, index>>, result)
    ELSE SetMsg(s, "invalid")

\* Mutant: the registry is left as it was.
DevTestMenuKeeps(s) ==
    ShowTestMenu([ClearMsg(s) EXCEPT !.mode = "TEST_DEV", !.test = MaxIndex("dev")])

TestMenu(s) == ShowTestSelectMenu([s EXCEPT !.mode = "TEST"])
DevTestMenu(s) ==
    ShowTestMenu([ClearMsg(s) EXCEPT !.mode = "TEST_DEV", !.test = MaxIndex("dev"), !.registry = "dev"])
SysTestMenu(s) ==
    ShowTestMenu([ClearMsg(s) EXCEPT !.mode = "TEST_SYS", !.test = MaxIndex("sys"), !.registry = "sys"])

-----------------------------------------------------------------------------
(* The other menus *)

Enter(s, mode) == [ClearMsg(s) EXCEPT !.mode = mode, !.test = MaxIndex("dev")]
SystemMenu(s) == ShowSystemMenu(Enter(s, "SYSTEM"))
SimMenu(s) == ShowSimMenu(Enter(s, "SIMULATION"))
StartPci(s) == [ShowPciMenu(Enter(s, "PCI_MODE")) EXCEPT !.did = <<"pci", "start">>]

Simulation(s, command) == [CmdInTestMode(s) EXCEPT !.did = <<"sim", command>>]
Pci(s, command) == [s EXCEPT !.did = <<"pci", command>>]

\* `top' is the block index that stands for the menu of the blocks.
BackTo(s, top) ==
    LET left == [s EXCEPT !.no_error = TRUE, !.offered = <<"none">>]
    IN  CASE s.mode \in {"TEST_DEV", "TEST_SYS"} /\ s.test # top -> ShowTestMenu([left EXCEPT !.test = top])
          [] s.mode \in {"TEST_DEV", "TEST_SYS"} /\ s.test = top -> ShowTestSelectMenu([left EXCEPT !.mode = "TEST"])
          [] s.mode \in {"PCI_MODE", "SIMULATION"} -> ShowSystemMenu([left EXCEPT !.mode = "SYSTEM"])
          [] OTHER -> ShowMainMenu([left EXCEPT !.mode = "MAIN"])
\* Mutant: the index of the device menu for the system menu, too.
BackDevTop(s) == BackTo(s, MaxIndex("dev"))
Back(s) == BackTo(s, MaxIndex(IF s.mode = "TEST_SYS" THEN "sys" ELSE "dev"))
Quit(s) == [s EXCEPT !.no_error = TRUE, !.running = FALSE]

-----------------------------------------------------------------------------
(* A line *)

\* The names of several handlers: the first one the application context enables.
Bound(s, name) == \E i \in s.map : i < Len(Contexts[s.base]) /\ Contexts[s.base][i + 1] = name
InContext(s, name) ==
    IF ~Bound(s, name) THEN s                                   \* unknown command
    ELSE CASE s.base = "main" -> TestMenu(s)
           [] s.base = "sim" -> Simulation(s, name)
           [] OTHER -> Pci(s, name)                             \* "pci"

\* What the words of a line call; a line of other words is answered "Unknown command".
Execute(s, line, result) ==
    CASE line[1] = "back" -> Back(s)
      [] line[1] = "quit" -> Quit(s)
      [] line[1] = "system" -> SystemMenu(s)
      [] line[1] = "sim" -> SimMenu(s)
      [] line[1] = "pci" -> StartPci(s)
      [] line[1] = "dev" -> DevTestMenu(s)
      [] line[1] = "sys" -> SysTestMenu(s)
      [] line[1] \in {"test", "start", "stop"} -> InContext(s, line[1])
      [] line[1] \in {"pause", "resume"} -> Simulation(s, line[1])
      [] line[1] \in {"set", "show", "help"} -> CmdInTestMode(s)
      [] line[1] = "number" -> NumberSelected(s, line[2], result)
      [] line[1] = "block" -> EnterTests(s, line[2])
      [] line[1] = "name" -> ExecuteTest(s, line[2], result)
      [] OTHER -> s

\* run_cli_tests: every command of the list is a set or show command.
RunCliTests(s) == IF s.test_cli THEN [CmdInTestMode(s) EXCEPT !.test_cli = FALSE] ELSE s

\* cli_run_test writes the menu again when a line changed nothing.
Redraw(before, s) ==
    IF s.cmd_run THEN [s EXCEPT !.cmd_run = FALSE]
    ELSE IF <<before.mode, before.test>> # <<s.mode, s.test>> THEN s
    ELSE LET told == IF ~s.no_error /\ s.msg = "" THEN SetMsg(s, "invalid") ELSE s
         IN  IF s.mode = "TEST" THEN ShowTestSelectMenu(told)
             ELSE IF s.test = GetMaxIndex(s) THEN ShowTestMenu(told)
             ELSE EnterTests(told, s.test)

\* cli_run on an Enter.
Line(s, line, result) ==
    LET before == [s EXCEPT !.did = <<"nothing">>]
        plain == Execute(before, line, result)
        tested == Execute([before EXCEPT !.cmd_run = FALSE, !.no_error = FALSE], line, result)
    IN  IF ~TestMode(s) THEN plain
        ELSE IF tested.wild \/ ~tested.running THEN tested
        ELSE Redraw(s, RunCliTests(tested))

\* The menu that shows a hidden command.
Home(line) ==
    CASE line[1] = "system" -> {"MAIN"}
      [] line[1] \in {"dev", "sys"} -> {"TEST"}
      [] line[1] \in {"pause", "resume"} -> {"SIMULATION"}
      [] line[1] \in {"number", "block", "name"} -> {"TEST_DEV", "TEST_SYS"}
      [] OTHER -> {session.mode}

Init == session = Start /\ stray = FALSE

Type(line) ==
    /\ session.running /\ ~session.wild
    /\ \E result \in Results : session' = Line(session, line, result)
    /\ stray' = (stray \/ session.mode \notin Home(line))

-----------------------------------------------------------------------------
(* Properties *)

\* How deep the menu on the screen is below the main one.
Depth(s) == CASE s.screen[1] = "main" -> 0
              [] s.screen[1] \in {"system", "groups"} -> 1
              [] s.screen[1] \in {"sim", "pci", "blocks"} -> 2
              [] s.screen[1] = "tests" -> 3

(***************************************************************************)
(* In the test menus what the screen shows, what completion offers and     *)
(* what a number selects are the same: the blocks of the group, or the     *)
(* tests of one enabled block of it.                                       *)
(* A test runs only from the block on the screen.  Every path through the  *)
(* handlers counts: numbers, names, back, redrawing after a wrong line.    *)
(***************************************************************************)
OnScreen(s) ==
    s.mode \in {"TEST_DEV", "TEST_SYS"} =>
       /\ s.registry = (IF s.mode = "TEST_SYS" THEN "sys" ELSE "dev")
       /\ s.test \in 0 .. MaxIndex(s.registry)
       /\ s.screen = <<IF s.test = MaxIndex(s.registry) THEN "blocks" ELSE "tests", s.registry, s.test>>
       /\ s.offered = s.screen
       /\ s.test < MaxIndex(s.registry) => Enabled(Block(s, s.test))
ScreenTrue ==
    /\ OnScreen(session)
    /\ session.did[1] = "test" /\ ~stray => session.screen = <<"tests", session.did[2][1], session.did[2][2]>>

\* The block whose test types commands itself.
InCliBlock(s) == /\ s.mode \in {"TEST_DEV", "TEST_SYS"}
                 /\ \E t \in Tests : <<t[1], t[2]>> = <<s.registry, s.test>> /\ TestOf(t).func = "test_cli"

(***************************************************************************)
(* As long as nobody types a hidden command in a menu that does not show   *)
(* it, or a "set" line whose handler misses words, the commands enabled    *)
(* are those of the menu, they reach the hardware the menu is about, no    *)
(* message of an earlier line is waiting unless the test of the command    *)
(* line left it (it types commands itself, and those end the line without  *)
(* writing the menu), and the registry is never read where it is not.  The *)
(* application context survives its menu, and so does the message: each    *)
(* handler must leave them right for the next one.                         *)
(***************************************************************************)
MenuTrue ==
    ~stray =>
       /\ ~session.wild
       /\ session.mode = "MAIN" => session.base = "main" /\ session.map = {0, 1}
       /\ session.mode = "TEST" => session.base = "main" /\ session.map = {2, 3}
       /\ session.mode \in {"SYSTEM", "TEST_DEV", "TEST_SYS"} => session.map = {}
       /\ session.mode = "SIMULATION" => session.base = "sim" /\ session.map = 0 .. 3
       /\ session.mode = "PCI_MODE" => session.base = "pci" /\ session.map = 0 .. 2
       /\ session.did[1] = "pci" => session.mode = "PCI_MODE"
       /\ session.did[1] = "sim" => session.mode = "SIMULATION"
       /\ session.msg # "" => InCliBlock(session)

(***************************************************************************)
(* "back" leaves the menu on the screen for one above it, until the main  *)
(* menu: whatever was typed before, repeating it leads out.                *)
(***************************************************************************)
BackClimbs ==
    [][\A result \in Results :
          session' = Line(session, <<"back">>, result) /\ ~session'.wild =>
             Depth(session') < Depth(session) \/ Depth(session) = 0]_session
=============================================================================
