----------------------------- MODULE ShellProofs ----------------------------
(***************************************************************************)
(* The command line proved for every registry of tests, every vocabulary   *)
(* and every set of lines.  First the test menus: what the screen shows is *)
(* what a number selects, and what it enables belongs to the menu; the     *)
(* handlers are taken one by one, each keeps the session in order or puts  *)
(* it there.  Then the settings of the simulation: what a line gives is    *)
(* checked, and what is computed from it is limited.                       *)
(***************************************************************************)
EXTENDS Shell, TLAPS

SessionFields == {"mode", "test", "registry", "msg", "base", "map", "offered", "screen", "no_error",
                  "cmd_run", "test_cli", "running", "wild", "did"}
Rec(s) == s = [f \in SessionFields |-> s[f]]

\* The test that ran is one of the block the session is in.
RanHere(s) == s.did[1] = "test" =>
                 /\ s.mode \in {"TEST_DEV", "TEST_SYS"}
                 /\ <<s.did[2][1], s.did[2][2]>> = <<s.registry, s.test>>
                 /\ s.test < MaxIndex(s.registry)

Good(s) == Rec(s) /\ OnScreen(s)

LEMMA MaxIndexType == \A group \in Groups : MaxIndex(group) \in Nat
  BY RegistryAssumption DEF Groups, MaxIndex

(***************************************************************************)
(* Messages and flags leave the menu alone.                                *)
(***************************************************************************)
Same(s, new) == /\ new.mode = s.mode /\ new.test = s.test /\ new.registry = s.registry
                /\ new.offered = s.offered /\ new.screen = s.screen

LEMMA SameGood == ASSUME NEW s, NEW new, Rec(new), Same(s, new), OnScreen(s) PROVE Good(new)
  BY DEF Same, OnScreen, Good, Block

LEMMA MessagesSame ==
    ASSUME NEW s, Rec(s), NEW msg
    PROVE  /\ Rec(SetMsg(s, msg)) /\ Same(s, SetMsg(s, msg)) /\ SetMsg(s, msg).did = s.did
           /\ Rec(PrintMsg(s)) /\ Same(s, PrintMsg(s)) /\ PrintMsg(s).did = s.did
           /\ Rec(ClearMsg(s)) /\ Same(s, ClearMsg(s)) /\ ClearMsg(s).did = s.did
           /\ Rec(CmdInTestMode(s)) /\ Same(s, CmdInTestMode(s)) /\ CmdInTestMode(s).did = s.did
           /\ Rec(Wild(s)) /\ Same(s, Wild(s)) /\ Wild(s).did = s.did
  BY DEF Rec, SessionFields, Same, SetMsg, PrintMsg, ClearMsg, CmdInTestMode, Wild

(***************************************************************************)
(* A menu of blocks, and the tests of one block.                           *)
(***************************************************************************)
LEMMA ShowBlocks ==
    ASSUME NEW s, Rec(s), s.mode \in {"TEST_DEV", "TEST_SYS"},
           s.registry = (IF s.mode = "TEST_SYS" THEN "sys" ELSE "dev"), s.test = MaxIndex(s.registry)
    PROVE  Good(ShowTestMenu(s)) /\ ShowTestMenu(s).did = s.did
           /\ ShowTestMenu(s).mode = s.mode /\ ShowTestMenu(s).test = s.test
           /\ ShowTestMenu(s).registry = s.registry
  <1> DEFINE new == ShowTestMenu(s)
  <1>1. /\ Rec(new) /\ new.did = s.did /\ new.mode = s.mode /\ new.test = s.test /\ new.registry = s.registry
        /\ new.screen = <<"blocks", s.registry, s.test>> /\ new.offered = new.screen
    BY DEF Rec, SessionFields, ShowTestMenu, PrintMsg
  <1> HIDE DEF new
  <1>2. MaxIndex(s.registry) \in Nat
    BY MaxIndexType DEF Groups
  <1>3. OnScreen(new)
    BY <1>1, <1>2 DEF OnScreen
  <1> QED BY <1>1, <1>3 DEF Good, new

LEMMA EnterKeeps ==
    ASSUME NEW s, Good(s), NEW index
    PROVE  /\ Good(EnterTests(s, index)) /\ EnterTests(s, index).did = s.did
           /\ EnterTests(s, index).mode = s.mode /\ EnterTests(s, index).registry = s.registry
           /\ EnterTests(s, index).test \in {s.test, index}
  <1> DEFINE new == EnterTests(s, index)
             shown == PrintMsg([s EXCEPT !.no_error = TRUE, !.test = index,
                                         !.offered = <<"tests", s.registry, index>>,
                                         !.screen = <<"tests", s.registry, index>>])
  <1>1. \/ new = SetMsg(s, "invalid") \/ new = SetMsg(s, "block disabled") \/ new = Wild(s)
        \/ new = shown /\ index \in 0 .. GetMaxIndex(s) - 1 /\ Enabled(Block(s, index))
    BY DEF EnterTests
  <1>2. /\ Rec(shown) /\ shown.did = s.did /\ shown.mode = s.mode /\ shown.test = index
        /\ shown.registry = s.registry
        /\ shown.screen = <<"tests", s.registry, index>> /\ shown.offered = shown.screen
    BY DEF Good, Rec, SessionFields, PrintMsg
  <1> HIDE DEF new, shown
  <1>3. CASE new = SetMsg(s, "invalid") \/ new = SetMsg(s, "block disabled") \/ new = Wild(s)
    <2>0. Rec(s)
      BY DEF Good
    <2>1. \A msg : Rec(SetMsg(s, msg)) /\ Same(s, SetMsg(s, msg)) /\ SetMsg(s, msg).did = s.did
      BY <2>0, MessagesSame
    <2>2. Rec(Wild(s)) /\ Same(s, Wild(s)) /\ Wild(s).did = s.did
      BY <2>0, MessagesSame
    <2>3. Rec(new) /\ Same(s, new) /\ new.did = s.did
      BY <1>3, <2>1, <2>2
    <2> QED BY <2>3, SameGood DEF Good, Same, new
  <1>4. CASE new = shown /\ index \in 0 .. GetMaxIndex(s) - 1 /\ Enabled(Block(s, index))
    <2>1. CASE s.mode \in {"TEST_DEV", "TEST_SYS"}
      <3>1. /\ s.registry \in Groups /\ GetMaxIndex(s) = MaxIndex(s.registry)
            /\ s.registry = (IF s.mode = "TEST_SYS" THEN "sys" ELSE "dev")
        BY <2>1 DEF Good, OnScreen, Groups, GetMaxIndex
      <3>2. MaxIndex(s.registry) \in Nat
        BY <3>1, MaxIndexType
      <3>3. OnScreen(shown)
        BY <1>2, <1>4, <3>1, <3>2 DEF OnScreen, Block
      <3> QED BY <1>2, <1>4, <3>3 DEF Good, new
    <2>2. CASE s.mode \notin {"TEST_DEV", "TEST_SYS"}
      BY <1>2, <1>4, <2>2 DEF Good, OnScreen, new
    <2> QED BY <2>1, <2>2
  <1> QED BY <1>1, <1>3, <1>4

(***************************************************************************)
(* A test runs in the block the session is in.                             *)
(***************************************************************************)
Ran(s, new) == /\ Readable(s, s.test) /\ new.did[1] = "test"
               /\ <<new.did[2][1], new.did[2][2]>> = <<s.registry, s.test>>
               /\ Same(s, new)

LEMMA ExecuteTestKeeps ==
    ASSUME NEW s, Good(s), NEW t, NEW result
    PROVE  /\ Good(ExecuteTest(s, t, result)) /\ Same(s, ExecuteTest(s, t, result))
           /\ \/ ExecuteTest(s, t, result).did = s.did
              \/ Ran(s, ExecuteTest(s, t, result))
  <1> DEFINE new == ExecuteTest(s, t, result)
             quiet == [s EXCEPT !.no_error = TRUE]
             script == [quiet EXCEPT !.msg = "PASS", !.did = <<"test", t>>, !.test_cli = TRUE]
             run == [quiet EXCEPT !.msg = result, !.did = <<"test", t>>]
  <1>1. \/ \E msg : new = SetMsg(quiet, msg)
        \/ new = Wild(s)
        \/ /\ new = script \/ new = run
           /\ Readable(s, s.test) /\ <<t[1], t[2]>> = <<s.registry, s.test>>
    BY DEF ExecuteTest
  <1>2. Rec(quiet) /\ Same(s, quiet) /\ quiet.did = s.did
    BY DEF Good, Rec, SessionFields, Same
  <1>3. /\ Rec(script) /\ Same(s, script) /\ script.did = <<"test", t>>
        /\ Rec(run) /\ Same(s, run) /\ run.did = <<"test", t>>
    BY DEF Good, Rec, SessionFields, Same
  <1> HIDE DEF new, quiet, script, run
  <1>4. CASE \E msg : new = SetMsg(quiet, msg)
    <2>1. Rec(new) /\ Same(quiet, new) /\ new.did = quiet.did
      BY <1>2, <1>4, MessagesSame
    <2>2. Same(s, new)
      BY <1>2, <2>1 DEF Same
    <2> QED BY <1>2, <2>1, <2>2, SameGood DEF Good, new
  <1>5. CASE new = Wild(s)
    <2>1. Rec(new) /\ Same(s, new) /\ new.did = s.did
      BY <1>5, MessagesSame DEF Good
    <2> QED BY <2>1, SameGood DEF Good, new
  <1>6. CASE /\ new = script \/ new = run
             /\ Readable(s, s.test) /\ <<t[1], t[2]>> = <<s.registry, s.test>>
    <2>1. Rec(new) /\ Same(s, new) /\ new.did = <<"test", t>>
      BY <1>3, <1>6
    <2>2. Ran(s, new)
      BY <1>6, <2>1 DEF Ran
    <2> QED BY <2>1, <2>2, SameGood DEF Good, new
  <1> QED BY <1>1, <1>4, <1>5, <1>6

LEMMA NumberKeeps ==
    ASSUME NEW s, Good(s), NEW index, NEW result
    PROVE  /\ Good(NumberSelected(s, index, result))
           /\ \/ NumberSelected(s, index, result).did = s.did
              \/ Ran(s, NumberSelected(s, index, result))
  <1> DEFINE new == NumberSelected(s, index, result)
             t == <<s.registry, s.test, index>>
  <1>1. \/ new = EnterTests(s, index) \/ new = Wild(s) \/ new = SetMsg(s, "invalid")
        \/ new = ExecuteTest(s, t, result)
    BY DEF NumberSelected
  <1> HIDE DEF new, t
  <1>2. CASE new = EnterTests(s, index)
    BY <1>2, EnterKeeps DEF new
  <1>3. CASE new = Wild(s) \/ new = SetMsg(s, "invalid")
    <2>0. Rec(s)
      BY DEF Good
    <2>1. Rec(new) /\ Same(s, new) /\ new.did = s.did
      BY <1>3, <2>0, MessagesSame
    <2> QED BY <2>1, SameGood DEF Good, new
  <1>4. CASE new = ExecuteTest(s, t, result)
    BY <1>4, ExecuteTestKeeps DEF new
  <1> QED BY <1>1, <1>2, <1>3, <1>4

(***************************************************************************)
(* The menus that are not test menus, and the ways into the test menus.    *)
(***************************************************************************)
Untested(new) == Good(new) /\ new.did[1] # "test"

LEMMA Elsewhere ==
    ASSUME NEW new, Rec(new), new.mode \notin {"TEST_DEV", "TEST_SYS"} PROVE Good(new)
  BY DEF Good, OnScreen

LEMMA MenusGood ==
    ASSUME NEW s, Rec(s), s.did = <<"nothing">>
    PROVE  /\ Untested(TestMenu(s)) /\ Untested(SystemMenu(s)) /\ Untested(SimMenu(s))
           /\ Untested(StartPci(s)) /\ Untested(DevTestMenu(s)) /\ Untested(SysTestMenu(s))
  <1>1. Rec(ClearMsg(s)) /\ ClearMsg(s).did = s.did
    BY MessagesSame
  <1> DEFINE in(mode) == Enter(s, mode)
  <1>2. \A mode : Rec(in(mode)) /\ in(mode).mode = mode /\ in(mode).did = <<"nothing">>
    BY <1>1 DEF Rec, SessionFields, Enter
  <1> HIDE DEF in
  <1>3. Untested(SystemMenu(s))
    <2>1. /\ Rec(SystemMenu(s)) /\ SystemMenu(s).mode = "SYSTEM" /\ SystemMenu(s).did = <<"nothing">>
      BY <1>2 DEF SystemMenu, ShowSystemMenu, Rec, SessionFields, in
    <2> QED BY <2>1, Elsewhere DEF Untested
  <1>4. Untested(SimMenu(s))
    <2>1. /\ Rec(SimMenu(s)) /\ SimMenu(s).mode = "SIMULATION" /\ SimMenu(s).did = <<"nothing">>
      BY <1>2 DEF SimMenu, ShowSimMenu, Rec, SessionFields, in
    <2> QED BY <2>1, Elsewhere DEF Untested
  <1>5. Untested(StartPci(s))
    <2>1. /\ Rec(StartPci(s)) /\ StartPci(s).mode = "PCI_MODE" /\ StartPci(s).did = <<"pci", "start">>
      BY <1>2 DEF StartPci, ShowPciMenu, Rec, SessionFields, in
    <2> QED BY <2>1, Elsewhere DEF Untested
  <1>6. Untested(TestMenu(s))
    <2>1. Rec(TestMenu(s)) /\ TestMenu(s).mode = "TEST" /\ TestMenu(s).did = <<"nothing">>
      BY DEF TestMenu, ShowTestSelectMenu, PrintMsg, Rec, SessionFields
    <2> QED BY <2>1, Elsewhere DEF Untested
  <1>7. Untested(DevTestMenu(s))
    <2> DEFINE dev == [ClearMsg(s) EXCEPT !.mode = "TEST_DEV", !.test = MaxIndex("dev"), !.registry = "dev"]
    <2>1. /\ Rec(dev) /\ dev.mode = "TEST_DEV" /\ dev.test = MaxIndex("dev") /\ dev.registry = "dev"
          /\ dev.did = <<"nothing">>
      BY <1>1 DEF Rec, SessionFields
    <2> HIDE DEF dev
    <2>2. DevTestMenu(s) = ShowTestMenu(dev)
      BY DEF DevTestMenu, dev
    <2> QED BY <2>1, <2>2, ShowBlocks DEF Untested
  <1>8. Untested(SysTestMenu(s))
    <2> DEFINE sys == [ClearMsg(s) EXCEPT !.mode = "TEST_SYS", !.test = MaxIndex("sys"), !.registry = "sys"]
    <2>1. /\ Rec(sys) /\ sys.mode = "TEST_SYS" /\ sys.test = MaxIndex("sys") /\ sys.registry = "sys"
          /\ sys.did = <<"nothing">>
      BY <1>1 DEF Rec, SessionFields
    <2> HIDE DEF sys
    <2>2. SysTestMenu(s) = ShowTestMenu(sys)
      BY DEF SysTestMenu, sys
    <2> QED BY <2>1, <2>2, ShowBlocks DEF Untested
  <1> QED BY <1>3, <1>4, <1>5, <1>6, <1>7, <1>8

(***************************************************************************)
(* "back" leaves a block for the menu of the same group, where the         *)
(* registry is the one of the mode.                                        *)
(***************************************************************************)
LEMMA BackGood == ASSUME NEW s, Good(s), s.did = <<"nothing">> PROVE Untested(Back(s))
  <1> DEFINE top == MaxIndex(IF s.mode = "TEST_SYS" THEN "sys" ELSE "dev")
             left == [s EXCEPT !.no_error = TRUE, !.offered = <<"none">>]
             blocks == [left EXCEPT !.test = top]
             groups == [left EXCEPT !.mode = "TEST"]
             system == [left EXCEPT !.mode = "SYSTEM"]
             main == [left EXCEPT !.mode = "MAIN"]
  <1>1. \/ s.mode \in {"TEST_DEV", "TEST_SYS"} /\ Back(s) = ShowTestMenu(blocks)
        \/ Back(s) = ShowTestSelectMenu(groups)
        \/ Back(s) = ShowSystemMenu(system)
        \/ Back(s) = ShowMainMenu(main)
    BY DEF Back, BackTo
  <1>2. /\ Rec(blocks) /\ blocks.mode = s.mode /\ blocks.test = top /\ blocks.registry = s.registry
        /\ blocks.did = <<"nothing">>
    BY DEF Good, Rec, SessionFields
  <1>3. /\ Rec(groups) /\ groups.mode = "TEST" /\ groups.did = <<"nothing">>
        /\ Rec(system) /\ system.mode = "SYSTEM" /\ system.did = <<"nothing">>
        /\ Rec(main) /\ main.mode = "MAIN" /\ main.did = <<"nothing">>
    BY DEF Good, Rec, SessionFields
  <1> HIDE DEF blocks, groups, system, main, left
  <1>4. CASE s.mode \in {"TEST_DEV", "TEST_SYS"} /\ Back(s) = ShowTestMenu(blocks)
    <2>1. s.registry = (IF s.mode = "TEST_SYS" THEN "sys" ELSE "dev") /\ top = MaxIndex(s.registry)
      BY <1>4 DEF Good, OnScreen
    <2> HIDE DEF top
    <2> QED BY <1>2, <1>4, <2>1, ShowBlocks DEF Untested
  <1>5. CASE Back(s) = ShowTestSelectMenu(groups)
    <2>1. Rec(Back(s)) /\ Back(s).mode = "TEST" /\ Back(s).did = <<"nothing">>
      BY <1>3, <1>5 DEF ShowTestSelectMenu, PrintMsg, Rec, SessionFields
    <2> QED BY <2>1, Elsewhere DEF Untested
  <1>6. CASE Back(s) = ShowSystemMenu(system)
    <2>1. Rec(Back(s)) /\ Back(s).mode = "SYSTEM" /\ Back(s).did = <<"nothing">>
      BY <1>3, <1>6 DEF ShowSystemMenu, Rec, SessionFields
    <2> QED BY <2>1, Elsewhere DEF Untested
  <1>7. CASE Back(s) = ShowMainMenu(main)
    <2>1. Rec(Back(s)) /\ Back(s).mode = "MAIN" /\ Back(s).did = <<"nothing">>
      BY <1>3, <1>7 DEF ShowMainMenu, PrintMsg, Rec, SessionFields
    <2> QED BY <2>1, Elsewhere DEF Untested
  <1> QED BY <1>1, <1>4, <1>5, <1>6, <1>7

(***************************************************************************)
(* The words of a line.                                                    *)
(***************************************************************************)
Executed(s, line, new) ==
    /\ Good(new)
    /\ new.did[1] = "test" => line[1] \in {"number", "name"} /\ Ran(s, new)

LEMMA ExecuteKeeps ==
    ASSUME NEW s, Good(s), s.did = <<"nothing">>, NEW line, NEW result
    PROVE  Executed(s, line, Execute(s, line, result))
  <1> DEFINE new == Execute(s, line, result)
  <1> SUFFICES Executed(s, line, new)
    OBVIOUS
  <1> USE DEF Executed
  <1>1. ASSUME Untested(new) PROVE Executed(s, line, new)
    BY <1>1 DEF Untested
  <1>2. ASSUME Rec(new), Same(s, new), new.did[1] # "test" PROVE Untested(new)
    BY <1>2, SameGood DEF Good, Untested
  <1>3. ASSUME new = s PROVE Untested(new)
    BY <1>3 DEF Untested
  <1>4. \A name : /\ Rec(Simulation(s, name)) /\ Same(s, Simulation(s, name))
                  /\ Simulation(s, name).did = <<"sim", name>>
                  /\ Rec(Pci(s, name)) /\ Same(s, Pci(s, name)) /\ Pci(s, name).did = <<"pci", name>>
    BY DEF Simulation, Pci, CmdInTestMode, Good, Rec, SessionFields, Same
  <1>5. Rec(Quit(s)) /\ Same(s, Quit(s)) /\ Quit(s).did = s.did
    BY DEF Quit, Good, Rec, SessionFields, Same
  <1>6. \A name : \/ InContext(s, name) = s \/ InContext(s, name) = TestMenu(s)
                  \/ InContext(s, name) = Simulation(s, name) \/ InContext(s, name) = Pci(s, name)
    BY DEF InContext
  <1>7. \/ new = Back(s) \/ new = Quit(s) \/ new = SystemMenu(s) \/ new = SimMenu(s) \/ new = StartPci(s)
        \/ new = DevTestMenu(s) \/ new = SysTestMenu(s) \/ new = InContext(s, line[1])
        \/ new = Simulation(s, line[1]) \/ new = CmdInTestMode(s) \/ new = s
        \/ new = EnterTests(s, line[2])
        \/ line[1] = "number" /\ new = NumberSelected(s, line[2], result)
        \/ line[1] = "name" /\ new = ExecuteTest(s, line[2], result)
    BY DEF Execute
  <1> HIDE DEF new, Executed
  <1>8. CASE new = Back(s)
    BY <1>1, <1>8, BackGood
  <1>9. CASE \/ new = SystemMenu(s) \/ new = SimMenu(s) \/ new = StartPci(s)
              \/ new = DevTestMenu(s) \/ new = SysTestMenu(s)
    BY <1>1, <1>9, MenusGood DEF Good
  <1>10. CASE new = Quit(s) \/ new = CmdInTestMode(s)
    <2>1. Rec(new) /\ Same(s, new) /\ new.did = s.did
      BY <1>5, <1>10, MessagesSame DEF Good
    <2> QED BY <1>1, <1>2, <2>1
  <1>11. CASE new = Simulation(s, line[1]) \/ new = Pci(s, line[1])
    BY <1>1, <1>2, <1>4, <1>11
  <1>12. CASE new = InContext(s, line[1])
    BY <1>1, <1>3, <1>6, <1>11, <1>12, MenusGood DEF Good
  <1>13. CASE new = s
    BY <1>1, <1>3, <1>13
  <1>14. CASE new = EnterTests(s, line[2])
    BY <1>1, <1>14, EnterKeeps DEF Untested
  <1>15. CASE line[1] = "number" /\ new = NumberSelected(s, line[2], result)
    BY <1>15, NumberKeeps DEF Executed
  <1>16. CASE line[1] = "name" /\ new = ExecuteTest(s, line[2], result)
    BY <1>16, ExecuteTestKeeps DEF Executed
  <1> QED BY <1>7, <1>8, <1>9, <1>10, <1>11, <1>12, <1>13, <1>14, <1>15, <1>16

(***************************************************************************)
(* Writing the menu again shows where the session is.                      *)
(***************************************************************************)
LEMMA RedrawKeeps ==
    ASSUME NEW before, TestMode(before), NEW s, Good(s)
    PROVE  /\ Good(Redraw(before, s)) /\ Redraw(before, s).did = s.did
           /\ RanHere(s) => RanHere(Redraw(before, s))
  <1> DEFINE new == Redraw(before, s)
             told == IF ~s.no_error /\ s.msg = "" THEN SetMsg(s, "invalid") ELSE s
             quiet == [s EXCEPT !.cmd_run = FALSE]
  <1>1. \/ new = quiet \/ new = s
        \/ s.mode = "TEST" /\ new = ShowTestSelectMenu(told)
        \/ s.mode \in {"TEST_DEV", "TEST_SYS"} /\ s.test = GetMaxIndex(s) /\ new = ShowTestMenu(told)
        \/ s.mode \in {"TEST_DEV", "TEST_SYS"} /\ new = EnterTests(told, s.test)
    BY DEF Redraw, TestMode
  <1>2. Rec(quiet) /\ Same(s, quiet) /\ quiet.did = s.did
    BY DEF Good, Rec, SessionFields, Same
  <1>3. Rec(told) /\ Same(s, told) /\ told.did = s.did
    <2>1. Rec(s) /\ (told = s \/ told = SetMsg(s, "invalid"))
      BY DEF Good
    <2> HIDE DEF told
    <2>2. Same(s, s)
      BY DEF Same
    <2> QED BY <2>1, <2>2, MessagesSame
  <1>4. Good(told)
    BY <1>3, SameGood DEF Good
  <1> HIDE DEF new, told, quiet
  <1>5. ASSUME Good(new), new.did = s.did, new.mode = s.mode, new.test = s.test, new.registry = s.registry
        PROVE  Good(new) /\ new.did = s.did /\ (RanHere(s) => RanHere(new))
    BY <1>5 DEF RanHere
  <1>6. CASE new = quiet \/ new = s
    <2>1. Rec(new) /\ Same(s, new) /\ new.did = s.did
      BY <1>2, <1>6 DEF Good, Same
    <2> QED BY <1>5, <2>1, SameGood DEF Good, Same, new
  <1>7. CASE s.mode = "TEST" /\ new = ShowTestSelectMenu(told)
    <2>1. Rec(new) /\ new.mode = "TEST" /\ new.did = s.did
      BY <1>3, <1>7 DEF ShowTestSelectMenu, PrintMsg, Rec, SessionFields, Same
    <2> QED BY <1>7, <2>1, Elsewhere DEF RanHere, new
  <1>8. CASE s.mode \in {"TEST_DEV", "TEST_SYS"} /\ s.test = GetMaxIndex(s) /\ new = ShowTestMenu(told)
    <2>1. s.registry = (IF s.mode = "TEST_SYS" THEN "sys" ELSE "dev") /\ s.test = MaxIndex(s.registry)
      BY <1>8 DEF Good, OnScreen, GetMaxIndex
    <2> QED BY <1>3, <1>5, <1>8, <2>1, ShowBlocks DEF Same, new
  <1>9. CASE s.mode \in {"TEST_DEV", "TEST_SYS"} /\ new = EnterTests(told, s.test)
    BY <1>3, <1>4, <1>5, <1>9, EnterKeeps DEF Same, new
  <1> QED BY <1>1, <1>6, <1>7, <1>8, <1>9 DEF new

(***************************************************************************)
(* A whole line.                                                           *)
(***************************************************************************)
LEMMA LineKeeps ==
    ASSUME NEW s, Good(s), NEW line, NEW result
    PROVE  /\ Good(Line(s, line, result))
           /\ (line[1] \in {"number", "name"} => s.mode \in {"TEST_DEV", "TEST_SYS"})
                 => RanHere(Line(s, line, result))
  <1> DEFINE before == [s EXCEPT !.did = <<"nothing">>]
             quiet == [before EXCEPT !.cmd_run = FALSE, !.no_error = FALSE]
             plain == Execute(before, line, result)
             tested == Execute(quiet, line, result)
             scripted == RunCliTests(tested)
             home == line[1] \in {"number", "name"} => s.mode \in {"TEST_DEV", "TEST_SYS"}
             new == Line(s, line, result)
  <1>1. \/ new = plain \/ new = tested
        \/ TestMode(s) /\ new = Redraw(s, scripted)
    BY DEF Line
  <1>2. /\ Rec(before) /\ Same(s, before) /\ before.did = <<"nothing">>
        /\ Rec(quiet) /\ Same(s, quiet) /\ quiet.did = <<"nothing">>
    BY DEF Good, Rec, SessionFields, Same
  <1>3. Good(before) /\ Good(quiet)
    BY <1>2, SameGood DEF Good
  <1> HIDE DEF before, quiet
  <1>4. Executed(before, line, plain) /\ Executed(quiet, line, tested)
    BY <1>2, <1>3, ExecuteKeeps
  <1>5. ASSUME NEW from, Rec(from), Same(s, from), NEW to, Executed(from, line, to)
        PROVE  Good(to) /\ (home => RanHere(to))
    <2>1. Good(to)
      BY <1>5 DEF Executed
    <2>2. ASSUME home, to.did[1] = "test" PROVE RanHere(to)
      <3>1. Ran(from, to) /\ s.mode \in {"TEST_DEV", "TEST_SYS"}
        BY <1>5, <2>2 DEF Executed
      <3>2. from.registry \in Groups /\ from.test \in 0 .. MaxIndex(from.registry) - 1
        BY <3>1 DEF Ran, Readable
      <3>3. MaxIndex(from.registry) \in Nat
        BY <3>2, MaxIndexType
      <3> QED BY <1>5, <3>1, <3>2, <3>3 DEF Ran, RanHere, Same
    <2> QED BY <2>1, <2>2 DEF RanHere
  <1> HIDE DEF plain, tested, scripted, home, new
  <1>6. CASE new = plain \/ new = tested
    BY <1>2, <1>4, <1>5, <1>6 DEF home, new
  <1>7. CASE TestMode(s) /\ new = Redraw(s, scripted)
    <2>1. Good(tested) /\ (home => RanHere(tested))
      BY <1>2, <1>4, <1>5
    <2>2. Rec(scripted) /\ Same(tested, scripted) /\ scripted.did = tested.did
      BY <2>1 DEF scripted, RunCliTests, CmdInTestMode, Good, Rec, SessionFields, Same
    <2>3. Good(scripted) /\ (home => RanHere(scripted))
      BY <2>1, <2>2, SameGood DEF Good, RanHere, Same
    <2> QED BY <1>7, <2>3, RedrawKeeps DEF home, new
  <1> QED BY <1>1, <1>6, <1>7 DEF home, new

(***************************************************************************)
(* The inductive invariant, and what it says of the screen.                *)
(***************************************************************************)
SessionInv == Good(session) /\ (~stray => RanHere(session))

LEMMA InitSession == Init => SessionInv
  <1> SUFFICES ASSUME Init PROVE SessionInv
    OBVIOUS
  <1>1. Rec(Start) /\ Start.mode = "MAIN" /\ Start.did = <<"nothing">>
    BY DEF Start, Rec, SessionFields
  <1> QED BY <1>1, Elsewhere DEF Init, SessionInv, RanHere

LEMMA TypeKeeps == ASSUME SessionInv, NEW line, Type(line) PROVE SessionInv'
  <1>1. PICK result \in Results : session' = Line(session, line, result)
    BY DEF Type
  <1>2. stray' = (stray \/ session.mode \notin Home(line))
    BY DEF Type
  <1>3. ASSUME ~stray', line[1] \in {"number", "name"} PROVE session.mode \in {"TEST_DEV", "TEST_SYS"}
    BY <1>2, <1>3 DEF Home
  <1> QED BY <1>1, <1>3, LineKeeps DEF SessionInv

LEMMA SessionStep == SessionInv /\ [ShellNext]_shellVars => SessionInv'
  <1> SUFFICES ASSUME SessionInv, [ShellNext]_shellVars PROVE SessionInv'
    OBVIOUS
  <1>1. ASSUME UNCHANGED <<session, stray>> PROVE SessionInv'
    BY <1>1 DEF SessionInv
  <1>2. ASSUME NEW line, Type(line) PROVE SessionInv'
    BY <1>2, TypeKeeps
  <1>3. ASSUME NEW line \in MenuLines, Menu(line) PROVE SessionInv'
    BY <1>2, <1>3 DEF Menu
  <1>4. ASSUME NEW line \in SettingLines, Setting(line) PROVE SessionInv'
    <2>1. Type(line) \/ (session' = Wild(session) /\ stray')
      BY <1>4 DEF Setting
    <2>2. ASSUME session' = Wild(session), stray' PROVE SessionInv'
      BY <2>2, MessagesSame, SameGood DEF SessionInv, Good
    <2> QED BY <1>2, <2>1, <2>2
  <1>5. ASSUME NEW line \in TabLines, NEW word \in Begins, Complete(line, word) PROVE SessionInv'
    BY <1>1, <1>5 DEF Complete
  <1>6. CASE UNCHANGED shellVars
    BY <1>1, <1>6 DEF shellVars
  <1> QED BY <1>3, <1>4, <1>5, <1>6 DEF ShellNext

(***************************************************************************)
(* In the test menus the screen, the names offered and the block a number  *)
(* selects are the same, and a test runs from the block on the screen.     *)
(***************************************************************************)
THEOREM ScreenAlwaysTrue == ShellSpec => []ScreenTrue
  <1>1. ShellInit => SessionInv
    BY InitSession DEF ShellInit
  <1>2. SessionInv => ScreenTrue
    <2> SUFFICES ASSUME SessionInv PROVE ScreenTrue
      OBVIOUS
    <2>1. ASSUME session.did[1] = "test", ~stray
          PROVE  session.screen = <<"tests", session.did[2][1], session.did[2][2]>>
      <3>1. session.mode \in {"TEST_DEV", "TEST_SYS"} /\ session.test < MaxIndex(session.registry)
            /\ session.did[2][1] = session.registry /\ session.did[2][2] = session.test
        BY <2>1 DEF SessionInv, RanHere
      <3>2. /\ session.registry \in Groups /\ session.test \in 0 .. MaxIndex(session.registry)
            /\ session.screen = <<IF session.test = MaxIndex(session.registry) THEN "blocks" ELSE "tests",
                                 session.registry, session.test>>
        BY <3>1 DEF SessionInv, Good, OnScreen, Groups
      <3>3. MaxIndex(session.registry) \in Nat
        BY <3>2, MaxIndexType
      <3> QED BY <3>1, <3>2, <3>3
    <2> QED BY <2>1 DEF ScreenTrue, SessionInv, Good
  <1> QED BY <1>1, <1>2, SessionStep, PTL DEF ShellSpec

-----------------------------------------------------------------------------

(***************************************************************************)
(* The commands enabled are those of the menu, nothing is read where it is *)
(* not, and no message waits but in the block of the scripted test.  In    *)
(* the test menus the array of commands is the one of the main menu, since *)
(* only from there one gets in; "back" counts on it.                       *)
(***************************************************************************)
Placed(s) ==
    /\ s.wild = FALSE
    /\ s.mode \in {"MAIN", "TEST", "TEST_DEV", "TEST_SYS", "SYSTEM", "SIMULATION", "PCI_MODE"}
    /\ s.mode \in {"MAIN", "TEST", "TEST_DEV", "TEST_SYS"} => s.base = "main"
    /\ s.mode = "MAIN" => s.map = {0, 1}
    /\ s.mode = "TEST" => s.map = {2, 3}
    /\ s.mode \in {"SYSTEM", "TEST_DEV", "TEST_SYS"} => s.map = {}
    /\ s.mode = "SIMULATION" => s.base = "sim" /\ s.map = 0 .. 3
    /\ s.mode = "PCI_MODE" => s.base = "pci" /\ s.map = 0 .. 2
Told(s) == s.msg # "" => InCliBlock(s)
Reaches(s) == /\ s.did[1] = "pci" => s.mode = "PCI_MODE"
              /\ s.did[1] = "sim" => s.mode = "SIMULATION"
Clear(s) == Placed(s) /\ Told(s) /\ Reaches(s) /\ s.test_cli = FALSE

\* A line of a test menu that leaves a message for the menu to be written.
Spoke(s, new) ==
    /\ s.mode \in {"TEST_DEV", "TEST_SYS"} /\ Same(s, new) /\ Placed(new) /\ Reaches(new)
    /\ new.cmd_run = s.cmd_run /\ new.running = s.running
    /\ new.test_cli = FALSE \/ (new.test_cli = TRUE /\ InCliBlock(new))

\* What messages leave alone, besides.
Beside(s, new) == /\ Same(s, new) /\ new.did = s.did
                  /\ new.base = s.base /\ new.map = s.map /\ new.test_cli = s.test_cli /\ new.cmd_run = s.cmd_run
                  /\ new.wild = s.wild /\ new.running = s.running

LEMMA MessagesBeside ==
    ASSUME NEW s, Rec(s), NEW msg
    PROVE  /\ Rec(SetMsg(s, msg)) /\ Beside(s, SetMsg(s, msg))
           /\ Rec(PrintMsg(s)) /\ Beside(s, PrintMsg(s)) /\ PrintMsg(s).msg = ""
           /\ Rec(ClearMsg(s)) /\ Beside(s, ClearMsg(s)) /\ ClearMsg(s).msg = ""
  BY DEF Rec, SessionFields, Beside, Same, SetMsg, PrintMsg, ClearMsg

LEMMA BesidePlaced ==
    ASSUME NEW s, NEW new, Beside(s, new), Placed(s), Reaches(s) PROVE Placed(new) /\ Reaches(new)
  BY DEF Beside, Same, Placed, Reaches

\* What a menu calls, as the first word of its record.
LEMMA Did == /\ \A s : s.did = <<"nothing">> => s.did[1] = "nothing"
             /\ \A s, kind, name : s.did = <<kind, name>> => s.did[1] = kind
  OBVIOUS

LEMMA ClearMenu ==
    ASSUME NEW s, Placed(s), s.msg = "", s.test_cli = FALSE, Reaches(s) PROVE Clear(s)
  BY DEF Told, Clear

(***************************************************************************)
(* The tests of a block: shown, or a message, and nothing read outside.    *)
(***************************************************************************)
LEMMA EnterClear ==
    ASSUME NEW s, Good(s), Placed(s), Reaches(s), s.test_cli = FALSE,
           s.mode \in {"TEST_DEV", "TEST_SYS"}, NEW index \in Int
    PROVE  /\ Spoke(s, EnterTests(s, index)) \/ Clear(EnterTests(s, index))
           /\ index \in 0 .. GetMaxIndex(s) - 1 /\ Enabled(Block(s, index)) => Clear(EnterTests(s, index))
  <1> DEFINE new == EnterTests(s, index)
             shown == PrintMsg([s EXCEPT !.no_error = TRUE, !.test = index,
                                         !.offered = <<"tests", s.registry, index>>,
                                         !.screen = <<"tests", s.registry, index>>])
  <1>0. /\ s.registry \in Groups /\ GetMaxIndex(s) = MaxIndex(s.registry)
        /\ Rec(s)
    BY DEF Good, OnScreen, Groups, GetMaxIndex
  <1>1. \/ /\ index \notin 0 .. GetMaxIndex(s) - 1 \/ ~Enabled(Block(s, index))
           /\ new = SetMsg(s, "invalid") \/ new = SetMsg(s, "block disabled")
        \/ new = shown
    BY <1>0 DEF EnterTests, Readable
  <1>2. /\ Rec(shown) /\ shown.did = s.did /\ shown.mode = s.mode /\ shown.base = s.base /\ shown.map = s.map
        /\ shown.test_cli = s.test_cli /\ shown.wild = s.wild /\ shown.msg = ""
    BY <1>0 DEF Rec, SessionFields, PrintMsg
  <1> HIDE DEF new, shown
  <1>3. ASSUME new = SetMsg(s, "invalid") \/ new = SetMsg(s, "block disabled") PROVE Spoke(s, new)
    <2>1. Rec(new) /\ Beside(s, new)
      BY <1>0, <1>3, MessagesBeside
    <2>2. Placed(new) /\ Reaches(new)
      BY <2>1, BesidePlaced
    <2> QED BY <2>1, <2>2 DEF Spoke, Beside
  <1>4. ASSUME new = shown PROVE Clear(new)
    BY <1>2, <1>4 DEF Placed, Reaches, Clear, Told
  <1>5. Spoke(s, new) \/ Clear(new)
    BY <1>1, <1>3, <1>4
  <1>6. ASSUME index \in 0 .. GetMaxIndex(s) - 1 /\ Enabled(Block(s, index)) PROVE Clear(new)
    BY <1>1, <1>4, <1>6
  <1> QED BY <1>5, <1>6 DEF new

LEMMA ExecuteTestClear ==
    ASSUME NEW s, Good(s), Placed(s), Reaches(s), s.test_cli = FALSE, s.did[1] = "nothing",
           s.mode \in {"TEST_DEV", "TEST_SYS"}, NEW t \in Tests, NEW result
    PROVE  Spoke(s, ExecuteTest(s, t, result))
  <1> DEFINE new == ExecuteTest(s, t, result)
             quiet == [s EXCEPT !.no_error = TRUE]
             script == [quiet EXCEPT !.msg = "PASS", !.did = <<"test", t>>, !.test_cli = TRUE]
             run == [quiet EXCEPT !.msg = result, !.did = <<"test", t>>]
  <1>0. /\ s.registry \in Groups /\ GetMaxIndex(s) = MaxIndex(s.registry) /\ MaxIndex(s.registry) \in Nat
        /\ s.test \in 0 .. MaxIndex(s.registry) /\ Rec(s)
    BY MaxIndexType DEF Good, OnScreen, Groups, GetMaxIndex
  <1>1. \/ \E msg : new = SetMsg(quiet, msg)
        \/ new = run
        \/ new = script /\ <<t[1], t[2]>> = <<s.registry, s.test>> /\ TestOf(t).func = "test_cli"
    <2>1. s.test >= GetMaxIndex(s) \/ Readable(s, s.test)
      BY <1>0 DEF Readable
    <2> QED BY <2>1 DEF ExecuteTest
  <1>2. Rec(quiet) /\ Beside(s, quiet)
    BY <1>0 DEF Rec, SessionFields, Same, Beside
  <1>3. /\ Rec(script) /\ Same(s, script) /\ script.did = <<"test", t>> /\ script.test_cli = TRUE
        /\ script.base = s.base /\ script.map = s.map /\ script.wild = s.wild /\ script.cmd_run = s.cmd_run
        /\ script.running = s.running /\ run.running = s.running
        /\ Rec(run) /\ Same(s, run) /\ run.did = <<"test", t>> /\ run.test_cli = s.test_cli
        /\ run.base = s.base /\ run.map = s.map /\ run.wild = s.wild /\ run.cmd_run = s.cmd_run
    BY <1>0 DEF Rec, SessionFields, Same
  <1> HIDE DEF new, quiet, script, run
  <1>4. CASE \E msg : new = SetMsg(quiet, msg)
    <2>1. Beside(quiet, new)
      BY <1>2, <1>4, MessagesBeside
    <2>2. Beside(s, new)
      BY <1>2, <2>1 DEF Beside, Same
    <2>3. Placed(new) /\ Reaches(new)
      BY <2>2, BesidePlaced
    <2> QED BY <2>2, <2>3 DEF Spoke, Beside, new
  <1>5. CASE new = run
    <2>1. Placed(new) /\ Reaches(new)
      BY <1>3, <1>5 DEF Placed, Reaches, Same
    <2> QED BY <1>3, <1>5, <2>1 DEF Spoke, new
  <1>6. CASE new = script /\ <<t[1], t[2]>> = <<s.registry, s.test>> /\ TestOf(t).func = "test_cli"
    <2>1. Placed(new) /\ Reaches(new)
      BY <1>3, <1>6 DEF Placed, Reaches, Same
    <2>2. InCliBlock(new)
      BY <1>3, <1>6 DEF InCliBlock, Same
    <2> QED BY <1>3, <1>6, <2>1, <2>2 DEF Spoke, new
  <1> QED BY <1>1, <1>4, <1>5, <1>6

LEMMA NumberClear ==
    ASSUME NEW s, Good(s), Placed(s), Reaches(s), s.test_cli = FALSE, s.did[1] = "nothing",
           s.mode \in {"TEST_DEV", "TEST_SYS"}, NEW index \in Nat, NEW result
    PROVE  Spoke(s, NumberSelected(s, index, result)) \/ Clear(NumberSelected(s, index, result))
  <1> DEFINE new == NumberSelected(s, index, result)
             t == <<s.registry, s.test, index>>
  <1>0. /\ s.registry \in Groups /\ GetMaxIndex(s) = MaxIndex(s.registry) /\ MaxIndex(s.registry) \in Nat
        /\ s.test \in 0 .. MaxIndex(s.registry) /\ Rec(s)
    BY MaxIndexType DEF Good, OnScreen, Groups, GetMaxIndex
  <1>1. \/ new = EnterTests(s, index) \/ new = SetMsg(s, "invalid")
        \/ /\ new = ExecuteTest(s, t, result)
           /\ s.test \in 0 .. MaxIndex(s.registry) - 1 /\ index < Len(Block(s, s.test).tests)
    BY <1>0 DEF NumberSelected, Readable
  <1> HIDE DEF new
  <1>2. CASE new = EnterTests(s, index)
    <2>1. index \in Int
      OBVIOUS
    <2> QED BY <1>2, <2>1, EnterClear DEF new
  <1>3. CASE new = SetMsg(s, "invalid")
    <2>1. Beside(s, new)
      BY <1>0, <1>3, MessagesBeside
    <2>2. Placed(new) /\ Reaches(new)
      BY <2>1, BesidePlaced
    <2> QED BY <2>1, <2>2 DEF Spoke, Beside, new
  <1>4. CASE /\ new = ExecuteTest(s, t, result)
             /\ s.test \in 0 .. MaxIndex(s.registry) - 1 /\ index < Len(Block(s, s.test).tests)
    <2>1. Len(Block(s, s.test).tests) \in Nat
      <3> DEFINE blocks == [enabled : BOOLEAN, tests : Seq([enabled : BOOLEAN, func : STRING])]
      <3>1. Registry[s.registry] \in Seq(blocks) /\ s.test + 1 \in 1 .. Len(Registry[s.registry])
        BY <1>0, <1>4, RegistryAssumption DEF Groups, MaxIndex
      <3> HIDE DEF blocks
      <3>2. Registry[s.registry][s.test + 1] \in blocks
        BY <3>1
      <3> USE DEF blocks
      <3> QED BY <3>2 DEF Block
    <2>2. t \in Tests
      <3>1. index \in 0 .. Len(Registry[s.registry][s.test + 1].tests) - 1
        BY <1>4, <2>1 DEF Block
      <3> QED BY <1>0, <1>4, <3>1 DEF Tests
    <2> HIDE DEF t
    <2> QED BY <1>4, <2>2, ExecuteTestClear DEF new
  <1> QED BY <1>1, <1>2, <1>3, <1>4

(***************************************************************************)
(* The menus put their commands in place.                                  *)
(***************************************************************************)
LEMMA MenusClear ==
    ASSUME NEW s, Rec(s), s.did = <<"nothing">>, s.wild = FALSE, s.test_cli = FALSE
    PROVE  /\ s.base = "main" => /\ Clear(TestMenu(s)) /\ Clear(DevTestMenu(s)) /\ Clear(SysTestMenu(s))
           /\ Clear(SystemMenu(s)) /\ Clear(SimMenu(s)) /\ Clear(StartPci(s))
  <1>1. /\ Rec(ClearMsg(s)) /\ Beside(s, ClearMsg(s)) /\ ClearMsg(s).msg = ""
    BY MessagesBeside
  <1> DEFINE in(mode) == Enter(s, mode)
  <1>2. \A mode : /\ Rec(in(mode)) /\ in(mode).mode = mode /\ in(mode).did = <<"nothing">>
                  /\ in(mode).msg = "" /\ in(mode).test_cli = FALSE /\ in(mode).wild = FALSE
    BY <1>1 DEF Rec, SessionFields, Enter, Beside
  <1> HIDE DEF in
  <1>3. Clear(SystemMenu(s))
    <2>1. /\ SystemMenu(s).mode = "SYSTEM" /\ SystemMenu(s).did = <<"nothing">> /\ SystemMenu(s).msg = ""
          /\ SystemMenu(s).test_cli = FALSE /\ SystemMenu(s).wild = FALSE /\ SystemMenu(s).map = {}
      BY <1>2 DEF SystemMenu, ShowSystemMenu, Rec, SessionFields, in
    <2>2. Placed(SystemMenu(s))
      BY <2>1 DEF Placed
    <2>3. Reaches(SystemMenu(s))
      <3>1. SystemMenu(s).did[1] = "nothing"
        BY <2>1, Did
      <3> QED BY <2>1, <3>1 DEF Reaches
    <2> QED BY <2>1, <2>2, <2>3, ClearMenu
  <1>4. Clear(SimMenu(s))
    <2>1. /\ SimMenu(s).mode = "SIMULATION" /\ SimMenu(s).did = <<"nothing">> /\ SimMenu(s).msg = ""
          /\ SimMenu(s).test_cli = FALSE /\ SimMenu(s).wild = FALSE
          /\ SimMenu(s).base = "sim" /\ SimMenu(s).map = 0 .. 3
      BY <1>2 DEF SimMenu, ShowSimMenu, Rec, SessionFields, in
    <2>2. Placed(SimMenu(s))
      BY <2>1 DEF Placed
    <2>3. Reaches(SimMenu(s))
      <3>1. SimMenu(s).did[1] = "nothing"
        BY <2>1, Did
      <3> QED BY <2>1, <3>1 DEF Reaches
    <2> QED BY <2>1, <2>2, <2>3, ClearMenu
  <1>5. Clear(StartPci(s))
    <2>1. /\ StartPci(s).mode = "PCI_MODE" /\ StartPci(s).did = <<"pci", "start">> /\ StartPci(s).msg = ""
          /\ StartPci(s).test_cli = FALSE /\ StartPci(s).wild = FALSE
          /\ StartPci(s).base = "pci" /\ StartPci(s).map = 0 .. 2
      BY <1>2 DEF StartPci, ShowPciMenu, Rec, SessionFields, in
    <2>2. Placed(StartPci(s))
      BY <2>1 DEF Placed
    <2>3. Reaches(StartPci(s))
      <3>1. StartPci(s).did[1] = "pci"
        BY <2>1, Did
      <3> QED BY <2>1, <3>1 DEF Reaches
    <2> QED BY <2>1, <2>2, <2>3, ClearMenu
  <1>6. ASSUME s.base = "main" PROVE Clear(TestMenu(s))
    <2>1. /\ TestMenu(s).mode = "TEST" /\ TestMenu(s).did = <<"nothing">> /\ TestMenu(s).msg = ""
          /\ TestMenu(s).test_cli = FALSE /\ TestMenu(s).wild = FALSE
          /\ TestMenu(s).base = "main" /\ TestMenu(s).map = {2, 3}
      BY <1>6 DEF TestMenu, ShowTestSelectMenu, PrintMsg, Rec, SessionFields
    <2>2. Placed(TestMenu(s))
      BY <2>1 DEF Placed
    <2>3. Reaches(TestMenu(s))
      <3>1. TestMenu(s).did[1] = "nothing"
        BY <2>1, Did
      <3> QED BY <2>1, <3>1 DEF Reaches
    <2> QED BY <2>1, <2>2, <2>3, ClearMenu
  <1>7. ASSUME s.base = "main" PROVE Clear(DevTestMenu(s))
    <2>1. /\ DevTestMenu(s).mode = "TEST_DEV" /\ DevTestMenu(s).did = <<"nothing">> /\ DevTestMenu(s).msg = ""
          /\ DevTestMenu(s).test_cli = FALSE /\ DevTestMenu(s).wild = FALSE
          /\ DevTestMenu(s).base = "main" /\ DevTestMenu(s).map = {}
      BY <1>1, <1>7 DEF DevTestMenu, ShowTestMenu, PrintMsg, Rec, SessionFields, Beside
    <2>2. Placed(DevTestMenu(s))
      BY <2>1 DEF Placed
    <2>3. Reaches(DevTestMenu(s))
      <3>1. DevTestMenu(s).did[1] = "nothing"
        BY <2>1, Did
      <3> QED BY <2>1, <3>1 DEF Reaches
    <2> QED BY <2>1, <2>2, <2>3, ClearMenu
  <1>8. ASSUME s.base = "main" PROVE Clear(SysTestMenu(s))
    <2>1. /\ SysTestMenu(s).mode = "TEST_SYS" /\ SysTestMenu(s).did = <<"nothing">> /\ SysTestMenu(s).msg = ""
          /\ SysTestMenu(s).test_cli = FALSE /\ SysTestMenu(s).wild = FALSE
          /\ SysTestMenu(s).base = "main" /\ SysTestMenu(s).map = {}
      BY <1>1, <1>8 DEF SysTestMenu, ShowTestMenu, PrintMsg, Rec, SessionFields, Beside
    <2>2. Placed(SysTestMenu(s))
      BY <2>1 DEF Placed
    <2>3. Reaches(SysTestMenu(s))
      <3>1. SysTestMenu(s).did[1] = "nothing"
        BY <2>1, Did
      <3> QED BY <2>1, <3>1 DEF Reaches
    <2> QED BY <2>1, <2>2, <2>3, ClearMenu
  <1> QED BY <1>3, <1>4, <1>5, <1>6, <1>7, <1>8

LEMMA BackClear ==
    ASSUME NEW s, Rec(s), Placed(s), Told(s), s.test_cli = FALSE, s.did = <<"nothing">>
    PROVE  Clear(Back(s))
  <1> DEFINE new == Back(s)
             top == MaxIndex(IF s.mode = "TEST_SYS" THEN "sys" ELSE "dev")
             left == [s EXCEPT !.no_error = TRUE, !.offered = <<"none">>]
             blocks == [left EXCEPT !.test = top]
             groups == [left EXCEPT !.mode = "TEST"]
             system == [left EXCEPT !.mode = "SYSTEM"]
             main == [left EXCEPT !.mode = "MAIN"]
  <1>1. \/ s.mode \in {"TEST_DEV", "TEST_SYS"} /\ new = ShowTestMenu(blocks)
        \/ s.mode \in {"TEST_DEV", "TEST_SYS"} /\ new = ShowTestSelectMenu(groups)
        \/ s.mode \in {"PCI_MODE", "SIMULATION"} /\ new = ShowSystemMenu(system)
        \/ new = ShowMainMenu(main)
    BY DEF Back, BackTo
  <1>2. /\ new.did = <<"nothing">> /\ new.test_cli = FALSE /\ new.wild = FALSE
        /\ \/ /\ s.mode \in {"TEST_DEV", "TEST_SYS"} /\ new.mode = s.mode
              /\ new.msg = "" /\ new.base = s.base /\ new.map = {}
           \/ /\ s.mode \in {"TEST_DEV", "TEST_SYS"} /\ new.mode = "TEST"
              /\ new.msg = "" /\ new.base = s.base /\ new.map = {2, 3}
           \/ /\ s.mode \in {"PCI_MODE", "SIMULATION"} /\ new.mode = "SYSTEM"
              /\ new.msg = s.msg /\ new.map = {}
           \/ new.mode = "MAIN" /\ new.msg = "" /\ new.base = "main" /\ new.map = {0, 1}
    <2> HIDE DEF new, top
    <2>1. s.wild = FALSE
      BY DEF Placed
    <2>2. CASE s.mode \in {"TEST_DEV", "TEST_SYS"} /\ new = ShowTestMenu(blocks)
      BY <2>1, <2>2 DEF ShowTestMenu, PrintMsg, Rec, SessionFields
    <2>3. CASE s.mode \in {"TEST_DEV", "TEST_SYS"} /\ new = ShowTestSelectMenu(groups)
      BY <2>1, <2>3 DEF ShowTestSelectMenu, PrintMsg, Rec, SessionFields
    <2>4. CASE s.mode \in {"PCI_MODE", "SIMULATION"} /\ new = ShowSystemMenu(system)
      BY <2>1, <2>4 DEF ShowSystemMenu, Rec, SessionFields
    <2>5. CASE new = ShowMainMenu(main)
      BY <2>1, <2>5 DEF ShowMainMenu, PrintMsg, Rec, SessionFields
    <2> QED BY <1>1, <2>2, <2>3, <2>4, <2>5
  <1> HIDE DEF new
  <1>3. new.msg = ""
    BY <1>2 DEF Told, InCliBlock
  <1>4. Placed(new)
    BY <1>2 DEF Placed
  <1>5. Reaches(new)
    <2>1. new.did[1] = "nothing"
      BY <1>2, Did
    <2> QED BY <2>1 DEF Reaches
  <1> QED BY <1>2, <1>3, <1>4, <1>5, ClearMenu DEF new

(***************************************************************************)
(* A line typed where the menu shows it, or a line of every menu.          *)
(***************************************************************************)
AtHome(s, line) ==
    /\ line[1] = "system" => s.mode = "MAIN"
    /\ line[1] \in {"dev", "sys"} => s.mode = "TEST"
    /\ line[1] \in {"pause", "resume"} => s.mode = "SIMULATION"
    /\ line[1] \in {"number", "block", "name"} => s.mode \in {"TEST_DEV", "TEST_SYS"}

\* Commands that are not menus leave the menu alone.
LEMMA CommandClear ==
    ASSUME NEW s, Rec(s), Clear(s), s.did = <<"nothing">>
    PROVE  /\ Clear(Quit(s)) /\ Clear(CmdInTestMode(s))
           /\ \A name : s.mode = "SIMULATION" => Clear(Simulation(s, name))
           /\ \A name : s.mode = "PCI_MODE" => Clear(Pci(s, name))
  <1>1. ASSUME NEW new, Same(s, new), new.msg = s.msg, new.base = s.base, new.map = s.map,
               new.test_cli = s.test_cli, new.wild = s.wild, Reaches(new)
        PROVE  Clear(new)
    <2>1. Placed(new)
      BY <1>1 DEF Clear, Placed, Same
    <2>2. Told(new)
      BY <1>1 DEF Clear, Told, Same, InCliBlock
    <2> QED BY <1>1, <2>1, <2>2 DEF Clear
  <1>2. Clear(Quit(s))
    <2>1. /\ Same(s, Quit(s)) /\ Quit(s).msg = s.msg /\ Quit(s).base = s.base /\ Quit(s).map = s.map
          /\ Quit(s).test_cli = s.test_cli /\ Quit(s).wild = s.wild /\ Quit(s).did = s.did
      BY DEF Quit, Rec, SessionFields, Same
    <2>2. Reaches(Quit(s))
      BY <2>1 DEF Reaches, Same, Clear
    <2> QED BY <1>1, <2>1, <2>2
  <1> DEFINE cmd == CmdInTestMode(s)
  <1>3. /\ Rec(cmd) /\ Same(s, cmd) /\ cmd.msg = s.msg /\ cmd.base = s.base /\ cmd.map = s.map
        /\ cmd.test_cli = s.test_cli /\ cmd.wild = s.wild /\ cmd.did = s.did
    BY DEF CmdInTestMode, Rec, SessionFields, Same
  <1> HIDE DEF cmd
  <1>4. Clear(cmd)
    <2>1. Reaches(cmd)
      BY <1>3 DEF Reaches, Same, Clear
    <2> QED BY <1>1, <1>3, <2>1
  <1>5. ASSUME NEW name, s.mode = "SIMULATION" PROVE Clear(Simulation(s, name))
    <2> DEFINE new == Simulation(s, name)
    <2>1. /\ Same(cmd, new) /\ new.msg = cmd.msg /\ new.base = cmd.base /\ new.map = cmd.map
          /\ new.test_cli = cmd.test_cli /\ new.wild = cmd.wild /\ new.did = <<"sim", name>>
      BY <1>3 DEF Simulation, Rec, SessionFields, Same, cmd
    <2>2. new.did[1] = "sim"
      BY <2>1, Did
    <2> HIDE DEF new
    <2>3. Same(s, new) /\ Reaches(new)
      BY <1>3, <1>5, <2>1, <2>2 DEF Reaches, Same
    <2> QED BY <1>1, <1>3, <2>1, <2>3 DEF new
  <1>6. ASSUME NEW name, s.mode = "PCI_MODE" PROVE Clear(Pci(s, name))
    <2> DEFINE new == Pci(s, name)
    <2>1. /\ Same(s, new) /\ new.msg = s.msg /\ new.base = s.base /\ new.map = s.map
          /\ new.test_cli = s.test_cli /\ new.wild = s.wild /\ new.did = <<"pci", name>>
      BY DEF Pci, Rec, SessionFields, Same
    <2>2. new.did[1] = "pci"
      BY <2>1, Did
    <2> HIDE DEF new
    <2>3. Reaches(new)
      BY <1>6, <2>1, <2>2 DEF Reaches, Same
    <2> QED BY <1>1, <2>1, <2>3 DEF new
  <1> QED BY <1>2, <1>4, <1>5, <1>6 DEF cmd

\* What the application context enables is a command of the menu.
LEMMA ContextClear ==
    ASSUME NEW s, Rec(s), Clear(s), s.did = <<"nothing">>, NEW name \in {"test", "start", "stop"}
    PROVE  Clear(InContext(s, name))
  <1> DEFINE new == InContext(s, name)
  <1>1. \/ new = s
        \/ s.base = "main" /\ new = TestMenu(s)
        \/ Bound(s, name) /\ s.base = "sim" /\ new = Simulation(s, name)
        \/ Bound(s, name) /\ s.base \notin {"main", "sim"} /\ new = Pci(s, name)
    BY DEF InContext
  <1> HIDE DEF new
  <1>2. CASE s.base = "main" /\ new = TestMenu(s)
    <2>1. s.wild = FALSE /\ s.test_cli = FALSE
      BY DEF Clear, Placed
    <2> QED BY <1>2, <2>1, MenusClear DEF new
  <1>3. Bound(s, name) => s.mode \notin {"SYSTEM", "TEST_DEV", "TEST_SYS"}
    BY DEF Bound, Clear, Placed
  <1>4. ASSUME s.mode = "SIMULATION" PROVE Clear(Simulation(s, name))
    BY <1>4, CommandClear
  <1>5. ASSUME s.mode = "PCI_MODE" PROVE Clear(Pci(s, name))
    BY <1>5, CommandClear
  <1>6. CASE Bound(s, name) /\ s.base = "sim" /\ new = Simulation(s, name)
    <2>1. s.mode = "SIMULATION"
      BY <1>3, <1>6 DEF Clear, Placed
    <2> QED BY <1>4, <1>6, <2>1 DEF new
  <1>7. CASE Bound(s, name) /\ s.base \notin {"main", "sim"} /\ new = Pci(s, name)
    <2>1. s.mode = "PCI_MODE"
      BY <1>3, <1>7 DEF Clear, Placed
    <2> QED BY <1>5, <1>7, <2>1 DEF new
  <1> QED BY <1>1, <1>2, <1>6, <1>7 DEF new

LEMMA ExecuteClear ==
    ASSUME NEW s, Good(s), Clear(s), s.did = <<"nothing">>, NEW line, LineOfMenu(line), AtHome(s, line),
           NEW result
    PROVE  Clear(Execute(s, line, result)) \/ Spoke(s, Execute(s, line, result))
  <1> DEFINE new == Execute(s, line, result)
  <1>1. \/ new \in {Back(s), Quit(s), SimMenu(s), StartPci(s), CmdInTestMode(s), s}
        \/ line[1] = "system" /\ new = SystemMenu(s)
        \/ line[1] \in {"dev", "sys"} /\ new \in {DevTestMenu(s), SysTestMenu(s)}
        \/ line[1] \in {"test", "start", "stop"} /\ new = InContext(s, line[1])
        \/ line[1] \in {"pause", "resume"} /\ new = Simulation(s, line[1])
        \/ line[1] = "block" /\ new = EnterTests(s, line[2])
        \/ line[1] = "number" /\ new = NumberSelected(s, line[2], result)
        \/ line[1] = "name" /\ new = ExecuteTest(s, line[2], result)
    BY DEF Execute
  <1> HIDE DEF new
  <1>2. /\ Rec(s) /\ Placed(s) /\ Told(s) /\ Reaches(s) /\ s.test_cli = FALSE /\ s.wild = FALSE
        /\ s.did[1] = "nothing"
    BY Did DEF Good, Clear, Placed
  <1>3. CASE new \in {Back(s), Quit(s), SimMenu(s), StartPci(s), CmdInTestMode(s), s}
    <2>1. Clear(Back(s))
      BY <1>2, BackClear
    <2>2. Clear(SimMenu(s)) /\ Clear(StartPci(s))
      BY <1>2, MenusClear
    <2>3. Clear(Quit(s)) /\ Clear(CmdInTestMode(s))
      BY <1>2, CommandClear
    <2> QED BY <1>3, <2>1, <2>2, <2>3 DEF new
  <1>4. CASE line[1] = "system" /\ new = SystemMenu(s)
    BY <1>2, <1>4, MenusClear DEF new
  <1>5. CASE line[1] \in {"dev", "sys"} /\ new \in {DevTestMenu(s), SysTestMenu(s)}
    <2>1. s.base = "main"
      BY <1>2, <1>5 DEF AtHome, Placed
    <2> QED BY <1>2, <1>5, <2>1, MenusClear DEF new
  <1>6. CASE line[1] \in {"test", "start", "stop"} /\ new = InContext(s, line[1])
    BY <1>2, <1>6, ContextClear DEF new
  <1>7. CASE line[1] \in {"pause", "resume"} /\ new = Simulation(s, line[1])
    <2>1. s.mode = "SIMULATION"
      BY <1>7 DEF AtHome
    <2> QED BY <1>2, <1>7, <2>1, CommandClear DEF new
  <1>8. ASSUME line[1] \in {"number", "block", "name"} PROVE s.mode \in {"TEST_DEV", "TEST_SYS"}
    BY <1>8 DEF AtHome
  <1>9. CASE line[1] = "block" /\ new = EnterTests(s, line[2])
    <2>1. line[2] \in Int
      BY <1>9 DEF LineOfMenu
    <2> QED BY <1>2, <1>8, <1>9, <2>1, EnterClear DEF new
  <1>10. CASE line[1] = "number" /\ new = NumberSelected(s, line[2], result)
    <2>1. line[2] \in Nat
      BY <1>10 DEF LineOfMenu
    <2> QED BY <1>2, <1>8, <1>10, <2>1, NumberClear DEF new
  <1>11. CASE line[1] = "name" /\ new = ExecuteTest(s, line[2], result)
    <2>1. line[2] \in Tests
      BY <1>11 DEF LineOfMenu
    <2> QED BY <1>2, <1>8, <1>11, <2>1, ExecuteTestClear DEF new
  <1> QED BY <1>1, <1>3, <1>4, <1>5, <1>6, <1>7, <1>9, <1>10, <1>11

(***************************************************************************)
(* Writing the menu again takes the message away.                          *)
(***************************************************************************)
LEMMA RedrawClear ==
    ASSUME NEW before, TestMode(before), NEW s, Good(s), Placed(s), Reaches(s), s.test_cli = FALSE,
           Told(s) \/ (s.cmd_run = FALSE /\ s.mode = before.mode /\ s.test = before.test)
    PROVE  Clear(Redraw(before, s))
  <1> DEFINE new == Redraw(before, s)
             told == IF ~s.no_error /\ s.msg = "" THEN SetMsg(s, "invalid") ELSE s
             quiet == [s EXCEPT !.cmd_run = FALSE]
  <1>1. \/ new \in {quiet, s} /\ Told(s)
        \/ s.mode = "TEST" /\ new = ShowTestSelectMenu(told)
        \/ s.mode \in {"TEST_DEV", "TEST_SYS"} /\ new = ShowTestMenu(told)
        \/ s.mode \in {"TEST_DEV", "TEST_SYS"} /\ s.test # GetMaxIndex(s) /\ new = EnterTests(told, s.test)
    <2>1. CASE Told(s)
      BY <2>1 DEF Redraw, TestMode
    <2>2. CASE s.cmd_run = FALSE /\ s.mode = before.mode /\ s.test = before.test
      BY <2>2 DEF Redraw, TestMode
    <2> QED BY <2>1, <2>2
  <1>2. /\ Rec(s) /\ Beside(s, s)
    BY DEF Good, Beside, Same
  <1>3. Rec(told) /\ Beside(s, told)
    BY <1>2, MessagesBeside
  <1> HIDE DEF new, told
  <1>4. Good(told) /\ Placed(told) /\ Reaches(told) /\ told.test_cli = FALSE
    <2>1. Placed(told) /\ Reaches(told)
      BY <1>3, BesidePlaced
    <2>2. Good(told)
      BY <1>3, SameGood DEF Good, Beside
    <2> QED BY <1>3, <2>1, <2>2 DEF Beside
  <1>5. ASSUME new.did = told.did, new.test_cli = FALSE, new.wild = told.wild, new.msg = "",
               new.mode = told.mode, new.base = told.base,
               new.map = told.map \/ (new.mode \in {"TEST_DEV", "TEST_SYS"} /\ new.map = {})
                                  \/ (new.mode = "TEST" /\ new.map = {2, 3})
        PROVE  Clear(new)
    <2>1. Placed(new)
      BY <1>4, <1>5 DEF Placed
    <2>2. Reaches(new)
      BY <1>4, <1>5 DEF Reaches
    <2> QED BY <1>5, <2>1, <2>2, ClearMenu
  <1>6. CASE new \in {quiet, s} /\ Told(s)
    <2>1. /\ Same(s, quiet) /\ quiet.msg = s.msg /\ quiet.base = s.base /\ quiet.map = s.map
          /\ quiet.did = s.did /\ quiet.test_cli = s.test_cli /\ quiet.wild = s.wild
      BY <1>2 DEF Rec, SessionFields, Same
    <2> HIDE DEF quiet
    <2>2. Placed(quiet)
      BY <2>1 DEF Placed, Same
    <2>3. Reaches(quiet)
      BY <2>1 DEF Reaches, Same
    <2>4. Told(quiet)
      BY <1>6, <2>1 DEF Told, Same, InCliBlock
    <2> QED BY <1>6, <2>1, <2>2, <2>3, <2>4 DEF Clear, new
  <1>7. CASE s.mode = "TEST" /\ new = ShowTestSelectMenu(told)
    <2>1. /\ new.did = told.did /\ new.test_cli = told.test_cli /\ new.wild = told.wild /\ new.msg = ""
          /\ new.mode = told.mode /\ new.base = told.base /\ new.map = {2, 3}
      BY <1>3, <1>7 DEF ShowTestSelectMenu, PrintMsg, Rec, SessionFields
    <2>2. new.mode = "TEST"
      BY <1>3, <1>7, <2>1 DEF Beside, Same
    <2> QED BY <1>4, <1>5, <2>1, <2>2 DEF new
  <1>8. CASE s.mode \in {"TEST_DEV", "TEST_SYS"} /\ new = ShowTestMenu(told)
    <2>1. /\ new.did = told.did /\ new.test_cli = told.test_cli /\ new.wild = told.wild /\ new.msg = ""
          /\ new.mode = told.mode /\ new.base = told.base /\ new.map = {}
      BY <1>3, <1>8 DEF ShowTestMenu, PrintMsg, Rec, SessionFields
    <2>2. new.mode \in {"TEST_DEV", "TEST_SYS"}
      BY <1>3, <1>8, <2>1 DEF Beside, Same
    <2> QED BY <1>4, <1>5, <2>1, <2>2 DEF new
  <1>9. CASE s.mode \in {"TEST_DEV", "TEST_SYS"} /\ s.test # GetMaxIndex(s) /\ new = EnterTests(told, s.test)
    <2>1. /\ told.mode = s.mode /\ told.test = s.test /\ told.registry = s.registry
          /\ told.mode \in {"TEST_DEV", "TEST_SYS"} /\ GetMaxIndex(told) = GetMaxIndex(s)
      BY <1>3, <1>9 DEF Beside, Same, GetMaxIndex
    <2>2. GetMaxIndex(s) = MaxIndex(s.registry) /\ MaxIndex(s.registry) \in Nat
      BY <1>9, MaxIndexType DEF Good, OnScreen, GetMaxIndex, Groups
    <2>3. s.test \in 0 .. GetMaxIndex(told) - 1 /\ Enabled(Block(told, s.test))
      BY <1>9, <2>1, <2>2 DEF Good, OnScreen, Block
    <2>4. s.test \in Int
      BY <2>3
    <2>5. Clear(EnterTests(told, s.test))
      BY <1>4, <2>1, <2>3, <2>4, EnterClear
    <2> QED BY <1>9, <2>5 DEF new
  <1> QED BY <1>1, <1>6, <1>7, <1>8, <1>9 DEF new

LEMMA LineClear ==
    ASSUME NEW s, Good(s), Clear(s), s.running, NEW line, LineOfMenu(line), AtHome(s, line), NEW result
    PROVE  Clear(Line(s, line, result))
  <1> DEFINE before == [s EXCEPT !.did = <<"nothing">>]
             quiet == [before EXCEPT !.cmd_run = FALSE, !.no_error = FALSE]
             plain == Execute(before, line, result)
             tested == Execute(quiet, line, result)
             scripted == RunCliTests(tested)
             new == Line(s, line, result)
  <1>1. \/ ~TestMode(s) /\ new = plain
        \/ TestMode(s) /\ new = tested /\ (tested.wild \/ ~tested.running)
        \/ TestMode(s) /\ new = Redraw(s, scripted)
    BY DEF Line
  <1>2. /\ Rec(before) /\ Same(s, before) /\ before.did = <<"nothing">>
        /\ before.msg = s.msg /\ before.base = s.base /\ before.map = s.map
        /\ before.test_cli = s.test_cli /\ before.wild = s.wild /\ before.running = s.running
        /\ Rec(quiet) /\ Same(s, quiet) /\ quiet.did = <<"nothing">>
        /\ quiet.msg = s.msg /\ quiet.base = s.base /\ quiet.map = s.map
        /\ quiet.test_cli = s.test_cli /\ quiet.wild = s.wild /\ quiet.running = s.running
        /\ quiet.cmd_run = FALSE
    BY DEF Good, Rec, SessionFields, Same
  <1> HIDE DEF before, quiet
  <1>3. ASSUME NEW from \in {before, quiet}
        PROVE  /\ Good(from) /\ Clear(from) /\ AtHome(from, line) /\ from.did = <<"nothing">>
    <2>1. /\ Rec(from) /\ Same(s, from) /\ from.did = <<"nothing">>
          /\ from.msg = s.msg /\ from.base = s.base /\ from.map = s.map
          /\ from.test_cli = s.test_cli /\ from.wild = s.wild
      BY <1>2
    <2>2. Good(from)
      BY <2>1, SameGood DEF Good
    <2>3. Placed(from)
      BY <2>1 DEF Clear, Placed, Same
    <2>4. Told(from)
      BY <2>1 DEF Clear, Told, Same, InCliBlock
    <2>5. Reaches(from)
      <3>1. from.did[1] = "nothing"
        BY <2>1, Did
      <3> QED BY <3>1 DEF Reaches
    <2>6. AtHome(from, line)
      BY <2>1 DEF AtHome, Same
    <2> QED BY <2>1, <2>2, <2>3, <2>4, <2>5, <2>6 DEF Clear
  <1>4. Clear(plain) \/ Spoke(before, plain)
    BY <1>3, ExecuteClear
  <1>5. Clear(tested) \/ Spoke(quiet, tested)
    BY <1>3, ExecuteClear
  <1>6. Good(tested)
    BY <1>3, ExecuteKeeps DEF Executed
  <1> HIDE DEF plain, tested, scripted, new
  <1>7. CASE ~TestMode(s) /\ new = plain
    BY <1>2, <1>4, <1>7 DEF Spoke, Same, TestMode, new
  <1>8. CASE TestMode(s) /\ new = tested /\ (tested.wild \/ ~tested.running)
    <2>1. tested.wild = FALSE
      BY <1>5 DEF Clear, Spoke, Placed
    <2>2. ~Spoke(quiet, tested)
      BY <1>2, <1>8, <2>1 DEF Spoke
    <2> QED BY <1>5, <1>8, <2>2 DEF new
  <1>9. CASE TestMode(s) /\ new = Redraw(s, scripted)
    <2>1. CASE Clear(tested)
      <3>1. scripted = tested
        BY <2>1 DEF scripted, RunCliTests, Clear
      <3>2. Placed(tested) /\ Reaches(tested) /\ Told(tested) /\ tested.test_cli = FALSE
        BY <2>1 DEF Clear
      <3> QED BY <1>6, <1>9, <3>1, <3>2, RedrawClear DEF new
    <2>2. CASE Spoke(quiet, tested) /\ tested.test_cli = FALSE
      <3>1. scripted = tested
        BY <2>2 DEF scripted, RunCliTests
      <3>2. /\ Placed(tested) /\ Reaches(tested) /\ tested.test_cli = FALSE
            /\ tested.cmd_run = FALSE /\ tested.mode = s.mode /\ tested.test = s.test
        BY <1>2, <2>2 DEF Spoke, Same
      <3> QED BY <1>6, <1>9, <3>1, <3>2, RedrawClear DEF new
    <2>3. CASE Spoke(quiet, tested) /\ tested.test_cli = TRUE /\ InCliBlock(tested)
      <3>1. scripted = [CmdInTestMode(tested) EXCEPT !.test_cli = FALSE]
        BY <2>3 DEF scripted, RunCliTests
      <3>2. /\ Rec(scripted) /\ Same(tested, scripted) /\ scripted.did = tested.did
            /\ scripted.base = tested.base /\ scripted.map = tested.map /\ scripted.wild = tested.wild
            /\ scripted.test_cli = FALSE
        BY <1>6, <3>1 DEF CmdInTestMode, Good, Rec, SessionFields, Same
      <3>3. Good(scripted)
        BY <1>6, <3>2, SameGood DEF Good
      <3>4. Placed(scripted)
        BY <2>3, <3>2 DEF Spoke, Placed, Same
      <3>5. Reaches(scripted)
        BY <2>3, <3>2 DEF Spoke, Reaches, Same
      <3>6. Told(scripted)
        BY <2>3, <3>2 DEF Told, InCliBlock, Same
      <3> QED BY <1>9, <3>2, <3>3, <3>4, <3>5, <3>6, RedrawClear DEF new
    <2> QED BY <1>5, <2>1, <2>2, <2>3 DEF Spoke
  <1> QED BY <1>1, <1>7, <1>8, <1>9 DEF new

(***************************************************************************)
(* The inductive invariant.                                                *)
(***************************************************************************)
MenuInv == SessionInv /\ (~stray => Clear(session))

LEMMA TypeClear ==
    ASSUME MenuInv, NEW line, LineOfMenu(line), Type(line) PROVE ~stray' => Clear(session')
  <1> SUFFICES ASSUME ~stray' PROVE Clear(session')
    OBVIOUS
  <1>1. PICK result \in Results : session' = Line(session, line, result)
    BY DEF Type
  <1>2. ~stray /\ session.mode \in Home(line) /\ session.running
    BY DEF Type
  <1>3. AtHome(session, line)
    BY <1>2 DEF AtHome, Home
  <1> QED BY <1>1, <1>2, <1>3, LineClear DEF MenuInv, SessionInv

LEMMA MenuStep == MenuInv /\ [ShellNext]_shellVars => MenuInv'
  <1> SUFFICES ASSUME MenuInv, [ShellNext]_shellVars PROVE MenuInv'
    OBVIOUS
  <1>1. SessionInv'
    BY SessionStep DEF MenuInv
  <1> SUFFICES ~stray' => Clear(session')
    BY <1>1 DEF MenuInv
  <1>2. CASE UNCHANGED <<session, stray>>
    BY <1>2 DEF MenuInv
  <1>3. ASSUME NEW line \in MenuLines, Menu(line) PROVE ~stray' => Clear(session')
    <2>1. LineOfMenu(line) /\ Type(line)
      BY <1>3, MenuLinesAssumption DEF Menu
    <2> QED BY <2>1, TypeClear
  <1>4. ASSUME NEW line \in SettingLines, Setting(line) PROVE ~stray' => Clear(session')
    <2>1. LineOfMenu(line)
      BY SettingLinesAssumption DEF LineOfMenu
    <2>2. Type(line) \/ stray' = TRUE
      BY <1>4 DEF Setting
    <2> QED BY <2>1, <2>2, TypeClear
  <1>5. ASSUME NEW line \in TabLines, NEW word \in Begins, Complete(line, word)
        PROVE  ~stray' => Clear(session')
    BY <1>2, <1>5 DEF Complete
  <1>6. CASE UNCHANGED shellVars
    BY <1>2, <1>6 DEF shellVars
  <1> QED BY <1>3, <1>4, <1>5, <1>6 DEF ShellNext

(***************************************************************************)
(* Whatever is typed in the menus that show it: the commands enabled are   *)
(* those of the menu, they reach the hardware the menu is about, the       *)
(* registry of tests is never read where it is not, and no message of an   *)
(* earlier line is waiting but in the block of the scripted test.          *)
(***************************************************************************)
THEOREM MenuAlwaysTrue == ShellSpec => []MenuTrue
  <1>1. ShellInit => MenuInv
    <2> SUFFICES ASSUME ShellInit PROVE MenuInv
      OBVIOUS
    <2>1. session = Start /\ SessionInv
      BY InitSession DEF ShellInit, Init
    <2>2. /\ Start.mode = "MAIN" /\ Start.base = "main" /\ Start.map = {0, 1} /\ Start.msg = ""
          /\ Start.test_cli = FALSE /\ Start.wild = FALSE /\ Start.did = <<"nothing">>
      BY DEF Start
    <2>3. Placed(Start)
      BY <2>2 DEF Placed
    <2>4. Reaches(Start)
      <3>1. Start.did[1] = "nothing"
        BY <2>2, Did
      <3> QED BY <3>1 DEF Reaches
    <2> QED BY <2>1, <2>2, <2>3, <2>4, ClearMenu DEF MenuInv
  <1>2. MenuInv => MenuTrue
    <2>1. ASSUME Clear(session) PROVE MenuTrue
      BY <2>1 DEF MenuTrue, Clear, Placed, Told, Reaches
    <2> QED BY <2>1 DEF MenuInv, MenuTrue
  <1> QED BY <1>1, <1>2, MenuStep, PTL DEF ShellSpec

-----------------------------------------------------------------------------
(***************************************************************************)
(* The screen is never above the menu the session is in.  A hidden command *)
(* may write the tests of a block in any menu, so that it may be below.    *)
(***************************************************************************)
Deep(s) == /\ s.screen[1] \in {"main", "system", "groups", "sim", "pci", "blocks", "tests"}
           /\ s.mode \in {"SYSTEM", "TEST"} => Depth(s) >= 1
           /\ s.mode \in {"SIMULATION", "PCI_MODE"} => Depth(s) >= 2
           /\ s.mode \in {"TEST_DEV", "TEST_SYS"} => s.screen[1] \in {"blocks", "tests"}

\* The first word of a screen.
LEMMA Shows == /\ \A s, menu : s.screen = <<menu>> => s.screen[1] = menu
               /\ \A s, menu, group, index : s.screen = <<menu, group, index>> => s.screen[1] = menu
  OBVIOUS

LEMMA SameDeep == ASSUME NEW s, NEW new, Deep(s), Same(s, new) PROVE Deep(new)
  <1>1. Depth(new) = Depth(s)
    BY DEF Same, Depth
  <1> QED BY <1>1 DEF Deep, Same

\* The menus by what they leave on the screen.
LEMMA ScreenDeep ==
    ASSUME NEW s,
           \/ s.screen[1] = "main" /\ s.mode = "MAIN"
           \/ s.screen[1] = "system" /\ s.mode = "SYSTEM"
           \/ s.screen[1] = "sim" /\ s.mode = "SIMULATION"
           \/ s.screen[1] = "pci" /\ s.mode = "PCI_MODE"
           \/ s.screen[1] = "groups" /\ s.mode = "TEST"
           \/ s.screen[1] = "blocks" /\ s.mode \in {"TEST_DEV", "TEST_SYS"}
           \/ s.screen[1] = "tests"
    PROVE  Deep(s)
  BY DEF Deep, Depth

LEMMA EnterDeep == ASSUME NEW s, Rec(s), Deep(s), NEW index PROVE Deep(EnterTests(s, index))
  <1> DEFINE new == EnterTests(s, index)
             shown == PrintMsg([s EXCEPT !.no_error = TRUE, !.test = index,
                                         !.offered = <<"tests", s.registry, index>>,
                                         !.screen = <<"tests", s.registry, index>>])
  <1>1. new \in {SetMsg(s, "invalid"), SetMsg(s, "block disabled"), Wild(s), shown}
    BY DEF EnterTests
  <1>2. shown.screen = <<"tests", s.registry, index>>
    BY DEF Rec, SessionFields, PrintMsg
  <1>3. /\ \A msg : Same(s, SetMsg(s, msg))
        /\ Same(s, Wild(s))
    BY MessagesSame
  <1> HIDE DEF new, shown
  <1>4. Deep(shown)
    BY <1>2, Shows, ScreenDeep
  <1>5. CASE new # shown
    <2>1. Same(s, new)
      BY <1>1, <1>3, <1>5
    <2> QED BY <2>1, SameDeep DEF new
  <1> QED BY <1>4, <1>5 DEF new

LEMMA MenusDeep ==
    ASSUME NEW s, Rec(s)
    PROVE  /\ Deep(TestMenu(s)) /\ Deep(DevTestMenu(s)) /\ Deep(SysTestMenu(s))
           /\ Deep(SystemMenu(s)) /\ Deep(SimMenu(s)) /\ Deep(StartPci(s))
  <1>1. Rec(ClearMsg(s))
    BY MessagesSame
  <1> DEFINE in(mode) == Enter(s, mode)
  <1>2. \A mode : Rec(in(mode)) /\ in(mode).mode = mode
    BY <1>1 DEF Rec, SessionFields, Enter
  <1> HIDE DEF in
  <1>3. SystemMenu(s).mode = "SYSTEM" /\ SystemMenu(s).screen = <<"system">>
    BY <1>2 DEF SystemMenu, ShowSystemMenu, Rec, SessionFields, in
  <1>4. SimMenu(s).mode = "SIMULATION" /\ SimMenu(s).screen = <<"sim">>
    BY <1>2 DEF SimMenu, ShowSimMenu, Rec, SessionFields, in
  <1>5. StartPci(s).mode = "PCI_MODE" /\ StartPci(s).screen = <<"pci">>
    BY <1>2 DEF StartPci, ShowPciMenu, Rec, SessionFields, in
  <1>6. TestMenu(s).mode = "TEST" /\ TestMenu(s).screen = <<"groups">>
    BY DEF TestMenu, ShowTestSelectMenu, PrintMsg, Rec, SessionFields
  <1>7. DevTestMenu(s).mode = "TEST_DEV" /\ DevTestMenu(s).screen = <<"blocks", "dev", MaxIndex("dev")>>
    BY <1>1 DEF DevTestMenu, ShowTestMenu, PrintMsg, Rec, SessionFields
  <1>8. SysTestMenu(s).mode = "TEST_SYS" /\ SysTestMenu(s).screen = <<"blocks", "sys", MaxIndex("sys")>>
    BY <1>1 DEF SysTestMenu, ShowTestMenu, PrintMsg, Rec, SessionFields
  <1> QED BY <1>3, <1>4, <1>5, <1>6, <1>7, <1>8, Shows, ScreenDeep

(***************************************************************************)
(* Where "back" leads, from every menu.                                    *)
(***************************************************************************)
LEMMA BackDeep ==
    ASSUME NEW s, Good(s), Deep(s)
    PROVE  /\ Rec(Back(s)) /\ Deep(Back(s))
           /\ Depth(Back(s)) < Depth(s) \/ Depth(s) = 0
           /\ TestMode(s) => <<Back(s).mode, Back(s).test>> # <<s.mode, s.test>>
  <1> DEFINE new == Back(s)
             top == MaxIndex(IF s.mode = "TEST_SYS" THEN "sys" ELSE "dev")
             left == [s EXCEPT !.no_error = TRUE, !.offered = <<"none">>]
             blocks == [left EXCEPT !.test = top]
             groups == [left EXCEPT !.mode = "TEST"]
             system == [left EXCEPT !.mode = "SYSTEM"]
             main == [left EXCEPT !.mode = "MAIN"]
  <1>1. \/ s.mode \in {"TEST_DEV", "TEST_SYS"} /\ s.test # top /\ new = ShowTestMenu(blocks)
        \/ s.mode \in {"TEST_DEV", "TEST_SYS"} /\ s.test = top /\ new = ShowTestSelectMenu(groups)
        \/ s.mode \in {"PCI_MODE", "SIMULATION"} /\ new = ShowSystemMenu(system)
        \/ /\ s.mode \notin {"TEST_DEV", "TEST_SYS", "PCI_MODE", "SIMULATION"}
           /\ new = ShowMainMenu(main)
    BY DEF Back, BackTo
  <1>2. Depth(s) \in 0 .. 3
    BY DEF Deep, Depth
  <1>3. Rec(s)
    BY DEF Good
  <1>4. s.mode \in {"TEST_DEV", "TEST_SYS"} => s.screen[1] = (IF s.test = top THEN "blocks" ELSE "tests")
    <2> SUFFICES ASSUME s.mode \in {"TEST_DEV", "TEST_SYS"}
                 PROVE  s.screen[1] = (IF s.test = top THEN "blocks" ELSE "tests")
      OBVIOUS
    <2>1. top = MaxIndex(s.registry)
      BY DEF Good, OnScreen
    <2> HIDE DEF top
    <2>2. s.screen = <<IF s.test = top THEN "blocks" ELSE "tests", s.registry, s.test>>
      BY <2>1 DEF Good, OnScreen
    <2> QED BY <2>2, Shows
  <1> HIDE DEF new, top
  <1>5. CASE s.mode \in {"TEST_DEV", "TEST_SYS"} /\ s.test # top /\ new = ShowTestMenu(blocks)
    <2>1. /\ Rec(new) /\ new.mode = s.mode /\ new.test = top
          /\ new.screen = <<"blocks", s.registry, top>>
      BY <1>3, <1>5 DEF ShowTestMenu, PrintMsg, Rec, SessionFields
    <2>2. new.screen[1] = "blocks" /\ s.screen[1] = "tests"
      BY <1>4, <1>5, <2>1, Shows
    <2>3. Deep(new) /\ Depth(new) < Depth(s)
      BY <1>5, <2>1, <2>2, ScreenDeep DEF Depth
    <2> QED BY <1>5, <2>1, <2>3 DEF new
  <1>6. CASE s.mode \in {"TEST_DEV", "TEST_SYS"} /\ s.test = top /\ new = ShowTestSelectMenu(groups)
    <2>1. Rec(new) /\ new.mode = "TEST" /\ new.screen = <<"groups">>
      BY <1>3, <1>6 DEF ShowTestSelectMenu, PrintMsg, Rec, SessionFields
    <2>2. new.screen[1] = "groups" /\ s.screen[1] = "blocks"
      BY <1>4, <1>6, <2>1, Shows
    <2>3. Deep(new) /\ Depth(new) < Depth(s)
      BY <2>1, <2>2, ScreenDeep DEF Depth
    <2> QED BY <1>6, <2>1, <2>3 DEF new
  <1>7. CASE s.mode \in {"PCI_MODE", "SIMULATION"} /\ new = ShowSystemMenu(system)
    <2>1. Rec(new) /\ new.mode = "SYSTEM" /\ new.screen = <<"system">>
      BY <1>3, <1>7 DEF ShowSystemMenu, Rec, SessionFields
    <2>2. new.screen[1] = "system"
      BY <2>1, Shows
    <2>3. Deep(new) /\ Depth(new) = 1
      BY <2>1, <2>2, ScreenDeep DEF Depth
    <2>4. Depth(s) >= 2
      BY <1>7 DEF Deep
    <2> QED BY <1>2, <1>7, <2>1, <2>3, <2>4 DEF new, TestMode
  <1>8. CASE /\ s.mode \notin {"TEST_DEV", "TEST_SYS", "PCI_MODE", "SIMULATION"}
             /\ new = ShowMainMenu(main)
    <2>1. Rec(new) /\ new.mode = "MAIN" /\ new.screen = <<"main">>
      BY <1>3, <1>8 DEF ShowMainMenu, PrintMsg, Rec, SessionFields
    <2>2. new.screen[1] = "main"
      BY <2>1, Shows
    <2>3. Deep(new) /\ Depth(new) = 0
      BY <2>1, <2>2, ScreenDeep DEF Depth
    <2>4. s.mode # "MAIN" \/ ~TestMode(s)
      BY DEF TestMode
    <2> QED BY <1>2, <2>1, <2>3, <2>4 DEF new
  <1> QED BY <1>1, <1>5, <1>6, <1>7, <1>8

LEMMA ExecuteDeep ==
    ASSUME NEW s, Good(s), Deep(s), NEW line, NEW result PROVE Deep(Execute(s, line, result))
  <1> DEFINE new == Execute(s, line, result)
  <1>0. Rec(s) /\ Same(s, s)
    BY DEF Good, Same
  <1>1. \/ new \in {Back(s), SystemMenu(s), SimMenu(s), StartPci(s), DevTestMenu(s), SysTestMenu(s), TestMenu(s)}
        \/ new \in {s, Quit(s), Simulation(s, line[1]), Pci(s, line[1]), CmdInTestMode(s), Wild(s)}
        \/ new = SetMsg(s, "invalid")
        \/ new = EnterTests(s, line[2])
        \/ \E t : new = ExecuteTest(s, t, result)
    BY DEF Execute, InContext, NumberSelected
  <1> HIDE DEF new
  <1>2. CASE new \in {Back(s), SystemMenu(s), SimMenu(s), StartPci(s), DevTestMenu(s), SysTestMenu(s), TestMenu(s)}
    BY <1>0, <1>2, BackDeep, MenusDeep DEF new
  <1>3. CASE new \in {s, Quit(s), Simulation(s, line[1]), Pci(s, line[1]), CmdInTestMode(s), Wild(s)}
    <2>1. /\ Same(s, Quit(s)) /\ Same(s, Simulation(s, line[1])) /\ Same(s, Pci(s, line[1]))
          /\ Same(s, CmdInTestMode(s)) /\ Same(s, Wild(s))
      BY <1>0 DEF Quit, Simulation, Pci, CmdInTestMode, Wild, Rec, SessionFields, Same
    <2>2. Same(s, new)
      BY <1>0, <1>3, <2>1
    <2> QED BY <2>2, SameDeep DEF new
  <1>4. CASE new = SetMsg(s, "invalid")
    BY <1>0, <1>4, MessagesSame, SameDeep DEF new
  <1>5. CASE new = EnterTests(s, line[2])
    BY <1>0, <1>5, EnterDeep DEF new
  <1>6. CASE \E t : new = ExecuteTest(s, t, result)
    <2>1. Same(s, new)
      BY <1>6, ExecuteTestKeeps
    <2> QED BY <2>1, SameDeep DEF new
  <1> QED BY <1>1, <1>2, <1>3, <1>4, <1>5, <1>6

LEMMA RedrawDeep ==
    ASSUME NEW before, TestMode(before), NEW s, Rec(s), Deep(s) PROVE Deep(Redraw(before, s))
  <1> DEFINE new == Redraw(before, s)
             told == IF ~s.no_error /\ s.msg = "" THEN SetMsg(s, "invalid") ELSE s
             quiet == [s EXCEPT !.cmd_run = FALSE]
  <1>1. \/ new \in {quiet, s}
        \/ s.mode = "TEST" /\ new = ShowTestSelectMenu(told)
        \/ s.mode \in {"TEST_DEV", "TEST_SYS"} /\ new = ShowTestMenu(told)
        \/ new = EnterTests(told, s.test)
    BY DEF Redraw, TestMode
  <1>2. Rec(told) /\ Same(s, told) /\ Same(s, s) /\ Same(s, quiet)
    <2>1. Rec(SetMsg(s, "invalid")) /\ Same(s, SetMsg(s, "invalid"))
      BY MessagesSame
    <2>2. Same(s, s) /\ Same(s, quiet)
      BY DEF Same, Rec, SessionFields
    <2> QED BY <2>1, <2>2
  <1> HIDE DEF new, told, quiet
  <1>3. Deep(told)
    BY <1>2, SameDeep
  <1>4. CASE new \in {quiet, s}
    <2>1. Same(s, new)
      BY <1>2, <1>4
    <2> QED BY <2>1, SameDeep DEF new
  <1>5. CASE s.mode = "TEST" /\ new = ShowTestSelectMenu(told)
    <2>1. new.mode = "TEST" /\ new.screen = <<"groups">>
      BY <1>2, <1>5 DEF ShowTestSelectMenu, PrintMsg, Rec, SessionFields, Same
    <2> QED BY <2>1, Shows, ScreenDeep DEF new
  <1>6. CASE s.mode \in {"TEST_DEV", "TEST_SYS"} /\ new = ShowTestMenu(told)
    <2>1. new.mode = s.mode /\ new.screen = <<"blocks", told.registry, told.test>>
      BY <1>2, <1>6 DEF ShowTestMenu, PrintMsg, Rec, SessionFields, Same
    <2> QED BY <1>6, <2>1, Shows, ScreenDeep DEF new
  <1>7. CASE new = EnterTests(told, s.test)
    BY <1>2, <1>3, <1>7, EnterDeep DEF new
  <1> QED BY <1>1, <1>4, <1>5, <1>6, <1>7 DEF new

LEMMA LineDeep ==
    ASSUME NEW s, Good(s), Deep(s), NEW line, NEW result
    PROVE  /\ Deep(Line(s, line, result))
           /\ line = <<"back">> /\ ~Line(s, line, result).wild =>
                 Depth(Line(s, line, result)) < Depth(s) \/ Depth(s) = 0
  <1> DEFINE before == [s EXCEPT !.did = <<"nothing">>]
             quiet == [before EXCEPT !.cmd_run = FALSE, !.no_error = FALSE]
             plain == Execute(before, line, result)
             tested == Execute(quiet, line, result)
             scripted == RunCliTests(tested)
             new == Line(s, line, result)
  <1>1. \/ new \in {plain, tested}
        \/ TestMode(s) /\ new = Redraw(s, scripted)
    BY DEF Line
  <1>2. /\ Rec(before) /\ Same(s, before) /\ before.did = <<"nothing">>
        /\ Rec(quiet) /\ Same(s, quiet) /\ quiet.did = <<"nothing">>
    BY DEF Good, Rec, SessionFields, Same
  <1> HIDE DEF before, quiet
  <1>3. /\ Good(before) /\ Deep(before) /\ Depth(before) = Depth(s)
        /\ Good(quiet) /\ Deep(quiet) /\ Depth(quiet) = Depth(s)
    BY <1>2, SameGood, SameDeep DEF Good, Depth, Same
  <1>4. Deep(plain) /\ Deep(tested) /\ Good(tested)
    BY <1>2, <1>3, ExecuteDeep, ExecuteKeeps DEF Executed
  <1>5. ASSUME line = <<"back">> PROVE plain = Back(before) /\ tested = Back(quiet)
    <2>1. line[1] = "back"
      BY <1>5
    <2> QED BY <2>1 DEF Execute
  <1> HIDE DEF plain, tested, scripted, new
  <1>6. Rec(scripted) /\ Same(tested, scripted)
    BY <1>4 DEF scripted, RunCliTests, CmdInTestMode, Good, Rec, SessionFields, Same
  <1>7. Deep(scripted)
    BY <1>4, <1>6, SameDeep
  <1>8. Deep(new)
    BY <1>1, <1>4, <1>6, <1>7, RedrawDeep
  <1>9. ASSUME line = <<"back">> PROVE Depth(new) < Depth(s) \/ Depth(s) = 0
    <2>1. /\ Depth(plain) < Depth(s) \/ Depth(s) = 0
          /\ Depth(tested) < Depth(s) \/ Depth(s) = 0
      BY <1>3, <1>5, <1>9, BackDeep
    <2>2. ASSUME TestMode(s), new = Redraw(s, scripted) PROVE Depth(new) = Depth(tested)
      <3>1. TestMode(quiet) /\ <<quiet.mode, quiet.test>> = <<s.mode, s.test>>
        BY <1>2, <2>2 DEF TestMode, Same
      <3>2. <<tested.mode, tested.test>> # <<s.mode, s.test>>
        BY <1>3, <1>5, <1>9, <3>1, BackDeep
      <3>3. <<scripted.mode, scripted.test>> # <<s.mode, s.test>>
        BY <1>6, <3>2 DEF Same
      <3>4. new \in {scripted, [scripted EXCEPT !.cmd_run = FALSE]}
        BY <2>2, <3>3 DEF Redraw
      <3>5. new.screen = scripted.screen
        BY <1>6, <3>4 DEF Rec, SessionFields
      <3> QED BY <1>6, <3>5 DEF Depth, Same
    <2> QED BY <1>1, <2>1, <2>2
  <1> QED BY <1>8, <1>9 DEF new

(***************************************************************************)
(* The inductive invariant, and the way out of every menu.                 *)
(***************************************************************************)
DeepInv == SessionInv /\ Deep(session)

LEMMA DeepStep == DeepInv /\ [ShellNext]_shellVars => DeepInv'
  <1> SUFFICES ASSUME DeepInv, [ShellNext]_shellVars PROVE Deep(session')
    BY SessionStep DEF DeepInv
  <1>1. CASE UNCHANGED session
    BY <1>1 DEF DeepInv
  <1>2. ASSUME NEW line, Type(line) PROVE Deep(session')
    BY <1>2, LineDeep DEF Type, DeepInv, SessionInv
  <1>3. ASSUME NEW line \in MenuLines, Menu(line) PROVE Deep(session')
    BY <1>2, <1>3 DEF Menu
  <1>4. ASSUME NEW line \in SettingLines, Setting(line) PROVE Deep(session')
    <2>1. Type(line) \/ session' = Wild(session)
      BY <1>4 DEF Setting
    <2>2. Same(session, Wild(session))
      BY MessagesSame DEF DeepInv, SessionInv, Good
    <2> QED BY <1>2, <2>1, <2>2, SameDeep DEF DeepInv
  <1>5. ASSUME NEW line \in TabLines, NEW word \in Begins, Complete(line, word) PROVE Deep(session')
    BY <1>1, <1>5 DEF Complete
  <1>6. CASE UNCHANGED shellVars
    BY <1>1, <1>6 DEF shellVars
  <1> QED BY <1>3, <1>4, <1>5, <1>6 DEF ShellNext

(***************************************************************************)
(* "back" leaves the menu on the screen for one above it, whatever was     *)
(* typed before, hidden commands in the wrong menu included.               *)
(***************************************************************************)
THEOREM BackLeadsOut == ShellSpec => BackClimbs
  <1>1. ShellInit => DeepInv
    <2> SUFFICES ASSUME ShellInit PROVE DeepInv
      OBVIOUS
    <2>1. session = Start /\ SessionInv
      BY InitSession DEF ShellInit, Init
    <2>2. Start.mode = "MAIN" /\ Start.screen = <<"main">>
      BY DEF Start
    <2>3. Deep(Start)
      BY <2>2, Shows, ScreenDeep
    <2> QED BY <2>1, <2>3 DEF DeepInv
  <1>2. DeepInv => \A result \in Results :
                      session' = Line(session, <<"back">>, result) /\ ~session'.wild =>
                         Depth(session') < Depth(session) \/ Depth(session) = 0
    BY LineDeep DEF DeepInv, SessionInv
  <1> QED BY <1>1, <1>2, DeepStep, PTL DEF ShellSpec, BackClimbs

-----------------------------------------------------------------------------

(***************************************************************************)
(* recalculate_thermal_matrix limits what it computes.                     *)
(***************************************************************************)
LEMMA ClampInRange ==
    ASSUME NEW f \in {"mass", "cond"}, NEW n \in Int
    PROVE  Clamp(f, n) \in Int /\ InRange(f, Clamp(f, n))
  <1> DEFINE lo == Limits[f][1]
             hi == Limits[f][2]
             low == IF hi <= n THEN hi ELSE n
  <1>1. lo \in Int /\ hi \in Int /\ lo <= hi
    BY DEF Limits
  <1> HIDE DEF lo, hi
  <1>2. Min({hi, n}) = low
    <2>1. low \in {hi, n} /\ \A y \in {hi, n} : low <= y
      BY <1>1
    <2> QED BY <2>1, <1>1 DEF Min
  <1>3. low \in Int
    BY <1>1
  <1>4. PICK m \in {lo, low} : m = Max({lo, low}) /\ \A y \in {lo, low} : m >= y
    <2>1. \E x \in {lo, low} : \A y \in {lo, low} : x >= y
      BY <1>1, <1>3
    <2> QED BY <2>1 DEF Max
  <1>5. Clamp(f, n) = m
    BY <1>2, <1>4 DEF Clamp, lo, hi
  <1>6. lo <= m /\ m <= hi /\ m \in Int
    BY <1>1, <1>3, <1>4
  <1> QED BY <1>5, <1>6 DEF InRange, lo, hi

Values == [Fields -> Int]

(***************************************************************************)
(* It changes the mass and the conductance only, and leaves each in its    *)
(* range or, if it is held, as it was.                                     *)
(***************************************************************************)
LEMMA MatrixInRange ==
    ASSUME NEW value \in Values, NEW keep, NEW new, new = ThermalMatrix(value, keep)
    PROVE  /\ new \in Values
           /\ \A f \in Fields : new[f] = value[f] \/ InRange(f, new[f])
           /\ \A f \in Fields \ {"mass", "cond"} : new[f] = value[f]
           /\ \A f \in {"mass", "cond"} \ keep : InRange(f, new[f])
  <1> DEFINE mid == MassOf(value, keep)
             power == (value.power * value.ramp) \div 100
  <1>1. {"mass", "cond", "power", "ramp"} \subseteq Fields
    BY DEF Fields
  <1>2. power \in Int
    <2>1. value.power \in Int /\ value.ramp \in Int
      BY <1>1 DEF Values
    <2>2. value.power * value.ramp \in Int
      BY <2>1
    <2> HIDE DEF power
    <2> QED BY <2>2 DEF power
  <1>3. Clamp("mass", power) \in Int /\ InRange("mass", Clamp("mass", power))
    BY <1>2, ClampInRange
  <1>4. /\ mid \in Values
        /\ \A f \in Fields : mid[f] = value[f] \/ InRange(f, mid[f])
        /\ \A f \in Fields \ {"mass"} : mid[f] = value[f]
        /\ "mass" \notin keep => InRange("mass", mid["mass"])
    BY <1>1, <1>3 DEF MassOf, Values
  <1>5. new = CondOf(mid, keep)
    BY DEF ThermalMatrix
  <1> HIDE DEF mid
  <1> DEFINE cond == 4000 + 20 * mid.mass
  <1>6. Clamp("cond", cond) \in Int /\ InRange("cond", Clamp("cond", cond))
    <2>1. cond \in Int
      BY <1>1, <1>4 DEF Values
    <2> QED BY <2>1, ClampInRange
  <1> HIDE DEF cond
  <1>7. /\ new \in Values
        /\ \A f \in Fields \ {"cond"} : new[f] = mid[f]
        /\ new["cond"] = mid["cond"] \/ InRange("cond", new["cond"])
        /\ "cond" \notin keep => InRange("cond", new["cond"])
    BY <1>1, <1>4, <1>5, <1>6 DEF CondOf, Values, cond
  <1> QED BY <1>1, <1>4, <1>7

-----------------------------------------------------------------------------
(***************************************************************************)
(* The inductive invariant: besides the property, the values are numbers.  *)
(***************************************************************************)
SimType == /\ sim = [value |-> sim.value, mask |-> sim.mask, inuse |-> sim.inuse]
           /\ sim.value \in Values
SimOK == SimType /\ ShownInRange

(***************************************************************************)
(* What a line gives is a number, whatever words it holds.                 *)
(***************************************************************************)
LEMMA GivenIsNumber ==
    ASSUME NEW line \in SettingLines, NEW g \in Given(Tail(line))
    PROVE  g = <<g[1], g[2]>> /\ Signed(g[1], g[2]) \in Int
  <1>1. line \in Seq(STRING) /\ line # <<>> /\ \A i \in DOMAIN line : Atoi(line[i]) \in Int
    BY SettingLinesAssumption
  <1>2. PICK i \in 1 .. Len(Tail(line)) - 2 : g = <<PhyArgs[i], Number(Tail(line)[i + 2])>>
    BY DEF Given
  <1>3. /\ Len(Tail(line)) = Len(line) - 1 /\ Len(line) \in Nat /\ DOMAIN line = 1 .. Len(line)
        /\ \A j \in 1 .. Len(line) - 1 : Tail(line)[j] = line[j + 1]
    BY <1>1
  <1>4. i + 3 \in DOMAIN line /\ Tail(line)[i + 2] = line[i + 3]
    BY <1>2, <1>3
  <1>5. Number(line[i + 3]) \in Int
    <2>1. Atoi(line[i + 3]) \in Int
      BY <1>1, <1>4
    <2> QED BY <2>1 DEF Number
  <1>6. g[2] \in Int
    BY <1>2, <1>4, <1>5
  <1> QED BY <1>2, <1>6 DEF Signed

(***************************************************************************)
(* set_sim_cfg leaves numbers, and what it shows in range.                 *)
(***************************************************************************)
LEMMA SetSimInRange ==
    ASSUME SimOK, NEW line \in SettingLines, sim' = SetSim(Tail(line)).sim
    PROVE  SimOK'
  <1> DEFINE args == Tail(line)
             given == {<<g[1], Signed(g[1], g[2])>> : g \in Given(args)}
             good == {g \in given : InRange(g[1], g[2])}
             fields == {g[1] : g \in good}
             phy == fields \ {"ambient"}
             named == [f \in Fields |-> IF f \in fields THEN (CHOOSE g \in good : g[1] = f)[2] ELSE sim.value[f]]
             mask == sim.mask \cup fields
             derived == IF phy \cap {"ramp", "power"} = {} THEN named ELSE ThermalMatrix(named, phy)
             limited == IF sim.inuse /\ derived.ramp < 4 /\ derived.latency > 10
                        THEN [derived EXCEPT !.latency = 10] ELSE derived
             second == IF sim.inuse THEN ThermalMatrix(limited, mask) ELSE limited
  <1>1. /\ sim' = [sim EXCEPT !.mask = mask, !.value = IF Len(args) # 7 THEN derived ELSE second]
    BY DEF SetSim
  <1>2. \A g \in given : g[2] \in Int
    BY GivenIsNumber
  <1>3. \A f \in fields : /\ (CHOOSE g \in good : g[1] = f)[2] \in Int
                          /\ InRange(f, (CHOOSE g \in good : g[1] = f)[2])
    BY <1>2
  <1>4. sim.value \in Values /\ \A f \in Fields : sim.inuse \/ f \in sim.mask => InRange(f, sim.value[f])
    BY DEF SimOK, SimType, ShownInRange, Shown
  <1>5. /\ named \in Values
        /\ \A f \in Fields : sim.inuse \/ f \in mask => InRange(f, named[f])
    BY <1>3, <1>4 DEF Values
  <1> HIDE DEF named, mask, phy, fields
  <1>6. /\ derived \in Values
        /\ \A f \in Fields : sim.inuse \/ f \in mask => InRange(f, derived[f])
    BY <1>5, MatrixInRange
  <1> HIDE DEF derived
  <1>7. /\ limited \in Values
        /\ \A f \in Fields : sim.inuse \/ f \in mask => InRange(f, limited[f])
    <2>1. "latency" \in Fields /\ InRange("latency", 10)
      BY DEF Fields, InRange, Limits
    <2> QED BY <1>6, <2>1 DEF Values
  <1> HIDE DEF limited
  <1>8. /\ second \in Values
        /\ \A f \in Fields : sim.inuse \/ f \in mask => InRange(f, second[f])
    BY <1>7, MatrixInRange
  <1> HIDE DEF second
  <1>9. /\ sim'.inuse = sim.inuse /\ sim'.mask = mask
        /\ sim' = [value |-> sim'.value, mask |-> sim'.mask, inuse |-> sim'.inuse]
        /\ sim'.value = derived \/ sim'.value = second
    BY <1>1 DEF SimOK, SimType
  <1>10. SimType'
    BY <1>6, <1>8, <1>9 DEF SimType
  <1>11. \A f \in Fields : sim'.inuse \/ f \in sim'.mask => InRange(f, sim'.value[f])
    BY <1>6, <1>8, <1>9
  <1>12. \A f \in Fields : InRange(f, Default[f])
    BY DEF Fields, InRange, Limits, Default
  <1> QED BY <1>10, <1>11, <1>12 DEF SimOK, ShownInRange, Shown

(***************************************************************************)
(* So does the first start, which computes the conductance.                *)
(***************************************************************************)
LEMMA FirstStartInRange == ASSUME SimOK, FirstStart PROVE SimOK'
  <1>1. CASE sim.inuse
    BY <1>1 DEF FirstStart, SimOK, SimType, ShownInRange, Shown
  <1>2. CASE ~sim.inuse
    <2> DEFINE own == [f \in Fields |-> IF f \in sim.mask THEN sim.value[f] ELSE Default[f]]
               new == ThermalMatrix(own, sim.mask)
    <2>1. sim' = [sim EXCEPT !.inuse = TRUE, !.value = new]
      BY <1>2 DEF FirstStart
    <2>2. \A f \in Fields : Default[f] \in Int /\ InRange(f, Default[f])
      BY DEF Fields, InRange, Limits, Default
    <2>3. own \in Values /\ \A f \in Fields : InRange(f, own[f])
      BY <1>2, <2>2 DEF SimOK, SimType, ShownInRange, Shown, Values
    <2> HIDE DEF own
    <2>4. new \in Values /\ \A f \in Fields : InRange(f, new[f])
      BY <2>3, MatrixInRange
    <2> HIDE DEF new
    <2>5. /\ sim' = [value |-> sim'.value, mask |-> sim'.mask, inuse |-> sim'.inuse]
          /\ sim'.value = new /\ sim'.inuse
      BY <2>1 DEF SimOK, SimType
    <2> QED BY <2>4, <2>5 DEF SimOK, SimType, ShownInRange, Shown
  <1> QED BY <1>1, <1>2

LEMMA StepInRange == SimOK /\ [ShellNext]_shellVars => SimOK'
  <1> SUFFICES ASSUME SimOK, [ShellNext]_shellVars PROVE SimOK'
    OBVIOUS
  <1>1. ASSUME sim' = sim PROVE SimOK'
    BY <1>1 DEF SimOK, SimType, ShownInRange, Shown
  <1>2. ASSUME NEW line \in MenuLines, Menu(line) PROVE SimOK'
    BY <1>1, <1>2, FirstStartInRange DEF Menu
  <1>3. ASSUME NEW line \in SettingLines, Setting(line) PROVE SimOK'
    <2>1. sim' = sim \/ sim' = SetSim(Tail(line)).sim
      BY <1>3 DEF Setting, Configure
    <2> QED BY <1>1, <2>1, SetSimInRange
  <1>4. ASSUME NEW line \in TabLines, NEW word \in Begins, Complete(line, word) PROVE SimOK'
    BY <1>1, <1>4 DEF Complete, Tab
  <1>5. CASE UNCHANGED shellVars
    BY <1>1, <1>5 DEF shellVars
  <1> QED BY <1>2, <1>3, <1>4, <1>5 DEF ShellNext

(***************************************************************************)
(* What "show config sim current" shows is always in the ranges that       *)
(* set_sim_cfg checks and recalculate_thermal_matrix keeps to.             *)
(***************************************************************************)
THEOREM SettingsInRange == ShellSpec => []ShownInRange
  <1>1. ShellInit => SimOK
    BY DEF ShellInit, SettingsInit, SimOK, SimType, Values, ShownInRange, Shown, Fields, InRange, Limits, Default
  <1>2. SimOK => ShownInRange
    BY DEF SimOK
  <1> QED BY <1>1, <1>2, StepInRange, PTL DEF ShellSpec
=============================================================================
