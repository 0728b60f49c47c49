-------------------------------- MODULE Shell -------------------------------
(***************************************************************************)
(* The command line of the FreeRTOS build, composed: every line goes       *)
(* through the menus (Session), and "set" and "show" lines through         *)
(* cmd_dispatch to the settings (CommandTree, Settings).  Two things cross *)
(* from one to the other: the first start of the simulation, and the test  *)
(* of the command line, which types a list of commands itself before the   *)
(* line that asked for it ends.                                            *)
(***************************************************************************)
EXTENDS Session, Settings

CONSTANTS MenuLines,        \* lines that are not "set" or "show"
          SettingLines,     \* "set" and "show" lines
          TabLines,         \* the beginnings of lines behind which a word is completed
          Begins,           \* the words begun there
          MaxSettings,      \* bound: "set" and "show" lines typed
          Places            \* bound: the modes they are typed in

\* A line is a sequence of words, and each word is a number of some kind to atoi.
ASSUME SettingLinesAssumption ==
    \A line \in SettingLines :
        /\ line \in Seq(STRING) /\ line # <<>> /\ \A i \in DOMAIN line : Atoi(line[i]) \in Int
        /\ line[1] \in {"set", "show"}

\* Numbers are typed without a sign, and a test is named by the name it is registered under.
LineOfMenu(line) == /\ line[1] \in {"number", "block"} => line[2] \in Nat
                    /\ line[1] = "name" => line[2] \in Tests
ASSUME MenuLinesAssumption == \A line \in MenuLines : LineOfMenu(line)

VARIABLE typed              \* "set" and "show" lines typed

shellVars == <<session, stray, log_level, sim, last, typed>>

ShellInit == Init /\ SettingsInit /\ typed = 0

\* The line ran the test of the command line, or one asked for before.
Scripted == /\ ~session'.test_cli
            /\ session.test_cli \/ (session'.did[1] = "test" /\ TestOf(session'.did[2]).func = "test_cli")

Menu(line) ==
    /\ typed > 0 => session.mode \in Home(line) /\ ~stray
    /\ Type(line)
    /\ last' = NoAnswer
    /\ IF session'.did = <<"sim", "start">> THEN FirstStart
       ELSE /\ log_level' = IF Scripted THEN CliTest(log_level) ELSE log_level
            /\ sim' = sim
    /\ typed' = typed

\* Bound: settings are typed in one kind of menu each, where nothing waits.
Quiet == session.mode \in Places /\ session.msg = "" /\ session.test = GetMaxIndex(session) /\ ~stray

\* A handler that reads words the line does not have makes the session wild.
Setting(line) ==
    /\ typed < MaxSettings /\ Quiet
    /\ Configure(line)
    /\ IF last'.answer = "wild"
       THEN session.running /\ ~session.wild /\ session' = Wild(session) /\ stray' = TRUE
       ELSE Type(line)
    /\ typed' = typed + 1

\* TAB: completion knows nothing of the settings, so it is asked before they change.
Complete(line, word) ==
    /\ session.running /\ ~session.wild /\ Quiet /\ typed = 0 /\ last = NoAnswer
    /\ Tab(line, word)
    /\ UNCHANGED <<session, stray, typed>>

ShellNext == \/ \E line \in MenuLines : Menu(line)
             \/ \E line \in SettingLines : Setting(line)
             \/ \E line \in TabLines, word \in Begins : Complete(line, word)

ShellSpec == ShellInit /\ [][ShellNext]_shellVars

-----------------------------------------------------------------------------
(* Properties *)

\* What cmd_dispatch and, for whole lines, the handler make of a line.
Refusals == {"invalid", "too many", "bad level", "bad domain", "bad entity", "wild"}
Whole(line) == Len(line) = 5 /\ line[2] = "log"
Accepted(line) == IF line[1] = "set" /\ ~Whole(line)
                  THEN CmdDispatch(Tree(line[1]), Tail(line)) \notin Refusals
                  ELSE Answer(line) \notin Refusals

\* Words that completion offers behind a line where they are of no use: the log names behind
\* "set sim", which shares the special completion, and the entity "none".
Misled(line, word) == Len(line) >= 2 /\ (line[2] = "sim" \/ (line[2] = "log" /\ Len(line) = 3 /\ word = "none"))
Vocabulary == UNION {Words(line) : line \in SettingLines} \ {"?", "set", "show"}

(***************************************************************************)
(* Completion and execution agree.  Behind a line that the command would   *)
(* accept, the words completion offers are exactly those that can follow:  *)
(* what is offered is never refused, and what is accepted (but for the     *)
(* numbers of "set sim") is offered when nothing is begun.  The two are    *)
(* different code over the same tables, and a name goes through a hash.    *)
(***************************************************************************)
OfferedIsAccepted ==
    /\ last.answer = "tab"
    /\ Accepted(last.line)
    /\ \A i \in DOMAIN last.line : ~Misled(SubSeq(last.line, 1, i - 1), last.line[i])
    =>
       /\ \A word \in last.offered :
             Accepted(Append(last.line, word)) \/ Misled(last.line, word)
       /\ last.begun = "" =>
             \A word \in Vocabulary :
                Accepted(Append(last.line, word)) /\ ~Misled(last.line, word) => word \in last.offered

(***************************************************************************)
(* Log levels change in three ways only.  A whole "set log" line gives the *)
(* named level to the cells named and to no other, through tables of       *)
(* hashes that collide; the first start of the simulation raises two; the  *)
(* test of the command line leaves its own.  A field of the simulation     *)
(* takes the value a line gives it in range.  Without one, ramp, power and *)
(* ambient temperature stay (mass and conductance are also computed), and  *)
(* the line reports exactly the fields given out of range, but for what it *)
(* drops without a word: a 0 that counts as none and a ramp that is not a  *)
(* byte.  The first start changes no value that "show" had shown, but for  *)
(* the mass and the conductance it computes.                               *)
(***************************************************************************)
Names(word, names, name) == word = name \/ (word = "all" /\ name \in names)
Value(line, i) == Signed(PhyArgs[i], Number(line[i + 3]))
Dropped(f, n) == (f = "ramp" /\ n >= 256) \/ (f \in {"mass", "cond", "power"} /\ n = 0)
LinesDoWhatTheySay ==
    [][/\ last'.answer = "level set" =>
             \A c \in Cells :
                log_level'[c] = IF /\ Names(last'.line[3], Words(Domains), c[1])
                                   /\ Names(last'.line[4], Words(Entities), c[2])
                                THEN last'.line[5] ELSE log_level[c]
       /\ log_level' # log_level =>
             \/ last'.answer = "level set"
             \/ session'.did = <<"sim", "start">> /\ ~sim.inuse
             \/ Scripted
       /\ last'.answer \in {"config set", "nothing"} =>
             \A i \in DOMAIN PhyArgs :
                LET f == PhyArgs[i]
                    given == i + 3 <= Len(last'.line)
                    good == given /\ InRange(f, Value(last'.line, i))
                IN  /\ good => Shown(f)' = Value(last'.line, i)
                    /\ ~good /\ f \in {"ramp", "power", "ambient"} => Shown(f)' = Shown(f)
                    /\ f \in last'.skipped <=> given /\ ~good /\ ~Dropped(f, Value(last'.line, i))
       /\ sim'.inuse /\ ~sim.inuse =>
             \A f \in Fields \ ({"mass", "cond"} \ sim.mask) : Shown(f)' = Shown(f)]_shellVars

(***************************************************************************)
(* What "show" shows is true.  "config sim current" is in the ranges that  *)
(* "config sim ranges" shows, whatever lines set, out of range, in part or *)
(* before the start: mass and conductance are also computed from the       *)
(* others.  "config log" shows every cell that logs, with its level and    *)
(* once, although it is printed in pieces that fit a buffer, and "domains",*)
(* "entities" and "levels" show exactly the names that "set log" takes, if *)
(* in capitals, which it does not take.                                    *)
(***************************************************************************)
Pieces == FlattenSeq([i \in DOMAIN last.pages |-> last.pages[i].lines])
NamesShown(command) == CASE command = "domains" -> Words(Domains)
                         [] command = "entities" -> Words(Entities)
                         [] command = "levels" -> Words(Levels)
LogLineWith(command, name) ==
    CASE command = "domains" -> <<"set", "log", name, "all", Levels[1]>>
      [] command = "entities" -> <<"set", "log", "all", name, Levels[1]>>
      [] command = "levels" -> <<"set", "log", "all", "all", name>>
ShownInRange == \A f \in Fields : InRange(f, Shown(f))
ShownTrue ==
    /\ ShownInRange
    /\ \A i \in DOMAIN last.pages : last.pages[i].width < PageSize
    /\ last.answer = "config log" =>
          /\ IsInjective(Pieces)
          /\ Words(Pieces) = {LogText(c, log_level[c]) : c \in {c \in Cells : log_level[c] # "none"}}
    /\ last.answer \in {"domains", "entities", "levels"} =>
          LET taken == {n \in NamesShown(last.answer) : Answer(LogLineWith(last.answer, n)) = "level set"}
          IN  Words(Pieces) = {Capital[n] : n \in taken}

(***************************************************************************)
(* "Sim config set" is answered only if a value of the line was taken: the *)
(* code masks what is out of range before it answers (cli_system.c:1424),  *)
(* and cli_system.c:1408 says that a fifth argument has special handling;  *)
(* but the loop before it takes it, too.                                   *)
(***************************************************************************)
SetOnlyIfTaken ==
    last.answer = "config set" =>
       \E i \in 1 .. Len(last.line) - 3 : InRange(PhyArgs[i], Value(last.line, i))
=============================================================================
