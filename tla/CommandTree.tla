---------------------------- MODULE CommandTree -----------------------------
(***************************************************************************)
(* The commands "set" and "show" (cli_system.c): the tables that describe  *)
(* their words, cmd_dispatch that runs a line, and the completion that     *)
(* offers the words of a line to be.  Both walk the same tables, in code   *)
(* of their own.  A line is a sequence of words without the command; "?"   *)
(* asks for help, and for completion "" is a word not begun.               *)
(*                                                                         *)
(* domain_name, entity_name and level_name spell a name in small letters,  *)
(* which is what completion offers and set_log_validate compares with, or  *)
(* in capitals, which is what "show" shows and the tables are filled from. *)
(* Hashes do not tell the case.                                            *)
(***************************************************************************)
EXTENDS Integers, Sequences, FiniteSets, SequencesExt, FiniteSetsExt

CONSTANTS Domains, Entities, Levels,    \* names in small letters, in order
          Capital,                      \* name -> the name in capitals
          Hash,                         \* word -> its hash
          MapSize,                      \* slots of the map of hashes
          Beginnings                    \* word begun -> the words it is the beginning of

\* cliHash computes with capitals.
ASSUME CaseAssumption == \A name \in DOMAIN Capital : Hash[Capital[name]] = Hash[name]

Words(list) == {list[i] : i \in DOMAIN list}
Find(list, word) == IF word \in Words(list) THEN SelectInSeq(list, LAMBDA w : w = word) - 1 ELSE -1

-----------------------------------------------------------------------------
(* The tables *)

Single == <<>>
PhyArgs == <<"ramp", "mass", "cond", "power", "ambient">>
TempArgs == <<"latency", "target", "critical", "hyster", "cooldown">>

SetTree ==
    [level1 |-> <<"log", "sim">>, level2 |-> <<<<"">>, <<"phy", "temp">>>>,
     act_idx |-> <<1, 2>>, spec |-> TRUE, enable |-> {}, must |-> {},
     options |-> [a \in 1 .. 3 |-> <<<<"domain", "entity", "level">>, PhyArgs, TempArgs>>[a]],
     action |-> [a \in 0 .. 2 |-> <<"null", "set log", "set sim">>[a + 1]]]

\* The offsets of the actions are the sums of the numbers of words before.
ShowTree ==
    [level1 |-> <<"stats", "config", "version", "domains", "entities", "levels">>,
     level2 |-> <<<<"log", "sys", "task", "prof">>, <<"", "short", "sim", "log">>,
                  Single, Single, Single, Single>>,
     act_idx |-> <<0, 4, 8, 9, 10, 11>>, spec |-> FALSE,
     enable |-> {0, 4, 6}, must |-> {4, 6},
     options |-> [a \in {0, 6} |-> IF a = 0 THEN <<"clear">> ELSE <<"current", "default", "ranges">>],
     action |-> [a \in 0 .. 11 |->
                   <<"stats log", "stats sys", "stats task", "stats prof", "config", "config short",
                     "config sim", "config log", "version", "domains", "entities", "levels">>[a + 1]]]

Tree(command) == IF command = "set" THEN SetTree ELSE ShowTree
Hybrid(words) == words # <<>> /\ words[1] = ""

-----------------------------------------------------------------------------
(* Names *)

\* The names a position of "set log" takes, letter by letter; positions count the command.
NamesAt(pos) == CASE pos = 2 -> Words(Domains)
                  [] pos = 3 -> Words(Entities)
                  [] pos = 4 -> Words(Levels)
                  [] OTHER -> {}
SetLogValidate(word, pos) == word \in NamesAt(pos) \/ (pos \in {2, 3} /\ word = "all")

\* do_insert: the first slot from the hash on that is free or holds the same hash.
Slots == 0 .. MapSize - 1
Probe(map, hash) ==
    LET at(k) == (hash + k) % MapSize
        free == {k \in Slots : map[at(k)].hash \in {-1, hash}}
    IN  IF free = {} THEN -1 ELSE at(Min(free))
Insert(map, name, spelling) ==
    LET hash == Hash[spelling]
    IN  [map EXCEPT ![Probe(map, hash)] = [hash |-> hash, id |-> name]]
Table(list, spelling) ==
    FoldLeft(LAMBDA map, name : Insert(map, name, spelling[name]),
             [s \in Slots |-> [hash |-> -1, id |-> "none"]], list)

\* In capitals ENTITY_NONE is spelled with no letters, and in small ones "none".
EntityCapital == [Capital EXCEPT !["none"] = ""]

DomainTable == Table(Domains, Capital)
EntityTable == Table(Entities, EntityCapital)
LevelTable == Table(Levels, Capital)

\* Mutant: only the first slot is looked at.
FindNameFirst(table, word) ==
    IF table[Hash[word] % MapSize].hash = Hash[word] THEN {table[Hash[word] % MapSize].id} ELSE {}

\* find_name_id: the name of a word, if its hash is in the table.
FindName(table, word) ==
    LET slot == Probe(table, Hash[word])
    IN  IF slot = -1 THEN {} ELSE IF table[slot].hash = -1 THEN {} ELSE {table[slot].id}

-----------------------------------------------------------------------------
(* cmd_dispatch *)

\* The end of a line of a command with completion of its own.
SetRuns(tree, args, act, path, help) ==
    LET words == Len(args) - (IF help THEN 1 ELSE 0)
        present == IF words > path THEN words - path ELSE 0
        known == act \in DOMAIN tree.options
    IN  IF ~known /\ present > 0 THEN "invalid"
        ELSE IF known /\ present > Len(tree.options[act]) THEN "too many"
        ELSE IF act = 1 /\ \E i \in path + 1 .. words : ~SetLogValidate(args[i], i) THEN "invalid"
        ELSE IF help \/ (known /\ present = 0) THEN "help"
        ELSE "run"

\* The end of a line of any other command: at most one option.
ShowRuns(tree, args, act, help) ==
    LET known == act \in DOMAIN tree.options /\ act \in tree.enable
        arg3 == Len(args) >= 3
    IN  IF help \/ (known /\ ~arg3 /\ act \in tree.must) THEN "help"
        ELSE IF arg3 /\ ~known THEN "too many"
        ELSE IF arg3 /\ args[3] \notin Words(tree.options[act]) THEN "invalid"
        ELSE IF Len(args) > (IF known THEN 3 ELSE 2) THEN "too many"
        ELSE "run"

\* An action outside the table is read from what lies behind it.
Run(tree, act) == IF act \in DOMAIN tree.action THEN tree.action[act] ELSE "wild"

CmdDispatch(tree, args) ==
    LET count == Len(args)
        help == count > 0 /\ args[count] = "?"
        l1 == Find(tree.level1, args[1])
        words == tree.level2[l1 + 1]
        arg2 == count >= 2
        named == arg2 /\ ~(help /\ count = 2)
        l2 == IF named THEN Find(words, args[2]) ELSE IF Hybrid(words) /\ ~arg2 THEN 0 ELSE -1
        act == tree.act_idx[l1 + 1] + (IF l2 = -1 THEN 0 ELSE l2)
        path == IF arg2 /\ l2 # -1 /\ ~Hybrid(words) THEN 2 ELSE 1
        answer == IF tree.spec THEN SetRuns(tree, args, act, path, help) ELSE ShowRuns(tree, args, act, help)
    IN  IF count = 0 \/ (help /\ count = 1) THEN "help"
        ELSE IF l1 = -1 THEN "invalid"
        ELSE IF ~named /\ ~tree.spec /\ ~help /\ (words = <<>> \/ Hybrid(words)) THEN Run(tree, tree.act_idx[l1 + 1])
        ELSE IF ~named /\ (~tree.spec \/ ~Hybrid(words)) THEN "help"
        ELSE IF l2 = -1 /\ ~help /\ ~tree.spec THEN "invalid"
        ELSE IF answer = "run" THEN Run(tree, act) ELSE answer

-----------------------------------------------------------------------------
(* Completion *)

\* The words a word begun may stand for; help asks for all of them.
Begun(word) == IF word \in DOMAIN Beginnings THEN Beginnings[word] ELSE {word}
Completes(words, word) == {w \in words : word \in {"", "?"} \/ w \in Begun(word)}

\* do_help: the words it writes.
Usage(words) == words \ {""}

\* do_log_help, and set_log_completion: "all" comes before the names.
LogHelp(pos) == (IF pos \in {2, 3} THEN {"all"} ELSE {}) \cup NamesAt(pos)
SetLogCompletion(word, pos) ==
    LET all == LogHelp(pos) \cap {"all"}
    IN  IF word \in {"", "?"} THEN LogHelp(pos)
        ELSE IF Completes(all, word) # {} THEN all
        ELSE Completes(NamesAt(pos), word)
Special(tree, word, pos) == IF tree.spec THEN SetLogCompletion(word, pos) ELSE {}

\* do_cmd_arg_completion_dispatch: the words offered for `word' behind those of `args'.
Completion(tree, args, word) ==
    LET pos == Len(args) + 1
        begun == {i \in DOMAIN tree.level1 : tree.level1[i] \in Begun(args[1])}
        words(i) == Words(tree.level2[i])
        l1 == Find(tree.level1, args[1])
        l2 == Find(tree.level2[l1 + 1], args[2])
        act == tree.act_idx[l1 + 1] + l2
    IN  CASE pos = 1 -> Completes(Words(tree.level1), word)
          [] pos = 2 ->
               IF begun = {} THEN {}
               ELSE IF words(Min(begun)) \subseteq {""} THEN Special(tree, word, pos)
               ELSE LET found == Completes(words(Min(begun)), word)
                        \* one word is completed; several are shown, and then the special ones
                    IN  Usage(found) \cup (IF word = "?" \/ Cardinality(found) = 1 THEN {}
                                             ELSE Special(tree, word, pos))
          [] pos = 3 ->
               \* set_cmd_completion passes no action table
               IF tree.spec \/ l1 = -1 THEN Special(tree, word, pos)
               ELSE IF l2 = -1 \/ act \notin DOMAIN tree.options THEN {}
               ELSE Completes(Words(tree.options[act]), word)
          [] OTHER -> Special(tree, word, pos)
=============================================================================
