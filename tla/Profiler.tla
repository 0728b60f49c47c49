------------------------------ MODULE Profiler ------------------------------
(***************************************************************************)
(* The function profiler (common/src/diagnostic/profiler/profiler.c): a    *)
(* pool of samples taken with one atomic counter, a chain of samples per   *)
(* function, and the statistics that the command line reads from them.     *)
(* One step is one access to the shared state.                             *)
(*                                                                         *)
(* The calls come from levels of priority: the command line (1), tasks (2) *)
(* and interrupt handlers (3, ...).  A level runs only while the levels    *)
(* above it are idle, and one call of a function at a time; only the       *)
(* command line reads the statistics.  The timestamps of a sample are      *)
(* reduced to whose exit wrote the last exit of it.                        *)
(***************************************************************************)
EXTENDS Integers

CONSTANTS Tracked,      \* func_list
          NumLevels,
          Calls,        \* the functions that a level calls
          Seeds, Hash,  \* the seeds tried, and the slot of an address under a seed
          MaxSamples, MaxCalls

Levels == 1 .. NumLevels

ASSUME ProfilerAssumption ==
    /\ NumLevels \in Nat \ {0} /\ MaxSamples \in Nat \ {0} /\ MaxCalls \in Nat
    /\ Seeds \subseteq Nat /\ "none" \notin Tracked

VARIABLES next_sample,        \* 0 .. MaxSamples, one more for all beyond, or Stop
          pool, head, tail,   \* prof_sample_pool, and the chains of prof_table
          map,                \* prof_inuse_map and prof_lookaside_map: function of a slot
          call,               \* of a level: where it is, its function, sample and old tail
          reading,            \* the reader: "no", "walk" or "reset"
          total, todo, cur, at,  \* its samples, functions to come, function, place in the chain
          seen,               \* history: the samples it met in the chain of a function
          restarted,          \* history: the mark of a full pool was lost
          calls               \* number of calls, for the bound

vars == <<next_sample, pool, head, tail, map, call, reading, total, todo, cur, at,
          seen, restarted, calls>>
reader == <<reading, total, todo, cur, at, seen>>

Null == -1
Stop == -2
Pool == 0 .. MaxSamples - 1
Blank == [fn |-> "none", ll |-> 0, exit |-> "none"]        \* memset to 0
Empty == [f \in Tracked |-> Null]

-----------------------------------------------------------------------------
(* The perfect hash *)

Perfect(seed) == \A f, g \in Tracked : f # g => Hash[seed][f] # Hash[seed][g]

\* find_perfect_seed: the first one; init_profiler asserts that there is one.
Seed == CHOOSE seed \in Seeds : Perfect(seed) /\ \A s \in Seeds : s < seed => ~Perfect(s)
Slot(a) == Hash[Seed][a]

\* Mutant: the address in the table is not compared.
NodeBySlot(a) == IF Slot(a) \in DOMAIN map THEN {map[Slot(a)]} ELSE {}

\* get_func_node_index, none for a function that is not tracked
Node(a) == IF Slot(a) \in DOMAIN map THEN {map[Slot(a)]} \cap {a} ELSE {}

Init ==
    /\ next_sample = 0 /\ restarted = FALSE /\ calls = 0
    /\ pool = [i \in Pool |-> Blank] /\ head = Empty /\ tail = Empty
    /\ map = [slot \in {Slot(f) : f \in Tracked} |-> CHOOSE f \in Tracked : Slot(f) = slot]
    /\ call = [l \in Levels |-> [pc |-> "idle", fn |-> "none", idx |-> Null, old |-> Null]]
    /\ reading = "no" /\ total = 0 /\ todo = {} /\ cur = "none" /\ at = Null
    /\ seen = [f \in Tracked |-> {}]

-----------------------------------------------------------------------------
(* A call of level l *)

Busy(l) == call[l].pc # "idle" \/ (l = 1 /\ reading # "no")
Runs(l) == \A h \in Levels : h > l => ~Busy(h)
At(l, place) == Runs(l) /\ call[l].pc = place
Go(l, place) == call' = [call EXCEPT ![l].pc = place]

\* A function is called; __cyg_profile_func_enter finds it and looks at the counter.
Enter(l) ==
    /\ At(l, "idle") /\ ~Busy(l) /\ calls < MaxCalls
    /\ \E a \in Calls[l] :
          call' = [call EXCEPT ![l] =
                     [pc |-> IF Node(a) = {} \/ next_sample = Stop THEN "body" ELSE "take",
                      fn |-> a, idx |-> Null, old |-> Null]]
    /\ calls' = calls + 1
    /\ UNCHANGED <<next_sample, pool, head, tail, map, reader, restarted>>

Counted(n) == IF n = Stop THEN 0 ELSE IF n > MaxSamples THEN n ELSE n + 1

\* Mutant: a full pool is not marked.
TakeNoMark(l) ==
    /\ At(l, "take")
    /\ next_sample' = Counted(next_sample)
    /\ restarted' = (restarted \/ next_sample = Stop)
    /\ call' = IF next_sample \in Pool
               THEN [call EXCEPT ![l].pc = "stamp", ![l].idx = next_sample]
               ELSE [call EXCEPT ![l].pc = "body"]
    /\ UNCHANGED <<pool, head, tail, map, reader, calls>>

\* The atomic increment takes a sample, finds the pool full, or makes 0 of the mark Stop.
Take(l) ==
    /\ At(l, "take")
    /\ next_sample' = Counted(next_sample)
    /\ restarted' = (restarted \/ next_sample = Stop)
    /\ call' = IF next_sample \in Pool
               THEN [call EXCEPT ![l].pc = "stamp", ![l].idx = next_sample]
               ELSE [call EXCEPT ![l].pc = IF next_sample = MaxSamples THEN "mark" ELSE "body"]
    /\ UNCHANGED <<pool, head, tail, map, reader, calls>>

Mark(l) ==
    /\ At(l, "mark")
    /\ next_sample' = Stop
    /\ Go(l, "body")
    /\ UNCHANGED <<pool, head, tail, map, reader, restarted, calls>>

\* Mutant: the link is left as it is.
StampKeepsLink(l) ==
    /\ At(l, "stamp")
    /\ pool' = [pool EXCEPT ![call[l].idx].fn = call[l].fn]
    /\ Go(l, "link")
    /\ UNCHANGED <<next_sample, head, tail, map, reader, restarted, calls>>

\* The entry time; an exit time found in the sample is older.
Stamp(l) ==
    /\ At(l, "stamp")
    /\ pool' = [pool EXCEPT ![call[l].idx] =
                  [fn |-> call[l].fn, ll |-> Null, exit |-> IF @.exit = "none" THEN "none" ELSE "stale"]]
    /\ Go(l, "link")
    /\ UNCHANGED <<next_sample, head, tail, map, reader, restarted, calls>>

Link(l) ==
    /\ At(l, "link")
    /\ \E f \in Node(call[l].fn) :
          /\ tail' = [tail EXCEPT ![f] = call[l].idx]
          /\ call' = [call EXCEPT ![l].pc = "chain", ![l].old = tail[f]]
    /\ UNCHANGED <<next_sample, pool, head, map, reader, restarted, calls>>

Chain(l) ==
    /\ At(l, "chain")
    /\ IF call[l].old = Null
       THEN /\ \E f \in Node(call[l].fn) : head' = [head EXCEPT ![f] = call[l].idx]
            /\ UNCHANGED pool
       ELSE /\ pool' = [pool EXCEPT ![call[l].old].ll = call[l].idx]
            /\ UNCHANGED head
    /\ Go(l, "body")
    /\ UNCHANGED <<next_sample, tail, map, reader, restarted, calls>>

\* The function returns; __cyg_profile_func_exit.
Exit(l) ==
    /\ At(l, "body")
    /\ Go(l, IF Node(call[l].fn) = {} \/ next_sample = Stop THEN "idle" ELSE "tail")
    /\ UNCHANGED <<next_sample, pool, head, tail, map, reader, restarted, calls>>

ExitTail(l) ==
    /\ At(l, "tail")
    /\ \E f \in Node(call[l].fn) :
          call' = [call EXCEPT ![l].pc = IF tail[f] = Null THEN "idle" ELSE "exit", ![l].old = tail[f]]
    /\ UNCHANGED <<next_sample, pool, head, tail, map, reader, restarted, calls>>

\* The exit goes to the last sample of the function, whoever took it.
ExitStamp(l) ==
    /\ At(l, "exit")
    /\ pool' = [pool EXCEPT ![call[l].old].exit =
                  IF call[l].idx = call[l].old THEN "own" ELSE "other"]
    /\ Go(l, "idle")
    /\ UNCHANGED <<next_sample, head, tail, map, reader, restarted, calls>>

CallStep(l) == \/ Take(l) \/ Mark(l) \/ Stamp(l) \/ Link(l) \/ Chain(l)
               \/ Exit(l) \/ ExitTail(l) \/ ExitStamp(l)

-----------------------------------------------------------------------------
(* prof_get_stats, on the command line *)

\* Mutant: the counter goes on.
ReadBeginRunning ==
    /\ At(1, "idle") /\ reading = "no"
    /\ UNCHANGED next_sample
    /\ total' = IF next_sample \in Pool THEN next_sample ELSE MaxSamples
    /\ reading' = IF next_sample = 0 THEN "no" ELSE "walk"
    /\ todo' = Tracked /\ at' = Null /\ seen' = [f \in Tracked |-> {}]
    /\ UNCHANGED <<pool, head, tail, map, call, cur, restarted, calls>>

\* prof_stop.  Without samples it ends here, and the profiler stays stopped.
ReadBegin ==
    /\ At(1, "idle") /\ reading = "no"
    /\ next_sample' = Stop
    /\ total' = IF next_sample \in Pool THEN next_sample ELSE MaxSamples
    /\ reading' = IF next_sample = 0 THEN "no" ELSE "walk"
    /\ todo' = Tracked /\ at' = Null /\ seen' = [f \in Tracked |-> {}]
    /\ UNCHANGED <<pool, head, tail, map, call, cur, restarted, calls>>

Reading(phase) == Runs(1) /\ reading = phase
ChainEnds == at = Null \/ at >= total

\* The head of the next function's chain.
ReadHead ==
    /\ Reading("walk") /\ ChainEnds
    /\ \E f \in todo : cur' = f /\ todo' = todo \ {f} /\ at' = head[f]
    /\ UNCHANGED <<next_sample, pool, head, tail, map, call, reading, total, seen, restarted, calls>>

ReadSample ==
    /\ Reading("walk") /\ ~ChainEnds
    /\ seen' = [seen EXCEPT ![cur] = @ \cup {at}]
    /\ at' = pool[at].ll
    /\ UNCHANGED <<next_sample, pool, head, tail, map, call, reading, total, todo, cur,
                   restarted, calls>>

\* Mutant: as many samples are cleared as there were, less one.
DirtyLess(n) == IF n \in 1 .. MaxSamples - 1 THEN 0 .. n - 2 ELSE Pool

Dirty(n) == IF n \in 1 .. MaxSamples - 1 THEN 0 .. n - 1 ELSE Pool

\* prof_start, if the profiler is still stopped
Reset ==
    /\ Reading("walk") /\ ChainEnds /\ todo = {}
    /\ IF next_sample = Stop
       THEN /\ head' = Empty /\ tail' = Empty
            /\ pool' = [i \in Pool |-> IF i \in Dirty(total) THEN Blank ELSE pool[i]]
            /\ reading' = "reset"
       ELSE UNCHANGED <<head, tail, pool>> /\ reading' = "no"
    /\ UNCHANGED <<next_sample, map, call, total, todo, cur, at, seen, restarted, calls>>

Restart ==
    /\ Reading("reset")
    /\ next_sample' = 0
    /\ reading' = "no"
    /\ UNCHANGED <<pool, head, tail, map, call, total, todo, cur, at, seen, restarted, calls>>

ReadStep == ReadHead \/ ReadSample \/ Reset \/ Restart

-----------------------------------------------------------------------------
Work == ReadStep \/ \E l \in Levels : CallStep(l)
Next == Work \/ ReadBegin \/ \E l \in Levels : Enter(l)

Spec == Init /\ [][Next]_vars

\* The processor does not rest in the middle of a call.
FairSpec == Spec /\ WF_vars(Work)

-----------------------------------------------------------------------------
(* Properties *)

Index == Pool \cup {Null}
Addresses == (UNION {Calls[l] : l \in Levels}) \cup {"none"}

PoolTypes ==
    /\ next_sample \in 0 .. MaxSamples + 1 \cup {Stop}
    /\ pool \in [Pool -> [fn : Addresses, ll : Index, exit : {"none", "own", "other", "stale"}]]
    /\ head \in [Tracked -> Index] /\ tail \in [Tracked -> Index]
    /\ map \in [DOMAIN map -> Tracked]

CallTypes ==
    /\ call \in [Levels -> [pc : {"idle", "take", "mark", "stamp", "link", "chain", "body",
                                  "tail", "exit"},
                            fn : Addresses, idx : Index, old : Index]]
    /\ \A l \in Levels : /\ call[l].pc \in {"stamp", "link", "chain"} => call[l].idx \in Pool
                         /\ call[l].pc = "exit" => call[l].old \in Pool

ReaderTypes ==
    /\ reading \in {"no", "walk", "reset"} /\ total \in 0 .. MaxSamples /\ todo \subseteq Tracked
    /\ at \in Index /\ seen \in [Tracked -> SUBSET Pool]

\* Types.  The array accesses of calls and reader stay in the pool.
TypeOK == PoolTypes /\ CallTypes /\ ReaderTypes

(***************************************************************************)
(* While the statistics are read the profiler is stopped and no call is    *)
(* past its look at the counter: nobody but the reader touches the pool    *)
(* and the chains, although calls go on.                                   *)
(***************************************************************************)
ReaderAlone ==
    reading # "no" =>
        /\ next_sample = Stop
        /\ \A l \in Levels : call[l].pc \in {"idle", "body"}

\* The samples that functions f took.
Taken(f) == {i \in Pool : i < total /\ pool[i].fn = f}

(***************************************************************************)
(* When the chains have been walked, each function's had exactly the       *)
(* samples that its calls took, however the calls interrupted each other:  *)
(* the two steps that append to a chain lose none, and no sample of        *)
(* another or of an untracked function gets in.  It needs the mark of the  *)
(* full pool, which an interrupted call can erase.                         *)
(***************************************************************************)
ChainsExact ==
    reading = "walk" /\ ChainEnds /\ todo = {} /\ ~restarted =>
        /\ \A f \in Tracked : seen[f] = Taken(f)
        /\ \A i \in Pool : pool[i].fn \in Tracked \cup {"none"}

(***************************************************************************)
(* The samples beyond the counter are clean: a chain, or an exit time, of  *)
(* an earlier run never gets into the next one.                            *)
(***************************************************************************)
PoolClean ==
    next_sample \in Pool /\ ~restarted => \A i \in Pool : i >= next_sample => pool[i] = Blank

(***************************************************************************)
(* A function that only the command line calls is never interrupted by     *)
(* itself: its samples end with their own exits.  (For the others the exit *)
(* of an inner call is overwritten by the exit of the outer one.)          *)
(***************************************************************************)
OwnExit ==
    \A i \in Pool : \A f \in Calls[1] :
        pool[i].fn = f /\ ~restarted /\ (\A l \in Levels \ {1} : f \notin Calls[l])
            => pool[i].exit \in {"none", "own"}

(***************************************************************************)
(* Reading ends, if the mark of the full pool was never lost.  (After that *)
(* a chain may be a cycle, and the command line hangs.)                    *)
(***************************************************************************)
ReadEnds == reading # "no" ~> (reading = "no" \/ restarted)
=============================================================================
