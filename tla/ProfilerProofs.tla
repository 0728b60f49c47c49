--------------------------- MODULE ProfilerProofs ---------------------------
(***************************************************************************)
(* Types, ReaderAlone, ChainsExact, PoolClean and OwnExit for every number *)
(* of levels, functions, samples and every hash.  ReaderAlone is inductive *)
(* by itself: prof_get_stats begins when no other call is under way, and a *)
(* call that begins later sees the mark Stop and goes past the pool,       *)
(* twice.  The others rest on MarkedInv, the shape of the chains while     *)
(* calls are in the middle of appending to them.                           *)
(***************************************************************************)
EXTENDS Profiler, TLAPS

LEMMA PoolFacts == /\ 1 \in Levels /\ 0 \in Pool /\ MaxSamples \in Nat
                   /\ \A n \in Int : n \in Pool <=> 0 <= n /\ n < MaxSamples
BY ProfilerAssumption DEF Levels, Pool

\* A node that is found is one of the table.
LEMMA NodeTracked == ASSUME PoolTypes, NEW a PROVE Node(a) \subseteq Tracked
BY DEF PoolTypes, Node

-----------------------------------------------------------------------------
(* The initial state *)

LEMMA InitMap == Init => map \in [DOMAIN map -> Tracked]
<1> SUFFICES ASSUME Init PROVE map \in [DOMAIN map -> Tracked]
  OBVIOUS
<1> DEFINE Slots == {Slot(f) : f \in Tracked}
           Func(slot) == CHOOSE f \in Tracked : Slot(f) = slot
<1>1. map = [slot \in Slots |-> Func(slot)]
  BY DEF Init
<1>2. ASSUME NEW slot \in Slots PROVE Func(slot) \in Tracked
  <2>1. \E f \in Tracked : Slot(f) = slot
    OBVIOUS
  <2> QED
    BY <2>1
<1> HIDE DEF Slots, Func
<1> QED
  BY <1>1, <1>2

LEMMA InitTypes == Init => TypeOK /\ ReaderAlone
<1> SUFFICES ASSUME Init PROVE TypeOK /\ ReaderAlone
  OBVIOUS
<1>1. PoolTypes
  <2>1. Blank \in [fn : Addresses, ll : Index, exit : {"none", "own", "other", "stale"}]
    BY PoolFacts DEF Blank, Addresses, Index
  <2>2. Empty \in [Tracked -> Index]
    BY DEF Empty, Index
  <2>3. next_sample \in 0 .. MaxSamples + 1
    BY PoolFacts DEF Init
  <2> QED
    BY <2>1, <2>2, <2>3, InitMap DEF Init, PoolTypes
<1>2. CallTypes
  BY DEF Init, CallTypes, Index, Addresses
<1>3. ReaderTypes
  BY PoolFacts DEF Init, ReaderTypes, Index
<1> QED
  BY <1>1, <1>2, <1>3 DEF Init, TypeOK, ReaderAlone

-----------------------------------------------------------------------------
(* The steps of a call *)

LEMMA EnterTypes == ASSUME TypeOK, NEW l \in Levels, Enter(l) PROVE TypeOK'
<1>1. PoolTypes' /\ ReaderTypes'
  BY DEF TypeOK, Enter, PoolTypes, ReaderTypes, reader
<1>2. CallTypes'
  <2>1. PICK a \in Calls[l] :
          call' = [call EXCEPT ![l] =
                     [pc |-> IF Node(a) = {} \/ next_sample = Stop THEN "body" ELSE "take",
                      fn |-> a, idx |-> Null, old |-> Null]]
    BY DEF Enter
  <2>2. a \in Addresses /\ Null \in Index
    BY DEF Addresses, Index
  <2> QED
    BY <2>1, <2>2 DEF TypeOK, CallTypes
<1> QED
  BY <1>1, <1>2 DEF TypeOK

LEMMA TakeTypes == ASSUME TypeOK, NEW l \in Levels, Take(l) PROVE TypeOK'
<1>1. PoolTypes'
  BY PoolFacts DEF TypeOK, PoolTypes, Take, Counted, Stop
<1>2. CallTypes'
  BY ZenonT(40) DEF TypeOK, CallTypes, Take, At, Index
<1>3. ReaderTypes'
  BY DEF TypeOK, ReaderTypes, Take, reader
<1> QED
  BY <1>1, <1>2, <1>3 DEF TypeOK

LEMMA MarkTypes == ASSUME TypeOK, NEW l \in Levels, Mark(l) PROVE TypeOK'
BY DEF TypeOK, PoolTypes, CallTypes, ReaderTypes, Mark, Go, At, reader

LEMMA StampTypes == ASSUME TypeOK, NEW l \in Levels, Stamp(l) PROVE TypeOK'
<1>1. call[l].idx \in Pool /\ call[l].fn \in Addresses /\ Null \in Index
  BY DEF TypeOK, CallTypes, Stamp, At, Index
<1>2. PoolTypes'
  BY <1>1 DEF TypeOK, PoolTypes, Stamp
<1>3. CallTypes' /\ ReaderTypes'
  BY <1>1 DEF TypeOK, CallTypes, ReaderTypes, Stamp, Go, At, reader
<1> QED
  BY <1>2, <1>3 DEF TypeOK

LEMMA LinkTypes == ASSUME TypeOK, NEW l \in Levels, Link(l) PROVE TypeOK'
<1>1. PICK f \in Node(call[l].fn) :
          /\ tail' = [tail EXCEPT ![f] = call[l].idx]
          /\ call' = [call EXCEPT ![l].pc = "chain", ![l].old = tail[f]]
  BY DEF Link
<1>2. f \in Tracked /\ call[l].idx \in Pool
  BY NodeTracked DEF TypeOK, CallTypes, Link, At
<1>3. PoolTypes'
  BY <1>1, <1>2 DEF TypeOK, PoolTypes, Link, Index
<1>4. CallTypes'
  BY <1>1, <1>2 DEF TypeOK, CallTypes, PoolTypes
<1>5. ReaderTypes'
  BY DEF TypeOK, ReaderTypes, Link, reader
<1> QED
  BY <1>3, <1>4, <1>5 DEF TypeOK

LEMMA ChainTypes == ASSUME TypeOK, NEW l \in Levels, Chain(l) PROVE TypeOK'
<1>1. call[l].idx \in Pool
  BY DEF TypeOK, CallTypes, Chain, At
<1>2. PoolTypes'
  <2>1. CASE call[l].old = Null
    BY <1>1, <2>1 DEF TypeOK, PoolTypes, Chain, Index
  <2>2. CASE call[l].old # Null
    BY <1>1, <2>2 DEF TypeOK, PoolTypes, Chain, Index
  <2> QED
    BY <2>1, <2>2
<1>3. CallTypes' /\ ReaderTypes'
  BY DEF TypeOK, CallTypes, ReaderTypes, Chain, Go, At, reader
<1> QED
  BY <1>2, <1>3 DEF TypeOK

LEMMA ExitTypes == ASSUME TypeOK, NEW l \in Levels, Exit(l) PROVE TypeOK'
BY DEF TypeOK, PoolTypes, CallTypes, ReaderTypes, Exit, Go, At, reader

LEMMA ExitTailTypes == ASSUME TypeOK, NEW l \in Levels, ExitTail(l) PROVE TypeOK'
<1>1. PICK f \in Node(call[l].fn) :
          call' = [call EXCEPT ![l].pc = IF tail[f] = Null THEN "idle" ELSE "exit", ![l].old = tail[f]]
  BY DEF ExitTail
<1>2. f \in Tracked
  BY NodeTracked DEF TypeOK
<1>3. CallTypes'
  <2>1. tail[f] \in Index /\ (tail[f] # Null => tail[f] \in Pool)
    BY <1>2 DEF TypeOK, PoolTypes, Index
  <2> QED
    BY ZenonT(40), <1>1, <2>1 DEF TypeOK, CallTypes
<1>4. PoolTypes' /\ ReaderTypes'
  BY DEF TypeOK, PoolTypes, ReaderTypes, ExitTail, reader
<1> QED
  BY <1>3, <1>4 DEF TypeOK

LEMMA ExitStampTypes == ASSUME TypeOK, NEW l \in Levels, ExitStamp(l) PROVE TypeOK'
<1>1. PoolTypes'
  BY DEF TypeOK, PoolTypes, ExitStamp
<1>2. CallTypes' /\ ReaderTypes'
  BY DEF TypeOK, CallTypes, ReaderTypes, ExitStamp, Go, At, reader
<1> QED
  BY <1>1, <1>2 DEF TypeOK

-----------------------------------------------------------------------------
(* The steps of the reader *)

LEMMA ReadTypes == ASSUME TypeOK, ReadBegin \/ ReadStep PROVE TypeOK'
<1>1. CASE ReadBegin
  BY <1>1, PoolFacts DEF ReadBegin, TypeOK, PoolTypes, CallTypes, ReaderTypes, Index, Pool
<1>2. CASE ReadHead
  BY <1>2 DEF ReadHead, TypeOK, PoolTypes, CallTypes, ReaderTypes
<1>3. CASE ReadSample
  <2>1. at \in Pool
    BY <1>3 DEF ReadSample, ChainEnds, TypeOK, ReaderTypes, Index
  <2> QED
    BY <1>3, <2>1 DEF ReadSample, TypeOK, PoolTypes, CallTypes, ReaderTypes
<1>4. CASE Reset
  <2>1. Blank \in [fn : Addresses, ll : Index, exit : {"none", "own", "other", "stale"}]
    BY PoolFacts DEF Blank, Addresses, Index
  <2>2. Empty \in [Tracked -> Index]
    BY DEF Empty, Index
  <2>3. PoolTypes'
    BY <1>4, <2>1, <2>2 DEF Reset, TypeOK, PoolTypes
  <2> QED
    BY <1>4, <2>3 DEF Reset, TypeOK, CallTypes, ReaderTypes
<1>5. CASE Restart
  BY <1>5, PoolFacts DEF Restart, TypeOK, PoolTypes, CallTypes, ReaderTypes
<1> QED
  BY <1>1, <1>2, <1>3, <1>4, <1>5 DEF ReadStep

LEMMA TypesKept == TypeOK /\ [Next]_vars => TypeOK'
<1> SUFFICES ASSUME TypeOK, [Next]_vars PROVE TypeOK'
  OBVIOUS
<1>1. ASSUME NEW l \in Levels, CallStep(l) PROVE TypeOK'
  BY <1>1, TakeTypes, MarkTypes, StampTypes, LinkTypes, ChainTypes, ExitTypes, ExitTailTypes,
     ExitStampTypes DEF CallStep
<1>2. CASE UNCHANGED vars
  BY <1>2 DEF vars, TypeOK, PoolTypes, CallTypes, ReaderTypes
<1> QED
  BY <1>1, <1>2, EnterTypes, ReadTypes DEF Next, Work

-----------------------------------------------------------------------------
(* ReaderAlone *)

LEMMA AloneKept == TypeOK /\ ReaderAlone /\ [Next]_vars => ReaderAlone'
<1> SUFFICES ASSUME TypeOK, ReaderAlone, [Next]_vars PROVE ReaderAlone'
  OBVIOUS
<1> USE DEF ReaderAlone
<1>1. ASSUME NEW l \in Levels, Enter(l) PROVE ReaderAlone'
  BY <1>1 DEF Enter, reader, TypeOK, CallTypes
<1>2. ASSUME NEW l \in Levels, CallStep(l) PROVE ReaderAlone'
  <2>1. CASE Exit(l)
    BY <2>1 DEF Exit, Go, reader, TypeOK, CallTypes
  <2>2. CASE ~Exit(l)
    BY <1>2, <2>2 DEF CallStep, Take, Mark, Stamp, Link, Chain, ExitTail, ExitStamp, At, reader
  <2> QED
    BY <2>1, <2>2
<1>3. CASE ReadBegin
  <2>1. \A l \in Levels : call[l].pc = "idle"
    BY <1>3 DEF ReadBegin, At, Runs, Busy, Levels
  <2> QED
    BY <1>3, <2>1 DEF ReadBegin
<1>4. CASE ReadStep
  BY <1>4 DEF ReadStep, ReadHead, ReadSample, Reset, Restart, Reading
<1>5. CASE UNCHANGED vars
  BY <1>5 DEF vars
<1> QED
  BY <1>1, <1>2, <1>3, <1>4, <1>5 DEF Next, Work

\* No index leaves the pool: counter, chains and the locals of calls and reader keep their types.
THEOREM TypesAlways == Spec => []TypeOK
<1> QED
  BY InitTypes, TypesKept, PTL DEF Spec

(***************************************************************************)
(* prof_get_stats has the pool and the chains to itself until it has put   *)
(* next_sample back to 0.                                                  *)
(***************************************************************************)
THEOREM ReadAlone == Spec => []ReaderAlone
<1> QED
  BY InitTypes, TypesKept, AloneKept, PTL DEF Spec

-----------------------------------------------------------------------------
(***************************************************************************)
(* The chains.  A call appends its sample in two steps, and other calls    *)
(* come between: the link that a call is about to write counts as written. *)
(* That a chain is whole is stated without a path along it: a set of       *)
(* samples that holds the root of the chain and every successor of its     *)
(* members is the whole chain.                                             *)
(***************************************************************************)
Appending == {"stamp", "link", "chain"}

\* The samples that a call has taken and not yet made the tail of a chain.
Held(i) == \E l \in Levels : call[l].pc \in {"stamp", "link"} /\ call[l].idx = i
InChain(f) == {i \in Pool : pool[i].fn = f /\ ~Held(i)}

\* The chains with the links that calls are about to write.
Pending(l, i, j) == call[l].pc = "chain" /\ call[l].old = i /\ call[l].idx = j
Edge(i, j) == pool[i].ll = j \/ \E l \in Levels : Pending(l, i, j)
Root(f, j) == head[f] = j \/ \E l \in Levels : call[l].fn = f /\ Pending(l, Null, j)

\* A walk of the chain of f that has met the samples S has only a left to go to.
Walked(f, S, a) ==
    /\ \A j \in Pool : Root(f, j) => j \in S \cup {a}
    /\ \A i \in S, j \in Pool : Edge(i, j) => j \in S \cup {a}

\* A sample has one owner until it is in its chain, and is untouched until it is stamped.
Calling(l) ==
    /\ call[l].pc # "idle" => call[l].fn \in Calls[l]
    /\ call[l].pc \notin {"idle", "body"} => Node(call[l].fn) # {}
    /\ call[l].pc \in Appending /\ next_sample \in Pool => call[l].idx < next_sample
    /\ call[l].pc = "stamp" => pool[call[l].idx] = Blank
    /\ call[l].pc \in {"link", "chain"} => pool[call[l].idx].fn = call[l].fn
    /\ call[l].pc = "link" => pool[call[l].idx].ll = Null
    /\ call[l].pc = "exit" => pool[call[l].old].fn = call[l].fn
    /\ call[l].pc \in Appending =>
         \A m \in Levels \ {l} : call[m].pc \in Appending => call[m].idx # call[l].idx

\* The link a call is about to write replaces none, and two calls write different ones.
Appended(l) ==
    call[l].pc = "chain" =>
        /\ call[l].old = Null => head[call[l].fn] = Null
        /\ call[l].old # Null => call[l].old \in InChain(call[l].fn) /\ pool[call[l].old].ll = Null
        /\ \A m \in Levels \ {l} : call[m].pc = "chain" /\ call[m].fn = call[l].fn
                                      => call[m].old # call[l].old

\* A chain ends at its tail, stays in its function, and a complete walk meets all of it.
Chained(f) ==
    /\ tail[f] = Null => head[f] = Null /\ \A l \in Levels : call[l].pc = "chain" => call[l].fn # f
    /\ tail[f] # Null => tail[f] \in InChain(f) /\ \A j \in Pool : ~Edge(tail[f], j)
    /\ head[f] \in InChain(f) \cup {Null}
    /\ \A i \in InChain(f) : pool[i].ll \in InChain(f) \cup {Null}
    /\ \A S \in SUBSET InChain(f) : Walked(f, S, Null) => InChain(f) \subseteq S

\* What the reader has met, and what it relies on.
Reader(f) ==
    IF f \in todo THEN seen[f] = {}
    ELSE /\ seen[f] \subseteq InChain(f)
         /\ Walked(f, seen[f], IF f = cur THEN at ELSE Null)
         /\ f = cur => at \in InChain(f) \cup {Null}

ReaderInv ==
    /\ reading # "no" => call[1].pc = "idle"
    /\ reading = "walk" => /\ \A i \in Pool : i >= total => pool[i] = Blank
                           /\ \A f \in Tracked : Reader(f)
                           /\ at # Null => cur \in Tracked \ todo
    /\ reading = "reset" => pool = [i \in Pool |-> Blank] /\ head = Empty /\ tail = Empty

PoolInv ==
    /\ \A i \in Pool : pool[i].fn \in Tracked \cup {"none"}
    /\ next_sample \in Pool => \A i \in Pool : i >= next_sample => pool[i] = Blank

ChainInv == /\ PoolInv /\ ReaderInv
            /\ \A l \in Levels : Calling(l) /\ Appended(l)
            /\ \A f \in Tracked : Chained(f)

\* A function that only the command line calls.
Private(f) == f \in Calls[1] /\ \A l \in Levels \ {1} : f \notin Calls[l]

-----------------------------------------------------------------------------
(* Facts about chains *)

\* A sample of a chain has its function's name, so it is neither blank nor beyond the counter.
LEMMA ChainFacts ==
    ASSUME TypeOK, PoolInv, NEW f \in Tracked, NEW i \in InChain(f)
    PROVE  /\ i \in Pool /\ i \in Int /\ pool[i].fn = f /\ pool[i] # Blank /\ i # Null
           /\ next_sample \in Pool => i < next_sample
  <1>1. i \in Pool /\ pool[i].fn = f
    BY DEF InChain
  <1>2. i \in Int /\ i # Null
    BY <1>1, PoolFacts DEF Pool, Null
  <1>3. pool[i] # Blank
    BY <1>1, ProfilerAssumption DEF Blank
  <1>4. next_sample \in Pool => i < next_sample
    BY <1>1, <1>2, <1>3 DEF PoolInv, Pool
  <1> QED
    BY <1>1, <1>2, <1>3, <1>4

\* A node that is found is the function's own.
LEMMA NodeOwn == ASSUME TypeOK, NEW a, Node(a) # {} PROVE Node(a) = {a} /\ a \in Tracked
  <1>1. Node(a) \subseteq {a}
    BY DEF Node
  <1> QED
    BY <1>1, NodeTracked DEF TypeOK

(***************************************************************************)
(* A step that leaves the chains, and the links about to be written, alone.*)
(***************************************************************************)
LEMMA ChainFrame ==
    ASSUME TypeOK, ChainInv, UNCHANGED <<head, tail>>,
           \A f \in Tracked : InChain(f)' = InChain(f),
           \A f \in Tracked : \A i \in InChain(f) : pool'[i].ll = pool[i].ll,
           \A l \in Levels : /\ call'[l].pc = "chain" <=> call[l].pc = "chain"
                             /\ call[l].pc = "chain" => call'[l] = call[l]
    PROVE  /\ \A l \in Levels : call[l].fn \in Tracked => Appended(l)'
           /\ \A f \in Tracked : Chained(f)'
           /\ \A f \in Tracked : \A S, a : S \subseteq InChain(f) => (Walked(f, S, a)' <=> Walked(f, S, a))
  <1>1. ASSUME NEW f \in Tracked, NEW i \in InChain(f), NEW j \in Pool
        PROVE  Edge(i, j)' <=> Edge(i, j)
    BY <1>1 DEF Edge, Pending
  <1>2. ASSUME NEW f \in Tracked, NEW j \in Pool
        PROVE  Root(f, j)' <=> Root(f, j)
    BY <1>2 DEF Root, Pending
  <1>3. ASSUME NEW f \in Tracked, NEW S, NEW a, S \subseteq InChain(f)
        PROVE  Walked(f, S, a)' <=> Walked(f, S, a)
    BY <1>1, <1>2, <1>3 DEF Walked
  <1>4. ASSUME NEW l \in Levels, call[l].fn \in Tracked
        PROVE  Appended(l)'
    BY <1>4 DEF ChainInv, Appended
  <1>5. ASSUME NEW f \in Tracked
        PROVE  Chained(f)'
    <2>1. Chained(f)
      BY DEF ChainInv
    <2>2. tail' = tail /\ head' = head /\ InChain(f)' = InChain(f)
      OBVIOUS
    <2>3. tail[f] = Null => head[f] = Null /\ \A l \in Levels : call'[l].pc = "chain" => call'[l].fn # f
      BY <2>1 DEF Chained
    <2>4. tail[f] # Null => tail[f] \in InChain(f) /\ \A j \in Pool : ~Edge(tail[f], j)'
      BY <1>1, <2>1, <2>2 DEF Chained
    <2>5. \A i \in InChain(f) : pool'[i].ll \in InChain(f) \cup {Null}
      BY <2>1 DEF Chained
    <2>6. \A S \in SUBSET InChain(f) : Walked(f, S, Null)' => InChain(f) \subseteq S
      BY <1>3, <2>1 DEF Chained
    <2>7. head[f] \in InChain(f) \cup {Null}
      BY <2>1 DEF Chained
    <2> HIDE DEF InChain, Walked, Edge
    <2> QED
      BY <2>2, <2>3, <2>4, <2>5, <2>6, <2>7 DEF Chained
  <1> QED
    BY <1>3, <1>4, <1>5

-----------------------------------------------------------------------------
(* The steps of a call keep the chains *)

\* A call in the middle of the profiler's functions knows its node, and nobody is reading.
LEMMA CallFacts ==
    ASSUME TypeOK, ReaderAlone, ChainInv, NEW l \in Levels, call[l].pc \notin {"idle", "body"}
    PROVE  /\ reading = "no" /\ call[l].fn \in Tracked /\ call[l].fn \in Calls[l]
           /\ Node(call[l].fn) = {call[l].fn}
  <1>1. Calling(l)
    BY DEF ChainInv
  <1>2. Node(call[l].fn) # {} /\ call[l].fn \in Calls[l]
    BY <1>1 DEF Calling
  <1> QED
    BY <1>2, NodeOwn DEF ReaderAlone

\* While nobody reads, the reader's part of the invariant asks nothing.
LEMMA NoReader == ASSUME reading' = "no" PROVE ReaderInv'
  BY DEF ReaderInv

LEMMA EnterChain ==
    ASSUME TypeOK, ReaderAlone, ChainInv, NEW l \in Levels, Enter(l)
    PROVE  ChainInv'
  <1>1. PICK a \in Calls[l] :
          call' = [call EXCEPT ![l] =
                     [pc |-> IF Node(a) = {} \/ next_sample = Stop THEN "body" ELSE "take",
                      fn |-> a, idx |-> Null, old |-> Null]]
    BY DEF Enter
  <1>2. /\ call[l].pc = "idle" /\ call'[l].pc \in {"body", "take"} /\ call'[l].fn = a
        /\ call'[l].pc = "take" => Node(a) # {}
        /\ \A m \in Levels \ {l} : call'[m] = call[m]
    BY <1>1 DEF Enter, At, TypeOK, CallTypes
  <1>3. UNCHANGED <<next_sample, pool, head, tail, map, reader>>
    BY DEF Enter
  <1>4. \A i \in Pool : Held(i)' <=> Held(i)
    BY <1>2 DEF Held
  <1>5. \A f \in Tracked : InChain(f)' = InChain(f)
    BY <1>3, <1>4 DEF InChain
  <1>6. \A m \in Levels : /\ call'[m].pc = "chain" <=> call[m].pc = "chain"
                          /\ call[m].pc = "chain" => call'[m] = call[m]
    BY <1>2
  <1>7. /\ \A m \in Levels : call[m].fn \in Tracked => Appended(m)'
        /\ \A f \in Tracked : Chained(f)'
        /\ \A f \in Tracked : \A S, b : S \subseteq InChain(f) => (Walked(f, S, b)' <=> Walked(f, S, b))
    BY <1>3, <1>5, <1>6, ChainFrame
  <1>8. PoolInv'
    BY <1>3 DEF ChainInv, PoolInv
  <1>9. ReaderInv'
    <2>1. reading # "no" => call'[1].pc = "idle"
      BY <1>2 DEF Enter, Busy, ChainInv, ReaderInv, Levels
    <2>2. ASSUME NEW f \in Tracked, Reader(f) PROVE Reader(f)'
      BY <1>3, <1>5, <1>7, <2>2 DEF Reader, reader
    <2> QED
      BY <1>3, <2>1, <2>2 DEF ChainInv, ReaderInv, reader
  <1>10. ASSUME NEW m \in Levels PROVE Calling(m)'
    <2>1. Calling(m)
      BY DEF ChainInv
    <2>2. Node(a)' = Node(a) /\ \A n \in Levels \ {l} : Node(call[n].fn)' = Node(call[n].fn)
      BY <1>3 DEF Node
    <2>3. CASE m = l
      BY <1>1, <1>2, <2>2, <2>3 DEF Calling, Appending
    <2>4. CASE m # l
      BY <1>2, <1>3, <2>1, <2>2, <2>4 DEF Calling, Appending
    <2> QED
      BY <2>3, <2>4
  <1>11. ASSUME NEW m \in Levels PROVE Appended(m)'
    BY <1>2, <1>7, CallFacts, <1>6 DEF Appended
  <1> QED
    BY <1>7, <1>8, <1>9, <1>10, <1>11 DEF ChainInv

LEMMA TakeChain ==
    ASSUME TypeOK, ReaderAlone, ChainInv, ~restarted', NEW l \in Levels, Take(l)
    PROVE  ChainInv'
  <1> DEFINE n == next_sample
  <1>1. /\ n # Stop /\ next_sample' = Counted(n) /\ call[l].pc = "take" /\ reading' = "no"
        /\ UNCHANGED <<pool, head, tail, map>>
        /\ call' = IF n \in Pool THEN [call EXCEPT ![l].pc = "stamp", ![l].idx = n]
                   ELSE [call EXCEPT ![l].pc = IF n = MaxSamples THEN "mark" ELSE "body"]
    BY CallFacts DEF Take, At, reader
  <1>2. /\ call'[l].fn = call[l].fn
        /\ n \in Pool => call'[l].pc = "stamp" /\ call'[l].idx = n
        /\ n \notin Pool => call'[l].pc \in {"mark", "body"}
        /\ \A m \in Levels \ {l} : call'[m] = call[m]
    BY <1>1 DEF TypeOK, CallTypes
  <1>3. n \in Int /\ (next_sample' \in Pool => n \in Pool /\ next_sample' = n + 1)
    BY <1>1, PoolFacts DEF Counted, TypeOK, PoolTypes, Stop
  <1>4. n \in Pool => pool[n] = Blank
    BY <1>3 DEF ChainInv, PoolInv
  <1>5. ASSUME NEW f \in Tracked PROVE InChain(f)' = InChain(f)
    <2>1. ASSUME NEW i \in Pool, pool[i].fn = f PROVE Held(i)' <=> Held(i)
      <3>1. n \in Pool => i # n
        BY <1>4, <2>1, ProfilerAssumption DEF Blank
      <3> QED
        BY <1>1, <1>2, <3>1 DEF Held
    <2> QED
      BY <1>1, <2>1 DEF InChain
  <1>6. \A m \in Levels : /\ call'[m].pc = "chain" <=> call[m].pc = "chain"
                          /\ call[m].pc = "chain" => call'[m] = call[m]
    BY <1>1, <1>2
  <1>7. /\ \A m \in Levels : call[m].fn \in Tracked => Appended(m)'
        /\ \A f \in Tracked : Chained(f)'
    BY <1>1, <1>5, <1>6, ChainFrame
  <1>8. PoolInv'
    BY <1>1, <1>3, PoolFacts DEF ChainInv, PoolInv, Pool
  <1>9. ASSUME NEW m \in Levels PROVE Calling(m)'
    <2>1. Calling(m) /\ Calling(l)
      BY DEF ChainInv
    <2>2. \A k \in Levels : Node(call[k].fn)' = Node(call[k].fn)
      BY <1>1, <1>2 DEF Node
    <2>3. ASSUME NEW k \in Levels, call[k].pc \in Appending, n \in Pool
          PROVE  call[k].idx < n /\ call[k].idx \in Int
      <3>1. Calling(k)
        BY DEF ChainInv
      <3> QED
        BY <2>3, <3>1 DEF Calling, Appending, TypeOK, CallTypes, Pool
    <2>4. CASE m = l
      <3>1. \A k \in Levels \ {l} : call'[k].pc \in Appending /\ n \in Pool => call'[k].idx # n
        BY <1>2, <1>3, <2>3
      <3>2. next_sample' \in Pool => n < next_sample'
        BY <1>3
      <3>3. call[l].fn \in Calls[l] /\ Node(call[l].fn) # {}
        BY <1>1, <2>1 DEF Calling
      <3> QED
        BY ZenonT(40), <1>1, <1>2, <1>4, <2>2, <2>4, <3>1, <3>2, <3>3 DEF Calling, Appending
    <2>5. CASE m # l
      <3>1. call'[m] = call[m] /\ (call[m].pc \in Appending /\ next_sample' \in Pool
                                    => call[m].idx < next_sample')
        BY <1>2, <1>3, <2>3, <2>5
      <3>2. \A k \in Levels \ {m} : call[m].pc \in Appending /\ call'[k].pc \in Appending
                                        => call'[k].idx # call[m].idx
        BY <1>2, <1>3, <2>1, <2>3, <2>5 DEF Calling, Appending
      <3> QED
        BY <1>1, <2>1, <2>2, <2>5, <3>1, <3>2 DEF Calling
    <2> QED
      BY <2>4, <2>5
  <1>10. ASSUME NEW m \in Levels PROVE Appended(m)'
    BY <1>2, <1>7, CallFacts, <1>6 DEF Appended
  <1> QED
    BY <1>1, <1>7, <1>8, <1>9, <1>10, NoReader DEF ChainInv

\* A step of a call outside the two steps that append: its place, and its old tail, change.
LEMMA PlaceChain ==
    ASSUME TypeOK, ReaderAlone, ChainInv, NEW l \in Levels,
           UNCHANGED <<pool, head, tail, map, reader>>,
           next_sample' = next_sample \/ next_sample' = Stop,
           call[l].pc \in {"mark", "body", "tail"}, call'[l].pc \in {"idle", "body", "tail", "exit"},
           call'[l].fn = call[l].fn, \A m \in Levels \ {l} : call'[m] = call[m],
           call'[l].pc \notin {"idle", "body"} => Node(call[l].fn) # {},
           call'[l].pc = "exit" => pool[call'[l].old].fn = call[l].fn
    PROVE  ChainInv'
  <1>1. ASSUME NEW f \in Tracked PROVE InChain(f)' = InChain(f)
    BY DEF InChain, Held
  <1>2. \A m \in Levels : /\ call'[m].pc = "chain" <=> call[m].pc = "chain"
                          /\ call[m].pc = "chain" => call'[m] = call[m]
    OBVIOUS
  <1>3. /\ \A m \in Levels : call[m].fn \in Tracked => Appended(m)'
        /\ \A f \in Tracked : Chained(f)'
        /\ \A f \in Tracked : \A S, b : S \subseteq InChain(f) => (Walked(f, S, b)' <=> Walked(f, S, b))
    BY <1>1, <1>2, ChainFrame
  <1>4. PoolInv'
    BY PoolFacts DEF ChainInv, PoolInv, Pool, Stop
  <1>5. ReaderInv'
    <2>1. reading # "no" => call'[1].pc = "idle"
      BY PoolFacts DEF ChainInv, ReaderInv, reader
    <2>2. ASSUME NEW f \in Tracked, Reader(f) PROVE Reader(f)'
      BY <1>1, <1>3, <2>2 DEF Reader, reader
    <2> QED
      BY <2>1, <2>2 DEF ChainInv, ReaderInv, reader
  <1>6. ASSUME NEW m \in Levels PROVE Calling(m)'
    <2>1. Calling(m) /\ Calling(l)
      BY DEF ChainInv
    <2>2. \A k \in Levels : Node(call[k].fn)' = Node(call[k].fn)
      BY DEF Node
    <2>3. next_sample' \in Pool => next_sample' = next_sample
      BY DEF Pool, Stop
    <2>4. CASE m = l
      BY <2>1, <2>2, <2>4 DEF Calling, Appending
    <2>5. CASE m # l
      BY <2>1, <2>2, <2>3, <2>5 DEF Calling, Appending
    <2> QED
      BY <2>4, <2>5
  <1>7. ASSUME NEW m \in Levels PROVE Appended(m)'
    BY <1>3, CallFacts, <1>2 DEF Appended
  <1> QED
    BY <1>3, <1>4, <1>5, <1>6, <1>7 DEF ChainInv

LEMMA MarkChain ==
    ASSUME TypeOK, ReaderAlone, ChainInv, NEW l \in Levels, Mark(l)
    PROVE  ChainInv'
  <1>1. /\ call[l].pc = "mark" /\ call'[l].pc = "body" /\ call'[l].fn = call[l].fn
        /\ \A m \in Levels \ {l} : call'[m] = call[m]
    BY DEF Mark, At, Go, TypeOK, CallTypes
  <1> QED
    BY <1>1, PlaceChain DEF Mark

LEMMA ExitChain ==
    ASSUME TypeOK, ReaderAlone, ChainInv, NEW l \in Levels, Exit(l)
    PROVE  ChainInv'
  <1>1. /\ call[l].pc = "body" /\ call'[l].pc \in {"idle", "tail"} /\ call'[l].fn = call[l].fn
        /\ call'[l].pc = "tail" => Node(call[l].fn) # {}
        /\ \A m \in Levels \ {l} : call'[m] = call[m]
    BY DEF Exit, At, Go, TypeOK, CallTypes
  <1> QED
    BY <1>1, PlaceChain DEF Exit

LEMMA ExitTailChain ==
    ASSUME TypeOK, ReaderAlone, ChainInv, NEW l \in Levels, ExitTail(l)
    PROVE  ChainInv'
  <1>1. PICK f \in Node(call[l].fn) :
          call' = [call EXCEPT ![l].pc = IF tail[f] = Null THEN "idle" ELSE "exit", ![l].old = tail[f]]
    BY DEF ExitTail
  <1>2. /\ call[l].pc = "tail" /\ call'[l].pc \in {"idle", "exit"} /\ call'[l].fn = call[l].fn
        /\ call'[l].pc = "exit" => tail[f] # Null
        /\ call'[l].old = tail[f]
        /\ \A m \in Levels \ {l} : call'[m] = call[m]
    BY <1>1 DEF ExitTail, At, TypeOK, CallTypes
  <1>3. f = call[l].fn /\ f \in Tracked
    BY <1>2, CallFacts
  <1>4. tail[f] # Null => pool[tail[f]].fn = f
    BY <1>3 DEF ChainInv, Chained, InChain
  <1> QED
    BY <1>2, <1>3, <1>4, PlaceChain DEF ExitTail

LEMMA StampChain ==
    ASSUME TypeOK, ReaderAlone, ChainInv, NEW l \in Levels, Stamp(l)
    PROVE  ChainInv'
  <1> DEFINE i == call[l].idx
             r == [fn |-> call[l].fn, ll |-> Null,
                   exit |-> IF pool[i].exit = "none" THEN "none" ELSE "stale"]
  <1>1. /\ call[l].pc = "stamp" /\ reading' = "no" /\ i \in Pool
        /\ UNCHANGED <<next_sample, head, tail, map, reader>>
        /\ pool' = [pool EXCEPT ![i] = r]
        /\ call'[l].pc = "link" /\ call'[l].fn = call[l].fn /\ call'[l].idx = i
        /\ \A m \in Levels \ {l} : call'[m] = call[m]
    BY CallFacts DEF Stamp, At, Go, reader, TypeOK, CallTypes
  <1>2. /\ pool'[i].fn = call[l].fn /\ pool'[i].ll = Null
        /\ \A j \in Pool \ {i} : pool'[j] = pool[j]
    BY <1>1 DEF TypeOK, PoolTypes
  <1> HIDE DEF r
  <1>3. /\ call[l].fn \in Tracked /\ pool[i] = Blank /\ pool[i].fn \notin Tracked
        /\ next_sample \in Pool => i < next_sample
    BY <1>1, CallFacts, ProfilerAssumption DEF ChainInv, Calling, Appending, Blank
  <1>4. ASSUME NEW f \in Tracked PROVE InChain(f)' = InChain(f)
    <2>1. \A j \in Pool : Held(j)' <=> Held(j)
      BY <1>1 DEF Held
    <2>2. Held(i)
      BY <1>1 DEF Held
    <2> QED
      BY <1>2, <2>1, <2>2 DEF InChain
  <1>5. \A m \in Levels : /\ call'[m].pc = "chain" <=> call[m].pc = "chain"
                          /\ call[m].pc = "chain" => call'[m] = call[m]
    BY <1>1
  <1>6. \A f \in Tracked : \A j \in InChain(f) : pool'[j].ll = pool[j].ll
    BY <1>2, <1>3 DEF InChain
  <1>7. /\ \A m \in Levels : call[m].fn \in Tracked => Appended(m)'
        /\ \A f \in Tracked : Chained(f)'
    BY <1>1, <1>4, <1>5, <1>6, ChainFrame
  <1>8. PoolInv'
    BY <1>1, <1>2, <1>3 DEF ChainInv, PoolInv, Pool
  <1>9. ASSUME NEW m \in Levels PROVE Calling(m)'
    <2>1. Calling(m) /\ Calling(l)
      BY DEF ChainInv
    <2>2. \A k \in Levels : Node(call[k].fn)' = Node(call[k].fn)
      BY <1>1 DEF Node
    <2>3. CASE m = l
      BY <1>1, <1>2, <2>1, <2>2, <2>3 DEF Calling, Appending
    <2>4. CASE m # l
      <3>1. call[m].pc \in Appending => call[m].idx # i
        BY <1>1, <2>1, <2>4 DEF Calling, Appending
      <3>2. call[m].pc = "exit" => call[m].old # i
        BY <1>3, <2>1, CallFacts DEF Calling
      <3>3. /\ call[m].pc \in Appending => call[m].idx \in Pool
            /\ call[m].pc = "exit" => call[m].old \in Pool
        BY DEF TypeOK, CallTypes, Appending
      <3> QED
        BY <1>1, <1>2, <2>1, <2>2, <2>4, <3>1, <3>2, <3>3 DEF Calling, Appending
    <2> QED
      BY <2>3, <2>4
  <1>10. ASSUME NEW m \in Levels PROVE Appended(m)'
    BY <1>7, CallFacts, <1>5 DEF Appended
  <1> QED
    BY <1>1, <1>7, <1>8, <1>9, <1>10, NoReader DEF ChainInv

LEMMA ExitStampChain ==
    ASSUME TypeOK, ReaderAlone, ChainInv, NEW l \in Levels, ExitStamp(l)
    PROVE  ChainInv'
  <1> DEFINE i == call[l].old
             e == IF call[l].idx = i THEN "own" ELSE "other"
  <1>1. /\ call[l].pc = "exit" /\ reading' = "no" /\ i \in Pool
        /\ UNCHANGED <<next_sample, head, tail, map, reader>>
        /\ pool' = [pool EXCEPT ![i].exit = e]
        /\ call'[l].pc = "idle" /\ call'[l].fn = call[l].fn
        /\ \A m \in Levels \ {l} : call'[m] = call[m]
    BY CallFacts DEF ExitStamp, At, Go, reader, TypeOK, CallTypes
  <1> HIDE DEF e
  <1>2. /\ \A j \in Pool : pool'[j].fn = pool[j].fn /\ pool'[j].ll = pool[j].ll
        /\ \A j \in Pool \ {i} : pool'[j] = pool[j]
    BY <1>1 DEF TypeOK, PoolTypes
  <1>3. call[l].fn \in Tracked /\ pool[i].fn = call[l].fn /\ pool[i] # Blank
    BY <1>1, CallFacts, ProfilerAssumption DEF ChainInv, Calling, Blank
  <1>4. ASSUME NEW f \in Tracked PROVE InChain(f)' = InChain(f)
    BY <1>1, <1>2 DEF InChain, Held
  <1>5. \A m \in Levels : /\ call'[m].pc = "chain" <=> call[m].pc = "chain"
                          /\ call[m].pc = "chain" => call'[m] = call[m]
    BY <1>1
  <1>6. /\ \A m \in Levels : call[m].fn \in Tracked => Appended(m)'
        /\ \A f \in Tracked : Chained(f)'
    <2>1. \A f \in Tracked : \A j \in InChain(f) : pool'[j].ll = pool[j].ll
      BY <1>2 DEF InChain
    <2> QED
      BY <1>1, <1>4, <1>5, <2>1, ChainFrame
  <1>7. PoolInv'
    BY <1>1, <1>2, <1>3 DEF ChainInv, PoolInv
  <1>8. ASSUME NEW m \in Levels PROVE Calling(m)'
    <2>1. Calling(m) /\ Calling(l)
      BY DEF ChainInv
    <2>2. \A k \in Levels : Node(call[k].fn)' = Node(call[k].fn)
      BY <1>1 DEF Node
    <2>3. CASE m = l
      BY <1>1, <2>1, <2>2, <2>3 DEF Calling, Appending
    <2>4. CASE m # l
      <3>1. call[m].pc = "stamp" => call[m].idx # i
        BY <1>3, <2>1 DEF Calling
      <3>2. /\ call[m].pc \in Appending => call[m].idx \in Pool
            /\ call[m].pc = "exit" => call[m].old \in Pool
        BY DEF TypeOK, CallTypes, Appending
      <3> QED
        BY <1>1, <1>2, <2>1, <2>2, <2>4, <3>1, <3>2 DEF Calling, Appending
    <2> QED
      BY <2>3, <2>4
  <1>9. ASSUME NEW m \in Levels PROVE Appended(m)'
    BY <1>6, CallFacts, <1>5 DEF Appended
  <1> QED
    BY <1>1, <1>6, <1>7, <1>8, <1>9, NoReader DEF ChainInv

LEMMA LinkChain ==
    ASSUME TypeOK, ReaderAlone, ChainInv, NEW l \in Levels, Link(l)
    PROVE  ChainInv'
  <1>1. PICK i \in Pool, f \in Tracked, old \in Index :
        /\ call[l].idx = i /\ call[l].fn = f /\ tail[f] = old
        /\ call[l].pc = "link" /\ reading' = "no"
        /\ UNCHANGED <<next_sample, pool, head, map>>
        /\ tail' = [tail EXCEPT ![f] = i]
        /\ call' = [call EXCEPT ![l].pc = "chain", ![l].old = old]
    <2>1. call[l].pc = "link"
      BY DEF Link, At
    <2>2. reading = "no" /\ call[l].fn \in Tracked /\ Node(call[l].fn) = {call[l].fn}
      BY <2>1, CallFacts
    <2>3. call[l].idx \in Pool
      BY <2>1 DEF TypeOK, CallTypes
    <2>4. tail[call[l].fn] \in Index
      BY <2>2 DEF TypeOK, PoolTypes
    <2> QED
      BY <2>1, <2>2, <2>3, <2>4 DEF Link, reader
  <1>2. /\ call'[l].pc = "chain" /\ call'[l].fn = f /\ call'[l].idx = i /\ call'[l].old = old
        /\ \A m \in Levels \ {l} : call'[m] = call[m]
        /\ tail'[f] = i /\ \A g \in Tracked \ {f} : tail'[g] = tail[g]
    BY <1>1 DEF TypeOK, CallTypes, PoolTypes
  <1>3. /\ pool[i].fn = f /\ pool[i].ll = Null /\ Held(i) /\ ~Held(i)'
        /\ \A m \in Levels \ {l} : call[m].pc \in Appending => call[m].idx # i
        /\ i # Null
    <2>1. Calling(l)
      BY DEF ChainInv
    <2>2. pool[i].fn = f /\ pool[i].ll = Null /\ Held(i)
      BY <1>1, <2>1 DEF Calling, Held
    <2>3. \A m \in Levels \ {l} : call[m].pc \in Appending => call[m].idx # i
      BY <1>1, <2>1 DEF Calling, Appending
    <2>4. ~Held(i)'
      BY <1>2, <2>3 DEF Held, Appending
    <2>5. i # Null
      BY PoolFacts DEF Pool, Null
    <2> QED
      BY <2>2, <2>3, <2>4, <2>5
  <1>4. /\ InChain(f)' = InChain(f) \cup {i} /\ i \notin InChain(f)
        /\ \A g \in Tracked \ {f} : InChain(g)' = InChain(g) /\ i \notin InChain(g)
    <2>1. \A j \in Pool \ {i} : Held(j)' <=> Held(j)
      BY <1>1, <1>2 DEF Held
    <2> QED
      BY <1>1, <1>3, <2>1 DEF InChain
  <1>5. Chained(f) /\ old \in InChain(f) \cup {Null}
    BY <1>1 DEF ChainInv, Chained
  <1>6. /\ \A m \in Levels : Calling(m) /\ Appended(m)
        /\ \A g \in Tracked : Chained(g) /\ i \notin InChain(g)
    BY <1>4 DEF ChainInv
  <1>7. ASSUME NEW k \in Pool, NEW j \in Pool
        PROVE  Edge(k, j)' <=> Edge(k, j) \/ (k = old /\ j = i)
    <2>1. \A m \in Levels \ {l} : Pending(m, k, j)' <=> Pending(m, k, j)
      BY <1>2 DEF Pending
    <2>2. ~Pending(l, k, j) /\ (Pending(l, k, j)' <=> old = k /\ i = j)
      BY <1>1, <1>2 DEF Pending
    <2> QED
      BY <1>1, <2>1, <2>2 DEF Edge
  <1>8. ASSUME NEW g \in Tracked, NEW j \in Pool
        PROVE  Root(g, j)' <=> Root(g, j) \/ (g = f /\ old = Null /\ j = i)
    <2>1. \A m \in Levels \ {l} : Pending(m, Null, j)' <=> Pending(m, Null, j)
      BY <1>2 DEF Pending
    <2>2. ~Pending(l, Null, j) /\ (Pending(l, Null, j)' <=> old = Null /\ i = j)
      BY <1>1, <1>2 DEF Pending
    <2>3. head'[g] = head[g] /\ call'[l].fn = f /\ \A m \in Levels \ {l} : call'[m].fn = call[m].fn
      BY <1>1, <1>2
    <2>4. Root(g, j) <=> head[g] = j \/ \E m \in Levels \ {l} : call[m].fn = g /\ Pending(m, Null, j)
      BY <2>2 DEF Root, Pending
    <2>5. Root(g, j)' <=> \/ head'[g] = j
                          \/ call'[l].fn = g /\ Pending(l, Null, j)'
                          \/ \E m \in Levels \ {l} : call'[m].fn = g /\ Pending(m, Null, j)'
      BY DEF Root, Pending
    <2> QED
      BY <2>1, <2>2, <2>3, <2>4, <2>5
  \* Nothing leads to the new sample but the new link, and it leads nowhere.
  <1>9. \A j \in Pool : ~Edge(i, j)
    <2>1. ASSUME NEW m \in Levels, NEW j, Pending(m, i, j) PROVE FALSE
      <3>1. call[m].pc = "chain" /\ call[m].old = i
        BY <2>1 DEF Pending
      <3>2. call[m].fn \in Tracked /\ call[m].old \in InChain(call[m].fn)
        BY <1>3, <1>6, <3>1, CallFacts DEF Appended
      <3> QED
        BY <1>6, <3>1, <3>2
    <2> QED
      BY <1>3, <2>1, PoolFacts DEF Edge, Pool, Null
  <1>10. \A g \in Tracked : ~Root(g, i) /\ \A k \in InChain(g) : ~Edge(k, i)
    <2>1. \A m \in Levels : \A k : ~Pending(m, k, i)
      BY <1>1, <1>3 DEF Pending, Appending
    <2> QED
      BY <1>3, <1>6, <2>1 DEF Root, Edge, Chained
  <1>11. Chained(f)'
    <2>1. ASSUME NEW S \in SUBSET (InChain(f) \cup {i}), Walked(f, S, Null)'
          PROVE  InChain(f) \cup {i} \subseteq S
      <3> DEFINE T == S \ {i}
      <3>1. T \in SUBSET InChain(f) /\ \A k \in T : k \in Pool
        BY DEF InChain
      <3>2. \A j \in Pool : Root(f, j) => j \in T \cup {Null}
        BY <1>1, <1>8, <1>10, <2>1 DEF Walked
      <3>3. \A k \in T, j \in Pool : Edge(k, j) => j \in T \cup {Null}
        BY <1>7, <1>10, <2>1, <3>1 DEF Walked
      <3>4. InChain(f) \subseteq T
        BY <1>5, <3>1, <3>2, <3>3 DEF Chained, Walked
      <3>5. i \in S
        <4>1. CASE old = Null
          BY <1>1, <1>3, <1>8, <2>1, <4>1 DEF Walked
        <4>2. CASE old # Null
          <5>1. old \in S /\ old \in Pool
            BY <1>5, <3>4, <4>2, <3>1
          <5> QED
            BY <1>1, <1>3, <1>7, <2>1, <5>1 DEF Walked
        <4> QED
          BY <4>1, <4>2
      <3> QED
        BY <3>4, <3>5
    <2>2. \A j \in Pool : ~Edge(i, j)'
      BY <1>1, <1>4, <1>5, <1>7, <1>9, <1>3
    <2>3. head'[f] \in InChain(f)' \cup {Null}
      BY <1>1, <1>4, <1>5 DEF Chained
    <2>4. \A k \in InChain(f)' : pool'[k].ll \in InChain(f)' \cup {Null}
      BY <1>1, <1>3, <1>4, <1>5 DEF Chained
    <2>5. tail'[f] = i /\ i # Null /\ i \in InChain(f)'
      BY <1>2, <1>3, <1>4
    <2>6. \A S \in SUBSET InChain(f)' : Walked(f, S, Null)' => InChain(f)' \subseteq S
      BY <1>4, <2>1
    <2> QED
      BY <2>2, <2>3, <2>4, <2>5, <2>6 DEF Chained
  <1>12. ASSUME NEW g \in Tracked \ {f} PROVE Chained(g)'
    <2>1. /\ Chained(g) /\ InChain(g)' = InChain(g) /\ tail'[g] = tail[g] /\ head'[g] = head[g]
          /\ old \notin InChain(g) /\ \A k \in InChain(g) : k \in Pool
      BY <1>1, <1>2, <1>4, <1>5, <1>6, PoolFacts DEF InChain, Pool, Null
    <2>2. ASSUME NEW S \in SUBSET InChain(g) PROVE Walked(g, S, Null)' <=> Walked(g, S, Null)
      BY <1>7, <1>8, <2>1 DEF Walked
    <2>3. \A S \in SUBSET InChain(g)' : Walked(g, S, Null)' => InChain(g)' \subseteq S
      BY <2>1, <2>2 DEF Chained
    <2>4. tail[g] # Null => tail[g] \in InChain(g) /\ \A j \in Pool : ~Edge(tail[g], j)'
      BY <1>7, <2>1 DEF Chained
    <2>5. tail[g] = Null => head[g] = Null /\ \A m \in Levels : call'[m].pc = "chain" => call'[m].fn # g
      BY <1>2, <2>1 DEF Chained
    <2>6. \A k \in InChain(g)' : pool'[k].ll \in InChain(g)' \cup {Null}
      BY <1>1, <2>1 DEF Chained
    <2>7. head'[g] \in InChain(g)' \cup {Null}
      BY <2>1 DEF Chained
    <2> QED
      BY <2>1, <2>3, <2>4, <2>5, <2>6, <2>7 DEF Chained
  <1>13. ASSUME NEW m \in Levels PROVE Calling(m)'
    <2>1. Calling(m) /\ Calling(l)
      BY DEF ChainInv
    <2>2. \A k \in Levels : Node(call[k].fn)' = Node(call[k].fn)
      BY <1>1, <1>2 DEF Node
    <2>3. \A k \in Levels : /\ call'[k].fn = call[k].fn /\ call'[k].idx = call[k].idx
                            /\ call'[k].pc \in Appending <=> call[k].pc \in Appending
      BY <1>1, <1>2 DEF Appending
    <2>4. CASE m = l
      <3>1. /\ call'[l].pc = "chain" /\ call[l].pc = "link" /\ call'[l].fn \in Calls[l]
            /\ Node(call[l].fn)' # {} /\ pool'[call'[l].idx].fn = call'[l].fn
        BY <1>1, <1>2, <1>3, <2>1, <2>2, <2>3 DEF Calling
      <3>2. next_sample' \in Pool => call'[l].idx < next_sample'
        BY <1>1, <2>1, <2>3 DEF Calling, Appending
      <3>3. \A k \in Levels \ {l} : call'[k].pc \in Appending => call'[k].idx # call'[l].idx
        BY <1>1, <1>3, <2>3
      <3> QED
        BY <2>4, <3>1, <3>2, <3>3 DEF Calling
    <2>5. CASE m # l
      BY ZenonT(40), <1>1, <1>2, <2>1, <2>2, <2>3, <2>5 DEF Calling
    <2> QED
      BY <2>4, <2>5
  <1>14. ASSUME NEW m \in Levels PROVE Appended(m)'
    <2>1. ASSUME NEW k \in Levels \ {l}, call[k].pc = "chain", call[k].fn = f
          PROVE  call[k].old # old
      <3>1. old # Null
        BY <1>1, <1>5, <2>1 DEF Chained
      <3>2. call[k].idx \in Pool
        BY <2>1 DEF TypeOK, CallTypes
      <3>3. ~Edge(old, call[k].idx)
        BY <1>1, <1>5, <3>1, <3>2 DEF Chained
      <3> QED
        BY <2>1, <3>3 DEF Edge, Pending
    <2>2. CASE m = l
      <3>1. old = Null => head[f] = Null
        BY <1>1, <1>5 DEF Chained
      <3>2. old # Null => old \in InChain(f) /\ pool[old].ll = Null
        BY <1>1, <1>5 DEF Chained, Edge, InChain
      <3> QED
        <4>1. call'[l].old = old /\ call'[l].fn = f /\ head' = head /\ pool' = pool
          BY <1>1, <1>2
        <4>2. old # Null => old \in InChain(f)'
          BY <1>4, <3>2
        <4>3. \A k \in Levels \ {l} : call'[k].pc = "chain" /\ call'[k].fn = f => call'[k].old # old
          BY <1>2, <2>1
        <4> QED
          BY <2>2, <3>1, <3>2, <4>1, <4>2, <4>3 DEF Appended
    <2>3. CASE m # l
      <3>1. Appended(m) /\ call'[m] = call[m]
        BY <1>2, <1>6, <2>3
      <3>2. call[m].pc = "chain" => InChain(call[m].fn) \subseteq InChain(call[m].fn)'
        <4>1. call[m].pc = "chain" => call[m].fn \in Tracked
          BY CallFacts
        <4>2. call'[m].fn = call[m].fn
          BY <1>2, <2>3
        <4>3. \A g \in Tracked : InChain(g) \subseteq InChain(g)'
          BY <1>4
        <4> QED
          BY <4>1, <4>2, <4>3
      <3> QED
        <4>1. head' = head /\ pool' = pool
          BY <1>1
        <4>2. call[m].pc = "chain" => \A k \in Levels \ {m} : call'[k].pc = "chain" /\ call'[k].fn = call[m].fn
                                                       => call'[k].old # call[m].old
          BY <1>2, <2>1, <2>3, <3>1 DEF Appended
        <4>3. call[m].pc = "chain" /\ call[m].old # Null => call'[m].old \in InChain(call[m].fn)'
          BY <3>1, <3>2 DEF Appended
        <4> QED
          BY <3>1, <4>1, <4>2, <4>3 DEF Appended
    <2> QED
      BY <2>2, <2>3
  <1>15. PoolInv'
    BY <1>1 DEF ChainInv, PoolInv
  <1> QED
    BY <1>1, <1>11, <1>12, <1>13, <1>14, <1>15, NoReader DEF ChainInv

LEMMA ChainChain ==
    ASSUME TypeOK, ReaderAlone, ChainInv, NEW l \in Levels, Chain(l)
    PROVE  ChainInv'
  <1>1. PICK i \in Pool, f \in Tracked, old \in Index :
        /\ call[l].idx = i /\ call[l].fn = f /\ call[l].old = old /\ call[l].pc = "chain"
        /\ reading' = "no" /\ UNCHANGED <<next_sample, tail, map>>
        /\ call' = [call EXCEPT ![l].pc = "body"]
        /\ IF old = Null THEN head' = [head EXCEPT ![f] = i] /\ pool' = pool
                         ELSE pool' = [pool EXCEPT ![old].ll = i] /\ head' = head
    <2>1. call[l].pc = "chain"
      BY DEF Chain, At
    <2>2. reading = "no" /\ call[l].fn \in Tracked /\ Node(call[l].fn) = {call[l].fn}
      BY <2>1, CallFacts
    <2>3. call[l].idx \in Pool /\ call[l].old \in Index
      BY <2>1 DEF TypeOK, CallTypes
    <2> QED
      BY <2>1, <2>2, <2>3 DEF Chain, Go, reader
  <1>2. /\ call'[l].pc = "body" /\ \A m \in Levels \ {l} : call'[m] = call[m]
        /\ \A m \in Levels : /\ call'[m].fn = call[m].fn /\ call'[m].idx = call[m].idx
                            /\ call'[m].old = call[m].old
        /\ old = Null => head'[f] = i /\ \A g \in Tracked \ {f} : head'[g] = head[g]
        /\ old # Null => old \in Pool /\ pool'[old].ll = i
        /\ \A k \in Pool : k # old => pool'[k] = pool[k]
        /\ \A k \in Pool : pool'[k].fn = pool[k].fn
    <2>1. call'[l].pc = "body" /\ \A m \in Levels \ {l} : call'[m] = call[m]
      BY <1>1 DEF TypeOK, CallTypes
    <2>2. \A m \in Levels : /\ call'[m].fn = call[m].fn /\ call'[m].idx = call[m].idx
                            /\ call'[m].old = call[m].old
      BY <1>1 DEF TypeOK, CallTypes
    <2>3. CASE old = Null
      <3>1. old \notin Pool
        BY <2>3, PoolFacts DEF Pool, Null
      <3> QED
        BY <1>1, <2>1, <2>2, <2>3, <3>1 DEF TypeOK, PoolTypes
    <2>4. CASE old # Null
      BY <1>1, <2>1, <2>2, <2>4 DEF TypeOK, PoolTypes, Index
    <2> QED
      BY <2>3, <2>4
  <1>3. /\ \A m \in Levels : Calling(m) /\ Appended(m)
        /\ \A g \in Tracked : Chained(g)
    BY DEF ChainInv
  <1>4. /\ old = Null => head[f] = Null
        /\ old # Null => old \in InChain(f) /\ pool[old].ll = Null
        /\ \A m \in Levels \ {l} : call[m].pc = "chain" /\ call[m].fn = f => call[m].old # old
    BY <1>1, <1>3 DEF Appended
  <1>5. ASSUME NEW g \in Tracked PROVE InChain(g)' = InChain(g)
    BY <1>1, <1>2 DEF InChain, Held
  <1>6. i \in InChain(f)
    <2>1. pool[i].fn = f /\ \A m \in Levels \ {l} : call[m].pc \in Appending => call[m].idx # i
      BY <1>1, <1>3 DEF Calling, Appending
    <2> QED
      BY <1>1, <2>1 DEF InChain, Held, Appending
  \* The link that was about to be written is written: the chains are the same.
  <1>7. ASSUME NEW k \in Pool, NEW j \in Pool
        PROVE  Edge(k, j)' <=> Edge(k, j)
    <2>1. \A m \in Levels \ {l} : Pending(m, k, j)' <=> Pending(m, k, j)
      BY <1>2 DEF Pending
    <2>2. ~Pending(l, k, j)' /\ (Pending(l, k, j) <=> k = old /\ j = i)
      BY <1>1, <1>2 DEF Pending
    <2>3. pool'[k].ll = j <=> pool[k].ll = j \/ (k = old /\ j = i)
      BY <1>2, <1>4, PoolFacts DEF Pool, Null
    <2> QED
      BY <2>1, <2>2, <2>3 DEF Edge, Pending
  <1>8. ASSUME NEW g \in Tracked, NEW j \in Pool
        PROVE  Root(g, j)' <=> Root(g, j)
    <2>1. \A m \in Levels \ {l} : Pending(m, Null, j)' <=> Pending(m, Null, j)
      BY <1>2 DEF Pending
    <2>2. ~Pending(l, Null, j)' /\ (Pending(l, Null, j) <=> old = Null /\ j = i)
      BY <1>1, <1>2 DEF Pending
    <2>3. head'[g] = j <=> head[g] = j \/ (g = f /\ old = Null /\ j = i)
      BY <1>1, <1>2, <1>4, PoolFacts DEF Pool, Null
    <2> QED
      BY <1>1, <1>2, <2>1, <2>2, <2>3 DEF Root, Pending
  <1>9. ASSUME NEW g \in Tracked PROVE Chained(g)'
    <2>1. Chained(g) /\ InChain(g)' = InChain(g) /\ tail' = tail /\ \A k \in InChain(g) : k \in Pool
      BY <1>1, <1>3, <1>5 DEF InChain
    <2>2. ASSUME NEW S \in SUBSET InChain(g) PROVE Walked(g, S, Null)' <=> Walked(g, S, Null)
      BY <1>7, <1>8, <2>1 DEF Walked
    <2>3. \A S \in SUBSET InChain(g)' : Walked(g, S, Null)' => InChain(g)' \subseteq S
      BY <2>1, <2>2 DEF Chained
    <2>4. tail[g] # Null => tail[g] \in InChain(g) /\ \A j \in Pool : ~Edge(tail[g], j)'
      BY <1>7, <2>1 DEF Chained
    <2>5. tail[g] = Null => head'[g] = Null /\ \A m \in Levels : call'[m].pc = "chain" => call'[m].fn # g
      BY <1>1, <1>2, <2>1 DEF Chained
    <2>6. ASSUME NEW k \in InChain(g) PROVE pool'[k].ll \in InChain(g) \cup {Null}
      <3>1. CASE k = old
        <4>1. old # Null /\ old \in InChain(f)
          BY <1>4, <2>1, <3>1, PoolFacts DEF Pool, Null
        <4>2. g = f
          BY <3>1, <4>1 DEF InChain
        <4> QED
          BY <1>2, <1>6, <3>1, <4>1, <4>2
      <3>2. CASE k # old
        BY <1>2, <2>1, <3>2 DEF Chained
      <3> QED
        BY <3>1, <3>2
    <2>7. head'[g] \in InChain(g) \cup {Null}
      BY <1>1, <1>2, <1>6, <2>1 DEF Chained
    <2> QED
      BY <2>1, <2>3, <2>4, <2>5, <2>6, <2>7 DEF Chained
  <1>10. ASSUME NEW m \in Levels PROVE Calling(m)'
    <2>1. Calling(m)
      BY <1>3
    <2>2. \A k \in Levels : Node(call[k].fn)' = Node(call[k].fn)
      BY <1>1, <1>2 DEF Node
    <2>3. CASE m = l
      BY <1>1, <1>2, <2>1, <2>2, <2>3 DEF Calling, Appending
    <2>4. CASE m # l
      <3>1. call[m].pc \in {"stamp", "link"} => call[m].idx # old
        <4>1. old # Null => ~Held(old) /\ pool[old].fn = f
          BY <1>4 DEF InChain
        <4>2. call[m].pc \in {"stamp", "link"} => call[m].idx \in Pool /\ Held(call[m].idx)
          BY DEF TypeOK, CallTypes, Held
        <4> QED
          BY <4>1, <4>2, PoolFacts DEF Pool, Null
      <3>2. /\ call[m].pc \in Appending => call[m].idx \in Pool
            /\ call[m].pc = "exit" => call[m].old \in Pool
        BY DEF TypeOK, CallTypes, Appending
      <3> QED
        BY <1>1, <1>2, <2>1, <2>2, <2>4, <3>1, <3>2 DEF Calling, Appending
    <2> QED
      BY <2>3, <2>4
  <1>11. ASSUME NEW m \in Levels, call'[m].pc = "chain" PROVE Appended(m)'
    <2>1. m # l /\ call'[m] = call[m] /\ Appended(m) /\ call[m].fn \in Tracked
      BY <1>2, <1>3, <1>11, CallFacts
    <2>2. call[m].old = Null => head'[call[m].fn] = Null
      BY <1>1, <1>2, <1>4, <1>11, <2>1 DEF Appended
    <2>3. call[m].old # Null => call[m].old \in InChain(call[m].fn) /\ call[m].old # old
      BY <1>4, <1>11, <2>1 DEF Appended, InChain
    <2>4. call[m].old # Null => pool'[call[m].old].ll = Null
      BY <1>2, <1>11, <2>1, <2>3 DEF Appended, InChain
    <2>5. call[m].old # Null => call'[m].old \in InChain(call[m].fn)'
      <3>1. \A g \in Tracked : InChain(g)' = InChain(g)
        BY <1>5
      <3> QED
        BY <1>2, <2>1, <2>3, <3>1
    <2>6. \A k \in Levels \ {m} : call'[k].pc = "chain" /\ call'[k].fn = call[m].fn
                                    => call'[k].old # call[m].old
      BY <1>2, <1>11, <2>1 DEF Appended
    <2> QED
      BY <2>1, <2>2, <2>4, <2>5, <2>6 DEF Appended
  <1>12. PoolInv'
    <2>1. old # Null /\ next_sample \in Pool => old < next_sample
      BY <1>4, ChainFacts DEF ChainInv
    <2>2. \A k \in Pool : next_sample \in Pool /\ k >= next_sample => pool'[k] = pool[k]
      BY <1>1, <1>2, <2>1 DEF Pool, Null
    <2> QED
      BY <1>1, <1>2, <2>2 DEF ChainInv, PoolInv
  <1>13. \A m \in Levels : Appended(m)'
    BY <1>11 DEF Appended
  <1> QED
    BY <1>1, <1>9, <1>10, <1>12, <1>13, NoReader DEF ChainInv

-----------------------------------------------------------------------------
(* The chains, and the steps of the reader *)

\* While the reader reads, no sample is held and no link is about to be written.
LEMMA Still ==
    ASSUME \A l \in Levels : call[l].pc \in {"idle", "body"}
    PROVE  /\ \A i : ~Held(i)
           /\ \A f : InChain(f) = {i \in Pool : pool[i].fn = f}
           /\ \A i, j : Edge(i, j) <=> pool[i].ll = j
           /\ \A f, j : Root(f, j) <=> head[f] = j
           /\ \A l \in Levels : Appended(l)
  <1>1. \A i : ~Held(i)
    BY DEF Held
  <1>2. \A i, j : \A l \in Levels : ~Pending(l, i, j)
    BY DEF Pending
  <1> QED
    BY <1>1, <1>2 DEF InChain, Edge, Root, Appended

\* A place in a chain is below the samples that the reader counted.
LEMMA ReadPlace ==
    ASSUME TypeOK, ReaderAlone, ChainInv, reading = "walk"
    PROVE  /\ \A f \in Tracked : \A i \in InChain(f) : i < total /\ i \in Pool
           /\ at # Null => cur \in Tracked \ todo /\ at \in InChain(cur)
           /\ ChainEnds <=> at = Null
  <1>1. ASSUME NEW f \in Tracked, NEW i \in InChain(f) PROVE i < total /\ i \in Pool
    <2>1. i \in Pool /\ pool[i] # Blank
      BY ChainFacts DEF ChainInv
    <2> QED
      BY <2>1 DEF ChainInv, ReaderInv, TypeOK, ReaderTypes, Pool
  <1>2. at # Null => cur \in Tracked \ todo /\ at \in InChain(cur)
    BY DEF ChainInv, ReaderInv, Reader
  <1>3. at # Null => at < total
    BY <1>1, <1>2
  <1> QED
    BY <1>1, <1>2, <1>3 DEF ChainEnds, TypeOK, ReaderTypes, Pool

\* A step of the reader that leaves the samples and the chains alone.
LEMMA ReadFrame ==
    ASSUME TypeOK, ReaderAlone, ChainInv, UNCHANGED <<pool, head, tail, map, call>>,
           next_sample' \in Pool => \A i \in Pool : i >= next_sample' => pool[i] = Blank,
           \A l \in Levels : call[l].pc \in {"idle", "body"}, ReaderInv'
    PROVE  ChainInv'
  <1>1. \A f \in Tracked : InChain(f)' = InChain(f)
    BY DEF InChain, Held
  <1>2. \A f \in Tracked : Chained(f)'
    BY <1>1, ChainFrame
  <1>3. \A l \in Levels : Appended(l)'
    BY DEF Appended
  <1>4. ASSUME NEW l \in Levels PROVE Calling(l)'
    <2>1. \A k \in Levels : Node(call[k].fn)' = Node(call[k].fn)
      BY DEF Node
    <2> QED
      BY <2>1 DEF ChainInv, Calling, Appending
  <1>5. PoolInv'
    BY DEF ChainInv, PoolInv
  <1> QED
    BY <1>2, <1>3, <1>4, <1>5 DEF ChainInv

LEMMA ReadBeginChain ==
    ASSUME TypeOK, ReaderAlone, ChainInv, ReadBegin
    PROVE  ChainInv'
  <1>1. \A l \in Levels : call[l].pc = "idle"
    BY DEF ReadBegin, At, Runs, Busy, Levels
  <1>2. /\ UNCHANGED <<pool, head, tail, map, call, cur>> /\ next_sample' = Stop /\ Stop \notin Pool
        /\ reading' \in {"no", "walk"} /\ todo' = Tracked /\ at' = Null
        /\ seen' = [f \in Tracked |-> {}]
    BY PoolFacts DEF ReadBegin, Pool, Stop
  <1>3. \A i \in Pool : i >= total' => pool[i] = Blank
    <2>1. CASE next_sample \in Pool
      BY <2>1 DEF ReadBegin, ChainInv, PoolInv
    <2>2. CASE next_sample \notin Pool
      BY <2>2, PoolFacts DEF ReadBegin, Pool
    <2> QED
      BY <2>1, <2>2
  <1>4. \A f \in Tracked : Reader(f)'
    BY <1>2 DEF Reader
  <1>5. ReaderInv'
    BY <1>1, <1>2, <1>3, <1>4, PoolFacts DEF ReaderInv
  <1> QED
    BY <1>1, <1>2, <1>5, ReadFrame

LEMMA ReadHeadChain ==
    ASSUME TypeOK, ReaderAlone, ChainInv, ReadHead
    PROVE  ChainInv'
  <1>1. /\ reading = "walk" /\ at = Null
        /\ UNCHANGED <<next_sample, pool, head, tail, map, call, reading, total, seen>>
        /\ \A l \in Levels : call[l].pc \in {"idle", "body"}
    BY ReadPlace DEF ReadHead, Reading, ReaderAlone
  <1>2. PICK f \in todo : cur' = f /\ todo' = todo \ {f} /\ at' = head[f]
    BY DEF ReadHead
  <1>3. f \in Tracked /\ seen[f] = {}
    BY <1>1, <1>2 DEF TypeOK, ReaderTypes, ChainInv, ReaderInv, Reader
  <1>4. \A g \in Tracked : Chained(g) /\ Reader(g) /\ InChain(g)' = InChain(g)
    BY <1>1 DEF ChainInv, ReaderInv, InChain, Held
  <1>5. /\ \A g \in Tracked : \A S, a : Walked(g, S, a)' <=> Walked(g, S, a)
        /\ Walked(f, {}, head[f])
    BY <1>1, Still DEF Walked, Edge, Root, Pending
  <1>6. ASSUME NEW g \in Tracked PROVE Reader(g)'
    <2>1. CASE g \in todo'
      BY <1>1, <1>2, <1>4, <2>1 DEF Reader
    <2>2. CASE g = f
      <3>1. Walked(f, seen[f], head[f])' /\ head[f] \in InChain(f) \cup {Null}
        BY <1>3, <1>4, <1>5, <1>1 DEF Chained
      <3> QED
        BY <1>1, <1>2, <1>3, <1>4, <2>2, <3>1 DEF Reader
    <2>3. CASE g \notin todo' /\ g # f
      <3>1. g \notin todo /\ Walked(g, seen[g], Null) /\ seen[g] \subseteq InChain(g)
        BY <1>1, <1>2, <1>4, <2>3 DEF Reader
      <3>2. Walked(g, seen[g], Null)'
        BY <1>1, <1>5, <3>1
      <3> QED
        BY <1>1, <1>2, <1>4, <2>3, <3>1, <3>2 DEF Reader
    <2> QED
      BY <2>1, <2>2, <2>3
  <1>7. ReaderInv'
    BY <1>1, <1>2, <1>3, <1>6 DEF ChainInv, ReaderInv
  <1>8. next_sample' \in Pool => \A i \in Pool : i >= next_sample' => pool[i] = Blank
    BY <1>1 DEF ChainInv, PoolInv
  <1> QED
    BY <1>1, <1>7, <1>8, ReadFrame

LEMMA ReadSampleChain ==
    ASSUME TypeOK, ReaderAlone, ChainInv, ReadSample
    PROVE  ChainInv'
  <1>1. /\ reading = "walk" /\ at # Null /\ at' = pool[at].ll
        /\ seen' = [seen EXCEPT ![cur] = @ \cup {at}]
        /\ UNCHANGED <<next_sample, pool, head, tail, map, call, reading, total, todo, cur>>
        /\ \A l \in Levels : call[l].pc \in {"idle", "body"}
    BY DEF ReadSample, Reading, ReaderAlone, ChainEnds
  <1>2. cur \in Tracked /\ cur \notin todo /\ at \in InChain(cur) /\ at \in Pool
    BY <1>1, ReadPlace
  <1>3. \A g \in Tracked : Chained(g) /\ Reader(g) /\ InChain(g)' = InChain(g)
    BY <1>1 DEF ChainInv, ReaderInv, InChain, Held
  <1>4. at' \in InChain(cur) \cup {Null}
    BY <1>1, <1>2, <1>3 DEF Chained
  <1>5. seen'[cur] = seen[cur] \cup {at} /\ \A g \in Tracked \ {cur} : seen'[g] = seen[g]
    BY <1>1, <1>2 DEF TypeOK, ReaderTypes
  <1>6. \A g \in Tracked : \A S, a : Walked(g, S, a)' <=> Walked(g, S, a)
    BY <1>1 DEF Walked, Edge, Root, Pending
  <1>7. ASSUME NEW g \in Tracked PROVE Reader(g)'
    <2>1. CASE g = cur
      <3>1. seen[g] \subseteq InChain(g) /\ Walked(g, seen[g], at)
        BY <1>2, <1>3, <2>1 DEF Reader
      <3>2. PICK S, a : S = seen'[g] /\ a = at' /\ S = seen[g] \cup {at} /\ a = pool[at].ll
        BY <1>1, <1>5, <2>1
      <3>3. Walked(g, S, a)'
        <4>1. Walked(g, S, a)
          BY <1>1, <3>1, <3>2, Still DEF Walked
        <4> QED
          BY <1>6, <4>1
      <3> QED
        BY <1>1, <1>2, <1>3, <1>4, <2>1, <3>1, <3>2, <3>3 DEF Reader
    <2>2. CASE g # cur
      <3>1. Reader(g) /\ seen'[g] = seen[g]
        BY <1>3, <1>5, <2>2
      <3>2. g \notin todo => Walked(g, seen[g], Null)'
        BY <1>6, <2>2, <3>1 DEF Reader
      <3> QED
        BY <1>1, <1>3, <2>2, <3>1, <3>2 DEF Reader
    <2> QED
      BY <2>1, <2>2
  <1>8. ReaderInv'
    BY <1>1, <1>2, <1>7 DEF ChainInv, ReaderInv
  <1>9. next_sample' \in Pool => \A i \in Pool : i >= next_sample' => pool[i] = Blank
    BY <1>1 DEF ChainInv, PoolInv
  <1> QED
    BY <1>1, <1>8, <1>9, ReadFrame

LEMMA ResetChain ==
    ASSUME TypeOK, ReaderAlone, ChainInv, Reset
    PROVE  ChainInv'
  <1>1. /\ reading = "walk" /\ reading' = "reset" /\ next_sample = Stop /\ Stop \notin Pool
        /\ head' = Empty /\ tail' = Empty
        /\ UNCHANGED <<next_sample, map, call>>
        /\ \A l \in Levels : call[l].pc \in {"idle", "body"}
    BY PoolFacts DEF Reset, Reading, ReaderAlone, Pool, Stop
  <1>2. pool' = [i \in Pool |-> Blank]
    <2>1. pool' = [i \in Pool |-> IF i \in Dirty(total) THEN Blank ELSE pool[i]]
      BY <1>1 DEF Reset
    <2>2. ASSUME NEW i \in Pool, i \notin Dirty(total) PROVE pool[i] = Blank
      <3>1. i >= total
        BY <2>2, PoolFacts DEF Dirty, Pool, TypeOK, ReaderTypes
      <3> QED
        BY <1>1, <3>1 DEF ChainInv, ReaderInv
    <2> QED
      BY <2>1, <2>2
  <1>3. \A i \in Pool : pool'[i] = Blank /\ pool'[i].fn = "none"
    BY <1>2 DEF Blank
  <1>4. \A f \in Tracked : Chained(f)'
    <2>1. ASSUME NEW f \in Tracked PROVE InChain(f)' = {}
      BY <1>3, ProfilerAssumption DEF InChain
    <2>2. ASSUME NEW f \in Tracked PROVE tail'[f] = Null /\ head'[f] = Null
      BY <1>1 DEF Empty
    <2> QED
      BY <1>1, <2>1, <2>2 DEF Chained
  <1>5. \A l \in Levels : Appended(l)'
    BY <1>1 DEF Appended
  <1>6. ASSUME NEW l \in Levels PROVE Calling(l)'
    <2>1. \A k \in Levels : Node(call[k].fn)' = Node(call[k].fn)
      BY <1>1 DEF Node
    <2> QED
      BY <1>1, <2>1 DEF ChainInv, Calling, Appending
  <1>7. PoolInv'
    BY <1>1, <1>3 DEF PoolInv
  <1>8. ReaderInv'
    BY <1>1, <1>2 DEF ChainInv, ReaderInv
  <1> QED
    BY <1>4, <1>5, <1>6, <1>7, <1>8 DEF ChainInv

LEMMA RestartChain ==
    ASSUME TypeOK, ReaderAlone, ChainInv, Restart
    PROVE  ChainInv'
  <1>1. /\ reading = "reset" /\ reading' = "no" /\ next_sample' = 0
        /\ UNCHANGED <<pool, head, tail, map, call>>
        /\ \A l \in Levels : call[l].pc \in {"idle", "body"}
    BY DEF Restart, Reading, ReaderAlone
  <1>2. \A i \in Pool : pool[i] = Blank
    BY <1>1 DEF ChainInv, ReaderInv
  <1> QED
    BY <1>1, <1>2, NoReader, ReadFrame

LEMMA ChainKept == TypeOK /\ ReaderAlone /\ ChainInv /\ [Next]_vars /\ ~restarted' => ChainInv'
<1> SUFFICES ASSUME TypeOK, ReaderAlone, ChainInv, [Next]_vars, ~restarted' PROVE ChainInv'
  OBVIOUS
<1>1. ASSUME NEW l \in Levels, CallStep(l) PROVE ChainInv'
  BY <1>1, TakeChain, MarkChain, StampChain, LinkChain, ChainChain, ExitChain, ExitTailChain,
     ExitStampChain DEF CallStep
<1>2. CASE ReadStep
  BY <1>2, ReadHeadChain, ReadSampleChain, ResetChain, RestartChain DEF ReadStep
<1>3. CASE UNCHANGED vars
  BY <1>3 DEF vars, ChainInv, PoolInv, ReaderInv, Reader, Calling, Appended, Chained, Walked, Edge,
              Root, Pending, InChain, Held, Node
<1> QED
  BY <1>1, <1>2, <1>3, EnterChain, ReadBeginChain DEF Next, Work

-----------------------------------------------------------------------------
(* The exits *)

\* The last sample of a function is the one that its only caller has under way.
OwnTail ==
    LET c == call[1]
    IN  Private(c.fn) /\ Node(c.fn) # {} =>
          /\ c.pc \in {"chain", "body", "tail", "exit"} /\ c.idx # Null => tail[c.fn] = c.idx
          /\ c.pc \in {"take", "mark"} => c.idx = Null
          /\ c.pc = "body" /\ c.idx = Null => next_sample = Stop
          /\ c.pc \in {"tail", "exit"} => c.idx # Null
          /\ c.pc = "exit" => c.old = c.idx

OwnMark == next_sample > MaxSamples => \E l \in Levels : call[l].pc = "mark"
OwnExits == \A i \in Pool : Private(pool[i].fn) => pool[i].exit \in {"none", "own"}

OwnInv == OwnMark /\ OwnTail /\ OwnExits

LEMMA MarkKept ==
    ASSUME TypeOK, OwnMark, [Next]_vars
    PROVE  OwnMark'
  <1> USE DEF OwnMark
  <1>1. ASSUME NEW l \in Levels, Enter(l) PROVE OwnMark'
    BY <1>1 DEF Enter, At, TypeOK, CallTypes
  <1>2. ASSUME NEW l \in Levels, Take(l) PROVE OwnMark'
    <2>1. CASE next_sample = MaxSamples
      BY <1>2, <2>1, PoolFacts DEF Take, At, Pool, TypeOK, CallTypes
    <2>2. CASE next_sample # MaxSamples
      <3>1. next_sample' > MaxSamples => next_sample > MaxSamples
        BY <1>2, <2>2, PoolFacts DEF Take, Counted, TypeOK, PoolTypes, Stop
      <3>2. \A m \in Levels : call[m].pc = "mark" => call'[m].pc = "mark"
        BY <1>2 DEF Take, At, TypeOK, CallTypes
      <3> QED
        BY <3>1, <3>2
    <2> QED
      BY <2>1, <2>2
  <1>3. ASSUME NEW l \in Levels, Mark(l) PROVE OwnMark'
    BY <1>3, PoolFacts DEF Mark, Stop
  <1>4. ASSUME NEW l \in Levels, CallStep(l), ~Take(l), ~Mark(l) PROVE OwnMark'
    <2>1. next_sample' = next_sample
      BY <1>4 DEF CallStep, Stamp, Link, Chain, Exit, ExitTail, ExitStamp
    <2>2. \A m \in Levels : call[m].pc = "mark" => call'[m] = call[m]
      BY <1>4 DEF CallStep, Stamp, Link, Chain, Exit, ExitTail, ExitStamp, At, Go, TypeOK, CallTypes
    <2> QED
      BY <2>1, <2>2
  <1>5. CASE ReadBegin
    BY <1>5, PoolFacts DEF ReadBegin, Stop
  <1>6. CASE ReadStep
    BY <1>6, PoolFacts DEF ReadStep, ReadHead, ReadSample, Reset, Restart
  <1>7. CASE UNCHANGED vars
    BY <1>7 DEF vars
  <1> QED
    BY <1>1, <1>2, <1>3, <1>4, <1>5, <1>6, <1>7 DEF Next, Work

LEMMA TailKept ==
    ASSUME TypeOK, ReaderAlone, ChainInv, OwnMark, OwnTail, [Next]_vars, ~restarted'
    PROVE  OwnTail'
  <1> DEFINE c == call[1]
  <1>1. map' = map /\ (\A a : Node(a)' = Node(a)) /\ (\A f : Private(f)' <=> Private(f))
    <2>1. map' = map
      BY DEF Next, Work, ReadStep, CallStep, Enter, Take, Mark, Stamp, Link, Chain, Exit, ExitTail,
             ExitStamp, ReadBegin, ReadHead, ReadSample, Reset, Restart, vars
    <2> QED
      BY <2>1 DEF Node, Private
  \* A step of another level, or of the reader, leaves the call and the end of its chain alone.
  <1>2. ASSUME call'[1] = c, Private(c.fn), Node(c.fn) # {}, c.pc \notin {"idle"} => tail'[c.fn] = tail[c.fn],
               c.pc = "body" /\ next_sample = Stop => next_sample' = Stop
        PROVE  OwnTail'
    BY <1>1, <1>2 DEF OwnTail
  <1>3. ASSUME ~(Private(c.fn) /\ Node(c.fn) # {}), call'[1].fn = c.fn
        PROVE  OwnTail'
    BY <1>1, <1>3 DEF OwnTail
  <1>4. ASSUME NEW l \in Levels \ {1}, Enter(l) \/ CallStep(l) PROVE OwnTail'
    <2>1. call'[1] = c
      BY <1>4, PoolFacts DEF CallStep, Enter, Take, Mark, Stamp, Link, Chain, Exit, ExitTail, ExitStamp,
            Go, TypeOK, CallTypes
    <2>2. ASSUME Private(c.fn), Node(c.fn) # {} PROVE tail'[c.fn] = tail[c.fn]
      <3>1. CASE Link(l)
        <4>1. call[l].fn \in Calls[l] /\ Node(call[l].fn) = {call[l].fn} /\ call[l].fn \in Tracked
          BY <3>1, CallFacts DEF Link, At
        <4>2. call[l].fn # c.fn /\ c.fn \in Tracked
          BY <2>2, <4>1, NodeOwn DEF Private
        <4> QED
          BY <3>1, <4>1, <4>2 DEF Link, TypeOK, PoolTypes
      <3>2. CASE ~Link(l)
        BY <1>4, <3>2 DEF CallStep, Enter, Take, Mark, Stamp, Chain, Exit, ExitTail, ExitStamp
      <3> QED
        BY <3>1, <3>2
    <2>3. next_sample = Stop => next_sample' = Stop
      BY <1>4 DEF CallStep, Enter, Take, Mark, Stamp, Link, Chain, Exit, ExitTail, ExitStamp
    <2> QED
      BY <1>2, <1>3, <2>1, <2>2, <2>3
  <1>5. CASE ReadBegin \/ ReadStep
    <2>1. c.pc = "idle" /\ call' = call
      BY <1>5, PoolFacts DEF ChainInv, ReaderInv, ReadBegin, ReadStep, ReadHead, ReadSample, Reset, Restart,
            Reading, At
    <2> QED
      BY <1>2, <1>3, <2>1
  <1>6. CASE Enter(1)
    <2>1. PICK a \in Calls[1] :
            call' = [call EXCEPT ![1] =
                       [pc |-> IF Node(a) = {} \/ next_sample = Stop THEN "body" ELSE "take",
                        fn |-> a, idx |-> Null, old |-> Null]]
      BY <1>6 DEF Enter
    <2>2. /\ call'[1].fn = a /\ call'[1].idx = Null /\ next_sample' = next_sample
          /\ call'[1].pc = "take" \/ (call'[1].pc = "body" /\ (Node(a) = {} \/ next_sample = Stop))
      BY <1>6, <2>1, PoolFacts DEF Enter, TypeOK, CallTypes
    <2> QED
      BY <1>1, <2>2 DEF OwnTail
  <1>7. CASE CallStep(1)
    <2>1. call'[1].fn = c.fn
      <3>1. CASE Take(1)
        BY <3>1, PoolFacts DEF Take, TypeOK, CallTypes
      <3>2. CASE Link(1) \/ ExitTail(1)
        <4>1. \E place, o : call' = [call EXCEPT ![1].pc = place, ![1].old = o]
          BY <3>2 DEF Link, ExitTail
        <4> QED
          BY <4>1, PoolFacts DEF TypeOK, CallTypes
      <3>3. CASE Mark(1) \/ Stamp(1) \/ Chain(1) \/ Exit(1) \/ ExitStamp(1)
        <4>1. \E place : Go(1, place)
          BY <3>3 DEF Mark, Stamp, Chain, Exit, ExitStamp
        <4> QED
          BY <4>1, PoolFacts DEF Go, TypeOK, CallTypes
      <3> QED
        BY <1>7, <3>1, <3>2, <3>3 DEF CallStep
    <2> SUFFICES ASSUME Private(c.fn), Node(c.fn) # {} PROVE OwnTail'
      BY <1>3, <2>1
    <2>2. PICK f \in Tracked : c.fn = f /\ Node(f) = {f}
      BY NodeOwn
    <2>3. c.pc = "body" /\ c.idx = Null => next_sample = Stop
      BY DEF OwnTail
    <2>4. CASE Take(1)
      <3>1. next_sample <= MaxSamples
        <4>1. c.pc = "take" /\ \A h \in Levels : h > 1 => call[h].pc = "idle"
          BY <2>4 DEF Take, At, Runs, Busy
        <4>2. \A h \in Levels : call[h].pc # "mark"
          BY <4>1 DEF Levels
        <4> QED
          BY <4>2, PoolFacts DEF OwnMark, TypeOK, PoolTypes, Stop
      <3>2. next_sample \in Pool \cup {MaxSamples}
        <4>1. next_sample # Stop
          BY <2>4 DEF Take
        <4> QED
          BY <3>1, <4>1, PoolFacts DEF TypeOK, PoolTypes, Pool
      <3>3. call'[1].pc = "stamp" \/ (call'[1].pc = "mark" /\ call'[1].idx = c.idx /\ c.pc = "take")
        BY <2>4, <3>2, PoolFacts DEF Take, At, TypeOK, CallTypes
      <3> QED
        BY <2>1, <3>3 DEF OwnTail
    <2>5. CASE Mark(1)
      <3>1. call'[1].pc = "body" /\ next_sample' = Stop /\ tail' = tail
        BY <2>5, PoolFacts DEF Mark, Go, TypeOK, CallTypes
      <3>2. c.pc = "mark" /\ call'[1].idx = c.idx
        BY <2>5, PoolFacts DEF Mark, At, Go, TypeOK, CallTypes
      <3> QED
        BY <3>1, <3>2 DEF OwnTail
    <2>6. CASE Stamp(1)
      BY <2>6, PoolFacts DEF Stamp, Go, TypeOK, CallTypes, OwnTail
    <2>7. CASE Link(1)
      <3>1. call'[1].pc = "chain" /\ call'[1].idx = c.idx /\ tail'[f] = c.idx
        BY <2>2, <2>7, PoolFacts DEF Link, TypeOK, CallTypes, PoolTypes
      <3> QED
        BY <2>1, <2>2, <3>1 DEF OwnTail
    <2>8. CASE Chain(1)
      <3>1. c.pc = "chain" /\ call'[1].pc = "body" /\ call'[1].idx = c.idx /\ tail' = tail /\ c.idx # Null
        BY <2>8, PoolFacts DEF Chain, At, Go, TypeOK, CallTypes, Pool, Null
      <3> QED
        BY <2>1, <3>1 DEF OwnTail
    <2>9. CASE Exit(1)
      <3>1. /\ c.pc = "body" /\ call'[1].pc \in {"idle", "tail"} /\ call'[1].idx = c.idx /\ tail' = tail
            /\ call'[1].pc = "tail" => next_sample # Stop
        BY <2>2, <2>9, PoolFacts DEF Exit, At, Go, TypeOK, CallTypes
      <3> QED
        BY <2>1, <2>3, <3>1 DEF OwnTail
    <2>10. CASE ExitTail(1)
      <3>1. /\ c.pc = "tail" /\ call'[1].pc \in {"idle", "exit"} /\ call'[1].idx = c.idx /\ tail' = tail
            /\ call'[1].old = tail[f]
        BY <2>2, <2>10, PoolFacts DEF ExitTail, At, TypeOK, CallTypes
      <3> QED
        BY <2>1, <2>2, <3>1 DEF OwnTail
    <2>11. CASE ExitStamp(1)
      BY <2>11, PoolFacts DEF ExitStamp, Go, TypeOK, CallTypes, OwnTail
    <2> QED
      BY <1>7, <2>4, <2>5, <2>6, <2>7, <2>8, <2>9, <2>10, <2>11 DEF CallStep
  <1>8. CASE UNCHANGED vars
    BY <1>1, <1>8 DEF vars, OwnTail
  <1> QED
    BY <1>4, <1>5, <1>6, <1>7, <1>8 DEF Next, Work

LEMMA ExitsKept ==
    ASSUME TypeOK, ReaderAlone, ChainInv, OwnTail, OwnExits, [Next]_vars
    PROVE  OwnExits'
  <1> USE DEF OwnExits
  <1>1. ASSUME NEW l \in Levels, Stamp(l) PROVE OwnExits'
    <2> DEFINE i == call[l].idx
    <2>1. /\ i \in Pool /\ pool[i] = Blank
          /\ pool' = [pool EXCEPT ![i] = [fn |-> call[l].fn, ll |-> Null,
                         exit |-> IF pool[i].exit = "none" THEN "none" ELSE "stale"]]
      BY <1>1 DEF Stamp, At, TypeOK, CallTypes, ChainInv, Calling
    <2>2. pool[i].exit = "none"
      BY <2>1 DEF Blank
    <2> QED
      BY <2>1, <2>2 DEF TypeOK, PoolTypes
  <1>2. ASSUME NEW l \in Levels, Chain(l) PROVE OwnExits'
    <2>1. \A i \in Pool : pool'[i].fn = pool[i].fn /\ pool'[i].exit = pool[i].exit
      BY <1>2 DEF Chain, TypeOK, PoolTypes
    <2> QED
      BY <2>1
  <1>3. ASSUME NEW l \in Levels, ExitStamp(l) PROVE OwnExits'
    <2> DEFINE i == call[l].old
    <2>1. /\ call[l].pc = "exit" /\ i \in Pool /\ pool[i].fn = call[l].fn
          /\ call[l].fn \in Calls[l] /\ Node(call[l].fn) # {}
      BY <1>3 DEF ExitStamp, At, TypeOK, CallTypes, ChainInv, Calling
    <2>2. Private(pool[i].fn) => call[l].idx = i
      BY <2>1 DEF Private, OwnTail
    <2>3. /\ \A j \in Pool : pool'[j].fn = pool[j].fn
          /\ \A j \in Pool \ {i} : pool'[j] = pool[j]
          /\ call[l].idx = i => pool'[i].exit = "own"
      BY <1>3, <2>1 DEF ExitStamp, TypeOK, PoolTypes
    <2> QED
      BY <2>2, <2>3
  <1>4. CASE Reset
    BY <1>4 DEF Reset, Blank
  <1>5. CASE UNCHANGED pool
    BY <1>5
  <1> QED
    BY <1>1, <1>2, <1>3, <1>4, <1>5
       DEF Next, Work, ReadStep, CallStep, Enter, Take, Mark, Link, Exit, ExitTail, ReadBegin, ReadHead,
           ReadSample, Restart, vars

-----------------------------------------------------------------------------
(* The invariants of the chains and of the exits *)

\* As long as no interrupted call has erased the mark of a full pool.
MarkedInv == ~restarted => ChainInv /\ OwnInv

LEMMA InitMarked == Init => MarkedInv
<1> SUFFICES ASSUME Init PROVE ChainInv /\ OwnInv
  BY DEF MarkedInv
<1>1. TypeOK
  BY InitTypes
<1>2. /\ \A l \in Levels : call[l].pc = "idle"
      /\ \A i \in Pool : pool[i] = Blank /\ pool[i].fn = "none" /\ pool[i].exit = "none"
      /\ \A f \in Tracked : head[f] = Null /\ tail[f] = Null
      /\ reading = "no" /\ next_sample = 0
  BY DEF Init, Blank, Empty
<1>3. PoolInv /\ ReaderInv
  BY <1>2 DEF PoolInv, ReaderInv
<1>4. ASSUME NEW f \in Tracked PROVE Chained(f)
  <2>1. InChain(f) = {}
    BY <1>2, ProfilerAssumption DEF InChain
  <2> QED
    BY <1>2, <2>1 DEF Chained
<1>5. \A l \in Levels : Calling(l) /\ Appended(l)
  BY <1>2 DEF Calling, Appended, Appending
<1>6. OwnInv
  BY <1>2, PoolFacts DEF OwnInv, OwnMark, OwnTail, OwnExits
<1> QED
  BY <1>3, <1>4, <1>5, <1>6 DEF ChainInv

LEMMA MarkedKept == TypeOK /\ ReaderAlone /\ MarkedInv /\ [Next]_vars => MarkedInv'
<1> SUFFICES ASSUME TypeOK, ReaderAlone, MarkedInv, [Next]_vars, ~restarted' PROVE ChainInv' /\ OwnInv'
  BY DEF MarkedInv
<1>1. ~restarted
  BY DEF Next, Work, ReadStep, CallStep, Enter, Take, Mark, Stamp, Link, Chain, Exit, ExitTail,
         ExitStamp, ReadBegin, ReadHead, ReadSample, Reset, Restart, vars
<1> QED
  BY <1>1, ChainKept, MarkKept, TailKept, ExitsKept DEF MarkedInv, OwnInv

LEMMA MarkedAlways == Spec => [](TypeOK /\ ReaderAlone /\ MarkedInv)
<1> QED
  BY InitTypes, TypesKept, AloneKept, InitMarked, MarkedKept, PTL DEF Spec

(***************************************************************************)
(* When prof_get_stats has walked the chains, each had exactly the samples *)
(* of its function, for every interleaving of the calls.                   *)
(***************************************************************************)
THEOREM ChainsAlwaysExact == Spec => []ChainsExact
<1>1. ASSUME TypeOK, ReaderAlone, MarkedInv PROVE ChainsExact
  <2> SUFFICES ASSUME reading = "walk", ChainEnds, todo = {}, ~restarted
               PROVE  /\ \A f \in Tracked : seen[f] = Taken(f)
                      /\ \A i \in Pool : pool[i].fn \in Tracked \cup {"none"}
    BY DEF ChainsExact
  <2>1. ChainInv /\ at = Null
    BY <1>1, ReadPlace DEF MarkedInv
  <2>2. ASSUME NEW f \in Tracked PROVE seen[f] = Taken(f)
    <3>1. InChain(f) = Taken(f)
      <4>1. InChain(f) = {i \in Pool : pool[i].fn = f}
        BY <1>1, Still DEF ReaderAlone
      <4>2. \A i \in InChain(f) : i < total
        BY <1>1, <2>1, ReadPlace
      <4> QED
        BY <4>1, <4>2 DEF Taken
    <3>2. seen[f] \subseteq InChain(f) /\ Walked(f, seen[f], Null)
      BY <2>1 DEF ChainInv, ReaderInv, Reader
    <3>3. InChain(f) \subseteq seen[f]
      BY <2>1, <3>2 DEF ChainInv, Chained
    <3> QED
      BY <3>1, <3>2, <3>3
  <2> QED
    BY <2>1, <2>2 DEF ChainInv, PoolInv
<1> QED
  BY <1>1, MarkedAlways, PTL

\* The samples beyond next_sample are as memset left them, in every run of the profiler.
THEOREM PoolAlwaysClean == Spec => []PoolClean
<1>1. MarkedInv => PoolClean
  BY DEF MarkedInv, ChainInv, PoolInv, PoolClean
<1> QED
  BY <1>1, MarkedAlways, PTL

(***************************************************************************)
(* __cyg_profile_func_exit puts the exit time of a function that only the  *)
(* command line calls into the sample of that very call.                   *)
(***************************************************************************)
THEOREM ExitsOwn == Spec => []OwnExit
<1>1. MarkedInv => OwnExit
  BY DEF MarkedInv, OwnInv, OwnExits, Private, OwnExit
<1> QED
  BY <1>1, MarkedAlways, PTL
=============================================================================
