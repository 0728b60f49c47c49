--------------------------- MODULE EventLoopProofs --------------------------
(***************************************************************************)
(* EventLoop proved for every FIFO, every period of the timer and any      *)
(* number of characters and tests: no character and no request for a PCI   *)
(* test is lost, doubled or made up.                                       *)
(***************************************************************************)
EXTENDS EventLoop, SequenceTheorems, TLAPS

(***************************************************************************)
(* Storing a character makes the FIFO one longer; finding no room changes  *)
(* nothing.                                                                *)
(***************************************************************************)
LEMMA PutLength ==
    ASSUME queue \in Seq(Bytes), Len(queue) <= Capacity, NEW c \in Bytes
    PROVE  /\ Q!Put(c) => /\ queue' \in Seq(Bytes) /\ queue' # <<>>
                          /\ Len(queue') = Len(queue) + 1 /\ Len(queue') <= Capacity
           /\ Q!Reject => queue' = queue
  <1>1. ASSUME Q!Put(c)
        PROVE  /\ queue' \in Seq(Bytes) /\ queue' # <<>>
               /\ Len(queue') = Len(queue) + 1 /\ Len(queue') <= Capacity
    BY <1>1, AppendProperties, BoundAssumption DEF Q!Put
  <1> QED BY <1>1 DEF Q!Reject

(***************************************************************************)
(* Reading a FIFO that holds something makes it one shorter.               *)
(***************************************************************************)
LEMMA GetLength ==
    ASSUME queue \in Seq(Bytes), queue # <<>>, Len(queue) <= Capacity, Q!Get \/ Q!FindEmpty
    PROVE  /\ queue' \in Seq(Bytes)
           /\ Len(queue') = Len(queue) - 1 /\ Len(queue') <= Capacity
  <1>1. queue' = Tail(queue)
    BY DEF Q!Get, Q!FindEmpty
  <1> QED BY <1>1, HeadTailProperties, BoundAssumption

(***************************************************************************)
(* The initial state satisfies the inductive invariant.                    *)
(***************************************************************************)
LEMMA InitInv == Init => LoopInv
  <1> SUFFICES ASSUME Init PROVE LoopInv
    OBVIOUS
  <1>1. queue = <<>> /\ queue \in Seq(Bytes) /\ Len(queue) = 0
    BY EmptySeq DEF Init, Q!Init
  <1>2. seen = <<>> /\ seen \in Seq(SUBSET Events) /\ Len(seen) = 0
    BY EmptySeq DEF Init
  <1>3. Len(queue) <= Capacity /\ Len(seen) <= 1 /\ 0 \in 0 .. Period - 1 /\ 0 \in Nat
    BY <1>1, <1>2, BoundAssumption
  <1>t. TypeOK
    BY <1>1, <1>2, <1>3, Zenon DEF Init, TypeOK
  <1>4. TestsAccounted /\ CharsAccounted
    BY <1>1 DEF Init, TestsAccounted, CharsAccounted
  <1> QED BY <1>2, <1>t, <1>4 DEF Init, LoopInv

(***************************************************************************)
(* Every step of an interrupt handler or of main preserves the inductive   *)
(* invariant.                                                              *)
(***************************************************************************)
LEMMA StepInv == LoopInv /\ [Next]_vars => LoopInv'
  <1> SUFFICES ASSUME LoopInv, [Next]_vars PROVE LoopInv'
    OBVIOUS
  <1> USE DEF LoopInv, fifo, pci
  <1>1. ASSUME NEW c \in Bytes, UartIrq(c) PROVE LoopInv'
    <2>1. /\ queue' \in Seq(Bytes) /\ Len(queue') <= Capacity /\ typed' \in Nat
          /\ typed' = served' + Len(queue')
          /\ at' = "getchar" => queue' # <<>>
      BY <1>1, PutLength DEF UartIrq, Woken, TypeOK, CharsAccounted
    <2>2. TypeOK'
      BY <1>1, <2>1 DEF UartIrq, Woken, Events, TypeOK
    <2>3. TestsAccounted'
      BY <1>1 DEF UartIrq, Woken, TypeOK, TestsAccounted
    <2>4. CharsAccounted'
      BY <2>1 DEF CharsAccounted
    <2>5. at' \in {"pci", "ready", "getchar"} => "EVT_PCI_TEST" \notin event_notify'
      BY <1>1 DEF UartIrq, Woken
    <2>6. seen' # <<>> => ("EVT_PCI_TEST" \in seen'[1] <=> "EVT_PCI_TEST" \in event_notify')
      BY <1>1 DEF UartIrq
    <2> QED BY <2>1, <2>2, <2>3, <2>4, <2>5, <2>6
  <1>2. CASE SysTick
    <2>1. ticks' \in 0 .. Period - 1
      BY <1>2, BoundAssumption DEF SysTick, TypeOK
    <2>2. seen' \in Seq(SUBSET Events) /\ Len(seen') <= 1
      <3>1. CASE UNCHANGED seen
        BY <3>1 DEF TypeOK
      <3>2. CASE seen' = <<event_notify>>
        BY <3>2 DEF TypeOK
      <3> QED BY <1>2, <3>1, <3>2 DEF SysTick
    <2>3. TypeOK'
      BY <1>2, <2>1, <2>2 DEF SysTick, Woken, Events, TypeOK
    <2>4. TestsAccounted' /\ CharsAccounted'
      BY <1>2 DEF SysTick, Woken, TypeOK, TestsAccounted, CharsAccounted
    <2>5. /\ at' = "getchar" => queue' # <<>>
          /\ at' \in {"pci", "ready", "getchar"} => "EVT_PCI_TEST" \notin event_notify'
      BY <1>2 DEF SysTick, Woken
    <2>6. seen' # <<>> => ("EVT_PCI_TEST" \in seen'[1] <=> "EVT_PCI_TEST" \in event_notify')
      BY <1>2 DEF SysTick
    <2> QED BY <2>3, <2>4, <2>5, <2>6
  <1>3. CASE SysTickStore
    \* main asked for no PCI test since the load
    <2>1. seen[1] \in SUBSET Events /\ seen' \in Seq(SUBSET Events) /\ Len(seen') = 0
      BY <1>3, EmptySeq DEF SysTickStore, TypeOK
    <2>2. TypeOK'
      BY <1>3, <2>1 DEF SysTickStore, Events, TypeOK
    <2>3. TestsAccounted'
      BY <1>3 DEF SysTickStore, TypeOK, TestsAccounted
    <2>4. CharsAccounted'
      BY <1>3 DEF SysTickStore, CharsAccounted
    <2>5. /\ at' = "getchar" => queue' # <<>>
          /\ at' \in {"pci", "ready", "getchar"} => "EVT_PCI_TEST" \notin event_notify'
      BY <1>3 DEF SysTickStore
    <2> QED BY <1>3, <2>2, <2>3, <2>4, <2>5 DEF SysTickStore
  <1>4. CASE MsiIrq
    <2>1. TypeOK'
      BY <1>4 DEF MsiIrq, Woken, Events, TypeOK
    <2>2. TestsAccounted' /\ CharsAccounted'
      BY <1>4 DEF MsiIrq, Woken, TypeOK, TestsAccounted, CharsAccounted
    <2> QED BY <1>4, <2>1, <2>2 DEF MsiIrq, Woken
  <1>5. CASE TakeEvents
    <2>1. TypeOK'
      BY <1>5 DEF TakeEvents, Main, Events, TypeOK
    <2>2. TestsAccounted' /\ CharsAccounted'
      BY <1>5 DEF TakeEvents, Main, TypeOK, TestsAccounted, CharsAccounted
    <2> QED BY <1>5, <2>1, <2>2 DEF TakeEvents, Main
  <1>6. CASE ServePci
    <2>1. TypeOK'
      BY <1>6 DEF ServePci, Main, TypeOK
    <2>2. TestsAccounted' /\ CharsAccounted'
      BY <1>6 DEF ServePci, Main, TypeOK, TestsAccounted, CharsAccounted
    <2> QED BY <1>6, <2>1, <2>2 DEF ServePci, Main
  <1>7. CASE StdinReady
    <2>1. TypeOK'
      BY <1>7 DEF StdinReady, Main, TypeOK
    <2>2. TestsAccounted' /\ CharsAccounted'
      BY <1>7 DEF StdinReady, Main, TypeOK, TestsAccounted, CharsAccounted
    <2> QED BY <1>7, <2>1, <2>2 DEF StdinReady, Main
  <1>8. CASE GetChar
    <2>1. /\ queue' \in Seq(Bytes) /\ Len(queue') <= Capacity
          /\ Len(queue') = Len(queue) - 1
      BY <1>8, GetLength DEF GetChar, Main, TypeOK, CharsAccounted
    <2>2. TypeOK'
      <3>1. keep_running' \in BOOLEAN
        BY <1>8, Zenon DEF GetChar, TypeOK
      <3>2. served' \in Nat
        BY <1>8 DEF GetChar, TypeOK
      <3>3. /\ event_notify' \in {event_notify, event_notify \cup {"EVT_PCI_TEST"}}
            /\ asked' \in {asked, asked + 1}
        BY <1>8, Zenon DEF GetChar
      <3>4. event_notify' \subseteq Events /\ asked' \in Nat
        BY <3>3 DEF TypeOK, Events
      <3> QED BY <1>8, <2>1, <3>1, <3>2, <3>4, Zenon DEF GetChar, TypeOK
    <2>3. TestsAccounted'
      \* no request is pending: main took it before it ran the command line
      BY <1>8 DEF GetChar, Main, TypeOK, TestsAccounted
    <2>4. CharsAccounted'
      BY <1>8, <2>1 DEF GetChar, Main, TypeOK, CharsAccounted
    <2> QED BY <1>8, <2>2, <2>3, <2>4 DEF GetChar, Main
  <1>9. CASE MsiTest
    <2>1. TypeOK'
      <3>1. triggers' \in Nat
        BY <1>9 DEF MsiTest, TypeOK
      <3>2. device' \in BOOLEAN /\ open' \in BOOLEAN
        BY <1>9, Zenon DEF MsiTest, TypeOK
      <3> QED BY <1>9, <3>1, <3>2, Zenon DEF MsiTest, TypeOK
    <2>2. TestsAccounted' /\ CharsAccounted'
      BY <1>9 DEF MsiTest, Main, TypeOK, TestsAccounted, CharsAccounted
    <2> QED BY <1>9, <2>1, <2>2 DEF MsiTest, Main
  <1>10. CASE Idle
    <2>1. TypeOK'
      BY <1>10 DEF Idle, Main, TypeOK
    <2>2. TestsAccounted' /\ CharsAccounted'
      BY <1>10 DEF Idle, Main, TypeOK, TestsAccounted, CharsAccounted
    <2> QED BY <1>10, <2>1, <2>2 DEF Idle, Main
  <1>11. CASE UNCHANGED vars
    <2>1. TypeOK' /\ TestsAccounted' /\ CharsAccounted'
      BY <1>11, Zenon DEF vars, TypeOK, TestsAccounted, CharsAccounted
    <2> QED BY <1>11, <2>1, Zenon DEF vars
  <1> QED
    BY <1>1, <1>2, <1>3, <1>4, <1>5, <1>6, <1>7, <1>8, <1>9, <1>10, <1>11
    DEF Next, Handlers, MainStep

(***************************************************************************)
(* The inductive invariant, and with it the types, for every instance.     *)
(***************************************************************************)
THEOREM Inductive == Spec => []LoopInv
  BY InitInv, StepInv, PTL DEF Spec

(***************************************************************************)
(* Every PCI test asked for is run exactly once, and its MSI test follows. *)
(***************************************************************************)
THEOREM NoTestLost == Spec => []TestsAccounted
  <1>1. LoopInv => TestsAccounted
    BY DEF LoopInv
  <1> QED BY <1>1, Inductive, PTL

(***************************************************************************)
(* Every character stored is served or still waits, and no other is        *)
(* served.                                                                 *)
(***************************************************************************)
THEOREM NoCharLost == Spec => []CharsAccounted
  <1>1. LoopInv => CharsAccounted
    BY DEF LoopInv
  <1> QED BY <1>1, Inductive, PTL
=============================================================================
