---------------------------- MODULE CliTaskProofs ---------------------------
(***************************************************************************)
(* CliTask proved for every FIFO and every number of characters: the task  *)
(* never reads an empty FIFO.                                              *)
(***************************************************************************)
EXTENDS CliTask, SequenceTheorems, TLAPS

(***************************************************************************)
(* Storing a character, and finding no room for it, both leave characters  *)
(* in the FIFO: what a notification is given for.                          *)
(***************************************************************************)
LEMMA PutFills ==
    ASSUME queue \in Seq(Bytes), NEW c \in Bytes, Q!Put(c) \/ Q!Reject
    PROVE  queue' \in Seq(Bytes) /\ queue' # <<>>
  <1>1. CASE Q!Put(c)
    BY <1>1, AppendProperties DEF Q!Put
  <1>2. CASE Q!Reject
    BY <1>2, CliAssumption DEF Q!Reject
  <1> QED BY <1>1, <1>2

(***************************************************************************)
(* Every step of the handler or of the task preserves the inductive        *)
(* invariant.                                                              *)
(***************************************************************************)
LEMMA StepInv == CliInv /\ [Next]_vars => CliInv'
  <1> SUFFICES ASSUME CliInv, [Next]_vars PROVE CliInv'
    OBVIOUS
  <1> USE DEF CliInv, NeverReadsEmpty, fifo
  <1>1. ASSUME NEW c \in Bytes, UartIrq(c) PROVE CliInv'
    <2>1. Q!Put(c) \/ Q!Reject
      BY <1>1 DEF UartIrq
    <2>2. queue' \in Seq(Bytes) /\ queue' # <<>>
      BY <2>1, PutFills
    <2> QED BY <1>1, <2>2 DEF UartIrq
  <1>2. CASE LoopTake
    BY <1>2 DEF LoopTake
  <1>3. CASE Leave
    BY <1>3 DEF Leave
  <1>4. CASE StdinReady
    BY <1>4 DEF StdinReady
  <1>5. CASE StdinWait
    BY <1>5 DEF StdinWait
  <1>6. CASE GetChar
    <2>1. queue' = Tail(queue)
      BY <1>6 DEF GetChar, Q!Get, Q!FindEmpty
    <2>2. queue' \in Seq(Bytes)
      BY <1>6, <2>1 DEF GetChar
    <2> QED BY <1>6, <2>2 DEF GetChar
  <1>7. CASE UNCHANGED vars
    BY <1>7 DEF vars
  <1> QED BY <1>1, <1>2, <1>3, <1>4, <1>5, <1>6, <1>7 DEF Next, TaskStep

(***************************************************************************)
(* The inductive invariant holds for every capacity of the FIFO.           *)
(***************************************************************************)
THEOREM NotifiedMeansByte == Spec => []CliInv
  <1>1. ASSUME Init PROVE CliInv
    <2>1. queue \in Seq(Bytes)
      BY <1>1, EmptySeq DEF Init, Q!Init
    <2> QED BY <1>1, <2>1, Zenon DEF Init, CliInv, NeverReadsEmpty
  <1> QED BY <1>1, StepInv, PTL DEF Spec

(***************************************************************************)
(* getchar is called only on a FIFO that holds a character.                *)
(***************************************************************************)
THEOREM ReadsOnlyBytes == Spec => []NeverReadsEmpty
  <1>1. CliInv => NeverReadsEmpty
    BY DEF CliInv
  <1> QED BY <1>1, NotifiedMeansByte, PTL
=============================================================================
