----------------------------- MODULE FifoProofs -----------------------------
(***************************************************************************)
(* Fifo proved for every size and every set of bytes: the inductive        *)
(* invariant, the absence of slot races, and the refinement of ByteQueue.  *)
(***************************************************************************)
EXTENDS Fifo, SequenceTheorems, TLAPS

(***************************************************************************)
(* The successor of an index is an index, and two indices with the same    *)
(* successor are the same: what masking with FIFO_MASK guarantees.         *)
(***************************************************************************)
LEMMA SuccType ==
    \A i, j \in Slots : Succ(i) \in Slots /\ (Succ(i) = Succ(j) => i = j)
  BY SizeAssumption DEF Succ, Slots

(***************************************************************************)
(* The initial state satisfies the inductive invariant.                    *)
(***************************************************************************)
LEMMA InitInv == Init => FifoInv
  <1> SUFFICES ASSUME Init PROVE FifoInv
    OBVIOUS
  <1>1. Blank \in Bytes
    BY BytesAssumption DEF Blank
  <1>2. 0 \in Slots
    BY SizeAssumption DEF Slots
  <1>3. TypeOK
    BY <1>1, <1>2 DEF Init, TypeOK
  <1>4. PushInv /\ PopInv /\ ReadyMeansByte
    BY DEF Init, PushInv, PopInv, ReadyMeansByte
  <1> QED BY <1>3, <1>4 DEF FifoInv

(***************************************************************************)
(* Every step of either side preserves the inductive invariant.            *)
(***************************************************************************)
LEMMA StepInv == FifoInv /\ [Next]_vars => FifoInv'
  <1> SUFFICES ASSUME FifoInv, [Next]_vars PROVE FifoInv'
    OBVIOUS
  <1> USE DEF FifoInv, shared, Idle
  <1>a. head \in Slots /\ tail \in Slots /\ Succ(head) \in Slots /\ Succ(tail) \in Slots
    BY SuccType DEF TypeOK
  <1>1. ASSUME NEW c \in Bytes, PushBegin(c) PROVE FifoInv'
    BY <1>1 DEF PushBegin, TypeOK, PushInv, PopInv, ReadyMeansByte
  <1>2. CASE PushWrite
    <2>1. TypeOK'
      BY <1>2 DEF PushWrite, TypeOK
    <2>2. PushInv'
      BY <1>2, <1>a DEF PushWrite, TypeOK, PushInv
    <2>3. PopInv' /\ ReadyMeansByte'
      \* the slot written is not the one a pop has copied: head # tail there
      BY <1>2, <1>a DEF PushWrite, TypeOK, PopInv, ReadyMeansByte
    <2> QED BY <2>1, <2>2, <2>3
  <1>3. CASE PushPublish
    <2>1. TypeOK'
      BY <1>3, <1>a DEF PushPublish, TypeOK
    <2>2. PushInv'
      BY <1>3 DEF PushPublish, TypeOK, PushInv
    <2>3. PopInv' /\ ReadyMeansByte'
      BY <1>3 DEF PushPublish, TypeOK, PushInv, PopInv, ReadyMeansByte
    <2> QED BY <2>1, <2>2, <2>3
  <1>4. CASE IsEmpty
    BY <1>4 DEF IsEmpty, TypeOK, PushInv, PopInv, ReadyMeansByte
  <1>5. CASE PopBegin
    BY <1>5 DEF PopBegin, TypeOK, PushInv, PopInv, ReadyMeansByte
  <1>6. CASE PopRead
    BY <1>6, <1>a DEF PopRead, TypeOK, PushInv, PopInv, ReadyMeansByte
  <1>7. CASE PopRelease
    <2>1. TypeOK'
      BY <1>7, <1>a DEF PopRelease, TypeOK
    <2>2. PushInv'
      \* the freed slot is not the one after head: Succ is injective
      BY <1>7, <1>a, SuccType DEF PopRelease, TypeOK, PushInv, PopInv
    <2>3. PopInv' /\ ReadyMeansByte'
      BY <1>7 DEF PopRelease, TypeOK, PopInv, ReadyMeansByte
    <2> QED BY <2>1, <2>2, <2>3
  <1>8. CASE UNCHANGED vars
    BY <1>8 DEF vars, TypeOK, PushInv, PopInv, ReadyMeansByte
  <1> QED
    BY <1>1, <1>2, <1>3, <1>4, <1>5, <1>6, <1>7, <1>8 DEF Next

(***************************************************************************)
(* The inductive invariant holds in every reachable state.                 *)
(***************************************************************************)
THEOREM InvCorrect == Spec => []FifoInv
  <1> QED BY InitInv, StepInv, PTL DEF Spec

(***************************************************************************)
(* Indices, sides and outcomes keep their types for every FIFO size.       *)
(***************************************************************************)
THEOREM TypeCorrect == Spec => []TypeOK
  <1>1. FifoInv => TypeOK
    BY DEF FifoInv
  <1> QED BY InvCorrect, <1>1, PTL

(***************************************************************************)
(* The plain accesses of the interrupt and of the command line to the      *)
(* array never touch the same slot at the same time.                       *)
(***************************************************************************)
THEOREM RaceFree == Spec => []NoSlotRace
  <1>1. FifoInv => NoSlotRace
    BY DEF FifoInv, PopInv, NoSlotRace
  <1> QED BY InvCorrect, <1>1, PTL

(***************************************************************************)
(* After fifo_is_empty() answered false, fifo_pop() finds a byte.          *)
(***************************************************************************)
THEOREM ReadyPopFindsByte == Spec => []ReadyMeansByte
  <1>1. FifoInv => ReadyMeansByte
    BY DEF FifoInv
  <1> QED BY InvCorrect, <1>1, PTL

-----------------------------------------------------------------------------
(***************************************************************************)
(* The refinement.  First, what the mapped queue looks like: as many bytes *)
(* as there are slots from tail to head, empty exactly when the indices    *)
(* meet and full exactly when the next push would make them meet.          *)
(***************************************************************************)
ContentsOK == /\ Used \in 0 .. Size - 1
              /\ \A i \in 0 .. Used - 1 : SlotAt(i) \in Slots /\ SlotAt(i) # head
              /\ Contents \in Seq(Bytes)
              /\ Len(Contents) = Used
              /\ \A i \in 1 .. Used : Contents[i] = buffer[SlotAt(i - 1)]
              /\ Used = 0 <=> head = tail
              /\ Used = Size - 1 <=> Succ(head) = tail

(***************************************************************************)
(* Any indices inside the array map to such a queue.                       *)
(***************************************************************************)
LEMMA ContentsType == TypeOK => ContentsOK
  <1> SUFFICES ASSUME TypeOK PROVE ContentsOK
    OBVIOUS
  <1>1. Used \in 0 .. Size - 1
    BY SizeAssumption DEF TypeOK, Used, Slots
  <1>2. \A i \in 0 .. Used - 1 : SlotAt(i) \in Slots /\ SlotAt(i) # head
    BY SizeAssumption DEF TypeOK, Used, Slots, SlotAt
  <1>3. \A i \in 1 .. Used : buffer[SlotAt(i - 1)] \in Bytes
    <2> TAKE i \in 1 .. Used
    <2>1. i - 1 \in 0 .. Used - 1
      BY <1>1
    <2> QED BY <2>1, <1>2 DEF TypeOK
  <1>4. Contents \in [1 .. Used -> Bytes]
    BY <1>3 DEF Contents
  <1>5. Contents \in Seq(Bytes) /\ Len(Contents) = Used
    BY <1>1, <1>4
  <1>6. \A i \in 1 .. Used : Contents[i] = buffer[SlotAt(i - 1)]
    BY DEF Contents
  <1>7. /\ Used = 0 <=> head = tail
        /\ Used = Size - 1 <=> Succ(head) = tail
    BY SizeAssumption DEF TypeOK, Used, Slots, Succ
  <1> QED BY <1>1, <1>2, <1>5, <1>6, <1>7 DEF ContentsOK

(***************************************************************************)
(* A step that moves neither index and leaves the occupied slots alone     *)
(* leaves the mapped queue alone.                                          *)
(***************************************************************************)
LEMMA ContentsSame ==
  ASSUME TypeOK, head' = head, tail' = tail,
         \A i \in 0 .. Used - 1 : buffer'[SlotAt(i)] = buffer[SlotAt(i)]
  PROVE  Contents' = Contents
  <1>1. Used' = Used /\ Used \in 0 .. Size - 1
    BY ContentsType DEF Used, ContentsOK
  <1>2. \A i : SlotAt(i)' = SlotAt(i)
    BY DEF SlotAt
  <1>3. \A i \in 1 .. Used : buffer'[SlotAt(i - 1)] = buffer[SlotAt(i - 1)]
    <2> TAKE i \in 1 .. Used
    <2>1. i - 1 \in 0 .. Used - 1
      BY <1>1
    <2> QED BY <2>1
  <1> QED BY <1>1, <1>2, <1>3 DEF Contents

(***************************************************************************)
(* Publishing the pushed byte appends it to the mapped queue, which had    *)
(* room for it.                                                            *)
(***************************************************************************)
LEMMA PublishAppends ==
  ASSUME FifoInv, TypeOK', PushPublish
  PROVE  Q!Put(producer.byte)
  <1> DEFINE b == producer.byte
  <1>0. TypeOK /\ PushInv /\ producer.at = "publish" /\ b \in Bytes
    BY DEF FifoInv, PushPublish, TypeOK
  <1>1. /\ Used \in 0 .. Size - 2
        /\ Contents \in Seq(Bytes) /\ Len(Contents) = Used
        /\ \A i \in 1 .. Used : Contents[i] = buffer[SlotAt(i - 1)]
    BY <1>0, ContentsType, SizeAssumption DEF PushInv, ContentsOK
  <1>2. /\ Contents' \in Seq(Bytes) /\ Len(Contents') = Used'
        /\ \A i \in 1 .. Used' : Contents'[i] = buffer'[SlotAt(i - 1)']
    <2>1. ContentsOK'
      BY ContentsType, PTL
    <2> QED BY <2>1 DEF ContentsOK
  <1>3. buffer' = buffer /\ tail' = tail /\ head' = Succ(head)
    BY DEF PushPublish
  <1>4. Used' = Used + 1 /\ SlotAt(Used) = head
    BY <1>0, <1>3, SizeAssumption DEF Used, SlotAt, Succ, Slots, TypeOK, PushInv
  <1>5. \A i : SlotAt(i)' = SlotAt(i)
    BY <1>3 DEF SlotAt
  <1>6. Append(Contents, b) \in Seq(Bytes) /\ Len(Append(Contents, b)) = Used + 1
    BY <1>0, <1>1, AppendProperties
  <1>7. ASSUME NEW i \in 1 .. Used + 1
        PROVE  Contents'[i] = Append(Contents, b)[i]
    <2>1. Contents'[i] = buffer[SlotAt(i - 1)]
      BY <1>2, <1>3, <1>4, <1>5
    <2>2. CASE i = Used + 1
      <3>1. Append(Contents, b)[i] = b
        BY <1>0, <1>1, <2>2, AppendProperties
      <3>2. i - 1 = Used
        BY <1>1, <2>2
      <3>3. buffer[head] = b
        BY <1>0 DEF PushInv
      <3> QED BY <1>4, <2>1, <3>1, <3>2, <3>3
    <2>3. CASE i \in 1 .. Used
      BY <1>0, <1>1, <2>1, <2>3, AppendProperties
    <2> QED BY <1>1, <2>2, <2>3
  <1>8. Contents' = Append(Contents, b)
    BY <1>1, <1>2, <1>4, <1>6, <1>7, SeqEqual
  <1>9. Len(Contents) < Size - 1
    BY <1>1, SizeAssumption
  <1> QED BY <1>8, <1>9 DEF Q!Put, PushPublish

(***************************************************************************)
(* Releasing the slot removes the oldest byte of the mapped queue, and it  *)
(* is the byte the pop answers.                                            *)
(***************************************************************************)
LEMMA ReleaseTakesOldest ==
  ASSUME FifoInv, TypeOK', PopRelease
  PROVE  Q!Get
  <1>0. TypeOK /\ head # tail /\ consumer.byte = buffer[tail]
    BY DEF FifoInv, PopInv, PopRelease
  <1>1. /\ Used \in 1 .. Size - 1
        /\ Contents \in Seq(Bytes) /\ Len(Contents) = Used
        /\ \A i \in 1 .. Used : Contents[i] = buffer[SlotAt(i - 1)]
    BY <1>0, ContentsType, SizeAssumption DEF ContentsOK
  <1>2. /\ Contents' \in Seq(Bytes) /\ Len(Contents') = Used'
        /\ \A i \in 1 .. Used' : Contents'[i] = buffer'[SlotAt(i - 1)']
    <2>1. ContentsOK'
      BY ContentsType, PTL
    <2> QED BY <2>1 DEF ContentsOK
  <1>3. buffer' = buffer /\ head' = head /\ tail' = Succ(tail)
    BY DEF PopRelease
  <1>4. Used' = Used - 1
    BY <1>0, <1>3, SizeAssumption DEF Used, Succ, Slots, TypeOK
  <1>5. \A i \in 0 .. Used - 2 : SlotAt(i)' = SlotAt(i + 1)
    BY <1>0, <1>1, <1>3, SizeAssumption DEF SlotAt, Succ, Slots, TypeOK
  <1>6. Contents # <<>> /\ Head(Contents) = buffer[tail]
    <2>1. SlotAt(0) = tail
      BY <1>0, SizeAssumption DEF SlotAt, Slots, TypeOK
    <2> QED BY <1>1, <2>1, EmptySeq
  <1>7. /\ Tail(Contents) \in Seq(Bytes) /\ Len(Tail(Contents)) = Used - 1
        /\ \A i \in 1 .. Used - 1 : Tail(Contents)[i] = Contents[i + 1]
    BY <1>1, <1>6, HeadTailProperties
  <1>8. ASSUME NEW i \in 1 .. Used - 1
        PROVE  Contents'[i] = Tail(Contents)[i]
    <2>1. Contents'[i] = buffer[SlotAt(i - 1)']
      BY <1>2, <1>3, <1>4
    <2>2. i - 1 \in 0 .. Used - 2 /\ i + 1 \in 1 .. Used /\ (i - 1) + 1 = (i + 1) - 1
      BY <1>1
    <2>3. SlotAt(i - 1)' = SlotAt((i + 1) - 1)
      BY <1>5, <2>2
    <2> QED BY <1>1, <1>7, <2>1, <2>2, <2>3
  <1>9. Contents' = Tail(Contents)
    BY <1>1, <1>2, <1>4, <1>7, <1>8, SeqEqual
  <1> QED BY <1>0, <1>6, <1>9 DEF Q!Get, PopRelease

(***************************************************************************)
(* Every step of the FIFO is a step of the queue or leaves it unchanged.   *)
(***************************************************************************)
LEMMA StepRefines == FifoInv /\ FifoInv' /\ [Next]_vars => [Q!Next]_(Q!vars)
  <1> SUFFICES ASSUME FifoInv, FifoInv', [Next]_vars PROVE [Q!Next]_(Q!vars)
    OBVIOUS
  <1>t. TypeOK /\ TypeOK'
    BY DEF FifoInv
  <1>q. ASSUME head' = head, tail' = tail, buffer' = buffer
        PROVE  Contents' = Contents
    BY <1>t, <1>q, ContentsSame
  <1>1. ASSUME NEW c \in Bytes, PushBegin(c) PROVE Q!Reject \/ UNCHANGED Q!vars
    <2>1. Contents' = Contents
      BY <1>1, <1>q DEF PushBegin, shared
    <2>2. CASE Succ(head) = tail
      <3>1. Len(Contents) = Size - 1
        BY <1>t, <2>2, ContentsType DEF ContentsOK
      <3> QED BY <1>1, <2>1, <2>2, <3>1 DEF PushBegin, Q!Reject
    <2>3. CASE Succ(head) # tail
      BY <1>1, <2>1, <2>3 DEF PushBegin, Q!vars
    <2> QED BY <2>2, <2>3
  <1>2. CASE PushWrite
    <2>1. \A i \in 0 .. Used - 1 : buffer'[SlotAt(i)] = buffer[SlotAt(i)]
      BY <1>2, <1>t, ContentsType DEF PushWrite, TypeOK, ContentsOK
    <2>2. Contents' = Contents
      BY <1>2, <1>t, <2>1, ContentsSame DEF PushWrite
    <2> QED BY <1>2, <2>2 DEF PushWrite, Q!vars
  <1>3. CASE PushPublish
    <2>1. producer.byte \in Bytes
      BY <1>t DEF TypeOK
    <2> QED BY <1>3, <1>t, <2>1, PublishAppends DEF Q!Next
  <1>4. CASE IsEmpty
    BY <1>4, <1>q DEF IsEmpty, shared, Q!vars
  <1>5. CASE PopBegin
    <2>1. Contents' = Contents
      BY <1>5, <1>q DEF PopBegin, shared
    <2>2. CASE tail = head
      <3>1. Contents = <<>>
        BY <1>t, <2>2, ContentsType, EmptySeq DEF ContentsOK
      <3> QED BY <1>5, <2>1, <2>2, <3>1 DEF PopBegin, Q!FindEmpty, Q!Next
    <2>3. CASE tail # head
      BY <1>5, <2>1, <2>3 DEF PopBegin, Q!vars
    <2> QED BY <2>2, <2>3
  <1>6. CASE PopRead
    BY <1>6, <1>q DEF PopRead, shared, Q!vars
  <1>7. CASE PopRelease
    BY <1>7, <1>t, ReleaseTakesOldest DEF Q!Next
  <1>8. CASE UNCHANGED vars
    BY <1>8, <1>q DEF vars, shared, Q!vars
  <1> QED
    BY <1>1, <1>2, <1>3, <1>4, <1>5, <1>6, <1>7, <1>8 DEF Next, Q!Next

(***************************************************************************)
(* For every size and every set of bytes the lock-free FIFO implements the *)
(* bounded byte queue: it keeps order, loses only what arrives when full,  *)
(* and answers EOF only when empty.                                        *)
(***************************************************************************)
THEOREM FifoImplementsByteQueue == Spec => ImplementsByteQueue
  <1>1. Init => Q!Init
    <2> SUFFICES ASSUME Init PROVE Q!Init
      OBVIOUS
    <2>1. TypeOK /\ head = tail
      BY InitInv DEF Init, FifoInv
    <2>2. Contents = <<>>
      BY <2>1, ContentsType, EmptySeq DEF ContentsOK
    <2> QED BY <2>2 DEF Init, Q!Init
  <1> QED
    BY <1>1, StepRefines, InvCorrect, PTL DEF Spec, Q!Spec, ImplementsByteQueue
=============================================================================
