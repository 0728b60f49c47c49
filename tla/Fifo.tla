-------------------------------- MODULE Fifo --------------------------------
(***************************************************************************)
(* The input FIFO of common/src/fifo.c: one producer (the UART receive     *)
(* interrupt) and one consumer (the command line) share a power-of-two     *)
(* array and two indices, with no lock.  Each atomic access to an index of *)
(* the other side and each access to the array is a step of its own, and   *)
(* the two sides interleave freely.  An index is loaded with acquire and   *)
(* stored with release order, so a side that sees an index also sees the   *)
(* array accesses made before it was stored.                               *)
(***************************************************************************)
EXTENDS Integers, Sequences

CONSTANTS Size,      \* FIFO_SIZE, the number of slots (one stays unused)
          Bytes,     \* the bytes the producer may push
          EOF        \* -1, what fifo_pop answers when there is nothing

ASSUME SizeAssumption == Size \in Nat /\ Size >= 2
ASSUME BytesAssumption == Bytes # {} /\ EOF \notin Bytes

VARIABLES buffer,    \* fifo_buffer
          head,      \* fifo_head, stored by the producer only
          tail,      \* fifo_tail, stored by the consumer only
          producer,  \* the push in progress: where it is, its byte
          consumer,  \* the pop in progress: where it is, the byte it read
          ready,     \* the consumer saw fifo_is_empty() = false and has not popped since
          pushed,    \* outcome of the latest push
          popped     \* answer of the latest pop

shared == <<buffer, head, tail>>
vars == <<shared, producer, consumer, ready, pushed, popped>>

Slots == 0 .. Size - 1

\* An array never written yet holds zero bytes, which no property tells apart.
Blank == CHOOSE b \in Bytes : TRUE

(***************************************************************************)
(* (i + 1) & FIFO_MASK, for an index below FIFO_SIZE.                      *)
(***************************************************************************)
\* Mutant: the mask is forgotten.
SuccNoMask(i) == i + 1

Succ(i) == IF i = Size - 1 THEN 0 ELSE i + 1

Idle(side) == side.at = "idle"

(***************************************************************************)
(* fifo_init, called before the receive interrupt is enabled.              *)
(***************************************************************************)
Init == /\ buffer = [s \in Slots |-> Blank]
        /\ head = 0
        /\ tail = 0
        /\ producer = [at |-> "idle", byte |-> Blank]
        /\ consumer = [at |-> "idle", byte |-> Blank]
        /\ ready = FALSE
        /\ pushed = "stored"
        /\ popped = EOF

(***************************************************************************)
(* fifo_push(c).  The producer owns head, so its load of head and its load *)
(* of tail make one step.  A full buffer drops the byte.                   *)
(***************************************************************************)
\* Mutant: no look at the room left.
PushBeginNoFullCheck(c) ==
    /\ Idle(producer)
    /\ producer' = [at |-> "write", byte |-> c]
    /\ UNCHANGED <<shared, consumer, ready, pushed, popped>>

PushBegin(c) ==
    /\ Idle(producer)
    /\ \/ /\ Succ(head) # tail
          /\ producer' = [at |-> "write", byte |-> c]
          /\ UNCHANGED pushed
       \/ /\ Succ(head) = tail
          /\ pushed' = "dropped"
          /\ UNCHANGED producer
    /\ UNCHANGED <<shared, consumer, ready, popped>>

PushWrite ==
    /\ producer.at = "write"
    /\ buffer' = [buffer EXCEPT ![head] = producer.byte]
    /\ producer' = [producer EXCEPT !.at = "publish"]
    /\ UNCHANGED <<head, tail, consumer, ready, pushed, popped>>

PushPublish ==
    /\ producer.at = "publish"
    /\ head' = Succ(head)
    /\ producer' = [producer EXCEPT !.at = "idle"]
    /\ pushed' = "stored"
    /\ UNCHANGED <<buffer, tail, consumer, ready, popped>>

(***************************************************************************)
(* fifo_is_empty(), asked by stdin_ready() before a character is taken.    *)
(***************************************************************************)
\* Mutant: a byte is promised unless the array is full.
IsEmptySlack == /\ Idle(consumer)
                /\ ready' = (Succ(head) # tail)
                /\ UNCHANGED <<shared, producer, consumer, pushed, popped>>

IsEmpty == /\ Idle(consumer)
           /\ ready' = (head # tail)
           /\ UNCHANGED <<shared, producer, consumer, pushed, popped>>

(***************************************************************************)
(* fifo_pop().                                                             *)
(***************************************************************************)
PopBegin ==
    /\ Idle(consumer)
    /\ ready' = FALSE
    /\ \/ /\ tail # head
          /\ consumer' = [consumer EXCEPT !.at = "read"]
          /\ UNCHANGED popped
       \/ /\ tail = head
          /\ popped' = EOF
          /\ UNCHANGED consumer
    /\ UNCHANGED <<shared, producer, pushed>>

\* Mutant: the slot is handed back before its byte was copied out of it.
PopReadReleased ==
    /\ consumer.at = "read"
    /\ consumer' = [consumer EXCEPT !.at = "release"]
    /\ UNCHANGED <<shared, producer, ready, pushed, popped>>

PopRead ==
    /\ consumer.at = "read"
    /\ consumer' = [at |-> "release", byte |-> buffer[tail]]
    /\ UNCHANGED <<shared, producer, ready, pushed, popped>>

PopRelease ==
    /\ consumer.at = "release"
    /\ tail' = Succ(tail)
    /\ popped' = consumer.byte
    /\ consumer' = [consumer EXCEPT !.at = "idle"]
    /\ UNCHANGED <<buffer, head, producer, ready, pushed>>

Next == \/ \E c \in Bytes : PushBegin(c)
        \/ PushWrite
        \/ PushPublish
        \/ IsEmpty
        \/ PopBegin
        \/ PopRead
        \/ PopRelease

Spec == Init /\ [][Next]_vars

-----------------------------------------------------------------------------
(***************************************************************************)
(* Type invariant: indices stay inside the array whatever both sides do.   *)
(***************************************************************************)
TypeOK == /\ buffer \in [Slots -> Bytes]
          /\ head \in Slots
          /\ tail \in Slots
          /\ producer \in [at : {"idle", "write", "publish"}, byte : Bytes]
          /\ consumer \in [at : {"idle", "read", "release"}, byte : Bytes]
          /\ ready \in BOOLEAN
          /\ pushed \in {"stored", "dropped"}
          /\ popped \in Bytes \cup {EOF}

(***************************************************************************)
(* The slot the producer writes is never the one the consumer reads, so    *)
(* the plain accesses to fifo_buffer never race.                           *)
(***************************************************************************)
NoSlotRace == ~ (producer.at = "write" /\ consumer.at = "read" /\ head = tail)

(***************************************************************************)
(* A consumer that was told the FIFO is not empty finds a byte in it: the  *)
(* getchar() that follows stdin_ready() never answers EOF, which cli_run   *)
(* would take for the end of the session.                                  *)
(***************************************************************************)
ReadyMeansByte == ready => head # tail

(***************************************************************************)
(* The inductive invariant: an unfinished push still has room, an          *)
(* unfinished pop still has its byte, and what each has copied so far is   *)
(* what the array holds.                                                   *)
(***************************************************************************)
PushInv == /\ producer.at \in {"write", "publish"} => Succ(head) # tail
           /\ producer.at = "publish" => buffer[head] = producer.byte
PopInv == /\ consumer.at \in {"read", "release"} => head # tail /\ ~ready
          /\ consumer.at = "release" => consumer.byte = buffer[tail]
FifoInv == TypeOK /\ PushInv /\ PopInv /\ ReadyMeansByte

(***************************************************************************)
(* The refinement mapping: the abstract queue is the stretch of the array  *)
(* from tail up to head, read with wrap-around.                            *)
(***************************************************************************)
Used == IF head >= tail THEN head - tail ELSE head - tail + Size
SlotAt(i) == IF tail + i < Size THEN tail + i ELSE tail + i - Size
Contents == [i \in 1 .. Used |-> buffer[SlotAt(i - 1)]]

Q == INSTANCE ByteQueue WITH Capacity <- Size - 1, queue <- Contents

(***************************************************************************)
(* The FIFO implements the bounded byte queue: no byte is lost but the     *)
(* ones that arrive when Size - 1 are waiting, none is duplicated, and     *)
(* they leave in the order they came.                                      *)
(***************************************************************************)
ImplementsByteQueue == Q!Spec
=============================================================================
