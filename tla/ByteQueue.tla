------------------------------ MODULE ByteQueue ------------------------------
(***************************************************************************)
(* What the input FIFO promises its two users: a queue that keeps at most  *)
(* Capacity bytes in arrival order.  A byte that arrives while the queue   *)
(* is full is rejected and nothing else is disturbed; reading an empty     *)
(* queue answers EOF.                                                      *)
(***************************************************************************)
EXTENDS Integers, Sequences

CONSTANTS Bytes,     \* the values a byte can take
          EOF,       \* the answer to a read of an empty queue
          Capacity   \* the number of bytes the queue holds at most

VARIABLES queue,     \* the bytes waiting to be read, oldest first
          pushed,    \* the outcome of the latest push
          popped     \* the outcome of the latest pop

vars == <<queue, pushed, popped>>

Outcomes == {"stored", "dropped"}

Init == /\ queue = <<>>
        /\ pushed = "stored"
        /\ popped = EOF

Put(c) == /\ Len(queue) < Capacity
          /\ queue' = Append(queue, c)
          /\ pushed' = "stored"
          /\ UNCHANGED popped

Reject == /\ Len(queue) = Capacity
          /\ pushed' = "dropped"
          /\ UNCHANGED <<queue, popped>>

Get == /\ queue # <<>>
       /\ popped' = Head(queue)
       /\ queue' = Tail(queue)
       /\ UNCHANGED pushed

FindEmpty == /\ queue = <<>>
             /\ popped' = EOF
             /\ UNCHANGED <<queue, pushed>>

Next == (\E c \in Bytes : Put(c)) \/ Reject \/ Get \/ FindEmpty

Spec == Init /\ [][Next]_vars
=============================================================================
