------------------------------ MODULE LossyLog -------------------------------
(***************************************************************************)
(* What the log ring promises: a bounded queue of records that keeps the   *)
(* newest.  A record enters only when there is room for it, the oldest one *)
(* is given up only to make room, and what comes out is the oldest.        *)
(***************************************************************************)
EXTENDS Integers, Sequences, FiniteSets

CONSTANTS Words, Sizes

VARIABLES
    pending,     \* the records kept: their number and size, oldest first
    delivered,   \* the numbers of the records that came out
    lost         \* how many were given up

vars == <<pending, delivered, lost>>

\* The words of the records kept: the first, second, ... of each.
WordsKept == { w \in (DOMAIN pending) \X (1 .. Words) : w[2] <= pending[w[1]].size }
Used == Cardinality(WordsKept)

Init == pending = <<>> /\ delivered = <<>> /\ lost = 0

\* Every number is used once: the records placed so far are kept, delivered or lost.
Place == \E s \in Sizes :
            /\ Used + s <= Words
            /\ pending' = Append(pending, [n |-> Len(pending) + Len(delivered) + lost + 1,
                                           size |-> s])
            /\ UNCHANGED <<delivered, lost>>

GiveUpOldest == /\ pending # <<>>
                /\ \E s \in Sizes : Used + s > Words
                /\ pending' = Tail(pending)
                /\ lost' = lost + 1
                /\ UNCHANGED delivered

Deliver == /\ pending # <<>>
           /\ delivered' = Append(delivered, Head(pending).n)
           /\ pending' = Tail(pending)
           /\ UNCHANGED lost

Next == Place \/ GiveUpOldest \/ Deliver
Spec == Init /\ [][Next]_vars
=============================================================================
