------------------------------ MODULE LogRing -------------------------------
(***************************************************************************)
(* The diagnostic log ring of common/src/diagnostic/logging/log_infra.c.   *)
(* Any number of writers (tasks and interrupt handlers) reserve space by a *)
(* compare-and-swap on head, write their record and seal it; one reader    *)
(* (process_logs, in the command line task) takes the records out.  When   *)
(* the ring is full a writer drops the oldest record by moving tail.       *)
(*                                                                         *)
(* The ring is modelled in the 4-byte words the code copies.  A record is  *)
(* an even number of words: word 0 holds the tag byte, word 1 the lengths, *)
(* word 2 the low half of the timestamp and the rest the text.  Every      *)
(* access to head, tail, dirty and a tag is a step of its own; the copy of *)
(* a header, and the copy of a text, are one step each.  Positions (head   *)
(* and tail) grow without bound; the ring index is the position modulo the *)
(* size.  A text byte is never mistaken for a tag (the texts are ASCII and *)
(* the degree sign); the low byte of a timestamp may be.                   *)
(***************************************************************************)
EXTENDS Integers, Sequences, FiniteSets

CONSTANTS
    Words,       \* LOG_BUF_SIZE in words (1024 in the code)
    Sizes,       \* the record sizes that occur, in words (4 .. 68, even)
    Writers,     \* the tasks and interrupt handlers that log
    Reader,      \* the task that runs log_flash; it may be a writer too
    Priority,    \* Priority[t], the scheduling priority of each of them
    Stamps,      \* what the low byte of a timestamp looks like: "data", "SEAL"
    Retries,     \* how often a lost race for head is retried (120)
    MaxLogs,     \* bound: calls of log_dispatch in a behaviour
    Overrun,     \* may writers drop records under the reader?  See MayLog
    MaxPos       \* bound: the positions head and tail take

Threads == Writers \cup {Reader}

ASSUME RingAssumption ==
    /\ Words \in Nat /\ \E k \in 1 .. Words : Words = 2 ^ k
    /\ Sizes \subseteq { n \in 4 .. Words : n % 2 = 0 }
    /\ Sizes # {} /\ Stamps # {} /\ Stamps \subseteq {"data", "SEAL"}
ASSUME ThreadAssumption ==
    /\ IsFiniteSet(Writers) /\ Priority \in [Threads -> Nat]
    /\ \A t \in Threads \ {Reader} : Priority[t] > Priority[Reader]
    /\ Retries \in Nat \ {0} /\ MaxLogs \in Nat /\ MaxPos \in Nat /\ Overrun \in BOOLEAN

VARIABLES
    ring,        \* log_buf.data, one value per word
    head, tail,  \* log_ring.head and log_ring.tail, as word positions
    dirty,       \* log_ring.dirty
    sum, drops,  \* log_stats.sum and log_stats.drop_cnt
    at,          \* where each thread stands in log_dispatch or log_flash
    loc,         \* the local variables of each thread
    calls,       \* history: the calls of log_dispatch so far
    placed,      \* history: the reservations made, in order, with size and position
    out          \* history: what the reader handed to the output, in order

shared == <<ring, head, tail, dirty, sum, drops>>
history == <<calls, placed, out>>
vars == <<shared, at, loc, history>>

Index(pos) == pos % Words

\* A word: which reservation wrote it (0: none), which word of the record it is, and
\* what its first byte is when read as a tag.
Word(n, k, tag) == [rec |-> n, k |-> k, tag |-> tag]
Blank == Word(0, 0, "data")
\* guard_end and pad2, the two words behind the array.
Guard == Word(0, 1, "data")

\* n: the reservation of the call, or of the record the reader holds; since: where
\* head was when the call began (history).
NoLocals == [n |-> 0, size |-> 4, head |-> 0, tail |-> 0, next |-> 0, tries |-> 0,
             whole |-> TRUE, first |-> TRUE, since |-> 0]

ReaderPlaces == {"ftail", "floop", "ftag", "resync", "scan", "recover", "fheader", "recheck",
                 "ftext", "verify", "free", "pending", "advance", "clear"}

WriterPlaces == {"head", "space", "drop", "skip", "reload", "header", "text", "seal",
                 "announce"}

Init == /\ ring = [i \in 0 .. Words - 1 |-> Blank]
        /\ head = 0 /\ tail = 0
        /\ dirty = FALSE
        /\ sum = 0 /\ drops = 0
        /\ at = [t \in Threads |-> "idle"]
        /\ loc = [t \in Threads |-> NoLocals]
        /\ calls = 0 /\ placed = <<>> /\ out = <<>>

-----------------------------------------------------------------------------
(***************************************************************************)
(* Scheduling on one core: a thread takes a step only while no thread of   *)
(* higher priority is inside the logger; equal priorities are time-sliced. *)
(***************************************************************************)
Runs(t) == \A u \in Threads : Priority[u] > Priority[t] => at[u] = "idle"

\* The calls of log_dispatch under way, and those among them that hold no words yet.
Logging == { t \in Writers : at[t] \notin {"idle"} \cup ReaderPlaces }
Unreserved == { t \in Logging : at[t] \in {"head", "space", "drop", "skip", "reload"} }
Reading == at[Reader] \in ReaderPlaces

\* The words that the calls under way will reserve: the first, second, ... of each.
WordsFor(calling, size) ==
    { w \in calling \X (1 .. Words) : w[2] <= size[w[1]] }
Wanted == Cardinality(WordsFor(Unreserved, [t \in Threads |-> loc[t].size]))

(***************************************************************************)
(* How much may be logged while a call is under way: what is logged after  *)
(* a call of log_dispatch began fits the ring beside it; without Overrun,  *)
(* what is logged while the reader is inside log_flash fits without a drop.*)
(***************************************************************************)
MayLog(size) ==
    LET end == head + size + Wanted
    IN  /\ \A t \in Logging : end - loc[t].since <= Words
        /\ Reading /\ ~Overrun => end - tail <= Words

\* Thread t moves on to a, with its local variables changed to l.
Go(t, a, l) == /\ at' = [at EXCEPT ![t] = a]
               /\ loc' = [loc EXCEPT ![t] = l]

Step(t, a) == at[t] = a /\ Runs(t)

-----------------------------------------------------------------------------
(* log_dispatch                                                            *)

\* The call, up to the load of tail.
Dispatch(t, size) ==
    /\ Step(t, "idle")
    /\ calls < MaxLogs
    /\ MayLog(size)
    /\ calls' = calls + 1
    /\ Go(t, "head", [NoLocals EXCEPT !.size = size, !.tail = tail, !.tries = Retries,
                                       !.since = head])
    /\ UNCHANGED <<shared, placed, out>>

LoadHead(t) ==
    /\ Step(t, "head")
    /\ Go(t, "space", [loc[t] EXCEPT !.head = head])
    /\ UNCHANGED <<shared, history>>

\* (head + tot_size - tail) > size, in unsigned arithmetic: a tail beyond
\* head + tot_size wraps to a huge value.
Short(l) == l.head + l.size - l.tail > Words \/ l.head + l.size < l.tail

\* The size a header claims.  A second word that is no header word makes the
\* claim arbitrary; it is taken among the sizes that occur.
Claims(pos) ==
    LET w == ring[Index(pos + 1)]
    IN  IF w.k = 1 /\ w.rec # 0 THEN {placed[w.rec].size} ELSE Sizes

\* No room: look at the tag under tail, and where the next record must start.
LookAtOldest(t) ==
    /\ Step(t, "space") /\ Short(loc[t])
    /\ loc[t].tail + Words <= MaxPos
    /\ \/ /\ ring[Index(loc[t].tail)].tag = "SEAL"
          /\ \E s \in Claims(loc[t].tail) :
                Go(t, "drop", [loc[t] EXCEPT !.next = loc[t].tail + s])
       \/ /\ ring[Index(loc[t].tail)].tag # "SEAL"
          /\ Go(t, "skip", [loc[t] EXCEPT !.next = loc[t].tail + 2])
    /\ UNCHANGED <<shared, history>>

\* Mutant: tail is stored without the comparison.
DropOldestBlind(t) ==
    /\ Step(t, "drop")
    /\ tail' = loc[t].next
    /\ drops' = drops + 1
    /\ Go(t, "space", [loc[t] EXCEPT !.tail = loc[t].next])
    /\ UNCHANGED <<ring, head, dirty, sum, history>>

\* Mutant: a lost race does not bring the new tail back.
DropOldestStale(t) ==
    /\ Step(t, "drop")
    /\ \/ /\ tail = loc[t].tail
          /\ tail' = loc[t].next
          /\ drops' = drops + 1
          /\ Go(t, "space", [loc[t] EXCEPT !.tail = loc[t].next])
       \/ /\ tail # loc[t].tail
          /\ Go(t, "space", loc[t])
          /\ UNCHANGED <<tail, drops>>
    /\ UNCHANGED <<ring, head, dirty, sum, history>>

\* The compare-and-swap on tail that drops the oldest sealed record, and the count
\* of it; without success tail is reloaded.
DropOldest(t) ==
    /\ Step(t, "drop")
    /\ \/ /\ tail = loc[t].tail
          /\ tail' = loc[t].next
          /\ drops' = drops + 1
          /\ Go(t, "space", [loc[t] EXCEPT !.tail = loc[t].next])
       \/ /\ tail # loc[t].tail
          /\ Go(t, "space", [loc[t] EXCEPT !.tail = tail])
          /\ UNCHANGED <<tail, drops>>
    /\ UNCHANGED <<ring, head, dirty, sum, history>>

\* The same over an unsealed word pair, which is not counted.
SkipUnsealed(t) ==
    /\ Step(t, "skip")
    /\ \/ /\ tail = loc[t].tail
          /\ tail' = loc[t].next
          /\ Go(t, "space", [loc[t] EXCEPT !.tail = loc[t].next])
       \/ /\ tail # loc[t].tail
          /\ Go(t, "space", [loc[t] EXCEPT !.tail = tail])
          /\ UNCHANGED tail
    /\ UNCHANGED <<ring, head, dirty, sum, drops, history>>

\* Mutant: head is stored without the comparison.
ReserveBlind(t) ==
    /\ Step(t, "space") /\ ~Short(loc[t])
    /\ head' = loc[t].head + loc[t].size
    /\ placed' = Append(placed, [size |-> loc[t].size, pos |-> loc[t].head])
    /\ Go(t, "header", [loc[t] EXCEPT !.n = Len(placed) + 1])
    /\ UNCHANGED <<ring, tail, dirty, sum, drops, calls, out>>

\* Mutant: the bailout leaves the loop, and the record is announced.
ReserveFallsThrough(t) ==
    /\ Step(t, "space") /\ ~Short(loc[t])
    /\ \/ /\ head = loc[t].head
          /\ head' = head + loc[t].size
          /\ placed' = Append(placed, [size |-> loc[t].size, pos |-> head])
          /\ Go(t, "header", [loc[t] EXCEPT !.n = Len(placed) + 1])
       \/ /\ head # loc[t].head
          /\ loc[t].tries > 1
          /\ Go(t, "reload", [loc[t] EXCEPT !.head = head, !.tries = @ - 1])
          /\ UNCHANGED <<head, placed>>
       \/ /\ head # loc[t].head
          /\ loc[t].tries <= 1
          /\ Go(t, "announce", loc[t])
          /\ UNCHANGED <<head, placed>>
    /\ UNCHANGED <<ring, tail, dirty, sum, drops, calls, out>>

\* The compare-and-swap on head that reserves the record's words.
Reserve(t) ==
    /\ Step(t, "space") /\ ~Short(loc[t])
    /\ \/ /\ head = loc[t].head
          /\ head' = head + loc[t].size
          /\ placed' = Append(placed, [size |-> loc[t].size, pos |-> head])
          /\ Go(t, "header", [loc[t] EXCEPT !.n = Len(placed) + 1])
       \/ /\ head # loc[t].head
          /\ loc[t].tries > 1
          /\ Go(t, "reload", [loc[t] EXCEPT !.head = head, !.tries = @ - 1])
          /\ UNCHANGED <<head, placed>>
       \/ /\ head # loc[t].head              \* contention bailout: the message is lost
          /\ loc[t].tries <= 1
          /\ Go(t, "idle", NoLocals)
          /\ UNCHANGED <<head, placed>>
    /\ UNCHANGED <<ring, tail, dirty, sum, drops, calls, out>>

ReloadTail(t) ==
    /\ Step(t, "reload")
    /\ Go(t, "space", [loc[t] EXCEPT !.tail = tail])
    /\ UNCHANGED <<shared, history>>

\* Mutant: what passes the end of the array is not stored.
StoredNoWrap(l, from, to) ==
    [i \in 0 .. Words - 1 |->
        IF \E k \in from .. to : i = Index(l.head) + k
        THEN LET k == i - Index(l.head)
             IN  Word(l.n, k, IF k = 0 THEN "FREE" ELSE "data")
        ELSE ring[i]]

\* Words from..to of the record of reservation l.n, stored from position pos on.
Stored(l, from, to) ==
    [i \in 0 .. Words - 1 |->
        IF \E k \in from .. to : i = Index(l.head + k)
        THEN LET k == CHOOSE k \in from .. to : i = Index(l.head + k)
             IN  Word(l.n, k, IF k = 0 THEN "FREE" ELSE "data")
        ELSE ring[i]]

WriteHeader(t) ==
    /\ Step(t, "header")
    /\ \E stamp \in Stamps :
          ring' = [Stored(loc[t], 0, 2) EXCEPT ![Index(loc[t].head + 2)].tag = stamp]
    /\ Go(t, "text", loc[t])
    /\ UNCHANGED <<head, tail, dirty, sum, drops, history>>

WriteText(t) ==
    /\ Step(t, "text")
    /\ ring' = Stored(loc[t], 3, loc[t].size - 1)
    /\ Go(t, "seal", loc[t])
    /\ UNCHANGED <<head, tail, dirty, sum, drops, history>>

Seal(t) ==
    /\ Step(t, "seal")
    /\ ring' = [ring EXCEPT ![Index(loc[t].head)].tag = "SEAL"]
    /\ Go(t, "announce", loc[t])
    /\ UNCHANGED <<head, tail, dirty, sum, drops, history>>

Announce(t) ==
    /\ Step(t, "announce")
    /\ dirty' = TRUE
    /\ sum' = sum + 1
    /\ Go(t, "idle", NoLocals)
    /\ UNCHANGED <<ring, head, tail, drops, history>>

-----------------------------------------------------------------------------
(* log_flash, called by process_logs when the ring is dirty                *)

Flash ==
    /\ Step(Reader, "idle")
    /\ dirty
    /\ Go(Reader, "ftail", [NoLocals EXCEPT !.head = head])
    /\ UNCHANGED <<shared, history>>

FlashTail ==
    /\ Step(Reader, "ftail")
    /\ Go(Reader, "floop", [loc[Reader] EXCEPT !.tail = tail])
    /\ UNCHANGED <<shared, history>>

\* while (tail < head), with the reload of a tail that writers moved on.
FlashLoop ==
    /\ Step(Reader, "floop")
    /\ LET l == loc[Reader]
       IN  \/ l.tail >= l.head /\ Go(Reader, "clear", l)
           \/ l.tail < l.head /\ tail > l.tail
              /\ Go(Reader, "floop", [l EXCEPT !.tail = tail])
           \/ l.tail < l.head /\ tail <= l.tail /\ Go(Reader, "ftag", l)
    /\ UNCHANGED <<shared, history>>

FlashTag ==
    /\ Step(Reader, "ftag")
    /\ Go(Reader, IF ring[Index(loc[Reader].tail)].tag = "SEAL" THEN "fheader" ELSE "resync",
          loc[Reader])
    /\ UNCHANGED <<shared, history>>

Resync ==
    /\ Step(Reader, "resync")
    /\ \/ tail > loc[Reader].tail
          /\ Go(Reader, "floop", [loc[Reader] EXCEPT !.tail = tail])
       \/ tail <= loc[Reader].tail /\ Go(Reader, "scan", loc[Reader])
    /\ UNCHANGED <<shared, history>>

\* Mutant: the search does not move.
ScanStuck ==
    /\ Step(Reader, "scan")
    /\ LET l == loc[Reader]
       IN  \/ l.tail >= l.head /\ Go(Reader, "clear", l)
           \/ l.tail < l.head /\ ring[Index(l.tail)].tag = "SEAL" /\ Go(Reader, "recover", l)
           \/ l.tail < l.head /\ ring[Index(l.tail)].tag # "SEAL" /\ Go(Reader, "scan", l)
    /\ UNCHANGED <<shared, history>>

\* One 8-byte step of the search for the next seal; at head it gives up.
Scan ==
    /\ Step(Reader, "scan")
    /\ LET l == loc[Reader]
       IN  \/ l.tail >= l.head /\ Go(Reader, "clear", l)
           \/ l.tail < l.head /\ ring[Index(l.tail)].tag = "SEAL" /\ Go(Reader, "recover", l)
           \/ l.tail < l.head /\ ring[Index(l.tail)].tag # "SEAL"
              /\ Go(Reader, "scan", [l EXCEPT !.tail = @ + 2])
    /\ UNCHANGED <<shared, history>>

Recover ==
    /\ Step(Reader, "recover")
    /\ tail' = loc[Reader].tail
    /\ Go(Reader, "fheader", loc[Reader])
    /\ UNCHANGED <<ring, head, dirty, sum, drops, history>>

\* The record whose header is read, its size, and whether its words belong together.
\* copy_from_ring: are the words from..to, read from position pos on, those of record n?
Holds(pos, n, from, to) ==
    \A k \in from .. to : LET w == ring[Index(pos + k)] IN w.rec = n /\ w.k = k

ReadHeader ==
    /\ Step(Reader, "fheader")
    /\ LET l == loc[Reader]
           n == ring[Index(l.tail)].rec
       IN  \E s \in Claims(l.tail) :
              Go(Reader, "recheck", [l EXCEPT !.n = n, !.size = s, !.whole = Holds(l.tail, n, 0, 2)])
    /\ UNCHANGED <<shared, history>>

Recheck ==
    /\ Step(Reader, "recheck")
    /\ \/ tail # loc[Reader].tail
          /\ Go(Reader, "floop", [loc[Reader] EXCEPT !.tail = tail])
       \/ tail = loc[Reader].tail /\ Go(Reader, "ftext", loc[Reader])
    /\ UNCHANGED <<shared, history>>

\* The first text word is read at index tid + 3 without the wrap-around; the
\* others go through copy_from_ring, which wraps.
FirstTextWord(pos) == IF Index(pos) + 3 < Words THEN ring[Index(pos) + 3] ELSE Guard

ReadText ==
    /\ Step(Reader, "ftext")
    /\ LET l == loc[Reader]
           mine(w, k) == w.rec = l.n /\ w.k = k
       IN  Go(Reader, "verify",
              [l EXCEPT !.first = mine(FirstTextWord(l.tail), 3),
                        !.whole = l.whole /\ Holds(l.tail, l.n, 4, l.size - 1)])
    /\ UNCHANGED <<shared, history>>

\* Mutant: the output without the second look.
DeliverUnverified ==
    /\ Step(Reader, "verify")
    /\ LET l == loc[Reader]
       IN  out' = Append(out, [n |-> l.n, whole |-> l.whole, first |-> l.first,
                               kept |-> tail = l.tail])
    /\ Go(Reader, "free", loc[Reader])
    /\ UNCHANGED <<shared, calls, placed>>

\* The second look at the tag, and the output.
Deliver ==
    /\ Step(Reader, "verify")
    /\ LET l == loc[Reader]
       IN  \/ /\ ring[Index(l.tail)].tag # "SEAL"
              /\ Go(Reader, "floop", [l EXCEPT !.tail = tail])
              /\ UNCHANGED out
           \/ /\ ring[Index(l.tail)].tag = "SEAL"
              /\ out' = Append(out, [n |-> l.n, whole |-> l.whole, first |-> l.first,
                                 kept |-> tail = l.tail])
              /\ Go(Reader, "free", l)
    /\ UNCHANGED <<shared, calls, placed>>

Free ==
    /\ Step(Reader, "free")
    /\ ring' = [ring EXCEPT ![Index(loc[Reader].tail)].tag = "FREE"]
    /\ Go(Reader, "pending", loc[Reader])
    /\ UNCHANGED <<head, tail, dirty, sum, drops, history>>

Pending ==
    /\ Step(Reader, "pending")
    /\ LET l == loc[Reader]
       IN  \/ tail <= l.tail /\ Go(Reader, "advance", [l EXCEPT !.tail = @ + l.size])
           \/ tail > l.tail /\ Go(Reader, "floop", [l EXCEPT !.tail = tail])
    /\ UNCHANGED <<shared, history>>

Advance ==
    /\ Step(Reader, "advance")
    /\ tail' = loc[Reader].tail
    /\ Go(Reader, "floop", loc[Reader])
    /\ UNCHANGED <<ring, head, dirty, sum, drops, history>>

ClearDirty ==
    /\ Step(Reader, "clear")
    /\ dirty' = FALSE
    /\ Go(Reader, "idle", NoLocals)
    /\ UNCHANGED <<ring, head, tail, sum, drops, history>>

-----------------------------------------------------------------------------
WriterStep(t) ==
    \/ LoadHead(t) \/ LookAtOldest(t) \/ DropOldest(t) \/ SkipUnsealed(t) \/ Reserve(t)
    \/ ReloadTail(t) \/ WriteHeader(t) \/ WriteText(t) \/ Seal(t) \/ Announce(t)

ReaderStep ==
    \/ FlashTail \/ FlashLoop \/ FlashTag \/ Resync \/ Scan \/ Recover \/ ReadHeader
    \/ Recheck \/ ReadText \/ Deliver \/ Free \/ Pending \/ Advance \/ ClearDirty

Next == \/ \E t \in Writers : (\E size \in Sizes : Dispatch(t, size)) \/ WriterStep(t)
        \/ Flash
        \/ ReaderStep

(***************************************************************************)
(* A call that began is carried through, and process_logs keeps being      *)
(* called; nobody is obliged to log.                                       *)
(***************************************************************************)
Fairness == /\ \A t \in Writers : WF_vars(WriterStep(t))
            /\ WF_vars(Flash)
            /\ WF_vars(ReaderStep)

Spec == Init /\ [][Next]_vars
FairSpec == Spec /\ Fairness

-----------------------------------------------------------------------------
Locals == [n : Nat, size : Nat, head : Nat, tail : Nat, next : Nat, tries : Nat,
           whole : BOOLEAN, first : BOOLEAN, since : Nat]

(***************************************************************************)
(* The types; sum counts no record that was not placed.                    *)
(***************************************************************************)
TypeOK ==
    /\ placed \in Seq([size : Sizes, pos : Nat])
    /\ out \in Seq([n : Nat, whole : BOOLEAN, first : BOOLEAN, kept : BOOLEAN])
    /\ ring \in [0 .. Words - 1 -> [rec : Nat, k : Nat, tag : {"SEAL", "FREE", "data"}]]
    /\ \A i \in 0 .. Words - 1 : ring[i].rec <= Len(placed)
    /\ head \in Nat /\ tail \in Nat
    /\ dirty \in BOOLEAN
    /\ sum \in 0 .. Len(placed) /\ drops \in Nat
    /\ at \in [Threads -> WriterPlaces \cup ReaderPlaces \cup {"idle"}]
    /\ loc \in [Threads -> Locals] /\ \A t \in Threads : loc[t].n <= Len(placed)

(***************************************************************************)
(* What the abstract log calls pending and delivered: the records tail has *)
(* not passed, and the numbers of those that came out and were passed.     *)
(* Records are passed in the order in which they were placed.              *)
(***************************************************************************)
Passed == Cardinality({ i \in DOMAIN placed : placed[i].pos < tail })
PendingRecords ==
    [i \in 1 .. Len(placed) - Passed |->
        [n |-> Passed + i, size |-> placed[Passed + i].size]]
Freed == Cardinality({ j \in DOMAIN out : out[j].n # 0 /\ placed[out[j].n].pos < tail })
DeliveredRecords == [j \in 1 .. Freed |-> out[j].n]

Log == INSTANCE LossyLog
         WITH pending <- PendingRecords, delivered <- DeliveredRecords, lost <- drops

(***************************************************************************)
(* The ring is the abstract bounded log: reservations, drops and           *)
(* deliveries of log_infra.c, in any interleaving, are the steps of a      *)
(* queue of whole records, and the two counters add up.                    *)
(***************************************************************************)
ImplementsLossyLog == Log!Spec

(***************************************************************************)
(* Every record that comes out is the record of one call, whole, and comes *)
(* out once.                                                               *)
(***************************************************************************)
WholeOnce == /\ \A i \in DOMAIN out : out[i].n # 0 /\ out[i].whole
             /\ \A i, j \in DOMAIN out : out[i].n = out[j].n => i = j

(***************************************************************************)
(* The first word of the text is intact wherever in the ring the record    *)
(* lies.                                                                   *)
(***************************************************************************)
FirstWordIntact == \A i \in DOMAIN out : out[i].first

WordsOf(pos, size) == { Index(pos + k) : k \in 0 .. size - 1 }
Holding == { t \in Writers : at[t] \in {"header", "text", "seal"} }
Taking == at[Reader] \in {"recheck", "ftext", "verify", "free"}

(***************************************************************************)
(* The words a call has reserved and not yet sealed belong to no other     *)
(* call, and are never the words the reader is taking a record from.       *)
(***************************************************************************)
Exclusive ==
    \A t \in Holding :
        /\ \A u \in Holding \ {t} :
              WordsOf(loc[t].head, loc[t].size) \cap WordsOf(loc[u].head, loc[u].size) = {}
        /\ Taking => WordsOf(loc[t].head, loc[t].size)
                       \cap WordsOf(loc[Reader].tail, loc[Reader].size) = {}

(***************************************************************************)
(* However far writers drop records under the reader: a record that tail   *)
(* has not left while it was read comes out whole, and none comes out      *)
(* twice, since what was printed is marked free before tail can come back. *)
(***************************************************************************)
KeptWholeOnce == /\ \A i \in DOMAIN out : out[i].kept => out[i].n # 0 /\ out[i].whole
                 /\ \A i, j \in DOMAIN out : out[i].n = out[j].n => i = j

(***************************************************************************)
(* Nobody inside the logger and records left over: the ring is dirty, so   *)
(* the next process_logs takes them out.                                   *)
(***************************************************************************)
Quiet == \A t \in Threads : at[t] = "idle"
QuietMeansFlushed == Quiet /\ head # tail => dirty

(***************************************************************************)
(* log_flash returns, and so does every call of log_dispatch.              *)
(***************************************************************************)
FlashEnds == Reading ~> ~Reading
CallsEnd == \A t \in Writers : t \in Logging ~> t \notin Logging
=============================================================================
