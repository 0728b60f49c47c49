---------------------------- MODULE LogRingProofs ----------------------------
(***************************************************************************)
(* The log ring for every size of the ring, every set of writers and any   *)
(* number of calls.  Without Overrun: what comes out is whole and comes    *)
(* out once, the words a call has reserved are its own, and the ring is    *)
(* the abstract log of LossyLog.  With Overrun: what tail has not left     *)
(* comes out whole, and nothing comes out twice.                           *)
(***************************************************************************)
EXTENDS LogRing, FiniteSetTheorems, SequenceTheorems, TLAPS

-----------------------------------------------------------------------------
(* Positions and words *)

LEMMA WordsFacts == /\ Words \in Nat /\ Words >= 4
                    /\ \A s \in Sizes : s \in Nat /\ 4 <= s /\ s <= Words
                    /\ Writers \subseteq Threads /\ Reader \in Threads /\ IsFiniteSet(Writers)
  <1>1. Words \in Nat /\ \A s \in Sizes : s \in 4 .. Words
    BY RingAssumption
  <1>2. \E s : s \in Sizes
    BY RingAssumption
  <1> QED
    BY <1>1, <1>2, ThreadAssumption DEF Threads

\* Two positions less than the size of the ring apart have different words.
LEMMA Apart ==
    ASSUME NEW p \in Nat, NEW q \in Nat, Index(p) = Index(q), p <= q, q < p + Words
    PROVE  p = q
  <1>1. Words \in Nat /\ Words > 0
    BY WordsFacts
  <1> DEFINE a == p \div Words
             b == q \div Words
             r == p % Words
  <1>2. a \in Nat /\ b \in Nat /\ r \in Nat /\ r = q % Words
    BY <1>1 DEF Index
  <1>3. p = (a * Words) + r /\ q = (b * Words) + r
    BY <1>1, <1>2 DEF Index
  <1> HIDE DEF a, b, r
  <1>4. ((b - a) * Words) < Words /\ ((b - a) * Words) >= 0
    BY <1>1, <1>2, <1>3
  <1>5. b - a < 1
    BY <1>1, <1>2, <1>4
  <1>6. b - a > -1
    BY <1>1, <1>2, <1>4
  <1> QED
    BY <1>2, <1>3, <1>5, <1>6

LEMMA IndexType == ASSUME NEW p \in Nat PROVE Index(p) \in 0 .. Words - 1
  BY WordsFacts DEF Index

(***************************************************************************)
(* What one more call wants is added to what the others want.              *)
(***************************************************************************)
LEMMA WordsForMore ==
    ASSUME NEW calling \in SUBSET Writers, NEW t \in Writers \ calling, NEW size, NEW more,
           size[t] \in 0 .. Words, \A u \in calling : more[u] = size[u], more[t] = size[t]
    PROVE  /\ Cardinality(WordsFor(calling, size)) \in Nat
           /\ Cardinality(WordsFor(calling \cup {t}, more))
                = Cardinality(WordsFor(calling, size)) + size[t]
  <1> DEFINE S == WordsFor(calling, size)
             T == {t} \X (1 .. size[t])
  <1>1. WordsFor(calling \cup {t}, more) = S \cup T
    <2>1. ASSUME NEW c, NEW z, NEW w
          PROVE  w \in WordsFor(c, z) <=> \E u \in c, k \in 1 .. Words : w = <<u, k>> /\ k <= z[u]
      BY DEF WordsFor
    <2>2. ASSUME NEW w PROVE w \in T <=> \E k \in 1 .. Words : w = <<t, k>> /\ k <= size[t]
      BY WordsFacts
    <2> QED
      BY <2>1, <2>2
  <1>2. S \cap T = {}
    BY DEF WordsFor
  <1>3. IsFiniteSet(T) /\ Cardinality(T) = size[t]
    <2>1. IsFiniteSet(1 .. size[t]) /\ Cardinality(1 .. size[t]) = size[t]
      BY FS_Interval
    <2>2. IsFiniteSet({t}) /\ Cardinality({t}) = 1
      BY FS_Singleton
    <2>3. IsFiniteSet(T) /\ Cardinality(T) = Cardinality({t}) * Cardinality(1 .. size[t])
      BY <2>1, <2>2, FS_Product
    <2> QED
      BY <2>1, <2>2, <2>3
  <1>4. IsFiniteSet(S)
    <2>1. IsFiniteSet(calling) /\ IsFiniteSet(1 .. Words)
      BY WordsFacts, FS_Subset, FS_Interval
    <2>2. IsFiniteSet(calling \X (1 .. Words))
      BY <2>1, FS_Product
    <2> QED
      BY <2>2, FS_Subset DEF WordsFor
  <1> HIDE DEF S, T
  <1>5. Cardinality(S) \in Nat
    BY <1>4, FS_CardinalityType
  <1>6. Cardinality(S \cup T) = Cardinality(S) + Cardinality(T) - Cardinality(S \cap T)
    BY <1>3, <1>4, FS_Union
  <1>7. Cardinality(S \cap T) = 0
    BY <1>2, FS_EmptySet
  <1>8. size[t] \in Nat
    BY WordsFacts
  <1>9. Cardinality(S \cup T) = Cardinality(S) + size[t]
    BY <1>3, <1>5, <1>6, <1>7, <1>8
  <1> QED
    BY <1>1, <1>5, <1>9 DEF S

\* What the calls want depends on their own sizes only.
LEMMA WordsForSame ==
    ASSUME NEW calling, NEW size, NEW more, \A u \in calling : more[u] = size[u]
    PROVE  WordsFor(calling, more) = WordsFor(calling, size)
  BY DEF WordsFor

-----------------------------------------------------------------------------
(* Types *)

Places == WriterPlaces \cup ReaderPlaces \cup {"idle"}
Placing == { t \in Writers : at[t] \in {"header", "text", "seal", "announce"} }

\* A call counts its record after it has placed it.
SumInv == sum + Cardinality(Placing) = Len(placed)

TypeInv == /\ TypeOK /\ SumInv
           /\ \A t \in Holding : loc[t].n \in DOMAIN placed
           /\ \A t \in Logging : loc[t].size \in Sizes

LEMMA Moved ==
    ASSUME TypeOK, NEW t \in Threads, NEW a \in Places, NEW l \in Locals, Go(t, a, l)
    PROVE  /\ at' \in [Threads -> Places] /\ loc' \in [Threads -> Locals]
           /\ at'[t] = a /\ loc'[t] = l
           /\ \A u \in Threads \ {t} : at'[u] = at[u] /\ loc'[u] = loc[u]
  BY DEF TypeOK, Go, Places

\* A step that stays inside, or outside, of the calls that have placed a record.
LEMMA MovedTypes ==
    ASSUME TypeInv, NEW t \in Threads, NEW a \in Places, NEW l \in Locals, Go(t, a, l),
           l.n <= Len(placed), UNCHANGED <<placed, sum>>, a \in WriterPlaces => l.size \in Sizes,
           t \in Placing => a \in {"text", "seal", "announce"} /\ l.n = loc[t].n,
           t \notin Placing => a \notin {"header", "text", "seal", "announce"},
           a \in {"text", "seal"} => t \in Holding
    PROVE  /\ at' \in [Threads -> Places] /\ loc' \in [Threads -> Locals]
           /\ \A u \in Threads : loc'[u].n <= Len(placed)
           /\ SumInv' /\ \A u \in Holding' : loc'[u].n \in DOMAIN placed'
           /\ \A u \in Logging' : loc'[u].size \in Sizes
  <1>1. /\ at' \in [Threads -> Places] /\ loc' \in [Threads -> Locals]
        /\ at'[t] = a /\ loc'[t] = l
        /\ \A u \in Threads \ {t} : at'[u] = at[u] /\ loc'[u] = loc[u]
    BY Moved DEF TypeInv
  <1>2. \A u \in Threads : loc'[u].n <= Len(placed)
    BY <1>1 DEF TypeInv, TypeOK
  <1>3. Placing' = Placing
    BY <1>1, WordsFacts DEF Placing
  <1>4. ASSUME NEW u \in Holding' PROVE u \in Holding /\ loc'[u].n = loc[u].n
    BY <1>1, <1>4, WordsFacts DEF Holding, Placing
  <1>5. ASSUME NEW u \in Logging' PROVE loc'[u].size \in Sizes
    BY <1>1, <1>5, WordsFacts DEF Logging, Places, WriterPlaces, ReaderPlaces, TypeInv
  <1> QED
    BY <1>1, <1>2, <1>3, <1>4, <1>5 DEF TypeInv, SumInv

LEMMA LoggingIf == ASSUME NEW t \in Writers, at[t] \in WriterPlaces PROVE t \in Logging
  BY DEF Logging, WriterPlaces, ReaderPlaces

LEMMA StoredAt ==
    ASSUME TypeOK, NEW l \in Locals, NEW from \in Nat, NEW to \in Nat, NEW i \in 0 .. Words - 1
    PROVE  \/ /\ \A k \in from .. to : i # Index(l.head + k)
              /\ Stored(l, from, to)[i] = ring[i]
           \/ \E k \in from .. to :
                 /\ i = Index(l.head + k)
                 /\ Stored(l, from, to)[i] = Word(l.n, k, IF k = 0 THEN "FREE" ELSE "data")
  <1>1. CASE \A k \in from .. to : i # Index(l.head + k)
    BY <1>1 DEF Stored
  <1>2. CASE \E k \in from .. to : i = Index(l.head + k)
    <2> DEFINE c == CHOOSE k \in from .. to : i = Index(l.head + k)
    <2>1. c \in from .. to /\ i = Index(l.head + c)
      BY <1>2
    <2>2. Stored(l, from, to)[i] = Word(l.n, c, IF c = 0 THEN "FREE" ELSE "data")
      BY <1>2 DEF Stored
    <2> HIDE DEF c
    <2> QED
      BY <2>1, <2>2
  <1> QED
    BY <1>1, <1>2

WordTypes == [rec : Nat, k : Nat, tag : {"SEAL", "FREE", "data"}]

LEMMA StoredTypes ==
    ASSUME TypeOK, NEW l \in Locals, NEW from \in Nat, NEW to \in Nat, l.n <= Len(placed)
    PROVE  /\ Stored(l, from, to) \in [0 .. Words - 1 -> WordTypes]
           /\ \A i \in 0 .. Words - 1 : Stored(l, from, to)[i].rec <= Len(placed)
  <1> DEFINE S == Stored(l, from, to)
  <1>1. \A i \in 0 .. Words - 1 : S[i] = ring[i] \/ \E k \in Nat : S[i] = Word(l.n, k, IF k = 0 THEN "FREE" ELSE "data")
    BY StoredAt
  <1>2. \A k \in Nat : /\ Word(l.n, k, IF k = 0 THEN "FREE" ELSE "data") \in WordTypes
                      /\ Word(l.n, k, IF k = 0 THEN "FREE" ELSE "data").rec = l.n
    BY DEF Word, WordTypes, Locals
  <1>3. \A i \in 0 .. Words - 1 : ring[i] \in WordTypes /\ ring[i].rec <= Len(placed)
    BY DEF TypeOK, WordTypes
  <1>4. S = [i \in 0 .. Words - 1 |-> S[i]]
    BY DEF Stored
  <1> HIDE DEF S
  <1> QED
    BY <1>1, <1>2, <1>3, <1>4 DEF S

LEMMA PlacedTypes ==
    ASSUME TypeOK
    PROVE  /\ Len(placed) \in Nat /\ DOMAIN placed = 1 .. Len(placed)
           /\ \A i \in DOMAIN placed : placed[i].size \in Sizes /\ placed[i].pos \in Nat
  <1> DEFINE R == [size : Sizes, pos : Nat]
  <1>1. placed \in Seq(R)
    BY DEF TypeOK
  <1> HIDE DEF R
  <1>2. Len(placed) \in Nat /\ DOMAIN placed = 1 .. Len(placed)
    BY <1>1
  <1>3. \A i \in DOMAIN placed : placed[i] \in R
    BY <1>1, <1>2
  <1> QED
    BY <1>2, <1>3 DEF R

LEMMA ClaimTypes ==
    ASSUME TypeOK, NEW p \in Nat, NEW s \in Claims(p)
    PROVE  s \in Sizes /\ s \in Nat
  <1>1. Index(p + 1) \in 0 .. Words - 1
    BY IndexType
  <1>2. ring[Index(p + 1)].rec \in 0 .. Len(placed)
    BY <1>1 DEF TypeOK
  <1>3. \A i \in 1 .. Len(placed) : placed[i].size \in Sizes
    BY PlacedTypes
  <1> QED
    BY <1>2, <1>3, WordsFacts DEF Claims

\* The steps of a call that touch nothing but its own variables.
LEMMA PrivateTypes ==
    ASSUME TypeInv, NEW t \in Writers,
           LoadHead(t) \/ LookAtOldest(t) \/ ReloadTail(t)
    PROVE  TypeInv'
  <1>1. loc[t] \in Locals /\ head \in Nat /\ tail \in Nat /\ t \in Threads /\ loc[t].n <= Len(placed)
    BY WordsFacts DEF TypeInv, TypeOK
  <1>2. \E a \in {"space", "drop", "skip"}, l \in Locals : Go(t, a, l) /\ l.n = loc[t].n /\ l.size = loc[t].size
    <2>1. CASE LoadHead(t)
      BY <1>1, <2>1, SMTT(20) DEF LoadHead, Locals
    <2>2. CASE ReloadTail(t)
      BY <1>1, <2>2, SMTT(20) DEF ReloadTail, Locals
    <2>3. CASE LookAtOldest(t)
      <3>1. CASE Go(t, "skip", [loc[t] EXCEPT !.next = loc[t].tail + 2])
        <4>2. PICK v \in Nat : v = loc[t].tail + 2
          BY <1>1 DEF Locals
        <4> DEFINE l == [loc[t] EXCEPT !.next = v]
        <4>1. l \in Locals /\ l.n = loc[t].n /\ l.size = loc[t].size
          BY <1>1 DEF Locals
        <4> HIDE DEF l
        <4> QED
          BY <3>1, <4>1, <4>2 DEF l
      <3>2. ASSUME NEW s \in Claims(loc[t].tail), Go(t, "drop", [loc[t] EXCEPT !.next = loc[t].tail + s])
            PROVE  \E l \in Locals : Go(t, "drop", l) /\ l.n = loc[t].n /\ l.size = loc[t].size
        <4>1. s \in Nat
          BY <1>1, ClaimTypes DEF Locals, TypeInv
        <4>2. PICK v \in Nat : v = loc[t].tail + s
          BY <1>1, <4>1 DEF Locals
        <4> DEFINE l == [loc[t] EXCEPT !.next = v]
        <4>3. l \in Locals /\ l.n = loc[t].n /\ l.size = loc[t].size
          BY <1>1 DEF Locals
        <4> HIDE DEF l
        <4> QED
          BY <3>2, <4>2, <4>3 DEF l
      <3> QED
        BY <2>3, <3>1, <3>2 DEF LookAtOldest
    <2> QED
      BY <2>1, <2>2, <2>3
  <1>3. /\ at[t] \in {"head", "space", "reload"}
        /\ UNCHANGED <<placed, out, ring, head, tail, dirty, sum, drops>>
    BY DEF LoadHead, LookAtOldest, ReloadTail, Step, shared, history
  <1>4. loc[t].size \in Sizes
    BY <1>3, LoggingIf DEF TypeInv, WriterPlaces
  <1> QED
    BY <1>1, <1>2, <1>3, <1>4, MovedTypes
       DEF TypeInv, TypeOK, Placing, Places, WriterPlaces, Holding

LEMMA DispatchTypes ==
    ASSUME TypeInv, NEW t \in Writers, NEW size \in Sizes, Dispatch(t, size)
    PROVE  TypeInv'
  <1> DEFINE l == [NoLocals EXCEPT !.size = size, !.tail = tail, !.tries = Retries, !.since = head]
  <1>1. l \in Locals /\ l.n = 0 /\ l.size = size
    BY WordsFacts, ThreadAssumption DEF NoLocals, Locals, TypeInv, TypeOK
  <1> HIDE DEF l
  <1>2. /\ at[t] = "idle" /\ Go(t, "head", l) /\ t \in Threads
        /\ UNCHANGED <<placed, out, ring, head, tail, dirty, sum, drops>>
    BY WordsFacts DEF Dispatch, Step, shared, l
  <1>3. Len(placed) \in Nat
    BY PlacedTypes DEF TypeInv
  <1>4. /\ at' \in [Threads -> Places] /\ loc' \in [Threads -> Locals]
        /\ \A u \in Threads : loc'[u].n <= Len(placed)
        /\ SumInv' /\ \A u \in Holding' : loc'[u].n \in DOMAIN placed'
        /\ \A u \in Logging' : loc'[u].size \in Sizes
    <2>1. t \notin Placing
      BY <1>2 DEF Placing
    <2>2. "head" \in Places
      BY DEF Places, WriterPlaces
    <2>3. l.n <= Len(placed) /\ l.size \in Sizes
      BY <1>1, <1>3
    <2>4. UNCHANGED <<placed, sum>>
      BY <1>2
    <2> QED
      BY <1>1, <1>2, <2>1, <2>2, <2>3, <2>4, MovedTypes
  <1> QED
    BY <1>2, <1>4 DEF TypeInv, TypeOK, Places

LEMMA DropTypes ==
    ASSUME TypeInv, NEW t \in Writers, DropOldest(t) \/ SkipUnsealed(t)
    PROVE  TypeInv'
  <1>1. loc[t] \in Locals /\ tail \in Nat /\ drops \in Nat /\ t \in Threads /\ loc[t].n <= Len(placed)
    BY WordsFacts DEF TypeInv, TypeOK
  <1>2. PICK v \in Nat : Go(t, "space", [loc[t] EXCEPT !.tail = v])
    BY <1>1 DEF DropOldest, SkipUnsealed, Locals
  <1> DEFINE l == [loc[t] EXCEPT !.tail = v]
  <1>3. l \in Locals /\ l.n = loc[t].n /\ l.size = loc[t].size /\ Go(t, "space", l)
    BY <1>1, <1>2 DEF Locals
  <1> HIDE DEF l
  <1>4. /\ at[t] \in {"drop", "skip"} /\ tail' \in Nat /\ drops' \in Nat
        /\ UNCHANGED <<placed, out, ring, head, dirty, sum>>
    BY <1>1 DEF DropOldest, SkipUnsealed, Step, history, Locals
  <1>5. loc[t].size \in Sizes
    BY <1>4, LoggingIf DEF TypeInv, WriterPlaces
  <1> QED
    BY <1>1, <1>3, <1>4, <1>5, MovedTypes
       DEF TypeInv, TypeOK, Placing, Places, WriterPlaces, Holding

LEMMA ReserveTypes ==
    ASSUME TypeInv, NEW t \in Writers, Reserve(t)
    PROVE  TypeInv'
  <1>1. /\ loc[t] \in Locals /\ head \in Nat /\ t \in Threads /\ loc[t].n <= Len(placed)
        /\ loc[t].size \in Nat /\ loc[t].size \in Sizes /\ at[t] = "space"
    BY WordsFacts, LoggingIf DEF TypeInv, TypeOK, Reserve, Step, WriterPlaces
  <1>2. UNCHANGED <<out, ring, tail, dirty, sum, drops>>
    BY DEF Reserve
  <1>3. CASE head = loc[t].head /\ Go(t, "header", [loc[t] EXCEPT !.n = Len(placed) + 1])
    <2>1. /\ head' = head + loc[t].size
          /\ placed' = Append(placed, [size |-> loc[t].size, pos |-> head])
      BY <1>3 DEF Reserve
    <2>2. /\ placed' \in Seq([size : Sizes, pos : Nat]) /\ Len(placed') = Len(placed) + 1
          /\ DOMAIN placed \subseteq DOMAIN placed' /\ Len(placed') \in DOMAIN placed'
      <3> DEFINE R == [size : Sizes, pos : Nat]
                 r == [size |-> loc[t].size, pos |-> head]
      <3>1. r \in R /\ placed \in Seq(R)
        BY <1>1 DEF TypeInv, TypeOK
      <3> HIDE DEF r, R
      <3>2. placed' \in Seq(R) /\ Len(placed') = Len(placed) + 1
        BY <2>1, <3>1 DEF r
      <3> QED
        BY <3>1, <3>2 DEF R
    <2>3. PICK v \in Nat : v = Len(placed) + 1
      BY PlacedTypes DEF TypeInv
    <2> DEFINE l == [loc[t] EXCEPT !.n = v]
    <2>4. l \in Locals /\ l.n = v
      BY <1>1 DEF Locals
    <2> HIDE DEF l
    <2>5. /\ at' \in [Threads -> Places] /\ loc' \in [Threads -> Locals]
          /\ at'[t] = "header" /\ loc'[t] = l
          /\ \A u \in Threads \ {t} : at'[u] = at[u] /\ loc'[u] = loc[u]
      BY <1>1, <1>3, <2>3, <2>4, Moved DEF TypeInv, Places, WriterPlaces, l
    <2>6. SumInv'
      <3>1. Placing' = Placing \cup {t} /\ t \notin Placing
        BY <1>1, <2>5, WordsFacts DEF Placing
      <3>2. IsFiniteSet(Placing)
        BY WordsFacts, FS_Subset DEF Placing
      <3>3. Cardinality(Placing') = Cardinality(Placing) + 1 /\ Cardinality(Placing) \in Nat
        BY <3>1, <3>2, FS_AddElement, FS_CardinalityType
      <3>4. sum + Cardinality(Placing) = Len(placed) /\ sum \in Nat
        BY DEF TypeInv, SumInv, TypeOK
      <3>5. sum + Cardinality(Placing') = Len(placed')
        BY <2>2, <3>3, <3>4
      <3> QED
        BY <1>2, <3>5 DEF SumInv
    <2>7. \A u \in Holding' : loc'[u].n \in DOMAIN placed'
      BY <2>2, <2>3, <2>4, <2>5, WordsFacts DEF Holding, TypeInv
    <2>9. \A u \in Logging' : loc'[u].size \in Sizes
      <3>1. l.size = loc[t].size
        BY <1>1 DEF l, Locals
      <3>2. t \in Logging
        BY <1>1, LoggingIf DEF WriterPlaces
      <3> QED
        BY <1>1, <2>5, <3>1, <3>2, WordsFacts DEF Logging, TypeInv
    <2>8. /\ \A u \in Threads : loc'[u].n <= Len(placed')
          /\ \A i \in 0 .. Words - 1 : ring[i].rec <= Len(placed')
          /\ sum \in 0 .. Len(placed') /\ Len(placed) \in Nat
      <3>1. Len(placed) \in Nat
        BY PlacedTypes DEF TypeInv
      <3>2. \A u \in Threads : loc[u].n <= Len(placed) /\ loc[u].n \in Nat
        BY DEF TypeInv, TypeOK, Locals
      <3>3. \A i \in 0 .. Words - 1 : ring[i].rec <= Len(placed) /\ ring[i].rec \in Nat
        BY DEF TypeInv, TypeOK
      <3>4. sum \in 0 .. Len(placed)
        BY DEF TypeInv, TypeOK
      <3>5. \A u \in Threads : loc'[u].n <= Len(placed')
        BY <2>2, <2>3, <2>4, <2>5, <3>1, <3>2
      <3> QED
        BY <2>2, <3>1, <3>3, <3>4, <3>5
    <2> QED
      BY <1>1, <1>2, <2>1, <2>2, <2>5, <2>6, <2>7, <2>8, <2>9 DEF TypeInv, TypeOK, Places
  <1>4. CASE UNCHANGED <<head, placed>>
    <2>1. \E a \in {"reload", "idle"}, l \in Locals : 
                /\ Go(t, a, l) /\ l.n <= Len(placed) /\ (a = "reload" => l.size = loc[t].size)
      <3>1. NoLocals \in Locals /\ NoLocals.n <= Len(placed)
        BY PlacedTypes DEF NoLocals, Locals, TypeInv
      <3>2. CASE loc[t].tries > 1 /\ Go(t, "reload", [loc[t] EXCEPT !.head = head, !.tries = @ - 1])
        <4>1. PICK v \in Nat : v = loc[t].tries - 1
          BY <1>1, <3>2 DEF Locals
        <4>2. /\ [loc[t] EXCEPT !.head = head, !.tries = v] \in Locals
              /\ [loc[t] EXCEPT !.head = head, !.tries = v].n = loc[t].n
              /\ [loc[t] EXCEPT !.head = head, !.tries = v].size = loc[t].size
          BY <1>1 DEF Locals
        <4> QED
          BY <1>1, <3>2, <4>1, <4>2
      <3>3. head' # head + loc[t].size
        BY <1>1, <1>4, WordsFacts
      <3> QED
        BY <3>1, <3>2, <3>3 DEF Reserve
    <2> QED
      BY <1>1, <1>2, <1>4, <2>1, MovedTypes
         DEF TypeInv, TypeOK, Placing, Places, WriterPlaces, Holding
  <1> QED
    BY <1>3, <1>4 DEF Reserve

LEMMA WriteTypes ==
    ASSUME TypeInv, NEW t \in Writers, WriteHeader(t) \/ WriteText(t) \/ Seal(t)
    PROVE  TypeInv'
  <1>1. /\ loc[t] \in Locals /\ t \in Threads /\ loc[t].n <= Len(placed)
        /\ UNCHANGED <<placed, out, head, tail, dirty, sum, drops>>
    BY WordsFacts DEF TypeInv, TypeOK, WriteHeader, WriteText, Seal, history
  <1>2. PICK a \in {"text", "seal", "announce"} : Go(t, a, loc[t])
    BY DEF WriteHeader, WriteText, Seal
  <1>3. at[t] \in {"header", "text", "seal"}
    BY DEF WriteHeader, WriteText, Seal, Step
  <1>5. loc[t].size \in Sizes
    BY <1>3, LoggingIf DEF TypeInv, WriterPlaces
  <1>4. ring' \in [0 .. Words - 1 -> WordTypes] /\ \A i \in 0 .. Words - 1 : ring'[i].rec <= Len(placed)
    <2>1. CASE WriteHeader(t)
      <3> DEFINE S == Stored(loc[t], 0, 2)
      <3>1. PICK stamp \in Stamps : ring' = [S EXCEPT ![Index(loc[t].head + 2)].tag = stamp]
        BY <2>1 DEF WriteHeader
      <3>2. stamp \in {"SEAL", "data"}
        BY RingAssumption
      <3>3. S \in [0 .. Words - 1 -> WordTypes] /\ \A i \in 0 .. Words - 1 : S[i].rec <= Len(placed)
        BY <1>1, StoredTypes DEF TypeInv
      <3> HIDE DEF S
      <3> QED
        BY <3>1, <3>2, <3>3 DEF WordTypes
    <2>2. CASE WriteText(t)
      <3>1. loc[t].size - 1 \in Nat \/ 3 .. loc[t].size - 1 = {}
        BY <1>1 DEF Locals
      <3>2. ring' = Stored(loc[t], 3, loc[t].size - 1)
        BY <2>2 DEF WriteText
      <3>3. CASE loc[t].size - 1 \in Nat
        BY <1>1, <3>2, <3>3, StoredTypes DEF TypeInv
      <3>4. CASE 3 .. loc[t].size - 1 = {}
        <4>1. ring' = [i \in 0 .. Words - 1 |-> ring[i]]
          BY <3>2, <3>4 DEF Stored
        <4> QED
          BY <4>1 DEF TypeInv, TypeOK, WordTypes
      <3> QED
        BY <3>1, <3>3, <3>4
    <2>3. CASE Seal(t)
      BY <2>3 DEF Seal, TypeInv, TypeOK, WordTypes
    <2> QED
      BY <2>1, <2>2, <2>3
  <1> QED
    BY <1>1, <1>2, <1>3, <1>4, <1>5, MovedTypes
       DEF TypeInv, TypeOK, Placing, Places, WriterPlaces, Holding, WordTypes

LEMMA AnnounceTypes ==
    ASSUME TypeInv, NEW t \in Writers, Announce(t)
    PROVE  TypeInv'
  <1>1. /\ at[t] = "announce" /\ t \in Threads /\ Go(t, "idle", NoLocals) /\ sum' = sum + 1
        /\ UNCHANGED <<placed, out, ring, head, tail, drops>> /\ dirty' \in BOOLEAN
    BY WordsFacts DEF Announce, Step, history
  <1>2. NoLocals \in Locals /\ NoLocals.n = 0 /\ Len(placed) \in Nat
    BY PlacedTypes DEF NoLocals, Locals, TypeInv
  <1>3. /\ at' \in [Threads -> Places] /\ loc' \in [Threads -> Locals]
        /\ at'[t] = "idle" /\ loc'[t] = NoLocals
        /\ \A u \in Threads \ {t} : at'[u] = at[u] /\ loc'[u] = loc[u]
    BY <1>1, <1>2, Moved DEF TypeInv, Places
  <1>4. SumInv' /\ sum' \in 0 .. Len(placed)
    <2>1. Placing' = Placing \ {t} /\ t \in Placing
      BY <1>1, <1>3, WordsFacts DEF Placing
    <2>2. IsFiniteSet(Placing)
      BY WordsFacts, FS_Subset DEF Placing
    <2>3. Cardinality(Placing') = Cardinality(Placing) - 1 /\ Cardinality(Placing) \in Nat
          /\ Cardinality(Placing') \in Nat
      BY <2>1, <2>2, FS_RemoveElement, FS_CardinalityType
    <2> QED
      BY <1>1, <1>2, <2>3 DEF TypeInv, SumInv, TypeOK
  <1>5. \A u \in Holding' : loc'[u].n \in DOMAIN placed
    BY <1>3, WordsFacts DEF Holding, TypeInv
  <1>6. \A u \in Logging' : loc'[u].size \in Sizes
    BY <1>1, <1>3, WordsFacts DEF Logging, TypeInv
  <1> QED
    BY <1>1, <1>2, <1>3, <1>4, <1>5, <1>6 DEF TypeInv, TypeOK, Places


\* A step of log_flash, and its beginning.
LEMMA ReaderMoved ==
    ASSUME TypeInv, at[Reader] \in ReaderPlaces \cup {"idle"}, UNCHANGED <<placed, sum>>,
           NEW a \in ReaderPlaces \cup {"idle"}, NEW l \in Locals, l.n <= Len(placed),
           Go(Reader, a, l)
    PROVE  /\ at' \in [Threads -> Places] /\ loc' \in [Threads -> Locals]
           /\ \A u \in Threads : loc'[u].n <= Len(placed)
           /\ SumInv' /\ \A u \in Holding' : loc'[u].n \in DOMAIN placed'
           /\ \A u \in Logging' : loc'[u].size \in Sizes
  <1>1. Reader \notin Placing /\ a \notin WriterPlaces
        /\ a \notin {"header", "text", "seal", "announce"}
    BY DEF Placing, ReaderPlaces, WriterPlaces
  <1>2. a \in Places /\ Reader \in Threads
    BY WordsFacts DEF Places
  <1> QED
    BY <1>1, <1>2, MovedTypes

LEMMA ReaderLocals ==
    ASSUME TypeInv
    PROVE  /\ loc[Reader] \in Locals /\ loc[Reader].n <= Len(placed) /\ Len(placed) \in Nat
           /\ head \in Nat /\ tail \in Nat
           /\ loc[Reader].tail \in Nat /\ loc[Reader].size \in Nat
           /\ \A v \in Nat : /\ [loc[Reader] EXCEPT !.tail = v] \in Locals
                             /\ [loc[Reader] EXCEPT !.tail = v].n = loc[Reader].n
           /\ \A v \in Nat : /\ [NoLocals EXCEPT !.head = v] \in Locals
                             /\ [NoLocals EXCEPT !.head = v].n <= Len(placed)
           /\ NoLocals \in Locals /\ NoLocals.n <= Len(placed)
  <1>1. loc[Reader] \in Locals /\ loc[Reader].n <= Len(placed) /\ Len(placed) \in Nat
        /\ head \in Nat /\ tail \in Nat
    BY WordsFacts, PlacedTypes DEF TypeInv, TypeOK
  <1>2. loc[Reader].tail \in Nat /\ loc[Reader].size \in Nat
    BY <1>1 DEF Locals
  <1>3. ASSUME NEW v \in Nat
        PROVE  [loc[Reader] EXCEPT !.tail = v] \in Locals
               /\ [loc[Reader] EXCEPT !.tail = v].n = loc[Reader].n
    BY <1>1 DEF Locals
  <1>4. ASSUME NEW v \in Nat
        PROVE  [NoLocals EXCEPT !.head = v] \in Locals /\ [NoLocals EXCEPT !.head = v].n = 0
    BY DEF Locals, NoLocals
  <1>5. NoLocals \in Locals /\ NoLocals.n = 0
    BY DEF Locals, NoLocals
  <1> QED
    BY <1>1, <1>2, <1>3, <1>4, <1>5

\* The steps that touch nothing but the variables of log_flash.
LEMMA ReaderPrivate ==
    ASSUME TypeInv,
           Flash \/ FlashTail \/ FlashLoop \/ FlashTag \/ Resync \/ Scan \/ Recheck \/ Pending
             \/ ReadHeader \/ ReadText
    PROVE  TypeInv'
  <1>1. /\ at[Reader] \in ReaderPlaces \cup {"idle"}
        /\ UNCHANGED <<placed, out, ring, head, tail, dirty, sum, drops>>
    BY DEF Flash, FlashTail, FlashLoop, FlashTag, Resync, Scan, Recheck, Pending, ReadHeader,
           ReadText, Step, ReaderPlaces, shared, history
  <1>2. \E a \in ReaderPlaces \cup {"idle"}, l \in Locals : l.n <= Len(placed) /\ Go(Reader, a, l)
    <2> DEFINE Moves(l) == \E a \in ReaderPlaces : Go(Reader, a, l)
    <2>1. CASE Flash \/ FlashTail
      BY <2>1, ReaderLocals DEF Flash, FlashTail, ReaderPlaces
    <2>2. CASE FlashLoop
      BY <2>2, ReaderLocals DEF FlashLoop, ReaderPlaces
    <2>3. CASE FlashTag
      BY <2>3, ReaderLocals DEF FlashTag, ReaderPlaces
    <2>4. CASE Resync \/ Recheck
      BY <2>4, ReaderLocals DEF Resync, Recheck, ReaderPlaces
    <2>5. CASE Scan
      <3>1. PICK v \in Nat : v = loc[Reader].tail + 2
        BY ReaderLocals
      <3> QED
        BY <2>5, <3>1, ReaderLocals DEF Scan, ReaderPlaces
    <2>6. CASE Pending
      <3>1. PICK v \in Nat : v = loc[Reader].tail + loc[Reader].size
        BY ReaderLocals
      <3> QED
        BY <2>6, <3>1, ReaderLocals DEF Pending, ReaderPlaces
    <2>7. CASE ReadHeader
      <3>1. PICK s \in Claims(loc[Reader].tail), w \in BOOLEAN :
               Go(Reader, "recheck",
                  [loc[Reader] EXCEPT !.n = ring[Index(loc[Reader].tail)].rec, !.size = s,
                                      !.whole = w])
        BY <2>7 DEF ReadHeader, Holds
      <3>2. s \in Nat
        BY ReaderLocals, ClaimTypes DEF TypeInv, Locals
      <3>3. Index(loc[Reader].tail) \in 0 .. Words - 1
        BY ReaderLocals, IndexType, SMTT(20)
      <3>4. PICK n \in Nat : n = ring[Index(loc[Reader].tail)].rec /\ n <= Len(placed)
        BY <3>3 DEF TypeInv, TypeOK
      <3> DEFINE l == [loc[Reader] EXCEPT !.n = n, !.size = s, !.whole = w]
      <3>5. l \in Locals /\ l.n = n
        <4> HIDE DEF l
        <4>1. /\ l.n = n /\ l.size = s /\ l.whole = w /\ l.head = loc[Reader].head
          BY ReaderLocals DEF l, Locals
        <4> QED
          BY ReaderLocals, <3>2 DEF l, Locals
      <3> HIDE DEF l
      <3> QED
        BY <3>1, <3>4, <3>5 DEF l, ReaderPlaces
    <2>8. CASE ReadText
      <3>1. PICK f \in BOOLEAN, w \in BOOLEAN :
               Go(Reader, "verify", [loc[Reader] EXCEPT !.first = f, !.whole = w])
        BY <2>8 DEF ReadText
      <3> DEFINE l == [loc[Reader] EXCEPT !.first = f, !.whole = w]
      <3>2. l \in Locals /\ l.n = loc[Reader].n
        BY ReaderLocals DEF Locals
      <3> HIDE DEF l
      <3> QED
        BY <3>1, <3>2, ReaderLocals DEF l, ReaderPlaces
    <2> QED
      BY <2>1, <2>2, <2>3, <2>4, <2>5, <2>6, <2>7, <2>8
  <1> QED
    BY <1>1, <1>2, ReaderMoved DEF TypeInv, TypeOK, Places

LEMMA ReaderShared ==
    ASSUME TypeInv, Recover \/ Deliver \/ Free \/ Advance \/ ClearDirty
    PROVE  TypeInv'
  <1>1. /\ at[Reader] \in ReaderPlaces \cup {"idle"}
        /\ UNCHANGED <<placed, head, sum, drops>>
    BY DEF Recover, Deliver, Free, Advance, ClearDirty, Step, ReaderPlaces, shared, history
  <1>2. \E a \in ReaderPlaces \cup {"idle"}, l \in Locals : l.n <= Len(placed) /\ Go(Reader, a, l)
    <2>1. CASE Deliver
      BY <2>1, ReaderLocals DEF Deliver, ReaderPlaces
    <2>2. CASE Recover \/ Free \/ Advance \/ ClearDirty
      BY <2>2, ReaderLocals DEF Recover, Free, Advance, ClearDirty, ReaderPlaces
    <2> QED
      BY <2>1, <2>2
  <1>3. tail' \in Nat /\ dirty' \in BOOLEAN
    BY ReaderLocals DEF Recover, Deliver, Free, Advance, ClearDirty, shared, Locals, TypeInv, TypeOK
  <1>4. /\ ring' \in [0 .. Words - 1 -> WordTypes]
        /\ \A i \in 0 .. Words - 1 : ring'[i].rec <= Len(placed)
    <2>1. CASE Free
      BY <2>1 DEF Free, TypeInv, TypeOK, WordTypes
    <2>2. CASE UNCHANGED ring
      BY <2>2 DEF TypeInv, TypeOK, WordTypes
    <2> QED
      BY <2>1, <2>2 DEF Recover, Deliver, Advance, ClearDirty, shared
  <1>5. out' \in Seq([n : Nat, whole : BOOLEAN, first : BOOLEAN, kept : BOOLEAN])
    <2> DEFINE R == [n : Nat, whole : BOOLEAN, first : BOOLEAN, kept : BOOLEAN]
    <2>1. out \in Seq(R)
      BY DEF TypeInv, TypeOK
    <2>2. CASE UNCHANGED out
      BY <2>1, <2>2
    <2>4. CASE Deliver /\ ~UNCHANGED out
      <3>1. PICK k \in BOOLEAN :
              out' = Append(out, [n |-> loc[Reader].n, whole |-> loc[Reader].whole,
                                  first |-> loc[Reader].first, kept |-> k])
        BY <2>4 DEF Deliver
      <3> DEFINE r == [n |-> loc[Reader].n, whole |-> loc[Reader].whole,
                       first |-> loc[Reader].first, kept |-> k]
      <3>2. r \in R
        BY ReaderLocals DEF Locals
      <3>3. out' = Append(out, r)
        BY <3>1
      <3> HIDE DEF r, R
      <3>4. out' \in Seq(R)
        BY <2>1, <3>2, <3>3
      <3> QED
        BY <3>4 DEF R
    <2> QED
      BY <2>2, <2>4 DEF Recover, Free, Advance, ClearDirty, history, R
  <1> QED
    BY <1>1, <1>2, <1>3, <1>4, <1>5, ReaderMoved DEF TypeInv, TypeOK, Places, WordTypes

LEMMA InitTypes == Init => TypeInv
  <1> SUFFICES ASSUME Init PROVE TypeInv
    OBVIOUS
  <1>1. NoLocals \in Locals /\ NoLocals.n = 0
    BY DEF NoLocals, Locals
  <1>2. /\ ring = [i \in 0 .. Words - 1 |-> Blank] /\ head = 0 /\ tail = 0 /\ dirty = FALSE
        /\ sum = 0 /\ drops = 0 /\ at = [t \in Threads |-> "idle"]
        /\ loc = [t \in Threads |-> NoLocals] /\ placed = <<>> /\ out = <<>>
    BY DEF Init
  <1>3. Placing = {} /\ Holding = {} /\ Logging = {}
    BY <1>2, WordsFacts DEF Placing, Holding, Logging
  <1>4. Cardinality(Placing) = 0
    BY <1>3, FS_EmptySet
  <1>5. Blank \in [rec : Nat, k : Nat, tag : {"SEAL", "FREE", "data"}] /\ Blank.rec = 0
    BY DEF Blank, Word
  <1>6. Len(placed) = 0 /\ placed \in Seq([size : Sizes, pos : Nat])
        /\ out \in Seq([n : Nat, whole : BOOLEAN, first : BOOLEAN, kept : BOOLEAN])
    BY <1>2
  <1>8. /\ ring \in [0 .. Words - 1 -> [rec : Nat, k : Nat, tag : {"SEAL", "FREE", "data"}]]
        /\ \A i \in 0 .. Words - 1 : ring[i].rec <= Len(placed)
    BY <1>2, <1>5, <1>6
  <1>9. /\ at \in [Threads -> WriterPlaces \cup ReaderPlaces \cup {"idle"}]
        /\ loc \in [Threads -> Locals] /\ \A t \in Threads : loc[t].n <= Len(placed)
    BY <1>1, <1>2, <1>6
  <1>10. dirty \in BOOLEAN
    BY <1>2, Zenon
  <1>11. head \in Nat /\ tail \in Nat /\ sum \in 0 .. Len(placed) /\ drops \in Nat
    <2>1. head = 0 /\ tail = 0 /\ sum = 0 /\ drops = 0
      BY <1>2
    <2> QED
      BY <1>6, <2>1
  <1>7. TypeOK
    BY <1>6, <1>8, <1>9, <1>10, <1>11, Zenon DEF TypeOK
  <1> QED
    BY <1>2, <1>3, <1>4, <1>6, <1>7 DEF TypeInv, SumInv

LEMMA NextTypes == TypeInv /\ [Next]_vars => TypeInv'
  <1> SUFFICES ASSUME TypeInv, [Next]_vars PROVE TypeInv'
    OBVIOUS
  <1>1. CASE UNCHANGED vars
    BY <1>1 DEF vars, shared, history, TypeInv, TypeOK, SumInv, Placing, Holding, Logging
  <1>2. ASSUME NEW t \in Writers, NEW size \in Sizes, Dispatch(t, size) PROVE TypeInv'
    BY <1>2, DispatchTypes
  <1>3. ASSUME NEW t \in Writers, WriterStep(t) PROVE TypeInv'
    BY <1>3, PrivateTypes, DropTypes, ReserveTypes, WriteTypes, AnnounceTypes DEF WriterStep
  <1>4. CASE Flash \/ ReaderStep
    BY <1>4, ReaderPrivate, ReaderShared DEF ReaderStep
  <1> QED
    BY <1>1, <1>2, <1>3, <1>4 DEF Next

(***************************************************************************)
(* The variables keep their types, and no record is counted that was not   *)
(* placed, however far writers drop records under the reader.              *)
(***************************************************************************)
THEOREM TypesAlways == Spec => []TypeOK
  <1>1. TypeInv => TypeOK
    BY DEF TypeInv
  <1> QED
    BY InitTypes, NextTypes, <1>1, PTL DEF Spec

-----------------------------------------------------------------------------
(* What holds between the steps *)

Records == DOMAIN placed
Pos(i) == placed[i].pos
End(i) == placed[i].pos + placed[i].size
Boundary(p) == p = head \/ \E i \in Records : Pos(i) = p

\* The records lie behind each other, without a gap, up to head.
PlacedInv ==
    /\ \A i \in Records : End(i) <= head /\ Boundary(End(i))
    /\ \A i, j \in Records : i < j => End(i) <= Pos(j)

\* They fit the ring from tail on, and tail is at the beginning of one, or at head.
SpanInv == tail <= head /\ head <= tail + Words /\ Boundary(tail)

\* Up to where the calls under way will get.
Booked == head + Wanted

(***************************************************************************)
(* A call: tail is not beyond the place where head was when it began, and  *)
(* it fits the ring beside all that was logged since.  If the tail it has  *)
(* loaded is still the tail, it drops a record older than every call.      *)
(***************************************************************************)
Oldest(t) ==
    /\ at[t] = "drop"
    /\ \E i \in Records : Pos(i) = tail /\ loc[t].next = End(i)
    /\ \A u \in Logging : tail < loc[u].since

CallInv(t) ==
    /\ tail <= loc[t].since /\ loc[t].since <= head /\ Boundary(loc[t].since)
    /\ Booked <= loc[t].since + Words
    /\ loc[t].size \in Sizes
    /\ at[t] # "head" => loc[t].since <= loc[t].head /\ loc[t].head <= head
    /\ t \in Unreserved => loc[t].tail <= tail
    /\ at[t] \in {"drop", "skip"} /\ loc[t].tail = tail => Oldest(t)

\* Reserved words: those of the record that the call has placed, and no other call has.
HoldInv(t) ==
    /\ loc[t].n \in Records /\ Pos(loc[t].n) = loc[t].head /\ placed[loc[t].n].size = loc[t].size
    /\ \A u \in Holding \ {t} : loc[u].n # loc[t].n

\* What calls have written so far, and the tag of the records that are complete.
Written(i, k) ==
    \A t \in Holding : loc[t].n = i => at[t] = "seal" \/ (at[t] = "text" /\ k <= 2)
Sealed(i) ==
    /\ \A t \in Holding : loc[t].n # i
    /\ Pos(i) = tail => at[Reader] \notin {"pending", "advance"}

RingInv ==
    \A i \in Records : Pos(i) >= tail =>
        /\ \A k \in 0 .. placed[i].size - 1 :
              Written(i, k) => ring[Index(Pos(i) + k)].rec = i /\ ring[Index(Pos(i) + k)].k = k
        /\ Sealed(i) => ring[Index(Pos(i))].tag = "SEAL"

(***************************************************************************)
(* log_flash: what is logged beside it needs no drop, so its tail is the   *)
(* tail, and the record it takes out is older than every call.             *)
(***************************************************************************)
HasHeader == {"recheck", "ftext", "verify", "free", "pending", "advance"}
HasRecord == {"ftag", "fheader"} \cup HasHeader

ReadInv ==
    LET r == loc[Reader]
        place == at[Reader]
    IN  /\ Booked <= tail + Words
        /\ \A t \in Unreserved : loc[t].tail = tail /\ at[t] \notin {"drop", "skip"}
        /\ place \notin {"resync", "scan", "recover"}
        /\ place \in {"floop"} \cup (HasRecord \ {"advance"}) => r.tail = tail
        /\ r.head <= head
        /\ place \in HasRecord => tail < head /\ \A t \in Logging : tail < loc[t].since
        /\ place \in HasHeader => /\ r.n \in Records /\ Pos(r.n) = tail
                                  /\ placed[r.n].size = r.size
        /\ place \in {"recheck", "ftext", "verify"} => r.whole
        /\ place = "advance" => r.tail = tail + r.size

\* What came out is behind tail, but for the record that is being freed.
OutInv ==
    /\ \A j \in DOMAIN out :
          /\ out[j].n \in Records /\ out[j].whole
          /\ Pos(out[j].n) >= tail => /\ at[Reader] \in {"free", "pending", "advance"}
                                      /\ out[j].n = loc[Reader].n
    /\ \A i, j \in DOMAIN out : out[i].n = out[j].n => i = j

LogInv ==
    /\ PlacedInv /\ SpanInv
    /\ \A t \in Logging : CallInv(t)
    /\ \A t \in Holding : HoldInv(t)
    /\ RingInv
    /\ Reading => ReadInv
    /\ OutInv

-----------------------------------------------------------------------------
(* Consequences *)

LEMMA CallSets ==
    ASSUME TypeInv
    PROVE  /\ Unreserved \subseteq Logging /\ Holding \subseteq Logging /\ Logging \subseteq Writers
           /\ Unreserved \cap Holding = {} /\ Logging \subseteq Threads
           /\ \A t \in Writers : t \in Logging <=> at[t] \in WriterPlaces
           /\ Wanted \in Nat
           /\ \A t \in Unreserved : Wanted >= loc[t].size
  <1>1. /\ Unreserved \subseteq Logging /\ Holding \subseteq Logging /\ Logging \subseteq Writers
        /\ Unreserved \cap Holding = {}
    BY DEF Unreserved, Logging, Holding, ReaderPlaces
  <1>2. Logging \subseteq Threads
    BY <1>1, WordsFacts
  <1>3. \A t \in Writers : t \in Logging <=> at[t] \in WriterPlaces
    BY WordsFacts DEF TypeInv, TypeOK, Logging, WriterPlaces, ReaderPlaces
  <1> DEFINE size == [t \in Threads |-> loc[t].size]
  <1>4. \A t \in Logging : size[t] = loc[t].size /\ size[t] \in 0 .. Words
    BY <1>2, WordsFacts DEF TypeInv
  <1>5. Wanted \in Nat
    <2>1. CASE Unreserved = {}
      <3>1. WordsFor(Unreserved, size) = {}
        BY <2>1 DEF WordsFor
      <3> QED
        BY <3>1, FS_EmptySet DEF Wanted
    <2>2. ASSUME NEW t \in Unreserved PROVE Wanted \in Nat
      <3>1. Cardinality(WordsFor((Unreserved \ {t}) \cup {t}, size)) \in Nat
        <4>1. /\ Cardinality(WordsFor(Unreserved \ {t}, size)) \in Nat
              /\ Cardinality(WordsFor((Unreserved \ {t}) \cup {t}, size))
                   = Cardinality(WordsFor(Unreserved \ {t}, size)) + size[t]
          <5> HIDE DEF size
          <5> QED
            BY <1>1, <1>4, WordsForMore
        <4> QED
          BY <1>1, <1>4, <4>1
      <3>2. (Unreserved \ {t}) \cup {t} = Unreserved
        OBVIOUS
      <3> QED
        BY <3>1, <3>2 DEF Wanted
    <2> QED
      BY <2>1, <2>2
  <1>6. ASSUME NEW t \in Unreserved PROVE Wanted >= loc[t].size
    <2>1. /\ Cardinality(WordsFor(Unreserved \ {t}, size)) \in Nat
          /\ Cardinality(WordsFor((Unreserved \ {t}) \cup {t}, size))
               = Cardinality(WordsFor(Unreserved \ {t}, size)) + size[t]
      <3> HIDE DEF size
      <3> QED
        BY <1>1, <1>4, WordsForMore
    <2>2. (Unreserved \ {t}) \cup {t} = Unreserved
      OBVIOUS
    <2>3. Wanted = Cardinality(WordsFor(Unreserved \ {t}, size)) + loc[t].size
      BY <1>1, <1>4, <2>1, <2>2 DEF Wanted
    <2>4. loc[t].size \in Nat
      BY <1>1, WordsFacts DEF TypeInv
    <2> QED
      BY <2>1, <2>3, <2>4
  <1> QED
    BY <1>1, <1>2, <1>3, <1>5, <1>6

\* The position and the size of a record, as numbers.
LEMMA RecordTypes ==
    ASSUME TypeInv
    PROVE  /\ head \in Nat /\ tail \in Nat /\ Len(placed) \in Nat /\ Records = 1 .. Len(placed)
           /\ \A i \in Records : /\ Pos(i) \in Nat /\ placed[i].size \in Nat
                                 /\ 4 <= placed[i].size /\ placed[i].size <= Words
                                 /\ End(i) = Pos(i) + placed[i].size
           /\ \A t \in Threads : /\ loc[t].head \in Nat /\ loc[t].tail \in Nat /\ loc[t].next \in Nat
                                 /\ loc[t].size \in Nat /\ loc[t].since \in Nat /\ loc[t].n \in Nat
                                 /\ loc[t] \in Locals
           /\ \A t \in Logging : loc[t].size \in Sizes /\ 4 <= loc[t].size /\ loc[t].size <= Words
  <1>1. head \in Nat /\ tail \in Nat /\ \A t \in Threads : loc[t] \in Locals
    BY DEF TypeInv, TypeOK
  <1>2. \A i \in Records : placed[i].size \in Sizes /\ placed[i].pos \in Nat
    BY PlacedTypes DEF TypeInv, Records
  <1> QED
    BY <1>1, <1>2, PlacedTypes, WordsFacts DEF TypeInv, Records, Pos, End, Locals

\* The words of two records between tail and head are different, and so are those of one.
LEMMA WordsApart ==
    ASSUME TypeInv, PlacedInv, SpanInv,
           NEW i \in Records, NEW j \in Records, Pos(i) >= tail, Pos(j) >= tail,
           NEW k \in 0 .. placed[i].size - 1, NEW m \in 0 .. placed[j].size - 1,
           Index(Pos(i) + k) = Index(Pos(j) + m)
    PROVE  i = j /\ k = m
  <1>1. /\ Pos(i) \in Nat /\ Pos(j) \in Nat /\ placed[i].size \in Nat /\ placed[j].size \in Nat
        /\ head \in Nat /\ tail \in Nat /\ Words \in Nat /\ i \in Nat /\ j \in Nat
    <2>1. Records \subseteq Nat
      BY RecordTypes
    <2> QED
      BY <2>1, RecordTypes, WordsFacts
  <1>2. /\ Pos(i) + k < tail + Words /\ Pos(j) + m < tail + Words
        /\ Pos(i) + k \in Nat /\ Pos(j) + m \in Nat
    <2>1. Pos(i) + placed[i].size <= head /\ Pos(j) + placed[j].size <= head
      BY RecordTypes DEF PlacedInv
    <2>2. head <= tail + Words
      BY DEF SpanInv
    <2> QED
      BY <1>1, <2>1, <2>2
  <1>3. Pos(i) + k = Pos(j) + m
    <2>1. Pos(i) + k <= Pos(j) + m => Pos(i) + k = Pos(j) + m
      BY <1>1, <1>2, Apart
    <2>2. Pos(j) + m <= Pos(i) + k => Pos(i) + k = Pos(j) + m
      BY <1>1, <1>2, Apart
    <2> QED
      BY <1>2, <2>1, <2>2
  <1>4. i < j => Pos(i) + placed[i].size <= Pos(j)
    BY RecordTypes DEF PlacedInv
  <1>5. j < i => Pos(j) + placed[j].size <= Pos(i)
    BY RecordTypes DEF PlacedInv
  <1>6. i = j
    BY <1>1, <1>3, <1>4, <1>5
  <1> QED
    BY <1>1, <1>3, <1>6

\* The record whose words a call holds is behind tail.
LEMMA HeldRecord ==
    ASSUME TypeInv, LogInv, NEW t \in Holding
    PROVE  /\ t \in Logging /\ t \in Threads
           /\ loc[t].n \in Records /\ Pos(loc[t].n) = loc[t].head /\ loc[t].head >= loc[t].since
           /\ placed[loc[t].n].size = loc[t].size /\ Pos(loc[t].n) >= tail
  <1>1. t \in Logging /\ t \in Threads /\ at[t] # "head"
    BY CallSets DEF Holding
  <1> QED
    BY <1>1, RecordTypes DEF LogInv, CallInv, HoldInv

\* The record at tail, when every call began behind it, is complete.
LEMMA OldestRecord ==
    ASSUME TypeInv, LogInv, tail < head, \A u \in Logging : tail < loc[u].since,
           at[Reader] \notin {"pending", "advance"}
    PROVE  \E i \in Records :
              /\ Pos(i) = tail /\ i # 0
              /\ \A k \in 0 .. placed[i].size - 1 :
                    ring[Index(tail + k)].rec = i /\ ring[Index(tail + k)].k = k
              /\ ring[Index(tail)].tag = "SEAL" /\ Claims(tail) = {placed[i].size}
  <1>1. PICK i \in Records : Pos(i) = tail
    BY RecordTypes DEF LogInv, SpanInv, Boundary
  <1>2. \A t \in Holding : loc[t].n # i
    BY <1>1, HeldRecord, CallSets, RecordTypes
  <1>3. /\ \A k \in 0 .. placed[i].size - 1 :
              ring[Index(tail + k)].rec = i /\ ring[Index(tail + k)].k = k
        /\ ring[Index(tail)].tag = "SEAL"
    BY <1>1, <1>2, RecordTypes, SMTT(20) DEF LogInv, RingInv, Written, Sealed
  <1>4. i # 0 /\ 1 \in 0 .. placed[i].size - 1
    BY <1>1, RecordTypes
  <1>5. Claims(tail) = {placed[i].size}
    BY <1>3, <1>4 DEF Claims
  <1> QED
    BY <1>1, <1>3, <1>4, <1>5

\* While the reader takes a step nobody is logging.
LEMMA ReaderAlone ==
    ASSUME TypeInv, Runs(Reader), at[Reader] \in ReaderPlaces \cup {"idle"},
           NEW a \in ReaderPlaces \cup {"idle"}, NEW l \in Locals, Go(Reader, a, l)
    PROVE  /\ at'[Reader] = a /\ loc'[Reader] = l
           /\ Logging = {} /\ Holding = {} /\ Unreserved = {} /\ Wanted = 0
           /\ Logging' = {} /\ Holding' = {} /\ Unreserved' = {} /\ Wanted' = 0
  <1>1. /\ at'[Reader] = a /\ loc'[Reader] = l
        /\ \A u \in Threads \ {Reader} : at'[u] = at[u] /\ loc'[u] = loc[u]
    BY WordsFacts, Moved DEF TypeInv, Places
  <1>2. \A u \in Threads \ {Reader} : at[u] = "idle"
    BY ThreadAssumption DEF Runs
  <1>3. Logging = {} /\ Logging' = {}
    BY <1>1, <1>2, WordsFacts DEF Logging
  <1>4. Holding = {} /\ Unreserved = {} /\ Holding' = {} /\ Unreserved' = {}
    BY <1>1, <1>2, <1>3, WordsFacts DEF Holding, Unreserved, ReaderPlaces
  <1>5. ASSUME NEW size PROVE WordsFor({}, size) = {}
    BY DEF WordsFor
  <1>6. Wanted = 0 /\ Wanted' = 0
    BY <1>4, <1>5, FS_EmptySet DEF Wanted
  <1> QED
    BY <1>1, <1>3, <1>4, <1>6

-----------------------------------------------------------------------------
(* The steps of a call *)

\* A call that takes a step leaves log_flash, and the other calls, where they are.
LEMMA WriterMoved ==
    ASSUME TypeInv, NEW t \in Writers, at[t] \in WriterPlaces \cup {"idle"},
           NEW a \in WriterPlaces \cup {"idle"}, NEW l \in Locals, Go(t, a, l)
    PROVE  /\ t \in Threads /\ at'[t] = a /\ loc'[t] = l
           /\ \A u \in Threads \ {t} : at'[u] = at[u] /\ loc'[u] = loc[u]
           /\ Reading' <=> Reading
           /\ Reading => t # Reader /\ at'[Reader] = at[Reader] /\ loc'[Reader] = loc[Reader]
           /\ ~Reading => at[Reader] \notin ReaderPlaces /\ at'[Reader] \notin ReaderPlaces
           /\ Logging' = IF a = "idle" THEN Logging \ {t} ELSE Logging \cup {t}
           /\ Unreserved' = IF a \in {"head", "space", "drop", "skip", "reload"}
                            THEN Unreserved \cup {t} ELSE Unreserved \ {t}
           /\ Holding' = IF a \in {"header", "text", "seal"} THEN Holding \cup {t}
                         ELSE Holding \ {t}
  <1>1. /\ t \in Threads /\ at'[t] = a /\ loc'[t] = l
        /\ \A u \in Threads \ {t} : at'[u] = at[u] /\ loc'[u] = loc[u]
    BY WordsFacts, Moved DEF TypeInv, Places
  <1>2. a \notin ReaderPlaces /\ at[t] \notin ReaderPlaces
    BY DEF WriterPlaces, ReaderPlaces
  <1>3. /\ Reading' <=> Reading
        /\ Reading => t # Reader /\ at'[Reader] = at[Reader] /\ loc'[Reader] = loc[Reader]
        /\ ~Reading => at[Reader] \notin ReaderPlaces /\ at'[Reader] \notin ReaderPlaces
    BY <1>1, <1>2, WordsFacts DEF Reading
  <1>4. Logging' = IF a = "idle" THEN Logging \ {t} ELSE Logging \cup {t}
    BY <1>1, <1>2, WordsFacts DEF Logging
  <1>5. Holding' = IF a \in {"header", "text", "seal"} THEN Holding \cup {t} ELSE Holding \ {t}
    BY <1>1, WordsFacts DEF Holding
  <1>6. Unreserved' = IF a \in {"head", "space", "drop", "skip", "reload"}
                      THEN Unreserved \cup {t} ELSE Unreserved \ {t}
    <2>1. ASSUME NEW u \in Writers, u # t PROVE u \in Unreserved' <=> u \in Unreserved
      BY <1>1, <1>4, <2>1, WordsFacts DEF Unreserved
    <2>2. t \in Unreserved' <=> a \in {"head", "space", "drop", "skip", "reload"}
      BY <1>1, <1>4 DEF Unreserved
    <2>3. Unreserved \subseteq Writers /\ Unreserved' \subseteq Writers
      BY <1>4, CallSets DEF Unreserved
    <2> QED
      BY <2>1, <2>2, <2>3
  <1> QED
    BY <1>1, <1>3, <1>4, <1>5, <1>6

\* The calls that want words are the same, and want as much.
LEMMA WantedSame ==
    ASSUME TypeInv, Unreserved' = Unreserved, \A u \in Unreserved : loc'[u].size = loc[u].size
    PROVE  Wanted' = Wanted
  <1>1. Unreserved \subseteq Threads
    BY CallSets
  <1> DEFINE size == [u \in Threads |-> loc[u].size]
             more == [u \in Threads |-> loc'[u].size]
  <1>2. \A u \in Unreserved : more[u] = size[u]
    BY <1>1
  <1>3. WordsFor(Unreserved, more) = WordsFor(Unreserved, size)
    <2> HIDE DEF size, more
    <2> QED
      BY <1>2, WordsForSame
  <1>4. Wanted' = Cardinality(WordsFor(Unreserved, more))
    BY DEF Wanted
  <1> QED
    BY <1>3, <1>4 DEF Wanted

\* A call that looks for room touches nothing but its own variables.
LEMMA PrivateStep ==
    ASSUME TypeInv, LogInv, NEW t \in Unreserved, NEW a \in {"space", "drop", "skip", "reload"},
           NEW l \in Locals, Go(t, a, l), UNCHANGED <<ring, head, tail, placed, out>>,
           l.size = loc[t].size, l.since = loc[t].since,
           l.since <= l.head, l.head <= head, l.tail <= tail,
           a \in {"drop", "skip"} /\ l.tail = tail =>
              /\ a = "drop"
              /\ \E i \in Records : Pos(i) = tail /\ l.next = End(i)
              /\ \A u \in Logging : tail < loc[u].since,
           Reading => l.tail = tail /\ a \notin {"drop", "skip"}
    PROVE  LogInv'
  <1>1. t \in Writers /\ t \in Logging /\ at[t] \in WriterPlaces /\ t \notin Holding /\ a \in WriterPlaces
        /\ a \notin {"idle", "head", "header", "text", "seal"}
    BY CallSets DEF WriterPlaces
  <1>2. /\ t \in Threads /\ at'[t] = a /\ loc'[t] = l
        /\ \A u \in Threads \ {t} : at'[u] = at[u] /\ loc'[u] = loc[u]
        /\ Reading' <=> Reading
        /\ Reading => t # Reader /\ at'[Reader] = at[Reader] /\ loc'[Reader] = loc[Reader]
        /\ ~Reading => at[Reader] \notin ReaderPlaces /\ at'[Reader] \notin ReaderPlaces
        /\ Logging' = Logging /\ Unreserved' = Unreserved /\ Holding' = Holding
    <2>1. Logging \cup {t} = Logging /\ Unreserved \cup {t} = Unreserved /\ Holding \ {t} = Holding
      BY <1>1
    <2>2. /\ Logging' = IF a = "idle" THEN Logging \ {t} ELSE Logging \cup {t}
          /\ Unreserved' = IF a \in {"head", "space", "drop", "skip", "reload"}
                           THEN Unreserved \cup {t} ELSE Unreserved \ {t}
          /\ Holding' = IF a \in {"header", "text", "seal"} THEN Holding \cup {t}
                        ELSE Holding \ {t}
      BY <1>1, WriterMoved
    <2>3. Logging' = Logging /\ Unreserved' = Unreserved /\ Holding' = Holding
      BY <1>1, <2>1, <2>2
    <2>4. at[t] \in WriterPlaces \cup {"idle"} /\ a \in WriterPlaces \cup {"idle"}
      BY <1>1
    <2> QED
      BY <1>1, <2>3, <2>4, WriterMoved
  <1>3. /\ Records' = Records /\ \A i \in Records : Pos(i)' = Pos(i) /\ End(i)' = End(i)
        /\ \A p : Boundary(p)' <=> Boundary(p)
    BY DEF Records, Pos, End, Boundary
  <1>4. \A u \in Logging : loc'[u].size = loc[u].size /\ loc'[u].since = loc[u].since
    BY <1>2, CallSets
  <1>5. Wanted' = Wanted /\ Booked' = Booked
    BY <1>2, <1>4, CallSets, WantedSame DEF Booked
  <1>6. PlacedInv' /\ SpanInv'
    BY <1>3 DEF LogInv, PlacedInv, SpanInv
  <1>7. ASSUME NEW u \in Logging PROVE CallInv(u)'
    <2>1. CallInv(u)
      BY DEF LogInv
    <2>2. /\ tail' <= loc'[u].since /\ loc'[u].since <= head' /\ Boundary(loc[u].since)'
          /\ Booked' <= loc'[u].since + Words /\ loc'[u].size \in Sizes
      BY <2>1, <1>3, <1>4, <1>5 DEF CallInv
    <2>3. CASE u # t
      <3>1. at'[u] = at[u] /\ loc'[u] = loc[u]
        BY <1>2, <2>3, CallSets
      <3>2. Oldest(u) => Oldest(u)'
        BY <3>1, <1>2, <1>3, <1>4 DEF Oldest
      <3> QED
        BY <2>1, <2>2, <3>1, <3>2, <1>2 DEF CallInv
    <2>4. CASE u = t
      <3>1. at'[t] \in {"drop", "skip"} /\ loc'[t].tail = tail => Oldest(t)'
        BY <1>2, <1>3, <1>4 DEF Oldest
      <3> QED
        BY <2>2, <2>4, <3>1, <1>2 DEF CallInv
    <2> QED
      BY <2>3, <2>4
  <1>8. ASSUME NEW u \in Holding PROVE HoldInv(u)'
    BY <1>1, <1>2, <1>3, CallSets DEF LogInv, HoldInv
  <1>9. RingInv'
    <2>1. \A i, k : Written(i, k)' <=> Written(i, k)
      BY <1>1, <1>2, CallSets DEF Written
    <2>2. at'[Reader] \in {"pending", "advance"} <=> at[Reader] \in {"pending", "advance"}
      BY <1>2 DEF ReaderPlaces, Reading
    <2>3. \A i \in Records : Sealed(i)' <=> Sealed(i)
      BY <1>1, <1>2, <1>3, <2>2, CallSets DEF Sealed
    <2> QED
      BY <1>3, <2>1, <2>3 DEF LogInv, RingInv
  <1>10. ASSUME Reading PROVE ReadInv'
    <2>1. \A u \in Unreserved : loc'[u].tail = tail /\ at'[u] \notin {"drop", "skip"}
      BY <1>2, <1>10, CallSets DEF LogInv, ReadInv
    <2> QED
      BY <1>2, <1>3, <1>4, <1>5, <1>10, <2>1 DEF LogInv, ReadInv
  <1>11. OutInv'
    BY <1>2, <1>3 DEF LogInv, OutInv, ReaderPlaces, Reading
  <1> QED
    BY <1>2, <1>6, <1>7, <1>8, <1>9, <1>10, <1>11 DEF LogInv

\* What a call that has no words yet knows.
LEMMA SearchFacts ==
    ASSUME TypeInv, LogInv, NEW t \in Writers,
           at[t] \in {"head", "space", "drop", "skip", "reload"}
    PROVE  /\ t \in Unreserved /\ t \in Logging /\ t \in Threads /\ loc[t] \in Locals
           /\ tail <= loc[t].since /\ loc[t].since <= head /\ loc[t].tail <= tail
           /\ at[t] # "head" => loc[t].since <= loc[t].head /\ loc[t].head <= head
           /\ Reading => loc[t].tail = tail /\ at[t] \notin {"drop", "skip"}
           /\ loc[t].size >= 4 /\ loc[t].size <= Wanted
           /\ head \in Nat /\ tail \in Nat /\ Wanted \in Nat /\ Words \in Nat
  <1>1. t \in Logging /\ t \in Unreserved /\ t \in Threads
    BY LoggingIf, WordsFacts DEF Unreserved, WriterPlaces
  <1>2. CallInv(t) /\ (Reading => ReadInv)
    BY <1>1 DEF LogInv
  <1> QED
    BY <1>1, <1>2, CallSets, RecordTypes, WordsFacts DEF CallInv, ReadInv

LEMMA LoadHeadInv ==
    ASSUME TypeInv, LogInv, NEW t \in Writers, LoadHead(t)
    PROVE  LogInv'
  <1> DEFINE l == [loc[t] EXCEPT !.head = head]
  <1>1. at[t] = "head" /\ Go(t, "space", l) /\ UNCHANGED <<ring, head, tail, placed, out>>
    BY DEF LoadHead, Step, shared, history
  <1>2. /\ l \in Locals /\ l.head = head /\ l.size = loc[t].size /\ l.since = loc[t].since
        /\ l.tail = loc[t].tail
    BY <1>1, SearchFacts DEF Locals
  <1> HIDE DEF l
  <1> QED
    BY <1>1, <1>2, SearchFacts, PrivateStep

LEMMA ReloadTailInv ==
    ASSUME TypeInv, LogInv, NEW t \in Writers, ReloadTail(t)
    PROVE  LogInv'
  <1> DEFINE l == [loc[t] EXCEPT !.tail = tail]
  <1>1. at[t] = "reload" /\ Go(t, "space", l) /\ UNCHANGED <<ring, head, tail, placed, out>>
    BY DEF ReloadTail, Step, shared, history
  <1>2. /\ l \in Locals /\ l.head = loc[t].head /\ l.size = loc[t].size /\ l.since = loc[t].since
        /\ l.tail = tail
    BY <1>1, SearchFacts DEF Locals
  <1> HIDE DEF l
  <1> QED
    BY <1>1, <1>2, SearchFacts, PrivateStep

\* A lost race for tail.
LEMMA NoDropInv ==
    ASSUME TypeInv, LogInv, NEW t \in Writers, DropOldest(t) \/ SkipUnsealed(t),
           tail # loc[t].tail
    PROVE  LogInv'
  <1> DEFINE l == [loc[t] EXCEPT !.tail = tail]
  <1>1. /\ at[t] \in {"drop", "skip"} /\ Go(t, "space", l)
        /\ UNCHANGED <<ring, head, tail, placed, out>>
    BY DEF DropOldest, SkipUnsealed, Step, history
  <1>2. /\ l \in Locals /\ l.head = loc[t].head /\ l.size = loc[t].size /\ l.since = loc[t].since
        /\ l.tail = tail
    BY <1>1, SearchFacts DEF Locals
  <1> HIDE DEF l
  <1> QED
    BY <1>1, <1>2, SearchFacts, PrivateStep

\* The ring is full only for a call that is logged a ring after the oldest record, so that
\* record is complete, and older than every call.
LEMMA LookInv ==
    ASSUME TypeInv, LogInv, NEW t \in Writers, LookAtOldest(t)
    PROVE  LogInv'
  <1>1. /\ at[t] = "space" /\ Short(loc[t]) /\ UNCHANGED <<ring, head, tail, placed, out>>
        /\ t \in Threads /\ t \in Logging /\ t \in Unreserved
    BY SearchFacts DEF LookAtOldest, Step, shared, history
  <1>2. PICK a \in {"drop", "skip"}, v \in Nat :
           /\ Go(t, a, [loc[t] EXCEPT !.next = v])
           /\ a = "drop" => \E s \in Claims(loc[t].tail) : v = loc[t].tail + s
           /\ a = "skip" => ring[Index(loc[t].tail)].tag # "SEAL"
    <2>1. loc[t].tail \in Nat /\ loc[t].tail + 2 \in Nat
      BY <1>1, RecordTypes
    <2>2. \A s \in Claims(loc[t].tail) : loc[t].tail + s \in Nat
      BY <2>1, ClaimTypes DEF TypeInv
    <2> QED
      BY <2>1, <2>2 DEF LookAtOldest
  <1> DEFINE l == [loc[t] EXCEPT !.next = v]
  <1>3. /\ l \in Locals /\ l.head = loc[t].head /\ l.size = loc[t].size /\ l.since = loc[t].since
        /\ l.tail = loc[t].tail /\ l.next = v
    BY <1>1, SearchFacts DEF Locals
  <1> HIDE DEF l
  <1>8. /\ loc[t].head \in Nat /\ loc[t].tail \in Nat /\ loc[t].size \in Nat
        /\ loc[t].since \in Nat /\ head \in Nat /\ tail \in Nat
    BY <1>1, RecordTypes
  <1>9. /\ Words \in Nat /\ Wanted \in Nat /\ loc[t].tail <= tail /\ tail <= loc[t].since
        /\ loc[t].since <= loc[t].head /\ loc[t].head <= head /\ loc[t].size <= Wanted
    BY <1>1, SearchFacts
  <1>4. loc[t].head + loc[t].size > loc[t].tail + Words
    BY <1>1, <1>8, <1>9 DEF Short
  <1>5. Booked > loc[t].tail + Words /\ Booked \in Nat
    BY <1>4, <1>8, <1>9 DEF Booked
  <1>6. ~Reading
    BY <1>1, <1>5, SearchFacts, RecordTypes DEF LogInv, ReadInv
  <1>7. ASSUME l.tail = tail
        PROVE  /\ a = "drop"
               /\ \E i \in Records : Pos(i) = tail /\ l.next = End(i)
               /\ \A u \in Logging : tail < loc[u].since
    <2>1. ASSUME NEW u \in Logging PROVE tail < loc[u].since
      <3>1. Booked <= loc[u].since + Words /\ loc[u].since \in Nat
        BY CallSets, RecordTypes DEF LogInv, CallInv
      <3> QED
        BY <1>3, <1>5, <1>7, <1>8, <1>9, <3>1
    <2>2. tail < head
      BY <1>1, <2>1, SearchFacts, RecordTypes
    <2>3. PICK i \in Records : /\ Pos(i) = tail
                               /\ ring[Index(tail)].tag = "SEAL" /\ Claims(tail) = {placed[i].size}
      BY <1>6, <2>1, <2>2, OldestRecord DEF Reading, ReaderPlaces
    <2>4. a = "drop" /\ v = tail + placed[i].size
      BY <1>2, <1>3, <1>7, <2>3
    <2> QED
      BY <1>3, <2>1, <2>3, <2>4, RecordTypes
  <1> QED
    BY <1>1, <1>2, <1>3, <1>6, <1>7, SearchFacts, PrivateStep DEF l

LEMMA WantedLess ==
    ASSUME TypeInv, NEW t \in Unreserved, Unreserved' = Unreserved \ {t},
           \A u \in Unreserved \ {t} : loc'[u].size = loc[u].size
    PROVE  Wanted' \in Nat /\ Wanted' = Wanted - loc[t].size
  <1>1. Unreserved \subseteq Threads /\ Unreserved \subseteq Writers
    BY CallSets
  <1> DEFINE size == [u \in Threads |-> loc[u].size]
             more == [u \in Threads |-> loc'[u].size]
             C == Unreserved \ {t}
  <1>2. /\ \A u \in C : more[u] = size[u]
        /\ size[t] = loc[t].size /\ size[t] \in 0 .. Words /\ loc[t].size \in Nat
    BY <1>1, CallSets, RecordTypes, WordsFacts
  <1>3. C \in SUBSET Writers /\ t \in Writers \ C /\ C \cup {t} = Unreserved
    BY <1>1
  <1>4. Wanted' = Cardinality(WordsFor(C, more)) /\ Wanted = Cardinality(WordsFor(C \cup {t}, size))
    BY <1>3 DEF Wanted
  <1> HIDE DEF size, more, C
  <1>5. WordsFor(C, more) = WordsFor(C, size)
    BY <1>2, WordsForSame
  <1>6. /\ Cardinality(WordsFor(C, size)) \in Nat
        /\ Cardinality(WordsFor(C \cup {t}, size)) = Cardinality(WordsFor(C, size)) + size[t]
    BY <1>2, <1>3, WordsForMore
  <1> QED
    BY <1>2, <1>4, <1>5, <1>6

LEMMA WantedMore ==
    ASSUME TypeInv, NEW t \in Writers \ Unreserved, Unreserved' = Unreserved \cup {t},
           loc'[t].size \in Sizes, \A u \in Unreserved : loc'[u].size = loc[u].size
    PROVE  Wanted' = Wanted + loc'[t].size
  <1>1. Unreserved \subseteq Threads /\ Unreserved \subseteq Writers /\ t \in Threads
    BY CallSets, WordsFacts
  <1> DEFINE size == [u \in Threads |-> loc[u].size]
             more == [u \in Threads |-> loc'[u].size]
             C == Unreserved
  <1>2. /\ \A u \in C : size[u] = more[u]
        /\ more[t] = loc'[t].size /\ more[t] \in 0 .. Words
    BY <1>1, CallSets, RecordTypes, WordsFacts
  <1>3. C \in SUBSET Writers /\ t \in Writers \ C
    BY <1>1
  <1>4. Wanted' = Cardinality(WordsFor(C \cup {t}, more)) /\ Wanted = Cardinality(WordsFor(C, size))
    BY DEF Wanted
  <1>7. more[t] = more[t] /\ \A u \in C : more[u] = more[u]
    OBVIOUS
  <1> HIDE DEF size, more, C
  <1>5. WordsFor(C, more) = WordsFor(C, size)
    BY <1>2, WordsForSame
  <1>6. Cardinality(WordsFor(C \cup {t}, more)) = Cardinality(WordsFor(C, more)) + more[t]
    BY <1>2, <1>3, <1>7, WordsForMore
  <1> QED
    BY <1>2, <1>4, <1>5, <1>6

\* A call that returns, with its record sealed or without one.
LEMMA LeaveStep ==
    ASSUME TypeInv, LogInv, NEW t \in Writers, at[t] \in {"space", "announce"},
           Go(t, "idle", NoLocals), UNCHANGED <<ring, head, tail, placed, out>>
    PROVE  LogInv'
  <1>1. t \in Logging /\ at[t] \in WriterPlaces /\ t \notin Holding
    BY LoggingIf DEF WriterPlaces, Holding
  <1>2. /\ t \in Threads /\ at'[t] = "idle"
        /\ \A u \in Threads \ {t} : at'[u] = at[u] /\ loc'[u] = loc[u]
        /\ Reading' <=> Reading
        /\ Reading => t # Reader /\ at'[Reader] = at[Reader] /\ loc'[Reader] = loc[Reader]
        /\ ~Reading => at[Reader] \notin ReaderPlaces /\ at'[Reader] \notin ReaderPlaces
        /\ Logging' = Logging \ {t} /\ Unreserved' = Unreserved \ {t} /\ Holding' = Holding
    <2>1. Holding \ {t} = Holding
      BY <1>1
    <2>2. /\ Logging' = IF "idle" = "idle" THEN Logging \ {t} ELSE Logging \cup {t}
          /\ Unreserved' = IF "idle" \in {"head", "space", "drop", "skip", "reload"}
                           THEN Unreserved \cup {t} ELSE Unreserved \ {t}
          /\ Holding' = IF "idle" \in {"header", "text", "seal"} THEN Holding \cup {t}
                        ELSE Holding \ {t}
      BY <1>1, WriterMoved, RecordTypes, ReaderLocals
    <2>3. Logging' = Logging \ {t} /\ Unreserved' = Unreserved \ {t} /\ Holding' = Holding
      BY <2>1, <2>2
    <2> QED
      BY <1>1, <2>3, WriterMoved, ReaderLocals
  <1>3. /\ Records' = Records /\ \A i \in Records : Pos(i)' = Pos(i) /\ End(i)' = End(i)
        /\ \A p : Boundary(p)' <=> Boundary(p)
    BY DEF Records, Pos, End, Boundary
  <1>4. \A u \in Logging \ {t} : u \in Threads /\ at'[u] = at[u] /\ loc'[u] = loc[u]
    BY <1>2, CallSets
  <1>5. Wanted' <= Wanted /\ Wanted' \in Nat /\ Wanted \in Nat
    <2>1. CASE t \in Unreserved
      BY <1>1, <1>2, <1>4, <2>1, WantedLess, CallSets, RecordTypes
    <2>2. CASE t \notin Unreserved
      <3>1. Unreserved' = Unreserved /\ \A u \in Unreserved : loc'[u].size = loc[u].size
        BY <1>2, <1>4, <2>2, CallSets
      <3> QED
        BY <3>1, WantedSame, CallSets
    <2> QED
      BY <2>1, <2>2
  <1>6. Booked' <= Booked /\ Booked' \in Nat /\ Booked \in Nat
    BY <1>5, RecordTypes DEF Booked
  <1>7. PlacedInv' /\ SpanInv'
    BY <1>3 DEF LogInv, PlacedInv, SpanInv
  <1>8. ASSUME NEW u \in Logging' PROVE CallInv(u)'
    <2>1. u \in Logging \ {t} /\ at'[u] = at[u] /\ loc'[u] = loc[u] /\ loc[u].since \in Nat
      BY <1>2, <1>4, RecordTypes
    <2>2. CallInv(u)
      BY <2>1 DEF LogInv
    <2>3. Booked' <= loc[u].since + Words
      BY <1>6, <2>1, <2>2, WordsFacts DEF CallInv
    <2>4. Oldest(u) => Oldest(u)'
      BY <1>2, <1>3, <1>4, <2>1 DEF Oldest
    <2> QED
      BY <1>2, <1>3, <2>1, <2>2, <2>3, <2>4 DEF CallInv
  <1>9. ASSUME NEW u \in Holding PROVE HoldInv(u)'
    BY <1>1, <1>2, <1>3, <1>4, CallSets DEF LogInv, HoldInv
  <1>10. RingInv'
    <2>1. \A i, k : Written(i, k)' <=> Written(i, k)
      BY <1>1, <1>2, <1>4, CallSets DEF Written
    <2>2. at'[Reader] \in {"pending", "advance"} <=> at[Reader] \in {"pending", "advance"}
      BY <1>2 DEF ReaderPlaces, Reading
    <2>3. \A i \in Records : Sealed(i)' <=> Sealed(i)
      BY <1>1, <1>2, <1>3, <1>4, <2>2, CallSets DEF Sealed
    <2> QED
      BY <1>3, <2>1, <2>3 DEF LogInv, RingInv
  <1>11. ASSUME Reading PROVE ReadInv'
    <2>1. Booked' <= tail + Words
      BY <1>6, <1>11, RecordTypes, WordsFacts DEF LogInv, ReadInv
    <2>2. \A u \in Unreserved' : loc'[u].tail = tail /\ at'[u] \notin {"drop", "skip"}
      BY <1>2, <1>4, <1>11, CallSets DEF LogInv, ReadInv
    <2> QED
      BY <1>2, <1>3, <1>4, <1>11, <2>1, <2>2 DEF LogInv, ReadInv
  <1>12. OutInv'
    BY <1>2, <1>3 DEF LogInv, OutInv, ReaderPlaces, Reading
  <1> QED
    BY <1>2, <1>7, <1>8, <1>9, <1>10, <1>11, <1>12 DEF LogInv

LEMMA AnnounceInv ==
    ASSUME TypeInv, LogInv, NEW t \in Writers, Announce(t)
    PROVE  LogInv'
  BY LeaveStep DEF Announce, Step, history

\* The boundaries of the records are in order: the one after tail is the end of the record there.
LEMMA NextBoundary ==
    ASSUME TypeInv, PlacedInv, NEW i \in Records, NEW p \in Nat, Boundary(p), Pos(i) < p
    PROVE  End(i) <= p
  <1>1. /\ End(i) = Pos(i) + placed[i].size /\ Pos(i) \in Nat /\ placed[i].size \in Nat
        /\ placed[i].size >= 4
    BY RecordTypes
  <1>2. CASE p = head
    BY <1>2 DEF PlacedInv
  <1>3. ASSUME NEW j \in Records, Pos(j) = p PROVE End(i) <= p
    <2>1. /\ End(j) = Pos(j) + placed[j].size /\ Pos(j) \in Nat /\ placed[j].size \in Nat
      BY RecordTypes
    <2>2. i \in Nat /\ j \in Nat
      <3>1. Records \subseteq Nat
        BY RecordTypes
      <3> QED
        BY <3>1
    <2>3. ~(j < i)
      BY <1>1, <1>3, <2>1 DEF PlacedInv
    <2>4. i # j
      BY <1>3
    <2>5. i < j
      BY <2>2, <2>3, <2>4
    <2> QED
      BY <1>3, <2>5 DEF PlacedInv
  <1> QED
    BY <1>2, <1>3 DEF Boundary

\* Dropping the oldest record: tail moves to the end of it.
LEMMA DropInv ==
    ASSUME TypeInv, LogInv, NEW t \in Writers, DropOldest(t) \/ SkipUnsealed(t),
           tail = loc[t].tail
    PROVE  LogInv'
  <1>1. /\ at[t] \in {"drop", "skip"} /\ tail' = loc[t].next
        /\ Go(t, "space", [loc[t] EXCEPT !.tail = loc[t].next])
        /\ UNCHANGED <<ring, head, placed, out>>
    BY DEF DropOldest, SkipUnsealed, Step, history
  <1>2. /\ t \in Unreserved /\ t \in Logging /\ t \in Threads /\ loc[t] \in Locals
        /\ t \notin Holding /\ at[t] \in WriterPlaces
    BY <1>1, SearchFacts DEF Holding, WriterPlaces
  <1>3. Oldest(t) /\ ~Reading
    BY <1>1, <1>2, SearchFacts DEF LogInv, CallInv
  <1>4. PICK i \in Records : Pos(i) = tail /\ tail' = End(i)
    BY <1>1, <1>3 DEF Oldest
  <1>5. tail < tail' /\ tail' <= head /\ tail \in Nat /\ tail' \in Nat /\ head \in Nat
    BY <1>4, RecordTypes DEF LogInv, PlacedInv
  <1> DEFINE l == [loc[t] EXCEPT !.tail = loc[t].next]
  <1>6. /\ l \in Locals /\ l.tail = tail' /\ l.head = loc[t].head /\ l.size = loc[t].size
        /\ l.since = loc[t].since
    BY <1>1, <1>2 DEF Locals
  <1>7. Go(t, "space", l)
    BY <1>1
  <1> HIDE DEF l
  <1>8. /\ at'[t] = "space" /\ loc'[t] = l
        /\ \A u \in Threads \ {t} : at'[u] = at[u] /\ loc'[u] = loc[u]
        /\ ~Reading' /\ at[Reader] \notin ReaderPlaces /\ at'[Reader] \notin ReaderPlaces
        /\ Logging' = Logging /\ Unreserved' = Unreserved /\ Holding' = Holding
    <2>1. Logging \cup {t} = Logging /\ Unreserved \cup {t} = Unreserved /\ Holding \ {t} = Holding
      BY <1>2
    <2>2. "space" \in WriterPlaces
      BY DEF WriterPlaces
    <2>3. /\ Logging' = IF "space" = "idle" THEN Logging \ {t} ELSE Logging \cup {t}
          /\ Unreserved' = IF "space" \in {"head", "space", "drop", "skip", "reload"}
                           THEN Unreserved \cup {t} ELSE Unreserved \ {t}
          /\ Holding' = IF "space" \in {"header", "text", "seal"} THEN Holding \cup {t}
                        ELSE Holding \ {t}
      BY <1>2, <1>6, <1>7, <2>2, WriterMoved
    <2>4. Logging' = Logging /\ Unreserved' = Unreserved /\ Holding' = Holding
      BY <2>1, <2>3
    <2> QED
      BY <1>2, <1>3, <1>6, <1>7, <2>2, <2>4, WriterMoved
  <1>9. /\ Records' = Records /\ \A j \in Records : Pos(j)' = Pos(j) /\ End(j)' = End(j)
        /\ \A p : Boundary(p)' <=> Boundary(p)
    BY <1>1 DEF Records, Pos, End, Boundary
  <1>10. \A u \in Logging : /\ loc'[u].size = loc[u].size /\ loc'[u].since = loc[u].since
                            /\ loc'[u].head = loc[u].head
    BY <1>6, <1>8, CallSets
  <1>11. Wanted' = Wanted /\ Booked' = Booked
    BY <1>1, <1>8, <1>10, CallSets, WantedSame DEF Booked
  <1>12. PlacedInv'
    BY <1>1, <1>9 DEF LogInv, PlacedInv
  <1>13. SpanInv'
    <2>1. Boundary(tail')
      BY <1>4 DEF LogInv, PlacedInv
    <2>2. Boundary(tail)'
      BY <1>1, <2>1 DEF Boundary, Records, Pos
    <2>3. head <= tail + Words /\ Words \in Nat
      BY WordsFacts DEF LogInv, SpanInv
    <2> QED
      BY <1>1, <1>5, <2>2, <2>3 DEF SpanInv
  <1>14. \A u \in Logging : tail' <= loc[u].since
    <2> SUFFICES ASSUME NEW u \in Logging PROVE tail' <= loc[u].since
      OBVIOUS
    <2>1. tail < loc[u].since /\ Boundary(loc[u].since) /\ loc[u].since \in Nat
      BY <1>3, CallSets, RecordTypes DEF Oldest, LogInv, CallInv
    <2> QED
      BY <1>4, <2>1, NextBoundary DEF LogInv
  <1>15. ASSUME NEW u \in Logging PROVE CallInv(u)'
    <2>1. CallInv(u) /\ u \in Threads
      BY CallSets DEF LogInv
    <2>2. /\ tail' <= loc'[u].since /\ loc'[u].since <= head' /\ Boundary(loc[u].since)'
          /\ Booked' <= loc'[u].since + Words /\ loc'[u].size \in Sizes
          /\ loc'[u].since <= loc'[u].head \/ at[u] = "head"
          /\ loc'[u].head <= head' \/ at[u] = "head"
      BY <1>1, <1>9, <1>10, <1>11, <1>14, <2>1 DEF CallInv
    <2>3. CASE u # t
      <3>1. at'[u] = at[u] /\ loc'[u] = loc[u] /\ loc[u].tail \in Nat
        BY <1>8, <2>1, <2>3, RecordTypes
      <3>2. u \in Unreserved => loc[u].tail < tail'
        BY <1>5, <2>1, <3>1 DEF CallInv
      <3>3. at[u] \in {"drop", "skip"} => u \in Unreserved
        BY DEF Unreserved
      <3> QED
        BY <1>5, <1>8, <2>2, <3>1, <3>2, <3>3 DEF CallInv
    <2>4. CASE u = t
      BY <1>1, <1>5, <1>6, <1>8, <2>2, <2>4 DEF CallInv
    <2> QED
      BY <2>3, <2>4
  <1>16. ASSUME NEW u \in Holding PROVE HoldInv(u)'
    BY <1>1, <1>2, <1>8, <1>9, CallSets DEF LogInv, HoldInv
  <1>17. RingInv'
    <2>1. \A j, k : Written(j, k)' <=> Written(j, k)
      BY <1>2, <1>8, CallSets DEF Written
    <2>2. at[Reader] \notin {"pending", "advance"}
      BY <1>8 DEF ReaderPlaces
    <2>3. \A j \in Records : Sealed(j)' => Sealed(j)
      BY <1>2, <1>8, <2>2, CallSets DEF Sealed
    <2>4. \A j \in Records : Pos(j) >= tail' => Pos(j) >= tail
      BY <1>5, RecordTypes
    <2> QED
      BY <1>1, <1>9, <2>1, <2>3, <2>4 DEF LogInv, RingInv
  <1>18. OutInv'
    <2>1. \A j \in DOMAIN out : out[j].n \in Records /\ Pos(out[j].n) < tail
      BY <1>8, RecordTypes DEF LogInv, OutInv, ReaderPlaces
    <2>2. \A j \in DOMAIN out : ~(Pos(out[j].n) >= tail')
      BY <1>5, <2>1, RecordTypes
    <2> QED
      BY <1>1, <1>9, <2>2 DEF LogInv, OutInv
  <1> QED
    BY <1>8, <1>12, <1>13, <1>15, <1>16, <1>17, <1>18 DEF LogInv

\* A new call: what it will reserve fits beside what the others will (MayLog).
LEMMA DispatchInv ==
    ASSUME ~Overrun, TypeInv, LogInv, NEW t \in Writers, NEW size \in Sizes, Dispatch(t, size)
    PROVE  LogInv'
  <1> DEFINE l == [NoLocals EXCEPT !.size = size, !.tail = tail, !.tries = Retries, !.since = head]
  <1>1. /\ at[t] = "idle" /\ MayLog(size) /\ Go(t, "head", l)
        /\ UNCHANGED <<ring, head, tail, placed, out>>
    BY DEF Dispatch, Step, shared
  <1>2. /\ l \in Locals /\ l.size = size /\ l.tail = tail /\ l.since = head
    BY RecordTypes, WordsFacts, ThreadAssumption DEF NoLocals, Locals
  <1> HIDE DEF l
  <1>3. /\ t \notin Logging /\ t \notin Unreserved /\ t \notin Holding
        /\ "head" \in WriterPlaces /\ at[t] \in WriterPlaces \cup {"idle"}
    BY <1>1 DEF Logging, Unreserved, Holding, WriterPlaces
  <1>4. /\ t \in Threads /\ at'[t] = "head" /\ loc'[t] = l
        /\ \A u \in Threads \ {t} : at'[u] = at[u] /\ loc'[u] = loc[u]
        /\ Reading' <=> Reading
        /\ Reading => t # Reader /\ at'[Reader] = at[Reader] /\ loc'[Reader] = loc[Reader]
        /\ ~Reading => at[Reader] \notin ReaderPlaces /\ at'[Reader] \notin ReaderPlaces
        /\ Logging' = Logging \cup {t} /\ Unreserved' = Unreserved \cup {t} /\ Holding' = Holding
    <2>1. Holding \ {t} = Holding
      BY <1>3
    <2>2. /\ Logging' = IF "head" = "idle" THEN Logging \ {t} ELSE Logging \cup {t}
          /\ Unreserved' = IF "head" \in {"head", "space", "drop", "skip", "reload"}
                           THEN Unreserved \cup {t} ELSE Unreserved \ {t}
          /\ Holding' = IF "head" \in {"header", "text", "seal"} THEN Holding \cup {t}
                        ELSE Holding \ {t}
      BY <1>1, <1>2, <1>3, WriterMoved
    <2>3. Logging' = Logging \cup {t} /\ Unreserved' = Unreserved \cup {t} /\ Holding' = Holding
      BY <2>1, <2>2
    <2> QED
      BY <1>1, <1>2, <1>3, <2>3, WriterMoved
  <1>5. /\ Records' = Records /\ \A i \in Records : Pos(i)' = Pos(i) /\ End(i)' = End(i)
        /\ \A p : Boundary(p)' <=> Boundary(p)
    BY <1>1 DEF Records, Pos, End, Boundary
  <1>6. \A u \in Logging : u \in Threads /\ u # t /\ at'[u] = at[u] /\ loc'[u] = loc[u]
    BY <1>3, <1>4, CallSets
  <1>7. Wanted' = Wanted + size
    BY <1>2, <1>3, <1>4, <1>6, CallSets, WantedMore
  <1>8. /\ head \in Nat /\ tail \in Nat /\ Wanted \in Nat /\ size \in Nat /\ size <= Words
        /\ Words \in Nat /\ tail <= head
    BY RecordTypes, CallSets, WordsFacts DEF LogInv, SpanInv
  <1>9. Booked' = head + size + Wanted /\ Booked' \in Nat
    BY <1>1, <1>7, <1>8 DEF Booked
  <1>10. \A u \in Logging : Booked' <= loc[u].since + Words
    <2> SUFFICES ASSUME NEW u \in Logging PROVE Booked' <= loc[u].since + Words
      OBVIOUS
    <2>1. (head + size + Wanted) - loc[u].since <= Words
      BY <1>1 DEF MayLog
    <2>2. loc[u].since \in Nat
      BY <1>6, RecordTypes
    <2> QED
      BY <1>8, <1>9, <2>1, <2>2
  <1>11. Booked' <= head + Words
    <2>1. CASE Logging = {}
      <3>1. Wanted = 0
        <4>1. Unreserved = {}
          BY <2>1, CallSets
        <4>2. WordsFor({}, [u \in Threads |-> loc[u].size]) = {}
          BY DEF WordsFor
        <4> QED
          BY <4>1, <4>2, FS_EmptySet DEF Wanted
      <3> QED
        BY <1>8, <1>9, <3>1
    <2>2. ASSUME NEW u \in Logging PROVE Booked' <= head + Words
      <3>1. loc[u].since <= head /\ loc[u].since \in Nat
        BY <1>6, RecordTypes DEF LogInv, CallInv
      <3> QED
        BY <1>8, <1>9, <1>10, <3>1
    <2> QED
      BY <2>1, <2>2
  <1>12. Reading => Booked' <= tail + Words
    <2>1. Reading => (head + size + Wanted) - tail <= Words
      BY <1>1 DEF MayLog
    <2> QED
      BY <1>8, <1>9, <2>1
  <1>13. PlacedInv' /\ SpanInv'
    BY <1>1, <1>5 DEF LogInv, PlacedInv, SpanInv
  <1>14. ASSUME NEW u \in Logging PROVE CallInv(u)'
    <2>1. CallInv(u) /\ at'[u] = at[u] /\ loc'[u] = loc[u]
      BY <1>6 DEF LogInv
    <2>2. ASSUME Oldest(u) PROVE Oldest(u)'
      <3>1. PICK i \in Records : Pos(i) = tail /\ loc[u].next = End(i)
        BY <2>2 DEF Oldest
      <3>2. tail < head
        BY <3>1, RecordTypes DEF LogInv, PlacedInv
      <3>3. \A v \in Logging' : tail < loc'[v].since
        BY <1>2, <1>4, <1>6, <2>2, <3>2 DEF Oldest
      <3> QED
        BY <1>1, <1>5, <2>1, <2>2, <3>1, <3>3 DEF Oldest
    <2>3. Booked' <= loc'[u].since + Words /\ (u \in Unreserved' => u \in Unreserved)
      BY <1>4, <1>6, <1>10, <2>1
    <2> QED
      BY <1>1, <1>5, <2>1, <2>2, <2>3 DEF CallInv
  <1>15. CallInv(t)'
    <2>1. Boundary(loc[t].since)'
      BY <1>1, <1>2, <1>4 DEF Boundary
    <2> QED
      BY <1>1, <1>2, <1>4, <1>8, <1>11, <2>1 DEF CallInv
  <1>16. ASSUME NEW u \in Holding PROVE HoldInv(u)'
    BY <1>1, <1>4, <1>5, <1>6, CallSets DEF LogInv, HoldInv
  <1>17. RingInv'
    <2>1. \A i, k : Written(i, k)' <=> Written(i, k)
      BY <1>4, <1>6, CallSets DEF Written
    <2>2. at'[Reader] \in {"pending", "advance"} <=> at[Reader] \in {"pending", "advance"}
      BY <1>4 DEF ReaderPlaces
    <2>3. \A i \in Records : Sealed(i)' <=> Sealed(i)
      BY <1>1, <1>4, <1>5, <1>6, <2>2, CallSets DEF Sealed
    <2> QED
      BY <1>1, <1>5, <2>1, <2>3 DEF LogInv, RingInv
  <1>18. ASSUME Reading PROVE ReadInv'
    <2>1. \A u \in Unreserved' : loc'[u].tail = tail /\ at'[u] \notin {"drop", "skip"}
      BY <1>2, <1>4, <1>6, <1>18, CallSets DEF LogInv, ReadInv
    <2>2. at[Reader] \in HasRecord => \A u \in Logging' : tail < loc'[u].since
      BY <1>2, <1>4, <1>6, <1>18 DEF LogInv, ReadInv
    <2> QED
      BY <1>1, <1>4, <1>5, <1>12, <1>18, <2>1, <2>2 DEF LogInv, ReadInv
  <1>19. OutInv'
    BY <1>1, <1>4, <1>5 DEF LogInv, OutInv, ReaderPlaces
  <1> QED
    BY <1>4, <1>13, <1>14, <1>15, <1>16, <1>17, <1>18, <1>19 DEF LogInv

\* A call that finds head where it left it has placed its record there.
LEMMA PlaceInv ==
    ASSUME TypeInv, LogInv, NEW t \in Writers, at[t] = "space", ~Short(loc[t]),
           head = loc[t].head, head' = head + loc[t].size,
           placed' = Append(placed, [size |-> loc[t].size, pos |-> head]),
           Go(t, "header", [loc[t] EXCEPT !.n = Len(placed) + 1]),
           UNCHANGED <<ring, tail, out>>
    PROVE  LogInv'
  <1>1. /\ t \in Unreserved /\ t \in Logging /\ t \in Threads /\ loc[t] \in Locals
        /\ t \notin Holding /\ at[t] \in WriterPlaces /\ "header" \in WriterPlaces
    BY SearchFacts DEF Holding, WriterPlaces
  <1>2. /\ loc[t].tail \in Nat /\ loc[t].size \in Nat /\ loc[t].since \in Nat
        /\ loc[t].size \in Sizes
        /\ head \in Nat /\ tail \in Nat /\ Words \in Nat /\ Wanted \in Nat
        /\ loc[t].tail <= tail /\ tail <= loc[t].since /\ loc[t].since <= head
        /\ Len(placed) \in Nat /\ tail <= head
    BY <1>1, SearchFacts, RecordTypes DEF LogInv, SpanInv
  <1>3. PICK N \in Nat : N = Len(placed) + 1
    BY <1>2
  <1>4. /\ Records' = Records \cup {N} /\ N \notin Records /\ Records = 1 .. Len(placed)
        /\ \A i \in Records : placed'[i] = placed[i]
        /\ placed'[N].size = loc[t].size /\ placed'[N].pos = head
    <2> DEFINE R == [size : Sizes, pos : Nat]
               r == [size |-> loc[t].size, pos |-> head]
    <2>1. r \in R /\ placed \in Seq(R) /\ placed' = Append(placed, r)
      BY <1>1, <1>2 DEF TypeInv, TypeOK
    <2>3. r.size = loc[t].size /\ r.pos = head
      OBVIOUS
    <2> HIDE DEF r, R
    <2>2. /\ DOMAIN placed' = (DOMAIN placed) \cup {N} /\ N \notin DOMAIN placed
          /\ \A i \in DOMAIN placed : placed'[i] = placed[i]
          /\ placed'[N] = r
      BY <1>2, <1>3, <2>1
    <2> QED
      BY <2>2, <2>3, RecordTypes DEF Records
  <1>5. /\ \A i \in Records : /\ placed'[i].pos = Pos(i) /\ placed'[i].size = placed[i].size
        /\ placed'[N].pos = head /\ placed'[N].size = loc[t].size
    <2>1. placed'[N].pos = head /\ placed'[N].size = loc[t].size
      BY <1>4
    <2>2. \A i \in Records : placed'[i].pos = Pos(i) /\ placed'[i].size = placed[i].size
      BY <1>4 DEF Pos
    <2> QED
      BY <2>1, <2>2
  <1>6. /\ \A i \in Records : Pos(i)' = Pos(i) /\ End(i)' = End(i)
        /\ Pos(N)' = head /\ End(N)' = head'
    BY <1>5 DEF Pos, End
  <1>7. \A p : Boundary(p) => Boundary(p)'
    BY <1>4, <1>6 DEF Boundary
  <1> DEFINE l == [loc[t] EXCEPT !.n = N]
  <1>8. /\ l \in Locals /\ l.n = N /\ l.head = head /\ l.size = loc[t].size
        /\ l.since = loc[t].since
    BY <1>1 DEF Locals
  <1>9. Go(t, "header", l)
    BY <1>3
  <1> HIDE DEF l
  <1>10. /\ at'[t] = "header" /\ loc'[t] = l
         /\ \A u \in Threads \ {t} : at'[u] = at[u] /\ loc'[u] = loc[u]
         /\ Reading' <=> Reading
         /\ Reading => t # Reader /\ at'[Reader] = at[Reader] /\ loc'[Reader] = loc[Reader]
         /\ ~Reading => at[Reader] \notin ReaderPlaces /\ at'[Reader] \notin ReaderPlaces
         /\ Logging' = Logging /\ Unreserved' = Unreserved \ {t} /\ Holding' = Holding \cup {t}
    <2>1. Logging \cup {t} = Logging
      BY <1>1
    <2>2. /\ Logging' = IF "header" = "idle" THEN Logging \ {t} ELSE Logging \cup {t}
          /\ Unreserved' = IF "header" \in {"head", "space", "drop", "skip", "reload"}
                           THEN Unreserved \cup {t} ELSE Unreserved \ {t}
          /\ Holding' = IF "header" \in {"header", "text", "seal"} THEN Holding \cup {t}
                        ELSE Holding \ {t}
      BY <1>1, <1>8, <1>9, WriterMoved
    <2>3. Logging' = Logging /\ Unreserved' = Unreserved \ {t} /\ Holding' = Holding \cup {t}
      BY <2>1, <2>2
    <2> QED
      BY <1>1, <1>8, <1>9, <2>3, WriterMoved
  <1>11. \A u \in Logging : /\ loc'[u].size = loc[u].size /\ loc'[u].since = loc[u].since
                            /\ u # t => at'[u] = at[u] /\ loc'[u] = loc[u]
    BY <1>8, <1>10, CallSets
  <1>12. Booked' = Booked
    <2>1. Wanted' \in Nat /\ Wanted' = Wanted - loc[t].size
      BY <1>1, <1>10, <1>11, CallSets, WantedLess
    <2> QED
      BY <1>2, <2>1 DEF Booked
  <1>13. PlacedInv'
    <2>1. \A i \in Records : End(i) <= head /\ End(i) \in Nat
      BY RecordTypes DEF LogInv, PlacedInv
    <2>2. ASSUME NEW i \in Records' PROVE End(i)' <= head' /\ Boundary(placed[i].pos + placed[i].size)'
      <3>1. CASE i \in Records
        <4>1. Boundary(End(i))
          BY <3>1 DEF LogInv, PlacedInv
        <4>2. PICK p : p = End(i) /\ p = placed'[i].pos + placed'[i].size
          BY <1>5, <3>1 DEF End, Pos
        <4>3. Boundary(p)'
          BY <1>7, <4>1, <4>2
        <4>4. Boundary(placed[i].pos + placed[i].size)'
          BY <4>2, <4>3 DEF Boundary
        <4>5. End(i)' <= head'
          BY <1>2, <1>6, <2>1, <3>1
        <4> QED
          BY <4>4, <4>5
      <3>2. CASE i = N
        <4>1. placed'[i].pos + placed'[i].size = head'
          BY <1>5, <3>2
        <4>2. Boundary(placed[i].pos + placed[i].size)'
          BY <4>1 DEF Boundary
        <4>3. End(i)' = head'
          BY <4>1 DEF End
        <4>4. head' \in Nat
          BY <1>2
        <4>5. End(i)' <= head'
          BY <4>3, <4>4
        <4> QED
          BY <4>2, <4>5
      <3> QED
        BY <1>4, <3>1, <3>2
    <2>3. ASSUME NEW i \in Records', NEW j \in Records', i < j PROVE End(i)' <= Pos(j)'
      <3>1. i \in Records
        BY <1>3, <1>4, <1>2, <2>3
      <3>2. CASE j \in Records
        BY <1>6, <2>3, <3>1, <3>2 DEF LogInv, PlacedInv
      <3>3. CASE j = N
        BY <1>6, <2>1, <3>1, <3>3
      <3> QED
        BY <1>4, <3>2, <3>3
    <2> QED
      BY <2>2, <2>3 DEF PlacedInv, End
  <1>14. SpanInv'
    <2>1. head + loc[t].size <= tail + Words
      <3>1. ~(loc[t].head + loc[t].size - loc[t].tail > Words)
        BY DEF Short
      <3> QED
        BY <1>2, <3>1, SMTT(20)
    <2>2. Boundary(tail)'
      BY <1>7 DEF LogInv, SpanInv, Boundary
    <2> QED
      BY <1>2, <2>1, <2>2 DEF SpanInv
  <1>15. ASSUME NEW u \in Logging PROVE CallInv(u)'
    <2>1. CallInv(u) /\ u \in Threads /\ loc[u].since \in Nat /\ loc[u].head \in Nat
      BY CallSets, RecordTypes DEF LogInv
    <2>2. /\ tail' <= loc'[u].since /\ loc'[u].since <= head'
          /\ Booked' <= loc'[u].since + Words /\ loc'[u].size \in Sizes
      BY <1>2, <1>11, <1>12, <2>1, SMTT(20) DEF CallInv
    <2>3. Boundary(loc[u].since)'
      <3>1. PICK p : p = loc[u].since
        OBVIOUS
      <3>2. Boundary(p)'
        BY <1>7, <2>1, <3>1 DEF CallInv
      <3> QED
        BY <1>11, <3>1, <3>2 DEF Boundary
    <2>4. CASE u # t
      <3>1. at'[u] = at[u] /\ loc'[u] = loc[u] /\ (u \in Unreserved' => u \in Unreserved)
        BY <1>10, <1>11, <2>4
      <3>2. ASSUME Oldest(u) PROVE Oldest(u)'
        <4>1. PICK i \in Records : Pos(i) = tail /\ loc[u].next = End(i)
          BY <3>2 DEF Oldest
        <4>2. i \in Records' /\ Pos(i)' = tail' /\ loc'[u].next = End(i)'
          BY <1>4, <1>6, <3>1, <4>1
        <4>3. at'[u] = "drop" /\ \A v \in Logging' : tail' < loc'[v].since
          BY <1>10, <1>11, <3>1, <3>2 DEF Oldest
        <4> QED
          BY <4>2, <4>3 DEF Oldest
      <3> QED
        BY <1>2, <2>1, <2>2, <2>3, <3>1, <3>2, SMTT(20) DEF CallInv
    <2>5. CASE u = t
      <3>1. t \notin Unreserved'
        BY <1>10
      <3> QED
        BY <1>2, <1>8, <1>10, <2>2, <2>3, <2>5, <3>1, SMTT(20) DEF CallInv
    <2> QED
      BY <2>4, <2>5
  <1>16. ASSUME NEW u \in Holding' PROVE HoldInv(u)'
    <2>1. CASE u = t
      <3>1. \A v \in Holding' \ {t} : loc'[v].n \in Records
        BY <1>10, <1>11, CallSets DEF LogInv, HoldInv
      <3> QED
        BY <1>4, <1>5, <1>6, <1>8, <1>10, <2>1, <3>1 DEF HoldInv
    <2>2. CASE u # t
      <3>1. u \in Holding /\ HoldInv(u) /\ loc'[u] = loc[u]
        BY <1>10, <1>11, <2>2, CallSets DEF LogInv
      <3>2. \A v \in Holding' \ {u} : loc'[v].n # loc'[u].n
        BY <1>4, <1>8, <1>10, <1>11, <3>1, CallSets DEF HoldInv
      <3> QED
        BY <1>4, <1>5, <1>6, <3>1, <3>2 DEF HoldInv
    <2> QED
      BY <2>1, <2>2
  <1>17. RingInv'
    <2>1. t \in Holding' /\ loc'[t].n = N /\ at'[t] = "header"
      BY <1>8, <1>10
    <2>2. \A k : ~Written(N, k)'
      BY <2>1 DEF Written
    <2>3. ~Sealed(N)'
      BY <2>1 DEF Sealed
    <2>4. \A i \in Records : \A k : Written(i, k)' => Written(i, k)
      BY <1>1, <1>10, <1>11, CallSets DEF Written
    <2>5. at'[Reader] \in {"pending", "advance"} <=> at[Reader] \in {"pending", "advance"}
      BY <1>10 DEF ReaderPlaces
    <2>6. \A i \in Records : Sealed(i)' => Sealed(i)
      BY <1>1, <1>6, <1>10, <1>11, <2>5, CallSets DEF Sealed
    <2>7. ASSUME NEW i \in Records', Pos(i)' >= tail'
          PROVE  /\ \A k \in 0 .. placed'[i].size - 1 :
                       Written(i, k)' => /\ ring'[Index(placed'[i].pos + k)].rec = i
                                         /\ ring'[Index(placed'[i].pos + k)].k = k
                 /\ Sealed(i)' => ring'[Index(placed'[i].pos)].tag = "SEAL"
      <3>1. CASE i = N
        BY <2>2, <2>3, <3>1
      <3>2. CASE i \in Records
        <4>1. placed'[i].pos = Pos(i) /\ Pos(i) >= tail /\ placed'[i].size = placed[i].size
          BY <1>5, <1>6, <2>7, <3>2
        <4>2. /\ \A k \in 0 .. placed[i].size - 1 :
                    Written(i, k) => ring[Index(Pos(i) + k)].rec = i /\ ring[Index(Pos(i) + k)].k = k
              /\ Sealed(i) => ring[Index(Pos(i))].tag = "SEAL"
          BY <3>2, <4>1 DEF LogInv, RingInv
        <4>3. PICK p : p = Pos(i)
          OBVIOUS
        <4>4. placed'[i].pos = p
          BY <4>1, <4>3
        <4> QED
          BY <2>4, <2>6, <3>2, <4>1, <4>2, <4>3, <4>4
      <3> QED
        BY <1>4, <3>1, <3>2
    <2> QED
      BY <2>7 DEF RingInv, Pos, Index
  <1>18. ASSUME Reading PROVE ReadInv'
    <2>1. \A u \in Unreserved' : loc'[u].tail = tail /\ at'[u] \notin {"drop", "skip"}
      BY <1>10, <1>11, <1>18, CallSets DEF LogInv, ReadInv
    <2>2. /\ at[Reader] \in HasRecord => \A u \in Logging' : tail < loc'[u].since
          /\ at[Reader] \in HasRecord => tail < head'
          /\ loc[Reader].head <= head' /\ loc[Reader].head \in Nat
      <3>1. loc[Reader].head <= head /\ loc[Reader].head \in Nat
        BY <1>18, RecordTypes, WordsFacts DEF LogInv, ReadInv
      <3>2. at[Reader] \in HasRecord => tail < head /\ \A u \in Logging : tail < loc[u].since
        BY <1>18 DEF LogInv, ReadInv
      <3>3. head <= head'
        BY <1>2
      <3>4. at[Reader] \in HasRecord => \A u \in Logging' : tail < loc'[u].since
        BY <1>10, <1>11, <3>2
      <3> QED
        BY <1>2, <3>1, <3>2, <3>3, <3>4, SMTT(20)
    <2>3. at[Reader] \in HasHeader =>
             /\ loc[Reader].n \in Records' /\ Pos(loc[Reader].n)' = tail
             /\ placed'[loc[Reader].n].size = loc[Reader].size
      <3>1. at[Reader] \in HasHeader =>
             /\ loc[Reader].n \in Records /\ Pos(loc[Reader].n) = tail
             /\ placed[loc[Reader].n].size = loc[Reader].size
        BY <1>18 DEF LogInv, ReadInv
      <3>2. loc'[Reader] = loc[Reader]
        BY <1>10, <1>18
      <3> QED
        BY <1>4, <1>5, <3>1, <3>2 DEF Pos
    <2> QED
      BY <1>10, <1>12, <1>18, <2>1, <2>2, <2>3 DEF LogInv, ReadInv
  <1>19. OutInv'
    <2>1. ASSUME NEW j \in DOMAIN out
          PROVE  /\ out'[j].n \in Records' /\ out'[j].whole
                 /\ placed'[out'[j].n].pos >= tail' =>
                       /\ at'[Reader] \in {"free", "pending", "advance"}
                       /\ out'[j].n = loc'[Reader].n
      <3>1. out'[j].n \in Records /\ placed'[out'[j].n].pos = Pos(out[j].n)
        BY <1>5 DEF LogInv, OutInv
      <3>2. Pos(out[j].n) >= tail => Reading
        BY DEF LogInv, OutInv, Reading, ReaderPlaces
      <3> QED
        BY <1>4, <1>10, <3>1, <3>2 DEF LogInv, OutInv
    <2> QED
      BY <2>1 DEF LogInv, OutInv, Pos
  <1> QED
    BY <1>10, <1>13, <1>14, <1>15, <1>16, <1>17, <1>18, <1>19 DEF LogInv

\* The race for head: won, lost and tried again, or given up.
LEMMA ReserveInv ==
    ASSUME TypeInv, LogInv, NEW t \in Writers, Reserve(t)
    PROVE  LogInv'
  <1>1. at[t] = "space" /\ ~Short(loc[t]) /\ UNCHANGED <<ring, tail, out>>
    BY DEF Reserve, Step
  <1>2. CASE head = loc[t].head /\ UNCHANGED <<head, placed>>
    <2>1. head' = head + loc[t].size
      BY <1>2 DEF Reserve
    <2> QED
      BY <1>1, <1>2, <2>1, SearchFacts, RecordTypes
  <1>3. CASE /\ head = loc[t].head
             /\ head' = head + loc[t].size
             /\ placed' = Append(placed, [size |-> loc[t].size, pos |-> head])
             /\ Go(t, "header", [loc[t] EXCEPT !.n = Len(placed) + 1])
    BY <1>1, <1>3, PlaceInv
  <1>4. CASE /\ loc[t].tries > 1
             /\ Go(t, "reload", [loc[t] EXCEPT !.head = head, !.tries = @ - 1])
             /\ UNCHANGED <<head, placed>>
    <2>1. loc[t] \in Locals /\ head \in Nat
      BY <1>1, SearchFacts
    <2>2. PICK v \in Nat : v = loc[t].tries - 1
      BY <1>4, <2>1 DEF Locals
    <2> DEFINE l == [loc[t] EXCEPT !.head = head, !.tries = v]
    <2>3. /\ l \in Locals /\ l.head = head /\ l.size = loc[t].size /\ l.since = loc[t].since
          /\ l.tail = loc[t].tail
      BY <2>1 DEF Locals
    <2>4. Go(t, "reload", l)
      BY <1>4, <2>2
    <2> HIDE DEF l
    <2> QED
      BY <1>1, <1>4, <2>3, <2>4, SearchFacts, PrivateStep
  <1>5. CASE Go(t, "idle", NoLocals) /\ UNCHANGED <<head, placed>>
    BY <1>1, <1>5, LeaveStep
  <1> QED
    BY <1>3, <1>4, <1>5 DEF Reserve

\* A call that writes into the record it holds.
LEMMA HoldMoved ==
    ASSUME TypeInv, NEW t \in Holding, NEW a \in {"text", "seal", "announce"},
           Go(t, a, loc[t]), UNCHANGED <<head, tail, placed, out>>
    PROVE  /\ t \in Threads /\ at'[t] = a /\ \A u \in Threads : loc'[u] = loc[u]
           /\ \A u \in Threads \ {t} : at'[u] = at[u]
           /\ Reading' <=> Reading
           /\ Reading => t # Reader /\ at'[Reader] = at[Reader]
           /\ ~Reading => at[Reader] \notin ReaderPlaces /\ at'[Reader] \notin ReaderPlaces
           /\ Logging' = Logging /\ Unreserved' = Unreserved
           /\ Holding' = IF a = "announce" THEN Holding \ {t} ELSE Holding
           /\ \A i \in Records : Sealed(i)' /\ i # loc[t].n => Sealed(i)
           /\ \A i \in Records, k \in Int : Written(i, k)' /\ i # loc[t].n => Written(i, k)
  <1>1. /\ t \in Writers /\ t \in Threads /\ t \in Logging /\ t \notin Unreserved
        /\ at[t] \in WriterPlaces /\ a \in WriterPlaces /\ loc[t] \in Locals
        /\ a \notin {"idle", "head", "space", "drop", "skip", "reload"}
    BY CallSets, RecordTypes DEF Holding, WriterPlaces
  <1>2. at[t] \in WriterPlaces \cup {"idle"} /\ a \in WriterPlaces \cup {"idle"}
    BY <1>1
  <1>3. /\ Logging' = IF a = "idle" THEN Logging \ {t} ELSE Logging \cup {t}
        /\ Unreserved' = IF a \in {"head", "space", "drop", "skip", "reload"}
                         THEN Unreserved \cup {t} ELSE Unreserved \ {t}
        /\ Holding' = IF a \in {"header", "text", "seal"} THEN Holding \cup {t}
                      ELSE Holding \ {t}
    BY <1>1, <1>2, WriterMoved
  <1>4. Logging' = Logging /\ Unreserved' = Unreserved
    BY <1>1, <1>3
  <1>5. Holding' = IF a = "announce" THEN Holding \ {t} ELSE Holding
    BY <1>3
  <1>6. /\ at'[t] = a /\ loc'[t] = loc[t]
        /\ \A u \in Threads \ {t} : at'[u] = at[u] /\ loc'[u] = loc[u]
        /\ Reading' <=> Reading
        /\ Reading => t # Reader /\ at'[Reader] = at[Reader]
        /\ ~Reading => at[Reader] \notin ReaderPlaces /\ at'[Reader] \notin ReaderPlaces
    BY <1>1, <1>2, WriterMoved
  <1>7. \A i \in Records, k \in Int : Written(i, k)' /\ i # loc[t].n => Written(i, k)
    BY <1>5, <1>6, CallSets DEF Written
  <1>8. at'[Reader] \in {"pending", "advance"} <=> at[Reader] \in {"pending", "advance"}
    BY <1>6 DEF ReaderPlaces
  <1>9. \A i \in Records : Sealed(i)' /\ i # loc[t].n => Sealed(i)
    BY <1>5, <1>6, <1>8, CallSets DEF Sealed, Pos
  <1> QED
    BY <1>1, <1>4, <1>5, <1>6, <1>7, <1>9

LEMMA WriteStep ==
    ASSUME TypeInv, LogInv, NEW t \in Holding, NEW a \in {"text", "seal", "announce"},
           Go(t, a, loc[t]), UNCHANGED <<head, tail, placed, out>>, RingInv'
    PROVE  LogInv'
  <1>1. /\ t \in Threads /\ at'[t] = a /\ \A u \in Threads : loc'[u] = loc[u]
        /\ \A u \in Threads \ {t} : at'[u] = at[u]
        /\ Reading' <=> Reading
        /\ Reading => t # Reader /\ at'[Reader] = at[Reader]
        /\ ~Reading => at[Reader] \notin ReaderPlaces /\ at'[Reader] \notin ReaderPlaces
        /\ Logging' = Logging /\ Unreserved' = Unreserved
        /\ Holding' = IF a = "announce" THEN Holding \ {t} ELSE Holding
    BY HoldMoved
  <1>2. Holding' \subseteq Holding /\ t \notin Unreserved /\ Reader \in Threads
        /\ at[t] \notin {"head", "drop", "skip"}
    BY <1>1, CallSets, WordsFacts DEF Holding
  <1>3. /\ Records' = Records /\ \A i \in Records : Pos(i)' = Pos(i) /\ End(i)' = End(i)
        /\ \A p : Boundary(p)' <=> Boundary(p)
    BY DEF Records, Pos, End, Boundary
  <1>4. Booked' = Booked
    BY <1>1, CallSets, WantedSame DEF Booked
  <1>5. PlacedInv' /\ SpanInv'
    BY <1>3 DEF LogInv, PlacedInv, SpanInv
  <1>6. ASSUME NEW u \in Logging PROVE CallInv(u)'
    <2>1. CallInv(u) /\ u \in Threads /\ loc'[u] = loc[u]
      BY <1>1, CallSets DEF LogInv
    <2>2. CASE u # t
      <3>1. at'[u] = at[u]
        BY <1>1, <2>1, <2>2
      <3>2. Oldest(u) => Oldest(u)'
        BY <1>1, <1>3, <2>1, <3>1, CallSets DEF Oldest
      <3> QED
        BY <1>1, <1>3, <1>4, <2>1, <3>1, <3>2 DEF CallInv
    <2>3. CASE u = t
      BY <1>1, <1>2, <1>3, <1>4, <2>1, <2>3 DEF CallInv
    <2> QED
      BY <2>2, <2>3
  <1>7. ASSUME NEW u \in Holding' PROVE HoldInv(u)'
    BY <1>1, <1>2, <1>3, CallSets DEF LogInv, HoldInv
  <1>8. ASSUME Reading PROVE ReadInv'
    <2>1. \A u \in Unreserved : loc'[u].tail = tail /\ at'[u] \notin {"drop", "skip"}
      BY <1>1, <1>2, <1>8, CallSets DEF LogInv, ReadInv
    <2>2. \A u \in Logging : loc'[u].since = loc[u].since
      BY <1>1, CallSets
    <2> QED
      BY <1>1, <1>2, <1>3, <1>4, <1>8, <2>1, <2>2 DEF LogInv, ReadInv
  <1>9. OutInv'
    BY <1>1, <1>2, <1>3 DEF LogInv, OutInv, ReaderPlaces
  <1> QED
    BY <1>1, <1>5, <1>6, <1>7, <1>8, <1>9 DEF LogInv

\* What a call stores is its record's, and the words of the others stay.
LEMMA WriteInv ==
    ASSUME TypeInv, LogInv, NEW t \in Writers, WriteHeader(t) \/ WriteText(t) \/ Seal(t)
    PROVE  LogInv'
  <1>1. /\ t \in Holding /\ UNCHANGED <<head, tail, placed, out>>
        /\ (WriteHeader(t) => at[t] = "header") /\ (WriteText(t) => at[t] = "text")
        /\ (Seal(t) => at[t] = "seal")
    BY DEF WriteHeader, WriteText, Seal, Step, Holding, history
  <1>2. PICK a \in {"text", "seal", "announce"} :
           /\ Go(t, a, loc[t])
           /\ a = "text" => WriteHeader(t)
           /\ a = "seal" => WriteText(t)
           /\ a = "announce" => Seal(t)
    BY DEF WriteHeader, WriteText, Seal
  <1>3. PICK n \in Records : n = loc[t].n /\ Pos(n) = loc[t].head
                             /\ placed[n].size = loc[t].size /\ Pos(n) >= tail
    BY <1>1, HeldRecord
  <1>4. PICK p \in Nat, z \in Nat : p = Pos(n) /\ z = placed[n].size /\ z >= 4
    BY RecordTypes
  <1>5. loc[t].head = p /\ loc[t].size = z /\ loc[t].n = n /\ loc[t] \in Locals
    BY <1>1, <1>3, <1>4, CallSets, RecordTypes
  <1>6. /\ \A u \in Threads : loc'[u] = loc[u]
        /\ at'[t] = a /\ Holding' = IF a = "announce" THEN Holding \ {t} ELSE Holding
        /\ \A i \in Records : Sealed(i)' /\ i # n => Sealed(i)
        /\ \A i \in Records, k \in Int : Written(i, k)' /\ i # n => Written(i, k)
    BY <1>1, <1>2, <1>3, HoldMoved
  <1>7. \A i \in 0 .. Words - 1 : (\A k \in 0 .. z - 1 : i # Index(p + k)) => ring'[i] = ring[i]
    <2> SUFFICES ASSUME NEW i \in 0 .. Words - 1, \A k \in 0 .. z - 1 : i # Index(p + k)
                 PROVE  ring'[i] = ring[i]
      OBVIOUS
    <2>1. ASSUME NEW from \in Nat, NEW to \in Nat, to <= z - 1
          PROVE  Stored(loc[t], from, to)[i] = ring[i]
      <3>1. \A k \in from .. to : k \in 0 .. z - 1
        BY <1>4, <2>1
      <3> QED
        BY <1>5, <3>1, StoredAt DEF TypeInv
    <2>2. CASE a = "text"
      <3>1. Stored(loc[t], 0, 2)[i] = ring[i]
        BY <1>4, <2>1
      <3>2. i # Index(p + 2)
        BY <1>4
      <3>3. PICK stamp \in Stamps : ring' = [Stored(loc[t], 0, 2) EXCEPT ![Index(p + 2)].tag = stamp]
        BY <1>2, <1>5, <2>2 DEF WriteHeader
      <3>4. i \in DOMAIN Stored(loc[t], 0, 2)
        BY DEF Stored
      <3> QED
        BY <3>1, <3>2, <3>3, <3>4
    <2>3. CASE a = "seal"
      <3>1. z - 1 \in Nat
        BY <1>4
      <3> QED
        BY <1>2, <1>5, <2>1, <2>3, <3>1 DEF WriteText
    <2>4. CASE a = "announce"
      <3>1. i # Index(p)
        BY <1>4
      <3> QED
        BY <1>2, <1>5, <2>4, <3>1 DEF Seal, TypeInv, TypeOK
    <2> QED
      BY <2>2, <2>3, <2>4
  <1>8. ASSUME NEW i \in Records, i # n, Pos(i) >= tail, NEW k \in 0 .. placed[i].size - 1
        PROVE  ring'[Index(Pos(i) + k)] = ring[Index(Pos(i) + k)]
    <2>1. Pos(i) + k \in Nat
      BY RecordTypes
    <2>2. Index(Pos(i) + k) \in 0 .. Words - 1
      BY <2>1, IndexType
    <2>3. \A m \in 0 .. z - 1 : Index(Pos(i) + k) # Index(p + m)
      BY <1>3, <1>4, <1>8, WordsApart DEF LogInv
    <2> QED
      BY <1>7, <2>2, <2>3
  <1>9. \A k, m \in 0 .. z - 1 : Index(p + k) = Index(p + m) => k = m
    BY <1>3, <1>4, WordsApart DEF LogInv
  <1>10. \A k \in 0 .. z - 1 : Index(p + k) \in 0 .. Words - 1
    <2>1. \A k \in 0 .. z - 1 : p + k \in Nat
      BY <1>4
    <2> QED
      BY <2>1, IndexType
  <1>11. ASSUME NEW from \in Nat, NEW to \in Nat, to <= z - 1, NEW k \in 0 .. z - 1
         PROVE  LET w == Stored(loc[t], from, to)[Index(p + k)]
                IN  /\ k \in from .. to => w.rec = n /\ w.k = k
                    /\ k \notin from .. to => w = ring[Index(p + k)]
    <2> DEFINE w == Stored(loc[t], from, to)[Index(p + k)]
    <2>1. \A m \in from .. to : m \in 0 .. z - 1
      BY <1>4, <1>11
    <2>2. \A m \in from .. to : Index(p + k) = Index(p + m) => k = m
      BY <1>9, <2>1
    <2>3. \/ (\A m \in from .. to : Index(p + k) # Index(p + m)) /\ w = ring[Index(p + k)]
          \/ \E m \in from .. to : /\ Index(p + k) = Index(p + m)
                                   /\ w = Word(n, m, IF m = 0 THEN "FREE" ELSE "data")
      <3>1. PICK i \in 0 .. Words - 1 : i = Index(p + k)
        BY <1>10
      <3>2. \/ /\ \A m \in from .. to : i # Index(loc[t].head + m)
               /\ Stored(loc[t], from, to)[i] = ring[i]
            \/ \E m \in from .. to :
                  /\ i = Index(loc[t].head + m)
                  /\ Stored(loc[t], from, to)[i] = Word(loc[t].n, m, IF m = 0 THEN "FREE" ELSE "data")
        <4>1. TypeOK
          BY DEF TypeInv
        <4>2. loc[t] \in Locals
          BY <1>5
        <4> QED
          BY <4>1, <4>2, StoredAt, ZenonT(40)
      <3>3. w = Stored(loc[t], from, to)[i]
        BY <3>1
      <3> HIDE DEF w
      <3> QED
        BY <1>5, <3>1, <3>2, <3>3
    <2>4. CASE \E m \in from .. to : /\ Index(p + k) = Index(p + m)
                                     /\ w = Word(n, m, IF m = 0 THEN "FREE" ELSE "data")
      <3>1. k \in from .. to /\ w = Word(n, k, IF k = 0 THEN "FREE" ELSE "data")
        BY <2>2, <2>4
      <3> HIDE DEF w
      <3>2. w.rec = n /\ w.k = k
        BY <3>1 DEF Word
      <3> QED
        BY <3>1, <3>2 DEF w
    <2> QED
      BY <2>3, <2>4
  <1>12. \A k \in 0 .. z - 1 :
            Written(n, k) => ring[Index(p + k)].rec = n /\ ring[Index(p + k)].k = k
    BY <1>3, <1>4 DEF LogInv, RingInv
  <1>13. \A u \in Holding : loc[u].n = n => u = t
    BY <1>1, <1>3 DEF LogInv, HoldInv
  <1>14. ASSUME NEW k \in 0 .. z - 1, Written(n, k)'
         PROVE  ring'[Index(p + k)].rec = n /\ ring'[Index(p + k)].k = k
    <2>1. Index(p + k) \in 0 .. Words - 1
      BY <1>10
    <2>2. CASE a = "text"
      <3>1. t \in Holding' /\ loc'[t].n = n /\ at'[t] = "text"
        BY <1>1, <1>3, <1>6, <2>2, CallSets
      <3>2. k \in 0 .. 2
        BY <1>14, <3>1 DEF Written
      <3>3. PICK stamp \in Stamps : ring' = [Stored(loc[t], 0, 2) EXCEPT ![Index(p + 2)].tag = stamp]
        BY <1>2, <1>5, <2>2 DEF WriteHeader
      <3> DEFINE S == Stored(loc[t], 0, 2)
      <3>4. S[Index(p + k)].rec = n /\ S[Index(p + k)].k = k
        BY <1>4, <1>11, <3>2
      <3>5. S \in [0 .. Words - 1 -> WordTypes] /\ ring' = [S EXCEPT ![Index(p + 2)].tag = stamp]
        <4>1. loc[t].n <= Len(placed)
          BY <1>1, CallSets DEF TypeInv, TypeOK
        <4> QED
          BY <1>5, <3>3, <4>1, StoredTypes DEF TypeInv
      <3> HIDE DEF S
      <3> QED
        BY <2>1, <3>4, <3>5 DEF WordTypes
    <2>3. CASE a = "seal"
      <3>1. ring' = Stored(loc[t], 3, z - 1) /\ z - 1 \in Nat
        BY <1>2, <1>4, <1>5, <2>3 DEF WriteText
      <3>2. k \notin 3 .. z - 1 => k <= 2
        OBVIOUS
      <3>3. k <= 2 => Written(n, k)
        <4>1. at[t] = "text"
          BY <1>1, <1>2, <2>3
        <4> QED
          BY <1>13, <4>1 DEF Written
      <3> QED
        BY <1>11, <1>12, <3>1, <3>2, <3>3
    <2>4. CASE a = "announce"
      <3>1. Written(n, k)
        <4>1. at[t] = "seal"
          BY <1>1, <1>2, <2>4
        <4> QED
          BY <1>13, <4>1 DEF Written
      <3>2. ring' = [ring EXCEPT ![Index(p)].tag = "SEAL"]
        BY <1>2, <1>5, <2>4 DEF Seal
      <3>3. ring \in [0 .. Words - 1 -> WordTypes]
        BY DEF TypeInv, TypeOK, WordTypes
      <3> QED
        BY <1>12, <2>1, <3>1, <3>2, <3>3 DEF WordTypes
    <2> QED
      BY <2>2, <2>3, <2>4
  <1>15. ASSUME Sealed(n)' PROVE ring'[Index(p)].tag = "SEAL"
    <2>1. CASE a = "announce"
      <3>1. Index(p) \in 0 .. Words - 1
        BY <1>4, IndexType
      <3>2. ring' = [ring EXCEPT ![Index(p)].tag = "SEAL"]
        BY <1>2, <1>5, <2>1 DEF Seal
      <3>3. ring \in [0 .. Words - 1 -> WordTypes]
        BY DEF TypeInv, TypeOK, WordTypes
      <3> QED
        BY <3>1, <3>2, <3>3 DEF WordTypes
    <2>2. CASE a # "announce"
      <3>1. t \in Holding' /\ loc'[t].n = n
        BY <1>1, <1>3, <1>6, <2>2, CallSets
      <3> QED
        BY <1>15, <3>1 DEF Sealed
    <2> QED
      BY <2>1, <2>2
  <1>16. ASSUME NEW i \in Records, Pos(i) >= tail
         PROVE  /\ \A k \in 0 .. placed[i].size - 1 :
                      Written(i, k)' => /\ ring'[Index(Pos(i) + k)].rec = i
                                        /\ ring'[Index(Pos(i) + k)].k = k
                /\ Sealed(i)' => ring'[Index(Pos(i))].tag = "SEAL"
    <2>1. CASE i = n
      BY <1>4, <1>14, <1>15, <2>1
    <2>2. CASE i # n
      <3>1. \A k \in 0 .. placed[i].size - 1 : ring'[Index(Pos(i) + k)] = ring[Index(Pos(i) + k)]
        BY <1>8, <1>16, <2>2
      <3>2. ring'[Index(Pos(i))] = ring[Index(Pos(i))]
        <4>1. Pos(i) \in Nat /\ Pos(i) + 0 = Pos(i) /\ 0 \in 0 .. placed[i].size - 1
          BY RecordTypes
        <4> QED
          BY <3>1, <4>1
      <3>3. /\ \A k \in 0 .. placed[i].size - 1 :
                  Written(i, k) => ring[Index(Pos(i) + k)].rec = i /\ ring[Index(Pos(i) + k)].k = k
            /\ Sealed(i) => ring[Index(Pos(i))].tag = "SEAL"
        BY <1>16 DEF LogInv, RingInv
      <3>4. (Sealed(i)' => Sealed(i)) /\ \A k \in Int : Written(i, k)' => Written(i, k)
        BY <1>6, <2>2
      <3> QED
        BY <3>1, <3>2, <3>3, <3>4
    <2> QED
      BY <2>1, <2>2
  <1>17. RingInv'
    BY <1>1, <1>16 DEF RingInv, Records, Pos, Index
  <1> QED
    BY <1>1, <1>2, <1>17, WriteStep

-----------------------------------------------------------------------------
(* The steps of log_flash *)

\* The record that log_flash takes out, and the number and the size it has read of it.
RecordAt(l) == l.n \in Records /\ Pos(l.n) = tail /\ placed[l.n].size = l.size

\* A step that touches nothing but the variables of log_flash.
LEMMA ReadStep ==
    ASSUME TypeInv, LogInv, Runs(Reader), at[Reader] \in ReaderPlaces \cup {"idle"},
           NEW a \in ReaderPlaces \cup {"idle"}, NEW l \in Locals, Go(Reader, a, l),
           UNCHANGED <<ring, head, tail, placed, out>>,
           a \notin {"resync", "scan", "recover"},
           a \in {"floop"} \cup (HasRecord \ {"advance"}) => l.tail = tail,
           l.head <= head,
           a \in HasRecord => tail < head,
           a \in HasHeader => RecordAt(l),
           a \in {"recheck", "ftext", "verify"} => l.whole,
           a = "advance" => l.tail = tail + l.size,
           at[Reader] \in {"pending", "advance"} => a \in {"pending", "advance"},
           at[Reader] \in {"free", "pending", "advance"} =>
              a \in {"free", "pending", "advance"} /\ l.n = loc[Reader].n
    PROVE  LogInv'
  <1>1. /\ at'[Reader] = a /\ loc'[Reader] = l
        /\ Logging = {} /\ Holding = {} /\ Unreserved = {} /\ Wanted = 0
        /\ Logging' = {} /\ Holding' = {} /\ Unreserved' = {} /\ Wanted' = 0
    BY ReaderAlone
  <1>2. /\ Records' = Records /\ \A i \in Records : Pos(i)' = Pos(i) /\ End(i)' = End(i)
        /\ \A p : Boundary(p)' <=> Boundary(p)
    BY DEF Records, Pos, End, Boundary
  <1>3. PlacedInv' /\ SpanInv'
    BY <1>2 DEF LogInv, PlacedInv, SpanInv
  <1>4. RingInv'
    <2>1. \A i, k : Written(i, k)' <=> Written(i, k)
      BY <1>1 DEF Written
    <2>2. \A i \in Records : Sealed(i)' => Sealed(i)
      BY <1>1, <1>2 DEF Sealed
    <2> QED
      BY <1>2, <2>1, <2>2 DEF LogInv, RingInv
  <1>5. ReadInv'
    <2>1. Booked' <= tail' + Words
      BY <1>1, RecordTypes DEF LogInv, SpanInv, Booked
    <2>2. a \in HasHeader => /\ loc'[Reader].n \in Records' /\ Pos(loc[Reader].n)' = tail'
                             /\ placed'[loc'[Reader].n].size = loc'[Reader].size
      BY <1>1, <1>2 DEF RecordAt, Pos
    <2>3. /\ a \in {"floop"} \cup (HasRecord \ {"advance"}) => loc'[Reader].tail = tail'
          /\ loc'[Reader].head <= head'
          /\ a = "advance" => loc'[Reader].tail = tail' + loc'[Reader].size
      BY <1>1
    <2>4. a \in {"recheck", "ftext", "verify"} => loc'[Reader].whole
      BY <1>1
    <2> QED
      BY <1>1, <2>1, <2>2, <2>3, <2>4 DEF ReadInv
  <1>6. OutInv'
    <2>1. at[Reader] \in {"free", "pending", "advance"} =>
             at'[Reader] \in {"free", "pending", "advance"} /\ loc'[Reader].n = loc[Reader].n
      BY <1>1
    <2> QED
      BY <1>2, <2>1 DEF LogInv, OutInv
  <1> QED
    BY <1>1, <1>3, <1>4, <1>5, <1>6 DEF LogInv

\* What log_flash knows, while nobody is logging.
LEMMA ReadFacts ==
    ASSUME TypeInv, LogInv, at[Reader] \in ReaderPlaces
    PROVE  /\ ReadInv /\ loc[Reader].head <= head
           /\ head \in Nat /\ tail \in Nat /\ tail <= head
           /\ loc[Reader] \in Locals /\ loc[Reader].tail \in Nat /\ loc[Reader].size \in Nat
           /\ loc[Reader].head \in Nat
           /\ at[Reader] \notin {"resync", "scan", "recover"}
           /\ at[Reader] \in {"floop"} \cup (HasRecord \ {"advance"}) => loc[Reader].tail = tail
           /\ at[Reader] \in HasRecord => tail < head
           /\ at[Reader] \in HasHeader => RecordAt(loc[Reader])
           /\ at[Reader] \in {"recheck", "ftext", "verify"} => loc[Reader].whole
           /\ at[Reader] = "advance" => loc[Reader].tail = tail + loc[Reader].size
  <1>1. ReadInv
    BY DEF LogInv, Reading
  <1>2. /\ head \in Nat /\ tail \in Nat /\ tail <= head
        /\ loc[Reader] \in Locals /\ loc[Reader].tail \in Nat /\ loc[Reader].size \in Nat
        /\ loc[Reader].head \in Nat
    BY RecordTypes, WordsFacts DEF LogInv, SpanInv
  <1> QED
    BY <1>1, <1>2 DEF ReadInv, RecordAt

LEMMA FlashInv ==
    ASSUME TypeInv, LogInv, Flash \/ FlashTail \/ FlashLoop
    PROVE  LogInv'
  <1>1. /\ Runs(Reader) /\ UNCHANGED <<ring, head, tail, placed, out>>
    BY DEF Flash, FlashTail, FlashLoop, Step, shared, history
  <1>2. CASE Flash
    <2> DEFINE l == [NoLocals EXCEPT !.head = head]
    <2>1. at[Reader] = "idle" /\ Go(Reader, "ftail", l) /\ head \in Nat
      BY <1>2, RecordTypes DEF Flash, Step
    <2>2. l \in Locals /\ l.head = head
      BY <2>1 DEF NoLocals, Locals
    <2> HIDE DEF l
    <2> QED
      BY <1>1, <2>1, <2>2, ReadStep DEF ReaderPlaces, HasRecord, HasHeader
  <1>3. CASE FlashTail
    <2> DEFINE l == [loc[Reader] EXCEPT !.tail = tail]
    <2>1. at[Reader] = "ftail" /\ Go(Reader, "floop", l)
      BY <1>3 DEF FlashTail, Step
    <2>2. l \in Locals /\ l.tail = tail /\ l.head = loc[Reader].head /\ l.head <= head
      BY <2>1, ReadFacts DEF Locals, ReaderPlaces
    <2> HIDE DEF l
    <2> QED
      BY <1>1, <2>1, <2>2, ReadStep DEF ReaderPlaces, HasRecord, HasHeader
  <1>4. CASE FlashLoop
    <2> DEFINE l == loc[Reader]
    <2>1. at[Reader] = "floop"
      BY <1>4 DEF FlashLoop, Step
    <2>2. l \in Locals /\ l.tail = tail /\ l.head <= head /\ tail \in Nat /\ head \in Nat /\ l.head \in Nat
      BY <2>1, ReadFacts DEF ReaderPlaces
    <2>3. \/ Go(Reader, "clear", l)
          \/ Go(Reader, "ftag", l) /\ tail < head
      BY <1>4, <2>2 DEF FlashLoop
    <2> HIDE DEF l
    <2> QED
      BY <1>1, <2>1, <2>2, <2>3, ReadStep DEF ReaderPlaces, HasRecord, HasHeader
  <1> QED
    BY <1>2, <1>3, <1>4

\* The record at tail, seen by log_flash.
LEMMA TakenRecord ==
    ASSUME TypeInv, LogInv, Runs(Reader), at[Reader] \in HasRecord \ {"pending", "advance"}
    PROVE  \E i \in Records :
              /\ Pos(i) = tail /\ i # 0
              /\ \A k \in 0 .. placed[i].size - 1 :
                    ring[Index(tail + k)].rec = i /\ ring[Index(tail + k)].k = k
              /\ ring[Index(tail)].tag = "SEAL" /\ Claims(tail) = {placed[i].size}
  <1>1. tail < head
    BY ReadFacts DEF HasRecord, HasHeader, ReaderPlaces
  <1>2. \A u \in Logging : tail < loc[u].since
    BY ReadFacts DEF ReadInv, HasRecord, HasHeader, ReaderPlaces
  <1> QED
    BY <1>1, <1>2, OldestRecord

LEMMA TagInv ==
    ASSUME TypeInv, LogInv, FlashTag \/ Resync \/ Scan \/ Recover
    PROVE  LogInv'
  <1>1. at[Reader] \in ReaderPlaces /\ Runs(Reader) /\ UNCHANGED <<ring, head, placed, out>>
    BY DEF FlashTag, Resync, Scan, Recover, Step, ReaderPlaces, shared, history
  <1>2. at[Reader] = "ftag" /\ FlashTag /\ UNCHANGED tail
    BY <1>1, ReadFacts DEF FlashTag, Resync, Scan, Recover, Step, shared
  <1>3. ring[Index(tail)].tag = "SEAL"
    BY <1>1, <1>2, TakenRecord DEF HasRecord
  <1>4. Go(Reader, "fheader", loc[Reader]) /\ loc[Reader].tail = tail
    BY <1>1, <1>2, <1>3, ReadFacts DEF FlashTag, HasRecord, HasHeader
  <1>5. /\ loc[Reader] \in Locals /\ loc[Reader].head <= head /\ tail < head
    BY <1>1, <1>2, ReadFacts DEF HasRecord
  <1> QED
    BY <1>1, <1>2, <1>4, <1>5, ReadStep DEF ReaderPlaces, HasRecord, HasHeader

\* The header that is read is that of the record at tail.
LEMMA HeaderInv ==
    ASSUME TypeInv, LogInv, ReadHeader
    PROVE  LogInv'
  <1>1. /\ at[Reader] = "fheader" /\ Runs(Reader) /\ UNCHANGED <<ring, head, tail, placed, out>>
        /\ at[Reader] \in ReaderPlaces
    BY DEF ReadHeader, Step, ReaderPlaces, shared, history
  <1>2. PICK i \in Records :
           /\ Pos(i) = tail /\ i # 0
           /\ \A k \in 0 .. placed[i].size - 1 :
                 ring[Index(tail + k)].rec = i /\ ring[Index(tail + k)].k = k
           /\ Claims(tail) = {placed[i].size}
    BY <1>1, TakenRecord DEF HasRecord
  <1>3. placed[i].size \in Nat /\ placed[i].size >= 4 /\ i \in Nat
    <2>1. Records \subseteq Nat
      BY RecordTypes
    <2> QED
      BY <2>1, RecordTypes
  <1>4. \A k \in 0 .. 2 : ring[Index(tail + k)].rec = i /\ ring[Index(tail + k)].k = k
    BY <1>2, <1>3
  <1>5. /\ loc[Reader] \in Locals /\ loc[Reader].head <= head /\ tail < head
        /\ loc[Reader].tail = tail
    BY <1>1, ReadFacts DEF HasRecord, HasHeader
  <1>6. PICK w \in BOOLEAN :
           /\ w <=> \A k \in 0 .. 2 : /\ ring[Index(tail + k)].rec = ring[Index(tail)].rec
                                      /\ ring[Index(tail + k)].k = k
           /\ \E s \in Claims(tail) :
                 Go(Reader, "recheck",
                    [loc[Reader] EXCEPT !.n = ring[Index(tail)].rec, !.size = s, !.whole = w])
    BY <1>5, Zenon DEF ReadHeader, Holds
  <1>7. ring[Index(tail)].rec = i
    <2>1. tail + 0 = tail
      BY <1>5 DEF TypeInv, TypeOK
    <2> QED
      BY <1>4, <2>1
  <1>8. w
    BY <1>4, <1>6, <1>7
  <1> DEFINE l == [loc[Reader] EXCEPT !.n = i, !.size = placed[i].size, !.whole = w]
  <1>9. /\ l \in Locals /\ l.n = i /\ l.size = placed[i].size /\ l.tail = tail
        /\ l.head <= head
    BY <1>3, <1>5 DEF Locals
  <1>10. l.whole
    BY <1>5, <1>8 DEF Locals
  <1>11. Go(Reader, "recheck", l)
    BY <1>2, <1>6, <1>7
  <1> HIDE DEF l
  <1>12. RecordAt(l)
    BY <1>2, <1>9 DEF RecordAt
  <1> QED
    BY <1>1, <1>5, <1>9, <1>10, <1>11, <1>12, ReadStep DEF ReaderPlaces, HasRecord, HasHeader

\* There is one record at tail.
LEMMA SameRecord ==
    ASSUME TypeInv, LogInv, NEW i \in Records, NEW j \in Records, Pos(i) = Pos(j), Pos(i) >= tail
    PROVE  i = j
  <1>1. 0 \in 0 .. placed[i].size - 1 /\ 0 \in 0 .. placed[j].size - 1 /\ Pos(j) >= tail
    BY RecordTypes
  <1>2. Index(Pos(i) + 0) = Index(Pos(j) + 0)
    OBVIOUS
  <1> QED
    BY <1>1, <1>2, WordsApart DEF LogInv

LEMMA TextInv ==
    ASSUME TypeInv, LogInv, Recheck \/ ReadText
    PROVE  LogInv'
  <1>1. /\ at[Reader] \in {"recheck", "ftext"} /\ Runs(Reader) /\ at[Reader] \in ReaderPlaces
        /\ UNCHANGED <<ring, head, tail, placed, out>>
    BY DEF Recheck, ReadText, Step, ReaderPlaces, shared, history
  <1>2. /\ loc[Reader] \in Locals /\ loc[Reader].head <= head /\ tail < head
        /\ loc[Reader].tail = tail /\ RecordAt(loc[Reader]) /\ loc[Reader].whole
    BY <1>1, ReadFacts DEF HasRecord, HasHeader
  <1>3. CASE Recheck
    <2>1. Go(Reader, "ftext", loc[Reader])
      BY <1>2, <1>3 DEF Recheck
    <2> QED
      BY <1>1, <1>2, <2>1, ReadStep DEF ReaderPlaces, HasRecord, HasHeader
  <1>4. CASE ReadText
    <2>1. PICK i \in Records :
             /\ Pos(i) = tail
             /\ \A k \in 0 .. placed[i].size - 1 :
                   ring[Index(tail + k)].rec = i /\ ring[Index(tail + k)].k = k
      BY <1>1, TakenRecord DEF HasRecord, HasHeader
    <2>2. i = loc[Reader].n /\ placed[i].size = loc[Reader].size
      BY <1>2, <2>1, SameRecord, RecordTypes DEF RecordAt
    <2>3. \A k \in 4 .. loc[Reader].size - 1 :
             ring[Index(tail + k)].rec = loc[Reader].n /\ ring[Index(tail + k)].k = k
      BY <2>1, <2>2
    <2>4. PICK f \in BOOLEAN, w \in BOOLEAN :
             /\ w <=> loc[Reader].whole /\ \A k \in 4 .. loc[Reader].size - 1 :
                         /\ ring[Index(tail + k)].rec = loc[Reader].n
                         /\ ring[Index(tail + k)].k = k
             /\ Go(Reader, "verify", [loc[Reader] EXCEPT !.first = f, !.whole = w])
      BY <1>2, <1>4, Zenon DEF ReadText, Holds
    <2>5. w
      BY <1>2, <2>3, <2>4
    <2> DEFINE l == [loc[Reader] EXCEPT !.first = f, !.whole = w]
    <2>6. /\ l \in Locals /\ l.n = loc[Reader].n /\ l.size = loc[Reader].size /\ l.tail = tail
          /\ l.head <= head
      BY <1>2 DEF Locals
    <2>7. l.whole
      BY <1>2, <2>5 DEF Locals
    <2>8. Go(Reader, "verify", l)
      BY <2>4
    <2> HIDE DEF l
    <2>9. RecordAt(l)
      BY <1>2, <2>6 DEF RecordAt
    <2> QED
      BY <1>1, <1>2, <2>6, <2>7, <2>8, <2>9, ReadStep DEF ReaderPlaces, HasRecord, HasHeader
  <1> QED
    BY <1>3, <1>4

\* The record at tail is put out; what came out before is behind tail.
LEMMA DeliverInv ==
    ASSUME TypeInv, LogInv, Deliver
    PROVE  LogInv'
  <1>1. /\ at[Reader] = "verify" /\ Runs(Reader) /\ at[Reader] \in ReaderPlaces
        /\ UNCHANGED <<ring, head, tail, placed>>
    BY DEF Deliver, Step, ReaderPlaces, shared
  <1> DEFINE l == loc[Reader]
  <1>2. /\ l \in Locals /\ l.head <= head /\ tail < head
        /\ l.tail = tail /\ RecordAt(l) /\ l.whole
    BY <1>1, ReadFacts DEF HasRecord, HasHeader
  <1>3. ring[Index(tail)].tag = "SEAL"
    BY <1>1, TakenRecord DEF HasRecord, HasHeader
  <1>4. PICK k \in BOOLEAN : out' = Append(out, [n |-> l.n, whole |-> l.whole, first |-> l.first,
                                                kept |-> k])
    BY <1>2, <1>3 DEF Deliver
  <1>5. Go(Reader, "free", l)
    BY <1>2, <1>3 DEF Deliver
  <1> HIDE DEF l
  <1>6. /\ at'[Reader] = "free" /\ loc'[Reader] = l
        /\ Logging = {} /\ Holding = {} /\ Unreserved = {} /\ Wanted = 0
        /\ Logging' = {} /\ Holding' = {} /\ Unreserved' = {} /\ Wanted' = 0
    BY <1>1, <1>2, <1>5, ReaderAlone DEF ReaderPlaces
  <1>7. /\ Records' = Records /\ \A i \in Records : Pos(i)' = Pos(i) /\ End(i)' = End(i)
        /\ \A p : Boundary(p)' <=> Boundary(p)
    BY <1>1 DEF Records, Pos, End, Boundary
  <1>8. PlacedInv' /\ SpanInv'
    BY <1>1, <1>7 DEF LogInv, PlacedInv, SpanInv
  <1>9. RingInv'
    <2>1. \A i, m : Written(i, m)' <=> Written(i, m)
      BY <1>6 DEF Written
    <2>2. \A i \in Records : Sealed(i)' => Sealed(i)
      BY <1>1, <1>6 DEF Sealed
    <2> QED
      BY <1>1, <1>7, <2>1, <2>2 DEF LogInv, RingInv
  <1>10. ReadInv'
    <2>1. Booked' <= tail' + Words
      BY <1>1, <1>6, RecordTypes DEF LogInv, SpanInv, Booked
    <2>2. /\ loc'[Reader].n \in Records' /\ Pos(loc[Reader].n)' = tail'
          /\ placed'[loc'[Reader].n].size = loc'[Reader].size
      BY <1>1, <1>2, <1>6, <1>7 DEF RecordAt, Pos
    <2>3. loc'[Reader].tail = tail' /\ loc'[Reader].head <= head' /\ tail' < head'
      BY <1>1, <1>2, <1>6
    <2> QED
      BY <1>6, <2>1, <2>2, <2>3 DEF ReadInv
  <1>11. OutInv'
    <2> DEFINE r == [n |-> l.n, whole |-> l.whole, first |-> l.first, kept |-> k]
               R == [n : Nat, whole : BOOLEAN, first : BOOLEAN, kept : BOOLEAN]
    <2>1. out \in Seq(R) /\ r \in R
      BY <1>2 DEF TypeInv, TypeOK, Locals
    <2>2. r.n = l.n
      OBVIOUS
    <2>3. r.whole
      BY <1>2, Zenon
    <2>4. out' = Append(out, r)
      BY <1>4
    <2> HIDE DEF r, R
    <2>5. PICK N \in Nat : N = Len(out) + 1 /\ DOMAIN out' = (DOMAIN out) \cup {N}
                          /\ N \notin DOMAIN out /\ out'[N] = r
                          /\ \A j \in DOMAIN out : out'[j] = out[j]
      BY <2>1, <2>4
    <2>6. \A j \in DOMAIN out : /\ out[j].n \in Records /\ out[j].whole
                                /\ ~(Pos(out[j].n) >= tail)
      BY <1>1 DEF LogInv, OutInv
    <2>7. l.n \in Records /\ Pos(l.n) = tail
      BY <1>2 DEF RecordAt
    <2>8. \A j \in DOMAIN out : out[j].n # l.n
      BY <1>2, <2>6, <2>7, RecordTypes
    <2>9. ASSUME NEW j \in DOMAIN out'
          PROVE  /\ out'[j].n \in Records' /\ out'[j].whole
                 /\ placed'[out'[j].n].pos >= tail' => out'[j].n = loc'[Reader].n
      <3>1. CASE j = N
        BY <1>6, <1>7, <2>2, <2>3, <2>5, <2>7, <3>1
      <3>2. CASE j \in DOMAIN out
        <4>1. out'[j] = out[j]
          BY <2>5, <3>2
        <4>2. out[j].n \in Records /\ out[j].whole /\ ~(placed[out[j].n].pos >= tail)
          BY <2>6, <3>2 DEF Pos
        <4> QED
          BY <1>1, <1>7, <4>1, <4>2
      <3> QED
        BY <2>5, <3>1, <3>2
    <2>10. \A i, j \in DOMAIN out' : out'[i].n = out'[j].n => i = j
      <3>1. \A i, j \in DOMAIN out : out[i].n = out[j].n => i = j
        BY DEF LogInv, OutInv
      <3> QED
        BY <2>2, <2>5, <2>8, <3>1
    <2> QED
      BY <1>6, <2>9, <2>10 DEF OutInv, Pos
  <1> QED
    BY <1>6, <1>8, <1>9, <1>10, <1>11 DEF LogInv

\* The record that came out is marked free, and nothing else.
LEMMA FreeInv ==
    ASSUME TypeInv, LogInv, Free
    PROVE  LogInv'
  <1>1. /\ at[Reader] = "free" /\ Runs(Reader) /\ at[Reader] \in ReaderPlaces
        /\ ring' = [ring EXCEPT ![Index(loc[Reader].tail)].tag = "FREE"]
        /\ Go(Reader, "pending", loc[Reader])
        /\ UNCHANGED <<head, tail, placed, out>>
    BY DEF Free, Step, ReaderPlaces, history
  <1>2. /\ loc[Reader] \in Locals /\ loc[Reader].head <= head /\ tail < head /\ tail \in Nat
        /\ loc[Reader].tail = tail /\ RecordAt(loc[Reader])
    BY <1>1, ReadFacts DEF HasRecord, HasHeader
  <1>3. /\ at'[Reader] = "pending" /\ loc'[Reader] = loc[Reader]
        /\ Logging = {} /\ Holding = {} /\ Unreserved = {} /\ Wanted = 0
        /\ Logging' = {} /\ Holding' = {} /\ Unreserved' = {} /\ Wanted' = 0
    BY <1>1, <1>2, ReaderAlone DEF ReaderPlaces
  <1>4. /\ Records' = Records /\ \A i \in Records : Pos(i)' = Pos(i) /\ End(i)' = End(i)
        /\ \A p : Boundary(p)' <=> Boundary(p)
    BY <1>1 DEF Records, Pos, End, Boundary
  <1>5. PlacedInv' /\ SpanInv'
    BY <1>1, <1>4 DEF LogInv, PlacedInv, SpanInv
  <1>6. \A i \in 0 .. Words - 1 : /\ ring'[i].rec = ring[i].rec /\ ring'[i].k = ring[i].k
                                  /\ i # Index(tail) => ring'[i] = ring[i]
    BY <1>1, <1>2 DEF TypeInv, TypeOK
  <1>7. ASSUME NEW i \in Records, Pos(i) >= tail
        PROVE  /\ \A k \in 0 .. placed[i].size - 1 :
                     Written(i, k)' => /\ ring'[Index(Pos(i) + k)].rec = i
                                       /\ ring'[Index(Pos(i) + k)].k = k
               /\ Sealed(i)' => ring'[Index(Pos(i))].tag = "SEAL"
    <2>1. /\ Pos(i) \in Nat /\ \A k \in 0 .. placed[i].size - 1 : Pos(i) + k \in Nat
          /\ 0 \in 0 .. placed[i].size - 1 /\ Pos(i) + 0 = Pos(i)
      BY RecordTypes
    <2>2. \A k \in 0 .. placed[i].size - 1 : Index(Pos(i) + k) \in 0 .. Words - 1
      BY <2>1, IndexType
    <2>3. \A k : Written(i, k)
      BY <1>3 DEF Written
    <2>4. /\ \A k \in 0 .. placed[i].size - 1 :
                ring[Index(Pos(i) + k)].rec = i /\ ring[Index(Pos(i) + k)].k = k
          /\ Sealed(i) => ring[Index(Pos(i))].tag = "SEAL"
      BY <1>7, <2>3 DEF LogInv, RingInv
    <2>5. ASSUME Sealed(i)' PROVE ring'[Index(Pos(i))].tag = "SEAL"
      <3>1. Pos(i) # tail
        BY <1>1, <1>3, <1>4, <2>5 DEF Sealed
      <3>2. Sealed(i)
        BY <1>1, <1>3 DEF Sealed
      <3>3. Index(Pos(i)) # Index(tail)
        <4>1. /\ loc[Reader].n \in Records /\ Pos(loc[Reader].n) = tail
              /\ 0 \in 0 .. placed[loc[Reader].n].size - 1 /\ tail + 0 = tail
          BY <1>2, RecordTypes DEF RecordAt
        <4> QED
          BY <1>2, <1>7, <2>1, <3>1, <4>1, WordsApart DEF LogInv
      <3> QED
        BY <1>6, <2>1, <2>2, <2>4, <3>2, <3>3
    <2> QED
      BY <1>6, <2>2, <2>4, <2>5
  <1>8. RingInv'
    BY <1>1, <1>7 DEF RingInv, Records, Pos, Index
  <1>9. ReadInv'
    <2>1. Booked' <= tail' + Words
      BY <1>1, <1>3, RecordTypes DEF LogInv, SpanInv, Booked
    <2>2. /\ loc'[Reader].n \in Records' /\ Pos(loc[Reader].n)' = tail'
          /\ placed'[loc'[Reader].n].size = loc'[Reader].size
      BY <1>1, <1>2, <1>3, <1>4 DEF RecordAt, Pos
    <2>3. loc'[Reader].tail = tail' /\ loc'[Reader].head <= head' /\ tail' < head'
      BY <1>1, <1>2, <1>3
    <2> QED
      BY <1>3, <2>1, <2>2, <2>3 DEF ReadInv
  <1>10. OutInv'
    BY <1>1, <1>3, <1>4 DEF LogInv, OutInv
  <1> QED
    BY <1>3, <1>5, <1>8, <1>9, <1>10 DEF LogInv

\* tail moves past the record that came out.
LEMMA AdvanceInv ==
    ASSUME TypeInv, LogInv, Advance
    PROVE  LogInv'
  <1>1. /\ at[Reader] = "advance" /\ Runs(Reader) /\ at[Reader] \in ReaderPlaces
        /\ tail' = loc[Reader].tail /\ Go(Reader, "floop", loc[Reader])
        /\ UNCHANGED <<ring, head, placed, out>>
    BY DEF Advance, Step, ReaderPlaces, history
  <1>2. /\ loc[Reader] \in Locals /\ loc[Reader].head <= head /\ tail \in Nat /\ head \in Nat
        /\ loc[Reader].tail = tail + loc[Reader].size /\ RecordAt(loc[Reader])
    BY <1>1, ReadFacts DEF HasRecord, HasHeader
  <1>3. PICK n \in Records : n = loc[Reader].n /\ Pos(n) = tail /\ tail' = End(n)
    BY <1>1, <1>2, RecordTypes DEF RecordAt
  <1>4. tail < tail' /\ tail' <= head /\ tail' \in Nat
    BY <1>2, <1>3, RecordTypes DEF LogInv, PlacedInv
  <1>5. /\ at'[Reader] = "floop" /\ loc'[Reader] = loc[Reader]
        /\ Logging = {} /\ Holding = {} /\ Unreserved = {} /\ Wanted = 0
        /\ Logging' = {} /\ Holding' = {} /\ Unreserved' = {} /\ Wanted' = 0
    BY <1>1, <1>2, ReaderAlone DEF ReaderPlaces
  <1>6. /\ Records' = Records /\ \A i \in Records : Pos(i)' = Pos(i) /\ End(i)' = End(i)
        /\ \A p : Boundary(p)' <=> Boundary(p)
    BY <1>1 DEF Records, Pos, End, Boundary
  <1>7. PlacedInv'
    BY <1>1, <1>6 DEF LogInv, PlacedInv
  <1>8. head <= tail' + Words
    BY <1>2, <1>4, WordsFacts DEF LogInv, SpanInv
  <1>9. SpanInv'
    <2>1. Boundary(tail')
      BY <1>3 DEF LogInv, PlacedInv
    <2>2. Boundary(tail)'
      BY <1>1, <2>1 DEF Boundary, Records, Pos
    <2> QED
      BY <1>1, <1>4, <1>8, <2>2 DEF SpanInv
  <1>10. RingInv'
    <2>1. \A i, m : Written(i, m)' <=> Written(i, m)
      BY <1>5 DEF Written
    <2>2. \A i \in Records : Pos(i) >= tail' => Pos(i) >= tail /\ Pos(i) # tail
      BY <1>2, <1>4, RecordTypes
    <2>3. \A i \in Records : Pos(i) >= tail' => Sealed(i)
      BY <1>5, <2>2 DEF Sealed
    <2> QED
      BY <1>1, <1>6, <2>1, <2>2, <2>3 DEF LogInv, RingInv
  <1>11. ReadInv'
    <2>1. Booked' <= tail' + Words
      BY <1>1, <1>2, <1>5, <1>8 DEF Booked
    <2> QED
      BY <1>1, <1>2, <1>5, <2>1 DEF ReadInv, HasRecord, HasHeader
  <1>12. OutInv'
    <2>1. \A j \in DOMAIN out : out[j].n \in Records /\ ~(Pos(out[j].n) >= tail')
      <3> SUFFICES ASSUME NEW j \in DOMAIN out
                   PROVE  out[j].n \in Records /\ ~(Pos(out[j].n) >= tail')
        OBVIOUS
      <3>1. out[j].n \in Records /\ (Pos(out[j].n) >= tail => out[j].n = n)
        BY <1>3 DEF LogInv, OutInv
      <3>2. Pos(out[j].n) \in Nat
        BY <3>1, RecordTypes
      <3> QED
        BY <1>2, <1>3, <1>4, <3>1, <3>2
    <2> QED
      BY <1>1, <1>6, <2>1 DEF LogInv, OutInv
  <1> QED
    BY <1>5, <1>7, <1>9, <1>10, <1>11, <1>12 DEF LogInv

LEMMA EndInv ==
    ASSUME TypeInv, LogInv, Pending \/ ClearDirty
    PROVE  LogInv'
  <1>1. /\ at[Reader] \in {"pending", "clear"} /\ Runs(Reader) /\ at[Reader] \in ReaderPlaces
        /\ UNCHANGED <<ring, head, tail, placed, out>>
    BY DEF Pending, ClearDirty, Step, ReaderPlaces, shared, history
  <1>2. CASE Pending
    <2>1. at[Reader] = "pending"
      BY <1>2 DEF Pending, Step
    <2>2. /\ loc[Reader] \in Locals /\ loc[Reader].head <= head /\ tail < head /\ tail \in Nat
          /\ loc[Reader].tail = tail /\ RecordAt(loc[Reader]) /\ loc[Reader].size \in Nat
      BY <1>1, <2>1, ReadFacts DEF HasRecord, HasHeader
    <2>3. PICK v \in Nat : v = tail + loc[Reader].size
      BY <2>2
    <2> DEFINE l == [loc[Reader] EXCEPT !.tail = v]
    <2>4. /\ l \in Locals /\ l.tail = v /\ l.n = loc[Reader].n /\ l.size = loc[Reader].size
          /\ l.head <= head
      BY <2>2 DEF Locals
    <2>5. Go(Reader, "advance", l)
      BY <1>2, <2>2, <2>3 DEF Pending
    <2> HIDE DEF l
    <2>6. RecordAt(l)
      BY <2>2, <2>4 DEF RecordAt
    <2> QED
      BY <1>1, <2>1, <2>2, <2>3, <2>4, <2>5, <2>6, ReadStep DEF ReaderPlaces, HasRecord, HasHeader
  <1>3. CASE ClearDirty
    <2>1. at[Reader] = "clear" /\ Go(Reader, "idle", NoLocals)
      BY <1>3 DEF ClearDirty, Step
    <2>2. NoLocals \in Locals /\ NoLocals.head <= head
      BY RecordTypes DEF NoLocals, Locals
    <2> QED
      BY <1>1, <2>1, <2>2, ReadStep DEF HasRecord, HasHeader
  <1> QED
    BY <1>2, <1>3

-----------------------------------------------------------------------------
(* The theorems *)

LEMMA InitInv == Init => TypeInv /\ LogInv
  <1> SUFFICES ASSUME Init PROVE TypeInv /\ LogInv
    OBVIOUS
  <1>1. TypeInv
    BY InitTypes
  <1>2. /\ head = 0 /\ tail = 0 /\ placed = <<>> /\ out = <<>>
        /\ \A t \in Threads : at[t] = "idle"
    BY DEF Init
  <1>3. Records = {} /\ DOMAIN out = {} /\ Logging = {} /\ Holding = {} /\ ~Reading
    BY <1>2, WordsFacts DEF Records, Logging, Holding, Reading, ReaderPlaces
  <1>4. SpanInv
    BY <1>2, WordsFacts DEF SpanInv, Boundary
  <1> QED
    BY <1>1, <1>3, <1>4 DEF LogInv, PlacedInv, RingInv, OutInv

LEMMA NextInv == ~Overrun /\ TypeInv /\ LogInv /\ [Next]_vars => (TypeInv /\ LogInv)'
  <1> SUFFICES ASSUME ~Overrun, TypeInv, LogInv, [Next]_vars PROVE LogInv'
    BY NextTypes
  <1>1. CASE UNCHANGED vars
    <2>1. UNCHANGED <<ring, head, tail, at, loc, placed, out>>
      BY <1>1 DEF vars, shared, history
    <2>2. /\ Logging' = Logging /\ Unreserved' = Unreserved /\ Holding' = Holding
          /\ (Reading' <=> Reading) /\ Booked' = Booked
      BY <2>1 DEF Logging, Unreserved, Holding, Reading, Booked, Wanted
    <2>3. /\ Records' = Records /\ \A i \in Records : Pos(i)' = Pos(i) /\ End(i)' = End(i)
          /\ \A p : Boundary(p)' <=> Boundary(p)
      BY <2>1 DEF Records, Pos, End, Boundary
    <2>4. PlacedInv' /\ SpanInv'
      BY <2>1, <2>3 DEF LogInv, PlacedInv, SpanInv
    <2>5. \A t \in Logging : CallInv(t)'
      BY <2>1, <2>2, <2>3 DEF LogInv, CallInv, Oldest
    <2>6. \A t \in Holding : HoldInv(t)'
      BY <2>1, <2>2, <2>3 DEF LogInv, HoldInv
    <2>7. RingInv'
      BY <2>1, <2>2, <2>3 DEF LogInv, RingInv, Written, Sealed
    <2>8. (Reading => ReadInv') /\ OutInv'
      BY <2>1, <2>2, <2>3 DEF LogInv, ReadInv, OutInv
    <2> QED
      BY <2>2, <2>4, <2>5, <2>6, <2>7, <2>8 DEF LogInv
  <1>2. ASSUME NEW t \in Writers, NEW size \in Sizes, Dispatch(t, size) PROVE LogInv'
    BY <1>2, DispatchInv
  <1>3. ASSUME NEW t \in Writers, WriterStep(t) PROVE LogInv'
    BY <1>3, LoadHeadInv, LookInv, NoDropInv, DropInv, ReserveInv, ReloadTailInv, WriteInv,
       AnnounceInv DEF WriterStep
  <1>4. CASE Flash \/ ReaderStep
    BY <1>4, FlashInv, TagInv, HeaderInv, TextInv, DeliverInv, FreeInv, AdvanceInv, EndInv
       DEF ReaderStep
  <1> QED
    BY <1>1, <1>2, <1>3, <1>4 DEF Next

LEMMA LogAlways == ASSUME ~Overrun PROVE Spec => [](TypeInv /\ LogInv)
  <1>1. TypeInv /\ LogInv /\ [Next]_vars => (TypeInv /\ LogInv)'
    BY NextInv
  <1> QED
    BY InitInv, <1>1, PTL DEF Spec

(***************************************************************************)
(* While what is logged beside log_flash fits the ring without a drop:     *)
(* what log_flash puts out is, each time, the record of one call, whole,   *)
(* and no record twice; for every ring, any writers and any number of      *)
(* calls.                                                                  *)
(***************************************************************************)
THEOREM OutWholeOnce == ASSUME ~Overrun PROVE Spec => []WholeOnce
  <1>1. TypeInv /\ LogInv => WholeOnce
    <2> SUFFICES ASSUME TypeInv, LogInv PROVE WholeOnce
      OBVIOUS
    <2>1. 0 \notin Records
      BY RecordTypes
    <2> QED
      BY <2>1 DEF LogInv, OutInv, WholeOnce
  <1> QED
    BY LogAlways, <1>1, PTL

(***************************************************************************)
(* Under the same bound the words a call of log_dispatch has reserved      *)
(* belong to no other call until it has sealed them, and are never those   *)
(* of the record that log_flash is taking.                                 *)
(***************************************************************************)
THEOREM WordsExclusive == ASSUME ~Overrun PROVE Spec => []Exclusive
  <1>1. TypeInv /\ LogInv => Exclusive
    <2> SUFFICES ASSUME TypeInv, LogInv, NEW t \in Holding
                 PROVE  /\ \A u \in Holding \ {t} :
                              WordsOf(loc[t].head, loc[t].size)
                                \cap WordsOf(loc[u].head, loc[u].size) = {}
                        /\ Taking => WordsOf(loc[t].head, loc[t].size)
                                       \cap WordsOf(loc[Reader].tail, loc[Reader].size) = {}
      BY DEF Exclusive
    <2>1. ASSUME NEW i \in Records, NEW j \in Records, Pos(i) >= tail, Pos(j) >= tail, i # j
          PROVE  WordsOf(Pos(i), placed[i].size) \cap WordsOf(Pos(j), placed[j].size) = {}
      BY <2>1, WordsApart DEF WordsOf, LogInv
    <2>2. /\ t \in Logging /\ loc[t].n \in Records /\ Pos(loc[t].n) = loc[t].head
          /\ placed[loc[t].n].size = loc[t].size /\ Pos(loc[t].n) >= tail
          /\ loc[t].head >= loc[t].since
      BY HeldRecord
    <2>3. ASSUME NEW u \in Holding \ {t}
          PROVE  WordsOf(loc[t].head, loc[t].size) \cap WordsOf(loc[u].head, loc[u].size) = {}
      <3>1. /\ loc[u].n \in Records /\ Pos(loc[u].n) = loc[u].head
            /\ placed[loc[u].n].size = loc[u].size /\ Pos(loc[u].n) >= tail
        BY HeldRecord
      <3>2. loc[u].n # loc[t].n
        BY DEF LogInv, HoldInv
      <3> QED
        BY <2>1, <2>2, <3>1, <3>2
    <2>4. ASSUME Taking
          PROVE  WordsOf(loc[t].head, loc[t].size)
                   \cap WordsOf(loc[Reader].tail, loc[Reader].size) = {}
      <3>1. at[Reader] \in ReaderPlaces /\ at[Reader] \in HasRecord \ {"advance"}
            /\ at[Reader] \in HasHeader
        BY <2>4 DEF Taking, ReaderPlaces, HasRecord, HasHeader
      <3>2. RecordAt(loc[Reader]) /\ loc[Reader].tail = tail
        BY <3>1, ReadFacts
      <3>3. tail < loc[t].since
        BY <2>2, <3>1, ReadFacts DEF ReadInv
      <3>4. loc[Reader].n # loc[t].n
        BY <2>2, <3>2, <3>3, CallSets, RecordTypes DEF RecordAt
      <3>5. Pos(loc[Reader].n) >= tail
        BY <3>2, RecordTypes DEF RecordAt
      <3> QED
        BY <2>1, <2>2, <3>2, <3>4, <3>5 DEF RecordAt
    <2> QED
      BY <2>3, <2>4
  <1> QED
    BY LogAlways, <1>1, PTL

-----------------------------------------------------------------------------
(* Writers that drop records under the reader *)

\* The word at position p has not been reserved again.
Alive(p) == head <= p + Words

\* The records lie behind each other.
Ordered == /\ \A i \in Records : End(i) <= head
           /\ \A i, j \in Records : i < j => End(i) <= Pos(j)

\* The words of its record that a call has not written yet.
Missing(t, k) == at[t] = "header" \/ (at[t] = "text" /\ k > 2)

\* A call fits the ring beside all that was logged since it began, and what it has loaded
\* of tail is not ahead of tail; what it has reserved ends within a ring of tail.
LapCall(t) ==
    /\ loc[t].since <= head /\ Booked <= loc[t].since + Words
    /\ at[t] # "head" => loc[t].since <= loc[t].head /\ loc[t].head <= head
    /\ t \in Unreserved => loc[t].tail <= tail
    /\ at[t] \in {"drop", "skip"} => loc[t].tail < loc[t].next
    /\ t \in Holding => HoldInv(t) /\ End(loc[t].n) <= tail + Words

\* What is written and not reserved again is there.
LapContent ==
    \A i \in Records : \A k \in 0 .. placed[i].size - 1 :
       Alive(Pos(i) + k) /\ Written(i, k) =>
          ring[Index(Pos(i) + k)].rec = i /\ ring[Index(Pos(i) + k)].k = k

\* What is there was written there.
LapOwner ==
    \A x \in 0 .. Words - 1 : ring[x].rec # 0 =>
       /\ ring[x].rec \in Records /\ ring[x].k < placed[ring[x].rec].size
       /\ Index(Pos(ring[x].rec) + ring[x].k) = x

\* A seal is on the first word of a record that is not reserved again, or is yet to be
\* overwritten by the call that holds the word.
LapSeal ==
    \A x \in 0 .. Words - 1 : ring[x].tag = "SEAL" =>
       /\ ring[x].rec # 0 /\ ring[x].k = 0
       /\ \/ Alive(Pos(ring[x].rec))
          \/ \E t \in Holding : \E k \in 0 .. loc[t].size - 1 :
                Missing(t, k) /\ Index(loc[t].head + k) = x

\* What log_flash has read of a record whose seal it finds again, at the tail it has left.
Complete(r) ==
    /\ r.n = ring[Index(tail)].rec /\ r.size = placed[r.n].size /\ r.whole
    /\ tail <= Pos(r.n) /\ Alive(Pos(r.n))

Knows(place, r) ==
    /\ r.head <= head
    /\ place \in {"ftag", "resync", "recover", "fheader", "recheck", "ftext", "verify"} =>
          r.tail < r.head
    /\ place \in {"floop", "ftag", "fheader", "recheck", "ftext", "verify"} => r.tail <= tail
    /\ place \in {"recover", "fheader"} =>
          /\ ring[Index(r.tail)].rec # 0
          /\ \A j \in DOMAIN out : out[j].n # ring[Index(r.tail)].rec
    /\ place \in {"recheck", "ftext", "verify"} =>
          /\ r.n \in Records
          /\ \E k \in 0 .. placed[r.n].size - 1 : Index(Pos(r.n) + k) = Index(r.tail)
          /\ \A j \in DOMAIN out : out[j].n # r.n
          /\ tail = r.tail /\ ring[Index(tail)].tag = "SEAL" => Complete(r)

LapRead == /\ Knows(at[Reader], loc[Reader])
           /\ \A t \in Logging : loc[Reader].head <= loc[t].since

\* What came out is no longer sealed, but for the record that is being freed.
Gone(n) == \/ ~Alive(Pos(n))
           \/ ring[Index(Pos(n))].tag # "SEAL"
           \/ /\ at[Reader] = "free" /\ n = loc[Reader].n
              /\ Index(Pos(n)) = Index(loc[Reader].tail)

LapOut ==
    /\ \A j \in DOMAIN out : /\ out[j].n \in Records /\ Gone(out[j].n)
                             /\ \A t \in Holding : loc[t].n # out[j].n
                             /\ out[j].kept => out[j].whole
    /\ \A i, j \in DOMAIN out : out[i].n = out[j].n => i = j

LapInv == /\ Ordered /\ LapContent /\ LapOwner /\ LapSeal /\ LapOut
          /\ \A t \in Logging : LapCall(t)
          /\ Reading => LapRead

-----------------------------------------------------------------------------
(* Words that are reserved once *)

\* Words at the same distance of one word are one word.
LEMMA IndexShift ==
    ASSUME NEW p \in Nat, NEW q \in Nat, NEW k \in Nat, Index(p) = Index(q)
    PROVE  Index(p + k) = Index(q + k)
  <1>1. Words \in Nat /\ Words > 0
    BY WordsFacts
  <1>2. PICK a \in Nat, b \in Nat, r \in Nat : p = (a * Words) + r /\ q = (b * Words) + r
    <2>1. p \div Words \in Nat /\ q \div Words \in Nat /\ p % Words \in Nat
      BY <1>1
    <2>2. p = ((p \div Words) * Words) + (p % Words) /\ q = ((q \div Words) * Words) + (p % Words)
      BY <1>1 DEF Index
    <2> QED
      BY <2>1, <2>2
  <1>3. PICK c \in Nat, d \in Nat, s \in Nat, u \in Nat :
           /\ p + k = (c * Words) + s /\ q + k = (d * Words) + u /\ s < Words /\ u < Words
           /\ s = Index(p + k) /\ u = Index(q + k)
    <2>1. /\ (p + k) \div Words \in Nat /\ (q + k) \div Words \in Nat
          /\ (p + k) % Words \in Nat /\ (q + k) % Words \in Nat
          /\ (p + k) % Words < Words /\ (q + k) % Words < Words
      BY <1>1
    <2>2. /\ p + k = (((p + k) \div Words) * Words) + ((p + k) % Words)
          /\ q + k = (((q + k) \div Words) * Words) + ((q + k) % Words)
      BY <1>1
    <2> QED
      BY <2>1, <2>2 DEF Index
  <1>4. PICK e \in Int : e = (a - b) - (c - d)
    OBVIOUS
  <1>5. s - u = e * Words
    <2>1. s - u = ((a * Words) - (b * Words)) - ((c * Words) - (d * Words))
      BY <1>1, <1>2, <1>3
    <2> QED
      BY <1>1, <1>2, <1>3, <1>4, <2>1
  <1>6. e < 1
    BY <1>1, <1>3, <1>4, <1>5
  <1>7. e > -1
    BY <1>1, <1>3, <1>4, <1>5
  <1>8. e = 0
    BY <1>4, <1>6, <1>7
  <1> QED
    BY <1>1, <1>3, <1>5, <1>8

\* A ring further on it is the same word.
LEMMA IndexRound == ASSUME NEW p \in Nat PROVE Index(p + Words) = Index(p)
  <1>1. Words \in Nat /\ Words > 0
    BY WordsFacts
  <1>2. Index(0) = Index(Words)
    BY <1>1 DEF Index
  <1>3. Index(0 + p) = Index(Words + p)
    BY <1>1, <1>2, IndexShift
  <1> QED
    BY <1>1, <1>3

LEMMA AliveOnce ==
    ASSUME TypeInv, NEW p \in Nat, NEW q \in Nat, p < head, q < head, Alive(p), Alive(q),
           Index(p) = Index(q)
    PROVE  p = q
  <1>1. head \in Nat /\ Words \in Nat /\ head <= p + Words /\ head <= q + Words
    BY RecordTypes, WordsFacts DEF Alive
  <1>2. q < p + Words /\ p < q + Words
    BY <1>1
  <1>3. p <= q => p = q
    BY <1>2, Apart
  <1>4. q <= p => p = q
    BY <1>2, Apart
  <1> QED
    BY <1>3, <1>4

\* What is known of a record: the further words of it are reserved again later.
LEMMA RecordFacts ==
    ASSUME TypeInv, Ordered, NEW i \in Records
    PROVE  /\ i \in Nat /\ i # 0 /\ Pos(i) \in Nat /\ placed[i].size \in Nat /\ placed[i].size >= 4
           /\ head \in Nat /\ tail \in Nat /\ Words \in Nat
           /\ Pos(i) + placed[i].size <= head
           /\ \A k \in 0 .. placed[i].size - 1 :
                 /\ Pos(i) + k \in Nat /\ Pos(i) + k < head
                 /\ Index(Pos(i) + k) \in 0 .. Words - 1
                 /\ Alive(Pos(i)) => Alive(Pos(i) + k)
           /\ 0 \in 0 .. placed[i].size - 1 /\ Pos(i) + 0 = Pos(i)
           /\ Index(Pos(i)) \in 0 .. Words - 1
  <1>1. i \in Nat /\ i # 0
    <2>1. \A j \in Records : j \in Nat /\ j # 0
      BY RecordTypes
    <2> QED
      BY <2>1
  <1>2. /\ Pos(i) \in Nat /\ placed[i].size \in Nat /\ placed[i].size >= 4
        /\ head \in Nat /\ tail \in Nat /\ Words \in Nat /\ End(i) = Pos(i) + placed[i].size
    BY RecordTypes, WordsFacts
  <1>3. Pos(i) + placed[i].size <= head
    BY <1>2 DEF Ordered
  <1>4. ASSUME NEW k \in 0 .. placed[i].size - 1
        PROVE  /\ Pos(i) + k \in Nat /\ Pos(i) + k < head
               /\ Alive(Pos(i)) => Alive(Pos(i) + k)
    BY <1>2, <1>3 DEF Alive
  <1>5. \A k \in 0 .. placed[i].size - 1 : Index(Pos(i) + k) \in 0 .. Words - 1
    BY <1>4, IndexType
  <1> QED
    BY <1>1, <1>2, <1>3, <1>4, <1>5, IndexType

LEMMA AliveApart ==
    ASSUME TypeInv, Ordered, NEW i \in Records, NEW j \in Records,
           NEW k \in 0 .. placed[i].size - 1, NEW m \in 0 .. placed[j].size - 1,
           Alive(Pos(i) + k), Alive(Pos(j) + m), Index(Pos(i) + k) = Index(Pos(j) + m)
    PROVE  i = j /\ k = m
  <1>1. /\ i \in Nat /\ j \in Nat /\ Pos(i) \in Nat /\ Pos(j) \in Nat
        /\ placed[i].size \in Nat /\ placed[j].size \in Nat
    BY RecordFacts
  <1>2. Pos(i) + k = Pos(j) + m
    BY RecordFacts, AliveOnce
  <1>3. i < j => Pos(i) + placed[i].size <= Pos(j)
    BY RecordTypes DEF Ordered
  <1>4. j < i => Pos(j) + placed[j].size <= Pos(i)
    BY RecordTypes DEF Ordered
  <1>5. i = j
    BY <1>1, <1>2, <1>3, <1>4
  <1> QED
    BY <1>1, <1>2, <1>5

\* The words a call holds are reserved for the last time.
LEMMA HeldFacts ==
    ASSUME TypeInv, LapInv, NEW t \in Holding
    PROVE  /\ t \in Logging /\ t \in Threads /\ t \in Writers /\ loc[t] \in Locals
           /\ loc[t].n \in Records /\ Pos(loc[t].n) = loc[t].head
           /\ placed[loc[t].n].size = loc[t].size
           /\ \A u \in Holding \ {t} : loc[u].n # loc[t].n
           /\ loc[t].since <= loc[t].head /\ loc[t].since \in Nat
           /\ loc[t].head + loc[t].size <= tail + Words
           /\ \A k \in Nat : Alive(Pos(loc[t].n) + k)
           /\ Alive(Pos(loc[t].n))
  <1>1. t \in Logging /\ t \in Threads /\ t \in Writers /\ at[t] # "head"
    BY CallSets DEF Holding
  <1>2. LapCall(t) /\ HoldInv(t) /\ End(loc[t].n) <= tail + Words
    BY <1>1 DEF LapInv, LapCall
  <1>3. /\ head \in Nat /\ Words \in Nat /\ Wanted \in Nat /\ loc[t].since \in Nat
        /\ loc[t].head \in Nat /\ loc[t] \in Locals
    BY <1>1, RecordTypes, CallSets, WordsFacts
  <1>4. /\ loc[t].n \in Records /\ Pos(loc[t].n) = loc[t].head
        /\ placed[loc[t].n].size = loc[t].size
        /\ \A u \in Holding \ {t} : loc[u].n # loc[t].n
    BY <1>2 DEF HoldInv
  <1>5. loc[t].head + loc[t].size <= tail + Words
    BY <1>2, <1>4, RecordTypes
  <1>6. loc[t].since <= loc[t].head /\ head + Wanted <= loc[t].since + Words
    BY <1>1, <1>2 DEF LapCall, Booked
  <1>7. head <= loc[t].head + Words
    BY <1>3, <1>6
  <1>8. \A k \in Nat : Alive(Pos(loc[t].n) + k)
    BY <1>3, <1>4, <1>7 DEF Alive
  <1> QED
    BY <1>1, <1>3, <1>4, <1>5, <1>6, <1>7, <1>8 DEF Alive

-----------------------------------------------------------------------------
(* The steps of a call *)

\* What is in the ring, for a step that leaves it and the records, and the calls that
\* hold words, where they are.
LEMMA LapRingSame ==
    ASSUME TypeInv, LapInv, UNCHANGED <<ring, head, placed>>, Holding' = Holding,
           \A t \in Holding : at'[t] = at[t] /\ loc'[t] = loc[t]
    PROVE  Ordered' /\ LapContent' /\ LapOwner' /\ LapSeal'
  <1>1. /\ Records' = Records /\ \A i \in Records : Pos(i)' = Pos(i) /\ End(i)' = End(i)
        /\ \A p : Alive(p)' <=> Alive(p)
    BY DEF Records, Pos, End, Alive
  <1>2. \A i, k : Written(i, k)' <=> Written(i, k)
    BY DEF Written
  <1>3. \A t \in Holding : \A k : Missing(t, k)' <=> Missing(t, k)
    BY DEF Missing
  <1>4. Ordered'
    BY <1>1 DEF LapInv, Ordered
  <1>5. LapContent'
    BY <1>1, <1>2 DEF LapInv, LapContent
  <1>6. LapOwner'
    BY <1>1 DEF LapInv, LapOwner
  <1>7. LapSeal'
    BY <1>1, <1>3 DEF LapInv, LapSeal, Pos
  <1> QED
    BY <1>4, <1>5, <1>6, <1>7

\* A step outside of the words: tail moves on at most.
LEMMA LapCallStep ==
    ASSUME TypeInv, LapInv, NEW t \in Writers, at[t] \in WriterPlaces \cup {"idle"},
           NEW a \in WriterPlaces \cup {"idle"}, NEW l \in Locals, Go(t, a, l),
           UNCHANGED <<ring, head, placed, out>>, tail' \in Nat, tail <= tail',
           t \notin Holding, a \notin {"header", "text", "seal"},
           \A u \in Logging \ {t} : Booked' <= loc[u].since + Words,
           a # "idle" => /\ l.since <= head /\ Booked' <= l.since + Words
                         /\ a # "head" => l.since <= l.head /\ l.head <= head
                         /\ a # "announce" => l.tail <= tail'
                         /\ a \in {"drop", "skip"} => l.tail < l.next
                         /\ Reading => loc[Reader].head <= l.since
    PROVE  LapInv'
  <1>1. /\ t \in Threads /\ at'[t] = a /\ loc'[t] = l
        /\ \A u \in Threads \ {t} : at'[u] = at[u] /\ loc'[u] = loc[u]
        /\ Reading' <=> Reading
        /\ Reading => t # Reader /\ at'[Reader] = at[Reader] /\ loc'[Reader] = loc[Reader]
        /\ ~Reading => at[Reader] \notin ReaderPlaces /\ at'[Reader] \notin ReaderPlaces
        /\ Logging' = IF a = "idle" THEN Logging \ {t} ELSE Logging \cup {t}
        /\ Unreserved' = IF a \in {"head", "space", "drop", "skip", "reload"}
                         THEN Unreserved \cup {t} ELSE Unreserved \ {t}
        /\ Holding' = IF a \in {"header", "text", "seal"} THEN Holding \cup {t}
                      ELSE Holding \ {t}
    BY WriterMoved
  <1>2. Holding' = Holding
    BY <1>1
  <1>3. \A u \in Holding : u \in Threads /\ at'[u] = at[u] /\ loc'[u] = loc[u]
    BY <1>1, CallSets
  <1>4. Ordered' /\ LapContent' /\ LapOwner' /\ LapSeal'
    BY <1>2, <1>3, LapRingSame
  <1>5. /\ Records' = Records /\ \A i \in Records : Pos(i)' = Pos(i) /\ End(i)' = End(i)
        /\ \A p : Alive(p)' <=> Alive(p)
    BY DEF Records, Pos, End, Alive
  <1>6. tail \in Nat /\ head \in Nat /\ Words \in Nat
    BY RecordTypes, WordsFacts
  <1>7. ASSUME NEW u \in Logging' PROVE LapCall(u)'
    <2>1. CASE u = t
      <3>1. t \notin Holding' /\ a # "idle" /\ (t \in Unreserved' => a # "announce")
        BY <1>1, <1>2, <1>7, <2>1
      <3> QED
        BY <1>1, <2>1, <3>1 DEF LapCall
    <2>2. CASE u # t
      <3>1. u \in Logging /\ u \in Threads /\ at'[u] = at[u] /\ loc'[u] = loc[u]
            /\ (u \in Unreserved' => u \in Unreserved)
        BY <1>1, <1>7, <2>2, CallSets
      <3>2. LapCall(u) /\ loc[u].tail \in Nat
        BY <3>1, RecordTypes DEF LapInv
      <3>3. u \in Unreserved => loc[u].tail <= tail'
        BY <1>6, <3>2 DEF LapCall
      <3>4. ASSUME u \in Holding PROVE HoldInv(u)' /\ End(loc[u].n)' <= tail' + Words
        <4>1. HoldInv(u) /\ End(loc[u].n) <= tail + Words /\ loc[u].n \in Records
          BY <3>2, <3>4 DEF LapCall, HoldInv
        <4>2. HoldInv(u)'
          BY <1>2, <1>3, <1>5, <3>1, <4>1 DEF HoldInv
        <4>3. End(loc[u].n) \in Nat
          BY <4>1, RecordTypes
        <4>4. End(loc[u].n)' = End(loc[u].n)
          BY <3>1, <4>1 DEF End
        <4> QED
          BY <1>6, <4>1, <4>2, <4>3, <4>4
      <3> QED
        BY <1>2, <2>2, <3>1, <3>2, <3>3, <3>4 DEF LapCall
    <2> QED
      BY <2>1, <2>2
  <1>8. LapOut'
    <2>1. \A n \in Records : Gone(n) => Gone(n)'
      BY <1>1, <1>5 DEF Gone, Reading, ReaderPlaces
    <2>2. \A j \in DOMAIN out : \A u \in Holding : loc'[u].n # out[j].n
      BY <1>3 DEF LapInv, LapOut
    <2> QED
      BY <1>2, <1>5, <2>1, <2>2 DEF LapInv, LapOut
  <1>9. ASSUME Reading PROVE LapRead'
    <2>1. at'[Reader] = at[Reader] /\ loc'[Reader] = loc[Reader] /\ LapRead
      BY <1>1, <1>9 DEF LapInv
    <2>2. \A u \in Logging' : loc[Reader].head <= loc'[u].since
      BY <1>1, <1>9, <2>1, CallSets DEF LapRead
    <2>0. PICK place, r : place = at[Reader] /\ r = loc[Reader]
      OBVIOUS
    <2>3. r.tail \in Nat /\ Knows(place, r)
      BY <2>0, <2>1, RecordTypes, WordsFacts DEF LapRead
    <2>4. ASSUME place \in {"recheck", "ftext", "verify"}, tail' = r.tail,
                 ring[Index(tail')].tag = "SEAL"
          PROVE  Complete(r)'
      <3>1. tail' = tail
        BY <1>6, <2>3, <2>4 DEF Knows
      <3>2. Complete(r)
        BY <2>3, <2>4, <3>1 DEF Knows
      <3>3. r.n \in Records
        BY <2>3, <2>4 DEF Knows
      <3> QED
        BY <1>5, <3>1, <3>2, <3>3 DEF Complete, Alive, Pos
    <2>5. place \in {"floop", "ftag", "fheader", "recheck", "ftext", "verify"} => r.tail <= tail'
      BY <1>6, <2>3 DEF Knows
    <2>6. Knows(place, r)'
      BY <1>5, <2>3, <2>4, <2>5 DEF Knows, Pos
    <2> QED
      BY <2>0, <2>1, <2>2, <2>6 DEF LapRead
  <1> QED
    BY <1>1, <1>4, <1>7, <1>8, <1>9 DEF LapInv

\* What a call that has no words yet knows.
LEMMA LapSearch ==
    ASSUME TypeInv, LapInv, NEW t \in Writers,
           at[t] \in {"head", "space", "drop", "skip", "reload"}
    PROVE  /\ t \in Unreserved /\ t \in Logging /\ t \in Threads /\ loc[t] \in Locals
           /\ loc[t].since <= head /\ loc[t].tail <= tail /\ Booked <= loc[t].since + Words
           /\ at[t] # "head" => loc[t].since <= loc[t].head /\ loc[t].head <= head
           /\ at[t] \in {"drop", "skip"} => loc[t].tail < loc[t].next
           /\ Reading => loc[Reader].head <= loc[t].since
           /\ head \in Nat /\ tail \in Nat /\ Words \in Nat /\ loc[t].tail \in Nat
           /\ loc[t].next \in Nat /\ loc[t].size \in Nat /\ loc[t].head \in Nat
  <1>1. t \in Logging /\ t \in Unreserved /\ t \in Threads
    BY LoggingIf, WordsFacts DEF Unreserved, WriterPlaces
  <1>2. LapCall(t) /\ (Reading => LapRead)
    BY <1>1 DEF LapInv
  <1> QED
    BY <1>1, <1>2, RecordTypes, WordsFacts DEF LapCall, LapRead

\* A call that looks for room.
LEMMA LapSearchStep ==
    ASSUME TypeInv, LapInv, NEW t \in Writers,
           at[t] \in {"head", "space", "drop", "skip", "reload"},
           NEW a \in {"space", "drop", "skip", "reload"}, NEW l \in Locals, Go(t, a, l),
           UNCHANGED <<ring, head, placed, out>>, tail' \in Nat, tail <= tail',
           l.size = loc[t].size, l.since = loc[t].since,
           l.since <= l.head, l.head <= head, l.tail <= tail',
           a \in {"drop", "skip"} => l.tail < l.next
    PROVE  LapInv'
  <1>1. /\ t \in Unreserved /\ t \in Logging /\ t \notin Holding /\ a \in WriterPlaces
        /\ at[t] \in WriterPlaces /\ a \notin {"idle", "header", "text", "seal"}
    BY LapSearch DEF Holding, WriterPlaces
  <1>2. at[t] \in WriterPlaces \cup {"idle"} /\ a \in WriterPlaces \cup {"idle"}
    BY <1>1
  <1>3. Booked' = Booked
    <2>1. /\ loc'[t] = l /\ \A u \in Threads \ {t} : loc'[u] = loc[u]
          /\ Unreserved' = IF a \in {"head", "space", "drop", "skip", "reload"}
                           THEN Unreserved \cup {t} ELSE Unreserved \ {t}
      BY <1>2, WriterMoved
    <2>2. Unreserved' = Unreserved /\ \A u \in Unreserved : loc'[u].size = loc[u].size
      BY <1>1, <2>1, CallSets
    <2> QED
      BY <2>2, WantedSame DEF Booked
  <1>4. \A u \in Logging : Booked' <= loc[u].since + Words
    BY <1>3 DEF LapInv, LapCall
  <1>5. l.since <= head /\ (Reading => loc[Reader].head <= l.since)
    BY LapSearch
  <1> QED
    BY <1>1, <1>2, <1>4, <1>5, LapCallStep

LEMMA LapLoadHead ==
    ASSUME TypeInv, LapInv, NEW t \in Writers, LoadHead(t)
    PROVE  LapInv'
  <1> DEFINE l == [loc[t] EXCEPT !.head = head]
  <1>1. at[t] = "head" /\ Go(t, "space", l) /\ UNCHANGED <<ring, head, tail, placed, out>>
    BY DEF LoadHead, Step, shared, history
  <1>2. /\ l \in Locals /\ l.head = head /\ l.size = loc[t].size /\ l.since = loc[t].since
        /\ l.tail = loc[t].tail
    BY <1>1, LapSearch DEF Locals
  <1> HIDE DEF l
  <1> QED
    BY <1>1, <1>2, LapSearch, LapSearchStep

LEMMA LapReloadTail ==
    ASSUME TypeInv, LapInv, NEW t \in Writers, ReloadTail(t)
    PROVE  LapInv'
  <1> DEFINE l == [loc[t] EXCEPT !.tail = tail]
  <1>1. at[t] = "reload" /\ Go(t, "space", l) /\ UNCHANGED <<ring, head, tail, placed, out>>
    BY DEF ReloadTail, Step, shared, history
  <1>2. /\ l \in Locals /\ l.head = loc[t].head /\ l.size = loc[t].size /\ l.since = loc[t].since
        /\ l.tail = tail
    BY <1>1, LapSearch DEF Locals
  <1> HIDE DEF l
  <1> QED
    BY <1>1, <1>2, LapSearch, LapSearchStep

\* Where the next record is looked for lies behind the tail that was loaded.
LEMMA LapLook ==
    ASSUME TypeInv, LapInv, NEW t \in Writers, LookAtOldest(t)
    PROVE  LapInv'
  <1>1. /\ at[t] = "space" /\ UNCHANGED <<ring, head, tail, placed, out>>
        /\ loc[t] \in Locals /\ loc[t].tail \in Nat
    BY LapSearch DEF LookAtOldest, Step, shared, history
  <1>2. PICK a \in {"drop", "skip"}, v \in Nat :
           Go(t, a, [loc[t] EXCEPT !.next = v]) /\ loc[t].tail < v
    <2>1. loc[t].tail + 2 \in Nat /\ loc[t].tail < loc[t].tail + 2
      BY <1>1
    <2>2. ASSUME NEW s \in Claims(loc[t].tail)
          PROVE  loc[t].tail + s \in Nat /\ loc[t].tail < loc[t].tail + s
      <3>1. s \in Sizes /\ s \in Nat
        BY <1>1, ClaimTypes DEF TypeInv
      <3>2. s >= 4
        BY <3>1, WordsFacts
      <3> QED
        BY <1>1, <3>1, <3>2
    <2> QED
      BY <2>1, <2>2 DEF LookAtOldest
  <1> DEFINE l == [loc[t] EXCEPT !.next = v]
  <1>3. /\ l \in Locals /\ l.head = loc[t].head /\ l.size = loc[t].size /\ l.since = loc[t].since
        /\ l.tail = loc[t].tail /\ l.next = v
    BY <1>1 DEF Locals
  <1>4. Go(t, a, l)
    BY <1>2
  <1> HIDE DEF l
  <1> QED
    BY <1>1, <1>2, <1>3, <1>4, LapSearch, LapSearchStep

\* tail only grows.
LEMMA LapDrop ==
    ASSUME TypeInv, LapInv, NEW t \in Writers, DropOldest(t) \/ SkipUnsealed(t)
    PROVE  LapInv'
  <1>1. /\ at[t] \in {"drop", "skip"} /\ UNCHANGED <<ring, head, placed, out>>
        /\ loc[t] \in Locals /\ loc[t].tail < loc[t].next /\ loc[t].next \in Nat /\ tail \in Nat
    BY LapSearch DEF DropOldest, SkipUnsealed, Step, history
  <1>2. /\ Go(t, "space", [loc[t] EXCEPT !.tail = tail'])
        /\ tail' \in {tail, loc[t].next} /\ (tail' # tail => tail = loc[t].tail)
    BY DEF DropOldest, SkipUnsealed
  <1>3. PICK v \in Nat : v = tail' /\ tail <= v
    BY <1>1, <1>2
  <1> DEFINE l == [loc[t] EXCEPT !.tail = v]
  <1>4. /\ l \in Locals /\ l.head = loc[t].head /\ l.size = loc[t].size /\ l.since = loc[t].since
        /\ l.tail = v
    BY <1>1 DEF Locals
  <1>5. Go(t, "space", l)
    BY <1>2, <1>3
  <1> HIDE DEF l
  <1> QED
    BY <1>1, <1>3, <1>4, <1>5, LapSearch, LapSearchStep

\* A call that returns, with its record sealed or without one.
LEMMA LapLeave ==
    ASSUME TypeInv, LapInv, NEW t \in Writers, at[t] \in {"space", "announce"},
           Go(t, "idle", NoLocals), UNCHANGED <<ring, head, tail, placed, out>>
    PROVE  LapInv'
  <1>1. at[t] \in WriterPlaces /\ t \notin Holding /\ NoLocals \in Locals
    BY ReaderLocals DEF WriterPlaces, Holding
  <1>2. at[t] \in WriterPlaces \cup {"idle"} /\ "idle" \in WriterPlaces \cup {"idle"}
    BY <1>1
  <1>3. /\ \A u \in Threads \ {t} : loc'[u] = loc[u]
        /\ Unreserved' = IF "idle" \in {"head", "space", "drop", "skip", "reload"}
                         THEN Unreserved \cup {t} ELSE Unreserved \ {t}
    BY <1>1, <1>2, WriterMoved
  <1>4. Unreserved' = Unreserved \ {t}
    BY <1>3
  <1>5. Wanted' <= Wanted /\ Wanted' \in Nat /\ Wanted \in Nat
    <2>1. CASE t \in Unreserved
      BY <1>3, <1>4, <2>1, WantedLess, CallSets, RecordTypes
    <2>2. CASE t \notin Unreserved
      <3>1. Unreserved' = Unreserved /\ \A u \in Unreserved : loc'[u].size = loc[u].size
        BY <1>3, <1>4, <2>2, CallSets
      <3> QED
        BY <3>1, WantedSame, CallSets
    <2> QED
      BY <2>1, <2>2
  <1>6. \A u \in Logging : Booked' <= loc[u].since + Words
    <2> SUFFICES ASSUME NEW u \in Logging PROVE Booked' <= loc[u].since + Words
      OBVIOUS
    <2>1. Booked <= loc[u].since + Words /\ loc[u].since \in Nat
      BY CallSets, RecordTypes DEF LapInv, LapCall
    <2> QED
      BY <1>5, <2>1, RecordTypes, WordsFacts DEF Booked
  <1>7. tail' \in Nat /\ tail <= tail'
    BY RecordTypes
  <1> QED
    BY <1>1, <1>2, <1>6, <1>7, LapCallStep

\* A new call: what it will reserve fits beside what the others will (MayLog).
LEMMA LapDispatch ==
    ASSUME TypeInv, LapInv, NEW t \in Writers, NEW size \in Sizes, Dispatch(t, size)
    PROVE  LapInv'
  <1> DEFINE l == [NoLocals EXCEPT !.size = size, !.tail = tail, !.tries = Retries, !.since = head]
  <1>1. /\ at[t] = "idle" /\ MayLog(size) /\ Go(t, "head", l)
        /\ UNCHANGED <<ring, head, tail, placed, out>>
    BY DEF Dispatch, Step, shared
  <1>2. /\ l \in Locals /\ l.size = size /\ l.tail = tail /\ l.since = head
    BY RecordTypes, WordsFacts, ThreadAssumption DEF NoLocals, Locals
  <1> HIDE DEF l
  <1>3. /\ t \notin Logging /\ t \notin Unreserved /\ t \notin Holding
        /\ "head" \in WriterPlaces /\ at[t] \in WriterPlaces \cup {"idle"}
    BY <1>1 DEF Logging, Unreserved, Holding, WriterPlaces
  <1>4. /\ loc'[t] = l /\ \A u \in Threads \ {t} : loc'[u] = loc[u]
        /\ Unreserved' = Unreserved \cup {t}
    BY <1>1, <1>2, <1>3, WriterMoved
  <1>5. Wanted' = Wanted + size
    BY <1>2, <1>3, <1>4, CallSets, WantedMore
  <1>6. /\ head \in Nat /\ tail \in Nat /\ Wanted \in Nat /\ size \in Nat /\ size <= Words
        /\ Words \in Nat
    BY RecordTypes, CallSets, WordsFacts
  <1>7. Booked' = head + size + Wanted /\ Booked' \in Nat
    BY <1>1, <1>5, <1>6 DEF Booked
  <1>8. \A u \in Logging : Booked' <= loc[u].since + Words
    <2> SUFFICES ASSUME NEW u \in Logging PROVE Booked' <= loc[u].since + Words
      OBVIOUS
    <2>1. (head + size + Wanted) - loc[u].since <= Words
      BY <1>1 DEF MayLog
    <2>2. loc[u].since \in Nat
      BY CallSets, RecordTypes
    <2> QED
      BY <1>6, <1>7, <2>1, <2>2
  <1>9. Booked' <= head + Words
    <2>1. CASE Logging = {}
      <3>1. Unreserved = {}
        BY <2>1, CallSets
      <3>2. WordsFor({}, [u \in Threads |-> loc[u].size]) = {}
        BY DEF WordsFor
      <3>3. Wanted = 0
        BY <3>1, <3>2, FS_EmptySet DEF Wanted
      <3> QED
        BY <1>6, <1>7, <3>3
    <2>2. ASSUME NEW u \in Logging PROVE Booked' <= head + Words
      <3>1. loc[u].since <= head /\ loc[u].since \in Nat
        BY CallSets, RecordTypes DEF LapInv, LapCall
      <3> QED
        BY <1>6, <1>7, <1>8, <3>1
    <2> QED
      BY <2>1, <2>2
  <1>10. Reading => loc[Reader].head <= head
    BY DEF LapInv, LapRead, Knows
  <1> QED
    BY <1>1, <1>2, <1>3, <1>6, <1>8, <1>9, <1>10, LapCallStep

\* A call that finds head where it left it has placed its record there: the words it has
\* reserved are those a ring before, which it will overwrite.
LEMMA LapPlace ==
    ASSUME TypeInv, LapInv, NEW t \in Writers, at[t] = "space", ~Short(loc[t]),
           head = loc[t].head, head' = head + loc[t].size,
           placed' = Append(placed, [size |-> loc[t].size, pos |-> head]),
           Go(t, "header", [loc[t] EXCEPT !.n = Len(placed) + 1]),
           UNCHANGED <<ring, tail, out>>
    PROVE  LapInv'
  <1>1. /\ t \in Unreserved /\ t \in Logging /\ t \in Threads /\ loc[t] \in Locals
        /\ t \notin Holding /\ at[t] \in WriterPlaces /\ "header" \in WriterPlaces
    BY LapSearch DEF Holding, WriterPlaces
  <1>2. /\ loc[t].tail \in Nat /\ loc[t].size \in Nat /\ loc[t].since \in Nat
        /\ loc[t].size \in Sizes /\ loc[t].size >= 4
        /\ head \in Nat /\ tail \in Nat /\ Words \in Nat /\ Wanted \in Nat
        /\ loc[t].tail <= tail /\ loc[t].since <= head
        /\ Len(placed) \in Nat
    BY <1>1, LapSearch, RecordTypes, CallSets, WordsFacts
  <1>3. PICK N \in Nat : N = Len(placed) + 1
    BY <1>2
  <1>4. /\ Records' = Records \cup {N} /\ N \notin Records /\ Records = 1 .. Len(placed)
        /\ \A i \in Records : placed'[i].pos = Pos(i) /\ placed'[i].size = placed[i].size
        /\ placed'[N].size = loc[t].size /\ placed'[N].pos = head
    <2> DEFINE R == [size : Sizes, pos : Nat]
               r == [size |-> loc[t].size, pos |-> head]
    <2>1. r \in R /\ placed \in Seq(R) /\ placed' = Append(placed, r)
      BY <1>1, <1>2 DEF TypeInv, TypeOK
    <2>3. r.size = loc[t].size /\ r.pos = head
      OBVIOUS
    <2> HIDE DEF r, R
    <2>2. /\ DOMAIN placed' = (DOMAIN placed) \cup {N} /\ N \notin DOMAIN placed
          /\ \A i \in DOMAIN placed : placed'[i] = placed[i]
          /\ placed'[N] = r
      BY <1>2, <1>3, <2>1
    <2> QED
      BY <2>2, <2>3, RecordTypes DEF Records, Pos
  <1>5. /\ \A i \in Records : Pos(i)' = Pos(i) /\ End(i)' = End(i)
        /\ Pos(N)' = head /\ End(N)' = head'
    BY <1>4 DEF Pos, End
  <1>6. /\ \A p \in Nat : Alive(p)' => Alive(p)
        /\ head < head' /\ head' <= tail + Words /\ head' \in Nat
    <2>1. ~(loc[t].head + loc[t].size - loc[t].tail > Words)
      BY DEF Short
    <2>2. PICK h \in Nat, z \in Nat, q \in Nat, v \in Nat, w \in Nat :
             h = head /\ z = loc[t].size /\ q = loc[t].tail /\ v = tail /\ w = Words
      BY <1>2
    <2>3. h + z - q <= w /\ q <= v /\ z >= 4 /\ head' = h + z
      <3>1. ~(h + z - q > w) /\ head' = h + z
        BY <2>1, <2>2
      <3>2. q <= v /\ z >= 4
        BY <1>2, <2>2
      <3> QED
        BY <3>1, <3>2
    <2>4. h < h + z /\ h + z <= v + w /\ h + z \in Nat
      BY <2>3
    <2>5. head < head' /\ head' <= tail + Words /\ head' \in Nat
      BY <2>2, <2>3, <2>4
    <2>6. \A p \in Nat : head' <= p + w => head <= p + w
      <3>1. \A p \in Nat : h + z <= p + w => h <= p + w
        OBVIOUS
      <3> QED
        BY <2>2, <2>3, <3>1
    <2> QED
      BY <2>2, <2>5, <2>6 DEF Alive
  <1>21. \A p \in Nat : p <= head => p <= head'
    BY <1>2, <1>6
  <1> DEFINE l == [loc[t] EXCEPT !.n = N]
  <1>7. /\ l \in Locals /\ l.n = N /\ l.head = head /\ l.size = loc[t].size
        /\ l.since = loc[t].since
    BY <1>1 DEF Locals
  <1>8. Go(t, "header", l)
    BY <1>3
  <1> HIDE DEF l
  <1>9. /\ at'[t] = "header" /\ loc'[t] = l
        /\ \A u \in Threads \ {t} : at'[u] = at[u] /\ loc'[u] = loc[u]
        /\ Reading' <=> Reading
        /\ Reading => t # Reader /\ at'[Reader] = at[Reader] /\ loc'[Reader] = loc[Reader]
        /\ ~Reading => at[Reader] \notin ReaderPlaces /\ at'[Reader] \notin ReaderPlaces
        /\ Logging' = Logging /\ Unreserved' = Unreserved \ {t} /\ Holding' = Holding \cup {t}
    <2>1. Logging \cup {t} = Logging
      BY <1>1
    <2>2. /\ Logging' = IF "header" = "idle" THEN Logging \ {t} ELSE Logging \cup {t}
          /\ Unreserved' = IF "header" \in {"head", "space", "drop", "skip", "reload"}
                           THEN Unreserved \cup {t} ELSE Unreserved \ {t}
          /\ Holding' = IF "header" \in {"header", "text", "seal"} THEN Holding \cup {t}
                        ELSE Holding \ {t}
      BY <1>1, <1>7, <1>8, WriterMoved
    <2>3. Logging' = Logging /\ Unreserved' = Unreserved \ {t} /\ Holding' = Holding \cup {t}
      BY <2>1, <2>2
    <2> QED
      BY <1>1, <1>7, <1>8, <2>3, WriterMoved
  <1>10. \A u \in Logging : /\ loc'[u].size = loc[u].size /\ loc'[u].since = loc[u].since
                            /\ u # t => at'[u] = at[u] /\ loc'[u] = loc[u]
    BY <1>7, <1>9, CallSets
  <1>11. \A u \in Holding : u # t /\ at'[u] = at[u] /\ loc'[u] = loc[u] /\ loc[u].n \in Records
    BY <1>1, <1>10, CallSets, HeldFacts
  <1>12. Booked' = Booked
    <2>1. Wanted' \in Nat /\ Wanted' = Wanted - loc[t].size
      BY <1>1, <1>9, <1>10, CallSets, WantedLess
    <2>2. head' + Wanted' = head + Wanted
      <3>1. PICK z, w : z = loc[t].size /\ w = Wanted
        OBVIOUS
      <3>2. z \in Nat /\ w \in Nat /\ head \in Nat /\ head' = head + z /\ Wanted' = w - z
        BY <1>2, <2>1, <3>1
      <3> QED
        BY <3>1, <3>2
    <2> QED
      BY <2>2 DEF Booked
  <1>13. Ordered'
    <2>1. \A i \in Records : End(i) <= head /\ End(i) \in Nat
      BY RecordTypes DEF LapInv, Ordered
    <2>2. \A i \in Records' : End(i)' <= head'
      BY <1>2, <1>4, <1>5, <1>6, <2>1
    <2>3. ASSUME NEW i \in Records', NEW j \in Records', i < j PROVE End(i)' <= Pos(j)'
      <3>1. i \in Records
        BY <1>3, <1>4, <1>2, <2>3
      <3>2. CASE j \in Records
        BY <1>5, <2>3, <3>1, <3>2 DEF LapInv, Ordered
      <3>3. CASE j = N
        BY <1>5, <2>1, <3>1, <3>3
      <3> QED
        BY <1>4, <3>2, <3>3
    <2> QED
      BY <2>2, <2>3 DEF Ordered
  <1>14. ASSUME NEW u \in Holding' PROVE HoldInv(u)'
    <2>1. CASE u = t
      <3>1. \A v \in Holding' \ {t} : loc'[v].n \in Records
        BY <1>9, <1>11
      <3> QED
        BY <1>4, <1>5, <1>7, <1>9, <2>1, <3>1 DEF HoldInv
    <2>2. CASE u # t
      <3>1. u \in Holding /\ HoldInv(u) /\ loc'[u] = loc[u]
        BY <1>9, <1>10, <2>2, CallSets DEF LapInv, LapCall
      <3>2. \A v \in Holding' \ {u} : loc'[v].n # loc'[u].n
        BY <1>4, <1>7, <1>9, <1>11, <3>1 DEF HoldInv
      <3> QED
        BY <1>4, <1>5, <3>1, <3>2 DEF HoldInv
    <2> QED
      BY <2>1, <2>2
  <1>15. ASSUME NEW u \in Logging PROVE LapCall(u)'
    <2>1. LapCall(u) /\ u \in Threads /\ loc[u].since \in Nat /\ loc[u].head \in Nat
      BY CallSets, RecordTypes DEF LapInv
    <2>2. loc'[u].since <= head' /\ Booked' <= loc'[u].since + Words
      <3>1. loc[u].since <= head /\ Booked <= loc[u].since + Words
        BY <2>1 DEF LapCall
      <3>2. loc[u].since <= head'
        BY <1>21, <2>1, <3>1
      <3> QED
        BY <1>10, <1>12, <3>1, <3>2
    <2>3. CASE u # t
      <3>1. at'[u] = at[u] /\ loc'[u] = loc[u] /\ (u \in Unreserved' => u \in Unreserved)
        BY <1>9, <1>10, <2>3
      <3>2. at[u] # "head" => loc[u].since <= loc[u].head /\ loc[u].head <= head'
        BY <1>21, <2>1 DEF LapCall
      <3>3. ASSUME u \in Holding' PROVE HoldInv(u)' /\ End(loc[u].n)' <= tail' + Words
        <4>1. u \in Holding /\ End(loc[u].n) <= tail + Words /\ loc[u].n \in Records
          BY <1>9, <1>11, <2>1, <2>3, <3>3 DEF LapCall
        <4>2. End(loc[u].n)' = End(loc[u].n)
          BY <1>4, <3>1, <4>1 DEF End, Pos
        <4> QED
          BY <1>14, <3>3, <4>1, <4>2
      <3> QED
        BY <2>1, <2>2, <3>1, <3>2, <3>3 DEF LapCall
    <2>4. CASE u = t
      <3>1. t \notin Unreserved' /\ at'[t] = "header"
        BY <1>9
      <3>2. End(loc[t].n)' <= tail' + Words
        <4>1. End(loc[t].n)' = head'
          BY <1>4, <1>7, <1>9 DEF End
        <4> QED
          BY <1>6, <4>1
      <3>3. loc'[t].since <= loc'[t].head /\ loc'[t].head <= head'
        BY <1>2, <1>6, <1>7, <1>9
      <3> QED
        BY <1>14, <2>2, <2>4, <3>1, <3>2, <3>3 DEF LapCall
    <2> QED
      BY <2>3, <2>4
  <1>16. LapContent'
    <2>1. t \in Holding' /\ loc'[t].n = N /\ at'[t] = "header"
      BY <1>7, <1>9
    <2>2. \A k : ~Written(N, k)'
      BY <2>1 DEF Written
    <2>3. \A i \in Records : \A k : Written(i, k)' => Written(i, k)
      BY <1>9, <1>11 DEF Written
    <2>4. ASSUME NEW i \in Records, NEW k \in 0 .. placed'[i].size - 1,
                 Alive(placed[i].pos + k)', Written(i, k)'
          PROVE  ring[Index(placed'[i].pos + k)].rec = i /\ ring[Index(placed'[i].pos + k)].k = k
      <3>1. placed'[i].pos = Pos(i) /\ placed'[i].size = placed[i].size
        BY <1>4
      <3>2. k \in 0 .. placed[i].size - 1
        BY <3>1
      <3>3. PICK p \in Nat : p = Pos(i) + k
        BY <3>2, RecordFacts DEF LapInv
      <3>4. Alive(p)'
        BY <2>4, <3>1, <3>3 DEF Alive
      <3>5. Alive(Pos(i) + k)
        BY <1>6, <3>3, <3>4
      <3> QED
        BY <2>3, <2>4, <3>1, <3>2, <3>5 DEF LapInv, LapContent
    <2> QED
      BY <1>4, <2>2, <2>4 DEF LapContent, Pos, Index
  <1>17. LapOwner'
    <2>1. \A i \in Records : placed'[i].pos = placed[i].pos /\ placed'[i].size = placed[i].size
      BY <1>4 DEF Pos
    <2> QED
      BY <1>4, <2>1 DEF LapInv, LapOwner, Pos, Index
  <1>18. LapSeal'
    <2> SUFFICES ASSUME NEW x \in 0 .. Words - 1, ring[x].tag = "SEAL"
                 PROVE  /\ ring[x].rec # 0 /\ ring[x].k = 0
                        /\ \/ Alive(placed[ring[x].rec].pos)'
                           \/ \E u \in Holding' : \E k \in 0 .. loc'[u].size - 1 :
                                 Missing(u, k)' /\ Index(loc'[u].head + k) = x
      BY DEF LapSeal, Pos, Index
    <2>1. /\ ring[x].rec # 0 /\ ring[x].k = 0
          /\ \/ Alive(Pos(ring[x].rec))
             \/ \E u \in Holding : \E k \in 0 .. loc[u].size - 1 :
                   Missing(u, k) /\ Index(loc[u].head + k) = x
      BY DEF LapInv, LapSeal
    <2>2. PICK i \in Records : i = ring[x].rec /\ Index(Pos(i) + 0) = x
      BY <2>1 DEF LapInv, LapOwner
    <2>3. placed'[i].pos = Pos(i)
      BY <1>4
    <2>4. CASE \E u \in Holding : \E k \in 0 .. loc[u].size - 1 :
                  Missing(u, k) /\ Index(loc[u].head + k) = x
      <3>1. \A u \in Holding : \A k : Missing(u, k) => Missing(u, k)'
        BY <1>11 DEF Missing
      <3> QED
        BY <1>9, <1>11, <2>1, <2>4, <3>1
    <2>5. CASE Alive(Pos(i)) /\ ~(head' <= Pos(i) + Words)
      <3>1. Pos(i) \in Nat /\ Pos(i) + 0 = Pos(i) /\ head <= Pos(i) + Words
        BY <2>5, RecordFacts DEF LapInv, Alive
      <3>2. PICK k \in 0 .. loc[t].size - 1 : head + k = Pos(i) + Words
        <4>1. PICK p \in Nat, z \in Nat : p = Pos(i) /\ z = loc[t].size
          BY <1>2, <3>1
        <4>2. PICK h \in Nat, w \in Nat : h = head /\ w = Words
          BY <1>2
        <4>3. h <= p + w /\ ~(h + z <= p + w)
          BY <2>5, <3>1, <4>1, <4>2
        <4>4. PICK d \in Int : d = (p + w) - h
          BY <4>2
        <4>5. 0 <= d /\ d <= z - 1
          BY <4>3, <4>4
        <4>6. h + d = p + w
          BY <4>4
        <4> QED
          BY <4>1, <4>2, <4>5, <4>6
      <3>3. Index(head + k) = x
        BY <2>2, <3>1, <3>2, IndexRound
      <3>4. Missing(t, k)' /\ loc'[t].head = head /\ loc'[t].size = loc[t].size /\ t \in Holding'
        BY <1>7, <1>9 DEF Missing
      <3> QED
        BY <2>1, <3>3, <3>4
    <2>6. CASE head' <= Pos(i) + Words
      BY <2>1, <2>2, <2>3, <2>6 DEF Alive
    <2> QED
      BY <2>1, <2>2, <2>4, <2>5, <2>6
  <1>19. LapOut'
    <2>1. ASSUME NEW n \in Records, Gone(n) PROVE Gone(n)'
      <3>1. placed'[n].pos = Pos(n) /\ Pos(n) \in Nat
        BY <1>4, RecordTypes
      <3>2. Alive(placed[n].pos)' => Alive(Pos(n))
        <4>1. PICK p \in Nat : p = Pos(n)
          BY <3>1
        <4> QED
          BY <1>6, <3>1, <4>1 DEF Alive
      <3>3. at[Reader] = "free" => at'[Reader] = "free" /\ loc'[Reader] = loc[Reader]
        BY <1>9 DEF Reading, ReaderPlaces
      <3>4. Index(placed[n].pos)' = Index(Pos(n))
        BY <3>1 DEF Index
      <3> QED
        BY <2>1, <3>1, <3>2, <3>3, <3>4 DEF Gone, Pos, Index
    <2>2. \A j \in DOMAIN out : \A u \in Holding' : loc'[u].n # out[j].n
      <3>1. \A j \in DOMAIN out : out[j].n \in Records /\ \A u \in Holding : loc[u].n # out[j].n
        BY DEF LapInv, LapOut
      <3>2. loc'[t].n = N
        BY <1>7, <1>9
      <3> QED
        BY <1>4, <1>9, <1>11, <3>1, <3>2
    <2> QED
      BY <1>4, <2>1, <2>2 DEF LapInv, LapOut
  <1>20. ASSUME Reading PROVE LapRead'
    <2>1. PICK place, r : place = at[Reader] /\ r = loc[Reader]
      OBVIOUS
    <2>2. /\ place = at'[Reader] /\ r = loc'[Reader] /\ Knows(place, r)
          /\ r.head \in Nat /\ r.tail \in Nat /\ r.n \in Nat
      BY <1>9, <1>20, <2>1, RecordTypes, WordsFacts DEF LapInv, LapRead
    <2>3. \A u \in Logging' : loc'[Reader].head <= loc'[u].since
      BY <1>9, <1>10, <1>20 DEF LapInv, LapRead
    <2>4. r.head <= head'
      BY <1>21, <2>2 DEF Knows
    <2>5. ASSUME place \in {"recheck", "ftext", "verify"}
          PROVE  /\ r.n \in Records'
                 /\ \E k \in 0 .. placed'[r.n].size - 1 : Index(placed'[r.n].pos + k) = Index(r.tail)
                 /\ \A j \in DOMAIN out : out[j].n # r.n
                 /\ tail = r.tail /\ ring[Index(tail)].tag = "SEAL" => Complete(r)'
      <3>1. /\ r.n \in Records /\ placed'[r.n].pos = Pos(r.n) /\ placed'[r.n].size = placed[r.n].size
            /\ Pos(r.n) \in Nat
        BY <1>4, <2>2, <2>5, RecordTypes DEF Knows
      <3>2. ASSUME tail = r.tail, ring[Index(tail)].tag = "SEAL" PROVE Complete(r)'
        <4>1. Complete(r)
          BY <2>2, <2>5, <3>2 DEF Knows
        <4>2. head' <= Pos(r.n) + Words
          BY <1>2, <1>6, <3>1, <4>1 DEF Complete
        <4> QED
          BY <3>1, <4>1, <4>2 DEF Complete, Alive, Pos, Index
      <3> QED
        BY <1>4, <2>2, <2>5, <3>1, <3>2 DEF Knows
    <2>6. Knows(place, r)'
      BY <2>2, <2>4, <2>5 DEF Knows, Pos, Index
    <2> QED
      BY <2>2, <2>3, <2>6 DEF LapRead
  <1> QED
    BY <1>9, <1>13, <1>15, <1>16, <1>17, <1>18, <1>19, <1>20 DEF LapInv

\* The race for head: won, lost and tried again, or given up.
LEMMA LapReserve ==
    ASSUME TypeInv, LapInv, NEW t \in Writers, Reserve(t)
    PROVE  LapInv'
  <1>1. at[t] = "space" /\ ~Short(loc[t]) /\ UNCHANGED <<ring, tail, out>>
    BY DEF Reserve, Step
  <1>2. CASE /\ head = loc[t].head
             /\ head' = head + loc[t].size
             /\ placed' = Append(placed, [size |-> loc[t].size, pos |-> head])
             /\ Go(t, "header", [loc[t] EXCEPT !.n = Len(placed) + 1])
    BY <1>1, <1>2, LapPlace
  <1>3. CASE /\ loc[t].tries > 1
             /\ Go(t, "reload", [loc[t] EXCEPT !.head = head, !.tries = @ - 1])
             /\ UNCHANGED <<head, placed>>
    <2>1. loc[t] \in Locals /\ head \in Nat
      BY <1>1, LapSearch
    <2>2. PICK v \in Nat : v = loc[t].tries - 1
      BY <1>3, <2>1 DEF Locals
    <2> DEFINE l == [loc[t] EXCEPT !.head = head, !.tries = v]
    <2>3. /\ l \in Locals /\ l.head = head /\ l.size = loc[t].size /\ l.since = loc[t].since
          /\ l.tail = loc[t].tail
      BY <2>1 DEF Locals
    <2>4. Go(t, "reload", l)
      BY <1>3, <2>2
    <2> HIDE DEF l
    <2> QED
      BY <1>1, <1>3, <2>3, <2>4, LapSearch, LapSearchStep
  <1>4. CASE Go(t, "idle", NoLocals) /\ UNCHANGED <<head, placed>>
    BY <1>1, <1>4, LapLeave
  <1> QED
    BY <1>2, <1>3, <1>4 DEF Reserve

\* What Stored does to the words of a record of z words, and to the others.
StoredIn(l, z, from, to) ==
    /\ \A x \in 0 .. Words - 1 :
          (\A k \in 0 .. z - 1 : x # Index(l.head + k)) => Stored(l, from, to)[x] = ring[x]
    /\ \A k \in 0 .. z - 1 :
          \/ /\ k \in from .. to
             /\ Stored(l, from, to)[Index(l.head + k)]
                  = Word(l.n, k, IF k = 0 THEN "FREE" ELSE "data")
          \/ /\ k \notin from .. to
             /\ Stored(l, from, to)[Index(l.head + k)] = ring[Index(l.head + k)]

LEMMA StoredWords ==
    ASSUME TypeOK, NEW l \in Locals, NEW z \in Nat, NEW from \in Nat, NEW to \in Nat, to <= z - 1,
           \A k, m \in 0 .. z - 1 : Index(l.head + k) = Index(l.head + m) => k = m
    PROVE  StoredIn(l, z, from, to)
  <1>1. \A k \in from .. to : k \in 0 .. z - 1
    OBVIOUS
  <1>2. ASSUME NEW x \in 0 .. Words - 1, \A k \in 0 .. z - 1 : x # Index(l.head + k)
        PROVE  Stored(l, from, to)[x] = ring[x]
    <2>1. \A k \in from .. to : x # Index(l.head + k)
      BY <1>1, <1>2
    <2> QED
      BY <2>1 DEF Stored
  <1>3. ASSUME NEW k \in 0 .. z - 1
        PROVE  \/ /\ k \in from .. to
                  /\ Stored(l, from, to)[Index(l.head + k)]
                       = Word(l.n, k, IF k = 0 THEN "FREE" ELSE "data")
               \/ /\ k \notin from .. to
                  /\ Stored(l, from, to)[Index(l.head + k)] = ring[Index(l.head + k)]
    <2>1. PICK x \in 0 .. Words - 1 : x = Index(l.head + k)
      <3>1. l.head + k \in Nat
        BY DEF Locals
      <3> QED
        BY <3>1, IndexType
    <2>2. \A m \in from .. to : x = Index(l.head + m) => k = m
      BY <1>1, <2>1
    <2>3. CASE k \in from .. to
      <3>1. \E m \in from .. to : x = Index(l.head + m)
        BY <2>1, <2>3
      <3>2. (CHOOSE m \in from .. to : x = Index(l.head + m)) = k
        BY <2>2, <3>1
      <3>3. Stored(l, from, to)[x] = Word(l.n, k, IF k = 0 THEN "FREE" ELSE "data")
        BY <3>1, <3>2, Zenon DEF Stored
      <3> QED
        BY <2>1, <2>3, <3>3
    <2>4. CASE k \notin from .. to
      <3>1. \A m \in from .. to : x # Index(l.head + m)
        BY <2>2, <2>4
      <3>2. Stored(l, from, to)[x] = ring[x]
        BY <3>1 DEF Stored
      <3> QED
        BY <2>1, <2>4, <3>2
    <2> QED
      BY <2>3, <2>4
  <1> QED
    BY <1>2, <1>3 DEF StoredIn

\* The words of a record that a call holds: no two are one word, no other call has the
\* record, and what the call has written is there.
Owned(t, n, p, z) ==
    /\ loc[t].n = n /\ loc[t].head = p /\ loc[t].size = z /\ z >= 4
    /\ \A k, m \in 0 .. z - 1 : Index(p + k) = Index(p + m) => k = m
    /\ \A u \in Holding : loc[u].n = n => u = t
    /\ \A k \in 0 .. z - 1 :
          Written(n, k) => ring[Index(p + k)].rec = n /\ ring[Index(p + k)].k = k

\* A word of the record that a step leaves as it is: written before if it is now, and
\* missing if it was.
Left(t, n, p, k) == /\ ring'[Index(p + k)] = ring[Index(p + k)]
                    /\ Written(n, k)' => Written(n, k)
                    /\ Missing(t, k) => Missing(t, k)'

\* A word that a step writes; it is sealed only by the step that seals the record.
Filled(t, n, p, k) == /\ ring'[Index(p + k)].rec = n /\ ring'[Index(p + k)].k = k
                      /\ ring'[Index(p + k)].tag = "SEAL" => k = 0 /\ at[t] = "seal"

LEMMA HeaderWritten ==
    ASSUME TypeInv, "SEAL" \notin Stamps, NEW t \in Holding,
           NEW n \in Nat, NEW p \in Nat, NEW z \in Nat, Owned(t, n, p, z), WriteHeader(t)
    PROVE  /\ \A x \in 0 .. Words - 1 : (\A k \in 0 .. z - 1 : x # Index(p + k)) => ring'[x] = ring[x]
           /\ \A k \in 0 .. z - 1 : Left(t, n, p, k) \/ Filled(t, n, p, k)
  <1>1. /\ t \in Threads /\ loc[t] \in Locals /\ loc[t].n <= Len(placed) /\ TypeOK /\ z >= 4
        /\ loc[t].n = n /\ loc[t].head = p
        /\ \A k, m \in 0 .. z - 1 : Index(p + k) = Index(p + m) => k = m
    BY CallSets DEF TypeInv, TypeOK, Owned
  <1>2. \A k \in 0 .. z - 1 : Index(p + k) \in 0 .. Words - 1
    <2>1. \A k \in 0 .. z - 1 : p + k \in Nat
      OBVIOUS
    <2> QED
      BY <2>1, IndexType
  <1> DEFINE S == Stored(loc[t], 0, 2)
  <1>3. PICK stamp \in Stamps : ring' = [S EXCEPT ![Index(p + 2)].tag = stamp]
    BY <1>1 DEF WriteHeader
  <1>4. S \in [0 .. Words - 1 -> WordTypes]
    BY <1>1, StoredTypes
  <1>5. /\ \A x \in 0 .. Words - 1 : (\A k \in 0 .. z - 1 : x # Index(p + k)) => S[x] = ring[x]
        /\ \A k \in 0 .. z - 1 :
              \/ k \in 0 .. 2 /\ S[Index(p + k)] = Word(n, k, IF k = 0 THEN "FREE" ELSE "data")
              \/ k \notin 0 .. 2 /\ S[Index(p + k)] = ring[Index(p + k)]
    <2>1. 2 <= z - 1
      BY <1>1
    <2>2. \A k, m \in 0 .. z - 1 : Index(loc[t].head + k) = Index(loc[t].head + m) => k = m
      BY <1>1
    <2>3. StoredIn(loc[t], z, 0, 2)
      <3>1. TypeOK /\ loc[t] \in Locals /\ 0 \in Nat /\ 2 \in Nat
        BY <1>1
      <3> QED
        BY <2>1, <2>2, <3>1, StoredWords
    <2> QED
      BY <1>1, <2>3 DEF StoredIn
  <1> HIDE DEF S
  <1>6. /\ at[t] = "header" /\ at'[t] = "text" /\ stamp # "SEAL" /\ 2 \in 0 .. z - 1
        /\ t \in Holding' /\ loc'[t].n = n
    <2>1. at[t] = "header" /\ at'[t] = "text" /\ loc'[t] = loc[t]
      BY <1>1 DEF WriteHeader, Step, Go, TypeInv, TypeOK
    <2> QED
      BY <1>1, <1>3, <2>1 DEF Holding
  <1>7. \A x \in 0 .. Words - 1 : x # Index(p + 2) => ring'[x] = S[x]
    BY <1>3, <1>4
  <1>8. /\ ring'[Index(p + 2)].rec = S[Index(p + 2)].rec /\ ring'[Index(p + 2)].k = S[Index(p + 2)].k
        /\ ring'[Index(p + 2)].tag = stamp
    BY <1>2, <1>3, <1>4, <1>6 DEF WordTypes
  <1>9. ASSUME NEW k \in 0 .. z - 1 PROVE Left(t, n, p, k) \/ Filled(t, n, p, k)
    <2>1. CASE k \notin 0 .. 2 /\ S[Index(p + k)] = ring[Index(p + k)]
      <3>1. k # 2
        BY <2>1
      <3>2. Index(p + k) # Index(p + 2)
        BY <1>1, <1>6, <3>1
      <3>3. ring'[Index(p + k)] = ring[Index(p + k)]
        BY <1>2, <1>7, <2>1, <3>2
      <3>4. k > 2
        BY <2>1
      <3> QED
        BY <1>6, <3>3, <3>4 DEF Left, Missing, Written
    <2>2. CASE k \in 0 .. 2 /\ S[Index(p + k)] = Word(n, k, IF k = 0 THEN "FREE" ELSE "data")
      <3>1. /\ S[Index(p + k)].rec = n /\ S[Index(p + k)].k = k
            /\ S[Index(p + k)].tag # "SEAL"
        BY <2>2 DEF Word
      <3> QED
        BY <1>2, <1>6, <1>7, <1>8, <3>1 DEF Filled
    <2> QED
      BY <1>5, <2>1, <2>2
  <1>10. \A x \in 0 .. Words - 1 : (\A k \in 0 .. z - 1 : x # Index(p + k)) => ring'[x] = ring[x]
    BY <1>5, <1>6, <1>7
  <1> QED
    BY <1>9, <1>10

LEMMA TextWritten ==
    ASSUME TypeInv, NEW t \in Holding,
           NEW n \in Nat, NEW p \in Nat, NEW z \in Nat, Owned(t, n, p, z), WriteText(t)
    PROVE  /\ \A x \in 0 .. Words - 1 : (\A k \in 0 .. z - 1 : x # Index(p + k)) => ring'[x] = ring[x]
           /\ \A k \in 0 .. z - 1 : Left(t, n, p, k) \/ Filled(t, n, p, k)
  <1>1. /\ loc[t] \in Locals /\ TypeOK /\ z >= 4
        /\ loc[t].n = n /\ loc[t].head = p /\ loc[t].size = z
        /\ \A k, m \in 0 .. z - 1 : Index(p + k) = Index(p + m) => k = m
    BY CallSets DEF TypeInv, TypeOK, Owned
  <1>2. ring' = Stored(loc[t], 3, z - 1) /\ z - 1 \in Nat /\ at[t] = "text"
    BY <1>1 DEF WriteText, Step
  <1>3. /\ \A x \in 0 .. Words - 1 : (\A k \in 0 .. z - 1 : x # Index(p + k)) => ring'[x] = ring[x]
        /\ \A k \in 0 .. z - 1 :
              \/ /\ k \in 3 .. z - 1
                 /\ ring'[Index(p + k)] = Word(n, k, IF k = 0 THEN "FREE" ELSE "data")
              \/ k \notin 3 .. z - 1 /\ ring'[Index(p + k)] = ring[Index(p + k)]
    <2>2. \A k, m \in 0 .. z - 1 : Index(loc[t].head + k) = Index(loc[t].head + m) => k = m
      BY <1>1
    <2>3. StoredIn(loc[t], z, 3, z - 1)
      <3>1. TypeOK /\ loc[t] \in Locals /\ 3 \in Nat /\ z - 1 \in Nat /\ z - 1 <= z - 1
        BY <1>1, <1>2
      <3> QED
        BY <2>2, <3>1, StoredWords
    <2> QED
      BY <1>1, <1>2, <2>3 DEF StoredIn
  <1>4. ASSUME NEW k \in 0 .. z - 1 PROVE Left(t, n, p, k) \/ Filled(t, n, p, k)
    <2>1. CASE k \notin 3 .. z - 1 /\ ring'[Index(p + k)] = ring[Index(p + k)]
      <3>1. k <= 2
        BY <2>1
      <3>2. Written(n, k) /\ ~Missing(t, k)
        BY <1>2, <3>1 DEF Written, Missing, Owned
      <3> QED
        BY <2>1, <3>2 DEF Left
    <2>2. CASE /\ k \in 3 .. z - 1
               /\ ring'[Index(p + k)] = Word(n, k, IF k = 0 THEN "FREE" ELSE "data")
      <3>1. /\ ring'[Index(p + k)].rec = n /\ ring'[Index(p + k)].k = k
            /\ ring'[Index(p + k)].tag # "SEAL"
        BY <2>2 DEF Word
      <3> QED
        BY <3>1 DEF Filled
    <2> QED
      BY <1>3, <2>1, <2>2
  <1> QED
    BY <1>3, <1>4

LEMMA SealWritten ==
    ASSUME TypeInv, NEW t \in Holding,
           NEW n \in Nat, NEW p \in Nat, NEW z \in Nat, Owned(t, n, p, z), Seal(t)
    PROVE  /\ \A x \in 0 .. Words - 1 : (\A k \in 0 .. z - 1 : x # Index(p + k)) => ring'[x] = ring[x]
           /\ \A k \in 0 .. z - 1 : Left(t, n, p, k) \/ Filled(t, n, p, k)
  <1>1. /\ z >= 4 /\ \A k, m \in 0 .. z - 1 : Index(p + k) = Index(p + m) => k = m
        /\ ring \in [0 .. Words - 1 -> WordTypes]
    BY DEF TypeInv, TypeOK, WordTypes, Owned
  <1>2. ring' = [ring EXCEPT ![Index(p)].tag = "SEAL"] /\ at[t] = "seal"
    BY DEF Seal, Step, Owned
  <1>3. \A k : Written(n, k) /\ ~Missing(t, k)
    BY <1>2 DEF Written, Missing, Owned
  <1>4. p + 0 = p /\ 0 \in 0 .. z - 1
    BY <1>1
  <1>5. \A x \in 0 .. Words - 1 : (\A k \in 0 .. z - 1 : x # Index(p + k)) => ring'[x] = ring[x]
    BY <1>1, <1>2, <1>4
  <1>6. ASSUME NEW k \in 0 .. z - 1 PROVE Left(t, n, p, k) \/ Filled(t, n, p, k)
    <2>1. CASE k = 0
      <3>1. ring[Index(p)].rec = n /\ ring[Index(p)].k = 0
        BY <1>3, <1>4 DEF Owned
      <3>2. Index(p) \in 0 .. Words - 1
        BY IndexType
      <3> QED
        BY <1>1, <1>2, <1>4, <2>1, <3>1, <3>2 DEF WordTypes, Filled
    <2>2. CASE k # 0
      <3>1. Index(p + k) # Index(p)
        BY <1>1, <1>4, <2>2
      <3>2. Index(p + k) \in 0 .. Words - 1
        BY IndexType
      <3> QED
        BY <1>1, <1>2, <1>3, <3>1, <3>2 DEF Left
    <2> QED
      BY <2>1, <2>2
  <1> QED
    BY <1>5, <1>6

\* What a call stores is its record's, and the words of the others stay; where it covers an
\* older seal, that record has been reserved again, and log_flash has gone on.
LEMMA LapWrite ==
    ASSUME TypeInv, LapInv, "SEAL" \notin Stamps, NEW t \in Writers,
           WriteHeader(t) \/ WriteText(t) \/ Seal(t)
    PROVE  LapInv'
  <1>1. t \in Holding /\ UNCHANGED <<head, tail, placed, out>>
    BY DEF WriteHeader, WriteText, Seal, Step, Holding, history
  <1>2. PICK a \in {"text", "seal", "announce"} : Go(t, a, loc[t])
    BY DEF WriteHeader, WriteText, Seal
  <1>3. PICK n \in Records, p \in Nat, z \in Nat :
           /\ n = loc[t].n /\ Pos(n) = p /\ loc[t].head = p /\ placed[n].size = z /\ loc[t].size = z
           /\ z >= 4 /\ n \in Nat /\ n # 0 /\ \A k \in Nat : Alive(p + k)
           /\ \A u \in Holding \ {t} : loc[u].n # n
    <2>1. /\ loc[t].n \in Records /\ Pos(loc[t].n) = loc[t].head
          /\ placed[loc[t].n].size = loc[t].size
          /\ \A k \in Nat : Alive(Pos(loc[t].n) + k)
          /\ \A u \in Holding \ {t} : loc[u].n # loc[t].n
      BY <1>1, HeldFacts
    <2> QED
      BY <2>1, RecordFacts DEF LapInv
  <1>4. /\ \A u \in Threads : loc'[u] = loc[u]
        /\ at'[t] = a /\ \A u \in Threads \ {t} : at'[u] = at[u]
        /\ Reading' <=> Reading
        /\ Reading => t # Reader /\ at'[Reader] = at[Reader]
        /\ ~Reading => at[Reader] \notin ReaderPlaces /\ at'[Reader] \notin ReaderPlaces
        /\ Logging' = Logging /\ Unreserved' = Unreserved
        /\ Holding' = IF a = "announce" THEN Holding \ {t} ELSE Holding
        /\ \A i \in Records, k \in Int : Written(i, k)' /\ i # n => Written(i, k)
    BY <1>1, <1>2, <1>3, HoldMoved
  <1>5. /\ Holding' \subseteq Holding /\ Holding \subseteq Threads /\ t \in Threads /\ t \in Logging
        /\ \A u \in Holding \ {t} : u \in Holding' /\ at'[u] = at[u]
        /\ Reader \in Threads /\ t \notin Unreserved
        /\ a # "announce" => t \in Holding'
    BY <1>1, <1>4, CallSets, WordsFacts
  <1>6. /\ Records' = Records /\ \A i \in Records : Pos(i)' = Pos(i) /\ End(i)' = End(i)
        /\ \A i : Alive(i)' <=> Alive(i)
    BY <1>1 DEF Records, Pos, End, Alive
  \* another word that has not been reserved again is none of the record's
  <1>7. ASSUME NEW i \in Records, NEW k \in 0 .. placed[i].size - 1, Alive(Pos(i) + k),
               NEW m \in 0 .. z - 1, Index(Pos(i) + k) = Index(p + m)
        PROVE  i = n /\ k = m
    <2>1. Alive(Pos(n) + m) /\ m \in 0 .. placed[n].size - 1
      BY <1>3
    <2> QED
      BY <1>3, <1>7, <2>1, AliveApart DEF LapInv
  <1>8. Owned(t, n, p, z)
    <2>1. \A k, m \in 0 .. z - 1 : Index(p + k) = Index(p + m) => k = m
      BY <1>3, <1>7
    <2>2. \A k \in 0 .. z - 1 :
             Written(n, k) => ring[Index(p + k)].rec = n /\ ring[Index(p + k)].k = k
      BY <1>3 DEF LapInv, LapContent
    <2> QED
      BY <1>3, <2>1, <2>2 DEF Owned
  <1>9. /\ \A x \in 0 .. Words - 1 : (\A k \in 0 .. z - 1 : x # Index(p + k)) => ring'[x] = ring[x]
        /\ \A k \in 0 .. z - 1 : Left(t, n, p, k) \/ Filled(t, n, p, k)
    <2>1. n \in Nat
      BY <1>3
    <2> QED
      BY <1>1, <1>8, <2>1, HeaderWritten, TextWritten, SealWritten
  <1>10. \A k \in 0 .. z - 1 : Index(p + k) \in 0 .. Words - 1
    <2>1. \A k \in 0 .. z - 1 : p + k \in Nat
      OBVIOUS
    <2> QED
      BY <2>1, IndexType
  <1>11. Ordered'
    BY <1>1, <1>6 DEF LapInv, Ordered
  <1>12. ASSUME NEW u \in Logging PROVE LapCall(u)'
    <2>1. LapCall(u) /\ u \in Threads /\ loc'[u] = loc[u] /\ at[t] # "head"
      BY <1>1, <1>4, CallSets DEF LapInv, Holding
    <2>2. Booked' = Booked
      BY <1>1, <1>4, CallSets, WantedSame DEF Booked
    <2>3. ASSUME u \in Holding' PROVE HoldInv(u)' /\ End(loc[u].n)' <= tail' + Words
      <3>1. HoldInv(u) /\ End(loc[u].n) <= tail + Words /\ loc[u].n \in Records
        BY <1>5, <2>1, <2>3 DEF LapCall, HoldInv
      <3>2. HoldInv(u)'
        BY <1>4, <1>5, <1>6, <1>1, <2>1, <2>3, <3>1 DEF HoldInv
      <3>3. End(loc[u].n)' = End(loc[u].n)
        BY <1>1, <2>1 DEF End
      <3> QED
        BY <1>1, <3>1, <3>2, <3>3
    <2>4. at'[u] \in {"drop", "skip"} => at'[u] = at[u]
      BY <1>4, <2>1
    <2>5. at'[u] # "head" => at[u] # "head"
      BY <1>4, <2>1
    <2> QED
      BY <1>1, <1>4, <2>1, <2>2, <2>3, <2>4, <2>5 DEF LapCall
  <1>13. LapContent'
    <2> SUFFICES ASSUME NEW i \in Records, NEW k \in 0 .. placed[i].size - 1,
                        Alive(Pos(i) + k), Written(i, k)'
                 PROVE  ring'[Index(Pos(i) + k)].rec = i /\ ring'[Index(Pos(i) + k)].k = k
      BY <1>1, <1>6 DEF LapContent, Records, Pos, Index, Alive
    <2>1. Index(Pos(i) + k) \in 0 .. Words - 1 /\ k \in Int
      BY RecordFacts DEF LapInv
    <2>2. Written(i, k) => ring[Index(Pos(i) + k)].rec = i /\ ring[Index(Pos(i) + k)].k = k
      BY DEF LapInv, LapContent
    <2>3. CASE i = n
      <3>1. k \in 0 .. z - 1
        BY <1>3, <2>3
      <3> QED
        BY <1>3, <1>9, <2>2, <2>3, <3>1 DEF Left, Filled
    <2>4. CASE i # n
      <3>1. ring'[Index(Pos(i) + k)] = ring[Index(Pos(i) + k)]
        BY <1>7, <1>9, <2>1, <2>4
      <3> QED
        BY <1>4, <2>1, <2>2, <2>4, <3>1
    <2> QED
      BY <2>3, <2>4
  <1>14. LapOwner'
    <2> SUFFICES ASSUME NEW x \in 0 .. Words - 1, ring'[x].rec # 0
                 PROVE  /\ ring'[x].rec \in Records /\ ring'[x].k < placed[ring'[x].rec].size
                        /\ Index(Pos(ring'[x].rec) + ring'[x].k) = x
      BY <1>1, <1>6 DEF LapOwner, Records, Pos, Index
    <2>1. CASE ring'[x] = ring[x]
      BY <2>1 DEF LapInv, LapOwner
    <2>2. CASE ring'[x] # ring[x]
      <3>1. PICK k \in 0 .. z - 1 : x = Index(p + k)
        BY <1>9, <2>2
      <3>2. ring'[x].rec = n /\ ring'[x].k = k
        BY <1>9, <2>2, <3>1 DEF Left, Filled
      <3>3. k < z
        BY <1>3
      <3> QED
        BY <1>3, <3>1, <3>2, <3>3
    <2> QED
      BY <2>1, <2>2
  <1>15. LapSeal'
    <2> SUFFICES ASSUME NEW x \in 0 .. Words - 1, ring'[x].tag = "SEAL"
                 PROVE  /\ ring'[x].rec # 0 /\ ring'[x].k = 0
                        /\ \/ Alive(Pos(ring'[x].rec))
                           \/ \E u \in Holding' : \E k \in 0 .. loc[u].size - 1 :
                                 Missing(u, k)' /\ Index(loc[u].head + k) = x
      BY <1>1, <1>4, <1>5, <1>6 DEF LapSeal, Pos, Index, Alive
    <2>1. ring[x].tag = "SEAL" => 
          /\ ring[x].rec # 0 /\ ring[x].k = 0
          /\ \/ Alive(Pos(ring[x].rec))
             \/ \E u \in Holding : \E k \in 0 .. loc[u].size - 1 :
                   Missing(u, k) /\ Index(loc[u].head + k) = x
      BY DEF LapInv, LapSeal
    <2>2. \A u \in Holding \ {t} : \A k : u \in Holding' /\ (Missing(u, k) => Missing(u, k)')
      BY <1>5 DEF Missing
    <2>3. ASSUME NEW k \in 0 .. z - 1, x = Index(p + k), Filled(t, n, p, k)
          PROVE  ring'[x].rec = n /\ ring'[x].k = 0 /\ Alive(Pos(n))
      <3>1. p + 0 = p
        OBVIOUS
      <3> QED
        BY <1>3, <2>3, <3>1 DEF Filled
    <2>4. ASSUME NEW u \in Holding, NEW k \in 0 .. loc[u].size - 1,
                 Missing(u, k), Index(loc[u].head + k) = x, ring'[x] = ring[x],
                 \A m \in 0 .. z - 1 : x = Index(p + m) => Left(t, n, p, m)
          PROVE  \E m \in 0 .. loc[u].size - 1 : /\ u \in Holding' /\ Missing(u, m)'
                                                 /\ Index(loc[u].head + m) = x
      <3>1. CASE u # t
        BY <2>2, <2>4, <3>1
      <3>2. CASE u = t
        <4>1. k \in 0 .. z - 1 /\ x = Index(p + k)
          BY <1>3, <2>4, <3>2
        <4>2. Left(t, n, p, k)
          BY <2>4, <4>1
        <4>3. Missing(t, k)'
          BY <2>4, <3>2, <4>2 DEF Left
        <4>4. t \in Holding'
          <5>1. at'[t] \in {"header", "text"}
            BY <4>3 DEF Missing
          <5>2. a # "announce"
            BY <1>4, <5>1
          <5> QED
            BY <1>5, <5>2
        <4> QED
          BY <2>4, <3>2, <4>3, <4>4
      <3> QED
        BY <3>1, <3>2
    <2>5. CASE \E k \in 0 .. z - 1 : x = Index(p + k) /\ Filled(t, n, p, k)
      BY <1>3, <2>3, <2>5
    <2>6. CASE ~\E k \in 0 .. z - 1 : x = Index(p + k) /\ Filled(t, n, p, k)
      <3>1. \A m \in 0 .. z - 1 : x = Index(p + m) => Left(t, n, p, m)
        BY <1>9, <2>6
      <3>2. ring'[x] = ring[x]
        BY <1>9, <3>1 DEF Left
      <3> QED
        BY <2>1, <2>4, <3>1, <3>2
    <2> QED
      BY <2>5, <2>6
  <1>16. LapOut'
    <2>1. ASSUME NEW i \in Records, i # n, Gone(i) PROVE Gone(i)'
      <3>1. CASE Alive(Pos(i))
        <4>1. \A m \in 0 .. z - 1 : Index(Pos(i)) # Index(p + m)
          BY <1>7, <2>1, <3>1, RecordFacts DEF LapInv
        <4>2. ring'[Index(Pos(i))] = ring[Index(Pos(i))]
          BY <1>9, <4>1, RecordFacts DEF LapInv
        <4>3. at[Reader] = "free" => at'[Reader] = "free" /\ loc'[Reader] = loc[Reader]
          BY <1>4, <1>5 DEF ReaderPlaces, Reading
        <4> QED
          BY <1>1, <1>6, <2>1, <4>2, <4>3 DEF Gone, Pos, Index
      <3>2. CASE ~Alive(Pos(i))
        BY <1>1, <1>6, <3>2 DEF Gone, Pos, Alive
      <3> QED
        BY <3>1, <3>2
    <2>2. \A j \in DOMAIN out : /\ out[j].n \in Records /\ out[j].n # n /\ Gone(out[j].n)
                                /\ \A u \in Holding' : loc'[u].n # out[j].n
                                /\ out[j].kept => out[j].whole
      BY <1>1, <1>3, <1>4, <1>5 DEF LapInv, LapOut
    <2>3. \A j \in DOMAIN out : Gone(out[j].n)'
      BY <1>1, <2>1, <2>2
    <2> QED
      BY <1>1, <1>6, <2>2, <2>3 DEF LapInv, LapOut, Gone, Pos, Index, Alive
  <1>17. ASSUME Reading PROVE LapRead'
    <2>1. PICK place, r : place = at[Reader] /\ r = loc[Reader]
      OBVIOUS
    <2>2. /\ place = at'[Reader] /\ r = loc'[Reader] /\ Knows(place, r)
          /\ r.head \in Nat /\ r.tail \in Nat /\ Index(r.tail) \in 0 .. Words - 1
          /\ tail \in Nat /\ Words \in Nat
      BY <1>4, <1>5, <1>17, <2>1, RecordTypes, WordsFacts, IndexType DEF LapInv, LapRead
    <2>3. \A u \in Logging' : loc'[Reader].head <= loc'[u].since
      BY <1>4, <1>5, <1>17, CallSets DEF LapInv, LapRead
    \* what log_flash looks at is what it was, or a new record
    <2>4. ASSUME NEW x \in 0 .. Words - 1, ring'[x] # ring[x]
          PROVE  /\ ring'[x].rec = n
                 /\ ring'[x].tag = "SEAL" => x = Index(p) /\ at[t] = "seal"
      <3>1. PICK k \in 0 .. z - 1 : x = Index(p + k)
        BY <1>9, <2>4
      <3>2. Filled(t, n, p, k)
        BY <1>9, <2>4, <3>1 DEF Left
      <3>3. p + 0 = p
        OBVIOUS
      <3> QED
        BY <3>1, <3>2, <3>3 DEF Filled
    <2>5. place \in {"recover", "fheader"} =>
             /\ ring'[Index(r.tail)].rec # 0
             /\ \A j \in DOMAIN out : out[j].n # ring'[Index(r.tail)].rec
      <3>1. \A j \in DOMAIN out : out[j].n # n
        BY <1>1, <1>3 DEF LapInv, LapOut
      <3>2. CASE ring'[Index(r.tail)] = ring[Index(r.tail)]
        BY <2>2, <3>2 DEF Knows
      <3>3. CASE ring'[Index(r.tail)] # ring[Index(r.tail)]
        BY <1>3, <2>2, <2>4, <3>1, <3>3
      <3> QED
        BY <3>2, <3>3
    <2>6. ASSUME place \in {"recheck", "ftext", "verify"}, tail = r.tail,
                 ring'[Index(tail)].tag = "SEAL"
          PROVE  Complete(r)'
      <3>1. CASE ring'[Index(tail)] = ring[Index(tail)]
        <4>1. Complete(r)
          BY <2>2, <2>6, <3>1 DEF Knows
        <4> QED
          BY <1>1, <3>1, <4>1 DEF Complete, Pos, Alive, Index
      <3>2. CASE ring'[Index(tail)] # ring[Index(tail)]
        <4>1. Index(tail) = Index(p)
          BY <2>2, <2>4, <2>6, <3>2
        <4>2. /\ loc[t].since <= p /\ loc[t].since \in Nat /\ p + z <= tail + Words
          BY <1>1, <1>3, HeldFacts
        <4>3. tail < r.head /\ r.head <= loc[t].since
          BY <1>5, <1>17, <2>1, <2>2, <2>6 DEF Knows, LapInv, LapRead
        <4>4. tail < p /\ p < tail + Words
          BY <1>3, <2>2, <4>2, <4>3
        <4> QED
          BY <2>2, <4>1, <4>4, Apart
      <3> QED
        BY <3>1, <3>2
    <2>7. Knows(place, r)'
      BY <1>1, <2>2, <2>5, <2>6 DEF Knows, Records, Pos, Index
    <2> QED
      BY <2>2, <2>3, <2>7 DEF LapRead
  <1> QED
    BY <1>4, <1>11, <1>12, <1>13, <1>14, <1>15, <1>16, <1>17 DEF LapInv

-----------------------------------------------------------------------------
(* The steps of log_flash *)

\* While log_flash takes a step nobody holds words, so what is sealed is complete, and has
\* not come out.
LEMMA SealedWord ==
    ASSUME TypeInv, LapInv, Holding = {}, at[Reader] # "free", NEW x \in 0 .. Words - 1,
           ring[x].tag = "SEAL"
    PROVE  \E i \in Records :
              /\ i = ring[x].rec /\ i # 0 /\ Alive(Pos(i)) /\ Index(Pos(i)) = x
              /\ \A k \in 0 .. placed[i].size - 1 :
                    ring[Index(Pos(i) + k)].rec = i /\ ring[Index(Pos(i) + k)].k = k
              /\ \A j \in DOMAIN out : out[j].n # i
  <1>1. ring[x].rec # 0 /\ ring[x].k = 0 /\ Alive(Pos(ring[x].rec))
    BY DEF LapInv, LapSeal
  <1>2. PICK i \in Records : i = ring[x].rec /\ Index(Pos(i) + 0) = x
    BY <1>1 DEF LapInv, LapOwner
  <1>3. Index(Pos(i)) = x /\ \A k \in 0 .. placed[i].size - 1 : Alive(Pos(i) + k)
    BY <1>1, <1>2, RecordFacts DEF LapInv
  <1>4. \A k : Written(i, k)
    BY DEF Written
  <1>5. \A k \in 0 .. placed[i].size - 1 :
           ring[Index(Pos(i) + k)].rec = i /\ ring[Index(Pos(i) + k)].k = k
    BY <1>3, <1>4 DEF LapInv, LapContent
  <1>6. \A j \in DOMAIN out : out[j].n # i
    BY <1>1, <1>2, <1>3 DEF LapInv, LapOut, Gone
  <1> QED
    BY <1>1, <1>2, <1>3, <1>5, <1>6

\* A step of log_flash that leaves the ring.
LEMMA LapReadStep ==
    ASSUME TypeInv, LapInv, Runs(Reader), at[Reader] \in ReaderPlaces \cup {"idle"},
           at[Reader] # "free",
           NEW a \in ReaderPlaces \cup {"idle"}, NEW l \in Locals, Go(Reader, a, l),
           UNCHANGED <<ring, head, placed, out>>, a # "idle" => Knows(a, l)'
    PROVE  LapInv'
  <1>1. /\ at'[Reader] = a /\ loc'[Reader] = l
        /\ Logging = {} /\ Holding = {} /\ Logging' = {} /\ Holding' = {}
    BY ReaderAlone
  <1>2. Ordered' /\ LapContent' /\ LapOwner' /\ LapSeal'
    BY <1>1, LapRingSame
  <1>3. LapOut'
    <2>1. \A n \in Records : Gone(n) => Gone(n)'
      BY DEF Gone, Pos, Index, Alive
    <2> QED
      BY <1>1, <2>1 DEF LapInv, LapOut, Records
  <1>4. Reading' => LapRead'
    <2>1. Reading' => a # "idle"
      BY <1>1 DEF Reading, ReaderPlaces
    <2> QED
      BY <1>1, <2>1 DEF LapRead
  <1> QED
    BY <1>1, <1>2, <1>3, <1>4 DEF LapInv

\* What log_flash knows, when it takes a step.
LEMMA LapFacts ==
    ASSUME TypeInv, LapInv, Runs(Reader), at[Reader] \in ReaderPlaces
    PROVE  /\ Knows(at[Reader], loc[Reader]) /\ Holding = {}
           /\ head \in Nat /\ tail \in Nat /\ Words \in Nat /\ loc[Reader] \in Locals
           /\ loc[Reader].tail \in Nat /\ loc[Reader].head \in Nat /\ loc[Reader].size \in Nat
           /\ loc[Reader].n \in Nat /\ loc[Reader].whole \in BOOLEAN
           /\ Index(loc[Reader].tail) \in 0 .. Words - 1
  <1>1. Knows(at[Reader], loc[Reader])
    BY DEF LapInv, LapRead, Reading
  <1>2. /\ head \in Nat /\ tail \in Nat /\ Words \in Nat /\ loc[Reader] \in Locals
        /\ loc[Reader].tail \in Nat /\ loc[Reader].head \in Nat /\ loc[Reader].size \in Nat
        /\ loc[Reader].n \in Nat /\ Index(loc[Reader].tail) \in 0 .. Words - 1
    BY RecordTypes, WordsFacts, IndexType
  <1>3. Holding = {}
    <2>1. \A u \in Threads \ {Reader} : at[u] = "idle"
      BY ThreadAssumption DEF Runs
    <2>2. at[Reader] \notin {"header", "text", "seal"}
      BY DEF ReaderPlaces
    <2> QED
      BY <2>1, <2>2, WordsFacts DEF Holding
  <1> QED
    BY <1>1, <1>2, <1>3 DEF Locals

\* With the ring and the positions unchanged what is known stays so.
LEMMA KnowsSame ==
    ASSUME NEW place, NEW r, UNCHANGED <<ring, head, tail, placed, out>>
    PROVE  Knows(place, r)' <=> Knows(place, r)
  BY DEF Knows, Complete, Records, Pos, Alive, Index

LEMMA LapReadOnly ==
    ASSUME TypeInv, LapInv, Runs(Reader), at[Reader] \in ReaderPlaces \cup {"idle"},
           at[Reader] # "free",
           NEW a \in ReaderPlaces \cup {"idle"}, NEW l \in Locals, Go(Reader, a, l),
           UNCHANGED <<ring, head, tail, placed, out>>, a # "idle" => Knows(a, l)
    PROVE  LapInv'
  BY KnowsSame, LapReadStep

\* log_flash starts over at the tail.
LEMMA LapReload ==
    ASSUME TypeInv, LapInv, Runs(Reader), at[Reader] \in ReaderPlaces \ {"free"},
           Go(Reader, "floop", [loc[Reader] EXCEPT !.tail = tail]),
           UNCHANGED <<ring, head, tail, placed, out>>
    PROVE  LapInv'
  <1> DEFINE l == [loc[Reader] EXCEPT !.tail = tail]
  <1>1. /\ l \in Locals /\ l.tail = tail /\ l.head = loc[Reader].head /\ l.head <= head
        /\ tail \in Nat /\ Go(Reader, "floop", l)
    BY LapFacts DEF Locals, Knows
  <1> HIDE DEF l
  <1>2. PICK m \in Locals : m = l
    BY <1>1
  <1>3. Knows("floop", m)
    BY <1>1, <1>2 DEF Knows
  <1> QED
    BY <1>1, <1>2, <1>3, LapReadOnly DEF ReaderPlaces

LEMMA LapFlash ==
    ASSUME TypeInv, LapInv, Flash \/ FlashTail \/ FlashLoop
    PROVE  LapInv'
  <1>1. /\ Runs(Reader) /\ UNCHANGED <<ring, head, tail, placed, out>>
    BY DEF Flash, FlashTail, FlashLoop, Step, shared, history
  <1>2. CASE Flash
    <2> DEFINE l == [NoLocals EXCEPT !.head = head]
    <2>1. at[Reader] = "idle" /\ Go(Reader, "ftail", l) /\ head \in Nat
      BY <1>2, RecordTypes DEF Flash, Step
    <2>2. l \in Locals /\ l.head = head
      BY <2>1 DEF NoLocals, Locals
    <2> HIDE DEF l
    <2>3. PICK m \in Locals : m = l
      BY <2>2
    <2>4. Knows("ftail", m)
      BY <2>1, <2>2, <2>3 DEF Knows
    <2> QED
      BY <1>1, <2>1, <2>3, <2>4, LapReadOnly DEF ReaderPlaces
  <1>3. CASE FlashTail
    <2>1. at[Reader] = "ftail" /\ Go(Reader, "floop", [loc[Reader] EXCEPT !.tail = tail])
      BY <1>3 DEF FlashTail, Step
    <2> QED
      BY <1>1, <2>1, LapReload DEF ReaderPlaces
  <1>4. CASE FlashLoop
    <2>1. at[Reader] = "floop" /\ at[Reader] \in ReaderPlaces
      BY <1>4 DEF FlashLoop, Step, ReaderPlaces
    <2>2. PICK r \in Locals : r = loc[Reader] /\ r.tail <= tail /\ r.head <= head
      BY <1>1, <2>1, LapFacts DEF Knows
    <2>3. CASE Go(Reader, "clear", r)
      <3>1. Knows("clear", r)
        BY <2>2 DEF Knows
      <3> QED
        BY <1>1, <2>1, <2>3, <3>1, LapReadOnly DEF ReaderPlaces
    <2>4. CASE Go(Reader, "floop", [r EXCEPT !.tail = tail])
      BY <1>1, <2>1, <2>2, <2>4, LapReload
    <2>5. CASE Go(Reader, "ftag", r) /\ r.tail < r.head
      <3>1. Knows("ftag", r)
        BY <2>2, <2>5 DEF Knows
      <3> QED
        BY <1>1, <2>1, <2>5, <3>1, LapReadOnly DEF ReaderPlaces
    <2> QED
      BY <1>4, <2>2, <2>3, <2>4, <2>5 DEF FlashLoop
  <1> QED
    BY <1>2, <1>3, <1>4

\* The search for a seal: what it stops at has not come out.
LEMMA LapTag ==
    ASSUME TypeInv, LapInv, FlashTag \/ Resync \/ Scan
    PROVE  LapInv'
  <1>1. /\ at[Reader] \in {"ftag", "resync", "scan"} /\ at[Reader] \in ReaderPlaces
        /\ Runs(Reader) /\ UNCHANGED <<ring, head, tail, placed, out>>
    BY DEF FlashTag, Resync, Scan, Step, ReaderPlaces, shared, history
  <1>2. PICK r \in Locals :
           /\ r = loc[Reader] /\ r.head <= head /\ r.tail \in Nat
           /\ Index(r.tail) \in 0 .. Words - 1 /\ Holding = {}
           /\ at[Reader] \in {"ftag", "resync"} => r.tail < r.head
           /\ at[Reader] = "ftag" => r.tail <= tail
    BY <1>1, LapFacts DEF Knows
  <1>3. ring[Index(r.tail)].tag = "SEAL" =>
           /\ ring[Index(r.tail)].rec # 0
           /\ \A j \in DOMAIN out : out[j].n # ring[Index(r.tail)].rec
    BY <1>1, <1>2, SealedWord
  <1>4. CASE FlashTag
    <2>1. at[Reader] = "ftag"
      BY <1>4 DEF FlashTag, Step
    <2>2. CASE Go(Reader, "fheader", r) /\ ring[Index(r.tail)].tag = "SEAL"
      <3>1. Knows("fheader", r)
        BY <1>2, <1>3, <2>1, <2>2 DEF Knows
      <3> QED
        BY <1>1, <2>2, <3>1, LapReadOnly DEF ReaderPlaces
    <2>3. CASE Go(Reader, "resync", r)
      <3>1. Knows("resync", r)
        BY <1>2, <2>1 DEF Knows
      <3> QED
        BY <1>1, <2>3, <3>1, LapReadOnly DEF ReaderPlaces
    <2> QED
      BY <1>2, <1>4, <2>2, <2>3 DEF FlashTag
  <1>5. CASE Resync
    <2>1. CASE Go(Reader, "floop", [r EXCEPT !.tail = tail])
      BY <1>1, <1>2, <2>1, LapReload
    <2>2. CASE Go(Reader, "scan", r)
      <3>1. Knows("scan", r)
        BY <1>2 DEF Knows
      <3> QED
        BY <1>1, <2>2, <3>1, LapReadOnly DEF ReaderPlaces
    <2> QED
      BY <1>2, <1>5, <2>1, <2>2 DEF Resync
  <1>6. CASE Scan
    <2>1. CASE Go(Reader, "clear", r)
      <3>1. Knows("clear", r)
        BY <1>2 DEF Knows
      <3> QED
        BY <1>1, <2>1, <3>1, LapReadOnly DEF ReaderPlaces
    <2>2. CASE Go(Reader, "recover", r) /\ ring[Index(r.tail)].tag = "SEAL" /\ r.tail < r.head
      <3>1. Knows("recover", r)
        BY <1>2, <1>3, <2>2 DEF Knows
      <3> QED
        BY <1>1, <2>2, <3>1, LapReadOnly DEF ReaderPlaces
    <2>3. CASE Go(Reader, "scan", [r EXCEPT !.tail = @ + 2])
      <3>1. PICK v \in Nat : v = r.tail + 2
        BY <1>2
      <3>2. PICK m \in Locals : m = [r EXCEPT !.tail = v] /\ m.head = r.head
        <4> DEFINE l == [r EXCEPT !.tail = v]
        <4>1. l \in Locals /\ l.head = r.head
          BY DEF Locals
        <4> HIDE DEF l
        <4> QED
          BY <4>1 DEF l
      <3>3. Go(Reader, "scan", m)
        BY <2>3, <3>1, <3>2
      <3>4. Knows("scan", m)
        BY <1>2, <3>2 DEF Knows
      <3> QED
        BY <1>1, <3>3, <3>4, LapReadOnly DEF ReaderPlaces
    <2> QED
      BY <1>2, <1>6, <2>1, <2>2, <2>3 DEF Scan
  <1> QED
    BY <1>4, <1>5, <1>6

\* log_flash moves tail: to the seal it has found, or past the record that came out.
LEMMA LapMoveTail ==
    ASSUME TypeInv, LapInv, Recover \/ Advance
    PROVE  LapInv'
  <1>1. /\ at[Reader] \in {"recover", "advance"} /\ at[Reader] \in ReaderPlaces
        /\ Runs(Reader) /\ UNCHANGED <<ring, head, placed, out>> /\ tail' = loc[Reader].tail
    BY DEF Recover, Advance, Step, ReaderPlaces, history
  <1>2. PICK r \in Locals :
           /\ r = loc[Reader] /\ r.head <= head /\ r.tail \in Nat /\ tail' = r.tail
           /\ at[Reader] = "recover" =>
                /\ r.tail < r.head /\ ring[Index(r.tail)].rec # 0
                /\ \A j \in DOMAIN out : out[j].n # ring[Index(r.tail)].rec
    BY <1>1, LapFacts DEF Knows
  <1>3. CASE Recover
    <2>1. at[Reader] = "recover" /\ Go(Reader, "fheader", r)
      BY <1>2, <1>3 DEF Recover, Step
    <2>2. Knows("fheader", r)'
      BY <1>1, <1>2, <2>1 DEF Knows, Index
    <2> QED
      BY <1>1, <2>1, <2>2, LapReadStep DEF ReaderPlaces
  <1>4. CASE Advance
    <2>1. Go(Reader, "floop", r)
      BY <1>2, <1>4 DEF Advance
    <2>2. Knows("floop", r)'
      BY <1>1, <1>2 DEF Knows
    <2> QED
      BY <1>1, <2>1, <2>2, LapReadStep DEF ReaderPlaces
  <1> QED
    BY <1>3, <1>4

\* The header that is read is that of the record whose seal tail is at, if tail is there still.
LEMMA LapHeader ==
    ASSUME TypeInv, LapInv, ReadHeader
    PROVE  LapInv'
  <1>1. /\ at[Reader] = "fheader" /\ at[Reader] \in ReaderPlaces /\ Runs(Reader)
        /\ UNCHANGED <<ring, head, tail, placed, out>>
    BY DEF ReadHeader, Step, ReaderPlaces, shared, history
  <1>2. PICK r \in Locals :
           /\ r = loc[Reader] /\ r.head <= head /\ r.tail \in Nat /\ r.head \in Nat
           /\ Index(r.tail) \in 0 .. Words - 1 /\ Holding = {}
           /\ r.tail < r.head /\ r.tail <= tail /\ tail \in Nat /\ head \in Nat /\ Words \in Nat
           /\ ring[Index(r.tail)].rec # 0
           /\ \A j \in DOMAIN out : out[j].n # ring[Index(r.tail)].rec
    BY <1>1, LapFacts DEF Knows
  <1>3. PICK i \in Records, d \in Nat :
           /\ i = ring[Index(r.tail)].rec /\ d < placed[i].size /\ Index(Pos(i) + d) = Index(r.tail)
    <2>1. ring[Index(r.tail)].k \in Nat
      BY <1>2 DEF TypeInv, TypeOK
    <2> QED
      BY <1>2, <2>1 DEF LapInv, LapOwner
  <1>4. /\ i \in Nat /\ i # 0 /\ placed[i].size \in Nat /\ placed[i].size >= 4 /\ Pos(i) \in Nat
    BY RecordFacts DEF LapInv
  <1>5. PICK w \in BOOLEAN, s \in Claims(r.tail) :
           /\ w <=> \A k \in 0 .. 2 : /\ ring[Index(r.tail + k)].rec = ring[Index(r.tail)].rec
                                      /\ ring[Index(r.tail + k)].k = k
           /\ Go(Reader, "recheck",
                 [r EXCEPT !.n = ring[Index(r.tail)].rec, !.size = s, !.whole = w])
    BY <1>2, Zenon DEF ReadHeader, Holds
  <1>6. s \in Nat
    BY <1>2, <1>5, ClaimTypes DEF TypeInv
  <1>7. PICK m \in Locals :
           /\ m = [r EXCEPT !.n = i, !.size = s, !.whole = w]
           /\ m.n = i /\ m.size = s /\ (w => m.whole) /\ m.tail = r.tail /\ m.head = r.head
    <2> DEFINE l == [r EXCEPT !.n = i, !.size = s, !.whole = w]
    <2>1. l \in Locals /\ l.n = i /\ l.size = s /\ l.tail = r.tail /\ l.head = r.head
      BY <1>4, <1>6 DEF Locals
    <2>2. w => l.whole
      BY DEF Locals
    <2> HIDE DEF l
    <2> QED
      BY <2>1, <2>2 DEF l
  <1>8. Go(Reader, "recheck", m)
    BY <1>3, <1>5, <1>7
  <1>9. ASSUME tail = r.tail, ring[Index(tail)].tag = "SEAL"
        PROVE  Complete(m)
    <2>1. /\ Alive(Pos(i)) /\ Index(Pos(i)) = Index(tail)
          /\ \A k \in 0 .. placed[i].size - 1 :
                ring[Index(Pos(i) + k)].rec = i /\ ring[Index(Pos(i) + k)].k = k
      BY <1>1, <1>2, <1>3, <1>9, SealedWord
    <2>2. \A k \in Nat : Index(Pos(i) + k) = Index(tail + k)
      BY <1>2, <1>4, <2>1, IndexShift
    <2>3. \A k \in 0 .. 2 : ring[Index(tail + k)].rec = i /\ ring[Index(tail + k)].k = k
      BY <1>4, <2>1, <2>2
    <2>4. w
      BY <1>3, <1>5, <1>9, <2>3
    <2>5. s = placed[i].size
      BY <1>4, <1>5, <1>9, <2>3 DEF Claims
    <2>6. tail <= Pos(i)
      <3>1. tail < Pos(i) + Words
        BY <1>2, <1>4, <1>9, <2>1 DEF Alive
      <3> QED
        BY <1>2, <1>4, <2>1, <3>1, Apart
    <2>7. m.whole
      BY <1>7, <2>4
    <2> QED
      BY <1>3, <1>7, <1>9, <2>1, <2>5, <2>6, <2>7 DEF Complete
  <1>10. \E k \in 0 .. placed[i].size - 1 : Index(Pos(i) + k) = Index(m.tail)
    BY <1>3, <1>4, <1>7
  <1>11. Knows("recheck", m)
    BY <1>2, <1>3, <1>7, <1>9, <1>10 DEF Knows
  <1> QED
    BY <1>1, <1>8, <1>11, LapReadOnly DEF ReaderPlaces

\* The text that is read is that record's too, as long as its seal is found again.
LEMMA LapText ==
    ASSUME TypeInv, LapInv, Recheck \/ ReadText
    PROVE  LapInv'
  <1>1. /\ at[Reader] \in {"recheck", "ftext"} /\ at[Reader] \in ReaderPlaces /\ Runs(Reader)
        /\ UNCHANGED <<ring, head, tail, placed, out>>
    BY DEF Recheck, ReadText, Step, ReaderPlaces, shared, history
  <1>2. PICK place \in {"recheck", "ftext"}, r \in Locals :
           /\ place = at[Reader] /\ r = loc[Reader] /\ Knows(place, r) /\ Holding = {}
           /\ r.tail \in Nat /\ tail \in Nat /\ Words \in Nat /\ r.size \in Nat
           /\ Index(r.tail) \in 0 .. Words - 1
    BY <1>1, LapFacts
  <1>3. CASE Recheck
    <2>1. CASE Go(Reader, "floop", [r EXCEPT !.tail = tail])
      BY <1>1, <1>2, <2>1, LapReload
    <2>2. CASE Go(Reader, "ftext", r)
      <3>1. Knows("ftext", r)
        BY <1>2 DEF Knows
      <3> QED
        BY <1>1, <2>2, <3>1, LapReadOnly DEF ReaderPlaces
    <2> QED
      BY <1>2, <1>3, <2>1, <2>2 DEF Recheck
  <1>4. CASE ReadText
    <2>1. PICK f \in BOOLEAN, w \in BOOLEAN :
             /\ w <=> r.whole /\ \A k \in 4 .. r.size - 1 : /\ ring[Index(r.tail + k)].rec = r.n
                                                             /\ ring[Index(r.tail + k)].k = k
             /\ Go(Reader, "verify", [r EXCEPT !.first = f, !.whole = w])
      BY <1>2, <1>4, Zenon DEF ReadText, Holds
    <2>2. PICK m \in Locals :
             /\ m = [r EXCEPT !.first = f, !.whole = w]
             /\ m.n = r.n /\ m.size = r.size /\ (w => m.whole) /\ m.tail = r.tail
             /\ m.head = r.head
      <3> DEFINE l == [r EXCEPT !.first = f, !.whole = w]
      <3>1. l \in Locals /\ l.n = r.n /\ l.size = r.size /\ l.tail = r.tail /\ l.head = r.head
        BY DEF Locals
      <3>2. w => l.whole
        BY DEF Locals
      <3> HIDE DEF l
      <3> QED
        BY <3>1, <3>2 DEF l
    <2>3. ASSUME tail = r.tail, ring[Index(tail)].tag = "SEAL"
          PROVE  Complete(m)
      <3>1. Complete(r)
        BY <1>2, <2>3 DEF Knows
      <3>2. PICK i \in Records :
               /\ i = r.n /\ Index(Pos(i)) = Index(tail) /\ placed[i].size = r.size
               /\ \A k \in 0 .. placed[i].size - 1 :
                     ring[Index(Pos(i) + k)].rec = i /\ ring[Index(Pos(i) + k)].k = k
        BY <1>1, <1>2, <2>3, <3>1, SealedWord DEF Complete
      <3>3. \A k \in Nat : Index(Pos(i) + k) = Index(tail + k)
        BY <1>2, <3>2, IndexShift, RecordTypes
      <3>4. \A k \in 4 .. r.size - 1 : ring[Index(r.tail + k)].rec = r.n
                                       /\ ring[Index(r.tail + k)].k = k
        BY <1>2, <2>3, <3>2, <3>3
      <3>5. w
        BY <2>1, <3>1, <3>4 DEF Complete
      <3>6. m.whole
        BY <2>2, <3>5
      <3> QED
        BY <2>2, <3>1, <3>6 DEF Complete
    <2>4. Knows("verify", m)
      BY <1>2, <2>2, <2>3 DEF Knows
    <2> QED
      BY <1>1, <2>1, <2>2, <2>4, LapReadOnly DEF ReaderPlaces
  <1> QED
    BY <1>3, <1>4

\* What comes out is not sealed any more, or is the record that is freed next.
LEMMA LapDeliver ==
    ASSUME TypeInv, LapInv, Deliver
    PROVE  LapInv'
  <1>1. /\ at[Reader] = "verify" /\ at[Reader] \in ReaderPlaces /\ Runs(Reader)
        /\ UNCHANGED <<ring, head, tail, placed>>
    BY DEF Deliver, Step, ReaderPlaces, shared
  <1>2. PICK r \in Locals :
           /\ r = loc[Reader] /\ Knows("verify", r) /\ r.head <= head
           /\ r.n \in Records /\ r.tail \in Nat /\ Index(r.tail) \in 0 .. Words - 1
           /\ \E k \in 0 .. placed[r.n].size - 1 : Index(Pos(r.n) + k) = Index(r.tail)
           /\ \A j \in DOMAIN out : out[j].n # r.n
    BY <1>1, LapFacts DEF Knows
  <1>3. CASE Go(Reader, "floop", [r EXCEPT !.tail = tail]) /\ UNCHANGED out
    BY <1>1, <1>2, <1>3, LapReload
  <1>4. ASSUME ring[Index(r.tail)].tag = "SEAL", Go(Reader, "free", r),
               NEW kept \in BOOLEAN, kept <=> tail = r.tail,
               out' = Append(out, [n |-> r.n, whole |-> r.whole, first |-> r.first,
                                   kept |-> kept])
        PROVE  LapInv'
    <2>1. /\ at'[Reader] = "free" /\ loc'[Reader] = r
          /\ Logging = {} /\ Holding = {} /\ Logging' = {} /\ Holding' = {}
      BY <1>1, <1>2, <1>4, ReaderAlone DEF ReaderPlaces
    <2>2. Ordered' /\ LapContent' /\ LapOwner' /\ LapSeal'
      BY <1>1, <2>1, LapRingSame
    <2>3. LapRead'
      <3>1. r.head <= head'
        BY <1>1, <1>2
      <3>2. PICK l : l = r
        OBVIOUS
      <3>3. Knows("free", l)'
        BY <3>1, <3>2 DEF Knows
      <3> QED
        BY <2>1, <3>2, <3>3 DEF LapRead
    \* the record whose words are at tail is the one that was read, or that one is gone
    <2>4. Alive(Pos(r.n)) => Index(Pos(r.n)) = Index(r.tail)
      <3>1. PICK i \in Records :
               /\ i = ring[Index(r.tail)].rec /\ ring[Index(r.tail)].k = 0
               /\ Index(Pos(i)) = Index(r.tail)
        BY <1>1, <1>2, <1>4, <2>1, SealedWord DEF LapInv, LapSeal
      <3>2. PICK k \in 0 .. placed[r.n].size - 1 : Index(Pos(r.n) + k) = Index(r.tail)
        BY <1>2
      <3>3. Alive(Pos(r.n)) => Alive(Pos(r.n) + k)
        BY <1>2, <3>2, RecordFacts DEF LapInv
      <3>4. Written(r.n, k)
        BY <2>1 DEF Written
      <3>5. Alive(Pos(r.n)) => ring[Index(r.tail)].rec = r.n
        BY <1>2, <3>2, <3>3, <3>4 DEF LapInv, LapContent
      <3> QED
        BY <3>1, <3>5
    <2>5. kept => r.whole
      BY <1>2, <1>4 DEF Knows, Complete
    <2>6. LapOut'
      <3> DEFINE o == [n |-> r.n, whole |-> r.whole, first |-> r.first, kept |-> kept]
                 R == [n : Nat, whole : BOOLEAN, first : BOOLEAN, kept : BOOLEAN]
      <3>1. out \in Seq(R) /\ o \in R
        BY DEF TypeInv, TypeOK, Locals
      <3>2. o.n = r.n
        OBVIOUS
      <3>3. o.kept => o.whole
        BY <2>5, Zenon
      <3>4. out' = Append(out, o)
        BY <1>4
      <3> HIDE DEF o, R
      <3>5. PICK N \in Nat : N = Len(out) + 1 /\ DOMAIN out' = (DOMAIN out) \cup {N}
                            /\ N \notin DOMAIN out /\ out'[N] = o
                            /\ \A j \in DOMAIN out : out'[j] = out[j]
        BY <3>1, <3>4
      <3>6. Gone(r.n)'
        BY <1>1, <2>1, <2>4 DEF Gone, Alive, Pos, Index
      <3>7. ASSUME NEW j \in DOMAIN out
            PROVE  \E n \in Records : n = out[j].n /\ Gone(n)' /\ (out[j].kept => out[j].whole)
        <4>1. out[j].n \in Records /\ Gone(out[j].n) /\ (out[j].kept => out[j].whole)
          BY DEF LapInv, LapOut
        <4>2. PICK n \in Records : n = out[j].n
          BY <4>1
        <4>3. Gone(n)'
          BY <1>1, <4>1, <4>2 DEF Gone, Alive, Pos, Index
        <4> QED
          BY <4>1, <4>2, <4>3
      <3>8. ASSUME NEW j \in DOMAIN out'
            PROVE  /\ out'[j].n \in Records /\ (out'[j].kept => out'[j].whole)
                   /\ Gone(out[j].n)'
        <4>1. PICK n \in Records : n = out'[j].n /\ Gone(n)' /\ (out'[j].kept => out'[j].whole)
          <5>1. CASE j = N
            BY <1>2, <3>2, <3>3, <3>5, <3>6, <5>1
          <5>2. CASE j \in DOMAIN out
            BY <3>5, <3>7, <5>2
          <5> QED
            BY <3>5, <5>1, <5>2
        <4> QED
          BY <4>1
      <3>9. \A i, j \in DOMAIN out' : out'[i].n = out'[j].n => i = j
        <4>1. \A i, j \in DOMAIN out : out[i].n = out[j].n => i = j
          BY DEF LapInv, LapOut
        <4> QED
          BY <1>2, <3>2, <3>5, <4>1
      <3> QED
        BY <1>1, <2>1, <3>8, <3>9 DEF LapOut, Records
    <2> QED
      BY <2>1, <2>2, <2>3, <2>6 DEF LapInv
  <1>5. (tail = r.tail) \in BOOLEAN
    OBVIOUS
  <1> QED
    BY <1>2, <1>3, <1>4, <1>5 DEF Deliver

\* The record that came out is not sealed any more.
LEMMA LapFree ==
    ASSUME TypeInv, LapInv, Free
    PROVE  LapInv'
  <1>1. /\ at[Reader] = "free" /\ at[Reader] \in ReaderPlaces /\ Runs(Reader)
        /\ ring' = [ring EXCEPT ![Index(loc[Reader].tail)].tag = "FREE"]
        /\ Go(Reader, "pending", loc[Reader]) /\ UNCHANGED <<head, tail, placed, out>>
    BY DEF Free, Step, ReaderPlaces, history
  <1>2. PICK r \in Locals :
           r = loc[Reader] /\ r.head <= head /\ Index(r.tail) \in 0 .. Words - 1
    BY <1>1, LapFacts DEF Knows
  <1>3. /\ at'[Reader] = "pending" /\ loc'[Reader] = r
        /\ Logging = {} /\ Holding = {} /\ Logging' = {} /\ Holding' = {}
    BY <1>1, <1>2, ReaderAlone DEF ReaderPlaces
  <1>4. /\ Records' = Records /\ \A i \in Records : Pos(i)' = Pos(i) /\ End(i)' = End(i)
        /\ \A p : Alive(p)' <=> Alive(p)
    BY <1>1 DEF Records, Pos, End, Alive
  <1>5. \A i, k : Written(i, k)' <=> Written(i, k)
    BY <1>3 DEF Written
  <1>6. /\ \A x \in 0 .. Words - 1 : /\ ring'[x].rec = ring[x].rec /\ ring'[x].k = ring[x].k
                                     /\ ring'[x].tag = "SEAL" => ring[x].tag = "SEAL"
        /\ ring'[Index(r.tail)].tag = "FREE"
    BY <1>1, <1>2 DEF TypeInv, TypeOK
  <1>7. Ordered'
    BY <1>1, <1>4 DEF LapInv, Ordered
  <1>8. LapContent'
    <2> SUFFICES ASSUME NEW i \in Records, NEW k \in 0 .. placed[i].size - 1,
                        Alive(Pos(i) + k), Written(i, k)
                 PROVE  ring'[Index(Pos(i) + k)].rec = i /\ ring'[Index(Pos(i) + k)].k = k
      BY <1>1, <1>4, <1>5 DEF LapContent, Records, Pos, Index, Alive
    <2>1. Index(Pos(i) + k) \in 0 .. Words - 1
      BY RecordFacts DEF LapInv
    <2> QED
      BY <1>6, <2>1 DEF LapInv, LapContent
  <1>9. LapOwner'
    BY <1>1, <1>4, <1>6 DEF LapInv, LapOwner
  <1>10. LapSeal'
    <2>1. \A x \in 0 .. Words - 1 : ring[x].tag = "SEAL" =>
             ring[x].rec # 0 /\ ring[x].k = 0 /\ Alive(Pos(ring[x].rec))
      BY <1>3 DEF LapInv, LapSeal
    <2> QED
      BY <1>1, <1>4, <1>6, <2>1 DEF LapSeal, Pos, Alive
  <1>11. LapOut'
    <2>1. ASSUME NEW n \in Records, Gone(n) PROVE Gone(n)'
      <3>1. Index(Pos(n)) \in 0 .. Words - 1
        BY RecordFacts DEF LapInv
      <3> QED
        BY <1>1, <1>2, <1>6, <2>1, <3>1 DEF Gone, Pos, Index, Alive
    <2> QED
      BY <1>1, <1>3, <2>1 DEF LapInv, LapOut, Records
  <1>12. LapRead'
    <2>1. PICK l : l = r
      OBVIOUS
    <2>2. Knows("pending", l)'
      BY <1>1, <1>2, <2>1 DEF Knows
    <2> QED
      BY <1>3, <2>1, <2>2 DEF LapRead
  <1> QED
    BY <1>3, <1>7, <1>8, <1>9, <1>10, <1>11, <1>12 DEF LapInv

LEMMA LapEnd ==
    ASSUME TypeInv, LapInv, Pending \/ ClearDirty
    PROVE  LapInv'
  <1>1. /\ at[Reader] \in {"pending", "clear"} /\ at[Reader] \in ReaderPlaces /\ Runs(Reader)
        /\ UNCHANGED <<ring, head, tail, placed, out>>
    BY DEF Pending, ClearDirty, Step, ReaderPlaces, shared, history
  <1>2. PICK r \in Locals :
           r = loc[Reader] /\ r.head <= head /\ r.tail \in Nat /\ r.size \in Nat
    BY <1>1, LapFacts DEF Knows
  <1>3. CASE Pending
    <2>1. CASE Go(Reader, "floop", [r EXCEPT !.tail = tail])
      BY <1>1, <1>2, <2>1, LapReload
    <2>2. CASE Go(Reader, "advance", [r EXCEPT !.tail = @ + r.size])
      <3>1. PICK v \in Nat : v = r.tail + r.size
        BY <1>2
      <3>2. PICK m \in Locals : m = [r EXCEPT !.tail = v] /\ m.head = r.head
        <4> DEFINE l == [r EXCEPT !.tail = v]
        <4>1. l \in Locals /\ l.head = r.head
          BY DEF Locals
        <4> HIDE DEF l
        <4> QED
          BY <4>1 DEF l
      <3>3. Go(Reader, "advance", m)
        BY <2>2, <3>1, <3>2
      <3>4. Knows("advance", m)
        BY <1>2, <3>2 DEF Knows
      <3> QED
        BY <1>1, <3>3, <3>4, LapReadOnly DEF ReaderPlaces
    <2> QED
      BY <1>2, <1>3, <2>1, <2>2 DEF Pending
  <1>4. CASE ClearDirty
    <2>1. Go(Reader, "idle", NoLocals) /\ NoLocals \in Locals
      BY <1>4 DEF ClearDirty, NoLocals, Locals
    <2> QED
      BY <1>1, <2>1, LapReadOnly DEF ReaderPlaces
  <1> QED
    BY <1>3, <1>4

LEMMA LapInit == Init => TypeInv /\ LapInv
  <1> SUFFICES ASSUME Init PROVE TypeInv /\ LapInv
    OBVIOUS
  <1>1. TypeInv
    BY InitTypes
  <1>2. /\ head = 0 /\ placed = <<>> /\ out = <<>> /\ \A x \in 0 .. Words - 1 : ring[x] = Blank
        /\ \A t \in Threads : at[t] = "idle"
    BY DEF Init
  <1>3. Records = {} /\ DOMAIN out = {} /\ Logging = {} /\ ~Reading
    BY <1>2, WordsFacts DEF Records, Logging, Reading, ReaderPlaces
  <1>4. LapOwner /\ LapSeal
    BY <1>2 DEF LapOwner, LapSeal, Blank, Word
  <1> QED
    BY <1>1, <1>3, <1>4 DEF LapInv, Ordered, LapContent, LapOut

LEMMA LapNext == "SEAL" \notin Stamps /\ TypeInv /\ LapInv /\ [Next]_vars => (TypeInv /\ LapInv)'
  <1> SUFFICES ASSUME "SEAL" \notin Stamps, TypeInv, LapInv, [Next]_vars PROVE LapInv'
    BY NextTypes
  <1>1. CASE UNCHANGED vars
    <2>1. UNCHANGED <<ring, head, tail, at, loc, placed, out>>
      BY <1>1 DEF vars, shared, history
    <2>2. /\ Logging' = Logging /\ Unreserved' = Unreserved /\ Holding' = Holding
          /\ (Reading' <=> Reading) /\ Booked' = Booked
      BY <2>1 DEF Logging, Unreserved, Holding, Reading, Booked, Wanted
    <2>3. /\ Records' = Records /\ \A i \in Records : Pos(i)' = Pos(i) /\ End(i)' = End(i)
      BY <2>1 DEF Records, Pos, End
    <2>4. Ordered' /\ LapContent' /\ LapOwner' /\ LapSeal'
      BY <2>1, <2>2, LapRingSame, CallSets
    <2>5. ASSUME NEW t \in Logging PROVE LapCall(t)'
      <3>1. LapCall(t)
        BY DEF LapInv
      <3>2. t \in Holding => HoldInv(t)'
        BY <2>1, <2>2, <2>3, <3>1 DEF LapCall, HoldInv
      <3>3. End(loc[t].n)' = End(loc[t].n)
        BY <2>1 DEF End
      <3> QED
        BY <2>1, <2>2, <3>1, <3>2, <3>3 DEF LapCall
    <2>6. LapOut'
      <3>1. \A n \in Records : Gone(n) => Gone(n)'
        BY <2>1 DEF Gone, Pos, Index, Alive
      <3> QED
        BY <2>1, <2>2, <2>3, <3>1 DEF LapInv, LapOut
    <2>7. ASSUME Reading PROVE LapRead'
      <3>1. PICK place, r : place = at[Reader] /\ r = loc[Reader]
        OBVIOUS
      <3>2. Knows(place, r)'
        BY <2>1, <2>7, <3>1, KnowsSame DEF LapInv, LapRead
      <3> QED
        BY <2>1, <2>2, <2>7, <3>1, <3>2 DEF LapInv, LapRead
    <2> QED
      BY <2>2, <2>4, <2>5, <2>6, <2>7 DEF LapInv
  <1>2. ASSUME NEW t \in Writers, NEW size \in Sizes, Dispatch(t, size) PROVE LapInv'
    BY <1>2, LapDispatch
  <1>3. ASSUME NEW t \in Writers, WriterStep(t) PROVE LapInv'
    <2>1. CASE Announce(t)
      <3>1. /\ at[t] = "announce" /\ Go(t, "idle", NoLocals)
            /\ UNCHANGED <<ring, head, tail, placed, out>>
        BY <2>1 DEF Announce, Step, history
      <3> QED
        BY <3>1, LapLeave
    <2> QED
      BY <1>3, <2>1, LapLoadHead, LapLook, LapDrop, LapReserve, LapReloadTail, LapWrite
         DEF WriterStep
  <1>4. CASE Flash \/ ReaderStep
    BY <1>4, LapFlash, LapTag, LapMoveTail, LapHeader, LapText, LapDeliver, LapFree, LapEnd
       DEF ReaderStep
  <1> QED
    BY <1>1, <1>2, <1>3, <1>4 DEF Next

LEMMA LapAlways == ASSUME "SEAL" \notin Stamps PROVE Spec => [](TypeInv /\ LapInv)
  <1>1. TypeInv /\ LapInv /\ [Next]_vars => (TypeInv /\ LapInv)'
    BY LapNext
  <1> QED
    BY LapInit, <1>1, PTL DEF Spec

(***************************************************************************)
(* However far the writers drop records under log_flash: a record that     *)
(* log_ring.tail has not left when log_flash puts it out comes out whole,  *)
(* and no record comes out twice.  Either no low byte of a timestamp looks *)
(* like the seal, or what is logged beside log_flash fits the ring; with   *)
(* neither it is false.                                                    *)
(***************************************************************************)
THEOREM KeptAlwaysWhole ==
    ASSUME "SEAL" \notin Stamps \/ ~Overrun
    PROVE  Spec => []KeptWholeOnce
  <1>1. CASE "SEAL" \notin Stamps
    <2>1. TypeInv /\ LapInv => KeptWholeOnce
      <3> SUFFICES ASSUME TypeInv, LapInv PROVE KeptWholeOnce
        OBVIOUS
      <3>1. 0 \notin Records
        BY RecordTypes
      <3> QED
        BY <3>1 DEF LapInv, LapOut, KeptWholeOnce
    <2>2. Spec => [](TypeInv /\ LapInv)
      BY <1>1, LapAlways
    <2> QED
      BY <2>1, <2>2, PTL
  <1>2. CASE ~Overrun
    <2>1. WholeOnce => KeptWholeOnce
      BY DEF WholeOnce, KeptWholeOnce
    <2>2. Spec => []WholeOnce
      BY <1>2, OutWholeOnce
    <2> QED
      BY <2>1, <2>2, PTL
  <1> QED
    BY <1>1, <1>2

-----------------------------------------------------------------------------
(* The ring is the abstract log *)

\* Every word that was ever reserved belongs to a record.
Covered == \A p \in 0 .. head - 1 : \E i \in Records : Pos(i) <= p /\ p < End(i)

\* A call that is about to drop a record has no room.
Pressed ==
    \A t \in Writers :
       at[t] \in {"drop", "skip"} => loc[t].head + loc[t].size - loc[t].tail > Words

\* Of what came out tail has passed all but the last, which is being freed.
Freeing == {"free", "pending", "advance"}
FreedLast ==
    /\ \A j \in DOMAIN out : Pos(out[j].n) >= tail => j = Len(out)
    /\ at[Reader] \in Freeing => Len(out) # 0 /\ out[Len(out)].n = loc[Reader].n

\* What tail has passed came out or was dropped.
Counted == Passed = Freed + drops

QueueInv == Covered /\ Pressed /\ FreedLast /\ Counted

\* The records behind the first m, and the numbers of the first f that came out.
Behind(pl, m) == [k \in 1 .. Len(pl) - m |-> [n |-> m + k, size |-> pl[m + k].size]]
Numbers(o, f) == [j \in 1 .. f |-> o[j].n]

LEMMA CountFirst ==
    ASSUME NEW n \in Nat, NEW m \in Nat, m <= n, NEW S, \A i : i \in S <=> i \in 1 .. n /\ i <= m
    PROVE  Cardinality(S) = m
  <1>1. S = 1 .. m
    <2>1. \A i : i \in 1 .. n /\ i <= m <=> i \in 1 .. m
      OBVIOUS
    <2>2. \A i : i \in S <=> i \in 1 .. m
      BY <2>1
    <2> QED
      BY <2>2
  <1>2. Cardinality(1 .. m) = IF 1 > m THEN 0 ELSE (m - 1) + 1
    BY FS_Interval
  <1> QED
    BY <1>1, <1>2

\* Tail passes the records in order.
LEMMA PassedFacts ==
    ASSUME TypeInv, LogInv
    PROVE  /\ Passed \in Nat /\ Passed <= Len(placed) /\ Len(placed) \in Nat
           /\ \A i \in Records : i <= Passed <=> Pos(i) < tail
  <1>1. /\ Len(placed) \in Nat /\ Records = 1 .. Len(placed) /\ tail \in Nat /\ head \in Nat
        /\ \A i \in Records : /\ Pos(i) \in Nat /\ Pos(i) < End(i) /\ End(i) <= head
                              /\ End(i) \in Nat
        /\ \A i, j \in Records : i < j => End(i) <= Pos(j)
    <2>1. \A i \in Records : Pos(i) < End(i) /\ End(i) \in Nat
      BY RecordTypes
    <2> QED
      BY <2>1, RecordTypes DEF LogInv, PlacedInv
  <1>2. PICK m \in Nat : m <= Len(placed) /\ \A i \in Records : i <= m <=> Pos(i) < tail
    <2>1. CASE tail = head
      <3>1. \A i \in Records : i <= Len(placed) /\ Pos(i) < tail
        BY <1>1, <2>1
      <3>2. PICK m \in Nat : m = Len(placed)
        BY <1>1
      <3>3. m <= Len(placed) /\ \A i \in Records : i <= m <=> Pos(i) < tail
        BY <3>1, <3>2
      <3> QED
        BY <3>3
    <2>2. ASSUME NEW j \in Records, Pos(j) = tail
          PROVE  \E m \in Nat : m <= Len(placed) /\ \A i \in Records : i <= m <=> Pos(i) < tail
      <3>1. \A i \in Records : i < j => Pos(i) < tail
        BY <1>1, <2>2
      <3>2. \A i \in Records : j < i => ~(Pos(i) < tail)
        BY <1>1, <2>2
      <3>3. PICK m \in Nat : m + 1 = j /\ m <= Len(placed)
        <4>1. j \in 1 .. Len(placed)
          BY <1>1
        <4>2. j - 1 \in Nat /\ (j - 1) + 1 = j /\ j - 1 <= Len(placed)
          BY <1>1, <4>1
        <4> QED
          BY <4>2
      <3>4. \A i \in Nat : i <= m <=> i < j
        BY <3>3
      <3>5. \A i \in Records : i \in Nat
        BY <1>1
      <3>6. ASSUME NEW i \in Records PROVE i <= m <=> Pos(i) < tail
        <4>1. i \in Nat /\ j \in Nat
          BY <3>5
        <4>2. CASE i < j
          BY <3>1, <3>4, <4>1, <4>2
        <4>3. CASE i = j
          <5>1. ~(i <= m)
            BY <3>4, <4>1, <4>3
          <5>2. ~(Pos(i) < tail)
            BY <1>1, <2>2, <4>3
          <5> QED
            BY <5>1, <5>2
        <4>4. CASE j < i
          <5>1. ~(i <= m)
            BY <3>4, <4>1, <4>4
          <5> QED
            BY <3>2, <4>4, <5>1
        <4> QED
          BY <4>1, <4>2, <4>3, <4>4
      <3> QED
        BY <3>3, <3>6
    <2> QED
      BY <2>1, <2>2 DEF LogInv, SpanInv, Boundary
  <1>3. Passed = m
    <2> DEFINE S == { i \in DOMAIN placed : placed[i].pos < tail }
    <2>1. \A i : i \in S <=> i \in 1 .. Len(placed) /\ i <= m
      BY <1>1, <1>2 DEF Records, Pos
    <2> HIDE DEF S
    <2>2. Cardinality(S) = m
      BY <1>1, <1>2, <2>1, CountFirst
    <2> QED
      BY <2>2 DEF Passed, S
  <1> QED
    BY <1>1, <1>2, <1>3

LEMMA FreedFacts ==
    ASSUME TypeInv, LogInv, FreedLast
    PROVE  /\ Freed \in Nat /\ Freed <= Len(out) /\ Len(out) \in Nat /\ DOMAIN out = 1 .. Len(out)
           /\ \A j \in DOMAIN out : /\ out[j].n \in Records /\ out[j].n # 0
                                    /\ j <= Freed <=> Pos(out[j].n) < tail
  <1>1. Len(out) \in Nat /\ DOMAIN out = 1 .. Len(out)
    BY DEF TypeInv, TypeOK
  <1>2. \A j \in DOMAIN out : out[j].n \in Records /\ out[j].n # 0
    <2>1. 0 \notin Records
      BY RecordTypes
    <2> QED
      BY <2>1 DEF LogInv, OutInv
  <1>3. \A j \in DOMAIN out : Pos(out[j].n) \in Nat /\ tail \in Nat
    BY <1>2, RecordTypes
  <1>4. PICK f \in Nat : f <= Len(out) /\ \A j \in DOMAIN out : j <= f <=> Pos(out[j].n) < tail
    <2>1. CASE \A j \in DOMAIN out : Pos(out[j].n) < tail
      <3>1. \A j \in DOMAIN out : j <= Len(out)
        BY <1>1
      <3> QED
        BY <1>1, <2>1, <3>1
    <2>2. ASSUME NEW j \in DOMAIN out, ~(Pos(out[j].n) < tail)
          PROVE  \E f \in Nat : f <= Len(out) /\ \A i \in DOMAIN out : i <= f <=> Pos(out[i].n) < tail
      <3>1. j = Len(out)
        BY <1>3, <2>2 DEF FreedLast
      <3>2. \A i \in DOMAIN out : i # j => Pos(out[i].n) < tail
        BY <1>3, <3>1 DEF FreedLast
      <3>3. PICK f \in Nat : f + 1 = j /\ f <= Len(out)
        <4>1. j - 1 \in Nat /\ (j - 1) + 1 = j /\ j - 1 <= Len(out)
          BY <1>1, <3>1
        <4> QED
          BY <4>1
      <3>4. \A i \in DOMAIN out : i <= f <=> i # j
        BY <1>1, <3>1, <3>3
      <3> QED
        BY <2>2, <3>2, <3>3, <3>4
    <2> QED
      BY <2>1, <2>2
  <1>5. Freed = f
    <2> DEFINE S == { j \in DOMAIN out : out[j].n # 0 /\ placed[out[j].n].pos < tail }
    <2>1. \A j : j \in S <=> j \in 1 .. Len(out) /\ j <= f
      BY <1>1, <1>2, <1>4 DEF Pos
    <2> HIDE DEF S
    <2>2. Cardinality(S) = f
      BY <1>1, <1>4, <2>1, CountFirst
    <2> QED
      BY <2>2 DEF Freed, S
  <1> QED
    BY <1>1, <1>2, <1>4, <1>5

\* The records kept fill the ring from tail to head.
LEMMA UsedIs ==
    ASSUME TypeInv, LogInv, Covered
    PROVE  Log!Used = head - tail
  <1> DEFINE W == Log!WordsKept
             T == tail .. head - 1
             f == [w \in W |-> Pos(Passed + w[1]) + w[2] - 1]
  <1>1. PICK m : m = Passed
    OBVIOUS
  <1>2. /\ m \in Nat /\ m <= Len(placed) /\ Len(placed) \in Nat
        /\ \A i \in Records : i <= m <=> Pos(i) < tail
    BY <1>1, PassedFacts
  <1>3. /\ head \in Nat /\ tail \in Nat /\ tail <= head /\ Records = 1 .. Len(placed) /\ Words \in Nat
        /\ \A i \in Records : /\ Pos(i) \in Nat /\ placed[i].size \in Nat /\ placed[i].size <= Words
                              /\ End(i) = Pos(i) + placed[i].size /\ End(i) <= head
        /\ \A i, j \in Records : i < j => End(i) <= Pos(j)
    BY RecordTypes, WordsFacts DEF LogInv, PlacedInv, SpanInv
  <1>4. ASSUME NEW k \in 1 .. Len(placed) - m
        PROVE  m + k \in Records /\ Pos(m + k) >= tail
    <2>1. m + k \in Records /\ ~(m + k <= m)
      BY <1>2, <1>3
    <2> QED
      BY <1>2, <1>3, <2>1
  <1>5. \A w : w \in W <=> \E k \in 1 .. Len(placed) - m, x \in 1 .. Words :
                             w = <<k, x>> /\ x <= placed[m + k].size
    BY <1>1 DEF Log!WordsKept, PendingRecords
  <1>6. f = [w \in W |-> Pos(m + w[1]) + w[2] - 1]
    BY <1>1
  <1> HIDE DEF W, f
  <1>7. ASSUME NEW k \in 1 .. Len(placed) - m, NEW x \in 1 .. Words, x <= placed[m + k].size
        PROVE  f[<<k, x>>] = Pos(m + k) + x - 1 /\ f[<<k, x>>] \in T
    <2>1. <<k, x>> \in W
      BY <1>5, <1>7
    <2>2. f[<<k, x>>] = Pos(m + k) + x - 1
      BY <1>6, <2>1
    <2>3. PICK p, z : p = Pos(m + k) /\ z = placed[m + k].size
      OBVIOUS
    <2>4. p \in Nat /\ z \in Nat /\ p >= tail /\ p + z <= head
      BY <1>3, <1>4, <2>3
    <2>5. p + x - 1 \in T
      BY <1>3, <1>7, <2>3, <2>4
    <2> QED
      BY <2>2, <2>3, <2>5
  <1>8. ASSUME NEW k \in 1 .. Len(placed) - m, NEW x \in 1 .. Words, x <= placed[m + k].size,
               NEW j \in 1 .. Len(placed) - m, NEW y \in 1 .. Words, y <= placed[m + j].size,
               f[<<k, x>>] = f[<<j, y>>], k < j
        PROVE  FALSE
    <2>1. Pos(m + k) + x - 1 = Pos(m + j) + y - 1
      BY <1>7, <1>8
    <2>2. m + k < m + j /\ m + k \in Records /\ m + j \in Records
      BY <1>2, <1>4, <1>8
    <2>3. PICK p, z, q : p = Pos(m + k) /\ z = placed[m + k].size /\ q = Pos(m + j)
      OBVIOUS
    <2>4. p \in Nat /\ z \in Nat /\ q \in Nat /\ p + z <= q /\ x <= z /\ p + x - 1 = q + y - 1
      BY <1>3, <1>8, <2>1, <2>2, <2>3
    <2> QED
      BY <2>4
  <1>9. f \in Injection(W, T)
    <2>1. f \in [W -> T]
      <3>1. \A w \in W : f[w] \in T
        BY <1>5, <1>7
      <3>2. f = [w \in W |-> f[w]]
        BY <1>6
      <3> HIDE DEF T
      <3> QED
        BY <3>1, <3>2
    <2>2. ASSUME NEW v \in W, NEW w \in W, f[v] = f[w] PROVE v = w
      <3>1. PICK k \in 1 .. Len(placed) - m, x \in 1 .. Words : v = <<k, x>> /\ x <= placed[m + k].size
        BY <1>5
      <3>2. PICK j \in 1 .. Len(placed) - m, y \in 1 .. Words : w = <<j, y>> /\ y <= placed[m + j].size
        BY <1>5
      <3>3. ~(k < j) /\ ~(j < k)
        BY <1>8, <2>2, <3>1, <3>2
      <3>4. k = j
        BY <1>2, <3>3
      <3>5. Pos(m + k) + x - 1 = Pos(m + k) + y - 1 /\ Pos(m + k) \in Nat
        BY <1>3, <1>4, <1>7, <2>2, <3>1, <3>2, <3>4
      <3>6. x = y
        BY <3>5
      <3> QED
        BY <3>1, <3>2, <3>4, <3>6
    <2>3. IsInjective(f)
      <3>1. DOMAIN f = W
        BY <1>6
      <3> QED
        BY <2>2, <3>1 DEF IsInjective
    <2> QED
      BY <2>1, <2>3 DEF Injection
  <1>10. ASSUME NEW q \in T PROVE \E w \in W : f[w] = q
    <2>1. q \in Nat /\ tail <= q /\ q \in 0 .. head - 1
      BY <1>3
    <2>2. PICK i \in Records : Pos(i) <= q /\ q < End(i)
      BY <2>1 DEF Covered
    <2>3. ~(Pos(i) < tail)
      <3>1. Pos(i) < tail => End(i) <= tail
        BY <1>3, NextBoundary DEF LogInv, SpanInv
      <3>2. End(i) \in Nat
        BY <1>3
      <3> QED
        BY <1>3, <2>1, <2>2, <3>1, <3>2
    <2>4. PICK k \in 1 .. Len(placed) - m : m + k = i
      <3>1. i \in 1 .. Len(placed) /\ ~(i <= m)
        BY <1>2, <1>3, <2>3
      <3>2. i - m \in 1 .. Len(placed) - m /\ m + (i - m) = i
        BY <1>2, <3>1
      <3> QED
        BY <3>2
    <2>5. PICK x \in 1 .. Words : x <= placed[m + k].size /\ Pos(m + k) + x - 1 = q
      <3>1. PICK p, z : p = Pos(i) /\ z = placed[i].size
        OBVIOUS
      <3>2. p \in Nat /\ z \in Nat /\ z <= Words /\ p <= q /\ q < p + z
        BY <1>3, <2>2, <3>1
      <3>3. q - p + 1 \in 1 .. Words /\ q - p + 1 <= z /\ p + (q - p + 1) - 1 = q
        BY <1>3, <2>1, <3>2
      <3> QED
        BY <2>4, <3>1, <3>3
    <2>6. <<k, x>> \in W
      BY <1>5, <2>5
    <2> QED
      BY <1>7, <2>5, <2>6
  <1>11. f \in Surjection(W, T)
    BY <1>9, <1>10 DEF Surjection, Injection
  <1>12. IsFiniteSet(T) /\ Cardinality(T) = head - tail
    <2>1. head - 1 \in Int /\ tail \in Int
      BY <1>3
    <2>2. IsFiniteSet(T) /\ Cardinality(T) = IF tail > head - 1 THEN 0 ELSE (head - 1) - tail + 1
      BY <2>1, FS_Interval
    <2> QED
      BY <1>3, <2>2
  <1>13. Cardinality(W) = Cardinality(T)
    <2> HIDE DEF T
    <2> QED
      BY <1>9, <1>11, <1>12, FS_Injection
  <1> QED
    BY <1>12, <1>13 DEF W, Log!Used, Log!Cardinality, Cardinality

\* What is behind the first m: one record for every one placed after them.
LEMMA BehindFacts ==
    ASSUME NEW R, NEW pl \in Seq([size : R, pos : Nat]), NEW m \in Nat, m <= Len(pl)
    PROVE  /\ Behind(pl, m) \in Seq([n : Nat, size : R]) /\ Len(Behind(pl, m)) = Len(pl) - m
           /\ Len(pl) \in Nat /\ Len(pl) - m \in Nat
           /\ \A k \in 1 .. Len(pl) - m : Behind(pl, m)[k] = [n |-> m + k, size |-> pl[m + k].size]
  <1> DEFINE Q == [size : R, pos : Nat]
             N == Len(pl) - m
  <1>1. pl \in Seq(Q)
    OBVIOUS
  <1> HIDE DEF Q
  <1>2. Len(pl) \in Nat /\ N \in Nat /\ \A k \in 1 .. N : m + k \in 1 .. Len(pl)
    BY <1>1
  <1>3. \A i \in 1 .. Len(pl) : pl[i] \in Q
    BY <1>1
  <1>4. \A i \in 1 .. Len(pl) : pl[i].size \in R
    BY <1>3 DEF Q
  <1>5. \A k \in 1 .. N : [n |-> m + k, size |-> pl[m + k].size] \in [n : Nat, size : R]
    BY <1>2, <1>4
  <1>6. Behind(pl, m) = [k \in 1 .. N |-> [n |-> m + k, size |-> pl[m + k].size]]
    BY DEF Behind
  <1> QED
    BY <1>2, <1>5, <1>6

\* The record behind the first m is the head of those behind them.
LEMMA BehindTail ==
    ASSUME NEW R, NEW pl \in Seq([size : R, pos : Nat]), NEW m \in Nat, m + 1 <= Len(pl)
    PROVE  /\ Behind(pl, m) # <<>> /\ Head(Behind(pl, m)).n = m + 1
           /\ Tail(Behind(pl, m)) = Behind(pl, m + 1)
  <1> DEFINE b == Behind(pl, m)
             c == Behind(pl, m + 1)
             E == [n : Nat, size : R]
  <1>0. Len(pl) \in Nat /\ m <= Len(pl) /\ m + 1 \in Nat
    OBVIOUS
  <1>1. /\ b \in Seq(E) /\ Len(b) = Len(pl) - m
        /\ \A k \in 1 .. Len(pl) - m : b[k] = [n |-> m + k, size |-> pl[m + k].size]
    BY <1>0, BehindFacts
  <1>2. /\ c \in Seq(E) /\ Len(c) = Len(pl) - (m + 1)
        /\ \A k \in 1 .. Len(pl) - (m + 1) :
              c[k] = [n |-> (m + 1) + k, size |-> pl[(m + 1) + k].size]
    BY <1>0, BehindFacts
  <1> HIDE DEF b, c, E
  <1>3. b # <<>> /\ Head(b) = b[1] /\ 1 \in 1 .. Len(pl) - m
    <2>1. Len(b) # 0 /\ 1 \in 1 .. Len(pl) - m
      BY <1>0, <1>1
    <2> QED
      BY <1>1, <2>1
  <1>4. Head(b).n = m + 1
    <2>1. b[1] = [n |-> m + 1, size |-> pl[m + 1].size]
      BY <1>1, <1>3
    <2> QED
      BY <1>3, <2>1
  <1>5. /\ Tail(b) \in Seq(E) /\ Len(Tail(b)) = Len(b) - 1
        /\ \A k \in 1 .. Len(Tail(b)) : Tail(b)[k] = b[k + 1]
    BY <1>1, <1>3, HeadTailProperties
  <1>6. Len(Tail(b)) = Len(c)
    BY <1>0, <1>1, <1>2, <1>5
  <1>7. ASSUME NEW k \in 1 .. Len(Tail(b)) PROVE Tail(b)[k] = c[k]
    <2>1. k \in 1 .. Len(pl) - (m + 1)
      BY <1>2, <1>6
    <2>2. k + 1 \in 1 .. Len(pl) - m /\ m + (k + 1) = (m + 1) + k
      BY <1>0, <2>1
    <2>3. Tail(b)[k] = b[k + 1]
      BY <1>5
    <2>4. b[k + 1] = [n |-> (m + 1) + k, size |-> pl[(m + 1) + k].size]
      BY <1>1, <2>2
    <2> QED
      BY <1>2, <2>1, <2>3, <2>4
  <1>8. Tail(b) = c
    BY <1>2, <1>5, <1>6, <1>7, SeqEqual
  <1> QED
    BY <1>3, <1>4, <1>8 DEF b, c

\* What is placed last is last behind the first m.
LEMMA BehindAppend ==
    ASSUME NEW R, NEW pl \in Seq([size : R, pos : Nat]), NEW r \in [size : R, pos : Nat],
           NEW m \in Nat, m <= Len(pl)
    PROVE  Behind(Append(pl, r), m) = Append(Behind(pl, m), [n |-> Len(pl) + 1, size |-> r.size])
  <1> DEFINE b == Behind(pl, m)
             c == Behind(Append(pl, r), m)
             e == [n |-> Len(pl) + 1, size |-> r.size]
             E == [n : Nat, size : R]
             N == Len(pl)
  <1>1. /\ N \in Nat /\ Len(Append(pl, r)) = N + 1 /\ Append(pl, r) \in Seq([size : R, pos : Nat])
        /\ \A i \in 1 .. N : Append(pl, r)[i] = pl[i]
        /\ Append(pl, r)[N + 1] = r
    OBVIOUS
  <1>2. /\ b \in Seq(E) /\ Len(b) = N - m
        /\ \A k \in 1 .. N - m : b[k] = [n |-> m + k, size |-> pl[m + k].size]
    BY BehindFacts
  <1>3. /\ c \in Seq(E) /\ Len(c) = (N + 1) - m
        /\ \A k \in 1 .. (N + 1) - m : c[k] = [n |-> m + k, size |-> Append(pl, r)[m + k].size]
    <2>1. PICK q \in Seq([size : R, pos : Nat]) : q = Append(pl, r)
      BY <1>1
    <2>2. m <= Len(q)
      BY <1>1, <2>1
    <2>3. /\ Behind(q, m) \in Seq(E) /\ Len(Behind(q, m)) = Len(q) - m
          /\ \A k \in 1 .. Len(q) - m : Behind(q, m)[k] = [n |-> m + k, size |-> q[m + k].size]
      BY <2>2, BehindFacts
    <2> QED
      BY <1>1, <2>1, <2>3
  <1>4. e \in E
    BY <1>1
  <1>5. m <= N
    OBVIOUS
  <1> HIDE DEF b, c, e, E, N
  <1>6. /\ Append(b, e) \in Seq(E) /\ Len(Append(b, e)) = Len(b) + 1
        /\ \A k \in 1 .. Len(b) : Append(b, e)[k] = b[k]
        /\ Append(b, e)[Len(b) + 1] = e
    BY <1>2, <1>4
  <1>7. Len(Append(b, e)) = Len(c)
    BY <1>1, <1>2, <1>3, <1>6
  <1>8. ASSUME NEW k \in 1 .. Len(c) PROVE Append(b, e)[k] = c[k]
    <2>1. CASE k = Len(b) + 1
      <3>1. m + k = N + 1 /\ k \in 1 .. (N + 1) - m
        BY <1>1, <1>2, <1>3, <1>5, <2>1
      <3>2. c[k] = e
        <4>1. c[k] = [n |-> N + 1, size |-> r.size]
          BY <1>1, <1>3, <3>1
        <4>2. e = [n |-> N + 1, size |-> r.size]
          BY DEF e, N
        <4> QED
          BY <4>1, <4>2, Zenon
      <3>3. Append(b, e)[k] = e
        BY <1>6, <2>1
      <3> QED
        BY <3>2, <3>3, Zenon
    <2>2. CASE k # Len(b) + 1
      <3>1. k \in 1 .. N - m /\ m + k \in 1 .. N /\ k \in 1 .. Len(b) /\ k \in 1 .. (N + 1) - m
        <4>1. N \in Nat /\ m <= N /\ Len(b) = N - m /\ k \in 1 .. (N + 1) - m
          BY <1>1, <1>2, <1>3, <1>5
        <4>2. k # (N - m) + 1
          BY <2>2, <4>1
        <4>3. k \in 1 .. N - m
          BY <4>1, <4>2
        <4> QED
          BY <4>1, <4>3
      <3>2. Append(b, e)[k] = b[k]
        BY <1>6, <3>1
      <3> QED
        BY <1>1, <1>2, <1>3, <3>1, <3>2
    <2> QED
      BY <2>1, <2>2
  <1>9. Append(b, e) = c
    BY <1>3, <1>6, <1>7, <1>8, SeqEqual
  <1> QED
    BY <1>9 DEF b, c, e, N

\* One more of what came out is one more number.
LEMMA NumbersAppend ==
    ASSUME NEW o, NEW f \in Nat, \A j \in 1 .. f + 1 : o[j].n \in Nat
    PROVE  Numbers(o, f + 1) = Append(Numbers(o, f), o[f + 1].n)
  <1> DEFINE b == Numbers(o, f)
             c == Numbers(o, f + 1)
             e == o[f + 1].n
  <1>1. b \in Seq(Nat) /\ Len(b) = f /\ \A j \in 1 .. f : b[j] = o[j].n
    BY DEF Numbers
  <1>2. c \in Seq(Nat) /\ Len(c) = f + 1 /\ \A j \in 1 .. f + 1 : c[j] = o[j].n
    BY DEF Numbers
  <1>3. e \in Nat /\ c[f + 1] = e
    BY <1>2
  <1> HIDE DEF b, c, e
  <1>4. /\ Append(b, e) \in Seq(Nat) /\ Len(Append(b, e)) = f + 1
        /\ \A j \in 1 .. f : Append(b, e)[j] = b[j]
        /\ Append(b, e)[f + 1] = e
    BY <1>1, <1>3
  <1>5. ASSUME NEW j \in 1 .. f + 1 PROVE Append(b, e)[j] = c[j]
    <2>1. CASE j = f + 1
      BY <1>3, <1>4, <2>1, Zenon
    <2>2. CASE j # f + 1
      <3>1. j \in 1 .. f
        BY <2>2
      <3>2. c[j] = o[j].n /\ b[j] = o[j].n
        BY <1>1, <1>2, <3>1
      <3>3. Append(b, e)[j] = b[j]
        BY <1>4, <3>1
      <3> QED
        BY <3>2, <3>3
    <2> QED
      BY <2>1, <2>2
  <1>6. Append(b, e) = c
    BY <1>2, <1>4, <1>5, SeqEqual
  <1> QED
    BY <1>6 DEF b, c, e

-----------------------------------------------------------------------------
(* The steps of the ring, seen by the abstract log *)

LEMMA SameLog ==
    ASSUME UNCHANGED <<tail, placed, out, drops>>
    PROVE  Passed' = Passed /\ Freed' = Freed /\ UNCHANGED Log!vars
  BY DEF Passed, Freed, PendingRecords, DeliveredRecords, Log!vars

\* A step of thread t that moves neither end of the ring.
LEMMA MoveQueue ==
    ASSUME TypeInv, QueueInv, NEW t \in Threads, NEW a, NEW l, Go(t, a, l),
           UNCHANGED <<head, tail, placed, out, drops>>,
           a \in {"drop", "skip"} => l.head + l.size - l.tail > Words,
           t = Reader /\ a \in Freeing => at[Reader] \in Freeing /\ l.n = loc[Reader].n
    PROVE  QueueInv' /\ UNCHANGED Log!vars
  <1>1. /\ at'[t] = a /\ loc'[t] = l
        /\ \A u \in Threads \ {t} : at'[u] = at[u] /\ loc'[u] = loc[u]
        /\ Reader \in Threads /\ Writers \subseteq Threads
    BY WordsFacts DEF TypeInv, TypeOK, Go
  <1>2. Passed' = Passed /\ Freed' = Freed /\ UNCHANGED Log!vars
    BY SameLog
  <1>3. Covered'
    BY DEF QueueInv, Covered, Records, Pos, End
  <1>4. Pressed'
    BY <1>1 DEF QueueInv, Pressed
  <1>5. FreedLast'
    <2>1. at'[Reader] \in Freeing => at[Reader] \in Freeing /\ loc'[Reader].n = loc[Reader].n
      BY <1>1
    <2> QED
      BY <2>1 DEF QueueInv, FreedLast, Pos, Freeing
  <1>6. Counted'
    BY <1>2 DEF QueueInv, Counted
  <1> QED
    BY <1>2, <1>3, <1>4, <1>5, <1>6 DEF QueueInv

\* The calls up to their reservation, but for those that reserve or move tail.
LEMMA CallQueue ==
    ASSUME TypeInv, LogInv, QueueInv, NEW t \in Writers,
           \/ \E size \in Sizes : Dispatch(t, size)
           \/ LoadHead(t) \/ LookAtOldest(t) \/ ReloadTail(t)
    PROVE  QueueInv' /\ UNCHANGED Log!vars
  <1>1. t \in Threads /\ UNCHANGED <<head, tail, placed, out, drops>>
    BY WordsFacts DEF Dispatch, LoadHead, LookAtOldest, ReloadTail, shared, history
  <1>2. /\ loc[t].head \in Nat /\ loc[t].size \in Nat /\ loc[t].tail \in Nat
        /\ loc[t] \in Locals /\ Words \in Nat
    BY <1>1, RecordTypes, WordsFacts
  <1>3. CASE ~LookAtOldest(t)
    <2>1. \E a \in {"head", "space"} : \E l : Go(t, a, l)
      BY <1>3 DEF Dispatch, LoadHead, ReloadTail
    <2> QED
      BY <1>1, <2>1, MoveQueue DEF Freeing
  <1>4. CASE LookAtOldest(t)
    <2>1. loc[t].head + loc[t].size - loc[t].tail > Words
      <3>1. at[t] = "space" /\ Short(loc[t])
        BY <1>4 DEF LookAtOldest, Step
      <3>2. /\ tail <= loc[t].since /\ loc[t].tail <= tail /\ loc[t].since <= loc[t].head
            /\ tail \in Nat /\ loc[t].since \in Nat
        BY <1>1, <3>1, SearchFacts, RecordTypes
      <3> QED
        BY <1>2, <3>1, <3>2 DEF Short
    <2>2. PICK a \in {"drop", "skip"} : \E n : Go(t, a, [loc[t] EXCEPT !.next = n])
      BY <1>4 DEF LookAtOldest
    <2>3. PICK n : Go(t, a, [loc[t] EXCEPT !.next = n])
      BY <2>2
    <2> DEFINE l == [loc[t] EXCEPT !.next = n]
    <2>4. l.head = loc[t].head /\ l.size = loc[t].size /\ l.tail = loc[t].tail
      BY <1>2 DEF Locals
    <2>5. Go(t, a, l) /\ a \notin Freeing
      BY <2>3 DEF Freeing
    <2> HIDE DEF l
    <2> QED
      BY <1>1, <2>1, <2>4, <2>5, MoveQueue
  <1> QED
    BY <1>3, <1>4

\* What a call writes after its reservation moves neither end.
LEMMA WriteQueue ==
    ASSUME TypeInv, QueueInv, NEW t \in Writers,
           WriteHeader(t) \/ WriteText(t) \/ Seal(t) \/ Announce(t)
    PROVE  QueueInv' /\ UNCHANGED Log!vars
  <1>1. t \in Threads /\ UNCHANGED <<head, tail, placed, out, drops>>
    BY WordsFacts DEF WriteHeader, WriteText, Seal, Announce, history
  <1>2. \E a \in {"text", "seal", "announce", "idle"} : \E l : Go(t, a, l)
    BY DEF WriteHeader, WriteText, Seal, Announce
  <1> QED
    BY <1>1, <1>2, MoveQueue DEF Freeing

\* log_flash, but for the steps that move tail or hand a record to the output.
LEMMA ReadQueue ==
    ASSUME TypeInv, QueueInv,
           \/ Flash \/ FlashTail \/ FlashLoop \/ FlashTag \/ Resync \/ Scan \/ ReadHeader
           \/ Recheck \/ ReadText \/ Free \/ Pending \/ ClearDirty
    PROVE  QueueInv' /\ UNCHANGED Log!vars
  <1>1. UNCHANGED <<head, tail, placed, out, drops>> /\ Reader \in Threads
    BY WordsFacts DEF Flash, FlashTail, FlashLoop, FlashTag, Resync, Scan, ReadHeader, Recheck,
                      ReadText, Free, Pending, ClearDirty, shared, history
  <1>2. CASE ~(Free \/ Pending)
    <2>1. \E a \in (ReaderPlaces \cup {"idle"}) \ Freeing : \E l : Go(Reader, a, l)
      <3>1. CASE Flash \/ FlashTail \/ FlashLoop
        BY <3>1 DEF Flash, FlashTail, FlashLoop, ReaderPlaces, Freeing
      <3>2. CASE FlashTag \/ Resync \/ Scan
        BY <3>2 DEF FlashTag, Resync, Scan, ReaderPlaces, Freeing
      <3>3. CASE ReadHeader \/ Recheck \/ ReadText \/ ClearDirty
        BY <3>3 DEF ReadHeader, Recheck, ReadText, ClearDirty, ReaderPlaces, Freeing
      <3> QED
        BY <1>2, <3>1, <3>2, <3>3
    <2> QED
      BY <1>1, <2>1, MoveQueue DEF ReaderPlaces, Freeing
  <1>3. CASE Free
    <2>1. at[Reader] \in Freeing /\ Go(Reader, "pending", loc[Reader])
      BY <1>3 DEF Free, Step, Freeing
    <2> QED
      BY <1>1, <2>1, MoveQueue
  <1>4. CASE Pending
    <2>1. at[Reader] \in Freeing
      BY <1>4 DEF Pending, Step, Freeing
    <2>2. PICK a \in {"advance", "floop"} : \E v : Go(Reader, a, [loc[Reader] EXCEPT !.tail = v])
      BY <1>4 DEF Pending
    <2>3. PICK v : Go(Reader, a, [loc[Reader] EXCEPT !.tail = v])
      BY <2>2
    <2> DEFINE l == [loc[Reader] EXCEPT !.tail = v]
    <2>4. l.n = loc[Reader].n /\ Go(Reader, a, l)
      BY <2>3, ReaderLocals DEF Locals
    <2> HIDE DEF l
    <2> QED
      BY <1>1, <2>1, <2>4, MoveQueue
  <1> QED
    BY <1>2, <1>3, <1>4

\* What came out, and what of it tail has passed, if the records keep their places.
LEMMA SameFreed ==
    ASSUME LogInv, UNCHANGED <<tail, out>>, \A i \in Records : placed'[i].pos = Pos(i)
    PROVE  Freed' = Freed
  <1> DEFINE S == { j \in DOMAIN out : out[j].n # 0 /\ placed[out[j].n].pos < tail }
             T == { j \in DOMAIN out' : out'[j].n # 0 /\ placed'[out'[j].n].pos < tail' }
  <1>1. \A j \in DOMAIN out : placed'[out[j].n].pos = placed[out[j].n].pos
    BY DEF LogInv, OutInv, Pos
  <1>2. \A j : j \in S <=> j \in T
    BY <1>1
  <1>3. S = T
    <2> HIDE DEF S, T
    <2> QED
      BY <1>2
  <1> QED
    BY <1>3 DEF Freed

\* The reservation places a record, for which there is room.
LEMMA PlaceQueue ==
    ASSUME TypeInv, LogInv, QueueInv, NEW t \in Writers, at[t] = "space", ~Short(loc[t]),
           head = loc[t].head, head' = head + loc[t].size,
           placed' = Append(placed, [size |-> loc[t].size, pos |-> head]),
           Go(t, "header", [loc[t] EXCEPT !.n = Len(placed) + 1]),
           UNCHANGED <<tail, drops, out>>
    PROVE  QueueInv' /\ Log!Place
  <1>1. /\ t \in Threads /\ loc[t].tail \in Nat /\ loc[t].size \in Nat /\ loc[t].size \in Sizes
        /\ head \in Nat /\ tail \in Nat /\ Words \in Nat /\ loc[t].tail <= tail /\ tail <= head
    BY SearchFacts, RecordTypes DEF LogInv, SpanInv
  <1>2. PICK L : L = Len(placed)
    OBVIOUS
  <1>3. PICK m : m = Passed
    OBVIOUS
  <1>4. PICK f : f = Freed
    OBVIOUS
  <1>5. /\ L \in Nat /\ m \in Nat /\ m <= L /\ Records = 1 .. L
        /\ \A i \in Records : i <= m <=> Pos(i) < tail
    BY <1>2, <1>3, PassedFacts, RecordTypes
  <1>6. f \in Nat /\ drops \in Nat /\ m = f + drops
    BY <1>3, <1>4, FreedFacts DEF QueueInv, Counted, TypeInv, TypeOK
  <1> DEFINE R == [size : Sizes, pos : Nat]
             r == [size |-> loc[t].size, pos |-> head]
  <1>7. r \in R /\ placed \in Seq(R) /\ placed' = Append(placed, r) /\ r.size = loc[t].size /\ r.pos = head
    BY <1>1 DEF TypeInv, TypeOK
  <1>8. /\ Len(placed') = L + 1 /\ Records' = 1 .. L + 1 /\ placed'[L + 1] = r
        /\ \A i \in Records : placed'[i] = placed[i]
    <2> HIDE DEF r, R
    <2> QED
      BY <1>2, <1>5, <1>7 DEF Records
  <1>9. Behind(placed', m) = Append(Behind(placed, m), [n |-> L + 1, size |-> loc[t].size])
    <2>1. \A e \in R : Behind(Append(placed, e), m)
                         = Append(Behind(placed, m), [n |-> Len(placed) + 1, size |-> e.size])
      BY <1>2, <1>5, <1>7, BehindAppend
    <2> HIDE DEF r, R
    <2> QED
      BY <1>2, <1>7, <2>1
  <1>10. \A i \in Records : placed'[i].pos = Pos(i) /\ placed'[i].size = placed[i].size
    BY <1>8 DEF Pos
  <1>11. placed'[L + 1].pos = head /\ placed'[L + 1].size = loc[t].size
    BY <1>7, <1>8
  <1> HIDE DEF r, R
  <1>12. Passed' = m
    <2> DEFINE S == { i \in DOMAIN placed' : placed'[i].pos < tail' }
    <2>1. \A i : i \in S <=> i \in 1 .. L + 1 /\ i <= m
      <3>1. ASSUME NEW i \in 1 .. L PROVE placed'[i].pos < tail' <=> i <= m
        BY <1>5, <1>10, <3>1
      <3>2. ~(placed'[L + 1].pos < tail') /\ ~(L + 1 <= m)
        <4>1. ~(L + 1 <= m)
          BY <1>5
        <4>2. ~(head < tail)
          BY <1>1
        <4> QED
          BY <1>11, <4>1, <4>2
      <3>3. \A i : i \in 1 .. L + 1 <=> i \in 1 .. L \/ i = L + 1
        BY <1>5
      <3> QED
        BY <1>8, <3>1, <3>2, <3>3 DEF Records
    <2> HIDE DEF S
    <2>2. m <= L + 1 /\ L + 1 \in Nat
      BY <1>5
    <2>3. Cardinality(S) = m
      BY <1>5, <2>1, <2>2, CountFirst
    <2> QED
      BY <2>3 DEF S, Passed
  <1>13. Freed' = f
    BY <1>4, <1>10, SameFreed
  <1>14. PendingRecords = Behind(placed, m) /\ PendingRecords' = Behind(placed', m)
    BY <1>3, <1>12 DEF PendingRecords, Behind
  <1>15. UNCHANGED DeliveredRecords
    BY <1>4, <1>13 DEF DeliveredRecords
  <1>16. Len(PendingRecords) = L - m /\ Len(DeliveredRecords) = f
    <2>1. Len(PendingRecords) = L - m
      BY <1>2, <1>3, <1>5 DEF PendingRecords
    <2>2. Len(DeliveredRecords) = f
      BY <1>4, <1>6 DEF DeliveredRecords
    <2> QED
      BY <2>1, <2>2
  <1>17. Len(PendingRecords) + Len(DeliveredRecords) + drops + 1 = L + 1
    BY <1>5, <1>6, <1>16
  <1>18. Log!Used + loc[t].size <= Words
    <2>1. Log!Used = head - tail
      BY UsedIs DEF QueueInv
    <2>2. PICK s, u : s = loc[t].size /\ u = loc[t].tail
      OBVIOUS
    <2>3. ~(head + s - u > Words)
      BY <2>2 DEF Short
    <2>4. s \in Nat /\ u \in Nat /\ u <= tail /\ head \in Nat /\ tail \in Nat /\ Words \in Nat
      BY <1>1, <2>2
    <2>5. (head - tail) + s <= Words
      BY <2>3, <2>4
    <2> QED
      BY <2>1, <2>2, <2>5
  <1>19. Log!Place
    BY <1>1, <1>9, <1>14, <1>15, <1>17, <1>18 DEF Log!Place
  <1>20. /\ at'[t] = "header"
         /\ \A u \in Threads \ {t} : at'[u] = at[u] /\ loc'[u] = loc[u]
         /\ Reader \in Threads /\ Writers \subseteq Threads
    BY <1>1, WordsFacts DEF TypeInv, TypeOK, Go
  <1>21. Covered'
    <2>1. ASSUME NEW p \in 0 .. head' - 1
          PROVE  \E i \in Records' : placed'[i].pos <= p /\ p < placed'[i].pos + placed'[i].size
      <3>1. CASE p < head
        <4>1. p \in 0 .. head - 1
          BY <1>1, <3>1
        <4>2. PICK i \in Records : Pos(i) <= p /\ p < End(i)
          BY <4>1 DEF QueueInv, Covered
        <4>3. i \in Records'
          BY <1>5, <1>8
        <4> QED
          BY <1>10, <4>2, <4>3 DEF Pos, End
      <3>2. CASE ~(p < head)
        <4>1. head <= p /\ p < head + loc[t].size
          BY <1>1, <3>2
        <4>2. L + 1 \in Records'
          BY <1>5, <1>8
        <4> QED
          BY <1>11, <4>1, <4>2
      <3> QED
        BY <3>1, <3>2
    <2> QED
      BY <2>1 DEF Covered, Pos, End
  <1>22. Pressed'
    BY <1>20 DEF QueueInv, Pressed
  <1>23. FreedLast'
    <2>1. \A j \in DOMAIN out : placed'[out[j].n].pos = Pos(out[j].n)
      BY <1>10 DEF LogInv, OutInv
    <2>2. at'[Reader] \in Freeing => at[Reader] \in Freeing /\ loc'[Reader] = loc[Reader]
      BY <1>20 DEF Freeing
    <2> QED
      BY <2>1, <2>2 DEF QueueInv, FreedLast, Pos
  <1>24. Counted'
    BY <1>6, <1>12, <1>13 DEF Counted
  <1> QED
    BY <1>19, <1>21, <1>22, <1>23, <1>24 DEF QueueInv

LEMMA ReserveQueue ==
    ASSUME TypeInv, LogInv, QueueInv, NEW t \in Writers, Reserve(t)
    PROVE  QueueInv' /\ (Log!Place \/ UNCHANGED Log!vars)
  <1>1. /\ at[t] = "space" /\ ~Short(loc[t]) /\ t \in Threads
        /\ UNCHANGED <<tail, drops, out>>
    BY WordsFacts DEF Reserve, Step
  <1>2. CASE UNCHANGED <<head, placed>> /\ \E a \in {"reload", "idle"} : \E l : Go(t, a, l)
    BY <1>1, <1>2, MoveQueue DEF Freeing
  <1>3. CASE /\ head = loc[t].head /\ head' = head + loc[t].size
             /\ placed' = Append(placed, [size |-> loc[t].size, pos |-> head])
             /\ Go(t, "header", [loc[t] EXCEPT !.n = Len(placed) + 1])
    BY <1>1, <1>3, PlaceQueue
  <1> QED
    BY <1>2, <1>3 DEF Reserve

\* Tail passes the record that begins there.
LEMMA PassOne ==
    ASSUME TypeInv, LogInv, NEW i \in Records, Pos(i) = tail, tail' = End(i), UNCHANGED placed
    PROVE  /\ i = Passed + 1 /\ Passed' = Passed + 1
           /\ PendingRecords # <<>> /\ Head(PendingRecords).n = i
           /\ PendingRecords' = Tail(PendingRecords)
           /\ tail < tail'
  <1>1. /\ Len(placed) \in Nat /\ Records = 1 .. Len(placed) /\ tail \in Nat
        /\ \A k \in Records : Pos(k) \in Nat /\ End(k) \in Nat /\ Pos(k) < End(k)
        /\ \A k, j \in Records : k < j => End(k) <= Pos(j)
    <2>1. Len(placed) \in Nat /\ Records = 1 .. Len(placed) /\ tail \in Nat
      BY RecordTypes
    <2>2. ASSUME NEW k \in Records PROVE Pos(k) \in Nat /\ End(k) \in Nat /\ Pos(k) < End(k)
      <3>1. /\ Pos(k) \in Nat /\ placed[k].size \in Nat /\ 4 <= placed[k].size
            /\ End(k) = Pos(k) + placed[k].size
        BY RecordTypes
      <3> QED
        BY <3>1
    <2>3. \A k, j \in Records : k < j => End(k) <= Pos(j)
      BY DEF LogInv, PlacedInv
    <2> QED
      BY <2>1, <2>2, <2>3
  <1>2. PICK m : m = Passed
    OBVIOUS
  <1>3. m \in Nat /\ m <= Len(placed) /\ \A k \in Records : k <= m <=> Pos(k) < tail
    BY <1>2, PassedFacts
  <1>4. i = m + 1
    <2>1. i \in 1 .. Len(placed) /\ ~(i <= m)
      BY <1>1, <1>3
    <2>2. CASE m + 1 < i
      <3>1. m + 1 \in Records /\ ~(m + 1 <= m)
        BY <1>1, <1>3, <2>1, <2>2
      <3>2. ~(Pos(m + 1) < tail) /\ End(m + 1) <= Pos(i)
        BY <1>1, <1>3, <2>2, <3>1
      <3>3. Pos(m + 1) \in Nat /\ End(m + 1) \in Nat /\ Pos(m + 1) < End(m + 1)
        BY <1>1, <3>1
      <3> QED
        BY <1>1, <3>2, <3>3
    <2> QED
      BY <1>3, <2>1, <2>2
  <1>5. \A k \in Records : k <= m + 1 <=> Pos(k) < End(i)
    <2>1. ASSUME NEW k \in Records PROVE k <= m + 1 <=> Pos(k) < End(i)
      <3>1. k \in Nat /\ Pos(k) \in Nat /\ End(k) \in Nat /\ Pos(k) < End(k) /\ End(i) \in Nat
        BY <1>1
      <3>2. CASE k < i
        <4>1. End(k) <= Pos(i) /\ Pos(i) < End(i) /\ Pos(i) \in Nat
          BY <1>1, <3>2
        <4> QED
          BY <1>3, <1>4, <3>1, <3>2, <4>1
      <3>3. CASE k = i
        BY <1>1, <1>3, <1>4, <3>3
      <3>4. CASE i < k
        <4>1. End(i) <= Pos(k)
          BY <1>1, <3>4
        <4> QED
          BY <1>3, <1>4, <3>1, <3>4, <4>1
      <3> QED
        BY <1>3, <1>4, <3>1, <3>2, <3>3, <3>4
    <2> QED
      BY <2>1
  <1>6. Passed' = m + 1
    <2> DEFINE S == { k \in DOMAIN placed' : placed'[k].pos < tail' }
    <2>1. \A k : k \in S <=> k \in 1 .. Len(placed) /\ k <= m + 1
      BY <1>1, <1>5 DEF Records, Pos
    <2> HIDE DEF S
    <2>2. m + 1 <= Len(placed) /\ m + 1 \in Nat
      BY <1>1, <1>3, <1>4
    <2>3. Cardinality(S) = m + 1
      BY <1>1, <2>1, <2>2, CountFirst
    <2> QED
      BY <2>3 DEF S, Passed
  <1>7. PendingRecords = Behind(placed, m) /\ PendingRecords' = Behind(placed, m + 1)
    BY <1>2, <1>6 DEF PendingRecords, Behind
  <1>8. /\ Behind(placed, m) # <<>> /\ Head(Behind(placed, m)).n = m + 1
        /\ Tail(Behind(placed, m)) = Behind(placed, m + 1)
    <2>1. placed \in Seq([size : Sizes, pos : Nat]) /\ m + 1 <= Len(placed)
      BY <1>1, <1>4 DEF TypeInv, TypeOK
    <2> QED
      BY <1>3, <2>1, BehindTail
  <1> QED
    BY <1>1, <1>2, <1>4, <1>6, <1>7, <1>8

\* Dropping the oldest record gives it up, for a record for which there is no room.
LEMMA DropQueue ==
    ASSUME TypeInv, LogInv, QueueInv, NEW t \in Writers, DropOldest(t) \/ SkipUnsealed(t)
    PROVE  QueueInv' /\ (Log!GiveUpOldest \/ UNCHANGED Log!vars)
  <1>1. /\ at[t] \in {"drop", "skip"} /\ t \in Threads
        /\ UNCHANGED <<head, placed, out>>
    BY WordsFacts DEF DropOldest, SkipUnsealed, Step, history
  <1>2. CASE tail # loc[t].tail
    <2>1. UNCHANGED <<tail, drops>> /\ \E l : Go(t, "space", l)
      BY <1>2 DEF DropOldest, SkipUnsealed
    <2> QED
      BY <1>1, <2>1, MoveQueue DEF Freeing
  <1>3. CASE tail = loc[t].tail
    <2>1. /\ t \in Unreserved /\ t \in Logging /\ ~Reading /\ tail \in Nat /\ head \in Nat
          /\ loc[t].head <= head /\ loc[t].head \in Nat /\ loc[t].size \in Nat
          /\ loc[t].size \in Sizes /\ Words \in Nat
      BY <1>1, SearchFacts, RecordTypes
    <2>2. Oldest(t)
      BY <1>1, <1>3, <2>1 DEF LogInv, CallInv
    <2>3. PICK i \in Records : Pos(i) = tail /\ loc[t].next = End(i)
      BY <2>2 DEF Oldest
    <2>4. /\ tail' = End(i) /\ drops' = drops + 1 /\ \E l : Go(t, "space", l)
      BY <1>3, <2>2, <2>3 DEF Oldest, DropOldest, SkipUnsealed, Step
    <2>5. /\ Passed' = Passed + 1 /\ PendingRecords # <<>>
          /\ PendingRecords' = Tail(PendingRecords) /\ tail < tail' /\ tail' \in Nat
      BY <1>1, <2>3, <2>4, PassOne, RecordTypes
    <2>6. /\ at'[t] = "space" /\ Reader \in Threads /\ Writers \subseteq Threads
          /\ \A u \in Threads \ {t} : at'[u] = at[u] /\ loc'[u] = loc[u]
      BY <1>1, <2>4, WordsFacts DEF TypeInv, TypeOK, Go
    <2>7. at[Reader] \notin Freeing /\ at'[Reader] \notin Freeing
      BY <2>1, <2>6 DEF Reading, ReaderPlaces, Freeing
    <2>8. \A j \in DOMAIN out : Pos(out[j].n) \in Nat /\ Pos(out[j].n) < tail /\ Pos(out[j].n) < tail'
      <3>1. ASSUME NEW j \in DOMAIN out
            PROVE  Pos(out[j].n) \in Nat /\ Pos(out[j].n) < tail /\ Pos(out[j].n) < tail'
        <4>1. out[j].n \in Records /\ ~(Pos(out[j].n) >= tail)
          BY <2>7 DEF LogInv, OutInv, Freeing
        <4>2. Pos(out[j].n) \in Nat
          BY <4>1, RecordTypes
        <4> QED
          BY <2>1, <2>5, <4>1, <4>2
      <3> QED
        BY <3>1
    <2>9. Freed' = Freed
      <3> DEFINE S == { j \in DOMAIN out : out[j].n # 0 /\ placed[out[j].n].pos < tail }
                 T == { j \in DOMAIN out' : out'[j].n # 0 /\ placed'[out'[j].n].pos < tail' }
      <3>1. \A j : j \in S <=> j \in T
        BY <1>1, <2>8 DEF Pos
      <3>2. S = T
        <4> HIDE DEF S, T
        <4> QED
          BY <3>1
      <3> QED
        BY <3>2 DEF Freed
    <2>10. UNCHANGED DeliveredRecords
      BY <1>1, <2>9 DEF DeliveredRecords
    <2>11. Log!Used + loc[t].size > Words
      <3>1. Log!Used = head - tail
        BY UsedIs DEF QueueInv
      <3>2. loc[t].head + loc[t].size - loc[t].tail > Words
        BY <1>1 DEF QueueInv, Pressed
      <3> QED
        BY <1>3, <2>1, <3>1, <3>2
    <2>12. Log!GiveUpOldest
      BY <2>1, <2>4, <2>5, <2>10, <2>11 DEF Log!GiveUpOldest
    <2>13. Covered'
      BY <1>1 DEF QueueInv, Covered, Records, Pos, End
    <2>14. Pressed'
      BY <2>6 DEF QueueInv, Pressed
    <2>15. FreedLast'
      <3>1. \A j \in DOMAIN out : ~(Pos(out[j].n) >= tail')
        BY <2>5, <2>8
      <3> QED
        BY <1>1, <2>7, <3>1 DEF FreedLast, Pos
    <2>16. Counted'
      <3>1. Passed = Freed + drops /\ drops \in Nat /\ Freed \in Nat
        BY FreedFacts DEF QueueInv, Counted, TypeInv, TypeOK
      <3> QED
        BY <2>4, <2>5, <2>9, <3>1 DEF Counted
    <2> QED
      BY <2>12, <2>13, <2>14, <2>15, <2>16 DEF QueueInv
  <1> QED
    BY <1>2, <1>3

\* Handing a record to the output changes nothing yet for the abstract log.
LEMMA DeliverQueue ==
    ASSUME TypeInv, LogInv, QueueInv, Deliver
    PROVE  QueueInv' /\ UNCHANGED Log!vars
  <1>1. /\ at[Reader] = "verify" /\ Reader \in Threads /\ Writers \subseteq Threads
        /\ UNCHANGED <<head, tail, placed, drops>>
    BY WordsFacts DEF Deliver, Step, shared
  <1>2. CASE UNCHANGED out /\ \E l : Go(Reader, "floop", l)
    BY <1>1, <1>2, MoveQueue DEF Freeing
  <1>3. CASE /\ Go(Reader, "free", loc[Reader])
             /\ \E w, g, k : out' = Append(out, [n |-> loc[Reader].n, whole |-> w, first |-> g, kept |-> k])
    <2> DEFINE Q == [n : Nat, whole : BOOLEAN, first : BOOLEAN, kept : BOOLEAN]
    <2>1. PICK e, N : out' = Append(out, e) /\ e.n = loc[Reader].n /\ N = Len(out)
      BY <1>3
    <2>2. out \in Seq(Q)
      BY DEF TypeInv, TypeOK
    <2> HIDE DEF Q
    <2>3. /\ N \in Nat /\ DOMAIN out = 1 .. N /\ DOMAIN out' = 1 .. N + 1 /\ Len(out') = N + 1
          /\ \A j \in 1 .. N : out'[j] = out[j]
          /\ out'[N + 1] = e
      BY <2>1, <2>2
    <2>4. loc[Reader].n \in Records /\ Pos(loc[Reader].n) = tail /\ tail \in Nat
      BY <1>1, ReadFacts DEF RecordAt, HasHeader, ReaderPlaces
    <2>5. \A j \in DOMAIN out : Pos(out[j].n) \in Nat /\ Pos(out[j].n) < tail
      <3>1. ASSUME NEW j \in DOMAIN out PROVE Pos(out[j].n) \in Nat /\ Pos(out[j].n) < tail
        <4>1. out[j].n \in Records /\ ~(Pos(out[j].n) >= tail)
          BY <1>1 DEF LogInv, OutInv
        <4>2. Pos(out[j].n) \in Nat
          BY <4>1, RecordTypes
        <4> QED
          BY <2>4, <4>1, <4>2
      <3> QED
        BY <3>1
    <2>6. /\ at'[Reader] = "free" /\ loc'[Reader] = loc[Reader]
          /\ \A u \in Threads \ {Reader} : at'[u] = at[u] /\ loc'[u] = loc[u]
      BY <1>1, <1>3 DEF TypeInv, TypeOK, Go
    <2>7. Passed' = Passed /\ UNCHANGED PendingRecords
      BY <1>1 DEF Passed, PendingRecords
    <2>8. Freed' = Freed
      <3> DEFINE S == { j \in DOMAIN out : out[j].n # 0 /\ placed[out[j].n].pos < tail }
                 T == { j \in DOMAIN out' : out'[j].n # 0 /\ placed'[out'[j].n].pos < tail' }
      <3>1. ~(placed[e.n].pos < tail)
        BY <2>1, <2>4 DEF Pos
      <3>2. \A j : j \in S <=> j \in T
        <4>1. \A j : j \in 1 .. N + 1 <=> j \in 1 .. N \/ j = N + 1
          BY <2>3
        <4>2. \A j \in 1 .. N : j \in S <=> j \in T
          BY <1>1, <2>3, <4>1
        <4>3. N + 1 \notin T
          BY <1>1, <2>3, <3>1
        <4>4. S \subseteq 1 .. N /\ T \subseteq 1 .. N + 1
          BY <2>3
        <4> HIDE DEF S, T
        <4> QED
          BY <4>1, <4>2, <4>3, <4>4
      <3>3. S = T
        <4> HIDE DEF S, T
        <4> QED
          BY <3>2
      <3> QED
        BY <3>3 DEF Freed
    <2>9. UNCHANGED DeliveredRecords
      <3>1. Freed \in Nat /\ Freed <= N
        BY <2>1, FreedFacts DEF QueueInv
      <3>2. \A j \in 1 .. Freed : out'[j] = out[j]
        BY <2>3, <3>1
      <3> QED
        BY <2>8, <3>2 DEF DeliveredRecords
    <2>10. UNCHANGED Log!vars
      BY <1>1, <2>7, <2>9 DEF Log!vars
    <2>11. Covered'
      BY <1>1 DEF QueueInv, Covered, Records, Pos, End
    <2>12. Pressed'
      BY <2>6, <1>1 DEF QueueInv, Pressed
    <2>13. FreedLast'
      <3>1. ASSUME NEW j \in DOMAIN out', placed[out'[j].n].pos >= tail PROVE j = N + 1
        <4>1. j \in DOMAIN out => out'[j] = out[j] /\ Pos(out[j].n) < tail /\ Pos(out[j].n) \in Nat
          BY <2>3, <2>5
        <4>2. j \notin DOMAIN out
          BY <2>4, <3>1, <4>1 DEF Pos
        <4> QED
          BY <2>3, <4>2
      <3>2. N + 1 # 0 /\ out'[N + 1].n = loc'[Reader].n
        BY <2>1, <2>3, <2>6
      <3> QED
        BY <1>1, <2>3, <3>1, <3>2 DEF FreedLast, Pos
    <2>14. Counted'
      BY <1>1, <2>7, <2>8 DEF QueueInv, Counted
    <2> QED
      BY <2>10, <2>11, <2>12, <2>13, <2>14 DEF QueueInv
  <1>4. CASE ring[Index(loc[Reader].tail)].tag # "SEAL"
    <2>1. UNCHANGED out /\ Go(Reader, "floop", [loc[Reader] EXCEPT !.tail = tail])
      BY <1>4 DEF Deliver
    <2> QED
      BY <1>2, <2>1
  <1>5. CASE ring[Index(loc[Reader].tail)].tag = "SEAL"
    <2>1. /\ Go(Reader, "free", loc[Reader])
          /\ out' = Append(out, [n |-> loc[Reader].n, whole |-> loc[Reader].whole,
                                 first |-> loc[Reader].first, kept |-> tail = loc[Reader].tail])
      BY <1>5 DEF Deliver
    <2> QED
      BY <1>3, <2>1
  <1> QED
    BY <1>4, <1>5

\* The move of tail behind the record that was taken out delivers it.
LEMMA AdvanceQueue ==
    ASSUME TypeInv, LogInv, QueueInv, Advance
    PROVE  QueueInv' /\ Log!Deliver
  <1>1. /\ at[Reader] = "advance" /\ Reader \in Threads /\ Writers \subseteq Threads
        /\ UNCHANGED <<head, placed, drops, out>>
        /\ tail' = loc[Reader].tail /\ Go(Reader, "floop", loc[Reader])
    BY WordsFacts DEF Advance, Step, history
  <1>2. PICK i \in Records : i = loc[Reader].n /\ Pos(i) = tail /\ tail' = End(i)
    <2>1. /\ loc[Reader].n \in Records /\ Pos(loc[Reader].n) = tail
          /\ placed[loc[Reader].n].size = loc[Reader].size
          /\ loc[Reader].tail = tail + loc[Reader].size
      BY <1>1, ReadFacts DEF RecordAt, HasHeader, ReaderPlaces
    <2> QED
      BY <1>1, <2>1 DEF End, Pos
  <1>3. /\ i = Passed + 1 /\ Passed' = Passed + 1
        /\ PendingRecords # <<>> /\ Head(PendingRecords).n = i
        /\ PendingRecords' = Tail(PendingRecords)
        /\ tail < tail' /\ tail \in Nat /\ tail' \in Nat
    BY <1>1, <1>2, PassOne, RecordTypes
  <1>4. PICK N, f : N = Len(out) /\ f = Freed
    OBVIOUS
  <1>5. /\ f \in Nat /\ f <= N /\ N \in Nat /\ DOMAIN out = 1 .. N
        /\ \A j \in DOMAIN out : /\ out[j].n \in Records /\ out[j].n # 0
                                 /\ j <= f <=> Pos(out[j].n) < tail
    BY <1>4, FreedFacts DEF QueueInv
  <1>6. /\ N # 0 /\ out[N].n = i
        /\ \A j \in DOMAIN out : Pos(out[j].n) >= tail => j = N
    BY <1>1, <1>2, <1>4 DEF QueueInv, FreedLast, Freeing
  <1>7. \A j \in DOMAIN out : /\ Pos(out[j].n) \in Nat
                              /\ Pos(out[j].n) < tail'
                              /\ j # N => Pos(out[j].n) < tail
    <2>1. ASSUME NEW j \in DOMAIN out
          PROVE  Pos(out[j].n) \in Nat /\ Pos(out[j].n) < tail' /\ (j # N => Pos(out[j].n) < tail)
      <3>1. Pos(out[j].n) \in Nat
        BY <1>5, RecordTypes
      <3>2. j # N => Pos(out[j].n) < tail
        BY <1>3, <1>6, <3>1
      <3>3. j = N => Pos(out[j].n) = tail
        BY <1>2, <1>6
      <3> QED
        BY <1>3, <3>1, <3>2, <3>3
    <2> QED
      BY <2>1
  <1>8. N = f + 1
    <2>1. N \in DOMAIN out /\ ~(N <= f)
      <3>1. N \in DOMAIN out /\ ~(Pos(out[N].n) < tail)
        BY <1>2, <1>3, <1>5, <1>6
      <3> QED
        BY <1>5, <3>1
    <2>2. CASE f + 1 < N
      <3>1. f + 1 \in DOMAIN out /\ f + 1 # N /\ ~(f + 1 <= f)
        BY <1>5, <2>2
      <3> QED
        BY <1>5, <1>7, <3>1
    <2> QED
      BY <1>5, <2>1, <2>2
  <1>9. Freed' = f + 1
    <2> DEFINE S == { j \in DOMAIN out' : out'[j].n # 0 /\ placed'[out'[j].n].pos < tail' }
    <2>1. \A j : j \in S <=> j \in 1 .. N /\ j <= N
      BY <1>1, <1>5, <1>7 DEF Pos
    <2> HIDE DEF S
    <2>2. Cardinality(S) = N
      BY <1>5, <2>1, CountFirst
    <2> QED
      BY <1>8, <2>2 DEF Freed, S
  <1>10. DeliveredRecords = Numbers(out, f) /\ DeliveredRecords' = Numbers(out, f + 1)
    BY <1>1, <1>4, <1>9 DEF DeliveredRecords, Numbers
  <1>11. Numbers(out, f + 1) = Append(Numbers(out, f), i)
    <2>1. \A j \in 1 .. f + 1 : out[j].n \in Nat
      BY <1>5, <1>8, RecordTypes
    <2> QED
      BY <1>5, <1>6, <1>8, <2>1, NumbersAppend
  <1>12. Log!Deliver
    BY <1>1, <1>3, <1>10, <1>11 DEF Log!Deliver
  <1>13. /\ at'[Reader] = "floop"
         /\ \A u \in Threads \ {Reader} : at'[u] = at[u] /\ loc'[u] = loc[u]
    BY <1>1 DEF TypeInv, TypeOK, Go
  <1>14. Covered'
    BY <1>1 DEF QueueInv, Covered, Records, Pos, End
  <1>15. Pressed'
    BY <1>1, <1>13 DEF QueueInv, Pressed
  <1>16. FreedLast'
    <2>1. \A j \in DOMAIN out : ~(Pos(out[j].n) >= tail')
      BY <1>3, <1>7
    <2> QED
      BY <1>1, <1>13, <2>1 DEF FreedLast, Pos, Freeing
  <1>17. Counted'
    <2>1. Passed = f + drops /\ drops \in Nat
      BY <1>4 DEF QueueInv, Counted, TypeInv, TypeOK
    <2> QED
      BY <1>1, <1>3, <1>5, <1>9, <2>1 DEF Counted
  <1> QED
    BY <1>12, <1>14, <1>15, <1>16, <1>17 DEF QueueInv

LEMMA QueueInit == Init => QueueInv /\ Log!Init
  <1> SUFFICES ASSUME Init PROVE QueueInv /\ Log!Init
    OBVIOUS
  <1>1. head = 0 /\ tail = 0 /\ placed = <<>> /\ out = <<>> /\ drops = 0
    BY DEF Init
  <1>2. \A u \in Threads : at[u] = "idle"
    BY DEF Init
  <1>3. Passed = 0
    <2>1. { i \in DOMAIN placed : placed[i].pos < tail } = {}
      BY <1>1
    <2> QED
      BY <2>1, FS_EmptySet DEF Passed
  <1>4. Freed = 0
    <2>1. { j \in DOMAIN out : out[j].n # 0 /\ placed[out[j].n].pos < tail } = {}
      BY <1>1
    <2> QED
      BY <2>1, FS_EmptySet DEF Freed
  <1>5. PendingRecords = <<>> /\ DeliveredRecords = <<>>
    BY <1>1, <1>3, <1>4 DEF PendingRecords, DeliveredRecords
  <1>6. Covered
    <2>1. 0 .. head - 1 = {}
      BY <1>1
    <2> QED
      BY <2>1 DEF Covered
  <1>7. Pressed /\ FreedLast /\ Counted
    BY <1>1, <1>2, <1>3, <1>4, WordsFacts DEF Pressed, FreedLast, Freeing, Counted
  <1> QED
    BY <1>1, <1>5, <1>6, <1>7 DEF QueueInv, Log!Init

LEMMA QueueNext ==
    TypeInv /\ LogInv /\ QueueInv /\ [Next]_vars => QueueInv' /\ [Log!Next]_(Log!vars)
  <1> SUFFICES ASSUME TypeInv, LogInv, QueueInv, [Next]_vars
               PROVE  QueueInv' /\ (Log!Next \/ UNCHANGED Log!vars)
    OBVIOUS
  <1>1. CASE UNCHANGED vars
    <2>1. UNCHANGED <<head, tail, drops, at, loc, placed, out>>
      BY <1>1 DEF vars, shared, history
    <2>2. Passed' = Passed /\ Freed' = Freed /\ UNCHANGED Log!vars
      BY <2>1, SameLog
    <2> QED
      BY <2>1, <2>2
         DEF QueueInv, Covered, Pressed, FreedLast, Counted, Records, Pos, End
  <1>2. ASSUME NEW t \in Writers,
               \/ \E size \in Sizes : Dispatch(t, size)
               \/ LoadHead(t) \/ LookAtOldest(t) \/ ReloadTail(t)
        PROVE  QueueInv' /\ UNCHANGED Log!vars
    BY <1>2, CallQueue
  <1>3. ASSUME NEW t \in Writers, WriteHeader(t) \/ WriteText(t) \/ Seal(t) \/ Announce(t)
        PROVE  QueueInv' /\ UNCHANGED Log!vars
    BY <1>3, WriteQueue
  <1>4. ASSUME NEW t \in Writers, Reserve(t)
        PROVE  QueueInv' /\ (Log!Place \/ UNCHANGED Log!vars)
    BY <1>4, ReserveQueue
  <1>5. ASSUME NEW t \in Writers, DropOldest(t) \/ SkipUnsealed(t)
        PROVE  QueueInv' /\ (Log!GiveUpOldest \/ UNCHANGED Log!vars)
    BY <1>5, DropQueue
  <1>6. CASE \/ Flash \/ FlashTail \/ FlashLoop \/ FlashTag \/ Resync \/ Scan \/ ReadHeader
             \/ Recheck \/ ReadText \/ Free \/ Pending \/ ClearDirty
    BY <1>6, ReadQueue
  <1>7. CASE Recover
    BY <1>7, ReadFacts DEF Recover, Step, ReaderPlaces
  <1>8. CASE Deliver
    BY <1>8, DeliverQueue
  <1>9. CASE Advance
    BY <1>9, AdvanceQueue DEF Log!Next
  <1> QED
    BY <1>1, <1>2, <1>3, <1>4, <1>5, <1>6, <1>7, <1>8, <1>9
       DEF Next, WriterStep, ReaderStep, Log!Next

(***************************************************************************)
(* Without Overrun the ring is the abstract bounded log: what its calls of *)
(* log_dispatch and log_flash do, in any interleaving, is to place records *)
(* where there is room, to give up the oldest when there is none, and to   *)
(* deliver the oldest.                                                     *)
(***************************************************************************)
THEOREM RingImplementsLossyLog == ASSUME ~Overrun PROVE Spec => ImplementsLossyLog
  <1>1. Init => TypeInv /\ LogInv /\ QueueInv /\ Log!Init
    BY InitInv, QueueInit
  <1>2. (TypeInv /\ LogInv /\ QueueInv) /\ [Next]_vars
          => (TypeInv /\ LogInv /\ QueueInv)' /\ [Log!Next]_(Log!vars)
    BY NextInv, QueueNext
  <1> QED
    BY <1>1, <1>2, PTL DEF Spec, ImplementsLossyLog, Log!Spec

=============================================================================
