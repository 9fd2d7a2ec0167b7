---------------------------- MODULE CacheProofs ----------------------------
(***************************************************************************)
(* BufferCache, one of the parts of Records, implements BufferStore.       *)
(*                                                                         *)
(* A Put runs through several operators that take a cache and give a       *)
(* cache: evictions of a bucket, of an entry or of the hot cache, and one  *)
(* of two ways to put a buffer.  So there is one lemma for each operator,  *)
(* about any cache s and the cache t that it makes of s: t still has, in a *)
(* cell, in an entry or handed out, every buffer that s has (Keeps), and   *)
(* one more when it puts one (Takes).                                      *)
(*                                                                         *)
(* What the operators need of s is that the map leads where it says: a key *)
(* with a cold location finds a buffer of its own there.  While a key      *)
(* moves from one tier to the other its location is stale, so Sound says   *)
(* this for the keys of a set K.                                           *)
(*                                                                         *)
(* The second part proves the limits of the hot cache, with sums over the  *)
(* finite set of keys: the lemmas about sums are in BytesProofs.           *)
(*                                                                         *)
(* The third part proves what the calls of OnFlush are: no buffer is at    *)
(* two places of a cache (Orderly), so none is handed out twice, and the   *)
(* newest buffer of a key is where the next one will be put after it       *)
(* (Ends), so entries and calls are runs of what was put.                  *)
(***************************************************************************)
EXTENDS BytesProofs

(* The cells of a set in order are its elements, each once.                *)
LEMMA NthRanked ==
    ASSUME NEW S \in SUBSET Nat, NEW b \in Nat, \A n \in S : n <= b
    PROVE  /\ Cardinality(S) \in Nat
           /\ \A i \in 1 .. Cardinality(S) : Cache!Nth(S, i) \in S
           /\ \A n \in S : \E i \in 1 .. Cardinality(S) : Cache!Nth(S, i) = n
<1>1. /\ Cardinality(S) \in Nat
      /\ Rank(S) \in Bijection(S, 1 .. Cardinality(S))
  BY Ranks
<1>2. \A i : Cache!Nth(S, i) = CHOOSE n \in S : Rank(S)[n] = i
  <2>1. \A i : Cache!Nth(S, i) = CHOOSE n \in S : Cardinality({l \in S : l <= n}) = i
    BY DEF Cache!Nth, Cardinality, Cache!Cardinality
  <2> QED BY <2>1 DEF Rank, UpTo
<1>3. ASSUME NEW i \in 1 .. Cardinality(S) PROVE Cache!Nth(S, i) \in S
  <2>1. \E n \in S : Rank(S)[n] = i BY <1>1 DEF Bijection, Surjection
  <2> QED BY <1>2, <2>1
<1>4. ASSUME NEW n \in S
      PROVE  \E i \in 1 .. Cardinality(S) : Cache!Nth(S, i) = n
  <2>1. PICK i \in 1 .. Cardinality(S) : Rank(S)[n] = i BY <1>1 DEF Bijection, Injection
  <2>2. \A l \in S : Rank(S)[l] = i => l = n
    BY <1>1, <2>1 DEF Bijection, Injection, IsInjective
  <2>3. Cache!Nth(S, i) = n BY <1>2, <2>1, <2>2
  <2> QED BY <2>3
<1> QED BY <1>1, <1>3, <1>4

---------------------------------------------------------------------------
\* Locations.

LEMMA CacheConstants ==
    /\ CellSpan \in Nat /\ CellSpan > 0 /\ BucketSpan \in Nat /\ NumBits \in Nat /\ NumBits > 0
    /\ Len(Buckets) \in Nat /\ Len(Buckets) <= BucketSpan
    /\ NumBits * Words \in Nat /\ NumBits * Words <= CellSpan
    /\ Cache!HotLocation \in Nat
    /\ Free \notin [key : Keys, n : Nat, len : Lens]
<1>1. /\ CellSpan \in Nat /\ CellSpan > 0 /\ BucketSpan \in Nat /\ NumBits \in Nat /\ NumBits > 0
      /\ Words \in Nat
  <2>1. {Prefix, NumBits, Words, CellSpan, BucketSpan} \subseteq Nat \ {0}
    BY RecordsAssumption DEF Cache!ConfigAssumption
  <2> QED BY <2>1
<1>2. /\ NumBits * Words <= CellSpan /\ Len(Buckets) <= BucketSpan
      /\ Buckets \in Seq(Nat) /\ Free \notin [key : Keys, n : Nat, len : Lens]
  BY RecordsAssumption DEF Cache!ConfigAssumption
<1>3. \A x, y \in Nat : x * y \in Nat OBVIOUS
<1> QED BY <1>1, <1>2, <1>3 DEF Cache!HotLocation

LEMMA Quotient ==
    ASSUME NEW n \in Nat, n > 0, NEW q \in Nat, NEW r \in 0 .. n - 1
    PROVE  (q * n + r) \div n = q /\ (q * n + r) % n = r
OBVIOUS

LEMMA Product ==
    ASSUME NEW n \in Nat, NEW p \in Nat, NEW q \in 0 .. p - 1, NEW r \in 0 .. n - 1
    PROVE  q * n + r \in 0 .. p * n - 1
<1>1. PICK d \in Nat : p = q + 1 + d
  <2>1. p - q - 1 \in Nat /\ p = q + 1 + (p - q - 1) OBVIOUS
  <2> QED BY <2>1
<1>2. p * n = q * n + n + d * n BY <1>1
<1>3. d * n \in Nat /\ q * n \in Nat BY <1>1
<1> QED BY <1>2, <1>3

(***************************************************************************)
(* A location is the bucket and the cell that it was made of, and tells    *)
(* them apart from a hot one.                                              *)
(***************************************************************************)
LEMMA Locations ==
    ASSUME NEW b \in Cache!BucketIdx, NEW c \in Cache!CellIdx
    PROVE  /\ Cache!ColdLocation(b, c) \in Nat
           /\ Cache!IsCold(Cache!ColdLocation(b, c))
           /\ Cache!ColdLocation(b, c) <= Cache!HotLocation
           /\ Cache!ColdBucketIdx(Cache!ColdLocation(b, c)) = b
           /\ Cache!ColdCellIdx(Cache!ColdLocation(b, c)) = c
<1>1. b \in Nat /\ c \in 0 .. CellSpan - 1 /\ b \in 0 .. BucketSpan - 1
  BY CacheConstants DEF Cache!BucketIdx, Cache!CellIdx
<1>2. Cache!ColdLocation(b, c) = b * CellSpan + c BY DEF Cache!ColdLocation
<1>3. b * CellSpan + c \in 0 .. BucketSpan * CellSpan - 1 BY <1>1, CacheConstants, Product
<1>4. /\ (b * CellSpan + c) \div CellSpan = b
      /\ (b * CellSpan + c) % CellSpan = c
  BY <1>1, CacheConstants, Quotient
<1>5. PICK l \in Nat : l = b * CellSpan + c BY <1>3
<1>6. PICK h \in Nat : h = BucketSpan * CellSpan BY CacheConstants DEF Cache!HotLocation
<1> QED
  BY <1>2, <1>3, <1>4, <1>5, <1>6
     DEF Cache!HotLocation, Cache!IsCold, Cache!ColdBucketIdx, Cache!ColdCellIdx

LEMMA NoneIsCold ==
    /\ ~Cache!IsCold(Cache!NoLoc) /\ ~Cache!IsCold(Cache!HotLocation)
    /\ Cache!NoLoc # Cache!HotLocation
BY CacheConstants DEF Cache!NoLoc, Cache!IsCold

---------------------------------------------------------------------------
\* What a cache holds.

(***************************************************************************)
(* Buffer n of key k has been handed out, is in the hot entry of k, or in  *)
(* a cell.                                                                 *)
(***************************************************************************)
HandedOut(s, k, n) ==
    \E i \in DOMAIN s.calls[k] : \E j \in DOMAIN s.calls[k][i] : s.calls[k][i][j] = n
InHot(s, k, n) == \E i \in DOMAIN s.hot[k] : s.hot[k][i].n = n
Holds(s, b, c, k) == s.cold[b][c] # Free /\ s.cold[b][c].key = k
InCell(s, k, n) ==
    \E b \in Cache!BucketIdx, c \in Cache!CellIdx : Holds(s, b, c, k) /\ s.cold[b][c].n = n
Has(s, k, n) == HandedOut(s, k, n) \/ InHot(s, k, n) \/ InCell(s, k, n)

(* t is s with some of its buffers handed out.                             *)
Keeps(s, t) ==
    \A k \in Keys, n \in Nat : /\ HandedOut(s, k, n) => HandedOut(t, k, n)
                               /\ Has(s, k, n) <=> Has(t, k, n)
(* t is s with one more buffer and some of the others handed out.          *)
Takes(s, t, k0, n0) ==
    \A k \in Keys, n \in Nat :
        /\ HandedOut(s, k, n) => HandedOut(t, k, n)
        /\ HandedOut(t, k, n) => Has(s, k, n)
        /\ Has(t, k, n) => Has(s, k, n) \/ (k = k0 /\ n = n0)
        /\ ~t.panicked => (Has(t, k, n) <=> Has(s, k, n) \/ (k = k0 /\ n = n0))

(* A cold location of k leads to a cell with a buffer of k.                *)
Leads(s, k) ==
    Cache!IsCold(s.loc[k]) =>
        \E b \in Cache!BucketIdx, c \in Cache!CellIdx :
            s.loc[k] = Cache!ColdLocation(b, c) /\ Holds(s, b, c, k)

CacheBuffer == [key : Keys, n : Nat, len : Lens]
Locs == {Cache!NoLoc} \cup 0 .. Cache!HotLocation
IsCache(s) ==
    s = [loc |-> s.loc, cold |-> s.cold, hot |-> s.hot, cap |-> s.cap, calls |-> s.calls,
         panicked |-> s.panicked]
Typed(s) ==
    /\ IsCache(s)
    /\ s.loc \in [Keys -> Locs]
    /\ s.cold \in [Cache!BucketIdx -> [Cache!CellIdx -> CacheBuffer \cup {Free}]]
    /\ s.hot \in [Keys -> Seq(CacheBuffer)]
    /\ s.calls \in [Keys -> Seq(Seq(Nat))]
    /\ s.panicked \in BOOLEAN
Sound(s, K) == Typed(s) /\ \A k \in K : Leads(s, k)

(* s is the record of these values.                                        *)
MadeOf(s, l, d, h, q, o, x) ==
    /\ s = [loc |-> l, cold |-> d, hot |-> h, cap |-> q, calls |-> o, panicked |-> x]
    /\ s.loc = l /\ s.cold = d /\ s.hot = h /\ s.cap = q /\ s.calls = o /\ s.panicked = x

LEMMA CacheParts ==
    ASSUME NEW s, IsCache(s)
    PROVE  \E l, d, h, q, o, x : MadeOf(s, l, d, h, q, o, x)
BY DEF IsCache, MadeOf

LEMMA CacheRecord ==
    ASSUME NEW l, NEW d, NEW h, NEW q, NEW o, NEW x, NEW s,
           s = [loc |-> l, cold |-> d, hot |-> h, cap |-> q, calls |-> o, panicked |-> x]
    PROVE  /\ s.loc = l /\ s.cold = d /\ s.hot = h /\ s.cap = q /\ s.calls = o
           /\ s.panicked = x /\ IsCache(s)
BY DEF IsCache

(* The buffers of an entry are handed over by their numbers.               *)
LEMMA Indices ==
    ASSUME NEW h \in Seq(CacheBuffer)
    PROVE  /\ Cache!Index(h) \in Seq(Nat)
           /\ \A n : (\E j \in DOMAIN Cache!Index(h) : Cache!Index(h)[j] = n) <=>
                         \E j \in DOMAIN h : h[j].n = n
<1>1. Len(h) \in Nat /\ DOMAIN h = 1 .. Len(h) /\ \A i \in 1 .. Len(h) : h[i] \in CacheBuffer
  OBVIOUS
<1>2. \A i \in 1 .. Len(h) : h[i].n \in Nat BY <1>1 DEF CacheBuffer
<1>3. Cache!Index(h) = [i \in 1 .. Len(h) |-> h[i].n] BY <1>1 DEF Cache!Index
<1>4. Cache!Index(h) \in Seq(Nat) BY <1>1, <1>2, <1>3
<1> QED BY <1>1, <1>3, <1>4

---------------------------------------------------------------------------
\* What the operators of a Put make of a cache, part by part.

(* What putInCold and moveToHotCache do to the map and to a cell.          *)
Filled(s, e, buf, b, c) ==
    [s EXCEPT !.cold[b][c] = buf, !.loc[e] = Cache!ColdLocation(b, c)]
Heated(s, e) == [s EXCEPT !.loc[e] = Cache!HotLocation]
WithCell(f, b, c, x) == [f EXCEPT ![b][c] = x]
WithKey(f, e, x) == [f EXCEPT ![e] = x]
EmptyCell(s, b, c) == [s EXCEPT !.cold[b][c] = Free]
Located(s, f) == [s EXCEPT !.loc = f]
Emptied(s, cells) == [Cache!FlushCells(s, cells) EXCEPT !.loc = Cache!Forget(@, cells)]

LEMMA CellsMade ==
    ASSUME NEW s, Typed(s), NEW cells, NEW t, t = Cache!FlushCells(s, cells)
    PROVE  /\ t.loc = s.loc
           /\ t.cold = [b \in Cache!BucketIdx |-> [c \in Cache!CellIdx |->
                         IF Cache!ColdLocation(b, c) \in cells THEN Free ELSE s.cold[b][c]]]
           /\ t.hot = s.hot /\ t.cap = s.cap
           /\ t.calls = [k \in Keys |-> s.calls[k] \o Cache!CellCalls(s, cells, k)]
           /\ t.panicked = s.panicked /\ IsCache(t)
<1>1. PICK l1, d1, h1, q1, o1, x1 :
          /\ l1 = s.loc
          /\ d1 = [b \in Cache!BucketIdx |-> [c \in Cache!CellIdx |->
                         IF Cache!ColdLocation(b, c) \in cells THEN Free ELSE s.cold[b][c]]]
          /\ h1 = s.hot /\ q1 = s.cap
          /\ o1 = [k \in Keys |-> s.calls[k] \o Cache!CellCalls(s, cells, k)]
          /\ x1 = s.panicked
  OBVIOUS
<1>2. t = [loc |-> l1, cold |-> d1, hot |-> h1, cap |-> q1, calls |-> o1, panicked |-> x1]
  <2>1. PICK l, d, h, q, o, x : MadeOf(s, l, d, h, q, o, x) BY CacheParts DEF Typed
  <2> QED BY <1>1, <2>1 DEF MadeOf, Cache!FlushCells
<1>3. /\ t.loc = l1 /\ t.cold = d1 /\ t.hot = h1 /\ t.cap = q1 /\ t.calls = o1
      /\ t.panicked = x1 /\ IsCache(t)
  BY <1>2, CacheRecord
<1> QED BY <1>1, <1>3

LEMMA HotFlushMade ==
    ASSUME NEW s, Typed(s), NEW t, t = Cache!FlushHot(s)
    PROVE  /\ t.loc = Cache!Forget(s.loc, {Cache!HotLocation}) /\ t.cold = s.cold
           /\ t.hot = [k \in Keys |-> <<>>] /\ t.cap = 0
           /\ t.calls = [k \in Keys |-> IF s.hot[k] = <<>> THEN s.calls[k]
                                        ELSE Append(s.calls[k], Cache!Index(s.hot[k]))]
           /\ t.panicked = s.panicked /\ IsCache(t)
<1>1. PICK l1, d1, h1, q1, o1, x1 :
          /\ l1 = Cache!Forget(s.loc, {Cache!HotLocation}) /\ d1 = s.cold
          /\ h1 = [k \in Keys |-> <<>>] /\ q1 = 0
          /\ o1 = [k \in Keys |-> IF s.hot[k] = <<>> THEN s.calls[k]
                                        ELSE Append(s.calls[k], Cache!Index(s.hot[k]))]
          /\ x1 = s.panicked
  OBVIOUS
<1>2. t = [loc |-> l1, cold |-> d1, hot |-> h1, cap |-> q1, calls |-> o1, panicked |-> x1]
  <2>1. PICK l, d, h, q, o, x : MadeOf(s, l, d, h, q, o, x) BY CacheParts DEF Typed
  <2> QED BY <1>1, <2>1 DEF MadeOf, Cache!FlushHot
<1>3. /\ t.loc = l1 /\ t.cold = d1 /\ t.hot = h1 /\ t.cap = q1 /\ t.calls = o1
      /\ t.panicked = x1 /\ IsCache(t)
  BY <1>2, CacheRecord
<1> QED BY <1>1, <1>3

LEMMA EvictionMade ==
    ASSUME NEW s, Typed(s), NEW e \in Keys, NEW t, t = Cache!EvictEntry(s, e)
    PROVE  /\ t.loc = WithKey(s.loc, e, Cache!NoLoc) /\ t.cold = s.cold
           /\ t.hot = WithKey(s.hot, e, <<>>)
           /\ t.cap = s.cap - Cache!EntryBytes(s.hot[e])
           /\ t.calls = WithKey(s.calls, e, Append(s.calls[e], Cache!Index(s.hot[e])))
           /\ t.panicked = s.panicked /\ IsCache(t)
<1>1. PICK l1, d1, h1, q1, o1, x1 :
          /\ l1 = WithKey(s.loc, e, Cache!NoLoc) /\ d1 = s.cold
          /\ h1 = WithKey(s.hot, e, <<>>) /\ q1 = s.cap - Cache!EntryBytes(s.hot[e])
          /\ o1 = WithKey(s.calls, e, Append(s.calls[e], Cache!Index(s.hot[e])))
          /\ x1 = s.panicked
  OBVIOUS
<1>2. t = [loc |-> l1, cold |-> d1, hot |-> h1, cap |-> q1, calls |-> o1, panicked |-> x1]
  <2>1. PICK l, d, h, q, o, x : MadeOf(s, l, d, h, q, o, x) BY CacheParts DEF Typed
  <2> QED BY <1>1, <2>1 DEF MadeOf, WithKey, Cache!EvictEntry
<1>3. /\ t.loc = l1 /\ t.cold = d1 /\ t.hot = h1 /\ t.cap = q1 /\ t.calls = o1
      /\ t.panicked = x1 /\ IsCache(t)
  BY <1>2, CacheRecord
<1> QED BY <1>1, <1>3

LEMMA AppendMade ==
    ASSUME NEW s, Typed(s), NEW e \in Keys, NEW buf, NEW t, t = Cache!AppendHot(s, e, buf)
    PROVE  /\ t.loc = s.loc /\ t.cold = s.cold
           /\ t.hot = WithKey(s.hot, e, Append(s.hot[e], buf))
           /\ t.cap = s.cap + Cache!Bytes(buf) /\ t.calls = s.calls
           /\ t.panicked = s.panicked /\ IsCache(t)
<1>1. PICK l1, d1, h1, q1, o1, x1 :
          /\ l1 = s.loc /\ d1 = s.cold /\ h1 = WithKey(s.hot, e, Append(s.hot[e], buf))
          /\ q1 = s.cap + Cache!Bytes(buf) /\ o1 = s.calls /\ x1 = s.panicked
  OBVIOUS
<1>2. t = [loc |-> l1, cold |-> d1, hot |-> h1, cap |-> q1, calls |-> o1, panicked |-> x1]
  <2>1. PICK l, d, h, q, o, x : MadeOf(s, l, d, h, q, o, x) BY CacheParts DEF Typed
  <2> QED BY <1>1, <2>1 DEF MadeOf, WithKey, Cache!AppendHot
<1>3. /\ t.loc = l1 /\ t.cold = d1 /\ t.hot = h1 /\ t.cap = q1 /\ t.calls = o1
      /\ t.panicked = x1 /\ IsCache(t)
  BY <1>2, CacheRecord
<1> QED BY <1>1, <1>3

LEMMA PanicMade ==
    ASSUME NEW s, Typed(s), NEW t, t = Cache!Panic(s)
    PROVE  /\ t.loc = s.loc /\ t.cold = s.cold /\ t.hot = s.hot /\ t.cap = s.cap
           /\ t.calls = s.calls /\ t.panicked = TRUE /\ IsCache(t)
<1>1. PICK l1, d1, h1, q1, o1, x1 :
          /\ l1 = s.loc /\ d1 = s.cold /\ h1 = s.hot /\ q1 = s.cap /\ o1 = s.calls
          /\ x1 = TRUE
  OBVIOUS
<1>2. t = [loc |-> l1, cold |-> d1, hot |-> h1, cap |-> q1, calls |-> o1, panicked |-> x1]
  <2>1. PICK l, d, h, q, o, x : MadeOf(s, l, d, h, q, o, x) BY CacheParts DEF Typed
  <2> QED BY <1>1, <2>1 DEF MadeOf, Cache!Panic
<1>3. /\ t.loc = l1 /\ t.cold = d1 /\ t.hot = h1 /\ t.cap = q1 /\ t.calls = o1
      /\ t.panicked = x1 /\ IsCache(t)
  BY <1>2, CacheRecord
<1> QED BY <1>1, <1>3

LEMMA HeatedMade ==
    ASSUME NEW s, Typed(s), NEW e, NEW t, t = Heated(s, e)
    PROVE  /\ t.loc = WithKey(s.loc, e, Cache!HotLocation) /\ t.cold = s.cold
           /\ t.hot = s.hot /\ t.cap = s.cap /\ t.calls = s.calls
           /\ t.panicked = s.panicked /\ IsCache(t)
<1>1. PICK l1, d1, h1, q1, o1, x1 :
          /\ l1 = WithKey(s.loc, e, Cache!HotLocation) /\ d1 = s.cold /\ h1 = s.hot
          /\ q1 = s.cap /\ o1 = s.calls /\ x1 = s.panicked
  OBVIOUS
<1>2. t = [loc |-> l1, cold |-> d1, hot |-> h1, cap |-> q1, calls |-> o1, panicked |-> x1]
  <2>1. PICK l, d, h, q, o, x : MadeOf(s, l, d, h, q, o, x) BY CacheParts DEF Typed
  <2> QED BY <1>1, <2>1 DEF MadeOf, WithKey, Heated
<1>3. /\ t.loc = l1 /\ t.cold = d1 /\ t.hot = h1 /\ t.cap = q1 /\ t.calls = o1
      /\ t.panicked = x1 /\ IsCache(t)
  BY <1>2, CacheRecord
<1> QED BY <1>1, <1>3

LEMMA LocatedMade ==
    ASSUME NEW s, Typed(s), NEW f, NEW t, t = Located(s, f)
    PROVE  /\ t.loc = f /\ t.cold = s.cold /\ t.hot = s.hot /\ t.cap = s.cap
           /\ t.calls = s.calls /\ t.panicked = s.panicked /\ IsCache(t)
<1>1. PICK l1, d1, h1, q1, o1, x1 :
          /\ l1 = f /\ d1 = s.cold /\ h1 = s.hot /\ q1 = s.cap /\ o1 = s.calls
          /\ x1 = s.panicked
  OBVIOUS
<1>2. t = [loc |-> l1, cold |-> d1, hot |-> h1, cap |-> q1, calls |-> o1, panicked |-> x1]
  <2>1. PICK l, d, h, q, o, x : MadeOf(s, l, d, h, q, o, x) BY CacheParts DEF Typed
  <2> QED BY <1>1, <2>1 DEF MadeOf, Located
<1>3. /\ t.loc = l1 /\ t.cold = d1 /\ t.hot = h1 /\ t.cap = q1 /\ t.calls = o1
      /\ t.panicked = x1 /\ IsCache(t)
  BY <1>2, CacheRecord
<1> QED BY <1>1, <1>3

LEMMA FilledMade ==
    ASSUME NEW s, Typed(s), NEW e, NEW buf, NEW b, NEW c, NEW t, t = Filled(s, e, buf, b, c)
    PROVE  /\ t.loc = WithKey(s.loc, e, Cache!ColdLocation(b, c))
           /\ t.cold = WithCell(s.cold, b, c, buf) /\ t.hot = s.hot /\ t.cap = s.cap
           /\ t.calls = s.calls /\ t.panicked = s.panicked /\ IsCache(t)
<1>1. PICK l1, d1, h1, q1, o1, x1 :
          /\ l1 = WithKey(s.loc, e, Cache!ColdLocation(b, c))
          /\ d1 = WithCell(s.cold, b, c, buf) /\ h1 = s.hot /\ q1 = s.cap
          /\ o1 = s.calls /\ x1 = s.panicked
  OBVIOUS
<1>2. t = [loc |-> l1, cold |-> d1, hot |-> h1, cap |-> q1, calls |-> o1, panicked |-> x1]
  <2>1. PICK l, d, h, q, o, x : MadeOf(s, l, d, h, q, o, x) BY CacheParts DEF Typed
  <2> QED BY <1>1, <2>1 DEF MadeOf, Filled, WithCell, WithKey
<1>3. /\ t.loc = l1 /\ t.cold = d1 /\ t.hot = h1 /\ t.cap = q1 /\ t.calls = o1
      /\ t.panicked = x1 /\ IsCache(t)
  BY <1>2, CacheRecord
<1> QED BY <1>1, <1>3

LEMMA EmptyCellMade ==
    ASSUME NEW s, Typed(s), NEW b, NEW c, NEW t, t = EmptyCell(s, b, c)
    PROVE  /\ t.loc = s.loc /\ t.cold = WithCell(s.cold, b, c, Free) /\ t.hot = s.hot
           /\ t.cap = s.cap /\ t.calls = s.calls /\ t.panicked = s.panicked /\ IsCache(t)
<1>1. PICK l1, d1, h1, q1, o1, x1 :
          /\ l1 = s.loc /\ d1 = WithCell(s.cold, b, c, Free) /\ h1 = s.hot /\ q1 = s.cap
          /\ o1 = s.calls /\ x1 = s.panicked
  OBVIOUS
<1>2. t = [loc |-> l1, cold |-> d1, hot |-> h1, cap |-> q1, calls |-> o1, panicked |-> x1]
  <2>1. PICK l, d, h, q, o, x : MadeOf(s, l, d, h, q, o, x) BY CacheParts DEF Typed
  <2> QED BY <1>1, <2>1 DEF MadeOf, EmptyCell, WithCell
<1>3. /\ t.loc = l1 /\ t.cold = d1 /\ t.hot = h1 /\ t.cap = q1 /\ t.calls = o1
      /\ t.panicked = x1 /\ IsCache(t)
  BY <1>2, CacheRecord
<1> QED BY <1>1, <1>3

---------------------------------------------------------------------------
\* The evictions.

ColdCells == {Cache!ColdLocation(b, c) : b \in Cache!BucketIdx, c \in Cache!CellIdx}

LEMMA LocsAre ==
    /\ Cache!NoLoc \in Locs /\ Cache!HotLocation \in Locs
    /\ \A b \in Cache!BucketIdx, c \in Cache!CellIdx : Cache!ColdLocation(b, c) \in Locs
<1>1. ASSUME NEW b \in Cache!BucketIdx, NEW c \in Cache!CellIdx
      PROVE  Cache!ColdLocation(b, c) \in Locs
  <2>1. /\ Cache!ColdLocation(b, c) \in Nat
        /\ Cache!ColdLocation(b, c) <= Cache!HotLocation
    BY Locations
  <2> QED BY <2>1, CacheConstants DEF Locs
<1> QED BY <1>1, CacheConstants DEF Locs

LEMMA CellOfLocation ==
    ASSUME NEW s, NEW b \in Cache!BucketIdx, NEW c \in Cache!CellIdx
    PROVE  Cache!CellAt(s, Cache!ColdLocation(b, c)) = s.cold[b][c]
BY Locations DEF Cache!CellAt

(* A flush of cells gives what they hold, in calls of one buffer.          *)
LEMMA CallsOfCells ==
    ASSUME NEW s, Typed(s), NEW cells \in SUBSET ColdCells, NEW k \in Keys
    PROVE  /\ Cache!CellCalls(s, cells, k) \in Seq(Seq(Nat))
           /\ \A n : Gives(Cache!CellCalls(s, cells, k), n) <=>
                  \E b \in Cache!BucketIdx, c \in Cache!CellIdx :
                      /\ Cache!ColdLocation(b, c) \in cells
                      /\ Holds(s, b, c, k) /\ s.cold[b][c].n = n
<1>1. PICK H : H = Cache!Held(s, cells, k) OBVIOUS
<1>2. H \in SUBSET cells BY <1>1 DEF Cache!Held
<1>3. \A l \in H : l \in Nat /\ l <= Cache!HotLocation BY <1>2, Locations DEF ColdCells
<1>4. /\ Cardinality(H) \in Nat
      /\ \A i \in 1 .. Cardinality(H) : Cache!Nth(H, i) \in H
      /\ \A l \in H : \E i \in 1 .. Cardinality(H) : Cache!Nth(H, i) = l
  BY <1>3, CacheConstants, NthRanked
<1>5. PICK N \in Nat : N = Cardinality(H) BY <1>4
<1>6. PICK o : o = Cache!CellCalls(s, cells, k) OBVIOUS
<1>7. o = [i \in 1 .. N |-> <<Cache!CellAt(s, Cache!Nth(H, i)).n>>]
  BY <1>1, <1>5, <1>6 DEF Cache!CellCalls, Cardinality, Cache!Cardinality
<1>8. ASSUME NEW l \in H
      PROVE  \E b \in Cache!BucketIdx, c \in Cache!CellIdx :
                 /\ l = Cache!ColdLocation(b, c) /\ l \in cells /\ Holds(s, b, c, k)
                 /\ Cache!CellAt(s, l) = s.cold[b][c] /\ s.cold[b][c].n \in Nat
  <2>1. PICK b \in Cache!BucketIdx, c \in Cache!CellIdx : l = Cache!ColdLocation(b, c)
    BY <1>2 DEF ColdCells
  <2>2. Cache!CellAt(s, l) = s.cold[b][c] BY <2>1, CellOfLocation
  <2>3. s.cold[b][c] # Free /\ s.cold[b][c].key = k BY <1>1, <2>2 DEF Cache!Held
  <2>4. s.cold[b][c] \in CacheBuffer \cup {Free} BY DEF Typed
  <2>5. s.cold[b][c].n \in Nat BY <2>3, <2>4 DEF CacheBuffer
  <2> QED BY <1>2, <2>1, <2>2, <2>3, <2>5 DEF Holds
<1>9. ASSUME NEW b \in Cache!BucketIdx, NEW c \in Cache!CellIdx,
             Cache!ColdLocation(b, c) \in cells, Holds(s, b, c, k)
      PROVE  Cache!ColdLocation(b, c) \in H
  <2>1. Cache!CellAt(s, Cache!ColdLocation(b, c)) = s.cold[b][c] BY CellOfLocation
  <2> QED BY <1>1, <1>9, <2>1 DEF Holds, Cache!Held
<1>10. \A i \in 1 .. N : Cache!CellAt(s, Cache!Nth(H, i)).n \in Nat BY <1>4, <1>5, <1>8
<1>11. \A i \in 1 .. N : o[i] = <<Cache!CellAt(s, Cache!Nth(H, i)).n>> BY <1>7
<1>12. o \in Seq(Seq(Nat))
  <2>1. \A x \in Nat : <<x>> \in Seq(Nat) OBVIOUS
  <2>2. \A i \in 1 .. N : o[i] \in Seq(Nat) BY <1>10, <1>11, <2>1
  <2>3. o \in [1 .. N -> Seq(Nat)] BY <1>7, <2>2
  <2> QED BY <2>3
<1>13. \A n : Gives(o, n) <=> \E i \in 1 .. N : Cache!CellAt(s, Cache!Nth(H, i)).n = n
  <2>1. DOMAIN o = 1 .. N BY <1>7
  <2>2. \A i \in 1 .. N : DOMAIN o[i] = {1} /\ o[i][1] = Cache!CellAt(s, Cache!Nth(H, i)).n
    BY <1>11
  <2> QED BY <2>1, <2>2 DEF Gives
<1>14. ASSUME NEW n, Gives(o, n)
       PROVE  \E b \in Cache!BucketIdx, c \in Cache!CellIdx :
                  /\ Cache!ColdLocation(b, c) \in cells
                  /\ Holds(s, b, c, k) /\ s.cold[b][c].n = n
  <2>1. PICK i \in 1 .. N : Cache!CellAt(s, Cache!Nth(H, i)).n = n BY <1>13, <1>14
  <2>2. Cache!Nth(H, i) \in H BY <1>4, <1>5
  <2> QED BY <1>8, <2>1, <2>2
<1>15. ASSUME NEW n, NEW b \in Cache!BucketIdx, NEW c \in Cache!CellIdx,
              Cache!ColdLocation(b, c) \in cells, Holds(s, b, c, k), s.cold[b][c].n = n
       PROVE  Gives(o, n)
  <2>1. PICK i \in 1 .. N : Cache!Nth(H, i) = Cache!ColdLocation(b, c)
    BY <1>4, <1>5, <1>9, <1>15
  <2>2. Cache!CellAt(s, Cache!Nth(H, i)).n = n BY <1>15, <2>1, CellOfLocation
  <2> QED BY <1>13, <2>2
<1> QED BY <1>6, <1>12, <1>14, <1>15

LEMMA CellsFlushed ==
    ASSUME NEW s, Typed(s), NEW cells \in SUBSET ColdCells,
           NEW t, t = Cache!FlushCells(s, cells)
    PROVE  /\ Typed(t) /\ Keeps(s, t)
           /\ t.loc = s.loc /\ t.hot = s.hot /\ t.cap = s.cap /\ t.panicked = s.panicked
           /\ \A b \in Cache!BucketIdx, c \in Cache!CellIdx :
                  t.cold[b][c] = IF Cache!ColdLocation(b, c) \in cells THEN Free
                                 ELSE s.cold[b][c]
<1>1. /\ t.loc = s.loc /\ t.hot = s.hot /\ t.cap = s.cap /\ t.panicked = s.panicked
      /\ t.calls = [k \in Keys |-> s.calls[k] \o Cache!CellCalls(s, cells, k)]
      /\ t.cold = [b \in Cache!BucketIdx |-> [c \in Cache!CellIdx |->
                      IF Cache!ColdLocation(b, c) \in cells THEN Free ELSE s.cold[b][c]]]
      /\ IsCache(t)
  BY CellsMade
<1>2. \A b \in Cache!BucketIdx, c \in Cache!CellIdx :
          t.cold[b][c] = IF Cache!ColdLocation(b, c) \in cells THEN Free ELSE s.cold[b][c]
  BY <1>1
<1>3. \A k \in Keys : /\ t.calls[k] = s.calls[k] \o Cache!CellCalls(s, cells, k)
                      /\ s.calls[k] \in Seq(Seq(Nat))
  BY <1>1 DEF Typed
<1>4. Typed(t)
  <2>1. \A k \in Keys : t.calls[k] \in Seq(Seq(Nat))
    <3> SUFFICES ASSUME NEW k \in Keys PROVE t.calls[k] \in Seq(Seq(Nat)) OBVIOUS
    <3>1. PICK o \in Seq(Seq(Nat)) : o = Cache!CellCalls(s, cells, k) BY CallsOfCells
    <3>2. PICK p \in Seq(Seq(Nat)) : p = s.calls[k] BY <1>3
    <3> QED BY <1>3, <3>1, <3>2, MoreCalls
  <2>2. t.calls \in [Keys -> Seq(Seq(Nat))] BY <1>1, <2>1
  <2>3. \A b \in Cache!BucketIdx, c \in Cache!CellIdx :
            t.cold[b][c] \in CacheBuffer \cup {Free}
    BY <1>2 DEF Typed
  <2>4. t.cold \in [Cache!BucketIdx -> [Cache!CellIdx -> CacheBuffer \cup {Free}]]
    BY <1>1, <2>3
  <2> QED BY <1>1, <2>2, <2>4 DEF Typed
<1>5. Keeps(s, t)
  <2> SUFFICES ASSUME NEW k \in Keys, NEW n \in Nat
               PROVE  /\ HandedOut(s, k, n) => HandedOut(t, k, n)
                      /\ Has(s, k, n) <=> Has(t, k, n)
    BY DEF Keeps
  <2>1. PICK o \in Seq(Seq(Nat)) : o = Cache!CellCalls(s, cells, k) BY CallsOfCells
  <2>2. HandedOut(t, k, n) <=> HandedOut(s, k, n) \/ Gives(o, n)
    <3>1. PICK p \in Seq(Seq(Nat)) : p = s.calls[k] BY <1>3
    <3>2. Gives(p \o o, n) <=> Gives(p, n) \/ Gives(o, n) BY MoreCalls
    <3>3. t.calls[k] = p \o o BY <1>3, <2>1, <3>1
    <3>4. /\ Gives(s.calls[k], n) <=> HandedOut(s, k, n)
          /\ Gives(t.calls[k], n) <=> HandedOut(t, k, n)
      BY DEF Gives, HandedOut
    <3> QED BY <3>1, <3>2, <3>3, <3>4
  <2>3. Gives(o, n) => InCell(s, k, n)
    <3>1. Gives(Cache!CellCalls(s, cells, k), n) =>
              \E b \in Cache!BucketIdx, c \in Cache!CellIdx :
                  /\ Cache!ColdLocation(b, c) \in cells
                  /\ Holds(s, b, c, k) /\ s.cold[b][c].n = n
      BY CallsOfCells
    <3> QED BY <2>1, <3>1 DEF InCell
  <2>4. InCell(s, k, n) => Gives(o, n) \/ InCell(t, k, n)
    <3> SUFFICES ASSUME NEW b \in Cache!BucketIdx, NEW c \in Cache!CellIdx,
                        Holds(s, b, c, k), s.cold[b][c].n = n,
                        Cache!ColdLocation(b, c) \notin cells
                 PROVE  InCell(t, k, n)
      BY <2>1, CallsOfCells DEF InCell
    <3>1. t.cold[b][c] = s.cold[b][c] BY <1>2
    <3> QED BY <3>1 DEF InCell, Holds
  <2>5. InCell(t, k, n) => InCell(s, k, n)
    <3> SUFFICES ASSUME NEW b \in Cache!BucketIdx, NEW c \in Cache!CellIdx,
                        Holds(t, b, c, k), t.cold[b][c].n = n
                 PROVE  InCell(s, k, n)
      BY DEF InCell
    <3>1. t.cold[b][c] = s.cold[b][c] BY <1>2 DEF Holds
    <3> QED BY <3>1 DEF InCell, Holds
  <2>6. InHot(t, k, n) <=> InHot(s, k, n) BY <1>1 DEF InHot
  <2> QED BY <2>2, <2>3, <2>4, <2>5, <2>6 DEF Has
<1> QED BY <1>1, <1>2, <1>4, <1>5

LEMMA LeadsStill ==
    ASSUME NEW s, NEW t, NEW K, Sound(s, K), Typed(t), t.cold = s.cold, K \subseteq Keys,
           \A k \in K : t.loc[k] = s.loc[k] \/ ~Cache!IsCold(t.loc[k])
    PROVE  Sound(t, K)
BY DEF Sound, Leads, Holds

LEMMA InCellStill ==
    ASSUME NEW s, NEW t, t.cold = s.cold
    PROVE  \A k, n : InCell(t, k, n) <=> InCell(s, k, n)
BY DEF InCell, Holds

NoEntries(s) == \A k \in Keys : s.hot[k] = <<>>

(* The whole hot cache is handed out, and its keys leave the map.          *)
LEMMA HotFlushed ==
    ASSUME NEW K \in SUBSET Keys, NEW s, Sound(s, K), NEW t, t = Cache!FlushHot(s)
    PROVE  Sound(t, K) /\ Keeps(s, t) /\ t.cold = s.cold /\ NoEntries(t)
<1>1. /\ t.loc = Cache!Forget(s.loc, {Cache!HotLocation}) /\ t.cold = s.cold
      /\ t.hot = [k \in Keys |-> <<>>] /\ t.panicked = s.panicked
      /\ t.calls = [k \in Keys |-> IF s.hot[k] = <<>> THEN s.calls[k]
                                   ELSE Append(s.calls[k], Cache!Index(s.hot[k]))]
      /\ IsCache(t)
  BY HotFlushMade DEF Sound
<1>2. \A k \in Keys : t.loc[k] = s.loc[k] \/ t.loc[k] = Cache!NoLoc
  BY <1>1 DEF Cache!Forget
<1>3. ASSUME NEW k \in Keys
      PROVE  /\ t.calls[k] \in Seq(Seq(Nat))
             /\ \A n : HandedOut(t, k, n) <=> HandedOut(s, k, n) \/ InHot(s, k, n)
  <2>1. s.calls[k] \in Seq(Seq(Nat)) /\ s.hot[k] \in Seq(CacheBuffer) BY DEF Sound, Typed
  <2>2. PICK o \in Seq(Seq(Nat)) : o = s.calls[k] BY <2>1
  <2>3. PICK h \in Seq(CacheBuffer) : h = s.hot[k] BY <2>1
  <2>4. PICK q \in Seq(Nat) : q = Cache!Index(h) BY Indices
  <2>5. \A n : (\E j \in DOMAIN q : q[j] = n) <=> InHot(s, k, n)
    BY <2>3, <2>4, Indices DEF InHot
  <2>6. CASE h = <<>>
    <3>1. \A n : ~InHot(s, k, n) BY <2>3, <2>6 DEF InHot
    <3>2. t.calls[k] = o BY <1>1, <2>2, <2>3, <2>6
    <3>3. \A n : HandedOut(t, k, n) <=> HandedOut(s, k, n) BY <2>2, <3>2 DEF HandedOut
    <3> QED BY <3>1, <3>2, <3>3
  <2>7. CASE h # <<>>
    <3>1. t.calls[k] = Append(o, q) BY <1>1, <2>2, <2>3, <2>4, <2>7
    <3>2. /\ Append(o, q) \in Seq(Seq(Nat))
          /\ \A n : Gives(Append(o, q), n) <=> Gives(o, n) \/ \E j \in DOMAIN q : q[j] = n
      BY OneMoreCall
    <3>3. \A n : HandedOut(s, k, n) <=> Gives(o, n) BY <2>2 DEF HandedOut, Gives
    <3>4. \A n : HandedOut(t, k, n) <=> Gives(Append(o, q), n)
      BY <3>1 DEF HandedOut, Gives
    <3> QED BY <2>5, <3>1, <3>2, <3>3, <3>4
  <2> QED BY <2>6, <2>7
<1>4. Typed(t)
  <2>1. t.calls \in [Keys -> Seq(Seq(Nat))] BY <1>1, <1>3
  <2>2. t.hot \in [Keys -> Seq(CacheBuffer)] BY <1>1
  <2>3. t.loc \in [Keys -> Locs] BY <1>1, LocsAre DEF Sound, Typed, Cache!Forget
  <2> QED BY <1>1, <2>1, <2>2, <2>3 DEF Sound, Typed
<1>5. Sound(t, K)
  <2>1. \A k \in K : t.loc[k] = s.loc[k] \/ ~Cache!IsCold(t.loc[k]) BY <1>2, NoneIsCold
  <2> QED BY <1>1, <1>4, <2>1, LeadsStill
<1>6. \A k \in Keys : t.hot[k] = <<>> BY <1>1
<1>7. \A k \in Keys, n \in Nat : ~InHot(t, k, n) BY <1>6 DEF InHot
<1>8. Keeps(s, t)
  <2> SUFFICES ASSUME NEW k \in Keys, NEW n \in Nat
               PROVE  /\ HandedOut(s, k, n) => HandedOut(t, k, n)
                      /\ Has(s, k, n) <=> Has(t, k, n)
    BY DEF Keeps
  <2>1. InCell(t, k, n) <=> InCell(s, k, n) BY <1>1, InCellStill
  <2> QED BY <1>3, <1>7, <2>1 DEF Has
<1> QED BY <1>1, <1>5, <1>6, <1>8 DEF NoEntries

(* One entry is handed out, and its key leaves the map.                    *)
LEMMA EntryEvicted ==
    ASSUME NEW K \in SUBSET Keys, NEW s, Sound(s, K), NEW e \in Keys,
           NEW t, t = Cache!EvictEntry(s, e)
    PROVE  Sound(t, K) /\ Keeps(s, t) /\ t.cold = s.cold
<1>1. /\ t.loc = [s.loc EXCEPT ![e] = Cache!NoLoc] /\ t.cold = s.cold
      /\ t.hot = [s.hot EXCEPT ![e] = <<>>] /\ t.panicked = s.panicked
      /\ t.calls = [s.calls EXCEPT ![e] = Append(@, Cache!Index(s.hot[e]))]
      /\ IsCache(t)
  <2>1. Typed(s) BY DEF Sound
  <2>2. /\ t.loc = WithKey(s.loc, e, Cache!NoLoc) /\ t.cold = s.cold
        /\ t.hot = WithKey(s.hot, e, <<>>) /\ t.panicked = s.panicked
        /\ t.calls = WithKey(s.calls, e, Append(s.calls[e], Cache!Index(s.hot[e])))
        /\ IsCache(t)
    BY <2>1, EvictionMade
  <2> QED BY <2>2 DEF WithKey
<1>2. /\ s.loc \in [Keys -> Locs] /\ s.hot \in [Keys -> Seq(CacheBuffer)]
      /\ s.calls \in [Keys -> Seq(Seq(Nat))]
  BY DEF Sound, Typed
<1>3. PICK o \in Seq(Seq(Nat)), h \in Seq(CacheBuffer) : o = s.calls[e] /\ h = s.hot[e]
  BY <1>2
<1>4. PICK q \in Seq(Nat) : q = Cache!Index(h) BY Indices
<1>5. /\ Append(o, q) \in Seq(Seq(Nat))
      /\ \A n : Gives(Append(o, q), n) <=> Gives(o, n) \/ \E j \in DOMAIN q : q[j] = n
  BY OneMoreCall
<1>6. \A n : (\E j \in DOMAIN q : q[j] = n) <=> InHot(s, e, n)
  BY <1>3, <1>4, Indices DEF InHot
<1>7. t.calls[e] = Append(o, q) /\ \A k \in Keys \ {e} : t.calls[k] = s.calls[k]
  BY <1>1, <1>2, <1>3, <1>4
<1>8. t.hot[e] = <<>> /\ \A k \in Keys \ {e} : t.hot[k] = s.hot[k] BY <1>1, <1>2
<1>9. t.loc[e] = Cache!NoLoc /\ \A k \in Keys \ {e} : t.loc[k] = s.loc[k] BY <1>1, <1>2
<1>10. Typed(t)
  <2>1. t.calls \in [Keys -> Seq(Seq(Nat))] BY <1>1, <1>2, <1>5, <1>7
  <2>2. t.hot \in [Keys -> Seq(CacheBuffer)]
    <3>1. <<>> \in Seq(CacheBuffer) OBVIOUS
    <3> QED BY <1>1, <1>2, <3>1
  <2>3. t.loc \in [Keys -> Locs] BY <1>1, <1>2, LocsAre
  <2> QED BY <1>1, <2>1, <2>2, <2>3 DEF Sound, Typed
<1>11. Sound(t, K)
  <2>1. \A k \in K : t.loc[k] = s.loc[k] \/ ~Cache!IsCold(t.loc[k]) BY <1>9, NoneIsCold
  <2> QED BY <1>1, <1>10, <2>1, LeadsStill
<1>12. Keeps(s, t)
  <2> SUFFICES ASSUME NEW k \in Keys, NEW n \in Nat
               PROVE  /\ HandedOut(s, k, n) => HandedOut(t, k, n)
                      /\ Has(s, k, n) <=> Has(t, k, n)
    BY DEF Keeps
  <2>1. InCell(t, k, n) <=> InCell(s, k, n) BY <1>1, InCellStill
  <2>2. CASE k = e
    <3>1. ~InHot(t, k, n) BY <1>8, <2>2 DEF InHot
    <3>2. HandedOut(t, e, n) <=> Gives(o, n) \/ InHot(s, e, n)
      <4>1. HandedOut(t, e, n) <=> Gives(Append(o, q), n) BY <1>7 DEF HandedOut, Gives
      <4> QED BY <1>5, <1>6, <4>1
    <3>3. HandedOut(s, e, n) <=> Gives(o, n) BY <1>3 DEF HandedOut, Gives
    <3> QED BY <2>1, <2>2, <3>1, <3>2, <3>3 DEF Has
  <2>3. CASE k # e
    <3>1. t.calls[k] = s.calls[k] /\ t.hot[k] = s.hot[k] BY <1>7, <1>8, <2>3
    <3>2. HandedOut(t, k, n) <=> HandedOut(s, k, n) BY <3>1 DEF HandedOut
    <3>3. InHot(t, k, n) <=> InHot(s, k, n) BY <3>1 DEF InHot
    <3> QED BY <2>1, <3>2, <3>3 DEF Has
  <2> QED BY <2>2, <2>3
<1> QED BY <1>1, <1>11, <1>12

(* The entry of a key gets a buffer.                                       *)
LEMMA HotAppended ==
    ASSUME NEW K \in SUBSET Keys, NEW s, Sound(s, K), NEW e \in Keys, NEW buf \in CacheBuffer,
           NEW t, t = Cache!AppendHot(s, e, buf)
    PROVE  Sound(t, K) /\ Takes(s, t, e, buf.n)
<1>1. /\ t.loc = s.loc /\ t.cold = s.cold /\ t.hot = [s.hot EXCEPT ![e] = Append(@, buf)]
      /\ t.calls = s.calls
      /\ t.panicked = s.panicked /\ IsCache(t)
  <2>1. /\ t.loc = s.loc /\ t.cold = s.cold
        /\ t.hot = WithKey(s.hot, e, Append(s.hot[e], buf)) /\ t.calls = s.calls
        /\ t.panicked = s.panicked /\ IsCache(t)
    BY AppendMade DEF Sound
  <2> QED BY <2>1 DEF WithKey
<1>2. PICK h \in Seq(CacheBuffer) : h = s.hot[e] BY DEF Sound, Typed
<1>3. t.hot[e] = Append(h, buf) /\ \A k \in Keys \ {e} : t.hot[k] = s.hot[k]
  BY <1>1, <1>2 DEF Sound, Typed
<1>4. /\ Len(h) \in Nat /\ DOMAIN h = 1 .. Len(h)
      /\ Append(h, buf) \in Seq(CacheBuffer) /\ DOMAIN Append(h, buf) = 1 .. Len(h) + 1
      /\ \A i \in 1 .. Len(h) : Append(h, buf)[i] = h[i]
      /\ Append(h, buf)[Len(h) + 1] = buf
  OBVIOUS
<1>5. t.hot \in [Keys -> Seq(CacheBuffer)] BY <1>1, <1>2, <1>4 DEF Sound, Typed
<1>6. Typed(t) BY <1>1, <1>5 DEF Sound, Typed
<1>7. Sound(t, K) BY <1>1, <1>6, LeadsStill
<1>8. \A n : InHot(t, e, n) <=> InHot(s, e, n) \/ n = buf.n
  <2>1. ASSUME NEW n, InHot(s, e, n) PROVE InHot(t, e, n)
    <3>1. PICK i \in 1 .. Len(h) : h[i].n = n BY <1>2, <1>4, <2>1 DEF InHot
    <3>2. i \in DOMAIN Append(h, buf) /\ Append(h, buf)[i].n = n BY <1>4, <3>1
    <3> QED BY <1>3, <3>2 DEF InHot
  <2>2. InHot(t, e, buf.n)
    <3>1. Len(h) + 1 \in DOMAIN Append(h, buf) BY <1>4
    <3> QED BY <1>3, <1>4, <3>1 DEF InHot
  <2>3. ASSUME NEW n, InHot(t, e, n), n # buf.n PROVE InHot(s, e, n)
    <3>1. PICK i \in 1 .. Len(h) + 1 : Append(h, buf)[i].n = n
      BY <1>3, <1>4, <2>3 DEF InHot
    <3>2. i \in 1 .. Len(h) BY <1>4, <2>3, <3>1
    <3> QED BY <1>2, <1>4, <3>1, <3>2 DEF InHot
  <2> QED BY <2>1, <2>2, <2>3
<1>9. \A k \in Keys \ {e}, n \in Nat : InHot(t, k, n) <=> InHot(s, k, n) BY <1>3 DEF InHot
<1>10. \A k, n : HandedOut(t, k, n) <=> HandedOut(s, k, n) BY <1>1 DEF HandedOut
<1>11. \A k, n : InCell(t, k, n) <=> InCell(s, k, n) BY <1>1, InCellStill
<1>12. Takes(s, t, e, buf.n) BY <1>8, <1>9, <1>10, <1>11 DEF Takes, Has
<1> QED BY <1>7, <1>12

LEMMA KeepsThenTakes ==
    ASSUME NEW s, NEW t, NEW u, NEW e, NEW n, Keeps(s, t), Takes(t, u, e, n)
    PROVE  Takes(s, u, e, n)
BY DEF Keeps, Takes

FreeIn(s, cells) ==
    \A b \in Cache!BucketIdx, c \in Cache!CellIdx :
        Cache!ColdLocation(b, c) \in cells => s.cold[b][c] = Free

(* Cells are handed out, and the keys that they belong to leave the map.   *)
LEMMA CellsForgotten ==
    ASSUME NEW K \in SUBSET Keys, NEW s, Sound(s, K), NEW cells \in SUBSET ColdCells,
           NEW t, t = Emptied(s, cells)
    PROVE  /\ Sound(t, K) /\ Keeps(s, t) /\ FreeIn(t, cells)
           /\ t.loc = Cache!Forget(s.loc, cells)
           /\ t.hot = s.hot /\ t.cap = s.cap /\ t.panicked = s.panicked
<1>1. PICK u : u = Cache!FlushCells(s, cells) OBVIOUS
<1>2. /\ Typed(u) /\ Keeps(s, u) /\ u.loc = s.loc /\ u.hot = s.hot /\ u.cap = s.cap
      /\ u.panicked = s.panicked
      /\ \A b \in Cache!BucketIdx, c \in Cache!CellIdx :
             u.cold[b][c] = IF Cache!ColdLocation(b, c) \in cells THEN Free ELSE s.cold[b][c]
  BY <1>1, CellsFlushed DEF Sound
<1>3. /\ t.loc = Cache!Forget(s.loc, cells) /\ t.cold = u.cold /\ t.hot = u.hot
      /\ t.cap = u.cap /\ t.calls = u.calls /\ t.panicked = u.panicked /\ IsCache(t)
  <2>1. t = Located(u, Cache!Forget(u.loc, cells)) BY <1>1 DEF Emptied, Located
  <2> QED BY <1>2, <2>1, LocatedMade
<1>4. \A k \in Keys : t.loc[k] = IF s.loc[k] \in cells THEN Cache!NoLoc ELSE s.loc[k]
  BY <1>3 DEF Cache!Forget
<1>5. Typed(t)
  <2>1. \A k \in Keys : s.loc[k] \in Locs /\ Cache!NoLoc \in Locs
    BY LocsAre DEF Sound, Typed
  <2>2. \A k \in Keys : t.loc[k] \in Locs BY <1>4, <2>1
  <2>3. t.loc \in [Keys -> Locs] BY <1>3, <2>2 DEF Cache!Forget
  <2> QED BY <1>2, <1>3, <2>3 DEF Typed
<1>6. ASSUME NEW k \in K PROVE Leads(t, k)
  <2>1. CASE s.loc[k] \in cells BY <1>4, <2>1, NoneIsCold DEF Leads
  <2>2. CASE s.loc[k] \notin cells
    <3> SUFFICES ASSUME Cache!IsCold(s.loc[k])
                 PROVE  \E b \in Cache!BucketIdx, c \in Cache!CellIdx :
                            s.loc[k] = Cache!ColdLocation(b, c) /\ Holds(t, b, c, k)
      BY <1>4, <2>2 DEF Leads
    <3>1. PICK b \in Cache!BucketIdx, c \in Cache!CellIdx :
              s.loc[k] = Cache!ColdLocation(b, c) /\ Holds(s, b, c, k)
      BY DEF Sound, Leads
    <3>2. t.cold[b][c] = s.cold[b][c] BY <1>2, <1>3, <2>2, <3>1
    <3> QED BY <3>1, <3>2 DEF Holds
  <2> QED BY <2>1, <2>2
<1>7. Keeps(s, t) BY <1>2, <1>3 DEF Keeps, Has, HandedOut, InHot, InCell, Holds
<1> QED BY <1>2, <1>3, <1>5, <1>6, <1>7 DEF Sound, FreeIn

LEMMA FreeCellFound ==
    ASSUME NEW s, NEW b, Cache!FreeCells(s.cold[b]) # {}
    PROVE  Cache!FindFreeCell(s.cold[b]) \in Cache!FreeCells(s.cold[b])
<1>1. PICK S : S = Cache!FreeCells(s.cold[b]) OBVIOUS
<1>2. PICK N \in Nat : N = NumBits /\ N > 0 BY CacheConstants
<1>3. PICK M \in Nat : M = NumBits * Words BY CacheConstants
<1>4. S \in SUBSET Nat /\ S # {} /\ \A c \in S : c <= M
  BY <1>1, <1>3 DEF Cache!FreeCells, Cache!CellIdx
<1>5. PICK W : W = {c \div N : c \in S} OBVIOUS
<1>6. W \in SUBSET Nat /\ W # {}
  <2>1. \A c \in Nat : c \div N \in Nat BY <1>2
  <2> QED BY <1>4, <1>5, <2>1
<1>7. PICK w : w = Cache!Min(W) OBVIOUS
<1>8. w \in W
  <2>1. \E x \in W : \A y \in W : x <= y BY <1>6, LeastOne
  <2> QED BY <1>7, <2>1 DEF Cache!Min
<1>9. PICK T : T = {c \in S : c \div N = w} OBVIOUS
<1>10. T \in SUBSET Nat /\ T # {} /\ \A c \in T : c <= M BY <1>4, <1>5, <1>8, <1>9
<1>11. PICK c \in T : \A i \in T : i <= c BY <1>3, <1>10, GreatestOne
<1>12. Cache!Max(T) \in T
  <2>1. \A i \in T : i \in Nat /\ c \in Nat BY <1>10
  <2>2. \A i \in T : c >= i BY <1>11, <2>1
  <2> QED BY <2>2 DEF Cache!Max
<1>13. Cache!FindFreeCell(s.cold[b]) = Cache!Max(T)
  BY <1>1, <1>2, <1>5, <1>7, <1>9 DEF Cache!FindFreeCell
<1> QED BY <1>1, <1>9, <1>12, <1>13

(* A free cell gets a buffer, and the map leads there.                     *)
LEMMA CellFilled ==
    ASSUME NEW K \in SUBSET Keys, NEW s, Sound(s, K), NEW e \in Keys,
           NEW buf \in CacheBuffer, buf.key = e,
           NEW b \in Cache!BucketIdx, NEW c \in Cache!CellIdx, s.cold[b][c] = Free,
           NEW t, t = Filled(s, e, buf, b, c)
    PROVE  Sound(t, K) /\ Takes(s, t, e, buf.n)
<1>1. /\ t.loc = [s.loc EXCEPT ![e] = Cache!ColdLocation(b, c)]
      /\ t.cold = [s.cold EXCEPT ![b][c] = buf] /\ t.hot = s.hot /\ t.calls = s.calls
      /\ t.panicked = s.panicked /\ IsCache(t)
  <2>1. Typed(s) BY DEF Sound
  <2>2. /\ t.loc = WithKey(s.loc, e, Cache!ColdLocation(b, c))
        /\ t.cold = WithCell(s.cold, b, c, buf) /\ t.hot = s.hot /\ t.calls = s.calls
        /\ t.panicked = s.panicked /\ IsCache(t)
    BY <2>1, FilledMade
  <2> QED BY <2>2 DEF WithCell, WithKey
<1>2. /\ s.loc \in [Keys -> Locs]
      /\ s.cold \in [Cache!BucketIdx -> [Cache!CellIdx -> CacheBuffer \cup {Free}]]
  BY DEF Sound, Typed
<1>3. /\ t.cold[b][c] = buf
      /\ \A i \in Cache!BucketIdx, j \in Cache!CellIdx :
             i # b \/ j # c => t.cold[i][j] = s.cold[i][j]
  BY <1>1, <1>2
<1>4. /\ t.loc[e] = Cache!ColdLocation(b, c)
      /\ \A k \in Keys : k # e => t.loc[k] = s.loc[k]
  BY <1>1, <1>2
<1>5. buf # Free BY CacheConstants DEF CacheBuffer
<1>6. Typed(t)
  <2>1. Cache!ColdLocation(b, c) \in Locs BY LocsAre
  <2>2. t.loc \in [Keys -> Locs] BY <1>1, <1>2, <2>1
  <2>3. t.cold \in [Cache!BucketIdx -> [Cache!CellIdx -> CacheBuffer \cup {Free}]]
    BY <1>1, <1>2
  <2> QED BY <1>1, <2>2, <2>3 DEF Sound, Typed
<1>7. ASSUME NEW k \in Keys, NEW i \in Cache!BucketIdx, NEW j \in Cache!CellIdx,
             Holds(s, i, j, k)
      PROVE  Holds(t, i, j, k) /\ t.cold[i][j] = s.cold[i][j]
  <2>1. i # b \/ j # c BY <1>7 DEF Holds
  <2> QED BY <1>3, <1>7, <2>1 DEF Holds
<1>8. Holds(t, b, c, e) BY <1>3, <1>5 DEF Holds
<1>9. ASSUME NEW k \in K PROVE Leads(t, k)
  <2>1. CASE k = e BY <1>4, <1>8, <2>1 DEF Leads
  <2>2. CASE k # e
    <3>1. t.loc[k] = s.loc[k] BY <1>4, <2>2
    <3> QED BY <1>7, <3>1 DEF Sound, Leads
  <2> QED BY <2>1, <2>2
<1>10. ASSUME NEW k \in Keys, NEW n \in Nat
       PROVE  InCell(t, k, n) <=> InCell(s, k, n) \/ (k = e /\ n = buf.n)
  <2>1. InCell(s, k, n) => InCell(t, k, n) BY <1>7 DEF InCell
  <2>2. InCell(t, e, buf.n) BY <1>3, <1>8 DEF InCell
  <2>3. ASSUME InCell(t, k, n) PROVE InCell(s, k, n) \/ (k = e /\ n = buf.n)
    <3>1. PICK i \in Cache!BucketIdx, j \in Cache!CellIdx :
              Holds(t, i, j, k) /\ t.cold[i][j].n = n
      BY <2>3 DEF InCell
    <3>2. CASE i = b /\ j = c BY <1>3, <3>1, <3>2 DEF Holds
    <3>3. CASE i # b \/ j # c
      <4>1. t.cold[i][j] = s.cold[i][j] BY <1>3, <3>3
      <4> QED BY <3>1, <4>1 DEF Holds, InCell
    <3> QED BY <3>2, <3>3
  <2> QED BY <2>1, <2>2, <2>3
<1>11. \A k, n : /\ HandedOut(t, k, n) <=> HandedOut(s, k, n)
                 /\ InHot(t, k, n) <=> InHot(s, k, n)
  BY <1>1 DEF HandedOut, InHot
<1>12. Takes(s, t, e, buf.n) BY <1>10, <1>11 DEF Takes, Has
<1> QED BY <1>6, <1>9, <1>12 DEF Sound

---------------------------------------------------------------------------
\* The puts.

(* findFreeCell has a free cell to find: a full bucket was emptied.         *)
Room(s, b) ==
    IF Cache!FreeCells(s.cold[b]) = {} THEN Emptied(s, Cache!ColdLocations(b)) ELSE s

LEMMA CellFound ==
    ASSUME NEW K \in SUBSET Keys, NEW s, Sound(s, K), NEW b \in Cache!BucketIdx,
           NEW u, u = Room(s, b), NEW c, c = Cache!FindFreeCell(u.cold[b])
    PROVE  c \in Cache!CellIdx /\ u.cold[b][c] = Free
<1>1. PICK cells : cells = Cache!ColdLocations(b) OBVIOUS
<1>2. cells \in SUBSET ColdCells BY <1>1 DEF Cache!ColdLocations, ColdCells
<1>3. PICK v : v = Emptied(s, cells) OBVIOUS
<1>4. FreeIn(v, cells) BY <1>2, <1>3, CellsForgotten
<1>5. u = IF Cache!FreeCells(s.cold[b]) = {} THEN v ELSE s BY <1>1, <1>3 DEF Room
<1>6. Cache!FreeCells(u.cold[b]) # {}
  <2>1. CASE Cache!FreeCells(s.cold[b]) = {}
    <3>1. 0 \in Cache!CellIdx
      <4>1. PICK N \in Nat : N = NumBits * Words BY CacheConstants
      <4>2. N > 0
        <5>1. {NumBits, Words} \subseteq Nat \ {0}
          BY RecordsAssumption DEF Cache!ConfigAssumption
        <5>2. \A x, y \in Nat \ {0} : x * y > 0 OBVIOUS
        <5> QED BY <4>1, <5>1, <5>2
      <4> QED BY <4>1, <4>2 DEF Cache!CellIdx
    <3>2. Cache!ColdLocation(b, 0) \in cells BY <1>1, <3>1 DEF Cache!ColdLocations
    <3>3. v.cold[b][0] = Free BY <1>4, <3>1, <3>2 DEF FreeIn
    <3>4. u = v BY <1>5, <2>1
    <3> QED BY <3>1, <3>3, <3>4 DEF Cache!FreeCells
  <2>2. CASE Cache!FreeCells(s.cold[b]) # {} BY <1>5, <2>2
  <2> QED BY <2>1, <2>2
<1> QED BY <1>6, FreeCellFound DEF Cache!FreeCells

(* putInCold, when the buffer fits a cell.                                 *)
LEMMA CellTakes ==
    ASSUME NEW K \in SUBSET Keys, NEW s, Sound(s, K), NEW e \in Keys,
           NEW buf \in CacheBuffer, buf.key = e, NEW b \in Cache!BucketIdx,
           NEW t, t = Cache!PutInCell(s, e, buf, b)
    PROVE  Sound(t, K) /\ Takes(s, t, e, buf.n)
<1>1. PICK cells : cells = Cache!ColdLocations(b) OBVIOUS
<1>2. cells \in SUBSET ColdCells BY <1>1 DEF Cache!ColdLocations, ColdCells
<1>3. PICK v : v = Emptied(s, cells) OBVIOUS
<1>4. Sound(v, K) /\ Keeps(s, v) /\ FreeIn(v, cells) BY <1>2, <1>3, CellsForgotten
<1>5. PICK u : u = IF Cache!FreeCells(s.cold[b]) = {} THEN v ELSE s OBVIOUS
<1>6. Sound(u, K) /\ Keeps(s, u)
  <2>1. Keeps(s, s) BY DEF Keeps
  <2> QED BY <1>4, <1>5, <2>1
<1>7. PICK c : c = Cache!FindFreeCell(u.cold[b]) OBVIOUS
<1>8. c \in Cache!CellIdx /\ u.cold[b][c] = Free
  <2>1. u = Room(s, b) BY <1>1, <1>3, <1>5 DEF Room
  <2> QED BY <1>7, <2>1, CellFound
<1>9. t = Filled(u, e, buf, b, c)
  BY <1>1, <1>3, <1>5, <1>7 DEF Cache!PutInCell, Cache!FlushBucket, Emptied, Filled
<1>10. Sound(t, K) /\ Takes(u, t, e, buf.n) BY <1>6, <1>8, <1>9, CellFilled
<1> QED BY <1>6, <1>10, KeepsThenTakes

LEMMA Panicking ==
    ASSUME NEW K \in SUBSET Keys, NEW s, Sound(s, K), NEW e, NEW n, NEW t, t = Cache!Panic(s)
    PROVE  Sound(t, K) /\ Takes(s, t, e, n)
<1>1. /\ t.loc = s.loc /\ t.cold = s.cold /\ t.hot = s.hot /\ t.calls = s.calls
      /\ t.panicked = TRUE
      /\ IsCache(t)
  BY PanicMade DEF Sound
<1>2. Typed(t) BY <1>1 DEF Sound, Typed
<1>3. Sound(t, K) BY <1>1, <1>2, LeadsStill
<1>4. Takes(s, t, e, n) BY <1>1 DEF Takes, HandedOut, Has, InHot, InCell, Holds
<1> QED BY <1>3, <1>4

(* The map gives a key a hot location, wherever it led before.             *)
LEMMA MadeHot ==
    ASSUME NEW K \in SUBSET Keys, NEW e \in Keys, NEW s, Sound(s, K \ {e}),
           NEW t, t = Heated(s, e)
    PROVE  Sound(t, K) /\ Keeps(s, t) /\ t.panicked = s.panicked
<1>1. /\ t.loc = [s.loc EXCEPT ![e] = Cache!HotLocation] /\ t.cold = s.cold /\ t.hot = s.hot
      /\ t.calls = s.calls /\ t.panicked = s.panicked
      /\ IsCache(t)
  <2>1. /\ t.loc = WithKey(s.loc, e, Cache!HotLocation) /\ t.cold = s.cold
        /\ t.hot = s.hot /\ t.cap = s.cap /\ t.calls = s.calls
        /\ t.panicked = s.panicked /\ IsCache(t)
    BY HeatedMade DEF Sound
  <2> QED BY <2>1 DEF WithKey
<1>2. s.loc \in [Keys -> Locs] /\ Cache!HotLocation \in Locs BY LocsAre DEF Sound, Typed
<1>3. t.loc \in [Keys -> Locs] BY <1>1, <1>2
<1>4. Typed(t) BY <1>1, <1>3 DEF Sound, Typed
<1>5. t.loc[e] = Cache!HotLocation /\ \A k \in Keys \ {e} : t.loc[k] = s.loc[k]
  BY <1>1, <1>2
<1>6. \A k \in K \ {e} : Leads(t, k)
  <2>1. \A k \in K \ {e} : Leads(s, k) /\ t.loc[k] = s.loc[k] BY <1>5 DEF Sound
  <2> QED BY <1>1, <2>1 DEF Leads, Holds
<1>7. Leads(t, e) BY <1>5, NoneIsCold DEF Leads
<1>8. Sound(t, K) BY <1>4, <1>6, <1>7 DEF Sound
<1>9. Keeps(s, t) BY <1>1 DEF Keeps, Has, HandedOut, InHot, InCell, Holds
<1> QED BY <1>1, <1>8, <1>9

LEMMA KeepsTwice ==
    ASSUME NEW s, NEW t, NEW u, Keeps(s, t), Keeps(t, u)
    PROVE  Keeps(s, u)
BY DEF Keeps

(* putInCold: in a cell, or in a new hot entry.                            *)
LEMMA ColdTakes ==
    ASSUME NEW K \in SUBSET Keys, NEW s, Sound(s, K), NEW e \in Keys,
           NEW buf \in CacheBuffer, buf.key = e, NEW t, t = Cache!PutInCold(s, e, buf)
    PROVE  Sound(t, K) /\ Takes(s, t, e, buf.n)
<1>1. CASE Cache!FitBuckets(buf) # {}
  <2>1. PICK S : S = Cache!FitBuckets(buf) OBVIOUS
  <2>2. S \in SUBSET Cache!BucketIdx /\ S \in SUBSET Nat /\ S # {}
    BY <1>1, <2>1, CacheConstants DEF Cache!FitBuckets, Cache!BucketIdx
  <2>3. PICK b : b = Cache!Min(S) OBVIOUS
  <2>4. \E x \in S : \A y \in S : x <= y BY <2>2, LeastOne
  <2>5. b \in Cache!BucketIdx BY <2>2, <2>3, <2>4 DEF Cache!Min
  <2>6. t = Cache!PutInCell(s, e, buf, b) BY <1>1, <2>1, <2>3 DEF Cache!PutInCold
  <2> QED BY <2>5, <2>6, CellTakes
<1>2. CASE Cache!FitBuckets(buf) = {}
  <2>1. t = Cache!PutNewInHot(s, e, buf) BY <1>2 DEF Cache!PutInCold
  <2>2. CASE Cache!Bytes(buf) > MaxBufLen
    <3>1. t = Cache!Panic(s) BY <2>1, <2>2 DEF Cache!PutNewInHot
    <3> QED BY <3>1, Panicking
  <2>3. CASE ~(Cache!Bytes(buf) > MaxBufLen)
    <3>1. PICK v : v = Cache!FlushHot(s) OBVIOUS
    <3>2. PICK u : u = IF s.cap + Cache!Bytes(buf) > MaxCap THEN v ELSE s OBVIOUS
    <3>3. Sound(u, K) /\ Keeps(s, u)
      <4>1. Keeps(s, s) BY DEF Keeps
      <4>2. Sound(v, K) /\ Keeps(s, v) BY <3>1, HotFlushed
      <4> QED BY <3>2, <4>1, <4>2
    <3>4. PICK w : w = Heated(u, e) OBVIOUS
    <3>5. Sound(u, K \ {e}) BY <3>3 DEF Sound
    <3>6. Sound(w, K) /\ Keeps(u, w) BY <3>4, <3>5, MadeHot
    <3>7. t = Cache!AppendHot(w, e, buf)
      BY <2>1, <2>3, <3>1, <3>2, <3>4 DEF Cache!PutNewInHot, Heated
    <3>8. Sound(t, K) /\ Takes(w, t, e, buf.n) BY <3>6, <3>7, HotAppended
    <3> QED BY <3>3, <3>6, <3>8, KeepsTwice, KeepsThenTakes
  <2> QED BY <2>2, <2>3
<1> QED BY <1>1, <1>2

(* putInHot: all its ways out.                                             *)
LEMMA HotTakes ==
    ASSUME NEW K \in SUBSET Keys, NEW s, Sound(s, K), NEW e \in Keys,
           NEW buf \in CacheBuffer, buf.key = e, NEW t, t = Cache!PutInHot(s, e, buf)
    PROVE  Sound(t, K) /\ Takes(s, t, e, buf.n)
<1>1. \/ t = Cache!Panic(s)
      \/ t = Cache!PutInCold(Cache!FlushHot(s), e, buf)
      \/ t = Cache!PutInCold(Cache!EvictEntry(s, e), e, buf)
      \/ t = Cache!AppendHot(s, e, buf)
  BY DEF Cache!PutInHot
<1>2. CASE t = Cache!Panic(s) BY <1>2, Panicking
<1>3. CASE t = Cache!PutInCold(Cache!FlushHot(s), e, buf)
  <2>1. PICK u : u = Cache!FlushHot(s) OBVIOUS
  <2>2. Sound(u, K) /\ Keeps(s, u) BY <2>1, HotFlushed
  <2>3. Sound(t, K) /\ Takes(u, t, e, buf.n) BY <1>3, <2>1, <2>2, ColdTakes
  <2> QED BY <2>2, <2>3, KeepsThenTakes
<1>4. CASE t = Cache!PutInCold(Cache!EvictEntry(s, e), e, buf)
  <2>1. PICK u : u = Cache!EvictEntry(s, e) OBVIOUS
  <2>2. Sound(u, K) /\ Keeps(s, u) BY <2>1, EntryEvicted
  <2>3. Sound(t, K) /\ Takes(u, t, e, buf.n) BY <1>4, <2>1, <2>2, ColdTakes
  <2> QED BY <2>2, <2>3, KeepsThenTakes
<1>5. CASE t = Cache!AppendHot(s, e, buf) BY <1>5, HotAppended
<1> QED BY <1>1, <1>2, <1>3, <1>4, <1>5

---------------------------------------------------------------------------
\* Put and Flush.

(* t is s with some of its buffers handed out, unless the program is gone. *)
Moves(s, t) ==
    \A k \in Keys, n \in Nat :
        /\ HandedOut(s, k, n) => HandedOut(t, k, n)
        /\ Has(t, k, n) => Has(s, k, n)
        /\ ~t.panicked => (Has(t, k, n) <=> Has(s, k, n))

(* t is s with buffer n0 of k0 taken out of its cell.                      *)
Loses(s, t, k0, n0) ==
    \A k \in Keys, n \in Nat :
        /\ HandedOut(s, k, n) <=> HandedOut(t, k, n)
        /\ Has(s, k, n) <=> Has(t, k, n) \/ (k = k0 /\ n = n0)

(* A buffer leaves its cell; its key is the only one whose location led    *)
(* there.                                                                  *)
LEMMA CellEmptied ==
    ASSUME NEW s, Sound(s, Keys), NEW e \in Keys,
           NEW b \in Cache!BucketIdx, NEW c \in Cache!CellIdx, Holds(s, b, c, e),
           NEW t, t = EmptyCell(s, b, c)
    PROVE  /\ Sound(t, Keys \ {e})
           /\ s.cold[b][c] \in CacheBuffer
           /\ Loses(s, t, e, s.cold[b][c].n)
<1>1. /\ t.loc = s.loc /\ t.cold = [s.cold EXCEPT ![b][c] = Free] /\ t.hot = s.hot
      /\ t.calls = s.calls
      /\ t.panicked = s.panicked /\ IsCache(t)
  <2>1. Typed(s) BY DEF Sound
  <2>2. /\ t.loc = s.loc /\ t.cold = WithCell(s.cold, b, c, Free) /\ t.hot = s.hot
        /\ t.calls = s.calls /\ t.panicked = s.panicked /\ IsCache(t)
    BY <2>1, EmptyCellMade
  <2> QED BY <2>2 DEF WithCell
<1>2. s.cold \in [Cache!BucketIdx -> [Cache!CellIdx -> CacheBuffer \cup {Free}]]
  BY DEF Sound, Typed
<1>3. /\ t.cold[b][c] = Free
      /\ \A i \in Cache!BucketIdx, j \in Cache!CellIdx :
             i # b \/ j # c => t.cold[i][j] = s.cold[i][j]
  BY <1>1, <1>2
<1>4. s.cold[b][c] \in CacheBuffer BY <1>2 DEF Holds
<1>5. Typed(t)
  <2>1. t.cold \in [Cache!BucketIdx -> [Cache!CellIdx -> CacheBuffer \cup {Free}]]
    BY <1>1, <1>2
  <2> QED BY <1>1, <2>1 DEF Sound, Typed
<1>6. ASSUME NEW k \in Keys \ {e} PROVE Leads(t, k)
  <2> SUFFICES ASSUME Cache!IsCold(s.loc[k])
               PROVE  \E i \in Cache!BucketIdx, j \in Cache!CellIdx :
                          s.loc[k] = Cache!ColdLocation(i, j) /\ Holds(t, i, j, k)
    BY <1>1 DEF Leads
  <2>1. PICK i \in Cache!BucketIdx, j \in Cache!CellIdx :
            s.loc[k] = Cache!ColdLocation(i, j) /\ Holds(s, i, j, k)
    BY DEF Sound, Leads
  <2>2. i # b \/ j # c BY <1>6, <2>1 DEF Holds
  <2>3. t.cold[i][j] = s.cold[i][j] BY <1>3, <2>2
  <2> QED BY <2>1, <2>3 DEF Holds
<1>7. ASSUME NEW k \in Keys, NEW n \in Nat
      PROVE  InCell(s, k, n) <=> InCell(t, k, n) \/ (k = e /\ n = s.cold[b][c].n)
  <2>1. ASSUME InCell(t, k, n) PROVE InCell(s, k, n)
    <3>1. PICK i \in Cache!BucketIdx, j \in Cache!CellIdx :
              Holds(t, i, j, k) /\ t.cold[i][j].n = n
      BY <2>1 DEF InCell
    <3>2. t.cold[i][j] = s.cold[i][j] BY <1>3, <3>1 DEF Holds
    <3> QED BY <3>1, <3>2 DEF InCell, Holds
  <2>2. InCell(s, e, s.cold[b][c].n) BY DEF InCell
  <2>3. ASSUME InCell(s, k, n), ~(k = e /\ n = s.cold[b][c].n) PROVE InCell(t, k, n)
    <3>1. PICK i \in Cache!BucketIdx, j \in Cache!CellIdx :
              Holds(s, i, j, k) /\ s.cold[i][j].n = n
      BY <2>3 DEF InCell
    <3>2. i # b \/ j # c BY <2>3, <3>1 DEF Holds
    <3>3. t.cold[i][j] = s.cold[i][j] BY <1>3, <3>2
    <3> QED BY <3>1, <3>3 DEF InCell, Holds
  <2> QED BY <2>1, <2>2, <2>3
<1>8. \A k, n : /\ HandedOut(t, k, n) <=> HandedOut(s, k, n)
                /\ InHot(t, k, n) <=> InHot(s, k, n)
  BY <1>1 DEF HandedOut, InHot
<1>9. Loses(s, t, e, s.cold[b][c].n) BY <1>7, <1>8 DEF Loses, Has
<1> QED BY <1>4, <1>5, <1>6, <1>9 DEF Sound

(* moveToHotCache: the buffer is kept, wherever putInHot put it.           *)
LEMMA KeyMoved ==
    ASSUME NEW s, Sound(s, Keys), NEW e \in Keys, Cache!IsCold(s.loc[e]),
           NEW t, t = Cache!MoveToHot(s, e)
    PROVE  Moves(s, t) /\ Typed(t) /\ (t.panicked \/ Sound(t, Keys))
<1>1. PICK b \in Cache!BucketIdx, c \in Cache!CellIdx :
          s.loc[e] = Cache!ColdLocation(b, c) /\ Holds(s, b, c, e)
  BY DEF Sound, Leads
<1>2. /\ Cache!ColdBucketIdx(s.loc[e]) = b /\ Cache!ColdCellIdx(s.loc[e]) = c
      /\ Cache!CellAt(s, s.loc[e]) = s.cold[b][c]
  BY <1>1, Locations, CellOfLocation
<1>3. PICK buf : buf = s.cold[b][c] OBVIOUS
<1>4. PICK u : u = EmptyCell(s, b, c) OBVIOUS
<1>5. Sound(u, Keys \ {e}) /\ buf \in CacheBuffer /\ Loses(s, u, e, buf.n)
  BY <1>1, <1>3, <1>4, CellEmptied
<1>6. buf.key = e BY <1>1, <1>3 DEF Holds
<1>7. PICK v : v = Cache!PutInHot(u, e, buf) OBVIOUS
<1>8. PICK L \in SUBSET Keys : L = Keys \ {e} OBVIOUS
<1>9. Sound(u, L) BY <1>5, <1>8
<1>10. Sound(v, L) /\ Takes(u, v, e, buf.n) BY <1>5, <1>6, <1>7, <1>9, HotTakes
<1>11. t = IF v.panicked THEN v ELSE Heated(v, e)
  BY <1>2, <1>3, <1>4, <1>7 DEF Cache!MoveToHot, EmptyCell, Heated
<1>12. Moves(s, v) BY <1>5, <1>10 DEF Moves, Takes, Loses
<1>13. CASE v.panicked BY <1>10, <1>11, <1>12, <1>13 DEF Sound
<1>14. CASE ~v.panicked
  <2>1. t = Heated(v, e) BY <1>11, <1>14
  <2>2. Sound(v, Keys \ {e}) BY <1>8, <1>10
  <2>3. Sound(t, Keys) /\ Keeps(v, t) /\ t.panicked = v.panicked BY <2>1, <2>2, MadeHot
  <2>4. Moves(s, t)
    <3> SUFFICES ASSUME NEW k \in Keys, NEW n \in Nat
                 PROVE  /\ HandedOut(s, k, n) => HandedOut(t, k, n)
                        /\ Has(t, k, n) <=> Has(s, k, n)
      BY DEF Moves
    <3>1. /\ HandedOut(s, k, n) => HandedOut(v, k, n)
          /\ Has(v, k, n) <=> Has(s, k, n)
      BY <1>12, <1>14 DEF Moves
    <3>2. /\ HandedOut(v, k, n) => HandedOut(t, k, n)
          /\ Has(v, k, n) <=> Has(t, k, n)
      BY <2>3 DEF Keeps
    <3> QED BY <3>1, <3>2 DEF Has
  <2> QED BY <2>3, <2>4 DEF Sound
<1> QED BY <1>13, <1>14

(* Put, as one of its ways through the two tiers.                          *)
LEMMA BufferPut ==
    ASSUME Sound(Cache!Cache, Keys), NEW e \in Keys, NEW buf \in CacheBuffer, buf.key = e,
           NEW t, t = Cache!PutBuffer(e, buf)
    PROVE  /\ Takes(Cache!Cache, t, e, buf.n)
           /\ Typed(t) /\ (t.panicked \/ Sound(t, Keys))
<1>1. PICK s : s = Cache!Cache OBVIOUS
<1>2. s.loc = loc BY <1>1 DEF Cache!Cache
<1>3. CASE loc[e] = Cache!NoLoc
  <2>1. t = Cache!PutInCold(s, e, buf) BY <1>1, <1>3 DEF Cache!PutBuffer
  <2>2. Sound(t, Keys) /\ Takes(s, t, e, buf.n) BY <1>1, <2>1, ColdTakes
  <2> QED BY <1>1, <2>2 DEF Sound
<1>4. CASE loc[e] # Cache!NoLoc
  <2>1. PICK u : u = IF Cache!IsCold(loc[e]) THEN Cache!MoveToHot(s, e) ELSE s OBVIOUS
  <2>2. Moves(s, u) /\ Typed(u) /\ (u.panicked \/ Sound(u, Keys))
    <3>1. CASE Cache!IsCold(loc[e])
      <4>1. u = Cache!MoveToHot(s, e) BY <2>1, <3>1
      <4> QED BY <1>1, <1>2, <3>1, <4>1, KeyMoved
    <3>2. CASE ~Cache!IsCold(loc[e])
      <4>1. u = s BY <2>1, <3>2
      <4>2. Moves(s, s) BY DEF Moves, Has
      <4> QED BY <1>1, <4>1, <4>2 DEF Sound
    <3> QED BY <3>1, <3>2
  <2>3. t = IF u.panicked THEN u ELSE Cache!PutInHot(u, e, buf)
    BY <1>1, <1>4, <2>1 DEF Cache!PutBuffer
  <2>4. CASE u.panicked
    <3>1. t = u BY <2>3, <2>4
    <3>2. Takes(s, u, e, buf.n) BY <2>2, <2>4 DEF Moves, Takes, Has
    <3> QED BY <1>1, <2>2, <2>4, <3>1, <3>2
  <2>5. CASE ~u.panicked
    <3>1. t = Cache!PutInHot(u, e, buf) BY <2>3, <2>5
    <3>2. Sound(u, Keys) BY <2>2, <2>5
    <3>3. Sound(t, Keys) /\ Takes(u, t, e, buf.n) BY <3>1, <3>2, HotTakes
    <3>4. Takes(s, t, e, buf.n) BY <2>2, <2>5, <3>3 DEF Moves, Takes
    <3> QED BY <1>1, <3>3, <3>4 DEF Sound
  <2> QED BY <2>4, <2>5
<1> QED BY <1>3, <1>4

(* Flush hands out the cells, then the entries, and clears the map.        *)
LEMMA AllFlushed ==
    ASSUME NEW s, Sound(s, Keys),
           NEW t, t = [Cache!FlushHot(Cache!FlushCold(s)) EXCEPT
                          !.loc = [k \in Keys |-> Cache!NoLoc]]
    PROVE  /\ Sound(t, Keys) /\ Keeps(s, t)
           /\ \A k \in Keys, n \in Nat : HandedOut(t, k, n) <=> Has(t, k, n)
<1>1. PICK cells : cells = UNION {Cache!ColdLocations(b) : b \in Cache!BucketIdx} OBVIOUS
<1>2. cells = ColdCells BY <1>1 DEF Cache!ColdLocations, ColdCells
<1>3. PICK u : u = Cache!FlushCells(s, cells) OBVIOUS
<1>4. Typed(u) /\ Keeps(s, u) BY <1>2, <1>3, CellsFlushed DEF Sound
<1>5. \A b \in Cache!BucketIdx, c \in Cache!CellIdx : u.cold[b][c] = Free
  <2>1. \A b \in Cache!BucketIdx, c \in Cache!CellIdx : Cache!ColdLocation(b, c) \in cells
    BY <1>2 DEF ColdCells
  <2>2. \A b \in Cache!BucketIdx, c \in Cache!CellIdx :
            u.cold[b][c] = IF Cache!ColdLocation(b, c) \in cells THEN Free ELSE s.cold[b][c]
    BY <1>2, <1>3, CellsFlushed DEF Sound
  <2> QED BY <2>1, <2>2
<1>6. PICK v : v = Cache!FlushHot(u) OBVIOUS
<1>7. PICK K \in SUBSET Keys : K = {} OBVIOUS
<1>8. Sound(u, K) BY <1>4, <1>7 DEF Sound
<1>9. Sound(v, K) /\ Keeps(u, v) /\ v.cold = u.cold /\ NoEntries(v)
  BY <1>6, <1>8, HotFlushed
<1>10. /\ t.loc = [k \in Keys |-> Cache!NoLoc] /\ t.cold = v.cold /\ t.hot = v.hot
       /\ t.calls = v.calls /\ t.panicked = v.panicked /\ IsCache(t)
  <2>1. PICK f : f = [k \in Keys |-> Cache!NoLoc] OBVIOUS
  <2>2. t = Located(v, f) BY <1>1, <1>3, <1>6, <2>1 DEF Cache!FlushCold, Located
  <2>3. Typed(v) BY <1>9 DEF Sound
  <2>4. PICK r : r = Located(v, f) OBVIOUS
  <2>5. /\ r.loc = f /\ r.cold = v.cold /\ r.hot = v.hot /\ r.calls = v.calls
        /\ r.panicked = v.panicked /\ IsCache(r)
    BY <2>3, <2>4, LocatedMade
  <2> QED BY <2>1, <2>2, <2>4, <2>5
<1>11. Typed(t)
  <2>1. t.loc \in [Keys -> Locs] BY <1>10, LocsAre
  <2> QED BY <1>9, <1>10, <2>1 DEF Sound, Typed
<1>12. \A k \in Keys : Leads(t, k) BY <1>10, NoneIsCold DEF Leads
<1>13. Keeps(v, t) BY <1>10 DEF Keeps, Has, HandedOut, InHot, InCell, Holds
<1>14. ASSUME NEW k \in Keys, NEW n PROVE ~InHot(t, k, n) /\ ~InCell(t, k, n)
  <2>1. t.hot[k] = <<>> BY <1>9, <1>10 DEF NoEntries
  <2>2. ~InHot(t, k, n) BY <2>1 DEF InHot
  <2>3. ~InCell(t, k, n) BY <1>5, <1>9, <1>10 DEF InCell, Holds
  <2> QED BY <2>2, <2>3
<1>15. Keeps(s, t) BY <1>4, <1>9, <1>13 DEF Keeps
<1> QED BY <1>11, <1>12, <1>14, <1>15 DEF Sound, Has

---------------------------------------------------------------------------
\* The refinement.

(* What is held or was handed out is what was put.                         *)
CacheInv ==
    /\ puts \in [Keys -> Nat]
    /\ Typed(Cache!Cache)
    /\ \A k \in Keys, n \in Nat : Has(Cache!Cache, k, n) => n \in 1 .. puts[k]
    /\ ~putPanics =>
           /\ Sound(Cache!Cache, Keys)
           /\ \A k \in Keys, n \in Nat : Has(Cache!Cache, k, n) <=> n \in 1 .. puts[k]

LEMMA CacheSteps == [Next]_vars => [Cache!Next]_cachevars
BY DEF Next, Only, vars, cachevars

LEMMA Became ==
    ASSUME NEW t, Typed(t), Cache!Become(t)
    PROVE  (Cache!Cache)' = t /\ putPanics' = t.panicked
<1>1. PICK l, d, h, q, o, x : MadeOf(t, l, d, h, q, o, x) BY CacheParts DEF Typed
<1> QED BY <1>1 DEF MadeOf, Cache!Become, Cache!Cache

(* A step leaves what was put where it can be found, hands out nothing     *)
(* that was put later, and takes nothing back.                             *)
LEMMA PutStep ==
    ASSUME CacheInv, NEW e \in Keys, NEW len \in Lens, Cache!Put(e, len)
    PROVE  /\ CacheInv'
           /\ \A k \in Keys, n \in Nat :
                  /\ HandedOut(Cache!Cache, k, n) => HandedOut(Cache!Cache, k, n)'
                  /\ HandedOut(Cache!Cache, k, n)' => n \in 1 .. puts[k]
<1>1. PICK s : s = Cache!Cache OBVIOUS
<1>2. PICK buf : buf = [key |-> e, n |-> puts[e] + 1, len |-> len] OBVIOUS
<1>3. PICK t : t = Cache!PutBuffer(e, buf) OBVIOUS
<1>4. puts \in [Keys -> Nat] /\ ~putPanics BY DEF CacheInv, Cache!Put
<1>5. buf \in CacheBuffer /\ buf.key = e /\ buf.n = puts[e] + 1 BY <1>2, <1>4 DEF CacheBuffer
<1>6. /\ Sound(s, Keys)
      /\ \A k \in Keys, n \in Nat : Has(s, k, n) <=> n \in 1 .. puts[k]
  BY <1>1, <1>4 DEF CacheInv
<1>7. Takes(s, t, e, buf.n) /\ Typed(t) /\ (t.panicked \/ Sound(t, Keys))
  BY <1>1, <1>3, <1>5, <1>6, BufferPut
<1>8. Cache!Become(t) /\ puts' = [puts EXCEPT ![e] = @ + 1] BY <1>2, <1>3 DEF Cache!Put
<1>9. (Cache!Cache)' = t /\ putPanics' = t.panicked BY <1>7, <1>8, Became
<1>10. puts' \in [Keys -> Nat] BY <1>4, <1>8
<1>11. ASSUME NEW k \in Keys, NEW n \in Nat
       PROVE  /\ HandedOut(s, k, n) => HandedOut(t, k, n)
              /\ HandedOut(t, k, n) => n \in 1 .. puts[k]
              /\ Has(t, k, n) => n \in 1 .. puts'[k]
              /\ ~t.panicked => (Has(t, k, n) <=> n \in 1 .. puts'[k])
  <2>1. /\ HandedOut(s, k, n) => HandedOut(t, k, n)
        /\ HandedOut(t, k, n) => Has(s, k, n)
        /\ Has(t, k, n) => Has(s, k, n) \/ (k = e /\ n = buf.n)
        /\ ~t.panicked => (Has(t, k, n) <=> Has(s, k, n) \/ (k = e /\ n = buf.n))
        /\ Has(s, k, n) <=> n \in 1 .. puts[k]
    BY <1>6, <1>7 DEF Takes
  <2>2. puts[k] \in Nat /\ puts'[k] = IF k = e THEN puts[k] + 1 ELSE puts[k] BY <1>4, <1>8
  <2>3. n \in 1 .. puts'[k] <=> n \in 1 .. puts[k] \/ (k = e /\ n = puts[e] + 1) BY <2>2
  <2> QED BY <1>5, <2>1, <2>3
<1>12. CacheInv' BY <1>7, <1>9, <1>10, <1>11 DEF CacheInv
<1> QED BY <1>1, <1>9, <1>11, <1>12

LEMMA FlushStep ==
    ASSUME CacheInv, Cache!Flush
    PROVE  /\ CacheInv' /\ UNCHANGED puts
           /\ \A k \in Keys, n \in Nat : HandedOut(Cache!Cache, k, n)' <=> n \in 1 .. puts[k]
<1>1. PICK s : s = Cache!Cache OBVIOUS
<1>2. PICK t : t = [Cache!FlushHot(Cache!FlushCold(s)) EXCEPT
                       !.loc = [k \in Keys |-> Cache!NoLoc]]
  OBVIOUS
<1>3. ~putPanics /\ Cache!Become(t) /\ UNCHANGED puts BY <1>1, <1>2 DEF Cache!Flush
<1>4. /\ Sound(s, Keys)
      /\ \A k \in Keys, n \in Nat : Has(s, k, n) <=> n \in 1 .. puts[k]
  BY <1>1, <1>3 DEF CacheInv
<1>5. /\ Sound(t, Keys) /\ Keeps(s, t)
      /\ \A k \in Keys, n \in Nat : HandedOut(t, k, n) <=> Has(t, k, n)
  BY <1>2, <1>4, AllFlushed
<1>6. \A k \in Keys, n \in Nat : /\ HandedOut(t, k, n) <=> n \in 1 .. puts[k]
                                 /\ Has(t, k, n) <=> n \in 1 .. puts[k]
  BY <1>4, <1>5 DEF Keeps
<1>7. Typed(t) BY <1>5 DEF Sound
<1>8. (Cache!Cache)' = t BY <1>3, <1>7, Became
<1>9. puts' \in [Keys -> Nat] BY <1>3 DEF CacheInv
<1>10. CacheInv' BY <1>3, <1>5, <1>6, <1>7, <1>8, <1>9 DEF CacheInv
<1> QED BY <1>3, <1>6, <1>8, <1>10

LEMMA GivenOut ==
    ASSUME CacheInv, NEW k \in Keys
    PROVE  /\ Cache!Handed(k) \subseteq Nat
           /\ \A n : n \in Cache!Handed(k) <=> HandedOut(Cache!Cache, k, n)
<1>1. Cache!Cache.calls = calls BY DEF Cache!Cache
<1>2. \A n : n \in Cache!Handed(k) <=> HandedOut(Cache!Cache, k, n)
  BY <1>1 DEF Cache!Handed, Cache!Range, HandedOut
<1>3. PICK o \in Seq(Seq(Nat)) : o = Cache!Cache.calls[k] BY DEF CacheInv, Typed
<1>4. \A i \in DOMAIN o : \A j \in DOMAIN o[i] : o[i][j] \in Nat
  <2> SUFFICES ASSUME NEW i \in DOMAIN o, NEW j \in DOMAIN o[i] PROVE o[i][j] \in Nat
    OBVIOUS
  <2>1. o[i] \in Seq(Nat) BY <1>3
  <2> QED BY <2>1
<1> QED BY <1>2, <1>3, <1>4 DEF HandedOut

(* What the cache has handed out is what the store has.                    *)
HandedNow == [k \in Keys |-> Cache!Handed(k)]

LEMMA CacheStep ==
    ASSUME CacheInv, [Cache!Next]_cachevars
    PROVE  CacheInv' /\ [Cache!Store!Next]_(Cache!Store!vars)
<1>1. CASE UNCHANGED cachevars
  <2>1. UNCHANGED <<puts, putPanics, Cache!Cache>> BY <1>1 DEF cachevars, Cache!Cache
  <2>2. UNCHANGED HandedNow BY <1>1 DEF cachevars, HandedNow, Cache!Handed
  <2>3. CacheInv' BY <2>1 DEF CacheInv
  <2> QED BY <2>1, <2>2, <2>3 DEF Cache!Store!vars, HandedNow
<1>2. CASE Cache!Flush
  <2>1. /\ CacheInv' /\ UNCHANGED puts
        /\ \A k \in Keys, n \in Nat : HandedOut(Cache!Cache, k, n)' <=> n \in 1 .. puts[k]
    BY <1>2, FlushStep
  <2>2. ASSUME NEW k \in Keys PROVE Cache!Handed(k)' = 1 .. puts[k]
    <3>1. /\ (Cache!Handed(k) \subseteq Nat)'
          /\ (\A n : n \in Cache!Handed(k) <=> HandedOut(Cache!Cache, k, n))'
      BY <2>1, GivenOut, PTL
    <3>2. \A n : n \in 1 .. puts[k] => n \in Nat BY DEF CacheInv
    <3> QED BY <2>1, <3>1, <3>2
  <2>3. HandedNow' = [k \in Keys |-> 1 .. puts[k]] BY <2>2 DEF HandedNow
  <2>4. Cache!Store!Flush
    BY <2>1, <2>3 DEF Cache!Store!Flush, Cache!Store!Given, HandedNow
  <2> QED BY <2>1, <2>4 DEF Cache!Store!Next
<1>3. ASSUME NEW e \in Keys, NEW len \in Lens, Cache!Put(e, len)
      PROVE  CacheInv' /\ Cache!Store!Next
  <2>1. /\ CacheInv'
        /\ \A k \in Keys, n \in Nat :
               /\ HandedOut(Cache!Cache, k, n) => HandedOut(Cache!Cache, k, n)'
               /\ HandedOut(Cache!Cache, k, n)' => n \in 1 .. puts[k]
    BY <1>3, PutStep
  <2>2. ASSUME NEW k \in Keys
        PROVE  /\ Cache!Handed(k)' \in SUBSET Nat
               /\ Cache!Handed(k) \subseteq Cache!Handed(k)'
               /\ Cache!Handed(k)' \subseteq 1 .. puts[k]
    <3>1. /\ (Cache!Handed(k) \subseteq Nat)'
          /\ (\A n : n \in Cache!Handed(k) <=> HandedOut(Cache!Cache, k, n))'
      BY <2>1, GivenOut, PTL
    <3>2. /\ Cache!Handed(k) \subseteq Nat
          /\ \A n : n \in Cache!Handed(k) <=> HandedOut(Cache!Cache, k, n)
      BY GivenOut
    <3> QED BY <2>1, <3>1, <3>2
  <2>3. puts' = [puts EXCEPT ![e] = @ + 1] BY <1>3 DEF Cache!Put
  <2>4. /\ HandedNow' \in [Keys -> SUBSET Nat]
        /\ \A k \in Keys : /\ HandedNow[k] \subseteq HandedNow'[k]
                           /\ HandedNow'[k] \subseteq 1 .. puts[k]
    BY <2>2 DEF HandedNow
  <2>5. Cache!Store!Put(e)
    BY <2>3, <2>4 DEF Cache!Store!Put, Cache!Store!Given, HandedNow
  <2> QED BY <2>1, <2>5 DEF Cache!Store!Next
<1> QED BY <1>1, <1>2, <1>3 DEF Cache!Next

LEMMA CacheBegins == Init => CacheInv /\ Cache!Store!Init
<1> SUFFICES ASSUME Init PROVE CacheInv /\ Cache!Store!Init OBVIOUS
<1>1. /\ loc = [k \in Keys |-> Cache!NoLoc]
      /\ cold = [b \in Cache!BucketIdx |-> [c \in Cache!CellIdx |-> Free]]
      /\ hot = [k \in Keys |-> <<>>] /\ puts = [k \in Keys |-> 0]
      /\ calls = [k \in Keys |-> <<>>] /\ putPanics = FALSE
  BY DEF Init, Start, Cache!Init
<1>2. PICK s : s = Cache!Cache OBVIOUS
<1>3. /\ s.loc = loc /\ s.cold = cold /\ s.hot = hot /\ s.calls = calls
      /\ s.panicked = putPanics /\ IsCache(s)
  BY <1>2 DEF Cache!Cache, IsCache
<1>4. Typed(s)
  <2>1. <<>> \in Seq(CacheBuffer) /\ <<>> \in Seq(Seq(Nat)) /\ Cache!NoLoc \in Locs
    BY LocsAre
  <2>2. s.panicked \in BOOLEAN BY <1>1, <1>3
  <2> QED BY <1>1, <1>3, <2>1, <2>2 DEF Typed
<1>5. \A k \in Keys : Leads(s, k) BY <1>1, <1>3, NoneIsCold DEF Leads
<1>6. ASSUME NEW k \in Keys
      PROVE  puts[k] = 0 /\ \A n : ~HandedOut(s, k, n) /\ ~Has(s, k, n)
  <2>1. s.hot[k] = <<>> /\ s.calls[k] = <<>> BY <1>1, <1>3
  <2>2. \A n : ~InHot(s, k, n) /\ ~HandedOut(s, k, n) BY <2>1 DEF InHot, HandedOut
  <2>3. \A n : ~InCell(s, k, n) BY <1>1, <1>3 DEF InCell, Holds
  <2> QED BY <1>1, <2>2, <2>3 DEF Has
<1>7. puts \in [Keys -> Nat] BY <1>1
<1>8. CacheInv BY <1>2, <1>4, <1>5, <1>6, <1>7 DEF CacheInv, Sound
<1>9. HandedNow = [k \in Keys |-> {}]
  <2>1. \A k \in Keys : calls[k] = <<>> BY <1>1
  <2>2. \A k \in Keys : Cache!Handed(k) = {} BY <2>1 DEF Cache!Handed
  <2> QED BY <2>2 DEF HandedNow
<1>10. Cache!Store!Init BY <1>1, <1>9 DEF Cache!Store!Init, HandedNow
<1> QED BY <1>8, <1>10

(* The two tiers implement the keyed store: whatever evictions a Put runs   *)
(* through, no buffer is lost between cells, entries and OnFlush, none is   *)
(* handed out before it was put, and Flush leaves nothing behind.           *)
THEOREM CacheIsAStore == Spec => ImplementsStore
<1>1. Init => CacheInv /\ Cache!Store!Init BY CacheBegins
<1>2. CacheInv /\ [Next]_vars => CacheInv' /\ [Cache!Store!Next]_(Cache!Store!vars)
  BY CacheSteps, CacheStep
<1> QED
  BY <1>1, <1>2, PTL DEF Spec, ImplementsStore, Cache!ImplementsStore, Cache!Store!Spec

(***************************************************************************)
(* The bytes of an entry are the sum of those of its buffers.              *)
(***************************************************************************)
Sizes(h) == [i \in DOMAIN h |-> Cache!Bytes(h[i])]
SizeAdder(h) ==
    CHOOSE g : g = [S \in SUBSET DOMAIN h |->
        IF S = {} THEN 0 ELSE Cache!Bytes(h[Any(S)]) + g[S \ {Any(S)}]]

LEMMA BufferBytes ==
    ASSUME NEW buf \in CacheBuffer
    PROVE  Cache!Bytes(buf) \in Nat /\ Cache!Bytes(buf) > 0
<1>1. {Prefix, NumBits, Words, CellSpan, BucketSpan} \subseteq Nat \ {0} /\ Lens \subseteq Nat
  BY RecordsAssumption DEF Cache!ConfigAssumption
<1>2. Prefix \in Nat /\ Prefix > 0 BY <1>1
<1>3. buf.len \in Nat BY <1>1 DEF CacheBuffer
<1> QED BY <1>2, <1>3 DEF Cache!Bytes

LEMMA EntrySum ==
    ASSUME NEW h \in Seq(CacheBuffer)
    PROVE  \E g : Sums(g, Sizes(h), DOMAIN h) /\ Cache!EntryBytes(h) = g[DOMAIN h]
<1>1. Cache!EntryBytes(h) = SizeAdder(h)[DOMAIN h]
  BY DEF Cache!EntryBytes, Cache!FoldSeq, Cache!FoldFunction, Cache!FoldFunctionOnSet,
         Cache!MapThenFoldSet, SizeAdder, Any
<1>2. PICK D : D = DOMAIN h OBVIOUS
<1>3. IsFiniteSet(D)
  <2>1. PICK n \in Nat : n = Len(h) OBVIOUS
  <2>2. D = 1 .. n BY <1>2, <2>1
  <2> QED BY <2>2, FS_Interval
<1>4. Numbers(Sizes(h), D)
  <2>1. \A i \in D : h[i] \in CacheBuffer BY <1>2
  <2> QED BY <1>2, <2>1, BufferBytes DEF Numbers, Sizes
<1>5. PICK g \in [SUBSET D -> Nat] : Adding(g, Sizes(h), D) BY <1>3, <1>4, SumsExist
<1>6. \A S \in SUBSET D : S # {} => Sizes(h)[Any(S)] = Cache!Bytes(h[Any(S)])
  BY <1>2 DEF Any, Sizes
<1>7. g = [S \in SUBSET D |->
               IF S = {} THEN 0 ELSE Cache!Bytes(h[Any(S)]) + g[S \ {Any(S)}]]
  BY <1>5, <1>6 DEF Adding, Adds
<1>8. PICK a : a = SizeAdder(h) OBVIOUS
<1>9. a = [S \in SUBSET D |->
               IF S = {} THEN 0 ELSE Cache!Bytes(h[Any(S)]) + a[S \ {Any(S)}]]
  BY <1>2, <1>7, <1>8 DEF SizeAdder
<1>10. Adding(a, Sizes(h), D) BY <1>6, <1>9 DEF Adding, Adds
<1>11. Within(D, D) /\ Agree(Sizes(h), Sizes(h), D) BY DEF Within, Agree
<1>12. a[D] = g[D] BY <1>3, <1>5, <1>10, <1>11, AddedSame
<1>13. Sums(g, Sizes(h), D) BY <1>3, <1>4, <1>5 DEF Sums
<1> QED BY <1>1, <1>2, <1>8, <1>12, <1>13

LEMMA EntryBytesAre ==
    ASSUME NEW h \in Seq(CacheBuffer)
    PROVE  /\ Cache!EntryBytes(h) \in Nat
           /\ h = <<>> => Cache!EntryBytes(h) = 0
           /\ \A buf \in CacheBuffer :
                  Cache!EntryBytes(Append(h, buf)) = Cache!EntryBytes(h) + Cache!Bytes(buf)
<1>1. PICK D : D = DOMAIN h OBVIOUS
<1>2. PICK g : Sums(g, Sizes(h), D) /\ Cache!EntryBytes(h) = g[D] BY <1>1, EntrySum
<1>3. g[D] \in Nat /\ g[{}] = 0
  <2>1. D \in SUBSET D /\ {} \in SUBSET D OBVIOUS
  <2> QED BY <1>2, <2>1 DEF Sums, Adding, Adds
<1>4. h = <<>> => D = {} BY <1>1
<1>5. ASSUME NEW buf \in CacheBuffer
      PROVE  Cache!EntryBytes(Append(h, buf)) = g[D] + Cache!Bytes(buf)
  <2>1. PICK n : n = Len(h) + 1 OBVIOUS
  <2>2. PICK o \in Seq(CacheBuffer) : o = Append(h, buf)
    <3>1. Append(h, buf) \in Seq(CacheBuffer) OBVIOUS
    <3> QED BY <3>1
  <2>3. PICK E : E = DOMAIN o OBVIOUS
  <2>4. n \in E /\ E \ {n} = D /\ o[n] = buf /\ \A i \in D : o[i] = h[i]
    <3>1. /\ Len(h) \in Nat /\ D = 1 .. Len(h) /\ E = 1 .. Len(h) + 1
          /\ o[Len(h) + 1] = buf /\ \A i \in 1 .. Len(h) : o[i] = h[i]
      BY <1>1, <2>2, <2>3
    <3> QED BY <2>1, <3>1
  <2>5. PICK f : Sums(f, Sizes(o), E) /\ Cache!EntryBytes(o) = f[E] BY <2>3, EntrySum
  <2>6. Within(E, E) /\ Within(D, D) /\ Within(D, E) BY <2>4 DEF Within
  <2>7. f[E] = Sizes(o)[n] + f[D]
    <3>1. f[E] = Sizes(o)[n] + f[Less(E, n)] BY <2>4, <2>5, <2>6, SumSplit
    <3> QED BY <2>4, <3>1 DEF Less
  <2>8. Agree(Sizes(h), Sizes(o), D) BY <1>1, <2>3, <2>4 DEF Sizes, Agree
  <2>9. g[D] = f[D] BY <1>2, <2>5, <2>6, <2>8, SumSame
  <2>10. Sizes(o)[n] = Cache!Bytes(buf) BY <2>3, <2>4 DEF Sizes
  <2>11. Cache!Bytes(buf) \in Nat BY BufferBytes
  <2> QED BY <1>3, <2>2, <2>5, <2>7, <2>9, <2>10, <2>11
<1> QED BY <1>2, <1>3, <1>4, <1>5

(***************************************************************************)
(* The limits of the hot cache, and the map that agrees with it.  While a  *)
(* Put is under way the location of its own key e may be ahead of what the *)
(* tiers hold, so Agrees says it for the keys of a set K.                  *)
(***************************************************************************)
EntrySizes(s) == [k \in Keys |-> Cache!EntryBytes(s.hot[k])]
Fits(s) ==
    /\ s.cap = Cache!SumFunction(EntrySizes(s)) /\ s.cap <= MaxCap
    /\ \A k \in Keys : Cache!EntryBytes(s.hot[k]) <= MaxBufLen
AtHot(s, k) == s.loc[k] = Cache!HotLocation
Agrees(s, K) == \A k \in K : AtHot(s, k) <=> s.hot[k] # <<>>

LEMMA CacheLimits ==
    /\ IsFiniteSet(Keys) /\ MaxPuts \in Nat
    /\ MaxCap \in Nat /\ MaxBufLen \in Nat /\ MaxBufLen <= MaxCap
BY RecordsAssumption DEF Cache!ConfigAssumption, IsFiniteSet, Cache!IsFiniteSet

LEMMA SizesOf ==
    ASSUME NEW s, Typed(s)
    PROVE  /\ EntrySizes(s) \in [Keys -> Nat]
           /\ Cache!SumFunction(EntrySizes(s)) \in Nat
           /\ \A k \in Keys : /\ Cache!EntryBytes(s.hot[k]) \in Nat
                              /\ s.hot[k] = <<>> => Cache!EntryBytes(s.hot[k]) = 0
                              /\ EntrySizes(s)[k] = Cache!EntryBytes(s.hot[k])
<1>1. \A k \in Keys : s.hot[k] \in Seq(CacheBuffer) BY DEF Typed
<1>2. \A k \in Keys : /\ Cache!EntryBytes(s.hot[k]) \in Nat
                      /\ s.hot[k] = <<>> => Cache!EntryBytes(s.hot[k]) = 0
  BY <1>1, EntryBytesAre
<1>3. PICK f : f = EntrySizes(s) OBVIOUS
<1>4. f \in [Keys -> Nat] BY <1>2, <1>3 DEF EntrySizes
<1>5. Cache!SumFunction(f) \in Nat BY <1>4, SumOfNumbers, CacheLimits
<1> QED BY <1>2, <1>3, <1>4, <1>5 DEF EntrySizes

(* The entry of one key changes.                                           *)
LEMMA EntryChanged ==
    ASSUME NEW s, Typed(s), NEW t, Typed(t), NEW e \in Keys,
           \A k \in Keys \ {e} : t.hot[k] = s.hot[k]
    PROVE  Cache!SumFunction(EntrySizes(t)) =
               Cache!SumFunction(EntrySizes(s))
                   - Cache!EntryBytes(s.hot[e]) + Cache!EntryBytes(t.hot[e])
<1>1. PICK f : f = EntrySizes(s) OBVIOUS
<1>2. PICK g : g = EntrySizes(t) OBVIOUS
<1>3. f \in [Keys -> Nat] /\ g \in [Keys -> Nat] BY <1>1, <1>2, SizesOf
<1>4. /\ f[e] = Cache!EntryBytes(s.hot[e]) /\ g[e] = Cache!EntryBytes(t.hot[e])
      /\ \A k \in Keys \ {e} : f[k] = g[k]
  BY <1>1, <1>2 DEF EntrySizes
<1>5. Cache!SumFunction(g) = Cache!SumFunction(f) - f[e] + g[e]
  BY <1>3, <1>4, SumChanged, CacheLimits
<1> QED BY <1>1, <1>2, <1>4, <1>5

LEMMA FitsStill ==
    ASSUME NEW s, Fits(s), NEW t, t.hot = s.hot, t.cap = s.cap
    PROVE  Fits(t)
BY DEF Fits, EntrySizes

LEMMA PanicFits ==
    ASSUME NEW K \in SUBSET Keys, NEW s, Sound(s, K), Fits(s), NEW t, t = Cache!Panic(s)
    PROVE  Fits(t) /\ t.panicked
<1>1. t.hot = s.hot /\ t.cap = s.cap /\ t.panicked = TRUE BY PanicMade DEF Sound
<1> QED BY <1>1, FitsStill

LEMMA FlushFits ==
    ASSUME NEW K \in SUBSET Keys, NEW s, Sound(s, K), NEW t, t = Cache!FlushHot(s)
    PROVE  Fits(t) /\ t.cap = 0 /\ Agrees(t, Keys) /\ NoEntries(t)
<1>1. Typed(s) /\ Typed(t) /\ NoEntries(t) BY HotFlushed DEF Sound
<1>2. t.cap = 0 /\ t.loc = Cache!Forget(s.loc, {Cache!HotLocation}) BY <1>1, HotFlushMade
<1>3. Agrees(t, Keys)
  <2>1. \A k \in Keys : ~AtHot(t, k) BY <1>2, NoneIsCold DEF AtHot, Cache!Forget
  <2> QED BY <1>1, <2>1 DEF Agrees, NoEntries
<1>4. \A k \in Keys : Cache!EntryBytes(t.hot[k]) = 0 BY <1>1, SizesOf DEF NoEntries
<1>5. Cache!SumFunction(EntrySizes(t)) = 0
  <2>1. PICK f : f = EntrySizes(t) OBVIOUS
  <2>2. f \in [Keys -> Nat] /\ \A k \in Keys : f[k] = 0 BY <1>1, <1>4, <2>1, SizesOf
  <2>3. Cache!SumFunction(f) = 0 BY <2>2, SumOfZeros, CacheLimits
  <2> QED BY <2>1, <2>3
<1>6. Fits(t) BY <1>2, <1>4, <1>5, CacheLimits DEF Fits
<1> QED BY <1>1, <1>2, <1>3, <1>6

LEMMA EvictFits ==
    ASSUME NEW K \in SUBSET Keys, NEW s, Sound(s, K), Fits(s), NEW e \in Keys,
           Agrees(s, Keys \ {e}), NEW t, t = Cache!EvictEntry(s, e)
    PROVE  Fits(t) /\ Agrees(t, Keys) /\ t.hot[e] = <<>>
<1>1. Typed(s) /\ Typed(t) BY EntryEvicted DEF Sound
<1>2. /\ t.loc = WithKey(s.loc, e, Cache!NoLoc) /\ t.hot = WithKey(s.hot, e, <<>>)
      /\ t.cap = s.cap - Cache!EntryBytes(s.hot[e])
  BY <1>1, EvictionMade
<1>3. s.hot \in [Keys -> Seq(CacheBuffer)] /\ s.loc \in [Keys -> Locs] BY <1>1 DEF Typed
<1>4. /\ t.hot[e] = <<>> /\ t.loc[e] = Cache!NoLoc
      /\ \A k \in Keys \ {e} : t.hot[k] = s.hot[k] /\ t.loc[k] = s.loc[k]
  BY <1>2, <1>3 DEF WithKey
<1>5. Agrees(t, Keys)
  <2>1. ~AtHot(t, e) BY <1>4, NoneIsCold DEF AtHot
  <2> QED BY <1>4, <2>1 DEF Agrees, AtHot
<1>6. Cache!EntryBytes(t.hot[e]) = 0 BY <1>1, <1>4, SizesOf
<1>7. t.cap = Cache!SumFunction(EntrySizes(t))
  <2>1. Cache!SumFunction(EntrySizes(t)) =
            Cache!SumFunction(EntrySizes(s))
                - Cache!EntryBytes(s.hot[e]) + Cache!EntryBytes(t.hot[e])
    BY <1>1, <1>4, EntryChanged
  <2>2. Cache!SumFunction(EntrySizes(s)) \in Nat /\ Cache!EntryBytes(s.hot[e]) \in Nat
    BY <1>1, SizesOf
  <2> QED BY <1>2, <1>6, <2>1, <2>2 DEF Fits
<1>8. t.cap <= MaxCap
  <2>1. Cache!SumFunction(EntrySizes(s)) \in Nat /\ Cache!EntryBytes(s.hot[e]) \in Nat
    BY <1>1, SizesOf
  <2> QED BY <1>2, <2>1, CacheLimits DEF Fits
<1>9. \A k \in Keys : Cache!EntryBytes(t.hot[k]) <= MaxBufLen
  BY <1>4, <1>6, CacheLimits DEF Fits
<1> QED BY <1>4, <1>5, <1>7, <1>8, <1>9 DEF Fits

LEMMA AppendFits ==
    ASSUME NEW K \in SUBSET Keys, NEW s, Sound(s, K), Fits(s), NEW e \in Keys,
           NEW buf \in CacheBuffer, s.cap + Cache!Bytes(buf) <= MaxCap,
           Cache!EntryBytes(s.hot[e]) + Cache!Bytes(buf) <= MaxBufLen,
           Agrees(s, Keys \ {e}),
           NEW t, t = Cache!AppendHot(s, e, buf)
    PROVE  Fits(t) /\ Agrees(t, Keys \ {e}) /\ (AtHot(s, e) => Agrees(t, Keys))
<1>1. Typed(s) /\ Typed(t) BY HotAppended DEF Sound
<1>2. PICK h \in Seq(CacheBuffer) : h = s.hot[e] BY <1>1 DEF Typed
<1>3. /\ t.loc = s.loc /\ t.hot = WithKey(s.hot, e, Append(h, buf))
      /\ t.cap = s.cap + Cache!Bytes(buf)
  BY <1>1, <1>2, AppendMade
<1>4. s.hot \in [Keys -> Seq(CacheBuffer)] BY <1>1 DEF Typed
<1>5. /\ t.hot[e] = Append(h, buf)
      /\ \A k \in Keys \ {e} : t.hot[k] = s.hot[k]
  BY <1>3, <1>4 DEF WithKey
<1>6. t.hot[e] # <<>>
  <2>1. PICK o : o = Append(h, buf) OBVIOUS
  <2>2. Len(o) = Len(h) + 1 /\ Len(h) \in Nat BY <2>1
  <2>3. o # <<>> BY <2>2
  <2> QED BY <1>5, <2>1, <2>3
<1>7. Agrees(t, Keys \ {e}) /\ (AtHot(s, e) => Agrees(t, Keys))
  BY <1>3, <1>5, <1>6 DEF Agrees, AtHot
<1>8. Cache!EntryBytes(t.hot[e]) = Cache!EntryBytes(s.hot[e]) + Cache!Bytes(buf)
  BY <1>2, <1>5, EntryBytesAre
<1>9. /\ Cache!SumFunction(EntrySizes(s)) \in Nat /\ Cache!EntryBytes(s.hot[e]) \in Nat
      /\ Cache!Bytes(buf) \in Nat
  BY <1>1, SizesOf, BufferBytes
<1>10. t.cap = Cache!SumFunction(EntrySizes(t))
  <2>1. Cache!SumFunction(EntrySizes(t)) =
            Cache!SumFunction(EntrySizes(s))
                - Cache!EntryBytes(s.hot[e]) + Cache!EntryBytes(t.hot[e])
    BY <1>1, <1>5, EntryChanged
  <2> QED BY <1>3, <1>8, <1>9, <2>1 DEF Fits
<1>11. \A k \in Keys : Cache!EntryBytes(t.hot[k]) <= MaxBufLen
  BY <1>5, <1>8 DEF Fits
<1> QED BY <1>3, <1>7, <1>10, <1>11 DEF Fits

LEMMA HeatFits ==
    ASSUME NEW K \in SUBSET Keys, NEW e \in Keys, NEW s, Sound(s, K), Fits(s),
           Agrees(s, Keys \ {e}), NEW t, t = Heated(s, e)
    PROVE  /\ Fits(t) /\ Agrees(t, Keys \ {e}) /\ AtHot(t, e)
           /\ t.hot = s.hot /\ t.cap = s.cap
<1>1. Typed(s) BY DEF Sound
<1>2. /\ t.loc = WithKey(s.loc, e, Cache!HotLocation)
      /\ t.hot = s.hot /\ t.cap = s.cap
  BY <1>1, HeatedMade
<1>3. s.loc \in [Keys -> Locs] BY <1>1 DEF Typed
<1>4. t.loc[e] = Cache!HotLocation /\ \A k \in Keys \ {e} : t.loc[k] = s.loc[k]
  BY <1>2, <1>3 DEF WithKey
<1> QED BY <1>2, <1>4, FitsStill DEF Agrees, AtHot

(* putInCold, when the buffer fits a cell: the hot cache is left alone.    *)
LEMMA CellFits ==
    ASSUME NEW K \in SUBSET Keys, NEW s, Sound(s, K), Fits(s), NEW e \in Keys,
           Agrees(s, Keys \ {e}), s.hot[e] = <<>>,
           NEW buf \in CacheBuffer, buf.key = e, NEW b \in Cache!BucketIdx,
           NEW t, t = Cache!PutInCell(s, e, buf, b)
    PROVE  Fits(t) /\ Agrees(t, Keys)
<1>1. PICK cells : cells = Cache!ColdLocations(b) OBVIOUS
<1>2. cells \in SUBSET ColdCells BY <1>1 DEF Cache!ColdLocations, ColdCells
<1>3. PICK v : v = Emptied(s, cells) OBVIOUS
<1>4. /\ Sound(v, K) /\ v.loc = Cache!Forget(s.loc, cells)
      /\ v.hot = s.hot /\ v.cap = s.cap
  BY <1>2, <1>3, CellsForgotten
<1>5. Cache!HotLocation \notin cells
  <2>1. \A l \in ColdCells : Cache!IsCold(l) BY Locations DEF ColdCells
  <2> QED BY <1>2, <2>1, NoneIsCold
<1>6. \A k \in Keys : AtHot(v, k) <=> AtHot(s, k)
  BY <1>4, <1>5, NoneIsCold DEF AtHot, Cache!Forget
<1>7. PICK u : u = IF Cache!FreeCells(s.cold[b]) = {} THEN v ELSE s OBVIOUS
<1>8. /\ Typed(u) /\ u.hot = s.hot /\ u.cap = s.cap
      /\ \A k \in Keys : AtHot(u, k) <=> AtHot(s, k)
  BY <1>4, <1>6, <1>7 DEF Sound
<1>9. PICK c : c = Cache!FindFreeCell(u.cold[b]) OBVIOUS
<1>10. t = Filled(u, e, buf, b, c)
  BY <1>1, <1>3, <1>7, <1>9 DEF Cache!PutInCell, Cache!FlushBucket, Emptied, Filled
<1>11. /\ t.loc = WithKey(u.loc, e, Cache!ColdLocation(b, c))
       /\ t.hot = u.hot /\ t.cap = u.cap
  BY <1>8, <1>10, FilledMade
<1>12. c \in Cache!CellIdx
  <2>1. u = Room(s, b) BY <1>1, <1>3, <1>7 DEF Room
  <2> QED BY <1>9, <2>1, CellFound
<1>13. Cache!ColdLocation(b, c) # Cache!HotLocation BY <1>12, Locations, NoneIsCold
<1>14. u.loc \in [Keys -> Locs] BY <1>8 DEF Typed
<1>15. ~AtHot(t, e) /\ \A k \in Keys \ {e} : AtHot(t, k) <=> AtHot(s, k)
  BY <1>8, <1>11, <1>13, <1>14 DEF AtHot, WithKey
<1>16. Agrees(t, Keys) BY <1>8, <1>11, <1>15 DEF Agrees
<1> QED BY <1>8, <1>11, <1>16, FitsStill

LEMMA ColdFits ==
    ASSUME NEW K \in SUBSET Keys, NEW s, Sound(s, K), Fits(s), NEW e \in Keys,
           Agrees(s, Keys \ {e}), s.hot[e] = <<>>,
           NEW buf \in CacheBuffer, buf.key = e, NEW t, t = Cache!PutInCold(s, e, buf)
    PROVE  Fits(t) /\ (t.panicked \/ Agrees(t, Keys))
<1>1. CASE Cache!FitBuckets(buf) # {}
  <2>1. PICK S : S = Cache!FitBuckets(buf) OBVIOUS
  <2>2. S \in SUBSET Cache!BucketIdx /\ S \in SUBSET Nat /\ S # {}
    BY <1>1, <2>1, CacheConstants DEF Cache!FitBuckets, Cache!BucketIdx
  <2>3. PICK b : b = Cache!Min(S) OBVIOUS
  <2>4. \E x \in S : \A y \in S : x <= y BY <2>2, LeastOne
  <2>5. b \in Cache!BucketIdx BY <2>2, <2>3, <2>4 DEF Cache!Min
  <2>6. t = Cache!PutInCell(s, e, buf, b) BY <1>1, <2>1, <2>3 DEF Cache!PutInCold
  <2> QED BY <2>5, <2>6, CellFits
<1>2. CASE Cache!FitBuckets(buf) = {}
  <2>1. t = Cache!PutNewInHot(s, e, buf) BY <1>2 DEF Cache!PutInCold
  <2>2. CASE Cache!Bytes(buf) > MaxBufLen
    <3>1. t = Cache!Panic(s) BY <2>1, <2>2 DEF Cache!PutNewInHot
    <3> QED BY <3>1, PanicFits
  <2>3. CASE ~(Cache!Bytes(buf) > MaxBufLen)
    <3>1. PICK v : v = Cache!FlushHot(s) OBVIOUS
    <3>2. PICK u : u = IF s.cap + Cache!Bytes(buf) > MaxCap THEN v ELSE s OBVIOUS
    <3>3. Cache!Bytes(buf) \in Nat /\ Cache!Bytes(buf) <= MaxBufLen
      BY <2>3, BufferBytes, CacheLimits
    <3>4. s.cap \in Nat BY SizesOf DEF Fits, Sound
    <3>5. /\ Sound(v, K) /\ Fits(v) /\ v.cap = 0 /\ Agrees(v, Keys) /\ NoEntries(v)
      BY <3>1, HotFlushed, FlushFits
    <3>6. /\ Sound(u, K) /\ Fits(u) /\ Agrees(u, Keys \ {e}) /\ u.hot[e] = <<>>
          /\ u.cap + Cache!Bytes(buf) <= MaxCap
      <4>1. CASE s.cap + Cache!Bytes(buf) > MaxCap
        <5>1. u = v BY <3>2, <4>1
        <5> QED BY <3>3, <3>5, <5>1, CacheLimits DEF Agrees, NoEntries
      <4>2. CASE ~(s.cap + Cache!Bytes(buf) > MaxCap)
        <5>1. u = s BY <3>2, <4>2
        <5> QED BY <3>3, <3>4, <4>2, <5>1, CacheLimits
      <4> QED BY <4>1, <4>2
    <3>7. PICK w : w = Heated(u, e) OBVIOUS
    <3>8. Sound(u, K \ {e}) BY <3>6 DEF Sound
    <3>9. Sound(w, K) BY <3>7, <3>8, MadeHot
    <3>10. /\ Fits(w) /\ Agrees(w, Keys \ {e}) /\ AtHot(w, e)
           /\ w.hot = u.hot /\ w.cap = u.cap
      BY <3>6, <3>7, HeatFits
    <3>11. t = Cache!AppendHot(w, e, buf)
      BY <2>1, <2>3, <3>1, <3>2, <3>7 DEF Cache!PutNewInHot, Heated
    <3>12. Cache!EntryBytes(w.hot[e]) + Cache!Bytes(buf) <= MaxBufLen
      <4>1. Cache!EntryBytes(w.hot[e]) = 0 BY <3>6, <3>9, <3>10, SizesOf DEF Sound
      <4> QED BY <3>3, <4>1
    <3> QED BY <3>6, <3>9, <3>10, <3>11, <3>12, AppendFits
  <2> QED BY <2>2, <2>3
<1> QED BY <1>1, <1>2

(* putInHot: what is left does not depend on the location that e had, but  *)
(* the map is right about e only if it led to the hot cache.               *)
LEMMA HotFits ==
    ASSUME NEW K \in SUBSET Keys, NEW s, Sound(s, K), Fits(s), NEW e \in Keys,
           Agrees(s, Keys \ {e}),
           NEW buf \in CacheBuffer, buf.key = e, NEW t, t = Cache!PutInHot(s, e, buf)
    PROVE  /\ Fits(t) /\ (t.panicked \/ Agrees(t, Keys \ {e}))
           /\ AtHot(s, e) => t.panicked \/ Agrees(t, Keys)
<1>1. Cache!Bytes(buf) \in Nat /\ s.cap \in Nat /\ Cache!EntryBytes(s.hot[e]) \in Nat
  BY BufferBytes, SizesOf DEF Fits, Sound
<1>2. CASE Cache!Bytes(buf) > MaxBufLen
  <2>1. t = Cache!Panic(s) BY <1>1, <1>2, CacheLimits DEF Cache!PutInHot
  <2> QED BY <2>1, PanicFits
<1>3. CASE Cache!Bytes(buf) <= MaxBufLen /\ s.cap + Cache!Bytes(buf) > MaxCap
  <2>1. PICK u : u = Cache!FlushHot(s) OBVIOUS
  <2>2. t = Cache!PutInCold(u, e, buf) BY <1>1, <1>3, <2>1, CacheLimits DEF Cache!PutInHot
  <2>3. Sound(u, K) /\ Fits(u) /\ Agrees(u, Keys) /\ NoEntries(u)
    BY <2>1, HotFlushed, FlushFits
  <2>4. Agrees(u, Keys \ {e}) /\ u.hot[e] = <<>> BY <2>3 DEF Agrees, NoEntries
  <2>5. Fits(t) /\ (t.panicked \/ Agrees(t, Keys)) BY <2>2, <2>3, <2>4, ColdFits
  <2> QED BY <2>5 DEF Agrees
<1>4. CASE /\ Cache!Bytes(buf) <= MaxBufLen /\ s.cap + Cache!Bytes(buf) <= MaxCap
           /\ s.hot[e] # <<>>
           /\ Cache!EntryBytes(s.hot[e]) + Cache!Bytes(buf) > MaxBufLen
  <2>1. PICK u : u = Cache!EvictEntry(s, e) OBVIOUS
  <2>2. t = Cache!PutInCold(u, e, buf) BY <1>1, <1>4, <2>1, CacheLimits DEF Cache!PutInHot
  <2>3. Sound(u, K) /\ Fits(u) /\ Agrees(u, Keys) /\ u.hot[e] = <<>>
    BY <2>1, EntryEvicted, EvictFits
  <2>4. Agrees(u, Keys \ {e}) BY <2>3 DEF Agrees
  <2>5. Fits(t) /\ (t.panicked \/ Agrees(t, Keys)) BY <2>2, <2>3, <2>4, ColdFits
  <2> QED BY <2>5 DEF Agrees
<1>5. CASE /\ Cache!Bytes(buf) <= MaxBufLen /\ s.cap + Cache!Bytes(buf) <= MaxCap
           /\ ~(/\ s.hot[e] # <<>>
                /\ Cache!EntryBytes(s.hot[e]) + Cache!Bytes(buf) > MaxBufLen)
  <2>1. t = Cache!AppendHot(s, e, buf) BY <1>1, <1>5, CacheLimits DEF Cache!PutInHot
  <2>2. Cache!EntryBytes(s.hot[e]) + Cache!Bytes(buf) <= MaxBufLen
    <3>1. s.hot[e] = <<>> => Cache!EntryBytes(s.hot[e]) = 0 BY SizesOf DEF Sound
    <3> QED BY <1>1, <1>5, <3>1, CacheLimits
  <2>3. /\ Fits(t) /\ Agrees(t, Keys \ {e})
        /\ AtHot(s, e) => Agrees(t, Keys)
    BY <1>5, <2>1, <2>2, AppendFits
  <2> QED BY <2>3
<1>6. \/ Cache!Bytes(buf) > MaxBufLen
      \/ Cache!Bytes(buf) <= MaxBufLen /\ s.cap + Cache!Bytes(buf) > MaxCap
      \/ Cache!Bytes(buf) <= MaxBufLen /\ s.cap + Cache!Bytes(buf) <= MaxCap
  BY <1>1, CacheLimits
<1> QED BY <1>2, <1>3, <1>4, <1>5, <1>6

(* moveToHotCache: the key has a hot location, with or without an entry.   *)
LEMMA MoveFits ==
    ASSUME NEW s, Sound(s, Keys), Fits(s), Agrees(s, Keys),
           NEW e \in Keys, Cache!IsCold(s.loc[e]), NEW t, t = Cache!MoveToHot(s, e)
    PROVE  Fits(t) /\ (t.panicked \/ (Agrees(t, Keys \ {e}) /\ AtHot(t, e)))
<1>1. PICK b \in Cache!BucketIdx, c \in Cache!CellIdx :
          s.loc[e] = Cache!ColdLocation(b, c) /\ Holds(s, b, c, e)
  BY DEF Sound, Leads
<1>2. /\ Cache!ColdBucketIdx(s.loc[e]) = b /\ Cache!ColdCellIdx(s.loc[e]) = c
      /\ Cache!CellAt(s, s.loc[e]) = s.cold[b][c]
  BY <1>1, Locations, CellOfLocation
<1>3. PICK buf : buf = s.cold[b][c] OBVIOUS
<1>4. PICK u : u = EmptyCell(s, b, c) OBVIOUS
<1>5. PICK L \in SUBSET Keys : L = Keys \ {e} OBVIOUS
<1>6. Sound(u, L) /\ buf \in CacheBuffer BY <1>1, <1>3, <1>4, <1>5, CellEmptied
<1>7. buf.key = e BY <1>1, <1>3 DEF Holds
<1>8. u.loc = s.loc /\ u.hot = s.hot /\ u.cap = s.cap BY <1>4, EmptyCellMade DEF Sound
<1>9. Fits(u) /\ Agrees(u, Keys \ {e})
  BY <1>8, FitsStill DEF Agrees, AtHot
<1>10. PICK v : v = Cache!PutInHot(u, e, buf) OBVIOUS
<1>11. Sound(v, L) BY <1>6, <1>7, <1>10, HotTakes
<1>12. Fits(v) /\ (v.panicked \/ Agrees(v, Keys \ {e}))
  BY <1>6, <1>7, <1>9, <1>10, HotFits
<1>13. t = IF v.panicked THEN v ELSE Heated(v, e)
  BY <1>2, <1>3, <1>4, <1>10 DEF Cache!MoveToHot, EmptyCell, Heated
<1>14. CASE v.panicked BY <1>12, <1>13, <1>14
<1>15. CASE ~v.panicked
  <2>1. t = Heated(v, e) BY <1>13, <1>15
  <2> QED BY <1>11, <1>12, <1>15, <2>1, HeatFits
<1> QED BY <1>14, <1>15

LEMMA PutFits ==
    ASSUME Sound(Cache!Cache, Keys), Fits(Cache!Cache), Agrees(Cache!Cache, Keys),
           NEW e \in Keys, NEW buf \in CacheBuffer, buf.key = e,
           NEW t, t = Cache!PutBuffer(e, buf)
    PROVE  Fits(t) /\ (t.panicked \/ Agrees(t, Keys))
<1>1. PICK s : s = Cache!Cache OBVIOUS
<1>2. s.loc = loc BY <1>1 DEF Cache!Cache
<1>3. Sound(s, Keys) /\ Fits(s) /\ Agrees(s, Keys) BY <1>1
<1>4. s.loc[e] \in Locs BY <1>3 DEF Sound, Typed
<1>5. CASE loc[e] = Cache!NoLoc
  <2>1. t = Cache!PutInCold(s, e, buf) BY <1>1, <1>5 DEF Cache!PutBuffer
  <2>2. Agrees(s, Keys \ {e}) /\ s.hot[e] = <<>>
    BY <1>2, <1>3, <1>5, NoneIsCold DEF Agrees, AtHot
  <2> QED BY <1>3, <2>1, <2>2, ColdFits
<1>6. CASE loc[e] # Cache!NoLoc
  <2>1. PICK u : u = IF Cache!IsCold(loc[e]) THEN Cache!MoveToHot(s, e) ELSE s OBVIOUS
  <2>2. /\ Fits(u) /\ (u.panicked \/ Sound(u, Keys))
        /\ u.panicked \/ (Agrees(u, Keys \ {e}) /\ AtHot(u, e))
    <3>1. CASE Cache!IsCold(loc[e])
      <4>1. u = Cache!MoveToHot(s, e) BY <2>1, <3>1
      <4> QED BY <1>2, <1>3, <3>1, <4>1, MoveFits, KeyMoved
    <3>2. CASE ~Cache!IsCold(loc[e])
      <4>1. u = s BY <2>1, <3>2
      <4>2. loc[e] = Cache!HotLocation
        BY <1>2, <1>4, <1>6, <3>2, CacheConstants DEF Locs, Cache!IsCold
      <4> QED BY <1>2, <1>3, <4>1, <4>2 DEF Agrees, AtHot
    <3> QED BY <3>1, <3>2
  <2>3. t = IF u.panicked THEN u ELSE Cache!PutInHot(u, e, buf)
    BY <1>1, <1>6, <2>1 DEF Cache!PutBuffer
  <2>4. CASE u.panicked BY <2>2, <2>3, <2>4
  <2>5. CASE ~u.panicked
    <3>1. t = Cache!PutInHot(u, e, buf) BY <2>3, <2>5
    <3> QED BY <2>2, <2>5, <3>1, HotFits
  <2> QED BY <2>4, <2>5
<1> QED BY <1>5, <1>6

LEMMA AllFlushedFits ==
    ASSUME NEW s, Sound(s, Keys),
           NEW t, t = [Cache!FlushHot(Cache!FlushCold(s)) EXCEPT
                          !.loc = [k \in Keys |-> Cache!NoLoc]]
    PROVE  Fits(t) /\ Agrees(t, Keys)
<1>1. PICK cells : cells = UNION {Cache!ColdLocations(b) : b \in Cache!BucketIdx} OBVIOUS
<1>2. cells = ColdCells BY <1>1 DEF Cache!ColdLocations, ColdCells
<1>3. PICK u : u = Cache!FlushCells(s, cells) OBVIOUS
<1>4. Typed(u) BY <1>2, <1>3, CellsFlushed DEF Sound
<1>5. PICK v : v = Cache!FlushHot(u) OBVIOUS
<1>6. PICK K \in SUBSET Keys : K = {} OBVIOUS
<1>7. Sound(u, K) BY <1>4, <1>6 DEF Sound
<1>8. Sound(v, K) /\ Fits(v) /\ NoEntries(v) BY <1>5, <1>7, HotFlushed, FlushFits
<1>9. PICK f : f = [k \in Keys |-> Cache!NoLoc] OBVIOUS
<1>10. PICK r : r = Located(v, f) OBVIOUS
<1>11. r.loc = f /\ r.hot = v.hot /\ r.cap = v.cap BY <1>8, <1>10, LocatedMade DEF Sound
<1>12. t = r BY <1>1, <1>3, <1>5, <1>9, <1>10 DEF Cache!FlushCold, Located
<1>13. Fits(r) BY <1>8, <1>11, FitsStill
<1>14. Agrees(r, Keys)
  <2>1. \A k \in Keys : ~AtHot(r, k) /\ r.hot[k] = <<>>
    BY <1>8, <1>9, <1>11, NoneIsCold DEF AtHot, NoEntries
  <2> QED BY <2>1 DEF Agrees
<1> QED BY <1>12, <1>13, <1>14

---------------------------------------------------------------------------
\* The invariant.

LimitsInv ==
    /\ CacheInv /\ Fits(Cache!Cache) /\ (putPanics \/ Agrees(Cache!Cache, Keys))
    /\ Cache!SumFunction(puts) <= MaxPuts

LEMMA PutLimits ==
    ASSUME LimitsInv, NEW e \in Keys, NEW len \in Lens, Cache!Put(e, len)
    PROVE  LimitsInv'
<1>1. CacheInv' BY PutStep DEF LimitsInv
<1>2. PICK buf : buf = [key |-> e, n |-> puts[e] + 1, len |-> len] OBVIOUS
<1>3. PICK t : t = Cache!PutBuffer(e, buf) OBVIOUS
<1>4. puts \in [Keys -> Nat] /\ ~putPanics BY DEF LimitsInv, CacheInv, Cache!Put
<1>5. buf \in CacheBuffer /\ buf.key = e BY <1>2, <1>4 DEF CacheBuffer
<1>6. Sound(Cache!Cache, Keys) BY <1>4 DEF LimitsInv, CacheInv
<1>7. Fits(t) /\ (t.panicked \/ Agrees(t, Keys))
  BY <1>3, <1>4, <1>5, <1>6, PutFits DEF LimitsInv
<1>8. Typed(t) BY <1>3, <1>5, <1>6, BufferPut
<1>9. Cache!Become(t) /\ puts' = [puts EXCEPT ![e] = @ + 1] /\ Cache!SumFunction(puts) < MaxPuts
  BY <1>2, <1>3 DEF Cache!Put
<1>10. (Cache!Cache)' = t /\ putPanics' = t.panicked BY <1>8, <1>9, Became
<1>11. Cache!SumFunction(puts)' <= MaxPuts
  <2>1. PICK p : p = puts' OBVIOUS
  <2>2. PICK q : q = puts OBVIOUS
  <2>3. p \in [Keys -> Nat] /\ q \in [Keys -> Nat] BY <1>4, <1>9, <2>1, <2>2
  <2>4. p[e] = q[e] + 1 /\ \A k \in Keys \ {e} : q[k] = p[k] BY <1>4, <1>9, <2>1, <2>2
  <2>5. Cache!SumFunction(p) = Cache!SumFunction(q) - q[e] + p[e]
    BY <2>3, <2>4, SumChanged, CacheLimits
  <2>6. Cache!SumFunction(q) \in Nat /\ q[e] \in Nat
    BY <2>3, SumOfNumbers, CacheLimits
  <2>7. Cache!SumFunction(p) <= MaxPuts BY <1>9, <2>2, <2>4, <2>5, <2>6, CacheLimits
  <2>8. Cache!SumFunction(puts)' = Cache!SumFunction(puts') OBVIOUS
  <2> QED BY <2>1, <2>7, <2>8
<1>12. Fits(Cache!Cache)' /\ (putPanics \/ Agrees(Cache!Cache, Keys))'
  BY <1>7, <1>10 DEF Fits, EntrySizes, Agrees, AtHot
<1> QED BY <1>1, <1>11, <1>12 DEF LimitsInv

LEMMA FlushLimits ==
    ASSUME LimitsInv, Cache!Flush
    PROVE  LimitsInv'
<1>1. PICK s : s = Cache!Cache OBVIOUS
<1>2. PICK t : t = [Cache!FlushHot(Cache!FlushCold(s)) EXCEPT
                       !.loc = [k \in Keys |-> Cache!NoLoc]]
  OBVIOUS
<1>3. ~putPanics /\ Cache!Become(t) /\ UNCHANGED puts BY <1>1, <1>2 DEF Cache!Flush
<1>4. CacheInv' BY FlushStep DEF LimitsInv
<1>5. Sound(s, Keys) BY <1>1, <1>3 DEF LimitsInv, CacheInv
<1>6. Fits(t) /\ Agrees(t, Keys) BY <1>2, <1>5, AllFlushedFits
<1>7. Typed(t) BY <1>2, <1>5, AllFlushed DEF Sound
<1>8. (Cache!Cache)' = t BY <1>3, <1>7, Became
<1>9. Fits(Cache!Cache)' /\ (putPanics \/ Agrees(Cache!Cache, Keys))'
  BY <1>6, <1>8 DEF Fits, EntrySizes, Agrees, AtHot
<1>10. (Cache!SumFunction(puts) <= MaxPuts)' BY <1>3 DEF LimitsInv
<1> QED BY <1>4, <1>9, <1>10 DEF LimitsInv

LEMMA LimitsStep ==
    ASSUME LimitsInv, [Cache!Next]_cachevars
    PROVE  LimitsInv'
<1>1. CASE UNCHANGED cachevars
  <2>1. UNCHANGED <<puts, putPanics, Cache!Cache>> BY <1>1 DEF cachevars, Cache!Cache
  <2>2. CacheInv' BY <1>1, CacheStep DEF LimitsInv
  <2>3. Fits(Cache!Cache)' /\ (putPanics \/ Agrees(Cache!Cache, Keys))'
    BY <2>1 DEF LimitsInv, Fits, EntrySizes, Agrees, AtHot
  <2>4. (Cache!SumFunction(puts) <= MaxPuts)' BY <2>1 DEF LimitsInv
  <2> QED BY <2>2, <2>3, <2>4 DEF LimitsInv
<1>2. CASE Cache!Flush BY <1>2, FlushLimits
<1>3. ASSUME NEW e \in Keys, NEW len \in Lens, Cache!Put(e, len) PROVE LimitsInv'
  BY <1>3, PutLimits
<1> QED BY <1>1, <1>2, <1>3 DEF Cache!Next

LEMMA LimitsBegin == Init => LimitsInv
<1> SUFFICES ASSUME Init PROVE LimitsInv OBVIOUS
<1>1. CacheInv BY CacheBegins
<1>2. /\ loc = [k \in Keys |-> Cache!NoLoc] /\ hot = [k \in Keys |-> <<>>] /\ cap = 0
      /\ puts = [k \in Keys |-> 0]
  BY DEF Init, Start, Cache!Init
<1>3. PICK s : s = Cache!Cache OBVIOUS
<1>4. s.loc = loc /\ s.hot = hot /\ s.cap = cap BY <1>3 DEF Cache!Cache
<1>5. Typed(s) BY <1>1, <1>3 DEF CacheInv
<1>6. \A k \in Keys : Cache!EntryBytes(s.hot[k]) = 0 BY <1>2, <1>4, <1>5, SizesOf
<1>7. Cache!SumFunction(EntrySizes(s)) = 0
  <2>1. PICK f : f = EntrySizes(s) OBVIOUS
  <2>2. f \in [Keys -> Nat] /\ \A k \in Keys : f[k] = 0 BY <1>5, <1>6, <2>1, SizesOf
  <2>3. Cache!SumFunction(f) = 0 BY <2>2, SumOfZeros, CacheLimits
  <2> QED BY <2>1, <2>3
<1>8. Fits(s) BY <1>2, <1>4, <1>6, <1>7, CacheLimits DEF Fits
<1>9. Agrees(s, Keys) BY <1>2, <1>4, NoneIsCold DEF Agrees, AtHot
<1>10. Cache!SumFunction(puts) <= MaxPuts
  <2>1. PICK f : f = puts OBVIOUS
  <2>2. f \in [Keys -> Nat] /\ \A k \in Keys : f[k] = 0 BY <1>2, <2>1
  <2>3. Cache!SumFunction(f) = 0 BY <2>2, SumOfZeros, CacheLimits
  <2> QED BY <2>1, <2>3, CacheLimits
<1> QED BY <1>1, <1>3, <1>8, <1>9, <1>10 DEF LimitsInv

(* The limits are kept and the map agrees with the tiers after every call   *)
(* of Put and of Flush.                                                     *)
THEOREM LimitsAlways == Spec => []LimitsInv
<1>1. LimitsInv /\ [Next]_vars => LimitsInv' BY CacheSteps, LimitsStep
<1> QED BY <1>1, LimitsBegin, PTL DEF Spec

LEMMA LimitsKept == LimitsInv => Cache!HotWithinLimits /\ Cache!MapAgrees
<1> SUFFICES ASSUME LimitsInv PROVE Cache!HotWithinLimits /\ Cache!MapAgrees OBVIOUS
<1>1. PICK s : s = Cache!Cache OBVIOUS
<1>2. s.loc = loc /\ s.hot = hot /\ s.cap = cap BY <1>1 DEF Cache!Cache
<1>3. Fits(s) /\ (putPanics \/ Agrees(s, Keys)) BY <1>1 DEF LimitsInv
<1>4. Cache!HotWithinLimits BY <1>2, <1>3 DEF Fits, EntrySizes, Cache!HotWithinLimits
<1>5. ASSUME ~putPanics, NEW k \in Keys
      PROVE  /\ Cache!IsCold(loc[k]) => /\ Cache!CellAt(s, loc[k]) # Free
                                        /\ Cache!CellAt(s, loc[k]).key = k
             /\ loc[k] = Cache!HotLocation <=> hot[k] # <<>>
  <2>1. Leads(s, k) BY <1>1, <1>5 DEF LimitsInv, CacheInv, Sound
  <2>2. ASSUME Cache!IsCold(loc[k])
        PROVE  Cache!CellAt(s, loc[k]) # Free /\ Cache!CellAt(s, loc[k]).key = k
    <3>1. PICK b \in Cache!BucketIdx, c \in Cache!CellIdx :
              loc[k] = Cache!ColdLocation(b, c) /\ Holds(s, b, c, k)
      BY <1>2, <2>1, <2>2 DEF Leads
    <3>2. Cache!CellAt(s, loc[k]) = s.cold[b][c] BY <3>1, CellOfLocation
    <3> QED BY <3>1, <3>2 DEF Holds
  <2>3. loc[k] = Cache!HotLocation <=> hot[k] # <<>> BY <1>2, <1>3, <1>5 DEF Agrees, AtHot
  <2> QED BY <2>2, <2>3
<1>6. Cache!MapAgrees BY <1>1, <1>5 DEF Cache!MapAgrees
<1> QED BY <1>4, <1>6

(* The hot cache never holds more than MaxCap bytes, no entry more than     *)
(* MaxBufLen, its byte count is the sum of its entries, and unless it has   *)
(* panicked the map leads each key to where its buffers are.                *)
THEOREM WithinLimitsAlways == Spec => []CacheWithinLimits
<1>1. LimitsInv => CacheWithinLimits BY LimitsKept DEF CacheWithinLimits
<1> QED BY <1>1, LimitsAlways, PTL

(* Every buffer that is held or was handed out was put, and so numbered.   *)
LEMMA CacheTyped == LimitsInv => Cache!TypeOK
<1> SUFFICES ASSUME LimitsInv PROVE Cache!TypeOK OBVIOUS
<1>1. PICK s : s = Cache!Cache OBVIOUS
<1>2. /\ s.loc = loc /\ s.cold = cold /\ s.hot = hot /\ s.cap = cap /\ s.calls = calls
  BY <1>1 DEF Cache!Cache
<1>3. Typed(s) /\ puts \in [Keys -> Nat] BY <1>1 DEF LimitsInv, CacheInv
<1>4. \A k \in Keys : puts[k] \in Nat /\ puts[k] <= MaxPuts
  <2>1. /\ Cache!SumFunction(puts) \in Nat
        /\ \A k \in Keys : puts[k] <= Cache!SumFunction(puts)
    BY <1>3, SumOfNumbers, CacheLimits
  <2>2. Cache!SumFunction(puts) <= MaxPuts BY DEF LimitsInv
  <2> QED BY <1>3, <2>1, <2>2, CacheLimits
<1>5. ASSUME NEW k \in Keys, NEW n \in Nat, Has(s, k, n) PROVE n \in 1 .. MaxPuts
  <2>1. n \in 1 .. puts[k] BY <1>1, <1>5 DEF LimitsInv, CacheInv
  <2> QED BY <1>4, <2>1, CacheLimits
<1>6. loc \in [Keys -> {Cache!NoLoc} \cup 0 .. Cache!HotLocation]
  BY <1>2, <1>3 DEF Typed, Locs
<1>7. cold \in [Cache!BucketIdx -> [Cache!CellIdx -> Cache!Buffer \cup {Free}]]
  <2>1. cold \in [Cache!BucketIdx -> [Cache!CellIdx -> CacheBuffer \cup {Free}]]
    BY <1>2, <1>3 DEF Typed
  <2>2. ASSUME NEW b \in Cache!BucketIdx, NEW c \in Cache!CellIdx, cold[b][c] # Free
        PROVE  cold[b][c] \in Cache!Buffer
    <3>1. PICK buf : buf = cold[b][c] OBVIOUS
    <3>2. buf \in CacheBuffer BY <2>1, <2>2, <3>1
    <3>3. buf.key \in Keys /\ buf.n \in Nat BY <3>2 DEF CacheBuffer
    <3>4. Has(s, buf.key, buf.n) BY <1>2, <2>2, <3>1 DEF Has, InCell, Holds
    <3>5. buf.n \in 1 .. MaxPuts BY <1>5, <3>3, <3>4
    <3>6. buf \in Cache!Buffer BY <3>2, <3>5 DEF CacheBuffer, Cache!Buffer
    <3> QED BY <3>1, <3>6
  <2> QED BY <2>1, <2>2
<1>8. hot \in [Keys -> Seq(Cache!Buffer)]
  <2>1. hot \in [Keys -> Seq(CacheBuffer)] BY <1>2, <1>3 DEF Typed
  <2>2. ASSUME NEW k \in Keys PROVE hot[k] \in Seq(Cache!Buffer)
    <3>1. PICK h \in Seq(CacheBuffer) : h = hot[k] BY <2>1
    <3>2. ASSUME NEW i \in DOMAIN h PROVE h[i] \in Cache!Buffer
      <4>1. PICK buf \in CacheBuffer : buf = h[i]
        <5>1. h[i] \in CacheBuffer OBVIOUS
        <5> QED BY <5>1
      <4>2. buf.n \in Nat BY DEF CacheBuffer
      <4>3. Has(s, k, buf.n) BY <1>2, <3>1, <4>1 DEF Has, InHot
      <4>4. buf.n \in 1 .. MaxPuts BY <1>5, <4>2, <4>3
      <4>5. buf \in Cache!Buffer BY <4>4 DEF CacheBuffer, Cache!Buffer
      <4> QED BY <4>1, <4>5
    <3>3. h \in Seq(Cache!Buffer) BY <3>2, SeqOver
    <3> QED BY <3>1, <3>3
  <2> QED BY <2>1, <2>2
<1>9. cap \in Nat BY <1>1, <1>2, <1>3, SizesOf DEF LimitsInv, Fits
<1>10. puts \in [Keys -> 0 .. MaxPuts] BY <1>3, <1>4, CacheLimits
<1>11. calls \in [Keys -> Seq(Seq(1 .. MaxPuts))]
  <2>1. calls \in [Keys -> Seq(Seq(Nat))] BY <1>2, <1>3 DEF Typed
  <2>2. ASSUME NEW k \in Keys PROVE calls[k] \in Seq(Seq(1 .. MaxPuts))
    <3>1. PICK o \in Seq(Seq(Nat)) : o = calls[k] BY <2>1
    <3>2. ASSUME NEW i \in DOMAIN o PROVE o[i] \in Seq(1 .. MaxPuts)
      <4>1. PICK q \in Seq(Nat) : q = o[i]
        <5>1. o[i] \in Seq(Nat) OBVIOUS
        <5> QED BY <5>1
      <4>2. ASSUME NEW j \in DOMAIN q PROVE q[j] \in 1 .. MaxPuts
        <5>1. q[j] \in Nat OBVIOUS
        <5>2. Has(s, k, q[j]) BY <1>2, <3>1, <4>1 DEF Has, HandedOut
        <5> QED BY <1>5, <5>1, <5>2
      <4>3. q \in Seq(1 .. MaxPuts) BY <4>2, SeqOver
      <4> QED BY <4>1, <4>3
    <3>3. o \in Seq(Seq(1 .. MaxPuts)) BY <3>2, SeqOver
    <3> QED BY <3>1, <3>3
  <2> QED BY <2>1, <2>2
<1>12. putPanics \in BOOLEAN
  <2>1. s.panicked = putPanics BY <1>1 DEF Cache!Cache
  <2> QED BY <1>3, <2>1 DEF Typed
<1> QED
  BY <1>6, <1>7, <1>8, <1>9, <1>10, <1>11, <1>12 DEF Cache!TypeOK

---------------------------------------------------------------------------
(***************************************************************************)
(* No buffer of a key is at two places of a cache: in a call, in the hot   *)
(* entry or in a cell.  Entries are runs.                                  *)
(***************************************************************************)
EntryRun(h) == \A i \in DOMAIN h : h[i].n = h[1].n + i - 1
Apart(s, k) ==
    \A n : /\ ~(HandedOut(s, k, n) /\ InHot(s, k, n)) /\ ~(InHot(s, k, n) /\ InCell(s, k, n))
           /\ ~(HandedOut(s, k, n) /\ InCell(s, k, n))
OneCell(s, k) ==
    \A b, d \in Cache!BucketIdx, c, a \in Cache!CellIdx :
        Holds(s, b, c, k) /\ Holds(s, d, a, k) /\ s.cold[b][c].n = s.cold[d][a].n =>
            b = d /\ c = a
Once(s, k) == RunsOnce(s.calls[k]) /\ EntryRun(s.hot[k]) /\ Apart(s, k) /\ OneCell(s, k)
Orderly(s) == \A k \in Keys : Once(s, k)

LEMMA OnceStill ==
    ASSUME NEW s, NEW t, NEW k, Once(s, k), t.cold = s.cold, t.hot[k] = s.hot[k],
           t.calls[k] = s.calls[k]
    PROVE  Once(t, k)
BY DEF Once, Apart, OneCell, HandedOut, InHot, InCell, Holds

LEMMA OrderlyStill ==
    ASSUME NEW s, NEW t, Orderly(s), t.cold = s.cold, t.hot = s.hot, t.calls = s.calls
    PROVE  Orderly(t)
<1>1. \A k \in Keys : t.hot[k] = s.hot[k] /\ t.calls[k] = s.calls[k] OBVIOUS
<1> QED BY <1>1, OnceStill DEF Orderly

(* An entry is handed out.                                                 *)
LEMMA EntryOnce ==
    ASSUME NEW s, Typed(s), NEW t, t.cold = s.cold, NEW k \in Keys, Once(s, k),
           s.hot[k] # <<>>, t.hot[k] = <<>>,
           t.calls[k] = Append(s.calls[k], Cache!Index(s.hot[k]))
    PROVE  Once(t, k)
<1>1. PICK o \in Seq(Seq(Nat)) : o = s.calls[k] BY DEF Typed
<1>2. PICK h \in Seq(CacheBuffer) : h = s.hot[k] BY DEF Typed
<1>3. PICK q \in Seq(Nat) : q = Cache!Index(h) BY Indices
<1>4. \A n : (\E j \in DOMAIN q : q[j] = n) <=> InHot(s, k, n)
  BY <1>2, <1>3, Indices DEF InHot
<1>5. IsRun(q)
  <2>1. DOMAIN h = 1 .. Len(h) /\ Len(h) \in Nat /\ Len(h) # 0 BY <1>2
  <2>2. DOMAIN q = DOMAIN h /\ \A i \in DOMAIN h : q[i] = h[i].n BY <1>3 DEF Cache!Index
  <2>3. 1 \in DOMAIN h BY <2>1
  <2>4. \A j \in DOMAIN q : q[j] = q[1] + j - 1 BY <1>2, <2>2, <2>3 DEF Once, EntryRun
  <2>5. q # <<>> BY <2>2, <2>3
  <2> QED BY <2>4, <2>5 DEF IsRun
<1>6. \A n : Gives(o, n) <=> HandedOut(s, k, n) BY <1>1 DEF Gives, HandedOut
<1>7. \A j \in DOMAIN q : ~Gives(o, q[j])
  <2>1. \A j \in DOMAIN q : InHot(s, k, q[j]) BY <1>4
  <2> QED BY <1>6, <2>1 DEF Once, Apart
<1>8. RunsOnce(Append(o, q)) BY <1>1, <1>5, <1>7, RunAdded DEF Once
<1>9. t.calls[k] = Append(o, q) BY <1>1, <1>2, <1>3
<1>10. \A n : Gives(Append(o, q), n) <=> Gives(o, n) \/ \E j \in DOMAIN q : q[j] = n
  BY OneMoreCall
<1>11. \A n : HandedOut(t, k, n) <=> HandedOut(s, k, n) \/ InHot(s, k, n)
  <2>1. \A n : HandedOut(t, k, n) <=> Gives(Append(o, q), n) BY <1>9 DEF Gives, HandedOut
  <2> QED BY <1>4, <1>6, <1>10, <2>1
<1>12. \A n : ~InHot(t, k, n) BY DEF InHot
<1>13. \A n : InCell(t, k, n) <=> InCell(s, k, n) BY InCellStill
<1>14. Apart(t, k) BY <1>11, <1>12, <1>13 DEF Apart, Once
<1>15. OneCell(t, k) BY DEF OneCell, Once, Holds
<1>16. EntryRun(t.hot[k]) BY DEF EntryRun
<1> QED BY <1>8, <1>9, <1>14, <1>15, <1>16 DEF Once

LEMMA HotFlushOnce ==
    ASSUME NEW s, Typed(s), Orderly(s), NEW t, t = Cache!FlushHot(s)
    PROVE  Orderly(t)
<1>1. /\ t.cold = s.cold /\ t.hot = [k \in Keys |-> <<>>]
      /\ t.calls = [k \in Keys |-> IF s.hot[k] = <<>> THEN s.calls[k]
                                   ELSE Append(s.calls[k], Cache!Index(s.hot[k]))]
  BY HotFlushMade
<1> SUFFICES ASSUME NEW k \in Keys PROVE Once(t, k) BY DEF Orderly
<1>2. t.hot[k] = <<>> BY <1>1
<1>3. Once(s, k) BY DEF Orderly
<1>4. CASE s.hot[k] = <<>>
  <2>1. t.calls[k] = s.calls[k] BY <1>1, <1>4
  <2> QED BY <1>1, <1>2, <1>3, <1>4, <2>1, OnceStill
<1>5. CASE s.hot[k] # <<>>
  <2>1. t.calls[k] = Append(s.calls[k], Cache!Index(s.hot[k])) BY <1>1, <1>5
  <2> QED BY <1>1, <1>2, <1>3, <1>5, <2>1, EntryOnce
<1> QED BY <1>4, <1>5

LEMMA EvictionOnce ==
    ASSUME NEW s, Typed(s), Orderly(s), NEW e \in Keys, s.hot[e] # <<>>,
           NEW t, t = Cache!EvictEntry(s, e)
    PROVE  Orderly(t)
<1>1. /\ t.cold = s.cold /\ t.hot = WithKey(s.hot, e, <<>>)
      /\ t.calls = WithKey(s.calls, e, Append(s.calls[e], Cache!Index(s.hot[e])))
  BY EvictionMade
<1>2. s.hot \in [Keys -> Seq(CacheBuffer)] /\ s.calls \in [Keys -> Seq(Seq(Nat))] BY DEF Typed
<1>3. /\ t.hot[e] = <<>> /\ t.calls[e] = Append(s.calls[e], Cache!Index(s.hot[e]))
      /\ \A k \in Keys \ {e} : t.hot[k] = s.hot[k] /\ t.calls[k] = s.calls[k]
  BY <1>1, <1>2 DEF WithKey
<1>4. Once(t, e) BY <1>1, <1>3, EntryOnce DEF Orderly
<1>5. \A k \in Keys \ {e} : Once(t, k) BY <1>1, <1>3, OnceStill DEF Orderly
<1> QED BY <1>4, <1>5 DEF Orderly

(* Cells are handed out in calls of one buffer.                            *)
LEMMA NthIsOne ==
    ASSUME NEW S \in SUBSET Nat, NEW b \in Nat, \A n \in S : n <= b,
           NEW i \in 1 .. Cardinality(S), NEW j \in 1 .. Cardinality(S),
           Cache!Nth(S, i) = Cache!Nth(S, j)
    PROVE  i = j
<1>1. Rank(S) \in Bijection(S, 1 .. Cardinality(S)) BY Ranks
<1>2. \A x : Cache!Nth(S, x) = CHOOSE n \in S : Rank(S)[n] = x
  <2>1. \A x : Cache!Nth(S, x) = CHOOSE n \in S : Cardinality({l \in S : l <= n}) = x
    BY DEF Cache!Nth, Cardinality, Cache!Cardinality
  <2> QED BY <2>1 DEF Rank, UpTo
<1>3. ASSUME NEW x \in 1 .. Cardinality(S) PROVE Rank(S)[Cache!Nth(S, x)] = x
  <2>1. \E n \in S : Rank(S)[n] = x BY <1>1 DEF Bijection, Surjection
  <2> QED BY <1>2, <2>1
<1> QED BY <1>3

LEMMA CellRuns ==
    ASSUME NEW s, Typed(s), NEW cells \in SUBSET ColdCells, NEW k \in Keys, OneCell(s, k)
    PROVE  RunsOnce(Cache!CellCalls(s, cells, k))
<1>1. PICK H : H = Cache!Held(s, cells, k) OBVIOUS
<1>2. H \in SUBSET cells BY <1>1 DEF Cache!Held
<1>3. H \in SUBSET Nat /\ \A l \in H : l <= Cache!HotLocation
  BY <1>2, Locations DEF ColdCells
<1>4. /\ Cardinality(H) \in Nat
      /\ \A i \in 1 .. Cardinality(H) : Cache!Nth(H, i) \in H
  BY <1>3, CacheConstants, NthRanked
<1>5. PICK o : o = Cache!CellCalls(s, cells, k) OBVIOUS
<1>6. o = [i \in 1 .. Cardinality(H) |-> <<Cache!CellAt(s, Cache!Nth(H, i)).n>>]
  BY <1>1, <1>5 DEF Cache!CellCalls, Cardinality, Cache!Cardinality
<1>7. ASSUME NEW l \in H
      PROVE  \E b \in Cache!BucketIdx, c \in Cache!CellIdx :
                 /\ l = Cache!ColdLocation(b, c) /\ Holds(s, b, c, k)
                 /\ Cache!CellAt(s, l) = s.cold[b][c] /\ s.cold[b][c].n \in Nat
  <2>1. PICK b \in Cache!BucketIdx, c \in Cache!CellIdx : l = Cache!ColdLocation(b, c)
    BY <1>2 DEF ColdCells
  <2>2. Cache!CellAt(s, l) = s.cold[b][c] BY <2>1, CellOfLocation
  <2>3. s.cold[b][c] # Free /\ s.cold[b][c].key = k BY <1>1, <2>2 DEF Cache!Held
  <2>4. s.cold[b][c] \in CacheBuffer \cup {Free} BY DEF Typed
  <2>5. s.cold[b][c].n \in Nat BY <2>3, <2>4 DEF CacheBuffer
  <2> QED BY <2>1, <2>2, <2>3, <2>5 DEF Holds
<1>8. ASSUME NEW l \in H, NEW u \in H, Cache!CellAt(s, l).n = Cache!CellAt(s, u).n
      PROVE  l = u
  <2>1. PICK b \in Cache!BucketIdx, c \in Cache!CellIdx :
            /\ l = Cache!ColdLocation(b, c) /\ Holds(s, b, c, k)
            /\ Cache!CellAt(s, l) = s.cold[b][c] /\ s.cold[b][c].n \in Nat
    BY <1>7
  <2>2. PICK d \in Cache!BucketIdx, a \in Cache!CellIdx :
            /\ u = Cache!ColdLocation(d, a) /\ Holds(s, d, a, k)
            /\ Cache!CellAt(s, u) = s.cold[d][a] /\ s.cold[d][a].n \in Nat
    BY <1>7
  <2>3. s.cold[b][c].n = s.cold[d][a].n BY <1>8, <2>1, <2>2
  <2>4. b = d /\ c = a BY <2>1, <2>2, <2>3 DEF OneCell
  <2> QED BY <2>1, <2>2, <2>4
<1>9. DOMAIN o = 1 .. Cardinality(H) BY <1>6
<1>10. ASSUME NEW i \in 1 .. Cardinality(H)
       PROVE  /\ DOMAIN o[i] = {1} /\ o[i][1] = Cache!CellAt(s, Cache!Nth(H, i)).n
              /\ o[i] # <<>> /\ o[i][1] \in Nat
  <2>1. PICK n : n = Cache!CellAt(s, Cache!Nth(H, i)).n OBVIOUS
  <2>2. n \in Nat BY <1>4, <1>7, <2>1
  <2>3. o[i] = <<n>> BY <1>6, <2>1
  <2> QED BY <2>1, <2>2, <2>3
<1>11. \A i \in DOMAIN o : IsRun(o[i]) BY <1>9, <1>10 DEF IsRun
<1>12. ASSUME NEW i \in DOMAIN o, NEW j \in DOMAIN o PROVE SamePlace(o, i, j)
  <2> SUFFICES ASSUME o[i][1] = o[j][1] PROVE i = j BY <1>9, <1>10 DEF SamePlace
  <2>1. Cache!Nth(H, i) \in H /\ Cache!Nth(H, j) \in H BY <1>4, <1>9
  <2>2. Cache!CellAt(s, Cache!Nth(H, i)).n = Cache!CellAt(s, Cache!Nth(H, j)).n
    BY <1>9, <1>10
  <2>3. Cache!Nth(H, i) = Cache!Nth(H, j) BY <1>8, <2>1, <2>2
  <2> QED BY <1>3, <1>9, <2>3, NthIsOne, CacheConstants
<1> QED BY <1>5, <1>11, <1>12 DEF RunsOnce

LEMMA CellsOnce ==
    ASSUME NEW s, Typed(s), Orderly(s), NEW cells \in SUBSET ColdCells,
           NEW t, t = Cache!FlushCells(s, cells)
    PROVE  Orderly(t)
<1>1. /\ t.hot = s.hot
      /\ \A b \in Cache!BucketIdx, c \in Cache!CellIdx :
             t.cold[b][c] = IF Cache!ColdLocation(b, c) \in cells THEN Free ELSE s.cold[b][c]
  BY CellsFlushed
<1>2. /\ t.loc = s.loc
      /\ t.cold = [b \in Cache!BucketIdx |-> [c \in Cache!CellIdx |->
                    IF Cache!ColdLocation(b, c) \in cells THEN Free ELSE s.cold[b][c]]]
      /\ t.hot = s.hot /\ t.cap = s.cap
      /\ t.calls = [k \in Keys |-> s.calls[k] \o Cache!CellCalls(s, cells, k)]
      /\ t.panicked = s.panicked /\ IsCache(t)
  BY CellsMade
<1> SUFFICES ASSUME NEW k \in Keys PROVE Once(t, k) BY DEF Orderly
<1>3. Once(s, k) BY DEF Orderly
<1>4. PICK o \in Seq(Seq(Nat)) : o = s.calls[k] BY DEF Typed
<1>5. PICK p \in Seq(Seq(Nat)) : p = Cache!CellCalls(s, cells, k) BY CallsOfCells
<1>6. RunsOnce(o) /\ RunsOnce(p) BY <1>3, <1>4, <1>5, CellRuns DEF Once
<1>7. \A n : Gives(p, n) <=>
          \E b \in Cache!BucketIdx, c \in Cache!CellIdx :
              Cache!ColdLocation(b, c) \in cells /\ Holds(s, b, c, k) /\ s.cold[b][c].n = n
  <2>1. \A n : Gives(Cache!CellCalls(s, cells, k), n) <=>
            \E b \in Cache!BucketIdx, c \in Cache!CellIdx :
                /\ Cache!ColdLocation(b, c) \in cells
                /\ Holds(s, b, c, k) /\ s.cold[b][c].n = n
    BY CallsOfCells
  <2> QED BY <1>5, <2>1
<1>8. \A n : Gives(p, n) => InCell(s, k, n) BY <1>7 DEF InCell
<1>9. \A n : Gives(o, n) <=> HandedOut(s, k, n) BY <1>4 DEF Gives, HandedOut
<1>10. \A n : ~(Gives(o, n) /\ Gives(p, n)) BY <1>3, <1>8, <1>9 DEF Once, Apart
<1>11. t.calls[k] = o \o p BY <1>2, <1>4, <1>5
<1>12. RunsOnce(t.calls[k]) BY <1>6, <1>10, <1>11, RunsJoined
<1>13. \A n : HandedOut(t, k, n) <=> HandedOut(s, k, n) \/ Gives(p, n)
  <2>1. \A n : HandedOut(t, k, n) <=> Gives(o \o p, n) BY <1>11 DEF Gives, HandedOut
  <2>2. \A n : Gives(o \o p, n) <=> Gives(o, n) \/ Gives(p, n) BY MoreCalls
  <2> QED BY <1>9, <2>1, <2>2
<1>14. \A n : InHot(t, k, n) <=> InHot(s, k, n) BY <1>1 DEF InHot
<1>15. ASSUME NEW b \in Cache!BucketIdx, NEW c \in Cache!CellIdx, Holds(t, b, c, k)
       PROVE  /\ Holds(s, b, c, k) /\ t.cold[b][c] = s.cold[b][c]
              /\ Cache!ColdLocation(b, c) \notin cells
  BY <1>1, <1>15 DEF Holds
<1>16. \A n : InCell(t, k, n) => InCell(s, k, n) BY <1>15 DEF InCell
<1>17. ASSUME NEW n, InCell(t, k, n) PROVE ~Gives(p, n)
  <2>1. PICK b \in Cache!BucketIdx, c \in Cache!CellIdx :
            Holds(t, b, c, k) /\ t.cold[b][c].n = n
    BY <1>17 DEF InCell
  <2>2. /\ Holds(s, b, c, k) /\ s.cold[b][c].n = n
        /\ Cache!ColdLocation(b, c) \notin cells
    BY <1>15, <2>1
  <2> SUFFICES ASSUME NEW d \in Cache!BucketIdx, NEW a \in Cache!CellIdx,
                      Cache!ColdLocation(d, a) \in cells, Holds(s, d, a, k),
                      s.cold[d][a].n = n
               PROVE  FALSE
    BY <1>7
  <2>3. b = d /\ c = a BY <1>3, <2>2 DEF Once, OneCell
  <2> QED BY <2>2, <2>3
<1>18. Apart(t, k) BY <1>3, <1>8, <1>13, <1>14, <1>16, <1>17 DEF Once, Apart
<1>19. OneCell(t, k)
  <2> SUFFICES ASSUME NEW b \in Cache!BucketIdx, NEW d \in Cache!BucketIdx,
                      NEW c \in Cache!CellIdx, NEW a \in Cache!CellIdx,
                      Holds(t, b, c, k), Holds(t, d, a, k),
                      t.cold[b][c].n = t.cold[d][a].n
               PROVE  b = d /\ c = a
    BY DEF OneCell
  <2>1. Holds(s, b, c, k) /\ Holds(s, d, a, k) /\ s.cold[b][c].n = s.cold[d][a].n BY <1>15
  <2> QED BY <1>3, <2>1 DEF Once, OneCell
<1>20. EntryRun(t.hot[k]) BY <1>1, <1>3 DEF Once
<1> QED BY <1>12, <1>18, <1>19, <1>20 DEF Once

LEMMA EmptiedOnce ==
    ASSUME NEW s, Typed(s), Orderly(s), NEW cells \in SUBSET ColdCells,
           NEW t, t = Emptied(s, cells)
    PROVE  Orderly(t)
<1>1. PICK u : u = Cache!FlushCells(s, cells) OBVIOUS
<1>2. Typed(u) /\ Orderly(u) BY <1>1, CellsFlushed, CellsOnce
<1>3. t = Located(u, Cache!Forget(u.loc, cells))
  <2>1. u.loc = s.loc BY <1>1, CellsFlushed
  <2> QED BY <1>1, <2>1 DEF Emptied, Located
<1>4. t.cold = u.cold /\ t.hot = u.hot /\ t.calls = u.calls BY <1>2, <1>3, LocatedMade
<1> QED BY <1>2, <1>4, OrderlyStill

(* A buffer that follows the last one joins the entry of its key.          *)
Follows(s, k, n) == s.hot[k] = <<>> \/ s.hot[k][Len(s.hot[k])].n + 1 = n

LEMMA RunGoesOn ==
    ASSUME NEW h \in Seq(CacheBuffer), EntryRun(h), NEW buf \in CacheBuffer,
           h = <<>> \/ h[Len(h)].n + 1 = buf.n
    PROVE  EntryRun(Append(h, buf))
<1>1. PICK o : o = Append(h, buf) OBVIOUS
<1>2. /\ Len(h) \in Nat /\ DOMAIN h = 1 .. Len(h) /\ DOMAIN o = 1 .. Len(h) + 1
      /\ \A i \in 1 .. Len(h) : o[i] = h[i]
      /\ o[Len(h) + 1] = buf
  BY <1>1
<1>3. \A i \in 1 .. Len(h) : h[i].n \in Nat
  <2>1. \A i \in 1 .. Len(h) : h[i] \in CacheBuffer OBVIOUS
  <2> QED BY <2>1 DEF CacheBuffer
<1>4. buf.n \in Nat BY DEF CacheBuffer
<1>5. CASE h = <<>>
  <2>1. Len(h) = 0 BY <1>5
  <2>2. DOMAIN o = {1} BY <1>2, <2>1
  <2>3. o[1].n = o[1].n + 1 - 1 BY <1>2, <1>4, <2>1
  <2>4. \A i \in DOMAIN o : o[i].n = o[1].n + i - 1 BY <2>2, <2>3
  <2> QED BY <1>1, <2>4 DEF EntryRun
<1>6. CASE h # <<>>
  <2>1. PICK l \in Nat : l = Len(h) BY <1>2
  <2>2. l > 0 BY <1>2, <1>6, <2>1
  <2>3. PICK f \in Nat : f = h[1].n BY <1>3, <2>1, <2>2
  <2>4. \A i \in 1 .. l : h[i].n = f + i - 1 BY <1>2, <2>1, <2>3 DEF EntryRun
  <2>5. buf.n = f + (l + 1) - 1 BY <1>6, <2>1, <2>2, <2>4
  <2>6. o[1].n = f BY <1>2, <2>1, <2>2, <2>3
  <2>7. ASSUME NEW i \in 1 .. l + 1 PROVE o[i].n = f + i - 1
    <3>1. CASE i \in 1 .. l BY <1>2, <2>1, <2>4, <3>1
    <3>2. CASE i = l + 1 BY <1>2, <2>1, <2>5, <3>2
    <3> QED BY <3>1, <3>2
  <2>8. \A i \in DOMAIN o : o[i].n = o[1].n + i - 1 BY <1>2, <2>1, <2>6, <2>7
  <2> QED BY <1>1, <2>8 DEF EntryRun
<1> QED BY <1>5, <1>6

LEMMA AppendOnce ==
    ASSUME NEW s, Typed(s), Orderly(s), NEW e \in Keys, NEW buf \in CacheBuffer,
           ~Has(s, e, buf.n), Follows(s, e, buf.n), NEW t, t = Cache!AppendHot(s, e, buf)
    PROVE  Orderly(t)
<1>1. /\ t.cold = s.cold /\ t.calls = s.calls
      /\ t.hot = WithKey(s.hot, e, Append(s.hot[e], buf))
  BY AppendMade
<1>2. PICK h \in Seq(CacheBuffer) : h = s.hot[e] BY DEF Typed
<1>3. s.hot \in [Keys -> Seq(CacheBuffer)] BY DEF Typed
<1>4. t.hot[e] = Append(h, buf) /\ \A k \in Keys \ {e} : t.hot[k] = s.hot[k]
  BY <1>1, <1>2, <1>3 DEF WithKey
<1>5. \A k \in Keys \ {e} : Once(t, k) BY <1>1, <1>4, OnceStill DEF Orderly
<1>6. Once(s, e) BY DEF Orderly
<1>7. EntryRun(t.hot[e]) BY <1>2, <1>4, <1>6, RunGoesOn DEF Once, Follows
<1>8. \A n : InHot(t, e, n) => InHot(s, e, n) \/ n = buf.n
  <2>1. PICK o : o = Append(h, buf) OBVIOUS
  <2>2. /\ Len(h) \in Nat /\ DOMAIN h = 1 .. Len(h) /\ DOMAIN o = 1 .. Len(h) + 1
        /\ \A i \in 1 .. Len(h) : o[i] = h[i]
        /\ o[Len(h) + 1] = buf
    BY <2>1
  <2>3. \A i \in DOMAIN o : i \in DOMAIN h \/ i = Len(h) + 1 BY <2>2
  <2>4. \A i \in DOMAIN o : o[i] = buf \/ (i \in DOMAIN h /\ o[i] = h[i]) BY <2>2, <2>3
  <2> QED BY <1>2, <1>4, <2>1, <2>4 DEF InHot
<1>9. \A n : HandedOut(t, e, n) <=> HandedOut(s, e, n) BY <1>1 DEF HandedOut
<1>10. \A n : InCell(t, e, n) <=> InCell(s, e, n) BY <1>1, InCellStill
<1>11. ~HandedOut(s, e, buf.n) /\ ~InCell(s, e, buf.n) BY DEF Has
<1>12. Apart(t, e) BY <1>6, <1>8, <1>9, <1>10, <1>11 DEF Once, Apart
<1>13. OneCell(t, e) BY <1>1, <1>6 DEF Once, OneCell, Holds
<1>14. RunsOnce(t.calls[e]) BY <1>1, <1>6 DEF Once
<1>15. Once(t, e) BY <1>7, <1>12, <1>13, <1>14 DEF Once
<1> QED BY <1>5, <1>15 DEF Orderly

(* A free cell gets a buffer.                                              *)
LEMMA FilledOnce ==
    ASSUME NEW s, Typed(s), Orderly(s), NEW e \in Keys,
           NEW buf \in CacheBuffer, buf.key = e, ~Has(s, e, buf.n),
           NEW b \in Cache!BucketIdx, NEW c \in Cache!CellIdx, s.cold[b][c] = Free,
           NEW t, t = Filled(s, e, buf, b, c)
    PROVE  Orderly(t)
<1>1. t.cold = WithCell(s.cold, b, c, buf) /\ t.hot = s.hot /\ t.calls = s.calls
  BY FilledMade
<1>2. s.cold \in [Cache!BucketIdx -> [Cache!CellIdx -> CacheBuffer \cup {Free}]]
  BY DEF Typed
<1>3. /\ t.cold[b][c] = buf
      /\ \A i \in Cache!BucketIdx, j \in Cache!CellIdx :
             i # b \/ j # c => t.cold[i][j] = s.cold[i][j]
  BY <1>1, <1>2 DEF WithCell
<1>4. buf # Free BY CacheConstants DEF CacheBuffer
<1>5. ASSUME NEW k \in Keys, NEW i \in Cache!BucketIdx, NEW j \in Cache!CellIdx,
             Holds(t, i, j, k)
      PROVE  \/ Holds(s, i, j, k) /\ t.cold[i][j] = s.cold[i][j]
             \/ i = b /\ j = c /\ k = e /\ t.cold[i][j] = buf
  <2>1. CASE i = b /\ j = c BY <1>3, <1>5, <2>1 DEF Holds
  <2>2. CASE i # b \/ j # c BY <1>3, <1>5, <2>2 DEF Holds
  <2> QED BY <2>1, <2>2
<1> SUFFICES ASSUME NEW k \in Keys PROVE Once(t, k) BY DEF Orderly
<1>6. Once(s, k) BY DEF Orderly
<1>7. \A n : /\ HandedOut(t, k, n) <=> HandedOut(s, k, n)
             /\ InHot(t, k, n) <=> InHot(s, k, n)
  BY <1>1 DEF HandedOut, InHot
<1>8. \A n : InCell(t, k, n) => InCell(s, k, n) \/ (k = e /\ n = buf.n)
  <2> SUFFICES ASSUME NEW n, NEW i \in Cache!BucketIdx, NEW j \in Cache!CellIdx,
                      Holds(t, i, j, k), t.cold[i][j].n = n
               PROVE  InCell(s, k, n) \/ (k = e /\ n = buf.n)
    BY DEF InCell
  <2>1. CASE Holds(s, i, j, k) /\ t.cold[i][j] = s.cold[i][j] BY <2>1 DEF InCell
  <2>2. CASE i = b /\ j = c /\ k = e /\ t.cold[i][j] = buf BY <2>2
  <2> QED BY <1>5, <2>1, <2>2
<1>9. k = e => ~HandedOut(s, k, buf.n) /\ ~InHot(s, k, buf.n) BY DEF Has
<1>10. Apart(t, k) BY <1>6, <1>7, <1>8, <1>9 DEF Once, Apart
<1>11. OneCell(t, k)
  <2> SUFFICES ASSUME NEW i \in Cache!BucketIdx, NEW d \in Cache!BucketIdx,
                      NEW j \in Cache!CellIdx, NEW a \in Cache!CellIdx,
                      Holds(t, i, j, k), Holds(t, d, a, k),
                      t.cold[i][j].n = t.cold[d][a].n
               PROVE  i = d /\ j = a
    BY DEF OneCell
  <2>1. ASSUME NEW x \in Cache!BucketIdx, NEW y \in Cache!CellIdx, Holds(s, x, y, k),
               k = e, s.cold[x][y].n = buf.n
        PROVE  FALSE
    BY <2>1 DEF Has, InCell
  <2>2. CASE Holds(s, i, j, k) /\ t.cold[i][j] = s.cold[i][j]
    <3>1. CASE Holds(s, d, a, k) /\ t.cold[d][a] = s.cold[d][a]
      BY <1>6, <2>2, <3>1 DEF Once, OneCell
    <3>2. CASE d = b /\ a = c /\ k = e /\ t.cold[d][a] = buf BY <2>1, <2>2, <3>2
    <3> QED BY <1>5, <3>1, <3>2
  <2>3. CASE i = b /\ j = c /\ k = e /\ t.cold[i][j] = buf
    <3>1. CASE Holds(s, d, a, k) /\ t.cold[d][a] = s.cold[d][a] BY <2>1, <2>3, <3>1
    <3>2. CASE d = b /\ a = c /\ k = e /\ t.cold[d][a] = buf BY <2>3, <3>2
    <3> QED BY <1>5, <3>1, <3>2
  <2> QED BY <1>5, <2>2, <2>3
<1> QED BY <1>1, <1>6, <1>10, <1>11 DEF Once

(* A buffer that is taken out of its cell is nowhere else.                 *)
LEMMA EmptyCellOnce ==
    ASSUME NEW s, Typed(s), Orderly(s), NEW e \in Keys,
           NEW b \in Cache!BucketIdx, NEW c \in Cache!CellIdx, Holds(s, b, c, e),
           NEW t, t = EmptyCell(s, b, c)
    PROVE  Orderly(t) /\ ~Has(t, e, s.cold[b][c].n)
<1>1. t.cold = WithCell(s.cold, b, c, Free) /\ t.hot = s.hot /\ t.calls = s.calls
  BY EmptyCellMade
<1>2. s.cold \in [Cache!BucketIdx -> [Cache!CellIdx -> CacheBuffer \cup {Free}]]
  BY DEF Typed
<1>3. /\ t.cold[b][c] = Free
      /\ \A i \in Cache!BucketIdx, j \in Cache!CellIdx :
             i # b \/ j # c => t.cold[i][j] = s.cold[i][j]
  BY <1>1, <1>2 DEF WithCell
<1>4. ASSUME NEW k \in Keys, NEW i \in Cache!BucketIdx, NEW j \in Cache!CellIdx,
             Holds(t, i, j, k)
      PROVE  Holds(s, i, j, k) /\ t.cold[i][j] = s.cold[i][j] /\ (i # b \/ j # c)
  BY <1>3, <1>4 DEF Holds
<1>5. ASSUME NEW k \in Keys PROVE Once(t, k)
  <2>1. Once(s, k) BY DEF Orderly
  <2>2. \A n : /\ HandedOut(t, k, n) <=> HandedOut(s, k, n)
               /\ InHot(t, k, n) <=> InHot(s, k, n)
    BY <1>1 DEF HandedOut, InHot
  <2>3. \A n : InCell(t, k, n) => InCell(s, k, n) BY <1>4 DEF InCell
  <2>4. Apart(t, k) BY <2>1, <2>2, <2>3 DEF Once, Apart
  <2>5. OneCell(t, k) BY <1>4, <2>1 DEF Once, OneCell
  <2> QED BY <1>1, <2>1, <2>4, <2>5 DEF Once
<1>6. PICK n : n = s.cold[b][c].n OBVIOUS
<1>7. Once(s, e) BY DEF Orderly
<1>8. InCell(s, e, n) BY <1>6 DEF InCell
<1>9. ~HandedOut(t, e, n) /\ ~InHot(t, e, n)
  <2>1. ~HandedOut(s, e, n) /\ ~InHot(s, e, n) BY <1>7, <1>8 DEF Once, Apart
  <2> QED BY <1>1, <2>1 DEF HandedOut, InHot
<1>10. ~InCell(t, e, n)
  <2> SUFFICES ASSUME NEW i \in Cache!BucketIdx, NEW j \in Cache!CellIdx,
                      Holds(t, i, j, e), t.cold[i][j].n = n
               PROVE  FALSE
    BY DEF InCell
  <2>1. Holds(s, i, j, e) /\ s.cold[i][j].n = n /\ (i # b \/ j # c) BY <1>4
  <2> QED BY <1>6, <1>7, <2>1 DEF Once, OneCell
<1> QED BY <1>5, <1>6, <1>9, <1>10 DEF Orderly, Has

(***************************************************************************)
(* Where the newest buffer of a key is: at the end of its hot entry, or in *)
(* the cell that its location leads to.  An operator on another key spares *)
(* both, or hands them out and takes the key off the map.                  *)
(***************************************************************************)
HotEnd(s, k, n) == s.hot[k] # <<>> => s.hot[k][Len(s.hot[k])].n = n
LeadsTo(s, k, b, c) == s.loc[k] = Cache!ColdLocation(b, c) /\ Holds(s, b, c, k)
ColdEnd(s, k, n) ==
    Cache!IsCold(s.loc[k]) =>
        \E b \in Cache!BucketIdx, c \in Cache!CellIdx :
            LeadsTo(s, k, b, c) /\ s.cold[b][c].n = n
Spares(s, t, k) ==
    /\ t.hot[k] = s.hot[k] \/ t.hot[k] = <<>>
    /\ Cache!IsCold(t.loc[k]) =>
           /\ t.loc[k] = s.loc[k]
           /\ \A b \in Cache!BucketIdx, c \in Cache!CellIdx :
                  LeadsTo(s, k, b, c) => t.cold[b][c] = s.cold[b][c]
Spared(s, t, K) == \A k \in K : Spares(s, t, k)

LEMMA EndsSpared ==
    ASSUME NEW s, NEW t, NEW k, Spares(s, t, k), NEW n, HotEnd(s, k, n), ColdEnd(s, k, n)
    PROVE  HotEnd(t, k, n) /\ ColdEnd(t, k, n)
<1>1. HotEnd(t, k, n) BY DEF Spares, HotEnd
<1>2. ASSUME Cache!IsCold(t.loc[k])
      PROVE  \E b \in Cache!BucketIdx, c \in Cache!CellIdx :
                 LeadsTo(t, k, b, c) /\ t.cold[b][c].n = n
  <2>1. t.loc[k] = s.loc[k] BY <1>2 DEF Spares
  <2>2. PICK b \in Cache!BucketIdx, c \in Cache!CellIdx :
            LeadsTo(s, k, b, c) /\ s.cold[b][c].n = n
    BY <1>2, <2>1 DEF ColdEnd
  <2>3. t.cold[b][c] = s.cold[b][c] BY <1>2, <2>2 DEF Spares
  <2> QED BY <2>1, <2>2, <2>3 DEF LeadsTo, Holds
<1> QED BY <1>1, <1>2 DEF ColdEnd

LEMMA SparesTwice ==
    ASSUME NEW s, NEW t, NEW u, NEW k, Spares(s, t, k), Spares(t, u, k)
    PROVE  Spares(s, u, k)
<1>1. u.hot[k] = s.hot[k] \/ u.hot[k] = <<>> BY DEF Spares
<1>2. ASSUME Cache!IsCold(u.loc[k])
      PROVE  /\ u.loc[k] = s.loc[k]
             /\ \A b \in Cache!BucketIdx, c \in Cache!CellIdx :
                    LeadsTo(s, k, b, c) => u.cold[b][c] = s.cold[b][c]
  <2>1. u.loc[k] = t.loc[k] BY <1>2 DEF Spares
  <2>2. t.loc[k] = s.loc[k] BY <1>2, <2>1 DEF Spares
  <2> SUFFICES ASSUME NEW b \in Cache!BucketIdx, NEW c \in Cache!CellIdx,
                      LeadsTo(s, k, b, c)
               PROVE  u.cold[b][c] = s.cold[b][c]
    BY <2>1, <2>2
  <2>3. t.cold[b][c] = s.cold[b][c] BY <1>2, <2>1 DEF Spares
  <2>4. LeadsTo(t, k, b, c) BY <2>2, <2>3 DEF LeadsTo, Holds
  <2> QED BY <1>2, <2>3, <2>4 DEF Spares
<1> QED BY <1>1, <1>2 DEF Spares

LEMMA SparedTwice ==
    ASSUME NEW s, NEW t, NEW u, NEW K, Spared(s, t, K), Spared(t, u, K)
    PROVE  Spared(s, u, K)
BY SparesTwice DEF Spared

(* The cells and the entry of a key are as before.                         *)
LEMMA SparedIf ==
    ASSUME NEW s, NEW t, NEW K, t.cold = s.cold,
           \A k \in K : /\ t.hot[k] = s.hot[k] \/ t.hot[k] = <<>>
                        /\ t.loc[k] = s.loc[k] \/ ~Cache!IsCold(t.loc[k])
    PROVE  Spared(s, t, K)
BY DEF Spared, Spares

LEMMA PanicSpares ==
    ASSUME NEW s, Typed(s), Orderly(s), NEW K, NEW t, t = Cache!Panic(s)
    PROVE  Orderly(t) /\ Spared(s, t, K) /\ t.panicked /\ t.hot = s.hot
<1>1. /\ t.loc = s.loc /\ t.cold = s.cold /\ t.hot = s.hot /\ t.calls = s.calls
      /\ t.panicked = TRUE
  BY PanicMade
<1> QED BY <1>1, OrderlyStill, SparedIf

LEMMA FlushSpares ==
    ASSUME NEW s, Typed(s), Orderly(s), NEW t, t = Cache!FlushHot(s)
    PROVE  Orderly(t) /\ Spared(s, t, Keys) /\ NoEntries(t)
<1>1. /\ t.loc = Cache!Forget(s.loc, {Cache!HotLocation}) /\ t.cold = s.cold
      /\ t.hot = [k \in Keys |-> <<>>]
  BY HotFlushMade
<1>2. \A k \in Keys : t.loc[k] = s.loc[k] \/ t.loc[k] = Cache!NoLoc
  BY <1>1 DEF Cache!Forget
<1>3. \A k \in Keys : t.hot[k] = <<>> BY <1>1
<1> QED BY <1>1, <1>2, <1>3, NoneIsCold, SparedIf, HotFlushOnce DEF NoEntries

LEMMA EvictSpares ==
    ASSUME NEW s, Typed(s), Orderly(s), NEW e \in Keys, s.hot[e] # <<>>,
           NEW t, t = Cache!EvictEntry(s, e)
    PROVE  Orderly(t) /\ Spared(s, t, Keys) /\ t.hot[e] = <<>>
<1>1. /\ t.loc = WithKey(s.loc, e, Cache!NoLoc) /\ t.cold = s.cold
      /\ t.hot = WithKey(s.hot, e, <<>>)
  BY EvictionMade
<1>2. s.loc \in [Keys -> Locs] /\ s.hot \in [Keys -> Seq(CacheBuffer)] BY DEF Typed
<1>3. /\ t.loc[e] = Cache!NoLoc /\ t.hot[e] = <<>>
      /\ \A k \in Keys \ {e} : t.loc[k] = s.loc[k] /\ t.hot[k] = s.hot[k]
  BY <1>1, <1>2 DEF WithKey
<1>4. \A k \in Keys : /\ t.hot[k] = s.hot[k] \/ t.hot[k] = <<>>
                      /\ t.loc[k] = s.loc[k] \/ ~Cache!IsCold(t.loc[k])
  BY <1>3, NoneIsCold
<1> QED BY <1>1, <1>3, <1>4, SparedIf, EvictionOnce

LEMMA HeatSpares ==
    ASSUME NEW s, Typed(s), Orderly(s), NEW e \in Keys, NEW t, t = Heated(s, e)
    PROVE  Orderly(t) /\ Spared(s, t, Keys) /\ ~Cache!IsCold(t.loc[e]) /\ t.hot = s.hot
<1>1. /\ t.loc = WithKey(s.loc, e, Cache!HotLocation) /\ t.cold = s.cold /\ t.hot = s.hot
      /\ t.calls = s.calls
  BY HeatedMade
<1>2. s.loc \in [Keys -> Locs] BY DEF Typed
<1>3. t.loc[e] = Cache!HotLocation /\ \A k \in Keys \ {e} : t.loc[k] = s.loc[k]
  BY <1>1, <1>2 DEF WithKey
<1>4. \A k \in Keys : t.loc[k] = s.loc[k] \/ ~Cache!IsCold(t.loc[k]) BY <1>3, NoneIsCold
<1> QED BY <1>1, <1>3, <1>4, NoneIsCold, SparedIf, OrderlyStill

LEMMA EmptiedSpares ==
    ASSUME NEW s, Typed(s), Orderly(s), NEW cells \in SUBSET ColdCells,
           NEW t, t = Emptied(s, cells)
    PROVE  Orderly(t) /\ Spared(s, t, Keys) /\ t.hot = s.hot
<1>1. PICK u : u = Cache!FlushCells(s, cells) OBVIOUS
<1>2. /\ Typed(u) /\ u.loc = s.loc /\ u.hot = s.hot
      /\ \A b \in Cache!BucketIdx, c \in Cache!CellIdx :
             u.cold[b][c] = IF Cache!ColdLocation(b, c) \in cells THEN Free ELSE s.cold[b][c]
  BY <1>1, CellsFlushed
<1>3. t.loc = Cache!Forget(s.loc, cells) /\ t.cold = u.cold /\ t.hot = s.hot
  <2>1. t = Located(u, Cache!Forget(u.loc, cells)) BY <1>1, <1>2 DEF Emptied, Located
  <2> QED BY <1>2, <2>1, LocatedMade
<1>4. \A k \in Keys : t.loc[k] = IF s.loc[k] \in cells THEN Cache!NoLoc ELSE s.loc[k]
  BY <1>3 DEF Cache!Forget
<1>5. ASSUME NEW k \in Keys, Cache!IsCold(t.loc[k])
      PROVE  /\ t.loc[k] = s.loc[k]
             /\ \A b \in Cache!BucketIdx, c \in Cache!CellIdx :
                    LeadsTo(s, k, b, c) => t.cold[b][c] = s.cold[b][c]
  <2>1. s.loc[k] \notin cells BY <1>4, <1>5, NoneIsCold
  <2>2. t.loc[k] = s.loc[k] BY <1>4, <2>1
  <2> QED BY <1>2, <1>3, <2>1, <2>2 DEF LeadsTo
<1>6. Spared(s, t, Keys) BY <1>3, <1>5 DEF Spared, Spares
<1> QED BY <1>3, <1>6, EmptiedOnce

LEMMA FillSpares ==
    ASSUME NEW s, Typed(s), Orderly(s), NEW e \in Keys, s.hot[e] = <<>>,
           NEW buf \in CacheBuffer, buf.key = e, ~Has(s, e, buf.n),
           NEW b \in Cache!BucketIdx, NEW c \in Cache!CellIdx, s.cold[b][c] = Free,
           NEW t, t = Filled(s, e, buf, b, c)
    PROVE  /\ Orderly(t) /\ Spared(s, t, Keys \ {e})
           /\ HotEnd(t, e, buf.n) /\ ColdEnd(t, e, buf.n)
<1>1. /\ t.loc = WithKey(s.loc, e, Cache!ColdLocation(b, c))
      /\ t.cold = WithCell(s.cold, b, c, buf) /\ t.hot = s.hot
  BY FilledMade
<1>2. /\ s.loc \in [Keys -> Locs]
      /\ s.cold \in [Cache!BucketIdx -> [Cache!CellIdx -> CacheBuffer \cup {Free}]]
  BY DEF Typed
<1>3. /\ t.cold[b][c] = buf
      /\ \A i \in Cache!BucketIdx, j \in Cache!CellIdx :
             i # b \/ j # c => t.cold[i][j] = s.cold[i][j]
  BY <1>1, <1>2 DEF WithCell
<1>4. /\ t.loc[e] = Cache!ColdLocation(b, c)
      /\ \A k \in Keys \ {e} : t.loc[k] = s.loc[k]
  BY <1>1, <1>2 DEF WithKey
<1>5. buf # Free BY CacheConstants DEF CacheBuffer
<1>6. ASSUME NEW k, NEW i \in Cache!BucketIdx, NEW j \in Cache!CellIdx, LeadsTo(s, k, i, j)
      PROVE  t.cold[i][j] = s.cold[i][j]
  <2>1. i # b \/ j # c BY <1>6 DEF LeadsTo, Holds
  <2> QED BY <1>3, <2>1
<1>7. Spared(s, t, Keys \ {e}) BY <1>1, <1>4, <1>6 DEF Spared, Spares
<1>8. HotEnd(t, e, buf.n) BY <1>1 DEF HotEnd
<1>9. ColdEnd(t, e, buf.n) BY <1>3, <1>4, <1>5 DEF ColdEnd, LeadsTo, Holds
<1> QED BY <1>7, <1>8, <1>9, FilledOnce

LEMMA AppendSpares ==
    ASSUME NEW s, Typed(s), Orderly(s), NEW e \in Keys, NEW buf \in CacheBuffer,
           ~Has(s, e, buf.n), Follows(s, e, buf.n), NEW t, t = Cache!AppendHot(s, e, buf)
    PROVE  /\ Orderly(t) /\ Spared(s, t, Keys \ {e})
           /\ HotEnd(t, e, buf.n) /\ t.loc = s.loc
<1>1. /\ t.loc = s.loc /\ t.cold = s.cold
      /\ t.hot = WithKey(s.hot, e, Append(s.hot[e], buf))
  BY AppendMade
<1>2. PICK h \in Seq(CacheBuffer) : h = s.hot[e] BY DEF Typed
<1>3. s.hot \in [Keys -> Seq(CacheBuffer)] BY DEF Typed
<1>4. t.hot[e] = Append(h, buf) /\ \A k \in Keys \ {e} : t.hot[k] = s.hot[k]
  BY <1>1, <1>2, <1>3 DEF WithKey
<1>5. PICK o : o = Append(h, buf) OBVIOUS
<1>6. o[Len(o)] = buf BY <1>5
<1>7. HotEnd(t, e, buf.n) BY <1>4, <1>5, <1>6 DEF HotEnd
<1>8. Spared(s, t, Keys \ {e}) BY <1>1, <1>4, SparedIf
<1> QED BY <1>1, <1>7, <1>8, AppendOnce

LEMMA EmptyCellSpares ==
    ASSUME NEW s, Typed(s), Orderly(s), NEW e \in Keys,
           NEW b \in Cache!BucketIdx, NEW c \in Cache!CellIdx, Holds(s, b, c, e),
           NEW t, t = EmptyCell(s, b, c)
    PROVE  /\ Orderly(t) /\ ~Has(t, e, s.cold[b][c].n) /\ Spared(s, t, Keys \ {e})
           /\ t.hot = s.hot
<1>1. t.loc = s.loc /\ t.cold = WithCell(s.cold, b, c, Free) /\ t.hot = s.hot
  BY EmptyCellMade
<1>2. s.cold \in [Cache!BucketIdx -> [Cache!CellIdx -> CacheBuffer \cup {Free}]]
  BY DEF Typed
<1>3. \A i \in Cache!BucketIdx, j \in Cache!CellIdx :
          i # b \/ j # c => t.cold[i][j] = s.cold[i][j]
  BY <1>1, <1>2 DEF WithCell
<1>4. ASSUME NEW k \in Keys \ {e}, NEW i \in Cache!BucketIdx, NEW j \in Cache!CellIdx,
             LeadsTo(s, k, i, j)
      PROVE  t.cold[i][j] = s.cold[i][j]
  <2>1. i # b \/ j # c BY <1>4 DEF LeadsTo, Holds
  <2> QED BY <1>3, <2>1
<1>5. Spared(s, t, Keys \ {e}) BY <1>1, <1>4 DEF Spared, Spares
<1> QED BY <1>1, <1>5, EmptyCellOnce

(***************************************************************************)
(* The puts.  The newest buffer n of key e is where the next one of e will *)
(* find it, and those of the other keys are where they were.               *)
(***************************************************************************)
PutWell(s, t, e, n) ==
    Orderly(t) /\ Spared(s, t, Keys \ {e}) /\ (t.panicked \/ HotEnd(t, e, n))

LEMMA HasNot ==
    ASSUME NEW s, NEW t, Keeps(s, t), NEW e \in Keys, NEW buf \in CacheBuffer,
           ~Has(s, e, buf.n)
    PROVE  ~Has(t, e, buf.n)
BY DEF Keeps, CacheBuffer

LEMMA SparedLess ==
    ASSUME NEW s, NEW t, Spared(s, t, Keys), NEW e
    PROVE  Spared(s, t, Keys \ {e})
BY DEF Spared

LEMMA CellOrder ==
    ASSUME NEW K \in SUBSET Keys, NEW s, Sound(s, K), Orderly(s), NEW e \in Keys,
           s.hot[e] = <<>>, NEW buf \in CacheBuffer, buf.key = e, ~Has(s, e, buf.n),
           NEW b \in Cache!BucketIdx, NEW t, t = Cache!PutInCell(s, e, buf, b)
    PROVE  PutWell(s, t, e, buf.n) /\ ColdEnd(t, e, buf.n)
<1>1. PICK cells : cells = Cache!ColdLocations(b) OBVIOUS
<1>2. cells \in SUBSET ColdCells BY <1>1 DEF Cache!ColdLocations, ColdCells
<1>3. PICK v : v = Emptied(s, cells) OBVIOUS
<1>4. /\ Sound(v, K) /\ Keeps(s, v) /\ Orderly(v) /\ Spared(s, v, Keys \ {e})
      /\ v.hot[e] = <<>>
  <2>1. Sound(v, K) /\ Keeps(s, v) BY <1>2, <1>3, CellsForgotten
  <2>2. Orderly(v) /\ Spared(s, v, Keys) /\ v.hot = s.hot
    BY <1>2, <1>3, EmptiedSpares DEF Sound
  <2> QED BY <2>1, <2>2, SparedLess
<1>5. PICK u : u = IF Cache!FreeCells(s.cold[b]) = {} THEN v ELSE s OBVIOUS
<1>6. /\ Typed(u) /\ Keeps(s, u) /\ Orderly(u) /\ Spared(s, u, Keys \ {e})
      /\ u.hot[e] = <<>>
  <2>1. Keeps(s, s) BY DEF Keeps
  <2>2. Spared(s, s, Keys \ {e}) BY DEF Spared, Spares
  <2> QED BY <1>4, <1>5, <2>1, <2>2 DEF Sound
<1>7. PICK c : c = Cache!FindFreeCell(u.cold[b]) OBVIOUS
<1>8. c \in Cache!CellIdx /\ u.cold[b][c] = Free
  <2>1. u = Room(s, b) BY <1>1, <1>3, <1>5 DEF Room
  <2> QED BY <1>7, <2>1, CellFound
<1>9. t = Filled(u, e, buf, b, c)
  BY <1>1, <1>3, <1>5, <1>7 DEF Cache!PutInCell, Cache!FlushBucket, Emptied, Filled
<1>10. ~Has(u, e, buf.n) BY <1>6, HasNot
<1>11. /\ Orderly(t) /\ Spared(u, t, Keys \ {e})
       /\ HotEnd(t, e, buf.n) /\ ColdEnd(t, e, buf.n)
  BY <1>6, <1>8, <1>9, <1>10, FillSpares
<1>12. Spared(s, t, Keys \ {e}) BY <1>6, <1>11, SparedTwice
<1> QED BY <1>11, <1>12 DEF PutWell

LEMMA NewEntryOrder ==
    ASSUME NEW K \in SUBSET Keys, NEW s, Sound(s, K), Orderly(s), NEW e \in Keys,
           s.hot[e] = <<>>, NEW buf \in CacheBuffer, buf.key = e, ~Has(s, e, buf.n),
           NEW t, t = Cache!PutNewInHot(s, e, buf)
    PROVE  PutWell(s, t, e, buf.n) /\ (t.panicked \/ ColdEnd(t, e, buf.n))
<1>1. CASE Cache!Bytes(buf) > MaxBufLen
  <2>1. t = Cache!Panic(s) BY <1>1 DEF Cache!PutNewInHot
  <2> QED BY <2>1, PanicSpares DEF Sound, PutWell
<1>2. CASE ~(Cache!Bytes(buf) > MaxBufLen)
  <2>1. PICK v : v = Cache!FlushHot(s) OBVIOUS
  <2>2. PICK u : u = IF s.cap + Cache!Bytes(buf) > MaxCap THEN v ELSE s OBVIOUS
  <2>3. /\ Typed(v) /\ Keeps(s, v) /\ Orderly(v) /\ Spared(s, v, Keys \ {e})
        /\ v.hot[e] = <<>>
    <3>1. Sound(v, K) /\ Keeps(s, v) BY <2>1, HotFlushed
    <3>2. Orderly(v) /\ Spared(s, v, Keys) /\ NoEntries(v)
      BY <2>1, FlushSpares DEF Sound
    <3> QED BY <3>1, <3>2, SparedLess DEF Sound, NoEntries
  <2>4. /\ Typed(u) /\ Keeps(s, u) /\ Orderly(u) /\ Spared(s, u, Keys \ {e})
        /\ u.hot[e] = <<>>
    <3>1. Keeps(s, s) BY DEF Keeps
    <3>2. Spared(s, s, Keys \ {e}) BY DEF Spared, Spares
    <3> QED BY <2>2, <2>3, <3>1, <3>2 DEF Sound
  <2>5. PICK w : w = Heated(u, e) OBVIOUS
  <2>6. /\ Typed(w) /\ Keeps(u, w) /\ Orderly(w) /\ Spared(u, w, Keys \ {e})
        /\ w.hot[e] = <<>> /\ ~Cache!IsCold(w.loc[e])
    <3>1. PICK L \in SUBSET Keys : L = {} OBVIOUS
    <3>2. Sound(u, L \ {e}) BY <2>4, <3>1 DEF Sound
    <3>3. Sound(w, L) /\ Keeps(u, w) BY <2>5, <3>2, MadeHot
    <3>4. Orderly(w) /\ Spared(u, w, Keys) /\ w.hot = u.hot /\ ~Cache!IsCold(w.loc[e])
      BY <2>4, <2>5, HeatSpares
    <3> QED BY <2>4, <3>3, <3>4, SparedLess DEF Sound
  <2>7. t = Cache!AppendHot(w, e, buf)
    BY <1>2, <2>1, <2>2, <2>5 DEF Cache!PutNewInHot, Heated
  <2>8. ~Has(w, e, buf.n) BY <2>4, <2>6, HasNot
  <2>9. Follows(w, e, buf.n) BY <2>6 DEF Follows
  <2>10. /\ Orderly(t) /\ Spared(w, t, Keys \ {e})
         /\ HotEnd(t, e, buf.n) /\ t.loc = w.loc
    BY <2>6, <2>7, <2>8, <2>9, AppendSpares
  <2>11. ColdEnd(t, e, buf.n) BY <2>6, <2>10 DEF ColdEnd
  <2>12. Spared(s, w, Keys \ {e}) BY <2>4, <2>6, SparedTwice
  <2>13. Spared(s, t, Keys \ {e}) BY <2>10, <2>12, SparedTwice
  <2> QED BY <2>10, <2>11, <2>13 DEF PutWell
<1> QED BY <1>1, <1>2

(* putInCold.                                                              *)
LEMMA ColdOrder ==
    ASSUME NEW K \in SUBSET Keys, NEW s, Sound(s, K), Orderly(s), NEW e \in Keys,
           s.hot[e] = <<>>, NEW buf \in CacheBuffer, buf.key = e, ~Has(s, e, buf.n),
           NEW t, t = Cache!PutInCold(s, e, buf)
    PROVE  PutWell(s, t, e, buf.n) /\ (t.panicked \/ ColdEnd(t, e, buf.n))
<1>1. CASE Cache!FitBuckets(buf) # {}
  <2>1. PICK S : S = Cache!FitBuckets(buf) OBVIOUS
  <2>2. S \in SUBSET Cache!BucketIdx /\ S \in SUBSET Nat /\ S # {}
    BY <1>1, <2>1, CacheConstants DEF Cache!FitBuckets, Cache!BucketIdx
  <2>3. PICK b : b = Cache!Min(S) OBVIOUS
  <2>4. \E x \in S : \A y \in S : x <= y BY <2>2, LeastOne
  <2>5. b \in Cache!BucketIdx BY <2>2, <2>3, <2>4 DEF Cache!Min
  <2>6. t = Cache!PutInCell(s, e, buf, b) BY <1>1, <2>1, <2>3 DEF Cache!PutInCold
  <2> QED BY <2>5, <2>6, CellOrder
<1>2. CASE Cache!FitBuckets(buf) = {}
  <2>1. t = Cache!PutNewInHot(s, e, buf) BY <1>2 DEF Cache!PutInCold
  <2> QED BY <2>1, NewEntryOrder
<1> QED BY <1>1, <1>2

(* putInHot: the buffer follows the last one of its entry, or the entry    *)
(* has been handed out.                                                    *)
LEMMA HotOrder ==
    ASSUME NEW K \in SUBSET Keys, NEW s, Sound(s, K), Orderly(s), NEW e \in Keys,
           s.cap \in Nat, NEW buf \in CacheBuffer, buf.key = e, ~Has(s, e, buf.n),
           Follows(s, e, buf.n), NEW t, t = Cache!PutInHot(s, e, buf)
    PROVE  /\ PutWell(s, t, e, buf.n)
           /\ t.panicked \/ ColdEnd(t, e, buf.n) \/ Cache!IsCold(s.loc[e])
<1>1. Cache!Bytes(buf) \in Nat BY BufferBytes
<1>2. CASE Cache!Bytes(buf) > MaxBufLen
  <2>1. t = Cache!Panic(s) BY <1>1, <1>2, CacheLimits DEF Cache!PutInHot
  <2> QED BY <2>1, PanicSpares DEF Sound, PutWell
<1>3. CASE Cache!Bytes(buf) <= MaxBufLen /\ s.cap + Cache!Bytes(buf) > MaxCap
  <2>1. PICK u : u = Cache!FlushHot(s) OBVIOUS
  <2>2. t = Cache!PutInCold(u, e, buf) BY <1>1, <1>3, <2>1, CacheLimits DEF Cache!PutInHot
  <2>3. Sound(u, K) /\ Keeps(s, u) BY <2>1, HotFlushed
  <2>4. Orderly(u) /\ Spared(s, u, Keys) /\ NoEntries(u) BY <2>1, FlushSpares DEF Sound
  <2>5. ~Has(u, e, buf.n) BY <2>3, HasNot
  <2>6. u.hot[e] = <<>> BY <2>4 DEF NoEntries
  <2>7. PutWell(u, t, e, buf.n) /\ (t.panicked \/ ColdEnd(t, e, buf.n))
    BY <2>2, <2>3, <2>4, <2>5, <2>6, ColdOrder
  <2>8. Spared(s, t, Keys \ {e}) BY <2>4, <2>7, SparedLess, SparedTwice DEF PutWell
  <2> QED BY <2>7, <2>8 DEF PutWell
<1>4. CASE /\ Cache!Bytes(buf) <= MaxBufLen /\ ~(s.cap + Cache!Bytes(buf) > MaxCap)
           /\ t = Cache!PutInCold(Cache!EvictEntry(s, e), e, buf) /\ s.hot[e] # <<>>
  <2>1. PICK u : u = Cache!EvictEntry(s, e) OBVIOUS
  <2>2. t = Cache!PutInCold(u, e, buf) BY <1>4, <2>1
  <2>3. Sound(u, K) /\ Keeps(s, u) BY <2>1, EntryEvicted
  <2>4. Orderly(u) /\ Spared(s, u, Keys) /\ u.hot[e] = <<>>
    BY <1>4, <2>1, EvictSpares DEF Sound
  <2>5. ~Has(u, e, buf.n) BY <2>3, HasNot
  <2>6. PutWell(u, t, e, buf.n) /\ (t.panicked \/ ColdEnd(t, e, buf.n))
    BY <2>2, <2>3, <2>4, <2>5, ColdOrder
  <2>7. Spared(s, t, Keys \ {e}) BY <2>4, <2>6, SparedLess, SparedTwice DEF PutWell
  <2> QED BY <2>6, <2>7 DEF PutWell
<1>5. CASE t = Cache!AppendHot(s, e, buf)
  <2>1. /\ Orderly(t) /\ Spared(s, t, Keys \ {e})
        /\ HotEnd(t, e, buf.n) /\ t.loc = s.loc
    BY <1>5, AppendSpares DEF Sound
  <2>2. ColdEnd(t, e, buf.n) \/ Cache!IsCold(s.loc[e]) BY <2>1 DEF ColdEnd
  <2> QED BY <2>1, <2>2 DEF PutWell
<1>6. ASSUME ~(Cache!Bytes(buf) > MaxBufLen),
             ~(Cache!Bytes(buf) <= MaxBufLen /\ s.cap + Cache!Bytes(buf) > MaxCap)
      PROVE  \/ t = Cache!AppendHot(s, e, buf)
             \/ /\ t = Cache!PutInCold(Cache!EvictEntry(s, e), e, buf)
                /\ s.hot[e] # <<>>
  BY <1>6 DEF Cache!PutInHot
<1>7. ~(Cache!Bytes(buf) > MaxBufLen) => Cache!Bytes(buf) <= MaxBufLen
  BY <1>1, CacheLimits
<1> QED BY <1>2, <1>3, <1>4, <1>5, <1>6, <1>7

(* moveToHotCache: what it leaves of the key's entry ends with the buffer  *)
(* that it moved.                                                          *)
LEMMA MoveOrder ==
    ASSUME NEW s, Sound(s, Keys), Orderly(s), NEW e \in Keys, Cache!IsCold(s.loc[e]),
           s.cap \in Nat, s.hot[e] = <<>>, NEW n, ColdEnd(s, e, n),
           NEW t, t = Cache!MoveToHot(s, e)
    PROVE  PutWell(s, t, e, n) /\ (t.panicked \/ ~Cache!IsCold(t.loc[e]))
<1>1. PICK b \in Cache!BucketIdx, c \in Cache!CellIdx :
          LeadsTo(s, e, b, c) /\ s.cold[b][c].n = n
  BY DEF ColdEnd
<1>2. s.loc[e] = Cache!ColdLocation(b, c) /\ Holds(s, b, c, e) BY <1>1 DEF LeadsTo
<1>3. /\ Cache!ColdBucketIdx(s.loc[e]) = b /\ Cache!ColdCellIdx(s.loc[e]) = c
      /\ Cache!CellAt(s, s.loc[e]) = s.cold[b][c]
  BY <1>2, Locations, CellOfLocation
<1>4. PICK buf : buf = s.cold[b][c] OBVIOUS
<1>5. PICK u : u = EmptyCell(s, b, c) OBVIOUS
<1>6. PICK L \in SUBSET Keys : L = Keys \ {e} OBVIOUS
<1>7. Sound(u, L) /\ buf \in CacheBuffer BY <1>2, <1>4, <1>5, <1>6, CellEmptied
<1>8. buf.key = e /\ buf.n = n BY <1>1, <1>2, <1>4 DEF Holds
<1>9. /\ Orderly(u) /\ ~Has(u, e, buf.n) /\ Spared(s, u, Keys \ {e})
      /\ u.hot = s.hot /\ u.cap = s.cap
  BY <1>2, <1>4, <1>5, EmptyCellSpares, EmptyCellMade DEF Sound
<1>10. Follows(u, e, buf.n) BY <1>9 DEF Follows
<1>11. PICK v : v = Cache!PutInHot(u, e, buf) OBVIOUS
<1>12. PutWell(u, v, e, n) BY <1>7, <1>8, <1>9, <1>10, <1>11, HotOrder
<1>13. Sound(v, L) BY <1>7, <1>8, <1>11, HotTakes
<1>14. Orderly(v) /\ Spared(s, v, Keys \ {e}) /\ (v.panicked \/ HotEnd(v, e, n))
  BY <1>9, <1>12, SparedTwice DEF PutWell
<1>15. t = IF v.panicked THEN v ELSE Heated(v, e)
  BY <1>3, <1>4, <1>5, <1>11 DEF Cache!MoveToHot, EmptyCell, Heated
<1>16. CASE v.panicked BY <1>14, <1>15, <1>16 DEF PutWell
<1>17. CASE ~v.panicked
  <2>1. t = Heated(v, e) BY <1>15, <1>17
  <2>2. Orderly(t) /\ Spared(v, t, Keys) /\ ~Cache!IsCold(t.loc[e]) /\ t.hot = v.hot
    BY <1>13, <1>14, <2>1, HeatSpares DEF Sound
  <2>3. Spared(s, t, Keys \ {e}) BY <1>14, <2>2, SparedLess, SparedTwice
  <2>4. HotEnd(t, e, n) BY <1>14, <1>17, <2>2 DEF HotEnd
  <2> QED BY <2>2, <2>3, <2>4 DEF PutWell
<1> QED BY <1>16, <1>17

(* Put, as one of its ways through the two tiers.                          *)
Ends(s, N) == \A k \in Keys : HotEnd(s, k, N[k]) /\ ColdEnd(s, k, N[k])

LEMMA PutOrder ==
    ASSUME Sound(Cache!Cache, Keys), Fits(Cache!Cache), Agrees(Cache!Cache, Keys),
           Orderly(Cache!Cache), puts \in [Keys -> Nat], Ends(Cache!Cache, puts),
           NEW e \in Keys, NEW buf \in CacheBuffer, buf.key = e, buf.n = puts[e] + 1,
           ~Has(Cache!Cache, e, buf.n), NEW t, t = Cache!PutBuffer(e, buf)
    PROVE  /\ PutWell(Cache!Cache, t, e, buf.n)
           /\ t.panicked \/ ColdEnd(t, e, buf.n)
<1>1. PICK s : s = Cache!Cache OBVIOUS
<1>2. s.loc = loc BY <1>1 DEF Cache!Cache
<1>3. /\ Sound(s, Keys) /\ Fits(s) /\ Agrees(s, Keys) /\ Orderly(s) /\ Ends(s, puts)
      /\ ~Has(s, e, buf.n)
  BY <1>1
<1>4. PICK n \in Nat : n = puts[e] OBVIOUS
<1>5. HotEnd(s, e, n) /\ ColdEnd(s, e, n) /\ buf.n = n + 1 BY <1>3, <1>4 DEF Ends
<1>6. s.loc[e] \in Locs /\ s.cap \in Nat BY <1>3, SizesOf DEF Sound, Typed, Fits
<1>7. CASE loc[e] = Cache!NoLoc
  <2>1. t = Cache!PutInCold(s, e, buf) BY <1>1, <1>7 DEF Cache!PutBuffer
  <2>2. s.hot[e] = <<>> BY <1>2, <1>3, <1>7, NoneIsCold DEF Agrees, AtHot
  <2> QED BY <1>1, <1>3, <2>1, <2>2, ColdOrder
<1>8. CASE loc[e] # Cache!NoLoc
  <2>1. PICK u : u = IF Cache!IsCold(loc[e]) THEN Cache!MoveToHot(s, e) ELSE s OBVIOUS
  <2>2. /\ Orderly(u) /\ Spared(s, u, Keys \ {e}) /\ u.cap \in Nat
        /\ (u.panicked \/ Sound(u, Keys)) /\ ~Has(u, e, buf.n)
        /\ u.panicked \/ (~Cache!IsCold(u.loc[e]) /\ HotEnd(u, e, n))
    <3>1. CASE Cache!IsCold(loc[e])
      <4>1. u = Cache!MoveToHot(s, e) BY <2>1, <3>1
      <4>2. s.hot[e] = <<>> BY <1>2, <1>3, <3>1, NoneIsCold DEF Agrees, AtHot
      <4>3. PutWell(s, u, e, n) /\ (u.panicked \/ ~Cache!IsCold(u.loc[e]))
        BY <1>2, <1>3, <1>5, <1>6, <3>1, <4>1, <4>2, MoveOrder
      <4>4. Moves(s, u) /\ Typed(u) /\ (u.panicked \/ Sound(u, Keys))
        BY <1>2, <1>3, <3>1, <4>1, KeyMoved
      <4>5. Fits(u) BY <1>2, <1>3, <3>1, <4>1, MoveFits
      <4>6. u.cap \in Nat BY <4>4, <4>5, SizesOf DEF Fits
      <4>7. ~Has(u, e, buf.n) BY <1>3, <4>4 DEF Moves, CacheBuffer
      <4> QED BY <4>3, <4>4, <4>6, <4>7 DEF PutWell
    <3>2. CASE ~Cache!IsCold(loc[e])
      <4>1. u = s BY <2>1, <3>2
      <4>2. Spared(s, s, Keys \ {e}) BY DEF Spared, Spares
      <4> QED BY <1>2, <1>3, <1>5, <1>6, <3>2, <4>1, <4>2
    <3> QED BY <3>1, <3>2
  <2>3. t = IF u.panicked THEN u ELSE Cache!PutInHot(u, e, buf)
    BY <1>1, <1>8, <2>1 DEF Cache!PutBuffer
  <2>4. CASE u.panicked BY <1>1, <2>2, <2>3, <2>4 DEF PutWell
  <2>5. CASE ~u.panicked
    <3>1. t = Cache!PutInHot(u, e, buf) BY <2>3, <2>5
    <3>2. Follows(u, e, buf.n) BY <1>5, <2>2, <2>5 DEF HotEnd, Follows
    <3>3. /\ PutWell(u, t, e, buf.n)
          /\ t.panicked \/ ColdEnd(t, e, buf.n) \/ Cache!IsCold(u.loc[e])
      BY <2>2, <2>5, <3>1, <3>2, HotOrder
    <3>4. Spared(s, t, Keys \ {e}) BY <2>2, <3>3, SparedTwice DEF PutWell
    <3> QED BY <1>1, <2>2, <2>5, <3>3, <3>4 DEF PutWell
  <2> QED BY <2>4, <2>5
<1> QED BY <1>7, <1>8

LEMMA AllFlushedOrder ==
    ASSUME NEW s, Sound(s, Keys), Orderly(s), NEW N,
           NEW t, t = [Cache!FlushHot(Cache!FlushCold(s)) EXCEPT
                          !.loc = [k \in Keys |-> Cache!NoLoc]]
    PROVE  Orderly(t) /\ Ends(t, N)
<1>1. PICK cells : cells = UNION {Cache!ColdLocations(b) : b \in Cache!BucketIdx} OBVIOUS
<1>2. cells = ColdCells BY <1>1 DEF Cache!ColdLocations, ColdCells
<1>3. PICK u : u = Cache!FlushCells(s, cells) OBVIOUS
<1>4. Typed(u) /\ Orderly(u) BY <1>2, <1>3, CellsFlushed, CellsOnce DEF Sound
<1>5. PICK v : v = Cache!FlushHot(u) OBVIOUS
<1>6. PICK K \in SUBSET Keys : K = {} OBVIOUS
<1>7. Sound(u, K) BY <1>4, <1>6 DEF Sound
<1>8. Typed(v) /\ NoEntries(v) BY <1>5, <1>7, HotFlushed DEF Sound
<1>9. Orderly(v) BY <1>4, <1>5, HotFlushOnce
<1>10. PICK f : f = [k \in Keys |-> Cache!NoLoc] OBVIOUS
<1>11. PICK r : r = Located(v, f) OBVIOUS
<1>12. r.loc = f /\ r.cold = v.cold /\ r.hot = v.hot /\ r.calls = v.calls
  BY <1>8, <1>11, LocatedMade
<1>13. t = r BY <1>1, <1>3, <1>5, <1>10, <1>11 DEF Cache!FlushCold, Located
<1>14. Orderly(r) BY <1>9, <1>12, OrderlyStill
<1>15. Ends(r, N)
  <2>1. \A k \in Keys : ~Cache!IsCold(r.loc[k]) /\ r.hot[k] = <<>>
    BY <1>8, <1>10, <1>12, NoneIsCold DEF NoEntries
  <2> QED BY <2>1 DEF Ends, HotEnd, ColdEnd
<1> QED BY <1>13, <1>14, <1>15

---------------------------------------------------------------------------
\* The invariant.

HandedInv ==
    LimitsInv /\ Orderly(Cache!Cache) /\ (putPanics \/ Ends(Cache!Cache, puts))

LEMMA PutHanded ==
    ASSUME HandedInv, NEW e \in Keys, NEW len \in Lens, Cache!Put(e, len)
    PROVE  HandedInv'
<1>1. LimitsInv' BY PutLimits DEF HandedInv
<1>2. PICK buf : buf = [key |-> e, n |-> puts[e] + 1, len |-> len] OBVIOUS
<1>3. PICK t : t = Cache!PutBuffer(e, buf) OBVIOUS
<1>4. puts \in [Keys -> Nat] /\ ~putPanics
  BY DEF HandedInv, LimitsInv, CacheInv, Cache!Put
<1>5. buf \in CacheBuffer /\ buf.key = e /\ buf.n = puts[e] + 1 BY <1>2, <1>4 DEF CacheBuffer
<1>6. PICK s : s = Cache!Cache OBVIOUS
<1>7. /\ Sound(s, Keys) /\ Fits(s) /\ Agrees(s, Keys) /\ Orderly(s) /\ Ends(s, puts)
      /\ \A k \in Keys, n \in Nat : Has(s, k, n) <=> n \in 1 .. puts[k]
  BY <1>4, <1>6 DEF HandedInv, LimitsInv, CacheInv
<1>8. ~Has(s, e, buf.n) BY <1>4, <1>5, <1>7
<1>9. /\ PutWell(s, t, e, buf.n)
      /\ t.panicked \/ ColdEnd(t, e, buf.n)
  BY <1>3, <1>4, <1>5, <1>6, <1>7, <1>8, PutOrder
<1>10. Typed(t) BY <1>3, <1>5, <1>6, <1>7, BufferPut
<1>11. Cache!Become(t) /\ puts' = [puts EXCEPT ![e] = @ + 1]
  BY <1>2, <1>3 DEF Cache!Put
<1>12. (Cache!Cache)' = t /\ putPanics' = t.panicked BY <1>10, <1>11, Became
<1>13. PICK N : N = puts' OBVIOUS
<1>14. N[e] = puts[e] + 1 /\ \A k \in Keys \ {e} : N[k] = puts[k] BY <1>4, <1>11, <1>13
<1>15. Orderly(t) BY <1>9 DEF PutWell
<1>16. ASSUME ~t.panicked PROVE Ends(t, N)
  <2>1. HotEnd(t, e, N[e]) /\ ColdEnd(t, e, N[e])
    BY <1>5, <1>9, <1>14, <1>16 DEF PutWell
  <2>2. ASSUME NEW k \in Keys \ {e} PROVE HotEnd(t, k, N[k]) /\ ColdEnd(t, k, N[k])
    <3>1. Spares(s, t, k) BY <1>9 DEF PutWell, Spared
    <3>2. HotEnd(s, k, N[k]) /\ ColdEnd(s, k, N[k]) BY <1>7, <1>14 DEF Ends
    <3> QED BY <3>1, <3>2, EndsSpared
  <2> QED BY <2>1, <2>2 DEF Ends
<1>17. Orderly(Cache!Cache)' = Orderly((Cache!Cache)') OBVIOUS
<1>18. Ends(Cache!Cache, puts)' = Ends((Cache!Cache)', puts') OBVIOUS
<1> QED BY <1>1, <1>12, <1>13, <1>15, <1>16, <1>17, <1>18 DEF HandedInv

LEMMA FlushHanded ==
    ASSUME HandedInv, Cache!Flush
    PROVE  HandedInv'
<1>1. PICK s : s = Cache!Cache OBVIOUS
<1>2. PICK t : t = [Cache!FlushHot(Cache!FlushCold(s)) EXCEPT
                       !.loc = [k \in Keys |-> Cache!NoLoc]]
  OBVIOUS
<1>3. ~putPanics /\ Cache!Become(t) /\ UNCHANGED puts BY <1>1, <1>2 DEF Cache!Flush
<1>4. LimitsInv' BY FlushLimits DEF HandedInv
<1>5. Sound(s, Keys) /\ Orderly(s)
  BY <1>1, <1>3 DEF HandedInv, LimitsInv, CacheInv
<1>6. PICK N : N = puts' OBVIOUS
<1>7. Orderly(t) /\ Ends(t, N) BY <1>2, <1>5, AllFlushedOrder
<1>8. Typed(t) BY <1>2, <1>5, AllFlushed DEF Sound
<1>9. (Cache!Cache)' = t BY <1>3, <1>8, Became
<1>10. Orderly(Cache!Cache)' = Orderly((Cache!Cache)') OBVIOUS
<1>11. Ends(Cache!Cache, puts)' = Ends((Cache!Cache)', puts') OBVIOUS
<1> QED BY <1>4, <1>6, <1>7, <1>9, <1>10, <1>11 DEF HandedInv

LEMMA HandedStep ==
    ASSUME HandedInv, [Cache!Next]_cachevars
    PROVE  HandedInv'
<1>1. CASE UNCHANGED cachevars
  <2>1. UNCHANGED <<puts, putPanics, Cache!Cache>> BY <1>1 DEF cachevars, Cache!Cache
  <2>2. LimitsInv' BY <1>1, LimitsStep DEF HandedInv
  <2>3. Orderly(Cache!Cache)' = Orderly((Cache!Cache)') OBVIOUS
  <2>4. Ends(Cache!Cache, puts)' = Ends((Cache!Cache)', puts') OBVIOUS
  <2> QED BY <2>1, <2>2, <2>3, <2>4 DEF HandedInv
<1>2. CASE Cache!Flush BY <1>2, FlushHanded
<1>3. ASSUME NEW e \in Keys, NEW len \in Lens, Cache!Put(e, len) PROVE HandedInv'
  BY <1>3, PutHanded
<1> QED BY <1>1, <1>2, <1>3 DEF Cache!Next

LEMMA HandedBegins == Init => HandedInv
<1> SUFFICES ASSUME Init PROVE HandedInv OBVIOUS
<1>1. LimitsInv BY LimitsBegin
<1>2. /\ loc = [k \in Keys |-> Cache!NoLoc]
      /\ cold = [b \in Cache!BucketIdx |-> [c \in Cache!CellIdx |-> Free]]
      /\ hot = [k \in Keys |-> <<>>] /\ calls = [k \in Keys |-> <<>>]
  BY DEF Init, Start, Cache!Init
<1>3. PICK s : s = Cache!Cache OBVIOUS
<1>4. s.loc = loc /\ s.cold = cold /\ s.hot = hot /\ s.calls = calls
  BY <1>3 DEF Cache!Cache
<1>5. ASSUME NEW k \in Keys
      PROVE  s.hot[k] = <<>> /\ s.calls[k] = <<>> /\ ~Cache!IsCold(s.loc[k])
  BY <1>2, <1>4, NoneIsCold
<1>6. ASSUME NEW k \in Keys PROVE Once(s, k)
  <2>1. \A b \in Cache!BucketIdx, c \in Cache!CellIdx : ~Holds(s, b, c, k)
    BY <1>2, <1>4 DEF Holds
  <2>2. RunsOnce(s.calls[k]) /\ EntryRun(s.hot[k]) BY <1>5 DEF RunsOnce, EntryRun
  <2>3. \A n : ~InHot(s, k, n) /\ ~HandedOut(s, k, n) BY <1>5 DEF InHot, HandedOut
  <2>4. Apart(s, k) BY <2>3 DEF Apart
  <2>5. OneCell(s, k) BY <2>1 DEF OneCell
  <2> QED BY <2>2, <2>4, <2>5 DEF Once
<1>7. Orderly(s) BY <1>6 DEF Orderly
<1>8. Ends(s, puts) BY <1>5 DEF Ends, HotEnd, ColdEnd
<1> QED BY <1>1, <1>3, <1>7, <1>8 DEF HandedInv

LEMMA HandedAlways == Spec => []HandedInv
<1>1. HandedInv /\ [Next]_vars => HandedInv' BY CacheSteps, HandedStep
<1> QED BY <1>1, HandedBegins, PTL DEF Spec

(* The calls one after the other, as the community modules flatten them.   *)
LEMMA FlattenedIs ==
    ASSUME NEW o \in Seq(Seq(Nat)), Len(o) # 0
    PROVE  Cache!FlattenSeq(o) = Flat(o)[Len(o)]
BY DEF Cache!FlattenSeq, Flat

LEMMA FlattenedCount ==
    ASSUME NEW o \in Seq(Seq(Nat)), RunsOnce(o), NEW S, \A n : n \in S <=> Gives(o, n)
    PROVE  Cardinality(S) = Len(Cache!FlattenSeq(o))
<1>1. PICK l \in Nat : l = Len(o) OBVIOUS
<1>2. DOMAIN o = 1 .. l BY <1>1
<1>3. \A i \in DOMAIN o : \A j \in DOMAIN o[i] : o[i][j] \in Nat
  <2> SUFFICES ASSUME NEW i \in DOMAIN o, NEW j \in DOMAIN o[i] PROVE o[i][j] \in Nat
    OBVIOUS
  <2>1. o[i] \in Seq(Nat) OBVIOUS
  <2> QED BY <2>1
<1>4. S = GivenTo(o, l)
  <2>1. \A n : n \in GivenTo(o, l) <=>
                  n \in Nat /\ \E i \in 1 .. l : \E j \in DOMAIN o[i] : o[i][j] = n
    BY DEF GivenTo, GivenBy
  <2>2. \A n : Gives(o, n) <=> \E i \in 1 .. l : \E j \in DOMAIN o[i] : o[i][j] = n
    BY <1>2 DEF Gives
  <2>3. \A n : Gives(o, n) => n \in Nat BY <1>3 DEF Gives
  <2>4. \A n : n \in S <=> n \in GivenTo(o, l) BY <2>1, <2>2, <2>3
  <2>5. \A n : n \in GivenTo(o, l) => n \in Nat BY <2>1
  <2> QED BY <2>4, <2>5
<1>5. CASE l = 0
  <2>1. S = {} BY <1>2, <1>5 DEF Gives
  <2>2. Cache!FlattenSeq(o) = o BY <1>1, <1>5 DEF Cache!FlattenSeq
  <2> QED BY <1>1, <1>5, <2>1, <2>2, FS_EmptySet
<1>6. CASE l # 0
  <2>1. Cache!FlattenSeq(o) = Flat(o)[l] BY <1>1, <1>6, FlattenedIs
  <2>2. l \in 1 .. Len(o) BY <1>1, <1>6
  <2>3. Flattens(Flat(o), o, Len(o)) BY FlatIs
  <2>4. Cardinality(GivenTo(o, l)) = Len(Flat(o)[l]) BY <2>2, <2>3, FlatCount
  <2> QED BY <1>4, <2>1, <2>4
<1> QED BY <1>5, <1>6

LEMMA HandedKept == HandedInv => Cache!CallsAreRuns /\ Cache!HandedOnce
<1> SUFFICES ASSUME HandedInv PROVE Cache!CallsAreRuns /\ Cache!HandedOnce OBVIOUS
<1>1. PICK s : s = Cache!Cache OBVIOUS
<1>2. s.calls = calls BY <1>1 DEF Cache!Cache
<1>3. \A k \in Keys : RunsOnce(calls[k]) BY <1>1, <1>2 DEF HandedInv, Orderly, Once
<1>4. Cache!CallsAreRuns BY <1>3 DEF Cache!CallsAreRuns, RunsOnce, IsRun
<1>5. ASSUME NEW k \in Keys
      PROVE  Cardinality(Cache!Handed(k)) = Len(Cache!FlattenSeq(calls[k]))
  <2>1. PICK o \in Seq(Seq(Nat)) : o = calls[k]
    BY <1>1, <1>2 DEF HandedInv, LimitsInv, CacheInv, Typed
  <2>2. \A n : n \in Cache!Handed(k) <=> Gives(o, n)
    BY <2>1 DEF Cache!Handed, Cache!Range, Gives
  <2> QED BY <1>3, <2>1, <2>2, FlattenedCount
<1>6. Cache!HandedOnce
  <2>1. \A k \in Keys : Cache!Cardinality(Cache!Handed(k)) = Cardinality(Cache!Handed(k))
    BY DEF Cardinality, Cache!Cardinality
  <2> QED BY <1>5, <2>1 DEF Cache!HandedOnce
<1> QED BY <1>4, <1>6

(* Whatever evictions a Put runs through, OnFlush gets every buffer of a    *)
(* key at most once, and each call gets buffers that were put one after     *)
(* the other, oldest first.                                                 *)
THEOREM HandedInRunsAlways == Spec => []HandedInRuns
<1>1. HandedInv => HandedInRuns BY HandedKept DEF HandedInRuns
<1> QED BY <1>1, HandedAlways, PTL
=============================================================================
