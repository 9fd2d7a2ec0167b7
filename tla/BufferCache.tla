---------------------------- MODULE BufferCache ----------------------------
(***************************************************************************)
(* pkg/buffercache: a keyed store of log lines in two parts.  A key seen   *)
(* once keeps its buffer in a fixed-size cell of the COLD cache; a key     *)
(* seen again moves to the HOT cache, where its buffers are concatenated.  *)
(* A location map says which part holds a key.  A Put may overflow a       *)
(* bucket, one hot entry or the whole hot cache, and each overflow evicts  *)
(* something through OnFlush before the new buffer finds its place, so one *)
(* call of Put runs through several of the operators below.                *)
(*                                                                         *)
(* The code is sequential: an action is one call of Put or Flush.  A       *)
(* buffer is its key, its index among the puts of that key and its length  *)
(* as stored (the length after compression when it is enabled; OnFlush     *)
(* gets the original bytes back, so an index stands for both forms).       *)
(***************************************************************************)
EXTENDS Integers, Sequences, SequencesExt

CONSTANTS Keys,
          Lens,         \* lengths of the buffers that are put
          Prefix,       \* bytes of the length prefix (4 in the code)
          Buckets,      \* sequence of cell sizes, Config.Buckets
          NumBits,      \* cells per bitmap word (64 in the code)
          Words,        \* words per bitmap: CellsPerBucket / NumBits
          MaxBufLen,    \* Config.MaxBufferLength
          MaxCap,       \* Config.MaxCapacity
          CellSpan,     \* cell indices a location can encode (2^24)
          BucketSpan,   \* bucket indices a location can encode (2^7)
          MaxPuts,      \* bound on calls of Put
          Free          \* an unoccupied cell

(* The checks of New and newColdCache, and what the encoding of a location *)
(* needs, which New does not check; the last two lines are about the model. *)
ConfigAssumption ==
    /\ {Prefix, NumBits, Words, CellSpan, BucketSpan} \subseteq Nat \ {0}
    /\ MaxBufLen \in Nat /\ MaxCap \in Nat /\ MaxBufLen <= MaxCap
    /\ Buckets \in Seq(Nat)
    /\ \A i, j \in DOMAIN Buckets : i < j => Buckets[i] <= Buckets[j]
    /\ NumBits * Words <= CellSpan
    /\ Len(Buckets) <= BucketSpan
    /\ IsFiniteSet(Keys) /\ MaxPuts \in Nat
    /\ Lens \subseteq Nat /\ Free \notin [key : Keys, n : Nat, len : Lens]

VARIABLES loc,      \* loc[k]: location of k, or NoLoc
          cold,     \* cold[b][c]: the buffer in cell c of bucket b, or Free
          hot,      \* hot[k]: the buffers of k in the hot cache; <<>>: no entry
          cap,      \* the hot cache's own count of its bytes
          puts,     \* puts[k]: how many buffers were put under k
          calls,    \* calls[k]: the OnFlush calls for k, each a sequence of indices
          panicked  \* Put panicked: the program is gone

vars == <<loc, cold, hot, cap, puts, calls, panicked>>

---------------------------------------------------------------------------
\* Locations (location.go): a number whose top bit says "hot".

BucketIdx == 0 .. Len(Buckets) - 1
CellIdx   == 0 .. NumBits * Words - 1

NoLoc == -1
HotLocation == BucketSpan * CellSpan
ColdLocation(bidx, cidx) == bidx * CellSpan + cidx
IsCold(l) == l \in 0 .. HotLocation - 1
ColdBucketIdx(l) == l \div CellSpan
ColdCellIdx(l) == l % CellSpan

ColdLocations(bidx) == {ColdLocation(bidx, c) : c \in CellIdx}

(* removeHot, removeCold: the map m without the keys located in gone.      *)
Forget(m, gone) == [k \in Keys |-> IF m[k] \in gone THEN NoLoc ELSE m[k]]

---------------------------------------------------------------------------
\* Buffers, and the cold cache (cold.go, bitmap.go).

Bytes(buf) == buf.len + Prefix
EntryBytes(bufs) == FoldSeq(LAMBDA b, n : Bytes(b) + n, 0, bufs)
Index(bufs) == [i \in DOMAIN bufs |-> bufs[i].n]

FitBuckets(buf) == {b \in BucketIdx : Buckets[b + 1] >= Bytes(buf)}
FreeCells(bucket) == {c \in CellIdx : bucket[c] = Free}

(* findFreeCell: the first word with a free bit, and in it the HIGHEST     *)
(* free bit.                                                               *)
FindFreeCell(bucket) ==
    LET word == Min({c \div NumBits : c \in FreeCells(bucket)})
    IN  Max({c \in FreeCells(bucket) : c \div NumBits = word})

---------------------------------------------------------------------------
(* A Put goes through several of the following, each a function from the   *)
(* cache it finds to the cache it leaves.                                  *)

Cache == [loc |-> loc, cold |-> cold, hot |-> hot, cap |-> cap,
          calls |-> calls, panicked |-> panicked]

CellAt(s, l) == s.cold[ColdBucketIdx(l)][ColdCellIdx(l)]

(* bucket.flush for all cells that are given by their locations: one       *)
(* OnFlush call per occupied cell, in the order of the cells.              *)
Held(s, cells, k) == {l \in cells : CellAt(s, l) # Free /\ CellAt(s, l).key = k}
Nth(locs, i) == CHOOSE l \in locs : Cardinality({j \in locs : j <= l}) = i
CellCalls(s, cells, k) ==
    [i \in 1 .. Cardinality(Held(s, cells, k)) |->
        <<CellAt(s, Nth(Held(s, cells, k), i)).n>>]

FlushCells(s, cells) ==
    [s EXCEPT !.calls = [k \in Keys |-> @[k] \o CellCalls(s, cells, k)],
              !.cold = [b \in BucketIdx |-> [c \in CellIdx |->
                           IF ColdLocation(b, c) \in cells THEN Free ELSE @[b][c]]]]

FlushBucket(s, b) == FlushCells(s, ColdLocations(b))
FlushCold(s) == FlushCells(s, UNION {ColdLocations(b) : b \in BucketIdx})

FlushHot(s) ==
    [s EXCEPT !.calls = [k \in Keys |->
                            IF s.hot[k] = <<>> THEN @[k] ELSE Append(@[k], Index(s.hot[k]))],
              !.hot = [k \in Keys |-> <<>>],
              !.cap = 0,
              !.loc = Forget(@, {HotLocation})]

(* putInHot when the entry would exceed MaxBufferLength: it is flushed     *)
(* alone, and the key leaves the map.                                      *)
EvictEntry(s, k) ==
    [s EXCEPT !.calls[k] = Append(@, Index(s.hot[k])),
              !.hot[k] = <<>>,
              !.loc[k] = NoLoc,
              !.cap = @ - EntryBytes(s.hot[k])]

(* The end of putInHot: a new entry, or one more block in the entry of k.  *)
AppendHot(s, k, buf) ==
    [s EXCEPT !.hot[k] = Append(@, buf), !.cap = @ + Bytes(buf)]

Panic(s) == [s EXCEPT !.panicked = TRUE]

(* Fault: the locations of the flushed buffers stay in the map.            *)
PutInCellNoForget(s, k, buf, b) ==
    LET t == IF FreeCells(s.cold[b]) = {} THEN FlushBucket(s, b) ELSE s
        c == FindFreeCell(t.cold[b])
    IN  [t EXCEPT !.cold[b][c] = buf, !.loc[k] = ColdLocation(b, c)]

(* Fault: a full bucket is cleared without its buffers being flushed.      *)
PutInCellNoFlush(s, k, buf, b) ==
    LET emptied == [s EXCEPT
                      !.cold[b] = [c \in CellIdx |-> Free],
                      !.loc = Forget(@, ColdLocations(b))]
        t == IF FreeCells(s.cold[b]) = {} THEN emptied ELSE s
        c == FindFreeCell(t.cold[b])
    IN  [t EXCEPT !.cold[b][c] = buf, !.loc[k] = ColdLocation(b, c)]

(* putInCold, when a bucket has cells big enough.                          *)
PutInCell(s, k, buf, b) ==
    LET emptied == [FlushBucket(s, b) EXCEPT
                      !.loc = Forget(@, ColdLocations(b))]
        t == IF FreeCells(s.cold[b]) = {} THEN emptied ELSE s
        c == FindFreeCell(t.cold[b])
    IN  [t EXCEPT !.cold[b][c] = buf, !.loc[k] = ColdLocation(b, c)]

(* putInCold, when no cell is big enough: putInHot for a key that has no   *)
(* hot entry.  It may flush the hot cache, come back through putInCold and *)
(* find room, since MaxBufferLength <= MaxCapacity.                        *)
PutNewInHot(s, k, buf) ==
    IF Bytes(buf) > MaxBufLen THEN Panic(s)
    ELSE LET t == IF s.cap + Bytes(buf) > MaxCap THEN FlushHot(s) ELSE s
         IN  AppendHot([t EXCEPT !.loc[k] = HotLocation], k, buf)

PutInCold(s, k, buf) ==
    IF FitBuckets(buf) = {} THEN PutNewInHot(s, k, buf)
    ELSE PutInCell(s, k, buf, Min(FitBuckets(buf)))

PutInHot(s, k, buf) ==
    CASE Bytes(buf) > MaxBufLen -> Panic(s)
      [] /\ Bytes(buf) <= MaxBufLen /\ s.cap + Bytes(buf) > MaxCap ->
             PutInCold(FlushHot(s), k, buf)
      [] /\ Bytes(buf) <= MaxBufLen /\ s.cap + Bytes(buf) <= MaxCap
         /\ s.hot[k] # <<>>
         /\ EntryBytes(s.hot[k]) + Bytes(buf) > MaxBufLen -> PutInCold(EvictEntry(s, k), k, buf)
      [] OTHER -> AppendHot(s, k, buf)

(* Fault: the cell keeps its bit.                                          *)
MoveToHotCopy(s, k) ==
    LET t == PutInHot(s, k, CellAt(s, s.loc[k]))
    IN  IF t.panicked THEN t ELSE [t EXCEPT !.loc[k] = HotLocation]

(* moveToHotCache: the location becomes hot whatever putInHot did with the *)
(* buffer.                                                                 *)
MoveToHot(s, k) ==
    LET b == ColdBucketIdx(s.loc[k])
        c == ColdCellIdx(s.loc[k])
        t == PutInHot([s EXCEPT !.cold[b][c] = Free], k, CellAt(s, s.loc[k]))
    IN  IF t.panicked THEN t ELSE [t EXCEPT !.loc[k] = HotLocation]

Become(s) ==
    /\ loc' = s.loc
    /\ cold' = s.cold
    /\ hot' = s.hot
    /\ cap' = s.cap
    /\ calls' = s.calls
    /\ panicked' = s.panicked

---------------------------------------------------------------------------
Init ==
    /\ loc = [k \in Keys |-> NoLoc]
    /\ cold = [b \in BucketIdx |-> [c \in CellIdx |-> Free]]
    /\ hot = [k \in Keys |-> <<>>]
    /\ cap = 0
    /\ puts = [k \in Keys |-> 0]
    /\ calls = [k \in Keys |-> <<>>]
    /\ panicked = FALSE

PutBuffer(k, buf) ==
    IF loc[k] = NoLoc THEN PutInCold(Cache, k, buf)
    ELSE LET s == IF IsCold(loc[k]) THEN MoveToHot(Cache, k) ELSE Cache
         IN  IF s.panicked THEN s ELSE PutInHot(s, k, buf)

Put(k, len) ==
    /\ ~panicked
    /\ SumFunction(puts) < MaxPuts
    /\ puts' = [puts EXCEPT ![k] = @ + 1]
    /\ Become(PutBuffer(k, [key |-> k, n |-> puts[k] + 1, len |-> len]))

Flush ==
    /\ ~panicked
    /\ Become([FlushHot(FlushCold(Cache)) EXCEPT !.loc = [k \in Keys |-> NoLoc]])
    /\ UNCHANGED puts

Next == Flush \/ \E k \in Keys, len \in Lens : Put(k, len)

Spec == Init /\ [][Next]_vars

---------------------------------------------------------------------------
\* Properties.

Buffer == [key : Keys, n : 1 .. MaxPuts, len : Lens]

TypeOK ==
    /\ loc \in [Keys -> {NoLoc} \cup 0 .. HotLocation]
    /\ cold \in [BucketIdx -> [CellIdx -> Buffer \cup {Free}]]
    /\ hot \in [Keys -> Seq(Buffer)]
    /\ cap \in Nat
    /\ puts \in [Keys -> 0 .. MaxPuts]
    /\ calls \in [Keys -> Seq(Seq(1 .. MaxPuts))]
    /\ panicked \in BOOLEAN

(* The hot cache's byte count, kept by additions and subtractions spread   *)
(* over four places of putInHot and flushHot, is the size of what it       *)
(* holds; it stays within MaxCapacity and every entry within               *)
(* MaxBufferLength, the promise of Config.                                 *)
HotWithinLimits ==
    /\ cap = SumFunction([k \in Keys |-> EntryBytes(hot[k])])
    /\ cap <= MaxCap
    /\ \A k \in Keys : EntryBytes(hot[k]) <= MaxBufLen

(* The location map and the two caches agree whenever Put and Flush have   *)
(* returned: a cold location leads to a cell that holds a buffer of that   *)
(* key, and a key has a hot location exactly when it has a hot entry.      *)
(* Evictions in the middle of a Put change all three.                      *)
MapAgrees ==
    ~panicked =>
        \A k \in Keys :
            /\ IsCold(loc[k]) => CellAt(Cache, loc[k]) # Free /\ CellAt(Cache, loc[k]).key = k
            /\ loc[k] = HotLocation <=> hot[k] # <<>>

(* One OnFlush call carries consecutive puts of the key, oldest first: no  *)
(* eviction drops a buffer from the middle of an entry or swaps two.       *)
CallsAreRuns ==
    \A k \in Keys : \A i \in DOMAIN calls[k] :
        LET c == calls[k][i] IN c # <<>> /\ \A j \in DOMAIN c : c[j] = c[1] + j - 1

(* The cache implements the keyed store: no buffer is lost on its way      *)
(* between cells, entries and OnFlush, none is handed out before it is     *)
(* put, and Flush leaves nothing behind.                                   *)
Handed(k) == UNION {Range(calls[k][i]) : i \in DOMAIN calls[k]}
Store == INSTANCE BufferStore WITH handed <- [k \in Keys |-> Handed(k)]
ImplementsStore == Store!Spec

(* No buffer is handed out twice, in one call or in two.                   *)
HandedOnce ==
    \A k \in Keys : Cardinality(Handed(k)) = Len(FlattenSeq(calls[k]))

(* What Config.OnFlush is documented to get: "called once per key with the *)
(* whole buffer for that key", so Flush makes at most one call for a key.  *)
OncePerKey ==
    [][Flush => \A k \in Keys : Len(calls'[k]) <= Len(calls[k]) + 1]_vars
=============================================================================
