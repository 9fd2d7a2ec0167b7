---------------------------- MODULE BytesProofs ----------------------------
(***************************************************************************)
(* Proofs about the two parts of Records that cut a stream of bytes: the   *)
(* reader of compressed files, which sends whole lines, and the writer of  *)
(* split files.  As in RecordsProofs, a step of the sum is a step or a     *)
(* stutter of each part.                                                   *)
(*                                                                         *)
(* The end of the module is about finite sets, sums and sequences of       *)
(* sequences: the general facts that CacheProofs rests on.                 *)
(***************************************************************************)
EXTENDS Records, SequenceTheorems, FiniteSetTheorems, WellFoundedInduction, TLAPS

(***************************************************************************)
(* A set of numbers has a least one, and a greatest one if it is bounded.  *)
(***************************************************************************)
LEMMA LeastOne ==
    ASSUME NEW S \in SUBSET Nat, S # {}
    PROVE  \E n \in S : \A i \in S : n <= i
<1>1. PICK n \in S : \A i \in S : <<i, n>> \notin OpToRel(<, Nat)
  BY WFMin, NatLessThanWellFounded
<1>2. \A i \in S : ~(i < n) BY <1>1 DEF OpToRel
<1> QED BY <1>2

LEMMA GreatestOne ==
    ASSUME NEW S \in SUBSET Nat, S # {}, NEW b \in Nat, \A i \in S : i <= b
    PROVE  \E n \in S : \A i \in S : i <= n
<1> DEFINE T == {b - i : i \in S}
<1>1. T \in SUBSET Nat /\ T # {}
  <2>1. \A i \in S : i \in Nat /\ i <= b OBVIOUS
  <2>2. \A i \in S : b - i \in Nat BY <2>1
  <2> QED BY <2>2
<1>2. PICK d \in T : \A e \in T : d <= e BY <1>1, LeastOne
<1>3. PICK n \in S : d = b - n BY <1>2
<1>4. \A i \in S : b - n <= b - i BY <1>2, <1>3
<1> QED BY <1>3, <1>4

(***************************************************************************)
(* The reader of compressed files.  A buffer is well cut when it holds     *)
(* whole lines and is longer than kChunkBuffer only if it is one line.     *)
(***************************************************************************)
LEMMA ReaderSteps == [Next]_vars => [Reader!Next]_chunkvars
BY DEF Next, Only, vars, chunkvars

WellCut(b) ==
    /\ b[1] < b[2] => b[1] \in eol \cup {0} /\ b[2] \in eol
    /\ b[2] - b[1] > ChunkBuffer => \A k \in eol : ~(b[1] < k /\ k < b[2])
Disjoint(s) ==
    \A i, j \in DOMAIN s : i # j => Reader!Bytes(s[i]) \cap Reader!Bytes(s[j]) = {}
Covers(s, B) == \A x : x \in B <=> \E i \in DOMAIN s : x \in Reader!Bytes(s[i])
Chunked(s, B) ==
    /\ s \in Seq(Nat \X Nat) /\ Disjoint(s) /\ Covers(s, B)
    /\ \A i \in DOMAIN s : WellCut(s[i])

LEMMA OneMoreChunk ==
    ASSUME NEW s, NEW B, Chunked(s, B), NEW b \in Nat \X Nat, WellCut(b),
           Reader!Bytes(b) \cap B = {}
    PROVE  Chunked(Append(s, b), B \cup Reader!Bytes(b))
<1>1. /\ s \in Seq(Nat \X Nat) /\ Len(s) \in Nat /\ DOMAIN s = 1 .. Len(s)
      /\ Append(s, b) \in Seq(Nat \X Nat)
      /\ DOMAIN Append(s, b) = 1 .. Len(s) + 1
      /\ \A i \in 1 .. Len(s) : Append(s, b)[i] = s[i]
      /\ Append(s, b)[Len(s) + 1] = b
  BY DEF Chunked
<1>2. 1 .. Len(s) + 1 = (1 .. Len(s)) \cup {Len(s) + 1} BY <1>1
<1>3. \A i \in 1 .. Len(s) : Reader!Bytes(s[i]) \subseteq B
  BY <1>1 DEF Chunked, Covers
<1>4. Disjoint(Append(s, b))
  <2> SUFFICES ASSUME NEW i \in 1 .. Len(s) + 1, NEW j \in 1 .. Len(s) + 1, i # j
               PROVE  Reader!Bytes(Append(s, b)[i]) \cap Reader!Bytes(Append(s, b)[j]) = {}
    BY <1>1 DEF Disjoint
  <2>1. CASE i \in 1 .. Len(s) /\ j \in 1 .. Len(s)
    BY <1>1, <2>1 DEF Chunked, Disjoint
  <2>2. CASE i = Len(s) + 1 /\ j \in 1 .. Len(s)
    <3>1. Append(s, b)[i] = b /\ Append(s, b)[j] = s[j] BY <1>1, <2>2
    <3>2. Reader!Bytes(s[j]) \subseteq B BY <1>3, <2>2
    <3> QED BY <3>1, <3>2
  <2>3. CASE j = Len(s) + 1 /\ i \in 1 .. Len(s)
    <3>1. Append(s, b)[j] = b /\ Append(s, b)[i] = s[i] BY <1>1, <2>3
    <3>2. Reader!Bytes(s[i]) \subseteq B BY <1>3, <2>3
    <3> QED BY <3>1, <3>2
  <2> QED BY <1>2, <2>1, <2>2, <2>3
<1>5. Covers(Append(s, b), B \cup Reader!Bytes(b))
  <2>1. ASSUME NEW x \in B PROVE \E i \in DOMAIN Append(s, b) : x \in Reader!Bytes(Append(s, b)[i])
    <3>1. PICK i \in 1 .. Len(s) : x \in Reader!Bytes(s[i]) BY <1>1 DEF Chunked, Covers
    <3> QED BY <1>1, <1>2, <3>1
  <2>2. ASSUME NEW x \in Reader!Bytes(b)
        PROVE  \E i \in DOMAIN Append(s, b) : x \in Reader!Bytes(Append(s, b)[i])
    BY <1>1, <1>2, <2>2
  <2>3. ASSUME NEW i \in DOMAIN Append(s, b), NEW x \in Reader!Bytes(Append(s, b)[i])
        PROVE  x \in B \cup Reader!Bytes(b)
    <3>1. CASE i = Len(s) + 1 BY <1>1, <2>3, <3>1
    <3>2. CASE i \in 1 .. Len(s)
      <4>1. Append(s, b)[i] = s[i] BY <1>1, <3>2
      <4> QED BY <1>3, <2>3, <3>2, <4>1
    <3> QED BY <1>1, <1>2, <3>1, <3>2
  <2> QED BY <2>1, <2>2, <2>3 DEF Covers
<1>6. \A i \in DOMAIN Append(s, b) : WellCut(Append(s, b)[i])
  <2> SUFFICES ASSUME NEW i \in 1 .. Len(s) + 1 PROVE WellCut(Append(s, b)[i]) BY <1>1
  <2>1. CASE i = Len(s) + 1
    <3>1. Append(s, b)[i] = b BY <1>1, <2>1
    <3> QED BY <3>1
  <2>2. CASE i \in 1 .. Len(s)
    <3>1. Append(s, b)[i] = s[i] /\ WellCut(s[i]) BY <1>1, <2>2 DEF Chunked
    <3> QED BY <3>1
  <2> QED BY <1>2, <2>1, <2>2
<1> QED BY <1>1, <1>4, <1>5, <1>6 DEF Chunked

(* Where the line that is open after n more bytes begins and ends.          *)
LEMMA LineStartIs ==
    ASSUME eol \subseteq 1 .. size, size \in Nat, pos \in 0 .. size, NEW n \in Nat
    PROVE  /\ Reader!LineStart(n) \in pos .. pos + n
           /\ Reader!LineStart(n) \in eol \cup {pos}
           /\ \A k \in eol : k <= Reader!LineStart(n) \/ k > pos + n
<1> DEFINE ends == {i \in eol : pos < i /\ i <= pos + n}
<1>1. CASE ends = {} BY <1>1 DEF Reader!LineStart
<1>2. CASE ends # {}
  <2>0. \A i \in eol : i \in Nat OBVIOUS
  <2>a. ends \in SUBSET Nat BY <2>0
  <2>1. (\A i \in ends : i <= pos + n) /\ pos + n \in Nat OBVIOUS
  <2>2. \E k \in ends : \A i \in ends : i <= k BY <1>2, <2>a, <2>1, GreatestOne
  <2>3. PICK k : k = Reader!LineStart(n) OBVIOUS
  <2>4. k = CHOOSE i \in ends : \A j \in ends : j <= i BY <1>2, <2>3 DEF Reader!LineStart
  <2>5. k \in ends /\ \A j \in ends : j <= k BY <2>2, <2>4
  <2>6. \A j \in eol : j <= k \/ j > pos + n
    <3> SUFFICES ASSUME NEW j \in eol, ~(j > pos + n) PROVE j <= k OBVIOUS
    <3>1. j \in Nat /\ pos \in Nat /\ k \in Nat /\ pos < k BY <2>5
    <3>2. CASE pos < j BY <2>5, <3>1, <3>2
    <3>3. CASE ~(pos < j) BY <3>1, <3>3
    <3> QED BY <3>2, <3>3
  <2> QED BY <2>3, <2>5, <2>6
<1> QED BY <1>1, <1>2

LEMMA LineEndIs ==
    ASSUME eol \subseteq 1 .. size, size \in Nat, pos \in 0 .. size, NEW n \in Nat,
           Reader!LineEnd(n) # 0
    PROVE  /\ Reader!LineEnd(n) \in eol /\ Reader!LineEnd(n) > pos + n
           /\ \A k \in eol : k >= Reader!LineEnd(n) \/ k <= pos + n
<1> DEFINE ends == {i \in eol : i > pos + n}
<1>1. ends # {} BY DEF Reader!LineEnd
<1>0. \A i \in eol : i \in Nat OBVIOUS
<1>2. ends \in SUBSET Nat BY <1>0
<1>3. \E k \in ends : \A i \in ends : k <= i BY <1>1, <1>2, LeastOne
<1>4. PICK k : k = Reader!LineEnd(n) OBVIOUS
<1>5. k = CHOOSE i \in ends : \A j \in ends : i <= j BY <1>1, <1>4 DEF Reader!LineEnd
<1>6. k \in ends /\ \A j \in ends : k <= j BY <1>3, <1>5
<1>7. \A j \in eol : j >= k \/ j <= pos + n BY <1>6
<1> QED BY <1>4, <1>6, <1>7

ReaderInv ==
    /\ size \in Nat /\ eol \subseteq 1 .. size /\ pos \in 0 .. size
    /\ rpc = "read" => pos \in eol \cup {0}
    /\ rpc # "error" => Chunked(chunks, 1 .. pos)
    /\ \E B : Chunked(chunks, B)

(* What one turn of the loop sends continues what was sent.                 *)
LEMMA ReadChunkStep ==
    ASSUME ReaderInv, NEW n \in 1 .. MaxFile, Reader!ReadChunk(n)
    PROVE  ReaderInv'
<1>0. /\ MaxFile \in Nat /\ MaxLine \in Nat \ {0} /\ ChunkBuffer \in Nat /\ ChunkBuffer > MaxLine
      /\ size \in Nat /\ eol \subseteq 1 .. size /\ pos \in 0 .. size /\ n \in Nat /\ n > 0
  BY RecordsAssumption DEF Reader!ChunkReaderAssumption, ReaderInv
<1>1. /\ rpc = "read" /\ pos \in eol \cup {0} /\ Chunked(chunks, 1 .. pos)
      /\ n <= ChunkBuffer - MaxLine /\ pos + n <= size
      /\ UNCHANGED <<size, eol>>
  BY DEF Reader!ReadChunk, Reader!file, ReaderInv
<1>2. ASSUME NEW b \in Nat \X Nat, b[1] = pos, b[2] \in eol, b[2] > pos, WellCut(b),
             chunks' = Append(chunks, b), pos' = b[2], rpc' = rpc
      PROVE  ReaderInv'
  <2>1. Reader!Bytes(b) = pos + 1 .. b[2] BY <1>2 DEF Reader!Bytes
  <2>2. b[2] \in Nat /\ b[2] <= size /\ pos \in Nat BY <1>0, <1>2
  <2>3. Reader!Bytes(b) \cap 1 .. pos = {} BY <2>1, <2>2
  <2>4. 1 .. pos \cup Reader!Bytes(b) = 1 .. b[2] BY <2>1, <2>2, <1>2
  <2>5. Chunked(Append(chunks, b), 1 .. b[2]) BY <1>1, <1>2, <2>3, <2>4, OneMoreChunk
  <2>6. Chunked(chunks, 1 .. pos)'
    BY <1>1, <1>2, <2>5 DEF Chunked, WellCut, Disjoint, Covers, Reader!Bytes
  <2> QED BY <1>0, <1>1, <1>2, <2>2, <2>6 DEF ReaderInv
<1>3. CASE pos + n \in eol /\ chunks' = Append(chunks, <<pos, pos + n>>) /\ pos' = pos + n
           /\ rpc' = rpc
  <2>1. <<pos, pos + n>> \in Nat \X Nat /\ WellCut(<<pos, pos + n>>)
    BY <1>0, <1>1, <1>3 DEF WellCut
  <2>2. PICK b \in Nat \X Nat : b = <<pos, pos + n>> BY <2>1
  <2> QED BY <1>0, <1>2, <1>3, <2>1, <2>2
<1>4. CASE Reader!LineEnd(n) # 0 /\ chunks' = chunks \o Reader!Complete(n, Reader!LineEnd(n))
           /\ pos' = Reader!LineEnd(n) /\ rpc' = rpc
  <2>1. PICK e : e = Reader!LineEnd(n) OBVIOUS
  <2>2. PICK s : s = Reader!LineStart(n) OBVIOUS
  <2>3. e \in eol /\ e > pos + n /\ \A k \in eol : k >= e \/ k <= pos + n
    BY <1>0, <1>4, <2>1, LineEndIs
  <2>4. /\ s \in pos .. pos + n /\ s \in eol \cup {pos}
        /\ \A k \in eol : k <= s \/ k > pos + n
    BY <1>0, <2>2, LineStartIs
  <2>5. /\ e \in Nat /\ s \in Nat /\ pos \in Nat /\ pos + n \in Nat /\ e <= size
        /\ pos <= s /\ s < e /\ \A k \in eol : k \in Nat
    BY <1>0, <2>3, <2>4
  <2>6. chunks \in Seq(Nat \X Nat) BY <1>1 DEF Chunked
  <2>7. CASE e - pos <= ChunkBuffer
    <3>1. Reader!Complete(n, e) = <<<<pos, e>>>>
      BY <1>0, <2>5, <2>7 DEF Reader!Complete
    <3>2. PICK b \in Nat \X Nat : b = <<pos, e>> BY <2>5
    <3>3. chunks' = Append(chunks, b) BY <1>4, <2>1, <2>6, <3>1, <3>2
    <3>4. WellCut(b) BY <1>0, <1>1, <2>3, <2>5, <2>7, <3>2 DEF WellCut
    <3> QED BY <1>2, <1>4, <2>1, <2>3, <2>5, <3>2, <3>3, <3>4
  <2>8. CASE e - pos > ChunkBuffer
    <3>1. Reader!Complete(n, e) = <<<<s, e>>, <<pos, s>>>>
      BY <1>0, <2>2, <2>5, <2>8 DEF Reader!Complete
    <3>2. PICK b \in Nat \X Nat : b = <<s, e>> BY <2>5
    <3>3. PICK c \in Nat \X Nat : c = <<pos, s>> BY <2>5
    <3>a. chunks' = chunks \o <<b, c>> BY <1>4, <2>1, <3>1, <3>2, <3>3
    <3>4. chunks' = Append(Append(chunks, b), c) BY <2>6, <3>a
    <3>5. WellCut(b)
      <4>1. s \in eol \cup {0} /\ e \in eol BY <1>1, <2>3, <2>4
      <4>2. \A k \in eol : ~(s < k /\ k < e) BY <2>3, <2>4, <2>5, <1>0
      <4> QED BY <3>2, <4>1, <4>2 DEF WellCut
    <3>6. WellCut(c)
      <4>1. pos < s => s \in eol /\ pos \in eol \cup {0} BY <1>1, <2>4, <2>5
      <4>2. ~(s - pos > ChunkBuffer) BY <1>0, <1>1, <2>4, <2>5
      <4> QED BY <3>3, <4>1, <4>2 DEF WellCut
    <3>7. Reader!Bytes(b) = s + 1 .. e /\ Reader!Bytes(c) = pos + 1 .. s
      BY <3>2, <3>3 DEF Reader!Bytes
    <3>8. Reader!Bytes(b) \cap 1 .. pos = {} BY <2>5, <3>7
    <3>9. Chunked(Append(chunks, b), 1 .. pos \cup Reader!Bytes(b))
      BY <1>1, <3>5, <3>8, OneMoreChunk
    <3>10. Reader!Bytes(c) \cap (1 .. pos \cup Reader!Bytes(b)) = {} BY <2>5, <3>7
    <3>11. Chunked(Append(Append(chunks, b), c),
                   (1 .. pos \cup Reader!Bytes(b)) \cup Reader!Bytes(c))
      BY <3>6, <3>9, <3>10, OneMoreChunk
    <3>12. (1 .. pos \cup Reader!Bytes(b)) \cup Reader!Bytes(c) = 1 .. e BY <2>5, <3>7
    <3>13. Chunked(chunks, 1 .. pos)'
      BY <1>1, <1>4, <2>1, <3>4, <3>11, <3>12
         DEF Chunked, WellCut, Disjoint, Covers, Reader!Bytes
    <3> QED BY <1>0, <1>1, <1>4, <2>1, <2>3, <2>5, <3>13 DEF ReaderInv
  <2> QED BY <1>0, <2>5, <2>7, <2>8
<1>5. CASE rpc' = "error" /\ pos' = size /\ UNCHANGED chunks
  <2>1. PICK B : B = 1 .. pos OBVIOUS
  <2>2. Chunked(chunks, B)'
    BY <1>1, <1>5, <2>1 DEF Chunked, WellCut, Disjoint, Covers, Reader!Bytes
  <2> QED BY <1>0, <1>1, <1>5, <2>2 DEF ReaderInv
<1> QED BY <1>3, <1>4, <1>5 DEF Reader!ReadChunk

LEMMA ReaderStep ==
    ASSUME ReaderInv, [Reader!Next]_chunkvars
    PROVE  ReaderInv'
<1>1. ASSUME UNCHANGED <<size, eol, pos, chunks>>, rpc' \in {"error", "stopped", rpc},
             rpc = "error" => rpc' = "error"
      PROVE  ReaderInv'
  BY <1>1 DEF ReaderInv, Chunked, WellCut, Disjoint, Covers, Reader!Bytes
<1>2. CASE Reader!ReadEOF
  <2>1. /\ Chunked(chunks, 1 .. pos) /\ chunks' = Append(chunks, <<pos, pos>>)
        /\ rpc' = "eof" /\ UNCHANGED <<size, eol, pos>> /\ pos \in Nat
        /\ size \in Nat /\ eol \subseteq 1 .. size
    BY <1>2 DEF Reader!ReadEOF, Reader!file, ReaderInv
  <2>2. PICK b \in Nat \X Nat : b = <<pos, pos>> BY <2>1
  <2>3. ChunkBuffer \in Nat BY RecordsAssumption DEF Reader!ChunkReaderAssumption
  <2>4. Reader!Bytes(b) = {} /\ WellCut(b) BY <2>1, <2>2, <2>3 DEF Reader!Bytes, WellCut
  <2>5. Chunked(Append(chunks, b), 1 .. pos \cup Reader!Bytes(b))
    BY <2>1, <2>4, OneMoreChunk
  <2>6. Chunked(Append(chunks, b), 1 .. pos) BY <2>4, <2>5
  <2>7. Chunked(chunks, 1 .. pos)'
    BY <2>1, <2>2, <2>6 DEF Chunked, WellCut, Disjoint, Covers, Reader!Bytes
  <2> QED BY <2>1, <2>7 DEF ReaderInv
<1>3. ASSUME NEW n \in 1 .. MaxFile, Reader!ReadChunk(n) PROVE ReaderInv'
  BY <1>3, ReadChunkStep
<1>4. CASE Reader!ReadError
  BY <1>1, <1>4 DEF Reader!ReadError, Reader!file
<1>5. CASE Reader!SeeStopping
  BY <1>1, <1>5 DEF Reader!SeeStopping, Reader!file
<1>6. CASE Reader!Stop BY <1>1, <1>6 DEF Reader!Stop, Reader!file
<1>7. CASE UNCHANGED chunkvars BY <1>1, <1>7 DEF chunkvars
<1>8. CASE Reader!Terminated
  BY <1>1, <1>8 DEF Reader!Terminated, Reader!vars
<1> QED BY <1>2, <1>3, <1>4, <1>5, <1>6, <1>7, <1>8 DEF Reader!Next

LEMMA ReaderInvariant == Spec => []ReaderInv
<1>1. Init => ReaderInv
  <2> SUFFICES ASSUME Init PROVE ReaderInv OBVIOUS
  <2>1. /\ size \in Nat /\ eol \subseteq 1 .. size /\ pos = 0 /\ chunks = <<>>
        /\ rpc = "read"
    BY RecordsAssumption DEF Init, Start, Reader!Init, Reader!ChunkReaderAssumption
  <2>2. 1 .. pos = {} BY <2>1
  <2>3. Chunked(chunks, {}) BY <2>1 DEF Chunked, Disjoint, Covers
  <2> QED BY <2>1, <2>2, <2>3 DEF ReaderInv
<1>2. ReaderInv /\ [Next]_vars => ReaderInv' BY ReaderSteps, ReaderStep
<1> QED BY <1>1, <1>2, PTL DEF Spec

(* Every buffer that the reader of a compressed file sends begins at the    *)
(* start of a line and ends behind a newline, and is longer than the buffer *)
(* it is copied to only if it is one single line, whatever number of bytes  *)
(* each read returns.                                                       *)
THEOREM LinesAreWhole == Spec => []WholeLines
<1>1. ReaderInv => WholeLines
  BY DEF ReaderInv, Chunked, WellCut, WholeLines, Reader!WholeLines, Reader!FitsBuffer
<1> QED BY <1>1, ReaderInvariant, PTL

(* The reader's half of NoByteLost: no byte of a file is sent twice, and up *)
(* to where the reader is nothing has been skipped.                         *)
LEMMA ReaderLosesNothing ==
    ReaderInv => Reader!NoByteTwice /\ Reader!NothingSkipped
<1> SUFFICES ASSUME ReaderInv PROVE Reader!NoByteTwice /\ Reader!NothingSkipped OBVIOUS
<1>1. Reader!NoByteTwice BY DEF ReaderInv, Chunked, Disjoint, Reader!NoByteTwice
<1>2. ASSUME rpc # "error" PROVE Reader!SentBytes = 1 .. pos
  <2>1. Covers(chunks, 1 .. pos) BY <1>2 DEF ReaderInv, Chunked
  <2> QED BY <2>1 DEF Covers, Reader!SentBytes
<1> QED BY <1>1, <1>2 DEF Reader!NothingSkipped

(***************************************************************************)
(* The writer of split files.                                              *)
(***************************************************************************)
LEMMA SplitSteps == [Next]_vars => [Splitter!SplitNext]_splitvars
BY DEF Next, Only, vars, splitvars

LEMMA Multiple ==
    ASSUME NEW k \in Nat, k >= 1, NEW b \in Nat
    PROVE  k * b \in Nat /\ k * b >= b
<1>1. k - 1 \in Nat /\ k * b = (k - 1) * b + b OBVIOUS
<1>2. \A i \in Nat : i * b \in Nat OBVIOUS
<1>3. (k - 1) * b \in Nat BY <1>1, <1>2
<1> QED BY <1>1, <1>3

(* A split point lies in what may stay: a window never reaches beyond it.   *)
LEMMA SplitPointFits ==
    ASSUME NEW f
    PROVE  Splitter!FindSplitPoint(f) \in 0 .. MaxSize
<1>0. BufSize \in Nat /\ MaxSize \in Nat /\ BufSize <= MaxSize /\ BufSize >= 1
  BY RecordsAssumption DEF Splitter!SplitWriterAssumption
<1>1. ASSUME NEW w \in Splitter!Windows PROVE w \in Nat /\ w + BufSize <= MaxSize
  <2>1. PICK k \in 1 .. MaxSize : w = Splitter!Max({0, MaxSize - k * BufSize})
    BY <1>1 DEF Splitter!Windows
  <2>2. PICK p : p = k * BufSize OBVIOUS
  <2>3. p \in Nat /\ p >= BufSize BY <1>0, <2>1, <2>2, Multiple
  <2>4. PICK S : S = {0, MaxSize - p} OBVIOUS
  <2>5. w = CHOOSE x \in S : \A y \in S : x >= y BY <2>1, <2>2, <2>4 DEF Splitter!Max
  <2>6. \E x \in S : \A y \in S : x >= y BY <1>0, <2>3, <2>4
  <2>7. w \in S /\ \A y \in S : w >= y BY <2>5, <2>6
  <2> QED BY <1>0, <2>3, <2>4, <2>7
<1> DEFINE found == {w \in Splitter!Windows : Splitter!LineFeeds(f, w) # {}}
<1>2. CASE found = {} BY <1>0, <1>2 DEF Splitter!FindSplitPoint
<1>3. CASE found # {}
  <2>1. PICK S : S = found OBVIOUS
  <2>2. S \in SUBSET Nat /\ (\A i \in S : i <= MaxSize) BY <1>0, <1>1, <2>1
  <2>3. \E x \in S : \A y \in S : y <= x BY <1>0, <1>3, <2>1, <2>2, GreatestOne
  <2>4. PICK w : w = Splitter!Max(S) OBVIOUS
  <2>5. \A x, y \in S : x >= y <=> y <= x BY <2>2
  <2>6. w \in S BY <2>3, <2>4, <2>5 DEF Splitter!Max
  <2>7. w \in Nat /\ w + BufSize <= MaxSize /\ Splitter!LineFeeds(f, w) # {}
    BY <1>1, <2>1, <2>6
  <2>8. PICK T : T = Splitter!LineFeeds(f, w) OBVIOUS
  <2>9. T \in SUBSET Nat /\ T # {} /\ (\A i \in T : i <= MaxSize)
    <3>1. T \subseteq w + 1 .. w + BufSize BY <2>8 DEF Splitter!LineFeeds
    <3>2. \A i \in w + 1 .. w + BufSize : i \in Nat /\ i <= MaxSize BY <1>0, <2>7
    <3> QED BY <2>7, <2>8, <3>1, <3>2
  <2>10. \E x \in T : \A y \in T : y <= x BY <1>0, <2>9, GreatestOne
  <2>11. PICK x : x = Splitter!Max(T) OBVIOUS
  <2>12. \A a, y \in T : a >= y <=> y <= a BY <2>9
  <2>13. x \in T BY <2>10, <2>11, <2>12 DEF Splitter!Max
  <2>14. Splitter!FindSplitPoint(f) = x
    BY <1>3, <2>1, <2>4, <2>8, <2>11 DEF Splitter!FindSplitPoint
  <2> QED BY <1>0, <2>9, <2>13, <2>14
<1> QED BY <1>2, <1>3

Held(n) == {files[n][i] : i \in DOMAIN files[n]}
Splitting == {"create", "head", "tail", "truncate"}

FilesInv ==
    /\ written \in Nat
    /\ files \in [Splitter!FileNames -> Seq(Nat) \cup {Splitter!Absent}]
    /\ Splitter!NoByteLost

(* What Close knows of the file it works on; the next part may hold more    *)
(* than the excess, which is all that its size stands for.                  *)
SplitInv ==
    /\ FilesInv
    /\ split \in [pc : {"closed", "open", "find"} \cup Splitting, file : Nat, size : Nat, off : Nat]
    /\ split.pc # "closed" => Splitter!Exists(split.file)
    /\ split.pc \in {"find"} \cup Splitting => split.size <= Len(files[split.file])
    /\ split.pc \in Splitting => split.off <= MaxSize /\ MaxSize < split.size
    /\ split.pc \in {"head", "tail", "truncate"} =>
          Splitter!Exists(split.file + 1) /\ Splitter!Exists(Splitter!NextFile)
    /\ split.pc = "head" => split.file = 0
    /\ split.pc \in {"tail", "truncate"} /\ split.file = 0 =>
          \A i \in 1 .. split.off : files[0][i] \in Held(1)
    /\ split.pc = "truncate" =>
          /\ Len(files[Splitter!NextFile]) >= Len(files[split.file]) - split.off
          /\ \A i \in split.off + 1 .. Len(files[split.file]) :
                files[split.file][i] \in Held(Splitter!NextFile)

LEMMA SplitConstants ==
    /\ MaxBytes \in Nat /\ MaxSize \in Nat
    /\ Splitter!FileNames = 0 .. MaxBytes
    /\ Splitter!Absent \notin Seq(Nat)
<1>1. Splitter!Absent = <<-1>> BY DEF Splitter!Absent
<1>2. <<-1>> \notin Seq(Nat)
  <2> SUFFICES ASSUME <<-1>> \in Seq(Nat) PROVE FALSE OBVIOUS
  <2>1. 1 \in DOMAIN <<-1>> /\ <<-1>>[1] = -1 OBVIOUS
  <2>2. \A t \in Seq(Nat) : \A i \in DOMAIN t : t[i] \in Nat OBVIOUS
  <2>3. -1 \in Nat BY <2>1, <2>2
  <2> QED BY <2>3
<1> QED
  BY <1>1, <1>2, RecordsAssumption
     DEF Splitter!SplitWriterAssumption, Splitter!FileNames

(* Nothing is lost by a step after which every file holds what it held.     *)
LEMMA NothingLostByGrowing ==
    ASSUME FilesInv,
           files' \in [Splitter!FileNames -> Seq(Nat) \cup {Splitter!Absent}],
           written' = written,
           \A n \in Splitter!FileNames :
               Splitter!Exists(n) => Splitter!Exists(n)' /\ Held(n) \subseteq Held(n)'
    PROVE  FilesInv'
<1>1. Splitter!NoByteLost'
  <2> SUFFICES ASSUME NEW b \in 1 .. written
               PROVE  \E n \in Splitter!Parts' : b \in Held(n)'
    BY DEF Splitter!NoByteLost, Held
  <2>1. PICK n \in Splitter!Parts : b \in Held(n)
    BY DEF FilesInv, Splitter!NoByteLost, Held
  <2>2. n \in Splitter!FileNames /\ Splitter!Exists(n) BY <2>1 DEF Splitter!Parts
  <2>3. Splitter!Exists(n)' /\ b \in Held(n)' BY <2>1, <2>2
  <2>4. n \in Splitter!Parts' BY <2>2, <2>3 DEF Splitter!Parts, Splitter!FileNames
  <2> QED BY <2>3, <2>4
<1> QED BY <1>1 DEF FilesInv, Splitter!FileNames, Splitter!Absent

LEMMA Piece ==
    ASSUME NEW s \in Seq(Nat), NEW a \in Nat, NEW b \in Nat, a <= b, b <= Len(s)
    PROVE  /\ SubSeq(s, a + 1, b) \in Seq(Nat)
           /\ Len(SubSeq(s, a + 1, b)) = b - a
           /\ \A i \in a + 1 .. b : \E j \in DOMAIN SubSeq(s, a + 1, b) :
                 SubSeq(s, a + 1, b)[j] = s[i]
<1>1. /\ \A i \in a + 1 .. b : s[i] \in Nat
      /\ Len(s) \in Nat
  OBVIOUS
<1>2. SubSeq(s, a + 1, b) \in Seq(Nat) BY <1>1
<1>3. Len(SubSeq(s, a + 1, b)) = b - a BY <1>1
<1>4. ASSUME NEW i \in a + 1 .. b
      PROVE  \E j \in DOMAIN SubSeq(s, a + 1, b) : SubSeq(s, a + 1, b)[j] = s[i]
  <2>1. i - a \in 1 .. b - a OBVIOUS
  <2>2. SubSeq(s, a + 1, b)[i - a] = s[i] BY <1>1, <2>1
  <2>3. PICK u : u = SubSeq(s, a + 1, b) OBVIOUS
  <2>4. u \in Seq(Nat) /\ Len(u) = b - a BY <1>2, <1>3, <2>3
  <2>5. DOMAIN u = 1 .. b - a BY <2>4
  <2> QED BY <2>1, <2>2, <2>3, <2>5
<1> QED BY <1>2, <1>3, <1>4

LEMMA AppendGrows ==
    ASSUME FilesInv, NEW n, Splitter!Exists(n), NEW t \in Seq(Nat),
           files' = [files EXCEPT ![n] = @ \o t]
    PROVE  /\ files' \in [Splitter!FileNames -> Seq(Nat) \cup {Splitter!Absent}]
           /\ \A i \in Splitter!FileNames :
                 Splitter!Exists(i) => Splitter!Exists(i)' /\ Held(i) \subseteq Held(i)'
           /\ Len(files'[n]) = Len(files[n]) + Len(t)
           /\ \A i \in DOMAIN t : t[i] \in Held(n)'
           /\ \A i \in Splitter!FileNames : i # n => files'[i] = files[i]
<1>1. n \in Splitter!FileNames /\ files[n] \in Seq(Nat)
  BY DEF FilesInv, Splitter!Exists
<1>2. PICK s \in Seq(Nat) : s = files[n] BY <1>1
<1>3. /\ s \o t \in Seq(Nat) /\ Len(s \o t) = Len(s) + Len(t)
      /\ \A i \in 1 .. Len(s) : (s \o t)[i] = s[i]
      /\ \A i \in 1 .. Len(t) : (s \o t)[Len(s) + i] = t[i]
      /\ DOMAIN (s \o t) = 1 .. Len(s) + Len(t)
      /\ DOMAIN s = 1 .. Len(s) /\ DOMAIN t = 1 .. Len(t)
      /\ Len(s) \in Nat /\ Len(t) \in Nat
  OBVIOUS
<1>4. /\ files'[n] = s \o t
      /\ \A i \in Splitter!FileNames : i # n => files'[i] = files[i]
      /\ DOMAIN files' = Splitter!FileNames
  BY <1>1, <1>2 DEF FilesInv
<1>5. files' \in [Splitter!FileNames -> Seq(Nat) \cup {Splitter!Absent}]
  BY <1>1, <1>2, <1>3 DEF FilesInv
<1>6. \A i \in DOMAIN t : t[i] \in Held(n)'
  <2> SUFFICES ASSUME NEW i \in 1 .. Len(t) PROVE t[i] \in Held(n)' BY <1>3
  <2>1. Len(s) + i \in DOMAIN files'[n] BY <1>3, <1>4
  <2> QED BY <1>3, <1>4, <2>1 DEF Held
<1>7. ASSUME NEW i \in Splitter!FileNames, Splitter!Exists(i)
      PROVE  Splitter!Exists(i)' /\ Held(i) \subseteq Held(i)'
  <2>1. CASE i # n
    <3>1. files'[i] = files[i] BY <1>4, <2>1
    <3> QED BY <1>7, <3>1 DEF Held, Splitter!Exists, Splitter!FileNames, Splitter!Absent
  <2>2. CASE i = n
    <3>1. files'[i] # Splitter!Absent BY <1>3, <1>4, <2>2, SplitConstants
    <3>2. Splitter!Exists(i)'
      BY <1>7, <3>1 DEF Splitter!Exists, Splitter!FileNames, Splitter!Absent
    <3>3. ASSUME NEW x \in Held(i) PROVE x \in Held(i)'
      <4>1. PICK j \in 1 .. Len(s) : x = s[j] BY <1>2, <1>3, <2>2, <3>3 DEF Held
      <4>2. j \in DOMAIN files'[i] /\ files'[i][j] = x BY <1>3, <1>4, <2>2, <4>1
      <4> QED BY <4>2 DEF Held
    <3> QED BY <3>2, <3>3
  <2> QED BY <2>1, <2>2
<1> QED BY <1>2, <1>3, <1>4, <1>5, <1>6, <1>7

LEMMA OpenStep ==
    ASSUME SplitInv, Splitter!Open
    PROVE  SplitInv'
<1>1. PICK n : n = Splitter!Min({i \in Splitter!FileNames : ~Splitter!HasNext(i)}) OBVIOUS
<1>2. n \in Splitter!FileNames
  <2>1. PICK S : S = {i \in Splitter!FileNames : ~Splitter!HasNext(i)} OBVIOUS
  <2>2. MaxBytes \in S BY <2>1, SplitConstants DEF Splitter!HasNext, Splitter!Exists
  <2>3. S \in SUBSET Nat BY <2>1, SplitConstants
  <2>4. \E x \in S : \A y \in S : x <= y BY <2>2, <2>3, LeastOne
  <2>5. n \in S BY <1>1, <2>1, <2>4 DEF Splitter!Min
  <2> QED BY <2>1, <2>5
<1>3. /\ files' = [files EXCEPT ![n] = IF Splitter!Exists(n) THEN @ ELSE <<>>]
      /\ split' = [Splitter!Closed EXCEPT !.pc = "open", !.file = n]
      /\ UNCHANGED written
  BY <1>1 DEF Splitter!Open
<1>4. /\ files \in [Splitter!FileNames -> Seq(Nat) \cup {Splitter!Absent}]
      /\ files' \in [Splitter!FileNames -> Seq(Nat) \cup {Splitter!Absent}]
      /\ \A i \in Splitter!FileNames : Splitter!Exists(i) => files'[i] = files[i]
      /\ files'[n] # Splitter!Absent
  <2>1. <<>> \in Seq(Nat) OBVIOUS
  <2> QED BY <1>2, <1>3, <2>1, SplitConstants DEF SplitInv, FilesInv, Splitter!Exists
<1>5. \A i \in Splitter!FileNames :
          Splitter!Exists(i) => Splitter!Exists(i)' /\ Held(i) \subseteq Held(i)'
  BY <1>4 DEF Splitter!Exists, Held, Splitter!FileNames, Splitter!Absent
<1>6. FilesInv' BY <1>3, <1>4, <1>5, NothingLostByGrowing DEF SplitInv
<1>7. Splitter!Exists(n)'
  BY <1>2, <1>4 DEF Splitter!Exists, Splitter!FileNames, Splitter!Absent
<1>8. n \in Nat BY <1>2, SplitConstants
<1>9. split' = [pc |-> "open", file |-> n, size |-> 0, off |-> 0]
  BY <1>3 DEF Splitter!Closed
<1> QED BY <1>6, <1>7, <1>8, <1>9
     DEF SplitInv, Splitting, Splitter!Exists, Splitter!FileNames, Splitter!Absent

LEMMA WriteStep ==
    ASSUME SplitInv, Splitter!Write
    PROVE  SplitInv'
<1>1. PICK k \in 1 .. MaxWrite :
          /\ files' = [files EXCEPT ![split.file] = @ \o [i \in 1 .. k |-> written + i]]
          /\ written' = written + k
  BY DEF Splitter!Write
<1>2. split.pc = "open" /\ UNCHANGED split /\ Splitter!Exists(split.file) /\ FilesInv
  BY DEF Splitter!Write, SplitInv
<1>3. PICK t : t = [i \in 1 .. k |-> written + i] OBVIOUS
<1>4. MaxWrite \in Nat /\ written \in Nat /\ k \in Nat
  <2>1. MaxWrite \in Nat BY RecordsAssumption DEF Splitter!SplitWriterAssumption
  <2> QED BY <1>2, <2>1 DEF FilesInv
<1>5. /\ t \in Seq(Nat) /\ DOMAIN t = 1 .. k
      /\ \A b \in written + 1 .. written + k : \E i \in DOMAIN t : t[i] = b
  <2>1. \A i \in 1 .. k : written + i \in Nat BY <1>4
  <2>2. t \in Seq(Nat) /\ DOMAIN t = 1 .. k BY <1>3, <1>4, <2>1
  <2>3. ASSUME NEW b \in written + 1 .. written + k PROVE \E i \in DOMAIN t : t[i] = b
    <3>1. b - written \in 1 .. k /\ written + (b - written) = b BY <1>4
    <3> QED BY <1>3, <2>2, <3>1
  <2> QED BY <2>2, <2>3
<1>6. /\ files' \in [Splitter!FileNames -> Seq(Nat) \cup {Splitter!Absent}]
      /\ \A i \in Splitter!FileNames :
            Splitter!Exists(i) => Splitter!Exists(i)' /\ Held(i) \subseteq Held(i)'
      /\ \A i \in DOMAIN t : t[i] \in Held(split.file)'
  <2>1. PICK n : n = split.file OBVIOUS
  <2>2. /\ files' \in [Splitter!FileNames -> Seq(Nat) \cup {Splitter!Absent}]
        /\ \A i \in Splitter!FileNames :
              Splitter!Exists(i) => Splitter!Exists(i)' /\ Held(i) \subseteq Held(i)'
        /\ \A i \in DOMAIN t : t[i] \in Held(n)'
    BY <1>1, <1>2, <1>3, <1>5, <2>1, AppendGrows
  <2> QED BY <1>2, <2>1, <2>2 DEF Held
<1>7. split.file \in Splitter!FileNames BY <1>2 DEF Splitter!Exists
<1>8. Splitter!NoByteLost'
  <2> SUFFICES ASSUME NEW b \in 1 .. written'
               PROVE  \E n \in Splitter!Parts' : b \in Held(n)'
    BY DEF Splitter!NoByteLost, Held
  <2>1. CASE b \in 1 .. written
    <3>1. PICK n \in Splitter!Parts : b \in Held(n)
      BY <1>2, <2>1 DEF FilesInv, Splitter!NoByteLost, Held
    <3>2. n \in Splitter!FileNames /\ Splitter!Exists(n) BY <3>1 DEF Splitter!Parts
    <3>3. Splitter!Exists(n)' /\ b \in Held(n)' BY <1>6, <3>1, <3>2
    <3>4. n \in Splitter!Parts' BY <3>2, <3>3 DEF Splitter!Parts, Splitter!FileNames
    <3> QED BY <3>3, <3>4
  <2>2. CASE b \in written + 1 .. written + k
    <3>1. b \in Held(split.file)' BY <1>5, <1>6, <2>2
    <3>2. Splitter!Exists(split.file)' BY <1>2, <1>6, <1>7
    <3>3. split.file \in Splitter!Parts'
      BY <1>2, <1>7, <3>2 DEF Splitter!Parts, Splitter!FileNames
    <3> QED BY <3>1, <3>3, <1>2
  <2> QED BY <1>1, <1>4, <2>1, <2>2
<1>9. FilesInv'
  BY <1>1, <1>4, <1>6, <1>8 DEF FilesInv, Splitter!FileNames, Splitter!Absent
<1>10. Splitter!Exists(split.file)' BY <1>2, <1>6, <1>7
<1> QED BY <1>2, <1>9, <1>10
     DEF SplitInv, Splitting, Splitter!Exists, Splitter!FileNames, Splitter!Absent

LEMMA FilesKept ==
    ASSUME UNCHANGED <<files, written>>
    PROVE  /\ FilesInv => FilesInv'
           /\ \A n : Splitter!Exists(n)' <=> Splitter!Exists(n)
           /\ \A n : Held(n)' = Held(n)
<1>1. /\ \A n : Splitter!Exists(n)' <=> Splitter!Exists(n)
      /\ \A n : Held(n)' = Held(n)
  BY DEF Splitter!Exists, Splitter!FileNames, Splitter!Absent, Held
<1>2. FilesInv => FilesInv'
  BY DEF FilesInv, Splitter!NoByteLost, Splitter!Parts, Splitter!Exists, Splitter!FileNames,
         Splitter!Absent
<1> QED BY <1>1, <1>2

LEMMA CloseStep ==
    ASSUME SplitInv, Splitter!Close
    PROVE  SplitInv'
<1>1. /\ split.pc = "open" /\ Splitter!Exists(split.file)
      /\ split' = [split EXCEPT !.pc = "find", !.size = Len(files[split.file])]
      /\ UNCHANGED <<files, written>>
      /\ split \in [pc : {"closed", "open", "find"} \cup Splitting, file : Nat, size : Nat,
                    off : Nat]
  BY DEF Splitter!Close, SplitInv
<1>2. Len(files[split.file]) \in Nat BY <1>1 DEF Splitter!Exists, SplitInv, FilesInv
<1>3. /\ split'.pc = "find" /\ split'.file = split.file
      /\ split'.size = Len(files[split.file])
      /\ split' \in [pc : {"closed", "open", "find"} \cup Splitting, file : Nat, size : Nat,
                     off : Nat]
  BY <1>1, <1>2
<1>4. FilesInv' /\ Splitter!Exists(split.file)'
  BY <1>1, <1>3, FilesKept DEF SplitInv, Splitter!Exists, Splitter!FileNames, Splitter!Absent
<1> QED BY <1>1, <1>2, <1>3, <1>4
     DEF SplitInv, Splitting, Splitter!Exists, Splitter!FileNames, Splitter!Absent

LEMMA ClosedKeeps ==
    ASSUME SplitInv, FilesInv', split' = Splitter!Closed
    PROVE  SplitInv'
<1>1. split' = [pc |-> "closed", file |-> 0, size |-> 0, off |-> 0] BY DEF Splitter!Closed
<1> QED BY <1>1 DEF SplitInv, Splitting

LEMMA CheckSizeStep ==
    ASSUME SplitInv, Splitter!CheckSize
    PROVE  SplitInv'
<1>1. /\ split.pc = "find" /\ Splitter!Exists(split.file)
      /\ UNCHANGED <<files, written>> /\ FilesInv
      /\ split \in [pc : {"closed", "open", "find"} \cup Splitting, file : Nat, size : Nat,
                    off : Nat]
      /\ split.size <= Len(files[split.file])
  BY DEF Splitter!CheckSize, SplitInv
<1>2. FilesInv' BY <1>1, FilesKept
<1>3. CASE split' = Splitter!Closed BY <1>2, <1>3, ClosedKeeps
<1>4. CASE /\ ~(split.size <= MaxSize)
           /\ split' = [split EXCEPT !.pc = "create",
                                     !.off = Splitter!FindSplitPoint(files[split.file])]
  <2>1. PICK x : x = Splitter!FindSplitPoint(files[split.file]) OBVIOUS
  <2>2. x \in Nat /\ x <= MaxSize /\ MaxSize \in Nat
    BY <2>1, SplitPointFits, SplitConstants
  <2>3. /\ split'.pc = "create" /\ split'.file = split.file
        /\ split'.size = split.size /\ split'.off = x
        /\ split' \in [pc : {"closed", "open", "find"} \cup Splitting, file : Nat, size : Nat,
                       off : Nat]
    BY <1>1, <1>4, <2>1, <2>2 DEF Splitting
  <2>4. MaxSize < split.size BY <1>1, <1>4, <2>2
  <2>5. Splitter!Exists(split.file)'
    BY <1>1, <2>3 DEF Splitter!Exists, Splitter!FileNames, Splitter!Absent
  <2> QED BY <1>1, <1>2, <2>2, <2>3, <2>4, <2>5
     DEF SplitInv, Splitting, Splitter!Exists, Splitter!FileNames, Splitter!Absent
<1> QED BY <1>3, <1>4 DEF Splitter!CheckSize

LEMMA CreatePartsStep ==
    ASSUME SplitInv, Splitter!CreateParts
    PROVE  SplitInv'
<1>1. /\ split.pc = "create" /\ Splitter!Exists(split.file) /\ FilesInv
      /\ Splitter!NextFile <= MaxBytes
      /\ files' = [n \in Splitter!FileNames |->
                     IF n \in split.file + 1 .. Splitter!NextFile /\ ~Splitter!Exists(n)
                     THEN <<>> ELSE files[n]]
      /\ split' = [split EXCEPT !.pc = IF split.file = 0 THEN "head" ELSE "tail"]
      /\ written' = written
      /\ split \in [pc : {"closed", "open", "find"} \cup Splitting, file : Nat, size : Nat,
                    off : Nat]
      /\ split.size <= Len(files[split.file]) /\ split.off <= MaxSize /\ MaxSize < split.size
  BY DEF Splitter!CreateParts, SplitInv, Splitting
<1>2. /\ files \in [Splitter!FileNames -> Seq(Nat) \cup {Splitter!Absent}]
      /\ files' \in [Splitter!FileNames -> Seq(Nat) \cup {Splitter!Absent}]
      /\ \A i \in Splitter!FileNames : Splitter!Exists(i) => files'[i] = files[i]
      /\ \A i \in Splitter!FileNames :
            i \in split.file + 1 .. Splitter!NextFile => files'[i] # Splitter!Absent
  <2>1. <<>> \in Seq(Nat) OBVIOUS
  <2>2. <<>> # Splitter!Absent BY <2>1, SplitConstants
  <2> QED BY <1>1, <2>1, <2>2 DEF FilesInv, Splitter!Exists
<1>3. \A i \in Splitter!FileNames :
          Splitter!Exists(i) => Splitter!Exists(i)' /\ Held(i) \subseteq Held(i)'
  BY <1>2 DEF Splitter!Exists, Held, Splitter!FileNames, Splitter!Absent
<1>4. FilesInv' BY <1>1, <1>2, <1>3, NothingLostByGrowing
<1>5. /\ split'.pc = (IF split.file = 0 THEN "head" ELSE "tail") /\ split'.file = split.file
      /\ split'.size = split.size /\ split'.off = split.off
      /\ split' \in [pc : {"closed", "open", "find"} \cup Splitting, file : Nat, size : Nat,
                     off : Nat]
  BY <1>1 DEF Splitting
<1>6. /\ split.file \in Splitter!FileNames /\ files'[split.file] = files[split.file]
      /\ Splitter!Exists(split.file)'
  <2>1. split.file \in Splitter!FileNames BY <1>1 DEF Splitter!Exists
  <2>2. files'[split.file] # Splitter!Absent BY <1>1, <1>2, <2>1 DEF Splitter!Exists
  <2> QED
    BY <1>1, <1>2, <1>5, <2>1, <2>2
       DEF Splitter!Exists, Splitter!FileNames, Splitter!Absent
<1>7. /\ split.file + 1 \in Splitter!FileNames /\ Splitter!NextFile \in Splitter!FileNames
      /\ split.file + 1 \in split.file + 1 .. Splitter!NextFile
      /\ Splitter!NextFile \in split.file + 1 .. Splitter!NextFile
      /\ Splitter!NextFile' = Splitter!NextFile
  BY <1>1, <1>5, SplitConstants DEF Splitter!NextFile
<1>8. Splitter!Exists(split.file + 1)' /\ Splitter!Exists(Splitter!NextFile)'
  BY <1>2, <1>5, <1>7 DEF Splitter!Exists, Splitter!FileNames, Splitter!Absent
<1> QED BY <1>1, <1>4, <1>5, <1>6, <1>8 DEF SplitInv, Splitting

LEMMA CopyHeadStep ==
    ASSUME SplitInv, Splitter!CopyHead
    PROVE  SplitInv'
<1>1. /\ split.pc = "head" /\ split.file = 0 /\ FilesInv
      /\ Splitter!Exists(0) /\ Splitter!Exists(1) /\ Splitter!Exists(Splitter!NextFile)
      /\ files' = [files EXCEPT ![1] = @ \o SubSeq(files[0], 1, split.off)]
      /\ split' = [split EXCEPT !.pc = "tail"]
      /\ written' = written
      /\ split \in [pc : {"closed", "open", "find"} \cup Splitting, file : Nat, size : Nat,
                    off : Nat]
      /\ split.size <= Len(files[0]) /\ split.off <= MaxSize /\ MaxSize < split.size
  BY DEF Splitter!CopyHead, SplitInv, Splitting
<1>2. files[0] \in Seq(Nat) /\ 0 \in Splitter!FileNames /\ 1 \in Splitter!FileNames
  BY <1>1 DEF Splitter!Exists, FilesInv
<1>3. PICK s \in Seq(Nat) : s = files[0] BY <1>2
<1>4. split.off \in Nat /\ split.off <= Len(s) BY <1>1, <1>3, SplitConstants
<1>5. PICK t : t = SubSeq(s, 1, split.off) OBVIOUS
<1>6. /\ t \in Seq(Nat)
      /\ \A i \in 1 .. split.off : \E j \in DOMAIN t : t[j] = s[i]
  <2>1. PICK a \in Nat, b \in Nat : a = 0 /\ b = split.off BY <1>4
  <2>2. a <= b /\ b <= Len(s) BY <1>4, <2>1
  <2>3. /\ SubSeq(s, a + 1, b) \in Seq(Nat)
        /\ \A i \in a + 1 .. b : \E j \in DOMAIN SubSeq(s, a + 1, b) :
              SubSeq(s, a + 1, b)[j] = s[i]
    BY <2>2, Piece, Zenon
  <2>4. a + 1 = 1 BY <2>1
  <2>5. SubSeq(s, a + 1, b) = t BY <1>5, <2>1, <2>4
  <2>6. /\ t \in Seq(Nat)
        /\ \A i \in a + 1 .. b : \E j \in DOMAIN t : t[j] = s[i]
    BY <2>3, <2>5, Zenon
  <2> QED BY <2>1, <2>4, <2>6
<1>7. files' = [files EXCEPT ![1] = @ \o t] BY <1>1, <1>3, <1>5
<1>8. /\ files' \in [Splitter!FileNames -> Seq(Nat) \cup {Splitter!Absent}]
      /\ \A i \in Splitter!FileNames :
            Splitter!Exists(i) => Splitter!Exists(i)' /\ Held(i) \subseteq Held(i)'
      /\ \A i \in DOMAIN t : t[i] \in Held(1)'
      /\ files'[0] = files[0]
  <2>1. PICK n : n = 1 OBVIOUS
  <2>2. files' = [files EXCEPT ![n] = @ \o t] /\ Splitter!Exists(n) BY <1>1, <1>7, <2>1
  <2>3. /\ files' \in [Splitter!FileNames -> Seq(Nat) \cup {Splitter!Absent}]
        /\ \A i \in Splitter!FileNames :
              Splitter!Exists(i) => Splitter!Exists(i)' /\ Held(i) \subseteq Held(i)'
        /\ \A i \in DOMAIN t : t[i] \in Held(n)'
        /\ \A i \in Splitter!FileNames : i # n => files'[i] = files[i]
    BY <1>1, <1>6, <2>2, AppendGrows
  <2> QED BY <1>2, <2>1, <2>3
<1>9. FilesInv' BY <1>1, <1>8, NothingLostByGrowing
<1>10. /\ split'.pc = "tail" /\ split'.file = 0
       /\ split'.size = split.size /\ split'.off = split.off
       /\ split' \in [pc : {"closed", "open", "find"} \cup Splitting, file : Nat, size : Nat,
                      off : Nat]
  BY <1>1 DEF Splitting
<1>11. Splitter!NextFile' = Splitter!NextFile /\ Splitter!NextFile = 2
  BY <1>1, <1>10 DEF Splitter!NextFile
<1>12. 2 \in Splitter!FileNames BY <1>1, <1>11 DEF Splitter!Exists
<1>13. /\ Splitter!Exists(0)' /\ Splitter!Exists(1)' /\ Splitter!Exists(2)'
  BY <1>1, <1>2, <1>8, <1>11, <1>12
<1>14. \A i \in 1 .. split.off : files'[0][i] \in Held(1)' BY <1>3, <1>6, <1>8
<1>15. /\ Splitter!Exists(split.file)' /\ Splitter!Exists(split.file + 1)'
       /\ Splitter!Exists(Splitter!NextFile)'
  BY <1>10, <1>11, <1>13 DEF Splitter!Exists, Splitter!FileNames, Splitter!Absent
<1> QED BY <1>1, <1>8, <1>9, <1>10, <1>14, <1>15 DEF SplitInv, Splitting

LEMMA CopyTailStep ==
    ASSUME SplitInv, Splitter!CopyTail
    PROVE  SplitInv'
<1>1. /\ split.pc = "tail" /\ FilesInv
      /\ Splitter!Exists(split.file) /\ Splitter!Exists(split.file + 1)
      /\ Splitter!Exists(Splitter!NextFile)
      /\ files' = [files EXCEPT ![Splitter!NextFile] =
                     @ \o SubSeq(files[split.file], split.off + 1, Len(files[split.file]))]
      /\ split' = [split EXCEPT !.pc = "truncate"]
      /\ written' = written
      /\ split \in [pc : {"closed", "open", "find"} \cup Splitting, file : Nat, size : Nat,
                    off : Nat]
      /\ split.size <= Len(files[split.file]) /\ split.off <= MaxSize /\ MaxSize < split.size
      /\ split.file = 0 => \A i \in 1 .. split.off : files[0][i] \in Held(1)
  BY DEF Splitter!CopyTail, SplitInv, Splitting
<1>2. /\ files[split.file] \in Seq(Nat) /\ split.file \in Splitter!FileNames
      /\ split.file + 1 \in Splitter!FileNames
  BY <1>1 DEF Splitter!Exists, FilesInv
<1>3. PICK s \in Seq(Nat) : s = files[split.file] BY <1>2
<1>4. split.off \in Nat /\ Len(s) \in Nat /\ split.off <= Len(s)
  BY <1>1, <1>3, SplitConstants
<1>5. PICK t : t = SubSeq(s, split.off + 1, Len(s)) OBVIOUS
<1>6. /\ t \in Seq(Nat) /\ Len(t) = Len(s) - split.off
      /\ \A i \in split.off + 1 .. Len(s) : \E j \in DOMAIN t : t[j] = s[i]
  <2>1. Len(s) <= Len(s) BY <1>4
  <2> QED BY <1>4, <1>5, <2>1, Piece, Zenon
<1>7. PICK n : n = Splitter!NextFile OBVIOUS
<1>8. /\ n \in Splitter!FileNames /\ n # split.file /\ n \in Nat /\ Splitter!Exists(n)
      /\ files[n] \in Seq(Nat)
  BY <1>1, <1>7 DEF Splitter!NextFile, Splitter!Exists, FilesInv
<1>9. files' = [files EXCEPT ![n] = @ \o t] BY <1>1, <1>3, <1>5, <1>7
<1>10. /\ files' \in [Splitter!FileNames -> Seq(Nat) \cup {Splitter!Absent}]
       /\ \A i \in Splitter!FileNames :
             Splitter!Exists(i) => Splitter!Exists(i)' /\ Held(i) \subseteq Held(i)'
       /\ Len(files'[n]) = Len(files[n]) + Len(t)
       /\ \A i \in DOMAIN t : t[i] \in Held(n)'
       /\ files'[split.file] = files[split.file]
  BY <1>1, <1>2, <1>6, <1>8, <1>9, AppendGrows
<1>11. FilesInv' BY <1>1, <1>10, NothingLostByGrowing
<1>12. /\ split'.pc = "truncate" /\ split'.file = split.file
       /\ split'.size = split.size /\ split'.off = split.off
       /\ split' \in [pc : {"closed", "open", "find"} \cup Splitting, file : Nat, size : Nat,
                      off : Nat]
  BY <1>1 DEF Splitting
<1>13. Splitter!NextFile' = n BY <1>7, <1>12 DEF Splitter!NextFile
<1>14. /\ Splitter!Exists(split.file)' /\ Splitter!Exists(split.file + 1)'
       /\ Splitter!Exists(Splitter!NextFile)'
  <2>1. PICK f : f = split.file OBVIOUS
  <2>2. Splitter!Exists(f)' /\ Splitter!Exists(f + 1)' /\ Splitter!Exists(n)'
    BY <1>1, <1>2, <1>8, <1>10, <2>1
  <2> QED
    BY <1>12, <1>13, <2>1, <2>2 DEF Splitter!Exists, Splitter!FileNames, Splitter!Absent
<1>15. split.file = 0 => \A i \in 1 .. split.off : files'[0][i] \in Held(1)'
  <2> SUFFICES ASSUME split.file = 0, NEW i \in 1 .. split.off PROVE files'[0][i] \in Held(1)'
    OBVIOUS
  <2>1. 1 \in Splitter!FileNames /\ Splitter!Exists(1) BY <1>1, <1>2
  <2> QED BY <1>1, <1>10, <2>1
<1>16. /\ Len(files'[n]) >= Len(files'[split.file]) - split.off
       /\ \A i \in split.off + 1 .. Len(files'[split.file]) : files'[split.file][i] \in Held(n)'
  <2>1. Len(files[n]) \in Nat BY <1>8
  <2>2. Len(files'[n]) >= Len(files'[split.file]) - split.off
    BY <1>3, <1>4, <1>6, <1>10, <2>1
  <2>3. ASSUME NEW i \in split.off + 1 .. Len(s) PROVE s[i] \in Held(n)'
    BY <1>6, <1>10, <2>3
  <2> QED BY <1>3, <1>10, <2>2, <2>3
<1>17. \A x : x \in Held(n)' => x \in Held(Splitter!NextFile)' BY <1>13 DEF Held
<1> QED
  BY <1>1, <1>10, <1>11, <1>12, <1>13, <1>14, <1>15, <1>16, <1>17 DEF SplitInv, Splitting

LEMMA ConcludeStep ==
    ASSUME SplitInv, Splitter!Conclude
    PROVE  SplitInv'
<1>1. /\ split.pc = "truncate" /\ FilesInv
      /\ Splitter!Exists(split.file) /\ Splitter!Exists(split.file + 1)
      /\ Splitter!Exists(Splitter!NextFile)
      /\ files' = [files EXCEPT ![split.file] =
                     IF split.file = 0 THEN Splitter!Absent ELSE SubSeq(@, 1, split.off)]
      /\ split' = [split EXCEPT !.pc = "find", !.file = Splitter!NextFile,
                                !.size = @ - split.off]
      /\ written' = written
      /\ split \in [pc : {"closed", "open", "find"} \cup Splitting, file : Nat, size : Nat,
                    off : Nat]
      /\ split.size <= Len(files[split.file]) /\ split.off <= MaxSize /\ MaxSize < split.size
      /\ split.file = 0 => \A i \in 1 .. split.off : files[0][i] \in Held(1)
      /\ Len(files[Splitter!NextFile]) >= Len(files[split.file]) - split.off
      /\ \A i \in split.off + 1 .. Len(files[split.file]) :
            files[split.file][i] \in Held(Splitter!NextFile)
  BY DEF Splitter!Conclude, SplitInv, Splitting
<1>2. PICK f, n : f = split.file /\ n = Splitter!NextFile OBVIOUS
<1>3. /\ f \in Splitter!FileNames /\ n \in Splitter!FileNames /\ f # n
      /\ f \in Nat /\ n \in Nat
      /\ f = 0 => 1 \in Splitter!FileNames /\ Splitter!Exists(1)
      /\ files[f] \in Seq(Nat) /\ files[n] \in Seq(Nat)
  BY <1>1, <1>2 DEF Splitter!Exists, Splitter!NextFile, FilesInv
<1>4. PICK s \in Seq(Nat) : s = files[f] BY <1>3
<1>5. split.off \in Nat /\ Len(s) \in Nat /\ split.off <= Len(s)
  BY <1>1, <1>2, <1>4, SplitConstants
<1>6. PICK t : t = SubSeq(s, 1, split.off) OBVIOUS
<1>7. t \in Seq(Nat) /\ \A i \in 1 .. split.off : \E j \in DOMAIN t : t[j] = s[i]
  <2>1. PICK a \in Nat, b \in Nat : a = 0 /\ b = split.off BY <1>5
  <2>2. a <= b /\ b <= Len(s) BY <1>5, <2>1
  <2>3. /\ SubSeq(s, a + 1, b) \in Seq(Nat)
        /\ \A i \in a + 1 .. b : \E j \in DOMAIN SubSeq(s, a + 1, b) :
              SubSeq(s, a + 1, b)[j] = s[i]
    BY <2>2, Piece, Zenon
  <2>4. a + 1 = 1 BY <2>1
  <2>5. SubSeq(s, a + 1, b) = t BY <1>6, <2>1, <2>4
  <2>6. /\ t \in Seq(Nat)
        /\ \A i \in a + 1 .. b : \E j \in DOMAIN t : t[j] = s[i]
    BY <2>3, <2>5, Zenon
  <2> QED BY <2>1, <2>4, <2>6
<1>8. /\ files' = [files EXCEPT ![f] = IF f = 0 THEN Splitter!Absent ELSE t]
      /\ DOMAIN files = Splitter!FileNames
  BY <1>1, <1>2, <1>4, <1>6 DEF FilesInv
<1>9. /\ files' \in [Splitter!FileNames -> Seq(Nat) \cup {Splitter!Absent}]
      /\ \A i \in Splitter!FileNames : i # f => files'[i] = files[i]
      /\ f # 0 => files'[f] = t
  <2>1. PICK v : v = IF f = 0 THEN Splitter!Absent ELSE t OBVIOUS
  <2>2. v \in Seq(Nat) \cup {Splitter!Absent} BY <1>7, <2>1
  <2>3. files' = [files EXCEPT ![f] = v] BY <1>8, <2>1
  <2>4. files \in [Splitter!FileNames -> Seq(Nat) \cup {Splitter!Absent}]
    BY <1>1 DEF FilesInv
  <2>5. files' \in [Splitter!FileNames -> Seq(Nat) \cup {Splitter!Absent}]
    BY <2>2, <2>3, <2>4, <1>3
  <2>6. /\ \A i \in Splitter!FileNames : i # f => files'[i] = files[i]
        /\ files'[f] = v
    BY <2>3, <2>4, <1>3
  <2> QED BY <2>1, <2>5, <2>6
<1>10. ASSUME NEW i \in Splitter!FileNames, i # f, Splitter!Exists(i)
       PROVE  i \in Splitter!Parts' /\ Held(i)' = Held(i)
  BY <1>9, <1>10
     DEF Splitter!Parts, Splitter!Exists, Held, Splitter!FileNames, Splitter!Absent
<1>11. Splitter!NoByteLost'
  <2> SUFFICES ASSUME NEW b \in 1 .. written
               PROVE  \E i \in Splitter!Parts' : b \in Held(i)'
    BY <1>1 DEF Splitter!NoByteLost, Held
  <2>1. PICK p \in Splitter!Parts : b \in Held(p)
    BY <1>1 DEF FilesInv, Splitter!NoByteLost, Held
  <2>2. p \in Splitter!FileNames /\ Splitter!Exists(p) BY <2>1 DEF Splitter!Parts
  <2>3. CASE p # f BY <1>10, <2>1, <2>2, <2>3
  <2>4. CASE p = f
    <3>1. PICK i \in 1 .. Len(s) : b = s[i] BY <1>4, <2>1, <2>4 DEF Held
    <3>2. CASE i \in split.off + 1 .. Len(s)
      <4>1. b \in Held(n) BY <1>1, <1>2, <1>4, <3>1, <3>2
      <4>2. Splitter!Exists(n) BY <1>1, <1>2
      <4> QED BY <1>3, <1>10, <4>1, <4>2
    <3>3. CASE i \in 1 .. split.off /\ f = 0
      <4>1. b \in Held(1) BY <1>1, <1>2, <1>4, <3>1, <3>3
      <4> QED BY <1>3, <1>10, <3>3, <4>1
    <3>4. CASE i \in 1 .. split.off /\ f # 0
      <4>1. PICK j \in DOMAIN t : t[j] = b BY <1>7, <3>1, <3>4
      <4>2. files'[f] = t BY <1>9, <3>4
      <4>3. b \in Held(f)' BY <4>1, <4>2 DEF Held
      <4>4. t # Splitter!Absent BY <1>7, SplitConstants
      <4>5. f \in Splitter!Parts'
        BY <1>3, <4>2, <4>4
           DEF Splitter!Parts, Splitter!Exists, Splitter!FileNames, Splitter!Absent
      <4> QED BY <4>3, <4>5
    <3> QED BY <1>5, <3>2, <3>3, <3>4
  <2> QED BY <2>3, <2>4
<1>12. FilesInv'
  BY <1>1, <1>9, <1>11 DEF FilesInv, Splitter!FileNames, Splitter!Absent
<1>13. /\ split'.pc = "find" /\ split'.file = n
       /\ split'.size = split.size - split.off /\ split'.size \in Nat
       /\ split' \in [pc : {"closed", "open", "find"} \cup Splitting, file : Nat, size : Nat,
                      off : Nat]
  <2>1. split.size - split.off \in Nat BY <1>1, <1>5, SplitConstants
  <2> QED BY <1>1, <1>2, <1>3, <2>1
<1>14. Splitter!Exists(split.file)' /\ files'[n] = files[n]
  <2>1. files'[n] = files[n] BY <1>3, <1>9
  <2> QED
    BY <1>1, <1>2, <1>3, <1>13, <2>1 DEF Splitter!Exists, Splitter!FileNames, Splitter!Absent
<1>15. split'.size <= Len(files'[n])
  <2>1. PICK l \in Nat : l = Len(files[n]) BY <1>3
  <2>2. l >= Len(s) - split.off BY <1>1, <1>2, <1>4, <2>1
  <2>3. split.size \in Nat /\ split.size <= Len(s) BY <1>1, <1>2, <1>4
  <2>4. split'.size <= l BY <1>5, <1>13, <2>2, <2>3
  <2> QED BY <1>14, <2>1, <2>4
<1> QED BY <1>12, <1>13, <1>14, <1>15 DEF SplitInv, Splitting

(* Whatever was half done when a call failed or the process died, it had    *)
(* only added to files.                                                     *)
LEMMA BreakStep ==
    ASSUME SplitInv, Splitter!Break
    PROVE  SplitInv'
<1>1. FilesInv /\ split' = Splitter!Closed /\ written' = written
  BY DEF Splitter!Break, SplitInv
<1>2. CASE UNCHANGED files BY <1>1, <1>2, FilesKept, ClosedKeeps
<1>3. CASE /\ ~Splitter!Exists(split.file + 1)
           /\ files' = [files EXCEPT ![split.file + 1] = <<>>]
  <2>1. <<>> \in Seq(Nat) OBVIOUS
  <2>2. files' \in [Splitter!FileNames -> Seq(Nat) \cup {Splitter!Absent}]
    BY <1>1, <1>3, <2>1 DEF FilesInv
  <2>3. \A i \in Splitter!FileNames : Splitter!Exists(i) => files'[i] = files[i]
    BY <1>1, <1>3 DEF FilesInv, Splitter!Exists
  <2>4. \A i \in Splitter!FileNames :
            Splitter!Exists(i) => Splitter!Exists(i)' /\ Held(i) \subseteq Held(i)'
    BY <2>3 DEF Splitter!Exists, Held, Splitter!FileNames, Splitter!Absent
  <2> QED BY <1>1, <2>2, <2>4, NothingLostByGrowing, ClosedKeeps
<1>4. ASSUME NEW n, Splitter!Exists(n), NEW s \in Seq(Nat), NEW a \in Nat, NEW b \in Nat,
             a <= b, b <= Len(s), files' = [files EXCEPT ![n] = @ \o SubSeq(s, a + 1, b)]
      PROVE  SplitInv'
  <2>1. SubSeq(s, a + 1, b) \in Seq(Nat) BY <1>4, Piece
  <2>2. /\ files' \in [Splitter!FileNames -> Seq(Nat) \cup {Splitter!Absent}]
        /\ \A i \in Splitter!FileNames :
              Splitter!Exists(i) => Splitter!Exists(i)' /\ Held(i) \subseteq Held(i)'
    BY <1>1, <1>4, <2>1, AppendGrows
  <2> QED BY <1>1, <2>2, NothingLostByGrowing, ClosedKeeps
<1>5. ASSUME NEW k \in 0 .. MaxBytes, split.pc = "head", 0 + k < split.off,
             files' = [files EXCEPT ![1] = @ \o SubSeq(files[split.file], 0 + 1, 0 + k)]
      PROVE  SplitInv'
  <2>1. /\ split.file = 0 /\ Splitter!Exists(0) /\ Splitter!Exists(1)
        /\ split.off \in Nat /\ split.size \in Nat
        /\ split.size <= Len(files[0]) /\ split.off <= MaxSize /\ MaxSize < split.size
    BY <1>5 DEF SplitInv, Splitting
  <2>2. files[0] \in Seq(Nat) BY <1>1, <2>1 DEF Splitter!Exists, FilesInv
  <2>3. PICK s \in Seq(Nat) : s = files[0] BY <2>2
  <2>4. k \in Nat /\ 0 + k \in Nat /\ 0 + k <= Len(s) /\ 0 <= 0 + k
    BY <1>5, <2>1, <2>3, SplitConstants
  <2>5. files' = [files EXCEPT ![1] = @ \o SubSeq(s, 0 + 1, 0 + k)] BY <1>5, <2>1, <2>3
  <2>6. PICK a, b : a = 0 /\ b = 0 + k OBVIOUS
  <2>7. files' = [files EXCEPT ![1] = @ \o SubSeq(s, a + 1, b)] BY <2>5, <2>6
  <2>8. a \in Nat /\ b \in Nat /\ a <= b /\ b <= Len(s) BY <2>4, <2>6
  <2>9. PICK n : n = 1 OBVIOUS
  <2>10. Splitter!Exists(n) /\ files' = [files EXCEPT ![n] = @ \o SubSeq(s, a + 1, b)]
    BY <2>1, <2>7, <2>9
  <2> QED BY <1>4, <2>8, <2>10
<1>6. ASSUME NEW k \in 0 .. MaxBytes, split.pc = "tail",
             split.off + k < Len(files[split.file]),
             files' = [files EXCEPT ![Splitter!NextFile] = @ \o
                           SubSeq(files[split.file], split.off + 1, split.off + k)]
      PROVE  SplitInv'
  <2>1. /\ Splitter!Exists(split.file) /\ Splitter!Exists(Splitter!NextFile)
        /\ split.off \in Nat
    BY <1>6 DEF SplitInv, Splitting
  <2>2. files[split.file] \in Seq(Nat) BY <1>1, <2>1 DEF Splitter!Exists, FilesInv
  <2>3. PICK s \in Seq(Nat) : s = files[split.file] BY <2>2
  <2>4. PICK a, b : a = split.off /\ b = split.off + k OBVIOUS
  <2>5. a \in Nat /\ b \in Nat /\ a <= b /\ b <= Len(s)
    BY <1>6, <2>1, <2>3, <2>4, SplitConstants
  <2>6. files' = [files EXCEPT ![Splitter!NextFile] = @ \o SubSeq(s, a + 1, b)]
    BY <1>6, <2>3, <2>4
  <2> QED BY <1>4, <2>1, <2>5, <2>6
<1> QED BY <1>2, <1>3, <1>5, <1>6 DEF Splitter!Break

LEMMA SplitStep ==
    ASSUME SplitInv, [Splitter!SplitNext]_splitvars
    PROVE  SplitInv'
<1>1. CASE UNCHANGED splitvars
  <2>1. UNCHANGED <<files, written, split>> BY <1>1 DEF splitvars
  <2>2. FilesInv' BY <2>1, FilesKept DEF SplitInv
  <2> QED
    BY <2>1, <2>2 DEF SplitInv, Splitter!Exists, Splitter!FileNames, Splitter!Absent, Held,
                      Splitter!NextFile
<1> QED
  BY <1>1, OpenStep, WriteStep, CloseStep, CheckSizeStep, CreatePartsStep, CopyHeadStep,
     CopyTailStep, ConcludeStep, BreakStep
     DEF Splitter!SplitNext

LEMMA SplitBegins == Init => SplitInv
<1> SUFFICES ASSUME Init PROVE SplitInv OBVIOUS
<1>1. /\ written = 0 /\ split = Splitter!Closed
      /\ files = [n \in Splitter!FileNames |-> Splitter!Absent]
  BY DEF Init, Start, Splitter!SplitInit
<1>2. 1 .. written = {} BY <1>1
<1>3. FilesInv BY <1>1, <1>2 DEF FilesInv, Splitter!NoByteLost
<1>4. split = [pc |-> "closed", file |-> 0, size |-> 0, off |-> 0]
  BY <1>1 DEF Splitter!Closed
<1> QED BY <1>3, <1>4 DEF SplitInv, Splitting

(* A file that is read is sent byte by byte, each once, up to where its     *)
(* reader is; a byte that was written to a file that is split is in one of  *)
(* its parts, whichever call fails and wherever the process dies.           *)
THEOREM EveryByteKept == Spec => []NoByteLost
<1>1. SplitInv /\ [Next]_vars => SplitInv' BY SplitSteps, SplitStep
<1>2. SplitInv => Splitter!NoByteLost BY DEF SplitInv, FilesInv
<1>3. ReaderInv /\ SplitInv => NoByteLost BY <1>2, ReaderLosesNothing DEF NoByteLost
<1> QED BY <1>1, <1>3, SplitBegins, ReaderInvariant, PTL DEF Spec

(***************************************************************************)
(* A stretch of the stream: the bytes behind a up to b.                    *)
(***************************************************************************)
Stretch(a, b) == [i \in 1 .. b - a |-> a + i]

LEMMA StretchIs ==
    ASSUME NEW a \in Nat, NEW b \in Nat, a <= b
    PROVE  /\ Stretch(a, b) \in Seq(Nat) /\ Len(Stretch(a, b)) = b - a
           /\ \A i \in 1 .. b - a : Stretch(a, b)[i] = a + i
           /\ Stretch(a, b) # Splitter!Absent
<1>1. \A i \in 1 .. b - a : a + i \in Nat OBVIOUS
<1>2. Stretch(a, b) \in Seq(Nat) /\ Len(Stretch(a, b)) = b - a BY <1>1 DEF Stretch
<1> QED BY <1>2, SplitConstants DEF Stretch

LEMMA StretchJoined ==
    ASSUME NEW a \in Nat, NEW b \in Nat, NEW c \in Nat, a <= b, b <= c
    PROVE  Stretch(a, b) \o Stretch(b, c) = Stretch(a, c)
<1>1. PICK x \in Nat : x = b - a /\ b = a + x
  <2>1. b - a \in Nat /\ b = a + (b - a) OBVIOUS
  <2> QED BY <2>1
<1>2. PICK y \in Nat : y = c - b /\ c = b + y
  <2>1. c - b \in Nat /\ c = b + (c - b) OBVIOUS
  <2> QED BY <2>1
<1>3. a <= c /\ c - a = x + y BY <1>1, <1>2
<1>4. PICK s \in Seq(Nat) : s = Stretch(a, b) BY StretchIs
<1>5. PICK t \in Seq(Nat) : t = Stretch(b, c) BY StretchIs
<1>6. PICK u \in Seq(Nat) : u = Stretch(a, c) BY <1>3, StretchIs
<1>7. Len(s) = x /\ \A i \in 1 .. x : s[i] = a + i BY <1>1, <1>4, StretchIs
<1>8. Len(t) = y /\ \A i \in 1 .. y : t[i] = b + i BY <1>2, <1>5, StretchIs
<1>9. Len(u) = x + y /\ \A i \in 1 .. x + y : u[i] = a + i BY <1>3, <1>6, StretchIs
<1>10. PICK v \in Seq(Nat) :
           /\ v = s \o t /\ Len(v) = Len(s) + Len(t)
           /\ \A i \in 1 .. Len(s) : v[i] = s[i]
           /\ \A i \in 1 .. Len(t) : v[Len(s) + i] = t[i]
  <2>1. /\ s \o t \in Seq(Nat) /\ Len(s \o t) = Len(s) + Len(t)
        /\ \A i \in 1 .. Len(s) : (s \o t)[i] = s[i]
        /\ \A i \in 1 .. Len(t) : (s \o t)[Len(s) + i] = t[i]
    OBVIOUS
  <2> QED BY <2>1
<1>11. /\ Len(v) = x + y
       /\ \A i \in 1 .. x : v[i] = s[i]
       /\ \A i \in 1 .. y : v[x + i] = t[i]
  BY <1>7, <1>8, <1>10
<1>12. ASSUME NEW i \in 1 .. x + y PROVE v[i] = u[i]
  <2>1. CASE i <= x
    <3>1. i \in 1 .. x BY <2>1
    <3> QED BY <1>7, <1>9, <1>11, <3>1
  <2>2. CASE i > x
    <3>1. PICK j \in 1 .. y : i = x + j
      <4>1. i - x \in 1 .. y /\ i = x + (i - x) BY <2>2
      <4> QED BY <4>1
    <3>2. v[i] = b + j BY <1>8, <1>11, <3>1
    <3>3. u[i] = a + i BY <1>9
    <3> QED BY <1>1, <3>1, <3>2, <3>3
  <2> QED BY <2>1, <2>2
<1>13. DOMAIN v = 1 .. x + y /\ DOMAIN u = 1 .. x + y BY <1>9, <1>11
<1>14. v = u BY <1>12, <1>13
<1> QED BY <1>4, <1>5, <1>6, <1>10, <1>14

CutAt(a, b, o) ==
    /\ SubSeq(Stretch(a, b), 1, o) = Stretch(a, a + o)
    /\ SubSeq(Stretch(a, b), o + 1, b - a) = Stretch(a + o, b)

LEMMA StretchCut ==
    ASSUME NEW a \in Nat, NEW b \in Nat, NEW o \in Nat, a <= b, o <= b - a
    PROVE  CutAt(a, b, o)
<1>1. PICK s \in Seq(Nat) : s = Stretch(a, b) BY StretchIs
<1>2. Len(s) = b - a /\ \A i \in 1 .. b - a : s[i] = a + i BY <1>1, StretchIs
<1>3. PICK x \in Nat : x = a + o OBVIOUS
<1>4. PICK u \in Seq(Nat) : u = Stretch(a, x)
  <2>1. a <= x BY <1>3
  <2> QED BY <2>1, StretchIs
<1>5. Len(u) = o /\ \A i \in 1 .. o : u[i] = a + i
  <2>1. a <= x /\ x - a = o BY <1>3
  <2> QED BY <1>4, <2>1, StretchIs
<1>6. PICK v \in Seq(Nat) : v = Stretch(x, b)
  <2>1. x <= b BY <1>3
  <2> QED BY <2>1, StretchIs
<1>7. Len(v) = b - x /\ \A i \in 1 .. b - x : v[i] = x + i
  <2>1. x <= b BY <1>3
  <2> QED BY <1>6, <2>1, StretchIs
<1>8. SubSeq(s, 1, o) = u
  <2>1. /\ SubSeq(s, 1, o) \in Seq(Nat) /\ Len(SubSeq(s, 1, o)) = o
        /\ \A i \in 1 .. o : SubSeq(s, 1, o)[i] = s[i]
    BY <1>2
  <2>2. \A i \in 1 .. o : s[i] = u[i] BY <1>2, <1>5
  <2> QED BY <1>5, <2>1, <2>2
<1>9. SubSeq(s, o + 1, b - a) = v
  <2>1. /\ SubSeq(s, o + 1, b - a) \in Seq(Nat) /\ Len(SubSeq(s, o + 1, b - a)) = b - x
        /\ \A i \in 1 .. b - x : SubSeq(s, o + 1, b - a)[i] = s[o + i]
    BY <1>2, <1>3
  <2>2. \A i \in 1 .. b - x : s[o + i] = v[i] BY <1>2, <1>3, <1>7
  <2> QED BY <1>7, <2>1, <2>2
<1> QED BY <1>1, <1>3, <1>4, <1>6, <1>8, <1>9 DEF CutAt

(***************************************************************************)
(* The greatest number of a set, as the community modules define it.       *)
(***************************************************************************)
LEMMA MaxIs ==
    ASSUME NEW S \in SUBSET Nat, S # {}, NEW b \in Nat, \A i \in S : i <= b
    PROVE  Splitter!Max(S) \in S /\ \A i \in S : i <= Splitter!Max(S)
<1>1. PICK n \in S : \A i \in S : i <= n BY GreatestOne
<1>2. \A x, y \in S : x >= y <=> y <= x OBVIOUS
<1>3. \E n1 \in S : \A y \in S : n1 >= y BY <1>1, <1>2
<1>4. Splitter!Max(S) \in S /\ \A y \in S : Splitter!Max(S) >= y
  BY <1>3 DEF Splitter!Max
<1> QED BY <1>2, <1>4

(* Every place up to MaxSize is in a window.                               *)
LEMMA WindowsCover ==
    ASSUME NEW i \in 1 .. MaxSize
    PROVE  \E w \in Splitter!Windows : w \in Nat /\ i \in w + 1 .. w + BufSize
<1>1. BufSize \in Nat /\ MaxSize \in Nat /\ BufSize <= MaxSize /\ BufSize >= 1
  BY RecordsAssumption DEF Splitter!SplitWriterAssumption
<1>2. PICK b \in Nat : b = BufSize /\ b >= 1 BY <1>1
<1>3. PICK d \in Nat : d = MaxSize - i BY <1>1
<1>4. PICK q \in Nat, r \in 0 .. b - 1 : d = q * b + r
  <2>1. d \div b \in Nat /\ d % b \in 0 .. b - 1 BY <1>2
  <2>2. d = (d \div b) * b + (d % b) BY <1>2
  <2> QED BY <2>1, <2>2
<1>5. q <= d
  <2>1. CASE q = 0 BY <2>1
  <2>2. CASE q # 0
    <3>1. b * q >= q /\ b * q = q * b BY <1>2, <2>2, Multiple
    <3> QED BY <1>2, <1>4, <3>1
  <2> QED BY <2>1, <2>2
<1>6. q + 1 \in 1 .. MaxSize BY <1>1, <1>3, <1>5
<1>7. PICK p \in Nat : p = (q + 1) * BufSize /\ p = d - r + b
  <2>1. (q + 1) * b = q * b + b BY <1>2
  <2>2. q * b = d - r BY <1>2, <1>4
  <2> QED BY <1>2, <1>3, <1>4, <2>1, <2>2
<1>8. PICK w : w = Splitter!Max({0, MaxSize - (q + 1) * BufSize}) OBVIOUS
<1>9. w \in Splitter!Windows BY <1>6, <1>8 DEF Splitter!Windows
<1>10. w = IF p <= MaxSize THEN MaxSize - p ELSE 0
  <2>1. PICK S : S = {0, MaxSize - p} OBVIOUS
  <2>2. w = CHOOSE x \in S : \A y \in S : x >= y BY <1>7, <1>8, <2>1 DEF Splitter!Max
  <2>3. \E x \in S : \A y \in S : x >= y BY <1>1, <1>7, <2>1
  <2>4. w \in S /\ \A y \in S : w >= y BY <2>2, <2>3
  <2> QED BY <1>1, <1>7, <2>1, <2>4
<1>11. w \in Nat /\ i \in w + 1 .. w + BufSize
  <2>1. CASE p <= MaxSize
    <3>1. w = MaxSize - (d - r + b) BY <1>7, <1>10, <2>1
    <3> QED BY <1>1, <1>2, <1>3, <1>4, <1>7, <2>1, <3>1
  <2>2. CASE ~(p <= MaxSize)
    <3>1. w = 0 BY <1>10, <2>2
    <3> QED BY <1>1, <1>2, <1>3, <1>4, <1>7, <2>2, <3>1
  <2> QED BY <2>1, <2>2
<1> QED BY <1>9, <1>11

(* A file is split behind a line feed, unless there is none to be found.    *)
LEMMA SplitPointIs ==
    ASSUME NEW f, NEW x, x = Splitter!FindSplitPoint(f)
    PROVE  \/ x = 0 /\ \A i \in 1 .. MaxSize : f[i] \notin newlines
           \/ x \in 1 .. MaxSize /\ f[x] \in newlines
<1>0. BufSize \in Nat /\ MaxSize \in Nat /\ BufSize >= 1 /\ x \in 0 .. MaxSize
  BY RecordsAssumption, SplitPointFits DEF Splitter!SplitWriterAssumption
<1> DEFINE found == {w \in Splitter!Windows : Splitter!LineFeeds(f, w) # {}}
<1>1. CASE found = {}
  <2>1. x = 0 BY <1>1 DEF Splitter!FindSplitPoint
  <2>2. ASSUME NEW i \in 1 .. MaxSize, f[i] \in newlines PROVE FALSE
    <3>1. PICK w \in Splitter!Windows : i \in w + 1 .. w + BufSize BY WindowsCover
    <3>2. i \in Splitter!LineFeeds(f, w) BY <2>2, <3>1 DEF Splitter!LineFeeds
    <3> QED BY <1>1, <3>2
  <2> QED BY <2>1, <2>2
<1>2. CASE found # {}
  <2>1. PICK w : w = Splitter!Max(found) OBVIOUS
  <2>2. ASSUME NEW v \in Splitter!Windows PROVE v \in Nat /\ v <= MaxSize
    <3>1. PICK k \in 1 .. MaxSize : v = Splitter!Max({0, MaxSize - k * BufSize})
      BY <2>2 DEF Splitter!Windows
    <3>2. PICK p : p = k * BufSize OBVIOUS
    <3>3. p \in Nat BY <1>0, <3>1, <3>2, Multiple
    <3>4. PICK S : S = {0, MaxSize - p} OBVIOUS
    <3>5. v = CHOOSE y \in S : \A z \in S : y >= z BY <3>1, <3>2, <3>4 DEF Splitter!Max
    <3>6. \E y \in S : \A z \in S : y >= z BY <1>0, <3>3, <3>4
    <3>7. v \in S /\ \A z \in S : v >= z BY <3>5, <3>6
    <3> QED BY <1>0, <3>3, <3>4, <3>7
  <2>3. found \in SUBSET Nat /\ \A v \in found : v <= MaxSize BY <2>2
  <2>4. w \in found BY <1>0, <1>2, <2>1, <2>3, MaxIs
  <2>5. PICK T : T = Splitter!LineFeeds(f, w) OBVIOUS
  <2>6. x = Splitter!Max(T) BY <1>2, <2>1, <2>5 DEF Splitter!FindSplitPoint
  <2>7. w \in Nat /\ T # {} BY <2>2, <2>4, <2>5
  <2>8. T \in SUBSET Nat /\ \A i \in T : i >= 1 /\ i <= w + BufSize
    BY <1>0, <2>5, <2>7 DEF Splitter!LineFeeds
  <2>9. w + BufSize \in Nat BY <1>0, <2>7
  <2>10. x \in T BY <2>6, <2>7, <2>8, <2>9, MaxIs
  <2>11. f[x] \in newlines BY <2>5, <2>10 DEF Splitter!LineFeeds
  <2>12. x >= 1 BY <2>8, <2>10
  <2> QED BY <1>0, <2>11, <2>12
<1> QED BY <1>1, <1>2

(***************************************************************************)
(* As long as nothing has failed, the stream is in file 0, or in the parts *)
(* 1 to l: part n has what lies between c[n - 1] and c[n].  The next parts *)
(* that Close makes count only when the file is cut.                       *)
(***************************************************************************)
Laid(c, l) ==
    /\ c \in [Nat -> Nat] /\ c[0] = 0 /\ c[l] = written
    /\ \A n \in 1 .. l : c[n - 1] < c[n] /\ files[n] = Stretch(c[n - 1], c[n])
    /\ \A n \in 1 .. l - 1 : c[n] \in newlines /\ c[n] - c[n - 1] <= MaxSize
Whole == files[0] = Stretch(0, written) \/ (~Splitter!Exists(0) /\ written = 0)
Divided(l) == ~Splitter!Exists(0) /\ \E c : Laid(c, l)
StreamIn(l) == IF l = 0 THEN Whole ELSE Divided(l)
NoneAbove(l) == \A n \in Splitter!FileNames : n > l => ~Splitter!Exists(n)
Unsplittable(l) ==
    Len(files[l]) <= MaxSize \/ \A i \in 1 .. MaxSize : files[l][i] \notin newlines

Parted ==
    /\ split.pc = "closed" =>
          \E l \in Splitter!FileNames :
             StreamIn(l) /\ NoneAbove(l) /\ (Splitter!Exists(l) => Unsplittable(l))
    /\ split.pc # "closed" => StreamIn(split.file)
    /\ split.pc \in {"open", "find", "create"} => NoneAbove(split.file)
    /\ split.pc \in {"find"} \cup Splitting => split.size = Len(files[split.file])
    /\ split.pc \in Splitting => split.off # 0 /\ files[split.file][split.off] \in newlines
    /\ split.pc \in {"head", "tail", "truncate"} => NoneAbove(Splitter!NextFile)
    /\ split.pc = "head" => files[1] = <<>> /\ files[2] = <<>>
    /\ split.pc = "tail" => files[Splitter!NextFile] = <<>>
    /\ split.pc \in {"tail", "truncate"} /\ split.file = 0 =>
          files[1] = SubSeq(files[0], 1, split.off)
    /\ split.pc = "truncate" =>
          files[Splitter!NextFile] =
             SubSeq(files[split.file], split.off + 1, Len(files[split.file]))
Smooth == broken = 0 /\ fname # "spaced"
PartsInv == SplitInv /\ broken \in Nat /\ (Smooth => Parted)

LEMMA ExistsStill ==
    ASSUME NEW n, files'[n] = files[n]
    PROVE  Splitter!Exists(n)' <=> Splitter!Exists(n)
BY DEF Splitter!Exists, Splitter!FileNames, Splitter!Absent

LEMMA StreamStill ==
    ASSUME NEW l \in Nat, StreamIn(l), UNCHANGED <<written, newlines>>,
           \A n \in 0 .. l : files'[n] = files[n]
    PROVE  StreamIn(l)'
<1>1. files'[0] = files[0] OBVIOUS
<1>2. Splitter!Exists(0)' <=> Splitter!Exists(0) BY <1>1, ExistsStill
<1>3. ASSUME NEW c, Laid(c, l) PROVE Laid(c, l)'
  <2>1. \A n \in 1 .. l : n \in 0 .. l OBVIOUS
  <2> QED BY <1>3, <2>1 DEF Laid
<1> QED BY <1>1, <1>2, <1>3 DEF StreamIn, Whole, Divided

LEMMA NoneStill ==
    ASSUME NEW l \in Nat, NoneAbove(l),
           \A n \in Splitter!FileNames : n > l => files'[n] = files[n]
    PROVE  NoneAbove(l)'
BY ExistsStill DEF NoneAbove, Splitter!FileNames

(* The first file of a stream that is divided is not the last one.         *)
LEMMA PartsExist ==
    ASSUME NEW l \in Splitter!FileNames, l # 0, NEW c, Laid(c, l), NEW n \in 1 .. l
    PROVE  /\ c[n - 1] \in Nat /\ c[n] \in Nat /\ c[n - 1] < c[n]
           /\ files[n] = Stretch(c[n - 1], c[n]) /\ Splitter!Exists(n)
<1>1. l \in Nat /\ n - 1 \in Nat /\ n \in Nat /\ n \in Splitter!FileNames BY SplitConstants
<1>2. c[n - 1] \in Nat /\ c[n] \in Nat /\ c[n - 1] < c[n]
      /\ files[n] = Stretch(c[n - 1], c[n])
  BY <1>1 DEF Laid
<1>3. Stretch(c[n - 1], c[n]) # Splitter!Absent
  <2>1. PICK a \in Nat, b \in Nat : a = c[n - 1] /\ b = c[n] /\ a <= b BY <1>2
  <2>2. Stretch(a, b) # Splitter!Absent BY <2>1, StretchIs
  <2> QED BY <2>1, <2>2
<1> QED BY <1>1, <1>2, <1>3 DEF Splitter!Exists

LEMMA OpenParts ==
    ASSUME PartsInv, Smooth, Splitter!Open
    PROVE  Parted'
<1>1. PICK l \in Splitter!FileNames :
          StreamIn(l) /\ NoneAbove(l) /\ (Splitter!Exists(l) => Unsplittable(l))
  BY DEF PartsInv, Parted, Splitter!Open
<1>2. PICK S : S = {i \in Splitter!FileNames : ~Splitter!Exists(i + 1)}
           /\ S = {i \in Splitter!FileNames : ~Splitter!HasNext(i)}
  BY DEF Smooth, Splitter!HasNext
<1>3. PICK n : n = Splitter!Min(S) OBVIOUS
<1>4. l \in Nat /\ S \in SUBSET Nat BY <1>2, SplitConstants
<1>5. l \in S
  <2>1. ~Splitter!Exists(l + 1)
    <3>1. l + 1 > l BY <1>4
    <3> QED BY <1>1, <3>1 DEF NoneAbove, Splitter!Exists
  <2> QED BY <1>2, <2>1
<1>6. n \in S /\ \A y \in S : n <= y
  <2>1. \E x \in S : \A y \in S : x <= y BY <1>4, <1>5, LeastOne
  <2> QED BY <1>3, <2>1 DEF Splitter!Min
<1>7. n = l
  <2> SUFFICES ASSUME n # l PROVE FALSE OBVIOUS
  <2>1. n \in Nat /\ n < l BY <1>4, <1>5, <1>6
  <2>2. l # 0 /\ n + 1 \in 1 .. l BY <1>4, <2>1
  <2>3. PICK c : Laid(c, l) BY <1>1, <2>2 DEF StreamIn, Divided
  <2>4. Splitter!Exists(n + 1) BY <2>2, <2>3, PartsExist
  <2> QED BY <1>2, <1>6, <2>4
<1>8. /\ files' = [files EXCEPT ![l] = IF Splitter!Exists(l) THEN @ ELSE <<>>]
      /\ split' = [Splitter!Closed EXCEPT !.pc = "open", !.file = l]
      /\ UNCHANGED <<written, newlines>>
  BY <1>2, <1>3, <1>7 DEF Splitter!Open
<1>9. /\ \A i \in Splitter!FileNames : i # l => files'[i] = files[i]
      /\ files'[l] = IF Splitter!Exists(l) THEN files[l] ELSE <<>>
  <2>1. DOMAIN files = Splitter!FileNames BY DEF PartsInv, SplitInv, FilesInv
  <2> QED BY <1>8, <2>1
<1>10. \A i \in 0 .. l : i \in Splitter!FileNames BY <1>4, SplitConstants
<1>11. ASSUME Splitter!Exists(l) PROVE StreamIn(l)'
  <2>1. \A i \in 0 .. l : files'[i] = files[i] BY <1>9, <1>10, <1>11
  <2> QED BY <1>1, <1>4, <1>8, <2>1, StreamStill DEF Splitter!Closed
<1>12. ASSUME ~Splitter!Exists(l) PROVE StreamIn(l)'
  <2>1. l = 0
    <3> SUFFICES ASSUME l # 0 PROVE FALSE OBVIOUS
    <3>1. PICK c : Laid(c, l) BY <1>1 DEF StreamIn, Divided
    <3>2. l \in 1 .. l BY <1>4
    <3> QED BY <1>12, <3>1, <3>2, PartsExist
  <2>2. written = 0
    <3>1. Splitter!Exists(0) \/ files[0] = Splitter!Absent
      BY <1>1, <2>1 DEF Splitter!Exists
    <3>2. files[0] # Stretch(0, written)
      <4>1. PICK a \in Nat, b \in Nat : a = 0 /\ b = written /\ a <= b
        BY DEF PartsInv, SplitInv, FilesInv
      <4>2. Stretch(a, b) # Splitter!Absent BY <4>1, StretchIs
      <4> QED BY <1>12, <2>1, <3>1, <4>1, <4>2
    <3> QED BY <1>1, <2>1, <3>2 DEF StreamIn, Whole
  <2>3. Stretch(0, 0) = <<>> BY DEF Stretch
  <2>4. Whole' BY <1>8, <1>9, <1>12, <2>1, <2>2, <2>3 DEF Whole
  <2> QED BY <2>1, <2>4 DEF StreamIn
<1>13. StreamIn(l)' BY <1>11, <1>12
<1>14. NoneAbove(l)' BY <1>1, <1>4, <1>9, NoneStill
<1>15. split'.pc = "open" /\ split'.file = l BY <1>8 DEF Splitter!Closed
<1> QED BY <1>13, <1>14, <1>15 DEF Parted, Splitting

(* What every step of the writer knows of the open file.                   *)
LEMMA OpenFile ==
    ASSUME PartsInv, split.pc # "closed"
    PROVE  /\ split \in [pc : {"closed", "open", "find"} \cup Splitting, file : Nat, size : Nat,
                         off : Nat]
           /\ written \in Nat /\ files \in [Splitter!FileNames -> Seq(Nat) \cup {Splitter!Absent}]
           /\ split.file \in Splitter!FileNames /\ files[split.file] \in Seq(Nat)
           /\ Splitter!Exists(split.file)
BY DEF PartsInv, SplitInv, FilesInv, Splitter!Exists

(* The last part is a stretch that ends where the stream does.             *)
LEMMA LastPart ==
    ASSUME NEW l \in Splitter!FileNames, StreamIn(l), Splitter!Exists(l), written \in Nat
    PROVE  \E a \in Nat : /\ a <= written /\ files[l] = Stretch(a, written)
                          /\ l = 0 => a = 0
                          /\ l # 0 => \E c : Laid(c, l) /\ c[l - 1] = a
<1>1. CASE l = 0
  <2>1. files[0] = Stretch(0, written) BY <1>1 DEF StreamIn, Whole
  <2> QED BY <1>1, <2>1
<1>2. CASE l # 0
  <2>1. PICK c : Laid(c, l) BY <1>2 DEF StreamIn, Divided
  <2>2. l \in 1 .. l BY <1>2, SplitConstants
  <2>3. c[l - 1] \in Nat /\ c[l - 1] < c[l] /\ files[l] = Stretch(c[l - 1], c[l])
    BY <1>2, <2>1, <2>2, PartsExist
  <2>4. c[l] = written BY <2>1 DEF Laid
  <2>5. PICK a \in Nat : a = c[l - 1] BY <2>3
  <2>6. a <= written BY <2>3, <2>4, <2>5
  <2>7. files[l] = Stretch(a, written) BY <2>3, <2>4, <2>5
  <2> QED BY <1>2, <2>1, <2>5, <2>6, <2>7
<1> QED BY <1>1, <1>2

LEMMA WriteParts ==
    ASSUME PartsInv, Smooth, Splitter!Write
    PROVE  Parted'
<1>1. PICK k \in 1 .. MaxWrite :
          /\ files' = [files EXCEPT ![split.file] = @ \o [i \in 1 .. k |-> written + i]]
          /\ written' = written + k
  BY DEF Splitter!Write
<1>2. split.pc = "open" /\ UNCHANGED <<newlines, split>> BY DEF Splitter!Write
<1>3. PICK l : l = split.file OBVIOUS
<1>4. /\ l \in Splitter!FileNames /\ l \in Nat /\ Splitter!Exists(l) /\ written \in Nat
      /\ files \in [Splitter!FileNames -> Seq(Nat) \cup {Splitter!Absent}]
  BY <1>2, <1>3, OpenFile, SplitConstants
<1>5. StreamIn(l) /\ NoneAbove(l) BY <1>2, <1>3 DEF PartsInv, Parted
<1>6. PICK e \in Nat : e = written + k /\ written < e
  <2>1. MaxWrite \in Nat BY RecordsAssumption DEF Splitter!SplitWriterAssumption
  <2>2. written + k \in Nat /\ written < written + k BY <1>4, <2>1
  <2> QED BY <2>2
<1>7. [i \in 1 .. k |-> written + i] = Stretch(written, e)
  <2>1. e - written = k
    <3>1. MaxWrite \in Nat BY RecordsAssumption DEF Splitter!SplitWriterAssumption
    <3> QED BY <1>4, <1>6, <3>1
  <2> QED BY <2>1 DEF Stretch
<1>8. PICK a \in Nat : /\ a <= written /\ files[l] = Stretch(a, written)
                       /\ l = 0 => a = 0
                       /\ l # 0 => \E c : Laid(c, l) /\ c[l - 1] = a
  BY <1>4, <1>5, LastPart
<1>9. files'[l] = Stretch(a, e)
  <2>1. files'[l] = Stretch(a, written) \o Stretch(written, e) BY <1>1, <1>3, <1>4, <1>7, <1>8
  <2>2. written <= e BY <1>4, <1>6
  <2> QED BY <1>4, <1>8, <2>1, <2>2, StretchJoined
<1>10. \A i \in Splitter!FileNames : i # l => files'[i] = files[i] BY <1>1, <1>3, <1>4
<1>11. written' = e BY <1>1, <1>6
<1>12. ASSUME l = 0 PROVE StreamIn(l)'
  <2>1. Whole' BY <1>8, <1>9, <1>11, <1>12 DEF Whole
  <2> QED BY <1>12, <2>1 DEF StreamIn
<1>13. ASSUME l # 0 PROVE StreamIn(l)'
  <2>1. PICK c : Laid(c, l) /\ c[l - 1] = a BY <1>8, <1>13
  <2>2. PICK d : d = [c EXCEPT ![l] = e] OBVIOUS
  <2>3. /\ d \in [Nat -> Nat] /\ d[l] = e
        /\ \A i \in Nat : i # l => d[i] = c[i]
    BY <1>4, <1>6, <2>1, <2>2 DEF Laid
  <2>4. \A n \in 1 .. l - 1 : n \in Nat /\ n # l /\ n - 1 \in Nat /\ n - 1 # l /\ n \in 1 .. l
    BY <1>4
  <2>5. l - 1 \in Nat /\ l - 1 # l BY <1>4, <1>13
  <2>6. \A n \in 1 .. l - 1 : files'[n] = files[n]
    <3>1. \A n \in 1 .. l - 1 : n \in Splitter!FileNames BY <1>4, SplitConstants
    <3> QED BY <1>10, <2>4, <3>1
  <2>7. \A n \in 1 .. l - 1 : d[n - 1] < d[n] /\ files'[n] = Stretch(d[n - 1], d[n])
    BY <2>1, <2>3, <2>4, <2>6 DEF Laid
  <2>8. d[l - 1] < d[l] /\ files'[l] = Stretch(d[l - 1], d[l])
    <3>1. d[l - 1] = a BY <2>1, <2>3, <2>5
    <3>2. a < e BY <1>4, <1>6, <1>8
    <3> QED BY <1>9, <2>3, <3>1, <3>2
  <2>9. \A n \in 1 .. l : n \in 1 .. l - 1 \/ n = l BY <1>4
  <2>10. \A n \in 1 .. l - 1 : d[n] \in newlines /\ d[n] - d[n - 1] <= MaxSize
    BY <2>1, <2>3, <2>4 DEF Laid
  <2>11. d[0] = 0 BY <1>13, <2>1, <2>3 DEF Laid
  <2>12. Laid(d, l)' BY <1>2, <1>11, <2>3, <2>7, <2>8, <2>9, <2>10, <2>11 DEF Laid
  <2>13. ~Splitter!Exists(0)'
    <3>1. files'[0] = files[0] BY <1>10, <1>13, SplitConstants
    <3> QED BY <1>5, <1>13, <3>1, ExistsStill DEF StreamIn, Divided
  <2> QED BY <1>13, <2>12, <2>13 DEF StreamIn, Divided
<1>14. StreamIn(l)' BY <1>12, <1>13
<1>15. NoneAbove(l)' BY <1>4, <1>5, <1>10, NoneStill
<1> QED BY <1>2, <1>3, <1>14, <1>15 DEF Parted, Splitting

LEMMA CloseParts ==
    ASSUME PartsInv, Smooth, Splitter!Close
    PROVE  Parted'
<1>1. /\ split.pc = "open" /\ UNCHANGED <<newlines, written, files>>
      /\ split' = [split EXCEPT !.pc = "find", !.size = Len(files[split.file])]
  BY DEF Splitter!Close
<1>2. PICK l \in Nat : l = split.file /\ l \in Splitter!FileNames
  BY <1>1, OpenFile, SplitConstants
<1>3. /\ split'.pc = "find" /\ split'.file = l /\ split'.size = Len(files'[l])
  BY <1>1, <1>2, OpenFile
<1>4. StreamIn(l)' /\ NoneAbove(l)'
  BY <1>1, <1>2, StreamStill, NoneStill DEF PartsInv, Parted
<1> QED BY <1>3, <1>4 DEF Parted, Splitting

LEMMA CheckSizeParts ==
    ASSUME PartsInv, Smooth, Splitter!CheckSize
    PROVE  Parted'
<1>1. split.pc = "find" /\ UNCHANGED <<newlines, written, files>> BY DEF Splitter!CheckSize
<1>2. PICK l \in Nat : l = split.file /\ l \in Splitter!FileNames
  BY <1>1, OpenFile, SplitConstants
<1>3. StreamIn(l)' /\ NoneAbove(l)' /\ split.size = Len(files[l])
  BY <1>1, <1>2, StreamStill, NoneStill DEF PartsInv, Parted
<1>4. PICK x : x = Splitter!FindSplitPoint(files[l]) OBVIOUS
<1>5. \/ x = 0 /\ \A i \in 1 .. MaxSize : files[l][i] \notin newlines
      \/ x \in 1 .. MaxSize /\ files[l][x] \in newlines
  BY <1>4, SplitPointIs
<1>6. CASE split.size <= MaxSize \/ x = 0
  <2>1. split' = Splitter!Closed BY <1>2, <1>4, <1>6 DEF Splitter!CheckSize
  <2>2. split'.pc = "closed" BY <2>1 DEF Splitter!Closed
  <2>3. Unsplittable(l)' BY <1>1, <1>3, <1>5, <1>6 DEF Unsplittable
  <2>4. l \in Splitter!FileNames' BY <1>2 DEF Splitter!FileNames
  <2> QED BY <1>3, <2>2, <2>3, <2>4 DEF Parted, Splitting
<1>7. CASE ~(split.size <= MaxSize \/ x = 0)
  <2>1. split' = [split EXCEPT !.pc = "create", !.off = x]
    BY <1>2, <1>4, <1>7 DEF Splitter!CheckSize
  <2>2. split'.pc = "create" /\ split'.file = l /\ split'.size = split.size /\ split'.off = x
    BY <1>1, <1>2, <2>1, OpenFile
  <2>3. x # 0 /\ files[l][x] \in newlines BY <1>5, <1>7
  <2> QED BY <1>1, <1>3, <2>2, <2>3 DEF Parted, Splitting
<1> QED BY <1>6, <1>7

LEMMA CreateParted ==
    ASSUME PartsInv, Smooth, Splitter!CreateParts
    PROVE  Parted'
<1>1. /\ split.pc = "create" /\ UNCHANGED <<newlines, written>>
      /\ Splitter!NextFile <= MaxBytes
      /\ files' = [n \in Splitter!FileNames |->
                     IF n \in split.file + 1 .. Splitter!NextFile /\ ~Splitter!Exists(n)
                     THEN <<>> ELSE files[n]]
      /\ split' = [split EXCEPT !.pc = IF split.file = 0 THEN "head" ELSE "tail"]
  BY DEF Splitter!CreateParts
<1>2. PICK l \in Nat : l = split.file /\ l \in Splitter!FileNames
  BY <1>1, OpenFile, SplitConstants
<1>3. PICK n \in Nat : n = Splitter!NextFile /\ n = (IF l = 0 THEN 2 ELSE l + 1)
  BY <1>2 DEF Splitter!NextFile
<1>4. /\ StreamIn(l) /\ NoneAbove(l) /\ split.size = Len(files[l])
      /\ split.off # 0 /\ files[l][split.off] \in newlines
  BY <1>1, <1>2 DEF PartsInv, Parted, Splitting
<1>5. \A i \in Splitter!FileNames : i <= l \/ i > n => files'[i] = files[i]
  <2>1. \A i \in Splitter!FileNames : i \in Nat BY SplitConstants
  <2> QED BY <1>1, <1>2, <1>3, <2>1
<1>6. \A i \in l + 1 .. n : i \in Splitter!FileNames /\ files'[i] = <<>>
  <2>1. \A i \in l + 1 .. n : i \in Splitter!FileNames /\ i > l
    BY <1>1, <1>2, <1>3, SplitConstants
  <2> QED BY <1>1, <1>2, <1>3, <1>4, <2>1 DEF NoneAbove
<1>7. \A i \in 0 .. l : i \in Splitter!FileNames /\ files'[i] = files[i]
  <2>1. \A i \in 0 .. l : i \in Splitter!FileNames /\ i <= l BY <1>2, SplitConstants
  <2> QED BY <1>5, <2>1
<1>8. StreamIn(l)' BY <1>1, <1>4, <1>7, StreamStill
<1>9. NoneAbove(n)'
  <2>1. NoneAbove(n)
    <3>1. \A i \in Splitter!FileNames : i > n => i > l BY <1>2, <1>3, SplitConstants
    <3> QED BY <1>4, <3>1 DEF NoneAbove
  <2> QED BY <1>5, <2>1, NoneStill
<1>10. /\ split'.pc = (IF l = 0 THEN "head" ELSE "tail") /\ split'.file = l
       /\ split'.size = split.size /\ split'.off = split.off
  BY <1>1, <1>2, OpenFile
<1>11. Splitter!NextFile' = n BY <1>2, <1>3, <1>10 DEF Splitter!NextFile
<1>12. l \in 0 .. l BY <1>2
<1>13. files'[l] = files[l] BY <1>7, <1>12
<1>14. CASE l = 0
  <2>1. 1 \in l + 1 .. n /\ 2 \in l + 1 .. n BY <1>3, <1>14
  <2>2. files'[1] = <<>> /\ files'[2] = <<>> BY <1>6, <2>1
  <2> QED BY <1>1, <1>4, <1>8, <1>9, <1>10, <1>11, <1>13, <1>14, <2>2 DEF Parted, Splitting
<1>15. CASE l # 0
  <2>1. n \in l + 1 .. n BY <1>3, <1>15
  <2>2. files'[n] = <<>> BY <1>6, <2>1
  <2> QED BY <1>1, <1>4, <1>8, <1>9, <1>10, <1>11, <1>13, <1>15, <2>2 DEF Parted, Splitting
<1> QED BY <1>14, <1>15

(* A piece of the open file is copied to an empty one.                     *)
Copying(l, n, t) ==
    /\ split.pc \in {"head", "tail"} /\ l = split.file
    /\ n > l /\ files[n] = <<>> /\ files' = [files EXCEPT ![n] = @ \o t]
    /\ newlines' = newlines /\ written' = written
Copied(l, n, t) ==
    /\ StreamIn(l) => StreamIn(l)'
    /\ \A j \in Splitter!FileNames : j >= n /\ NoneAbove(j) => NoneAbove(j)'
    /\ files'[n] = t
    /\ \A i \in Splitter!FileNames : i # n => files'[i] = files[i]

LEMMA PieceCopied ==
    ASSUME PartsInv, NEW l \in Nat, NEW n \in Splitter!FileNames, NEW t \in Seq(Nat),
           Copying(l, n, t)
    PROVE  Copied(l, n, t)
<1> USE DEF Copying
<1>1. /\ files \in [Splitter!FileNames -> Seq(Nat) \cup {Splitter!Absent}]
      /\ l \in Splitter!FileNames
  BY OpenFile
<1>2. files'[n] = t
  <2>1. <<>> \o t = t OBVIOUS
  <2> QED BY <1>1, <2>1
<1>3. \A i \in Splitter!FileNames : i # n => files'[i] = files[i] BY <1>1
<1>4. ASSUME NEW j \in Splitter!FileNames, j >= n, NoneAbove(j) PROVE NoneAbove(j)'
  <2>1. j \in Nat /\ n \in Nat /\ \A i \in Splitter!FileNames : i \in Nat BY SplitConstants
  <2>2. \A i \in Splitter!FileNames : i > j => i # n BY <1>4, <2>1
  <2> QED BY <1>3, <1>4, <2>1, <2>2, NoneStill
<1>5. \A i \in 0 .. l : i \in Splitter!FileNames /\ i # n BY <1>1, SplitConstants
<1>6. StreamIn(l) => StreamIn(l)' BY <1>3, <1>5, StreamStill
<1> QED BY <1>2, <1>3, <1>4, <1>6 DEF Copied

LEMMA CopyHeadParts ==
    ASSUME PartsInv, Smooth, Splitter!CopyHead
    PROVE  Parted'
<1>1. /\ split.pc = "head" /\ UNCHANGED <<newlines, written>>
      /\ files' = [files EXCEPT ![1] = @ \o SubSeq(files[0], 1, split.off)]
      /\ split' = [split EXCEPT !.pc = "tail"]
  BY DEF Splitter!CopyHead
<1>2. /\ StreamIn(0) /\ NoneAbove(Splitter!NextFile) /\ split.file = 0
      /\ split.size = Len(files[0]) /\ split.off # 0 /\ files[0][split.off] \in newlines
      /\ files[1] = <<>> /\ files[2] = <<>>
      /\ Splitter!Exists(1) /\ Splitter!Exists(Splitter!NextFile)
      /\ split.off <= MaxSize /\ MaxSize < split.size
  BY <1>1 DEF PartsInv, SplitInv, Parted, Splitting
<1>3. Splitter!NextFile = 2 /\ 1 \in Splitter!FileNames /\ 2 \in Splitter!FileNames
      /\ 0 \in Splitter!FileNames
  BY <1>2, SplitConstants DEF Splitter!NextFile, Splitter!Exists
<1>4. PICK s \in Seq(Nat) : s = files[0] BY <1>1, <1>2, OpenFile
<1>5. PICK o \in Nat : o = split.off /\ o <= Len(s)
  <2>1. split.off \in Nat /\ split.size \in Nat BY <1>1, OpenFile
  <2> QED BY <1>2, <1>4, <2>1, SplitConstants
<1>6. PICK t \in Seq(Nat) : t = SubSeq(s, 1, o)
  <2>1. PICK z \in Nat : z = 0 OBVIOUS
  <2>2. SubSeq(s, z + 1, o) \in Seq(Nat) BY <1>5, <2>1, Piece
  <2>3. z + 1 = 1 BY <2>1
  <2> QED BY <2>2, <2>3
<1>7. /\ StreamIn(0)' /\ NoneAbove(2)'
      /\ files'[1] = t /\ files'[0] = s /\ files'[2] = <<>>
  <2>1. PICK l \in Nat : l = 0 /\ l = split.file BY <1>2
  <2>2. PICK n \in Splitter!FileNames : n = 1 /\ n > l BY <1>3, <2>1
  <2>3. files' = [files EXCEPT ![n] = @ \o t] BY <1>1, <1>4, <1>5, <1>6, <2>2
  <2>4. Copied(l, n, t)
    <3>1. Copying(l, n, t) BY <1>1, <1>2, <2>1, <2>2, <2>3 DEF Copying
    <3> QED BY <3>1, PieceCopied
  <2>5. 2 >= n /\ NoneAbove(2) BY <1>2, <1>3, <2>2
  <2>6. StreamIn(0)' BY <1>2, <2>1, <2>4 DEF Copied
  <2>7. NoneAbove(2)' BY <1>3, <2>4, <2>5 DEF Copied
  <2> QED BY <1>2, <1>3, <1>4, <2>2, <2>4, <2>6, <2>7 DEF Copied
<1>8. split'.pc = "tail" /\ split'.file = 0 /\ split'.size = split.size /\ split'.off = o
  BY <1>1, <1>2, <1>5, OpenFile
<1>9. Splitter!NextFile' = 2 BY <1>8 DEF Splitter!NextFile
<1> QED BY <1>1, <1>2, <1>4, <1>5, <1>6, <1>7, <1>8, <1>9 DEF Parted, Splitting

LEMMA CopyTailParts ==
    ASSUME PartsInv, Smooth, Splitter!CopyTail
    PROVE  Parted'
<1>1. /\ split.pc = "tail" /\ UNCHANGED <<newlines, written>>
      /\ files' = [files EXCEPT ![Splitter!NextFile] =
                     @ \o SubSeq(files[split.file], split.off + 1, Len(files[split.file]))]
      /\ split' = [split EXCEPT !.pc = "truncate"]
  BY DEF Splitter!CopyTail
<1>2. PICK l \in Nat : l = split.file /\ l \in Splitter!FileNames
  BY <1>1, OpenFile, SplitConstants
<1>3. PICK n \in Nat : n = Splitter!NextFile /\ n = (IF l = 0 THEN 2 ELSE l + 1)
  BY <1>2 DEF Splitter!NextFile
<1>4. /\ StreamIn(l) /\ NoneAbove(n) /\ split.size = Len(files[l])
      /\ split.off # 0 /\ files[l][split.off] \in newlines
      /\ files[n] = <<>>
      /\ l = 0 => files[1] = SubSeq(files[0], 1, split.off)
      /\ n \in Splitter!FileNames
      /\ split.off <= MaxSize /\ MaxSize < split.size
  BY <1>1, <1>2, <1>3 DEF PartsInv, SplitInv, Parted, Splitting, Splitter!Exists
<1>5. PICK s \in Seq(Nat) : s = files[l] BY <1>1, <1>2, OpenFile
<1>6. PICK o \in Nat : o = split.off /\ o <= Len(s)
  <2>1. split.off \in Nat /\ split.size \in Nat BY <1>1, OpenFile
  <2> QED BY <1>4, <1>5, <2>1, SplitConstants
<1>7. PICK t \in Seq(Nat) : t = SubSeq(s, o + 1, Len(s))
  <2>1. PICK b \in Nat : b = Len(s) OBVIOUS
  <2>2. o <= b /\ b <= Len(s) BY <1>6, <2>1
  <2>3. SubSeq(s, o + 1, b) \in Seq(Nat) BY <2>2, Piece
  <2> QED BY <2>1, <2>3
<1>8. /\ StreamIn(l)' /\ NoneAbove(n)' /\ files'[n] = t
      /\ \A i \in Splitter!FileNames : i # n => files'[i] = files[i]
  <2>1. n > l /\ n >= n BY <1>2, <1>3
  <2>2. files' = [files EXCEPT ![n] = @ \o t] BY <1>1, <1>2, <1>3, <1>5, <1>6, <1>7
  <2>3. Copied(l, n, t)
    <3>1. Copying(l, n, t) BY <1>1, <1>2, <1>4, <2>1, <2>2 DEF Copying
    <3>2. n \in Splitter!FileNames BY <1>4
    <3> QED BY <3>1, <3>2, PieceCopied
  <2> QED BY <1>4, <2>1, <2>3 DEF Copied
<1>9. files'[l] = s
  <2>1. l # n BY <1>3
  <2> QED BY <1>2, <1>5, <1>8, <2>1
<1>10. l = 0 => files'[0] = s /\ files'[1] = SubSeq(s, 1, o)
  <2> SUFFICES ASSUME l = 0 PROVE files'[1] = SubSeq(s, 1, o) BY <1>9
  <2>1. 1 \in Splitter!FileNames /\ n # 1 BY <1>3, <1>4, SplitConstants
  <2> QED BY <1>4, <1>5, <1>6, <1>8, <2>1
<1>11. split'.pc = "truncate" /\ split'.file = l /\ split'.size = split.size /\ split'.off = o
  BY <1>1, <1>2, <1>6, OpenFile
<1>12. Splitter!NextFile' = n BY <1>2, <1>3, <1>11 DEF Splitter!NextFile
<1>13. newlines' = newlines BY <1>1
<1>14. split'.size = Len(files'[split'.file]) BY <1>4, <1>5, <1>9, <1>11
<1>15. split'.off # 0 /\ files'[split'.file][split'.off] \in newlines'
  BY <1>4, <1>5, <1>6, <1>9, <1>11, <1>13
<1>16. split'.file = 0 => files'[1] = SubSeq(files'[0], 1, split'.off) BY <1>10, <1>11
<1>17. files'[n] = SubSeq(files'[split'.file], split'.off + 1, Len(files'[split'.file]))
  BY <1>7, <1>8, <1>9, <1>11
<1> QED BY <1>8, <1>11, <1>12, <1>14, <1>15, <1>16, <1>17 DEF Parted, Splitting

(* The open file is cut, and its excess is the next part.                  *)
LEMMA ConcludeParts ==
    ASSUME PartsInv, Smooth, Splitter!Conclude
    PROVE  Parted'
<1>1. /\ split.pc = "truncate" /\ UNCHANGED <<newlines, written>>
      /\ files' = [files EXCEPT ![split.file] =
                     IF split.file = 0 THEN Splitter!Absent ELSE SubSeq(@, 1, split.off)]
      /\ split' = [split EXCEPT !.pc = "find", !.file = Splitter!NextFile,
                                !.size = @ - split.off]
  BY DEF Splitter!Conclude
<1>2. PICK l \in Nat : l = split.file /\ l \in Splitter!FileNames
  BY <1>1, OpenFile, SplitConstants
<1>3. PICK n \in Nat : n = Splitter!NextFile /\ n = (IF l = 0 THEN 2 ELSE l + 1)
  BY <1>2 DEF Splitter!NextFile
<1>4. /\ StreamIn(l) /\ NoneAbove(n) /\ split.size = Len(files[l])
      /\ split.off # 0 /\ files[l][split.off] \in newlines
      /\ l = 0 => files[1] = SubSeq(files[0], 1, split.off)
      /\ files[n] = SubSeq(files[l], split.off + 1, Len(files[l]))
      /\ n \in Splitter!FileNames
      /\ split.off <= MaxSize /\ MaxSize < split.size
  BY <1>1, <1>2, <1>3 DEF PartsInv, SplitInv, Parted, Splitting, Splitter!Exists
<1>5. PICK e \in Nat : e = written BY <1>1, OpenFile
<1>6. PICK a \in Nat : /\ a <= e /\ files[l] = Stretch(a, e)
                       /\ l = 0 => a = 0
                       /\ l # 0 => \E c : Laid(c, l) /\ c[l - 1] = a
  <2>1. Splitter!Exists(l) BY <1>1, <1>2, OpenFile
  <2> QED BY <1>2, <1>4, <1>5, <2>1, LastPart
<1>7. Len(files[l]) = e - a /\ \A i \in 1 .. e - a : files[l][i] = a + i
  BY <1>6, StretchIs
<1>8. PICK o \in Nat : o = split.off /\ o <= e - a /\ o # 0 /\ o # e - a /\ o <= MaxSize
  <2>1. split.off \in Nat /\ split.size \in Nat BY <1>1, OpenFile
  <2> QED BY <1>4, <1>7, <2>1, SplitConstants
<1>9. PICK x \in Nat : x = a + o /\ a < x /\ x < e BY <1>6, <1>8
<1>10. x \in newlines
  <2>1. o \in 1 .. e - a BY <1>6, <1>8
  <2> QED BY <1>4, <1>7, <1>8, <1>9, <2>1
<1>11. /\ SubSeq(Stretch(a, e), 1, o) = Stretch(a, x)
       /\ SubSeq(Stretch(a, e), o + 1, e - a) = Stretch(x, e)
  <2>1. a <= e /\ o <= e - a BY <1>5, <1>6, <1>8
  <2>2. CutAt(a, e, o) BY <2>1, StretchCut
  <2> QED BY <1>9, <2>2 DEF CutAt
<1>12. files[n] = Stretch(x, e) BY <1>4, <1>6, <1>7, <1>8, <1>11
<1>13. SubSeq(files[l], 1, o) = Stretch(a, x) BY <1>6, <1>11
<1>14. /\ files'[l] = IF l = 0 THEN Splitter!Absent ELSE Stretch(a, x)
       /\ \A i \in Splitter!FileNames : i # l => files'[i] = files[i]
  <2>1. files \in [Splitter!FileNames -> Seq(Nat) \cup {Splitter!Absent}] BY <1>1, OpenFile
  <2> QED BY <1>1, <1>2, <1>8, <1>13, <2>1
<1>15. n # l /\ files'[n] = Stretch(x, e) BY <1>2, <1>3, <1>4, <1>12, <1>14
<1>16. ASSUME l = 0 PROVE StreamIn(n)'
  <2>1. PICK c : c = [i \in Nat |-> IF i = 0 THEN 0 ELSE IF i = 1 THEN x ELSE e] OBVIOUS
  <2>2. c \in [Nat -> Nat] /\ c[0] = 0 /\ c[1] = x /\ c[2] = e BY <2>1
  <2>3. n = 2 /\ a = 0 BY <1>3, <1>6, <1>16
  <2>4. files'[1] = Stretch(0, x)
    <3>1. 1 \in Splitter!FileNames BY <1>4, <2>3, SplitConstants
    <3>2. files'[1] = files[1] BY <1>14, <1>16, <3>1
    <3>3. files[1] = SubSeq(files[l], 1, o) BY <1>4, <1>8, <1>16
    <3>4. Stretch(a, x) = Stretch(0, x) BY <2>3
    <3> QED BY <1>13, <3>2, <3>3, <3>4
  <2>5. \A i \in 1 .. n : i = 1 \/ i = 2 BY <2>3
  <2>6. \A i \in 1 .. n - 1 : i = 1 BY <2>3
  <2>7. 1 - 1 = 0 /\ 2 - 1 = 1 /\ x - 0 <= MaxSize BY <1>8, <1>9, <2>3
  <2>8. \A i \in 1 .. n : c[i - 1] < c[i] /\ files'[i] = Stretch(c[i - 1], c[i])
    BY <1>9, <1>15, <2>2, <2>3, <2>4, <2>5, <2>7
  <2>9. \A i \in 1 .. n - 1 : c[i] \in newlines /\ c[i] - c[i - 1] <= MaxSize
    BY <1>10, <2>2, <2>6, <2>7
  <2>10. Laid(c, n)' BY <1>1, <1>5, <2>2, <2>3, <2>8, <2>9 DEF Laid
  <2>11. ~Splitter!Exists(0)'
    BY <1>14, <1>16 DEF Splitter!Exists, Splitter!FileNames, Splitter!Absent
  <2> QED BY <2>3, <2>10, <2>11 DEF StreamIn, Divided
<1>17. ASSUME l # 0 PROVE StreamIn(n)'
  <2>1. PICK c : Laid(c, l) /\ c[l - 1] = a BY <1>6, <1>17
  <2>2. PICK d : d = [i \in Nat |-> IF i = l THEN x ELSE IF i = n THEN e ELSE c[i]] OBVIOUS
  <2>3. n = l + 1 /\ l - 1 \in Nat /\ l - 1 # l /\ l - 1 # n /\ n - 1 = l /\ 0 # n
    BY <1>3, <1>17
  <2>4. /\ d \in [Nat -> Nat] /\ d[l] = x /\ d[n] = e
        /\ \A i \in Nat : i # l /\ i # n => d[i] = c[i]
    BY <1>15, <2>1, <2>2 DEF Laid
  <2>5. \A i \in 1 .. l - 1 :
            /\ i \in Nat /\ i # l /\ i # n /\ i - 1 \in Nat /\ i - 1 # l /\ i - 1 # n
            /\ i \in 1 .. l /\ i \in Splitter!FileNames
    BY <1>2, <2>3, SplitConstants
  <2>6. \A i \in 1 .. l - 1 : d[i - 1] < d[i] /\ files'[i] = Stretch(d[i - 1], d[i])
    BY <1>14, <2>1, <2>4, <2>5 DEF Laid
  <2>7. d[l - 1] = a BY <2>1, <2>3, <2>4
  <2>8. d[l - 1] < d[l] /\ files'[l] = Stretch(d[l - 1], d[l])
    BY <1>9, <1>14, <1>17, <2>4, <2>7
  <2>9. d[n - 1] < d[n] /\ files'[n] = Stretch(d[n - 1], d[n])
    BY <1>9, <1>15, <2>3, <2>4
  <2>10. /\ \A i \in 1 .. n : i \in 1 .. l - 1 \/ i = l \/ i = n
         /\ \A i \in 1 .. n - 1 : i \in 1 .. l - 1 \/ i = l
    BY <2>3
  <2>11. \A i \in 1 .. l - 1 : d[i] \in newlines /\ d[i] - d[i - 1] <= MaxSize
    BY <2>1, <2>4, <2>5 DEF Laid
  <2>12. d[l] \in newlines /\ d[l] - d[l - 1] <= MaxSize
    BY <1>8, <1>9, <1>10, <2>4, <2>7
  <2>13. d[0] = 0 BY <1>17, <2>1, <2>3, <2>4 DEF Laid
  <2>14. \A i \in 1 .. n : d[i - 1] < d[i] /\ files'[i] = Stretch(d[i - 1], d[i])
    BY <2>6, <2>8, <2>9, <2>10
  <2>15. \A i \in 1 .. n - 1 : d[i] \in newlines /\ d[i] - d[i - 1] <= MaxSize
    BY <2>10, <2>11, <2>12
  <2>16. Laid(d, n)' BY <1>1, <1>5, <2>4, <2>13, <2>14, <2>15 DEF Laid
  <2>17. ~Splitter!Exists(0)'
    <3>1. files'[0] = files[0] BY <1>14, <1>17, SplitConstants
    <3> QED BY <1>4, <1>17, <3>1, ExistsStill DEF StreamIn, Divided
  <2> QED BY <2>3, <2>16, <2>17 DEF StreamIn, Divided
<1>18. NoneAbove(n)'
  <2>1. \A i \in Splitter!FileNames : i > n => i # l BY <1>2, <1>3
  <2> QED BY <1>4, <1>14, <2>1, NoneStill
<1>19. split'.pc = "find" /\ split'.file = n /\ split'.size = Len(files'[n])
  <2>1. split'.pc = "find" /\ split'.file = n /\ split'.size = split.size - o
    BY <1>1, <1>3, <1>8, OpenFile
  <2>2. x <= e BY <1>5, <1>9
  <2>3. Len(Stretch(x, e)) = e - x BY <2>2, StretchIs
  <2>4. e - a - o = e - x BY <1>5, <1>6, <1>8, <1>9
  <2> QED BY <1>4, <1>7, <1>8, <1>15, <2>1, <2>3, <2>4
<1>20. StreamIn(n)' BY <1>16, <1>17
<1> QED BY <1>18, <1>19, <1>20 DEF Parted, Splitting

LEMMA PartsStep ==
    ASSUME PartsInv, [Splitter!SplitNext]_splitvars
    PROVE  PartsInv'
<1>1. SplitInv' BY SplitStep DEF PartsInv
<1>2. CASE UNCHANGED splitvars
  <2>1. UNCHANGED <<fname, newlines, written, files, split, broken>> BY <1>2 DEF splitvars
  <2>2. ASSUME Parted PROVE Parted'
    <3>1. \A n : Splitter!Exists(n)' <=> Splitter!Exists(n) BY <2>1, FilesKept
    <3>2. \A l : StreamIn(l) => StreamIn(l)'
      BY <2>1, <3>1 DEF StreamIn, Whole, Divided, Laid
    <3>3. \A l : NoneAbove(l) => NoneAbove(l)'
      BY <2>1, <3>1 DEF NoneAbove, Splitter!FileNames
    <3>4. Splitter!NextFile' = Splitter!NextFile BY <2>1 DEF Splitter!NextFile
    <3>5. split'.pc = "closed" =>
             \E l \in Splitter!FileNames :
                StreamIn(l)' /\ NoneAbove(l)' /\ (Splitter!Exists(l)' => Unsplittable(l)')
      BY <2>1, <2>2, <3>1, <3>2, <3>3 DEF Parted, Unsplittable
    <3> QED BY <2>1, <2>2, <3>2, <3>3, <3>4, <3>5
         DEF Parted, Splitting, Splitter!FileNames
  <2> QED BY <1>1, <2>1, <2>2 DEF PartsInv, Smooth
<1>3. CASE Splitter!Break
  <2>1. broken \in Nat /\ broken' = broken + 1 BY <1>3 DEF PartsInv, Splitter!Break
  <2> QED BY <1>1, <2>1 DEF PartsInv, Smooth
<1>4. ASSUME UNCHANGED <<fname, broken>>, Smooth => Parted' PROVE PartsInv'
  BY <1>1, <1>4 DEF PartsInv, Smooth
<1> QED
  BY <1>2, <1>3, <1>4, OpenParts, WriteParts, CloseParts, CheckSizeParts, CreateParted,
     CopyHeadParts, CopyTailParts, ConcludeParts
     DEF Splitter!SplitNext, Splitter!Open, Splitter!Write, Splitter!Close,
         Splitter!CheckSize, Splitter!CreateParts, Splitter!CopyHead, Splitter!CopyTail,
         Splitter!Conclude

(***************************************************************************)
(* The files one after the other, when each is the stretch of the stream   *)
(* between two numbers of e.                                               *)
(***************************************************************************)
TextOf(n) == IF Splitter!Exists(n) THEN files[n] ELSE <<>>

LEMMA ConcatIs ==
    ASSUME NEW e \in [-1 .. MaxBytes -> Nat], e[-1] = 0,
           \A n \in 0 .. MaxBytes : e[n - 1] <= e[n] /\ TextOf(n) = Stretch(e[n - 1], e[n])
    PROVE  Splitter!Concat[MaxBytes] = Stretch(0, e[MaxBytes])
<1>0. PICK b \in Nat : b = MaxBytes BY SplitConstants
<1>1. \A n \in 0 .. b : n \in -1 .. b /\ n - 1 \in -1 .. b /\ n # -1 OBVIOUS
<1>2. -1 \in -1 .. b /\ \A n \in -1 .. b : n = -1 \/ n \in 0 .. b OBVIOUS
<1>3. Stretch(0, 0) = <<>> BY DEF Stretch
<1>4. \A n \in 0 .. b : Stretch(0, e[n - 1]) \o TextOf(n) = Stretch(0, e[n])
  <2> SUFFICES ASSUME NEW n \in 0 .. b
               PROVE  Stretch(0, e[n - 1]) \o TextOf(n) = Stretch(0, e[n])
    OBVIOUS
  <2>1. PICK x \in Nat : x = e[n - 1] BY <1>0, <1>1
  <2>2. PICK y \in Nat : y = e[n] BY <1>0, <1>1
  <2>3. x <= y /\ TextOf(n) = Stretch(x, y) BY <1>0, <2>1, <2>2
  <2>4. PICK z \in Nat : z = 0 OBVIOUS
  <2>5. z <= x /\ x <= y BY <2>3, <2>4
  <2>6. Stretch(z, x) \o Stretch(x, y) = Stretch(z, y) BY <2>5, StretchJoined
  <2> QED BY <2>1, <2>2, <2>3, <2>4, <2>6
<1>5. PICK g : g = [n \in -1 .. b |-> Stretch(0, e[n])] OBVIOUS
<1>6. g = [n \in -1 .. b |-> IF n = -1 THEN <<>> ELSE g[n - 1] \o TextOf(n)]
  <2>1. \A n \in -1 .. b : g[n] = IF n = -1 THEN <<>> ELSE g[n - 1] \o TextOf(n)
    BY <1>0, <1>1, <1>2, <1>3, <1>4, <1>5
  <2> QED BY <1>5, <2>1
<1>7. PICK h : h = Splitter!Concat OBVIOUS
<1>8. h = [n \in -1 .. b |-> IF n = -1 THEN <<>> ELSE h[n - 1] \o TextOf(n)]
  BY <1>0, <1>6, <1>7 DEF Splitter!Concat, TextOf
<1> DEFINE Bad == {n \in 0 .. b : h[n] # Stretch(0, e[n])}
<1>9. h[-1] = Stretch(0, e[-1]) BY <1>2, <1>3, <1>8
<1>10. Bad = {}
  <2> SUFFICES ASSUME Bad # {} PROVE FALSE OBVIOUS
  <2>1. Bad \in SUBSET Nat OBVIOUS
  <2>2. PICK n \in Bad : \A i \in Bad : n <= i BY <2>1, LeastOne
  <2>3. n \in 0 .. b /\ n - 1 \notin Bad BY <2>2
  <2>4. h[n - 1] = Stretch(0, e[n - 1])
    <3>1. CASE n = 0
      <4>1. n - 1 = -1 BY <3>1
      <4> QED BY <1>9, <4>1
    <3>2. CASE n # 0
      <4>1. n - 1 \in 0 .. b BY <2>3, <3>2
      <4> QED BY <2>3, <4>1
    <3> QED BY <3>1, <3>2
  <2>5. h[n] = h[n - 1] \o TextOf(n) BY <1>1, <1>8, <2>3
  <2>6. h[n] = Stretch(0, e[n]) BY <1>4, <2>3, <2>4, <2>5
  <2> QED BY <2>2, <2>6
<1> QED
  <2>1. b \in 0 .. b OBVIOUS
  <2> QED BY <1>0, <1>7, <1>10, <2>1

LEMMA PartsKept == PartsInv => Splitter!PartsAreTheStream
<1> SUFFICES ASSUME PartsInv, Smooth, split.pc = "closed"
             PROVE  /\ Splitter!Concat[MaxBytes] = [i \in 1 .. written |-> i]
                    /\ \A n \in Splitter!Parts :
                          /\ Splitter!Exists(n + 1) => files[n][Len(files[n])] \in newlines
                          /\ \/ Len(files[n]) <= MaxSize
                             \/ \A i \in 1 .. MaxSize : files[n][i] \notin newlines
  BY DEF Splitter!PartsAreTheStream, Smooth
<1>1. PICK l \in Splitter!FileNames :
          StreamIn(l) /\ NoneAbove(l) /\ (Splitter!Exists(l) => Unsplittable(l))
  BY DEF PartsInv, Parted
<1>2. MaxBytes \in Nat /\ l \in 0 .. MaxBytes /\ Splitter!FileNames = 0 .. MaxBytes
      /\ written \in Nat
  BY SplitConstants DEF PartsInv, SplitInv, FilesInv
<1>3. [i \in 1 .. written |-> i] = Stretch(0, written)
  <2>1. written - 0 = written /\ \A i \in 1 .. written : 0 + i = i BY <1>2
  <2> QED BY <2>1 DEF Stretch
<1>4. \A a \in Nat : Stretch(a, a) = <<>>
  <2>1. \A a \in Nat : a - a = 0 OBVIOUS
  <2> QED BY <2>1 DEF Stretch
<1>5. \A n \in Splitter!FileNames : n > l => TextOf(n) = <<>> BY <1>1 DEF NoneAbove, TextOf
<1>6. CASE l = 0
  <2>1. TextOf(0) = Stretch(0, written)
    <3>1. CASE Splitter!Exists(0) BY <1>1, <1>6, <3>1 DEF StreamIn, Whole, TextOf
    <3>2. CASE ~Splitter!Exists(0)
      <4>1. files[0] # Stretch(0, written)
        <5>1. PICK a \in Nat, b \in Nat : a = 0 /\ b = written /\ a <= b BY <1>2
        <5>2. Stretch(a, b) # Splitter!Absent BY <5>1, StretchIs
        <5>3. files[0] = Splitter!Absent BY <1>1, <1>6, <3>2 DEF Splitter!Exists
        <5> QED BY <5>1, <5>2, <5>3
      <4>2. written = 0 BY <1>1, <1>6, <4>1 DEF StreamIn, Whole
      <4> QED BY <1>4, <3>2, <4>2 DEF TextOf
    <3> QED BY <3>1, <3>2
  <2>2. PICK e : e = [n \in -1 .. MaxBytes |-> IF n = -1 THEN 0 ELSE written] OBVIOUS
  <2>3. /\ e \in [-1 .. MaxBytes -> Nat] /\ e[-1] = 0
        /\ \A n \in 0 .. MaxBytes : e[n] = written
    BY <1>2, <2>2
  <2>4. ASSUME NEW n \in 0 .. MaxBytes
        PROVE  e[n - 1] <= e[n] /\ TextOf(n) = Stretch(e[n - 1], e[n])
    <3>1. CASE n = 0
      <4>1. n - 1 = -1 BY <3>1
      <4> QED BY <1>2, <2>1, <2>3, <3>1, <4>1
    <3>2. CASE n # 0
      <4>1. n - 1 \in 0 .. MaxBytes /\ n > l BY <1>2, <1>6, <3>2
      <4> QED BY <1>2, <1>4, <1>5, <2>3, <4>1
    <3> QED BY <3>1, <3>2
  <2>5. Splitter!Concat[MaxBytes] = Stretch(0, e[MaxBytes]) BY <2>3, <2>4, ConcatIs
  <2>6. MaxBytes \in 0 .. MaxBytes BY <1>2
  <2>7. ASSUME NEW n \in Splitter!Parts
        PROVE  ~Splitter!Exists(n + 1) /\ Unsplittable(n)
    <3>1. n \in 0 .. MaxBytes /\ Splitter!Exists(n) BY <1>2 DEF Splitter!Parts
    <3>2. n = 0
      <4>1. ~(n > l) BY <1>1, <1>2, <3>1 DEF NoneAbove
      <4> QED BY <1>6, <3>1, <4>1
    <3>3. ~Splitter!Exists(n + 1) BY <1>1, <1>2, <1>6, <3>2 DEF NoneAbove, Splitter!Exists
    <3> QED BY <1>1, <1>6, <3>1, <3>2, <3>3
  <2> QED BY <1>3, <2>3, <2>5, <2>6, <2>7 DEF Unsplittable
<1>7. CASE l # 0
  <2>1. PICK c : Laid(c, l) BY <1>1, <1>7 DEF StreamIn, Divided
  <2>2. c \in [Nat -> Nat] /\ c[0] = 0 /\ c[l] = written /\ ~Splitter!Exists(0)
    BY <1>1, <1>7, <2>1 DEF Laid, StreamIn, Divided
  <2>3. PICK e : e = [n \in -1 .. MaxBytes |->
                         IF n = -1 THEN 0 ELSE IF n > l THEN written ELSE c[n]]
    OBVIOUS
  <2>4. /\ e \in [-1 .. MaxBytes -> Nat] /\ e[-1] = 0 /\ e[0] = 0
        /\ \A n \in 0 .. l : e[n] = c[n]
        /\ \A n \in l .. MaxBytes : e[n] = written
    <3>1. \A n \in -1 .. MaxBytes : n = -1 \/ n > l \/ n \in 0 .. l BY <1>2
    <3>2. \A n \in 0 .. l : n \in Nat /\ n \in -1 .. MaxBytes /\ n # -1 /\ ~(n > l) BY <1>2
    <3>3. \A n \in l .. MaxBytes : n \in -1 .. MaxBytes /\ n # -1 /\ (n > l \/ n = l)
      BY <1>2
    <3>4. 0 \in 0 .. l /\ -1 \in -1 .. MaxBytes BY <1>2
    <3>5. e \in [-1 .. MaxBytes -> Nat] BY <1>2, <2>2, <2>3, <3>1, <3>2
    <3>6. e[-1] = 0 /\ \A n \in 0 .. l : e[n] = c[n] BY <2>3, <3>2, <3>4
    <3>7. \A n \in l .. MaxBytes : e[n] = written BY <1>2, <2>2, <2>3, <3>3
    <3> QED BY <2>2, <3>4, <3>5, <3>6, <3>7
  <2>5. ASSUME NEW n \in 0 .. MaxBytes
        PROVE  e[n - 1] <= e[n] /\ TextOf(n) = Stretch(e[n - 1], e[n])
    <3>1. CASE n = 0
      <4>1. n - 1 = -1 BY <3>1
      <4> QED BY <1>4, <2>2, <2>4, <3>1, <4>1 DEF TextOf
    <3>2. CASE n \in 1 .. l
      <4>1. n \in 0 .. l /\ n - 1 \in 0 .. l BY <1>2, <3>2
      <4>2. c[n - 1] \in Nat /\ c[n] \in Nat /\ c[n - 1] < c[n]
            /\ files[n] = Stretch(c[n - 1], c[n]) /\ Splitter!Exists(n)
        BY <1>7, <2>1, <3>2, PartsExist
      <4> QED BY <2>4, <4>1, <4>2 DEF TextOf
    <3>3. CASE n > l
      <4>1. n \in l .. MaxBytes /\ n - 1 \in l .. MaxBytes BY <1>2, <3>3
      <4> QED BY <1>2, <1>4, <1>5, <2>4, <3>3, <4>1
    <3> QED BY <1>2, <3>1, <3>2, <3>3
  <2>6. Splitter!Concat[MaxBytes] = Stretch(0, e[MaxBytes]) BY <2>4, <2>5, ConcatIs
  <2>7. MaxBytes \in l .. MaxBytes BY <1>2
  <2>8. ASSUME NEW n \in Splitter!Parts
        PROVE  /\ Splitter!Exists(n + 1) => files[n][Len(files[n])] \in newlines
               /\ Unsplittable(n)
    <3>1. n \in 0 .. MaxBytes /\ Splitter!Exists(n) BY <1>2 DEF Splitter!Parts
    <3>2. n \in 1 .. l
      <4>1. ~(n > l) /\ n # 0 BY <1>1, <1>2, <2>2, <3>1 DEF NoneAbove
      <4> QED BY <1>2, <3>1, <4>1
    <3>3. CASE n = l
      <4>1. ~Splitter!Exists(n + 1)
        <5>1. n + 1 > l BY <1>2, <3>3
        <5> QED BY <1>1, <5>1 DEF NoneAbove, Splitter!Exists
      <4> QED BY <1>1, <3>1, <3>3, <4>1
    <3>4. CASE n # l
      <4>1. n \in 1 .. l - 1 BY <1>2, <3>2, <3>4
      <4>2. c[n] \in newlines /\ c[n] - c[n - 1] <= MaxSize BY <2>1, <4>1 DEF Laid
      <4>3. c[n - 1] < c[n] /\ files[n] = Stretch(c[n - 1], c[n])
            /\ c[n - 1] \in Nat /\ c[n] \in Nat
        BY <1>7, <2>1, <3>2, PartsExist
      <4>4. PICK a \in Nat : a = c[n - 1] BY <4>3
      <4>5. PICK b \in Nat : b = c[n] /\ a <= b /\ a # b BY <4>3, <4>4
      <4>6. Len(Stretch(a, b)) = b - a /\ \A i \in 1 .. b - a : Stretch(a, b)[i] = a + i
        BY <4>5, StretchIs
      <4>7. b - a \in 1 .. b - a /\ a + (b - a) = b BY <4>5
      <4>8. files[n] = Stretch(a, b) BY <4>3, <4>4, <4>5
      <4> QED BY <4>2, <4>4, <4>5, <4>6, <4>7, <4>8 DEF Unsplittable
    <3> QED BY <3>3, <3>4
  <2> QED BY <1>3, <2>4, <2>6, <2>7, <2>8 DEF Unsplittable
<1> QED BY <1>6, <1>7

(* As long as nothing fails, the parts of a file without white space in its *)
(* path are in their order the stream, all but the last one end a line and  *)
(* keep to maxsize, and what is still too big has no line feed where Close  *)
(* could have split it.                                                     *)
THEOREM PartsAlways == Spec => []PartsAreTheStream
<1>1. Init => PartsInv
  <2> SUFFICES ASSUME Init PROVE PartsInv OBVIOUS
  <2>1. /\ written = 0 /\ split = Splitter!Closed /\ broken = 0
        /\ files = [n \in Splitter!FileNames |-> Splitter!Absent]
    BY DEF Init, Start, Splitter!SplitInit
  <2>2. split.pc = "closed" BY <2>1 DEF Splitter!Closed
  <2>3. \A n : ~Splitter!Exists(n) BY <2>1 DEF Splitter!Exists
  <2>4. StreamIn(0) /\ NoneAbove(0) BY <2>1, <2>3 DEF StreamIn, Whole, NoneAbove
  <2>5. 0 \in Splitter!FileNames BY SplitConstants
  <2>6. Parted BY <2>2, <2>3, <2>4, <2>5 DEF Parted, Splitting
  <2> QED BY <2>1, <2>6, SplitBegins DEF PartsInv
<1>2. PartsInv /\ [Next]_vars => PartsInv' BY SplitSteps, PartsStep
<1>3. PartsInv => PartsAreTheStream BY PartsKept DEF PartsAreTheStream
<1> QED BY <1>1, <1>2, <1>3, PTL DEF Spec

---------------------------------------------------------------------------
(***************************************************************************)
(* The elements of a finite set of numbers, in order: the rank of an       *)
(* element is how many there are up to it, and every number up to the size *)
(* of the set is the rank of one element.                                  *)
(***************************************************************************)
UpTo(S, n) == {l \in S : l <= n}
Rank(S) == [n \in S |-> Cardinality(UpTo(S, n))]

LEMMA Ranks ==
    ASSUME NEW S \in SUBSET Nat, NEW b \in Nat, \A n \in S : n <= b
    PROVE  /\ IsFiniteSet(S) /\ Cardinality(S) \in Nat
           /\ Rank(S) \in Bijection(S, 1 .. Cardinality(S))
<1> USE DEF Rank
<1>1. IsFiniteSet(S) /\ Cardinality(S) \in Nat BY FS_BoundedSetOfNaturals, FS_CardinalityType
<1>2. ASSUME NEW n \in S
      PROVE  /\ IsFiniteSet(UpTo(S, n))
             /\ Cardinality(UpTo(S, n)) \in 1 .. Cardinality(S)
  <2>1. UpTo(S, n) \in SUBSET S BY DEF UpTo
  <2>2. /\ IsFiniteSet(UpTo(S, n))
        /\ Cardinality(UpTo(S, n)) <= Cardinality(S)
    BY <1>1, <2>1, FS_Subset
  <2>3. Cardinality(UpTo(S, n)) \in Nat BY <2>2, FS_CardinalityType
  <2>4. n \in UpTo(S, n)
    <3>1. n \in Nat OBVIOUS
    <3> QED BY <3>1 DEF UpTo
  <2>5. Cardinality(UpTo(S, n)) # 0 BY <2>2, <2>4, FS_EmptySet
  <2> QED BY <1>1, <2>2, <2>3, <2>5
<1>3. ASSUME NEW n \in S, NEW l \in S, Rank(S)[n] = Rank(S)[l], n < l
      PROVE  FALSE
  <2> n \in Nat /\ l \in Nat OBVIOUS
  <2>1. UpTo(S, n) \in SUBSET UpTo(S, l)
    <3> SUFFICES ASSUME NEW i \in S, i <= n PROVE i <= l BY DEF UpTo
    <3> i \in Nat OBVIOUS
    <3> QED BY <1>3
  <2>2. UpTo(S, n) = UpTo(S, l) BY <1>2, <1>3, <2>1, FS_Subset
  <2>3. l \in UpTo(S, l) /\ l \notin UpTo(S, n) BY <1>3 DEF UpTo
  <2> QED BY <2>2, <2>3
<1>4. Rank(S) \in Injection(S, 1 .. Cardinality(S))
  <2>1. Rank(S) \in [S -> 1 .. Cardinality(S)] BY <1>2
  <2>2. \A n, l \in S : Rank(S)[n] = Rank(S)[l] => n = l
    <3> SUFFICES ASSUME NEW n \in S, NEW l \in S, Rank(S)[n] = Rank(S)[l], n # l
                 PROVE  FALSE
      OBVIOUS
    <3>1. n \in Nat /\ l \in Nat OBVIOUS
    <3>2. n < l \/ l < n BY <3>1
    <3> QED BY <1>3, <3>2
  <2> QED BY <2>1, <2>2 DEF Injection, IsInjective
<1>5. IsFiniteSet(1 .. Cardinality(S)) /\ Cardinality(1 .. Cardinality(S)) = Cardinality(S)
  <2>1. PICK c \in Nat : c = Cardinality(S) BY <1>1
  <2>2. IsFiniteSet(1 .. c) /\ Cardinality(1 .. c) = IF 1 > c THEN 0 ELSE c - 1 + 1
    BY FS_Interval
  <2>3. Cardinality(1 .. c) = c BY <2>2
  <2> QED BY <2>1, <2>2, <2>3
<1>6. Rank(S) \in Surjection(S, 1 .. Cardinality(S)) BY <1>4, <1>5, FS_Injection
<1> QED BY <1>1, <1>4, <1>6 DEF Bijection

(***************************************************************************)
(* Sums over finite sets of natural numbers.  The community modules define *)
(* them by a recursive function on the subsets of a set, which takes the   *)
(* elements in an order of its own.  Such a function exists, and the order *)
(* does not matter: whichever element is taken first, the sum is the same. *)
(***************************************************************************)
Any(S) == CHOOSE x \in S : TRUE
Adds(g, f, P) ==
    \A S \in P : g[S] = IF S = {} THEN 0 ELSE f[Any(S)] + g[S \ {Any(S)}]
Numbers(f, D) == \A x \in D : f[x] \in Nat
Agree(f, e, S) == \A x \in S : f[x] = e[x]
Adding(g, f, D) == Adds(g, f, SUBSET D)
Sums(g, f, D) ==
    /\ IsFiniteSet(D) /\ Numbers(f, D)
    /\ g \in [SUBSET D -> Nat] /\ Adding(g, f, D)
Within(S, D) == S \in SUBSET D
Less(S, x) == S \ {x}
Small(D, n) == {S \in SUBSET D : Cardinality(S) <= n}

LEMMA OneLess ==
    ASSUME NEW D, IsFiniteSet(D), NEW S \in SUBSET D, NEW x \in S
    PROVE  /\ IsFiniteSet(S) /\ Cardinality(S) \in Nat /\ Cardinality(S) > 0
           /\ S \ {x} \in SUBSET D /\ Cardinality(S \ {x}) = Cardinality(S) - 1
<1>1. IsFiniteSet(S) /\ Cardinality(S) \in Nat BY FS_Subset, FS_CardinalityType
<1>2. Cardinality(S \ {x}) = Cardinality(S) - 1 BY <1>1, FS_RemoveElement
<1>3. Cardinality(S) # 0 BY <1>1, FS_EmptySet
<1> QED BY <1>1, <1>2, <1>3

LEMMA SumsExist ==
    ASSUME NEW D, IsFiniteSet(D), NEW f, Numbers(f, D)
    PROVE  \E g \in [SUBSET D -> Nat] : Adding(g, f, D)
<1> USE DEF Numbers, Adding
<1> DEFINE Can(n) == \E g \in [Small(D, n) -> Nat] : Adds(g, f, Small(D, n))
           Bad == {n \in Nat : ~Can(n)}
<1>1. \A S \in SUBSET D : S # {} => Any(S) \in S BY DEF Any
<1>2. ASSUME NEW n \in Nat, NEW S \in Small(D, n + 1), S # {}
      PROVE  S \ {Any(S)} \in Small(D, n)
  <2>1. S \in SUBSET D /\ Cardinality(S) <= n + 1 /\ Any(S) \in S BY <1>1, <1>2 DEF Small
  <2>2. /\ Cardinality(S) \in Nat /\ S \ {Any(S)} \in SUBSET D
        /\ Cardinality(S \ {Any(S)}) = Cardinality(S) - 1
    BY <2>1, OneLess
  <2> QED BY <2>1, <2>2 DEF Small
<1>3. Can(0)
  <2>1. PICK g : g = [S \in Small(D, 0) |-> 0] OBVIOUS
  <2>2. ASSUME NEW S \in Small(D, 0) PROVE S = {}
    <3>1. S \in SUBSET D /\ Cardinality(S) <= 0 BY DEF Small
    <3> SUFFICES ASSUME NEW x \in S PROVE FALSE OBVIOUS
    <3>2. Cardinality(S) \in Nat /\ Cardinality(S) > 0 BY <3>1, OneLess
    <3> QED BY <3>1, <3>2
  <2>3. g \in [Small(D, 0) -> Nat] BY <2>1
  <2>4. Adds(g, f, Small(D, 0)) BY <2>1, <2>2 DEF Adds
  <2> QED BY <2>3, <2>4
<1>4. ASSUME NEW n \in Nat, Can(n) PROVE Can(n + 1)
  <2>1. PICK g \in [Small(D, n) -> Nat] : Adds(g, f, Small(D, n)) BY <1>4
  <2>2. PICK h : h = [S \in Small(D, n + 1) |->
                         IF S = {} THEN 0 ELSE f[Any(S)] + g[S \ {Any(S)}]]
    OBVIOUS
  <2>3. h \in [Small(D, n + 1) -> Nat]
    <3> SUFFICES ASSUME NEW S \in Small(D, n + 1), S # {}
                 PROVE  f[Any(S)] + g[S \ {Any(S)}] \in Nat
      BY <2>2
    <3>1. g[S \ {Any(S)}] \in Nat BY <1>2
    <3>2. Any(S) \in D BY <1>1 DEF Small
    <3> QED BY <3>1, <3>2
  <2>4. \A S \in Small(D, n) : S \in Small(D, n + 1) /\ h[S] = g[S]
    <3>1. \A S \in Small(D, n) : S \in Small(D, n + 1)
      <4> SUFFICES ASSUME NEW S \in SUBSET D, Cardinality(S) <= n
                   PROVE  Cardinality(S) <= n + 1
        BY DEF Small
      <4>1. Cardinality(S) \in Nat BY FS_Subset, FS_CardinalityType
      <4> QED BY <4>1
    <3> QED BY <2>1, <2>2, <3>1 DEF Adds
  <2>5. Adds(h, f, Small(D, n + 1))
    <3> SUFFICES ASSUME NEW S \in Small(D, n + 1)
                 PROVE  h[S] = IF S = {} THEN 0 ELSE f[Any(S)] + h[S \ {Any(S)}]
      BY DEF Adds
    <3>1. S # {} => h[S \ {Any(S)}] = g[S \ {Any(S)}] BY <1>2, <2>4
    <3> QED BY <2>2, <3>1
  <2> QED BY <2>3, <2>5
<1>5. Bad = {}
  <2> SUFFICES ASSUME Bad # {} PROVE FALSE OBVIOUS
  <2>1. PICK n \in Bad : \A i \in Bad : n <= i BY LeastOne
  <2>2. n # 0 BY <1>3
  <2>3. PICK i \in Nat : n = i + 1
    <3>1. n - 1 \in Nat /\ n = (n - 1) + 1 BY <2>2
    <3> QED BY <3>1
  <2>4. i \notin Bad BY <2>1, <2>3
  <2>5. Can(i) BY <2>4
  <2> QED BY <1>4, <2>3, <2>5
<1>6. PICK N \in Nat : N = Cardinality(D) BY FS_CardinalityType
<1>7. Small(D, N) = SUBSET D
  <2>1. \A S \in SUBSET D : Cardinality(S) <= N BY <1>6, FS_Subset
  <2> QED BY <2>1 DEF Small
<1>8. Can(N) BY <1>5
<1> QED BY <1>7, <1>8

(* Any element may be taken first.                                         *)
LEMMA SumSplit ==
    ASSUME NEW D, NEW f, NEW g, Sums(g, f, D), NEW S, Within(S, D), NEW x \in S
    PROVE  g[S] = f[x] + g[Less(S, x)]
<1> USE DEF Sums, Numbers, Within, Adding
<1> DEFINE Same(T, y) == g[T] = f[y] + g[T \ {y}]
           Bad == {Cardinality(T) : T \in {R \in SUBSET D : \E y \in R : ~Same(R, y)}}
<1>1. Bad \in SUBSET Nat
  <2>1. \A T \in SUBSET D : Cardinality(T) \in Nat BY FS_Subset, FS_CardinalityType
  <2> QED BY <2>1
<1>2. ASSUME Bad # {} PROVE FALSE
  <2>1. PICK n \in Bad : \A i \in Bad : n <= i BY <1>1, <1>2, LeastOne
  <2>2. PICK T \in SUBSET D : n = Cardinality(T) /\ \E y \in T : ~Same(T, y) OBVIOUS
  <2>3. PICK y \in T : ~Same(T, y) BY <2>2
  <2>4. ASSUME NEW R \in SUBSET D, Cardinality(R) < n, NEW z \in R PROVE Same(R, z)
    <3>1. Cardinality(R) \in Nat BY FS_Subset, FS_CardinalityType
    <3>2. PICK i \in Nat : i = Cardinality(R) BY <3>1
    <3>3. n \in Nat /\ i < n BY <1>1, <2>4, <3>2
    <3>4. i \notin Bad BY <2>1, <3>2, <3>3
    <3> QED BY <3>2, <3>4
  <2>5. PICK a : a = Any(T) OBVIOUS
  <2>6. a \in T /\ Same(T, a) BY <2>2, <2>5 DEF Any, Adds
  <2>7. a # y BY <2>3, <2>6
  <2>8. /\ T \ {a} \in SUBSET D /\ Cardinality(T \ {a}) < n
        /\ T \ {y} \in SUBSET D /\ Cardinality(T \ {y}) < n
    BY <2>2, <2>3, <2>6, OneLess
  <2>9. Same(T \ {a}, y) /\ Same(T \ {y}, a) BY <2>4, <2>6, <2>7, <2>8
  <2>10. (T \ {a}) \ {y} = (T \ {y}) \ {a} /\ (T \ {a}) \ {y} \in SUBSET D OBVIOUS
  <2>11. /\ g[T] = f[a] + g[T \ {a}]
         /\ g[T \ {a}] = f[y] + g[(T \ {a}) \ {y}]
         /\ g[T \ {y}] = f[a] + g[(T \ {a}) \ {y}]
         /\ f[a] \in Nat /\ f[y] \in Nat /\ g[(T \ {a}) \ {y}] \in Nat
    BY <2>6, <2>9, <2>10
  <2> QED BY <2>3, <2>11
<1>3. Cardinality(S) \notin Bad BY <1>2
<1> QED BY <1>3 DEF Less

(* The sum depends on the elements that are added up only.                 *)
LEMMA AddedSame ==
    ASSUME NEW D, IsFiniteSet(D), NEW f, NEW g, Adding(g, f, D),
           NEW E, NEW e, NEW h, Adding(h, e, E),
           NEW S, Within(S, D), Within(S, E), Agree(f, e, S)
    PROVE  g[S] = h[S]
<1> USE DEF Within, Agree, Adding
<1> DEFINE Bad == {Cardinality(T) : T \in {R \in SUBSET S : g[R] # h[R]}}
<1>1. Bad \in SUBSET Nat
  <2>1. \A T \in SUBSET S : Cardinality(T) \in Nat BY FS_Subset, FS_CardinalityType
  <2> QED BY <2>1
<1>2. ASSUME Bad # {} PROVE FALSE
  <2>1. PICK n \in Bad : \A i \in Bad : n <= i BY <1>1, <1>2, LeastOne
  <2>2. PICK T \in SUBSET S : n = Cardinality(T) /\ g[T] # h[T] OBVIOUS
  <2>3. T \in SUBSET D /\ T \in SUBSET E OBVIOUS
  <2>4. T # {} BY <2>2, <2>3 DEF Adds
  <2>5. PICK a : a = Any(T) OBVIOUS
  <2>6. a \in T BY <2>4, <2>5 DEF Any
  <2>7. g[T] = f[a] + g[T \ {a}] /\ h[T] = e[a] + h[T \ {a}]
    BY <2>3, <2>4, <2>5 DEF Adds
  <2>8. Cardinality(T \ {a}) < n /\ Cardinality(T \ {a}) \in Nat
    BY <2>2, <2>3, <2>6, OneLess
  <2>9. Cardinality(T \ {a}) \notin Bad BY <1>1, <2>1, <2>8
  <2>10. g[T \ {a}] = h[T \ {a}] BY <2>9
  <2> QED BY <2>2, <2>6, <2>7, <2>10
<1>3. Cardinality(S) \notin Bad BY <1>2
<1> QED BY <1>3

LEMMA SumSame ==
    ASSUME NEW D, NEW f, NEW g, Sums(g, f, D), NEW E, NEW e, NEW h, Sums(h, e, E),
           NEW S, Within(S, D), Within(S, E), Agree(f, e, S)
    PROVE  g[S] = h[S]
BY AddedSame DEF Sums

(* The function that the community modules' definition chooses.            *)
Adder(f, D) ==
    CHOOSE g : g = [S \in SUBSET D |-> IF S = {} THEN 0 ELSE f[Any(S)] + g[S \ {Any(S)}]]

LEMMA AdderSums ==
    ASSUME NEW D, IsFiniteSet(D), NEW f, Numbers(f, D)
    PROVE  Sums(Adder(f, D), f, D)
<1>1. PICK g \in [SUBSET D -> Nat] : Adding(g, f, D) BY SumsExist
<1>2. g = [S \in SUBSET D |-> IF S = {} THEN 0 ELSE f[Any(S)] + g[S \ {Any(S)}]]
  BY <1>1 DEF Adding, Adds
<1>3. PICK h : h = Adder(f, D) OBVIOUS
<1>4. h = [S \in SUBSET D |-> IF S = {} THEN 0 ELSE f[Any(S)] + h[S \ {Any(S)}]]
  BY <1>2, <1>3 DEF Adder
<1>5. Adding(h, f, D) BY <1>4 DEF Adding, Adds
<1>6. ASSUME NEW S \in SUBSET D PROVE h[S] = g[S]
  <2>1. Agree(f, f, S) /\ Within(S, D) BY DEF Agree, Within
  <2> QED BY <1>1, <1>5, <2>1, AddedSame
<1>7. h \in [SUBSET D -> Nat] BY <1>4, <1>6
<1> QED BY <1>3, <1>5, <1>7 DEF Sums

LEMMA SumIsAdded ==
    ASSUME NEW D, NEW f, DOMAIN f = D
    PROVE  Cache!SumFunction(f) = Adder(f, D)[D]
BY DEF Cache!SumFunction, Cache!SumFunctionOnSet, Cache!FoldFunctionOnSet,
       Cache!MapThenFoldSet, Adder, Any

LEMMA SumOfNumbers ==
    ASSUME NEW D, IsFiniteSet(D), NEW f \in [D -> Nat]
    PROVE  /\ Cache!SumFunction(f) \in Nat
           /\ \A x \in D : f[x] <= Cache!SumFunction(f)
<1>1. PICK g : g = Adder(f, D) /\ Sums(g, f, D) BY AdderSums DEF Numbers
<1>2. Cache!SumFunction(f) = g[D] BY <1>1, SumIsAdded
<1>3. D \in SUBSET D /\ \A x : Less(D, x) \in SUBSET D BY DEF Less
<1>4. g[D] \in Nat /\ \A x : g[Less(D, x)] \in Nat BY <1>1, <1>3 DEF Sums
<1>5. ASSUME NEW x \in D PROVE f[x] <= g[D]
  <2>1. Within(D, D) BY <1>3 DEF Within
  <2>2. g[D] = f[x] + g[Less(D, x)] BY <1>1, <2>1, SumSplit
  <2> QED BY <1>4, <2>2
<1> QED BY <1>2, <1>4, <1>5

LEMMA SumOfZeros ==
    ASSUME NEW D, IsFiniteSet(D), NEW f \in [D -> Nat], \A x \in D : f[x] = 0
    PROVE  Cache!SumFunction(f) = 0
<1>1. PICK g : g = Adder(f, D) /\ Sums(g, f, D) BY AdderSums DEF Numbers
<1>2. PICK h : h = [S \in SUBSET D |-> 0] OBVIOUS
<1>3. Sums(h, f, D)
  <2>1. Adding(h, f, D)
    <3> SUFFICES ASSUME NEW S \in SUBSET D, S # {}
                 PROVE  h[S] = f[Any(S)] + h[S \ {Any(S)}]
      BY <1>2 DEF Adding, Adds
    <3>1. Any(S) \in S BY DEF Any
    <3>2. S \ {Any(S)} \in SUBSET D OBVIOUS
    <3> QED BY <1>2, <3>1, <3>2
  <2>2. h \in [SUBSET D -> Nat] BY <1>2
  <2> QED BY <1>1, <2>1, <2>2 DEF Sums
<1>4. Within(D, D) /\ Agree(f, f, D) BY DEF Within, Agree
<1>5. g[D] = h[D] BY <1>1, <1>3, <1>4, SumSame
<1> QED BY <1>1, <1>2, <1>5, SumIsAdded

LEMMA SumChanged ==
    ASSUME NEW D, IsFiniteSet(D), NEW f \in [D -> Nat], NEW e \in [D -> Nat],
           NEW x \in D, \A y \in D \ {x} : f[y] = e[y]
    PROVE  Cache!SumFunction(e) = Cache!SumFunction(f) - f[x] + e[x]
<1>1. PICK g : g = Adder(f, D) /\ Sums(g, f, D) BY AdderSums DEF Numbers
<1>2. PICK h : h = Adder(e, D) /\ Sums(h, e, D) BY AdderSums DEF Numbers
<1>3. PICK R : R = Less(D, x) OBVIOUS
<1>4. Within(D, D) /\ Within(R, D) /\ Agree(f, e, R) BY <1>3 DEF Less, Within, Agree
<1>5. g[D] = f[x] + g[R]
  <2>1. g[D] = f[x] + g[Less(D, x)] BY <1>1, <1>4, SumSplit
  <2> QED BY <1>3, <2>1
<1>6. h[D] = e[x] + h[R]
  <2>1. h[D] = e[x] + h[Less(D, x)] BY <1>2, <1>4, SumSplit
  <2> QED BY <1>3, <2>1
<1>7. g[R] = h[R] BY <1>1, <1>2, <1>4, SumSame
<1>8. g[D] \in Nat /\ h[D] \in Nat /\ h[R] \in Nat /\ f[x] \in Nat /\ e[x] \in Nat
  BY <1>1, <1>2, <1>4 DEF Sums, Within
<1>9. Cache!SumFunction(f) = g[D] /\ Cache!SumFunction(e) = h[D] BY <1>1, <1>2, SumIsAdded
<1> QED BY <1>5, <1>6, <1>7, <1>8, <1>9

LEMMA SeqOver ==
    ASSUME NEW S, NEW T, NEW q \in Seq(S), \A j \in DOMAIN q : q[j] \in T
    PROVE  q \in Seq(T)
<1>1. Len(q) \in Nat /\ q \in [1 .. Len(q) -> S] OBVIOUS
<1>2. q \in [1 .. Len(q) -> T] BY <1>1
<1> QED BY <1>1, <1>2

(* What is handed out by a sequence of calls, and by one more.             *)
Gives(o, n) == \E i \in DOMAIN o : \E j \in DOMAIN o[i] : o[i][j] = n

LEMMA MoreCalls ==
    ASSUME NEW o \in Seq(Seq(Nat)), NEW p \in Seq(Seq(Nat))
    PROVE  /\ o \o p \in Seq(Seq(Nat))
           /\ \A n : Gives(o \o p, n) <=> Gives(o, n) \/ Gives(p, n)
<1>1. /\ Len(o) \in Nat /\ DOMAIN o = 1 .. Len(o) /\ Len(p) \in Nat /\ DOMAIN p = 1 .. Len(p)
      /\ o \o p \in Seq(Seq(Nat))
      /\ DOMAIN (o \o p) = 1 .. Len(o) + Len(p)
      /\ \A i \in 1 .. Len(o) : (o \o p)[i] = o[i]
      /\ \A i \in 1 .. Len(p) : (o \o p)[Len(o) + i] = p[i]
  OBVIOUS
<1>2. ASSUME NEW n, Gives(o, n) PROVE Gives(o \o p, n)
  <2>1. PICK i \in 1 .. Len(o) : \E j \in DOMAIN o[i] : o[i][j] = n BY <1>1, <1>2 DEF Gives
  <2>2. i \in DOMAIN (o \o p) BY <1>1
  <2> QED BY <1>1, <2>1, <2>2 DEF Gives
<1>3. ASSUME NEW n, Gives(p, n) PROVE Gives(o \o p, n)
  <2>1. PICK i \in 1 .. Len(p) : \E j \in DOMAIN p[i] : p[i][j] = n BY <1>1, <1>3 DEF Gives
  <2>2. Len(o) + i \in DOMAIN (o \o p) BY <1>1
  <2> QED BY <1>1, <2>1, <2>2 DEF Gives
<1>4. ASSUME NEW n, Gives(o \o p, n), ~Gives(o, n) PROVE Gives(p, n)
  <2>1. PICK i \in 1 .. Len(o) + Len(p) : \E j \in DOMAIN (o \o p)[i] : (o \o p)[i][j] = n
    BY <1>1, <1>4 DEF Gives
  <2>2. ~(i \in 1 .. Len(o))
    <3> SUFFICES ASSUME i \in 1 .. Len(o) PROVE FALSE OBVIOUS
    <3>1. i \in DOMAIN o /\ (o \o p)[i] = o[i] BY <1>1
    <3> QED BY <1>4, <2>1, <3>1 DEF Gives
  <2>3. PICK e : e = i - Len(o) OBVIOUS
  <2>4. e \in 1 .. Len(p) /\ i = Len(o) + e BY <1>1, <2>2, <2>3
  <2>5. e \in DOMAIN p /\ (o \o p)[i] = p[e] BY <1>1, <2>4
  <2> QED BY <2>1, <2>5 DEF Gives
<1> QED BY <1>1, <1>2, <1>3, <1>4

LEMMA OneMoreCall ==
    ASSUME NEW o \in Seq(Seq(Nat)), NEW q \in Seq(Nat)
    PROVE  /\ Append(o, q) \in Seq(Seq(Nat))
           /\ \A n : Gives(Append(o, q), n) <=> Gives(o, n) \/ \E j \in DOMAIN q : q[j] = n
<1>1. /\ Len(o) \in Nat /\ DOMAIN o = 1 .. Len(o)
      /\ Append(o, q) \in Seq(Seq(Nat))
      /\ DOMAIN Append(o, q) = 1 .. Len(o) + 1
      /\ \A i \in 1 .. Len(o) : Append(o, q)[i] = o[i]
      /\ Append(o, q)[Len(o) + 1] = q
  OBVIOUS
<1>2. ASSUME NEW n, Gives(o, n) PROVE Gives(Append(o, q), n)
  <2>1. PICK i \in 1 .. Len(o) : \E j \in DOMAIN o[i] : o[i][j] = n BY <1>1, <1>2 DEF Gives
  <2>2. i \in DOMAIN Append(o, q) BY <1>1
  <2> QED BY <1>1, <2>1, <2>2 DEF Gives
<1>3. ASSUME NEW n, \E j \in DOMAIN q : q[j] = n PROVE Gives(Append(o, q), n)
  <2>1. Len(o) + 1 \in DOMAIN Append(o, q) BY <1>1
  <2> QED BY <1>1, <1>3, <2>1 DEF Gives
<1>4. ASSUME NEW n, Gives(Append(o, q), n), ~Gives(o, n) PROVE \E j \in DOMAIN q : q[j] = n
  <2>1. PICK i \in 1 .. Len(o) + 1 : \E j \in DOMAIN Append(o, q)[i] : Append(o, q)[i][j] = n
    BY <1>1, <1>4 DEF Gives
  <2>2. ~(i \in 1 .. Len(o))
    <3> SUFFICES ASSUME i \in 1 .. Len(o) PROVE FALSE OBVIOUS
    <3>1. i \in DOMAIN o /\ Append(o, q)[i] = o[i] BY <1>1
    <3> QED BY <1>4, <2>1, <3>1 DEF Gives
  <2>3. i = Len(o) + 1 BY <1>1, <2>2
  <2> QED BY <1>1, <2>1, <2>3
<1> QED BY <1>1, <1>2, <1>3, <1>4

(***************************************************************************)
(* The calls of OnFlush for one key.  Each is a run of consecutive         *)
(* numbers, and no number occurs at two places of them.                    *)
(***************************************************************************)
IsRun(q) == q # <<>> /\ \A j \in DOMAIN q : q[j] = q[1] + j - 1
SamePlace(o, i, j) ==
    \A x \in DOMAIN o[i], y \in DOMAIN o[j] : o[i][x] = o[j][y] => i = j /\ x = y
RunsOnce(o) ==
    (\A i \in DOMAIN o : IsRun(o[i])) /\ \A i, j \in DOMAIN o : SamePlace(o, i, j)

LEMMA RunsJoined ==
    ASSUME NEW o \in Seq(Seq(Nat)), NEW p \in Seq(Seq(Nat)), RunsOnce(o), RunsOnce(p),
           \A n : ~(Gives(o, n) /\ Gives(p, n))
    PROVE  RunsOnce(o \o p)
<1>1. PICK r : r = o \o p OBVIOUS
<1>2. ASSUME NEW i \in DOMAIN r
      PROVE  \/ i \in DOMAIN o /\ r[i] = o[i]
             \/ \E a \in DOMAIN p : i = Len(o) + a /\ r[i] = p[a]
  <2>1. /\ Len(o) \in Nat /\ DOMAIN o = 1 .. Len(o) /\ Len(p) \in Nat /\ DOMAIN p = 1 .. Len(p)
        /\ DOMAIN r = 1 .. Len(o) + Len(p)
        /\ \A a \in 1 .. Len(o) : r[a] = o[a]
        /\ \A a \in 1 .. Len(p) : r[Len(o) + a] = p[a]
    BY <1>1
  <2>2. CASE i <= Len(o) BY <2>1, <2>2
  <2>3. CASE i > Len(o)
    <3>1. PICK a : a = i - Len(o) OBVIOUS
    <3>2. a \in 1 .. Len(p) /\ i = Len(o) + a BY <2>1, <2>3, <3>1
    <3> QED BY <2>1, <3>2
  <2> QED BY <2>1, <2>2, <2>3
<1>3. \A i \in DOMAIN r : IsRun(r[i]) BY <1>2 DEF RunsOnce
<1>4. ASSUME NEW i \in DOMAIN r, NEW j \in DOMAIN r PROVE SamePlace(r, i, j)
  <2> SUFFICES ASSUME NEW x \in DOMAIN r[i], NEW y \in DOMAIN r[j], r[i][x] = r[j][y]
               PROVE  i = j /\ x = y
    BY DEF SamePlace
  <2>1. CASE i \in DOMAIN o /\ r[i] = o[i] /\ j \in DOMAIN o /\ r[j] = o[j]
    BY <2>1 DEF RunsOnce, SamePlace
  <2>2. ASSUME NEW a \in DOMAIN p, r[i] = p[a], j \in DOMAIN o, r[j] = o[j] PROVE FALSE
    BY <2>2 DEF Gives
  <2>3. ASSUME NEW a \in DOMAIN p, r[j] = p[a], i \in DOMAIN o, r[i] = o[i] PROVE FALSE
    BY <2>3 DEF Gives
  <2>4. ASSUME NEW a \in DOMAIN p, NEW d \in DOMAIN p, i = Len(o) + a, r[i] = p[a],
               j = Len(o) + d, r[j] = p[d]
        PROVE  i = j /\ x = y
    <3>1. p[a][x] = p[d][y] /\ x \in DOMAIN p[a] /\ y \in DOMAIN p[d] BY <2>4
    <3>2. a = d /\ x = y BY <3>1 DEF RunsOnce, SamePlace
    <3> QED BY <2>4, <3>2
  <2> QED BY <1>2, <2>1, <2>2, <2>3, <2>4
<1> QED BY <1>1, <1>3, <1>4 DEF RunsOnce

LEMMA OneRun ==
    ASSUME NEW q \in Seq(Nat), IsRun(q)
    PROVE  RunsOnce(<<q>>)
<1>1. PICK o : o = <<q>> OBVIOUS
<1>2. DOMAIN o = {1} /\ o[1] = q BY <1>1
<1>3. \A x \in DOMAIN q : x \in Nat OBVIOUS
<1>4. q[1] \in Nat BY DEF IsRun
<1>5. ASSUME NEW x \in DOMAIN q, NEW y \in DOMAIN q, q[x] = q[y] PROVE x = y
  <2>1. q[x] = q[1] + x - 1 /\ q[y] = q[1] + y - 1 BY DEF IsRun
  <2>2. PICK f \in Nat : f = q[1] BY <1>4
  <2>3. PICK u \in Nat : u = x BY <1>3
  <2>4. PICK v \in Nat : v = y BY <1>3
  <2>5. f + u - 1 = f + v - 1 BY <1>5, <2>1, <2>2, <2>3, <2>4
  <2> QED BY <2>3, <2>4, <2>5
<1> QED BY <1>1, <1>2, <1>5 DEF RunsOnce, SamePlace

LEMMA RunAdded ==
    ASSUME NEW o \in Seq(Seq(Nat)), RunsOnce(o), NEW q \in Seq(Nat), IsRun(q),
           \A j \in DOMAIN q : ~Gives(o, q[j])
    PROVE  RunsOnce(Append(o, q))
<1>1. PICK p : p = <<q>> OBVIOUS
<1>2. p \in Seq(Seq(Nat)) /\ RunsOnce(p) BY <1>1, OneRun
<1>3. \A n : Gives(p, n) => \E j \in DOMAIN q : q[j] = n BY <1>1 DEF Gives
<1>4. RunsOnce(o \o p) BY <1>2, <1>3, RunsJoined
<1>5. Append(o, q) = o \o p BY <1>1
<1> QED BY <1>4, <1>5

(***************************************************************************)
(* The calls one after the other, as the community modules flatten them:   *)
(* a recursive function on the prefixes, which exists.  When no number     *)
(* occurs twice, it is as long as the set of the numbers.                  *)
(***************************************************************************)
Flattens(f, o, n) ==
    \A i \in 1 .. n : f[i] = IF i = 1 THEN o[i] ELSE f[i - 1] \o o[i]
Flat(o) ==
    CHOOSE f : f = [i \in 1 .. Len(o) |-> IF i = 1 THEN o[i] ELSE f[i - 1] \o o[i]]
GivenBy(o, i) == {n \in Nat : \E j \in DOMAIN o[i] : o[i][j] = n}
GivenTo(o, i) == {n \in Nat : \E a \in 1 .. i : n \in GivenBy(o, a)}

LEMMA FlatExists ==
    ASSUME NEW o, NEW l \in Nat
    PROVE  \E f : f = [i \in 1 .. l |-> f[i]] /\ Flattens(f, o, l)
<1> DEFINE Can(n) == \E f : f = [i \in 1 .. n |-> f[i]] /\ Flattens(f, o, n)
           Bad == {n \in Nat : ~Can(n)}
<1>1. Can(0)
  <2>1. PICK f : f = [i \in 1 .. 0 |-> 0] OBVIOUS
  <2>2. f = [i \in 1 .. 0 |-> f[i]] BY <2>1
  <2>3. Flattens(f, o, 0) BY DEF Flattens
  <2> QED BY <2>2, <2>3
<1>2. ASSUME NEW n \in Nat, Can(n) PROVE Can(n + 1)
  <2>1. PICK f : f = [i \in 1 .. n |-> f[i]] /\ Flattens(f, o, n) BY <1>2
  <2>2. PICK x : x = IF n = 0 THEN o[1] ELSE f[n] \o o[n + 1] OBVIOUS
  <2>3. PICK g : g = [i \in 1 .. n + 1 |-> IF i \in 1 .. n THEN f[i] ELSE x] OBVIOUS
  <2>4. /\ \A i \in 1 .. n : i \in 1 .. n + 1 /\ (i # 1 => i - 1 \in 1 .. n)
        /\ n + 1 \in 1 .. n + 1 /\ n + 1 \notin 1 .. n /\ (n + 1) - 1 = n
        /\ n # 0 => n \in 1 .. n /\ n + 1 # 1
        /\ \A i \in 1 .. n + 1 : i \in 1 .. n \/ i = n + 1
    OBVIOUS
  <2>5. g[n + 1] = x /\ \A i \in 1 .. n : g[i] = f[i] BY <2>3, <2>4
  <2>6. ASSUME NEW i \in 1 .. n + 1
        PROVE  g[i] = IF i = 1 THEN o[i] ELSE g[i - 1] \o o[i]
    <3>1. CASE i \in 1 .. n BY <2>1, <2>4, <2>5, <3>1 DEF Flattens
    <3>2. CASE i = n + 1
      <4>1. CASE n = 0 BY <2>2, <2>5, <3>2, <4>1
      <4>2. CASE n # 0
        <5>1. g[i - 1] = f[n] BY <2>4, <2>5, <3>2, <4>2
        <5> QED BY <2>2, <2>4, <2>5, <3>2, <4>2, <5>1
      <4> QED BY <4>1, <4>2
    <3> QED BY <2>4, <3>1, <3>2
  <2>7. g = [i \in 1 .. n + 1 |-> g[i]] BY <2>3
  <2> QED BY <2>6, <2>7 DEF Flattens
<1>3. Bad = {}
  <2> SUFFICES ASSUME Bad # {} PROVE FALSE OBVIOUS
  <2>1. PICK n \in Bad : \A i \in Bad : n <= i BY LeastOne
  <2>2. n # 0 BY <1>1
  <2>3. PICK i \in Nat : n = i + 1
    <3>1. n - 1 \in Nat /\ n = (n - 1) + 1 BY <2>2
    <3> QED BY <3>1
  <2>4. i \notin Bad BY <2>1, <2>3
  <2>5. Can(i) BY <2>4
  <2> QED BY <1>2, <2>3, <2>5
<1> QED BY <1>3

LEMMA FlatIs ==
    ASSUME NEW o \in Seq(Seq(Nat))
    PROVE  Flattens(Flat(o), o, Len(o))
<1>1. PICK l \in Nat : l = Len(o) OBVIOUS
<1>2. PICK f : f = [i \in 1 .. l |-> f[i]] /\ Flattens(f, o, l) BY FlatExists
<1>3. f = [i \in 1 .. l |-> IF i = 1 THEN o[i] ELSE f[i - 1] \o o[i]]
  BY <1>2 DEF Flattens
<1>4. PICK g : g = Flat(o) OBVIOUS
<1>5. g = [i \in 1 .. l |-> IF i = 1 THEN o[i] ELSE g[i - 1] \o o[i]]
  BY <1>1, <1>3, <1>4 DEF Flat
<1> QED BY <1>1, <1>4, <1>5 DEF Flattens

(* A run is as long as the set of its numbers.                             *)
LEMMA RunCount ==
    ASSUME NEW o \in Seq(Seq(Nat)), RunsOnce(o), NEW i \in DOMAIN o
    PROVE  IsFiniteSet(GivenBy(o, i)) /\ Cardinality(GivenBy(o, i)) = Len(o[i])
<1>1. PICK q \in Seq(Nat) : q = o[i]
  <2>1. o[i] \in Seq(Nat) OBVIOUS
  <2> QED BY <2>1
<1>2. PICK l \in Nat : l = Len(q) OBVIOUS
<1>3. DOMAIN q = 1 .. l /\ \A j \in 1 .. l : q[j] \in Nat BY <1>2
<1>4. \A x \in 1 .. l, y \in 1 .. l : q[x] = q[y] => x = y
  <2>1. SamePlace(o, i, i) BY DEF RunsOnce
  <2> QED BY <1>1, <1>3, <2>1 DEF SamePlace
<1>5. PICK T : T = GivenBy(o, i) OBVIOUS
<1>6. \A n : n \in T <=> \E j \in 1 .. l : q[j] = n BY <1>1, <1>3, <1>5 DEF GivenBy
<1>7. q \in [1 .. l -> T]
  <2>1. q = [j \in 1 .. l |-> q[j]] BY <1>3
  <2> QED BY <1>6, <2>1
<1>8. q \in Injection(1 .. l, T) BY <1>4, <1>7 DEF Injection, IsInjective
<1>9. q \in Surjection(1 .. l, T) BY <1>6, <1>7 DEF Surjection
<1>10. ExistsBijection(1 .. l, T) BY <1>8, <1>9 DEF Bijection, ExistsBijection
<1>11. IsFiniteSet(1 .. l) /\ Cardinality(1 .. l) = l
  <2>1. IsFiniteSet(1 .. l) /\ Cardinality(1 .. l) = IF 1 > l THEN 0 ELSE l - 1 + 1
    BY FS_Interval
  <2> QED BY <2>1
<1>12. IsFiniteSet(T) /\ Cardinality(T) = l BY <1>10, <1>11, FS_Bijection
<1> QED BY <1>1, <1>2, <1>5, <1>12

LEMMA FlatCount ==
    ASSUME NEW o \in Seq(Seq(Nat)), RunsOnce(o), NEW f, Flattens(f, o, Len(o)),
           NEW i \in 1 .. Len(o)
    PROVE  /\ f[i] \in Seq(Nat)
           /\ IsFiniteSet(GivenTo(o, i)) /\ Cardinality(GivenTo(o, i)) = Len(f[i])
<1>1. PICK l \in Nat : l = Len(o) OBVIOUS
<1>2. DOMAIN o = 1 .. l /\ \A a \in 1 .. l : o[a] \in Seq(Nat) BY <1>1
<1> DEFINE Good(a) == /\ f[a] \in Seq(Nat) /\ IsFiniteSet(GivenTo(o, a))
                      /\ Cardinality(GivenTo(o, a)) = Len(f[a])
           Bad == {a \in 1 .. l : ~Good(a)}
<1>3. 1 \in 1 .. l => Good(1)
  <2> SUFFICES ASSUME 1 \in 1 .. l PROVE Good(1) OBVIOUS
  <2>1. f[1] = o[1] BY <1>1 DEF Flattens
  <2>2. GivenTo(o, 1) = GivenBy(o, 1)
    <3>1. \A a \in 1 .. 1 : a = 1 OBVIOUS
    <3>2. 1 \in 1 .. 1 OBVIOUS
    <3> QED BY <3>1, <3>2 DEF GivenTo, GivenBy
  <2> QED BY <1>2, <2>1, <2>2, RunCount
<1>4. ASSUME NEW a \in 1 .. l, a + 1 \in 1 .. l, Good(a) PROVE Good(a + 1)
  <2>1. f[a + 1] = f[a] \o o[a + 1]
    <3>1. a + 1 # 1 /\ (a + 1) - 1 = a OBVIOUS
    <3> QED BY <1>1, <1>4, <3>1 DEF Flattens
  <2>2. PICK S : S = GivenTo(o, a) OBVIOUS
  <2>3. PICK T : T = GivenBy(o, a + 1) OBVIOUS
  <2>4. GivenTo(o, a + 1) = S \cup T
    <3>1. \A j : j \in 1 .. a + 1 <=> j \in 1 .. a \/ j = a + 1 OBVIOUS
    <3>2. T \subseteq Nat BY <2>3 DEF GivenBy
    <3> QED BY <2>2, <2>3, <3>1, <3>2 DEF GivenTo
  <2>5. S \cap T = {}
    <3> SUFFICES ASSUME NEW n, n \in S, n \in T PROVE FALSE OBVIOUS
    <3>1. PICK j \in 1 .. a : n \in GivenBy(o, j) BY <2>2 DEF GivenTo
    <3>2. PICK x \in DOMAIN o[j] : o[j][x] = n BY <3>1 DEF GivenBy
    <3>3. PICK y \in DOMAIN o[a + 1] : o[a + 1][y] = n BY <2>3 DEF GivenBy
    <3>4. j \in DOMAIN o /\ a + 1 \in DOMAIN o /\ j # a + 1 BY <1>2, <1>4
    <3> QED BY <3>2, <3>3, <3>4 DEF RunsOnce, SamePlace
  <2>6. IsFiniteSet(T) /\ Cardinality(T) = Len(o[a + 1]) BY <1>2, <1>4, <2>3, RunCount
  <2>7. /\ IsFiniteSet(S \cup T)
        /\ Cardinality(S \cup T) = Cardinality(S) + Cardinality(T) - Cardinality(S \cap T)
    BY <1>4, <2>2, <2>6, FS_Union
  <2>8. Cardinality(S \cap T) = 0 BY <2>5, FS_EmptySet
  <2>9. PICK p \in Seq(Nat) : p = f[a] BY <1>4
  <2>10. PICK q \in Seq(Nat) : q = o[a + 1] BY <1>2, <1>4
  <2>11. p \o q \in Seq(Nat) /\ Len(p \o q) = Len(p) + Len(q) OBVIOUS
  <2>12. Len(p) \in Nat /\ Len(q) \in Nat OBVIOUS
  <2>13. Cardinality(S) = Len(p) /\ Cardinality(T) = Len(q)
    BY <1>4, <2>2, <2>6, <2>9, <2>10
  <2>14. Cardinality(S \cup T) = Len(p \o q) BY <2>7, <2>8, <2>11, <2>12, <2>13
  <2> QED BY <2>1, <2>4, <2>7, <2>9, <2>10, <2>11, <2>14
<1>5. Bad = {}
  <2> SUFFICES ASSUME Bad # {} PROVE FALSE OBVIOUS
  <2>1. Bad \in SUBSET Nat OBVIOUS
  <2>2. PICK n \in Bad : \A a \in Bad : n <= a BY <2>1, LeastOne
  <2>3. n # 1 BY <1>3
  <2>4. PICK a \in 1 .. l : n = a + 1
    <3>1. n - 1 \in 1 .. l /\ n = (n - 1) + 1 BY <2>3
    <3> QED BY <3>1
  <2>5. a \notin Bad BY <2>2, <2>4
  <2>6. Good(a) BY <2>5
  <2> QED BY <1>4, <2>4, <2>6
<1> QED BY <1>1, <1>5
=============================================================================
