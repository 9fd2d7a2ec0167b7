---------------------------- MODULE ChunkReader ----------------------------
(***************************************************************************)
(* How parseFileTyped (input/inpututils/compressedstream.go) cuts one file *)
(* into buffers of whole lines: it reads what the decompressor gives, up   *)
(* to kChunkBuffer - kMaxLineLength bytes, and completes the last line; a  *)
(* line that does not fit is sent in a buffer of its own.                  *)
(*                                                                         *)
(* A file is a sequence of bytes of which only the newlines matter, so it  *)
(* is given by its length and the positions of its newlines.  A buffer is  *)
(* the interval <<from, to>> of the bytes from+1 .. to that it holds.      *)
(***************************************************************************)
EXTENDS Integers, Sequences

CONSTANTS
    MaxSize,        \* longest file (bound of the model)
    ChunkBuffer,    \* kChunkBuffer
    MaxLine         \* kMaxLineLength

ChunkReaderAssumption ==
    /\ MaxSize \in Nat
    /\ MaxLine \in Nat \ {0} /\ ChunkBuffer \in Nat /\ ChunkBuffer > MaxLine

VARIABLES
    size, newlines, \* the file
    pos,            \* bytes consumed from rbuf
    sent,           \* the buffers sent, in order
    stopping,       \* Stop() has set the flag
    rpc             \* "read", "eof", "stopped", "error"

file == <<size, newlines>>
vars == <<size, newlines, pos, sent, stopping, rpc>>

Init ==
    /\ size \in 0..MaxSize /\ newlines \in SUBSET (1..size)
    /\ pos = 0 /\ sent = <<>> /\ stopping = FALSE /\ rpc = "read"

\* Fault: the index of the newline itself, -1 when there is none.
LineStartAtNewline(n) ==
    LET ends == {i \in newlines : pos < i /\ i <= pos + n}
    IN  (IF ends = {} THEN pos ELSE CHOOSE i \in ends : \A j \in ends : j <= i) - 1

\* bytes.LastIndexByte(Bytes[:n], '\n') + 1: where the line that is still open
\* after the first n bytes read begins.
LineStart(n) ==
    LET ends == {i \in newlines : pos < i /\ i <= pos + n}
    IN  IF ends = {} THEN pos ELSE CHOOSE i \in ends : \A j \in ends : j <= i

\* rbuf.ReadBytes('\n') after n bytes: where it stops, 0 when it meets io.EOF.
LineEnd(n) ==
    LET ends == {i \in newlines : i > pos + n}
    IN  IF ends = {} THEN 0 ELSE CHOOSE i \in ends : \A j \in ends : i <= j

\* Fault: one byte too many is taken to fit.
CompleteOffByOne(n, e) ==
    IF e - pos > ChunkBuffer + 1
    THEN <<<<LineStart(n), e>>, <<pos, LineStart(n)>>>>
    ELSE <<<<pos, e>>>>

\* What is sent for a chunk of n bytes that ends inside a line ending at e.
Complete(n, e) ==
    IF e - pos > ChunkBuffer
    THEN <<<<LineStart(n), e>>, <<pos, LineStart(n)>>>>
    ELSE <<<<pos, e>>>>

\* One turn of the loop; rbuf.Read returns any number of bytes from 1 on.
ReadChunk(n) ==
    /\ rpc = "read" /\ ~stopping
    /\ n <= ChunkBuffer - MaxLine /\ pos + n <= size
    /\ \/ /\ pos + n \in newlines
          /\ sent' = Append(sent, <<pos, pos + n>>)
          /\ pos' = pos + n /\ UNCHANGED rpc
       \/ /\ pos + n \notin newlines /\ LineEnd(n) # 0
          /\ sent' = sent \o Complete(n, LineEnd(n))
          /\ pos' = LineEnd(n) /\ UNCHANGED rpc
       \/ /\ pos + n \notin newlines /\ LineEnd(n) = 0
          /\ rpc' = "error" /\ pos' = size /\ UNCHANGED sent
    /\ UNCHANGED <<file, stopping>>

\* io.EOF: the (empty) rest is sent.
ReadEOF ==
    /\ rpc = "read" /\ ~stopping /\ pos = size
    /\ sent' = Append(sent, <<pos, pos>>)
    /\ rpc' = "eof"
    /\ UNCHANGED <<file, pos, stopping>>

\* Read or ReadBytes fails on a truncated or corrupt file: what was read in
\* this turn of the loop is given up.
ReadError ==
    /\ rpc = "read" /\ ~stopping /\ pos < size
    /\ rpc' = "error"
    /\ UNCHANGED <<file, pos, sent, stopping>>

SeeStopping ==
    /\ rpc = "read" /\ stopping
    /\ rpc' = "stopped"
    /\ UNCHANGED <<file, pos, sent, stopping>>

Stop == ~stopping /\ stopping' = TRUE /\ UNCHANGED <<file, pos, sent, rpc>>

Terminated == rpc # "read" /\ UNCHANGED vars

Next == \/ \E n \in 1..MaxSize : ReadChunk(n)
        \/ ReadEOF \/ ReadError \/ SeeStopping \/ Stop \/ Terminated

Spec == Init /\ [][Next]_vars

-----------------------------------------------------------------------------
(* Properties.                                                             *)

TypeOK ==
    /\ size \in 0..MaxSize /\ newlines \subseteq 1..size
    /\ pos \in 0..size
    /\ \A i \in DOMAIN sent : sent[i][1] \in 0..size /\ sent[i][2] \in sent[i][1]..size
    /\ stopping \in BOOLEAN /\ rpc \in {"read", "eof", "stopped", "error"}

Bytes(b) == (b[1] + 1)..b[2]
SentBytes == UNION {Bytes(sent[i]) : i \in DOMAIN sent}

\* "sending truncated lines would generate parsing errors": every buffer
\* begins at the start of a line and ends behind a newline.
WholeLines ==
    \A i \in DOMAIN sent :
        sent[i][1] < sent[i][2] =>
            /\ sent[i][1] \in newlines \cup {0}
            /\ sent[i][2] \in newlines

\* No byte of the file is sent twice, whatever path its line took.
NoByteTwice ==
    \A i, j \in DOMAIN sent : i # j => Bytes(sent[i]) \cap Bytes(sent[j]) = {}

\* A buffer is longer than kChunkBuffer only if it is one single line: copying
\* the end of a line never runs over the buffer it is copied to.
FitsBuffer ==
    \A i \in DOMAIN sent :
        sent[i][2] - sent[i][1] > ChunkBuffer =>
            \A k \in newlines : ~(sent[i][1] < k /\ k < sent[i][2])

\* Up to the last newline nothing is skipped: what was consumed was sent,
\* even when the file is given up or Stop() comes in between.
NothingSkipped ==
    rpc # "error" => SentBytes = 1..pos

\* "EOFs will be handled back when we begin the loop again": reading a file
\* with no newline behind its last line loses no complete line.
EOFHandled ==
    rpc = "error" /\ pos = size =>
        \A k \in newlines : k \in SentBytes
=============================================================================
