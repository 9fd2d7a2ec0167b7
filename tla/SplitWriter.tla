----------------------------- MODULE SplitWriter -----------------------------
(***************************************************************************)
(* pkg/splitwriter: a file that is split, when it is closed, into parts of *)
(* at most maxsize bytes that end with a newline.  A file is the sequence  *)
(* of the stream's bytes it holds, a byte being its position; newlines is  *)
(* where the stream has a line feed.  File 0 is the path the writer was    *)
(* given, file n its part n.                                               *)
(*                                                                         *)
(* Any call of the file system may fail, which ends Close with an error,   *)
(* and the process may die between two of them; in both cases a writer     *)
(* that is opened afterwards finds the files as they were left.            *)
(*                                                                         *)
(* nextSplit takes the name of a part apart with a regular expression that *)
(* begins with \S+ and so drops what stands in front of the last white space. *)
(* What matters of a path is whether there is any in it, and whether it is *)
(* itself called part 0; that it is not called part 1 or more, and that there *)
(* are no files under the names that are so made up, is assumed.           *)
(***************************************************************************)
EXTENDS Integers, Sequences, FiniteSets, FiniteSetsExt

CONSTANTS MaxBytes,   \* bound: length of the stream
          MaxWrite,   \* bound: bytes of one Write
          MaxSize, BufSize,
          MaxBroken   \* bound: failures and crashes

SplitWriterAssumption == /\ {MaxBytes, MaxWrite, MaxSize, MaxBroken} \subseteq Nat
                         /\ BufSize \in 1..MaxSize

VARIABLES fname,     \* the path: "plain", "spaced", "part0"
          newlines,  \* the positions of the line feeds
          written,   \* bytes written so far
          files,     \* the files there are
          split,     \* the open file, or the step of Close: pc, file, size, offset
          broken     \* failures and crashes so far

splitvars == <<fname, newlines, written, files, split, broken>>

Absent == <<-1>>
FileNames == 0..MaxBytes
Exists(n) == n \in FileNames /\ files[n] # Absent
Closed == [pc |-> "closed", file |-> 0, size |-> 0, off |-> 0]

SplitInit ==
    /\ fname \in {"plain", "spaced", "part0"}
    /\ newlines \in SUBSET (1..MaxBytes) /\ written = 0 /\ broken = 0
    /\ files = [n \in FileNames |-> Absent]
    /\ split = Closed

(* The path openSplit makes of that of file n: with white space in it the   *)
(* part behind part 1 has lost its directory, or the beginning of its name. *)
HasNext(n) == Exists(n + 1) /\ (fname = "spaced" => n = 0)

(* New: openSplit picks the last part it finds and opens it for appending,  *)
(* creating the file itself when there is none.  A path called part 0 is    *)
(* refused as an "incorrect split".                                         *)
Open ==
    /\ split.pc = "closed" /\ written < MaxBytes /\ fname # "part0"
    /\ LET n == Min({i \in FileNames : ~HasNext(i)})
       IN  /\ files' = [files EXCEPT ![n] = IF Exists(n) THEN @ ELSE <<>>]
           /\ split' = [Closed EXCEPT !.pc = "open", !.file = n]
    /\ UNCHANGED <<fname, newlines, written, broken>>

Write ==
    /\ split.pc = "open"
    /\ \E k \in 1..MaxWrite :
          /\ written + k <= MaxBytes
          /\ files' = [files EXCEPT ![split.file] = @ \o [i \in 1..k |-> written + i]]
          /\ written' = written + k
    /\ UNCHANGED <<fname, newlines, split, broken>>

Close ==
    /\ split.pc = "open"
    /\ split' = [split EXCEPT !.pc = "find", !.size = Len(files[split.file])]
    /\ UNCHANGED <<fname, newlines, written, files, broken>>

(* findSplitPoint reads windows of bufsize bytes backwards from maxsize and *)
(* takes the last line feed of the first window that has one.               *)
Windows == {Max({0, MaxSize - k * BufSize}) : k \in 1..MaxSize}
LineFeeds(file, from) == {i \in from + 1..from + BufSize : file[i] \in newlines}

(* Fault: the file is cut at maxsize, wherever that is.                     *)
FindSplitPointExact(file) == MaxSize

FindSplitPoint(file) ==
    LET found == {w \in Windows : LineFeeds(file, w) # {}}
    IN  IF found = {} THEN 0 ELSE Max(LineFeeds(file, Max(found)))

(* The file is small enough, cannot be split, or is split at an offset.     *)
CheckSize ==
    /\ split.pc = "find"
    /\ IF split.size <= MaxSize \/ FindSplitPoint(files[split.file]) = 0
       THEN split' = Closed
       ELSE split' = [split EXCEPT !.pc = "create", !.off = FindSplitPoint(files[split.file])]
    /\ UNCHANGED <<fname, newlines, written, files, broken>>

(* The parts the excess is copied to: the first split of a file makes two.  *)
(* doSplit keeps the directory apart, so that every part has its successor, *)
(* though under a shorter name if there is white space in the file's own.   *)
NextFile == IF split.file = 0 THEN 2 ELSE split.file + 1

CreateParts ==
    /\ split.pc = "create"
    /\ NextFile <= MaxBytes                   \* bound: as many parts as bytes
    /\ files' = [n \in FileNames |->
                    IF n \in split.file + 1..NextFile /\ ~Exists(n) THEN <<>> ELSE files[n]]
    /\ split' = [split EXCEPT !.pc = IF split.file = 0 THEN "head" ELSE "tail"]
    /\ UNCHANGED <<fname, newlines, written, broken>>

CopyHead ==
    /\ split.pc = "head"
    /\ files' = [files EXCEPT ![1] = @ \o SubSeq(files[0], 1, split.off)]
    /\ split' = [split EXCEPT !.pc = "tail"]
    /\ UNCHANGED <<fname, newlines, written, broken>>

(* Fault: the file is truncated before its excess has been copied.          *)
CopyTailLate ==
    /\ split.pc = "tail"
    /\ files' = [files EXCEPT ![split.file] =
                    IF split.file = 0 THEN Absent ELSE SubSeq(@, 1, split.off)]
    /\ split' = [split EXCEPT !.pc = "truncate"]
    /\ UNCHANGED <<fname, newlines, written, broken>>

CopyTail ==
    /\ split.pc = "tail"
    /\ files' = [files EXCEPT ![NextFile] =
                    @ \o SubSeq(files[split.file], split.off + 1, Len(files[split.file]))]
    /\ split' = [split EXCEPT !.pc = "truncate"]
    /\ UNCHANGED <<fname, newlines, written, broken>>

(* The excess is truncated only when it has been copied, or the first file  *)
(* removed; the next part may have to be split in turn.                     *)
Conclude ==
    /\ split.pc = "truncate"
    /\ files' = [files EXCEPT ![split.file] =
                    IF split.file = 0 THEN Absent ELSE SubSeq(@, 1, split.off)]
    /\ split' = [split EXCEPT !.pc = "find", !.file = NextFile, !.size = @ - split.off]
    /\ UNCHANGED <<fname, newlines, written, broken>>

(* A call fails and Close returns its error, or the process dies: a copy    *)
(* may have been cut short.                                                 *)
Break ==
    /\ split.pc # "closed" /\ broken < MaxBroken
    /\ \/ UNCHANGED files
       \/ /\ split.pc = "create" /\ ~Exists(split.file + 1)
          /\ files' = [files EXCEPT ![split.file + 1] = <<>>]
       \/ \E k \in 0..MaxBytes :
             LET to == IF split.pc = "head" THEN 1 ELSE NextFile
                 from == IF split.pc = "head" THEN 0 ELSE split.off
                 end == IF split.pc = "head" THEN split.off ELSE Len(files[split.file])
             IN  /\ split.pc \in {"head", "tail"} /\ from + k < end
                 /\ files' = [files EXCEPT ![to] =
                                 @ \o SubSeq(files[split.file], from + 1, from + k)]
    /\ split' = Closed /\ broken' = broken + 1
    /\ UNCHANGED <<fname, newlines, written>>

SplitNext == Open \/ Write \/ Close \/ CheckSize \/ CreateParts \/ CopyHead \/ CopyTail
             \/ Conclude \/ Break
SplitSpec == SplitInit /\ [][SplitNext]_splitvars

SplitTypeOK ==
    /\ written \in 0..MaxBytes /\ broken \in 0..MaxBroken
    /\ \A n \in FileNames : Exists(n) => \A i \in DOMAIN files[n] : files[n][i] \in 1..written
    /\ split.pc \in {"closed", "open", "find", "create", "head", "tail", "truncate"}
    /\ split.file \in FileNames

Parts == {n \in FileNames : Exists(n)}
Concat[n \in -1..MaxBytes] ==
    IF n = -1 THEN <<>> ELSE Concat[n - 1] \o IF Exists(n) THEN files[n] ELSE <<>>

(* No byte is ever lost, whichever call fails and wherever the process      *)
(* dies: every byte written is in one of the files.                         *)
NoByteLost ==
    \A b \in 1..written : \E n \in Parts : b \in {files[n][i] : i \in DOMAIN files[n]}

(* "It will be split in multiple files each of which having at most maxsize *)
(* bytes": as long as nothing fails the parts in their order are the        *)
(* stream, every part but the last one ends a line, and a file that is      *)
(* still too big has no line feed where it could be split.  Not so for a    *)
(* path with white space in it: a writer that is opened on it again         *)
(* appends to part 1 in front of part 2, though nothing has failed.         *)
PartsAreTheStream ==
    broken = 0 /\ fname # "spaced" /\ split.pc = "closed" =>
        /\ Concat[MaxBytes] = [i \in 1..written |-> i]
        /\ \A n \in Parts :
              /\ Exists(n + 1) => files[n][Len(files[n])] \in newlines
              /\ \/ Len(files[n]) <= MaxSize
                 \/ \A i \in 1..MaxSize : files[n][i] \notin newlines
=============================================================================
