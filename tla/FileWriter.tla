----------------------------- MODULE FileWriter -----------------------------
(***************************************************************************)
(* The FileWriter output (output/filewriter.go).  Run hands every record   *)
(* to the worker of its Field0 (a single worker if the path does not use   *)
(* it); a worker writes the lines it is sent to its current file, closes   *)
(* the file, names it on upch and opens the next one at every tick or when *)
(* the file has become too big, and names the last one when Run ends.      *)
(*                                                                         *)
(* A record is its position in the stream; a path is <<key, rotation>>:    *)
(* rule 2 of the help, "Rotation should never generate the same path       *)
(* twice", is taken to be respected by the configuration.                  *)
(*                                                                         *)
(* Between a worker and its file are the compressor and a buffer: what has *)
(* been given to them is only looked at in the file when the file has been *)
(* closed.  Their first error stays with them: every later write and the   *)
(* closing of the file return it again.  All of these errors are logged,   *)
(* and nothing else is done about them.                                    *)
(***************************************************************************)
EXTENDS Integers, Sequences, FiniteSets

CONSTANTS
    Keys,           \* values of Field0, one worker each
    MaxRecs,        \* longest stream (bound of the model)
    MaxRotations,   \* rotations per worker (bound of the model)
    MaxFails,       \* files with an error (bound of the model)
    MaxClosers,     \* runtime.NumCPU()
    RotateInterval, \* is rotation by time enabled?
    RotateSize,     \* is rotation by size enabled?
    DiscardEmptyFiles,
    CreateFails     \* may a file not be created?

FileWriterAssumption ==
    /\ IsFiniteSet(Keys)
    /\ {MaxRecs, MaxRotations, MaxFails} \subseteq Nat /\ MaxClosers \in Nat \ {0}
    /\ {RotateInterval, RotateSize, DiscardEmptyFiles, CreateFails} \subseteq BOOLEAN

Paths == Keys \X (0..MaxRotations)

VARIABLES
    stream,         \* the key of every record the output will be given
    rpc,            \* Run: "recv", "write", "close", "returned"
    taken,          \* records received from the input channel
    totaln,
    runErr,         \* Run returns an error
    in, inClosed,   \* the channel of each worker
    wpc,            \* "none" (no worker yet), "select", "upch", "open", "last", "done"
    rotateIdx, writtenOnce,
    given,          \* path -> the lines its file has been given
    failed,         \* the files for which an error was logged
    exist, disk,    \* the files there are, and the whole lines in them
    handed,         \* the paths sent on upch, in order
    uploader,       \* receiver of upch: "recv", "busy"
    died            \* log.Fatal

runvars == <<stream, rpc, taken, totaln, runErr>>
chvars == <<in, inClosed>>
filevars == <<rotateIdx, writtenOnce, given, failed, exist, disk>>
vars == <<runvars, chvars, wpc, filevars, handed, uploader, died>>

Init ==
    /\ stream \in UNION {[1..n -> Keys] : n \in 0..MaxRecs}
    /\ rpc = "recv" /\ taken = 0 /\ totaln = 0 /\ runErr = FALSE
    /\ in = [k \in Keys |-> <<>>] /\ inClosed = [k \in Keys |-> FALSE]
    /\ wpc = [k \in Keys |-> "none"]
    /\ rotateIdx = [k \in Keys |-> 0] /\ writtenOnce = [k \in Keys |-> FALSE]
    /\ given = [p \in Paths |-> <<>>] /\ failed = {}
    /\ exist = {} /\ disk = [p \in Paths |-> <<>>]
    /\ handed = <<>> /\ uploader = "recv" /\ died = FALSE

CurPath(k) == <<k, rotateIdx[k]>>

\* newFile: os.Create, truncating what is there.
CreateFile(p) == exist' = exist \cup {p} /\ disk' = [disk EXCEPT ![p] = <<>>]

-----------------------------------------------------------------------------
(* Run.                                                                    *)

Workers == {k \in Keys : wpc[k] # "none"}

\* A record arrives; the first one of its key creates the worker, and if that
\* fails no further record is read.
Receive ==
    /\ rpc = "recv" /\ taken < Len(stream)
    /\ taken' = taken + 1
    /\ LET k == stream[taken + 1] IN
         \/ /\ k \in Workers
            /\ rpc' = "write"
            /\ UNCHANGED <<runErr, wpc, exist, disk>>
         \/ /\ k \notin Workers
            /\ CreateFile(CurPath(k))
            /\ wpc' = [wpc EXCEPT ![k] = "select"]
            /\ rpc' = "write" /\ UNCHANGED runErr
         \/ /\ k \notin Workers /\ CreateFails
            /\ rpc' = "close" /\ runErr' = TRUE
            /\ UNCHANGED <<wpc, exist, disk>>
    /\ UNCHANGED <<stream, totaln, chvars, rotateIdx, writtenOnce, given, failed, handed,
                   uploader, died>>

\* Fault: the channel of a worker is taken to be always ready.
WriteToWorkerUnbounded ==
    /\ rpc = "write"
    /\ in' = [in EXCEPT ![stream[taken]] = Append(@, taken)]
    /\ totaln' = totaln + 1
    /\ rpc' = "recv"
    /\ UNCHANGED <<stream, taken, runErr, inClosed, wpc, filevars, handed, uploader,
                   died>>

\* worker.write: fw.in <- req, a channel of capacity 1; then totaln++.
WriteToWorker ==
    /\ rpc = "write"
    /\ LET k == stream[taken] IN in[k] = <<>> /\ in' = [in EXCEPT ![k] = <<taken>>]
    /\ totaln' = totaln + 1
    /\ rpc' = "recv"
    /\ UNCHANGED <<stream, taken, runErr, inClosed, wpc, filevars, handed, uploader,
                   died>>

\* The input channel is closed and drained.
EndOfStream ==
    /\ rpc = "recv" /\ taken = Len(stream)
    /\ rpc' = "close"
    /\ UNCHANGED <<stream, taken, totaln, runErr, chvars, wpc, filevars, handed,
                   uploader, died>>

Closing == {k \in Keys : inClosed[k] /\ wpc[k] # "done"}

\* A goroutine of Run calls worker.Close(), which waits for fw.done.
CloseWorker(k) ==
    /\ rpc = "close" /\ k \in Workers /\ ~inClosed[k]
    /\ Cardinality(Closing) < MaxClosers
    /\ inClosed' = [inClosed EXCEPT ![k] = TRUE]
    /\ UNCHANGED <<runvars, in, wpc, filevars, handed, uploader, died>>

\* wg.Wait(); return err
RunReturn ==
    /\ rpc = "close" /\ \A k \in Workers : wpc[k] = "done"
    /\ rpc' = "returned"
    /\ UNCHANGED <<stream, taken, totaln, runErr, chvars, wpc, filevars, handed,
                   uploader, died>>

-----------------------------------------------------------------------------
(* The goroutine of a worker.                                              *)

MayFail(p) == p \in failed \/ Cardinality(failed) < MaxFails

\* curw.Close() flushes the compressor and the buffer, then rotate() or the
\* deferred function goes on to the send on upch (at pc).  An error leaves the
\* end of the lines out of the file (or none of them, if it comes last); the
\* error of an earlier write leaves out all that was not there before.
CloseFile(k, lines, pc) ==
    LET p == CurPath(k) IN
    /\ \/ /\ p \notin failed /\ UNCHANGED failed
          /\ disk' = [disk EXCEPT ![p] = lines]
       \/ /\ p \notin failed /\ MayFail(p) /\ failed' = failed \cup {p}
          /\ \E n \in 0..Len(lines) : disk' = [disk EXCEPT ![p] = SubSeq(lines, 1, n)]
       \/ p \in failed /\ UNCHANGED <<failed, disk>>
    /\ wpc' = [wpc EXCEPT ![k] = pc]

\* Fault: the check of DiscardEmptyFiles is left out of rotate.
TickAlways(k) ==
    /\ RotateInterval /\ wpc[k] = "select" /\ rotateIdx[k] < MaxRotations
    /\ CloseFile(k, given[CurPath(k)], "upch")
    /\ UNCHANGED <<runvars, chvars, rotateIdx, writtenOnce, given, exist, handed, uploader, died>>

\* <-tick: rotate(), which does nothing for an empty file to be discarded.
Tick(k) ==
    /\ RotateInterval /\ wpc[k] = "select" /\ rotateIdx[k] < MaxRotations
    /\ ~(DiscardEmptyFiles /\ ~writtenOnce[k])
    /\ CloseFile(k, given[CurPath(k)], "upch")
    /\ UNCHANGED <<runvars, chvars, rotateIdx, writtenOnce, given, exist, handed, uploader, died>>

\* A line is not taken by the compressor or its buffer: the lines given before
\* it are in the file up to any point, and nothing will get there any more.
FailWrite(p) ==
    /\ p \notin failed /\ MayFail(p) /\ failed' = failed \cup {p}
    /\ \E n \in 0..Len(given[p]) : disk' = [disk EXCEPT ![p] = SubSeq(given[p], 1, n)]

\* A line arrives and is written, or an error is logged; the file may then have
\* become bigger than RotateSize (what the compressor has let through so far is
\* not a function of the lines).
WriteLine(k) ==
    /\ wpc[k] = "select" /\ in[k] # <<>>
    /\ in' = [in EXCEPT ![k] = <<>>]
    /\ writtenOnce' = [writtenOnce EXCEPT ![k] = TRUE]
    /\ given' = [given EXCEPT ![CurPath(k)] = @ \o in[k]]
    /\ \/ UNCHANGED <<failed, disk, wpc>>
       \/ FailWrite(CurPath(k)) /\ UNCHANGED wpc
       \/ /\ RotateSize /\ rotateIdx[k] < MaxRotations
          /\ CloseFile(k, given'[CurPath(k)], "upch")
    /\ UNCHANGED <<runvars, inClosed, rotateIdx, exist, handed, uploader, died>>

\* upch <- curPath in rotate(), unbuffered; fw.rotateIdx++.
SendPath(k) ==
    /\ wpc[k] = "upch" /\ uploader = "recv"
    /\ handed' = Append(handed, CurPath(k)) /\ uploader' = "busy"
    /\ rotateIdx' = [rotateIdx EXCEPT ![k] = @ + 1]
    /\ wpc' = [wpc EXCEPT ![k] = "open"]
    /\ UNCHANGED <<runvars, chvars, writtenOnce, given, failed, exist, disk, died>>

\* Fault: the rotation count is not part of the path any more: the file that
\* was just named is created anew.
OpenSame(k) ==
    /\ wpc[k] = "open"
    /\ CreateFile(<<k, 0>>)
    /\ writtenOnce' = [writtenOnce EXCEPT ![k] = FALSE]
    /\ wpc' = [wpc EXCEPT ![k] = "select"] /\ UNCHANGED died
    /\ UNCHANGED <<runvars, chvars, rotateIdx, given, failed, handed, uploader>>

\* makePath and newFile for the next file; log.Fatal if it cannot be created.
OpenNext(k) ==
    /\ wpc[k] = "open"
    /\ \/ /\ CreateFile(CurPath(k))
          /\ writtenOnce' = [writtenOnce EXCEPT ![k] = FALSE]
          /\ wpc' = [wpc EXCEPT ![k] = "select"] /\ UNCHANGED died
       \/ /\ CreateFails /\ died' = TRUE
          /\ UNCHANGED <<wpc, writtenOnce, exist, disk>>
    /\ UNCHANGED <<runvars, chvars, rotateIdx, given, failed, handed, uploader>>

\* Fault: line, _ := <-fw.in, so that a closed channel is read for ever.
EndOfLinesSpins(k) ==
    /\ wpc[k] = "select" /\ in[k] = <<>> /\ inClosed[k]
    /\ UNCHANGED vars

\* fw.in is closed and drained: the deferred function closes the last file,
\* and removes it if it is empty and to be discarded; if it cannot be removed
\* there is a warning and the file stays.
EndOfLines(k) ==
    /\ wpc[k] = "select" /\ in[k] = <<>> /\ inClosed[k]
    /\ LET p == CurPath(k) IN
       \/ /\ writtenOnce[k] \/ ~DiscardEmptyFiles
          /\ CloseFile(k, given[p], "last") /\ UNCHANGED exist
       \/ /\ ~writtenOnce[k] /\ DiscardEmptyFiles
          /\ CloseFile(k, given[p], "done") /\ exist' = exist \ {p}
       \/ /\ ~writtenOnce[k] /\ DiscardEmptyFiles /\ MayFail(p)
          /\ failed' = failed \cup {p} /\ wpc' = [wpc EXCEPT ![k] = "done"]
          /\ UNCHANGED <<exist, disk>>
    /\ UNCHANGED <<runvars, chvars, rotateIdx, writtenOnce, given, handed, uploader, died>>

\* upch <- curPath, close(fw.done).
SendLast(k) ==
    /\ wpc[k] = "last" /\ uploader = "recv"
    /\ handed' = Append(handed, CurPath(k)) /\ uploader' = "busy"
    /\ wpc' = [wpc EXCEPT ![k] = "done"]
    /\ UNCHANGED <<runvars, chvars, filevars, died>>

\* The uploader has dealt with a path and receives the next one.
UploaderReady ==
    /\ uploader = "busy"
    /\ uploader' = "recv"
    /\ UNCHANGED <<runvars, chvars, wpc, filevars, handed, died>>

-----------------------------------------------------------------------------
RunStep == \/ Receive \/ WriteToWorker \/ EndOfStream
           \/ (\E k \in Keys : CloseWorker(k)) \/ RunReturn
Drain(k) == \/ WriteLine(k) \/ SendPath(k) \/ OpenNext(k) \/ EndOfLines(k) \/ SendLast(k)
Terminated == (rpc = "returned" \/ died) /\ UNCHANGED vars

Step == \/ RunStep
        \/ \E k \in Keys : Drain(k) \/ Tick(k)
        \/ UploaderReady

Next == (~died /\ Step) \/ Terminated

Spec == Init /\ [][Next]_vars

\* Goroutines that are not blocked run.  The workers compete for upch, whose
\* waiting senders are served in order; a select with a line or a closed
\* channel ready is not lost to the ticker for ever.
Fairness ==
    /\ WF_vars(~died /\ RunStep) /\ WF_vars(~died /\ UploaderReady)
    /\ \A k \in Keys : /\ WF_vars(~died /\ Drain(k))
                       /\ SF_vars(~died /\ (SendPath(k) \/ SendLast(k)))
                       /\ SF_vars(~died /\ (WriteLine(k) \/ EndOfLines(k)))

FairSpec == Spec /\ Fairness

-----------------------------------------------------------------------------
(* Properties.                                                             *)

TypeOK ==
    /\ stream \in Seq(Keys) /\ rpc \in {"recv", "write", "close", "returned"}
    /\ taken \in 0..Len(stream) /\ totaln \in 0..taken /\ runErr \in BOOLEAN
    /\ in \in [Keys -> Seq(Nat)] /\ inClosed \in [Keys -> BOOLEAN]
    /\ \A k \in Keys : Len(in[k]) <= 1
    /\ wpc \in [Keys -> {"none", "select", "upch", "open", "last", "done"}]
    /\ rotateIdx \in [Keys -> 0..MaxRotations] /\ writtenOnce \in [Keys -> BOOLEAN]
    /\ given \in [Paths -> Seq(Nat)] /\ failed \subseteq Paths
    /\ exist \subseteq Paths /\ disk \in [Paths -> Seq(Nat)]
    /\ handed \in Seq(Paths) /\ uploader \in {"recv", "busy"}
    /\ died \in BOOLEAN

Handed == {handed[i] : i \in DOMAIN handed}

Lines(s) == {s[i] : i \in DOMAIN s}

\* The lines of key k that the files the uploader was told of have been given.
Written(k) == UNION {Lines(given[handed[i]]) : i \in {j \in DOMAIN handed : handed[j][1] = k}}

\* The records of key k that Run has passed on.
Accepted(k) == {i \in 1..totaln : stream[i] = k}

\* The lines of key k rise from the first file that was named to the last one.
InOrder(k) ==
    \A i, j \in DOMAIN handed :
        \A a \in DOMAIN given[handed[i]], b \in DOMAIN given[handed[j]] :
            handed[i][1] = k /\ handed[j][1] = k /\ (i < j \/ (i = j /\ a < b))
                => given[handed[i]][a] < given[handed[j]][b]

\* s is the beginning of t.
BeginningOf(s, t) == Len(s) <= Len(t) /\ \A i \in 1..Len(s) : s[i] = t[i]

\* However ticks, full files, errors and the end of the stream interleave: when
\* Run has returned, the files named on upch have been given, key by key, exactly
\* the records Run was, each once and in the order of the stream.  What is in a
\* file is what it was given, unless an error was logged for it: then its last
\* lines may be missing, and only those, though its path is sent all the same
\* (filewriter.go:278-282).
NothingLost ==
    rpc = "returned" =>
        /\ \A k \in Keys : Written(k) = Accepted(k) /\ InOrder(k)
        /\ \A p \in Handed : /\ BeginningOf(disk[p], given[p])
                             /\ p \notin failed => disk[p] = given[p]

\* A file is complete when its path is sent on upch: from then on (the uploader
\* may move it away) the FileWriter never touches it again.
HandedFilesAreFinal ==
    [][\A i \in DOMAIN handed : disk'[handed[i]] = disk[handed[i]]]_vars

\* No file is named twice.  When Run returns every file that was named is there,
\* and no other one is, but an empty file whose removal has failed (a warning,
\* filewriter.go:332).  With DiscardEmptyFiles, "rotation is skipped if the file
\* would be empty", none that is named is empty, if its writes have not failed.
FilesAccountedFor ==
    /\ \A i, j \in DOMAIN handed : i # j => handed[i] # handed[j]
    /\ rpc = "returned" =>
         /\ Handed \subseteq exist
         /\ \A p \in exist \ Handed : DiscardEmptyFiles /\ p \in failed /\ given[p] = <<>>
    /\ DiscardEmptyFiles => \A p \in Handed : disk[p] # <<>> \/ p \in failed

\* The output terminates when its input channel is closed, as Wait() needs,
\* with workers that compete for the uploader and go on rotating.
RunReturns == <>(rpc = "returned" \/ died)
=============================================================================
