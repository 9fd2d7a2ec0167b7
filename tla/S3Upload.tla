------------------------------ MODULE S3Upload ------------------------------
(***************************************************************************)
(* The S3 uploader (upload/s3.go): Run moves every file it is told of into *)
(* the staging directory; a second goroutine scans that directory at every *)
(* tick, and one last time before Run returns, and uploads what it finds   *)
(* with at most Concurrency uploads at a time.                             *)
(*                                                                         *)
(* A file is its path; the outputs never send the same path twice (rule 2  *)
(* of the FileWriter's help).  Files a previous run of the process left in *)
(* the staging directory are there from the beginning.                     *)
(***************************************************************************)
EXTENDS Integers, FiniteSets

CONSTANTS
    Files,
    NoFile,
    Retries,        \* attempts per file and scan
    MaxConcurrency, \* largest Concurrency to consider
    ExitOnErrors,   \* the values of ExitOnError to consider
    ErrChCap,       \* capacity of errCh (1)
    MaxFails        \* failing moves, uploads and removals (bound of the model)

S3Assumption ==
    /\ IsFiniteSet(Files) /\ NoFile \notin Files
    /\ Retries \in Nat \ {0} /\ MaxConcurrency \in Nat \ {0}
    /\ ExitOnErrors \subseteq BOOLEAN /\ ErrChCap \in Nat /\ MaxFails \in Nat

VARIABLES
    exitOnError,    \* Cfg.ExitOnError
    concurrency,    \* Cfg.Concurrency, the size of the semaphore
    unsent,         \* files the outputs have still to send on upch
    upchClosed,
    rpc, rfile,     \* Run: "select", "move", "stop", "returned", and the file it moves
    result,         \* what Run returns: "none" yet, "nil", "error"
    source,         \* files received but left where the output wrote them
    staging, bucket,
    gpc,            \* upload goroutine: "select", "walk", "wait", "senderr", "done"
    last,           \* the scan is the one of the deferred function
    start,          \* files in the staging directory when the scan began
    visited,        \* files the walk has come across
    gfile,          \* the file the walk callback waits to start an upload for
    walkErr,        \* filepath.Walk has returned an error
    exitErr,        \* exitErr of the current (or last) scan
    up,             \* per file: "idle", "check", "put", "remove"
    tries,
    gaveUp,         \* files given up in the current (or last) scan
    quit,           \* quit is closed
    errCh,          \* errors in errCh
    totaln, totalerr, queuedn,
    fails           \* failures so far

runvars == <<rpc, rfile, result, source, quit>>
scanvars == <<last, start, visited, gfile, walkErr>>
upvars == <<exitErr, up, tries, gaveUp>>
counters == <<totaln, totalerr, queuedn>>
config == <<exitOnError, concurrency>>
env == <<config, upchClosed>>
vars == <<unsent, env, runvars, staging, bucket, gpc, scanvars, upvars,
          errCh, counters, fails>>

Init ==
    /\ \E leftover \in SUBSET Files : staging = leftover /\ unsent = Files \ leftover
    /\ exitOnError \in ExitOnErrors /\ concurrency \in 1..MaxConcurrency
    /\ upchClosed = FALSE
    /\ rpc = "select" /\ rfile = NoFile /\ result = "none" /\ source = {}
    /\ bucket = {}
    /\ gpc = "select" /\ last = FALSE /\ start = {} /\ visited = {} /\ gfile = NoFile
    /\ walkErr = FALSE /\ exitErr = FALSE
    /\ up = [f \in Files |-> "idle"] /\ tries = [f \in Files |-> 0] /\ gaveUp = {}
    /\ quit = FALSE /\ errCh = 0
    /\ totaln = 0 /\ totalerr = 0 /\ queuedn = 0
    /\ fails = 0

MayFail == fails < MaxFails
Failing == MayFail /\ fails' = fails + 1

-----------------------------------------------------------------------------
(* Run and Stop.                                                           *)

\* Wait() closes upch when the outputs have returned.
CloseUpch ==
    /\ ~upchClosed /\ unsent = {}
    /\ upchClosed' = TRUE
    /\ UNCHANGED <<config, unsent, runvars, staging, bucket, gpc, scanvars, upvars,
                   errCh, counters, fails>>

\* An output sends a path: upch is unbuffered.
ReceivePath(f) ==
    /\ rpc = "select" /\ f \in unsent
    /\ unsent' = unsent \ {f}
    /\ rpc' = "move" /\ rfile' = f
    /\ UNCHANGED <<env, result, source, quit, staging, bucket, gpc, scanvars,
                   upvars, errCh, counters, fails>>

\* move: rename into the staging directory; counted whether it succeeds or not.
Move ==
    /\ rpc = "move"
    /\ totaln' = totaln + 1 /\ queuedn' = queuedn + 1
    /\ \/ /\ staging' = staging \cup {rfile} /\ rpc' = "select"
          /\ UNCHANGED <<source, result, quit, fails>>
       \/ /\ Failing
          /\ source' = source \cup {rfile} /\ UNCHANGED staging
          /\ IF exitOnError
             THEN rpc' = "stop" /\ result' = "error" /\ quit' = TRUE
             ELSE rpc' = "select" /\ UNCHANGED <<result, quit>>
    /\ rfile' = NoFile
    /\ UNCHANGED <<unsent, env, bucket, gpc, scanvars, upvars, errCh, totalerr>>

\* Run ends, with the scan's error or because upch is closed; the deferred
\* Stop() closes quit...
EndRun ==
    /\ rpc = "select"
    /\ \/ errCh > 0 /\ errCh' = errCh - 1 /\ result' = "error"
       \/ upchClosed /\ UNCHANGED errCh /\ result' = "nil"
    /\ rpc' = "stop" /\ quit' = TRUE
    /\ UNCHANGED <<unsent, env, rfile, source, staging, bucket, gpc, scanvars,
                   upvars, counters, fails>>

\* ... and waits for the upload goroutine.
ReturnRun ==
    /\ rpc = "stop" /\ gpc = "done"
    /\ rpc' = "returned"
    /\ UNCHANGED <<unsent, env, rfile, result, source, quit, staging, bucket,
                   gpc, scanvars, upvars, errCh, counters, fails>>

-----------------------------------------------------------------------------
(* The upload goroutine and uploadDirectory.                               *)

BeginScan(isLast) ==
    /\ gpc' = "walk" /\ last' = isLast
    /\ start' = staging /\ visited' = {} /\ walkErr' = FALSE
    /\ exitErr' = FALSE /\ gaveUp' = {}
    /\ UNCHANGED <<unsent, env, runvars, staging, bucket, gfile, up, tries,
                   errCh, counters, fails>>

\* <-ticker.C
Tick == gpc = "select" /\ BeginScan(FALSE)

\* Fault: case <-u.quit: return, without the deferred last upload.
QuitWithoutScan ==
    /\ gpc = "select" /\ quit
    /\ gpc' = "done"
    /\ UNCHANGED <<unsent, env, runvars, staging, bucket, scanvars, upvars,
                   errCh, counters, fails>>

\* <-u.quit, and the deferred last upload
SeeQuit == gpc = "select" /\ quit /\ BeginScan(TRUE)

\* The walk comes across f.  A file moved in while the walk is under way may
\* or may not be seen by it.
Visit(f) ==
    /\ gpc = "walk" /\ gfile = NoFile /\ f \in staging \ visited /\ ~exitErr
    /\ visited' = visited \cup {f} /\ gfile' = f
    /\ UNCHANGED <<unsent, env, runvars, staging, bucket, gpc, last, start,
                   walkErr, upvars, errCh, counters, fails>>

Active == {f \in Files : up[f] # "idle"}

\* sem.incr() has found room: the goroutine for the file starts.
StartUpload ==
    /\ gpc = "walk" /\ gfile # NoFile /\ Cardinality(Active) < concurrency
    /\ up' = [up EXCEPT ![gfile] = "check"] /\ tries' = [tries EXCEPT ![gfile] = 0]
    /\ gfile' = NoFile
    /\ UNCHANGED <<unsent, env, runvars, staging, bucket, gpc, last, start,
                   visited, walkErr, exitErr, gaveUp, errCh, counters, fails>>

\* The walk ends: every file that was there has been visited, or the callback
\* has noticed exitErr at a further file.
EndWalk ==
    /\ gpc = "walk" /\ gfile = NoFile
    /\ \/ start \cap staging \subseteq visited /\ UNCHANGED walkErr
       \/ exitErr /\ staging \ visited # {} /\ walkErr' = TRUE
    /\ gpc' = "wait"
    /\ UNCHANGED <<unsent, env, runvars, staging, bucket, last, start, visited,
                   gfile, upvars, errCh, counters, fails>>

\* wg.Wait(); the error of a periodic scan goes to Run if ExitOnError.
EndScan ==
    /\ gpc = "wait" /\ Active = {}
    /\ gpc' = IF last THEN "done"
              ELSE IF walkErr /\ exitOnError THEN "senderr" ELSE "select"
    /\ UNCHANGED <<unsent, env, runvars, staging, bucket, scanvars, upvars,
                   errCh, counters, fails>>

\* errCh <- err; return: the deferred function scans one last time.
SendErr ==
    /\ gpc = "senderr" /\ errCh < ErrChCap
    /\ errCh' = errCh + 1
    /\ gpc' = "walk" /\ last' = TRUE
    /\ start' = staging /\ visited' = {} /\ walkErr' = FALSE
    /\ exitErr' = FALSE /\ gaveUp' = {}
    /\ UNCHANGED <<unsent, env, runvars, staging, bucket, gfile, up, tries,
                   counters, fails>>

-----------------------------------------------------------------------------
(* The goroutine that uploads one file: s3UploadFile with retries.         *)

\* if exitErr.Load() != nil { return }, before every attempt
CheckExit(f) ==
    /\ up[f] = "check"
    /\ up' = [up EXCEPT ![f] = IF exitErr THEN "idle" ELSE "put"]
    /\ UNCHANGED <<unsent, env, runvars, staging, bucket, gpc, scanvars, exitErr,
                   tries, gaveUp, errCh, counters, fails>>

PutObject(f) ==
    /\ up[f] = "put"
    /\ bucket' = bucket \cup {f}
    /\ up' = [up EXCEPT ![f] = "remove"]
    /\ UNCHANGED <<unsent, env, runvars, staging, gpc, scanvars, exitErr, tries,
                   gaveUp, errCh, counters, fails>>

RemoveFile(f) ==
    /\ up[f] = "remove"
    /\ staging' = staging \ {f}
    /\ up' = [up EXCEPT ![f] = "idle"] /\ queuedn' = queuedn - 1
    /\ UNCHANGED <<unsent, env, runvars, bucket, gpc, scanvars, exitErr, tries,
                   gaveUp, errCh, totaln, totalerr, fails>>

\* Opening, uploading or removing the file fails.
FailUpload(f) ==
    /\ up[f] \in {"put", "remove"} /\ Failing
    /\ totalerr' = totalerr + 1 /\ tries' = [tries EXCEPT ![f] = @ + 1]
    /\ \/ /\ exitOnError
          /\ exitErr' = TRUE /\ up' = [up EXCEPT ![f] = "idle"]
          /\ UNCHANGED <<queuedn, gaveUp>>
       \/ /\ ~exitOnError /\ tries[f] + 1 < Retries
          /\ up' = [up EXCEPT ![f] = "check"]
          /\ UNCHANGED <<exitErr, queuedn, gaveUp>>
       \/ /\ ~exitOnError /\ tries[f] + 1 = Retries
          /\ up' = [up EXCEPT ![f] = "idle"]
          /\ queuedn' = queuedn - 1 /\ gaveUp' = gaveUp \cup {f}
          /\ UNCHANGED exitErr
    /\ UNCHANGED <<unsent, env, runvars, staging, bucket, gpc, scanvars, errCh,
                   totaln>>

-----------------------------------------------------------------------------
RunStep == (\E f \in Files : ReceivePath(f)) \/ Move \/ EndRun \/ ReturnRun
ScanStep == \/ SeeQuit \/ (\E f \in Files : Visit(f)) \/ StartUpload \/ EndWalk
            \/ EndScan \/ SendErr
FileStep(f) == CheckExit(f) \/ PutObject(f) \/ RemoveFile(f) \/ FailUpload(f)

Terminated == rpc = "returned" /\ UNCHANGED vars

Next == \/ CloseUpch
        \/ RunStep
        \/ Tick
        \/ ScanStep
        \/ \E f \in Files : FileStep(f)
        \/ Terminated

Spec == Init /\ [][Next]_vars

\* Every goroutine that is not blocked runs; the select of the upload
\* goroutine picks among its ready cases at random, so that a closed quit is
\* not overlooked for ever.
Fairness ==
    /\ WF_vars(RunStep) /\ WF_vars(Tick) /\ WF_vars(ScanStep) /\ SF_vars(SeeQuit)
    /\ \A f \in Files : WF_vars(FileStep(f))

FairSpec == Spec /\ Fairness

-----------------------------------------------------------------------------
(* Properties.                                                             *)

TypeOK ==
    /\ exitOnError \in ExitOnErrors /\ concurrency \in 1..MaxConcurrency
    /\ unsent \subseteq Files /\ upchClosed \in BOOLEAN
    /\ rpc \in {"select", "move", "stop", "returned"} /\ rfile \in Files \cup {NoFile}
    /\ result \in {"none", "nil", "error"}
    /\ source \subseteq Files /\ staging \subseteq Files /\ bucket \subseteq Files
    /\ gpc \in {"select", "walk", "wait", "senderr", "done"} /\ last \in BOOLEAN
    /\ start \subseteq Files /\ visited \subseteq Files /\ gfile \in Files \cup {NoFile}
    /\ walkErr \in BOOLEAN /\ exitErr \in BOOLEAN /\ gaveUp \subseteq Files
    /\ up \in [Files -> {"idle", "check", "put", "remove"}]
    /\ tries \in [Files -> 0..Retries]
    /\ quit \in BOOLEAN /\ errCh \in 0..ErrChCap
    /\ totaln \in Nat /\ totalerr \in Nat /\ queuedn \in Int /\ fails \in 0..MaxFails
    /\ Cardinality(Active) <= concurrency

\* A file the uploader was given is never lost: it is where the output wrote
\* it, on its way, in the staging directory (also of a previous run) or in
\* the bucket, and leaves the staging directory only for the bucket.
NoFileLost == Files \subseteq unsent \cup {rfile} \cup source \cup staging \cup bucket

\* "The last upload": when Run returns because upch was closed, every file it
\* had received has been through a scan begun after that; what is left in the
\* staging directory was tried Retries times in it.
LastUploadComplete ==
    rpc = "returned" /\ result = "nil" /\ ~exitOnError => staging \subseteq gaveUp

\* No upload is under way any more when Run returns.
NoUploadLeftBehind == rpc = "returned" => Active = {} /\ gfile = NoFile

\* Once upch is closed, or an error has been reported to Run, Run returns.
RunReturns == (upchClosed \/ errCh > 0) ~> (rpc = "returned")

\* ExitOnError, "Exit at first error, instead of logging all errors": the
\* upload goroutine does not go back to waiting for a tick after a scan in
\* which an upload has failed.
ExitsAtFirstError == exitOnError /\ exitErr => gpc # "select"
=============================================================================
