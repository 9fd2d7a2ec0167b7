----------------------------- MODULE ListInput -----------------------------
(***************************************************************************)
(* The List input (input/list.go) on top of CompressedInput                *)
(* (input/inpututils/compressedstream.go): Run walks the configured        *)
(* entries and enqueues files, a fixed number of workers takes them from   *)
(* the queue, opens and reads them chunk by chunk and sends every chunk to *)
(* the filters, and whoever meets a fatal error or calls Stop() raises the *)
(* stop flag exactly once.                                                 *)
(*                                                                         *)
(* A chunk is <<file, k>>.  What a file does when it is touched is chosen  *)
(* once and for all in health: "ok"; "nosize": os.Stat, HEAD... fails;     *)
(* "noopen": its size is known but it cannot be opened; "corrupt": reading *)
(* fails on its last chunk; "notgzip": it does not begin like a gzip file. *)
(***************************************************************************)
EXTENDS Integers, Sequences, FiniteSets

CONSTANTS
    Files,
    Configs,        \* values of Cfg.Files: sequences of [kind, files]
    Chunks,         \* Chunks[f]: buffers file f is sent in (bound of the model)
    Healths,        \* what files may do when touched
    Workers,        \* the goroutines started by NewCompressedInput (4)
    QueueCap,       \* capacity of the files channel (1024)
    InCap,          \* capacity of the topology's inch
    Producer, User, \* the goroutine in Run, and the caller of Stop()
    None

Kinds == {"file", "dir", "list", "badlist", "stdin"}
Actors == Workers \cup {Producer, User}

ASSUME ListInputAssumption ==
    /\ Configs \subseteq Seq([kind : Kinds, files : Seq(Files)])
    /\ Chunks \in [Files -> Nat \ {0}]
    /\ Healths \subseteq {"ok", "nosize", "noopen", "notgzip", "corrupt"}
    /\ IsFiniteSet(Workers) /\ Workers # {} /\ None \notin Actors
    /\ Producer # User /\ {Producer, User} \cap Workers = {}
    /\ QueueCap \in Nat \ {0} /\ InCap \in Nat \ {0}

VARIABLES
    entries,        \* Cfg.Files
    health,
    ppc,            \* where Run is: "item", "enqueue", "fatal", "check", "close", "wait", "returned"
    ent, item,      \* current entry, current item of a directory or list
    runErr,         \* Run has returned an error
    files,          \* the queue of files
    filesClosed,
    upc,            \* the caller of Stop(): "idle", "fatal", "done"
    oncepc,         \* stopOnce: "idle", "close", "flag", "done"
    fatalErr,       \* an error is stored
    stopNow,        \* the channel is closed
    stopping,       \* the flag is set
    died,           \* how the process ended: "no", "fatal" (log.Fatal), "panic"
    wpc, wfile, wchunk,
    doneClosed,     \* ci.Done is closed
    inch,           \* buffers on the topology's channel
    sent            \* every chunk ever sent on it, in order

world == <<entries, health>>
prodvars == <<ppc, ent, item, runErr, filesClosed>>
stopvars == <<oncepc, fatalErr, stopNow, stopping>>
workvars == <<wpc, wfile, wchunk>>
vars == <<world, prodvars, files, upc, stopvars, workvars, doneClosed, inch, sent, died>>

Init ==
    /\ entries \in Configs /\ health \in [Files -> Healths]
    /\ ppc = (IF entries = <<>> THEN "close" ELSE "item") /\ ent = 1 /\ item = 1
    /\ runErr = FALSE
    /\ files = <<>> /\ filesClosed = FALSE
    /\ upc = "idle" /\ oncepc = "idle" /\ fatalErr = FALSE
    /\ stopNow = FALSE /\ stopping = FALSE /\ died = "no"
    /\ wpc = [w \in Workers |-> "select"]
    /\ wfile = [w \in Workers |-> None] /\ wchunk = [w \in Workers |-> 0]
    /\ doneClosed = FALSE
    /\ inch = 0 /\ sent = <<>>

-----------------------------------------------------------------------------
(* Run: the goroutine that enqueues files.                                 *)

Kind == entries[ent].kind
Items == entries[ent].files

\* processFileOrList, processList, ProcessDirectory: ask for the size of the
\* next file.  A failing Sizer has called setFatalErr; ProcessFile's own
\* result is ignored.
NextFile ==
    /\ ppc = "item" /\ item <= Len(Items)
    /\ IF health[Items[item]] = "nosize"
       THEN ppc' = "fatal" /\ item' = item + 1
       ELSE ppc' = "enqueue" /\ UNCHANGED item
    /\ UNCHANGED <<world, ent, runErr, filesClosed, files, upc, stopvars, workvars,
                   doneClosed, inch, sent, died>>

\* A list that cannot be read, or an S3 listing that fails on a further page.
BadList ==
    /\ ppc = "item" /\ Kind = "badlist" /\ item = Len(Items) + 1
    /\ ppc' = "fatal" /\ item' = item + 1
    /\ UNCHANGED <<world, ent, runErr, filesClosed, files, upc, stopvars, workvars,
                   doneClosed, inch, sent, died>>

\* The entry is exhausted, or (in the selects of processListFile and of the
\* S3 listing, never in the walk of a directory) ci.Done ends it.
EndOfEntry ==
    /\ ppc = "item"
    /\ \/ item > Len(Items) /\ Kind \notin {"stdin", "badlist"}
       \/ item > Len(Items) + 1 /\ Kind = "badlist"
       \/ Kind \in {"list", "badlist", "stdin"} /\ doneClosed
    /\ ppc' = "check"
    /\ UNCHANGED <<world, ent, item, runErr, filesClosed, files, upc, stopvars, workvars,
                   doneClosed, inch, sent, died>>

\* ProcessFile: s.files <- fn, which blocks while the queue is full.
Enqueue ==
    /\ ppc = "enqueue" /\ Len(files) < QueueCap
    /\ files' = Append(files, Items[item])
    /\ item' = item + 1 /\ ppc' = "item"
    /\ UNCHANGED <<world, ent, runErr, filesClosed, upc, stopvars, workvars, doneClosed,
                   inch, sent, died>>

\* After each entry: go on unless a fatal error has been stored.
CheckFatal ==
    /\ ppc = "check"
    /\ IF fatalErr \/ ent = Len(entries)
       THEN ppc' = "close" /\ UNCHANGED <<ent, item>>
       ELSE ppc' = "item" /\ ent' = ent + 1 /\ item' = 1
    /\ UNCHANGED <<world, runErr, filesClosed, files, upc, stopvars, workvars, doneClosed,
                   inch, sent, died>>

NoMoreFiles ==
    /\ ppc = "close"
    /\ filesClosed' = TRUE /\ ppc' = "wait"
    /\ UNCHANGED <<world, ent, item, runErr, files, upc, stopvars, workvars, doneClosed,
                   inch, sent, died>>

\* Fault: a fatal error makes Run return without waiting for the workers.
RunReturnOnError ==
    /\ ppc = "wait" /\ (doneClosed \/ fatalErr)
    /\ ppc' = "returned" /\ runErr' = fatalErr
    /\ UNCHANGED <<world, ent, item, filesClosed, files, upc, stopvars, workvars,
                   doneClosed, inch, sent, died>>

\* <-s.ci.Done, then return the stored error, if any.
RunReturn ==
    /\ ppc = "wait" /\ doneClosed
    /\ ppc' = "returned" /\ runErr' = fatalErr
    /\ UNCHANGED <<world, ent, item, filesClosed, files, upc, stopvars, workvars,
                   doneClosed, inch, sent, died>>

-----------------------------------------------------------------------------
(* setFatalErr and CompressedInput.Stop.                                   *)

InFatal(a) == \/ a = Producer /\ ppc = "fatal"
              \/ a = User /\ upc = "fatal"
              \/ a \in Workers /\ wpc[a] = "fatal"

\* Actor a comes back from setFatalErr.
LeaveFatal(a) ==
    /\ ppc' = IF a = Producer THEN "item" ELSE ppc
    /\ upc' = IF a = User THEN "done" ELSE upc
    /\ wpc' = [w \in Workers |-> IF w = a THEN "select" ELSE wpc[w]]

\* Stop() of the List input.
UserStop ==
    /\ upc = "idle"
    /\ upc' = "fatal"
    /\ UNCHANGED <<world, prodvars, files, stopvars, workvars, doneClosed, inch, sent, died>>

\* stopOnce.Do: the first caller stores the error...
StoreErr(a) ==
    /\ InFatal(a) /\ oncepc = "idle"
    /\ fatalErr' = TRUE /\ oncepc' = "close"
    /\ UNCHANGED <<world, prodvars, files, upc, stopNow, stopping,
                   workvars, doneClosed, inch, sent, died>>

\* ... and calls ci.Stop(): close(s.stopNow), then stopping = 1; only then
\* does it leave the once, and with it every caller that was waiting.
CloseStopNow ==
    /\ oncepc = "close"
    /\ stopNow' = TRUE /\ died' = (IF stopNow THEN "panic" ELSE died) /\ oncepc' = "flag"
    /\ UNCHANGED <<world, prodvars, files, upc, fatalErr, stopping, workvars,
                   doneClosed, inch, sent>>

SetStopping ==
    /\ oncepc = "flag"
    /\ stopping' = TRUE /\ oncepc' = "done"
    /\ UNCHANGED <<world, prodvars, files, upc, fatalErr, stopNow,
                   workvars, doneClosed, inch, sent, died>>

ReturnFatal(a) ==
    /\ InFatal(a) /\ oncepc = "done"
    /\ LeaveFatal(a)
    /\ UNCHANGED <<world, ent, item, runErr, filesClosed, files, stopvars, wfile, wchunk,
                   doneClosed, inch, sent, died>>

-----------------------------------------------------------------------------
(* The workers: select { file, closed queue, stopNow }, then ParseFile.    *)

TakeFile(w) ==
    /\ wpc[w] = "select" /\ files # <<>>
    /\ wfile' = [wfile EXCEPT ![w] = Head(files)]
    /\ files' = Tail(files)
    /\ wpc' = [wpc EXCEPT ![w] = "open"]
    /\ UNCHANGED <<world, prodvars, upc, stopvars, wchunk, doneClosed, inch, sent, died>>

\* Fault: the end of the list is signalled apart from the queue itself.
SeeClosedEarly(w) ==
    /\ wpc[w] = "select" /\ filesClosed
    /\ wpc' = [wpc EXCEPT ![w] = "exited"]
    /\ UNCHANGED <<world, prodvars, files, upc, stopvars, wfile, wchunk, doneClosed,
                   inch, sent, died>>

SeeClosed(w) ==
    /\ wpc[w] = "select" /\ files = <<>> /\ filesClosed
    /\ wpc' = [wpc EXCEPT ![w] = "exited"]
    /\ UNCHANGED <<world, prodvars, files, upc, stopvars, wfile, wchunk, doneClosed,
                   inch, sent, died>>

\* Fault: a break that leaves the select and not the loop.
SeeStopBreaks(w) ==
    /\ wpc[w] = "select" /\ stopNow
    /\ UNCHANGED vars

SeeStop(w) ==
    /\ wpc[w] = "select" /\ stopNow
    /\ wpc' = [wpc EXCEPT ![w] = "exited"]
    /\ UNCHANGED <<world, prodvars, files, upc, stopvars, wfile, wchunk, doneClosed,
                   inch, sent, died>>

\* parseFileTyped: a failing Opener has called setFatalErr; a gzip reader
\* that cannot be created is a log.Fatal.
Open(w) ==
    /\ wpc[w] = "open"
    /\ LET h == health[wfile[w]] IN
         /\ wpc' = [wpc EXCEPT ![w] = IF h = "noopen" THEN "fatal" ELSE "read"]
         /\ died' = IF h = "notgzip" THEN "fatal" ELSE died
    /\ wchunk' = [wchunk EXCEPT ![w] = 1]
    /\ UNCHANGED <<world, prodvars, files, upc, stopvars, wfile, doneClosed, inch, sent>>

LastChunk(w) == wchunk[w] = Chunks[wfile[w]]

\* for stopping == 0 { rbuf.Read... }: a read error is logged and the file given up.
Read(w) ==
    /\ wpc[w] = "read"
    /\ wpc' = [wpc EXCEPT ![w] =
                 IF stopping \/ (health[wfile[w]] = "corrupt" /\ LastChunk(w))
                 THEN "select" ELSE "send"]
    /\ UNCHANGED <<world, prodvars, files, upc, stopvars, wfile, wchunk, doneClosed,
                   inch, sent, died>>

\* Fault: the channel to the filters is not bounded.
SendUnbounded(w) ==
    /\ wpc[w] = "send"
    /\ inch' = inch + 1
    /\ sent' = Append(sent, <<wfile[w], wchunk[w]>>)
    /\ wpc' = [wpc EXCEPT ![w] = IF LastChunk(w) THEN "select" ELSE "read"]
    /\ wchunk' = [wchunk EXCEPT ![w] = @ + 1]
    /\ UNCHANGED <<world, prodvars, files, upc, stopvars, wfile, doneClosed, died>>

\* send: s.data <- data; the chunk that meets io.EOF is the last one.
Send(w) ==
    /\ wpc[w] = "send" /\ inch < InCap
    /\ inch' = inch + 1
    /\ sent' = Append(sent, <<wfile[w], wchunk[w]>>)
    /\ wpc' = [wpc EXCEPT ![w] = IF LastChunk(w) THEN "select" ELSE "read"]
    /\ wchunk' = [wchunk EXCEPT ![w] = @ + 1]
    /\ UNCHANGED <<world, prodvars, files, upc, stopvars, wfile, doneClosed, died>>

\* wg.Wait(); close(s.Done)
CloseDone ==
    /\ ~doneClosed /\ \A w \in Workers : wpc[w] = "exited"
    /\ doneClosed' = TRUE
    /\ UNCHANGED <<world, prodvars, files, upc, stopvars, workvars, inch, sent, died>>

\* The filters take the buffers away.
Drain ==
    /\ inch > 0
    /\ inch' = inch - 1
    /\ UNCHANGED <<world, prodvars, files, upc, stopvars, workvars, doneClosed, sent, died>>

-----------------------------------------------------------------------------
ProducerStep == \/ NextFile \/ BadList \/ EndOfEntry \/ Enqueue \/ CheckFatal
                \/ NoMoreFiles \/ RunReturn
StopStep == CloseStopNow \/ SetStopping
FatalStep(a) == StoreErr(a) \/ ReturnFatal(a)
WorkerStep(w) == \/ TakeFile(w) \/ SeeClosed(w) \/ SeeStop(w) \/ Open(w)
                 \/ Read(w) \/ Send(w)

Alive == died = "no"

Step == \/ ProducerStep
        \/ UserStop
        \/ StopStep
        \/ \E a \in Actors : FatalStep(a)
        \/ \E w \in Workers : WorkerStep(w)
        \/ CloseDone
        \/ Drain

Terminated == (ppc = "returned" \/ ~Alive) /\ UNCHANGED vars

Next == (Alive /\ Step) \/ Terminated

Spec == Init /\ [][Next]_vars

\* The Go scheduler runs every goroutine that is not blocked; nobody has to
\* call Stop().
Fairness ==
    /\ WF_vars(Alive /\ ProducerStep) /\ WF_vars(Alive /\ StopStep)
    /\ WF_vars(Alive /\ CloseDone) /\ WF_vars(Alive /\ Drain)
    /\ \A a \in Actors : WF_vars(Alive /\ FatalStep(a))
    /\ \A w \in Workers : WF_vars(Alive /\ WorkerStep(w))

FairSpec == Spec /\ Fairness

-----------------------------------------------------------------------------
(* Properties.                                                             *)

TypeOK ==
    /\ entries \in Configs /\ health \in [Files -> Healths]
    /\ ppc \in {"item", "enqueue", "fatal", "check", "close", "wait", "returned"}
    /\ ent \in 1..(Len(entries) + 1) /\ item \in Nat \ {0}
    /\ runErr \in BOOLEAN
    /\ files \in Seq(Files) /\ Len(files) <= QueueCap /\ filesClosed \in BOOLEAN
    /\ upc \in {"idle", "fatal", "done"} /\ oncepc \in {"idle", "close", "flag", "done"}
    /\ fatalErr \in BOOLEAN /\ stopNow \in BOOLEAN /\ stopping \in BOOLEAN
    /\ died \in {"no", "fatal", "panic"}
    /\ wpc \in [Workers -> {"select", "open", "read", "send", "fatal", "exited"}]
    /\ wfile \in [Workers -> Files \cup {None}] /\ wchunk \in [Workers -> Nat]
    /\ doneClosed \in BOOLEAN
    /\ inch \in 0..InCap /\ sent \in Seq(Files \X Nat)

\* "ci.Stop() can be called only once (or it will panic), while there are many
\* reasons why we'd go through a fatal error": files that cannot be sized or
\* opened, bad lists and the user's Stop() may all come together.
NoDoubleClose == died # "panic"

\* Run returns when all workers have exited, fatal error or not: otherwise
\* they would push into a channel Wait() is about to close.
NoWorkerLeftBehind == ppc = "returned" => \A w \in Workers : wpc[w] = "exited"

\* Stopping is clean: no channel is closed twice, no worker outlives Run.
CleanStop == NoDoubleClose /\ NoWorkerLeftBehind

\* The chunks the configured files have to give.
EntryFiles == {e \in Files : \E i \in DOMAIN entries :
                 \E j \in DOMAIN entries[i].files : entries[i].files[j] = e}
ReadableChunks ==
    UNION {{f} \X (1..(IF health[f] = "corrupt" THEN Chunks[f] - 1 ELSE Chunks[f])) : f \in EntryFiles}

\* The list input is an Input as the topology expects it: no chunk twice, none
\* after Run has returned, and no nil error with files left unread.
Contract == INSTANCE InputContract WITH
    readable <- ReadableChunks,
    chunks <- sent,
    run <- IF ~Alive THEN "dead"
           ELSE IF ppc # "returned" THEN "running"
           ELSE IF runErr THEN "error" ELSE "ok"

ImplementsInput == Contract!Spec

\* Topology.Stop(): "requires the currently running topology to stop safely,
\* but as soon as possible": once Stop() is called, or a fatal error met, Run
\* returns.
StopReturns == fatalErr ~> (ppc = "returned" \/ ~Alive)
=============================================================================
