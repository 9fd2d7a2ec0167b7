------------------------------ MODULE Topology ------------------------------
(***************************************************************************)
(* The goroutines and channels of topology.go: one input, filterProcs      *)
(* goroutines running runFilterChain, the outputs, the uploader, the       *)
(* goroutine that turns SIGINT into Stop() and the caller of Wait().       *)
(*                                                                         *)
(* A line is its position in the input stream.  What the filter chain does *)
(* with it is a constant (Copies: how many times the end of the chain is   *)
(* reached), so that "every record that should reach an output does" can   *)
(* be said.  Buffers are recycled: a filter goroutine reads the line it    *)
(* works on from the memory of the buffer, and the input refills whatever  *)
(* FreeMem gave back to it.                                                *)
(***************************************************************************)
EXTENDS Integers, Sequences, FiniteSets

CONSTANTS
    NLines,         \* lines in the input stream (bound of the model)
    MaxChunk,       \* lines per *Data at most (bound of the model)
    Malformed,      \* lines Record.Parse rejects, or empty lines
    Invalid,        \* lines that parse but fail ValidationFunc
    Copies,         \* Copies[l]: calls of filterChainEnd line l leads to
    Shard,          \* Shard[l]: value of the sharding function on line l
    Buffers,        \* the *Data objects of the input's pool
    NoBuffer,
    Procs,          \* filter goroutines ([filterchain] procs)
    NOut,           \* output goroutines ([output] procs)
    Sharded,        \* is [output] sharding set?
    InCap, OutCap,  \* capacities of inch and of each outch ([...] chansize)
    Daemon,         \* does the input run until it is stopped?
    UsesUpload,     \* does the output send file names on upch?
    CanFail         \* may Input.Run, Output.Run and Upload.Run return an error?

Lines == 1..NLines
Outputs == 1..NOut

ASSUME TopologyAssumption ==
    /\ NLines \in Nat /\ MaxChunk \in Nat \ {0}
    /\ Malformed \subseteq Lines /\ Invalid \subseteq Lines
    /\ Copies \in [Lines -> Nat] /\ Shard \in [Lines -> Nat]
    /\ NoBuffer \notin Buffers
    /\ IsFiniteSet(Procs) /\ Procs # {}
    /\ NOut \in Nat \ {0}
    /\ InCap \in Nat \ {0} /\ OutCap \in Nat \ {0}
    /\ {Sharded, Daemon, UsesUpload, CanFail} \subseteq BOOLEAN

\* Channel i of outch is nil unless i = 1 (outch[0]) or the output is sharded.
NChans == IF Sharded THEN NOut ELSE 1
Chans == 1..NChans
ChanOf(o) == IF Sharded THEN o ELSE 1

\* How many output records a line turns into, and all these records.
Wanted == [l \in Lines |-> IF l \in Malformed \cup Invalid THEN 0 ELSE Copies[l]]
Records == UNION {{l} \X (1..Wanted[l]) : l \in Lines}

VARIABLES
    produced,   \* lines the input has sent on inch
    inpc,       \* Input.Run: "running" or "done"
    inbuf,      \* the buffer Input.Run has filled and not sent yet
    inerr,      \* Topology.inerr is set
    stopped,    \* Input.Stop has been called
    mem,        \* mem[b]: the lines in buffer b
    pool,       \* buffers the input may fill
    inch, inchClosed,
    fpc,        \* runFilterChain: "recv", "lines", "send", "done"
    fbuf,       \* bakerData of each filter goroutine
    foff,       \* lines of bakerData already dealt with
    fcopy,      \* the copy of the current line being sent
    malformed, invalid,
    outch,      \* contents of the output channels
    nclosed,    \* output channels closed so far, in index order
    opc,        \* Output.Run: "running" or "done"
    received,   \* records given to each output
    flushed,    \* how many of them are in files named on upch
    upl,        \* Upload.Run: "recv", "busy", "done"
    upchClosed,
    wpc,        \* progress of Wait()
    exited      \* log.Fatal has ended the process

invars == <<produced, inpc, inbuf, inerr, mem, pool>>
filtervars == <<fpc, fbuf, foff, fcopy, malformed, invalid>>
outvars == <<opc, received, flushed>>
waitvars == <<inchClosed, nclosed, upchClosed, wpc>>
vars == <<invars, stopped, inch, filtervars, outch, outvars, upl, waitvars, exited>>

Init ==
    /\ produced = 0 /\ inpc = "running" /\ inbuf = NoBuffer /\ inerr = FALSE
    /\ stopped = FALSE
    /\ mem = [b \in Buffers |-> <<>>] /\ pool = Buffers
    /\ inch = <<>> /\ inchClosed = FALSE
    /\ fpc = [p \in Procs |-> "recv"] /\ fbuf = [p \in Procs |-> NoBuffer]
    /\ foff = [p \in Procs |-> 0] /\ fcopy = [p \in Procs |-> 1]
    /\ malformed = 0 /\ invalid = 0
    /\ outch = [i \in Chans |-> <<>>] /\ nclosed = 0
    /\ opc = [o \in Outputs |-> "running"]
    /\ received = [o \in Outputs |-> <<>>] /\ flushed = [o \in Outputs |-> 0]
    /\ upl = "recv" /\ upchClosed = FALSE
    /\ wpc = "wginp"
    /\ exited = FALSE

-----------------------------------------------------------------------------
(* The input: any implementation of the Input interface of api.go.         *)

\* Fill a recycled (or new) buffer with the next lines of the stream.
FillBuffer(b) ==
    /\ inpc = "running" /\ inbuf = NoBuffer /\ b \in pool
    /\ \E k \in 1..MaxChunk :
         /\ produced + k <= NLines
         /\ mem' = [mem EXCEPT ![b] = [i \in 1..k |-> produced + i]]
    /\ inbuf' = b
    /\ pool' = pool \ {b}
    /\ UNCHANGED <<produced, inpc, inerr, stopped, inch, filtervars, outch,
                   outvars, upl, waitvars, exited>>

\* output <- data, which blocks while the channel is full.
SendBuffer ==
    /\ inpc = "running" /\ inbuf # NoBuffer /\ Len(inch) < InCap
    /\ inch' = Append(inch, inbuf)
    /\ produced' = produced + Len(mem[inbuf])
    /\ inbuf' = NoBuffer
    /\ UNCHANGED <<inpc, inerr, stopped, mem, pool, filtervars, outch, outvars,
                   upl, waitvars, exited>>

\* Run returns: at the end of a finite stream, or at a good boundary once
\* Stop has been called; an error is kept in inerr.
InputReturn ==
    /\ inpc = "running" /\ inbuf = NoBuffer
    /\ \/ (stopped \/ (~Daemon /\ produced = NLines)) /\ UNCHANGED inerr
       \/ CanFail /\ inerr' = TRUE
    /\ inpc' = "done"
    /\ UNCHANGED <<produced, inbuf, stopped, mem, pool, inch, filtervars, outch,
                   outvars, upl, waitvars, exited>>

\* The goroutine of Start() that waits for SIGINT calls Stop() once.
Interrupt ==
    /\ ~stopped
    /\ stopped' = TRUE
    /\ UNCHANGED <<invars, inch, filtervars, outch, outvars, upl, waitvars, exited>>

-----------------------------------------------------------------------------
(* The filter goroutines: runFilterChain.                                  *)

CurLine(p) == mem[fbuf[p]][foff[p] + 1]
\* Fault: a last line with no newline after it is not seen.
MoreLinesByNewline(p) == foff[p] + 1 < Len(mem[fbuf[p]])
MoreLines(p) == foff[p] < Len(mem[fbuf[p]])

ReceiveData(p) ==
    /\ fpc[p] = "recv" /\ inch # <<>>
    /\ fbuf' = [fbuf EXCEPT ![p] = Head(inch)]
    /\ inch' = Tail(inch)
    /\ foff' = [foff EXCEPT ![p] = 0]
    /\ fpc' = [fpc EXCEPT ![p] = "lines"]
    /\ UNCHANGED <<invars, stopped, fcopy, malformed, invalid, outch, outvars,
                   upl, waitvars, exited>>

\* Fault: a quit signal ends the loop with data left in inch.
FilterReturnOnClose(p) ==
    /\ fpc[p] = "recv" /\ inchClosed
    /\ fpc' = [fpc EXCEPT ![p] = "done"]
    /\ UNCHANGED <<invars, stopped, inch, fbuf, foff, fcopy, malformed, invalid,
                   outch, outvars, upl, waitvars, exited>>

\* Fault: a receive that does not tell a closed channel from a nil *Data.
FilterReturnSpins(p) ==
    /\ fpc[p] = "recv" /\ inch = <<>> /\ inchClosed
    /\ UNCHANGED vars

\* range over inch ends when it is closed and drained; wgfil.Done().
FilterReturn(p) ==
    /\ fpc[p] = "recv" /\ inch = <<>> /\ inchClosed
    /\ fpc' = [fpc EXCEPT ![p] = "done"]
    /\ UNCHANGED <<invars, stopped, inch, fbuf, foff, fcopy, malformed, invalid,
                   outch, outvars, upl, waitvars, exited>>

\* A line that ends its journey here: counted as malformed or invalid, or
\* thrown away by a filter that does not call next().
DiscardLine(p) ==
    /\ fpc[p] = "lines" /\ MoreLines(p)
    /\ LET l == CurLine(p) IN
         \/ /\ l \in Malformed
            /\ malformed' = malformed + 1 /\ UNCHANGED invalid
         \/ /\ l \in Invalid \ Malformed
            /\ invalid' = invalid + 1 /\ UNCHANGED malformed
         \/ /\ l \notin Malformed \cup Invalid /\ Copies[l] = 0
            /\ UNCHANGED <<malformed, invalid>>
    /\ foff' = [foff EXCEPT ![p] = @ + 1]
    /\ UNCHANGED <<invars, stopped, inch, fpc, fbuf, fcopy, outch, outvars, upl,
                   waitvars, exited>>

\* t.chain(record) reaches filterChainEnd for the first time.
EnterChain(p) ==
    /\ fpc[p] = "lines" /\ MoreLines(p)
    /\ CurLine(p) \notin Malformed \cup Invalid /\ Copies[CurLine(p)] > 0
    /\ fpc' = [fpc EXCEPT ![p] = "send"]
    /\ fcopy' = [fcopy EXCEPT ![p] = 1]
    /\ UNCHANGED <<invars, stopped, inch, fbuf, foff, malformed, invalid, outch,
                   outvars, upl, waitvars, exited>>

\* Fault: records are spread over the channels by their position.
TargetChanByLine(l) == IF Sharded THEN (l % NOut) + 1 ELSE 1

\* The channel filterChainEnd sends to: t.outch[0], or the shard's.
TargetChan(l) == IF Sharded THEN (Shard[l] % NOut) + 1 ELSE 1

\* Fault: each send is a goroutine of its own, which a later one may overtake.
FilterChainEndAsync(p) ==
    LET l == CurLine(p)
        i == TargetChan(l)
        last == fcopy[p] = Copies[l]
        queue == outch[i]
    IN  /\ fpc[p] = "send" /\ Len(queue) < OutCap
        /\ \E k \in 0..Len(queue) :
              outch' = [outch EXCEPT ![i] = SubSeq(queue, 1, k) \o <<<<l, fcopy[p]>>>>
                                              \o SubSeq(queue, k + 1, Len(queue))]
        /\ fpc' = [fpc EXCEPT ![p] = IF last THEN "lines" ELSE "send"]
        /\ foff' = [foff EXCEPT ![p] = IF last THEN @ + 1 ELSE @]
        /\ fcopy' = [fcopy EXCEPT ![p] = IF last THEN 1 ELSE @ + 1]
        /\ UNCHANGED <<invars, stopped, inch, fbuf, malformed, invalid, outvars,
                       upl, waitvars, exited>>

\* filterChainEnd: send one record, blocking while the channel is full; when
\* the filters are done with the line, move on to the next one.
FilterChainEnd(p) ==
    LET l == CurLine(p)
        i == TargetChan(l)
        last == fcopy[p] = Copies[l]
    IN  /\ fpc[p] = "send" /\ Len(outch[i]) < OutCap
        /\ outch' = [outch EXCEPT ![i] = Append(@, <<l, fcopy[p]>>)]
        /\ fpc' = [fpc EXCEPT ![p] = IF last THEN "lines" ELSE "send"]
        /\ foff' = [foff EXCEPT ![p] = IF last THEN @ + 1 ELSE @]
        /\ fcopy' = [fcopy EXCEPT ![p] = IF last THEN 1 ELSE @ + 1]
        /\ UNCHANGED <<invars, stopped, inch, fbuf, malformed, invalid, outvars,
                       upl, waitvars, exited>>

\* Fault: bakerData is reset before it is given back.
FreeMemCleared(p) ==
    /\ fpc[p] = "lines" /\ ~MoreLines(p)
    /\ pool' = pool \cup {NoBuffer}
    /\ fbuf' = [fbuf EXCEPT ![p] = NoBuffer]
    /\ fpc' = [fpc EXCEPT ![p] = "recv"]
    /\ UNCHANGED <<produced, inpc, inbuf, inerr, stopped, mem, inch, foff, fcopy,
                   malformed, invalid, outch, outvars, upl, waitvars, exited>>

\* Fault: the buffer is given back as soon as its last line has been found.
FreeMemEarly(p) ==
    \/ /\ fpc[p] = "lines" /\ foff[p] + 1 = Len(mem[fbuf[p]])
       /\ pool' = pool \cup {fbuf[p]}
       /\ UNCHANGED <<fbuf, fpc>>
       /\ UNCHANGED <<produced, inpc, inbuf, inerr, stopped, mem, inch, foff, fcopy,
                      malformed, invalid, outch, outvars, upl, waitvars, exited>>
    \/ /\ fpc[p] = "lines" /\ ~MoreLines(p)
       /\ fbuf' = [fbuf EXCEPT ![p] = NoBuffer]
       /\ fpc' = [fpc EXCEPT ![p] = "recv"]
       /\ UNCHANGED <<invars, stopped, inch, foff, fcopy, malformed, invalid,
                      outch, outvars, upl, waitvars, exited>>

\* The buffer goes back to the input, which may refill it at once.
FreeMem(p) ==
    /\ fpc[p] = "lines" /\ ~MoreLines(p)
    /\ pool' = pool \cup {fbuf[p]}
    /\ fbuf' = [fbuf EXCEPT ![p] = NoBuffer]
    /\ fpc' = [fpc EXCEPT ![p] = "recv"]
    /\ UNCHANGED <<produced, inpc, inbuf, inerr, stopped, mem, inch, foff, fcopy,
                   malformed, invalid, outch, outvars, upl, waitvars, exited>>

-----------------------------------------------------------------------------
(* The outputs and the uploader: any implementations of the Output and     *)
(* Upload interfaces of api.go, in the goroutines Start() gives them.      *)

\* for rec := range in
Consume(o) ==
    /\ opc[o] = "running" /\ outch[ChanOf(o)] # <<>>
    /\ received' = [received EXCEPT ![o] = Append(@, Head(outch[ChanOf(o)]))]
    /\ outch' = [outch EXCEPT ![ChanOf(o)] = Tail(@)]
    /\ UNCHANGED <<invars, stopped, inch, filtervars, opc, flushed, upl,
                   waitvars, exited>>

\* upch <- path: upch is unbuffered, so the uploader takes the path at once.
SendFile(o) ==
    /\ UsesUpload
    /\ opc[o] = "running" /\ flushed[o] < Len(received[o]) /\ upl = "recv"
    /\ flushed' = [flushed EXCEPT ![o] = Len(received[o])]
    /\ upl' = "busy"
    /\ UNCHANGED <<invars, stopped, inch, filtervars, outch, opc, received,
                   waitvars, exited>>

\* Run returns once its channel is closed and everything is processed.
OutputReturn(o) ==
    /\ opc[o] = "running"
    /\ outch[ChanOf(o)] = <<>> /\ ChanOf(o) <= nclosed
    /\ UsesUpload => flushed[o] = Len(received[o])
    /\ opc' = [opc EXCEPT ![o] = "done"]
    /\ UNCHANGED <<invars, stopped, inch, filtervars, outch, received, flushed,
                   upl, waitvars, exited>>

UploadFile ==
    /\ upl = "busy"
    /\ upl' = "recv"
    /\ UNCHANGED <<invars, stopped, inch, filtervars, outch, outvars, waitvars, exited>>

UploaderReturn ==
    /\ upl = "recv" /\ upchClosed
    /\ upl' = "done"
    /\ UNCHANGED <<invars, stopped, inch, filtervars, outch, outvars, waitvars, exited>>

\* log.Fatal when Output.Run or Upload.Run returns an error.
Fatal ==
    /\ CanFail
    /\ upl # "done" \/ \E o \in Outputs : opc[o] = "running"
    /\ exited' = TRUE
    /\ UNCHANGED <<invars, stopped, inch, filtervars, outch, outvars, upl, waitvars>>

-----------------------------------------------------------------------------
(* Wait().                                                                 *)

\* Fault: the first filter goroutine to return is taken for all of them.
FiltersDoneAny == \E p \in Procs : fpc[p] = "done"

\* t.wginp.Wait(), t.wgfil.Wait(), t.wgout.Wait(), t.wgupl.Wait()
InputDone == inpc = "done"
FiltersDone == \A p \in Procs : fpc[p] = "done"
OutputsDone == \A o \in Outputs : opc[o] = "done"
UploadDone == upl = "done"

CloseInch ==
    /\ wpc = "wginp" /\ InputDone
    /\ inchClosed' = TRUE /\ wpc' = "wgfil"
    /\ UNCHANGED <<nclosed, upchClosed>>

\* The loop closes the channels one by one; with no sharding there is one.
CloseOutch ==
    /\ wpc = "wgfil" /\ FiltersDone
    /\ nclosed' = nclosed + 1
    /\ wpc' = IF nclosed + 1 = NChans THEN "wgout" ELSE "wgfil"
    /\ UNCHANGED <<inchClosed, upchClosed>>

CloseUpch ==
    /\ wpc = "wgout" /\ OutputsDone
    /\ upchClosed' = TRUE /\ wpc' = "wgupl"
    /\ UNCHANGED <<inchClosed, nclosed>>

WaitReturn ==
    /\ wpc = "wgupl" /\ UploadDone
    /\ wpc' = "returned"
    /\ UNCHANGED <<inchClosed, nclosed, upchClosed>>

Wait ==
    /\ CloseInch \/ CloseOutch \/ CloseUpch \/ WaitReturn
    /\ UNCHANGED <<invars, stopped, inch, filtervars, outch, outvars, upl, exited>>

-----------------------------------------------------------------------------
InputStep == (\E b \in Buffers : FillBuffer(b)) \/ SendBuffer \/ InputReturn

FilterStep(p) == \/ ReceiveData(p) \/ FilterReturn(p) \/ DiscardLine(p)
                 \/ EnterChain(p) \/ FilterChainEnd(p) \/ FreeMem(p)

OutputStep(o) == Consume(o) \/ SendFile(o) \/ OutputReturn(o)

UploadStep == UploadFile \/ UploaderReturn

\* Nothing runs after log.Fatal.
Step == \/ InputStep
        \/ Interrupt
        \/ \E p \in Procs : FilterStep(p)
        \/ \E o \in Outputs : OutputStep(o)
        \/ UploadStep
        \/ Wait
        \/ Fatal

Terminated == (exited \/ wpc = "returned") /\ UNCHANGED vars

Next == (~exited /\ Step) \/ Terminated

Spec == Init /\ [][Next]_vars

\* The Go scheduler runs every goroutine that is not blocked.
Fairness ==
    /\ WF_vars(~exited /\ InputStep)
    /\ \A p \in Procs : WF_vars(~exited /\ FilterStep(p))
    /\ \A o \in Outputs : WF_vars(~exited /\ OutputStep(o))
    /\ WF_vars(~exited /\ UploadStep)
    /\ WF_vars(~exited /\ Wait)

FairSpec == Spec /\ Fairness

-----------------------------------------------------------------------------
(* Properties.                                                             *)

\* The types of the variables, and no channel is filled above its capacity.
TypeOK ==
    /\ produced \in 0..NLines /\ inpc \in {"running", "done"}
    /\ inbuf \in Buffers \cup {NoBuffer} /\ inerr \in BOOLEAN
    /\ stopped \in BOOLEAN
    /\ mem \in [Buffers -> Seq(Lines)] /\ pool \subseteq Buffers
    /\ inch \in Seq(Buffers) /\ Len(inch) <= InCap /\ inchClosed \in BOOLEAN
    /\ fpc \in [Procs -> {"recv", "lines", "send", "done"}]
    /\ fbuf \in [Procs -> Buffers \cup {NoBuffer}]
    /\ foff \in [Procs -> Nat] /\ fcopy \in [Procs -> Nat \ {0}]
    /\ malformed \in Nat /\ invalid \in Nat
    /\ outch \in [Chans -> Seq(Lines \X Nat)] /\ nclosed \in 0..NChans
    /\ \A i \in Chans : Len(outch[i]) <= OutCap
    /\ opc \in [Outputs -> {"running", "done"}]
    /\ received \in [Outputs -> Seq(Lines \X Nat)]
    /\ flushed \in [Outputs -> Nat]
    /\ upl \in {"recv", "busy", "done"} /\ upchClosed \in BOOLEAN
    /\ wpc \in {"wginp", "wgfil", "wgout", "wgupl", "returned"}
    /\ exited \in BOOLEAN

\* Wait() closes inch, each outch and upch while their senders' WaitGroups
\* are the only protection: no goroutine that may still send finds its
\* channel closed (the send would panic and lose everything in the pipeline).
NoSendOnClosedChannel ==
    /\ inpc = "running" => ~inchClosed
    /\ \A p \in Procs : fpc[p] # "done" => nclosed = 0
    /\ \A o \in Outputs : opc[o] = "running" => ~upchClosed

\* The places a *Data can be in: with the input, on inch, with a filter.
Holders(b) == (IF b \in pool THEN 1 ELSE 0)
            + (IF b = inbuf THEN 1 ELSE 0)
            + Cardinality({i \in DOMAIN inch : inch[i] = b})
            + Cardinality({p \in Procs : fbuf[p] = b})

\* FreeMem gives each *Data back exactly once, after its last line: a buffer
\* is never lost and never refilled while a filter goroutine still parses it.
BufferHasOneHolder == \A b \in Buffers : Holders(b) = 1

\* How many times an output was given record r.
Delivered(r) ==
    Cardinality(UNION {{o} \X {i \in DOMAIN received[o] : received[o][i] = r} : o \in Outputs})

\* Lossless, duplicate-free delivery: when Wait() returns, every record that
\* the filter chain let through, of every buffer the input managed to send
\* before it stopped, was given to an output exactly once, its file went to
\* the uploader, and the lines that were not let through are the ones counted.
NothingLost ==
    wpc = "returned" =>
        /\ \A r \in Records : Delivered(r) = IF r[1] <= produced THEN 1 ELSE 0
        /\ UsesUpload => \A o \in Outputs : flushed[o] = Len(received[o])
        /\ malformed = Cardinality(Malformed \cap 1..produced)
        /\ invalid = Cardinality((Invalid \ Malformed) \cap 1..produced)

\* Sharding (README, "Sharding"): two records with the same value of the
\* sharding function are never given to two different outputs.
ShardAffinity ==
    Sharded => \A o1, o2 \in Outputs :
                 \A i \in DOMAIN received[o1], j \in DOMAIN received[o2] :
                    Shard[received[o1][i][1]] = Shard[received[o2][j][1]] => o1 = o2

\* With one filter goroutine and one channel per output the pipeline is FIFO:
\* an output never sees two records of the stream in the wrong order.
StreamOrder ==
    Cardinality(Procs) = 1 =>
        \A o \in Outputs : \A i, j \in DOMAIN received[o] :
            i < j => \/ received[o][i][1] < received[o][j][1]
                     \/ /\ received[o][i][1] = received[o][j][1]
                        /\ received[o][i][2] < received[o][j][2]

\* A batch topology shuts itself down; a daemon does once it is interrupted.
WaitReturns == (~Daemon \/ stopped) ~> (wpc = "returned" \/ exited)

\* The topology implements the promise of Pipeline.
Pipe == INSTANCE Pipeline WITH
    accepted <- produced,
    delivered <- [r \in Records |-> Delivered(r)],
    phase <- IF exited THEN "aborted"
             ELSE IF wpc = "returned" THEN "finished"
             ELSE IF inchClosed THEN "draining" ELSE "open"

ImplementsPipeline == Pipe!Spec
=============================================================================
