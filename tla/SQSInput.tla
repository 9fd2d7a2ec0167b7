------------------------------ MODULE SQSInput ------------------------------
(***************************************************************************)
(* The SQS input (input/sqs.go): one goroutine per queue receives a        *)
(* message, reads the S3 file it names in place (ParseFile of the embedded *)
(* CompressedInput, whose own workers stay idle) and then deletes the      *)
(* message.  Stop() closes a channel; Run cancels the requests under way,  *)
(* waits for the pollers and takes the CompressedInput down.               *)
(*                                                                         *)
(* SQS itself is external: a message that was received and not deleted     *)
(* becomes visible again after its visibility timeout.                     *)
(***************************************************************************)
EXTENDS Integers, Sequences, FiniteSets

CONSTANTS
    Queues,         \* one poller each
    Messages,
    QueueOf,        \* QueueOf[m]: the queue m is in
    Kind,           \* Kind[m]: "ok", "badbody", "nopath", "filtered", "noopen", "notgzip", "corrupt"
    Chunks,         \* Chunks[m]: buffers the file of m is sent in (bound)
    MaxReceives,    \* MaxReceives[m]: bound on the deliveries of m
    InCap,          \* capacity of the topology's inch
    NoMessage

\* What the constants must be.
SQSInputAssumption ==
    /\ QueueOf \in [Messages -> Queues]
    /\ Kind \in [Messages -> {"ok", "badbody", "nopath", "filtered", "noopen", "notgzip", "corrupt"}]
    /\ Chunks \in [Messages -> Nat \ {0}]
    /\ MaxReceives \in [Messages -> Nat \ {0}] /\ InCap \in Nat \ {0} /\ NoMessage \notin Messages

VARIABLES
    rpc,        \* Run: "lookup", "run", "wait", "nomore", "stop", "flag", "drain", "returned"
    stopped,    \* Stop() has closed s.done
    inch,       \* buffers on the topology's channel
    sent,       \* the chunks sent, a sequence of <<item, number>>
    cancelled,  \* the context of the requests
    message,    \* message[m]: [state, receives]
    poller,     \* poller[q]: [pc, m, chunk]
    ci          \* the CompressedInput: [filesClosed, stopNow, stopping, done]

local == <<cancelled, message, poller, ci>>
vars == <<rpc, stopped, inch, sent, local>>

LocalInit ==
    /\ cancelled = FALSE
    /\ message = [m \in Messages |-> [state |-> "visible", receives |-> 0]]
    /\ poller = [q \in Queues |-> [pc |-> "idle", m |-> NoMessage, chunk |-> 0]]
    /\ ci = [filesClosed |-> FALSE, stopNow |-> FALSE, stopping |-> FALSE, done |-> FALSE]

Init == rpc = "lookup" /\ stopped = FALSE /\ inch = 0 /\ sent = <<>> /\ LocalInit

---------------------------------------------------------------------------
\* pollQueue.

At(q, pc) == poller[q].pc = pc
Goto(q, pc) == poller' = [poller EXCEPT ![q].pc = pc]
Msg(q) == poller[q].m

Receive(q, m) ==
    /\ At(q, "receive") /\ ~cancelled
    /\ QueueOf[m] = q /\ message[m].state = "visible"
    /\ message' = [message EXCEPT ![m] = [state |-> "inflight", receives |-> @.receives + 1]]
    /\ poller' = [poller EXCEPT ![q] = [pc |-> "received", m |-> m, chunk |-> 1]]
    /\ UNCHANGED <<rpc, stopped, inch, sent, cancelled, ci>>

\* An error of ReceiveMessage: back off and try again.
ReceiveFails(q) ==
    /\ At(q, "receive") /\ ~cancelled
    /\ Goto(q, "sleep")
    /\ UNCHANGED <<rpc, stopped, inch, sent, cancelled, message, ci>>

Wake(q) ==
    /\ At(q, "sleep")
    /\ Goto(q, "receive")
    /\ UNCHANGED <<rpc, stopped, inch, sent, cancelled, message, ci>>

\* The context is cancelled: the request is given up, or its answer is dropped.
SeeCancel(q) ==
    /\ cancelled /\ (At(q, "receive") \/ At(q, "received"))
    /\ Goto(q, "exited")
    /\ UNCHANGED <<rpc, stopped, inch, sent, cancelled, message, ci>>

\* Fault: the message is deleted as soon as it is understood.
ParseAndDelete(q) ==
    /\ At(q, "received") /\ ~cancelled
    /\ Goto(q, IF Kind[Msg(q)] = "filtered" THEN "receive" ELSE "open")
    /\ message' = [message EXCEPT ![Msg(q)].state = "deleted"]
    /\ UNCHANGED <<rpc, stopped, inch, sent, cancelled, ci>>

\* A message that is not understood is left in the queue, one that the filter
\* rejects is deleted unread.  With a Bucket configured a URL without a path
\* makes u.Path[1:] panic.
Parse(q) ==
    /\ At(q, "received") /\ ~cancelled
    /\ Goto(q, CASE Kind[Msg(q)] = "badbody" -> "receive"
                 [] Kind[Msg(q)] = "nopath" -> "fatal"
                 [] Kind[Msg(q)] = "filtered" -> "delete"
                 [] OTHER -> "open")
    /\ UNCHANGED <<rpc, stopped, inch, sent, cancelled, message, ci>>

\* ParseFile reports nothing: a file that cannot be opened is logged; one
\* that is not gzip is a log.Fatal, and its message meets the next process.
Open(q) ==
    /\ At(q, "open")
    /\ Goto(q, CASE Kind[Msg(q)] = "noopen" -> "delete"
                 [] Kind[Msg(q)] = "notgzip" -> "fatal"
                 [] OTHER -> "read")
    /\ UNCHANGED <<rpc, stopped, inch, sent, cancelled, message, ci>>

LastChunk(q) == poller[q].chunk = Chunks[Msg(q)]

\* for stopping == 0 { Read ... }; a read error ends ParseFile.
Read(q) ==
    /\ At(q, "read")
    /\ Goto(q, IF ci.stopping \/ (Kind[Msg(q)] = "corrupt" /\ LastChunk(q))
               THEN "delete" ELSE "send")
    /\ UNCHANGED <<rpc, stopped, inch, sent, cancelled, message, ci>>

Send(q) ==
    /\ At(q, "send") /\ inch < InCap
    /\ inch' = inch + 1
    /\ sent' = Append(sent, <<Msg(q), poller[q].chunk>>)
    /\ poller' = [poller EXCEPT ![q].pc = IF LastChunk(q) THEN "delete" ELSE "read",
                                ![q].chunk = @ + 1]
    /\ UNCHANGED <<rpc, stopped, cancelled, message, ci>>

\* DeleteMessage fails, is cancelled before or after it took effect, or works.
Delete(q) ==
    /\ At(q, "delete")
    /\ \/ UNCHANGED message
       \/ message' = [message EXCEPT ![Msg(q)].state = "deleted"]
    /\ Goto(q, IF cancelled THEN "exited" ELSE "receive")
    /\ UNCHANGED <<rpc, stopped, inch, sent, cancelled, ci>>

---------------------------------------------------------------------------
\* Run and Stop.

\* The names of the queues are looked up; an error ends Run at once.
Lookup ==
    /\ rpc = "lookup"
    /\ \/ rpc' = "returned" /\ UNCHANGED poller
       \/ /\ rpc' = "run"
          /\ poller' = [q \in Queues |-> [poller[q] EXCEPT !.pc = "receive"]]
    /\ UNCHANGED <<stopped, inch, sent, cancelled, message, ci>>

Stop ==
    /\ ~stopped
    /\ stopped' = TRUE
    /\ UNCHANGED <<rpc, inch, sent, local>>

Cancel ==
    /\ rpc = "run" /\ stopped
    /\ cancelled' = TRUE /\ rpc' = "wait"
    /\ UNCHANGED <<stopped, inch, sent, message, poller, ci>>

\* Fault: the CompressedInput is stopped while pollers still read files.
WaitPollersNot ==
    /\ rpc = "wait"
    /\ rpc' = "nomore"
    /\ UNCHANGED <<stopped, inch, sent, local>>

WaitPollers ==
    /\ rpc = "wait" /\ \A q \in Queues : At(q, "exited")
    /\ rpc' = "nomore"
    /\ UNCHANGED <<stopped, inch, sent, local>>

NoMoreFiles ==
    /\ rpc = "nomore"
    /\ ci' = [ci EXCEPT !.filesClosed = TRUE] /\ rpc' = "stop"
    /\ UNCHANGED <<stopped, inch, sent, cancelled, message, poller>>

StopNow ==
    /\ rpc = "stop"
    /\ ci' = [ci EXCEPT !.stopNow = TRUE] /\ rpc' = "flag"
    /\ UNCHANGED <<stopped, inch, sent, cancelled, message, poller>>

SetStopping ==
    /\ rpc = "flag"
    /\ ci' = [ci EXCEPT !.stopping = TRUE] /\ rpc' = "drain"
    /\ UNCHANGED <<stopped, inch, sent, cancelled, message, poller>>

\* The workers of the CompressedInput, which never had a file, leave.
CloseDone ==
    /\ ~ci.done /\ (ci.filesClosed \/ ci.stopNow)
    /\ ci' = [ci EXCEPT !.done = TRUE]
    /\ UNCHANGED <<rpc, stopped, inch, sent, cancelled, message, poller>>

RunReturn ==
    /\ rpc = "drain" /\ ci.done
    /\ rpc' = "returned"
    /\ UNCHANGED <<stopped, inch, sent, local>>

---------------------------------------------------------------------------
\* The surroundings: SQS and the filters.

VisibilityTimeout(m) ==
    /\ message[m].state = "inflight" /\ message[m].receives < MaxReceives[m]
    /\ message' = [message EXCEPT ![m].state = "visible"]
    /\ UNCHANGED <<rpc, stopped, inch, sent, cancelled, poller, ci>>

Drain ==
    /\ inch > 0
    /\ inch' = inch - 1
    /\ UNCHANGED <<rpc, stopped, sent, local>>

PollerStep(q) ==
    \/ \E m \in Messages : Receive(q, m)
    \/ ReceiveFails(q) \/ Wake(q) \/ SeeCancel(q)
    \/ Parse(q) \/ Open(q) \/ Read(q) \/ Send(q) \/ Delete(q)

RunStep == \/ Lookup \/ Cancel \/ WaitPollers
           \/ NoMoreFiles \/ StopNow \/ SetStopping \/ RunReturn

\* A panic or a log.Fatal ends the process.
Alive == \A q \in Queues : ~At(q, "fatal")

Next ==
    /\ Alive
    /\ \/ \E q \in Queues : PollerStep(q)
       \/ RunStep \/ CloseDone \/ Stop \/ Drain
       \/ \E m \in Messages : VisibilityTimeout(m)

Spec == Init /\ [][Next]_vars

---------------------------------------------------------------------------
\* Properties.

TypeOK ==
    /\ rpc \in {"lookup", "run", "wait", "nomore", "stop", "flag", "drain", "returned"}
    /\ stopped \in BOOLEAN /\ cancelled \in BOOLEAN
    /\ inch \in 0 .. InCap
    /\ sent \in Seq(Messages \X Nat)
    /\ message \in [Messages -> [state : {"visible", "inflight", "deleted"},
                                 receives : Nat]]
    /\ poller \in [Queues -> [pc : {"idle", "receive", "sleep", "received", "open", "read",
                                    "send", "delete", "exited", "fatal"},
                              m : Messages \cup {NoMessage}, chunk : Nat]]
    /\ ci \in [filesClosed : BOOLEAN, stopNow : BOOLEAN, stopping : BOOLEAN, done : BOOLEAN]

\* What the file of m can give.
Readable(m) ==
    CASE Kind[m] = "ok" -> 1 .. Chunks[m]
      [] Kind[m] = "corrupt" -> 1 .. Chunks[m] - 1
      [] OTHER -> {}

\* A message is deleted only when everything its file can give has been sent,
\* whatever Stop(), redelivery and failing requests do in between.
DeletedAfterSent ==
    \A m \in Messages : message[m].state = "deleted" =>
        \A k \in Readable(m) : \E i \in DOMAIN sent : sent[i] = <<m, k>>

\* "The correct order of operation to cleanly stop the whole pipeline": no
\* poller is alive once Run has returned, and none was cut off in a file.
CleanStop ==
    /\ rpc = "returned" => \A q \in Queues : At(q, "exited") \/ At(q, "idle")
    /\ \A q \in Queues : At(q, "exited") /\ Msg(q) \in Messages =>
          poller[q].chunk = 1 \/ Kind[Msg(q)] = "corrupt" \/ poller[q].chunk = Chunks[Msg(q)] + 1

\* Stop() ends Run, also when it finds every poller in a file, in a request or
\* asleep, and the filters slow.
StopReturns == stopped ~> (rpc = "returned" \/ ~Alive)
=============================================================================
