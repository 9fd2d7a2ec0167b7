------------------------------ MODULE TCPInput ------------------------------
(***************************************************************************)
(* The TCP input (input/tcp.go): Run accepts connections, with a deadline  *)
(* of a second so that it sees the stop flag, and starts a goroutine for   *)
(* each; handleStream reads gzip data chunk by chunk and sends it.  When   *)
(* the flag is set Run stops accepting and waits for all of them.  (How    *)
(* handleStream cuts a stream into lines is the loop of ChunkReader.)      *)
(*                                                                         *)
(* The peers are external: a peer connects or not, sends its chunks when   *)
(* it likes, ends its stream, breaks it, or is mute from some moment on.   *)
(***************************************************************************)
EXTENDS Integers, Sequences, FiniteSets

CONSTANTS
    Peers,
    MaxChunks,      \* bound: chunks a peer sends before it ends its stream
    InCap           \* capacity of the topology's inch

\* What the constants must be.
TCPInputAssumption == MaxChunks \in Nat \ {0} /\ InCap \in Nat \ {0}

VARIABLES
    rpc,        \* Run: "lookup" (resolve, listen), "run", "accept", "wait", "returned",
                \* "panic"
    stopped,    \* the stop flag
    inch,       \* buffers on the topology's channel
    sent,       \* the chunks sent, a sequence of <<item, number>>
    conn        \* conn[p]: [pc, got, data]: the goroutine of the connection of p,
                \* the chunks it has read, what the peer has made available

vars == <<rpc, stopped, inch, sent, conn>>

\* What the peer has done that was not read yet: nothing so far, or nothing
\* ever again, on both of which a Read blocks, or something a Read returns.
Readable == {"chunk", "end", "broken"}
Answers == {"nothing", "mute"} \cup Readable

LocalInit == conn = [p \in Peers |-> [pc |-> "none", got |-> 0, data |-> "nothing"]]

Init == rpc = "lookup" /\ stopped = FALSE /\ inch = 0 /\ sent = <<>> /\ LocalInit

At(p, pc) == conn[p].pc = pc

---------------------------------------------------------------------------
\* Run and Stop.

\* ResolveTCPAddr and ListenTCP.
Listen ==
    /\ rpc = "lookup"
    /\ rpc' \in {"run", "returned"}
    /\ UNCHANGED <<stopped, inch, sent, conn>>

\* for stop == 0 { SetDeadline...
TestStop ==
    /\ rpc = "run"
    /\ rpc' = IF stopped THEN "wait" ELSE "accept"
    /\ UNCHANGED <<stopped, inch, sent, conn>>

Accept(p) ==
    /\ rpc = "accept" /\ At(p, "none")
    /\ conn' = [conn EXCEPT ![p].pc = "header"]
    /\ rpc' = "run"
    /\ UNCHANGED <<stopped, inch, sent>>

\* The deadline, which the loop expects, or another error: the code goes on
\* with a nil conn, and conn.RemoteAddr(), promoted from the struct embedded
\* in TCPConn, dereferences it.
AcceptNothing ==
    /\ rpc = "accept"
    /\ rpc' \in {"run", "panic"}
    /\ UNCHANGED <<stopped, inch, sent, conn>>

RunReturn ==
    /\ rpc = "wait" /\ \A p \in Peers : At(p, "none") \/ At(p, "closed")
    /\ rpc' = "returned"
    /\ UNCHANGED <<stopped, inch, sent, conn>>

Stop ==
    /\ ~stopped
    /\ stopped' = TRUE
    /\ UNCHANGED <<rpc, inch, sent, conn>>

---------------------------------------------------------------------------
\* handleStream.

Consume(p, pc, more) == conn' = [conn EXCEPT ![p] = [pc |-> pc, got |-> @.got + more, data |-> "nothing"]]

\* gzip.NewReader reads the header: it fails on a peer that sends none.
Header(p) ==
    /\ At(p, "header") /\ conn[p].data \in Readable
    /\ \/ conn[p].data = "chunk" /\ conn' = [conn EXCEPT ![p].pc = "test"]
       \/ Consume(p, "closed", 0)
    /\ UNCHANGED <<rpc, stopped, inch, sent>>

TestStopConn(p) ==
    /\ At(p, "test")
    /\ conn' = [conn EXCEPT ![p].pc = IF stopped THEN "closed" ELSE "read"]
    /\ UNCHANGED <<rpc, stopped, inch, sent>>

\* Read and, for the rest of a line, ReadBytes: both block on a silent peer.
\* The end of the stream is sent as an empty buffer.
Read(p) ==
    /\ At(p, "read") /\ conn[p].data \in Readable
    /\ CASE conn[p].data = "chunk" -> Consume(p, "send", 1)
         [] conn[p].data = "end" -> Consume(p, "sendlast", 1)
         [] conn[p].data = "broken" -> Consume(p, "closed", 0)
    /\ UNCHANGED <<rpc, stopped, inch, sent>>

\* Fault: the channel to the filters is not bounded.
SendUnbounded(p) ==
    /\ At(p, "send") \/ At(p, "sendlast")
    /\ inch' = inch + 1
    /\ sent' = Append(sent, <<p, conn[p].got>>)
    /\ conn' = [conn EXCEPT ![p].pc = IF At(p, "sendlast") THEN "closed" ELSE "test"]
    /\ UNCHANGED <<rpc, stopped>>

Send(p) ==
    /\ At(p, "send") \/ At(p, "sendlast")
    /\ inch < InCap
    /\ inch' = inch + 1
    /\ sent' = Append(sent, <<p, conn[p].got>>)
    /\ conn' = [conn EXCEPT ![p].pc = IF At(p, "sendlast") THEN "closed" ELSE "test"]
    /\ UNCHANGED <<rpc, stopped>>

---------------------------------------------------------------------------
\* The surroundings: peers and filters.

PeerActs(p) ==
    /\ ~At(p, "none") /\ ~At(p, "closed") /\ conn[p].data = "nothing"
    /\ \E d \in Answers \ {"nothing"} :
         /\ d = "chunk" => conn[p].got < MaxChunks
         /\ conn' = [conn EXCEPT ![p].data = d]
    /\ UNCHANGED <<rpc, stopped, inch, sent>>

Drain ==
    /\ inch > 0
    /\ inch' = inch - 1
    /\ UNCHANGED <<rpc, stopped, sent, conn>>

RunStep == Listen \/ TestStop \/ (\E p \in Peers : Accept(p)) \/ AcceptNothing \/ RunReturn
ConnStep(p) == Header(p) \/ TestStopConn(p) \/ Read(p) \/ Send(p)

\* A panic ends the process.
Alive == rpc # "panic"

Next == /\ Alive
        /\ \/ RunStep \/ Stop \/ Drain
           \/ \E p \in Peers : ConnStep(p) \/ PeerActs(p)

Spec == Init /\ [][Next]_vars

---------------------------------------------------------------------------
\* Properties.

TypeOK ==
    /\ rpc \in {"lookup", "run", "accept", "wait", "returned", "panic"} /\ stopped \in BOOLEAN
    /\ inch \in 0 .. InCap /\ sent \in Seq(Peers \X Nat)
    /\ conn \in [Peers -> [pc : {"none", "header", "test", "read", "send", "sendlast", "closed"},
                           got : 0 .. MaxChunks + 1, data : Answers]]

\* No goroutine may send on inch after Run has returned and Wait has closed it.
NoneLeftBehind == rpc = "returned" => \A p \in Peers : At(p, "none") \/ At(p, "closed")

\* The chunks of one connection come in order, each once, without a gap: the
\* n-th one sent is the n-th one the peer gave.
StreamInOrder ==
    \A i \in DOMAIN sent :
        sent[i][2] = Cardinality({j \in 1 .. i : sent[j][1] = sent[i][1]})

\* After Stop() Run returns unless a peer keeps it waiting for ever: a
\* connection that is blocked in a Read does not look at the flag.
Blocked(p) == (At(p, "header") \/ At(p, "read")) /\ conn[p].data = "mute"
StopReturnsUnlessMute == stopped ~> (rpc = "returned" \/ ~Alive \/ \E p \in Peers : Blocked(p))
=============================================================================
