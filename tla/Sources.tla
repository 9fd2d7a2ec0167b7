------------------------------ MODULE Sources ------------------------------
(***************************************************************************)
(* The inputs that do not end by themselves: SQS, TCP, Kinesis and KCL.  A *)
(* topology has one input, so source is chosen in the initial state, the   *)
(* steps are those of that input, and the variables of the others keep     *)
(* their initial values.                                                   *)
(***************************************************************************)
EXTENDS Integers, Sequences, FiniteSets

CONSTANTS
    InCap,
    Queues, Messages, QueueOf, Kind, Chunks, MaxReceives, NoMessage,  \* SQS
    Peers, MaxChunks,                                                 \* TCP
    Shards, Ends, Closed,                                             \* Kinesis
    Processes, KclShards, Records, KclClosed, MaxBatch, MaxLeases,    \* KCL
    NoProcess

VARIABLES source,
          rpc, stopped, inch, sent,                     \* SQS, TCP and Kinesis
          cancelled, message, poller, ci,               \* SQS
          conn,                                         \* TCP
          shard,                                        \* Kinesis
          process, lease, checkpoint, consumer, pushed  \* KCL

common == <<rpc, stopped, inch, sent>>
sqsvars == <<cancelled, message, poller, ci>>
kclvars == <<process, lease, checkpoint, consumer, pushed>>
vars == <<source, common, sqsvars, conn, shard, kclvars>>

Sqs == INSTANCE SQSInput
Tcp == INSTANCE TCPInput
Kin == INSTANCE KinesisInput
Kcl == INSTANCE KCLInput WITH Shards <- KclShards, Closed <- KclClosed

ASSUME SourcesAssumption ==
    /\ Sqs!SQSInputAssumption /\ Tcp!TCPInputAssumption
    /\ Kin!KinesisInputAssumption /\ Kcl!KCLInputAssumption

Init ==
    /\ source \in {"sqs", "tcp", "kinesis", "kcl"}
    /\ rpc = (IF source = "kinesis" THEN "run" ELSE "lookup")
    /\ stopped = FALSE /\ inch = 0 /\ sent = <<>>
    /\ Sqs!LocalInit /\ Tcp!LocalInit /\ Kin!LocalInit /\ Kcl!Init

Only(src) ==
    /\ source = src /\ UNCHANGED source
    /\ src = "kcl" => UNCHANGED common
    /\ src # "sqs" => UNCHANGED sqsvars
    /\ src # "tcp" => UNCHANGED conn
    /\ src # "kinesis" => UNCHANGED shard
    /\ src # "kcl" => UNCHANGED kclvars

Returned ==
    \/ source # "kcl" /\ rpc = "returned"
    \/ source = "sqs" /\ ~Sqs!Alive
    \/ source = "kinesis" /\ ~Kin!Alive
    \/ source = "tcp" /\ (~Tcp!Alive \/ \E p \in Peers : Tcp!Blocked(p))
    \/ source = "kcl" /\ \A i \in Processes : process[i].rpc \in {"returned", "dead"}

Terminated == Returned /\ UNCHANGED vars

Next ==
    \/ Only("sqs") /\ Sqs!Next
    \/ Only("tcp") /\ Tcp!Next
    \/ Only("kinesis") /\ Kin!Next
    \/ Only("kcl") /\ Kcl!Next
    \/ Terminated

Spec == Init /\ [][Next]_vars

(* Each module's type invariant.                                           *)
TypeOK ==
    /\ source = "sqs" => Sqs!TypeOK
    /\ source = "tcp" => Tcp!TypeOK
    /\ source = "kinesis" => Kin!TypeOK
    /\ source = "kcl" => Kcl!TypeOK

(* SQS: a message is deleted only when its file has been sent as far as it *)
(* can be read.  TCP and Kinesis: one connection's chunks, one shard's     *)
(* records come in order, each once and without a gap.  KCL: what is       *)
(* checkpointed was pushed by some process.                                *)
NothingSkipped ==
    /\ source = "sqs" => Sqs!DeletedAfterSent
    /\ source = "tcp" => Tcp!StreamInOrder
    /\ source = "kinesis" => Kin!NoGap
    /\ source = "kcl" => Kcl!NeverSkips

(* No goroutine of an input sends once its Run has returned, since Wait    *)
(* closes inch then; and a poller of SQS finishes its file first.          *)
NoneLeftBehind ==
    /\ source = "sqs" => Sqs!CleanStop
    /\ source = "tcp" => Tcp!NoneLeftBehind
    /\ source = "kinesis" => Kin!NoneLeftBehind
    /\ source = "kcl" => Kcl!NoneLeftBehind

(* Stop() ends Run whatever the input is doing; only a TCP peer that says  *)
(* nothing any more can prevent it.                                        *)
Stopped ==
    \/ source # "kcl" /\ stopped
    \/ source = "kcl" /\ \E i \in Processes : process[i].stopped
Ended ==
    \/ Returned /\ source # "kcl"
    \/ source = "kcl" /\ \A i \in Processes :
          process[i].stopped => process[i].rpc \in {"returned", "dead"}
StopReturns == Stopped ~> Ended
=============================================================================
