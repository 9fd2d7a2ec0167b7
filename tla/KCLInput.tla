------------------------------ MODULE KCLInput ------------------------------
(***************************************************************************)
(* The KCL input (input/kcl.go) in several baker processes that share the  *)
(* shards of a stream.  The Kinesis Client Library (external) gives a      *)
(* process the lease of a shard, starts a record processor behind the last *)
(* checkpoint, hands it batches of records, and lets a lease expire, after *)
(* which another process may take over while the first is still inside     *)
(* ProcessRecords.  The processor pushes a batch to the filters and then   *)
(* checkpoints it; leases and checkpoints survive a crash, what stands in  *)
(* the channel does not.  (The application starts at TRIM_HORIZON.)        *)
(***************************************************************************)
EXTENDS Integers, FiniteSets

CONSTANTS
    Processes,
    Shards,
    Records,        \* Records[s]: how many records the shard holds (bound)
    Closed,         \* shards that end behind their last record
    MaxBatch,       \* bound: records of one call of ProcessRecords
    MaxLeases,      \* bound: how often the lease of a shard is given
    InCap,          \* capacity of the topology's inch
    NoProcess

\* What the constants must be.
KCLInputAssumption ==
    /\ Records \in [Shards -> Nat] /\ Closed \subseteq Shards
    /\ MaxBatch \in Nat \ {0} /\ MaxLeases \in Nat \ {0} /\ InCap \in Nat \ {0}
    /\ NoProcess \notin Processes

VARIABLES
    process,    \* process[i]: [rpc, stopped, inch]
    lease,      \* lease[s]: [owner, given]
    checkpoint, \* checkpoint[s]: last record checkpointed, Records[s] + 1 for SHARD_END
    consumer,   \* consumer[i][s]: [pc, pos, last]: the record processor of shard s in i
    pushed      \* pushed[s]: the records that reached the filters of some process

vars == <<process, lease, checkpoint, consumer, pushed>>

ShardEnd(s) == Records[s] + 1
NoConsumer == [pc |-> "none", pos |-> 0, last |-> 0]

Init ==
    /\ process = [i \in Processes |-> [rpc |-> "start", stopped |-> FALSE, inch |-> 0]]
    /\ lease = [s \in Shards |-> [owner |-> NoProcess, given |-> 0]]
    /\ checkpoint = [s \in Shards |-> 0]
    /\ consumer = [i \in Processes |-> [s \in Shards |-> NoConsumer]]
    /\ pushed = [s \in Shards |-> {}]

Rpc(i, pc) == process[i].rpc = pc
At(i, s, pc) == consumer[i][s].pc = pc
Become(i, s, c) == consumer' = [consumer EXCEPT ![i][s] = c]

---------------------------------------------------------------------------
\* Run and Stop.

StartWorker(i) ==
    /\ Rpc(i, "start")
    /\ \E pc \in {"run", "returned"} : process' = [process EXCEPT ![i].rpc = pc]
    /\ UNCHANGED <<lease, checkpoint, consumer, pushed>>

Stop(i) ==
    /\ ~process[i].stopped /\ ~Rpc(i, "dead")
    /\ process' = [process EXCEPT ![i].stopped = TRUE]
    /\ UNCHANGED <<lease, checkpoint, consumer, pushed>>

\* Fault: a break that leaves the select and not the loop.
SeeDoneBreaks(i) ==
    /\ Rpc(i, "run") /\ process[i].stopped
    /\ UNCHANGED vars

\* k.done is closed, or the ticker has found another number of shards; the
\* deferred wk.Shutdown() is called.
SeeDone(i) ==
    /\ Rpc(i, "run") /\ process[i].stopped
    /\ process' = [process EXCEPT ![i].rpc = "shutdown"]
    /\ UNCHANGED <<lease, checkpoint, consumer, pushed>>

ShardsChanged(i) ==
    /\ Rpc(i, "run")
    /\ process' = [process EXCEPT ![i].rpc = "shutdown"]
    /\ UNCHANGED <<lease, checkpoint, consumer, pushed>>

\* wk.Shutdown() returns when every processor has been shut down.
RunReturn(i) ==
    /\ Rpc(i, "shutdown") /\ \A s \in Shards : At(i, s, "none")
    /\ process' = [process EXCEPT ![i].rpc = "returned"]
    /\ UNCHANGED <<lease, checkpoint, consumer, pushed>>

---------------------------------------------------------------------------
\* The record processor.

\* CreateProcessor and Initialize: behind the checkpoint.
Initialize(i, s) ==
    /\ Rpc(i, "run") /\ At(i, s, "none")
    /\ lease[s].owner = NoProcess /\ lease[s].given < MaxLeases
    /\ checkpoint[s] # ShardEnd(s)
    /\ lease' = [lease EXCEPT ![s] = [owner |-> i, given |-> @.given + 1]]
    /\ Become(i, s, [pc |-> "ready", pos |-> checkpoint[s], last |-> checkpoint[s]])
    /\ UNCHANGED <<process, checkpoint, pushed>>

\* The library calls ProcessRecords while it believes to hold the lease; an
\* empty batch is skipped.
ProcessRecords(i, s) ==
    /\ At(i, s, "ready") /\ Rpc(i, "run") /\ lease[s].owner = i
    /\ \E n \in 1 .. MaxBatch :
         /\ consumer[i][s].pos + n <= Records[s]
         /\ Become(i, s, [pc |-> "push", pos |-> consumer[i][s].pos,
                          last |-> consumer[i][s].last + n])
    /\ UNCHANGED <<process, lease, checkpoint, pushed>>

\* p.inch <- data, record by record.
Push(i, s) ==
    /\ At(i, s, "push") /\ process[i].inch < InCap
    /\ LET n == consumer[i][s].pos + 1
       IN  /\ pushed' = [pushed EXCEPT ![s] = @ \cup {n}]
           /\ Become(i, s, [pc |-> IF n = consumer[i][s].last THEN "checkpoint" ELSE "push",
                            pos |-> n, last |-> consumer[i][s].last])
    /\ process' = [process EXCEPT ![i].inch = @ + 1]
    /\ UNCHANGED <<lease, checkpoint>>

\* Checkpoint of the last record of the batch; an error is logged and the
\* processor goes on.  A process that has lost the lease may still succeed.
Checkpoint(i, s) ==
    /\ At(i, s, "checkpoint")
    /\ \/ checkpoint' = [checkpoint EXCEPT ![s] = consumer[i][s].last]
       \/ UNCHANGED checkpoint
    /\ Become(i, s, [pc |-> "ready", pos |-> consumer[i][s].pos, last |-> consumer[i][s].last])
    /\ UNCHANGED <<process, lease, pushed>>

\* Shutdown with the reason TERMINATE: the shard is closed and completely
\* read, so nil is checkpointed (or fails to be).
Terminate(i, s) ==
    /\ At(i, s, "ready") /\ lease[s].owner = i
    /\ s \in Closed /\ consumer[i][s].pos = Records[s]
    /\ \/ checkpoint' = [checkpoint EXCEPT ![s] = ShardEnd(s)]
       \/ UNCHANGED checkpoint
    /\ Become(i, s, NoConsumer)
    /\ lease' = [lease EXCEPT ![s].owner = NoProcess]
    /\ UNCHANGED <<process, pushed>>

\* Shutdown with another reason: the lease is lost, or the worker shuts down.
Shutdown(i, s) ==
    /\ At(i, s, "ready")
    /\ lease[s].owner # i \/ Rpc(i, "shutdown")
    /\ Become(i, s, NoConsumer)
    /\ lease' = [lease EXCEPT ![s].owner = IF @ = i THEN NoProcess ELSE @]
    /\ UNCHANGED <<process, checkpoint, pushed>>

---------------------------------------------------------------------------
\* The surroundings.

LeaseExpires(s) ==
    /\ lease[s].owner # NoProcess
    /\ lease' = [lease EXCEPT ![s].owner = NoProcess]
    /\ UNCHANGED <<process, checkpoint, consumer, pushed>>

\* A process dies: its processors and what stands in its channel are gone.
Crash(i) ==
    /\ process[i].rpc \in {"run", "shutdown"}
    /\ process' = [process EXCEPT ![i] = [@ EXCEPT !.rpc = "dead", !.inch = 0]]
    /\ consumer' = [consumer EXCEPT ![i] = [s \in Shards |-> NoConsumer]]
    /\ UNCHANGED <<lease, checkpoint, pushed>>

Drain(i) ==
    /\ process[i].inch > 0
    /\ process' = [process EXCEPT ![i].inch = @ - 1]
    /\ UNCHANGED <<lease, checkpoint, consumer, pushed>>

RunStep(i) == StartWorker(i) \/ SeeDone(i) \/ RunReturn(i)
ConsumerStep(i, s) == Push(i, s) \/ Checkpoint(i, s) \/ Terminate(i, s) \/ Shutdown(i, s)

Next ==
    \/ \E i \in Processes : RunStep(i) \/ Stop(i) \/ ShardsChanged(i) \/ Crash(i) \/ Drain(i)
    \/ \E i \in Processes, s \in Shards :
          ConsumerStep(i, s) \/ Initialize(i, s) \/ ProcessRecords(i, s)
    \/ \E s \in Shards : LeaseExpires(s)

Spec == Init /\ [][Next]_vars

---------------------------------------------------------------------------
\* Properties.

TypeOK ==
    /\ process \in [Processes -> [rpc : {"start", "run", "shutdown", "returned", "dead"},
                                  stopped : BOOLEAN, inch : 0 .. InCap]]
    /\ lease \in [Shards -> [owner : Processes \cup {NoProcess}, given : 0 .. MaxLeases]]
    /\ \A s \in Shards : checkpoint[s] \in 0 .. ShardEnd(s)
    /\ consumer \in [Processes -> [Shards ->
                       [pc : {"none", "ready", "push", "checkpoint"}, pos : Nat, last : Nat]]]
    /\ \A s \in Shards : pushed[s] \subseteq 1 .. Records[s]

\* "Upon fail over, the new instance will get records with sequence number
\* greater than checkpoint position": a record at or below the checkpoint is
\* never read again, so it must have been pushed by somebody, whatever
\* crashes, lost leases and late checkpoints came in between.
NeverSkips ==
    \A s \in Shards : \A n \in 1 .. Records[s] : n <= checkpoint[s] => n \in pushed[s]

\* No processor may push after Run has returned and Wait has closed inch.
NoneLeftBehind ==
    \A i \in Processes, s \in Shards :
        process[i].rpc \in {"returned", "dead"} => At(i, s, "none")

\* Stop() ends Run, though processors may be blocked on a full channel.
StopReturns ==
    \A i \in Processes : process[i].stopped ~> process[i].rpc \in {"returned", "dead"}
=============================================================================
