----------------------------- MODULE KCLProofs -----------------------------
(***************************************************************************)
(* NeverSkips of KCLInput for any number of processes, shards and records, *)
(* any number of crashes and lost leases.                                  *)
(*                                                                         *)
(* A checkpoint is written from the last record of a consumer's batch, at  *)
(* a moment the model leaves open, so NeverSkips needs what every consumer *)
(* in every process knows: all records up to its position were pushed, by  *)
(* it or by whoever wrote the checkpoint it began behind.  That holds      *)
(* whoever has the lease, which is why leases do not occur in IInv.        *)
(***************************************************************************)
EXTENDS KCLInput, TLAPS

Pushed(s, n) == \A k \in 1 .. Records[s] : k <= n => k \in pushed[s]

(* The positions of one consumer are records of its shard; at the moment   *)
(* of a checkpoint the batch has been pushed to its end.                   *)
ConsumerOK(i, s) ==
    /\ consumer[i][s].pos \in 0 .. Records[s]
    /\ consumer[i][s].last \in 0 .. Records[s]
    /\ At(i, s, "push") => consumer[i][s].pos < consumer[i][s].last
    /\ ~At(i, s, "push") => consumer[i][s].pos = consumer[i][s].last
    /\ Pushed(s, consumer[i][s].pos)

Processor == [pc : {"none", "ready", "push", "checkpoint"}, pos : Nat, last : Nat]

Types ==
    /\ consumer \in [Processes -> [Shards -> Processor]]
    /\ checkpoint \in [Shards -> Nat]
    /\ pushed \in [Shards -> SUBSET Nat]

IInv ==
    /\ Types
    /\ \A i \in Processes, s \in Shards : ConsumerOK(i, s)
    /\ \A s \in Shards : checkpoint[s] \in 0 .. ShardEnd(s) /\ Pushed(s, checkpoint[s])

---------------------------------------------------------------------------
(* Nothing is pushed at the start, and no position is behind anything.     *)
LEMMA InitInvariant == ASSUME KCLInputAssumption, Init PROVE IInv
BY DEF KCLInputAssumption, Init, IInv, Types, Processor, ConsumerOK, Pushed, At, NoConsumer, ShardEnd

(* A step that replaces the consumer of one shard in one process, and may  *)
(* push and checkpoint, need only show the new consumer and the new        *)
(* checkpoints to be covered by what is pushed then.                       *)
LEMMA OneConsumer ==
    ASSUME KCLInputAssumption, IInv, NEW i \in Processes, NEW s \in Shards,
           NEW c \in Processor,
           consumer' = [consumer EXCEPT ![i][s] = c],
           c.pos <= Records[s], c.last <= Records[s],
           c.pc = "push" => c.pos < c.last,
           c.pc # "push" => c.pos = c.last,
           \A k \in 1 .. Records[s] : k <= c.pos => k \in pushed'[s],
           pushed' \in [Shards -> SUBSET Nat],
           \A t \in Shards : pushed[t] \subseteq pushed'[t],
           checkpoint' \in [Shards -> Nat],
           \A t \in Shards : (checkpoint[t] \in 0 .. ShardEnd(t) /\ Pushed(t, checkpoint[t]))'
    PROVE  IInv'
<1>1. Types'
  BY DEF IInv, Types
<1>2. ASSUME NEW j \in Processes, NEW t \in Shards
      PROVE  ConsumerOK(j, t)'
  <2>1. CASE j = i /\ t = s
    <3>1. consumer'[i][s] = c
      BY DEF IInv, Types
    <3>2. c.pos \in 0 .. Records[s] /\ c.last \in 0 .. Records[s]
      BY DEF KCLInputAssumption, Processor
    <3> QED
      BY <2>1, <3>1, <3>2 DEF ConsumerOK, Pushed, At
  <2>2. CASE ~(j = i /\ t = s)
    <3>1. consumer'[j][t] = consumer[j][t]
      BY <2>2 DEF IInv, Types
    <3>2. pushed[t] \subseteq pushed'[t]
      OBVIOUS
    <3> QED
      BY <3>1, <3>2 DEF IInv, ConsumerOK, Pushed, At
  <2> QED
    BY <2>1, <2>2
<1> QED
  BY <1>1, <1>2 DEF IInv

(* A step that leaves the consumers, what is checkpointed and what is      *)
(* pushed alone.                                                           *)
LEMMA Unmoved ==
    ASSUME IInv, UNCHANGED <<consumer, checkpoint, pushed>>
    PROVE  IInv'
BY DEF IInv, Types, ConsumerOK, Pushed, At, ShardEnd

---------------------------------------------------------------------------
(* The steps of a record processor.                                        *)

(* Behind the checkpoint, which is not the end of the shard.               *)
LEMMA InitializeKeeps ==
    ASSUME KCLInputAssumption, IInv, NEW i \in Processes, NEW s \in Shards, Initialize(i, s)
    PROVE  IInv'
<1> DEFINE c == [pc |-> "ready", pos |-> checkpoint[s], last |-> checkpoint[s]]
<1>1. checkpoint[s] \in Nat /\ checkpoint[s] <= Records[s] /\ Pushed(s, checkpoint[s])
  BY DEF KCLInputAssumption, IInv, Types, Initialize, ShardEnd
<1>2. consumer' = [consumer EXCEPT ![i][s] = c] /\ UNCHANGED <<checkpoint, pushed>>
  BY DEF Initialize, Become
<1>3. /\ c \in Processor
      /\ c.pos <= Records[s] /\ c.last <= Records[s] /\ c.pc # "push" /\ c.pos = c.last
      /\ c.pos = checkpoint[s]
  BY <1>1 DEF Processor
<1> HIDE DEF c
<1> QED
  BY <1>1, <1>2, <1>3, OneConsumer DEF IInv, Types, Pushed, ShardEnd

LEMMA ProcessRecordsKeeps ==
    ASSUME KCLInputAssumption, IInv, NEW i \in Processes, NEW s \in Shards, ProcessRecords(i, s)
    PROVE  IInv'
<1>1. PICK n \in 1 .. MaxBatch :
         /\ consumer[i][s].pos + n <= Records[s]
         /\ consumer' = [consumer EXCEPT ![i][s] = [pc |-> "push", pos |-> consumer[i][s].pos,
                                                     last |-> consumer[i][s].last + n]]
  BY DEF ProcessRecords, Become
<1> DEFINE c == [pc |-> "push", pos |-> consumer[i][s].pos, last |-> consumer[i][s].last + n]
<1>2. consumer[i][s] \in Processor
  BY DEF IInv, Types
<1>3. /\ consumer[i][s].pos = consumer[i][s].last
      /\ Pushed(s, consumer[i][s].pos)
  BY DEF IInv, ConsumerOK, ProcessRecords, At
<1>4. n \in Nat \ {0} /\ Records[s] \in Nat
  BY DEF KCLInputAssumption
<1>5. consumer' = [consumer EXCEPT ![i][s] = c]
  BY <1>1
<1>6. c \in Processor
      /\ c.pos <= Records[s] /\ c.last <= Records[s] /\ c.pos < c.last
      /\ c.pc = "push" /\ c.pos = consumer[i][s].pos
  BY <1>1, <1>2, <1>3, <1>4 DEF Processor
<1>7. UNCHANGED <<checkpoint, pushed>>
  BY DEF ProcessRecords
<1> HIDE DEF c
<1> QED
  BY <1>3, <1>5, <1>6, <1>7, OneConsumer DEF IInv, Types, Pushed, ShardEnd

(* One more record is pushed, the next behind the position.                *)
LEMMA PushKeeps ==
    ASSUME KCLInputAssumption, IInv, NEW i \in Processes, NEW s \in Shards, Push(i, s)
    PROVE  IInv'
<1> DEFINE n == consumer[i][s].pos + 1
           c == [pc |-> IF n = consumer[i][s].last THEN "checkpoint" ELSE "push",
                 pos |-> n, last |-> consumer[i][s].last]
<1>1. /\ consumer[i][s] \in Processor
      /\ consumer[i][s].pos < consumer[i][s].last /\ consumer[i][s].last <= Records[s]
      /\ Pushed(s, consumer[i][s].pos)
  BY DEF IInv, Types, Processor, ConsumerOK, Push, At
<1>2. /\ consumer' = [consumer EXCEPT ![i][s] = c]
      /\ pushed' = [pushed EXCEPT ![s] = @ \cup {n}]
      /\ checkpoint' = checkpoint
  BY DEF Push, Become
<1>3. Records[s] \in Nat /\ consumer[i][s].pos \in Nat /\ consumer[i][s].last \in Nat
  BY <1>1 DEF KCLInputAssumption, Processor
<1>4. /\ c \in Processor
      /\ c.pos <= Records[s] /\ c.last <= Records[s]
      /\ c.pc = "push" => c.pos < c.last
      /\ c.pc # "push" => c.pos = c.last
  BY <1>1, <1>3 DEF Processor
<1>5. /\ pushed' \in [Shards -> SUBSET Nat]
      /\ \A t \in Shards : pushed[t] \subseteq pushed'[t]
      /\ n \in pushed'[s]
  BY <1>2, <1>3 DEF IInv, Types
<1>6. \A k \in 1 .. Records[s] : k <= c.pos => k \in pushed'[s]
  BY <1>1, <1>3, <1>5 DEF Pushed
<1>7. checkpoint' \in [Shards -> Nat]
      /\ \A t \in Shards : (checkpoint[t] \in 0 .. ShardEnd(t) /\ Pushed(t, checkpoint[t]))'
  BY <1>2, <1>5 DEF IInv, Types, Pushed, ShardEnd
<1> HIDE DEF c, n
<1> QED
  BY <1>2, <1>4, <1>5, <1>6, <1>7, OneConsumer

(* The position has reached the end of the batch.                          *)
LEMMA CheckpointKeeps ==
    ASSUME KCLInputAssumption, IInv, NEW i \in Processes, NEW s \in Shards, Checkpoint(i, s)
    PROVE  IInv'
<1> DEFINE c == [pc |-> "ready", pos |-> consumer[i][s].pos, last |-> consumer[i][s].last]
<1>1. /\ consumer[i][s] \in Processor
      /\ consumer[i][s].pos = consumer[i][s].last /\ consumer[i][s].last <= Records[s]
      /\ Pushed(s, consumer[i][s].last)
  BY DEF IInv, Types, Processor, ConsumerOK, Checkpoint, At
<1>2. /\ consumer' = [consumer EXCEPT ![i][s] = c]
      /\ pushed' = pushed
      /\ checkpoint' = [checkpoint EXCEPT ![s] = consumer[i][s].last] \/ checkpoint' = checkpoint
  BY DEF Checkpoint, Become
<1>3. Records[s] \in Nat /\ consumer[i][s].last \in Nat
  BY <1>1 DEF KCLInputAssumption, Processor
<1>4. /\ c \in Processor
      /\ c.pos <= Records[s] /\ c.last <= Records[s] /\ c.pc # "push" /\ c.pos = c.last
      /\ Pushed(s, c.pos)
  BY <1>1, <1>3 DEF Processor
<1>5. checkpoint' \in [Shards -> Nat]
      /\ \A t \in Shards : (checkpoint[t] \in 0 .. ShardEnd(t) /\ Pushed(t, checkpoint[t]))'
  BY <1>1, <1>2, <1>3 DEF IInv, Types, Pushed, ShardEnd
<1> HIDE DEF c
<1> QED
  BY <1>2, <1>4, <1>5, OneConsumer DEF IInv, Types, Pushed

(* NoConsumer is behind nothing, whatever the checkpoints are.             *)
LEMMA Gone ==
    ASSUME KCLInputAssumption, NEW s \in Shards
    PROVE  /\ NoConsumer \in Processor
           /\ NoConsumer.pos = 0 /\ NoConsumer.last = 0 /\ NoConsumer.pc = "none"
           /\ Records[s] \in Nat /\ \A k \in 1 .. Records[s] : ~(k <= 0)
BY DEF KCLInputAssumption, NoConsumer, Processor, Pushed

(* SHARD_END is checkpointed behind the last record only.                  *)
LEMMA TerminateKeeps ==
    ASSUME KCLInputAssumption, IInv, NEW i \in Processes, NEW s \in Shards, Terminate(i, s)
    PROVE  IInv'
<1>1. /\ consumer' = [consumer EXCEPT ![i][s] = NoConsumer]
      /\ pushed' = pushed
      /\ checkpoint' = [checkpoint EXCEPT ![s] = ShardEnd(s)] \/ checkpoint' = checkpoint
      /\ consumer[i][s].pos = Records[s]
  BY DEF Terminate, Become
<1>2. Pushed(s, Records[s])
  BY <1>1 DEF IInv, ConsumerOK
<1>3. Records[s] \in Nat
  BY Gone
<1>4. Pushed(s, ShardEnd(s))
  BY <1>2, <1>3 DEF Pushed, ShardEnd
<1>5. checkpoint' \in [Shards -> Nat]
      /\ \A t \in Shards : (checkpoint[t] \in 0 .. ShardEnd(t) /\ Pushed(t, checkpoint[t]))'
  BY <1>1, <1>3, <1>4 DEF IInv, Types, Pushed, ShardEnd
<1>6. pushed' \in [Shards -> SUBSET Nat] /\ \A t \in Shards : pushed[t] \subseteq pushed'[t]
  BY <1>1 DEF IInv, Types
<1>7. /\ NoConsumer \in Processor
      /\ NoConsumer.pos <= Records[s] /\ NoConsumer.last <= Records[s]
      /\ NoConsumer.pc # "push" /\ NoConsumer.pos = NoConsumer.last
      /\ \A k \in 1 .. Records[s] : k <= NoConsumer.pos => k \in pushed'[s]
  BY Gone
<1> QED
  BY <1>1, <1>5, <1>6, <1>7, OneConsumer

LEMMA ShutdownKeeps ==
    ASSUME KCLInputAssumption, IInv, NEW i \in Processes, NEW s \in Shards, Shutdown(i, s)
    PROVE  IInv'
<1>1. /\ consumer' = [consumer EXCEPT ![i][s] = NoConsumer]
      /\ pushed' = pushed /\ checkpoint' = checkpoint
  BY DEF Shutdown, Become
<1>2. checkpoint' \in [Shards -> Nat]
      /\ \A t \in Shards : (checkpoint[t] \in 0 .. ShardEnd(t) /\ Pushed(t, checkpoint[t]))'
  BY <1>1 DEF IInv, Types, Pushed, ShardEnd
<1>3. pushed' \in [Shards -> SUBSET Nat] /\ \A t \in Shards : pushed[t] \subseteq pushed'[t]
  BY <1>1 DEF IInv, Types
<1>4. /\ NoConsumer \in Processor
      /\ NoConsumer.pos <= Records[s] /\ NoConsumer.last <= Records[s]
      /\ NoConsumer.pc # "push" /\ NoConsumer.pos = NoConsumer.last
      /\ \A k \in 1 .. Records[s] : k <= NoConsumer.pos => k \in pushed'[s]
  BY Gone
<1> QED
  BY <1>1, <1>2, <1>3, <1>4, OneConsumer

(* All consumers of a process are gone at once.                            *)
LEMMA CrashKeeps ==
    ASSUME KCLInputAssumption, IInv, NEW i \in Processes, Crash(i)
    PROVE  IInv'
<1>1. /\ consumer' = [consumer EXCEPT ![i] = [s \in Shards |-> NoConsumer]]
      /\ UNCHANGED <<checkpoint, pushed>>
  BY DEF Crash
<1>2. NoConsumer \in Processor
  BY DEF NoConsumer, Processor
<1>3. Types'
  BY <1>1, <1>2 DEF IInv, Types
<1>4. ASSUME NEW j \in Processes, NEW t \in Shards
      PROVE  ConsumerOK(j, t)'
  <2>1. CASE j = i
    <3>1. consumer'[j][t] = NoConsumer
      BY <1>1, <2>1 DEF IInv, Types
    <3> QED
      BY <3>1, Gone DEF ConsumerOK, Pushed, At
  <2>2. CASE j # i
    <3>1. consumer'[j][t] = consumer[j][t]
      BY <1>1, <2>2 DEF IInv, Types
    <3> QED
      BY <1>1, <3>1 DEF IInv, ConsumerOK, Pushed, At
  <2> QED
    BY <2>1, <2>2
<1>5. ASSUME NEW t \in Shards
      PROVE  (checkpoint[t] \in 0 .. ShardEnd(t) /\ Pushed(t, checkpoint[t]))'
  BY <1>1 DEF IInv, Pushed, ShardEnd
<1> QED
  BY <1>3, <1>4, <1>5 DEF IInv

---------------------------------------------------------------------------
(* Every step keeps the invariant.                                         *)
LEMMA StepInvariant ==
    ASSUME KCLInputAssumption, IInv, [Next]_vars
    PROVE  IInv'
<1>1. CASE UNCHANGED vars
  BY <1>1, Unmoved DEF vars
<1>2. CASE \E i \in Processes : RunStep(i) \/ Stop(i) \/ ShardsChanged(i) \/ Drain(i)
  BY <1>2, Unmoved DEF RunStep, StartWorker, SeeDone, RunReturn, Stop, ShardsChanged, Drain
<1>3. CASE \E i \in Processes : Crash(i)
  BY <1>3, CrashKeeps
<1>4. CASE \E i \in Processes, s \in Shards :
             ConsumerStep(i, s) \/ Initialize(i, s) \/ ProcessRecords(i, s)
  <2>1. PICK i \in Processes, s \in Shards :
             ConsumerStep(i, s) \/ Initialize(i, s) \/ ProcessRecords(i, s)
    BY <1>4
  <2>2. CASE ConsumerStep(i, s)
    BY <2>2, PushKeeps, CheckpointKeeps, TerminateKeeps, ShutdownKeeps DEF ConsumerStep
  <2>3. CASE Initialize(i, s)
    BY <2>3, InitializeKeeps
  <2>4. CASE ProcessRecords(i, s)
    BY <2>4, ProcessRecordsKeeps
  <2> QED
    BY <2>1, <2>2, <2>3, <2>4
<1>5. CASE \E s \in Shards : LeaseExpires(s)
  BY <1>5, Unmoved DEF LeaseExpires
<1> QED
  BY <1>1, <1>2, <1>3, <1>4, <1>5 DEF Next

(* The inductive invariant holds in every state of every behaviour.        *)
THEOREM Invariance == ASSUME KCLInputAssumption PROVE Spec => []IInv
<1>1. Init => IInv
  BY InitInvariant
<1>2. IInv /\ [Next]_vars => IInv'
  BY StepInvariant
<1> QED
  BY <1>1, <1>2, PTL DEF Spec

(* No record below a checkpoint is missing: the promise KCL's failover     *)
(* rests on, kept by ProcessRecords pushing a batch to its end before it   *)
(* checkpoints, whoever else reads the shard.                              *)
THEOREM CheckpointCovered == ASSUME KCLInputAssumption PROVE Spec => []NeverSkips
<1>1. IInv => NeverSkips
  BY DEF IInv, Pushed, NeverSkips
<1> QED
  BY <1>1, Invariance, PTL

---------------------------------------------------------------------------
(* What processes and leases are, and that a processor only runs in a      *)
(* process whose Run has begun and not returned.  NoneLeftBehind alone is  *)
(* not inductive: a Run that fails at once returns from its start.         *)
Runs ==
    /\ process \in [Processes -> [rpc : {"start", "run", "shutdown", "returned", "dead"},
                                  stopped : BOOLEAN, inch : 0 .. InCap]]
    /\ lease \in [Shards -> [owner : Processes \cup {NoProcess}, given : 0 .. MaxLeases]]
    /\ \A s \in Shards : pushed[s] \subseteq 1 .. Records[s]
    /\ \A i \in Processes, s \in Shards :
          process[i].rpc \in {"start", "returned", "dead"} => At(i, s, "none")

LEMMA InitRuns == ASSUME KCLInputAssumption, Init PROVE Runs
<1>1. 0 \in 0 .. InCap /\ 0 \in 0 .. MaxLeases
  BY DEF KCLInputAssumption
<1> QED
  BY <1>1 DEF Init, Runs, At, NoConsumer

(* One processor moves in a process that runs.                              *)
LEMMA ProcessorRuns ==
    ASSUME KCLInputAssumption, IInv, Runs, NEW i \in Processes, NEW s \in Shards,
           ConsumerStep(i, s) \/ Initialize(i, s) \/ ProcessRecords(i, s)
    PROVE  Runs'
<1>1. /\ process \in [Processes -> [rpc : {"start", "run", "shutdown", "returned", "dead"},
                                    stopped : BOOLEAN, inch : 0 .. InCap]]
      /\ lease \in [Shards -> [owner : Processes \cup {NoProcess}, given : 0 .. MaxLeases]]
      /\ consumer \in [Processes -> [Shards -> Processor]]
  BY DEF Runs, IInv, Types
<1>2. ~At(i, s, "none") \/ Rpc(i, "run")
  BY DEF ConsumerStep, Push, Checkpoint, Terminate, Shutdown, Initialize, ProcessRecords, At
<1>3. process[i].rpc \notin {"start", "returned", "dead"}
  BY <1>2 DEF Runs, Rpc
<1>4. PICK c : consumer' = [consumer EXCEPT ![i][s] = c]
  BY DEF ConsumerStep, Push, Checkpoint, Terminate, Shutdown, Initialize, ProcessRecords, Become
<1>5. /\ \A j \in Processes : process'[j].rpc = process[j].rpc
      /\ process' \in [Processes -> [rpc : {"start", "run", "shutdown", "returned", "dead"},
                                     stopped : BOOLEAN, inch : 0 .. InCap]]
  <2>1. CASE process' = process BY <1>1, <2>1
  <2>2. CASE process[i].inch < InCap /\ process' = [process EXCEPT ![i].inch = @ + 1]
    <3>1. process[i].inch + 1 \in 0 .. InCap
      BY <1>1, <2>2 DEF KCLInputAssumption
    <3> QED BY <1>1, <2>2, <3>1
  <2> QED
    BY <2>1, <2>2
       DEF ConsumerStep, Push, Checkpoint, Terminate, Shutdown, Initialize, ProcessRecords
<1>6. lease' \in [Shards -> [owner : Processes \cup {NoProcess}, given : 0 .. MaxLeases]]
  <2>1. CASE lease' = lease BY <1>1, <2>1
  <2>2. CASE \E o \in Processes \cup {NoProcess} : lease' = [lease EXCEPT ![s].owner = o]
    BY <1>1, <2>2
  <2>3. CASE Initialize(i, s)
    <3>1. lease[s].given < MaxLeases
          /\ lease' = [lease EXCEPT ![s] = [owner |-> i, given |-> @.given + 1]]
      BY <2>3 DEF Initialize
    <3>2. lease[s].given + 1 \in 0 .. MaxLeases
      BY <1>1, <3>1 DEF KCLInputAssumption
    <3> QED BY <1>1, <3>1, <3>2
  <2>4. CASE Terminate(i, s) BY <2>2, <2>4 DEF Terminate
  <2>5. CASE Shutdown(i, s)
    <3>1. PICK o : o = IF lease[s].owner = i THEN NoProcess ELSE lease[s].owner
      OBVIOUS
    <3>2. o \in Processes \cup {NoProcess} BY <1>1, <3>1
    <3>3. lease' = [lease EXCEPT ![s].owner = o] BY <2>5, <3>1 DEF Shutdown
    <3> QED BY <2>2, <3>2, <3>3
  <2> QED BY <2>1, <2>3, <2>4, <2>5 DEF ConsumerStep, Push, Checkpoint, ProcessRecords
<1>7. ASSUME NEW t \in Shards PROVE pushed'[t] \subseteq 1 .. Records[t]
  <2>1. CASE Push(i, s)
    <3>1. pushed' = [pushed EXCEPT ![s] = @ \cup {consumer[i][s].pos + 1}]
      BY <2>1 DEF Push
    <3>2. consumer[i][s].pos + 1 \in 1 .. Records[s]
      <4>1. /\ consumer[i][s].pos \in Nat /\ consumer[i][s].last \in Nat
            /\ consumer[i][s].pos < consumer[i][s].last /\ consumer[i][s].last <= Records[s]
        BY <2>1 DEF IInv, Types, Processor, ConsumerOK, Push, At
      <4>2. Records[s] \in Nat BY DEF KCLInputAssumption
      <4> QED BY <4>1, <4>2
    <3>3. pushed \in [Shards -> SUBSET Nat] BY DEF IInv, Types
    <3> QED BY <3>1, <3>2, <3>3 DEF Runs
  <2>2. CASE pushed' = pushed BY <2>2 DEF Runs
  <2> QED
    BY <2>1, <2>2 DEF ConsumerStep, Checkpoint, Terminate, Shutdown, Initialize, ProcessRecords
<1>8. ASSUME NEW j \in Processes, NEW t \in Shards,
             process'[j].rpc \in {"start", "returned", "dead"}
      PROVE  At(j, t, "none")'
  <2>1. j # i BY <1>3, <1>5, <1>8
  <2>2. consumer'[j] = consumer[j] BY <1>1, <1>4, <2>1
  <2> QED BY <1>5, <1>8, <2>2 DEF Runs, At
<1> QED
  BY <1>5, <1>6, <1>7, <1>8 DEF Runs

(* A step of Run or of the surroundings; only a crash takes processors     *)
(* with it.                                                                *)
LEMMA RunRuns ==
    ASSUME KCLInputAssumption, IInv, Runs, NEW i \in Processes,
           RunStep(i) \/ Stop(i) \/ ShardsChanged(i) \/ Crash(i) \/ Drain(i)
    PROVE  Runs'
<1>1. /\ process \in [Processes -> [rpc : {"start", "run", "shutdown", "returned", "dead"},
                                    stopped : BOOLEAN, inch : 0 .. InCap]]
      /\ consumer \in [Processes -> [Shards -> Processor]]
  BY DEF Runs, IInv, Types
<1>2. lease' = lease /\ pushed' = pushed
  BY DEF RunStep, StartWorker, SeeDone, RunReturn, Stop, ShardsChanged, Crash, Drain
<1>3. PICK p \in [rpc : {"start", "run", "shutdown", "returned", "dead"},
                  stopped : BOOLEAN, inch : 0 .. InCap] :
         /\ process' = [process EXCEPT ![i] = p]
         /\ p.rpc \in {"start", "returned", "dead"} =>
              \/ process[i].rpc \in {"start", "returned", "dead"} /\ consumer' = consumer
              \/ Rpc(i, "shutdown") /\ consumer' = consumer /\ \A s \in Shards : At(i, s, "none")
              \/ Crash(i)
  <2>1. process[i] \in [rpc : {"start", "run", "shutdown", "returned", "dead"},
                        stopped : BOOLEAN, inch : 0 .. InCap]
    BY <1>1
  <2>2. CASE StartWorker(i)
    <3>1. PICK pc \in {"run", "returned"} : process' = [process EXCEPT ![i].rpc = pc]
      BY <2>2 DEF StartWorker
    <3>2. process' = [process EXCEPT ![i] = [process[i] EXCEPT !.rpc = pc]] BY <3>1
    <3>3. Rpc(i, "start") /\ consumer' = consumer BY <2>2 DEF StartWorker
    <3> QED BY <2>1, <3>2, <3>3 DEF Rpc
  <2>3. CASE SeeDone(i) \/ ShardsChanged(i)
    <3>1. process' = [process EXCEPT ![i] = [process[i] EXCEPT !.rpc = "shutdown"]]
      BY <2>3 DEF SeeDone, ShardsChanged
    <3>2. PICK q : q = [rpc |-> "shutdown", stopped |-> process[i].stopped,
                        inch |-> process[i].inch]
      OBVIOUS
    <3>3. [process[i] EXCEPT !.rpc = "shutdown"] = q BY <2>1, <3>2
    <3>4. q \in [rpc : {"start", "run", "shutdown", "returned", "dead"},
                 stopped : BOOLEAN, inch : 0 .. InCap] /\ q.rpc = "shutdown"
      BY <2>1, <3>2
    <3> QED BY <3>1, <3>3, <3>4
  <2>4. CASE RunReturn(i)
    <3>1. /\ process' = [process EXCEPT ![i] = [process[i] EXCEPT !.rpc = "returned"]]
          /\ Rpc(i, "shutdown") /\ consumer' = consumer /\ \A s \in Shards : At(i, s, "none")
      BY <2>4 DEF RunReturn
    <3>2. [process[i] EXCEPT !.rpc = "returned"]
            \in [rpc : {"start", "run", "shutdown", "returned", "dead"},
                 stopped : BOOLEAN, inch : 0 .. InCap]
      BY <2>1
    <3> QED BY <3>1, <3>2
  <2>5. CASE Stop(i)
    <3>1. process' = [process EXCEPT ![i] = [process[i] EXCEPT !.stopped = TRUE]]
          /\ consumer' = consumer
      BY <2>5 DEF Stop
    <3>2. PICK q : q = [process[i] EXCEPT !.stopped = TRUE]
      OBVIOUS
    <3>3. q \in [rpc : {"start", "run", "shutdown", "returned", "dead"},
                 stopped : BOOLEAN, inch : 0 .. InCap]
      BY <2>1, <3>2
    <3>4. q.rpc = process[i].rpc
      BY <2>1, <3>2
    <3> QED BY <3>1, <3>2, <3>3, <3>4
  <2>6. CASE Crash(i)
    <3>1. process' = [process EXCEPT ![i] = [[process[i] EXCEPT !.rpc = "dead"] EXCEPT !.inch = 0]]
      BY <2>6 DEF Crash
    <3>2. 0 \in 0 .. InCap BY DEF KCLInputAssumption
    <3>3. [[process[i] EXCEPT !.rpc = "dead"] EXCEPT !.inch = 0]
            \in [rpc : {"start", "run", "shutdown", "returned", "dead"},
                 stopped : BOOLEAN, inch : 0 .. InCap]
      BY <2>1, <3>2
    <3> QED BY <2>6, <3>1, <3>3
  <2>7. CASE Drain(i)
    <3>1. process[i].inch > 0 /\ consumer' = consumer
          /\ process' = [process EXCEPT ![i] = [process[i] EXCEPT !.inch = process[i].inch - 1]]
      BY <2>7 DEF Drain
    <3>2. process[i].inch - 1 \in 0 .. InCap
      BY <2>1, <3>1 DEF KCLInputAssumption
    <3>3. PICK q : q = [rpc |-> process[i].rpc, stopped |-> process[i].stopped,
                        inch |-> process[i].inch - 1]
      OBVIOUS
    <3>4. [process[i] EXCEPT !.inch = process[i].inch - 1] = q BY <2>1, <3>3
    <3>5. q \in [rpc : {"start", "run", "shutdown", "returned", "dead"},
                 stopped : BOOLEAN, inch : 0 .. InCap] /\ q.rpc = process[i].rpc
      BY <2>1, <3>2, <3>3
    <3> QED BY <3>1, <3>4, <3>5
  <2> QED BY <2>2, <2>3, <2>4, <2>5, <2>6, <2>7 DEF RunStep
<1>4. ASSUME NEW j \in Processes, NEW s \in Shards,
             process'[j].rpc \in {"start", "returned", "dead"}
      PROVE  At(j, s, "none")'
  <2>1. CASE j = i
    <3>1. process'[j] = p BY <1>1, <1>3, <2>1
    <3>2. CASE consumer' = consumer /\ At(i, s, "none") BY <2>1, <3>2 DEF At
    <3>3. CASE Crash(i)
      <4>1. consumer'[i][s] = NoConsumer BY <1>1, <3>3 DEF Crash
      <4> QED BY <2>1, <4>1 DEF At, NoConsumer
    <3> QED BY <1>3, <1>4, <3>1, <3>2, <3>3 DEF Runs
  <2>2. CASE j # i
    <3>1. process'[j] = process[j] BY <1>1, <1>3, <2>2
    <3>2. consumer'[j] = consumer[j]
      BY <1>1, <2>2
         DEF RunStep, StartWorker, SeeDone, RunReturn, Stop, ShardsChanged, Crash, Drain
    <3> QED BY <1>4, <3>1, <3>2 DEF Runs, At
  <2> QED BY <2>1, <2>2
<1>5. process' \in [Processes -> [rpc : {"start", "run", "shutdown", "returned", "dead"},
                                  stopped : BOOLEAN, inch : 0 .. InCap]]
  BY <1>1, <1>3
<1> QED
  BY <1>2, <1>4, <1>5 DEF Runs

LEMMA StepRuns ==
    ASSUME KCLInputAssumption, IInv, Runs, [Next]_vars
    PROVE  Runs'
<1>1. CASE UNCHANGED vars
  BY <1>1 DEF Runs, vars, At
<1>2. CASE \E i \in Processes : RunStep(i) \/ Stop(i) \/ ShardsChanged(i) \/ Crash(i) \/ Drain(i)
  BY <1>2, RunRuns
<1>3. CASE \E i \in Processes, s \in Shards :
             ConsumerStep(i, s) \/ Initialize(i, s) \/ ProcessRecords(i, s)
  BY <1>3, ProcessorRuns
<1>4. CASE \E s \in Shards : LeaseExpires(s)
  <2>1. PICK s \in Shards : LeaseExpires(s) BY <1>4
  <2>2. lease' = [lease EXCEPT ![s] = [lease[s] EXCEPT !.owner = NoProcess]]
        /\ UNCHANGED <<process, checkpoint, consumer, pushed>>
    BY <2>1 DEF LeaseExpires
  <2>3. lease' \in [Shards -> [owner : Processes \cup {NoProcess}, given : 0 .. MaxLeases]]
    BY <2>2 DEF Runs
  <2> QED BY <2>2, <2>3 DEF Runs, At
<1> QED
  BY <1>1, <1>2, <1>3, <1>4 DEF Next

LEMMA RunsTyped == ASSUME KCLInputAssumption, IInv, Runs PROVE TypeOK /\ NoneLeftBehind
BY DEF IInv, Types, Processor, Runs, TypeOK, NoneLeftBehind

(* No processor pushes in a process whose Run has returned: wk.Shutdown()  *)
(* waits for all of them, and none is created behind it.                   *)
THEOREM ProcessorsEndFirst == ASSUME KCLInputAssumption PROVE Spec => []NoneLeftBehind
<1>1. Init => IInv /\ Runs
  BY InitInvariant, InitRuns
<1>2. IInv /\ Runs /\ [Next]_vars => (IInv /\ Runs)'
  BY StepInvariant, StepRuns
<1>3. IInv /\ Runs => NoneLeftBehind
  BY RunsTyped
<1> QED
  BY <1>1, <1>2, <1>3, PTL DEF Spec
=============================================================================
