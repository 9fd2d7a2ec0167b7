------------------------------ MODULE DynamoDB ------------------------------
(***************************************************************************)
(* The DynamoDB output (output/dyndb.go): push gathers records in a batch, *)
(* which is written to every region when it is full, when the timer has    *)
(* not been reset for flush_interval and at the end of Run.  A lock makes  *)
(* sure that one of Run and the timer's goroutine has the batch; it is     *)
(* held until every region has answered.                                   *)
(*                                                                         *)
(* A record is its position in the stream, Key its primary key.            *)
(***************************************************************************)
EXTENDS Integers, Sequences, FiniteSets

CONSTANTS Regions,
          Key,        \* sequence: the primary keys of the records
          BatchSize,  \* nRequests
          MaxTries,   \* bound: requests per batch and region before the deadline
          NoWriter

Elems(s) == {s[i] : i \in DOMAIN s}

DynamoAssumption == /\ IsFiniteSet(Regions) /\ Key \in Seq(Elems(Key))
                    /\ BatchSize \in Nat \ {0} /\ MaxTries \in Nat \ {0}
                    /\ NoWriter \notin {"run", "timer"}

VARIABLES run,      \* "receive", "push", "last", "returned", "dead" (log.Fatal)
          taken,    \* records received
          batch,    \* reqbuf[:reqn]
          lock,     \* who flushes: "run", "timer" or NoWriter
          timer,    \* "armed", "fired" (its goroutine waits for the lock), "off"
          proc,     \* region -> its dynamoProcess: items to write, tries
          table,    \* region -> key -> record
          skipped,  \* duplicates of a key of their batch
          lost,     \* region -> records it was not able to write
          dyntotaln

dynvars == <<run, taken, batch, lock, timer, proc, table, skipped, lost, dyntotaln>>

Records == 1..Len(Key)
KeysOf(items) == {Key[i] : i \in items}
Free == lock = NoWriter

DynInit ==
    /\ run = "receive" /\ taken = 0 /\ batch = <<>> /\ lock = NoWriter
    /\ timer = "armed" /\ skipped = {} /\ dyntotaln = 0
    /\ proc = [r \in Regions |-> [items |-> {}, tries |-> 0]]
    /\ table = [r \in Regions |-> [k \in Elems(Key) |-> 0]]
    /\ lost = [r \in Regions |-> {}]

(* Run receives a record, or sees that its channel is closed.               *)
Receive ==
    /\ run = "receive"
    /\ IF taken < Len(Key) THEN run' = "push" /\ taken' = taken + 1
                           ELSE run' = "last" /\ UNCHANGED taken
    /\ UNCHANGED <<batch, lock, timer, proc, table, skipped, lost, dyntotaln>>

(* BeginWriting of every region; each of them has room for the request.     *)
StartFlush(who, items) ==
    /\ lock' = who
    /\ proc' = [r \in Regions |-> [items |-> Elems(items), tries |-> 0]]

(* push: a record whose key is in the batch is dropped; one that completes  *)
(* the batch flushes it.                                                    *)
Push ==
    /\ run = "push" /\ Free
    /\ LET next == Append(batch, taken)
       IN  \/ /\ Key[taken] \in KeysOf(Elems(batch))
              /\ skipped' = skipped \cup {taken}
              /\ run' = "receive"
              /\ UNCHANGED <<batch, lock, timer, proc>>
           \/ /\ Key[taken] \notin KeysOf(Elems(batch))
              /\ batch' = next
              /\ IF Len(next) = BatchSize
                 THEN StartFlush("run", next) /\ UNCHANGED <<run, timer>>
                 ELSE run' = "receive" /\ timer' = "armed" /\ UNCHANGED <<lock, proc>>
              /\ UNCHANGED skipped
    /\ UNCHANGED <<taken, table, lost, dyntotaln>>

(* Run's last Flush.                                                        *)
LastFlush ==
    /\ run = "last" /\ Free
    /\ IF batch = <<>> THEN run' = "returned" /\ UNCHANGED <<lock, proc>>
                       ELSE StartFlush("run", batch) /\ UNCHANGED run
    /\ UNCHANGED <<taken, batch, timer, table, skipped, lost, dyntotaln>>

TimerFires ==
    /\ timer = "armed"
    /\ timer' = "fired"
    /\ UNCHANGED <<run, taken, batch, lock, proc, table, skipped, lost, dyntotaln>>

TimerFlush ==
    /\ timer = "fired" /\ Free
    /\ IF batch = <<>> THEN timer' = "off" /\ UNCHANGED <<lock, proc>>
                       ELSE StartFlush("timer", batch) /\ UNCHANGED timer
    /\ UNCHANGED <<run, taken, batch, table, skipped, lost, dyntotaln>>

(* The region has items to write; it writes some of them.                   *)
Busy(r) == proc[r].items # {}
Put(r, items) ==
    table' = [table EXCEPT ![r] = [k \in DOMAIN @ |->
                 IF k \in KeysOf(items) THEN CHOOSE i \in items : Key[i] = k ELSE @[k]]]

(* Fault: what the region left unprocessed is not sent again.               *)
BatchWriteOnce(r) ==
    /\ Busy(r)
    /\ \E left \in SUBSET proc[r].items : Put(r, proc[r].items \ left)
    /\ proc' = [proc EXCEPT ![r] = [items |-> {}, tries |-> @.tries + 1]]
    /\ UNCHANGED <<run, taken, batch, lock, timer, skipped, lost, dyntotaln>>

(* doRequest.  The region may write any part of the items and leave the     *)
(* others unprocessed, which are tried again until the deadline...          *)
BatchWrite(r) ==
    /\ Busy(r) /\ proc[r].tries < MaxTries
    /\ \E left \in SUBSET proc[r].items :
          /\ Put(r, proc[r].items \ left)
          /\ proc' = [proc EXCEPT ![r] = [items |-> left, tries |-> @.tries + 1]]
    /\ UNCHANGED <<run, taken, batch, lock, timer, skipped, lost, dyntotaln>>

(* ... when it returns nil, since the err it returns is not the one of the  *)
(* loop; a retryable error leaves UnprocessedItems empty and is success.    *)
GiveUp(r) ==
    /\ Busy(r)
    /\ lost' = [lost EXCEPT ![r] = @ \cup proc[r].items]
    /\ proc' = [proc EXCEPT ![r].items = {}]
    /\ UNCHANGED <<run, taken, batch, lock, timer, table, skipped, dyntotaln>>

(* Any other error ends the process.                                        *)
Fail(r) ==
    /\ Busy(r)
    /\ run' = "dead"
    /\ UNCHANGED <<taken, batch, lock, timer, proc, table, skipped, lost, dyntotaln>>

(* Wait has heard from every region: whatever they say the batch counts as  *)
(* written.                                                                 *)
EndFlush ==
    /\ ~Free /\ \A r \in Regions : ~Busy(r)
    /\ dyntotaln' = dyntotaln + Len(batch) /\ batch' = <<>>
    /\ lock' = NoWriter
    /\ IF lock = "timer" THEN timer' = "off" /\ UNCHANGED run
       ELSE run' = (IF run = "last" THEN "returned" ELSE "receive") /\ UNCHANGED timer
    /\ UNCHANGED <<taken, proc, table, skipped, lost>>

DynRun == Receive \/ Push \/ LastFlush
DynProc(r) == BatchWrite(r) \/ GiveUp(r) \/ Fail(r)
DynNext == /\ run # "dead"
           /\ DynRun \/ TimerFires \/ TimerFlush \/ EndFlush \/ \E r \in Regions : DynProc(r)

(* A request is answered; after the deadline there is none any more.  The   *)
(* lock is not denied for ever to a goroutine that waits for it.            *)
DynSpec == /\ DynInit /\ [][DynNext]_dynvars
           /\ SF_dynvars(DynRun) /\ SF_dynvars(TimerFlush) /\ WF_dynvars(EndFlush)
           /\ \A r \in Regions : WF_dynvars(run # "dead" /\ DynProc(r))

DynTypeOK ==
    /\ run \in {"receive", "push", "last", "returned", "dead"} /\ taken \in 0..Len(Key)
    /\ Elems(batch) \subseteq Records /\ lock \in {"run", "timer", NoWriter}
    /\ timer \in {"armed", "fired", "off"} /\ dyntotaln \in 0..Len(Key)
    /\ \A r \in Regions : proc[r].items \subseteq Elems(batch) /\ lost[r] \subseteq Records
    /\ Len(batch) <= BatchSize /\ \A r \in Regions : proc[r].tries \in 0..MaxTries

(* However the timer and Run take turns, every record received is in every  *)
(* region when Run has returned, or a later one of its key is, unless it    *)
(* was a duplicate within its batch or the region did not accept it; and    *)
(* the processed records are the ones that were not duplicates.             *)
EveryRegionHasAll ==
    run = "returned" =>
        /\ dyntotaln = Len(Key) - Cardinality(skipped)
        /\ \A r \in Regions : \A i \in Records \ (skipped \cup lost[r]) :
              table[r][Key[i]] >= i

(* A request never holds a key twice, which DynamoDB would refuse, and a    *)
(* region never replaces a record by an earlier one of its key.             *)
NewestStays ==
    [][/\ \A i, j \in DOMAIN batch' : i # j => Key[batch'[i]] # Key[batch'[j]]
       /\ \A r \in Regions : \A k \in DOMAIN table[r] : table'[r][k] >= table[r][k]]_dynvars

(* The output ends when its channel is closed.                              *)
DynReturns == <>(run \in {"returned", "dead"})
=============================================================================
