---------------------------- MODULE KinesisInput ----------------------------
(***************************************************************************)
(* The Kinesis input (input/kinesis.go): one goroutine per shard of the    *)
(* stream asks for a shard iterator and then for page after page of        *)
(* records, sending each record to the filters.  A throttled request is    *)
(* repeated with the same iterator; any other error ends the shard.        *)
(*                                                                         *)
(* Kinesis is external: a shard is a sequence of pages, each a number of   *)
(* records; behind the last page of a closed shard there is no iterator,   *)
(* an open shard goes on with empty pages.                                 *)
(***************************************************************************)
EXTENDS Integers, Sequences, FiniteSets

CONSTANTS
    Shards,
    Ends,           \* Ends[s][i]: the last record of the i-th page (bound: its length)
    Closed,         \* the shards that are closed behind their last page
    InCap           \* capacity of the topology's inch

\* What the constants must be.
KinesisInputAssumption ==
    /\ Ends \in [Shards -> Seq(Nat)]
    /\ \A s \in Shards : \A i \in 1 .. Len(Ends[s]) - 1 : Ends[s][i] <= Ends[s][i + 1]
    /\ Closed \subseteq Shards /\ InCap \in Nat \ {0}

VARIABLES
    rpc,        \* Run: "run", "wait", "returned"
    stopped,    \* the stop flag
    inch,       \* buffers on the topology's channel
    sent,       \* the records sent, a sequence of <<item, number>>
    shard       \* shard[s]: [pc, page, left, n]: where its goroutine is, the page its
                \* iterator points to, the records left of the page, those sent

vars == <<rpc, stopped, inch, sent, shard>>

LocalInit == shard = [s \in Shards |-> [pc |-> "none", page |-> 1, left |-> 0, n |-> 0]]

Init == rpc = "run" /\ stopped = FALSE /\ inch = 0 /\ sent = <<>> /\ LocalInit

At(s, pc) == shard[s].pc = pc
Goto(s, pc) == shard' = [shard EXCEPT ![s].pc = pc]

Before(s, page) == IF page = 1 THEN 0 ELSE Ends[s][page - 1]
OnPage(s, page) == IF page <= Len(Ends[s]) THEN Ends[s][page] - Before(s, page) ELSE 0

\* NextShardIterator of the answer for this page is nil.
NoIterator(s, page) == s \in Closed /\ page >= Len(Ends[s])

---------------------------------------------------------------------------
\* Run and Stop.

StartShards ==
    /\ rpc = "run"
    /\ rpc' = "wait"
    /\ shard' = [s \in Shards |-> [shard[s] EXCEPT !.pc = "iterator"]]
    /\ UNCHANGED <<stopped, inch, sent>>

RunReturn ==
    /\ rpc = "wait" /\ \A s \in Shards : At(s, "exited")
    /\ rpc' = "returned"
    /\ UNCHANGED <<stopped, inch, sent, shard>>

Stop ==
    /\ ~stopped
    /\ stopped' = TRUE
    /\ UNCHANGED <<rpc, inch, sent, shard>>

---------------------------------------------------------------------------
\* ProcessRecords.

GetShardIterator(s) ==
    /\ At(s, "iterator")
    /\ \/ Goto(s, "test")
       \/ Goto(s, "exited")
    /\ UNCHANGED <<rpc, stopped, inch, sent>>

\* for stop == 0 { ... *nextShardIterator: the iterator is nil behind the last
\* page of a closed shard.
TestStop(s) ==
    /\ At(s, "test")
    /\ Goto(s, IF stopped THEN "exited"
               ELSE IF shard[s].page > 1 /\ NoIterator(s, shard[s].page - 1) THEN "panic"
               ELSE "get")
    /\ UNCHANGED <<rpc, stopped, inch, sent>>

\* A page with records is sent; an empty one ends a closed shard.
GetRecords(s) ==
    /\ At(s, "get")
    /\ LET page == shard[s].page
       IN  shard' = [shard EXCEPT
             ![s].pc = IF OnPage(s, page) > 0 THEN "send"
                       ELSE IF NoIterator(s, page) THEN "exited" ELSE "next",
             ![s].left = OnPage(s, page)]
    /\ UNCHANGED <<rpc, stopped, inch, sent>>

\* ProvisionedThroughputExceededException: sleep, then the loop's condition.
Throttled(s) ==
    /\ At(s, "get")
    /\ Goto(s, "test")
    /\ UNCHANGED <<rpc, stopped, inch, sent>>

GetRecordsFails(s) ==
    /\ At(s, "get")
    /\ Goto(s, "exited")
    /\ UNCHANGED <<rpc, stopped, inch, sent>>

Send(s) ==
    /\ At(s, "send") /\ inch < InCap
    /\ inch' = inch + 1
    /\ sent' = Append(sent, <<s, shard[s].n + 1>>)
    /\ shard' = [shard EXCEPT ![s].n = @ + 1, ![s].left = @ - 1,
                              ![s].pc = IF shard[s].left = 1 THEN "next" ELSE "send"]
    /\ UNCHANGED <<rpc, stopped>>

\* nextShardIterator = resp1.NextShardIterator, and the idle time.  (An open
\* shard stays on the empty page behind its last one.)
NextIterator(s) ==
    /\ At(s, "next")
    /\ shard' = [shard EXCEPT ![s].pc = "test",
                              ![s].page = IF @ <= Len(Ends[s]) THEN @ + 1 ELSE @]
    /\ UNCHANGED <<rpc, stopped, inch, sent>>

\* The filters take the records away.
Drain ==
    /\ inch > 0
    /\ inch' = inch - 1
    /\ UNCHANGED <<rpc, stopped, sent, shard>>

RunStep == StartShards \/ RunReturn
ShardStep(s) == \/ GetShardIterator(s) \/ TestStop(s) \/ GetRecords(s) \/ Throttled(s)
                \/ GetRecordsFails(s) \/ Send(s) \/ NextIterator(s)

\* A panic ends the process.
Alive == \A s \in Shards : ~At(s, "panic")

Next == Alive /\ (RunStep \/ Stop \/ Drain \/ \E s \in Shards : ShardStep(s))

Spec == Init /\ [][Next]_vars

---------------------------------------------------------------------------
\* Properties.

Pcs == {"none", "iterator", "test", "get", "send", "next", "exited", "panic"}

TypeOK ==
    /\ rpc \in {"run", "wait", "returned"} /\ stopped \in BOOLEAN
    /\ inch \in 0 .. InCap /\ sent \in Seq(Shards \X Nat)
    /\ shard \in [Shards -> [pc : Pcs, page : Nat \ {0}, left : Nat, n : Nat]]

\* No goroutine may send on inch after Run has returned and Wait has closed it.
NoneLeftBehind == rpc = "returned" => \A s \in Shards : At(s, "exited")

\* The records of a shard are sent in order, each once; and between two pages
\* they are those of all pages before its iterator, however often it was
\* throttled.
NoGap ==
    /\ \A i \in DOMAIN sent :
          sent[i][2] = Cardinality({j \in 1 .. i : sent[j][1] = sent[i][1]})
    /\ \A s \in Shards :
          At(s, "test") \/ At(s, "get") => shard[s].n = Before(s, shard[s].page)

\* Stop() ends Run, whatever throttling and slow filters do.
StopReturns == stopped ~> (rpc = "returned" \/ ~Alive)
=============================================================================
