----------------------------- MODULE MCSources -----------------------------
(***************************************************************************)
(* A small instance of Sources, and the fairness of the inputs.  SQS: five *)
(* messages of different kinds in two queues.  Kinesis: two closed shards, *)
(* one that ends with records, one without.                                *)
(***************************************************************************)
EXTENDS Sources

MCQueueOf == [m1 |-> "q1", m2 |-> "q2", m3 |-> "q2", m4 |-> "q1", m5 |-> "q2"]
MCKind == [m1 |-> "ok", m2 |-> "filtered", m3 |-> "corrupt", m4 |-> "nopath", m5 |-> "notgzip"]
MCChunks == [m \in Messages |-> IF m \in {"m1", "m3"} THEN 2 ELSE 1]
MCMaxReceives == [m \in Messages |-> IF m = "m1" THEN 2 ELSE 1]
MCEnds == [s1 |-> <<1, 3>>, s2 |-> <<2, 2>>]
MCKclRecords == [s1 |-> 2]

(* Every goroutine runs on; a request is answered and the filters take     *)
(* what is sent.  A TCP peer does something or is mute from then on.       *)
(* Nobody has to call Stop().  source never changes, so a condition on a   *)
(* disjunction of steps of different inputs is the condition on the step   *)
(* of the input there is.                                                  *)
SqsStep(A) == Only("sqs") /\ Sqs!Alive /\ A
TcpStep(A) == Only("tcp") /\ Tcp!Alive /\ A
KinStep(A) == Only("kinesis") /\ Kin!Alive /\ A
KclStep(A) == Only("kcl") /\ A

Fairness ==
    /\ WF_vars(\/ SqsStep(Sqs!RunStep) \/ TcpStep(Tcp!RunStep) \/ KinStep(Kin!RunStep)
               \/ KclStep(Kcl!RunStep("b1")))
    /\ WF_vars(\/ SqsStep(Sqs!Drain) \/ TcpStep(Tcp!Drain) \/ KinStep(Kin!Drain)
               \/ KclStep(Kcl!Drain("b1")))
    /\ WF_vars(\/ SqsStep(Sqs!PollerStep("q1")) \/ TcpStep(Tcp!ConnStep("p1"))
               \/ KinStep(Kin!ShardStep("s1")) \/ KclStep(Kcl!RunStep("b2")))
    /\ WF_vars(\/ SqsStep(Sqs!PollerStep("q2")) \/ TcpStep(Tcp!ConnStep("p2"))
               \/ KinStep(Kin!ShardStep("s2")) \/ KclStep(Kcl!Drain("b2")))
    /\ WF_vars(\/ SqsStep(Sqs!CloseDone) \/ TcpStep(Tcp!PeerActs("p1"))
               \/ KclStep(Kcl!ConsumerStep("b1", "s1")))
    /\ WF_vars(TcpStep(Tcp!PeerActs("p2")) \/ KclStep(Kcl!ConsumerStep("b2", "s1")))

FairSpec == Spec /\ Fairness
=============================================================================
