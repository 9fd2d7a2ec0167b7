----------------------------- MODULE MCOutputs -----------------------------
(***************************************************************************)
(* A small instance of Outputs: two keys, files and regions, a stream with *)
(* the same primary key twice in a row; and the fairness of the parts.     *)
(***************************************************************************)
EXTENDS Outputs

MCKey == <<"a", "a", "b">>

(* The fairness of each part, as its module explains it; the SQLite output  *)
(* waits for nothing but its input.  part never changes, so a condition on  *)
(* a disjunction of steps of different parts is the condition on the step   *)
(* of the part there is.                                                    *)
FileStep(A) == Only("filewriter") /\ ~died /\ A
S3Step(A) == Only("s3") /\ A
DynamoStep(A) == Only("dynamodb") /\ run # "dead" /\ A

Fairness ==
    /\ WF_vars(\/ FileStep(File!RunStep) \/ S3Step(S3!RunStep)
               \/ DynamoStep(Dynamo!EndFlush))
    /\ WF_vars(\/ FileStep(File!UploaderReady) \/ S3Step(S3!Tick)
               \/ DynamoStep(Dynamo!DynProc("r1")))
    /\ WF_vars(\/ FileStep(File!Drain("k1")) \/ S3Step(S3!ScanStep)
               \/ DynamoStep(Dynamo!DynProc("r2")))
    /\ WF_vars(FileStep(File!Drain("k2")) \/ S3Step(S3!FileStep("f1")))
    /\ WF_vars(S3Step(S3!FileStep("f2")))
    /\ SF_vars(\/ FileStep(File!SendPath("k1") \/ File!SendLast("k1"))
               \/ S3Step(S3!SeeQuit) \/ DynamoStep(Dynamo!DynRun))
    /\ SF_vars(\/ FileStep(File!SendPath("k2") \/ File!SendLast("k2"))
               \/ DynamoStep(Dynamo!TimerFlush))
    /\ \A k \in Keys : SF_vars(FileStep(File!WriteLine(k) \/ File!EndOfLines(k)))

FairSpec == Spec /\ Fairness
=============================================================================
