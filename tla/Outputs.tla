------------------------------ MODULE Outputs ------------------------------
(***************************************************************************)
(* The components at the end of a topology: the FileWriter, DynamoDB and   *)
(* SQLite outputs and the S3 uploader.  They only meet in upch, which each *)
(* of the modules describes from its own side, so part is chosen in the    *)
(* initial state, the steps are those of that part, and the variables of   *)
(* the others keep an initial value.                                       *)
(***************************************************************************)
EXTENDS Integers, Sequences, FiniteSets

CONSTANTS
    Keys, MaxRecs, MaxRotations, MaxWriteFails, MaxClosers, RotateInterval, RotateSize,
    DiscardEmptyFiles, CreateFails,                                        \* FileWriter
    Files, NoFile, Retries, MaxConcurrency, ExitOnErrors, ErrChCap, MaxFails, \* S3Upload
    Regions, Key, BatchSize, MaxTries, NoWriter,                           \* DynamoDB
    MaxRows, MaxRuns                                                       \* SQLite

VARIABLES part,
          stream, rpc, taken, totaln, runErr, in, inClosed, wpc, rotateIdx,
          writtenOnce, given, failed, exist, disk, handed, uploader, died,
          exitOnError, concurrency, unsent, upchClosed, s3rpc, rfile, result, source,
          staging, bucket, gpc, last, start, visited, gfile, walkErr, exitErr, up,
          tries, gaveUp, quit, errCh, s3totaln, totalerr, queuedn, fails,
          run, received, batch, lock, timer, proc, table, skipped, lost, dyntotaln,
          sqlcfg, sql, db, tx, inserted, upch

File == INSTANCE FileWriter WITH MaxFails <- MaxWriteFails
S3 == INSTANCE S3Upload WITH rpc <- s3rpc, totaln <- s3totaln
Dynamo == INSTANCE DynamoDB WITH taken <- received
Sqlite == INSTANCE SQLite

ASSUME OutputsAssumption ==
    /\ File!FileWriterAssumption /\ S3!S3Assumption
    /\ Dynamo!DynamoAssumption /\ Sqlite!SQLiteAssumption

filevars == <<stream, rpc, taken, totaln, runErr, in, inClosed, wpc, rotateIdx,
              writtenOnce, given, failed, exist, disk, handed, uploader, died>>
s3vars == <<exitOnError, concurrency, unsent, upchClosed, s3rpc, rfile, result, source,
            staging, bucket, gpc, last, start, visited, gfile, walkErr, exitErr, up,
            tries, gaveUp, quit, errCh, s3totaln, totalerr, queuedn, fails>>
dynvars == <<run, received, batch, lock, timer, proc, table, skipped, lost, dyntotaln>>
sqlvars == <<sqlcfg, sql, db, tx, inserted, upch>>
vars == <<part, filevars, s3vars, dynvars, sqlvars>>

Only(p) ==
    /\ part = p /\ UNCHANGED part
    /\ p # "filewriter" => UNCHANGED filevars
    /\ p # "s3" => UNCHANGED s3vars
    /\ p # "dynamodb" => UNCHANGED dynvars
    /\ p # "sqlite" => UNCHANGED sqlvars

Init ==
    /\ part \in {"filewriter", "s3", "dynamodb", "sqlite"}
    /\ File!Init /\ (part # "filewriter" => stream = <<>>)
    /\ S3!Init /\ (part # "s3" => staging = {} /\ ~exitOnError /\ concurrency = 1)
    /\ Dynamo!DynInit
    /\ Sqlite!SqlInit
    /\ part # "sqlite" => sqlcfg = [clear |-> FALSE, vacuum |-> FALSE,
                                    prerun |-> FALSE, postrun |-> FALSE]

Next ==
    \/ Only("filewriter") /\ File!Next
    \/ Only("s3") /\ S3!Next
    \/ Only("dynamodb") /\ Dynamo!DynNext
    \/ Only("sqlite") /\ Sqlite!SqlNext

Spec == Init /\ [][Next]_vars

(* Each module's type invariant.                                           *)
TypeOK ==
    /\ part = "filewriter" => File!TypeOK
    /\ part = "s3" => S3!TypeOK
    /\ part = "dynamodb" => Dynamo!DynTypeOK
    /\ part = "sqlite" => Sqlite!SqlTypeOK

(* What a component was given is where it has to be: the lines in the files *)
(* named on upch, once and in order, but for the end of a file for which an *)
(* error was logged; a file of the uploader in staging or in the bucket; a  *)
(* record of DynamoDB in every region.                                      *)
NothingLost ==
    /\ part = "filewriter" => File!NothingLost
    /\ part = "s3" => S3!NoFileLost
    /\ part = "dynamodb" => Dynamo!EveryRegionHasAll

(* The FileWriter names every file once, none of them empty, and leaves no  *)
(* other one behind than an empty file it was not able to remove.           *)
FilesAccountedFor == part = "filewriter" => File!FilesAccountedFor

(* When Run of the uploader returns no upload is under way, and what stays  *)
(* in the staging directory was tried as often as it can be.                *)
UploadsEnd == part = "s3" => S3!NoUploadLeftBehind /\ S3!LastUploadComplete

(* A run of the SQLite output leaves all of its rows or none.               *)
AllOrNothing == part = "sqlite" => Sqlite!AllOrNothing

(* What was handed on stays as it was: a file named on upch is not touched  *)
(* any more, a region keeps the newest record of a key.                     *)
NeverUndone == File!HandedFilesAreFinal /\ Dynamo!NewestStays

(* Run returns once the input of the component is closed (or, in the        *)
(* uploader, an error reported): the FileWriter and DynamoDB outputs work   *)
(* towards it from the beginning, since their streams end.                  *)
Ended ==
    \/ part = "filewriter" /\ (rpc = "returned" \/ died)
    \/ part = "s3" /\ s3rpc = "returned"
    \/ part = "dynamodb" /\ run \in {"returned", "dead"}
RunReturns ==
    (part \in {"filewriter", "dynamodb"} \/ (part = "s3" /\ (upchClosed \/ errCh > 0)))
    ~> Ended
=============================================================================
