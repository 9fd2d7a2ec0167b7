--------------------------- MODULE OutputsProofs ---------------------------
(***************************************************************************)
(* Proofs about the components at the end of a topology.  The steps of the *)
(* sum are those of the part chosen in the initial state; an invariant of  *)
(* a part is stated as part = ... => ..., and only the steps of that part  *)
(* have to be looked at.                                                   *)
(***************************************************************************)
EXTENDS Outputs, SequenceTheorems, FiniteSetTheorems, TLAPS

(***************************************************************************)
(* The SQLite output.                                                      *)
(***************************************************************************)
Row == {"prerun", "postrun"} \cup (Nat \X Nat)

(* What the transaction begins with, and the rows of n records.             *)
Opening ==
    IF sqlcfg.clear THEN <<>>
    ELSE IF sqlcfg.prerun THEN Append(db.before, "prerun") ELSE db.before
Inserted(r, n) == [i \in 1..n |-> <<r, i>>]
Closing == IF sqlcfg.postrun THEN <<"postrun">> ELSE <<>>

SqlTypes ==
    /\ sqlcfg \in Sqlite!Flags
    /\ sql \in [pc : {"off", "table", "insert", "commit", "vacuum", "upload"}, runs : Nat]
    /\ db \in [rows : Seq(Row), before : Seq(Row)]
    /\ tx \in Seq(Row) /\ inserted \in Nat
    /\ upch \subseteq Nat /\ \A r \in upch : r <= sql.runs

(* Until the commit the file is as the run found it, and the transaction   *)
(* holds what has been done so far; after it the file is complete, and     *)
(* stays so until the next run begins.                                     *)
SqlInv ==
    /\ SqlTypes
    /\ sql.pc = "table" =>
         /\ inserted = 0 /\ db.rows = db.before
         /\ tx = IF sqlcfg.prerun THEN Append(db.before, "prerun") ELSE db.before
    /\ sql.pc = "insert" => db.rows = db.before /\ tx = Opening \o Inserted(sql.runs, inserted)
    /\ sql.pc = "commit" => db.rows = db.before /\ tx = Sqlite!Complete
    /\ sql.pc \in {"vacuum", "upload"} => db.rows = Sqlite!Complete
    /\ sql.pc = "off" => db.rows \in {db.before, Sqlite!Complete}
    /\ sql.runs \in upch => sql.pc = "off" /\ db.rows = Sqlite!Complete

LEMMA CompleteIs == Sqlite!Complete = (Opening \o Inserted(sql.runs, inserted)) \o Closing
BY DEF Sqlite!Complete, Opening, Inserted, Closing

LEMMA CompleteAfter ==
    Sqlite!Complete' = (Opening' \o Inserted(sql'.runs, inserted')) \o Closing'
BY DEF Sqlite!Complete, Opening, Inserted, Closing

LEMMA InsertedType ==
    ASSUME NEW r \in Nat, NEW n \in Nat
    PROVE  Inserted(r, n) \in Seq(Row) /\ Len(Inserted(r, n)) = n
<1>1. \A i \in 1..n : <<r, i>> \in Row
  BY DEF Row
<1>2. Inserted(r, n) \in [1..n -> Row]
  BY <1>1 DEF Inserted
<1> QED BY <1>2

LEMMA InsertedNone == ASSUME NEW r PROVE Inserted(r, 0) = <<>>
BY DEF Inserted

LEMMA InsertedMore ==
    ASSUME NEW r \in Nat, NEW n \in Nat
    PROVE  Inserted(r, n + 1) = Append(Inserted(r, n), <<r, n + 1>>)
<1>1. <<r, n + 1>> \in Row
  BY DEF Row
<1> DEFINE s == Append(Inserted(r, n), <<r, n + 1>>)
<1>2. s \in Seq(Row) /\ Len(s) = n + 1 /\ s[n + 1] = <<r, n + 1>>
      /\ \A i \in 1..n : s[i] = Inserted(r, n)[i]
  BY <1>1, InsertedType, AppendProperties
<1>3. Inserted(r, n + 1) \in Seq(Row) /\ Len(Inserted(r, n + 1)) = n + 1
  BY InsertedType
<1>4. \A i \in 1..(n + 1) : Inserted(r, n + 1)[i] = s[i]
  <2> TAKE i \in 1..(n + 1)
  <2>1. Inserted(r, n + 1)[i] = <<r, i>>
    BY DEF Inserted
  <2>2. CASE i = n + 1
    BY <2>1, <2>2, <1>2
  <2>3. CASE i # n + 1
    <3>0. i \in 1..n
      BY <2>3
    <3>1. Inserted(r, n)[i] = <<r, i>>
      BY <3>0 DEF Inserted
    <3> QED BY <3>0, <3>1, <2>1, <1>2
  <2> QED BY <2>2, <2>3
<1> HIDE DEF s
<1>5. Inserted(r, n + 1) = s
  BY <1>2, <1>3, <1>4, SeqEqual
<1> QED BY <1>5 DEF s

LEMMA OpeningType == ASSUME SqlTypes PROVE Opening \in Seq(Row)
<1>1. db.before \in Seq(Row) /\ "prerun" \in Row
  BY DEF SqlTypes, Row
<1>2. Append(db.before, "prerun") \in Seq(Row)
  BY <1>1, AppendProperties
<1> QED BY <1>1, <1>2 DEF Opening

LEMMA SqlInitial == Sqlite!SqlInit => SqlInv
<1> SUFFICES ASSUME Sqlite!SqlInit PROVE SqlInv
  OBVIOUS
<1>1. SqlTypes
  BY DEF Sqlite!SqlInit, SqlTypes
<1> QED BY <1>1 DEF Sqlite!SqlInit, SqlInv

(* An insertion appends the next row of the run to the transaction.         *)
LEMMA InsertKeeps == ASSUME SqlInv, Sqlite!Insert PROVE SqlInv'
<1> USE DEF SqlInv, Sqlite!Insert
<1>1. SqlTypes'
  <2>1. <<sql.runs, inserted + 1>> \in Row
    BY DEF SqlTypes, Row
  <2>2. tx' \in Seq(Row)
    BY <2>1, AppendProperties DEF SqlTypes
  <2> QED BY <2>2 DEF SqlTypes
<1>2. tx' = (Opening \o Inserted(sql.runs, inserted))'
  <2>1. PICK o : o = Opening OBVIOUS
  <2>2. PICK s : s = Inserted(sql.runs, inserted) OBVIOUS
  <2>3. PICK x : x = <<sql.runs, inserted + 1>> OBVIOUS
  <2>4. o \in Seq(Row) /\ s \in Seq(Row) /\ x \in Row
    <3>1. sql.runs \in Nat /\ inserted \in Nat
      BY DEF SqlTypes
    <3>2. x \in Row
      BY <2>3, <3>1 DEF Row
    <3> QED BY <2>1, <2>2, <3>1, <3>2, OpeningType, InsertedType
  <2>5. tx' = Append(o \o s, x)
    BY <2>1, <2>2, <2>3
  <2>6. Append(o \o s, x) = o \o Append(s, x)
    <3>1. <<x>> \in Seq(Row) /\ o \o s \in Seq(Row)
      BY <2>4, ConcatProperties
    <3>2. Append(o \o s, x) = (o \o s) \o <<x>>
      BY <3>1, <2>4, AppendIsConcat
    <3>3. Append(s, x) = s \o <<x>>
      BY <2>4, AppendIsConcat
    <3> QED BY <3>1, <3>2, <3>3, <2>4, ConcatAssociative
  <2>7. Append(s, x) = Inserted(sql.runs, inserted + 1)
    BY <2>2, <2>3, InsertedMore DEF SqlTypes
  <2>8. Inserted(sql.runs, inserted)' = Inserted(sql.runs, inserted + 1)
    BY DEF Inserted
  <2>9. Opening' = o
    BY <2>1 DEF Opening
  <2> QED BY <2>5, <2>6, <2>7, <2>8, <2>9
<1>3. sql.runs \notin upch
  OBVIOUS
<1> QED BY <1>1, <1>2, <1>3

(* Once PostRun is done the transaction holds the rows of a complete run.   *)
LEMMA RunPostKeeps == ASSUME SqlInv, Sqlite!RunPost PROVE SqlInv'
<1> USE DEF SqlInv, Sqlite!RunPost
<1>1. sql'.pc = "commit" /\ sql'.runs = sql.runs
  BY DEF SqlTypes
<1>2. "postrun" \in Row
  BY DEF Row
<1>3. SqlTypes'
  <2>1. tx' \in Seq(Row)
    BY <1>2, AppendProperties DEF SqlTypes
  <2> QED BY <1>1, <2>1 DEF SqlTypes
<1>4. tx' = Sqlite!Complete'
  <2>1. PICK s : s = Opening \o Inserted(sql.runs, inserted) OBVIOUS
  <2>2. s \in Seq(Row)
    BY <2>1, OpeningType, InsertedType, ConcatProperties DEF SqlTypes
  <2>3. tx' = s \o Closing
    BY <2>1, <2>2, <1>2, AppendIsConcat, ConcatEmptySeq DEF Closing
  <2>4. Sqlite!Complete' = (s \o Closing)
    <3>1. Opening' = Opening /\ Closing' = Closing
      BY <1>1 DEF Opening, Closing
    <3> QED BY <2>1, <3>1, <1>1, CompleteAfter
  <2> QED BY <2>3, <2>4
<1> QED BY <1>1, <1>3, <1>4

(* The other steps; what a complete run leaves only depends on what they   *)
(* leave alone.                                                            *)
LEMMA SqlKeeps == ASSUME SqlInv, Sqlite!SqlNext PROVE SqlInv'
<1> USE DEF SqlInv
<1>1. CASE Sqlite!Insert BY <1>1, InsertKeeps
<1>2. CASE Sqlite!RunPost BY <1>2, RunPostKeeps
<1>3. CASE Sqlite!Setup
  <2>1. "prerun" \in Row
    BY DEF Row
  <2>2. sql' = [pc |-> "table", runs |-> sql.runs + 1] /\ inserted' = 0 /\ upch' = upch
        /\ sqlcfg' = sqlcfg
    BY <1>3 DEF Sqlite!Setup
  <2>3. db'.rows = db.rows /\ db'.before = db.rows /\ db' \in [rows : Seq(Row), before : Seq(Row)]
    BY <1>3 DEF Sqlite!Setup, SqlTypes
  <2>4. tx' = IF sqlcfg'.prerun THEN Append(db'.before, "prerun") ELSE db'.before
    BY <1>3, <2>3 DEF Sqlite!Setup
  <2>5. tx' \in Seq(Row)
    BY <2>1, <2>3, <2>4, AppendProperties
  <2>6. SqlTypes'
    BY <2>2, <2>3, <2>5 DEF SqlTypes
  <2>7. sql'.runs \notin upch'
    BY <2>2 DEF SqlTypes
  <2> QED BY <2>2, <2>3, <2>4, <2>6, <2>7
<1>4. CASE Sqlite!SetupTable
  <2>1. sql'.pc = "insert" /\ sql'.runs = sql.runs /\ inserted' = inserted /\ db' = db
        /\ sqlcfg' = sqlcfg /\ upch' = upch
    BY <1>4 DEF Sqlite!SetupTable, SqlTypes
  <2>2. tx' = Opening
    BY <1>4 DEF Sqlite!SetupTable, Opening
  <2>3. SqlTypes'
    BY <1>4, <2>1, <2>2, OpeningType DEF Sqlite!SetupTable, SqlTypes
  <2>4. Inserted(sql'.runs, inserted') = <<>> /\ Opening' = Opening
    BY <1>4, <2>1, InsertedNone DEF Sqlite!SetupTable, Opening
  <2>5. tx' = (Opening \o Inserted(sql.runs, inserted))'
    BY <2>2, <2>4, OpeningType, ConcatEmptySeq
  <2>6. sql.runs \notin upch
    BY <1>4 DEF Sqlite!SetupTable
  <2> QED BY <2>1, <2>3, <2>5, <2>6, <1>4 DEF Sqlite!SetupTable
<1>5. CASE Sqlite!Commit
  <2>1. sql'.pc \in {"vacuum", "upload"} /\ sql'.runs = sql.runs
    BY <1>5 DEF Sqlite!Commit, SqlTypes
  <2>2. db'.rows = tx /\ db'.before = db.before
    BY <1>5 DEF Sqlite!Commit, SqlTypes
  <2>3. Sqlite!Complete' = Sqlite!Complete
    <3>1. Opening' = Opening /\ Closing' = Closing
      BY <1>5, <2>2 DEF Sqlite!Commit, Opening, Closing
    <3> QED BY <1>5, <2>1, <3>1, CompleteIs, CompleteAfter DEF Sqlite!Commit
  <2>4. SqlTypes'
    BY <1>5 DEF Sqlite!Commit, SqlTypes
  <2> QED BY <1>5, <2>1, <2>2, <2>3, <2>4 DEF Sqlite!Commit
<1>6. CASE Sqlite!Vacuum \/ Sqlite!SqlCrash \/ Sqlite!Rollback
  <2>1. sql'.runs = sql.runs /\ db' = db /\ inserted' = inserted /\ sqlcfg' = sqlcfg
        /\ upch' = upch
    BY <1>6 DEF Sqlite!Vacuum, Sqlite!SqlCrash, Sqlite!Rollback, SqlTypes
  <2>2. Sqlite!Complete' = Sqlite!Complete
    BY <2>1 DEF Sqlite!Complete
  <2>3. SqlTypes'
    BY <1>6, <2>1, EmptySeq DEF Sqlite!Vacuum, Sqlite!SqlCrash, Sqlite!Rollback, SqlTypes
  <2>4. sql'.pc = "off" \/ (sql.pc = "vacuum" /\ sql'.pc = "upload")
    BY <1>6 DEF Sqlite!Vacuum, Sqlite!SqlCrash, Sqlite!Rollback, SqlTypes
  <2>5. sql.runs \notin upch /\ sql.pc \in {"table", "insert", "commit", "vacuum", "upload"}
    BY <1>6 DEF Sqlite!Vacuum, Sqlite!SqlCrash, Sqlite!Rollback, SqlTypes
  <2> QED BY <2>1, <2>2, <2>3, <2>4, <2>5
<1>7. CASE Sqlite!SendPathname
  <2>1. sql'.runs = sql.runs /\ sql'.pc = "off" /\ db' = db /\ inserted' = inserted
        /\ sqlcfg' = sqlcfg /\ upch' = upch \cup {sql.runs}
    BY <1>7 DEF Sqlite!SendPathname, SqlTypes
  <2>2. Sqlite!Complete' = Sqlite!Complete
    BY <2>1 DEF Sqlite!Complete
  <2>3. sql.pc = "upload" /\ tx' = tx
    BY <1>7 DEF Sqlite!SendPathname
  <2>4. SqlTypes'
    <3>1. sql' \in [pc : {"off", "table", "insert", "commit", "vacuum", "upload"}, runs : Nat]
      <4>1. sql \in [pc : {"off", "table", "insert", "commit", "vacuum", "upload"}, runs : Nat]
        BY DEF SqlTypes
      <4>2. sql' = [sql EXCEPT !.pc = "off"]
        BY <1>7 DEF Sqlite!SendPathname
      <4> QED BY <4>1, <4>2
    <3>2. upch' \subseteq Nat /\ \A r \in upch' : r <= sql.runs
      <4>1. sql.runs \in Nat /\ upch \subseteq Nat /\ \A r \in upch : r <= sql.runs
        BY DEF SqlTypes
      <4>2. upch' = upch \cup {sql.runs}
        BY <2>1
      <4>3. sql.runs <= sql.runs
        BY <4>1
      <4>4. upch' \subseteq Nat
        BY <4>1, <4>2
      <4>5. ASSUME NEW r \in upch' PROVE r <= sql.runs
        <5>1. CASE r = sql.runs BY <5>1, <4>3
        <5>2. CASE r \in upch BY <5>2, <4>1
        <5> QED BY <5>1, <5>2, <4>2
      <4> QED BY <4>4, <4>5
    <3>3. /\ sqlcfg' \in Sqlite!Flags /\ db' \in [rows : Seq(Row), before : Seq(Row)]
          /\ tx' \in Seq(Row) /\ inserted' \in Nat
      BY <2>1, <2>3 DEF SqlTypes
    <3>4. \A r \in upch' : r <= sql'.runs
      BY <2>1, <3>2
    <3> HIDE DEF SqlInv
    <3> QED BY <3>1, <3>2, <3>3, <3>4 DEF SqlTypes
  <2> QED BY <2>1, <2>2, <2>3, <2>4
<1> QED BY <1>1, <1>2, <1>3, <1>4, <1>5, <1>6, <1>7 DEF Sqlite!SqlNext

(* The bounds of the model.                                                 *)
SqlBounds ==
    /\ sql.runs <= MaxRuns /\ inserted <= MaxRows
    /\ sql.pc # "off" => sql.runs # 0
    /\ 0 \notin upch

LEMMA SqlBoundsKept ==
    ASSUME SqlInv, SqlBounds, Sqlite!SqlNext PROVE SqlBounds'
<1>1. {MaxRows, MaxRuns} \subseteq Nat
  BY OutputsAssumption DEF OutputsAssumption, Sqlite!SQLiteAssumption
<1>2. sql.runs \in Nat /\ inserted \in Nat
      /\ sql \in [pc : {"off", "table", "insert", "commit", "vacuum", "upload"}, runs : Nat]
  BY DEF SqlInv, SqlTypes
<1>3. CASE Sqlite!Setup
  <2>1. sql'.runs = sql.runs + 1 /\ sql.runs < MaxRuns /\ inserted' = 0 /\ upch' = upch
    BY <1>3 DEF Sqlite!Setup
  <2> QED BY <1>1, <1>2, <2>1 DEF SqlBounds
<1>4. CASE Sqlite!Insert
  <2>1. sql' = sql /\ upch' = upch /\ inserted < MaxRows /\ inserted' = inserted + 1
    BY <1>4 DEF Sqlite!Insert
  <2> QED BY <1>1, <1>2, <2>1 DEF SqlBounds
<1>5. CASE \/ Sqlite!SetupTable \/ Sqlite!RunPost \/ Sqlite!Commit \/ Sqlite!Vacuum
           \/ Sqlite!SendPathname \/ Sqlite!Rollback \/ Sqlite!SqlCrash
  <2>1. sql'.runs = sql.runs /\ inserted' = inserted /\ sql.pc # "off"
        /\ (upch' = upch \/ upch' = upch \cup {sql.runs})
    BY <1>2, <1>5 DEF Sqlite!SetupTable, Sqlite!RunPost, Sqlite!Commit, Sqlite!Vacuum,
       Sqlite!SendPathname, Sqlite!Rollback, Sqlite!SqlCrash
  <2> QED BY <1>2, <2>1 DEF SqlBounds
<1> QED BY <1>3, <1>4, <1>5 DEF Sqlite!SqlNext

LEMMA SqlInvariance == Spec => [](part = "sqlite" => SqlInv /\ SqlBounds)
<1>1. Init => (part = "sqlite" => SqlInv /\ SqlBounds)
  <2>1. {MaxRows, MaxRuns} \subseteq Nat
    BY OutputsAssumption DEF OutputsAssumption, Sqlite!SQLiteAssumption
  <2>2. Sqlite!SqlInit => SqlBounds
    BY <2>1 DEF Sqlite!SqlInit, SqlBounds
  <2> QED BY <2>2, SqlInitial DEF Init
<1>2. (part = "sqlite" => SqlInv /\ SqlBounds) /\ [Next]_vars
        => (part = "sqlite" => SqlInv /\ SqlBounds)'
  <2> SUFFICES ASSUME part = "sqlite" => SqlInv /\ SqlBounds, [Next]_vars, part' = "sqlite"
               PROVE  SqlInv' /\ SqlBounds'
    OBVIOUS
  <2>1. CASE UNCHANGED vars
    <3>1. UNCHANGED <<part, sqlcfg, sql, db, tx, inserted, upch>>
      BY <2>1 DEF vars, sqlvars
    <3> QED BY <3>1 DEF SqlInv, SqlTypes, SqlBounds, Opening, Inserted, Sqlite!Complete
  <2>2. CASE Next
    <3>1. part = "sqlite" /\ Sqlite!SqlNext
      BY <2>2 DEF Next, Only
    <3> QED BY <3>1, SqlKeeps, SqlBoundsKept
  <2> QED BY <2>1, <2>2
<1> QED BY <1>1, <1>2, PTL DEF Spec

(* A run of the SQLite output, whether it commits, fails or dies, leaves   *)
(* all of its rows or none, and its file is only uploaded with all of them *)
(* (output/sqlite.go: one transaction from NewSQLite to the end of Run).   *)
THEOREM SqliteAtomic == Spec => []AllOrNothing
<1>1. (part = "sqlite" => SqlInv) => AllOrNothing
  BY DEF AllOrNothing, Sqlite!AllOrNothing, SqlInv, SqlTypes
<1> QED BY <1>1, SqlInvariance, PTL

(***************************************************************************)
(* The uploader.                                                           *)
(***************************************************************************)

(* What goes on in which part of Run and of the upload goroutine: there is *)
(* a file to move only in "move"; uploads only run during a scan; an       *)
(* upload that may still be tried has tries left, and one that is about to *)
(* remove its file has put it into the bucket.                             *)
Phases ==
    /\ s3rpc = "move" => rfile \in Files
    /\ s3rpc # "move" => rfile = NoFile
    /\ quit => s3rpc \in {"stop", "returned"}
    /\ s3rpc = "returned" => gpc = "done"
    /\ gpc = "done" => last
    /\ gfile # NoFile => gpc = "walk" /\ gfile \in visited
    /\ \A f \in Files : up[f] # "idle" => gpc \in {"walk", "wait"} /\ tries[f] < Retries
    /\ \A f \in Files : up[f] = "remove" => f \in bucket

(* Without ExitOnError no scan ends early, and the last one begins when    *)
(* quit is closed, hence after the last move: every file of the staging    *)
(* directory is visited, and stays there only if its upload is given up.   *)
LastScan ==
    /\ ~exitOnError => ~exitErr /\ ~walkErr /\ gpc # "senderr"
    /\ last /\ ~exitOnError =>
         /\ quit /\ staging \subseteq start /\ gpc \in {"walk", "wait", "done"}
         /\ \A f \in visited : f = gfile \/ up[f] # "idle" \/ f \notin staging \/ f \in gaveUp
         /\ gpc \in {"wait", "done"} => start \cap staging \subseteq visited

S3Inv == S3!TypeOK /\ S3!NoFileLost /\ Phases /\ LastScan

(* The operators of the modules S3Upload extends are those of this one.     *)
LEMMA S3Finite == ASSUME NEW S PROVE S3!IsFiniteSet(S) <=> IsFiniteSet(S)
BY DEF IsFiniteSet, S3!IsFiniteSet

LEMMA S3Cardinality == ASSUME NEW S PROVE S3!Cardinality(S) = Cardinality(S)
BY DEF Cardinality, S3!Cardinality

LEMMA S3Constants ==
    /\ IsFiniteSet(Files) /\ NoFile \notin Files
    /\ Retries \in Nat \ {0} /\ MaxConcurrency \in Nat \ {0}
    /\ ExitOnErrors \subseteq BOOLEAN /\ ErrChCap \in Nat /\ MaxFails \in Nat
BY OutputsAssumption, S3Finite DEF OutputsAssumption, S3!S3Assumption

LEMMA ActiveFinite == IsFiniteSet(S3!Active)
BY S3Constants, FS_Subset DEF S3!Active

(* There are no more uploads than Concurrency: one is only begun when      *)
(* there is room.                                                          *)
LEMMA NoNewUpload ==
    ASSUME S3Inv, concurrency' = concurrency,
           \A f \in Files : up'[f] # "idle" => up[f] # "idle"
    PROVE  S3!Cardinality(S3!Active') <= concurrency'
<1>1. S3!Active' \subseteq S3!Active
  BY DEF S3!Active
<1>2. /\ IsFiniteSet(S3!Active')
      /\ Cardinality(S3!Active') \in Nat /\ Cardinality(S3!Active) \in Nat
      /\ Cardinality(S3!Active') <= Cardinality(S3!Active)
  BY <1>1, ActiveFinite, FS_Subset, FS_CardinalityType
<1>3. concurrency \in Nat /\ Cardinality(S3!Active) <= concurrency
  BY S3Constants, S3Cardinality DEF S3Inv, S3!TypeOK
<1>4. Cardinality(S3!Active') <= concurrency'
  BY <1>2, <1>3
<1> QED BY <1>4, S3Cardinality

LEMMA S3Initial == S3!Init => S3Inv
<1> SUFFICES ASSUME S3!Init PROVE S3Inv
  OBVIOUS
<1>1. S3!Active = {}
  BY DEF S3!Init, S3!Active
<1>2. S3!TypeOK
  <2>1. S3!Cardinality(S3!Active) = 0
    BY <1>1, FS_EmptySet, S3Cardinality
  <2>2. concurrency \in 1..MaxConcurrency /\ 0 <= concurrency
    BY S3Constants DEF S3!Init
  <2>3. staging \subseteq Files /\ unsent \subseteq Files
    BY DEF S3!Init
  <2>4. 0 \in 0..Retries /\ errCh \in 0..ErrChCap /\ fails \in 0..MaxFails
    BY S3Constants DEF S3!Init
  <2>5. up \in [Files -> {"idle", "check", "put", "remove"}] /\ tries \in [Files -> 0..Retries]
    BY <2>4 DEF S3!Init
  <2>6. s3totaln \in Nat /\ totalerr \in Nat /\ queuedn \in Int
    BY DEF S3!Init
  <2>7. S3!Cardinality(S3!Active) <= concurrency
    BY <2>1, <2>2
  <2> QED BY <2>2, <2>3, <2>4, <2>5, <2>6, <2>7 DEF S3!Init, S3!TypeOK
<1> QED BY <1>2 DEF S3!Init, S3Inv, S3!NoFileLost, Phases, LastScan

LEMMA RunStepKeeps == ASSUME S3Inv, S3!RunStep \/ S3!CloseUpch PROVE S3Inv'
<1> USE DEF S3Inv, S3!env, S3!config, S3!runvars, S3!scanvars, S3!upvars, S3!counters
<1>1. /\ up' = up /\ tries' = tries /\ gpc' = gpc /\ gfile' = gfile /\ visited' = visited
      /\ last' = last /\ start' = start /\ exitErr' = exitErr /\ walkErr' = walkErr
      /\ gaveUp' = gaveUp /\ bucket' = bucket /\ exitOnError' = exitOnError
      /\ concurrency' = concurrency
  BY DEF S3!RunStep, S3!CloseUpch, S3!ReceivePath, S3!Move, S3!EndRun, S3!ReturnRun
<1>2. S3!Cardinality(S3!Active') <= concurrency'
  BY <1>1, NoNewUpload
<1>3. S3!TypeOK' /\ S3!NoFileLost' /\ Phases' /\ (quit => quit')
  <2>1. CASE S3!CloseUpch
    BY <1>1, <1>2, <2>1, S3Constants DEF S3!CloseUpch, S3!TypeOK, S3!NoFileLost, Phases
  <2>2. ASSUME NEW f \in Files, S3!ReceivePath(f) PROVE S3!TypeOK' /\ S3!NoFileLost' /\ Phases' /\ (quit => quit')
    BY <1>1, <1>2, <2>2, S3Constants DEF S3!ReceivePath, S3!TypeOK, S3!NoFileLost, Phases
  <2>3. CASE S3!Move
    <3>1. rfile \in Files /\ rfile' = NoFile /\ s3rpc = "move" /\ ~quit
      BY <2>3 DEF S3!Move, Phases
    <3>2. s3totaln' \in Nat /\ queuedn' \in Int
      BY <2>3 DEF S3!Move, S3!TypeOK
    <3>3. fails' \in 0..MaxFails
      BY <2>3, S3Constants DEF S3!Move, S3!Failing, S3!MayFail, S3!TypeOK
    <3>4. /\ source' \cup staging' = source \cup staging \cup {rfile}
          /\ s3rpc' \in {"select", "stop"} /\ result' \in {"none", "nil", "error"}
          /\ quit' \in BOOLEAN /\ (quit' => s3rpc' = "stop")
      BY <2>3, <3>1 DEF S3!Move, S3!TypeOK
    <3>5. UNCHANGED <<unsent, upchClosed, errCh, totalerr>>
      BY <2>3 DEF S3!Move
    <3>6. S3!TypeOK'
      BY <1>1, <1>2, <3>1, <3>2, <3>3, <3>4, <3>5 DEF S3!TypeOK
    <3>7. S3!NoFileLost'
      BY <1>1, <3>4, <3>5 DEF S3!NoFileLost
    <3>8. Phases'
      BY <1>1, <3>1, <3>4 DEF Phases
    <3> QED BY <3>1, <3>6, <3>7, <3>8
  <2>4. CASE S3!EndRun
    BY <1>1, <1>2, <2>4, S3Constants DEF S3!EndRun, S3!TypeOK, S3!NoFileLost, Phases
  <2>5. CASE S3!ReturnRun
    BY <1>1, <1>2, <2>5, S3Constants DEF S3!ReturnRun, S3!TypeOK, S3!NoFileLost, Phases
  <2> QED BY <2>1, <2>2, <2>3, <2>4, <2>5 DEF S3!RunStep
<1>4. quit => staging' = staging
  BY DEF S3!RunStep, S3!CloseUpch, S3!ReceivePath, S3!Move, S3!EndRun, S3!ReturnRun, Phases
<1>5. LastScan'
  BY <1>1, <1>3, <1>4 DEF LastScan
<1> QED BY <1>3, <1>5

LEMMA ScanStepKeeps == ASSUME S3Inv, S3!Tick \/ S3!ScanStep PROVE S3Inv'
<1> USE DEF S3Inv, S3!env, S3!config, S3!runvars, S3!scanvars, S3!upvars, S3!counters
<1>1. ASSUME S3!Tick \/ S3!SeeQuit \/ S3!SendErr PROVE S3Inv'
  <2>1. /\ up' = up /\ tries' = tries /\ gpc' = "walk" /\ gfile' = gfile /\ visited' = {}
        /\ last' \in BOOLEAN /\ start' = staging /\ exitErr' = FALSE /\ walkErr' = FALSE
        /\ gaveUp' = {} /\ bucket' = bucket /\ staging' = staging /\ source' = source
        /\ UNCHANGED <<unsent, exitOnError, concurrency, upchClosed, s3rpc, rfile, result,
                       quit, s3totaln, totalerr, queuedn, fails>>
        /\ errCh' \in 0..ErrChCap
    <3>1. CASE S3!Tick \/ S3!SeeQuit
      BY <3>1 DEF S3!Tick, S3!SeeQuit, S3!BeginScan, S3!TypeOK
    <3>2. CASE S3!SendErr
      <4>1. errCh' \in 0..ErrChCap
        BY <3>2, S3Constants DEF S3!SendErr, S3!TypeOK
      <4> QED BY <3>2, <4>1 DEF S3!SendErr
    <3> QED BY <1>1, <3>1, <3>2
  <2>2. S3!Cardinality(S3!Active') <= concurrency'
    BY <2>1, NoNewUpload
  <2>3. S3!TypeOK'
    BY <2>1, <2>2 DEF S3!TypeOK
  <2>4. gpc # "walk" /\ gpc # "wait" /\ gpc # "done" /\ (last' /\ ~exitOnError => quit)
    BY <1>1 DEF S3!Tick, S3!SeeQuit, S3!SendErr, S3!BeginScan, LastScan
  <2>5. Phases'
    BY <2>1, <2>4 DEF Phases
  <2>6. LastScan'
    BY <2>1, <2>4 DEF LastScan
  <2> QED BY <2>1, <2>3, <2>5, <2>6 DEF S3!NoFileLost
<1>2. ASSUME NEW f \in Files, S3!Visit(f) PROVE S3Inv'
  <2>1. S3!Cardinality(S3!Active') <= concurrency'
    BY <1>2, NoNewUpload DEF S3!Visit
  <2>2. S3!TypeOK'
    BY <1>2, <2>1 DEF S3!Visit, S3!TypeOK
  <2>3. Phases' /\ S3!NoFileLost'
    BY <1>2 DEF S3!Visit, Phases, S3!NoFileLost
  <2>4. LastScan'
    <3>1. gfile = NoFile /\ gfile \notin visited
      BY <1>2, S3Constants DEF S3!Visit, S3!TypeOK
    <3> QED BY <1>2, <3>1 DEF S3!Visit, LastScan
  <2> QED BY <2>2, <2>3, <2>4
<1>3. ASSUME S3!StartUpload PROVE S3Inv'
  <2>1. gfile \in Files /\ up' = [up EXCEPT ![gfile] = "check"] /\ up \in [Files -> {"idle", "check", "put", "remove"}]
        /\ tries' = [tries EXCEPT ![gfile] = 0] /\ tries \in [Files -> 0..Retries]
    BY <1>3 DEF S3!StartUpload, S3!TypeOK
  <2>2. S3!Cardinality(S3!Active') <= concurrency'
    <3>1. S3!Active' = S3!Active \cup {gfile}
      BY <2>1 DEF S3!Active
    <3>2. Cardinality(S3!Active) \in Nat
          /\ Cardinality(S3!Active \cup {gfile}) =
               IF gfile \in S3!Active THEN Cardinality(S3!Active) ELSE Cardinality(S3!Active) + 1
      BY ActiveFinite, FS_AddElement, FS_CardinalityType
    <3>3. Cardinality(S3!Active) < concurrency /\ concurrency' = concurrency /\ concurrency \in Nat
      BY <1>3, S3Constants, S3Cardinality DEF S3!StartUpload, S3!TypeOK
    <3>4. Cardinality(S3!Active') <= concurrency'
      BY <3>1, <3>2, <3>3
    <3> QED BY <3>4, S3Cardinality
  <2>3. S3!TypeOK'
    BY <1>3, <2>1, <2>2, S3Constants DEF S3!StartUpload, S3!TypeOK
  <2>4. Phases' /\ S3!NoFileLost'
    BY <1>3, <2>1, S3Constants DEF S3!StartUpload, Phases, S3!NoFileLost
  <2>5. LastScan'
    <3>1. \A f \in visited : f # gfile => up'[f] = up[f]
      BY <2>1, <1>3 DEF S3!TypeOK
    <3>2. up'[gfile] = "check"
      BY <2>1
    <3> QED BY <1>3, <3>1, <3>2 DEF S3!StartUpload, LastScan
  <2> QED BY <2>3, <2>4, <2>5
<1>4. ASSUME S3!EndWalk \/ S3!EndScan PROVE S3Inv'
  <2>1. S3!Cardinality(S3!Active') <= concurrency'
    BY <1>4, NoNewUpload DEF S3!EndWalk, S3!EndScan
  <2>2. S3!TypeOK'
    <3>1. CASE S3!EndWalk
      BY <3>1, <2>1 DEF S3!EndWalk, S3!TypeOK
    <3>2. CASE S3!EndScan
      <4>1. gpc' \in {"done", "senderr", "select"}
        BY <3>2 DEF S3!EndScan
      <4> QED BY <3>2, <4>1, <2>1 DEF S3!EndScan, S3!TypeOK
    <3> QED BY <1>4, <3>1, <3>2
  <2>3. Phases' /\ S3!NoFileLost'
    BY <1>4 DEF S3!EndWalk, S3!EndScan, Phases, S3!NoFileLost, S3!Active
  <2>4. LastScan'
    BY <1>4 DEF S3!EndWalk, S3!EndScan, LastScan
  <2> QED BY <2>2, <2>3, <2>4
<1> QED BY <1>1, <1>2, <1>3, <1>4 DEF S3!ScanStep

LEMMA FileStepKeeps == ASSUME S3Inv, NEW f \in Files, S3!FileStep(f) PROVE S3Inv'
<1> USE DEF S3Inv, S3!env, S3!config, S3!runvars, S3!scanvars, S3!upvars, S3!counters
<1>1. /\ up[f] # "idle" /\ up' = [up EXCEPT ![f] = up'[f]] /\ up'[f] \in {"idle", "check", "put", "remove"}
      /\ tries' = [tries EXCEPT ![f] = tries'[f]] /\ up \in [Files -> {"idle", "check", "put", "remove"}]
      /\ tries \in [Files -> 0..Retries] /\ tries[f] < Retries
      /\ tries'[f] \in 0..Retries /\ (up'[f] # "idle" => tries'[f] < Retries)
      /\ UNCHANGED <<unsent, exitOnError, concurrency, upchClosed, s3rpc, rfile, result, source,
                     quit, gpc, last, start, visited, gfile, walkErr, errCh>>
  <2>1. /\ up \in [Files -> {"idle", "check", "put", "remove"}] /\ tries \in [Files -> 0..Retries]
        /\ up[f] # "idle"
    BY DEF S3!FileStep, S3!CheckExit, S3!PutObject, S3!RemoveFile, S3!FailUpload, S3!TypeOK
  <2>2. tries[f] < Retries
    BY <2>1 DEF Phases
  <2>3. CASE S3!CheckExit(f) \/ S3!PutObject(f) \/ S3!RemoveFile(f)
    BY <2>1, <2>2, <2>3 DEF S3!CheckExit, S3!PutObject, S3!RemoveFile
  <2>4. CASE S3!FailUpload(f)
    BY <2>1, <2>2, <2>4, S3Constants DEF S3!FailUpload
  <2> QED BY <2>3, <2>4 DEF S3!FileStep
<1>2. S3!Cardinality(S3!Active') <= concurrency'
  <2>1. \A g \in Files : up'[g] # "idle" => up[g] # "idle"
    BY <1>1
  <2> QED BY <1>1, <2>1, NoNewUpload
<1>3. /\ staging' \subseteq staging /\ bucket \subseteq bucket' /\ bucket' \subseteq Files
      /\ (staging \ staging') \subseteq bucket /\ gaveUp \subseteq gaveUp' /\ gaveUp' \subseteq Files
      /\ exitErr' \in BOOLEAN /\ (~exitOnError => exitErr' = exitErr)
      /\ s3totaln' = s3totaln /\ totalerr' \in Nat /\ queuedn' \in Int /\ fails' \in 0..MaxFails
      /\ (up'[f] = "remove" => f \in bucket')
      /\ ~exitOnError /\ up'[f] = "idle" => exitErr \/ f \notin staging' \/ f \in gaveUp'
  <2>1. CASE S3!CheckExit(f) \/ S3!PutObject(f) \/ S3!RemoveFile(f)
    BY <2>1, <1>1 DEF S3!CheckExit, S3!PutObject, S3!RemoveFile, S3!TypeOK, Phases
  <2>2. CASE S3!FailUpload(f)
    <3>1. totalerr' \in Nat /\ fails' \in 0..MaxFails
      BY <2>2, S3Constants DEF S3!FailUpload, S3!Failing, S3!MayFail, S3!TypeOK
    <3>2. UNCHANGED <<staging, bucket, s3totaln>> /\ queuedn' \in Int
      BY <2>2 DEF S3!FailUpload, S3!TypeOK
    <3>3. /\ gaveUp \subseteq gaveUp' /\ gaveUp' \subseteq Files
          /\ exitErr' \in BOOLEAN /\ (~exitOnError => exitErr' = exitErr)
          /\ up'[f] # "remove"
          /\ ~exitOnError /\ up'[f] = "idle" => f \in gaveUp'
      BY <2>2, <1>1 DEF S3!FailUpload, S3!TypeOK
    <3> QED BY <3>1, <3>2, <3>3 DEF S3!TypeOK
  <2> QED BY <2>1, <2>2 DEF S3!FileStep
<1>4. S3!TypeOK'
  BY <1>1, <1>2, <1>3 DEF S3!TypeOK
<1>5. Phases'
  BY <1>1, <1>3 DEF Phases
<1>6. S3!NoFileLost'
  BY <1>1, <1>3 DEF S3!NoFileLost
<1>7. LastScan'
  <2>1. \A g \in visited : g # f => up'[g] = up[g]
    BY <1>1 DEF S3!TypeOK
  <2> QED BY <1>1, <1>3, <2>1 DEF LastScan
<1> QED BY <1>4, <1>5, <1>6, <1>7

LEMMA S3Keeps == ASSUME S3Inv, [S3!Next]_s3vars PROVE S3Inv'
<1>1. CASE UNCHANGED s3vars
  BY <1>1 DEF s3vars, S3Inv, S3!TypeOK, S3!NoFileLost, Phases, LastScan, S3!Active
<1>2. CASE S3!Next
  <2>1. CASE S3!Terminated
    <3>1. UNCHANGED s3vars
      BY <2>1 DEF S3!Terminated, S3!vars, S3!env, S3!config, S3!runvars, S3!scanvars,
                  S3!upvars, S3!counters, s3vars
    <3> QED BY <1>1, <3>1
  <2> QED BY <1>2, <2>1, RunStepKeeps, ScanStepKeeps, FileStepKeeps DEF S3!Next
<1> QED BY <1>1, <1>2

(* The inductive invariant of the uploader.                                *)
LEMMA S3Invariance == Spec => [](part = "s3" => S3Inv)
<1>1. Init => (part = "s3" => S3Inv)
  BY S3Initial DEF Init
<1>2. (part = "s3" => S3Inv) /\ [Next]_vars => (part = "s3" => S3Inv)'
  <2> SUFFICES ASSUME part = "s3" => S3Inv, [Next]_vars, part' = "s3" PROVE S3Inv'
    OBVIOUS
  <2>1. part = "s3" /\ [S3!Next]_s3vars
    BY DEF Next, Only, vars
  <2> QED BY <2>1, S3Keeps
<1> QED BY <1>1, <1>2, PTL DEF Spec

(* When Run of the uploader has returned no upload is under way, and what  *)
(* the last upload leaves in the staging directory was tried as often as   *)
(* it can be (upload/s3.go: the deferred uploadDirectory and Stop).        *)
THEOREM UploadsFinish == Spec => []UploadsEnd
<1>1. (part = "s3" => S3Inv) => UploadsEnd
  <2> SUFFICES ASSUME part = "s3", S3Inv
               PROVE  S3!NoUploadLeftBehind /\ S3!LastUploadComplete
    BY DEF UploadsEnd
  <2>1. S3!NoUploadLeftBehind
    BY DEF S3!NoUploadLeftBehind, S3Inv, Phases, S3!Active
  <2>2. S3!LastUploadComplete
    <3> SUFFICES ASSUME s3rpc = "returned", ~exitOnError PROVE staging \subseteq gaveUp
      BY DEF S3!LastUploadComplete
    <3>1. gpc = "done" /\ last /\ gfile = NoFile /\ \A f \in Files : up[f] = "idle"
      BY DEF S3Inv, Phases
    <3>2. /\ staging \subseteq start /\ start \cap staging \subseteq visited
          /\ staging \subseteq Files
          /\ \A f \in visited : f = gfile \/ up[f] # "idle" \/ f \notin staging \/ f \in gaveUp
      BY <3>1 DEF S3Inv, LastScan, S3!TypeOK
    <3> QED BY <3>1, <3>2, S3Constants
  <2> QED BY <2>1, <2>2
<1> QED BY <1>1, S3Invariance, PTL

(***************************************************************************)
(* The DynamoDB output.                                                    *)
(***************************************************************************)
LEMMA DynCardinality == ASSUME NEW S PROVE Dynamo!Cardinality(S) = Cardinality(S)
BY DEF Cardinality, Dynamo!Cardinality

LEMMA DynConstants ==
    /\ Key \in Seq(Dynamo!Elems(Key)) /\ BatchSize \in Nat \ {0} /\ MaxTries \in Nat \ {0}
    /\ NoWriter # "run" /\ NoWriter # "timer"
    /\ Len(Key) \in Nat /\ Dynamo!Records = 1..Len(Key)
    /\ \A i \in 1..Len(Key) : Key[i] \in Dynamo!Elems(Key)
<1>1. Key \in Seq(Dynamo!Elems(Key))
  BY OutputsAssumption DEF OutputsAssumption, Dynamo!DynamoAssumption
<1>2. Len(Key) \in Nat /\ DOMAIN Key = 1..Len(Key)
  BY <1>1, LenProperties
<1> QED BY <1>1, <1>2, OutputsAssumption
        DEF OutputsAssumption, Dynamo!DynamoAssumption, Dynamo!Records, Dynamo!Elems

(* The records Run has dealt with: in "push" the last one it received is   *)
(* only among them once it has completed the batch that is being written.  *)
Handled == IF run = "push" /\ lock # "run" THEN received - 1 ELSE received

DynTypes ==
    /\ run \in {"receive", "push", "last", "returned", "dead"} /\ received \in 0..Len(Key)
    /\ batch \in Seq(Dynamo!Records) /\ lock \in {"run", "timer", NoWriter}
    /\ timer \in {"armed", "fired", "off"} /\ dyntotaln \in 0..Len(Key)
    /\ proc \in [Regions -> [items : SUBSET Dynamo!Records, tries : 0..MaxTries]]
    /\ table \in [Regions -> [Dynamo!Elems(Key) -> 0..Len(Key)]]
    /\ lost \in [Regions -> SUBSET Dynamo!Records]
    /\ skipped \subseteq Dynamo!Records
    /\ \A r \in Regions : proc[r].items \subseteq Dynamo!Elems(batch)

(* A batch that is full is being written.                                   *)
BatchFits == Len(batch) <= BatchSize /\ (Dynamo!Free => Len(batch) < BatchSize)

(* Who has the batch, and where Run is.                                     *)
Turns ==
    /\ run = "push" => received >= 1
    /\ run \in {"last", "returned"} => received = Len(Key)
    /\ run = "returned" => batch = <<>>
    /\ lock = "run" => run \in {"push", "last"}
    /\ Dynamo!Free => \A r \in Regions : proc[r].items = {}

(* The records dealt with are written, in the batch or duplicates.          *)
BatchOnce ==
    /\ dyntotaln + Len(batch) + Cardinality(skipped) = Handled
    /\ skipped \subseteq 1..Handled
    /\ \A i \in 1..Len(batch) : batch[i] \in 1..Handled
    /\ \A i, j \in 1..Len(batch) : i # j => Key[batch[i]] # Key[batch[j]]

(* In a region every one of them is written, refused, or still in a batch  *)
(* that has to be written there; what the region has of a key is not newer *)
(* than the record of the batch.                                           *)
RegionHas(r) ==
    /\ \A k \in Dynamo!Elems(Key) : table[r][k] <= Handled
    /\ \A i \in Dynamo!Elems(batch) : table[r][Key[i]] <= i
    /\ \A i \in (1..Handled) \ (skipped \cup lost[r]) :
          \/ table[r][Key[i]] >= i
          \/ i \in Dynamo!Elems(batch) /\ (Dynamo!Free \/ i \in proc[r].items)

DynInv ==
    /\ DynTypes
    /\ run # "dead" => Turns /\ BatchOnce /\ \A r \in Regions : RegionHas(r)

LEMMA HandledType ==
    ASSUME DynTypes, Turns PROVE Handled \in Nat /\ Handled <= Len(Key)
BY DynConstants DEF DynTypes, Turns, Handled

LEMMA ElemsOfBatch ==
    ASSUME NEW s \in Seq(Dynamo!Records)
    PROVE  /\ Dynamo!Elems(s) = {s[i] : i \in 1..Len(s)}
           /\ Dynamo!Elems(s) \subseteq Dynamo!Records
<1>1. DOMAIN s = 1..Len(s) /\ \A i \in 1..Len(s) : s[i] \in Dynamo!Records
  BY LenProperties, ElementOfSeq
<1> QED BY <1>1 DEF Dynamo!Elems

LEMMA SkippedFinite ==
    ASSUME DynTypes PROVE IsFiniteSet(skipped) /\ Cardinality(skipped) \in Nat
<1>1. IsFiniteSet(1..Len(Key))
  <2>1. 1 \in Int /\ Len(Key) \in Int
    BY DynConstants
  <2> QED BY <2>1, FS_Interval
<1>2. skipped \subseteq 1..Len(Key)
  BY DynConstants DEF DynTypes
<1> QED BY <1>1, <1>2, FS_Subset, FS_CardinalityType

LEMMA ElemsEmpty == Dynamo!Elems(<<>>) = {}
BY DEF Dynamo!Elems

LEMMA DynInitial == Dynamo!DynInit => DynInv
<1> SUFFICES ASSUME Dynamo!DynInit PROVE DynInv
  OBVIOUS
<1> USE DEF Dynamo!DynInit
<1>1. Dynamo!Elems(batch) = {} /\ Len(batch) = 0 /\ Cardinality(skipped) = 0
  BY ElemsEmpty, FS_EmptySet
<1>2. Handled = 0
  BY DEF Handled
<1>3. DynTypes
  <2>1. 0 \in 0..Len(Key) /\ batch \in Seq(Dynamo!Records)
    BY DynConstants, EmptySeq
  <2>2. proc \in [Regions -> [items : SUBSET Dynamo!Records, tries : 0..MaxTries]]
    BY DynConstants
  <2>3. table \in [Regions -> [Dynamo!Elems(Key) -> 0..Len(Key)]]
    BY <2>1
  <2> QED BY <1>1, <2>1, <2>2, <2>3, DynConstants DEF DynTypes
<1>4. Turns
  BY DynConstants DEF Turns
<1>5. BatchOnce
  BY <1>1, <1>2 DEF BatchOnce
<1>6. \A r \in Regions : RegionHas(r)
  BY <1>1, <1>2 DEF RegionHas
<1> QED BY <1>3, <1>4, <1>5, <1>6 DEF DynInv

(* Steps that touch neither the batch nor a region.                         *)
LEMMA TurnKeeps ==
    ASSUME DynInv, run # "dead", Dynamo!Receive \/ Dynamo!TimerFires
    PROVE  DynInv'
<1> USE DEF DynInv
<1>1. /\ UNCHANGED <<batch, lock, proc, table, skipped, lost, dyntotaln>>
      /\ timer' \in {"armed", "fired", "off"}
      /\ run' \in {"receive", "push", "last", "returned"} /\ received' \in 0..Len(Key)
      /\ Turns' /\ Handled' = Handled
  <2>1. CASE Dynamo!Receive
    BY <2>1, DynConstants
    DEF Dynamo!Receive, DynTypes, Turns, Handled, Dynamo!Free
  <2>2. CASE Dynamo!TimerFires
    BY <2>2 DEF Dynamo!TimerFires, DynTypes, Turns, Handled, Dynamo!Free
  <2> QED BY <2>1, <2>2
<1>2. DynTypes'
  BY <1>1 DEF DynTypes
<1>3. BatchOnce'
  BY <1>1 DEF BatchOnce
<1>4. \A r \in Regions : RegionHas(r)'
  BY <1>1 DEF RegionHas, Dynamo!Free
<1> QED BY <1>1, <1>2, <1>3, <1>4

(* A flush begins: every region has to write the whole batch.               *)
LEMMA FlushKeeps ==
    ASSUME DynInv, run # "dead", Dynamo!TimerFlush \/ Dynamo!LastFlush
    PROVE  DynInv'
<1> USE DEF DynInv
<1>1. Dynamo!Free /\ UNCHANGED <<received, batch, table, skipped, lost, dyntotaln>>
  BY DEF Dynamo!TimerFlush, Dynamo!LastFlush
<1>2. \/ /\ UNCHANGED <<lock, proc>> /\ batch = <<>>
         /\ timer' \in {"armed", "fired", "off"}
         /\ run' = run \/ (run = "last" /\ run' = "returned")
      \/ /\ proc' = [r \in Regions |-> [items |-> Dynamo!Elems(batch), tries |-> 0]]
         /\ UNCHANGED <<timer, run>>
         /\ lock' = "timer" \/ (lock' = "run" /\ run = "last")
  BY DEF Dynamo!TimerFlush, Dynamo!LastFlush, Dynamo!StartFlush, DynTypes
<1>3. Dynamo!Elems(batch) \subseteq Dynamo!Records
  BY ElemsOfBatch DEF DynTypes
<1>4. DynTypes'
  <2>1. 0 \in 0..MaxTries
    BY DynConstants
  <2> QED BY <1>1, <1>2, <1>3, <2>1 DEF DynTypes
<1>5. Turns' /\ Handled' = Handled
  BY <1>1, <1>2, DynConstants DEF Turns, Handled, Dynamo!Free
<1>6. BatchOnce'
  BY <1>1, <1>5 DEF BatchOnce
<1>7. \A r \in Regions : RegionHas(r)'
  <2> TAKE r \in Regions
  <2>1. Dynamo!Free' \/ proc'[r].items = Dynamo!Elems(batch)
    BY <1>1, <1>2 DEF Dynamo!Free
  <2> QED BY <1>1, <1>5, <2>1 DEF RegionHas
<1> QED BY <1>2, <1>4, <1>5, <1>6, <1>7

(* A record that is pushed is a duplicate of its batch or the newest       *)
(* record of it.                                                           *)
LEMMA PushKeeps == ASSUME DynInv, run # "dead", Dynamo!Push PROVE DynInv'
<1> USE DEF DynInv
<1>1. /\ run = "push" /\ Dynamo!Free /\ Handled = received - 1 /\ received \in 1..Len(Key)
      /\ received \in Dynamo!Records
      /\ UNCHANGED <<received, table, lost, dyntotaln>>
  BY DynConstants DEF Dynamo!Push, Dynamo!Free, Handled, Turns, DynTypes
<1>2. received \notin skipped /\ Len(batch) \in Nat
  BY <1>1, LenProperties DEF BatchOnce, DynTypes
<1>3. CASE Key[received] \in Dynamo!KeysOf(Dynamo!Elems(batch))
  <2>1. /\ skipped' = skipped \cup {received} /\ run' = "receive"
        /\ UNCHANGED <<batch, lock, timer, proc>>
    BY <1>3 DEF Dynamo!Push
  <2>2. Handled' = received
    BY <1>1, <2>1 DEF Handled
  <2>3. DynTypes'
    BY <1>1, <2>1 DEF DynTypes
  <2>4. Turns'
    BY <1>1, <2>1, DynConstants DEF Turns, Dynamo!Free
  <2>5. BatchOnce'
    <3>1. IsFiniteSet(skipped)
      BY SkippedFinite
    <3>2. /\ Cardinality(skipped) \in Nat
          /\ Cardinality(skipped') = Cardinality(skipped) + 1
      BY <1>2, <2>1, <3>1, FS_AddElement, FS_CardinalityType
    <3>3. dyntotaln + Len(batch) + Cardinality(skipped') = received
      <4>1. dyntotaln \in Nat /\ received \in Nat
        BY <1>1, DynConstants DEF DynTypes
      <4>2. dyntotaln + Len(batch) + Cardinality(skipped) = received - 1
        BY <1>1 DEF BatchOnce
      <4> QED BY <1>2, <3>2, <4>1, <4>2
    <3>4. skipped' \subseteq 1..received /\ \A i \in 1..Len(batch) : batch[i] \in 1..received
      BY <1>1, <2>1 DEF BatchOnce
    <3> QED BY <1>1, <2>1, <2>2, <3>3, <3>4 DEF BatchOnce
  <2>6. \A r \in Regions : RegionHas(r)'
    <3> TAKE r \in Regions
    <3>1. \A k \in Dynamo!Elems(Key) : table[r][k] \in Nat
      BY DynConstants DEF DynTypes
    <3> QED BY <1>1, <2>1, <2>2, <3>1 DEF RegionHas, Dynamo!Free
  <2> QED BY <2>1, <2>3, <2>4, <2>5, <2>6
<1>4. CASE Key[received] \notin Dynamo!KeysOf(Dynamo!Elems(batch))
  <2>1. /\ batch' = Append(batch, received) /\ skipped' = skipped
        /\ \/ /\ lock' = "run" /\ UNCHANGED <<run, timer>>
              /\ proc' = [r \in Regions |-> [items |-> Dynamo!Elems(batch'), tries |-> 0]]
           \/ /\ run' = "receive" /\ timer' = "armed" /\ UNCHANGED <<lock, proc>>
    BY <1>4 DEF Dynamo!Push, Dynamo!StartFlush
  <2>2. /\ batch' \in Seq(Dynamo!Records) /\ Len(batch') = Len(batch) + 1
        /\ batch'[Len(batch) + 1] = received
        /\ \A i \in 1..Len(batch) : batch'[i] = batch[i]
    BY <1>1, <2>1, AppendProperties DEF DynTypes
  <2>3. Dynamo!Elems(batch') = Dynamo!Elems(batch) \cup {received}
    <3>1. Dynamo!Elems(batch) = {batch[i] : i \in 1..Len(batch)}
          /\ Dynamo!Elems(batch') = {batch'[i] : i \in 1..Len(batch')}
      BY <2>2, ElemsOfBatch DEF DynTypes
    <3>2. 1..Len(batch') = (1..Len(batch)) \cup {Len(batch) + 1}
      BY <1>2, <2>2
    <3> QED BY <2>2, <3>1, <3>2
  <2>4. Dynamo!Elems(batch') \subseteq Dynamo!Records
    BY <2>2, ElemsOfBatch
  <2>5. Handled' = received
    BY <1>1, <2>1, DynConstants DEF Handled, Dynamo!Free
  <2>6. DynTypes'
    <3>1. 0 \in 0..MaxTries
      BY DynConstants
    <3> QED BY <1>1, <2>1, <2>2, <2>3, <2>4, <3>1 DEF DynTypes
  <2>7. Turns'
    <3>1. run' \in {"receive", "push"} /\ (lock' = "run" => run' = "push")
      BY <1>1, <2>1, DynConstants DEF Dynamo!Free
    <3>2. Dynamo!Free' => \A r \in Regions : proc'[r].items = {}
      BY <1>1, <2>1, DynConstants DEF Turns, Dynamo!Free
    <3> QED BY <1>1, <3>1, <3>2 DEF Turns
  <2>8. BatchOnce'
    <3>1. \A i \in 1..Len(batch) : Key[batch[i]] # Key[received]
      <4>1. \A i \in 1..Len(batch) : batch[i] \in Dynamo!Elems(batch)
        BY ElemsOfBatch DEF DynTypes
      <4> QED BY <1>4, <4>1 DEF Dynamo!KeysOf
    <3>2. \A i \in 1..Len(batch') : i \in 1..Len(batch) \/ i = Len(batch) + 1
      BY <1>2, <2>2
    <3>3. \A i, j \in 1..Len(batch') : i # j => Key[batch'[i]] # Key[batch'[j]]
      BY <2>2, <3>1, <3>2 DEF BatchOnce
    <3>4. \A i \in 1..Len(batch') : batch'[i] \in 1..received
      BY <1>1, <2>2, <3>2 DEF BatchOnce
    <3>5. Cardinality(skipped) \in Nat
      BY SkippedFinite
    <3>6. dyntotaln + Len(batch') + Cardinality(skipped) = received
      BY <1>1, <1>2, <2>2, <3>5 DEF BatchOnce, DynTypes
    <3>7. skipped \subseteq 1..received
      BY <1>1 DEF BatchOnce
    <3> QED BY <1>1, <2>1, <2>5, <3>3, <3>4, <3>6, <3>7 DEF BatchOnce
  <2>9. \A r \in Regions : RegionHas(r)'
    <3> TAKE r \in Regions
    <3>1. \A k \in Dynamo!Elems(Key) : table[r][k] \in Nat
      BY DynConstants DEF DynTypes
    <3>2. Key[received] \in Dynamo!Elems(Key)
      BY <1>1, DynConstants
    <3>3. Dynamo!Free' \/ proc'[r].items = Dynamo!Elems(batch')
      BY <1>1, <2>1 DEF Dynamo!Free
    <3>4. table[r][Key[received]] <= received
      BY <1>1, <3>1, <3>2 DEF RegionHas
    <3>5. \A k \in Dynamo!Elems(Key) : table[r][k] <= received
      BY <1>1, <3>1 DEF RegionHas
    <3>6. \A i \in (1..received) \ (skipped \cup lost[r]) :
            \/ table[r][Key[i]] >= i
            \/ i \in Dynamo!Elems(batch') /\ (Dynamo!Free' \/ i \in proc'[r].items)
      BY <1>1, <2>3, <3>3 DEF RegionHas
    <3>7. \A i \in Dynamo!Elems(batch') : table[r][Key[i]] <= i
      BY <2>3, <3>4 DEF RegionHas
    <3>8. UNCHANGED <<table, lost, skipped>>
      BY <1>1, <2>1
    <3> QED BY <2>5, <3>5, <3>6, <3>7, <3>8 DEF RegionHas
  <2> QED BY <2>6, <2>7, <2>8, <2>9
<1> QED BY <1>3, <1>4

(* The batch is done with when every region has answered.                   *)
LEMMA EndFlushKeeps == ASSUME DynInv, run # "dead", Dynamo!EndFlush PROVE DynInv'
<1> USE DEF DynInv
<1>1. /\ ~Dynamo!Free /\ \A r \in Regions : proc[r].items = {}
      /\ dyntotaln' = dyntotaln + Len(batch) /\ batch' = <<>> /\ lock' = NoWriter
      /\ UNCHANGED <<received, proc, table, skipped, lost>>
      /\ \/ lock = "timer" /\ timer' = "off" /\ run' = run
         \/ lock = "run" /\ timer' = timer /\ run = "last" /\ run' = "returned"
         \/ lock = "run" /\ timer' = timer /\ run # "last" /\ run' = "receive"
  BY DEF Dynamo!EndFlush, Dynamo!Busy, Dynamo!Free, DynTypes
<1>2. Dynamo!Elems(batch') = {} /\ Len(batch') = 0 /\ batch' \in Seq(Dynamo!Records)
  BY <1>1, ElemsEmpty, EmptySeq
<1>3. Handled' = Handled /\ Turns'
  BY <1>1, DynConstants DEF Handled, Turns, Dynamo!Free
<1>4. Cardinality(skipped) \in Nat /\ Len(batch) \in Nat
  BY SkippedFinite, LenProperties DEF DynTypes
<1>5. dyntotaln' \in 0..Len(Key)
  BY <1>1, <1>4, HandledType, DynConstants DEF BatchOnce, DynTypes
<1>6. DynTypes'
  BY <1>1, <1>2, <1>5 DEF DynTypes
<1>7. BatchOnce'
  BY <1>1, <1>2, <1>3, <1>4 DEF BatchOnce, DynTypes
<1>8. \A r \in Regions : RegionHas(r)'
  BY <1>1, <1>2, <1>3 DEF RegionHas
<1> QED BY <1>1, <1>3, <1>6, <1>7, <1>8

(* A region writes some of the batch: each key gets the only record of the *)
(* batch that has it, and what the region had of it is not newer.          *)
LEMMA WriteKeeps ==
    ASSUME DynInv, run # "dead", NEW r \in Regions, Dynamo!BatchWrite(r)
    PROVE  /\ DynInv'
           /\ \A k \in Dynamo!Elems(Key) : table'[r][k] >= table[r][k]
<1> USE DEF DynInv
<1>1. PICK left \in SUBSET proc[r].items :
        /\ Dynamo!Put(r, proc[r].items \ left)
        /\ proc' = [proc EXCEPT ![r] = [items |-> left, tries |-> @.tries + 1]]
  BY DEF Dynamo!BatchWrite
<1>2. UNCHANGED <<run, received, batch, lock, timer, skipped, lost, dyntotaln>>
  BY DEF Dynamo!BatchWrite
<1>3. PICK items : items = proc[r].items \ left
  OBVIOUS
<1>4. /\ table \in [Regions -> [Dynamo!Elems(Key) -> 0..Len(Key)]]
      /\ proc[r].items \subseteq Dynamo!Elems(batch) /\ Dynamo!Elems(batch) \subseteq Dynamo!Records
      /\ left \subseteq Dynamo!Records /\ items \subseteq Dynamo!Elems(batch)
  BY <1>1, <1>3, ElemsOfBatch DEF DynTypes
<1>5. /\ table' = [table EXCEPT ![r] = table'[r]]
      /\ table'[r] = [k \in Dynamo!Elems(Key) |->
                         IF k \in Dynamo!KeysOf(items) THEN CHOOSE i \in items : Key[i] = k
                                                       ELSE table[r][k]]
  BY <1>1, <1>3, <1>4 DEF Dynamo!Put
<1>6. \A i, j \in Dynamo!Elems(batch) : Key[i] = Key[j] => i = j
  BY ElemsOfBatch DEF BatchOnce, DynTypes
<1>7. \A i \in items : table'[r][Key[i]] = i
  <2> TAKE i \in items
  <2>1. Key[i] \in Dynamo!Elems(Key) /\ Key[i] \in Dynamo!KeysOf(items)
    BY <1>4, DynConstants DEF Dynamo!KeysOf
  <2>2. table'[r][Key[i]] = CHOOSE j \in items : Key[j] = Key[i]
    BY <1>5, <2>1
  <2>3. (CHOOSE j \in items : Key[j] = Key[i]) = i
    <3>1. \A j \in items : Key[j] = Key[i] => j = i
      BY <1>4, <1>6
    <3>2. \E j \in items : Key[j] = Key[i]
      OBVIOUS
    <3> QED BY <3>1, <3>2
  <2> QED BY <2>2, <2>3
<1>8. \A k \in Dynamo!Elems(Key) :
        table'[r][k] = table[r][k] \/ \E i \in items : Key[i] = k /\ table'[r][k] = i
  <2> TAKE k \in Dynamo!Elems(Key)
  <2>1. CASE k \in Dynamo!KeysOf(items)
    BY <2>1, <1>7 DEF Dynamo!KeysOf
  <2>2. CASE k \notin Dynamo!KeysOf(items)
    BY <2>2, <1>5
  <2> QED BY <2>1, <2>2
<1>9. \A i \in items : i \in 1..Handled /\ i \in 0..Len(Key) /\ i \in Nat
  <2> TAKE i \in items
  <2>1. PICK j \in 1..Len(batch) : i = batch[j]
    BY <1>4, ElemsOfBatch DEF DynTypes
  <2>2. i \in 1..Handled
    BY <2>1 DEF BatchOnce
  <2>3. i \in 1..Len(Key)
    BY <1>4, DynConstants
  <2> QED BY <2>2, <2>3, DynConstants
<1>10. \A k \in Dynamo!Elems(Key) : table'[r][k] \in 0..Len(Key) /\ table[r][k] \in 0..Len(Key)
  BY <1>4, <1>8, <1>9
<1>11. table' \in [Regions -> [Dynamo!Elems(Key) -> 0..Len(Key)]]
  <2>1. table'[r] \in [Dynamo!Elems(Key) -> 0..Len(Key)]
    BY <1>5, <1>10
  <2> QED BY <1>4, <1>5, <2>1
<1>12. \A q \in Regions : q # r => table'[q] = table[q] /\ proc'[q] = proc[q]
  BY <1>1, <1>4, <1>5 DEF DynTypes
<1>13. proc'[r].items = left /\ proc' \in [Regions -> [items : SUBSET Dynamo!Records, tries : 0..MaxTries]]
  <2>1. proc \in [Regions -> [items : SUBSET Dynamo!Records, tries : 0..MaxTries]]
    BY DEF DynTypes
  <2>2. [items |-> left, tries |-> proc[r].tries + 1]
          \in [items : SUBSET Dynamo!Records, tries : 0..MaxTries]
    <3>1. proc[r].tries < MaxTries
      BY DEF Dynamo!BatchWrite
    <3>2. proc[r].tries + 1 \in 0..MaxTries
      BY <2>1, <3>1, DynConstants
    <3> QED BY <1>4, <3>2
  <2> QED BY <1>1, <2>1, <2>2
<1>14. DynTypes'
  <2>1. \A q \in Regions : proc'[q].items \subseteq Dynamo!Elems(batch)
    BY <1>1, <1>4, <1>12, <1>13 DEF DynTypes
  <2> QED BY <1>2, <1>11, <1>13, <2>1 DEF DynTypes
<1>15. ~Dynamo!Free \/ items = {}
  BY <1>3, <1>4 DEF Turns
<1>16. Handled' = Handled /\ (Dynamo!Free' = Dynamo!Free) /\ BatchOnce'
  BY <1>2 DEF Handled, Dynamo!Free, BatchOnce
<1>17. Turns'
  <2>1. Dynamo!Free' => \A q \in Regions : proc'[q].items = {}
    BY <1>1, <1>12, <1>13, <1>16 DEF Turns
  <2> QED BY <1>2, <2>1 DEF Turns
<1>18. \A i \in Dynamo!Elems(batch) : Key[i] \in Dynamo!Elems(Key) /\ i \in Nat
  BY <1>4, DynConstants
<1>19. \A q \in Regions : RegionHas(q)'
  <2> TAKE q \in Regions
  <2>1. CASE q # r
    BY <1>2, <1>12, <1>16, <2>1 DEF RegionHas
  <2>2. CASE q = r
    <3>1. \A k \in Dynamo!Elems(Key) : table'[r][k] <= Handled
      BY <1>8, <1>9 DEF RegionHas
    <3>2. \A i \in Dynamo!Elems(batch) : table'[r][Key[i]] <= i
      <4> TAKE i \in Dynamo!Elems(batch)
      <4>1. CASE table'[r][Key[i]] = table[r][Key[i]]
        BY <4>1 DEF RegionHas
      <4>2. CASE \E j \in items : Key[j] = Key[i] /\ table'[r][Key[i]] = j
        BY <4>2, <1>4, <1>6, <1>18
      <4> QED BY <4>1, <4>2, <1>8, <1>18
    <3>3. \A i \in (1..Handled) \ (skipped \cup lost[r]) :
            \/ table'[r][Key[i]] >= i
            \/ i \in Dynamo!Elems(batch) /\ (Dynamo!Free \/ i \in proc'[r].items)
      <4> TAKE i \in (1..Handled) \ (skipped \cup lost[r])
      <4>1. i \in Nat /\ i \in 1..Len(Key) /\ Key[i] \in Dynamo!Elems(Key)
        BY HandledType, DynConstants
      <4>2. CASE i \in items
        BY <4>1, <4>2, <1>7
      <4>3. CASE i \in Dynamo!Elems(batch) /\ (Dynamo!Free \/ i \in left)
        BY <4>3, <1>13
      <4>4. CASE table[r][Key[i]] >= i
        <5>1. table'[r][Key[i]] >= table[r][Key[i]]
          <6>1. CASE table'[r][Key[i]] = table[r][Key[i]]
            BY <6>1, <4>1, <1>10
          <6>2. ASSUME NEW j \in items, Key[j] = Key[i], table'[r][Key[i]] = j
                PROVE  table'[r][Key[i]] >= table[r][Key[i]]
            BY <6>2, <1>4, <1>10, <4>1 DEF RegionHas
          <6> QED BY <6>1, <6>2, <1>8, <4>1
        <5> QED BY <5>1, <4>1, <4>4, <1>10
      <4> QED BY <4>2, <4>3, <4>4, <1>3 DEF RegionHas
    <3>4. UNCHANGED <<skipped, lost, batch>>
      BY <1>2
    <3> QED BY <2>2, <3>1, <3>2, <3>3, <3>4, <1>16 DEF RegionHas
  <2> QED BY <2>1, <2>2
<1>20. \A k \in Dynamo!Elems(Key) : table'[r][k] >= table[r][k]
  <2> TAKE k \in Dynamo!Elems(Key)
  <2>1. CASE table'[r][k] = table[r][k]
    BY <2>1, <1>10
  <2>2. ASSUME NEW i \in items, Key[i] = k, table'[r][k] = i
        PROVE  table'[r][k] >= table[r][k]
    BY <2>2, <1>4, <1>10, <1>18 DEF RegionHas
  <2> QED BY <2>1, <2>2, <1>8
<1> QED BY <1>14, <1>16, <1>17, <1>19, <1>20

(* What a region does not accept is lost there; another error is the end.   *)
LEMMA GiveUpKeeps ==
    ASSUME DynInv, run # "dead", NEW r \in Regions, Dynamo!GiveUp(r)
    PROVE  DynInv'
<1> USE DEF DynInv
<1>1. /\ lost' = [lost EXCEPT ![r] = @ \cup proc[r].items]
      /\ proc' = [proc EXCEPT ![r].items = {}]
      /\ UNCHANGED <<run, received, batch, lock, timer, table, skipped, dyntotaln>>
  BY DEF Dynamo!GiveUp
<1>2. \A q \in Regions :
        /\ lost[q] \subseteq lost'[q] /\ (q = r => proc[q].items \subseteq lost'[q])
        /\ proc'[q].items = IF q = r THEN {} ELSE proc[q].items
  BY <1>1 DEF DynTypes
<1>3. proc' \in [Regions -> [items : SUBSET Dynamo!Records, tries : 0..MaxTries]]
  <2>1. proc \in [Regions -> [items : SUBSET Dynamo!Records, tries : 0..MaxTries]]
    BY DEF DynTypes
  <2>2. [proc[r] EXCEPT !.items = {}] \in [items : SUBSET Dynamo!Records, tries : 0..MaxTries]
    BY <2>1
  <2> QED BY <1>1, <2>1, <2>2
<1>4. lost' \in [Regions -> SUBSET Dynamo!Records]
  <2>1. lost \in [Regions -> SUBSET Dynamo!Records] /\ proc[r].items \subseteq Dynamo!Records
    BY DEF DynTypes
  <2> QED BY <1>1, <2>1
<1>5. \A q \in Regions : proc'[q].items \subseteq Dynamo!Elems(batch)
  BY <1>2 DEF DynTypes
<1>6. DynTypes'
  BY <1>1, <1>3, <1>4, <1>5 DEF DynTypes
<1>7. Handled' = Handled /\ BatchOnce' /\ Turns'
  BY <1>1, <1>2 DEF Handled, BatchOnce, Turns, Dynamo!Free
<1>8. \A q \in Regions : RegionHas(q)'
  BY <1>1, <1>2, <1>7 DEF RegionHas, Dynamo!Free
<1> QED BY <1>6, <1>7, <1>8

LEMMA FailKeeps ==
    ASSUME DynInv, NEW r \in Regions, Dynamo!Fail(r) PROVE DynInv'
BY DEF DynInv, DynTypes, Dynamo!Fail

(* The inductive invariant of the DynamoDB output, with the order in which *)
(* the records of a key replace each other.                                *)
LEMMA DynKeeps ==
    ASSUME DynInv, [Dynamo!DynNext]_dynvars
    PROVE  /\ DynInv'
           /\ \A r \in Regions : \A k \in Dynamo!Elems(Key) : table'[r][k] >= table[r][k]
<1>1. CASE UNCHANGED dynvars
  <2>1. UNCHANGED <<run, received, batch, lock, timer, proc, table, skipped, lost, dyntotaln>>
    BY <1>1 DEF dynvars
  <2>2. DynInv'
    BY <2>1 DEF DynInv, DynTypes, Turns, BatchOnce, RegionHas, Handled, Dynamo!Free
  <2>3. \A r \in Regions : \A k \in Dynamo!Elems(Key) : table[r][k] \in Nat
    BY DynConstants DEF DynInv, DynTypes
  <2> QED BY <2>1, <2>2, <2>3
<1>2. CASE Dynamo!DynNext
  <2>1. run # "dead"
    BY <1>2 DEF Dynamo!DynNext
  <2>2. \A r \in Regions : \A k \in Dynamo!Elems(Key) : table[r][k] \in Nat
    BY DynConstants DEF DynInv, DynTypes
  <2>3. ASSUME NEW r \in Regions, Dynamo!BatchWrite(r)
        PROVE  /\ DynInv'
               /\ \A q \in Regions : \A k \in Dynamo!Elems(Key) : table'[q][k] >= table[q][k]
    <3>1. \A q \in Regions : q # r => table'[q] = table[q]
      BY <2>3 DEF Dynamo!BatchWrite, Dynamo!Put, DynInv, DynTypes
    <3> QED BY <2>1, <2>2, <2>3, <3>1, WriteKeeps
  <2>4. CASE ~\E r \in Regions : Dynamo!BatchWrite(r)
    <3>1. table' = table
      BY <1>2, <2>4 DEF Dynamo!DynNext, Dynamo!DynRun, Dynamo!DynProc, Dynamo!Receive,
         Dynamo!Push, Dynamo!LastFlush, Dynamo!TimerFires, Dynamo!TimerFlush, Dynamo!EndFlush,
         Dynamo!GiveUp, Dynamo!Fail
    <3>2. DynInv'
      BY <1>2, <2>1, <2>4, TurnKeeps, FlushKeeps, PushKeeps, EndFlushKeeps, GiveUpKeeps, FailKeeps
      DEF Dynamo!DynNext, Dynamo!DynRun, Dynamo!DynProc
    <3> QED BY <2>2, <3>1, <3>2
  <2> QED BY <2>3, <2>4
<1> QED BY <1>1, <1>2

(* When Run of DynamoDB has returned, nothing is in the batch any more.     *)
LEMMA RegionsHaveAll == ASSUME DynInv PROVE Dynamo!EveryRegionHasAll
<1> SUFFICES ASSUME run = "returned"
             PROVE  /\ dyntotaln = Len(Key) - Dynamo!Cardinality(skipped)
                    /\ \A r \in Regions : \A i \in Dynamo!Records \ (skipped \cup lost[r]) :
                          table[r][Key[i]] >= i
  BY DEF Dynamo!EveryRegionHasAll
<1> USE DEF DynInv
<1>1. batch = <<>> /\ Len(batch) = 0 /\ Dynamo!Elems(batch) = {} /\ Handled = Len(Key)
  BY ElemsEmpty, EmptySeq DEF Turns, Handled
<1>2. dyntotaln = Len(Key) - Cardinality(skipped)
  <2>1. Cardinality(skipped) \in Nat /\ dyntotaln \in Nat /\ Len(Key) \in Nat
    BY SkippedFinite, DynConstants DEF DynTypes
  <2>2. dyntotaln + 0 + Cardinality(skipped) = Len(Key)
    BY <1>1 DEF BatchOnce
  <2> QED BY <2>1, <2>2
<1>3. \A r \in Regions : \A i \in Dynamo!Records \ (skipped \cup lost[r]) : table[r][Key[i]] >= i
  BY <1>1, DynConstants DEF RegionHas
<1> QED BY <1>2, <1>3, DynCardinality

LEMMA DynInvariance == Spec => [](part = "dynamodb" => DynInv)
<1>1. Init => (part = "dynamodb" => DynInv)
  BY DynInitial DEF Init
<1>2. (part = "dynamodb" => DynInv) /\ [Next]_vars => (part = "dynamodb" => DynInv)'
  <2> SUFFICES ASSUME part = "dynamodb" => DynInv, [Next]_vars, part' = "dynamodb"
               PROVE  DynInv'
    OBVIOUS
  <2>1. part = "dynamodb" /\ [Dynamo!DynNext]_dynvars
    BY DEF Next, Only, vars
  <2> QED BY <2>1, DynKeeps
<1> QED BY <1>1, <1>2, PTL DEF Spec

LEMMA BatchFitsAlways == Spec => [](part = "dynamodb" => BatchFits)
<1>1. Dynamo!DynInit => BatchFits
  BY DynConstants, EmptySeq DEF Dynamo!DynInit, BatchFits
<1>2. ASSUME DynInv, BatchFits, [Dynamo!DynNext]_dynvars PROVE BatchFits'
  <2>1. batch \in Seq(Dynamo!Records) /\ Len(batch) \in Nat
    BY <1>2, LenProperties DEF DynInv, DynTypes
  <2>2. CASE Dynamo!Push /\ batch' # batch
    <3>1. /\ batch' = Append(batch, received) /\ lock = NoWriter
          /\ Len(batch') = BatchSize => lock' = "run"
      BY <2>2 DEF Dynamo!Push, Dynamo!StartFlush, Dynamo!Free
    <3>2. received \in Dynamo!Records
      BY <1>2, <2>2, DynConstants DEF Dynamo!Push, DynInv, DynTypes, Turns
    <3>3. Len(batch') = Len(batch) + 1
      BY <2>1, <3>1, <3>2, AppendProperties
    <3>4. Len(batch) < BatchSize
      BY <1>2, <3>1 DEF BatchFits, Dynamo!Free
    <3> QED BY <2>1, <3>1, <3>3, <3>4, DynConstants DEF BatchFits, Dynamo!Free
  <2>3. CASE Dynamo!EndFlush
    <3>1. Len(batch') = 0
      BY <2>3, EmptySeq DEF Dynamo!EndFlush
    <3> QED BY <3>1, DynConstants DEF BatchFits
  <2>4. CASE batch' = batch /\ (Dynamo!Free' => Dynamo!Free)
    BY <1>2, <2>4 DEF BatchFits
  <2>5. \/ Dynamo!Push /\ batch' # batch
        \/ Dynamo!EndFlush
        \/ batch' = batch /\ (Dynamo!Free' => Dynamo!Free)
    BY <1>2 DEF Dynamo!DynNext, Dynamo!DynRun, Dynamo!DynProc, Dynamo!Receive, Dynamo!Push,
       Dynamo!LastFlush, Dynamo!TimerFires, Dynamo!TimerFlush, Dynamo!BatchWrite, Dynamo!GiveUp,
       Dynamo!Fail, Dynamo!Free, dynvars
  <2> QED BY <2>2, <2>3, <2>4, <2>5
<1>3. Init => (part = "dynamodb" => BatchFits)
  BY <1>1 DEF Init
<1>4. (part = "dynamodb" => DynInv) /\ (part = "dynamodb" => BatchFits) /\ [Next]_vars
        => (part = "dynamodb" => BatchFits)'
  <2> SUFFICES ASSUME part = "dynamodb" => DynInv, part = "dynamodb" => BatchFits, [Next]_vars,
                      part' = "dynamodb"
               PROVE  BatchFits'
    OBVIOUS
  <2>1. part = "dynamodb" /\ [Dynamo!DynNext]_dynvars
    BY DEF Next, Only, vars
  <2> QED BY <1>2, <2>1
<1> QED BY <1>3, <1>4, DynInvariance, PTL DEF Spec

(***************************************************************************)
(* The FileWriter output.  First, what the order of the lines needs of     *)
(* sequences of record numbers.                                            *)
(***************************************************************************)
Rising(s) == \A i, j \in DOMAIN s : i < j => s[i] < s[j]
Below(A, B) == \A a \in A : \A b \in B : a < b

LEMMA LinesOfEmpty == File!Lines(<<>>) = {} /\ Rising(<<>>)
BY DEF File!Lines, Rising

LEMMA LinesOfOne ==
    ASSUME NEW r \in Nat PROVE File!Lines(<<r>>) = {r} /\ Rising(<<r>>) /\ <<r>> \in Seq(Nat)
<1>1. DOMAIN <<r>> = {1} /\ <<r>>[1] = r
  OBVIOUS
<1> QED BY <1>1 DEF File!Lines, Rising

LEMMA LinesType ==
    ASSUME NEW s \in Seq(Nat) PROVE File!Lines(s) \subseteq Nat /\ (File!Lines(s) = {} => s = <<>>)
<1>1. DOMAIN s = 1..Len(s) /\ Len(s) \in Nat /\ \A i \in 1..Len(s) : s[i] \in Nat
  BY LenProperties, ElementOfSeq
<1>2. s # <<>> => 1 \in DOMAIN s
  BY <1>1, EmptySeq
<1> QED BY <1>1, <1>2 DEF File!Lines

LEMMA LinesConcat ==
    ASSUME NEW s \in Seq(Nat), NEW t \in Seq(Nat)
    PROVE  /\ File!Lines(s \o t) = File!Lines(s) \cup File!Lines(t)
           /\ Rising(s) /\ Rising(t) /\ Below(File!Lines(s), File!Lines(t)) => Rising(s \o t)
<1> DEFINE m == Len(s)
<1> DEFINE n == Len(t)
<1> DEFINE u == s \o t
<1>1. /\ m \in Nat /\ n \in Nat /\ DOMAIN s = 1..m /\ DOMAIN t = 1..n
      /\ u \in Seq(Nat) /\ Len(u) = m + n /\ DOMAIN u = 1..(m + n)
      /\ \A i \in 1..(m + n) : u[i] = IF i <= m THEN s[i] ELSE t[i - m]
  BY LenProperties, ConcatProperties
<1>2. \A i \in 1..m : i \in 1..(m + n) /\ u[i] = s[i]
  BY <1>1
<1>3. \A i \in 1..n : (m + i) \in 1..(m + n) /\ u[m + i] = t[i]
  <2> TAKE i \in 1..n
  <2>1. (m + i) \in 1..(m + n) /\ ~(m + i <= m) /\ (m + i) - m = i
    BY <1>1
  <2> QED BY <1>1, <2>1
<1>4. \A i \in 1..(m + n) : i \in 1..m \/ ((i - m) \in 1..n /\ i = m + (i - m))
  BY <1>1
<1> HIDE DEF m, n, u
<1>5. File!Lines(u) = File!Lines(s) \cup File!Lines(t)
  <2>1. \A i \in 1..(m + n) : u[i] \in File!Lines(s) \cup File!Lines(t)
    <3> TAKE i \in 1..(m + n)
    <3>1. CASE i \in 1..m
      BY <1>1, <1>2, <3>1 DEF File!Lines
    <3>2. CASE (i - m) \in 1..n /\ i = m + (i - m)
      <4>1. PICK k \in 1..n : i = m + k
        BY <3>2
      <4>2. u[i] = t[k]
        BY <4>1, <1>3
      <4> QED BY <1>1, <4>2 DEF File!Lines
    <3> QED BY <1>4, <3>1, <3>2
  <2>2. \A i \in 1..m : s[i] \in File!Lines(u)
    BY <1>1, <1>2 DEF File!Lines
  <2>3. \A i \in 1..n : t[i] \in File!Lines(u)
    <3> TAKE i \in 1..n
    <3>1. (m + i) \in DOMAIN u /\ u[m + i] = t[i]
      BY <1>1, <1>3
    <3> QED BY <3>1 DEF File!Lines
  <2> QED BY <1>1, <2>1, <2>2, <2>3 DEF File!Lines
<1>6. ASSUME Rising(s), Rising(t), Below(File!Lines(s), File!Lines(t))
      PROVE  Rising(u)
  <2> SUFFICES ASSUME NEW i \in 1..(m + n), NEW j \in 1..(m + n), i < j PROVE u[i] < u[j]
    BY <1>1 DEF Rising
  <2>1. CASE i \in 1..m /\ j \in 1..m
    BY <1>1, <1>2, <1>6, <2>1 DEF Rising
  <2>2. CASE i \in 1..m /\ j \notin 1..m
    <3>1. PICK k \in 1..n : j = m + k
      BY <1>4, <2>2
    <3>2. u[j] = t[k] /\ u[i] = s[i]
      BY <1>2, <1>3, <2>2, <3>1
    <3>3. t[k] \in File!Lines(t) /\ s[i] \in File!Lines(s)
      BY <1>1, <2>2 DEF File!Lines
    <3> QED BY <1>6, <3>2, <3>3 DEF Below
  <2>3. CASE i \notin 1..m
    <3>1. j \notin 1..m
      BY <1>1, <2>3
    <3>2. PICK k \in 1..n : i = m + k
      BY <1>4, <2>3
    <3>3. PICK l \in 1..n : j = m + l
      BY <1>4, <3>1
    <3>4. u[i] = t[k] /\ u[j] = t[l] /\ k < l
      BY <1>1, <1>3, <3>2, <3>3
    <3> QED BY <1>1, <1>6, <3>4 DEF Rising
  <2> QED BY <2>1, <2>2, <2>3
<1> QED BY <1>5, <1>6 DEF u

(* Where the records of key k are, of the first t ones of s: in the files  *)
(* of the worker, which were given d, or in its channel c, each of them    *)
(* once and in order, since every line of a file is below those of the     *)
(* next one and of the channel.                                            *)
FileLines(d, k, i) == File!Lines(d[<<k, i>>])
Content(s, d, c, t, k) ==
    /\ \A i \in 0..MaxRotations :
         /\ Rising(d[<<k, i>>]) /\ Below(FileLines(d, k, i), File!Lines(c))
         /\ \A j \in 0..MaxRotations : i < j => Below(FileLines(d, k, i), FileLines(d, k, j))
    /\ \A r : r \in 1..t /\ s[r] = k
                <=> (\E i \in 0..MaxRotations : r \in FileLines(d, k, i)) \/ r \in File!Lines(c)

(* Run sends the next record to the worker.                                 *)
LEMMA ContentSent ==
    ASSUME NEW s, NEW d, NEW k, NEW t \in Nat, s[t + 1] = k, Content(s, d, <<>>, t, k)
    PROVE  Content(s, d, <<t + 1>>, t + 1, k)
<1>1. File!Lines(<<t + 1>>) = {t + 1} /\ File!Lines(<<>>) = {}
  BY LinesOfOne, LinesOfEmpty
<1>2. \A r : r \in 1..(t + 1) <=> r \in 1..t \/ r = t + 1
  OBVIOUS
<1>3. \A r : r \in 1..t => r < t + 1
  OBVIOUS
<1>4. \A i \in 0..MaxRotations : \A r \in FileLines(d, k, i) : r < t + 1
  BY <1>3 DEF Content
<1> QED BY <1>1, <1>2, <1>4 DEF Content, Below

(* ... or to another one.                                                   *)
LEMMA ContentElsewhere ==
    ASSUME NEW s, NEW d, NEW c, NEW k, NEW t \in Nat, s[t + 1] # k, Content(s, d, c, t, k)
    PROVE  Content(s, d, c, t + 1, k)
<1>1. \A r : r \in 1..(t + 1) <=> r \in 1..t \/ r = t + 1
  OBVIOUS
<1> QED BY <1>1 DEF Content

(* The line in the channel is given to the current file, the last one that *)
(* has been given any.                                                     *)
LEMMA ContentWritten ==
    ASSUME NEW s, NEW d \in [File!Paths -> Seq(Nat)], NEW b \in Seq(Nat), Rising(b),
           NEW k \in Keys, NEW t, NEW m \in 0..MaxRotations,
           \A i \in 0..MaxRotations : i > m => d[<<k, i>>] = <<>>,
           Content(s, d, b, t, k)
    PROVE  Content(s, [d EXCEPT ![<<k, m>>] = @ \o b], <<>>, t, k)
<1> DEFINE e == [d EXCEPT ![<<k, m>>] = @ \o b]
<1>1. \A i \in 0..MaxRotations : <<k, i>> \in File!Paths
  BY DEF File!Paths
<1>2. /\ e[<<k, m>>] = d[<<k, m>>] \o b
      /\ \A i \in 0..MaxRotations : i # m => e[<<k, i>>] = d[<<k, i>>]
  BY <1>1
<1> HIDE DEF e
<1>3. FileLines(e, k, m) = FileLines(d, k, m) \cup File!Lines(b) /\ Rising(e[<<k, m>>])
  <2>1. d[<<k, m>>] \in Seq(Nat)
    BY <1>1
  <2> QED BY <1>2, <2>1, LinesConcat DEF Content, FileLines
<1>4. \A i \in 0..MaxRotations : i # m => FileLines(e, k, i) = FileLines(d, k, i)
  BY <1>2 DEF FileLines
<1>5. \A i \in 0..MaxRotations : i > m => FileLines(d, k, i) = {}
  BY LinesOfEmpty DEF FileLines
<1>6. File!Lines(<<>>) = {} /\ \A A : Below(A, {}) /\ Below({}, A)
  BY LinesOfEmpty DEF Below
<1>7. \A i \in 0..MaxRotations : Rising(e[<<k, i>>])
  BY <1>2, <1>3 DEF Content
<1>8. \A i, j \in 0..MaxRotations : i < j => Below(FileLines(e, k, i), FileLines(e, k, j))
  <2> SUFFICES ASSUME NEW i \in 0..MaxRotations, NEW j \in 0..MaxRotations, i < j
               PROVE  Below(FileLines(e, k, i), FileLines(e, k, j))
    OBVIOUS
  <2>1. Below(FileLines(d, k, i), FileLines(d, k, j)) /\ Below(FileLines(d, k, i), File!Lines(b))
    BY DEF Content
  <2>2. CASE j = m
    <3>1. i # m
      BY <2>2
    <3> QED BY <2>1, <2>2, <3>1, <1>3, <1>4 DEF Below
  <2>3. CASE i = m
    <3>1. j > m /\ j # m
      BY <2>3
    <3>2. FileLines(e, k, j) = {}
      BY <3>1, <1>4, <1>5
    <3> QED BY <3>2 DEF Below
  <2>4. CASE i # m /\ j # m
    BY <2>1, <2>4, <1>4
  <2> QED BY <2>2, <2>3, <2>4
<1>9. \A r : (\E i \in 0..MaxRotations : r \in FileLines(e, k, i))
             <=> (\E i \in 0..MaxRotations : r \in FileLines(d, k, i)) \/ r \in File!Lines(b)
  BY <1>3, <1>4
<1>10. \A r : r \in 1..t /\ s[r] = k
                <=> (\E i \in 0..MaxRotations : r \in FileLines(e, k, i)) \/ r \in File!Lines(<<>>)
  BY <1>6, <1>9 DEF Content
<1> QED BY <1>6, <1>7, <1>8, <1>10 DEF Content, e

(* Content only looks at the files of its worker.                           *)
LEMMA ContentSame ==
    ASSUME NEW s, NEW d, NEW e, NEW c, NEW k, NEW t,
           \A i \in 0..MaxRotations : e[<<k, i>>] = d[<<k, i>>], Content(s, d, c, t, k)
    PROVE  Content(s, e, c, t, k)
<1>1. \A i \in 0..MaxRotations : FileLines(e, k, i) = FileLines(d, k, i)
  BY DEF FileLines
<1> QED BY <1>1 DEF Content

(* What is the beginning of a sequence is that of a longer one.             *)
LEMMA BeginningGrows ==
    ASSUME NEW s \in Seq(Nat), NEW t \in Seq(Nat), NEW b \in Seq(Nat), File!BeginningOf(s, t)
    PROVE  File!BeginningOf(s, t \o b)
<1>1. /\ Len(s) \in Nat /\ Len(t) \in Nat /\ Len(b) \in Nat /\ Len(t \o b) = Len(t) + Len(b)
      /\ \A i \in 1..Len(t) : (t \o b)[i] = t[i]
  BY LenProperties, ConcatProperties
<1>2. Len(s) <= Len(t) /\ \A i \in 1..Len(s) : s[i] = t[i]
  BY DEF File!BeginningOf
<1>3. Len(s) <= Len(t \o b)
  BY <1>1, <1>2
<1>4. \A i \in 1..Len(s) : i \in 1..Len(t)
  BY <1>1, <1>2
<1> QED BY <1>1, <1>2, <1>3, <1>4 DEF File!BeginningOf

LEMMA BeginningIs ==
    ASSUME NEW t \in Seq(Nat)
    PROVE  /\ File!BeginningOf(t, t)
           /\ \A s \in Seq(Nat) : File!BeginningOf(s, t) /\ t = <<>> => s = <<>>
           /\ \A n \in 0..Len(t) : /\ SubSeq(t, 1, n) \in Seq(Nat)
                                   /\ File!BeginningOf(SubSeq(t, 1, n), t)
<1>1. File!BeginningOf(t, t)
  <2>1. Len(t) \in Nat
    BY LenProperties
  <2> QED BY <2>1 DEF File!BeginningOf
<1>2. ASSUME NEW s \in Seq(Nat), File!BeginningOf(s, t), t = <<>> PROVE s = <<>>
  <2>1. Len(s) \in Nat /\ Len(t) = 0
    BY <1>2, LenProperties, EmptySeq
  <2>2. Len(s) <= Len(t)
    BY <1>2 DEF File!BeginningOf
  <2>3. Len(s) = 0
    BY <2>1, <2>2
  <2> QED BY <2>3, EmptySeq
<1>3. ASSUME NEW n \in 0..Len(t)
      PROVE  SubSeq(t, 1, n) \in Seq(Nat) /\ File!BeginningOf(SubSeq(t, 1, n), t)
  <2>1. Len(t) \in Nat /\ \A i \in 1..Len(t) : t[i] \in Nat
    BY LenProperties, ElementOfSeq
  <2>2. n \in Nat /\ n <= Len(t) /\ \A i \in 1..n : i \in 1..Len(t)
    BY <2>1
  <2>3. SubSeq(t, 1, n) \in Seq(Nat) /\ Len(SubSeq(t, 1, n)) = n
        /\ \A i \in 1..n : SubSeq(t, 1, n)[i] = t[i]
    BY <2>1, <2>2
  <2> QED BY <2>2, <2>3 DEF File!BeginningOf
<1> QED BY <1>1, <1>2, <1>3

(* Run and its workers: a worker is there before it is sent a line, is     *)
(* closed when nothing is sent any more, and is waited for.                *)
FileRun ==
    /\ rpc = "recv" => totaln = taken
    /\ rpc = "write" => /\ taken = totaln + 1 /\ stream[taken] \in Keys
                        /\ wpc[stream[taken]] # "none"
    /\ rpc = "returned" => \A k \in Keys : wpc[k] \in {"none", "done"}
    /\ \A k \in Keys : inClosed[k] => rpc \in {"close", "returned"}

(* The state of a worker: the file it has open has been given a line if    *)
(* writtenOnce says so, the one it is going to open has not.               *)
Worker(k) ==
    /\ wpc[k] = "upch" => rotateIdx[k] < MaxRotations
    /\ wpc[k] \in {"none", "last", "done"} => in[k] = <<>>
    /\ wpc[k] \in {"last", "done"} => inClosed[k]
    /\ wpc[k] = "none" => ~writtenOnce[k]
    /\ wpc[k] = "select" => (writtenOnce[k] <=> given[<<k, rotateIdx[k]>>] # <<>>)
    /\ \A i \in 0..MaxRotations :
         i > rotateIdx[k] \/ (i = rotateIdx[k] /\ wpc[k] \in {"none", "open"})
            => given[<<k, i>>] = <<>>

(* An empty file that could not be removed.                                 *)
Left(p) == DiscardEmptyFiles /\ p \in failed /\ given[p] = <<>>

(* Its files: the ones before the current one have been named, the current *)
(* one is named last of all (or removed, being empty).                      *)
Naming(k) ==
    /\ wpc[k] = "done" => <<k, rotateIdx[k]>> \in File!Handed \/ given[<<k, rotateIdx[k]>>] = <<>>
    /\ \A i \in 0..MaxRotations :
         /\ <<k, i>> \in File!Handed =>
              i < rotateIdx[k] \/ (i = rotateIdx[k] /\ wpc[k] = "done")
         /\ i < rotateIdx[k] => <<k, i>> \in File!Handed
         /\ <<k, i>> \in exist => \/ <<k, i>> \in File!Handed
                                  \/ i = rotateIdx[k] /\ wpc[k] \in {"select", "upch", "last"}
                                  \/ Left(<<k, i>>)
         /\ <<k, i>> \in File!Handed => <<k, i>> \in exist
         /\ i = rotateIdx[k] /\ wpc[k] \in {"select", "upch", "last"} => <<k, i>> \in exist

(* With DiscardEmptyFiles a file has been given lines before it is named.   *)
NoneEmpty(k) ==
    DiscardEmptyFiles =>
        /\ wpc[k] \in {"upch", "last"} => given[<<k, rotateIdx[k]>>] # <<>>
        /\ \A i \in 0..MaxRotations : <<k, i>> \in File!Handed => given[<<k, i>>] # <<>>

(* What is in a file is the beginning of what it was given, and all of it  *)
(* once it is closed, unless an error was logged for it.                    *)
Complete(p) == p \in failed \/ disk[p] = given[p]
Kept(k) ==
    /\ \A i \in 0..MaxRotations :
         /\ File!BeginningOf(disk[<<k, i>>], given[<<k, i>>])
         /\ <<k, i>> \in File!Handed => Complete(<<k, i>>)
    /\ wpc[k] \in {"upch", "last"} => Complete(<<k, rotateIdx[k]>>)

NamedInOrder ==
    \A i, j \in 1..Len(handed) :
        i < j /\ handed[i][1] = handed[j][1] => handed[i][2] < handed[j][2]

LinesOf(k) == Content(stream, given, in[k], totaln, k)

FileInv ==
    /\ File!TypeOK /\ FileRun /\ NamedInOrder
    /\ \A k \in Keys : Worker(k) /\ Naming(k) /\ NoneEmpty(k) /\ Kept(k) /\ LinesOf(k)

LEMMA FileConstants ==
    /\ MaxRecs \in Nat /\ MaxRotations \in Nat
    /\ {RotateInterval, RotateSize, DiscardEmptyFiles, CreateFails} \subseteq BOOLEAN
BY OutputsAssumption DEF OutputsAssumption, File!FileWriterAssumption

LEMMA PathIs ==
    /\ \A k \in Keys, i \in 0..MaxRotations : <<k, i>> \in File!Paths
    /\ \A p \in File!Paths : \E k \in Keys, i \in 0..MaxRotations : p = <<k, i>>
BY DEF File!Paths

LEMMA HandedIs ==
    ASSUME NEW h \in Seq(File!Paths), h = handed
    PROVE  File!Handed = {h[i] : i \in 1..Len(h)} /\ File!Handed \subseteq File!Paths
<1>1. DOMAIN h = 1..Len(h) /\ \A i \in 1..Len(h) : h[i] \in File!Paths
  BY LenProperties, ElementOfSeq
<1> QED BY <1>1 DEF File!Handed

LEMMA FileInitial == File!Init => FileInv
<1> SUFFICES ASSUME File!Init PROVE FileInv
  OBVIOUS
<1> USE DEF File!Init
<1>1. stream \in Seq(Keys) /\ Len(stream) \in Nat
  <2>1. PICK n \in 0..MaxRecs : stream \in [1..n -> Keys]
    OBVIOUS
  <2>2. n \in Nat
    BY FileConstants
  <2> QED BY <2>1, <2>2
<1>2. <<>> \in Seq(Nat) /\ <<>> \in Seq(File!Paths) /\ Len(<<>>) = 0
  BY EmptySeq
<1>3. File!TypeOK
  <2>1. taken \in 0..Len(stream) /\ totaln \in 0..taken
    BY <1>1
  <2>2. rotateIdx \in [Keys -> 0..MaxRotations]
    BY FileConstants
  <2>3. /\ in \in [Keys -> Seq(Nat)] /\ given \in [File!Paths -> Seq(Nat)]
        /\ disk \in [File!Paths -> Seq(Nat)] /\ handed \in Seq(File!Paths)
        /\ \A k \in Keys : Len(in[k]) <= 1
    BY <1>2
  <2> QED BY <1>1, <2>1, <2>2, <2>3 DEF File!TypeOK
<1>4. File!Handed = {}
  BY DEF File!Handed
<1>5. FileRun /\ NamedInOrder
  BY <1>2 DEF FileRun, NamedInOrder
<1>6. ASSUME NEW k \in Keys
      PROVE  Worker(k) /\ Naming(k) /\ NoneEmpty(k) /\ Kept(k) /\ LinesOf(k)
  <2>1. /\ in[k] = <<>> /\ wpc[k] = "none" /\ rotateIdx[k] = 0 /\ writtenOnce[k] = FALSE
        /\ totaln = 0 /\ exist = {}
        /\ \A i \in 0..MaxRotations : given[<<k, i>>] = <<>> /\ disk[<<k, i>>] = <<>>
    BY PathIs
  <2>2. \A i \in 0..MaxRotations : FileLines(given, k, i) = {} /\ Rising(given[<<k, i>>])
    BY <2>1, LinesOfEmpty DEF FileLines
  <2>3. LinesOf(k)
    <3>1. \A A : Below(A, {}) /\ Below({}, A)
      BY DEF Below
    <3>2. ~\E r : r \in 1..0
      OBVIOUS
    <3> QED BY <2>1, <2>2, <3>1, <3>2, LinesOfEmpty DEF LinesOf, Content
  <2>4. \A i \in 0..MaxRotations : ~(i < 0)
    OBVIOUS
  <2>5. Kept(k)
    BY <1>2, <1>4, <2>1, BeginningIs DEF Kept
  <2> QED BY <1>4, <2>1, <2>3, <2>4, <2>5 DEF Worker, Naming, NoneEmpty
<1> QED BY <1>3, <1>5, <1>6 DEF FileInv

(* What a step does not touch.                                              *)
Same(q) ==
    /\ wpc'[q] = wpc[q] /\ rotateIdx'[q] = rotateIdx[q] /\ in'[q] = in[q]
    /\ inClosed[q] => inClosed'[q]
    /\ writtenOnce'[q] = writtenOnce[q]
    /\ \A i \in 0..MaxRotations :
         /\ given'[<<q, i>>] = given[<<q, i>>] /\ disk'[<<q, i>>] = disk[<<q, i>>]
         /\ <<q, i>> \in failed' <=> <<q, i>> \in failed
         /\ <<q, i>> \in File!Handed' <=> <<q, i>> \in File!Handed
         /\ <<q, i>> \in exist' <=> <<q, i>> \in exist

LEMMA Untouched ==
    ASSUME NEW q \in Keys, Worker(q), Naming(q), NoneEmpty(q), Kept(q),
           Same(q), rotateIdx[q] \in 0..MaxRotations
    PROVE  Worker(q)' /\ Naming(q)' /\ NoneEmpty(q)' /\ Kept(q)'
<1> USE DEF Same
<1>1. Worker(q)' BY DEF Worker
<1>2. Naming(q)'
  <2>1. \A i \in 0..MaxRotations : Left(<<q, i>>) => Left(<<q, i>>)'
    BY DEF Left
  <2> QED BY <2>1 DEF Naming
<1>3. NoneEmpty(q)' BY DEF NoneEmpty
<1>4. Kept(q)'
  <2>1. \A i \in 0..MaxRotations : Complete(<<q, i>>) => Complete(<<q, i>>)'
    BY DEF Complete
  <2> QED BY <2>1 DEF Kept
<1> QED BY <1>1, <1>2, <1>3, <1>4

(* A file is only created where nothing has been written.                   *)
LEMMA CreateLeavesDisk ==
    ASSUME FileInv, NEW k \in Keys, wpc[k] \in {"none", "open"}, File!CreateFile(File!CurPath(k))
    PROVE  disk' = disk /\ exist' = exist \cup {<<k, rotateIdx[k]>>}
<1>1. /\ rotateIdx[k] \in 0..MaxRotations /\ disk \in [File!Paths -> Seq(Nat)]
      /\ given \in [File!Paths -> Seq(Nat)]
  BY DEF FileInv, File!TypeOK
<1>2. given[<<k, rotateIdx[k]>>] = <<>> /\ <<k, rotateIdx[k]>> \in File!Paths
  BY <1>1, PathIs DEF FileInv, Worker
<1>3. disk[<<k, rotateIdx[k]>>] = <<>>
  <2>1. File!BeginningOf(disk[<<k, rotateIdx[k]>>], given[<<k, rotateIdx[k]>>])
    BY <1>1 DEF FileInv, Kept
  <2> QED BY <1>1, <1>2, <2>1, BeginningIs
<1> QED BY <1>1, <1>2, <1>3 DEF File!CreateFile, File!CurPath

(* The steps of Run that do not hand a record on.                           *)
LEMMA ReceiveKeeps == ASSUME FileInv, File!Receive PROVE FileInv' /\ disk' = disk
<1> USE DEF FileInv
<1>1. PICK k \in Keys : k = stream[taken + 1] /\ taken + 1 \in 1..Len(stream)
  <2>1. taken + 1 \in 1..Len(stream)
    <3>1. Len(stream) \in Nat
      BY LenProperties DEF File!TypeOK
    <3> QED BY <3>1 DEF File!Receive, File!TypeOK
  <2> QED BY <2>1, ElementOfSeq DEF File!TypeOK
<1>2. /\ rpc = "recv" /\ taken' = taken + 1
      /\ UNCHANGED <<stream, totaln, in, inClosed, rotateIdx, writtenOnce, given, failed, handed,
                     uploader, died>>
  BY DEF File!Receive, File!chvars
<1>3. /\ disk' = disk
      /\ \/ wpc[k] # "none" /\ rpc' = "write" /\ UNCHANGED <<runErr, wpc, exist>>
         \/ /\ wpc[k] = "none" /\ rpc' = "write" /\ wpc' = [wpc EXCEPT ![k] = "select"]
            /\ exist' = exist \cup {<<k, rotateIdx[k]>>} /\ runErr' = runErr
         \/ wpc[k] = "none" /\ rpc' = "close" /\ runErr' = TRUE /\ UNCHANGED <<wpc, exist>>
  BY <1>1, CreateLeavesDisk DEF File!Receive, File!Workers
<1>4. /\ wpc \in [Keys -> {"none", "select", "upch", "open", "last", "done"}]
      /\ rotateIdx \in [Keys -> 0..MaxRotations] /\ taken \in Nat /\ totaln = taken
  BY <1>2 DEF File!TypeOK, FileRun
<1>5. /\ \A q \in Keys : q # k => wpc'[q] = wpc[q]
      /\ wpc' \in [Keys -> {"none", "select", "upch", "open", "last", "done"}]
      /\ rpc' = "write" => wpc'[k] # "none"
  BY <1>3, <1>4
<1>6. File!TypeOK'
  <2>1. taken' \in 0..Len(stream) /\ totaln' \in 0..taken'
    BY <1>1, <1>2, <1>4
  <2>2. exist' \subseteq File!Paths
    BY <1>3, <1>4, PathIs DEF File!TypeOK
  <2> QED BY <1>2, <1>3, <1>5, <2>1, <2>2 DEF File!TypeOK
<1>7. FileRun'
  BY <1>1, <1>2, <1>3, <1>4, <1>5 DEF FileRun
<1>8. NamedInOrder' /\ File!Handed' = File!Handed
  BY <1>2 DEF NamedInOrder, File!Handed
<1>9. ASSUME NEW q \in Keys
      PROVE  (Worker(q) /\ Naming(q) /\ NoneEmpty(q) /\ Kept(q) /\ LinesOf(q))'
  <2>1. LinesOf(q)'
    BY <1>2, <1>3 DEF LinesOf
  <2>2. CASE q = k /\ wpc' # wpc
    <3>1. wpc[k] = "none" /\ wpc'[k] = "select" /\ exist' = exist \cup {<<k, rotateIdx[k]>>}
      BY <1>3, <1>4, <2>2
    <3>2. ~writtenOnce[k] /\ given[<<k, rotateIdx[k]>>] = <<>>
      BY <1>4, <3>1 DEF Worker
    <3>3. Worker(k)'
      BY <1>2, <3>1, <3>2 DEF Worker
    <3>4. Naming(k)'
      BY <1>2, <1>8, <3>1 DEF Naming, Left
    <3>5. NoneEmpty(k)' /\ Kept(k)'
      BY <1>2, <1>3, <1>8, <3>1 DEF NoneEmpty, Kept, Complete
    <3> QED BY <2>1, <2>2, <3>3, <3>4, <3>5
  <2>3. CASE q # k \/ wpc' = wpc
    <3>1. wpc'[q] = wpc[q]
      BY <1>5, <2>3
    <3>2. \A i \in 0..MaxRotations : <<q, i>> \in exist' <=> <<q, i>> \in exist
      BY <1>3, <1>4, <2>3
    <3>3. Same(q)
      BY <1>2, <1>3, <1>8, <3>1, <3>2 DEF Same
    <3> QED BY <1>4, <2>1, <3>3, Untouched
  <2> QED BY <2>1, <2>2, <2>3
<1> QED BY <1>3, <1>6, <1>7, <1>8, <1>9

LEMMA RunEndKeeps ==
    ASSUME FileInv,
           \/ File!EndOfStream \/ File!RunReturn \/ File!UploaderReady
           \/ \E k \in Keys : File!CloseWorker(k)
    PROVE  FileInv' /\ disk' = disk
<1> USE DEF FileInv
<1>1. UNCHANGED <<stream, taken, totaln, runErr, in, wpc, rotateIdx, writtenOnce, given, failed,
                  exist, disk, handed, died>>
  BY DEF File!EndOfStream, File!RunReturn, File!UploaderReady, File!CloseWorker,
         File!runvars, File!chvars, File!filevars
<1>2. /\ uploader' \in {"recv", "busy"} /\ rpc' \in {"recv", "write", "close", "returned"}
      /\ inClosed' \in [Keys -> BOOLEAN] /\ \A q \in Keys : inClosed[q] => inClosed'[q]
      /\ FileRun'
  <2>1. CASE File!EndOfStream \/ File!RunReturn
    BY <1>1, <2>1 DEF File!EndOfStream, File!RunReturn, File!chvars, File!TypeOK, FileRun, File!Workers
  <2>2. CASE File!UploaderReady
    BY <1>1, <2>2 DEF File!UploaderReady, File!runvars, File!chvars, File!TypeOK, FileRun
  <2>3. ASSUME NEW k \in Keys, File!CloseWorker(k)
        PROVE  /\ rpc = "close" /\ rpc' = rpc /\ uploader' = uploader
               /\ inClosed' = [inClosed EXCEPT ![k] = TRUE]
    BY <2>3 DEF File!CloseWorker, File!runvars
  <2>4. CASE \E k \in Keys : File!CloseWorker(k)
    BY <1>1, <2>3, <2>4 DEF File!TypeOK, FileRun
  <2> QED BY <2>1, <2>2, <2>4
<1>3. File!TypeOK'
  BY <1>1, <1>2 DEF File!TypeOK
<1>4. NamedInOrder' /\ File!Handed' = File!Handed
  BY <1>1 DEF NamedInOrder, File!Handed
<1>5. ASSUME NEW q \in Keys
      PROVE  (Worker(q) /\ Naming(q) /\ NoneEmpty(q) /\ Kept(q) /\ LinesOf(q))'
  <2>1. LinesOf(q)'
    BY <1>1 DEF LinesOf
  <2>2. rotateIdx[q] \in 0..MaxRotations
    BY DEF File!TypeOK
  <2>3. Same(q)
    BY <1>1, <1>2, <1>4 DEF Same
  <2> QED BY <2>1, <2>2, <2>3, Untouched
<1> QED BY <1>1, <1>2, <1>3, <1>4, <1>5

(* The record is the newest of its worker, whose channel is empty.          *)
LEMMA WriteToWorkerKeeps == ASSUME FileInv, File!WriteToWorker PROVE FileInv' /\ disk' = disk
<1> USE DEF FileInv
<1>1. /\ rpc = "write" /\ rpc' = "recv" /\ totaln' = totaln + 1 /\ taken = totaln + 1
      /\ UNCHANGED <<stream, taken, runErr, inClosed, wpc, rotateIdx, writtenOnce, given, failed,
                     exist, disk, handed, uploader, died>>
  BY DEF File!WriteToWorker, File!filevars, FileRun
<1>2. totaln \in Nat /\ taken \in Nat /\ taken \in 1..Len(stream)
  BY <1>1 DEF File!TypeOK
<1>3. PICK k \in Keys : k = stream[taken]
  BY <1>2, ElementOfSeq DEF File!TypeOK
<1>4. /\ in[k] = <<>> /\ in' = [in EXCEPT ![k] = <<taken>>] /\ in \in [Keys -> Seq(Nat)]
      /\ wpc[k] # "none"
  BY <1>1, <1>3 DEF File!WriteToWorker, File!TypeOK, FileRun
<1>5. in'[k] = <<taken>> /\ \A q \in Keys : q # k => in'[q] = in[q]
  BY <1>4
<1>6. File!TypeOK'
  <2>1. <<taken>> \in Seq(Nat) /\ Len(<<taken>>) = 1
    BY <1>2
  <2>2. in' \in [Keys -> Seq(Nat)] /\ \A q \in Keys : Len(in'[q]) <= 1
    BY <1>4, <1>5, <2>1 DEF File!TypeOK
  <2>3. totaln' \in 0..taken
    BY <1>1, <1>2
  <2> QED BY <1>1, <2>2, <2>3 DEF File!TypeOK
<1>7. FileRun'
  BY <1>1, <1>2 DEF FileRun
<1>8. NamedInOrder' /\ File!Handed' = File!Handed
  BY <1>1 DEF NamedInOrder, File!Handed
<1>9. ASSUME NEW q \in Keys
      PROVE  (Worker(q) /\ Naming(q) /\ NoneEmpty(q) /\ Kept(q) /\ LinesOf(q))'
  <2>1. rotateIdx[q] \in 0..MaxRotations
    BY DEF File!TypeOK
  <2>2. CASE q = k
    <3>1. wpc[k] \notin {"none", "last", "done"}
      BY <1>1, <1>4 DEF Worker, FileRun
    <3>2. Worker(k)'
      BY <1>1, <3>1 DEF Worker
    <3>3. Naming(k)' /\ NoneEmpty(k)' /\ Kept(k)'
      BY <1>1, <1>8 DEF Naming, Left, NoneEmpty, Kept, Complete
    <3>4. Content(stream, given, <<>>, totaln, k)
      BY <1>4 DEF LinesOf
    <3>5. Content(stream, given, <<totaln + 1>>, totaln + 1, k)
      BY <1>1, <1>2, <1>3, <3>4, ContentSent
    <3>6. LinesOf(k)'
      BY <1>1, <1>5, <3>5 DEF LinesOf
    <3> QED BY <2>2, <3>2, <3>3, <3>6
  <2>3. CASE q # k
    <3>1. Content(stream, given, in[q], totaln + 1, q)
      BY <1>1, <1>2, <1>3, <2>3, ContentElsewhere DEF LinesOf
    <3>2. LinesOf(q)'
      BY <1>1, <1>5, <2>3, <3>1 DEF LinesOf
    <3>3. Same(q)
      BY <1>1, <1>5, <1>8, <2>3 DEF Same
    <3> QED BY <2>1, <3>2, <3>3, Untouched
  <2> QED BY <2>2, <2>3
<1> QED BY <1>1, <1>6, <1>7, <1>8, <1>9

(* What closing a file, or the error of a write, does to the files: only   *)
(* the current one is changed, and of what it was given it has the whole   *)
(* or a beginning.                                                         *)
Files1(k, lines) ==
    /\ disk' \in [File!Paths -> Seq(Nat)] /\ failed' \subseteq File!Paths
    /\ \A p \in File!Paths : p # <<k, rotateIdx[k]>> =>
         disk'[p] = disk[p] /\ (p \in failed' <=> p \in failed)
    /\ File!BeginningOf(disk'[<<k, rotateIdx[k]>>], lines)
    /\ failed \subseteq failed'

LEMMA ClosedFiles ==
    ASSUME File!TypeOK, NEW k \in Keys, NEW lines \in Seq(Nat),
           File!BeginningOf(disk[<<k, rotateIdx[k]>>], lines),
           NEW pc, File!CloseFile(k, lines, pc)
    PROVE  /\ Files1(k, lines)
           /\ <<k, rotateIdx[k]>> \in failed' \/ disk'[<<k, rotateIdx[k]>>] = lines
           /\ wpc' = [wpc EXCEPT ![k] = pc]
<1>1. PICK p : p = File!CurPath(k)
  OBVIOUS
<1>2. p = <<k, rotateIdx[k]>> /\ p \in File!Paths /\ disk \in [File!Paths -> Seq(Nat)]
      /\ failed \subseteq File!Paths
  BY <1>1, PathIs DEF File!CurPath, File!TypeOK
<1>3. \/ p \notin failed /\ failed' = failed /\ disk' = [disk EXCEPT ![p] = lines]
      \/ /\ failed' = failed \cup {p}
         /\ \E n \in 0..Len(lines) : disk' = [disk EXCEPT ![p] = SubSeq(lines, 1, n)]
      \/ p \in failed /\ failed' = failed /\ disk' = disk
  BY <1>1 DEF File!CloseFile
<1>4. CASE p \notin failed /\ failed' = failed /\ disk' = [disk EXCEPT ![p] = lines]
  <2>1. disk' \in [File!Paths -> Seq(Nat)] /\ disk'[p] = lines
        /\ \A q \in File!Paths : q # p => disk'[q] = disk[q]
    BY <1>2, <1>4
  <2> QED BY <1>2, <1>4, <2>1, BeginningIs DEF Files1, File!CloseFile
<1>5. ASSUME failed' = failed \cup {p}, NEW n \in 0..Len(lines),
             disk' = [disk EXCEPT ![p] = SubSeq(lines, 1, n)]
      PROVE  Files1(k, lines) /\ p \in failed'
  <2>1. SubSeq(lines, 1, n) \in Seq(Nat) /\ File!BeginningOf(SubSeq(lines, 1, n), lines)
    BY BeginningIs
  <2>2. PICK x \in Seq(Nat) : x = SubSeq(lines, 1, n)
    BY <2>1
  <2>3. disk' = [disk EXCEPT ![p] = x]
    BY <1>5, <2>2
  <2>4. disk' \in [File!Paths -> Seq(Nat)] /\ disk'[p] = x
        /\ \A q \in File!Paths : q # p => disk'[q] = disk[q]
    BY <1>2, <2>3
  <2> QED BY <1>2, <1>5, <2>1, <2>2, <2>4 DEF Files1
<1>6. CASE p \in failed /\ failed' = failed /\ disk' = disk
  BY <1>2, <1>6 DEF Files1, File!CloseFile
<1>7. wpc' = [wpc EXCEPT ![k] = pc]
  BY DEF File!CloseFile
<1> QED BY <1>2, <1>3, <1>4, <1>5, <1>6, <1>7

LEMMA FailedFiles ==
    ASSUME File!TypeOK, NEW k \in Keys, File!FailWrite(File!CurPath(k))
    PROVE  Files1(k, given[<<k, rotateIdx[k]>>]) /\ <<k, rotateIdx[k]>> \in failed'
<1>1. PICK p : p = File!CurPath(k)
  OBVIOUS
<1>2. p = <<k, rotateIdx[k]>> /\ p \in File!Paths /\ disk \in [File!Paths -> Seq(Nat)]
      /\ failed \subseteq File!Paths /\ given[p] \in Seq(Nat)
  BY <1>1, PathIs DEF File!CurPath, File!TypeOK
<1>3. failed' = failed \cup {p}
  BY <1>1 DEF File!FailWrite
<1>4. PICK n \in 0..Len(given[p]) : disk' = [disk EXCEPT ![p] = SubSeq(given[p], 1, n)]
  BY <1>1 DEF File!FailWrite
<1>5. SubSeq(given[p], 1, n) \in Seq(Nat) /\ File!BeginningOf(SubSeq(given[p], 1, n), given[p])
  BY <1>2, BeginningIs
<1>6. PICK x \in Seq(Nat) : x = SubSeq(given[p], 1, n)
  BY <1>5
<1>7. disk' = [disk EXCEPT ![p] = x]
  BY <1>4, <1>6
<1>8. disk' \in [File!Paths -> Seq(Nat)] /\ disk'[p] = x
      /\ \A q \in File!Paths : q # p => disk'[q] = disk[q]
  BY <1>2, <1>7
<1> QED BY <1>2, <1>3, <1>5, <1>6, <1>8 DEF Files1

(* The current file of a worker that is writing has not been named.         *)
LEMMA CurrentIsOpen ==
    ASSUME FileInv, NEW k \in Keys, wpc[k] # "done"
    PROVE  rotateIdx[k] \in 0..MaxRotations /\ <<k, rotateIdx[k]>> \notin File!Handed
<1>1. rotateIdx[k] \in 0..MaxRotations
  BY DEF FileInv, File!TypeOK
<1> QED BY <1>1 DEF FileInv, Naming

Final == \A p \in File!Handed : disk'[p] = disk[p]

LEMMA OpenFinal ==
    ASSUME FileInv, NEW k \in Keys, wpc[k] # "done", NEW lines, Files1(k, lines)
    PROVE  Final
<1>1. File!Handed \subseteq File!Paths
  BY HandedIs DEF FileInv, File!TypeOK
<1>2. <<k, rotateIdx[k]>> \notin File!Handed
  BY CurrentIsOpen
<1> QED BY <1>1, <1>2 DEF Final, Files1

(* A tick, and the end of the lines: the current file is closed.            *)
LEMMA CloseKeeps ==
    ASSUME FileInv, NEW k \in Keys, File!Tick(k) \/ File!EndOfLines(k)
    PROVE  FileInv' /\ Final
<1> USE DEF FileInv
<1>1. /\ wpc[k] = "select"
      /\ UNCHANGED <<stream, rpc, taken, totaln, runErr, in, inClosed, rotateIdx, writtenOnce,
                     given, handed, uploader, died>>
  BY DEF File!Tick, File!EndOfLines, File!runvars, File!chvars
<1>2. PICK p : p = <<k, rotateIdx[k]>> /\ p = File!CurPath(k)
  BY DEF File!CurPath
<1>3. /\ wpc \in [Keys -> {"none", "select", "upch", "open", "last", "done"}]
      /\ p \in File!Paths /\ given[p] \in Seq(Nat) /\ disk \in [File!Paths -> Seq(Nat)]
      /\ rotateIdx[k] \in 0..MaxRotations /\ failed \subseteq File!Paths
      /\ File!BeginningOf(disk[p], given[p])
      /\ writtenOnce[k] <=> given[p] # <<>>
      /\ p \notin File!Handed
  <2>1. rotateIdx[k] \in 0..MaxRotations
    BY DEF File!TypeOK
  <2> QED BY <1>1, <1>2, <2>1, PathIs, CurrentIsOpen DEF File!TypeOK, Kept, Worker
<1>4. \/ /\ File!CloseFile(k, given[p], "upch") /\ rotateIdx[k] < MaxRotations
         /\ exist' = exist /\ (DiscardEmptyFiles => writtenOnce[k])
      \/ /\ File!CloseFile(k, given[p], "last") /\ in[k] = <<>> /\ inClosed[k]
         /\ exist' = exist /\ (DiscardEmptyFiles => writtenOnce[k])
      \/ /\ File!CloseFile(k, given[p], "done") /\ in[k] = <<>> /\ inClosed[k]
         /\ exist' = exist \ {p} /\ ~writtenOnce[k] /\ DiscardEmptyFiles
      \/ /\ failed' = failed \cup {p} /\ disk' = disk /\ wpc' = [wpc EXCEPT ![k] = "done"]
         /\ in[k] = <<>> /\ inClosed[k] /\ exist' = exist /\ ~writtenOnce[k]
         /\ DiscardEmptyFiles
  BY <1>2 DEF File!Tick, File!EndOfLines
<1>5. /\ Files1(k, given[p])
      /\ p \in failed' \/ disk'[p] = given[p]
      /\ \/ /\ wpc' = [wpc EXCEPT ![k] = "upch"] /\ rotateIdx[k] < MaxRotations
            /\ exist' = exist /\ (DiscardEmptyFiles => writtenOnce[k])
         \/ /\ wpc' = [wpc EXCEPT ![k] = "last"] /\ in[k] = <<>> /\ inClosed[k]
            /\ exist' = exist /\ (DiscardEmptyFiles => writtenOnce[k])
         \/ /\ wpc' = [wpc EXCEPT ![k] = "done"] /\ in[k] = <<>> /\ inClosed[k]
            /\ exist' = exist \ {p} /\ ~writtenOnce[k]
         \/ /\ wpc' = [wpc EXCEPT ![k] = "done"] /\ in[k] = <<>> /\ inClosed[k]
            /\ exist' = exist /\ ~writtenOnce[k] /\ DiscardEmptyFiles /\ p \in failed'
  <2>1. ASSUME failed' = failed \cup {p}, disk' = disk PROVE Files1(k, given[p]) /\ p \in failed'
    BY <1>2, <1>3, <2>1 DEF Files1
  <2>2. ASSUME NEW pc, File!CloseFile(k, given[p], pc)
        PROVE  /\ Files1(k, given[p])
               /\ p \in failed' \/ disk'[p] = given[p]
               /\ wpc' = [wpc EXCEPT ![k] = pc]
    <3>1. Files1(k, given[p]) /\ (p \in failed' \/ disk'[p] = given[p])
          /\ wpc' = [wpc EXCEPT ![k] = pc]
      BY <1>2, <1>3, <2>2, ClosedFiles
    <3> QED BY <3>1
  <2>3. ASSUME NEW pc, File!CloseFile(k, given[p], pc) PROVE Files1(k, given[p])
    BY <1>2, <1>3, <2>3, ClosedFiles
  <2> QED BY <1>4, <2>1, <2>2, <2>3
<1>6. /\ wpc' \in [Keys -> {"none", "select", "upch", "open", "last", "done"}]
      /\ wpc'[k] \in {"upch", "last", "done"}
      /\ \A q \in Keys : q # k => wpc'[q] = wpc[q]
  BY <1>3, <1>5
<1>7. Final
  BY <1>1, <1>5, OpenFinal
<1>8. File!TypeOK'
  <2>1. exist' \subseteq File!Paths
    BY <1>5 DEF File!TypeOK
  <2> QED BY <1>1, <1>5, <1>6, <2>1 DEF File!TypeOK, Files1
<1>9. FileRun'
  BY <1>1, <1>6 DEF FileRun
<1>10. NamedInOrder' /\ File!Handed' = File!Handed
  BY <1>1 DEF NamedInOrder, File!Handed
<1>11. /\ File!BeginningOf(disk'[p], given[p])
       /\ \A i \in 0..MaxRotations : i # rotateIdx[k] =>
            /\ disk'[<<k, i>>] = disk[<<k, i>>]
            /\ <<k, i>> \in failed' <=> <<k, i>> \in failed
  <2>1. \A i \in 0..MaxRotations : i # rotateIdx[k] => <<k, i>> # p /\ <<k, i>> \in File!Paths
    BY <1>2, PathIs
  <2> QED BY <1>2, <1>5, <2>1 DEF Files1
<1>12. Worker(k)'
  <2>1. wpc'[k] = "upch" => rotateIdx[k] < MaxRotations
    BY <1>3, <1>5
  <2>2. wpc'[k] \in {"last", "done"} => in[k] = <<>> /\ inClosed[k]
    BY <1>3, <1>5
  <2>3. \A i \in 0..MaxRotations : i > rotateIdx[k] => given[<<k, i>>] = <<>>
    BY DEF Worker
  <2> QED BY <1>1, <1>6, <2>1, <2>2, <2>3 DEF Worker
<1>13. Naming(k)'
  <2>1. wpc'[k] = "done" => given[p] = <<>> /\ (p \in exist' => DiscardEmptyFiles /\ p \in failed')
    BY <1>3, <1>5
  <2>2. wpc'[k] # "done" => exist' = exist
    BY <1>3, <1>5
  <2>3. exist' = exist \/ exist' = exist \ {p}
    BY <1>5
  <2>4. \A i \in 0..MaxRotations : i # rotateIdx[k] =>
          /\ <<k, i>> \in exist' <=> <<k, i>> \in exist
          /\ Left(<<k, i>>) => Left(<<k, i>>)'
    BY <1>1, <1>2, <1>11, <2>3 DEF Left
  <2>5. wpc'[k] = "done" /\ p \in exist' => Left(p)'
    BY <1>1, <2>1 DEF Left
  <2>6. p \in exist
    BY <1>1, <1>2, <1>3 DEF Naming
  <2>7. ASSUME NEW i \in 0..MaxRotations
        PROVE  /\ <<k, i>> \in exist' => \/ <<k, i>> \in File!Handed
                                         \/ i = rotateIdx[k] /\ wpc'[k] \in {"upch", "last"}
                                         \/ Left(<<k, i>>)'
               /\ <<k, i>> \in File!Handed => <<k, i>> \in exist'
               /\ i = rotateIdx[k] /\ wpc'[k] \in {"upch", "last"} => <<k, i>> \in exist'
    <3>1. CASE i = rotateIdx[k]
      BY <1>2, <1>3, <1>6, <2>2, <2>5, <2>6, <3>1
    <3>2. CASE i # rotateIdx[k]
      BY <2>4, <3>2 DEF Naming
    <3> QED BY <3>1, <3>2
  <2>8. \A i \in 0..MaxRotations : /\ <<k, i>> \in File!Handed => i < rotateIdx[k]
                                   /\ i < rotateIdx[k] => <<k, i>> \in File!Handed
    BY <1>1 DEF Naming
  <2> QED BY <1>1, <1>2, <1>6, <1>10, <2>1, <2>7, <2>8 DEF Naming
<1>14. NoneEmpty(k)'
  <2>1. DiscardEmptyFiles /\ wpc'[k] \in {"upch", "last"} => given[p] # <<>>
    BY <1>3, <1>5
  <2> QED BY <1>1, <1>2, <1>10, <2>1 DEF NoneEmpty
<1>15. Kept(k)'
  <2>1. Complete(p)'
    BY <1>1, <1>5 DEF Complete
  <2>2. \A i \in 0..MaxRotations : i # rotateIdx[k] =>
          /\ File!BeginningOf(disk'[<<k, i>>], given'[<<k, i>>])
          /\ <<k, i>> \in File!Handed => Complete(<<k, i>>)'
    BY <1>1, <1>11 DEF Kept, Complete
  <2> QED BY <1>1, <1>2, <1>3, <1>10, <1>11, <2>1, <2>2 DEF Kept
<1>16. \A q \in Keys : LinesOf(q)'
  BY <1>1 DEF LinesOf
<1>17. ASSUME NEW q \in Keys, q # k PROVE Worker(q)' /\ Naming(q)' /\ NoneEmpty(q)' /\ Kept(q)'
  <2>1. rotateIdx[q] \in 0..MaxRotations
    BY DEF File!TypeOK
  <2>2. \A i \in 0..MaxRotations : <<q, i>> # p /\ <<q, i>> \in File!Paths
    BY <1>2, <1>17, PathIs
  <2>3. \A i \in 0..MaxRotations : <<q, i>> \in exist' <=> <<q, i>> \in exist
    BY <1>5, <2>2
  <2>4. Same(q)
    BY <1>1, <1>2, <1>5, <1>6, <1>10, <1>17, <2>2, <2>3 DEF Same, Files1
  <2> QED BY <2>1, <2>4, Untouched
<1> QED BY <1>7, <1>8, <1>9, <1>10, <1>12, <1>13, <1>14, <1>15, <1>16, <1>17

(* A line is given to the file, which may fail, and the file may then be   *)
(* closed.                                                                  *)
LEMMA WriteLineKeeps ==
    ASSUME FileInv, NEW k \in Keys, File!WriteLine(k)
    PROVE  FileInv' /\ Final
<1> USE DEF FileInv
<1>1. /\ wpc[k] = "select" /\ in[k] # <<>> /\ in' = [in EXCEPT ![k] = <<>>]
      /\ writtenOnce' = [writtenOnce EXCEPT ![k] = TRUE]
      /\ UNCHANGED <<stream, rpc, taken, totaln, runErr, inClosed, rotateIdx, exist, handed,
                     uploader, died>>
  BY DEF File!WriteLine, File!runvars
<1>2. PICK p : p = <<k, rotateIdx[k]>> /\ p = File!CurPath(k)
  BY DEF File!CurPath
<1>3. /\ wpc \in [Keys -> {"none", "select", "upch", "open", "last", "done"}]
      /\ in \in [Keys -> Seq(Nat)] /\ in[k] \in Seq(Nat) /\ Len(in[k]) <= 1
      /\ writtenOnce \in [Keys -> BOOLEAN]
      /\ rotateIdx[k] \in 0..MaxRotations /\ disk \in [File!Paths -> Seq(Nat)]
      /\ given \in [File!Paths -> Seq(Nat)] /\ given[p] \in Seq(Nat) /\ p \in File!Paths
      /\ failed \subseteq File!Paths /\ <<>> \in Seq(Nat)
  <2>1. rotateIdx[k] \in 0..MaxRotations
    BY DEF File!TypeOK
  <2> QED BY <1>2, <2>1, PathIs, EmptySeq DEF File!TypeOK
<1>4. PICK r \in Nat : in[k] = <<r>>
  <2>1. Len(in[k]) = 1 /\ in[k][1] \in Nat
    <3>1. Len(in[k]) \in Nat \ {0}
      BY <1>1, <1>3, EmptySeq
    <3>2. Len(in[k]) = 1 /\ 1 \in 1..Len(in[k])
      <4>1. PICK l : l = Len(in[k])
        OBVIOUS
      <4>2. l \in Nat \ {0} /\ l <= 1
        BY <1>3, <3>1, <4>1
      <4>3. l = 1
        BY <4>2
      <4> QED BY <4>1, <4>3
    <3> QED BY <1>3, <3>2, ElementOfSeq
  <2>2. <<in[k][1]>> \in Seq(Nat) /\ Len(<<in[k][1]>>) = 1
    BY <2>1
  <2>3. in[k] = <<in[k][1]>>
    BY <1>3, <2>1, <2>2, SeqEqual
  <2> QED BY <2>1, <2>3
<1>5. PICK lines : lines = given[p] \o <<r>>
  OBVIOUS
<1>6. lines \in Seq(Nat) /\ lines # <<>> /\ <<r>> \in Seq(Nat)
  <2>1. <<r>> \in Seq(Nat) /\ <<r>> # <<>>
    OBVIOUS
  <2> QED BY <1>3, <1>5, <2>1, ConcatProperties, ConcatEqualIffEmpty
<1>7. /\ given' = [given EXCEPT ![p] = lines] /\ given'[p] = lines
      /\ given' \in [File!Paths -> Seq(Nat)]
      /\ \A q \in File!Paths : q # p => given'[q] = given[q]
  <2>1. given' = [given EXCEPT ![p] = lines]
    BY <1>2, <1>4, <1>5 DEF File!WriteLine
  <2> QED BY <1>3, <1>6, <2>1
<1>8. File!BeginningOf(disk[p], given[p]) /\ File!BeginningOf(disk[p], lines)
  <2>1. File!BeginningOf(disk[p], given[p])
    BY <1>2, <1>3 DEF Kept
  <2> QED BY <1>3, <1>5, <1>6, <2>1, BeginningGrows
<1>9. /\ Files1(k, lines)
      /\ \/ wpc' = wpc
         \/ /\ wpc' = [wpc EXCEPT ![k] = "upch"] /\ rotateIdx[k] < MaxRotations
            /\ p \in failed' \/ disk'[p] = lines
  <2>1. ASSUME UNCHANGED <<failed, disk, wpc>> PROVE Files1(k, lines) /\ wpc' = wpc
    BY <1>2, <1>3, <1>8, <2>1 DEF Files1
  <2>2. ASSUME File!FailWrite(File!CurPath(k)), UNCHANGED wpc
        PROVE  Files1(k, lines) /\ wpc' = wpc
    <3>1. Files1(k, given[p])
      BY <1>2, <2>2, FailedFiles
    <3>2. File!BeginningOf(disk'[p], lines)
      <4>1. disk'[p] \in Seq(Nat) /\ File!BeginningOf(disk'[p], given[p])
        BY <1>2, <1>3, <3>1 DEF Files1
      <4> QED BY <1>3, <1>5, <1>6, <4>1, BeginningGrows
    <3> QED BY <1>2, <2>2, <3>1, <3>2 DEF Files1
  <2>3. ASSUME File!CloseFile(k, lines, "upch")
        PROVE  /\ Files1(k, lines)
               /\ wpc' = [wpc EXCEPT ![k] = "upch"]
               /\ p \in failed' \/ disk'[p] = lines
    BY <1>2, <1>6, <1>8, <2>3, ClosedFiles
  <2>4. \/ UNCHANGED <<failed, disk, wpc>>
        \/ File!FailWrite(File!CurPath(k)) /\ UNCHANGED wpc
        \/ rotateIdx[k] < MaxRotations /\ File!CloseFile(k, lines, "upch")
    BY <1>2, <1>7 DEF File!WriteLine
  <2> QED BY <2>1, <2>2, <2>3, <2>4
<1>10. /\ in' \in [Keys -> Seq(Nat)] /\ in'[k] = <<>> /\ \A q \in Keys : Len(in'[q]) <= 1
       /\ writtenOnce' \in [Keys -> BOOLEAN] /\ writtenOnce'[k] = TRUE
       /\ \A q \in Keys : q # k => in'[q] = in[q] /\ writtenOnce'[q] = writtenOnce[q]
  <2>1. Len(<<>>) = 0
    BY EmptySeq
  <2>2. in'[k] = <<>> /\ \A q \in Keys : q # k => in'[q] = in[q]
    BY <1>1, <1>3
  <2> QED BY <1>1, <1>3, <2>1, <2>2 DEF File!TypeOK
<1>11. /\ wpc' \in [Keys -> {"none", "select", "upch", "open", "last", "done"}]
       /\ wpc'[k] \in {"select", "upch"} /\ \A q \in Keys : q # k => wpc'[q] = wpc[q]
       /\ wpc'[k] = "upch" => /\ rotateIdx[k] < MaxRotations
                              /\ p \in failed' \/ disk'[p] = lines
  BY <1>1, <1>3, <1>9
<1>12. Final
  BY <1>1, <1>9, OpenFinal
<1>13. File!TypeOK'
  BY <1>1, <1>7, <1>9, <1>10, <1>11 DEF File!TypeOK, Files1
<1>14. FileRun'
  BY <1>1, <1>11 DEF FileRun
<1>15. NamedInOrder' /\ File!Handed' = File!Handed
  BY <1>1 DEF NamedInOrder, File!Handed
<1>16. \A i \in 0..MaxRotations : i # rotateIdx[k] =>
         /\ <<k, i>> \in File!Paths /\ <<k, i>> # p
         /\ disk'[<<k, i>>] = disk[<<k, i>>] /\ given'[<<k, i>>] = given[<<k, i>>]
         /\ <<k, i>> \in failed' <=> <<k, i>> \in failed
  <2>1. \A i \in 0..MaxRotations : i # rotateIdx[k] => <<k, i>> # p /\ <<k, i>> \in File!Paths
    BY <1>2, PathIs
  <2> QED BY <1>2, <1>7, <1>9, <2>1 DEF Files1
<1>17. p \notin File!Handed
  BY <1>1, <1>2, CurrentIsOpen
<1>18. Worker(k)'
  <2>1. \A i \in 0..MaxRotations : i > rotateIdx[k] => i # rotateIdx[k] /\ given[<<k, i>>] = <<>>
    <3>1. \A i \in 0..MaxRotations : i > rotateIdx[k] => given[<<k, i>>] = <<>>
      BY DEF Worker
    <3>2. \A i \in 0..MaxRotations : i > rotateIdx[k] => i # rotateIdx[k]
      BY <1>3
    <3> QED BY <3>1, <3>2
  <2>2. \A i \in 0..MaxRotations : i > rotateIdx[k] => given'[<<k, i>>] = <<>>
    BY <1>16, <2>1
  <2> QED BY <1>1, <1>2, <1>6, <1>7, <1>10, <1>11, <2>2 DEF Worker
<1>19. Naming(k)'
  <2>1. \A i \in 0..MaxRotations : i # rotateIdx[k] => (Left(<<k, i>>) => Left(<<k, i>>)')
    BY <1>16 DEF Left
  <2> QED BY <1>1, <1>2, <1>3, <1>11, <1>15, <1>17, <2>1 DEF Naming
<1>20. NoneEmpty(k)'
  <2>1. \A i \in 0..MaxRotations : <<k, i>> \in File!Handed => given'[<<k, i>>] = given[<<k, i>>]
    BY <1>2, <1>16, <1>17
  <2> QED BY <1>1, <1>2, <1>6, <1>7, <1>15, <2>1 DEF NoneEmpty
<1>21. Kept(k)'
  <2>1. File!BeginningOf(disk'[p], given'[p])
    BY <1>2, <1>7, <1>9 DEF Files1
  <2>2. wpc'[k] = "upch" => Complete(p)'
    BY <1>7, <1>11 DEF Complete
  <2>3. \A i \in 0..MaxRotations : i # rotateIdx[k] =>
          /\ File!BeginningOf(disk'[<<k, i>>], given'[<<k, i>>])
          /\ <<k, i>> \in File!Handed => Complete(<<k, i>>)'
    BY <1>16 DEF Kept, Complete
  <2> QED BY <1>1, <1>2, <1>11, <1>15, <1>17, <2>1, <2>2, <2>3 DEF Kept
<1>22. LinesOf(k)'
  <2>1. Content(stream, given, <<r>>, totaln, k)
    BY <1>4 DEF LinesOf
  <2>2. \A i \in 0..MaxRotations : i > rotateIdx[k] => given[<<k, i>>] = <<>>
    BY DEF Worker
  <2>3. Content(stream, [given EXCEPT ![<<k, rotateIdx[k]>>] = @ \o <<r>>], <<>>, totaln, k)
    BY <1>3, <1>6, <2>1, <2>2, ContentWritten, LinesOfOne
  <2>4. given' = [given EXCEPT ![<<k, rotateIdx[k]>>] = @ \o <<r>>]
    BY <1>2, <1>5, <1>7
  <2> QED BY <1>1, <1>10, <2>3, <2>4 DEF LinesOf
<1>23. ASSUME NEW q \in Keys, q # k
       PROVE  Worker(q)' /\ Naming(q)' /\ NoneEmpty(q)' /\ Kept(q)' /\ LinesOf(q)'
  <2>1. rotateIdx[q] \in 0..MaxRotations
    BY DEF File!TypeOK
  <2>2. \A i \in 0..MaxRotations : <<q, i>> # p /\ <<q, i>> \in File!Paths
    BY <1>2, <1>23, PathIs
  <2>3. Same(q)
    BY <1>1, <1>2, <1>7, <1>9, <1>10, <1>11, <1>15, <1>23, <2>2 DEF Same, Files1
  <2>4. \A i \in 0..MaxRotations : given'[<<q, i>>] = given[<<q, i>>]
    BY <1>7, <2>2
  <2>5. LinesOf(q)'
    BY <1>1, <1>10, <1>23, <2>4, ContentSame DEF LinesOf
  <2> QED BY <2>1, <2>3, <2>5, Untouched
<1> QED BY <1>12, <1>13, <1>14, <1>15, <1>18, <1>19, <1>20, <1>21, <1>22, <1>23

(* The closed file is named; the next one, if any, is empty.                *)
LEMMA SendKeeps ==
    ASSUME FileInv, NEW k \in Keys, File!SendPath(k) \/ File!SendLast(k)
    PROVE  FileInv' /\ disk' = disk
<1> USE DEF FileInv
<1>1. /\ wpc[k] \in {"upch", "last"} /\ handed' = Append(handed, <<k, rotateIdx[k]>>)
      /\ uploader' = "busy"
      /\ UNCHANGED <<stream, rpc, taken, totaln, runErr, in, inClosed, writtenOnce, given, failed,
                     exist, disk, died>>
  BY DEF File!SendPath, File!SendLast, File!runvars, File!chvars, File!filevars, File!CurPath
<1>2. \/ /\ wpc[k] = "upch" /\ wpc' = [wpc EXCEPT ![k] = "open"]
         /\ rotateIdx' = [rotateIdx EXCEPT ![k] = @ + 1]
      \/ /\ wpc[k] = "last" /\ wpc' = [wpc EXCEPT ![k] = "done"]
         /\ rotateIdx' = rotateIdx
  BY DEF File!SendPath, File!SendLast, File!filevars
<1>3. PICK n, p : n = rotateIdx[k] /\ p = <<k, n>>
  OBVIOUS
<1>4. /\ n \in 0..MaxRotations /\ p \in File!Paths /\ p \notin File!Handed
      /\ wpc[k] = "upch" => n < MaxRotations
  BY <1>1, <1>3, CurrentIsOpen, PathIs DEF Worker
<1>5. /\ wpc \in [Keys -> {"none", "select", "upch", "open", "last", "done"}]
      /\ rotateIdx \in [Keys -> 0..MaxRotations] /\ handed \in Seq(File!Paths)
  BY DEF File!TypeOK
<1>6. /\ wpc' \in [Keys -> {"none", "select", "upch", "open", "last", "done"}]
      /\ rotateIdx' \in [Keys -> 0..MaxRotations]
      /\ \A q \in Keys : q # k => wpc'[q] = wpc[q] /\ rotateIdx'[q] = rotateIdx[q]
      /\ \/ wpc[k] = "upch" /\ wpc'[k] = "open" /\ rotateIdx'[k] = n + 1
         \/ wpc[k] = "last" /\ wpc'[k] = "done" /\ rotateIdx'[k] = n
  <2>1. CASE wpc[k] = "upch"
    <3>1. n + 1 \in 0..MaxRotations
      BY <1>4, <2>1, FileConstants
    <3> QED BY <1>2, <1>3, <1>5, <2>1, <3>1
  <2>2. CASE wpc[k] = "last"
    BY <1>2, <1>3, <1>5, <2>2
  <2> QED BY <1>1, <2>1, <2>2
<1>7. /\ handed' \in Seq(File!Paths) /\ Len(handed') = Len(handed) + 1 /\ Len(handed) \in Nat
      /\ handed'[Len(handed) + 1] = p /\ \A i \in 1..Len(handed) : handed'[i] = handed[i]
  BY <1>1, <1>3, <1>4, <1>5, AppendProperties, LenProperties
<1>8. \A i \in 1..Len(handed') : i \in 1..Len(handed) \/ i = Len(handed) + 1
  BY <1>7
<1>9. File!Handed' = File!Handed \cup {p}
  <2>1. File!Handed = {handed[i] : i \in 1..Len(handed)}
    BY <1>5, HandedIs
  <2>2. DOMAIN handed' = 1..Len(handed')
    BY <1>7, LenProperties
  <2>3. File!Handed' = {handed'[i] : i \in 1..Len(handed')}
    BY <2>2 DEF File!Handed
  <2>4. \A i \in 1..Len(handed) : i \in 1..Len(handed')
    BY <1>7
  <2>5. Len(handed) + 1 \in 1..Len(handed')
    BY <1>7
  <2>6. \A i \in 1..Len(handed') : handed'[i] \in File!Handed \cup {p}
    BY <1>7, <1>8, <2>1
  <2>7. \A i \in 1..Len(handed) : handed[i] \in File!Handed'
    BY <1>7, <2>3, <2>4
  <2>8. p \in File!Handed'
    BY <1>7, <2>3, <2>5
  <2> QED BY <2>1, <2>3, <2>6, <2>7, <2>8
<1>10. NamedInOrder'
  <2> SUFFICES ASSUME NEW i \in 1..Len(handed'), NEW j \in 1..Len(handed'), i < j,
                      handed'[i][1] = handed'[j][1]
               PROVE  handed'[i][2] < handed'[j][2]
    BY DEF NamedInOrder
  <2>1. i \in 1..Len(handed)
    BY <1>7, <1>8
  <2>2. CASE j \in 1..Len(handed)
    BY <1>7, <2>1, <2>2 DEF NamedInOrder
  <2>3. CASE j = Len(handed) + 1
    <3>1. handed'[i] = handed[i] /\ handed[i] \in File!Handed /\ handed[i] \in File!Paths
      BY <1>5, <1>7, <2>1, HandedIs, ElementOfSeq
    <3>2. handed'[j] = <<k, n>> /\ handed[i][1] = k
      BY <1>3, <1>7, <2>3, <3>1
    <3>3. PICK m \in 0..MaxRotations : handed[i] = <<k, m>>
      BY <3>1, <3>2, PathIs
    <3>4. m < n
      BY <1>1, <1>3, <3>1, <3>3 DEF Naming
    <3> QED BY <3>1, <3>2, <3>3, <3>4
  <2> QED BY <1>8, <2>2, <2>3
<1>11. File!TypeOK'
  BY <1>1, <1>6, <1>7 DEF File!TypeOK
<1>12. FileRun'
  BY <1>1, <1>6 DEF FileRun
<1>13. ASSUME NEW q \in Keys PROVE LinesOf(q)'
  BY <1>1 DEF LinesOf
<1>14. Worker(k)'
  <2>1. \A i \in 0..MaxRotations : i > n => given[<<k, i>>] = <<>>
    BY <1>3 DEF Worker
  <2>2. wpc'[k] = "done" => in[k] = <<>> /\ inClosed[k]
    BY <1>6 DEF Worker
  <2>4. wpc'[k] \in {"open", "done"}
        /\ \A i \in 0..MaxRotations : i > rotateIdx'[k] \/ (i = rotateIdx'[k] /\ wpc'[k] = "open") => i > n
    BY <1>4, <1>6
  <2> QED BY <1>1, <2>1, <2>2, <2>4 DEF Worker
<1>15. \A i \in 0..MaxRotations : <<k, i>> = p <=> i = n
  BY <1>3
<1>16. Naming(k)'
  <2>1. \A i \in 0..MaxRotations :
          /\ <<k, i>> \in File!Handed <=> i < n
          /\ <<k, i>> \in File!Handed \/ i = n => <<k, i>> \in exist
          /\ <<k, i>> \in exist => <<k, i>> \in File!Handed \/ i = n \/ Left(<<k, i>>)
          /\ Left(<<k, i>>) => Left(<<k, i>>)'
    BY <1>1, <1>3 DEF Naming, Left
  <2>2. \A i \in 0..MaxRotations : <<k, i>> \in File!Handed' <=> i < n \/ i = n
    BY <1>9, <1>15, <2>1
  <2>3. \A i \in 0..MaxRotations :
          /\ i < n + 1 <=> i < n \/ i = n
          /\ i = n => ~(i < n)
    BY <1>4
  <2>4. wpc'[k] = "done" => rotateIdx'[k] = n /\ <<k, rotateIdx'[k]>> \in File!Handed'
    BY <1>3, <1>6, <1>9
  <2>5. exist' = exist
    BY <1>1
  <2>6. CASE wpc'[k] = "open" /\ rotateIdx'[k] = n + 1
    BY <2>1, <2>2, <2>3, <2>5, <2>6 DEF Naming
  <2>7. CASE wpc'[k] = "done" /\ rotateIdx'[k] = n
    BY <2>1, <2>2, <2>3, <2>4, <2>5, <2>7 DEF Naming
  <2> QED BY <1>6, <2>6, <2>7
<1>17. NoneEmpty(k)'
  <2>1. DiscardEmptyFiles => given[p] # <<>>
    BY <1>1, <1>3 DEF NoneEmpty
  <2>2. wpc'[k] \in {"open", "done"}
    BY <1>6
  <2> QED BY <1>1, <1>3, <1>9, <2>1, <2>2 DEF NoneEmpty
<1>18. Kept(k)'
  <2>1. Complete(p)'
    BY <1>1, <1>3 DEF Kept, Complete
  <2>2. wpc'[k] \in {"open", "done"}
    BY <1>6
  <2>3. \A i \in 0..MaxRotations : <<k, i>> \in File!Handed => Complete(<<k, i>>)'
    BY <1>1 DEF Kept, Complete
  <2> QED BY <1>1, <1>3, <1>9, <2>1, <2>2, <2>3 DEF Kept
<1>19. ASSUME NEW q \in Keys, q # k PROVE Worker(q)' /\ Naming(q)' /\ NoneEmpty(q)' /\ Kept(q)'
  <2>1. \A i \in 0..MaxRotations : <<q, i>> \in File!Handed' <=> <<q, i>> \in File!Handed
    BY <1>3, <1>9, <1>19
  <2>2. Same(q)
    BY <1>1, <1>6, <1>19, <2>1 DEF Same
  <2>3. rotateIdx[q] \in 0..MaxRotations
    BY <1>5
  <2> QED BY <2>2, <2>3, Untouched
<1> QED BY <1>1, <1>10, <1>11, <1>12, <1>13, <1>14, <1>16, <1>17, <1>18, <1>19

LEMMA OpenNextKeeps ==
    ASSUME FileInv, NEW k \in Keys, File!OpenNext(k)
    PROVE  FileInv' /\ disk' = disk
<1> USE DEF FileInv
<1>1. /\ wpc[k] = "open" /\ disk' = disk
      /\ UNCHANGED <<stream, rpc, taken, totaln, runErr, in, inClosed, rotateIdx, given, failed,
                     handed, uploader>>
      /\ \/ /\ exist' = exist \cup {<<k, rotateIdx[k]>>} /\ died' = died
            /\ writtenOnce' = [writtenOnce EXCEPT ![k] = FALSE]
            /\ wpc' = [wpc EXCEPT ![k] = "select"]
         \/ died' = TRUE /\ UNCHANGED <<wpc, writtenOnce, exist>>
  BY CreateLeavesDisk DEF File!OpenNext, File!runvars, File!chvars
<1>2. /\ wpc \in [Keys -> {"none", "select", "upch", "open", "last", "done"}]
      /\ writtenOnce \in [Keys -> BOOLEAN] /\ rotateIdx \in [Keys -> 0..MaxRotations]
  BY DEF File!TypeOK
<1>3. /\ wpc' \in [Keys -> {"none", "select", "upch", "open", "last", "done"}]
      /\ writtenOnce' \in [Keys -> BOOLEAN] /\ wpc'[k] \in {"open", "select"}
      /\ \A q \in Keys : q # k => wpc'[q] = wpc[q] /\ writtenOnce'[q] = writtenOnce[q]
  BY <1>1, <1>2
<1>4. File!TypeOK'
  <2>1. exist' \subseteq File!Paths
    BY <1>1, <1>2, PathIs DEF File!TypeOK
  <2> QED BY <1>1, <1>3, <2>1 DEF File!TypeOK
<1>5. FileRun'
  BY <1>1, <1>3 DEF FileRun
<1>6. NamedInOrder' /\ File!Handed' = File!Handed
  BY <1>1 DEF NamedInOrder, File!Handed
<1>7. ASSUME NEW q \in Keys
      PROVE  (Worker(q) /\ Naming(q) /\ NoneEmpty(q) /\ Kept(q) /\ LinesOf(q))'
  <2>1. LinesOf(q)'
    BY <1>1 DEF LinesOf
  <2>2. CASE q = k /\ wpc' # wpc
    <3>1. /\ wpc'[k] = "select" /\ exist' = exist \cup {<<k, rotateIdx[k]>>}
          /\ writtenOnce'[k] = FALSE
      BY <1>1, <1>2, <2>2
    <3>2. given[<<k, rotateIdx[k]>>] = <<>>
      BY <1>1, <1>2 DEF Worker
    <3>3. Worker(k)'
      BY <1>1, <3>1, <3>2 DEF Worker
    <3>4. Naming(k)'
      BY <1>1, <1>6, <3>1 DEF Naming, Left
    <3>5. NoneEmpty(k)' /\ Kept(k)'
      BY <1>1, <1>6, <3>1 DEF NoneEmpty, Kept, Complete
    <3> QED BY <2>1, <2>2, <3>3, <3>4, <3>5
  <2>3. CASE q # k \/ wpc' = wpc
    <3>1. /\ wpc'[q] = wpc[q] /\ writtenOnce'[q] = writtenOnce[q]
          /\ \A i \in 0..MaxRotations : <<q, i>> \in exist' <=> <<q, i>> \in exist
      BY <1>1, <1>2, <1>3, <2>3
    <3>2. Same(q)
      BY <1>1, <1>6, <3>1 DEF Same
    <3> QED BY <1>2, <2>1, <3>2, Untouched
  <2> QED BY <2>1, <2>2, <2>3
<1> QED BY <1>1, <1>4, <1>5, <1>6, <1>7

(* The inductive invariant of the FileWriter; what has been named stays as *)
(* it is.                                                                  *)
LEMMA FileKeeps == ASSUME FileInv, [File!Next]_filevars PROVE FileInv' /\ Final
<1>1. disk' = disk => Final
  BY DEF Final
<1>2. CASE UNCHANGED filevars
  <2>1. UNCHANGED <<stream, rpc, taken, totaln, runErr, in, inClosed, wpc, rotateIdx,
                    writtenOnce, given, failed, exist, disk, handed, uploader, died>>
    BY <1>2 DEF filevars
  <2>2. File!Handed' = File!Handed
    BY <2>1 DEF File!Handed
  <2>3. File!TypeOK' /\ FileRun' /\ NamedInOrder'
    BY <2>1 DEF FileInv, File!TypeOK, FileRun, NamedInOrder
  <2>4. ASSUME NEW k \in Keys
        PROVE  (Worker(k) /\ Naming(k) /\ NoneEmpty(k) /\ Kept(k) /\ LinesOf(k))'
    <3>1. LinesOf(k)' /\ rotateIdx[k] \in 0..MaxRotations
      BY <2>1 DEF FileInv, LinesOf, File!TypeOK
    <3>2. Same(k)
      BY <2>1, <2>2 DEF Same
    <3> QED BY <3>1, <3>2, Untouched DEF FileInv
  <2> QED BY <1>1, <2>1, <2>3, <2>4 DEF FileInv
<1>3. CASE File!Terminated
  <2>1. UNCHANGED filevars
    BY <1>3 DEF File!Terminated, File!vars, File!runvars, File!chvars, File!filevars, filevars
  <2> QED BY <1>2, <2>1
<1>4. CASE File!Step
  BY <1>1, <1>4, ReceiveKeeps, WriteToWorkerKeeps, RunEndKeeps, WriteLineKeeps, CloseKeeps,
     SendKeeps, OpenNextKeeps
  DEF File!Step, File!RunStep, File!Drain
<1> QED BY <1>2, <1>3, <1>4 DEF File!Next

LEMMA FileInvariance == Spec => [](part = "filewriter" => FileInv)
<1>1. Init => (part = "filewriter" => FileInv)
  BY FileInitial DEF Init
<1>2. (part = "filewriter" => FileInv) /\ [Next]_vars => (part = "filewriter" => FileInv)'
  <2> SUFFICES ASSUME part = "filewriter" => FileInv, [Next]_vars, part' = "filewriter"
               PROVE  FileInv'
    OBVIOUS
  <2>1. part = "filewriter" /\ [File!Next]_filevars
    BY DEF Next, Only, vars
  <2> QED BY <2>1, FileKeeps
<1> QED BY <1>1, <1>2, PTL DEF Spec

(* When Run of the FileWriter has returned, the files it has named were    *)
(* given the records of every key, each once and in order, and have them   *)
(* but for the end of a file with an error.                                 *)
LEMMA FileKeepsAll == ASSUME FileInv PROVE File!NothingLost
<1> USE DEF FileInv
<1>0. ASSUME NEW p \in File!Handed
      PROVE  File!BeginningOf(disk[p], given[p]) /\ (p \notin failed => disk[p] = given[p])
  <2>1. p \in File!Paths
    BY HandedIs DEF File!TypeOK
  <2>2. PICK k \in Keys, i \in 0..MaxRotations : p = <<k, i>>
    BY <2>1, PathIs
  <2>3. Kept(k)
    OBVIOUS
  <2> HIDE DEF FileInv
  <2>4. File!BeginningOf(disk[<<k, i>>], given[<<k, i>>]) /\ Complete(<<k, i>>)
    BY <2>2, <2>3 DEF Kept
  <2> QED BY <2>2, <2>4 DEF Complete
<1> SUFFICES ASSUME rpc = "returned", NEW k \in Keys
             PROVE  File!Written(k) = File!Accepted(k) /\ File!InOrder(k)
  BY <1>0 DEF File!NothingLost
<1>1. /\ wpc[k] \in {"none", "done"} /\ in[k] = <<>>
      /\ handed \in Seq(File!Paths) /\ DOMAIN handed = 1..Len(handed) /\ totaln \in Nat
      /\ rotateIdx[k] \in 0..MaxRotations
  <2>1. wpc[k] \in {"none", "done"}
    BY DEF FileRun
  <2>2. handed \in Seq(File!Paths) /\ totaln \in Nat /\ rotateIdx[k] \in 0..MaxRotations
    BY DEF File!TypeOK
  <2>3. in[k] = <<>>
    BY <2>1 DEF Worker
  <2> QED BY <2>1, <2>2, <2>3, LenProperties
<1>2. \A r : r \in 1..totaln /\ stream[r] = k
               <=> \E i \in 0..MaxRotations : r \in FileLines(given, k, i)
  BY <1>1, LinesOfEmpty DEF LinesOf, Content
<1>3. \A i \in 0..MaxRotations : FileLines(given, k, i) # {} => <<k, i>> \in File!Handed
  <2> SUFFICES ASSUME NEW i \in 0..MaxRotations, given[<<k, i>>] # <<>>
               PROVE  <<k, i>> \in File!Handed
    BY LinesOfEmpty DEF FileLines
  <2>1. i <= rotateIdx[k] /\ (i = rotateIdx[k] => wpc[k] = "done")
    <3>1. ~(i > rotateIdx[k]) /\ ~(i = rotateIdx[k] /\ wpc[k] \in {"none", "open"})
      BY DEF Worker
    <3>2. i \in Int /\ rotateIdx[k] \in Int
      BY <1>1
    <3> QED BY <1>1, <3>1, <3>2
  <2>2. CASE i < rotateIdx[k]
    BY <2>2 DEF Naming
  <2>3. CASE i = rotateIdx[k]
    BY <2>1, <2>3 DEF Naming
  <2> QED BY <1>1, <2>1, <2>2, <2>3
<1>4. \A i \in 1..Len(handed) : handed[i][1] = k =>
        \E m \in 0..MaxRotations : handed[i] = <<k, m>> /\ handed[i][2] = m
  BY <1>1, ElementOfSeq, PathIs
<1>5. File!Written(k) = File!Accepted(k)
  <2>1. ASSUME NEW r \in File!Written(k) PROVE r \in File!Accepted(k)
    <3>1. PICK i \in 1..Len(handed) : handed[i][1] = k /\ r \in File!Lines(given[handed[i]])
      BY <1>1, <2>1 DEF File!Written
    <3>2. PICK m \in 0..MaxRotations : handed[i] = <<k, m>>
      BY <1>4, <3>1
    <3>3. r \in FileLines(given, k, m)
      BY <3>1, <3>2 DEF FileLines
    <3> QED BY <1>2, <3>3 DEF File!Accepted
  <2>2. ASSUME NEW r \in File!Accepted(k) PROVE r \in File!Written(k)
    <3>1. PICK m \in 0..MaxRotations : r \in FileLines(given, k, m)
      BY <1>2, <2>2 DEF File!Accepted
    <3>2. <<k, m>> \in File!Handed
      BY <1>3, <3>1
    <3>3. PICK i \in 1..Len(handed) : handed[i] = <<k, m>>
      BY <1>1, <3>2 DEF File!Handed
    <3>4. r \in File!Lines(given[handed[i]]) /\ handed[i][1] = k
      BY <3>1, <3>3 DEF FileLines
    <3> QED BY <1>1, <3>4 DEF File!Written
  <2> QED BY <2>1, <2>2
<1>6. File!InOrder(k)
  <2> SUFFICES ASSUME NEW i \in 1..Len(handed), NEW j \in 1..Len(handed),
                      NEW a \in DOMAIN given[handed[i]], NEW b \in DOMAIN given[handed[j]],
                      handed[i][1] = k, handed[j][1] = k, i < j \/ (i = j /\ a < b)
               PROVE  given[handed[i]][a] < given[handed[j]][b]
    BY <1>1 DEF File!InOrder
  <2>1. PICK m \in 0..MaxRotations : handed[i] = <<k, m>> /\ handed[i][2] = m
    BY <1>4
  <2>2. PICK n \in 0..MaxRotations : handed[j] = <<k, n>> /\ handed[j][2] = n
    BY <1>4
  <2>3. CASE i = j /\ a < b
    BY <2>1, <2>3 DEF LinesOf, Content, Rising
  <2>4. CASE i < j
    <3>1. m < n
      BY <2>1, <2>2, <2>4 DEF NamedInOrder
    <3>2. Below(FileLines(given, k, m), FileLines(given, k, n))
      BY <3>1 DEF LinesOf, Content
    <3>3. /\ given[handed[i]][a] \in FileLines(given, k, m)
          /\ given[handed[j]][b] \in FileLines(given, k, n)
      BY <2>1, <2>2 DEF FileLines, File!Lines
    <3> QED BY <3>2, <3>3 DEF Below
  <2> QED BY <2>3, <2>4
<1> QED BY <1>5, <1>6

(* The FileWriter names every file once and in the end all of them, but an *)
(* empty one it was not able to remove; with DiscardEmptyFiles none of     *)
(* those it has named is empty, unless an error was logged for it          *)
(* (output/filewriter.go: rotate and the deferred function of the worker). *)
THEOREM FilesNamedOnce == Spec => []FilesAccountedFor
<1>1. (part = "filewriter" => FileInv) => FilesAccountedFor
  <2> SUFFICES ASSUME FileInv PROVE File!FilesAccountedFor
    BY DEF FilesAccountedFor
  <2> USE DEF FileInv
  <2>1. handed \in Seq(File!Paths) /\ DOMAIN handed = 1..Len(handed) /\ Len(handed) \in Nat
    BY LenProperties DEF File!TypeOK
  <2>2. ASSUME NEW i \in 1..Len(handed), NEW j \in 1..Len(handed), i # j
        PROVE  handed[i] # handed[j]
    <3>1. /\ handed[i] \in File!Paths /\ handed[j] \in File!Paths
          /\ handed[i][2] \in Nat /\ handed[j][2] \in Nat
      <4>1. handed[i] \in File!Paths /\ handed[j] \in File!Paths
        BY <2>1, ElementOfSeq
      <4> QED BY <4>1 DEF File!Paths
    <3>2. i < j \/ j < i
      BY <2>1, <2>2
    <3> QED BY <3>1, <3>2 DEF NamedInOrder
  <2>0. exist \subseteq File!Paths /\ File!Handed \subseteq File!Paths
    BY <2>1, HandedIs DEF File!TypeOK
  <2>3. rpc = "returned" => /\ File!Handed \subseteq exist
                            /\ \A p \in exist \ File!Handed : Left(p)
    <3> SUFFICES ASSUME rpc = "returned"
                 PROVE  /\ File!Handed \subseteq exist
                        /\ \A p \in exist \ File!Handed : Left(p)
      OBVIOUS
    <3>1. \A k \in Keys, i \in 0..MaxRotations :
            /\ <<k, i>> \in File!Handed => <<k, i>> \in exist
            /\ <<k, i>> \in exist => <<k, i>> \in File!Handed \/ Left(<<k, i>>)
      BY DEF FileRun, Naming
    <3> QED BY <2>0, <3>1, PathIs
  <2>4. DiscardEmptyFiles => \A p \in File!Handed : disk[p] # <<>> \/ p \in failed
    <3>1. DiscardEmptyFiles =>
            \A k \in Keys, i \in 0..MaxRotations : <<k, i>> \in File!Handed =>
               given[<<k, i>>] # <<>> /\ Complete(<<k, i>>)
      BY DEF NoneEmpty, Kept
    <3> QED BY <2>0, <3>1, PathIs DEF Complete
  <2> QED BY <2>1, <2>2, <2>3, <2>4 DEF File!FilesAccountedFor, Left
<1> QED BY <1>1, FileInvariance, PTL

(***************************************************************************)
(* What holds of the sum.                                                  *)
(***************************************************************************)
(* However rotations, flushes, uploads and failures interleave, nothing a  *)
(* component was given is lost: the FileWriter's records were given to the *)
(* files it has named, once and in order, and are there but for the end of *)
(* a file with an error; the uploader's files are in the staging directory *)
(* or the bucket; the records of DynamoDB in every region.                 *)
THEOREM EverythingKept == Spec => []NothingLost
<1>1. (part = "filewriter" => FileInv) /\ (part = "s3" => S3Inv)
      /\ (part = "dynamodb" => DynInv) => NothingLost
  BY RegionsHaveAll, FileKeepsAll DEF NothingLost, S3Inv
<1> QED BY <1>1, FileInvariance, S3Invariance, DynInvariance, PTL

(* What was handed on stays as it was: the FileWriter does not touch a     *)
(* file it has named, a region never replaces a record by an earlier one   *)
(* of its key, and no request holds a key twice.                           *)
THEOREM HandedOnIsFinal == Spec => NeverUndone
<1>1. (part = "filewriter" => FileInv) /\ [Next]_vars
        => [\A i \in DOMAIN handed : disk'[handed[i]] = disk[handed[i]]]_(File!vars)
  <2> SUFFICES ASSUME part = "filewriter" => FileInv, [Next]_vars, ~UNCHANGED File!vars
               PROVE  \A i \in DOMAIN handed : disk'[handed[i]] = disk[handed[i]]
    OBVIOUS
  <2>1. ~UNCHANGED filevars
    BY DEF filevars, File!vars, File!runvars, File!chvars, File!filevars
  <2>2. part = "filewriter" /\ [File!Next]_filevars
    BY <2>1 DEF Next, Only, vars
  <2>3. Final
    BY <2>2, FileKeeps
  <2> QED BY <2>3 DEF Final, File!Handed
<1>2. (part = "dynamodb" => DynInv) /\ [Next]_vars
        => [/\ \A i, j \in DOMAIN batch' : i # j => Key[batch'[i]] # Key[batch'[j]]
            /\ \A r \in Regions : \A k \in DOMAIN table[r] : table'[r][k] >= table[r][k]]_(Dynamo!dynvars)
  <2> SUFFICES ASSUME part = "dynamodb" => DynInv, [Next]_vars, ~UNCHANGED Dynamo!dynvars
               PROVE  /\ \A i, j \in DOMAIN batch' : i # j => Key[batch'[i]] # Key[batch'[j]]
                      /\ \A r \in Regions : \A k \in DOMAIN table[r] : table'[r][k] >= table[r][k]
    OBVIOUS
  <2>1. ~UNCHANGED dynvars
    BY DEF dynvars, Dynamo!dynvars
  <2>2. DynInv /\ Dynamo!DynNext
    BY <2>1 DEF Next, Only, vars
  <2>3. DynInv' /\ \A r \in Regions : \A k \in Dynamo!Elems(Key) : table'[r][k] >= table[r][k]
    BY <2>2, DynKeeps
  <2>4. \A r \in Regions : DOMAIN table[r] = Dynamo!Elems(Key)
    BY <2>2 DEF DynInv, DynTypes
  <2>5. \A i, j \in DOMAIN batch' : i # j => Key[batch'[i]] # Key[batch'[j]]
    <3>1. DOMAIN batch' = 1..Len(batch')
      BY <2>3, LenProperties DEF DynInv, DynTypes
    <3>2. CASE run' # "dead"
      BY <2>3, <3>1, <3>2 DEF DynInv, BatchOnce
    <3>3. CASE run' = "dead"
      <4>1. run # "dead" /\ batch' = batch
        BY <2>2, <3>3 DEF Dynamo!DynNext, Dynamo!DynRun, Dynamo!DynProc, Dynamo!Receive,
           Dynamo!Push, Dynamo!StartFlush, Dynamo!LastFlush, Dynamo!TimerFires,
           Dynamo!TimerFlush, Dynamo!EndFlush, Dynamo!BatchWrite, Dynamo!GiveUp, Dynamo!Fail
      <4> QED BY <2>2, <3>1, <4>1 DEF DynInv, BatchOnce
    <3> QED BY <3>2, <3>3
  <2> QED BY <2>3, <2>4, <2>5
<1> QED BY <1>1, <1>2, FileInvariance, DynInvariance, PTL
        DEF Spec, NeverUndone, File!HandedFilesAreFinal, Dynamo!NewestStays

(* Every variable stays in its range, in each of the components: among     *)
(* them the uploads within Concurrency, the batch within its size, the     *)
(* attempts within the retries and the lines within the capacity of a      *)
(* worker's channel.                                                       *)
THEOREM TypeCorrect == Spec => []TypeOK
<1>1. DynInv /\ BatchFits => Dynamo!DynTypeOK
  <2> SUFFICES ASSUME DynTypes, BatchFits PROVE Dynamo!DynTypeOK
    BY DEF DynInv
  <2>1. Dynamo!Elems(batch) \subseteq Dynamo!Records
    BY ElemsOfBatch DEF DynTypes
  <2> QED BY <2>1 DEF DynTypes, BatchFits, Dynamo!DynTypeOK
<1>2. SqlInv /\ SqlBounds => Sqlite!SqlTypeOK
  BY DEF SqlInv, SqlTypes, SqlBounds, Sqlite!SqlTypeOK
<1>3. (part = "filewriter" => FileInv) /\ (part = "s3" => S3Inv)
      /\ (part = "dynamodb" => DynInv /\ BatchFits)
      /\ (part = "sqlite" => SqlInv /\ SqlBounds) => TypeOK
  BY <1>1, <1>2 DEF TypeOK, FileInv, S3Inv
<1> QED BY <1>3, FileInvariance, S3Invariance, DynInvariance, BatchFitsAlways, SqlInvariance, PTL

=============================================================================
