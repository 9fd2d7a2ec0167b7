------------------------------- MODULE SQLite -------------------------------
(***************************************************************************)
(* The SQLite output (output/sqlite.go): the records are inserted in one   *)
(* transaction, which NewSQLite begins and Run commits; the path of the    *)
(* file is then sent on upch.  Any statement may fail, which rolls the     *)
(* transaction back, and the process may die at any moment, which loses it *)
(* too.  The output is run again on the file it has left.                  *)
(*                                                                         *)
(* A row is <<run, position of the record>>, or the name of the commands   *)
(* that have inserted it.                                                  *)
(***************************************************************************)
EXTENDS Integers, Sequences

CONSTANTS MaxRows,  \* bound: records of one run
          MaxRuns   \* bound

SQLiteAssumption == {MaxRows, MaxRuns} \subseteq Nat

VARIABLES sqlcfg,   \* Clear, Vacuum, PreRun and PostRun: do they insert a row?
          sql,      \* where the output is, and how many runs there have been
          db,       \* the rows of the file, and what it was when this run began
          tx,       \* the rows as the transaction sees them
          inserted, \* nEvents
          upch      \* the runs whose file was sent on upch

sqlvars == <<sqlcfg, sql, db, tx, inserted, upch>>

Flags == [clear : BOOLEAN, vacuum : BOOLEAN, prerun : BOOLEAN, postrun : BOOLEAN]

SqlInit ==
    /\ sqlcfg \in Flags
    /\ sql = [pc |-> "off", runs |-> 0]
    /\ db = [rows |-> <<>>, before |-> <<>>]
    /\ tx = <<>> /\ inserted = 0 /\ upch = {}

(* An error, wherever it comes from: Rollback, and the process ends, since  *)
(* NewSQLite or Run reports it.                                             *)
Rollback ==
    /\ sql.pc \notin {"off", "upload"}
    /\ sql' = [sql EXCEPT !.pc = "off"] /\ tx' = <<>>
    /\ UNCHANGED <<sqlcfg, db, inserted, upch>>

(* NewSQLite: settings, Begin, and the PreRun commands.                     *)
Setup ==
    /\ sql.pc = "off" /\ sql.runs < MaxRuns
    /\ sql' = [pc |-> "table", runs |-> sql.runs + 1]
    /\ db' = [db EXCEPT !.before = db.rows]
    /\ tx' = IF sqlcfg.prerun THEN Append(db.rows, "prerun") ELSE db.rows
    /\ inserted' = 0
    /\ UNCHANGED <<sqlcfg, upch>>

(* Fault: the table is cleared outside of the transaction.                  *)
SetupTableDirectly ==
    /\ sql.pc = "table"
    /\ sql' = [sql EXCEPT !.pc = "insert"]
    /\ tx' = IF sqlcfg.clear THEN <<>> ELSE tx
    /\ db' = IF sqlcfg.clear THEN [db EXCEPT !.rows = <<>>] ELSE db
    /\ UNCHANGED <<sqlcfg, inserted, upch>>

(* doRun: setupTable and maybeTruncate.                                     *)
SetupTable ==
    /\ sql.pc = "table"
    /\ sql' = [sql EXCEPT !.pc = "insert"]
    /\ tx' = IF sqlcfg.clear THEN <<>> ELSE tx
    /\ UNCHANGED <<sqlcfg, db, inserted, upch>>

Insert ==
    /\ sql.pc = "insert" /\ inserted < MaxRows
    /\ tx' = Append(tx, <<sql.runs, inserted + 1>>)
    /\ inserted' = inserted + 1
    /\ UNCHANGED <<sqlcfg, sql, db, upch>>

(* The channel is closed: PostRun.                                          *)
RunPost ==
    /\ sql.pc = "insert"
    /\ sql' = [sql EXCEPT !.pc = "commit"]
    /\ tx' = IF sqlcfg.postrun THEN Append(tx, "postrun") ELSE tx
    /\ UNCHANGED <<sqlcfg, db, inserted, upch>>

Commit ==
    /\ sql.pc = "commit"
    /\ sql' = [sql EXCEPT !.pc = IF sqlcfg.vacuum THEN "vacuum" ELSE "upload"]
    /\ db' = [db EXCEPT !.rows = tx]
    /\ UNCHANGED <<sqlcfg, tx, inserted, upch>>

(* VACUUM runs after the commit: when it fails (Rollback) Run reports an    *)
(* error although the rows are there.                                       *)
Vacuum ==
    /\ sql.pc = "vacuum"
    /\ sql' = [sql EXCEPT !.pc = "upload"]
    /\ UNCHANGED <<sqlcfg, db, tx, inserted, upch>>

(* upch <- pathname; Run returns.                                           *)
SendPathname ==
    /\ sql.pc = "upload"
    /\ upch' = upch \cup {sql.runs}
    /\ sql' = [sql EXCEPT !.pc = "off"]
    /\ UNCHANGED <<sqlcfg, db, tx, inserted>>

(* The process dies with the path unsent.                                   *)
SqlCrash ==
    /\ sql.pc = "upload"
    /\ sql' = [sql EXCEPT !.pc = "off"]
    /\ UNCHANGED <<sqlcfg, db, tx, inserted, upch>>

SqlNext == Setup \/ SetupTable \/ Insert \/ RunPost \/ Commit \/ Vacuum \/ SendPathname
           \/ Rollback \/ SqlCrash
SqlSpec == SqlInit /\ [][SqlNext]_sqlvars

SqlTypeOK ==
    /\ sqlcfg \in Flags /\ sql.runs \in 0..MaxRuns /\ inserted \in 0..MaxRows
    /\ sql.pc \in {"off", "table", "insert", "commit", "vacuum", "upload"}
    /\ upch \subseteq 1..sql.runs

(* The rows a complete run leaves.                                          *)
Complete ==
    (IF sqlcfg.clear THEN <<>>
     ELSE IF sqlcfg.prerun THEN Append(db.before, "prerun") ELSE db.before)
    \o [i \in 1..inserted |-> <<sql.runs, i>>]
    \o IF sqlcfg.postrun THEN <<"postrun">> ELSE <<>>

(* A run, whether it is cut short or not, leaves the file as it found it or *)
(* with every record it has received; the uploader only gets a file with    *)
(* all of them.                                                             *)
AllOrNothing ==
    /\ db.rows \in {db.before, Complete}
    /\ sql.runs \in upch => db.rows = Complete
=============================================================================
