----------------------------- MODULE MCRecords -----------------------------
(***************************************************************************)
(* A small instance of Records for TLC, with one more part: ClauseFilter,  *)
(* whose recursive operators keep it out of the sum that is proved about.  *)
(* The sets of MCRecordsData get another name here, so that TLC evaluates  *)
(* each of them once.                                                      *)
(***************************************************************************)
EXTENDS Records, MCRecordsData

VARIABLES expr, clause, filtered, judged

clausevars == <<expr, clause, filtered, judged>>

MCTexts == Lines
MCFilters == ConfiguredFilters
MCTomlFiles == Files
MCSamples == SampleKinds

Clause == INSTANCE ClauseFilter WITH FieldNames <- ClauseFields,
                                     Expressions <- ClauseExpressions,
                                     Records <- ClauseRecords

MCInit ==
    /\ part \in Parts \cup {"clause"} /\ Start
    /\ Clause!ClauseInit /\ Is("clause", expr = <<>>)
MCNext ==
    \/ Next /\ UNCHANGED clausevars
    \/ Clause!ClauseNext /\ part = "clause" /\ UNCHANGED vars
MCSpec == MCInit /\ [][MCNext]_<<vars, clausevars>>

(* A compiled clause means what the expression means.                      *)
ClauseMeansExpression == part = "clause" => Clause!ClauseMeansExpression
=============================================================================
