---------------------------- MODULE MCStatistics ----------------------------
(* Statistics with two filters, whose counters have the same name.         *)
EXTENDS Statistics

TwoFilters == <<"f1", "f2">>
OneOutput == <<"o1">>
OneError == <<"e1">>
=============================================================================
