----------------------------- MODULE StatsOutput -----------------------------
(***************************************************************************)
(* The Stats output (output/stats.go): Run parses and validates every      *)
(* record again, and gathers what createStatsCSV prints at the end: the    *)
(* sizes, the range of a timestamp field and how often every value of a    *)
(* field occurs.  The quantiles are left out but for their counts.         *)
(*                                                                         *)
(* Run parses every line into the same LogLine, does not clear it and does *)
(* not look at the error of Parse: a line with fewer fields than an        *)
(* earlier one is read with positions that the earlier one has left, and   *)
(* one with too many with its positions in the text of the one before.     *)
(***************************************************************************)
EXTENDS Integers, Sequences, FiniteSets
LOCAL INSTANCE FiniteSetsExt

CONSTANTS Samples,     \* the records: [valid, size, time, value, shape]; the shape
                       \* is "usual", "short" when it ends before the fields that
                       \* are looked at and "long" when Parse refuses it
          MaxSamples,  \* bound
          NoValue,     \* an empty field
          Malformed,   \* a timestamp that is not a number
          MaxUint32, MaxInt64  \* what the minima begin with

VARIABLES empties,  \* CountEmptyFields
          csv,      \* the sections: <<>>, and what was printed at the end
          seen,     \* the records Run has received
          statn, errn, sizes, times, m,
          outpanic  \* a position lay outside of the line

outstatvars == <<empties, csv, seen, statn, errn, sizes, times, m, outpanic>>

Values == {s.value : s \in Samples}
Low(a, b) == IF b < a THEN b ELSE a
High(a, b) == IF b > a THEN b ELSE a

OutStatInit ==
    /\ empties \in BOOLEAN /\ csv = <<>> /\ seen = <<>> /\ statn = 0 /\ errn = 0
    /\ sizes = [n |-> 0, totbytes |-> 0, smallest |-> MaxUint32, biggest |-> 0]
    /\ times = [n |-> 0, nerrors |-> 0, nempties |-> 0, first |-> MaxInt64, last |-> 0]
    /\ m = [v \in Values |-> 0] /\ outpanic = FALSE

AddSize(size) ==
    [n |-> sizes.n + 1, totbytes |-> sizes.totbytes + size,
     smallest |-> Low(sizes.smallest, size), biggest |-> High(sizes.biggest, size)]

(* Fault: the first timestamp is never the last one.                        *)
AddTimeElse(t) ==
    IF t = NoValue THEN [times EXCEPT !.nempties = @ + 1]
    ELSE IF t = Malformed THEN [times EXCEPT !.nerrors = @ + 1]
    ELSE IF t < times.first THEN [times EXCEPT !.n = @ + 1, !.first = t]
    ELSE [times EXCEPT !.n = @ + 1, !.last = High(@, t)]

AddTime(t) ==
    IF t = NoValue THEN [times EXCEPT !.nempties = @ + 1]
    ELSE IF t = Malformed THEN [times EXCEPT !.nerrors = @ + 1]
    ELSE [times EXCEPT !.n = @ + 1, !.first = Low(@, t), !.last = High(@, t)]

AddField(v) ==
    IF ~empties /\ v = NoValue THEN m ELSE [m EXCEPT ![v] = @ + 1]

(* What ValidateRecord and Get find in the record that was parsed into the  *)
(* one of Run: the fields of the record, or whatever lies between stale     *)
(* positions or in a stale text.                                            *)
Misread(s) == s.shape = "long" \/ (s.shape = "short" /\ \E i \in DOMAIN seen : seen[i].shape # "short")
Found(s) == IF Misread(s) THEN Samples ELSE {s}

(* Run, for one record.                                                     *)
AddRecord ==
    /\ csv = <<>> /\ ~outpanic /\ Len(seen) < MaxSamples
    /\ \E s \in Samples :
          /\ seen' = Append(seen, s)
          /\ statn' = statn + 1
          /\ \/ /\ \E f \in Found(s) :
                      f.valid /\ m' = AddField(f.value) /\ times' = AddTime(f.time)
                /\ sizes' = AddSize(s.size)
                /\ UNCHANGED <<errn, outpanic>>
             \/ /\ \E f \in Found(s) : ~f.valid
                /\ errn' = errn + 1
                /\ UNCHANGED <<m, sizes, times, outpanic>>
             \/ /\ Misread(s)
                /\ outpanic' = TRUE
                /\ UNCHANGED <<errn, m, sizes, times>>
    /\ UNCHANGED <<empties, csv>>

(* fieldStats.print: the smallest and the biggest frequency.                *)
Frequencies == {m[v] : v \in {x \in Values : m[x] > 0}}
CreateStatsCSV ==
    /\ csv = <<>> /\ ~outpanic
    /\ csv' = <<[sizes |-> sizes, times |-> times,
               field |-> [n |-> Cardinality({v \in Values : m[v] > 0}),
                          smallest |-> FoldSet(Low, MaxUint32, Frequencies),
                          biggest |-> FoldSet(High, 0, Frequencies)]]>>
    /\ UNCHANGED <<empties, seen, statn, errn, sizes, times, m, outpanic>>

OutStatNext == AddRecord \/ CreateStatsCSV
OutStatSpec == OutStatInit /\ [][OutStatNext]_outstatvars

OutStatTypeOK ==
    /\ statn = Len(seen) /\ errn \in 0..statn /\ m \in [Values -> 0..statn]
    /\ DOMAIN sizes = {"n", "totbytes", "smallest", "biggest"}

(* What is printed is what the valid records say: every one is counted, its *)
(* timestamp is good, bad or missing, the ranges are those of the values    *)
(* there are, and a value's frequency is the number of records that have it;*)
(* Run does not panic.  Known exceptions: a stream with a record that is    *)
(* too long, or shorter than one before it, and timestamps that are all     *)
(* before 1970, of which the last is printed as 1970.                       *)
Valid == {i \in DOMAIN seen : seen[i].valid}
With(p, v) == {i \in Valid : seen[i][p] = v}
Stamps == {seen[i].time : i \in Valid} \ {NoValue, Malformed}
Shapeless ==
    \/ \E i \in DOMAIN seen : seen[i].shape = "long"
    \/ \E i, j \in DOMAIN seen : i < j /\ seen[i].shape # "short" /\ seen[j].shape = "short"
ReportAddsUp ==
    ~Shapeless => ~outpanic /\ (csv # <<>> =>
        /\ csv[1].sizes.n = Cardinality(Valid) /\ csv[1].sizes.n + errn = statn
        /\ csv[1].sizes.totbytes = MapThenSumSet(LAMBDA i : seen[i].size, Valid)
        /\ Valid # {} => /\ csv[1].sizes.smallest = Min({seen[i].size : i \in Valid})
                         /\ csv[1].sizes.biggest = Max({seen[i].size : i \in Valid})
        /\ csv[1].times.nempties = Cardinality(With("time", NoValue))
        /\ csv[1].times.n + csv[1].times.nerrors + csv[1].times.nempties = Cardinality(Valid)
        /\ Stamps # {} => csv[1].times.first = Min(Stamps)
        /\ Stamps # {} /\ Max(Stamps) >= 0 => csv[1].times.last = Max(Stamps)
        /\ LET counted == {v \in Values : With("value", v) # {} /\ (empties \/ v # NoValue)}
               often == {Cardinality(With("value", v)) : v \in counted}
           IN  /\ csv[1].field.n = Cardinality(counted)
               /\ counted # {} => csv[1].field.smallest = Min(often) /\ csv[1].field.biggest = Max(often))
=============================================================================
