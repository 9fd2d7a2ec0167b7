----------------------------- MODULE Statistics -----------------------------
(***************************************************************************)
(* Statistics: every second, and once more when the topology has ended,    *)
(* StatsDumper (stats.go) reads the counters of the components one after   *)
(* the other while the components go on counting, merges their MetricsBags *)
(* (metrics.go) and hands everything to the metrics client, here Datadog's *)
(* (metrics/datadog/client.go), which sends a counter as the difference    *)
(* from the value it was last given under the same name.                   *)
(*                                                                         *)
(* A record is counted when it is read, and then once more where it ends:  *)
(* malformed, invalid, discarded by a filter or written by an output.  Of  *)
(* those written the output may count some as errors, too; and DynamoDB    *)
(* leaves a record out, without counting it, when its batch has the key    *)
(* already.                                                                *)
(***************************************************************************)
EXTENDS Integers, Sequences, FiniteSets
LOCAL INSTANCE FiniteSetsExt
LOCAL INSTANCE SequencesExt

CONSTANTS FilterNames,  \* sequence: the filters, in the order of the chain
          OutputNames,  \* sequence: the outputs
          ErrorNames,   \* sequence: the counters of their errors
          MaxRead,      \* bound: records
          MaxUploads,   \* bound: files, and failed uploads
          MaxTicks      \* bound: dumps before the last one

VARIABLES count,    \* the counters of the components, and "unseen", which no one reads
          ended,    \* Wait has returned
          dump,     \* the dump in progress: pc, position, counters read, bag
          ticks, printed,
          sent,     \* <<name, tag>> -> the sum of the deltas sent
          counters  \* the client's: name -> last value

statvars == <<count, ended, dump, ticks, printed, sent, counters>>

Ends == {"malformed", "invalid"} \cup Range(FilterNames) \cup Range(OutputNames)
Errors == (Ends \ Range(OutputNames)) \cup Range(ErrorNames)
Counters == {"read", "uploads", "upload_errors", "unseen"} \cup Ends \cup Errors
Zero == [c \in Counters |-> 0]
Total(S, c) == MapThenSumSet(LAMBDA x : c[x], S)

Metrics == {<<n, "">> : n \in {"processed_lines", "uploads", "upload_errors", "error_lines",
                                "custom"}}
           \cup {<<"filtered_lines", f>> : f \in Range(FilterNames)}

(* MetricsBag.Merge of a bag with one counter, one gauge and one histogram. *)
Merge(bag, other) ==
    [c |-> bag.c + other.c,
     g |-> IF bag.g = -1 THEN other.g ELSE (bag.g + other.g) \div 2,
     h |-> bag.h \o other.h]
NoMetrics == [c |-> 0, g |-> -1, h |-> <<>>]

(* RawCount and RawCountWithTags.                                           *)
RawCount(name, tag, value) ==
    /\ sent' = [sent EXCEPT ![<<name, tag>>] = @ + Max({0, value - counters[name]})]
    /\ counters' = [counters EXCEPT ![name] = value]

Idle == [pc |-> "idle", at |-> 1, seen |-> Zero, bag |-> NoMetrics]

StatInit ==
    /\ count = Zero /\ printed = Zero /\ ended = FALSE /\ ticks = 0
    /\ dump = Idle
    /\ sent = [m \in Metrics |-> 0]
    /\ counters = [n \in {m[1] : m \in Metrics} |-> 0]

(* ------------------------------------------------------------------------ *)
(* The topology.                                                            *)

Read ==
    /\ ~ended /\ count["read"] < MaxRead
    /\ count' = [count EXCEPT !["read"] = @ + 1]
    /\ UNCHANGED <<ended, dump, ticks, printed, sent, counters>>

InFlight == count["read"] - count["unseen"] - Total(Ends, count)

(* A record ends and is counted, or is left out by DynamoDB's push.         *)
Settle(c) ==
    /\ InFlight > 0
    /\ count' = [count EXCEPT ![c] = @ + 1]
    /\ UNCHANGED <<ended, dump, ticks, printed, sent, counters>>

LeaveOut == Settle("unseen")

(* A record that an output has counted is an error as well.                 *)
CountError(i) ==
    /\ ~ended /\ count[ErrorNames[i]] < count[OutputNames[i]]
    /\ count' = [count EXCEPT ![ErrorNames[i]] = @ + 1]
    /\ UNCHANGED <<ended, dump, ticks, printed, sent, counters>>

Upload(c) ==
    /\ ~ended /\ count[c] < MaxUploads
    /\ count' = [count EXCEPT ![c] = @ + 1]
    /\ UNCHANGED <<ended, dump, ticks, printed, sent, counters>>

(* Wait returns when the goroutines of the topology have ended, and with    *)
(* them every record (Topology!NothingLost); Main then stops the dumper.    *)
WaitReturns ==
    /\ ~ended /\ InFlight = 0
    /\ ended' = TRUE
    /\ UNCHANGED <<count, dump, ticks, printed, sent, counters>>

(* ------------------------------------------------------------------------ *)
(* dumpNow.                                                                 *)

Tick ==
    /\ dump.pc = "idle" /\ ticks < MaxTicks
    /\ ticks' = ticks + 1
    /\ dump' = [Idle EXCEPT !.pc = "input"]
    /\ UNCHANGED <<count, ended, printed, sent, counters>>

(* The dumping goroutine sees quit; stop dumps once more.                   *)
Quit ==
    /\ dump.pc = "idle" /\ ended
    /\ dump' = [Idle EXCEPT !.pc = "input", !.at = 0]
    /\ ticks' = MaxTicks + 1
    /\ UNCHANGED <<count, ended, printed, sent, counters>>

ReadInput ==
    /\ dump.pc = "input"
    /\ dump' = [dump EXCEPT !.pc = "filters", !.at = 1, !.seen["read"] = count["read"]]
    /\ UNCHANGED <<count, ended, ticks, printed, sent, counters>>

ReadFilter ==
    LET f == FilterNames[dump.at]
    IN  /\ dump.pc = "filters"
        /\ dump' = [dump EXCEPT !.seen[f] = count[f],
                        !.pc = IF dump.at = Len(FilterNames) THEN "outputs" ELSE "filters",
                        !.at = IF dump.at = Len(FilterNames) THEN 1 ELSE @ + 1]
        /\ IF count[f] > 0 THEN RawCount("filtered_lines", f, count[f])
           ELSE UNCHANGED <<sent, counters>>
        /\ UNCHANGED <<count, ended, ticks, printed>>

(* Stats() of an output loads its two counters one after the other.         *)
ReadOutput ==
    LET o == OutputNames[dump.at]
    IN  /\ dump.pc = "outputs"
        /\ dump' = [dump EXCEPT !.seen[o] = count[o], !.pc = "output errors",
                        !.bag = Merge(@, [c |-> count[o], g |-> 2 * count[o], h |-> <<count[o]>>])]
        /\ UNCHANGED <<count, ended, ticks, printed, sent, counters>>

ReadOutputErrors ==
    LET e == ErrorNames[dump.at]
        all == dump.at = Len(OutputNames)
    IN  /\ dump.pc = "output errors"
        /\ dump' = [dump EXCEPT !.seen[e] = count[e],
                        !.pc = IF all THEN "uploads" ELSE "outputs",
                        !.at = IF all THEN 1 ELSE @ + 1]
        /\ IF all THEN RawCount("processed_lines", "", Total(Range(OutputNames), dump.seen))
           ELSE UNCHANGED <<sent, counters>>
        /\ UNCHANGED <<count, ended, ticks, printed>>

(* So does the uploader, whose counter going backwards ends the process.    *)
ReadUploads ==
    /\ dump.pc = "uploads"
    /\ dump' = [dump EXCEPT !.seen["uploads"] = count["uploads"], !.pc = "upload errors"]
    /\ RawCount("uploads", "", count["uploads"])
    /\ UNCHANGED <<count, ended, ticks, printed>>

ReadUploadErrors ==
    /\ dump.pc = "upload errors"
    /\ dump' = [dump EXCEPT !.seen["upload_errors"] = count["upload_errors"],
                    !.pc = IF dump.seen["uploads"] < printed["uploads"] THEN "fatal" ELSE "invalid"]
    /\ RawCount("upload_errors", "", count["upload_errors"])
    /\ UNCHANGED <<count, ended, ticks, printed>>

ReadInvalid ==
    /\ dump.pc = "invalid"
    /\ dump' = [dump EXCEPT !.pc = "malformed", !.seen["invalid"] = count["invalid"]]
    /\ UNCHANGED <<count, ended, ticks, printed, sent, counters>>

(* malformed is read without a lock.                                        *)
ReadMalformed ==
    /\ dump.pc = "malformed"
    /\ dump' = [dump EXCEPT !.pc = "metrics", !.seen["malformed"] = count["malformed"]]
    /\ RawCount("error_lines", "", Total(Errors, dump'.seen))
    /\ UNCHANGED <<count, ended, ticks, printed>>

PrintLine ==
    /\ dump.pc = "metrics"
    /\ RawCount("custom", "", dump.bag.c)
    /\ printed' = dump.seen
    /\ dump' = [Idle EXCEPT !.pc = IF ticks > MaxTicks THEN "stopped" ELSE "idle", !.bag = dump.bag]
    /\ UNCHANGED <<count, ended, ticks>>

StatNext ==
    \/ Read \/ WaitReturns \/ LeaveOut
    \/ \E c \in Ends : Settle(c)
    \/ \E i \in DOMAIN OutputNames : CountError(i)
    \/ \E c \in {"uploads", "upload_errors"} : Upload(c)
    \/ Tick \/ Quit \/ ReadInput \/ ReadFilter \/ ReadOutput \/ ReadOutputErrors
    \/ ReadUploads \/ ReadUploadErrors
    \/ ReadInvalid \/ ReadMalformed \/ PrintLine

StatSpec == StatInit /\ [][StatNext]_statvars

(* ------------------------------------------------------------------------ *)

StatTypeOK ==
    /\ count \in [Counters -> Nat] /\ printed \in [Counters -> Nat] /\ ended \in BOOLEAN
    /\ dump.pc \in {"idle", "input", "filters", "outputs", "output errors", "uploads",
                    "upload errors", "invalid", "malformed", "metrics", "stopped"}

(* The line printed last has the final value of every counter, also of what *)
(* was counted while the dump before it was under way: it accounts for all  *)
(* the records read, but for the ones no counter has seen.                  *)
LastDumpAddsUp ==
    dump.pc = "stopped" => \A c \in Counters \ {"unseen"} : printed[c] = count[c]

(* Between two dumps the deltas sent under a name add up to the value that  *)
(* was printed, whatever was counted while the counters were being read.    *)
DeltasAddUp ==
    dump.pc \in {"idle", "stopped"} =>
        /\ sent[<<"processed_lines", "">>] = Total(Range(OutputNames), printed)
        /\ sent[<<"uploads", "">>] = printed["uploads"]
        /\ sent[<<"upload_errors", "">>] = printed["upload_errors"]
        /\ sent[<<"error_lines", "">>] = Total(Errors, printed)
        /\ sent[<<"custom", "">>] = dump.bag.c

(* "RawCountWithTags sets the value of a metric or type counter and         *)
(* associates that value with a set of tags" (datadog/client.go:141): what  *)
(* has been sent for a filter is the number of records it has discarded.    *)
TaggedDeltasAddUp ==
    dump.pc \in {"idle", "stopped"} =>
        \A f \in Range(FilterNames) : sent[<<"filtered_lines", f>>] = printed[f]
=============================================================================
