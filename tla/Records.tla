------------------------------ MODULE Records ------------------------------
(***************************************************************************)
(* The parts that are run by one goroutine, or that others only call, and  *)
(* of which only safety is asked: how records are cut, filtered, cached,   *)
(* counted, written and configured.  The parts never meet: part is chosen  *)
(* in the initial state, the steps are those of that part, and the         *)
(* variables of the others keep an initial value.                          *)
(***************************************************************************)
EXTENDS Integers, Sequences, FiniteSets

CONSTANTS
    MaxFile, ChunkBuffer, MaxLine,                                    \* ChunkReader
    Keys, Lens, Prefix, Buckets, NumBits, Words, MaxBufLen, MaxCap,   \* BufferCache
    CellSpan, BucketSpan, MaxPuts, Free,
    NumFields, NumCustom, Slots, Sep, NL, Texts, Filters, MaxFilters, \* FilterChain
    Workers, KeyOf, ValueOf, UrlOf, Content, NoUrl, MaxEntries,       \* SharedFilters
    TomlFiles, Usual, Known, Required, Shards, NoSection, IllTyped,   \* Configuration
    MaxBytes, MaxWrite, MaxSize, BufSize, MaxBroken,                  \* SplitWriter
    FilterNames, OutputNames, ErrorNames, MaxRead, MaxUploads, MaxTicks, \* Statistics
    Samples, MaxSamples, NoValue, Malformed, MaxUint32, MaxInt64,     \* StatsOutput
    Clients, Wants, QueueCap, MaxSends, NoClient                      \* WebSocket

VARIABLES part,
          size, eol, pos, chunks, stopping, rpc,
          loc, cold, hot, cap, puts, calls, putPanics,
          text, line, want, chain, due, torn, fate,
          keep, worker, received, dedupSet, duplicates, version, values, loading,
          cache, nentries, mx, dst,
          toml, step, fields, sizes,
          fname, newlines, written, files, split, broken,
          count, ended, dump, ticks, printed, sent, counters,
          empties, csv, seen, statn, errn, recsizes, times, m, outpanic,
          maxId, client, clients, sends, got, missed, unsent, panicked

chunkvars == <<size, eol, pos, chunks, stopping, rpc>>
cachevars == <<loc, cold, hot, cap, puts, calls, putPanics>>
chainvars == <<text, line, want, chain, due, torn, fate>>
sharedvars == <<keep, worker, received, dedupSet, duplicates, version, values, loading,
                cache, nentries, mx, dst>>
configvars == <<toml, step, fields, sizes>>
splitvars == <<fname, newlines, written, files, split, broken>>
statvars == <<count, ended, dump, ticks, printed, sent, counters>>
outstatvars == <<empties, csv, seen, statn, errn, recsizes, times, m, outpanic>>
wsvars == <<maxId, client, clients, sends, got, missed, unsent, panicked>>
vars == <<part, chunkvars, cachevars, chainvars, sharedvars, configvars, splitvars,
          statvars, outstatvars, wsvars>>

Reader == INSTANCE ChunkReader WITH MaxSize <- MaxFile, newlines <- eol, sent <- chunks
Cache == INSTANCE BufferCache WITH panicked <- putPanics
Chain == INSTANCE FilterChain
Shared == INSTANCE SharedFilters
Config == INSTANCE Configuration
Splitter == INSTANCE SplitWriter
Stats == INSTANCE Statistics
OutStats == INSTANCE StatsOutput WITH sizes <- recsizes
Ws == INSTANCE WebSocket

ASSUME RecordsAssumption ==
    /\ Reader!ChunkReaderAssumption /\ Cache!ConfigAssumption /\ Chain!LogLineAssumption
    /\ Shared!SharedAssumption /\ Config!ConfigAssumption /\ Splitter!SplitWriterAssumption
    /\ Ws!WebSocketAssumption
    /\ <<>> \in Texts /\ Usual \in TomlFiles  \* of idle parts

Is(p, idle) == part = p \/ idle

Parts == {"reader", "cache", "chain", "shared", "config", "splitter", "stats", "outstats",
          "websocket"}

(* The initial states of the chosen part, one for each of the others.      *)
Start ==
    /\ Reader!Init /\ Is("reader", size = 0)
    /\ Cache!Init
    /\ Chain!ChainInit /\ Is("chain", text = <<>>)
    /\ Shared!SharedInit /\ Is("shared", ~keep)
    /\ Config!ConfigInit /\ Is("config", toml = Usual)
    /\ Splitter!SplitInit /\ Is("splitter", fname = "plain" /\ newlines = {})
    /\ Stats!StatInit
    /\ OutStats!OutStatInit /\ Is("outstats", ~empties)
    /\ Ws!WsInit

Init == part \in Parts /\ Start

Only(p) ==
    /\ part = p /\ UNCHANGED part
    /\ p # "reader" => UNCHANGED chunkvars
    /\ p # "cache" => UNCHANGED cachevars
    /\ p # "chain" => UNCHANGED chainvars
    /\ p # "shared" => UNCHANGED sharedvars
    /\ p # "config" => UNCHANGED configvars
    /\ p # "splitter" => UNCHANGED splitvars
    /\ p # "stats" => UNCHANGED statvars
    /\ p # "outstats" => UNCHANGED outstatvars
    /\ p # "websocket" => UNCHANGED wsvars

Next ==
    \/ Only("reader") /\ Reader!Next
    \/ Only("cache") /\ Cache!Next
    \/ Only("chain") /\ Chain!ChainNext
    \/ Only("shared") /\ Shared!SharedNext
    \/ Only("config") /\ Config!ConfigNext
    \/ Only("splitter") /\ Splitter!SplitNext
    \/ Only("stats") /\ Stats!StatNext
    \/ Only("outstats") /\ OutStats!OutStatNext
    \/ Only("websocket") /\ Ws!WsNext

Spec == Init /\ [][Next]_vars

(* Each module's type invariant.                                           *)
TypeOK ==
    /\ part = "reader"    => Reader!TypeOK
    /\ part = "cache"     => Cache!TypeOK
    /\ part = "chain"     => Chain!ChainTypeOK
    /\ part = "shared"    => Shared!SharedTypeOK
    /\ part = "config"    => Config!ConfigTypeOK
    /\ part = "splitter"  => Splitter!SplitTypeOK
    /\ part = "stats"     => Stats!StatTypeOK
    /\ part = "outstats"  => OutStats!OutStatTypeOK
    /\ part = "websocket" => Ws!WsTypeOK

(* The chunks of a file are whole lines and fit the buffer of the input.   *)
WholeLines == part = "reader" => Reader!WholeLines /\ Reader!FitsBuffer

(* Nothing that was read or written is lost: a file is sent byte by byte,  *)
(* each once, until an error or Stop(); what was written to a file that is *)
(* split is in one of its parts, whichever call fails.                     *)
NoByteLost ==
    /\ part = "reader" => Reader!NoByteTwice /\ Reader!NothingSkipped
    /\ part = "splitter" => Splitter!NoByteLost

(* The parts of a file that was split are the file.                        *)
PartsAreTheStream == part = "splitter" => Splitter!PartsAreTheStream

(* The buffer cache keeps to its limits, and its map, its two tiers and    *)
(* its byte count agree.                                                   *)
CacheWithinLimits == part = "cache" => Cache!HotWithinLimits /\ Cache!MapAgrees

(* What is put under a key reaches OnFlush once, and every call gets a run *)
(* of it.                                                                  *)
HandedInRuns == part = "cache" => Cache!CallsAreRuns /\ Cache!HandedOnce

(* The buffer cache is a store that hands over what it was given.          *)
ImplementsStore == Cache!ImplementsStore

(* A record keeps the values its text and the filters have given it, with  *)
(* all the memory that filters share.                                      *)
FieldsKeepTheirValues == part = "chain" => Chain!FieldsKeepTheirValues

(* Filters keep the records that their documentation says.                 *)
KeptAsDocumented == part = "chain" => Chain!KeptAsDocumented

(* A record that was written out parses to the same record.                *)
TextRoundTrip == part = "chain" => Chain!TextRoundTrip

(* What the filter goroutines share agrees with what they have done: one   *)
(* record of each key passes, and the cache of urls counts its entries and *)
(* gives every record its own.                                             *)
SharedStateAgrees == part = "shared" => Shared!OneOfEachKey /\ Shared!CacheAgrees

(* The values of ExternalMatch are those of one load of all its files.     *)
LoadsAreWhole == Shared!LoadsAreWhole

(* A configuration gives a topology that can run, or an error.             *)
UsableOrRefused == part = "config" => Config!UsableOrRefused

(* Statistics add up: the last line accounts for every record, deltas for  *)
(* every value, and the report of the Stats output for every valid record. *)
StatisticsAddUp ==
    /\ part = "stats" => Stats!LastDumpAddsUp /\ Stats!DeltasAddUp
    /\ part = "outstats" => OutStats!ReportAddsUp

(* The WebSocket server knows the clients that are connected.              *)
KnownWhileConnected == part = "websocket" => Ws!KnownWhileConnected

(* A WebSocket peer gets what it wants in order and without a gap, but for  *)
(* a full queue and a failing connection.                                  *)
PeersInOrder == part = "websocket" => Ws!PeersInOrder
=============================================================================
