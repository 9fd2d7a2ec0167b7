# A TLA+ verification of baker

Baker is a pipeline that reads records from an *input*, passes them through a
chain of *filters*, gives them to *outputs* and, when these produce files, to an
*upload*. This directory holds TLA+ modules translated from its Go source, TLC
configurations that check them on small instances, and TLAPS proofs. Paths such
as `topology.go` are relative to the root of the repository.

## 1. The system: inventory

| Part | State it keeps | Operations | Hard behaviour | What makes it correct |
|---|---|---|---|---|
| **Topology** (`topology.go`) | channels `inch`, `outch[]`, `upch`; four WaitGroups; sticky `inerr`; `malformed`, `invalid` counters | `Start` (launches every goroutine), `runFilterChain`, `filterChainEnd`, `Stop`, SIGINT handler, `Wait`, `Error` | goroutines of every kind over bounded channels; recycled buffers; channels closed stage by stage; a failing output ends the process | no send on a closed channel, no buffer refilled while parsed, every accepted record delivered once and to the output of its shard, `Wait` returns |
| **Interfaces** (`api.go`, `record.go`) | none | `Input.Run/Stop/FreeMem`, `Output.Run`, `Upload.Run`, `Filter.Process` | promises written as comments | the contracts `Pipeline` and `InputContract` |
| **CompressedInput** (`input/inpututils/compressedstream.go`) | file queue, worker pool, `stopNow`, `stopping`, `Done`, buffer pool | `ProcessFile`, `NoMoreFiles`, `Stop`, worker loop, `parseFileTyped`, `send`, `FreeMem` | a worker pool stopped in two ways; chunk boundaries | whole lines, no byte twice or skipped; no worker alive after `Done` |
| **List input** (`input/list.go`) | the above, `fatalErr`, `stopOnce` | `Run`, `Stop`, `setFatalErr`, `openFile`, `sizeFile`, `processList`, `processListFile` | many reasons to stop at once; listing goroutines | one close of `stopNow`; an error or all the data; `Run` returns |
| **SQS input** (`input/sqs.go`) | one poller per queue, a CompressedInput, `done` | `Run`, `pollQueue`, `parse`, `Stop` | the file is read in place by the poller and its message deleted behind it; requests cancelled by `Stop`; redelivery | a message is deleted only when its file was sent, no poller outlives `Run` |
| **TCP input** (`input/tcp.go`) | listener, connections, stop flag | `Run`, `handleStream`, `Stop` | connections that outlive the acceptor, silent peers | chunks of a connection in order; `Run` waits for its connections |
| **Kinesis input** (`input/kinesis.go`) | one goroutine and iterator per shard | `Run`, `ProcessRecords`, `Stop` | throttling, shards that end | records of a shard in order |
| **KCL input** (`input/kcl.go`) | worker, record processors, checkpoints | `Run`, `ProcessRecords`, `Shutdown`, `Stop` | crash between push and checkpoint | re-delivery never skips |
| **S3 upload** (`upload/s3.go`) | staging directory (survives a crash), `quit`, `errCh`, `exitErr`, counters | `Run`, ticker goroutine, `move`, `uploadDirectory`, `s3UploadFile`, `Stop` | two goroutines that may end each other; retries; last upload | no file lost, last upload complete, `Run` returns |
| **FileWriter** (`output/filewriter.go`) | a worker with channel, file, rotation index per path | `Run`, worker loop, `rotate`, `write`, `Close` | ticker, full files and end of stream meet | every record in exactly one file, files final once named |
| **DynamoDB output** (`output/dyndb.go`) | batch, flush timer, one writer goroutine per region, the lock they share | `Run`, `push`, `flush`, timer goroutine, `doRequest` | flush by timer and by size; unprocessed items; a deadline | a record is in every region or in a loss the code admits; the newest of a key stays |
| **SQLite output** (`output/sqlite.go`) | a connection and its one transaction | `setup`, `setupTable`, `doRun`, `Run` | any statement may fail, the process may die | all rows of a run or none |
| **WebSocket output** (`output/websocket.go`, `output/websocket/`) | the server's map of clients, a queue and two goroutines per client, `maxId` | `Listen`, `SendAll`, `listenRead`, `listenWrite` | clients that come and go while records are broadcast | connected clients are known; a peer gets what it wants in order, each record once, but for full queues and failed sends |
| **Stats output** (`output/stats.go`) | four collectors, one `LogLine` for all records | `Run`, `add` of each collector, `createStatsCSV` | fields left over from an earlier record | the report adds up |
| **Nop and op-log outputs** (`output/`) | a counter | `Run` | none | |
| **LogLine** (`logline.go`) | the text, field indexes, written fields, meta, cache | `Parse`, `Get`, `Set`, `Copy`, `ToText` | memory shared by fields and copies, 8-bit write index | `Get` after `Set`; `Parse` after `ToText` |
| **Pure filters** (`filter/`) | none | `Process(record, next)` | write into memory others read; indexes at their limits | a record means what its text and the filters say |
| **ClauseFilter** (`filter/clausefilter.go`) | a compiled expression | `parseClauseSexp`, `matchClause` | recursion, arity | means what the expression means |
| **Filters with state** (`filter/dedup.go`, `external_match.go`, `metadata_url.go`, `metadata/cache.go`) | a concurrent set, a set reloaded periodically, a cache with a limit | `Process`, `updateValues`, `Store`, `Load` | called by all filter goroutines at once | one record of each key passes; whole loads; the cache counts its entries |
| **BufferCache** (`pkg/buffercache`) | location map, hot map, cold buckets with bitmaps | `Put`, `Flush`, `moveToHotCache`, `putInHot`, `putInCold` | two tiers and a map that must agree, flushes in the middle of a put | every buffer flushed once, under its key, in order |
| **SplitWriter** (`pkg/splitwriter`) | a file and its parts | `Write`, `Close`, `findSplitPoint`, `doSplit` | crash or failure between copy and truncation | no byte lost; without failures the parts are the file |
| **Statistics, metrics** (`stats.go`, `metrics.go`, `metrics/datadog`) | previous totals, last counter values | `StatsDumper.Run`, `dumpNow`, `MetricsBag.Merge`, `RawCountWithTags` | counters read one by one while the pipeline runs | the last line has the final counts; deltas add up |
| **Configuration** (`config.go`, `NewTopologyFromConfig`) | none after start | `NewConfigFromToml`, defaults, field and validation mappings, construction of the topology | many early returns in a fixed order | a topology that can run, or an error |
| **Help, command line** (`help*.go`, `desc.go`, `baker_cli.go`) | none | rendering of text | none | not modelled |

*Interactions.* `Start` gives the input `inch`, every filter goroutine reads
`inch` and sends to `outch[i]`, every output reads one of them and may send file
names on `upch`, which the upload reads. A filter goroutine hands each buffer
back to the input through `FreeMem`. `Stop` acts on the input only; the end of
every other part is the closing of its channel by `Wait`, after the WaitGroup of
all its senders. An error of the input is kept for `Error()`; an error of an
output or of the upload is a `log.Fatal`.

## 2. Modules

| Module | Models | State and actions against the code |
|---|---|---|
| `Pipeline` | abstract: what a topology promises | `accepted`, `delivered`, `phase`; written from the contracts of `api.go` |
| `Topology` | `topology.go` with any input, output and upload | `inch`/`outch` are bounded sequences, `upch` is a rendezvous with the uploader's state `upl`; `fpc`, `fbuf`, `foff`, `fcopy` are the loop of one `runFilterChain`; `wpc` is the progress of `Wait`, whose WaitGroups are `InputDone`, `FiltersDone`, `OutputsDone`, `UploadDone`; `pool`/`mem` are the buffers `FreeMem` recycles |
| `InputContract` | abstract: what the topology relies on from an input | `readable`, `chunks`, `run` |
| `ListInput` | `list.go` on top of `compressedstream.go` | `ppc` is `Run`, `wpc` the workers, `oncepc` the body of `stopOnce.Do` with the two steps of `ci.Stop()`; `health` says what a file does when touched |
| `ChunkReader` | the read loop of `parseFileTyped` | `pos` in the stream, `sent` the buffers as intervals of bytes |
| `S3Upload` | `s3.go` | `rpc` is `Run`, `gpc` the ticker goroutine inside `uploadDirectory`, `up` the goroutine of each file; `staging` and `bucket` are the directory and the bucket |
| `FileWriter` | `filewriter.go` | `rpc` is `Run`, `wpc` the workers; `given` is what the compressor and buffer of a file were given, `disk` the lines that got into the file, `failed` the files an error was logged for, `handed` what was sent on `upch` |
| `BufferStore` | abstract: what a cache of buffers per key promises | `puts` counts the buffers of a key, `handed` are those given to OnFlush |
| `BufferCache` | `pkg/buffercache` | `hot`, `cold` and `loc` are the two tiers and the location map, `cap` the count of bytes; a `Put` or `Flush` is one action, with the evictions inside it as operators on the whole state that mirror the Go functions |
| `SQSInput` | `sqs.go` and the part of `compressedstream.go` it uses | `poller[q]` is a `pollQueue`, `rpc` is `Run`, `ci` the flags of the embedded CompressedInput, `message` the queue as SQS keeps it |
| `TCPInput` | `tcp.go` | `rpc` is `Run`, `conn[p]` the goroutine and the socket of a peer |
| `KinesisInput` | `kinesis.go` | `shard[s]` is a `ProcessRecords` with its iterator |
| `KCLInput` | `kcl.go` in several processes | `process[i]` is a `Run`, `consumer[i][s]` a record processor, `lease` and `checkpoint` what the processes share and a crash leaves |
| `DynamoDB` | `dyndb.go` | `run` is `Run` inside `push`, `timer` the timer goroutine, `proc[r]` a region's writer with the batch it writes, `lock` the mutex of `flush`; `table[r]` is the external table, `skipped` and `lost` the records the code gives up |
| `SQLite` | `sqlite.go` | `sql` is the progress of `Run`, `db` the committed table, `tx` what the transaction sees; runs may follow one another and die |
| `WebSocket` | `websocket.go`, `websocket/` | `client[c]` is a client with its queue and the states of its reader and writer, `clients` the server's map by id |
| `StatsOutput` | `output/stats.go` | `recsizes`, `times` and the frequencies are the collectors, `csv` the report |
| `LogLine` | `logline.go` | a record is a memory and references into it: `idx`, `wdata`, `wmask` as in the struct; operators only |
| `FilterChain` | the filters that keep nothing, over `LogLine`, between `runFilterChain` and `filterChainEnd` | `line` is the record in memory, `want` the values its fields should have, `chain` the filters so far, `fate` what became of it |
| `ClauseFilter` | `clausefilter.go` | `expr` the expression, `clause` what it compiles to |
| `SharedFilters` | `dedup.go`, `external_match.go`, `metadata_url.go`, `metadata/cache.go` | `worker[w]` is a filter goroutine, `dedupSet`, `values` and `cache` what they share, `mx` the cache's lock, `loading` the reload |
| `Statistics` | `stats.go`, `metrics.go`, the counters of `metrics/datadog` | `count` is what the pipeline has counted, `dump` the progress of `dumpNow`, `sent`/`counters` the Datadog client |
| `SplitWriter` | `pkg/splitwriter` | `files` maps names to intervals of bytes, `split` is the progress of `Close` |
| `Configuration` | `config.go`, `NewTopologyFromConfig` | `toml` is the file and the program's `Components`, `step` how far construction has come, `sizes` the numbers that get defaults |
| `MCTopology`, `MCListInput`, `MCS3Upload`, `MCBufferCache`, `MCStatistics`, `MCExpandList` | instances for TLC | values for the CONSTANTS |
| `Sources` | one of the four inputs that do not end by themselves | the sum of `SQSInput`, `TCPInput`, `KinesisInput` and `KCLInput`: `source` is chosen in the initial state, for a topology has one input |
| `Outputs` | one of the components at the end of a topology | the sum of `FileWriter`, `S3Upload`, `DynamoDB` and `SQLite`, chosen by `part` |
| `Records` | one of the parts one goroutine runs or others only call | the sum of `ChunkReader`, `BufferCache`, `FilterChain`, `SharedFilters`, `Configuration`, `SplitWriter`, `Statistics`, `StatsOutput` and `WebSocket`, chosen by `part` |
| `MCSources`, `MCOutputs`, `MCRecords`, `MCRecordsData` | instances of the sums for TLC | values for the CONSTANTS, fairness; `ClauseFilter` as one more part of `Records` |
| `DeliveryProofs`, `ListInputProofs`, `KCLProofs` | theorems about `Topology`, `ListInput` and `KCLInput` | |
| `SourcesProofs`, `OutputsProofs`, `RecordsProofs`, `BytesProofs`, `CacheProofs` | theorems about the three sums | |

The sums exist because the parts in them never meet: a part is chosen in the
initial state, the steps are its own, and the variables of the others keep one
initial value, so that the state space is the union of those of the parts.
Assumptions on the constants of a module in a sum are a named operator of the
module, which the sum ASSUMEs of its instance. `ClauseFilter` is the only module
with a RECURSIVE operator: it stays out of `Records`, `MCRecords` adds it as a
tenth part, and nothing is proved about it.

Each goroutine is a program counter, and an action is what it does up to the
next point at which another goroutine can see or hinder it: a send or receive on
a channel, a WaitGroup, a lock, an atomic flag, a file operation. What a component
gets from outside (the content of files, failing requests, the moment of a tick
or of SIGINT) is chosen freely. Operators commented *Fault* are not part of any
specification: each is a plausible slip in the action it stands in front of and
serves to confirm that the properties notice it.

*Abstractions.* A record is its position in the stream and the copy of it a
filter made (`Copies`: how often the chain calls its end for that line), so that
"exactly once" can be stated. Parsing, validation and sharding are constants
(`Malformed`, `Invalid`, `Shard`). A file is a name; in `ChunkReader` it is the
set of positions of its newlines. Paths that `FileWriter` generates are distinct,
which is rule 2 of its help text. A list inside a list file is flattened. In
`BufferCache` a buffer is a number and a size, and compression gives it another
size. What an SQS message leads to is one of seven kinds (understood or not, with
or without a path, filtered, its file complete, unreadable, not gzip, or broken
off). A Kinesis shard is a sequence of pages, each given by the last of its records. The
KCL application starts at `TRIM_HORIZON`: with `LATEST` and no checkpoint yet a
takeover skips what arrived in between, as the configuration asks.
In `LogLine` and `FilterChain` a byte is a character and a record has three fields
and one custom field; the metadata and the cache of a record are left out. Hashes,
ciphers, time formats, regular expressions and URL parsing are functions from
values to values. A clause expression is a tree of words and lists. A
configuration file is a record of choices, decoding it is the failure or success
of each section. `SplitWriter` cuts positions of a stream; DynamoDB and SQLite
keep whole records, and the statistics count, errors too, without rates. Of a path
that `SplitWriter` splits what counts is whether there is white space in it, and
whether it is called part 0; that no file has the name of a part already, or of
what the pattern makes of one, is assumed. A value that a filter computes may hold
a separator or a line feed; the values of the input hold neither, as they have
been cut there.

## 3. Runs

All are exhaustive for their bounds.

| Run | Bounds | Shows |
|---|---|---|
| `topology_sharded` | 5 lines in chunks of 1-2, 4 buffers, 2 filter goroutines, 2 outputs, capacity 1 | `NoSendOnClosedChannel`, `BufferHasOneHolder`, `NothingLost`, `ShardAffinity` in a topology that runs until interrupted |
| `topology_ordered` | 3 lines (4 records), 2 buffers, 1 filter goroutine, 2 outputs on one channel, uploads, failures | `StreamOrder`, the refinement of `Pipeline`, `WaitReturns` |
| `list_input` | 3 configurations of 2 entries, 2 files of 5 kinds, 2 workers | `CleanStop`, refinement of `InputContract`, `StopReturns` |
| `list_blocked` | a directory of 4 files, queue of 1, 1 worker | finding 1 |
| `sources` | SQS: 2 queues, 5 messages, one of them delivered twice; TCP: 2 peers of up to 2 chunks; Kinesis: 2 shards of 2 pages; KCL: 2 processes, a shard of 2 records, 2 leases | `NothingSkipped`, `NoneLeftBehind`, `StopReturns` |
| `outputs` | FileWriter: every stream of up to 3 records over 2 workers, 2 rotations each, 1 file with an error (of a write, the closing or the removal), files that cannot be created; S3: 2 files, new or left over, concurrency 1 and 2, 2 attempts, 3 failures, with and without `ExitOnError`; DynamoDB: 3 records of 2 keys, batches of 2, 2 regions, 2 attempts; SQLite: 2 rows, 2 runs, every flag | `NothingLost`, `FilesAccountedFor`, `UploadsEnd`, `AllOrNothing`, `NeverUndone`, `RunReturns` |
| `records` | see below | 17 properties of ten parts |
| `chunk_reader_eof` | every file of up to 6 bytes, every split into reads | finding 2 |
| `s3_swallow` | as in `outputs`, with `ExitOnError`, concurrency 1 | finding 3 |
| `buffer_cache_once` | 3 keys, up to 6 puts and any flushes | finding 4 |
| `expand_list` | two lists of three elements, indexes 2 and 10 | finding 5 |
| `datadog_tags` | two filters, 2 records, 2 ticks | finding 6 |

The parts of `records`, each exhaustive:

| Part | Bounds | Properties |
|---|---|---|
| `ChunkReader` | every file of up to 9 bytes, a buffer of 5 of which 2 are kept to complete a line, every split into reads | `WholeLines`, `NoByteLost` |
| `BufferCache` | 3 keys, buffers that fit a small cell, a big one, only the hot cache or nothing, up to 7 puts and any flushes | `CacheWithinLimits`, `HandedInRuns`, refinement of `BufferStore` |
| `FilterChain` | every line of up to 3 characters out of separator, list separator and two others, and five longer ones; chains of up to 2 out of 20 filters, of which some write separators and line feeds | `FieldsKeepTheirValues`, `KeptAsDocumented`, `TextRoundTrip` |
| `ClauseFilter` | all expressions with up to 4 leaves under one operator and 2 under nested ones | `ClauseMeansExpression` |
| `SharedFilters` | 2 goroutines, 4 records with 3 keys and 2 urls, a cache of 2, 2 files that change once each | `SharedStateAgrees`, `LoadsAreWhole` |
| `Configuration` | every pair of changes to a usual file, with fields named in the file or in the program | `UsableOrRefused` |
| `SplitWriter` | files of up to 7 bytes with newlines anywhere, windows of 2 and parts of 3 bytes, 1 failing call or crash, a path without and one with white space and one called part 0 | `NoByteLost`, `PartsAreTheStream` |
| `Statistics` | 2 filters, 2 outputs with errors, 2 records, 1 upload and 1 that fails, 1 tick and the last dump | `StatisticsAddUp` |
| `StatsOutput` | every stream of up to 4 out of 8 kinds of records, one of them too short and one too long, with stamps before and after 1970 | `StatisticsAddUp` |
| `WebSocket` | 2 clients, 3 records, queues of 2, any sends that fail | `KnownWhileConnected`, `PeersInOrder` |

*Why the bounds are enough.* Two filter goroutines and two outputs already give
every order in which two senders meet one channel; one line with two copies, one
dropped, one malformed and two with the same shard give every path of the filter
loop; capacity 1 makes every sender block, capacity 2 lets two records stand in a
channel in the wrong order. For `ChunkReader` a buffer of five bytes with lines
of up to nine gives a line that ends with the chunk, is completed in the buffer,
overflows it, and begins at the buffer's start or behind another line. Two files
with two attempts and three failures let one file be given up and the other
retried. Two rotations are a first file, one opened by a rotation and a last one. Two
leases of a KCL shard are an owner and its successor, so that a processor that
has lost its lease pushes and checkpoints beside the one that took over; two
records and batches of one or two let a checkpoint fall inside a batch of the
other. An SQS file of two chunks can be interrupted between them, redelivered
while it is read, and break off after its first. The last page of one Kinesis
shard has records and that of the other has none, the two ways a closed shard
ends. Three records with two DynamoDB keys and batches of two let a key recur in
the batch that is still being written and in the next one. Two runs of SQLite
are one that leaves a database and one that finds it. Two filters in a row are
one that makes two fields share memory and one that writes to it. Two WebSocket
clients may share an id, which is why `maxId` without a lock matters, and a queue
of two holds records in an order and is full before the third. Four records and a cache of two let the cache be
emptied while the other goroutine is between `Load` and `Store`.

*Deadlock.* TLC's deadlock check is on in the topologies, `list_input` and
`sources`, where the legitimate ends are the action `Terminated` (in `sources` the
return of `Run`, a panic or `log.Fatal`, and a TCP input whose peer is mute). It
is off in `list_blocked`, whose subject is a program that hangs, in `records` and
`buffer_cache_once`, whose parts are called a bounded number of times, in
`expand_list` and `datadog_tags` for the same reason, and in `outputs`, whose
parts stop when their input is closed; that none of them stops earlier is
`RunReturns`.

*Fairness.* Weak fairness for each goroutine: the Go scheduler runs every
goroutine that is not blocked. A ticker or a signal need not come, so that
`Interrupt`, `UserStop` and the ticks of `FileWriter` have none (the ticker of
`S3Upload` has, it is a `time.Ticker`, but no property depends on it). Strong
fairness stands where the runtime promises more: a `select` with several ready
cases picks at random, so that a closed channel is not overlooked for ever
(`SeeQuit` in `S3Upload`, the receive in a `FileWriter` worker that also has a
ticker), and goroutines blocked on one channel are served in order (`SendPath`).
In `sources` a request to a remote service is answered, with success or failure,
and a TCP peer does something or is mute from then on; `StopReturns` says that
only such a peer can keep `Run` from returning. In `outputs` a writer of DynamoDB
gets an answer or reaches its deadline, and the flush timer's goroutine and `Run`,
which compete for one mutex, each get it (Go's mutex hands over to a waiter that
starves). Nothing is assumed of the user and of files. In the two sums the
fairness of the parts is written as one condition on a disjunction of steps of
different parts: `part` and `source` never change, so that it is the condition
on the step of the part there is. No liveness is asked of the parts of `records`.

## 4. Findings

1. `list_blocked`: `ProcessFile` sends to the queue of files without watching
   `stopNow` (`compressedstream.go:231`). When `Stop()` makes the workers leave
   while `Run` is walking a directory with more files than the queue holds, `Run`
   never returns and neither does `Wait`, though `topology.go:291` promises a
   stop "as soon as possible". (In the program the queue holds 1024 names.)
2. `chunk_reader_eof`: for a file without a newline behind its last line
   `ReadBytes` returns `io.EOF` and the whole chunk, with complete lines before
   the last one, is dropped (`compressedstream.go:339`).
3. `s3_swallow`: with `ExitOnError` an upload that fails after the walk has seen
   its last file sets `exitErr`, which nobody reads: `Run` goes on.
4. `buffer_cache_once`: `moveToHotCache` (`pkg/buffercache/cache.go:353`) marks a
   key as hot also when `putInHot` had to flush the hot cache and put the buffer
   back in a cold cell. Nothing leads to that cell any more: `Flush` hands it to
   `OnFlush` apart from the newer buffers of its key, twice for one key, though
   `cache.go:40` says once. No buffer is lost (`HandedInRuns`).
5. `expand_list`: the keys of `Fields` are sorted as strings
   (`filter/expand_list.go:81`), so that 10 comes before 2, and `Process` stops at
   the first index that is out of range because "f.listIdx is sorted"
   (`expand_list.go:124`): element 2 of a list of three is not expanded.
6. `datadog_tags`: the client keeps the last value of a counter by name
   (`metrics/datadog/client.go:145`); two sets of tags under one name, as
   `StatsDumper` sends for the filters, subtract each other's value, though
   `client.go:141` associates the value with its tags.

Read in the code, and no run is needed to see them. The models do what the code
does; where that would break a property, the property excepts exactly this case,
and so does not notice it.

* Topology: without sharding all `procs` outputs are started (README.md:366 says one).
* Inputs: a read error in the middle of a file is logged and `Run` returns nil
  (`InputContract` takes what was sent before it as the file). `ParseFile` reports no
  error, so that a file that breaks off is deleted from the SQS queue like a
  complete one (`Readable` in `SQSInput` takes that as given); a message without a
  path panics when a bucket is configured (`sqs.go:183`), and one whose file is not
  gzip is a `log.Fatal`: both stay in the queue for the next process. Behind a last
  page with records the iterator of a closed Kinesis shard is nil and dereferenced
  (`kinesis.go:128`, `Alive` of `KinesisInput`). A failing `AcceptTCP` that is not the
  deadline leaves `conn` nil (`tcp.go:101`), and a peer that stays mute keeps `Run`
  from returning (excepted in `StopReturns`). KCL checkpoints what was pushed to the
  channel, not what was delivered, so that a crash loses what stands in the pipeline.
* `FileWriter`: an error is logged and stays with the file's compressor and buffer, so
  that all its later lines and those still buffered are missing (also when only the
  closing fails, `filewriter.go:278` and `327`) while their records count as written
  and the path is sent; an empty file that cannot be removed stays
  (`filewriter.go:332`; `failed` of `FileWriter`).
* `DynamoDB`: a batch whose deadline passes, or whose last error could be retried,
  counts as written (`dyndb.go:120`: `lost`). A record whose key is in the batch
  already is left out, the older one stays, and no counter sees it (`dyndb.go:318`:
  `skipped`, and `unseen` of `Statistics`): the last line of the statistics has the
  final value of every counter, but these need not add up to the records read.
* `Stats` parses every record into one `LogLine` without `Clear` and without a look at
  the error (`output/stats.go:300`), so that a shorter record reads the fields of a
  longer one before it, one with too many fields reads them in the text of the one
  before, and either may panic (`Misread` and `outpanic` of `StatsOutput`). The last
  timestamp begins at 0 (`output/stats.go:287`): when all are before 1970 it is
  reported as 1970. Both are excepted in `StatisticsAddUp`.
* `WebSocket`: every error of a send but `io.EOF` is ignored and the record gone for
  that peer (`websocket/client.go:124`: `unsent`); two clients may get one id, and the
  second takes the first's place.
* Records: `ToText` does not quote. A separator that `ReplaceFields`, `URLParam`,
  `Hash` or `Concatenate` writes into a field shifts the fields behind it when the
  record is copied by `Copy`, which writes it out and parses it again
  (`logline.go:251`), or, with too many of them, leaves a copy without text, of
  which `Get` panics. `FieldsKeepTheirValues`, `KeptAsDocumented` and `TextRoundTrip`
  except such a copy (`torn` of `FilterChain`), and that what is sent is one line
  with these fields holds when no value has a separator or a line feed in it
  (`Unquoted`). `ToText` of a record with 255 written fields never ends
  (`logline.go:199`).
* Filters: a negative index is accepted by `Slice` (`filter/slice.go:48`) and panics
  with the first record (fate `panic`). `NotNull` lets a record pass whose field a
  filter set to an empty value. The help of `ClauseFilter` says that `(and X)`
  "Matches anything (because only one argument)" (`filter/clausefilter.go:47`), while
  the code makes it X (`clausefilter.go:157`); so does the definition `Holds` that
  `ClauseMeansExpression` compares with, which follows the help in everything else.
* `SplitWriter`: the pattern for the names of parts begins with `\S+`
  (`split_writer.go:274`). For a path with white space `openSplit` looks for part 2
  under a name that has lost what stands before it, does not find it and appends
  to part 1, in front of part 2, though nothing has failed (`fname` of `SplitWriter`);
  `PartsAreTheStream` excepts these paths, and `NoByteLost` does not. After a failure
  or a crash in the middle of a split only `NoByteLost` holds: bytes may be in two
  parts.
* Configuration: it does not refuse an upload that does not exist, a user entry
  without a section, sizes below zero, or a field the program's own `Components`
  name twice (`Unchecked` of `Configuration`). `u:` in the statistics counts the paths
  received.

## 5. Proofs

`DeliveryProofs` proves, for every number of lines, buffers, filter goroutines,
outputs and every capacity, from `TopologyAssumption` alone:

* `TypeCorrect`: `Spec => []TypeOK`; this includes that no channel is filled above its capacity.
* `SafeShutdown`: `Spec => []NoSendOnClosedChannel`.
* `Invariance`: `Spec => []IInv`, on which both rest.

`NoSendOnClosedChannel` is not inductive: nothing in it says that the input may
not run when `inch` is closed *and* `Wait` is past its first WaitGroup. `IInv` is
the conjunction of

* `TypeOK`;
* `Disjoint`: the buffer being filled, those in the pool, on `inch` and with the
  filter goroutines are pairwise different. It is what makes the content of a buffer stable
  while it is parsed, hence
* `Cursor`: a filter goroutine's offset stays inside its buffer, so that
  `CurLine` is a line, and its copy is one of `1..Copies`;
* `InStream`: what is in a buffer are lines of the stream not yet past `produced`;
* `Shutdown`: which channels are closed and which WaitGroups have been passed,
  as a function of the progress of `Wait`.

Each action of `Next` has a lemma for the parts it can disturb.

Its second half proves the delivery properties, again from
`TopologyAssumption` alone, which asks for at least one filter goroutine
(`fillDefaults` replaces 0; nothing in the code refuses a negative number, with
which no goroutine would read `inch` and `Wait` would return with records in it):

* `OneHolder`: `[]BufferHasOneHolder`; `Lossless`: `[]NothingLost`; `Sharding`:
  `[]ShardAffinity`; `FirstInFirstOut`: `[]StreamOrder`;
* `Implementation`: `Spec => ImplementsPipeline`, the step simulation of `Pipeline`:
  a buffer the input sends is `Accept`, a record an output receives `Deliver`, the
  return of the input is `Close`, that of `Wait` `Finish` and a `log.Fatal` `Abort`;
  every other step stutters.

None of them is inductive. `DInv` adds to `IInv` a complete account: every buffer
is in one place (`Somewhere`); a line produced is in one place of one held buffer
(`LinesOnce`); a record of a line produced is still due, on a channel or with an
output, and in one place only (`Accounted`); the counters count the malformed and
invalid lines that are behind the filters (`Counted`); what lies behind a
WaitGroup that has been passed is empty (`Drained`, `Uploaded`); records are on the
way to the output of their shard (`Routed`) and in the order of the stream (`InOrder`,
`SentInOrder`). The lemmas follow these parts, not the actions: each says why one
part survives every step.

`KCLProofs` proves, from `KCLInputAssumption`, for every number of processes,
shards, records, crashes and leases:

* `CheckpointCovered`: `Spec => []NeverSkips`. The checkpoint is written by a
  processor that may have lost its lease long ago, so the induction needs what
  every processor knows: all records up to its position have been pushed by
  somebody (`ConsumerOK`), and its position is the end of its batch whenever it is
  not pushing. Leases do not occur in the argument; that they are exclusive is not
  needed for it.
* `ProcessorsEndFirst`: `Spec => []NoneLeftBehind`, from `Runs`, which ties where a
  processor is to where the `Run` of its process is.

`ListInputProofs`, from `ListInputAssumption` (the producer, the user of `Stop` and
the workers are different):

* `TypeCorrect`: `[]TypeOK`; `StopsCleanly`: `[]CleanStop`. The induction needs who
  is inside `stopOnce` (`ClosedOnce`) and that `Done` is closed behind the last
  worker (`DoneBehindWorkers`).
* `KeepsContract`: `Spec => ImplementsInput`, for configurations that name no file
  twice (`NamedOnce`): a file named twice is read twice, which the contract, whose
  chunks belong to files, does not have. `CInv` says where each file of the
  configuration is (before `Run`, queued, at one worker, or behind it: `OnePlace`),
  what of it was sent (`Progress`), and that without a fatal error all of them are
  behind when `Run` has returned (`NoneForgotten`, `ToTheEnd`).

`OutputsProofs`, about the sum `Outputs`, from the assumptions of its parts:

* `SqliteAtomic`: `[]AllOrNothing` (`SqlInv`: until the commit the file is as the run
  found it, and the transaction holds what was done so far).
* `UploadsFinish`: `[]UploadsEnd` (`S3Inv`: uploads only run during a scan, and the
  scan that begins when `quit` is closed visits all that is staged: `LastScan`).
* `FilesNamedOnce`: `[]FilesAccountedFor`; `EverythingKept`: `[]NothingLost`;
  `HandedOnIsFinal`: `NeverUndone`, an action property. For `FileWriter`, `FileInv`
  orders the lines of a worker by file and channel (`Content`), knows
  which of its files have been named (`Naming`) and that what is in a file is the
  beginning of what it was given, all of it once closed unless it failed (`Kept`). For DynamoDB, `DynInv` says who
  has the batch (`Turns`), that every record dealt with is written, in the batch or
  superseded (`BatchOnce`), and what each region has of it (`RegionHas`).
* `TypeCorrect`: `[]TypeOK`.

`SourcesProofs`, about the sum `Sources`, from the assumptions of its parts:

* `AllSent`: `[]NothingSkipped`; `EndsLast`: `[]NoneLeftBehind`; `TypeCorrect`:
  `[]TypeOK`. `SqsInv` says what a poller knows of its message (`Knows`) and in which
  order `Run` takes the CompressedInput down (`Downfall`); `TcpInv` and `KinInv` count
  the records of a stream in `sent`, so that order becomes a number
  (`InOrder`: the i-th record sent is the n-th of its stream when n of the first i
  are of that stream), against where the goroutine is; the invariants for KCL are
  those of `KCLProofs`, used through an INSTANCE of it.

`RecordsProofs` and `BytesProofs`, about the sum `Records`, from `RecordsAssumption`,
which is the assumptions of its parts:

* `LinesAreWhole`: `[]WholeLines`, for every file, every buffer size and every split
  of the file into reads. `ReaderInv` adds that the reader stands at the start of a
  line whenever it begins a turn, and that the chunks sent cover exactly what lies
  behind it, none of them overlapping (`Chunked`).
* `EveryByteKept`: `[]NoByteLost`. For the reader it is `ReaderInv` again. For the
  split writer, `SplitInv` says what `Close` may rely on at each of its steps: the
  split point lies below `maxsize` and the file above it (`SplitPointFits`), the next
  parts exist before anything is copied to them, and what is about to be cut off or
  removed stands in them. A step that only adds to files loses nothing
  (`NothingLostByGrowing`), and a failure or a crash does at most that. The number
  of failures does not matter, nor do the bytes that a failed split leaves twice.
* `SharedAgreement`: `[]SharedStateAgrees`. `DedupInv` ties the set of keys to the
  records that have been judged, all but those whose worker is still in front of
  `LoadOrStore`; `UrlInv` knows which workers hold the lock of the cache.
* `WholeLoads`: `LoadsAreWhole`, an action property: `LoadInv` keeps the versions
  read so far between those in use and those of the files.
* `ConfigurationUsable`: `[]UsableOrRefused`. `ConfigInv` says that what has been passed
  has been checked and what is still to come has not refused anything, so that the
  order of the early returns does not matter.
* `KnownClients`: `[]KnownWhileConnected`; `OrderedPeers`: `[]PeersInOrder`. `WsInv` bounds
  the ids by the number of clients that have one, whether or not two share one;
  `OrderInv` says that what a peer got and what its queue holds are increasing, one
  behind the other, and miss nothing it wants that the server has sent since but what
  found its queue full (`missed`) or failed (`unsent`).

`CacheProofs`, about `BufferCache` inside `Records`, for every limit, size of a
buffer and length its compression may have:

* `CacheIsAStore`: `Spec => ImplementsStore`. `Put` and `Flush` are one Go call each, with
  all evictions inside it, so the induction is over states while the argument is
  over the operators the call is made of: each has a lemma from a cache `s` to the
  cache `t` it makes of it. Two notions carry them. `Sound` for a set of keys says that
  the map leads each of these keys to where its buffers are and that cells and
  entries hold no other; the set is needed since the location of a key is stale
  while it moves between the tiers. `Keeps` says that of each key what is held and
  what was handed out add up to the same as before, and that nothing handed out is
  taken back. The buffers in the cells come in the order of the Go loop over them,
  which is why the n-th cell (`Nth`) is shown to exist and to be one only.
  `CacheInv` then says of every reachable state: unless the cache has panicked, the map
  is `Sound` for all keys and held and handed out buffers together are those put.
* `WithinLimitsAlways`: `[]CacheWithinLimits`. The count of bytes is compared with a sum
  over all keys, for which the module first shows what the community modules' sum over
  a finite set does: the function it is the value of exists, the order in which the
  elements are taken does not matter, and changing the summand of one element changes the
  sum by the difference. These facts, usually proved by induction over the set, follow here from a
  smallest set for which they fail. `LimitsInv` adds to `CacheInv` that `cap` is the sum (`Fits`)
  and that a location is hot exactly when there is an entry (`Agrees`, again for a set of keys
  while a `Put` is under way). `Keys` has to be finite for it, which `ConfigAssumption` now says.
  The attempt found that two cases of `PutInHot` overlapped in the model, so that
  TLA+ left open which is meant where Go takes the first; their guards are now disjoint.
* `HandedInRunsAlways`: `[]HandedInRuns`. `HandedInv` adds two facts to `LimitsInv`. No buffer of a
  key is at two places (`Orderly`): in a call, in the entry or in a cell, nor twice in one of them,
  and entries are runs of consecutive buffers. And the newest buffer of a key is where `Put` will
  look for it (`Ends`): at the end of its entry, or in the cell its location leads to; the operators
  that evict other keys spare it or hand it out and take the key off the map. So the
  next buffer joins a run or begins one. After a panic `Ends` is lost and nothing is put any more, which
  is all the invariant then needs. That the concatenation of the calls is as long as the set
  of what they hand out (`FlattenedCount`) is again shown with a smallest counterexample.
* `PartsAlways`: `[]PartsAreTheStream`, for any sizes of files, parts, writes and copies, and a path without
  white space. `PartsInv`
  adds to `SplitInv` that, while nothing has failed, the stream is in file 0 or divided (`Laid`):
  there are numbers `c` such that part `n` has the bytes behind `c[n - 1]` up to `c[n]`, each `c[n]`
  but the last is a line feed, and no part but the last is above `maxsize`. What `Close` has copied
  into the next parts counts only when `Conclude` cuts the file, one step that adds a number to
  `c`; before, the copies are pinned down as pieces of the open file. That the last part has no line
  feed to split at comes from `findSplitPoint`: its windows cover the first `maxsize` bytes
  (`WindowsCover`), so 0 means that there is none. `Concat` is a recursive function, whose value
  is known only once a function that satisfies its equation is shown: the stretches from 0 to each
  `c[n]` do (`ConcatIs`), and it equals them by a smallest index for which it would not.

*Model-checked only.* The liveness properties `WaitReturns`, `StopReturns` and
`RunReturns`, since the prover does not deal with fairness. What folds and
recursive functions compute, where no smallest counterexample helped:
`StatisticsAddUp` (sums), `FieldsKeepTheirValues`, `KeptAsDocumented` and
`TextRoundTrip` (parsing) and `ClauseMeansExpression`. And `TypeOK` of `Records`,
which has parts whose types are those sums and sequences.

## 6. Plan

Modelled so far: all inputs, all outputs but the two that only count, the upload,
the record and its filters, the packages, statistics and configuration. What is
left, in this order:

1. The types of `Records`, part by part.
2. The path pattern of `FileWriter` and the parts of `LogLine` left out (metadata,
   cache).

## 7. Not modelled

Text (help, command line, decoding of TOML, environment variables, the formats of
records, reports and metrics), decompression, the contents of objects and
requests, SQL, the fast gzip reader (an external process), the metadata and the
cache of a record, `ExpandJSON` (the paths of a JSON library), the filters that
only count or copy one value (`CountAndTag`, `SetStringFromURL`,
`MetadataLastModified`), the timings of `MetricsBag`, the UDP
client of Datadog, the Nop and op-log outputs, examples and test helpers. The
scratch buffers of `BufferCache`'s compressor are left out with lz4 itself: its
loop gives up without a last attempt (`compressor.go:49`), which needs more than a
megabyte that does not shrink.
