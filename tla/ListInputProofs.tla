-------------------------- MODULE ListInputProofs --------------------------
(***************************************************************************)
(* The List input for any number of files, entries and workers: it stops   *)
(* cleanly whoever raises the stop flag, and it keeps the contract of an   *)
(* input (InputContract).                                                  *)
(*                                                                         *)
(* CleanStop is not inductive: that stopNow is still open when stopOnce    *)
(* gets to closing it, and that the workers have exited when Run returns,  *)
(* is known from where stopOnce is and from ci.Done being closed (IInv).   *)
(* The contract needs to know where every file is: not yet come across, in *)
(* the queue, at one worker that has sent so much of it, or done with; and *)
(* that a file is only forgotten on the way to a fatal error (CInv).       *)
(***************************************************************************)
EXTENDS ListInput, SequenceTheorems, TLAPS

\* stopNow is closed by the one caller that stopOnce lets through.
ClosedOnce ==
    /\ stopNow <=> oncepc \in {"flag", "done"}
    /\ oncepc # "idle" => fatalErr
    /\ died # "panic"

\* ci.Done is closed behind the last worker, and Run waits for it.
DoneBehindWorkers ==
    /\ doneClosed => \A w \in Workers : wpc[w] = "exited"
    /\ ppc = "returned" => doneClosed

\* The positions of Run and of the workers are those of files they hold.
AtFiles ==
    /\ ppc \in {"item", "enqueue", "fatal", "check"} => ent <= Len(entries)
    /\ ppc = "enqueue" => item <= Len(entries[ent].files)
    /\ \A w \in Workers : wpc[w] \in {"open", "read", "send"} => wfile[w] \in Files

IInv == TypeOK /\ ClosedOnce /\ DoneBehindWorkers /\ AtFiles

---------------------------------------------------------------------------
LEMMA EntryType ==
    ASSUME TypeOK, ent <= Len(entries)
    PROVE  /\ entries \in Seq([kind : Kinds, files : Seq(Files)])
           /\ Kind \in Kinds /\ Items \in Seq(Files)
           /\ Len(entries) \in Nat /\ Len(Items) \in Nat
<1>1. entries \in Seq([kind : Kinds, files : Seq(Files)])
  BY ListInputAssumption DEF TypeOK
<1>2. ent \in 1..Len(entries)
  BY <1>1 DEF TypeOK
<1>3. entries[ent] \in [kind : Kinds, files : Seq(Files)]
  BY <1>1, <1>2, ElementOfSeq, Zenon
<1>4. entries[ent].kind \in Kinds /\ entries[ent].files \in Seq(Files)
  BY <1>3
<1>5. Kind \in Kinds /\ Items \in Seq(Files)
  BY <1>4 DEF Kind, Items
<1>6. Len(entries) \in Nat /\ Len(Items) \in Nat
  BY <1>1, <1>5
<1> QED BY <1>1, <1>5, <1>6

LEMMA InitInvariant == ASSUME Init PROVE IInv
<1>1. entries \in Seq([kind : Kinds, files : Seq(Files)])
  BY ListInputAssumption DEF Init
<1>2. Len(entries) \in Nat /\ (entries # <<>> => Len(entries) >= 1)
  BY <1>1
<1>3. <<>> \in Seq(Files) /\ <<>> \in Seq(Files \X Nat) /\ Len(<<>>) = 0
  OBVIOUS
<1>4. TypeOK
  <2>1. /\ ppc \in {"item", "close"} /\ ent \in 1..(Len(entries) + 1) /\ item \in Nat \ {0}
    BY <1>2 DEF Init
  <2>2. /\ files \in Seq(Files) /\ Len(files) <= QueueCap
        /\ inch \in 0..InCap /\ sent \in Seq(Files \X Nat)
    BY <1>3, ListInputAssumption DEF Init
  <2>3. /\ wpc \in [Workers -> {"select", "open", "read", "send", "fatal", "exited"}]
        /\ wfile \in [Workers -> Files \cup {None}] /\ wchunk \in [Workers -> Nat]
    BY DEF Init
  <2> QED BY <2>1, <2>2, <2>3 DEF Init, TypeOK
<1> QED BY <1>2, <1>4 DEF Init, IInv, ClosedOnce, DoneBehindWorkers, AtFiles

\* Run: it enqueues files and waits for the workers.
LEMMA ProducerInvariant == ASSUME IInv, ProducerStep PROVE IInv'
<1> USE DEF world, prodvars, stopvars, workvars
<1>1. CASE NextFile
  <2>1. ent <= Len(entries) /\ item \in 1..Len(Items) /\ ppc = "item"
    BY <1>1, EntryType DEF NextFile, IInv, TypeOK, AtFiles
  <2>2. TypeOK'
    BY <1>1, <2>1 DEF NextFile, IInv, TypeOK
  <2> QED BY <1>1, <2>1, <2>2 DEF NextFile, IInv, ClosedOnce, DoneBehindWorkers, AtFiles, Items
<1>2. CASE BadList
  <2>1. TypeOK'
    BY <1>2 DEF BadList, IInv, TypeOK
  <2> QED BY <1>2, <2>1 DEF BadList, IInv, ClosedOnce, DoneBehindWorkers, AtFiles
<1>3. CASE EndOfEntry
  <2>1. TypeOK'
    BY <1>3 DEF EndOfEntry, IInv, TypeOK
  <2> QED BY <1>3, <2>1 DEF EndOfEntry, IInv, ClosedOnce, DoneBehindWorkers, AtFiles
<1>4. CASE Enqueue
  <2>1. ent <= Len(entries) /\ item <= Len(Items)
    BY <1>4 DEF Enqueue, IInv, AtFiles, Items
  <2>2. item \in 1..Len(Items) /\ Items[item] \in Files
    BY <2>1, EntryType DEF IInv, TypeOK
  <2>3. /\ files' \in Seq(Files) /\ Len(files') = Len(files) + 1 /\ Len(files) \in Nat
    BY <1>4, <2>2 DEF Enqueue, IInv, TypeOK
  <2>4. TypeOK'
    BY <1>4, <2>3, ListInputAssumption DEF Enqueue, IInv, TypeOK
  <2> QED BY <1>4, <2>4 DEF Enqueue, IInv, ClosedOnce, DoneBehindWorkers, AtFiles
<1>5. CASE CheckFatal
  <2>1. ent \in 1..Len(entries) /\ Len(entries) \in Nat
    BY <1>5, EntryType DEF CheckFatal, IInv, TypeOK, AtFiles
  <2>2. TypeOK'
    BY <1>5, <2>1 DEF CheckFatal, IInv, TypeOK
  <2> QED BY <1>5, <2>1, <2>2 DEF CheckFatal, IInv, ClosedOnce, DoneBehindWorkers, AtFiles
<1>6. CASE NoMoreFiles
  <2>1. TypeOK'
    BY <1>6 DEF NoMoreFiles, IInv, TypeOK
  <2> QED BY <1>6, <2>1 DEF NoMoreFiles, IInv, ClosedOnce, DoneBehindWorkers, AtFiles
<1>7. CASE RunReturn
  <2>1. TypeOK'
    BY <1>7 DEF RunReturn, IInv, TypeOK
  <2> QED BY <1>7, <2>1 DEF RunReturn, IInv, ClosedOnce, DoneBehindWorkers, AtFiles
<1> QED BY <1>1, <1>2, <1>3, <1>4, <1>5, <1>6, <1>7 DEF ProducerStep

\* setFatalErr: stopOnce lets one caller through, the others wait for it.
LEMMA StopInvariant ==
    ASSUME IInv, UserStop \/ StopStep \/ \E a \in Actors : FatalStep(a)
    PROVE  IInv'
<1> USE DEF world, prodvars, stopvars, workvars
<1>1. CASE UserStop
  <2>1. TypeOK'
    BY <1>1 DEF UserStop, IInv, TypeOK
  <2> QED BY <1>1, <2>1 DEF UserStop, IInv, ClosedOnce, DoneBehindWorkers, AtFiles
<1>2. CASE CloseStopNow
  <2>1. TypeOK'
    BY <1>2 DEF CloseStopNow, IInv, TypeOK
  <2> QED BY <1>2, <2>1 DEF CloseStopNow, IInv, ClosedOnce, DoneBehindWorkers, AtFiles
<1>3. CASE SetStopping
  <2>1. TypeOK'
    BY <1>3 DEF SetStopping, IInv, TypeOK
  <2> QED BY <1>3, <2>1 DEF SetStopping, IInv, ClosedOnce, DoneBehindWorkers, AtFiles
<1>4. ASSUME NEW a \in Actors, StoreErr(a) PROVE IInv'
  <2>1. TypeOK'
    BY <1>4 DEF StoreErr, IInv, TypeOK
  <2> QED BY <1>4, <2>1 DEF StoreErr, IInv, ClosedOnce, DoneBehindWorkers, AtFiles
<1>5. ASSUME NEW a \in Actors, ReturnFatal(a) PROVE IInv'
  <2>1. a = Producer => ppc = "fatal"
    BY <1>5, ListInputAssumption DEF ReturnFatal, InFatal
  <2>2. \A w \in Workers : a = w => wpc[w] = "fatal"
    BY <1>5, ListInputAssumption DEF ReturnFatal, InFatal
  <2>3. TypeOK'
    BY <1>5 DEF ReturnFatal, LeaveFatal, IInv, TypeOK
  <2>4. DoneBehindWorkers'
    <3>1. doneClosed => \A w \in Workers : a # w
      BY <2>2 DEF IInv, DoneBehindWorkers
    <3> QED BY <1>5, <2>1, <3>1 DEF ReturnFatal, LeaveFatal, IInv, DoneBehindWorkers
  <2>5. AtFiles'
    BY <1>5, <2>1 DEF ReturnFatal, LeaveFatal, IInv, AtFiles
  <2> QED BY <1>5, <2>3, <2>4, <2>5 DEF ReturnFatal, IInv, ClosedOnce
<1> QED BY <1>1, <1>2, <1>3, <1>4, <1>5 DEF StopStep, FatalStep

\* A worker that has exited does nothing any more.
LEMMA WorkerInvariant == ASSUME IInv, NEW w \in Workers, WorkerStep(w) PROVE IInv'
<1> USE DEF world, prodvars, stopvars, workvars
<1>1. wpc[w] # "exited" /\ ~doneClosed
  BY DEF WorkerStep, TakeFile, SeeClosed, SeeStop, Open, Read, Send, IInv, DoneBehindWorkers
<1>2. UNCHANGED <<world, prodvars, upc, stopvars, doneClosed>>
  BY DEF WorkerStep, TakeFile, SeeClosed, SeeStop, Open, Read, Send
<1>3. died' \in {"no", "fatal", "panic"} /\ died' # "panic"
  BY DEF WorkerStep, TakeFile, SeeClosed, SeeStop, Open, Read, Send, IInv, TypeOK, ClosedOnce
<1>4. ClosedOnce' /\ DoneBehindWorkers'
  BY <1>1, <1>2, <1>3 DEF IInv, ClosedOnce, DoneBehindWorkers
<1>5. ASSUME /\ wpc' \in [Workers -> {"select", "open", "read", "send", "fatal", "exited"}]
             /\ wfile' \in [Workers -> Files \cup {None}] /\ wchunk' \in [Workers -> Nat]
             /\ files' \in Seq(Files) /\ Len(files') <= QueueCap
             /\ inch' \in 0..InCap /\ sent' \in Seq(Files \X Nat)
             /\ \A v \in Workers : wpc'[v] \in {"open", "read", "send"} => wfile'[v] \in Files
      PROVE  IInv'
  <2>1. TypeOK'
    BY <1>2, <1>3, <1>5 DEF IInv, TypeOK
  <2>2. AtFiles'
    BY <1>2, <1>5 DEF IInv, AtFiles
  <2> QED BY <1>4, <2>1, <2>2 DEF IInv
<1>6. CASE TakeFile(w)
  <2>1. /\ Head(files) \in Files /\ Tail(files) \in Seq(Files)
        /\ Len(Tail(files)) = Len(files) - 1 /\ Len(files) \in Nat
    BY <1>6 DEF TakeFile, IInv, TypeOK
  <2> QED BY <1>5, <1>6, <2>1, ListInputAssumption DEF TakeFile, IInv, TypeOK, AtFiles
<1>7. CASE SeeClosed(w) \/ SeeStop(w)
  BY <1>5, <1>7 DEF SeeClosed, SeeStop, IInv, TypeOK, AtFiles
<1>8. CASE Open(w) \/ Read(w)
  <2>1. /\ wfile' = wfile /\ wpc[w] \in {"open", "read"}
        /\ UNCHANGED <<files, inch, sent>>
    BY <1>8 DEF Open, Read
  <2>2. \E c \in {"select", "read", "send", "fatal"} : wpc' = [wpc EXCEPT ![w] = c]
    BY <1>8 DEF Open, Read
  <2>3. wchunk' \in [Workers -> Nat]
    BY <1>8 DEF Open, Read, IInv, TypeOK
  <2>4. wfile[w] \in Files
    BY <2>1 DEF IInv, AtFiles
  <2>5. wpc' \in [Workers -> {"select", "open", "read", "send", "fatal", "exited"}]
    BY <2>2 DEF IInv, TypeOK
  <2>6. \A v \in Workers : wpc'[v] \in {"open", "read", "send"} => wfile'[v] \in Files
    BY <2>1, <2>2, <2>4 DEF IInv, TypeOK, AtFiles
  <2> QED BY <1>5, <2>1, <2>3, <2>5, <2>6 DEF IInv, TypeOK
<1>9. CASE Send(w)
  <2>1. wfile[w] \in Files /\ wchunk[w] \in Nat
    BY <1>9 DEF Send, IInv, AtFiles, TypeOK
  <2>2. sent' \in Seq(Files \X Nat)
    BY <1>9, <2>1 DEF Send, IInv, TypeOK
  <2>3. inch' \in 0..InCap
    BY <1>9, ListInputAssumption DEF Send, IInv, TypeOK
  <2> QED BY <1>5, <1>9, <2>2, <2>3 DEF Send, IInv, TypeOK, AtFiles
<1> QED BY <1>6, <1>7, <1>8, <1>9 DEF WorkerStep

LEMMA NextInvariant == ASSUME IInv, [Next]_vars PROVE IInv'
<1> USE DEF world, prodvars, stopvars, workvars
<1>1. CASE CloseDone
  <2>1. TypeOK'
    BY <1>1 DEF CloseDone, IInv, TypeOK
  <2> QED BY <1>1, <2>1 DEF CloseDone, IInv, ClosedOnce, DoneBehindWorkers, AtFiles
<1>2. CASE Drain
  <2>1. inch' \in 0..InCap
    BY <1>2, ListInputAssumption DEF Drain, IInv, TypeOK
  <2>2. TypeOK'
    BY <1>2, <2>1 DEF Drain, IInv, TypeOK
  <2> QED BY <1>2, <2>2 DEF Drain, IInv, ClosedOnce, DoneBehindWorkers, AtFiles
<1>3. CASE UNCHANGED vars
  BY <1>3 DEF vars, IInv, TypeOK, ClosedOnce, DoneBehindWorkers, AtFiles
<1> QED BY <1>1, <1>2, <1>3, ProducerInvariant, StopInvariant, WorkerInvariant
        DEF Next, Step, Terminated

---------------------------------------------------------------------------
\* Every reachable state knows where stopOnce and the workers are.
THEOREM Invariance == Spec => []IInv
BY InitInvariant, NextInvariant, PTL DEF Spec

\* The queue and the channel keep to their capacities; whatever a worker
\* opens, reads or sends is a file of the configuration.
THEOREM TypeCorrect == Spec => []TypeOK
<1>1. IInv => TypeOK
  BY DEF IInv
<1> QED BY <1>1, Invariance, PTL

\* Stop(), bad lists and files that fail in several workers at once close
\* stopNow once, and no worker is left behind when Run returns.
THEOREM StopsCleanly == Spec => []CleanStop
<1>1. IInv => CleanStop
  BY DEF IInv, ClosedOnce, DoneBehindWorkers, CleanStop, NoDoubleClose, NoWorkerLeftBehind
<1> QED BY <1>1, Invariance, PTL
---------------------------------------------------------------------------
(* The contract: where each file of the configuration is, and how far it   *)
(* has been sent.                                                          *)

\* No file is named twice: one that is would be read, and sent, twice.
NamedOnce ==
    \A c \in Configs : \A i, m \in 1..Len(c) :
        \A j \in 1..Len(c[i].files), n \in 1..Len(c[m].files) :
            c[i].files[j] = c[m].files[n] => i = m /\ j = n

Queued(f) == \E i \in 1..Len(files) : files[i] = f
Reading(w) == wpc[w] \in {"read", "send"}
Active(w) == wpc[w] = "open" \/ Reading(w)
Sent(f, k) == \E i \in 1..Len(sent) : sent[i] = <<f, k>>

\* Run has come across the file: it is before the current item.
At(i, j, f) == i \in 1..Len(entries) /\ j \in 1..Len(entries[i].files) /\ entries[i].files[j] = f
Passed(f) == \E i, j \in Nat : At(i, j, f) /\ (i < ent \/ (i = ent /\ j < item))

LastReadable(f) == IF health[f] = "corrupt" THEN Chunks[f] - 1 ELSE Chunks[f]
Complete(f) == \A k \in 1..LastReadable(f) : Sent(f, k)

\* A file is in the queue or at one worker, once.
OnePlace ==
    /\ \A i, j \in 1..Len(files) : files[i] = files[j] => i = j
    /\ \A i \in 1..Len(files), w \in Workers : Active(w) => files[i] # wfile[w]
    /\ \A v, w \in Workers : Active(v) /\ Active(w) /\ wfile[v] = wfile[w] => v = w
    /\ \A i \in 1..Len(files) : Passed(files[i])
    /\ \A w \in Workers : Active(w) => Passed(wfile[w])

\* What was sent of a file is what lies before its reader.
Progress ==
    /\ \A i \in 1..Len(files), k \in Nat : ~Sent(files[i], k)
    /\ \A w \in Workers, k \in Nat : wpc[w] = "open" => ~Sent(wfile[w], k)
    /\ \A w \in Workers : Reading(w) =>
          /\ wchunk[w] \in 1..Chunks[wfile[w]]
          /\ \A k \in Nat : Sent(wfile[w], k) <=> k \in 1..(wchunk[w] - 1)
    /\ \A w \in Workers : wpc[w] = "send" => wchunk[w] <= LastReadable(wfile[w])
    /\ \A f \in Files, k \in Nat : Sent(f, k) => Passed(f) /\ k \in 1..LastReadable(f)

\* A fatal error is stored, or about to be.
Troubled == fatalErr \/ ppc = "fatal" \/ \E w \in Workers : wpc[w] = "fatal"

NoneForgotten == Troubled \/ \A f \in Files :
    Passed(f) => Queued(f) \/ Complete(f) \/ \E w \in Workers : Active(w) /\ wfile[w] = f

\* Without a fatal error Run comes to the end of the list, and so do the workers.
ToTheEnd ==
    /\ stopping => fatalErr
    /\ filesClosed => ppc \in {"wait", "returned"}
    /\ \A w \in Workers : wpc[w] = "exited" => fatalErr \/ (filesClosed /\ files = <<>>)
    /\ ppc = "check" => fatalErr \/ item > Len(Items)
    /\ ppc \in {"close", "wait", "returned"} => fatalErr \/ \A f \in EntryFiles : Passed(f)

CInv == IInv /\ OnePlace /\ Progress /\ NoneForgotten /\ ToTheEnd

LEMMA EntryFacts ==
    ASSUME TypeOK
    PROVE  /\ Len(entries) \in Nat
           /\ \A i \in 1..Len(entries) : /\ entries[i].files \in Seq(Files)
                                         /\ Len(entries[i].files) \in Nat
<1>1. entries \in Seq([kind : Kinds, files : Seq(Files)])
  BY ListInputAssumption DEF TypeOK
<1>2. ASSUME NEW i \in 1..Len(entries)
      PROVE  entries[i].files \in Seq(Files) /\ Len(entries[i].files) \in Nat
  <2>1. entries[i] \in [kind : Kinds, files : Seq(Files)]
    BY <1>1, <1>2, ElementOfSeq, Zenon
  <2>2. entries[i].files \in Seq(Files)
    BY <2>1
  <2> QED BY <2>2
<1> QED BY <1>1, <1>2

\* What the contract calls readable.
LEMMA ReadableFacts ==
    ASSUME TypeOK
    PROVE  /\ \A f \in Files : f \in EntryFiles <=> \E i, j \in Nat : At(i, j, f)
           /\ \A f \in Files, k \in Nat :
                <<f, k>> \in ReadableChunks <=> f \in EntryFiles /\ k \in 1..LastReadable(f)
           /\ \A c \in ReadableChunks : \E f \in EntryFiles : \E k \in 1..LastReadable(f) : c = <<f, k>>
<1>1. ASSUME NEW f \in Files
      PROVE  f \in EntryFiles <=> \E i, j \in Nat : At(i, j, f)
  <2>1. DOMAIN entries = 1..Len(entries)
    BY ListInputAssumption DEF TypeOK
  <2>2. \A i \in 1..Len(entries) : DOMAIN entries[i].files = 1..Len(entries[i].files)
    BY EntryFacts
  <2>3. \A i \in 1..Len(entries) : i \in Nat /\ \A j \in 1..Len(entries[i].files) : j \in Nat
    OBVIOUS
  <2> QED BY <2>1, <2>2, <2>3 DEF EntryFiles, At
<1>2. ReadableChunks = UNION {{f} \X (1..LastReadable(f)) : f \in EntryFiles}
  BY DEF ReadableChunks, LastReadable
<1> QED BY <1>1, <1>2

LEMMA PassedFiles ==
    ASSUME TypeOK, NEW f \in Files, Passed(f)
    PROVE  f \in EntryFiles
BY ReadableFacts DEF Passed

LEMMA PassedSame ==
    ASSUME UNCHANGED <<entries, ent, item>>, NEW f PROVE Passed(f)' <=> Passed(f)
BY DEF Passed, At

LEMMA PassedItem ==
    ASSUME TypeOK, UNCHANGED <<entries, ent>>, item' = item + 1, NEW f
    PROVE  Passed(f)' <=> Passed(f) \/ At(ent, item, f)
<1>1. ent \in Nat /\ item \in Nat
  BY EntryFacts DEF TypeOK
<1>2. \A i, j \in Nat : (i < ent' \/ (i = ent' /\ j < item'))
                        <=> (i < ent \/ (i = ent /\ j < item)) \/ (i = ent /\ j = item)
  BY <1>1
<1>3. \A i, j \in Nat : At(i, j, f)' <=> At(i, j, f)
  BY DEF At
<1> QED BY <1>1, <1>2, <1>3 DEF Passed

LEMMA PassedEntry ==
    ASSUME TypeOK, UNCHANGED entries, ent <= Len(entries), ent' = ent + 1, item' = 1, NEW f
    PROVE  /\ Passed(f) => Passed(f)'
           /\ item > Len(Items) /\ Passed(f)' => Passed(f)
<1>1. ent \in 1..Len(entries) /\ ent \in Nat /\ item \in Nat /\ Len(Items) \in Nat
  BY EntryFacts DEF TypeOK, Items
<1>2. \A i, j \in Nat : i < ent' \/ (i = ent' /\ j < item') <=> i <= ent \/ (i = ent + 1 /\ j = 0)
  BY <1>1
<1>3. \A i, j \in Nat : At(i, j, f)' <=> At(i, j, f)
  BY DEF At
<1>4. \A i, j \in Nat : At(i, j, f) => j # 0 /\ (i = ent => j <= Len(Items))
  BY <1>1 DEF At, Items
<1>5. \A i, j \in Nat : At(i, j, f) /\ item > Len(Items) /\ i <= ent
                        => i < ent \/ (i = ent /\ j < item)
  BY <1>1, <1>4
<1> QED BY <1>1, <1>2, <1>3, <1>4, <1>5 DEF Passed

\* Steps in which no file changes its place.
LEMMA SamePlaces ==
    ASSUME IInv, OnePlace, Progress, UNCHANGED <<world, files, wfile, wchunk, sent>>,
           \A w \in Workers : \/ wpc'[w] = wpc[w]
                              \/ wpc'[w] \in {"select", "fatal", "exited"},
           \A f \in Files : Passed(f) => Passed(f)'
    PROVE  OnePlace' /\ Progress'
<1>1. /\ \A w \in Workers : (Active(w)' => Active(w)) /\ (Reading(w)' => Reading(w))
      /\ \A w \in Workers : wpc'[w] = "open" => wpc[w] = "open"
      /\ \A w \in Workers : wpc'[w] = "send" => wpc[w] = "send"
  BY DEF Active, Reading
<1>2. \A f, k : Sent(f, k)' <=> Sent(f, k)
  BY DEF Sent
<1>3. \A w \in Workers : Active(w) => wfile[w] \in Files
  BY DEF Active, Reading, IInv, AtFiles
<1>4. \A i \in 1..Len(files) : files[i] \in Files
  BY DEF IInv, TypeOK
<1>5. \A f : LastReadable(f)' = LastReadable(f)
  BY DEF LastReadable, world
<1>6. OnePlace'
  BY <1>1, <1>3, <1>4 DEF OnePlace
<1>7. Progress'
  BY <1>1, <1>2, <1>5 DEF Progress
<1> QED BY <1>6, <1>7

\* Steps in which no file leaves its place.
LEMMA NoneLeaves ==
    ASSUME IInv, NoneForgotten, UNCHANGED <<world, files, wfile, sent>>,
           Troubled => Troubled',
           Troubled' \/ \A f \in Files : Passed(f)' => Passed(f),
           Troubled' \/ \A w \in Workers : Active(w) => Active(w)'
    PROVE  NoneForgotten'
<1>1. \A f, k : Sent(f, k)' <=> Sent(f, k)
  BY DEF Sent
<1>2. \A f : (Complete(f)' <=> Complete(f)) /\ (Queued(f)' <=> Queued(f))
  BY <1>1 DEF Complete, LastReadable, Queued, world
<1> QED BY <1>2 DEF NoneForgotten

\* The file Run enqueues is one it has not come across before.
LEMMA CurrentItem ==
    ASSUME NamedOnce, TypeOK, ent <= Len(entries), item <= Len(Items)
    PROVE  /\ At(ent, item, Items[item]) /\ Items[item] \in Files
           /\ ~Passed(Items[item])
           /\ \A f : At(ent, item, f) => f = Items[item]
<1>1. /\ ent \in 1..Len(entries) /\ ent \in Nat /\ item \in 1..Len(Items) /\ item \in Nat
      /\ Items \in Seq(Files) /\ Len(Items) \in Nat
  BY EntryFacts DEF TypeOK, Items
<1>2. At(ent, item, Items[item]) /\ Items[item] \in Files
  BY <1>1 DEF At, Items
<1>3. ASSUME NEW i \in Nat, NEW j \in Nat, At(i, j, Items[item]) PROVE i = ent /\ j = item
  BY <1>1, <1>3 DEF NamedOnce, At, Items, TypeOK
<1> QED BY <1>1, <1>2, <1>3 DEF Passed, At, Items

LEMMA ProducerPlaces == ASSUME NamedOnce, CInv, ProducerStep PROVE CInv'
<1> USE DEF world, prodvars, stopvars, workvars
<1>1. IInv'
  BY ProducerInvariant DEF CInv
<1>2. /\ UNCHANGED <<world, wpc, wfile, wchunk, sent, fatalErr, stopping, doneClosed>>
      /\ \A w \in Workers : Active(w)' <=> Active(w)
      /\ EntryFiles' = EntryFiles
  BY DEF ProducerStep, NextFile, BadList, EndOfEntry, Enqueue, CheckFatal, NoMoreFiles,
         RunReturn, Active, Reading, EntryFiles
<1>3. ppc # "fatal" /\ (Troubled => Troubled')
  BY DEF ProducerStep, NextFile, BadList, EndOfEntry, Enqueue, CheckFatal, NoMoreFiles,
         RunReturn, Troubled
<1>4. doneClosed /\ ~filesClosed => fatalErr
  BY ListInputAssumption DEF CInv, IInv, DoneBehindWorkers, ToTheEnd
<1>5. /\ filesClosed => ppc \in {"wait", "returned"}
      /\ ppc \in {"item", "enqueue", "check"} => ent <= Len(entries)
  BY DEF CInv, IInv, AtFiles, ToTheEnd
<1>6. ASSUME UNCHANGED files, \A f \in Files : Passed(f) => Passed(f)',
             Troubled' \/ \A f \in Files : Passed(f)' => Passed(f)
      PROVE  OnePlace' /\ Progress' /\ NoneForgotten'
  BY <1>2, <1>3, <1>6, SamePlaces, NoneLeaves DEF CInv
<1>7. ASSUME UNCHANGED files, ppc' \in {"item", "enqueue", "fatal"}, ~filesClosed, ~filesClosed'
      PROVE  ToTheEnd'
  BY <1>2, <1>7 DEF CInv, ToTheEnd
<1>8. ASSUME UNCHANGED <<ent, item>> PROVE \A f : Passed(f)' <=> Passed(f)
  BY <1>2, <1>8, PassedSame
<1>9. CASE NextFile
  <2>1. \A f : Passed(f) => Passed(f)'
    BY <1>2, <1>8, <1>9, PassedItem DEF NextFile, CInv, IInv
  <2>2. Troubled' \/ \A f : Passed(f)' => Passed(f)
    BY <1>2, <1>8, <1>9 DEF NextFile, Troubled
  <2>3. ToTheEnd'
    BY <1>5, <1>7, <1>9 DEF NextFile
  <2> QED BY <1>1, <1>6, <1>9, <2>1, <2>2, <2>3 DEF NextFile, CInv
<1>10. CASE BadList
  <2>1. \A f : Passed(f) => Passed(f)'
    BY <1>2, <1>10, PassedItem DEF BadList, CInv, IInv
  <2>2. Troubled'
    BY <1>10 DEF BadList, Troubled
  <2>3. ToTheEnd'
    BY <1>5, <1>7, <1>10 DEF BadList
  <2> QED BY <1>1, <1>6, <1>10, <2>1, <2>2, <2>3 DEF BadList, CInv
<1>11. CASE EndOfEntry
  <2>1. fatalErr \/ item > Len(Items)
    <3>1. Len(Items) \in Nat /\ item \in Nat
      BY <1>5, <1>11, EntryType DEF EndOfEntry, CInv, IInv, TypeOK
    <3> QED BY <1>4, <1>5, <1>11, <3>1 DEF EndOfEntry
  <2>2. ToTheEnd'
    BY <1>2, <1>5, <1>11, <2>1 DEF EndOfEntry, CInv, ToTheEnd, Items
  <2> QED BY <1>1, <1>6, <1>8, <1>11, <2>2 DEF EndOfEntry, CInv
<1>12. CASE CheckFatal
  <2>1. fatalErr \/ item > Len(Items)
    BY <1>12 DEF CheckFatal, CInv, ToTheEnd
  <2>2. CASE fatalErr \/ ent = Len(entries)
    <3>1. ASSUME ~fatalErr, NEW f \in EntryFiles PROVE Passed(f)
      <4>1. PICK i, j \in Nat : At(i, j, f)
        BY ReadableFacts DEF CInv, IInv, EntryFiles
      <4>2. Len(entries) \in Nat /\ Len(Items) \in Nat /\ item \in Nat
        BY <1>5, <1>12, EntryType DEF CheckFatal, CInv, IInv, TypeOK
      <4>3. i < ent \/ (i = ent /\ j <= Len(Items))
        BY <2>2, <3>1, <4>1, <4>2 DEF At, Items
      <4>4. i < ent \/ (i = ent /\ j < item)
        BY <2>1, <3>1, <4>2, <4>3
      <4> QED BY <4>1, <4>4 DEF Passed
    <3>2. ToTheEnd'
      BY <1>2, <1>5, <1>8, <1>12, <2>2, <3>1 DEF CheckFatal, CInv, ToTheEnd
    <3> QED BY <1>1, <1>6, <1>8, <1>12, <2>2, <3>2 DEF CheckFatal, CInv
  <2>3. CASE ~(fatalErr \/ ent = Len(entries))
    <3>1. ent' = ent + 1 /\ item' = 1 /\ ppc' = "item" /\ UNCHANGED <<files, filesClosed>>
      BY <1>12, <2>3 DEF CheckFatal
    <3>2. \A f : Passed(f)' <=> Passed(f)
      BY <1>2, <1>5, <1>12, <2>1, <2>3, <3>1, PassedEntry DEF CheckFatal, CInv, IInv
    <3>3. ToTheEnd'
      BY <1>5, <1>7, <1>12, <3>1 DEF CheckFatal
    <3> QED BY <1>1, <1>6, <3>1, <3>2, <3>3 DEF CInv
  <2> QED BY <2>2, <2>3
<1>13. CASE NoMoreFiles
  <2>1. ToTheEnd'
    BY <1>2, <1>8, <1>13 DEF NoMoreFiles, CInv, ToTheEnd
  <2> QED BY <1>1, <1>6, <1>8, <1>13, <2>1 DEF NoMoreFiles, CInv
<1>14. CASE RunReturn
  <2>1. ToTheEnd'
    BY <1>2, <1>8, <1>14 DEF RunReturn, CInv, ToTheEnd
  <2> QED BY <1>1, <1>6, <1>8, <1>14, <2>1 DEF RunReturn, CInv
<1>15. CASE Enqueue
  <2> DEFINE g == Items[item]
  <2>1. ent <= Len(entries) /\ item <= Len(Items)
    BY <1>15 DEF Enqueue, CInv, IInv, AtFiles, Items
  <2>2. /\ At(ent, item, g) /\ g \in Files /\ ~Passed(g)
        /\ \A f : Passed(f)' <=> Passed(f) \/ f = g
    BY <1>2, <1>15, <2>1, CurrentItem, PassedItem DEF Enqueue, CInv, IInv
  <2>3. files' = Append(files, g) /\ files \in Seq(Files)
    BY <1>15 DEF Enqueue, CInv, IInv, TypeOK
  <2>4. /\ \A i \in 1..Len(files) : files'[i] = files[i] /\ files[i] \in Files /\ i \in 1..Len(files')
        /\ Len(files') \in 1..Len(files') /\ files'[Len(files')] = g
        /\ \A i \in 1..Len(files') : i \in 1..Len(files) \/ i = Len(files')
        /\ \A i \in 1..Len(files) : i # Len(files')
    BY <2>2, <2>3
  <2> HIDE DEF g
  <2>5. /\ \A i \in 1..Len(files) : files[i] # g
        /\ \A w \in Workers : Active(w) => wfile[w] # g
        /\ \A k \in Nat : ~Sent(g, k)
    BY <2>2 DEF CInv, OnePlace, Progress
  <2>6. /\ \A w \in Workers : wpc[w] \in {"open", "read", "send"} => wfile[w] \in Files
        /\ \A f, k : Sent(f, k)' <=> Sent(f, k)
    BY <1>2 DEF CInv, IInv, AtFiles, Sent
  <2>7. OnePlace'
    BY <1>2, <2>2, <2>4, <2>5 DEF CInv, OnePlace
  <2>8. Progress'
    BY <1>2, <2>2, <2>4, <2>5, <2>6 DEF CInv, Progress, LastReadable, Reading
  <2>9. NoneForgotten'
    BY <1>2, <1>3, <2>2, <2>4, <2>6 DEF CInv, NoneForgotten, Complete, LastReadable, Queued
  <2>10. ToTheEnd'
    BY <1>2, <1>5, <1>15 DEF Enqueue, CInv, ToTheEnd
  <2> QED BY <1>1, <2>7, <2>8, <2>9, <2>10 DEF CInv
<1> QED BY <1>9, <1>10, <1>11, <1>12, <1>13, <1>14, <1>15 DEF ProducerStep

LEMMA StopPlaces ==
    ASSUME CInv, UserStop \/ StopStep \/ \E a \in Actors : FatalStep(a) PROVE CInv'
<1> USE DEF world, prodvars, stopvars, workvars
<1>1. IInv'
  BY StopInvariant DEF CInv
<1>2. /\ UNCHANGED <<world, files, filesClosed, ent, item, wfile, wchunk, sent>>
      /\ fatalErr => fatalErr'
      /\ stopping' => stopping \/ oncepc = "flag"
      /\ \A w \in Workers : wpc'[w] = wpc[w] \/ (wpc'[w] = "select" /\ wpc[w] = "fatal" /\ oncepc = "done")
      /\ ppc' = ppc \/ (ppc = "fatal" /\ ppc' = "item" /\ oncepc = "done")
  <2>1. ASSUME NEW a \in Actors, ReturnFatal(a)
        PROVE  /\ ppc' = ppc \/ (ppc = "fatal" /\ ppc' = "item")
               /\ \A w \in Workers : wpc'[w] = wpc[w] \/ (wpc'[w] = "select" /\ wpc[w] = "fatal")
    BY <2>1, ListInputAssumption DEF ReturnFatal, LeaveFatal, InFatal
  <2> QED BY <2>1 DEF StopStep, FatalStep, UserStop, CloseStopNow, SetStopping, StoreErr,
                      ReturnFatal
<1>3. oncepc \in {"flag", "done"} => fatalErr
  BY DEF CInv, IInv, ClosedOnce
<1>4. (\A f : Passed(f)' <=> Passed(f)) /\ EntryFiles' = EntryFiles /\ Items' = Items
  BY <1>2, PassedSame DEF EntryFiles, Items
<1>5. Troubled => Troubled'
  BY <1>2, <1>3 DEF Troubled
<1>6. \A w \in Workers : Active(w) => Active(w)'
  BY <1>2 DEF Active, Reading
<1>7. OnePlace' /\ Progress' /\ NoneForgotten'
  BY <1>2, <1>4, <1>5, <1>6, SamePlaces, NoneLeaves DEF CInv
<1>8. ToTheEnd'
  BY <1>2, <1>3, <1>4 DEF CInv, ToTheEnd
<1> QED BY <1>1, <1>7, <1>8 DEF CInv

LEMMA TakePlaces == ASSUME CInv, NEW w \in Workers, TakeFile(w), IInv' PROVE CInv'
<1> USE DEF world, prodvars, stopvars, workvars
<1> DEFINE g == Head(files)
<1>1. /\ g = files[1] /\ g \in Files /\ Len(files) \in Nat \ {0}
      /\ Len(files') = Len(files) - 1
      /\ \A i \in 1..Len(files') : files'[i] = files[i + 1] /\ i + 1 \in 1..Len(files)
                                   /\ i + 1 # 1 /\ files'[i] \in Files
      /\ \A i \in 1..Len(files) : i = 1 \/ (i - 1 \in 1..Len(files') /\ files'[i - 1] = files[i])
  BY DEF TakeFile, CInv, IInv, TypeOK
<1>2. /\ \A v \in Workers : wfile'[v] = (IF v = w THEN g ELSE wfile[v])
      /\ \A v \in Workers : wpc'[v] = (IF v = w THEN "open" ELSE wpc[v])
      /\ wpc[w] = "select"
      /\ UNCHANGED <<world, prodvars, upc, stopvars, wchunk, doneClosed, inch, sent, died>>
  BY DEF TakeFile, CInv, IInv, TypeOK
<1> HIDE DEF g
<1>3. 1 \in 1..Len(files)
  BY <1>1
<1>4. /\ \A v \in Workers : Active(v)' <=> (v = w \/ Active(v))
      /\ \A v \in Workers : Reading(v)' <=> Reading(v) /\ v # w
      /\ ~Active(w)
  BY <1>2 DEF Active, Reading
<1>5. (\A f : Passed(f)' <=> Passed(f)) /\ (\A f, k : Sent(f, k)' <=> Sent(f, k))
  BY <1>2, PassedSame DEF Sent
<1>6. /\ \A v \in Workers : Active(v) => wfile[v] # g /\ wfile[v] \in Files
      /\ Passed(g) /\ \A k \in Nat : ~Sent(g, k)
  BY <1>1, <1>3 DEF CInv, OnePlace, Progress, IInv, AtFiles, Active, Reading
<1>7. \A i \in 1..Len(files') : files'[i] # g
  BY <1>1, <1>3 DEF CInv, OnePlace
<1>8. OnePlace'
  <2>1. \A i, j \in 1..Len(files') : files'[i] = files'[j] => i = j
    <3>1. \A i, j \in 1..Len(files') : files'[i] = files'[j] => i + 1 = j + 1
      BY <1>1 DEF CInv, OnePlace
    <3> QED BY <1>1, <3>1
  <2>2. \A i \in 1..Len(files'), v \in Workers : Active(v)' => files'[i] # wfile'[v]
    BY <1>1, <1>2, <1>4, <1>7 DEF CInv, OnePlace
  <2>3. \A v, u \in Workers : Active(v)' /\ Active(u)' /\ wfile'[v] = wfile'[u] => v = u
    BY <1>2, <1>4, <1>6 DEF CInv, OnePlace
  <2>4. \A i \in 1..Len(files') : Passed(files[i])'
    BY <1>1, <1>5 DEF CInv, OnePlace
  <2>5. \A v \in Workers : Active(v)' => Passed(wfile[v])'
    BY <1>2, <1>4, <1>5, <1>6 DEF CInv, OnePlace
  <2> QED BY <2>1, <2>2, <2>3, <2>4, <2>5 DEF OnePlace
<1>9. Progress'
  <2>1. \A i \in 1..Len(files'), k \in Nat : ~Sent(files[i], k)'
    BY <1>1, <1>5 DEF CInv, Progress
  <2>2. \A v \in Workers, k \in Nat : wpc'[v] = "open" => ~Sent(wfile[v], k)'
    BY <1>2, <1>5, <1>6 DEF CInv, Progress
  <2>3. \A f : LastReadable(f)' = LastReadable(f)
    BY <1>2 DEF LastReadable
  <2>4. \A v \in Workers : Reading(v)' =>
          /\ wchunk'[v] \in 1..Chunks[wfile'[v]]
          /\ \A k \in Nat : Sent(wfile[v], k)' <=> k \in 1..(wchunk'[v] - 1)
    BY <1>2, <1>4, <1>5 DEF CInv, Progress
  <2>5. \A v \in Workers : wpc'[v] = "send" => wchunk'[v] <= LastReadable(wfile[v])'
    BY <1>2, <2>3 DEF CInv, Progress
  <2>6. \A f \in Files, k \in Nat : Sent(f, k)' => Passed(f)' /\ k \in 1..LastReadable(f)'
    BY <1>5, <2>3 DEF CInv, Progress
  <2> QED BY <2>1, <2>2, <2>4, <2>5, <2>6 DEF Progress
<1>10. NoneForgotten'
  <2>1. Troubled' <=> Troubled
    BY <1>2 DEF Troubled
  <2>2. \A f : Queued(f) => Queued(f)' \/ f = g
    BY <1>1 DEF Queued
  <2>3. \A f : Complete(f)' <=> Complete(f)
    BY <1>2, <1>5 DEF Complete, LastReadable
  <2>4. \A v \in Workers : Active(v) => Active(v)' /\ wfile'[v] = wfile[v]
    BY <1>2, <1>4
  <2>5. Active(w)' /\ wfile'[w] = g
    BY <1>2, <1>4
  <2> QED BY <1>5, <2>1, <2>2, <2>3, <2>4, <2>5 DEF CInv, NoneForgotten
<1>11. ToTheEnd'
  <2>1. files # <<>> /\ EntryFiles' = EntryFiles /\ Items' = Items
    BY <1>2 DEF TakeFile, EntryFiles, Items
  <2> QED BY <1>2, <1>5, <2>1 DEF CInv, ToTheEnd
<1> QED BY <1>8, <1>9, <1>10, <1>11 DEF CInv

\* A worker that opens its file, reads of it, gives it up or exits.
LEMMA ReadPlaces ==
    ASSUME CInv, NEW w \in Workers, Open(w) \/ Read(w) \/ SeeClosed(w) \/ SeeStop(w), IInv'
    PROVE  CInv'
<1> USE DEF world, prodvars, stopvars, workvars
<1>1. /\ UNCHANGED <<world, prodvars, files, upc, stopvars, wfile, doneClosed, inch, sent>>
      /\ \A v \in Workers : v # w => wpc'[v] = wpc[v] /\ wchunk'[v] = wchunk[v]
      /\ wpc[w] \in {"select", "open", "read"} /\ wpc'[w] # "open"
      /\ wpc'[w] \in {"select", "read", "send", "fatal", "exited"}
      /\ wpc[w] = "select" => wpc'[w] = "exited"
  BY DEF Open, Read, SeeClosed, SeeStop, CInv, IInv, TypeOK
<1>2. /\ \A f : Passed(f)' <=> Passed(f)
      /\ \A f, k : Sent(f, k)' <=> Sent(f, k)
      /\ \A f : LastReadable(f)' = LastReadable(f) /\ (Complete(f)' <=> Complete(f))
      /\ \A f : Queued(f)' <=> Queued(f)
      /\ EntryFiles' = EntryFiles /\ Items' = Items
  BY <1>1, PassedSame DEF Sent, LastReadable, Complete, Queued, EntryFiles, Items
<1>3. /\ Troubled => Troubled'
      /\ \A v \in Workers : (Active(v)' => Active(v)) /\ (Reading(v)' => Active(v))
  BY <1>1 DEF Troubled, Active, Reading
<1>4. wpc[w] \in {"open", "read"} => /\ wfile[w] \in Files /\ Chunks[wfile[w]] \in Nat \ {0}
                                     /\ Passed(wfile[w])
  BY ListInputAssumption DEF CInv, IInv, AtFiles, OnePlace, Active, Reading
<1>5. OnePlace'
  BY <1>1, <1>2, <1>3 DEF CInv, OnePlace
<1>6. CASE Open(w)
  <2>1. wpc[w] = "open" /\ wchunk'[w] = 1 /\ wpc'[w] \in {"read", "fatal"}
    BY <1>6 DEF Open, CInv, IInv, TypeOK
  <2>2. \A k \in Nat : ~Sent(wfile[w], k) /\ k \notin 1..(1 - 1)
    BY <2>1 DEF CInv, Progress
  <2>3. Progress'
    <3>1. \A v \in Workers : Reading(v)' =>
            /\ wchunk'[v] \in 1..Chunks[wfile[v]]
            /\ \A k \in Nat : Sent(wfile[v], k)' <=> k \in 1..(wchunk'[v] - 1)
      <4>1. 1 \in 1..Chunks[wfile[w]]
        BY <1>4, <2>1
      <4>2. \A v \in Workers : v # w => (Reading(v)' <=> Reading(v))
        BY <1>1 DEF Reading
      <4> QED BY <1>1, <1>2, <2>1, <2>2, <4>1, <4>2 DEF CInv, Progress
    <3>2. \A v \in Workers : wpc'[v] = "send" => wchunk'[v] <= LastReadable(wfile[v])'
      BY <1>1, <1>2, <2>1 DEF CInv, Progress
    <3> QED BY <1>1, <1>2, <3>1, <3>2 DEF CInv, Progress
  <2>4. NoneForgotten'
    <3>1. Troubled' \/ \A v \in Workers : Active(v) => Active(v)'
      BY <1>1, <2>1 DEF Troubled, Active, Reading
    <3> QED BY <1>1, <1>2, <1>3, <3>1 DEF CInv, NoneForgotten
  <2>5. ToTheEnd'
    BY <1>1, <1>2, <2>1 DEF CInv, ToTheEnd
  <2> QED BY <1>5, <2>3, <2>4, <2>5 DEF CInv
<1>7. CASE Read(w)
  <2>1. /\ wpc[w] = "read" /\ wchunk' = wchunk /\ wpc'[w] \in {"select", "send"}
        /\ wpc'[w] = "select" => stopping \/ (health[wfile[w]] = "corrupt" /\ LastChunk(w))
        /\ wpc'[w] = "send" => ~(health[wfile[w]] = "corrupt" /\ LastChunk(w))
    BY <1>7 DEF Read, CInv, IInv, TypeOK
  <2>2. /\ wchunk[w] \in 1..Chunks[wfile[w]]
        /\ \A k \in Nat : Sent(wfile[w], k) <=> k \in 1..(wchunk[w] - 1)
    BY <2>1 DEF CInv, Progress, Reading
  <2>3. wpc'[w] = "send" => wchunk[w] <= LastReadable(wfile[w])
    BY <1>4, <2>1, <2>2 DEF LastReadable, LastChunk
  <2>4. Progress'
    <3>1. \A v \in Workers : Reading(v)' => Reading(v)
      BY <1>1, <2>1 DEF Reading
    <3>2. \A v \in Workers : wpc'[v] = "send" => wchunk'[v] <= LastReadable(wfile[v])'
      BY <1>1, <1>2, <2>1, <2>3 DEF CInv, Progress
    <3> QED BY <1>1, <1>2, <2>1, <3>1, <3>2 DEF CInv, Progress
  <2>5. NoneForgotten'
    <3>1. wpc'[w] = "select" => Troubled' \/ Complete(wfile[w])
      <4>1. stopping => Troubled'
        BY <1>1 DEF CInv, ToTheEnd, Troubled
      <4>2. health[wfile[w]] = "corrupt" /\ LastChunk(w)
            => /\ LastReadable(wfile[w]) = wchunk[w] - 1
               /\ \A k \in 1..(wchunk[w] - 1) : k \in Nat
        BY <2>2 DEF LastReadable, LastChunk
      <4> QED BY <2>1, <2>2, <4>1, <4>2 DEF Complete
    <3>2. \A v \in Workers : Active(v) => Active(v)' \/ (v = w /\ wpc'[w] = "select")
      BY <1>1, <2>1 DEF Active, Reading
    <3> QED BY <1>1, <1>2, <1>3, <3>1, <3>2 DEF CInv, NoneForgotten
  <2>6. ToTheEnd'
    BY <1>1, <1>2, <2>1 DEF CInv, ToTheEnd
  <2> QED BY <1>5, <2>4, <2>5, <2>6 DEF CInv
<1>8. CASE SeeClosed(w) \/ SeeStop(w)
  <2>1. wpc[w] = "select" /\ wpc'[w] = "exited" /\ wchunk' = wchunk
    BY <1>1, <1>8 DEF SeeClosed, SeeStop
  <2>2. (files = <<>> /\ filesClosed) \/ fatalErr
    BY <1>8 DEF SeeClosed, SeeStop, CInv, IInv, ClosedOnce
  <2>3. \A v \in Workers : Active(v)' <=> Active(v)
    BY <1>1, <2>1 DEF Active, Reading
  <2>4. OnePlace' /\ Progress'
    BY <1>1, <1>2, <2>1, SamePlaces DEF CInv
  <2>5. NoneForgotten'
    BY <1>1, <1>2, <1>3, <2>3, NoneLeaves DEF CInv
  <2>6. ToTheEnd'
    BY <1>1, <1>2, <2>2 DEF CInv, ToTheEnd
  <2> QED BY <2>4, <2>5, <2>6 DEF CInv
<1> QED BY <1>6, <1>7, <1>8

\* The chunk a worker sends is the next one of its file.
LEMMA SendFacts ==
    ASSUME CInv, NEW w \in Workers, Send(w)
    PROVE  /\ wfile[w] \in EntryFiles /\ wfile[w] \in Files /\ wchunk[w] \in Nat
           /\ Passed(wfile[w])
           /\ wchunk[w] \in 1..LastReadable(wfile[w]) /\ wchunk[w] \in 1..Chunks[wfile[w]]
           /\ Chunks[wfile[w]] \in Nat /\ LastReadable(wfile[w]) \in Nat
           /\ LastReadable(wfile[w]) <= Chunks[wfile[w]]
           /\ \A k \in Nat : Sent(wfile[w], k) <=> k \in 1..(wchunk[w] - 1)
           /\ ~Sent(wfile[w], wchunk[w])
           /\ \A f, k : Sent(f, k)' <=> Sent(f, k) \/ (f = wfile[w] /\ k = wchunk[w])
<1>1. wpc[w] = "send" /\ sent' = Append(sent, <<wfile[w], wchunk[w]>>)
  BY DEF Send
<1>2. wfile[w] \in Files /\ wchunk[w] \in Nat /\ Passed(wfile[w])
  BY <1>1 DEF CInv, IInv, AtFiles, TypeOK, OnePlace, Active, Reading
<1>3. wfile[w] \in EntryFiles
  BY <1>2, PassedFiles DEF CInv, IInv
<1>4. /\ wchunk[w] \in 1..Chunks[wfile[w]] /\ wchunk[w] <= LastReadable(wfile[w])
      /\ \A k \in Nat : Sent(wfile[w], k) <=> k \in 1..(wchunk[w] - 1)
  BY <1>1 DEF CInv, Progress, Reading
<1>5. Chunks[wfile[w]] \in Nat \ {0}
  BY <1>2, ListInputAssumption
<1>6. LastReadable(wfile[w]) \in Nat /\ LastReadable(wfile[w]) <= Chunks[wfile[w]]
  BY <1>5 DEF LastReadable
<1>7. \A f, k : Sent(f, k)' <=> Sent(f, k) \/ (f = wfile[w] /\ k = wchunk[w])
  <2>1. sent \in Seq(Files \X Nat) /\ <<wfile[w], wchunk[w]>> \in Files \X Nat
    BY <1>2 DEF CInv, IInv, TypeOK
  <2>2. /\ Len(sent) \in Nat /\ Len(sent') = Len(sent) + 1
        /\ \A i \in 1..Len(sent) : sent'[i] = sent[i] /\ i \in 1..Len(sent')
        /\ sent'[Len(sent) + 1] = <<wfile[w], wchunk[w]>> /\ Len(sent) + 1 \in 1..Len(sent')
        /\ \A i \in 1..Len(sent') : i \in 1..Len(sent) \/ i = Len(sent) + 1
    BY <1>1, <2>1
  <2> QED BY <2>2 DEF Sent
<1>8. wchunk[w] \in 1..LastReadable(wfile[w]) /\ wchunk[w] \notin 1..(wchunk[w] - 1)
  BY <1>4, <1>6
<1> QED BY <1>2, <1>3, <1>4, <1>5, <1>6, <1>7, <1>8

LEMMA SendPlaces == ASSUME CInv, NEW w \in Workers, Send(w), IInv' PROVE CInv'
<1> USE DEF world, prodvars, stopvars, workvars
<1>1. /\ UNCHANGED <<world, prodvars, files, upc, stopvars, wfile, doneClosed, died>>
      /\ \A v \in Workers : v # w => wpc'[v] = wpc[v] /\ wchunk'[v] = wchunk[v]
      /\ wpc[w] = "send" /\ wchunk'[w] = wchunk[w] + 1
      /\ wpc'[w] = IF LastChunk(w) THEN "select" ELSE "read"
  BY DEF Send, CInv, IInv, TypeOK
<1>0. PICK g, n : g = wfile[w] /\ n = wchunk[w]
  OBVIOUS
<1>2. /\ g \in EntryFiles /\ g \in Files /\ n \in Nat /\ Passed(g)
      /\ n \in 1..LastReadable(g) /\ n \in 1..Chunks[g] /\ Chunks[g] \in Nat
      /\ LastReadable(g) \in Nat /\ LastReadable(g) <= Chunks[g]
      /\ \A k \in Nat : Sent(g, k) <=> k \in 1..(n - 1)
      /\ \A f, k : Sent(f, k)' <=> Sent(f, k) \/ (f = g /\ k = n)
  BY <1>0, SendFacts
<1>3. /\ \A v \in Workers : v # w /\ Active(v) => wfile[v] # g
      /\ \A i \in 1..Len(files) : files[i] # g
  BY <1>0, <1>1 DEF CInv, OnePlace, Active, Reading
<1>4. n = Chunks[g] => n = LastReadable(g)
  BY <1>2
<1>5. /\ \A f : Passed(f)' <=> Passed(f)
      /\ \A f : LastReadable(f)' = LastReadable(f) /\ (Queued(f)' <=> Queued(f))
      /\ EntryFiles' = EntryFiles /\ Items' = Items /\ (Troubled => Troubled')
  BY <1>1, PassedSame DEF LastReadable, Queued, EntryFiles, Items, Troubled
<1>6. /\ \A v \in Workers : (Active(v)' => Active(v)) /\ (Reading(v)' => Reading(v))
      /\ \A v \in Workers : Active(v) => Active(v)' \/ (v = w /\ LastChunk(w))
      /\ wpc'[w] \in {"select", "read"}
  BY <1>1 DEF Active, Reading
<1>7. OnePlace'
  BY <1>1, <1>5, <1>6 DEF CInv, OnePlace
<1>8. Progress'
  <2>1. \A i \in 1..Len(files'), k \in Nat : ~Sent(files[i], k)'
    BY <1>1, <1>2, <1>3 DEF CInv, Progress
  <2>2. \A v \in Workers, k \in Nat : wpc'[v] = "open" => ~Sent(wfile[v], k)'
    BY <1>1, <1>2, <1>3, <1>6 DEF CInv, Progress, Active
  <2>3. ASSUME NEW v \in Workers, Reading(v)', v # w
        PROVE  /\ wchunk'[v] \in 1..Chunks[wfile[v]]
               /\ \A k \in Nat : Sent(wfile[v], k)' <=> k \in 1..(wchunk'[v] - 1)
    <3>1. Reading(v) /\ wchunk'[v] = wchunk[v] /\ wfile[v] # g
      BY <1>1, <1>3, <1>6, <2>3 DEF Active
    <3> QED BY <1>1, <1>2, <3>1 DEF CInv, Progress
  <2>4. ASSUME Reading(w)'
        PROVE  /\ wchunk'[w] \in 1..Chunks[wfile[w]]
               /\ \A k \in Nat : Sent(wfile[w], k)' <=> k \in 1..(wchunk'[w] - 1)
    <3>1. wfile'[w] = g /\ wchunk'[w] = n + 1 /\ n # Chunks[g]
      BY <1>0, <1>1, <2>4 DEF Reading, LastChunk
    <3>2. n + 1 \in 1..Chunks[g]
      BY <1>2, <3>1
    <3>3. \A k \in Nat : Sent(g, k)' <=> k \in 1..(wchunk'[w] - 1)
      BY <1>2, <3>1
    <3>4. \A k \in Nat : Sent(wfile[w], k)' <=> Sent(g, k)'
      BY <3>1 DEF Sent
    <3> QED BY <1>0, <3>1, <3>2, <3>3, <3>4
  <2>5. \A v \in Workers : wpc'[v] = "send" => wchunk'[v] <= LastReadable(wfile[v])'
    BY <1>1, <1>5, <1>6 DEF CInv, Progress
  <2>6. \A f \in Files, k \in Nat : Sent(f, k)' => Passed(f)' /\ k \in 1..LastReadable(f)'
    BY <1>2, <1>5 DEF CInv, Progress
  <2> QED BY <1>1, <2>1, <2>2, <2>3, <2>4, <2>5, <2>6 DEF Progress
<1>9. NoneForgotten'
  <2>1. \A f : Complete(f) => Complete(f)'
    BY <1>2, <1>5 DEF Complete
  <2>2. LastChunk(w) => Complete(g)'
    <3>1. LastChunk(w) => \A k \in 1..LastReadable(g) : k \in Nat /\ (k \in 1..(n - 1) \/ k = n)
      BY <1>0, <1>2, <1>4 DEF LastChunk
    <3> QED BY <1>2, <1>5, <3>1 DEF Complete
  <2> QED BY <1>0, <1>1, <1>5, <1>6, <2>1, <2>2 DEF CInv, NoneForgotten
<1>10. ToTheEnd'
  BY <1>1, <1>5, <1>6 DEF CInv, ToTheEnd
<1> QED BY <1>7, <1>8, <1>9, <1>10 DEF CInv

LEMMA InitPlaces == ASSUME Init PROVE CInv
<1>1. IInv
  BY InitInvariant
<1>2. Len(files) = 0 /\ Len(sent) = 0
  BY DEF Init
<1>3. (\A w \in Workers : ~Active(w)) /\ (\A f, k : ~Sent(f, k))
  BY <1>2 DEF Init, Active, Reading, Sent
<1>4. \A f : ~Passed(f)
  BY DEF Init, Passed, At
<1>5. entries = <<>> => EntryFiles = {}
  BY DEF EntryFiles
<1>6. OnePlace
  BY <1>2, <1>3 DEF OnePlace
<1>7. Progress
  <2>1. \A w \in Workers : wpc[w] = "select" /\ ~Reading(w)
    BY DEF Init, Reading
  <2> QED BY <1>2, <1>3, <2>1 DEF Progress
<1>8. NoneForgotten
  BY <1>4 DEF NoneForgotten
<1>9. ToTheEnd
  BY <1>5 DEF Init, ToTheEnd
<1> QED BY <1>1, <1>6, <1>7, <1>8, <1>9 DEF CInv

LEMMA NextPlaces == ASSUME NamedOnce, CInv, [Next]_vars PROVE CInv'
<1> USE DEF world, prodvars, stopvars, workvars
<1>1. IInv'
  BY NextInvariant DEF CInv
<1>2. CASE CloseDone \/ Drain \/ UNCHANGED vars
  <2>1. /\ UNCHANGED <<world, prodvars, files, upc, stopvars, workvars, sent>>
    BY <1>2 DEF CloseDone, Drain, vars
  <2>2. /\ \A f : Passed(f)' <=> Passed(f)
        /\ \A w \in Workers : Active(w)' <=> Active(w)
        /\ Troubled' <=> Troubled
        /\ EntryFiles' = EntryFiles /\ Items' = Items
    BY <2>1, PassedSame DEF Active, Reading, Troubled, EntryFiles, Items
  <2>3. OnePlace' /\ Progress' /\ NoneForgotten'
    BY <2>1, <2>2, SamePlaces, NoneLeaves DEF CInv
  <2>4. ToTheEnd'
    BY <2>1, <2>2 DEF CInv, ToTheEnd
  <2> QED BY <1>1, <2>3, <2>4 DEF CInv
<1> QED BY <1>1, <1>2, ProducerPlaces, StopPlaces, TakePlaces, ReadPlaces, SendPlaces
        DEF Next, Step, Terminated, WorkerStep

\* When Run returns without an error, all there was to read has been sent.
LEMMA AllSent ==
    ASSUME CInv, doneClosed, ~fatalErr, ppc = "wait"
    PROVE  {sent[i] : i \in DOMAIN sent} = ReadableChunks
<1>1. \A w \in Workers : wpc[w] = "exited"
  BY DEF CInv, IInv, DoneBehindWorkers
<1>2. files = <<>> /\ \A f \in EntryFiles : Passed(f)
  BY <1>1, ListInputAssumption DEF CInv, ToTheEnd
<1>3. ~Troubled /\ (\A w \in Workers : ~Active(w)) /\ \A f : ~Queued(f)
  BY <1>1, <1>2 DEF Troubled, Active, Reading, Queued
<1>4. \A f \in EntryFiles : f \in Files /\ Complete(f)
  BY <1>2, <1>3 DEF CInv, NoneForgotten, EntryFiles
<1>5. DOMAIN sent = 1..Len(sent) /\ \A i \in 1..Len(sent) : sent[i] \in Files \X Nat
  BY DEF CInv, IInv, TypeOK
<1>6. ASSUME NEW i \in DOMAIN sent PROVE sent[i] \in ReadableChunks
  <2>1. PICK f \in Files, k \in Nat : sent[i] = <<f, k>>
    BY <1>5, <1>6
  <2>2. Sent(f, k)
    BY <1>5, <1>6, <2>1 DEF Sent
  <2>3. Passed(f) /\ k \in 1..LastReadable(f)
    BY <2>2 DEF CInv, Progress
  <2> QED BY <2>1, <2>3, PassedFiles, ReadableFacts DEF CInv, IInv
<1>7. ASSUME NEW c \in ReadableChunks PROVE \E i \in DOMAIN sent : sent[i] = c
  <2>1. PICK f \in EntryFiles : \E k \in 1..LastReadable(f) : c = <<f, k>>
    BY <1>7, ReadableFacts DEF CInv, IInv
  <2>2. PICK k \in 1..LastReadable(f) : c = <<f, k>>
    BY <2>1
  <2> QED BY <1>4, <1>5, <2>1, <2>2 DEF Complete, Sent
<1> QED BY <1>6, <1>7

runState == IF ~Alive THEN "dead"
            ELSE IF ppc # "returned" THEN "running"
            ELSE IF runErr THEN "error" ELSE "ok"

LEMMA ContractInit == ASSUME Init PROVE Contract!Init
BY DEF Init, Contract!Init, Alive

LEMMA ContractStep ==
    ASSUME CInv, [Next]_vars
    PROVE  [Contract!Next]_(Contract!cvars)
<1> USE DEF world, prodvars, stopvars, workvars
<1>1. Contract!cvars = <<ReadableChunks, sent, runState>>
  BY DEF Contract!cvars, runState
<1>2. UNCHANGED world => ReadableChunks' = ReadableChunks
  BY DEF ReadableChunks, EntryFiles
<1>3. ASSUME UNCHANGED <<world, sent, died, runErr>>,
             ppc' = ppc \/ (ppc # "returned" /\ ppc' # "returned")
      PROVE  UNCHANGED Contract!cvars
  <2>1. runState' = runState
    BY <1>3 DEF runState, Alive
  <2> QED BY <1>2, <1>3, <2>1 DEF Contract!cvars, runState
<1>4. CASE UNCHANGED vars
  BY <1>3, <1>4 DEF vars
<1>5. ASSUME Alive, ProducerStep PROVE [Contract!Next]_(Contract!cvars)
  <2>1. CASE RunReturn
    <3>1. /\ UNCHANGED <<world, sent, died>> /\ doneClosed
          /\ ppc = "wait" /\ ppc' = "returned" /\ runErr' = fatalErr
      BY <2>1 DEF RunReturn
    <3>2. fatalErr \in BOOLEAN
      BY DEF CInv, IInv, TypeOK
    <3>3. runState = "running" /\ runState' = (IF fatalErr THEN "error" ELSE "ok")
      BY <1>5, <3>1 DEF runState, Alive
    <3>4. CASE fatalErr
      BY <1>2, <3>1, <3>3, <3>4 DEF Contract!Next, Contract!ReturnError, runState
    <3>5. CASE ~fatalErr
      <4>1. Contract!SentChunks = ReadableChunks
        BY <3>1, <3>5, AllSent DEF Contract!SentChunks
      <4> QED BY <1>2, <3>1, <3>3, <3>5, <4>1 DEF Contract!Next, Contract!ReturnOk, runState
    <3> QED BY <3>2, <3>4, <3>5
  <2>2. CASE NextFile \/ BadList \/ EndOfEntry \/ Enqueue \/ CheckFatal \/ NoMoreFiles
    BY <1>3, <2>2 DEF NextFile, BadList, EndOfEntry, Enqueue, CheckFatal, NoMoreFiles
  <2> QED BY <1>5, <2>1, <2>2 DEF ProducerStep
<1>6. ASSUME UserStop \/ StopStep \/ \E a \in Actors : FatalStep(a)
      PROVE  UNCHANGED Contract!cvars
  <2>1. ASSUME NEW a \in Actors, ReturnFatal(a)
        PROVE  ppc' = ppc \/ (ppc = "fatal" /\ ppc' = "item")
    BY <2>1, ListInputAssumption DEF ReturnFatal, LeaveFatal, InFatal
  <2>2. died' = died
    BY <1>6 DEF UserStop, StopStep, FatalStep, CloseStopNow, SetStopping, StoreErr,
                ReturnFatal, CInv, IInv, ClosedOnce
  <2>3. UNCHANGED <<world, sent, runErr>>
    BY <1>6 DEF UserStop, StopStep, FatalStep, CloseStopNow, SetStopping, StoreErr,
                ReturnFatal
  <2>4. ppc' = ppc \/ (ppc # "returned" /\ ppc' # "returned")
    BY <1>6, <2>1 DEF UserStop, StopStep, FatalStep, CloseStopNow, SetStopping, StoreErr
  <2> QED BY <1>3, <2>2, <2>3, <2>4
<1>7. ASSUME Alive, NEW w \in Workers, Open(w) \/ Send(w)
      PROVE  [Contract!Next]_(Contract!cvars)
  <2>1. ppc # "returned" /\ UNCHANGED <<world, ppc, runErr>>
    BY <1>7 DEF Open, Send, CInv, IInv, DoneBehindWorkers
  <2>2. runState = "running"
    BY <1>7, <2>1 DEF runState
  <2>3. CASE Open(w)
    <3>1. UNCHANGED sent /\ (died' = died \/ died' = "fatal")
      BY <2>3 DEF Open
    <3>2. runState' \in {"running", "dead"}
      BY <2>1 DEF runState
    <3> QED BY <1>2, <2>1, <2>2, <3>1, <3>2
            DEF Contract!Next, Contract!ReturnError, Contract!cvars, runState
  <2>4. CASE Send(w)
    <3>1. PICK c : c = <<wfile[w], wchunk[w]>>
      OBVIOUS
    <3>2. sent' = Append(sent, c) /\ died' = died
      BY <2>4, <3>1 DEF Send
    <3>3. runState' = "running"
      BY <2>1, <2>2, <3>2 DEF runState, Alive
    <3>4. c \in ReadableChunks
      BY <2>4, <3>1, SendFacts, ReadableFacts DEF CInv, IInv
    <3>5. c \notin Contract!SentChunks
      <4>1. DOMAIN sent = 1..Len(sent)
        BY DEF CInv, IInv, TypeOK
      <4>2. ~Sent(wfile[w], wchunk[w])
        BY <2>4, SendFacts
      <4> QED BY <3>1, <4>1, <4>2 DEF Contract!SentChunks, Sent
    <3>6. Contract!Send(c)
      BY <1>2, <2>1, <2>2, <3>2, <3>3, <3>5 DEF Contract!Send, runState
    <3> QED BY <3>4, <3>6 DEF Contract!Next
  <2> QED BY <1>7, <2>3, <2>4
<1>8. ASSUME NEW w \in Workers, TakeFile(w) \/ SeeClosed(w) \/ SeeStop(w) \/ Read(w)
      PROVE  UNCHANGED Contract!cvars
  BY <1>3, <1>8 DEF TakeFile, SeeClosed, SeeStop, Read
<1>9. CASE CloseDone \/ Drain
  BY <1>3, <1>9 DEF CloseDone, Drain
<1> QED BY <1>4, <1>5, <1>6, <1>7, <1>8, <1>9 DEF Next, Step, Terminated, WorkerStep

\* The List input keeps the contract of an input: each chunk of its files is
\* sent at most once and only while Run is running, and Run returns nil only
\* when all that can be read of them has been sent.  A file that is named
\* twice in the configuration is two files to it.
THEOREM KeepsContract == ASSUME NamedOnce PROVE Spec => ImplementsInput
<1>1. Init => Contract!Init /\ CInv
  BY ContractInit, InitPlaces
<1>2. CInv /\ [Next]_vars => CInv' /\ [Contract!Next]_(Contract!cvars)
  BY NextPlaces, ContractStep
<1> QED BY <1>1, <1>2, PTL DEF Spec, ImplementsInput, Contract!Spec
=============================================================================
