--------------------------- MODULE DeliveryProofs ---------------------------
(***************************************************************************)
(* Theorems about Topology, for any number of lines, buffers, filter       *)
(* goroutines, outputs and channel capacities.  First its types and its    *)
(* shutdown; then what it delivers: every record that should reach an      *)
(* output does, once, on the right output and in order; and a topology     *)
(* implements Pipeline.                                                    *)
(*                                                                         *)
(* The second argument follows a record: it is Due while its line is in a  *)
(* buffer that inch or a filter goroutine holds, then InFlight on an       *)
(* output channel, then Given to an output.  No step loses, copies or      *)
(* invents one.                                                            *)
(***************************************************************************)
EXTENDS Topology, FiniteSetTheorems, TLAPS

\* Each *Data is in one place: the input's hand, the pool, a position of inch
\* or one filter goroutine.
Disjoint ==
    /\ inbuf \notin pool
    /\ \A i \in 1..Len(inch) : inch[i] \notin pool /\ inch[i] # inbuf
    /\ \A i, j \in 1..Len(inch) : i # j => inch[i] # inch[j]
    /\ \A p \in Procs : \A i \in 1..Len(inch) : fbuf[p] # inch[i]
    /\ \A p \in Procs : fbuf[p] \notin pool
    /\ \A p \in Procs : fbuf[p] # NoBuffer => fbuf[p] # inbuf
    /\ \A p, q \in Procs : p # q /\ fbuf[p] # NoBuffer => fbuf[p] # fbuf[q]

\* A filter goroutine that is inside a buffer points to a line of it, or just
\* behind the last one.
Cursor ==
    /\ \A p \in Procs : fpc[p] \in {"lines", "send"} <=> fbuf[p] # NoBuffer
    /\ \A p \in Procs : fbuf[p] # NoBuffer => foff[p] <= Len(mem[fbuf[p]])
    /\ \A p \in Procs : fpc[p] = "send" => foff[p] < Len(mem[fbuf[p]])

\* The lines in the input's hand are lines of the stream.
InStream == inbuf # NoBuffer =>
                /\ produced + Len(mem[inbuf]) <= NLines
                /\ inpc = "running"

\* How far Wait() has come, and who is known to have returned.
Shutdown ==
    /\ inchClosed <=> wpc # "wginp"
    /\ inchClosed => inpc = "done"
    /\ wpc = "wginp" => nclosed = 0
    /\ wpc = "wgfil" => nclosed < NChans
    /\ nclosed > 0 => \A p \in Procs : fpc[p] = "done"
    /\ upchClosed <=> wpc \in {"wgupl", "returned"}
    /\ upchClosed => \A o \in Outputs : opc[o] = "done"

IInv == TypeOK /\ Disjoint /\ Cursor /\ InStream /\ Shutdown

-----------------------------------------------------------------------------
(* Sequences: what the channel operations do to positions.                 *)

LEMMA AppendFacts ==
    ASSUME NEW S, NEW s \in Seq(S), NEW e \in S
    PROVE  /\ Append(s, e) \in Seq(S)
           /\ Len(Append(s, e)) = Len(s) + 1
           /\ \A i \in 1..Len(s) : Append(s, e)[i] = s[i]
           /\ Append(s, e)[Len(s) + 1] = e
    OBVIOUS

LEMMA TailFacts ==
    ASSUME NEW S, NEW s \in Seq(S), s # <<>>
    PROVE  /\ Head(s) \in S /\ Head(s) = s[1]
           /\ Tail(s) \in Seq(S)
           /\ Len(s) \in Nat \ {0} /\ Len(Tail(s)) = Len(s) - 1
           /\ \A i \in 1..Len(Tail(s)) : Tail(s)[i] = s[i + 1] /\ i + 1 \in 1..Len(s)
    OBVIOUS

LEMMA NChansType == NChans \in Nat \ {0}
    BY TopologyAssumption DEF NChans

LEMMA TargetInChans == ASSUME NEW l \in Lines PROVE TargetChan(l) \in Chans
    BY TopologyAssumption DEF TargetChan, Chans, NChans

LEMMA ChanOfInChans == ASSUME NEW o \in Outputs PROVE ChanOf(o) \in Chans
    BY TopologyAssumption DEF ChanOf, Chans, NChans, Outputs

-----------------------------------------------------------------------------
LEMMA InitInv == Init => IInv
<1> SUFFICES ASSUME Init PROVE IInv
    OBVIOUS
<1>1. TypeOK
  <2>1. mem \in [Buffers -> Seq(Lines)] /\ inch \in Seq(Buffers) /\ Len(inch) <= InCap
    BY TopologyAssumption DEF Init
  <2>2. /\ outch \in [Chans -> Seq(Lines \X Nat)]
        /\ \A i \in Chans : Len(outch[i]) <= OutCap
        /\ received \in [Outputs -> Seq(Lines \X Nat)]
    BY TopologyAssumption DEF Init
  <2>3. produced \in 0..NLines /\ nclosed \in 0..NChans
    BY TopologyAssumption, NChansType DEF Init
  <2>4. /\ fpc \in [Procs -> {"recv", "lines", "send", "done"}]
        /\ fbuf \in [Procs -> Buffers \cup {NoBuffer}]
        /\ foff \in [Procs -> Nat] /\ fcopy \in [Procs -> Nat \ {0}]
    BY DEF Init
  <2>5. opc \in [Outputs -> {"running", "done"}] /\ flushed \in [Outputs -> Nat]
    BY DEF Init
  <2>6. /\ inpc \in {"running", "done"} /\ inbuf \in Buffers \cup {NoBuffer}
        /\ pool \subseteq Buffers /\ malformed \in Nat /\ invalid \in Nat
        /\ upl \in {"recv", "busy", "done"}
        /\ wpc \in {"wginp", "wgfil", "wgout", "wgupl", "returned"}
        /\ {inerr, stopped, inchClosed, upchClosed, exited} \subseteq BOOLEAN
    BY DEF Init
  <2> QED BY <2>1, <2>2, <2>3, <2>4, <2>5, <2>6 DEF TypeOK
<1>2. Disjoint /\ Cursor /\ InStream
    BY TopologyAssumption DEF Init, Disjoint, Cursor, InStream
<1>3. Shutdown
    BY DEF Init, Shutdown
<1> QED BY <1>1, <1>2, <1>3 DEF IInv

\* The input fills a buffer of the pool: no one else has it.
LEMMA FillBufferInv ==
    ASSUME IInv, NEW b \in Buffers, FillBuffer(b) PROVE IInv'
<1> USE DEF FillBuffer, invars, filtervars, outvars, waitvars
<1> PICK k \in 1..MaxChunk :
            /\ produced + k <= NLines
            /\ mem' = [mem EXCEPT ![b] = [i \in 1..k |-> produced + i]]
    OBVIOUS
<1> DEFINE new == [i \in 1..k |-> produced + i]
<1>1. new \in Seq(Lines) /\ Len(new) = k
    BY TopologyAssumption DEF IInv, TypeOK, Lines
<1>2. TypeOK'
    BY <1>1 DEF IInv, TypeOK
<1>3. Disjoint'
    BY TopologyAssumption DEF IInv, TypeOK, Disjoint
<1>4. \A p \in Procs : fbuf[p] # b
    BY DEF IInv, Disjoint
<1>5. Cursor'
    BY <1>4 DEF IInv, TypeOK, Cursor
<1>6. InStream'
    BY <1>1 DEF IInv, TypeOK, InStream
<1>7. Shutdown'
    BY DEF IInv, Shutdown
<1> QED BY <1>2, <1>3, <1>5, <1>6, <1>7 DEF IInv

LEMMA SendBufferInv == ASSUME IInv, SendBuffer PROVE IInv'
<1> USE DEF SendBuffer, invars, filtervars, outvars, waitvars
<1>1. /\ inbuf \in Buffers /\ inch \in Seq(Buffers)
      /\ Len(mem[inbuf]) \in Nat /\ produced \in Nat
    BY DEF IInv, TypeOK
<1>2. /\ inch' \in Seq(Buffers) /\ Len(inch') = Len(inch) + 1
      /\ \A i \in 1..Len(inch) : inch'[i] = inch[i]
      /\ inch'[Len(inch) + 1] = inbuf
    BY <1>1, AppendFacts
<1>3. TypeOK'
  <2>1. produced' \in 0..NLines
    BY <1>1, TopologyAssumption DEF IInv, InStream
  <2>2. Len(inch') <= InCap
    BY <1>1, <1>2, TopologyAssumption
  <2> QED BY <1>2, <2>1, <2>2 DEF IInv, TypeOK
<1>4. Len(inch) \in Nat
    BY <1>1
<1>5. Disjoint'
  <2>1. \A i \in 1..Len(inch') : \/ i \in 1..Len(inch) /\ inch'[i] = inch[i]
                                 \/ i = Len(inch) + 1 /\ inch'[i] = inbuf
    BY <1>2, <1>4
  <2>2. /\ inbuf \notin pool /\ inbuf # NoBuffer
        /\ \A i \in 1..Len(inch) : inch[i] # inbuf
        /\ \A p \in Procs : fbuf[p] # inbuf
    BY <1>1, TopologyAssumption DEF IInv, Disjoint
  <2>3. inbuf' = NoBuffer /\ UNCHANGED <<pool, fbuf>> /\ NoBuffer \notin pool
    BY TopologyAssumption DEF IInv, TypeOK
  <2>4. \A i \in 1..Len(inch') : inch'[i] \notin pool' /\ inch'[i] # inbuf'
    BY <1>1, <2>1, <2>2, <2>3, TopologyAssumption DEF IInv, TypeOK, Disjoint
  <2>5. \A i, j \in 1..Len(inch') : i # j => inch'[i] # inch'[j]
    BY <2>1, <2>2 DEF IInv, Disjoint
  <2>6. \A p \in Procs : \A i \in 1..Len(inch') : fbuf'[p] # inch'[i]
    BY <2>1, <2>2, <2>3 DEF IInv, Disjoint
  <2> QED BY <2>3, <2>4, <2>5, <2>6 DEF IInv, Disjoint
<1>6. Cursor' /\ InStream'
    BY DEF IInv, TypeOK, Cursor, InStream
<1>7. Shutdown'
    BY DEF IInv, Shutdown
<1> QED BY <1>3, <1>5, <1>6, <1>7 DEF IInv

LEMMA InputReturnInv == ASSUME IInv, InputReturn PROVE IInv'
<1> USE DEF InputReturn, invars, filtervars, outvars, waitvars
<1>1. TypeOK'
    BY DEF IInv, TypeOK
<1>2. Disjoint' /\ Cursor' /\ InStream'
    BY DEF IInv, Disjoint, Cursor, InStream
<1>3. Shutdown'
    BY DEF IInv, Shutdown
<1> QED BY <1>1, <1>2, <1>3 DEF IInv

-----------------------------------------------------------------------------
LEMMA ReceiveDataInv ==
    ASSUME IInv, NEW p \in Procs, ReceiveData(p) PROVE IInv'
<1> USE DEF ReceiveData, invars, filtervars, outvars, waitvars
<1> DEFINE b == Head(inch)
<1>1. /\ b \in Buffers /\ b = inch[1]
      /\ inch' \in Seq(Buffers)
      /\ Len(inch) \in Nat \ {0} /\ Len(inch') = Len(inch) - 1
      /\ \A i \in 1..Len(inch') : inch'[i] = inch[i + 1] /\ i + 1 \in 1..Len(inch)
    BY TailFacts DEF IInv, TypeOK
<1>2. fbuf[p] = NoBuffer /\ b # NoBuffer
    BY <1>1, TopologyAssumption DEF IInv, Cursor
<1>3. TypeOK'
  <2>1. Len(inch') <= InCap
    BY <1>1, TopologyAssumption DEF IInv, TypeOK
  <2> QED BY <1>1, <2>1 DEF IInv, TypeOK
<1>4. Disjoint'
  <2>1. /\ b \notin pool /\ b # inbuf
        /\ \A q \in Procs : fbuf[q] # b
        /\ \A i \in 1..Len(inch') : inch'[i] # b
    BY <1>1 DEF IInv, Disjoint
  <2>2. fbuf' = [fbuf EXCEPT ![p] = b] /\ UNCHANGED <<inbuf, pool>>
    OBVIOUS
  <2>3. \A q \in Procs : fbuf'[q] = IF q = p THEN b ELSE fbuf[q]
    BY <2>2 DEF IInv, TypeOK
  <2>4. \A i, j \in 1..Len(inch') : i # j => inch'[i] # inch'[j]
    BY <1>1 DEF IInv, Disjoint
  <2>5. \A q \in Procs : \A i \in 1..Len(inch') : fbuf'[q] # inch'[i]
    BY <1>1, <2>1, <2>3 DEF IInv, Disjoint
  <2>6. \A i \in 1..Len(inch') : inch'[i] \notin pool' /\ inch'[i] # inbuf'
    BY <1>1, <2>2 DEF IInv, Disjoint
  <2> QED BY <2>1, <2>2, <2>3, <2>4, <2>5, <2>6 DEF IInv, Disjoint
<1>5. Cursor'
    BY <1>1, <1>2 DEF IInv, TypeOK, Cursor
<1>6. InStream' /\ Shutdown'
    BY DEF IInv, TypeOK, InStream, Shutdown
<1> QED BY <1>3, <1>4, <1>5, <1>6 DEF IInv
LEMMA FilterReturnInv ==
    ASSUME IInv, NEW p \in Procs, FilterReturn(p) PROVE IInv'
<1> USE DEF FilterReturn, invars, filtervars, outvars, waitvars
<1>1. TypeOK'
    BY DEF IInv, TypeOK
<1>2. Disjoint' /\ InStream'
    BY DEF IInv, Disjoint, InStream
<1>3. Cursor'
    BY DEF IInv, TypeOK, Cursor
<1>4. Shutdown'
    BY DEF IInv, TypeOK, Shutdown
<1> QED BY <1>1, <1>2, <1>3, <1>4 DEF IInv

\* The line a filter goroutine works on is a line of the stream.
LEMMA CurLineType ==
    ASSUME IInv, NEW p \in Procs, fbuf[p] # NoBuffer, MoreLines(p)
    PROVE  CurLine(p) \in Lines
<1>1. fbuf[p] \in Buffers /\ foff[p] \in Nat /\ mem[fbuf[p]] \in Seq(Lines)
    BY DEF IInv, TypeOK
<1>2. foff[p] + 1 \in 1..Len(mem[fbuf[p]])
    BY <1>1 DEF MoreLines
<1> QED BY <1>1, <1>2 DEF CurLine

LEMMA DiscardLineInv ==
    ASSUME IInv, NEW p \in Procs, DiscardLine(p) PROVE IInv'
<1> USE DEF DiscardLine, invars, outvars, waitvars
<1>1. TypeOK'
  <2>1. malformed' \in Nat /\ invalid' \in Nat /\ foff' \in [Procs -> Nat]
    BY DEF IInv, TypeOK
  <2>2. UNCHANGED <<invars, stopped, inch, fpc, fbuf, fcopy, outch, outvars, upl,
                    waitvars, exited>>
    OBVIOUS
  <2> HIDE DEF DiscardLine
  <2> QED BY <2>1, <2>2 DEF IInv, TypeOK
<1>2. Disjoint' /\ InStream'
    BY DEF IInv, Disjoint, InStream
<1>3. Cursor'
    BY DEF IInv, TypeOK, Cursor, MoreLines
<1>4. Shutdown'
    BY DEF IInv, Shutdown
<1> QED BY <1>1, <1>2, <1>3, <1>4 DEF IInv

LEMMA EnterChainInv ==
    ASSUME IInv, NEW p \in Procs, EnterChain(p) PROVE IInv'
<1> USE DEF EnterChain, invars, filtervars, outvars, waitvars
<1>1. TypeOK'
    BY DEF IInv, TypeOK
<1>2. Disjoint' /\ InStream'
    BY DEF IInv, Disjoint, InStream
<1>3. Cursor'
    BY DEF IInv, TypeOK, Cursor, MoreLines
<1>4. Shutdown'
    BY DEF IInv, TypeOK, Shutdown
<1> QED BY <1>1, <1>2, <1>3, <1>4 DEF IInv

LEMMA FilterChainEndInv ==
    ASSUME IInv, NEW p \in Procs, FilterChainEnd(p) PROVE IInv'
<1> USE DEF FilterChainEnd, invars, filtervars, outvars, waitvars
<1>1. fbuf[p] # NoBuffer /\ MoreLines(p)
    BY DEF IInv, Cursor, MoreLines
<1>2. CurLine(p) \in Lines
    BY <1>1, CurLineType
<1>3. TargetChan(CurLine(p)) \in Chans
    BY <1>2, TargetInChans
<1>4. TypeOK'
  <2>1. <<CurLine(p), fcopy[p]>> \in Lines \X Nat
    BY <1>2 DEF IInv, TypeOK
  <2>2. /\ outch' \in [Chans -> Seq(Lines \X Nat)]
        /\ \A i \in Chans : Len(outch'[i]) <= OutCap
    <3> DEFINE c == TargetChan(CurLine(p))
               s == Append(outch[c], <<CurLine(p), fcopy[p]>>)
    <3>1. outch[c] \in Seq(Lines \X Nat) /\ Len(outch[c]) < OutCap
      BY <1>3 DEF IInv, TypeOK
    <3>2. s \in Seq(Lines \X Nat) /\ Len(s) = Len(outch[c]) + 1
      BY <2>1, <3>1, AppendFacts
    <3>3. outch' = [outch EXCEPT ![c] = s]
      OBVIOUS
    <3>4. Len(s) <= OutCap
      BY <3>1, <3>2, TopologyAssumption
    <3> HIDE DEF c, s, FilterChainEnd
    <3> QED BY <3>2, <3>3, <3>4 DEF IInv, TypeOK
  <2>3. /\ fpc' \in [Procs -> {"recv", "lines", "send", "done"}]
        /\ foff' \in [Procs -> Nat] /\ fcopy' \in [Procs -> Nat \ {0}]
    BY DEF IInv, TypeOK
  <2>4. UNCHANGED <<invars, stopped, inch, fbuf, malformed, invalid, outvars,
                    upl, waitvars, exited>>
    OBVIOUS
  <2> HIDE DEF FilterChainEnd
  <2> QED BY <2>2, <2>3, <2>4 DEF IInv, TypeOK
<1>5. Disjoint' /\ InStream'
    BY DEF IInv, Disjoint, InStream
<1>6. Cursor'
    BY <1>1 DEF IInv, TypeOK, Cursor, MoreLines
<1>7. Shutdown'
    BY DEF IInv, TypeOK, Shutdown
<1> QED BY <1>4, <1>5, <1>6, <1>7 DEF IInv

LEMMA FreeMemInv ==
    ASSUME IInv, NEW p \in Procs, FreeMem(p) PROVE IInv'
<1> USE DEF FreeMem, invars, filtervars, outvars, waitvars
<1>1. fbuf[p] # NoBuffer /\ fbuf[p] \in Buffers
    BY DEF IInv, TypeOK, Cursor
<1>2. TypeOK'
    BY <1>1 DEF IInv, TypeOK
<1>3. Disjoint'
  <2>1. /\ \A q \in Procs : fbuf'[q] = IF q = p THEN NoBuffer ELSE fbuf[q]
        /\ pool' = pool \cup {fbuf[p]} /\ UNCHANGED <<inbuf, inch>>
    BY DEF IInv, TypeOK
  <2>2. NoBuffer \notin pool' /\ \A i \in 1..Len(inch) : inch[i] # NoBuffer
    BY <1>1, <2>1, TopologyAssumption DEF IInv, TypeOK
  <2> QED BY <1>1, <2>1, <2>2 DEF IInv, Disjoint
<1>4. Cursor'
    BY DEF IInv, TypeOK, Cursor
<1>5. InStream'
    BY DEF IInv, InStream
<1>6. Shutdown'
    BY DEF IInv, TypeOK, Shutdown
<1> QED BY <1>2, <1>3, <1>4, <1>5, <1>6 DEF IInv

-----------------------------------------------------------------------------
LEMMA ConsumeInv ==
    ASSUME IInv, NEW o \in Outputs, Consume(o) PROVE IInv'
<1> USE DEF Consume, invars, filtervars, outvars, waitvars
<1>1. TypeOK'
  <2> DEFINE s == outch[ChanOf(o)]
  <2>1. s \in Seq(Lines \X Nat) /\ s # <<>>
    BY ChanOfInChans DEF IInv, TypeOK
  <2>2. /\ Head(s) \in Lines \X Nat /\ Tail(s) \in Seq(Lines \X Nat)
        /\ Len(Tail(s)) <= OutCap
    <3>1. Len(s) <= OutCap
      BY ChanOfInChans DEF IInv, TypeOK
    <3> HIDE DEF s
    <3> QED BY <2>1, <3>1, TailFacts, TopologyAssumption
  <2>3. received[o] \in Seq(Lines \X Nat)
    BY DEF IInv, TypeOK
  <2>4. Append(received[o], Head(s)) \in Seq(Lines \X Nat)
    BY <2>2, <2>3, AppendFacts
  <2>5. /\ received' = [received EXCEPT ![o] = Append(received[o], Head(s))]
        /\ outch' = [outch EXCEPT ![ChanOf(o)] = Tail(s)]
    OBVIOUS
  <2> HIDE DEF s, Consume
  <2>6. /\ received' \in [Outputs -> Seq(Lines \X Nat)]
        /\ outch' \in [Chans -> Seq(Lines \X Nat)]
        /\ \A i \in Chans : Len(outch'[i]) <= OutCap
    BY <2>2, <2>4, <2>5 DEF IInv, TypeOK
  <2>7. UNCHANGED <<invars, stopped, inch, filtervars, opc, flushed, upl, waitvars, exited>>
    BY DEF Consume
  <2> QED BY <2>6, <2>7 DEF IInv, TypeOK
<1>2. Disjoint' /\ Cursor' /\ InStream' /\ Shutdown'
    BY DEF IInv, Disjoint, Cursor, InStream, Shutdown
<1> QED BY <1>1, <1>2 DEF IInv

LEMMA SendFileInv ==
    ASSUME IInv, NEW o \in Outputs, SendFile(o) PROVE IInv'
<1> USE DEF SendFile, invars, filtervars, outvars, waitvars
<1>1. TypeOK'
  <2>1. Len(received[o]) \in Nat
    BY DEF IInv, TypeOK
  <2> QED BY <2>1 DEF IInv, TypeOK
<1>2. Disjoint' /\ Cursor' /\ InStream' /\ Shutdown'
    BY DEF IInv, Disjoint, Cursor, InStream, Shutdown
<1> QED BY <1>1, <1>2 DEF IInv

LEMMA OutputReturnInv ==
    ASSUME IInv, NEW o \in Outputs, OutputReturn(o) PROVE IInv'
<1> USE DEF OutputReturn, invars, filtervars, outvars, waitvars
<1>1. TypeOK'
    BY DEF IInv, TypeOK
<1>2. Disjoint' /\ Cursor' /\ InStream'
    BY DEF IInv, Disjoint, Cursor, InStream
<1>3. Shutdown'
    BY DEF IInv, TypeOK, Shutdown
<1> QED BY <1>1, <1>2, <1>3 DEF IInv

LEMMA OtherInv ==
    ASSUME IInv, UploadStep \/ Interrupt \/ Fatal PROVE IInv'
<1>1. /\ UNCHANGED <<invars, inch, filtervars, outch, outvars, waitvars>>
      /\ upl' \in {"recv", "busy", "done"} /\ stopped' \in BOOLEAN
      /\ exited' \in BOOLEAN
    BY DEF UploadStep, UploadFile, UploaderReturn, Interrupt, Fatal, IInv, TypeOK
<1> USE <1>1 DEF invars, filtervars, outvars, waitvars
<1>2. TypeOK'
    BY DEF IInv, TypeOK
<1>3. Disjoint' /\ Cursor' /\ InStream' /\ Shutdown'
    BY DEF IInv, Disjoint, Cursor, InStream, Shutdown
<1> QED BY <1>2, <1>3 DEF IInv

\* Each close waits for the WaitGroup of the goroutines that send there.
LEMMA WaitInv == ASSUME IInv, Wait PROVE IInv'
<1> USE DEF Wait, invars, filtervars, outvars
<1>1. TypeOK'
  <2>1. CASE CloseInch
    BY <2>1 DEF IInv, TypeOK, CloseInch
  <2>2. CASE CloseOutch
    BY <2>2, NChansType DEF IInv, TypeOK, Shutdown, CloseOutch
  <2>3. CASE CloseUpch \/ WaitReturn
    BY <2>3 DEF IInv, TypeOK, CloseUpch, WaitReturn
  <2> QED BY <2>1, <2>2, <2>3
<1>2. Disjoint' /\ Cursor' /\ InStream'
    BY DEF IInv, Disjoint, Cursor, InStream
<1>3. Shutdown'
  <2>1. CASE CloseInch
    BY <2>1, NChansType DEF IInv, TypeOK, Shutdown, CloseInch, InputDone
  <2>2. CASE CloseOutch
    BY <2>2, NChansType DEF IInv, TypeOK, Shutdown, CloseOutch, FiltersDone
  <2>3. CASE CloseUpch
    BY <2>3 DEF IInv, TypeOK, Shutdown, CloseUpch, OutputsDone
  <2>4. CASE WaitReturn
    BY <2>4 DEF IInv, TypeOK, Shutdown, WaitReturn
  <2> QED BY <2>1, <2>2, <2>3, <2>4
<1> QED BY <1>1, <1>2, <1>3 DEF IInv

-----------------------------------------------------------------------------
LEMMA NextInv == IInv /\ [Next]_vars => IInv'
<1> SUFFICES ASSUME IInv, [Next]_vars PROVE IInv'
    OBVIOUS
<1>1. CASE UNCHANGED vars
    BY <1>1 DEF vars, invars, filtervars, outvars, waitvars, IInv, TypeOK,
                Disjoint, Cursor, InStream, Shutdown
<1>2. CASE InputStep
    BY <1>2, FillBufferInv, SendBufferInv, InputReturnInv DEF InputStep
<1>3. CASE \E p \in Procs : FilterStep(p)
    BY <1>3, ReceiveDataInv, FilterReturnInv, DiscardLineInv, EnterChainInv,
       FilterChainEndInv, FreeMemInv DEF FilterStep
<1>4. CASE \E o \in Outputs : OutputStep(o)
    BY <1>4, ConsumeInv, SendFileInv, OutputReturnInv DEF OutputStep
<1>5. CASE Wait
    BY <1>5, WaitInv
<1>6. CASE UploadStep \/ Interrupt \/ Fatal
    BY <1>6, OtherInv
<1> QED BY <1>1, <1>2, <1>3, <1>4, <1>5, <1>6 DEF Next, Step, Terminated

\* The invariant every theorem below rests on.
THEOREM Invariance == Spec => []IInv
<1>1. Init => IInv
    BY InitInv
<1>2. IInv /\ [Next]_vars => IInv'
    BY NextInv
<1> QED BY <1>1, <1>2, PTL DEF Spec

\* Type correctness of the topology, and no channel above its capacity,
\* whatever the numbers of goroutines and the capacities are.
THEOREM TypeCorrect == Spec => []TypeOK
<1>1. IInv => TypeOK
    BY DEF IInv
<1> QED BY <1>1, Invariance, PTL

\* Wait() never closes a channel one of the goroutines may still send on: the
\* shutdown sequence of topology.go cannot panic.
THEOREM SafeShutdown == Spec => []NoSendOnClosedChannel
<1>1. IInv => NoSendOnClosedChannel
    BY DEF IInv, TypeOK, Shutdown, NoSendOnClosedChannel
<1> QED BY <1>1, Invariance, PTL

-----------------------------------------------------------------------------
\* What is delivered.

\* No *Data is lost: what is not in the pool, in the input's hand or on inch
\* is with a filter goroutine.
Somewhere == \A b \in Buffers : \/ b \in pool \/ b = inbuf
                                \/ \E i \in 1..Len(inch) : inch[i] = b
                                \/ \E p \in Procs : fbuf[p] = b

\* Buffer b has been sent and not been freed: inch or a filter goroutine has it.
Held(b) == b \in Buffers /\ b \notin pool /\ b # inbuf

\* Each line produced so far is in one place of one held buffer at most, and
\* the buffer in the input's hand has the lines that come next.
LinesOnce ==
    /\ inbuf # NoBuffer => /\ Len(mem[inbuf]) > 0
                           /\ \A j \in 1..Len(mem[inbuf]) : mem[inbuf][j] = produced + j
    /\ \A b \in Buffers : Held(b) =>
          \A j \in 1..Len(mem[b]) : mem[b][j] <= produced
    /\ \A b, c \in Buffers : Held(b) /\ Held(c) =>
          \A i \in 1..Len(mem[b]), j \in 1..Len(mem[c]) :
             mem[b][i] = mem[c][j] => b = c /\ i = j

\* A filter goroutine only sends copies its line leads to.
CopyBound ==
    \A p \in Procs : fpc[p] = "send" => fcopy[p] <= Wanted[CurLine(p)]

\* Line j of buffer b is still to be dealt with by a filter goroutine.
Waiting(b, j) == /\ Held(b) /\ j \in 1..Len(mem[b])
                 /\ \A p \in Procs : fbuf[p] = b => foff[p] < j

Ahead(l) == \E b \in Buffers : \E j \in 1..Len(mem[b]) : Waiting(b, j) /\ mem[b][j] = l

\* Copies of the current line of a filter goroutine that it has sent.
Passed(r) == \E p \in Procs : fpc[p] = "send" /\ CurLine(p) = r[1] /\ r[2] < fcopy[p]

Due == {r \in Records : Ahead(r[1]) /\ ~Passed(r)}
InFlight == {r \in Records : \E i \in Chans : \E k \in 1..Len(outch[i]) : outch[i][k] = r}
Given == {r \in Records : \E o \in Outputs : \E k \in 1..Len(received[o]) : received[o][k] = r}

\* Every record of the lines produced so far is in exactly one place.
Accounted ==
    /\ \A i \in Chans : outch[i] \in Seq(Records)
    /\ \A o \in Outputs : received[o] \in Seq(Records)
    /\ Due \cup InFlight \cup Given = {r \in Records : r[1] <= produced}
    /\ Due \cap InFlight = {} /\ Due \cap Given = {} /\ InFlight \cap Given = {}
    /\ \A i, j \in Chans : \A k \in 1..Len(outch[i]), m \in 1..Len(outch[j]) :
          outch[i][k] = outch[j][m] => i = j /\ k = m
    /\ \A o, q \in Outputs : \A k \in 1..Len(received[o]), m \in 1..Len(received[q]) :
          received[o][k] = received[q][m] => o = q /\ k = m

\* The lines the filter goroutines are done with, and the counters of those
\* that went no further.
Behind == {l \in 1..produced : ~Ahead(l)}

Counted == /\ malformed = Cardinality(Malformed \cap Behind)
           /\ invalid = Cardinality((Invalid \ Malformed) \cap Behind)

\* What is known to be empty once goroutines have returned.
Drained ==
    /\ \A p \in Procs : fpc[p] = "done" => inchClosed /\ inch = <<>>
    /\ \A o \in Outputs : opc[o] = "done" =>
          /\ ChanOf(o) <= nclosed /\ outch[ChanOf(o)] = <<>>
          /\ UsesUpload => flushed[o] = Len(received[o])
    /\ wpc \in {"wgout", "wgupl", "returned"} => nclosed > 0

\* Wait() returns after the uploader.
Uploaded == wpc = "returned" => upl = "done"

\* A record is on the channel, then at an output, that its line is sharded to.
Routed ==
    /\ \A i \in Chans : \A k \in 1..Len(outch[i]) : TargetChan(outch[i][k][1]) = i
    /\ \A o \in Outputs : \A k \in 1..Len(received[o]) : TargetChan(received[o][k][1]) = ChanOf(o)

OneFilter == \A p, q \in Procs : p = q
Before(r, s) == r[1] < s[1] \/ (r[1] = s[1] /\ r[2] < s[2])

Ascending(s) == \A m, n \in 1..Len(s) : m < n => s[m] < s[n]
Below(s, t) == \A m \in 1..Len(s), n \in 1..Len(t) : s[m] < t[n]

\* The order of the stream, along the way of a line.
InOrder ==
    /\ \A b \in Buffers : Held(b) => Ascending(mem[b])
    /\ \A i, j \in 1..Len(inch) : i < j => Below(mem[inch[i]], mem[inch[j]])
    /\ \A p \in Procs : fbuf[p] # NoBuffer =>
          \A j \in 1..Len(inch) : Below(mem[fbuf[p]], mem[inch[j]])

SentInOrder == OneFilter =>
    /\ \A r \in InFlight \cup Given, s \in Due : Before(r, s)
    /\ \A i \in Chans : \A k, m \in 1..Len(outch[i]) :
          k < m => Before(outch[i][k], outch[i][m])
    /\ \A o \in Outputs : \A k, m \in 1..Len(received[o]) :
          k < m => Before(received[o][k], received[o][m])
    /\ \A o \in Outputs : \A k \in 1..Len(received[o]), m \in 1..Len(outch[ChanOf(o)]) :
          Before(received[o][k], outch[ChanOf(o)][m])

-----------------------------------------------------------------------------
(* What the steps of Next do, and what they leave alone.                   *)

\* The steps that change nothing a record or a buffer depends on.
Quiet == UNCHANGED <<invars, inch, filtervars, outch, outvars, waitvars>>

LEMMA StepCases ==
    ASSUME [Next]_vars
    PROVE  \/ \E b \in Buffers : FillBuffer(b)
           \/ SendBuffer
           \/ InputReturn
           \/ \E p \in Procs : FilterStep(p)
           \/ \E o \in Outputs : OutputStep(o)
           \/ Wait
           \/ Quiet
<1>1. CASE UploadStep \/ Interrupt \/ Fatal \/ UNCHANGED vars
  BY <1>1 DEF UploadStep, UploadFile, UploaderReturn, Interrupt, Fatal, Quiet, vars
<1> QED BY <1>1 DEF Next, Step, Terminated, InputStep

\* Only FillBuffer, SendBuffer, ReceiveData and FreeMem move a buffer.
LEMMA SomewhereStep ==
    ASSUME IInv, Somewhere, [Next]_vars PROVE Somewhere'
<1> USE DEF invars, filtervars, outvars, waitvars
<1>1. ASSUME UNCHANGED <<pool, inbuf, inch, fbuf>> PROVE Somewhere'
  BY <1>1 DEF Somewhere
<1>2. CASE \E b \in Buffers : FillBuffer(b)
  BY <1>2, TopologyAssumption DEF Somewhere, FillBuffer
<1>3. CASE SendBuffer
  <2>1. /\ Len(inch') = Len(inch) + 1 /\ Len(inch) \in Nat
        /\ \A i \in 1..Len(inch) : inch'[i] = inch[i]
        /\ inch'[Len(inch) + 1] = inbuf
    BY <1>3, AppendFacts DEF SendBuffer, IInv, TypeOK
  <2> QED BY <1>3, <2>1 DEF Somewhere, SendBuffer
<1>4. ASSUME NEW p \in Procs, ReceiveData(p) PROVE Somewhere'
  <2>1. /\ Head(inch) = inch[1] /\ Len(inch) \in Nat \ {0} /\ Len(inch') = Len(inch) - 1
        /\ \A i \in 1..Len(inch') : inch'[i] = inch[i + 1]
    BY <1>4, TailFacts DEF ReceiveData, IInv, TypeOK
  <2>2. \A i \in 1..Len(inch) : i = 1 \/ (i - 1 \in 1..Len(inch') /\ inch'[i - 1] = inch[i])
    BY <2>1
  <2>3. fbuf[p] = NoBuffer
    BY <1>4 DEF ReceiveData, IInv, Cursor
  <2>4. \A q \in Procs : fbuf'[q] = IF q = p THEN inch[1] ELSE fbuf[q]
    BY <1>4, <2>1 DEF ReceiveData, IInv, TypeOK
  <2>5. UNCHANGED <<pool, inbuf>>
    BY <1>4 DEF ReceiveData
  <2>6. fbuf'[p] = inch[1] /\ \A q \in Procs : q # p => fbuf'[q] = fbuf[q] BY <2>4
  <2> SUFFICES ASSUME NEW b \in Buffers, b \notin pool, b # inbuf
               PROVE  \/ \E i \in 1..Len(inch') : inch'[i] = b
                      \/ \E q \in Procs : fbuf'[q] = b
    BY <2>5 DEF Somewhere
  <2>7. CASE \E i \in 1..Len(inch) : inch[i] = b
    <3>1. PICK i \in 1..Len(inch) : inch[i] = b BY <2>7
    <3>2. CASE i = 1 BY <2>6, <3>1, <3>2
    <3>3. CASE i # 1
      <4>1. i - 1 \in 1..Len(inch') /\ inch'[i - 1] = b BY <2>2, <3>1, <3>3
      <4> QED BY <4>1
    <3> QED BY <3>2, <3>3
  <2>8. CASE \E q \in Procs : fbuf[q] = b
    <3>1. PICK q \in Procs : fbuf[q] = b BY <2>8
    <3>2. q # p BY <2>3, <3>1, TopologyAssumption
    <3> QED BY <2>6, <3>1, <3>2
  <2> QED BY <2>7, <2>8 DEF Somewhere
<1>5. ASSUME NEW p \in Procs, FreeMem(p) PROVE Somewhere'
  BY <1>5 DEF FreeMem, Somewhere, IInv, TypeOK
<1>6. CASE \E p \in Procs : FilterStep(p)
  BY <1>1, <1>4, <1>5, <1>6 DEF FilterStep, FilterReturn, DiscardLine, EnterChain, FilterChainEnd
<1>7. CASE \E o \in Outputs : OutputStep(o)
  BY <1>1, <1>7 DEF OutputStep, Consume, SendFile, OutputReturn
<1>8. CASE InputReturn \/ Wait \/ Quiet
  BY <1>1, <1>8 DEF InputReturn, Wait, Quiet
<1> QED BY <1>2, <1>3, <1>6, <1>7, <1>8, StepCases

\* Sending a buffer makes it held, freeing one ends that; nothing else does.
LEMMA HeldStep ==
    ASSUME IInv, NEW c \in Buffers
    PROVE  /\ \A b \in Buffers : FillBuffer(b) => (Held(c)' <=> Held(c))
           /\ SendBuffer => (Held(c)' <=> Held(c) \/ c = inbuf)
           /\ \A p \in Procs : FreeMem(p) => (Held(c)' <=> Held(c) /\ c # fbuf[p])
           /\ UNCHANGED <<pool, inbuf>> => (Held(c)' <=> Held(c))
<1>1. ASSUME NEW b \in Buffers, FillBuffer(b) PROVE Held(c)' <=> Held(c)
  BY <1>1, TopologyAssumption DEF FillBuffer, Held
<1>2. ASSUME SendBuffer PROVE Held(c)' <=> Held(c) \/ c = inbuf
  BY <1>2, TopologyAssumption DEF SendBuffer, Held, IInv, TypeOK, Disjoint, invars
<1>3. ASSUME NEW p \in Procs, FreeMem(p) PROVE Held(c)' <=> Held(c) /\ c # fbuf[p]
  BY <1>3 DEF FreeMem, Held
<1> QED BY <1>1, <1>2, <1>3 DEF Held

\* A filter goroutine holds the buffer it is inside of, and no other does.
LEMMA FilterHolds ==
    ASSUME IInv, NEW p \in Procs, fbuf[p] # NoBuffer
    PROVE  /\ fbuf[p] \in Buffers /\ Held(fbuf[p])
           /\ \A q \in Procs : fbuf[q] = fbuf[p] => q = p
  BY DEF IInv, TypeOK, Disjoint, Held

LEMMA MemType ==
    ASSUME IInv
    PROVE  /\ produced \in Nat
           /\ \A b \in Buffers : /\ Len(mem[b]) \in Nat
                                 /\ \A i \in 1..Len(mem[b]) : mem[b][i] \in Lines
<1>1. produced \in Nat
  BY TopologyAssumption DEF IInv, TypeOK
<1>2. ASSUME NEW b \in Buffers
      PROVE  Len(mem[b]) \in Nat /\ \A i \in 1..Len(mem[b]) : mem[b][i] \in Lines
  <2>1. mem[b] \in Seq(Lines)
    BY DEF IInv, TypeOK
  <2> QED BY <2>1
<1> QED BY <1>1, <1>2

\* Where the current line of a filter goroutine is.
LEMMA CursorFacts ==
    ASSUME IInv, NEW p \in Procs, fbuf[p] # NoBuffer, MoreLines(p)
    PROVE  /\ fbuf[p] \in Buffers /\ Held(fbuf[p])
           /\ foff[p] \in Nat /\ foff[p] + 1 \in 1..Len(mem[fbuf[p]])
           /\ \A q \in Procs : fbuf[q] = fbuf[p] => q = p
<1>1. fbuf[p] \in Buffers /\ foff[p] \in Nat
  BY DEF IInv, TypeOK
<1> QED BY <1>1, FilterHolds, MemType DEF MoreLines

LEMMA LinesOnceStep ==
    ASSUME IInv, LinesOnce, [Next]_vars PROVE LinesOnce'
<1> USE DEF invars, filtervars, outvars, waitvars
<1>1. ASSUME UNCHANGED <<produced, inbuf, mem, pool>> PROVE LinesOnce'
  BY <1>1 DEF LinesOnce, Held
<1>2. ASSUME NEW b \in Buffers, FillBuffer(b) PROVE LinesOnce'
  <2>1. PICK k \in 1..MaxChunk : mem' = [mem EXCEPT ![b] = [i \in 1..k |-> produced + i]]
    BY <1>2 DEF FillBuffer
  <2>2. /\ \A c \in Buffers : Held(c)' <=> Held(c)
        /\ ~Held(b) /\ inbuf' = b /\ produced' = produced
    BY <1>2, HeldStep DEF FillBuffer, Held
  <2>3. /\ Len(mem'[b]) = k /\ \A j \in 1..k : mem'[b][j] = produced + j
        /\ \A c \in Buffers : c # b => mem'[c] = mem[c]
    BY <2>1, TopologyAssumption DEF IInv, TypeOK
  <2>4. k \in Nat /\ k > 0
    BY TopologyAssumption
  <2>5. /\ \A c \in Buffers : Held(c)' => c # b /\ Held(c) /\ mem'[c] = mem[c]
        /\ produced' = produced
    BY <2>2, <2>3
  <2> HIDE DEF Held
  <2>6. \A c \in Buffers : Held(c)' => \A j \in 1..Len(mem'[c]) : mem'[c][j] <= produced'
    BY <2>5 DEF LinesOnce
  <2>7. \A c, d \in Buffers : Held(c)' /\ Held(d)' =>
           \A i \in 1..Len(mem'[c]), j \in 1..Len(mem'[d]) :
              mem'[c][i] = mem'[d][j] => c = d /\ i = j
    BY <2>5 DEF LinesOnce
  <2> QED BY <2>2, <2>3, <2>4, <2>6, <2>7 DEF LinesOnce
<1>3. CASE SendBuffer
  <2>1. /\ \A c \in Buffers : Held(c)' <=> Held(c) \/ c = inbuf
        /\ inbuf \in Buffers /\ inbuf # NoBuffer /\ inbuf' = NoBuffer /\ mem' = mem
        /\ produced' = produced + Len(mem[inbuf])
    BY <1>3, HeldStep DEF SendBuffer, IInv, TypeOK
  <2>2. /\ produced \in Nat /\ Len(mem[inbuf]) \in Nat
        /\ \A b \in Buffers : Len(mem[b]) \in Nat
        /\ \A b \in Buffers : \A i \in 1..Len(mem[b]) : mem[b][i] \in Nat
    BY <2>1, MemType DEF Lines
  <2>3. \A j \in 1..Len(mem[inbuf]) : /\ mem[inbuf][j] = produced + j
                                      /\ mem[inbuf][j] <= produced'
                                      /\ mem[inbuf][j] > produced
    BY <2>1, <2>2 DEF LinesOnce
  <2>4. \A b \in Buffers : Held(b) => \A i \in 1..Len(mem[b]) : mem[b][i] <= produced
    BY DEF LinesOnce
  <2> HIDE DEF Held
  <2>5. \A b \in Buffers : Held(b)' => \A j \in 1..Len(mem[b]) : mem[b][j] <= produced'
    <3> SUFFICES ASSUME NEW b \in Buffers, Held(b)', NEW j \in 1..Len(mem[b])
                 PROVE  mem[b][j] <= produced'
      OBVIOUS
    <3>1. CASE b = inbuf
      BY <2>3, <3>1
    <3>2. CASE b # inbuf
      <4>1. mem[b][j] <= produced
        BY <2>1, <2>4, <3>2
      <4> QED BY <2>1, <2>2, <4>1
    <3> QED BY <3>1, <3>2
  <2>6. ASSUME NEW b \in Buffers, NEW c \in Buffers, Held(b)', Held(c)',
               NEW i \in 1..Len(mem[b]), NEW j \in 1..Len(mem[c]), mem[b][i] = mem[c][j]
        PROVE  b = c /\ i = j
    <3>1. CASE b = inbuf /\ c = inbuf
      BY <2>2, <2>3, <2>6, <3>1
    <3>2. CASE b # inbuf /\ c # inbuf
      BY <2>1, <2>6, <3>2 DEF LinesOnce
    <3>3. CASE b = inbuf /\ c # inbuf
      <4>1. mem[c][j] <= produced
        BY <2>1, <2>4, <2>6, <3>3
      <4>2. mem[b][i] > produced
        BY <2>3, <3>3
      <4> QED BY <2>2, <2>6, <4>1, <4>2
    <3>4. CASE b # inbuf /\ c = inbuf
      <4>1. mem[b][i] <= produced
        BY <2>1, <2>4, <2>6, <3>4
      <4>2. mem[c][j] > produced
        BY <2>3, <3>4
      <4> QED BY <2>2, <2>6, <4>1, <4>2
    <3> QED BY <3>1, <3>2, <3>3, <3>4
  <2> QED BY <2>1, <2>5, <2>6 DEF LinesOnce
<1>4. ASSUME NEW p \in Procs, FreeMem(p) PROVE LinesOnce'
  <2>1. \A c \in Buffers : Held(c)' => Held(c)
    BY <1>4, HeldStep
  <2>2. UNCHANGED <<produced, inbuf, mem>>
    BY <1>4 DEF FreeMem
  <2> HIDE DEF Held
  <2> QED BY <2>1, <2>2 DEF LinesOnce
<1>5. CASE \E p \in Procs : FilterStep(p)
  BY <1>1, <1>4, <1>5 DEF FilterStep, ReceiveData, FilterReturn, DiscardLine, EnterChain,
                          FilterChainEnd
<1>6. CASE \E o \in Outputs : OutputStep(o)
  BY <1>1, <1>6 DEF OutputStep, Consume, SendFile, OutputReturn
<1>7. CASE InputReturn \/ Wait \/ Quiet
  BY <1>1, <1>7 DEF InputReturn, Wait, Quiet
<1> QED BY <1>2, <1>3, <1>5, <1>6, <1>7, StepCases

LEMMA WantedType == Wanted \in [Lines -> Nat]
  BY TopologyAssumption DEF Wanted

LEMMA CopyBoundStep ==
    ASSUME IInv, CopyBound, [Next]_vars PROVE CopyBound'
<1> USE DEF invars, filtervars, outvars, waitvars
<1>1. ASSUME UNCHANGED <<mem, fpc, fbuf, foff, fcopy>> PROVE CopyBound'
  BY <1>1 DEF CopyBound, CurLine
<1>2. ASSUME NEW b \in Buffers, FillBuffer(b) PROVE CopyBound'
  <2>1. /\ \A p \in Procs : fbuf[p] # b
        /\ \A c \in Buffers : c # b => mem'[c] = mem[c]
        /\ UNCHANGED <<fpc, fbuf, foff, fcopy>>
    BY <1>2 DEF FillBuffer, IInv, TypeOK, Disjoint
  <2>2. \A p \in Procs : fpc[p] = "send" => fbuf[p] \in Buffers
    BY DEF IInv, TypeOK, Cursor
  <2> QED BY <2>1, <2>2 DEF CopyBound, CurLine
<1>3. ASSUME NEW p \in Procs, FilterStep(p) PROVE CopyBound'
  <2>1. \A q \in Procs : q # p => /\ fpc'[q] = fpc[q] /\ fbuf'[q] = fbuf[q]
                                  /\ foff'[q] = foff[q] /\ fcopy'[q] = fcopy[q]
    BY <1>3 DEF FilterStep, ReceiveData, FilterReturn, DiscardLine, EnterChain,
                FilterChainEnd, FreeMem, IInv, TypeOK
  <2>2. mem' = mem
    BY <1>3 DEF FilterStep, ReceiveData, FilterReturn, DiscardLine, EnterChain,
                FilterChainEnd, FreeMem
  <2>3. fpc'[p] = "send" => fcopy'[p] <= Wanted[CurLine(p)']
    <3>1. CASE EnterChain(p)
      <4>1. CurLine(p) \in Lines /\ CurLine(p)' = CurLine(p)
        BY <3>1, CurLineType DEF EnterChain, CurLine, IInv, Cursor
      <4>2. Wanted[CurLine(p)] >= 1
        BY <3>1, <4>1, TopologyAssumption DEF EnterChain, Wanted
      <4> QED BY <3>1, <4>1, <4>2 DEF EnterChain, IInv, TypeOK
    <3>2. CASE FilterChainEnd(p)
      <4>1. CurLine(p) \in Lines
        BY <3>2, CurLineType DEF FilterChainEnd, MoreLines, IInv, Cursor
      <4>2. fcopy[p] <= Wanted[CurLine(p)] /\ fcopy[p] \in Nat \ {0}
        BY <3>2 DEF FilterChainEnd, CopyBound, IInv, TypeOK
      <4>3. Wanted[CurLine(p)] = Copies[CurLine(p)] /\ Copies[CurLine(p)] \in Nat
        BY <4>1, <4>2, TopologyAssumption DEF Wanted
      <4>4. ASSUME fpc'[p] = "send"
            PROVE /\ fcopy[p] # Copies[CurLine(p)] /\ fcopy'[p] = fcopy[p] + 1
                  /\ CurLine(p)' = CurLine(p)
        BY <3>2, <4>4 DEF FilterChainEnd, CurLine, IInv, TypeOK
      <4> QED BY <4>2, <4>3, <4>4
    <3>3. CASE ReceiveData(p) \/ FilterReturn(p) \/ DiscardLine(p) \/ FreeMem(p)
      BY <3>3 DEF ReceiveData, FilterReturn, DiscardLine, FreeMem, IInv, TypeOK
    <3> QED BY <1>3, <3>1, <3>2, <3>3 DEF FilterStep
  <2> QED BY <2>1, <2>2, <2>3 DEF CopyBound, CurLine
<1>4. CASE \E o \in Outputs : OutputStep(o)
  BY <1>1, <1>4 DEF OutputStep, Consume, SendFile, OutputReturn
<1>5. CASE SendBuffer \/ InputReturn \/ Wait \/ Quiet
  BY <1>1, <1>5 DEF SendBuffer, InputReturn, Wait, Quiet
<1> QED BY <1>2, <1>3, <1>4, <1>5, StepCases

-----------------------------------------------------------------------------
(* How each step changes the lines that are still ahead.                   *)

\* Ahead depends on these variables only.
LEMMA AheadSame ==
    ASSUME UNCHANGED <<pool, inbuf, mem, fbuf, foff>>, NEW l
    PROVE  Ahead(l)' <=> Ahead(l)
  BY DEF Ahead, Waiting, Held

LEMMA AheadFill ==
    ASSUME IInv, NEW b \in Buffers, FillBuffer(b), NEW l
    PROVE  Ahead(l)' <=> Ahead(l)
<1>1. /\ \A c \in Buffers : Held(c)' <=> Held(c)
      /\ \A c \in Buffers : Held(c) => mem'[c] = mem[c]
      /\ UNCHANGED <<fbuf, foff>>
  BY HeldStep DEF FillBuffer, Held, IInv, TypeOK, filtervars
<1> HIDE DEF Held
<1> QED BY <1>1 DEF Ahead, Waiting

LEMMA AheadSend ==
    ASSUME IInv, LinesOnce, SendBuffer, NEW l \in Lines
    PROVE  Ahead(l)' <=> Ahead(l) \/ l \in produced + 1 .. produced'
<1>1. /\ \A c \in Buffers : Held(c)' <=> Held(c) \/ c = inbuf
      /\ inbuf \in Buffers /\ ~Held(inbuf)
      /\ \A p \in Procs : fbuf[p] # inbuf
      /\ UNCHANGED <<mem, fbuf, foff>> /\ produced' = produced + Len(mem[inbuf])
  BY HeldStep DEF SendBuffer, Held, IInv, TypeOK, Disjoint, filtervars
<1>2. /\ produced \in Nat /\ Len(mem[inbuf]) \in Nat
      /\ \A j \in 1..Len(mem[inbuf]) : mem[inbuf][j] = produced + j
  BY <1>1, MemType DEF SendBuffer, LinesOnce
<1> HIDE DEF Held
<1>3. \A b \in Buffers, j \in Nat :
         Waiting(b, j)' <=> Waiting(b, j) \/ (b = inbuf /\ j \in 1..Len(mem[inbuf]))
  BY <1>1 DEF Waiting
<1>4. \A b \in Buffers : 1..Len(mem[b]) \subseteq Nat
  OBVIOUS
<1>5. Ahead(l)' <=> Ahead(l) \/ \E j \in 1..Len(mem[inbuf]) : mem[inbuf][j] = l
  BY <1>1, <1>3, <1>4 DEF Ahead, Waiting
<1>6. (\E j \in 1..Len(mem[inbuf]) : mem[inbuf][j] = l) <=> l \in produced + 1 .. produced'
  <2>1. l \in Nat
    BY DEF Lines
  <2>2. ASSUME l \in produced + 1 .. produced' PROVE \E j \in 1..Len(mem[inbuf]) : mem[inbuf][j] = l
    <3>1. l - produced \in 1..Len(mem[inbuf])
      BY <1>1, <1>2, <2>1, <2>2
    <3>2. mem[inbuf][l - produced] = l
      BY <1>2, <2>1, <3>1
    <3> QED BY <3>1, <3>2
  <2>3. ASSUME NEW j \in 1..Len(mem[inbuf]), mem[inbuf][j] = l PROVE l \in produced + 1 .. produced'
    BY <1>1, <1>2, <2>3
  <2> QED BY <2>2, <2>3
<1> QED BY <1>5, <1>6

\* The buffer that leaves inch was with no filter goroutine, and is read from
\* its first line.
LEMMA AheadReceive ==
    ASSUME IInv, NEW p \in Procs, ReceiveData(p), NEW l
    PROVE  Ahead(l)' <=> Ahead(l)
<1> DEFINE h == Head(inch)
<1>1. h = inch[1] /\ Len(inch) \in Nat \ {0}
  BY TailFacts DEF ReceiveData, IInv, TypeOK
<1>2. fbuf[p] = NoBuffer /\ \A q \in Procs : fbuf[q] # h
  BY <1>1 DEF ReceiveData, IInv, Cursor, Disjoint
<1>3. \A q \in Procs : /\ fbuf'[q] = IF q = p THEN h ELSE fbuf[q]
                       /\ foff'[q] = IF q = p THEN 0 ELSE foff[q]
  BY DEF ReceiveData, IInv, TypeOK
<1>4. mem' = mem /\ \A b \in Buffers : Held(b)' <=> Held(b)
  BY DEF ReceiveData, Held, invars
<1> HIDE DEF h, Held
<1>5. \A b \in Buffers : \A j \in 1..Len(mem[b]) : Waiting(b, j)' <=> Waiting(b, j)
  <2> SUFFICES ASSUME NEW b \in Buffers, NEW j \in 1..Len(mem[b])
               PROVE  Waiting(b, j)' <=> Waiting(b, j)
    OBVIOUS
  <2>1. (\A q \in Procs : fbuf'[q] = b => foff'[q] < j)
           <=> (\A q \in Procs : fbuf[q] = b => foff[q] < j)
    BY <1>2, <1>3, TopologyAssumption
  <2> QED BY <1>4, <2>1 DEF Waiting
<1> QED BY <1>4, <1>5 DEF Ahead

\* A buffer is freed when none of its lines is ahead.
LEMMA AheadFree ==
    ASSUME IInv, NEW p \in Procs, FreeMem(p), NEW l
    PROVE  Ahead(l)' <=> Ahead(l)
<1>1. fbuf[p] # NoBuffer /\ fbuf[p] \in Buffers /\ foff[p] \in Nat /\ ~MoreLines(p)
  BY DEF FreeMem, IInv, TypeOK, Cursor
<1>2. mem' = mem /\ foff' = foff /\ \A b \in Buffers : Held(b)' <=> Held(b) /\ b # fbuf[p]
  BY HeldStep DEF FreeMem
<1>3. \A q \in Procs : fbuf'[q] = IF q = p THEN NoBuffer ELSE fbuf[q]
  BY DEF FreeMem, IInv, TypeOK
<1>4. \A j \in 1..Len(mem[fbuf[p]]) : ~Waiting(fbuf[p], j)
  BY <1>1, MemType DEF Waiting, MoreLines
<1> HIDE DEF Held
<1>5. \A b \in Buffers : \A j \in 1..Len(mem[b]) : Waiting(b, j)' <=> Waiting(b, j)
  <2> SUFFICES ASSUME NEW b \in Buffers, NEW j \in 1..Len(mem[b])
               PROVE  Waiting(b, j)' <=> Waiting(b, j)
    OBVIOUS
  <2>1. CASE b = fbuf[p]
    BY <1>2, <1>4, <2>1 DEF Waiting
  <2>2. CASE b # fbuf[p]
    <3>1. \A q \in Procs : fbuf'[q] = b <=> fbuf[q] = b
      BY <1>3, <2>2, TopologyAssumption
    <3> QED BY <1>2, <2>2, <3>1 DEF Waiting
  <2> QED BY <2>1, <2>2
<1> QED BY <1>2, <1>5 DEF Ahead

\* Moving on to the next line leaves the current one, and only it, behind.
LEMMA AheadAdvance ==
    ASSUME IInv, LinesOnce, NEW p \in Procs, fbuf[p] # NoBuffer, MoreLines(p),
           foff' = [foff EXCEPT ![p] = @ + 1], UNCHANGED <<pool, inbuf, mem, fbuf>>, NEW l
    PROVE  Ahead(l)' <=> Ahead(l) /\ l # CurLine(p)
<1> DEFINE b0 == fbuf[p]
           j0 == foff[p] + 1
<1>1. /\ b0 \in Buffers /\ foff[p] \in Nat /\ j0 \in 1..Len(mem[b0])
      /\ Held(b0) /\ \A q \in Procs : fbuf[q] = b0 => q = p
  BY CursorFacts
<1>2. \A q \in Procs : foff'[q] = IF q = p THEN foff[p] + 1 ELSE foff[q]
  BY DEF IInv, TypeOK
<1>3. \A b \in Buffers : Held(b)' <=> Held(b)
  BY DEF Held
<1> HIDE DEF Held
<1>4. \A b \in Buffers : \A j \in 1..Len(mem[b]) :
         Waiting(b, j)' <=> Waiting(b, j) /\ ~(b = b0 /\ j = j0)
  <2> SUFFICES ASSUME NEW b \in Buffers, NEW j \in 1..Len(mem[b])
               PROVE  Waiting(b, j)' <=> Waiting(b, j) /\ ~(b = b0 /\ j = j0)
    OBVIOUS
  <2>1. CASE b = b0
    <3>1. Waiting(b, j) <=> foff[p] < j
      BY <1>1, <2>1 DEF Waiting
    <3>2. Waiting(b, j)' <=> foff[p] + 1 < j
      BY <1>1, <1>2, <1>3, <2>1 DEF Waiting
    <3> QED BY <1>1, <2>1, <3>1, <3>2, MemType
  <2>2. CASE b # b0
    <3>1. \A q \in Procs : fbuf[q] = b => foff'[q] = foff[q]
      BY <1>2, <2>2
    <3> QED BY <1>3, <2>2, <3>1 DEF Waiting
  <2> QED BY <2>1, <2>2
<1>5. CurLine(p) = mem[b0][j0]
  BY DEF CurLine
<1>6. \A b \in Buffers : \A j \in 1..Len(mem[b]) :
         Waiting(b, j) /\ mem[b][j] = CurLine(p) => b = b0 /\ j = j0
  BY <1>1, <1>5 DEF Waiting, LinesOnce
<1> HIDE DEF b0, j0
<1> QED BY <1>4, <1>5, <1>6 DEF Ahead

LEMMA CurAhead ==
    ASSUME IInv, NEW p \in Procs, fbuf[p] # NoBuffer, MoreLines(p)
    PROVE  Ahead(CurLine(p))
<1>1. /\ fbuf[p] \in Buffers /\ foff[p] \in Nat
      /\ foff[p] + 1 \in 1..Len(mem[fbuf[p]])
      /\ Held(fbuf[p]) /\ \A q \in Procs : fbuf[q] = fbuf[p] => q = p
  BY CursorFacts
<1>2. Waiting(fbuf[p], foff[p] + 1)
  BY <1>1 DEF Waiting
<1> QED BY <1>1, <1>2 DEF Ahead, CurLine

-----------------------------------------------------------------------------
(* The way of a record: Due, InFlight, Given.                              *)

LEMMA RecordsFacts ==
    /\ \A r \in Records : /\ r = <<r[1], r[2]>> /\ r[1] \in Lines
                          /\ r[2] \in 1..Wanted[r[1]] /\ r[2] \in Nat \ {0}
    /\ \A l \in Lines : \A c \in 1..Wanted[l] : <<l, c>> \in Records
  BY WantedType DEF Records

\* What a filter goroutine that is in filterChainEnd is about to send.
LEMMA Sending ==
    ASSUME IInv, LinesOnce, CopyBound, NEW p \in Procs, fpc[p] = "send"
    PROVE  /\ fbuf[p] # NoBuffer /\ MoreLines(p) /\ CurLine(p) \in Lines
           /\ fcopy[p] \in 1..Wanted[CurLine(p)] /\ Wanted[CurLine(p)] = Copies[CurLine(p)]
           /\ <<CurLine(p), fcopy[p]>> \in Due
           /\ \A q \in Procs : fpc[q] = "send" /\ CurLine(q) = CurLine(p) => q = p
<1>1. fbuf[p] # NoBuffer /\ MoreLines(p) /\ CurLine(p) \in Lines
  BY CurLineType DEF IInv, Cursor, MoreLines
<1>2. fcopy[p] \in 1..Wanted[CurLine(p)] /\ Wanted[CurLine(p)] = Copies[CurLine(p)]
  <2>1. fcopy[p] \in Nat \ {0} /\ fcopy[p] <= Wanted[CurLine(p)]
    BY DEF CopyBound, IInv, TypeOK
  <2> QED BY <1>1, <2>1, WantedType, TopologyAssumption DEF Wanted
<1>3. \A q \in Procs : fpc[q] = "send" /\ CurLine(q) = CurLine(p) => q = p
  <2> SUFFICES ASSUME NEW q \in Procs, fpc[q] = "send", CurLine(q) = CurLine(p)
               PROVE  q = p
    OBVIOUS
  <2>1. fbuf[q] # NoBuffer /\ MoreLines(q)
    BY DEF IInv, Cursor, MoreLines
  <2>2. /\ fbuf[q] \in Buffers /\ Held(fbuf[q]) /\ foff[q] + 1 \in 1..Len(mem[fbuf[q]])
        /\ fbuf[p] \in Buffers /\ Held(fbuf[p]) /\ foff[p] + 1 \in 1..Len(mem[fbuf[p]])
    BY <1>1, <2>1, CursorFacts
  <2>3. fbuf[q] = fbuf[p]
    BY <2>2 DEF LinesOnce, CurLine
  <2> QED BY <1>1, <2>3, FilterHolds
<1>4. <<CurLine(p), fcopy[p]>> \in Due
  <2>1. <<CurLine(p), fcopy[p]>> \in Records
    BY <1>1, <1>2, RecordsFacts
  <2>2. ~Passed(<<CurLine(p), fcopy[p]>>)
    BY <1>3 DEF Passed, IInv, TypeOK
  <2> QED BY <1>1, <2>1, <2>2, CurAhead DEF Due
<1> QED BY <1>1, <1>2, <1>3, <1>4

\* filterChainEnd takes one record from what is due.
LEMMA DueEnd ==
    ASSUME IInv, LinesOnce, CopyBound, NEW p \in Procs, FilterChainEnd(p)
    PROVE  Due' = Due \ {<<CurLine(p), fcopy[p]>>}
<1> USE DEF invars
<1> DEFINE l == CurLine(p)
           c == fcopy[p]
<1>1. /\ fbuf[p] # NoBuffer /\ MoreLines(p) /\ l \in Lines /\ c \in 1..Copies[l]
      /\ Wanted[l] = Copies[l] /\ Copies[l] \in Nat
      /\ \A q \in Procs : fpc[q] = "send" /\ CurLine(q) = l => q = p
  BY Sending, TopologyAssumption DEF FilterChainEnd
<1>2. \A q \in Procs : q # p => /\ fpc'[q] = fpc[q] /\ fcopy'[q] = fcopy[q]
                                /\ CurLine(q)' = CurLine(q)
  BY DEF FilterChainEnd, CurLine, IInv, TypeOK
<1>3. fpc[p] = "send" /\ UNCHANGED <<pool, inbuf, mem, fbuf>>
  BY DEF FilterChainEnd
<1>4. CASE c = Copies[l]
  <2>1. foff' = [foff EXCEPT ![p] = @ + 1] /\ fpc'[p] = "lines"
    BY <1>4 DEF FilterChainEnd, IInv, TypeOK
  <2>2. \A r \in Records : Ahead(r[1])' <=> Ahead(r[1]) /\ r[1] # l
    BY <1>1, <1>3, <2>1, AheadAdvance
  <2>3. \A r \in Records : r[1] # l => (Passed(r)' <=> Passed(r))
    BY <1>2, <2>1 DEF Passed
  <2>4. \A r \in Records : r[1] = l /\ ~Passed(r) => r = <<l, c>>
    <3> SUFFICES ASSUME NEW r \in Records, r[1] = l, ~Passed(r) PROVE r = <<l, c>>
      OBVIOUS
    <3>1. ~(r[2] < c)
      BY <1>3 DEF Passed
    <3>2. r[2] \in 1..Copies[l] /\ r = <<r[1], r[2]>>
      BY <1>1, RecordsFacts
    <3> QED BY <1>1, <1>4, <3>1, <3>2
  <2>5. <<l, c>> \in Records => <<l, c>>[1] = l
    OBVIOUS
  <2> QED BY <2>2, <2>3, <2>4, <2>5 DEF Due
<1>5. CASE c # Copies[l]
  <2>1. /\ foff' = foff /\ fpc'[p] = "send" /\ fcopy'[p] = c + 1
        /\ CurLine(p)' = l
    BY <1>5 DEF FilterChainEnd, IInv, TypeOK, CurLine
  <2>2. \A r \in Records : Ahead(r[1])' <=> Ahead(r[1])
    BY <1>3, <2>1, AheadSame
  <2>3. \A r \in Records : Passed(r)' <=> Passed(r) \/ r = <<l, c>>
    <3> SUFFICES ASSUME NEW r \in Records PROVE Passed(r)' <=> Passed(r) \/ r = <<l, c>>
      OBVIOUS
    <3>1. r = <<r[1], r[2]>> /\ r[2] \in Nat /\ c \in Nat
      BY <1>1, RecordsFacts
    <3>2. r[2] < c + 1 <=> r[2] < c \/ r[2] = c
      BY <3>1
    <3>3. r = <<l, c>> <=> l = r[1] /\ r[2] = c
      BY <3>1
    <3>4. Passed(r)' <=> \/ l = r[1] /\ r[2] < c + 1
                         \/ \E q \in Procs : q # p /\ fpc[q] = "send" /\ CurLine(q) = r[1] /\ r[2] < fcopy[q]
      BY <1>2, <2>1 DEF Passed
    <3>5. Passed(r) <=> \/ l = r[1] /\ r[2] < c
                        \/ \E q \in Procs : q # p /\ fpc[q] = "send" /\ CurLine(q) = r[1] /\ r[2] < fcopy[q]
      BY <1>3 DEF Passed
    <3> HIDE DEF l, c
    <3> QED BY <3>2, <3>3, <3>4, <3>5
  <2> QED BY <2>2, <2>3 DEF Due
<1> QED BY <1>4, <1>5

\* The input adds the records of the lines it sends.
LEMMA DueSend ==
    ASSUME IInv, LinesOnce, SendBuffer
    PROVE  Due' = Due \cup {r \in Records : r[1] \in produced + 1 .. produced'}
<1>1. \A l \in Lines : Ahead(l)' <=> Ahead(l) \/ l \in produced + 1 .. produced'
  BY AheadSend
<1>2. \A r \in Records : Passed(r)' <=> Passed(r)
  BY DEF Passed, CurLine, SendBuffer, filtervars
<1>3. \A r \in Records : Passed(r) => r[1] <= produced
  <2> SUFFICES ASSUME NEW r \in Records, NEW p \in Procs, fpc[p] = "send", CurLine(p) = r[1]
               PROVE  r[1] <= produced
    BY DEF Passed
  <2>1. fbuf[p] # NoBuffer /\ MoreLines(p)
    BY DEF IInv, Cursor, MoreLines
  <2>2. /\ fbuf[p] \in Buffers /\ Held(fbuf[p])
        /\ foff[p] + 1 \in 1..Len(mem[fbuf[p]])
    BY <2>1, CursorFacts
  <2> QED BY <2>2 DEF LinesOnce, CurLine
<1>4. \A r \in Records : r[1] \in produced + 1 .. produced' => ~Passed(r)
  BY <1>3, RecordsFacts, MemType DEF Lines
<1> QED BY <1>1, <1>2, <1>4, RecordsFacts DEF Due

\* No other step changes what is due.
LEMMA DueSame ==
    ASSUME IInv, LinesOnce, CopyBound
    PROVE  /\ \A b \in Buffers : FillBuffer(b) => Due' = Due
           /\ \A p \in Procs : ReceiveData(p) \/ FilterReturn(p) \/ DiscardLine(p)
                                 \/ EnterChain(p) \/ FreeMem(p) => Due' = Due
           /\ UNCHANGED <<pool, inbuf, mem, fpc, fbuf, foff, fcopy>> => Due' = Due
<1> USE DEF invars
<1>1. ASSUME NEW b \in Buffers, FillBuffer(b) PROVE Due' = Due
  <2>1. \A l : Ahead(l)' <=> Ahead(l)
    BY <1>1, AheadFill
  <2>2. \A p \in Procs : fpc[p] = "send" => CurLine(p)' = CurLine(p)
    BY <1>1, FilterHolds DEF FillBuffer, filtervars, CurLine, Held, IInv, TypeOK, Cursor
  <2>3. UNCHANGED <<fpc, fcopy>>
    BY <1>1 DEF FillBuffer, filtervars
  <2> QED BY <2>1, <2>2, <2>3 DEF Due, Passed
<1>2. ASSUME NEW p \in Procs,
             ReceiveData(p) \/ FilterReturn(p) \/ DiscardLine(p) \/ EnterChain(p) \/ FreeMem(p)
      PROVE  Due' = Due
  <2>1. \A q \in Procs : q # p => /\ fpc'[q] = fpc[q] /\ fcopy'[q] = fcopy[q]
                                  /\ CurLine(q)' = CurLine(q)
    BY <1>2 DEF ReceiveData, FilterReturn, DiscardLine, EnterChain, FreeMem, CurLine, IInv, TypeOK
  <2>2. fpc[p] # "send"
    BY <1>2 DEF ReceiveData, FilterReturn, DiscardLine, EnterChain, FreeMem
  <2>3. fpc'[p] = "send" => fcopy'[p] = 1
    BY <1>2 DEF ReceiveData, FilterReturn, DiscardLine, EnterChain, FreeMem, IInv, TypeOK
  <2>4. \A r \in Records : Passed(r)' <=> Passed(r)
    <3>1. \A r \in Records : fpc'[p] = "send" => ~(r[2] < fcopy'[p])
      BY <2>3, RecordsFacts
    <3> QED BY <2>1, <2>2, <3>1 DEF Passed
  <2>5. \A r \in Records : Ahead(r[1])' <=> Ahead(r[1])
    <3>1. CASE ReceiveData(p)
      BY <3>1, AheadReceive
    <3>2. CASE FreeMem(p)
      BY <3>2, AheadFree
    <3>3. CASE FilterReturn(p) \/ EnterChain(p)
      BY <3>3, AheadSame DEF FilterReturn, EnterChain
    <3>4. CASE DiscardLine(p)
      <4>1. /\ fbuf[p] # NoBuffer /\ MoreLines(p)
            /\ foff' = [foff EXCEPT ![p] = @ + 1] /\ UNCHANGED <<pool, inbuf, mem, fbuf>>
        BY <3>4 DEF DiscardLine, IInv, Cursor
      <4>2. \A l : Ahead(l)' <=> Ahead(l) /\ l # CurLine(p)
        BY <4>1, AheadAdvance
      <4>3. CurLine(p) \in Lines /\ Wanted[CurLine(p)] = 0
        BY <3>4, <4>1, CurLineType DEF DiscardLine, Wanted
      <4>4. \A r \in Records : r[1] # CurLine(p)
        BY <4>3, RecordsFacts
      <4> QED BY <4>2, <4>4
    <3> QED BY <1>2, <3>1, <3>2, <3>3, <3>4
  <2> QED BY <2>4, <2>5 DEF Due
<1>3. ASSUME UNCHANGED <<pool, inbuf, mem, fpc, fbuf, foff, fcopy>> PROVE Due' = Due
  BY <1>3, AheadSame DEF Due, Passed, CurLine
<1> QED BY <1>1, <1>2, <1>3

\* The record filterChainEnd sends joins those in flight, behind the others
\* of its channel.
LEMMA FlightEnd ==
    ASSUME IInv, LinesOnce, CopyBound, Accounted, NEW p \in Procs, FilterChainEnd(p),
           NEW i \in Chans, i = TargetChan(CurLine(p)),
           NEW r \in Records, r = <<CurLine(p), fcopy[p]>>
    PROVE  /\ outch'[i] \in Seq(Records) /\ Len(outch'[i]) = Len(outch[i]) + 1
           /\ Len(outch[i]) \in Nat /\ outch'[i][Len(outch[i]) + 1] = r
           /\ \A k \in 1..Len(outch[i]) : outch'[i][k] = outch[i][k]
           /\ \A j \in Chans : j # i => outch'[j] = outch[j]
           /\ InFlight' = InFlight \cup {r}
<1>1. /\ outch'[i] = Append(outch[i], r) /\ outch[i] \in Seq(Records)
      /\ \A j \in Chans : j # i => outch'[j] = outch[j]
  BY DEF FilterChainEnd, IInv, TypeOK, Accounted
<1>2. /\ outch'[i] \in Seq(Records) /\ Len(outch'[i]) = Len(outch[i]) + 1
      /\ Len(outch[i]) \in Nat /\ outch'[i][Len(outch[i]) + 1] = r
      /\ \A k \in 1..Len(outch[i]) : outch'[i][k] = outch[i][k]
  BY <1>1, AppendFacts
<1>3. \A k \in 1..Len(outch'[i]) : k \in 1..Len(outch[i]) \/ k = Len(outch[i]) + 1
  BY <1>2
<1>4. 1..Len(outch[i]) \subseteq 1..Len(outch'[i]) /\ Len(outch[i]) + 1 \in 1..Len(outch'[i])
  BY <1>2
<1>5. ASSUME NEW s \in Records
      PROVE  (\E j \in Chans : \E k \in 1..Len(outch'[j]) : outch'[j][k] = s)
                <=> s = r \/ \E j \in Chans : \E k \in 1..Len(outch[j]) : outch[j][k] = s
  <2>1. (\E k \in 1..Len(outch'[i]) : outch'[i][k] = s)
           <=> s = r \/ \E k \in 1..Len(outch[i]) : outch[i][k] = s
    BY <1>2, <1>3, <1>4
  <2> QED BY <1>1, <2>1
<1> QED BY <1>1, <1>2, <1>5 DEF InFlight

\* An output is given the oldest record of its channel.
LEMMA FlightConsume ==
    ASSUME IInv, Accounted, NEW o \in Outputs, Consume(o),
           NEW i \in Chans, i = ChanOf(o), NEW r, r = Head(outch[i])
    PROVE  /\ r \in Records /\ r = outch[i][1]
           /\ outch'[i] \in Seq(Records) /\ Len(outch[i]) \in Nat \ {0}
           /\ Len(outch'[i]) = Len(outch[i]) - 1
           /\ \A k \in 1..Len(outch'[i]) : outch'[i][k] = outch[i][k + 1] /\ k + 1 \in 1..Len(outch[i])
           /\ \A j \in Chans : j # i => outch'[j] = outch[j]
           /\ received'[o] \in Seq(Records) /\ Len(received[o]) \in Nat
           /\ Len(received'[o]) = Len(received[o]) + 1
           /\ received'[o][Len(received[o]) + 1] = r
           /\ \A k \in 1..Len(received[o]) : received'[o][k] = received[o][k]
           /\ \A q \in Outputs : q # o => received'[q] = received[q]
           /\ InFlight' = InFlight \ {r}
           /\ r \in InFlight
           /\ Given' = Given \cup {r}
<1>1. /\ outch'[i] = Tail(outch[i]) /\ outch[i] \in Seq(Records) /\ outch[i] # <<>>
      /\ \A j \in Chans : j # i => outch'[j] = outch[j]
      /\ received'[o] = Append(received[o], r) /\ received[o] \in Seq(Records)
      /\ \A q \in Outputs : q # o => received'[q] = received[q]
  BY DEF Consume, IInv, TypeOK, Accounted
<1>2. /\ r \in Records /\ r = outch[i][1]
      /\ outch'[i] \in Seq(Records) /\ Len(outch[i]) \in Nat \ {0}
      /\ Len(outch'[i]) = Len(outch[i]) - 1
      /\ \A k \in 1..Len(outch'[i]) : outch'[i][k] = outch[i][k + 1] /\ k + 1 \in 1..Len(outch[i])
  BY <1>1, TailFacts
<1>3. /\ received'[o] \in Seq(Records) /\ Len(received[o]) \in Nat
      /\ Len(received'[o]) = Len(received[o]) + 1
      /\ received'[o][Len(received[o]) + 1] = r
      /\ \A k \in 1..Len(received[o]) : received'[o][k] = received[o][k]
  BY <1>1, <1>2, AppendFacts
<1>4. r \in InFlight
  BY <1>2 DEF InFlight
<1>5. InFlight' = InFlight \ {r}
  <2>1. \A k \in 1..Len(outch[i]) : k = 1 \/ (k - 1 \in 1..Len(outch'[i]) /\ outch'[i][k - 1] = outch[i][k])
    BY <1>2
  <2>2. 1 \in 1..Len(outch[i])
    BY <1>2
  <2>3. \A j \in Chans : \A k \in 1..Len(outch[j]) : outch[j][k] = r => j = i /\ k = 1
    BY <1>2, <2>2 DEF Accounted
  <2>4. \A k \in 1..Len(outch'[i]) : k + 1 # 1
    BY <1>2
  <2>5. ASSUME NEW s \in Records
        PROVE  (\E j \in Chans : \E k \in 1..Len(outch'[j]) : outch'[j][k] = s)
                  <=> s # r /\ \E j \in Chans : \E k \in 1..Len(outch[j]) : outch[j][k] = s
    <3>1. ASSUME NEW j \in Chans, NEW k \in 1..Len(outch'[j]), outch'[j][k] = s
          PROVE  s # r /\ \E m \in 1..Len(outch[j]) : outch[j][m] = s
      <4>1. CASE j = i
        <5>1. k + 1 \in 1..Len(outch[i]) /\ outch[i][k + 1] = s /\ k + 1 # 1
          BY <1>2, <2>4, <3>1, <4>1
        <5> QED BY <2>3, <4>1, <5>1
      <4>2. CASE j # i
        BY <1>1, <2>3, <3>1, <4>2
      <4> QED BY <4>1, <4>2
    <3>2. ASSUME NEW j \in Chans, NEW k \in 1..Len(outch[j]), outch[j][k] = s, s # r
          PROVE  \E m \in 1..Len(outch'[j]) : outch'[j][m] = s
      <4>1. CASE j = i
        <5>1. k # 1
          BY <1>2, <3>2, <4>1
        <5> QED BY <2>1, <3>2, <4>1, <5>1
      <4>2. CASE j # i
        BY <1>1, <3>2, <4>2
      <4> QED BY <4>1, <4>2
    <3> QED BY <3>1, <3>2
  <2> QED BY <2>5 DEF InFlight
<1>6. Given' = Given \cup {r}
  <2>1. \A k \in 1..Len(received'[o]) : k \in 1..Len(received[o]) \/ k = Len(received[o]) + 1
    BY <1>3
  <2>2. 1..Len(received[o]) \subseteq 1..Len(received'[o]) /\ Len(received[o]) + 1 \in 1..Len(received'[o])
    BY <1>3
  <2>3. ASSUME NEW s \in Records
        PROVE  (\E q \in Outputs : \E k \in 1..Len(received'[q]) : received'[q][k] = s)
                  <=> s = r \/ \E q \in Outputs : \E k \in 1..Len(received[q]) : received[q][k] = s
    <3>1. (\E k \in 1..Len(received'[o]) : received'[o][k] = s)
             <=> s = r \/ \E k \in 1..Len(received[o]) : received[o][k] = s
      BY <1>3, <2>1, <2>2
    <3> QED BY <1>1, <3>1
  <2> QED BY <1>2, <2>3 DEF Given
<1> QED BY <1>1, <1>2, <1>3, <1>4, <1>5, <1>6

LEMMA AccountedStep ==
    ASSUME IInv, LinesOnce, CopyBound, Accounted, [Next]_vars PROVE Accounted'
<1> USE DEF invars, filtervars, outvars, waitvars
<1>1. ASSUME Due' = Due, UNCHANGED <<outch, received, produced>> PROVE Accounted'
  <2>1. InFlight' = InFlight /\ Given' = Given
    BY <1>1 DEF InFlight, Given
  <2> QED BY <1>1, <2>1 DEF Accounted
<1>2. CASE SendBuffer
  <2>1. /\ Due' = Due \cup {r \in Records : r[1] \in produced + 1 .. produced'}
        /\ UNCHANGED <<outch, received>>
    BY <1>2, DueSend DEF SendBuffer
  <2>2. produced' >= produced
    BY <1>2, MemType DEF SendBuffer, IInv, TypeOK
  <2>3. InFlight' = InFlight /\ Given' = Given
    BY <2>1 DEF InFlight, Given
  <2>4. produced \in Nat /\ produced' \in Nat
    BY <1>2, MemType DEF SendBuffer, IInv, TypeOK
  <2>5. \A r \in Records : (r[1] <= produced' <=> r[1] <= produced \/ r[1] \in produced + 1 .. produced')
                           /\ ~(r[1] <= produced /\ r[1] \in produced + 1 .. produced')
    BY <2>2, <2>4, RecordsFacts DEF Lines
  <2>6. /\ Due' \cup InFlight' \cup Given' = {r \in Records : r[1] <= produced'}
        /\ Due' \cap InFlight' = {} /\ Due' \cap Given' = {} /\ InFlight' \cap Given' = {}
    BY <2>1, <2>3, <2>5 DEF Accounted
  <2> QED BY <2>1, <2>6 DEF Accounted
<1>3. ASSUME NEW p \in Procs, FilterChainEnd(p) PROVE Accounted'
  <2> DEFINE r == <<CurLine(p), fcopy[p]>>
             i == TargetChan(CurLine(p))
  <2>1. r \in Due /\ r \in Records /\ i \in Chans
    BY <1>3, Sending, TargetInChans DEF Due, FilterChainEnd
  <2>2. /\ outch'[i] \in Seq(Records) /\ Len(outch'[i]) = Len(outch[i]) + 1
        /\ Len(outch[i]) \in Nat /\ outch'[i][Len(outch[i]) + 1] = r
        /\ \A k \in 1..Len(outch[i]) : outch'[i][k] = outch[i][k]
        /\ \A j \in Chans : j # i => outch'[j] = outch[j]
        /\ InFlight' = InFlight \cup {r}
    BY <1>3, <2>1, FlightEnd
  <2>3. Due' = Due \ {r} /\ UNCHANGED <<received, produced>>
    BY <1>3, DueEnd DEF FilterChainEnd
  <2>4. Given' = Given
    BY <2>3 DEF Given
  <2> HIDE DEF r, i
  <2>5. /\ Due' \cup InFlight' \cup Given' = {s \in Records : s[1] <= produced}
        /\ Due' \cap InFlight' = {} /\ Due' \cap Given' = {} /\ InFlight' \cap Given' = {}
    BY <2>1, <2>2, <2>3, <2>4 DEF Accounted
  <2>6. \A j \in Chans : \A k \in 1..Len(outch[j]) : outch[j][k] # r
    <3>1. r \notin InFlight
      BY <2>1 DEF Accounted
    <3> QED BY <2>1, <3>1 DEF InFlight
  <2>7. \A j \in Chans : \A k \in 1..Len(outch'[j]) :
           \/ k \in 1..Len(outch[j]) /\ outch'[j][k] = outch[j][k]
           \/ j = i /\ k = Len(outch[i]) + 1 /\ outch'[j][k] = r
    BY <2>2
  <2>8. \A j, m \in Chans : \A k \in 1..Len(outch'[j]), n \in 1..Len(outch'[m]) :
           outch'[j][k] = outch'[m][n] => j = m /\ k = n
    BY <2>6, <2>7 DEF Accounted
  <2>9. \A j \in Chans : outch'[j] \in Seq(Records)
    BY <2>2 DEF Accounted
  <2> QED BY <2>3, <2>5, <2>8, <2>9 DEF Accounted
<1>4. ASSUME NEW o \in Outputs, Consume(o) PROVE Accounted'
  <2> DEFINE i == ChanOf(o)
             r == Head(outch[i])
  <2>1. i \in Chans
    BY ChanOfInChans
  <2>2. /\ r \in Records /\ r = outch[i][1]
        /\ outch'[i] \in Seq(Records) /\ Len(outch[i]) \in Nat \ {0}
        /\ Len(outch'[i]) = Len(outch[i]) - 1
        /\ \A k \in 1..Len(outch'[i]) : outch'[i][k] = outch[i][k + 1] /\ k + 1 \in 1..Len(outch[i])
        /\ \A j \in Chans : j # i => outch'[j] = outch[j]
        /\ received'[o] \in Seq(Records) /\ Len(received[o]) \in Nat
        /\ Len(received'[o]) = Len(received[o]) + 1
        /\ received'[o][Len(received[o]) + 1] = r
        /\ \A k \in 1..Len(received[o]) : received'[o][k] = received[o][k]
        /\ \A q \in Outputs : q # o => received'[q] = received[q]
        /\ InFlight' = InFlight \ {r} /\ r \in InFlight
        /\ Given' = Given \cup {r}
    BY <1>4, <2>1, FlightConsume
  <2>3. /\ Due' = Due /\ produced' = produced
    BY <1>4, DueSame DEF Consume
  <2> HIDE DEF r, i
  <2>4. /\ Due' \cup InFlight' \cup Given' = {s \in Records : s[1] <= produced}
        /\ Due' \cap InFlight' = {} /\ Due' \cap Given' = {} /\ InFlight' \cap Given' = {}
    BY <2>2, <2>3 DEF Accounted
  <2>5. \A j \in Chans : outch'[j] \in Seq(Records)
    BY <2>2 DEF Accounted
  <2>6. \A q \in Outputs : received'[q] \in Seq(Records)
    BY <2>2 DEF Accounted
  <2>7. \A q \in Outputs : \A k \in 1..Len(received[q]) : received[q][k] # r
    <3>1. r \notin Given
      BY <2>2 DEF Accounted
    <3> QED BY <2>2, <3>1 DEF Given
  <2>8. \A q \in Outputs : \A k \in 1..Len(received'[q]) :
           \/ k \in 1..Len(received[q]) /\ received'[q][k] = received[q][k]
           \/ q = o /\ k = Len(received[o]) + 1 /\ received'[q][k] = r
    <3>1. \A k \in 1..Len(received'[o]) : k \in 1..Len(received[o]) \/ k = Len(received[o]) + 1
      BY <2>2
    <3> SUFFICES ASSUME NEW q \in Outputs, NEW k \in 1..Len(received'[q])
                 PROVE  \/ k \in 1..Len(received[q]) /\ received'[q][k] = received[q][k]
                        \/ q = o /\ k = Len(received[o]) + 1 /\ received'[q][k] = r
      OBVIOUS
    <3>2. CASE q = o
      BY <2>2, <3>1, <3>2
    <3>3. CASE q # o
      BY <2>2, <3>3
    <3> QED BY <3>2, <3>3
  <2>9. \A q, u \in Outputs : \A k \in 1..Len(received'[q]), n \in 1..Len(received'[u]) :
           received'[q][k] = received'[u][n] => q = u /\ k = n
    <3> SUFFICES ASSUME NEW q \in Outputs, NEW u \in Outputs, NEW k \in 1..Len(received'[q]),
                        NEW n \in 1..Len(received'[u]), received'[q][k] = received'[u][n]
                 PROVE  q = u /\ k = n
      OBVIOUS
    <3>1. CASE received'[q][k] = r
      <4>1. q = o /\ k = Len(received[o]) + 1
        BY <2>7, <2>8, <3>1
      <4>2. received'[u][n] = r
        BY <3>1
      <4>3. u = o /\ n = Len(received[o]) + 1
        BY <2>7, <2>8, <4>2
      <4> QED BY <4>1, <4>3
    <3>2. CASE received'[q][k] # r
      <4>1. /\ k \in 1..Len(received[q]) /\ received'[q][k] = received[q][k]
            /\ n \in 1..Len(received[u]) /\ received'[u][n] = received[u][n]
        BY <2>8, <3>2
      <4>2. received[q][k] = received[u][n]
        BY <4>1
      <4> QED BY <4>1, <4>2 DEF Accounted
    <3> QED BY <3>1, <3>2
  <2>10. \A j, m \in Chans : \A k \in 1..Len(outch'[j]), n \in 1..Len(outch'[m]) :
            outch'[j][k] = outch'[m][n] => j = m /\ k = n
    <3> DEFINE at(j, k) == IF j = i THEN k + 1 ELSE k
    <3>1. \A j \in Chans : \A k \in 1..Len(outch'[j]) :
             at(j, k) \in 1..Len(outch[j]) /\ outch'[j][k] = outch[j][at(j, k)]
      BY <2>2
    <3>2. \A j \in Chans : Len(outch'[j]) \in Nat
      BY <2>5
    <3>3. \A j \in Chans : \A k, n \in 1..Len(outch'[j]) : at(j, k) = at(j, n) => k = n
      BY <3>2
    <3> HIDE DEF at
    <3> SUFFICES ASSUME NEW j \in Chans, NEW m \in Chans, NEW k \in 1..Len(outch'[j]),
                        NEW n \in 1..Len(outch'[m]), outch'[j][k] = outch'[m][n]
                 PROVE  j = m /\ k = n
      OBVIOUS
    <3>4. /\ at(j, k) \in 1..Len(outch[j]) /\ at(m, n) \in 1..Len(outch[m])
          /\ outch[j][at(j, k)] = outch[m][at(m, n)]
      BY <3>1
    <3>5. j = m /\ at(j, k) = at(m, n)
      BY <3>4 DEF Accounted
    <3> QED BY <3>3, <3>5
  <2> QED BY <2>3, <2>4, <2>5, <2>6, <2>9, <2>10 DEF Accounted
<1>5. CASE \E b \in Buffers : FillBuffer(b)
  BY <1>1, <1>5, DueSame DEF FillBuffer
<1>6. CASE \E p \in Procs : FilterStep(p)
  <2>1. \A p \in Procs : ReceiveData(p) \/ FilterReturn(p) \/ DiscardLine(p) \/ EnterChain(p)
                            \/ FreeMem(p) => UNCHANGED <<outch, received, produced>>
    BY DEF ReceiveData, FilterReturn, DiscardLine, EnterChain, FreeMem
  <2> QED BY <1>1, <1>3, <1>6, <2>1, DueSame DEF FilterStep
<1>7. ASSUME NEW o \in Outputs, SendFile(o) \/ OutputReturn(o) PROVE Accounted'
  BY <1>1, <1>7, DueSame DEF SendFile, OutputReturn
<1>8. CASE InputReturn \/ Wait \/ Quiet
  BY <1>1, <1>8, DueSame DEF InputReturn, Wait, Quiet
<1> QED BY <1>2, <1>4, <1>5, <1>6, <1>7, <1>8, StepCases DEF OutputStep

-----------------------------------------------------------------------------
(* The counters of malformed and invalid lines.                            *)

LEMMA BehindFinite == ASSUME IInv, NEW S PROVE IsFiniteSet(S \cap Behind)
<1>1. IsFiniteSet(1..produced)
  BY MemType, FS_Interval
<1> QED BY <1>1, FS_Subset DEF Behind

LEMMA BehindAdvance ==
    ASSUME IInv, LinesOnce, NEW p \in Procs, fbuf[p] # NoBuffer, MoreLines(p),
           foff' = [foff EXCEPT ![p] = @ + 1],
           UNCHANGED <<produced, pool, inbuf, mem, fbuf>>
    PROVE  /\ Behind' = Behind \cup {CurLine(p)}
           /\ CurLine(p) \notin Behind
<1>1. \A l : Ahead(l)' <=> Ahead(l) /\ l # CurLine(p)
  BY AheadAdvance
<1>2. CurLine(p) \in 1..produced
  <2>1. CurLine(p) <= produced
    BY CursorFacts DEF LinesOnce, CurLine
  <2> QED BY <2>1, CurLineType, MemType DEF Lines
<1>3. Ahead(CurLine(p))
  BY CurAhead
<1>4. \A l \in 1..produced : Ahead(l)' <=> Ahead(l) /\ l # CurLine(p)
  BY <1>1
<1> QED BY <1>2, <1>3, <1>4 DEF Behind

LEMMA BehindSame ==
    ASSUME IInv, LinesOnce
    PROVE  /\ SendBuffer => Behind' = Behind
           /\ \A b \in Buffers : FillBuffer(b) => Behind' = Behind
           /\ \A p \in Procs : ReceiveData(p) \/ FreeMem(p) => Behind' = Behind
           /\ UNCHANGED <<produced, pool, inbuf, mem, fbuf, foff>> => Behind' = Behind
<1>1. ASSUME SendBuffer PROVE Behind' = Behind
  <2>1. \A l \in Lines : Ahead(l)' <=> Ahead(l) \/ l \in produced + 1 .. produced'
    BY <1>1, AheadSend
  <2>2. produced \in Nat /\ produced' \in Nat /\ produced <= produced' /\ produced' <= NLines
    <3>1. /\ inbuf \in Buffers /\ produced \in Nat /\ produced + Len(mem[inbuf]) <= NLines
          /\ produced' = produced + Len(mem[inbuf])
      BY <1>1, MemType DEF SendBuffer, IInv, TypeOK, InStream
    <3>2. Len(mem[inbuf]) \in Nat
      BY <3>1, MemType
    <3> QED BY <3>1, <3>2, TopologyAssumption
  <2>3. 1..produced' \subseteq Lines /\ 1..produced \subseteq 1..produced'
    BY <2>2, TopologyAssumption DEF Lines
  <2>4. \A l \in 1..produced' : l \in 1..produced \/ l \in produced + 1 .. produced'
    BY <2>2
  <2>5. \A l \in 1..produced : ~(l \in produced + 1 .. produced')
    BY <2>2
  <2> QED BY <2>1, <2>3, <2>4, <2>5 DEF Behind
<1>2. ASSUME NEW b \in Buffers, FillBuffer(b) PROVE Behind' = Behind
  BY <1>2, AheadFill DEF FillBuffer, Behind
<1>3. ASSUME NEW p \in Procs, ReceiveData(p) \/ FreeMem(p) PROVE Behind' = Behind
  <2>1. produced' = produced
    BY <1>3 DEF ReceiveData, FreeMem, invars
  <2>2. \A l \in 1..produced : Ahead(l)' <=> Ahead(l)
    BY <1>3, AheadReceive, AheadFree
  <2> QED BY <2>1, <2>2 DEF Behind
<1>4. ASSUME UNCHANGED <<produced, pool, inbuf, mem, fbuf, foff>> PROVE Behind' = Behind
  BY <1>4, AheadSame DEF Behind
<1> QED BY <1>1, <1>2, <1>3, <1>4

LEMMA CountedStep ==
    ASSUME IInv, LinesOnce, CopyBound, Counted, [Next]_vars PROVE Counted'
<1> USE DEF invars, filtervars, outvars, waitvars
<1>1. ASSUME Behind' = Behind, UNCHANGED <<malformed, invalid>> PROVE Counted'
  BY <1>1 DEF Counted
<1>2. ASSUME NEW p \in Procs, DiscardLine(p) PROVE Counted'
  <2> DEFINE l == CurLine(p)
  <2>1. Behind' = Behind \cup {l} /\ l \notin Behind
    BY <1>2, BehindAdvance DEF DiscardLine, IInv, Cursor
  <2>2. ASSUME NEW S, NEW n \in Nat, n = Cardinality(S \cap Behind)
        PROVE  Cardinality(S \cap Behind') = IF l \in S THEN n + 1 ELSE n
    <3>1. IsFiniteSet(S \cap Behind)
      BY BehindFinite
    <3>2. CASE l \in S
      <4>1. S \cap Behind' = (S \cap Behind) \cup {l}
        BY <2>1, <3>2
      <4> QED BY <2>1, <2>2, <3>1, <3>2, <4>1, FS_AddElement
    <3>3. CASE l \notin S
      <4>1. S \cap Behind' = S \cap Behind
        BY <2>1, <3>3
      <4> QED BY <2>2, <3>3, <4>1
    <3> QED BY <3>2, <3>3
  <2>3. /\ malformed \in Nat /\ malformed = Cardinality(Malformed \cap Behind)
        /\ invalid \in Nat /\ invalid = Cardinality((Invalid \ Malformed) \cap Behind)
    BY DEF Counted, IInv, TypeOK
  <2>4. /\ malformed' = IF l \in Malformed THEN malformed + 1 ELSE malformed
        /\ invalid' = IF l \in Invalid \ Malformed THEN invalid + 1 ELSE invalid
    BY <1>2 DEF DiscardLine
  <2> HIDE DEF l
  <2> QED BY <2>2, <2>3, <2>4 DEF Counted
<1>3. ASSUME NEW p \in Procs, FilterChainEnd(p) PROVE Counted'
  <2>1. UNCHANGED <<malformed, invalid, produced, pool, inbuf, mem, fbuf>>
    BY <1>3 DEF FilterChainEnd
  <2>2. /\ fbuf[p] # NoBuffer /\ MoreLines(p) /\ CurLine(p) \in Lines
        /\ fcopy[p] \in 1..Wanted[CurLine(p)]
    BY <1>3, Sending DEF FilterChainEnd
  <2>3. CASE foff' = foff
    BY <1>1, <2>1, <2>3, BehindSame
  <2>4. CASE foff' = [foff EXCEPT ![p] = @ + 1]
    <3>1. Behind' = Behind \cup {CurLine(p)}
      BY <2>1, <2>2, <2>4, BehindAdvance
    <3>2. CurLine(p) \notin Malformed \cup Invalid
      BY <2>2 DEF Wanted
    <3>3. /\ Malformed \cap Behind' = Malformed \cap Behind
          /\ (Invalid \ Malformed) \cap Behind' = (Invalid \ Malformed) \cap Behind
      BY <3>1, <3>2
    <3> QED BY <2>1, <3>3 DEF Counted
  <2>5. foff' = foff \/ foff' = [foff EXCEPT ![p] = @ + 1]
    BY <1>3 DEF FilterChainEnd, IInv, TypeOK
  <2> QED BY <2>3, <2>4, <2>5
<1>4. ASSUME NEW p \in Procs, FilterReturn(p) \/ EnterChain(p) \/ ReceiveData(p) \/ FreeMem(p)
      PROVE  Counted'
  BY <1>1, <1>4, BehindSame DEF FilterReturn, EnterChain, ReceiveData, FreeMem
<1>5. CASE SendBuffer \/ \E b \in Buffers : FillBuffer(b)
  BY <1>1, <1>5, BehindSame DEF SendBuffer, FillBuffer
<1>6. CASE \E o \in Outputs : OutputStep(o)
  BY <1>1, <1>6, BehindSame DEF OutputStep, Consume, SendFile, OutputReturn
<1>7. CASE InputReturn \/ Wait \/ Quiet
  BY <1>1, <1>7, BehindSame DEF InputReturn, Wait, Quiet
<1> QED BY <1>2, <1>3, <1>4, <1>5, <1>6, <1>7, StepCases DEF FilterStep

-----------------------------------------------------------------------------
(* What the goroutines leave behind when they return.                      *)

LEMMA DrainedStep ==
    ASSUME IInv, Drained, [Next]_vars PROVE Drained'
<1> USE DEF invars, filtervars, outvars, waitvars
<1>1. ASSUME UNCHANGED <<fpc, inchClosed, inch, opc, nclosed, outch, flushed, received, wpc, upchClosed>>
      PROVE  Drained'
  BY <1>1 DEF Drained
<1>2. ASSUME SendBuffer PROVE Drained'
  <2>1. ~inchClosed
    BY <1>2 DEF SendBuffer, IInv, Shutdown
  <2> QED BY <1>2, <2>1 DEF Drained, SendBuffer
<1>3. ASSUME NEW p \in Procs, FilterStep(p) PROVE Drained'
  <2>1. UNCHANGED <<inchClosed, opc, nclosed, flushed, received, wpc, upchClosed>>
    BY <1>3 DEF FilterStep, ReceiveData, FilterReturn, DiscardLine, EnterChain, FilterChainEnd, FreeMem
  <2>2. \A q \in Procs : fpc'[q] = "done" => inchClosed /\ inch' = <<>>
    BY <1>3 DEF FilterStep, ReceiveData, FilterReturn, DiscardLine, EnterChain, FilterChainEnd,
                FreeMem, Drained, IInv, TypeOK
  <2>3. CASE outch' = outch
    BY <2>1, <2>2, <2>3 DEF Drained
  <2>4. CASE FilterChainEnd(p)
    <3>1. nclosed = 0
      BY <2>4, NChansType DEF FilterChainEnd, IInv, Shutdown, TypeOK
    <3>2. \A o \in Outputs : opc[o] # "done"
      BY <3>1, ChanOfInChans, NChansType DEF Drained, Chans
    <3> QED BY <2>1, <2>2, <3>2 DEF Drained
  <2> QED BY <1>3, <2>3, <2>4 DEF FilterStep, ReceiveData, FilterReturn, DiscardLine,
                                  EnterChain, FreeMem
<1>4. ASSUME NEW o \in Outputs, Consume(o) PROVE Drained'
  <2>1. \A q \in Outputs : opc[q] = "done" => ChanOf(q) # ChanOf(o)
    BY <1>4 DEF Drained, Consume
  <2>2. /\ \A q \in Outputs : q # o => received'[q] = received[q]
        /\ \A i \in Chans : i # ChanOf(o) => outch'[i] = outch[i]
        /\ opc[o] # "done"
        /\ UNCHANGED <<fpc, inchClosed, inch, opc, nclosed, flushed, wpc, upchClosed>>
    BY <1>4 DEF Consume, IInv, TypeOK
  <2> QED BY <2>1, <2>2, ChanOfInChans DEF Drained
<1>5. ASSUME NEW o \in Outputs, SendFile(o) \/ OutputReturn(o) PROVE Drained'
  BY <1>5 DEF SendFile, OutputReturn, Drained, IInv, TypeOK
<1>6. CASE Wait
  <2>1. UNCHANGED <<fpc, inch, opc, outch, flushed, received>>
    BY <1>6 DEF Wait
  <2>2. /\ inchClosed => inchClosed'
        /\ nclosed' >= nclosed /\ nclosed \in Nat /\ nclosed' \in Nat
    BY <1>6, NChansType DEF Wait, CloseInch, CloseOutch, CloseUpch, WaitReturn, IInv, TypeOK
  <2>3. wpc' \in {"wgout", "wgupl", "returned"} => nclosed' > 0
    BY <1>6, <2>2 DEF Wait, CloseInch, CloseOutch, CloseUpch, WaitReturn, Drained,
                      IInv, Shutdown
  <2>4. \A o \in Outputs : opc[o] = "done" => ChanOf(o) <= nclosed'
    BY <2>2, ChanOfInChans, NChansType DEF Drained, Chans
  <2> QED BY <2>1, <2>2, <2>3, <2>4 DEF Drained
<1>7. CASE InputReturn \/ Quiet \/ \E b \in Buffers : FillBuffer(b)
  BY <1>1, <1>7 DEF InputReturn, Quiet, FillBuffer
<1> QED BY <1>2, <1>3, <1>4, <1>5, <1>6, <1>7, StepCases DEF OutputStep

LEMMA UploadedStep ==
    ASSUME IInv, Uploaded, [Next]_vars PROVE Uploaded'
<1> USE DEF invars, filtervars, outvars, waitvars
<1>1. ASSUME UNCHANGED <<upl, wpc>> PROVE Uploaded'
  BY <1>1 DEF Uploaded
<1>2. CASE Wait
  BY <1>2 DEF Wait, CloseInch, CloseOutch, CloseUpch, WaitReturn, UploadDone, Uploaded
<1>3. ASSUME NEW o \in Outputs, OutputStep(o) PROVE Uploaded'
  BY <1>3 DEF OutputStep, Consume, SendFile, OutputReturn, Uploaded, IInv, Shutdown
<1>4. CASE UploadStep
  BY <1>4 DEF UploadStep, UploadFile, UploaderReturn, Uploaded
<1>5. CASE InputStep \/ Interrupt \/ Fatal \/ UNCHANGED vars
  BY <1>1, <1>5 DEF InputStep, FillBuffer, SendBuffer, InputReturn, Interrupt, Fatal, vars
<1>6. CASE \E p \in Procs : FilterStep(p)
  BY <1>1, <1>6 DEF FilterStep, ReceiveData, FilterReturn, DiscardLine, EnterChain,
                    FilterChainEnd, FreeMem
<1> QED BY <1>2, <1>3, <1>4, <1>5, <1>6 DEF Next, Step, Terminated

-----------------------------------------------------------------------------
(* Sharding.                                                               *)

LEMMA RoutedStep ==
    ASSUME IInv, LinesOnce, CopyBound, Accounted, Routed, [Next]_vars PROVE Routed'
<1> USE DEF invars, filtervars, outvars, waitvars
<1>1. ASSUME UNCHANGED <<outch, received>> PROVE Routed'
  BY <1>1 DEF Routed
<1>2. ASSUME NEW p \in Procs, FilterChainEnd(p) PROVE Routed'
  <2> DEFINE r == <<CurLine(p), fcopy[p]>>
             i == TargetChan(CurLine(p))
  <2>1. r \in Records /\ i \in Chans
    BY <1>2, Sending, TargetInChans DEF Due, FilterChainEnd
  <2>2. /\ Len(outch'[i]) = Len(outch[i]) + 1
        /\ Len(outch[i]) \in Nat /\ outch'[i][Len(outch[i]) + 1] = r
        /\ \A k \in 1..Len(outch[i]) : outch'[i][k] = outch[i][k]
        /\ \A j \in Chans : j # i => outch'[j] = outch[j]
    BY <1>2, <2>1, FlightEnd
  <2>3. TargetChan(r[1]) = i /\ received' = received
    BY <1>2 DEF FilterChainEnd
  <2> HIDE DEF r, i
  <2>4. \A k \in 1..Len(outch'[i]) : TargetChan(outch'[i][k][1]) = i
    <3>1. \A k \in 1..Len(outch'[i]) : k \in 1..Len(outch[i]) \/ k = Len(outch[i]) + 1
      BY <2>2
    <3> QED BY <2>1, <2>2, <2>3, <3>1 DEF Routed
  <2> QED BY <2>2, <2>3, <2>4 DEF Routed
<1>3. ASSUME NEW o \in Outputs, Consume(o) PROVE Routed'
  <2> DEFINE i == ChanOf(o)
             r == Head(outch[i])
  <2>1. i \in Chans
    BY ChanOfInChans
  <2>2. /\ r = outch[i][1] /\ Len(outch[i]) \in Nat \ {0}
        /\ \A k \in 1..Len(outch'[i]) : outch'[i][k] = outch[i][k + 1] /\ k + 1 \in 1..Len(outch[i])
        /\ \A j \in Chans : j # i => outch'[j] = outch[j]
        /\ Len(received[o]) \in Nat /\ Len(received'[o]) = Len(received[o]) + 1
        /\ received'[o][Len(received[o]) + 1] = r
        /\ \A k \in 1..Len(received[o]) : received'[o][k] = received[o][k]
        /\ \A q \in Outputs : q # o => received'[q] = received[q]
    BY <1>3, <2>1, FlightConsume
  <2>3. 1 \in 1..Len(outch[i])
    BY <2>2
  <2>4. TargetChan(r[1]) = ChanOf(o)
    BY <2>1, <2>2, <2>3 DEF Routed
  <2> HIDE DEF r, i
  <2>5. \A j \in Chans : \A k \in 1..Len(outch'[j]) : TargetChan(outch'[j][k][1]) = j
    <3>1. \A j \in Chans : j # i => outch'[j] = outch[j]
      BY <2>2
    <3>2. \A k \in 1..Len(outch'[i]) : TargetChan(outch[i][k + 1][1]) = i
      BY <2>1, <2>2 DEF Routed
    <3>3. \A k \in 1..Len(outch'[i]) : TargetChan(outch'[i][k][1]) = i
      BY <2>2, <3>2
    <3> QED BY <3>1, <3>3 DEF Routed
  <2>6. \A k \in 1..Len(received'[o]) : TargetChan(received'[o][k][1]) = ChanOf(o)
    <3>1. \A k \in 1..Len(received'[o]) : k \in 1..Len(received[o]) \/ k = Len(received[o]) + 1
      BY <2>2
    <3> QED BY <2>2, <2>4, <3>1 DEF Routed
  <2> QED BY <2>2, <2>5, <2>6 DEF Routed
<1>4. CASE \E p \in Procs : FilterStep(p)
  BY <1>1, <1>2, <1>4 DEF FilterStep, ReceiveData, FilterReturn, DiscardLine, EnterChain, FreeMem
<1>5. ASSUME NEW o \in Outputs, SendFile(o) \/ OutputReturn(o) PROVE Routed'
  BY <1>1, <1>5 DEF SendFile, OutputReturn
<1>6. CASE SendBuffer \/ InputReturn \/ Wait \/ Quiet \/ \E b \in Buffers : FillBuffer(b)
  BY <1>1, <1>6 DEF SendBuffer, InputReturn, Wait, Quiet, FillBuffer
<1> QED BY <1>3, <1>4, <1>5, <1>6, StepCases DEF OutputStep

-----------------------------------------------------------------------------
(* The order of the stream.                                                *)

LEMMA InOrderStep ==
    ASSUME IInv, LinesOnce, InOrder, [Next]_vars PROVE InOrder'
<1> USE DEF invars, filtervars, outvars, waitvars
<1>1. ASSUME UNCHANGED <<pool, inbuf, mem, inch, fbuf>> PROVE InOrder'
  BY <1>1 DEF InOrder, Held
<1>2. ASSUME NEW b \in Buffers, FillBuffer(b) PROVE InOrder'
  <2>1. /\ \A c \in Buffers : Held(c)' <=> Held(c)
        /\ \A c \in Buffers : Held(c) => mem'[c] = mem[c]
        /\ \A i \in 1..Len(inch) : mem'[inch[i]] = mem[inch[i]]
        /\ \A p \in Procs : fbuf[p] # NoBuffer => mem'[fbuf[p]] = mem[fbuf[p]]
        /\ UNCHANGED <<inch, fbuf>>
    <3>1. \A c \in Buffers : c # b => mem'[c] = mem[c]
      BY <1>2 DEF FillBuffer, IInv, TypeOK
    <3>2. \A i \in 1..Len(inch) : inch[i] \in Buffers /\ inch[i] # b
      BY <1>2 DEF FillBuffer, IInv, TypeOK, Disjoint
    <3>3. \A p \in Procs : fbuf[p] # NoBuffer => fbuf[p] \in Buffers /\ fbuf[p] # b
      BY <1>2 DEF FillBuffer, IInv, TypeOK, Disjoint
    <3> QED BY <1>2, <3>1, <3>2, <3>3, HeldStep DEF FillBuffer, Held
  <2> HIDE DEF Held
  <2> QED BY <2>1 DEF InOrder
<1>3. CASE SendBuffer
  <2>1. /\ inbuf \in Buffers /\ inbuf # NoBuffer /\ inch \in Seq(Buffers)
        /\ UNCHANGED <<mem, fbuf>>
        /\ \A c \in Buffers : Held(c)' <=> Held(c) \/ c = inbuf
    BY <1>3, HeldStep DEF SendBuffer, IInv, TypeOK
  <2>2. /\ Len(inch') = Len(inch) + 1 /\ Len(inch) \in Nat
        /\ \A i \in 1..Len(inch) : inch'[i] = inch[i]
        /\ inch'[Len(inch) + 1] = inbuf
    BY <1>3, <2>1, AppendFacts DEF SendBuffer
  <2>3. /\ produced \in Nat
        /\ \A b \in Buffers : Len(mem[b]) \in Nat /\ \A i \in 1..Len(mem[b]) : mem[b][i] \in Nat
    BY MemType DEF Lines
  <2>4. \A j \in 1..Len(mem[inbuf]) : mem[inbuf][j] = produced + j
    BY <2>1 DEF LinesOnce
  <2>5. \A i \in 1..Len(inch) : /\ inch[i] \in Buffers
                                /\ \A m \in 1..Len(mem[inch[i]]) : mem[inch[i]][m] <= produced
    <3>1. \A i \in 1..Len(inch) : inch[i] \in Buffers /\ Held(inch[i])
      BY <2>1 DEF Held, IInv, Disjoint
    <3> QED BY <3>1 DEF LinesOnce
  <2>6. \A p \in Procs : fbuf[p] # NoBuffer =>
           fbuf[p] \in Buffers /\ \A m \in 1..Len(mem[fbuf[p]]) : mem[fbuf[p]][m] <= produced
    BY FilterHolds DEF LinesOnce
  <2> HIDE DEF Held
  <2>7. \A i \in 1..Len(inch') : i \in 1..Len(inch) \/ i = Len(inch) + 1
    BY <2>2
  <2>8. \A b \in Buffers : Held(b)' => Ascending(mem[b])
    <3>1. Ascending(mem[inbuf])
      BY <2>1, <2>3, <2>4 DEF Ascending
    <3> QED BY <2>1, <3>1 DEF InOrder
  <2>9. ASSUME NEW c \in Buffers, \A m \in 1..Len(mem[c]) : mem[c][m] <= produced
        PROVE  Below(mem[c], mem[inbuf])
    <3> SUFFICES ASSUME NEW m \in 1..Len(mem[c]), NEW j \in 1..Len(mem[inbuf])
                 PROVE  mem[c][m] < mem[inbuf][j]
      BY DEF Below
    <3>1. mem[c][m] \in Nat /\ mem[c][m] <= produced
      BY <2>3, <2>9
    <3>2. mem[inbuf][j] = produced + j /\ j \in Nat \ {0}
      BY <2>1, <2>3, <2>4
    <3> QED BY <2>3, <3>1, <3>2
  <2>10. \A i, j \in 1..Len(inch') : i < j => Below(mem[inch'[i]], mem[inch'[j]])
    <3> SUFFICES ASSUME NEW i \in 1..Len(inch'), NEW j \in 1..Len(inch'), i < j
                 PROVE  Below(mem[inch'[i]], mem[inch'[j]])
      OBVIOUS
    <3>1. i \in 1..Len(inch)
      BY <2>2
    <3>2. CASE j \in 1..Len(inch)
      BY <2>2, <3>1, <3>2 DEF InOrder
    <3>3. CASE j = Len(inch) + 1
      <4>1. inch'[i] = inch[i] /\ inch'[j] = inbuf
        BY <2>2, <3>1, <3>3
      <4> QED BY <2>5, <2>9, <3>1, <4>1
    <3> QED BY <2>7, <3>2, <3>3
  <2>11. \A p \in Procs : fbuf[p] # NoBuffer =>
            \A j \in 1..Len(inch') : Below(mem[fbuf[p]], mem[inch'[j]])
    <3> SUFFICES ASSUME NEW p \in Procs, fbuf[p] # NoBuffer, NEW j \in 1..Len(inch')
                 PROVE  Below(mem[fbuf[p]], mem[inch'[j]])
      OBVIOUS
    <3>1. CASE j \in 1..Len(inch)
      BY <2>2, <3>1 DEF InOrder
    <3>2. CASE j = Len(inch) + 1
      BY <2>2, <2>6, <2>9, <3>2
    <3> QED BY <2>7, <3>1, <3>2
  <2> QED BY <2>1, <2>8, <2>10, <2>11 DEF InOrder
<1>4. ASSUME NEW p \in Procs, ReceiveData(p) PROVE InOrder'
  <2>1. /\ Head(inch) = inch[1] /\ Len(inch) \in Nat \ {0} /\ Len(inch') = Len(inch) - 1
        /\ \A i \in 1..Len(inch') : inch'[i] = inch[i + 1] /\ i + 1 \in 1..Len(inch)
    BY <1>4, TailFacts DEF ReceiveData, IInv, TypeOK
  <2>2. /\ \A q \in Procs : fbuf'[q] = IF q = p THEN inch[1] ELSE fbuf[q]
        /\ UNCHANGED <<mem, pool, inbuf>>
    BY <1>4, <2>1 DEF ReceiveData, IInv, TypeOK
  <2>3. 1 \in 1..Len(inch) /\ \A i \in 1..Len(inch') : 1 < i + 1
    BY <2>1
  <2>4. \A i, j \in 1..Len(inch') : i < j => i + 1 < j + 1
    BY <2>1
  <2>5. \A i, j \in 1..Len(inch') : i < j => Below(mem[inch'[i]], mem[inch'[j]])
    BY <2>1, <2>4 DEF InOrder
  <2>6. \A q \in Procs : fbuf'[q] # NoBuffer =>
           \A j \in 1..Len(inch') : Below(mem[fbuf'[q]], mem[inch'[j]])
    BY <2>1, <2>2, <2>3 DEF InOrder
  <2>7. \A b \in Buffers : Held(b)' <=> Held(b)
    BY <2>2 DEF Held
  <2> HIDE DEF Held
  <2> QED BY <2>2, <2>5, <2>6, <2>7 DEF InOrder
<1>5. ASSUME NEW p \in Procs, FreeMem(p) PROVE InOrder'
  <2>1. /\ \A q \in Procs : fbuf'[q] = IF q = p THEN NoBuffer ELSE fbuf[q]
        /\ UNCHANGED <<mem, inch>> /\ \A c \in Buffers : Held(c)' => Held(c)
    BY <1>5, HeldStep DEF FreeMem, IInv, TypeOK
  <2> HIDE DEF Held
  <2> QED BY <2>1 DEF InOrder
<1>6. CASE \E p \in Procs : FilterStep(p)
  BY <1>1, <1>4, <1>5, <1>6 DEF FilterStep, FilterReturn, DiscardLine, EnterChain, FilterChainEnd
<1>7. CASE \E o \in Outputs : OutputStep(o)
  BY <1>1, <1>7 DEF OutputStep, Consume, SendFile, OutputReturn
<1>8. CASE InputReturn \/ Wait \/ Quiet
  BY <1>1, <1>8 DEF InputReturn, Wait, Quiet
<1> QED BY <1>2, <1>3, <1>6, <1>7, <1>8, StepCases

\* The only filter goroutine sends the first of the records that are due.
LEMMA FirstDue ==
    ASSUME IInv, Somewhere, LinesOnce, CopyBound, InOrder, OneFilter,
           NEW p \in Procs, fpc[p] = "send", NEW s \in Due, s # <<CurLine(p), fcopy[p]>>
    PROVE  Before(<<CurLine(p), fcopy[p]>>, s)
<1>1. /\ fbuf[p] # NoBuffer /\ MoreLines(p) /\ CurLine(p) \in Lines /\ fcopy[p] \in Nat
  BY Sending DEF IInv, TypeOK
<1>2. /\ fbuf[p] \in Buffers /\ Held(fbuf[p])
      /\ foff[p] \in Nat /\ foff[p] + 1 \in 1..Len(mem[fbuf[p]])
  BY <1>1, CursorFacts
<1>3. PICK b \in Buffers : \E j \in 1..Len(mem[b]) : Waiting(b, j) /\ mem[b][j] = s[1]
  BY DEF Due, Ahead
<1>4. PICK j \in 1..Len(mem[b]) : Waiting(b, j) /\ mem[b][j] = s[1]
  BY <1>3
<1>5. s \in Records /\ ~Passed(s) /\ s = <<s[1], s[2]>> /\ s[1] \in Lines /\ s[2] \in Nat
  BY RecordsFacts DEF Due
<1>6. CASE b = fbuf[p]
  <2>1. foff[p] < j
    BY <1>4, <1>6 DEF Waiting
  <2>2. CASE j = foff[p] + 1
    <3>1. CurLine(p) = s[1]
      BY <1>4, <1>6, <2>2 DEF CurLine
    <3>2. ~(s[2] < fcopy[p])
      BY <1>5, <3>1 DEF Passed
    <3>3. s[2] # fcopy[p]
      BY <1>5, <3>1
    <3> QED BY <1>1, <1>5, <3>1, <3>2, <3>3 DEF Before
  <2>3. CASE j # foff[p] + 1
    <3>1. foff[p] + 1 < j
      BY <1>2, <2>1, <2>3, MemType
    <3>2. CurLine(p) < s[1]
      BY <1>2, <1>4, <1>6, <3>1 DEF CurLine, InOrder, Ascending
    <3> QED BY <3>2 DEF Before
  <2> QED BY <2>2, <2>3
<1>7. CASE b # fbuf[p]
  <2>1. PICK i \in 1..Len(inch) : inch[i] = b
    BY <1>4, <1>7 DEF Somewhere, Waiting, Held, OneFilter
  <2>2. CurLine(p) < s[1]
    BY <1>1, <1>2, <1>4, <2>1 DEF CurLine, InOrder, Below
  <2> QED BY <2>2 DEF Before
<1> QED BY <1>6, <1>7

LEMMA SentInOrderStep ==
    ASSUME IInv, Somewhere, LinesOnce, CopyBound, Accounted, InOrder, SentInOrder, [Next]_vars
    PROVE  SentInOrder'
<1> USE DEF invars, filtervars, outvars, waitvars
<1> SUFFICES ASSUME OneFilter PROVE SentInOrder'
  BY DEF SentInOrder
<1>1. ASSUME Due' = Due, UNCHANGED <<outch, received>> PROVE SentInOrder'
  <2>1. InFlight' = InFlight /\ Given' = Given
    BY <1>1 DEF InFlight, Given
  <2> QED BY <1>1, <2>1 DEF SentInOrder
<1>2. CASE SendBuffer
  <2>1. /\ Due' = Due \cup {r \in Records : r[1] \in produced + 1 .. produced'}
        /\ UNCHANGED <<outch, received>>
    BY <1>2, DueSend DEF SendBuffer
  <2>2. InFlight' = InFlight /\ Given' = Given
    BY <2>1 DEF InFlight, Given
  <2>3. produced \in Nat /\ produced' \in Nat
    BY <1>2, MemType DEF SendBuffer, IInv, TypeOK
  <2>4. ASSUME NEW r \in InFlight \cup Given, NEW s \in Records, s[1] \in produced + 1 .. produced'
        PROVE  Before(r, s)
    <3>1. r \in Records /\ r[1] <= produced
      BY DEF Accounted
    <3> QED BY <2>3, <2>4, <3>1, RecordsFacts DEF Before, Lines
  <2>5. \A r \in InFlight' \cup Given', s \in Due' : Before(r, s)
    BY <2>1, <2>2, <2>4 DEF SentInOrder
  <2> QED BY <2>1, <2>5 DEF SentInOrder
<1>3. ASSUME NEW p \in Procs, FilterChainEnd(p) PROVE SentInOrder'
  <2> DEFINE r == <<CurLine(p), fcopy[p]>>
             i == TargetChan(CurLine(p))
  <2>1. r \in Due /\ r \in Records /\ i \in Chans
    BY <1>3, Sending, TargetInChans DEF Due, FilterChainEnd
  <2>2. /\ Len(outch'[i]) = Len(outch[i]) + 1
        /\ Len(outch[i]) \in Nat /\ outch'[i][Len(outch[i]) + 1] = r
        /\ \A k \in 1..Len(outch[i]) : outch'[i][k] = outch[i][k]
        /\ \A j \in Chans : j # i => outch'[j] = outch[j]
        /\ InFlight' = InFlight \cup {r}
    BY <1>3, <2>1, FlightEnd
  <2>3. Due' = Due \ {r} /\ UNCHANGED received
    BY <1>3, DueEnd DEF FilterChainEnd
  <2>4. Given' = Given
    BY <2>3 DEF Given
  <2>5. \A s \in Due \ {r} : Before(r, s)
    BY <1>3, FirstDue DEF FilterChainEnd
  <2> HIDE DEF r, i
  <2>6. \A s \in InFlight' \cup Given', t \in Due' : Before(s, t)
    BY <2>2, <2>3, <2>4, <2>5 DEF SentInOrder
  <2>7. \A s \in InFlight \cup Given : Before(s, r)
    BY <2>1 DEF SentInOrder
  <2>8. /\ \A j \in Chans : \A k \in 1..Len(outch[j]) : outch[j][k] \in InFlight
        /\ \A o \in Outputs : \A k \in 1..Len(received[o]) : received[o][k] \in Given
    BY DEF Accounted, InFlight, Given
  <2>9. \A k \in 1..Len(outch'[i]) : k \in 1..Len(outch[i]) \/ k = Len(outch[i]) + 1
    BY <2>2
  <2>10. \A j \in Chans : \A k, m \in 1..Len(outch'[j]) :
            k < m => Before(outch'[j][k], outch'[j][m])
    <3> SUFFICES ASSUME NEW k \in 1..Len(outch'[i]), NEW m \in 1..Len(outch'[i]), k < m
                 PROVE  Before(outch'[i][k], outch'[i][m])
      BY <2>2 DEF SentInOrder
    <3>1. k \in 1..Len(outch[i])
      BY <2>2
    <3>2. CASE m \in 1..Len(outch[i])
      BY <2>1, <2>2, <3>1, <3>2 DEF SentInOrder
    <3>3. CASE m = Len(outch[i]) + 1
      BY <2>1, <2>2, <2>7, <2>8, <3>1, <3>3
    <3> QED BY <2>9, <3>2, <3>3
  <2>11. \A o \in Outputs : \A k \in 1..Len(received[o]), m \in 1..Len(outch'[ChanOf(o)]) :
            Before(received[o][k], outch'[ChanOf(o)][m])
    <3> SUFFICES ASSUME NEW o \in Outputs, NEW k \in 1..Len(received[o]),
                        NEW m \in 1..Len(outch'[ChanOf(o)])
                 PROVE  Before(received[o][k], outch'[ChanOf(o)][m])
      OBVIOUS
    <3>1. ChanOf(o) \in Chans
      BY ChanOfInChans
    <3>2. CASE ChanOf(o) = i /\ m = Len(outch[i]) + 1
      BY <2>2, <2>7, <2>8, <3>2
    <3>3. CASE ~(ChanOf(o) = i /\ m = Len(outch[i]) + 1)
      <4>1. m \in 1..Len(outch[ChanOf(o)]) /\ outch'[ChanOf(o)][m] = outch[ChanOf(o)][m]
        BY <2>2, <2>9, <3>1, <3>3
      <4> QED BY <4>1 DEF SentInOrder
    <3> QED BY <3>2, <3>3
  <2> QED BY <2>3, <2>6, <2>10, <2>11 DEF SentInOrder
<1>4. ASSUME NEW o \in Outputs, Consume(o) PROVE SentInOrder'
  <2> DEFINE i == ChanOf(o)
             r == Head(outch[i])
  <2>1. i \in Chans
    BY ChanOfInChans
  <2>2. /\ r = outch[i][1] /\ Len(outch[i]) \in Nat \ {0}
        /\ Len(outch'[i]) = Len(outch[i]) - 1
        /\ \A k \in 1..Len(outch'[i]) : outch'[i][k] = outch[i][k + 1] /\ k + 1 \in 1..Len(outch[i])
        /\ \A j \in Chans : j # i => outch'[j] = outch[j]
        /\ Len(received[o]) \in Nat /\ Len(received'[o]) = Len(received[o]) + 1
        /\ received'[o][Len(received[o]) + 1] = r
        /\ \A k \in 1..Len(received[o]) : received'[o][k] = received[o][k]
        /\ \A q \in Outputs : q # o => received'[q] = received[q]
        /\ InFlight' = InFlight \ {r} /\ r \in InFlight
        /\ Given' = Given \cup {r}
    BY <1>4, <2>1, FlightConsume
  <2>3. Due' = Due
    BY <1>4, DueSame DEF Consume
  <2> HIDE DEF r
  <2>4. \A s \in InFlight' \cup Given', t \in Due' : Before(s, t)
    BY <2>2, <2>3 DEF SentInOrder
  <2>5. /\ 1 \in 1..Len(outch[i])
        /\ \A k \in 1..Len(outch'[i]) : 1 < k + 1
        /\ \A k, m \in 1..Len(outch'[i]) : k < m => k + 1 < m + 1
    BY <2>2
  <2>6. \A j \in Chans : \A k, m \in 1..Len(outch'[j]) :
           k < m => Before(outch'[j][k], outch'[j][m])
    <3>1. \A k, m \in 1..Len(outch'[i]) : k < m => Before(outch'[i][k], outch'[i][m])
      BY <2>1, <2>2, <2>5 DEF SentInOrder
    <3> QED BY <2>2, <3>1 DEF SentInOrder
  <2>7. \A k \in 1..Len(outch'[i]) : Before(r, outch'[i][k])
    BY <2>1, <2>2, <2>5 DEF SentInOrder
  <2>8. \A k \in 1..Len(received[o]) : Before(received[o][k], r)
    BY <2>2, <2>5 DEF SentInOrder
  <2>9. \A k \in 1..Len(received'[o]) : k \in 1..Len(received[o]) \/ k = Len(received[o]) + 1
    BY <2>2
  <2>10. \A q \in Outputs : \A k, m \in 1..Len(received'[q]) :
            k < m => Before(received'[q][k], received'[q][m])
    <3> SUFFICES ASSUME NEW k \in 1..Len(received'[o]), NEW m \in 1..Len(received'[o]), k < m
                 PROVE  Before(received'[o][k], received'[o][m])
      BY <2>2 DEF SentInOrder
    <3>1. k \in 1..Len(received[o])
      BY <2>2
    <3>2. CASE m \in 1..Len(received[o])
      BY <2>2, <3>1, <3>2 DEF SentInOrder
    <3>3. CASE m = Len(received[o]) + 1
      BY <2>2, <2>8, <3>1, <3>3
    <3> QED BY <2>9, <3>2, <3>3
  <2>11. \A q \in Outputs : \A k \in 1..Len(received'[q]), m \in 1..Len(outch'[ChanOf(q)]) :
            Before(received'[q][k], outch'[ChanOf(q)][m])
    <3> SUFFICES ASSUME NEW q \in Outputs, NEW k \in 1..Len(received'[q]),
                        NEW m \in 1..Len(outch'[ChanOf(q)])
                 PROVE  Before(received'[q][k], outch'[ChanOf(q)][m])
      OBVIOUS
    <3>1. ChanOf(q) \in Chans
      BY ChanOfInChans
    <3>2. PICK n \in 1..Len(outch[ChanOf(q)]) : outch'[ChanOf(q)][m] = outch[ChanOf(q)][n]
      <4>1. CASE ChanOf(q) = i
        BY <2>2, <4>1
      <4>2. CASE ChanOf(q) # i
        BY <2>2, <3>1, <4>2
      <4> QED BY <4>1, <4>2
    <3>3. CASE q = o /\ k = Len(received[o]) + 1
      BY <2>2, <2>7, <3>3
    <3>4. CASE ~(q = o /\ k = Len(received[o]) + 1)
      <4>1. k \in 1..Len(received[q]) /\ received'[q][k] = received[q][k]
        BY <2>2, <2>9, <3>4
      <4> QED BY <3>2, <4>1 DEF SentInOrder
    <3> QED BY <3>3, <3>4
  <2> QED BY <2>4, <2>6, <2>10, <2>11 DEF SentInOrder
<1>5. CASE \E b \in Buffers : FillBuffer(b)
  BY <1>1, <1>5, DueSame DEF FillBuffer
<1>6. CASE \E p \in Procs : FilterStep(p)
  <2>1. \A p \in Procs : ReceiveData(p) \/ FilterReturn(p) \/ DiscardLine(p) \/ EnterChain(p)
                            \/ FreeMem(p) => UNCHANGED <<outch, received>>
    BY DEF ReceiveData, FilterReturn, DiscardLine, EnterChain, FreeMem
  <2> QED BY <1>1, <1>3, <1>6, <2>1, DueSame DEF FilterStep
<1>7. ASSUME NEW o \in Outputs, SendFile(o) \/ OutputReturn(o) PROVE SentInOrder'
  BY <1>1, <1>7, DueSame DEF SendFile, OutputReturn
<1>8. CASE InputReturn \/ Wait \/ Quiet
  BY <1>1, <1>8, DueSame DEF InputReturn, Wait, Quiet
<1> QED BY <1>2, <1>4, <1>5, <1>6, <1>7, <1>8, StepCases DEF OutputStep

-----------------------------------------------------------------------------
DInv == /\ IInv
        /\ Somewhere /\ LinesOnce /\ CopyBound
        /\ Accounted /\ Counted /\ Drained /\ Uploaded /\ Routed
        /\ InOrder /\ SentInOrder

LEMMA InitDelivery == Init => DInv
<1> SUFFICES ASSUME Init PROVE DInv
  OBVIOUS
<1>1. IInv
  BY InitInv
<1>2. Somewhere /\ LinesOnce /\ CopyBound /\ InOrder
  BY TopologyAssumption DEF Init, Somewhere, LinesOnce, CopyBound, InOrder, Held
<1>3. \A l : ~Ahead(l)
  BY DEF Init, Ahead, Waiting, Held
<1>4. /\ \A i \in Chans : outch[i] = <<>>
      /\ \A o \in Outputs : received[o] = <<>>
      /\ produced = 0
  BY DEF Init
<1>5. Due = {} /\ InFlight = {} /\ Given = {}
  BY <1>3, <1>4 DEF Due, InFlight, Given
<1>6. \A r \in Records : ~(r[1] <= produced)
  BY <1>4, RecordsFacts DEF Lines
<1>7. Accounted
  <2>1. /\ \A i \in Chans : outch[i] \in Seq(Records) /\ Len(outch[i]) = 0
        /\ \A o \in Outputs : received[o] \in Seq(Records) /\ Len(received[o]) = 0
    <3>1. <<>> \in Seq(Records) /\ Len(<<>>) = 0
      OBVIOUS
    <3> QED BY <1>4, <3>1
  <2>2. {r \in Records : r[1] <= produced} = {}
    BY <1>6
  <2> QED BY <1>5, <2>1, <2>2 DEF Accounted
<1>8. Counted
  <2>1. Behind = {}
    BY <1>4 DEF Behind
  <2> QED BY <2>1, FS_EmptySet DEF Counted, Init
<1>9. Drained /\ Uploaded
  BY DEF Init, Drained, Uploaded
<1>10. Routed /\ SentInOrder
  BY <1>4, <1>5, ChanOfInChans DEF Routed, SentInOrder
<1> QED BY <1>1, <1>2, <1>7, <1>8, <1>9, <1>10 DEF DInv

LEMMA NextDelivery == DInv /\ [Next]_vars => DInv'
  BY NextInv, SomewhereStep, LinesOnceStep, CopyBoundStep, AccountedStep, CountedStep,
     DrainedStep, UploadedStep, RoutedStep, InOrderStep, SentInOrderStep DEF DInv

\* Every reachable state accounts for every buffer, line and record.
THEOREM DeliveryInvariance == Spec => []DInv
<1>1. Init => DInv
  BY InitDelivery
<1>2. DInv /\ [Next]_vars => DInv'
  BY NextDelivery
<1> QED BY <1>1, <1>2, PTL DEF Spec

-----------------------------------------------------------------------------
LEMMA OneHolderEach ==
    ASSUME DInv, NEW b \in Buffers PROVE Holders(b) = 1
<1> DEFINE onInch == Cardinality({i \in DOMAIN inch : inch[i] = b})
           withFilters == Cardinality({p \in Procs : fbuf[p] = b})
<1>1. b # NoBuffer /\ DOMAIN inch = 1..Len(inch)
  BY TopologyAssumption DEF DInv, IInv, TypeOK
<1>2. /\ Cardinality({}) = 0
      /\ \A x : Cardinality({x}) = 1
  BY FS_EmptySet, FS_Singleton
<1>3. Holders(b) = (IF b \in pool THEN 1 ELSE 0) + (IF b = inbuf THEN 1 ELSE 0)
                      + onInch + withFilters
  BY DEF Holders
<1>4. CASE b \in pool
  <2>1. b # inbuf /\ onInch = 0 /\ withFilters = 0
    BY <1>1, <1>2, <1>4 DEF DInv, IInv, Disjoint
  <2> QED BY <1>3, <1>4, <2>1
<1>5. CASE b = inbuf
  <2>1. b \notin pool /\ onInch = 0 /\ withFilters = 0
    BY <1>1, <1>2, <1>5 DEF DInv, IInv, Disjoint
  <2> QED BY <1>3, <1>5, <2>1
<1>6. ASSUME NEW i \in 1..Len(inch), inch[i] = b PROVE Holders(b) = 1
  <2>1. b \notin pool /\ b # inbuf
    BY <1>6 DEF DInv, IInv, Disjoint
  <2>2. {j \in DOMAIN inch : inch[j] = b} = {i} /\ {p \in Procs : fbuf[p] = b} = {}
    BY <1>1, <1>6 DEF DInv, IInv, Disjoint
  <2>3. onInch = 1 /\ withFilters = 0
    BY <1>2, <2>2
  <2> HIDE DEF onInch, withFilters
  <2> QED BY <1>3, <2>1, <2>3
<1>7. ASSUME NEW p \in Procs, fbuf[p] = b PROVE Holders(b) = 1
  <2>1. b \notin pool /\ b # inbuf
    BY <1>1, <1>7 DEF DInv, IInv, Disjoint
  <2>2. {i \in DOMAIN inch : inch[i] = b} = {} /\ {q \in Procs : fbuf[q] = b} = {p}
    BY <1>1, <1>7 DEF DInv, IInv, Disjoint
  <2>3. onInch = 0 /\ withFilters = 1
    BY <1>2, <2>2
  <2> HIDE DEF onInch, withFilters
  <2> QED BY <1>3, <2>1, <2>3
<1> QED BY <1>4, <1>5, <1>6, <1>7 DEF DInv, Somewhere

\* The recycling of *Data neither loses a buffer nor lets two goroutines
\* have it: FreeMem never gives the input one that is still being parsed.
THEOREM OneHolder == Spec => []BufferHasOneHolder
<1>1. DInv => BufferHasOneHolder
  BY OneHolderEach DEF BufferHasOneHolder
<1> QED BY <1>1, DeliveryInvariance, PTL

LEMMA DeliveredValue ==
    ASSUME DInv, NEW r \in Records
    PROVE  Delivered(r) = IF r \in Given THEN 1 ELSE 0
<1> DEFINE places == UNION {{o} \X {i \in DOMAIN received[o] : received[o][i] = r} : o \in Outputs}
<1>1. \A o \in Outputs : DOMAIN received[o] = 1..Len(received[o])
  BY DEF DInv, IInv, TypeOK
<1>2. CASE r \notin Given
  <2>1. \A o \in Outputs : {i \in DOMAIN received[o] : received[o][i] = r} = {}
    BY <1>1, <1>2 DEF Given
  <2>2. places = {}
    BY <2>1
  <2> QED BY <1>2, <2>2, FS_EmptySet DEF Delivered
<1>3. CASE r \in Given
  <2>1. PICK o \in Outputs : \E k \in 1..Len(received[o]) : received[o][k] = r
    BY <1>3 DEF Given
  <2>2. PICK k \in 1..Len(received[o]) : received[o][k] = r
    BY <2>1
  <2>3. \A q \in Outputs : \A i \in 1..Len(received[q]) : received[q][i] = r => q = o /\ i = k
    BY <2>2 DEF DInv, Accounted
  <2>4. \A q \in Outputs : {i \in DOMAIN received[q] : received[q][i] = r}
                              = IF q = o THEN {k} ELSE {}
    BY <1>1, <2>2, <2>3
  <2>5. places = {<<o, k>>}
    BY <2>4
  <2> QED BY <1>3, <2>5, FS_Singleton DEF Delivered
<1> QED BY <1>2, <1>3

\* Once the filter goroutines and the outputs have returned, nothing is due
\* and nothing is in flight.
LEMMA AllGiven ==
    ASSUME DInv, wpc = "returned"
    PROVE  /\ \A l : ~Ahead(l)
           /\ Given = {r \in Records : r[1] <= produced}
<1>1. (\A p \in Procs : fpc[p] = "done") /\ (\A o \in Outputs : opc[o] = "done")
  BY DEF DInv, Drained, IInv, Shutdown
<1>2. inch = <<>> /\ (\A p \in Procs : fbuf[p] = NoBuffer) /\ inbuf = NoBuffer
  BY <1>1, TopologyAssumption DEF DInv, Drained, IInv, Cursor, InStream, Shutdown
<1>3. \A b \in Buffers : ~Held(b)
  BY <1>2, TopologyAssumption DEF DInv, Somewhere, Held
<1>4. \A l : ~Ahead(l)
  BY <1>3 DEF Ahead, Waiting
<1>5. Due = {}
  BY <1>4 DEF Due
<1>6. InFlight = {}
  <2>1. \A i \in Chans : \E o \in Outputs : ChanOf(o) = i
    BY TopologyAssumption DEF Chans, NChans, Outputs, ChanOf
  <2>2. \A i \in Chans : outch[i] = <<>>
    BY <1>1, <2>1 DEF DInv, Drained
  <2> QED BY <2>2 DEF InFlight
<1> QED BY <1>4, <1>5, <1>6 DEF DInv, Accounted

\* When Wait() returns, every record of every buffer the input sent was given
\* to an output exactly once, and the counters count the lines that were not.
THEOREM Lossless == Spec => []NothingLost
<1>1. ASSUME DInv, wpc = "returned"
      PROVE  /\ \A r \in Records : Delivered(r) = IF r[1] <= produced THEN 1 ELSE 0
             /\ UsesUpload => \A o \in Outputs : flushed[o] = Len(received[o])
             /\ malformed = Cardinality(Malformed \cap 1..produced)
             /\ invalid = Cardinality((Invalid \ Malformed) \cap 1..produced)
  <2>1. \A r \in Records : Delivered(r) = IF r[1] <= produced THEN 1 ELSE 0
    BY <1>1, AllGiven, DeliveredValue
  <2>2. UsesUpload => \A o \in Outputs : flushed[o] = Len(received[o])
    BY <1>1 DEF DInv, Drained, IInv, Shutdown
  <2>3. Behind = 1..produced
    BY <1>1, AllGiven DEF Behind
  <2> QED BY <1>1, <2>1, <2>2, <2>3 DEF DInv, Counted
<1>2. DInv => NothingLost
  BY <1>1 DEF NothingLost
<1> QED BY <1>2, DeliveryInvariance, PTL

\* Two records with the same value of the sharding function go to the same
\* output, whatever the sharding function.
THEOREM Sharding == Spec => []ShardAffinity
<1>1. ASSUME DInv, Sharded, NEW o1 \in Outputs, NEW o2 \in Outputs,
             NEW i \in DOMAIN received[o1], NEW j \in DOMAIN received[o2],
             Shard[received[o1][i][1]] = Shard[received[o2][j][1]]
      PROVE  o1 = o2
  <2>1. i \in 1..Len(received[o1]) /\ j \in 1..Len(received[o2])
    <3>1. \A o \in Outputs : received[o] \in Seq(Records)
      BY <1>1 DEF DInv, Accounted
    <3>2. \A o \in Outputs : DOMAIN received[o] = 1..Len(received[o])
      BY <3>1
    <3> QED BY <1>1, <3>2
  <2>2. TargetChan(received[o1][i][1]) = ChanOf(o1) /\ TargetChan(received[o2][j][1]) = ChanOf(o2)
    BY <1>1, <2>1 DEF DInv, Routed
  <2> QED BY <1>1, <2>2 DEF TargetChan, ChanOf
<1>2. DInv => ShardAffinity
  BY <1>1 DEF ShardAffinity
<1> QED BY <1>2, DeliveryInvariance, PTL

\* With one filter goroutine each output is given its records in the order of
\* the input stream.
THEOREM FirstInFirstOut == Spec => []StreamOrder
<1>1. Cardinality(Procs) = 1 => OneFilter
  BY TopologyAssumption, FS_Singleton DEF OneFilter
<1>2. ASSUME DInv, Cardinality(Procs) = 1, NEW o \in Outputs,
             NEW i \in DOMAIN received[o], NEW j \in DOMAIN received[o], i < j
      PROVE  Before(received[o][i], received[o][j])
  <2>1. i \in 1..Len(received[o]) /\ j \in 1..Len(received[o])
    BY <1>2 DEF DInv, IInv, TypeOK
  <2> QED BY <1>1, <1>2, <2>1 DEF DInv, SentInOrder
<1>3. DInv => StreamOrder
  BY <1>2 DEF StreamOrder, Before
<1> QED BY <1>3, DeliveryInvariance, PTL

-----------------------------------------------------------------------------
(* The topology implements Pipeline: SendBuffer is Accept, Consume is       *)
(* Deliver, CloseInch is Close, the return of Wait() is Finish and          *)
(* log.Fatal is Abort; every other step leaves Pipeline's variables alone.  *)

deliveredBar == [r \in Records |-> Delivered(r)]
phaseBar == IF exited THEN "aborted"
            ELSE IF wpc = "returned" THEN "finished"
            ELSE IF inchClosed THEN "draining" ELSE "open"

LEMMA PipeWants ==
    /\ Pipe!Wants(NLines) = Records
    /\ produced \in 0..NLines => Pipe!Wants(produced) = {r \in Records : r[1] <= produced}
<1>1. Pipe!Wants(NLines) = Records
  BY DEF Pipe!Wants, Records, Lines
<1>2. ASSUME produced \in 0..NLines
      PROVE  Pipe!Wants(produced) = {r \in Records : r[1] <= produced}
  <2>1. 1..produced = {l \in Lines : l <= produced}
    BY <1>2, TopologyAssumption DEF Lines
  <2>2. Pipe!Wants(produced) = UNION {{l} \X (1..Wanted[l]) : l \in {l \in Lines : l <= produced}}
    BY <2>1 DEF Pipe!Wants
  <2> QED BY <2>2 DEF Records
<1> QED BY <1>1, <1>2

\* The abstract delivery counts are the records given so far, before and
\* after a step.
LEMMA DeliveredBar ==
    /\ DInv => deliveredBar = [r \in Records |-> IF r \in Given THEN 1 ELSE 0]
    /\ DInv' => (deliveredBar = [r \in Records |-> IF r \in Given THEN 1 ELSE 0])'
<1>1. DInv => deliveredBar = [r \in Records |-> IF r \in Given THEN 1 ELSE 0]
  BY DeliveredValue DEF deliveredBar
<1> QED BY <1>1, PTL

LEMMA GivenAtEnd ==
    DInv' => (wpc = "returned" => Given = {r \in Records : r[1] <= produced})'
<1>1. DInv => (wpc = "returned" => Given = {r \in Records : r[1] <= produced})
  BY AllGiven
<1> QED BY <1>1, PTL

LEMMA PipeInit == Init => Pipe!Init
<1> SUFFICES ASSUME Init PROVE Pipe!Init
  OBVIOUS
<1>1. \A o \in Outputs : received[o] = <<>>
  BY DEF Init
<1>2. Given = {}
  BY <1>1 DEF Given
<1>3. deliveredBar = [r \in Records |-> 0]
  BY <1>2, InitDelivery, DeliveredBar
<1>4. produced = 0 /\ phaseBar = "open"
  BY DEF Init, phaseBar
<1> QED BY <1>3, <1>4, PipeWants DEF Pipe!Init, deliveredBar, phaseBar

LEMMA PipeStep ==
    ASSUME DInv, DInv', [Next]_vars
    PROVE  [Pipe!Next]_(Pipe!pvars)
<1> USE DEF invars, filtervars, outvars, waitvars
<1>1. Pipe!pvars = <<produced, deliveredBar, phaseBar>>
  BY DEF Pipe!pvars, deliveredBar, phaseBar
<1>2. ASSUME UNCHANGED <<produced, received, exited, wpc, inchClosed>>
      PROVE  UNCHANGED Pipe!pvars
  <2>1. Given' = Given
    BY <1>2 DEF Given
  <2>2. deliveredBar' = deliveredBar
    BY <2>1, DeliveredBar
  <2>3. phaseBar' = phaseBar
    BY <1>2 DEF phaseBar
  <2> QED BY <1>2, <2>2, <2>3 DEF Pipe!pvars, deliveredBar, phaseBar
<1>3. ASSUME ~exited, SendBuffer PROVE Pipe!Accept
  <2>1. UNCHANGED <<received, exited, wpc, inchClosed>>
    BY <1>3 DEF SendBuffer
  <2>2. Given' = Given
    BY <2>1 DEF Given
  <2>3. deliveredBar' = deliveredBar
    BY <2>2, DeliveredBar
  <2>4. phaseBar = "open" /\ phaseBar' = phaseBar
    BY <1>3, <2>1 DEF SendBuffer, phaseBar, DInv, IInv, Shutdown
  <2>5. produced' \in (produced + 1)..NLines
    <3>1. /\ inbuf \in Buffers /\ Len(mem[inbuf]) \in Nat /\ Len(mem[inbuf]) > 0
          /\ produced \in Nat /\ produced + Len(mem[inbuf]) <= NLines
      BY <1>3, MemType DEF SendBuffer, DInv, IInv, TypeOK, LinesOnce, InStream
    <3> QED BY <1>3, <3>1, TopologyAssumption DEF SendBuffer
  <2> QED BY <2>3, <2>4, <2>5 DEF Pipe!Accept, deliveredBar, phaseBar
<1>4. ASSUME ~exited, NEW o \in Outputs, Consume(o) PROVE Pipe!Next
  <2> DEFINE r == Head(outch[ChanOf(o)])
  <2>1. r \in InFlight /\ r \in Records /\ Given' = Given \cup {r}
    BY <1>4, ChanOfInChans, FlightConsume DEF DInv
  <2>2. r \in Pipe!Wants(produced) /\ r \in Pipe!Wants(NLines) /\ r \notin Given
    BY <2>1, PipeWants DEF DInv, Accounted, IInv, TypeOK
  <2> HIDE DEF r
  <2>3. deliveredBar[r] = 0
    BY <2>1, <2>2, DeliveredBar
  <2>4. deliveredBar' = [deliveredBar EXCEPT ![r] = 1]
    BY <2>1, DeliveredBar
  <2>5. UNCHANGED <<produced, exited, wpc, inchClosed>>
    BY <1>4 DEF Consume
  <2>6. phaseBar \in {"open", "draining"} /\ phaseBar' = phaseBar
    BY <1>4, <2>5 DEF Consume, phaseBar, DInv, IInv, Shutdown
  <2>7. Pipe!Deliver(r)
    BY <2>2, <2>3, <2>4, <2>5, <2>6 DEF Pipe!Deliver, deliveredBar, phaseBar
  <2> QED BY <2>2, <2>7 DEF Pipe!Next
<1>5. ASSUME ~exited, Wait PROVE [Pipe!Next]_(Pipe!pvars)
  <2>1. UNCHANGED <<produced, received, exited>>
    BY <1>5 DEF Wait
  <2>2. Given' = Given
    BY <2>1 DEF Given
  <2>3. deliveredBar' = deliveredBar
    BY <2>2, DeliveredBar
  <2>4. CASE CloseInch
    <3>1. phaseBar = "open" /\ phaseBar' = "draining"
      BY <1>5, <2>1, <2>4 DEF CloseInch, phaseBar, DInv, IInv, Shutdown
    <3> QED BY <2>1, <2>3, <3>1 DEF Pipe!Next, Pipe!Close, deliveredBar, phaseBar
  <2>5. CASE CloseOutch \/ CloseUpch
    <3>1. phaseBar' = phaseBar
      BY <1>5, <2>1, <2>5 DEF CloseOutch, CloseUpch, phaseBar
    <3> QED BY <2>1, <2>3, <3>1 DEF Pipe!pvars, deliveredBar, phaseBar
  <2>6. CASE WaitReturn
    <3>1. phaseBar = "draining" /\ phaseBar' = "finished" /\ wpc' = "returned"
      BY <1>5, <2>1, <2>6 DEF WaitReturn, phaseBar, DInv, IInv, Shutdown
    <3>2. Given' = {r \in Records : r[1] <= produced'}
      BY <3>1, GivenAtEnd
    <3>3. \A r \in Pipe!Wants(produced) : deliveredBar[r] = 1
      BY <2>1, <2>2, <3>2, DeliveredBar, PipeWants DEF DInv, IInv, TypeOK
    <3> QED BY <2>1, <2>3, <3>1, <3>3 DEF Pipe!Next, Pipe!Finish, deliveredBar, phaseBar
  <2> QED BY <1>5, <2>4, <2>5, <2>6 DEF Wait
<1>6. ASSUME ~exited, Fatal PROVE Pipe!Abort
  <2>1. exited' = TRUE /\ UNCHANGED <<produced, received, wpc, inchClosed>>
    BY <1>6 DEF Fatal
  <2>2. Given' = Given
    BY <2>1 DEF Given
  <2>3. deliveredBar' = deliveredBar
    BY <2>2, DeliveredBar
  <2>4. wpc # "returned"
    BY <1>6 DEF Fatal, DInv, Uploaded, IInv, Shutdown
  <2>5. phaseBar \in {"open", "draining"} /\ phaseBar' = "aborted"
    BY <1>6, <2>1, <2>4 DEF phaseBar
  <2> QED BY <2>1, <2>3, <2>5 DEF Pipe!Abort, deliveredBar, phaseBar
<1>7. CASE UNCHANGED vars
  BY <1>2, <1>7 DEF vars
<1>8. CASE InputStep /\ ~SendBuffer
  BY <1>2, <1>8 DEF InputStep, FillBuffer, InputReturn
<1>9. CASE \E p \in Procs : FilterStep(p)
  BY <1>2, <1>9 DEF FilterStep, ReceiveData, FilterReturn, DiscardLine, EnterChain,
                    FilterChainEnd, FreeMem
<1>10. ASSUME NEW o \in Outputs, SendFile(o) \/ OutputReturn(o)
       PROVE  UNCHANGED Pipe!pvars
  BY <1>2, <1>10 DEF SendFile, OutputReturn
<1>11. CASE UploadStep \/ Interrupt
  BY <1>2, <1>11 DEF UploadStep, UploadFile, UploaderReturn, Interrupt
<1>12. CASE ~exited /\ Step
  <2>1. CASE InputStep
    BY <1>3, <1>8, <1>12, <2>1 DEF Pipe!Next
  <2>2. CASE \E o \in Outputs : OutputStep(o)
    BY <1>4, <1>10, <1>12, <2>2 DEF OutputStep
  <2>3. CASE Wait \/ Fatal
    BY <1>5, <1>6, <1>12, <2>3 DEF Pipe!Next
  <2> QED BY <1>9, <1>11, <1>12, <2>1, <2>2, <2>3 DEF Step
<1> QED BY <1>7, <1>12 DEF Next, Terminated

\* The pipeline of goroutines, channels and recycled buffers implements the
\* promise of Pipeline: each record of the lines accepted so far is delivered
\* at most once, and all of them are before Wait() returns.
THEOREM Implementation == Spec => ImplementsPipeline
<1>1. Init => Pipe!Init
  BY PipeInit
<1>2. DInv /\ DInv' /\ [Next]_vars => [Pipe!Next]_(Pipe!pvars)
  BY PipeStep
<1> QED BY <1>1, <1>2, DeliveryInvariance, PTL DEF Spec, ImplementsPipeline, Pipe!Spec
=============================================================================
