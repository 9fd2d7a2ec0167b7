--------------------------- MODULE SourcesProofs ---------------------------
(***************************************************************************)
(* Proofs about the four inputs that do not end by themselves.  The steps  *)
(* of the sum are those of the input chosen in the initial state; an       *)
(* invariant of an input is stated as source = ... => ..., and only the    *)
(* steps of that input have to be looked at.                               *)
(***************************************************************************)
EXTENDS Sources, SequenceTheorems, FiniteSetTheorems, TLAPS

(***************************************************************************)
(* Streams: sequences of <<item, number>>.                                 *)
(***************************************************************************)
Mine(s, p) == {j \in 1 .. Len(s) : s[j][1] = p}
SoFar(s, i) == {j \in 1 .. i : s[j][1] = s[i][1]}
InOrder(s) == \A i \in DOMAIN s : s[i][2] = Cardinality(SoFar(s, i))
Sent(s, m, k) == \E i \in DOMAIN s : s[i] = <<m, k>>

LEMMA MineIsFinite ==
    ASSUME NEW S, NEW s \in Seq(S \X Nat), NEW p
    PROVE  IsFiniteSet(Mine(s, p)) /\ Cardinality(Mine(s, p)) \in Nat
<1>1. Mine(s, p) \subseteq 1 .. Len(s) BY DEF Mine
<1>2. IsFiniteSet(1 .. Len(s)) BY FS_Interval
<1>3. IsFiniteSet(Mine(s, p)) BY <1>1, <1>2, FS_Subset
<1> QED BY <1>3, FS_CardinalityType

LEMMA NothingMine == \A p : Cardinality(Mine(<<>>, p)) = 0
<1> TAKE p
<1>1. Mine(<<>>, p) = {} BY DEF Mine
<1> QED BY <1>1, FS_EmptySet

(* What was sent stays sent.                                                *)
LEMMA SentGrows ==
    ASSUME NEW S, NEW s \in Seq(S \X Nat), NEW e \in S \X Nat
    PROVE  /\ Append(s, e) \in Seq(S \X Nat)
           /\ \A m, k : Sent(s, m, k) => Sent(Append(s, e), m, k)
           /\ Sent(Append(s, e), e[1], e[2])
<1>1. /\ Append(s, e) \in Seq(S \X Nat)
      /\ DOMAIN Append(s, e) = 1 .. Len(s) + 1 /\ DOMAIN s = 1 .. Len(s)
      /\ \A i \in 1 .. Len(s) : Append(s, e)[i] = s[i]
      /\ Append(s, e)[Len(s) + 1] = e
  OBVIOUS
<1>2. Len(s) \in Nat OBVIOUS
<1>3. ASSUME NEW m, NEW k, Sent(s, m, k) PROVE Sent(Append(s, e), m, k)
  <2>1. PICK i \in 1 .. Len(s) : s[i] = <<m, k>> BY <1>1, <1>3 DEF Sent
  <2>2. i \in DOMAIN Append(s, e) BY <1>1, <1>2
  <2> QED BY <1>1, <2>1, <2>2 DEF Sent
<1>4. Sent(Append(s, e), e[1], e[2])
  <2>1. Len(s) + 1 \in DOMAIN Append(s, e) BY <1>1, <1>2
  <2>2. e = <<e[1], e[2]>> OBVIOUS
  <2> QED BY <1>1, <2>1, <2>2 DEF Sent
<1> QED BY <1>1, <1>3, <1>4

(* The next number of an item goes to the end.                              *)
LEMMA NextInOrder ==
    ASSUME NEW S, NEW s \in Seq(S \X Nat), NEW p \in S, NEW c \in Nat,
           InOrder(s), c = Cardinality(Mine(s, p)) + 1
    PROVE  LET t == Append(s, <<p, c>>)
           IN  /\ InOrder(t) /\ Cardinality(Mine(t, p)) = c
               /\ \A q : q # p => Mine(t, q) = Mine(s, q)
<1> DEFINE t == Append(s, <<p, c>>)
<1>1. /\ DOMAIN t = 1 .. Len(s) + 1 /\ DOMAIN s = 1 .. Len(s) /\ Len(t) = Len(s) + 1
      /\ \A i \in 1 .. Len(s) : t[i] = s[i]
      /\ t[Len(s) + 1] = <<p, c>>
  OBVIOUS
<1>2. Len(s) \in Nat OBVIOUS
<1> HIDE DEF t
<1>3. \A q : q # p => Mine(t, q) = Mine(s, q)
  <2> TAKE q
  <2> HAVE q # p
  <2>1. ASSUME NEW j \in 1 .. Len(t), t[j][1] = q PROVE j \in 1 .. Len(s) /\ s[j][1] = q
    <3>1. j # Len(s) + 1 BY <1>1, <2>1
    <3>2. j \in 1 .. Len(s) BY <1>1, <1>2, <3>1
    <3> QED BY <3>2, <1>1, <2>1
  <2>2. ASSUME NEW j \in 1 .. Len(s), s[j][1] = q PROVE j \in 1 .. Len(t) /\ t[j][1] = q
    BY <1>1, <1>2, <2>2
  <2> QED BY <2>1, <2>2 DEF Mine
<1>4. Mine(t, p) = Mine(s, p) \cup {Len(s) + 1}
  <2>1. ASSUME NEW j \in 1 .. Len(t), t[j][1] = p
        PROVE  j = Len(s) + 1 \/ (j \in 1 .. Len(s) /\ s[j][1] = p)
    BY <1>1, <1>2, <2>1
  <2>2. ASSUME NEW j \in 1 .. Len(s), s[j][1] = p PROVE j \in 1 .. Len(t) /\ t[j][1] = p
    BY <1>1, <1>2, <2>2
  <2>3. Len(s) + 1 \in 1 .. Len(t) /\ t[Len(s) + 1][1] = p BY <1>1, <1>2
  <2> QED BY <2>1, <2>2, <2>3 DEF Mine
<1>5. Cardinality(Mine(t, p)) = c
  <2>1. Len(s) + 1 \notin Mine(s, p) BY <1>2 DEF Mine
  <2>2. IsFiniteSet(Mine(s, p)) BY MineIsFinite
  <2> QED BY <1>4, <2>1, <2>2, FS_AddElement
<1>6. InOrder(t)
  <2> SUFFICES ASSUME NEW i \in 1 .. Len(s) + 1 PROVE t[i][2] = Cardinality(SoFar(t, i))
    BY <1>1 DEF InOrder
  <2>1. CASE i = Len(s) + 1
    <3>1. SoFar(t, i) = Mine(t, p) BY <2>1, <1>1 DEF SoFar, Mine
    <3> QED BY <2>1, <3>1, <1>1, <1>5
  <2>2. CASE i \in 1 .. Len(s)
    <3>1. \A j \in 1 .. i : t[j] = s[j] BY <2>2, <1>1, <1>2
    <3>2. SoFar(t, i) = SoFar(s, i) BY <2>2, <1>1, <3>1 DEF SoFar
    <3>3. t[i] = s[i] BY <2>2, <1>1
    <3> QED BY <2>2, <3>2, <3>3, <1>1 DEF InOrder
  <2> QED BY <2>1, <2>2, <1>2
<1> QED BY <1>3, <1>5, <1>6 DEF t

(***************************************************************************)
(* The SQS input.                                                          *)
(***************************************************************************)
PollerRecord == [pc : {"idle", "receive", "sleep", "received", "open", "read",
                       "send", "delete", "exited", "fatal"},
                 m : Messages \cup {NoMessage}, chunk : Nat]

Whole(s, m) == \A k \in Sqs!Readable(m) : Sent(s, m, k)

(* What poller c knows of its message: where it reads the file, everything *)
(* before the next chunk has been sent; where it is about to delete the    *)
(* message, all of it; and it is not cut off in between.                   *)
Knows(c, s) ==
    /\ c.pc = "idle" => c.m = NoMessage
    /\ c.pc \in {"received", "open", "read", "send", "delete", "fatal"} => c.m \in Messages
    /\ c.pc = "received" => c.chunk = 1
    /\ c.pc = "open" => Kind[c.m] \notin {"badbody", "nopath", "filtered"} /\ c.chunk = 1
    /\ c.pc \in {"read", "send"} =>
         /\ Kind[c.m] \in {"ok", "corrupt"} /\ c.chunk \in 1 .. Chunks[c.m]
         /\ \A k \in 1 .. c.chunk - 1 : Sent(s, c.m, k)
    /\ c.pc = "send" /\ Kind[c.m] = "corrupt" => c.chunk < Chunks[c.m]
    /\ c.pc = "delete" => Whole(s, c.m)
    /\ c.pc \in {"receive", "sleep", "received", "delete", "exited"} /\ c.m \in Messages =>
         c.chunk = 1 \/ Kind[c.m] = "corrupt" \/ c.chunk = Chunks[c.m] + 1

(* Run takes the CompressedInput down when no poller is left that could    *)
(* mistake its flag for the end of a file.                                 *)
Downfall ==
    /\ rpc = "lookup" => \A q \in Queues : Sqs!At(q, "idle")
    /\ rpc \in {"nomore", "stop", "flag", "drain"} => \A q \in Queues : Sqs!At(q, "exited")
    /\ ci.stopping => rpc \in {"drain", "returned"}
    /\ rpc = "returned" => \A q \in Queues : Sqs!At(q, "exited") \/ Sqs!At(q, "idle")

SqsInv ==
    /\ Sqs!TypeOK
    /\ \A q \in Queues : Knows(poller[q], sent)
    /\ Downfall
    /\ \A m \in Messages : message[m].state = "deleted" => Whole(sent, m)

LEMMA SqsBegins == source = "sqs" /\ Init => SqsInv
<1> SUFFICES ASSUME source = "sqs", Init PROVE SqsInv
  OBVIOUS
<1>0. Sqs!SQSInputAssumption BY SourcesAssumption DEF SourcesAssumption
<1>1. /\ rpc = "lookup" /\ stopped = FALSE /\ inch = 0 /\ sent = <<>> /\ cancelled = FALSE
      /\ message = [m \in Messages |-> [state |-> "visible", receives |-> 0]]
      /\ poller = [q \in Queues |-> [pc |-> "idle", m |-> NoMessage, chunk |-> 0]]
      /\ ci = [filesClosed |-> FALSE, stopNow |-> FALSE, stopping |-> FALSE, done |-> FALSE]
  BY DEF Init, Sqs!LocalInit
<1>2. sent \in Seq(Messages \X Nat) /\ inch \in 0 .. InCap
  BY <1>0, <1>1, EmptySeq DEF Sqs!SQSInputAssumption
<1>3. message \in [Messages -> [state : {"visible", "inflight", "deleted"}, receives : Nat]]
  BY <1>1
<1>4. poller \in [Queues -> PollerRecord]
  BY <1>1 DEF PollerRecord
<1>5. Sqs!TypeOK
  BY <1>1, <1>2, <1>3, <1>4 DEF Sqs!TypeOK, PollerRecord
<1>6. \A q \in Queues : Knows(poller[q], sent)
  BY <1>0, <1>1 DEF Knows, Sqs!SQSInputAssumption
<1>7. Downfall
  BY <1>1 DEF Downfall, Sqs!At
<1>8. \A m \in Messages : message[m].state # "deleted"
  BY <1>1
<1> QED BY <1>5, <1>6, <1>7, <1>8 DEF SqsInv

(* What a poller knows is not lost when another one sends.                  *)
LEMMA KnowsMore ==
    ASSUME NEW c, NEW s, NEW t, Knows(c, s), \A m, k : Sent(s, m, k) => Sent(t, m, k)
    PROVE  Knows(c, t)
BY DEF Knows, Whole

(* Only the poller that is moved, the messages and the channel change.      *)
LEMMA OnePoller ==
    ASSUME SqsInv, NEW q \in Queues, NEW c \in PollerRecord,
           poller' = [poller EXCEPT ![q] = c],
           poller[q].pc \notin {"idle", "exited"}, c.pc # "idle",
           UNCHANGED <<rpc, stopped, cancelled, ci>>,
           inch' \in 0 .. InCap, sent' \in Seq(Messages \X Nat),
           \A m, k : Sent(sent, m, k) => Sent(sent', m, k),
           message' \in [Messages -> [state : {"visible", "inflight", "deleted"},
                                      receives : Nat]],
           \A m \in Messages : message'[m].state = "deleted" /\ message[m].state # "deleted"
                               => Whole(sent', m),
           Knows(c, sent')
    PROVE  SqsInv'
<1>1. poller \in [Queues -> PollerRecord] /\ Sqs!TypeOK
  BY DEF SqsInv, Sqs!TypeOK, PollerRecord
<1>2. \A r \in Queues : poller'[r] = IF r = q THEN c ELSE poller[r]
  BY <1>1
<1>3. poller' \in [Queues -> PollerRecord]
  BY <1>1
<1>4. Sqs!TypeOK'
  BY <1>1, <1>3 DEF Sqs!TypeOK, PollerRecord
<1>5. \A r \in Queues : Knows(poller'[r], sent')
  <2> TAKE r \in Queues
  <2>1. CASE r = q BY <2>1, <1>2
  <2>2. CASE r # q
    <3>1. Knows(poller[r], sent) BY DEF SqsInv
    <3> QED BY <2>2, <3>1, <1>2, KnowsMore
  <2> QED BY <2>1, <2>2
<1>6. Downfall'
  BY <1>2 DEF SqsInv, Downfall, Sqs!At
<1>7. \A m \in Messages : message'[m].state = "deleted" => Whole(sent', m)
  <2> TAKE m \in Messages
  <2>1. Whole(sent, m) => Whole(sent', m) BY DEF Whole
  <2> QED BY <2>1 DEF SqsInv
<1> QED BY <1>4, <1>5, <1>6, <1>7 DEF SqsInv

(* The same for a poller that goes on with its message and sends nothing.   *)
LEMMA PollerGoes ==
    ASSUME SqsInv, NEW q \in Queues, NEW pc \in {"receive", "sleep", "received", "open", "read",
                                                 "send", "delete", "exited", "fatal"},
           Sqs!Goto(q, pc), poller[q].pc \notin {"idle", "exited"},
           UNCHANGED <<rpc, stopped, inch, sent, cancelled, ci>>,
           message' \in [Messages -> [state : {"visible", "inflight", "deleted"},
                                      receives : Nat]],
           \A m \in Messages : message'[m].state = "deleted" /\ message[m].state # "deleted"
                               => Whole(sent, m),
           Knows([pc |-> pc, m |-> poller[q].m, chunk |-> poller[q].chunk], sent)
    PROVE  SqsInv'
<1>1. PICK c : c = [pc |-> pc, m |-> poller[q].m, chunk |-> poller[q].chunk]
  OBVIOUS
<1>2. Sqs!TypeOK /\ poller \in [Queues -> PollerRecord]
  BY DEF SqsInv, Sqs!TypeOK, PollerRecord
<1>3. c \in PollerRecord /\ c.pc = pc
  BY <1>1, <1>2 DEF PollerRecord
<1>4. poller' = [poller EXCEPT ![q] = c]
  <2>1. poller[q] = [pc |-> poller[q].pc, m |-> poller[q].m, chunk |-> poller[q].chunk]
    BY <1>2 DEF PollerRecord
  <2>2. [poller[q] EXCEPT !.pc = pc] = c BY <1>1, <2>1
  <2>3. poller' = [poller EXCEPT ![q] = [poller[q] EXCEPT !.pc = pc]] BY DEF Sqs!Goto
  <2> QED BY <2>2, <2>3
<1>5. inch' \in 0 .. InCap /\ sent' \in Seq(Messages \X Nat) /\ sent' = sent
  BY <1>2 DEF Sqs!TypeOK
<1>6. Knows(c, sent') BY <1>1, <1>5
<1>7. \A m \in Messages : message'[m].state = "deleted" /\ message[m].state # "deleted"
                           => Whole(sent', m)
  BY <1>5
<1> QED BY <1>3, <1>4, <1>5, <1>6, <1>7, OnePoller

(* The steps of a poller.                                                   *)
LEMMA ReceiveKeeps ==
    ASSUME SqsInv, NEW q \in Queues, NEW m \in Messages, Sqs!Receive(q, m)
    PROVE  SqsInv'
<1>1. PICK c : c = [pc |-> "received", m |-> m, chunk |-> 1]
  OBVIOUS
<1>2. c \in PollerRecord /\ c.pc = "received" /\ c.chunk = 1 /\ c.m = m
  BY <1>1 DEF PollerRecord
<1>3. /\ poller[q].pc = "receive" /\ poller' = [poller EXCEPT ![q] = c]
      /\ UNCHANGED <<rpc, stopped, inch, sent, cancelled, ci>>
      /\ message' = [message EXCEPT ![m] = [state |-> "inflight", receives |-> @.receives + 1]]
  BY <1>1 DEF Sqs!Receive, Sqs!At
<1>4. Sqs!TypeOK BY DEF SqsInv
<1>5. /\ message' \in [Messages -> [state : {"visible", "inflight", "deleted"}, receives : Nat]]
      /\ \A n \in Messages : message'[n].state = "deleted" => message[n].state = "deleted"
  BY <1>3, <1>4 DEF Sqs!TypeOK
<1>6. Knows(c, sent')
  BY <1>2 DEF Knows
<1>7. inch' \in 0 .. InCap /\ sent' \in Seq(Messages \X Nat) /\ sent' = sent
  BY <1>3, <1>4 DEF Sqs!TypeOK
<1> QED BY <1>2, <1>3, <1>5, <1>6, <1>7, OnePoller

LEMMA RequestKeeps ==
    ASSUME SqsInv, NEW q \in Queues, Sqs!ReceiveFails(q) \/ Sqs!Wake(q) \/ Sqs!SeeCancel(q)
    PROVE  SqsInv'
<1>1. PICK pc \in {"receive", "sleep", "exited"} :
        /\ Sqs!Goto(q, pc) /\ poller[q].pc \in {"receive", "sleep", "received"}
        /\ UNCHANGED <<rpc, stopped, inch, sent, cancelled, message, ci>>
  BY DEF Sqs!ReceiveFails, Sqs!Wake, Sqs!SeeCancel, Sqs!At
<1>2. Knows(poller[q], sent) BY DEF SqsInv
<1>3. Knows([pc |-> pc, m |-> poller[q].m, chunk |-> poller[q].chunk], sent)
  BY <1>1, <1>2 DEF Knows
<1>4. message' \in [Messages -> [state : {"visible", "inflight", "deleted"}, receives : Nat]]
  BY <1>1 DEF SqsInv, Sqs!TypeOK
<1> QED BY <1>1, <1>3, <1>4, PollerGoes

LEMMA ParseKeeps == ASSUME SqsInv, NEW q \in Queues, Sqs!Parse(q) PROVE SqsInv'
<1>0. Sqs!SQSInputAssumption BY SourcesAssumption DEF SourcesAssumption
<1> DEFINE pc == CASE Kind[poller[q].m] = "badbody" -> "receive"
                   [] Kind[poller[q].m] = "nopath" -> "fatal"
                   [] Kind[poller[q].m] = "filtered" -> "delete"
                   [] OTHER -> "open"
<1>1. /\ Sqs!Goto(q, pc) /\ poller[q].pc = "received"
      /\ UNCHANGED <<rpc, stopped, inch, sent, cancelled, message, ci>>
  BY DEF Sqs!Parse, Sqs!At, Sqs!Msg
<1>2. Knows(poller[q], sent) BY DEF SqsInv
<1>3. /\ pc \in {"receive", "fatal", "delete", "open"}
      /\ pc = "open" => Kind[poller[q].m] \notin {"badbody", "nopath", "filtered"}
      /\ pc = "delete" => Kind[poller[q].m] = "filtered"
  OBVIOUS
<1> HIDE DEF pc
<1>4. pc = "delete" => Whole(sent, poller[q].m)
  BY <1>3 DEF Whole, Sqs!Readable
<1>5. poller[q].m \in Messages /\ poller[q].chunk = 1
  BY <1>1, <1>2 DEF Knows
<1>6. Knows([pc |-> pc, m |-> poller[q].m, chunk |-> poller[q].chunk], sent)
  BY <1>3, <1>4, <1>5 DEF Knows
<1>7. message' \in [Messages -> [state : {"visible", "inflight", "deleted"}, receives : Nat]]
  BY <1>1 DEF SqsInv, Sqs!TypeOK
<1> QED BY <1>1, <1>3, <1>6, <1>7, PollerGoes

LEMMA OpenKeeps == ASSUME SqsInv, NEW q \in Queues, Sqs!Open(q) PROVE SqsInv'
<1>0. Sqs!SQSInputAssumption BY SourcesAssumption DEF SourcesAssumption
<1> DEFINE pc == CASE Kind[poller[q].m] = "noopen" -> "delete"
                   [] Kind[poller[q].m] = "notgzip" -> "fatal"
                   [] OTHER -> "read"
<1>1. /\ Sqs!Goto(q, pc) /\ poller[q].pc = "open"
      /\ UNCHANGED <<rpc, stopped, inch, sent, cancelled, message, ci>>
  BY DEF Sqs!Open, Sqs!At, Sqs!Msg
<1>2. Knows(poller[q], sent) BY DEF SqsInv
<1>3. poller[q].m \in Messages /\ poller[q].chunk = 1
      /\ Kind[poller[q].m] \notin {"badbody", "nopath", "filtered"}
  BY <1>1, <1>2 DEF Knows
<1>4. /\ Kind[poller[q].m] \in {"ok", "noopen", "notgzip", "corrupt"}
      /\ 1 \in 1 .. Chunks[poller[q].m]
  BY <1>0, <1>3 DEF Sqs!SQSInputAssumption
<1>5. /\ pc \in {"delete", "fatal", "read"}
      /\ pc = "read" => Kind[poller[q].m] \in {"ok", "corrupt"}
      /\ pc = "delete" => Kind[poller[q].m] = "noopen"
  BY <1>4
<1> HIDE DEF pc
<1>6. pc = "delete" => Whole(sent, poller[q].m)
  BY <1>5 DEF Whole, Sqs!Readable
<1>7. Knows([pc |-> pc, m |-> poller[q].m, chunk |-> poller[q].chunk], sent)
  BY <1>3, <1>4, <1>5, <1>6 DEF Knows
<1>8. message' \in [Messages -> [state : {"visible", "inflight", "deleted"}, receives : Nat]]
  BY <1>1 DEF SqsInv, Sqs!TypeOK
<1> QED BY <1>1, <1>5, <1>7, <1>8, PollerGoes

(* A poller in a file does not find the flag set.                           *)
LEMMA ReadKeeps == ASSUME SqsInv, NEW q \in Queues, Sqs!Read(q) PROVE SqsInv'
<1>0. Sqs!SQSInputAssumption BY SourcesAssumption DEF SourcesAssumption
<1> DEFINE m == poller[q].m  k == poller[q].chunk
           pc == IF ci.stopping \/ (Kind[m] = "corrupt" /\ k = Chunks[m])
                 THEN "delete" ELSE "send"
<1>1. /\ Sqs!Goto(q, pc) /\ poller[q].pc = "read"
      /\ UNCHANGED <<rpc, stopped, inch, sent, cancelled, message, ci>>
  BY DEF Sqs!Read, Sqs!At, Sqs!Msg, Sqs!LastChunk
<1>2. Knows(poller[q], sent) BY DEF SqsInv
<1>3. /\ m \in Messages /\ Kind[m] \in {"ok", "corrupt"} /\ k \in 1 .. Chunks[m]
      /\ \A j \in 1 .. k - 1 : Sent(sent, m, j)
  BY <1>1, <1>2 DEF Knows
<1>4. ~ci.stopping
  BY <1>1 DEF SqsInv, Downfall, Sqs!At
<1>5. /\ pc \in {"delete", "send"}
      /\ pc = "delete" => Kind[m] = "corrupt" /\ k = Chunks[m]
      /\ pc = "send" /\ Kind[m] = "corrupt" => k # Chunks[m]
  BY <1>4
<1>6. Chunks[m] \in Nat \ {0}
  BY <1>0, <1>3 DEF Sqs!SQSInputAssumption
<1> HIDE DEF pc, m, k
<1>7. pc = "delete" => Whole(sent, m)
  BY <1>3, <1>5 DEF Whole, Sqs!Readable
<1>8. pc = "send" /\ Kind[m] = "corrupt" => k < Chunks[m]
  BY <1>3, <1>5, <1>6
<1>9. Knows([pc |-> pc, m |-> m, chunk |-> k], sent)
  BY <1>3, <1>5, <1>7, <1>8 DEF Knows
<1>10. message' \in [Messages -> [state : {"visible", "inflight", "deleted"}, receives : Nat]]
  BY <1>1 DEF SqsInv, Sqs!TypeOK
<1>11. Knows([pc |-> pc, m |-> poller[q].m, chunk |-> poller[q].chunk], sent)
  BY <1>9 DEF m, k
<1> QED BY <1>1, <1>5, <1>10, <1>11, PollerGoes

LEMMA SqsSendKeeps == ASSUME SqsInv, NEW q \in Queues, Sqs!Send(q) PROVE SqsInv'
<1>0. Sqs!SQSInputAssumption BY SourcesAssumption DEF SourcesAssumption
<1>1. PICK m, k : m = poller[q].m /\ k = poller[q].chunk
  OBVIOUS
<1>2. PICK c : c = [pc |-> IF k = Chunks[m] THEN "delete" ELSE "read", m |-> m, chunk |-> k + 1]
  OBVIOUS
<1>3. Sqs!TypeOK /\ poller \in [Queues -> PollerRecord]
  BY DEF SqsInv, Sqs!TypeOK, PollerRecord
<1>4. /\ poller[q].pc = "send" /\ inch < InCap /\ inch' = inch + 1
      /\ sent' = Append(sent, <<m, k>>)
      /\ UNCHANGED <<rpc, stopped, cancelled, message, ci>>
  BY <1>1 DEF Sqs!Send, Sqs!At, Sqs!Msg
<1>5. poller[q] = [pc |-> "send", m |-> m, chunk |-> k]
  BY <1>1, <1>3, <1>4 DEF PollerRecord
<1>6. Knows([pc |-> "send", m |-> m, chunk |-> k], sent)
  BY <1>5 DEF SqsInv
<1>7. /\ m \in Messages /\ Kind[m] \in {"ok", "corrupt"} /\ k \in 1 .. Chunks[m]
      /\ \A j \in 1 .. k - 1 : Sent(sent, m, j)
      /\ Kind[m] = "corrupt" => k < Chunks[m]
  BY <1>6 DEF Knows
<1>8. Chunks[m] \in Nat \ {0}
  BY <1>0, <1>7 DEF Sqs!SQSInputAssumption
<1>9. poller' = [poller EXCEPT ![q] = c]
  <2>1. PICK pc : pc = IF k = Chunks[m] THEN "delete" ELSE "read"
    OBVIOUS
  <2>2. poller' = [poller EXCEPT ![q].pc = pc, ![q].chunk = @ + 1]
    BY <1>1, <2>1 DEF Sqs!Send, Sqs!LastChunk, Sqs!Msg
  <2>3. [[poller[q] EXCEPT !.pc = pc] EXCEPT !.chunk = @ + 1]
        = [pc |-> pc, m |-> m, chunk |-> k + 1]
    <3>1. [poller[q] EXCEPT !.pc = pc] = [pc |-> pc, m |-> m, chunk |-> k] BY <1>5
    <3>2. [[pc |-> pc, m |-> m, chunk |-> k] EXCEPT !.chunk = @ + 1]
          = [pc |-> pc, m |-> m, chunk |-> k + 1]
      OBVIOUS
    <3> QED BY <3>1, <3>2
  <2>4. poller' = [poller EXCEPT ![q] = [[poller[q] EXCEPT !.pc = pc] EXCEPT !.chunk = @ + 1]]
    BY <1>3, <2>2
  <2> QED BY <1>2, <2>1, <2>3, <2>4
<1>10. c \in PollerRecord /\ c.m = m /\ c.chunk = k + 1
       /\ c.pc = (IF k = Chunks[m] THEN "delete" ELSE "read")
  BY <1>2, <1>7, <1>8 DEF PollerRecord
<1>11. /\ sent' \in Seq(Messages \X Nat)
       /\ \A n, j : Sent(sent, n, j) => Sent(sent', n, j)
       /\ Sent(sent', m, k)
  <2>1. <<m, k>> \in Messages \X Nat BY <1>7, <1>8
  <2>2. sent \in Seq(Messages \X Nat) BY <1>3 DEF Sqs!TypeOK
  <2> QED BY <1>4, <2>1, <2>2, SentGrows
<1>12. \A j \in 1 .. k : Sent(sent', m, j)
  <2> TAKE j \in 1 .. k
  <2>1. CASE j = k BY <2>1, <1>11
  <2>2. CASE j # k
    <3>1. j \in 1 .. k - 1 BY <2>2, <1>7, <1>8
    <3> QED BY <3>1, <1>7, <1>11
  <2> QED BY <2>1, <2>2
<1>13. k = Chunks[m] => Whole(sent', m)
  BY <1>7, <1>8, <1>12 DEF Whole, Sqs!Readable
<1>14. k # Chunks[m] => k + 1 \in 1 .. Chunks[m] /\ (k + 1) - 1 = k
  BY <1>7, <1>8
<1>15. Knows(c, sent')
  <2>1. CASE k = Chunks[m] BY <2>1, <1>7, <1>10, <1>13 DEF Knows
  <2>2. CASE k # Chunks[m] BY <2>2, <1>7, <1>10, <1>12, <1>14 DEF Knows
  <2> QED BY <2>1, <2>2
<1>16. /\ inch' \in 0 .. InCap
       /\ message' \in [Messages -> [state : {"visible", "inflight", "deleted"}, receives : Nat]]
       /\ \A n \in Messages : message'[n].state = message[n].state
  BY <1>0, <1>3, <1>4 DEF Sqs!TypeOK, Sqs!SQSInputAssumption
<1> QED BY <1>4, <1>9, <1>10, <1>11, <1>15, <1>16, OnePoller

LEMMA DeleteKeeps == ASSUME SqsInv, NEW q \in Queues, Sqs!Delete(q) PROVE SqsInv'
<1> DEFINE m == poller[q].m
<1>1. PICK pc \in {"exited", "receive"} :
        /\ Sqs!Goto(q, pc) /\ poller[q].pc = "delete"
        /\ UNCHANGED <<rpc, stopped, inch, sent, cancelled, ci>>
        /\ UNCHANGED message \/ message' = [message EXCEPT ![m].state = "deleted"]
  BY DEF Sqs!Delete, Sqs!At, Sqs!Msg
<1>2. Knows(poller[q], sent) /\ Sqs!TypeOK BY DEF SqsInv
<1>3. m \in Messages /\ Whole(sent, m)
  BY <1>1, <1>2 DEF Knows
<1>4. Knows([pc |-> pc, m |-> poller[q].m, chunk |-> poller[q].chunk], sent)
  BY <1>1, <1>2 DEF Knows
<1>5. message' \in [Messages -> [state : {"visible", "inflight", "deleted"}, receives : Nat]]
  BY <1>1, <1>2, <1>3 DEF Sqs!TypeOK
<1>6. \A n \in Messages : message'[n].state = "deleted" /\ message[n].state # "deleted" => n = m
  BY <1>1, <1>2, <1>3 DEF Sqs!TypeOK
<1>7. \A n \in Messages : message'[n].state = "deleted" /\ message[n].state # "deleted"
                          => Whole(sent, n)
  BY <1>3, <1>6
<1> HIDE DEF m
<1> QED BY <1>1, <1>4, <1>5, <1>7, PollerGoes

(* The steps of Run, of Stop() and of the surroundings.                     *)
LEMMA LookupKeeps == ASSUME SqsInv, Sqs!Lookup PROVE SqsInv'
<1>1. /\ rpc = "lookup" /\ UNCHANGED <<stopped, inch, sent, cancelled, message, ci>>
      /\ \/ rpc' = "returned" /\ poller' = poller
         \/ /\ rpc' = "run"
            /\ poller' = [q \in Queues |-> [poller[q] EXCEPT !.pc = "receive"]]
  BY DEF Sqs!Lookup
<1>2. Sqs!TypeOK /\ poller \in [Queues -> PollerRecord]
  BY DEF SqsInv, Sqs!TypeOK, PollerRecord
<1>3. \A q \in Queues : poller[q].pc = "idle" /\ Knows(poller[q], sent)
  BY <1>1 DEF SqsInv, Downfall, Sqs!At
<1>4. ~ci.stopping
  BY <1>1 DEF SqsInv, Downfall
<1>5. CASE rpc' = "returned" /\ poller' = poller
  <2>1. Sqs!TypeOK' BY <1>1, <1>2, <1>5 DEF Sqs!TypeOK
  <2>2. Downfall' BY <1>1, <1>3, <1>4, <1>5 DEF Downfall, Sqs!At
  <2> QED BY <2>1, <2>2, <1>1, <1>3, <1>5 DEF SqsInv
<1>6. CASE rpc' = "run" /\ poller' = [q \in Queues |-> [poller[q] EXCEPT !.pc = "receive"]]
  <2>1. poller' \in [Queues -> PollerRecord]
    BY <1>2, <1>6 DEF PollerRecord
  <2>2. Sqs!TypeOK'
    BY <1>1, <1>2, <1>6, <2>1 DEF Sqs!TypeOK, PollerRecord
  <2>3. ASSUME NEW q \in Queues PROVE Knows(poller'[q], sent)
    <3>1. poller'[q].pc = "receive" /\ poller'[q].m = poller[q].m
      BY <1>2, <1>6 DEF PollerRecord
    <3>2. poller[q].m \notin Messages
      BY <1>3, SourcesAssumption DEF Knows, SourcesAssumption, Sqs!SQSInputAssumption
    <3> QED BY <3>1, <3>2 DEF Knows
  <2>4. Downfall'
    BY <1>1, <1>4, <1>6 DEF Downfall
  <2> QED BY <2>2, <2>3, <2>4, <1>1 DEF SqsInv
<1> QED BY <1>1, <1>5, <1>6

LEMMA SqsRunKeeps ==
    ASSUME SqsInv,
           \/ Sqs!Cancel \/ Sqs!WaitPollers \/ Sqs!NoMoreFiles \/ Sqs!StopNow
           \/ Sqs!SetStopping \/ Sqs!RunReturn \/ Sqs!CloseDone \/ Sqs!Stop
           \/ Sqs!Drain \/ \E m \in Messages : Sqs!VisibilityTimeout(m)
    PROVE  SqsInv'
<1>1. poller' = poller /\ sent' = sent
  BY DEF Sqs!Cancel, Sqs!WaitPollers, Sqs!NoMoreFiles, Sqs!StopNow, Sqs!SetStopping,
         Sqs!RunReturn, Sqs!CloseDone, Sqs!Stop, Sqs!Drain, Sqs!VisibilityTimeout, Sqs!local
<1>2. Sqs!TypeOK /\ Downfall BY DEF SqsInv
<1>3. inch' \in 0 .. InCap /\ stopped' \in BOOLEAN /\ cancelled' \in BOOLEAN
  <2>1. stopped \in BOOLEAN /\ cancelled \in BOOLEAN /\ inch \in Nat /\ inch <= InCap /\ InCap \in Nat
    BY <1>2, SourcesAssumption DEF Sqs!TypeOK, SourcesAssumption, Sqs!SQSInputAssumption
  <2>2. stopped' \in {stopped, TRUE} /\ cancelled' \in {cancelled, TRUE}
        /\ (inch' = inch \/ (inch > 0 /\ inch' = inch - 1))
    BY DEF Sqs!Cancel, Sqs!WaitPollers, Sqs!NoMoreFiles, Sqs!StopNow, Sqs!SetStopping,
           Sqs!RunReturn, Sqs!CloseDone, Sqs!Stop, Sqs!Drain, Sqs!VisibilityTimeout, Sqs!local
  <2>3. inch' \in 0 .. InCap BY <2>1, <2>2
  <2> QED BY <2>1, <2>2, <2>3
<1>4. ci' \in [filesClosed : BOOLEAN, stopNow : BOOLEAN, stopping : BOOLEAN, done : BOOLEAN]
      /\ (ci'.stopping => ci.stopping \/ rpc' = "drain")
  BY <1>2
     DEF Sqs!Cancel, Sqs!WaitPollers, Sqs!NoMoreFiles, Sqs!StopNow, Sqs!SetStopping,
         Sqs!RunReturn, Sqs!CloseDone, Sqs!Stop, Sqs!Drain, Sqs!VisibilityTimeout, Sqs!local,
         Sqs!TypeOK
<1>5. /\ message' \in [Messages -> [state : {"visible", "inflight", "deleted"}, receives : Nat]]
      /\ \A n \in Messages : message'[n].state = "deleted" => message[n].state = "deleted"
  <2>1. CASE message' = message BY <2>1, <1>2 DEF Sqs!TypeOK
  <2>2. CASE \E m \in Messages : Sqs!VisibilityTimeout(m)
    BY <2>2, <1>2 DEF Sqs!VisibilityTimeout, Sqs!TypeOK
  <2> QED
    BY <2>1, <2>2
       DEF Sqs!Cancel, Sqs!WaitPollers, Sqs!NoMoreFiles, Sqs!StopNow, Sqs!SetStopping,
           Sqs!RunReturn, Sqs!CloseDone, Sqs!Stop, Sqs!Drain, Sqs!local
<1>6. \/ rpc' = rpc
      \/ rpc = "run" /\ rpc' = "wait"
      \/ rpc = "wait" /\ rpc' = "nomore" /\ \A q \in Queues : Sqs!At(q, "exited")
      \/ rpc = "nomore" /\ rpc' = "stop"
      \/ rpc = "stop" /\ rpc' = "flag"
      \/ rpc = "flag" /\ rpc' = "drain"
      \/ rpc = "drain" /\ rpc' = "returned"
  BY DEF Sqs!Cancel, Sqs!WaitPollers, Sqs!NoMoreFiles, Sqs!StopNow, Sqs!SetStopping,
         Sqs!RunReturn, Sqs!CloseDone, Sqs!Stop, Sqs!Drain, Sqs!VisibilityTimeout, Sqs!local
<1>7. \A q \in Queues : \A pc : Sqs!At(q, pc)' = Sqs!At(q, pc)
  BY <1>1 DEF Sqs!At
<1>8. Downfall'
  <2>1. rpc' = "lookup" => \A q \in Queues : Sqs!At(q, "idle")'
    BY <1>2, <1>6, <1>7 DEF Downfall
  <2>2. rpc' \in {"nomore", "stop", "flag", "drain"} => \A q \in Queues : Sqs!At(q, "exited")'
    BY <1>2, <1>6, <1>7 DEF Downfall
  <2>3. ci'.stopping => rpc' \in {"drain", "returned"}
    BY <1>2, <1>4, <1>6 DEF Downfall
  <2>4. rpc' = "returned" => \A q \in Queues : Sqs!At(q, "exited")' \/ Sqs!At(q, "idle")'
    BY <1>2, <1>6, <1>7 DEF Downfall
  <2> QED BY <2>1, <2>2, <2>3, <2>4 DEF Downfall
<1>9. Sqs!TypeOK'
  <2>1. rpc' \in {"lookup", "run", "wait", "nomore", "stop", "flag", "drain", "returned"}
    BY <1>2, <1>6 DEF Sqs!TypeOK
  <2> QED BY <2>1, <1>1, <1>2, <1>3, <1>4, <1>5 DEF Sqs!TypeOK
<1> QED BY <1>1, <1>5, <1>8, <1>9 DEF SqsInv

LEMMA SqsKeeps == ASSUME SqsInv, Sqs!Next PROVE SqsInv'
<1>1. CASE \E q \in Queues : Sqs!PollerStep(q)
  <2>1. PICK q \in Queues : Sqs!PollerStep(q) BY <1>1
  <2>2. CASE \E m \in Messages : Sqs!Receive(q, m) BY <2>2, ReceiveKeeps
  <2>3. CASE Sqs!ReceiveFails(q) \/ Sqs!Wake(q) \/ Sqs!SeeCancel(q) BY <2>3, RequestKeeps
  <2>4. CASE Sqs!Parse(q) BY <2>4, ParseKeeps
  <2>5. CASE Sqs!Open(q) BY <2>5, OpenKeeps
  <2>6. CASE Sqs!Read(q) BY <2>6, ReadKeeps
  <2>7. CASE Sqs!Send(q) BY <2>7, SqsSendKeeps
  <2>8. CASE Sqs!Delete(q) BY <2>8, DeleteKeeps
  <2> QED BY <2>1, <2>2, <2>3, <2>4, <2>5, <2>6, <2>7, <2>8 DEF Sqs!PollerStep
<1>2. CASE Sqs!Lookup BY <1>2, LookupKeeps
<1>3. CASE \/ Sqs!Cancel \/ Sqs!WaitPollers \/ Sqs!NoMoreFiles \/ Sqs!StopNow
           \/ Sqs!SetStopping \/ Sqs!RunReturn \/ Sqs!CloseDone \/ Sqs!Stop
           \/ Sqs!Drain \/ \E m \in Messages : Sqs!VisibilityTimeout(m)
  BY <1>3, SqsRunKeeps
<1> QED BY <1>1, <1>2, <1>3 DEF Sqs!Next, Sqs!RunStep

(* Another input, or nobody, moves.                                         *)
LEMMA SqsStands == ASSUME SqsInv, UNCHANGED <<common, sqsvars>> PROVE SqsInv'
<1>1. UNCHANGED <<rpc, stopped, inch, sent, cancelled, message, poller, ci>>
  BY DEF common, sqsvars
<1>2. Downfall' BY <1>1 DEF SqsInv, Downfall, Sqs!At
<1>3. Sqs!TypeOK' BY <1>1 DEF SqsInv, Sqs!TypeOK
<1> QED BY <1>1, <1>2, <1>3 DEF SqsInv

\* Every poller knows which message it handles, and a deleted message has
\* been read as far as it can be.
THEOREM SqsInvariance == Spec => [](source = "sqs" => SqsInv)
<1>1. Init => (source = "sqs" => SqsInv) BY SqsBegins
<1>2. (source = "sqs" => SqsInv) /\ [Next]_vars => (source = "sqs" => SqsInv)'
  <2> SUFFICES ASSUME source = "sqs" => SqsInv, [Next]_vars, source' = "sqs" PROVE SqsInv'
    OBVIOUS
  <2>1. CASE Only("sqs") /\ Sqs!Next BY <2>1, SqsKeeps DEF Only
  <2>2. CASE UNCHANGED vars BY <2>2, SqsStands DEF vars
  <2> QED BY <2>1, <2>2 DEF Next, Only, Terminated
<1> QED BY <1>1, <1>2, PTL DEF Spec

(***************************************************************************)
(* The TCP input.                                                          *)
(***************************************************************************)
Connection == [pc : {"none", "header", "test", "read", "send", "sendlast", "closed"},
               got : 0 .. MaxChunks + 1, data : Tcp!Answers]

(* The chunks a connection has read are those it sent, n, and the one it    *)
(* is sending; the last, empty one comes on top of those the peer has.      *)
Counts(c, n) ==
    /\ c.got = IF c.pc \in {"send", "sendlast"} THEN n + 1 ELSE n
    /\ c.pc \notin {"sendlast", "closed"} => c.got <= MaxChunks
    /\ c.data = "chunk" => c.got < MaxChunks

TcpPhases ==
    /\ rpc = "lookup" => \A p \in Peers : Tcp!At(p, "none")
    /\ rpc = "returned" => \A p \in Peers : Tcp!At(p, "none") \/ Tcp!At(p, "closed")

TcpInv ==
    /\ Tcp!TypeOK
    /\ InOrder(sent)
    /\ \A p \in Peers : Counts(conn[p], Cardinality(Mine(sent, p)))
    /\ TcpPhases

LEMMA TcpConstants == MaxChunks \in Nat \ {0} /\ InCap \in Nat \ {0}
BY SourcesAssumption DEF SourcesAssumption, Tcp!TCPInputAssumption

LEMMA TcpBegins == source = "tcp" /\ Init => TcpInv
<1> SUFFICES ASSUME source = "tcp", Init PROVE TcpInv
  OBVIOUS
<1>1. /\ rpc = "lookup" /\ stopped = FALSE /\ inch = 0 /\ sent = <<>>
      /\ conn = [p \in Peers |-> [pc |-> "none", got |-> 0, data |-> "nothing"]]
  BY DEF Init, Tcp!LocalInit
<1>2. conn \in [Peers -> Connection] /\ inch \in 0 .. InCap
  BY <1>1, TcpConstants DEF Connection, Tcp!Answers
<1>3. Tcp!TypeOK
  BY <1>1, <1>2, EmptySeq DEF Tcp!TypeOK, Connection
<1>4. InOrder(sent)
  BY <1>1 DEF InOrder
<1>5. \A p \in Peers : Counts(conn[p], Cardinality(Mine(sent, p)))
  BY <1>1, NothingMine, TcpConstants DEF Counts
<1>6. TcpPhases
  BY <1>1 DEF TcpPhases, Tcp!At
<1> QED BY <1>3, <1>4, <1>5, <1>6 DEF TcpInv

(* One connection moves while Run neither begins nor has returned.          *)
LEMMA OneConnection ==
    ASSUME TcpInv, NEW p \in Peers, NEW c \in Connection,
           conn' = [conn EXCEPT ![p] = c],
           rpc' \in {"run", "accept", "wait", "panic"}, UNCHANGED stopped,
           inch' \in 0 .. InCap, sent' \in Seq(Peers \X Nat), InOrder(sent'),
           \A r \in Peers : r # p => Mine(sent', r) = Mine(sent, r),
           Counts(c, Cardinality(Mine(sent', p)))
    PROVE  TcpInv'
<1>1. conn \in [Peers -> Connection] /\ Tcp!TypeOK
  BY DEF TcpInv, Tcp!TypeOK, Connection
<1>2. conn' \in [Peers -> Connection]
      /\ \A r \in Peers : conn'[r] = IF r = p THEN c ELSE conn[r]
  BY <1>1
<1>3. Tcp!TypeOK'
  BY <1>1, <1>2 DEF Tcp!TypeOK, Connection
<1>4. \A r \in Peers : Counts(conn'[r], Cardinality(Mine(sent', r)))
  <2> TAKE r \in Peers
  <2>1. CASE r = p BY <2>1, <1>2
  <2>2. CASE r # p
    <3>1. Counts(conn[r], Cardinality(Mine(sent, r))) BY DEF TcpInv
    <3>2. conn'[r] = conn[r] /\ Mine(sent', r) = Mine(sent, r) BY <2>2, <1>2
    <3> QED BY <3>1, <3>2
  <2> QED BY <2>1, <2>2
<1>5. TcpPhases'
  BY DEF TcpPhases
<1> QED BY <1>3, <1>4, <1>5 DEF TcpInv

(* The same when nothing is sent.                                           *)
LEMMA ConnectionGoes ==
    ASSUME TcpInv, NEW p \in Peers, NEW c \in Connection,
           conn' = [conn EXCEPT ![p] = c],
           rpc' \in {"run", "accept", "wait", "panic"}, UNCHANGED <<stopped, inch, sent>>,
           Counts(c, Cardinality(Mine(sent, p)))
    PROVE  TcpInv'
<1>1. inch' \in 0 .. InCap /\ sent' \in Seq(Peers \X Nat) /\ InOrder(sent') /\ sent' = sent
  BY DEF TcpInv, Tcp!TypeOK
<1>2. \A r \in Peers : Mine(sent', r) = Mine(sent, r)
  BY <1>1
<1>3. UNCHANGED stopped OBVIOUS
<1> QED BY <1>1, <1>2, <1>3, OneConnection

(* A connection at work finds Run accepting or waiting.                     *)
LEMMA RunAwaits ==
    ASSUME TcpInv, NEW p \in Peers, conn[p].pc \notin {"none", "closed"}
    PROVE  rpc \in {"run", "accept", "wait", "panic"}
BY DEF TcpInv, TcpPhases, Tcp!TypeOK, Tcp!At

LEMMA AcceptKeeps == ASSUME TcpInv, NEW p \in Peers, Tcp!Accept(p) PROVE TcpInv'
<1>1. PICK c : c = [pc |-> "header", got |-> conn[p].got, data |-> conn[p].data]
  OBVIOUS
<1>2. conn[p] \in Connection /\ conn \in [Peers -> Connection]
  BY DEF TcpInv, Tcp!TypeOK, Connection
<1>3. conn[p].pc = "none" /\ rpc' = "run" /\ UNCHANGED <<stopped, inch, sent>>
  BY DEF Tcp!Accept, Tcp!At
<1>4. conn' = [conn EXCEPT ![p] = c]
  <2>1. [conn[p] EXCEPT !.pc = "header"] = c BY <1>1, <1>2 DEF Connection
  <2>2. conn' = [conn EXCEPT ![p] = [conn[p] EXCEPT !.pc = "header"]] BY DEF Tcp!Accept
  <2> QED BY <2>1, <2>2
<1>5. c \in Connection BY <1>1, <1>2 DEF Connection
<1>6. Counts(conn[p], Cardinality(Mine(sent, p))) BY DEF TcpInv
<1>7. Counts(c, Cardinality(Mine(sent, p)))
  BY <1>1, <1>3, <1>6 DEF Counts
<1> QED BY <1>3, <1>4, <1>5, <1>7, ConnectionGoes

LEMMA HeaderKeeps == ASSUME TcpInv, NEW p \in Peers, Tcp!Header(p) PROVE TcpInv'
<1>2. conn[p] \in Connection /\ conn \in [Peers -> Connection]
  BY DEF TcpInv, Tcp!TypeOK, Connection
<1>3. conn[p].pc = "header" /\ UNCHANGED <<rpc, stopped, inch, sent>>
  BY DEF Tcp!Header, Tcp!At
<1>4. Counts(conn[p], Cardinality(Mine(sent, p))) BY DEF TcpInv
<1>5. rpc' \in {"run", "accept", "wait", "panic"} BY <1>3, RunAwaits
<1>6. PICK c : c \in {[pc |-> "test", got |-> conn[p].got, data |-> conn[p].data],
                      [pc |-> "closed", got |-> conn[p].got + 0, data |-> "nothing"]}
               /\ conn' = [conn EXCEPT ![p] = c]
  <2>1. CASE conn' = [conn EXCEPT ![p].pc = "test"]
    <3>1. [conn[p] EXCEPT !.pc = "test"] = [pc |-> "test", got |-> conn[p].got, data |-> conn[p].data]
      BY <1>2 DEF Connection
    <3>2. conn' = [conn EXCEPT ![p] = [conn[p] EXCEPT !.pc = "test"]] BY <2>1
    <3> QED BY <3>1, <3>2
  <2>2. CASE Tcp!Consume(p, "closed", 0) BY <2>2 DEF Tcp!Consume
  <2> QED BY <2>1, <2>2 DEF Tcp!Header
<1>7. c \in Connection /\ c.got = conn[p].got /\ c.pc \in {"test", "closed"}
      /\ c.data \in {conn[p].data, "nothing"}
  BY <1>2, <1>6, TcpConstants DEF Connection, Tcp!Answers
<1>8. Counts(c, Cardinality(Mine(sent, p)))
  BY <1>3, <1>4, <1>7 DEF Counts
<1>9. UNCHANGED <<stopped, inch, sent>> BY <1>3
<1> QED BY <1>5, <1>6, <1>7, <1>8, <1>9, ConnectionGoes

LEMMA TestStopConnKeeps == ASSUME TcpInv, NEW p \in Peers, Tcp!TestStopConn(p) PROVE TcpInv'
<1>1. PICK pc \in {"closed", "read"} : conn' = [conn EXCEPT ![p].pc = pc]
  BY DEF Tcp!TestStopConn
<1>2. conn[p] \in Connection /\ conn \in [Peers -> Connection]
  BY DEF TcpInv, Tcp!TypeOK, Connection
<1>3. conn[p].pc = "test" /\ UNCHANGED <<rpc, stopped, inch, sent>>
  BY DEF Tcp!TestStopConn, Tcp!At
<1>4. Counts(conn[p], Cardinality(Mine(sent, p))) BY DEF TcpInv
<1>5. rpc' \in {"run", "accept", "wait", "panic"} BY <1>3, RunAwaits
<1>6. PICK c : c = [pc |-> pc, got |-> conn[p].got, data |-> conn[p].data]
  OBVIOUS
<1>7. conn' = [conn EXCEPT ![p] = c]
  <2>1. [conn[p] EXCEPT !.pc = pc] = c BY <1>2, <1>6 DEF Connection
  <2>2. conn' = [conn EXCEPT ![p] = [conn[p] EXCEPT !.pc = pc]] BY <1>1
  <2> QED BY <2>1, <2>2
<1>8. c \in Connection BY <1>2, <1>6 DEF Connection
<1>9. Counts(c, Cardinality(Mine(sent, p)))
  BY <1>3, <1>4, <1>6 DEF Counts
<1> QED BY <1>3, <1>5, <1>7, <1>8, <1>9, ConnectionGoes

LEMMA TcpReadKeeps == ASSUME TcpInv, NEW p \in Peers, Tcp!Read(p) PROVE TcpInv'
<1>1. conn[p] \in Connection /\ conn \in [Peers -> Connection]
  BY DEF TcpInv, Tcp!TypeOK, Connection
<1>2. /\ conn[p].pc = "read" /\ UNCHANGED <<rpc, stopped, inch, sent>>
      /\ \/ conn[p].data = "chunk" /\ Tcp!Consume(p, "send", 1)
         \/ conn[p].data = "end" /\ Tcp!Consume(p, "sendlast", 1)
         \/ conn[p].data = "broken" /\ Tcp!Consume(p, "closed", 0)
  BY DEF Tcp!Read, Tcp!At, Tcp!Readable
<1>3. Counts(conn[p], Cardinality(Mine(sent, p))) BY DEF TcpInv
<1>4. rpc' \in {"run", "accept", "wait", "panic"} BY <1>2, RunAwaits
<1>5. PICK c : /\ conn' = [conn EXCEPT ![p] = c]
               /\ \/ /\ c = [pc |-> "send", got |-> conn[p].got + 1, data |-> "nothing"]
                     /\ conn[p].data = "chunk"
                  \/ c = [pc |-> "sendlast", got |-> conn[p].got + 1, data |-> "nothing"]
                  \/ c = [pc |-> "closed", got |-> conn[p].got + 0, data |-> "nothing"]
  BY <1>2 DEF Tcp!Consume
<1>6. conn[p].got \in Nat /\ conn[p].got = Cardinality(Mine(sent, p))
      /\ conn[p].got <= MaxChunks /\ (conn[p].data = "chunk" => conn[p].got < MaxChunks)
  BY <1>1, <1>2, <1>3, TcpConstants DEF Counts, Connection
<1>7. c \in Connection
  BY <1>5, <1>6, TcpConstants DEF Connection, Tcp!Answers
<1>8. Counts(c, Cardinality(Mine(sent, p)))
  BY <1>5, <1>6, TcpConstants DEF Counts
<1>9. UNCHANGED <<stopped, inch, sent>> BY <1>2
<1> QED BY <1>4, <1>5, <1>7, <1>8, <1>9, ConnectionGoes

LEMMA TcpSendKeeps == ASSUME TcpInv, NEW p \in Peers, Tcp!Send(p) PROVE TcpInv'
<1>1. conn[p] \in Connection /\ conn \in [Peers -> Connection] /\ sent \in Seq(Peers \X Nat)
      /\ inch \in 0 .. InCap
  BY DEF TcpInv, Tcp!TypeOK, Connection
<1>2. PICK pc : pc = IF conn[p].pc = "sendlast" THEN "closed" ELSE "test"
  OBVIOUS
<1>3. /\ conn[p].pc \in {"send", "sendlast"} /\ inch < InCap /\ inch' = inch + 1
      /\ sent' = Append(sent, <<p, conn[p].got>>)
      /\ conn' = [conn EXCEPT ![p].pc = pc] /\ UNCHANGED <<rpc, stopped>>
  BY <1>2 DEF Tcp!Send, Tcp!At
<1>4. Counts(conn[p], Cardinality(Mine(sent, p))) BY DEF TcpInv
<1>5. rpc' \in {"run", "accept", "wait", "panic"} BY <1>3, RunAwaits
<1>6. conn[p].got \in Nat /\ conn[p].got = Cardinality(Mine(sent, p)) + 1
  BY <1>1, <1>3, <1>4 DEF Counts, Connection
<1>7. PICK c : c = [pc |-> pc, got |-> conn[p].got, data |-> conn[p].data]
  OBVIOUS
<1>8. conn' = [conn EXCEPT ![p] = c]
  <2>1. conn[p] \in Connection BY <1>1
  <2>2. [conn[p] EXCEPT !.pc = pc] = c BY <2>1, <1>7 DEF Connection
  <2>3. conn' = [conn EXCEPT ![p] = [conn[p] EXCEPT !.pc = pc]] BY <1>3
  <2> QED BY <2>2, <2>3
<1>9. c \in Connection BY <1>1, <1>2, <1>7 DEF Connection
<1>10. /\ InOrder(sent') /\ Cardinality(Mine(sent', p)) = conn[p].got
       /\ \A r \in Peers : r # p => Mine(sent', r) = Mine(sent, r)
  <2>1. PICK s, n : s = sent /\ n = conn[p].got OBVIOUS
  <2>2. s \in Seq(Peers \X Nat) /\ n \in Nat /\ n = Cardinality(Mine(s, p)) + 1 /\ InOrder(s)
    BY <1>1, <1>6, <2>1 DEF TcpInv
  <2>3. /\ InOrder(Append(s, <<p, n>>)) /\ Cardinality(Mine(Append(s, <<p, n>>), p)) = n
        /\ \A r : r # p => Mine(Append(s, <<p, n>>), r) = Mine(s, r)
    BY <2>2, NextInOrder
  <2> QED BY <1>3, <2>1, <2>3
<1>11. sent' \in Seq(Peers \X Nat) /\ inch' \in 0 .. InCap
  <2>1. <<p, conn[p].got>> \in Peers \X Nat BY <1>6
  <2>2. sent' \in Seq(Peers \X Nat) BY <1>1, <1>3, <2>1, AppendProperties
  <2> QED BY <1>1, <1>3, <2>2, TcpConstants
<1>12. Counts(c, Cardinality(Mine(sent', p)))
  BY <1>2, <1>3, <1>4, <1>7, <1>10 DEF Counts
<1>13. UNCHANGED stopped BY <1>3
<1> QED BY <1>5, <1>8, <1>9, <1>10, <1>11, <1>12, <1>13, OneConnection

LEMMA PeerKeeps == ASSUME TcpInv, NEW p \in Peers, Tcp!PeerActs(p) PROVE TcpInv'
<1>1. PICK d \in Tcp!Answers : (d = "chunk" => conn[p].got < MaxChunks)
                               /\ conn' = [conn EXCEPT ![p].data = d]
  BY DEF Tcp!PeerActs
<1>2. conn[p] \in Connection /\ conn \in [Peers -> Connection]
  BY DEF TcpInv, Tcp!TypeOK, Connection
<1>3. conn[p].pc \notin {"none", "closed"} /\ UNCHANGED <<rpc, stopped, inch, sent>>
  BY DEF Tcp!PeerActs, Tcp!At
<1>4. Counts(conn[p], Cardinality(Mine(sent, p))) BY DEF TcpInv
<1>5. rpc' \in {"run", "accept", "wait", "panic"} BY <1>3, RunAwaits
<1>6. PICK c : c = [pc |-> conn[p].pc, got |-> conn[p].got, data |-> d]
  OBVIOUS
<1>7. conn' = [conn EXCEPT ![p] = c]
  <2>1. [conn[p] EXCEPT !.data = d] = c BY <1>2, <1>6 DEF Connection
  <2>2. conn' = [conn EXCEPT ![p] = [conn[p] EXCEPT !.data = d]] BY <1>1
  <2> QED BY <2>1, <2>2
<1>8. c \in Connection BY <1>2, <1>6 DEF Connection
<1>9. Counts(c, Cardinality(Mine(sent, p)))
  BY <1>1, <1>4, <1>6 DEF Counts
<1> QED BY <1>3, <1>5, <1>7, <1>8, <1>9, ConnectionGoes

LEMMA TcpRunKeeps ==
    ASSUME TcpInv,
           Tcp!Listen \/ Tcp!TestStop \/ Tcp!AcceptNothing \/ Tcp!RunReturn \/ Tcp!Stop \/ Tcp!Drain
    PROVE  TcpInv'
<1>1. Tcp!TypeOK /\ TcpPhases BY DEF TcpInv
<1>2. conn' = conn /\ sent' = sent
  BY DEF Tcp!Listen, Tcp!TestStop, Tcp!AcceptNothing, Tcp!RunReturn, Tcp!Stop, Tcp!Drain
<1>3. stopped' \in {stopped, TRUE} /\ (inch' = inch \/ (inch > 0 /\ inch' = inch - 1))
  BY DEF Tcp!Listen, Tcp!TestStop, Tcp!AcceptNothing, Tcp!RunReturn, Tcp!Stop, Tcp!Drain
<1>4. \/ rpc' = rpc
      \/ rpc' \in {"run", "wait", "accept", "panic"}
      \/ rpc = "lookup" /\ rpc' = "returned"
      \/ rpc' = "returned" /\ \A p \in Peers : Tcp!At(p, "none") \/ Tcp!At(p, "closed")
  BY DEF Tcp!Listen, Tcp!TestStop, Tcp!AcceptNothing, Tcp!RunReturn, Tcp!Stop, Tcp!Drain
<1>5. inch' \in 0 .. InCap
  BY <1>1, <1>3, TcpConstants DEF Tcp!TypeOK
<1>6. Tcp!TypeOK'
  BY <1>1, <1>2, <1>3, <1>4, <1>5 DEF Tcp!TypeOK
<1>7. TcpPhases'
  BY <1>1, <1>2, <1>4 DEF TcpPhases, Tcp!At
<1> QED BY <1>2, <1>6, <1>7 DEF TcpInv

LEMMA TcpKeeps == ASSUME TcpInv, Tcp!Next PROVE TcpInv'
<1>1. CASE \E p \in Peers : Tcp!ConnStep(p) \/ Tcp!PeerActs(p) \/ Tcp!Accept(p)
  <2>1. PICK p \in Peers : Tcp!ConnStep(p) \/ Tcp!PeerActs(p) \/ Tcp!Accept(p) BY <1>1
  <2>2. CASE Tcp!Header(p) BY <2>2, HeaderKeeps
  <2>3. CASE Tcp!TestStopConn(p) BY <2>3, TestStopConnKeeps
  <2>4. CASE Tcp!Read(p) BY <2>4, TcpReadKeeps
  <2>5. CASE Tcp!Send(p) BY <2>5, TcpSendKeeps
  <2>6. CASE Tcp!PeerActs(p) BY <2>6, PeerKeeps
  <2>7. CASE Tcp!Accept(p) BY <2>7, AcceptKeeps
  <2> QED BY <2>1, <2>2, <2>3, <2>4, <2>5, <2>6, <2>7 DEF Tcp!ConnStep
<1>2. CASE Tcp!Listen \/ Tcp!TestStop \/ Tcp!AcceptNothing \/ Tcp!RunReturn \/ Tcp!Stop \/ Tcp!Drain
  BY <1>2, TcpRunKeeps
<1> QED BY <1>1, <1>2 DEF Tcp!Next, Tcp!RunStep

LEMMA TcpStands == ASSUME TcpInv, UNCHANGED <<common, conn>> PROVE TcpInv'
<1>1. UNCHANGED <<rpc, stopped, inch, sent, conn>>
  BY DEF common
<1>2. TcpPhases' BY <1>1 DEF TcpInv, TcpPhases, Tcp!At
<1>3. Tcp!TypeOK' BY <1>1 DEF TcpInv, Tcp!TypeOK
<1> QED BY <1>1, <1>2, <1>3 DEF TcpInv

\* The chunks of a connection are sent in order, and every connection is
\* where Run has brought it.
THEOREM TcpInvariance == Spec => [](source = "tcp" => TcpInv)
<1>1. Init => (source = "tcp" => TcpInv) BY TcpBegins
<1>2. (source = "tcp" => TcpInv) /\ [Next]_vars => (source = "tcp" => TcpInv)'
  <2> SUFFICES ASSUME source = "tcp" => TcpInv, [Next]_vars, source' = "tcp" PROVE TcpInv'
    OBVIOUS
  <2>1. CASE Only("tcp") /\ Tcp!Next BY <2>1, TcpKeeps DEF Only
  <2>2. CASE UNCHANGED vars BY <2>2, TcpStands DEF vars
  <2> QED BY <2>1, <2>2 DEF Next, Only, Terminated
<1> QED BY <1>1, <1>2, PTL DEF Spec

(***************************************************************************)
(* The Kinesis input.                                                      *)
(***************************************************************************)
ShardRecord == [pc : Kin!Pcs, page : Nat \ {0}, left : Nat, n : Nat]

(* Of shard s the goroutine c has sent n records: those before its page,   *)
(* and of its page those that are not left.                                *)
Progress(s, c, n) ==
    /\ c.n = n /\ c.page <= Len(Ends[s]) + 1
    /\ c.pc \in {"none", "iterator", "test", "get"} => c.n = Kin!Before(s, c.page)
    /\ c.pc = "send" => /\ c.page <= Len(Ends[s]) /\ c.left > 0
                        /\ c.n + c.left = Ends[s][c.page]
    /\ c.pc = "next" => c.n = IF c.page <= Len(Ends[s]) THEN Ends[s][c.page]
                                                        ELSE Kin!Before(s, c.page)

KinPhases ==
    /\ rpc = "run" => \A s \in Shards : Kin!At(s, "none")
    /\ rpc = "returned" => \A s \in Shards : Kin!At(s, "exited")

KinInv ==
    /\ Kin!TypeOK
    /\ InOrder(sent)
    /\ \A s \in Shards : Progress(s, shard[s], Cardinality(Mine(sent, s)))
    /\ KinPhases

LEMMA KinConstants ==
    /\ InCap \in Nat \ {0} /\ Ends \in [Shards -> Seq(Nat)]
    /\ \A s \in Shards : Len(Ends[s]) \in Nat /\ \A i \in 1 .. Len(Ends[s]) : Ends[s][i] \in Nat
    /\ \A s \in Shards : \A i \in 1 .. Len(Ends[s]) - 1 : Ends[s][i] <= Ends[s][i + 1]
<1>1. InCap \in Nat \ {0} /\ Ends \in [Shards -> Seq(Nat)]
      /\ \A s \in Shards : \A i \in 1 .. Len(Ends[s]) - 1 : Ends[s][i] <= Ends[s][i + 1]
  BY SourcesAssumption DEF SourcesAssumption, Kin!KinesisInputAssumption
<1>2. \A s \in Shards : Len(Ends[s]) \in Nat /\ \A i \in 1 .. Len(Ends[s]) : Ends[s][i] \in Nat
  BY <1>1
<1> QED BY <1>1, <1>2

(* Pages follow one another.                                                *)
LEMMA PagesFollow ==
    ASSUME NEW s \in Shards, NEW k \in Nat \ {0}, k <= Len(Ends[s]) + 1
    PROVE  /\ Kin!Before(s, k) \in Nat /\ Kin!OnPage(s, k) \in Nat
           /\ k <= Len(Ends[s]) => /\ Kin!OnPage(s, k) = Ends[s][k] - Kin!Before(s, k)
                                   /\ Kin!Before(s, k + 1) = Ends[s][k] /\ Ends[s][k] \in Nat
           /\ k > Len(Ends[s]) => Kin!OnPage(s, k) = 0
<1>1. Len(Ends[s]) \in Nat /\ \A i \in 1 .. Len(Ends[s]) : Ends[s][i] \in Nat
  BY KinConstants
<1>2. Kin!Before(s, k) \in Nat
  <2>1. CASE k = 1 BY <2>1 DEF Kin!Before
  <2>2. CASE k # 1
    <3>1. k - 1 \in 1 .. Len(Ends[s]) BY <1>1, <2>2
    <3> QED BY <1>1, <2>2, <3>1 DEF Kin!Before
  <2> QED BY <2>1, <2>2
<1>3. CASE k <= Len(Ends[s])
  <2>1. k \in 1 .. Len(Ends[s]) /\ Ends[s][k] \in Nat BY <1>1, <1>3
  <2>2. Kin!Before(s, k) <= Ends[s][k]
    <3>1. CASE k = 1 BY <3>1, <2>1 DEF Kin!Before
    <3>2. CASE k # 1
      <4>1. k - 1 \in 1 .. Len(Ends[s]) - 1 /\ (k - 1) + 1 = k BY <1>1, <1>3, <3>2
      <4>2. Ends[s][k - 1] <= Ends[s][(k - 1) + 1] BY <4>1, KinConstants
      <4> QED BY <3>2, <4>1, <4>2 DEF Kin!Before
    <3> QED BY <3>1, <3>2
  <2>3. Kin!OnPage(s, k) = Ends[s][k] - Kin!Before(s, k)
    BY <1>3 DEF Kin!OnPage
  <2>4. Kin!Before(s, k + 1) = Ends[s][k]
    <3>1. k + 1 # 1 /\ (k + 1) - 1 = k OBVIOUS
    <3> QED BY <3>1 DEF Kin!Before
  <2> QED BY <1>2, <1>3, <1>1, <2>1, <2>2, <2>3, <2>4
<1>4. CASE k > Len(Ends[s])
  <2>1. ~(k <= Len(Ends[s])) BY <1>1, <1>4
  <2> QED BY <1>2, <2>1 DEF Kin!OnPage
<1> QED BY <1>1, <1>3, <1>4

LEMMA KinBegins == source = "kinesis" /\ Init => KinInv
<1> SUFFICES ASSUME source = "kinesis", Init PROVE KinInv
  OBVIOUS
<1>1. /\ rpc = "run" /\ stopped = FALSE /\ inch = 0 /\ sent = <<>>
      /\ shard = [s \in Shards |-> [pc |-> "none", page |-> 1, left |-> 0, n |-> 0]]
  BY DEF Init, Kin!LocalInit
<1>2. shard \in [Shards -> ShardRecord] /\ inch \in 0 .. InCap
  BY <1>1, KinConstants DEF ShardRecord, Kin!Pcs
<1>3. Kin!TypeOK
  BY <1>1, <1>2, EmptySeq DEF Kin!TypeOK, ShardRecord
<1>4. InOrder(sent)
  BY <1>1 DEF InOrder
<1>5. \A s \in Shards : Progress(s, shard[s], Cardinality(Mine(sent, s)))
  BY <1>1, NothingMine, KinConstants DEF Progress, Kin!Before
<1>6. KinPhases
  BY <1>1 DEF KinPhases, Kin!At
<1> QED BY <1>3, <1>4, <1>5, <1>6 DEF KinInv

(* The goroutine of one shard moves while Run waits for it.                 *)
LEMMA OneShard ==
    ASSUME KinInv, NEW s \in Shards, NEW c \in ShardRecord,
           shard' = [shard EXCEPT ![s] = c],
           shard[s].pc \notin {"none", "exited"}, UNCHANGED <<rpc, stopped>>,
           inch' \in 0 .. InCap, sent' \in Seq(Shards \X Nat), InOrder(sent'),
           \A r \in Shards : r # s => Mine(sent', r) = Mine(sent, r),
           Progress(s, c, Cardinality(Mine(sent', s)))
    PROVE  KinInv'
<1>1. shard \in [Shards -> ShardRecord] /\ Kin!TypeOK
  BY DEF KinInv, Kin!TypeOK, ShardRecord
<1>2. shard' \in [Shards -> ShardRecord]
      /\ \A r \in Shards : shard'[r] = IF r = s THEN c ELSE shard[r]
  BY <1>1
<1>3. Kin!TypeOK'
  BY <1>1, <1>2 DEF Kin!TypeOK, ShardRecord
<1>4. \A r \in Shards : Progress(r, shard'[r], Cardinality(Mine(sent', r)))
  <2> TAKE r \in Shards
  <2>1. CASE r = s BY <2>1, <1>2
  <2>2. CASE r # s
    <3>1. Progress(r, shard[r], Cardinality(Mine(sent, r))) BY DEF KinInv
    <3>2. shard'[r] = shard[r] /\ Mine(sent', r) = Mine(sent, r) BY <2>2, <1>2
    <3> QED BY <3>1, <3>2
  <2> QED BY <2>1, <2>2
<1>5. KinPhases'
  BY DEF KinInv, KinPhases, Kin!At
<1> QED BY <1>3, <1>4, <1>5 DEF KinInv

(* The same when nothing is sent.                                           *)
LEMMA ShardGoes ==
    ASSUME KinInv, NEW s \in Shards, NEW c \in ShardRecord,
           shard' = [shard EXCEPT ![s] = c],
           shard[s].pc \notin {"none", "exited"}, UNCHANGED <<rpc, stopped, inch, sent>>,
           Progress(s, c, Cardinality(Mine(sent, s)))
    PROVE  KinInv'
<1>1. inch' \in 0 .. InCap /\ sent' \in Seq(Shards \X Nat) /\ InOrder(sent') /\ sent' = sent
  BY DEF KinInv, Kin!TypeOK
<1>2. \A r \in Shards : Mine(sent', r) = Mine(sent, r)
  BY <1>1
<1>3. UNCHANGED <<rpc, stopped>> OBVIOUS
<1> QED BY <1>1, <1>2, <1>3, OneShard

(* Only the program counter changes.                                        *)
LEMMA ShardTurns ==
    ASSUME KinInv, NEW s \in Shards, NEW pc \in {"test", "get", "exited", "panic"},
           Kin!Goto(s, pc), shard[s].pc \in {"iterator", "test", "get"},
           UNCHANGED <<rpc, stopped, inch, sent>>
    PROVE  KinInv'
<1>1. shard[s] \in ShardRecord
  BY DEF KinInv, Kin!TypeOK, ShardRecord
<1>2. PICK c : c = [pc |-> pc, page |-> shard[s].page, left |-> shard[s].left, n |-> shard[s].n]
  OBVIOUS
<1>3. shard' = [shard EXCEPT ![s] = c]
  <2>1. [shard[s] EXCEPT !.pc = pc] = c BY <1>1, <1>2 DEF ShardRecord
  <2>2. shard' = [shard EXCEPT ![s] = [shard[s] EXCEPT !.pc = pc]] BY DEF Kin!Goto
  <2> QED BY <2>1, <2>2
<1>4. c \in ShardRecord BY <1>1, <1>2 DEF ShardRecord, Kin!Pcs
<1>5. Progress(s, shard[s], Cardinality(Mine(sent, s))) BY DEF KinInv
<1>6. Progress(s, c, Cardinality(Mine(sent, s)))
  BY <1>2, <1>5 DEF Progress
<1> QED BY <1>3, <1>4, <1>6, ShardGoes

LEMMA TurnKeeps ==
    ASSUME KinInv, NEW s \in Shards,
           \/ Kin!GetShardIterator(s) \/ Kin!TestStop(s) \/ Kin!Throttled(s)
           \/ Kin!GetRecordsFails(s)
    PROVE  KinInv'
<1>1. PICK pc \in {"test", "get", "exited", "panic"} :
        /\ Kin!Goto(s, pc) /\ shard[s].pc \in {"iterator", "test", "get"}
        /\ UNCHANGED <<rpc, stopped, inch, sent>>
  BY DEF Kin!GetShardIterator, Kin!TestStop, Kin!Throttled, Kin!GetRecordsFails, Kin!At
<1> QED BY <1>1, ShardTurns

LEMMA GetRecordsKeeps == ASSUME KinInv, NEW s \in Shards, Kin!GetRecords(s) PROVE KinInv'
<1>1. shard[s] \in ShardRecord /\ shard \in [Shards -> ShardRecord]
  BY DEF KinInv, Kin!TypeOK, ShardRecord
<1>2. Progress(s, shard[s], Cardinality(Mine(sent, s))) BY DEF KinInv
<1>3. PICK k, n : k = shard[s].page /\ n = shard[s].n
  OBVIOUS
<1>4. shard[s].pc = "get" /\ UNCHANGED <<rpc, stopped, inch, sent>>
  BY DEF Kin!GetRecords, Kin!At
<1>5. PICK pc : pc = IF Kin!OnPage(s, k) > 0 THEN "send"
                     ELSE IF Kin!NoIterator(s, k) THEN "exited" ELSE "next"
  OBVIOUS
<1>6. PICK c : c = [pc |-> pc, page |-> k, left |-> Kin!OnPage(s, k), n |-> n]
  OBVIOUS
<1>7. shard' = [shard EXCEPT ![s] = c]
  <2>1. shard' = [shard EXCEPT ![s].pc = pc, ![s].left = Kin!OnPage(s, k)]
    BY <1>3, <1>5 DEF Kin!GetRecords
  <2>2. shard[s] = [pc |-> "get", page |-> k, left |-> shard[s].left, n |-> n]
    BY <1>1, <1>3, <1>4 DEF ShardRecord
  <2>3. [[shard[s] EXCEPT !.pc = pc] EXCEPT !.left = Kin!OnPage(s, k)] = c
    <3>1. [shard[s] EXCEPT !.pc = pc] = [pc |-> pc, page |-> k, left |-> shard[s].left, n |-> n]
      BY <2>2
    <3>2. [[pc |-> pc, page |-> k, left |-> shard[s].left, n |-> n]
             EXCEPT !.left = Kin!OnPage(s, k)]
          = [pc |-> pc, page |-> k, left |-> Kin!OnPage(s, k), n |-> n]
      OBVIOUS
    <3> QED BY <3>1, <3>2, <1>6
  <2>4. shard' = [shard EXCEPT ![s] = [[shard[s] EXCEPT !.pc = pc] EXCEPT !.left = Kin!OnPage(s, k)]]
    BY <1>1, <2>1
  <2> QED BY <2>3, <2>4
<1>8. k \in Nat \ {0} /\ n \in Nat /\ k <= Len(Ends[s]) + 1 /\ n = Kin!Before(s, k)
      /\ n = Cardinality(Mine(sent, s))
  BY <1>1, <1>2, <1>3, <1>4 DEF ShardRecord, Progress
<1>9. /\ Kin!Before(s, k) \in Nat /\ Kin!OnPage(s, k) \in Nat
      /\ k <= Len(Ends[s]) => /\ Kin!OnPage(s, k) = Ends[s][k] - Kin!Before(s, k)
                              /\ Ends[s][k] \in Nat
      /\ k > Len(Ends[s]) => Kin!OnPage(s, k) = 0
  BY <1>8, PagesFollow
<1>10. Len(Ends[s]) \in Nat BY KinConstants
<1>11. pc \in {"send", "exited", "next"} /\ c \in ShardRecord
       /\ c.pc = pc /\ c.page = k /\ c.left = Kin!OnPage(s, k) /\ c.n = n
  BY <1>5, <1>6, <1>8, <1>9 DEF ShardRecord, Kin!Pcs
<1>12. pc = "send" => k <= Len(Ends[s]) /\ Kin!OnPage(s, k) > 0 /\ n + Kin!OnPage(s, k) = Ends[s][k]
  BY <1>5, <1>8, <1>9, <1>10
<1>13. pc = "next" => n = IF k <= Len(Ends[s]) THEN Ends[s][k] ELSE Kin!Before(s, k)
  BY <1>5, <1>8, <1>9, <1>10
<1>14. Progress(s, c, Cardinality(Mine(sent, s)))
  BY <1>8, <1>11, <1>12, <1>13 DEF Progress
<1>15. shard[s].pc \notin {"none", "exited"} BY <1>4
<1> QED BY <1>4, <1>7, <1>11, <1>14, <1>15, ShardGoes

LEMMA NextIteratorKeeps == ASSUME KinInv, NEW s \in Shards, Kin!NextIterator(s) PROVE KinInv'
<1>1. shard[s] \in ShardRecord /\ shard \in [Shards -> ShardRecord]
  BY DEF KinInv, Kin!TypeOK, ShardRecord
<1>2. Progress(s, shard[s], Cardinality(Mine(sent, s))) BY DEF KinInv
<1>3. PICK k, n : k = shard[s].page /\ n = shard[s].n
  OBVIOUS
<1>4. shard[s].pc = "next" /\ UNCHANGED <<rpc, stopped, inch, sent>>
  BY DEF Kin!NextIterator, Kin!At
<1>5. PICK j : j = IF k <= Len(Ends[s]) THEN k + 1 ELSE k
  OBVIOUS
<1>6. PICK c : c = [pc |-> "test", page |-> j, left |-> shard[s].left, n |-> n]
  OBVIOUS
<1>7. shard' = [shard EXCEPT ![s] = c]
  <2>1. shard' = [shard EXCEPT ![s].pc = "test", ![s].page = j]
    BY <1>3, <1>5 DEF Kin!NextIterator
  <2>2. shard[s] = [pc |-> "next", page |-> k, left |-> shard[s].left, n |-> n]
    BY <1>1, <1>3, <1>4 DEF ShardRecord
  <2>3. [[shard[s] EXCEPT !.pc = "test"] EXCEPT !.page = j] = c
    <3>1. [shard[s] EXCEPT !.pc = "test"]
          = [pc |-> "test", page |-> k, left |-> shard[s].left, n |-> n]
      BY <2>2
    <3>2. [[pc |-> "test", page |-> k, left |-> shard[s].left, n |-> n] EXCEPT !.page = j]
          = [pc |-> "test", page |-> j, left |-> shard[s].left, n |-> n]
      OBVIOUS
    <3> QED BY <3>1, <3>2, <1>6
  <2>4. shard' = [shard EXCEPT ![s] = [[shard[s] EXCEPT !.pc = "test"] EXCEPT !.page = j]]
    BY <1>1, <2>1
  <2> QED BY <2>3, <2>4
<1>8. k \in Nat \ {0} /\ n \in Nat /\ k <= Len(Ends[s]) + 1 /\ n = Cardinality(Mine(sent, s))
      /\ n = IF k <= Len(Ends[s]) THEN Ends[s][k] ELSE Kin!Before(s, k)
  BY <1>1, <1>2, <1>3, <1>4 DEF ShardRecord, Progress
<1>9. Len(Ends[s]) \in Nat /\ (k <= Len(Ends[s]) => Kin!Before(s, k + 1) = Ends[s][k])
  BY <1>8, PagesFollow, KinConstants
<1>10. j \in Nat \ {0} /\ j <= Len(Ends[s]) + 1 /\ n = Kin!Before(s, j)
  BY <1>5, <1>8, <1>9
<1>11. c \in ShardRecord /\ c.pc = "test" /\ c.page = j /\ c.n = n
  BY <1>1, <1>6, <1>8, <1>10 DEF ShardRecord, Kin!Pcs
<1>12. Progress(s, c, Cardinality(Mine(sent, s)))
  BY <1>8, <1>10, <1>11 DEF Progress
<1>13. shard[s].pc \notin {"none", "exited"} BY <1>4
<1> QED BY <1>4, <1>7, <1>11, <1>12, <1>13, ShardGoes

LEMMA KinSendKeeps == ASSUME KinInv, NEW s \in Shards, Kin!Send(s) PROVE KinInv'
<1>1. shard[s] \in ShardRecord /\ shard \in [Shards -> ShardRecord]
  BY DEF KinInv, Kin!TypeOK, ShardRecord
<1>2. Progress(s, shard[s], Cardinality(Mine(sent, s))) BY DEF KinInv
<1>3. PICK k, n, left : k = shard[s].page /\ n = shard[s].n /\ left = shard[s].left
  OBVIOUS
<1>4. /\ shard[s].pc = "send" /\ inch < InCap /\ inch' = inch + 1
      /\ sent' = Append(sent, <<s, n + 1>>) /\ UNCHANGED <<rpc, stopped>>
  BY <1>3 DEF Kin!Send, Kin!At
<1>5. PICK pc : pc = IF left = 1 THEN "next" ELSE "send"
  OBVIOUS
<1>6. PICK c : c = [pc |-> pc, page |-> k, left |-> left - 1, n |-> n + 1]
  OBVIOUS
<1>7. shard[s] = [pc |-> "send", page |-> k, left |-> left, n |-> n]
  BY <1>1, <1>3, <1>4 DEF ShardRecord
<1>8. k \in Nat \ {0} /\ n \in Nat /\ left \in Nat /\ left > 0 /\ k <= Len(Ends[s])
      /\ n + left = Ends[s][k] /\ n = Cardinality(Mine(sent, s))
  BY <1>1, <1>2, <1>3, <1>4 DEF ShardRecord, Progress
<1>9. shard' = [shard EXCEPT ![s] = c]
  <2>1. shard' = [shard EXCEPT ![s].n = @ + 1, ![s].left = @ - 1, ![s].pc = pc]
    BY <1>3, <1>5 DEF Kin!Send
  <2>2. shard' = [shard EXCEPT ![s] =
                   [[[shard[s] EXCEPT !.n = @ + 1] EXCEPT !.left = @ - 1] EXCEPT !.pc = pc]]
    BY <1>1, <2>1
  <2>3. [[[shard[s] EXCEPT !.n = @ + 1] EXCEPT !.left = @ - 1] EXCEPT !.pc = pc] = c
    <3>1. [shard[s] EXCEPT !.n = @ + 1] = [pc |-> "send", page |-> k, left |-> left, n |-> n + 1]
      BY <1>7
    <3>2. [[pc |-> "send", page |-> k, left |-> left, n |-> n + 1] EXCEPT !.left = @ - 1]
          = [pc |-> "send", page |-> k, left |-> left - 1, n |-> n + 1]
      OBVIOUS
    <3>3. [[pc |-> "send", page |-> k, left |-> left - 1, n |-> n + 1] EXCEPT !.pc = pc] = c
      BY <1>6
    <3> QED BY <3>1, <3>2, <3>3
  <2> QED BY <2>2, <2>3
<1>10. c \in ShardRecord /\ c.pc = pc /\ c.page = k /\ c.left = left - 1 /\ c.n = n + 1
  BY <1>5, <1>6, <1>8 DEF ShardRecord, Kin!Pcs
<1>11. /\ InOrder(sent') /\ Cardinality(Mine(sent', s)) = n + 1
       /\ \A r \in Shards : r # s => Mine(sent', r) = Mine(sent, r)
  <2>1. PICK t, j : t = sent /\ j = n + 1 OBVIOUS
  <2>2. t \in Seq(Shards \X Nat) /\ j \in Nat /\ j = Cardinality(Mine(t, s)) + 1 /\ InOrder(t)
    BY <1>8, <2>1 DEF KinInv, Kin!TypeOK
  <2>3. /\ InOrder(Append(t, <<s, j>>)) /\ Cardinality(Mine(Append(t, <<s, j>>), s)) = j
        /\ \A r : r # s => Mine(Append(t, <<s, j>>), r) = Mine(t, r)
    BY <2>2, NextInOrder
  <2> QED BY <1>4, <2>1, <2>3
<1>12. sent' \in Seq(Shards \X Nat) /\ inch' \in 0 .. InCap
  <2>1. <<s, n + 1>> \in Shards \X Nat BY <1>8
  <2>2. sent \in Seq(Shards \X Nat) /\ inch \in 0 .. InCap BY DEF KinInv, Kin!TypeOK
  <2>3. sent' \in Seq(Shards \X Nat) BY <1>4, <2>1, <2>2, AppendProperties
  <2> QED BY <1>4, <2>2, <2>3, KinConstants
<1>13. Len(Ends[s]) \in Nat BY KinConstants
<1>14. Progress(s, c, Cardinality(Mine(sent', s)))
  BY <1>5, <1>8, <1>10, <1>11, <1>13 DEF Progress
<1>15. shard[s].pc \notin {"none", "exited"} /\ UNCHANGED <<rpc, stopped>> BY <1>4
<1> QED BY <1>9, <1>10, <1>11, <1>12, <1>14, <1>15, OneShard

LEMMA StartShardsKeeps == ASSUME KinInv, Kin!StartShards PROVE KinInv'
<1>1. /\ rpc = "run" /\ rpc' = "wait" /\ UNCHANGED <<stopped, inch, sent>>
      /\ shard' = [s \in Shards |-> [shard[s] EXCEPT !.pc = "iterator"]]
  BY DEF Kin!StartShards
<1>2. shard \in [Shards -> ShardRecord] /\ Kin!TypeOK
  BY DEF KinInv, Kin!TypeOK, ShardRecord
<1>3. shard' \in [Shards -> ShardRecord]
  BY <1>1, <1>2 DEF ShardRecord, Kin!Pcs
<1>4. Kin!TypeOK'
  BY <1>1, <1>2, <1>3 DEF Kin!TypeOK, ShardRecord
<1>5. ASSUME NEW s \in Shards PROVE Progress(s, shard'[s], Cardinality(Mine(sent, s)))
  <2>1. shard[s].pc = "none" /\ Progress(s, shard[s], Cardinality(Mine(sent, s)))
    BY <1>1 DEF KinInv, KinPhases, Kin!At
  <2>2. /\ shard'[s].pc = "iterator" /\ shard'[s].page = shard[s].page
        /\ shard'[s].n = shard[s].n
    BY <1>1, <1>2 DEF ShardRecord
  <2> QED BY <2>1, <2>2 DEF Progress
<1>6. KinPhases'
  BY <1>1 DEF KinPhases
<1> QED BY <1>1, <1>4, <1>5, <1>6 DEF KinInv

LEMMA KinRunKeeps ==
    ASSUME KinInv, Kin!RunReturn \/ Kin!Stop \/ Kin!Drain
    PROVE  KinInv'
<1>1. Kin!TypeOK /\ KinPhases BY DEF KinInv
<1>2. shard' = shard /\ sent' = sent
  BY DEF Kin!RunReturn, Kin!Stop, Kin!Drain
<1>3. stopped' \in {stopped, TRUE} /\ (inch' = inch \/ (inch > 0 /\ inch' = inch - 1))
  BY DEF Kin!RunReturn, Kin!Stop, Kin!Drain
<1>4. \/ rpc' = rpc
      \/ rpc' = "returned" /\ \A s \in Shards : Kin!At(s, "exited")
  BY DEF Kin!RunReturn, Kin!Stop, Kin!Drain
<1>5. inch' \in 0 .. InCap
  BY <1>1, <1>3, KinConstants DEF Kin!TypeOK
<1>6. Kin!TypeOK'
  BY <1>1, <1>2, <1>3, <1>4, <1>5 DEF Kin!TypeOK
<1>7. KinPhases'
  BY <1>1, <1>2, <1>4 DEF KinPhases, Kin!At
<1> QED BY <1>2, <1>6, <1>7 DEF KinInv

LEMMA KinKeeps == ASSUME KinInv, Kin!Next PROVE KinInv'
<1>1. CASE \E s \in Shards : Kin!ShardStep(s)
  <2>1. PICK s \in Shards : Kin!ShardStep(s) BY <1>1
  <2>2. CASE \/ Kin!GetShardIterator(s) \/ Kin!TestStop(s) \/ Kin!Throttled(s)
             \/ Kin!GetRecordsFails(s)
    BY <2>2, TurnKeeps
  <2>3. CASE Kin!GetRecords(s) BY <2>3, GetRecordsKeeps
  <2>4. CASE Kin!Send(s) BY <2>4, KinSendKeeps
  <2>5. CASE Kin!NextIterator(s) BY <2>5, NextIteratorKeeps
  <2> QED BY <2>1, <2>2, <2>3, <2>4, <2>5 DEF Kin!ShardStep
<1>2. CASE Kin!StartShards BY <1>2, StartShardsKeeps
<1>3. CASE Kin!RunReturn \/ Kin!Stop \/ Kin!Drain BY <1>3, KinRunKeeps
<1> QED BY <1>1, <1>2, <1>3 DEF Kin!Next, Kin!RunStep

LEMMA KinStands == ASSUME KinInv, UNCHANGED <<common, shard>> PROVE KinInv'
<1>1. UNCHANGED <<rpc, stopped, inch, sent, shard>>
  BY DEF common
<1>2. KinPhases' BY <1>1 DEF KinInv, KinPhases, Kin!At
<1>3. Kin!TypeOK' BY <1>1 DEF KinInv, Kin!TypeOK
<1> QED BY <1>1, <1>2, <1>3 DEF KinInv

\* The records of a shard are sent in order up to the place of its
\* goroutine's iterator.
THEOREM KinesisInvariance == Spec => [](source = "kinesis" => KinInv)
<1>1. Init => (source = "kinesis" => KinInv) BY KinBegins
<1>2. (source = "kinesis" => KinInv) /\ [Next]_vars => (source = "kinesis" => KinInv)'
  <2> SUFFICES ASSUME source = "kinesis" => KinInv, [Next]_vars, source' = "kinesis"
               PROVE  KinInv'
    OBVIOUS
  <2>1. CASE Only("kinesis") /\ Kin!Next BY <2>1, KinKeeps DEF Only
  <2>2. CASE UNCHANGED vars BY <2>2, KinStands DEF vars
  <2> QED BY <2>1, <2>2 DEF Next, Only, Terminated
<1> QED BY <1>1, <1>2, PTL DEF Spec

(***************************************************************************)
(* The KCL input, whose invariants are those of KCLProofs.                 *)
(***************************************************************************)
KclP == INSTANCE KCLProofs WITH Shards <- KclShards, Closed <- KclClosed

KclInv == KclP!IInv /\ KclP!Runs

LEMMA KclConstants == KclP!KCLInputAssumption
BY SourcesAssumption DEF SourcesAssumption, Kcl!KCLInputAssumption, KclP!KCLInputAssumption

LEMMA KclBegins == Init => KclInv
<1>1. Init => KclP!Init
  BY DEF Init, Kcl!Init, KclP!Init, Kcl!NoConsumer, KclP!NoConsumer
<1> QED BY <1>1, KclConstants, KclP!InitInvariant, KclP!InitRuns DEF KclInv

(* A step of the instance of KCLInput is one of the instance of its proofs. *)
LEMMA KclSame == [Kcl!Next]_(Kcl!vars) => [KclP!Next]_(KclP!vars)
<1> USE DEF Kcl!Rpc, KclP!Rpc, Kcl!At, KclP!At, Kcl!Become, KclP!Become, Kcl!NoConsumer,
            KclP!NoConsumer, Kcl!ShardEnd, KclP!ShardEnd
<1>1. \A i \in Processes : Kcl!RunStep(i) = KclP!RunStep(i)
  BY DEF Kcl!RunStep, KclP!RunStep, Kcl!StartWorker, KclP!StartWorker, Kcl!SeeDone,
         KclP!SeeDone, Kcl!RunReturn, KclP!RunReturn
<1>2. \A i \in Processes : /\ Kcl!Stop(i) = KclP!Stop(i)
                           /\ Kcl!ShardsChanged(i) = KclP!ShardsChanged(i)
                           /\ Kcl!Crash(i) = KclP!Crash(i) /\ Kcl!Drain(i) = KclP!Drain(i)
  BY DEF Kcl!Stop, KclP!Stop, Kcl!ShardsChanged, KclP!ShardsChanged, Kcl!Crash, KclP!Crash,
         Kcl!Drain, KclP!Drain
<1>3. \A i \in Processes, s \in KclShards : Kcl!ConsumerStep(i, s) = KclP!ConsumerStep(i, s)
  BY DEF Kcl!ConsumerStep, KclP!ConsumerStep, Kcl!Push, KclP!Push, Kcl!Checkpoint,
         KclP!Checkpoint, Kcl!Terminate, KclP!Terminate, Kcl!Shutdown, KclP!Shutdown
<1>4. \A i \in Processes, s \in KclShards : /\ Kcl!Initialize(i, s) = KclP!Initialize(i, s)
                                            /\ Kcl!ProcessRecords(i, s) = KclP!ProcessRecords(i, s)
  BY DEF Kcl!Initialize, KclP!Initialize, Kcl!ProcessRecords, KclP!ProcessRecords
<1>5. \A s \in KclShards : Kcl!LeaseExpires(s) = KclP!LeaseExpires(s)
  BY DEF Kcl!LeaseExpires, KclP!LeaseExpires
<1>6. Kcl!Next => KclP!Next
  BY <1>1, <1>2, <1>3, <1>4, <1>5 DEF Kcl!Next, KclP!Next
<1> QED BY <1>6 DEF Kcl!vars, KclP!vars

LEMMA KclKeeps == ASSUME KclInv, [Kcl!Next]_(Kcl!vars) PROVE KclInv'
<1>1. [KclP!Next]_(KclP!vars) BY KclSame
<1> QED BY <1>1, KclConstants, KclP!StepInvariant, KclP!StepRuns DEF KclInv

LEMMA KclPromises == ASSUME KclInv PROVE Kcl!TypeOK /\ Kcl!NeverSkips /\ Kcl!NoneLeftBehind
<1>1. KclP!TypeOK /\ KclP!NoneLeftBehind
  BY KclConstants, KclP!RunsTyped DEF KclInv
<1>2. Kcl!NeverSkips
  BY DEF KclInv, KclP!IInv, KclP!Pushed, Kcl!NeverSkips
<1>3. Kcl!TypeOK
  BY <1>1 DEF Kcl!TypeOK, KclP!TypeOK, Kcl!ShardEnd, KclP!ShardEnd
<1>4. Kcl!NoneLeftBehind
  BY <1>1 DEF Kcl!NoneLeftBehind, KclP!NoneLeftBehind, Kcl!At, KclP!At
<1> QED BY <1>2, <1>3, <1>4

\* What holds of the processes alone (KCLProofs) holds of the input chosen.
THEOREM KclInvariance == Spec => [](source = "kcl" => KclInv)
<1>1. Init => (source = "kcl" => KclInv) BY KclBegins
<1>2. (source = "kcl" => KclInv) /\ [Next]_vars => (source = "kcl" => KclInv)'
  <2> SUFFICES ASSUME source = "kcl" => KclInv, [Next]_vars, source' = "kcl" PROVE KclInv'
    OBVIOUS
  <2>1. CASE Only("kcl") /\ Kcl!Next BY <2>1, KclKeeps DEF Only
  <2>2. CASE UNCHANGED vars
    <3>1. UNCHANGED (Kcl!vars) BY <2>2 DEF vars, kclvars, Kcl!vars
    <3>2. source = "kcl" BY <2>2 DEF vars
    <3> QED BY <3>1, <3>2, KclKeeps
  <2> QED BY <2>1, <2>2 DEF Next, Only, Terminated
<1> QED BY <1>1, <1>2, PTL DEF Spec

(***************************************************************************)
(* What the inputs promise.                                                *)
(***************************************************************************)
Inv ==
    /\ source = "sqs" => SqsInv
    /\ source = "tcp" => TcpInv
    /\ source = "kinesis" => KinInv
    /\ source = "kcl" => KclInv

(* In each input every process, connection and shard is where its record   *)
(* of the stream says it is.                                               *)
THEOREM Invariance == Spec => []Inv
<1>1. (source = "sqs" => SqsInv) /\ (source = "tcp" => TcpInv) /\ (source = "kinesis" => KinInv)
      /\ (source = "kcl" => KclInv) => Inv
  BY DEF Inv
<1> QED BY <1>1, SqsInvariance, TcpInvariance, KinesisInvariance, KclInvariance, PTL

\* Every variable of the chosen input stays in its range: among them inch
\* within its capacity and iterators within their shard.
THEOREM TypeCorrect == Spec => []TypeOK
<1>1. Inv => TypeOK
  BY KclPromises DEF Inv, TypeOK, SqsInv, TcpInv, KinInv
<1> QED BY <1>1, Invariance, PTL

(* Nothing is taken from a source without having been sent: pollQueue      *)
(* deletes a message behind ParseFile, handleStream and ProcessRecords     *)
(* send in order, and KCL checkpoints behind its pushes.                   *)
THEOREM AllSent == Spec => []NothingSkipped
<1>1. SqsInv => Sqs!DeletedAfterSent
  BY DEF SqsInv, Whole, Sent, Sqs!DeletedAfterSent
<1>2. TcpInv => Tcp!StreamInOrder
  BY DEF TcpInv, InOrder, SoFar, Tcp!StreamInOrder, Cardinality, Tcp!Cardinality
<1>3. KinInv => Kin!NoGap
  <2> SUFFICES ASSUME KinInv PROVE Kin!NoGap
    OBVIOUS
  <2>1. \A i \in DOMAIN sent : sent[i][2] = Kin!Cardinality({j \in 1 .. i : sent[j][1] = sent[i][1]})
    BY DEF KinInv, InOrder, SoFar, Cardinality, Kin!Cardinality
  <2>2. \A s \in Shards : Kin!At(s, "test") \/ Kin!At(s, "get")
                          => shard[s].n = Kin!Before(s, shard[s].page)
    BY DEF KinInv, Progress, Kin!At
  <2> QED BY <2>1, <2>2 DEF Kin!NoGap
<1>4. Inv => NothingSkipped
  BY <1>1, <1>2, <1>3, KclPromises DEF Inv, NothingSkipped
<1> QED BY <1>4, Invariance, PTL

(* Run returns behind its goroutines, so that none sends on the channel    *)
(* that Wait closes then; and Run of the SQS input lets the pollers end    *)
(* the files they read.                                                    *)
THEOREM EndsLast == Spec => []NoneLeftBehind
<1>1. SqsInv => Sqs!CleanStop
  <2> SUFFICES ASSUME SqsInv PROVE Sqs!CleanStop
    OBVIOUS
  <2>1. rpc = "returned" => \A q \in Queues : Sqs!At(q, "exited") \/ Sqs!At(q, "idle")
    BY DEF SqsInv, Downfall
  <2>2. \A q \in Queues : Knows(poller[q], sent)
    BY DEF SqsInv
  <2> QED BY <2>1, <2>2 DEF Sqs!CleanStop, Sqs!At, Sqs!Msg, Knows
<1>2. TcpInv => Tcp!NoneLeftBehind
  BY DEF TcpInv, TcpPhases, Tcp!NoneLeftBehind
<1>3. KinInv => Kin!NoneLeftBehind
  BY DEF KinInv, KinPhases, Kin!NoneLeftBehind
<1>4. Inv => NoneLeftBehind
  BY <1>1, <1>2, <1>3, KclPromises DEF Inv, NoneLeftBehind
<1> QED BY <1>4, Invariance, PTL
=============================================================================
