------------------------------ MODULE LogLine ------------------------------
(***************************************************************************)
(* LogLine, the CSV record (logline.go).  A parsed line is kept as it came *)
(* from the input, with the positions of its separators; fields that are   *)
(* written go to a side table of Slots - 1 entries, counted by an unsigned *)
(* integer that wraps at Slots (256 in the code).                          *)
(*                                                                         *)
(* Get returns a slice of the input's memory and not a copy of it, so a    *)
(* value is either bytes of its own or a range [lo, hi) of mem, the line   *)
(* and the byte that follows it in the input's buffer.  A range that is    *)
(* full has no capacity left behind it.                                    *)
(***************************************************************************)
EXTENDS Integers, Sequences, FiniteSets
LOCAL INSTANCE SequencesExt
LOCAL INSTANCE FiniteSetsExt

CONSTANTS NumFields,  \* LogLineNumFields
          NumCustom,  \* NumFieldsBaker
          Slots,      \* the values of wcnt, a uint8
          Sep, NL     \* the field separator, the end of a line

LogLineAssumption ==
    /\ NumFields \in Nat \ {0} /\ NumCustom \in Nat /\ Slots \in Nat /\ Slots > 1
    /\ Sep # NL

Fields == 0 .. NumFields + NumCustom - 1
Standard == 0 .. NumFields - 1

Nil == [own |-> <<>>, lo |-> -1, hi |-> -1, full |-> FALSE]
Own(bytes) == [own |-> bytes, lo |-> -1, hi |-> 0, full |-> FALSE]
Ref(lo, hi) == [own |-> <<>>, lo |-> lo, hi |-> hi, full |-> FALSE]
Capped(s) == [s EXCEPT !.full = TRUE]
IsRef(s) == s.lo >= 0

Blank == [mem   |-> <<>>,
          len   |-> -1,      \* length of data, -1 when it is nil
          idx   |-> [i \in 0 .. NumFields |-> 0],
          wmask |-> [f \in Fields |-> 0],
          wdata |-> [i \in 0 .. Slots - 1 |-> Nil],
          wcnt  |-> 0,
          dead  |-> FALSE]   \* Set, or a filter, has panicked

Bytes(l, s) == IF IsRef(s) THEN SubSeq(l.mem, s.lo + 1, s.hi) ELSE s.own

(* Fault: what was parsed is looked at before what was written.             *)
GetParsed(l, f) ==
    IF f < NumFields /\ l.idx[f + 1] - (l.idx[f] + 1) >= 1 THEN Ref(l.idx[f] + 1, l.idx[f + 1])
    ELSE IF l.wmask[f] # 0 THEN l.wdata[l.wmask[f]] ELSE Nil

Get(l, f) ==
    IF l.wmask[f] # 0 THEN l.wdata[l.wmask[f]]
    ELSE IF f >= NumFields \/ l.idx[f + 1] - (l.idx[f] + 1) < 1 THEN Nil
    ELSE Ref(l.idx[f] + 1, l.idx[f + 1])

Value(l, f) == Bytes(l, Get(l, f))

(* wcnt has wrapped: too many fields changed.                              *)
Set(l, f, s) ==
    LET w == (l.wcnt + 1) % Slots
    IN  IF l.wmask[f] # 0 THEN [l EXCEPT !.wdata[l.wmask[f]] = s]
        ELSE IF w = 0 \/ l.dead THEN [l EXCEPT !.wcnt = 0, !.dead = TRUE]
        ELSE [l EXCEPT !.wcnt = w, !.wmask[f] = w, !.wdata[w] = s]

(* 0-based positions of the separators of text, in order.                  *)
Separators(text) ==
    LET S == {i \in 0 .. Len(text) - 1 : text[i + 1] = Sep}
    IN  SetToSortSeq(S, LAMBDA i, j : i < j)

ParseFails(text) ==
    LET P == Separators(text)
    IN  Len(P) >= NumFields /\ P[NumFields] # Len(text) - 1

(* A separator after the last field is accepted and trimmed.  An error     *)
(* leaves the positions found so far and no text.                          *)
Parse(l, text) ==
    LET P == Separators(text)
        n == Min({Len(P), NumFields - 1})
        len == IF Len(P) >= NumFields THEN P[NumFields] ELSE Len(text)
        found == [i \in 0 .. NumFields |->
                     IF i = 0 THEN -1 ELSE IF i <= n THEN P[i] ELSE l.idx[i]]
    IN  IF ParseFails(text) THEN [l EXCEPT !.idx = found]
        ELSE [l EXCEPT !.mem = text \o <<NL>>, !.len = len, !.idx = [found EXCEPT ![n + 1] = len]]

(* With Slots - 1 fields written the loop that sums their lengths counts   *)
(* up to wcnt in a uint8: its condition i <= wcnt never becomes false.     *)
ToTextLoops(l) == l.wcnt = Slots - 1

(* Fault: only the fields written are looked at.                            *)
LastFieldWritten(l) == Max({0} \cup {f \in Standard \ {0} : l.wmask[f] # 0})

LastField(l) ==
    LET written == {f \in Standard \ {0} : l.wmask[f] # 0}
        parsed == {i - 1 : i \in {j \in 1 .. NumFields : l.len >= 0 /\ l.idx[j] # 0}}
    IN  Max({0} \cup written \cup parsed)

ToText(l) ==
    IF l.wcnt = 0 THEN SubSeq(l.mem, 1, l.len)
    ELSE FlattenSeq([i \in 1 .. LastField(l) + 1 |->
             IF i = 1 THEN Value(l, 0) ELSE <<Sep>> \o Value(l, i - 1)])

(* A modified record is written out and parsed again; its custom fields are *)
(* copied one by one.  A separator within a value so shifts the fields that *)
(* follow, and with too many of them Parse fails: its error is not looked   *)
(* at, and the copy has positions of fields but no text.                    *)
Copy(l) ==
    IF l.wcnt = 0
    THEN IF l.len < 0 THEN Blank ELSE [Blank EXCEPT !.mem = ToText(l), !.len = l.len, !.idx = l.idx]
    ELSE FoldLeft(LAMBDA c, f : IF Get(l, f) = Nil THEN c ELSE Set(c, f, Own(Value(l, f))),
                  Parse(Blank, ToText(l)), [i \in 1 .. NumCustom |-> NumFields + i - 1])
=============================================================================
