---------------------------- MODULE FilterChain ----------------------------
(***************************************************************************)
(* One record on its way through the filter chain: it is parsed            *)
(* (Topology.runFilterChain), goes through up to MaxFilters filters of     *)
(* filter/, of which each works on the memory of the LogLine, and is       *)
(* written out (Topology.filterChainEnd).  A "copy" is a user's filter     *)
(* that passes on a Copy of its record.                                    *)
(*                                                                         *)
(* want is what the record means: the bytes of every field, changed by     *)
(* every filter as its documentation says, without a memory to share.      *)
(***************************************************************************)
EXTENDS LogLine
LOCAL INSTANCE SequencesExt
LOCAL INSTANCE FiniteSetsExt

CONSTANTS Texts,       \* lines of the input
          Filters,     \* configured filters
          MaxFilters   \* bound: length of the chain

VARIABLES text,   \* the line read
          line,   \* the LogLine
          want,   \* field -> the bytes it should hold
          chain,  \* the filters the record has met
          due,    \* should the last of them have kept it?
          torn,   \* was it copied with a separator within a field?
          fate    \* parse, run, and malformed, dropped, sent, panic, loops, unreadable

chainvars == <<text, line, want, chain, due, torn, fate>>

(* ------------------------------------------------------------------------ *)
(* What the filters do to a LogLine.                                        *)

(* append(v, bytes...): a slice of the line has capacity left, unless it is *)
(* full, so the byte is written over the one that follows the field.        *)
AppendTo(l, s, bytes) ==
    IF IsRef(s) /\ ~s.full /\ bytes # <<>> /\ s.hi < Len(l.mem)
    THEN [line |-> [l EXCEPT !.mem[s.hi + 1] = bytes[1]], slice |-> Ref(s.lo, s.hi + 1)]
    ELSE [line |-> l, slice |-> Own(Bytes(l, s) \o bytes)]

Concatenate(fl, l) ==
    LET n == Len(fl.fields)
        Step(acc, i) ==
            LET a == AppendTo(acc.line, Get(acc.line, fl.fields[i]), IF i < n THEN fl.sep ELSE <<>>)
            IN  [line |-> a.line, key |-> acc.key \o Bytes(a.line, a.slice)]
        all == FoldLeft(Step, [line |-> l, key |-> <<>>], [i \in 1 .. n |-> i])
    IN  Set(all.line, fl.dst, Own(all.key))

(* append to a nil slice: an empty result is nil.  A negative index, which  *)
(* the constructor accepts, is out of range for every value.                *)
Slice(fl, l) ==
    LET v == Value(l, fl.src)
        end == IF fl.end > Len(v) \/ fl.end = 0 THEN Len(v) ELSE fl.end
        start == Min({fl.start, Len(v)})
        cut == SubSeq(v, start + 1, end)
    IN  IF fl.start < 0 \/ fl.end < 0 THEN [l EXCEPT !.dead = TRUE]
        ELSE Set(l, fl.dst, IF cut = <<>> THEN Nil ELSE Own(cut))

(* bytes.Split: the parts are slices of the list, full but for the last one, *)
(* which has the capacity of the list.                                      *)
Split(l, s, sep) ==
    LET b == Bytes(l, s)
        cuts == SetToSortSeq({i \in 1 .. Len(b) : b[i] = sep}, <)
        lo(i) == IF i = 1 THEN 0 ELSE cuts[i - 1]
        hi(i) == IF i > Len(cuts) THEN Len(b) ELSE cuts[i] - 1
        part(i) == [Ref(s.lo + lo(i), s.lo + hi(i)) EXCEPT !.full = s.full]
    IN  [i \in 1 .. Len(cuts) + 1 |->
            IF ~IsRef(s) THEN Own(SubSeq(b, lo(i) + 1, hi(i)))
            ELSE IF i <= Len(cuts) THEN Capped(part(i)) ELSE part(i)]

(* The indexes are keys of a TOML table: sorted as strings, at most two     *)
(* digits long here.                                                        *)
Digits(n) == IF n < 10 THEN <<n, -1>> ELSE <<n \div 10, n % 10>>
StringLess(i, j) ==
    LET a == Digits(i)
        b == Digits(j)
    IN  a[1] < b[1] \/ (a[1] = b[1] /\ a[2] < b[2])

ExpandList(fl, l) ==
    LET list == Get(l, fl.src)
        part == Split(l, list, fl.sep)
        idxs == SetToSortSeq(DOMAIN fl.at, StringLess)
        outside == {i \in DOMAIN idxs : idxs[i] >= Len(part)}
        used == IF outside = {} THEN idxs ELSE SubSeq(idxs, 1, Min(outside) - 1)
    IN  IF Bytes(l, list) = <<>> THEN l
        ELSE FoldLeft(LAMBDA r, i : Set(r, fl.at[i], part[i + 1]), l, used)

ReplaceFields(fl, l) ==
    LET copied == FoldLeft(LAMBDA r, p : Set(r, p[2], Get(r, p[1])), l, fl.copies)
    IN  FoldLeft(LAMBDA r, p : Set(r, p[2], Own(p[1])), copied, fl.fixed)

ClearFields(fl, l) == FoldLeft(LAMBDA r, f : Set(r, f, Nil), l, SetToSortSeq(fl.fields, <))

(* A new record whose fields are slices of the old one's line.              *)
PartialClone(fl, l) ==
    FoldLeft(LAMBDA r, f : Set(r, f, Get(l, f)), [Blank EXCEPT !.mem = l.mem],
             SetToSortSeq(fl.fields, <))

(* URLParam, URLEscape, Hash, Crypt: a function of the source field, in     *)
(* memory of its own; fl.rest is its value outside of the values listed.    *)
Image(fl, bytes) == IF bytes \in DOMAIN fl.of THEN fl.of[bytes] ELSE fl.rest
Transform(fl, l) == Set(l, fl.dst, Own(Image(fl, Value(l, fl.src))))

(* A time that cannot be parsed becomes nil.                                *)
FormatTime(fl, l) ==
    IF Value(l, fl.src) \in DOMAIN fl.of THEN Transform(fl, l) ELSE Set(l, fl.dst, Nil)

Process(fl, l) ==
    CASE fl.kind = "concatenate"   -> Concatenate(fl, l)
      [] fl.kind = "slice"         -> Slice(fl, l)
      [] fl.kind = "expand_list"   -> ExpandList(fl, l)
      [] fl.kind = "replace"       -> ReplaceFields(fl, l)
      [] fl.kind = "clear"         -> ClearFields(fl, l)
      [] fl.kind = "partial_clone" -> PartialClone(fl, l)
      [] fl.kind \in {"url_param", "crypt"} -> Transform(fl, l)
      [] fl.kind = "format_time"   -> FormatTime(fl, l)
      [] fl.kind = "copy"          -> Copy(l)
      [] OTHER                     -> l

(* Filters that discard records.                                            *)
NotNull(fl, l) == \A f \in fl.fields : Get(l, f) # Nil

StringMatch(fl, l) == (Value(l, fl.src) \in fl.strings) = fl.invert

RegexMatch(fl, l) ==
    IF fl.invert THEN ~ \E f \in DOMAIN fl.match : Value(l, f) \in fl.match[f]
    ELSE \A f \in DOMAIN fl.match : Value(l, f) \in fl.match[f]

(* Fault: the end of the range is part of it.                               *)
TimestampRangeClosed(fl, l) ==
    LET v == Value(l, fl.src)
    IN  v \in DOMAIN fl.time /\ fl.time[v] >= fl.start /\ fl.time[v] <= fl.end

TimestampRange(fl, l) ==
    LET v == Value(l, fl.src)
    IN  v \in DOMAIN fl.time /\ fl.time[v] >= fl.start /\ fl.time[v] < fl.end

(* Hash and Crypt: what cannot be hashed, encoded or decrypted.             *)
Encodable(fl, l) == Value(l, fl.src) \in DOMAIN fl.of

Keeps(fl, l) ==
    CASE fl.kind = "not_null"     -> NotNull(fl, l)
      [] fl.kind = "string_match" -> StringMatch(fl, l)
      [] fl.kind = "regex_match"  -> RegexMatch(fl, l)
      [] fl.kind = "time_range"   -> TimestampRange(fl, l)
      [] fl.kind = "crypt"        -> Encodable(fl, l)
      [] OTHER                    -> TRUE

(* What the constructors refuse.                                            *)
AcceptedSlice(fl) == ~(fl.end <= fl.start /\ fl.end > 0)

AcceptedReplace(fl) ==
    LET dsts == [i \in 1 .. Len(fl.copies) + Len(fl.fixed) |-> (fl.copies \o fl.fixed)[i][2]]
    IN  /\ Len(dsts) > 0 /\ IsInjective(dsts)
        /\ \A i \in DOMAIN fl.copies : fl.copies[i][1] # fl.copies[i][2]

Accepted(fl) ==
    CASE fl.kind = "slice"   -> AcceptedSlice(fl)
      [] fl.kind = "replace" -> AcceptedReplace(fl)
      [] OTHER               -> TRUE

(* ------------------------------------------------------------------------ *)
(* What the record means.                                                   *)

Pick(bytes, S) == LET at == SetToSortSeq(S, <) IN [i \in 1 .. Len(at) |-> bytes[at[i]]]

(* The i-th part, from 0, of bytes cut at every sep.                        *)
Part(bytes, sep, i) ==
    Pick(bytes, {j \in DOMAIN bytes : /\ bytes[j] # sep
        /\ Cardinality({k \in 1 .. j : bytes[k] = sep}) = i})

Parts(bytes, sep) ==
    IF bytes = <<>> THEN 0 ELSE 1 + Cardinality({k \in DOMAIN bytes : bytes[k] = sep})

Meaning(bytes) ==
    [f \in Fields |-> IF f \in Standard THEN Part(bytes, Sep, f) ELSE <<>>]

Joined(v, fields, sep) ==
    FlattenSeq([i \in 1 .. Len(fields) |-> IF i = 1 THEN v[fields[1]] ELSE sep \o v[fields[i]]])

Effect(fl, v) ==
    CASE fl.kind = "concatenate"   -> [v EXCEPT ![fl.dst] = Joined(v, fl.fields, fl.sep)]
      [] fl.kind = "slice"         -> [v EXCEPT ![fl.dst] = Pick(v[fl.src],
                                          {j \in DOMAIN v[fl.src] : fl.start < j /\ (fl.end = 0 \/ j <= fl.end)})]
      [] fl.kind = "expand_list"   -> [f \in Fields |->
                                          LET is == {i \in DOMAIN fl.at : fl.at[i] = f /\ i < Parts(v[fl.src], fl.sep)}
                                          IN  IF is = {} THEN v[f] ELSE Part(v[fl.src], fl.sep, CHOOSE i \in is : TRUE)]
      [] fl.kind = "replace"       -> [f \in Fields |->
                                          IF \E i \in DOMAIN fl.fixed : fl.fixed[i][2] = f
                                          THEN (CHOOSE p \in Range(fl.fixed) : p[2] = f)[1]
                                          ELSE IF \E i \in DOMAIN fl.copies : fl.copies[i][2] = f
                                          THEN v[(CHOOSE p \in Range(fl.copies) : p[2] = f)[1]]
                                          ELSE v[f]]
      [] fl.kind = "clear"         -> [f \in Fields |-> IF f \in fl.fields THEN <<>> ELSE v[f]]
      [] fl.kind = "partial_clone" -> [f \in Fields |-> IF f \in fl.fields THEN v[f] ELSE <<>>]
      [] fl.kind \in {"url_param", "crypt", "format_time"} ->
             [v EXCEPT ![fl.dst] = Image(fl, v[fl.src])]
      [] OTHER                     -> v

ShouldKeep(fl, v) ==
    CASE fl.kind = "not_null"     -> \A f \in fl.fields : v[f] # <<>>
      [] fl.kind = "string_match" -> IF fl.invert THEN v[fl.src] \in fl.strings ELSE v[fl.src] \notin fl.strings
      [] fl.kind = "regex_match"  -> \A f \in DOMAIN fl.match : (v[f] \in fl.match[f]) # fl.invert
      [] fl.kind = "time_range"   -> v[fl.src] \in {b \in DOMAIN fl.time : fl.time[b] \in fl.start .. fl.end - 1}
      [] fl.kind = "crypt"        -> v[fl.src] \in DOMAIN fl.of
      [] OTHER                    -> TRUE

(* ------------------------------------------------------------------------ *)

ChainInit ==
    /\ text \in Texts /\ line = Blank /\ chain = <<>> /\ due = TRUE /\ fate = "parse"
    /\ torn = FALSE
    /\ want = [f \in Fields |-> <<>>]

(* A line that is empty or has too many fields is counted as malformed.     *)
ParseLine ==
    /\ fate = "parse"
    /\ IF text = <<>> \/ ParseFails(text)
       THEN fate' = "malformed" /\ UNCHANGED <<line, want>>
       ELSE /\ fate' = "run"
            /\ line' = Parse(line, text)
            /\ want' = Meaning(text)
    /\ UNCHANGED <<text, chain, due, torn>>

(* A copy that is made by writing out a record one of whose fields, by a    *)
(* filter, holds the separator.                                             *)
Tears(fl) ==
    /\ fl.kind = "copy" /\ line.wcnt # 0
    /\ \E f \in Standard : Sep \in Range(Value(line, f))

(* A copy whose Parse has failed is not followed: reading one of its fields *)
(* panics, and it is sent as an empty line.                                 *)
Unreadable(fl) == Tears(fl) /\ ParseFails(ToText(line))

Filter(fl) ==
    /\ fate = "run" /\ Len(chain) < MaxFilters
    /\ line' = (IF Keeps(fl, line) THEN Process(fl, line) ELSE line)
    /\ fate' = (CASE fl.kind = "copy" /\ ToTextLoops(line) -> "loops"
                  [] Unreadable(fl)                       -> "unreadable"
                  [] ~Keeps(fl, line)                     -> "dropped"
                  [] line'.dead                           -> "panic"
                  [] OTHER                                -> "run")
    /\ want' = Effect(fl, want)
    /\ due' = ShouldKeep(fl, want)
    /\ torn' = (torn \/ Tears(fl))
    /\ chain' = Append(chain, fl)
    /\ UNCHANGED text

(* The record is written out for the output and leaves the chain.           *)
Send ==
    /\ fate = "run"
    /\ fate' = (IF ToTextLoops(line) THEN "loops" ELSE "sent")
    /\ UNCHANGED <<text, line, want, chain, due, torn>>

ChainNext == ParseLine \/ (\E fl \in Filters : Accepted(fl) /\ Filter(fl)) \/ Send

ChainSpec == ChainInit /\ [][ChainNext]_chainvars

(* ------------------------------------------------------------------------ *)

ChainTypeOK ==
    /\ text \in Texts /\ chain \in Seq(Filters) /\ due \in BOOLEAN /\ torn \in BOOLEAN
    /\ DOMAIN want = Fields
    /\ line.wcnt \in 0 .. Slots - 1 /\ line.len \in -1 .. Len(line.mem)
    /\ fate \in {"parse", "run", "malformed", "dropped", "sent", "panic", "loops",
                 "unreadable"}

(* A record in memory means what its text and the filters say: every field, *)
(* also the ones no filter names, although fields, lists and clones share   *)
(* the memory of the line and Concatenate writes into it, and although a    *)
(* copy is made by writing the record out and parsing it again.  Known      *)
(* exception: a copy of a record in which a filter has written the          *)
(* separator into a standard field (logline.go:251).                        *)
FieldsKeepTheirValues ==
    fate \in {"run", "sent"} /\ ~torn => \A f \in Fields : Value(line, f) = want[f]

(* A record is discarded exactly when the filter's documentation says so;   *)
(* NotNull only looks for fields that are nil, and lets a record pass whose *)
(* field an earlier filter has set to an empty value.  A record that was    *)
(* torn by a copy is judged by the fields it has got.                       *)
KeptAsDocumented ==
    ~torn =>
        /\ fate = "dropped" => ~due
        /\ ~due => fate = "dropped" \/ Last(chain).kind = "not_null"

(* Does a value hold what ends a field or a line?  Input values do not, but *)
(* a filter can write one, and ToText does not quote it.                    *)
Unquoted(bytes) == Sep \in Range(bytes) \/ NL \in Range(bytes)

(* What is written out is the standard fields in their order, up to the     *)
(* last one that holds something.  When none holds a separator or the end   *)
(* of a line it is one line that parses again to the same fields, and is    *)
(* then written out unchanged.                                              *)
TextRoundTrip ==
    fate = "sent" /\ ~torn =>
        LET again == Parse(Blank, ToText(line))
        IN  /\ \E k \in Standard :
                  /\ ToText(line) = Joined(want, [i \in 1 .. k + 1 |-> i - 1], <<Sep>>)
                  /\ \A f \in Standard : f > k => want[f] = <<>>
            /\ (\A f \in Standard : ~Unquoted(want[f])) =>
                  /\ NL \notin Range(ToText(line))
                  /\ ~ParseFails(ToText(line))
                  /\ \A f \in Standard : Value(again, f) = want[f]
                  /\ ToText(again) = ToText(line)

(* "we can break because f.listIdx is sorted" (expand_list.go:124):         *)
(* every element of the list that the configuration names is expanded.      *)
NamedElementsExpanded ==
    fate = "run" /\ chain # <<>> /\ Last(chain).kind = "expand_list" =>
        LET fl == Last(chain)
        IN  \A i \in DOMAIN fl.at : i < Parts(want[fl.src], fl.sep) =>
                Value(line, fl.at[i]) = want[fl.at[i]]
=============================================================================
