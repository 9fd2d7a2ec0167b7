--------------------------- MODULE MCRecordsData ---------------------------
(***************************************************************************)
(* The constants of MCRecords: the lines, expressions, files and           *)
(* configurations its parts are checked with.                              *)
(***************************************************************************)
EXTENDS Integers, Sequences, FiniteSets

SeqsUpTo(S, n) == UNION {[1 .. k -> S] : k \in 0 .. n}

\* BufferCache: three keys compete for two buckets of two cells each.
MCKeys == {"k1", "k2", "k3"}
MCBuckets == <<2, 3>>
MCLens == 1 .. 4

-----------------------------------------------------------------------------
\* FilterChain: lines of up to three fields with a list, a number and empty
\* fields in every position, and lines with a separator too many.
MCNL == "\n"
Lines ==
    SeqsUpTo({",", ";", "x", "1"}, 3) \cup
    {<<"x", ";", "1", ",", "x">>, <<"1", ",", "x", ",", "1">>, <<"x", ",", ",", "1", ",">>,
     <<";", "x", ";", ",", "1">>, <<"x", ",", "1", ",", "x", ",", "x">>}

ConcatFields == [kind |-> "concatenate", fields |-> <<1, 0>>, dst |-> 2, sep |-> <<"y">>]
ConcatCustom == [kind |-> "concatenate", fields |-> <<0, 2, 3>>, dst |-> 3, sep |-> <<>>]
SliceField(src, dst, start, end) ==
    [kind |-> "slice", src |-> src, dst |-> dst, start |-> start, end |-> end]

ConfiguredFilters ==
    {ConcatFields, ConcatCustom, SliceField(0, 1, 1, 2), SliceField(0, 0, 2, 0),
     SliceField(0, 1, 2, 1), SliceField(0, 1, 0, -1),
     [kind |-> "expand_list", src |-> 0, sep |-> ";", at |-> [i \in {0, 1} |-> i + 1]],
     [kind |-> "replace", copies |-> <<<<0, 2>>>>, fixed |-> <<<<<<"1">>, 3>>>>],
     [kind |-> "replace", copies |-> <<>>, fixed |-> <<<<<<",">>, 1>>>>],
     [kind |-> "clear", fields |-> {0}],
     [kind |-> "partial_clone", fields |-> {0, 1}],
     [kind |-> "url_param", src |-> 0, dst |-> 0,
      of |-> [v \in {<<"x">>, <<>>} |-> <<>>], rest |-> <<"y">>],
     \* parameters that decode to an end of line and to separators
     [kind |-> "url_param", src |-> 1, dst |-> 0,
      of |-> [v \in {<<"x">>, <<>>} |-> IF v = <<>> THEN <<>> ELSE <<MCNL>>],
      rest |-> <<",", ",", "x", ",">>],
     [kind |-> "format_time", src |-> 1, dst |-> 2, of |-> [v \in {<<"1">>} |-> <<"x">>],
      rest |-> <<>>],
     [kind |-> "crypt", src |-> 1, dst |-> 1, of |-> [v \in {<<"x">>, <<>>} |-> <<"y">>],
      rest |-> <<>>],
     [kind |-> "copy"],
     [kind |-> "not_null", fields |-> {0, 2}],
     [kind |-> "string_match", src |-> 1, strings |-> {<<"x">>, <<>>}, invert |-> FALSE],
     [kind |-> "regex_match", match |-> [f \in {0, 1} |-> {<<"x">>}], invert |-> TRUE],
     [kind |-> "time_range", src |-> 0, start |-> 1, end |-> 2,
      time |-> [v \in {<<"1">>, <<"1", "1">>, <<"x">>} |-> Len(v)]]}

-----------------------------------------------------------------------------
\* ClauseFilter: a node is a word or a list; all small expressions over two
\* fields, one unknown field and a bare word.
AWord(w) == [value |-> w, children |-> <<>>]
AList(nodes) == [value |-> "", children |-> nodes]
IsField(f, v) == AList(<<AWord(f), AWord(v)>>)
Leaves == {IsField("f", "a"), IsField("g", "b"), IsField("h", "a"), AWord("a")}
Lists(S, n) ==
    {AList(<<AWord(op)>> \o args) : op \in {"and", "or", "not"}, args \in SeqsUpTo(S, n)}
Nested == Lists(Leaves \ {AWord("a")}, 1) \cup Lists({IsField("f", "a"), IsField("g", "b")}, 2)

ClauseFields == {"f", "g"}
ClauseExpressions ==
    {<<>>} \cup {<<x>> : x \in Leaves \cup Lists(Leaves, 4) \cup Lists(Nested, 2)}
           \cup {<<x, AWord("a")>> : x \in Nested}
ClauseRecords == [ClauseFields -> {"a", "b"}]

-----------------------------------------------------------------------------
\* The filters with state: four records, two with the same key, that want two
\* urls or none; two files of which each changes once.
MCWorkers == {"w1", "w2"}
MCKeyOf == <<"k1", "k2", "k1", "k3">>
MCValueOf == <<"v1", "v2", "v1", "v2">>
MCUrlOf == <<"u1", "u2", "nil", "u1">>
MCContent == <<<<{"v1"}, {}>>, <<{}, {"v2"}>>>>

\* Statistics: two filters and two outputs.
MCFilterNames == <<"f1", "f2">>
MCOutputNames == <<"o1", "o2">>
MCErrorNames == <<"e1", "e2">>

\* The Stats output: valid and invalid records, good, bad and missing stamps,
\* one before 1970, and one record that ends before them and one too long.
Sample(valid, size, time, value) ==
    [valid |-> valid, size |-> size, time |-> time, value |-> value, shape |-> "usual"]
MCMalformed == -1
SampleKinds == {Sample(TRUE, 3, 5, 1), Sample(TRUE, 1, 7, 1), Sample(TRUE, 4, 0, 0),
            Sample(TRUE, 2, -1, 2), Sample(TRUE, 3, -4, 1), Sample(FALSE, 9, 1, 1),
            [Sample(TRUE, 1, 0, 0) EXCEPT !.shape = "short"],
            [Sample(TRUE, 6, 5, 2) EXCEPT !.shape = "long"]}

\* WebSocket: one peer wants everything, the other one record.
MCClients == {"c1", "c2"}
MCWants == [c1 |-> {1, 2, 3}, c2 |-> {2}]

-----------------------------------------------------------------------------
\* Configuration: every pair of changes to a usual file, with the fields named
\* in the file or in the program.
MCNoSection == {"(none)"}
MCIllTyped == {"(ill-typed)"}
Comp(name, section) == [name |-> name, section |-> section]

MCKnown == [input |-> {"in"}, filter |-> {"f1", "f2"}, output |-> {"out"}, upload |-> {"up"},
          metrics |-> {"mtr"}, user |-> {"usr"}]
MCRequired == [in |-> {"k"}, f1 |-> {"k"}, f2 |-> {}, out |-> {}, up |-> {"k"}, mtr |-> {"k"}]
MCShards == {"a", "c"}

Choices ==
    [input |-> {Comp("in", {"k"}), Comp("in", {}), Comp("in", MCNoSection), Comp("in", MCIllTyped),
                Comp("nil", {"k"})},
     filters |-> {<<Comp("f1", {"k"}), Comp("f2", MCNoSection)>>, <<>>,
                  <<Comp("f2", MCNoSection), Comp("f1", MCNoSection)>>, <<Comp("nil", {})>>},
     output |-> {Comp("out", MCNoSection), Comp("nil", {}), Comp("out", MCIllTyped)},
     upload |-> {Comp("up", {"k"}), Comp("", MCNoSection), Comp("nil", {"k"}),
                 Comp("up", MCNoSection)},
     metrics |-> {Comp("", MCNoSection), Comp("mtr", {"k"}), Comp("mtr", MCNoSection),
                  Comp("nil", MCNoSection)},
     user |-> {<<>>, <<Comp("usr", {})>>, <<Comp("nil", {}), Comp("usr", MCNoSection)>>,
               <<Comp("usr", MCNoSection), Comp("nil", {})>>, <<Comp("usr", MCIllTyped)>>},
     unknownKeys |-> BOOLEAN, compByName |-> BOOLEAN, compNames |-> BOOLEAN,
     compValidate |-> BOOLEAN, createRecord |-> BOOLEAN, raw |-> BOOLEAN, canShard |-> BOOLEAN,
     fields |-> {<<"a", "b">>, <<>>, <<"a", "a">>},
     compFields |-> {<<"b", "c">>},
     validation |-> {{}, {[field |-> "a", compiles |-> TRUE]},
                     {[field |-> "b", compiles |-> FALSE]}},
     separator |-> {"", "1", "10"},
     procs |-> {0, 2, -1}, filterProcs |-> {0, 2, -1}, inChan |-> {0, 2, -1},
     outChan |-> {0, 2, -1},
     refused |-> {{}, {"in"}, {"f2"}, {"out"}, {"up"}, {"mtr"}},
     outFields |-> {<<"b">>, <<>>, <<"b", "c">>},
     sharding |-> {"", "a", "b", "c"}]

MCUsual ==
    [input |-> Comp("in", {"k"}), filters |-> <<Comp("f1", {"k"}), Comp("f2", MCNoSection)>>,
     output |-> Comp("out", MCNoSection), upload |-> Comp("up", {"k"}),
     metrics |-> Comp("", MCNoSection), user |-> <<>>,
     unknownKeys |-> FALSE, compByName |-> FALSE, compNames |-> FALSE, compValidate |-> FALSE,
     createRecord |-> FALSE, raw |-> FALSE, canShard |-> TRUE,
     fields |-> <<"a", "b">>, compFields |-> <<"b", "c">>, validation |-> {}, separator |-> "",
     procs |-> 0, filterProcs |-> 0, inChan |-> 0, outChan |-> 0,
     refused |-> {}, outFields |-> <<"b">>, sharding |-> ""]
InProgram == [MCUsual EXCEPT !.fields = <<>>, !.compByName = TRUE, !.compNames = TRUE]

Files ==
    UNION {{[c EXCEPT ![k] = u, ![l] = v] : c \in {MCUsual, InProgram},
                                             u \in Choices[k], v \in Choices[l]} :
           k, l \in DOMAIN MCUsual}
=============================================================================
