---------------------------- MODULE MCExpandList ----------------------------
(* FilterChain with one ExpandList that names an index of two digits.      *)
EXTENDS FilterChain

ListsOfThree == {<<"x", ";", "1", ";", "y">>, <<";", "x", ";">>}
ExpandTwo == {[kind |-> "expand_list", src |-> 0, sep |-> ";",
               at |-> [i \in {2, 10} |-> IF i = 2 THEN 1 ELSE 2]]}
=============================================================================
