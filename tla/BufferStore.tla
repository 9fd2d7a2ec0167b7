---------------------------- MODULE BufferStore ----------------------------
(***************************************************************************)
(* What pkg/buffercache promises to its caller: it is "a kind of           *)
(* map[string][]byte optimized for appending".  Every buffer that is put   *)
(* under a key is later handed to OnFlush under that key, exactly once,    *)
(* and Flush hands out everything that is still held.  WHEN a buffer is    *)
(* handed out is left open: any Put may evict any of the held buffers.     *)
(***************************************************************************)
EXTENDS Naturals

CONSTANT Keys       \* grouping keys

VARIABLES puts,     \* puts[k]: number of buffers put under k so far
          handed    \* handed[k]: indices of the buffers of k given to OnFlush

vars == <<puts, handed>>

Given(k) == 1 .. puts[k]
Held(k)  == Given(k) \ handed[k]

Init ==
    /\ puts = [k \in Keys |-> 0]
    /\ handed = [k \in Keys |-> {}]

(* Put: one more buffer for k; what is handed out is never taken back and  *)
(* had been put before.                                                    *)
Put(k) ==
    /\ puts' = [puts EXCEPT ![k] = @ + 1]
    /\ handed' \in [Keys -> SUBSET Nat]
    /\ \A j \in Keys : handed[j] \subseteq handed'[j] /\ handed'[j] \subseteq Given(j)

Flush ==
    /\ handed' = [k \in Keys |-> Given(k)]
    /\ UNCHANGED puts

Next == Flush \/ \E k \in Keys : Put(k)

Spec == Init /\ [][Next]_vars
=============================================================================
