------------------------------ MODULE Pipeline ------------------------------
(***************************************************************************)
(* What a baker topology promises about the records it is given, whatever  *)
(* the number of goroutines, channels and buffers behind it.               *)
(*                                                                         *)
(* The input hands over lines 1, 2, 3, ... in order.  Line l turns into    *)
(* Wanted[l] output records (none when it is malformed, invalid or thrown  *)
(* away by a filter; several when a filter calls next() repeatedly), and   *)
(* each of them reaches an output exactly once before Wait() returns.      *)
(***************************************************************************)
EXTENDS Naturals

CONSTANTS
    NLines,     \* lines the input can produce at most
    Wanted      \* Wanted[l]: number of output records line l turns into

Lines == 1..NLines

\* The output records line l stands for: its first, second, ... copy.
Wants(n) == UNION {{l} \X (1..Wanted[l]) : l \in 1..n}

VARIABLES
    accepted,   \* lines handed over by the input so far
    delivered,  \* delivered[r]: how many times an output was given record r
    phase       \* "open", "draining" (the input is over), "finished", "aborted"

pvars == <<accepted, delivered, phase>>

Init == /\ accepted = 0
        /\ delivered = [r \in Wants(NLines) |-> 0]
        /\ phase = "open"

Accept == /\ phase = "open"
          /\ accepted' \in (accepted + 1)..NLines
          /\ UNCHANGED <<delivered, phase>>

Close == /\ phase = "open"
         /\ phase' = "draining"
         /\ UNCHANGED <<accepted, delivered>>

Deliver(r) == /\ phase \in {"open", "draining"}
              /\ r \in Wants(accepted)
              /\ delivered[r] = 0
              /\ delivered' = [delivered EXCEPT ![r] = 1]
              /\ UNCHANGED <<accepted, phase>>

Finish == /\ phase = "draining"
          /\ \A r \in Wants(accepted) : delivered[r] = 1
          /\ phase' = "finished"
          /\ UNCHANGED <<accepted, delivered>>

\* log.Fatal: an output or the uploader gave up and takes the process with it.
Abort == /\ phase \in {"open", "draining"}
         /\ phase' = "aborted"
         /\ UNCHANGED <<accepted, delivered>>

Next == \/ Accept
        \/ Close
        \/ \E r \in Wants(NLines) : Deliver(r)
        \/ Finish
        \/ Abort

Spec == Init /\ [][Next]_pvars
=============================================================================
