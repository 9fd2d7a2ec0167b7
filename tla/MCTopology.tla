----------------------------- MODULE MCTopology -----------------------------
(***************************************************************************)
(* Small instances of Topology.  Line 2 leads to two records (a filter     *)
(* calls next() twice), line 4 to none (a filter drops it), any other one  *)
(* to one; lines 2 and 3 have the same shard, the others another one.      *)
(***************************************************************************)
EXTENDS Topology, TLC

CONSTANTS b1, b2, b3, b4, p1, p2

MCCopies == [l \in 1..NLines |-> IF l = 2 THEN 2 ELSE IF l = 4 THEN 0 ELSE 1]
MCShard == [l \in 1..NLines |-> IF l \in {2, 3} THEN 7 ELSE 4]
MCSymmetry == Permutations(Buffers) \cup Permutations(Procs)
=============================================================================
