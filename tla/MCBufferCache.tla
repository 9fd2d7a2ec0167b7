--------------------------- MODULE MCBufferCache ---------------------------
(* An instance of BufferCache for TLC: two bucket sizes, two cells each.   *)
EXTENDS BufferCache, TLC

CONSTANTS k1, k2, k3

ThreeKeys == {k1, k2, k3}
CellSizes == <<2, 3>>
KeySymmetry == Permutations(ThreeKeys)
=============================================================================
