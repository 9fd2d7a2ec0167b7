---------------------------- MODULE MCListInput ----------------------------
(***************************************************************************)
(* Small instances of ListInput: a directory and a list of files; a        *)
(* listing that fails half-way; a file and then a list on a standard input *)
(* that is never closed; a directory with more files than the queue and the        *)
(* workers can hold.                                                       *)
(***************************************************************************)
EXTENDS ListInput, TLC

CONSTANTS f1, f2, f3, f4, w1, w2

Entry(k, fs) == [kind |-> k, files |-> fs]

MCBatch == <<Entry("dir", <<f1>>), Entry("list", <<f2>>)>>
MCBadList == <<Entry("badlist", <<f1>>), Entry("file", <<f2>>)>>
MCStdin == <<Entry("file", <<f1>>), Entry("stdin", <<f2>>)>>
MCDir == <<Entry("dir", <<f1, f2, f3, f4>>)>>
MCConfigs == {MCBatch, MCBadList, MCStdin}
MCDirs == {MCDir}
MCChunks == [f \in Files |-> IF f = f1 THEN 2 ELSE 1]
MCSymmetry == Permutations(Workers)
=============================================================================
