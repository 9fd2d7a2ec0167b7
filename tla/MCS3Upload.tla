----------------------------- MODULE MCS3Upload -----------------------------
(* An instance of S3Upload for TLC. *)
EXTENDS S3Upload, TLC

CONSTANTS f1, f2

TwoFiles == {f1, f2}
=============================================================================
