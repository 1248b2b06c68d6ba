----------------------------- MODULE MCS3FileWriter ----------------------------
(* Constants for the run of S3FileWriter; sizes are scaled down, the order   *)
(* MinPart <= BlockSize <= MaxPart is what matters.                          *)
EXTENDS S3FileWriter

AppendMode == {"ab"}

(* An object between the minimum part size and the block size. *)
BlockObjects == {2}
OneByte == {1}
================================================================================
