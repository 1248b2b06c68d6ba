------------------------------- MODULE MCS3Client ------------------------------
(* Constants for the run of S3Client; sizes are scaled down, the order       *)
(* MinPart <= BlockSize <= MaxPart is what matters.                          *)
EXTENDS S3Client

BothModes == {"wb", "ab"}

(* Objects of at least a block, the largest is copied in two ranges. *)
LargeObjects == {NULL, 4, 7}
UpToBlock == 1..4

AllOperations == {"copy", "aio_copy", "read"}

(* Objects that are copied and read in one, two and three ranges. *)
CopiedSizes == {3, 7, 9}
================================================================================
