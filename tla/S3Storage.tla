------------------------------- MODULE S3Storage -------------------------------
(* Amazon S3 as S3File uses it for one key: an object that is replaced as a  *)
(* whole, and one multipart upload to it.  External, modelled from the calls *)
(* src/pyathena/filesystem/s3.py makes and the part sizes it respects.       *)
EXTENDS Naturals, Sequences, SequencesExt

CONSTANTS
  MinPart,   \* MULTIPART_UPLOAD_MIN_PART_SIZE: every part but the last has it
  MaxPart,   \* MULTIPART_UPLOAD_MAX_PART_SIZE: no part is larger
  NULL

VARIABLES
  object,    \* the bytes of the object, NULL if there is none
  upload,    \* the multipart upload: "none", "open", "completed", "aborted"
  stored     \* the parts S3 has received, by part number

storageVars == <<object, upload, stored>>

PutObject(bytes) == object' = bytes /\ UNCHANGED <<upload, stored>>

CreateUpload ==
  /\ upload = "none"
  /\ upload' = "open"
  /\ UNCHANGED <<object, stored>>

(* UploadPart and UploadPartCopy: only an open upload takes parts. *)
StorePart(number, bytes) ==
  /\ upload = "open" /\ Len(bytes) <= MaxPart
  /\ stored' = [n \in DOMAIN stored \cup {number} |->
                  IF n = number THEN bytes ELSE stored[n]]
  /\ UNCHANGED <<object, upload>>

(* CompleteMultipartUpload of the parts 1..n: EntityTooSmall if one of them  *)
(* that is not the last has less than the minimum size.                      *)
PartsAccepted(n) == \A i \in 1..(n - 1) : Len(stored[i]) >= MinPart

CompleteUpload(n) ==
  /\ upload = "open" /\ PartsAccepted(n)
  /\ object' = FlattenSeq([i \in 1..n |-> stored[i]])
  /\ upload' = "completed"
  /\ UNCHANGED stored

AbortUpload ==
  /\ upload' = IF upload = "open" THEN "aborted" ELSE upload
  /\ UNCHANGED <<object, stored>>
================================================================================
