------------------------------- MODULE S3Transfer ------------------------------
(* Requests for the ranges of one object, made in parallel: the multipart    *)
(* copy of S3FileSystem (in threads, with an abort) and of AioS3FileSystem   *)
(* (tasks over threads, without one), and S3File's read of a range.  Other   *)
(* clients may replace the object, and clear the uploads of the target.      *)
EXTENDS Naturals, Sequences, FiniteSets, SequencesExt, S3Ranges

CONSTANTS
  MinPart, MaxPart,  \* MULTIPART_UPLOAD_MIN_PART_SIZE and _MAX_PART_SIZE
  BlockSize,         \* block_size of the file that is read
  MaxWorkers,        \* max_workers of the executors
  Operations,        \* what is called: "copy", "aio_copy", "read"
  SourceSizes,       \* sizes of the object
  MaxVersions,       \* bound: how often it is written
  NULL

ASSUME TransferAssumption ==
  /\ MinPart \in Nat \ {0} /\ MaxPart \in Nat /\ BlockSize \in Nat \ {0}
  /\ MaxWorkers \in Nat \ {0} /\ MaxVersions \in Nat \ {0} /\ MinPart <= MaxPart
  /\ SourceSizes \subseteq Nat \ {0} /\ Operations \subseteq {"copy", "aio_copy", "read"}

VARIABLES
  object, upload, stored,  \* S3: the target of a copy, see S3Storage
  versions,   \* S3: the versions of the source, the last is current
  op,         \* the operation
  versioned,  \* it is for the first version: the path names it, or the file
              \* of a version_aware filesystem is pinned to it
  pc,         \* where the caller is
  range,      \* the bytes wanted: of a copy as many as info() has told
  parts,      \* the requests for ranges
  arrived,    \* those that are done, in the order they were done
  result,     \* what a read has returned
  outcome,    \* history: how the call ended
  told,       \* the version info() has told of
  lost        \* history: S3 did what was asked and the answer was lost

S3 == INSTANCE S3Storage

storageVars == <<object, upload, stored>>
callVars == <<op, versioned, range>>
vars == <<storageVars, versions, callVars, pc, parts, arrived, result, outcome, told, lost>>

Parts == DOMAIN parts
Copying == op \in {"copy", "aio_copy"}

Bytes(v, n) == [i \in 1..n |-> <<v, i>>]
Source == IF versioned THEN versions[1] ELSE Last(versions)

(* The version info() told of is the one that requests get.  Every request   *)
(* of a read asks S3 for this, with the etag that info() told (IfMatch), or  *)
(* names the version; a copy has no condition.                               *)
Undisturbed == versioned \/ told = Len(versions)

Init ==
  /\ object = NULL /\ upload = "none" /\ stored = <<>>
  /\ versions \in {<<Bytes(1, n)>> : n \in SourceSizes}
  /\ op \in Operations /\ versioned \in BOOLEAN
  /\ pc = "new" /\ range = <<0, 0>>
  /\ parts = <<>> /\ arrived = <<>> /\ result = NULL
  /\ outcome = "none" /\ told = 1 /\ lost = FALSE
--------------------------------------------------------------------------------
End(how) == pc' = "done" /\ outcome' = how

Requests(ranges) ==
  [i \in DOMAIN ranges |-> [range |-> ranges[i], state |-> "pending", bytes |-> <<>>]]

(* cp_file: info() may answer from the cache, with an older version's size;  *)
(* more than a part may hold is copied in parts, and a part is as large as   *)
(* it may be.                                                                *)
CopyFile ==
  \E v \in (IF versioned THEN {1} ELSE DOMAIN versions) :
    LET size == Len(versions[v]) IN
    /\ range' = <<0, size>> /\ told' = v
    /\ pc' = IF size <= MaxPart THEN "copy_object" ELSE "create"
    /\ UNCHANGED parts

(* _fetch_range, for bytes that were there when the file was opened: one     *)
(* request, or one for each block.                                           *)
FetchRange ==
  \E v \in (IF versioned THEN {1} ELSE DOMAIN versions) :
    \E start \in 0..(Len(versions[v]) - 1) :
      \E end \in (start + 1)..Len(versions[v]) :
        /\ range' = <<start, end>> /\ told' = v
        /\ parts' = Requests(GetRanges(start, end, MaxWorkers, BlockSize))
        /\ pc' = "collect"

Begin ==
  /\ pc = "new"
  /\ IF Copying THEN CopyFile ELSE FetchRange
  /\ UNCHANGED <<storageVars, versions, op, versioned, arrived, result, outcome, lost>>

(* _copy_object: a single request. *)
CopyObject ==
  /\ pc = "copy_object"
  /\ \/ S3!PutObject(Source) /\ End("returned")
     \/ (S3!PutObject(Source) \/ UNCHANGED storageVars) /\ End("failed")
  /\ UNCHANGED <<versions, callVars, parts, arrived, result, told, lost>>

CreateMultipartUpload ==
  /\ pc = "create"
  /\ \/ /\ S3!CreateUpload /\ pc' = "collect"
        /\ parts' = Requests(GetRanges(0, range[2], MaxWorkers, MaxPart))
        /\ UNCHANGED <<outcome, lost>>
     \/ S3!CreateUpload /\ lost' = TRUE /\ End("failed") /\ UNCHANGED parts
     \/ UNCHANGED <<storageVars, lost, parts>> /\ End("failed")
  /\ UNCHANGED <<versions, callVars, arrived, result, told>>

(* sorted() by the start of the range: no two ranges have the same.          *)
ByStart(order) ==
  CHOOSE s \in [DOMAIN order -> ToSet(order)] :
    \A k, l \in DOMAIN order : k < l => parts[s[k]].range[1] < parts[s[l]].range[1]

(* _merge_objects: the ranges are put together in the order of their start.  *)
MergeObjects(order) ==
  LET sorted == ByStart(order) IN FlattenSeq([k \in DOMAIN order |-> parts[sorted[k]].bytes])

AllDone == \A i \in Parts : parts[i].state = "done"

ReadReturns ==
  /\ pc = "collect" /\ op = "read" /\ AllDone
  /\ result' = MergeObjects(arrived)
  /\ End("returned")
  /\ UNCHANGED <<storageVars, versions, callVars, parts, arrived, told, lost>>

(* A failed range: the read ends at the first that fails, the asyncio copy,  *)
(* too; the other requests go on.  The copy in threads asks for the results  *)
(* in order, cancels the rest and aborts the upload.                         *)
PartResultFails(i) ==
  /\ pc = "collect" /\ parts[i].state = "failed"
  /\ IF op = "copy"
     THEN /\ \A k \in 1..(i - 1) : parts[k].state = "done"
          /\ pc' = "abort" /\ UNCHANGED outcome
     ELSE End("failed")
  /\ UNCHANGED <<storageVars, versions, callVars, parts, arrived, result, told, lost>>

(* All ranges are copied: S3 puts the parts together, refuses, or its answer *)
(* is lost.                                                                  *)
Complete ==
  /\ pc = "collect" /\ Copying /\ AllDone
  /\ \/ S3!CompleteUpload(Len(parts)) /\ pc' = "exit" /\ outcome' = "returned"
     \/ /\ S3!CompleteUpload(Len(parts)) \/ UNCHANGED storageVars
        /\ IF op = "copy" THEN pc' = "abort" /\ UNCHANGED outcome ELSE End("failed")
  /\ UNCHANGED <<versions, callVars, parts, arrived, result, told, lost>>

(* Mutant: the error is passed on without an abort. *)
AbortSkipped == UNCHANGED <<storageVars, lost>>

AbortUpload ==
  \/ S3!AbortUpload /\ UNCHANGED lost
  \/ lost' = TRUE /\ UNCHANGED storageVars

Abort ==
  /\ pc = "abort"
  /\ AbortUpload
  /\ parts' = [i \in Parts |-> IF parts[i].state = "pending"
                               THEN [parts[i] EXCEPT !.state = "cancelled"] ELSE parts[i]]
  /\ pc' = "exit" /\ outcome' = "failed"
  /\ UNCHANGED <<versions, callVars, arrived, result, told>>

(* A KeyboardInterrupt in a copy is no Exception: the executor is left, its  *)
(* requests go on, nothing is aborted.  A task is cancelled as well.         *)
Interrupt ==
  /\ pc = "collect"
  /\ IF op = "copy" THEN pc' = "exit" /\ outcome' = "interrupted" ELSE End("interrupted")
  /\ UNCHANGED <<storageVars, versions, callVars, parts, arrived, result, told, lost>>

(* "with executor": leaving it waits for every request. *)
ExecutorExits ==
  /\ pc = "exit"
  /\ \A i \in Parts : parts[i].state \in {"done", "failed", "cancelled"}
  /\ pc' = "done"
  /\ UNCHANGED <<storageVars, versions, callVars, parts, arrived, result, outcome, told, lost>>
--------------------------------------------------------------------------------
(* The threads. *)

StartPart(i) ==
  /\ parts[i].state = "pending"
  /\ \A k \in 1..(i - 1) : parts[k].state # "pending"
  /\ Cardinality({k \in Parts : parts[k].state = "running"}) < MaxWorkers
  /\ parts' = [parts EXCEPT ![i].state = "running"]
  /\ UNCHANGED <<storageVars, versions, callVars, pc, arrived, result, outcome, told, lost>>

(* UploadPartCopy refuses a range the source does not have. *)
PartCopied(i) ==
  /\ parts[i].state = "running" /\ Copying
  /\ parts[i].range[2] <= Len(Source)
  /\ S3!StorePart(i, Slice(Source, parts[i].range))
  /\ parts' = [parts EXCEPT ![i].state = "done"]
  /\ arrived' = Append(arrived, i)
  /\ UNCHANGED <<versions, callVars, pc, result, outcome, told, lost>>

ReadBytes(i) ==
  /\ parts' = [parts EXCEPT ![i].state = "done", ![i].bytes = Slice(Source, parts[i].range)]
  /\ arrived' = Append(arrived, i)
  /\ UNCHANGED <<storageVars, versions, callVars, pc, result, outcome, told, lost>>

(* Mutant: a request without the etag, for as many bytes as there are. *)
PartReadUnconditional(i) ==
  /\ parts[i].state = "running" /\ ~Copying /\ parts[i].range[2] <= Len(Source)
  /\ ReadBytes(i)

(* GetObject: the bytes of the version info() told of, or, if there is       *)
(* another by now, an error: PartFails.                                      *)
PartRead(i) ==
  /\ parts[i].state = "running" /\ ~Copying /\ Undisturbed
  /\ ReadBytes(i)

PartFails(i) ==
  /\ parts[i].state = "running"
  /\ parts' = [parts EXCEPT ![i].state = "failed"]
  /\ UNCHANGED <<storageVars, versions, callVars, pc, arrived, result, outcome, told, lost>>
--------------------------------------------------------------------------------
(* Other clients. *)

ReplaceSource ==
  /\ Len(versions) < MaxVersions /\ pc # "done"
  /\ \E n \in SourceSizes : versions' = Append(versions, Bytes(Len(versions) + 1, n))
  /\ UNCHANGED <<storageVars, callVars, pc, parts, arrived, result, outcome, told, lost>>

(* clear_multipart_uploads aborts every upload it lists under the path. *)
ClearMultipartUploads ==
  /\ upload = "open"
  /\ S3!AbortUpload
  /\ UNCHANGED <<versions, callVars, pc, parts, arrived, result, outcome, told, lost>>
--------------------------------------------------------------------------------
(* What goes on by itself: the call, and the threads. *)
CallStep ==
  \/ CopyObject \/ CreateMultipartUpload \/ ReadReturns \/ Complete \/ Abort
  \/ ExecutorExits
  \/ \E i \in Parts :
       PartResultFails(i) \/ StartPart(i) \/ PartCopied(i) \/ PartRead(i) \/ PartFails(i)

Next == CallStep \/ Begin \/ Interrupt \/ ReplaceSource \/ ClearMultipartUploads

Spec == Init /\ [][Next]_vars
--------------------------------------------------------------------------------
(* A copy changes the target in one step to the whole version it is a copy   *)
(* of, whichever ranges fail, whoever clears the upload; a call that returns *)
(* has copied it.  If the source is replaced while it goes on, the parts may *)
(* be of several versions: its requests have no condition.                   *)
TargetIsOldOrCopy ==
  Copying /\ Undisturbed =>
    /\ object \in {NULL, Source}
    /\ outcome = "returned" => object = Source

(* "so that no incomplete upload is left behind" (_finish_multipart_upload): *)
(* the copy in threads leaves one only if it is interrupted, or a create or  *)
(* abort call got lost; the asyncio copy also when it fails.                 *)
CopyUploadsEnd ==
  pc = "done" /\ upload = "open" =>
    outcome = "interrupted" \/ lost \/ (op = "aio_copy" /\ outcome = "failed")

(* A read in ranges that returns gives the bytes of the range, in order, of  *)
(* the one version the file was opened with: whichever range arrives first,  *)
(* whoever replaces the object before, between or after the requests, stale  *)
(* as the cache may have been.                                               *)
ReadIsRange ==
  op = "read" /\ outcome = "returned" => result = Slice(versions[told], range)
--------------------------------------------------------------------------------
(* The inductive strengthening of the three.                                 *)

Requested == IF Copying THEN GetRanges(0, range[2], MaxWorkers, MaxPart)
             ELSE GetRanges(range[1], range[2], MaxWorkers, BlockSize)

PartStates == {"pending", "running", "done", "failed", "cancelled"}
Request == [range : Nat \X Nat, bytes : Seq(Nat \X Nat), state : PartStates]

TransferTypes ==
  /\ versions \in Seq(Seq(Nat \X Nat)) /\ \A v \in DOMAIN versions : versions[v] # <<>>
  /\ op \in Operations /\ versioned \in BOOLEAN /\ lost \in BOOLEAN
  /\ told \in DOMAIN versions /\ (versioned => told = 1)
  /\ pc \in {"new", "copy_object", "create", "collect", "abort", "exit", "done"}
  /\ outcome \in {"none", "returned", "failed", "interrupted"}
  /\ upload \in {"none", "open", "completed", "aborted"}
  /\ range \in Nat \X Nat /\ parts \in Seq(Request) /\ arrived \in Seq(Nat)

(* The requests are those for the range that is wanted of the version told   *)
(* of, and there are none before.                                            *)
RequestsAreOfRange ==
  /\ pc # "new" => /\ range[1] < range[2] /\ range[2] <= Len(versions[told])
                   /\ Copying => range[1] = 0 /\ range[2] = Len(versions[told])
  /\ pc \in {"new", "copy_object", "create"} => parts = <<>> /\ upload = "none" /\ object = NULL
  /\ pc \in {"new", "copy_object", "create", "collect", "abort"} => outcome = "none"
  /\ pc \in {"copy_object", "create"} => Copying
  /\ pc \in {"collect", "abort", "exit"} => parts # <<>>
  /\ parts # <<>> => /\ pc # "new" /\ Parts = DOMAIN Requested
                     /\ \A i \in Parts : parts[i].range = Requested[i]

(* What has arrived is what is done, each range once.                        *)
ArrivedAreDone ==
  /\ ToSet(arrived) = {i \in Parts : parts[i].state = "done"}
  /\ \A k, l \in DOMAIN arrived : arrived[k] = arrived[l] => k = l

(* What is read is a range of the version info() told of, what is copied if  *)
(* nobody has replaced it.                                                   *)
PartsAreSlices ==
  \A i \in Parts : parts[i].state = "done" =>
    IF ~Copying THEN parts[i].bytes = Slice(versions[told], parts[i].range)
    ELSE Undisturbed => i \in DOMAIN stored /\ stored[i] = Slice(Source, parts[i].range)

(* An open upload is one that goes on, or is known to be left.               *)
UploadsAreOwned ==
  upload = "open" =>
    \/ outcome = "interrupted" \/ lost
    \/ Copying /\ pc \in {"collect", "abort"}
    \/ op = "aio_copy" /\ outcome = "failed"

TransferInv ==
  /\ TransferTypes /\ RequestsAreOfRange /\ ArrivedAreDone /\ PartsAreSlices /\ UploadsAreOwned
  /\ TargetIsOldOrCopy /\ ReadIsRange
================================================================================
