------------------------------ MODULE S3FileWriter -----------------------------
(* S3File opened for writing or appending: write() collects bytes in a       *)
(* buffer and hands full blocks to a pool that uploads them as parts; close()*)
(* uploads the rest and commits, or leaves that to the fsspec transaction.   *)
(* write(), flush() and close() are those of fsspec's AbstractBufferedFile,  *)
(* whose hooks _initiate_upload, _upload_chunk, commit and discard the class *)
(* implements.  Bytes are numbered, those of the object before first.        *)
EXTENDS Naturals, Sequences, FiniteSets, SequencesExt, S3Ranges

CONSTANTS
  MinPart, MaxPart,  \* MULTIPART_UPLOAD_MIN_PART_SIZE and _MAX_PART_SIZE
  BlockSize,         \* block_size of open()
  MaxWorkers,        \* max_workers of the executor
  AioExecutor,       \* the executor is S3AioExecutor, whose shutdown() does not wait
  Modes,             \* the modes of open(): "wb", "ab"
  OldSizes,          \* sizes the object may have before, NULL if it is not there
  WriteSizes,        \* how many bytes one write() gets
  MaxWritten,        \* bound: bytes written altogether
  NULL

(* What is assumed of the constants; S3Client assumes it. *)
SizesAssumption ==
  /\ MinPart \in Nat \ {0} /\ MaxPart \in Nat /\ MaxWorkers \in Nat \ {0}
  /\ BlockSize \in MinPart..MaxPart
  /\ OldSizes \subseteq Nat \cup {NULL} /\ IsFiniteSet(OldSizes)
  /\ WriteSizes \subseteq Nat /\ MaxWritten \in Nat
  /\ NULL \notin Nat

VARIABLES
  object, upload, stored,  \* S3, see S3Storage
  pc,           \* where the user's thread is
  autocommit,   \* AbstractBufferedFile.autocommit: not in a transaction
  append_block, \* S3File.append_block
  buffer,       \* AbstractBufferedFile.buffer
  loc,          \* AbstractBufferedFile.loc, what tell() returns
  initiated,    \* AbstractBufferedFile.offset is set: the first flush is done
  multipart_upload,       \* S3File.multipart_upload is set
  multipart_upload_parts, \* the submitted part uploads, by part number - 1
  old,          \* history: the object before
  written,      \* history: the bytes write() was given
  outcome,      \* history: how the file ended
  lost          \* history: S3 accepted an upload, or refused to abort one,
                \* and the code does not know or cannot help it

S3 == INSTANCE S3Storage

storageVars == <<object, upload, stored>>
fileVars == <<autocommit, append_block, buffer, loc, initiated>>
uploadVars == <<multipart_upload, multipart_upload_parts>>
historyVars == <<old, written, outcome, lost>>
vars == <<storageVars, pc, fileVars, uploadVars, historyVars>>

MaxOld == Max({0} \cup (OldSizes \ {NULL}))
Bytes == 1..(MaxOld + MaxWritten)
Parts == DOMAIN multipart_upload_parts

(* A part upload: the bytes of the body, or a range of the object to copy.   *)
PartStates == {"pending", "running", "done", "failed", "cancelled"}

TypeOK ==
  /\ object = NULL \/ object \in Seq(Bytes)
  /\ upload \in {"none", "open", "completed", "aborted"}
  /\ DOMAIN stored \subseteq Parts /\ \A i \in DOMAIN stored : stored[i] \in Seq(Bytes)
  /\ pc \in {"new", "open", "commit", "abort", "shutdown", "deferred", "done"}
  /\ autocommit \in BOOLEAN /\ append_block \in BOOLEAN
  /\ buffer \in Seq(Bytes)
  /\ loc = Len(written) + IF append_block THEN Len(old) ELSE 0
  /\ initiated \in BOOLEAN /\ multipart_upload \in BOOLEAN
  /\ \A i \in Parts : /\ multipart_upload_parts[i].state \in PartStates
                      /\ multipart_upload_parts[i].copy \in BOOLEAN
  /\ Cardinality({i \in Parts : multipart_upload_parts[i].state = "running"}) <= MaxWorkers
  /\ outcome \in {"none", "committed", "rejected", "failed", "discarded", "interrupted"}
  /\ lost \in BOOLEAN

Init ==
  /\ object \in {IF n = NULL THEN NULL ELSE [i \in 1..n |-> i] : n \in OldSizes}
  /\ upload = "none" /\ stored = <<>>
  /\ pc = "new"
  /\ autocommit \in BOOLEAN
  /\ append_block = FALSE /\ buffer = <<>> /\ loc = 0 /\ initiated = FALSE
  /\ multipart_upload = FALSE /\ multipart_upload_parts = <<>>
  /\ old = object /\ written = <<>> /\ outcome = "none" /\ lost = FALSE
--------------------------------------------------------------------------------
(* How a buffer is cut into parts.                                           *)

(* Mutant: a short block is uploaded as it is. *)
UploadsUnmerged(data, next_data) ==
  IF next_data = <<>> THEN <<data>> ELSE <<data, next_data>>

(* The parts made from two consecutive blocks: a short second block is       *)
(* merged into the first, and the result halved if it gets too large.        *)
Uploads(data, next_data) ==
  LET both == data \o next_data
      half == Len(both) \div 2
  IN IF Len(next_data) \in 1..(MinPart - 1)
     THEN IF Len(both) < MaxPart THEN <<both>>
          ELSE <<SubSeq(both, 1, half), SubSeq(both, half + 1, Len(both))>>
     ELSE IF next_data = <<>> THEN <<data>> ELSE <<data, next_data>>

(* The loop of _upload_chunk reads two blocks at a time. *)
ChunkParts(buf) ==
  LET Block(k) == SubSeq(buf, (k - 1) * BlockSize + 1, Min({k * BlockSize, Len(buf)}))
  IN FlattenSeq([i \in 1..Ceil(Len(buf), 2 * BlockSize) |->
                   Uploads(Block(2 * i - 1), Block(2 * i))])

Body(bytes) == [copy |-> FALSE, bytes |-> bytes, state |-> "pending"]
Copy(range) == [copy |-> TRUE, bytes |-> range, state |-> "pending"]
Bodies(buf) == LET chunks == ChunkParts(buf) IN [i \in DOMAIN chunks |-> Body(chunks[i])]

(* _initiate_upload: the object that is appended to is copied in front.      *)
CopyParts(total) ==
  LET ranges == IF total > MaxPart THEN GetRanges(0, Len(object), MaxWorkers, MaxPart)
                ELSE <<(<<0, Len(object)>>)>>
  IN IF append_block THEN [i \in DOMAIN ranges |-> Copy(ranges[i])] ELSE <<>>
--------------------------------------------------------------------------------
(* The user's thread.                                                        *)

(* Appending to an object below the minimum part size reads it into the      *)
(* buffer; a larger one is left where it is.                                 *)
Open(mode) ==
  /\ pc = "new"
  /\ pc' = "open"
  /\ IF mode = "ab" /\ object # NULL
     THEN /\ append_block' = TRUE
          /\ buffer' = IF Len(object) < MinPart THEN object ELSE <<>>
          /\ loc' = Len(object)
     ELSE UNCHANGED <<append_block, buffer, loc>>
  /\ UNCHANGED <<storageVars, autocommit, initiated, uploadVars, historyVars>>

(* The file ends without a commit: the error reaches the user. *)
End(how) == pc' = "done" /\ outcome' = how

(* The first flush of a file that has reached the block size: create the     *)
(* upload and submit the copy of what is appended to, then buffer buf.       *)
InitiateUpload(buf, total) ==
  /\ S3!CreateUpload
  /\ multipart_upload' = TRUE
  /\ multipart_upload_parts' = CopyParts(total) \o Bodies(buf)

(* create_multipart_upload fails, or its answer is lost: the file is closed, *)
(* a transaction around it is rolled back by the exception.                  *)
InitiateFails ==
  /\ \/ S3!CreateUpload /\ lost' = TRUE
     \/ UNCHANGED <<storageVars, lost>>
  /\ End("failed")
  /\ UNCHANGED uploadVars

(* write(): a buffer that has reached the block size is flushed. *)
Write(n) ==
  LET data == [i \in 1..n |-> MaxOld + Len(written) + i]
      buf == buffer \o data
  IN
  /\ pc = "open" /\ Len(written) + n <= MaxWritten
  /\ loc' = loc + n
  /\ written' = written \o data
  /\ \/ /\ Len(buf) < BlockSize
        /\ buffer' = buf
        /\ UNCHANGED <<storageVars, pc, initiated, uploadVars, outcome, lost>>
     \/ /\ Len(buf) >= BlockSize /\ initiated
        /\ multipart_upload_parts' = multipart_upload_parts \o Bodies(buf)
        /\ buffer' = <<>>
        /\ UNCHANGED <<storageVars, pc, initiated, multipart_upload, outcome, lost>>
     \/ /\ Len(buf) >= BlockSize /\ ~initiated
        /\ initiated' = TRUE
        /\ \/ InitiateUpload(buf, loc') /\ buffer' = <<>> /\ UNCHANGED <<pc, outcome, lost>>
           \/ InitiateFails /\ buffer' = buf
  /\ UNCHANGED <<autocommit, append_block, old>>

(* commit() of a file without parts: one PutObject, which may fail.  An      *)
(* empty file is touched.                                                    *)
CommitSmall ==
  \/ S3!PutObject(buffer) /\ End("committed")
  \/ (S3!PutObject(buffer) \/ UNCHANGED storageVars) /\ End("failed")

(* Mutant: the final flush resets the buffer as every other flush does. *)
AfterFinalFlushReset == <<>>

(* The buffer after the final flush: _upload_chunk returns False to keep it  *)
(* for a commit() that is deferred to the end of the transaction.            *)
AfterFinalFlush == buffer

(* What close() does once the rest of the buffer is submitted. *)
FinishFlush == pc' = IF autocommit THEN "commit" ELSE "shutdown"

(* close() flushes what is left and commits, or leaves that to the           *)
(* transaction.                                                              *)
Close ==
  /\ pc = "open"
  /\ initiated' = TRUE
  /\ \/ /\ loc < BlockSize
        /\ IF autocommit THEN CommitSmall ELSE pc' = "shutdown" /\ UNCHANGED <<storageVars, outcome>>
        /\ UNCHANGED <<uploadVars, lost>>
     \/ /\ loc >= BlockSize /\ initiated
        /\ multipart_upload_parts' = multipart_upload_parts \o Bodies(buffer)
        /\ FinishFlush
        /\ UNCHANGED <<storageVars, multipart_upload, outcome, lost>>
     \/ /\ loc >= BlockSize /\ ~initiated
        /\ \/ InitiateUpload(buffer, loc) /\ FinishFlush /\ UNCHANGED <<outcome, lost>>
           \/ InitiateFails
  /\ buffer' = AfterFinalFlush
  /\ UNCHANGED <<autocommit, append_block, loc, old, written>>

Resolved(i) == multipart_upload_parts[i].state \in {"done", "failed", "cancelled"}

(* In a transaction close() only waits for the pool, unless it is asyncio's. *)
ShutdownReturns ==
  /\ pc = "shutdown"
  /\ AioExecutor \/ \A i \in Parts : Resolved(i)
  /\ pc' = "deferred"
  /\ UNCHANGED <<storageVars, fileVars, uploadVars, historyVars>>

(* The transaction commits the file. *)
Commit ==
  /\ pc = "deferred"
  /\ IF ~multipart_upload THEN CommitSmall
     ELSE pc' = "commit" /\ UNCHANGED <<storageVars, outcome>>
  /\ UNCHANGED <<fileVars, uploadVars, old, written, lost>>

CancelPending ==
  multipart_upload_parts' =
    [i \in Parts |-> IF multipart_upload_parts[i].state = "pending"
                     THEN [multipart_upload_parts[i] EXCEPT !.state = "cancelled"]
                     ELSE multipart_upload_parts[i]]

(* The transaction is rolled back: discard() aborts the upload. *)
Discard ==
  /\ pc = "deferred"
  /\ \/ /\ ~multipart_upload
        /\ End("discarded")
        /\ UNCHANGED <<storageVars, uploadVars, lost>>
     \/ /\ multipart_upload
        /\ CancelPending
        /\ \/ S3!AbortUpload /\ multipart_upload' = FALSE /\ End("discarded") /\ UNCHANGED lost
           \/ UNCHANGED <<storageVars, multipart_upload>> /\ lost' = TRUE /\ End("failed")
  /\ UNCHANGED <<fileVars, old, written>>

(* _finish_multipart_upload has the results of all parts: S3 puts them       *)
(* together, the answer may be lost, or it refuses parts that are too small. *)
Complete ==
  LET n == Len(multipart_upload_parts) IN
  /\ pc = "commit"
  /\ \A i \in Parts : multipart_upload_parts[i].state = "done"
  /\ \/ S3!CompleteUpload(n) /\ End("committed")
     \/ S3!CompleteUpload(n) /\ pc' = "abort" /\ outcome' = "failed"
     \/ ~S3!PartsAccepted(n) /\ pc' = "abort" /\ outcome' = "rejected" /\ UNCHANGED storageVars
     \/ pc' = "abort" /\ outcome' = "failed" /\ UNCHANGED storageVars
  /\ UNCHANGED <<fileVars, uploadVars, old, written, lost>>

(* Mutant: a part that failed is never noticed. *)
PartResultUnseen(i) == FALSE /\ UNCHANGED vars

(* The result of part i, asked for in order, is an exception. *)
PartResultFails(i) ==
  /\ pc = "commit"
  /\ multipart_upload_parts[i].state = "failed"
  /\ \A j \in 1..(i - 1) : multipart_upload_parts[j].state = "done"
  /\ pc' = "abort" /\ outcome' = "failed"
  /\ UNCHANGED <<storageVars, fileVars, uploadVars, old, written, lost>>

(* The other parts are cancelled and the upload is aborted; an error of the  *)
(* abort itself is logged.  The first error is raised.                       *)
Abort ==
  /\ pc = "abort"
  /\ pc' = "done"
  /\ CancelPending
  /\ \/ S3!AbortUpload /\ UNCHANGED lost
     \/ lost' = TRUE /\ UNCHANGED storageVars
  /\ multipart_upload' = FALSE
  /\ UNCHANGED <<fileVars, old, written, outcome>>

(* A KeyboardInterrupt while commit() waits is not an Exception: no abort.   *)
Interrupt ==
  /\ pc = "commit"
  /\ End("interrupted")
  /\ UNCHANGED <<storageVars, fileVars, uploadVars, old, written, lost>>
--------------------------------------------------------------------------------
(* The executor's threads.                                                   *)

SetState(i, s) ==
  multipart_upload_parts' = [multipart_upload_parts EXCEPT ![i].state = s]

StartPart(i) ==
  /\ multipart_upload_parts[i].state = "pending"
  /\ \A j \in 1..(i - 1) : multipart_upload_parts[j].state # "pending"
  /\ Cardinality({j \in Parts : multipart_upload_parts[j].state = "running"}) < MaxWorkers
  /\ SetState(i, "running")
  /\ UNCHANGED <<storageVars, pc, fileVars, multipart_upload, historyVars>>

(* UploadPart stores its body, UploadPartCopy what the object has then.      *)
PartUploaded(i) ==
  LET part == multipart_upload_parts[i] IN
  /\ part.state = "running"
  /\ S3!StorePart(i, IF part.copy THEN Slice(object, part.bytes)
                     ELSE part.bytes)
  /\ SetState(i, "done")
  /\ UNCHANGED <<pc, fileVars, multipart_upload, historyVars>>

PartFails(i) ==
  /\ multipart_upload_parts[i].state = "running"
  /\ SetState(i, "failed")
  /\ UNCHANGED <<storageVars, pc, fileVars, multipart_upload, historyVars>>

PoolStep(i) == StartPart(i) \/ PartUploaded(i) \/ PartFails(i)
UserStep == ShutdownReturns \/ Complete \/ Abort \/ \E i \in Parts : PartResultFails(i)

Next ==
  \/ \E mode \in Modes : Open(mode)
  \/ \E n \in WriteSizes : Write(n)
  \/ Close \/ Commit \/ Discard \/ UserStep \/ Interrupt
  \/ \E i \in Parts : PoolStep(i)

Spec == Init /\ [][Next]_vars

(* The pool keeps working: parts that are started end, queued ones are       *)
(* started, and a call in progress goes on.  Nobody has to write, close or   *)
(* commit.                                                                   *)
FairSpec ==
  /\ Spec
  /\ WF_vars(UserStep)
  /\ WF_vars(\E i \in Parts : PoolStep(i))
--------------------------------------------------------------------------------
(* Properties.                                                               *)

(* What the object should be in the end. *)
Expected == (IF append_block THEN old ELSE <<>>) \o written

(* The object changes in one step, from what it was to the complete file,    *)
(* whichever parts fail or arrive late; not before commit() in a             *)
(* transaction, and not at all after a rollback.                             *)
ObjectIsOldOrComplete ==
  /\ object = old \/ object = Expected
  /\ (pc \in {"new", "open", "shutdown", "deferred"} \/ outcome = "discarded") => object = old

(* "actual == data + extra" (test_append): unless a request fails, a file    *)
(* that was written or appended to is there, in full, once it is committed.  *)
WrittenIsStored == outcome \in {"committed", "rejected"} => object = Expected

(* "The multipart upload is aborted so that no incomplete upload is left     *)
(* behind": an upload stays open after the file has ended only if the user   *)
(* interrupted the commit, or S3 did not answer the create or abort call.    *)
NoUploadLeftBehind ==
  (pc = "done" /\ upload = "open") => (outcome = "interrupted" \/ lost)

(* No part is larger than a part may be, or empty. *)
PartSizesAllowed ==
  \A i \in Parts : ~multipart_upload_parts[i].copy =>
    Len(multipart_upload_parts[i].bytes) \in 1..MaxPart
--------------------------------------------------------------------------------
(* The inductive strengthening of NoUploadLeftBehind: a file smaller than a  *)
(* block has no upload, and an upload the file does not know of is lost.     *)
UploadInv ==
  /\ pc = "new" => ~initiated /\ (object = NULL \/ object \in Seq(Bytes))
  /\ buffer \in Seq(Bytes) /\ written \in Seq(Bytes)
  /\ loc \in Nat /\ Len(buffer) <= loc
  /\ upload \in {"none", "open", "completed", "aborted"}
  /\ upload # "none" => initiated
  /\ multipart_upload => initiated
  /\ pc = "open" /\ initiated => BlockSize <= loc
  /\ upload = "open" => multipart_upload \/ lost
  /\ NoUploadLeftBehind
--------------------------------------------------------------------------------
(* The inductive strengthening of ObjectIsOldOrComplete and WrittenIsStored: *)
(* what the parts and the buffer hold, put together, is the file so far.     *)

(* An object that is appended to stays where it is or goes into the buffer;  *)
(* between these sizes it does neither if the file is committed small.       *)
AppendsAreKept ==
  "ab" \in Modes => \A n \in OldSizes \ {NULL} : n \notin MinPart..(BlockSize - 1)

(* Every part but the last can be as large as S3 wants it: a write fills at  *)
(* most one block, and what is appended to is cut into ranges that are large.*)
PartsAreLarge ==
  /\ 2 * MinPart <= MaxPart /\ WriteSizes \subseteq 0..BlockSize
  /\ "ab" \in Modes => \A n \in OldSizes \ {NULL} :
       /\ n >= BlockSize
       /\ LET ranges == GetRanges(0, n, MaxWorkers, MaxPart)
          IN \A i \in DOMAIN ranges : ranges[i][2] - ranges[i][1] >= MinPart

(* An object below the minimum part size is copied as the first of several   *)
(* parts, too: no upload of such a file can be completed.                    *)
Below == append_block /\ Len(old) < MinPart

Content(part) == IF part.copy THEN Slice(old, part.bytes) ELSE part.bytes
Contents == [i \in Parts |-> Content(multipart_upload_parts[i])]

PartRecords == [copy : BOOLEAN, bytes : Seq(Bytes) \cup (Nat \X Nat), state : PartStates]

FileTypes ==
  /\ old = NULL \/ (old \in Seq(Bytes) /\ Len(old) \in OldSizes)
  /\ append_block => old # NULL /\ "ab" \in Modes
  /\ multipart_upload_parts \in Seq(PartRecords)
  /\ \A i \in Parts : Content(multipart_upload_parts[i]) \in Seq(Bytes)
  /\ PartSizesAllowed

DoneIsStored ==
  \A i \in Parts : multipart_upload_parts[i].state = "done" =>
    i \in DOMAIN stored /\ stored[i] = Content(multipart_upload_parts[i])

ObjectInv ==
  /\ object = old \/ object = Expected
  /\ (pc \notin {"abort", "done"} \/ outcome = "discarded" \/ upload = "open") => object = old
  /\ outcome = "committed" => pc = "done" /\ object = Expected

(* The rest of the file, before its first flush and after.                   *)
BufferInv ==
  /\ loc = Len(written) + IF append_block THEN Len(old) ELSE 0
  /\ pc = "new" => ~append_block /\ written = <<>>
  /\ pc = "open" => Len(buffer) < BlockSize /\ (initiated => multipart_upload)
  /\ pc = "commit" => multipart_upload
  /\ ~multipart_upload /\ pc \in {"new", "open", "shutdown", "deferred"} =>
       upload = "none" /\ multipart_upload_parts = <<>>
  /\ ~multipart_upload /\ pc \in {"new", "open"} =>
       buffer = (IF Below THEN old ELSE <<>>) \o written
  /\ ~multipart_upload /\ pc \in {"shutdown", "deferred"} => buffer = Expected

PartsInv ==
  multipart_upload /\ pc \in {"open", "shutdown", "deferred", "commit"} =>
    IF Below
    THEN Len(multipart_upload_parts) >= 2 /\ Len(Contents[1]) < MinPart
    ELSE Expected = FlattenSeq(Contents) \o IF pc = "open" THEN buffer ELSE <<>>

FileInv == FileTypes /\ DoneIsStored /\ ObjectInv /\ BufferInv /\ PartsInv

(* The parts are large: all of them while more may follow.                   *)
SizeInv ==
  /\ outcome # "rejected"
  /\ multipart_upload /\ pc \in {"open", "shutdown", "deferred", "commit"} =>
       \A i \in Parts : pc = "open" \/ i < Len(multipart_upload_parts)
                        => Len(Contents[i]) >= MinPart
================================================================================
