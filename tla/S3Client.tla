-------------------------------- MODULE S3Client -------------------------------
(* A client of one key that makes requests in parallel: it writes a file     *)
(* (S3FileWriter), or copies or reads an object in ranges (S3Transfer).      *)
(* Both share the storage, the executor's size and how ranges are cut.       *)
EXTENDS S3Transfer

CONSTANTS
  AioExecutor, Modes, OldSizes, WriteSizes, MaxWritten  \* see S3FileWriter

VARIABLES
  autocommit, append_block, buffer, loc, initiated,
  multipart_upload, multipart_upload_parts, old, written

W == INSTANCE S3FileWriter

ASSUME WriterAssumption == W!SizesAssumption

fileVars == <<autocommit, append_block, buffer, loc, initiated,
              multipart_upload, multipart_upload_parts, old, written>>
transferVars == <<versions, callVars, parts, arrived, result, told>>
clientVars == <<vars, fileVars>>

(* The transfer's variables while a file is written, the file's while not.   *)
NoTransfer ==
  /\ versions = <<(<<>>)>> /\ op = "write" /\ versioned = FALSE /\ range = <<0, 0>>
  /\ parts = <<>> /\ arrived = <<>> /\ result = NULL /\ told = 1

NoFile ==
  /\ autocommit = FALSE /\ append_block = FALSE /\ buffer = <<>> /\ loc = 0
  /\ initiated = FALSE /\ multipart_upload = FALSE /\ multipart_upload_parts = <<>>
  /\ old = NULL /\ written = <<>>

ClientInit == (W!Init /\ NoTransfer) \/ (Init /\ NoFile)

WriterStep == op = "write" /\ W!Next /\ UNCHANGED transferVars
TransferStep == op # "write" /\ Next /\ UNCHANGED fileVars
ClientNext == WriterStep \/ TransferStep

(* The threads of the executor keep working, and a call in progress goes on; *)
(* nobody has to write, close or commit, and no other client has to come.    *)
Working ==
  \/ op = "write" /\ (W!UserStep \/ \E i \in W!Parts : W!PoolStep(i)) /\ UNCHANGED transferVars
  \/ op # "write" /\ CallStep /\ UNCHANGED fileVars

ClientSpec == ClientInit /\ [][ClientNext]_clientVars /\ WF_clientVars(Working)
--------------------------------------------------------------------------------
(* The properties of S3FileWriter, for a client that writes.                 *)

(* The object changes in one step, from what it was to the complete file,    *)
(* whichever parts fail or arrive late; not before commit() in a             *)
(* transaction, and not at all after a rollback.                             *)
ObjectIsOldOrComplete == op = "write" => W!ObjectIsOldOrComplete

(* "actual == data + extra" (test_append): unless a request fails, a file    *)
(* that was written or appended to is there, in full, once it is committed;  *)
(* and every part that is made of it is as large as S3 allows.               *)
WrittenIsStored == op = "write" => W!WrittenIsStored /\ W!PartSizesAllowed

(* "The multipart upload is aborted so that no incomplete upload is left     *)
(* behind": neither by a file, nor by a copy in threads.                     *)
NoUploadLeftBehind == IF op = "write" THEN W!NoUploadLeftBehind ELSE CopyUploadsEnd

(* commit(), close(), a copy and a read end: they never wait for a request   *)
(* that nobody makes.                                                        *)
CallsEnd ==
  /\ op = "write" /\ pc \in {"commit", "shutdown", "abort"} ~> pc \in {"deferred", "done"}
  /\ op # "write" /\ pc # "new" ~> pc = "done"

(* The inductive strengthening of the safety properties of both.             *)
ClientInv ==
  /\ op \in Operations \cup {"write"}
  /\ op = "write" => W!UploadInv
  /\ op # "write" => TransferInv
================================================================================
