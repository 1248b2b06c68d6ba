-------------------------------- MODULE S3Bucket -------------------------------
(* One S3 bucket as S3FileSystem uses it.  External, modelled from the calls *)
(* src/pyathena/filesystem/s3.py makes.  Paths are sequences of names: <<>>  *)
(* is the root, Bucket the bucket, keys are below it; "directories" are only *)
(* prefixes of keys.  Every write gives the object a version of its own.     *)
EXTENDS Naturals, Sequences, SequencesExt

CONSTANTS
  Bucket,    \* the path of the bucket
  Files,     \* the paths that may be objects
  Protected, \* those that a bulk delete may refuse to delete
  MaxWrites  \* bound: versions

VARIABLES
  versions,  \* of the bucket and the objects in it; Absent if it is not there
  writes     \* the versions given out

bucketVars == <<versions, writes>>

Absent == 0
ExistsIn(vs, path) == path \in DOMAIN vs /\ vs[path] # Absent
Exists(path) == ExistsIn(versions, path)

(* ListObjectsV2 below path, with the delimiter "/" or without.              *)
KeysBelow(path) == {f \in Files : Exists(f) /\ IsStrictPrefix(path, f)}
ListObjects(path, delimiter) ==
  IF delimiter = "/" THEN {SubSeq(f, 1, Len(path) + 1) : f \in KeysBelow(path)}
                     ELSE KeysBelow(path)

(* What a user takes for existing: the root, an object, a bucket or a prefix.*)
PresentIn(vs, path) ==
  \/ path = <<>> \/ ExistsIn(vs, path)
  \/ path # Bucket /\ \E f \in Files : ExistsIn(vs, f) /\ IsStrictPrefix(path, f)

BucketInit(old) ==
  /\ versions = [p \in Files \cup {Bucket} |-> IF p \in old THEN 1 ELSE Absent]
  /\ writes = 1

Put(path) ==
  /\ writes < MaxWrites
  /\ writes' = writes + 1
  /\ versions' = [versions EXCEPT ![path] = writes + 1]

PutObject(path) == Exists(Bucket) /\ path \in Files /\ Put(path)
CopyObject(source, path) == Exists(source) /\ PutObject(path)
CreateBucket == ~Exists(Bucket) /\ Put(Bucket)

Delete(paths) ==
  /\ Exists(Bucket)
  /\ versions' = [p \in DOMAIN versions |-> IF p \in paths THEN Absent ELSE versions[p]]
  /\ UNCHANGED writes

(* DeleteObjects answers 200 even if it refused some of the keys.            *)
DeleteObjects(paths) ==
  \E refused \in SUBSET Protected : Delete((paths \cap Files) \ refused)
DeleteBucket == KeysBelow(Bucket) = {} /\ Delete({Bucket})
================================================================================
