------------------------------ MODULE S3FileSystem -----------------------------
(* S3FileSystem's directory cache and the calls that read, fill and          *)
(* invalidate it.  Several threads may share one file system: AioS3FileSystem*)
(* runs every call of its tasks in a thread on the same S3FileSystem.  A call*)
(* takes a step at each request and at each access to the cache.             *)
EXTENDS Naturals, Sequences, FiniteSets, SequencesExt

CONSTANTS
  Clients,   \* threads that share the file system
  Bucket, Files, Protected, MaxWrites,  \* see S3Bucket
  Asked,     \* bound: the paths info() and exists() are called with
  Listed,    \* bound: the paths ls(), find() and rm() are called with
  ChunkSize, \* DELETE_OBJECTS_MAX_KEYS
  MaxCalls,  \* bound: calls altogether
  NULL

ASSUME PathsAssumption ==
  /\ Bucket \in Seq(STRING) /\ Len(Bucket) = 1
  /\ Files \subseteq Seq(STRING)
  /\ \A f \in Files : IsStrictPrefix(Bucket, f)
  /\ Protected \subseteq Files
  /\ MaxWrites \in Nat \ {0}

(* Directories are the prefixes of keys between the bucket and a file.       *)
Root == <<>>
Dirs == UNION {{SubSeq(f, 1, n) : n \in 2..(Len(f) - 1)} : f \in Files}
Paths == Files \cup Dirs \cup {Bucket}

ASSUME CallsAssumption ==
  /\ ChunkSize \in Nat \ {0} /\ MaxCalls \in Nat
  /\ Asked \subseteq Paths /\ Listed \subseteq Paths \cup {Root}
  /\ NULL \notin BOOLEAN

VARIABLES
  versions, writes,  \* S3, see S3Bucket
  dircache,  \* dircache's string keys: the version a HEAD of the path saw; for
             \* the root, the version of the bucket in the list of buckets
  listings,  \* dircache's keys (path, delimiter): names listed
  pc, call,  \* where each client is in its call, and the call
  calls,     \* history: calls begun
  seen,      \* history: whether the call's path was there, at some moment of it
  found,     \* history: the answer to the call's last question for its path
  unsure     \* history: paths whose cache entry a lost answer, a failed bulk
             \* delete or a late store may have left stale

S3 == INSTANCE S3Bucket

bucketVars == <<versions, writes>>
cacheVars == <<dircache, listings>>
callVars == <<pc, call>>
answerVars == <<calls, found, unsure>>
vars == <<bucketVars, cacheVars, callVars, answerVars, seen>>

Ops == {"none", "info", "exists", "ls", "find", "rm_file", "rm", "pipe_file", "cp_file",
        "setxattr", "mkdir", "rmdir"}
Labels == {"idle", "cache", "head", "read", "send", "store", "prefix", "list", "fetch",
           "keep", "write", "delete", "invalidate"}

(* paths: what the call writes and then invalidates; todo: keys of a bulk    *)
(* delete not sent yet; got, names: what S3 answered and is not stored yet.  *)
Call(op, path, refresh, paths) ==
  [op |-> op, path |-> path, refresh |-> refresh, paths |-> paths, todo |-> {}, got |-> 0,
   names |-> {}, failed |-> FALSE]
NoCall == Call("none", Root, FALSE, {})

CallRecords ==
  [op : Ops, path : Paths \cup {Root}, refresh : BOOLEAN, paths : SUBSET (Paths \cup {Root}),
   todo : SUBSET (Paths \cup {Root}), got : 0..MaxWrites, names : SUBSET (Files \cup Dirs),
   failed : BOOLEAN]

BucketTypeOK == versions \in [Files \cup {Bucket} -> 0..MaxWrites] /\ writes \in 1..MaxWrites

CacheTypeOK ==
  /\ DOMAIN dircache \subseteq Files \cup {Bucket, Root}
  /\ \A p \in DOMAIN dircache : dircache[p] \in 0..MaxWrites
  /\ DOMAIN listings \subseteq (Listed \ {Root}) \X {"/", ""}
  /\ \A k \in DOMAIN listings : listings[k] \in (SUBSET (Files \cup Dirs)) \ {{}}

CallTypeOK ==
  /\ pc \in [Clients -> Labels] /\ call \in [Clients -> CallRecords]
  /\ \A c \in Clients :
       /\ call[c].op = "none" <=> pc[c] = "idle"
       /\ call[c].todo \subseteq call[c].paths
       /\ pc[c] \in {"list", "fetch", "keep"} => call[c].path \in Listed \ {Root}
       /\ pc[c] = "store" => call[c].path \in Files \cup {Bucket, Root}

AnswerTypeOK ==
  /\ calls \in 0..MaxCalls /\ unsure \subseteq Paths \cup {Root}
  /\ seen \in [Clients -> SUBSET BOOLEAN] /\ found \in [Clients -> BOOLEAN \cup {NULL}]

TypeOK == BucketTypeOK /\ CacheTypeOK /\ CallTypeOK /\ AnswerTypeOK

Init ==
  /\ \E old \in SUBSET Files : S3!BucketInit(old \cup {Bucket})
  /\ dircache = <<>> /\ listings = <<>>
  /\ pc = [c \in Clients |-> "idle"] /\ call = [c \in Clients |-> NoCall]
  /\ calls = 0 /\ unsure = {}
  /\ seen = [c \in Clients |-> {}] /\ found = [c \in Clients |-> NULL]

Goto(c, label) == pc' = [pc EXCEPT ![c] = label]
Return(c) == Goto(c, "idle") /\ call' = [call EXCEPT ![c] = NoCall]

(* What S3 says of a path when it is asked: of the root, the buckets.        *)
Current(path) == IF path = Root THEN versions[Bucket]
                 ELSE IF path \in DOMAIN versions THEN versions[path] ELSE S3!Absent

(* The calls under way note what each step means for their path.             *)
Noted == seen' = [c \in Clients |-> IF pc'[c] = "idle" THEN {}
                    ELSE IF UNCHANGED versions THEN seen[c]
                    ELSE seen[c] \cup {S3!PresentIn(versions', call[c].path)}]

(* ------------------------------ the user's calls ------------------------- *)
Begin(c, label, new) ==
  /\ pc[c] = "idle" /\ calls < MaxCalls
  /\ calls' = calls + 1
  /\ Goto(c, label) /\ call' = [call EXCEPT ![c] = new]
  /\ seen' = [seen EXCEPT ![c] = {S3!PresentIn(versions, new.path)}]
  /\ found' = [found EXCEPT ![c] = NULL]
  /\ UNCHANGED <<bucketVars, cacheVars, unsure>>

Info(c, path, refresh) ==
  Begin(c, IF refresh THEN "head" ELSE "cache", Call("info", path, refresh, {}))
AskExists(c, path) == Begin(c, "cache", Call("exists", path, FALSE, {}))

(* The root's listing is kept like a HEAD result, under the key "".          *)
Ls(c, path, refresh) ==
  Begin(c, IF path = Root THEN "head" ELSE "list", Call("ls", path, refresh, {}))
Find(c, path) == path # Root /\ Begin(c, "list", Call("find", path, FALSE, {}))

RmFile(c, file) == Begin(c, "write", Call("rm_file", file, FALSE, {file}))
Rm(c, path, recursive) ==
  /\ path \notin {Root, Bucket}
  /\ \/ recursive /\ Begin(c, "list", Call("rm", path, FALSE, {}))
     \/ /\ ~recursive
        /\ Begin(c, "delete", [Call("rm", path, FALSE, {path}) EXCEPT !.todo = {path}])

(* touch() and pipe_file(): truncate=False and mode="create" ask first.      *)
PipeFile(c, file, create) ==
  Begin(c, IF create THEN "cache" ELSE "write", Call("pipe_file", file, FALSE, {file}))
CpFile(c, source, file) == Begin(c, "cache", Call("cp_file", source, FALSE, {file}))
SetXAttr(c, file) == Begin(c, "write", Call("setxattr", file, FALSE, {file}))
MkDir(c) == Begin(c, "cache", Call("mkdir", Bucket, FALSE, {Bucket, Root}))
RmDir(c) == Begin(c, "write", Call("rmdir", Bucket, FALSE, {Bucket, Root}))

(* ----------------------------- asking for a path ------------------------- *)
(* The answer to "is the path there", and what the call does with it.        *)
Targets(c, yes) == call[c].names \cup IF yes THEN {call[c].path} ELSE {}

Found(c, yes) ==
  LET op == call[c].op IN
  /\ found' = [found EXCEPT ![c] = yes]
  /\ \/ /\ \/ op \in {"info", "exists", "ls", "find"}
           \/ op \in {"pipe_file", "mkdir"} /\ yes
           \/ op = "cp_file" /\ ~yes
           \/ op = "rm" /\ Targets(c, yes) = {}
        /\ Return(c)
     \/ /\ IF op = "cp_file" THEN yes ELSE op \in {"pipe_file", "mkdir"} /\ ~yes
        /\ Goto(c, "write") /\ UNCHANGED call
     \/ /\ op = "rm" /\ Targets(c, yes) # {}
        /\ Goto(c, "delete")
        /\ call' = [call EXCEPT ![c].paths = Targets(c, yes), ![c].todo = Targets(c, yes),
                                ![c].names = {}]

(* _ls_from_cache: an entry of the path answers; for a bucket, the list of   *)
(* buckets too, and info() believes it when the bucket is not listed.        *)
LookUp(c) ==
  LET path == call[c].path
      listed == path = Bucket /\ Root \in DOMAIN dircache
  IN
  /\ pc[c] = "cache"
  /\ \/ /\ path \in DOMAIN dircache \/ (listed /\ dircache[Root] # S3!Absent)
        /\ Found(c, TRUE)
     \/ /\ path \notin DOMAIN dircache
        /\ listed /\ dircache[Root] = S3!Absent /\ call[c].op = "info"
        /\ Found(c, FALSE)
     \/ /\ path \notin DOMAIN dircache
        /\ listed => (dircache[Root] = S3!Absent /\ call[c].op # "info")
        /\ Goto(c, "head") /\ UNCHANGED <<call, found>>
  /\ UNCHANGED <<bucketVars, cacheVars, calls, unsure>>

(* _head_object, _head_bucket, _ls_buckets: "in" and the read are two steps. *)
TestEntry(c) ==
  /\ pc[c] = "head"
  /\ Goto(c, IF call[c].path \in DOMAIN dircache /\ ~call[c].refresh THEN "read" ELSE "send")
  /\ UNCHANGED <<bucketVars, cacheVars, call, answerVars>>

ReadEntry(c) ==
  /\ pc[c] = "read"
  /\ \/ call[c].path \in DOMAIN dircache /\ Found(c, TRUE)
     \/ call[c].path \notin DOMAIN dircache /\ Return(c) /\ UNCHANGED found
  /\ UNCHANGED <<bucketVars, cacheVars, calls, unsure>>

(* Mutant: a path without an object of its own does not exist. *)
NoPrefixAsked(c) ==
  LET missing == call[c].path # Root /\ Current(call[c].path) = S3!Absent IN
  /\ pc[c] = "send"
  /\ \/ /\ ~missing /\ Goto(c, "store")
        /\ call' = [call EXCEPT ![c].got = Current(call[c].path)]
        /\ UNCHANGED found
     \/ missing /\ Found(c, FALSE)
  /\ UNCHANGED <<bucketVars, cacheVars, calls, unsure>>

HeadAnswered(c) ==
  LET path == call[c].path
      missing == path # Root /\ Current(path) = S3!Absent
  IN
  /\ pc[c] = "send"
  /\ \/ /\ ~missing /\ Goto(c, "store")
        /\ call' = [call EXCEPT ![c].got = Current(path)]
        /\ UNCHANGED found
     \/ missing /\ (path = Bucket \/ call[c].op = "ls") /\ Found(c, FALSE)
     \/ /\ missing /\ path # Bucket /\ call[c].op # "ls"
        /\ Goto(c, "prefix") /\ UNCHANGED <<call, found>>
  /\ UNCHANGED <<bucketVars, cacheVars, calls, unsure>>

StoreEntry(c) ==
  LET path == call[c].path IN
  /\ pc[c] = "store"
  /\ dircache' = [p \in DOMAIN dircache \cup {path} |->
                    IF p = path THEN call[c].got ELSE dircache[p]]
  /\ unsure' = IF call[c].got = Current(path) THEN unsure \ {path} ELSE unsure \cup {path}
  /\ Found(c, TRUE)
  /\ UNCHANGED <<bucketVars, listings, calls>>

(* No object has this name: a key below it makes it a directory.             *)
PrefixAnswered(c) ==
  /\ pc[c] = "prefix"
  /\ Found(c, S3!KeysBelow(call[c].path) # {})
  /\ UNCHANGED <<bucketVars, cacheVars, calls, unsure>>

(* -------------------------------- listings ------------------------------- *)
Delimiter(c) == IF call[c].op = "ls" THEN "/" ELSE ""

(* What follows _ls_dirs; rm() is at expand_path, which goes on to exists(). *)
ListReturns(c, names) ==
  IF names = {} /\ call[c].path # Bucket
  THEN Goto(c, IF call[c].op = "ls" THEN "head" ELSE "cache") /\ UNCHANGED call
  ELSE \/ /\ call[c].op = "rm"
          /\ Goto(c, "cache") /\ call' = [call EXCEPT ![c].names = names]
       \/ call[c].op # "rm" /\ Return(c)

ListFromCache(c) ==
  /\ pc[c] = "list"
  /\ <<call[c].path, Delimiter(c)>> \in DOMAIN listings /\ ~call[c].refresh
  /\ ListReturns(c, listings[<<call[c].path, Delimiter(c)>>])
  /\ UNCHANGED <<bucketVars, cacheVars, answerVars>>

ListMissing(c) ==
  /\ pc[c] = "list"
  /\ <<call[c].path, Delimiter(c)>> \notin DOMAIN listings \/ call[c].refresh
  /\ Goto(c, "fetch")
  /\ UNCHANGED <<bucketVars, cacheVars, call, answerVars>>

ListAnswered(c) ==
  /\ pc[c] = "fetch"
  /\ S3!Exists(Bucket)
  /\ Goto(c, "keep")
  /\ call' = [call EXCEPT ![c].names = S3!ListObjects(call[c].path, Delimiter(c))]
  /\ UNCHANGED <<bucketVars, cacheVars, answerVars>>

(* Mutant: empty listings are kept, too. *)
KeepEveryListing(c) ==
  LET key == <<call[c].path, Delimiter(c)>> IN
  /\ pc[c] = "keep"
  /\ listings' = [k \in DOMAIN listings \cup {key} |->
                    IF k = key THEN call[c].names ELSE listings[k]]
  /\ ListReturns(c, call[c].names)
  /\ UNCHANGED <<bucketVars, dircache, answerVars>>

(* Only a listing that is not empty is kept.                                 *)
KeepListing(c) ==
  LET key == <<call[c].path, Delimiter(c)>>
      names == call[c].names
  IN
  /\ pc[c] = "keep"
  /\ listings' = IF names = {} THEN listings
                 ELSE [k \in DOMAIN listings \cup {key} |->
                         IF k = key THEN names ELSE listings[k]]
  /\ ListReturns(c, names)
  /\ UNCHANGED <<bucketVars, dircache, answerVars>>

(* --------------------------- writing and deleting ------------------------ *)
Request(c) ==
  LET op == call[c].op  path == call[c].path IN
  \/ op = "rm_file" /\ S3!Delete({path})
  \/ op = "pipe_file" /\ S3!PutObject(path)
  \/ op = "cp_file" /\ \E file \in call[c].paths : S3!CopyObject(path, file)
  \/ op = "setxattr" /\ S3!CopyObject(path, path)
  \/ op = "mkdir" /\ S3!CreateBucket
  \/ op = "rmdir" /\ S3!DeleteBucket

WriteAnswered(c) ==
  /\ pc[c] = "write" /\ Request(c)
  /\ Goto(c, "invalidate")
  /\ UNCHANGED <<cacheVars, call, calls, found, unsure>>

WriteAnswerLost(c) ==
  /\ pc[c] = "write" /\ Request(c)
  /\ unsure' = unsure \cup call[c].paths
  /\ Return(c)
  /\ UNCHANGED <<cacheVars, calls, found>>

(* _delete_objects: the pool sends the keys in requests of at most ChunkSize;*)
(* a request that fails is noticed when all of them are answered.            *)
DeleteChunk(c, chunk) ==
  /\ pc[c] = "delete"
  /\ chunk \subseteq call[c].todo /\ chunk # {} /\ Cardinality(chunk) <= ChunkSize
  /\ \E sent, answered \in BOOLEAN :
       /\ answered => sent
       /\ \/ sent /\ S3!DeleteObjects(chunk)
          \/ ~sent /\ UNCHANGED bucketVars
       /\ call' = [call EXCEPT ![c].todo = @ \ chunk, ![c].failed = @ \/ ~answered]
  /\ UNCHANGED <<cacheVars, pc, calls, found, unsure>>

DeletesEnd(c) ==
  /\ pc[c] = "delete" /\ call[c].todo = {}
  /\ \/ call[c].failed /\ Return(c) /\ unsure' = unsure \cup call[c].paths
     \/ ~call[c].failed /\ Goto(c, "invalidate") /\ UNCHANGED <<call, unsure>>
  /\ UNCHANGED <<bucketVars, cacheVars, calls, found>>

(* invalidate_cache: the entries of the path and of every path above it but  *)
(* the root, and no listing; mkdir() and rmdir() drop the root's themselves. *)
Dropped(paths) ==
  {p \in DOMAIN dircache : IF p = Root THEN Root \in paths
                           ELSE \E q \in paths : IsPrefix(p, q)}

Drop(paths) ==
  /\ dircache' = [p \in DOMAIN dircache \ Dropped(paths) |-> dircache[p]]
  /\ unsure' = unsure \cap DOMAIN dircache'
  /\ UNCHANGED listings

(* Mutant: only the entry of the path the call was given is dropped. *)
InvalidateGivenPath(c) ==
  /\ pc[c] = "invalidate"
  /\ Drop({call[c].path})
  /\ Return(c)
  /\ UNCHANGED <<bucketVars, calls, found>>

Invalidate(c) ==
  /\ pc[c] = "invalidate"
  /\ Drop(call[c].paths)
  /\ Return(c)
  /\ UNCHANGED <<bucketVars, calls, found>>

(* invalidate_cache(), called by the user without a path.                    *)
InvalidateAll ==
  /\ dircache # <<>> \/ listings # <<>>
  /\ dircache' = <<>> /\ listings' = <<>> /\ unsure' = {}
  /\ UNCHANGED <<bucketVars, callVars, calls, found, seen>>

(* A request is refused, or fails before it reached S3.                      *)
RequestFails(c) ==
  /\ pc[c] \in {"send", "prefix", "fetch", "write"}
  /\ Return(c)
  /\ UNCHANGED <<bucketVars, cacheVars, answerVars>>

UserCall(c) ==
  \/ \E p \in Asked, refresh \in BOOLEAN : Info(c, p, refresh)
  \/ \E p \in Asked : AskExists(c, p)
  \/ \E p \in Listed : \/ Find(c, p)
                       \/ \E b \in BOOLEAN : Ls(c, p, b) \/ Rm(c, p, b)
  \/ \E f \in Files : \/ RmFile(c, f) \/ SetXAttr(c, f)
                      \/ \E create \in BOOLEAN : PipeFile(c, f, create)
                      \/ \E source \in Files : CpFile(c, source, f)
  \/ MkDir(c) \/ RmDir(c)

CallStep(c) ==
  /\ \/ LookUp(c) \/ TestEntry(c) \/ ReadEntry(c) \/ HeadAnswered(c) \/ StoreEntry(c)
     \/ PrefixAnswered(c) \/ ListFromCache(c) \/ ListMissing(c) \/ ListAnswered(c)
     \/ KeepListing(c) \/ WriteAnswered(c) \/ WriteAnswerLost(c)
     \/ \E chunk \in SUBSET call[c].todo : DeleteChunk(c, chunk)
     \/ DeletesEnd(c) \/ Invalidate(c) \/ RequestFails(c)
  /\ Noted

Next == \/ \E c \in Clients : UserCall(c) \/ CallStep(c)
        \/ InvalidateAll

Spec == Init /\ [][Next]_vars

(* ------------------------------- properties ------------------------------ *)
(* Paths some call has written, or is writing, and not invalidated yet.      *)
Pending == UNION {call[c].paths : c \in {d \in Clients : pc[d] \in {"delete", "invalidate"}}}

(* A write of this file system leaves no stale HEAD result behind: what the  *)
(* cache holds of a path is what S3 holds, unless a call that wrote the path *)
(* has not returned, or its answer got lost, or a HEAD that overlapped a     *)
(* write was stored after it.                                                *)
EntriesAreCurrent ==
  \A p \in DOMAIN dircache \ (Pending \cup unsure) : dircache[p] = Current(p)

(* Every call invalidates what it writes; creating or deleting the bucket,   *)
(* the list of buckets too.                                                  *)
WritesAreNamed ==
  \A c \in Clients :
    LET op == call[c].op  path == call[c].path  paths == call[c].paths IN
    /\ op \in {"rm_file", "pipe_file", "setxattr"} => path \in Files /\ path \in paths
    /\ op = "cp_file" => paths \subseteq Files
    /\ op \in {"mkdir", "rmdir"} => {Bucket, Root} \subseteq paths

(* The inductive invariant of S3FileSystemProofs.                            *)
IInv == TypeOK /\ WritesAreNamed /\ EntriesAreCurrent

(* What info() and exists() find out about a path was true at some moment of *)
(* the call.  A stale entry may show what is gone, nothing hides what exists *)
(* all along: mode="create" and truncate=False overwrite no such object.     *)
LookupsAreTrue ==
  [][\A c \in Clients :
       found'[c] # found[c] /\ found'[c] # NULL
         => \/ found'[c] \in seen[c]
            \/ found'[c] /\ call[c].path \in Pending \cup unsure
            \/ call[c].path = Bucket /\ Root \in Pending \cup unsure]_vars

(* No object has a name that is a directory, too.  Otherwise exists() may ask*)
(* for the object before it is put, and for keys below it after the last of  *)
(* them is deleted, and miss what was there all along.                       *)
FilesAreLeaves == \A f, g \in Files : ~IsStrictPrefix(f, g)

(* The inductive strengthening of LookupsAreTrue: what a call at label knows *)
(* when it has seen the presence of its path change through seenBy.          *)
Knows(vs, label, record, seenBy) ==
  /\ label # "idle" => S3!PresentIn(vs, record.path) \in seenBy
  /\ label = "store" => TRUE \in seenBy /\ (record.path # Root => record.got # S3!Absent)
  /\ label = "prefix" => /\ record.path \notin {Root, Bucket}
                         /\ record.path \in Files => FALSE \in seenBy
  /\ /\ record.path \in Dirs
     /\ \/ label = "keep" /\ record.names = {}
        \/ label \in {"cache", "head", "read", "send"} /\ record.op = "ls"
     => FALSE \in seenBy

EntriesExist == \A p \in DOMAIN dircache \ {Root} : dircache[p] # S3!Absent
LookupInv == EntriesExist /\ \A c \in Clients : Knows(versions, pc[c], call[c], seen[c])
================================================================================
