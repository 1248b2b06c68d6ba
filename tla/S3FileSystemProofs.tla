--------------------------- MODULE S3FileSystemProofs --------------------------
(* Proofs about S3FileSystem, for every value of its constants.              *)
EXTENDS S3FileSystem, TLAPS

(* ------------------------- facts about the constants --------------------- *)
(* The bucket is not one of its files, nor is the root.                      *)
LEMMA BucketIsNoFile == Bucket \notin Files /\ Root \notin Files /\ Root # Bucket
  <1>1. Bucket \notin Files
    BY PathsAssumption DEF IsStrictPrefix
  <1>2. Root # Bucket
    BY PathsAssumption DEF Root
  <1>3. Root \notin Files
    BY PathsAssumption DEF Root, IsStrictPrefix, IsPrefix
  <1> QED
    BY <1>1, <1>2, <1>3

(* A path is a sequence, and a prefix of itself.                             *)
LEMMA CachedPathIsPrefixOfItself ==
  ASSUME NEW p \in Files \cup {Bucket, Root}
  PROVE  IsPrefix(p, p)
  BY PathsAssumption DEF IsPrefix, Root

(* A strict prefix is shorter.                                               *)
LEMMA StrictPrefixIsShorter ==
  ASSUME NEW s \in Seq(STRING), NEW t \in Seq(STRING), IsStrictPrefix(s, t)
  PROVE  Len(s) < Len(t)
  <1>1. SubSeq(s, 1, Len(s)) = s /\ SubSeq(t, 1, Len(t)) = t
    OBVIOUS
  <1>2. Len(s) <= Len(t) /\ SubSeq(s, 1, Len(s)) = SubSeq(t, 1, Len(s)) /\ s # t
    BY DEF IsStrictPrefix, IsPrefix
  <1> QED
    BY <1>1, <1>2

(* Paths are sequences; those of the bucket and below have a name at least.  *)
LEMMA PathsAreSequences == \A p \in Paths : p \in Seq(STRING) /\ Len(p) >= 1
  <1>1. \A f \in Files : f \in Seq(STRING) /\ Len(f) > 1
    BY PathsAssumption, StrictPrefixIsShorter
  <1>2. \A p \in Dirs : p \in Seq(STRING) /\ Len(p) >= 1
    <2> SUFFICES ASSUME NEW f \in Files, NEW n \in 2..(Len(f) - 1)
                 PROVE  LET p == SubSeq(f, 1, n) IN p \in Seq(STRING) /\ Len(p) >= 1
      BY DEF Dirs
    <2> QED
      BY <1>1
  <1> QED
    BY <1>1, <1>2, PathsAssumption DEF Paths

(* What S3 lists below a path are files and directories.                     *)
LEMMA ListedNames ==
  ASSUME NEW path \in Listed \ {Root}, NEW d
  PROVE  S3!ListObjects(path, d) \subseteq Files \cup Dirs
  <1>1. S3!KeysBelow(path) \subseteq Files
    BY DEF S3!KeysBelow
  <1>2. ASSUME NEW f \in S3!KeysBelow(path)
        PROVE  SubSeq(f, 1, Len(path) + 1) \in Files \cup Dirs
    <2>1. path \in Seq(STRING) /\ Len(path) >= 1
      BY PathsAreSequences, CallsAssumption
    <2>2. f \in Files /\ f \in Seq(STRING) /\ Len(path) < Len(f)
      <3>1. f \in Files /\ IsStrictPrefix(path, f)
        BY DEF S3!KeysBelow, S3!IsStrictPrefix, S3!IsPrefix, IsStrictPrefix, IsPrefix
      <3> QED
        BY <2>1, <3>1, StrictPrefixIsShorter, PathsAssumption
    <2>3. CASE Len(path) + 1 = Len(f)
      <3>1. SubSeq(f, 1, Len(f)) = f
        BY <2>2
      <3> QED
        BY <2>2, <2>3, <3>1
    <2>4. CASE Len(path) + 1 < Len(f)
      <3>1. Len(path) + 1 \in 2..(Len(f) - 1)
        BY <2>1, <2>2, <2>4
      <3> QED
        BY <2>2, <3>1 DEF Dirs
    <2> QED
      BY <2>1, <2>2, <2>3, <2>4
  <1> QED
    BY <1>1, <1>2 DEF S3!ListObjects

(* ---------------------------- one call moves on -------------------------- *)
(* What TypeOK and WritesAreNamed say of one client's call.                  *)
GoodCall(label, r) ==
  /\ label \in Labels /\ r \in CallRecords
  /\ r.op = "none" <=> label = "idle"
  /\ r.todo \subseteq r.paths
  /\ label \in {"list", "fetch", "keep"} => r.path \in Listed \ {Root}
  /\ label = "store" => r.path \in Files \cup {Bucket, Root}
  /\ r.op \in {"rm_file", "pipe_file", "setxattr"} => r.path \in Files /\ r.path \in r.paths
  /\ r.op = "cp_file" => r.paths \subseteq Files
  /\ r.op \in {"mkdir", "rmdir"} => {Bucket, Root} \subseteq r.paths

(* A step of client c leaves its call a good one and no other call changed.  *)
MovesTo(c, label, r) ==
  /\ GoodCall(label, r)
  /\ pc' = [pc EXCEPT ![c] = label] /\ call' = [call EXCEPT ![c] = r]
MovesOn(c) == \E label, r : MovesTo(c, label, r)

(* Every call is a good one.                                                 *)
LEMMA CallsAreGood ==
  CallTypeOK /\ WritesAreNamed => \A c \in Clients : GoodCall(pc[c], call[c])
  BY DEF CallTypeOK, WritesAreNamed, GoodCall

(* If one good call moves on, all calls stay good.                           *)
LEMMA CallsStayGood ==
  ASSUME CallTypeOK, WritesAreNamed, NEW c \in Clients, MovesOn(c)
  PROVE  CallTypeOK' /\ WritesAreNamed'
  <1>1. PICK label, r : MovesTo(c, label, r)
    BY DEF MovesOn
  <1>2. pc' \in [Clients -> Labels] /\ call' \in [Clients -> CallRecords]
    BY <1>1 DEF MovesTo, GoodCall, CallTypeOK
  <1>3. \A d \in Clients : GoodCall(pc'[d], call'[d])
    <2> TAKE d \in Clients
    <2>1. CASE d = c
      <3>1. pc'[d] = label /\ call'[d] = r
        BY <1>1, <2>1 DEF MovesTo, CallTypeOK
      <3> QED
        BY <1>1, <3>1 DEF MovesTo
    <2>2. CASE d # c
      <3>1. pc'[d] = pc[d] /\ call'[d] = call[d]
        BY <1>1, <2>2 DEF MovesTo, CallTypeOK
      <3> QED
        BY <3>1, CallsAreGood
    <2> QED
      BY <2>1, <2>2
  <1> QED
    BY <1>2, <1>3 DEF GoodCall, CallTypeOK, WritesAreNamed

(* No call is a good one.                                                    *)
LEMMA NoCallIsGood == GoodCall("idle", NoCall)
  <1>1. NoCall = [op |-> "none", path |-> Root, refresh |-> FALSE, paths |-> {}, todo |-> {},
                  got |-> 0, names |-> {}, failed |-> FALSE]
    BY DEF NoCall, Call
  <1>2. "none" \in Ops /\ "idle" \in Labels /\ 0 \in 0..MaxWrites
        /\ {} \in SUBSET (Files \cup Dirs) /\ {} \in SUBSET (Paths \cup {Root})
    BY PathsAssumption DEF Ops, Labels
  <1>3. NoCall \in CallRecords
    BY <1>1, <1>2 DEF CallRecords
  <1> QED
    BY <1>1, <1>2, <1>3 DEF GoodCall

(* A call that ends is a good one; so is one that only changes its label, if *)
(* the label suits it.                                                       *)
LEMMA ReturnMoves ==
  ASSUME NEW c \in Clients, Return(c)
  PROVE  MovesOn(c)
  BY NoCallIsGood DEF Return, Goto, MovesOn, MovesTo

(* A call that only changes its label is a good one if the label suits it.   *)
LEMMA CallUnchanged ==
  ASSUME CallTypeOK, NEW c \in Clients, NEW label, Goto(c, label), UNCHANGED call,
         GoodCall(label, call[c])
  PROVE  MovesOn(c)
  <1>1. call' = [call EXCEPT ![c] = call[c]]
    BY DEF CallTypeOK
  <1> QED
    BY <1>1 DEF Goto, MovesOn, MovesTo

(* A path a call has written stays pending while that call does not end.     *)
LEMMA PendingStays ==
  ASSUME CallTypeOK, NEW c \in Clients, NEW label, NEW r, MovesTo(c, label, r),
         \/ pc[c] \notin {"delete", "invalidate"}
         \/ label \in {"delete", "invalidate"} /\ r.paths = call[c].paths
  PROVE  Pending \subseteq Pending'
  <1> SUFFICES ASSUME NEW d \in Clients, pc[d] \in {"delete", "invalidate"},
                      NEW p \in call[d].paths
               PROVE  p \in Pending'
    BY DEF Pending
  <1>1. pc'[d] \in {"delete", "invalidate"} /\ call'[d].paths = call[d].paths
    <2>1. CASE d = c
      BY <2>1 DEF MovesTo, CallTypeOK
    <2>2. CASE d # c
      BY <2>2 DEF MovesTo, CallTypeOK
    <2> QED
      BY <2>1, <2>2
  <1> QED
    BY <1>1 DEF Pending

(* ------------------------------- what S3 holds --------------------------- *)
(* What S3 answers of a path is a version or Absent.                         *)
LEMMA CurrentIsVersion ==
  ASSUME BucketTypeOK, NEW path
  PROVE  /\ Current(path) \in 0..MaxWrites
         /\ Current(path) # S3!Absent => path \in Files \cup {Bucket, Root}
  <1>1. 0 \in 0..MaxWrites
    BY PathsAssumption
  <1> QED
    BY <1>1 DEF Current, BucketTypeOK, S3!Absent

(* Presence is a Boolean.                                                    *)
LEMMA PresenceIsBoolean == \A vs, p : S3!PresentIn(vs, p) \in BOOLEAN
  BY DEF S3!PresentIn, S3!ExistsIn

(* A step that changes only what is pending or unsure after it, and lets     *)
(* nothing of that go, leaves the other entries current.                     *)
LEMMA EntriesStayCurrent ==
  ASSUME BucketTypeOK, BucketTypeOK', CacheTypeOK, EntriesAreCurrent, UNCHANGED dircache,
         Pending \cup unsure \subseteq Pending' \cup unsure',
         \A p \in Files \cup {Bucket} : versions'[p] # versions[p]
           => p \in Pending' \cup unsure' /\ (p = Bucket => Root \in Pending' \cup unsure')
  PROVE  EntriesAreCurrent'
  <1> SUFFICES ASSUME NEW p \in DOMAIN dircache, p \notin Pending' \cup unsure'
               PROVE  dircache[p] = Current(p)'
    BY DEF EntriesAreCurrent
  <1>1. dircache[p] = Current(p)
    BY DEF EntriesAreCurrent
  <1>2. DOMAIN versions = Files \cup {Bucket} /\ DOMAIN versions' = Files \cup {Bucket}
    BY DEF BucketTypeOK
  <1>3. CASE p = Root
    <2>1. versions'[Bucket] = versions[Bucket]
      BY <1>3
    <2> QED
      BY <1>1, <1>3, <2>1 DEF Current
  <1>4. CASE p # Root
    <2>1. p \in Files \cup {Bucket} => versions'[p] = versions[p]
      OBVIOUS
    <2> QED
      BY <1>1, <1>2, <1>4, <2>1 DEF Current, S3!Absent
  <1> QED
    BY <1>3, <1>4

(* A step of a call that asks or looks up, and neither writes nor drops.     *)
LEMMA QuietStep ==
  ASSUME IInv, NEW c \in Clients, MovesOn(c), pc[c] \notin {"delete", "invalidate"},
         UNCHANGED <<versions, writes, dircache, unsure>>, CacheTypeOK', AnswerTypeOK'
  PROVE  IInv'
  <1>1. CallTypeOK' /\ WritesAreNamed'
    BY CallsStayGood DEF IInv, TypeOK
  <1>2. Pending \subseteq Pending'
    BY PendingStays DEF IInv, TypeOK, MovesOn
  <1>3. BucketTypeOK'
    BY DEF IInv, TypeOK, BucketTypeOK
  <1>4. EntriesAreCurrent'
    BY <1>2, <1>3, EntriesStayCurrent DEF IInv, TypeOK
  <1> QED
    BY <1>1, <1>3, <1>4 DEF IInv, TypeOK

(* The history of a step of a call is of its type.                           *)
LEMMA NotedTyped ==
  ASSUME AnswerTypeOK, CallTypeOK, Noted
  PROVE  seen' \in [Clients -> SUBSET BOOLEAN]
  <1>1. \A c \in Clients : S3!PresentIn(versions', call[c].path) \in BOOLEAN
    BY PresenceIsBoolean
  <1> QED
    BY <1>1 DEF Noted, AnswerTypeOK

(* ------------------------------ calls begin ------------------------------ *)
(* A call that begins with a good record keeps the invariant.                *)
LEMMA BeginKeeps ==
  ASSUME IInv, NEW c \in Clients, NEW label, NEW new, Begin(c, label, new),
         GoodCall(label, new)
  PROVE  IInv'
  <1>1. MovesOn(c)
    BY DEF Begin, Goto, MovesOn, MovesTo
  <1>2. AnswerTypeOK'
    <2>1. calls' \in 0..MaxCalls
      BY CallsAssumption DEF Begin, IInv, TypeOK, AnswerTypeOK
    <2>2. seen' \in [Clients -> SUBSET BOOLEAN]
      <3>1. {S3!PresentIn(versions, new.path)} \in SUBSET BOOLEAN
        BY PresenceIsBoolean
      <3> QED
        BY <3>1 DEF Begin, IInv, TypeOK, AnswerTypeOK
    <2>3. found' \in [Clients -> BOOLEAN \cup {NULL}]
      BY DEF Begin, IInv, TypeOK, AnswerTypeOK
    <2>4. unsure' \subseteq Paths \cup {Root}
      BY DEF Begin, IInv, TypeOK, AnswerTypeOK
    <2> QED
      BY <2>1, <2>2, <2>3, <2>4 DEF AnswerTypeOK
  <1>3. CacheTypeOK'
    BY DEF Begin, IInv, TypeOK, CacheTypeOK, cacheVars
  <1> QED
    BY <1>1, <1>2, <1>3, QuietStep DEF Begin, bucketVars, cacheVars

(* A record made by Call is of its type, and begins a good call.             *)
LEMMA CallTyped ==
  ASSUME NEW op \in Ops, NEW path \in Paths \cup {Root}, NEW refresh \in BOOLEAN,
         NEW paths \in SUBSET (Paths \cup {Root})
  PROVE  LET r == Call(op, path, refresh, paths) IN
         /\ r \in CallRecords
         /\ r.op = op /\ r.path = path /\ r.paths = paths /\ r.todo = {}
  <1>1. 0 \in 0..MaxWrites /\ FALSE \in BOOLEAN /\ {} \in SUBSET (Files \cup Dirs)
    BY PathsAssumption
  <1>2. {} \in SUBSET (Paths \cup {Root})
    OBVIOUS
  <1> QED
    BY <1>1, <1>2 DEF Call, CallRecords

(* A call begins as a good one if its label and paths suit its operation.    *)
LEMMA CallIsGood ==
  ASSUME NEW op, NEW label, NEW path \in Paths \cup {Root}, NEW refresh \in BOOLEAN,
         NEW paths, paths \subseteq Paths \cup {Root},
         op \in Ops \ {"none"}, label \in Labels \ {"idle", "store"},
         label \in {"list", "fetch", "keep"} => path \in Listed \ {Root},
         op \in {"rm_file", "pipe_file", "setxattr"} => path \in Files /\ path \in paths,
         op = "cp_file" => paths \subseteq Files,
         op \in {"mkdir", "rmdir"} => {Bucket, Root} \subseteq paths
  PROVE  GoodCall(label, Call(op, path, refresh, paths))
  <1>1. paths \in SUBSET (Paths \cup {Root}) /\ op \in Ops
    OBVIOUS
  <1> QED
    BY <1>1, CallTyped DEF GoodCall

(* Every call of a user begins with a good record.                           *)
LEMMA UserCallKeeps ==
  ASSUME IInv, NEW c \in Clients, UserCall(c)
  PROVE  IInv'
  <1>1. Files \subseteq Paths /\ Bucket \in Paths /\ Bucket \in Paths \cup {Root}
    BY DEF Paths
  <1>2. Asked \subseteq Paths /\ Listed \subseteq Paths \cup {Root}
    BY CallsAssumption
  <1>3. ASSUME NEW p \in Asked, NEW refresh \in BOOLEAN, Info(c, p, refresh)
        PROVE  IInv'
    <2>1. GoodCall(IF refresh THEN "head" ELSE "cache", Call("info", p, refresh, {}))
      BY <1>2, CallIsGood DEF Ops, Labels
    <2> QED
      BY <1>3, <2>1, BeginKeeps DEF Info
  <1>4. ASSUME NEW p \in Asked, AskExists(c, p)
        PROVE  IInv'
    <2>1. GoodCall("cache", Call("exists", p, FALSE, {}))
      BY <1>2, CallIsGood DEF Ops, Labels
    <2> QED
      BY <1>4, <2>1, BeginKeeps DEF AskExists
  <1>5. ASSUME NEW p \in Listed, NEW b \in BOOLEAN, Ls(c, p, b)
        PROVE  IInv'
    <2>1. GoodCall(IF p = Root THEN "head" ELSE "list", Call("ls", p, b, {}))
      BY <1>2, CallIsGood DEF Ops, Labels
    <2> QED
      BY <1>5, <2>1, BeginKeeps DEF Ls
  <1>6. ASSUME NEW p \in Listed, Find(c, p)
        PROVE  IInv'
    <2>1. GoodCall("list", Call("find", p, FALSE, {}))
      BY <1>2, <1>6, CallIsGood DEF Ops, Labels, Find
    <2> QED
      BY <1>6, <2>1, BeginKeeps DEF Find
  <1>7. ASSUME NEW p \in Listed, NEW b \in BOOLEAN, Rm(c, p, b)
        PROVE  IInv'
    <2>1. CASE b
      <3>1. GoodCall("list", Call("rm", p, FALSE, {}))
        BY <1>2, <1>7, CallIsGood DEF Ops, Labels, Rm
      <3> QED
        BY <1>7, <2>1, <3>1, BeginKeeps DEF Rm
    <2>2. CASE ~b
      <3> DEFINE new == [Call("rm", p, FALSE, {p}) EXCEPT !.todo = {p}]
      <3>1. new \in CallRecords /\ new.op = "rm" /\ new.todo = new.paths
        <4>1. {p} \in SUBSET (Paths \cup {Root})
          BY <1>2
        <4>2. "rm" \in Ops /\ 0 \in 0..MaxWrites /\ {} \in SUBSET (Files \cup Dirs)
              /\ {} \in SUBSET (Paths \cup {Root})
          BY PathsAssumption DEF Ops
        <4>3. Call("rm", p, FALSE, {p}) \in CallRecords
          BY <1>2, <4>1, <4>2 DEF Call, CallRecords
        <4>4. Call("rm", p, FALSE, {p}).op = "rm" /\ Call("rm", p, FALSE, {p}).paths = {p}
          BY DEF Call
        <4> QED
          BY <4>1, <4>3, <4>4 DEF CallRecords
      <3>2. GoodCall("delete", new)
        BY <3>1 DEF GoodCall, Labels
      <3> QED
        BY <1>7, <2>2, <3>2, BeginKeeps DEF Rm
    <2> QED
      BY <2>1, <2>2
  <1>8. ASSUME NEW f \in Files, RmFile(c, f)
        PROVE  IInv'
    <2>1. GoodCall("write", Call("rm_file", f, FALSE, {f}))
      BY <1>1, CallIsGood DEF Ops, Labels
    <2> QED
      BY <1>8, <2>1, BeginKeeps DEF RmFile
  <1>9. ASSUME NEW f \in Files, SetXAttr(c, f)
        PROVE  IInv'
    <2>1. GoodCall("write", Call("setxattr", f, FALSE, {f}))
      BY <1>1, CallIsGood DEF Ops, Labels
    <2> QED
      BY <1>9, <2>1, BeginKeeps DEF SetXAttr
  <1>10. ASSUME NEW f \in Files, NEW create \in BOOLEAN, PipeFile(c, f, create)
         PROVE  IInv'
    <2>1. GoodCall(IF create THEN "cache" ELSE "write", Call("pipe_file", f, FALSE, {f}))
      BY <1>1, CallIsGood DEF Ops, Labels
    <2> QED
      BY <1>10, <2>1, BeginKeeps DEF PipeFile
  <1>11. ASSUME NEW f \in Files, NEW source \in Files, CpFile(c, source, f)
         PROVE  IInv'
    <2>1. GoodCall("cache", Call("cp_file", source, FALSE, {f}))
      BY <1>1, CallIsGood DEF Ops, Labels
    <2> QED
      BY <1>11, <2>1, BeginKeeps DEF CpFile
  <1>12. ASSUME MkDir(c)
         PROVE  IInv'
    <2>1. GoodCall("cache", Call("mkdir", Bucket, FALSE, {Bucket, Root}))
      BY <1>1, CallIsGood DEF Ops, Labels
    <2> QED
      BY <1>12, <2>1, BeginKeeps DEF MkDir
  <1>13. ASSUME RmDir(c)
         PROVE  IInv'
    <2>1. GoodCall("write", Call("rmdir", Bucket, FALSE, {Bucket, Root}))
      BY <1>1, CallIsGood DEF Ops, Labels
    <2> QED
      BY <1>13, <2>1, BeginKeeps DEF RmDir
  <1> QED
    BY <1>3, <1>4, <1>5, <1>6, <1>7, <1>8, <1>9, <1>10, <1>11, <1>12, <1>13 DEF UserCall

(* -------------------------- asking and listing --------------------------- *)
(* A call that gets the answer to its question goes on as a good call.       *)
LEMMA FoundMoves ==
  ASSUME IInv, NEW c \in Clients, pc[c] # "idle", NEW yes \in BOOLEAN, Found(c, yes)
  PROVE  MovesOn(c) /\ found' \in [Clients -> BOOLEAN \cup {NULL}]
  <1> DEFINE r == call[c]
  <1>1. GoodCall(pc[c], r) /\ r \in CallRecords
    BY CallsAreGood DEF IInv, TypeOK, GoodCall
  <1>2. found' \in [Clients -> BOOLEAN \cup {NULL}]
    BY DEF Found, IInv, TypeOK, AnswerTypeOK
  <1>3. CASE Return(c)
    BY <1>2, <1>3, ReturnMoves
  <1>4. CASE Goto(c, "write") /\ UNCHANGED call
    <2>1. GoodCall("write", r)
      BY <1>1 DEF GoodCall, Labels
    <2> QED
      BY <1>2, <1>4, <2>1, CallUnchanged DEF Goto, IInv, TypeOK
  <1>5. CASE /\ r.op = "rm" /\ Goto(c, "delete")
             /\ call' = [call EXCEPT ![c].paths = Targets(c, yes),
                                     ![c].todo = Targets(c, yes), ![c].names = {}]
    <2> DEFINE n == [r EXCEPT !.paths = Targets(c, yes), !.todo = Targets(c, yes),
                              !.names = {}]
    <2>1. Targets(c, yes) \in SUBSET (Paths \cup {Root})
      BY <1>1 DEF Targets, CallRecords, Paths
    <2>2. n \in CallRecords /\ n.op = "rm" /\ n.todo = n.paths
      BY <1>1, <1>5, <2>1 DEF CallRecords
    <2>3. GoodCall("delete", n)
      BY <2>2 DEF GoodCall, Labels
    <2>4. call' = [call EXCEPT ![c] = n]
      BY <1>5 DEF IInv, TypeOK, CallTypeOK, CallRecords
    <2> QED
      BY <1>2, <1>5, <2>3, <2>4 DEF MovesOn, MovesTo, Goto
  <1> QED
    BY <1>2, <1>3, <1>4, <1>5 DEF Found

(* Looking into the cache, asking S3 and listing keep the invariant.         *)
LEMMA LookUpKeeps ==
  ASSUME IInv, NEW c \in Clients, LookUp(c), Noted
  PROVE  IInv'
  <1>1. GoodCall(pc[c], call[c])
    BY CallsAreGood DEF IInv, TypeOK
  <1>2. MovesOn(c) /\ found' \in [Clients -> BOOLEAN \cup {NULL}]
    <2>1. CASE \E yes \in BOOLEAN : Found(c, yes)
      BY <2>1, FoundMoves DEF LookUp
    <2>2. CASE Goto(c, "head") /\ UNCHANGED <<call, found>>
      <3>1. GoodCall("head", call[c])
        BY <1>1 DEF GoodCall, Labels, LookUp
      <3> QED
        BY <2>2, <3>1, CallUnchanged DEF Goto, IInv, TypeOK, AnswerTypeOK
    <2> QED
      BY <2>1, <2>2 DEF LookUp
  <1>3. AnswerTypeOK'
    BY <1>2, NotedTyped DEF LookUp, IInv, TypeOK, AnswerTypeOK
  <1>4. CacheTypeOK'
    BY DEF LookUp, IInv, TypeOK, CacheTypeOK, cacheVars
  <1> QED
    BY <1>2, <1>3, <1>4, QuietStep DEF LookUp, bucketVars, cacheVars

(* The test for an entry changes no entry.                                   *)
LEMMA TestEntryKeeps ==
  ASSUME IInv, NEW c \in Clients, TestEntry(c), Noted
  PROVE  IInv'
  <1>1. GoodCall(pc[c], call[c])
    BY CallsAreGood DEF IInv, TypeOK
  <1> DEFINE next == IF call[c].path \in DOMAIN dircache /\ ~call[c].refresh
                     THEN "read" ELSE "send"
  <1>2. GoodCall(next, call[c])
    BY <1>1 DEF GoodCall, Labels, TestEntry
  <1>3. MovesOn(c)
    BY <1>2, CallUnchanged DEF TestEntry, IInv, TypeOK
  <1>4. AnswerTypeOK'
    BY NotedTyped DEF TestEntry, answerVars, IInv, TypeOK, AnswerTypeOK
  <1>5. CacheTypeOK'
    BY DEF TestEntry, IInv, TypeOK, CacheTypeOK, cacheVars
  <1> QED
    BY <1>3, <1>4, <1>5, QuietStep DEF TestEntry, bucketVars, cacheVars, answerVars

(* Nor does reading it, or the KeyError when it is gone.                     *)
LEMMA ReadEntryKeeps ==
  ASSUME IInv, NEW c \in Clients, ReadEntry(c), Noted
  PROVE  IInv'
  <1>1. MovesOn(c) /\ found' \in [Clients -> BOOLEAN \cup {NULL}]
    <2>1. CASE Found(c, TRUE)
      BY <2>1, FoundMoves DEF ReadEntry
    <2>2. CASE Return(c) /\ UNCHANGED found
      BY <2>2, ReturnMoves DEF IInv, TypeOK, AnswerTypeOK
    <2> QED
      BY <2>1, <2>2 DEF ReadEntry
  <1>2. AnswerTypeOK'
    BY <1>1, NotedTyped DEF ReadEntry, IInv, TypeOK, AnswerTypeOK
  <1>3. CacheTypeOK'
    BY DEF ReadEntry, IInv, TypeOK, CacheTypeOK, cacheVars
  <1> QED
    BY <1>1, <1>2, <1>3, QuietStep DEF ReadEntry, bucketVars, cacheVars

(* The answer of a HEAD is a version, for a path that may be cached.         *)
LEMMA HeadAnsweredKeeps ==
  ASSUME IInv, NEW c \in Clients, HeadAnswered(c), Noted
  PROVE  IInv'
  <1> DEFINE path == call[c].path
             missing == path # Root /\ Current(path) = S3!Absent
  <1>1. GoodCall(pc[c], call[c])
    BY CallsAreGood DEF IInv, TypeOK
  <1>2. MovesOn(c) /\ found' \in [Clients -> BOOLEAN \cup {NULL}]
    <2>1. CASE /\ ~missing /\ Goto(c, "store")
               /\ call' = [call EXCEPT ![c].got = Current(path)] /\ UNCHANGED found
      <3> DEFINE n == [call[c] EXCEPT !.got = Current(path)]
      <3>1. Current(path) \in 0..MaxWrites /\ path \in Files \cup {Bucket, Root}
        BY <2>1, CurrentIsVersion DEF IInv, TypeOK
      <3>2. GoodCall("store", n)
        BY <1>1, <3>1 DEF GoodCall, Labels, CallRecords, HeadAnswered
      <3>3. call' = [call EXCEPT ![c] = n]
        BY <2>1 DEF IInv, TypeOK, CallTypeOK
      <3> QED
        BY <2>1, <3>2, <3>3 DEF MovesOn, MovesTo, Goto, IInv, TypeOK, AnswerTypeOK
    <2>2. CASE Found(c, FALSE)
      BY <2>2, FoundMoves DEF HeadAnswered
    <2>3. CASE Goto(c, "prefix") /\ UNCHANGED <<call, found>>
      <3>1. GoodCall("prefix", call[c])
        BY <1>1 DEF GoodCall, Labels, HeadAnswered
      <3> QED
        BY <2>3, <3>1, CallUnchanged DEF IInv, TypeOK, AnswerTypeOK
    <2> QED
      BY <2>1, <2>2, <2>3 DEF HeadAnswered
  <1>3. AnswerTypeOK'
    BY <1>2, NotedTyped DEF HeadAnswered, IInv, TypeOK, AnswerTypeOK
  <1>4. CacheTypeOK'
    BY DEF HeadAnswered, IInv, TypeOK, CacheTypeOK, cacheVars
  <1>5. pc[c] = "send" /\ UNCHANGED <<versions, writes, dircache, unsure>>
    BY DEF HeadAnswered, bucketVars, cacheVars
  <1> QED
    BY <1>2, <1>3, <1>4, <1>5, QuietStep

(* The search for keys below a path changes no entry.                        *)
LEMMA PrefixAnsweredKeeps ==
  ASSUME IInv, NEW c \in Clients, PrefixAnswered(c), Noted
  PROVE  IInv'
  <1>1. MovesOn(c) /\ found' \in [Clients -> BOOLEAN \cup {NULL}]
    <2>1. (S3!KeysBelow(call[c].path) # {}) \in BOOLEAN
      OBVIOUS
    <2> QED
      BY <2>1, FoundMoves DEF PrefixAnswered
  <1>2. AnswerTypeOK'
    BY <1>1, NotedTyped DEF PrefixAnswered, IInv, TypeOK, AnswerTypeOK
  <1>3. CacheTypeOK'
    BY DEF PrefixAnswered, IInv, TypeOK, CacheTypeOK, cacheVars
  <1> QED
    BY <1>1, <1>2, <1>3, QuietStep DEF PrefixAnswered, bucketVars, cacheVars

(* A request that fails ends its call, which wrote nothing.                  *)
LEMMA RequestFailsKeeps ==
  ASSUME IInv, NEW c \in Clients, RequestFails(c), Noted
  PROVE  IInv'
  <1>1. MovesOn(c)
    BY ReturnMoves DEF RequestFails
  <1>2. AnswerTypeOK'
    BY NotedTyped DEF RequestFails, answerVars, IInv, TypeOK, AnswerTypeOK
  <1>3. CacheTypeOK'
    BY DEF RequestFails, IInv, TypeOK, CacheTypeOK, cacheVars
  <1> QED
    BY <1>1, <1>2, <1>3, QuietStep DEF RequestFails, bucketVars, cacheVars, answerVars

(* What follows a listing is a good call.                                    *)
LEMMA ListReturnsMoves ==
  ASSUME IInv, NEW c \in Clients, pc[c] # "idle", NEW names \in SUBSET (Files \cup Dirs),
         ListReturns(c, names)
  PROVE  MovesOn(c)
  <1>1. GoodCall(pc[c], call[c])
    BY CallsAreGood DEF IInv, TypeOK
  <1>2. CASE Goto(c, IF call[c].op = "ls" THEN "head" ELSE "cache") /\ UNCHANGED call
    <2>1. GoodCall(IF call[c].op = "ls" THEN "head" ELSE "cache", call[c])
      BY <1>1 DEF GoodCall, Labels
    <2> QED
      BY <1>2, <2>1, CallUnchanged DEF IInv, TypeOK
  <1>3. CASE /\ call[c].op = "rm"
             /\ Goto(c, "cache") /\ call' = [call EXCEPT ![c].names = names]
    <2> DEFINE n == [call[c] EXCEPT !.names = names]
    <2>1. GoodCall("cache", n)
      BY <1>1 DEF GoodCall, Labels, CallRecords
    <2>2. call' = [call EXCEPT ![c] = n]
      BY <1>3 DEF IInv, TypeOK, CallTypeOK
    <2> QED
      BY <1>3, <2>1, <2>2 DEF MovesOn, MovesTo, Goto
  <1>4. CASE Return(c)
    BY <1>4, ReturnMoves
  <1> QED
    BY <1>2, <1>3, <1>4 DEF ListReturns

(* A listing from the cache holds files and directories.                     *)
LEMMA ListFromCacheKeeps ==
  ASSUME IInv, NEW c \in Clients, ListFromCache(c), Noted
  PROVE  IInv'
  <1>1. MovesOn(c)
    <2>1. listings[<<call[c].path, Delimiter(c)>>] \in SUBSET (Files \cup Dirs)
      BY DEF ListFromCache, IInv, TypeOK, CacheTypeOK
    <2> QED
      BY <2>1, ListReturnsMoves DEF ListFromCache
  <1>2. AnswerTypeOK'
    BY NotedTyped DEF ListFromCache, answerVars, IInv, TypeOK, AnswerTypeOK
  <1>3. CacheTypeOK'
    BY DEF ListFromCache, IInv, TypeOK, CacheTypeOK, cacheVars
  <1> QED
    BY <1>1, <1>2, <1>3, QuietStep DEF ListFromCache, bucketVars, cacheVars, answerVars

(* A listing that has to be fetched changes no entry.                        *)
LEMMA ListMissingKeeps ==
  ASSUME IInv, NEW c \in Clients, ListMissing(c), Noted
  PROVE  IInv'
  <1>1. MovesOn(c)
    <2>1. GoodCall("fetch", call[c])
      BY CallsAreGood DEF IInv, TypeOK, GoodCall, Labels, ListMissing
    <2> QED
      BY <2>1, CallUnchanged DEF ListMissing, IInv, TypeOK
  <1>2. AnswerTypeOK'
    BY NotedTyped DEF ListMissing, answerVars, IInv, TypeOK, AnswerTypeOK
  <1>3. CacheTypeOK'
    BY DEF ListMissing, IInv, TypeOK, CacheTypeOK, cacheVars
  <1> QED
    BY <1>1, <1>2, <1>3, QuietStep DEF ListMissing, bucketVars, cacheVars, answerVars

(* S3 answers a listing with files and directories.                          *)
LEMMA ListAnsweredKeeps ==
  ASSUME IInv, NEW c \in Clients, ListAnswered(c), Noted
  PROVE  IInv'
  <1> DEFINE names == S3!ListObjects(call[c].path, Delimiter(c))
             n == [call[c] EXCEPT !.names = names]
  <1>1. GoodCall("fetch", call[c])
    BY CallsAreGood DEF IInv, TypeOK, ListAnswered
  <1>2. names \in SUBSET (Files \cup Dirs)
    BY <1>1, ListedNames DEF GoodCall
  <1>3. GoodCall("keep", n)
    BY <1>1, <1>2 DEF GoodCall, Labels, CallRecords
  <1>4. call' = [call EXCEPT ![c] = n]
    BY DEF ListAnswered, IInv, TypeOK, CallTypeOK
  <1>5. MovesOn(c)
    BY <1>3, <1>4 DEF ListAnswered, Goto, MovesOn, MovesTo
  <1>6. AnswerTypeOK'
    BY NotedTyped DEF ListAnswered, answerVars, IInv, TypeOK, AnswerTypeOK
  <1>7. CacheTypeOK'
    BY DEF ListAnswered, IInv, TypeOK, CacheTypeOK, cacheVars
  <1> QED
    BY <1>5, <1>6, <1>7, QuietStep DEF ListAnswered, bucketVars, cacheVars, answerVars

(* What is kept of it is not empty.                                          *)
LEMMA KeepListingKeeps ==
  ASSUME IInv, NEW c \in Clients, KeepListing(c), Noted
  PROVE  IInv'
  <1> DEFINE key == <<call[c].path, Delimiter(c)>>
             names == call[c].names
  <1>1. GoodCall("keep", call[c])
    BY CallsAreGood DEF IInv, TypeOK, KeepListing
  <1>2. names \in SUBSET (Files \cup Dirs) /\ key \in (Listed \ {Root}) \X {"/", ""}
    BY <1>1 DEF GoodCall, CallRecords, Delimiter
  <1>3. MovesOn(c)
    BY <1>2, ListReturnsMoves DEF KeepListing
  <1>4. AnswerTypeOK'
    BY NotedTyped DEF KeepListing, answerVars, IInv, TypeOK, AnswerTypeOK
  <1>5. CacheTypeOK'
    <2>1. CASE names = {}
      BY <2>1 DEF KeepListing, IInv, TypeOK, CacheTypeOK
    <2>2. CASE names # {}
      <3>1. listings' = [k \in DOMAIN listings \cup {key} |->
                           IF k = key THEN names ELSE listings[k]]
        BY <2>2 DEF KeepListing
      <3>2. ASSUME NEW k \in DOMAIN listings'
            PROVE  listings'[k] \in (SUBSET (Files \cup Dirs)) \ {{}}
        <4>1. CASE k = key
          <5>1. listings'[k] = names
            BY <3>1, <4>1
          <5>2. names \in (SUBSET (Files \cup Dirs)) \ {{}}
            BY <1>2, <2>2
          <5> QED
            BY <5>1, <5>2
        <4>2. CASE k # key
          <5>1. k \in DOMAIN listings /\ listings'[k] = listings[k]
            BY <3>1, <4>2
          <5> QED
            BY <5>1 DEF IInv, TypeOK, CacheTypeOK
        <4> QED
          BY <4>1, <4>2
      <3>3. DOMAIN listings' \subseteq (Listed \ {Root}) \X {"/", ""}
        BY <1>2, <3>1 DEF IInv, TypeOK, CacheTypeOK
      <3> QED
        BY <3>2, <3>3 DEF KeepListing, IInv, TypeOK, CacheTypeOK
    <2> QED
      BY <2>1, <2>2
  <1> QED
    BY <1>3, <1>4, <1>5, QuietStep DEF KeepListing, bucketVars, answerVars

(* A HEAD result that is stored is current, or its path is unsure.           *)
LEMMA StoreEntryKeeps ==
  ASSUME IInv, NEW c \in Clients, StoreEntry(c), Noted
  PROVE  IInv'
  <1> DEFINE path == call[c].path
  <1>1. GoodCall("store", call[c])
    BY CallsAreGood DEF IInv, TypeOK, StoreEntry
  <1>2. path \in Files \cup {Bucket, Root} /\ call[c].got \in 0..MaxWrites
    BY <1>1 DEF GoodCall, CallRecords
  <1>3. MovesOn(c) /\ found' \in [Clients -> BOOLEAN \cup {NULL}]
    BY FoundMoves DEF StoreEntry
  <1>4. CallTypeOK' /\ WritesAreNamed'
    BY <1>3, CallsStayGood DEF IInv, TypeOK
  <1>5. Pending \subseteq Pending'
    BY <1>3, PendingStays DEF IInv, TypeOK, MovesOn, StoreEntry
  <1>6. AnswerTypeOK'
    <2>1. unsure' \subseteq Paths \cup {Root}
      BY <1>2 DEF StoreEntry, IInv, TypeOK, AnswerTypeOK, Paths
    <2> QED
      BY <1>3, <2>1, NotedTyped DEF StoreEntry, IInv, TypeOK, AnswerTypeOK
  <1>7. /\ DOMAIN dircache' = DOMAIN dircache \cup {path}
        /\ dircache'[path] = call[c].got
        /\ \A p \in DOMAIN dircache : p # path => dircache'[p] = dircache[p]
    BY DEF StoreEntry
  <1>8. CacheTypeOK'
    <2>1. \A p \in DOMAIN dircache' : dircache'[p] \in 0..MaxWrites
      BY <1>2, <1>7 DEF IInv, TypeOK, CacheTypeOK
    <2> QED
      BY <1>2, <1>7, <2>1 DEF StoreEntry, IInv, TypeOK, CacheTypeOK
  <1>9. BucketTypeOK' /\ \A p : Current(p)' = Current(p)
    BY DEF StoreEntry, bucketVars, IInv, TypeOK, BucketTypeOK, Current
  <1>10. EntriesAreCurrent'
    <2> SUFFICES ASSUME NEW p \in DOMAIN dircache', p \notin Pending' \cup unsure'
                 PROVE  dircache'[p] = Current(p)'
      BY DEF EntriesAreCurrent
    <2>1. CASE p = path
      BY <1>7, <1>9, <2>1 DEF StoreEntry
    <2>2. CASE p # path
      <3>1. p \in DOMAIN dircache \ (Pending \cup unsure)
        BY <1>5, <1>7, <2>2 DEF StoreEntry
      <3> QED
        BY <1>7, <1>9, <2>2, <3>1 DEF EntriesAreCurrent, IInv
    <2> QED
      BY <2>1, <2>2
  <1> QED
    BY <1>4, <1>6, <1>8, <1>9, <1>10 DEF IInv, TypeOK

(* --------------------------- writing and deleting ------------------------ *)
(* A request changes only what its call writes, and names the list of        *)
(* buckets among it if it changes the bucket.                                *)
LEMMA RequestChanges ==
  ASSUME IInv, NEW c \in Clients, pc[c] = "write", Request(c)
  PROVE  /\ BucketTypeOK'
         /\ \A p \in Files \cup {Bucket} : versions'[p] # versions[p]
              => p \in call[c].paths /\ (p = Bucket => Root \in call[c].paths)
  <1> DEFINE path == call[c].path  paths == call[c].paths  op == call[c].op
  <1>1. GoodCall("write", call[c])
    BY CallsAreGood DEF IInv, TypeOK
  <1>2. ASSUME NEW p \in Files \cup {Bucket}, S3!Put(p),
               p \in paths, p = Bucket => Root \in paths
        PROVE  /\ BucketTypeOK'
               /\ \A q \in Files \cup {Bucket} : versions'[q] # versions[q]
                    => q \in paths /\ (q = Bucket => Root \in paths)
    <2>1. writes + 1 \in 0..MaxWrites /\ writes + 1 \in 1..MaxWrites
      BY <1>2, PathsAssumption DEF S3!Put, IInv, TypeOK, BucketTypeOK
    <2> QED
      BY <1>2, <2>1 DEF S3!Put, IInv, TypeOK, BucketTypeOK
  <1>3. ASSUME NEW ps, S3!Delete(ps), ps \cap (Files \cup {Bucket}) \subseteq paths,
               Bucket \in ps => Root \in paths
        PROVE  /\ BucketTypeOK'
               /\ \A q \in Files \cup {Bucket} : versions'[q] # versions[q]
                    => q \in paths /\ (q = Bucket => Root \in paths)
    <2>1. 0 \in 0..MaxWrites
      BY PathsAssumption
    <2> QED
      BY <1>3, <2>1 DEF S3!Delete, S3!Absent, IInv, TypeOK, BucketTypeOK
  <1>4. CASE op = "rm_file" /\ S3!Delete({path})
    <2>1. path \in Files /\ path \in paths /\ path # Bucket
      BY <1>1, <1>4, BucketIsNoFile DEF GoodCall
    <2> QED
      BY <1>3, <1>4, <2>1
  <1>5. CASE op \in {"pipe_file", "setxattr"} /\ S3!PutObject(path)
    <2>1. path \in Files /\ path \in paths /\ path # Bucket
      BY <1>1, <1>5, BucketIsNoFile DEF GoodCall
    <2> QED
      BY <1>2, <1>5, <2>1 DEF S3!PutObject
  <1>6. CASE op = "cp_file" /\ \E file \in paths : S3!PutObject(file)
    <2>1. PICK file \in paths : S3!PutObject(file)
      BY <1>6
    <2>2. file \in Files /\ file # Bucket
      BY <2>1, BucketIsNoFile DEF S3!PutObject
    <2> QED
      BY <1>2, <2>1, <2>2 DEF S3!PutObject
  <1>7. CASE op = "mkdir" /\ S3!CreateBucket
    BY <1>1, <1>2, <1>7 DEF S3!CreateBucket, GoodCall
  <1>8. CASE op = "rmdir" /\ S3!DeleteBucket
    BY <1>1, <1>3, <1>8 DEF S3!DeleteBucket, GoodCall
  <1> QED
    BY <1>4, <1>5, <1>6, <1>7, <1>8 DEF Request, S3!CopyObject

(* What a request has changed is pending until its call invalidates it.      *)
LEMMA WriteAnsweredKeeps ==
  ASSUME IInv, NEW c \in Clients, WriteAnswered(c), Noted
  PROVE  IInv'
  <1>1. GoodCall("invalidate", call[c])
    BY CallsAreGood DEF IInv, TypeOK, GoodCall, Labels, WriteAnswered
  <1>2. MovesTo(c, "invalidate", call[c])
    BY <1>1 DEF WriteAnswered, Goto, MovesTo, IInv, TypeOK, CallTypeOK
  <1>3. CallTypeOK' /\ WritesAreNamed'
    BY <1>2, CallsStayGood DEF IInv, TypeOK, MovesOn
  <1>4. AnswerTypeOK'
    BY NotedTyped DEF WriteAnswered, IInv, TypeOK, AnswerTypeOK
  <1>5. CacheTypeOK'
    BY DEF WriteAnswered, cacheVars, IInv, TypeOK, CacheTypeOK
  <1>6. Pending \subseteq Pending' /\ call[c].paths \subseteq Pending'
    <2>1. Pending \subseteq Pending'
      BY <1>2, PendingStays DEF WriteAnswered, IInv, TypeOK
    <2>2. pc'[c] = "invalidate" /\ call'[c] = call[c]
      BY <1>2 DEF MovesTo, IInv, TypeOK, CallTypeOK
    <2> QED
      BY <2>1, <2>2 DEF Pending
  <1>7. /\ BucketTypeOK'
        /\ \A p \in Files \cup {Bucket} : versions'[p] # versions[p]
             => p \in call[c].paths /\ (p = Bucket => Root \in call[c].paths)
    BY RequestChanges DEF WriteAnswered
  <1>8. EntriesAreCurrent'
    BY <1>6, <1>7, EntriesStayCurrent DEF WriteAnswered, cacheVars, IInv, TypeOK
  <1> QED
    BY <1>3, <1>4, <1>5, <1>7, <1>8 DEF IInv, TypeOK

(* What a request whose answer is lost has changed is unsure.                *)
LEMMA WriteAnswerLostKeeps ==
  ASSUME IInv, NEW c \in Clients, WriteAnswerLost(c), Noted
  PROVE  IInv'
  <1>1. MovesOn(c)
    BY ReturnMoves DEF WriteAnswerLost
  <1>2. CallTypeOK' /\ WritesAreNamed'
    BY <1>1, CallsStayGood DEF IInv, TypeOK
  <1>3. Pending \subseteq Pending'
    BY <1>1, PendingStays DEF WriteAnswerLost, IInv, TypeOK, MovesOn
  <1>4. AnswerTypeOK'
    <2>1. call[c].paths \subseteq Paths \cup {Root}
      BY CallsAreGood DEF IInv, TypeOK, GoodCall, CallRecords
    <2> QED
      BY <2>1, NotedTyped DEF WriteAnswerLost, IInv, TypeOK, AnswerTypeOK
  <1>5. CacheTypeOK'
    BY DEF WriteAnswerLost, cacheVars, IInv, TypeOK, CacheTypeOK
  <1>6. /\ BucketTypeOK'
        /\ \A p \in Files \cup {Bucket} : versions'[p] # versions[p]
             => p \in call[c].paths /\ (p = Bucket => Root \in call[c].paths)
    BY RequestChanges DEF WriteAnswerLost
  <1>7. EntriesAreCurrent'
    BY <1>3, <1>6, EntriesStayCurrent DEF WriteAnswerLost, cacheVars, IInv, TypeOK
  <1> QED
    BY <1>2, <1>4, <1>5, <1>6, <1>7 DEF IInv, TypeOK

(* A chunk of a bulk delete changes only keys its call has yet to drop.      *)
LEMMA DeleteChunkKeeps ==
  ASSUME IInv, NEW c \in Clients, NEW chunk, DeleteChunk(c, chunk), Noted
  PROVE  IInv'
  <1>1. GoodCall("delete", call[c])
    BY CallsAreGood DEF IInv, TypeOK, DeleteChunk
  <1>2. PICK sent \in BOOLEAN, answered \in BOOLEAN :
          /\ \/ sent /\ S3!DeleteObjects(chunk)
             \/ ~sent /\ UNCHANGED bucketVars
          /\ call' = [call EXCEPT ![c].todo = @ \ chunk, ![c].failed = @ \/ ~answered]
    BY DEF DeleteChunk
  <1> DEFINE n == [call[c] EXCEPT !.todo = @ \ chunk, !.failed = @ \/ ~answered]
  <1>3. n \in CallRecords
    <2>1. (call[c].failed \/ ~answered) \in BOOLEAN
      OBVIOUS
    <2>2. call[c].todo \ chunk \in SUBSET (Paths \cup {Root})
      BY <1>1 DEF GoodCall, CallRecords
    <2>3. call[c] \in CallRecords
      BY <1>1 DEF GoodCall
    <2> QED
      BY <2>1, <2>2, <2>3 DEF CallRecords
  <1>4. n.paths = call[c].paths /\ n.op = call[c].op /\ n.path = call[c].path
        /\ n.todo = call[c].todo \ chunk
    BY <1>1 DEF GoodCall, CallRecords
  <1>5. GoodCall("delete", n)
    BY <1>1, <1>3, <1>4 DEF GoodCall
  <1>6. MovesTo(c, "delete", n)
    <2>1. call' = [call EXCEPT ![c] = n]
      BY <1>2 DEF IInv, TypeOK, CallTypeOK
    <2>2. pc' = [pc EXCEPT ![c] = "delete"]
      BY DEF DeleteChunk, IInv, TypeOK, CallTypeOK
    <2> QED
      BY <1>5, <2>1, <2>2 DEF MovesTo
  <1>7. CallTypeOK' /\ WritesAreNamed'
    BY <1>6, CallsStayGood DEF IInv, TypeOK, MovesOn
  <1>8. Pending \subseteq Pending' /\ call[c].paths \subseteq Pending'
    <2>1. Pending \subseteq Pending'
      BY <1>4, <1>6, PendingStays DEF IInv, TypeOK
    <2>2. call[c].paths \subseteq Pending
      BY DEF Pending, DeleteChunk
    <2> QED
      BY <2>1, <2>2
  <1>9. BucketTypeOK' /\ \A p \in Files \cup {Bucket} :
          versions'[p] # versions[p] => p \in Files /\ p \in call[c].paths
    <2>1. 0 \in 0..MaxWrites
      BY PathsAssumption
    <2>2. chunk \subseteq call[c].paths
      BY <1>1 DEF GoodCall, DeleteChunk
    <2>3. CASE S3!DeleteObjects(chunk)
      <3>1. PICK refused \in SUBSET Protected : S3!Delete((chunk \cap Files) \ refused)
        BY <2>3 DEF S3!DeleteObjects
      <3> QED
        BY <2>1, <2>2, <3>1 DEF S3!Delete, S3!Absent, IInv, TypeOK, BucketTypeOK
    <2>4. CASE UNCHANGED bucketVars
      BY <2>4 DEF bucketVars, IInv, TypeOK, BucketTypeOK
    <2> QED
      BY <1>2, <2>3, <2>4
  <1>10. AnswerTypeOK'
    BY NotedTyped DEF DeleteChunk, IInv, TypeOK, AnswerTypeOK
  <1>11. CacheTypeOK'
    BY DEF DeleteChunk, cacheVars, IInv, TypeOK, CacheTypeOK
  <1>12. EntriesAreCurrent'
    BY <1>8, <1>9, BucketIsNoFile, EntriesStayCurrent
       DEF DeleteChunk, cacheVars, IInv, TypeOK
  <1> QED
    BY <1>7, <1>9, <1>10, <1>11, <1>12 DEF IInv, TypeOK

(* A bulk delete that failed leaves what it may have deleted unsure.         *)
LEMMA DeletesEndKeeps ==
  ASSUME IInv, NEW c \in Clients, DeletesEnd(c), Noted
  PROVE  IInv'
  <1>1. GoodCall("delete", call[c])
    BY CallsAreGood DEF IInv, TypeOK, DeletesEnd
  <1>2. MovesOn(c) /\ Pending \cup unsure \subseteq Pending' \cup unsure'
    <2>1. CASE Return(c) /\ unsure' = unsure \cup call[c].paths
      <3>1. MovesOn(c)
        BY <2>1, ReturnMoves
      <3>2. \A d \in Clients : d # c => pc'[d] = pc[d] /\ call'[d] = call[d]
        BY <2>1 DEF Return, Goto, IInv, TypeOK, CallTypeOK
      <3> QED
        BY <2>1, <3>1, <3>2 DEF Pending
    <2>2. CASE Goto(c, "invalidate") /\ UNCHANGED <<call, unsure>>
      <3>1. GoodCall("invalidate", call[c])
        BY <1>1 DEF GoodCall, Labels
      <3>2. MovesTo(c, "invalidate", call[c])
        BY <2>2, <3>1 DEF Goto, MovesTo, IInv, TypeOK, CallTypeOK
      <3>3. Pending \subseteq Pending'
        BY <3>2, PendingStays DEF IInv, TypeOK
      <3> QED
        BY <2>2, <3>2, <3>3 DEF MovesOn
    <2> QED
      BY <2>1, <2>2 DEF DeletesEnd
  <1>3. CallTypeOK' /\ WritesAreNamed'
    BY <1>2, CallsStayGood DEF IInv, TypeOK
  <1>4. AnswerTypeOK'
    <2>1. call[c].paths \subseteq Paths \cup {Root}
      BY <1>1 DEF GoodCall, CallRecords
    <2> QED
      BY <2>1, NotedTyped DEF DeletesEnd, IInv, TypeOK, AnswerTypeOK
  <1>5. CacheTypeOK' /\ BucketTypeOK'
    BY DEF DeletesEnd, cacheVars, bucketVars, IInv, TypeOK, CacheTypeOK, BucketTypeOK
  <1>6. EntriesAreCurrent'
    BY <1>2, <1>5, EntriesStayCurrent DEF DeletesEnd, cacheVars, bucketVars, IInv, TypeOK
  <1> QED
    BY <1>3, <1>4, <1>5, <1>6 DEF IInv, TypeOK

(* A call drops the entries of all it has written before it ends.            *)
LEMMA InvalidateKeeps ==
  ASSUME IInv, NEW c \in Clients, Invalidate(c), Noted
  PROVE  IInv'
  <1> DEFINE paths == call[c].paths
  <1>1. CallTypeOK' /\ WritesAreNamed'
    BY ReturnMoves, CallsStayGood DEF Invalidate, IInv, TypeOK
  <1>2. /\ DOMAIN dircache' = DOMAIN dircache \ Dropped(paths)
        /\ \A p \in DOMAIN dircache' : dircache'[p] = dircache[p]
    BY DEF Invalidate, Drop
  <1>3. CacheTypeOK' /\ BucketTypeOK'
    BY <1>2 DEF Invalidate, Drop, bucketVars, IInv, TypeOK, CacheTypeOK, BucketTypeOK
  <1>4. AnswerTypeOK'
    BY NotedTyped DEF Invalidate, Drop, IInv, TypeOK, AnswerTypeOK
  <1>5. \A p \in DOMAIN dircache : p \in paths => p \in Dropped(paths)
    BY CachedPathIsPrefixOfItself DEF Dropped, IInv, TypeOK, CacheTypeOK
  <1>6. EntriesAreCurrent'
    <2> SUFFICES ASSUME NEW p \in DOMAIN dircache', p \notin Pending' \cup unsure'
                 PROVE  dircache'[p] = Current(p)'
      BY DEF EntriesAreCurrent
    <2>1. p \in DOMAIN dircache /\ p \notin unsure /\ p \notin paths
      BY <1>2, <1>5 DEF Invalidate, Drop
    <2>2. \A d \in Clients : d # c => pc'[d] = pc[d] /\ call'[d] = call[d]
      BY DEF Invalidate, Return, Goto, IInv, TypeOK, CallTypeOK
    <2>3. p \notin Pending
      BY <2>1, <2>2 DEF Pending
    <2>4. Current(p)' = Current(p)
      BY DEF Invalidate, bucketVars, Current
    <2> QED
      BY <1>2, <2>1, <2>3, <2>4 DEF EntriesAreCurrent, IInv
  <1> QED
    BY <1>1, <1>3, <1>4, <1>6 DEF IInv, TypeOK

(* An empty cache is current.                                                *)
LEMMA InvalidateAllKeeps ==
  ASSUME IInv, InvalidateAll
  PROVE  IInv'
  <1>1. DOMAIN dircache' = {} /\ DOMAIN listings' = {}
    BY DEF InvalidateAll
  <1>2. CacheTypeOK' /\ EntriesAreCurrent'
    BY <1>1 DEF CacheTypeOK, EntriesAreCurrent
  <1>3. BucketTypeOK' /\ CallTypeOK' /\ AnswerTypeOK' /\ WritesAreNamed'
    BY DEF InvalidateAll, bucketVars, callVars, IInv, TypeOK, BucketTypeOK, CallTypeOK,
           AnswerTypeOK, WritesAreNamed
  <1> QED
    BY <1>2, <1>3 DEF IInv, TypeOK

(* -------------------------------- theorems ------------------------------- *)
(* The invariant holds initially.                                            *)
LEMMA InitGood ==
  ASSUME Init
  PROVE  IInv
  <1>1. BucketTypeOK
    <2>1. 0 \in 0..MaxWrites /\ 1 \in 0..MaxWrites /\ 1 \in 1..MaxWrites
      BY PathsAssumption
    <2> QED
      BY <2>1 DEF Init, S3!BucketInit, S3!Absent, BucketTypeOK
  <1>2. DOMAIN dircache = {} /\ DOMAIN listings = {}
    BY DEF Init
  <1>3. CacheTypeOK /\ EntriesAreCurrent
    BY <1>2 DEF CacheTypeOK, EntriesAreCurrent
  <1>4. CallTypeOK /\ WritesAreNamed
    <2>1. \A c \in Clients : GoodCall("idle", NoCall)
      BY NoCallIsGood
    <2> QED
      BY <2>1 DEF Init, GoodCall, CallTypeOK, WritesAreNamed
  <1>5. AnswerTypeOK
    BY CallsAssumption DEF Init, AnswerTypeOK
  <1> QED
    BY <1>1, <1>3, <1>4, <1>5 DEF IInv, TypeOK

(* Every step keeps the invariant.                                           *)
LEMMA NextKeeps ==
  ASSUME IInv, [Next]_vars
  PROVE  IInv'
  <1>1. CASE UNCHANGED vars
    <2>1. UNCHANGED <<versions, writes, dircache, listings, pc, call, calls, seen, found, unsure>>
      BY <1>1 DEF vars, bucketVars, cacheVars, callVars, answerVars
    <2>2. TypeOK'
      BY <2>1 DEF IInv, TypeOK, BucketTypeOK, CacheTypeOK, CallTypeOK, AnswerTypeOK
    <2>3. WritesAreNamed'
      BY <2>1 DEF IInv, WritesAreNamed
    <2>4. EntriesAreCurrent'
      BY <2>1 DEF IInv, EntriesAreCurrent, Pending, Current
    <2> QED
      BY <2>2, <2>3, <2>4 DEF IInv
  <1>2. ASSUME NEW c \in Clients, UserCall(c)
        PROVE  IInv'
    BY <1>2, UserCallKeeps
  <1>3. ASSUME NEW c \in Clients, CallStep(c)
        PROVE  IInv'
    BY <1>3, LookUpKeeps, TestEntryKeeps, ReadEntryKeeps, HeadAnsweredKeeps, StoreEntryKeeps,
       PrefixAnsweredKeeps, ListFromCacheKeeps, ListMissingKeeps, ListAnsweredKeeps,
       KeepListingKeeps, WriteAnsweredKeeps, WriteAnswerLostKeeps, DeleteChunkKeeps,
       DeletesEndKeeps, InvalidateKeeps, RequestFailsKeeps DEF CallStep
  <1>4. CASE InvalidateAll
    BY <1>4, InvalidateAllKeeps
  <1> QED
    BY <1>1, <1>2, <1>3, <1>4 DEF Next

(* The type invariant, the naming of what a call writes and the currency of  *)
(* the cache are inductive together.                                         *)
THEOREM Invariance == Spec => []IInv
  <1>1. Init => IInv
    BY InitGood
  <1>2. IInv /\ [Next]_vars => IInv'
    BY NextKeeps
  <1> QED
    BY <1>1, <1>2, PTL DEF Spec

(* However many threads share the file system, a HEAD result it holds is     *)
(* what S3 holds, unless a call that wrote the path has not returned, lost   *)
(* its answer, or was overtaken by a HEAD.                                   *)
THEOREM CacheIsCurrent == Spec => []EntriesAreCurrent
  <1>1. IInv => EntriesAreCurrent
    BY DEF IInv
  <1> QED
    BY <1>1, Invariance, PTL

(* ----------------------------- what lookups find ------------------------- *)
(* A directory is below the bucket and, if files are leaves, none of them.   *)
LEMMA DirsAreNoFiles ==
  ASSUME FilesAreLeaves, NEW d \in Dirs
  PROVE  d # Root /\ d # Bucket /\ d \notin Files
  <1>0. PICK f \in Files : d \in {SubSeq(f, 1, n) : n \in 2..(Len(f) - 1)}
    BY DEF Dirs
  <1>1. PICK n \in 2..(Len(f) - 1) : d = SubSeq(f, 1, n)
    BY <1>0
  <1>2. f \in Seq(STRING)
    BY PathsAssumption
  <1>3. Len(d) = n /\ d \in Seq(STRING) /\ n < Len(f) /\ n >= 2
    BY <1>1, <1>2
  <1>4. SubSeq(d, 1, Len(d)) = d
    BY <1>3
  <1>5. IsStrictPrefix(d, f)
    <2>1. SubSeq(d, 1, Len(d)) = SubSeq(f, 1, Len(d))
      BY <1>1, <1>3, <1>4
    <2>2. Len(d) <= Len(f) /\ d # f
      BY <1>2, <1>3
    <2> QED
      BY <2>1, <2>2 DEF IsStrictPrefix, IsPrefix
  <1>6. d \notin Files
    BY <1>5 DEF FilesAreLeaves
  <1>7. Len(d) # 0 /\ Len(d) # 1
    BY <1>2, <1>3
  <1>8. d # Root /\ d # Bucket
    <2>1. Len(Root) = 0 /\ Len(Bucket) = 1
      BY PathsAssumption DEF Root
    <2> HIDE DEF Root
    <2> QED
      BY <1>7, <2>1, Zenon
  <1> QED
    BY <1>6, <1>8

(* What S3 says of a path that is no prefix tells whether it is present.     *)
LEMMA RootIsPresent == \A vs : S3!PresentIn(vs, Root) = TRUE
  BY DEF S3!PresentIn, Root

(* A bucket is present if it exists.                                         *)
LEMMA BucketPresence ==
  ASSUME BucketTypeOK
  PROVE  S3!PresentIn(versions, Bucket) = (versions[Bucket] # S3!Absent)
  BY BucketIsNoFile DEF S3!PresentIn, S3!ExistsIn, BucketTypeOK, Root

(* So is a file: no key is below it.                                         *)
LEMMA FilePresence ==
  ASSUME FilesAreLeaves, BucketTypeOK, NEW f \in Files
  PROVE  S3!PresentIn(versions, f) = (Current(f) # S3!Absent)
  <1>1. \A g \in Files : ~S3!IsStrictPrefix(f, g)
    BY DEF FilesAreLeaves, S3!IsStrictPrefix, S3!IsPrefix, IsStrictPrefix, IsPrefix
  <1>2. Current(f) = versions[f] /\ f \in DOMAIN versions /\ f # <<>>
    BY BucketIsNoFile DEF Current, BucketTypeOK, Root
  <1> QED
    BY <1>1, <1>2 DEF S3!PresentIn, S3!ExistsIn

(* A key below a path makes it present, and a directory needs one.           *)
LEMMA PrefixPresence ==
  ASSUME NEW path, path # Bucket, S3!KeysBelow(path) # {}
  PROVE  S3!PresentIn(versions, path) = TRUE
  BY DEF S3!PresentIn, S3!KeysBelow, S3!Exists

(* A directory with no key below it is not there.                            *)
LEMMA DirPresence ==
  ASSUME FilesAreLeaves, BucketTypeOK, NEW d \in Dirs, S3!KeysBelow(d) = {}
  PROVE  S3!PresentIn(versions, d) = FALSE
  <1>1. d # <<>> /\ d \notin DOMAIN versions
    BY DirsAreNoFiles DEF BucketTypeOK, Root
  <1>2. \A f \in Files : ~(S3!ExistsIn(versions, f) /\ S3!IsStrictPrefix(d, f))
    BY DEF S3!KeysBelow, S3!Exists
  <1> QED
    BY <1>1, <1>2 DEF S3!PresentIn, S3!ExistsIn

(* What S3 answers a HEAD with is present.                                   *)
LEMMA AnsweredIsPresent ==
  ASSUME BucketTypeOK, NEW path, path = Root \/ Current(path) # S3!Absent
  PROVE  S3!PresentIn(versions, path) = TRUE
  BY RootIsPresent DEF Current, S3!PresentIn, S3!ExistsIn

(* What a current entry shows is present.                                    *)
LEMMA EntryIsPresent ==
  ASSUME IInv, EntriesExist, NEW path \in DOMAIN dircache, path \notin Pending \cup unsure
  PROVE  S3!PresentIn(versions, path) = TRUE
  <1>1. dircache[path] = Current(path)
    BY DEF IInv, EntriesAreCurrent
  <1>2. path = Root \/ Current(path) # S3!Absent
    BY <1>1 DEF EntriesExist
  <1> QED
    BY <1>2, AnsweredIsPresent DEF IInv, TypeOK

(* A current list of buckets tells whether the bucket is present.            *)
LEMMA RootEntryTells ==
  ASSUME IInv, Root \in DOMAIN dircache, Root \notin Pending \cup unsure
  PROVE  S3!PresentIn(versions, Bucket) = (dircache[Root] # S3!Absent)
  <1>1. dircache[Root] = versions[Bucket]
    BY DEF IInv, EntriesAreCurrent, Current
  <1> QED
    BY <1>1, BucketPresence DEF IInv, TypeOK

(* A listing without a name means that no key is below its path.             *)
LEMMA EmptyListing ==
  ASSUME NEW path, NEW d, S3!ListObjects(path, d) = {}
  PROVE  S3!KeysBelow(path) = {}
  BY DEF S3!ListObjects

(* ---------------------------- what lookups know -------------------------- *)
(* What a call knows of the past of its path, apart from its presence now.   *)
Learned(label, r, seenBy) ==
  /\ label = "store" => TRUE \in seenBy /\ (r.path # Root => r.got # S3!Absent)
  /\ label = "prefix" => /\ r.path \notin {Root, Bucket}
                         /\ r.path \in Files => FALSE \in seenBy
  /\ /\ r.path \in Dirs
     /\ \/ label = "keep" /\ r.names = {}
        \/ label \in {"cache", "head", "read", "send"} /\ r.op = "ls"
     => FALSE \in seenBy

(* It is not forgotten while the path is watched on.                         *)
LEMMA LearnedLasts ==
  ASSUME NEW label, NEW r, NEW few, NEW more, few \subseteq more, Learned(label, r, few)
  PROVE  Learned(label, r, more)
  BY DEF Learned

(* What a call knows is what it has learned, and what is there now.          *)
LEMMA KnowsIsLearned ==
  ASSUME NEW vs, NEW label, NEW r, NEW seenBy
  PROVE  Knows(vs, label, r, seenBy)
           <=> /\ label # "idle" => S3!PresentIn(vs, r.path) \in seenBy
               /\ Learned(label, r, seenBy)
  BY DEF Knows, Learned

(* A call that has ended knows nothing, and needs to know nothing.           *)
LEMMA IdleKnows == \A vs, r, seenBy : Knows(vs, "idle", r, seenBy)
  BY DEF Knows

(* A call that goes on sees what the step means for its path.                *)
LEMMA NotedSees ==
  ASSUME CallTypeOK, Noted, NEW c \in Clients, pc'[c] # "idle",
         S3!PresentIn(versions, call[c].path) \in seen[c]
  PROVE  seen[c] \subseteq seen'[c] /\ S3!PresentIn(versions', call[c].path) \in seen'[c]
  <1>1. CASE UNCHANGED versions
    BY <1>1 DEF Noted
  <1>2. CASE ~UNCHANGED versions
    BY <1>2 DEF Noted
  <1> QED
    BY <1>1, <1>2

(* A step of a call leaves every call knowing what it should if it does so   *)
(* with the call that steps.                                                 *)
LEMMA StepKnows ==
  ASSUME IInv, LookupInv, NEW c \in Clients, NEW label, NEW r, MovesTo(c, label, r),
         pc[c] # "idle", Noted, EntriesExist',
         label # "idle" => r.path = call[c].path /\ Learned(label, r, seen[c])
  PROVE  LookupInv'
  <1>1. CallTypeOK /\ \A d \in Clients : Knows(versions, pc[d], call[d], seen[d])
    BY DEF IInv, TypeOK, LookupInv
  <1>2. ASSUME NEW d \in Clients
        PROVE  Knows(versions', pc'[d], call'[d], seen'[d])
    <2>1. CASE pc'[d] = "idle"
      BY <2>1, IdleKnows
    <2>2. CASE pc'[d] # "idle" /\ d = c
      <3>1. pc'[d] = label /\ call'[d] = r
        BY <1>1, <2>2 DEF MovesTo, CallTypeOK
      <3>2. S3!PresentIn(versions, call[d].path) \in seen[d]
        BY <1>1, <2>2 DEF Knows
      <3>3. seen[d] \subseteq seen'[d] /\ S3!PresentIn(versions', call[d].path) \in seen'[d]
        BY <1>1, <2>2, <3>2, NotedSees
      <3>4. r.path = call[d].path /\ Learned(label, r, seen[d])
        BY <2>2, <3>1
      <3>5. Learned(label, r, seen'[d])
        BY <3>3, <3>4, LearnedLasts
      <3> QED
        BY <3>1, <3>3, <3>4, <3>5, KnowsIsLearned
    <2>3. CASE pc'[d] # "idle" /\ d # c
      <3>1. pc'[d] = pc[d] /\ call'[d] = call[d]
        BY <1>1, <2>3 DEF MovesTo, CallTypeOK
      <3>2. S3!PresentIn(versions, call[d].path) \in seen[d] /\ Learned(pc[d], call[d], seen[d])
        BY <1>1, <2>3, <3>1, KnowsIsLearned
      <3>3. seen[d] \subseteq seen'[d] /\ S3!PresentIn(versions', call[d].path) \in seen'[d]
        BY <1>1, <2>3, <3>2, NotedSees
      <3>4. Learned(pc[d], call[d], seen'[d])
        BY <3>2, <3>3, LearnedLasts
      <3> QED
        BY <3>1, <3>3, <3>4, KnowsIsLearned
    <2> QED
      BY <2>1, <2>2, <2>3
  <1> QED
    BY <1>2 DEF LookupInv

(* Many a step only needs to keep the path and end at a label at which       *)
(* nothing has to be known.                                                  *)
Plain == Labels \ {"store", "prefix", "keep", "cache", "head", "read", "send"}
PlainlyMoves(c) ==
  \E label, r : label \in Plain /\ MovesTo(c, label, r) /\ (label # "idle" => r.path = call[c].path)

(* Then all calls know what they should.                                     *)
LEMMA PlainKnows ==
  ASSUME IInv, LookupInv, NEW c \in Clients, PlainlyMoves(c), pc[c] # "idle", Noted,
         EntriesExist'
  PROVE  LookupInv'
  <1>1. PICK label, r :
          label \in Plain /\ MovesTo(c, label, r) /\ (label # "idle" => r.path = call[c].path)
    BY DEF PlainlyMoves
  <1>2. Learned(label, r, seen[c])
    BY <1>1 DEF Learned, Plain
  <1> QED
    BY <1>1, <1>2, StepKnows

(* A call that ends moves plainly, and so does one that has its answer.      *)
LEMMA ReturnIsPlain ==
  ASSUME NEW c \in Clients, Return(c)
  PROVE  PlainlyMoves(c)
  <1>1. MovesTo(c, "idle", NoCall)
    BY NoCallIsGood DEF Return, Goto, MovesTo
  <1> QED
    BY <1>1 DEF PlainlyMoves, Plain, Labels

(* A call that gets the answer to its question moves plainly.                *)
LEMMA FoundIsPlain ==
  ASSUME IInv, NEW c \in Clients, pc[c] # "idle", NEW yes \in BOOLEAN, Found(c, yes)
  PROVE  PlainlyMoves(c)
  <1> DEFINE r == call[c]
  <1>1. GoodCall(pc[c], r) /\ r \in CallRecords
    BY CallsAreGood DEF IInv, TypeOK, GoodCall
  <1>2. CASE Goto(c, "write") /\ UNCHANGED call
    <2>1. GoodCall("write", r)
      BY <1>1 DEF GoodCall, Labels
    <2>2. MovesTo(c, "write", r)
      BY <1>2, <2>1 DEF Goto, MovesTo, IInv, TypeOK, CallTypeOK
    <2> QED
      BY <2>2 DEF PlainlyMoves, Plain, Labels
  <1>3. CASE /\ r.op = "rm" /\ Goto(c, "delete")
             /\ call' = [call EXCEPT ![c].paths = Targets(c, yes),
                                     ![c].todo = Targets(c, yes), ![c].names = {}]
    <2> DEFINE n == [r EXCEPT !.paths = Targets(c, yes), !.todo = Targets(c, yes),
                              !.names = {}]
    <2>1. Targets(c, yes) \in SUBSET (Paths \cup {Root})
      BY <1>1 DEF Targets, CallRecords, Paths
    <2>2. n \in CallRecords /\ n.op = "rm" /\ n.todo = n.paths /\ n.path = r.path
      BY <1>1, <1>3, <2>1 DEF CallRecords
    <2>3. GoodCall("delete", n)
      BY <2>2 DEF GoodCall, Labels
    <2>4. call' = [call EXCEPT ![c] = n]
      BY <1>3 DEF IInv, TypeOK, CallTypeOK, CallRecords
    <2>5. MovesTo(c, "delete", n)
      BY <1>3, <2>3, <2>4 DEF MovesTo, Goto
    <2> QED
      BY <2>2, <2>5 DEF PlainlyMoves, Plain, Labels
  <1> QED
    BY <1>2, <1>3, ReturnIsPlain DEF Found

(* A step that changes no entry leaves all of them showing something.        *)
LEMMA EntriesStay ==
  ASSUME EntriesExist, UNCHANGED dircache
  PROVE  EntriesExist'
  BY DEF EntriesExist

(* -------------------------- calls that look something up ----------------- *)
(* A call that begins has seen what is there, and need not know more.        *)
LEMMA BeginKnows ==
  ASSUME IInv, LookupInv, NEW c \in Clients, NEW label, NEW new, Begin(c, label, new),
         Learned(label, new, {})
  PROVE  LookupInv'
  <1>1. /\ CallTypeOK /\ AnswerTypeOK /\ EntriesExist
        /\ \A d \in Clients : Knows(versions, pc[d], call[d], seen[d])
    BY DEF IInv, TypeOK, LookupInv
  <1>2. versions' = versions /\ EntriesExist'
    BY <1>1, EntriesStay DEF Begin, bucketVars, cacheVars
  <1>3. ASSUME NEW d \in Clients
        PROVE  Knows(versions', pc'[d], call'[d], seen'[d])
    <2>1. CASE d = c
      <3>1. /\ pc'[d] = label /\ call'[d] = new
            /\ seen'[d] = {S3!PresentIn(versions, new.path)}
        BY <1>1, <2>1 DEF Begin, Goto, CallTypeOK, AnswerTypeOK
      <3>2. S3!PresentIn(versions', new.path) \in seen'[d]
        BY <1>2, <3>1
      <3>3. Learned(label, new, seen'[d])
        <4>1. {} \subseteq seen'[d]
          OBVIOUS
        <4> QED
          BY <4>1, LearnedLasts
      <3> QED
        BY <3>1, <3>2, <3>3, KnowsIsLearned
    <2>2. CASE d # c
      <3>1. pc'[d] = pc[d] /\ call'[d] = call[d] /\ seen'[d] = seen[d]
        BY <1>1, <2>2 DEF Begin, Goto, CallTypeOK, AnswerTypeOK
      <3> QED
        BY <1>1, <1>2, <3>1
    <2> QED
      BY <2>1, <2>2
  <1> QED
    BY <1>2, <1>3 DEF LookupInv

(* A record made by Call has what it is made of.                             *)
LEMMA CallFields ==
  ASSUME NEW op, NEW path, NEW refresh, NEW paths
  PROVE  LET r == Call(op, path, refresh, paths) IN r.op = op /\ r.path = path
  BY DEF Call

(* No call begins with something to know.                                    *)
LEMMA UserCallKnows ==
  ASSUME FilesAreLeaves, IInv, LookupInv, NEW c \in Clients, UserCall(c)
  PROVE  LookupInv'
  <1>1. ASSUME NEW op, NEW path, NEW refresh, NEW paths, NEW label,
               label \notin {"store", "prefix", "keep"},
               op = "ls" => label = "list" \/ path = Root
        PROVE  Learned(label, Call(op, path, refresh, paths), {})
    BY <1>1, CallFields, DirsAreNoFiles DEF Learned
  <1>2. ASSUME NEW p \in Asked, NEW refresh \in BOOLEAN, Info(c, p, refresh)
        PROVE  LookupInv'
    <2>1. Learned(IF refresh THEN "head" ELSE "cache", Call("info", p, refresh, {}), {})
      BY <1>1
    <2> QED
      BY <1>2, <2>1, BeginKnows DEF Info
  <1>3. ASSUME NEW p \in Asked, AskExists(c, p)
        PROVE  LookupInv'
    <2>1. Learned("cache", Call("exists", p, FALSE, {}), {})
      BY <1>1
    <2> QED
      BY <1>3, <2>1, BeginKnows DEF AskExists
  <1>4. ASSUME NEW p \in Listed, NEW b \in BOOLEAN, Ls(c, p, b)
        PROVE  LookupInv'
    <2>1. Learned(IF p = Root THEN "head" ELSE "list", Call("ls", p, b, {}), {})
      BY <1>1
    <2> QED
      BY <1>4, <2>1, BeginKnows DEF Ls
  <1>5. ASSUME NEW p \in Listed, Find(c, p)
        PROVE  LookupInv'
    <2>1. Learned("list", Call("find", p, FALSE, {}), {})
      BY <1>1
    <2> QED
      BY <1>5, <2>1, BeginKnows DEF Find
  <1>6. ASSUME NEW p \in Listed, NEW b \in BOOLEAN, Rm(c, p, b)
        PROVE  LookupInv'
    <2>1. Learned("list", Call("rm", p, FALSE, {}), {})
      BY <1>1
    <2>2. \A new : Learned("delete", new, {})
      BY DEF Learned
    <2> QED
      BY <1>6, <2>1, <2>2, BeginKnows DEF Rm
  <1>7. ASSUME NEW f \in Files, RmFile(c, f)
        PROVE  LookupInv'
    <2>1. Learned("write", Call("rm_file", f, FALSE, {f}), {})
      BY <1>1
    <2> QED
      BY <1>7, <2>1, BeginKnows DEF RmFile
  <1>8. ASSUME NEW f \in Files, SetXAttr(c, f)
        PROVE  LookupInv'
    <2>1. Learned("write", Call("setxattr", f, FALSE, {f}), {})
      BY <1>1
    <2> QED
      BY <1>8, <2>1, BeginKnows DEF SetXAttr
  <1>9. ASSUME NEW f \in Files, NEW create \in BOOLEAN, PipeFile(c, f, create)
        PROVE  LookupInv'
    <2>1. Learned(IF create THEN "cache" ELSE "write", Call("pipe_file", f, FALSE, {f}), {})
      BY <1>1
    <2> QED
      BY <1>9, <2>1, BeginKnows DEF PipeFile
  <1>10. ASSUME NEW f \in Files, NEW source \in Files, CpFile(c, source, f)
         PROVE  LookupInv'
    <2>1. Learned("cache", Call("cp_file", source, FALSE, {f}), {})
      BY <1>1
    <2> QED
      BY <1>10, <2>1, BeginKnows DEF CpFile
  <1>11. ASSUME MkDir(c)
         PROVE  LookupInv'
    <2>1. Learned("cache", Call("mkdir", Bucket, FALSE, {Bucket, Root}), {})
      BY <1>1
    <2> QED
      BY <1>11, <2>1, BeginKnows DEF MkDir
  <1>12. ASSUME RmDir(c)
         PROVE  LookupInv'
    <2>1. Learned("write", Call("rmdir", Bucket, FALSE, {Bucket, Root}), {})
      BY <1>1
    <2> QED
      BY <1>12, <2>1, BeginKnows DEF RmDir
  <1> QED
    BY <1>2, <1>3, <1>4, <1>5, <1>6, <1>7, <1>8, <1>9, <1>10, <1>11, <1>12 DEF UserCall

(* A call that keeps its record and moves to a label.                        *)
LEMMA SameCallMoves ==
  ASSUME IInv, NEW c \in Clients, pc[c] # "idle", NEW label, label \in Labels \ {"idle"},
         Goto(c, label), UNCHANGED call,
         label \in {"list", "fetch", "keep"} => call[c].path \in Listed \ {Root},
         label = "store" => call[c].path \in Files \cup {Bucket, Root}
  PROVE  MovesTo(c, label, call[c])
  <1>1. GoodCall(pc[c], call[c])
    BY CallsAreGood DEF IInv, TypeOK
  <1>2. GoodCall(label, call[c])
    BY <1>1 DEF GoodCall
  <1> QED
    BY <1>2 DEF Goto, MovesTo, IInv, TypeOK, CallTypeOK

(* What the call that steps knows.                                           *)
LEMMA CallKnows ==
  ASSUME LookupInv, NEW c \in Clients, pc[c] # "idle"
  PROVE  S3!PresentIn(versions, call[c].path) \in seen[c] /\ Learned(pc[c], call[c], seen[c])
  BY KnowsIsLearned DEF LookupInv

(* The cache is looked into, or passed by.                                   *)
LEMMA LookUpKnows ==
  ASSUME IInv, LookupInv, NEW c \in Clients, LookUp(c), Noted
  PROVE  LookupInv'
  <1>1. EntriesExist' /\ pc[c] = "cache"
    BY EntriesStay DEF LookUp, cacheVars, LookupInv
  <1>2. CASE \E yes \in BOOLEAN : Found(c, yes)
    BY <1>1, <1>2, FoundIsPlain, PlainKnows
  <1>3. CASE Goto(c, "head") /\ UNCHANGED <<call, found>>
    <2>1. MovesTo(c, "head", call[c])
      BY <1>1, <1>3, SameCallMoves DEF Labels
    <2>2. Learned("head", call[c], seen[c])
      BY <1>1, CallKnows DEF Learned
    <2> QED
      BY <1>1, <2>1, <2>2, StepKnows
  <1> QED
    BY <1>2, <1>3 DEF LookUp

(* The test for an entry tells nothing.                                      *)
LEMMA TestEntryKnows ==
  ASSUME IInv, LookupInv, NEW c \in Clients, TestEntry(c), Noted
  PROVE  LookupInv'
  <1>1. EntriesExist' /\ pc[c] = "head"
    BY EntriesStay DEF TestEntry, cacheVars, LookupInv
  <1>2. PICK label \in {"read", "send"} : Goto(c, label)
    BY DEF TestEntry
  <1>3. MovesTo(c, label, call[c])
    BY <1>1, <1>2, SameCallMoves DEF TestEntry, Labels
  <1>4. Learned(label, call[c], seen[c])
    BY <1>1, CallKnows DEF Learned
  <1> QED
    BY <1>1, <1>3, <1>4, StepKnows

(* Nor does reading it.                                                      *)
LEMMA ReadEntryKnows ==
  ASSUME IInv, LookupInv, NEW c \in Clients, ReadEntry(c), Noted
  PROVE  LookupInv'
  <1>1. EntriesExist' /\ pc[c] = "read"
    BY EntriesStay DEF ReadEntry, cacheVars, LookupInv
  <1>2. PlainlyMoves(c)
    BY <1>1, FoundIsPlain, ReturnIsPlain DEF ReadEntry
  <1> QED
    BY <1>1, <1>2, PlainKnows

(* A HEAD that is answered shows the path to be there; one that is not, that *)
(* a file is not there.                                                      *)
LEMMA HeadAnsweredKnows ==
  ASSUME FilesAreLeaves, IInv, LookupInv, NEW c \in Clients, HeadAnswered(c), Noted
  PROVE  LookupInv'
  <1> DEFINE path == call[c].path
             missing == path # Root /\ Current(path) = S3!Absent
  <1>1. EntriesExist' /\ pc[c] = "send"
    BY EntriesStay DEF HeadAnswered, cacheVars, LookupInv
  <1>2. S3!PresentIn(versions, path) \in seen[c]
    BY <1>1, CallKnows
  <1>3. GoodCall(pc[c], call[c])
    BY CallsAreGood DEF IInv, TypeOK
  <1>4. CASE /\ ~missing /\ Goto(c, "store")
             /\ call' = [call EXCEPT ![c].got = Current(path)] /\ UNCHANGED found
    <2> DEFINE n == [call[c] EXCEPT !.got = Current(path)]
    <2>1. Current(path) \in 0..MaxWrites /\ path \in Files \cup {Bucket, Root}
      BY <1>4, CurrentIsVersion DEF IInv, TypeOK
    <2>2. GoodCall("store", n) /\ n.path = path /\ n.got = Current(path)
      BY <1>1, <1>3, <2>1 DEF GoodCall, Labels, CallRecords
    <2>3. call' = [call EXCEPT ![c] = n]
      BY <1>4 DEF IInv, TypeOK, CallTypeOK
    <2>4. MovesTo(c, "store", n)
      BY <1>4, <2>2, <2>3 DEF MovesTo, Goto
    <2>5. S3!PresentIn(versions, path) = TRUE
      BY <1>4, AnsweredIsPresent DEF IInv, TypeOK
    <2>6. Learned("store", n, seen[c])
      BY <1>2, <1>4, <2>2, <2>5 DEF Learned
    <2> QED
      BY <1>1, <2>2, <2>4, <2>6, StepKnows
  <1>5. CASE Found(c, FALSE)
    BY <1>1, <1>5, FoundIsPlain, PlainKnows
  <1>6. CASE missing /\ path # Bucket /\ Goto(c, "prefix") /\ UNCHANGED <<call, found>>
    <2>1. MovesTo(c, "prefix", call[c])
      BY <1>1, <1>6, SameCallMoves DEF Labels
    <2>2. path \in Files => S3!PresentIn(versions, path) = FALSE
      BY <1>6, FilePresence DEF IInv, TypeOK
    <2>3. Learned("prefix", call[c], seen[c])
      BY <1>2, <1>6, <2>2 DEF Learned
    <2> QED
      BY <1>1, <2>1, <2>3, StepKnows
  <1> QED
    BY <1>4, <1>5, <1>6 DEF HeadAnswered

(* What is stored shows something.                                           *)
LEMMA StoreEntryKnows ==
  ASSUME IInv, LookupInv, NEW c \in Clients, StoreEntry(c), Noted
  PROVE  LookupInv'
  <1>1. pc[c] = "store"
    BY DEF StoreEntry
  <1>2. call[c].path # Root => call[c].got # S3!Absent
    BY <1>1, CallKnows DEF Learned
  <1>3. EntriesExist'
    BY <1>2 DEF StoreEntry, EntriesExist, LookupInv
  <1>4. PlainlyMoves(c)
    BY <1>1, FoundIsPlain DEF StoreEntry
  <1> QED
    BY <1>1, <1>3, <1>4, PlainKnows

(* The search for keys below a path ends the question.                       *)
LEMMA PrefixAnsweredKnows ==
  ASSUME IInv, LookupInv, NEW c \in Clients, PrefixAnswered(c), Noted
  PROVE  LookupInv'
  <1>1. EntriesExist' /\ pc[c] = "prefix"
    BY EntriesStay DEF PrefixAnswered, cacheVars, LookupInv
  <1>2. PlainlyMoves(c)
    <2>1. (S3!KeysBelow(call[c].path) # {}) \in BOOLEAN
      OBVIOUS
    <2> QED
      BY <1>1, <2>1, FoundIsPlain DEF PrefixAnswered
  <1> QED
    BY <1>1, <1>2, PlainKnows

(* Listings.  A directory that is listed without a name was not there.       *)
LEMMA ListReturnsKnows ==
  ASSUME IInv, LookupInv, NEW c \in Clients, pc[c] # "idle",
         NEW names \in SUBSET (Files \cup Dirs), ListReturns(c, names), Noted, EntriesExist',
         names = {} /\ call[c].path \in Dirs => FALSE \in seen[c]
  PROVE  LookupInv'
  <1>1. GoodCall(pc[c], call[c])
    BY CallsAreGood DEF IInv, TypeOK
  <1>2. CASE /\ names = {} /\ UNCHANGED call
             /\ Goto(c, IF call[c].op = "ls" THEN "head" ELSE "cache")
    <2> DEFINE label == IF call[c].op = "ls" THEN "head" ELSE "cache"
    <2>1. MovesTo(c, label, call[c])
      BY <1>2, SameCallMoves DEF Labels
    <2>2. Learned(label, call[c], seen[c])
      BY <1>2 DEF Learned
    <2> QED
      BY <2>1, <2>2, StepKnows
  <1>3. CASE /\ call[c].op = "rm"
             /\ Goto(c, "cache") /\ call' = [call EXCEPT ![c].names = names]
    <2> DEFINE n == [call[c] EXCEPT !.names = names]
    <2>1. GoodCall("cache", n) /\ n.path = call[c].path /\ n.op = "rm"
      BY <1>1, <1>3 DEF GoodCall, Labels, CallRecords
    <2>2. call' = [call EXCEPT ![c] = n]
      BY <1>3 DEF IInv, TypeOK, CallTypeOK
    <2>3. MovesTo(c, "cache", n)
      BY <1>3, <2>1, <2>2 DEF MovesTo, Goto
    <2>4. Learned("cache", n, seen[c])
      BY <2>1 DEF Learned
    <2> QED
      BY <2>1, <2>3, <2>4, StepKnows
  <1>4. CASE Return(c)
    BY <1>4, ReturnIsPlain, PlainKnows
  <1> QED
    BY <1>2, <1>3, <1>4 DEF ListReturns

(* A listing that is kept has a name.                                        *)
LEMMA ListFromCacheKnows ==
  ASSUME IInv, LookupInv, NEW c \in Clients, ListFromCache(c), Noted
  PROVE  LookupInv'
  <1>1. EntriesExist' /\ pc[c] = "list"
    BY EntriesStay DEF ListFromCache, cacheVars, LookupInv
  <1> DEFINE key == <<call[c].path, Delimiter(c)>>
             names == listings[key]
  <1>2. key \in DOMAIN listings /\ ListReturns(c, names)
    BY DEF ListFromCache
  <1> HIDE DEF key
  <1>3. names \in SUBSET (Files \cup Dirs) /\ names # {}
    BY <1>2, Zenon DEF IInv, TypeOK, CacheTypeOK
  <1> HIDE DEF names
  <1> QED
    BY <1>1, <1>2, <1>3, ListReturnsKnows

(* A listing that has to be fetched tells nothing yet.                       *)
LEMMA ListMissingKnows ==
  ASSUME IInv, LookupInv, NEW c \in Clients, ListMissing(c), Noted
  PROVE  LookupInv'
  <1>1. EntriesExist' /\ pc[c] = "list"
    BY EntriesStay DEF ListMissing, cacheVars, LookupInv
  <1>2. GoodCall(pc[c], call[c])
    BY CallsAreGood DEF IInv, TypeOK
  <1>3. MovesTo(c, "fetch", call[c])
    BY <1>1, <1>2, SameCallMoves DEF ListMissing, Labels, GoodCall
  <1>4. PlainlyMoves(c)
    BY <1>3 DEF PlainlyMoves, Plain, Labels
  <1> QED
    BY <1>1, <1>4, PlainKnows

(* One that is fetched tells that a directory is not there if it has no name.*)
LEMMA ListAnsweredKnows ==
  ASSUME FilesAreLeaves, IInv, LookupInv, NEW c \in Clients, ListAnswered(c), Noted
  PROVE  LookupInv'
  <1> DEFINE path == call[c].path
             names == S3!ListObjects(path, Delimiter(c))
             n == [call[c] EXCEPT !.names = names]
  <1>1. EntriesExist' /\ pc[c] = "fetch"
    BY EntriesStay DEF ListAnswered, cacheVars, LookupInv
  <1>2. GoodCall("fetch", call[c])
    BY <1>1, CallsAreGood DEF IInv, TypeOK
  <1>3. names \in SUBSET (Files \cup Dirs)
    BY <1>2, ListedNames DEF GoodCall
  <1>4. GoodCall("keep", n) /\ n.path = path /\ n.names = names
    BY <1>2, <1>3 DEF GoodCall, Labels, CallRecords
  <1>5. MovesTo(c, "keep", n)
    BY <1>4 DEF ListAnswered, Goto, MovesTo, IInv, TypeOK, CallTypeOK
  <1>6. ASSUME path \in Dirs, names = {}
        PROVE  FALSE \in seen[c]
    <2>1. S3!KeysBelow(path) = {}
      BY <1>6, EmptyListing
    <2>2. S3!PresentIn(versions, path) = FALSE
      BY <1>6, <2>1, DirPresence DEF IInv, TypeOK
    <2> QED
      BY <1>1, <2>2, CallKnows
  <1>7. Learned("keep", n, seen[c])
    BY <1>4, <1>6 DEF Learned
  <1> QED
    BY <1>1, <1>4, <1>5, <1>7, StepKnows

(* It is what ls() goes on with.                                             *)
LEMMA KeepListingKnows ==
  ASSUME IInv, LookupInv, NEW c \in Clients, KeepListing(c), Noted
  PROVE  LookupInv'
  <1>1. EntriesExist' /\ pc[c] = "keep"
    BY EntriesStay DEF KeepListing, LookupInv
  <1>2. call[c].names \in SUBSET (Files \cup Dirs)
    BY CallsAreGood DEF IInv, TypeOK, GoodCall, CallRecords
  <1>3. call[c].names = {} /\ call[c].path \in Dirs => FALSE \in seen[c]
    BY <1>1, CallKnows DEF Learned
  <1> QED
    BY <1>1, <1>2, <1>3, ListReturnsKnows DEF KeepListing

(* Writing and deleting.                                                     *)
LEMMA WritesKnow ==
  ASSUME IInv, LookupInv, NEW c \in Clients,
         WriteAnswered(c) \/ WriteAnswerLost(c) \/ DeletesEnd(c) \/ RequestFails(c), Noted
  PROVE  LookupInv'
  <1>1. EntriesExist'
    BY EntriesStay
       DEF WriteAnswered, WriteAnswerLost, DeletesEnd, RequestFails, cacheVars, LookupInv
  <1>2. pc[c] # "idle"
    BY DEF WriteAnswered, WriteAnswerLost, DeletesEnd, RequestFails
  <1>3. CASE Return(c)
    BY <1>1, <1>2, <1>3, ReturnIsPlain, PlainKnows
  <1>4. CASE Goto(c, "invalidate") /\ UNCHANGED call
    <2>1. MovesTo(c, "invalidate", call[c])
      BY <1>2, <1>4, SameCallMoves DEF Labels
    <2>2. PlainlyMoves(c)
      BY <2>1 DEF PlainlyMoves, Plain, Labels
    <2> QED
      BY <1>1, <1>2, <2>2, PlainKnows
  <1> QED
    BY <1>3, <1>4 DEF WriteAnswered, WriteAnswerLost, DeletesEnd, RequestFails

(* A chunk of a bulk delete tells its call nothing.                          *)
LEMMA DeleteChunkKnows ==
  ASSUME IInv, LookupInv, NEW c \in Clients, NEW chunk, DeleteChunk(c, chunk), Noted
  PROVE  LookupInv'
  <1>1. EntriesExist' /\ pc[c] = "delete"
    BY EntriesStay DEF DeleteChunk, cacheVars, LookupInv
  <1>2. GoodCall("delete", call[c])
    BY <1>1, CallsAreGood DEF IInv, TypeOK
  <1>3. PICK answered \in BOOLEAN :
          call' = [call EXCEPT ![c].todo = @ \ chunk, ![c].failed = @ \/ ~answered]
    BY DEF DeleteChunk
  <1> DEFINE n == [call[c] EXCEPT !.todo = @ \ chunk, !.failed = @ \/ ~answered]
  <1>4. n \in CallRecords
    <2>1. (call[c].failed \/ ~answered) \in BOOLEAN
      OBVIOUS
    <2>2. call[c].todo \ chunk \in SUBSET (Paths \cup {Root})
      BY <1>2 DEF GoodCall, CallRecords
    <2>3. call[c] \in CallRecords
      BY <1>2 DEF GoodCall
    <2> QED
      BY <2>1, <2>2, <2>3 DEF CallRecords
  <1>5. n.paths = call[c].paths /\ n.op = call[c].op /\ n.path = call[c].path
        /\ n.todo = call[c].todo \ chunk
    BY <1>2 DEF GoodCall, CallRecords
  <1>6. GoodCall("delete", n)
    BY <1>2, <1>4, <1>5 DEF GoodCall
  <1>7. MovesTo(c, "delete", n)
    <2>1. call' = [call EXCEPT ![c] = n]
      BY <1>3 DEF IInv, TypeOK, CallTypeOK
    <2>2. pc' = [pc EXCEPT ![c] = "delete"]
      BY DEF DeleteChunk, IInv, TypeOK, CallTypeOK
    <2> QED
      BY <1>6, <2>1, <2>2 DEF MovesTo
  <1>8. PlainlyMoves(c)
    BY <1>5, <1>7 DEF PlainlyMoves, Plain, Labels
  <1> QED
    BY <1>1, <1>8, PlainKnows

(* To drop entries tells nothing.                                            *)
LEMMA InvalidateKnows ==
  ASSUME IInv, LookupInv, NEW c \in Clients, Invalidate(c), Noted
  PROVE  LookupInv'
  <1>1. EntriesExist' /\ pc[c] = "invalidate"
    BY DEF Invalidate, Drop, EntriesExist, LookupInv
  <1> QED
    BY <1>1, ReturnIsPlain, PlainKnows DEF Invalidate

(* Nor does dropping all of them.                                            *)
LEMMA InvalidateAllKnows ==
  ASSUME LookupInv, InvalidateAll
  PROVE  LookupInv'
  <1>1. EntriesExist'
    <2>1. DOMAIN dircache' = {}
      BY DEF InvalidateAll
    <2> QED
      BY <2>1 DEF EntriesExist
  <1>2. versions' = versions /\ pc' = pc /\ call' = call /\ seen' = seen
    BY DEF InvalidateAll, bucketVars, callVars
  <1> QED
    BY <1>1, <1>2 DEF LookupInv

(* Every step of the system leaves its calls knowing what they should.       *)
LEMMA NextKnows ==
  ASSUME FilesAreLeaves, IInv, LookupInv, [Next]_vars
  PROVE  LookupInv'
  <1>1. CASE UNCHANGED vars
    <2>1. UNCHANGED <<versions, dircache, pc, call, seen>>
      BY <1>1 DEF vars, bucketVars, cacheVars, callVars
    <2> QED
      BY <2>1 DEF LookupInv, EntriesExist
  <1>2. ASSUME NEW c \in Clients, UserCall(c)
        PROVE  LookupInv'
    BY <1>2, UserCallKnows
  <1>3. ASSUME NEW c \in Clients, CallStep(c)
        PROVE  LookupInv'
    BY <1>3, LookUpKnows, TestEntryKnows, ReadEntryKnows, HeadAnsweredKnows, StoreEntryKnows,
       PrefixAnsweredKnows, ListFromCacheKnows, ListMissingKnows, ListAnsweredKnows,
       KeepListingKnows, WritesKnow, DeleteChunkKnows, InvalidateKnows DEF CallStep
  <1>4. CASE InvalidateAll
    BY <1>4, InvalidateAllKnows
  <1> QED
    BY <1>1, <1>2, <1>3, <1>4 DEF Next

(* ----------------------------- what lookups answer ----------------------- *)
(* An answer that was true at some moment of its call, or that an entry gave *)
(* which a write has left stale.                                             *)
Right(c, yes) ==
  \/ yes \in seen[c]
  \/ yes /\ call[c].path \in Pending \cup unsure
  \/ call[c].path = Bucket /\ Root \in Pending \cup unsure

AnswersAreRight ==
  \A c \in Clients : found'[c] # found[c] /\ found'[c] # NULL => Right(c, found'[c])

(* Only the call that finds something changes its answer.                    *)
LEMMA FoundIsRight ==
  ASSUME IInv, NEW c \in Clients, NEW yes, Found(c, yes), Right(c, yes)
  PROVE  AnswersAreRight
  BY DEF Found, AnswersAreRight, IInv, TypeOK, AnswerTypeOK

(* A step that finds nothing gives no wrong answer.                          *)
LEMMA NothingFound ==
  ASSUME UNCHANGED found
  PROVE  AnswersAreRight
  BY DEF AnswersAreRight

(* An entry of the path, or one of the bucket in the list of buckets, shows  *)
(* that the path is there.                                                   *)
LEMMA EntryIsRight ==
  ASSUME IInv, LookupInv, NEW c \in Clients, pc[c] # "idle", call[c].path \in DOMAIN dircache
  PROVE  Right(c, TRUE)
  <1>1. call[c].path \notin Pending \cup unsure
          => S3!PresentIn(versions, call[c].path) = TRUE
    BY EntryIsPresent DEF LookupInv
  <1> QED
    BY <1>1, CallKnows DEF Right

(* The list of buckets tells whether the bucket is there.                    *)
LEMMA RootEntryIsRight ==
  ASSUME IInv, LookupInv, NEW c \in Clients, pc[c] # "idle", call[c].path = Bucket,
         Root \in DOMAIN dircache
  PROVE  Right(c, dircache[Root] # S3!Absent)
  <1>1. Root \notin Pending \cup unsure
          => S3!PresentIn(versions, Bucket) = (dircache[Root] # S3!Absent)
    BY RootEntryTells
  <1>2. S3!PresentIn(versions, call[c].path) \in seen[c]
    BY CallKnows
  <1> QED
    BY <1>1, <1>2 DEF Right

(* What the cache answers is right.                                          *)
LEMMA LookUpIsRight ==
  ASSUME IInv, LookupInv, NEW c \in Clients, LookUp(c)
  PROVE  AnswersAreRight
  <1> DEFINE path == call[c].path
             listed == path = Bucket /\ Root \in DOMAIN dircache
  <1>1. pc[c] # "idle"
    BY DEF LookUp
  <1>2. CASE path \in DOMAIN dircache /\ Found(c, TRUE)
    BY <1>1, <1>2, EntryIsRight, FoundIsRight
  <1>3. CASE listed /\ dircache[Root] # S3!Absent /\ Found(c, TRUE)
    <2>1. (dircache[Root] # S3!Absent) = TRUE
      BY <1>3
    <2>2. Right(c, TRUE)
      BY <1>1, <1>3, <2>1, RootEntryIsRight
    <2> QED
      BY <1>3, <2>2, FoundIsRight
  <1>4. CASE listed /\ dircache[Root] = S3!Absent /\ Found(c, FALSE)
    <2>1. (dircache[Root] # S3!Absent) = FALSE
      BY <1>4
    <2>2. Right(c, FALSE)
      BY <1>1, <1>4, <2>1, RootEntryIsRight
    <2> QED
      BY <1>4, <2>2, FoundIsRight
  <1>5. CASE UNCHANGED found
    BY <1>5, NothingFound
  <1> QED
    BY <1>2, <1>3, <1>4, <1>5 DEF LookUp

(* So is what an entry answers.                                              *)
LEMMA ReadEntryIsRight ==
  ASSUME IInv, LookupInv, NEW c \in Clients, ReadEntry(c)
  PROVE  AnswersAreRight
  <1>1. pc[c] # "idle"
    BY DEF ReadEntry
  <1>2. CASE call[c].path \in DOMAIN dircache /\ Found(c, TRUE)
    BY <1>1, <1>2, EntryIsRight, FoundIsRight
  <1>3. CASE UNCHANGED found
    BY <1>3, NothingFound
  <1> QED
    BY <1>2, <1>3 DEF ReadEntry

(* HEAD decides for a bucket, and for the path of ls(): listed before it, it *)
(* had no key below it.                                                      *)
LEMMA HeadAnsweredIsRight ==
  ASSUME FilesAreLeaves, IInv, LookupInv, NEW c \in Clients, HeadAnswered(c)
  PROVE  AnswersAreRight
  <1> DEFINE path == call[c].path
             missing == path # Root /\ Current(path) = S3!Absent
  <1>1. pc[c] = "send"
    BY DEF HeadAnswered
  <1>2. S3!PresentIn(versions, path) \in seen[c] /\ Learned("send", call[c], seen[c])
    BY <1>1, CallKnows
  <1>3. path \in Paths \cup {Root}
    BY CallsAreGood DEF IInv, TypeOK, GoodCall, CallRecords
  <1>4. CASE missing /\ (path = Bucket \/ call[c].op = "ls") /\ Found(c, FALSE)
    <2>1. CASE path = Bucket
      <3>1. Current(path) = versions[Bucket]
        BY <2>1, BucketIsNoFile DEF Current, IInv, TypeOK, BucketTypeOK
      <3>2. (versions[Bucket] # S3!Absent) = FALSE
        BY <1>4, <3>1
      <3> QED
        BY <1>2, <1>4, <2>1, <3>2, BucketPresence, FoundIsRight DEF Right, IInv, TypeOK
    <2>2. CASE path \in Files
      <3>1. (Current(path) # S3!Absent) = FALSE
        BY <1>4
      <3>2. S3!PresentIn(versions, path) = FALSE
        BY <2>2, <3>1, FilePresence DEF IInv, TypeOK
      <3> QED
        BY <1>2, <1>4, <3>2, FoundIsRight DEF Right
    <2>3. CASE path \in Dirs /\ call[c].op = "ls"
      BY <1>2, <1>4, <2>3, FoundIsRight DEF Right, Learned
    <2>4. path # Root
      BY <1>4
    <2> QED
      BY <1>3, <1>4, <2>1, <2>2, <2>3, <2>4 DEF Paths
  <1>5. CASE UNCHANGED found
    BY <1>5, NothingFound
  <1> QED
    BY <1>4, <1>5 DEF HeadAnswered

(* A HEAD that was answered with an entry was right.                         *)
LEMMA StoreEntryIsRight ==
  ASSUME IInv, LookupInv, NEW c \in Clients, StoreEntry(c)
  PROVE  AnswersAreRight
  <1>1. Learned("store", call[c], seen[c])
    BY CallKnows DEF StoreEntry
  <1> QED
    BY <1>1, FoundIsRight DEF StoreEntry, Learned, Right

(* For any other path the keys below it decide: a file was not there, a      *)
(* directory is there if there are any.                                      *)
LEMMA PrefixAnsweredIsRight ==
  ASSUME FilesAreLeaves, IInv, LookupInv, NEW c \in Clients, PrefixAnswered(c)
  PROVE  AnswersAreRight
  <1> DEFINE path == call[c].path
             yes == S3!KeysBelow(path) # {}
  <1>1. pc[c] = "prefix"
    BY DEF PrefixAnswered
  <1>2. S3!PresentIn(versions, path) \in seen[c] /\ Learned("prefix", call[c], seen[c])
    BY <1>1, CallKnows
  <1>3. path \notin {Root, Bucket} /\ (path \in Files => FALSE \in seen[c])
    BY <1>2 DEF Learned
  <1>4. path \in Paths \cup {Root}
    BY CallsAreGood DEF IInv, TypeOK, GoodCall, CallRecords
  <1>5. CASE yes
    <2>1. S3!PresentIn(versions, path) = TRUE /\ yes = TRUE
      BY <1>3, <1>5, PrefixPresence
    <2> QED
      BY <1>2, <2>1, FoundIsRight DEF PrefixAnswered, Right
  <1>6. CASE ~yes
    <2>1. FALSE \in seen[c]
      <3>1. CASE path \in Files
        BY <1>3, <3>1
      <3>2. CASE path \in Dirs
        BY <1>2, <1>6, <3>2, DirPresence DEF IInv, TypeOK
      <3> QED
        BY <1>3, <1>4, <3>1, <3>2 DEF Paths
    <2>2. yes = FALSE
      BY <1>6
    <2> QED
      BY <2>1, <2>2, FoundIsRight DEF PrefixAnswered, Right
  <1> QED
    BY <1>5, <1>6

(* A call that begins forgets the answer of the one before it.               *)
LEMMA UserCallIsRight ==
  ASSUME IInv, NEW c \in Clients, UserCall(c)
  PROVE  AnswersAreRight
  <1>1. ASSUME NEW label, NEW new, Begin(c, label, new)
        PROVE  AnswersAreRight
    BY <1>1 DEF Begin, AnswersAreRight, IInv, TypeOK, AnswerTypeOK
  <1> QED
    BY <1>1 DEF UserCall, Info, AskExists, Find, Ls, Rm, RmFile, SetXAttr, PipeFile, CpFile,
                MkDir, RmDir

(* Every step answers right.                                                 *)
LEMMA NextIsRight ==
  ASSUME FilesAreLeaves, IInv, LookupInv, [Next]_vars
  PROVE  AnswersAreRight
  <1>1. CASE UNCHANGED vars
    BY <1>1, NothingFound DEF vars, answerVars
  <1>2. ASSUME NEW c \in Clients, UserCall(c)
        PROVE  AnswersAreRight
    BY <1>2, UserCallIsRight
  <1>3. ASSUME NEW c \in Clients, CallStep(c)
        PROVE  AnswersAreRight
    <2>1. \/ LookUp(c) \/ ReadEntry(c) \/ HeadAnswered(c) \/ StoreEntry(c)
          \/ PrefixAnswered(c) \/ UNCHANGED found
      BY <1>3 DEF CallStep, TestEntry, ListFromCache, ListMissing, ListAnswered, KeepListing,
                  WriteAnswered, WriteAnswerLost, DeleteChunk, DeletesEnd, Invalidate,
                  RequestFails, answerVars
    <2> QED
      BY <2>1, LookUpIsRight, ReadEntryIsRight, HeadAnsweredIsRight, StoreEntryIsRight,
         PrefixAnsweredIsRight, NothingFound
  <1>4. CASE InvalidateAll
    BY <1>4, NothingFound DEF InvalidateAll
  <1> QED
    BY <1>1, <1>2, <1>3, <1>4 DEF Next

(* If no key is a directory, too, the answers of info() and exists() were    *)
(* true at some moment of the call, however many threads share the cache; or *)
(* an entry gave them that a write has not invalidated yet or left behind.   *)
(* So nothing hides a path that is there all along.                          *)
THEOREM LookupsCorrect ==
  ASSUME FilesAreLeaves
  PROVE  Spec => LookupsAreTrue
  <1>1. Init => LookupInv
    BY DEF Init, LookupInv, EntriesExist, Knows
  <1>2. IInv /\ LookupInv /\ [Next]_vars => LookupInv'
    BY NextKnows
  <1>3. IInv /\ LookupInv /\ [Next]_vars
          => [\A c \in Clients :
                found'[c] # found[c] /\ found'[c] # NULL
                  => \/ found'[c] \in seen[c]
                     \/ found'[c] /\ call[c].path \in Pending \cup unsure
                     \/ call[c].path = Bucket /\ Root \in Pending \cup unsure]_vars
    BY NextIsRight DEF AnswersAreRight, Right
  <1> QED
    BY <1>1, <1>2, <1>3, Invariance, PTL DEF Spec, LookupsAreTrue
================================================================================
