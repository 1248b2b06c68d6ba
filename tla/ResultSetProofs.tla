---------------------------- MODULE ResultSetProofs ----------------------------
(* Proofs about ResultSet, for every value of its constants: the invariants  *)
(* for any number of fetchers, and for one the refinement of RowStream.      *)
EXTENDS ResultSet, SequenceTheorems, FiniteSetTheorems, TLAPS

(* The header is at most one row, the data rows are those behind it.         *)
LEMMA HeaderType ==
  ASSUME TypeOK
  PROVE  /\ nrows \in Nat /\ MaxRows \in Nat /\ nrows <= MaxRows
         /\ Header \in 0..1 /\ Header <= nrows
         /\ DataRows = (Header + 1)..nrows
  BY ResultsAssumption DEF TypeOK, Header, DataRows

(* An answer to a request with token t is a page of rows from t on; only the *)
(* answer behind the last row is empty, and a next token is behind the page. *)
LEMMA AnswerType ==
  ASSUME TypeOK, NEW t \in 1..nrows + 1, NEW a \in Answers(t)
  PROVE  /\ a.count \in Nat /\ t + a.count <= nrows + 1
         /\ Page(t, a.count) \in Seq(1..nrows)
         /\ Len(Page(t, a.count)) = a.count
         /\ \A j \in 1..a.count : Page(t, a.count)[j] = t + j - 1
         /\ a.next \in Tokens
         /\ a.next # NULL => a.next = t + a.count /\ a.next \in 1..nrows + 1
         /\ a.next = NULL => t + a.count = nrows + 1
         /\ a.count = 0 => t = nrows + 1 /\ a.next = NULL
<1>1. nrows \in Nat /\ MaxRows \in Nat /\ nrows <= MaxRows
  BY HeaderType
<1>2. /\ a.count \in 0..PageSize /\ a.next \in (1..MaxRows + 1) \cup {NULL}
      /\ t + a.count <= nrows + 1
      /\ a.count = 0 => t = nrows + 1
      /\ \/ a.next = t + a.count /\ a.count > 0
         \/ a.next = NULL /\ t + a.count = nrows + 1
  BY DEF Answers
<1>3. a.count \in Nat
  BY <1>2, ResultsAssumption
<1>4. Page(t, a.count) \in [1..a.count -> 1..nrows]
  BY <1>1, <1>2, <1>3 DEF Page
<1>5. Page(t, a.count) \in Seq(1..nrows) /\ Len(Page(t, a.count)) = a.count
  <2>1. Page(t, a.count) \in Seq(1..nrows)
    BY <1>3, <1>4, SeqDef
  <2>2. DOMAIN Page(t, a.count) = 1..a.count
    BY <1>4
  <2> QED
    BY <1>3, <2>1, <2>2, LenProperties
<1>6. \A j \in 1..a.count : Page(t, a.count)[j] = t + j - 1
  BY <1>3 DEF Page
<1>7. NULL \notin Nat
  BY ResultsAssumption
<1> QED
  BY <1>1, <1>2, <1>3, <1>5, <1>6, <1>7 DEF Tokens

(* What popleft() does to a deque of rows. *)
LEMMA PopFacts ==
  ASSUME NEW S, NEW d \in Seq(S), d # <<>>
  PROVE  /\ Len(d) \in Nat \ {0} /\ Head(d) = d[1] /\ Head(d) \in S
         /\ Tail(d) \in Seq(S) /\ Len(Tail(d)) = Len(d) - 1
         /\ \A j \in 1..Len(Tail(d)) : Tail(d)[j] = d[j + 1]
  BY HeadTailProperties, EmptySeq

(* A row that is popped is handed out: no row is lost from sight. *)
LEMMA PopKeepsFetched ==
  ASSUME TypeOK, NEW g, NEW d \in Seq(1..nrows), d # <<>>, NEW t, Fetched(g, d, t)
  PROVE  Fetched(g \cup {Head(d)}, Tail(d), t)
<1> SUFFICES ASSUME NEW i \in DataRows, i < t
             PROVE  i \in g \cup {Head(d)} \/ \E j \in 1..Len(Tail(d)) : Tail(d)[j] = i
  BY DEF Fetched
<1>1. CASE i \in g
  BY <1>1
<1>2. CASE \E j \in 1..Len(d) : d[j] = i
  <2>1. PICK j \in 1..Len(d) : d[j] = i
    BY <1>2
  <2>2. CASE j = 1
    BY <2>1, <2>2, PopFacts
  <2>3. CASE j # 1
    <3>1. j - 1 \in 1..Len(Tail(d)) /\ Tail(d)[j - 1] = d[(j - 1) + 1]
      BY <2>3, PopFacts
    <3>2. (j - 1) + 1 = j
      OBVIOUS
    <3> QED
      BY <2>1, <3>1, <3>2
  <2> QED
    BY <2>2, <2>3
<1> QED
  BY <1>1, <1>2 DEF Fetched

(* Rows put behind the others hide none of them. *)
LEMMA ConcatKeepsFetched ==
  ASSUME TypeOK, NEW g, NEW d \in Seq(1..nrows), NEW e \in Seq(1..nrows), NEW t,
         Fetched(g, d, t)
  PROVE  Fetched(g, d \o e, t)
<1> SUFFICES ASSUME NEW i \in DataRows, i < t, NEW j \in 1..Len(d), d[j] = i
             PROVE  \E k \in 1..Len(d \o e) : (d \o e)[k] = i
  BY DEF Fetched
<1>1. Len(d) \in Nat /\ Len(e) \in Nat
  BY LenProperties
<1>2. j \in 1..Len(d \o e) /\ (d \o e)[j] = d[j]
  BY <1>1, ConcatProperties
<1> QED
  BY <1>2

(* A page extends what is known to have arrived up to its end. *)
LEMMA PageExtends ==
  ASSUME TypeOK, NEW t \in 1..nrows + 1, NEW a \in Answers(t), Fetched(given, rows, t)
  PROVE  Fetched(given, rows \o Page(t, a.count), t + a.count)
<1> DEFINE e == Page(t, a.count)
<1>1. /\ a.count \in Nat /\ e \in Seq(1..nrows) /\ Len(e) = a.count
      /\ \A j \in 1..a.count : e[j] = t + j - 1
  BY AnswerType
<1>2. rows \in Seq(1..nrows) /\ nrows \in Nat
  BY HeaderType DEF TypeOK
<1>3. Len(rows) \in Nat
  BY <1>2, LenProperties
<1> HIDE DEF e
<1> SUFFICES ASSUME NEW i \in DataRows, i < t + a.count
             PROVE  i \in given \/ \E k \in 1..Len(rows \o e) : (rows \o e)[k] = i
  BY DEF Fetched, e
<1>4. i \in Nat
  BY <1>2 DEF DataRows
<1>5. CASE i < t
  BY <1>1, <1>2, <1>5, ConcatKeepsFetched DEF Fetched
<1>6. CASE i >= t
  <2>1. i - t + 1 \in 1..a.count
    BY <1>1, <1>4, <1>6
  <2>2. PICK j \in 1..a.count : j = i - t + 1
    BY <2>1
  <2>3. e[j] = i
    BY <1>1, <1>4, <2>2
  <2>4. /\ Len(rows) + j \in 1..Len(rows) + Len(e)
        /\ Len(rows) + j > Len(rows) /\ (Len(rows) + j) - Len(rows) = j
    BY <1>1, <1>3
  <2>5. Len(rows) + j \in 1..Len(rows \o e) /\ (rows \o e)[Len(rows) + j] = e[j]
    BY <1>1, <1>2, <2>4, ConcatProperties
  <2> QED
    BY <2>3, <2>5
<1> QED
  BY <1>4, <1>5, <1>6

(* The first row of a deque that lines up behind p is p + 1. *)
LEMMA PopKeepsLine ==
  ASSUME TypeOK, NEW p \in Header..nrows, NEW d \in Seq(1..nrows), d # <<>>, NEW t,
         LinedUp(p, d, t)
  PROVE  /\ Head(d) = p + 1 /\ p + 1 \in Header..nrows
         /\ LinedUp(p + 1, Tail(d), t)
         /\ (Header + 1)..p \cup {Head(d)} = (Header + 1)..(p + 1)
<1>1. nrows \in Nat /\ Header \in 0..1 /\ p \in Nat
  BY HeaderType
<1>2. /\ Len(d) \in Nat \ {0} /\ Head(d) = d[1] /\ Head(d) \in 1..nrows
      /\ Tail(d) \in Seq(1..nrows) /\ Len(Tail(d)) = Len(d) - 1
      /\ \A j \in 1..Len(Tail(d)) : Tail(d)[j] = d[j + 1]
  BY PopFacts
<1>3. Head(d) = p + 1
  BY <1>2 DEF LinedUp
<1>4. p + 1 \in Header..nrows
  BY <1>1, <1>2, <1>3
<1>5. \A j \in 1..Len(Tail(d)) : Tail(d)[j] = (p + 1) + j
  <2> SUFFICES ASSUME NEW j \in 1..Len(Tail(d))
               PROVE  Tail(d)[j] = (p + 1) + j
    OBVIOUS
  <2>1. j + 1 \in 1..Len(d)
    BY <1>2
  <2>2. d[j + 1] = p + (j + 1)
    BY <2>1 DEF LinedUp
  <2> QED
    BY <1>1, <1>2, <2>2
<1>6. IF t = NULL THEN (p + 1) + Len(Tail(d)) = nrows ELSE t = (p + 1) + Len(Tail(d)) + 1
  <2>1. (p + 1) + Len(Tail(d)) = p + Len(d)
    BY <1>1, <1>2
  <2> QED
    BY <2>1 DEF LinedUp
<1>7. (Header + 1)..p \cup {p + 1} = (Header + 1)..(p + 1)
  BY <1>1
<1> QED
  BY <1>3, <1>4, <1>5, <1>6, <1>7 DEF LinedUp

(* The page that was asked for when the deque was empty lines up again. *)
LEMMA PageLines ==
  ASSUME TypeOK, NEW p \in Header..nrows, NEW t \in 1..nrows + 1, LinedUp(p, <<>>, t),
         NEW a \in Answers(t)
  PROVE  LinedUp(p, Page(t, a.count), a.next)
<1>1. nrows \in Nat /\ p \in Nat
  BY HeaderType
<1>2. t # NULL
  BY <1>1, ResultsAssumption
<1>3. t = p + 1
  BY <1>1, <1>2, EmptySeq DEF LinedUp
<1>4. /\ a.count \in Nat /\ Len(Page(t, a.count)) = a.count
      /\ \A j \in 1..a.count : Page(t, a.count)[j] = t + j - 1
      /\ a.next # NULL => a.next = t + a.count
      /\ a.next = NULL => t + a.count = nrows + 1
  BY AnswerType
<1>5. \A j \in 1..a.count : Page(t, a.count)[j] = p + j
  BY <1>1, <1>3, <1>4
<1>6. p + a.count + 1 = t + a.count /\ (t + a.count = nrows + 1 => p + a.count = nrows)
  BY <1>1, <1>3, <1>4
<1> QED
  BY <1>4, <1>5, <1>6 DEF LinedUp

--------------------------------------------------------------------------------
(* What holds of a deque d and a next token t between two steps of a call on *)
(* an open result set.                                                       *)
Ready(d, t) ==
  /\ t \in Tokens
  /\ t # NULL => t <= nrows + 1 /\ Fetched(given, d, t)
  /\ t = NULL => Fetched(given, d, nrows + 1)
  /\ \A g \in Fetchers : pc[g] = "fetch" => Fetched(given, d, asked[g])
  /\ Alone => \E p \in Header..nrows : given = (Header + 1)..p /\ LinedUp(p, d, t)

(* It holds of the deque and the token of an open result set. *)
LEMMA OpenIsReady ==
  ASSUME IInv, Made, ~closed
  PROVE  Ready(rows, token)
  BY DEF IInv, TypeOK, NoneSkipped, InLine, Ready

(* It holds when the page that a fetcher awaits has arrived. *)
LEMMA ArrivalIsReady ==
  ASSUME IInv, Made, ~closed, NEW f \in Fetchers, pc[f] = "fetch",
         NEW a \in Answers(asked[f])
  PROVE  Ready(rows \o Page(asked[f], a.count), a.next)
<1> DEFINE e == Page(asked[f], a.count)
           d == rows \o e
<1>1. TypeOK /\ nrows \in Nat /\ rows \in Seq(1..nrows)
  BY HeaderType DEF IInv, TypeOK
<1>2. asked[f] \in 1..nrows + 1 /\ Fetched(given, rows, asked[f])
  BY DEF IInv, CallInOrder, NoneSkipped
<1>3. /\ a.count \in Nat /\ asked[f] + a.count <= nrows + 1
      /\ e \in Seq(1..nrows)
      /\ a.next \in Tokens
      /\ a.next # NULL => a.next = asked[f] + a.count /\ a.next \in 1..nrows + 1
      /\ a.next = NULL => asked[f] + a.count = nrows + 1
  BY <1>1, <1>2, AnswerType
<1>4. Fetched(given, d, asked[f] + a.count)
  BY <1>1, <1>2, PageExtends
<1>5. \A g \in Fetchers : pc[g] = "fetch" => Fetched(given, d, asked[g])
  BY <1>1, <1>3, ConcatKeepsFetched DEF IInv, NoneSkipped
<1>6. ASSUME Alone
      PROVE  \E p \in Header..nrows : given = (Header + 1)..p /\ LinedUp(p, d, a.next)
  <2>1. PICK p \in Header..nrows : given = (Header + 1)..p /\ LinedUp(p, rows, token)
    BY <1>6 DEF IInv, InLine
  <2>2. rows = <<>> /\ asked[f] = token
    BY <1>6 DEF IInv, InLine
  <2>3. LinedUp(p, e, a.next)
    BY <1>1, <1>2, <2>1, <2>2, PageLines
  <2>4. d = e
    BY <1>3, <2>2, ConcatEmptySeq
  <2> QED
    BY <2>1, <2>3, <2>4
<1>7. a.next # NULL => a.next <= nrows + 1 /\ Fetched(given, d, a.next)
  BY <1>1, <1>3, <1>4
<1>8. a.next = NULL => Fetched(given, d, nrows + 1)
  BY <1>3, <1>4
<1> QED
  BY <1>3, <1>5, <1>6, <1>7, <1>8 DEF Ready

(* A result that was there stays the same result. *)
LEMMA SameResult ==
  ASSUME UNCHANGED resultVars
  PROVE  /\ Header' = Header /\ DataRows' = DataRows
         /\ nrows' = nrows /\ labels' = labels
  BY DEF resultVars, Header, DataRows

(* The next state of NoneSkipped, about the same result. *)
LEMMA NoneSkippedNext ==
  ASSUME UNCHANGED resultVars,
         (Made' /\ ~closed') =>
           /\ token' # NULL => token' <= nrows + 1 /\ Fetched(given', rows', token')
           /\ token' = NULL => Fetched(given', rows', nrows + 1)
           /\ \A f \in Fetchers : pc'[f] = "fetch" => Fetched(given', rows', asked'[f])
  PROVE  NoneSkipped'
<1>1. nrows' = nrows /\ DataRows' = DataRows
  BY SameResult
<1>2. \A g, d, u : Fetched(g, d, u) <=> \A i \in DataRows' : i < u =>
                     i \in g \/ \E j \in 1..Len(d) : d[j] = i
  BY <1>1 DEF Fetched
<1> QED
  BY <1>1, <1>2 DEF NoneSkipped, Fetched

(* Only one fetcher is active when there is one. *)
LEMMA AloneMeansOnly ==
  ASSUME TypeOK, Alone
  PROVE  Only \in Fetchers /\ active = {Only}
<1>1. active \subseteq Fetchers /\ IsFiniteSet(active)
  BY FetchersAssumption, FS_Subset DEF TypeOK
<1>2. PICK f : active = {f}
  BY <1>1, FS_Singleton DEF Alone
<1> QED
  BY <1>1, <1>2 DEF Only

(* A call takes a row from the deque d, with the token t behind it. *)
LEMMA PopKeeps ==
  ASSUME IInv, Made, ~closed, NEW f \in active, f \in Fetchers, want[f] > 0,
         NEW t, NEW d \in Seq(1..nrows), d # <<>>, Ready(d, t),
         PopLeft(f, d), token' = t,
         asked' = asked \/ asked' = [asked EXCEPT ![f] = NULL],
         UNCHANGED <<resultVars, active, closed, calls, delivered, ended>>
  PROVE  IInv'
<1>1. /\ TypeOK /\ nrows \in Nat /\ DataRows' = DataRows /\ Header' = Header /\ nrows' = nrows
      /\ Header \in 0..1 /\ MaxRows \in Nat /\ NULL \notin Nat
  BY HeaderType, SameResult, ResultsAssumption DEF IInv
<1>2. /\ Len(d) \in Nat \ {0} /\ Head(d) \in 1..nrows /\ Tail(d) \in Seq(1..nrows)
  BY PopFacts
<1>3. rows' = Tail(d) /\ given' = given \cup {Head(d)} /\ pc' = [pc EXCEPT ![f] = "loop"]
      /\ closed' = closed /\ ended' = ended /\ delivered' = delivered /\ active' = active
      /\ token' = t
  BY DEF PopLeft, Goto
<1>4. asked' \in [Fetchers -> Tokens] /\ \A g \in Fetchers : g # f => asked'[g] = asked[g]
  BY <1>1 DEF TypeOK, Tokens
<1>5. want' \in [Fetchers -> 0..All]
  BY <1>1 DEF PopLeft, TypeOK, All
<1>6. got' \in [Fetchers -> Seq(1..nrows)]
  BY <1>2, <1>1, AppendProperties DEF PopLeft, TypeOK
<1>7. rownumber' \in Nat \cup {NULL}
  BY <1>1 DEF PopLeft, TypeOK
<1>8. TypeOK'
  BY <1>1, <1>2, <1>3, <1>4, <1>5, <1>6, <1>7 DEF TypeOK, Ready, resultVars, Tokens
<1>9. Made' /\ NothingBefore'
  BY <1>1, <1>3 DEF Made, NothingBefore, TypeOK
<1>10. \A g \in Fetchers : CallInOrder(g)'
  BY <1>1, <1>3, <1>4 DEF IInv, CallInOrder, PopLeft, TypeOK
<1>11. ClosedIsEmpty'
  BY <1>3 DEF ClosedIsEmpty
<1>12. \A u : Fetched(given, d, u) => Fetched(given', rows', u)
  BY <1>1, <1>3, PopKeepsFetched
<1>13. \A g \in Fetchers : pc'[g] = "fetch" => pc[g] = "fetch" /\ asked'[g] = asked[g]
  BY <1>1, <1>3, <1>4 DEF TypeOK
<1>14. NoneSkipped'
  BY <1>3, <1>12, <1>13, NoneSkippedNext DEF Ready
<1>15. EndMeansAllGiven'
  BY <1>1, <1>3 DEF IInv, EndMeansAllGiven
<1>16. InLine'
  <2> SUFFICES ASSUME Alone'
               PROVE  /\ \E p \in Header..nrows :
                           given' = (Header + 1)..p /\ LinedUp(p, rows', token')
                      /\ \A g \in Fetchers : pc'[g] # "fetch"
    BY <1>1 DEF InLine, LinedUp
  <2>1. Alone
    BY <1>3 DEF Alone
  <2>2. PICK p \in Header..nrows : given = (Header + 1)..p /\ LinedUp(p, d, t)
    BY <2>1 DEF Ready
  <2>3. p + 1 \in Header..nrows /\ LinedUp(p + 1, rows', token')
        /\ given' = (Header + 1)..(p + 1)
    BY <1>1, <1>3, <2>2, PopKeepsLine
  <2>4. \A g \in Fetchers : pc'[g] # "fetch"
    BY <1>1, <1>3, <2>1, AloneMeansOnly DEF IInv, CallInOrder, TypeOK
  <2> QED
    BY <2>3, <2>4
<1> QED
  BY <1>8, <1>9, <1>10, <1>11, <1>14, <1>15, <1>16 DEF IInv

(* A call returns: it holds nothing any more, and if it reports the end of   *)
(* an open result set, nothing is left in the deque or behind a token.       *)
LEMMA EndKeeps ==
  ASSUME IInv, Made, NEW f \in active, f \in Fetchers, EndCall(f),
         ~closed => Ready(rows, token'), token' \in Tokens,
         (want[f] > 0 /\ ~closed) => rows = <<>> /\ token' = NULL,
         asked' = asked \/ asked' = [asked EXCEPT ![f] = NULL],
         UNCHANGED <<resultVars, active, rows, closed, calls>>
  PROVE  IInv'
<1>1. /\ TypeOK /\ nrows \in Nat /\ DataRows' = DataRows /\ Header' = Header /\ nrows' = nrows
      /\ Header \in 0..1 /\ MaxRows \in Nat /\ NULL \notin Nat /\ DataRows \subseteq 1..nrows
  BY HeaderType, SameResult, ResultsAssumption DEF IInv
<1>2. /\ pc' = [pc EXCEPT ![f] = "idle"] /\ want' = [want EXCEPT ![f] = 0]
      /\ got' = [got EXCEPT ![f] = <<>>] /\ delivered' = delivered \o got[f]
      /\ given' = given /\ rownumber' = rownumber /\ ended' = (want[f] > 0)
  BY DEF EndCall, Goto
<1>3. asked' \in [Fetchers -> Tokens] /\ \A g \in Fetchers : g # f => asked'[g] = asked[g]
  BY <1>1 DEF TypeOK, Tokens
<1>4. delivered' \in Seq(1..nrows)
  BY <1>1, <1>2, ConcatProperties DEF TypeOK
<1>5. want' \in [Fetchers -> 0..All] /\ got' \in [Fetchers -> Seq(1..nrows)]
  BY <1>1, <1>2, EmptySeq DEF TypeOK, All
<1>6. TypeOK'
  BY <1>1, <1>2, <1>3, <1>4, <1>5 DEF TypeOK, resultVars, Tokens
<1>7. Made' /\ NothingBefore'
  BY <1>1, <1>2 DEF Made, NothingBefore, TypeOK
<1>8. \A g \in Fetchers : CallInOrder(g)'
  BY <1>1, <1>2, <1>3 DEF IInv, CallInOrder, TypeOK
<1>9. ClosedIsEmpty'
  BY DEF IInv, ClosedIsEmpty
<1>10. \A g \in Fetchers : pc'[g] = "fetch" => pc[g] = "fetch" /\ asked'[g] = asked[g]
  BY <1>1, <1>2, <1>3 DEF TypeOK
<1>11. NoneSkipped'
  BY <1>2, <1>10, NoneSkippedNext DEF Ready
<1>12. EndMeansAllGiven'
  <2> SUFFICES ASSUME want[f] > 0, ~closed, NEW i \in DataRows
               PROVE  i \in given
    BY <1>1, <1>2 DEF EndMeansAllGiven
  <2>1. Fetched(given, <<>>, nrows + 1)
    BY DEF Ready
  <2>2. i < nrows + 1
    BY <1>1
  <2> QED
    BY <2>1, <2>2, EmptySeq DEF Fetched
<1>13. InLine'
  <2> SUFFICES ASSUME Alone'
               PROVE  /\ \E p \in Header..nrows :
                           /\ given' = (Header + 1)..p
                           /\ ~closed => LinedUp(p, rows', token')
                      /\ \A g \in Fetchers : pc'[g] # "fetch"
    BY <1>1 DEF InLine, LinedUp
  <2>1. Alone
    BY DEF Alone
  <2>2. \A g \in Fetchers : pc'[g] # "fetch"
    BY <1>1, <1>2, <2>1, AloneMeansOnly DEF IInv, CallInOrder, TypeOK
  <2>3. CASE closed
    BY <1>2, <2>1, <2>2, <2>3 DEF IInv, InLine
  <2>4. CASE ~closed
    BY <1>2, <2>1, <2>2, <2>4 DEF Ready
  <2> QED
    BY <2>3, <2>4
<1> QED
  BY <1>6, <1>7, <1>8, <1>9, <1>11, <1>12, <1>13 DEF IInv

(* A call raises: only that call has changed. *)
LEMMA RaiseKeeps ==
  ASSUME IInv, Made, NEW f \in active, f \in Fetchers, RaiseError(f), UNCHANGED active
  PROVE  IInv'
<1>1. /\ TypeOK /\ nrows \in Nat /\ DataRows' = DataRows /\ Header' = Header /\ nrows' = nrows
      /\ MaxRows \in Nat /\ NULL \notin Nat
  BY HeaderType, SameResult, ResultsAssumption DEF IInv, RaiseError
<1>2. /\ pc' = [pc EXCEPT ![f] = "idle"] /\ want' = [want EXCEPT ![f] = 0]
      /\ got' = [got EXCEPT ![f] = <<>>] /\ asked' = [asked EXCEPT ![f] = NULL]
      /\ UNCHANGED <<resultVars, rows, token, rownumber, closed, calls, given, delivered, ended>>
  BY DEF RaiseError, Goto, dataVars, historyVars
<1>3. /\ want' \in [Fetchers -> 0..All] /\ got' \in [Fetchers -> Seq(1..nrows)]
      /\ asked' \in [Fetchers -> Tokens]
  BY <1>1, <1>2, EmptySeq DEF TypeOK, All, Tokens
<1>4. TypeOK'
  BY <1>1, <1>2, <1>3 DEF TypeOK, resultVars, Tokens
<1>5. Made' /\ NothingBefore'
  BY <1>1, <1>2 DEF Made, NothingBefore, TypeOK
<1>6. \A g \in Fetchers : CallInOrder(g)'
  BY <1>1, <1>2 DEF IInv, CallInOrder, TypeOK
<1>7. ClosedIsEmpty'
  BY <1>2 DEF IInv, ClosedIsEmpty
<1>8. \A g \in Fetchers : pc'[g] = "fetch" => pc[g] = "fetch" /\ asked'[g] = asked[g]
  BY <1>1, <1>2 DEF TypeOK
<1>9. NoneSkipped'
  BY <1>2, <1>8, NoneSkippedNext DEF IInv, NoneSkipped
<1>10. EndMeansAllGiven'
  BY <1>1, <1>2 DEF IInv, EndMeansAllGiven
<1>11. InLine'
  BY <1>1, <1>2, <1>5, <1>8 DEF IInv, InLine, LinedUp, Alone
<1> QED
  BY <1>4, <1>5, <1>6, <1>7, <1>9, <1>10, <1>11 DEF IInv

(* Whoever is inside a call is active, and the result set is made. *)
LEMMA InsideIsActive ==
  ASSUME IInv, NEW f \in Fetchers, pc[f] \notin {"new", "idle"}
  PROVE  Made /\ f \in active
  BY DEF IInv, CallInOrder, NothingBefore

(* Calling a fetch method. *)
LEMMA CallKeeps ==
  ASSUME IInv, NEW f \in Fetchers, NEW n \in 1..All, Call(f, n), UNCHANGED active
  PROVE  IInv'
<1>1. /\ TypeOK /\ nrows \in Nat /\ DataRows' = DataRows /\ Header' = Header /\ nrows' = nrows
      /\ MaxRows \in Nat /\ NULL \notin Nat
  BY HeaderType, SameResult, ResultsAssumption DEF IInv, Call
<1>2. /\ f \in active /\ pc[f] = "idle" /\ calls < MaxCalls(active)
      /\ pc' = [pc EXCEPT ![f] = "loop"] /\ want' = [want EXCEPT ![f] = n] /\ calls' = calls + 1
      /\ UNCHANGED <<resultVars, rows, token, rownumber, closed, asked, got, given, delivered, ended>>
  BY DEF Call, Goto, dataVars, historyVars
<1>3. want' \in [Fetchers -> 0..All] /\ calls' \in 0..MaxCalls(active)
  BY <1>1, <1>2, FetchersAssumption DEF TypeOK, All
<1>4. TypeOK'
  BY <1>1, <1>2, <1>3 DEF TypeOK, resultVars, Tokens
<1>5. Made /\ Made' /\ NothingBefore'
  BY <1>1, <1>2 DEF IInv, Made, NothingBefore, TypeOK
<1>6. \A g \in Fetchers : CallInOrder(g)'
  BY <1>1, <1>2 DEF IInv, CallInOrder, TypeOK
<1>7. ClosedIsEmpty'
  BY <1>2 DEF IInv, ClosedIsEmpty
<1>8. \A g \in Fetchers : pc'[g] = "fetch" => pc[g] = "fetch" /\ asked'[g] = asked[g]
  BY <1>1, <1>2 DEF TypeOK
<1>9. NoneSkipped'
  BY <1>2, <1>5, <1>8, NoneSkippedNext DEF IInv, NoneSkipped
<1>10. EndMeansAllGiven'
  BY <1>1, <1>2 DEF IInv, EndMeansAllGiven
<1>11. InLine'
  BY <1>1, <1>2, <1>5, <1>8 DEF IInv, InLine, LinedUp, Alone
<1> QED
  BY <1>4, <1>5, <1>6, <1>7, <1>9, <1>10, <1>11 DEF IInv

(* The next page is asked for, or the call raises after close(). *)
LEMMA RequestPageKeeps ==
  ASSUME IInv, NEW f \in Fetchers, RequestPage(f), UNCHANGED active
  PROVE  IInv'
<1>0. Made /\ f \in active
  BY InsideIsActive DEF RequestPage
<1>1. /\ TypeOK /\ nrows \in Nat /\ MaxRows \in Nat /\ NULL \notin Nat
  BY HeaderType, ResultsAssumption DEF IInv
<1>2. CASE closed
  BY <1>0, <1>2, RaiseKeeps DEF RequestPage
<1>3. CASE ~closed
  <2>1. /\ pc[f] = "loop" /\ want[f] > 0 /\ rows = <<>> /\ token # NULL
        /\ pc' = [pc EXCEPT ![f] = "fetch"] /\ asked' = [asked EXCEPT ![f] = token]
        /\ UNCHANGED <<resultVars, rows, token, rownumber, closed, want, got, calls, given,
                       delivered, ended>>
    BY <1>3 DEF RequestPage, Goto, dataVars, historyVars
  <2>2. DataRows' = DataRows /\ Header' = Header /\ nrows' = nrows
    BY <2>1, SameResult
  <2>3. token \in 1..nrows + 1 /\ Fetched(given, rows, token)
    BY <1>0, <1>1, <1>3, <2>1 DEF IInv, TypeOK, Tokens, NoneSkipped
  <2>4. TypeOK'
    BY <1>1, <2>1, <2>2 DEF TypeOK, resultVars, Tokens, All
  <2>5. Made' /\ NothingBefore'
    BY <1>0, <1>1, <2>1 DEF Made, NothingBefore, TypeOK
  <2>6. \A g \in Fetchers : CallInOrder(g)'
    BY <1>0, <1>1, <2>1, <2>2, <2>3 DEF IInv, CallInOrder, TypeOK
  <2>7. ClosedIsEmpty'
    BY <2>1 DEF IInv, ClosedIsEmpty
  <2>8. \A g \in Fetchers : pc'[g] = "fetch" =>
           \/ g = f /\ asked'[g] = token
           \/ g # f /\ pc[g] = "fetch" /\ asked'[g] = asked[g]
    BY <1>1, <2>1 DEF TypeOK
  <2>9. NoneSkipped'
    BY <1>0, <2>1, <2>3, <2>8, NoneSkippedNext DEF IInv, NoneSkipped
  <2>10. EndMeansAllGiven'
    BY <2>1, <2>2 DEF IInv, EndMeansAllGiven
  <2>11. InLine'
    BY <1>0, <2>1, <2>2, <2>8 DEF IInv, InLine, LinedUp, Alone
  <2> QED
    BY <2>4, <2>5, <2>6, <2>7, <2>9, <2>10, <2>11 DEF IInv
<1> QED
  BY <1>2, <1>3

(* A row is taken from the deque. *)
LEMMA TakeRowKeeps ==
  ASSUME IInv, NEW f \in Fetchers, TakeRow(f), UNCHANGED active
  PROVE  IInv'
<1>1. Made /\ f \in active
  BY InsideIsActive DEF TakeRow
<1>2. ~closed /\ rows \in Seq(1..nrows) /\ rows # <<>>
  BY DEF IInv, ClosedIsEmpty, TypeOK, TakeRow
<1>3. Ready(rows, token)
  BY <1>1, <1>2, OpenIsReady
<1> QED
  BY <1>1, <1>2, <1>3, PopKeeps DEF TakeRow

(* A page arrives: its first row is taken, or there is none. *)
LEMMA PageAnsweredKeeps ==
  ASSUME IInv, NEW f \in Fetchers, PageAnswered(f), UNCHANGED active
  PROVE  IInv'
<1>1. Made /\ f \in active /\ pc[f] = "fetch"
  BY InsideIsActive DEF PageAnswered
<1>2. /\ TypeOK /\ nrows \in Nat /\ rows \in Seq(1..nrows) /\ want[f] > 0
      /\ asked[f] \in 1..nrows + 1
  BY <1>1, HeaderType DEF IInv, TypeOK, CallInOrder
<1>3. PICK a \in Answers(asked[f]) :
        /\ token' = a.next
        /\ \/ /\ Arrived(asked[f], a.count) # <<>>
              /\ PopLeft(f, Arrived(asked[f], a.count)) /\ UNCHANGED <<delivered, ended>>
           \/ Arrived(asked[f], a.count) = <<>> /\ EndCall(f) /\ UNCHANGED rows
  BY DEF PageAnswered, NextToken
<1>4. asked' = [asked EXCEPT ![f] = NULL] /\ UNCHANGED <<resultVars, closed, calls>>
  BY DEF PageAnswered
<1>5. /\ Page(asked[f], a.count) \in Seq(1..nrows) /\ a.next \in Tokens
      /\ Len(Page(asked[f], a.count)) = a.count
      /\ a.count = 0 => a.next = NULL
  BY <1>2, AnswerType
<1>6. CASE closed
  <2>1. Arrived(asked[f], a.count) = <<>>
    BY <1>6 DEF Arrived, IInv, ClosedIsEmpty
  <2> QED
    BY <1>1, <1>3, <1>4, <1>5, <1>6, <2>1, EndKeeps
<1>7. CASE ~closed
  <2>1. /\ Arrived(asked[f], a.count) = rows \o Page(asked[f], a.count)
        /\ Arrived(asked[f], a.count) \in Seq(1..nrows)
    BY <1>2, <1>5, <1>7, ConcatProperties DEF Arrived
  <2>2. Ready(Arrived(asked[f], a.count), a.next)
    BY <1>1, <1>7, <2>1, ArrivalIsReady
  <2>3. CASE Arrived(asked[f], a.count) # <<>>
    BY <1>1, <1>2, <1>3, <1>4, <1>7, <2>1, <2>2, <2>3, PopKeeps
  <2>4. CASE Arrived(asked[f], a.count) = <<>>
    <3>1. rows = <<>> /\ Page(asked[f], a.count) = <<>>
      <4>1. Len(rows) + Len(Page(asked[f], a.count)) = 0
        BY <1>2, <1>5, <2>1, <2>4, ConcatProperties, EmptySeq
      <4>2. Len(rows) \in Nat /\ Len(Page(asked[f], a.count)) \in Nat
        BY <1>2, <1>5, LenProperties
      <4> QED
        BY <1>2, <1>5, <4>1, <4>2, EmptySeq
    <3>2. a.next = NULL
      BY <1>5, <3>1, EmptySeq
    <3> QED
      BY <1>1, <1>2, <1>3, <1>4, <1>5, <2>2, <2>4, <3>1, <3>2, EndKeeps
  <2> QED
    BY <2>3, <2>4
<1> QED
  BY <1>6, <1>7

(* A call returns that has its rows, or finds neither a row nor a token. *)
LEMMA ReturnKeeps ==
  ASSUME IInv, NEW f \in Fetchers, Return(f), UNCHANGED active
  PROVE  IInv'
<1>1. Made /\ f \in active
  BY InsideIsActive DEF Return
<1>2. ~closed => Ready(rows, token)
  BY <1>1, OpenIsReady
<1>3. token \in Tokens
  BY DEF IInv, TypeOK
<1>4. want[f] > 0 => rows = <<>> /\ token = NULL
  BY DEF IInv, TypeOK, Return
<1> QED
  BY <1>1, <1>2, <1>3, <1>4, EndKeeps DEF Return

(* close(): the rows and the token are gone. *)
LEMMA CloseKeeps ==
  ASSUME IInv, Close, UNCHANGED active
  PROVE  IInv'
<1>1. /\ rows' = <<>> /\ token' = NULL /\ rownumber' = NULL /\ closed' = TRUE
      /\ UNCHANGED <<resultVars, pc, asked, want, got, calls, given, delivered, ended>>
  BY DEF Close, callVars, historyVars
<1>2. DataRows' = DataRows /\ Header' = Header /\ nrows' = nrows /\ labels' = labels
  BY <1>1, SameResult
<1>3. TypeOK'
  BY <1>1, <1>2, EmptySeq DEF IInv, TypeOK, Tokens
<1>4. Made /\ Made' /\ NothingBefore'
  BY <1>1 DEF Close, Made, NothingBefore
<1>5. \A g \in Fetchers : CallInOrder(g)'
  BY <1>1, <1>2 DEF IInv, CallInOrder
<1>6. ClosedIsEmpty' /\ NoneSkipped' /\ EndMeansAllGiven'
  BY <1>1 DEF ClosedIsEmpty, NoneSkipped, EndMeansAllGiven
<1>7. InLine'
  BY <1>1, <1>2 DEF IInv, InLine, Alone
<1> QED
  BY <1>3, <1>4, <1>5, <1>6, <1>7 DEF IInv

(* The first page, without its header row, lines up behind the header. *)
LEMMA FirstPage ==
  ASSUME TypeOK, NEW a \in Answers(1)
  PROVE  LET d == SubSeq(Page(1, a.count), Header + 1, a.count) IN
         /\ d \in Seq(1..nrows) /\ LinedUp(Header, d, a.next)
         /\ a.next \in Tokens
         /\ \A u \in Nat : u <= Header + Len(d) + 1 => Fetched({}, d, u)
         /\ Len(d) \in Nat
<1> DEFINE e == Page(1, a.count)
           d == SubSeq(e, Header + 1, a.count)
<1>1. nrows \in Nat /\ Header \in 0..1 /\ Header <= nrows /\ DataRows = (Header + 1)..nrows
  BY HeaderType
<1>2. 1 \in 1..nrows + 1
  BY <1>1
<1>3. /\ a.count \in Nat /\ 1 + a.count <= nrows + 1
      /\ e \in Seq(1..nrows) /\ Len(e) = a.count
      /\ \A j \in 1..a.count : e[j] = 1 + j - 1
      /\ a.next \in Tokens
      /\ a.next # NULL => a.next = 1 + a.count
      /\ a.next = NULL => 1 + a.count = nrows + 1
      /\ a.count = 0 => 1 = nrows + 1 /\ a.next = NULL
  BY <1>2, AnswerType
<1> HIDE DEF e
<1>4. Header <= a.count
  BY <1>1, <1>3
<1>5. \A i \in (Header + 1)..a.count : e[i] \in 1..nrows
  BY <1>1, <1>3
<1>6. /\ d \in Seq(1..nrows)
      /\ Len(d) = IF Header + 1 <= a.count THEN a.count - (Header + 1) + 1 ELSE 0
      /\ \A j \in 1..(a.count - (Header + 1) + 1) : d[j] = e[(Header + 1) + j - 1]
  BY <1>1, <1>3, <1>5, SubSeqProperties
<1> HIDE DEF d
<1>7. Len(d) \in Nat /\ Header + Len(d) = a.count
  <2>1. Len(d) = IF Header + 1 <= a.count THEN a.count - (Header + 1) + 1 ELSE 0
    BY <1>6
  <2>2. a.count \in Nat /\ Header \in Nat
    BY <1>1, <1>3
  <2> QED
    BY <1>4, <2>1, <2>2
<1>8. \A j \in 1..Len(d) : d[j] = Header + j
  <2> SUFFICES ASSUME NEW j \in 1..Len(d) PROVE d[j] = Header + j
    OBVIOUS
  <2>1. j \in 1..(a.count - (Header + 1) + 1) /\ (Header + 1) + j - 1 \in 1..a.count
    BY <1>1, <1>3, <1>7
  <2>2. d[j] = e[(Header + 1) + j - 1]
    BY <1>6, <2>1
  <2>3. e[(Header + 1) + j - 1] = 1 + ((Header + 1) + j - 1) - 1
    BY <1>3, <2>1
  <2> QED
    BY <1>1, <1>7, <2>2, <2>3
<1>9. LinedUp(Header, d, a.next)
  BY <1>1, <1>3, <1>7, <1>8 DEF LinedUp
<1>10. ASSUME NEW u \in Nat, u <= Header + Len(d) + 1
       PROVE  Fetched({}, d, u)
  <2> SUFFICES ASSUME NEW i \in DataRows, i < u
               PROVE  \E j \in 1..Len(d) : d[j] = i
    BY DEF Fetched
  <2>1. i \in (Header + 1)..nrows
    BY <1>1
  <2>2. i - Header \in 1..Len(d) /\ Header + (i - Header) = i
    BY <1>1, <1>7, <1>10, <2>1
  <2> QED
    BY <1>8, <2>2
<1> QED
  BY <1>3, <1>6, <1>7, <1>9, <1>10 DEF d, e

(* The result set is made from the first page. *)
LEMMA PreFetchKeeps ==
  ASSUME IInv, PreFetch, UNCHANGED active
  PROVE  IInv'
<1>1. PICK a \in Answers(1) :
        rows' = SubSeq(Page(1, a.count), Header + 1, a.count) /\ token' = a.next
  BY DEF PreFetch
<1>2. /\ \A f \in Fetchers : pc[f] = "new"
      /\ pc' = [f \in Fetchers |-> "idle"]
      /\ UNCHANGED <<resultVars, rownumber, closed, asked, want, got, calls, given, delivered, ended>>
  BY DEF PreFetch, historyVars
<1>3. /\ TypeOK /\ nrows \in Nat /\ DataRows' = DataRows /\ Header' = Header /\ nrows' = nrows
      /\ Header \in 0..1 /\ Header <= nrows /\ NULL \notin Nat
  BY <1>2, HeaderType, SameResult, ResultsAssumption DEF IInv
<1>4. ~Made
  BY <1>2, FetchersAssumption DEF Made
<1>5. given = {} /\ ~ended /\ ~closed
  BY <1>4 DEF IInv, NothingBefore
<1>6. /\ rows' \in Seq(1..nrows) /\ LinedUp(Header, rows', token') /\ token' \in Tokens
      /\ \A u \in Nat : u <= Header + Len(rows') + 1 => Fetched({}, rows', u)
      /\ Len(rows') \in Nat
  BY <1>1, <1>3, FirstPage
<1>7. TypeOK'
  BY <1>2, <1>3, <1>6 DEF TypeOK, resultVars, Tokens
<1>8. Made' /\ NothingBefore'
  BY <1>2 DEF Made, NothingBefore
<1>9. \A g \in Fetchers : CallInOrder(g)'
  BY <1>2, <1>3 DEF IInv, CallInOrder
<1>10. ClosedIsEmpty' /\ EndMeansAllGiven'
  BY <1>2, <1>5 DEF ClosedIsEmpty, EndMeansAllGiven
<1>11. NoneSkipped'
  <2>1. CASE token' = NULL
    <3>1. Fetched({}, rows', nrows + 1)
      BY <1>3, <1>6, <2>1 DEF LinedUp
    <3> QED
      BY <1>2, <1>5, <2>1, <3>1, NoneSkippedNext
  <2>2. CASE token' # NULL
    <3>1. token' = Header + Len(rows') + 1
      BY <1>6, <2>2 DEF LinedUp
    <3>2. token' \in 1..MaxRows + 1 /\ token' \in Nat
      BY <1>3, <1>6, <2>2, <3>1 DEF Tokens
    <3>3. Fetched({}, rows', token')
      BY <1>3, <1>6, <3>1, <3>2
    <3>4. token' <= nrows + 1
      <4>1. a.next # NULL => a.next \in 1..nrows + 1
        BY <1>3, AnswerType
      <4> QED
        BY <1>1, <1>3, <2>2, <4>1
    <3> QED
      BY <1>2, <1>5, <2>2, <3>3, <3>4, NoneSkippedNext
  <2> QED
    BY <2>1, <2>2
<1>12. InLine'
  <2>1. (Header + 1)..Header = {} /\ Header \in Header..nrows
    BY <1>3
  <2> QED
    BY <1>2, <1>3, <1>5, <1>6, <2>1 DEF InLine, LinedUp
<1> QED
  BY <1>7, <1>8, <1>9, <1>10, <1>11, <1>12 DEF IInv

(* Before the first page, nothing has happened. *)
LEMMA InitGood == Init => IInv
<1> SUFFICES ASSUME Init PROVE IInv
  OBVIOUS
<1>1. /\ nrows \in 0..MaxRows /\ labels \in SUBSET (1..nrows) /\ active \in Crowds
      /\ rows = <<>> /\ token = NULL /\ rownumber = 0 /\ closed = FALSE
      /\ pc = [f \in Fetchers |-> "new"] /\ asked = [f \in Fetchers |-> NULL]
      /\ want = [f \in Fetchers |-> 0] /\ got = [f \in Fetchers |-> <<>>]
      /\ calls = 0 /\ given = {} /\ delivered = <<>> /\ ended = FALSE
  BY DEF Init, ResultsInit
<1>2. TypeOK
  <2>1. MaxRows \in Nat /\ MaxCalls(active) \in Nat
    BY <1>1, ResultsAssumption, FetchersAssumption
  <2>2. rows \in Seq(1..nrows) /\ delivered \in Seq(1..nrows)
    BY <1>1, EmptySeq
  <2>3. got \in [Fetchers -> Seq(1..nrows)] /\ want \in [Fetchers -> 0..All]
    BY <1>1, <2>1, EmptySeq DEF All
  <2>4. pc \in [Fetchers -> {"new", "idle", "loop", "fetch"}] /\ asked \in [Fetchers -> Tokens]
    BY <1>1 DEF Tokens
  <2>5. calls \in 0..MaxCalls(active) /\ rownumber \in Nat /\ token \in Tokens
    BY <1>1, <2>1 DEF Tokens
  <2>6. nrows \in 0..MaxRows /\ labels \subseteq 1..nrows /\ given \subseteq 1..nrows
    BY <1>1
  <2> QED
    BY <1>1, <2>2, <2>3, <2>4, <2>5, <2>6 DEF TypeOK
<1>3. ~Made
  BY <1>1, FetchersAssumption DEF Made
<1>4. InLine
  <2>1. Header \in Header..nrows /\ (Header + 1)..Header = {}
    BY <1>2, HeaderType
  <2> QED
    BY <1>1, <1>3, <2>1 DEF InLine
<1> QED
  BY <1>1, <1>2, <1>3, <1>4
  DEF IInv, NothingBefore, CallInOrder, ClosedIsEmpty, NoneSkipped, EndMeansAllGiven

(* A step that changes nothing keeps the invariant. *)
LEMMA StutterKeeps ==
  ASSUME IInv, UNCHANGED vars
  PROVE  IInv'
<1>1. UNCHANGED <<nrows, labels, active, rows, token, rownumber, closed, pc, asked, want, got,
                  calls, given, delivered, ended>>
  BY DEF vars, resultVars, dataVars, callVars, historyVars
<1> QED
  BY <1>1 DEF IInv, TypeOK, Made, NothingBefore, CallInOrder, ClosedIsEmpty, NoneSkipped,
              EndMeansAllGiven, InLine, DataRows, Header, Fetched, LinedUp, Alone

(* The invariant is inductive. *)
LEMMA StepKeeps == IInv /\ [Next]_vars => IInv'
<1> SUFFICES ASSUME IInv, [Next]_vars PROVE IInv'
  OBVIOUS
<1>1. CASE PreFetch /\ UNCHANGED active
  BY <1>1, PreFetchKeeps
<1>2. ASSUME NEW f \in Fetchers, NEW n \in 1..All, Call(f, n), UNCHANGED active
      PROVE  IInv'
  BY <1>2, CallKeeps
<1>3. ASSUME NEW f \in Fetchers, CallStep(f)
      PROVE  IInv'
  <2>1. UNCHANGED active
    BY <1>3 DEF CallStep
  <2>2. CASE TakeRow(f)
    BY <2>1, <2>2, TakeRowKeeps
  <2>3. CASE RequestPage(f)
    BY <2>1, <2>3, RequestPageKeeps
  <2>4. CASE PageAnswered(f)
    BY <2>1, <2>4, PageAnsweredKeeps
  <2>5. CASE PageFails(f)
    <3>1. Made /\ f \in active
      BY <2>5, InsideIsActive DEF PageFails
    <3> QED
      BY <2>1, <2>5, <3>1, RaiseKeeps DEF PageFails
  <2>6. CASE Return(f)
    BY <2>1, <2>6, ReturnKeeps
  <2> QED
    BY <1>3, <2>2, <2>3, <2>4, <2>5, <2>6 DEF CallStep
<1>4. CASE Close /\ UNCHANGED active
  BY <1>4, CloseKeeps
<1>5. CASE UNCHANGED vars
  BY <1>5, StutterKeeps
<1> QED
  BY <1>1, <1>2, <1>3, <1>4, <1>5 DEF Next

(* The inductive invariant holds in every state of every behaviour. *)
THEOREM Invariance == Spec => []IInv
<1> QED
  BY InitGood, StepKeeps, PTL DEF Spec

(* Every variable has its type: rows that are handed out or delivered are    *)
(* rows of the result, and no token points behind it.                        *)
THEOREM TypeCorrect == Spec => []TypeOK
<1>1. IInv => TypeOK
  BY DEF IInv
<1> QED
  BY <1>1, Invariance, PTL

(* The end of the data is reported only after every data row was handed out, *)
(* or after close(), however many tasks fetch (_fetch, fetchone).            *)
THEOREM EndCorrect == Spec => []EndMeansAllGiven
<1>1. IInv => EndMeansAllGiven
  BY DEF IInv
<1> QED
  BY <1>1, Invariance, PTL

(* No page that arrives after close() leaves rows in a closed result set.    *)
THEOREM ClosedCorrect == Spec => []ClosedIsEmpty
<1>1. IInv => ClosedIsEmpty
  BY DEF IInv
<1> QED
  BY <1>1, Invariance, PTL

--------------------------------------------------------------------------------
(* The refinement of RowStream.                                              *)

(* The rows that are handed out, in numbers: all of them are, when the       *)
(* position has reached the end.                                             *)
LEMMA Counting ==
  ASSUME TypeOK, NEW p \in Header..nrows, NEW g, g = (Header + 1)..p
  PROVE  /\ Cardinality(g) = p - Header
         /\ Cardinality(DataRows) = nrows - Header
         /\ p - Header \in Nat /\ nrows - Header \in Nat
<1>1. nrows \in Nat /\ Header \in 0..1 /\ Header <= nrows /\ DataRows = (Header + 1)..nrows
  BY HeaderType
<1>2. p \in Int /\ Header + 1 \in Int /\ nrows \in Int
  BY <1>1
<1>3. /\ Cardinality((Header + 1)..p) = IF Header + 1 > p THEN 0 ELSE p - (Header + 1) + 1
      /\ Cardinality((Header + 1)..nrows) =
           IF Header + 1 > nrows THEN 0 ELSE nrows - (Header + 1) + 1
  BY <1>2, FS_Interval
<1> QED
  BY <1>1, <1>3

(* Shifting commutes with appending a row and with joining two sequences. *)
LEMMA ShiftAppend ==
  ASSUME TypeOK, NEW s \in Seq(1..nrows), NEW x \in 1..nrows
  PROVE  Shift(Append(s, x)) = Append(Shift(s), x - Header)
<1>1. Header \in Int
  BY HeaderType
<1>2. DOMAIN s = 1..Len(s) /\ Len(s) \in Nat /\ \A i \in 1..Len(s) : s[i] \in 1..nrows
  BY LenProperties, ElementOfSeq
<1>3. /\ Append(s, x) \in Seq(1..nrows) /\ Len(Append(s, x)) = Len(s) + 1
      /\ \A i \in 1..Len(s) : Append(s, x)[i] = s[i]
      /\ Append(s, x)[Len(s) + 1] = x
  BY AppendProperties
<1>4. DOMAIN Append(s, x) = 1..Len(s) + 1
  BY <1>3, LenProperties
<1>5. Shift(s) = [i \in 1..Len(s) |-> s[i] - Header]
  BY <1>2 DEF Shift
<1>6. Shift(s) \in Seq(Int) /\ Len(Shift(s)) = Len(s)
  <2>1. Shift(s) \in [1..Len(s) -> Int]
    BY <1>1, <1>2, <1>5
  <2>2. Shift(s) \in Seq(Int)
    BY <1>2, <2>1, SeqDef
  <2> QED
    BY <1>2, <2>1, <2>2, LenProperties
<1>7. /\ Append(Shift(s), x - Header) \in Seq(Int)
      /\ Len(Append(Shift(s), x - Header)) = Len(s) + 1
      /\ \A i \in 1..Len(s) : Append(Shift(s), x - Header)[i] = Shift(s)[i]
      /\ Append(Shift(s), x - Header)[Len(s) + 1] = x - Header
  <2>1. x - Header \in Int
    BY <1>1
  <2> QED
    BY <1>6, <2>1, AppendProperties
<1>8. Shift(Append(s, x)) = [i \in 1..Len(s) + 1 |-> Append(s, x)[i] - Header]
  BY <1>4 DEF Shift
<1>9. Shift(Append(s, x)) \in Seq(Int) /\ Len(Shift(Append(s, x))) = Len(s) + 1
  <2>0. \A i \in 1..Len(s) + 1 : Append(s, x)[i] \in 1..nrows
    BY <1>3, ElementOfSeq
  <2>1. \A i \in 1..Len(s) + 1 : Append(s, x)[i] - Header \in Int
    BY <1>1, <2>0
  <2>2. Shift(Append(s, x)) \in [1..Len(s) + 1 -> Int]
    BY <1>8, <2>1
  <2>3. Len(s) + 1 \in Nat
    BY <1>2
  <2>4. Shift(Append(s, x)) \in Seq(Int)
    BY <2>2, <2>3, SeqDef
  <2> QED
    BY <2>2, <2>3, <2>4, LenProperties
<1>10. ASSUME NEW i \in 1..Len(s) + 1
       PROVE  Shift(Append(s, x))[i] = Append(Shift(s), x - Header)[i]
  <2>1. CASE i = Len(s) + 1
    BY <1>3, <1>7, <1>8, <2>1
  <2>2. CASE i # Len(s) + 1
    <3>1. i \in 1..Len(s)
      BY <1>2, <2>2
    <3> QED
      BY <1>3, <1>5, <1>7, <1>8, <3>1
  <2> QED
    BY <2>1, <2>2
<1> QED
  BY <1>7, <1>9, <1>10, SeqEqual

(* The same for joining two sequences. *)
LEMMA ShiftConcat ==
  ASSUME TypeOK, NEW s \in Seq(1..nrows), NEW r \in Seq(1..nrows)
  PROVE  Shift(s \o r) = Shift(s) \o Shift(r)
<1>1. Header \in Int
  BY HeaderType
<1>2. ASSUME NEW q \in Seq(1..nrows)
      PROVE  /\ Len(q) \in Nat /\ Shift(q) \in Seq(Int) /\ Len(Shift(q)) = Len(q)
             /\ \A i \in 1..Len(q) : Shift(q)[i] = q[i] - Header
  <2>1. DOMAIN q = 1..Len(q) /\ Len(q) \in Nat /\ \A i \in 1..Len(q) : q[i] \in 1..nrows
    BY LenProperties, ElementOfSeq
  <2>2. Shift(q) = [i \in 1..Len(q) |-> q[i] - Header]
    BY <2>1 DEF Shift
  <2>3. Shift(q) \in [1..Len(q) -> Int]
    BY <1>1, <2>1, <2>2
  <2>4. Shift(q) \in Seq(Int)
    BY <2>1, <2>3, SeqDef
  <2>5. Len(Shift(q)) = Len(q)
    BY <2>1, <2>3, <2>4, LenProperties
  <2> QED
    BY <2>1, <2>2, <2>4, <2>5
<1>3. /\ s \o r \in Seq(1..nrows) /\ Len(s \o r) = Len(s) + Len(r)
      /\ \A i \in 1..Len(s) + Len(r) :
           (s \o r)[i] = IF i <= Len(s) THEN s[i] ELSE r[i - Len(s)]
  BY ConcatProperties
<1>4. /\ Shift(s) \o Shift(r) \in Seq(Int)
      /\ Len(Shift(s) \o Shift(r)) = Len(s) + Len(r)
      /\ \A i \in 1..Len(s) + Len(r) :
           (Shift(s) \o Shift(r))[i] = IF i <= Len(s) THEN Shift(s)[i] ELSE Shift(r)[i - Len(s)]
  <2>1. /\ Shift(s) \in Seq(Int) /\ Len(Shift(s)) = Len(s)
        /\ Shift(r) \in Seq(Int) /\ Len(Shift(r)) = Len(r)
    BY <1>2
  <2> HIDE DEF Shift
  <2>2. /\ Shift(s) \o Shift(r) \in Seq(Int)
        /\ Len(Shift(s) \o Shift(r)) = Len(Shift(s)) + Len(Shift(r))
        /\ \A i \in 1..Len(Shift(s)) + Len(Shift(r)) :
             (Shift(s) \o Shift(r))[i] =
               IF i <= Len(Shift(s)) THEN Shift(s)[i] ELSE Shift(r)[i - Len(Shift(s))]
    BY <2>1, ConcatProperties
  <2> QED
    BY <2>1, <2>2
<1>5. ASSUME NEW i \in 1..Len(s) + Len(r)
      PROVE  Shift(s \o r)[i] = (Shift(s) \o Shift(r))[i]
  <2>1. Shift(s \o r)[i] = (s \o r)[i] - Header
    BY <1>2, <1>3
  <2>2. CASE i <= Len(s)
    <3>1. i \in 1..Len(s)
      BY <1>2, <2>2
    <3> QED
      BY <1>2, <1>3, <1>4, <2>1, <2>2, <3>1
  <2>3. CASE ~(i <= Len(s))
    <3>1. i - Len(s) \in 1..Len(r)
      BY <1>2, <2>3
    <3> QED
      BY <1>2, <1>3, <1>4, <2>1, <2>3, <3>1
  <2> QED
    BY <2>2, <2>3
<1> QED
  BY <1>2, <1>3, <1>4, <1>5, SeqEqual

(* While the result is the same and the same fetchers are active, the        *)
(* mapping reads the variables through the same definitions.                 *)
LEMMA SameMapping ==
  ASSUME UNCHANGED <<resultVars, active>>
  PROVE  /\ Alone' = Alone /\ Only' = Only
         /\ Cardinality(DataRows)' = Cardinality(DataRows)
         /\ Shift(got[Only])' = Shift(got'[Only])
         /\ Shift(delivered)' = Shift(delivered')
         /\ Cardinality(given)' = Cardinality(given')
<1>1. DataRows' = DataRows /\ Header' = Header
  BY SameResult
<1> QED
  BY <1>1 DEF Alone, Only, Shift

(* With several fetchers the abstract state stands still. *)
LEMMA CrowdStutters ==
  ASSUME ~Alone, UNCHANGED active
  PROVE  UNCHANGED Stream!streamVars
<1>1. ~Alone'
  BY DEF Alone
<1> QED
  BY <1>1 DEF Stream!streamVars

(* Taking a row from the deque is Take. *)
LEMMA PopRefines ==
  ASSUME IInv, Alone, ~closed, NEW f \in active, f \in Fetchers,
         NEW t, NEW d \in Seq(1..nrows), d # <<>>, Ready(d, t),
         PopLeft(f, d), UNCHANGED <<resultVars, active, closed, delivered, ended>>
  PROVE  Stream!Take
<1>1. TypeOK
  BY DEF IInv
<1>2. f = Only
  BY <1>1, AloneMeansOnly
<1>3. PICK p \in Header..nrows : given = (Header + 1)..p /\ LinedUp(p, d, t)
  BY DEF Ready
<1>4. /\ Head(d) = p + 1 /\ p + 1 \in Header..nrows
      /\ given' = (Header + 1)..(p + 1)
  BY <1>1, <1>3, PopKeepsLine DEF PopLeft
<1>5. /\ Cardinality(given) = p - Header /\ Cardinality(given') = (p + 1) - Header
      /\ Cardinality(DataRows) = nrows - Header
  BY <1>1, <1>3, <1>4, Counting
<1>6. nrows \in Nat /\ Header \in 0..1 /\ p \in Nat /\ Head(d) \in 1..nrows
  BY <1>1, <1>4, HeaderType, PopFacts
<1>7. Cardinality(given) < Cardinality(DataRows)
  BY <1>4, <1>5, <1>6
<1>8. Cardinality(given') = Cardinality(given) + 1
  BY <1>5, <1>6
<1>9. Shift(got'[Only]) = Append(Shift(got[Only]), Cardinality(given) + 1)
  <2>1. got'[Only] = Append(got[Only], Head(d)) /\ got[Only] \in Seq(1..nrows)
    BY <1>1, <1>2 DEF PopLeft, TypeOK
  <2>2. Head(d) - Header = Cardinality(given) + 1
    BY <1>4, <1>5, <1>6
  <2> QED
    BY <1>1, <1>6, <2>1, <2>2, ShiftAppend
<1>10. Shift(delivered') = Shift(delivered)
  OBVIOUS
<1>11. closed' = closed /\ ended' = ended
  OBVIOUS
<1> QED
  BY <1>7, <1>8, <1>9, <1>10, <1>11, SameMapping DEF Stream!Take

(* The rows collected so far are delivered: Return. *)
LEMMA EndRefines ==
  ASSUME IInv, Alone, NEW f \in active, f \in Fetchers, EndCall(f),
         ~closed => Ready(rows, token'),
         (want[f] > 0 /\ ~closed) => rows = <<>> /\ token' = NULL,
         UNCHANGED <<resultVars, active, closed>>
  PROVE  Stream!Return
<1>1. TypeOK
  BY DEF IInv
<1>2. f = Only
  BY <1>1, AloneMeansOnly
<1>3. /\ got[Only] \in Seq(1..nrows) /\ delivered \in Seq(1..nrows)
      /\ got'[Only] = <<>> /\ delivered' = delivered \o got[Only]
      /\ given' = given /\ ended' = (want[f] > 0) /\ closed' = closed
  BY <1>1, <1>2 DEF EndCall, TypeOK
<1>4. Shift(delivered') = Shift(delivered) \o Shift(got[Only])
  BY <1>1, <1>3, ShiftConcat
<1>5. Shift(got'[Only]) = <<>>
  BY <1>3 DEF Shift
<1>6. (want[f] > 0 /\ ~closed) => Cardinality(given) = Cardinality(DataRows)
  <2> SUFFICES ASSUME want[f] > 0, ~closed
               PROVE  Cardinality(given) = Cardinality(DataRows)
    OBVIOUS
  <2>1. PICK p \in Header..nrows : given = (Header + 1)..p /\ LinedUp(p, <<>>, NULL)
    BY DEF Ready
  <2>2. p = nrows
    BY <1>1, <2>1, HeaderType, EmptySeq DEF LinedUp
  <2> QED
    BY <1>1, <2>1, <2>2, Counting
<1>7. (Alone' /\ ended') \in {FALSE, Cardinality(given) = Cardinality(DataRows) \/ (Alone /\ closed)}
  BY <1>3, <1>6, SameMapping
<1>8. Alone' = Alone /\ Alone
  BY SameMapping
<1>9. (IF Alone THEN Shift(delivered) ELSE <<>>)' =
        (IF Alone THEN Shift(delivered) ELSE <<>>) \o (IF Alone THEN Shift(got[Only]) ELSE <<>>)
  BY <1>4, <1>8, SameMapping
<1>10. (IF Alone THEN Shift(got[Only]) ELSE <<>>)' = <<>>
  BY <1>5, <1>8, SameMapping
<1>11. (Alone /\ ended)' \in
         {FALSE, (IF Alone THEN Cardinality(given) ELSE 0)
                   = (IF Alone THEN Cardinality(DataRows) ELSE 0) \/ (Alone /\ closed)}
  BY <1>7, <1>8
<1>12. UNCHANGED <<IF Alone THEN Cardinality(DataRows) ELSE 0,
                   IF Alone THEN Cardinality(given) ELSE 0, Alone /\ closed>>
  BY <1>3, <1>8, SameMapping
<1> QED
  BY <1>9, <1>10, <1>11, <1>12 DEF Stream!Return

(* An error loses what the call has collected: Fail. *)
LEMMA RaiseRefines ==
  ASSUME IInv, Alone, NEW f \in active, f \in Fetchers, RaiseError(f), UNCHANGED active
  PROVE  Stream!Fail
<1>1. f = Only
  BY AloneMeansOnly DEF IInv
<1>2. /\ got'[Only] = <<>>
      /\ UNCHANGED <<resultVars, given, delivered, ended, closed>>
  BY <1>1 DEF RaiseError, IInv, TypeOK, dataVars, historyVars
<1>3. Shift(got'[Only]) = <<>>
  BY <1>2 DEF Shift
<1> QED
  BY <1>2, <1>3, SameMapping DEF Stream!Fail

(* Steps that touch neither rows handed out nor what a call holds stutter. *)
LEMMA OthersStutter ==
  ASSUME UNCHANGED <<resultVars, active, got, given, delivered, ended, closed>>
  PROVE  UNCHANGED Stream!streamVars
  BY SameMapping DEF Stream!streamVars

(* Every step of the pages is a step of the row stream, or none. *)
LEMMA StepRefines == IInv /\ [Next]_vars => [Stream!Next]_(Stream!streamVars)
<1> SUFFICES ASSUME IInv, [Next]_vars
             PROVE  [Stream!Next]_(Stream!streamVars)
  OBVIOUS
<1>1. UNCHANGED active
  BY DEF Next, CallStep, vars
<1>2. CASE ~Alone
  BY <1>1, <1>2, CrowdStutters
<1>3. CASE Alone
  <2>1. CASE PreFetch
    BY <1>1, <2>1, OthersStutter DEF PreFetch, historyVars
  <2>2. ASSUME NEW f \in Fetchers, NEW n \in 1..All, Call(f, n)
        PROVE  UNCHANGED Stream!streamVars
    BY <1>1, <2>2, OthersStutter DEF Call, historyVars, dataVars
  <2>3. ASSUME NEW f \in Fetchers, TakeRow(f)
        PROVE  Stream!Take
    <3>1. Made /\ f \in active
      BY <2>3, InsideIsActive DEF TakeRow
    <3>2. ~closed /\ rows \in Seq(1..nrows) /\ rows # <<>>
      BY <2>3 DEF IInv, ClosedIsEmpty, TypeOK, TakeRow
    <3>3. Ready(rows, token)
      BY <3>1, <3>2, OpenIsReady
    <3> QED
      BY <1>1, <1>3, <2>3, <3>1, <3>2, <3>3, PopRefines DEF TakeRow
  <2>4. ASSUME NEW f \in Fetchers, RequestPage(f)
        PROVE  Stream!Fail \/ UNCHANGED Stream!streamVars
    <3>1. f \in active
      BY <2>4, InsideIsActive DEF RequestPage
    <3>2. CASE closed
      BY <1>1, <1>3, <2>4, <3>1, <3>2, RaiseRefines DEF RequestPage
    <3>3. CASE ~closed
      BY <1>1, <2>4, <3>3, OthersStutter DEF RequestPage, historyVars, dataVars
    <3> QED
      BY <3>2, <3>3
  <2>5. ASSUME NEW f \in Fetchers, PageAnswered(f)
        PROVE  Stream!Take \/ Stream!Return
    <3>1. Made /\ f \in active /\ pc[f] = "fetch"
      BY <2>5, InsideIsActive DEF PageAnswered
    <3>2. PICK a \in Answers(asked[f]) :
            /\ token' = a.next
            /\ \/ /\ Arrived(asked[f], a.count) # <<>>
                  /\ PopLeft(f, Arrived(asked[f], a.count)) /\ UNCHANGED <<delivered, ended>>
               \/ Arrived(asked[f], a.count) = <<>> /\ EndCall(f) /\ UNCHANGED rows
      BY <2>5 DEF PageAnswered, NextToken
    <3>3. UNCHANGED <<resultVars, closed>>
      BY <2>5 DEF PageAnswered
    <3>4. CASE closed
      <4>1. Arrived(asked[f], a.count) = <<>>
        BY <3>4 DEF Arrived, IInv, ClosedIsEmpty
      <4> QED
        BY <1>1, <1>3, <3>1, <3>2, <3>3, <3>4, <4>1, EndRefines
    <3>5. CASE ~closed
      <4>1. /\ TypeOK /\ rows \in Seq(1..nrows) /\ asked[f] \in 1..nrows + 1
        BY <3>1 DEF IInv, TypeOK, CallInOrder
      <4>2. /\ Page(asked[f], a.count) \in Seq(1..nrows)
            /\ Len(Page(asked[f], a.count)) = a.count
            /\ a.count = 0 => a.next = NULL
        BY <4>1, AnswerType
      <4>3. /\ Arrived(asked[f], a.count) = rows \o Page(asked[f], a.count)
            /\ Arrived(asked[f], a.count) \in Seq(1..nrows)
        BY <3>5, <4>1, <4>2, ConcatProperties DEF Arrived
      <4>4. Ready(Arrived(asked[f], a.count), a.next)
        BY <3>1, <3>5, <4>3, ArrivalIsReady
      <4>5. CASE Arrived(asked[f], a.count) # <<>>
        BY <1>1, <1>3, <3>1, <3>2, <3>3, <3>5, <4>3, <4>4, <4>5, PopRefines
      <4>6. CASE Arrived(asked[f], a.count) = <<>>
        <5>1. Len(rows) + Len(Page(asked[f], a.count)) = 0
          BY <4>1, <4>2, <4>3, <4>6, ConcatProperties, EmptySeq
        <5>2. Len(rows) \in Nat /\ Len(Page(asked[f], a.count)) \in Nat
          BY <4>1, <4>2, LenProperties
        <5>3. rows = <<>> /\ a.next = NULL
          BY <4>1, <4>2, <5>1, <5>2, EmptySeq
        <5> QED
          BY <1>1, <1>3, <3>1, <3>2, <3>3, <4>4, <4>6, <5>3, EndRefines
      <4> QED
        BY <4>5, <4>6
    <3> QED
      BY <3>4, <3>5
  <2>6. ASSUME NEW f \in Fetchers, PageFails(f)
        PROVE  Stream!Fail
    <3>1. f \in active
      BY <2>6, InsideIsActive DEF PageFails
    <3> QED
      BY <1>1, <1>3, <2>6, <3>1, RaiseRefines DEF PageFails
  <2>7. ASSUME NEW f \in Fetchers, Return(f)
        PROVE  Stream!Return
    <3>1. Made /\ f \in active
      BY <2>7, InsideIsActive DEF Return
    <3>2. ~closed => Ready(rows, token)
      BY <3>1, OpenIsReady
    <3>3. want[f] > 0 => rows = <<>> /\ token = NULL
      BY <2>7 DEF IInv, TypeOK, Return
    <3> QED
      BY <1>1, <1>3, <2>7, <3>1, <3>2, <3>3, EndRefines DEF Return
  <2>8. CASE Close
    <3>1. /\ UNCHANGED <<resultVars, got, given, delivered, ended>> /\ closed' = TRUE
      BY <2>8 DEF Close, callVars, historyVars
    <3>2. Stream!Close
      BY <1>1, <1>3, <3>1, SameMapping DEF Stream!Close
    <3> QED
      BY <3>2 DEF Stream!Next
  <2>9. CASE UNCHANGED vars
    BY <2>9, OthersStutter DEF vars, callVars, historyVars, dataVars
  <2> QED
    BY <2>1, <2>2, <2>3, <2>4, <2>5, <2>6, <2>7, <2>8, <2>9
    DEF Next, CallStep, Stream!Next
<1> QED
  BY <1>2, <1>3

(* The initial states map to the initial state of a stream. *)
LEMMA InitRefines == Init => Stream!Init
<1> SUFFICES ASSUME Init PROVE Stream!Init
  OBVIOUS
<1>1. /\ given = {} /\ delivered = <<>> /\ ended = FALSE /\ closed = FALSE
      /\ got = [f \in Fetchers |-> <<>>] /\ TypeOK
  BY InitGood DEF Init, IInv
<1>2. Cardinality(DataRows) \in Nat /\ Cardinality(given) = 0
  <2>1. Header \in Header..nrows /\ (Header + 1)..Header = {}
    BY <1>1, HeaderType
  <2> QED
    BY <1>1, <2>1, Counting, FS_EmptySet
<1>3. Alone => Shift(got[Only]) = <<>>
  BY <1>1, AloneMeansOnly DEF Shift
<1>4. Shift(delivered) = <<>>
  BY <1>1 DEF Shift
<1> QED
  BY <1>1, <1>2, <1>3, <1>4 DEF Stream!Init

(* With one fetcher, fetchone, fetchmany and fetchall over pages implement   *)
(* the row stream: in order, each row once, to the end (or to close()).      *)
THEOREM Refinement == Spec => ImplementsRowStream
<1>1. Init => Stream!Init
  BY InitRefines
<1>2. IInv /\ [Next]_vars => [Stream!Next]_(Stream!streamVars)
  BY StepRefines
<1> QED
  BY <1>1, <1>2, Invariance, PTL DEF Spec, ImplementsRowStream, Stream!Spec
================================================================================
