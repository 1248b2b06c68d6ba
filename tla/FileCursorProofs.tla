---------------------------- MODULE FileCursorProofs ----------------------------
(* Proofs about FileCursor, for every value of its constants.                *)
EXTENDS FileCursor, Integers, SequenceTheorems, WellFoundedInduction, TLAPS

(* A set of natural numbers that is not empty has a least one. *)
LEMMA LeastNumber ==
  ASSUME NEW T, T \subseteq Nat, T # {}
  PROVE  \E x \in T : \A y \in T : ~(y < x)
<1> DEFINE R == OpToRel(<, Nat)
<1>1. IsWellFoundedOn(R, Nat)
  BY NatLessThanWellFounded, Zenon
<1>2. \A x, y \in Nat : <<y, x>> \in R <=> y < x
  BY DEF OpToRel
<1> HIDE DEF R
<1>3. \E x \in T : \A y \in T : ~(<<y, x>> \in R)
  BY <1>1, WFMin
<1>4. QED BY <1>2, <1>3

(* Induction, with a set in the place of a predicate. *)
LEMMA Induction ==
  ASSUME NEW n \in Nat, NEW T, 0 \in T,
         \A i \in 0..n : i \in T /\ i + 1 \in 0..n => i + 1 \in T
  PROVE  \A i \in 0..n : i \in T
<1> SUFFICES ASSUME NEW k \in 0..n, k \notin T PROVE FALSE
  OBVIOUS
<1> DEFINE B == {i \in 0..n : i \notin T}
<1>1. PICK x \in B : \A y \in B : ~(y < x)
  BY LeastNumber, B \subseteq Nat, k \in B
<1>2. x \in 0..n /\ x # 0 /\ x - 1 \in 0..n /\ x - 1 < x
  BY <1>1
<1>3. x - 1 \in T
  BY <1>1, <1>2
<1>4. QED BY <1>1, <1>2, <1>3

--------------------------------------------------------------------------------
(* The rows from a to b, as a sequence. *)
Stretch(a, b) == [x \in 1..(b - a) |-> a + x]

(* It is one, and a run. *)
LEMMA StretchIsRun ==
  ASSUME NEW a \in Nat, NEW b \in Nat, a <= b
  PROVE  /\ Stretch(a, b) \in Seq(Nat) /\ Len(Stretch(a, b)) = b - a
         /\ Run(Stretch(a, b), a)
<1>1. b - a \in Nat /\ \A x \in 1..(b - a) : a + x \in Nat
  OBVIOUS
<1>2. Stretch(a, b) \in [1..(b - a) -> Nat]
  BY <1>1 DEF Stretch
<1>3. Stretch(a, b) \in Seq(Nat)
  BY <1>1, <1>2, SeqDef
<1>4. Len(Stretch(a, b)) = b - a
  BY <1>1, <1>2, <1>3, LenProperties
<1>5. QED BY <1>3, <1>4 DEF Stretch, Run

(* A run is a stretch. *)
LEMMA RunIsStretch ==
  ASSUME NEW s \in Seq(Nat), NEW a \in Nat, NEW b \in Nat, a <= b, Len(s) = b - a, Run(s, a)
  PROVE  s = Stretch(a, b)
<1>1. /\ Stretch(a, b) \in Seq(Nat) /\ Len(Stretch(a, b)) = b - a
      /\ Run(Stretch(a, b), a)
  BY StretchIsRun
<1>2. \A i \in 1..Len(s) : s[i] = Stretch(a, b)[i]
  BY <1>1 DEF Run
<1>3. QED BY <1>1, <1>2, SeqEqual

(* Two runs, one after the other, are one. *)
LEMMA RunsJoin ==
  ASSUME NEW s \in Seq(Nat), NEW t \in Seq(Nat), NEW a \in Nat, Run(s, a), Run(t, a + Len(s))
  PROVE  Run(s \o t, a)
<1>1. Len(s) \in Nat /\ Len(t) \in Nat
  BY LenProperties
<1>2. Len(s \o t) = Len(s) + Len(t)
  BY ConcatProperties
<1>3. ASSUME NEW i \in 1..(Len(s) + Len(t)) PROVE (s \o t)[i] = a + i
  <2>1. (s \o t)[i] = IF i <= Len(s) THEN s[i] ELSE t[i - Len(s)]
    BY ConcatProperties
  <2>2. CASE i <= Len(s)
    BY <1>1, <2>1, <2>2 DEF Run
  <2>3. CASE ~(i <= Len(s))
    <3>1. i - Len(s) \in 1..Len(t)
      BY <1>1, <2>3
    <3>2. t[i - Len(s)] = a + Len(s) + (i - Len(s))
      BY <3>1 DEF Run
    <3>3. QED BY <1>1, <2>1, <2>3, <3>2
  <2>4. QED BY <2>2, <2>3
<1>4. QED BY <1>2, <1>3 DEF Run

(* The cuts are rows, in order. *)
LEMMA CutOrder ==
  ASSUME NEW n \in Nat, NEW chunks, NEW L \in Nat, L = Len(chunks),
         NEW e \in [0..L -> 0..n], Cut(chunks, e, n)
  PROVE  \A i \in 0..L :
           /\ e[0] \in Nat /\ e[i] \in Nat /\ e[0] <= e[i] /\ e[i] <= n
           /\ i # 0 => e[i - 1] \in Nat /\ e[i - 1] <= e[i] /\ e[0] <= e[i - 1]
<1>1. \A i, k \in 0..L : i <= k => e[i] <= e[k]
  BY DEF Cut
<1>2. \A i \in 0..L : e[i] \in Nat /\ e[i] <= n
  OBVIOUS
<1>3. \A i \in 0..L : i # 0 => i - 1 \in 0..L /\ i - 1 <= i /\ 0 <= i - 1
  OBVIOUS
<1>4. QED BY <1>1, <1>2, <1>3

(* What a cut says of a chunk: its rows are those between two cuts. *)
LEMMA CutChunk ==
  ASSUME NEW n \in Nat, NEW chunks \in Seq(Seq(Nat)), NEW L \in Nat, L = Len(chunks),
         NEW e \in [0..L -> 0..n], Cut(chunks, e, n)
  PROVE  \A i \in 1..L : chunks[i] = Stretch(e[i - 1], e[i])
<1>1. \A i \in 0..L :
         /\ e[0] \in Nat /\ e[i] \in Nat /\ e[0] <= e[i] /\ e[i] <= n
         /\ i # 0 => e[i - 1] \in Nat /\ e[i - 1] <= e[i] /\ e[0] <= e[i - 1]
  BY CutOrder
<1>2. ASSUME NEW i \in 1..L
      PROVE  chunks[i] = Stretch(e[i - 1], e[i])
  <2>1. chunks[i] \in Seq(Nat)
    BY ElementOfSeq
  <2>2. Run(chunks[i], e[i - 1]) /\ Len(chunks[i]) = e[i] - e[i - 1]
    BY DEF Cut
  <2>3. e[i - 1] \in Nat /\ e[i] \in Nat /\ e[i - 1] <= e[i]
    BY <1>1
  <2>4. QED BY <2>1, <2>2, <2>3, RunIsStretch
<1>3. QED BY <1>2

(* FlattenSeq joins the chunks: every row that is left, in order. *)
LEMMA FlattenCut ==
  ASSUME NEW n \in Nat, NEW chunks \in Seq(Seq(Nat)), NEW L \in Nat, L = Len(chunks),
         NEW e \in [0..L -> 0..n], Cut(chunks, e, n)
  PROVE  FlattenSeq(chunks) = Stretch(e[0], n)
<1>a. \A i \in 1..L : chunks[i] = Stretch(e[i - 1], e[i])
  BY CutChunk, ZenonT(40)
<1>b. \A i \in 0..L :
         /\ e[0] \in Nat /\ e[i] \in Nat /\ e[0] <= e[i] /\ e[i] <= n
         /\ i # 0 => e[i - 1] \in Nat /\ e[i - 1] <= e[i] /\ e[0] <= e[i - 1]
  BY CutOrder
<1>c. ASSUME NEW i \in 1..L
      PROVE  /\ e[0] \in Nat /\ e[i - 1] \in Nat /\ e[i] \in Nat
             /\ e[0] <= e[i - 1] /\ e[i - 1] <= e[i]
             /\ chunks[i] = Stretch(e[i - 1], e[i])
  BY <1>a, <1>b
<1>1. CASE L = 0
  <2>1. chunks = <<>>
    BY <1>1, EmptySeq
  <2>2. e[0] = n
    BY <1>1 DEF Cut
  <2>3. Stretch(n, n) \in Seq(Nat) /\ Len(Stretch(n, n)) = 0
    BY StretchIsRun
  <2>4. Stretch(n, n) = <<>>
    BY <2>3, EmptySeq
  <2>5. QED BY <1>1, <2>1, <2>2, <2>4 DEF FlattenSeq
<1>2. CASE L # 0
  <2> DEFINE Joined(f) ==
        [i \in 1..Len(chunks) |-> IF i = 1 THEN chunks[i] ELSE f[i - 1] \o chunks[i]]
             f == CHOOSE g : g = Joined(g)
             h == [i \in 1..Len(chunks) |-> Stretch(e[0], e[i])]
  <2>1. FlattenSeq(chunks) = f[L]
    BY <1>2 DEF FlattenSeq
  <2>2. ASSUME NEW i \in 1..L, i # 1
        PROVE  Stretch(e[0], e[i - 1]) \o chunks[i] = Stretch(e[0], e[i])
    <3>1. /\ e[0] \in Nat /\ e[i - 1] \in Nat /\ e[i] \in Nat
          /\ e[0] <= e[i - 1] /\ e[i - 1] <= e[i]
          /\ chunks[i] = Stretch(e[i - 1], e[i])
      BY <1>c
    <3>2. PICK a \in Nat, b \in Nat, d \in Nat : a = e[0] /\ b = e[i - 1] /\ d = e[i]
      BY <3>1
    <3>3. PICK s : s = Stretch(a, b)
      OBVIOUS
    <3>4. PICK t : t = Stretch(b, d)
      OBVIOUS
    <3>5. a <= b /\ b <= d
      BY <3>1, <3>2
    <3>6. /\ s \in Seq(Nat) /\ Len(s) = b - a /\ Run(s, a)
          /\ t \in Seq(Nat) /\ Len(t) = d - b /\ Run(t, b)
      BY <3>3, <3>4, <3>5, StretchIsRun
    <3>7. s \o t \in Seq(Nat) /\ Len(s \o t) = Len(s) + Len(t)
      BY <3>6, ConcatProperties
    <3>8. Run(s \o t, a)
      <4>1. a + Len(s) = b
        BY <3>5, <3>6
      <4>2. QED BY <3>6, <4>1, RunsJoin
    <3>9. Len(s \o t) = d - a /\ a <= d
      BY <3>5, <3>6, <3>7
    <3>10. s \o t = Stretch(a, d)
      BY <3>7, <3>8, <3>9, RunIsStretch
    <3>11. QED BY <3>1, <3>2, <3>3, <3>4, <3>10
  <2>3. chunks[1] = Stretch(e[0], e[1])
    <3>1. 1 \in 1..L /\ 1 - 1 = 0
      BY <1>2
    <3>2. QED BY <3>1, <1>c
  <2>4. h = Joined(h)
    <3>1. ASSUME NEW i \in 1..Len(chunks)
          PROVE  Stretch(e[0], e[i]) =
                   IF i = 1 THEN chunks[i] ELSE h[i - 1] \o chunks[i]
      <4>1. CASE i = 1
        BY <4>1, <2>3
      <4>2. CASE i # 1
        <5>1. i \in 1..L /\ i - 1 \in 1..Len(chunks)
          BY <3>1, <4>2
        <5>2. h[i - 1] = Stretch(e[0], e[i - 1])
          BY <5>1
        <5>3. QED BY <4>2, <5>1, <5>2, <2>2
      <4>3. QED BY <4>1, <4>2
    <3>2. QED BY <3>1
  <2>5. f = Joined(f)
    BY <2>4, Zenon
  <2>6. \A i \in 1..L : f[i] = IF i = 1 THEN chunks[i] ELSE f[i - 1] \o chunks[i]
    BY <2>5, Zenon
  <2>7. \A i \in 1..L : h[i] = IF i = 1 THEN chunks[i] ELSE h[i - 1] \o chunks[i]
    BY <2>4
  <2>8. h[L] = Stretch(e[0], e[L])
    BY <1>2
  <2> HIDE DEF f, h
  <2> DEFINE T == {k \in 0..L : k = 0 \/ f[k] = h[k]}
  <2>9. ASSUME NEW i \in 0..L, i \in T, i + 1 \in 0..L PROVE i + 1 \in T
    <3>1. i + 1 \in 1..L /\ (i + 1) - 1 = i
      BY <2>9
    <3>2. CASE i = 0
      BY <3>1, <3>2, <2>6, <2>7
    <3>3. CASE i # 0
      <4>1. f[i] = h[i]
        BY <2>9, <3>3
      <4>2. f[i + 1] = h[i + 1]
        BY <3>1, <3>3, <4>1, <2>6, <2>7
      <4>3. QED BY <2>9, <4>2
    <3>4. QED BY <3>2, <3>3
  <2>10. 0 \in T
    OBVIOUS
  <2> HIDE DEF T
  <2>11. \A i \in 0..L : i \in T
    BY <2>9, <2>10, Induction
  <2>12. f[L] = h[L]
    BY <1>2, <2>11 DEF T
  <2>13. e[L] = n
    BY DEF Cut
  <2>14. QED BY <2>1, <2>8, <2>12, <2>13
<1>3. QED BY <1>1, <1>2

--------------------------------------------------------------------------------
(* The members of a sequence. *)
LEMMA ToSetIs ==
  ASSUME NEW s \in Seq(Nat)
  PROVE  /\ \A x : x \in ToSet(s) <=> \E i \in 1..Len(s) : s[i] = x
         /\ ToSet(s) \subseteq Nat
<1>1. DOMAIN s = 1..Len(s) /\ \A i \in 1..Len(s) : s[i] \in Nat
  BY LenProperties, ElementOfSeq
<1>2. QED BY <1>1 DEF ToSet

(* Two sequences, one after the other: an operator of its own, for a name    *)
(* is what the provers match lemmas by.                                      *)
Join(s, t) == s \o t

(* The rows of M are now in place p. *)
Move(w, M, p) == [r \in DOMAIN w |-> IF r \in M THEN p ELSE w[r]]

(* A place that rows move neither to nor from. *)
LEMMA MoveElsewhere ==
  ASSUME NEW n \in Nat, NEW w \in [1..n -> Places], NEW M, NEW p, NEW q, NEW s, InPlace(w, p, s), p # q,
         \A r \in M : r \in DOMAIN w => w[r] # p
  PROVE  InPlace(Move(w, M, q), p, s)
BY DEF InPlace, Move

(* The rows that move to q come after those that are there. *)
LEMMA MoveAppends ==
  ASSUME NEW n \in Nat, NEW w \in [1..n -> Places], NEW M, NEW q, NEW s \in Seq(Nat), NEW u \in Seq(Nat), InPlace(w, q, s),
         \A r : r \in M <=> \E i \in 1..Len(u) : u[i] = r,
         \A r \in M : r \in DOMAIN w /\ w[r] # q,
         \A i, k \in 1..Len(u) : u[i] = u[k] => i = k
  PROVE  InPlace(Move(w, M, q), q, Join(s, u))
<1>1. Len(s) \in Nat /\ Len(u) \in Nat /\ Len(s \o u) = Len(s) + Len(u)
  BY LenProperties, ConcatProperties
<1>2. PICK a \in Nat, b \in Nat : a = Len(s) /\ b = Len(u)
  BY <1>1
<1>3. \A i \in 1..(a + b) : (s \o u)[i] = IF i <= a THEN s[i] ELSE u[i - a]
  BY <1>2, ConcatProperties
<1>4. \A i \in 1..(a + b) : i <= a => i \in 1..a
  OBVIOUS
<1>5. \A i \in 1..(a + b) : ~(i <= a) => i - a \in 1..b
  OBVIOUS
<1>6. PICK c : c = s \o u
  OBVIOUS
<1>7. PICK v : v = Move(w, M, q)
  OBVIOUS
<1>8. /\ DOMAIN v = DOMAIN w
      /\ \A r \in DOMAIN w : v[r] = IF r \in M THEN q ELSE w[r]
  BY <1>7 DEF Move
<1>9. \A i \in 1..a : s[i] \in DOMAIN w /\ w[s[i]] = q /\ s[i] \notin M
  BY <1>2 DEF InPlace
<1>10. \A i \in 1..b : u[i] \in M /\ u[i] \in DOMAIN w /\ w[u[i]] # q
  BY <1>2
<1>11. ASSUME NEW i \in 1..(a + b) PROVE c[i] \in DOMAIN v /\ v[c[i]] = q
  <2>1. CASE i <= a
    BY <1>3, <1>4, <1>6, <1>8, <1>9, <2>1, ZenonT(40)
  <2>2. CASE ~(i <= a)
    <3>1. PICK k \in 1..b : k = i - a
      BY <1>5, <2>2
    <3>2. c[i] = u[k]
      BY <1>3, <1>6, <2>2, <3>1
    <3>3. QED BY <1>8, <1>10, <3>2
  <2>3. QED BY <2>1, <2>2
<1>12. ASSUME NEW r \in DOMAIN v, v[r] = q PROVE \E i \in 1..(a + b) : c[i] = r
  <2>1. CASE r \in M
    <3>1. PICK k \in 1..b : u[k] = r
      BY <1>2, <2>1
    <3>2. k + a \in 1..(a + b) /\ ~(k + a <= a) /\ (k + a) - a = k
      OBVIOUS
    <3>3. c[k + a] = r
      BY <1>3, <1>6, <3>1, <3>2
    <3>4. QED BY <3>2, <3>3
  <2>2. CASE r \notin M
    <3>1. PICK k \in 1..a : s[k] = r
      BY <1>2, <1>8, <1>12, <2>2 DEF InPlace
    <3>2. k \in 1..(a + b) /\ k <= a
      OBVIOUS
    <3>3. c[k] = r
      BY <1>3, <1>6, <3>1, <3>2
    <3>4. QED BY <3>2, <3>3
  <2>3. QED BY <2>1, <2>2
<1>13. ASSUME NEW i \in 1..(a + b), NEW k \in 1..(a + b), c[i] = c[k] PROVE i = k
  <2>1. CASE i <= a /\ k <= a
    <3>1. c[i] = s[i] /\ c[k] = s[k] /\ i \in 1..a /\ k \in 1..a
      BY <1>3, <1>4, <1>6, <2>1
    <3>2. s[i] = s[k]
      BY <1>13, <3>1
    <3>3. QED BY <1>2, <3>1, <3>2 DEF InPlace
  <2>2. CASE ~(i <= a) /\ ~(k <= a)
    <3>1. c[i] = u[i - a] /\ c[k] = u[k - a] /\ i - a \in 1..b /\ k - a \in 1..b
      BY <1>3, <1>5, <1>6, <2>2
    <3>2. i - a = k - a
      BY <1>2, <1>13, <3>1
    <3>3. QED BY <3>2
  <2>3. CASE (i <= a) # (k <= a)
    <3>1. ASSUME NEW x \in 1..(a + b), NEW y \in 1..(a + b), x <= a, ~(y <= a)
          PROVE  c[x] # c[y]
      <4>1. c[x] = s[x] /\ x \in 1..a
        BY <1>3, <1>4, <1>6, <3>1
      <4>2. PICK l \in 1..b : l = y - a
        BY <1>5, <3>1
      <4>3. c[y] = u[l]
        BY <1>3, <1>6, <3>1, <4>2
      <4>4. QED BY <1>9, <1>10, <4>1, <4>3
    <3>2. QED BY <1>13, <2>3, <3>1
  <2>4. QED BY <2>1, <2>2, <2>3
<1>14. QED BY <1>1, <1>2, <1>6, <1>7, <1>11, <1>12, <1>13, ZenonT(40) DEF InPlace, Join

(* The rows at the front of a sequence are in its place, each once. *)
LEMMA FrontRows ==
  ASSUME NEW n \in Nat, NEW w \in [1..n -> Places], NEW p, NEW s \in Seq(Nat), NEW u \in Seq(Nat), InPlace(w, p, Join(u, s))
  PROVE  /\ \A i \in 1..Len(u) : u[i] \in DOMAIN w /\ w[u[i]] = p
         /\ \A i, k \in 1..Len(u) : u[i] = u[k] => i = k
<1>1. Len(s) \in Nat /\ Len(u) \in Nat /\ Len(u \o s) = Len(u) + Len(s)
  BY LenProperties, ConcatProperties
<1>2. PICK a \in Nat, b \in Nat : a = Len(u) /\ b = Len(s)
  BY <1>1
<1>3. PICK c : c = u \o s
  OBVIOUS
<1>4. \A i \in 1..a : i \in 1..(a + b) /\ c[i] = u[i]
  BY <1>2, <1>3, ConcatProperties
<1>5. /\ \A i \in 1..(a + b) : c[i] \in DOMAIN w /\ w[c[i]] = p
      /\ \A i, k \in 1..(a + b) : c[i] = c[k] => i = k
  BY <1>1, <1>2, <1>3 DEF InPlace, Join
<1>6. ASSUME NEW i \in 1..a PROVE u[i] \in DOMAIN w /\ w[u[i]] = p
  <2>1. i \in 1..(a + b) /\ c[i] = u[i]
    BY <1>4
  <2>2. c[i] \in DOMAIN w /\ w[c[i]] = p
    BY <1>5, <2>1
  <2>3. QED BY <2>1, <2>2
<1>7. \A i, k \in 1..a : u[i] = u[k] => i = k
  BY <1>4, <1>5
<1>8. QED BY <1>2, <1>6, <1>7

(* The rows before the others move out of place p. *)
LEMMA MoveLeaves ==
  ASSUME NEW n \in Nat, NEW w \in [1..n -> Places], NEW M, NEW p, NEW q, p # q, NEW s \in Seq(Nat), NEW u \in Seq(Nat),
         InPlace(w, p, Join(u, s)), \A r : r \in M <=> \E i \in 1..Len(u) : u[i] = r
  PROVE  InPlace(Move(w, M, q), p, s)
<1>1. Len(s) \in Nat /\ Len(u) \in Nat /\ Len(u \o s) = Len(u) + Len(s)
  BY LenProperties, ConcatProperties
<1>2. PICK a \in Nat, b \in Nat : a = Len(u) /\ b = Len(s)
  BY <1>1
<1>3. PICK c : c = u \o s
  OBVIOUS
<1>4. \A i \in 1..a : i \in 1..(a + b) /\ c[i] = u[i]
  BY <1>2, <1>3, ConcatProperties
<1>5. \A i \in 1..b : i + a \in 1..(a + b) /\ c[i + a] = s[i]
  <2>1. ASSUME NEW i \in 1..b PROVE i + a \in 1..(a + b) /\ c[i + a] = s[i]
    <3>1. i + a \in 1..(a + b) /\ ~(i + a <= a) /\ (i + a) - a = i
      OBVIOUS
    <3>2. c[i + a] = IF i + a <= a THEN u[i + a] ELSE s[(i + a) - a]
      BY <1>2, <1>3, <3>1, ConcatProperties
    <3>3. QED BY <3>1, <3>2
  <2>2. QED BY <2>1
<1>6. /\ \A i \in 1..(a + b) : c[i] \in DOMAIN w /\ w[c[i]] = p
      /\ \A r \in DOMAIN w : w[r] = p => \E i \in 1..(a + b) : c[i] = r
      /\ \A i, k \in 1..(a + b) : c[i] = c[k] => i = k
  BY <1>1, <1>2, <1>3 DEF InPlace, Join
<1>7. \A r : r \in M <=> \E i \in 1..a : u[i] = r
  BY <1>2
<1>8. \A i \in 1..(a + b) : i \in 1..a \/ (i - a \in 1..b /\ (i - a) + a = i)
  OBVIOUS
<1>9. \A i \in 1..a, k \in 1..b : u[i] # s[k]
  <2>1. \A i \in 1..a, k \in 1..b : i # k + a
    OBVIOUS
  <2>2. QED BY <1>4, <1>5, <1>6, <2>1
<1>12. PICK v : v = Move(w, M, q)
  OBVIOUS
<1>13. /\ DOMAIN v = DOMAIN w
       /\ \A r \in DOMAIN w : v[r] = IF r \in M THEN q ELSE w[r]
  BY <1>12 DEF Move
<1>14. ASSUME NEW i \in 1..b PROVE s[i] \in DOMAIN v /\ v[s[i]] = p
  <2>1. PICK k \in 1..(a + b) : k = i + a
    BY <1>5
  <2>2. c[k] = s[i]
    BY <1>5, <2>1
  <2>3. c[k] \in DOMAIN w /\ w[c[k]] = p
    BY <1>6
  <2>4. \A x \in 1..a : u[x] # s[i]
    BY <1>9
  <2>5. s[i] \notin M
    BY <1>7, <2>4
  <2>6. QED BY <1>13, <2>2, <2>3, <2>5
<1>15. ASSUME NEW r \in DOMAIN v, v[r] = p PROVE \E i \in 1..b : s[i] = r
  <2>1. r \in DOMAIN w /\ w[r] = p /\ r \notin M
    BY <1>13, <1>15
  <2>2. PICK i \in 1..(a + b) : c[i] = r
    BY <1>6, <2>1
  <2>3. i \notin 1..a
    BY <1>4, <1>7, <2>1, <2>2
  <2>4. i - a \in 1..b /\ (i - a) + a = i
    BY <1>8, <2>3
  <2>5. s[i - a] = r
    BY <1>5, <2>2, <2>4
  <2>6. QED BY <2>4, <2>5
<1>16. ASSUME NEW i \in 1..b, NEW k \in 1..b, s[i] = s[k] PROVE i = k
  <2>1. c[i + a] = c[k + a] /\ i + a \in 1..(a + b) /\ k + a \in 1..(a + b)
    BY <1>5, <1>16
  <2>2. PICK x \in 1..(a + b), y \in 1..(a + b) : x = i + a /\ y = k + a
    BY <2>1
  <2>3. c[x] = c[y]
    BY <2>1, <2>2
  <2>4. x = y
    BY <1>6, <2>3
  <2>5. QED BY <2>2, <2>4
<1>17. InPlace(v, p, s)
  BY <1>2, <1>14, <1>15, <1>16 DEF InPlace
<1>18. QED BY <1>12, <1>17

--------------------------------------------------------------------------------
(* The stores are places, and not the other three. *)
LEMMA StoresArePlaces ==
  /\ Stores \subseteq Places /\ {"chunks", "gone", "nowhere"} \subseteq Places
  /\ \A p \in Stores : p # "chunks" /\ p # "gone" /\ p # "nowhere"
BY DEF Stores, Places

(* What is in the stores. *)
Shelves(h) == h \in [Stores -> Seq(Nat)]

(* From h to k, rows u have moved from the front of store p to the end of q. *)
Moved(h, k, p, q, u) ==
  /\ h[p] = Join(u, k[p]) /\ k[q] = Join(h[q], u)
  /\ \A x \in Stores : x # p /\ x # q => k[x] = h[x]

(* The rows in the three places that are no stores are the same. *)
SameElsewhere(v, w, n) ==
  \A r \in 1..n : /\ v[r] = "chunks" <=> w[r] = "chunks"
                  /\ v[r] = "gone" <=> w[r] = "gone"
                  /\ v[r] = "nowhere" <=> w[r] = "nowhere"

(* Then every row has a place again. *)
LEMMA StoresMove ==
  ASSUME NEW n \in Nat, NEW w \in [1..n -> Places],
         NEW h, Shelves(h), NEW k, Shelves(k),
         NEW p \in Stores, NEW q \in Stores, p # q,
         NEW u \in Seq(Nat), Moved(h, k, p, q, u),
         \A x \in Stores : InPlace(w, x, h[x])
  PROVE  /\ Move(w, ToSet(u), q) \in [1..n -> Places]
         /\ \A x \in Stores : InPlace(Move(w, ToSet(u), q), x, k[x])
         /\ SameElsewhere(Move(w, ToSet(u), q), w, n)
<1>1. PICK M : M = ToSet(u)
  OBVIOUS
<1>2. \A r : r \in M <=> \E i \in 1..Len(u) : u[i] = r
  BY <1>1, ToSetIs
<1>3. PICK v : v = Move(w, M, q)
  OBVIOUS
<1>4. InPlace(w, p, Join(u, k[p])) /\ k[p] \in Seq(Nat)
  BY DEF Moved, Shelves
<1>5. /\ InPlace(v, p, k[p])
      /\ \A r \in M : r \in DOMAIN w /\ w[r] = p
      /\ \A i, l \in 1..Len(u) : u[i] = u[l] => i = l
  <2>1. InPlace(Move(w, M, q), p, k[p])
    BY <1>2, <1>4, MoveLeaves
  <2>2. \A r \in M : r \in DOMAIN w /\ w[r] = p
    BY <1>2, <1>4, FrontRows
  <2>3. \A i, l \in 1..Len(u) : u[i] = u[l] => i = l
    BY <1>4, FrontRows
  <2>4. QED BY <1>3, <2>1, <2>2, <2>3
<1>6. InPlace(v, q, Join(h[q], u))
  <2>1. \A r \in M : r \in DOMAIN w /\ w[r] # q
    BY <1>5
  <2>2. h[q] \in Seq(Nat) /\ InPlace(w, q, h[q])
    BY DEF Shelves
  <2>3. QED BY <1>2, <1>3, <1>5, <2>1, <2>2, MoveAppends
<1>7. ASSUME NEW x \in Stores, x # p, x # q PROVE InPlace(v, x, k[x])
  <2>1. InPlace(w, x, h[x]) /\ k[x] = h[x]
    BY <1>7 DEF Moved
  <2>2. \A r \in M : r \in DOMAIN w => w[r] # x
    BY <1>5, <1>7
  <2>3. QED BY <1>3, <1>7, <2>1, <2>2, MoveElsewhere
<1>8. \A x \in Stores : InPlace(v, x, k[x])
  BY <1>5, <1>6, <1>7 DEF Moved
<1>9. DOMAIN w = 1..n /\ v = [r \in 1..n |-> IF r \in M THEN q ELSE w[r]]
  BY <1>3 DEF Move
<1>10. v \in [1..n -> Places]
  BY <1>9, StoresArePlaces
<1>11. SameElsewhere(v, w, n)
  <2> SUFFICES ASSUME NEW r \in 1..n
      PROVE  /\ v[r] = "chunks" <=> w[r] = "chunks"
             /\ v[r] = "gone" <=> w[r] = "gone"
             /\ v[r] = "nowhere" <=> w[r] = "nowhere"
    BY DEF SameElsewhere
  <2>1. CASE r \in M
    BY <1>5, <1>9, <2>1, StoresArePlaces
  <2>2. CASE r \notin M
    BY <1>9, <2>2
  <2>3. QED BY <2>1, <2>2
<1>12. QED BY <1>1, <1>3, <1>8, <1>10, <1>11

(* The ledger after rows have moved from store to store. *)
LEMMA RowsMove ==
  ASSUME NEW n \in Nat, NEW chunks, NEW gone, NEW marks, NEW more, marks \subseteq more,
         NEW h, Shelves(h), NEW k, Shelves(k),
         NEW p \in Stores, NEW q \in Stores, p # q,
         NEW u \in Seq(Nat), Moved(h, k, p, q, u),
         Accounted(n, chunks, h, gone, marks),
         more = {} /\ gone = {} => \A a : InOrder(h, a) => InOrder(k, a)
  PROVE  Accounted(n, chunks, k, gone, more)
<1>1. PICK e \in [0..Len(chunks) -> 0..n], w \in [1..n -> Places] :
         AccountedBy(e, w, n, chunks, h, gone, marks)
  BY DEF Accounted
<1>2. \A x \in Stores : InPlace(w, x, h[x])
  BY <1>1 DEF AccountedBy
<1>a. /\ Move(w, ToSet(u), q) \in [1..n -> Places]
      /\ \A x \in Stores : InPlace(Move(w, ToSet(u), q), x, k[x])
      /\ SameElsewhere(Move(w, ToSet(u), q), w, n)
  BY <1>2, StoresMove
<1>b. PICK v \in [1..n -> Places] : v = Move(w, ToSet(u), q)
  BY <1>a
<1>3. (\A x \in Stores : InPlace(v, x, k[x])) /\ SameElsewhere(v, w, n)
  BY <1>a, <1>b
<1>4. more \cap Lossy = {} => marks \cap Lossy = {}
  OBVIOUS
<1>5. more = {} => marks = {}
  OBVIOUS
<1>6. AccountedBy(e, v, n, chunks, k, gone, more)
  <2>1. Cut(chunks, e, n) /\ gone \subseteq 1..n
    BY <1>1 DEF AccountedBy
  <2>2. \A r \in 1..n : v[r] = "chunks" <=> e[0] < r
    BY <1>1, <1>3 DEF AccountedBy, SameElsewhere
  <2>3. \A r \in 1..n : v[r] = "gone" <=> r \in gone
    BY <1>1, <1>3 DEF AccountedBy, SameElsewhere
  <2>4. more \cap Lossy = {} => \A r \in 1..n : v[r] # "nowhere"
    BY <1>1, <1>3, <1>4 DEF AccountedBy, SameElsewhere
  <2>5. more = {} /\ gone = {} => InOrder(k, e[0])
    BY <1>1, <1>5 DEF AccountedBy
  <2>6. QED BY <1>3, <2>1, <2>2, <2>3, <2>4, <2>5 DEF AccountedBy
<1>7. QED BY <1>6 DEF Accounted

(* From h to k, rows u were added to store q. *)
Added(h, k, q, u) ==
  k[q] = Join(h[q], u) /\ \A x \in Stores : x # q => k[x] = h[x]

(* The rows from where the chunks began to where they begin now go to the    *)
(* end of a store.                                                           *)
LEMMA ChunksMove ==
  ASSUME NEW n \in Nat, NEW chunks, NEW left, NEW gone, NEW marks, NEW more, marks \subseteq more,
         NEW h, Shelves(h), NEW k, Shelves(k),
         NEW q \in Stores,
         NEW e \in [0..Len(chunks) -> 0..n], NEW w \in [1..n -> Places],
         AccountedBy(e, w, n, chunks, h, gone, marks),
         NEW f \in [0..Len(left) -> 0..n], Cut(left, f, n),
         NEW a \in Nat, NEW b \in Nat, a = e[0], b = f[0], a <= b, b <= n,
         Added(h, k, q, Stretch(a, b)),
         more = {} /\ gone = {} => (InOrder(h, a) => InOrder(k, b))
  PROVE  Accounted(n, left, k, gone, more)
<1>1. PICK u : u = Stretch(a, b)
  OBVIOUS
<1>2. u \in Seq(Nat) /\ Len(u) = b - a /\ \A i \in 1..(b - a) : u[i] = a + i
  <2>1. u \in Seq(Nat) /\ Len(u) = b - a /\ Run(u, a)
    BY <1>1, StretchIsRun
  <2>2. QED BY <2>1 DEF Run
<1>3. PICK M : M = ToSet(u)
  OBVIOUS
<1>4. \A r : r \in M <=> \E i \in 1..Len(u) : u[i] = r
  BY <1>2, <1>3, ToSetIs
<1>5. \A r : r \in M <=> r \in 1..n /\ a < r /\ r <= b
  <2>1. ASSUME NEW r \in M PROVE r \in 1..n /\ a < r /\ r <= b
    <3>1. PICK i \in 1..(b - a) : u[i] = r
      BY <1>2, <1>4
    <3>2. r = a + i
      BY <1>2, <3>1
    <3>3. QED BY <3>2
  <2>2. ASSUME NEW r \in 1..n, a < r, r <= b PROVE r \in M
    <3>1. r - a \in 1..(b - a) /\ a + (r - a) = r
      BY <2>2
    <3>2. u[r - a] = r
      BY <1>2, <3>1
    <3>3. QED BY <1>2, <1>4, <3>1, <3>2
  <2>3. QED BY <2>1, <2>2
<1>6. \A i, l \in 1..Len(u) : u[i] = u[l] => i = l
  BY <1>2
<1>7. /\ Cut(chunks, e, n) /\ gone \subseteq 1..n
      /\ \A r \in 1..n : w[r] = "chunks" <=> a < r
      /\ \A x \in Stores : InPlace(w, x, h[x])
      /\ \A r \in 1..n : w[r] = "gone" <=> r \in gone
      /\ marks \cap Lossy = {} => \A r \in 1..n : w[r] # "nowhere"
      /\ marks = {} /\ gone = {} => InOrder(h, a)
  BY DEF AccountedBy
<1>8. PICK v : v = Move(w, M, q)
  OBVIOUS
<1>9. DOMAIN w = 1..n /\ v = [r \in 1..n |-> IF r \in M THEN q ELSE w[r]]
  BY <1>8 DEF Move
<1>10. v \in [1..n -> Places]
  BY <1>9, StoresArePlaces
<1>11. \A r \in M : r \in DOMAIN w /\ w[r] = "chunks"
  BY <1>5, <1>7, <1>9
<1>12. InPlace(v, q, Join(h[q], u))
  <2>1. \A r \in M : r \in DOMAIN w /\ w[r] # q
    BY <1>11, StoresArePlaces
  <2>2. h[q] \in Seq(Nat) /\ InPlace(w, q, h[q])
    BY <1>7 DEF Shelves
  <2>3. QED BY <1>2, <1>4, <1>6, <1>8, <2>1, <2>2, MoveAppends
<1>13. ASSUME NEW x \in Stores, x # q PROVE InPlace(v, x, k[x])
  <2>1. InPlace(w, x, h[x]) /\ k[x] = h[x]
    BY <1>7, <1>13 DEF Added
  <2>2. \A r \in M : r \in DOMAIN w => w[r] # x
    BY <1>11, StoresArePlaces
  <2>3. QED BY <1>8, <1>13, <2>1, <2>2, MoveElsewhere
<1>14. \A r \in 1..n : v[r] = "chunks" <=> b < r
  <2> SUFFICES ASSUME NEW r \in 1..n PROVE v[r] = "chunks" <=> b < r
    OBVIOUS
  <2>1. CASE r \in M
    BY <1>5, <1>9, <2>1, StoresArePlaces
  <2>2. CASE r \notin M
    <3>1. v[r] = w[r]
      BY <1>9, <2>2
    <3>2. a < r <=> b < r
      <4>1. ~(a < r /\ r <= b)
        BY <1>5, <2>2
      <4>2. QED BY <4>1
    <3>3. QED BY <1>7, <3>1, <3>2
  <2>3. QED BY <2>1, <2>2
<1>15. \A r \in 1..n : v[r] = "gone" <=> r \in gone
  BY <1>7, <1>9, <1>11, StoresArePlaces
<1>16. more \cap Lossy = {} => \A r \in 1..n : v[r] # "nowhere"
  BY <1>7, <1>9, StoresArePlaces
<1>17. more = {} /\ gone = {} => InOrder(k, b)
  BY <1>7
<1>18. \A x \in Stores : InPlace(v, x, k[x])
  BY <1>1, <1>12, <1>13 DEF Added
<1>19. AccountedBy(f, v, n, left, k, gone, more)
  BY <1>7, <1>14, <1>15, <1>16, <1>17, <1>18 DEF AccountedBy
<1>20. QED BY <1>10, <1>19 DEF Accounted

(* From h to k, rows u have left the front of store p. *)
Left(h, k, p, u) ==
  h[p] = Join(u, k[p]) /\ \A x \in Stores : x # p => k[x] = h[x]

(* They may go where no store is. *)
LEMMA StoresLeft ==
  ASSUME NEW n \in Nat, NEW w \in [1..n -> Places],
         NEW h, Shelves(h), NEW k, Shelves(k),
         NEW p \in Stores, NEW q \in Places \ Stores,
         NEW u \in Seq(Nat), Left(h, k, p, u),
         \A x \in Stores : InPlace(w, x, h[x])
  PROVE  /\ Move(w, ToSet(u), q) \in [1..n -> Places]
         /\ \A x \in Stores : InPlace(Move(w, ToSet(u), q), x, k[x])
         /\ \A r \in 1..n : Move(w, ToSet(u), q)[r] = IF r \in ToSet(u) THEN q ELSE w[r]
         /\ \A r \in ToSet(u) : r \in 1..n /\ w[r] = p
<1>1. PICK M : M = ToSet(u)
  OBVIOUS
<1>2. \A r : r \in M <=> \E i \in 1..Len(u) : u[i] = r
  BY <1>1, ToSetIs
<1>3. PICK v : v = Move(w, M, q)
  OBVIOUS
<1>4. InPlace(w, p, Join(u, k[p])) /\ k[p] \in Seq(Nat)
  BY DEF Left, Shelves
<1>5. InPlace(v, p, k[p]) /\ \A r \in M : r \in DOMAIN w /\ w[r] = p
  <2>1. InPlace(Move(w, M, q), p, k[p])
    BY <1>2, <1>4, MoveLeaves
  <2>2. \A r \in M : r \in DOMAIN w /\ w[r] = p
    BY <1>2, <1>4, FrontRows
  <2>3. QED BY <1>3, <2>1, <2>2
<1>6. ASSUME NEW x \in Stores, x # p PROVE InPlace(v, x, k[x])
  <2>1. InPlace(w, x, h[x]) /\ k[x] = h[x]
    BY <1>6 DEF Left
  <2>2. (\A r \in M : r \in DOMAIN w => w[r] # x) /\ x # q
    BY <1>5, <1>6
  <2>3. QED BY <1>3, <2>1, <2>2, MoveElsewhere
<1>7. \A x \in Stores : InPlace(v, x, k[x])
  BY <1>5, <1>6
<1>8. DOMAIN w = 1..n /\ v = [r \in 1..n |-> IF r \in M THEN q ELSE w[r]]
  BY <1>3 DEF Move
<1>9. v \in [1..n -> Places]
  BY <1>8
<1>10. \A r \in 1..n : v[r] = IF r \in M THEN q ELSE w[r]
  BY <1>8
<1>11. \A r \in M : r \in 1..n /\ w[r] = p
  BY <1>5, <1>8
<1>12. QED BY <1>1, <1>3, <1>7, <1>9, <1>10, <1>11

(* An empty sequence has no rows; without rows nothing has moved. *)
LEMMA NothingLeft ==
  ASSUME NEW h, Shelves(h), NEW k, Shelves(k), NEW p \in Stores,
         NEW u \in Seq(Nat), Left(h, k, p, u), ToSet(u) = {}
  PROVE  \A x \in Stores : k[x] = h[x]
<1>1. \A i \in 1..Len(u) : FALSE
  BY ToSetIs
<1>2. Len(u) = 0
  BY <1>1, LenProperties
<1>3. u = <<>>
  BY <1>2, EmptySeq
<1>4. k[p] \in Seq(Nat)
  BY DEF Shelves
<1>5. Join(<<>>, k[p]) = k[p]
  BY <1>4, ConcatEmptySeq DEF Join
<1>6. QED BY <1>3, <1>5 DEF Left

(* The order is a matter of the stores only. *)
LEMMA OrderOfStores ==
  ASSUME NEW h, NEW k, NEW a, \A x \in Stores : k[x] = h[x], InOrder(h, a)
  PROVE  InOrder(k, a)
<1>1. /\ k["out"] = h["out"] /\ k["got"] = h["got"] /\ k["buf"] = h["buf"]
      /\ k["held"] = h["held"]
  BY Zenon DEF Stores
<1>2. QED BY <1>1 DEF InOrder

(* The ledger after rows were given to calls that are over. *)
LEMMA RowsGo ==
  ASSUME NEW n \in Nat, NEW chunks, NEW gone, NEW marks, NEW more, marks \subseteq more,
         NEW h, Shelves(h), NEW k, Shelves(k),
         NEW p \in Stores, NEW u \in Seq(Nat), Left(h, k, p, u),
         Accounted(n, chunks, h, gone, marks)
  PROVE  Accounted(n, chunks, k, gone \cup ToSet(u), more)
<1>1. PICK e \in [0..Len(chunks) -> 0..n], w \in [1..n -> Places] :
         AccountedBy(e, w, n, chunks, h, gone, marks)
  BY DEF Accounted
<1>2. (\A x \in Stores : InPlace(w, x, h[x])) /\ "gone" \in Places \ Stores
  BY <1>1, StoresArePlaces DEF AccountedBy
<1>a. LET m == Move(w, ToSet(u), "gone") IN
      /\ m \in [1..n -> Places]
      /\ \A x \in Stores : InPlace(m, x, k[x])
      /\ \A r \in 1..n : m[r] = IF r \in ToSet(u) THEN "gone" ELSE w[r]
      /\ \A r \in ToSet(u) : r \in 1..n /\ w[r] = p
  BY <1>2, StoresLeft
<1>3. PICK v \in [1..n -> Places] : v = Move(w, ToSet(u), "gone")
  BY <1>a
<1>4. /\ \A x \in Stores : InPlace(v, x, k[x])
      /\ \A r \in 1..n : v[r] = IF r \in ToSet(u) THEN "gone" ELSE w[r]
      /\ \A r \in ToSet(u) : r \in 1..n /\ w[r] = p
  BY <1>a, <1>3
<1>5. Cut(chunks, e, n) /\ gone \cup ToSet(u) \subseteq 1..n
  BY <1>1, <1>4 DEF AccountedBy
<1>6. \A r \in 1..n : v[r] = "chunks" <=> e[0] < r
  <2>1. \A r \in 1..n : v[r] = "chunks" <=> w[r] = "chunks"
    BY <1>4, StoresArePlaces
  <2>2. QED BY <1>1, <2>1 DEF AccountedBy
<1>7. \A r \in 1..n : v[r] = "gone" <=> r \in gone \cup ToSet(u)
  BY <1>1, <1>4 DEF AccountedBy
<1>8. more \cap Lossy = {} => \A r \in 1..n : v[r] # "nowhere"
  <2>1. more \cap Lossy = {} => marks \cap Lossy = {}
    OBVIOUS
  <2>2. \A r \in 1..n : w[r] # "nowhere" => v[r] # "nowhere"
    BY <1>4
  <2>3. QED BY <1>1, <2>1, <2>2 DEF AccountedBy
<1>9. more = {} /\ gone \cup ToSet(u) = {} => InOrder(k, e[0])
  <2> SUFFICES ASSUME more = {}, gone \cup ToSet(u) = {} PROVE InOrder(k, e[0])
    OBVIOUS
  <2>1. marks = {} /\ gone = {} /\ ToSet(u) = {}
    OBVIOUS
  <2>2. InOrder(h, e[0])
    BY <1>1, <2>1 DEF AccountedBy
  <2>3. \A x \in Stores : k[x] = h[x]
    BY <2>1, NothingLeft
  <2>4. QED BY <2>2, <2>3, OrderOfStores
<1>10. AccountedBy(e, v, n, chunks, k, gone \cup ToSet(u), more)
  BY <1>4, <1>5, <1>6, <1>7, <1>8, <1>9 DEF AccountedBy
<1>11. QED BY <1>10 DEF Accounted

(* The ledger after rows of a store were lost, which is marked. *)
LEMMA RowsLost ==
  ASSUME NEW n \in Nat, NEW chunks, NEW gone, NEW marks, NEW more, marks \subseteq more,
         more \cap Lossy # {},
         NEW h, Shelves(h), NEW k, Shelves(k),
         NEW p \in Stores, NEW u \in Seq(Nat), Left(h, k, p, u),
         Accounted(n, chunks, h, gone, marks)
  PROVE  Accounted(n, chunks, k, gone, more)
<1>1. PICK e \in [0..Len(chunks) -> 0..n], w \in [1..n -> Places] :
         AccountedBy(e, w, n, chunks, h, gone, marks)
  BY DEF Accounted
<1>2. (\A x \in Stores : InPlace(w, x, h[x])) /\ "nowhere" \in Places \ Stores
  BY <1>1, StoresArePlaces DEF AccountedBy
<1>a. LET m == Move(w, ToSet(u), "nowhere") IN
      /\ m \in [1..n -> Places]
      /\ \A x \in Stores : InPlace(m, x, k[x])
      /\ \A r \in 1..n : m[r] = IF r \in ToSet(u) THEN "nowhere" ELSE w[r]
      /\ \A r \in ToSet(u) : r \in 1..n /\ w[r] = p
  BY <1>2, StoresLeft
<1>3. PICK v \in [1..n -> Places] : v = Move(w, ToSet(u), "nowhere")
  BY <1>a
<1>4. /\ \A x \in Stores : InPlace(v, x, k[x])
      /\ \A r \in 1..n : v[r] = IF r \in ToSet(u) THEN "nowhere" ELSE w[r]
      /\ \A r \in ToSet(u) : r \in 1..n /\ w[r] = p
  BY <1>a, <1>3
<1>5. Cut(chunks, e, n) /\ gone \subseteq 1..n
  BY <1>1 DEF AccountedBy
<1>6. \A r \in 1..n : v[r] = "chunks" <=> e[0] < r
  <2>1. \A r \in 1..n : v[r] = "chunks" <=> w[r] = "chunks"
    BY <1>4, StoresArePlaces
  <2>2. QED BY <1>1, <2>1 DEF AccountedBy
<1>7. \A r \in 1..n : v[r] = "gone" <=> r \in gone
  <2>1. \A r \in 1..n : v[r] = "gone" <=> w[r] = "gone"
    BY <1>4, StoresArePlaces
  <2>2. QED BY <1>1, <2>1 DEF AccountedBy
<1>8. more # {}
  OBVIOUS
<1>9. AccountedBy(e, v, n, chunks, k, gone, more)
  BY <1>4, <1>5, <1>6, <1>7, <1>8 DEF AccountedBy
<1>10. QED BY <1>9 DEF Accounted

(* The ledger after chunks were lost, which is marked. *)
LEMMA ChunksLost ==
  ASSUME NEW n \in Nat, NEW chunks, NEW left, NEW gone, NEW marks, NEW more, marks \subseteq more,
         more \cap Lossy # {},
         NEW h, Shelves(h), NEW k, Shelves(k), \A x \in Stores : k[x] = h[x],
         NEW e \in [0..Len(chunks) -> 0..n], NEW w \in [1..n -> Places],
         AccountedBy(e, w, n, chunks, h, gone, marks),
         NEW f \in [0..Len(left) -> 0..n], Cut(left, f, n),
         NEW a \in Nat, NEW b \in Nat, a = e[0], b = f[0], a <= b, b <= n
  PROVE  Accounted(n, left, k, gone, more)
<1>1. /\ Cut(chunks, e, n) /\ gone \subseteq 1..n
      /\ \A r \in 1..n : w[r] = "chunks" <=> a < r
      /\ \A x \in Stores : InPlace(w, x, h[x])
      /\ \A r \in 1..n : w[r] = "gone" <=> r \in gone
  BY DEF AccountedBy
<1>2. PICK M : M = {r \in 1..n : a < r /\ r <= b}
  OBVIOUS
<1>3. PICK v : v = Move(w, M, "nowhere")
  OBVIOUS
<1>4. DOMAIN w = 1..n /\ v = [r \in 1..n |-> IF r \in M THEN "nowhere" ELSE w[r]]
  BY <1>3 DEF Move
<1>5. v \in [1..n -> Places]
  BY <1>4, StoresArePlaces
<1>6. \A r \in M : r \in DOMAIN w /\ w[r] = "chunks"
  BY <1>1, <1>2, <1>4
<1>7. ASSUME NEW x \in Stores PROVE InPlace(v, x, k[x])
  <2>1. InPlace(w, x, h[x]) /\ k[x] = h[x]
    BY <1>1
  <2>2. (\A r \in M : r \in DOMAIN w => w[r] # x) /\ x # "nowhere"
    BY <1>6, StoresArePlaces
  <2>3. QED BY <1>3, <2>1, <2>2, MoveElsewhere
<1>8. \A r \in 1..n : v[r] = "chunks" <=> b < r
  <2> SUFFICES ASSUME NEW r \in 1..n PROVE v[r] = "chunks" <=> b < r
    OBVIOUS
  <2>1. CASE r \in M
    BY <1>2, <1>4, <2>1
  <2>2. CASE r \notin M
    <3>1. v[r] = w[r]
      BY <1>4, <2>2
    <3>2. a < r <=> b < r
      <4>1. ~(a < r /\ r <= b)
        BY <1>2, <2>2
      <4>2. QED BY <4>1
    <3>3. QED BY <1>1, <3>1, <3>2
  <2>3. QED BY <2>1, <2>2
<1>9. \A r \in 1..n : v[r] = "gone" <=> r \in gone
  <2>1. \A r \in 1..n : v[r] = "gone" <=> w[r] = "gone"
    BY <1>4, <1>6
  <2>2. QED BY <1>1, <2>1
<1>10. more # {}
  OBVIOUS
<1>11. AccountedBy(f, v, n, left, k, gone, more)
  BY <1>1, <1>7, <1>8, <1>9, <1>10 DEF AccountedBy
<1>12. QED BY <1>5, <1>11 DEF Accounted

(* More marks do no harm. *)
LEMMA MoreMarks ==
  ASSUME NEW n, NEW chunks, NEW gone, NEW marks, NEW more, marks \subseteq more,
         NEW h, NEW k, \A x \in Stores : k[x] = h[x], Accounted(n, chunks, h, gone, marks)
  PROVE  Accounted(n, chunks, k, gone, more)
<1>1. PICK e \in [0..Len(chunks) -> 0..n], w \in [1..n -> Places] :
         AccountedBy(e, w, n, chunks, h, gone, marks)
  BY DEF Accounted
<1>2. more \cap Lossy = {} => marks \cap Lossy = {}
  OBVIOUS
<1>3. more = {} => marks = {}
  OBVIOUS
<1>4. InOrder(h, e[0]) => InOrder(k, e[0])
  BY OrderOfStores
<1>5. \A x \in Stores : InPlace(w, x, h[x]) <=> InPlace(w, x, k[x])
  OBVIOUS
<1>6. AccountedBy(e, w, n, chunks, k, gone, more)
  BY <1>1, <1>2, <1>3, <1>4, <1>5 DEF AccountedBy
<1>7. QED BY <1>6 DEF Accounted

--------------------------------------------------------------------------------
(* Rows from the front of one run go to the end of the one before it. *)
LEMMA RunsShift ==
  ASSUME NEW s \in Seq(Nat), NEW t \in Seq(Nat), NEW u \in Seq(Nat),
         NEW x \in Nat, Run(s, x), Run(Join(u, t), x + Len(s))
  PROVE  /\ Run(Join(s, u), x) /\ Run(t, x + Len(s) + Len(u))
         /\ Join(s, u) \in Seq(Nat) /\ Len(Join(s, u)) = Len(s) + Len(u)
         /\ Len(Join(u, t)) = Len(u) + Len(t)
<1>1. Len(s) \in Nat /\ Len(t) \in Nat /\ Len(u) \in Nat
  BY LenProperties
<1>2. PICK a \in Nat, b \in Nat, y \in Nat : a = Len(u) /\ b = Len(t) /\ y = x + Len(s)
  BY <1>1
<1>3. PICK c : c = Join(u, t)
  OBVIOUS
<1>4. Len(c) = a + b
  BY <1>2, <1>3, ConcatProperties DEF Join
<1>5. \A i \in 1..a : i \in 1..(a + b) /\ c[i] = u[i]
  BY <1>2, <1>3, ConcatProperties DEF Join
<1>6. \A i \in 1..b : i + a \in 1..(a + b) /\ c[i + a] = t[i]
  <2>1. ASSUME NEW i \in 1..b PROVE i + a \in 1..(a + b) /\ c[i + a] = t[i]
    <3>1. i + a \in 1..(a + b) /\ ~(i + a <= a) /\ (i + a) - a = i
      OBVIOUS
    <3>2. c[i + a] = IF i + a <= a THEN u[i + a] ELSE t[(i + a) - a]
      BY <1>2, <1>3, <3>1, ConcatProperties DEF Join
    <3>3. QED BY <3>1, <3>2
  <2>2. QED BY <2>1
<1>7. \A i \in 1..(a + b) : c[i] = y + i
  BY <1>2, <1>3, <1>4 DEF Run
<1>8. Run(u, y)
  <2>1. \A i \in 1..a : u[i] = y + i
    BY <1>5, <1>7
  <2>2. QED BY <1>2, <2>1 DEF Run
<1>9. Run(t, x + Len(s) + Len(u))
  <2>1. ASSUME NEW i \in 1..b PROVE t[i] = y + a + i
    <3>1. t[i] = y + (i + a)
      BY <1>6, <1>7
    <3>2. QED BY <3>1
  <2>2. Run(t, y + a)
    BY <1>2, <2>1 DEF Run
  <2>3. QED BY <1>2, <2>2
<1>10. Run(Join(s, u), x)
  BY <1>2, <1>8, RunsJoin DEF Join
<1>11. Join(s, u) \in Seq(Nat) /\ Len(Join(s, u)) = Len(s) + Len(u)
  BY ConcatProperties DEF Join
<1>12. Len(Join(u, t)) = Len(u) + Len(t)
  BY ConcatProperties DEF Join
<1>13. QED BY <1>9, <1>10, <1>11, <1>12

(* A place between the one before it and the one after. *)
Neighbours == {<<"buf", "got">>, <<"got", "out">>, <<"held", "buf">>}

(* Moving rows to the neighbour before keeps them in order. *)
LEMMA OrderKept ==
  ASSUME NEW h, Shelves(h), NEW k, Shelves(k), NEW p \in Stores, NEW q \in Stores,
         <<p, q>> \in Neighbours, NEW u \in Seq(Nat), Moved(h, k, p, q, u),
         NEW a, InOrder(h, a)
  PROVE  InOrder(k, a)
<1>1. PICK o, g, b, d : o = h["out"] /\ g = h["got"] /\ b = h["buf"] /\ d = h["held"]
  OBVIOUS
<1>2. PICK o2, g2, b2, d2 : o2 = k["out"] /\ g2 = k["got"] /\ b2 = k["buf"] /\ d2 = k["held"]
  OBVIOUS
<1>3. /\ o \in Seq(Nat) /\ g \in Seq(Nat) /\ b \in Seq(Nat) /\ d \in Seq(Nat)
      /\ o2 \in Seq(Nat) /\ g2 \in Seq(Nat) /\ b2 \in Seq(Nat) /\ d2 \in Seq(Nat)
  BY <1>1, <1>2, Zenon DEF Shelves, Stores
<1>4. /\ Len(o) \in Nat /\ Len(g) \in Nat /\ Len(b) \in Nat /\ Len(d) \in Nat /\ Len(u) \in Nat
      /\ Len(o2) \in Nat /\ Len(g2) \in Nat /\ Len(b2) \in Nat /\ Len(d2) \in Nat
  BY <1>3, LenProperties
<1>5. /\ Run(o, 0) /\ Run(g, Len(o)) /\ Run(b, Len(o) + Len(g))
      /\ Run(d, Len(o) + Len(g) + Len(b))
      /\ a = Len(o) + Len(g) + Len(b) + Len(d)
  BY <1>1 DEF InOrder
<1>6. ASSUME /\ Run(o2, 0) /\ Run(g2, Len(o2)) /\ Run(b2, Len(o2) + Len(g2))
             /\ Run(d2, Len(o2) + Len(g2) + Len(b2))
             /\ a = Len(o2) + Len(g2) + Len(b2) + Len(d2)
      PROVE  InOrder(k, a)
  BY <1>2, <1>6 DEF InOrder
<1>7. CASE p = "buf" /\ q = "got"
  <2>1. b = Join(u, b2) /\ g2 = Join(g, u) /\ o2 = o /\ d2 = d
    BY <1>1, <1>2, <1>7, Zenon DEF Moved, Stores
  <2>2. Run(Join(u, b2), Len(o) + Len(g))
    BY <1>5, <2>1
  <2>3. /\ Run(Join(g, u), Len(o)) /\ Run(b2, Len(o) + Len(g) + Len(u))
        /\ Len(Join(g, u)) = Len(g) + Len(u) /\ Len(Join(u, b2)) = Len(u) + Len(b2)
    BY <1>3, <1>4, <1>5, <2>2, RunsShift
  <2>4. Len(g2) = Len(g) + Len(u) /\ Len(b) = Len(u) + Len(b2)
    BY <2>1, <2>3
  <2>5. /\ Len(o2) = Len(o) /\ Len(d2) = Len(d)
        /\ Len(o) + Len(g) + Len(u) = Len(o2) + Len(g2)
        /\ Len(o) + Len(g) + Len(b) = Len(o2) + Len(g2) + Len(b2)
        /\ a = Len(o2) + Len(g2) + Len(b2) + Len(d2)
    BY <1>4, <1>5, <2>1, <2>4
  <2>6. Run(o2, 0) /\ Run(g2, Len(o2)) /\ Run(b2, Len(o2) + Len(g2))
    BY <1>5, <2>1, <2>3, <2>5
  <2>7. Run(d2, Len(o2) + Len(g2) + Len(b2))
    BY <1>5, <2>1, <2>5
  <2>8. QED BY <1>6, <2>5, <2>6, <2>7
<1>8. CASE p = "got" /\ q = "out"
  <2>1. g = Join(u, g2) /\ o2 = Join(o, u) /\ b2 = b /\ d2 = d
    BY <1>1, <1>2, <1>8, Zenon DEF Moved, Stores
  <2>2. 0 \in Nat /\ 0 + Len(o) = Len(o) /\ Run(Join(u, g2), 0 + Len(o))
    BY <1>4, <1>5, <2>1
  <2>3. /\ Run(Join(o, u), 0) /\ Run(g2, 0 + Len(o) + Len(u))
        /\ Len(Join(o, u)) = Len(o) + Len(u) /\ Len(Join(u, g2)) = Len(u) + Len(g2)
    BY <1>3, <1>5, <2>2, RunsShift
  <2>4. Len(o2) = Len(o) + Len(u) /\ Len(g) = Len(u) + Len(g2)
    BY <2>1, <2>3
  <2>5. /\ Len(b2) = Len(b) /\ Len(d2) = Len(d)
        /\ 0 + Len(o) + Len(u) = Len(o2)
        /\ Len(o) + Len(g) = Len(o2) + Len(g2)
        /\ Len(o) + Len(g) + Len(b) = Len(o2) + Len(g2) + Len(b2)
        /\ a = Len(o2) + Len(g2) + Len(b2) + Len(d2)
    BY <1>4, <1>5, <2>1, <2>4
  <2>6. Run(o2, 0) /\ Run(g2, Len(o2))
    BY <2>1, <2>3, <2>5
  <2>7. Run(b2, Len(o2) + Len(g2)) /\ Run(d2, Len(o2) + Len(g2) + Len(b2))
    BY <1>5, <2>1, <2>5
  <2>8. QED BY <1>6, <2>5, <2>6, <2>7
<1>9. CASE p = "held" /\ q = "buf"
  <2>1. d = Join(u, d2) /\ b2 = Join(b, u) /\ o2 = o /\ g2 = g
    BY <1>1, <1>2, <1>9, Zenon DEF Moved, Stores
  <2>2. PICK y \in Nat : y = Len(o) + Len(g)
    BY <1>4
  <2>3. Run(b, y) /\ Run(Join(u, d2), y + Len(b))
    BY <1>5, <2>1, <2>2
  <2>4. /\ Run(Join(b, u), y) /\ Run(d2, y + Len(b) + Len(u))
        /\ Len(Join(b, u)) = Len(b) + Len(u) /\ Len(Join(u, d2)) = Len(u) + Len(d2)
    BY <1>3, <2>3, RunsShift
  <2>5. Len(b2) = Len(b) + Len(u) /\ Len(d) = Len(u) + Len(d2)
    BY <2>1, <2>4
  <2>6. /\ y = Len(o2) + Len(g2)
        /\ y + Len(b) + Len(u) = Len(o2) + Len(g2) + Len(b2)
        /\ a = Len(o2) + Len(g2) + Len(b2) + Len(d2)
    BY <1>4, <1>5, <2>1, <2>2, <2>5
  <2>7. Run(o2, 0) /\ Run(g2, Len(o2))
    BY <1>5, <2>1
  <2>8. Run(b2, Len(o2) + Len(g2)) /\ Run(d2, Len(o2) + Len(g2) + Len(b2))
    BY <2>1, <2>4, <2>6
  <2>9. QED BY <1>6, <2>6, <2>7, <2>8
<1>10. QED BY <1>7, <1>8, <1>9 DEF Neighbours

(* Rows from the chunks, in order, when nothing is held. *)
LEMMA OrderExtended ==
  ASSUME NEW h, Shelves(h), NEW k, Shelves(k), NEW q \in {"buf", "held"},
         NEW a \in Nat, NEW b \in Nat, a <= b,
         k[q] = Join(h[q], Stretch(a, b)), \A x \in Stores : x # q => k[x] = h[x],
         h["held"] = <<>>, InOrder(h, a)
  PROVE  InOrder(k, b)
<1> DEFINE o == h["out"]  g == h["got"]  f == h["buf"]  d == h["held"]
<1>1. o \in Seq(Nat) /\ g \in Seq(Nat) /\ f \in Seq(Nat)
  BY Zenon DEF Shelves, Stores
<1>2. Len(o) \in Nat /\ Len(g) \in Nat /\ Len(f) \in Nat /\ Len(<<>>) = 0
  BY <1>1, LenProperties
<1>3. /\ Run(o, 0) /\ Run(g, Len(o)) /\ Run(f, Len(o) + Len(g))
      /\ a = Len(o) + Len(g) + Len(f) + Len(d)
  BY DEF InOrder
<1>4. PICK u \in Seq(Nat) : u = Stretch(a, b) /\ Len(u) = b - a /\ Run(u, a)
  BY StretchIsRun
<1>5. k["out"] = o /\ k["got"] = g
  BY Zenon DEF Stores
<1>6. a = Len(o) + Len(g) + Len(f)
  BY <1>2, <1>3
<1>a. PICK lo \in Nat, lg \in Nat, lf \in Nat, lu \in Nat :
         lo = Len(o) /\ lg = Len(g) /\ lf = Len(f) /\ lu = Len(u)
  BY <1>2, LenProperties
<1>b. a = lo + lg + lf /\ lu = b - a
  BY <1>4, <1>6, <1>a
<1>c. b = lo + lg + lf + lu
  BY <1>b
<1>7. CASE q = "held"
  <2>1. k["buf"] = f /\ k["held"] = Join(<<>>, u)
    BY <1>4, <1>7, Zenon DEF Stores
  <2>2. k["held"] = u
    BY <2>1, ConcatEmptySeq DEF Join
  <2>3. b = Len(o) + Len(g) + Len(f) + Len(u)
    BY <1>a, <1>c
  <2>4. QED BY <1>3, <1>4, <1>5, <1>6, <2>1, <2>2, <2>3 DEF InOrder
<1>8. CASE q = "buf"
  <2>1. k["buf"] = Join(f, u) /\ k["held"] = <<>>
    BY <1>4, <1>8, Zenon DEF Stores
  <2>a. PICK y \in Nat : y = lo + lg
    OBVIOUS
  <2>2. y = Len(o) + Len(g)
    BY <1>a, <2>a
  <2>3. Run(f, y) /\ y + Len(f) = a /\ Run(u, y + Len(f))
    BY <1>3, <1>4, <1>6, <2>2
  <2>4. Run(Join(f, u), y)
    BY <1>1, <2>3, RunsJoin DEF Join
  <2>5. Len(Join(f, u)) = Len(f) + Len(u)
    BY <1>1, ConcatProperties DEF Join
  <2>6. b = Len(o) + Len(g) + Len(Join(f, u)) + Len(<<>>)
    <3>1. Len(Join(f, u)) = lf + lu /\ Len(<<>>) = 0
      BY <1>2, <1>a, <2>5
    <3>2. b = lo + lg + (lf + lu) + 0
      BY <1>c
    <3>3. QED BY <1>a, <3>1, <3>2
  <2>7. \A z : Run(<<>>, z)
    BY <1>2 DEF Run
  <2>8. QED BY <1>3, <1>5, <2>1, <2>2, <2>4, <2>6, <2>7 DEF InOrder
<1>9. QED BY <1>7, <1>8

--------------------------------------------------------------------------------
(* What is left after the first chunk is cut where it was before. *)
LEMMA CutRest ==
  ASSUME NEW n \in Nat, NEW chunks \in Seq(Seq(Nat)), chunks # <<>>,
         NEW e \in [0..Len(chunks) -> 0..n], Cut(chunks, e, n)
  PROVE  /\ Tail(chunks) \in Seq(Seq(Nat)) /\ Head(chunks) \in Seq(Nat)
         /\ e[0] \in Nat /\ e[1] \in Nat /\ e[0] <= e[1] /\ e[1] <= n
         /\ Head(chunks) = Stretch(e[0], e[1])
         /\ \E f \in [0..Len(Tail(chunks)) -> 0..n] : Cut(Tail(chunks), f, n) /\ f[0] = e[1]
<1>1. Len(chunks) \in Nat /\ Len(chunks) # 0
  BY LenProperties, EmptySeq
<1>2. PICK L \in Nat \ {0} : L = Len(chunks)
  BY <1>1
<1>3. PICK c : c = Tail(chunks)
  OBVIOUS
<1>4. /\ c \in Seq(Seq(Nat)) /\ Len(c) = L - 1 /\ Head(chunks) \in Seq(Nat)
      /\ \A i \in 1..Len(c) : c[i] = chunks[i + 1]
  BY <1>2, <1>3, HeadTailProperties
<1>a. PICK K \in Nat : K = L - 1
  OBVIOUS
<1>5. K = L - 1 /\ K = Len(c)
  BY <1>4, <1>a
<1>6. \A i \in 0..K : i + 1 \in 0..L
  BY <1>2, <1>5
<1>7. \A i \in 1..K : i + 1 \in 1..L /\ (i + 1) - 1 = (i - 1) + 1 /\ i - 1 \in 0..K
  BY <1>2, <1>5
<1>8. PICK f : f = [i \in 0..K |-> e[i + 1]]
  OBVIOUS
<1>9. f \in [0..K -> 0..n] /\ \A i \in 0..K : f[i] = e[i + 1]
  BY <1>2, <1>6, <1>8
<1>10. f[0] = e[1] /\ f[K] = n
  <2>1. f[0] = e[0 + 1] /\ f[K] = e[K + 1]
    BY <1>9
  <2>2. K + 1 = L /\ 0 + 1 = 1
    BY <1>2, <1>5
  <2>3. e[L] = n
    BY <1>2 DEF Cut
  <2>4. QED BY <2>1, <2>2, <2>3
<1>11. \A i, k \in 0..K : i <= k => f[i] <= f[k]
  <2>1. \A i, k \in 0..L : i <= k => e[i] <= e[k]
    BY <1>2 DEF Cut
  <2>2. ASSUME NEW i \in 0..K, NEW k \in 0..K, i <= k PROVE f[i] <= f[k]
    <3>a. i + 1 \in 0..L /\ k + 1 \in 0..L
      BY <1>6
    <3>b. i + 1 <= k + 1
      BY <2>2
    <3>1. i + 1 \in 0..L /\ k + 1 \in 0..L /\ i + 1 <= k + 1
      BY <3>a, <3>b
    <3>2. e[i + 1] <= e[k + 1]
      BY <2>1, <3>1
    <3>3. QED BY <1>9, <3>2
  <2>3. QED BY <2>2
<1>12. ASSUME NEW i \in 1..K
       PROVE  Run(c[i], f[i - 1]) /\ Len(c[i]) = f[i] - f[i - 1]
  <2>1. PICK k \in 1..L : k = i + 1
    BY <1>7
  <2>2. Run(chunks[k], e[k - 1]) /\ Len(chunks[k]) = e[k] - e[k - 1]
    BY <1>2 DEF Cut
  <2>3. c[i] = chunks[k]
    BY <1>4, <1>5, <2>1
  <2>4. i \in 0..K /\ i - 1 \in 0..K /\ (i - 1) + 1 = k - 1
    BY <1>7, <2>1
  <2>5. f[i] = e[k] /\ f[i - 1] = e[k - 1]
    BY <1>9, <2>1, <2>4
  <2>6. QED BY <2>2, <2>3, <2>5
<1>13. Cut(c, f, n)
  BY <1>5, <1>10, <1>11, <1>12 DEF Cut
<1>14. e[0] \in Nat /\ e[1] \in Nat /\ e[0] <= e[1] /\ e[1] <= n
  <2>1. 0 \in 0..L /\ 1 \in 0..L
    BY <1>2
  <2>2. e[0] <= e[1]
    BY <1>2, <2>1 DEF Cut
  <2>3. e[0] \in 0..n /\ e[1] \in 0..n
    BY <1>2, <2>1
  <2>4. QED BY <2>2, <2>3
<1>15. Head(chunks) = Stretch(e[0], e[1])
  <2>1. 1 \in 1..L /\ 1 - 1 = 0
    BY <1>2
  <2>2. Run(chunks[1], e[0]) /\ Len(chunks[1]) = e[1] - e[0]
    BY <1>2, <2>1 DEF Cut
  <2>3. Head(chunks) = chunks[1]
    OBVIOUS
  <2>4. QED BY <1>4, <1>14, <2>2, <2>3, RunIsStretch
<1>16. \E x \in [0..Len(c) -> 0..n] : Cut(c, x, n) /\ x[0] = e[1]
  BY <1>5, <1>9, <1>10, <1>13
<1>17. QED BY <1>3, <1>4, <1>14, <1>15, <1>16

(* No chunks: all rows are before them. *)
LEMMA CutNone ==
  ASSUME NEW n \in Nat
  PROVE  \E f \in [0..Len(<<>>) -> 0..n] : Cut(<<>>, f, n) /\ f[0] = n
<1>1. Len(<<>>) = 0
  OBVIOUS
<1>2. PICK f : f = [i \in 0..0 |-> n]
  OBVIOUS
<1>3. f \in [0..0 -> 0..n] /\ \A i \in 0..0 : f[i] = n
  BY <1>2
<1>4. 0 \in 0..0 /\ \A i \in 1..0 : FALSE
  OBVIOUS
<1>5. f[0] = n
  BY <1>3, <1>4
<1>6. Cut(<<>>, f, n)
  BY <1>1, <1>3, <1>4, <1>5 DEF Cut
<1>7. QED BY <1>1, <1>3, <1>5, <1>6

--------------------------------------------------------------------------------
(* The ledger after a chunk was put into a store. *)
LEMMA HeadMoves ==
  ASSUME NEW n \in Nat, NEW chunks \in Seq(Seq(Nat)), chunks # <<>>,
         NEW gone, NEW marks, NEW more, marks \subseteq more,
         NEW h, Shelves(h), NEW k, Shelves(k), NEW q \in Stores,
         Added(h, k, q, Head(chunks)),
         Accounted(n, chunks, h, gone, marks),
         more = {} /\ gone = {} => q \in {"buf", "held"} /\ h["held"] = <<>>
  PROVE  Accounted(n, Tail(chunks), k, gone, more)
<1>1. PICK e \in [0..Len(chunks) -> 0..n], w \in [1..n -> Places] :
         AccountedBy(e, w, n, chunks, h, gone, marks)
  BY DEF Accounted
<1>2. Cut(chunks, e, n)
  BY <1>1 DEF AccountedBy
<1>3. /\ e[0] \in Nat /\ e[1] \in Nat /\ e[0] <= e[1] /\ e[1] <= n
      /\ Head(chunks) = Stretch(e[0], e[1])
      /\ \E f \in [0..Len(Tail(chunks)) -> 0..n] : Cut(Tail(chunks), f, n) /\ f[0] = e[1]
  BY <1>2, CutRest
<1>4. PICK a \in Nat, b \in Nat : a = e[0] /\ b = e[1]
  BY <1>3
<1>5. PICK f \in [0..Len(Tail(chunks)) -> 0..n] : Cut(Tail(chunks), f, n) /\ f[0] = b
  BY <1>3, <1>4
<1>6. a <= b /\ b <= n
  BY <1>3, <1>4
<1>7. Added(h, k, q, Stretch(a, b))
  BY <1>3, <1>4
<1>8. more = {} /\ gone = {} => (InOrder(h, a) => InOrder(k, b))
  BY <1>6, <1>7, OrderExtended DEF Added
<1>9. QED BY <1>1, <1>4, <1>5, <1>6, <1>7, <1>8, ChunksMove

(* The ledger after all chunks were put into a store. *)
LEMMA AllMove ==
  ASSUME NEW n \in Nat, NEW chunks \in Seq(Seq(Nat)),
         NEW gone, NEW marks, NEW more, marks \subseteq more, more # {},
         NEW h, Shelves(h), NEW k, Shelves(k), NEW q \in Stores,
         Added(h, k, q, FlattenSeq(chunks)),
         Accounted(n, chunks, h, gone, marks)
  PROVE  Accounted(n, <<>>, k, gone, more)
<1>1. PICK e \in [0..Len(chunks) -> 0..n], w \in [1..n -> Places] :
         AccountedBy(e, w, n, chunks, h, gone, marks)
  BY DEF Accounted
<1>2. Cut(chunks, e, n)
  BY <1>1 DEF AccountedBy
<1>3. PICK L \in Nat : L = Len(chunks)
  BY LenProperties
<1>4. e \in [0..L -> 0..n]
  BY <1>3
<1>5. FlattenSeq(chunks) = Stretch(e[0], n)
  BY <1>2, <1>3, <1>4, FlattenCut
<1>6. e[0] \in 0..n
  BY <1>4
<1>7. PICK a \in Nat : a = e[0] /\ a <= n
  BY <1>6
<1>a. PICK left : left = <<>>
  OBVIOUS
<1>8. PICK f \in [0..Len(left) -> 0..n] : Cut(left, f, n) /\ f[0] = n
  BY <1>a, CutNone
<1>9. Added(h, k, q, Stretch(a, n))
  BY <1>5, <1>7
<1>b. n <= n
  OBVIOUS
<1>c. Accounted(n, left, k, gone, more)
  BY <1>1, <1>7, <1>8, <1>9, <1>b, ChunksMove
<1>10. QED BY <1>a, <1>c

(* ... or were lost, *)
LEMMA AllLost ==
  ASSUME NEW n \in Nat, NEW chunks \in Seq(Seq(Nat)),
         NEW gone, NEW marks, NEW more, marks \subseteq more, more \cap Lossy # {},
         NEW h, Shelves(h), NEW k, Shelves(k), \A x \in Stores : k[x] = h[x],
         Accounted(n, chunks, h, gone, marks)
  PROVE  Accounted(n, <<>>, k, gone, more)
<1>1. PICK e \in [0..Len(chunks) -> 0..n], w \in [1..n -> Places] :
         AccountedBy(e, w, n, chunks, h, gone, marks)
  BY DEF Accounted
<1>2. PICK L \in Nat : L = Len(chunks)
  BY LenProperties
<1>3. e \in [0..L -> 0..n]
  BY <1>2
<1>4. e[0] \in 0..n
  BY <1>3
<1>5. PICK a \in Nat : a = e[0] /\ a <= n
  BY <1>4
<1>a. PICK left : left = <<>>
  OBVIOUS
<1>6. PICK f \in [0..Len(left) -> 0..n] : Cut(left, f, n) /\ f[0] = n
  BY <1>a, CutNone
<1>b. n <= n
  OBVIOUS
<1>c. Accounted(n, left, k, gone, more)
  BY <1>1, <1>5, <1>6, <1>b, ChunksLost
<1>7. QED BY <1>a, <1>c

(* ... or the first of them was. *)
LEMMA HeadLost ==
  ASSUME NEW n \in Nat, NEW chunks \in Seq(Seq(Nat)), chunks # <<>>,
         NEW gone, NEW marks, NEW more, marks \subseteq more, more \cap Lossy # {},
         NEW h, Shelves(h), NEW k, Shelves(k), \A x \in Stores : k[x] = h[x],
         Accounted(n, chunks, h, gone, marks)
  PROVE  Accounted(n, Tail(chunks), k, gone, more)
<1>1. PICK e \in [0..Len(chunks) -> 0..n], w \in [1..n -> Places] :
         AccountedBy(e, w, n, chunks, h, gone, marks)
  BY DEF Accounted
<1>2. Cut(chunks, e, n)
  BY <1>1 DEF AccountedBy
<1>3. /\ e[0] \in Nat /\ e[1] \in Nat /\ e[0] <= e[1] /\ e[1] <= n
      /\ \E f \in [0..Len(Tail(chunks)) -> 0..n] : Cut(Tail(chunks), f, n) /\ f[0] = e[1]
  BY <1>2, CutRest
<1>4. PICK a \in Nat, b \in Nat : a = e[0] /\ b = e[1]
  BY <1>3
<1>5. PICK f \in [0..Len(Tail(chunks)) -> 0..n] : Cut(Tail(chunks), f, n) /\ f[0] = b
  BY <1>3, <1>4
<1>6. a <= b /\ b <= n
  BY <1>3, <1>4
<1>7. QED BY <1>1, <1>4, <1>5, <1>6, ChunksLost, ZenonT(40)

(* Nothing was handed out yet: all rows are in the chunks, or at hand. *)
LEMMA AllInChunks ==
  ASSUME NEW n \in Nat, NEW chunks, NEW marks, NEW h, \A x \in Stores : h[x] = <<>>,
         NEW e \in [0..Len(chunks) -> 0..n], Cut(chunks, e, n), e[0] = 0
  PROVE  Accounted(n, chunks, h, {}, marks)
<1>1. PICK w : w = [r \in 1..n |-> "chunks"]
  OBVIOUS
<1>2. w \in [1..n -> Places] /\ \A r \in 1..n : w[r] = "chunks"
  BY <1>1, StoresArePlaces
<1>3. \A r \in 1..n : 0 < r
  OBVIOUS
<1>4. Len(<<>>) = 0 /\ \A i \in 1..0 : FALSE
  OBVIOUS
<1>5. ASSUME NEW x \in Stores PROVE InPlace(w, x, h[x])
  <2>1. x # "chunks" /\ h[x] = <<>>
    BY StoresArePlaces
  <2>2. InPlace(w, x, <<>>)
    BY <1>2, <1>4, <2>1 DEF InPlace
  <2>3. QED BY <2>1, <2>2
<1>6. InOrder(h, 0)
  <2>1. h["out"] = <<>> /\ h["got"] = <<>> /\ h["buf"] = <<>> /\ h["held"] = <<>>
    BY Zenon DEF Stores
  <2>2. \A z : Run(<<>>, z)
    BY <1>4 DEF Run
  <2>3. QED BY <1>4, <2>1, <2>2 DEF InOrder
<1>7. AccountedBy(e, w, n, chunks, h, {}, marks)
  BY <1>2, <1>3, <1>5, <1>6 DEF AccountedBy
<1>8. QED BY <1>2, <1>7 DEF Accounted

(* The rows of the API are at hand at once. *)
LEMMA AllInBuffer ==
  ASSUME NEW n \in Nat, NEW marks, NEW h, h["buf"] = Stretch(0, n),
         \A x \in Stores : x # "buf" => h[x] = <<>>
  PROVE  Accounted(n, <<>>, h, {}, marks)
<1>1. PICK w : w = [r \in 1..n |-> "buf"]
  OBVIOUS
<1>2. w \in [1..n -> Places] /\ \A r \in 1..n : w[r] = "buf"
  BY <1>1, StoresArePlaces, Zenon DEF Stores
<1>3. PICK f \in [0..Len(<<>>) -> 0..n] : Cut(<<>>, f, n) /\ f[0] = n
  BY CutNone
<1>a. PICK z \in Nat : z = 0 /\ z <= n
  OBVIOUS
<1>b. Stretch(z, n) \in Seq(Nat) /\ Len(Stretch(z, n)) = n - z /\ Run(Stretch(z, n), z)
  BY <1>a, StretchIsRun
<1>c. PICK u \in Seq(Nat) : u = Stretch(z, n)
  BY <1>b
<1>d. Len(u) = n - z /\ n - z = n
  BY <1>a, <1>b, <1>c
<1>4. u = Stretch(0, n) /\ Len(u) = n /\ Run(u, 0)
  BY <1>a, <1>b, <1>c, <1>d
<1>5. Len(u) = n /\ \A i \in 1..n : u[i] = i
  BY <1>4 DEF Run
<1>6. Len(<<>>) = 0 /\ \A i \in 1..0 : FALSE
  OBVIOUS
<1>7. InPlace(w, "buf", u)
  BY <1>2, <1>5 DEF InPlace
<1>8. ASSUME NEW x \in Stores PROVE InPlace(w, x, h[x])
  <2>1. CASE x = "buf"
    BY <1>4, <1>7, <2>1
  <2>2. CASE x # "buf"
    <3>1. InPlace(w, x, <<>>)
      BY <1>2, <1>6, <2>2 DEF InPlace
    <3>2. QED BY <2>2, <3>1
  <2>3. QED BY <2>1, <2>2
<1>9. InOrder(h, n)
  <2>1. h["out"] = <<>> /\ h["got"] = <<>> /\ h["buf"] = u /\ h["held"] = <<>>
    BY <1>4, Zenon DEF Stores
  <2>2. \A y : Run(<<>>, y)
    BY <1>6 DEF Run
  <2>3. QED BY <1>4, <1>5, <1>6, <2>1, <2>2 DEF InOrder
<1>10. \A r \in 1..n : ~(n < r)
  OBVIOUS
<1>11. AccountedBy(f, w, n, <<>>, h, {}, marks)
  BY <1>2, <1>3, <1>8, <1>9, <1>10 DEF AccountedBy
<1>12. QED BY <1>2, <1>11 DEF Accounted

--------------------------------------------------------------------------------
(* What the ledger says of the rows that the user has. *)
LEMMA LedgerTells ==
  ASSUME NEW n \in Nat, NEW chunks, NEW h, Shelves(h), NEW gone, NEW marks,
         Accounted(n, chunks, h, gone, marks)
  PROVE  /\ \A i, k \in 1..Len(h["out"]) : h["out"][i] = h["out"][k] => i = k
         /\ ToSet(h["out"]) \cap gone = {} /\ ToSet(h["out"]) \cup gone \subseteq 1..n
         /\ marks = {} /\ gone = {} => Run(h["out"], 0) /\ Len(h["out"]) <= n
<1>1. PICK e \in [0..Len(chunks) -> 0..n], w \in [1..n -> Places] :
         AccountedBy(e, w, n, chunks, h, gone, marks)
  BY DEF Accounted
<1>2. PICK o \in Seq(Nat) : o = h["out"]
  BY Zenon DEF Shelves, Stores
<1>3. InPlace(w, "out", o) /\ gone \subseteq 1..n /\ \A r \in 1..n : w[r] = "gone" <=> r \in gone
  BY <1>1, <1>2, Zenon DEF AccountedBy, Stores
<1>4. DOMAIN w = 1..n
  OBVIOUS
<1>5. \A i, k \in 1..Len(o) : o[i] = o[k] => i = k
  BY <1>3 DEF InPlace
<1>6. \A x \in ToSet(o) : x \in 1..n /\ w[x] = "out"
  <2>1. \A i \in 1..Len(o) : o[i] \in 1..n /\ w[o[i]] = "out"
    BY <1>3, <1>4 DEF InPlace
  <2>2. \A x : x \in ToSet(o) <=> \E i \in 1..Len(o) : o[i] = x
    BY ToSetIs
  <2>3. QED BY <2>1, <2>2
<1>7. marks = {} /\ gone = {} => Run(o, 0)
  BY <1>1, <1>2 DEF AccountedBy, InOrder
<1>8. ASSUME Run(o, 0) PROVE Len(o) <= n
  <2>1. PICK l \in Nat : l = Len(o)
    BY LenProperties
  <2>2. CASE l = 0
    BY <2>1, <2>2
  <2>3. CASE l # 0
    <3>1. l \in 1..l
      BY <2>3
    <3>2. o[l] = l
      BY <1>8, <2>1, <3>1 DEF Run
    <3>3. o[l] \in ToSet(o)
      BY <2>1, <3>1, ToSetIs
    <3>4. l \in 1..n
      BY <1>6, <3>2, <3>3
    <3>5. QED BY <2>1, <3>4
  <2>4. QED BY <2>2, <2>3
<1>9. ToSet(o) \cap gone = {} /\ ToSet(o) \cup gone \subseteq 1..n
  BY <1>3, <1>6
<1>10. QED BY <1>2, <1>5, <1>7, <1>8, <1>9

(* No row is on its way to the rows at hand. *)
Drained(h) == h["buf"] = <<>> /\ h["held"] = <<>> /\ h["lost held"] = <<>>

(* Nothing is left, and nothing was lost. *)
Settled(chunks, h, marks) ==
  Len(chunks) = 0 /\ Shelves(h) /\ Drained(h) /\ marks \cap Lossy = {}
(* All rows were given. *)
AllGiven(n, h, gone) ==
  ToSet(h["out"]) \cup gone \cup (ToSet(h["got"]) \cup ToSet(h["lost got"])) = 1..n

(* When nothing is left and nothing was lost, all rows were given. *)
LEMMA NoneIsLeft ==
  ASSUME NEW n \in Nat, NEW chunks, NEW h, NEW gone, NEW marks,
         Accounted(n, chunks, h, gone, marks), Settled(chunks, h, marks)
  PROVE  AllGiven(n, h, gone)
<1>a. Len(chunks) = 0 /\ Shelves(h) /\ Drained(h) /\ marks \cap Lossy = {}
  BY DEF Settled
<1>1. PICK e \in [0..Len(chunks) -> 0..n], w \in [1..n -> Places] :
         AccountedBy(e, w, n, chunks, h, gone, marks)
  BY DEF Accounted
<1>2. \A x \in Stores : h[x] \in Seq(Nat) /\ InPlace(w, x, h[x])
  BY <1>a, <1>1 DEF AccountedBy, Shelves
<1>3. Len(<<>>) = 0 /\ \A i \in 1..0 : FALSE
  OBVIOUS
<1>4. e[0] = n
  <2>1. Cut(chunks, e, n)
    BY <1>1 DEF AccountedBy
  <2>2. QED BY <1>a, <2>1 DEF Cut
<1>5. \A r \in 1..n : w[r] # "chunks" /\ w[r] # "nowhere"
  <2>1. \A r \in 1..n : ~(n < r)
    OBVIOUS
  <2>2. \A r \in 1..n : (w[r] = "chunks" <=> e[0] < r) /\ w[r] # "nowhere"
    BY <1>a, <1>1 DEF AccountedBy
  <2>3. QED BY <1>4, <2>1, <2>2
<1>6. DOMAIN w = 1..n
  OBVIOUS
<1>7. ASSUME NEW x \in Stores, h[x] = <<>>, NEW r \in 1..n PROVE w[r] # x
  <2>1. InPlace(w, x, <<>>)
    BY <1>2, <1>7
  <2>2. QED BY <1>3, <1>6, <2>1 DEF InPlace
<1>8. ASSUME NEW x \in Stores, NEW r \in 1..n PROVE w[r] = x <=> r \in ToSet(h[x])
  <2>1. PICK s \in Seq(Nat) : s = h[x]
    BY <1>2
  <2>2. InPlace(w, x, s)
    BY <1>2, <2>1
  <2>3. w[r] = x <=> \E i \in 1..Len(s) : s[i] = r
    BY <1>6, <2>2 DEF InPlace
  <2>4. QED BY <2>1, <2>3, ToSetIs
<1>9. ASSUME NEW x \in Stores PROVE ToSet(h[x]) \subseteq 1..n
  <2>1. PICK s \in Seq(Nat) : s = h[x]
    BY <1>2
  <2>2. InPlace(w, x, s)
    BY <1>2, <2>1
  <2>3. \A i \in 1..Len(s) : s[i] \in 1..n
    BY <1>6, <2>2 DEF InPlace
  <2>4. QED BY <2>1, <2>3, ToSetIs
<1>10. gone \subseteq 1..n /\ \A r \in 1..n : w[r] = "gone" <=> r \in gone
  BY <1>1 DEF AccountedBy
<1>11. /\ {"out", "got", "lost got", "buf", "held", "lost held"} \subseteq Stores
       /\ Places \subseteq {"out", "got", "lost got", "buf", "held", "lost held",
                            "chunks", "gone", "nowhere"}
  BY Zenon DEF Stores, Places
<1>12. ASSUME NEW r \in 1..n
       PROVE  r \in ToSet(h["out"]) \cup gone \cup (ToSet(h["got"]) \cup ToSet(h["lost got"]))
  <2>1. w[r] \in Places
    OBVIOUS
  <2>2. w[r] # "buf" /\ w[r] # "held" /\ w[r] # "lost held"
    BY <1>a, <1>7, <1>11, Zenon DEF Drained
  <2>3. w[r] \in {"out", "got", "lost got", "gone"}
    BY <1>5, <1>11, <2>1, <2>2, Zenon
  <2>4. QED BY <1>8, <1>10, <1>11, <2>3, Zenon
<1>13. QED BY <1>9, <1>10, <1>11, <1>12, Zenon DEF AllGiven

--------------------------------------------------------------------------------
(* What a result set starts with: the n rows, cut into chunks or at hand. *)
Laid(chunks, buf, n) ==
  /\ chunks \in Seq(Seq(Nat)) /\ buf \in Seq(Nat)
  /\ \/ /\ buf = <<>>
        /\ \E e \in [0..Len(chunks) -> 0..n] : Cut(chunks, e, n) /\ e[0] = 0
     \/ chunks = <<>> /\ buf = Stretch(0, n)

(* One chunk of all of them. *)
LEMMA OneChunk ==
  ASSUME NEW n \in Nat
  PROVE  Laid(<<Stretch(0, n)>>, <<>>, n)
<1>a. PICK z \in Nat : z = 0 /\ z <= n
  OBVIOUS
<1>b. Stretch(z, n) \in Seq(Nat) /\ Len(Stretch(z, n)) = n - z /\ Run(Stretch(z, n), z)
  BY <1>a, StretchIsRun
<1>1. PICK u \in Seq(Nat) : u = Stretch(z, n)
  BY <1>b
<1>2. Len(u) = n - 0 /\ Run(u, 0)
  BY <1>a, <1>b, <1>1
<1>3. PICK c : c = <<u>>
  OBVIOUS
<1>4. c \in Seq(Seq(Nat)) /\ Len(c) = 1 /\ c[1] = u
  BY <1>3
<1>5. PICK e : e = [i \in 0..1 |-> IF i = 0 THEN 0 ELSE n]
  OBVIOUS
<1>6. e \in [0..1 -> 0..n] /\ e[0] = 0 /\ e[1] = n
  BY <1>5
<1>7. \A i, k \in 0..1 : i <= k => e[i] <= e[k]
  <2>1. \A i \in 0..1 : i = 0 \/ i = 1
    OBVIOUS
  <2>2. 0 <= n /\ n <= n /\ 0 <= 0 /\ ~(1 <= 0)
    OBVIOUS
  <2>3. QED BY <1>6, <2>1, <2>2
<1>8. \A i \in 1..1 : Run(c[i], e[i - 1]) /\ Len(c[i]) = e[i] - e[i - 1]
  <2>1. \A i \in 1..1 : i = 1 /\ i - 1 = 0
    OBVIOUS
  <2>2. QED BY <1>2, <1>4, <1>6, <2>1
<1>9. Cut(c, e, n)
  BY <1>4, <1>6, <1>7, <1>8 DEF Cut
<1>10. Laid(c, <<>>, n)
  BY <1>4, <1>6, <1>9 DEF Laid
<1>11. QED BY <1>a, <1>1, <1>3, <1>10

(* Division, in the words that are needed. *)
LEMMA PiecesCover ==
  ASSUME NEW n \in Nat, NEW k \in Nat \ {0}
  PROVE  \E K \in Nat : /\ K = (n + k - 1) \div k
                        /\ n <= K * k
                        /\ \A i \in 1..K : (i - 1) * k < n
                        /\ \A i, l \in Nat : i <= l => i * k <= l * k
                        /\ \A i \in Nat : i * k \in Nat /\ (i + 1) * k = i * k + k
<1>1. PICK m \in Nat : m = n + k - 1
  OBVIOUS
<1>2. PICK K \in Nat : K = m \div k
  OBVIOUS
<1>3. k * K <= m /\ m < k * K + k
  BY <1>2
<1>4. \A i, l \in Nat : i <= l => i * k <= l * k
  OBVIOUS
<1>5. \A i \in Nat : i * k \in Nat /\ (i + 1) * k = i * k + k
  OBVIOUS
<1>6. K * k = k * K
  OBVIOUS
<1>7. n <= K * k
  BY <1>1, <1>3, <1>5, <1>6
<1>8. ASSUME NEW i \in 1..K PROVE (i - 1) * k < n
  <2>1. i * k <= K * k
    BY <1>4
  <2>2. i - 1 \in Nat /\ (i - 1) + 1 = i
    OBVIOUS
  <2>3. i * k = (i - 1) * k + k /\ (i - 1) * k \in Nat /\ i * k \in Nat /\ K * k \in Nat
    BY <1>5, <2>2
  <2>4. QED BY <1>1, <1>3, <1>6, <2>1, <2>3
<1>9. QED BY <1>1, <1>2, <1>4, <1>5, <1>7, <1>8

(* Cut into pieces, the rows are chunks, and none of them is empty. *)
LEMMA PiecesAreLaid ==
  ASSUME NEW n \in Nat, NEW k \in Nat \ {0}, NEW s \in Seq(Nat), Len(s) = n, Run(s, 0)
  PROVE  /\ Laid(Pieces(s, k), <<>>, n)
         /\ \A i \in 1..Len(Pieces(s, k)) : Pieces(s, k)[i] # <<>>
<1>1. PICK K \in Nat : /\ K = (n + k - 1) \div k
                       /\ n <= K * k
                       /\ \A i \in 1..K : (i - 1) * k < n
                       /\ \A i, l \in Nat : i <= l => i * k <= l * k
                       /\ \A i \in Nat : i * k \in Nat /\ (i + 1) * k = i * k + k
  BY PiecesCover
<1>2. PICK e : e = [i \in 0..K |-> IF i * k < n THEN i * k ELSE n]
  OBVIOUS
<1>3. \A i \in 0..K : e[i] = IF i * k < n THEN i * k ELSE n
  BY <1>2
<1>4. e \in [0..K -> 0..n]
  <2>1. ASSUME NEW i \in 0..K PROVE (IF i * k < n THEN i * k ELSE n) \in 0..n
    <3>1. PICK x \in Nat : x = i * k
      BY <1>1
    <3>2. (IF x < n THEN x ELSE n) \in 0..n
      OBVIOUS
    <3>3. QED BY <3>1, <3>2
  <2>2. QED BY <1>2, <2>1
<1>5. e[0] = 0
  <2>1. 0 \in 0..K /\ 0 * k = 0
    OBVIOUS
  <2>2. e[0] = IF 0 < n THEN 0 ELSE n
    BY <1>3, <2>1
  <2>3. QED BY <2>2
<1>6. e[K] = n
  <2>1. K \in 0..K /\ K * k \in Nat /\ ~(K * k < n)
    BY <1>1
  <2>2. QED BY <1>3, <2>1
<1>7. \A i, l \in 0..K : i <= l => e[i] <= e[l]
  <2>1. ASSUME NEW i \in 0..K, NEW l \in 0..K, i <= l PROVE e[i] <= e[l]
    <3>1. PICK x \in Nat, y \in Nat : x = i * k /\ y = l * k
      BY <1>1
    <3>2. x <= y
      BY <1>1, <2>1, <3>1
    <3>3. e[i] = (IF x < n THEN x ELSE n) /\ e[l] = (IF y < n THEN y ELSE n)
      BY <1>3, <3>1
    <3>4. QED BY <3>2, <3>3
  <2>2. QED BY <2>1
<1>8. PICK c : c = [i \in 1..K |-> SubSeq(s, (i - 1) * k + 1, IF i * k < n THEN i * k ELSE n)]
  OBVIOUS
<1>9. ASSUME NEW i \in 1..K
      PROVE  /\ c[i] \in Seq(Nat) /\ Run(c[i], e[i - 1]) /\ Len(c[i]) = e[i] - e[i - 1]
             /\ c[i] # <<>>
  <2>1. PICK j \in 0..K : j = i - 1
    OBVIOUS
  <2>2. PICK x \in Nat : x = j * k
    BY <1>1
  <2>3. x < n /\ i * k = x + k
    <3>1. (i - 1) * k < n /\ j + 1 = i /\ (j + 1) * k = j * k + k
      BY <1>1, <2>1
    <3>2. QED BY <2>1, <2>2, <3>1
  <2>4. PICK y \in Nat : y = IF x + k < n THEN x + k ELSE n
    OBVIOUS
  <2>5. x < y /\ y <= n
    BY <2>3, <2>4
  <2>6. e[j] = x /\ e[i] = y
    <3>1. e[j] = (IF j * k < n THEN j * k ELSE n) /\ e[i] = (IF i * k < n THEN i * k ELSE n)
      BY <1>3
    <3>2. QED BY <2>2, <2>3, <2>4, <3>1
  <2>7. c[i] = SubSeq(s, x + 1, y)
    <3>1. c[i] = SubSeq(s, (i - 1) * k + 1, IF i * k < n THEN i * k ELSE n)
      BY <1>8
    <3>2. (i - 1) * k = x /\ (IF i * k < n THEN i * k ELSE n) = y
      BY <2>1, <2>2, <2>3, <2>4
    <3>3. QED BY <3>1, <3>2
  <2>8. \A z \in 1..n : s[z] = z
    BY DEF Run
  <2>9. x + 1 \in Int /\ y \in Int /\ \A z \in (x + 1)..y : s[z] \in Nat /\ s[z] = z
    <3>1. \A z \in (x + 1)..y : z \in 1..n
      BY <2>5
    <3>2. QED BY <2>8, <3>1
  <2>10. PICK m \in Int : m = x + 1
    OBVIOUS
  <2>11. \A z \in m..y : s[z] \in Nat
    BY <2>9, <2>10
  <2>12. PICK t : t = SubSeq(s, m, y)
    OBVIOUS
  <2>13. /\ t \in Seq(Nat) /\ Len(t) = IF m <= y THEN y - m + 1 ELSE 0
         /\ \A z \in 1..(y - m + 1) : t[z] = s[m + z - 1]
    BY <2>11, <2>12, SubSeqProperties
  <2>14. m <= y /\ y - m + 1 = y - x
    BY <2>5, <2>10
  <2>15. Len(t) = y - x /\ y - x # 0
    BY <2>5, <2>13, <2>14
  <2>16. ASSUME NEW z \in 1..(y - x) PROVE t[z] = x + z
    <3>1. m + z - 1 = x + z /\ x + z \in (x + 1)..y
      BY <2>10
    <3>2. t[z] = s[x + z]
      BY <2>13, <2>14, <3>1
    <3>3. QED BY <2>9, <3>1, <3>2
  <2>17. Run(t, x)
    BY <2>15, <2>16 DEF Run
  <2>18. t # <<>>
    BY <2>15
  <2>19. c[i] = t
    BY <2>7, <2>10, <2>12
  <2>20. QED BY <2>1, <2>6, <2>13, <2>15, <2>17, <2>18, <2>19
<1>10. Pieces(s, k) = c
  BY <1>1, <1>8 DEF Pieces
<1>11. c \in [1..K -> Seq(Nat)]
  BY <1>8, <1>9
<1>12. c \in Seq(Seq(Nat))
  BY <1>11, SeqDef
<1>13. Len(c) = K
  BY <1>11, <1>12, LenProperties
<1>14. Cut(c, e, n)
  BY <1>6, <1>7, <1>9, <1>13 DEF Cut
<1>15. Laid(c, <<>>, n)
  BY <1>4, <1>5, <1>12, <1>13, <1>14 DEF Laid
<1>16. QED BY <1>9, <1>10, <1>13, <1>15

--------------------------------------------------------------------------------
(* The rows of a statement are the stretch of all of them. *)
LEMMA RowsAreAll ==
  ASSUME NEW q \in Queries
  PROVE  /\ q.n \in Nat /\ DataRows(q) = Stretch(0, q.n) /\ DataRows(q) \in Seq(Nat)
         /\ Len(DataRows(q)) = q.n /\ Run(DataRows(q), 0)
         /\ DataRows(q) = <<>> <=> q.n = 0
         /\ ToSet(DataRows(q)) = 1..q.n
<1>1. q.n \in Nat
  BY FileCursorAssumption DEF Queries
<1>2. PICK n \in Nat : n = q.n
  BY <1>1
<1>3. PICK z \in Nat : z = 0 /\ z <= n
  OBVIOUS
<1>4. Stretch(z, n) \in Seq(Nat) /\ Len(Stretch(z, n)) = n - z /\ Run(Stretch(z, n), z)
  BY <1>3, StretchIsRun
<1>5. DataRows(q) = Stretch(z, n)
  <2>1. n - 0 = n /\ \A x \in 1..n : 0 + x = x
    OBVIOUS
  <2>2. [i \in 1..n |-> i] = [x \in 1..(n - 0) |-> 0 + x]
    BY <2>1
  <2>3. QED BY <1>2, <1>3, <2>2 DEF DataRows, Stretch
<1>6. PICK s \in Seq(Nat) : s = DataRows(q)
  BY <1>4, <1>5
<1>7. Len(s) = n /\ Run(s, 0) /\ \A i \in 1..n : s[i] = i
  BY <1>3, <1>4, <1>5, <1>6 DEF Run
<1>8. s = <<>> <=> n = 0
  BY <1>7, EmptySeq
<1>9. ToSet(s) = 1..n
  <2>1. \A x : x \in ToSet(s) <=> \E i \in 1..Len(s) : s[i] = x
    BY ToSetIs
  <2>2. \A x : x \in ToSet(s) <=> \E i \in 1..n : i = x
    BY <1>7, <2>1
  <2>3. \A x : x \in ToSet(s) <=> x \in 1..n
    BY <2>2
  <2>4. QED BY <2>3
<1>10. QED BY <1>1, <1>2, <1>3, <1>5, <1>6, <1>7, <1>8, <1>9

(* What there is to read, and from what. *)
LEMMA LinesAreRows ==
  ASSUME NEW q \in Queries
  PROVE  /\ q.stmt \in {"select", "show", "merge", "ctas"}
         /\ q.stmt \in {"merge", "ctas"} => q.n = 0
         /\ Extension(q) = ".txt" <=> q.stmt = "show"
         /\ Extension(q) = "" <=> q.stmt = "ctas"
         /\ Extension(q) = ".csv" => Tail(Lines(q)) = DataRows(q)
         /\ Extension(q) # ".csv" => Lines(q) = DataRows(q)
         /\ ContentLength(q) \in Nat
         /\ ContentLength(q) = 0 => q.n = 0
<1>1. /\ q.stmt \in {"select", "show", "merge", "ctas"}
      /\ q.stmt \in {"merge", "ctas"} => q.n = 0
  BY DEF Queries
<1>2. (Extension(q) = ".txt" <=> q.stmt = "show") /\ (Extension(q) = "" <=> q.stmt = "ctas")
  BY <1>1 DEF Extension
<1>3. PICK s \in Seq(Nat) : s = DataRows(q) /\ Len(s) = q.n
  BY RowsAreAll
<1>4. q.n \in Nat
  BY RowsAreAll
<1>5. CASE Extension(q) = ".csv"
  <2>1. Lines(q) = <<0>> \o s
    BY <1>3, <1>5 DEF Lines
  <2>2. <<0>> \in Seq(Nat) /\ Len(<<0>>) = 1
    OBVIOUS
  <2>3. PICK c : c = <<0>> \o s
    OBVIOUS
  <2>4. c \in Seq(Nat) /\ Len(c) = 1 + q.n
    BY <1>3, <2>2, <2>3, ConcatProperties
  <2>5. Tail(c) = s
    BY <2>3
  <2>6. Len(c) \in Nat /\ Len(c) # 0
    BY <1>4, <2>4
  <2>7. QED BY <1>1, <1>2, <1>3, <1>5, <2>1, <2>3, <2>5, <2>6 DEF ContentLength
<1>6. CASE Extension(q) # ".csv"
  <2>1. Lines(q) = s
    BY <1>3, <1>6, ConcatEmptySeq DEF Lines
  <2>2. QED BY <1>1, <1>2, <1>3, <1>4, <1>6, <2>1, Zenon DEF ContentLength
<1>7. QED BY <1>5, <1>6, Zenon

(* What a result set may start with. *)
Good(c, n) ==
  /\ Laid(c.chunks, c.buf, n)
  /\ c.streams \subseteq {"reader", "csv_stream"} /\ c.lazy \in BOOLEAN

(* No chunk of c is empty. *)
Whole(c) == \A i \in 1..Len(c.chunks) : c.chunks[i] # <<>>

(* An empty frame is all of no rows. *)
LEMMA EmptyIsGood ==
  ASSUME NEW n \in Nat, n = 0
  PROVE  Good(Empty, n)
<1>1. PICK u : u = Stretch(0, n)
  OBVIOUS
<1>2. u = <<>>
  <2>1. PICK z \in Nat : z = 0 /\ z <= n
    OBVIOUS
  <2>2. Stretch(z, n) \in Seq(Nat) /\ Len(Stretch(z, n)) = n - z
    BY <2>1, StretchIsRun
  <2>3. QED BY <1>1, <2>1, <2>2, EmptySeq
<1>3. Laid(<<u>>, <<>>, n)
  BY <1>1, OneChunk
<1>4. QED BY <1>2, <1>3 DEF Good, Empty, Content

(* All rows in a frame. *)
LEMMA FrameIsGood ==
  ASSUME NEW q \in Queries, NEW s, s = DataRows(q)
  PROVE  Good(Content(<<s>>, <<>>, {}, FALSE), q.n)
<1>1. Laid(<<Stretch(0, q.n)>>, <<>>, q.n)
  BY RowsAreAll, OneChunk
<1>2. s = Stretch(0, q.n)
  BY RowsAreAll
<1>3. QED BY <1>1, <1>2 DEF Good, Content

(* All rows in pieces. *)
LEMMA PiecesAreGood ==
  ASSUME NEW q \in Queries, NEW s, s = DataRows(q), NEW k \in Nat \ {0},
         NEW streams, streams \subseteq {"reader", "csv_stream"}, NEW lazy \in BOOLEAN
  PROVE  /\ Good(Content(Pieces(s, k), <<>>, streams, lazy), q.n)
         /\ Whole(Content(Pieces(s, k), <<>>, streams, lazy))
<1>1. q.n \in Nat /\ s \in Seq(Nat) /\ Len(s) = q.n /\ Run(s, 0)
  BY RowsAreAll
<1>2. /\ Laid(Pieces(s, k), <<>>, q.n)
      /\ \A i \in 1..Len(Pieces(s, k)) : Pieces(s, k)[i] # <<>>
  BY <1>1, PiecesAreLaid
<1>3. QED BY <1>2 DEF Good, Whole, Content

(* An option for the size of chunks. *)
LEMMA ChunksizeIsNatural ==
  ASSUME NEW k \in ChunksizeOptions, k # NULL
  PROVE  k \in Nat \ {0}
BY DEF ChunksizeOptions

(* pandas *)
LEMMA PandasIsGood ==
  ASSUME NEW q \in Queries, NEW o, o.chunksize \in ChunksizeOptions
  PROVE  Good(PandasContent(q, o), q.n)
<1>1. q.n \in Nat
  BY RowsAreAll
<1>2. q.n = 0 => Good(Empty, q.n)
  BY <1>1, EmptyIsGood
<1>3. Good(PandasFromApi(q), q.n)
  <2>1. FetchAllRows(q) = DataRows(q)
    BY DEF FetchAllRows
  <2>2. CASE FetchAllRows(q) = <<>>
    BY <1>2, <2>1, <2>2, RowsAreAll DEF PandasFromApi
  <2>3. CASE FetchAllRows(q) # <<>>
    <3>1. Good(Content(<<FetchAllRows(q)>>, <<>>, {}, FALSE), q.n)
      BY <2>1, FrameIsGood
    <3>2. QED BY <2>3, <3>1 DEF PandasFromApi
  <2>4. QED BY <2>2, <2>3
<1>4. Good(PandasReadParquet(q), q.n)
  <2>1. CASE DataManifest(q)
    <3>1. Good(Content(<<DataRows(q)>>, <<>>, {}, FALSE), q.n)
      BY FrameIsGood
    <3>2. QED BY <2>1, <3>1 DEF PandasReadParquet
  <2>2. CASE ~DataManifest(q)
    <3>1. q.n = 0
      BY <1>1, <2>2 DEF DataManifest
    <3>2. QED BY <1>2, <2>2, <3>1 DEF PandasReadParquet
  <2>3. QED BY <2>1, <2>2
<1>5. ASSUME NEW k \in ChunksizeOptions, NEW auto PROVE Good(PandasReadCsv(q, k, auto), q.n)
  <2>1. PICK effective :
          effective = IF k = NULL /\ auto THEN AutoDetermineChunksize(ContentLength(q)) ELSE k
    OBVIOUS
  <2>2. PICK data : data = IF PandasCsvHeader(q) THEN Tail(Lines(q)) ELSE Lines(q)
    OBVIOUS
  <2>3. PandasReadCsv(q, k, auto) =
          IF Extension(q) = "" \/ q.stmt = "merge" \/ ContentLength(q) = 0 THEN Empty
          ELSE IF effective = NULL THEN Content(<<data>>, <<>>, {}, FALSE)
          ELSE Content(Pieces(data, effective), <<>>, {"reader"} \cup BinaryStream(q), TRUE)
    BY <2>1, <2>2 DEF PandasReadCsv
  <2>4. CASE Extension(q) = "" \/ q.stmt = "merge" \/ ContentLength(q) = 0
    <3>1. q.n = 0
      BY <2>4, LinesAreRows, Zenon
    <3>2. QED BY <1>2, <2>3, <2>4, <3>1, Zenon
  <2>5. CASE ~(Extension(q) = "" \/ q.stmt = "merge" \/ ContentLength(q) = 0)
    <3>1. data = DataRows(q)
      BY <2>2, <2>5, LinesAreRows DEF PandasCsvHeader, Extension
    <3>2. CASE effective = NULL
      <4>1. Good(Content(<<data>>, <<>>, {}, FALSE), q.n)
        BY <3>1, FrameIsGood
      <4>2. QED BY <2>3, <2>5, <3>2, <4>1, Zenon
    <3>3. CASE effective # NULL
      <4>1. effective \in Nat \ {0}
        <5>1. AutoDetermineChunksize(ContentLength(q)) \in {NULL, AUTO_SIZE_LARGE, AUTO_SIZE_MEDIUM}
          BY DEF AutoDetermineChunksize
        <5>2. QED BY <2>1, <3>3, <5>1, FileCursorAssumption, ChunksizeIsNatural
      <4>2. {"reader"} \cup BinaryStream(q) \subseteq {"reader", "csv_stream"}
        BY DEF BinaryStream
      <4>3. PICK streams : streams = {"reader"} \cup BinaryStream(q)
        OBVIOUS
      <4>4. Good(Content(Pieces(data, effective), <<>>, streams, TRUE), q.n)
        BY <3>1, <4>1, <4>2, <4>3, PiecesAreGood
      <4>5. QED BY <2>3, <2>5, <3>3, <4>3, <4>4, Zenon
    <3>4. QED BY <3>2, <3>3
  <2>6. QED BY <2>4, <2>5, Zenon
<1>6. QED BY <1>3, <1>4, <1>5 DEF PandasContent

(* Arrow *)
LEMMA ArrowIsGood ==
  ASSUME NEW q \in Queries, NEW o, o.arraysize \in Nat \ {0}
  PROVE  Good(ArrowContent(q, o), q.n) /\ Whole(ArrowContent(q, o))
<1>1. q.n \in Nat /\ (q.n = 0 => DataRows(q) = <<>>)
  BY RowsAreAll
<1>2. ArrowFromApi(q) = DataRows(q)
  BY DEF ArrowFromApi, FetchAllRows
<1>3. ArrowReadParquet(q) = DataRows(q)
  BY <1>1 DEF ArrowReadParquet, DataManifest
<1>4. ArrowReadCsv(q) = DataRows(q)
  <2>1. CASE Extension(q) = "" \/ q.stmt = "merge" \/ ContentLength(q) = 0
    BY <1>1, <2>1, LinesAreRows, Zenon DEF ArrowReadCsv
  <2>2. CASE ~(Extension(q) = "" \/ q.stmt = "merge" \/ ContentLength(q) = 0)
    BY <2>2, LinesAreRows DEF ArrowReadCsv, Extension
  <2>3. QED BY <2>1, <2>2, Zenon
<1>5. PICK table : table = IF ~q.located THEN ArrowFromApi(q)
                           ELSE IF IsUnload(q, o.unload) THEN ArrowReadParquet(q)
                           ELSE ArrowReadCsv(q)
  OBVIOUS
<1>6. table = DataRows(q)
  BY <1>2, <1>3, <1>4, <1>5
<1>7. PICK k \in Nat \ {0} : k = o.arraysize
  OBVIOUS
<1>8. ArrowContent(q, o) = Content(Pieces(table, k), <<>>, {}, FALSE)
  BY <1>5, <1>7 DEF ArrowContent
<1>9. PICK none : none = {}
  OBVIOUS
<1>10. /\ Good(Content(Pieces(table, k), <<>>, none, FALSE), q.n)
       /\ Whole(Content(Pieces(table, k), <<>>, none, FALSE))
  <2>1. none \subseteq {"reader", "csv_stream"}
    BY <1>9
  <2>2. QED BY <1>6, <2>1, PiecesAreGood
<1>11. QED BY <1>8, <1>9, <1>10

(* Polars *)
LEMMA PolarsIsGood ==
  ASSUME NEW q \in Queries, NEW o, o.chunksize \in ChunksizeOptions
  PROVE  Good(PolarsContent(q, o), q.n)
<1>1. q.n \in Nat /\ (q.n = 0 => DataRows(q) = <<>>)
  BY RowsAreAll
<1>2. FetchAllRows(q) = DataRows(q)
  BY DEF FetchAllRows
<1>3. PolarsReadParquet(q) = DataRows(q)
  BY <1>1 DEF PolarsReadParquet, DataManifest
<1>4. PolarsReadCsv(q) = DataRows(q)
  <2>1. CASE ~IsCsvReadable(q)
    <3>1. q.n = 0
      BY <2>1, LinesAreRows, Zenon DEF IsCsvReadable
    <3>2. QED BY <1>1, <2>1, <3>1 DEF PolarsReadCsv
  <2>2. CASE IsCsvReadable(q)
    BY <2>2, LinesAreRows DEF PolarsReadCsv, IsCsvReadable, Extension
  <2>3. QED BY <2>1, <2>2
<1>5. PICK s : s = DataRows(q)
  OBVIOUS
<1>6. Good(Content(<<s>>, <<>>, {}, FALSE), q.n)
  BY <1>5, FrameIsGood
<1>7. CASE q.located /\ o.chunksize # NULL
  <2>1. PICK k \in Nat \ {0} : k = o.chunksize
    BY <1>7, ChunksizeIsNatural
  <2>2. PolarsContent(q, o) = Content(Pieces(s, k), <<>>, {}, TRUE)
    BY <1>3, <1>4, <1>5, <1>7, <2>1 DEF PolarsContent, PolarsIterChunks
  <2>3. PICK none : none = {}
    OBVIOUS
  <2>4. Good(Content(Pieces(s, k), <<>>, none, TRUE), q.n)
    <3>1. none \subseteq {"reader", "csv_stream"}
      BY <2>3
    <3>2. QED BY <1>5, <3>1, PiecesAreGood
  <2>5. QED BY <2>2, <2>3, <2>4
<1>8. CASE ~(q.located /\ o.chunksize # NULL)
  <2>1. PolarsContent(q, o) = Content(<<s>>, <<>>, {}, FALSE)
    BY <1>2, <1>3, <1>4, <1>5, <1>8 DEF PolarsContent
  <2>2. QED BY <1>6, <2>1
<1>9. QED BY <1>7, <1>8

(* Rows one by one. *)
LEMMA LinesAreLaid ==
  ASSUME NEW n \in Nat, NEW s \in Seq(Nat), Len(s) = n, Run(s, 0)
  PROVE  /\ Laid([i \in DOMAIN s |-> <<s[i]>>], <<>>, n)
         /\ \A i \in 1..Len([x \in DOMAIN s |-> <<s[x]>>]) :
              [x \in DOMAIN s |-> <<s[x]>>][i] # <<>>
<1>1. DOMAIN s = 1..n /\ \A i \in 1..n : s[i] = i
  BY LenProperties DEF Run
<1>2. PICK c : c = [i \in 1..n |-> <<s[i]>>]
  OBVIOUS
<1>3. \A i \in 1..n : c[i] = <<i>>
  BY <1>1, <1>2
<1>4. \A i \in 1..n : <<i>> \in Seq(Nat) /\ Len(<<i>>) = 1 /\ <<i>>[1] = i /\ <<i>> # <<>>
  OBVIOUS
<1>5. c \in [1..n -> Seq(Nat)]
  BY <1>1, <1>2, <1>4
<1>6. c \in Seq(Seq(Nat))
  BY <1>5, SeqDef
<1>7. Len(c) = n
  BY <1>5, <1>6, LenProperties
<1>8. PICK e : e = [i \in 0..n |-> i]
  OBVIOUS
<1>9. e \in [0..n -> 0..n] /\ \A i \in 0..n : e[i] = i
  BY <1>8
<1>10. e[0] = 0 /\ e[n] = n /\ \A i, k \in 0..n : i <= k => e[i] <= e[k]
  BY <1>9
<1>11. ASSUME NEW i \in 1..n
       PROVE  Run(c[i], e[i - 1]) /\ Len(c[i]) = e[i] - e[i - 1]
  <2>1. i - 1 \in 0..n /\ i \in 0..n /\ i - (i - 1) = 1 /\ (i - 1) + 1 = i
    OBVIOUS
  <2>2. e[i - 1] = i - 1 /\ e[i] = i
    BY <1>9, <2>1
  <2>3. PICK t : t = <<i>>
    OBVIOUS
  <2>4. Len(t) = 1 /\ t[1] = i
    BY <2>3
  <2>5. \A x \in 1..1 : x = 1
    OBVIOUS
  <2>6. Run(t, i - 1)
    BY <2>1, <2>4, <2>5 DEF Run
  <2>7. c[i] = t
    BY <1>3, <2>3
  <2>8. QED BY <2>1, <2>2, <2>4, <2>6, <2>7
<1>12. Cut(c, e, n)
  BY <1>7, <1>10, <1>11 DEF Cut
<1>13. Laid(c, <<>>, n)
  <2>1. e \in [0..Len(c) -> 0..n] /\ e[0] = 0
    BY <1>7, <1>9, <1>10
  <2>2. QED BY <1>6, <1>12, <2>1 DEF Laid
<1>14. \A i \in 1..Len(c) : c[i] # <<>>
  BY <1>3, <1>4, <1>7
<1>15. c = [i \in DOMAIN s |-> <<s[i]>>]
  BY <1>1, <1>2
<1>16. QED BY <1>13, <1>14, <1>15

(* S3FS *)
LEMMA S3FSIsGood ==
  ASSUME NEW q \in Queries, NEW o
  PROVE  /\ Good(S3FSContent(q, o), q.n) /\ Whole(S3FSContent(q, o))
         /\ "reader" \in S3FSContent(q, o).streams \/ S3FSContent(q, o).chunks = <<>>
<1>1. PICK s \in Seq(Nat) : s = DataRows(q)
  BY RowsAreAll
<1>2. /\ q.n \in Nat /\ Len(s) = q.n /\ Run(s, 0) /\ s = Stretch(0, q.n)
      /\ s = <<>> <=> q.n = 0
  BY <1>1, RowsAreAll
<1>3. CASE S3FSReader(q)
  <2>1. S3FSLines(q) = s
    BY <1>1, <1>3, LinesAreRows DEF S3FSReader, S3FSLines, Extension
  <2>2. PICK c : c = [i \in DOMAIN s |-> <<s[i]>>]
    OBVIOUS
  <2>3. S3FSContent(q, o) = Content(c, <<>>, {"reader"}, TRUE)
    BY <1>3, <2>1, <2>2 DEF S3FSContent
  <2>4. Laid(c, <<>>, q.n) /\ \A i \in 1..Len(c) : c[i] # <<>>
    BY <1>2, <2>2, LinesAreLaid
  <2>5. QED BY <2>3, <2>4 DEF Good, Whole, Content
<1>4. CASE ~S3FSReader(q)
  <2>1. PICK rows : rows = IF q.located THEN <<>> ELSE FetchAllRows(q)
    OBVIOUS
  <2>2. q.located => q.n = 0
    BY <1>4, LinesAreRows, Zenon DEF S3FSReader
  <2>3. rows = s
    BY <1>1, <1>2, <2>1, <2>2 DEF FetchAllRows
  <2>4. PICK buf : buf = IF rows = <<>> THEN PreFetched(q) ELSE rows
    OBVIOUS
  <2>5. buf = s
    BY <1>2, <2>3, <2>4 DEF PreFetched
  <2>6. S3FSContent(q, o) = Content(<<>>, buf, {}, FALSE)
    BY <1>4, <2>1, <2>4 DEF S3FSContent
  <2>7. <<>> \in Seq(Seq(Nat)) /\ Len(<<>>) = 0 /\ \A i \in 1..0 : FALSE
    OBVIOUS
  <2>8. Laid(<<>>, buf, q.n)
    BY <1>2, <2>5, <2>7 DEF Laid
  <2>9. QED BY <2>6, <2>7, <2>8 DEF Good, Whole, Content
<1>5. QED BY <1>3, <1>4

--------------------------------------------------------------------------------
(* The stores with these rows in them. *)
ShelfOf(buf, out, got, held, lostgot, lostheld) ==
  [p \in Stores |->
     CASE p = "buf" -> buf        [] p = "out" -> out
       [] p = "got" -> got        [] p = "lost got" -> lostgot
       [] p = "held" -> held      [] p = "lost held" -> lostheld]

(* The rows of the calls. *)
LEMMA RowsOfCalls ==
  ASSUME NEW t \in Threads, NEW j
  PROVE  /\ TypeOK => GotFrom(t, j) \in Seq(Nat) /\ HeldFrom(t, j) \in Seq(Nat)
         /\ TypeOK' => GotFrom(t, j)' \in Seq(Nat) /\ HeldFrom(t, j)' \in Seq(Nat)
<1>1. <<>> \in Seq(Nat)
  OBVIOUS
<1>2. TypeOK => GotFrom(t, j) \in Seq(Nat) /\ HeldFrom(t, j) \in Seq(Nat)
  BY <1>1 DEF TypeOK, Calls, GotFrom, HeldFrom
<1>3. TypeOK' => GotFrom(t, j)' \in Seq(Nat) /\ HeldFrom(t, j)' \in Seq(Nat)
  BY <1>1 DEF TypeOK, Calls, GotFrom, HeldFrom
<1>4. QED  BY <1>2, <1>3

(* What is in the stores of an execution ... *)
LEMMA StoredIs ==
  ASSUME NEW j \in Execs, TypeOK
  PROVE  /\ Shelves(Stored(j))
         /\ Stored(j)["buf"] = rs[j].buf /\ Stored(j)["out"] = seen[j].out
         /\ Stored(j)["got"] = GotFrom("user", j) /\ Stored(j)["held"] = HeldFrom("user", j)
         /\ Stored(j)["lost got"] = GotFrom("lost", j)
         /\ Stored(j)["lost held"] = HeldFrom("lost", j)
<1>1. rs[j].buf \in Seq(Nat) /\ seen[j].out \in Seq(Nat)
  BY DEF TypeOK, ResultSets, Histories
<1>2. PICK b \in Seq(Nat), o \in Seq(Nat), ug \in Seq(Nat), uh \in Seq(Nat),
           lg \in Seq(Nat), lh \in Seq(Nat) :
        /\ b = rs[j].buf /\ o = seen[j].out
        /\ ug = GotFrom("user", j) /\ uh = HeldFrom("user", j)
        /\ lg = GotFrom("lost", j) /\ lh = HeldFrom("lost", j)
  BY <1>1, RowsOfCalls DEF Threads
<1>3. Stored(j) = ShelfOf(b, o, ug, uh, lg, lh)
  BY <1>2 DEF Stored, ShelfOf, Store
<1>4. PICK h : h = Stored(j)
  OBVIOUS
<1>5. /\ Shelves(h)
      /\ h["buf"] = b /\ h["out"] = o /\ h["got"] = ug /\ h["held"] = uh
      /\ h["lost got"] = lg /\ h["lost held"] = lh
  BY <1>3, <1>4, Zenon DEF ShelfOf, Shelves, Stores
<1>6. QED  BY <1>2, <1>4, <1>5, Zenon

(* ... and what is in them after a step. *)
LEMMA StoredAfter ==
  ASSUME NEW j \in Execs, TypeOK'
  PROVE  /\ Shelves(Stored(j)')
         /\ Stored(j)'["buf"] = rs'[j].buf /\ Stored(j)'["out"] = seen'[j].out
         /\ Stored(j)'["got"] = GotFrom("user", j)' /\ Stored(j)'["held"] = HeldFrom("user", j)'
         /\ Stored(j)'["lost got"] = GotFrom("lost", j)'
         /\ Stored(j)'["lost held"] = HeldFrom("lost", j)'
<1>1. rs'[j].buf \in Seq(Nat) /\ seen'[j].out \in Seq(Nat)
  BY DEF TypeOK, ResultSets, Histories
<1>2. PICK b \in Seq(Nat), o \in Seq(Nat), ug \in Seq(Nat), uh \in Seq(Nat),
           lg \in Seq(Nat), lh \in Seq(Nat) :
        /\ b = rs'[j].buf /\ o = seen'[j].out
        /\ ug = GotFrom("user", j)' /\ uh = HeldFrom("user", j)'
        /\ lg = GotFrom("lost", j)' /\ lh = HeldFrom("lost", j)'
  BY <1>1, RowsOfCalls DEF Threads
<1>3. Stored(j)' = ShelfOf(b, o, ug, uh, lg, lh)
  BY <1>2 DEF Stored, ShelfOf, Store
<1>4. PICK h : h = Stored(j)'
  OBVIOUS
<1>5. /\ Shelves(h)
      /\ h["buf"] = b /\ h["out"] = o /\ h["got"] = ug /\ h["held"] = uh
      /\ h["lost got"] = lg /\ h["lost held"] = lh
  BY <1>3, <1>4, Zenon DEF ShelfOf, Shelves, Stores
<1>6. QED  BY <1>2, <1>4, <1>5, Zenon

(* The classes. *)
LEMMA ClassFacts ==
  ASSUME TypeOK
  PROVE  /\ class.reads \in {"pandas", "arrow", "polars", "s3fs"}
         /\ class.runs \in {"caller", "pool", "task"}
         /\ class.raises \in BOOLEAN
         /\ class.runs # "pool" => class.raises
         /\ Generator <=> class.reads \in {"pandas", "polars"}
<1>1. class \in FileCursorClasses
  BY FileCursorAssumption DEF TypeOK
<1>2. class.reads \in {"pandas", "arrow", "polars", "s3fs"}
  BY <1>1 DEF FileCursorClasses, PandasCursor, ArrowCursor, PolarsCursor, S3FSCursor,
       AsyncPandasCursor, AsyncArrowCursor, AsyncPolarsCursor, AsyncS3FSCursor,
       AioPandasCursor, AioArrowCursor, AioPolarsCursor, AioS3FSCursor
<1>3. class.runs \in {"caller", "pool", "task"}
  BY <1>1 DEF FileCursorClasses, PandasCursor, ArrowCursor, PolarsCursor, S3FSCursor,
       AsyncPandasCursor, AsyncArrowCursor, AsyncPolarsCursor, AsyncS3FSCursor,
       AioPandasCursor, AioArrowCursor, AioPolarsCursor, AioS3FSCursor
<1>4. ASSUME NEW c \in FileCursorClasses
      PROVE  (c.raises = TRUE \/ c.raises = FALSE) /\ (c.runs = "pool" \/ c.raises = TRUE)
  <2>1. CASE c \in {PandasCursor, ArrowCursor, PolarsCursor, S3FSCursor}
    BY <2>1 DEF PandasCursor, ArrowCursor, PolarsCursor, S3FSCursor
  <2>2. CASE c \in {AsyncPandasCursor, AsyncArrowCursor, AsyncPolarsCursor, AsyncS3FSCursor}
    BY <2>2 DEF AsyncPandasCursor, AsyncArrowCursor, AsyncPolarsCursor, AsyncS3FSCursor
  <2>3. CASE c \in {AioPandasCursor, AioArrowCursor, AioPolarsCursor, AioS3FSCursor}
    BY <2>3 DEF AioPandasCursor, AioArrowCursor, AioPolarsCursor, AioS3FSCursor
  <2>4. QED  BY <1>4, <2>1, <2>2, <2>3 DEF FileCursorClasses
<1>5. class.raises = TRUE \/ class.raises = FALSE
  BY <1>1, <1>4
<1>6. class.runs = "pool" \/ class.raises = TRUE
  BY <1>1, <1>4
<1>7. class.raises \in BOOLEAN /\ (class.runs # "pool" => class.raises)
  BY <1>5, <1>6, Zenon
<1>8. QED  BY <1>2, <1>3, <1>7 DEF Generator

(* A call under way and the execution it is about. *)
LEMMA CallIs ==
  ASSUME TypeOK, NEW t \in Threads, CallInOrder(t), call[t].pc # "idle",
         NEW j, j = call[t].j
  PROVE  /\ j \in Execs /\ job[j].pc = "done"
         /\ rs[j] \in ResultSets /\ call[t] \in Calls /\ seen[j] \in Histories
         /\ job[j] \in Jobs
         /\ rs \in [Execs -> ResultSets] /\ call \in [Threads -> Calls]
         /\ seen \in [Execs -> Histories]
BY DEF TypeOK, CallInOrder

(* What all steps of the call in thread t, about execution j, have in common. *)
Framed(t, j) ==
  /\ UNCHANGED <<fixed, job, cur, spent>>
  /\ rs' \in [Execs -> ResultSets] /\ call' \in [Threads -> Calls]
  /\ seen' \in [Execs -> Histories]
  /\ \A i \in Execs : i # j => rs'[i] = rs[i] /\ seen'[i] = seen[i]
  /\ \A o \in Threads : o # t => call'[o] = call[o]
  /\ seen[j].marks \subseteq seen'[j].marks
  /\ call'[t].pc = "idle" \/ call'[t].j = j

(* What they may do to the result set. *)
ReadOn(j) ==
  /\ rs'[j].closed = rs[j].closed /\ rs'[j].streams \subseteq rs[j].streams
  /\ \/ rs'[j].chunks = rs[j].chunks \/ rs'[j].chunks = <<>>
     \/ rs[j].chunks # <<>> /\ rs'[j].chunks = Tail(rs[j].chunks)
  /\ class.reads = "s3fs" => rs'[j].streams = rs[j].streams
  /\ class.reads = "pandas" /\ seen'[j].ended => rs'[j].streams = {}

(* The ledger of an execution that a step leaves alone. *)
LEMMA LedgerKept ==
  ASSUME NEW i \in Execs, Ledger(i), \A p \in Stores : Store(p, i)' = Store(p, i),
         Total(i)' = Total(i), rs'[i].chunks = rs[i].chunks, seen'[i] = seen[i]
  PROVE  Ledger(i)'
<1>1. Stored(i)' = Stored(i)
  BY DEF Stored
<1>2. QED  BY <1>1 DEF Ledger

(* So do these steps. *)
LEMMA OtherLedgers ==
  ASSUME TypeOK, NEW t \in Threads, NEW j \in Execs, j = call[t].j, CallInOrder(t)',
         Framed(t, j), NEW i \in Execs, i # j, Ledger(i)
  PROVE  /\ Ledger(i)'
         /\ \A o \in Threads : HeldFrom(o, i)' = HeldFrom(o, i)
<1>1. 0 \notin Execs
  BY DEF Execs
<1>2. call'[t].j # i
  BY <1>1 DEF CallInOrder, Framed, Idle
<1>3. \A o \in Threads : HeldFrom(o, i)' = HeldFrom(o, i) /\ GotFrom(o, i)' = GotFrom(o, i)
  BY <1>2 DEF Framed, HeldFrom, GotFrom
<1>4. rs'[i] = rs[i] /\ seen'[i] = seen[i] /\ Total(i)' = Total(i)
  BY DEF Framed, Total, fixed
<1>5. \A p \in Stores : Store(p, i)' = Store(p, i)
  BY <1>3, <1>4 DEF Store, Threads
<1>6. Ledger(i)'
  BY <1>4, <1>5, LedgerKept
<1>7. QED  BY <1>3, <1>6

(* The chunks that are left of whole chunks are whole. *)
LEMMA WholeRest ==
  ASSUME NEW c \in Seq(Seq(Nat)), \A i \in 1..Len(c) : c[i] # <<>>,
         NEW d, d = c \/ d = <<>> \/ (c # <<>> /\ d = Tail(c))
  PROVE  \A i \in 1..Len(d) : d[i] # <<>>
<1>1. CASE c # <<>> /\ d = Tail(c)
  <2>1. Len(c) \in Nat \ {0}
    BY <1>1, LenProperties, EmptySeq
  <2>2. Len(d) = Len(c) - 1 /\ \A i \in 1..Len(d) : d[i] = c[i + 1]
    BY <1>1, HeadTailProperties
  <2>3. QED  BY <2>1, <2>2
<1>2. QED  BY <1>1

(* A step of a call keeps the invariant, if it keeps what it can disturb.    *)
LEMMA StepKeeps ==
  ASSUME IInv, NEW t \in Threads, NEW j, j = call[t].j, call[t].pc # "idle",
         Framed(t, j), ReadOn(j), Ledger(j)', EndIsEnd(j)', CallInOrder(t)'
  PROVE  IInv'
<1>1. /\ TypeOK /\ Sequential /\ \A i \in Execs : Produced(i) /\ EndIsEnd(i)
      /\ \A o \in Threads : CallInOrder(o)
  BY DEF IInv
<1>2. /\ j \in Execs /\ job[j].pc = "done" /\ rs[j] \in ResultSets
  BY <1>1, CallIs
<1>3. TypeOK'
  BY <1>1 DEF TypeOK, Framed, fixed
<1>4. job' = job /\ cur' = cur /\ class' = class
  BY DEF Framed, fixed
<1>5. Sequential'
  <2>1. \A i \in Execs : rs'[i].streams \subseteq rs[i].streams
    BY DEF Framed, ReadOn
  <2>2. QED  BY <1>1, <1>4, <2>1 DEF Sequential
<1>6. ASSUME NEW i \in Execs, i # j
      PROVE  Produced(i)' /\ EndIsEnd(i)'
  <2>1. rs'[i] = rs[i] /\ seen'[i] = seen[i]
    BY <1>6 DEF Framed
  <2>2. /\ job[i].pc = "done" => Ledger(i)'
        /\ Finished(i) => \A o \in Threads : HeldFrom(o, i)' = <<>>
    <3>1. CASE job[i].pc = "done"
      BY <1>1, <1>2, <1>6, <3>1, OtherLedgers DEF Produced, EndIsEnd
    <3>2. CASE job[i].pc # "done"
      BY <1>1, <3>2 DEF Produced, Finished
    <3>3. QED  BY <3>1, <3>2
  <2>3. Produced(i)'
    BY <1>1, <1>4, <2>1, <2>2 DEF Produced, Generator, HasReader
  <2>4. EndIsEnd(i)'
    BY <1>1, <1>4, <2>1, <2>2 DEF EndIsEnd, Finished, Generator
  <2>5. QED  BY <2>3, <2>4
<1>7. Produced(j)'
  <2>1. rs[j].chunks \in Seq(Seq(Nat))
    BY <1>2 DEF ResultSets
  <2>2. ~Generator /\ job[j].ok => \A i \in 1..Len(rs'[j].chunks) : rs'[j].chunks[i] # <<>>
    <3>1. SUFFICES ASSUME ~Generator, job[j].ok
                   PROVE  \A i \in 1..Len(rs'[j].chunks) : rs'[j].chunks[i] # <<>>
      OBVIOUS
    <3>2. \A i \in 1..Len(rs[j].chunks) : rs[j].chunks[i] # <<>>
      BY <1>1, <1>2, <3>1 DEF Produced
    <3>3. rs'[j].chunks = rs[j].chunks \/ rs'[j].chunks = <<>>
            \/ (rs[j].chunks # <<>> /\ rs'[j].chunks = Tail(rs[j].chunks))
      BY DEF ReadOn
    <3>4. QED  BY <2>1, <3>2, <3>3, WholeRest
  <2>3. rs'[j].closed => rs'[j].streams = {} /\ "closed" \in seen'[j].marks
    BY <1>1, <1>2 DEF Produced, ReadOn, Framed
  <2>4. ~job[j].ok => ~class.raises /\ "unsuccessful" \in seen'[j].marks
    BY <1>1, <1>2 DEF Produced, Framed
  <2>5. class.reads = "s3fs" /\ seen'[j].marks \cap Spoilt = {} =>
          HasReader(rs'[j]) \/ rs'[j].chunks = <<>>
    <3>1. SUFFICES ASSUME class.reads = "s3fs", seen'[j].marks \cap Spoilt = {}
                   PROVE  HasReader(rs'[j]) \/ rs'[j].chunks = <<>>
      OBVIOUS
    <3>2. seen[j].marks \cap Spoilt = {}
      BY <3>1 DEF Framed
    <3>3. HasReader(rs[j]) \/ rs[j].chunks = <<>>
      BY <1>1, <1>2, <3>1, <3>2 DEF Produced
    <3>4. QED  BY <3>1, <3>3 DEF ReadOn, HasReader
  <2>6. class.reads = "pandas" /\ seen'[j].ended => rs'[j].streams = {}
    BY DEF ReadOn
  <2>7. QED  BY <1>2, <1>4, <2>2, <2>3, <2>4, <2>5, <2>6 DEF Produced, Generator
<1>8. ASSUME NEW o \in Threads, o # t
      PROVE  CallInOrder(o)'
  <2>1. call'[o] = call[o] /\ CallInOrder(o)
    BY <1>1, <1>8 DEF Framed
  <2>2. CASE call[o].pc = "idle"
    BY <2>1, <2>2 DEF CallInOrder, Idle
  <2>3. CASE call[o].pc # "idle" /\ call[o].j # j
    <3>1. call[o].j \in Execs
      BY <2>1, <2>3 DEF CallInOrder
    <3>2. rs'[call[o].j] = rs[call[o].j] /\ seen'[call[o].j] = seen[call[o].j]
      BY <2>3, <3>1 DEF Framed
    <3>3. QED  BY <1>4, <2>1, <3>2 DEF CallInOrder, Generator
  <2>4. CASE call[o].pc # "idle" /\ call[o].j = j
    <3>1. "abandoned" \in seen[j].marks
      BY <1>1, <1>8, <2>4 DEF Threads, CallInOrder
    <3>2. "abandoned" \in seen'[j].marks
      BY <3>1 DEF Framed
    <3>3. QED  BY <1>4, <2>1, <2>4, <3>2 DEF CallInOrder, Generator
  <2>5. QED  BY <2>2, <2>3, <2>4
<1>9. QED
  BY <1>3, <1>5, <1>6, <1>7, <1>8 DEF IInv

--------------------------------------------------------------------------------
(* Where the rows of a call are, by its thread. *)
GotIn(t) == IF t = "user" THEN "got" ELSE "lost got"
HeldIn(t) == IF t = "user" THEN "held" ELSE "lost held"

(* What a step of a call may change in the stores. *)
LEMMA StoresOfStep ==
  ASSUME IInv, NEW t \in Threads, NEW j, j = call[t].j, call[t].pc # "idle",
         Framed(t, j), CallInOrder(t)'
  PROVE  /\ Shelves(Stored(j)) /\ Shelves(Stored(j)')
         /\ Stored(j)["buf"] = rs[j].buf /\ Stored(j)'["buf"] = rs'[j].buf
         /\ Stored(j)["out"] = seen[j].out /\ Stored(j)'["out"] = seen'[j].out
         /\ Stored(j)[GotIn(t)] = call[t].got /\ Stored(j)'[GotIn(t)] = call'[t].got
         /\ Stored(j)[HeldIn(t)] = call[t].held /\ Stored(j)'[HeldIn(t)] = call'[t].held
         /\ \A x \in Stores : x \notin {"buf", "out", GotIn(t), HeldIn(t)} =>
              Stored(j)'[x] = Stored(j)[x]
<1>1. TypeOK /\ CallInOrder(t)
  BY DEF IInv
<1>2. j \in Execs /\ j # 0
  BY <1>1, CallIs DEF Execs
<1>3. TypeOK'
  BY <1>1 DEF TypeOK, Framed, fixed
<1>4. /\ Shelves(Stored(j))
      /\ Stored(j)["buf"] = rs[j].buf /\ Stored(j)["out"] = seen[j].out
      /\ Stored(j)["got"] = GotFrom("user", j) /\ Stored(j)["held"] = HeldFrom("user", j)
      /\ Stored(j)["lost got"] = GotFrom("lost", j)
      /\ Stored(j)["lost held"] = HeldFrom("lost", j)
  BY <1>1, <1>2, StoredIs, Zenon
<1>5. /\ Shelves(Stored(j)')
      /\ Stored(j)'["buf"] = rs'[j].buf /\ Stored(j)'["out"] = seen'[j].out
      /\ Stored(j)'["got"] = GotFrom("user", j)' /\ Stored(j)'["held"] = HeldFrom("user", j)'
      /\ Stored(j)'["lost got"] = GotFrom("lost", j)'
      /\ Stored(j)'["lost held"] = HeldFrom("lost", j)'
  BY <1>2, <1>3, StoredAfter, Zenon
<1>6. call'[t].j = j \/ (call'[t].got = <<>> /\ call'[t].held = <<>>)
  BY DEF Framed, CallInOrder, Idle
<1>7. /\ GotFrom(t, j) = call[t].got /\ HeldFrom(t, j) = call[t].held
      /\ GotFrom(t, j)' = call'[t].got /\ HeldFrom(t, j)' = call'[t].held
  BY <1>6 DEF GotFrom, HeldFrom
<1>8. \A o \in Threads : o # t =>
        GotFrom(o, j)' = GotFrom(o, j) /\ HeldFrom(o, j)' = HeldFrom(o, j)
  BY DEF Framed, GotFrom, HeldFrom
<1>9. \A x \in Stores : x \notin {"buf", "out", GotIn(t), HeldIn(t)} =>
        Stored(j)'[x] = Stored(j)[x]
  BY <1>4, <1>5, <1>8, ZenonT(40) DEF Stores, Threads, GotIn, HeldIn
<1>10. /\ Stored(j)[GotIn(t)] = call[t].got /\ Stored(j)'[GotIn(t)] = call'[t].got
       /\ Stored(j)[HeldIn(t)] = call[t].held /\ Stored(j)'[HeldIn(t)] = call'[t].held
  BY <1>4, <1>5, <1>7, ZenonT(40) DEF Threads, GotIn, HeldIn
<1>11. QED  BY <1>4, <1>5, <1>9, <1>10, Zenon

(* The ledger before such a step, and what it takes to have it after it. *)
LEMMA LedgerOfStep ==
  ASSUME IInv, NEW t \in Threads, NEW j, j = call[t].j, call[t].pc # "idle", Framed(t, j)
  PROVE  /\ j \in Execs /\ Total(j) \in Nat /\ rs[j].chunks \in Seq(Seq(Nat))
         /\ Accounted(Total(j), rs[j].chunks, Stored(j), seen[j].gone, seen[j].marks)
         /\ seen[j].marks \subseteq seen'[j].marks
         /\ t = "lost" => seen[j].marks # {} /\ seen'[j].marks # {}
         /\ Accounted(Total(j), rs'[j].chunks, Stored(j)', seen'[j].gone, seen'[j].marks)
              => Ledger(j)'
<1>1. TypeOK /\ CallInOrder(t) /\ \A i \in Execs : Produced(i)
  BY DEF IInv
<1>2. /\ j \in Execs /\ job[j].pc = "done" /\ rs[j] \in ResultSets /\ job[j] \in Jobs
  BY <1>1, CallIs
<1>3. Ledger(j)
  BY <1>1, <1>2 DEF Produced
<1>4. Total(j) \in Nat
  <2>1. query \in Queries
    BY <1>1, FileCursorAssumption DEF TypeOK
  <2>2. QED  BY <2>1, RowsAreAll DEF Total
<1>5. Total(j)' = Total(j)
  BY DEF Framed, fixed, Total
<1>6. t = "lost" => "abandoned" \in seen[j].marks
  BY <1>1 DEF CallInOrder
<1>7. seen[j].marks \subseteq seen'[j].marks
  BY DEF Framed
<1>8. rs[j].chunks \in Seq(Seq(Nat))
  BY <1>2 DEF ResultSets
<1>9. Accounted(Total(j), rs[j].chunks, Stored(j), seen[j].gone, seen[j].marks)
  BY <1>3 DEF Ledger
<1>10. Accounted(Total(j), rs'[j].chunks, Stored(j)', seen'[j].gone, seen'[j].marks)
         => Ledger(j)'
  BY <1>5 DEF Ledger
<1>11. QED  BY <1>2, <1>4, <1>6, <1>7, <1>8, <1>9, <1>10

(* The first row of a sequence, and the rest. *)
LEMMA FrontRow ==
  ASSUME NEW s \in Seq(Nat), s # <<>>
  PROVE  s = <<Head(s)>> \o Tail(s)
<1>1. PICK L \in Nat \ {0} : L = Len(s)
  BY LenProperties, EmptySeq
<1>2. PICK y \in Seq(Nat) : y = Tail(s) /\ Len(y) = L - 1 /\ \A i \in 1..(L - 1) : y[i] = s[i + 1]
  <2>1. /\ Tail(s) \in Seq(Nat) /\ Len(Tail(s)) = Len(s) - 1
        /\ \A i \in 1..Len(Tail(s)) : Tail(s)[i] = s[i + 1]
    BY HeadTailProperties, Zenon
  <2>2. PICK y : y = Tail(s)
    OBVIOUS
  <2>3. /\ y \in Seq(Nat) /\ Len(y) = L - 1
        /\ \A i \in 1..Len(y) : y[i] = s[i + 1]
    BY <1>1, <2>1, <2>2
  <2>4. QED  BY <2>2, <2>3
<1>3. PICK r \in Nat : r = Head(s) /\ r = s[1]
  BY HeadTailProperties
<1>4. PICK x \in Seq(Nat) : x = <<r>> /\ Len(x) = 1 /\ x[1] = r
  <2>1. <<r>> \in Seq(Nat) /\ Len(<<r>>) = 1 /\ <<r>>[1] = r
    OBVIOUS
  <2>2. QED  BY <2>1
<1>5. PICK z \in Seq(Nat) : z = x \o y
  BY ConcatProperties
<1>6. Len(z) = L
  BY <1>1, <1>2, <1>3, <1>4, <1>5, ConcatProperties
<1>7. \A i \in 1..L : z[i] = s[i]
  BY <1>1, <1>2, <1>3, <1>4, <1>5, ConcatProperties
<1>8. s = z
  BY <1>1, <1>6, <1>7, SeqEqual
<1>9. QED  BY <1>2, <1>3, <1>4, <1>5, <1>8

(* A row at the end. *)
LEMMA AppendIsJoin ==
  ASSUME NEW s \in Seq(Nat), NEW x \in Nat
  PROVE  Append(s, x) = s \o <<x>> /\ Append(s, x) \in Seq(Nat) /\ <<x>> \in Seq(Nat)
BY AppendIsConcat, AppendProperties

(* Rows move to the neighbour before, or the order is spoilt anyway. *)
LEMMA RowsPass ==
  ASSUME NEW n \in Nat, NEW chunks, NEW gone, NEW marks, NEW more, marks \subseteq more,
         NEW h, Shelves(h), NEW k, Shelves(k),
         NEW p \in Stores, NEW q \in Stores, p # q, <<p, q>> \in Neighbours \/ more # {},
         NEW u \in Seq(Nat), Moved(h, k, p, q, u),
         Accounted(n, chunks, h, gone, marks)
  PROVE  Accounted(n, chunks, k, gone, more)
<1>1. more = {} /\ gone = {} => \A a : InOrder(h, a) => InOrder(k, a)
  BY OrderKept
<1>2. QED  BY <1>1, RowsMove

(* A step of the call in thread t, about execution j. *)
Stepping(t, j) ==
  /\ IInv /\ t \in Threads /\ j = call[t].j /\ call[t].pc # "idle"
  /\ Framed(t, j) /\ CallInOrder(t)'

(* What StoresOfStep says of it. *)
LEMMA StoresIn ==
  ASSUME NEW t, NEW j, Stepping(t, j)
  PROVE  /\ Shelves(Stored(j)) /\ Shelves(Stored(j)')
         /\ Stored(j)["buf"] = rs[j].buf /\ Stored(j)'["buf"] = rs'[j].buf
         /\ Stored(j)["out"] = seen[j].out /\ Stored(j)'["out"] = seen'[j].out
         /\ Stored(j)[GotIn(t)] = call[t].got /\ Stored(j)'[GotIn(t)] = call'[t].got
         /\ Stored(j)[HeldIn(t)] = call[t].held /\ Stored(j)'[HeldIn(t)] = call'[t].held
         /\ \A x \in Stores : x \notin {"buf", "out", GotIn(t), HeldIn(t)} =>
              Stored(j)'[x] = Stored(j)[x]
BY StoresOfStep DEF Stepping

(* And of the ledger. *)
LEMMA LedgerIn ==
  ASSUME NEW t, NEW j, Stepping(t, j)
  PROVE  /\ t \in Threads /\ j \in Execs /\ Total(j) \in Nat
         /\ rs[j].chunks \in Seq(Seq(Nat))
         /\ Accounted(Total(j), rs[j].chunks, Stored(j), seen[j].gone, seen[j].marks)
         /\ seen[j].marks \subseteq seen'[j].marks
         /\ t = "lost" => seen[j].marks # {} /\ seen'[j].marks # {}
         /\ Accounted(Total(j), rs'[j].chunks, Stored(j)', seen'[j].gone, seen'[j].marks)
              => Ledger(j)'
BY LedgerOfStep DEF Stepping

(* Where the rows of a call are. *)
LEMMA ShelvesIn ==
  ASSUME NEW t, NEW j, Stepping(t, j)
  PROVE  /\ "buf" \in Stores /\ "out" \in Stores /\ GotIn(t) \in Stores /\ HeldIn(t) \in Stores
         /\ GotIn(t) \notin {"buf", "out"} /\ HeldIn(t) \notin {"buf", "out"}
         /\ GotIn(t) # HeldIn(t) /\ rs[j].buf \in Seq(Nat) /\ seen[j].out \in Seq(Nat)
         /\ call[t].got \in Seq(Nat) /\ call[t].held \in Seq(Nat)
         /\ t = "user" => GotIn(t) = "got" /\ HeldIn(t) = "held"
<1>1. /\ "buf" \in Stores /\ "out" \in Stores /\ GotIn(t) \in Stores /\ HeldIn(t) \in Stores
      /\ GotIn(t) \notin {"buf", "out"} /\ HeldIn(t) \notin {"buf", "out"}
      /\ GotIn(t) # HeldIn(t) /\ (t = "user" => GotIn(t) = "got" /\ HeldIn(t) = "held")
  <2>1. t \in Threads
    BY DEF Stepping
  <2>2. QED  BY <2>1, Zenon DEF Threads, Stores, GotIn, HeldIn
<1>2. \A x \in Stores : Stored(j)[x] \in Seq(Nat)
  BY StoresIn DEF Shelves
<1>3. QED  BY <1>1, <1>2, StoresIn, Zenon

(* No row moves. *)
LEMMA NothingMoves ==
  ASSUME NEW t, NEW j, Stepping(t, j),
         rs'[j].buf = rs[j].buf, rs'[j].chunks = rs[j].chunks,
         seen'[j].out = seen[j].out, seen'[j].gone = seen[j].gone,
         call'[t].got = call[t].got, call'[t].held = call[t].held
  PROVE  Ledger(j)'
<1>1. \A x \in Stores : Stored(j)'[x] = Stored(j)[x]
  BY StoresIn
<1>2. /\ Accounted(Total(j), rs[j].chunks, Stored(j), seen[j].gone, seen[j].marks)
      /\ seen[j].marks \subseteq seen'[j].marks
  BY LedgerIn
<1>3. Accounted(Total(j), rs[j].chunks, Stored(j)', seen[j].gone, seen'[j].marks)
  BY <1>1, <1>2, MoreMarks
<1>4. QED  BY <1>3, LedgerIn

(* The rows a call has so far are gone with it. *)
LEMMA GotGoes ==
  ASSUME NEW t, NEW j, Stepping(t, j),
         Accounted(Total(j), rs'[j].chunks, Stored(j), seen[j].gone, seen'[j].marks),
         rs'[j].buf = rs[j].buf, seen'[j].out = seen[j].out,
         seen'[j].gone = seen[j].gone \cup ToSet(call[t].got),
         call'[t].got = <<>>, call'[t].held = call[t].held
  PROVE  Ledger(j)'
<1>1. /\ Shelves(Stored(j)) /\ Shelves(Stored(j)') /\ Total(j) \in Nat
      /\ GotIn(t) \in Stores /\ call[t].got \in Seq(Nat)
  BY StoresIn, LedgerIn, ShelvesIn, Zenon
<1>2. Left(Stored(j), Stored(j)', GotIn(t), call[t].got)
  <2>1. Stored(j)[GotIn(t)] = Join(call[t].got, Stored(j)'[GotIn(t)])
    <3>1. call[t].got \o <<>> = call[t].got
      BY <1>1
    <3>2. QED  BY <1>1, <3>1, StoresIn DEF Join
  <2>2. \A x \in Stores : x # GotIn(t) => Stored(j)'[x] = Stored(j)[x]
    BY StoresIn
  <2>3. QED  BY <2>1, <2>2 DEF Left
<1>3. Accounted(Total(j), rs'[j].chunks, Stored(j)', seen'[j].gone, seen'[j].marks)
  BY <1>1, <1>2, RowsGo
<1>4. QED  BY <1>3, LedgerIn

(* They are given to the user. *)
LEMMA GotIsGiven ==
  ASSUME NEW t, NEW j, Stepping(t, j), t = "user",
         rs'[j].buf = rs[j].buf, rs'[j].chunks = rs[j].chunks,
         seen'[j].out = seen[j].out \o call[t].got, seen'[j].gone = seen[j].gone,
         call'[t].got = <<>>, call'[t].held = call[t].held
  PROVE  Ledger(j)'
<1>1. /\ Shelves(Stored(j)) /\ Shelves(Stored(j)') /\ Total(j) \in Nat
      /\ GotIn(t) = "got" /\ "got" \in Stores /\ "out" \in Stores /\ "got" # "out"
      /\ call[t].got \in Seq(Nat) /\ seen[j].marks \subseteq seen'[j].marks
  BY StoresIn, LedgerIn, ShelvesIn, Zenon
<1>2. Moved(Stored(j), Stored(j)', "got", "out", call[t].got)
  <2>1. Stored(j)["got"] = Join(call[t].got, Stored(j)'["got"])
    <3>1. call[t].got \o <<>> = call[t].got
      BY <1>1
    <3>2. Stored(j)["got"] = call[t].got /\ Stored(j)'["got"] = <<>>
      BY <1>1, StoresIn
    <3>3. QED  BY <3>1, <3>2 DEF Join
  <2>2. Stored(j)'["out"] = Join(Stored(j)["out"], call[t].got)
    BY StoresIn, ZenonT(40) DEF Join
  <2>3. \A x \in Stores : x # "got" /\ x # "out" => Stored(j)'[x] = Stored(j)[x]
    BY <1>1, StoresIn
  <2>4. QED  BY <2>1, <2>2, <2>3 DEF Moved
<1>3. <<"got", "out">> \in Neighbours
  BY DEF Neighbours
<1>4. Accounted(Total(j), rs[j].chunks, Stored(j), seen[j].gone, seen[j].marks)
  BY LedgerIn
<1>5. Accounted(Total(j), rs[j].chunks, Stored(j)', seen[j].gone, seen'[j].marks)
  BY <1>1, <1>2, <1>3, <1>4, RowsPass, ZenonT(40)
<1>6. QED  BY <1>5, LedgerIn

(* The first row of the buffer goes to the call. *)
LEMMA RowIsGot ==
  ASSUME NEW t, NEW j, Stepping(t, j),
         rs[j].buf # <<>>, rs'[j].buf = Tail(rs[j].buf), rs'[j].chunks = rs[j].chunks,
         seen'[j].out = seen[j].out, seen'[j].gone = seen[j].gone,
         call'[t].got = Append(call[t].got, Head(rs[j].buf)), call'[t].held = call[t].held
  PROVE  Ledger(j)'
<1>1. /\ Shelves(Stored(j)) /\ Shelves(Stored(j)') /\ Total(j) \in Nat
      /\ GotIn(t) \in Stores /\ "buf" \in Stores /\ "buf" # GotIn(t)
      /\ seen[j].marks \subseteq seen'[j].marks
  BY StoresIn, LedgerIn, ShelvesIn, Zenon
<1>2. rs[j].buf \in Seq(Nat) /\ call[t].got \in Seq(Nat)
  BY ShelvesIn, Zenon
<1>3. PICK x \in Nat : x = Head(rs[j].buf)
  BY <1>2, HeadTailProperties
<1>4. Moved(Stored(j), Stored(j)', "buf", GotIn(t), <<x>>)
  <2>1. Stored(j)["buf"] = Join(<<x>>, Stored(j)'["buf"])
    <3>1. rs[j].buf = <<x>> \o Tail(rs[j].buf)
      BY <1>2, <1>3, FrontRow
    <3>2. QED  BY <3>1, StoresIn DEF Join
  <2>2. Stored(j)'[GotIn(t)] = Join(Stored(j)[GotIn(t)], <<x>>)
    <3>1. Append(call[t].got, x) = call[t].got \o <<x>>
      BY <1>2, AppendIsJoin
    <3>2. QED  BY <1>3, <3>1, StoresIn, ZenonT(40) DEF Join
  <2>3. \A y \in Stores : y # "buf" /\ y # GotIn(t) => Stored(j)'[y] = Stored(j)[y]
    BY StoresIn
  <2>4. QED  BY <2>1, <2>2, <2>3 DEF Moved
<1>5. <<x>> \in Seq(Nat)
  BY <1>3
<1>6. <<"buf", GotIn(t)>> \in Neighbours \/ seen'[j].marks # {}
  BY LedgerIn DEF Threads, Neighbours, GotIn
<1>7. Accounted(Total(j), rs[j].chunks, Stored(j), seen[j].gone, seen[j].marks)
  BY LedgerIn
<1>8. Accounted(Total(j), rs[j].chunks, Stored(j)', seen[j].gone, seen'[j].marks)
  BY <1>1, <1>4, <1>5, <1>6, <1>7, RowsPass
<1>9. QED  BY <1>8, LedgerIn

(* The rows of a call that is over: the user's, or nobody's. *)
Handed(t, j, rows) ==
  IF t = "user" THEN seen'[j].out = seen[j].out \o rows /\ seen'[j].gone = seen[j].gone
  ELSE seen'[j].out = seen[j].out /\ seen'[j].gone = seen[j].gone \cup ToSet(rows)

(* It goes there, and the call, which has all it wanted, is over. *)
LEMMA RowIsLast ==
  ASSUME NEW t, NEW j, Stepping(t, j),
         rs[j].buf # <<>>, rs'[j].buf = Tail(rs[j].buf), rs'[j].chunks = rs[j].chunks,
         call'[t].got = <<>>, call'[t].held = call[t].held,
         NEW got, got = Append(call[t].got, Head(rs[j].buf)),
         Handed(t, j, got)
  PROVE  Ledger(j)'
<1>1. /\ Shelves(Stored(j)) /\ Shelves(Stored(j)') /\ Total(j) \in Nat
      /\ GotIn(t) \in Stores /\ "buf" \in Stores /\ "buf" # GotIn(t) /\ GotIn(t) # "out"
      /\ seen[j].marks \subseteq seen'[j].marks
  BY StoresIn, LedgerIn, ShelvesIn, Zenon
<1>2. rs[j].buf \in Seq(Nat) /\ call[t].got \in Seq(Nat)
  BY ShelvesIn, Zenon
<1>3. PICK x \in Nat : x = Head(rs[j].buf)
  BY <1>2, HeadTailProperties
<1>4. /\ rs[j].buf = <<x>> \o Tail(rs[j].buf) /\ Tail(rs[j].buf) \in Seq(Nat)
      /\ got = call[t].got \o <<x>> /\ got \in Seq(Nat) /\ <<x>> \in Seq(Nat)
  BY <1>2, <1>3, FrontRow, AppendIsJoin, HeadTailProperties
<1>5. PICK m : m = [p \in Stores |-> IF p = "buf" THEN Tail(rs[j].buf)
                                     ELSE IF p = GotIn(t) THEN got ELSE Stored(j)[p]]
  OBVIOUS
<1>6. /\ Shelves(m) /\ m["buf"] = Tail(rs[j].buf) /\ m[GotIn(t)] = got
      /\ \A p \in Stores : p # "buf" /\ p # GotIn(t) => m[p] = Stored(j)[p]
  BY <1>1, <1>4, <1>5 DEF Shelves
<1>7. Moved(Stored(j), m, "buf", GotIn(t), <<x>>)
  <2>1. Stored(j)["buf"] = Join(<<x>>, m["buf"])
    BY <1>4, <1>6, StoresIn, Zenon DEF Join
  <2>2. m[GotIn(t)] = Join(Stored(j)[GotIn(t)], <<x>>)
    BY <1>4, <1>6, StoresIn, ZenonT(40) DEF Join
  <2>3. QED  BY <1>6, <2>1, <2>2 DEF Moved
<1>8. t \in Threads
  BY DEF Stepping
<1>9. <<"buf", GotIn(t)>> \in Neighbours \/ seen'[j].marks # {}
  BY LedgerIn DEF Threads, Neighbours, GotIn
<1>10. Accounted(Total(j), rs[j].chunks, Stored(j), seen[j].gone, seen[j].marks)
  BY LedgerIn
<1>11. Accounted(Total(j), rs[j].chunks, m, seen[j].gone, seen'[j].marks)
  BY <1>1, <1>4, <1>6, <1>7, <1>9, <1>10, RowsPass
<1>12. /\ Stored(j)'["buf"] = Tail(rs[j].buf) /\ Stored(j)'[GotIn(t)] = <<>>
       /\ Stored(j)'["out"] = seen'[j].out /\ Stored(j)["out"] = seen[j].out
       /\ \A p \in Stores : p \notin {"buf", "out", GotIn(t)} => Stored(j)'[p] = m[p]
  <2>1. /\ Stored(j)'["buf"] = Tail(rs[j].buf) /\ Stored(j)'[GotIn(t)] = <<>>
        /\ Stored(j)'["out"] = seen'[j].out /\ Stored(j)["out"] = seen[j].out
    BY StoresIn
  <2>2. \A p \in Stores : p \notin {"buf", "out", GotIn(t)} => Stored(j)'[p] = Stored(j)[p]
    BY StoresIn
  <2>3. QED  BY <1>6, <2>1, <2>2
<1>13. got \o <<>> = got
  BY <1>4
<1>14. m[GotIn(t)] = Join(got, Stored(j)'[GotIn(t)])
  BY <1>6, <1>12, <1>13 DEF Join
<1>15. "out" \in Stores /\ m["out"] = seen[j].out
  BY <1>1, <1>6, <1>12, Zenon DEF Stores
<1>16. CASE t = "user"
  <2>1. Stored(j)'["out"] = Join(m["out"], got)
    BY <1>12, <1>15, <1>16 DEF Join, Handed
  <2>2. Moved(m, Stored(j)', GotIn(t), "out", got)
    BY <1>6, <1>12, <1>14, <2>1 DEF Moved
  <2>3. <<GotIn(t), "out">> \in Neighbours
    BY <1>16 DEF Neighbours, GotIn
  <2>4. Accounted(Total(j), rs[j].chunks, Stored(j)', seen[j].gone, seen'[j].marks)
    BY <1>1, <1>4, <1>6, <1>11, <1>15, <2>2, <2>3, RowsPass
  <2>5. QED  BY <1>16, <2>4, LedgerIn DEF Handed
<1>17. CASE t # "user"
  <2>1. Stored(j)'["out"] = m["out"]
    BY <1>12, <1>15, <1>17 DEF Handed
  <2>2. Left(m, Stored(j)', GotIn(t), got)
    BY <1>6, <1>12, <1>14, <2>1 DEF Left
  <2>3. Accounted(Total(j), rs[j].chunks, Stored(j)', seen[j].gone \cup ToSet(got), seen'[j].marks)
    BY <1>1, <1>4, <1>6, <1>11, <2>2, RowsGo, Zenon
  <2>4. QED  BY <1>17, <2>3, LedgerIn DEF Handed
<1>18. QED  BY <1>16, <1>17

(* A chunk is read, into the buffer. *)
LEMMA ChunkIsBuffered ==
  ASSUME NEW t, NEW j, Stepping(t, j), call[t].held = <<>>,
         rs[j].chunks # <<>>, rs'[j].chunks = Tail(rs[j].chunks),
         rs'[j].buf = rs[j].buf \o Head(rs[j].chunks),
         seen'[j].out = seen[j].out, seen'[j].gone = seen[j].gone,
         call'[t].got = call[t].got, call'[t].held = call[t].held
  PROVE  Ledger(j)'
<1>1. /\ Shelves(Stored(j)) /\ Shelves(Stored(j)') /\ Total(j) \in Nat
      /\ rs[j].chunks \in Seq(Seq(Nat)) /\ "buf" \in Stores
      /\ seen[j].marks \subseteq seen'[j].marks
      /\ Accounted(Total(j), rs[j].chunks, Stored(j), seen[j].gone, seen[j].marks)
  BY StoresIn, LedgerIn, ShelvesIn, Zenon
<1>2. Added(Stored(j), Stored(j)', "buf", Head(rs[j].chunks))
  <2>1. Stored(j)'["buf"] = Join(Stored(j)["buf"], Head(rs[j].chunks))
    BY StoresIn, ZenonT(40) DEF Join
  <2>2. \A x \in Stores : x # "buf" => Stored(j)'[x] = Stored(j)[x]
    <3>1. /\ Stored(j)'[GotIn(t)] = Stored(j)[GotIn(t)]
          /\ Stored(j)'[HeldIn(t)] = Stored(j)[HeldIn(t)]
          /\ Stored(j)'["out"] = Stored(j)["out"]
      BY StoresIn
    <3>2. \A x \in Stores : x \notin {"buf", "out", GotIn(t), HeldIn(t)} =>
            Stored(j)'[x] = Stored(j)[x]
      BY StoresIn
    <3>3. QED  BY <3>1, <3>2
  <2>3. QED  BY <2>1, <2>2 DEF Added
<1>3. seen'[j].marks = {} => Stored(j)["held"] = <<>>
  <2>1. seen'[j].marks = {} => t = "user"
    BY LedgerIn DEF Threads
  <2>2. t = "user" => HeldIn(t) = "held"
    BY DEF HeldIn
  <2>3. Stored(j)[HeldIn(t)] = call[t].held
    BY StoresIn
  <2>4. QED  BY <2>1, <2>2, <2>3
<1>4. Accounted(Total(j), Tail(rs[j].chunks), Stored(j)', seen[j].gone, seen'[j].marks)
  BY <1>1, <1>2, <1>3, HeadMoves
<1>5. QED  BY <1>4, LedgerIn

(* ... or by the thread, which will add it to the buffer. *)
LEMMA ChunkIsHeld ==
  ASSUME NEW t, NEW j, Stepping(t, j), call[t].held = <<>>,
         rs[j].chunks # <<>>, rs'[j].chunks = Tail(rs[j].chunks),
         rs'[j].buf = rs[j].buf,
         seen'[j].out = seen[j].out, seen'[j].gone = seen[j].gone,
         call'[t].got = call[t].got, call'[t].held = Head(rs[j].chunks)
  PROVE  Ledger(j)'
<1>1. /\ Shelves(Stored(j)) /\ Shelves(Stored(j)') /\ Total(j) \in Nat
      /\ rs[j].chunks \in Seq(Seq(Nat)) /\ HeldIn(t) \in Stores
      /\ seen[j].marks \subseteq seen'[j].marks
      /\ Accounted(Total(j), rs[j].chunks, Stored(j), seen[j].gone, seen[j].marks)
  BY StoresIn, LedgerIn, ShelvesIn, Zenon
<1>2. Added(Stored(j), Stored(j)', HeldIn(t), Head(rs[j].chunks))
  <2>1. PICK c \in Seq(Nat) : c = Head(rs[j].chunks)
    BY <1>1, HeadTailProperties
  <2>2. <<>> \o c = c
    BY <2>1
  <2>3. Stored(j)'[HeldIn(t)] = Join(Stored(j)[HeldIn(t)], Head(rs[j].chunks))
    BY <2>1, <2>2, StoresIn DEF Join
  <2>4. \A x \in Stores : x # HeldIn(t) => Stored(j)'[x] = Stored(j)[x]
    BY StoresIn
  <2>5. QED  BY <2>3, <2>4 DEF Added
<1>3. seen'[j].marks = {} => HeldIn(t) = "held" /\ Stored(j)["held"] = <<>>
  <2>1. seen'[j].marks = {} => t = "user"
    BY LedgerIn DEF Threads
  <2>2. t = "user" => HeldIn(t) = "held"
    BY DEF HeldIn
  <2>3. Stored(j)[HeldIn(t)] = call[t].held
    BY StoresIn
  <2>4. QED  BY <2>1, <2>2, <2>3
<1>4. Accounted(Total(j), Tail(rs[j].chunks), Stored(j)', seen[j].gone, seen'[j].marks)
  BY <1>1, <1>2, <1>3, HeadMoves
<1>5. QED  BY <1>4, LedgerIn

(* It does so. *)
LEMMA HeldIsBuffered ==
  ASSUME NEW t, NEW j, Stepping(t, j),
         rs'[j].chunks = rs[j].chunks, rs'[j].buf = rs[j].buf \o call[t].held,
         seen'[j].out = seen[j].out, seen'[j].gone = seen[j].gone,
         call'[t].got = call[t].got, call'[t].held = <<>>
  PROVE  Ledger(j)'
<1>1. /\ Shelves(Stored(j)) /\ Shelves(Stored(j)') /\ Total(j) \in Nat
      /\ HeldIn(t) \in Stores /\ "buf" \in Stores /\ HeldIn(t) # "buf"
      /\ seen[j].marks \subseteq seen'[j].marks
      /\ Accounted(Total(j), rs[j].chunks, Stored(j), seen[j].gone, seen[j].marks)
  BY StoresIn, LedgerIn, ShelvesIn, Zenon
<1>2. call[t].held \in Seq(Nat)
  BY ShelvesIn, Zenon
<1>3. Moved(Stored(j), Stored(j)', HeldIn(t), "buf", call[t].held)
  <2>1. call[t].held \o <<>> = call[t].held
    BY <1>2
  <2>2. Stored(j)[HeldIn(t)] = Join(call[t].held, Stored(j)'[HeldIn(t)])
    BY <2>1, StoresIn DEF Join
  <2>3. Stored(j)'["buf"] = Join(Stored(j)["buf"], call[t].held)
    BY StoresIn, ZenonT(40) DEF Join
  <2>4. \A x \in Stores : x # HeldIn(t) /\ x # "buf" => Stored(j)'[x] = Stored(j)[x]
    BY StoresIn
  <2>5. QED  BY <2>2, <2>3, <2>4 DEF Moved
<1>4. <<HeldIn(t), "buf">> \in Neighbours \/ seen'[j].marks # {}
  BY LedgerIn DEF Threads, Neighbours, HeldIn
<1>5. Accounted(Total(j), rs[j].chunks, Stored(j)', seen[j].gone, seen'[j].marks)
  <2>1. PICK p \in Stores : p = HeldIn(t)
    BY <1>1
  <2>2. PICK u \in Seq(Nat) : u = call[t].held
    BY <1>2
  <2>3. /\ p # "buf" /\ Moved(Stored(j), Stored(j)', p, "buf", u)
        /\ <<p, "buf">> \in Neighbours \/ seen'[j].marks # {}
    BY <1>1, <1>3, <1>4, <2>1, <2>2
  <2>4. QED  BY <1>1, <2>3, RowsPass
<1>6. QED  BY <1>5, LedgerIn

--------------------------------------------------------------------------------
(* What is known of a call under way. *)
LEMMA CallFacts ==
  ASSUME IInv, NEW t \in Threads, NEW j, j = call[t].j, call[t].pc # "idle"
  PROVE  /\ j \in Execs /\ job[j].pc = "done"
         /\ rs[j].chunks \in Seq(Seq(Nat)) /\ rs[j].buf \in Seq(Nat)
         /\ call[t].got \in Seq(Nat) /\ call[t].held \in Seq(Nat)
         /\ call[t].want \in {0} \cup Sizes /\ call[t].k \in Nat
         /\ seen[j].out \in Seq(Nat) /\ seen[j].gone \subseteq Nat
         /\ call[t].pc # "extend" => call[t].held = <<>>
         /\ call[t].pc = "extend" => call[t].held # <<>> \/ ~job[j].ok
         /\ call[t].pc # "idle" => (call[t].pc = "next" \/ (Generator <=> call[t].pc = "inside"))
         /\ call[t].pc = "line" => class.reads = "s3fs"
         /\ t = "lost" => "abandoned" \in seen[j].marks
         /\ Produced(j) /\ EndIsEnd(j)
<1>1. TypeOK /\ CallInOrder(t) /\ Produced(j) /\ EndIsEnd(j) /\ j \in Execs
  BY CallIs DEF IInv
<1>2. rs[j] \in ResultSets /\ call[t] \in Calls /\ seen[j] \in Histories
  BY <1>1 DEF TypeOK
<1>3. /\ rs[j].chunks \in Seq(Seq(Nat)) /\ rs[j].buf \in Seq(Nat)
      /\ call[t].got \in Seq(Nat) /\ call[t].held \in Seq(Nat)
      /\ call[t].want \in {0} \cup Sizes /\ call[t].k \in Nat
      /\ seen[j].out \in Seq(Nat) /\ seen[j].gone \subseteq Nat
  BY <1>2 DEF ResultSets, Calls, Histories
<1>4. /\ job[j].pc = "done"
      /\ call[t].pc # "extend" => call[t].held = <<>>
      /\ call[t].pc = "extend" => call[t].held # <<>> \/ ~job[j].ok
      /\ call[t].pc # "idle" => (call[t].pc = "next" \/ (Generator <=> call[t].pc = "inside"))
      /\ call[t].pc = "line" => class.reads = "s3fs"
      /\ t = "lost" => "abandoned" \in seen[j].marks
  BY <1>1 DEF CallInOrder
<1>5. QED  BY <1>1, <1>3, <1>4

(* A step of a call, by its parts: the result sets, ... *)
RsSide(j) == rs' \in [Execs -> ResultSets] /\ \A i \in Execs : i # j => rs'[i] = rs[i]

(* ... and the calls and what is seen. *)
CallSide(t, j) ==
  /\ call' \in [Threads -> Calls] /\ seen' \in [Execs -> Histories]
  /\ \A i \in Execs : i # j => seen'[i] = seen[i]
  /\ \A o \in Threads : o # t => call'[o] = call[o]
  /\ seen[j].marks \subseteq seen'[j].marks
  /\ call'[t].pc = "idle" \/ call'[t].j = j

(* A call that is over is in order. *)
LEMMA OverInOrder ==
  ASSUME NEW t, call'[t] = Idle
  PROVE  CallInOrder(t)'
BY DEF CallInOrder, Idle

(* Rows that are given to the user, or to nobody. *)
LEMMA GivenOf ==
  ASSUME NEW s \in Histories, NEW t, NEW rows \in Seq(Nat), NEW end \in BOOLEAN,
         s.out \o rows \in Seq(Nat), ToSet(rows) \subseteq Nat
  PROVE  Given(s, t, rows, end) \in Histories
<1>1. CASE t = "user"
  <2>1. PICK o, x : o = s.out \o rows /\ x = (s.ended \/ end)
    OBVIOUS
  <2>2. o \in Seq(Nat) /\ x \in BOOLEAN
    BY <2>1
  <2>3. [s EXCEPT !.out = o, !.ended = x] \in Histories
    BY <2>2 DEF Histories
  <2>4. QED  BY <1>1, <2>1, <2>3 DEF Given, Histories
<1>2. CASE t # "user"
  <2>1. PICK g : g = s.gone \cup ToSet(rows)
    OBVIOUS
  <2>2. g \subseteq Nat
    BY <2>1 DEF Histories
  <2>3. [s EXCEPT !.gone = g] \in Histories
    BY <2>2 DEF Histories
  <2>4. QED  BY <1>2, <2>1, <2>3 DEF Given, Histories
<1>3. QED  BY <1>1, <1>2

(* A call that returns. *)
LEMMA ReturnDoes ==
  ASSUME IInv, NEW t \in Threads, NEW j, j = call[t].j, call[t].pc # "idle",
         NEW end \in BOOLEAN, Return(t, end)
  PROVE  /\ CallSide(t, j) /\ call'[t] = Idle /\ seen'[j].marks = seen[j].marks
         /\ Handed(t, j, call[t].got)
         /\ seen'[j].ended => seen[j].ended \/ (t = "user" /\ end)
<1>1. /\ j \in Execs /\ call[t].got \in Seq(Nat) /\ seen[j].out \in Seq(Nat)
      /\ seen[j].gone \subseteq Nat
  BY CallFacts
<1>2. /\ call \in [Threads -> Calls] /\ seen \in [Execs -> Histories]
  BY DEF IInv, TypeOK
<1>3. Idle \in Calls
  BY DEF Idle, Calls
<1>4. /\ call' \in [Threads -> Calls] /\ call'[t] = Idle
      /\ \A o \in Threads : o # t => call'[o] = call[o]
  BY <1>2, <1>3 DEF Return
<1>5. /\ seen[j].out \o call[t].got \in Seq(Nat)
      /\ seen[j].gone \cup ToSet(call[t].got) \subseteq Nat
  BY <1>1, ToSetIs, ConcatProperties
<1>6. seen' = [seen EXCEPT ![j] = Given(seen[j], t, call[t].got, end)]
  BY DEF Return
<1>7. Given(seen[j], t, call[t].got, end) \in Histories
  <2>1. seen[j] \in Histories /\ ToSet(call[t].got) \subseteq Nat
    BY <1>1, <1>2, <1>5
  <2>2. QED  BY <1>1, <1>5, <2>1, GivenOf
<1>8. /\ seen' \in [Execs -> Histories] /\ \A i \in Execs : i # j => seen'[i] = seen[i]
      /\ seen'[j] = Given(seen[j], t, call[t].got, end)
  BY <1>1, <1>2, <1>6, <1>7
<1>9. seen[j] \in Histories
  BY <1>1, <1>2
<1>10. /\ seen'[j].marks = seen[j].marks /\ Handed(t, j, call[t].got)
       /\ seen'[j].ended => seen[j].ended \/ (t = "user" /\ end)
  BY <1>8, <1>9, Zenon DEF Given, Handed, Histories
<1>11. call'[t].pc = "idle"
  BY <1>4 DEF Idle
<1>12. QED  BY <1>4, <1>8, <1>10, <1>11 DEF CallSide

(* A call that raises. *)
LEMMA RaiseDoes ==
  ASSUME IInv, NEW t \in Threads, NEW j, j = call[t].j, call[t].pc # "idle",
         NEW what, what \subseteq Lossy, Raise(t, what)
  PROVE  /\ CallSide(t, j) /\ call'[t] = Idle /\ seen'[j].marks = seen[j].marks \cup what
         /\ seen'[j].out = seen[j].out /\ seen'[j].gone = seen[j].gone \cup ToSet(call[t].got)
         /\ seen'[j].ended = seen[j].ended
<1>1. /\ j \in Execs /\ call[t].got \in Seq(Nat) /\ seen[j].out \in Seq(Nat)
      /\ seen[j].gone \subseteq Nat
  BY CallFacts
<1>2. /\ call \in [Threads -> Calls] /\ seen \in [Execs -> Histories]
  BY DEF IInv, TypeOK
<1>3. Idle \in Calls
  BY DEF Idle, Calls
<1>4. /\ call' \in [Threads -> Calls] /\ call'[t] = Idle
      /\ \A o \in Threads : o # t => call'[o] = call[o]
  BY <1>2, <1>3 DEF Raise
<1>5. seen[j].gone \cup ToSet(call[t].got) \subseteq Nat
  BY <1>1, ToSetIs
<1>6. /\ \A i \in Execs : i # j => seen'[i] = seen[i]
      /\ seen'[j] = [seen[j] EXCEPT !.gone = @ \cup ToSet(call[t].got), !.marks = @ \cup what]
      /\ DOMAIN seen' = Execs
  BY <1>1, <1>2 DEF Raise
<1>7. seen[j] \in Histories
  BY <1>1, <1>2
<1>8. /\ seen'[j] \in Histories
      /\ seen'[j].marks = seen[j].marks \cup what
      /\ seen'[j].out = seen[j].out /\ seen'[j].gone = seen[j].gone \cup ToSet(call[t].got)
      /\ seen'[j].ended = seen[j].ended
  <2>1. PICK h : h = seen[j].gone \cup ToSet(call[t].got)
    OBVIOUS
  <2>2. PICK n : n = seen[j].marks \cup what
    OBVIOUS
  <2>3. PICK s \in Histories : s = seen[j]
    BY <1>7
  <2>4. /\ h \subseteq Nat
        /\ n \subseteq {"abandoned", "unsuccessful", "iterated", "framed"} \cup Lossy
    BY <1>5, <1>7, <2>1, <2>2 DEF Histories
  <2>5. PICK r : r = [s EXCEPT !.gone = h, !.marks = n]
    OBVIOUS
  <2>6. /\ r \in Histories /\ r.marks = n /\ r.out = s.out
        /\ r.gone = h /\ r.ended = s.ended
    BY <2>4, <2>5 DEF Histories
  <2>7. seen'[j] = r
    BY <1>6, <1>7, <2>1, <2>2, <2>3, <2>5 DEF Histories
  <2>8. QED  BY <2>1, <2>2, <2>3, <2>6, <2>7
<1>9. seen' \in [Execs -> Histories]
  BY <1>2, <1>6, <1>8 DEF Raise
<1>10. call'[t].pc = "idle"
  BY <1>4 DEF Idle
<1>11. QED  BY <1>4, <1>6, <1>8, <1>9, <1>10 DEF CallSide

(* A call that has got a row, and has all it wanted or goes on. *)
LEMMA GotDoes ==
  ASSUME IInv, NEW t \in Threads, NEW j, j = call[t].j, call[t].pc # "idle",
         NEW row \in Nat, Got(t, row)
  PROVE  /\ CallSide(t, j) /\ seen'[j].marks = seen[j].marks /\ seen'[j].ended = seen[j].ended
         /\ \/ call'[t] = Idle /\ Handed(t, j, Append(call[t].got, row))
            \/ /\ call'[t].pc = "next" /\ call'[t].j = j 
               /\ call'[t].got = Append(call[t].got, row)
               /\ call'[t].held = call[t].held /\ seen' = seen
<1>1. /\ j \in Execs /\ call[t].got \in Seq(Nat) /\ seen[j].out \in Seq(Nat)
      /\ seen[j].gone \subseteq Nat
  BY CallFacts
<1>2. /\ call \in [Threads -> Calls] /\ seen \in [Execs -> Histories]
  BY DEF IInv, TypeOK
<1>3. PICK got \in Seq(Nat) : got = Append(call[t].got, row)
  BY <1>1, AppendProperties
<1>4. CASE Len(got) = call[t].want
  <2>1. Idle \in Calls
    BY DEF Idle, Calls
  <2>2. /\ call' = [call EXCEPT ![t] = Idle]
        /\ seen' = [seen EXCEPT ![j] = Given(seen[j], t, got, FALSE)]
    BY <1>3, <1>4 DEF Got
  <2>3. /\ call' \in [Threads -> Calls] /\ call'[t] = Idle
        /\ \A o \in Threads : o # t => call'[o] = call[o]
    BY <1>2, <2>1, <2>2
  <2>4. seen[j].out \o got \in Seq(Nat) /\ seen[j].gone \cup ToSet(got) \subseteq Nat
    BY <1>1, <1>3, ToSetIs, ConcatProperties
  <2>5. seen[j] \in Histories
    BY <1>1, <1>2
  <2>6. Given(seen[j], t, got, FALSE) \in Histories
    BY <2>4, <2>5 DEF Given, Histories
  <2>7. /\ seen' \in [Execs -> Histories] /\ \A i \in Execs : i # j => seen'[i] = seen[i]
        /\ seen'[j] = Given(seen[j], t, got, FALSE)
    BY <1>1, <1>2, <2>2, <2>6, Zenon
  <2>8. /\ seen'[j].marks = seen[j].marks /\ Handed(t, j, got)
        /\ seen'[j].ended = seen[j].ended
    BY <2>5, <2>7, Zenon DEF Given, Handed, Histories
  <2>9. call'[t].pc = "idle"
    BY <2>3 DEF Idle
  <2>10. QED  BY <1>3, <2>3, <2>7, <2>8, <2>9 DEF CallSide
<1>5. CASE Len(got) # call[t].want
  <2>1. call' = [call EXCEPT ![t].got = got, ![t].pc = "next"] /\ seen' = seen
    BY <1>3, <1>5 DEF Got
  <2>2. call[t] \in Calls
    BY <1>2
  <2>3. call'[t] = [call[t] EXCEPT !.got = got, !.pc = "next"]
    BY <1>2, <2>1
  <2>4. /\ call'[t] \in Calls /\ call'[t].pc = "next" /\ call'[t].j = j /\ call'[t].got = got
        /\ call'[t].held = call[t].held
    BY <1>3, <2>2, <2>3 DEF Calls
  <2>5. call' \in [Threads -> Calls] /\ \A o \in Threads : o # t => call'[o] = call[o]
    BY <1>2, <2>1, <2>4
  <2>6. QED  BY <1>2, <1>3, <2>1, <2>4, <2>5 DEF CallSide
<1>6. QED  BY <1>4, <1>5

(* A call that goes on is in order, if it is where it should be. *)
LEMMA GoesOnInOrder ==
  ASSUME IInv, NEW t \in Threads, NEW j, j = call[t].j, call[t].pc # "idle",
         class' = class, job' = job, CallSide(t, j), call'[t].j = j, call'[t].pc # "idle",
         call'[t].pc # "extend" => call'[t].held = <<>>,
         call'[t].pc = "extend" => call'[t].held # <<>> \/ ~job[j].ok,
         call'[t].pc = "next" \/ (Generator <=> call'[t].pc = "inside"),
         call'[t].pc = "line" => class.reads = "s3fs",
         call'[t].pc = "recheck" /\ seen'[j].marks \cap (Spoilt \cup {"abandoned"}) = {} =>
           rs'[j].chunks = <<>> \/ rs'[j].buf # <<>>
  PROVE  CallInOrder(t)'
<1>1. j \in Execs /\ job[j].pc = "done" /\ (t = "lost" => "abandoned" \in seen[j].marks)
  BY CallFacts
<1>2. Generator' <=> Generator
  BY DEF Generator
<1>3. seen[j].marks \subseteq seen'[j].marks
  BY DEF CallSide
<1>4. QED  BY <1>1, <1>2, <1>3 DEF CallInOrder

(* The call only goes on. *)
LEMMA GoOnDoes ==
  ASSUME IInv, NEW t \in Threads, NEW j, j = call[t].j, call[t].pc # "idle",
         NEW c \in Calls, c.j = j, call' = [call EXCEPT ![t] = c], seen' = seen
  PROVE  CallSide(t, j) /\ call'[t] = c /\ seen'[j] = seen[j]
<1>1. /\ call \in [Threads -> Calls] /\ seen \in [Execs -> Histories]
  BY DEF IInv, TypeOK
<1>2. QED  BY <1>1 DEF CallSide

(* The end of a result set: nothing is left of it. *)
LEMMA EndKept ==
  ASSUME NEW t, NEW j, Stepping(t, j), NEW done \in BOOLEAN,
         seen'[j].ended => seen[j].ended \/ done,
         /\ rs[j].chunks = <<>> /\ rs[j].buf = <<>> /\ call[t].held = <<>>
           => /\ rs'[j].chunks = <<>> /\ rs'[j].buf = <<>> /\ call'[t].held = <<>>,
         done /\ Finished(j)' => /\ rs'[j].chunks = <<>> /\ rs'[j].buf = <<>>
                                 /\ \A o \in Threads : HeldFrom(o, j)' = <<>>
  PROVE  EndIsEnd(j)'
<1>1. SUFFICES ASSUME Finished(j)'
               PROVE  /\ rs'[j].chunks = <<>> /\ rs'[j].buf = <<>>
                      /\ \A o \in Threads : HeldFrom(o, j)' = <<>>
  BY DEF EndIsEnd
<1>2. CASE seen[j].ended
  <2>1. Finished(j)
    BY <1>1, <1>2 DEF Finished, Stepping, Framed, Generator, fixed
  <2>2. EndIsEnd(j)
    BY CallFacts DEF Stepping
  <2>3. /\ rs[j].chunks = <<>> /\ rs[j].buf = <<>> /\ \A o \in Threads : HeldFrom(o, j) = <<>>
    BY <2>1, <2>2 DEF EndIsEnd
  <2>4. call[t].held = <<>>
    BY <2>3 DEF HeldFrom, Stepping
  <2>5. /\ rs'[j].chunks = <<>> /\ rs'[j].buf = <<>> /\ call'[t].held = <<>>
    BY <2>3, <2>4
  <2>6. \A o \in Threads : HeldFrom(o, j)' = <<>>
    BY <2>3, <2>5 DEF HeldFrom, Stepping, Framed
  <2>7. QED  BY <2>5, <2>6
<1>3. CASE ~seen[j].ended
  BY <1>1, <1>3 DEF Finished
<1>4. QED  BY <1>2, <1>3

(* A step that does not report the end. *)
LEMMA EndSame ==
  ASSUME NEW t, NEW j, Stepping(t, j), seen'[j].ended = seen[j].ended,
         /\ rs[j].chunks = <<>> /\ rs[j].buf = <<>> /\ call[t].held = <<>>
           => /\ rs'[j].chunks = <<>> /\ rs'[j].buf = <<>> /\ call'[t].held = <<>>
  PROVE  EndIsEnd(j)'
<1>1. PICK done \in BOOLEAN : ~done
  OBVIOUS
<1>2. QED  BY <1>1, EndKept

(* The parts make the step. *)
LEMMA PartsMakeStep ==
  ASSUME IInv, NEW t \in Threads, NEW j, j = call[t].j, call[t].pc # "idle",
         UNCHANGED <<fixed, job, cur, spent>>, RsSide(j), CallSide(t, j), CallInOrder(t)'
  PROVE  Stepping(t, j)
BY DEF Stepping, Framed, RsSide, CallSide

(* A step keeps the invariant. *)
LEMMA SteppingKeeps ==
  ASSUME NEW t, NEW j, Stepping(t, j), ReadOn(j), Ledger(j)', EndIsEnd(j)'
  PROVE  IInv'
BY StepKeeps DEF Stepping

(* The result sets stay. *)
LEMMA RsSame ==
  ASSUME IInv, rs' = rs, NEW j
  PROVE  RsSide(j)
BY DEF IInv, TypeOK, RsSide

(* One of them changes. *)
LEMMA RsSet ==
  ASSUME IInv, NEW j \in Execs, NEW r \in ResultSets, rs' = [rs EXCEPT ![j] = r]
  PROVE  RsSide(j) /\ rs'[j] = r
BY DEF IInv, TypeOK, RsSide

(* The rows of a call that is over, when nothing else moves. *)
LEMMA HandedOver ==
  ASSUME NEW t, NEW j, Stepping(t, j), Handed(t, j, call[t].got), call'[t] = Idle,
         call[t].held = <<>>, rs'[j].buf = rs[j].buf, rs'[j].chunks = rs[j].chunks
  PROVE  Ledger(j)'
<1>1. call'[t].got = <<>> /\ call'[t].held = call[t].held
  BY DEF Idle
<1>2. CASE t = "user"
  <2>1. seen'[j].out = seen[j].out \o call[t].got /\ seen'[j].gone = seen[j].gone
    BY <1>2 DEF Handed
  <2>2. QED  BY <1>1, <1>2, <2>1, GotIsGiven
<1>3. CASE t # "user"
  <2>1. seen'[j].out = seen[j].out /\ seen'[j].gone = seen[j].gone \cup ToSet(call[t].got)
    BY <1>3 DEF Handed
  <2>2. /\ Accounted(Total(j), rs[j].chunks, Stored(j), seen[j].gone, seen[j].marks)
        /\ seen[j].marks \subseteq seen'[j].marks
    BY LedgerIn
  <2>3. Accounted(Total(j), rs'[j].chunks, Stored(j), seen[j].gone, seen'[j].marks)
    BY <2>2, MoreMarks
  <2>4. QED  BY <1>1, <2>1, <2>3, GotGoes
<1>4. QED  BY <1>2, <1>3

(* The rows of a call that raises, when nothing else moves. *)
LEMMA RaisedOver ==
  ASSUME NEW t, NEW j, Stepping(t, j), call'[t] = Idle,
         seen'[j].out = seen[j].out, seen'[j].gone = seen[j].gone \cup ToSet(call[t].got),
         call[t].held = <<>>, rs'[j].buf = rs[j].buf, rs'[j].chunks = rs[j].chunks
  PROVE  Ledger(j)'
<1>1. call'[t].got = <<>> /\ call'[t].held = call[t].held
  BY DEF Idle
<1>2. /\ Accounted(Total(j), rs[j].chunks, Stored(j), seen[j].gone, seen[j].marks)
      /\ seen[j].marks \subseteq seen'[j].marks
  BY LedgerIn
<1>3. Accounted(Total(j), rs'[j].chunks, Stored(j), seen[j].gone, seen'[j].marks)
  BY <1>2, MoreMarks
<1>4. QED  BY <1>1, <1>3, GotGoes

(* A call that fails with no change to the result set. *)
LEMMA OnlyRaises ==
  ASSUME IInv, NEW t \in Threads, call[t].pc # "idle", call[t].held = <<>>,
         UNCHANGED <<fixed, job, cur, spent>>, rs' = rs, Raise(t, {})
  PROVE  IInv'
<1>1. PICK j : j = call[t].j
  OBVIOUS
<1>2. /\ CallSide(t, j) /\ call'[t] = Idle /\ seen'[j].marks = seen[j].marks
      /\ seen'[j].out = seen[j].out /\ seen'[j].gone = seen[j].gone \cup ToSet(call[t].got)
      /\ seen'[j].ended = seen[j].ended
  <2>1. PICK what : what = {}
    OBVIOUS
  <2>2. Raise(t, what) /\ what \subseteq Lossy
    BY <2>1
  <2>3. /\ CallSide(t, j) /\ call'[t] = Idle /\ seen'[j].marks = seen[j].marks \cup what
        /\ seen'[j].out = seen[j].out /\ seen'[j].gone = seen[j].gone \cup ToSet(call[t].got)
        /\ seen'[j].ended = seen[j].ended
    BY <1>1, <2>1, <2>2, RaiseDoes
  <2>4. QED  BY <2>1, <2>3
<1>3. Stepping(t, j)
  BY <1>1, <1>2, RsSame, OverInOrder, PartsMakeStep
<1>4. Ledger(j)'
  BY <1>2, <1>3, RaisedOver
<1>5. ReadOn(j)
  BY <1>1, <1>2, CallFacts DEF ReadOn, Produced
<1>6. call'[t].held = <<>>
  BY <1>2 DEF Idle
<1>7. EndIsEnd(j)'
  BY <1>2, <1>3, <1>6, EndSame
<1>8. QED  BY <1>3, <1>4, <1>5, <1>7, SteppingKeeps

(* A call that only goes on. *)
LEMMA OnlyGoesOn ==
  ASSUME IInv, NEW t \in Threads, call[t].pc # "idle",
         UNCHANGED <<fixed, job, cur, spent>>, rs' = rs, seen' = seen,
         NEW c \in Calls, call' = [call EXCEPT ![t] = c],
         c.j = call[t].j, c.got = call[t].got, c.held = call[t].held, CallInOrder(t)'
  PROVE  IInv'
<1>1. PICK j : j = call[t].j
  OBVIOUS
<1>2. CallSide(t, j) /\ call'[t] = c
  BY <1>1, GoOnDoes
<1>3. Stepping(t, j)
  BY <1>1, <1>2, RsSame, PartsMakeStep
<1>4. Ledger(j)'
  BY <1>2, <1>3, NothingMoves
<1>5. ReadOn(j)
  BY <1>1, CallFacts DEF ReadOn, Produced
<1>6. EndIsEnd(j)'
  BY <1>2, <1>3, EndSame
<1>7. QED  BY <1>3, <1>4, <1>5, <1>6, SteppingKeeps

(* A call that is somewhere else. *)
LEMMA PcOfCall ==
  ASSUME NEW c \in Calls,
         NEW pc \in {"idle", "next", "inside", "fetch", "pop", "recheck", "extend", "line"}
  PROVE  /\ [c EXCEPT !.pc = pc] \in Calls
         /\ [c EXCEPT !.pc = pc].pc = pc /\ [c EXCEPT !.pc = pc].j = c.j
         /\ [c EXCEPT !.pc = pc].got = c.got /\ [c EXCEPT !.pc = pc].held = c.held
BY DEF Calls

(* So is a call in a thread that is. *)
LEMMA PcOfThread ==
  ASSUME call \in [Threads -> Calls], NEW t \in Threads,
         NEW pc \in {"idle", "next", "inside", "fetch", "pop", "recheck", "extend", "line"}
  PROVE  /\ [call[t] EXCEPT !.pc = pc] \in Calls
         /\ [call[t] EXCEPT !.pc = pc].pc = pc /\ [call[t] EXCEPT !.pc = pc].j = call[t].j
         /\ [call[t] EXCEPT !.pc = pc].got = call[t].got
         /\ [call[t] EXCEPT !.pc = pc].held = call[t].held
<1>1. call[t] \in Calls
  OBVIOUS
<1>2. QED  BY <1>1, PcOfCall, ZenonT(40)

(* Each step of a call keeps the invariant. *)
LEMMA EnterGeneratorKeeps ==
  ASSUME IInv, NEW t \in Threads, EnterGenerator(t)
  PROVE  IInv'
<1>1. call[t].pc = "next" /\ Generator /\ UNCHANGED <<fixed, job, cur, spent>>
  BY DEF EnterGenerator, At
<1>2. PICK j : j = call[t].j
  OBVIOUS
<1>3. /\ j \in Execs /\ call[t].held = <<>> /\ Produced(j) /\ job[j].pc = "done"
  BY <1>1, <1>2, CallFacts
<1>4. CASE rs[j].closed /\ Return(t, TRUE) /\ rs' = rs
  <2>1. /\ CallSide(t, j) /\ call'[t] = Idle /\ seen'[j].marks = seen[j].marks
        /\ Handed(t, j, call[t].got)
    BY <1>1, <1>2, <1>4, ReturnDoes
  <2>2. Stepping(t, j)
    BY <1>1, <1>2, <1>4, <2>1, RsSame, OverInOrder, PartsMakeStep
  <2>3. Ledger(j)'
    BY <1>3, <1>4, <2>1, <2>2, HandedOver
  <2>4. rs[j].streams = {} /\ "closed" \in seen[j].marks
    BY <1>3, <1>4 DEF Produced
  <2>5. ReadOn(j)
    BY <1>4, <2>4 DEF ReadOn
  <2>6. ~Finished(j)'
    BY <2>1, <2>4 DEF Finished, Spoilt, Lossy
  <2>7. EndIsEnd(j)'
    BY <2>6 DEF EndIsEnd
  <2>8. QED  BY <2>2, <2>3, <2>5, <2>7, SteppingKeeps
<1>5. CASE Raise(t, {}) /\ rs' = rs
  BY <1>1, <1>3, <1>5, OnlyRaises
<1>6. CASE /\ rs' = [rs EXCEPT ![j].running = TRUE]
           /\ call' = [call EXCEPT ![t].pc = "inside"] /\ seen' = seen
  <2>1. call \in [Threads -> Calls] /\ rs \in [Execs -> ResultSets]
    BY DEF IInv, TypeOK
  <2>2. PICK c \in Calls : /\ c = [call[t] EXCEPT !.pc = "inside"]
                          /\ c.pc = "inside" /\ c.j = j /\ c.got = call[t].got /\ c.held = call[t].held
    <3>1. PICK pc \in {"idle", "next", "inside", "fetch", "pop", "recheck", "extend", "line"} :
            pc = "inside"
      OBVIOUS
    <3>2. /\ [call[t] EXCEPT !.pc = pc] \in Calls
          /\ [call[t] EXCEPT !.pc = pc].pc = pc /\ [call[t] EXCEPT !.pc = pc].j = call[t].j
          /\ [call[t] EXCEPT !.pc = pc].got = call[t].got
          /\ [call[t] EXCEPT !.pc = pc].held = call[t].held
      BY <2>1, PcOfThread
    <3>3. QED  BY <1>2, <3>1, <3>2
  <2>3. PICK r \in ResultSets : /\ r = [rs[j] EXCEPT !.running = TRUE]
                               /\ r.chunks = rs[j].chunks /\ r.buf = rs[j].buf
                               /\ r.closed = rs[j].closed /\ r.streams = rs[j].streams
    <3>1. rs[j] \in ResultSets
      BY <1>3, <2>1
    <3>2. [rs[j] EXCEPT !.running = TRUE] \in ResultSets
      BY <3>1 DEF ResultSets
    <3>3. QED  BY <3>1, <3>2 DEF ResultSets
  <2>4. call' = [call EXCEPT ![t] = c] /\ rs' = [rs EXCEPT ![j] = r]
    BY <1>6, <2>2, <2>3
  <2>5. CallSide(t, j) /\ call'[t] = c /\ seen'[j] = seen[j] /\ RsSide(j) /\ rs'[j] = r
    <3>1. CallSide(t, j) /\ call'[t] = c /\ seen'[j] = seen[j]
      <4>1. seen' = seen /\ call' = [call EXCEPT ![t] = c] /\ c.j = j
        BY <1>6, <2>2, <2>4
      <4>2. QED  BY <1>1, <1>2, <4>1, GoOnDoes
    <3>2. RsSide(j) /\ rs'[j] = r
      BY <1>3, <2>3, <2>4, RsSet
    <3>3. QED  BY <3>1, <3>2
  <2>6. CallInOrder(t)'
    BY <1>1, <1>2, <1>3, <2>2, <2>5, GoesOnInOrder DEF fixed
  <2>7. Stepping(t, j)
    BY <1>1, <1>2, <2>5, <2>6, PartsMakeStep
  <2>8. Ledger(j)'
    BY <2>2, <2>3, <2>5, <2>7, NothingMoves
  <2>9. ReadOn(j)
    BY <1>3, <2>3, <2>5 DEF ReadOn, Produced
  <2>10. EndIsEnd(j)'
    BY <2>2, <2>3, <2>5, <2>7, EndSame
  <2>11. QED  BY <2>7, <2>8, <2>9, <2>10, SteppingKeeps
<1>7. QED
  BY <1>2, <1>4, <1>5, <1>6 DEF EnterGenerator, Mine

(* A row of the frame. *)
LEMMA YieldedKeeps ==
  ASSUME IInv, NEW t \in Threads, Yielded(t)
  PROVE  IInv'
<1>1. /\ call[t].pc = "inside" /\ UNCHANGED <<fixed, job, cur, spent>>
  BY DEF Yielded, At
<1>2. PICK j : j = call[t].j
  OBVIOUS
<1>3. /\ j \in Execs /\ call[t].held = <<>> /\ Produced(j) /\ job[j].pc = "done"
      /\ rs[j].buf \in Seq(Nat) /\ call[t].got \in Seq(Nat)
  BY <1>1, <1>2, CallFacts
<1>4. /\ rs[j].buf # <<>> /\ Got(t, Head(rs[j].buf))
      /\ rs' = [rs EXCEPT ![j].buf = Tail(@), ![j].running = FALSE]
  BY <1>2 DEF Yielded, Mine
<1>5. rs[j] \in ResultSets /\ rs \in [Execs -> ResultSets]
  BY <1>3 DEF IInv, TypeOK
<1>6. PICK row \in Nat : row = Head(rs[j].buf)
  BY <1>3, <1>4, HeadTailProperties
<1>7. Tail(rs[j].buf) \in Seq(Nat)
  BY <1>3, <1>4, HeadTailProperties
<1>8. PICK r \in ResultSets : /\ r = [rs[j] EXCEPT !.buf = Tail(@), !.running = FALSE]
                             /\ r.chunks = rs[j].chunks /\ r.buf = Tail(rs[j].buf)
                             /\ r.closed = rs[j].closed /\ r.streams = rs[j].streams
  <2>1. [rs[j] EXCEPT !.buf = Tail(@), !.running = FALSE] \in ResultSets
    BY <1>5, <1>7 DEF ResultSets
  <2>2. QED  BY <1>5, <2>1 DEF ResultSets
<1>9. rs' = [rs EXCEPT ![j] = r]
  BY <1>3, <1>4, <1>5, <1>8
<1>10. RsSide(j) /\ rs'[j] = r
  BY <1>3, <1>9, RsSet
<1>11. PICK got : got = Append(call[t].got, Head(rs[j].buf))
  OBVIOUS
<1>12. /\ CallSide(t, j) /\ seen'[j].marks = seen[j].marks /\ seen'[j].ended = seen[j].ended
       /\ \/ call'[t] = Idle /\ Handed(t, j, got)
          \/ /\ call'[t].pc = "next" /\ call'[t].j = j /\ call'[t].got = got
             /\ call'[t].held = call[t].held /\ seen' = seen
  <2>1. Got(t, row)
    BY <1>4, <1>6
  <2>2. /\ CallSide(t, j) /\ seen'[j].marks = seen[j].marks /\ seen'[j].ended = seen[j].ended
        /\ \/ call'[t] = Idle /\ Handed(t, j, Append(call[t].got, row))
           \/ /\ call'[t].pc = "next" /\ call'[t].j = j
              /\ call'[t].got = Append(call[t].got, row)
              /\ call'[t].held = call[t].held /\ seen' = seen
    BY <1>1, <1>2, <2>1, GotDoes
  <2>3. QED  BY <1>6, <1>11, <2>2
<1>13. CallInOrder(t)'
  <2>1. CASE call'[t] = Idle
    BY <2>1, OverInOrder
  <2>2. CASE call'[t].pc = "next" /\ call'[t].j = j /\ call'[t].held = call[t].held
    BY <1>1, <1>2, <1>3, <1>12, <2>2, GoesOnInOrder DEF fixed
  <2>3. QED  BY <1>12, <2>1, <2>2
<1>14. Stepping(t, j)
  BY <1>1, <1>2, <1>10, <1>12, <1>13, PartsMakeStep
<1>15. call'[t].held = <<>>
  BY <1>3, <1>12 DEF Idle
<1>16. Ledger(j)'
  <2>1. CASE call'[t] = Idle /\ Handed(t, j, got)
    <3>1. call'[t].got = <<>>
      BY <2>1 DEF Idle
    <3>2. QED  BY <1>3, <1>4, <1>8, <1>10, <1>11, <1>14, <1>15, <2>1, <3>1, RowIsLast
  <2>2. CASE call'[t].got = got /\ call'[t].held = call[t].held /\ seen' = seen
    BY <1>4, <1>8, <1>10, <1>11, <1>14, <2>2, RowIsGot
  <2>3. QED  BY <1>12, <2>1, <2>2
<1>17. ReadOn(j)
  BY <1>3, <1>8, <1>10, <1>12 DEF ReadOn, Produced
<1>18. EndIsEnd(j)'
  BY <1>4, <1>12, <1>14, <1>15, EndSame
<1>19. QED  BY <1>14, <1>16, <1>17, <1>18, SteppingKeeps

(* A chunk of the frame. *)
LEMMA ChunkReadKeeps ==
  ASSUME IInv, NEW t \in Threads, ChunkRead(t)
  PROVE  IInv'
<1>1. /\ call[t].pc = "inside" /\ UNCHANGED <<fixed, job, cur, spent>>
      /\ call' = call /\ seen' = seen
  BY DEF ChunkRead, At
<1>2. PICK j : j = call[t].j
  OBVIOUS
<1>3. /\ j \in Execs /\ call[t].held = <<>> /\ Produced(j) /\ job[j].pc = "done"
      /\ rs[j].chunks \in Seq(Seq(Nat)) /\ CallInOrder(t)
      /\ Generator
  BY <1>1, <1>2, CallFacts DEF IInv
<1>4. /\ rs[j].buf = <<>> /\ rs[j].chunks # <<>>
      /\ rs' = [rs EXCEPT ![j].buf = Head(rs[j].chunks), ![j].chunks = Tail(rs[j].chunks)]
  BY <1>2 DEF ChunkRead, Mine
<1>5. rs[j] \in ResultSets /\ rs \in [Execs -> ResultSets]
  BY <1>3 DEF IInv, TypeOK
<1>6. PICK b \in Seq(Nat), rest \in Seq(Seq(Nat)) : b = Head(rs[j].chunks) /\ rest = Tail(rs[j].chunks)
  BY <1>3, <1>4, HeadTailProperties
<1>7. PICK r \in ResultSets : /\ r = [rs[j] EXCEPT !.buf = b, !.chunks = rest]
                             /\ r.chunks = rest /\ r.buf = b
                             /\ r.closed = rs[j].closed /\ r.streams = rs[j].streams
  <2>1. [rs[j] EXCEPT !.buf = b, !.chunks = rest] \in ResultSets
    BY <1>5, <1>6 DEF ResultSets
  <2>2. QED  BY <1>5, <2>1 DEF ResultSets
<1>8. rs' = [rs EXCEPT ![j] = r]
  BY <1>3, <1>4, <1>5, <1>6, <1>7
<1>9. RsSide(j) /\ rs'[j] = r
  BY <1>3, <1>8, RsSet
<1>10. CallSide(t, j)
  BY <1>1, <1>2 DEF CallSide, IInv, TypeOK
<1>11. CallInOrder(t)'
  BY <1>1, <1>2, <1>3, <1>10, GoesOnInOrder DEF fixed
<1>12. Stepping(t, j)
  BY <1>1, <1>2, <1>9, <1>10, <1>11, PartsMakeStep
<1>13. Ledger(j)'
  <2>1. <<>> \o b = b
    BY <1>6
  <2>2. rs'[j].buf = rs[j].buf \o Head(rs[j].chunks) /\ rs'[j].chunks = Tail(rs[j].chunks)
    BY <1>4, <1>6, <1>7, <1>9, <2>1
  <2>3. QED  BY <1>1, <1>3, <1>4, <1>12, <2>2, ChunkIsBuffered
<1>14. ReadOn(j)
  BY <1>1, <1>3, <1>4, <1>6, <1>7, <1>9 DEF ReadOn, Produced
<1>15. EndIsEnd(j)'
  BY <1>1, <1>4, <1>12, EndSame
<1>16. QED  BY <1>12, <1>13, <1>14, <1>15, SteppingKeeps

(* The chunks, or the first of them, are lost with the call. *)
LEMMA ChunksLostWithCall ==
  ASSUME NEW t, NEW j, Stepping(t, j), call'[t] = Idle,
         seen'[j].out = seen[j].out, seen'[j].gone = seen[j].gone \cup ToSet(call[t].got),
         call[t].held = <<>>, rs'[j].buf = rs[j].buf, "failed" \in seen'[j].marks,
         \/ rs'[j].chunks = <<>> \/ rs'[j].chunks = rs[j].chunks
         \/ rs[j].chunks # <<>> /\ rs'[j].chunks = Tail(rs[j].chunks)
  PROVE  Ledger(j)'
<1>1. call'[t].got = <<>> /\ call'[t].held = call[t].held
  BY DEF Idle
<1>2. /\ Total(j) \in Nat /\ rs[j].chunks \in Seq(Seq(Nat)) /\ seen[j].marks \subseteq seen'[j].marks
      /\ Accounted(Total(j), rs[j].chunks, Stored(j), seen[j].gone, seen[j].marks)
      /\ Shelves(Stored(j)) /\ seen'[j].marks \cap Lossy # {}
  BY LedgerIn, StoresIn DEF Lossy
<1>3. Accounted(Total(j), rs'[j].chunks, Stored(j), seen[j].gone, seen'[j].marks)
  <2>1. CASE rs'[j].chunks = <<>>
    <3>1. Accounted(Total(j), <<>>, Stored(j), seen[j].gone, seen'[j].marks)
      BY <1>2, AllLost
    <3>2. QED  BY <2>1, <3>1
  <2>2. CASE rs'[j].chunks = rs[j].chunks
    <3>1. Accounted(Total(j), rs[j].chunks, Stored(j), seen[j].gone, seen'[j].marks)
      BY <1>2, MoreMarks
    <3>2. QED  BY <2>2, <3>1
  <2>3. CASE rs[j].chunks # <<>> /\ rs'[j].chunks = Tail(rs[j].chunks)
    <3>1. Accounted(Total(j), Tail(rs[j].chunks), Stored(j), seen[j].gone, seen'[j].marks)
      BY <1>2, <2>3, HeadLost
    <3>2. QED  BY <2>3, <3>1
  <2>4. QED  BY <2>1, <2>2, <2>3
<1>4. QED  BY <1>1, <1>3, GotGoes

(* Reading on fails. *)
LEMMA ChunkFailsKeeps ==
  ASSUME IInv, NEW t \in Threads, ChunkFails(t)
  PROVE  IInv'
<1>1. /\ call[t].pc = "inside" /\ UNCHANGED <<fixed, job, cur, spent>>
      /\ Raise(t, {"failed"})
  BY DEF ChunkFails, At
<1>2. PICK j : j = call[t].j
  OBVIOUS
<1>3. /\ j \in Execs /\ call[t].held = <<>> /\ Produced(j) /\ job[j].pc = "done" /\ Generator
  BY <1>1, <1>2, CallFacts
<1>4. rs[j].buf = <<>> /\ rs' = [rs EXCEPT ![j].chunks = <<>>, ![j].running = FALSE, ![j].streams = {}]
  BY <1>2 DEF ChunkFails, Mine
<1>5. rs[j] \in ResultSets /\ rs \in [Execs -> ResultSets] /\ TypeOK
  BY <1>3 DEF IInv, TypeOK
<1>6. PICK r \in ResultSets : /\ r = [rs[j] EXCEPT !.chunks = <<>>, !.running = FALSE, !.streams = {}]
                             /\ r.chunks = <<>> /\ r.buf = rs[j].buf
                             /\ r.closed = rs[j].closed /\ r.streams = {}
  <2>1. [rs[j] EXCEPT !.chunks = <<>>, !.running = FALSE, !.streams = {}] \in ResultSets
    <3>1. PICK none \in Seq(Seq(Nat)) : none = <<>>
      <4>1. <<>> \in Seq(Seq(Nat))
        OBVIOUS
      <4>2. QED  BY <4>1
    <3>2. [rs[j] EXCEPT !.chunks = none, !.running = FALSE, !.streams = {}] \in ResultSets
      BY <1>5 DEF ResultSets
    <3>3. QED  BY <3>1, <3>2
  <2>2. QED  BY <1>5, <2>1 DEF ResultSets
<1>7. rs' = [rs EXCEPT ![j] = r]
  BY <1>3, <1>4, <1>5, <1>6
<1>8. RsSide(j) /\ rs'[j] = r
  BY <1>3, <1>7, RsSet
<1>9. PICK what : what = {"failed"} /\ what \subseteq Lossy
  BY DEF Lossy
<1>10. /\ CallSide(t, j) /\ call'[t] = Idle /\ seen'[j].marks = seen[j].marks \cup what
       /\ seen'[j].out = seen[j].out /\ seen'[j].gone = seen[j].gone \cup ToSet(call[t].got)
       /\ seen'[j].ended = seen[j].ended
  BY <1>1, <1>2, <1>9, RaiseDoes, ZenonT(40)
<1>11. Stepping(t, j)
  BY <1>1, <1>2, <1>8, <1>10, OverInOrder, PartsMakeStep
<1>12. Ledger(j)'
  <2>1. "failed" \in seen'[j].marks /\ rs'[j].buf = rs[j].buf /\ rs'[j].chunks = <<>>
    BY <1>6, <1>8, <1>9, <1>10
  <2>2. QED  BY <1>3, <1>10, <1>11, <2>1, ChunksLostWithCall
<1>13. ReadOn(j)
  BY <1>3, <1>5, <1>6, <1>8, ClassFacts DEF ReadOn
<1>14. call'[t].held = <<>>
  BY <1>10 DEF Idle
<1>15. EndIsEnd(j)'
  BY <1>4, <1>6, <1>8, <1>10, <1>11, <1>14, EndSame
<1>16. QED  BY <1>11, <1>12, <1>13, <1>15, SteppingKeeps

(* There is nothing left in the frame. *)
LEMMA ExhaustedKeeps ==
  ASSUME IInv, NEW t \in Threads, Exhausted(t)
  PROVE  IInv'
<1>1. /\ call[t].pc = "inside" /\ UNCHANGED <<fixed, job, cur, spent>>
      /\ Return(t, TRUE)
  BY DEF Exhausted, At
<1>2. PICK j : j = call[t].j
  OBVIOUS
<1>3. /\ j \in Execs /\ call[t].held = <<>> /\ Produced(j) /\ job[j].pc = "done" /\ Generator
  BY <1>1, <1>2, CallFacts
<1>4. /\ rs[j].buf = <<>> /\ rs[j].chunks = <<>>
      /\ rs' = [rs EXCEPT ![j].running = FALSE, ![j].streams = {}]
  BY <1>2 DEF Exhausted, Mine, StreamsAfterEnd
<1>5. rs[j] \in ResultSets /\ rs \in [Execs -> ResultSets] /\ TypeOK
  BY <1>3 DEF IInv, TypeOK
<1>6. PICK r \in ResultSets : /\ r = [rs[j] EXCEPT !.running = FALSE, !.streams = {}]
                             /\ r.chunks = rs[j].chunks /\ r.buf = rs[j].buf
                             /\ r.closed = rs[j].closed /\ r.streams = {}
  <2>1. [rs[j] EXCEPT !.running = FALSE, !.streams = {}] \in ResultSets
    BY <1>5 DEF ResultSets
  <2>2. QED  BY <1>5, <2>1 DEF ResultSets
<1>7. rs' = [rs EXCEPT ![j] = r]
  BY <1>3, <1>4, <1>5, <1>6
<1>8. RsSide(j) /\ rs'[j] = r
  BY <1>3, <1>7, RsSet
<1>9. /\ CallSide(t, j) /\ call'[t] = Idle /\ seen'[j].marks = seen[j].marks
      /\ Handed(t, j, call[t].got)
  BY <1>1, <1>2, ReturnDoes
<1>10. Stepping(t, j)
  BY <1>1, <1>2, <1>8, <1>9, OverInOrder, PartsMakeStep
<1>11. Ledger(j)'
  BY <1>3, <1>6, <1>8, <1>9, <1>10, HandedOver
<1>12. ReadOn(j)
  BY <1>3, <1>5, <1>6, <1>8, ClassFacts DEF ReadOn
<1>13. EndIsEnd(j)'
  <2>1. \A o \in Threads : call[o].pc # "extend"
    BY <1>3 DEF IInv, CallInOrder
  <2>2. \A o \in Threads : call[o].held = <<>>
    BY <2>1 DEF IInv, CallInOrder
  <2>3. \A o \in Threads : call'[o].held = <<>>
    BY <1>9, <2>2 DEF CallSide, Idle
  <2>4. \A o \in Threads : HeldFrom(o, j)' = <<>>
    BY <2>3 DEF HeldFrom
  <2>5. QED  BY <1>4, <1>6, <1>8, <2>4 DEF EndIsEnd
<1>14. QED  BY <1>10, <1>11, <1>12, <1>13, SteppingKeeps

(* The deque is looked at. *)
LEMMA CheckRowsKeeps ==
  ASSUME IInv, NEW t \in Threads, CheckRows(t)
  PROVE  IInv'
<1>1. /\ call[t].pc = "next" /\ UNCHANGED <<fixed, job, cur, spent>> /\ ~Generator
      /\ rs' = rs /\ seen' = seen
  BY DEF CheckRows, At
<1>2. PICK j : j = call[t].j
  OBVIOUS
<1>3. /\ j \in Execs /\ call[t].held = <<>>
  BY <1>1, <1>2, CallFacts
<1>4. PICK pc \in {"idle", "next", "inside", "fetch", "pop", "recheck", "extend", "line"} :
        pc = IF rs[j].buf = <<>> THEN "fetch" ELSE "pop"
  OBVIOUS
<1>5. call \in [Threads -> Calls]
  BY DEF IInv, TypeOK
<1>6. /\ [call[t] EXCEPT !.pc = pc] \in Calls
      /\ [call[t] EXCEPT !.pc = pc].pc = pc /\ [call[t] EXCEPT !.pc = pc].j = call[t].j
      /\ [call[t] EXCEPT !.pc = pc].got = call[t].got
      /\ [call[t] EXCEPT !.pc = pc].held = call[t].held
  BY <1>5, PcOfThread
<1>7. PICK c \in Calls : /\ c = [call[t] EXCEPT !.pc = pc]
                        /\ c.pc = pc /\ c.j = j /\ c.got = call[t].got /\ c.held = call[t].held
  BY <1>2, <1>6
<1>8. call' = [call EXCEPT ![t] = c]
  BY <1>2, <1>4, <1>7 DEF CheckRows, Mine
<1>9. CallSide(t, j) /\ call'[t] = c
  <2>1. c.j = j /\ call' = [call EXCEPT ![t] = c] /\ seen' = seen /\ call[t].pc # "idle"
    BY <1>1, <1>7, <1>8
  <2>2. QED  BY <1>2, <2>1, GoOnDoes
<1>10. CallInOrder(t)'
  BY <1>1, <1>2, <1>3, <1>4, <1>7, <1>9, GoesOnInOrder DEF fixed
<1>11. QED  BY <1>1, <1>2, <1>7, <1>8, <1>10, OnlyGoesOn

(* It is looked at again after it was filled, or could not be. *)
LEMMA CheckAgainKeeps ==
  ASSUME IInv, NEW t \in Threads, CheckAgain(t)
  PROVE  IInv'
<1>1. /\ call[t].pc = "recheck" /\ UNCHANGED <<fixed, job, cur, spent>> /\ rs' = rs
  BY DEF CheckAgain, At
<1>2. PICK j : j = call[t].j
  OBVIOUS
<1>3. /\ j \in Execs /\ call[t].held = <<>> /\ ~Generator /\ Produced(j)
  BY <1>1, <1>2, CallFacts
<1>4. CASE rs[j].buf = <<>>
  <2>1. Return(t, TRUE)
    BY <1>2, <1>4 DEF CheckAgain, Mine
  <2>2. /\ CallSide(t, j) /\ call'[t] = Idle /\ seen'[j].marks = seen[j].marks
        /\ Handed(t, j, call[t].got)
    BY <1>1, <1>2, <2>1, ReturnDoes
  <2>3. Stepping(t, j)
    BY <1>1, <1>2, <2>2, RsSame, OverInOrder, PartsMakeStep
  <2>4. Ledger(j)'
    BY <1>1, <1>3, <2>2, <2>3, HandedOver
  <2>5. TypeOK
    BY DEF IInv
  <2>6. ReadOn(j)
    BY <1>1, <1>3, <2>5, ClassFacts DEF ReadOn
  <2>7. EndIsEnd(j)'
    <3>1. SUFFICES ASSUME Finished(j)'
                   PROVE  /\ rs[j].chunks = <<>>
                          /\ \A o \in Threads : HeldFrom(o, j)' = <<>>
      BY <1>1, <1>4 DEF EndIsEnd
    <3>2. Generator' <=> Generator
      BY <1>1 DEF Generator, fixed
    <3>3. seen[j].marks \cap (Spoilt \cup {"abandoned"}) = {}
      BY <1>3, <2>2, <3>1, <3>2 DEF Finished
    <3>4. rs[j].chunks = <<>>
      BY <1>1, <1>2, <1>4, <3>3 DEF IInv, CallInOrder
    <3>5. call["lost"].j # j
      <4>1. 0 \notin Execs
        BY DEF Execs
      <4>2. CallInOrder("lost")
        BY DEF IInv, Threads
      <4>3. QED  BY <1>3, <3>3, <4>1, <4>2 DEF CallInOrder, Idle
    <3>6. call'[t].held = <<>>
      BY <2>2 DEF Idle
    <3>7. t = "user"
      BY <1>2, <3>5 DEF Threads
    <3>8. call'["lost"] = call["lost"]
      BY <2>2, <3>7 DEF CallSide, Threads
    <3>9. \A o \in Threads : HeldFrom(o, j)' = <<>>
      BY <3>5, <3>6, <3>7, <3>8 DEF HeldFrom, Threads
    <3>10. QED  BY <3>4, <3>9
  <2>8. QED  BY <2>3, <2>4, <2>6, <2>7, SteppingKeeps
<1>5. CASE rs[j].buf # <<>>
  <2>1. PICK pc \in {"idle", "next", "inside", "fetch", "pop", "recheck", "extend", "line"} :
          pc = "pop"
    OBVIOUS
  <2>2. call \in [Threads -> Calls]
    BY DEF IInv, TypeOK
  <2>3. /\ [call[t] EXCEPT !.pc = pc] \in Calls
        /\ [call[t] EXCEPT !.pc = pc].pc = pc /\ [call[t] EXCEPT !.pc = pc].j = call[t].j
        /\ [call[t] EXCEPT !.pc = pc].got = call[t].got
        /\ [call[t] EXCEPT !.pc = pc].held = call[t].held
    BY <2>2, PcOfThread
  <2>4. PICK c \in Calls : /\ c = [call[t] EXCEPT !.pc = pc]
                          /\ c.pc = pc /\ c.j = j /\ c.got = call[t].got /\ c.held = call[t].held
    BY <1>2, <2>3
  <2>5. call' = [call EXCEPT ![t] = c] /\ seen' = seen
    BY <1>2, <1>5, <2>1, <2>4 DEF CheckAgain, Mine
  <2>6. CallSide(t, j) /\ call'[t] = c
    <3>1. c.j = j /\ call' = [call EXCEPT ![t] = c] /\ seen' = seen /\ call[t].pc # "idle"
      BY <1>1, <2>4, <2>5
    <3>2. QED  BY <1>2, <3>1, GoOnDoes
  <2>7. CallInOrder(t)'
    BY <1>1, <1>2, <1>3, <2>1, <2>4, <2>6, GoesOnInOrder DEF fixed
  <2>8. QED  BY <1>1, <1>2, <2>4, <2>5, <2>7, OnlyGoesOn
<1>6. QED  BY <1>4, <1>5

(* A row of the deque. *)
LEMMA PopLeftKeeps ==
  ASSUME IInv, NEW t \in Threads, PopLeft(t)
  PROVE  IInv'
<1>1. /\ call[t].pc = "pop" /\ UNCHANGED <<fixed, job, cur, spent>>
  BY DEF PopLeft, At
<1>2. PICK j : j = call[t].j
  OBVIOUS
<1>3. /\ j \in Execs /\ call[t].held = <<>> /\ Produced(j) /\ job[j].pc = "done"
      /\ rs[j].buf \in Seq(Nat) /\ call[t].got \in Seq(Nat) /\ ~Generator
  BY <1>1, <1>2, CallFacts
<1>4. CASE rs[j].buf = <<>>
  <2>1. Raise(t, {}) /\ rs' = rs
    BY <1>2, <1>4 DEF PopLeft, Mine
  <2>2. QED  BY <1>1, <1>3, <2>1, OnlyRaises
<1>5. CASE rs[j].buf # <<>>
  <2>1. rs' = [rs EXCEPT ![j].buf = Tail(rs[j].buf)] /\ Got(t, Head(rs[j].buf))
    BY <1>2, <1>5 DEF PopLeft, Mine
  <2>2. rs[j] \in ResultSets /\ rs \in [Execs -> ResultSets]
    BY <1>3 DEF IInv, TypeOK
  <2>3. PICK row \in Nat, b \in Seq(Nat) : row = Head(rs[j].buf) /\ b = Tail(rs[j].buf)
    BY <1>3, <1>5, HeadTailProperties
  <2>4. PICK r \in ResultSets : /\ r = [rs[j] EXCEPT !.buf = b]
                               /\ r.chunks = rs[j].chunks /\ r.buf = b
                               /\ r.closed = rs[j].closed /\ r.streams = rs[j].streams
    <3>1. [rs[j] EXCEPT !.buf = b] \in ResultSets
      BY <2>2, <2>3 DEF ResultSets
    <3>2. QED  BY <2>2, <3>1 DEF ResultSets
  <2>5. rs' = [rs EXCEPT ![j] = r]
    BY <1>3, <2>1, <2>2, <2>3, <2>4
  <2>6. RsSide(j) /\ rs'[j] = r
    BY <1>3, <2>5, RsSet
  <2>7. /\ CallSide(t, j) /\ seen'[j].marks = seen[j].marks /\ seen'[j].ended = seen[j].ended
        /\ \/ call'[t] = Idle /\ Handed(t, j, Append(call[t].got, row))
           \/ /\ call'[t].pc = "next" /\ call'[t].j = j
              /\ call'[t].got = Append(call[t].got, row)
              /\ call'[t].held = call[t].held /\ seen' = seen
    <3>1. Got(t, row)
      BY <2>1, <2>3
    <3>2. QED  BY <1>1, <1>2, <3>1, GotDoes
  <2>8. CallInOrder(t)'
    <3>1. CASE call'[t] = Idle
      BY <3>1, OverInOrder
    <3>2. CASE call'[t].pc = "next" /\ call'[t].j = j /\ call'[t].held = call[t].held
      BY <1>1, <1>2, <1>3, <2>7, <3>2, GoesOnInOrder DEF fixed
    <3>3. QED  BY <2>7, <3>1, <3>2
  <2>9. Stepping(t, j)
    BY <1>1, <1>2, <2>6, <2>7, <2>8, PartsMakeStep
  <2>10. call'[t].held = <<>>
    BY <1>3, <2>7 DEF Idle
  <2>11. PICK got : got = Append(call[t].got, Head(rs[j].buf))
    OBVIOUS
  <2>12. rs'[j].buf = Tail(rs[j].buf) /\ rs'[j].chunks = rs[j].chunks
    BY <2>3, <2>4, <2>6
  <2>13. Ledger(j)'
    <3>1. CASE call'[t] = Idle /\ Handed(t, j, got)
      <4>1. call'[t].got = <<>>
        BY <3>1 DEF Idle
      <4>2. QED  BY <1>3, <1>5, <2>9, <2>10, <2>11, <2>12, <3>1, <4>1, RowIsLast
    <3>2. CASE call'[t].got = got /\ call'[t].held = call[t].held /\ seen' = seen
      BY <1>5, <2>9, <2>11, <2>12, <3>2, RowIsGot
    <3>3. QED  BY <2>3, <2>7, <2>11, <3>1, <3>2
  <2>14. ReadOn(j)
    BY <1>3, <2>4, <2>6, <2>7 DEF ReadOn, Produced
  <2>15. EndIsEnd(j)'
    BY <1>5, <2>7, <2>9, <2>10, EndSame
  <2>16. QED  BY <2>9, <2>13, <2>14, <2>15, SteppingKeeps
<1>6. QED  BY <1>4, <1>5

(* The next batch of the table. *)
LEMMA NextBatchKeeps ==
  ASSUME IInv, NEW t \in Threads, NextBatch(t)
  PROVE  IInv'
<1>1. /\ call[t].pc = "fetch" /\ UNCHANGED <<fixed, job, cur, spent>>
      /\ class.reads = "arrow"
  BY DEF NextBatch, At
<1>2. PICK j : j = call[t].j
  OBVIOUS
<1>3. /\ j \in Execs /\ call[t].held = <<>> /\ Produced(j) /\ job[j].pc = "done"
      /\ rs[j].chunks \in Seq(Seq(Nat)) /\ ~Generator
  BY <1>1, <1>2, CallFacts
<1>4. call \in [Threads -> Calls] /\ rs \in [Execs -> ResultSets]
  BY DEF IInv, TypeOK
<1>5. CASE rs[j].closed
  <2>1. Raise(t, {}) /\ rs' = rs
    BY <1>2, <1>5 DEF NextBatch, Mine
  <2>2. QED  BY <1>1, <1>3, <2>1, OnlyRaises
<1>6. CASE ~rs[j].closed /\ rs[j].chunks = <<>>
  <2>1. PICK pc \in {"idle", "next", "inside", "fetch", "pop", "recheck", "extend", "line"} :
          pc = "recheck"
    OBVIOUS
  <2>2. /\ [call[t] EXCEPT !.pc = pc] \in Calls
        /\ [call[t] EXCEPT !.pc = pc].pc = pc /\ [call[t] EXCEPT !.pc = pc].j = call[t].j
        /\ [call[t] EXCEPT !.pc = pc].got = call[t].got
        /\ [call[t] EXCEPT !.pc = pc].held = call[t].held
    BY <1>4, PcOfThread
  <2>3. PICK c \in Calls : /\ c = [call[t] EXCEPT !.pc = pc]
                          /\ c.pc = pc /\ c.j = j /\ c.got = call[t].got /\ c.held = call[t].held
    BY <1>2, <2>2
  <2>4. call' = [call EXCEPT ![t] = c] /\ seen' = seen /\ rs' = rs
    BY <1>2, <1>6, <2>1, <2>3 DEF NextBatch, Mine
  <2>5. CallSide(t, j) /\ call'[t] = c
    <3>1. c.j = j /\ call' = [call EXCEPT ![t] = c] /\ seen' = seen /\ call[t].pc # "idle"
      BY <1>1, <2>3, <2>4
    <3>2. QED  BY <1>2, <3>1, GoOnDoes
  <2>6. CallInOrder(t)'
    BY <1>1, <1>2, <1>3, <1>6, <2>1, <2>3, <2>4, <2>5, GoesOnInOrder DEF fixed
  <2>7. QED  BY <1>1, <1>2, <2>3, <2>4, <2>6, OnlyGoesOn
<1>7. CASE ~rs[j].closed /\ rs[j].chunks # <<>>
  <2>1. PICK b \in Seq(Nat), rest \in Seq(Seq(Nat)) :
          b = Head(rs[j].chunks) /\ rest = Tail(rs[j].chunks)
    BY <1>3, <1>7, HeadTailProperties
  <2>2. /\ call' = [call EXCEPT ![t].pc = "extend", ![t].held = b] /\ seen' = seen
        /\ rs' = [rs EXCEPT ![j].chunks = rest]
    BY <1>2, <1>7, <2>1 DEF NextBatch, Mine
  <2>3. PICK c \in Calls : /\ c = [call[t] EXCEPT !.pc = "extend", !.held = b]
                          /\ c.pc = "extend" /\ c.j = j /\ c.got = call[t].got /\ c.held = b
    <3>1. call[t] \in Calls
      BY <1>4
    <3>2. [call[t] EXCEPT !.pc = "extend", !.held = b] \in Calls
      BY <3>1 DEF Calls
    <3>3. QED  BY <1>2, <3>1, <3>2 DEF Calls
  <2>4. PICK r \in ResultSets : /\ r = [rs[j] EXCEPT !.chunks = rest]
                               /\ r.chunks = rest /\ r.buf = rs[j].buf
                               /\ r.closed = rs[j].closed /\ r.streams = rs[j].streams
    <3>1. rs[j] \in ResultSets
      BY <1>3, <1>4
    <3>2. [rs[j] EXCEPT !.chunks = rest] \in ResultSets
      BY <3>1 DEF ResultSets
    <3>3. QED  BY <3>1, <3>2 DEF ResultSets
  <2>5. call' = [call EXCEPT ![t] = c]
    BY <1>4, <2>2, <2>3
  <2>6. rs' = [rs EXCEPT ![j] = r]
    BY <1>3, <1>4, <2>2, <2>4
  <2>7. RsSide(j) /\ rs'[j] = r
    BY <1>3, <2>6, RsSet
  <2>8. CallSide(t, j) /\ call'[t] = c
    <3>1. c.j = j /\ call' = [call EXCEPT ![t] = c] /\ seen' = seen /\ call[t].pc # "idle"
      BY <1>1, <2>2, <2>3, <2>5
    <3>2. QED  BY <1>2, <3>1, GoOnDoes
  <2>9. c.held # <<>> \/ ~job[j].ok
    <3>1. SUFFICES ASSUME job[j].ok
                   PROVE  b # <<>>
      BY <2>3
    <3>2. \A i \in 1..Len(rs[j].chunks) : rs[j].chunks[i] # <<>>
      BY <1>3, <3>1 DEF Produced
    <3>3. Len(rs[j].chunks) \in Nat \ {0} /\ Head(rs[j].chunks) = rs[j].chunks[1]
      BY <1>3, <1>7, LenProperties, EmptySeq, HeadTailProperties
    <3>4. QED  BY <2>1, <3>2, <3>3
  <2>10. CallInOrder(t)'
    BY <1>1, <1>2, <1>3, <2>3, <2>8, <2>9, GoesOnInOrder DEF fixed
  <2>11. Stepping(t, j)
    BY <1>1, <1>2, <2>7, <2>8, <2>10, PartsMakeStep
  <2>12. /\ rs'[j].chunks = Tail(rs[j].chunks) /\ rs'[j].buf = rs[j].buf
         /\ call'[t].got = call[t].got /\ call'[t].held = Head(rs[j].chunks)
    BY <2>1, <2>3, <2>4, <2>7, <2>8
  <2>13. Ledger(j)'
    BY <1>3, <1>7, <2>2, <2>11, <2>12, ChunkIsHeld
  <2>14. ReadOn(j)
    BY <1>1, <1>7, <2>4, <2>7, <2>12 DEF ReadOn
  <2>15. EndIsEnd(j)'
    BY <1>7, <2>2, <2>11, EndSame
  <2>16. QED  BY <2>11, <2>13, <2>14, <2>15, SteppingKeeps
<1>8. QED  BY <1>5, <1>6, <1>7

(* The batch is added. *)
LEMMA ExtendRowsKeeps ==
  ASSUME IInv, NEW t \in Threads, ExtendRows(t)
  PROVE  IInv'
<1>1. /\ call[t].pc = "extend" /\ UNCHANGED <<fixed, job, cur, spent>> /\ seen' = seen
  BY DEF ExtendRows, At
<1>2. PICK j : j = call[t].j
  OBVIOUS
<1>3. /\ j \in Execs /\ Produced(j) /\ job[j].pc = "done" /\ ~Generator
      /\ call[t].held # <<>> \/ ~job[j].ok
      /\ rs[j].buf \in Seq(Nat) /\ call[t].held \in Seq(Nat)
  BY <1>1, <1>2, CallFacts
<1>4. /\ rs' = [rs EXCEPT ![j].buf = rs[j].buf \o call[t].held]
      /\ call' = [call EXCEPT ![t].pc = "recheck", ![t].held = <<>>]
  BY <1>2 DEF ExtendRows
<1>5. call \in [Threads -> Calls] /\ rs \in [Execs -> ResultSets]
  BY DEF IInv, TypeOK
<1>6. PICK b \in Seq(Nat) : b = rs[j].buf \o call[t].held
  BY <1>3, ConcatProperties
<1>7. PICK c \in Calls : /\ c = [call[t] EXCEPT !.pc = "recheck", !.held = <<>>]
                        /\ c.pc = "recheck" /\ c.j = j /\ c.got = call[t].got /\ c.held = <<>>
  <2>1. call[t] \in Calls
    BY <1>5
  <2>2. [call[t] EXCEPT !.pc = "recheck", !.held = <<>>] \in Calls
    <3>1. <<>> \in Seq(Nat)
      OBVIOUS
    <3>2. QED  BY <2>1, <3>1 DEF Calls
  <2>3. QED  BY <1>2, <2>1, <2>2 DEF Calls
<1>8. PICK r \in ResultSets : /\ r = [rs[j] EXCEPT !.buf = b]
                             /\ r.chunks = rs[j].chunks /\ r.buf = b
                             /\ r.closed = rs[j].closed /\ r.streams = rs[j].streams
  <2>1. rs[j] \in ResultSets
    BY <1>3, <1>5
  <2>2. [rs[j] EXCEPT !.buf = b] \in ResultSets
    BY <2>1 DEF ResultSets
  <2>3. QED  BY <2>1, <2>2 DEF ResultSets
<1>9. call' = [call EXCEPT ![t] = c]
  BY <1>4, <1>5, <1>7
<1>10. rs' = [rs EXCEPT ![j] = r]
  BY <1>3, <1>4, <1>5, <1>6, <1>8
<1>11. RsSide(j) /\ rs'[j] = r
  BY <1>3, <1>10, RsSet
<1>12. CallSide(t, j) /\ call'[t] = c
  <2>1. c.j = j /\ call' = [call EXCEPT ![t] = c] /\ seen' = seen /\ call[t].pc # "idle"
    BY <1>1, <1>7, <1>9
  <2>2. QED  BY <1>2, <2>1, GoOnDoes
<1>13. job[j].ok => b # <<>>
  <2>1. SUFFICES ASSUME job[j].ok
                 PROVE  b # <<>>
    OBVIOUS
  <2>2. Len(call[t].held) \in Nat \ {0} /\ Len(rs[j].buf) \in Nat
    BY <1>3, <2>1, LenProperties, EmptySeq
  <2>3. Len(b) = Len(rs[j].buf) + Len(call[t].held)
    BY <1>3, <1>6, ConcatProperties
  <2>4. PICK x \in Nat, y \in Nat \ {0} : Len(b) = x + y
    BY <2>2, <2>3
  <2>5. Len(b) # 0
    BY <2>4
  <2>6. QED  BY <2>5
<1>14. ~job[j].ok => "unsuccessful" \in seen'[j].marks
  BY <1>1, <1>3 DEF Produced
<1>15. CallInOrder(t)'
  <2>1. call'[t].pc = "recheck" /\ seen'[j].marks \cap (Spoilt \cup {"abandoned"}) = {} =>
          rs'[j].chunks = <<>> \/ rs'[j].buf # <<>>
    BY <1>8, <1>11, <1>13, <1>14 DEF Spoilt
  <2>2. /\ call'[t].j = j /\ call'[t].pc = "recheck" /\ call'[t].held = <<>>
        /\ class' = class /\ job' = job
    BY <1>1, <1>7, <1>12 DEF fixed
  <2>3. QED  BY <1>1, <1>2, <1>3, <1>12, <2>1, <2>2, GoesOnInOrder
<1>16. Stepping(t, j)
  BY <1>1, <1>2, <1>11, <1>12, <1>15, PartsMakeStep
<1>17. /\ rs'[j].chunks = rs[j].chunks /\ rs'[j].buf = rs[j].buf \o call[t].held
       /\ call'[t].got = call[t].got /\ call'[t].held = <<>>
  BY <1>6, <1>7, <1>8, <1>11, <1>12
<1>18. Ledger(j)'
  BY <1>1, <1>16, <1>17, HeldIsBuffered
<1>19. ReadOn(j)
  BY <1>1, <1>3, <1>8, <1>11 DEF ReadOn, Produced
<1>20. EndIsEnd(j)'
  <2>1. rs[j].buf = <<>> /\ call[t].held = <<>> => rs'[j].buf = <<>>
    BY <1>3, <1>17
  <2>2. QED  BY <1>1, <1>16, <1>17, <2>1, EndSame
<1>21. QED  BY <1>16, <1>18, <1>19, <1>20, SteppingKeeps

(* Reading lines begins, if there is a reader. *)
LEMMA BeginLinesKeeps ==
  ASSUME IInv, NEW t \in Threads, BeginLines(t)
  PROVE  IInv'
<1>1. /\ call[t].pc = "fetch" /\ UNCHANGED <<fixed, job, cur, spent>>
      /\ rs' = rs /\ seen' = seen /\ class.reads = "s3fs"
  BY DEF BeginLines, At
<1>2. PICK j : j = call[t].j
  OBVIOUS
<1>3. /\ j \in Execs /\ call[t].held = <<>> /\ ~Generator /\ Produced(j) /\ job[j].pc = "done"
  BY <1>1, <1>2, CallFacts
<1>4. call \in [Threads -> Calls]
  BY DEF IInv, TypeOK
<1>5. PICK pc \in {"line", "recheck"} : pc = IF HasReader(rs[j]) THEN "line" ELSE "recheck"
  OBVIOUS
<1>6. PICK c \in Calls : /\ c = [call[t] EXCEPT !.pc = pc, !.k = 0]
                        /\ c.pc = pc /\ c.j = j /\ c.got = call[t].got /\ c.held = call[t].held
  <2>1. call[t] \in Calls
    BY <1>4
  <2>2. [call[t] EXCEPT !.pc = pc, !.k = 0] \in Calls
    BY <2>1 DEF Calls
  <2>3. QED  BY <1>2, <2>1, <2>2 DEF Calls
<1>7. call' = [call EXCEPT ![t] = c]
  BY <1>2, <1>4, <1>5, <1>6 DEF BeginLines, Mine
<1>8. CallSide(t, j) /\ call'[t] = c
  <2>1. c.j = j /\ call' = [call EXCEPT ![t] = c] /\ seen' = seen /\ call[t].pc # "idle"
    BY <1>1, <1>6, <1>7
  <2>2. QED  BY <1>2, <2>1, GoOnDoes
<1>9. CallInOrder(t)'
  <2>1. call'[t].pc = "recheck" /\ seen'[j].marks \cap (Spoilt \cup {"abandoned"}) = {} =>
          rs'[j].chunks = <<>> \/ rs'[j].buf # <<>>
    <3>1. SUFFICES ASSUME call'[t].pc = "recheck",
                          seen[j].marks \cap (Spoilt \cup {"abandoned"}) = {}
                   PROVE  rs[j].chunks = <<>>
      BY <1>1
    <3>2. ~HasReader(rs[j])
      BY <1>5, <1>6, <1>8, <3>1
    <3>3. seen[j].marks \cap Spoilt = {}
      BY <3>1
    <3>4. QED  BY <1>1, <1>3, <3>2, <3>3 DEF Produced
  <2>2. /\ call'[t].j = j /\ call'[t].pc \in {"line", "recheck"} /\ call'[t].held = <<>>
        /\ class' = class /\ job' = job
    BY <1>1, <1>3, <1>5, <1>6, <1>8 DEF fixed
  <2>3. QED  BY <1>1, <1>2, <1>3, <1>8, <2>1, <2>2, GoesOnInOrder
<1>10. QED  BY <1>1, <1>2, <1>6, <1>7, <1>9, OnlyGoesOn

(* A line, or the end of the file. *)
LEMMA ReadLineKeeps ==
  ASSUME IInv, NEW t \in Threads, ReadLine(t)
  PROVE  IInv'
<1>1. /\ call[t].pc = "line" /\ UNCHANGED <<fixed, job, cur, spent>> /\ seen' = seen
  BY DEF ReadLine, At
<1>2. PICK j : j = call[t].j
  OBVIOUS
<1>3. /\ j \in Execs /\ Produced(j) /\ job[j].pc = "done" /\ ~Generator /\ class.reads = "s3fs"
      /\ call[t].held = <<>> /\ rs[j].buf \in Seq(Nat) /\ rs[j].chunks \in Seq(Seq(Nat))
  BY <1>1, <1>2, CallFacts
<1>4. call \in [Threads -> Calls] /\ rs \in [Execs -> ResultSets]
  BY DEF IInv, TypeOK
<1>5. CASE rs[j].chunks = <<>>
  <2>1. PICK pc \in {"idle", "next", "inside", "fetch", "pop", "recheck", "extend", "line"} :
          pc = "recheck"
    OBVIOUS
  <2>2. /\ [call[t] EXCEPT !.pc = pc] \in Calls
        /\ [call[t] EXCEPT !.pc = pc].pc = pc /\ [call[t] EXCEPT !.pc = pc].j = call[t].j
        /\ [call[t] EXCEPT !.pc = pc].got = call[t].got
        /\ [call[t] EXCEPT !.pc = pc].held = call[t].held
    BY <1>4, PcOfThread
  <2>3. PICK c \in Calls : /\ c = [call[t] EXCEPT !.pc = pc]
                          /\ c.pc = pc /\ c.j = j /\ c.got = call[t].got /\ c.held = call[t].held
    BY <1>2, <2>2
  <2>4. call' = [call EXCEPT ![t] = c] /\ rs' = rs
    BY <1>2, <1>5, <2>1, <2>3 DEF ReadLine, Mine
  <2>5. CallSide(t, j) /\ call'[t] = c
    <3>1. c.j = j /\ call' = [call EXCEPT ![t] = c] /\ seen' = seen /\ call[t].pc # "idle"
      BY <1>1, <2>3, <2>4
    <3>2. QED  BY <1>2, <3>1, GoOnDoes
  <2>6. CallInOrder(t)'
    BY <1>1, <1>2, <1>3, <1>5, <2>1, <2>3, <2>4, <2>5, GoesOnInOrder DEF fixed
  <2>7. QED  BY <1>1, <1>2, <2>3, <2>4, <2>6, OnlyGoesOn
<1>6. CASE rs[j].chunks # <<>>
  <2>1. PICK b \in Seq(Nat), rest \in Seq(Seq(Nat)) :
          b = Head(rs[j].chunks) /\ rest = Tail(rs[j].chunks)
    BY <1>3, <1>6, HeadTailProperties
  <2>2. PICK d \in Seq(Nat) : d = rs[j].buf \o b
    BY <1>3, ConcatProperties
  <2>3. PICK pc \in {"line", "recheck"} :
          pc = IF call[t].k + 1 < opts.arraysize THEN "line" ELSE "recheck"
    OBVIOUS
  <2>4. PICK k \in Nat : k = call[t].k + 1
    <3>1. call[t].k \in Nat
      BY <1>4 DEF Calls
    <3>2. QED  BY <3>1
  <2>5. /\ rs' = [rs EXCEPT ![j].buf = d, ![j].chunks = rest]
        /\ call' = [call EXCEPT ![t].k = k, ![t].pc = pc]
    BY <1>1, <1>2, <1>6, <2>1, <2>2, <2>3, <2>4, Zenon DEF ReadLine, Mine
  <2>6. PICK c \in Calls : /\ c = [call[t] EXCEPT !.k = k, !.pc = pc]
                          /\ c.pc = pc /\ c.j = j /\ c.got = call[t].got /\ c.held = call[t].held
    <3>1. call[t] \in Calls
      BY <1>4
    <3>2. [call[t] EXCEPT !.k = k, !.pc = pc] \in Calls
      BY <3>1 DEF Calls
    <3>3. QED  BY <1>2, <3>1, <3>2 DEF Calls
  <2>7. PICK r \in ResultSets : /\ r = [rs[j] EXCEPT !.buf = d, !.chunks = rest]
                               /\ r.chunks = rest /\ r.buf = d
                               /\ r.closed = rs[j].closed /\ r.streams = rs[j].streams
    <3>1. rs[j] \in ResultSets
      BY <1>3, <1>4
    <3>2. [rs[j] EXCEPT !.buf = d, !.chunks = rest] \in ResultSets
      BY <3>1 DEF ResultSets
    <3>3. QED  BY <3>1, <3>2 DEF ResultSets
  <2>8. call' = [call EXCEPT ![t] = c]
    BY <1>4, <2>5, <2>6
  <2>9. rs' = [rs EXCEPT ![j] = r]
    BY <1>3, <1>4, <2>5, <2>7
  <2>10. RsSide(j) /\ rs'[j] = r
    BY <1>3, <2>9, RsSet
  <2>11. CallSide(t, j) /\ call'[t] = c
    <3>1. c.j = j /\ call' = [call EXCEPT ![t] = c] /\ seen' = seen /\ call[t].pc # "idle"
      BY <1>1, <2>6, <2>8
    <3>2. QED  BY <1>2, <3>1, GoOnDoes
  <2>12. job[j].ok => d # <<>>
    <3>1. SUFFICES ASSUME job[j].ok
                   PROVE  d # <<>>
      OBVIOUS
    <3>2. \A i \in 1..Len(rs[j].chunks) : rs[j].chunks[i] # <<>>
      BY <1>3, <3>1 DEF Produced
    <3>3. Len(rs[j].chunks) \in Nat \ {0} /\ Head(rs[j].chunks) = rs[j].chunks[1]
      BY <1>3, <1>6, LenProperties, EmptySeq, HeadTailProperties
    <3>4. b # <<>>
      BY <2>1, <3>2, <3>3
    <3>5. Len(b) \in Nat \ {0} /\ Len(rs[j].buf) \in Nat
      BY <1>3, <3>4, LenProperties, EmptySeq
    <3>6. Len(d) = Len(rs[j].buf) + Len(b)
      BY <1>3, <2>2, ConcatProperties
    <3>7. Len(d) # 0
      BY <3>5, <3>6
    <3>8. QED  BY <3>7
  <2>13. ~job[j].ok => "unsuccessful" \in seen'[j].marks
    BY <1>1, <1>3 DEF Produced
  <2>14. CallInOrder(t)'
    <3>1. call'[t].pc = "recheck" /\ seen'[j].marks \cap (Spoilt \cup {"abandoned"}) = {} =>
            rs'[j].chunks = <<>> \/ rs'[j].buf # <<>>
      BY <2>7, <2>10, <2>12, <2>13 DEF Spoilt
    <3>2. /\ call'[t].j = j /\ call'[t].pc \in {"line", "recheck"} /\ call'[t].held = <<>>
          /\ class' = class /\ job' = job
      BY <1>1, <1>3, <2>6, <2>11 DEF fixed
    <3>3. QED  BY <1>1, <1>2, <1>3, <2>11, <3>1, <3>2, GoesOnInOrder
  <2>15. Stepping(t, j)
    BY <1>1, <1>2, <2>10, <2>11, <2>14, PartsMakeStep
  <2>16. /\ rs'[j].chunks = Tail(rs[j].chunks) /\ rs'[j].buf = rs[j].buf \o Head(rs[j].chunks)
         /\ call'[t].got = call[t].got /\ call'[t].held = call[t].held
    BY <2>1, <2>2, <2>6, <2>7, <2>10, <2>11
  <2>17. Ledger(j)'
    BY <1>1, <1>3, <1>6, <2>15, <2>16, ChunkIsBuffered
  <2>18. ReadOn(j)
    BY <1>3, <1>6, <2>7, <2>10, <2>16 DEF ReadOn
  <2>19. EndIsEnd(j)'
    BY <1>1, <1>6, <2>15, EndSame
  <2>20. QED  BY <2>15, <2>17, <2>18, <2>19, SteppingKeeps
<1>7. QED  BY <1>5, <1>6

(* Reading a line fails. *)
LEMMA LineFailsKeeps ==
  ASSUME IInv, NEW t \in Threads, LineFails(t)
  PROVE  IInv'
<1>1. /\ call[t].pc = "line" /\ UNCHANGED <<fixed, job, cur, spent>>
      /\ Raise(t, {"failed"})
  BY DEF LineFails, At
<1>2. PICK j : j = call[t].j
  OBVIOUS
<1>3. /\ j \in Execs /\ call[t].held = <<>> /\ Produced(j) /\ job[j].pc = "done"
      /\ class.reads = "s3fs" /\ rs[j].chunks \in Seq(Seq(Nat))
  BY <1>1, <1>2, CallFacts
<1>4. PICK x : /\ x = rs[j].chunks \/ (rs[j].chunks # <<>> /\ x = Tail(rs[j].chunks))
               /\ rs' = [rs EXCEPT ![j].chunks = x]
  BY <1>2 DEF LineFails, Mine
<1>5. x \in Seq(Seq(Nat))
  BY <1>3, <1>4, HeadTailProperties
<1>6. rs[j] \in ResultSets /\ rs \in [Execs -> ResultSets]
  BY <1>3 DEF IInv, TypeOK
<1>7. PICK r \in ResultSets : /\ r = [rs[j] EXCEPT !.chunks = x]
                             /\ r.chunks = x /\ r.buf = rs[j].buf
                             /\ r.closed = rs[j].closed /\ r.streams = rs[j].streams
  <2>1. [rs[j] EXCEPT !.chunks = x] \in ResultSets
    BY <1>5, <1>6 DEF ResultSets
  <2>2. QED  BY <1>6, <2>1 DEF ResultSets
<1>8. rs' = [rs EXCEPT ![j] = r]
  BY <1>3, <1>4, <1>6, <1>7
<1>9. RsSide(j) /\ rs'[j] = r
  BY <1>3, <1>8, RsSet
<1>10. PICK what : what = {"failed"} /\ what \subseteq Lossy
  BY DEF Lossy
<1>11. /\ CallSide(t, j) /\ call'[t] = Idle /\ seen'[j].marks = seen[j].marks \cup what
       /\ seen'[j].out = seen[j].out /\ seen'[j].gone = seen[j].gone \cup ToSet(call[t].got)
       /\ seen'[j].ended = seen[j].ended
  BY <1>1, <1>2, <1>10, RaiseDoes, ZenonT(40)
<1>12. Stepping(t, j)
  BY <1>1, <1>2, <1>9, <1>11, OverInOrder, PartsMakeStep
<1>13. Ledger(j)'
  <2>1. "failed" \in seen'[j].marks /\ rs'[j].buf = rs[j].buf
    BY <1>7, <1>9, <1>10, <1>11
  <2>2. \/ rs'[j].chunks = rs[j].chunks
        \/ rs[j].chunks # <<>> /\ rs'[j].chunks = Tail(rs[j].chunks)
    BY <1>4, <1>7, <1>9
  <2>3. QED  BY <1>3, <1>11, <1>12, <2>1, <2>2, ChunksLostWithCall
<1>14. ReadOn(j)
  BY <1>3, <1>4, <1>7, <1>9 DEF ReadOn
<1>15. call'[t].held = <<>>
  BY <1>11 DEF Idle
<1>16. EndIsEnd(j)'
  <2>1. rs[j].chunks = <<>> => rs'[j].chunks = <<>>
    BY <1>4, <1>7, <1>9
  <2>2. QED  BY <1>7, <1>9, <1>11, <1>12, <1>15, <2>1, EndSame
<1>17. QED  BY <1>12, <1>13, <1>14, <1>16, SteppingKeeps

(* So every step of a thread does. *)
LEMMA ThreadStepKeeps ==
  ASSUME IInv, NEW t \in Threads, ThreadStep(t)
  PROVE  IInv'
BY EnterGeneratorKeeps, YieldedKeeps, ChunkReadKeeps, ChunkFailsKeeps, ExhaustedKeeps,
   CheckRowsKeeps, CheckAgainKeeps, PopLeftKeeps, NextBatchKeeps, ExtendRowsKeeps,
   BeginLinesKeeps, ReadLineKeeps, LineFailsKeeps DEF ThreadStep

--------------------------------------------------------------------------------
(* A step that leaves the calls alone keeps them in order, if it changes the *)
(* rows that were read for them only in marking that.                        *)
LEMMA CallsStay ==
  ASSUME IInv, TypeOK', Sequential', call' = call, UNCHANGED fixed,
         \A i \in Execs : Produced(i)' /\ EndIsEnd(i)',
         \A i \in Execs : seen[i].marks \subseteq seen'[i].marks,
         \A i \in Execs : job[i].pc = "done" =>
           /\ job'[i].pc = "done" /\ job'[i].ok = job[i].ok
           /\ \/ Generator \/ seen'[i].marks \cap Spoilt # {}
              \/ rs'[i].chunks = rs[i].chunks /\ rs'[i].buf = rs[i].buf
  PROVE  IInv'
<1>1. ASSUME NEW t \in Threads
      PROVE  CallInOrder(t)'
  <2>1. CallInOrder(t) /\ call'[t] = call[t] /\ class' = class
    BY DEF IInv, fixed
  <2>2. CASE call[t].pc = "idle"
    BY <2>1, <2>2 DEF CallInOrder, Idle
  <2>3. CASE call[t].pc # "idle"
    <3>1. PICK i \in Execs : i = call[t].j /\ job[i].pc = "done"
      BY <2>1, <2>3 DEF CallInOrder
    <3>2. /\ job'[i].pc = "done" /\ job'[i].ok = job[i].ok /\ seen[i].marks \subseteq seen'[i].marks
          /\ \/ Generator \/ seen'[i].marks \cap Spoilt # {}
             \/ rs'[i].chunks = rs[i].chunks /\ rs'[i].buf = rs[i].buf
      BY <3>1
    <3>3. call[t].pc = "recheck" /\ seen'[i].marks \cap (Spoilt \cup {"abandoned"}) = {} =>
            rs'[i].chunks = <<>> \/ rs'[i].buf # <<>>
      <4>1. SUFFICES ASSUME call[t].pc = "recheck",
                            seen'[i].marks \cap (Spoilt \cup {"abandoned"}) = {}
                     PROVE  rs'[i].chunks = <<>> \/ rs'[i].buf # <<>>
        OBVIOUS
      <4>2. ~Generator
        BY <2>1, <4>1 DEF CallInOrder
      <4>3. rs'[i].chunks = rs[i].chunks /\ rs'[i].buf = rs[i].buf
        BY <3>2, <4>1, <4>2
      <4>4. seen[i].marks \cap (Spoilt \cup {"abandoned"}) = {}
        BY <3>2, <4>1
      <4>5. rs[i].chunks = <<>> \/ rs[i].buf # <<>>
        BY <2>1, <3>1, <4>1, <4>4 DEF CallInOrder
      <4>6. QED  BY <4>3, <4>5
    <3>4. t = "lost" => "abandoned" \in seen'[i].marks
      BY <2>1, <2>3, <3>1, <3>2 DEF CallInOrder
    <3>5. QED  BY <2>1, <2>3, <3>1, <3>2, <3>3, <3>4 DEF CallInOrder, Generator
  <2>4. QED  BY <2>2, <2>3
<1>2. QED  BY <1>1 DEF IInv

(* What is in the stores of an execution, if the calls stay. *)
LEMMA StoresStay ==
  ASSUME IInv, TypeOK', call' = call, NEW i \in Execs
  PROVE  /\ Shelves(Stored(i)) /\ Shelves(Stored(i)')
         /\ Stored(i)["buf"] = rs[i].buf /\ Stored(i)'["buf"] = rs'[i].buf
         /\ Stored(i)["out"] = seen[i].out /\ Stored(i)'["out"] = seen'[i].out
         /\ \A x \in Stores : x # "buf" /\ x # "out" => Stored(i)'[x] = Stored(i)[x]
         /\ \A t \in Threads : HeldFrom(t, i)' = HeldFrom(t, i)
<1>1. TypeOK
  BY DEF IInv
<1>2. \A t \in Threads : HeldFrom(t, i)' = HeldFrom(t, i) /\ GotFrom(t, i)' = GotFrom(t, i)
  BY DEF HeldFrom, GotFrom
<1>3. \A x \in Stores : x # "buf" /\ x # "out" => Stored(i)'[x] = Stored(i)[x]
  BY <1>1, <1>2, StoredIs, StoredAfter, Zenon DEF Stores, Threads
<1>4. QED  BY <1>1, <1>2, <1>3, StoredIs, StoredAfter, Zenon

(* An execution that a step leaves alone. *)
LEMMA SameExecution ==
  ASSUME IInv, call' = call, UNCHANGED fixed, NEW i \in Execs,
         rs'[i] = rs[i], seen'[i] = seen[i], job'[i] = job[i]
  PROVE  Produced(i)' /\ EndIsEnd(i)'
<1>1. Produced(i) /\ EndIsEnd(i) /\ class' = class /\ query' = query
  BY DEF IInv, fixed
<1>2. \A t \in Threads : HeldFrom(t, i)' = HeldFrom(t, i) /\ GotFrom(t, i)' = GotFrom(t, i)
  BY DEF HeldFrom, GotFrom
<1>3. Total(i)' = Total(i)
  BY <1>1 DEF Total
<1>4. \A p \in Stores : Store(p, i)' = Store(p, i)
  BY <1>2 DEF Store, Threads
<1>5. Ledger(i) => Ledger(i)'
  BY <1>3, <1>4, LedgerKept
<1>6. Produced(i)'
  BY <1>1, <1>5 DEF Produced, Generator, HasReader
<1>7. EndIsEnd(i)'
  BY <1>1, <1>2 DEF EndIsEnd, Finished, Generator
<1>8. QED  BY <1>6, <1>7

(* A step about an execution's result set that leaves the calls alone. *)
Beside(i) ==
  /\ IInv /\ TypeOK' /\ call' = call /\ UNCHANGED fixed
  /\ i \in Execs /\ job[i].pc = "done" /\ job'[i] = job[i]

(* The ledger before such a step, and what it takes to have it after it. *)
LEMMA LedgerOfRest ==
  ASSUME NEW i, Beside(i)
  PROVE  /\ Total(i) \in Nat /\ rs[i].chunks \in Seq(Seq(Nat)) /\ rs[i].buf \in Seq(Nat)
         /\ seen[i].out \in Seq(Nat)
         /\ Accounted(Total(i), rs[i].chunks, Stored(i), seen[i].gone, seen[i].marks)
         /\ Accounted(Total(i), rs'[i].chunks, Stored(i)', seen'[i].gone, seen'[i].marks)
              => Ledger(i)'
<1>1. /\ Produced(i) /\ query' = query /\ query \in Queries /\ i \in Execs
      /\ job[i].pc = "done" /\ job'[i] = job[i]
  BY FileCursorAssumption DEF Beside, IInv, TypeOK, fixed
<1>2. Total(i)' = Total(i) /\ Total(i) \in Nat
  BY <1>1, RowsAreAll DEF Total
<1>3. rs[i] \in ResultSets /\ seen[i] \in Histories
  BY <1>1 DEF Beside, IInv, TypeOK
<1>4. Ledger(i)
  BY <1>1 DEF Produced
<1>5. Accounted(Total(i), rs[i].chunks, Stored(i), seen[i].gone, seen[i].marks)
  BY <1>4 DEF Ledger
<1>6. Accounted(Total(i), rs'[i].chunks, Stored(i)', seen'[i].gone, seen'[i].marks) => Ledger(i)'
  BY <1>2 DEF Ledger
<1>7. QED  BY <1>2, <1>3, <1>5, <1>6 DEF ResultSets, Histories

(* An execution whose rows are read or dropped, but not by the calls. *)
LEMMA ReadOutKeeps ==
  ASSUME NEW i, Beside(i),
         seen[i].marks \subseteq seen'[i].marks, seen'[i].ended = seen[i].ended,
         Generator \/ "closed" \in seen'[i].marks,
         rs'[i].streams \subseteq rs[i].streams,
         rs'[i].closed => rs'[i].streams = {} /\ "closed" \in seen'[i].marks,
         rs'[i].buf = rs[i].buf \/ rs'[i].buf = <<>>,
         \/ rs'[i].chunks = rs[i].chunks \/ rs'[i].chunks = <<>>
         \/ rs[i].chunks # <<>> /\ rs'[i].chunks = Tail(rs[i].chunks),
         Ledger(i)'
  PROVE  Produced(i)' /\ EndIsEnd(i)'
<1>1. /\ Produced(i) /\ EndIsEnd(i) /\ class' = class /\ query' = query /\ rs[i] \in ResultSets
      /\ job[i].pc = "done" /\ job'[i] = job[i] /\ call' = call
  BY DEF Beside, IInv, TypeOK, fixed
<1>2. \A t \in Threads : HeldFrom(t, i)' = HeldFrom(t, i)
  BY <1>1 DEF HeldFrom
<1>3. ~Generator /\ job[i].ok => \A x \in 1..Len(rs'[i].chunks) : rs'[i].chunks[x] # <<>>
  <2>1. SUFFICES ASSUME ~Generator, job[i].ok
                 PROVE  \A x \in 1..Len(rs'[i].chunks) : rs'[i].chunks[x] # <<>>
    OBVIOUS
  <2>2. rs[i].chunks \in Seq(Seq(Nat)) /\ \A x \in 1..Len(rs[i].chunks) : rs[i].chunks[x] # <<>>
    BY <1>1, <2>1 DEF Produced, ResultSets
  <2>3. QED  BY <2>2, WholeRest
<1>4. ~job[i].ok => ~class.raises /\ "unsuccessful" \in seen'[i].marks
  BY <1>1 DEF Produced
<1>5. class.reads = "s3fs" => "closed" \in seen'[i].marks
  BY DEF Generator
<1>6. class.reads = "pandas" /\ seen'[i].ended => rs'[i].streams = {}
  BY <1>1 DEF Produced
<1>7. Produced(i)'
  BY <1>1, <1>3, <1>4, <1>5, <1>6 DEF Produced, Generator, Spoilt, Lossy
<1>8. EndIsEnd(i)'
  <2>1. SUFFICES ASSUME Finished(i)'
                 PROVE  rs'[i].chunks = <<>> /\ rs'[i].buf = <<>>
                          /\ \A t \in Threads : HeldFrom(t, i)' = <<>>
    BY DEF EndIsEnd
  <2>2. Finished(i)
    BY <1>1, <2>1 DEF Finished, Generator
  <2>3. rs[i].chunks = <<>> /\ rs[i].buf = <<>> /\ \A t \in Threads : HeldFrom(t, i) = <<>>
    BY <1>1, <2>2 DEF EndIsEnd
  <2>4. QED  BY <1>2, <2>3
<1>9. QED  BY <1>7, <1>8

(* The ledger when the buffer, the chunks or both are dropped. *)
LEMMA RowsDropped ==
  ASSUME NEW n \in Nat, NEW chunks \in Seq(Seq(Nat)), NEW left, left = chunks \/ left = <<>>,
         NEW gone, NEW marks, NEW more, marks \subseteq more, more \cap Lossy # {},
         NEW h, Shelves(h), NEW k, Shelves(k), k["buf"] = h["buf"] \/ k["buf"] = <<>>,
         \A x \in Stores : x # "buf" => k[x] = h[x],
         Accounted(n, chunks, h, gone, marks)
  PROVE  Accounted(n, left, k, gone, more)
<1>1. Accounted(n, left, h, gone, more)
  <2>1. CASE left = chunks
    <3>1. \A x \in Stores : h[x] = h[x]
      OBVIOUS
    <3>2. Accounted(n, chunks, h, gone, more)
      BY <3>1, MoreMarks
    <3>3. QED  BY <2>1, <3>2
  <2>2. CASE left = <<>>
    <3>1. Accounted(n, <<>>, h, gone, more)
      BY AllLost
    <3>2. QED  BY <2>2, <3>1
  <2>3. QED  BY <2>1, <2>2
<1>2. more \subseteq more
  OBVIOUS
<1>3. CASE k["buf"] = h["buf"]
  <2>1. \A x \in Stores : k[x] = h[x]
    BY <1>3
  <2>2. QED  BY <1>1, <1>2, <2>1, MoreMarks
<1>4. CASE k["buf"] = <<>>
  <2>1. PICK p \in Stores : p = "buf"
    BY Zenon DEF Stores
  <2>2. PICK u \in Seq(Nat) : u = h[p]
    BY <2>1 DEF Shelves
  <2>3. u = Join(u, <<>>)
    BY ConcatEmptySeq DEF Join
  <2>4. Left(h, k, p, u)
    BY <1>4, <2>1, <2>2, <2>3 DEF Left
  <2>5. QED  BY <1>1, <1>2, <2>4, RowsLost
<1>5. QED  BY <1>3, <1>4

(* A result set that is closed. *)
Closing(i) ==
  Beside(i) /\ rs'[i] = Closed(rs[i]) /\ seen'[i] = [seen[i] EXCEPT !.marks = @ \cup {"closed"}]

(* What it had is lost, but what a thread inside the old generator still has.*)
LEMMA ClosedKeeps ==
  ASSUME NEW i, Closing(i)
  PROVE  Produced(i)' /\ EndIsEnd(i)'
<1>1. /\ rs[i] \in ResultSets /\ seen[i] \in Histories /\ Beside(i)
      /\ rs'[i] = Closed(rs[i]) /\ seen'[i] = [seen[i] EXCEPT !.marks = @ \cup {"closed"}]
  BY DEF Closing, Beside, IInv, TypeOK
<1>2. /\ rs'[i].buf = rs[i].buf \/ rs'[i].buf = <<>>
      /\ rs'[i].chunks = rs[i].chunks \/ rs'[i].chunks = <<>>
      /\ rs'[i].streams = {}
  BY <1>1 DEF Closed, ResultSets
<1>3. /\ seen'[i].marks = seen[i].marks \cup {"closed"} /\ seen'[i].ended = seen[i].ended
      /\ seen'[i].out = seen[i].out /\ seen'[i].gone = seen[i].gone
  BY <1>1 DEF Histories
<1>4. /\ seen[i].marks \subseteq seen'[i].marks /\ "closed" \in seen'[i].marks
      /\ seen'[i].marks \cap Lossy # {}
  BY <1>3 DEF Lossy
<1>5. Ledger(i)'
  <2>1. /\ Total(i) \in Nat /\ rs[i].chunks \in Seq(Seq(Nat))
        /\ Accounted(Total(i), rs[i].chunks, Stored(i), seen[i].gone, seen[i].marks)
    BY <1>1, LedgerOfRest
  <2>2. /\ Shelves(Stored(i)) /\ Shelves(Stored(i)')
        /\ Stored(i)'["buf"] = Stored(i)["buf"] \/ Stored(i)'["buf"] = <<>>
        /\ \A x \in Stores : x # "buf" => Stored(i)'[x] = Stored(i)[x]
    BY <1>1, <1>2, <1>3, StoresStay DEF Beside
  <2>3. PICK left, more : /\ left = rs'[i].chunks /\ more = seen'[i].marks
                          /\ left = rs[i].chunks \/ left = <<>>
                          /\ seen[i].marks \subseteq more /\ more \cap Lossy # {}
    BY <1>2, <1>4
  <2>4. Accounted(Total(i), left, Stored(i)', seen[i].gone, more)
    BY <2>1, <2>2, <2>3, RowsDropped
  <2>5. QED  BY <1>1, <1>3, <2>3, <2>4, LedgerOfRest
<1>6. rs'[i].streams \subseteq rs[i].streams
  BY <1>2
<1>7. QED  BY <1>1, <1>2, <1>3, <1>4, <1>5, <1>6, ReadOutKeeps

--------------------------------------------------------------------------------
(* close() leaves a result set. *)
LEMMA ClosedIsResultSet ==
  ASSUME NEW r \in ResultSets
  PROVE  Closed(r) \in ResultSets /\ Closed(r).streams = {}
<1>1. PICK b \in Seq(Nat) : b = IF r.running THEN r.buf ELSE <<>>
  <2>1. <<>> \in Seq(Nat)
    OBVIOUS
  <2>2. QED  BY <2>1 DEF ResultSets
<1>2. PICK c \in Seq(Seq(Nat)) :
        c = IF r.running /\ class.reads = "polars" THEN r.chunks ELSE <<>>
  <2>1. <<>> \in Seq(Seq(Nat))
    OBVIOUS
  <2>2. QED  BY <2>1 DEF ResultSets
<1>3. Closed(r) = [r EXCEPT !.closed = TRUE, !.streams = {}, !.buf = b, !.chunks = c]
  BY <1>1, <1>2 DEF Closed
<1>4. QED  BY <1>3 DEF ResultSets

(* A result set that the user can reach. *)
LEMMA ReachableIsDone ==
  ASSUME IInv, NEW j \in Execs, j \in Reachable
  PROVE  job[j].pc = "done"
BY DEF IInv, Sequential, Reachable

(* A mark is one of the marks. *)
LEMMA MarkIsMark ==
  ASSUME NEW s \in Histories, NEW what,
         what \subseteq ({"abandoned", "unsuccessful", "iterated", "framed"} \cup Lossy)
  PROVE  /\ [s EXCEPT !.marks = @ \cup what] \in Histories
         /\ [s EXCEPT !.marks = @ \cup what].marks = s.marks \cup what
         /\ [s EXCEPT !.marks = @ \cup what].out = s.out
         /\ [s EXCEPT !.marks = @ \cup what].gone = s.gone
         /\ [s EXCEPT !.marks = @ \cup what].ended = s.ended
BY DEF Histories

(* The user closes a result set. *)
LEMMA CloseResultSetKeeps ==
  ASSUME IInv, NEW j \in Execs, CloseResultSet(j)
  PROVE  IInv'
<1>1. /\ job[j].pc = "done" /\ call' = call /\ job' = job /\ cur' = cur /\ spent' = spent
      /\ UNCHANGED fixed /\ class' = class
      /\ rs' = [rs EXCEPT ![j] = Closed(@)]
      /\ seen' = [seen EXCEPT ![j].marks = @ \cup {"closed"}]
  BY ReachableIsDone DEF CloseResultSet, Mark, fixed
<1>2. /\ TypeOK /\ Sequential /\ rs \in [Execs -> ResultSets] /\ seen \in [Execs -> Histories]
  BY DEF IInv, TypeOK
<1>3. Closed(rs[j]) \in ResultSets /\ Closed(rs[j]).streams = {}
  BY <1>2, ClosedIsResultSet
<1>4. [seen[j] EXCEPT !.marks = @ \cup {"closed"}] \in Histories
  BY <1>2, MarkIsMark DEF Lossy
<1>5. /\ rs' \in [Execs -> ResultSets] /\ rs'[j] = Closed(rs[j])
      /\ \A i \in Execs : i # j => rs'[i] = rs[i]
  BY <1>1, <1>2, <1>3
<1>6. /\ seen' \in [Execs -> Histories] /\ seen'[j] = [seen[j] EXCEPT !.marks = @ \cup {"closed"}]
      /\ \A i \in Execs : i # j => seen'[i] = seen[i]
  BY <1>1, <1>2, <1>4
<1>7. TypeOK'
  BY <1>1, <1>2, <1>5, <1>6 DEF TypeOK, fixed
<1>8. Sequential'
  <2>1. \A i \in Execs : rs[i].streams = {} => rs'[i].streams = {}
    BY <1>3, <1>5
  <2>2. QED  BY <1>1, <1>2, <2>1 DEF Sequential
<1>9. Closing(j)
  BY <1>1, <1>5, <1>6, <1>7 DEF Closing, Beside
<1>10. \A i \in Execs : Produced(i)' /\ EndIsEnd(i)'
  BY <1>1, <1>5, <1>6, <1>9, ClosedKeeps, SameExecution
<1>11. seen'[j].marks = seen[j].marks \cup {"closed"}
  BY <1>2, <1>6, MarkIsMark DEF Lossy
<1>12. \A i \in Execs : seen[i].marks \subseteq seen'[i].marks
  BY <1>6, <1>11
<1>13. \A i \in Execs :
         \/ Generator \/ seen'[i].marks \cap Spoilt # {}
         \/ rs'[i].chunks = rs[i].chunks /\ rs'[i].buf = rs[i].buf
  BY <1>5, <1>11 DEF Spoilt, Lossy
<1>14. \A i \in Execs : job[i].pc = "done" =>
         /\ job'[i].pc = "done" /\ job'[i].ok = job[i].ok
         /\ \/ Generator \/ seen'[i].marks \cap Spoilt # {}
            \/ rs'[i].chunks = rs[i].chunks /\ rs'[i].buf = rs[i].buf
  BY <1>1, <1>13
<1>15. QED  BY <1>1, <1>7, <1>8, <1>10, <1>12, <1>14, CallsStay

(* A job after a step. *)
LEMMA JobAfter ==
  ASSUME NEW b \in Jobs, NEW pc \in {"new", "query", "build", "done", "raised"},
         NEW kw \in ChunksizeOptions
  PROVE  /\ [b EXCEPT !.pc = pc] \in Jobs /\ [b EXCEPT !.pc = pc, !.kw = kw] \in Jobs
         /\ [b EXCEPT !.lost = TRUE] \in Jobs
BY DEF Jobs

(* A call that is spent. *)
LEMMA CallIsSpent ==
  ASSUME TypeOK, SpendCall
  PROVE  spent' \in [calls : 0..MaxCalls, abandoned : 0..MaxAbandoned]
<1>1. PICK c \in Nat : c = spent.calls /\ c < MaxCalls
  BY FileCursorAssumption DEF TypeOK, SpendCall
<1>2. c + 1 \in 0..MaxCalls
  BY <1>1, FileCursorAssumption
<1>3. QED  BY <1>1, <1>2 DEF TypeOK, SpendCall

(* What execute() does to the job of its execution. *)
LEMMA ExecuteStarts ==
  ASSUME IInv, NEW j \in Execs, NEW kw \in KwChunksizes, Execute(j, kw)
  PROVE  /\ job' \in [Execs -> Jobs] /\ job[j].pc = "new"
         /\ job'[j].pc \in {"query", "raised"} /\ job'[j].ok = job[j].ok
         /\ job'[j].lost = job[j].lost
         /\ \A i \in Execs : i # j => job'[i] = job[i]
<1>1. job[j].pc = "new" /\ job \in [Execs -> Jobs]
  BY DEF Execute, IInv, TypeOK
<1>2. PICK k \in ChunksizeOptions : k = IF "chunksize" \in class.keeps THEN kw ELSE NULL
  BY FileCursorAssumption DEF ChunksizeOptions
<1>3. PICK pc \in {"query", "raised"} : job' = [job EXCEPT ![j].pc = pc, ![j].kw = k]
  BY <1>2 DEF Execute
<1>4. pc \in {"new", "query", "build", "done", "raised"}
  OBVIOUS
<1>5. PICK b \in Jobs : /\ b = [job[j] EXCEPT !.pc = pc, !.kw = k]
                        /\ b.pc = pc /\ b.ok = job[j].ok /\ b.lost = job[j].lost
  <2>1. job[j] \in Jobs
    BY <1>1
  <2>2. [job[j] EXCEPT !.pc = pc, !.kw = k] \in Jobs
    BY <1>4, <2>1, JobAfter, Zenon
  <2>3. QED  BY <2>1, <2>2 DEF Jobs
<1>6. job' = [job EXCEPT ![j] = b]
  BY <1>1, <1>3, <1>5
<1>7. job' \in [Execs -> Jobs] /\ job'[j] = b /\ \A i \in Execs : i # j => job'[i] = job[i]
  BY <1>1, <1>6
<1>8. QED  BY <1>1, <1>3, <1>5, <1>7

(* What it does to the result sets: that of the execution before is closed. *)
LEMMA ExecuteCloses ==
  ASSUME IInv, NEW j \in Execs, NEW kw \in KwChunksizes, Execute(j, kw), NEW i \in Execs
  PROVE  /\ rs'[i] \in ResultSets /\ seen'[i] \in Histories
         /\ \/ rs'[i] = rs[i] /\ seen'[i] = seen[i]
            \/ /\ class.runs # "pool" /\ i = cur /\ rs'[i] = Closed(rs[i])
               /\ seen'[i] = [seen[i] EXCEPT !.marks = @ \cup {"closed"}]
         /\ class.runs # "pool" /\ i = cur => rs'[i].streams = {}
<1>1. /\ rs[i] \in ResultSets /\ seen[i] \in Histories /\ Produced(i)
  BY DEF IInv, TypeOK
<1>2. Closed(rs[i]) \in ResultSets /\ Closed(rs[i]).streams = {} /\ Closed(rs[i]).closed
  BY <1>1, ClosedIsResultSet, Zenon DEF Closed, ResultSets
<1>3. [seen[i] EXCEPT !.marks = @ \cup {"closed"}] \in Histories
  BY <1>1, MarkIsMark DEF Lossy
<1>4. rs'[i] = IF class.runs # "pool" /\ i = cur /\ ~rs[i].closed THEN Closed(rs[i]) ELSE rs[i]
  <2>1. rs \in [Execs -> ResultSets]
    BY DEF IInv, TypeOK
  <2>2. CASE class.runs = "pool"
    BY <2>2 DEF Execute
  <2>3. CASE class.runs # "pool"
    BY <2>3 DEF Execute, ResetState
  <2>4. QED  BY <2>2, <2>3
<1>5. seen'[i] = IF rs'[i].closed THEN [seen[i] EXCEPT !.marks = @ \cup {"closed"}] ELSE seen[i]
  BY DEF Execute
<1>6. rs[i].closed => /\ rs[i].streams = {}
                      /\ [seen[i] EXCEPT !.marks = @ \cup {"closed"}] = seen[i]
  <2>1. SUFFICES ASSUME rs[i].closed
                 PROVE  rs[i].streams = {} /\ [seen[i] EXCEPT !.marks = @ \cup {"closed"}] = seen[i]
    OBVIOUS
  <2>2. rs[i].streams = {} /\ "closed" \in seen[i].marks
    BY <1>1, <2>1 DEF Produced
  <2>3. seen[i].marks \cup {"closed"} = seen[i].marks
    BY <2>2
  <2>4. QED  BY <1>1, <2>2, <2>3 DEF Histories
<1>7. CASE class.runs # "pool" /\ i = cur /\ ~rs[i].closed
  BY <1>2, <1>3, <1>4, <1>5, <1>7
<1>8. CASE ~(class.runs # "pool" /\ i = cur) \/ rs[i].closed
  <2>1. rs'[i] = rs[i]
    BY <1>4, <1>8
  <2>2. seen'[i] = seen[i]
    BY <1>5, <1>6, <2>1
  <2>3. QED  BY <1>1, <1>6, <1>8, <2>1, <2>2
<1>9. QED  BY <1>7, <1>8

(* execute(): one execution after the other, and none of them has the        *)
(* cursor's result set before it is built.                                   *)
LEMMA ExecuteInSequence ==
  ASSUME IInv, NEW j \in Execs, NEW kw \in KwChunksizes, Execute(j, kw)
  PROVE  Sequential'
<1>1. /\ Sequential /\ class' = class
  BY DEF IInv, Execute, fixed
<1>2. /\ job[j].pc = "new" /\ job'[j].pc \in {"query", "raised"}
      /\ \A i \in Execs : i # j => job'[i] = job[i]
  BY ExecuteStarts
<1>3. class.runs = "pool" => cur = NULL /\ cur' = NULL
  BY <1>1 DEF Sequential, Execute
<1>4. cur' = NULL
  BY <1>3 DEF Execute, AfterReset
<1>5. \A i \in Execs : i > j => job[i].pc = "new"
  BY <1>1, <1>2 DEF Sequential, Execs
<1>6. ASSUME NEW i \in Execs, NEW k \in Execs, i < k, job'[i].pc = "new"
      PROVE  job'[k].pc = "new"
  <2>1. i # j /\ job[i].pc = "new"
    BY <1>2, <1>6
  <2>2. CASE k # j
    BY <1>1, <1>2, <1>6, <2>1, <2>2 DEF Sequential
  <2>3. CASE k = j
    <3>1. i \in Nat /\ j \in Nat /\ j > 1 /\ j - 1 \in Execs /\ (i = j - 1 \/ i < j - 1)
      BY <1>6, <2>3, FileCursorAssumption DEF Execs
    <3>2. job[j - 1].pc = "new"
      BY <1>1, <2>1, <3>1 DEF Sequential
    <3>3. QED  BY <3>1, <3>2 DEF Execute
  <2>4. QED  BY <2>2, <2>3
<1>7. ASSUME class.runs # "pool", NEW k \in Execs, job'[k].pc \in {"query", "build"}, ~job'[k].lost
      PROVE  \A i \in Execs : i > k => job'[i].pc = "new"
  <2>1. CASE k = j
    <3>1. \A i \in Execs : i > j => i # j
      BY DEF Execs
    <3>2. QED  BY <1>2, <1>5, <2>1, <3>1
  <2>2. CASE k # j
    BY <1>2, <1>7, <2>2 DEF Execute, Busy
  <2>3. QED  BY <2>1, <2>2
<1>8. ASSUME class.runs # "pool", NEW k \in Execs, job'[k].pc = "done", ~job'[k].lost
      PROVE  rs'[k].streams = {}
  <2>1. job[k].pc = "done" /\ ~job[k].lost
    BY <1>2, <1>8
  <2>2. CASE k = cur
    BY <1>8, <2>2, ExecuteCloses
  <2>3. CASE k # cur
    <3>1. rs'[k] = rs[k]
      BY <2>3, ExecuteCloses
    <3>2. QED  BY <1>1, <1>8, <2>1, <2>3, <3>1 DEF Sequential
  <2>4. QED  BY <2>2, <2>3
<1>9. QED  BY <1>1, <1>4, <1>6, <1>7, <1>8 DEF Sequential

(* execute() of the next statement. *)
LEMMA ExecuteKeeps ==
  ASSUME IInv, NEW j \in Execs, NEW kw \in KwChunksizes, Execute(j, kw)
  PROVE  IInv'
<1>1. /\ TypeOK /\ Sequential /\ call' = call /\ UNCHANGED fixed /\ class' = class /\ SpendCall
      /\ cur' \in Execs \cup {NULL}
  BY DEF IInv, TypeOK, Execute, AfterReset, fixed
<1>2. /\ job' \in [Execs -> Jobs] /\ job[j].pc = "new" /\ job'[j].pc \in {"query", "raised"}
      /\ job'[j].ok = job[j].ok /\ \A i \in Execs : i # j => job'[i] = job[i]
  BY ExecuteStarts
<1>3. rs' \in [Execs -> ResultSets]
  <2>1. rs' = [i \in Execs |-> rs'[i]]
    <3>1. rs = [i \in Execs |-> rs[i]]
      BY <1>1 DEF TypeOK
    <3>2. QED  BY <3>1 DEF Execute, ResetState
  <2>2. \A i \in Execs : rs'[i] \in ResultSets
    BY ExecuteCloses
  <2>3. QED  BY <2>1, <2>2
<1>4. seen' \in [Execs -> Histories]
  <2>1. seen' = [i \in Execs |-> seen'[i]]
    BY DEF Execute
  <2>2. \A i \in Execs : seen'[i] \in Histories
    BY ExecuteCloses
  <2>3. QED  BY <2>1, <2>2
<1>5. TypeOK'
  BY <1>1, <1>2, <1>3, <1>4, CallIsSpent DEF TypeOK, fixed
<1>6. Sequential'
  BY ExecuteInSequence
<1>7. ASSUME NEW i \in Execs
      PROVE  /\ Produced(i)' /\ EndIsEnd(i)' /\ seen[i].marks \subseteq seen'[i].marks
             /\ \/ rs'[i] = rs[i] \/ seen'[i].marks \cap Spoilt # {}
  <2>1. CASE rs'[i] = rs[i] /\ seen'[i] = seen[i]
    <3>1. CASE i # j
      BY <1>1, <1>2, <2>1, <3>1, SameExecution
    <3>2. CASE i = j
      <4>1. Produced(j)
        BY DEF IInv
      <4>2. ~job[j].ok /\ rs'[j] = NoResultSet /\ seen'[j].out = <<>> /\ seen'[j].gone = {}
              /\ ~seen'[j].ended
        BY <1>2, <2>1, <3>2, <4>1 DEF Produced
      <4>3. Produced(j)'
        BY <1>2, <4>2 DEF Produced, NoResultSet
      <4>4. EndIsEnd(j)'
        BY <4>2 DEF EndIsEnd, Finished
      <4>5. QED  BY <2>1, <3>2, <4>3, <4>4
    <3>3. QED  BY <3>1, <3>2
  <2>2. CASE /\ i = cur /\ rs'[i] = Closed(rs[i])
             /\ seen'[i] = [seen[i] EXCEPT !.marks = @ \cup {"closed"}]
    <3>1. job[i].pc = "done" /\ i # j
      BY <1>1, <1>2, <2>2, FileCursorAssumption DEF Sequential, Execs
    <3>2. Closing(i)
      BY <1>1, <1>2, <1>5, <2>2, <3>1 DEF Closing, Beside
    <3>3. seen'[i].marks = seen[i].marks \cup {"closed"}
      BY <1>1, <2>2, MarkIsMark DEF Lossy, TypeOK
    <3>4. QED  BY <3>2, <3>3, ClosedKeeps DEF Spoilt, Lossy
  <2>3. QED  BY <2>1, <2>2, ExecuteCloses
<1>8. \A i \in Execs : job[i].pc = "done" =>
         /\ job'[i].pc = "done" /\ job'[i].ok = job[i].ok
         /\ \/ Generator \/ seen'[i].marks \cap Spoilt # {}
            \/ rs'[i].chunks = rs[i].chunks /\ rs'[i].buf = rs[i].buf
  BY <1>2, <1>7
<1>9. QED  BY <1>1, <1>5, <1>6, <1>7, <1>8, CallsStay

--------------------------------------------------------------------------------
(* Whether the cursor has a result set when no execution but one, and not    *)
(* that, is under way.                                                       *)
LEMMA JobInSequence ==
  ASSUME IInv, NEW j \in Execs, job[j].pc \in {"query", "build"},
         job' \in [Execs -> Jobs], \A i \in Execs : i # j => job'[i] = job[i],
         job'[j].pc \in {"build", "raised"}, job[j].lost => job'[j].lost,
         class' = class, cur' = cur, rs' = rs
  PROVE  Sequential'
<1>1. Sequential
  BY DEF IInv
<1>2. \A i \in Execs : job'[i].pc = "new" <=> job[i].pc = "new"
  OBVIOUS
<1>3. \A i \in Execs : job'[i].pc = "done" <=> job[i].pc = "done"
  OBVIOUS
<1>4. \A i \in Execs : job'[i].pc = "done" => job'[i] = job[i]
  BY <1>3
<1>5. \A i \in Execs : job'[i].pc \in {"query", "build"} /\ ~job'[i].lost =>
        job[i].pc \in {"query", "build"} /\ ~job[i].lost
  OBVIOUS
<1>6. cur # NULL => job'[cur] = job[cur]
  BY <1>1 DEF Sequential, IInv, TypeOK
<1>7. QED  BY <1>1, <1>2, <1>3, <1>4, <1>5, <1>6 DEF Sequential

(* An execution goes on, before its result set is there. *)
LEMMA JobGoesOn ==
  ASSUME IInv, NEW j \in Execs, job[j].pc \in {"query", "build"},
         job' \in [Execs -> Jobs], \A i \in Execs : i # j => job'[i] = job[i],
         job'[j].pc \in {"build", "raised"}, job[j].lost => job'[j].lost,
         UNCHANGED <<fixed, cur, rs, call>>,
         spent' \in [calls : 0..MaxCalls, abandoned : 0..MaxAbandoned],
         seen' \in [Execs -> Histories], \A i \in Execs : i # j => seen'[i] = seen[i],
         seen'[j].out = seen[j].out, seen'[j].gone = seen[j].gone,
         seen'[j].ended = seen[j].ended, seen[j].marks \subseteq seen'[j].marks,
         job'[j].pc = "build" /\ ~job'[j].ok =>
           ~class.raises /\ "unsuccessful" \in seen'[j].marks
  PROVE  IInv'
<1>1. TypeOK' /\ class' = class /\ UNCHANGED fixed /\ call' = call
  BY DEF IInv, TypeOK, fixed
<1>2. Sequential'
  BY <1>1, JobInSequence
<1>3. ASSUME NEW i \in Execs, i # j
      PROVE  Produced(i)' /\ EndIsEnd(i)'
  BY <1>1, <1>3, SameExecution
<1>4. Produced(j)' /\ EndIsEnd(j)'
  <2>1. Produced(j)
    BY DEF IInv
  <2>2. rs'[j] = NoResultSet /\ seen'[j].out = <<>> /\ seen'[j].gone = {} /\ ~seen'[j].ended
    BY <2>1 DEF Produced
  <2>3. Produced(j)'
    BY <1>1, <2>2 DEF Produced, NoResultSet
  <2>4. EndIsEnd(j)'
    BY <2>2 DEF EndIsEnd, Finished
  <2>5. QED  BY <2>3, <2>4
<1>5. \A i \in Execs : Produced(i)' /\ EndIsEnd(i)'
  BY <1>3, <1>4
<1>6. \A i \in Execs : seen[i].marks \subseteq seen'[i].marks
  OBVIOUS
<1>7. \A i \in Execs : job[i].pc = "done" =>
         /\ job'[i].pc = "done" /\ job'[i].ok = job[i].ok
         /\ \/ Generator \/ seen'[i].marks \cap Spoilt # {}
            \/ rs'[i].chunks = rs[i].chunks /\ rs'[i].buf = rs[i].buf
  OBVIOUS
<1>8. QED  BY <1>1, <1>2, <1>5, <1>6, <1>7, CallsStay

(* The query ends. *)
LEMMA QueryEndsKeeps ==
  ASSUME IInv, NEW j \in Execs, NEW ok \in BOOLEAN, QueryEnds(j, ok)
  PROVE  IInv'
<1>1. /\ job[j].pc = "query" /\ UNCHANGED <<fixed, cur, rs, call>> /\ spent' = spent
  BY DEF QueryEnds, fixed
<1>2. /\ job \in [Execs -> Jobs] /\ seen \in [Execs -> Histories]
      /\ spent \in [calls : 0..MaxCalls, abandoned : 0..MaxAbandoned]
  BY DEF IInv, TypeOK
<1>3. PICK pc \in {"raised", "build"} :
        /\ pc = IF PassedTwice(j) THEN "raised" ELSE IF ok THEN "build" ELSE AfterFailure
        /\ pc = "build" /\ ~ok => ~class.raises
  BY DEF AfterFailure
<1>4. PICK b \in Jobs : /\ b = [job[j] EXCEPT !.ok = ok, !.pc = pc]
                        /\ b.pc = pc /\ b.ok = ok /\ b.lost = job[j].lost
  <2>1. job[j] \in Jobs
    BY <1>2
  <2>2. pc \in {"new", "query", "build", "done", "raised"}
    OBVIOUS
  <2>3. [job[j] EXCEPT !.ok = ok, !.pc = pc] \in Jobs
    BY <2>1, <2>2 DEF Jobs
  <2>4. QED  BY <2>1, <2>3 DEF Jobs
<1>5. job' = [job EXCEPT ![j] = b]
  BY <1>2, <1>3, <1>4 DEF QueryEnds
<1>6. job' \in [Execs -> Jobs] /\ job'[j] = b /\ \A i \in Execs : i # j => job'[i] = job[i]
  BY <1>2, <1>5
<1>7. PICK s \in Histories :
        /\ s.out = seen[j].out /\ s.gone = seen[j].gone /\ s.ended = seen[j].ended
        /\ seen[j].marks \subseteq s.marks /\ (~ok => "unsuccessful" \in s.marks)
        /\ seen' = [seen EXCEPT ![j] = s]
  <2>1. CASE ok
    <3>1. seen' = [seen EXCEPT ![j] = seen[j]] /\ seen[j] \in Histories
      BY <1>2, <2>1 DEF QueryEnds
    <3>2. QED  BY <2>1, <3>1
  <2>2. CASE ~ok
    <3>1. PICK s : s = [seen[j] EXCEPT !.marks = @ \cup {"unsuccessful"}]
      OBVIOUS
    <3>2. seen' = [seen EXCEPT ![j] = s]
      BY <2>2, <3>1 DEF QueryEnds
    <3>3. /\ s \in Histories /\ s.marks = seen[j].marks \cup {"unsuccessful"}
          /\ s.out = seen[j].out /\ s.gone = seen[j].gone /\ s.ended = seen[j].ended
      BY <1>2, <3>1, MarkIsMark
    <3>4. QED  BY <3>2, <3>3
  <2>3. QED  BY <2>1, <2>2
<1>8. /\ seen' \in [Execs -> Histories] /\ seen'[j] = s
      /\ \A i \in Execs : i # j => seen'[i] = seen[i]
  BY <1>2, <1>7
<1>9. /\ job'[j].pc \in {"build", "raised"} /\ (job[j].lost => job'[j].lost)
      /\ (job'[j].pc = "build" /\ ~job'[j].ok => ~class.raises /\ "unsuccessful" \in seen'[j].marks)
  BY <1>3, <1>4, <1>6, <1>7, <1>8
<1>10. spent' \in [calls : 0..MaxCalls, abandoned : 0..MaxAbandoned]
  BY <1>1, <1>2
<1>11. QED  BY <1>1, <1>6, <1>7, <1>8, <1>9, <1>10, JobGoesOn

(* The constructor of the result set raises. *)
LEMMA BuildFailsKeeps ==
  ASSUME IInv, NEW j \in Execs, BuildFails(j)
  PROVE  IInv'
<1>1. /\ job[j].pc = "build" /\ UNCHANGED <<fixed, cur, rs, call>> /\ spent' = spent /\ seen' = seen
      /\ job' = [job EXCEPT ![j].pc = "raised"]
  BY DEF BuildFails, fixed
<1>2. /\ job \in [Execs -> Jobs] /\ seen \in [Execs -> Histories]
      /\ spent \in [calls : 0..MaxCalls, abandoned : 0..MaxAbandoned]
  BY DEF IInv, TypeOK
<1>3. PICK b \in Jobs : /\ b = [job[j] EXCEPT !.pc = "raised"]
                        /\ b.pc = "raised" /\ b.ok = job[j].ok /\ b.lost = job[j].lost
  <2>1. job[j] \in Jobs
    BY <1>2
  <2>2. [job[j] EXCEPT !.pc = "raised"] \in Jobs
    BY <2>1 DEF Jobs
  <2>3. QED  BY <2>1, <2>2 DEF Jobs
<1>4. job' = [job EXCEPT ![j] = b]
  BY <1>1, <1>2, <1>3
<1>5. job' \in [Execs -> Jobs] /\ job'[j] = b /\ \A i \in Execs : i # j => job'[i] = job[i]
  BY <1>2, <1>4
<1>6. /\ job'[j].pc \in {"build", "raised"} /\ (job[j].lost => job'[j].lost)
      /\ (job'[j].pc = "build" /\ ~job'[j].ok => ~class.raises /\ "unsuccessful" \in seen'[j].marks)
      /\ job[j].pc \in {"query", "build"}
  BY <1>1, <1>3, <1>5
<1>7. /\ seen' \in [Execs -> Histories] /\ \A i \in Execs : i # j => seen'[i] = seen[i]
      /\ seen'[j].out = seen[j].out /\ seen'[j].gone = seen[j].gone
      /\ seen'[j].ended = seen[j].ended /\ seen[j].marks \subseteq seen'[j].marks
      /\ spent' \in [calls : 0..MaxCalls, abandoned : 0..MaxAbandoned]
  BY <1>1, <1>2
<1>8. QED  BY <1>1, <1>5, <1>6, <1>7, JobGoesOn

(* The task is cancelled in execute(). *)
LEMMA CancelExecuteKeeps ==
  ASSUME IInv, NEW j \in Execs, CancelExecute(j)
  PROVE  IInv'
<1>1. /\ job[j].pc \in {"query", "build"} /\ UNCHANGED <<fixed, cur, rs, call>> /\ seen' = seen
  BY DEF CancelExecute, fixed
<1>2. /\ job \in [Execs -> Jobs] /\ seen \in [Execs -> Histories] /\ job[j] \in Jobs
      /\ spent \in [calls : 0..MaxCalls, abandoned : 0..MaxAbandoned] /\ Produced(j)
  BY DEF IInv, TypeOK
<1>3. PICK b \in Jobs : /\ job' = [job EXCEPT ![j] = b] /\ b.ok = job[j].ok
                        /\ b.pc = "raised" \/ (b.pc = "build" /\ job[j].pc = "build")
                        /\ job[j].lost => b.lost
  <2>1. CASE job[j].pc = "query" /\ job' = [job EXCEPT ![j].pc = "raised"]
    <3>1. PICK b : b = [job[j] EXCEPT !.pc = "raised"]
      OBVIOUS
    <3>2. b \in Jobs /\ b.pc = "raised" /\ b.ok = job[j].ok /\ (job[j].lost => b.lost)
      BY <1>2, <3>1 DEF Jobs
    <3>3. job' = [job EXCEPT ![j] = b]
      BY <1>2, <2>1, <3>1
    <3>4. QED  BY <3>2, <3>3
  <2>2. CASE job[j].pc = "build" /\ job' = [job EXCEPT ![j].lost = TRUE]
    <3>1. PICK b : b = [job[j] EXCEPT !.lost = TRUE]
      OBVIOUS
    <3>2. b \in Jobs /\ b.pc = "build" /\ b.ok = job[j].ok /\ b.lost = TRUE
      BY <1>2, <2>2, <3>1 DEF Jobs
    <3>3. job' = [job EXCEPT ![j] = b]
      BY <1>2, <2>2, <3>1
    <3>4. QED  BY <2>2, <3>2, <3>3
  <2>3. QED  BY <2>1, <2>2 DEF CancelExecute
<1>4. job' \in [Execs -> Jobs] /\ job'[j] = b /\ \A i \in Execs : i # j => job'[i] = job[i]
  BY <1>2, <1>3
<1>5. /\ job'[j].pc \in {"build", "raised"} /\ (job[j].lost => job'[j].lost)
      /\ (job'[j].pc = "build" /\ ~job'[j].ok => ~class.raises /\ "unsuccessful" \in seen'[j].marks)
  BY <1>1, <1>2, <1>3, <1>4 DEF Produced
<1>6. spent' \in [calls : 0..MaxCalls, abandoned : 0..MaxAbandoned]
  <2>1. PICK c \in Nat : c = spent.abandoned /\ c < MaxAbandoned
    BY <1>2, FileCursorAssumption DEF CancelExecute
  <2>2. c + 1 \in 0..MaxAbandoned
    BY <2>1, FileCursorAssumption
  <2>3. QED  BY <1>2, <2>1, <2>2 DEF CancelExecute
<1>7. /\ seen' \in [Execs -> Histories] /\ \A i \in Execs : i # j => seen'[i] = seen[i]
      /\ seen'[j].out = seen[j].out /\ seen'[j].gone = seen[j].gone
      /\ seen'[j].ended = seen[j].ended /\ seen[j].marks \subseteq seen'[j].marks
  BY <1>1, <1>2
<1>8. QED  BY <1>1, <1>4, <1>5, <1>6, <1>7, JobGoesOn

--------------------------------------------------------------------------------
(* The chunk size of a result set is one. *)
LEMMA ChunksizeIsOne ==
  ASSUME IInv, NEW j \in Execs
  PROVE  Chunksize(j) \in ChunksizeOptions /\ opts.arraysize \in Nat \ {0}
<1>1. job[j] \in Jobs /\ opts \in OptionSets
  BY DEF IInv, TypeOK
<1>2. job[j].kw \in ChunksizeOptions /\ opts.chunksize \in ChunksizeOptions
        /\ opts.arraysize \in Nat \ {0}
  BY <1>1 DEF Jobs, OptionSets
<1>3. QED  BY <1>2 DEF Chunksize

(* What a result set has to read is all rows of the result, once and in      *)
(* order, whichever class reads it and whatever from.                        *)
LEMMA ContentIsGood ==
  ASSUME IInv, NEW j \in Execs
  PROVE  /\ Total(j) \in Nat /\ Good(ContentOf(j), Total(j))
         /\ ~Generator /\ job[j].ok => Whole(ContentOf(j))
         /\ class.reads = "s3fs" /\ job[j].ok =>
              "reader" \in ContentOf(j).streams \/ ContentOf(j).chunks = <<>>
<1>1. /\ query \in Queries /\ class.reads \in {"pandas", "arrow", "polars", "s3fs"}
      /\ Generator <=> class.reads \in {"pandas", "polars"}
  BY ClassFacts, FileCursorAssumption DEF IInv, TypeOK
<1>2. PICK o : /\ o = [opts EXCEPT !.chunksize = Chunksize(j)]
               /\ o.chunksize \in ChunksizeOptions /\ o.arraysize \in Nat \ {0}
  <2>1. opts \in OptionSets
    BY DEF IInv, TypeOK
  <2>2. QED  BY <2>1, ChunksizeIsOne DEF OptionSets
<1>3. CASE ~job[j].ok
  <2>1. ContentOf(j) = Empty /\ Total(j) = 0
    BY <1>3 DEF ContentOf, Total
  <2>2. 0 \in Nat
    OBVIOUS
  <2>3. PICK n \in Nat : n = 0
    BY <2>2
  <2>4. Good(Empty, n)
    BY <2>3, EmptyIsGood
  <2>5. QED  BY <1>3, <2>1, <2>3, <2>4
<1>4. CASE job[j].ok
  <2>1. Total(j) = query.n /\ query.n \in Nat
    BY <1>1, <1>4, RowsAreAll DEF Total
  <2>2. CASE class.reads = "pandas"
    <3>1. ContentOf(j) = PandasContent(query, o)
      BY <1>2, <1>4, <2>2 DEF ContentOf
    <3>2. Good(PandasContent(query, o), query.n)
      BY <1>1, <1>2, PandasIsGood
    <3>3. QED  BY <1>1, <2>1, <2>2, <3>1, <3>2
  <2>3. CASE class.reads = "arrow"
    <3>1. ContentOf(j) = ArrowContent(query, o)
      BY <1>2, <1>4, <2>3 DEF ContentOf
    <3>2. Good(ArrowContent(query, o), query.n) /\ Whole(ArrowContent(query, o))
      BY <1>1, <1>2, ArrowIsGood
    <3>3. QED  BY <1>1, <2>1, <2>3, <3>1, <3>2
  <2>4. CASE class.reads = "polars"
    <3>1. ContentOf(j) = PolarsContent(query, o)
      BY <1>2, <1>4, <2>4 DEF ContentOf
    <3>2. Good(PolarsContent(query, o), query.n)
      BY <1>1, <1>2, PolarsIsGood
    <3>3. QED  BY <1>1, <2>1, <2>4, <3>1, <3>2
  <2>5. CASE class.reads = "s3fs"
    <3>1. ContentOf(j) = S3FSContent(query, o)
      BY <1>2, <1>4, <2>5 DEF ContentOf
    <3>2. Good(S3FSContent(query, o), query.n) /\ Whole(S3FSContent(query, o))
            /\ ("reader" \in S3FSContent(query, o).streams \/ S3FSContent(query, o).chunks = <<>>)
      BY <1>1, S3FSIsGood
    <3>3. QED  BY <1>1, <2>1, <2>5, <3>1, <3>2
  <2>6. QED  BY <1>1, <2>2, <2>3, <2>4, <2>5
<1>5. QED  BY <1>3, <1>4

(* Nobody fetches from a result set that is not there. *)
LEMMA NoCallYet ==
  ASSUME IInv, NEW j \in Execs, job[j].pc # "done", NEW t \in Threads
  PROVE  GotFrom(t, j) = <<>> /\ HeldFrom(t, j) = <<>>
<1>1. CallInOrder(t) /\ j # 0
  BY DEF IInv, Execs
<1>2. call[t].j # j
  BY <1>1 DEF CallInOrder, Idle
<1>3. QED  BY <1>2 DEF GotFrom, HeldFrom

(* The ledger of a result set that was just built. *)
LEMMA LedgerBegins ==
  ASSUME NEW n \in Nat, NEW chunks, NEW buf, Laid(chunks, buf, n),
         NEW h, h["buf"] = buf, \A x \in Stores : x # "buf" => h[x] = <<>>, NEW marks
  PROVE  Accounted(n, chunks, h, {}, marks)
<1>1. CASE /\ buf = <<>>
           /\ \E e \in [0..Len(chunks) -> 0..n] : Cut(chunks, e, n) /\ e[0] = 0
  <2>1. PICK e \in [0..Len(chunks) -> 0..n] : Cut(chunks, e, n) /\ e[0] = 0
    BY <1>1
  <2>2. \A x \in Stores : h[x] = <<>>
    BY <1>1
  <2>3. QED  BY <2>1, <2>2, AllInChunks
<1>2. CASE chunks = <<>> /\ buf = Stretch(0, n)
  <2>1. h["buf"] = Stretch(0, n)
    BY <1>2
  <2>2. Accounted(n, <<>>, h, {}, marks)
    BY <2>1, AllInBuffer
  <2>3. QED  BY <1>2, <2>2
<1>3. QED  BY <1>1, <1>2 DEF Laid

(* What the constructor makes of the execution. *)
Building(j) ==
  /\ IInv /\ TypeOK' /\ UNCHANGED fixed /\ call' = call /\ seen' = seen
  /\ j \in Execs /\ job[j].pc = "build" /\ job'[j].pc = "done" /\ job'[j].ok = job[j].ok
  /\ rs'[j].chunks = ContentOf(j).chunks /\ rs'[j].buf = ContentOf(j).buf
  /\ rs'[j].streams = ContentOf(j).streams /\ ~rs'[j].closed

(* Its rows are all there, and none was given yet. *)
LEMMA BuiltIsThere ==
  ASSUME NEW j, Building(j)
  PROVE  Produced(j)' /\ EndIsEnd(j)'
<1>1. /\ IInv /\ j \in Execs /\ Produced(j) /\ job[j].pc = "build" /\ seen' = seen /\ call' = call
      /\ class' = class /\ query' = query /\ job'[j].pc = "done" /\ job'[j].ok = job[j].ok
      /\ TypeOK'
  BY DEF Building, IInv, fixed
<1>2. seen[j].out = <<>> /\ seen[j].gone = {} /\ ~seen[j].ended
        /\ (~job[j].ok => ~class.raises /\ "unsuccessful" \in seen[j].marks)
  BY <1>1 DEF Produced
<1>3. /\ Total(j) \in Nat /\ Good(ContentOf(j), Total(j))
      /\ ~Generator /\ job[j].ok => Whole(ContentOf(j))
      /\ class.reads = "s3fs" /\ job[j].ok =>
           "reader" \in ContentOf(j).streams \/ ContentOf(j).chunks = <<>>
  BY <1>1, ContentIsGood
<1>4. Total(j)' = Total(j)
  BY <1>1 DEF Total
<1>5. Ledger(j)'
  <2>1. /\ Stored(j)'["buf"] = rs'[j].buf /\ Stored(j)'["out"] = seen'[j].out
        /\ Stored(j)'["got"] = GotFrom("user", j)' /\ Stored(j)'["held"] = HeldFrom("user", j)'
        /\ Stored(j)'["lost got"] = GotFrom("lost", j)'
        /\ Stored(j)'["lost held"] = HeldFrom("lost", j)'
    BY <1>1, StoredAfter, Zenon
  <2>2. \A t \in Threads : GotFrom(t, j)' = <<>> /\ HeldFrom(t, j)' = <<>>
    <3>1. \A t \in Threads : GotFrom(t, j) = <<>> /\ HeldFrom(t, j) = <<>>
      BY <1>1, NoCallYet
    <3>2. \A t \in Threads : GotFrom(t, j)' = GotFrom(t, j) /\ HeldFrom(t, j)' = HeldFrom(t, j)
      BY <1>1 DEF GotFrom, HeldFrom
    <3>3. QED  BY <3>1, <3>2
  <2>3. \A x \in Stores : x # "buf" => Stored(j)'[x] = <<>>
    BY <1>1, <1>2, <2>1, <2>2, Zenon DEF Stores, Threads
  <2>4. PICK chunks, buf : /\ chunks = rs'[j].chunks /\ buf = rs'[j].buf
                           /\ Laid(chunks, buf, Total(j))
    BY <1>3 DEF Building, Good
  <2>5. Stored(j)'["buf"] = buf
    BY <2>1, <2>4, Zenon
  <2>6. Accounted(Total(j), chunks, Stored(j)', {}, seen[j].marks)
    BY <1>3, <2>3, <2>4, <2>5, LedgerBegins
  <2>7. QED  BY <1>1, <1>2, <1>4, <2>4, <2>6 DEF Ledger
<1>6. ~Generator /\ job[j].ok => \A i \in 1..Len(rs'[j].chunks) : rs'[j].chunks[i] # <<>>
  BY <1>3 DEF Building, Whole
<1>7. class.reads = "s3fs" /\ seen[j].marks \cap Spoilt = {} =>
        HasReader(rs'[j]) \/ rs'[j].chunks = <<>>
  <2>1. SUFFICES ASSUME class.reads = "s3fs", seen[j].marks \cap Spoilt = {}
                 PROVE  HasReader(rs'[j]) \/ rs'[j].chunks = <<>>
    OBVIOUS
  <2>2. job[j].ok
    BY <1>2, <2>1 DEF Spoilt
  <2>3. QED  BY <1>3, <2>1, <2>2 DEF Building, HasReader
<1>8. ~rs'[j].closed
  BY DEF Building
<1>9. Produced(j)'
  BY <1>1, <1>2, <1>5, <1>6, <1>7, <1>8 DEF Produced, Generator
<1>10. EndIsEnd(j)'
  BY <1>1, <1>2 DEF EndIsEnd, Finished
<1>11. QED  BY <1>9, <1>10

(* The constructor of the result set returns. *)
LEMMA BuildKeeps ==
  ASSUME IInv, NEW j \in Execs, Build(j)
  PROVE  IInv'
<1>1. /\ job[j].pc = "build" /\ UNCHANGED fixed /\ class' = class /\ call' = call
      /\ seen' = seen /\ spent' = spent
      /\ job' = [job EXCEPT ![j].pc = "done"]
      /\ cur' = IF class.runs = "pool" \/ job[j].lost THEN cur ELSE j
  BY DEF Build, fixed
<1>2. /\ TypeOK /\ Sequential /\ Produced(j)
      /\ job \in [Execs -> Jobs] /\ rs \in [Execs -> ResultSets] /\ cur \in Execs \cup {NULL}
  BY DEF IInv, TypeOK
<1>3. PICK b \in Jobs : /\ b = [job[j] EXCEPT !.pc = "done"]
                        /\ b.pc = "done" /\ b.ok = job[j].ok
                        /\ (job[j].lost => b.lost) /\ (~job[j].lost => ~b.lost)
  <2>1. job[j] \in Jobs
    BY <1>2
  <2>2. [job[j] EXCEPT !.pc = "done"] \in Jobs
    BY <2>1 DEF Jobs
  <2>3. QED  BY <2>1, <2>2 DEF Jobs
<1>4. job' \in [Execs -> Jobs] /\ job'[j] = b /\ \A i \in Execs : i # j => job'[i] = job[i]
  <2>1. job' = [job EXCEPT ![j] = b]
    BY <1>1, <1>2, <1>3
  <2>2. QED  BY <1>2, <2>1
<1>5. PICK c : c = ContentOf(j) /\ Good(c, Total(j))
  BY ContentIsGood
<1>6. PICK r \in ResultSets : /\ r.chunks = c.chunks /\ r.buf = c.buf /\ r.streams = c.streams
                              /\ r.closed = FALSE
                              /\ rs' = [rs EXCEPT ![j] = r]
  <2>1. PICK r : r = [chunks |-> c.chunks, buf |-> c.buf, streams |-> c.streams, lazy |-> c.lazy,
                      chunksize |-> Chunksize(j), running |-> FALSE, closed |-> FALSE]
    OBVIOUS
  <2>2. r \in ResultSets
    BY <1>5, <2>1, ChunksizeIsOne DEF Good, Laid, ResultSets
  <2>3. rs' = [rs EXCEPT ![j] = r]
    BY <1>5, <2>1 DEF Build
  <2>4. QED  BY <2>1, <2>2, <2>3
<1>7. rs' \in [Execs -> ResultSets] /\ rs'[j] = r /\ \A i \in Execs : i # j => rs'[i] = rs[i]
  BY <1>2, <1>6
<1>8. TypeOK'
  BY <1>1, <1>2, <1>4, <1>7 DEF TypeOK, fixed
<1>9. Sequential'
  <2>1. \A i \in Execs : job'[i].pc = "new" <=> job[i].pc = "new"
    BY <1>1, <1>3, <1>4
  <2>2. class.runs # "pool" => job[j].ok
    BY <1>1, <1>2, ClassFacts DEF Produced
  <2>3. \A i \in Execs : i # j => rs'[i].streams = rs[i].streams /\ job'[i] = job[i]
    BY <1>4, <1>7
  <2>4. CASE class.runs = "pool"
    BY <1>1, <1>2, <2>1, <2>4 DEF Sequential
  <2>5. CASE class.runs # "pool" /\ job[j].lost
    <3>1. cur' = cur /\ cur # j
      BY <1>1, <1>2, <2>5, FileCursorAssumption DEF Sequential, Execs
    <3>2. job'[j].lost /\ job'[j].pc = "done"
      BY <1>3, <1>4, <2>5
    <3>3. QED  BY <1>1, <1>2, <1>4, <2>1, <2>3, <2>5, <3>1, <3>2 DEF Sequential
  <2>6. CASE class.runs # "pool" /\ ~job[j].lost
    <3>1. /\ cur' = j /\ cur = NULL /\ job'[j].pc = "done" /\ job'[j].ok /\ ~job'[j].lost
          /\ \A i \in Execs : i > j => job[i].pc = "new"
      BY <1>1, <1>2, <1>3, <1>4, <2>2, <2>6 DEF Sequential
    <3>2. \A i \in Execs : i # cur
      BY <3>1, FileCursorAssumption DEF Execs
    <3>3. ASSUME NEW i \in Execs
          PROVE  /\ ~(job'[i].pc \in {"query", "build"} /\ ~job'[i].lost)
                 /\ (job'[i].pc = "done" /\ ~job'[i].lost /\ i # cur' => rs'[i].streams = {})
      <4>1. CASE i = j
        BY <3>1, <4>1
      <4>2. CASE i # j
        <5>1. job'[i] = job[i] /\ rs'[i].streams = rs[i].streams
          BY <2>3, <4>2
        <5>2. ~(job[i].pc \in {"query", "build"} /\ ~job[i].lost)
          BY <1>1, <1>2, <2>6, <4>2 DEF Sequential, Execs
        <5>3. job[i].pc = "done" /\ ~job[i].lost => rs[i].streams = {}
          BY <1>2, <2>6, <3>2 DEF Sequential
        <5>4. QED  BY <5>1, <5>2, <5>3
      <4>3. QED  BY <4>1, <4>2
    <3>4. \A i, k \in Execs : i < k /\ job'[i].pc = "new" => job'[k].pc = "new"
      BY <1>2, <2>1 DEF Sequential
    <3>5. \A i \in Execs : i > cur' => job'[i].pc = "new"
      BY <2>1, <3>1
    <3>6. QED  BY <1>1, <2>6, <3>1, <3>3, <3>4, <3>5 DEF Sequential
  <2>7. QED  BY <2>4, <2>5, <2>6
<1>10. Building(j)
  BY <1>1, <1>3, <1>4, <1>5, <1>6, <1>7, <1>8 DEF Building
<1>11. \A i \in Execs : Produced(i)' /\ EndIsEnd(i)'
  BY <1>1, <1>4, <1>7, <1>10, BuiltIsThere, SameExecution
<1>12. \A i \in Execs : seen[i].marks \subseteq seen'[i].marks
  BY <1>1
<1>13. \A i \in Execs : job[i].pc = "done" =>
         /\ job'[i].pc = "done" /\ job'[i].ok = job[i].ok
         /\ \/ Generator \/ seen'[i].marks \cap Spoilt # {}
            \/ rs'[i].chunks = rs[i].chunks /\ rs'[i].buf = rs[i].buf
  BY <1>1, <1>4, <1>7
<1>14. QED  BY <1>1, <1>8, <1>9, <1>11, <1>12, <1>13, CallsStay

--------------------------------------------------------------------------------
(* An execution whose rows stay where they are, or go from one call to the   *)
(* other.                                                                    *)
LEMMA RestKeeps ==
  ASSUME IInv, UNCHANGED fixed, NEW i \in Execs, job'[i] = job[i], rs'[i] = rs[i],
         seen'[i].out = seen[i].out, seen'[i].gone = seen[i].gone,
         seen'[i].ended = seen[i].ended, seen[i].marks \subseteq seen'[i].marks,
         job[i].pc = "done" => Ledger(i)',
         (\A t \in Threads : HeldFrom(t, i) = <<>>) => \A t \in Threads : HeldFrom(t, i)' = <<>>
  PROVE  Produced(i)' /\ EndIsEnd(i)'
<1>1. Produced(i) /\ EndIsEnd(i) /\ class' = class
  BY DEF IInv, fixed
<1>2. Produced(i)'
  BY <1>1 DEF Produced, Generator, HasReader
<1>3. EndIsEnd(i)'
  <2>1. SUFFICES ASSUME Finished(i)'
                 PROVE  rs'[i].chunks = <<>> /\ rs'[i].buf = <<>>
                          /\ \A t \in Threads : HeldFrom(t, i)' = <<>>
    BY DEF EndIsEnd
  <2>2. Finished(i)
    BY <1>1, <2>1 DEF Finished, Generator
  <2>3. QED  BY <1>1, <2>2 DEF EndIsEnd
<1>4. QED  BY <1>2, <1>3

(* An execution the calls have the same rows of. *)
LEMMA SameRows ==
  ASSUME IInv, UNCHANGED fixed, NEW i \in Execs, job'[i] = job[i], rs'[i] = rs[i],
         seen'[i] = seen[i],
         \A t \in Threads : HeldFrom(t, i)' = HeldFrom(t, i) /\ GotFrom(t, i)' = GotFrom(t, i)
  PROVE  Produced(i)' /\ EndIsEnd(i)'
<1>1. Produced(i) /\ query' = query
  BY DEF IInv, fixed
<1>2. Total(i)' = Total(i)
  BY <1>1 DEF Total
<1>3. \A p \in Stores : Store(p, i)' = Store(p, i)
  BY DEF Store, Threads
<1>4. Ledger(i) => Ledger(i)'
  BY <1>2, <1>3, LedgerKept
<1>5. job[i].pc = "done" => Ledger(i)'
  BY <1>1, <1>4 DEF Produced
<1>6. QED  BY <1>5, RestKeeps

(* A call that begins ... *)
Begun(j, want) == [Idle EXCEPT !.pc = "next", !.j = j, !.want = want]

(* ... is a call. *)
LEMMA CallBegins ==
  ASSUME NEW j \in Execs, NEW want \in Sizes
  PROVE  /\ Begun(j, want) \in Calls /\ Begun(j, want).pc = "next" /\ Begun(j, want).j = j
         /\ Begun(j, want).got = <<>> /\ Begun(j, want).held = <<>>
<1>1. <<>> \in Seq(Nat) /\ 0 \in Nat
  OBVIOUS
<1>2. PICK c : c = [Idle EXCEPT !.pc = "next", !.j = j, !.want = want]
  OBVIOUS
<1>3. c = [pc |-> "next", j |-> j, want |-> want, got |-> <<>>, held |-> <<>>, k |-> 0]
  BY <1>2 DEF Idle
<1>4. c \in Calls
  BY <1>1, <1>3 DEF Calls
<1>5. c.pc = "next" /\ c.j = j /\ c.got = <<>> /\ c.held = <<>>
  BY <1>3
<1>6. Begun(j, want) = c
  BY <1>2 DEF Begun
<1>7. QED  BY <1>4, <1>5, <1>6

(* The user asks for rows. *)
LEMMA FetchKeeps ==
  ASSUME IInv, NEW j \in Execs, NEW want \in Sizes, Fetch(j, want)
  PROVE  IInv'
<1>1. /\ job[j].pc = "done" /\ UNCHANGED fixed /\ class' = class /\ job' = job /\ cur' = cur
      /\ rs' = rs /\ seen' = seen /\ SpendCall /\ call["user"].pc = "idle"
  BY ReachableIsDone DEF Fetch, Busy, fixed
<1>2. /\ TypeOK /\ Sequential /\ call \in [Threads -> Calls] /\ CallInOrder("lost")
      /\ call["user"] = Idle
  BY <1>1 DEF IInv, TypeOK, Threads, CallInOrder
<1>3. PICK c \in Calls : /\ c = Begun(j, want)
                         /\ c.pc = "next" /\ c.j = j /\ c.got = <<>> /\ c.held = <<>>
  BY CallBegins
<1>4. call' = [call EXCEPT !["user"] = c]
  BY <1>3 DEF Fetch, Begun
<1>5. call' \in [Threads -> Calls] /\ call'["user"] = c /\ call'["lost"] = call["lost"]
  BY <1>2, <1>4 DEF Threads
<1>6. TypeOK'
  BY <1>1, <1>2, <1>5, CallIsSpent DEF TypeOK, fixed
<1>7. Sequential'
  BY <1>1, <1>2 DEF Sequential
<1>8. ASSUME NEW i \in Execs
      PROVE  \A t \in Threads : HeldFrom(t, i)' = HeldFrom(t, i) /\ GotFrom(t, i)' = GotFrom(t, i)
  <2>1. GotFrom("user", i)' = <<>> /\ HeldFrom("user", i)' = <<>>
    BY <1>3, <1>5 DEF GotFrom, HeldFrom
  <2>2. GotFrom("user", i) = <<>> /\ HeldFrom("user", i) = <<>>
    BY <1>2 DEF GotFrom, HeldFrom, Idle
  <2>3. GotFrom("lost", i)' = GotFrom("lost", i) /\ HeldFrom("lost", i)' = HeldFrom("lost", i)
    BY <1>5 DEF GotFrom, HeldFrom
  <2>4. QED  BY <2>1, <2>2, <2>3 DEF Threads
<1>9. \A i \in Execs : Produced(i)' /\ EndIsEnd(i)'
  BY <1>1, <1>8, SameRows
<1>10. CallInOrder("user")'
  BY <1>1, <1>3, <1>5 DEF CallInOrder
<1>11. CallInOrder("lost")'
  BY <1>1, <1>2, <1>5 DEF CallInOrder, Generator
<1>12. QED  BY <1>6, <1>7, <1>9, <1>10, <1>11 DEF IInv, Threads

--------------------------------------------------------------------------------
(* The rows of two stores become those of two others, which had none.        *)
Handover(h, k) ==
  /\ h["lost got"] = <<>> /\ h["lost held"] = <<>> /\ k["got"] = <<>> /\ k["held"] = <<>>
  /\ k["lost got"] = h["got"] /\ k["lost held"] = h["held"]
  /\ k["buf"] = h["buf"] /\ k["out"] = h["out"]

(* All rows of a store become those of another, which had none. *)
Passed(h, k, p, q) ==
  /\ h[q] = <<>> /\ k[p] = <<>> /\ k[q] = h[p]
  /\ \A x \in Stores : x # p /\ x # q => k[x] = h[x]

(* The ledger after that, if it is marked. *)
LEMMA AllPass ==
  ASSUME NEW n \in Nat, NEW chunks, NEW gone, NEW marks, NEW more, marks \subseteq more, more # {},
         NEW h, Shelves(h), NEW k, Shelves(k), NEW p \in Stores, NEW q \in Stores, p # q,
         Passed(h, k, p, q), Accounted(n, chunks, h, gone, marks)
  PROVE  Accounted(n, chunks, k, gone, more)
<1>1. PICK u \in Seq(Nat) : u = h[p]
  BY DEF Shelves
<1>2. Join(u, <<>>) = u /\ Join(<<>>, u) = u
  BY ConcatEmptySeq DEF Join
<1>3. Moved(h, k, p, q, u)
  BY <1>1, <1>2 DEF Moved, Passed
<1>4. QED  BY <1>3, RowsPass

(* The ledger after two of them. *)
LEMMA HandoverPasses ==
  ASSUME NEW n \in Nat, NEW chunks, NEW gone, NEW marks, NEW more, marks \subseteq more, more # {},
         NEW h, Shelves(h), NEW k, Shelves(k), Handover(h, k),
         Accounted(n, chunks, h, gone, marks)
  PROVE  Accounted(n, chunks, k, gone, more)
<1>1. PICK p \in Stores, q \in Stores, r \in Stores, s \in Stores :
        /\ p = "got" /\ q = "lost got" /\ r = "held" /\ s = "lost held"
        /\ p # q /\ r # s /\ p # r /\ p # s /\ q # r /\ q # s
  BY DEF Stores
<1>2. <<>> \in Seq(Nat)
  OBVIOUS
<1>3. PICK m : m = [x \in Stores |-> IF x = p THEN <<>> ELSE IF x = q THEN h[p] ELSE h[x]]
  OBVIOUS
<1>4. /\ Shelves(m) /\ m[p] = <<>> /\ m[q] = h[p]
      /\ \A x \in Stores : x # p /\ x # q => m[x] = h[x]
  BY <1>1, <1>2, <1>3, Zenon DEF Shelves
<1>5. Passed(h, m, p, q)
  BY <1>1, <1>4, Zenon DEF Handover, Passed
<1>6. Passed(m, k, r, s)
  BY <1>1, <1>4, Zenon DEF Handover, Passed, Stores
<1>7. Shelves(m) /\ more \subseteq more /\ more # {}
  BY <1>4
<1>8. p # q /\ r # s
  BY <1>1, Zenon
<1>9. Accounted(n, chunks, m, gone, more)
  BY <1>5, <1>7, <1>8, AllPass
<1>10. QED  BY <1>6, <1>7, <1>8, <1>9, AllPass

(* The task of the user's call is cancelled: it goes on in the lost thread.  *)
LostCall(j) ==
  /\ IInv /\ TypeOK' /\ UNCHANGED fixed /\ job' = job /\ rs' = rs
  /\ j \in Execs /\ job[j].pc = "done" /\ call["user"].j = j
  /\ call["lost"] = Idle /\ call'["user"] = Idle /\ call'["lost"] = call["user"]
  /\ seen'[j] = [seen[j] EXCEPT !.marks = @ \cup {"abandoned"}]

(* Its rows go with it. *)
LEMMA LostCallKeeps ==
  ASSUME NEW j, LostCall(j)
  PROVE  Produced(j)' /\ EndIsEnd(j)'
<1>1. /\ IInv /\ TypeOK /\ TypeOK' /\ UNCHANGED fixed /\ query' = query /\ job' = job
      /\ j \in Execs /\ Produced(j) /\ job[j].pc = "done" /\ seen[j] \in Histories
      /\ rs'[j] = rs[j] /\ query \in Queries
  BY FileCursorAssumption DEF LostCall, IInv, TypeOK, fixed
<1>2. PICK more : more = seen[j].marks \cup {"abandoned"}
  OBVIOUS
<1>3. /\ seen'[j].marks = more /\ seen'[j].out = seen[j].out
      /\ seen'[j].gone = seen[j].gone /\ seen'[j].ended = seen[j].ended
      /\ seen[j].marks \subseteq more /\ more # {}
  BY <1>1, <1>2, MarkIsMark DEF LostCall
<1>4. /\ GotFrom("user", j)' = <<>> /\ HeldFrom("user", j)' = <<>>
      /\ GotFrom("lost", j) = <<>> /\ HeldFrom("lost", j) = <<>>
      /\ GotFrom("lost", j)' = GotFrom("user", j) /\ HeldFrom("lost", j)' = HeldFrom("user", j)
  BY DEF LostCall, GotFrom, HeldFrom, Idle
<1>5. Ledger(j)'
  <2>1. Total(j)' = Total(j) /\ Total(j) \in Nat
    BY <1>1, RowsAreAll DEF Total
  <2>2. PICK h : h = Stored(j)
    OBVIOUS
  <2>3. PICK k : k = Stored(j)'
    OBVIOUS
  <2>4. Shelves(h) /\ Shelves(k)
    BY <1>1, <2>2, <2>3, StoredIs, StoredAfter, Zenon
  <2>5. Handover(h, k)
    BY <1>1, <1>3, <1>4, <2>2, <2>3, StoredIs, StoredAfter, ZenonT(40) DEF Handover
  <2>6. Accounted(Total(j), rs[j].chunks, h, seen[j].gone, seen[j].marks)
    BY <1>1, <2>2 DEF Produced, Ledger
  <2>7. Accounted(Total(j), rs[j].chunks, k, seen[j].gone, more)
    BY <1>3, <2>1, <2>4, <2>5, <2>6, HandoverPasses
  <2>8. QED  BY <1>1, <1>3, <2>1, <2>3, <2>7 DEF Ledger
<1>6. (\A t \in Threads : HeldFrom(t, j) = <<>>) => \A t \in Threads : HeldFrom(t, j)' = <<>>
  BY <1>4 DEF Threads
<1>7. job'[j] = job[j]
  BY <1>1
<1>8. QED  BY <1>1, <1>3, <1>5, <1>6, <1>7, RestKeeps

(* The task is cancelled in a fetch. *)
LEMMA CancelFetchKeeps ==
  ASSUME IInv, CancelFetch
  PROVE  IInv'
<1>1. PICK j \in Execs : j = call["user"].j /\ job[j].pc = "done"
  BY DEF IInv, CancelFetch, CallInOrder, Threads
<1>2. /\ UNCHANGED fixed /\ class' = class /\ job' = job /\ cur' = cur /\ rs' = rs
      /\ call["user"].pc # "idle" /\ call["lost"] = Idle
      /\ call' = [call EXCEPT !["lost"] = call["user"], !["user"] = Idle]
      /\ seen' = [seen EXCEPT ![j].marks = @ \cup {"abandoned"}]
  BY <1>1 DEF CancelFetch, Mark, fixed
<1>3. /\ TypeOK /\ Sequential /\ call \in [Threads -> Calls] /\ seen \in [Execs -> Histories]
      /\ CallInOrder("user") /\ CallInOrder("lost")
  BY DEF IInv, TypeOK, Threads
<1>4. Idle \in Calls /\ call["user"] \in Calls
  BY <1>2, <1>3 DEF Threads
<1>5. call' \in [Threads -> Calls] /\ call'["user"] = Idle /\ call'["lost"] = call["user"]
  BY <1>2, <1>3, <1>4 DEF Threads
<1>6. PICK s \in Histories : s = [seen[j] EXCEPT !.marks = @ \cup {"abandoned"}]
  BY <1>3, MarkIsMark
<1>7. /\ seen' \in [Execs -> Histories] /\ seen'[j] = s
      /\ \A i \in Execs : i # j => seen'[i] = seen[i]
  BY <1>2, <1>3, <1>6
<1>8. spent' \in [calls : 0..MaxCalls, abandoned : 0..MaxAbandoned]
  <2>1. spent \in [calls : 0..MaxCalls, abandoned : 0..MaxAbandoned]
    BY <1>3 DEF TypeOK
  <2>2. PICK c \in Nat : c = spent.abandoned /\ c < MaxAbandoned
    BY <2>1, FileCursorAssumption DEF CancelFetch
  <2>3. c + 1 \in 0..MaxAbandoned
    BY <2>2, FileCursorAssumption
  <2>4. QED  BY <2>1, <2>2, <2>3 DEF CancelFetch
<1>9. TypeOK'
  BY <1>2, <1>3, <1>5, <1>7, <1>8 DEF TypeOK, fixed
<1>10. Sequential'
  BY <1>2, <1>3 DEF Sequential
<1>11. LostCall(j)
  BY <1>1, <1>2, <1>5, <1>6, <1>7, <1>9 DEF LostCall
<1>12. ASSUME NEW i \in Execs, i # j
       PROVE  Produced(i)' /\ EndIsEnd(i)'
  <2>1. i # 0
    BY DEF Execs
  <2>2. call["user"].j # i /\ call["lost"].j # i /\ call'["user"].j # i /\ call'["lost"].j # i
    BY <1>1, <1>2, <1>5, <1>12, <2>1 DEF Idle
  <2>3. \A t \in Threads : HeldFrom(t, i)' = HeldFrom(t, i) /\ GotFrom(t, i)' = GotFrom(t, i)
    BY <2>2 DEF HeldFrom, GotFrom, Threads
  <2>4. seen'[i] = seen[i] /\ job'[i] = job[i] /\ rs'[i] = rs[i]
    BY <1>2, <1>7, <1>12
  <2>5. QED  BY <1>2, <2>3, <2>4, SameRows
<1>13. \A i \in Execs : Produced(i)' /\ EndIsEnd(i)'
  BY <1>11, <1>12, LostCallKeeps
<1>14. CallInOrder("user")'
  BY <1>5 DEF CallInOrder, Idle
<1>15. CallInOrder("lost")'
  <2>1. "abandoned" \in seen'[j].marks
    BY <1>3, <1>6, <1>7, MarkIsMark
  <2>2. QED  BY <1>1, <1>2, <1>3, <1>5, <2>1 DEF CallInOrder, Generator
<1>16. QED  BY <1>9, <1>10, <1>13, <1>14, <1>15 DEF IInv, Threads

--------------------------------------------------------------------------------
(* Whole chunks of an execution's result are asked for, or left.             *)
Serving(j) ==
  /\ Beside(j) /\ Generator /\ Sequential' /\ job' = job
  /\ \A i \in Execs : i # j => rs'[i] = rs[i] /\ seen'[i] = seen[i]

(* What such a step is, by what becomes of the execution.                    *)
LEMMA ServingIs ==
  ASSUME IInv, NEW j \in Execs, ChunksFree(j), UNCHANGED <<fixed, job, cur, call>>,
         spent' \in [calls : 0..MaxCalls, abandoned : 0..MaxAbandoned],
         NEW r \in ResultSets, rs' = [rs EXCEPT ![j] = r], r.streams \subseteq rs[j].streams,
         NEW s \in Histories, seen' = [seen EXCEPT ![j] = s]
  PROVE  Serving(j) /\ rs'[j] = r /\ seen'[j] = s
<1>1. /\ TypeOK /\ Sequential /\ rs \in [Execs -> ResultSets] /\ seen \in [Execs -> Histories]
      /\ job[j].pc = "done" /\ Generator /\ class' = class /\ UNCHANGED fixed
  BY ReachableIsDone DEF IInv, TypeOK, ChunksFree, fixed
<1>2. rs' \in [Execs -> ResultSets] /\ rs'[j] = r /\ \A i \in Execs : i # j => rs'[i] = rs[i]
  BY <1>1
<1>3. seen' \in [Execs -> Histories] /\ seen'[j] = s
        /\ \A i \in Execs : i # j => seen'[i] = seen[i]
  BY <1>1
<1>4. TypeOK'
  BY <1>1, <1>2, <1>3 DEF TypeOK, fixed
<1>5. Sequential'
  <2>1. \A i \in Execs : rs'[i].streams \subseteq rs[i].streams
    BY <1>2
  <2>2. QED  BY <1>1, <2>1 DEF Sequential
<1>6. QED  BY <1>1, <1>2, <1>3, <1>4, <1>5 DEF Serving, Beside

(* It keeps the invariant, if every row still has its place. *)
LEMMA ServingKeeps ==
  ASSUME NEW j, Serving(j),
         seen[j].marks \subseteq seen'[j].marks, seen'[j].ended = seen[j].ended,
         rs'[j].streams \subseteq rs[j].streams, rs'[j].closed = rs[j].closed,
         rs'[j].buf = rs[j].buf,
         \/ rs'[j].chunks = rs[j].chunks \/ rs'[j].chunks = <<>>
         \/ rs[j].chunks # <<>> /\ rs'[j].chunks = Tail(rs[j].chunks),
         Ledger(j)'
  PROVE  IInv'
<1>1. /\ IInv /\ TypeOK' /\ Sequential' /\ call' = call /\ UNCHANGED fixed /\ job' = job
      /\ j \in Execs /\ job[j].pc = "done" /\ Generator /\ Beside(j)
      /\ \A i \in Execs : i # j => rs'[i] = rs[i] /\ seen'[i] = seen[i]
  BY DEF Serving, Beside
<1>2. Produced(j)
  BY <1>1 DEF IInv
<1>3. rs'[j].closed => rs'[j].streams = {} /\ "closed" \in seen'[j].marks
  BY <1>2 DEF Produced
<1>4. Produced(j)' /\ EndIsEnd(j)'
  BY <1>1, <1>3, ReadOutKeeps
<1>5. ASSUME NEW i \in Execs, i # j
      PROVE  Produced(i)' /\ EndIsEnd(i)'
  BY <1>1, <1>5, SameExecution
<1>6. \A i \in Execs : Produced(i)' /\ EndIsEnd(i)'
  BY <1>4, <1>5
<1>7. \A i \in Execs : seen[i].marks \subseteq seen'[i].marks
  BY <1>1
<1>8. \A i \in Execs : job[i].pc = "done" =>
         /\ job'[i].pc = "done" /\ job'[i].ok = job[i].ok
         /\ \/ Generator \/ seen'[i].marks \cap Spoilt # {}
            \/ rs'[i].chunks = rs[i].chunks /\ rs'[i].buf = rs[i].buf
  BY <1>1
<1>9. QED  BY <1>1, <1>6, <1>7, <1>8, CallsStay

(* What is where before and after it. *)
LEMMA StoresServed ==
  ASSUME NEW j, Serving(j), rs'[j].buf = rs[j].buf
  PROVE  /\ Shelves(Stored(j)) /\ Shelves(Stored(j)')
         /\ Stored(j)["out"] = seen[j].out /\ Stored(j)'["out"] = seen'[j].out
         /\ \A x \in Stores : x # "out" => Stored(j)'[x] = Stored(j)[x]
         /\ Total(j) \in Nat /\ rs[j].chunks \in Seq(Seq(Nat))
         /\ Accounted(Total(j), rs[j].chunks, Stored(j), seen[j].gone, seen[j].marks)
         /\ Accounted(Total(j), rs'[j].chunks, Stored(j)', seen'[j].gone, seen'[j].marks)
              => Ledger(j)'
<1>1. /\ IInv /\ TypeOK' /\ call' = call /\ j \in Execs /\ Beside(j)
  BY DEF Serving, Beside
<1>2. /\ Shelves(Stored(j)) /\ Shelves(Stored(j)')
      /\ Stored(j)["out"] = seen[j].out /\ Stored(j)'["out"] = seen'[j].out
      /\ \A x \in Stores : x # "out" => Stored(j)'[x] = Stored(j)[x]
  BY <1>1, StoresStay
<1>3. /\ Total(j) \in Nat /\ rs[j].chunks \in Seq(Seq(Nat))
      /\ Accounted(Total(j), rs[j].chunks, Stored(j), seen[j].gone, seen[j].marks)
      /\ Accounted(Total(j), rs'[j].chunks, Stored(j)', seen'[j].gone, seen'[j].marks)
           => Ledger(j)'
  BY <1>1, LedgerOfRest
<1>4. QED  BY <1>2, <1>3

(* The user is given the next chunk. *)
LEMMA ChunkIsServed ==
  ASSUME NEW j, Serving(j), rs'[j].buf = rs[j].buf, rs[j].chunks # <<>>,
         rs'[j].chunks = Tail(rs[j].chunks), seen'[j].out = seen[j].out \o Head(rs[j].chunks),
         seen'[j].gone = seen[j].gone, seen[j].marks \subseteq seen'[j].marks, seen'[j].marks # {}
  PROVE  Ledger(j)'
<1>1. PICK q \in Stores : q = "out"
  BY DEF Stores
<1>2. Added(Stored(j), Stored(j)', q, Head(rs[j].chunks))
  BY <1>1, StoresServed DEF Added, Join
<1>3. PICK more : more = seen'[j].marks
  OBVIOUS
<1>4. PICK k : k = Stored(j)'
  OBVIOUS
<1>5. /\ Total(j) \in Nat /\ rs[j].chunks \in Seq(Seq(Nat)) /\ rs[j].chunks # <<>>
      /\ seen[j].marks \subseteq more /\ more # {} /\ Shelves(Stored(j)) /\ Shelves(k)
      /\ Added(Stored(j), k, q, Head(rs[j].chunks))
      /\ Accounted(Total(j), rs[j].chunks, Stored(j), seen[j].gone, seen[j].marks)
  BY <1>2, <1>3, <1>4, StoresServed
<1>6. Accounted(Total(j), Tail(rs[j].chunks), k, seen[j].gone, more)
  BY <1>5, HeadMoves
<1>7. QED  BY <1>3, <1>4, <1>6, StoresServed

(* The user is given all chunks that are left. *)
LEMMA AllAreServed ==
  ASSUME NEW j, Serving(j), rs'[j].buf = rs[j].buf, rs'[j].chunks = <<>>,
         seen'[j].out = seen[j].out \o FlattenSeq(rs[j].chunks),
         seen'[j].gone = seen[j].gone, seen[j].marks \subseteq seen'[j].marks, seen'[j].marks # {}
  PROVE  Ledger(j)'
<1>1. PICK q \in Stores : q = "out"
  BY DEF Stores
<1>2. Added(Stored(j), Stored(j)', q, FlattenSeq(rs[j].chunks))
  BY <1>1, StoresServed DEF Added, Join
<1>3. PICK more : more = seen'[j].marks
  OBVIOUS
<1>4. PICK k : k = Stored(j)'
  OBVIOUS
<1>5. /\ Total(j) \in Nat /\ rs[j].chunks \in Seq(Seq(Nat))
      /\ seen[j].marks \subseteq more /\ more # {} /\ Shelves(Stored(j)) /\ Shelves(k)
      /\ Added(Stored(j), k, q, FlattenSeq(rs[j].chunks))
      /\ Accounted(Total(j), rs[j].chunks, Stored(j), seen[j].gone, seen[j].marks)
  BY <1>2, <1>3, <1>4, StoresServed
<1>6. Accounted(Total(j), <<>>, k, seen[j].gone, more)
  BY <1>5, AllMove
<1>7. QED  BY <1>3, <1>4, <1>6, StoresServed

(* The chunks that are left are lost, or none is. *)
LEMMA RestIsLost ==
  ASSUME NEW j, Serving(j), rs'[j].buf = rs[j].buf,
         \/ rs'[j].chunks = rs[j].chunks
         \/ rs'[j].chunks = <<>> /\ seen'[j].marks \cap Lossy # {},
         seen'[j].out = seen[j].out,
         seen'[j].gone = seen[j].gone, seen[j].marks \subseteq seen'[j].marks
  PROVE  Ledger(j)'
<1>1. PICK more : more = seen'[j].marks
  OBVIOUS
<1>2. PICK k : k = Stored(j)'
  OBVIOUS
<1>3. /\ Total(j) \in Nat /\ rs[j].chunks \in Seq(Seq(Nat))
      /\ seen[j].marks \subseteq more /\ Shelves(Stored(j)) /\ Shelves(k)
      /\ \A x \in Stores : k[x] = Stored(j)[x]
      /\ Accounted(Total(j), rs[j].chunks, Stored(j), seen[j].gone, seen[j].marks)
  BY <1>1, <1>2, StoresServed
<1>4. CASE rs'[j].chunks = rs[j].chunks
  <2>1. Accounted(Total(j), rs[j].chunks, k, seen[j].gone, more)
    BY <1>3, MoreMarks
  <2>2. QED  BY <1>1, <1>2, <1>4, <2>1, StoresServed
<1>5. CASE rs'[j].chunks = <<>> /\ more \cap Lossy # {}
  <2>1. Accounted(Total(j), <<>>, k, seen[j].gone, more)
    BY <1>3, <1>5, AllLost
  <2>2. QED  BY <1>1, <1>2, <1>5, <2>1, StoresServed
<1>6. QED  BY <1>1, <1>4, <1>5

--------------------------------------------------------------------------------
(* The rows of the chunks that are left, and of the first of them. *)
LEMMA RowsOfChunks ==
  ASSUME IInv, NEW j \in Execs, job[j].pc = "done"
  PROVE  /\ rs[j].chunks # <<>> => Head(rs[j].chunks) \in Seq(Nat)
                                   /\ Tail(rs[j].chunks) \in Seq(Seq(Nat))
         /\ FlattenSeq(rs[j].chunks) \in Seq(Nat)
<1>1. /\ rs[j] \in ResultSets /\ Ledger(j) /\ query \in Queries
  BY FileCursorAssumption DEF IInv, TypeOK, Produced
<1>2. Total(j) \in Nat /\ rs[j].chunks \in Seq(Seq(Nat))
  BY <1>1, RowsAreAll DEF Total, ResultSets
<1>3. PICK e \in [0..Len(rs[j].chunks) -> 0..Total(j)] : Cut(rs[j].chunks, e, Total(j))
  BY <1>1 DEF Ledger, Accounted, AccountedBy
<1>4. PICK L \in Nat : L = Len(rs[j].chunks)
  BY <1>2, LenProperties
<1>5. e \in [0..L -> 0..Total(j)]
  BY <1>3, <1>4
<1>6. FlattenSeq(rs[j].chunks) = Stretch(e[0], Total(j))
  BY <1>2, <1>3, <1>4, <1>5, FlattenCut
<1>7. e[0] \in Nat /\ e[0] <= Total(j)
  BY <1>2, <1>4, <1>5
<1>8. FlattenSeq(rs[j].chunks) \in Seq(Nat)
  BY <1>2, <1>6, <1>7, StretchIsRun
<1>9. rs[j].chunks # <<>> => Head(rs[j].chunks) \in Seq(Nat) /\ Tail(rs[j].chunks) \in Seq(Seq(Nat))
  BY <1>2, HeadTailProperties
<1>10. QED  BY <1>8, <1>9

(* The chunks that are left are given up, with their streams. *)
Leaving(j, what) ==
  /\ rs' = [rs EXCEPT ![j].chunks = <<>>, ![j].streams = {}]
  /\ seen' = [seen EXCEPT ![j].marks = @ \cup what]

(* Such a step keeps the invariant. *)
LEMMA ChunksAreLeft ==
  ASSUME IInv, NEW j \in Execs, ChunksFree(j), UNCHANGED <<fixed, job, cur, call>>,
         spent' \in [calls : 0..MaxCalls, abandoned : 0..MaxAbandoned],
         NEW what, what \subseteq Lossy, what # {}, Leaving(j, what)
  PROVE  IInv'
<1>1. /\ rs \in [Execs -> ResultSets] /\ seen \in [Execs -> Histories]
      /\ rs[j] \in ResultSets /\ seen[j] \in Histories
  BY DEF IInv, TypeOK
<1>2. PICK r : r = [rs[j] EXCEPT !.chunks = <<>>, !.streams = {}]
  OBVIOUS
<1>3. /\ r \in ResultSets /\ r.streams = {} /\ r.closed = rs[j].closed
      /\ r.buf = rs[j].buf /\ r.chunks = <<>>
  <2>1. <<>> \in Seq(Seq(Nat))
    OBVIOUS
  <2>2. QED  BY <1>1, <1>2, <2>1 DEF ResultSets
<1>4. PICK s : s = [seen[j] EXCEPT !.marks = @ \cup what]
  OBVIOUS
<1>5. /\ s \in Histories /\ s.out = seen[j].out /\ s.marks = seen[j].marks \cup what
      /\ s.gone = seen[j].gone /\ s.ended = seen[j].ended
  BY <1>1, <1>4, MarkIsMark
<1>6. rs' = [rs EXCEPT ![j] = r] /\ seen' = [seen EXCEPT ![j] = s]
  BY <1>1, <1>2, <1>4 DEF Leaving
<1>7. Serving(j) /\ rs'[j] = r /\ seen'[j] = s
  BY <1>3, <1>5, <1>6, ServingIs
<1>8. /\ rs'[j].buf = rs[j].buf /\ rs'[j].chunks = <<>> /\ seen'[j].marks \cap Lossy # {}
      /\ seen'[j].out = seen[j].out /\ seen'[j].gone = seen[j].gone
      /\ seen[j].marks \subseteq seen'[j].marks /\ seen'[j].ended = seen[j].ended
      /\ rs'[j].streams \subseteq rs[j].streams /\ rs'[j].closed = rs[j].closed
  BY <1>3, <1>5, <1>7
<1>9. Ledger(j)'
  BY <1>7, <1>8, RestIsLost
<1>10. QED  BY <1>7, <1>8, <1>9, ServingKeeps

(* iter_chunks(), or as_pandas() with a chunk size. *)
LEMMA NextChunkKeeps ==
  ASSUME IInv, NEW j \in Execs, NextChunk(j)
  PROVE  IInv'
<1>1. /\ ChunksFree(j) /\ UNCHANGED <<fixed, job, cur, call>> /\ job[j].pc = "done"
      /\ spent' \in [calls : 0..MaxCalls, abandoned : 0..MaxAbandoned]
  BY ReachableIsDone, CallIsSpent DEF NextChunk, ChunksFree, IInv, fixed
<1>2. /\ rs \in [Execs -> ResultSets] /\ seen \in [Execs -> Histories]
      /\ rs[j] \in ResultSets /\ seen[j] \in Histories
  BY DEF IInv, TypeOK
<1>3. CASE rs[j].chunks = <<>>
  <2>1. PICK r : r = [rs[j] EXCEPT !.streams = {}]
    OBVIOUS
  <2>2. /\ r \in ResultSets /\ r.streams = {} /\ r.closed = rs[j].closed
        /\ r.buf = rs[j].buf /\ r.chunks = rs[j].chunks
    BY <1>2, <2>1 DEF ResultSets
  <2>3. rs' = [rs EXCEPT ![j] = r] /\ seen' = [seen EXCEPT ![j] = seen[j]]
    BY <1>2, <1>3, <2>1 DEF NextChunk, StreamsAfterEnd
  <2>4. Serving(j) /\ rs'[j] = r /\ seen'[j] = seen[j]
    BY <1>1, <1>2, <2>2, <2>3, ServingIs
  <2>5. Ledger(j)'
    BY <2>2, <2>4, RestIsLost
  <2>6. QED  BY <2>2, <2>4, <2>5, ServingKeeps
<1>4. CASE /\ rs[j].chunks # <<>>
           /\ rs' = [rs EXCEPT ![j].chunks = Tail(@)]
           /\ seen' = [seen EXCEPT ![j].out = @ \o Head(rs[j].chunks),
                                   ![j].marks = @ \cup {"iterated"}]
  <2>1. PICK c \in Seq(Nat), rest \in Seq(Seq(Nat)) :
          c = Head(rs[j].chunks) /\ rest = Tail(rs[j].chunks)
    BY <1>1, <1>4, RowsOfChunks
  <2>2. PICK o \in Seq(Nat) : o = seen[j].out \o c
    BY <1>2, ConcatProperties DEF Histories
  <2>3. PICK r : r = [rs[j] EXCEPT !.chunks = rest]
    OBVIOUS
  <2>4. /\ r \in ResultSets /\ r.streams = rs[j].streams /\ r.closed = rs[j].closed
        /\ r.buf = rs[j].buf /\ r.chunks = rest
    BY <1>2, <2>3 DEF ResultSets
  <2>5. PICK s : s = [seen[j] EXCEPT !.out = o, !.marks = @ \cup {"iterated"}]
    OBVIOUS
  <2>6. /\ s \in Histories /\ s.out = o /\ s.marks = seen[j].marks \cup {"iterated"}
        /\ s.gone = seen[j].gone /\ s.ended = seen[j].ended
    BY <1>2, <2>5 DEF Histories
  <2>7. rs' = [rs EXCEPT ![j] = r] /\ seen' = [seen EXCEPT ![j] = s]
    BY <1>2, <1>4, <2>1, <2>2, <2>3, <2>5
  <2>8. Serving(j) /\ rs'[j] = r /\ seen'[j] = s
    BY <1>1, <2>4, <2>6, <2>7, ServingIs, Zenon
  <2>9. Ledger(j)'
    <3>1. /\ rs'[j].buf = rs[j].buf /\ rs'[j].chunks = Tail(rs[j].chunks)
          /\ seen'[j].out = seen[j].out \o Head(rs[j].chunks)
          /\ seen'[j].gone = seen[j].gone /\ seen[j].marks \subseteq seen'[j].marks
          /\ seen'[j].marks # {}
      BY <2>1, <2>2, <2>4, <2>6, <2>8
    <3>2. QED  BY <1>4, <2>8, <3>1, ChunkIsServed, Zenon
  <2>10. /\ seen[j].marks \subseteq seen'[j].marks /\ seen'[j].ended = seen[j].ended
         /\ rs'[j].streams \subseteq rs[j].streams /\ rs'[j].closed = rs[j].closed
         /\ rs'[j].buf = rs[j].buf
         /\ rs[j].chunks # <<>> /\ rs'[j].chunks = Tail(rs[j].chunks)
    BY <1>4, <2>1, <2>4, <2>6, <2>8
  <2>11. QED  BY <2>8, <2>9, <2>10, ServingKeeps
<1>5. CASE Leaving(j, {"failed"})
  <2>1. PICK what : what = {"failed"} /\ what \subseteq Lossy /\ what # {}
    BY DEF Lossy
  <2>2. Leaving(j, what)
    BY <1>5, <2>1
  <2>3. QED  BY <1>1, <2>1, <2>2, ChunksAreLeft
<1>6. QED  BY <1>3, <1>4, <1>5 DEF NextChunk, Leaving, Mark

(* Leaving the loop over iter_chunks(). *)
LEMMA LeaveChunksKeeps ==
  ASSUME IInv, NEW j \in Execs, LeaveChunks(j)
  PROVE  IInv'
<1>1. /\ ChunksFree(j) /\ UNCHANGED <<fixed, job, cur, call>> /\ job[j].pc = "done"
      /\ spent' \in [calls : 0..MaxCalls, abandoned : 0..MaxAbandoned]
  BY ReachableIsDone DEF LeaveChunks, ChunksFree, IInv, TypeOK, fixed
<1>2. PICK what : what = {"left"} /\ what \subseteq Lossy /\ what # {}
  BY DEF Lossy
<1>3. Leaving(j, what)
  BY <1>2 DEF LeaveChunks, Mark, Leaving
<1>4. QED  BY <1>1, <1>2, <1>3, ChunksAreLeft

(* as_pandas() without a chunk size. *)
LEMMA AsPandasKeeps ==
  ASSUME IInv, NEW j \in Execs, AsPandas(j)
  PROVE  IInv'
<1>1. /\ ChunksFree(j) /\ UNCHANGED <<fixed, job, cur, call>> /\ job[j].pc = "done"
      /\ spent' \in [calls : 0..MaxCalls, abandoned : 0..MaxAbandoned]
      /\ rs[j].chunks # <<>>
  BY ReachableIsDone, CallIsSpent DEF AsPandas, ChunksFree, IInv, fixed
<1>2. /\ rs \in [Execs -> ResultSets] /\ seen \in [Execs -> Histories]
      /\ rs[j] \in ResultSets /\ seen[j] \in Histories
  BY DEF IInv, TypeOK
<1>3. PICK c \in Seq(Nat), rest \in Seq(Seq(Nat)) :
        c = Head(rs[j].chunks) /\ rest = Tail(rs[j].chunks)
  BY <1>1, RowsOfChunks
<1>4. PICK o \in Seq(Nat) : o = seen[j].out \o c
  BY <1>2, ConcatProperties DEF Histories
<1>5. PICK f \in Seq(Nat) \cup {NULL} :
        f = IF seen[j].out = <<>> /\ seen[j].marks = {} THEN c ELSE seen[j].frame
  BY <1>2 DEF Histories
<1>6. PICK r : r = [rs[j] EXCEPT !.chunks = rest]
  OBVIOUS
<1>7. /\ r \in ResultSets /\ r.streams = rs[j].streams /\ r.closed = rs[j].closed
      /\ r.buf = rs[j].buf /\ r.chunks = rest
  BY <1>2, <1>6 DEF ResultSets
<1>8. PICK s : s = [seen[j] EXCEPT !.out = o, !.marks = @ \cup {"framed"}, !.frame = f]
  OBVIOUS
<1>9. /\ s \in Histories /\ s.out = o /\ s.marks = seen[j].marks \cup {"framed"}
      /\ s.gone = seen[j].gone /\ s.ended = seen[j].ended
  BY <1>2, <1>8 DEF Histories
<1>10. rs' = [rs EXCEPT ![j] = r]
  BY <1>2, <1>3, <1>6 DEF AsPandas
<1>11. seen' = [seen EXCEPT ![j] = s]
  BY <1>2, <1>3, <1>4, <1>5, <1>8 DEF AsPandas
<1>12. Serving(j) /\ rs'[j] = r /\ seen'[j] = s
  BY <1>1, <1>7, <1>9, <1>10, <1>11, ServingIs
<1>13. Ledger(j)'
  <2>1. /\ rs'[j].buf = rs[j].buf /\ rs'[j].chunks = Tail(rs[j].chunks)
        /\ seen'[j].out = seen[j].out \o Head(rs[j].chunks)
        /\ seen'[j].gone = seen[j].gone /\ seen[j].marks \subseteq seen'[j].marks
        /\ seen'[j].marks # {}
    BY <1>3, <1>4, <1>7, <1>9, <1>12
  <2>2. QED  BY <1>1, <1>12, <2>1, ChunkIsServed
<1>14. /\ seen[j].marks \subseteq seen'[j].marks /\ seen'[j].ended = seen[j].ended
       /\ rs'[j].streams \subseteq rs[j].streams /\ rs'[j].closed = rs[j].closed
       /\ rs'[j].buf = rs[j].buf
       /\ rs[j].chunks # <<>> /\ rs'[j].chunks = Tail(rs[j].chunks)
  BY <1>1, <1>3, <1>7, <1>9, <1>12
<1>15. QED  BY <1>12, <1>13, <1>14, ServingKeeps

(* as_polars(): a frame of all there is, or it cannot be read. *)
LEMMA AsPolarsKeeps ==
  ASSUME IInv, NEW j \in Execs, AsPolars(j)
  PROVE  IInv'
<1>1. /\ ChunksFree(j) /\ UNCHANGED <<fixed, job, cur, call>> /\ job[j].pc = "done"
      /\ spent' \in [calls : 0..MaxCalls, abandoned : 0..MaxAbandoned]
  BY ReachableIsDone, CallIsSpent DEF AsPolars, ChunksFree, IInv, fixed
<1>2. /\ rs \in [Execs -> ResultSets] /\ seen \in [Execs -> Histories]
      /\ rs[j] \in ResultSets /\ seen[j] \in Histories
  BY DEF IInv, TypeOK
<1>3. PICK r : r = [rs[j] EXCEPT !.chunks = <<>>]
  OBVIOUS
<1>4. /\ r \in ResultSets /\ r.streams = rs[j].streams /\ r.closed = rs[j].closed
      /\ r.buf = rs[j].buf /\ r.chunks = <<>>
  <2>1. <<>> \in Seq(Seq(Nat))
    OBVIOUS
  <2>2. QED  BY <1>2, <1>3, <2>1 DEF ResultSets
<1>5. rs' = [rs EXCEPT ![j] = r]
  BY <1>2, <1>3 DEF AsPolars
<1>6. CASE Mark(j, {"failed"})
  <2>1. PICK s : s = [seen[j] EXCEPT !.marks = @ \cup {"failed"}]
    OBVIOUS
  <2>2. /\ s \in Histories /\ s.out = seen[j].out /\ s.marks = seen[j].marks \cup {"failed"}
        /\ s.gone = seen[j].gone /\ s.ended = seen[j].ended
    BY <1>2, <2>1 DEF Histories, Lossy
  <2>3. seen' = [seen EXCEPT ![j] = s]
    BY <1>2, <1>6, <2>1 DEF Mark
  <2>4. Serving(j) /\ rs'[j] = r /\ seen'[j] = s
    BY <1>1, <1>4, <1>5, <2>2, <2>3, ServingIs
  <2>5. /\ rs'[j].buf = rs[j].buf /\ rs'[j].chunks = <<>> /\ seen'[j].marks \cap Lossy # {}
        /\ seen'[j].out = seen[j].out /\ seen'[j].gone = seen[j].gone
        /\ seen[j].marks \subseteq seen'[j].marks /\ seen'[j].ended = seen[j].ended
        /\ rs'[j].streams \subseteq rs[j].streams /\ rs'[j].closed = rs[j].closed
    BY <1>4, <2>2, <2>4 DEF Lossy
  <2>6. Ledger(j)'
    BY <2>4, <2>5, RestIsLost
  <2>7. QED  BY <2>4, <2>5, <2>6, ServingKeeps
<1>7. CASE seen' = [seen EXCEPT ![j].out = @ \o FlattenSeq(rs[j].chunks),
                                ![j].marks = @ \cup {"framed"},
                                ![j].frame = IF seen[j].out = <<>> /\ seen[j].marks = {}
                                             THEN FlattenSeq(rs[j].chunks) ELSE @]
  <2>1. PICK c \in Seq(Nat) : c = FlattenSeq(rs[j].chunks)
    BY <1>1, RowsOfChunks
  <2>2. PICK o \in Seq(Nat) : o = seen[j].out \o c
    BY <1>2, ConcatProperties DEF Histories
  <2>3. PICK f \in Seq(Nat) \cup {NULL} :
          f = IF seen[j].out = <<>> /\ seen[j].marks = {} THEN c ELSE seen[j].frame
    BY <1>2 DEF Histories
  <2>4. PICK s : s = [seen[j] EXCEPT !.out = o, !.marks = @ \cup {"framed"}, !.frame = f]
    OBVIOUS
  <2>5. /\ s \in Histories /\ s.out = o /\ s.marks = seen[j].marks \cup {"framed"}
        /\ s.gone = seen[j].gone /\ s.ended = seen[j].ended
    BY <1>2, <2>4 DEF Histories
  <2>6. seen' = [seen EXCEPT ![j] = s]
    BY <1>2, <1>7, <2>1, <2>2, <2>3, <2>4
  <2>7. Serving(j) /\ rs'[j] = r /\ seen'[j] = s
    BY <1>1, <1>4, <1>5, <2>5, <2>6, ServingIs
  <2>8. /\ rs'[j].buf = rs[j].buf /\ rs'[j].chunks = <<>>
        /\ seen'[j].out = seen[j].out \o FlattenSeq(rs[j].chunks)
        /\ seen'[j].gone = seen[j].gone /\ seen[j].marks \subseteq seen'[j].marks
        /\ seen'[j].marks # {} /\ seen'[j].ended = seen[j].ended
        /\ rs'[j].streams \subseteq rs[j].streams /\ rs'[j].closed = rs[j].closed
    BY <1>4, <2>1, <2>2, <2>5, <2>7
  <2>9. Ledger(j)'
    BY <2>7, <2>8, AllAreServed
  <2>10. QED  BY <2>7, <2>8, <2>9, ServingKeeps
<1>8. QED  BY <1>6, <1>7 DEF AsPolars

--------------------------------------------------------------------------------
(* What the constructor keeps of the options are options. *)
LEMMA KeptAreOptions ==
  ASSUME NEW c \in FileCursorClasses, NEW o \in OptionSets
  PROVE  Kept(c, o) \in OptionSets
<1>1. c.unloads = TRUE \/ c.unloads = FALSE
  <2>1. CASE c \in {PandasCursor, ArrowCursor, PolarsCursor, S3FSCursor}
    BY <2>1 DEF PandasCursor, ArrowCursor, PolarsCursor, S3FSCursor
  <2>2. CASE c \in {AsyncPandasCursor, AsyncArrowCursor, AsyncPolarsCursor, AsyncS3FSCursor}
    BY <2>2 DEF AsyncPandasCursor, AsyncArrowCursor, AsyncPolarsCursor, AsyncS3FSCursor
  <2>3. CASE c \in {AioPandasCursor, AioArrowCursor, AioPolarsCursor, AioS3FSCursor}
    BY <2>3 DEF AioPandasCursor, AioArrowCursor, AioPolarsCursor, AioS3FSCursor
  <2>4. QED  BY <2>1, <2>2, <2>3 DEF FileCursorClasses
<1>2. PICK u \in BOOLEAN, a \in BOOLEAN, k \in ChunksizeOptions :
        /\ u = (o.unload /\ c.unloads) /\ a = (o.auto /\ "auto" \in c.keeps)
        /\ k = IF "chunksize" \in c.keeps THEN o.chunksize ELSE NULL
  BY <1>1 DEF OptionSets, ChunksizeOptions
<1>3. Kept(c, o) = [o EXCEPT !.unload = u, !.chunksize = k, !.auto = a]
  BY <1>2 DEF Kept, OptionSets
<1>4. QED  BY <1>3 DEF OptionSets

(* The start. *)
LEMMA InitHolds ==
  ASSUME Init
  PROVE  IInv
<1>1. <<>> \in Seq(Nat) /\ <<>> \in Seq(Seq(Nat)) /\ 0 \in Nat
  OBVIOUS
<1>2. NoResultSet \in ResultSets /\ Idle \in Calls
  BY <1>1 DEF NoResultSet, ResultSets, ChunksizeOptions, Idle, Calls
<1>3. rs \in [Execs -> ResultSets] /\ call \in [Threads -> Calls]
  BY <1>2 DEF Init, Threads
<1>4. job \in [Execs -> Jobs] /\ \A j \in Execs : job[j].pc = "new" /\ ~job[j].ok
  BY DEF Init, Jobs, ChunksizeOptions
<1>5. /\ seen \in [Execs -> Histories]
      /\ \A j \in Execs : seen[j].out = <<>> /\ seen[j].gone = {} /\ ~seen[j].ended
  <2>1. PICK s : s = [out |-> <<>>, gone |-> {}, ended |-> FALSE, frame |-> NULL, marks |-> {}]
    OBVIOUS
  <2>2. s \in Histories /\ s.out = <<>> /\ s.gone = {} /\ ~s.ended
    BY <1>1, <2>1 DEF Histories
  <2>3. seen = [j \in Execs |-> s]
    BY <2>1 DEF Init
  <2>4. QED  BY <2>2, <2>3
<1>6. opts \in OptionSets
  BY KeptAreOptions, FileCursorAssumption DEF Init
<1>7. spent \in [calls : 0..MaxCalls, abandoned : 0..MaxAbandoned]
  BY FileCursorAssumption DEF Init
<1>8. TypeOK
  BY <1>3, <1>4, <1>5, <1>6, <1>7 DEF Init, TypeOK
<1>9. Sequential
  BY <1>4 DEF Init, Sequential
<1>10. ASSUME NEW j \in Execs
       PROVE  Produced(j) /\ EndIsEnd(j)
  <2>1. rs[j] = NoResultSet
    BY DEF Init
  <2>2. Produced(j)
    BY <1>4, <1>5, <2>1 DEF Produced, NoResultSet
  <2>3. EndIsEnd(j)
    BY <1>5 DEF EndIsEnd, Finished
  <2>4. QED  BY <2>2, <2>3
<1>11. ASSUME NEW t \in Threads
       PROVE  CallInOrder(t)
  <2>1. call[t] = Idle
    BY DEF Init, Threads
  <2>2. QED  BY <2>1 DEF CallInOrder, Idle
<1>12. QED  BY <1>8, <1>9, <1>10, <1>11 DEF IInv

(* A step that changes nothing. *)
LEMMA StutterKeeps ==
  ASSUME IInv, UNCHANGED vars
  PROVE  IInv'
<1>1. /\ TypeOK /\ Sequential /\ TypeOK' /\ call' = call /\ UNCHANGED fixed
      /\ rs' = rs /\ seen' = seen /\ job' = job /\ cur' = cur /\ class' = class
  BY DEF IInv, TypeOK, vars, fixed
<1>2. Sequential'
  BY <1>1 DEF Sequential
<1>3. \A i \in Execs : Produced(i)' /\ EndIsEnd(i)'
  BY <1>1, SameExecution
<1>4. QED  BY <1>1, <1>2, <1>3, CallsStay

(* Every step keeps the invariant. *)
LEMMA NextKeeps ==
  ASSUME IInv, [Next]_vars
  PROVE  IInv'
<1>1. CASE UNCHANGED vars
  BY <1>1, StutterKeeps
<1>2. CASE CancelFetch
  BY <1>2, CancelFetchKeeps
<1>3. ASSUME NEW t \in {"user", "lost"}, ThreadStep(t)
      PROVE  IInv'
  BY <1>3, ThreadStepKeeps DEF Threads
<1>4. ASSUME NEW j \in Execs, \E kw \in KwChunksizes : Execute(j, kw)
      PROVE  IInv'
  BY <1>4, ExecuteKeeps
<1>5. ASSUME NEW j \in Execs, \E ok \in BOOLEAN : QueryEnds(j, ok)
      PROVE  IInv'
  BY <1>5, QueryEndsKeeps
<1>6. ASSUME NEW j \in Execs, Build(j) \/ BuildFails(j) \/ CancelExecute(j) \/ CloseResultSet(j)
      PROVE  IInv'
  BY <1>6, BuildKeeps, BuildFailsKeeps, CancelExecuteKeeps, CloseResultSetKeeps
<1>7. ASSUME NEW j \in Execs, \E want \in Sizes : Fetch(j, want)
      PROVE  IInv'
  BY <1>7, FetchKeeps
<1>8. ASSUME NEW j \in Execs, NextChunk(j) \/ LeaveChunks(j) \/ AsPandas(j) \/ AsPolars(j)
      PROVE  IInv'
  BY <1>8, NextChunkKeeps, LeaveChunksKeeps, AsPandasKeeps, AsPolarsKeeps
<1>9. QED  BY <1>1, <1>2, <1>3, <1>4, <1>5, <1>6, <1>7, <1>8 DEF Next

(* The invariant holds. *)
THEOREM Invariance == Spec => []IInv
<1>1. Init => IInv
  BY InitHolds
<1>2. IInv /\ [Next]_vars => IInv'
  BY NextKeeps
<1>3. QED  BY <1>1, <1>2, PTL DEF Spec

(* Every variable keeps its type. *)
THEOREM TypeCorrect == Spec => []TypeOK
<1>1. IInv => TypeOK
  BY DEF IInv
<1>2. QED  BY <1>1, Invariance, PTL

--------------------------------------------------------------------------------
(* What the ledger says of the rows the user was given. *)
LEMMA GivenRows ==
  ASSUME IInv, NEW j \in Execs
  PROVE  /\ seen[j].out \in Seq(Nat) /\ query \in Queries /\ Total(j) \in Nat
         /\ Total(j) = IF job[j].ok THEN query.n ELSE 0
         /\ \A i, k \in 1..Len(seen[j].out) : seen[j].out[i] = seen[j].out[k] => i = k
         /\ ToSet(seen[j].out) \cap seen[j].gone = {}
         /\ ToSet(seen[j].out) \cup seen[j].gone \subseteq 1..Total(j)
         /\ seen[j].marks = {} /\ seen[j].gone = {} =>
              Run(seen[j].out, 0) /\ Len(seen[j].out) <= Total(j)
<1>1. /\ TypeOK /\ Produced(j) /\ seen[j].out \in Seq(Nat) /\ query \in Queries
  BY FileCursorAssumption DEF IInv, TypeOK, Histories
<1>2. Total(j) \in Nat /\ Total(j) = IF job[j].ok THEN query.n ELSE 0
  BY <1>1, RowsAreAll DEF Total
<1>3. CASE job[j].pc = "done"
  <2>1. PICK h : h = Stored(j)
    OBVIOUS
  <2>2. Shelves(h) /\ h["out"] = seen[j].out
    BY <1>1, <2>1, StoredIs, Zenon
  <2>3. Accounted(Total(j), rs[j].chunks, h, seen[j].gone, seen[j].marks)
    BY <1>1, <1>3, <2>1 DEF Produced, Ledger
  <2>4. PICK n, chunks, gone, marks :
          n \in Nat /\ n = Total(j) /\ chunks = rs[j].chunks /\ gone = seen[j].gone /\ marks = seen[j].marks
    BY <1>2
  <2>5. n \in Nat /\ Shelves(h) /\ Accounted(n, chunks, h, gone, marks)
    BY <2>2, <2>3, <2>4
  <2>6. /\ \A i, k \in 1..Len(h["out"]) : h["out"][i] = h["out"][k] => i = k
        /\ ToSet(h["out"]) \cap gone = {} /\ ToSet(h["out"]) \cup gone \subseteq 1..n
        /\ marks = {} /\ gone = {} => Run(h["out"], 0) /\ Len(h["out"]) <= n
    BY <2>5, LedgerTells
  <2>7. QED  BY <1>1, <1>2, <2>2, <2>4, <2>6
<1>4. CASE job[j].pc # "done"
  <2>1. seen[j].out = <<>> /\ seen[j].gone = {}
    BY <1>1, <1>4 DEF Produced
  <2>2. PICK o \in Seq(Nat) : o = seen[j].out /\ Len(o) = 0
    BY <1>1, <2>1
  <2>3. ToSet(o) = {}
    BY <2>2, ToSetIs
  <2>4. \A i \in 1..Len(o) : FALSE
    BY <2>2
  <2>5. Run(o, 0)
    BY <2>4 DEF Run
  <2>6. QED  BY <1>1, <1>2, <2>1, <2>2, <2>3, <2>4, <2>5
<1>5. QED  BY <1>3, <1>4

(* A run from the first row is the beginning of all rows. *)
LEMMA RunIsPrefix ==
  ASSUME NEW q \in Queries, NEW s \in Seq(Nat), Run(s, 0), Len(s) <= q.n
  PROVE  IsPrefix(s, DataRows(q))
<1>1. PICK d \in Seq(Nat), n \in Nat : d = DataRows(q) /\ n = q.n /\ Len(d) = n /\ Run(d, 0)
  BY RowsAreAll
<1>2. PICK l \in Nat : l = Len(s) /\ l <= n
  BY <1>1, LenProperties
<1>3. SubSeq(s, 1, l) = SubSeq(d, 1, l)
  <2>1. \A i \in 1..l : s[i] = d[i]
    BY <1>1, <1>2 DEF Run
  <2>2. SubSeq(s, 1, l) \in Seq(Nat) /\ SubSeq(d, 1, l) \in Seq(Nat)
          /\ Len(SubSeq(s, 1, l)) = l /\ Len(SubSeq(d, 1, l)) = l
          /\ \A i \in 1..l : SubSeq(s, 1, l)[i] = s[i] /\ SubSeq(d, 1, l)[i] = d[i]
    BY <1>1, <1>2, SubSeqProperties
  <2>3. QED  BY <2>1, <2>2, SeqEqual
<1>4. QED  BY <1>1, <1>2, <1>3 DEF IsPrefix

(* No row is given twice, none that is no row of the result, and row by row  *)
(* they come in order, whatever the rows were read from and whoever asks.    *)
THEOREM RowsCorrect == Spec => []NoRowTwice
<1>1. IInv => NoRowTwice
  <2>1. SUFFICES ASSUME IInv, NEW j \in Execs
                 PROVE  /\ seen[j].marks = {} /\ seen[j].gone = {} =>
                             IsPrefix(seen[j].out, DataRows(query))
                        /\ \A a, b \in DOMAIN seen[j].out :
                             seen[j].out[a] = seen[j].out[b] => a = b
                        /\ ToSet(seen[j].out) \cap seen[j].gone = {}
                        /\ ToSet(seen[j].out) \cup seen[j].gone \subseteq Rows
    BY DEF NoRowTwice
  <2>2. /\ seen[j].out \in Seq(Nat) /\ query \in Queries
        /\ Total(j) = IF job[j].ok THEN query.n ELSE 0
        /\ \A i, k \in 1..Len(seen[j].out) : seen[j].out[i] = seen[j].out[k] => i = k
        /\ ToSet(seen[j].out) \cap seen[j].gone = {}
        /\ ToSet(seen[j].out) \cup seen[j].gone \subseteq 1..Total(j)
        /\ seen[j].marks = {} /\ seen[j].gone = {} =>
             Run(seen[j].out, 0) /\ Len(seen[j].out) <= Total(j)
    BY <2>1, GivenRows
  <2>3. query.n \in Nat /\ Rows = 1..query.n
    BY <2>2, RowsAreAll DEF Rows
  <2>4. Total(j) \in Nat /\ Total(j) <= query.n
    BY <2>2, <2>3
  <2>5. 1..Total(j) \subseteq Rows
    BY <2>3, <2>4
  <2>6. DOMAIN seen[j].out = 1..Len(seen[j].out)
    BY <2>2, LenProperties
  <2>7. seen[j].marks = {} /\ seen[j].gone = {} => IsPrefix(seen[j].out, DataRows(query))
    <3>1. SUFFICES ASSUME seen[j].marks = {} /\ seen[j].gone = {}
                   PROVE  IsPrefix(seen[j].out, DataRows(query))
      OBVIOUS
    <3>2. PICK s \in Seq(Nat), l \in Nat : s = seen[j].out /\ Run(s, 0) /\ l = Len(s)
                                           /\ l <= Total(j)
      BY <2>2, <3>1, LenProperties
    <3>3. Len(s) <= query.n
      BY <2>3, <2>4, <3>2
    <3>4. IsPrefix(s, DataRows(query))
      BY <2>2, <3>2, <3>3, RunIsPrefix
    <3>5. QED  BY <3>2, <3>4
  <2>8. QED  BY <2>2, <2>5, <2>6, <2>7
<1>2. QED  BY <1>1, Invariance, PTL

(* The cursor's result set is that of its last execution, which succeeded;   *)
(* one that did not gives no rows.                                           *)
THEOREM ResultCorrect == Spec => []ResultIsOfLastExecution
<1>1. IInv => ResultIsOfLastExecution
  <2>1. ASSUME IInv, NEW j \in Execs, ~job[j].ok
        PROVE  seen[j].out = <<>> /\ seen[j].gone = {}
    <3>1. /\ seen[j].out \in Seq(Nat) /\ Total(j) = 0
          /\ ToSet(seen[j].out) \cup seen[j].gone \subseteq 1..Total(j)
      BY <2>1, GivenRows
    <3>2. 1..0 = {}
      OBVIOUS
    <3>3. ToSet(seen[j].out) = {} /\ seen[j].gone = {}
      BY <3>1, <3>2
    <3>4. PICK s \in Seq(Nat), l \in Nat : s = seen[j].out /\ l = Len(s)
      BY <3>1, LenProperties
    <3>5. l = 0
      <4>1. SUFFICES ASSUME l # 0 PROVE FALSE
        OBVIOUS
      <4>2. 1 \in 1..Len(s)
        BY <3>4, <4>1
      <4>3. s[1] \in ToSet(s)
        BY <4>2, ToSetIs
      <4>4. QED  BY <3>3, <3>4, <4>3
    <3>6. s = <<>>
      BY <3>4, <3>5, EmptySeq
    <3>7. QED  BY <3>3, <3>4, <3>6
  <2>2. QED  BY <2>1 DEF IInv, Sequential, ResultIsOfLastExecution
<1>2. QED  BY <1>1, Invariance, PTL

(* A result set out of reach, or read to its end, has no open stream.        *)
THEOREM StreamsCorrect == Spec => []StreamsAreClosed
<1>1. IInv => StreamsAreClosed
  <2>1. SUFFICES ASSUME IInv, NEW j \in Execs
                 PROVE  /\ job[j].pc = "done" /\ ~job[j].lost /\ j \notin Reachable =>
                             rs[j].streams = {}
                        /\ class.reads = "pandas" /\ seen[j].ended => rs[j].streams = {}
    BY DEF StreamsAreClosed
  <2>2. Sequential /\ Produced(j)
    BY <2>1 DEF IInv
  <2>3. CASE class.runs = "pool"
    BY <2>2, <2>3 DEF Produced, Reachable
  <2>4. CASE class.runs # "pool"
    <3>1. j \notin Reachable => j # cur
      BY <2>4, FileCursorAssumption DEF Reachable, Execs
    <3>2. QED  BY <2>2, <2>4, <3>1 DEF Produced, Sequential
  <2>5. QED  BY <2>3, <2>4
<1>2. QED  BY <1>1, Invariance, PTL

(* The end of the rows is reported when every row was given, to the user or  *)
(* to a call that raised or was abandoned.                                   *)
THEOREM EndCorrect == Spec => []EndMeansAllGiven
<1>1. IInv => EndMeansAllGiven
  <2>1. SUFFICES ASSUME IInv, NEW j \in Execs, Finished(j)
                 PROVE  ToSet(seen[j].out) \cup seen[j].gone
                          \cup UNION {ToSet(call[t].got) : t \in {x \in {"user", "lost"} : call[x].j = j}}
                        = Rows
    BY DEF EndMeansAllGiven, Finished, Spoilt, Lossy
  <2>2. /\ TypeOK /\ Produced(j) /\ EndIsEnd(j) /\ query \in Queries
    BY <2>1, FileCursorAssumption DEF IInv, TypeOK
  <2>3. /\ job[j].pc = "done" /\ job[j].ok /\ seen[j].marks \cap Lossy = {}
        /\ rs[j].chunks = <<>> /\ rs[j].buf = <<>> /\ \A t \in Threads : HeldFrom(t, j) = <<>>
    <3>1. seen[j].ended /\ seen[j].marks \cap Spoilt = {}
      BY <2>1 DEF Finished
    <3>2. job[j].pc = "done"
      BY <2>2, <3>1 DEF Produced
    <3>3. job[j].ok /\ seen[j].marks \cap Lossy = {}
      BY <2>2, <3>1, <3>2 DEF Produced, Spoilt
    <3>4. QED  BY <2>1, <2>2, <3>2, <3>3 DEF EndIsEnd
  <2>4. query.n \in Nat /\ Total(j) = query.n /\ Rows = 1..query.n
    BY <2>2, <2>3, RowsAreAll DEF Rows, Total
  <2>5. PICK h : h = Stored(j)
    OBVIOUS
  <2>6. /\ Shelves(h) /\ h["out"] = seen[j].out
        /\ h["got"] = GotFrom("user", j) /\ h["lost got"] = GotFrom("lost", j)
        /\ Drained(h)
    BY <2>2, <2>3, <2>5, StoredIs, Zenon DEF Drained, Threads
  <2>7. PICK c, gone, marks :
               c = rs[j].chunks /\ gone = seen[j].gone /\ marks = seen[j].marks
    OBVIOUS
  <2>8. PICK n \in Nat : n = Total(j)
    BY <2>4
  <2>9. Accounted(n, c, h, gone, marks)
    BY <2>2, <2>3, <2>5, <2>7, <2>8 DEF Produced, Ledger
  <2>10. Len(c) = 0
    <3>1. Len(<<>>) = 0
      OBVIOUS
    <3>2. QED  BY <2>3, <2>7, <3>1
  <2>11. ToSet(h["out"]) \cup gone \cup (ToSet(h["got"]) \cup ToSet(h["lost got"])) = 1..n
    <3>1. marks \cap Lossy = {}
      BY <2>3, <2>7
    <3>2. Settled(c, h, marks)
      BY <2>6, <2>10, <3>1, Zenon DEF Settled
    <3>3. AllGiven(n, h, gone)
      BY <2>9, <3>2, NoneIsLeft
    <3>4. QED  BY <3>3, Zenon DEF AllGiven
  <2>12. UNION {ToSet(call[t].got) : t \in {x \in {"user", "lost"} : call[x].j = j}}
           = ToSet(h["got"]) \cup ToSet(h["lost got"])
    <3>1. /\ call["user"].j = j => h["got"] = call["user"].got
          /\ call["user"].j # j => h["got"] = <<>>
          /\ call["lost"].j = j => h["lost got"] = call["lost"].got
          /\ call["lost"].j # j => h["lost got"] = <<>>
      BY <2>6, Zenon DEF GotFrom
    <3>2. ToSet(<<>>) = {}
      <4>1. <<>> \in Seq(Nat) /\ Len(<<>>) = 0
        OBVIOUS
      <4>2. PICK s \in Seq(Nat) : s = <<>> /\ Len(s) = 0
        BY <4>1
      <4>3. \A i \in 1..Len(s) : FALSE
        BY <4>2
      <4>4. \A x : x \notin ToSet(s)
        BY <4>3, ToSetIs
      <4>5. QED  BY <4>2, <4>4
    <3>3. QED  BY <3>1, <3>2, Zenon
  <2>13. QED  BY <2>4, <2>6, <2>7, <2>8, <2>11, <2>12, Zenon
<1>2. QED  BY <1>1, Invariance, PTL
================================================================================
