----------------------------- MODULE S3ClientProofs -----------------------------
(* Proofs about S3Client, for every value of its constants.                  *)
EXTENDS S3Client, Integers, FunctionTheorems, FiniteSetTheorems, SequenceTheorems,
        WellFoundedInduction, TLAPS

(* A set of natural numbers that is not empty has a least one. *)
LEMMA LeastNumber ==
  ASSUME NEW T, T \subseteq Nat, T # {}
  PROVE  \E x \in T : \A y \in T : ~(y < x)
<1> DEFINE R == OpToRel(<, Nat)
<1>1. IsWellFoundedOn(R, Nat)
  BY NatLessThanWellFounded, Zenon
<1>2. \A x, y \in Nat : <<y, x>> \in R <=> y < x
  BY DEF OpToRel
<1> HIDE DEF R
<1>3. \E x \in T : \A y \in T : ~(<<y, x>> \in R)
  BY <1>1, WFMin
<1>4. QED BY <1>2, <1>3

(* Induction, with a set in the place of a predicate. *)
LEMMA Induction ==
  ASSUME NEW n \in Nat, NEW T, 0 \in T,
         \A i \in 0..n : i \in T /\ i + 1 \in 0..n => i + 1 \in T
  PROVE  \A i \in 0..n : i \in T
<1> SUFFICES ASSUME NEW k \in 0..n, k \notin T PROVE FALSE
  OBVIOUS
<1> DEFINE B == {i \in 0..n : i \notin T}
<1>1. PICK x \in B : \A y \in B : ~(y < x)
  BY LeastNumber, B \subseteq Nat, k \in B
<1>2. x \in 0..n /\ x # 0 /\ x - 1 \in 0..n /\ x - 1 < x
  BY <1>1
<1>3. x - 1 \in T
  BY <1>1, <1>2
<1>4. QED BY <1>1, <1>2, <1>3

(* Division, in the words that are needed. *)
LEMMA PiecesCover ==
  ASSUME NEW n \in Nat, NEW k \in Nat \ {0}
  PROVE  \E K \in Nat : /\ K = (n + k - 1) \div k
                        /\ n <= K * k
                        /\ \A i \in 1..K : (i - 1) * k < n
                        /\ \A i, l \in Nat : i <= l => i * k <= l * k
                        /\ \A i \in Nat : i * k \in Nat /\ (i + 1) * k = i * k + k
<1>1. PICK m \in Nat : m = n + k - 1
  OBVIOUS
<1>2. PICK K \in Nat : K = m \div k
  OBVIOUS
<1>3. k * K <= m /\ m < k * K + k
  BY <1>2
<1>4. \A i, l \in Nat : i <= l => i * k <= l * k
  OBVIOUS
<1>5. \A i \in Nat : i * k \in Nat /\ (i + 1) * k = i * k + k
  OBVIOUS
<1>6. K * k = k * K
  OBVIOUS
<1>7. n <= K * k
  BY <1>1, <1>3, <1>5, <1>6
<1>8. ASSUME NEW i \in 1..K PROVE (i - 1) * k < n
  <2>1. i * k <= K * k
    BY <1>4
  <2>2. i - 1 \in Nat /\ (i - 1) + 1 = i
    OBVIOUS
  <2>3. i * k = (i - 1) * k + k /\ (i - 1) * k \in Nat /\ i * k \in Nat /\ K * k \in Nat
    BY <1>5, <2>2
  <2>4. QED BY <1>1, <1>3, <1>6, <2>1, <2>3
<1>9. QED BY <1>1, <1>2, <1>4, <1>5, <1>7, <1>8

--------------------------------------------------------------------------------
(* A span of bytes is cut at the edges e[0] < ... < e[n].                    *)
Edges(e, n, a, b) ==
  /\ e \in [0..n -> a..b] /\ e[0] = a /\ e[n] = b
  /\ \A i \in 1..n : e[i - 1] < e[i]

(* The ranges between them. *)
Between(e, n) == [i \in 1..n |-> <<e[i - 1], e[i]>>]

LEMMA MinOfTwo ==
  ASSUME NEW x \in Nat, NEW y \in Nat
  PROVE  Min({x, y}) = IF x <= y THEN x ELSE y
<1>1. CASE x <= y
  <2>1. x \in {x, y} /\ \A z \in {x, y} : x <= z
    BY <1>1
  <2>2. ASSUME NEW m \in {x, y}, \A z \in {x, y} : m <= z PROVE m = x
    BY <1>1, <2>2
  <2>3. QED BY <1>1, <2>1, <2>2 DEF Min
<1>2. CASE ~(x <= y)
  <2>1. y \in {x, y} /\ \A z \in {x, y} : y <= z
    BY <1>2
  <2>2. ASSUME NEW m \in {x, y}, \A z \in {x, y} : m <= z PROVE m = y
    BY <1>2, <2>2
  <2>3. QED BY <1>2, <2>1, <2>2 DEF Min
<1>3. QED BY <1>1, <1>2

(* _get_ranges cuts the span from start to end, whatever the sizes are: no   *)
(* byte is left out or asked for twice, and no range is empty.               *)
LEMMA RangesCut ==
  ASSUME NEW a \in Nat, NEW b \in Nat, a < b, NEW k \in Nat \ {0}, NEW w \in Nat
  PROVE  \E n \in Nat \ {0} : \E e :
           Edges(e, n, a, b) /\ GetRanges(a, b, w, k) = Between(e, n)
<1>1. CASE w > 1 /\ b - a > k
  <2>1. PICK m \in Nat : m = b - a /\ m > k
    BY <1>1
  <2>2. PICK K \in Nat : /\ K = (m + k - 1) \div k
                         /\ m <= K * k
                         /\ \A i \in 1..K : (i - 1) * k < m
                         /\ \A i, l \in Nat : i <= l => i * k <= l * k
                         /\ \A i \in Nat : i * k \in Nat /\ (i + 1) * k = i * k + k
    BY PiecesCover
  <2>3. K # 0
    <3>1. 0 * k = 0
      OBVIOUS
    <3>2. QED BY <2>1, <2>2, <3>1
  <2>4. PICK e : e = [i \in 0..K |-> IF i * k < m THEN a + i * k ELSE b]
    OBVIOUS
  <2>5. \A i \in 0..K : e[i] = IF i * k < m THEN a + i * k ELSE b
    BY <2>4
  <2>6. e \in [0..K -> a..b]
    <3>1. ASSUME NEW i \in 0..K PROVE (IF i * k < m THEN a + i * k ELSE b) \in a..b
      <4>1. PICK x \in Nat : x = i * k
        BY <2>2
      <4>2. (IF x < m THEN a + x ELSE b) \in a..b
        BY <2>1
      <4>3. QED BY <4>1, <4>2
    <3>2. QED BY <2>4, <3>1
  <2>7. e[0] = a
    <3>1. 0 \in 0..K /\ 0 * k = 0
      OBVIOUS
    <3>2. e[0] = IF 0 < m THEN a + 0 ELSE b
      BY <2>5, <3>1
    <3>3. QED BY <2>1, <3>2
  <2>8. e[K] = b
    <3>1. K \in 0..K /\ K * k \in Nat /\ ~(K * k < m)
      BY <2>2
    <3>2. QED BY <2>5, <3>1
  <2>9. ASSUME NEW i \in 1..K
        PROVE  /\ e[i - 1] < e[i]
               /\ <<a + (i - 1) * k, Min({a + i * k, b})>> = <<e[i - 1], e[i]>>
    <3>1. PICK x \in Nat, y \in Nat : x = (i - 1) * k /\ y = i * k
      BY <2>2
    <3>2. i - 1 \in 0..K /\ i \in 0..K /\ i - 1 \in Nat /\ (i - 1) + 1 = i
      OBVIOUS
    <3>3. y = x + k /\ x < m
      BY <2>2, <3>1, <3>2
    <3>4. e[i - 1] = a + x /\ e[i] = IF y < m THEN a + y ELSE b
      BY <2>5, <3>1, <3>2, <3>3
    <3>5. a + y \in Nat
      OBVIOUS
    <3>6. Min({a + y, b}) = IF a + y <= b THEN a + y ELSE b
      BY <3>5, MinOfTwo
    <3>7. Min({a + y, b}) = e[i]
      BY <2>1, <3>4, <3>6
    <3>8. QED BY <2>1, <3>1, <3>3, <3>4, <3>7
  <2>10. GetRanges(a, b, w, k) = [i \in 1..K |-> <<a + (i - 1) * k, Min({a + i * k, b})>>]
    BY <1>1, <2>1, <2>2 DEF GetRanges, Ceil
  <2>11. GetRanges(a, b, w, k) = Between(e, K)
    BY <2>9, <2>10 DEF Between
  <2>12. Edges(e, K, a, b)
    BY <2>6, <2>7, <2>8, <2>9 DEF Edges
  <2>13. QED BY <2>3, <2>6, <2>11, <2>12
<1>2. CASE ~(w > 1 /\ b - a > k)
  <2>1. PICK n \in Nat \ {0} : n = 1
    OBVIOUS
  <2>2. PICK e : e = [i \in 0..n |-> IF i = 0 THEN a ELSE b]
    OBVIOUS
  <2>3. e \in [0..n -> a..b] /\ e[0] = a /\ e[1] = b
    BY <2>1, <2>2
  <2>4. Edges(e, n, a, b)
    BY <2>1, <2>3 DEF Edges
  <2>5. Between(e, n) = <<(<<a, b>>)>>
    <3>1. \A i \in 1..n : i = 1 /\ i - 1 = 0
      BY <2>1
    <3>2. Between(e, n) = [i \in 1..1 |-> <<a, b>>]
      BY <2>1, <2>3, <3>1 DEF Between
    <3>3. QED BY <3>2
  <2>6. GetRanges(a, b, w, k) = <<(<<a, b>>)>>
    BY <1>2 DEF GetRanges
  <2>7. QED BY <2>3, <2>4, <2>5, <2>6
<1>3. QED BY <1>1, <1>2

(* The edges are in order, and within the span. *)
LEMMA EdgesOrder ==
  ASSUME NEW n \in Nat \ {0}, NEW a \in Nat, NEW b \in Nat, NEW e, Edges(e, n, a, b)
  PROVE  \A i \in 1..n : /\ e[i - 1] \in Nat /\ e[i] \in Nat /\ a <= e[i - 1]
                         /\ e[i - 1] < e[i] /\ e[i] <= b
<1>1. ASSUME NEW i \in 1..n
      PROVE  i \in 0..n /\ i - 1 \in 0..n
  OBVIOUS
<1>2. \A i \in 0..n : e[i] \in Nat /\ a <= e[i] /\ e[i] <= b
  BY DEF Edges
<1>3. QED BY <1>1, <1>2 DEF Edges

(* Ranges do not share a start: they are sorted by it in one way. *)
LEMMA EdgesGrow ==
  ASSUME NEW n \in Nat \ {0}, NEW a \in Nat, NEW b \in Nat, NEW e, Edges(e, n, a, b),
         NEW k \in 0..n, NEW l \in 0..n, k < l
  PROVE  e[k] < e[l]
<1> DEFINE T == {d \in 0..n : k + d + 1 \in 0..n => e[k] < e[k + d + 1]}
<1>1. \A i \in 1..n : e[i - 1] \in Nat /\ e[i] \in Nat /\ e[i - 1] < e[i]
  BY EdgesOrder
<1>2. 0 \in T
  <2>1. ASSUME k + 0 + 1 \in 0..n PROVE e[k] < e[k + 0 + 1]
    <3>1. PICK i \in 1..n : i = k + 1
      BY <2>1
    <3>2. i - 1 = k /\ k + 0 + 1 = i
      BY <3>1
    <3>3. QED BY <1>1, <3>2
  <2>2. QED BY <2>1
<1>3. ASSUME NEW d \in 0..n, d \in T, d + 1 \in 0..n PROVE d + 1 \in T
  <2>1. ASSUME k + (d + 1) + 1 \in 0..n PROVE e[k] < e[k + (d + 1) + 1]
    <3>1. PICK i \in 1..n : i = k + d + 2
      BY <2>1
    <3>2. PICK j \in 1..n : j = k + d + 1
      BY <2>1
    <3>3. i - 1 = j /\ k + (d + 1) + 1 = i /\ j \in 0..n /\ k + d + 1 = j
      BY <3>1, <3>2
    <3>4. e[k] < e[j]
      BY <1>3, <3>3
    <3>5. e[j] < e[i] /\ e[j] \in Nat /\ e[i] \in Nat
      BY <1>1, <3>3
    <3>6. e[k] \in Nat
      BY DEF Edges
    <3>7. QED BY <3>3, <3>4, <3>5, <3>6
  <2>2. QED BY <1>3, <2>1
<1> HIDE DEF T
<1>4. \A i \in 0..n : i \in T
  BY <1>2, <1>3, Induction
<1>5. PICK d \in 0..n : d = l - k - 1
  OBVIOUS
<1>6. k + d + 1 = l
  BY <1>5
<1>7. QED BY <1>4, <1>6 DEF T

--------------------------------------------------------------------------------
(* A slice of a sequence of bytes. *)
LEMMA SliceIs ==
  ASSUME NEW S, NEW s \in Seq(S), NEW a \in Nat, NEW b \in Nat, a <= b, b <= Len(s)
  PROVE  /\ Slice(s, <<a, b>>) \in Seq(S) /\ Len(Slice(s, <<a, b>>)) = b - a
         /\ \A x \in 1..(b - a) : Slice(s, <<a, b>>)[x] = s[a + x]
<1>1. Slice(s, <<a, b>>) = SubSeq(s, a + 1, b)
  BY DEF Slice
<1>2. a + 1 \in 1..(Len(s) + 1) /\ b \in (a + 1) - 1..Len(s) /\ Len(s) \in Nat
  BY LenProperties
<1>3. /\ SubSeq(s, a + 1, b) \in Seq(S)
      /\ Len(SubSeq(s, a + 1, b)) = IF a + 1 <= b THEN b - (a + 1) + 1 ELSE 0
      /\ \A i \in 1..(b - (a + 1) + 1) : SubSeq(s, a + 1, b)[i] = s[(a + 1) + i - 1]
  BY <1>2, SubSeqProperties
<1>4. PICK u : u = Slice(s, <<a, b>>)
  OBVIOUS
<1>5. u \in Seq(S) /\ Len(u) = IF a + 1 <= b THEN b - (a + 1) + 1 ELSE 0
  BY <1>1, <1>3, <1>4
<1>6. Len(u) = b - a
  BY <1>5
<1>7. ASSUME NEW x \in 1..(b - a) PROVE u[x] = s[a + x]
  <2>1. x \in 1..(b - (a + 1) + 1) /\ (a + 1) + x - 1 = a + x
    OBVIOUS
  <2>2. QED BY <1>1, <1>3, <1>4, <2>1
<1>8. QED BY <1>4, <1>5, <1>6, <1>7

(* All of it is the sequence. *)
LEMMA SliceIsAll ==
  ASSUME NEW S, NEW s \in Seq(S)
  PROVE  Slice(s, <<0, Len(s)>>) = s
<1>1. PICK l \in Nat, z \in Nat : l = Len(s) /\ z = 0 /\ z <= l
  BY LenProperties
<1>2. /\ Slice(s, <<z, l>>) \in Seq(S) /\ Len(Slice(s, <<z, l>>)) = l - z
      /\ \A x \in 1..(l - z) : Slice(s, <<z, l>>)[x] = s[z + x]
  <2>1. z \in Nat /\ l \in Nat /\ z <= l /\ l <= Len(s)
    BY <1>1
  <2>2. QED BY ONLY s \in Seq(S), <2>1, SliceIs
<1>3. l - z = l /\ \A x \in 1..l : z + x = x
  <2>1. l \in Nat /\ z = 0
    BY <1>1
  <2>2. QED BY ONLY <2>1
<1>4. \A x \in 1..Len(s) : Slice(s, <<z, l>>)[x] = s[x]
  BY <1>1, <1>2, <1>3
<1>5. Slice(s, <<z, l>>) = s
  BY <1>1, <1>2, <1>3, <1>4, SeqEqual
<1>6. QED BY <1>1, <1>5

(* Two slices, one after the other, are one. *)
Joined(s, a, b, d) == Slice(s, <<a, b>>) \o Slice(s, <<b, d>>) = Slice(s, <<a, d>>)

LEMMA SlicesJoin ==
  ASSUME NEW S, NEW s \in Seq(S), NEW a \in Nat, NEW b \in Nat, NEW d \in Nat,
         a <= b, b <= d, d <= Len(s)
  PROVE  Joined(s, a, b, d)
<1> DEFINE IsSlice(r, x, y) ==
             r \in Seq(S) /\ Len(r) = y - x /\ \A i \in 1..(y - x) : r[i] = s[x + i]
<1>1. ASSUME NEW x \in Nat, NEW y \in Nat, x <= y, y <= Len(s)
      PROVE  IsSlice(Slice(s, <<x, y>>), x, y)
  BY ONLY s \in Seq(S), <1>1, SliceIs
<1>2. Len(s) \in Nat
  BY LenProperties
<1>3. a <= d /\ b <= Len(s)
  BY <1>2
<1>4. /\ IsSlice(Slice(s, <<a, b>>), a, b) /\ IsSlice(Slice(s, <<b, d>>), b, d)
      /\ IsSlice(Slice(s, <<a, d>>), a, d)
  <2> HIDE DEF IsSlice
  <2> QED BY ONLY a \in Nat, b \in Nat, d \in Nat, a <= b, b <= d, d <= Len(s), <1>1, <1>3
<1> HIDE DEF IsSlice
<1> DEFINE ab == Slice(s, <<a, b>>)
           bd == Slice(s, <<b, d>>)
           ad == Slice(s, <<a, d>>)
<1> HIDE DEF ab, bd, ad
<1> USE DEF IsSlice
<1>5. ab \in Seq(S) /\ Len(ab) = b - a /\ \A x \in 1..(b - a) : ab[x] = s[a + x]
  BY ONLY <1>4 DEF ab
<1>6. bd \in Seq(S) /\ Len(bd) = d - b /\ \A x \in 1..(d - b) : bd[x] = s[b + x]
  BY ONLY <1>4 DEF bd
<1>7. ad \in Seq(S) /\ Len(ad) = d - a /\ \A x \in 1..(d - a) : ad[x] = s[a + x]
  BY ONLY <1>4 DEF ad
<1>8. ab \o bd \in Seq(S) /\ Len(ab \o bd) = Len(ab) + Len(bd)
      /\ \A i \in 1..(Len(ab) + Len(bd)) :
           (ab \o bd)[i] = IF i <= Len(ab) THEN ab[i] ELSE bd[i - Len(ab)]
  BY <1>5, <1>6, ConcatProperties
<1>9. Len(ab \o bd) = d - a
  BY <1>5, <1>6, <1>8
<1>10. ASSUME NEW i \in 1..(d - a) PROVE (ab \o bd)[i] = ad[i]
  <2>1. (ab \o bd)[i] = IF i <= b - a THEN ab[i] ELSE bd[i - (b - a)]
    <3>1. i \in 1..(Len(ab) + Len(bd))
      BY <1>5, <1>6
    <3>2. (ab \o bd)[i] = IF i <= Len(ab) THEN ab[i] ELSE bd[i - Len(ab)]
      BY <1>8, <3>1
    <3>3. QED BY <1>5, <3>2
  <2>2. CASE i <= b - a
    BY <1>5, <1>7, <2>1, <2>2
  <2>3. CASE ~(i <= b - a)
    <3>1. PICK x \in 1..(d - b) : x = i - (b - a)
      BY <2>3
    <3>2. b + x = a + i
      BY <3>1
    <3>3. bd[x] = s[b + x]
      BY <1>6
    <3>4. QED BY <1>7, <2>1, <2>3, <3>1, <3>2, <3>3
  <2>4. QED BY <2>2, <2>3
<1>11. ab \o bd = ad
  BY <1>7, <1>8, <1>9, <1>10, SeqEqual
<1>12. QED BY <1>11 DEF ab, bd, ad, Joined

(* The pieces of a sequence between the edges. *)
Slices(s, e, n) == [i \in 1..n |-> Slice(s, <<e[i - 1], e[i]>>)]

(* The pieces between the edges, one after the other, are the whole span.    *)
LEMMA FlattenSlices ==
  ASSUME NEW S, NEW s \in Seq(S), NEW n \in Nat \ {0}, NEW a \in Nat, NEW b \in Nat,
         b <= Len(s), NEW e, Edges(e, n, a, b)
  PROVE  FlattenSeq(Slices(s, e, n)) = Slice(s, <<a, b>>)
<1>a. PICK pieces : pieces = Slices(s, e, n)
  OBVIOUS
<1>1. \A i \in 1..n : /\ e[i - 1] \in Nat /\ e[i] \in Nat /\ a <= e[i - 1]
                      /\ e[i - 1] < e[i] /\ e[i] <= b
  BY EdgesOrder
<1>2. e[0] = a /\ e[n] = b
  BY DEF Edges
<1>3. Len(s) \in Nat
  BY LenProperties
<1>4. ASSUME NEW i \in 1..n PROVE Slice(s, <<e[i - 1], e[i]>>) \in Seq(S)
  <2>1. PICK x \in Nat, y \in Nat : x = e[i - 1] /\ y = e[i]
    BY <1>1
  <2>2. x <= y /\ y <= Len(s)
    BY <1>1, <1>3, <2>1
  <2>3. Slice(s, <<x, y>>) \in Seq(S)
    BY <2>2, SliceIs
  <2>4. QED BY <2>1, <2>3
<1>5. pieces \in [1..n -> Seq(S)]
  BY <1>4, <1>a DEF Slices
<1>6. pieces \in Seq(Seq(S)) /\ Len(pieces) = n /\ n # 0
  <2>1. pieces \in Seq(Seq(S))
    BY <1>5, SeqDef
  <2>2. QED BY <1>5, <2>1, LenProperties
<1> DEFINE Flat(f) ==
      [i \in 1..Len(pieces) |-> IF i = 1 THEN pieces[i] ELSE f[i - 1] \o pieces[i]]
           f == CHOOSE g : g = Flat(g)
           h == [i \in 1..Len(pieces) |-> Slice(s, <<a, e[i]>>)]
<1>7. FlattenSeq(pieces) = f[n]
  BY <1>6 DEF FlattenSeq
<1>8. \A i \in 1..n : pieces[i] = Slice(s, <<e[i - 1], e[i]>>)
  BY <1>a DEF Slices
<1>9. ASSUME NEW i \in 1..n
      PROVE  Slice(s, <<a, e[i - 1]>>) \o pieces[i] = Slice(s, <<a, e[i]>>)
  <2>1. PICK x \in Nat, y \in Nat : x = e[i - 1] /\ y = e[i]
    BY <1>1
  <2>2. a <= x /\ x <= y /\ y <= Len(s)
    BY <1>1, <1>3, <2>1
  <2>3. Joined(s, a, x, y)
    BY <2>2, SlicesJoin
  <2>4. pieces[i] = Slice(s, <<x, y>>)
    BY <1>8, <2>1
  <2>5. QED BY ONLY <2>1, <2>3, <2>4 DEF Joined
<1>10. h = Flat(h)
  <2>1. ASSUME NEW i \in 1..Len(pieces)
        PROVE  Slice(s, <<a, e[i]>>) = IF i = 1 THEN pieces[i] ELSE h[i - 1] \o pieces[i]
    <3>1. CASE i = 1
      <4>1. i \in 1..n /\ e[i - 1] = a
        BY <1>2, <1>6, <3>1
      <4>2. pieces[i] = Slice(s, <<a, e[i]>>)
        BY <1>8, <4>1
      <4>3. QED BY <3>1, <4>2
    <3>2. CASE i # 1
      <4>1. i \in 1..n /\ i - 1 \in 1..Len(pieces)
        BY <1>6, <3>2
      <4>2. h[i - 1] = Slice(s, <<a, e[i - 1]>>)
        BY <4>1
      <4>3. QED BY <3>2, <4>1, <4>2, <1>9
    <3>3. QED BY <3>1, <3>2
  <2>2. QED BY <2>1
<1>11. f = Flat(f)
  BY <1>10, Zenon
<1>12. \A i \in 1..n : f[i] = IF i = 1 THEN pieces[i] ELSE f[i - 1] \o pieces[i]
  BY <1>6, <1>11, Zenon
<1>13. \A i \in 1..n : h[i] = IF i = 1 THEN pieces[i] ELSE h[i - 1] \o pieces[i]
  BY <1>6, <1>10
<1>14. h[n] = Slice(s, <<a, b>>)
  BY <1>2, <1>6
<1> HIDE DEF f, h
<1> DEFINE T == {k \in 0..n : k = 0 \/ f[k] = h[k]}
<1>15. ASSUME NEW i \in 0..n, i \in T, i + 1 \in 0..n PROVE i + 1 \in T
  <2>1. i + 1 \in 1..n /\ (i + 1) - 1 = i
    BY <1>15
  <2>2. CASE i = 0
    BY <2>1, <2>2, <1>12, <1>13
  <2>3. CASE i # 0
    <3>1. f[i] = h[i]
      BY <1>15, <2>3
    <3>2. f[i + 1] = h[i + 1]
      BY <2>1, <2>3, <3>1, <1>12, <1>13
    <3>3. QED BY <1>15, <3>2
  <2>4. QED BY <2>2, <2>3
<1>16. 0 \in T
  OBVIOUS
<1> HIDE DEF T
<1>17. \A i \in 0..n : i \in T
  BY <1>15, <1>16, Induction
<1>18. f[n] = h[n]
  BY <1>6, <1>17 DEF T
<1>19. QED BY <1>a, <1>7, <1>14, <1>18

--------------------------------------------------------------------------------
(* A sequence of n numbers up to n that grows is 1, ..., n.                  *)
LEMMA GrowingIsIdentity ==
  ASSUME NEW n \in Nat, NEW s \in [1..n -> 1..n],
         \A k, l \in 1..n : k < l => s[k] < s[l]
  PROVE  \A k \in 1..n : s[k] = k
<1> DEFINE Up == {k \in 0..n : k = 0 \/ s[k] >= k}
           Down == {k \in 0..n : k = n \/ s[n - k] <= n - k}
<1>1. ASSUME NEW i \in 0..n, i \in Up, i + 1 \in 0..n PROVE i + 1 \in Up
  <2>1. i + 1 \in 1..n /\ s[i + 1] \in 1..n
    BY <1>1
  <2>2. CASE i = 0
    BY <2>1, <2>2
  <2>3. CASE i # 0
    <3>1. i \in 1..n /\ s[i] \in 1..n /\ i < i + 1
      BY <2>3
    <3>2. s[i] < s[i + 1]
      BY <2>1, <3>1
    <3>3. s[i] >= i
      BY <1>1, <2>3
    <3>4. QED BY <2>1, <3>1, <3>2, <3>3
  <2>4. QED BY <2>2, <2>3
<1>2. ASSUME NEW i \in 0..n, i \in Down, i + 1 \in 0..n PROVE i + 1 \in Down
  <2>1. CASE i + 1 = n
    BY <1>2, <2>1
  <2>2. CASE i + 1 # n
    <3>1. PICK x \in 1..n, y \in 1..n : x = n - i /\ y = n - (i + 1) /\ y < x
      BY <1>2, <2>2
    <3>2. s[y] < s[x] /\ s[x] \in 1..n /\ s[y] \in 1..n
      BY <3>1
    <3>3. s[x] <= x
      BY <1>2, <2>2, <3>1
    <3>4. s[y] <= y
      BY <3>1, <3>2, <3>3
    <3>5. QED BY <1>2, <3>1, <3>4
  <2>3. QED BY <2>1, <2>2
<1>3. 0 \in Up
  OBVIOUS
<1>4. 0 \in Down
  <2>1. CASE n = 0
    BY <2>1
  <2>2. CASE n # 0
    <3>1. PICK x \in 1..n : x = n
      BY <2>2
    <3>2. s[x] \in 1..n
      BY <3>1
    <3>3. n - 0 = x
      BY <3>1
    <3>4. QED BY <3>1, <3>2, <3>3
  <2>3. QED BY <2>1, <2>2
<1> HIDE DEF Up, Down
<1>5. \A i \in 0..n : i \in Up
  BY <1>1, <1>3, Induction
<1>6. \A i \in 0..n : i \in Down
  BY <1>2, <1>4, Induction
<1>7. ASSUME NEW k \in 1..n PROVE s[k] = k
  <2>1. s[k] \in 1..n /\ s[k] >= k
    BY <1>5 DEF Up
  <2>2. PICK j \in 0..n : j = n - k /\ j # n /\ n - j = k
    OBVIOUS
  <2>3. s[k] <= k
    BY <1>6, <2>2 DEF Down
  <2>4. QED BY <2>1, <2>3
<1>8. QED BY <1>7

(* A sequence that names each of 1..n once has n members.                    *)
LEMMA NamesAllOnce ==
  ASSUME NEW n \in Nat, NEW s \in Seq(Nat), ToSet(s) = 1..n,
         \A k, l \in DOMAIN s : s[k] = s[l] => k = l
  PROVE  DOMAIN s = 1..n
<1>1. PICK m \in Nat : m = Len(s) /\ DOMAIN s = 1..m
  BY LenProperties
<1>2. \A k \in 1..m : s[k] \in 1..n
  BY <1>1 DEF ToSet
<1>3. \A x \in 1..n : \E k \in 1..m : s[k] = x
  BY <1>1 DEF ToSet
<1>4. [k \in 1..m |-> s[k]] \in Bijection(1..m, 1..n)
  BY <1>1, <1>2, <1>3 DEF Bijection, Injection, Surjection, IsInjective
<1>5. ExistsBijection(1..m, 1..n)
  BY <1>4 DEF ExistsBijection
<1>6. Cardinality(1..n) = m
  BY <1>5, FS_CountingElements
<1>7. Cardinality(1..n) = n
  BY FS_Interval
<1>8. QED BY <1>1, <1>6, <1>7

--------------------------------------------------------------------------------
(* What the invariant of a transfer says of its data.                        *)

(* The version that info() told of. *)
LEMMA ToldIsVersion ==
  ASSUME TransferTypes
  PROVE  versions[told] \in Seq(Nat \X Nat) /\ Len(versions[told]) \in Nat \ {0}
<1>1. versions \in Seq(Seq(Nat \X Nat)) /\ told \in 1..Len(versions)
  BY LenProperties DEF TransferTypes
<1>2. versions[told] \in Seq(Nat \X Nat) /\ versions[told] # <<>>
  BY <1>1, ElementOfSeq DEF TransferTypes
<1>3. PICK s \in Seq(Nat \X Nat) : s = versions[told]
  BY <1>2
<1>4. Len(s) \in Nat /\ Len(s) # 0
  BY <1>2, <1>3, LenProperties, EmptySeq
<1>5. QED BY <1>3, <1>4

(* The source is that version, if nobody has replaced it. *)
LEMMA SourceIsTold ==
  ASSUME TransferTypes, Undisturbed
  PROVE  /\ Source = versions[told] /\ Source \in Seq(Nat \X Nat)
         /\ Len(Source) \in Nat \ {0}
<1>1. Source = versions[told]
  BY DEF Source, Undisturbed, TransferTypes, Last
<1>2. QED BY <1>1, ToldIsVersion

(* The requests for the ranges of a span. *)
LEMMA RequestsAre ==
  ASSUME NEW a \in Nat, NEW b \in Nat, a < b, NEW k \in Nat \ {0},
         NEW p, p = Requests(GetRanges(a, b, MaxWorkers, k))
  PROVE  /\ p \in Seq(Request) /\ p # <<>> /\ DOMAIN p = DOMAIN GetRanges(a, b, MaxWorkers, k)
         /\ \A i \in DOMAIN p : /\ p[i].state = "pending"
                                /\ p[i].range = GetRanges(a, b, MaxWorkers, k)[i]
<1>1. MaxWorkers \in Nat
  BY TransferAssumption
<1>2. PICK n \in Nat \ {0} : \E e :
        Edges(e, n, a, b) /\ GetRanges(a, b, MaxWorkers, k) = Between(e, n)
  BY <1>1, RangesCut
<1>3. PICK e : Edges(e, n, a, b) /\ GetRanges(a, b, MaxWorkers, k) = Between(e, n)
  BY <1>2
<1>4. PICK R : R = Between(e, n)
  OBVIOUS
<1>5. ASSUME NEW i \in 1..n PROVE R[i] \in Nat \X Nat
  <2>1. e[i - 1] \in Nat /\ e[i] \in Nat
    BY <1>3, EdgesOrder
  <2>2. R[i] = <<e[i - 1], e[i]>>
    BY <1>4 DEF Between
  <2>3. QED BY <2>1, <2>2
<1>6. DOMAIN R = 1..n
  BY <1>4 DEF Between
<1>7. p = [i \in 1..n |-> [range |-> R[i], state |-> "pending", bytes |-> <<>>]]
  BY <1>3, <1>4, <1>6 DEF Requests
<1>8. p \in [1..n -> Request]
  <2>1. <<>> \in Seq(Nat \X Nat)
    OBVIOUS
  <2>2. QED BY <1>5, <1>7, <2>1 DEF Request, PartStates
<1>9. p \in Seq(Request)
  BY <1>8, SeqDef
<1>10. DOMAIN p = 1..n /\ 1 \in DOMAIN p
  BY <1>8
<1>11. p # <<>>
  BY <1>10
<1>12. QED BY <1>3, <1>4, <1>6, <1>7, <1>9, <1>10, <1>11

(* The ranges that are requested are those between edges of the span.        *)
LEMMA RequestedEdges ==
  ASSUME TransferTypes, RequestsAreOfRange, parts # <<>>
  PROVE  \E n \in Nat \ {0} : \E e :
           /\ Edges(e, n, range[1], range[2]) /\ Parts = 1..n
           /\ \A i \in 1..n : parts[i].range = <<e[i - 1], e[i]>>
<1>1. PICK a \in Nat, b \in Nat : a = range[1] /\ b = range[2] /\ a < b
  BY DEF TransferTypes, RequestsAreOfRange
<1>2. PICK k \in Nat \ {0} : Requested = GetRanges(a, b, MaxWorkers, k)
  <2>1. CASE Copying
    <3>1. MaxPart \in Nat \ {0} /\ a = 0
      BY <1>1, <2>1, TransferAssumption DEF RequestsAreOfRange
    <3>2. Requested = GetRanges(a, b, MaxWorkers, MaxPart)
      BY <1>1, <2>1, <3>1 DEF Requested
    <3>3. QED BY <3>1, <3>2
  <2>2. CASE ~Copying
    <3>1. BlockSize \in Nat \ {0}
      BY TransferAssumption
    <3>2. Requested = GetRanges(a, b, MaxWorkers, BlockSize)
      BY <1>1, <2>2 DEF Requested
    <3>3. QED BY <3>1, <3>2
  <2>3. QED BY <2>1, <2>2
<1>3. MaxWorkers \in Nat /\ k \in Nat \ {0} /\ a \in Nat /\ b \in Nat /\ a < b
  BY <1>1, <1>2, TransferAssumption
<1>a. PICK R : R = GetRanges(a, b, MaxWorkers, k)
  OBVIOUS
<1>4. PICK n \in Nat \ {0} : \E e : Edges(e, n, a, b) /\ R = Between(e, n)
  BY <1>3, <1>a, RangesCut
<1>5. PICK e : Edges(e, n, a, b) /\ Requested = Between(e, n)
  BY <1>2, <1>4, <1>a
<1>6. Parts = DOMAIN Requested /\ \A i \in Parts : parts[i].range = Requested[i]
  BY DEF RequestsAreOfRange
<1>7. Parts = 1..n /\ \A i \in 1..n : parts[i].range = <<e[i - 1], e[i]>>
  BY <1>5, <1>6 DEF Between
<1>8. QED BY <1>1, <1>5, <1>7

(* A range that is requested is within the version told of. *)
LEMMA RangeIsWithin ==
  ASSUME TransferTypes, RequestsAreOfRange, NEW i \in Parts
  PROVE  /\ parts[i].range[1] \in Nat /\ parts[i].range[2] \in Nat
         /\ parts[i].range = <<parts[i].range[1], parts[i].range[2]>>
         /\ parts[i].range[1] < parts[i].range[2]
         /\ parts[i].range[2] <= Len(versions[told])
<1>1. parts # <<>>
  BY DEF Parts
<1>2. PICK n \in Nat \ {0} : \E e :
        /\ Edges(e, n, range[1], range[2]) /\ Parts = 1..n
        /\ \A j \in 1..n : parts[j].range = <<e[j - 1], e[j]>>
  BY <1>1, RequestedEdges
<1>3. PICK e : /\ Edges(e, n, range[1], range[2]) /\ Parts = 1..n
               /\ \A j \in 1..n : parts[j].range = <<e[j - 1], e[j]>>
  BY <1>2
<1>4. PICK a \in Nat, b \in Nat : a = range[1] /\ b = range[2]
  BY DEF TransferTypes
<1>5. b <= Len(versions[told])
  BY <1>1, <1>4 DEF RequestsAreOfRange
<1>6. PICK x \in Nat, y \in Nat : x = e[i - 1] /\ y = e[i] /\ x < y /\ y <= b
  <2>1. Edges(e, n, a, b)
    BY <1>3, <1>4
  <2>2. \A j \in 1..n : /\ e[j - 1] \in Nat /\ e[j] \in Nat /\ a <= e[j - 1]
                        /\ e[j - 1] < e[j] /\ e[j] <= b
    BY <2>1, EdgesOrder
  <2>3. i \in 1..n
    BY <1>3
  <2>4. QED BY <2>2, <2>3
<1>7. parts[i].range = <<x, y>>
  BY <1>3, <1>6
<1>8. PICK l : l = Len(versions[told])
  OBVIOUS
<1>9. l \in Nat
  <2>1. versions \in Seq(Seq(Nat \X Nat)) /\ told \in 1..Len(versions)
    BY LenProperties DEF TransferTypes
  <2>2. versions[told] \in Seq(Nat \X Nat)
    BY <2>1, ElementOfSeq
  <2>3. QED BY <1>8, <2>2, LenProperties
<1>10. x < y /\ y <= l
  BY <1>5, <1>6, <1>8, <1>9
<1>11. QED BY <1>7, <1>8, <1>10

(* All parts of a copy, put together, are the source. *)
LEMMA CopyIsSource ==
  ASSUME TransferTypes, RequestsAreOfRange, PartsAreSlices, Undisturbed, Copying, AllDone,
         parts # <<>>
  PROVE  FlattenSeq([i \in 1..Len(parts) |-> stored[i]]) = Source
<1>1. PICK n \in Nat \ {0} : \E e :
        /\ Edges(e, n, range[1], range[2]) /\ Parts = 1..n
        /\ \A j \in 1..n : parts[j].range = <<e[j - 1], e[j]>>
  BY RequestedEdges
<1>2. PICK e : /\ Edges(e, n, range[1], range[2]) /\ Parts = 1..n
               /\ \A j \in 1..n : parts[j].range = <<e[j - 1], e[j]>>
  BY <1>1
<1>3. PICK s \in Seq(Nat \X Nat) : s = Source /\ s = versions[told]
  BY SourceIsTold
<1>4. PICK z \in Nat, l \in Nat : z = 0 /\ l = Len(s)
  BY LenProperties
<1>5. range[1] = z /\ range[2] = l
  BY <1>3, <1>4 DEF RequestsAreOfRange
<1>6. Edges(e, n, z, l)
  BY <1>2, <1>5
<1>7. l <= Len(s)
  BY <1>4
<1>8. FlattenSeq(Slices(s, e, n)) = Slice(s, <<z, l>>)
  BY <1>6, <1>7, FlattenSlices
<1>9. Slice(s, <<z, l>>) = s
  BY <1>4, SliceIsAll
<1>10. Len(parts) = n
  <2>1. parts \in Seq(Request)
    BY DEF TransferTypes
  <2>2. QED BY <1>2, <2>1, LenProperties DEF Parts
<1>11. \A i \in 1..n : stored[i] = Slice(s, <<e[i - 1], e[i]>>)
  BY <1>2, <1>3 DEF PartsAreSlices, AllDone
<1>12. [i \in 1..Len(parts) |-> stored[i]] = Slices(s, e, n)
  BY <1>10, <1>11 DEF Slices
<1>13. QED BY <1>3, <1>8, <1>9, <1>12

(* All ranges of a read, sorted by their start, are the bytes wanted of the  *)
(* version told of.                                                          *)
LEMMA MergedIsRange ==
  ASSUME TransferTypes, RequestsAreOfRange, ArrivedAreDone, PartsAreSlices,
         ~Copying, AllDone, parts # <<>>
  PROVE  MergeObjects(arrived) = Slice(versions[told], range)
<1>1. PICK n \in Nat \ {0} : \E e :
        /\ Edges(e, n, range[1], range[2]) /\ Parts = 1..n
        /\ \A j \in 1..n : parts[j].range = <<e[j - 1], e[j]>>
  BY RequestedEdges
<1>2. PICK e : /\ Edges(e, n, range[1], range[2]) /\ Parts = 1..n
               /\ \A j \in 1..n : parts[j].range = <<e[j - 1], e[j]>>
  BY <1>1
<1>3. PICK s \in Seq(Nat \X Nat) : s = versions[told]
  BY ToldIsVersion
<1>4. PICK a \in Nat, b \in Nat : a = range[1] /\ b = range[2] /\ range = <<a, b>>
  BY DEF TransferTypes
<1>5. b <= Len(s) /\ Edges(e, n, a, b)
  BY <1>2, <1>3, <1>4 DEF RequestsAreOfRange
<1>6. FlattenSeq(Slices(s, e, n)) = Slice(s, <<a, b>>)
  BY <1>5, FlattenSlices
<1>7. DOMAIN arrived = 1..n /\ ToSet(arrived) = 1..n
  <2>1. ToSet(arrived) = 1..n
    BY <1>2 DEF ArrivedAreDone, AllDone
  <2>2. arrived \in Seq(Nat) /\ \A k, l \in DOMAIN arrived : arrived[k] = arrived[l] => k = l
    BY DEF TransferTypes, ArrivedAreDone
  <2>3. QED BY <2>1, <2>2, NamesAllOnce
<1> DEFINE Sorted(t) == /\ t \in [1..n -> 1..n]
                        /\ \A k, l \in 1..n : k < l => parts[t[k]].range[1] < parts[t[l]].range[1]
<1>8. \A k \in 1..n : parts[k].range[1] = e[k - 1]
  BY <1>2
<1>9. \A k, l \in 1..n : k < l => e[k - 1] < e[l - 1]
  <2>1. ASSUME NEW k \in 1..n, NEW l \in 1..n, k < l PROVE e[k - 1] < e[l - 1]
    <3>1. PICK x \in 0..n, y \in 0..n : x = k - 1 /\ y = l - 1 /\ x < y
      BY <2>1
    <3>2. e[x] < e[y]
      BY <1>5, <3>1, EdgesGrow
    <3>3. QED BY <3>1, <3>2
  <2>2. QED BY <2>1
<1>10. Sorted([k \in 1..n |-> k])
  BY <1>8, <1>9
<1>11. ByStart(arrived) = CHOOSE t \in [1..n -> 1..n] :
         \A k, l \in 1..n : k < l => parts[t[k]].range[1] < parts[t[l]].range[1]
  BY <1>7 DEF ByStart
<1>12. PICK t : t = ByStart(arrived)
  OBVIOUS
<1>13. Sorted(t)
  BY <1>10, <1>11, <1>12, Zenon
<1>14. \A k, l \in 1..n : k < l => t[k] < t[l]
  <2>1. ASSUME NEW k \in 1..n, NEW l \in 1..n, k < l PROVE t[k] < t[l]
    <3>1. PICK x \in 1..n, y \in 1..n : x = t[k] /\ y = t[l]
      BY <1>13
    <3>2. e[x - 1] < e[y - 1]
      BY <1>8, <1>13, <2>1, <3>1
    <3>3. e[x - 1] \in Nat /\ e[y - 1] \in Nat
      BY <1>5, EdgesOrder
    <3>a. y < x => e[y - 1] < e[x - 1]
      BY <1>9
    <3>4. ~(y < x) /\ x # y
      BY <3>a, <3>2, <3>3
    <3>5. QED BY <3>1, <3>4
  <2>2. QED BY <2>1
<1>15. t \in [1..n -> 1..n]
  BY <1>13
<1>16. \A k \in 1..n : t[k] = k
  BY <1>14, <1>15, GrowingIsIdentity
<1>17. \A k \in 1..n : parts[k].bytes = Slice(s, <<e[k - 1], e[k]>>)
  BY <1>2, <1>3 DEF PartsAreSlices, AllDone
<1>18. [k \in 1..n |-> parts[t[k]].bytes] = Slices(s, e, n)
  BY <1>16, <1>17 DEF Slices
<1>19. MergeObjects(arrived) = FlattenSeq([k \in 1..n |-> parts[t[k]].bytes])
  BY <1>7, <1>12 DEF MergeObjects
<1>20. QED BY <1>3, <1>4, <1>6, <1>18, <1>19

--------------------------------------------------------------------------------
(* Each step of a transfer keeps its invariant.                              *)

(* What a step leaves alone that touches neither requests nor versions.      *)
LEMMA DataStay ==
  ASSUME ArrivedAreDone, PartsAreSlices,
         UNCHANGED <<parts, arrived, versions, op, versioned, told, stored>>
  PROVE  ArrivedAreDone' /\ PartsAreSlices' /\ (Undisturbed' <=> Undisturbed) /\ Source' = Source
BY DEF ArrivedAreDone, PartsAreSlices, Undisturbed, Source, Copying, Parts

LEMMA RequestsStay ==
  ASSUME TransferTypes, RequestsAreOfRange,
         UNCHANGED <<parts, versions, op, range, told>>, pc # "new", pc' # "new",
         pc' \notin {"copy_object", "create"}, pc' \in {"collect", "abort"} => outcome' = "none",
         pc' \in {"collect", "abort", "exit"} => parts # <<>>
  PROVE  RequestsAreOfRange'
BY DEF RequestsAreOfRange, Requested, Copying, Parts

(* One request gets another state. *)
WithState(p, i, s) == [p EXCEPT ![i].state = s]

LEMMA StateIsSet ==
  ASSUME NEW p \in Seq(Request), NEW i \in DOMAIN p, NEW s \in PartStates,
         NEW q, q = WithState(p, i, s)
  PROVE  /\ q \in Seq(Request) /\ DOMAIN q = DOMAIN p
         /\ \A k \in DOMAIN p : /\ q[k].range = p[k].range
                                /\ q[k].state = IF k = i THEN s ELSE p[k].state
                                /\ q[k].bytes = p[k].bytes
<1>1. PICK n \in Nat : n = Len(p) /\ DOMAIN p = 1..n
  BY LenProperties
<1>2. p \in [1..n -> Request] /\ i \in 1..n
  BY <1>1, LenProperties
<1>3. p[i] \in Request
  BY <1>2
<1>4. PICK r : r = [p[i] EXCEPT !.state = s]
  OBVIOUS
<1>5. r \in Request /\ r.range = p[i].range /\ r.state = s /\ r.bytes = p[i].bytes
  BY <1>3, <1>4 DEF Request, PartStates
<1>6. PICK f : f = [k \in 1..n |-> IF k = i THEN r ELSE p[k]]
  OBVIOUS
<1>7. f \in [1..n -> Request]
  BY <1>2, <1>5, <1>6
<1>8. n \in Nat
  BY <1>1
<1>9. f \in Seq(Request)
  BY <1>7, <1>8, SeqDef
<1>10. WithState(p, i, s) = [k \in 1..n |-> IF k = i THEN [p[i] EXCEPT !.state = s] ELSE p[k]]
  BY <1>2 DEF WithState
<1>11. q = f
  BY <1>4, <1>6, <1>10, Zenon
<1>12. \A k \in 1..n : f[k] = IF k = i THEN r ELSE p[k]
  BY <1>6
<1>13. QED BY <1>1, <1>5, <1>7, <1>9, <1>11, <1>12

(* One request is done and has its bytes. *)
WithBytes(p, i, b) == [p EXCEPT ![i].state = "done", ![i].bytes = b]

LEMMA BytesAreSet ==
  ASSUME NEW p \in Seq(Request), NEW i \in DOMAIN p, NEW b \in Seq(Nat \X Nat),
         NEW q, q = WithBytes(p, i, b)
  PROVE  /\ q \in Seq(Request) /\ DOMAIN q = DOMAIN p
         /\ \A k \in DOMAIN p : /\ q[k].range = p[k].range
                                /\ q[k].state = IF k = i THEN "done" ELSE p[k].state
                                /\ q[k].bytes = IF k = i THEN b ELSE p[k].bytes
<1>1. PICK n \in Nat : n = Len(p) /\ DOMAIN p = 1..n
  BY LenProperties
<1>2. p \in [1..n -> Request] /\ i \in 1..n
  BY <1>1, LenProperties
<1>3. p[i] \in Request
  BY <1>2
<1>4. PICK r : r = [p[i] EXCEPT !.state = "done", !.bytes = b]
  OBVIOUS
<1>5. r \in Request /\ r.range = p[i].range /\ r.state = "done" /\ r.bytes = b
  BY <1>3, <1>4 DEF Request, PartStates
<1>6. PICK f : f = [k \in 1..n |-> IF k = i THEN r ELSE p[k]]
  OBVIOUS
<1>7. f \in [1..n -> Request]
  BY <1>2, <1>5, <1>6
<1>8. n \in Nat
  BY <1>1
<1>9. f \in Seq(Request)
  BY <1>7, <1>8, SeqDef
<1>10. WithBytes(p, i, b) = [k \in 1..n |-> IF k = i THEN [p[i] EXCEPT !.state = "done", !.bytes = b] ELSE p[k]]
  BY <1>2 DEF WithBytes
<1>11. q = f
  BY <1>4, <1>6, <1>10, Zenon
<1>12. \A k \in 1..n : f[k] = IF k = i THEN r ELSE p[k]
  BY <1>6
<1>13. QED BY <1>1, <1>5, <1>7, <1>9, <1>11, <1>12

(* A request that is there is one of a call that goes on or has ended. *)
LEMMA PartsStay ==
  ASSUME TransferTypes, RequestsAreOfRange, NEW i \in Parts, Parts' = Parts,
         \A k \in Parts : parts'[k].range = parts[k].range,
         UNCHANGED <<versions, op, range, told, pc, outcome>>
  PROVE  RequestsAreOfRange'
<1>1. parts # <<>> /\ parts' # <<>>
  BY DEF Parts
<1>2. pc \notin {"new", "copy_object", "create"}
  BY <1>1 DEF RequestsAreOfRange
<1>3. Requested' = Requested
  BY DEF Requested, Copying
<1>4. QED BY <1>1, <1>2, <1>3 DEF RequestsAreOfRange, Copying

(* cp_file asks for the size. *)
LEMMA CopyFileStep ==
  ASSUME TransferInv, Begin, Copying
  PROVE  TransferInv'
<1>1. /\ TransferTypes /\ RequestsAreOfRange /\ ArrivedAreDone /\ pc = "new"
      /\ parts = <<>> /\ parts' = <<>> /\ upload = "none" /\ object = NULL /\ outcome = "none"
      /\ UNCHANGED <<storageVars, versions, op, versioned, arrived, result, outcome, lost>>
      /\ CopyFile
  BY DEF TransferInv, Begin, CopyFile, RequestsAreOfRange
<1>2. PICK v \in (IF versioned THEN {1} ELSE DOMAIN versions) :
        /\ range' = <<0, Len(versions[v])>> /\ told' = v
        /\ pc' \in {"copy_object", "create"}
  BY <1>1 DEF CopyFile
<1>3. v \in DOMAIN versions /\ (versioned => v = 1)
  <2>1. versions \in Seq(Seq(Nat \X Nat)) /\ told \in DOMAIN versions
    BY <1>1 DEF TransferTypes
  <2>2. 1 \in DOMAIN versions
    BY <2>1, LenProperties
  <2>3. QED BY <2>2
<1>4. PICK l \in Nat : l = Len(versions[v]) /\ 0 < l
  <2>1. versions \in Seq(Seq(Nat \X Nat)) /\ v \in 1..Len(versions) /\ versions[v] # <<>>
    BY <1>1, <1>3, LenProperties DEF TransferTypes
  <2>2. PICK s \in Seq(Nat \X Nat) : s = versions[v] /\ s # <<>>
    BY <2>1, ElementOfSeq
  <2>3. Len(s) \in Nat /\ Len(s) # 0
    BY <2>2, LenProperties, EmptySeq
  <2>4. QED BY <2>2, <2>3
<1>5. range' = <<0, l>> /\ range'[1] = 0 /\ range'[2] = l /\ range' \in Nat \X Nat
  BY <1>2, <1>4
<1>6. TransferTypes'
  BY <1>1, <1>2, <1>3, <1>5 DEF TransferTypes, storageVars
<1>7. RequestsAreOfRange'
  BY <1>1, <1>2, <1>4, <1>5 DEF RequestsAreOfRange, storageVars, Copying
<1>8. ArrivedAreDone' /\ PartsAreSlices'
  BY <1>1 DEF ArrivedAreDone, PartsAreSlices, Parts
<1>9. UploadsAreOwned' /\ TargetIsOldOrCopy' /\ ReadIsRange'
  BY <1>1 DEF UploadsAreOwned, TargetIsOldOrCopy, ReadIsRange, storageVars
<1>10. QED BY <1>6, <1>7, <1>8, <1>9 DEF TransferInv

(* _fetch_range asks for the ranges. *)
LEMMA FetchRangeStep ==
  ASSUME TransferInv, Begin, ~Copying
  PROVE  TransferInv'
<1>1. /\ TransferTypes /\ RequestsAreOfRange /\ ArrivedAreDone /\ pc = "new"
      /\ parts = <<>> /\ upload = "none" /\ object = NULL /\ outcome = "none"
      /\ UNCHANGED <<storageVars, versions, op, versioned, arrived, result, outcome, lost>>
      /\ FetchRange
  BY DEF TransferInv, Begin, RequestsAreOfRange
<1>2. PICK v \in (IF versioned THEN {1} ELSE DOMAIN versions) :
        \E start \in 0..(Len(versions[v]) - 1) : \E end \in (start + 1)..Len(versions[v]) :
          /\ range' = <<start, end>> /\ told' = v
          /\ parts' = Requests(GetRanges(start, end, MaxWorkers, BlockSize))
          /\ pc' = "collect"
  BY <1>1, Zenon DEF FetchRange
<1>3. v \in DOMAIN versions /\ (versioned => v = 1)
  <2>1. versions \in Seq(Seq(Nat \X Nat)) /\ told \in DOMAIN versions
    BY <1>1 DEF TransferTypes
  <2>2. 1 \in DOMAIN versions
    BY <2>1, LenProperties
  <2>3. QED BY <2>2
<1>4. PICK l \in Nat : l = Len(versions[v])
  <2>1. versions \in Seq(Seq(Nat \X Nat)) /\ v \in 1..Len(versions)
    BY <1>1, <1>3, LenProperties DEF TransferTypes
  <2>2. versions[v] \in Seq(Nat \X Nat)
    BY <2>1, ElementOfSeq
  <2>3. QED BY <2>2, LenProperties
<1>5. PICK a \in 0..(l - 1), b \in 1..l :
          /\ a < b /\ range' = <<a, b>> /\ told' = v
          /\ parts' = Requests(GetRanges(a, b, MaxWorkers, BlockSize))
          /\ pc' = "collect"
  BY <1>2, <1>4
<1>6. a \in Nat /\ b \in Nat /\ a < b /\ b <= l /\ BlockSize \in Nat \ {0}
  BY <1>5, TransferAssumption
<1>7. PICK R : R = GetRanges(a, b, MaxWorkers, BlockSize)
  OBVIOUS
<1>8. PICK p : p = Requests(R)
  OBVIOUS
<1>9. /\ p \in Seq(Request) /\ p # <<>> /\ DOMAIN p = DOMAIN R
      /\ \A i \in DOMAIN p : p[i].state = "pending" /\ p[i].range = R[i]
  BY <1>6, <1>7, <1>8, RequestsAre
<1>10. parts' = p
  BY <1>5, <1>7, <1>8
<1>11. range'[1] = a /\ range'[2] = b /\ range' \in Nat \X Nat
  BY <1>5, <1>6
<1>12. TransferTypes'
  BY <1>1, <1>3, <1>5, <1>9, <1>10, <1>11 DEF TransferTypes, storageVars
<1>13. Requested' = R
  BY <1>1, <1>7, <1>11 DEF Requested, Copying
<1>14. RequestsAreOfRange'
  BY <1>1, <1>4, <1>5, <1>6, <1>9, <1>10, <1>11, <1>13
     DEF RequestsAreOfRange, storageVars, Copying, Parts
<1>15. {i \in Parts' : parts'[i].state = "done"} = {} /\ {i \in Parts : parts[i].state = "done"} = {}
  BY <1>1, <1>9, <1>10 DEF Parts
<1>16. ArrivedAreDone' /\ PartsAreSlices'
  BY <1>1, <1>15 DEF ArrivedAreDone, PartsAreSlices
<1>17. UploadsAreOwned' /\ TargetIsOldOrCopy' /\ ReadIsRange'
  BY <1>1 DEF UploadsAreOwned, TargetIsOldOrCopy, ReadIsRange, storageVars
<1>18. QED BY <1>12, <1>14, <1>16, <1>17 DEF TransferInv

(* A small object is copied with one request. *)
LEMMA CopyObjectStep ==
  ASSUME TransferInv, CopyObject
  PROVE  TransferInv'
<1>1. /\ TransferTypes /\ RequestsAreOfRange /\ ArrivedAreDone /\ PartsAreSlices
      /\ pc = "copy_object" /\ pc' = "done" /\ outcome' \in {"returned", "failed"}
      /\ upload = "none" /\ Copying /\ upload' = upload /\ stored' = stored
      /\ object = NULL
      /\ object' \in {object, Source} /\ (outcome' = "returned" => object' = Source)
      /\ UNCHANGED <<versions, op, versioned, range, parts, arrived, result, told, lost>>
  BY DEF TransferInv, CopyObject, RequestsAreOfRange, End, S3!PutObject, storageVars, callVars
<1>2. TransferTypes'
  BY <1>1 DEF TransferTypes
<1>3. RequestsAreOfRange'
  BY <1>1, RequestsStay
<1>4. ArrivedAreDone' /\ PartsAreSlices' /\ (Undisturbed' <=> Undisturbed) /\ Source' = Source
  BY <1>1, DataStay
<1>5. UploadsAreOwned' /\ TargetIsOldOrCopy' /\ ReadIsRange'
  BY <1>1, <1>4 DEF UploadsAreOwned, TargetIsOldOrCopy, ReadIsRange, Copying
<1>6. QED BY <1>2, <1>3, <1>4, <1>5 DEF TransferInv

(* The upload of a large one is created, or is not, or nobody knows. *)
LEMMA CreateMultipartUploadStep ==
  ASSUME TransferInv, CreateMultipartUpload
  PROVE  TransferInv'
<1>1. /\ TransferTypes /\ RequestsAreOfRange /\ ArrivedAreDone /\ PartsAreSlices
      /\ pc = "create" /\ parts = <<>> /\ upload = "none" /\ Copying /\ object = NULL
      /\ outcome = "none" /\ range[1] = 0
      /\ object' = object /\ stored' = stored
      /\ UNCHANGED <<versions, op, versioned, range, arrived, result, told>>
  BY DEF TransferInv, CreateMultipartUpload, RequestsAreOfRange, S3!CreateUpload, storageVars, callVars
<1>2. CASE upload' = "open" /\ pc' = "collect" /\ UNCHANGED <<outcome, lost>>
           /\ parts' = Requests(GetRanges(0, range[2], MaxWorkers, MaxPart))
  <2>1. PICK a \in Nat, b \in Nat : a = 0 /\ a = range[1] /\ b = range[2]
    BY <1>1 DEF TransferTypes
  <2>2. a \in Nat /\ b \in Nat /\ a < b /\ MaxPart \in Nat \ {0}
    BY <1>1, <2>1, TransferAssumption DEF RequestsAreOfRange
  <2>3. PICK R : R = GetRanges(a, b, MaxWorkers, MaxPart)
    OBVIOUS
  <2>4. PICK p : p = Requests(R)
    OBVIOUS
  <2>5. /\ p \in Seq(Request) /\ p # <<>> /\ DOMAIN p = DOMAIN R
        /\ \A i \in DOMAIN p : p[i].state = "pending" /\ p[i].range = R[i]
    BY <2>2, <2>3, <2>4, RequestsAre
  <2>6. parts' = p
    BY <1>2, <2>1, <2>3, <2>4
  <2>7. Requested' = R
    BY <1>1, <2>1, <2>3 DEF Requested, Copying
  <2>8. TransferTypes'
    BY <1>1, <1>2, <2>5, <2>6 DEF TransferTypes
  <2>9. RequestsAreOfRange'
    BY <1>1, <1>2, <2>5, <2>6, <2>7 DEF RequestsAreOfRange, Copying, Parts
  <2>10. {i \in Parts' : parts'[i].state = "done"} = {} /\ {i \in Parts : parts[i].state = "done"} = {}
    BY <1>1, <2>5, <2>6 DEF Parts
  <2>11. ArrivedAreDone' /\ PartsAreSlices'
    BY <1>1, <2>10 DEF ArrivedAreDone, PartsAreSlices
  <2>12. UploadsAreOwned' /\ TargetIsOldOrCopy' /\ ReadIsRange'
    BY <1>1, <1>2 DEF UploadsAreOwned, TargetIsOldOrCopy, ReadIsRange, Copying
  <2>13. QED BY <2>8, <2>9, <2>11, <2>12 DEF TransferInv
<1>3. CASE /\ pc' = "done" /\ outcome' = "failed" /\ parts' = parts /\ lost' \in BOOLEAN
           /\ upload' \in {"none", "open"} /\ (upload' = "open" => lost')
  <2>1. TransferTypes'
    BY <1>1, <1>3 DEF TransferTypes
  <2>2. RequestsAreOfRange'
    BY <1>1, <1>3, RequestsStay
  <2>3. ArrivedAreDone' /\ PartsAreSlices'
    BY <1>1, <1>3, DataStay
  <2>4. UploadsAreOwned' /\ TargetIsOldOrCopy' /\ ReadIsRange'
    BY <1>1, <1>3 DEF UploadsAreOwned, TargetIsOldOrCopy, ReadIsRange
  <2>5. QED BY <2>1, <2>2, <2>3, <2>4 DEF TransferInv
<1>4. QED
  BY <1>1, <1>2, <1>3 DEF CreateMultipartUpload, S3!CreateUpload, End, storageVars, TransferTypes

(* The read puts the ranges together. *)
LEMMA ReadReturnsStep ==
  ASSUME TransferInv, ReadReturns
  PROVE  TransferInv'
<1>1. /\ TransferTypes /\ RequestsAreOfRange /\ ArrivedAreDone /\ PartsAreSlices
      /\ pc = "collect" /\ pc' = "done" /\ outcome' = "returned" /\ op = "read" /\ AllDone
      /\ ~Copying /\ parts # <<>> /\ result' = MergeObjects(arrived)
      /\ UNCHANGED <<object, upload, stored, versions, op, versioned, range, parts, arrived, told, lost>>
  BY DEF TransferInv, ReadReturns, RequestsAreOfRange, End, storageVars, callVars, Copying
<1>2. TransferTypes'
  BY <1>1 DEF TransferTypes
<1>3. RequestsAreOfRange'
  BY <1>1, RequestsStay
<1>4. ArrivedAreDone' /\ PartsAreSlices' /\ (Undisturbed' <=> Undisturbed) /\ Source' = Source
  BY <1>1, DataStay
<1>5. ReadIsRange'
  <2>1. MergeObjects(arrived) = Slice(versions[told], range)
    BY <1>1, MergedIsRange
  <2>2. QED BY <1>1, <2>1 DEF ReadIsRange
<1>6. UploadsAreOwned' /\ TargetIsOldOrCopy'
  <2>1. upload = "open" => lost
    BY <1>1 DEF TransferInv, UploadsAreOwned, RequestsAreOfRange
  <2>2. ~Copying'
    BY <1>1 DEF Copying
  <2>3. QED BY <1>1, <2>1, <2>2 DEF UploadsAreOwned, TargetIsOldOrCopy
<1>7. QED BY <1>2, <1>3, <1>4, <1>5, <1>6 DEF TransferInv

(* The states of requests change, none of them to done or from it. *)
LEMMA StatesStay ==
  ASSUME ArrivedAreDone, PartsAreSlices, Parts' = Parts,
         \A k \in Parts : /\ parts'[k].range = parts[k].range /\ parts'[k].bytes = parts[k].bytes
                          /\ parts'[k].state = "done" <=> parts[k].state = "done",
         UNCHANGED <<arrived, versions, op, versioned, told, stored>>
  PROVE  ArrivedAreDone' /\ PartsAreSlices' /\ (Undisturbed' <=> Undisturbed) /\ Source' = Source
<1>1. {k \in Parts' : parts'[k].state = "done"} = {k \in Parts : parts[k].state = "done"}
  OBVIOUS
<1>2. (Undisturbed' <=> Undisturbed) /\ Source' = Source /\ (Copying' <=> Copying)
  BY DEF Undisturbed, Source, Copying
<1>3. ArrivedAreDone'
  BY <1>1 DEF ArrivedAreDone
<1>4. PartsAreSlices'
  BY <1>2 DEF PartsAreSlices
<1>5. QED BY <1>2, <1>3, <1>4

(* A thread starts a request, or the request fails. *)
LEMMA StateStep ==
  ASSUME TransferInv, NEW i \in Parts, parts[i].state # "done",
         NEW s \in {"running", "failed"}, parts' = WithState(parts, i, s),
         UNCHANGED <<storageVars, versions, callVars, pc, arrived, result, outcome, told, lost>>
  PROVE  TransferInv'
<1>1. /\ TransferTypes /\ RequestsAreOfRange /\ ArrivedAreDone /\ PartsAreSlices /\ UploadsAreOwned
      /\ TargetIsOldOrCopy /\ ReadIsRange
      /\ UNCHANGED <<object, upload, stored, versions, op, versioned, range, pc, arrived, result,
                     outcome, told, lost>>
  BY DEF TransferInv, storageVars, callVars
<1>2. /\ parts \in Seq(Request) /\ i \in DOMAIN parts
      /\ s \in PartStates
  BY <1>1 DEF TransferTypes, Parts, PartStates
<1>3. PICK q : q = WithState(parts, i, s)
  OBVIOUS
<1>4. /\ q \in Seq(Request) /\ DOMAIN q = DOMAIN parts
      /\ \A k \in DOMAIN parts : /\ q[k].range = parts[k].range
                                 /\ q[k].state = IF k = i THEN s ELSE parts[k].state
                                 /\ q[k].bytes = parts[k].bytes
  BY <1>2, <1>3, StateIsSet
<1>5. parts' = q
  BY <1>3
<1>6. /\ Parts' = Parts
      /\ \A k \in Parts : /\ parts'[k].range = parts[k].range /\ parts'[k].bytes = parts[k].bytes
                          /\ parts'[k].state = "done" <=> parts[k].state = "done"
  BY <1>4, <1>5 DEF Parts
<1>7. TransferTypes'
  BY <1>1, <1>4, <1>5 DEF TransferTypes
<1>8. RequestsAreOfRange'
  BY <1>1, <1>6, PartsStay
<1>9. ArrivedAreDone' /\ PartsAreSlices' /\ (Undisturbed' <=> Undisturbed) /\ Source' = Source
  BY <1>1, <1>6, StatesStay
<1>10. UploadsAreOwned' /\ TargetIsOldOrCopy' /\ ReadIsRange'
  BY <1>1, <1>9 DEF UploadsAreOwned, TargetIsOldOrCopy, ReadIsRange, Copying
<1>11. QED BY <1>7, <1>8, <1>9, <1>10 DEF TransferInv

LEMMA StartPartStep ==
  ASSUME TransferInv, NEW i \in Parts, StartPart(i)
  PROVE  TransferInv'
<1>1. /\ parts[i].state # "done" /\ parts' = WithState(parts, i, "running")
      /\ UNCHANGED <<storageVars, versions, callVars, pc, arrived, result, outcome, told, lost>>
  BY DEF StartPart, WithState
<1>2. QED BY <1>1, StateStep

LEMMA PartFailsStep ==
  ASSUME TransferInv, NEW i \in Parts, PartFails(i)
  PROVE  TransferInv'
<1>1. /\ parts[i].state # "done" /\ parts' = WithState(parts, i, "failed")
      /\ UNCHANGED <<storageVars, versions, callVars, pc, arrived, result, outcome, told, lost>>
  BY DEF PartFails, WithState
<1>2. QED BY <1>1, StateStep

(* The request i is done: it is the last to have arrived. *)
LEMMA OneArrives ==
  ASSUME ArrivedAreDone, arrived \in Seq(Nat), NEW i \in Parts, i \in Nat, parts[i].state # "done",
         arrived' = Append(arrived, i), Parts' = Parts,
         \A k \in Parts : parts'[k].state = IF k = i THEN "done" ELSE parts[k].state
  PROVE  ArrivedAreDone' /\ arrived' \in Seq(Nat)
<1>1. PICK s \in Seq(Nat) : s = arrived
  OBVIOUS
<1>2. PICK t : t = Append(s, i)
  OBVIOUS
<1>3. PICK l \in Nat : l = Len(s) /\ DOMAIN s = 1..l
  BY LenProperties
<1>4. t \in Seq(Nat) /\ Len(t) = Len(s) + 1 /\ (\A k \in 1..Len(s) : t[k] = s[k]) /\ t[Len(s) + 1] = i
  BY <1>2, AppendProperties
<1>5. DOMAIN t = 1..(l + 1) /\ (\A k \in 1..l : t[k] = s[k]) /\ t[l + 1] = i
  BY <1>3, <1>4, LenProperties
<1>6. ToSet(t) = ToSet(s) \cup {i}
  <2>1. \A x \in ToSet(t) : x \in ToSet(s) \cup {i}
    <3>1. ASSUME NEW k \in 1..(l + 1) PROVE t[k] \in ToSet(s) \cup {i}
      <4>1. CASE k = l + 1
        BY <1>5, <4>1
      <4>2. CASE k # l + 1
        <5>1. k \in 1..l
          BY <4>2
        <5>2. t[k] = s[k]
          BY <1>5, <5>1
        <5>3. s[k] \in ToSet(s)
          BY <1>3, <5>1 DEF ToSet
        <5>4. QED BY <5>2, <5>3
      <4>3. QED BY <4>1, <4>2
    <3>2. QED BY <1>5, <3>1 DEF ToSet
  <2>2. \A x \in ToSet(s) : x \in ToSet(t)
    <3>1. ASSUME NEW k \in 1..l PROVE s[k] \in ToSet(t)
      <4>1. k \in DOMAIN t /\ t[k] = s[k]
        BY <1>5
      <4>2. QED BY <4>1 DEF ToSet
    <3>2. QED BY <1>3, <3>1 DEF ToSet
  <2>3. i \in ToSet(t)
    <3>1. l + 1 \in DOMAIN t /\ t[l + 1] = i
      BY <1>5
    <3>2. QED BY <3>1 DEF ToSet
  <2>4. QED BY <2>1, <2>2, <2>3
<1>7. ToSet(s) = {k \in Parts : parts[k].state = "done"} /\ i \notin ToSet(s)
  BY <1>1 DEF ArrivedAreDone
<1>8. ToSet(t) = {k \in Parts' : parts'[k].state = "done"}
  BY <1>6, <1>7
<1>9. \A k, j \in 1..l : s[k] = s[j] => k = j
  BY <1>1, <1>3 DEF ArrivedAreDone
<1>10. \A k \in 1..l : s[k] # i
  BY <1>3, <1>7 DEF ToSet
<1>11. \A k, j \in 1..(l + 1) : t[k] = t[j] => k = j
  <2>1. ASSUME NEW k \in 1..(l + 1), NEW j \in 1..(l + 1), t[k] = t[j], k # j PROVE FALSE
    <3>1. CASE k \in 1..l /\ j \in 1..l
      BY <1>5, <1>9, <2>1, <3>1
    <3>2. CASE k = l + 1
      <4>1. j \in 1..l
        BY <2>1, <3>2
      <4>2. t[j] = s[j] /\ t[k] = i
        BY <1>5, <3>2, <4>1
      <4>3. QED BY <1>10, <2>1, <4>1, <4>2
    <3>3. CASE j = l + 1
      <4>1. k \in 1..l
        BY <2>1, <3>3
      <4>2. t[k] = s[k] /\ t[j] = i
        BY <1>5, <3>3, <4>1
      <4>3. QED BY <1>10, <2>1, <4>1, <4>2
    <3>4. QED BY <3>1, <3>2, <3>3
  <2>2. QED BY <2>1
<1>12. arrived' = t
  BY <1>1, <1>2
<1>13. \A k, j \in DOMAIN arrived' : arrived'[k] = arrived'[j] => k = j
  BY <1>5, <1>11, <1>12
<1>14. ArrivedAreDone'
  BY <1>8, <1>12, <1>13 DEF ArrivedAreDone
<1>15. QED BY <1>4, <1>12, <1>14

(* UploadPartCopy stores a range of the source. *)
LEMMA PartCopiedStep ==
  ASSUME TransferInv, NEW i \in Parts, PartCopied(i)
  PROVE  TransferInv'
<1>1. /\ TransferTypes /\ RequestsAreOfRange /\ ArrivedAreDone /\ PartsAreSlices /\ UploadsAreOwned
      /\ TargetIsOldOrCopy /\ ReadIsRange
      /\ parts[i].state = "running" /\ Copying /\ upload = "open"
      /\ parts' = WithState(parts, i, "done") /\ arrived' = Append(arrived, i)
      /\ UNCHANGED <<object, upload, versions, op, versioned, range, pc, result, outcome, told, lost>>
  BY DEF TransferInv, PartCopied, S3!StorePart, WithState, callVars
<1>2. stored' = [n \in DOMAIN stored \cup {i} |->
                   IF n = i THEN Slice(Source, parts[i].range) ELSE stored[n]]
  BY DEF PartCopied, S3!StorePart
<1>3. parts \in Seq(Request) /\ i \in DOMAIN parts /\ i \in Nat /\ arrived \in Seq(Nat)
  <2>1. parts \in Seq(Request) /\ arrived \in Seq(Nat)
    BY <1>1 DEF TransferTypes
  <2>2. QED BY <2>1, LenProperties DEF Parts
<1>4. PICK s \in PartStates : s = "done"
  BY DEF PartStates
<1>a. s \in PartStates
  BY <1>4
<1>5. PICK q : q = WithState(parts, i, s)
  OBVIOUS
<1>6. /\ q \in Seq(Request) /\ DOMAIN q = DOMAIN parts
      /\ \A k \in DOMAIN parts : /\ q[k].range = parts[k].range
                                 /\ q[k].state = IF k = i THEN s ELSE parts[k].state
                                 /\ q[k].bytes = parts[k].bytes
  BY <1>3, <1>a, <1>5, StateIsSet
<1>7. /\ parts' = q /\ Parts' = Parts
      /\ \A k \in Parts : /\ parts'[k].range = parts[k].range /\ parts'[k].bytes = parts[k].bytes
                          /\ parts'[k].state = IF k = i THEN "done" ELSE parts[k].state
  BY <1>1, <1>4, <1>5, <1>6 DEF Parts
<1>8. parts[i].state # "done"
  BY <1>1
<1>9. ArrivedAreDone' /\ arrived' \in Seq(Nat)
  BY <1>1, <1>3, <1>7, <1>8, OneArrives
<1>10. TransferTypes'
  BY <1>1, <1>6, <1>7, <1>9 DEF TransferTypes
<1>11. RequestsAreOfRange'
  BY <1>1, <1>7, PartsStay
<1>12. (Undisturbed' <=> Undisturbed) /\ Source' = Source /\ (Copying' <=> Copying)
  BY <1>1 DEF Undisturbed, Source, Copying
<1>13. PartsAreSlices'
  <2>1. ASSUME Undisturbed, NEW k \in Parts, parts'[k].state = "done"
        PROVE  k \in DOMAIN stored' /\ stored'[k] = Slice(Source, parts[k].range)
    <3>1. CASE k = i
      BY <1>2, <3>1
    <3>2. CASE k # i
      <4>1. k \in DOMAIN stored /\ stored[k] = Slice(Source, parts[k].range)
        BY <1>1, <1>7, <2>1, <3>2 DEF PartsAreSlices
      <4>2. QED BY <1>2, <3>2, <4>1
    <3>3. QED BY <3>1, <3>2
  <2>2. QED BY <1>1, <1>7, <1>12, <2>1 DEF PartsAreSlices
<1>14. UploadsAreOwned' /\ TargetIsOldOrCopy' /\ ReadIsRange'
  BY <1>1, <1>12 DEF UploadsAreOwned, TargetIsOldOrCopy, ReadIsRange
<1>15. QED BY <1>9, <1>10, <1>11, <1>13, <1>14 DEF TransferInv

(* GetObject returns a range of the version told of. *)
LEMMA PartReadStep ==
  ASSUME TransferInv, NEW i \in Parts, PartRead(i)
  PROVE  TransferInv'
<1> DEFINE bytes == Slice(Source, parts[i].range)
<1>1. /\ TransferTypes /\ RequestsAreOfRange /\ ArrivedAreDone /\ PartsAreSlices /\ UploadsAreOwned
      /\ TargetIsOldOrCopy /\ ReadIsRange
      /\ parts[i].state = "running" /\ ~Copying /\ Undisturbed
      /\ parts' = WithBytes(parts, i, bytes) /\ arrived' = Append(arrived, i)
      /\ UNCHANGED <<object, upload, stored, versions, op, versioned, range, pc, result, outcome,
                     told, lost>>
  BY DEF TransferInv, PartRead, ReadBytes, WithBytes, storageVars, callVars
<1>2. parts \in Seq(Request) /\ i \in DOMAIN parts /\ i \in Nat /\ arrived \in Seq(Nat)
  <2>1. parts \in Seq(Request) /\ arrived \in Seq(Nat)
    BY <1>1 DEF TransferTypes
  <2>2. QED BY <2>1, LenProperties DEF Parts
<1>3. PICK x \in Nat, y \in Nat : x = parts[i].range[1] /\ y = parts[i].range[2]
                                  /\ x < y /\ parts[i].range = <<x, y>>
  BY <1>1, RangeIsWithin
<1>4. y <= Len(versions[told])
  BY <1>1, <1>3, RangeIsWithin
<1>5. PICK v \in Seq(Nat \X Nat) : v = Source /\ v = versions[told]
  BY <1>1, SourceIsTold
<1>6. PICK b : b = Slice(v, <<x, y>>)
  OBVIOUS
<1>7. b = bytes
  BY <1>3, <1>5, <1>6
<1>8. b \in Seq(Nat \X Nat)
  <2>1. x <= y /\ y <= Len(v)
    BY <1>3, <1>4, <1>5
  <2>2. QED BY <1>6, <2>1, SliceIs
<1>9. b = Slice(versions[told], parts[i].range)
  BY <1>3, <1>5, <1>6
<1>10. PICK q : q = WithBytes(parts, i, b)
  OBVIOUS
<1>11. /\ q \in Seq(Request) /\ DOMAIN q = DOMAIN parts
       /\ \A k \in DOMAIN parts : /\ q[k].range = parts[k].range
                                  /\ q[k].state = IF k = i THEN "done" ELSE parts[k].state
                                  /\ q[k].bytes = IF k = i THEN b ELSE parts[k].bytes
  BY <1>2, <1>8, <1>10, BytesAreSet
<1>12. parts' = q
  BY <1>1, <1>7, <1>10
<1>13. /\ Parts' = Parts
       /\ \A k \in Parts : /\ parts'[k].range = parts[k].range
                           /\ parts'[k].bytes = IF k = i THEN b ELSE parts[k].bytes
                           /\ parts'[k].state = IF k = i THEN "done" ELSE parts[k].state
  BY <1>11, <1>12 DEF Parts
<1>14. parts[i].state # "done"
  BY <1>1
<1>15. ArrivedAreDone' /\ arrived' \in Seq(Nat)
  BY <1>1, <1>2, <1>13, <1>14, OneArrives
<1>16. TransferTypes'
  BY <1>1, <1>11, <1>12, <1>15 DEF TransferTypes
<1>17. RequestsAreOfRange'
  BY <1>1, <1>13, PartsStay
<1>18. (Undisturbed' <=> Undisturbed) /\ Source' = Source /\ (Copying' <=> Copying)
  BY <1>1 DEF Undisturbed, Source, Copying
<1>19. \A k \in Parts : parts'[k].state = "done" =>
         parts'[k].bytes = Slice(versions[told], parts[k].range)
  <2>1. ASSUME NEW k \in Parts, parts'[k].state = "done"
        PROVE  parts'[k].bytes = Slice(versions[told], parts[k].range)
    <3>1. CASE k = i
      BY <1>9, <1>13, <3>1
    <3>2. CASE k # i
      BY <1>1, <1>13, <2>1, <3>2 DEF PartsAreSlices
    <3>3. QED BY <3>1, <3>2
  <2>2. QED BY <2>1
<1>20. PartsAreSlices'
  <2>1. \A k \in Parts : parts'[k].state = "done" =>
          parts'[k].bytes = Slice(versions'[told'], parts'[k].range)
    BY <1>1, <1>13, <1>19
  <2>2. ~Copying' /\ Parts' = Parts
    BY <1>1, <1>13, <1>18
  <2>3. QED BY <2>1, <2>2, Zenon DEF PartsAreSlices
<1>21. UploadsAreOwned' /\ TargetIsOldOrCopy' /\ ReadIsRange'
  BY <1>1, <1>18 DEF UploadsAreOwned, TargetIsOldOrCopy, ReadIsRange
<1>22. QED BY <1>15, <1>16, <1>17, <1>20, <1>21 DEF TransferInv

(* What the caller does when it has the results, or one of them is an error. *)
LEMMA PartResultFailsStep ==
  ASSUME TransferInv, NEW i \in Parts, PartResultFails(i)
  PROVE  TransferInv'
<1>1. /\ TransferTypes /\ RequestsAreOfRange /\ ArrivedAreDone /\ PartsAreSlices /\ UploadsAreOwned
      /\ TargetIsOldOrCopy /\ ReadIsRange
      /\ pc = "collect" /\ parts # <<>> /\ outcome = "none"
      /\ \/ op = "copy" /\ pc' = "abort" /\ outcome' = outcome
         \/ op # "copy" /\ pc' = "done" /\ outcome' = "failed"
      /\ UNCHANGED <<object, upload, stored, versions, op, versioned, range, parts, arrived, result,
                     told, lost>>
  BY DEF TransferInv, PartResultFails, RequestsAreOfRange, End, storageVars, callVars
<1>2. TransferTypes'
  BY <1>1 DEF TransferTypes
<1>3. RequestsAreOfRange'
  BY <1>1, RequestsStay
<1>4. ArrivedAreDone' /\ PartsAreSlices' /\ (Undisturbed' <=> Undisturbed) /\ Source' = Source
  BY <1>1, DataStay
<1>5. UploadsAreOwned' /\ TargetIsOldOrCopy' /\ ReadIsRange'
  BY <1>1, <1>4 DEF UploadsAreOwned, TargetIsOldOrCopy, ReadIsRange, Copying
<1>6. QED BY <1>2, <1>3, <1>4, <1>5 DEF TransferInv

LEMMA CompleteStep ==
  ASSUME TransferInv, Complete
  PROVE  TransferInv'
<1>1. /\ TransferTypes /\ RequestsAreOfRange /\ ArrivedAreDone /\ PartsAreSlices /\ UploadsAreOwned
      /\ TargetIsOldOrCopy /\ ReadIsRange
      /\ pc = "collect" /\ parts # <<>> /\ outcome = "none" /\ Copying /\ AllDone
      /\ UNCHANGED <<versions, op, versioned, range, parts, arrived, result, told, lost>>
  BY DEF TransferInv, Complete, RequestsAreOfRange, callVars
<1>2. /\ stored' = stored
      /\ \/ /\ upload' = "completed"
            /\ object' = FlattenSeq([i \in 1..Len(parts) |-> stored[i]])
            /\ pc' = "exit" /\ outcome' = "returned"
         \/ /\ \/ /\ upload' = "completed"
                  /\ object' = FlattenSeq([i \in 1..Len(parts) |-> stored[i]])
               \/ upload' = upload /\ object' = object
            /\ \/ op = "copy" /\ pc' = "abort" /\ outcome' = outcome
               \/ op = "aio_copy" /\ pc' = "done" /\ outcome' = "failed"
  <2>1. S3!CompleteUpload(Len(parts)) =>
          /\ upload' = "completed" /\ stored' = stored
          /\ object' = FlattenSeq([i \in 1..Len(parts) |-> stored[i]])
    BY DEF S3!CompleteUpload, S3!FlattenSeq, FlattenSeq
  <2>2. UNCHANGED storageVars => upload' = upload /\ object' = object /\ stored' = stored
    BY DEF storageVars
  <2>3. op = "copy" \/ op = "aio_copy"
    BY <1>1 DEF Copying
  <2>4. \/ S3!CompleteUpload(Len(parts)) /\ pc' = "exit" /\ outcome' = "returned"
        \/ /\ S3!CompleteUpload(Len(parts)) \/ UNCHANGED storageVars
           /\ \/ op = "copy" /\ pc' = "abort" /\ outcome' = outcome
              \/ op = "aio_copy" /\ pc' = "done" /\ outcome' = "failed"
    BY <2>3, Zenon DEF Complete, End
  <2>5. QED BY <2>1, <2>2, <2>4
<1>3. TransferTypes'
  BY <1>1, <1>2 DEF TransferTypes
<1>4. RequestsAreOfRange'
  BY <1>1, <1>2, RequestsStay
<1>5. ArrivedAreDone' /\ PartsAreSlices' /\ (Undisturbed' <=> Undisturbed) /\ Source' = Source
  BY <1>1, <1>2, DataStay
<1>6. Undisturbed => FlattenSeq([i \in 1..Len(parts) |-> stored[i]]) = Source
  BY <1>1, CopyIsSource
<1>7. TargetIsOldOrCopy'
  BY <1>1, <1>2, <1>5, <1>6 DEF TargetIsOldOrCopy, Copying
<1>8. UploadsAreOwned' /\ ReadIsRange'
  BY <1>1, <1>2 DEF UploadsAreOwned, ReadIsRange, Copying
<1>9. QED BY <1>3, <1>4, <1>5, <1>7, <1>8 DEF TransferInv

LEMMA AbortStep ==
  ASSUME TransferInv, Abort
  PROVE  TransferInv'
<1>1. /\ TransferTypes /\ RequestsAreOfRange /\ ArrivedAreDone /\ PartsAreSlices /\ UploadsAreOwned
      /\ TargetIsOldOrCopy /\ ReadIsRange
      /\ pc = "abort" /\ pc' = "exit" /\ outcome' = "failed" /\ parts # <<>>
      /\ object' = object /\ stored' = stored
      /\ upload' \in {"none", "open", "completed", "aborted"} /\ lost' \in BOOLEAN
      /\ upload' = "open" => lost'
      /\ UNCHANGED <<versions, op, versioned, range, arrived, result, told>>
  BY DEF TransferInv, Abort, AbortUpload, S3!AbortUpload, RequestsAreOfRange, TransferTypes,
         storageVars, callVars
<1>2. parts' = [i \in Parts |-> IF parts[i].state = "pending"
                                THEN [parts[i] EXCEPT !.state = "cancelled"] ELSE parts[i]]
  BY DEF Abort
<1>3. PICK n \in Nat : Parts = 1..n /\ n # 0
  <2>1. parts \in Seq(Request) /\ parts # <<>>
    BY <1>1 DEF TransferTypes
  <2>2. QED BY <2>1, LenProperties, EmptySeq DEF Parts
<1>4. ASSUME NEW i \in 1..n
      PROVE  /\ parts'[i] \in Request
             /\ parts'[i].range = parts[i].range /\ parts'[i].bytes = parts[i].bytes
             /\ parts'[i].state = "done" <=> parts[i].state = "done"
  <2>1. PICK p \in Request : p = parts[i]
    <3>1. parts \in Seq(Request) /\ i \in 1..Len(parts)
      BY <1>1, <1>3, LenProperties DEF TransferTypes, Parts
    <3>2. QED BY <3>1, ElementOfSeq
  <2>2. PICK r : r = [p EXCEPT !.state = "cancelled"]
    OBVIOUS
  <2>3. r \in Request /\ r.range = p.range /\ r.bytes = p.bytes /\ r.state = "cancelled"
    BY <2>2 DEF Request, PartStates
  <2>4. parts'[i] = IF p.state = "pending" THEN r ELSE p
    BY <1>2, <1>3, <2>1, <2>2
  <2>5. QED BY <2>1, <2>3, <2>4
<1>5. PICK q : q = parts'
  OBVIOUS
<1>6. DOMAIN q = 1..n /\ q = [i \in 1..n |-> q[i]]
  BY <1>2, <1>3, <1>5
<1>7. q \in [1..n -> Request]
  BY <1>4, <1>5, <1>6
<1>8. q \in Seq(Request)
  <2>1. n \in Nat
    BY <1>3
  <2>2. QED BY <1>7, <2>1, SeqDef
<1>9. parts' # <<>> /\ Parts' = Parts
  BY <1>3, <1>5, <1>6 DEF Parts
<1>10. TransferTypes'
  BY <1>1, <1>5, <1>8 DEF TransferTypes
<1>11. RequestsAreOfRange'
  BY <1>1, <1>3, <1>4, <1>9 DEF RequestsAreOfRange, Requested, Copying
<1>12. ArrivedAreDone' /\ PartsAreSlices' /\ (Undisturbed' <=> Undisturbed) /\ Source' = Source
  <2>1. \A k \in Parts : /\ parts'[k].range = parts[k].range /\ parts'[k].bytes = parts[k].bytes
                         /\ parts'[k].state = "done" <=> parts[k].state = "done"
    BY <1>3, <1>4
  <2>2. QED BY <1>1, <1>9, <2>1, StatesStay
<1>13. UploadsAreOwned' /\ TargetIsOldOrCopy' /\ ReadIsRange'
  BY <1>1, <1>12 DEF UploadsAreOwned, TargetIsOldOrCopy, ReadIsRange, Copying
<1>14. QED BY <1>10, <1>11, <1>12, <1>13 DEF TransferInv

LEMMA InterruptStep ==
  ASSUME TransferInv, Interrupt
  PROVE  TransferInv'
<1>1. /\ TransferTypes /\ RequestsAreOfRange /\ ArrivedAreDone /\ PartsAreSlices
      /\ TargetIsOldOrCopy
      /\ pc = "collect" /\ parts # <<>> /\ pc' \in {"exit", "done"} /\ outcome' = "interrupted"
      /\ UNCHANGED <<object, upload, stored, versions, op, versioned, range, parts, arrived, result,
                     told, lost>>
  BY DEF TransferInv, Interrupt, RequestsAreOfRange, End, storageVars, callVars
<1>2. TransferTypes'
  BY <1>1 DEF TransferTypes
<1>3. RequestsAreOfRange'
  BY <1>1, RequestsStay
<1>4. ArrivedAreDone' /\ PartsAreSlices' /\ (Undisturbed' <=> Undisturbed) /\ Source' = Source
  BY <1>1, DataStay
<1>5. UploadsAreOwned' /\ TargetIsOldOrCopy' /\ ReadIsRange'
  BY <1>1, <1>4 DEF UploadsAreOwned, TargetIsOldOrCopy, ReadIsRange, Copying
<1>6. QED BY <1>2, <1>3, <1>4, <1>5 DEF TransferInv

LEMMA ExecutorExitsStep ==
  ASSUME TransferInv, ExecutorExits
  PROVE  TransferInv'
<1>1. /\ TransferTypes /\ RequestsAreOfRange /\ ArrivedAreDone /\ PartsAreSlices /\ UploadsAreOwned
      /\ TargetIsOldOrCopy /\ ReadIsRange
      /\ pc = "exit" /\ parts # <<>> /\ pc' = "done"
      /\ UNCHANGED <<object, upload, stored, versions, op, versioned, range, parts, arrived, result,
                     outcome, told, lost>>
  BY DEF TransferInv, ExecutorExits, RequestsAreOfRange, storageVars, callVars
<1>2. TransferTypes'
  BY <1>1 DEF TransferTypes
<1>3. RequestsAreOfRange'
  BY <1>1, RequestsStay
<1>4. ArrivedAreDone' /\ PartsAreSlices' /\ (Undisturbed' <=> Undisturbed) /\ Source' = Source
  BY <1>1, DataStay
<1>5. UploadsAreOwned' /\ TargetIsOldOrCopy' /\ ReadIsRange'
  BY <1>1, <1>4 DEF UploadsAreOwned, TargetIsOldOrCopy, ReadIsRange, Copying
<1>6. QED BY <1>2, <1>3, <1>4, <1>5 DEF TransferInv

(* Another client aborts the upload. *)
LEMMA ClearMultipartUploadsStep ==
  ASSUME TransferInv, ClearMultipartUploads
  PROVE  TransferInv'
<1>1. /\ TransferTypes /\ RequestsAreOfRange /\ ArrivedAreDone /\ PartsAreSlices
      /\ TargetIsOldOrCopy /\ ReadIsRange /\ upload = "open" /\ upload' = "aborted"
      /\ UNCHANGED <<object, stored, versions, op, versioned, range, pc, parts, arrived, result,
                     outcome, told, lost>>
  BY DEF TransferInv, ClearMultipartUploads, S3!AbortUpload, callVars
<1>2. TransferTypes'
  BY <1>1 DEF TransferTypes
<1>3. RequestsAreOfRange'
  BY <1>1 DEF RequestsAreOfRange, Requested, Copying, Parts
<1>4. ArrivedAreDone' /\ PartsAreSlices' /\ (Undisturbed' <=> Undisturbed) /\ Source' = Source
  BY <1>1, DataStay
<1>5. UploadsAreOwned' /\ TargetIsOldOrCopy' /\ ReadIsRange'
  BY <1>1, <1>4 DEF UploadsAreOwned, TargetIsOldOrCopy, ReadIsRange, Copying
<1>6. QED BY <1>2, <1>3, <1>4, <1>5 DEF TransferInv

(* Another client writes a new version: what was told is disturbed, unless   *)
(* the path names the first.                                                 *)
LEMMA ReplaceSourceStep ==
  ASSUME TransferInv, ReplaceSource
  PROVE  TransferInv'
<1>1. /\ TransferTypes /\ RequestsAreOfRange /\ ArrivedAreDone /\ PartsAreSlices /\ UploadsAreOwned
      /\ TargetIsOldOrCopy /\ ReadIsRange
      /\ UNCHANGED <<object, upload, stored, op, versioned, range, pc, parts, arrived, result,
                     outcome, told, lost>>
  BY DEF TransferInv, ReplaceSource, storageVars, callVars
<1>2. PICK n \in SourceSizes : versions' = Append(versions, Bytes(Len(versions) + 1, n))
  BY DEF ReplaceSource
<1>3. PICK L \in Nat : L = Len(versions) /\ DOMAIN versions = 1..L
  BY <1>1, LenProperties DEF TransferTypes
<1>4. PICK b : b = Bytes(L + 1, n)
  OBVIOUS
<1>5. b \in Seq(Nat \X Nat) /\ b # <<>>
  <2>1. n \in Nat /\ n # 0
    BY TransferAssumption
  <2>2. b \in [1..n -> Nat \X Nat]
    BY <1>3, <1>4, <2>1 DEF Bytes
  <2>3. b \in Seq(Nat \X Nat)
    BY <2>1, <2>2, SeqDef
  <2>4. 1 \in DOMAIN b
    BY <2>1, <2>2
  <2>5. QED BY <2>3, <2>4
<1>6. PICK s \in Seq(Seq(Nat \X Nat)) : s = versions
  BY <1>1 DEF TransferTypes
<1>7. PICK t : t = Append(s, b)
  OBVIOUS
<1>8. t \in Seq(Seq(Nat \X Nat)) /\ Len(t) = Len(s) + 1 /\ (\A k \in 1..Len(s) : t[k] = s[k])
        /\ t[Len(s) + 1] = b
  BY <1>5, <1>7, AppendProperties
<1>9. versions' = t
  BY <1>2, <1>3, <1>4, <1>6, <1>7
<1>10. /\ t \in Seq(Seq(Nat \X Nat)) /\ Len(t) = L + 1 /\ DOMAIN t = 1..(L + 1)
       /\ \A k \in 1..L : t[k] = versions[k]
       /\ t[L + 1] = b
  BY <1>3, <1>6, <1>8, LenProperties
<1>11. told \in 1..L /\ told \in DOMAIN t /\ t[told] = versions[told] /\ told # L + 1
  BY <1>1, <1>3, <1>10 DEF TransferTypes
<1>12. TransferTypes'
  <2>1. \A v \in DOMAIN t : t[v] # <<>>
    <3>1. \A k \in 1..L : versions[k] # <<>>
      BY <1>1, <1>3 DEF TransferTypes
    <3>2. ASSUME NEW v \in 1..(L + 1) PROVE t[v] # <<>>
      <4>1. CASE v = L + 1
        BY <1>5, <1>10, <4>1
      <4>2. CASE v # L + 1
        <5>1. v \in 1..L
          BY <4>2
        <5>2. QED BY <1>10, <3>1, <5>1
      <4>3. QED BY <4>1, <4>2
    <3>3. QED BY <1>10, <3>2
  <2>2. QED BY <1>1, <1>9, <1>10, <1>11, <2>1 DEF TransferTypes
<1>13. RequestsAreOfRange'
  BY <1>1, <1>9, <1>11 DEF RequestsAreOfRange, Requested, Copying, Parts
<1>14. Undisturbed' => versioned /\ Undisturbed
  BY <1>1, <1>9, <1>10, <1>11 DEF Undisturbed
<1>15. versioned => Source' = Source
  BY <1>1, <1>3, <1>9, <1>10, <1>11 DEF Source
<1>16. ArrivedAreDone'
  BY <1>1 DEF ArrivedAreDone, Parts
<1>a. versions'[told'] = versions[told]
  BY <1>1, <1>9, <1>11
<1>17. PartsAreSlices' /\ TargetIsOldOrCopy' /\ ReadIsRange'
  BY <1>1, <1>14, <1>15, <1>a DEF PartsAreSlices, TargetIsOldOrCopy, ReadIsRange, Copying, Parts
<1>18. UploadsAreOwned'
  BY <1>1 DEF UploadsAreOwned, Copying
<1>19. QED BY <1>12, <1>13, <1>16, <1>17, <1>18 DEF TransferInv

LEMMA TransferInitially ==
  ASSUME Init
  PROVE  TransferInv
<1>1. PICK n \in SourceSizes : versions = <<Bytes(1, n)>>
  BY DEF Init
<1>2. PICK b : b = Bytes(1, n)
  OBVIOUS
<1>3. b \in Seq(Nat \X Nat) /\ b # <<>>
  <2>1. n \in Nat /\ n # 0
    BY TransferAssumption
  <2>2. b \in [1..n -> Nat \X Nat]
    BY <1>2, <2>1 DEF Bytes
  <2>3. b \in Seq(Nat \X Nat)
    BY <2>1, <2>2, SeqDef
  <2>4. 1 \in DOMAIN b
    BY <2>1, <2>2
  <2>5. QED BY <2>3, <2>4
<1>4. versions = <<b>> /\ <<b>> \in Seq(Seq(Nat \X Nat)) /\ DOMAIN <<b>> = {1} /\ (<<b>>)[1] = b
  BY <1>1, <1>2, <1>3
<1>5. <<>> \in Seq(Request) /\ <<>> \in Seq(Nat) /\ DOMAIN <<>> = {} /\ <<0, 0>> \in Nat \X Nat
  OBVIOUS
<1>6. TransferTypes
  BY <1>3, <1>4, <1>5 DEF Init, TransferTypes
<1>7. RequestsAreOfRange
  BY DEF Init, RequestsAreOfRange
<1>8. ArrivedAreDone /\ PartsAreSlices
  BY <1>5 DEF Init, ArrivedAreDone, PartsAreSlices, Parts, ToSet
<1>9. UploadsAreOwned /\ TargetIsOldOrCopy /\ ReadIsRange
  BY DEF Init, UploadsAreOwned, TargetIsOldOrCopy, ReadIsRange
<1>10. QED BY <1>6, <1>7, <1>8, <1>9 DEF TransferInv

LEMMA TransferStays ==
  ASSUME TransferInv, Next
  PROVE  TransferInv'
<1>1. CASE CallStep
  <2>1. CASE CopyObject
    BY <2>1, CopyObjectStep
  <2>2. CASE CreateMultipartUpload
    BY <2>2, CreateMultipartUploadStep
  <2>3. CASE ReadReturns
    BY <2>3, ReadReturnsStep
  <2>4. CASE Complete
    BY <2>4, CompleteStep
  <2>5. CASE Abort
    BY <2>5, AbortStep
  <2>6. CASE ExecutorExits
    BY <2>6, ExecutorExitsStep
  <2>7. ASSUME NEW i \in Parts, PartResultFails(i) PROVE TransferInv'
    BY <2>7, PartResultFailsStep
  <2>8. ASSUME NEW i \in Parts, StartPart(i) PROVE TransferInv'
    BY <2>8, StartPartStep
  <2>9. ASSUME NEW i \in Parts, PartCopied(i) PROVE TransferInv'
    BY <2>9, PartCopiedStep
  <2>10. ASSUME NEW i \in Parts, PartRead(i) PROVE TransferInv'
    BY <2>10, PartReadStep
  <2>11. ASSUME NEW i \in Parts, PartFails(i) PROVE TransferInv'
    BY <2>11, PartFailsStep
  <2>12. QED
    BY <1>1, <2>1, <2>2, <2>3, <2>4, <2>5, <2>6, <2>7, <2>8, <2>9, <2>10, <2>11 DEF CallStep
<1>2. CASE Begin
  BY <1>2, CopyFileStep, FetchRangeStep
<1>3. CASE Interrupt
  BY <1>3, InterruptStep
<1>4. CASE ReplaceSource
  BY <1>4, ReplaceSourceStep
<1>5. CASE ClearMultipartUploads
  BY <1>5, ClearMultipartUploadsStep
<1>6. QED
  BY <1>1, <1>2, <1>3, <1>4, <1>5 DEF Next


LEMMA TransferStutters ==
  ASSUME TransferInv, UNCHANGED vars
  PROVE  TransferInv'
<1>1. UNCHANGED <<object, upload, stored, versions, op, versioned, range, pc, parts, arrived,
                  result, outcome, told, lost>>
  BY DEF vars, storageVars, callVars
<1>2. TransferTypes' /\ RequestsAreOfRange'
  BY <1>1 DEF TransferInv, TransferTypes, RequestsAreOfRange, Parts, Copying, Requested
<1>3. ArrivedAreDone' /\ PartsAreSlices'
  BY <1>1 DEF TransferInv, ArrivedAreDone, PartsAreSlices, Parts, Copying, Undisturbed, Source
<1>4. UploadsAreOwned' /\ TargetIsOldOrCopy' /\ ReadIsRange'
  BY <1>1 DEF TransferInv, UploadsAreOwned, TargetIsOldOrCopy, ReadIsRange, Copying,
              Undisturbed, Source
<1>5. QED BY <1>2, <1>3, <1>4 DEF TransferInv
--------------------------------------------------------------------------------
(* The file that is written.                                                 *)

LEMMA MaxExists ==
  ASSUME NEW S, IsFiniteSet(S), S \subseteq Nat, S # {}
  PROVE  \E x \in S : \A y \in S : x >= y
<1> DEFINE N == Cardinality(S)
           HasMax(Q) == \E x \in Q : \A y \in Q : x >= y
           T == {n \in 0..N : \A Q \in SUBSET S : Cardinality(Q) = n /\ Q # {} => HasMax(Q)}
<1>1. N \in Nat
  BY FS_CardinalityType
<1>2. \A Q \in SUBSET S : IsFiniteSet(Q) /\ Cardinality(Q) \in Nat
  BY FS_Subset, FS_CardinalityType
<1>3. 0 \in T
  <2>1. \A Q \in SUBSET S : Cardinality(Q) = 0 => Q = {}
    BY <1>2, FS_EmptySet
  <2>2. \A Q \in SUBSET S : Cardinality(Q) = 0 /\ Q # {} => HasMax(Q)
    BY <2>1
  <2>3. 0 \in 0..N
    BY <1>1
  <2>4. QED BY ONLY <2>2, <2>3
<1>4. ASSUME NEW n \in 0..N, n \in T, n + 1 \in 0..N PROVE n + 1 \in T
  <2>1. ASSUME NEW Q \in SUBSET S, Cardinality(Q) = n + 1, Q # {} PROVE HasMax(Q)
    <3>1. PICK z \in Q : z \in Nat
      BY <2>1
    <3>2. Q \ {z} \in SUBSET S /\ Cardinality(Q \ {z}) = n
      <4>1. IsFiniteSet(Q)
        BY <1>2
      <4>2. Cardinality(Q \ {z}) = Cardinality(Q) - 1
        BY <4>1, <3>1, FS_RemoveElement
      <4>3. QED BY <2>1, <4>2
    <3>3. CASE Q \ {z} = {}
      <4>1. Q = {z}
        BY <3>1, <3>3
      <4>2. QED BY <3>1, <4>1
    <3>4. CASE Q \ {z} # {}
      <4>1. PICK x \in Q \ {z} : \A y \in Q \ {z} : x >= y
        BY <1>4, <3>2, <3>4
      <4>2. \A y \in Q : y \in Nat
        OBVIOUS
      <4>3. CASE x >= z
        BY <4>1, <4>3
      <4>4. CASE ~(x >= z)
        BY <3>1, <4>1, <4>2, <4>4
      <4>5. QED BY <4>3, <4>4
    <3>5. QED BY <3>3, <3>4
  <2>2. QED BY <1>4, <2>1
<1> HIDE DEF T
<1>5. \A n \in 0..N : n \in T
  BY <1>1, <1>3, <1>4, Induction
<1>6. N \in T
  BY <1>1, <1>5
<1>7. QED BY <1>6 DEF T

(* The bytes of an object before are numbered up to MaxOld. *)
LEMMA MaxOldIs ==
  W!MaxOld \in Nat /\ \A n \in OldSizes : n # NULL => n \in Nat /\ n <= W!MaxOld
<1> DEFINE S == {0} \cup (OldSizes \ {NULL})
<1>1. IsFiniteSet(S) /\ S \subseteq Nat /\ S # {}
  <2>1. IsFiniteSet(OldSizes) /\ OldSizes \subseteq Nat \cup {NULL}
    BY WriterAssumption DEF W!SizesAssumption, W!IsFiniteSet, IsFiniteSet
  <2>2. IsFiniteSet(OldSizes \ {NULL})
    BY <2>1, FS_Difference
  <2>3. IsFiniteSet({0})
    BY FS_Singleton
  <2>4. IsFiniteSet(S)
    BY <2>2, <2>3, FS_Union
  <2>5. S \subseteq Nat
    <3>1. 0 \in Nat
      OBVIOUS
    <3>2. OldSizes \ {NULL} \subseteq Nat
      BY <2>1
    <3>3. QED BY ONLY <3>1, <3>2
  <2>6. 0 \in S
    OBVIOUS
  <2>7. QED BY <2>4, <2>5, <2>6
<1>2. W!MaxOld = CHOOSE x \in S : \A y \in S : x >= y
  BY DEF W!MaxOld, W!Max
<1>3. \E x \in S : \A y \in S : x >= y
  BY <1>1, MaxExists
<1>4. W!MaxOld \in S /\ \A y \in S : W!MaxOld >= y
  BY <1>2, <1>3
<1>5. QED BY <1>1, <1>4

LEMMA WriterInitially ==
  ASSUME W!Init
  PROVE  W!UploadInv
<1>1. PICK m \in Nat, b \in Nat : m = W!MaxOld /\ b = m + MaxWritten /\ W!Bytes = 1..b
  BY MaxOldIs, WriterAssumption DEF W!Bytes, W!SizesAssumption
<1>2. object = NULL \/ object \in Seq(W!Bytes)
  <2>1. PICK n \in OldSizes : object = IF n = NULL THEN NULL ELSE [i \in 1..n |-> i]
    BY DEF W!Init
  <2>2. CASE n = NULL
    BY <2>1, <2>2
  <2>3. CASE n # NULL
    <3>1. n \in Nat /\ n <= m
      BY <1>1, <2>3, MaxOldIs
    <3>2. n <= b
      BY <1>1, <3>1, WriterAssumption DEF W!SizesAssumption
    <3>3. [i \in 1..n |-> i] \in [1..n -> 1..b]
      BY <3>1, <3>2
    <3>4. [i \in 1..n |-> i] \in Seq(1..b)
      BY <3>1, <3>3, SeqDef
    <3>5. QED BY <1>1, <2>1, <2>3, <3>4
  <2>4. QED BY <2>2, <2>3
<1>3. <<>> \in Seq(W!Bytes) /\ Len(<<>>) = 0
  OBVIOUS
<1>4. QED BY <1>2, <1>3 DEF W!Init, W!UploadInv, W!NoUploadLeftBehind

LEMMA WriterGoesOn ==
  ASSUME W!UploadInv, pc' # "new",
         buffer' \in Seq(W!Bytes), written' \in Seq(W!Bytes),
         loc' \in Nat, Len(buffer') <= loc',
         upload' \in {"none", "open", "completed", "aborted"},
         upload' # "none" => initiated', multipart_upload' => initiated',
         pc' = "open" /\ initiated' => BlockSize <= loc',
         upload' = "open" => multipart_upload' \/ lost',
         W!NoUploadLeftBehind'
  PROVE  W!UploadInv'
BY DEF W!UploadInv, W!Bytes

(* A step that changes no more than the upload's control. *)
LEMMA WriterKeeps ==
  ASSUME W!UploadInv, pc # "new", pc' # "new", pc' # "open",
         UNCHANGED <<buffer, written, loc, initiated>>,
         upload' \in {"none", "open", "completed", "aborted"},
         upload' = "open" => multipart_upload' \/ lost',
         upload' # "none" => initiated, multipart_upload' => multipart_upload,
         W!NoUploadLeftBehind'
  PROVE  W!UploadInv'
BY DEF W!UploadInv, W!Bytes

(* write() adds bytes to the buffer. *)
LEMMA BytesAreAdded ==
  ASSUME W!UploadInv, NEW n \in WriteSizes, Len(written) + n <= MaxWritten,
         NEW data, data = [i \in 1..n |-> W!MaxOld + Len(written) + i],
         NEW buf, buf = buffer \o data, loc' = loc + n, written' = written \o data
  PROVE  /\ buf \in Seq(W!Bytes) /\ written' \in Seq(W!Bytes) /\ loc' \in Nat
         /\ loc <= loc' /\ Len(buf) \in Nat /\ Len(buf) <= loc'
         /\ data \in Seq(W!Bytes) /\ Len(data) = n /\ Len(buf) = Len(buffer) + n
<1>1. PICK m \in Nat : m = W!MaxOld /\ W!Bytes = 1..(m + MaxWritten) /\ MaxWritten \in Nat
  BY MaxOldIs, WriterAssumption DEF W!Bytes, W!SizesAssumption
<1>2. n \in Nat
  BY WriterAssumption DEF W!SizesAssumption
<1>3. PICK l \in Nat : l = Len(written) /\ l + n <= MaxWritten
  BY LenProperties DEF W!UploadInv
<1>4. PICK d : d = [i \in 1..n |-> m + l + i]
  OBVIOUS
<1>5. d \in [1..n -> W!Bytes]
  BY <1>1, <1>2, <1>3, <1>4
<1>6. d \in Seq(W!Bytes)
  BY <1>2, <1>5, SeqDef
<1>7. Len(d) = n
  BY <1>2, <1>5, <1>6, LenProperties
<1>8. PICK s \in Seq(W!Bytes), w \in Seq(W!Bytes) : s = buffer /\ w = written
  BY DEF W!UploadInv
<1>9. /\ s \o d \in Seq(W!Bytes) /\ Len(s \o d) = Len(s) + Len(d)
      /\ w \o d \in Seq(W!Bytes)
  BY <1>6, <1>8, ConcatProperties
<1>10. Len(s) \in Nat /\ loc \in Nat /\ Len(s) <= loc
  BY <1>8, LenProperties DEF W!UploadInv
<1>11. d = data
  BY <1>1, <1>3, <1>4
<1>12. buf = s \o d /\ written' = w \o d
  BY <1>8, <1>11
<1>13. Len(s \o d) \in Nat /\ Len(s \o d) <= loc + n /\ loc + n \in Nat /\ loc <= loc + n
  BY <1>2, <1>7, <1>9, <1>10
<1>14. Len(buf) = Len(buffer) + n
  BY <1>7, <1>8, <1>9, <1>12
<1>15. QED BY <1>6, <1>7, <1>9, <1>11, <1>12, <1>13, <1>14

LEMMA WriteStep ==
  ASSUME W!UploadInv, NEW n \in WriteSizes, W!Write(n)
  PROVE  W!UploadInv'
<1>1. PICK data : data = [i \in 1..n |-> W!MaxOld + Len(written) + i]
  OBVIOUS
<1>2. PICK buf : buf = buffer \o data
  OBVIOUS
<1>3. /\ pc = "open" /\ Len(written) + n <= MaxWritten
      /\ loc' = loc + n /\ written' = written \o data
  BY <1>1 DEF W!Write
<1>4. /\ buf \in Seq(W!Bytes) /\ written' \in Seq(W!Bytes) /\ loc' \in Nat
      /\ loc <= loc' /\ Len(buf) \in Nat /\ Len(buf) <= loc'
  BY <1>1, <1>2, <1>3, BytesAreAdded
<1>5. <<>> \in Seq(W!Bytes) /\ Len(<<>>) = 0
  OBVIOUS
<1>6. BlockSize \in Nat /\ loc \in Nat /\ (initiated => BlockSize <= loc)
  BY <1>3, WriterAssumption DEF W!SizesAssumption, W!UploadInv
<1>7. /\ upload \in {"none", "open", "completed", "aborted"}
      /\ upload # "none" => initiated
      /\ multipart_upload => initiated
      /\ upload = "open" => multipart_upload \/ lost
  BY DEF W!UploadInv
<1>8. \/ UNCHANGED <<upload, pc, initiated, multipart_upload, lost>> /\ buffer' \in {buf, <<>>}
      \/ /\ Len(buf) >= BlockSize /\ ~initiated /\ initiated'
         /\ \/ upload' = "open" /\ multipart_upload' /\ buffer' = <<>> /\ pc' = pc
            \/ /\ pc' = "done" /\ buffer' = buf /\ multipart_upload' = multipart_upload
               /\ \/ upload' = "open" /\ lost'
                  \/ upload' = upload /\ lost' = lost
  BY <1>1, <1>2 DEF W!Write, W!InitiateUpload, W!InitiateFails, W!S3!CreateUpload, W!End,
       W!uploadVars, W!storageVars
<1>9. buffer' \in Seq(W!Bytes) /\ Len(buffer') <= loc'
  <2>1. CASE buffer' = buf
    BY <1>4, <2>1
  <2>2. CASE buffer' = <<>>
    BY <1>4, <1>5, <2>2
  <2>3. QED BY <1>8, <2>1, <2>2
<1>10. /\ pc' # "new"
       /\ upload' \in {"none", "open", "completed", "aborted"}
       /\ upload' # "none" => initiated'
       /\ multipart_upload' => initiated'
       /\ upload' = "open" => multipart_upload' \/ lost'
  BY <1>3, <1>7, <1>8
<1>11. pc' = "open" /\ initiated' => BlockSize <= loc'
  <2>1. initiated' => initiated \/ Len(buf) >= BlockSize
    BY ONLY <1>8
  <2>2. QED BY <1>4, <1>6, <2>1
<1>12. W!NoUploadLeftBehind'
  BY <1>3, <1>7, <1>8 DEF W!NoUploadLeftBehind
<1>13. QED BY <1>4, <1>9, <1>10, <1>11, <1>12, WriterGoesOn

(* A step that changes none of the variables of UploadInv. *)
LEMMA WriterStutters ==
  ASSUME W!UploadInv,
         UNCHANGED <<object, upload, pc, buffer, written, loc, initiated, multipart_upload,
                     outcome, lost>>
  PROVE  W!UploadInv'
BY DEF W!UploadInv, W!Bytes, W!NoUploadLeftBehind

LEMMA OpenStep ==
  ASSUME W!UploadInv, NEW mode \in Modes, W!Open(mode)
  PROVE  W!UploadInv'
<1>1. /\ pc' = "open" /\ UNCHANGED <<upload, written, initiated, multipart_upload, outcome, lost>>
      /\ ~initiated
  BY DEF W!Open, W!storageVars, W!uploadVars, W!historyVars, W!UploadInv
<1>2. /\ upload \in {"none", "open", "completed", "aborted"}
      /\ upload # "none" => initiated
      /\ multipart_upload => initiated
      /\ upload = "open" => multipart_upload \/ lost
      /\ written \in Seq(W!Bytes)
  BY DEF W!UploadInv
<1>3. buffer' \in Seq(W!Bytes) /\ loc' \in Nat /\ Len(buffer') <= loc'
  <2>1. CASE UNCHANGED <<buffer, loc>>
    BY <2>1 DEF W!UploadInv
  <2>2. CASE object # NULL /\ loc' = Len(object) /\ buffer' \in {object, <<>>}
    <3>1. PICK s \in Seq(W!Bytes) : s = object
      BY <2>2 DEF W!UploadInv, W!Open
    <3>2. Len(s) \in Nat /\ <<>> \in Seq(W!Bytes) /\ Len(<<>>) = 0
      BY <3>1, LenProperties
    <3>3. CASE buffer' = s
      BY <2>2, <3>1, <3>2, <3>3
    <3>4. CASE buffer' = <<>>
      BY <2>2, <3>1, <3>2, <3>4
    <3>5. QED BY <2>2, <3>1, <3>3, <3>4
  <2>3. QED BY <2>1, <2>2 DEF W!Open
<1>4. W!NoUploadLeftBehind'
  BY <1>1 DEF W!NoUploadLeftBehind
<1>5. QED BY <1>1, <1>2, <1>3, <1>4, WriterGoesOn

(* What the upload's control may become in a step of close(), commit(),      *)
(* discard() and the end of the upload.                                      *)
LEMMA WriterEnds ==
  ASSUME W!UploadInv, pc # "new", pc' \notin {"new", "open"}, initiated \/ initiated',
         UNCHANGED <<buffer, written, loc>>, initiated => initiated',
         upload' \in {upload, "open", "completed", "aborted"},
         upload' # upload => initiated', multipart_upload' => multipart_upload \/ initiated',
         upload' = "open" => multipart_upload' \/ lost',
         pc' = "done" /\ upload' = "open" => outcome' = "interrupted" \/ lost'
  PROVE  W!UploadInv'
<1>1. W!NoUploadLeftBehind'
  BY DEF W!NoUploadLeftBehind
<1>2. /\ buffer' \in Seq(W!Bytes) /\ written' \in Seq(W!Bytes)
      /\ loc' \in Nat /\ Len(buffer') <= loc'
  BY DEF W!UploadInv
<1>3. /\ upload' \in {"none", "open", "completed", "aborted"}
      /\ upload' # "none" => initiated'
      /\ multipart_upload' => initiated'
  BY DEF W!UploadInv
<1>4. QED BY <1>1, <1>2, <1>3, WriterGoesOn

LEMMA CloseStep ==
  ASSUME W!UploadInv, W!Close
  PROVE  W!UploadInv'
<1>1. /\ pc = "open" /\ initiated' /\ pc' \in {"commit", "shutdown", "done"}
      /\ UNCHANGED <<buffer, written, loc>>
  BY DEF W!Close, W!CommitSmall, W!S3!PutObject, W!FinishFlush, W!InitiateFails, W!End,
       W!AfterFinalFlush
<1>2. \/ /\ loc < BlockSize \/ ~initiated
         /\ UNCHANGED <<upload, multipart_upload, lost>>
      \/ /\ loc >= BlockSize /\ pc' # "done"
         /\ UNCHANGED <<upload, multipart_upload, lost>>
      \/ upload' = "open" /\ multipart_upload' /\ pc' # "done"
      \/ upload' = "open" /\ lost' /\ UNCHANGED multipart_upload
  BY DEF W!Close, W!CommitSmall, W!S3!PutObject, W!FinishFlush, W!InitiateFails, W!End,
       W!InitiateUpload, W!S3!CreateUpload, W!uploadVars, W!storageVars
<1>3. loc < BlockSize => ~initiated
  <2>1. loc \in Nat /\ BlockSize \in Nat
    BY WriterAssumption DEF W!UploadInv, W!SizesAssumption
  <2>2. QED BY <1>1, <2>1 DEF W!UploadInv
<1>4. /\ upload # "none" => initiated
      /\ upload = "open" => multipart_upload \/ lost
  BY DEF W!UploadInv
<1>5. QED BY <1>1, <1>2, <1>3, <1>4, WriterEnds

LEMMA CommitStep ==
  ASSUME W!UploadInv, W!Commit
  PROVE  W!UploadInv'
<1>1. /\ pc = "deferred"
      /\ pc' = "commit" \/ (pc' = "done" /\ ~multipart_upload)
      /\ UNCHANGED <<buffer, written, loc, initiated, upload, multipart_upload, lost>>
  <2>1. /\ pc = "deferred"
        /\ pc' = "commit" \/ (pc' = "done" /\ ~multipart_upload)
    BY DEF W!Commit, W!CommitSmall, W!End
  <2>2. UNCHANGED <<buffer, written, loc, initiated, multipart_upload, lost>>
    BY DEF W!Commit, W!fileVars, W!uploadVars
  <2>3. upload' = upload
    BY DEF W!Commit, W!CommitSmall, W!S3!PutObject, W!storageVars
  <2>4. QED BY <2>1, <2>2, <2>3
<1>2. upload = "open" => multipart_upload \/ lost
  BY DEF W!UploadInv
<1>3. QED BY <1>1, <1>2, WriterKeeps DEF W!UploadInv, W!NoUploadLeftBehind

LEMMA DiscardStep ==
  ASSUME W!UploadInv, W!Discard
  PROVE  W!UploadInv'
<1>1. /\ pc = "deferred" /\ pc' = "done"
      /\ UNCHANGED <<buffer, written, loc, initiated>>
      /\ \/ ~multipart_upload /\ UNCHANGED <<upload, multipart_upload, lost>>
         \/ /\ ~multipart_upload' /\ upload' # "open"
            /\ upload' = upload \/ (upload = "open" /\ upload' = "aborted")
         \/ UNCHANGED <<upload, multipart_upload>> /\ lost'
  BY DEF W!Discard, W!S3!AbortUpload, W!End, W!fileVars, W!uploadVars, W!storageVars
<1>2. /\ upload = "open" => multipart_upload \/ lost
      /\ upload # "none" => initiated
      /\ upload \in {"none", "open", "completed", "aborted"}
  BY DEF W!UploadInv
<1>3. W!NoUploadLeftBehind'
  BY <1>1, <1>2 DEF W!NoUploadLeftBehind
<1>4. /\ upload' \in {"none", "open", "completed", "aborted"}
      /\ upload' = "open" => multipart_upload' \/ lost'
      /\ upload' # "none" => initiated
      /\ multipart_upload' => multipart_upload
  BY <1>1, <1>2
<1>5. QED BY <1>1, <1>3, <1>4, WriterKeeps

LEMMA WriterCompleteStep ==
  ASSUME W!UploadInv, W!Complete
  PROVE  W!UploadInv'
<1>1. /\ pc = "commit" /\ pc' \in {"done", "abort"}
      /\ UNCHANGED <<buffer, written, loc, initiated, multipart_upload, lost>>
      /\ \/ upload = "open" /\ upload' = "completed"
         \/ pc' = "abort" /\ upload' = upload
  BY DEF W!Complete, W!S3!CompleteUpload, W!End, W!fileVars, W!uploadVars, W!storageVars
<1>2. /\ upload = "open" => multipart_upload \/ lost
      /\ upload # "none" => initiated
      /\ upload \in {"none", "open", "completed", "aborted"}
  BY DEF W!UploadInv
<1>3. QED BY <1>1, <1>2, WriterKeeps DEF W!NoUploadLeftBehind

LEMMA WriterAbortStep ==
  ASSUME W!UploadInv, W!Abort
  PROVE  W!UploadInv'
<1>1. /\ pc = "abort" /\ pc' = "done"
      /\ UNCHANGED <<buffer, written, loc, initiated>> /\ ~multipart_upload'
      /\ \/ upload' \in {upload, "aborted"} /\ upload' # "open" /\ UNCHANGED lost
            /\ (upload' = "aborted" => upload \in {"open", "aborted"})
         \/ upload' = upload /\ lost'
  BY DEF W!Abort, W!S3!AbortUpload, W!fileVars, W!uploadVars, W!storageVars
<1>2. /\ upload # "none" => initiated
      /\ upload \in {"none", "open", "completed", "aborted"}
  BY DEF W!UploadInv
<1>3. QED BY <1>1, <1>2, WriterKeeps DEF W!NoUploadLeftBehind

LEMMA UserWaitsStep ==
  ASSUME W!UploadInv,
         W!ShutdownReturns \/ W!Interrupt \/ \E i \in W!Parts : W!PartResultFails(i)
  PROVE  W!UploadInv'
<1>1. /\ pc \in {"shutdown", "commit"} /\ pc' \in {"deferred", "abort", "done"}
      /\ UNCHANGED <<buffer, written, loc, initiated, upload, multipart_upload, lost>>
      /\ pc' = "done" => outcome' = "interrupted"
  BY DEF W!ShutdownReturns, W!Interrupt, W!PartResultFails, W!End, W!fileVars, W!uploadVars,
       W!storageVars, W!historyVars
<1>2. /\ upload = "open" => multipart_upload \/ lost
      /\ upload # "none" => initiated
      /\ upload \in {"none", "open", "completed", "aborted"}
  BY DEF W!UploadInv
<1>3. QED BY <1>1, <1>2, WriterKeeps DEF W!NoUploadLeftBehind

LEMMA WriterPoolStep ==
  ASSUME W!UploadInv, NEW i \in W!Parts, W!PoolStep(i)
  PROVE  W!UploadInv'
<1>1. UNCHANGED <<object, upload, pc, buffer, written, loc, initiated, multipart_upload,
                  outcome, lost>>
  BY DEF W!PoolStep, W!StartPart, W!PartUploaded, W!PartFails, W!S3!StorePart, W!fileVars,
       W!storageVars, W!historyVars
<1>2. QED BY <1>1, WriterStutters

LEMMA WriterStays ==
  ASSUME W!UploadInv, W!Next
  PROVE  W!UploadInv'
<1>1. ASSUME NEW mode \in Modes, W!Open(mode) PROVE W!UploadInv'
  BY <1>1, OpenStep
<1>2. ASSUME NEW n \in WriteSizes, W!Write(n) PROVE W!UploadInv'
  BY <1>2, WriteStep
<1>3. CASE W!Close
  BY <1>3, CloseStep
<1>4. CASE W!Commit
  BY <1>4, CommitStep
<1>5. CASE W!Discard
  BY <1>5, DiscardStep
<1>6. CASE W!UserStep \/ W!Interrupt
  BY <1>6, UserWaitsStep, WriterCompleteStep, WriterAbortStep DEF W!UserStep
<1>7. ASSUME NEW i \in W!Parts, W!PoolStep(i) PROVE W!UploadInv'
  BY <1>7, WriterPoolStep
<1>8. QED BY <1>1, <1>2, <1>3, <1>4, <1>5, <1>6, <1>7 DEF W!Next

--------------------------------------------------------------------------------
(* The client.                                                               *)

LEMMA ClientInitially == ClientInit => ClientInv
<1>1. ASSUME W!Init, NoTransfer PROVE ClientInv
  BY <1>1, WriterInitially DEF NoTransfer, ClientInv
<1>2. ASSUME Init, NoFile PROVE ClientInv
  <2>1. op \in Operations /\ op # "write"
    BY <1>2, TransferAssumption DEF Init
  <2>2. QED BY <1>2, <2>1, TransferInitially DEF ClientInv
<1>3. QED BY <1>1, <1>2 DEF ClientInit

LEMMA ClientStays == ClientInv /\ [ClientNext]_clientVars => ClientInv'
<1> SUFFICES ASSUME ClientInv, [ClientNext]_clientVars PROVE ClientInv'
  OBVIOUS
<1>1. CASE WriterStep
  <2>1. op = "write" /\ op' = "write" /\ W!Next
    BY <1>1 DEF WriterStep, transferVars, callVars
  <2>2. QED BY <2>1, WriterStays DEF ClientInv
<1>2. CASE TransferStep
  <2>1. op # "write" /\ Next
    BY <1>2 DEF TransferStep
  <2>2. TransferInv'
    BY <2>1, TransferStays DEF ClientInv
  <2>3. op' \in Operations /\ op' # "write"
    BY <2>2, TransferAssumption DEF TransferInv, TransferTypes
  <2>4. QED BY <2>2, <2>3 DEF ClientInv
<1>3. CASE UNCHANGED clientVars
  <2>1. UNCHANGED <<vars, fileVars>>
    BY <1>3 DEF clientVars
  <2>2. op' = op
    BY <2>1 DEF vars, callVars
  <2>3. CASE op = "write"
    <3>1. UNCHANGED <<object, upload, pc, buffer, written, loc, initiated, multipart_upload,
                      outcome, lost>>
      BY <2>1 DEF vars, fileVars, storageVars
    <3>2. QED BY <2>2, <2>3, <3>1, WriterStutters DEF ClientInv
  <2>4. CASE op # "write"
    BY <2>1, <2>2, <2>4, TransferStutters DEF ClientInv
  <2>5. QED BY <2>3, <2>4
<1>4. QED BY <1>1, <1>2, <1>3 DEF ClientNext

(* The invariant of the writer, and of the copies and reads in ranges.       *)
THEOREM Invariance == ClientSpec => []ClientInv
<1>1. ClientInit => ClientInv
  BY ClientInitially
<1>2. ClientInv /\ [ClientNext]_clientVars => ClientInv'
  BY ClientStays
<1>3. QED BY <1>1, <1>2, PTL DEF ClientSpec

(* A file that has ended, and a copy, leave an upload open only if they were *)
(* interrupted or S3 did not answer the create or abort call; the copy of    *)
(* AioS3FileSystem also when it fails (commit, discard,                      *)
(* _finish_multipart_upload, _copy_object_with_multipart_upload).            *)
THEOREM UploadsCorrect == ClientSpec => []NoUploadLeftBehind
<1>1. ClientInv => NoUploadLeftBehind
  <2>1. W!UploadInv => W!NoUploadLeftBehind
    BY DEF W!UploadInv
  <2>2. TransferInv => CopyUploadsEnd
    BY DEF TransferInv, UploadsAreOwned, CopyUploadsEnd
  <2>3. QED BY <2>1, <2>2 DEF ClientInv, NoUploadLeftBehind
<1>2. QED BY <1>1, Invariance, PTL

(* The target of a copy is what it was or the whole of the version that      *)
(* info() told of, in whatever order its ranges are copied and whichever     *)
(* fail; a copy that returned has copied it.                                 *)
THEOREM TargetCorrect == ClientSpec => []TargetIsOldOrCopy
<1>1. ClientInv => TargetIsOldOrCopy
  BY DEF ClientInv, TransferInv, TargetIsOldOrCopy, Copying
<1>2. QED BY <1>1, Invariance, PTL

(* A read in parallel ranges that returns gives the bytes of the range it    *)
(* was asked for, all of the version the file was opened with, in whatever   *)
(* order the requests are answered and whoever replaces the object.          *)
THEOREM ReadCorrect == ClientSpec => []ReadIsRange
<1>1. ClientInv => ReadIsRange
  BY DEF ClientInv, TransferInv, ReadIsRange
<1>2. QED BY <1>1, Invariance, PTL

--------------------------------------------------------------------------------
(* The sequences s[1], ..., s[n], one after the other, are x.                *)
Joins(S, s, n, x) ==
  \E f \in [0..n -> Seq(S)] :
    /\ f[0] = <<>> /\ f[n] = x
    /\ \A i \in 1..n : f[i] = f[i - 1] \o s[i]

(* Nothing joined is nothing. *)
LEMMA JoinsNothing ==
  ASSUME NEW S, NEW s
  PROVE  Joins(S, s, 0, <<>>)
<1>1. PICK f : f = [i \in 0..0 |-> <<>>]
  OBVIOUS
<1>2. <<>> \in Seq(S)
  BY EmptySeq
<1>3. f \in [0..0 -> Seq(S)] /\ f[0] = <<>>
  BY <1>1, <1>2
<1>4. \A i \in 1..0 : f[i] = f[i - 1] \o s[i]
  OBVIOUS
<1>5. QED BY <1>3, <1>4 DEF Joins

(* One more sequence is joined at the end. *)
LEMMA JoinsOneMore ==
  ASSUME NEW S, NEW s, NEW n \in Nat, NEW x, Joins(S, s, n, x), s[n + 1] \in Seq(S)
  PROVE  Joins(S, s, n + 1, x \o s[n + 1])
<1>1. PICK f \in [0..n -> Seq(S)] :
        f[0] = <<>> /\ f[n] = x /\ \A i \in 1..n : f[i] = f[i - 1] \o s[i]
  BY DEF Joins
<1>2. x \in Seq(S)
  BY <1>1
<1>3. PICK y \in Seq(S) : y = x \o s[n + 1]
  BY <1>2, ConcatProperties
<1>4. PICK g : g = [i \in 0..(n + 1) |-> IF i = n + 1 THEN y ELSE f[i]]
  OBVIOUS
<1>5. ASSUME NEW i \in 0..(n + 1), i # n + 1 PROVE i \in 0..n
  BY <1>5
<1>6. g \in [0..(n + 1) -> Seq(S)]
  BY <1>1, <1>3, <1>4, <1>5
<1>7. g[0] = <<>> /\ g[n + 1] = y
  <2>1. 0 \in 0..(n + 1) /\ n + 1 \in 0..(n + 1) /\ 0 # n + 1
    OBVIOUS
  <2>2. QED BY <1>1, <1>4, <2>1
<1>8. ASSUME NEW i \in 1..(n + 1) PROVE g[i] = g[i - 1] \o s[i]
  <2>1. i \in 0..(n + 1) /\ i - 1 \in 0..(n + 1) /\ i - 1 # n + 1
    OBVIOUS
  <2>2. g[i - 1] = f[i - 1]
    BY <1>4, <2>1
  <2>3. CASE i = n + 1
    <3>1. i - 1 = n
      BY <2>3
    <3>2. QED BY <1>1, <1>3, <1>7, <2>2, <2>3, <3>1
  <2>4. CASE i # n + 1
    <3>1. i \in 1..n /\ g[i] = f[i]
      BY <1>4, <2>1, <2>4
    <3>2. QED BY <1>1, <2>2, <3>1
  <2>5. QED BY <2>3, <2>4
<1>9. QED BY <1>3, <1>6, <1>7, <1>8 DEF Joins

(* Sequences of sequences can be joined. *)
LEMMA JoinsExist ==
  ASSUME NEW S, NEW s \in Seq(Seq(S))
  PROVE  \E x \in Seq(S) : Joins(S, s, Len(s), x)
<1> DEFINE T == {n \in 0..Len(s) : \E x \in Seq(S) : Joins(S, s, n, x)}
<1>1. Len(s) \in Nat /\ \A i \in 1..Len(s) : s[i] \in Seq(S)
  BY LenProperties, ElementOfSeq
<1>2. 0 \in T
  <2>1. 0 \in 0..Len(s) /\ <<>> \in Seq(S)
    BY <1>1, EmptySeq
  <2>2. Joins(S, s, 0, <<>>)
    BY JoinsNothing
  <2>3. QED BY <2>1, <2>2
<1>3. ASSUME NEW n \in 0..Len(s), n \in T, n + 1 \in 0..Len(s) PROVE n + 1 \in T
  <2>1. PICK x \in Seq(S) : Joins(S, s, n, x)
    BY <1>3
  <2>2. n \in Nat /\ n + 1 \in 1..Len(s)
    BY <1>1, <1>3
  <2>3. s[n + 1] \in Seq(S)
    BY <1>1, <2>2
  <2>4. Joins(S, s, n + 1, x \o s[n + 1])
    BY ONLY <2>1, <2>2, <2>3, JoinsOneMore
  <2>5. x \o s[n + 1] \in Seq(S)
    BY <2>3, ConcatProperties
  <2>6. QED BY <1>3, <2>4, <2>5
<1> HIDE DEF T
<1>4. \A i \in 0..Len(s) : i \in T
  BY <1>1, <1>2, <1>3, Induction
<1>5. Len(s) \in T
  BY <1>1, <1>4
<1>6. QED BY <1>5 DEF T

(* That is what FlattenSeq computes. *)
LEMMA JoinsFlatten ==
  ASSUME NEW S, NEW s \in Seq(Seq(S)), NEW x, Joins(S, s, Len(s), x)
  PROVE  FlattenSeq(s) = x
<1>1. PICK n \in Nat : n = Len(s)
  BY LenProperties
<1>2. PICK h \in [0..n -> Seq(S)] :
        h[0] = <<>> /\ h[n] = x /\ \A i \in 1..n : h[i] = h[i - 1] \o s[i]
  BY <1>1 DEF Joins
<1>3. \A i \in 1..n : s[i] \in Seq(S)
  BY <1>1, ElementOfSeq
<1>4. CASE n = 0
  <2>1. FlattenSeq(s) = s
    BY <1>1, <1>4 DEF FlattenSeq
  <2>2. s = <<>>
    BY <1>1, <1>4, EmptySeq
  <2>3. QED BY <1>2, <1>4, <2>1, <2>2
<1>5. CASE n # 0
  <2> DEFINE Flat(f) == [i \in 1..Len(s) |-> IF i = 1 THEN s[i] ELSE f[i - 1] \o s[i]]
             f == CHOOSE g : g = Flat(g)
             k == [i \in 1..Len(s) |-> h[i]]
  <2>1. FlattenSeq(s) = f[n]
    BY <1>1, <1>5 DEF FlattenSeq
  <2>2. k = Flat(k)
    <3>1. ASSUME NEW i \in 1..Len(s)
          PROVE  h[i] = IF i = 1 THEN s[i] ELSE k[i - 1] \o s[i]
      <4>1. h[i] = h[i - 1] \o s[i] /\ s[i] \in Seq(S)
        BY <1>1, <1>2, <1>3
      <4>2. CASE i = 1
        <5>1. i - 1 = 0
          BY <4>2
        <5>2. <<>> \o s[i] = s[i]
          BY <4>1, ConcatEmptySeq
        <5>3. QED BY <1>2, <4>1, <4>2, <5>1, <5>2
      <4>3. CASE i # 1
        <5>1. i - 1 \in 1..Len(s)
          BY <1>1, <4>3
        <5>2. k[i - 1] = h[i - 1]
          BY <5>1
        <5>3. QED BY <4>1, <4>3, <5>2
      <4>4. QED BY <4>2, <4>3
    <3>2. QED BY <3>1
  <2>3. f = Flat(f)
    BY <2>2, Zenon
  <2>4. \A i \in 1..n : f[i] = IF i = 1 THEN s[i] ELSE f[i - 1] \o s[i]
    BY <1>1, <2>3, Zenon
  <2>5. \A i \in 1..n : k[i] = IF i = 1 THEN s[i] ELSE k[i - 1] \o s[i]
    BY <1>1, <2>2, Zenon
  <2>6. k[n] = x
    BY <1>1, <1>2, <1>5
  <2> HIDE DEF f, k
  <2> DEFINE T == {j \in 0..n : j = 0 \/ f[j] = k[j]}
  <2>7. ASSUME NEW i \in 0..n, i \in T, i + 1 \in 0..n PROVE i + 1 \in T
    <3>1. i + 1 \in 1..n /\ (i + 1) - 1 = i
      BY <2>7
    <3>2. CASE i = 0
      BY <3>1, <3>2, <2>4, <2>5
    <3>3. CASE i # 0
      <4>1. f[i] = k[i]
        BY <2>7, <3>3
      <4>2. f[i + 1] = k[i + 1]
        BY <3>1, <3>3, <4>1, <2>4, <2>5
      <4>3. QED BY <2>7, <4>2
    <3>4. QED BY <3>2, <3>3
  <2>8. 0 \in T
    OBVIOUS
  <2> HIDE DEF T
  <2>9. \A i \in 0..n : i \in T
    BY <2>7, <2>8, Induction
  <2>10. f[n] = k[n]
    BY <1>5, <2>9 DEF T
  <2>11. QED BY <2>1, <2>6, <2>10
<1>6. QED BY <1>4, <1>5

Associate(x, y, z) == (x \o y) \o z = x \o (y \o z)

(* Concatenation is associative. *)
LEMMA Associates ==
  ASSUME NEW S, NEW x \in Seq(S), NEW y \in Seq(S), NEW z \in Seq(S)
  PROVE  Associate(x, y, z)
BY DEF Associate

(* Two rows of sequences, joined, are joined one after the other. *)
LEMMA JoinsConcat ==
  ASSUME NEW S, NEW s \in Seq(Seq(S)), NEW t \in Seq(Seq(S)), NEW x, NEW y,
         Joins(S, s, Len(s), x), Joins(S, t, Len(t), y)
  PROVE  Joins(S, s \o t, Len(s \o t), x \o y)
<1>1. PICK n \in Nat, m \in Nat : n = Len(s) /\ m = Len(t)
  BY LenProperties
<1>2. PICK f \in [0..n -> Seq(S)] :
        f[0] = <<>> /\ f[n] = x /\ \A i \in 1..n : f[i] = f[i - 1] \o s[i]
  BY <1>1 DEF Joins
<1>3. PICK g \in [0..m -> Seq(S)] :
        g[0] = <<>> /\ g[m] = y /\ \A i \in 1..m : g[i] = g[i - 1] \o t[i]
  BY <1>1 DEF Joins
<1>4. /\ Len(s \o t) = n + m
      /\ \A i \in 1..(n + m) : (s \o t)[i] = IF i <= n THEN s[i] ELSE t[i - n]
  BY <1>1, ConcatProperties
<1>5. \A i \in 1..m : t[i] \in Seq(S)
  BY <1>1, ElementOfSeq
<1>6. PICK h : h = [i \in 0..(n + m) |-> IF i <= n THEN f[i] ELSE x \o g[i - n]]
  OBVIOUS
<1>7. x \in Seq(S) /\ \A j \in 0..m : g[j] \in Seq(S) /\ x \o g[j] \in Seq(S)
  BY <1>2, <1>3, ConcatProperties
<1>8. h \in [0..(n + m) -> Seq(S)]
  <2>1. ASSUME NEW i \in 0..(n + m) PROVE (IF i <= n THEN f[i] ELSE x \o g[i - n]) \in Seq(S)
    <3>1. CASE i <= n
      BY <1>2, <3>1
    <3>2. CASE ~(i <= n)
      <4>1. i - n \in 0..m
        BY <3>2
      <4>2. QED BY <1>7, <3>2, <4>1
    <3>3. QED BY <3>1, <3>2
  <2>2. QED BY <1>6, <2>1
<1>9. h[0] = <<>>
  BY <1>2, <1>6
<1>10. \A j \in 0..m : h[n + j] = x \o g[j]
  <2>1. ASSUME NEW j \in 0..m PROVE h[n + j] = x \o g[j]
    <3>1. n + j \in 0..(n + m) /\ (n + j) - n = j
      OBVIOUS
    <3>2. CASE j = 0
      <4>1. n + j <= n /\ n + j = n
        BY <3>2
      <4>2. h[n + j] = f[n]
        BY <1>6, <3>1, <4>1
      <4>3. x \o <<>> = x
        BY <1>7, ConcatEmptySeq
      <4>4. QED BY <1>2, <1>3, <3>2, <4>2, <4>3
    <3>3. CASE j # 0
      <4>1. ~(n + j <= n)
        BY <3>3
      <4>2. QED BY <1>6, <3>1, <4>1
    <3>4. QED BY <3>2, <3>3
  <2>2. QED BY <2>1
<1>11. h[n + m] = x \o y
  <2>1. m \in 0..m
    OBVIOUS
  <2>2. h[n + m] = x \o g[m]
    BY <1>10, <2>1
  <2>3. QED BY <1>3, <2>2
<1>12. ASSUME NEW i \in 1..(n + m) PROVE h[i] = h[i - 1] \o (s \o t)[i]
  <2>1. CASE i <= n
    <3>1. i \in 1..n /\ i \in 0..(n + m) /\ i - 1 \in 0..(n + m) /\ i - 1 <= n
      BY <2>1
    <3>2. h[i] = f[i] /\ h[i - 1] = f[i - 1]
      BY <1>6, <2>1, <3>1
    <3>3. QED BY <1>2, <1>4, <2>1, <3>1, <3>2
  <2>2. CASE ~(i <= n)
    <3>1. PICK j \in 1..m : j = i - n
      BY <2>2
    <3>2. j \in 0..m /\ j - 1 \in 0..m /\ n + j = i /\ n + (j - 1) = i - 1
      BY <3>1
    <3>3. h[i] = x \o g[j] /\ h[i - 1] = x \o g[j - 1]
      BY <1>10, <3>2
    <3>4. (s \o t)[i] = t[j]
      BY <1>4, <2>2, <3>1
    <3>5. g[j] = g[j - 1] \o t[j]
      BY <1>3
    <3>6. (x \o g[j - 1]) \o t[j] = x \o (g[j - 1] \o t[j])
      <4>1. x \in Seq(S) /\ g[j - 1] \in Seq(S) /\ t[j] \in Seq(S)
        <5>1. x \in Seq(S) /\ t[j] \in Seq(S)
          BY <1>5, <1>7
        <5>2. g[j - 1] \in Seq(S)
          BY <3>2
        <5>3. QED BY <5>1, <5>2
      <4>2. Associate(x, g[j - 1], t[j])
        BY ONLY <4>1, Associates
      <4>3. QED BY <4>2 DEF Associate
    <3>7. QED BY <3>3, <3>4, <3>5, <3>6
  <2>3. QED BY <2>1, <2>2
<1>13. \E F \in [0..(n + m) -> Seq(S)] :
          /\ F[0] = <<>> /\ F[n + m] = x \o y
          /\ \A i \in 1..(n + m) : F[i] = F[i - 1] \o (s \o t)[i]
  BY <1>8, <1>9, <1>11, <1>12
<1>14. QED BY <1>4, <1>13 DEF Joins

FlattensTo(s, x) == FlattenSeq(s) = x

(* FlattenSeq of sequences of a set, without its recursion.                  *)
LEMMA FlattenType ==
  ASSUME NEW S, NEW s \in Seq(Seq(S))
  PROVE  FlattenSeq(s) \in Seq(S)
BY JoinsExist, JoinsFlatten

(* FlattenSeq of two rows of sequences. *)
LEMMA FlattenConcat ==
  ASSUME NEW S, NEW s \in Seq(Seq(S)), NEW t \in Seq(Seq(S))
  PROVE  FlattensTo(s \o t, FlattenSeq(s) \o FlattenSeq(t))
<1>1. PICK x \in Seq(S) : Joins(S, s, Len(s), x)
  BY JoinsExist
<1>2. PICK y \in Seq(S) : Joins(S, t, Len(t), y)
  BY JoinsExist
<1>3. Joins(S, s \o t, Len(s \o t), x \o y)
  BY ONLY s \in Seq(Seq(S)), t \in Seq(Seq(S)), <1>1, <1>2, JoinsConcat
<1>4. s \o t \in Seq(Seq(S))
  BY ConcatProperties
<1>5. FlattenSeq(s \o t) = x \o y
  BY ONLY <1>3, <1>4, JoinsFlatten
<1>6. FlattenSeq(s) = x /\ FlattenSeq(t) = y
  BY ONLY s \in Seq(Seq(S)), t \in Seq(Seq(S)), <1>1, <1>2, JoinsFlatten
<1>7. QED BY <1>5, <1>6 DEF FlattensTo

(* FlattenSeq of a row of none, of one and of two. *)
LEMMA FlattenNone == FlattenSeq(<<>>) = <<>>
<1>1. Len(<<>>) = 0
  OBVIOUS
<1>2. QED BY <1>1 DEF FlattenSeq

LEMMA FlattenOne ==
  ASSUME NEW S, NEW x \in Seq(S)
  PROVE  FlattenSeq(<<x>>) = x
<1>1. PICK s : s = <<x>>
  OBVIOUS
<1>2. s \in Seq(Seq(S)) /\ Len(s) = 1 /\ s[1] = x
  BY <1>1
<1>3. Joins(S, s, 0, <<>>)
  BY JoinsNothing
<1>4. Joins(S, s, 1, <<>> \o x)
  <2>1. 0 \in Nat /\ 0 + 1 = 1 /\ s[0 + 1] \in Seq(S)
    BY <1>2
  <2>2. Joins(S, s, 0 + 1, <<>> \o s[0 + 1])
    BY ONLY <1>3, <2>1, JoinsOneMore
  <2>3. QED BY <1>2, <2>1, <2>2
<1>5. <<>> \o x = x
  BY ConcatEmptySeq
<1>6. Joins(S, s, Len(s), x)
  BY <1>2, <1>4, <1>5
<1>7. FlattenSeq(s) = x
  BY ONLY <1>2, <1>6, JoinsFlatten
<1>8. QED BY <1>1, <1>7

LEMMA FlattenTwo ==
  ASSUME NEW S, NEW x \in Seq(S), NEW y \in Seq(S)
  PROVE  FlattenSeq(<<x, y>>) = x \o y
<1>1. \A z \in Seq(S) : <<z>> \in Seq(Seq(S))
  OBVIOUS
<1>2. FlattenSeq(<<x>> \o <<y>>) = FlattenSeq(<<x>>) \o FlattenSeq(<<y>>)
  <2>1. <<x>> \in Seq(Seq(S)) /\ <<y>> \in Seq(Seq(S))
    BY <1>1
  <2>2. FlattensTo(<<x>> \o <<y>>, FlattenSeq(<<x>>) \o FlattenSeq(<<y>>))
    BY ONLY <2>1, FlattenConcat
  <2>3. QED BY <2>2 DEF FlattensTo
<1>3. <<x>> \o <<y>> = <<x, y>>
  <2>1. PICK p \in Seq(Seq(S)), q \in Seq(Seq(S)), r \in Seq(Seq(S)) :
          p = <<x>> /\ q = <<y>> /\ r = <<x, y>>
    <3>1. <<x>> \in Seq(Seq(S)) /\ <<y>> \in Seq(Seq(S))
      BY <1>1
    <3>2. <<x, y>> \in Seq(Seq(S))
      <4>1. PICK A : A = Seq(S)
        OBVIOUS
      <4>2. x \in A /\ y \in A
        BY <4>1
      <4>3. <<x, y>> \in Seq(A)
        BY ONLY <4>2
      <4>4. QED BY <4>1, <4>3
    <3>3. QED BY ONLY <3>1, <3>2, Zenon
  <2>2. /\ Len(p) = 1 /\ Len(q) = 1 /\ Len(r) = 2
        /\ p[1] = x /\ q[1] = y /\ r[1] = x /\ r[2] = y
    BY <2>1
  <2>3. /\ p \o q \in Seq(Seq(S)) /\ Len(p \o q) = Len(p) + Len(q)
        /\ \A i \in 1..(Len(p) + Len(q)) :
             (p \o q)[i] = IF i <= Len(p) THEN p[i] ELSE q[i - Len(p)]
    BY ConcatProperties
  <2>4. Len(p \o q) = Len(r)
    BY <2>2, <2>3
  <2>5. ASSUME NEW i \in 1..Len(p \o q) PROVE (p \o q)[i] = r[i]
    <3>1. i \in {1, 2} /\ 2 - 1 = 1
      BY <2>2, <2>3
    <3>2. QED BY <2>2, <2>3, <3>1
  <2>6. p \o q = r
    BY <2>3, <2>4, <2>5, SeqEqual
  <2>7. QED BY <2>1, <2>6
<1>4. FlattenSeq(<<x>>) = x /\ FlattenSeq(<<y>>) = y
  BY FlattenOne
<1>5. QED BY <1>2, <1>3, <1>4
--------------------------------------------------------------------------------
(* How a buffer is cut into parts.                                           *)

(* The file's operators are those of the modules they come from. *)
LEMMA FlattenSame ==
  ASSUME NEW s
  PROVE  W!FlattenSeq(s) = FlattenSeq(s) /\ W!S3!FlattenSeq(s) = FlattenSeq(s)
BY Zenon DEF W!FlattenSeq, W!S3!FlattenSeq, FlattenSeq

(* The operators of the writer's instance are those of this module. *)
LEMMA MinSame ==
  ASSUME NEW T
  PROVE  W!Min(T) = Min(T)
BY DEF W!Min, Min

LEMMA RangesSame ==
  /\ \A n, d : W!Ceil(n, d) = Ceil(n, d)
  /\ \A a, b, w, k : W!GetRanges(a, b, w, k) = GetRanges(a, b, w, k)
  /\ \A s, r : W!Slice(s, r) = Slice(s, r)
<1>1. \A n, d : W!Ceil(n, d) = Ceil(n, d)
  BY DEF W!Ceil, Ceil
<1>2. \A s, r : W!Slice(s, r) = Slice(s, r)
  BY DEF W!Slice, Slice
<1>3. ASSUME NEW a, NEW b, NEW w, NEW k PROVE W!GetRanges(a, b, w, k) = GetRanges(a, b, w, k)
  BY Zenon, MinSame, <1>1 DEF W!GetRanges, GetRanges, W!Min, Min
<1>4. QED BY <1>1, <1>2, <1>3

(* What is assumed of the sizes. *)
LEMMA SizesAre ==
  /\ MinPart \in Nat /\ MaxPart \in Nat /\ BlockSize \in Nat /\ MaxWorkers \in Nat
  /\ 1 <= MinPart /\ MinPart <= BlockSize /\ BlockSize <= MaxPart
  /\ WriteSizes \subseteq Nat /\ MaxWritten \in Nat /\ NULL \notin Nat
BY WriterAssumption DEF W!SizesAssumption

(* Parts of a size. *)
Sized(S, low, high) == {x \in Seq(S) : Len(x) \in low..high}

(* A row of sequences of some sizes is a row of sequences. *)
LEMMA SizedAreSequences ==
  ASSUME NEW S, NEW low, NEW high, NEW s \in Seq(Sized(S, low, high))
  PROVE  s \in Seq(Seq(S))
<1>1. Sized(S, low, high) \subseteq Seq(S)
  BY DEF Sized
<1>2. QED BY <1>1, SeqMonotonic

(* What two consecutive blocks become: the same bytes, in parts no larger    *)
(* than a part may be, and no smaller if the first block is full.            *)
LEMMA UploadsKeep ==
  ASSUME NEW S, NEW d \in Seq(S), NEW e \in Seq(S),
         Len(d) \in 1..BlockSize, Len(e) \in 0..BlockSize
  PROVE  /\ W!Uploads(d, e) \in Seq(Sized(S, 1, MaxPart))
         /\ FlattensTo(W!Uploads(d, e), d \o e)
         /\ Len(d) = BlockSize /\ 2 * MinPart <= MaxPart =>
              W!Uploads(d, e) \in Seq(Sized(S, MinPart, MaxPart))
         /\ e = <<>> => W!Uploads(d, e) = <<d>>
<1> DEFINE low == IF Len(d) = BlockSize /\ 2 * MinPart <= MaxPart THEN MinPart ELSE 1
           Good(s) == s \in Seq(Sized(S, 1, MaxPart)) /\ s \in Seq(Sized(S, low, MaxPart))
<1>1. PICK n \in Nat, m \in Nat : n = Len(d) /\ m = Len(e)
  BY LenProperties
<1>2. n \in 1..BlockSize /\ m \in 0..BlockSize
  BY <1>1
<1>3. PICK both \in Seq(S) : both = d \o e /\ Len(both) = n + m
  BY <1>1, ConcatProperties
<1>4. low \in 1..MaxPart /\ low <= MinPart /\ (n < BlockSize => low = 1)
      /\ (low > 1 => 2 * low <= MaxPart)
  BY SizesAre, <1>1, <1>2
<1>5. d \in Sized(S, 1, MaxPart) /\ d \in Sized(S, low, MaxPart)
  BY SizesAre, <1>1, <1>2, <1>4 DEF Sized
<1> HIDE DEF low
<1>6. Good(W!Uploads(d, e)) /\ FlattensTo(W!Uploads(d, e), d \o e)
      /\ (e = <<>> => W!Uploads(d, e) = <<d>>)
  <2>1. CASE m \in 1..(MinPart - 1) /\ n + m < MaxPart
    <3>1. W!Uploads(d, e) = <<both>>
      BY <1>1, <1>3, <2>1 DEF W!Uploads
    <3>2. both \in Sized(S, 1, MaxPart) /\ both \in Sized(S, low, MaxPart)
      BY SizesAre, <1>2, <1>3, <1>4, <2>1 DEF Sized
    <3>3. Good(<<both>>)
      BY <3>2
    <3>4. FlattenSeq(<<both>>) = both
      BY FlattenOne
    <3>5. e # <<>>
      BY <1>1, <2>1, EmptySeq
    <3>6. QED BY <1>3, <3>1, <3>3, <3>4, <3>5 DEF FlattensTo
  <2>2. CASE m \in 1..(MinPart - 1) /\ ~(n + m < MaxPart)
    <3>1. PICK t \in Nat, h \in Nat : t = n + m /\ h = t \div 2
      BY <1>1
    <3>2. 2 * h <= t /\ t <= 2 * h + 1
      BY <3>1
    <3>3. W!Uploads(d, e) = <<SubSeq(both, 1, h), SubSeq(both, h + 1, t)>>
      BY <1>1, <1>3, <2>2, <3>1 DEF W!Uploads
    <3>4. 0 <= h /\ h <= t /\ t <= Len(both) /\ t = Len(both) /\ 0 + 1 = 1
      BY <1>3, <3>1, <3>2
    <3>5. SubSeq(both, 1, h) = Slice(both, <<0, h>>) /\ SubSeq(both, h + 1, t) = Slice(both, <<h, t>>)
      BY <3>4 DEF Slice
    <3>6. PICK x \in Seq(S), y \in Seq(S) :
            /\ x = Slice(both, <<0, h>>) /\ Len(x) = h
            /\ y = Slice(both, <<h, t>>) /\ Len(y) = t - h
      <4>1. Slice(both, <<0, h>>) \in Seq(S) /\ Len(Slice(both, <<0, h>>)) = h - 0
        BY ONLY both \in Seq(S), 0 \in Nat, h \in Nat, <3>4, SliceIs
      <4>2. Slice(both, <<h, t>>) \in Seq(S) /\ Len(Slice(both, <<h, t>>)) = t - h
        BY ONLY both \in Seq(S), t \in Nat, h \in Nat, <3>4, SliceIs
      <4>3. QED BY <4>1, <4>2
    <3>7. Joined(both, 0, h, t)
      BY ONLY both \in Seq(S), 0 \in Nat, h \in Nat, t \in Nat, <3>4, SlicesJoin
    <3>8. x \o y = both
      BY <3>4, <3>6, <3>7, SliceIsAll DEF Joined
    <3>9. h \in low..MaxPart /\ t - h \in low..MaxPart /\ 1 <= low
      <4>1. t <= MaxPart + MaxPart - 1 /\ t >= MaxPart /\ t >= 2
        BY SizesAre, <1>2, <2>2, <3>1
      <4>2. low = 1 \/ 2 * low <= MaxPart
        BY <1>4
      <4>3. QED BY <1>4, <3>2, <4>1, <4>2, SizesAre
    <3>10. /\ x \in Sized(S, 1, MaxPart) /\ x \in Sized(S, low, MaxPart)
           /\ y \in Sized(S, 1, MaxPart) /\ y \in Sized(S, low, MaxPart)
      BY <1>4, <3>6, <3>9, SizesAre DEF Sized
    <3>11. W!Uploads(d, e) = <<x, y>>
      BY <3>3, <3>5, <3>6
    <3>12. Good(<<x, y>>)
      BY <3>10
    <3>13. FlattenSeq(<<x, y>>) = x \o y
      BY FlattenTwo
    <3>14. e # <<>>
      BY <1>1, <2>2, EmptySeq
    <3>15. QED BY <1>3, <3>8, <3>11, <3>12, <3>13, <3>14 DEF FlattensTo
  <2>3. CASE m = 0
    <3>1. e = <<>>
      BY <1>1, <2>3, EmptySeq
    <3>2. W!Uploads(d, e) = <<d>>
      BY <1>1, <2>3, <3>1 DEF W!Uploads
    <3>3. Good(<<d>>)
      BY <1>5
    <3>4. FlattenSeq(<<d>>) = d /\ d \o e = d
      BY <3>1, FlattenOne, ConcatEmptySeq
    <3>5. QED BY <3>2, <3>3, <3>4 DEF FlattensTo
  <2>4. CASE m >= MinPart
    <3>1. e # <<>>
      BY SizesAre, <1>1, <2>4, EmptySeq
    <3>2. W!Uploads(d, e) = <<d, e>>
      BY SizesAre, <1>1, <2>4, <3>1 DEF W!Uploads
    <3>3. e \in Sized(S, 1, MaxPart) /\ e \in Sized(S, low, MaxPart)
      BY SizesAre, <1>1, <1>2, <1>4, <2>4 DEF Sized
    <3>4. Good(<<d, e>>)
      BY <1>5, <3>3
    <3>5. FlattenSeq(<<d, e>>) = d \o e
      BY FlattenTwo
    <3>6. QED BY <3>1, <3>2, <3>4, <3>5 DEF FlattensTo
  <2>5. QED BY SizesAre, <1>2, <2>1, <2>2, <2>3, <2>4
<1>7. Len(d) = BlockSize /\ 2 * MinPart <= MaxPart => low = MinPart
  BY DEF low
<1>8. QED BY <1>6, <1>7

(* The k-th block of a buffer, and where the first i pairs of blocks end.    *)
BlockOf(buf, k) == SubSeq(buf, (k - 1) * BlockSize + 1, Min({k * BlockSize, Len(buf)}))
Upto(buf, i) == IF i * (2 * BlockSize) <= Len(buf) THEN i * (2 * BlockSize) ELSE Len(buf)

(* The products in the bounds of the blocks. *)
LEMMA Multiples ==
  ASSUME NEW i \in Nat \ {0}
  PROVE  \E x \in Nat : /\ x = (i - 1) * (2 * BlockSize) /\ i * (2 * BlockSize) = x + 2 * BlockSize
                        /\ (2 * i - 1 - 1) * BlockSize = x
                        /\ (2 * i - 1) * BlockSize = x + BlockSize
                        /\ (2 * i) * BlockSize = x + 2 * BlockSize
<1>1. PICK B \in Nat, j \in Nat : B = BlockSize /\ j = i - 1
  BY SizesAre
<1>2. PICK x \in Nat : x = j * (2 * B)
  OBVIOUS
<1>3. i * (2 * B) = x + 2 * B
  <2>1. i = j + 1
    BY <1>1
  <2>2. (j + 1) * (2 * B) = j * (2 * B) + 2 * B
    OBVIOUS
  <2>3. QED BY <1>2, <2>1, <2>2
<1>4. 2 * i - 1 - 1 = 2 * j /\ 2 * i - 1 = 2 * j + 1 /\ 2 * i = 2 * j + 2
  BY <1>1
<1>5. (2 * j) * B = x
  BY <1>2
<1>6. (2 * j + 1) * B = (2 * j) * B + B /\ (2 * j + 2) * B = (2 * j) * B + 2 * B
  OBVIOUS
<1>7. QED BY <1>1, <1>2, <1>3, <1>4, <1>5, <1>6

(* A pair of blocks: the first is not empty, and full if the second is not.  *)
IsPair(buf, i, a, b, d) ==
  /\ a < b /\ b <= d /\ d <= Len(buf)
  /\ a = (i - 1) * (2 * BlockSize) /\ d = Upto(buf, i)
  /\ b - a <= BlockSize /\ d - b <= BlockSize
  /\ (Len(buf) - a >= BlockSize => b - a = BlockSize)
  /\ (Len(buf) - a <= BlockSize => d = b)
  /\ BlockOf(buf, 2 * i - 1) = Slice(buf, <<a, b>>)
  /\ BlockOf(buf, 2 * i) = Slice(buf, <<b, d>>)

(* Where the i-th pair of blocks starts, meets and ends. *)
LEMMA PairOfBlocks ==
  ASSUME NEW S, NEW buf \in Seq(S), NEW i \in Nat \ {0}, (i - 1) * (2 * BlockSize) < Len(buf)
  PROVE  \E a, b, d \in Nat : IsPair(buf, i, a, b, d)
<1>1. PICK l \in Nat, B \in Nat : l = Len(buf) /\ B = BlockSize /\ B >= 1
  BY LenProperties, SizesAre
<1>a. PICK a \in Nat :
        /\ a = (i - 1) * (2 * BlockSize) /\ i * (2 * BlockSize) = a + 2 * BlockSize
        /\ (2 * i - 1 - 1) * BlockSize = a
        /\ (2 * i - 1) * BlockSize = a + BlockSize
        /\ (2 * i) * BlockSize = a + 2 * BlockSize
  BY Multiples
<1>2. /\ a = (i - 1) * (2 * B) /\ i * (2 * B) = a + 2 * B
      /\ (2 * i - 1 - 1) * B = a
      /\ (2 * i - 1) * B = a + B
      /\ (2 * i) * B = a + 2 * B
  BY <1>1, <1>a
<1>3. PICK b \in Nat, d \in Nat : /\ b = (IF a + B <= l THEN a + B ELSE l)
                                  /\ d = (IF a + 2 * B <= l THEN a + 2 * B ELSE l)
  <2>1. /\ (IF a + B <= l THEN a + B ELSE l) \in Nat
        /\ (IF a + 2 * B <= l THEN a + 2 * B ELSE l) \in Nat
    BY ONLY l \in Nat, B \in Nat, a \in Nat
  <2>2. QED BY ONLY <2>1
<1>4. a < l
  <2>1. a < Len(buf)
    BY <1>a, Zenon
  <2>2. QED BY ONLY <1>1, <2>1
<1>5. Upto(buf, i) = d
  BY <1>1, <1>2, <1>3 DEF Upto
<1>6. BlockOf(buf, 2 * i - 1) = SubSeq(buf, a + 1, b)
  <2>1. Min({a + B, l}) = b
    <3>1. a + B \in Nat
      OBVIOUS
    <3>2. QED BY <3>1, <1>3, MinOfTwo
  <2>2. BlockOf(buf, 2 * i - 1)
          = SubSeq(buf, (2 * i - 1 - 1) * B + 1, Min({(2 * i - 1) * B, l}))
    BY <1>1 DEF BlockOf
  <2>3. QED BY <1>2, <2>1, <2>2
<1>7. BlockOf(buf, 2 * i) = SubSeq(buf, a + B + 1, d)
  <2>1. Min({a + 2 * B, l}) = d
    <3>1. a + 2 * B \in Nat
      OBVIOUS
    <3>2. QED BY <3>1, <1>3, MinOfTwo
  <2>2. BlockOf(buf, 2 * i) = SubSeq(buf, (2 * i - 1) * B + 1, Min({(2 * i) * B, l}))
    BY <1>1 DEF BlockOf
  <2>3. QED BY <1>2, <2>1, <2>2
<1>8. SubSeq(buf, a + B + 1, d) = SubSeq(buf, b + 1, d)
  <2>1. CASE a + B <= l
    BY <1>3, <2>1
  <2>2. CASE ~(a + B <= l)
    <3>1. b = l /\ d = l /\ d < a + B + 1 /\ d < b + 1
      BY <1>3, <2>2
    <3>2. a + B + 1 \in Int /\ b + 1 \in Int /\ d \in Int
      OBVIOUS
    <3>3. SubSeq(buf, a + B + 1, d) = <<>> /\ SubSeq(buf, b + 1, d) = <<>>
      BY <3>1, <3>2, SubSeqEmpty
    <3>4. QED BY <3>3
  <2>3. QED BY <2>1, <2>2
<1>9. /\ BlockOf(buf, 2 * i - 1) = Slice(buf, <<a, b>>)
      /\ BlockOf(buf, 2 * i) = Slice(buf, <<b, d>>)
  BY <1>6, <1>7, <1>8 DEF Slice
<1>10. /\ a < b /\ b <= d /\ d <= l
       /\ b - a <= B /\ d - b <= B /\ (l - a >= B => b - a = B)
       /\ (l - a <= B => d = b)
  BY <1>1, <1>3, <1>4
<1>11. QED BY <1>1, <1>2, <1>5, <1>9, <1>10 DEF IsPair

(* The parts of the i-th pair of blocks. *)
PairUploads(buf, i) == W!Uploads(BlockOf(buf, 2 * i - 1), BlockOf(buf, 2 * i))

(* The parts of a buffer are those of its pairs of blocks, one after the other. *)
LEMMA ChunkPartsAre ==
  ASSUME NEW buf
  PROVE  W!ChunkParts(buf)
           = FlattenSeq([i \in 1..Ceil(Len(buf), 2 * BlockSize) |-> PairUploads(buf, i)])
BY Zenon, FlattenSame, MinSame, RangesSame DEF W!ChunkParts, PairUploads, BlockOf

(* The parts of a pair of blocks are its bytes; how large they are. *)
LEMMA PairUploadsKeep ==
  ASSUME NEW S, NEW buf \in Seq(S), NEW i \in Nat \ {0}, (i - 1) * (2 * BlockSize) < Len(buf)
  PROVE  /\ PairUploads(buf, i) \in Seq(Sized(S, 1, MaxPart))
         /\ \E x \in Nat, y \in Nat :
              /\ x = (i - 1) * (2 * BlockSize) /\ y = Upto(buf, i) /\ x < y /\ y <= Len(buf)
              /\ FlattensTo(PairUploads(buf, i), Slice(buf, <<x, y>>))
         /\ Len(buf) - (i - 1) * (2 * BlockSize) >= BlockSize /\ 2 * MinPart <= MaxPart =>
              PairUploads(buf, i) \in Seq(Sized(S, MinPart, MaxPart))
         /\ Len(buf) - (i - 1) * (2 * BlockSize) <= BlockSize => Len(PairUploads(buf, i)) = 1
<1>1. PICK a \in Nat, b \in Nat, d \in Nat : IsPair(buf, i, a, b, d)
  BY PairOfBlocks
<1>2. /\ a < b /\ b <= d /\ d <= Len(buf)
      /\ a = (i - 1) * (2 * BlockSize) /\ d = Upto(buf, i)
      /\ b - a <= BlockSize /\ d - b <= BlockSize
      /\ (Len(buf) - a >= BlockSize => b - a = BlockSize)
      /\ (Len(buf) - a <= BlockSize => d = b)
      /\ BlockOf(buf, 2 * i - 1) = Slice(buf, <<a, b>>)
      /\ BlockOf(buf, 2 * i) = Slice(buf, <<b, d>>)
  BY <1>1 DEF IsPair
<1>3. PICK l \in Nat : l = Len(buf)
  BY LenProperties
<1>4. a <= b /\ b <= Len(buf) /\ a < d
  <2>1. a < b /\ b <= d /\ d <= l
    BY ONLY <1>2, <1>3, Zenon
  <2>2. a <= b /\ b <= l /\ a < d
    BY ONLY a \in Nat, b \in Nat, d \in Nat, l \in Nat, <2>1
  <2>3. QED BY <1>3, <2>2
<1>5. PICK x \in Seq(S) : x = Slice(buf, <<a, b>>) /\ Len(x) = b - a
  <2>1. Slice(buf, <<a, b>>) \in Seq(S) /\ Len(Slice(buf, <<a, b>>)) = b - a
    BY ONLY buf \in Seq(S), a \in Nat, b \in Nat, <1>4, SliceIs
  <2>2. QED BY ONLY <2>1
<1>6. PICK y \in Seq(S) : y = Slice(buf, <<b, d>>) /\ Len(y) = d - b
  <2>1. b <= d /\ d <= Len(buf)
    BY <1>2
  <2>2. Slice(buf, <<b, d>>) \in Seq(S) /\ Len(Slice(buf, <<b, d>>)) = d - b
    BY ONLY buf \in Seq(S), b \in Nat, d \in Nat, <2>1, SliceIs
  <2>3. QED BY ONLY <2>2
<1>7. Joined(buf, a, b, d)
  <2>1. a <= b /\ b <= d /\ d <= Len(buf)
    BY <1>2, <1>4
  <2>2. QED BY ONLY buf \in Seq(S), a \in Nat, b \in Nat, d \in Nat, <2>1, SlicesJoin
<1>8. x \o y = Slice(buf, <<a, d>>)
  BY <1>5, <1>6, <1>7 DEF Joined
<1>9. Len(x) \in 1..BlockSize /\ Len(y) \in 0..BlockSize
  <2>1. a < b /\ b <= d /\ b - a <= BlockSize /\ d - b <= BlockSize /\ BlockSize \in Nat
    BY <1>2, SizesAre
  <2>2. QED BY ONLY <1>5, <1>6, <2>1, a \in Nat, b \in Nat, d \in Nat
<1>10. PICK u : u = W!Uploads(x, y)
  OBVIOUS
<1>11. PairUploads(buf, i) = u
  BY <1>2, <1>5, <1>6, <1>10 DEF PairUploads
<1>12. /\ u \in Seq(Sized(S, 1, MaxPart))
       /\ FlattensTo(u, x \o y)
       /\ Len(x) = BlockSize /\ 2 * MinPart <= MaxPart => u \in Seq(Sized(S, MinPart, MaxPart))
       /\ y = <<>> => u = <<x>>
  BY ONLY <1>9, <1>10, x \in Seq(S), y \in Seq(S), UploadsKeep
<1>13. l - a <= BlockSize => Len(u) = 1
  <2>1. ASSUME l - a <= BlockSize PROVE Len(u) = 1
    <3>1. Len(y) = 0
      BY <1>2, <1>3, <1>6, <2>1
    <3>2. y = <<>>
      BY <3>1, EmptySeq
    <3>3. u = <<x>>
      BY <1>12, <3>2
    <3>4. QED BY <3>3
  <2>2. QED BY <2>1
<1>14. /\ a = (i - 1) * (2 * BlockSize) /\ d = Upto(buf, i) /\ a < d /\ d <= Len(buf)
       /\ FlattensTo(u, Slice(buf, <<a, d>>))
  BY <1>2, <1>4, <1>8, <1>12
<1>15. l - a >= BlockSize => Len(x) = BlockSize
  BY <1>2, <1>3, <1>5
<1>16. QED BY <1>2, <1>3, <1>11, <1>12, <1>13, <1>14, <1>15

(* The parts made of a buffer are the buffer: no byte is left out, doubled   *)
(* or moved, and no part is empty or too large.                              *)
LEMMA ChunksKeep ==
  ASSUME NEW S, NEW buf \in Seq(S)
  PROVE  /\ W!ChunkParts(buf) \in Seq(Sized(S, 1, MaxPart))
         /\ FlattensTo(W!ChunkParts(buf), buf)
<1> DEFINE P == Sized(S, 1, MaxPart)
<1>1. PICK l \in Nat, k \in Nat \ {0} : l = Len(buf) /\ k = 2 * BlockSize
  <2>1. 2 * BlockSize \in Nat \ {0}
    BY SizesAre
  <2>2. QED BY <2>1, LenProperties
<1>2. PICK n \in Nat : /\ n = (l + k - 1) \div k
                       /\ l <= n * k
                       /\ \A i \in 1..n : (i - 1) * k < l
                       /\ \A i, j \in Nat : i <= j => i * k <= j * k
                       /\ \A i \in Nat : i * k \in Nat /\ (i + 1) * k = i * k + k
  BY PiecesCover
<1>3. PICK groups : groups = [i \in 1..n |-> PairUploads(buf, i)]
  OBVIOUS
<1>4. W!ChunkParts(buf) = FlattenSeq(groups)
  <2>1. Ceil(Len(buf), 2 * BlockSize) = n
    BY <1>1, <1>2 DEF Ceil
  <2>2. QED BY <1>3, <2>1, ChunkPartsAre
<1>5. ASSUME NEW i \in 1..n
      PROVE  /\ groups[i] \in Seq(P)
             /\ \E x \in Nat, y \in Nat :
                  /\ x = (i - 1) * k /\ y = Upto(buf, i) /\ x < y /\ y <= l
                  /\ FlattensTo(groups[i], Slice(buf, <<x, y>>))
  <2>1. i \in Nat \ {0} /\ (i - 1) * (2 * BlockSize) < Len(buf)
    BY <1>1, <1>2
  <2>2. /\ PairUploads(buf, i) \in Seq(P)
        /\ \E x \in Nat, y \in Nat :
              /\ x = (i - 1) * (2 * BlockSize) /\ y = Upto(buf, i) /\ x < y /\ y <= Len(buf)
              /\ FlattensTo(PairUploads(buf, i), Slice(buf, <<x, y>>))
    BY ONLY buf \in Seq(S), <2>1, PairUploadsKeep
  <2>3. groups[i] = PairUploads(buf, i)
    BY <1>3
  <2>4. QED BY <1>1, <2>2, <2>3
<1> HIDE DEF P
<1>6. groups \in Seq(Seq(P)) /\ Len(groups) = n
  <2>1. groups \in [1..n -> Seq(P)]
    BY <1>3, <1>5
  <2>2. groups \in Seq(Seq(P))
    BY <2>1, SeqDef
  <2>3. QED BY <2>1, <2>2, LenProperties
<1>7. \A s \in Seq(P) : s \in Seq(Seq(S))
  BY SizedAreSequences DEF P
<1> DEFINE T == {i \in 0..n : \E c \in Seq(P) :
                   Joins(P, groups, i, c) /\ FlattensTo(c, Slice(buf, <<0, Upto(buf, i)>>))}
<1>8. 0 \in T
  <2>1. 0 * (2 * BlockSize) = 0 /\ 0 <= Len(buf)
    BY SizesAre, <1>1
  <2>2. Upto(buf, 0) = 0
    BY <2>1 DEF Upto
  <2>3. Slice(buf, <<0, 0>>) = <<>>
    <3>1. Slice(buf, <<0, 0>>) = SubSeq(buf, 0 + 1, 0)
      BY DEF Slice
    <3>2. 0 + 1 \in Int /\ 0 \in Int /\ 0 < 0 + 1
      OBVIOUS
    <3>3. SubSeq(buf, 0 + 1, 0) = <<>>
      BY ONLY <3>2, SubSeqEmpty
    <3>4. QED BY <3>1, <3>3
  <2>4. FlattensTo(<<>>, Slice(buf, <<0, Upto(buf, 0)>>))
    BY <2>2, <2>3, FlattenNone DEF FlattensTo
  <2>5. <<>> \in Seq(P) /\ Joins(P, groups, 0, <<>>)
    BY EmptySeq, JoinsNothing
  <2>6. 0 \in 0..n
    OBVIOUS
  <2>7. QED BY <2>4, <2>5, <2>6
<1>9. ASSUME NEW i \in 0..n, i \in T, i + 1 \in 0..n PROVE i + 1 \in T
  <2>1. PICK c \in Seq(P) :
          Joins(P, groups, i, c) /\ FlattensTo(c, Slice(buf, <<0, Upto(buf, i)>>))
    BY <1>9
  <2>2. i + 1 \in 1..n /\ (i + 1) - 1 = i /\ i \in Nat
    BY <1>9
  <2>3. PICK g \in Seq(P) : g = groups[i + 1]
    BY <1>5, <2>2
  <2>4. PICK x \in Nat, y \in Nat :
          /\ x = i * k /\ y = Upto(buf, i + 1) /\ x < y /\ y <= l
          /\ FlattensTo(g, Slice(buf, <<x, y>>))
    <3>1. PICK j \in 1..n : j = i + 1 /\ j - 1 = i
      BY <2>2
    <3>2. QED BY <1>5, <2>3, <3>1
  <2>5. Upto(buf, i) = x
    BY <1>1, <2>4 DEF Upto
  <2>6. Joins(P, groups, i + 1, c \o g)
    <3>1. groups[i + 1] \in Seq(P)
      BY <2>3
    <3>2. Joins(P, groups, i + 1, c \o groups[i + 1])
      BY ONLY <2>1, <2>2, <3>1, JoinsOneMore
    <3>3. QED BY <2>3, <3>2
  <2>7. c \in Seq(Seq(S)) /\ g \in Seq(Seq(S)) /\ c \o g \in Seq(P)
    BY <1>7, ConcatProperties
  <2>8. FlattensTo(c \o g, FlattenSeq(c) \o FlattenSeq(g))
    BY ONLY <2>7, FlattenConcat
  <2>9. Joined(buf, 0, x, y)
    <3>1. 0 \in Nat /\ 0 <= x /\ x <= y /\ y <= Len(buf)
      BY <1>1, <2>4
    <3>2. QED BY ONLY buf \in Seq(S), x \in Nat, y \in Nat, <3>1, SlicesJoin
  <2>10. FlattensTo(c \o g, Slice(buf, <<0, Upto(buf, i + 1)>>))
    BY <2>1, <2>4, <2>5, <2>8, <2>9 DEF FlattensTo, Joined
  <2>11. QED BY <1>9, <2>6, <2>7, <2>10
<1> HIDE DEF T
<1>10. \A i \in 0..n : i \in T
  BY <1>8, <1>9, Induction
<1>11. n \in T
  BY <1>10
<1>12. PICK c \in Seq(P) :
         Joins(P, groups, n, c) /\ FlattensTo(c, Slice(buf, <<0, Upto(buf, n)>>))
  BY <1>11 DEF T
<1>13. FlattenSeq(groups) = c
  <2>1. Joins(P, groups, Len(groups), c)
    BY <1>6, <1>12
  <2>2. QED BY ONLY <1>6, <2>1, JoinsFlatten
<1>14. Upto(buf, n) = Len(buf)
  <2>1. PICK z \in Nat : z = n * k
    BY <1>2
  <2>2. l <= z
    BY <1>2, <2>1
  <2>3. QED BY <1>1, <2>1, <2>2 DEF Upto
<1>15. Slice(buf, <<0, Len(buf)>>) = buf
  BY SliceIsAll
<1>16. QED BY <1>4, <1>12, <1>13, <1>14, <1>15 DEF P

(* A buffer of less than two blocks is one pair of blocks.                   *)
LEMMA ChunksOfOnePair ==
  ASSUME NEW S, NEW buf \in Seq(S), Len(buf) < 2 * BlockSize
  PROVE  /\ Len(buf) >= BlockSize /\ 2 * MinPart <= MaxPart =>
              W!ChunkParts(buf) \in Seq(Sized(S, MinPart, MaxPart))
         /\ Len(buf) <= BlockSize => Len(W!ChunkParts(buf)) <= 1
<1>1. PICK l \in Nat, k \in Nat \ {0} : l = Len(buf) /\ k = 2 * BlockSize /\ l < k
  <2>1. 2 * BlockSize \in Nat \ {0}
    BY SizesAre
  <2>2. QED BY <2>1, LenProperties
<1>2. CASE l = 0
  <2>1. (l + k - 1) \div k = 0
    BY <1>1, <1>2
  <2>2. Ceil(Len(buf), 2 * BlockSize) = 0
    BY <1>1, <2>1 DEF Ceil
  <2>3. W!ChunkParts(buf) = FlattenSeq([i \in 1..0 |-> PairUploads(buf, i)])
    BY <2>2, ChunkPartsAre
  <2>4. [i \in 1..0 |-> PairUploads(buf, i)] = <<>>
    OBVIOUS
  <2>5. W!ChunkParts(buf) = <<>> /\ Len(<<>>) = 0
    BY <2>3, <2>4, FlattenNone
  <2>6. ~(Len(buf) >= BlockSize)
    BY <1>1, <1>2, SizesAre
  <2>7. QED BY <2>5, <2>6
<1>3. CASE l # 0
  <2>1. (l + k - 1) \div k = 1
    <3>1. l + k - 1 >= k /\ l + k - 1 < 2 * k
      BY <1>1, <1>3
    <3>2. QED BY <3>1
  <2>2. Ceil(Len(buf), 2 * BlockSize) = 1
    BY <1>1, <2>1 DEF Ceil
  <2>3. PICK u : u = PairUploads(buf, 1)
    OBVIOUS
  <2>4. [i \in 1..1 |-> PairUploads(buf, i)] = <<u>>
    BY <2>3
  <2>5. W!ChunkParts(buf) = FlattenSeq(<<u>>)
    BY <2>2, <2>4, ChunkPartsAre
  <2>6. 1 \in Nat \ {0} /\ (1 - 1) * (2 * BlockSize) = 0 /\ 0 < Len(buf)
    BY SizesAre, <1>1, <1>3
  <2>7. /\ u \in Seq(Sized(S, 1, MaxPart))
        /\ Len(buf) - 0 >= BlockSize /\ 2 * MinPart <= MaxPart => u \in Seq(Sized(S, MinPart, MaxPart))
        /\ Len(buf) - 0 <= BlockSize => Len(u) = 1
    <3>1. (1 - 1) * (2 * BlockSize) < Len(buf)
      BY <2>6
    <3>2. /\ PairUploads(buf, 1) \in Seq(Sized(S, 1, MaxPart))
          /\ Len(buf) - (1 - 1) * (2 * BlockSize) >= BlockSize /\ 2 * MinPart <= MaxPart =>
              PairUploads(buf, 1) \in Seq(Sized(S, MinPart, MaxPart))
          /\ Len(buf) - (1 - 1) * (2 * BlockSize) <= BlockSize => Len(PairUploads(buf, 1)) = 1
      BY ONLY buf \in Seq(S), <2>6, <3>1, PairUploadsKeep
    <3>3. QED BY <2>3, <2>6, <3>2
  <2>8. FlattenSeq(<<u>>) = u
    BY <2>7, FlattenOne
  <2>9. Len(buf) - 0 = Len(buf)
    BY <1>1
  <2>10. W!ChunkParts(buf) = u
    BY ONLY <2>5, <2>8
  <2>11. Len(u) = 1 => Len(u) <= 1
    OBVIOUS
  <2>12. QED BY ONLY <2>7, <2>9, <2>10, <2>11, Zenon
<1>4. QED BY <1>2, <1>3
--------------------------------------------------------------------------------
(* The parts of a file, and the bytes they stand for.                        *)
ContentOf(o, part) == IF part.copy THEN Slice(o, part.bytes) ELSE part.bytes
Pieces(o, p) == [i \in DOMAIN p |-> ContentOf(o, p[i])]
PartsOf(S) == [copy : BOOLEAN, bytes : Seq(S) \cup (Nat \X Nat), state : W!PartStates]

GoodParts(S, o, p) ==
  /\ p \in Seq(PartsOf(S))
  /\ \A i \in 1..Len(p) : /\ ContentOf(o, p[i]) \in Seq(S)
                          /\ ~p[i].copy => Len(p[i].bytes) \in 1..MaxPart

NoneDone(p) == \A i \in 1..Len(p) : p[i].state # "done"

(* The bytes of each part. *)
LEMMA PiecesAre ==
  ASSUME NEW S, NEW o, NEW p, GoodParts(S, o, p)
  PROVE  /\ Pieces(o, p) \in Seq(Seq(S)) /\ Len(Pieces(o, p)) = Len(p) /\ Len(p) \in Nat
         /\ DOMAIN p = 1..Len(p)
         /\ \A i \in 1..Len(p) : Pieces(o, p)[i] = ContentOf(o, p[i])
<1>1. p \in Seq(PartsOf(S))
  BY DEF GoodParts
<1>2. PICK n \in Nat : n = Len(p) /\ DOMAIN p = 1..n
  BY <1>1, LenProperties
<1>3. PICK s : s = Pieces(o, p)
  OBVIOUS
<1>4. s \in [1..n -> Seq(S)] /\ \A i \in 1..n : s[i] = ContentOf(o, p[i])
  BY <1>2, <1>3 DEF Pieces, GoodParts
<1>5. s \in Seq(Seq(S))
  BY <1>4, SeqDef
<1>6. Len(s) = n
  BY <1>4, <1>5, LenProperties
<1>7. QED BY <1>2, <1>3, <1>4, <1>5, <1>6

(* The bytes of parts together. *)
LEMMA PartsConcat ==
  ASSUME NEW S, NEW o, NEW p, NEW q, GoodParts(S, o, p), GoodParts(S, o, q)
  PROVE  /\ GoodParts(S, o, p \o q)
         /\ Pieces(o, p \o q) = Pieces(o, p) \o Pieces(o, q)
         /\ FlattensTo(Pieces(o, p \o q), FlattenSeq(Pieces(o, p)) \o FlattenSeq(Pieces(o, q)))
         /\ Len(p \o q) = Len(p) + Len(q) /\ Len(p) \in Nat /\ Len(q) \in Nat
         /\ \A i \in 1..Len(p \o q) :
              (p \o q)[i] = IF i <= Len(p) THEN p[i] ELSE q[i - Len(p)]
<1>1. p \in Seq(PartsOf(S)) /\ q \in Seq(PartsOf(S))
  BY DEF GoodParts
<1>2. PICK n \in Nat, m \in Nat : n = Len(p) /\ m = Len(q)
  BY <1>1, LenProperties
<1>3. PICK r \in Seq(PartsOf(S)) :
        /\ r = p \o q /\ Len(r) = n + m
        /\ \A i \in 1..(n + m) : r[i] = IF i <= n THEN p[i] ELSE q[i - n]
  <2>1. PICK A : A = PartsOf(S)
    OBVIOUS
  <2>2. p \in Seq(A) /\ q \in Seq(A)
    BY ONLY <1>1, <2>1
  <2>3. /\ p \o q \in Seq(A) /\ Len(p \o q) = Len(p) + Len(q)
        /\ \A i \in 1..(Len(p) + Len(q)) :
             (p \o q)[i] = IF i <= Len(p) THEN p[i] ELSE q[i - Len(p)]
    BY ONLY <2>2, ConcatProperties
  <2>4. QED BY ONLY <1>2, <2>1, <2>3
<1>4. GoodParts(S, o, r)
  <2>1. ASSUME NEW i \in 1..Len(r)
        PROVE  ContentOf(o, r[i]) \in Seq(S) /\ (~r[i].copy => Len(r[i].bytes) \in 1..MaxPart)
    <3>1. CASE i <= n
      <4>1. i \in 1..Len(p) /\ r[i] = p[i]
        BY <1>2, <1>3, <3>1
      <4>2. QED BY <4>1 DEF GoodParts
    <3>2. CASE ~(i <= n)
      <4>1. i - n \in 1..Len(q) /\ r[i] = q[i - n]
        BY <1>2, <1>3, <3>2
      <4>2. QED BY <4>1 DEF GoodParts
    <3>3. QED BY <3>1, <3>2
  <2>2. QED BY <2>1 DEF GoodParts
<1>5. PICK x \in Seq(Seq(S)) :
        x = Pieces(o, p) /\ Len(x) = n /\ \A i \in 1..n : x[i] = ContentOf(o, p[i])
  BY <1>2, PiecesAre
<1>6. PICK y \in Seq(Seq(S)) :
        y = Pieces(o, q) /\ Len(y) = m /\ \A i \in 1..m : y[i] = ContentOf(o, q[i])
  BY <1>2, PiecesAre
<1>7. PICK z \in Seq(Seq(S)) :
        z = Pieces(o, r) /\ Len(z) = n + m /\ \A i \in 1..(n + m) : z[i] = ContentOf(o, r[i])
  <2>1. /\ Pieces(o, r) \in Seq(Seq(S)) /\ Len(Pieces(o, r)) = Len(r)
        /\ \A i \in 1..Len(r) : Pieces(o, r)[i] = ContentOf(o, r[i])
    BY ONLY <1>4, PiecesAre
  <2>2. Len(r) = n + m
    BY <1>3
  <2>3. QED BY ONLY <2>1, <2>2
<1>8. z = x \o y
  <2>1. /\ x \o y \in Seq(Seq(S)) /\ Len(x \o y) = n + m
        /\ \A i \in 1..(n + m) : (x \o y)[i] = IF i <= n THEN x[i] ELSE y[i - n]
    <3>1. PICK A : A = Seq(S)
      OBVIOUS
    <3>2. x \in Seq(A) /\ y \in Seq(A)
      BY ONLY <3>1, x \in Seq(Seq(S)), y \in Seq(Seq(S))
    <3>3. /\ x \o y \in Seq(A) /\ Len(x \o y) = Len(x) + Len(y)
          /\ \A i \in 1..(Len(x) + Len(y)) :
               (x \o y)[i] = IF i <= Len(x) THEN x[i] ELSE y[i - Len(x)]
      BY ONLY <3>2, ConcatProperties
    <3>4. Len(x) = n /\ Len(y) = m
      BY <1>5, <1>6
    <3>5. QED BY ONLY <3>1, <3>3, <3>4
  <2>2. ASSUME NEW i \in 1..Len(z) PROVE z[i] = (x \o y)[i]
    <3>1. i \in 1..(n + m)
      BY <1>7
    <3>2. CASE i <= n
      <4>1. i \in 1..n
        BY <3>2
      <4>2. r[i] = p[i] /\ (x \o y)[i] = x[i]
        BY <1>3, <2>1, <3>1, <3>2
      <4>3. QED BY <1>5, <1>7, <3>1, <4>1, <4>2
    <3>3. CASE ~(i <= n)
      <4>1. PICK j \in 1..m : j = i - n
        BY <3>1, <3>3
      <4>2. r[i] = q[j] /\ (x \o y)[i] = y[j]
        BY <1>3, <2>1, <3>1, <3>3, <4>1
      <4>3. QED BY <1>6, <1>7, <3>1, <4>2
    <3>4. QED BY <3>2, <3>3
  <2>3. QED BY <1>7, <2>1, <2>2, SeqEqual
<1>9. FlattensTo(x \o y, FlattenSeq(x) \o FlattenSeq(y))
  BY ONLY x \in Seq(Seq(S)), y \in Seq(Seq(S)), FlattenConcat
<1>10. QED BY <1>2, <1>3, <1>4, <1>5, <1>6, <1>7, <1>8, <1>9

(* The parts with the bytes of a buffer. *)
LEMMA BodiesGood ==
  ASSUME NEW S, NEW o, NEW buf \in Seq(S)
  PROVE  /\ GoodParts(S, o, W!Bodies(buf)) /\ NoneDone(W!Bodies(buf))
         /\ Pieces(o, W!Bodies(buf)) = W!ChunkParts(buf)
         /\ FlattensTo(Pieces(o, W!Bodies(buf)), buf)
         /\ Len(W!Bodies(buf)) = Len(W!ChunkParts(buf))
         /\ buf # <<>> => Len(W!Bodies(buf)) >= 1
<1>1. PICK c : c = W!ChunkParts(buf)
  OBVIOUS
<1>2. c \in Seq(Sized(S, 1, MaxPart)) /\ FlattensTo(c, buf)
  <2>1. W!ChunkParts(buf) \in Seq(Sized(S, 1, MaxPart)) /\ FlattensTo(W!ChunkParts(buf), buf)
    BY ONLY buf \in Seq(S), ChunksKeep, Zenon
  <2>2. QED BY ONLY <1>1, <2>1
<1>3. PICK n \in Nat : /\ n = Len(c) /\ DOMAIN c = 1..n
                       /\ \A i \in 1..n : c[i] \in Seq(S) /\ Len(c[i]) \in 1..MaxPart
  <2>1. PICK A : A = Sized(S, 1, MaxPart)
    OBVIOUS
  <2>2. c \in Seq(A)
    BY ONLY <1>2, <2>1
  <2>3. Len(c) \in Nat /\ DOMAIN c = 1..Len(c) /\ \A i \in 1..Len(c) : c[i] \in A
    BY ONLY <2>2, LenProperties, ElementOfSeq
  <2>4. \A i \in 1..Len(c) : c[i] \in Seq(S) /\ Len(c[i]) \in 1..MaxPart
    BY <2>1, <2>3 DEF Sized
  <2>5. QED BY ONLY <2>3, <2>4, Zenon
<1>4. PICK b : b = W!Bodies(buf)
  OBVIOUS
<1>5. b = [i \in 1..n |-> [copy |-> FALSE, bytes |-> c[i], state |-> "pending"]]
  BY <1>1, <1>3, <1>4 DEF W!Bodies, W!Body
<1>6. b \in Seq(PartsOf(S)) /\ Len(b) = n /\ DOMAIN b = 1..n
  <2>1. b \in [1..n -> PartsOf(S)]
    BY <1>3, <1>5 DEF PartsOf, W!PartStates
  <2>2. b \in Seq(PartsOf(S))
    BY <2>1, SeqDef
  <2>3. QED BY <2>1, <2>2, LenProperties
<1>7. \A i \in 1..n : /\ b[i].copy = FALSE /\ b[i].bytes = c[i] /\ b[i].state = "pending"
  BY <1>5
<1>8. \A i \in 1..n : ContentOf(o, b[i]) = c[i]
  BY <1>7 DEF ContentOf
<1>9. GoodParts(S, o, b) /\ NoneDone(b)
  BY <1>3, <1>6, <1>7, <1>8 DEF GoodParts, NoneDone
<1>10. Pieces(o, b) = c
  <2>1. Pieces(o, b) = [i \in 1..n |-> c[i]]
    BY <1>6, <1>8 DEF Pieces
  <2>2. c = [i \in DOMAIN c |-> c[i]]
    BY <1>2
  <2>3. QED BY <1>3, <2>1, <2>2
<1>11. ASSUME buf # <<>> PROVE n >= 1
  <2>1. ASSUME n = 0 PROVE FALSE
    <3>1. c = <<>>
      BY <1>2, <1>3, <2>1, EmptySeq
    <3>2. FlattenSeq(c) = buf
      BY <1>2 DEF FlattensTo
    <3>3. QED BY <1>11, <3>1, <3>2, FlattenNone
  <2>2. QED BY <2>1
<1>12. QED BY <1>1, <1>2, <1>3, <1>4, <1>6, <1>9, <1>10, <1>11
--------------------------------------------------------------------------------
(* The parts that copy what is appended to.                                  *)
CopiesOf(r) == [i \in DOMAIN r |-> W!Copy(r[i])]
SlicesOf(s, r) == [i \in DOMAIN r |-> Slice(s, r[i])]

(* Ranges within a sequence are good parts of it. *)
LEMMA RangesGood ==
  ASSUME NEW S, NEW s \in Seq(S), NEW n \in Nat, NEW r, DOMAIN r = 1..n,
         \A i \in 1..n : \E a \in Nat, b \in Nat : r[i] = <<a, b>> /\ a <= b /\ b <= Len(s)
  PROVE  /\ GoodParts(S, s, CopiesOf(r)) /\ NoneDone(CopiesOf(r)) /\ Len(CopiesOf(r)) = n
         /\ Pieces(s, CopiesOf(r)) = SlicesOf(s, r)
<1>1. PICK c : c = CopiesOf(r)
  OBVIOUS
<1>2. c = [i \in 1..n |-> [copy |-> TRUE, bytes |-> r[i], state |-> "pending"]]
  BY <1>1 DEF CopiesOf, W!Copy
<1>3. ASSUME NEW i \in 1..n PROVE r[i] \in Nat \X Nat
  <2>1. PICK a \in Nat, b \in Nat : r[i] = <<a, b>>
    OBVIOUS
  <2>2. QED BY <2>1
<1>4. c \in Seq(PartsOf(S)) /\ Len(c) = n /\ DOMAIN c = 1..n
  <2>1. c \in [1..n -> PartsOf(S)]
    BY <1>2, <1>3 DEF PartsOf, W!PartStates
  <2>2. c \in Seq(PartsOf(S))
    BY <2>1, SeqDef
  <2>3. QED BY <2>1, <2>2, LenProperties
<1>5. \A i \in 1..n : c[i].copy = TRUE /\ c[i].bytes = r[i] /\ c[i].state = "pending"
  BY <1>2
<1>6. \A i \in 1..n : ContentOf(s, c[i]) = Slice(s, r[i])
  BY <1>5 DEF ContentOf
<1>7. ASSUME NEW i \in 1..n PROVE Slice(s, r[i]) \in Seq(S)
  <2>1. PICK a \in Nat, b \in Nat : r[i] = <<a, b>> /\ a <= b /\ b <= Len(s)
    OBVIOUS
  <2>2. Slice(s, <<a, b>>) \in Seq(S)
    BY ONLY s \in Seq(S), a \in Nat, b \in Nat, <2>1, SliceIs
  <2>3. QED BY <2>1, <2>2
<1>8. GoodParts(S, s, c) /\ NoneDone(c)
  BY <1>4, <1>5, <1>6, <1>7 DEF GoodParts, NoneDone
<1>9. Pieces(s, c) = SlicesOf(s, r)
  BY <1>4, <1>6 DEF Pieces, SlicesOf
<1>10. QED BY <1>1, <1>4, <1>8, <1>9

(* The copies are the object, whatever ranges they are cut into; an object   *)
(* no larger than a part is copied at once.                                  *)
LEMMA CopiesGood ==
  ASSUME NEW S, NEW total \in Nat, append_block, object = old, old \in Seq(S)
  PROVE  /\ GoodParts(S, old, W!CopyParts(total)) /\ NoneDone(W!CopyParts(total))
         /\ Len(W!CopyParts(total)) \in Nat \ {0}
         /\ FlattensTo(Pieces(old, W!CopyParts(total)), old)
         /\ Len(old) <= MaxPart => Pieces(old, W!CopyParts(total)) = <<old>>
         /\ Pieces(old, W!CopyParts(total)) = <<old>>
            \/ Pieces(old, W!CopyParts(total))
                 = SlicesOf(old, GetRanges(0, Len(old), MaxWorkers, MaxPart))
<1>1. PICK l \in Nat : l = Len(old)
  BY LenProperties
<1>2. PICK c : c = W!CopyParts(total)
  OBVIOUS
<1> DEFINE ranges == GetRanges(0, l, MaxWorkers, MaxPart)
<1>3. c = CopiesOf(IF total > MaxPart THEN ranges ELSE <<(<<0, l>>)>>)
  <2>1. c = IF append_block
            THEN [i \in DOMAIN (IF total > MaxPart THEN W!GetRanges(0, Len(object), MaxWorkers, MaxPart)
                                ELSE <<(<<0, Len(object)>>)>>) |->
                   W!Copy((IF total > MaxPart THEN W!GetRanges(0, Len(object), MaxWorkers, MaxPart)
                                ELSE <<(<<0, Len(object)>>)>>)[i])]
            ELSE <<>>
    BY <1>2, Zenon DEF W!CopyParts
  <2>2. W!GetRanges(0, Len(object), MaxWorkers, MaxPart) = ranges
    BY <1>1, RangesSame
  <2>3. QED BY <1>1, <2>1, <2>2, Zenon DEF CopiesOf
<1> HIDE DEF ranges
<1>4. CASE c = CopiesOf(<<(<<0, l>>)>>)
  <2>1. PICK r : r = <<(<<0, l>>)>>
    OBVIOUS
  <2>2. DOMAIN r = 1..1 /\ r[1] = <<0, l>> /\ 1 \in Nat /\ 0 \in Nat /\ 0 <= l /\ l <= Len(old)
    BY <1>1, <2>1
  <2>3. \A i \in 1..1 : \E a \in Nat, b \in Nat : r[i] = <<a, b>> /\ a <= b /\ b <= Len(old)
    BY <2>2
  <2>4. /\ GoodParts(S, old, CopiesOf(r)) /\ NoneDone(CopiesOf(r)) /\ Len(CopiesOf(r)) = 1
        /\ Pieces(old, CopiesOf(r)) = SlicesOf(old, r)
    BY ONLY old \in Seq(S), <2>2, <2>3, RangesGood
  <2>5. SlicesOf(old, r) = <<old>>
    <3>1. Slice(old, <<0, Len(old)>>) = old
      BY SliceIsAll
    <3>2. SlicesOf(old, r) = [i \in 1..1 |-> Slice(old, r[i])]
      BY <2>2 DEF SlicesOf
    <3>3. \A i \in 1..1 : Slice(old, r[i]) = old
      BY <1>1, <2>2, <3>1
    <3>4. [i \in 1..1 |-> Slice(old, r[i])] = [i \in 1..1 |-> old]
      BY <3>3
    <3>5. [i \in 1..1 |-> old] = <<old>>
      OBVIOUS
    <3>6. QED BY ONLY <3>2, <3>4, <3>5, Zenon
  <2>6. FlattenSeq(<<old>>) = old
    BY FlattenOne
  <2>7. c = CopiesOf(r)
    BY <1>4, <2>1, Zenon
  <2>8. GoodParts(S, old, c) /\ NoneDone(c) /\ Len(c) = 1 /\ Pieces(old, c) = <<old>>
    BY ONLY <2>4, <2>5, <2>7, Zenon
  <2>9. Len(c) \in Nat \ {0}
    BY <2>8
  <2>10. FlattensTo(Pieces(old, c), old)
    BY ONLY <2>6, <2>8 DEF FlattensTo
  <2>11. QED BY ONLY <1>2, <2>8, <2>9, <2>10, Zenon
<1>5. CASE c # CopiesOf(<<(<<0, l>>)>>)
  <2>1. c = CopiesOf(ranges)
    BY <1>3, <1>5
  <2>2. ranges # <<(<<0, l>>)>>
    BY <1>5, <2>1
  <2>3. l > MaxPart
    BY <1>1, <2>2, SizesAre DEF ranges, GetRanges
  <2>4. PICK n \in Nat \ {0} : \E e : Edges(e, n, 0, l) /\ ranges = Between(e, n)
    <3>1. PICK z \in Nat, k \in Nat \ {0}, w \in Nat :
            z = 0 /\ z < l /\ k = MaxPart /\ w = MaxWorkers
      <4>1. MaxPart \in Nat \ {0} /\ MaxWorkers \in Nat
        BY SizesAre
      <4>2. 0 \in Nat /\ 0 < l
        BY <1>1, <2>3, SizesAre
      <4>3. QED BY ONLY <4>1, <4>2, Zenon
    <3>2. z < l
      BY ONLY <3>1
    <3>3. PICK R : R = GetRanges(z, l, w, k)
      OBVIOUS
    <3>4. \E n \in Nat \ {0} : \E e : Edges(e, n, z, l) /\ R = Between(e, n)
      BY ONLY l \in Nat, z \in Nat, k \in Nat \ {0}, w \in Nat, <3>2, <3>3, RangesCut
    <3>5. \E n \in Nat \ {0} : \E e :
            Edges(e, n, 0, l) /\ GetRanges(0, l, MaxWorkers, MaxPart) = Between(e, n)
      BY ONLY <3>1, <3>3, <3>4, Zenon
    <3>6. QED BY ONLY <3>5, Zenon DEF ranges
  <2>5. PICK e : Edges(e, n, 0, l) /\ ranges = Between(e, n)
    BY <2>4
  <2>6. /\ n \in Nat /\ DOMAIN ranges = 1..n
        /\ \A i \in 1..n : ranges[i] = <<e[i - 1], e[i]>>
    BY <2>5 DEF Between
  <2>7. \A i \in 1..n : /\ e[i - 1] \in Nat /\ e[i] \in Nat /\ 0 <= e[i - 1]
                        /\ e[i - 1] < e[i] /\ e[i] <= l
    <3>1. 0 \in Nat
      OBVIOUS
    <3>2. QED BY ONLY n \in Nat \ {0}, l \in Nat, <2>5, <3>1, EdgesOrder
  <2>8. \A i \in 1..n : \E a \in Nat, b \in Nat : ranges[i] = <<a, b>> /\ a <= b /\ b <= Len(old)
    <3>1. SUFFICES ASSUME NEW i \in 1..n
                   PROVE  \E a \in Nat, b \in Nat : ranges[i] = <<a, b>> /\ a <= b /\ b <= Len(old)
      OBVIOUS
    <3>2. PICK a \in Nat, b \in Nat : a = e[i - 1] /\ b = e[i]
      BY <2>7
    <3>3. ranges[i] = <<a, b>>
      BY <2>6, <3>2
    <3>4. a <= b /\ b <= Len(old)
      BY ONLY <1>1, <2>7, <3>2
    <3>5. QED BY <3>3, <3>4
  <2>9. /\ GoodParts(S, old, CopiesOf(ranges)) /\ NoneDone(CopiesOf(ranges))
        /\ Len(CopiesOf(ranges)) = n /\ Pieces(old, CopiesOf(ranges)) = SlicesOf(old, ranges)
    BY ONLY old \in Seq(S), <2>6, <2>8, RangesGood
  <2>10. SlicesOf(old, ranges) = Slices(old, e, n)
    BY <2>6 DEF SlicesOf, Slices
  <2>11. FlattenSeq(Slices(old, e, n)) = old
    <3>1. 0 \in Nat /\ l <= Len(old)
      BY <1>1
    <3>2. FlattenSeq(Slices(old, e, n)) = Slice(old, <<0, l>>)
      BY ONLY old \in Seq(S), n \in Nat \ {0}, l \in Nat, <2>5, <3>1, FlattenSlices
    <3>3. Slice(old, <<0, Len(old)>>) = old
      BY SliceIsAll
    <3>4. QED BY <1>1, <3>2, <3>3
  <2>12. ~(Len(old) <= MaxPart)
    BY <1>1, <2>3, SizesAre
  <2>13. QED BY <1>1, <1>2, <2>1, <2>9, <2>10, <2>11, <2>12 DEF FlattensTo, ranges
<1>6. QED BY <1>4, <1>5

(* A file that is not appended to copies nothing. *)
LEMMA NoCopies ==
  ASSUME NEW total, ~append_block
  PROVE  W!CopyParts(total) = <<>>
BY Zenon DEF W!CopyParts
--------------------------------------------------------------------------------
(* What the parts and the buffer of a file hold.                             *)
FileData ==
  /\ old = NULL \/ (old \in Seq(W!Bytes) /\ Len(old) \in OldSizes)
  /\ append_block => old # NULL /\ "ab" \in Modes
  /\ GoodParts(W!Bytes, old, multipart_upload_parts)

StoredData ==
  \A i \in 1..Len(multipart_upload_parts) : multipart_upload_parts[i].state = "done" =>
    i \in DOMAIN stored /\ stored[i] = ContentOf(old, multipart_upload_parts[i])

Writing == multipart_upload /\ pc \in {"open", "shutdown", "deferred", "commit"}

JoinedData ==
  Writing =>
    IF W!Below
    THEN /\ Len(multipart_upload_parts) >= 2
         /\ Len(Pieces(old, multipart_upload_parts)[1]) < MinPart
    ELSE W!Expected = FlattenSeq(Pieces(old, multipart_upload_parts))
                        \o IF pc = "open" THEN buffer ELSE <<>>

SizedData ==
  /\ outcome # "rejected"
  /\ Writing => \A i \in 1..Len(multipart_upload_parts) :
       pc = "open" \/ i < Len(multipart_upload_parts)
         => Len(Pieces(old, multipart_upload_parts)[i]) >= MinPart

(* That is what the invariant of the writer says. *)
LEMMA FileInvIs ==
  /\ W!FileInv <=> FileData /\ StoredData /\ W!ObjectInv /\ W!BufferInv /\ JoinedData
  /\ FileData => (W!SizeInv <=> SizedData)
<1>1. \A p : W!Content(p) = ContentOf(old, p)
  BY Zenon, RangesSame DEF W!Content, ContentOf
<1>2. W!PartRecords = PartsOf(W!Bytes)
  BY DEF W!PartRecords, PartsOf
<1>3. W!Contents = Pieces(old, multipart_upload_parts)
  BY <1>1, Zenon DEF W!Contents, Pieces, W!Parts
<1>4. ASSUME multipart_upload_parts \in Seq(PartsOf(W!Bytes))
      PROVE  W!Parts = 1..Len(multipart_upload_parts)
  BY <1>4, LenProperties DEF W!Parts
<1>5. W!FileTypes <=> FileData
  <2>1. W!FileTypes => FileData
    BY <1>1, <1>2, <1>4 DEF W!FileTypes, W!PartSizesAllowed, FileData, GoodParts
  <2>2. FileData => W!FileTypes
    BY <1>1, <1>2, <1>4 DEF W!FileTypes, W!PartSizesAllowed, FileData, GoodParts
  <2>3. QED BY <2>1, <2>2
<1>6. ASSUME FileData PROVE (W!DoneIsStored <=> StoredData) /\ (W!SizeInv <=> SizedData)
  <2>1. W!Parts = 1..Len(multipart_upload_parts)
    BY <1>4, <1>6 DEF FileData, GoodParts
  <2>2. W!DoneIsStored <=> StoredData
    BY <1>1, <2>1, Zenon DEF W!DoneIsStored, StoredData
  <2>3. W!SizeInv <=> SizedData
    BY <1>3, <2>1, Zenon DEF W!SizeInv, SizedData, Writing
  <2>4. QED BY <2>2, <2>3
<1>7. W!PartsInv <=> JoinedData
  BY <1>3, FlattenSame, Zenon DEF W!PartsInv, JoinedData, Writing
<1>8. QED BY <1>5, <1>6, <1>7 DEF W!FileInv

(* The same after a step. *)
LEMMA FileInvIsNext ==
  /\ W!FileInv' <=> FileData' /\ StoredData' /\ W!ObjectInv' /\ W!BufferInv' /\ JoinedData'
  /\ FileData' => (W!SizeInv' <=> SizedData')
BY FileInvIs, PTL
--------------------------------------------------------------------------------
(* A step may change the states of parts, never their bytes.                 *)
SameBytes(p, q) ==
  Len(q) = Len(p) /\ \A i \in 1..Len(p) : q[i].copy = p[i].copy /\ q[i].bytes = p[i].bytes

(* Parts with other states are still good, and the same bytes. *)
LEMMA StatesChange ==
  ASSUME NEW S, NEW o, NEW p, GoodParts(S, o, p), NEW q \in Seq(PartsOf(S)), SameBytes(p, q)
  PROVE  /\ GoodParts(S, o, q) /\ Pieces(o, q) = Pieces(o, p)
         /\ \A i \in 1..Len(p) : ContentOf(o, q[i]) = ContentOf(o, p[i])
<1>1. p \in Seq(PartsOf(S))
  BY DEF GoodParts
<1>2. PICK n \in Nat : n = Len(p) /\ DOMAIN p = 1..n /\ Len(q) = n /\ DOMAIN q = 1..n
  BY <1>1, LenProperties DEF SameBytes
<1>3. \A i \in 1..n : q[i].copy = p[i].copy /\ q[i].bytes = p[i].bytes
  BY <1>2 DEF SameBytes
<1>4. \A i \in 1..n : ContentOf(o, q[i]) = ContentOf(o, p[i])
  BY <1>3 DEF ContentOf
<1>5. GoodParts(S, o, q)
  BY <1>2, <1>3, <1>4 DEF GoodParts
<1>6. Pieces(o, q) = Pieces(o, p)
  BY <1>2, <1>4 DEF Pieces
<1>7. QED BY <1>2, <1>4, <1>5, <1>6

(* One part gets another state. *)
LEMMA PartIsSet ==
  ASSUME NEW S, NEW p \in Seq(PartsOf(S)), NEW i \in DOMAIN p, NEW s \in W!PartStates,
         NEW q, q = WithState(p, i, s)
  PROVE  /\ q \in Seq(PartsOf(S)) /\ SameBytes(p, q)
         /\ \A k \in 1..Len(p) : q[k].state = IF k = i THEN s ELSE p[k].state
<1> DEFINE R == PartsOf(S)
<1>1. PICK n \in Nat : n = Len(p) /\ DOMAIN p = 1..n
  BY LenProperties
<1>2. p \in [1..n -> R] /\ i \in 1..n
  BY <1>1, LenProperties
<1>3. p[i] \in R
  BY <1>2
<1>4. PICK r : r = [p[i] EXCEPT !.state = s]
  OBVIOUS
<1>5. r \in R /\ r.copy = p[i].copy /\ r.state = s /\ r.bytes = p[i].bytes
  BY <1>3, <1>4 DEF PartsOf
<1> HIDE DEF R
<1>6. PICK f : f = [k \in 1..n |-> IF k = i THEN r ELSE p[k]]
  OBVIOUS
<1>7. f \in [1..n -> R]
  BY <1>2, <1>5, <1>6
<1>8. f \in Seq(R)
  BY <1>1, <1>7, SeqDef
<1>9. WithState(p, i, s) = [k \in 1..n |-> IF k = i THEN [p[i] EXCEPT !.state = s] ELSE p[k]]
  BY <1>2 DEF WithState
<1>10. q = f
  BY <1>4, <1>6, <1>9, Zenon
<1>11. \A k \in 1..n : f[k] = IF k = i THEN r ELSE p[k]
  BY <1>6
<1>12. Len(f) = n
  BY <1>7, <1>8, LenProperties
<1>13. SameBytes(p, f)
  BY <1>1, <1>5, <1>11, <1>12 DEF SameBytes
<1>14. \A k \in 1..n : f[k].state = IF k = i THEN s ELSE p[k].state
  BY <1>5, <1>11
<1>15. QED BY <1>1, <1>8, <1>10, <1>13, <1>14 DEF R

(* The parts that are pending are cancelled. *)
LEMMA PendingAreCancelled ==
  ASSUME multipart_upload_parts \in Seq(PartsOf(W!Bytes)), W!CancelPending
  PROVE  /\ multipart_upload_parts' \in Seq(PartsOf(W!Bytes))
         /\ SameBytes(multipart_upload_parts, multipart_upload_parts')
         /\ \A k \in 1..Len(multipart_upload_parts) :
              multipart_upload_parts'[k].state = "done" => multipart_upload_parts[k].state = "done"
<1> DEFINE R == PartsOf(W!Bytes)
<1>1. PICK p : p = multipart_upload_parts
  OBVIOUS
<1>2. PICK n \in Nat : n = Len(p) /\ DOMAIN p = 1..n /\ p \in [1..n -> R]
  BY <1>1, LenProperties
<1>3. PICK f : f = [k \in 1..n |-> IF p[k].state = "pending"
                                   THEN [p[k] EXCEPT !.state = "cancelled"] ELSE p[k]]
  OBVIOUS
<1>4. multipart_upload_parts' = f
  BY <1>1, <1>2, <1>3 DEF W!CancelPending, W!Parts
<1>5. ASSUME NEW k \in 1..n
      PROVE  /\ f[k] \in R /\ f[k].copy = p[k].copy /\ f[k].bytes = p[k].bytes
             /\ f[k].state = "done" => p[k].state = "done"
  <2>1. p[k] \in R
    BY <1>2
  <2>2. f[k] = IF p[k].state = "pending" THEN [p[k] EXCEPT !.state = "cancelled"] ELSE p[k]
    BY <1>3
  <2>3. QED BY <2>1, <2>2 DEF PartsOf, W!PartStates
<1> HIDE DEF R
<1>6. f \in [1..n -> R]
  BY <1>3, <1>5
<1>7. f \in Seq(R)
  BY <1>6, SeqDef
<1>8. Len(f) = n
  BY <1>6, <1>7, LenProperties
<1>9. SameBytes(p, f)
  BY <1>2, <1>5, <1>8 DEF SameBytes
<1>10. QED BY <1>1, <1>2, <1>4, <1>5, <1>7, <1>9 DEF R

(* A step that writes nothing and adds no part. *)
LEMMA DataGoesOn ==
  ASSUME FileData, JoinedData,
         UNCHANGED <<old, written, append_block, buffer>>,
         multipart_upload_parts' \in Seq(PartsOf(W!Bytes)),
         SameBytes(multipart_upload_parts, multipart_upload_parts'),
         Writing' => Writing /\ (pc' = "open" <=> pc = "open")
  PROVE  /\ FileData' /\ JoinedData'
         /\ SizedData /\ outcome' # "rejected" => SizedData'
<1>1. GoodParts(W!Bytes, old, multipart_upload_parts)
  BY DEF FileData
<1>2. /\ GoodParts(W!Bytes, old, multipart_upload_parts')
      /\ Pieces(old, multipart_upload_parts') = Pieces(old, multipart_upload_parts)
  BY <1>1, StatesChange
<1>3. Pieces(old, multipart_upload_parts)' = Pieces(old, multipart_upload_parts)
  BY <1>2 DEF Pieces, ContentOf
<1>4. FileData'
  BY <1>2 DEF FileData
<1>5. Len(multipart_upload_parts') = Len(multipart_upload_parts)
  BY DEF SameBytes
<1>6. W!Below' = W!Below /\ W!Expected' = W!Expected
  BY DEF W!Below, W!Expected
<1>7. JoinedData'
  BY <1>3, <1>5, <1>6 DEF JoinedData
<1>8. SizedData /\ outcome' # "rejected" => SizedData'
  BY <1>3, <1>5 DEF SizedData
<1>9. QED BY <1>4, <1>7, <1>8

(* What is stored of a part stays. *)
LEMMA StoredGoesOn ==
  ASSUME FileData, StoredData, UNCHANGED <<old, stored>>,
         multipart_upload_parts' \in Seq(PartsOf(W!Bytes)),
         SameBytes(multipart_upload_parts, multipart_upload_parts'),
         \A k \in 1..Len(multipart_upload_parts) :
            multipart_upload_parts'[k].state = "done" => multipart_upload_parts[k].state = "done"
  PROVE  StoredData'
<1>1. GoodParts(W!Bytes, old, multipart_upload_parts)
  BY DEF FileData
<1>2. \A i \in 1..Len(multipart_upload_parts) :
        ContentOf(old, multipart_upload_parts'[i]) = ContentOf(old, multipart_upload_parts[i])
  BY <1>1, StatesChange
<1>3. Len(multipart_upload_parts') = Len(multipart_upload_parts)
  BY DEF SameBytes
<1>4. QED BY <1>2, <1>3 DEF StoredData, ContentOf

(* A step that leaves the parts alone. *)
LEMMA PartsStayTheSame ==
  ASSUME FileData, multipart_upload_parts' = multipart_upload_parts
  PROVE  /\ multipart_upload_parts' \in Seq(PartsOf(W!Bytes))
         /\ SameBytes(multipart_upload_parts, multipart_upload_parts')
         /\ \A k \in 1..Len(multipart_upload_parts) :
              multipart_upload_parts'[k].state = "done" => multipart_upload_parts[k].state = "done"
BY DEF FileData, GoodParts, SameBytes
--------------------------------------------------------------------------------
(* Each step of the writer keeps what parts and buffer hold.                 *)
DataInv == FileData /\ StoredData /\ W!ObjectInv /\ W!BufferInv /\ JoinedData

(* A step of close(), commit(), discard() or the end of the upload that adds *)
(* no part.                                                                  *)
LEMMA DataKeeps ==
  ASSUME DataInv, pc \notin {"new", "open"}, pc' \notin {"new", "open"},
         UNCHANGED <<stored, old, written, append_block, buffer, loc>>,
         multipart_upload_parts' \in Seq(PartsOf(W!Bytes)),
         SameBytes(multipart_upload_parts, multipart_upload_parts'),
         \A k \in 1..Len(multipart_upload_parts) :
            multipart_upload_parts'[k].state = "done" => multipart_upload_parts[k].state = "done",
         Writing' => Writing,
         pc' = "commit" => multipart_upload',
         pc' \in {"shutdown", "deferred"} =>
           /\ pc \in {"shutdown", "deferred"}
           /\ UNCHANGED <<upload, multipart_upload, multipart_upload_parts>>,
         W!ObjectInv'
  PROVE  DataInv' /\ (SizedData /\ outcome' # "rejected" => SizedData')
<1>1. /\ FileData' /\ JoinedData'
      /\ SizedData /\ outcome' # "rejected" => SizedData'
  BY DataGoesOn DEF DataInv
<1>2. StoredData'
  BY StoredGoesOn DEF DataInv
<1>3. W!BufferInv'
  <2>1. W!Expected' = W!Expected
    BY DEF W!Expected
  <2>2. QED BY <2>1 DEF DataInv, W!BufferInv
<1>4. QED BY <1>1, <1>2, <1>3 DEF DataInv

(* A thread starts a part, or the part fails. *)
LEMMA PartWaitsStep ==
  ASSUME DataInv, NEW i \in W!Parts, multipart_upload_parts[i].state # "done",
         NEW s \in {"running", "failed"}, W!SetState(i, s),
         UNCHANGED <<W!storageVars, pc, W!fileVars, multipart_upload, W!historyVars>>
  PROVE  DataInv' /\ (SizedData => SizedData')
<1>1. PICK p : p = multipart_upload_parts
  OBVIOUS
<1>2. p \in Seq(PartsOf(W!Bytes)) /\ i \in DOMAIN p /\ s \in W!PartStates
  BY <1>1 DEF DataInv, FileData, GoodParts, W!Parts, W!PartStates
<1>3. PICK q : q = WithState(p, i, s)
  OBVIOUS
<1>4. multipart_upload_parts' = q
  BY <1>1, <1>3 DEF W!SetState, WithState
<1>5. /\ q \in Seq(PartsOf(W!Bytes)) /\ SameBytes(p, q)
      /\ \A k \in 1..Len(p) : q[k].state = IF k = i THEN s ELSE p[k].state
  BY ONLY <1>2, <1>3, PartIsSet
<1>6. \A k \in 1..Len(p) : q[k].state = "done" => p[k].state = "done"
  BY <1>5
<1>7. UNCHANGED <<object, upload, stored, pc, append_block, buffer, loc, initiated,
                  multipart_upload, old, written, outcome>>
  BY DEF W!storageVars, W!fileVars, W!historyVars
<1>8. Writing' <=> Writing
  BY <1>7 DEF Writing
<1>9. /\ FileData' /\ JoinedData'
      /\ SizedData /\ outcome' # "rejected" => SizedData'
  BY <1>1, <1>4, <1>5, <1>7, <1>8, DataGoesOn DEF DataInv
<1>10. StoredData'
  BY <1>1, <1>4, <1>5, <1>6, <1>7, StoredGoesOn DEF DataInv
<1>11. W!Expected' = W!Expected /\ W!Below' = W!Below
  BY <1>7 DEF W!Expected, W!Below
<1>12. W!ObjectInv'
  BY <1>7, <1>11 DEF DataInv, W!ObjectInv
<1>13. multipart_upload_parts # <<>>
  BY <1>1, <1>2
<1>14. W!BufferInv'
  BY <1>7, <1>11, <1>13 DEF DataInv, W!BufferInv
<1>15. SizedData => outcome' # "rejected"
  BY <1>7 DEF SizedData
<1>16. QED BY <1>9, <1>10, <1>12, <1>14, <1>15 DEF DataInv

(* S3 stores a part: its body, or a range of the object, which is still what *)
(* it was, because the upload is open.                                       *)
LEMMA PartUploadedStep ==
  ASSUME DataInv, NEW i \in W!Parts, W!PartUploaded(i)
  PROVE  DataInv' /\ (SizedData => SizedData')
<1>1. PICK p : p = multipart_upload_parts
  OBVIOUS
<1>2. p \in Seq(PartsOf(W!Bytes)) /\ i \in DOMAIN p /\ "done" \in W!PartStates
  BY <1>1 DEF DataInv, FileData, GoodParts, W!Parts, W!PartStates
<1>3. PICK q : q = WithState(p, i, "done")
  OBVIOUS
<1>4. multipart_upload_parts' = q
  BY <1>1, <1>3 DEF W!PartUploaded, W!SetState, WithState
<1>5. /\ q \in Seq(PartsOf(W!Bytes)) /\ SameBytes(p, q)
      /\ \A k \in 1..Len(p) : q[k].state = IF k = i THEN "done" ELSE p[k].state
  BY ONLY <1>2, <1>3, PartIsSet
<1>6. /\ UNCHANGED <<object, upload, pc, append_block, buffer, loc, initiated,
                     multipart_upload, old, written, outcome>>
      /\ upload = "open"
  BY DEF W!PartUploaded, W!S3!StorePart, W!fileVars, W!historyVars
<1>7. Writing' <=> Writing
  BY <1>6 DEF Writing
<1>8. /\ FileData' /\ JoinedData'
      /\ SizedData /\ outcome' # "rejected" => SizedData'
  BY <1>1, <1>4, <1>5, <1>6, <1>7, DataGoesOn DEF DataInv
<1>9. object = old
  BY <1>6 DEF DataInv, W!ObjectInv
<1>10. PICK b : b = ContentOf(old, p[i])
  OBVIOUS
<1>11. stored' = [k \in DOMAIN stored \cup {i} |-> IF k = i THEN b ELSE stored[k]]
  <2>1. (IF p[i].copy THEN W!Slice(object, p[i].bytes) ELSE p[i].bytes) = b
    BY <1>9, <1>10, RangesSame DEF ContentOf
  <2>2. QED BY <1>1, <2>1 DEF W!PartUploaded, W!S3!StorePart
<1>12. StoredData'
  <2>1. \A k \in 1..Len(p) : ContentOf(old, q[k]) = ContentOf(old, p[k])
    <3>1. GoodParts(W!Bytes, old, p)
      BY <1>1 DEF DataInv, FileData
    <3>2. QED BY ONLY <1>5, <3>1, StatesChange
  <2>2. \A k \in 1..Len(p) : p[k].state = "done" =>
          k \in DOMAIN stored /\ stored[k] = ContentOf(old, p[k])
    BY <1>1 DEF DataInv, StoredData
  <2>3. ASSUME NEW k \in 1..Len(p), q[k].state = "done"
        PROVE  k \in DOMAIN stored' /\ stored'[k] = ContentOf(old, q[k])
    <3>1. CASE k = i
      BY <1>10, <1>11, <2>1, <3>1
    <3>2. CASE k # i
      <4>1. k \in DOMAIN stored /\ stored[k] = ContentOf(old, p[k])
        BY <1>5, <2>2, <2>3, <3>2
      <4>2. QED BY <1>11, <2>1, <3>2, <4>1
    <3>3. QED BY <3>1, <3>2
  <2>4. Len(q) = Len(p)
    BY <1>5 DEF SameBytes
  <2>5. QED BY <1>4, <1>6, <2>3, <2>4 DEF StoredData, ContentOf
<1>13. W!Expected' = W!Expected /\ W!Below' = W!Below
  BY <1>6 DEF W!Expected, W!Below
<1>14. W!ObjectInv'
  BY <1>6, <1>13 DEF DataInv, W!ObjectInv
<1>15. multipart_upload_parts # <<>>
  BY <1>1, <1>2
<1>16. W!BufferInv'
  BY <1>6, <1>13, <1>15 DEF DataInv, W!BufferInv
<1>17. SizedData => outcome' # "rejected"
  BY <1>6 DEF SizedData
<1>18. QED BY <1>8, <1>12, <1>14, <1>16, <1>17 DEF DataInv

(* A step of a thread of the executor. *)
LEMMA FilePoolStep ==
  ASSUME DataInv, NEW i \in W!Parts, W!PoolStep(i)
  PROVE  DataInv' /\ (SizedData => SizedData')
<1>1. CASE W!PartUploaded(i)
  BY <1>1, PartUploadedStep
<1>2. CASE W!StartPart(i) \/ W!PartFails(i)
  <2>1. PICK s \in {"running", "failed"} : W!SetState(i, s)
    BY <1>2 DEF W!StartPart, W!PartFails
  <2>2. /\ multipart_upload_parts[i].state # "done"
        /\ UNCHANGED <<W!storageVars, pc, W!fileVars, multipart_upload, W!historyVars>>
    BY <1>2 DEF W!StartPart, W!PartFails
  <2>3. QED BY ONLY DataInv, i \in W!Parts, <2>1, <2>2, PartWaitsStep
<1>3. QED BY <1>1, <1>2 DEF W!PoolStep

(* When all parts are done, S3 has stored the bytes of each. *)
LEMMA StoredIsAll ==
  ASSUME FileData, StoredData, \A i \in W!Parts : multipart_upload_parts[i].state = "done"
  PROVE  /\ [i \in 1..Len(multipart_upload_parts) |-> stored[i]]
              = Pieces(old, multipart_upload_parts)
         /\ \A i \in 1..Len(multipart_upload_parts) :
              stored[i] = Pieces(old, multipart_upload_parts)[i]
<1>1. GoodParts(W!Bytes, old, multipart_upload_parts)
  BY DEF FileData
<1>2. PICK p : p = multipart_upload_parts
  OBVIOUS
<1>3. DOMAIN p = 1..Len(p) /\ \A i \in 1..Len(p) : Pieces(old, p)[i] = ContentOf(old, p[i])
  BY ONLY <1>1, <1>2, PiecesAre
<1>4. \A i \in 1..Len(p) : stored[i] = ContentOf(old, p[i])
  BY <1>2, <1>3 DEF StoredData, W!Parts
<1>5. [i \in 1..Len(p) |-> stored[i]] = Pieces(old, p)
  BY <1>3, <1>4 DEF Pieces
<1>6. QED BY <1>2, <1>3, <1>4, <1>5

(* S3 puts the parts together, or refuses them. *)
LEMMA FileCompleteStep ==
  ASSUME DataInv, W!Complete
  PROVE  DataInv' /\ (SizedData => SizedData')
<1>1. PICK n : n = Len(multipart_upload_parts)
  OBVIOUS
<1>2. /\ pc = "commit" /\ \A i \in W!Parts : multipart_upload_parts[i].state = "done"
      /\ \/ W!S3!CompleteUpload(n) /\ pc' = "done" /\ outcome' = "committed"
         \/ W!S3!CompleteUpload(n) /\ pc' = "abort" /\ outcome' = "failed"
         \/ ~W!S3!PartsAccepted(n) /\ pc' = "abort" /\ outcome' = "rejected"
            /\ UNCHANGED W!storageVars
         \/ pc' = "abort" /\ outcome' = "failed" /\ UNCHANGED W!storageVars
      /\ UNCHANGED <<W!fileVars, W!uploadVars, old, written, lost>>
  BY <1>1, Zenon DEF W!Complete, W!End
<1>3. /\ UNCHANGED <<append_block, buffer, loc, multipart_upload, multipart_upload_parts,
                     old, written, stored>>
      /\ pc' \in {"done", "abort"}
  BY <1>2 DEF W!fileVars, W!uploadVars, W!storageVars, W!S3!CompleteUpload
<1>4. multipart_upload /\ object = old
  BY <1>2 DEF DataInv, W!BufferInv, W!ObjectInv
<1>5. Writing
  BY <1>2, <1>4 DEF Writing
<1>6. PICK s : s = Pieces(old, multipart_upload_parts)
  OBVIOUS
<1>7. [i \in 1..n |-> stored[i]] = s /\ \A i \in 1..n : stored[i] = s[i]
  BY <1>1, <1>2, <1>6, StoredIsAll DEF DataInv
<1>8. n \in Nat /\ s \in Seq(Seq(W!Bytes)) /\ \A i \in 1..n : Len(s[i]) \in Nat
  <2>1. GoodParts(W!Bytes, old, multipart_upload_parts)
    BY DEF DataInv, FileData
  <2>2. /\ Pieces(old, multipart_upload_parts) \in Seq(Seq(W!Bytes))
        /\ Len(Pieces(old, multipart_upload_parts)) = Len(multipart_upload_parts)
        /\ Len(multipart_upload_parts) \in Nat
    BY ONLY <2>1, PiecesAre
  <2>3. \A i \in 1..Len(s) : s[i] \in Seq(W!Bytes)
    BY <1>6, <2>2, ElementOfSeq
  <2>4. \A t \in Seq(W!Bytes) : Len(t) \in Nat
    BY LenProperties
  <2>5. QED BY <1>1, <1>6, <2>2, <2>3, <2>4
<1>9. W!S3!CompleteUpload(n) => object' = W!Expected /\ upload' = "completed"
  <2>1. SUFFICES ASSUME W!S3!CompleteUpload(n)
                 PROVE  object' = W!Expected /\ upload' = "completed"
    OBVIOUS
  <2>2. /\ object' = W!S3!FlattenSeq([i \in 1..n |-> stored[i]])
        /\ upload' = "completed" /\ W!S3!PartsAccepted(n)
    BY <2>1 DEF W!S3!CompleteUpload
  <2>3. object' = FlattenSeq(s)
    BY <1>7, <2>2, FlattenSame
  <2>4. ~W!Below
    <3>1. SUFFICES ASSUME W!Below PROVE FALSE
      OBVIOUS
    <3>2. n >= 2 /\ Len(s[1]) < MinPart
      BY <1>1, <1>5, <1>6, <3>1 DEF DataInv, JoinedData
    <3>3. 1 \in 1..(n - 1) /\ 1 \in 1..n
      BY <1>8, <3>2
    <3>4. Len(stored[1]) >= MinPart
      BY <2>2, <3>3 DEF W!S3!PartsAccepted
    <3>5. QED BY <1>7, <1>8, <3>2, <3>3, <3>4, SizesAre
  <2>5. W!Expected = FlattenSeq(s) \o <<>>
    BY <1>2, <1>5, <1>6, <2>4 DEF DataInv, JoinedData
  <2>6. FlattenSeq(s) \o <<>> = FlattenSeq(s)
    <3>1. FlattenSeq(s) \in Seq(W!Bytes)
      BY <1>8, FlattenType
    <3>2. QED BY <3>1, ConcatEmptySeq
  <2>7. QED BY <2>2, <2>3, <2>5, <2>6
<1>10. SizedData => W!S3!PartsAccepted(n)
  <2>1. SUFFICES ASSUME SizedData, NEW i \in 1..(n - 1) PROVE Len(stored[i]) >= MinPart
    BY DEF W!S3!PartsAccepted
  <2>2. i \in 1..n /\ i < n
    BY <1>8
  <2>3. Len(s[i]) >= MinPart
    BY <1>1, <1>5, <1>6, <2>1, <2>2 DEF SizedData
  <2>4. QED BY <1>7, <2>2, <2>3
<1>11. W!Expected' = W!Expected
  BY <1>3 DEF W!Expected
<1>12. W!ObjectInv'
  <2>1. CASE W!S3!CompleteUpload(n)
    BY <1>2, <1>3, <1>9, <1>11, <2>1 DEF W!ObjectInv
  <2>2. CASE ~W!S3!CompleteUpload(n)
    <3>1. object' = object /\ pc' = "abort" /\ outcome' # "committed"
      BY <1>2, <2>2 DEF W!storageVars
    <3>2. QED BY <1>3, <1>4, <1>11, <3>1 DEF W!ObjectInv
  <2>3. QED BY <2>1, <2>2
<1>13. SizedData => outcome' # "rejected"
  BY <1>2, <1>10
<1>14. Writing' => Writing
  BY <1>5
<1>15. DataInv' /\ (SizedData /\ outcome' # "rejected" => SizedData')
  <2>1. /\ multipart_upload_parts' \in Seq(PartsOf(W!Bytes))
        /\ SameBytes(multipart_upload_parts, multipart_upload_parts')
        /\ \A k \in 1..Len(multipart_upload_parts) :
             multipart_upload_parts'[k].state = "done" => multipart_upload_parts[k].state = "done"
    BY <1>3, PartsStayTheSame DEF DataInv
  <2>2. pc \notin {"new", "open"} /\ pc' \notin {"new", "open", "commit", "shutdown", "deferred"}
    BY <1>2, <1>3
  <2>3. QED BY <1>3, <1>12, <1>14, <2>1, <2>2, DataKeeps
<1>16. QED BY <1>13, <1>15

(* The upload is aborted: if it was open, the object is what it was. *)
LEMMA FileAbortStep ==
  ASSUME DataInv, W!Abort
  PROVE  DataInv' /\ (SizedData => SizedData')
<1>1. /\ pc = "abort" /\ pc' = "done" /\ W!CancelPending /\ multipart_upload' = FALSE
      /\ UNCHANGED <<object, stored, append_block, buffer, loc, old, written, outcome>>
      /\ upload' = "open" => upload = "open"
  BY DEF W!Abort, W!S3!AbortUpload, W!fileVars, W!storageVars
<1>2. /\ multipart_upload_parts' \in Seq(PartsOf(W!Bytes))
      /\ SameBytes(multipart_upload_parts, multipart_upload_parts')
      /\ \A k \in 1..Len(multipart_upload_parts) :
           multipart_upload_parts'[k].state = "done" => multipart_upload_parts[k].state = "done"
  <2>1. multipart_upload_parts \in Seq(PartsOf(W!Bytes))
    BY DEF DataInv, FileData, GoodParts
  <2>2. QED BY ONLY <1>1, <2>1, PendingAreCancelled
<1>3. W!Expected' = W!Expected
  BY <1>1 DEF W!Expected
<1>4. W!ObjectInv'
  BY <1>1, <1>3 DEF DataInv, W!ObjectInv
<1>5. ~Writing'
  BY <1>1 DEF Writing
<1>6. pc \notin {"new", "open"} /\ pc' \notin {"new", "open", "commit", "shutdown", "deferred"}
  BY <1>1
<1>7. DataInv' /\ (SizedData /\ outcome' # "rejected" => SizedData')
  BY <1>1, <1>2, <1>4, <1>5, <1>6, DataKeeps
<1>8. SizedData => outcome' # "rejected"
  BY <1>1 DEF SizedData
<1>9. QED BY <1>7, <1>8

(* A rollback: the object is what it was. *)
LEMMA FileDiscardStep ==
  ASSUME DataInv, W!Discard
  PROVE  DataInv' /\ (SizedData => SizedData')
<1>1. /\ pc = "deferred" /\ pc' = "done" /\ outcome' \in {"discarded", "failed"}
      /\ UNCHANGED <<object, stored, append_block, buffer, loc, old, written>>
      /\ multipart_upload_parts' = multipart_upload_parts \/ W!CancelPending
  BY DEF W!Discard, W!End, W!S3!AbortUpload, W!fileVars, W!storageVars, W!uploadVars
<1>2. /\ multipart_upload_parts' \in Seq(PartsOf(W!Bytes))
      /\ SameBytes(multipart_upload_parts, multipart_upload_parts')
      /\ \A k \in 1..Len(multipart_upload_parts) :
           multipart_upload_parts'[k].state = "done" => multipart_upload_parts[k].state = "done"
  <2>1. multipart_upload_parts \in Seq(PartsOf(W!Bytes))
    BY DEF DataInv, FileData, GoodParts
  <2>2. CASE W!CancelPending
    BY ONLY <2>1, <2>2, PendingAreCancelled
  <2>3. CASE multipart_upload_parts' = multipart_upload_parts
    BY <2>3, PartsStayTheSame DEF DataInv
  <2>4. QED BY <1>1, <2>2, <2>3
<1>3. W!Expected' = W!Expected
  BY <1>1 DEF W!Expected
<1>4. W!ObjectInv'
  BY <1>1, <1>3 DEF DataInv, W!ObjectInv
<1>5. ~Writing'
  BY <1>1 DEF Writing
<1>6. pc \notin {"new", "open"} /\ pc' \notin {"new", "open", "commit", "shutdown", "deferred"}
  BY <1>1
<1>7. DataInv' /\ (SizedData /\ outcome' # "rejected" => SizedData')
  BY <1>1, <1>2, <1>4, <1>5, <1>6, DataKeeps
<1>8. QED BY <1>1, <1>7

(* The user's thread goes on or gives up without a call to S3. *)
LEMMA FileWaitsStep ==
  ASSUME DataInv, W!ShutdownReturns \/ W!Interrupt \/ \E i \in W!Parts : W!PartResultFails(i)
  PROVE  DataInv' /\ (SizedData => SizedData')
<1>1. /\ UNCHANGED <<object, upload, stored, append_block, buffer, loc, old, written,
                     multipart_upload, multipart_upload_parts>>
      /\ \/ pc = "shutdown" /\ pc' = "deferred" /\ outcome' = outcome
         \/ pc = "commit" /\ pc' \in {"done", "abort"} /\ outcome' \in {"interrupted", "failed"}
  BY DEF W!ShutdownReturns, W!Interrupt, W!PartResultFails, W!End, W!fileVars, W!storageVars,
       W!uploadVars, W!historyVars
<1>2. /\ multipart_upload_parts' \in Seq(PartsOf(W!Bytes))
      /\ SameBytes(multipart_upload_parts, multipart_upload_parts')
      /\ \A k \in 1..Len(multipart_upload_parts) :
           multipart_upload_parts'[k].state = "done" => multipart_upload_parts[k].state = "done"
  BY <1>1, PartsStayTheSame DEF DataInv
<1>3. W!Expected' = W!Expected
  BY <1>1 DEF W!Expected
<1>4. W!ObjectInv'
  BY <1>1, <1>3 DEF DataInv, W!ObjectInv
<1>5. Writing' => Writing
  BY <1>1 DEF Writing
<1>6. pc \notin {"new", "open"} /\ pc' \notin {"new", "open", "commit"}
  BY <1>1
<1>7. pc' \in {"shutdown", "deferred"} =>
        pc \in {"shutdown", "deferred"}
        /\ UNCHANGED <<upload, multipart_upload, multipart_upload_parts>>
  BY <1>1
<1>8. DataInv' /\ (SizedData /\ outcome' # "rejected" => SizedData')
  BY <1>1, <1>2, <1>4, <1>5, <1>6, <1>7, DataKeeps
<1>9. SizedData => outcome' # "rejected"
  BY <1>1 DEF SizedData
<1>10. QED BY <1>8, <1>9

(* One PutObject of all that was written. *)
LEMMA SmallIsCommitted ==
  ASSUME W!CommitSmall, object = old, upload = "none", buffer = W!Expected,
         UNCHANGED <<append_block, old, written>>
  PROVE  /\ W!ObjectInv' /\ pc' = "done" /\ outcome' \in {"committed", "failed"}
         /\ stored' = stored
<1>1. /\ pc' = "done" /\ outcome' \in {"committed", "failed"} /\ UNCHANGED <<upload, stored>>
      /\ object' = buffer \/ (object' = object /\ outcome' = "failed")
  BY DEF W!CommitSmall, W!S3!PutObject, W!End, W!storageVars
<1>2. W!Expected' = W!Expected
  BY DEF W!Expected
<1>3. QED BY <1>1, <1>2 DEF W!ObjectInv

(* The transaction commits. *)
LEMMA FileCommitStep ==
  ASSUME DataInv, W!Commit
  PROVE  DataInv' /\ (SizedData => SizedData')
<1>1. /\ pc = "deferred"
      /\ UNCHANGED <<append_block, buffer, loc, old, written, multipart_upload,
                     multipart_upload_parts>>
      /\ IF ~multipart_upload THEN W!CommitSmall
         ELSE pc' = "commit" /\ UNCHANGED <<object, upload, stored, outcome>>
  BY DEF W!Commit, W!fileVars, W!uploadVars, W!storageVars
<1>2. /\ multipart_upload_parts' \in Seq(PartsOf(W!Bytes))
      /\ SameBytes(multipart_upload_parts, multipart_upload_parts')
      /\ \A k \in 1..Len(multipart_upload_parts) :
           multipart_upload_parts'[k].state = "done" => multipart_upload_parts[k].state = "done"
  BY <1>1, PartsStayTheSame DEF DataInv
<1>3. object = old
  BY <1>1 DEF DataInv, W!ObjectInv
<1>4. CASE multipart_upload
  <2>1. pc' = "commit" /\ UNCHANGED <<object, upload, stored, outcome>>
    BY <1>1, <1>4
  <2>2. W!Expected' = W!Expected
    BY <1>1 DEF W!Expected
  <2>3. W!ObjectInv'
    BY <1>1, <1>3, <2>1, <2>2 DEF DataInv, W!ObjectInv
  <2>4. Writing' => Writing
    BY <1>1, <2>1 DEF Writing
  <2>5. /\ pc \notin {"new", "open"} /\ pc' \notin {"new", "open", "shutdown", "deferred"}
        /\ multipart_upload'
    BY <1>1, <1>4, <2>1
  <2>6. DataInv' /\ (SizedData /\ outcome' # "rejected" => SizedData')
    BY <1>1, <1>2, <2>1, <2>3, <2>4, <2>5, DataKeeps
  <2>7. SizedData => outcome' # "rejected"
    BY <2>1 DEF SizedData
  <2>8. QED BY <2>6, <2>7
<1>5. CASE ~multipart_upload
  <2>1. upload = "none" /\ buffer = W!Expected
    BY <1>1, <1>5 DEF DataInv, W!BufferInv
  <2>2. W!CommitSmall
    BY <1>1, <1>5
  <2>3. /\ W!ObjectInv' /\ pc' = "done" /\ outcome' \in {"committed", "failed"}
        /\ stored' = stored
    BY ONLY <1>1, <1>3, <2>1, <2>2, SmallIsCommitted
  <2>4. ~Writing'
    BY <2>3 DEF Writing
  <2>5. pc \notin {"new", "open"} /\ pc' \notin {"new", "open", "commit", "shutdown", "deferred"}
    BY <1>1, <2>3
  <2>6. DataInv' /\ (SizedData /\ outcome' # "rejected" => SizedData')
    BY <1>1, <1>2, <2>3, <2>4, <2>5, DataKeeps
  <2>7. QED BY <2>3, <2>6
<1>6. QED BY <1>4, <1>5
--------------------------------------------------------------------------------
(* Parts that are large. *)
Large(o, p) == \A i \in 1..Len(p) : Len(Pieces(o, p)[i]) >= MinPart

(* All parts but the last are large if only one follows those that are. *)
LargeButLast(o, p) == \A i \in 1..Len(p) : i < Len(p) => Len(Pieces(o, p)[i]) >= MinPart

AllPieces(o, p) == \A i \in 1..Len(p) : Pieces(o, p)[i] = ContentOf(o, p[i])

(* Each part, on its own. *)
LEMMA EachPiece ==
  ASSUME NEW S, NEW o, NEW p, GoodParts(S, o, p)
  PROVE  AllPieces(o, p)
BY PiecesAre DEF AllPieces

(* Large parts with more parts behind them. *)
LEMMA LargeConcat ==
  ASSUME NEW S, NEW o, NEW p, NEW q, GoodParts(S, o, p), GoodParts(S, o, q), Large(o, p)
  PROVE  /\ Large(o, q) => Large(o, p \o q)
         /\ Len(q) <= 1 => LargeButLast(o, p \o q)
<1>1. PICK r : r = p \o q
  OBVIOUS
<1>2. /\ GoodParts(S, o, r) /\ Len(r) = Len(p) + Len(q) /\ Len(p) \in Nat /\ Len(q) \in Nat
      /\ \A i \in 1..Len(r) : r[i] = IF i <= Len(p) THEN p[i] ELSE q[i - Len(p)]
  <2>1. /\ GoodParts(S, o, p \o q) /\ Len(p \o q) = Len(p) + Len(q)
        /\ Len(p) \in Nat /\ Len(q) \in Nat
        /\ \A i \in 1..Len(p \o q) : (p \o q)[i] = IF i <= Len(p) THEN p[i] ELSE q[i - Len(p)]
    BY ONLY GoodParts(S, o, p), GoodParts(S, o, q), PartsConcat
  <2>2. QED BY ONLY <1>1, <2>1, Zenon
<1>3. AllPieces(o, p)
  BY ONLY GoodParts(S, o, p), EachPiece
<1>4. AllPieces(o, q)
  BY ONLY GoodParts(S, o, q), EachPiece
<1>5. AllPieces(o, r)
  BY ONLY <1>2, EachPiece
<1>6. ASSUME NEW i \in 1..Len(r), i <= Len(p) PROVE Len(Pieces(o, r)[i]) >= MinPart
  <2>1. i \in 1..Len(p)
    BY <1>2, <1>6
  <2>2. Pieces(o, r)[i] = Pieces(o, p)[i]
    BY <1>2, <1>3, <1>5, <1>6, <2>1 DEF AllPieces
  <2>3. QED BY <2>1, <2>2 DEF Large
<1>7. ASSUME NEW i \in 1..Len(r), ~(i <= Len(p)), Large(o, q)
      PROVE  Len(Pieces(o, r)[i]) >= MinPart
  <2>1. PICK j \in 1..Len(q) : j = i - Len(p)
    BY <1>2, <1>7
  <2>2. Pieces(o, r)[i] = Pieces(o, q)[j]
    BY <1>2, <1>4, <1>5, <1>7, <2>1 DEF AllPieces
  <2>3. QED BY <1>7, <2>1, <2>2 DEF Large
<1>8. Large(o, q) => Large(o, r)
  BY <1>6, <1>7 DEF Large
<1>9. Len(q) <= 1 => LargeButLast(o, r)
  <2>1. ASSUME Len(q) <= 1, NEW i \in 1..Len(r), i < Len(r) PROVE i <= Len(p)
    BY <1>2, <2>1
  <2>2. QED BY <1>6, <2>1 DEF LargeButLast
<1>10. QED BY <1>1, <1>8, <1>9

(* The parts of a flush of write() are large, close() adds one at most.      *)
LEMMA BodiesLarge ==
  ASSUME NEW S, NEW o, NEW buf \in Seq(S), Len(buf) < 2 * BlockSize
  PROVE  /\ Len(buf) >= BlockSize /\ 2 * MinPart <= MaxPart => Large(o, W!Bodies(buf))
         /\ Len(buf) <= BlockSize => Len(W!Bodies(buf)) <= 1
<1>1. PICK b, c : b = W!Bodies(buf) /\ c = W!ChunkParts(buf)
  OBVIOUS
<1>2. Pieces(o, b) = c /\ Len(b) = Len(c)
  <2>1. /\ Pieces(o, W!Bodies(buf)) = W!ChunkParts(buf)
        /\ Len(W!Bodies(buf)) = Len(W!ChunkParts(buf))
    BY ONLY buf \in Seq(S), BodiesGood
  <2>2. QED BY ONLY <1>1, <2>1, Zenon
<1>3. /\ Len(buf) >= BlockSize /\ 2 * MinPart <= MaxPart => c \in Seq(Sized(S, MinPart, MaxPart))
      /\ Len(buf) <= BlockSize => Len(c) <= 1
  <2>1. /\ Len(buf) >= BlockSize /\ 2 * MinPart <= MaxPart =>
             W!ChunkParts(buf) \in Seq(Sized(S, MinPart, MaxPart))
        /\ Len(buf) <= BlockSize => Len(W!ChunkParts(buf)) <= 1
    BY ONLY buf \in Seq(S), Len(buf) < 2 * BlockSize, ChunksOfOnePair
  <2>2. QED BY ONLY <1>1, <2>1, Zenon
<1>4. ASSUME c \in Seq(Sized(S, MinPart, MaxPart)) PROVE Large(o, b)
  <2>1. PICK A : A = Sized(S, MinPart, MaxPart)
    OBVIOUS
  <2>2. c \in Seq(A)
    BY ONLY <1>4, <2>1
  <2>3. \A i \in 1..Len(c) : c[i] \in A
    BY ONLY <2>2, ElementOfSeq
  <2>4. \A i \in 1..Len(c) : Len(c[i]) >= MinPart
    BY <2>1, <2>3, SizesAre DEF Sized
  <2>5. QED BY <1>2, <2>4 DEF Large
<1>5. QED BY <1>1, <1>2, <1>3, <1>4

(* The ranges of an object are within it. *)
LEMMA RangesWithin ==
  ASSUME NEW l \in Nat, NEW ranges, ranges = GetRanges(0, l, MaxWorkers, MaxPart),
         NEW i \in DOMAIN ranges
  PROVE  \E a \in Nat, b \in Nat : ranges[i] = <<a, b>> /\ a <= b /\ b <= l
<1>1. CASE l = 0
  <2>1. ranges = <<(<<0, l>>)>>
    BY <1>1, SizesAre DEF GetRanges
  <2>2. ranges[i] = <<0, l>> /\ 0 \in Nat /\ 0 <= l /\ l <= l
    BY <2>1
  <2>3. QED BY <2>2
<1>2. CASE l # 0
  <2>1. PICK z \in Nat, k \in Nat \ {0}, w \in Nat :
          z = 0 /\ z < l /\ k = MaxPart /\ w = MaxWorkers
    <3>1. MaxPart \in Nat \ {0} /\ MaxWorkers \in Nat
      BY SizesAre
    <3>2. 0 \in Nat /\ 0 < l
      BY <1>2
    <3>3. QED BY ONLY <3>1, <3>2, Zenon
  <2>2. z < l /\ ranges = GetRanges(z, l, w, k)
    BY ONLY <2>1, ranges = GetRanges(0, l, MaxWorkers, MaxPart)
  <2>3. PICK n \in Nat \ {0} : \E e : Edges(e, n, z, l) /\ ranges = Between(e, n)
    BY ONLY l \in Nat, z \in Nat, k \in Nat \ {0}, w \in Nat, <2>2, RangesCut
  <2>4. PICK e : Edges(e, n, z, l) /\ ranges = Between(e, n)
    BY <2>3
  <2>5. \A j \in 1..n : /\ e[j - 1] \in Nat /\ e[j] \in Nat /\ z <= e[j - 1]
                        /\ e[j - 1] < e[j] /\ e[j] <= l
    BY ONLY n \in Nat \ {0}, z \in Nat, l \in Nat, <2>4, EdgesOrder
  <2>6. i \in 1..n /\ ranges[i] = <<e[i - 1], e[i]>>
    BY <2>4 DEF Between
  <2>7. QED BY <2>5, <2>6
<1>3. QED BY <1>1, <1>2

(* So are the copies of what is appended to. *)
LEMMA CopiesLarge ==
  ASSUME W!PartsAreLarge, FileData, object = old, append_block, NEW total \in Nat
  PROVE  Large(old, W!CopyParts(total))
<1>1. old \in Seq(W!Bytes) /\ Len(old) \in OldSizes /\ "ab" \in Modes
  BY DEF FileData
<1>2. PICK c : c = W!CopyParts(total)
  OBVIOUS
<1>3. PICK ranges : ranges = GetRanges(0, Len(old), MaxWorkers, MaxPart)
  OBVIOUS
<1>4. /\ GoodParts(W!Bytes, old, c)
      /\ Pieces(old, c) = <<old>> \/ Pieces(old, c) = SlicesOf(old, ranges)
  <2>1. /\ GoodParts(W!Bytes, old, W!CopyParts(total))
        /\ Pieces(old, W!CopyParts(total)) = <<old>>
            \/ Pieces(old, W!CopyParts(total))
                 = SlicesOf(old, GetRanges(0, Len(old), MaxWorkers, MaxPart))
    BY ONLY append_block, object = old, <1>1, total \in Nat, CopiesGood
  <2>2. QED BY ONLY <1>2, <1>3, <2>1, Zenon
<1>5. /\ Len(Pieces(old, c)) = Len(c) /\ Len(c) \in Nat
      /\ Pieces(old, c) \in Seq(Seq(W!Bytes)) /\ DOMAIN Pieces(old, c) = 1..Len(c)
  <2>1. Pieces(old, c) \in Seq(Seq(W!Bytes)) /\ Len(Pieces(old, c)) = Len(c) /\ Len(c) \in Nat
    BY ONLY <1>4, PiecesAre
  <2>2. DOMAIN Pieces(old, c) = 1..Len(Pieces(old, c))
    BY ONLY <2>1, LenProperties
  <2>3. QED BY <2>1, <2>2
<1>6. Len(old) \in Nat /\ Len(old) # NULL
  BY <1>1, LenProperties, SizesAre
<1>7. /\ Len(old) >= BlockSize
      /\ \A i \in DOMAIN ranges : ranges[i][2] - ranges[i][1] >= MinPart
  <2>1. W!GetRanges(0, Len(old), MaxWorkers, MaxPart) = ranges
    BY <1>3, RangesSame
  <2>2. Len(old) \in OldSizes \ {NULL}
    BY <1>1, <1>6
  <2>3. QED BY <1>1, <2>1, <2>2 DEF W!PartsAreLarge
<1>8. CASE Pieces(old, c) = <<old>>
  <2>1. Len(c) = 1 /\ \A i \in 1..1 : Pieces(old, c)[i] = old
    BY <1>5, <1>8
  <2>2. Len(old) >= MinPart
    BY <1>6, <1>7, SizesAre
  <2>3. QED BY <1>2, <2>1, <2>2 DEF Large
<1>9. CASE Pieces(old, c) = SlicesOf(old, ranges)
  <2>1. DOMAIN ranges = 1..Len(c)
    BY <1>5, <1>9 DEF SlicesOf
  <2>2. ASSUME NEW i \in 1..Len(c) PROVE Len(Pieces(old, c)[i]) >= MinPart
    <3>1. Pieces(old, c)[i] = Slice(old, ranges[i]) /\ ranges[i][2] - ranges[i][1] >= MinPart
      BY <1>7, <1>9, <2>1 DEF SlicesOf
    <3>2. PICK a \in Nat, b \in Nat : ranges[i] = <<a, b>> /\ a <= b /\ b <= Len(old)
      BY RangesWithin, <1>3, <1>6, <2>1
    <3>3. Len(Slice(old, <<a, b>>)) = b - a
      BY ONLY <1>1, <3>2, a \in Nat, b \in Nat, SliceIs
    <3>4. QED BY <3>1, <3>2, <3>3
  <2>3. QED BY <1>2, <2>2 DEF Large
<1>10. QED BY <1>4, <1>8, <1>9
--------------------------------------------------------------------------------
(* Bytes are written, and parts are made of the buffer.                      *)

(* The parts of a buffer come after those there are. *)
Flushed(p, buf) == p \o W!Bodies(buf)

(* They add its bytes to the others. *)
BodiesAdded(S, o, p, buf) ==
  /\ GoodParts(S, o, Flushed(p, buf))
  /\ FlattensTo(Pieces(o, Flushed(p, buf)), FlattenSeq(Pieces(o, p)) \o buf)
  /\ Len(Flushed(p, buf)) = Len(p) + Len(W!Bodies(buf))
  /\ Len(p) \in Nat /\ Len(W!Bodies(buf)) \in Nat
  /\ \A i \in 1..Len(p) : Flushed(p, buf)[i] = p[i]
  /\ \A i \in 1..Len(Flushed(p, buf)) : ~(i <= Len(p)) => Flushed(p, buf)[i].state # "done"

(* The parts of a flush follow those that are there. *)
LEMMA BodiesFollow ==
  ASSUME NEW S, NEW o, NEW p, GoodParts(S, o, p), NEW buf \in Seq(S)
  PROVE  BodiesAdded(S, o, p, buf)
<1>q. PICK q : q = Flushed(p, buf)
  OBVIOUS
<1>1. PICK b : b = W!Bodies(buf)
  OBVIOUS
<1>2. GoodParts(S, o, b) /\ NoneDone(b) /\ FlattensTo(Pieces(o, b), buf)
  <2>1. /\ GoodParts(S, o, W!Bodies(buf)) /\ NoneDone(W!Bodies(buf))
        /\ FlattensTo(Pieces(o, W!Bodies(buf)), buf)
    BY ONLY buf \in Seq(S), BodiesGood
  <2>2. QED BY ONLY <1>1, <2>1, Zenon
<1>3. /\ GoodParts(S, o, p \o b)
      /\ FlattensTo(Pieces(o, p \o b), FlattenSeq(Pieces(o, p)) \o FlattenSeq(Pieces(o, b)))
      /\ Len(p \o b) = Len(p) + Len(b) /\ Len(p) \in Nat /\ Len(b) \in Nat
      /\ \A i \in 1..Len(p \o b) : (p \o b)[i] = IF i <= Len(p) THEN p[i] ELSE b[i - Len(p)]
  BY ONLY GoodParts(S, o, p), <1>2, PartsConcat
<1>4. q = p \o b
  BY <1>1, <1>q DEF Flushed
<1>5. ASSUME NEW i \in 1..Len(p) PROVE q[i] = p[i]
  BY <1>3, <1>4
<1>6. ASSUME NEW i \in 1..Len(q), ~(i <= Len(p)) PROVE q[i].state # "done"
  <2>1. i - Len(p) \in 1..Len(b) /\ q[i] = b[i - Len(p)]
    BY <1>3, <1>4, <1>6
  <2>2. QED BY <1>2, <2>1 DEF NoneDone
<1>7. FlattensTo(Pieces(o, q), FlattenSeq(Pieces(o, p)) \o buf)
  BY <1>2, <1>3, <1>4 DEF FlattensTo
<1>8. GoodParts(S, o, q) /\ Len(q) = Len(p) + Len(b)
  BY <1>3, <1>4
<1>9. QED BY <1>q, <1>1, <1>3, <1>5, <1>6, <1>7, <1>8 DEF BodiesAdded

(* The first parts: the copies of what is appended to, and those of the      *)
(* buffer.                                                                   *)
Starts(p, total, buf) == p = W!CopyParts(total) \o W!Bodies(buf)

(* They are the file so far; or too small to be completed, all of them.      *)
LEMMA FirstParts ==
  ASSUME FileData, object = old, NEW total \in Nat, NEW buf \in Seq(W!Bytes), W!Below => buf # <<>>,
         NEW p, Starts(p, total, buf)
  PROVE  /\ GoodParts(W!Bytes, old, p) /\ NoneDone(p)
         /\ W!Below => Len(p) >= 2 /\ Len(Pieces(old, p)[1]) < MinPart
         /\ ~W!Below => FlattensTo(Pieces(old, p), (IF append_block THEN old ELSE <<>>) \o buf)
         /\ W!PartsAreLarge =>
              /\ Large(old, W!Bodies(buf)) => Large(old, p)
              /\ Len(W!Bodies(buf)) <= 1 => LargeButLast(old, p)
<1>1. PICK c : c = W!CopyParts(total)
  OBVIOUS
<1>2. /\ GoodParts(W!Bytes, old, c) /\ NoneDone(c) /\ Len(c) \in Nat
      /\ FlattensTo(Pieces(old, c), IF append_block THEN old ELSE <<>>)
      /\ append_block => Len(c) \in Nat \ {0}
      /\ append_block /\ Len(old) <= MaxPart => Pieces(old, c) = <<old>>
      /\ W!PartsAreLarge => Large(old, c)
  <2>1. CASE append_block
    <3>1. old \in Seq(W!Bytes)
      BY <2>1 DEF FileData
    <3>2. /\ GoodParts(W!Bytes, old, W!CopyParts(total)) /\ NoneDone(W!CopyParts(total))
          /\ Len(W!CopyParts(total)) \in Nat \ {0}
          /\ FlattensTo(Pieces(old, W!CopyParts(total)), old)
          /\ Len(old) <= MaxPart => Pieces(old, W!CopyParts(total)) = <<old>>
      BY ONLY total \in Nat, object = old, <2>1, <3>1, CopiesGood
    <3>3. W!PartsAreLarge => Large(old, W!CopyParts(total))
      BY <2>1, CopiesLarge
    <3>4. Len(c) \in Nat /\ Len(c) \in Nat \ {0}
      BY <1>1, <3>2
    <3>5. FlattensTo(Pieces(old, c), IF append_block THEN old ELSE <<>>)
      BY ONLY <1>1, <2>1, <3>2, Zenon
    <3>6. QED BY ONLY <1>1, <2>1, <3>2, <3>3, <3>4, <3>5, Zenon
  <2>2. CASE ~append_block
    <3>1. c = <<>> /\ Len(c) = 0
      BY <1>1, <2>2, NoCopies
    <3>2. c \in Seq(PartsOf(W!Bytes))
      BY <3>1, EmptySeq
    <3>3. GoodParts(W!Bytes, old, c) /\ NoneDone(c) /\ Large(old, c)
      BY <3>1, <3>2 DEF GoodParts, NoneDone, Large
    <3>4. Pieces(old, c) = <<>>
      BY <3>1 DEF Pieces
    <3>5. FlattensTo(Pieces(old, c), <<>>)
      BY <3>4, FlattenNone DEF FlattensTo
    <3>6. QED BY <2>2, <3>1, <3>3, <3>5
  <2>3. QED BY <2>1, <2>2
<1>3. PICK b : b = W!Bodies(buf)
  OBVIOUS
<1>4. GoodParts(W!Bytes, old, b) /\ (W!Below => Len(b) >= 1)
  <2>1. GoodParts(W!Bytes, old, W!Bodies(buf)) /\ (buf # <<>> => Len(W!Bodies(buf)) >= 1)
    BY ONLY buf \in Seq(W!Bytes), BodiesGood
  <2>2. QED BY <1>3, <2>1
<1>5. p = c \o W!Bodies(buf) /\ p = c \o b
  BY <1>1, <1>3 DEF Starts
<1>6. /\ GoodParts(W!Bytes, old, p)
      /\ FlattensTo(Pieces(old, p), FlattenSeq(Pieces(old, c)) \o buf)
      /\ Len(p) = Len(c) + Len(b) /\ Len(b) \in Nat
      /\ \A i \in 1..Len(c) : p[i] = c[i]
      /\ \A i \in 1..Len(p) : ~(i <= Len(c)) => p[i].state # "done"
  <2>1. GoodParts(W!Bytes, old, c)
    BY ONLY <1>2
  <2>2. BodiesAdded(W!Bytes, old, c, buf)
    BY ONLY buf \in Seq(W!Bytes), <2>1, BodiesFollow
  <2>3. p = Flushed(c, buf)
    BY <1>5 DEF Flushed
  <2>4. QED BY ONLY <1>3, <2>2, <2>3, Zenon DEF BodiesAdded
<1>7. NoneDone(p)
  <2>1. ASSUME NEW i \in 1..Len(p) PROVE p[i].state # "done"
    <3>1. CASE i <= Len(c)
      <4>1. i \in 1..Len(c)
        BY <1>2, <3>1
      <4>2. QED BY <1>2, <1>6, <4>1 DEF NoneDone
    <3>2. CASE ~(i <= Len(c))
      BY <1>6, <3>2
    <3>3. QED BY <3>1, <3>2
  <2>2. QED BY <2>1 DEF NoneDone
<1>8. FlattensTo(Pieces(old, p), (IF append_block THEN old ELSE <<>>) \o buf)
  BY <1>2, <1>6, Zenon DEF FlattensTo
<1>9. ASSUME W!Below PROVE Len(p) >= 2 /\ Len(Pieces(old, p)[1]) < MinPart
  <2>1. append_block /\ Len(old) < MinPart /\ old \in Seq(W!Bytes)
    BY <1>9 DEF W!Below, FileData
  <2>2. Len(old) <= MaxPart
    BY <2>1, SizesAre, LenProperties
  <2>3. Pieces(old, c) = <<old>> /\ 1 \in 1..Len(c)
    BY <1>2, <2>1, <2>2
  <2>4. 1 \in 1..Len(p) /\ Len(p) >= 2
    BY <1>2, <1>4, <1>6, <1>9, <2>1
  <2>5. Pieces(old, p)[1] = Pieces(old, c)[1]
    <3>1. AllPieces(old, c)
      BY ONLY <1>2, EachPiece
    <3>2. AllPieces(old, p)
      BY ONLY <1>6, EachPiece
    <3>3. p[1] = c[1]
      BY <1>6, <2>3
    <3>4. QED BY <2>3, <2>4, <3>1, <3>2, <3>3 DEF AllPieces
  <2>6. Pieces(old, p)[1] = old
    BY <2>3, <2>5
  <2>7. QED BY <2>1, <2>4, <2>6
<1>10. ASSUME W!PartsAreLarge
       PROVE  /\ Large(old, b) => Large(old, p)
              /\ Len(b) <= 1 => LargeButLast(old, p)
  <2>1. Large(old, c)
    BY <1>2, <1>10
  <2>2. /\ Large(old, b) => Large(old, c \o b)
        /\ Len(b) <= 1 => LargeButLast(old, c \o b)
    BY ONLY <1>2, <1>4, <2>1, LargeConcat
  <2>3. QED BY ONLY <1>5, <2>2, Zenon
<1>11. QED BY ONLY <1>3, <1>6, <1>7, <1>8, <1>9, <1>10, Zenon

(* What should be in the object grows with what is written. *)
LEMMA ExpectedGrows ==
  ASSUME FileData, written \in Seq(W!Bytes), NEW data \in Seq(W!Bytes),
         UNCHANGED <<old, append_block>>, written' = written \o data
  PROVE  /\ W!Expected' = W!Expected \o data /\ W!Expected \in Seq(W!Bytes)
         /\ W!Below' = W!Below
         /\ ((IF W!Below THEN old ELSE <<>>) \o written) \o data
              = (IF W!Below THEN old ELSE <<>>) \o written'
<1>1. PICK front : front = IF append_block THEN old ELSE <<>>
  OBVIOUS
<1>2. front \in Seq(W!Bytes)
  BY <1>1, EmptySeq DEF FileData
<1>3. PICK kept : kept = IF W!Below THEN old ELSE <<>>
  OBVIOUS
<1>4. kept \in Seq(W!Bytes)
  BY <1>3, EmptySeq DEF FileData, W!Below
<1>5. Associate(front, written, data) /\ Associate(kept, written, data)
  BY <1>2, <1>4, Associates
<1>6. front \o written \in Seq(W!Bytes)
  BY <1>2, ConcatProperties
<1>7. W!Expected = front \o written /\ W!Expected' = front \o (written \o data)
  BY <1>1 DEF W!Expected
<1>8. W!Below' = W!Below
  BY DEF W!Below
<1>9. QED BY <1>3, <1>5, <1>6, <1>7, <1>8 DEF Associate

(* A flush of a file whose upload is there, by write() or close().           *)
LEMMA FlushStep ==
  ASSUME DataInv, multipart_upload, multipart_upload', pc = "open",
         buffer \in Seq(W!Bytes), written \in Seq(W!Bytes), NEW data \in Seq(W!Bytes),
         NEW buf, buf = buffer \o data, written' = written \o data,
         UNCHANGED <<old, append_block, stored>>,
         multipart_upload_parts' = multipart_upload_parts \o W!Bodies(buf),
         \/ pc' = "open" /\ buffer' = <<>>
         \/ pc' \in {"commit", "shutdown"}
  PROVE  /\ FileData' /\ StoredData' /\ JoinedData'
         /\ /\ SizedData /\ outcome' # "rejected"
            /\ \/ Large(old, W!Bodies(buf))
               \/ pc' # "open" /\ Len(W!Bodies(buf)) <= 1
            => SizedData'
<1>1. PICK p : p = multipart_upload_parts
  OBVIOUS
<1>2. PICK q : q = Flushed(p, buf)
  OBVIOUS
<1>3. multipart_upload_parts' = q
  BY <1>1, <1>2 DEF Flushed
<1>4. GoodParts(W!Bytes, old, p)
  BY <1>1 DEF DataInv, FileData
<1>5. buf \in Seq(W!Bytes)
  BY ConcatProperties
<1>6. /\ GoodParts(W!Bytes, old, q)
      /\ FlattensTo(Pieces(old, q), FlattenSeq(Pieces(old, p)) \o buf)
      /\ Len(q) = Len(p) + Len(W!Bodies(buf))
      /\ Len(p) \in Nat /\ Len(W!Bodies(buf)) \in Nat
      /\ \A i \in 1..Len(p) : q[i] = p[i]
      /\ \A i \in 1..Len(q) : ~(i <= Len(p)) => q[i].state # "done"
  <2>1. BodiesAdded(W!Bytes, old, p, buf)
    BY ONLY <1>4, <1>5, BodiesFollow
  <2>2. QED BY ONLY <1>2, <2>1, Zenon DEF BodiesAdded
<1>7. FileData'
  BY <1>3, <1>6 DEF DataInv, FileData
<1>8. StoredData'
  <2>1. ASSUME NEW i \in 1..Len(q), q[i].state = "done"
        PROVE  i \in DOMAIN stored /\ stored[i] = ContentOf(old, q[i])
    <3>1. i \in 1..Len(p) /\ q[i] = p[i]
      BY <1>6, <2>1
    <3>2. QED BY <1>1, <2>1, <3>1 DEF DataInv, StoredData
  <2>2. QED BY <1>3, <2>1 DEF StoredData, ContentOf
<1>9. /\ W!Expected' = W!Expected \o data /\ W!Expected \in Seq(W!Bytes)
      /\ W!Below' = W!Below
  BY ONLY DataInv, written \in Seq(W!Bytes), data \in Seq(W!Bytes), written' = written \o data,
          UNCHANGED <<old, append_block, stored>>, ExpectedGrows DEF DataInv
<1>10. Pieces(old, multipart_upload_parts)' = Pieces(old, q)
  BY <1>3 DEF Pieces, ContentOf
<1>11. Writing /\ (pc' = "open" => buffer' = <<>>)
  BY DEF Writing
<1>12. ASSUME W!Below PROVE JoinedData'
  <2>1. Len(p) >= 2 /\ Len(Pieces(old, p)[1]) < MinPart
    BY <1>1, <1>11, <1>12 DEF DataInv, JoinedData
  <2>2. 1 \in 1..Len(p) /\ 1 \in 1..Len(q) /\ Len(q) >= 2
    BY <1>6, <2>1
  <2>3. Pieces(old, q)[1] = Pieces(old, p)[1]
    <3>1. AllPieces(old, p)
      BY ONLY <1>4, EachPiece
    <3>2. AllPieces(old, q)
      BY ONLY <1>6, EachPiece
    <3>3. QED BY <1>6, <2>2, <3>1, <3>2 DEF AllPieces
  <2>4. QED BY <1>3, <1>9, <1>10, <1>12, <2>1, <2>2, <2>3 DEF JoinedData
<1>13. ASSUME ~W!Below PROVE JoinedData'
  <2>1. PICK x : x = FlattenSeq(Pieces(old, p))
    OBVIOUS
  <2>2. W!Expected = x \o buffer
    BY <1>1, <1>11, <1>13, <2>1 DEF DataInv, JoinedData
  <2>3. x \in Seq(W!Bytes)
    <3>1. Pieces(old, p) \in Seq(Seq(W!Bytes))
      BY ONLY <1>4, PiecesAre
    <3>2. QED BY <2>1, <3>1, FlattenType
  <2>4. Associate(x, buffer, data)
    BY ONLY <2>3, buffer \in Seq(W!Bytes), data \in Seq(W!Bytes), Associates
  <2>5. W!Expected' = x \o buf
    BY <1>9, <2>2, <2>4 DEF Associate
  <2>6. FlattenSeq(Pieces(old, q)) = x \o buf
    BY <1>6, <2>1 DEF FlattensTo
  <2>7. (x \o buf) \o <<>> = x \o buf
    <3>1. x \o buf \in Seq(W!Bytes)
      BY <1>5, <2>3, ConcatProperties
    <3>2. QED BY <3>1, ConcatEmptySeq
  <2>8. (IF pc' = "open" THEN buffer' ELSE <<>>) = <<>>
    BY <1>11
  <2>9. W!Expected' = FlattenSeq(Pieces(old, q)) \o (IF pc' = "open" THEN buffer' ELSE <<>>)
    BY ONLY <2>5, <2>6, <2>7, <2>8, Zenon
  <2>10. QED BY <1>9, <1>10, <1>13, <2>9 DEF JoinedData
<1>14. JoinedData'
  BY <1>12, <1>13
<1>15. ASSUME SizedData, outcome' # "rejected",
              \/ Large(old, W!Bodies(buf))
              \/ pc' # "open" /\ Len(W!Bodies(buf)) <= 1
       PROVE  SizedData'
  <2>1. PICK b : b = W!Bodies(buf)
    OBVIOUS
  <2>2. GoodParts(W!Bytes, old, b)
    <3>1. GoodParts(W!Bytes, old, W!Bodies(buf))
      BY ONLY <1>5, BodiesGood
    <3>2. QED BY ONLY <2>1, <3>1, Zenon
  <2>3. Large(old, p)
    BY <1>1, <1>11, <1>15 DEF SizedData, Large
  <2>4. /\ Large(old, b) => Large(old, p \o b)
        /\ Len(b) <= 1 => LargeButLast(old, p \o b)
    BY ONLY <1>4, <2>2, <2>3, LargeConcat
  <2>5. p \o b = q
    BY <1>2, <2>1 DEF Flushed
  <2>6. Large(old, q) \/ (pc' # "open" /\ LargeButLast(old, q))
    BY ONLY <1>15, <2>1, <2>4, <2>5, Zenon
  <2>7. QED BY <1>3, <1>10, <1>15, <2>6 DEF SizedData, Large, LargeButLast
<1>16. QED BY <1>7, <1>8, <1>14, <1>15

(* The first flush. *)
LEMMA InitiateStep ==
  ASSUME DataInv, ~multipart_upload, multipart_upload', pc = "open", object = old,
         buffer \in Seq(W!Bytes), written \in Seq(W!Bytes), NEW data \in Seq(W!Bytes),
         NEW buf, buf = buffer \o data, W!Below => buf # <<>>, written' = written \o data,
         NEW total \in Nat, W!InitiateUpload(buf, total),
         UNCHANGED <<old, append_block>>,
         \/ pc' = "open" /\ buffer' = <<>>
         \/ pc' \in {"commit", "shutdown"}
  PROVE  /\ FileData' /\ StoredData' /\ JoinedData'
         /\ UNCHANGED object
         /\ /\ W!PartsAreLarge /\ outcome' # "rejected"
            /\ \/ Large(old, W!Bodies(buf))
               \/ pc' # "open" /\ Len(W!Bodies(buf)) <= 1
            => SizedData'
<1>1. PICK q : q = multipart_upload_parts'
  OBVIOUS
<1>2. Starts(q, total, buf) /\ UNCHANGED <<object, stored>>
  BY <1>1 DEF W!InitiateUpload, W!S3!CreateUpload, Starts
<1>3. buf \in Seq(W!Bytes)
  BY ConcatProperties
<1>4. /\ GoodParts(W!Bytes, old, q) /\ NoneDone(q)
      /\ W!Below => Len(q) >= 2 /\ Len(Pieces(old, q)[1]) < MinPart
      /\ ~W!Below => FlattensTo(Pieces(old, q), (IF append_block THEN old ELSE <<>>) \o buf)
      /\ W!PartsAreLarge =>
           /\ Large(old, W!Bodies(buf)) => Large(old, q)
           /\ Len(W!Bodies(buf)) <= 1 => LargeButLast(old, q)
  <2>1. FileData
    BY DEF DataInv
  <2>2. QED BY ONLY object = old, total \in Nat, W!Below => buf # <<>>, <1>2, <1>3, <2>1, FirstParts
<1>5. FileData'
  BY <1>1, <1>4 DEF DataInv, FileData
<1>6. StoredData'
  BY <1>1, <1>4 DEF StoredData, NoneDone
<1>7. Pieces(old, multipart_upload_parts)' = Pieces(old, q)
  BY <1>1 DEF Pieces, ContentOf
<1>8. W!Below' = W!Below
  BY DEF W!Below
<1>9. ASSUME W!Below PROVE JoinedData'
  BY <1>1, <1>4, <1>7, <1>8, <1>9 DEF JoinedData
<1>10. ASSUME ~W!Below PROVE JoinedData'
  <2>1. buffer = <<>> \o written
    BY <1>10 DEF DataInv, W!BufferInv
  <2>2. buffer = written
    BY <2>1, ConcatEmptySeq
  <2>3. W!Expected' = (IF append_block THEN old ELSE <<>>) \o buf
    BY <2>2 DEF W!Expected
  <2>4. FlattenSeq(Pieces(old, q)) = W!Expected'
    BY <1>4, <1>10, <2>3 DEF FlattensTo
  <2>5. W!Expected' \o <<>> = W!Expected'
    <3>1. FlattenSeq(Pieces(old, q)) \in Seq(W!Bytes)
      <4>1. Pieces(old, q) \in Seq(Seq(W!Bytes))
        BY ONLY <1>4, PiecesAre
      <4>2. QED BY <4>1, FlattenType
    <3>2. QED BY <2>4, <3>1, ConcatEmptySeq
  <2>6. (IF pc' = "open" THEN buffer' ELSE <<>>) = <<>>
    OBVIOUS
  <2>7. W!Expected' = FlattenSeq(Pieces(old, q)) \o (IF pc' = "open" THEN buffer' ELSE <<>>)
    BY ONLY <2>4, <2>5, <2>6, Zenon
  <2>8. QED BY <1>7, <1>8, <1>10, <2>7 DEF JoinedData
<1>11. ASSUME W!PartsAreLarge, outcome' # "rejected",
              \/ Large(old, W!Bodies(buf))
              \/ pc' # "open" /\ Len(W!Bodies(buf)) <= 1
       PROVE  SizedData'
  <2>1. Large(old, q) \/ (pc' # "open" /\ LargeButLast(old, q))
    BY ONLY <1>4, <1>11, Zenon
  <2>2. QED BY <1>1, <1>7, <1>11, <2>1 DEF SizedData, Large, LargeButLast
<1>12. QED BY <1>2, <1>5, <1>6, <1>9, <1>10, <1>11

(* open() reads a small object into the buffer. *)
LEMMA FileOpenStep ==
  ASSUME DataInv, W!UploadInv, NEW mode \in Modes, W!Open(mode)
  PROVE  DataInv' /\ (SizedData => SizedData')
<1>1. /\ pc = "new" /\ pc' = "open"
      /\ UNCHANGED <<object, upload, stored, multipart_upload, multipart_upload_parts, old,
                     written, outcome>>
      /\ \/ /\ mode = "ab" /\ object # NULL /\ append_block' = TRUE /\ loc' = Len(object)
            /\ buffer' = IF Len(object) < MinPart THEN object ELSE <<>>
         \/ UNCHANGED <<append_block, buffer, loc>>
  BY DEF W!Open, W!storageVars, W!uploadVars, W!historyVars
<1>2. /\ ~multipart_upload /\ ~initiated /\ initiated' = initiated
  BY <1>1 DEF W!UploadInv, W!Open
<1>3. /\ ~append_block /\ written = <<>> /\ upload = "none" /\ object = old
      /\ loc = Len(written)
      /\ buffer = (IF W!Below THEN old ELSE <<>>) \o written
  BY <1>1, <1>2 DEF DataInv, W!BufferInv, W!ObjectInv
<1>4. Len(<<>>) = 0 /\ <<>> \o <<>> = <<>>
  OBVIOUS
<1>5. buffer = <<>> /\ loc = 0
  BY <1>3, <1>4 DEF W!Below
<1>6. ~Writing'
  BY <1>1, <1>2 DEF Writing
<1>7. outcome # "committed"
  BY <1>1 DEF DataInv, W!ObjectInv
<1>8. W!ObjectInv'
  BY <1>1, <1>3, <1>7 DEF W!ObjectInv
<1>9. StoredData' /\ JoinedData'
  BY <1>1, <1>6 DEF DataInv, StoredData, ContentOf, JoinedData
<1>10. SizedData => SizedData'
  BY <1>1, <1>6 DEF SizedData
<1>11. CASE UNCHANGED <<append_block, buffer, loc>>
  <2>1. FileData'
    BY <1>1, <1>11 DEF DataInv, FileData
  <2>2. Len(buffer') < BlockSize
    BY <1>4, <1>5, <1>11, SizesAre
  <2>3. ~W!Below'
    BY <1>3, <1>11 DEF W!Below
  <2>4. W!BufferInv'
    BY <1>1, <1>2, <1>3, <1>4, <1>5, <1>11, <2>2, <2>3 DEF DataInv, W!BufferInv
  <2>5. QED BY <1>8, <1>9, <1>10, <2>1, <2>4 DEF DataInv
<1>12. CASE /\ mode = "ab" /\ object # NULL /\ append_block' = TRUE /\ loc' = Len(object)
            /\ buffer' = IF Len(object) < MinPart THEN object ELSE <<>>
  <2>1. FileData'
    BY <1>1, <1>3, <1>12 DEF DataInv, FileData
  <2>2. old \in Seq(W!Bytes) /\ Len(old) \in Nat /\ old \o <<>> = old
    <3>1. old \in Seq(W!Bytes)
      BY <1>3, <1>12 DEF DataInv, FileData
    <3>2. QED BY <3>1, LenProperties, ConcatEmptySeq
  <2>3. Len(buffer') < BlockSize
    <3>1. CASE Len(old) < MinPart
      BY <1>3, <1>12, <2>2, <3>1, SizesAre
    <3>2. CASE ~(Len(old) < MinPart)
      BY <1>3, <1>4, <1>12, <3>2, SizesAre
    <3>3. QED BY <3>1, <3>2
  <2>4. W!Below' <=> Len(old) < MinPart
    BY <1>1, <1>12 DEF W!Below
  <2>5. buffer' = (IF W!Below' THEN old ELSE <<>>) \o written'
    BY <1>1, <1>3, <1>4, <1>12, <2>2, <2>4
  <2>6. loc' = Len(written') + Len(old)
    BY <1>1, <1>3, <1>4, <1>12, <2>2
  <2>7. W!BufferInv'
    BY <1>1, <1>2, <1>3, <1>12, <2>3, <2>5, <2>6 DEF DataInv, W!BufferInv
  <2>8. QED BY <1>8, <1>9, <1>10, <2>1, <2>7 DEF DataInv
<1>13. QED BY <1>1, <1>11, <1>12

(* The upload is not created, or the file does not know of it. *)
LEMMA InitiateFailsStep ==
  ASSUME DataInv, object = old, pc \notin {"new", "done", "abort"}, W!InitiateFails,
         UNCHANGED <<old, append_block>>,
         loc' = Len(written') + IF append_block' THEN Len(old') ELSE 0
  PROVE  DataInv' /\ (SizedData => SizedData')
<1>1. /\ pc' = "done" /\ outcome' = "failed"
      /\ UNCHANGED <<object, stored, multipart_upload, multipart_upload_parts>>
  BY DEF W!InitiateFails, W!S3!CreateUpload, W!End, W!storageVars, W!uploadVars
<1>2. FileData' /\ StoredData'
  BY <1>1 DEF DataInv, FileData, StoredData, ContentOf
<1>3. ~Writing'
  BY <1>1 DEF Writing
<1>4. W!ObjectInv'
  BY <1>1 DEF W!ObjectInv
<1>5. W!BufferInv'
  BY <1>1 DEF W!BufferInv
<1>6. JoinedData' /\ (SizedData => SizedData')
  BY <1>1, <1>3 DEF JoinedData, SizedData
<1>7. QED BY <1>2, <1>4, <1>5, <1>6 DEF DataInv

(* write() adds bytes to the buffer, and flushes it when it is full. *)
LEMMA FileWriteStep ==
  ASSUME DataInv, W!UploadInv, NEW n \in WriteSizes, W!Write(n)
  PROVE  DataInv' /\ (SizedData /\ W!PartsAreLarge => SizedData')
<1>1. PICK data : data = [i \in 1..n |-> W!MaxOld + Len(written) + i]
  OBVIOUS
<1>2. PICK buf : buf = buffer \o data
  OBVIOUS
<1>3. /\ pc = "open" /\ Len(written) + n <= MaxWritten
      /\ loc' = loc + n /\ written' = written \o data
      /\ UNCHANGED <<append_block, old>>
  BY <1>1 DEF W!Write
<1>4. /\ buf \in Seq(W!Bytes) /\ written' \in Seq(W!Bytes) /\ loc' \in Nat
      /\ data \in Seq(W!Bytes) /\ Len(data) = n /\ Len(buf) \in Nat
      /\ Len(buf) = Len(buffer) + n
  BY <1>1, <1>2, <1>3, BytesAreAdded
<1>5. /\ buffer \in Seq(W!Bytes) /\ written \in Seq(W!Bytes) /\ n \in Nat
      /\ Len(buffer) \in Nat /\ Len(written) \in Nat
  BY SizesAre, LenProperties DEF W!UploadInv
<1>6. /\ W!Expected' = W!Expected \o data /\ W!Expected \in Seq(W!Bytes)
      /\ W!Below' = W!Below
      /\ ((IF W!Below THEN old ELSE <<>>) \o written) \o data
            = (IF W!Below THEN old ELSE <<>>) \o written'
  BY <1>3, <1>4, <1>5, ExpectedGrows DEF DataInv
<1>7. loc' = Len(written') + IF append_block' THEN Len(old') ELSE 0
  <2>1. loc = Len(written) + IF append_block THEN Len(old) ELSE 0
    BY DEF DataInv, W!BufferInv
  <2>2. append_block => Len(old) \in Nat
    BY LenProperties DEF DataInv, FileData
  <2>3. Len(written') = Len(written) + n
    <3>1. Len(written \o data) = Len(written) + Len(data)
      BY <1>4, <1>5, ConcatProperties
    <3>2. QED BY <1>3, <1>4, <3>1
  <2>4. CASE append_block
    <3>1. loc = Len(written) + Len(old) /\ Len(old) \in Nat /\ Len(old') = Len(old)
          /\ append_block'
      BY <1>3, <2>1, <2>2, <2>4
    <3>2. loc' = Len(written') + Len(old')
      BY <1>3, <1>5, <2>3, <3>1
    <3>3. QED BY <3>1, <3>2
  <2>5. CASE ~append_block
    <3>1. loc = Len(written) + 0 /\ ~append_block'
      BY <1>3, <2>1, <2>5
    <3>2. loc' = Len(written') + 0
      BY <1>3, <1>5, <2>3, <3>1
    <3>3. QED BY <3>1, <3>2
  <2>6. QED BY <2>4, <2>5
<1>8. /\ object = old /\ Len(buffer) < BlockSize /\ (initiated => multipart_upload)
      /\ (multipart_upload => initiated) /\ outcome # "committed"
      /\ ~multipart_upload => upload = "none" /\ multipart_upload_parts = <<>>
                              /\ buffer = (IF W!Below THEN old ELSE <<>>) \o written
  BY <1>3 DEF DataInv, W!ObjectInv, W!BufferInv, W!UploadInv
<1>9. ASSUME W!PartsAreLarge, Len(buf) >= BlockSize PROVE Large(old, W!Bodies(buf))
  <2>1. n <= BlockSize /\ 2 * MinPart <= MaxPart
    BY <1>9, SizesAre DEF W!PartsAreLarge
  <2>2. Len(buf) < 2 * BlockSize
    BY <1>4, <1>5, <1>8, <2>1, SizesAre
  <2>3. /\ Len(buf) >= BlockSize /\ 2 * MinPart <= MaxPart => Large(old, W!Bodies(buf))
        /\ Len(buf) <= BlockSize => Len(W!Bodies(buf)) <= 1
    BY ONLY <1>4, <2>2, BodiesLarge
  <2>4. QED BY <1>9, <2>1, <2>3
<1>10. CASE /\ Len(buf) < BlockSize /\ buffer' = buf
            /\ UNCHANGED <<W!storageVars, pc, initiated, W!uploadVars, outcome, lost>>
  <2>1. UNCHANGED <<object, upload, stored, pc, initiated, multipart_upload,
                    multipart_upload_parts, outcome>>
    BY <1>10 DEF W!storageVars, W!uploadVars
  <2>2. FileData' /\ StoredData'
    BY <1>3, <2>1 DEF DataInv, FileData, StoredData, ContentOf
  <2>3. W!ObjectInv'
    BY <1>3, <1>8, <2>1 DEF W!ObjectInv
  <2>4. ~multipart_upload => buf = (IF W!Below THEN old ELSE <<>>) \o written'
    <3>1. PICK kept : kept = IF W!Below THEN old ELSE <<>>
      OBVIOUS
    <3>2. (kept \o written) \o data = kept \o written'
      BY ONLY <1>6, <3>1, Zenon
    <3>3. ~multipart_upload => buffer = kept \o written
      BY ONLY <1>8, <3>1, Zenon
    <3>4. ~multipart_upload => buf = kept \o written'
      BY ONLY <1>2, <3>2, <3>3
    <3>5. QED BY ONLY <3>1, <3>4, Zenon
  <2>5. W!BufferInv'
    <3>1. /\ pc' = "open" /\ Len(buffer') < BlockSize /\ (initiated' => multipart_upload')
          /\ ~multipart_upload' => upload' = "none" /\ multipart_upload_parts' = <<>>
      BY <1>3, <1>8, <1>10, <2>1
    <3>2. /\ W!Below' = W!Below /\ old' = old /\ buffer' = buf
          /\ multipart_upload' = multipart_upload
      BY ONLY <1>3, <1>6, <1>10, <2>1
    <3>3. ~multipart_upload' => buffer' = (IF W!Below' THEN old' ELSE <<>>) \o written'
      BY ONLY <2>4, <3>2, Zenon
    <3>4. QED BY ONLY <1>7, <3>1, <3>3 DEF W!BufferInv
  <2>6. Pieces(old, multipart_upload_parts)' = Pieces(old, multipart_upload_parts)
    BY <1>3, <2>1 DEF Pieces, ContentOf
  <2>7. SizedData => SizedData'
    BY <2>1, <2>6 DEF SizedData, Writing
  <2>8. ASSUME Writing, ~W!Below
        PROVE  W!Expected' = FlattenSeq(Pieces(old, multipart_upload_parts)) \o buf
    <3>1. PICK x : x = FlattenSeq(Pieces(old, multipart_upload_parts))
      OBVIOUS
    <3>2. W!Expected = x \o buffer
      BY <1>3, <2>8, <3>1 DEF DataInv, JoinedData
    <3>3. x \in Seq(W!Bytes)
      <4>1. GoodParts(W!Bytes, old, multipart_upload_parts)
        BY DEF DataInv, FileData
      <4>2. Pieces(old, multipart_upload_parts) \in Seq(Seq(W!Bytes))
        BY ONLY <4>1, PiecesAre
      <4>3. QED BY <3>1, <4>2, FlattenType
    <3>4. Associate(x, buffer, data)
      BY ONLY <1>4, <1>5, <3>3, Associates
    <3>5. QED BY <1>2, <1>6, <3>1, <3>2, <3>4 DEF Associate
  <2>9. JoinedData'
    <3>1. Writing' <=> Writing
      BY <2>1 DEF Writing
    <3>2. CASE W!Below
      BY <1>6, <2>1, <2>6, <3>1, <3>2 DEF DataInv, JoinedData
    <3>3. CASE ~W!Below
      BY <1>3, <1>6, <1>10, <2>1, <2>6, <2>8, <3>1, <3>3 DEF JoinedData
    <3>4. QED BY <3>2, <3>3
  <2>10. QED BY <2>2, <2>3, <2>5, <2>7, <2>9 DEF DataInv
<1>11. CASE /\ Len(buf) >= BlockSize /\ initiated /\ buffer' = <<>>
            /\ multipart_upload_parts' = multipart_upload_parts \o W!Bodies(buf)
            /\ UNCHANGED <<W!storageVars, pc, initiated, multipart_upload, outcome, lost>>
  <2>1. /\ UNCHANGED <<object, upload, stored, pc, initiated, multipart_upload, outcome>>
        /\ multipart_upload /\ multipart_upload'
    BY <1>8, <1>11 DEF W!storageVars
  <2>2. /\ FileData' /\ StoredData' /\ JoinedData'
        /\ /\ SizedData /\ outcome' # "rejected"
           /\ \/ Large(old, W!Bodies(buf))
              \/ pc' # "open" /\ Len(W!Bodies(buf)) <= 1
           => SizedData'
    BY ONLY DataInv, <1>2, <1>3, <1>4, <1>5, <1>11, <2>1, FlushStep
  <2>3. W!ObjectInv'
    BY <1>3, <1>8, <2>1 DEF W!ObjectInv
  <2>4. Len(buffer') < BlockSize
    <3>1. Len(<<>>) = 0
      OBVIOUS
    <3>2. QED BY <1>11, <3>1, SizesAre
  <2>5. W!BufferInv'
    BY <1>3, <1>7, <2>1, <2>4 DEF W!BufferInv
  <2>6. SizedData /\ W!PartsAreLarge => SizedData'
    BY <1>9, <1>11, <2>1, <2>2 DEF SizedData
  <2>7. QED BY <2>2, <2>3, <2>5, <2>6 DEF DataInv
<1>12. CASE /\ Len(buf) >= BlockSize /\ ~initiated /\ initiated'
            /\ W!InitiateUpload(buf, loc') /\ buffer' = <<>> /\ UNCHANGED <<pc, outcome, lost>>
  <2>1. ~multipart_upload /\ multipart_upload' /\ buf # <<>> /\ pc' = "open"
    <3>1. Len(<<>>) = 0
      OBVIOUS
    <3>2. QED BY <1>3, <1>8, <1>12, <3>1, SizesAre DEF W!InitiateUpload
  <2>2. /\ FileData' /\ StoredData' /\ JoinedData' /\ UNCHANGED object
        /\ /\ W!PartsAreLarge /\ outcome' # "rejected"
           /\ \/ Large(old, W!Bodies(buf))
              \/ pc' # "open" /\ Len(W!Bodies(buf)) <= 1
           => SizedData'
    BY ONLY DataInv, <1>2, <1>3, <1>4, <1>5, <1>8, <1>12, <2>1, InitiateStep
  <2>3. W!ObjectInv'
    BY <1>3, <1>8, <1>12, <2>1, <2>2 DEF W!ObjectInv
  <2>4. Len(buffer') < BlockSize
    <3>1. Len(<<>>) = 0
      OBVIOUS
    <3>2. QED BY <1>12, <3>1, SizesAre
  <2>5. W!BufferInv'
    BY <1>7, <2>1, <2>4 DEF W!BufferInv
  <2>6. SizedData /\ W!PartsAreLarge => SizedData'
    BY <1>9, <1>12, <2>2 DEF SizedData
  <2>7. QED BY <2>2, <2>3, <2>5, <2>6 DEF DataInv
<1>13. CASE W!InitiateFails
  <2>1. DataInv' /\ (SizedData => SizedData')
    <3>1. pc \notin {"new", "done", "abort"}
      BY <1>3
    <3>2. QED BY ONLY DataInv, <1>3, <1>7, <1>8, <1>13, <3>1, InitiateFailsStep
  <2>2. QED BY <2>1
<1>14. QED BY <1>1, <1>2, <1>10, <1>11, <1>12, <1>13 DEF W!Write

(* close() flushes the rest. *)
LEMMA FileCloseStep ==
  ASSUME DataInv, W!UploadInv, W!AppendsAreKept, W!Close
  PROVE  DataInv' /\ (SizedData /\ W!PartsAreLarge => SizedData')
<1>1. /\ pc = "open" /\ buffer' = buffer
      /\ UNCHANGED <<append_block, loc, old, written>>
  BY DEF W!Close, W!AfterFinalFlush
<1>2. /\ object = old /\ Len(buffer) < BlockSize /\ (initiated => multipart_upload)
      /\ (multipart_upload => initiated) /\ outcome # "committed"
      /\ (initiated => BlockSize <= loc)
      /\ ~multipart_upload => upload = "none" /\ multipart_upload_parts = <<>>
                              /\ buffer = (IF W!Below THEN old ELSE <<>>) \o written
  BY <1>1 DEF DataInv, W!ObjectInv, W!BufferInv, W!UploadInv
<1>3. /\ buffer \in Seq(W!Bytes) /\ written \in Seq(W!Bytes) /\ loc \in Nat
      /\ Len(buffer) \in Nat /\ Len(written) \in Nat
  BY LenProperties DEF W!UploadInv
<1>4. loc = Len(written) + IF append_block THEN Len(old) ELSE 0
  BY DEF DataInv, W!BufferInv
<1>5. append_block => /\ old \in Seq(W!Bytes) /\ Len(old) \in Nat
                      /\ Len(old) \in OldSizes \ {NULL} /\ "ab" \in Modes
  BY LenProperties, SizesAre DEF DataInv, FileData
<1>6. W!Expected' = W!Expected /\ W!Below' = W!Below
  BY <1>1 DEF W!Expected, W!Below
<1>7. PICK data : data = <<>>
  OBVIOUS
<1>8. data \in Seq(W!Bytes) /\ buffer = buffer \o data /\ written' = written \o data
  BY <1>1, <1>3, <1>7, EmptySeq, ConcatEmptySeq
<1>9. Len(W!Bodies(buffer)) <= 1
  <2>1. Len(buffer) < 2 * BlockSize /\ Len(buffer) <= BlockSize
    BY <1>2, <1>3, SizesAre
  <2>2. Len(buffer) <= BlockSize => Len(W!Bodies(buffer)) <= 1
    BY ONLY <1>3, <2>1, BodiesLarge
  <2>3. QED BY <2>1, <2>2
<1>10. CASE /\ loc < BlockSize /\ UNCHANGED <<W!uploadVars, lost>>
            /\ IF autocommit THEN W!CommitSmall
               ELSE pc' = "shutdown" /\ UNCHANGED <<W!storageVars, outcome>>
  <2>1. ~initiated /\ ~multipart_upload
    BY <1>2, <1>3, <1>10, SizesAre
  <2>2. UNCHANGED <<multipart_upload, multipart_upload_parts>>
    BY <1>10 DEF W!uploadVars
  <2>3. append_block => Len(old) < MinPart
    <3>1. SUFFICES ASSUME append_block PROVE Len(old) < MinPart
      OBVIOUS
    <3>2. Len(old) \notin MinPart..(BlockSize - 1)
      BY <1>5, <3>1 DEF W!AppendsAreKept
    <3>3. Len(old) < BlockSize
      BY <1>3, <1>4, <1>5, <1>10, <3>1, SizesAre
    <3>4. QED BY <1>5, <3>1, <3>2, <3>3, SizesAre
  <2>4. W!Below <=> append_block
    BY <2>3 DEF W!Below
  <2>5. buffer = W!Expected
    BY <1>2, <2>1, <2>4 DEF W!Expected
  <2>6. upload = "none"
    BY <1>2, <2>1
  <2>7. CASE autocommit
    <3>1. /\ W!ObjectInv' /\ pc' = "done" /\ outcome' \in {"committed", "failed"}
          /\ stored' = stored
      <4>1. W!CommitSmall
        BY <1>10, <2>7
      <4>2. QED BY ONLY <1>1, <1>2, <2>5, <2>6, <4>1, SmallIsCommitted
    <3>2. FileData' /\ StoredData'
      BY <1>1, <2>2, <3>1 DEF DataInv, FileData, StoredData, ContentOf
    <3>3. W!BufferInv'
      BY <1>1, <1>4, <3>1 DEF W!BufferInv
    <3>4. JoinedData' /\ (SizedData => SizedData')
      BY <3>1 DEF JoinedData, SizedData, Writing
    <3>5. QED BY <3>1, <3>2, <3>3, <3>4 DEF DataInv
  <2>8. CASE ~autocommit
    <3>1. pc' = "shutdown" /\ UNCHANGED <<object, upload, stored, outcome>>
      BY <1>10, <2>8 DEF W!storageVars
    <3>2. FileData' /\ StoredData'
      BY <1>1, <2>2, <3>1 DEF DataInv, FileData, StoredData, ContentOf
    <3>3. W!ObjectInv'
      BY <1>1, <1>2, <3>1 DEF W!ObjectInv
    <3>4. W!BufferInv'
      BY <1>1, <1>2, <1>4, <1>6, <2>1, <2>2, <2>5, <3>1 DEF W!BufferInv
    <3>5. JoinedData' /\ (SizedData => SizedData')
      BY <2>1, <2>2, <3>1 DEF JoinedData, SizedData, Writing
    <3>6. QED BY <3>2, <3>3, <3>4, <3>5 DEF DataInv
  <2>9. QED BY <2>7, <2>8
<1>11. CASE /\ loc >= BlockSize /\ initiated
            /\ multipart_upload_parts' = multipart_upload_parts \o W!Bodies(buffer)
            /\ W!FinishFlush
            /\ UNCHANGED <<W!storageVars, multipart_upload, outcome, lost>>
  <2>1. /\ UNCHANGED <<object, upload, stored, multipart_upload, outcome>>
        /\ multipart_upload /\ multipart_upload' /\ pc' \in {"commit", "shutdown"}
    BY <1>2, <1>11 DEF W!storageVars, W!FinishFlush
  <2>2. /\ FileData' /\ StoredData' /\ JoinedData'
        /\ /\ SizedData /\ outcome' # "rejected"
           /\ \/ Large(old, W!Bodies(buffer))
              \/ pc' # "open" /\ Len(W!Bodies(buffer)) <= 1
           => SizedData'
    BY ONLY DataInv, <1>1, <1>3, <1>8, <1>11, <2>1, FlushStep
  <2>3. W!ObjectInv'
    BY <1>1, <1>2, <2>1 DEF W!ObjectInv
  <2>4. W!BufferInv'
    BY <1>1, <1>4, <2>1 DEF W!BufferInv
  <2>5. SizedData => SizedData'
    BY <1>9, <2>1, <2>2 DEF SizedData
  <2>6. QED BY <2>2, <2>3, <2>4, <2>5 DEF DataInv
<1>12. ~initiated /\ loc >= BlockSize => ~W!Below
  <2>1. SUFFICES ASSUME ~initiated, loc >= BlockSize PROVE ~W!Below
    OBVIOUS
  <2>2. SUFFICES ASSUME W!Below PROVE FALSE
    OBVIOUS
  <2>3. append_block /\ old \in Seq(W!Bytes) /\ Len(old) \in Nat
    BY <1>5, <2>2 DEF W!Below
  <2>4. Len(old \o written) = Len(old) + Len(written)
    BY ONLY <1>3, <2>3, ConcatProperties
  <2>5. buffer = old \o written
    BY <1>2, <2>1, <2>2
  <2>6. Len(buffer) = loc
    BY <1>3, <1>4, <2>3, <2>4, <2>5
  <2>7. QED BY <1>2, <1>3, <2>1, <2>6, SizesAre
<1>13. CASE /\ loc >= BlockSize /\ ~initiated /\ W!InitiateUpload(buffer, loc)
            /\ W!FinishFlush /\ UNCHANGED <<outcome, lost>>
  <2>1. /\ ~multipart_upload /\ multipart_upload' /\ pc' \in {"commit", "shutdown"}
        /\ ~W!Below
    <3>1. ~W!Below
      BY <1>12, <1>13
    <3>2. QED BY <1>2, <1>13, <3>1 DEF W!InitiateUpload, W!FinishFlush
  <2>2. /\ FileData' /\ StoredData' /\ JoinedData' /\ UNCHANGED object
        /\ /\ W!PartsAreLarge /\ outcome' # "rejected"
           /\ \/ Large(old, W!Bodies(buffer))
              \/ pc' # "open" /\ Len(W!Bodies(buffer)) <= 1
           => SizedData'
    BY ONLY DataInv, <1>1, <1>2, <1>3, <1>8, <1>13, <2>1, InitiateStep
  <2>3. W!ObjectInv'
    BY <1>1, <1>2, <1>13, <2>1, <2>2 DEF W!ObjectInv
  <2>4. W!BufferInv'
    BY <1>1, <1>4, <2>1 DEF W!BufferInv
  <2>5. SizedData /\ W!PartsAreLarge => SizedData'
    BY <1>9, <1>13, <2>1, <2>2 DEF SizedData
  <2>6. QED BY <2>2, <2>3, <2>4, <2>5 DEF DataInv
<1>14. CASE W!InitiateFails
  <2>1. loc' = Len(written') + IF append_block' THEN Len(old') ELSE 0
    BY <1>1, <1>4
  <2>2. DataInv' /\ (SizedData => SizedData')
    <3>1. pc \notin {"new", "done", "abort"}
      BY <1>1
    <3>2. QED BY ONLY DataInv, <1>1, <1>2, <1>14, <2>1, <3>1, InitiateFailsStep
  <2>3. QED BY <2>2
<1>15. QED BY <1>10, <1>11, <1>13, <1>14 DEF W!Close

(* Every step of the writer keeps what its parts and buffer hold. *)
LEMMA FileStays ==
  ASSUME DataInv, W!UploadInv, W!AppendsAreKept, W!Next
  PROVE  DataInv' /\ (SizedData /\ W!PartsAreLarge => SizedData')
<1> DEFINE Kept == DataInv' /\ (SizedData /\ W!PartsAreLarge => SizedData')
<1>1. ASSUME NEW mode \in Modes, W!Open(mode) PROVE Kept
  BY <1>1, FileOpenStep
<1>2. ASSUME NEW n \in WriteSizes, W!Write(n) PROVE Kept
  BY <1>2, FileWriteStep
<1>3. CASE W!Close
  BY <1>3, FileCloseStep
<1>4. CASE W!Commit
  BY <1>4, FileCommitStep
<1>5. CASE W!Discard
  BY <1>5, FileDiscardStep
<1>6. CASE W!Complete
  BY <1>6, FileCompleteStep
<1>7. CASE W!Abort
  BY <1>7, FileAbortStep
<1>8. CASE W!ShutdownReturns \/ W!Interrupt \/ \E i \in W!Parts : W!PartResultFails(i)
  BY <1>8, FileWaitsStep
<1>9. ASSUME NEW i \in W!Parts, W!PoolStep(i) PROVE Kept
  BY <1>9, FilePoolStep
<1>10. QED
  BY <1>1, <1>2, <1>3, <1>4, <1>5, <1>6, <1>7, <1>8, <1>9 DEF W!Next, W!UserStep

(* A step of nobody. *)
LEMMA FileStutters ==
  ASSUME DataInv, UNCHANGED <<object, upload, stored, pc, append_block, buffer, loc, initiated,
                              multipart_upload, multipart_upload_parts, old, written, outcome>>
  PROVE  DataInv' /\ (SizedData => SizedData')
<1>1. FileData' /\ StoredData'
  BY DEF DataInv, FileData, StoredData, ContentOf
<1>2. W!Expected' = W!Expected /\ W!Below' = W!Below
  BY DEF W!Expected, W!Below
<1>3. W!ObjectInv' /\ W!BufferInv'
  BY <1>2 DEF DataInv, W!ObjectInv, W!BufferInv
<1>4. /\ Pieces(old, multipart_upload_parts)' = Pieces(old, multipart_upload_parts)
      /\ Writing' <=> Writing
  BY DEF Pieces, ContentOf, Writing
<1>5. JoinedData' /\ (SizedData => SizedData')
  BY <1>2, <1>4 DEF DataInv, JoinedData, SizedData
<1>6. QED BY <1>1, <1>3, <1>5 DEF DataInv

(* A new file has no part. *)
LEMMA FileInitially ==
  ASSUME W!Init
  PROVE  DataInv /\ SizedData
<1>1. /\ old = object /\ upload = "none" /\ pc = "new" /\ ~append_block /\ buffer = <<>>
      /\ loc = 0 /\ ~multipart_upload /\ multipart_upload_parts = <<>> /\ written = <<>>
      /\ outcome = "none"
  BY DEF W!Init
<1>2. Len(<<>>) = 0 /\ <<>> \o <<>> = <<>> /\ \A S : <<>> \in Seq(S)
  BY EmptySeq
<1>3. old = NULL \/ (old \in Seq(W!Bytes) /\ Len(old) \in OldSizes)
  <2>1. PICK n \in OldSizes : object = IF n = NULL THEN NULL ELSE [i \in 1..n |-> i]
    BY DEF W!Init
  <2>2. CASE n = NULL
    BY <1>1, <2>1, <2>2
  <2>3. CASE n # NULL
    <3>1. n \in Nat /\ object = [i \in 1..n |-> i]
      BY <2>1, <2>3, MaxOldIs
    <3>2. Len(object) = n
      <4>1. PICK f : f = [i \in 1..n |-> i]
        OBVIOUS
      <4>2. f \in [1..n -> 1..n] /\ DOMAIN f = 1..n
        BY <4>1
      <4>3. f \in Seq(1..n)
        BY ONLY <3>1, <4>2, SeqDef
      <4>4. Len(f) \in Nat /\ DOMAIN f = 1..Len(f)
        BY ONLY <4>3, LenProperties
      <4>5. Len(f) = n
        BY ONLY <3>1, <4>2, <4>3, LenProperties
      <4>6. QED BY <3>1, <4>1, <4>5
    <3>3. object \in Seq(W!Bytes) \/ object = NULL
      <4>1. W!UploadInv
        BY WriterInitially
      <4>2. QED BY <1>1, <4>1 DEF W!UploadInv
    <3>4. QED BY <1>1, <2>3, <3>2, <3>3
  <2>4. QED BY <2>2, <2>3
<1>4. FileData
  BY <1>1, <1>2, <1>3 DEF FileData, GoodParts
<1>5. StoredData /\ ~Writing
  BY <1>1, <1>2 DEF StoredData, Writing
<1>6. W!ObjectInv
  BY <1>1 DEF W!ObjectInv
<1>7. W!BufferInv
  BY <1>1, <1>2 DEF W!BufferInv, W!Below
<1>8. JoinedData /\ SizedData
  BY <1>1, <1>5 DEF JoinedData, SizedData
<1>9. QED BY <1>4, <1>5, <1>6, <1>7, <1>8 DEF DataInv

(* What is at least a block is at least a part. *)
LEMMA LargeIsKept ==
  ASSUME W!PartsAreLarge
  PROVE  W!AppendsAreKept
<1> SUFFICES ASSUME "ab" \in Modes, NEW n \in OldSizes \ {NULL}
             PROVE  n \notin MinPart..(BlockSize - 1)
  BY DEF W!AppendsAreKept
<1>1. n >= BlockSize /\ n \in Nat
  BY MaxOldIs DEF W!PartsAreLarge
<1>2. QED BY <1>1, SizesAre

FileHolds == op = "write" => DataInv
FileIsLarge == op = "write" => SizedData

(* What a client's file holds, at first and after every step. *)
LEMMA ClientFileInitially == ClientInit => FileHolds /\ FileIsLarge
<1>1. ASSUME W!Init PROVE FileHolds /\ FileIsLarge
  BY <1>1, FileInitially DEF FileHolds, FileIsLarge
<1>2. ASSUME Init, NoFile PROVE FileHolds /\ FileIsLarge
  <2>1. op # "write"
    BY <1>2, TransferAssumption DEF Init
  <2>2. QED BY <2>1 DEF FileHolds, FileIsLarge
<1>3. QED BY <1>1, <1>2 DEF ClientInit

(* A step of the client. *)
LEMMA ClientFileStays ==
  ASSUME W!AppendsAreKept, ClientInv, ClientInv', FileHolds, [ClientNext]_clientVars
  PROVE  FileHolds' /\ (FileIsLarge /\ W!PartsAreLarge => FileIsLarge')
<1>1. CASE WriterStep
  <2>1. op = "write" /\ op' = "write" /\ W!Next
    BY <1>1 DEF WriterStep, transferVars, callVars
  <2>2. DataInv /\ W!UploadInv
    BY <2>1 DEF FileHolds, ClientInv
  <2>3. DataInv' /\ (SizedData /\ W!PartsAreLarge => SizedData')
    BY <2>1, <2>2, FileStays
  <2>4. QED BY <2>1, <2>3 DEF FileHolds, FileIsLarge
<1>2. CASE TransferStep
  <2>1. op # "write" /\ Next
    BY <1>2 DEF TransferStep
  <2>2. TransferInv'
    BY <2>1, TransferStays DEF ClientInv
  <2>3. op' # "write"
    BY <2>2, TransferAssumption DEF TransferInv, TransferTypes
  <2>4. QED BY <2>3 DEF FileHolds, FileIsLarge
<1>3. CASE UNCHANGED clientVars
  <2>1. /\ UNCHANGED <<object, upload, stored, pc, append_block, buffer, loc, initiated,
                       multipart_upload, multipart_upload_parts, old, written, outcome>>
        /\ op' = op
    BY <1>3 DEF clientVars, vars, fileVars, storageVars, callVars
  <2>2. DataInv => DataInv' /\ (SizedData => SizedData')
    BY <2>1, FileStutters
  <2>3. QED BY <2>1, <2>2 DEF FileHolds, FileIsLarge
<1>4. QED BY <1>1, <1>2, <1>3 DEF ClientNext

(* The bytes of a file are in its buffer and its parts, in order, and what   *)
(* S3 stored of them is what the parts hold; the object is what it was or    *)
(* all of the file.                                                          *)
THEOREM FileInvariance ==
  ASSUME W!AppendsAreKept
  PROVE  ClientSpec => [](op = "write" => W!FileInv)
<1>1. ClientInit => FileHolds
  BY ClientFileInitially
<1>2. ClientInv /\ ClientInv' /\ FileHolds /\ [ClientNext]_clientVars => FileHolds'
  BY ClientFileStays
<1>3. FileHolds => (op = "write" => W!FileInv)
  BY FileInvIs DEF FileHolds, DataInv
<1>4. QED BY <1>1, <1>2, <1>3, Invariance, PTL DEF ClientSpec

(* The object changes in one step, from what it was to the complete file,    *)
(* whichever parts fail or arrive late; not before commit() in a             *)
(* transaction, and not at all after a rollback (close, commit, discard).    *)
THEOREM ObjectCorrect ==
  ASSUME W!AppendsAreKept
  PROVE  ClientSpec => []ObjectIsOldOrComplete
<1>1. (op = "write" => W!FileInv) => ObjectIsOldOrComplete
  BY DEF W!FileInv, W!ObjectInv, W!TypeOK, ObjectIsOldOrComplete, W!ObjectIsOldOrComplete
<1>2. QED BY <1>1, FileInvariance, PTL

(* A file that is committed is stored in full, no commit is refused for a    *)
(* part that is too small, and no part is too large (write, close, commit,   *)
(* _upload_chunk, _finish_multipart_upload).                                 *)
THEOREM WrittenCorrect ==
  ASSUME W!PartsAreLarge
  PROVE  ClientSpec => []WrittenIsStored
<1>1. ClientInit => FileHolds /\ FileIsLarge
  BY ClientFileInitially
<1>2. /\ ClientInv /\ ClientInv' /\ FileHolds /\ FileIsLarge /\ [ClientNext]_clientVars
      => FileHolds' /\ FileIsLarge'
  BY ClientFileStays, LargeIsKept
<1>3. FileHolds /\ FileIsLarge => WrittenIsStored
  <2>1. DataInv => W!FileInv
    BY FileInvIs DEF DataInv
  <2>2. DataInv => W!PartSizesAllowed
    BY <2>1 DEF W!FileInv, W!FileTypes
  <2>3. DataInv /\ SizedData => W!WrittenIsStored
    BY DEF DataInv, SizedData, W!ObjectInv, W!WrittenIsStored
  <2>4. QED BY <2>2, <2>3 DEF FileHolds, FileIsLarge, WrittenIsStored
<1>4. QED BY <1>1, <1>2, <1>3, Invariance, PTL DEF ClientSpec
================================================================================
