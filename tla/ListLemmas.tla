----------------------------- MODULE ListLemmas -----------------------------
(***************************************************************************)
(* Lemmas the proofs about other modules share: induction on numbers, in   *)
(* the form of the least-number principle (the induction theorems of the   *)
(* library take an operator), and what the list operators return.          *)
(***************************************************************************)
EXTENDS Integers, SequencesExt, TLAPS, SequenceTheorems, FiniteSetTheorems,
        WellFoundedInduction

-----------------------------------------------------------------------------
(* Induction.                                                              *)
Less == {p \in Nat \X Nat : p[1] < p[2]}

\* A set of numbers that is not empty has a least member.
LEMMA LeastNumber ==
    ASSUME NEW S \in SUBSET Nat, S # {}
    PROVE  \E n \in S : \A m \in S : n <= m
<1>1. IsWellFoundedOn(Less, Nat)
  <2>1. OpToRel(<, Nat) = Less  BY DEF OpToRel, Less
  <2>. QED  BY <2>1, NatLessThanWellFounded
<1>2. PICK n \in S : \A m \in S : ~(<<m, n>> \in Less)  BY <1>1, WFMin
<1>3. ASSUME NEW m \in S PROVE n <= m
  <2>1. m \in Nat /\ n \in Nat  OBVIOUS
  <2>2. m < n => <<m, n>> \in Less  BY <2>1 DEF Less
  <2>. QED  BY <1>2, <2>1, <2>2
<1>. QED  BY <1>3

\* What holds at the first place and passes from each to the next holds at all.
LEMMA Upwards ==
    ASSUME NEW k \in Nat, NEW n \in Nat, NEW S, k \in S,
           \A i \in k + 1 .. n : i - 1 \in S => i \in S
    PROVE  k .. n \subseteq S
<1>. DEFINE T == {i \in Nat : i \in k .. n /\ i \notin S}
<1>. SUFFICES ASSUME T # {} PROVE FALSE  OBVIOUS
<1>1. PICK i \in T : \A j \in T : i <= j
  <2>. T \in SUBSET Nat  OBVIOUS
  <2>. HIDE DEF T
  <2>. QED  BY LeastNumber
<1>2. i # k /\ i \in k + 1 .. n /\ i - 1 \in k .. n /\ i - 1 \in Nat  OBVIOUS
<1>3. i - 1 \in S
  <2>1. ~(i <= i - 1) /\ i - 1 \in k .. n  BY <1>2
  <2>. QED  BY <1>1, <1>2, <2>1
<1>. QED  BY <1>2, <1>3

-----------------------------------------------------------------------------
(* The folds of the library take the greatest index first.                 *)

\* The greatest member of a set of numbers up to k that has k is k.
LEMMA MaxOf ==
    ASSUME NEW k \in Nat, NEW S \in SUBSET (1 .. k), k \in S
    PROVE  Max(S) = k
<1>1. \A y \in S : k >= y  OBVIOUS
<1>2. \A x \in S : (\A y \in S : x >= y) => x = k
  <2>1. \A x \in S : x \in Int  OBVIOUS
  <2>. QED  BY <1>1, <2>1
<1>. QED  BY <1>1, <1>2 DEF Max

\* The greatest member is a member.
LEMMA MaxIn ==
    ASSUME NEW k \in Nat, NEW S \in SUBSET (1 .. k), S # {}
    PROVE  Max(S) \in S
<1>. DEFINE T == {t \in Nat : \E x \in S : x + t = k}
<1>1. T \in SUBSET Nat /\ T # {}
  <2>1. PICK x \in S : TRUE  OBVIOUS
  <2>2. k - x \in Nat /\ x + (k - x) = k  BY <2>1
  <2>. QED  BY <2>2
<1>2. PICK t \in T : \A m \in T : t <= m
  <2>. HIDE DEF T
  <2>. QED  BY <1>1, LeastNumber
<1>3. PICK x \in S : x + t = k  OBVIOUS
<1>4. \A y \in S : x >= y
  <2>1. ASSUME NEW y \in S PROVE x >= y
    <3>1. k - y \in Nat /\ y + (k - y) = k /\ y \in Int /\ x \in Int /\ t \in Int
      OBVIOUS
    <3>2. t <= k - y  BY <1>2, <3>1
    <3>. QED  BY <1>3, <3>1, <3>2
  <2>. QED  BY <2>1
<1>. QED  BY <1>3, <1>4 DEF Max

\* The numbers up to k are those up to k - 1, and k.
LEMMA UpToIs ==
    ASSUME NEW k \in Nat, k >= 1
    PROVE  /\ k \in 1 .. k /\ 1 .. k # {} /\ k - 1 \in Nat
           /\ (1 .. k) \ {k} = 1 .. k - 1
<1>1. \A i \in Int : i \in 1 .. k /\ i # k <=> i \in 1 .. k - 1  OBVIOUS
<1>. QED  BY <1>1

-----------------------------------------------------------------------------
(* Lists.                                                                  *)

\* The first i items.
LEMMA PrefixIs ==
    ASSUME NEW T, NEW s \in Seq(T), NEW i \in 0 .. Len(s)
    PROVE  /\ SubSeq(s, 1, i) \in Seq(T) /\ Len(SubSeq(s, 1, i)) = i
           /\ \A j \in 1 .. i : SubSeq(s, 1, i)[j] = s[j]
<1>. DEFINE n == Len(s)
            p == SubSeq(s, 1, i)
<1>1. n \in Nat /\ \A j \in 1 .. n : s[j] \in T  BY LenProperties, ElementOfSeq
<1>. HIDE DEF n
<1>2. i \in Nat /\ i - 1 + 1 = i /\ 0 <= i /\ i \in 0 .. n  BY <1>1 DEF n
<1>3. \A j \in 1 .. i : s[j] \in T  BY <1>1, <1>2
<1>4. /\ p \in Seq(T) /\ Len(p) = IF 1 <= i THEN i - 1 + 1 ELSE 0
      /\ \A j \in 1 .. i - 1 + 1 : p[j] = s[1 + j - 1]
  BY <1>2, <1>3, SubSeqProperties
<1>. HIDE DEF p
<1>5. Len(p) = i  BY <1>2, <1>4
<1>6. \A j \in 1 .. i : p[j] = s[j]
  <2>1. \A j \in 1 .. i : j \in 1 .. i - 1 + 1 /\ 1 + j - 1 = j  BY <1>2
  <2>. QED  BY <1>4, <2>1
<1>. QED  BY <1>4, <1>5, <1>6 DEF p

\* The items from the i-th on.
LEMMA SuffixIs ==
    ASSUME NEW T, NEW s \in Seq(T), NEW i \in 1 .. Len(s) + 1
    PROVE  /\ SubSeq(s, i, Len(s)) \in Seq(T)
           /\ Len(SubSeq(s, i, Len(s))) = Len(s) - i + 1
           /\ \A j \in 1 .. Len(s) - i + 1 : SubSeq(s, i, Len(s))[j] = s[i + j - 1]
<1>. DEFINE n == Len(s)
            p == SubSeq(s, i, n)
<1>1. n \in Nat /\ \A j \in 1 .. n : s[j] \in T  BY LenProperties, ElementOfSeq
<1>. HIDE DEF n
<1>2. i \in Nat /\ i >= 1 /\ i <= n + 1  BY <1>1 DEF n
<1>3. \A j \in i .. n : s[j] \in T  BY <1>1, <1>2
<1>4. /\ p \in Seq(T) /\ Len(p) = IF i <= n THEN n - i + 1 ELSE 0
      /\ \A j \in 1 .. n - i + 1 : p[j] = s[i + j - 1]
  BY <1>1, <1>2, <1>3, SubSeqProperties
<1>. HIDE DEF p
<1>5. Len(p) = n - i + 1  BY <1>1, <1>2, <1>4
<1>. QED  BY <1>4, <1>5 DEF p, n

\* The items of three lists joined, the middle one of at most one item.
LEMMA AroundIs ==
    ASSUME NEW T, NEW p \in Seq(T), NEW m \in Seq(T), NEW q \in Seq(T)
    PROVE  /\ p \o m \o q \in Seq(T)
           /\ Len(p \o m \o q) = Len(p) + Len(m) + Len(q)
           /\ \A j \in 1 .. Len(p) + Len(m) + Len(q) :
                 (p \o m \o q)[j] = IF j <= Len(p) THEN p[j]
                                    ELSE IF j <= Len(p) + Len(m) THEN m[j - Len(p)]
                                    ELSE q[j - (Len(p) + Len(m))]
<1>. DEFINE a == Len(p)
            b == Len(m)
            d == Len(q)
            u == p \o m
            w == u \o q
<1>1. a \in Nat /\ b \in Nat /\ d \in Nat  BY LenProperties
<1>2. /\ u \in Seq(T) /\ Len(u) = a + b
      /\ \A j \in 1 .. a + b : u[j] = IF j <= a THEN p[j] ELSE m[j - a]
  BY ConcatProperties
<1>. HIDE DEF u
<1>3. /\ w \in Seq(T) /\ Len(w) = Len(u) + d
      /\ \A j \in 1 .. Len(u) + d : w[j] = IF j <= Len(u) THEN u[j] ELSE q[j - Len(u)]
  <2>1. u \in Seq(T)  BY <1>2
  <2>. QED  BY <2>1, ConcatProperties
<1>. HIDE DEF w, a, b, d
<1>4. ASSUME NEW j \in 1 .. a + b + d
      PROVE  w[j] = IF j <= a THEN p[j] ELSE IF j <= a + b THEN m[j - a] ELSE q[j - (a + b)]
  <2>1. j \in 1 .. Len(u) + d  BY <1>1, <1>2
  <2>2. CASE j <= a + b
    <3>1. j \in 1 .. a + b  BY <1>1, <2>2
    <3>. QED  BY <1>1, <1>2, <1>3, <2>1, <2>2, <3>1
  <2>3. CASE ~(j <= a + b)
    <3>1. ~(j <= a)  BY <1>1, <2>3
    <3>. QED  BY <1>2, <1>3, <2>1, <2>3, <3>1
  <2>. QED  BY <2>2, <2>3
<1>5. Len(w) = a + b + d  BY <1>2, <1>3
<1>. QED  BY <1>3, <1>4, <1>5 DEF w, u, a, b, d

\* A list of one item.
LEMMA OneIs ==
    ASSUME NEW T, NEW e \in T
    PROVE  <<e>> \in Seq(T) /\ Len(<<e>>) = 1 /\ <<e>>[1] = e
OBVIOUS

\* w is the list s with e put in as its i-th item
PutIn(w, s, i, e) ==
    /\ Len(w) = Len(s) + 1
    /\ \A j \in 1 .. Len(s) + 1 :
          w[j] = IF j < i THEN s[j] ELSE IF j = i THEN e ELSE s[j - 1]

\* A list with an item inserted.
LEMMA InsertIs ==
    ASSUME NEW T, NEW s \in Seq(T), NEW e \in T, NEW i \in 1 .. Len(s) + 1,
           NEW w, w = InsertAt(s, i, e)
    PROVE  w \in Seq(T) /\ PutIn(w, s, i, e)
<1>. DEFINE n == Len(s)
            p == SubSeq(s, 1, i - 1)
            m == <<e>>
            q == SubSeq(s, i, Len(s))
<1>0. w = p \o m \o q  BY DEF InsertAt
<1>1. n \in Nat /\ i \in Nat /\ i >= 1 /\ i <= n + 1 /\ i - 1 \in 0 .. Len(s)
  BY LenProperties
<1>2. /\ p \in Seq(T) /\ Len(p) = i - 1
      /\ \A j \in 1 .. i - 1 : p[j] = s[j]
  BY <1>1, PrefixIs
<1>3. /\ q \in Seq(T) /\ Len(q) = n - i + 1
      /\ \A j \in 1 .. n - i + 1 : q[j] = s[i + j - 1]
  BY SuffixIs
<1>4. m \in Seq(T) /\ Len(m) = 1 /\ m[1] = e  BY OneIs
<1>. HIDE DEF p, m, q
<1>5. /\ w \in Seq(T) /\ Len(w) = Len(p) + Len(m) + Len(q)
      /\ \A j \in 1 .. Len(p) + Len(m) + Len(q) :
            w[j] = IF j <= Len(p) THEN p[j]
                   ELSE IF j <= Len(p) + Len(m) THEN m[j - Len(p)]
                   ELSE q[j - (Len(p) + Len(m))]
  <2>1. p \in Seq(T) /\ m \in Seq(T) /\ q \in Seq(T)  BY <1>2, <1>3, <1>4
  <2>. QED  BY <1>0, <2>1, AroundIs
<1>. HIDE DEF n
<1>6. Len(w) = n + 1  BY <1>1, <1>2, <1>3, <1>4, <1>5
<1>7. ASSUME NEW j \in 1 .. n + 1
      PROVE  w[j] = IF j < i THEN s[j] ELSE IF j = i THEN e ELSE s[j - 1]
  <2>1. /\ j \in 1 .. Len(p) + Len(m) + Len(q)
        /\ w[j] = IF j <= i - 1 THEN p[j] ELSE IF j <= i - 1 + 1 THEN m[j - (i - 1)]
                  ELSE q[j - (i - 1 + 1)]
    BY <1>1, <1>2, <1>3, <1>4, <1>5
  <2>2. CASE j < i
    <3>1. j <= i - 1 /\ j \in 1 .. i - 1  BY <1>1, <2>2
    <3>. QED  BY <1>2, <2>1, <2>2, <3>1
  <2>3. CASE j = i
    <3>1. ~(j <= i - 1) /\ j <= i - 1 + 1 /\ j - (i - 1) = 1  BY <1>1, <2>3
    <3>. QED  BY <1>1, <1>4, <2>1, <2>3, <3>1
  <2>4. CASE j > i
    <3>1. /\ ~(j <= i - 1) /\ ~(j <= i - 1 + 1) /\ ~(j < i) /\ j # i
          /\ j - (i - 1 + 1) \in 1 .. n - i + 1 /\ i + (j - (i - 1 + 1)) - 1 = j - 1
      BY <1>1, <2>4
    <3>. QED  BY <1>3, <2>1, <3>1
  <2>. QED  BY <1>1, <2>2, <2>3, <2>4
<1>. QED  BY <1>5, <1>6, <1>7 DEF n, PutIn

\* a list whose i-th item gives way to the list m
Splice(s, i, m) == SubSeq(s, 1, i - 1) \o m \o SubSeq(s, i + 1, Len(s))

\* one if m holds an item, none if it is empty
Ones(m) == IF m = <<>> THEN 0 ELSE 1

\* w is the list s with k items, none or e, in the place of its i-th
Spliced(w, s, i, k, e) ==
    /\ k \in {0, 1} /\ Len(w) = Len(s) - 1 + k
    /\ \A j \in 1 .. Len(s) - 1 + k :
          w[j] = IF j < i THEN s[j] ELSE IF k = 1 /\ j = i THEN e ELSE s[j + 1 - k]

\* A list whose i-th item gives way to none or to one.
LEMMA SpliceIs ==
    ASSUME NEW T, NEW s \in Seq(T), NEW i \in 1 .. Len(s), NEW e \in T, NEW m,
           m = <<>> \/ m = <<e>>
    PROVE  Splice(s, i, m) \in Seq(T) /\ Spliced(Splice(s, i, m), s, i, Ones(m), e)
<1>. DEFINE n == Len(s)
            k == IF m = <<>> THEN 0 ELSE 1
            p == SubSeq(s, 1, i - 1)
            q == SubSeq(s, i + 1, Len(s))
            w == p \o m \o q
<1>1. n \in Nat /\ i \in Nat /\ i >= 1 /\ i <= n /\ i - 1 \in 0 .. Len(s)
      /\ i + 1 \in 1 .. Len(s) + 1
  BY LenProperties
<1>2. /\ p \in Seq(T) /\ Len(p) = i - 1
      /\ \A j \in 1 .. i - 1 : p[j] = s[j]
  BY <1>1, PrefixIs
<1>3. /\ q \in Seq(T) /\ Len(q) = n - i
      /\ \A j \in 1 .. n - i : q[j] = s[i + j]
  <2>1. /\ q \in Seq(T) /\ Len(q) = n - (i + 1) + 1
        /\ \A j \in 1 .. n - (i + 1) + 1 : q[j] = s[(i + 1) + j - 1]
    BY <1>1, SuffixIs
  <2>2. n - (i + 1) + 1 = n - i /\ \A j \in 1 .. n - i : (i + 1) + j - 1 = i + j  BY <1>1
  <2>. HIDE DEF q, n
  <2>. QED  BY <2>1, <2>2
<1>4. m \in Seq(T) /\ Len(m) = k /\ (k = 1 => m[1] = e)
  <2>1. <<e>> # <<>>  OBVIOUS
  <2>2. CASE m = <<>>  BY <2>2, EmptySeq
  <2>3. CASE m = <<e>>  BY <2>1, <2>3, OneIs
  <2>. QED  BY <2>2, <2>3
<1>5. k \in {0, 1}  OBVIOUS
<1>. HIDE DEF p, q, k
<1>6. /\ w \in Seq(T) /\ Len(w) = Len(p) + Len(m) + Len(q)
      /\ \A j \in 1 .. Len(p) + Len(m) + Len(q) :
            w[j] = IF j <= Len(p) THEN p[j]
                   ELSE IF j <= Len(p) + Len(m) THEN m[j - Len(p)]
                   ELSE q[j - (Len(p) + Len(m))]
  <2>1. p \in Seq(T) /\ m \in Seq(T) /\ q \in Seq(T)  BY <1>2, <1>3, <1>4
  <2>. QED  BY <2>1, AroundIs
<1>. HIDE DEF w, n
<1>7. Len(w) = n - 1 + k  BY <1>1, <1>2, <1>3, <1>4, <1>5, <1>6
<1>8. ASSUME NEW j \in 1 .. n - 1 + k
      PROVE  w[j] = IF j < i THEN s[j] ELSE IF k = 1 /\ j = i THEN e ELSE s[j + 1 - k]
  <2>1. /\ j \in 1 .. Len(p) + Len(m) + Len(q)
        /\ w[j] = IF j <= i - 1 THEN p[j] ELSE IF j <= i - 1 + k THEN m[j - (i - 1)]
                  ELSE q[j - (i - 1 + k)]
    BY <1>1, <1>2, <1>3, <1>4, <1>5, <1>6
  <2>2. CASE j < i
    <3>1. j <= i - 1 /\ j \in 1 .. i - 1  BY <1>1, <2>2
    <3>. QED  BY <1>2, <2>1, <2>2, <3>1
  <2>3. CASE j = i /\ k = 1
    <3>1. ~(j <= i - 1) /\ j <= i - 1 + k /\ j - (i - 1) = 1  BY <1>1, <2>3
    <3>. QED  BY <1>1, <1>4, <2>1, <2>3, <3>1
  <2>4. CASE ~(j < i) /\ ~(j = i /\ k = 1)
    <3>1. /\ ~(j <= i - 1) /\ ~(j <= i - 1 + k)
          /\ j - (i - 1 + k) \in 1 .. n - i /\ i + (j - (i - 1 + k)) = j + 1 - k
      BY <1>1, <1>5, <2>4
    <3>. QED  BY <1>3, <2>1, <2>4, <3>1
  <2>. QED  BY <2>2, <2>3, <2>4
<1>9. w = Splice(s, i, m) /\ k = Ones(m) /\ n = Len(s)
  BY DEF w, p, q, k, n, Splice, Ones
<1>. QED  BY <1>5, <1>6, <1>7, <1>8, <1>9 DEF Spliced
=============================================================================
