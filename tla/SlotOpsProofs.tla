------------------------------ MODULE SlotOpsProofs --------------------------
(***************************************************************************)
(* Lemmas about the slot array of a BlockSet: names and slots, the search, *)
(* the turn and the flip, each rung of the ladder, and what an insert and  *)
(* a remove leave of a sound block.                                        *)
(***************************************************************************)
EXTENDS SlotOps, ListLemmas

-----------------------------------------------------------------------------
(* Powers of two.  The provers know no exponents: 2^n is the number of the *)
(* subsets of 1 .. n.                                                      *)

\* A power of two is the number of subsets, which is what the provers know about.
LEMMA PowerIs ==
    ASSUME NEW n \in Nat
    PROVE  2^n \in Nat /\ 2^n >= 1 /\ Cardinality(SUBSET (1 .. n)) = 2^n
           /\ IsFiniteSet(SUBSET (1 .. n))
<1>1. IsFiniteSet(1 .. n) /\ Cardinality(1 .. n) = n  BY FS_Interval
<1>2. IsFiniteSet(SUBSET (1 .. n)) /\ Cardinality(SUBSET (1 .. n)) = 2^n
  BY <1>1, FS_SUBSET
<1>3. Cardinality(SUBSET (1 .. n)) \in Nat /\ Cardinality(SUBSET (1 .. n)) # 0
  <2>1. {} \in SUBSET (1 .. n)  OBVIOUS
  <2>. QED  BY <1>2, <2>1, FS_CardinalityType, FS_EmptySet
<1>. QED  BY <1>2, <1>3

\* One more bit doubles a power of two.
LEMMA PowerNext ==
    ASSUME NEW n \in Nat
    PROVE  2^(n + 1) = 2 * 2^n
<1>. DEFINE A == SUBSET (1 .. n)
            B == {T \union {n + 1} : T \in A}
            f == [T \in A |-> T \union {n + 1}]
<1>1. IsFiniteSet(A) /\ Cardinality(A) = 2^n /\ 2^n \in Nat  BY PowerIs
<1>2. Cardinality(SUBSET (1 .. n + 1)) = 2^(n + 1)  BY PowerIs
<1>3. \A T \in A : n + 1 \notin T  OBVIOUS
<1>4. SUBSET (1 .. n + 1) = A \union B
  <2>1. ASSUME NEW T \in SUBSET (1 .. n + 1) PROVE T \in A \union B
    <3>1. 1 .. n + 1 = (1 .. n) \union {n + 1}  OBVIOUS
    <3>2. T \ {n + 1} \in A  BY <3>1
    <3>3. n + 1 \in T => T = (T \ {n + 1}) \union {n + 1}  OBVIOUS
    <3>4. n + 1 \notin T => T = T \ {n + 1}  OBVIOUS
    <3>. QED  BY <3>2, <3>3, <3>4
  <2>2. ASSUME NEW T \in A PROVE T \in SUBSET (1 .. n + 1) /\ T \union {n + 1} \in SUBSET (1 .. n + 1)
    OBVIOUS
  <2>3. A \union B \subseteq SUBSET (1 .. n + 1)
    <3>1. ASSUME NEW U \in B PROVE U \in SUBSET (1 .. n + 1)
      <4>1. PICK T \in A : U = T \union {n + 1}  OBVIOUS
      <4>. QED  BY <2>2, <4>1
    <3>2. A \subseteq SUBSET (1 .. n + 1)  BY <2>2
    <3>. HIDE DEF A, B
    <3>. QED  BY <3>1, <3>2
  <2>4. SUBSET (1 .. n + 1) \subseteq A \union B
    <3>. HIDE DEF A, B
    <3>. QED  BY <2>1
  <2>. HIDE DEF A, B
  <2>. QED  BY <2>3, <2>4
<1>5. A \intersect B = {}  BY <1>3
<1>6. IsFiniteSet(B) /\ Cardinality(B) = Cardinality(A)
  <2>1. f \in Bijection(A, B)
    <3>1. f \in [A -> B]  OBVIOUS
    <3>2. ASSUME NEW S \in A, NEW T \in A, f[S] = f[T] PROVE S = T
      <4>1. S \union {n + 1} = T \union {n + 1} /\ n + 1 \notin S /\ n + 1 \notin T
        BY <1>3, <3>2
      <4>. QED  BY <4>1
    <3>3. \A U \in B : \E T \in A : f[T] = U  OBVIOUS
    <3>. HIDE DEF f, A, B
    <3>. QED  BY <3>1, <3>2, <3>3 DEF Bijection, Injection, Surjection, IsInjective
  <2>2. ExistsBijection(A, B)  BY <2>1 DEF ExistsBijection
  <2>. QED  BY <1>1, <2>2, FS_Bijection
<1>. HIDE DEF A, B
<1>7. Cardinality(A \union B) = Cardinality(A) + Cardinality(B) - Cardinality(A \intersect B)
  BY <1>1, <1>6, FS_Union
<1>8. Cardinality(A \intersect B) = 0  BY <1>5, FS_EmptySet
<1>9. Cardinality(A \union B) = Cardinality(A) + Cardinality(A) /\ Cardinality(A) \in Nat
  BY <1>1, <1>6, <1>7, <1>8
<1>10. \A x \in Nat : x + x = 2 * x  OBVIOUS
<1>. QED  BY <1>1, <1>2, <1>4, <1>9, <1>10

\* The bits of a name split into two parts.
LEMMA PowerSplit ==
    ASSUME NEW i \in Nat, NEW j \in Nat
    PROVE  2^(i + j) = 2^i * 2^j
<1>. DEFINE K == {x \in Nat : 2^(i + x) = 2^i * 2^x}
<1>1. 2^i \in Nat  BY PowerIs
<1>2. 0 \in K
  <2>1. 2^0 = 1 /\ i + 0 = i  OBVIOUS
  <2>. QED  BY <1>1, <2>1
<1>3. ASSUME NEW x \in 0 + 1 .. j, x - 1 \in K PROVE x \in K
  <2>1. x \in Nat /\ x - 1 \in Nat /\ x - 1 + 1 = x /\ i + (x - 1) + 1 = i + x
        /\ i + (x - 1) \in Nat
    OBVIOUS
  <2>2. 2^x = 2 * 2^(x - 1) /\ 2^(x - 1) \in Nat  BY <2>1, PowerNext, PowerIs
  <2>3. 2^(i + x) = 2 * 2^(i + (x - 1))  BY <2>1, PowerNext
  <2>4. 2^(i + (x - 1)) = 2^i * 2^(x - 1)  BY <1>3
  <2>. DEFINE p == 2^(x - 1)
              q == 2^i
  <2>5. p \in Nat /\ q \in Nat  BY <1>1, <2>2
  <2>6. 2 * (q * p) = q * (2 * p)
    <3>. HIDE DEF p, q
    <3>. QED  BY <2>5
  <2>. QED  BY <2>1, <2>2, <2>3, <2>4, <2>6
<1>. HIDE DEF K
<1>4. 0 .. j \subseteq K  BY <1>2, <1>3, Upwards
<1>5. j \in K  BY <1>4
<1>. QED  BY <1>5 DEF K

-----------------------------------------------------------------------------
(* Rotations of names.                                                     *)

\* Division and remainder by a positive number.
LEMMA Quotient ==
    ASSUME NEW n \in Nat, n > 0, NEW x \in Nat
    PROVE  /\ x \div n \in Nat /\ x % n \in 0 .. n - 1 /\ x = (x \div n) * n + (x % n)
<1>1. x % n \in 0 .. n - 1  OBVIOUS
<1>2. x = (x \div n) * n + (x % n)  OBVIOUS
<1>3. x \div n >= 0 /\ x \div n \in Int  OBVIOUS
<1>. QED  BY <1>1, <1>2, <1>3

\* x is q times n and a rest of r
Divided(x, n, q, r) ==
    n \in Nat /\ n > 0 /\ q \in Nat /\ r \in 0 .. n - 1 /\ x = q * n + r

\* A quotient and a remainder determine the division.
LEMMA QuotientOf ==
    ASSUME NEW x, NEW n, NEW q, NEW r, Divided(x, n, q, r)
    PROVE  x % n = r /\ x \div n = q
BY DEF Divided

\* The remainders that the translator takes.
LEMMA Remainder ==
    ASSUME NEW n \in Nat, n > 0, NEW x \in Int
    PROVE  /\ x % n \in 0 .. n - 1
           /\ x \in 0 .. n - 1 => x % n = x
           /\ x \in n .. 2 * n - 1 => x % n = x - n
           /\ x \in -n .. -1 => x % n = x + n
<1>1. x % n \in 0 .. n - 1  OBVIOUS
<1>2. x \in 0 .. n - 1 => x % n = x  OBVIOUS
<1>3. x \in n .. 2 * n - 1 => x % n = x - n  OBVIOUS
<1>4. x \in -n .. -1 => x % n = x + n  OBVIOUS
<1>. QED  BY <1>1, <1>2, <1>3, <1>4

\* x times p, with what overflows n brought back at the bottom
Spin(x, p, n) == ((x * p) % n) + ((x * p) \div n)

\* x has the high part q, below e, and the low part r, below a
Halved(x, a, e, q, r) ==
    /\ a \in Nat /\ a > 0 /\ e \in Nat /\ e > 0
    /\ q \in 0 .. e - 1 /\ r \in 0 .. a - 1 /\ x = q * a + r

\* A rotation of a word swaps the two digits of its value.
LEMMA SpinIs ==
    ASSUME NEW x, NEW a, NEW e, NEW q, NEW r, Halved(x, a, e, q, r)
    PROVE  LET n == a * e
           IN  /\ n \in Nat /\ n > 0
               /\ x \in 0 .. n - 1
               /\ Spin(x, e, n) = r * e + q
               /\ r * e + q \in 0 .. n - 1
<1>. DEFINE n == a * e
<1>0. /\ a \in Nat /\ a > 0 /\ e \in Nat /\ e > 0
      /\ q \in 0 .. e - 1 /\ r \in 0 .. a - 1 /\ x = q * a + r
  BY DEF Halved
<1>1. q \in Nat /\ r \in Nat /\ q <= e - 1 /\ r <= a - 1  BY <1>0
<1>2. n \in Nat /\ n > 0  BY <1>0
<1>3. q * a <= (e - 1) * a /\ r * e <= (a - 1) * e /\ q * a \in Nat /\ r * e \in Nat
  BY <1>0, <1>1
<1>4. (e - 1) * a = n - a /\ (a - 1) * e = n - e  BY <1>0
<1>5. q * a + r \in 0 .. n - 1 /\ r * e + q \in 0 .. n - 1 /\ r * e \in 0 .. n - 1
  <2>. DEFINE u == q * a
              v == r * e
  <2>1. u \in Nat /\ v \in Nat /\ u <= n - a /\ v <= n - e  BY <1>3, <1>4
  <2>. HIDE DEF u, v, n
  <2>2. u + r \in 0 .. n - 1 /\ v + q \in 0 .. n - 1 /\ v \in 0 .. n - 1
    BY <1>0, <1>1, <1>2, <2>1
  <2>. QED  BY <2>2 DEF u, v
<1>6. x * e = q * n + r * e
  <2>1. (q * a + r) * e = (q * a) * e + r * e  BY <1>0, <1>1
  <2>2. (q * a) * e = q * (a * e)  BY <1>0, <1>1
  <2>. QED  BY <1>0, <2>1, <2>2
<1>7. (x * e) % n = r * e /\ (x * e) \div n = q
  <2>. DEFINE y == x * e
              v == r * e
  <2>1. y = q * n + v /\ v \in 0 .. n - 1  BY <1>5, <1>6
  <2>. HIDE DEF y, v, n
  <2>2. Divided(y, n, q, v)  BY <1>1, <1>2, <2>1 DEF Divided
  <2>3. y % n = v /\ y \div n = q  BY <2>2, QuotientOf
  <2>. QED  BY <2>3 DEF y, v
<1>. HIDE DEF n
<1>8. Spin(x, e, n) = r * e + q  BY <1>7 DEF Spin
<1>. QED  BY <1>0, <1>2, <1>5, <1>8 DEF n

\* A rotation and its reverse.
Factors(n, a, e) == a \in Nat /\ a > 0 /\ e \in Nat /\ e > 0 /\ n = a * e

\* A rotation by the other part undoes a rotation.
LEMMA SpinBack ==
    ASSUME NEW n, NEW a, NEW e, Factors(n, a, e), NEW x \in 0 .. n - 1
    PROVE  Spin(x, e, n) \in 0 .. n - 1 /\ Spin(Spin(x, e, n), a, n) = x
<1>0. a \in Nat /\ a > 0 /\ e \in Nat /\ e > 0 /\ n = a * e  BY DEF Factors
<1>. DEFINE q == x \div a
            r == x % a
<1>1. n \in Nat /\ x \in Nat  BY <1>0
<1>2. q \in Nat /\ r \in 0 .. a - 1 /\ x = q * a + r  BY <1>0, <1>1, Quotient
<1>. HIDE DEF q, r
<1>3. q <= e - 1
  <2>1. SUFFICES ASSUME q >= e PROVE FALSE  BY <1>0, <1>2
  <2>2. q * a >= e * a  BY <1>0, <1>2, <2>1
  <2>3. e * a = a * e  BY <1>0
  <2>. DEFINE u == q * a
  <2>4. u \in Nat /\ u >= n /\ x = u + r  BY <1>0, <1>2, <2>2, <2>3
  <2>. HIDE DEF u
  <2>. QED  BY <1>1, <1>2, <2>4
<1>4. q \in 0 .. e - 1  BY <1>0, <1>2, <1>3
<1>5. Spin(x, e, n) = r * e + q /\ r * e + q \in 0 .. n - 1
  <2>1. Halved(x, a, e, q, r)  BY <1>0, <1>2, <1>4 DEF Halved
  <2>. QED  BY <1>0, <2>1, SpinIs
<1>6. n = e * a  BY <1>0
<1>7. Spin(r * e + q, a, n) = q * a + r
  <2>. DEFINE y == r * e + q
  <2>1. Halved(y, e, a, r, q)  BY <1>0, <1>2, <1>4 DEF Halved
  <2>. HIDE DEF y
  <2>2. Spin(y, a, n) = q * a + r  BY <1>6, <2>1, SpinIs
  <2>. QED  BY <2>2 DEF y
<1>. QED  BY <1>2, <1>5, <1>7

\* a name doubled, as a rotation by one more bit doubles it
Doubly(x) == IF x < Midpoint THEN 2 * x ELSE 2 * x - NameCount + 1

\* Rotating back and one bit further doubles the value, or wraps it round.
LEMMA SpinNext ==
    ASSUME NEW a \in Nat, a > 0, NEW h \in Nat, h > 0, NEW n, n = a * (2 * h),
           NEW x \in 0 .. n - 1
    PROVE  Spin(Spin(x, 2 * h, n), 2 * a, n)
             = IF x < a * h THEN 2 * x ELSE 2 * x - n + 1
<1>. DEFINE e == 2 * h
            q == x \div a
            r == x % a
            up == q \div h
            lo == q % h
<1>1. n \in Nat /\ n > 0 /\ x \in Nat /\ e \in Nat /\ e > 0 /\ n = a * e  OBVIOUS
<1>2. q \in Nat /\ r \in 0 .. a - 1 /\ x = q * a + r  BY <1>1, Quotient
<1>. HIDE DEF q, r
<1>3. q \in 0 .. e - 1
  <2>1. SUFFICES ASSUME q >= e PROVE FALSE  BY <1>1, <1>2
  <2>2. q * a >= e * a  BY <1>1, <1>2, <2>1
  <2>3. e * a = a * e  BY <1>1
  <2>. DEFINE u == q * a
  <2>4. u \in Nat /\ u >= n /\ x = u + r  BY <1>1, <1>2, <2>2, <2>3
  <2>. HIDE DEF u
  <2>. QED  BY <1>1, <1>2, <2>4
<1>4. Spin(x, e, n) = r * e + q
  <2>1. Halved(x, a, e, q, r)  BY <1>1, <1>2, <1>3 DEF Halved
  <2>. QED  BY <1>1, <2>1, SpinIs
<1>5. up \in Nat /\ lo \in 0 .. h - 1 /\ q = up * h + lo  BY <1>2, Quotient
<1>. HIDE DEF up, lo
<1>6. up \in {0, 1}
  <2>1. SUFFICES ASSUME up >= 2 PROVE FALSE  BY <1>5
  <2>2. up * h >= 2 * h  BY <1>5, <2>1
  <2>. DEFINE u == up * h
  <2>3. u >= 2 * h /\ q = u + lo /\ u \in Nat  BY <1>5, <2>2
  <2>. HIDE DEF u
  <2>. QED  BY <1>3, <1>5, <2>3
<1>. DEFINE s == lo * (2 * a)
            t == lo * a
<1>7. s = 2 * t /\ t \in Nat /\ t <= (h - 1) * a  BY <1>5
<1>8. (h - 1) * a = a * h - a /\ n = 2 * (a * h) /\ a * h \in Nat  OBVIOUS
<1>. DEFINE m == a * h
<1>9. q * a = up * m + t
  <2>1. q * a = (up * h) * a + lo * a  BY <1>5
  <2>2. (up * h) * a = up * (a * h)  BY <1>5
  <2>. QED  BY <2>1, <2>2
<1>10. up = 0 => q * a = t  BY <1>7, <1>8, <1>9
<1>11. up = 1 => q * a = m + t  BY <1>7, <1>8, <1>9
<1>12. (r * e + q) * (2 * a) = (2 * r + up) * n + 2 * t
  <2>1. (r * e + q) * (2 * a) = (r * e) * (2 * a) + q * (2 * a)  BY <1>1, <1>2
  <2>2. (r * e) * (2 * a) = (2 * r) * (a * e)  BY <1>1, <1>2
  <2>3. q * (2 * a) = 2 * (q * a)  BY <1>2
  <2>4. 2 * (up * m + t) = up * (2 * m) + 2 * t  BY <1>5, <1>7, <1>8
  <2>5. (2 * r) * n + up * n = (2 * r + up) * n  BY <1>1, <1>2, <1>5
  <2>6. (2 * r) * n \in Int /\ up * n \in Int /\ t \in Int  BY <1>1, <1>2, <1>5, <1>7
  <2>. QED  BY <1>1, <1>8, <1>9, <2>1, <2>2, <2>3, <2>4, <2>5, <2>6
<1>13. m \in Nat /\ n = 2 * m /\ t <= m - a  BY <1>7, <1>8
<1>. HIDE DEF m, s, t
<1>14. 2 * t \in 0 .. n - 1 /\ 2 * r + up \in Nat  BY <1>2, <1>6, <1>7, <1>13
<1>15. Spin(r * e + q, 2 * a, n) = 2 * t + (2 * r + up)
  <2>. DEFINE y == (r * e + q) * (2 * a)
  <2>1. y = (2 * r + up) * n + 2 * t  BY <1>12
  <2>. HIDE DEF y
  <2>2. Divided(y, n, 2 * r + up, 2 * t)  BY <1>1, <1>14, <2>1 DEF Divided
  <2>3. y % n = 2 * t /\ y \div n = 2 * r + up  BY <2>2, QuotientOf
  <2>. QED  BY <2>3 DEF y, Spin
<1>16. CASE up = 0
  <2>1. x = t + r /\ x < m  BY <1>2, <1>7, <1>10, <1>13, <1>16
  <2>2. 2 * t + (2 * r + up) = 2 * x  BY <1>2, <1>7, <1>16, <2>1
  <2>. QED  BY <1>4, <1>15, <2>1, <2>2 DEF m
<1>17. CASE up = 1
  <2>1. x = m + t + r /\ ~(x < m)  BY <1>2, <1>7, <1>11, <1>13, <1>17
  <2>2. 2 * t + (2 * r + up) = 2 * x - n + 1  BY <1>2, <1>7, <1>13, <1>17, <2>1
  <2>. QED  BY <1>4, <1>15, <2>1, <2>2 DEF m
<1>. QED  BY <1>6, <1>16, <1>17

-----------------------------------------------------------------------------
(* The translator.                                                         *)

Translator == [rot : 0 .. Width, off : Names, rev : BOOLEAN]

\* The width gives an even number of names, at least four.
LEMMA NamesAre ==
    /\ Width \in Nat /\ Width >= 2
    /\ Midpoint \in Nat /\ Midpoint >= 2
    /\ NameCount \in Nat /\ NameCount = 2 * Midpoint /\ NameCount > 0
<1>1. Width \in Nat /\ Width >= 2 /\ Width - 1 \in Nat /\ Width - 2 \in Nat
      /\ Width - 1 + 1 = Width /\ Width - 2 + 1 = Width - 1
  BY SlotOpsAssumption
<1>2. 2^(Width - 2) \in Nat /\ 2^(Width - 2) >= 1  BY <1>1, PowerIs
<1>3. 2^(Width - 1) = 2 * 2^(Width - 2)  BY <1>1, PowerNext
<1>4. 2^Width = 2 * 2^(Width - 1)  BY <1>1, PowerNext
<1>. DEFINE x == 2^(Width - 2)
            y == 2^(Width - 1)
            z == 2^Width
<1>5. x \in Nat /\ x >= 1 /\ y = 2 * x /\ z = 2 * y  BY <1>2, <1>3, <1>4
<1>. HIDE DEF x, y, z
<1>6. y \in Nat /\ y >= 2 /\ z \in Nat /\ z > 0  BY <1>5
<1>. QED  BY <1>1, <1>5, <1>6 DEF x, y, z, Midpoint, NameCount

\* The two powers of a rotation multiply to the number of names.
LEMMA PowersAre ==
    ASSUME NEW r \in 0 .. Width
    PROVE  /\ 2^r \in Nat /\ 2^r > 0 /\ 2^(Width - r) \in Nat /\ 2^(Width - r) > 0
           /\ NameCount = 2^r * 2^(Width - r)
<1>1. r \in Nat /\ Width - r \in Nat /\ r + (Width - r) = Width  BY NamesAre
<1>2. /\ 2^r \in Nat /\ 2^r >= 1 /\ 2^(Width - r) \in Nat /\ 2^(Width - r) >= 1
  BY <1>1, PowerIs
<1>3. 2^Width = 2^r * 2^(Width - r)
  <2>1. 2^(r + (Width - r)) = 2^r * 2^(Width - r)  BY <1>1, PowerSplit
  <2>. QED  BY <1>1, <2>1
<1>4. \A x \in Nat : x >= 1 => x > 0  OBVIOUS
<1>. QED  BY <1>2, <1>3, <1>4 DEF NameCount

\* By no bit, or by all of them, a name stays as it is.
LEMMA SpinNone ==
    ASSUME NEW a \in Names
    PROVE  Spin(a, 1, NameCount) = a /\ Spin(a, NameCount, NameCount) = a
<1>. DEFINE n == NameCount
<1>1. n \in Nat /\ n > 0 /\ a \in 0 .. n - 1  BY NamesAre DEF Names
<1>. HIDE DEF n
<1>2. a * 1 = a /\ a * 1 = 0 * n + a /\ a * n = a * n + 0 /\ a + 0 = a /\ 0 + a = a
  BY <1>1
<1>3. Divided(a * 1, n, 0, a) /\ Divided(a * n, n, a, 0)
  BY <1>1, <1>2 DEF Divided
<1>4. (a * 1) % n = a /\ (a * 1) \div n = 0 /\ (a * n) % n = 0 /\ (a * n) \div n = a
  BY <1>3, QuotientOf
<1>5. Spin(a, 1, n) = a /\ Spin(a, n, n) = a  BY <1>2, <1>4 DEF Spin
<1>. QED  BY <1>5 DEF n

\* The translator's rotations are the swaps of digits above.
LEMMA RotateIs ==
    ASSUME NEW a \in Names, NEW r \in 0 .. Width
    PROVE  /\ RotateLeft(a, r) = Spin(a, 2^r, NameCount)
           /\ RotateRight(a, r) = Spin(a, 2^(Width - r), NameCount)
<1>1. Width \in Nat /\ Width >= 2  BY NamesAre
<1>2. 2^0 = 1 /\ 2^Width = NameCount  BY DEF NameCount
<1>3. \A i : RotateLeft(a, i) = Spin(a, 2^(i % Width), NameCount)  BY DEF RotateLeft, Spin
<1>4. CASE r = Width
  <2>1. r % Width = 0 /\ Width - 0 = Width /\ Width % Width = 0 /\ Width - r = 0  BY <1>1, <1>4
  <2>2. RotateLeft(a, r) = Spin(a, 1, NameCount)  BY <1>2, <1>3, <2>1
  <2>3. RotateRight(a, r) = Spin(a, 1, NameCount)  BY <1>2, <1>3, <2>1 DEF RotateRight
  <2>. QED  BY <1>2, <1>4, <2>1, <2>2, <2>3, SpinNone
<1>5. CASE r = 0
  <2>1. r % Width = 0 /\ Width - 0 = Width /\ Width % Width = 0 /\ Width - r = Width
    BY <1>1, <1>5
  <2>2. RotateLeft(a, r) = Spin(a, 1, NameCount)  BY <1>2, <1>3, <2>1
  <2>3. RotateRight(a, r) = Spin(a, 1, NameCount)  BY <1>2, <1>3, <2>1 DEF RotateRight
  <2>. QED  BY <1>2, <1>5, <2>1, <2>2, <2>3, SpinNone
<1>6. CASE r # 0 /\ r # Width
  <2>1. r \in 0 .. Width - 1 /\ Width - r \in 0 .. Width - 1  BY <1>1, <1>6
  <2>2. r % Width = r /\ (Width - r) % Width = Width - r  BY <1>1, <2>1, Remainder
  <2>. QED  BY <1>3, <2>2 DEF RotateRight
<1>. QED  BY <1>4, <1>5, <1>6

\* The two rotations stay in the names and undo each other.
LEMMA RotateThere ==
    ASSUME NEW a \in Names, NEW r \in 0 .. Width
    PROVE  /\ RotateLeft(a, r) \in Names /\ RotateRight(a, r) \in Names
           /\ RotateLeft(RotateRight(a, r), r) = a
           /\ RotateRight(RotateLeft(a, r), r) = a
<1>. DEFINE n == NameCount
            x == 2^r
            y == 2^(Width - r)
<1>1. /\ n \in Nat /\ n > 0 /\ x \in Nat /\ x > 0 /\ y \in Nat /\ y > 0
      /\ n = x * y /\ Names = 0 .. n - 1
  BY NamesAre, PowersAre DEF Names
<1>2. \A c \in Names : RotateLeft(c, r) = Spin(c, x, n) /\ RotateRight(c, r) = Spin(c, y, n)
  BY RotateIs
<1>. HIDE DEF n, x, y
<1>3. Factors(n, x, y) /\ Factors(n, y, x)
  <2>1. n = y * x  BY <1>1
  <2>. QED  BY <1>1, <2>1 DEF Factors
<1>4. Spin(a, y, n) \in Names /\ Spin(Spin(a, y, n), x, n) = a  BY <1>1, <1>3, SpinBack
<1>5. Spin(a, x, n) \in Names /\ Spin(Spin(a, x, n), y, n) = a  BY <1>1, <1>3, SpinBack
<1>. QED  BY <1>2, <1>4, <1>5

\* One more turn sends a slot to twice its index, odd beyond the midpoint.
LEMMA RotateOn ==
    ASSUME NEW a \in Names, NEW r \in 0 .. Width - 1
    PROVE  RotateLeft(RotateRight(a, r), r + 1) = Doubly(a)
<1>. DEFINE n == NameCount
            x == 2^r
            h == 2^(Width - 1 - r)
            mid == x * h
<1>1. /\ Width \in Nat /\ r \in 0 .. Width /\ r + 1 \in 0 .. Width /\ r \in Nat
      /\ Width - r = (Width - 1 - r) + 1 /\ Width - 1 - r \in Nat
      /\ r + (Width - 1 - r) = Width - 1
  BY NamesAre
<1>2. x \in Nat /\ x >= 1 /\ h \in Nat /\ h >= 1  BY <1>1, PowerIs
<1>3. 2^(Width - r) = 2 * h /\ 2^(r + 1) = 2 * x  BY <1>1, PowerNext
<1>4. n = x * (2 * h) /\ n \in Nat /\ Names = 0 .. n - 1  BY <1>1, <1>3, NamesAre, PowersAre DEF Names
<1>5. Midpoint = x * h  BY <1>1, PowerSplit DEF Midpoint
<1>6. RotateRight(a, r) = Spin(a, 2 * h, n) /\ RotateRight(a, r) \in Names
  BY <1>1, <1>3, RotateIs, RotateThere
<1>7. RotateLeft(RotateRight(a, r), r + 1) = Spin(RotateRight(a, r), 2 * x, n)
  BY <1>1, <1>3, <1>6, RotateIs
<1>. HIDE DEF n, x, h
<1>8. x > 0 /\ h > 0 /\ a \in 0 .. n - 1  BY <1>2, <1>4
<1>9. Spin(Spin(a, 2 * h, n), 2 * x, n) = IF a < x * h THEN 2 * a ELSE 2 * a - n + 1
  BY <1>2, <1>4, <1>8, SpinNext
<1>10. Spin(Spin(a, 2 * h, n), 2 * x, n) = IF a < Midpoint THEN 2 * a ELSE 2 * a - n + 1
  <2>1. Midpoint = mid  BY <1>5
  <2>2. Spin(Spin(a, 2 * h, n), 2 * x, n) = IF a < mid THEN 2 * a ELSE 2 * a - n + 1  BY <1>9
  <2>. HIDE DEF mid
  <2>. QED  BY <2>1, <2>2
<1>. HIDE DEF mid
<1>. QED  BY <1>6, <1>7, <1>10 DEF Doubly, n

\* Every slot has a name, and every name a slot: the maps are inverse.
LEMMA NamesAndSlots ==
    ASSUME NEW tr \in Translator, NEW p \in Names
    PROVE  /\ P2A(tr, p) \in Names /\ A2P(tr, P2A(tr, p)) = p
           /\ A2P(tr, p) \in Names /\ P2A(tr, A2P(tr, p)) = p
<1>. DEFINE n == NameCount
            off == tr.off
            r == tr.rot
<1>1. n \in Nat /\ n > 0 /\ Names = 0 .. n - 1  BY NamesAre DEF Names
<1>2. off \in Names /\ r \in 0 .. Width /\ tr.rev \in BOOLEAN  BY DEF Translator
<1>3. ASSUME NEW y \in Names
      PROVE  RotateLeft(RotateRight(y, r), r) = y /\ RotateRight(y, r) \in Names
             /\ RotateRight(RotateLeft(y, r), r) = y /\ RotateLeft(y, r) \in Names
  BY <1>2, <1>3, RotateThere
<1>. HIDE DEF n, off, r
<1>4. \A x \in Int : x % n \in Names  BY <1>1, Remainder
<1>5. CASE tr.rev
  <2>. DEFINE y == (off - p) % n
  <2>1. P2A(tr, p) = RotateRight(y, r) /\ y \in Names
    BY <1>1, <1>2, <1>4, <1>5 DEF P2A, n, off, r
  <2>2. A2P(tr, P2A(tr, p)) = (off - y) % n
    BY <1>3, <1>5, <2>1 DEF A2P, n, off, r
  <2>3. (off - y) % n = p
    <3>1. CASE p <= off
      <4>1. off - p \in 0 .. n - 1  BY <1>1, <1>2, <3>1
      <4>2. y = off - p  BY <1>1, <4>1, Remainder
      <4>3. off - y = p  BY <1>1, <1>2, <4>2
      <4>. QED  BY <1>1, <4>3, Remainder
    <3>2. CASE p > off
      <4>1. off - p \in -n .. -1  BY <1>1, <1>2, <3>2
      <4>2. y = off - p + n  BY <1>1, <4>1, Remainder
      <4>3. off - y = p - n /\ p - n \in -n .. -1 /\ p - n + n = p  BY <1>1, <1>2, <4>2
      <4>4. (p - n) % n = p - n + n  BY <1>1, <4>3, Remainder
      <4>. QED  BY <4>3, <4>4
    <3>. QED  BY <1>1, <1>2, <3>1, <3>2
  <2>. DEFINE z == RotateLeft(p, r)
              w == (off - z) % n
  <2>4. A2P(tr, p) = w /\ w \in Names /\ z \in Names
    <3>1. z \in Names  BY <1>3
    <3>2. off - z \in Int  BY <1>1, <1>2, <3>1
    <3>. QED  BY <1>4, <1>5, <3>1, <3>2 DEF A2P, n, off, r
  <2>5. P2A(tr, w) = RotateRight((off - w) % n, r)
    BY <1>5 DEF P2A, n, off, r
  <2>6. (off - w) % n = z
    <3>. HIDE DEF z
    <3>1. CASE z <= off
      <4>1. off - z \in 0 .. n - 1  BY <1>1, <1>2, <2>4, <3>1
      <4>2. w = off - z  BY <1>1, <4>1, Remainder
      <4>3. off - w = z  BY <1>1, <1>2, <2>4, <4>2
      <4>. QED  BY <1>1, <2>4, <4>3, Remainder
    <3>2. CASE z > off
      <4>1. off - z \in -n .. -1  BY <1>1, <1>2, <2>4, <3>2
      <4>2. w = off - z + n  BY <1>1, <4>1, Remainder
      <4>3. off - w = z - n /\ z - n \in -n .. -1 /\ z - n + n = z  BY <1>1, <1>2, <2>4, <4>2
      <4>4. (z - n) % n = z - n + n  BY <1>1, <4>3, Remainder
      <4>. QED  BY <4>3, <4>4
    <3>. QED  BY <1>1, <1>2, <2>4, <3>1, <3>2
  <2>7. RotateRight(z, r) = p  BY <1>3
  <2>. HIDE DEF y, z, w
  <2>. QED  BY <1>3, <2>1, <2>2, <2>3, <2>4, <2>5, <2>6, <2>7
<1>6. CASE ~tr.rev
  <2>. DEFINE y == (p - off) % n
  <2>1. P2A(tr, p) = RotateRight(y, r) /\ y \in Names
    BY <1>1, <1>2, <1>4, <1>6 DEF P2A, n, off, r
  <2>2. A2P(tr, P2A(tr, p)) = (y + off) % n
    BY <1>3, <1>6, <2>1 DEF A2P, n, off, r
  <2>3. (y + off) % n = p
    <3>1. CASE p >= off
      <4>1. p - off \in 0 .. n - 1  BY <1>1, <1>2, <3>1
      <4>2. y = p - off  BY <1>1, <4>1, Remainder
      <4>3. y + off = p  BY <1>1, <1>2, <4>2
      <4>. QED  BY <1>1, <4>3, Remainder
    <3>2. CASE p < off
      <4>1. p - off \in -n .. -1  BY <1>1, <1>2, <3>2
      <4>2. y = p - off + n  BY <1>1, <4>1, Remainder
      <4>3. y + off = p + n /\ p + n \in n .. 2 * n - 1 /\ p + n - n = p  BY <1>1, <1>2, <4>2
      <4>4. (p + n) % n = p + n - n  BY <1>1, <4>3, Remainder
      <4>. QED  BY <4>3, <4>4
    <3>. QED  BY <1>1, <1>2, <3>1, <3>2
  <2>. DEFINE z == RotateLeft(p, r)
              w == (z + off) % n
  <2>4. A2P(tr, p) = w /\ w \in Names /\ z \in Names
    <3>1. z \in Names  BY <1>3
    <3>2. z + off \in Int  BY <1>1, <1>2, <3>1
    <3>. QED  BY <1>4, <1>6, <3>1, <3>2 DEF A2P, n, off, r
  <2>5. P2A(tr, w) = RotateRight((w - off) % n, r)
    BY <1>6 DEF P2A, n, off, r
  <2>6. (w - off) % n = z
    <3>. HIDE DEF z
    <3>1. CASE z + off < n
      <4>1. z + off \in 0 .. n - 1  BY <1>1, <1>2, <2>4, <3>1
      <4>2. w = z + off  BY <1>1, <4>1, Remainder
      <4>3. w - off = z  BY <1>1, <1>2, <2>4, <4>2
      <4>. QED  BY <1>1, <2>4, <4>3, Remainder
    <3>2. CASE z + off >= n
      <4>1. z + off \in n .. 2 * n - 1  BY <1>1, <1>2, <2>4, <3>2
      <4>2. w = z + off - n
        <5>. DEFINE v == z + off
        <5>1. v \in n .. 2 * n - 1 /\ v \in Int  BY <4>1
        <5>2. w = v % n /\ v = z + off  OBVIOUS
        <5>. HIDE DEF v, w
        <5>3. w = v - n  BY <1>1, <5>1, <5>2, Remainder
        <5>. QED  BY <1>1, <1>2, <2>4, <5>2, <5>3
      <4>3. w - off = z - n /\ z - n \in -n .. -1 /\ z - n + n = z  BY <1>1, <1>2, <2>4, <4>2
      <4>4. (z - n) % n = z - n + n  BY <1>1, <4>3, Remainder
      <4>. QED  BY <4>3, <4>4
    <3>. QED  BY <1>1, <1>2, <2>4, <3>1, <3>2
  <2>7. RotateRight(z, r) = p  BY <1>3
  <2>. HIDE DEF y, z, w
  <2>. QED  BY <1>3, <2>1, <2>2, <2>3, <2>4, <2>5, <2>6, <2>7
<1>. QED  BY <1>2, <1>5, <1>6

\* No two slots share a name.
LEMMA NameOnce ==
    ASSUME NEW tr \in Translator, NEW p \in Names, NEW q \in Names, P2A(tr, p) = P2A(tr, q)
    PROVE  p = q
BY NamesAndSlots

\* A flip takes the names along.
LEMMA FlipNames ==
    ASSUME NEW tr \in Translator, NEW cap \in 0 .. NameCount, NEW p \in 0 .. cap - 1
    PROVE  /\ Reversed(tr, cap) \in Translator
           /\ P2A(Reversed(tr, cap), cap - 1 - p) = P2A(tr, p)
<1>. DEFINE n == NameCount
            off == tr.off
            new == (cap - 1 - off) % n
            t == Reversed(tr, cap)
<1>1. n \in Nat /\ n > 0 /\ Names = 0 .. n - 1 /\ cap \in 0 .. n /\ cap >= 1
  BY NamesAre DEF Names
<1>2. off \in Names /\ tr.rot \in 0 .. Width /\ tr.rev \in BOOLEAN  BY DEF Translator
<1>. HIDE DEF n
<1>3. cap - 1 - off \in Int /\ new \in Names  BY <1>1, <1>2, Remainder
<1>4. t \in Translator /\ t.off = new /\ t.rot = tr.rot /\ t.rev = ~tr.rev
  BY <1>2, <1>3 DEF Reversed, Translator, n
<1>. HIDE DEF off, t
<1>5. (cap - 1 <= off - 1 /\ new = cap - 1 - off + n) \/ (off <= cap - 1 /\ new = cap - 1 - off)
  <2>1. CASE off <= cap - 1
    <3>1. cap - 1 - off \in 0 .. n - 1  BY <1>1, <1>2, <2>1
    <3>. QED  BY <1>1, <2>1, <3>1, Remainder
  <2>2. CASE off > cap - 1
    <3>1. cap - 1 - off \in -n .. -1 /\ cap - 1 <= off - 1  BY <1>1, <1>2, <2>2
    <3>. QED  BY <1>1, <2>2, <3>1, Remainder
  <2>. QED  BY <1>1, <1>2, <2>1, <2>2
<1>. HIDE DEF new
<1>. DEFINE q == cap - 1 - p
<1>6. q \in 0 .. cap - 1 /\ p \in Nat /\ cap \in Nat  BY <1>1
<1>7. ((new - q) % n) = ((p - off) % n) /\ ((q - new) % n) = ((off - p) % n)
  <2>1. CASE new = cap - 1 - off
    <3>1. new - q = p - off /\ q - new = off - p  BY <1>1, <1>2, <2>1
    <3>. QED  BY <3>1
  <2>2. CASE cap - 1 <= off - 1 /\ new = cap - 1 - off + n
    <3>1. p - off \in -n .. -1 /\ new - q = p - off + n /\ new - q \in 0 .. n - 1
      BY <1>1, <1>2, <1>6, <2>2
    <3>2. off - p \in 0 .. n - 1 /\ q - new = off - p - n /\ q - new \in -n .. -1
          /\ off - p - n + n = off - p
      BY <1>1, <1>2, <1>6, <2>2
    <3>3. (p - off) % n = p - off + n /\ (new - q) % n = new - q  BY <1>1, <3>1, Remainder
    <3>4. (off - p) % n = off - p /\ (q - new) % n = q - new + n  BY <1>1, <3>2, Remainder
    <3>. QED  BY <3>1, <3>2, <3>3, <3>4
  <2>. QED  BY <1>5, <2>1, <2>2
<1>8. P2A(t, q) = RotateRight(IF ~tr.rev THEN (new - q) % n ELSE (q - new) % n, tr.rot)
  BY <1>2, <1>4 DEF P2A, n
<1>9. P2A(tr, p) = RotateRight(IF tr.rev THEN (off - p) % n ELSE (p - off) % n, tr.rot)
  BY <1>2 DEF P2A, n, off
<1>10. P2A(t, q) = P2A(tr, p)  BY <1>2, <1>7, <1>8, <1>9
<1>. QED  BY <1>4, <1>10 DEF t

-----------------------------------------------------------------------------
(* Sets of numbers.                                                        *)

\* The minimum of a set of numbers.
LEMMA LeastIs ==
    ASSUME NEW S \in SUBSET Nat, S # {}
    PROVE  Min(S) \in S /\ \A x \in S : Min(S) <= x
<1>1. \E x \in S : \A y \in S : x <= y  BY LeastNumber
<1>. QED  BY <1>1 DEF Min

\* The maximum of a bounded set of numbers.
LEMMA MostIs ==
    ASSUME NEW n \in Nat, NEW S \in SUBSET (0 .. n), S # {}
    PROVE  Max(S) \in S /\ \A x \in S : x <= Max(S)
<1>. DEFINE T == {t \in Nat : \E x \in S : x + t = n}
<1>1. T \in SUBSET Nat /\ T # {}
  <2>1. PICK x \in S : TRUE  OBVIOUS
  <2>2. n - x \in Nat /\ x + (n - x) = n  BY <2>1
  <2>. QED  BY <2>2
<1>2. PICK t \in T : \A m \in T : t <= m
  <2>. HIDE DEF T
  <2>. QED  BY <1>1, LeastNumber
<1>3. PICK x \in S : x + t = n  OBVIOUS
<1>4. \A y \in S : x >= y
  <2>1. ASSUME NEW y \in S PROVE x >= y
    <3>1. n - y \in Nat /\ y + (n - y) = n /\ y \in Int /\ x \in Int /\ t \in Int
      OBVIOUS
    <3>2. t <= n - y  BY <1>2, <3>1
    <3>. QED  BY <1>3, <3>1, <3>2
  <2>. QED  BY <2>1
<1>5. Max(S) \in S /\ \A y \in S : Max(S) >= y  BY <1>3, <1>4 DEF Max
<1>6. \A y \in S : y \in Int  OBVIOUS
<1>. QED  BY <1>5, <1>6

\* where there is a call, the number m falls
Falls(D, n, m, go, next) ==
    /\ n \in Nat /\ m \in [D -> 0 .. n]
    /\ \A x \in D : go[x] => next[x] \in D /\ m[next[x]] < m[x]

\* f calls itself last
LastCall(f, D, go, next, out) == f = [x \in D |-> IF go[x] THEN f[next[x]] ELSE out[x]]

\* A function that calls itself last, with a number that falls, is defined.
LEMMA TailRecursion ==
    ASSUME NEW D, NEW n, NEW m, NEW go, NEW next, NEW out, Falls(D, n, m, go, next)
    PROVE  \E f : LastCall(f, D, go, next, out)
<1>. USE DEF Falls
<1>. DEFINE is(f, x) == f[x] = IF go[x] THEN f[next[x]] ELSE out[x]
            K == {k \in Nat : \E f : \A x \in D : m[x] <= k => is(f, x)}
<1>0. \A x \in D : m[x] \in Nat /\ m[x] <= n  OBVIOUS
<1>1. 0 \in K
  <2>. DEFINE f == [x \in D |-> out[x]]
  <2>1. ASSUME NEW x \in D, m[x] <= 0 PROVE is(f, x)
    <3>1. ~go[x]
      <4>1. SUFFICES ASSUME go[x] PROVE FALSE  OBVIOUS
      <4>2. m[next[x]] \in Nat /\ m[next[x]] < m[x]  BY <1>0, <4>1
      <4>. QED  BY <1>0, <2>1, <4>2
    <3>. QED  BY <3>1
  <2>. QED  BY <2>1
<1>2. ASSUME NEW k \in 0 + 1 .. n, k - 1 \in K PROVE k \in K
  <2>1. PICK g : \A x \in D : m[x] <= k - 1 => is(g, x)  BY <1>2
  <2>. DEFINE f == [x \in D |-> IF m[x] <= k - 1 THEN g[x]
                                ELSE IF go[x] THEN g[next[x]] ELSE out[x]]
  <2>2. ASSUME NEW x \in D, m[x] <= k PROVE is(f, x)
    <3>1. go[x] => next[x] \in D /\ m[next[x]] <= k - 1
      <4>1. SUFFICES ASSUME go[x] PROVE next[x] \in D /\ m[next[x]] <= k - 1  OBVIOUS
      <4>2. next[x] \in D /\ m[next[x]] < m[x]  BY <4>1
      <4>3. m[next[x]] \in Nat /\ m[x] \in Nat  BY <1>0, <4>2
      <4>. QED  BY <2>2, <4>2, <4>3
    <3>2. go[x] => f[next[x]] = g[next[x]]  BY <3>1
    <3>3. CASE m[x] <= k - 1
      <4>1. f[x] = g[x]  BY <3>3
      <4>. QED  BY <2>1, <3>2, <3>3, <4>1
    <3>4. CASE ~(m[x] <= k - 1)
      <4>1. f[x] = IF go[x] THEN g[next[x]] ELSE out[x]  BY <3>4
      <4>. QED  BY <3>2, <4>1
    <3>. QED  BY <3>3, <3>4
  <2>3. k \in Nat  OBVIOUS
  <2>. HIDE DEF f
  <2>. QED  BY <2>2, <2>3
<1>3. n \in K
  <2>. HIDE DEF K
  <2>1. 0 .. n \subseteq K  BY <1>1, <1>2, Upwards
  <2>. QED  BY <2>1
<1>4. PICK f : \A x \in D : m[x] <= n => is(f, x)  BY <1>3
<1>. DEFINE h == [x \in D |-> f[x]]
<1>5. ASSUME NEW x \in D PROVE h[x] = IF go[x] THEN h[next[x]] ELSE out[x]
  <2>1. f[x] = IF go[x] THEN f[next[x]] ELSE out[x]  BY <1>0, <1>4
  <2>2. go[x] => h[next[x]] = f[next[x]]  OBVIOUS
  <2>. QED  BY <2>1, <2>2
<1>6. h = [x \in D |-> h[x]]  OBVIOUS
<1>. HIDE DEF h
<1>. QED  BY <1>5, <1>6 DEF LastCall

-----------------------------------------------------------------------------
(* Blocks.                                                                 *)

Whole(b) ==
    b = [cap |-> b.cap, data |-> b.data, tr |-> b.tr, sum |-> b.sum, last |-> b.last,
         streak |-> b.streak, epoch |-> b.epoch, event |-> b.event]

\* position order is key order, or its reverse
KeyOrder(b) == \A c, d \in b.data : c # d => (c[1] < d[1] <=> Precedes(b, c[2], d[2]))

Good(b) ==
    /\ Whole(b)
    /\ b.cap \in 0 .. NameCount
    /\ b.data \subseteq (0 .. b.cap - 1) \X Nat
    /\ KeyOrder(b)
    /\ b.tr \in Translator
    /\ b.last \in 0 .. b.cap - 1 \/ (b.cap = 0 /\ b.last = 0 /\ b.streak = 0)
    /\ b.streak \in Nat /\ b.epoch \in Nat

\* The types of a sound block's fields.
LEMMA GoodTypes ==
    ASSUME NEW b, Good(b)
    PROVE  /\ b.cap \in Nat /\ b.cap <= NameCount
           /\ b.last \in Nat /\ b.streak \in Nat /\ b.epoch \in Nat
           /\ b.tr \in Translator /\ b.tr.rev \in BOOLEAN
           /\ 0 .. b.cap - 1 \subseteq Names
<1>1. b.cap \in Nat /\ b.cap <= NameCount /\ NameCount \in Nat  BY NamesAre DEF Good
<1>. QED  BY <1>1 DEF Good, Names, Translator

\* Precedes is a strict order of numbers.
LEMMA PrecedesIs ==
    ASSUME NEW b, NEW x \in Nat, NEW y \in Nat
    PROVE  /\ ~Precedes(b, x, x)
           /\ x # y => (Precedes(b, x, y) <=> ~Precedes(b, y, x))
           /\ \A z \in Nat : Precedes(b, x, y) /\ Precedes(b, y, z) => Precedes(b, x, z)
<1>1. CASE b.tr.rev  BY <1>1 DEF Precedes
<1>2. CASE ~b.tr.rev  BY <1>2 DEF Precedes
<1>. QED  BY <1>1, <1>2

\* A stored element: its slot, its key, and that each determines the other.
LEMMA PairIs ==
    ASSUME NEW b, Good(b), NEW c \in b.data
    PROVE  /\ c = <<c[1], c[2]>> /\ c[1] \in 0 .. b.cap - 1 /\ c[1] \in Nat /\ c[2] \in Nat
           /\ c[1] \in Live(b) /\ c[2] \in KeysOf(b)
           /\ KeyAt(b, c[1]) = c[2] /\ PosOf(b, c[2]) = c[1]
           /\ \A d \in b.data : c[1] = d[1] \/ c[2] = d[2] => c = d
<1>1. \A d \in b.data : d = <<d[1], d[2]>> /\ d[1] \in 0 .. b.cap - 1 /\ d[1] \in Nat
                        /\ d[2] \in Nat
  <2>1. b.cap \in Nat  BY GoodTypes
  <2>. QED  BY <2>1 DEF Good
<1>2. ASSUME NEW d \in b.data, c[1] = d[1] \/ c[2] = d[2] PROVE c = d
  <2>1. SUFFICES ASSUME c # d PROVE FALSE  OBVIOUS
  <2>2. /\ c[1] < d[1] <=> Precedes(b, c[2], d[2])
        /\ d[1] < c[1] <=> Precedes(b, d[2], c[2])
    BY <2>1 DEF Good, KeyOrder
  <2>3. CASE c[1] = d[1]
    <3>1. ~Precedes(b, c[2], d[2]) /\ ~Precedes(b, d[2], c[2])  BY <1>1, <2>2, <2>3
    <3>2. c[2] = d[2]  BY <1>1, <3>1, PrecedesIs
    <3>. QED  BY <1>1, <2>1, <2>3, <3>2
  <2>4. CASE c[2] = d[2]
    <3>1. ~Precedes(b, c[2], d[2]) /\ ~Precedes(b, d[2], c[2])  BY <1>1, <2>4, PrecedesIs
    <3>2. c[1] = d[1]  BY <1>1, <2>2, <3>1
    <3>. QED  BY <1>1, <2>1, <2>4, <3>2
  <2>. QED  BY <1>2, <2>3, <2>4
<1>3. KeyAt(b, c[1]) = c[2] /\ PosOf(b, c[2]) = c[1]  BY <1>2 DEF KeyAt, PosOf
<1>. QED  BY <1>1, <1>2, <1>3 DEF Live, KeysOf

\* A live slot holds the one element that is there.
LEMMA SlotIs ==
    ASSUME NEW b, Good(b), NEW p \in Live(b)
    PROVE  /\ p \in 0 .. b.cap - 1 /\ p \in Nat /\ KeyAt(b, p) \in Nat
           /\ <<p, KeyAt(b, p)>> \in b.data /\ KeyAt(b, p) \in KeysOf(b)
           /\ PosOf(b, KeyAt(b, p)) = p
<1>1. PICK c \in b.data : p = c[1]  BY DEF Live
<1>. QED  BY <1>1, PairIs

\* A key that is there is at one live slot.
LEMMA KeyIs ==
    ASSUME NEW b, Good(b), NEW k \in KeysOf(b)
    PROVE  /\ PosOf(b, k) \in Live(b) /\ k \in Nat /\ KeyAt(b, PosOf(b, k)) = k
           /\ PosOf(b, k) \in 0 .. b.cap - 1 /\ PosOf(b, k) \in Nat
           /\ <<PosOf(b, k), k>> \in b.data
<1>1. PICK c \in b.data : k = c[2]  BY DEF KeysOf
<1>. QED  BY <1>1, PairIs

\* The live slots are in key order, backwards in a reversed block.
LEMMA SlotOrder ==
    ASSUME NEW b, Good(b), NEW p \in Live(b), NEW q \in Live(b)
    PROVE  /\ p < q <=> Precedes(b, KeyAt(b, p), KeyAt(b, q))
           /\ KeyAt(b, p) = KeyAt(b, q) => p = q
<1>1. PICK c \in b.data : p = c[1]  BY DEF Live
<1>2. PICK d \in b.data : q = d[1]  BY DEF Live
<1>3. KeyAt(b, p) = c[2] /\ KeyAt(b, q) = d[2] /\ p \in Nat /\ q \in Nat /\ c[2] \in Nat
  BY <1>1, <1>2, PairIs
<1>4. CASE c # d
  <2>1. c[1] < d[1] <=> Precedes(b, c[2], d[2])  BY <1>4 DEF Good, KeyOrder
  <2>2. c[2] # d[2]  BY <1>4, PairIs
  <2>. QED  BY <1>1, <1>2, <1>3, <2>1, <2>2
<1>5. CASE c = d
  <2>1. p = q /\ ~(p < q)  BY <1>1, <1>2, <1>3, <1>5
  <2>. QED  BY <1>3, <1>5, <2>1, PrecedesIs
<1>. QED  BY <1>4, <1>5

\* The live slots are finitely many and no more than the capacity.
LEMMA LiveIs ==
    ASSUME NEW b, Good(b)
    PROVE  /\ Live(b) \subseteq 0 .. b.cap - 1 /\ Live(b) \subseteq Nat
           /\ IsFiniteSet(Live(b)) /\ Count(b) = Cardinality(Live(b)) /\ Count(b) \in Nat
           /\ IsFiniteSet(b.data)
           /\ Count(b) <= b.cap
           /\ Clear(b) = {} => Count(b) = b.cap
<1>. DEFINE f == [p \in Live(b) |-> <<p, KeyAt(b, p)>>]
<1>1. Live(b) \subseteq 0 .. b.cap - 1 /\ Live(b) \subseteq Nat  BY SlotIs
<1>2. b.cap \in Nat  BY GoodTypes
<1>3. /\ IsFiniteSet(0 .. b.cap - 1) /\ Cardinality(0 .. b.cap - 1) = b.cap
  <2>. DEFINE n == b.cap
  <2>1. n \in Nat  BY <1>2
  <2>. HIDE DEF n
  <2>2. 0 \in Int /\ n - 1 \in Int /\ (0 > n - 1 => n = 0) /\ (n - 1) - 0 + 1 = n  BY <2>1
  <2>3. IsFiniteSet(0 .. n - 1) /\ Cardinality(0 .. n - 1) = n  BY <2>2, FS_Interval
  <2>. QED  BY <2>3 DEF n
<1>4. IsFiniteSet(Live(b)) /\ Cardinality(Live(b)) <= b.cap  BY <1>1, <1>3, FS_Subset
<1>5. f \in Bijection(Live(b), b.data)
  <2>1. f \in [Live(b) -> b.data]  BY SlotIs
  <2>2. ASSUME NEW p \in Live(b), NEW q \in Live(b), f[p] = f[q] PROVE p = q  BY <2>2
  <2>3. ASSUME NEW c \in b.data PROVE \E p \in Live(b) : f[p] = c
    <3>1. c[1] \in Live(b) /\ f[c[1]] = c  BY PairIs
    <3>. QED  BY <3>1
  <2>. HIDE DEF f
  <2>. QED  BY <2>1, <2>2, <2>3 DEF Bijection, Injection, Surjection, IsInjective
<1>6. ExistsBijection(Live(b), b.data)  BY <1>5 DEF ExistsBijection
<1>7. Cardinality(b.data) = Cardinality(Live(b)) /\ IsFiniteSet(b.data)
  BY <1>4, <1>6, FS_Bijection
<1>8. Cardinality(Live(b)) \in Nat  BY <1>4, FS_CardinalityType
<1>9. Clear(b) = {} => Live(b) = 0 .. b.cap - 1  BY <1>1 DEF Clear
<1>. QED  BY <1>1, <1>3, <1>4, <1>7, <1>8, <1>9 DEF Count

-----------------------------------------------------------------------------
(* The turn.                                                               *)

\* where the turn takes the slot p: to its double, but in the band one further,
\* or in a reversed block one less
Doubled(tr, p) ==
    IF tr.rev THEN IF p <= tr.off THEN 2 * p ELSE 2 * p - 1
    ELSE IF p < tr.off /\ tr.off - p <= Midpoint THEN 2 * p + 1 ELSE 2 * p

\* A turn of a block that can turn moves no slot down and keeps its name.
LEMMA TurnIs ==
    ASSUME NEW b, b.tr \in Translator, b.cap \in Nat, CanTurn(b), NEW p \in 0 .. b.cap - 1
    PROVE  /\ Rotate(b.tr) \in Translator
           /\ TurnedSpot(b, p) = Doubled(b.tr, p)
           /\ Doubled(b.tr, p) \in 0 .. 2 * b.cap - 1
           /\ p <= Doubled(b.tr, p)
           /\ P2A(Rotate(b.tr), Doubled(b.tr, p)) = P2A(b.tr, p)
<1>. DEFINE n == NameCount
            M == Midpoint
            tr == b.tr
            off == tr.off
            r == tr.rot
            y == (IF tr.rev THEN off - p ELSE p - off) % n
            a == P2A(tr, p)
            off2 == (2 * off) % n
            d == Doubled(tr, p)
<1>0. M \in Nat /\ n \in Nat /\ n = 2 * M /\ n > 0 /\ Names = 0 .. n - 1 /\ Width \in Nat
  BY NamesAre DEF Names
<1>1. /\ off \in 0 .. n - 1 /\ r \in 0 .. Width - 1 /\ tr.rev \in BOOLEAN
      /\ p \in Nat /\ p < M /\ (tr.rev => off < M) /\ p < b.cap
  BY <1>0 DEF CanTurn, Translator
<1>3. off2 \in 0 .. n - 1 /\ off2 = IF off < M THEN 2 * off ELSE 2 * off - n
  <2>. HIDE DEF n, M, off
  <2>1. 2 * off \in Int /\ (off < M => 2 * off \in 0 .. n - 1)
        /\ (~(off < M) => 2 * off \in n .. 2 * n - 1)
    BY <1>0, <1>1
  <2>. QED  BY <1>0, <2>1, Remainder
<1>4. /\ Rotate(tr) \in Translator
      /\ Rotate(tr).rot = r + 1 /\ Rotate(tr).off = off2 /\ Rotate(tr).rev = tr.rev
  <2>1. r + 1 \in 0 .. Width  BY <1>0, <1>1
  <2>. HIDE DEF n
  <2>. QED  BY <1>0, <1>1, <1>3, <2>1 DEF Rotate, Translator, n
<1>5. y \in 0 .. n - 1 /\ a = RotateRight(y, r)
      /\ y = IF tr.rev THEN (IF p <= off THEN off - p ELSE off - p + n)
             ELSE (IF off <= p THEN p - off ELSE p - off + n)
  <2>1. a = RotateRight(y, r)  BY DEF P2A
  <2>. DEFINE z == IF tr.rev THEN off - p ELSE p - off
  <2>. HIDE DEF n, M, off
  <2>2. z \in Int /\ z >= -n /\ z <= n - 1 /\ (z >= 0 => z \in 0 .. n - 1)
        /\ (~(z >= 0) => z \in -n .. -1)
    BY <1>0, <1>1
  <2>3. z % n \in 0 .. n - 1 /\ z % n = IF z >= 0 THEN z ELSE z + n
    <3>. HIDE DEF z
    <3>. QED  BY <1>0, <2>2, Remainder
  <2>4. z >= 0 <=> IF tr.rev THEN p <= off ELSE off <= p  BY <1>0, <1>1
  <2>. QED  BY <2>1, <2>3, <2>4
<1>6. RotateLeft(a, r + 1) = Doubly(y)
  <2>. HIDE DEF n, y, a
  <2>. QED  BY <1>0, <1>1, <1>5, RotateOn
<1>7. A2P(Rotate(tr), a) = (IF tr.rev THEN off2 - Doubly(y) ELSE Doubly(y) + off2) % n
  BY <1>4, <1>6 DEF A2P
<1>8. d \in 0 .. n - 1 /\ d <= 2 * b.cap - 1 /\ p <= d
      /\ d = IF tr.rev THEN IF p <= off THEN 2 * p ELSE 2 * p - 1
             ELSE IF p < off /\ off - p <= M THEN 2 * p + 1 ELSE 2 * p
  <2>1. d = IF tr.rev THEN IF p <= off THEN 2 * p ELSE 2 * p - 1
             ELSE IF p < off /\ off - p <= M THEN 2 * p + 1 ELSE 2 * p
    BY DEF Doubled
  <2>. HIDE DEF n, M, off, d
  <2>. QED  BY <1>0, <1>1, <2>1
<1>9. A2P(Rotate(tr), a) = d
  <2>. DEFINE z == IF tr.rev THEN off2 - Doubly(y) ELSE Doubly(y) + off2
  <2>1. Doubly(y) = IF y < M THEN 2 * y ELSE 2 * y - n + 1  BY DEF Doubly
  <2>. HIDE DEF n, M, off, d, y, off2
  <2>2. z \in Int /\ (z = d \/ z = d + n \/ z = d - n)
    <3>1. CASE tr.rev /\ p <= off
      <4>1. y = off - p /\ off2 = 2 * off /\ d = 2 * p /\ z = off2 - Doubly(y) /\ y < M
        BY <1>0, <1>1, <1>3, <1>5, <1>8, <3>1
      <4>2. z = off2 - 2 * y  BY <2>1, <4>1
      <4>. HIDE DEF z
      <4>. QED  BY <1>0, <1>1, <4>1, <4>2
    <3>2. CASE tr.rev /\ ~(p <= off)
      <4>0. y = off - p + n /\ d = 2 * p - 1 /\ z = off2 - Doubly(y)  BY <1>5, <1>8, <3>2
      <4>1. off2 = 2 * off /\ ~(y < M)
        <5>1. off2 = 2 * off  BY <1>1, <1>3, <3>2
        <5>2. ~(y < M)
          <6>. HIDE DEF z
          <6>. QED  BY <1>0, <1>1, <3>2, <4>0
        <5>. QED  BY <5>1, <5>2
      <4>2. z = off2 - (2 * y - n + 1)  BY <2>1, <4>0, <4>1
      <4>. HIDE DEF z
      <4>. QED  BY <1>0, <1>1, <4>0, <4>1, <4>2
    <3>3. CASE ~tr.rev /\ off <= p
      <4>1. y = p - off /\ off2 = 2 * off /\ d = 2 * p /\ z = Doubly(y) + off2 /\ y < M
        BY <1>0, <1>1, <1>3, <1>5, <1>8, <3>3
      <4>2. z = 2 * y + off2  BY <2>1, <4>1
      <4>. HIDE DEF z
      <4>. QED  BY <1>0, <1>1, <4>1, <4>2
    <3>4. CASE ~tr.rev /\ ~(off <= p)
      <4>1. /\ y = p - off + n /\ z = Doubly(y) + off2 /\ (y < M <=> off - p > M)
            /\ d = IF off - p <= M THEN 2 * p + 1 ELSE 2 * p
        BY <1>0, <1>1, <1>3, <1>5, <1>8, <3>4
      <4>. HIDE DEF z
      <4>2. CASE y < M
        <5>1. z = 2 * y + off2 /\ off2 = 2 * off - n /\ d = 2 * p
          BY <1>0, <1>1, <1>3, <2>1, <4>1, <4>2
        <5>. QED  BY <1>0, <1>1, <4>1, <5>1
      <4>3. CASE ~(y < M)
        <5>1. z = 2 * y - n + 1 + off2  BY <2>1, <4>1, <4>3
        <5>2. d = 2 * p + 1  BY <1>0, <1>1, <4>1, <4>3
        <5>. QED  BY <1>0, <1>1, <1>3, <4>1, <5>1, <5>2
      <4>. QED  BY <4>2, <4>3
    <3>. QED  BY <3>1, <3>2, <3>3, <3>4
  <2>. HIDE DEF z
  <2>3. z = d => z \in 0 .. n - 1  BY <1>8
  <2>4. z = d + n => z \in n .. 2 * n - 1 /\ z - n = d  BY <1>0, <1>8
  <2>5. z = d - n => z \in -n .. -1 /\ z + n = d  BY <1>0, <1>8
  <2>6. z % n = d  BY <1>0, <2>2, <2>3, <2>4, <2>5, Remainder
  <2>. QED  BY <1>7, <2>6 DEF z
<1>10. TurnedSpot(b, p) = d  BY <1>9 DEF TurnedSpot
<1>11. p \in Names /\ d \in Names /\ d \in 0 .. 2 * b.cap - 1
  <2>. HIDE DEF n, M, d
  <2>. QED  BY <1>0, <1>1, <1>8
<1>12. a \in Names  BY <1>11, NamesAndSlots
<1>13. P2A(Rotate(tr), d) = a
  <2>. DEFINE t == Rotate(tr)
  <2>. HIDE DEF d, a, t
  <2>. QED  BY <1>4, <1>9, <1>12, NamesAndSlots DEF t
<1>. QED  BY <1>4, <1>8, <1>10, <1>11, <1>13

\* Doubling keeps the slots in order, and strictly above their places.
LEMMA DoubledOrder ==
    ASSUME NEW tr \in Translator, NEW p \in Nat, NEW q \in Nat, p < q
    PROVE  Doubled(tr, p) < Doubled(tr, q)
<1>1. tr.off \in Nat /\ tr.rev \in BOOLEAN /\ Midpoint \in Nat
  <2>1. NameCount \in Nat /\ Midpoint \in Nat  BY NamesAre
  <2>. QED  BY <2>1 DEF Translator, Names
<1>. QED  BY <1>1 DEF Doubled

\* The mask a turn sets is that of the slots it moves to.
LEMMA TurnMask ==
    ASSUME NEW b, Good(b), CanTurn(b)
    PROVE  RotateMask(b) = {Doubled(b.tr, p) : p \in Live(b)}
<1>. DEFINE cap == b.cap
            off == b.tr.off
            rev == b.tr.rev
            M == Midpoint
            band == IF rev THEN 2 * off + 1 .. 2 * cap - 1
                    ELSE IF off <= M THEN 0 .. 2 * Min({off, cap}) - 1
                    ELSE 2 * (off - M) .. 2 * cap - 1
<1>1. cap \in Nat /\ off \in Nat /\ M \in Nat /\ rev \in BOOLEAN /\ cap <= M
  <2>1. NameCount \in Nat /\ M \in Nat  BY NamesAre
  <2>. QED  BY <2>1, GoodTypes DEF Translator, Names, CanTurn
<1>2. Min({off, cap}) = IF off <= cap THEN off ELSE cap
  <2>. HIDE DEF off, cap
  <2>1. {off, cap} \in SUBSET Nat /\ {off, cap} # {}  BY <1>1
  <2>2. Min({off, cap}) \in {off, cap} /\ \A x \in {off, cap} : Min({off, cap}) <= x
    BY <2>1, LeastIs
  <2>. HIDE DEF off, cap
  <2>. QED  BY <1>1, <2>2
<1>3. ASSUME NEW p \in Live(b)
      PROVE  (IF 2 * p \notin band THEN 2 * p ELSE IF rev THEN 2 * p - 1 ELSE 2 * p + 1)
               = Doubled(b.tr, p)
  <2>1. p \in Nat /\ p < cap
    <3>1. p \in 0 .. b.cap - 1  BY SlotIs
    <3>. QED  BY <1>1, <3>1
  <2>2. 2 * p \in band <=> IF rev THEN off < p ELSE p < off /\ off - p <= M
    <3>. HIDE DEF off, cap, rev, M
    <3>1. CASE rev
      <4>1. band = 2 * off + 1 .. 2 * cap - 1  BY <3>1
      <4>. QED  BY <1>1, <2>1, <3>1, <4>1
    <3>2. CASE ~rev /\ off <= M
      <4>1. band = 0 .. 2 * (IF off <= cap THEN off ELSE cap) - 1  BY <1>2, <3>2
      <4>. HIDE DEF band
      <4>. QED  BY <1>1, <2>1, <3>2, <4>1
    <3>3. CASE ~rev /\ ~(off <= M)
      <4>1. band = 2 * (off - M) .. 2 * cap - 1  BY <3>3
      <4>. HIDE DEF band
      <4>. QED  BY <1>1, <2>1, <3>3, <4>1
    <3>. QED  BY <3>1, <3>2, <3>3
  <2>. HIDE DEF band
  <2>3. Doubled(b.tr, p) = IF rev THEN IF p <= off THEN 2 * p ELSE 2 * p - 1
                           ELSE IF p < off /\ off - p <= M THEN 2 * p + 1 ELSE 2 * p
    BY DEF Doubled
  <2>. HIDE DEF off, cap, rev, M
  <2>4. off < p <=> ~(p <= off)  BY <1>1, <2>1
  <2>. QED  BY <2>2, <2>3, <2>4
<1>4. RotateMask(b) = {IF 2 * p \notin band THEN 2 * p
                       ELSE IF rev THEN 2 * p - 1 ELSE 2 * p + 1 : p \in Live(b)}
  BY DEF RotateMask
<1>. HIDE DEF band
<1>. QED  BY <1>3, <1>4

-----------------------------------------------------------------------------
(* The search.                                                             *)

\* among the live slots from lo up to hi, those below r are k's predecessors
Splits(b, k, lo, hi, r) ==
    /\ r \in lo .. hi
    /\ \A p \in Live(b) : lo <= p /\ p < hi => (p < r <=> Precedes(b, KeyAt(b, p), k))

\* the live slots from mid up to hi, and where the window lo .. hi - 1 shrinks to
Probe(b, lo, hi) == {p \in Live(b) : ((lo + hi) \div 2) <= p /\ p < hi}
Shrunk(b, k, lo, hi) ==
    IF Probe(b, lo, hi) = {} THEN <<lo, (lo + hi) \div 2>>
    ELSE IF Precedes(b, KeyAt(b, Min(Probe(b, lo, hi))), k)
         THEN <<Min(Probe(b, lo, hi)) + 1, hi>>
         ELSE <<lo, Min(Probe(b, lo, hi))>>

\* A probe of the search narrows the window and loses no boundary in it.
LEMMA ShrunkIs ==
    ASSUME NEW b, Good(b), NEW k \in Nat, NEW lo \in 0 .. b.cap, NEW hi \in 0 .. b.cap, lo < hi
    PROVE  \E x \in lo .. hi, y \in lo .. hi :
             /\ x <= y /\ Shrunk(b, k, lo, hi) = <<x, y>> /\ y - x < hi - lo
             /\ \A r : Splits(b, k, x, y, r) => Splits(b, k, lo, hi, r)
<1>. DEFINE mid == (lo + hi) \div 2
            P == Probe(b, lo, hi)
            pre(p) == Precedes(b, KeyAt(b, p), k)
<1>0. lo \in Nat /\ hi \in Nat /\ lo >= 0 /\ b.cap \in Nat /\ hi <= b.cap
  <2>1. b.cap \in Nat  BY GoodTypes
  <2>. QED  BY <2>1
<1>1. mid \in lo .. hi - 1
  BY <1>0
<1>. HIDE DEF mid
<1>2. P = {p \in Live(b) : mid <= p /\ p < hi}  BY DEF Probe, mid
<1>3. \A p \in Live(b) : p \in Nat  BY SlotIs
<1>4. ASSUME NEW p \in Live(b), NEW q \in Live(b), p < q
      PROVE  (pre(q) => pre(p)) /\ (~pre(p) => ~pre(q))
  <2>1. KeyAt(b, p) \in Nat /\ KeyAt(b, q) \in Nat  BY SlotIs
  <2>2. Precedes(b, KeyAt(b, p), KeyAt(b, q))  BY <1>4, SlotOrder
  <2>. QED  BY <2>1, <2>2, PrecedesIs
<1>5. CASE P = {}
  <2>1. Shrunk(b, k, lo, hi) = <<lo, mid>>  BY <1>5 DEF Shrunk, mid
  <2>2. lo \in lo .. hi /\ mid \in lo .. hi /\ lo <= mid /\ mid - lo < hi - lo  BY <1>0, <1>1
  <2>3. ASSUME NEW r, Splits(b, k, lo, mid, r) PROVE Splits(b, k, lo, hi, r)
    <3>1. r \in lo .. hi  BY <1>0, <1>1, <2>3 DEF Splits
    <3>2. ASSUME NEW p \in Live(b), lo <= p, p < hi PROVE p < r <=> pre(p)
      <4>1. p < mid
        <5>1. ~(mid <= p)  BY <1>2, <1>5, <3>2
        <5>. QED  BY <1>1, <1>3, <5>1
      <4>. QED  BY <2>3, <3>2, <4>1 DEF Splits
    <3>. QED  BY <3>1, <3>2 DEF Splits
  <2>. QED  BY <2>1, <2>2, <2>3
<1>6. CASE P # {}
  <2>. DEFINE e == Min(P)
  <2>1. e \in Live(b) /\ e \in Nat /\ mid <= e /\ e < hi /\ \A p \in P : e <= p
    <3>1. P \in SUBSET Nat  BY <1>2, <1>3
    <3>2. Min(P) \in P /\ \A x \in P : Min(P) <= x  BY <1>6, <3>1, LeastIs
    <3>. QED  BY <1>2, <1>3, <3>2
  <2>2. Shrunk(b, k, lo, hi) = IF pre(e) THEN <<e + 1, hi>> ELSE <<lo, e>>
    BY <1>6 DEF Shrunk
  <2>. HIDE DEF e
  <2>3. CASE pre(e)
    <3>1. e + 1 \in lo .. hi /\ hi \in lo .. hi /\ e + 1 <= hi /\ hi - (e + 1) < hi - lo
      BY <1>0, <1>1, <2>1
    <3>2. ASSUME NEW r, Splits(b, k, e + 1, hi, r) PROVE Splits(b, k, lo, hi, r)
      <4>1. r \in lo .. hi /\ r >= e + 1 /\ r \in Nat  BY <1>0, <1>1, <2>1, <3>2 DEF Splits
      <4>2. ASSUME NEW p \in Live(b), lo <= p, p < hi PROVE p < r <=> pre(p)
        <5>1. CASE e + 1 <= p  BY <3>2, <4>2, <5>1 DEF Splits
        <5>2. CASE ~(e + 1 <= p)
          <6>1. p \in Nat  BY <1>3
          <6>2. p < r /\ (p = e \/ p < e)  BY <2>1, <4>1, <5>2, <6>1
          <6>3. pre(p)  BY <1>4, <2>1, <2>3, <6>2
          <6>. QED  BY <6>2, <6>3
        <5>. QED  BY <5>1, <5>2
      <4>. QED  BY <4>1, <4>2 DEF Splits
    <3>. QED  BY <2>2, <2>3, <3>1, <3>2
  <2>4. CASE ~pre(e)
    <3>1. lo \in lo .. hi /\ e \in lo .. hi /\ lo <= e /\ e - lo < hi - lo
      BY <1>0, <1>1, <2>1
    <3>2. ASSUME NEW r, Splits(b, k, lo, e, r) PROVE Splits(b, k, lo, hi, r)
      <4>1. r \in lo .. hi /\ r <= e /\ r \in Nat  BY <1>0, <1>1, <2>1, <3>2 DEF Splits
      <4>2. ASSUME NEW p \in Live(b), lo <= p, p < hi PROVE p < r <=> pre(p)
        <5>1. CASE p < e  BY <3>2, <4>2, <5>1 DEF Splits
        <5>2. CASE ~(p < e)
          <6>1. p \in Nat  BY <1>3
          <6>2. ~(p < r) /\ (p = e \/ e < p)  BY <2>1, <4>1, <5>2, <6>1
          <6>3. ~pre(p)  BY <1>4, <2>1, <2>4, <6>2
          <6>. QED  BY <6>2, <6>3
        <5>. QED  BY <5>1, <5>2
      <4>. QED  BY <4>1, <4>2 DEF Splits
    <3>. QED  BY <2>2, <2>4, <3>1, <3>2
  <2>. QED  BY <2>3, <2>4
<1>. QED  BY <1>5, <1>6

\* k's place: just above its predecessors, among all slots
Belongs(b, k, r) ==
    r \in 0 .. b.cap /\ \A p \in Live(b) : p < r <=> Precedes(b, KeyAt(b, p), k)

\* what a search answers
Answers(b, k, r) == IF k \in KeysOf(b) THEN r = Dup ELSE Belongs(b, k, r)

\* The search over the whole block answers the key, or its boundary.
LEMMA SearchIs ==
    ASSUME NEW b, Good(b), NEW k \in Nat
    PROVE  Answers(b, k, Search(b, k))
<1>. DEFINE D == (0 .. b.cap) \X (0 .. b.cap)
            n == b.cap
            pr(w) == {p \in Live(b) : ((w[1] + w[2]) \div 2) <= p /\ p < w[2]}
            go == [w \in D |-> ~(w[1] >= w[2])]
            next == [w \in D |-> Shrunk(b, k, w[1], w[2])]
            out == [w \in D |-> w[1]]
            m == [w \in D |-> IF w[1] < w[2] THEN w[2] - w[1] ELSE 0]
            tail(f) == LastCall(f, D, go, next, out)
            is(f) == f = [w \in D |->
               IF w[1] >= w[2] THEN w[1]
               ELSE IF pr(w) = {} THEN f[<<w[1], (w[1] + w[2]) \div 2>>]
               ELSE IF Precedes(b, KeyAt(b, Min(pr(w))), k) THEN f[<<Min(pr(w)) + 1, w[2]>>]
               ELSE f[<<w[1], Min(pr(w))>>]]
            res(f, spot, nx) == IF nx # {} /\ KeyAt(b, Min(nx)) = k THEN Dup ELSE spot
            after(f, r) == {p \in Live(b) : r <= p /\ p < n}
<1>0. n \in Nat  BY GoodTypes
<1>1. \A w \in D : w[1] \in 0 .. n /\ w[2] \in 0 .. n /\ w = <<w[1], w[2]>>
                   /\ w[1] \in Nat /\ w[2] \in Nat
  BY <1>0
<1>2. m \in [D -> 0 .. n]
  <2>1. ASSUME NEW w \in D PROVE (IF w[1] < w[2] THEN w[2] - w[1] ELSE 0) \in 0 .. n
    <3>1. w[1] \in 0 .. n /\ w[2] \in 0 .. n  BY <1>1
    <3>. QED  BY <1>0, <3>1
  <2>. QED  BY <2>1
<1>3. ASSUME NEW w \in D, go[w]
      PROVE  /\ next[w] \in D /\ m[next[w]] < m[w] /\ next[w][1] <= next[w][2]
             /\ \A r : Splits(b, k, next[w][1], next[w][2], r) => Splits(b, k, w[1], w[2], r)
             /\ next[w][2] - next[w][1] < w[2] - w[1]
  <2>0. ~(w[1] >= w[2])  BY <1>3
  <2>1. w[1] \in 0 .. n /\ w[2] \in 0 .. n /\ w[1] < w[2]
    <3>. HIDE DEF go, next, m, out, D
    <3>. QED  BY <1>1, <2>0
  <2>2. PICK x \in w[1] .. w[2], y \in w[1] .. w[2] :
             /\ x <= y /\ Shrunk(b, k, w[1], w[2]) = <<x, y>> /\ y - x < w[2] - w[1]
             /\ \A r : Splits(b, k, x, y, r) => Splits(b, k, w[1], w[2], r)
    BY <2>1, ShrunkIs
  <2>3. x \in 0 .. n /\ y \in 0 .. n /\ x <= y  BY <1>0, <2>1, <2>2
  <2>4. next[w] = <<x, y>> /\ <<x, y>> \in D  BY <2>2, <2>3
  <2>5. m[<<x, y>>] = IF x < y THEN y - x ELSE 0  BY <2>4
  <2>6. m[w] = w[2] - w[1]  BY <2>1
  <2>. HIDE DEF m, next, go, D, n
  <2>7. m[<<x, y>>] < m[w]  BY <1>0, <2>1, <2>2, <2>3, <2>5, <2>6
  <2>. QED  BY <2>2, <2>3, <2>4, <2>7
<1>4. \E f : tail(f)
  <2>. HIDE DEF m, next, go, out, D, n
  <2>1. Falls(D, n, m, go, next)  BY <1>0, <1>2, <1>3 DEF Falls
  <2>. QED  BY <2>1, TailRecursion
<1>5. ASSUME NEW f PROVE is(f) <=> tail(f)
  <2>1. ASSUME NEW w \in D
        PROVE  (IF w[1] >= w[2] THEN w[1]
               ELSE IF pr(w) = {} THEN f[<<w[1], (w[1] + w[2]) \div 2>>]
               ELSE IF Precedes(b, KeyAt(b, Min(pr(w))), k) THEN f[<<Min(pr(w)) + 1, w[2]>>]
               ELSE f[<<w[1], Min(pr(w))>>]) = IF go[w] THEN f[next[w]] ELSE out[w]
    <3>1. pr(w) = Probe(b, w[1], w[2])  BY DEF Probe
    <3>2. next[w] = Shrunk(b, k, w[1], w[2]) /\ go[w] = ~(w[1] >= w[2]) /\ out[w] = w[1]
      OBVIOUS
    <3>. HIDE DEF pr, next, go, out
    <3>. QED  BY <3>1, <3>2 DEF Shrunk
  <2>. HIDE DEF next, go, out, D, pr
  <2>. QED  BY <2>1 DEF LastCall
<1>6. \E f : is(f)
  <2>. HIDE DEF is
  <2>. QED  BY <1>4, <1>5
<1>7. PICK f : is(f) /\ Search(b, k) = res(f, f[<<0, n>>], after(f, f[<<0, n>>]))
  BY <1>6 DEF Search, SearchIn
<1>8. tail(f)  BY <1>5, <1>7
<1>. DEFINE K == {j \in Nat : \A w \in D : w[1] <= w[2] /\ w[2] - w[1] <= j
                                            => Splits(b, k, w[1], w[2], f[w])}
<1>. HIDE DEF is
<1>9. 0 \in K
  <2>1. ASSUME NEW w \in D, w[1] <= w[2], w[2] - w[1] <= 0
        PROVE  Splits(b, k, w[1], w[2], f[w])
    <3>1. w[1] \in Nat /\ w[2] \in Nat /\ w[1] = w[2]  BY <1>1, <2>1
    <3>2. w[1] >= w[2]
      <4>. HIDE DEF D
      <4>. QED  BY <3>1
    <3>6. ~go[w] /\ out[w] = w[1]  BY <3>2
    <3>. HIDE DEF go, next, out, D
    <3>3. f[w] = w[1]  BY <1>8, <3>6 DEF LastCall
    <3>4. ASSUME NEW p \in Live(b) PROVE ~(w[1] <= p /\ p < w[2])
      <4>1. p \in Nat  BY SlotIs
      <4>. QED  BY <3>1, <4>1
    <3>5. w[1] \in w[1] .. w[2]  BY <3>1
    <3>. QED  BY <3>3, <3>4, <3>5 DEF Splits
  <2>. QED  BY <2>1
<1>10. ASSUME NEW j \in 0 + 1 .. n, j - 1 \in K PROVE j \in K
  <2>1. ASSUME NEW w \in D, w[1] <= w[2], w[2] - w[1] <= j
        PROVE  Splits(b, k, w[1], w[2], f[w])
    <3>0. w[1] \in Nat /\ w[2] \in Nat  BY <1>1
    <3>1. CASE go[w]
      <4>1. f[w] = f[next[w]]
        <5>. HIDE DEF go, next, out, D
        <5>. QED  BY <1>8, <3>1 DEF LastCall
      <4>2. /\ next[w] \in D /\ next[w][1] <= next[w][2]
            /\ \A r : Splits(b, k, next[w][1], next[w][2], r) => Splits(b, k, w[1], w[2], r)
            /\ next[w][2] - next[w][1] < w[2] - w[1]
        BY <1>3, <3>1
      <4>. DEFINE v == next[w]
      <4>3. v[1] \in Nat /\ v[2] \in Nat  BY <1>1, <4>2
      <4>4. v \in D /\ v[1] <= v[2] /\ v[2] - v[1] < w[2] - w[1]  BY <4>2
      <4>5. v[2] - v[1] <= j - 1
        <5>. HIDE DEF v, D
        <5>. QED  BY <2>1, <3>0, <4>3, <4>4
      <4>6. Splits(b, k, v[1], v[2], f[v])
        <5>. HIDE DEF v, D
        <5>. QED  BY <1>10, <4>4, <4>5
      <4>. QED  BY <4>1, <4>2, <4>6
    <3>2. CASE ~go[w]
      <4>1. w[1] >= w[2]  BY <3>2
      <4>3. w[2] - w[1] <= 0  BY <2>1, <3>0, <4>1
      <4>. QED  BY <1>9, <2>1, <4>3
    <3>. QED  BY <3>1, <3>2
  <2>2. j \in Nat  OBVIOUS
  <2>. QED  BY <2>1, <2>2
<1>11. n \in K
  <2>. HIDE DEF K
  <2>1. 0 .. n \subseteq K  BY <1>0, <1>9, <1>10, Upwards
  <2>. QED  BY <1>0, <2>1
<1>. DEFINE r == f[<<0, n>>]
<1>12. Splits(b, k, 0, n, r)
  <2>1. <<0, n>> \in D /\ 0 <= n /\ n - 0 <= n  BY <1>0
  <2>. HIDE DEF D
  <2>. QED  BY <1>11, <2>1
<1>. HIDE DEF K, D
<1>13. Belongs(b, k, r)
  <2>1. \A p \in Live(b) : 0 <= p /\ p < n
    <3>1. \A p \in Live(b) : p \in 0 .. n - 1  BY SlotIs
    <3>. QED  BY <1>0, <3>1
  <2>. HIDE DEF r
  <2>. QED  BY <1>12, <2>1 DEF Splits, Belongs
<1>. DEFINE nx == after(f, r)
<1>14. Search(b, k) = IF nx # {} /\ KeyAt(b, Min(nx)) = k THEN Dup ELSE r
  BY <1>7
<1>. HIDE DEF r
<1>15. nx = {p \in Live(b) : r <= p}
  <2>1. \A p \in Live(b) : p < n
    <3>1. \A p \in Live(b) : p \in 0 .. n - 1  BY SlotIs
    <3>. QED  BY <1>0, <3>1
  <2>. QED  BY <2>1
<1>. HIDE DEF nx
<1>16. nx \in SUBSET Nat
  <2>1. \A p \in Live(b) : p \in Nat  BY SlotIs
  <2>. QED  BY <1>15, <2>1
<1>17. nx # {} => Min(nx) \in nx /\ \A x \in nx : Min(nx) <= x  BY <1>16, LeastIs
<1>18. CASE k \in KeysOf(b)
  <2>. DEFINE p == PosOf(b, k)
              e == Min(nx)
  <2>1. p \in Live(b) /\ KeyAt(b, p) = k /\ p \in Nat  BY <1>18, KeyIs
  <2>2. ~Precedes(b, k, k)  BY PrecedesIs
  <2>. HIDE DEF p
  <2>3. r \in Nat /\ ~(p < r)  BY <1>0, <1>13, <2>1, <2>2 DEF Belongs
  <2>4. p \in nx  BY <1>15, <2>1, <2>3
  <2>5. e \in nx /\ e <= p  BY <1>17, <2>4
  <2>6. e \in Live(b) /\ r <= e /\ e \in Nat  BY <1>15, <1>16, <2>5
  <2>. HIDE DEF e
  <2>7. e = p
    <3>1. SUFFICES ASSUME e < p PROVE FALSE  BY <2>1, <2>5, <2>6
    <3>2. Precedes(b, KeyAt(b, e), k)  BY <2>1, <2>6, <3>1, SlotOrder
    <3>3. e < r  BY <1>13, <2>6, <3>2 DEF Belongs
    <3>. QED  BY <2>3, <2>6, <3>3
  <2>8. nx # {} /\ KeyAt(b, Min(nx)) = k  BY <2>1, <2>4, <2>7 DEF e
  <2>. QED  BY <1>14, <1>18, <2>8 DEF Answers
<1>19. CASE k \notin KeysOf(b)
  <2>1. ~(nx # {} /\ KeyAt(b, Min(nx)) = k)
    <3>1. SUFFICES ASSUME nx # {}, KeyAt(b, Min(nx)) = k PROVE FALSE  OBVIOUS
    <3>2. Min(nx) \in Live(b)  BY <1>15, <1>17, <3>1
    <3>3. KeyAt(b, Min(nx)) \in KeysOf(b)  BY <3>2, SlotIs
    <3>. QED  BY <1>19, <3>1, <3>3
  <2>. QED  BY <1>13, <1>14, <1>19, <2>1 DEF Answers
<1>. QED  BY <1>18, <1>19

\* A slot above k's predecessors and not above the rest is k's.
LEMMA Downward ==
    ASSUME NEW b, Good(b), NEW k \in Nat, NEW p \in Live(b), NEW q \in Live(b), p <= q
    PROVE  /\ Precedes(b, KeyAt(b, q), k) => Precedes(b, KeyAt(b, p), k)
           /\ KeyAt(b, q) = k /\ p # q => Precedes(b, KeyAt(b, p), k)
           /\ KeyAt(b, p) = k => ~Precedes(b, KeyAt(b, q), k)
<1>1. p \in Nat /\ q \in Nat /\ KeyAt(b, p) \in Nat /\ KeyAt(b, q) \in Nat  BY SlotIs
<1>2. CASE p = q
  <2>1. ~Precedes(b, k, k)  BY PrecedesIs
  <2>. QED  BY <1>2, <2>1
<1>3. CASE p # q
  <2>1. p < q  BY <1>1, <1>3
  <2>2. Precedes(b, KeyAt(b, p), KeyAt(b, q))  BY <2>1, SlotOrder
  <2>3. KeyAt(b, p) # KeyAt(b, q)  BY <1>3, SlotOrder
  <2>. QED  BY <1>1, <1>3, <2>2, <2>3, PrecedesIs
<1>. QED  BY <1>2, <1>3

\* The streak's shortcut answers as the search does, or not at all.
LEMMA NearIs ==
    ASSUME NEW b, Good(b), NEW k \in Nat, b.streak > 0
    PROVE  SpotNear(b, k) = NoSpot \/ Answers(b, k, SpotNear(b, k))
<1>. DEFINE a == b.last
            pre(p) == Precedes(b, KeyAt(b, p), k)
            up == Precedes(b, KeyAt(b, a), k)
            X == {q \in Live(b) : /\ IF up THEN q > a ELSE q < a
                                  /\ pre(q) # up \/ KeyAt(b, q) = k}
            q == IF up THEN Min(X) ELSE Max(X)
            n == b.cap
<1>1. a \in 0 .. n - 1 /\ n \in Nat /\ a \in Nat
  <2>1. n \in Nat /\ a \in Nat /\ ~(b.streak = 0)  BY GoodTypes
  <2>. QED  BY <2>1 DEF Good
<1>2. SpotNear(b, k) =
        IF a \in Clear(b) THEN NoSpot
        ELSE IF KeyAt(b, a) = k THEN Dup
        ELSE IF X = {} \/ Apart(q, a) > 2 * FreeStride THEN NoSpot
        ELSE IF KeyAt(b, q) = k THEN Dup
        ELSE Boundary(b, q, up)
  BY DEF SpotNear
<1>. HIDE DEF q
<1>3. SUFFICES ASSUME a \notin Clear(b), X # {},
                      SpotNear(b, k) = IF KeyAt(b, a) = k \/ KeyAt(b, q) = k THEN Dup
                                       ELSE Boundary(b, q, up)
               PROVE  Answers(b, k, SpotNear(b, k))
  <2>. HIDE DEF X, a, up
  <2>1. CASE a \in Clear(b)  BY <1>2, <2>1
  <2>2. CASE a \notin Clear(b) /\ KeyAt(b, a) = k
    <3>1. SpotNear(b, k) = Dup  BY <1>2, <2>2
    <3>2. a \in Live(b)  BY <1>1, <2>2 DEF Clear
    <3>3. k \in KeysOf(b)  BY <2>2, <3>2, SlotIs
    <3>. QED  BY <3>1, <3>3 DEF Answers
  <2>3. CASE a \notin Clear(b) /\ ~(KeyAt(b, a) = k) /\ (X = {} \/ Apart(q, a) > 2 * FreeStride)
    BY <1>2, <2>3
  <2>4. CASE a \notin Clear(b) /\ ~(KeyAt(b, a) = k) /\ ~(X = {} \/ Apart(q, a) > 2 * FreeStride)
    BY <1>2, <1>3, <2>4
  <2>. QED  BY <2>1, <2>2, <2>3, <2>4
<1>4. a \in Live(b)  BY <1>1, <1>3 DEF Clear
<1>5. Live(b) \subseteq 0 .. n - 1 /\ Live(b) \subseteq Nat  BY LiveIs
<1>6. \A x \in Live(b) : x \in Nat /\ x < n  BY <1>1, <1>5
<1>7. X \in SUBSET (0 .. n) /\ X \in SUBSET Nat  BY <1>1, <1>6
<1>8. q \in X /\ q \in Live(b) /\ \A x \in X : IF up THEN q <= x ELSE x <= q
  <2>1. q \in X /\ \A x \in X : IF up THEN q <= x ELSE x <= q
    <3>. HIDE DEF X, up
    <3>1. Min(X) \in X /\ \A x \in X : Min(X) <= x  BY <1>3, <1>7, LeastIs
    <3>2. Max(X) \in X /\ \A x \in X : x <= Max(X)  BY <1>1, <1>3, <1>7, MostIs
    <3>. QED  BY <3>1, <3>2 DEF q
  <2>. QED  BY <2>1
<1>9. CASE KeyAt(b, a) = k \/ KeyAt(b, q) = k
  <2>1. k \in KeysOf(b)  BY <1>4, <1>8, <1>9, SlotIs
  <2>. HIDE DEF a
  <2>. QED  BY <1>3, <1>9, <2>1 DEF Answers
<1>10. CASE ~(KeyAt(b, a) = k) /\ ~(KeyAt(b, q) = k)
  <2>. DEFINE r == SpotNear(b, k)
              e == PosOf(b, k)
  <2>0. q \in Nat /\ q < n  BY <1>6, <1>8
  <2>. SUFFICES /\ Belongs(b, k, r)
                /\ \A x \in Live(b) : KeyAt(b, x) # k
    <3>1. SUFFICES ASSUME k \in KeysOf(b) PROVE FALSE  BY DEF Answers
    <3>. QED  BY <3>1, KeyIs
  <2>1. CASE up
    <3>. DEFINE T == {p \in Live(b) : p < q}
                t == Max(T)
    <3>1. r = t + 1
      <4>. HIDE DEF X, up, a
      <4>. QED  BY <1>3, <1>10, <2>1 DEF Boundary
    <3>. HIDE DEF r
    <3>2. q > a /\ ~pre(q)
      <4>. HIDE DEF q
      <4>. QED  BY <1>8, <1>10, <2>1
    <3>3. a \in T  BY <1>1, <1>4, <2>0, <3>2
    <3>4. T \in SUBSET (0 .. n) /\ T # {}  BY <1>1, <1>6, <3>3
    <3>5. t \in T /\ \A x \in T : x <= t
      <4>. HIDE DEF T
      <4>. QED  BY <1>1, <3>4, MostIs
    <3>6. t \in Live(b) /\ t < q /\ a <= t /\ t \in Nat  BY <1>6, <3>3, <3>5
    <3>. HIDE DEF t
    <3>7. pre(t)
      <4>1. CASE t = a  BY <2>1, <4>1
      <4>2. CASE t # a
        <5>1. t > a  BY <1>1, <3>6, <4>2
        <5>2. ~(q <= t)  BY <2>0, <3>6
        <5>3. t \notin X  BY <1>8, <2>1, <5>2
        <5>. QED  BY <2>1, <3>6, <5>1, <5>3
      <4>. QED  BY <4>1, <4>2
    <3>8. \A x \in Live(b) : x <= t \/ q <= x
      <4>1. ASSUME NEW x \in Live(b), ~(q <= x) PROVE x <= t
        <5>1. x < q  BY <1>6, <2>0, <4>1
        <5>. QED  BY <3>5, <5>1
      <4>. QED  BY <4>1
    <3>9. \A x \in Live(b) : (x <= t => pre(x)) /\ (q <= x => ~pre(x))
      BY <1>8, <3>2, <3>6, <3>7, Downward
    <3>10. \A x \in Live(b) : x < r <=> x <= t  BY <1>6, <3>1, <3>6
    <3>11. Belongs(b, k, r)
      <4>1. r \in 0 .. n  BY <1>1, <2>0, <3>1, <3>6
      <4>2. \A x \in Live(b) : x <= t => ~(q <= x)  BY <1>6, <2>0, <3>6
      <4>. QED  BY <3>8, <3>9, <3>10, <4>1, <4>2 DEF Belongs
    <3>12. ASSUME NEW x \in Live(b), KeyAt(b, x) = k PROVE FALSE
      <4>1. ~pre(x)  BY <3>12, PrecedesIs
      <4>2. q <= x  BY <3>8, <3>9, <4>1
      <4>3. q # x  BY <1>10, <3>12
      <4>. QED  BY <1>8, <3>2, <3>12, <4>2, <4>3, Downward
    <3>. QED  BY <3>11, <3>12
  <2>2. CASE ~up
    <3>1. r = q + 1
      <4>. HIDE DEF X, up, a
      <4>. QED  BY <1>3, <1>10, <2>2 DEF Boundary
    <3>. HIDE DEF r
    <3>2. q < a /\ pre(q)
      <4>. HIDE DEF q
      <4>1. q < a /\ (pre(q) # up)  BY <1>8, <1>10, <2>2
      <4>. DEFINE x == KeyAt(b, q)
                  y == KeyAt(b, a)
      <4>2. pre(q) \in BOOLEAN /\ up \in BOOLEAN
        <5>. HIDE DEF x, y, a
        <5>1. (x > k) \in BOOLEAN /\ (x < k) \in BOOLEAN /\ (y > k) \in BOOLEAN /\ (y < k) \in BOOLEAN
          OBVIOUS
        <5>2. pre(q) = (IF b.tr.rev THEN x > k ELSE x < k)  BY DEF Precedes, x
        <5>3. up = (IF b.tr.rev THEN y > k ELSE y < k)  BY DEF Precedes, y
        <5>. HIDE DEF pre, up
        <5>. QED  BY <5>1, <5>2, <5>3
      <4>. HIDE DEF pre, up
      <4>. QED  BY <2>2, <4>1, <4>2
    <3>3. ASSUME NEW x \in Live(b), x > q PROVE ~pre(x) /\ KeyAt(b, x) # k
      <4>0. x \in Nat  BY <1>6
      <4>1. CASE a <= x
        <5>1. ~pre(x)  BY <1>4, <2>2, <4>1, Downward
        <5>2. SUFFICES ASSUME KeyAt(b, x) = k PROVE FALSE  BY <5>1
        <5>3. a # x  BY <1>10, <5>2
        <5>4. pre(a)  BY <1>4, <4>1, <5>2, <5>3, Downward
        <5>. QED  BY <2>2, <5>4
      <4>2. CASE ~(a <= x)
        <5>1. x < a  BY <1>1, <4>0, <4>2
        <5>2. ~(x <= q)  BY <2>0, <3>3, <4>0
        <5>3. x \notin X  BY <1>8, <2>2, <5>2
        <5>. QED  BY <2>2, <5>1, <5>3
      <4>. QED  BY <4>1, <4>2
    <3>4. ASSUME NEW x \in Live(b), x <= q PROVE pre(x) /\ KeyAt(b, x) # k
      <4>1. pre(x)  BY <1>8, <3>2, <3>4, Downward
      <4>2. ~Precedes(b, k, k)  BY PrecedesIs
      <4>. QED  BY <4>1, <4>2
    <3>5. \A x \in Live(b) : (x <= q <=> x < r) /\ (x <= q \/ x > q)  BY <1>6, <2>0, <3>1
    <3>6. r \in 0 .. n  BY <1>1, <2>0, <3>1
    <3>7. Belongs(b, k, r)  BY <3>3, <3>4, <3>5, <3>6 DEF Belongs
    <3>. QED  BY <3>3, <3>4, <3>5, <3>7
  <2>. QED  BY <2>1, <2>2
<1>. QED  BY <1>9, <1>10

\* Whichever path is taken, the answer is the key's.
LEMMA SpotIs ==
    ASSUME NEW b, Good(b), NEW k \in Nat
    PROVE  Answers(b, k, Spot(b, k))
<1>. DEFINE near == IF b.streak > 0 THEN SpotNear(b, k) ELSE NoSpot
            n == b.cap
            t == Max(Live(b))
<1>0. n \in Nat /\ b.streak \in Nat  BY GoodTypes
<1>1. CASE Live(b) # {} /\ BeyondTail(b, k)
  <2>1. Live(b) \in SUBSET (0 .. n) /\ \A x \in Live(b) : x \in Nat /\ x < n
    <3>1. Live(b) \subseteq 0 .. n - 1 /\ Live(b) \subseteq Nat  BY LiveIs
    <3>. QED  BY <1>0, <3>1
  <2>2. t \in Live(b) /\ \A x \in Live(b) : x <= t  BY <1>0, <1>1, <2>1, MostIs
  <2>3. Precedes(b, KeyAt(b, t), k)  BY <1>1 DEF BeyondTail
  <2>4. Spot(b, k) = t + 1  BY <1>1 DEF Spot
  <2>. HIDE DEF t
  <2>5. t \in Nat /\ t < n  BY <2>1, <2>2
  <2>6. ASSUME NEW x \in Live(b) PROVE Precedes(b, KeyAt(b, x), k) /\ x < t + 1
    <3>1. x <= t /\ x \in Nat  BY <2>1, <2>2
    <3>2. Precedes(b, KeyAt(b, x), k)  BY <2>2, <2>3, <3>1, Downward
    <3>. QED  BY <2>5, <3>1, <3>2
  <2>7. k \notin KeysOf(b)
    <3>1. SUFFICES ASSUME k \in KeysOf(b) PROVE FALSE  OBVIOUS
    <3>2. PosOf(b, k) \in Live(b) /\ KeyAt(b, PosOf(b, k)) = k  BY <3>1, KeyIs
    <3>3. Precedes(b, k, k)  BY <2>6, <3>2
    <3>. QED  BY <3>3, PrecedesIs
  <2>8. t + 1 \in 0 .. n  BY <1>0, <2>5
  <2>. QED  BY <2>4, <2>6, <2>7, <2>8 DEF Answers, Belongs
<1>2. CASE ~(Live(b) # {} /\ BeyondTail(b, k))
  <2>1. Spot(b, k) = IF near # NoSpot THEN near ELSE Search(b, k)  BY <1>2 DEF Spot
  <2>2. near = NoSpot \/ Answers(b, k, near)  BY <1>0, NearIs
  <2>. HIDE DEF near
  <2>. QED  BY <2>1, <2>2, SearchIs
<1>. QED  BY <1>1, <1>2

-----------------------------------------------------------------------------
(* What a rung of the ladder does.                                         *)

\* the elements of b are in c, m[p] is where the slot p went, and none passed another
Moved(b, c, m) ==
    /\ Whole(c) /\ c.cap \in b.cap .. NameCount /\ c.streak = b.streak
    /\ c.data = {<<m[x[1]], x[2]>> : x \in b.data}
    /\ \A p \in Live(b) : m[p] \in 0 .. c.cap - 1
    /\ \A p, q \in Live(b) : p < q => m[p] < m[q]

\* p lies in the slide s
Between(p, s) == p \in s[1] .. s[2] \union s[2] .. s[1]

\* the pairs are the elements that moved, each once, and no pair leads to where
\* a later one starts
Unravelled(b, m, pairs, cap) ==
    /\ pairs \in Seq(Live(b) \X (0 .. cap - 1))
    /\ \A i \in DOMAIN pairs : pairs[i][2] = m[pairs[i][1]]
    /\ \A i, j \in DOMAIN pairs : pairs[i][1] = pairs[j][1] => i = j
    /\ \A i, j \in DOMAIN pairs : pairs[j][1] = pairs[i][2] => j < i
    /\ \A p \in Live(b) : m[p] # p => \E i \in DOMAIN pairs : pairs[i][1] = p

\* the event tells where the elements went
Told(b, m, event, cap) ==
    /\ event = Event(b.tr, event.pairs, event.spans)
    /\ Unravelled(b, m, event.pairs, cap)
    /\ \A p \in Live(b) :
          m[p] # p => /\ \E s \in event.spans : Between(p, s)
                      /\ \E s \in event.spans : Between(m[p], s)

\* a slot is open where `spot` was
Opens(b, spot, o, m) ==
    /\ Moved(b, o.b, m) /\ o.b.tr = b.tr /\ o.b.epoch = b.epoch
    /\ o.at \in 0 .. o.b.cap - 1
    /\ \A p \in Live(b) : IF p < spot THEN m[p] < o.at ELSE o.at < m[p]
    /\ Told(b, m, o.b.event, o.b.cap)

\* Elements moved by a one-to-one map of the live slots keep their keys.
LEMMA MovedIs ==
    ASSUME NEW b, Good(b), NEW c, NEW m, Moved(b, c, m)
    PROVE  /\ KeysOf(c) = KeysOf(b)
           /\ Live(c) = {m[p] : p \in Live(b)}
           /\ \A k \in KeysOf(b) : \A d \in c.data : d[2] = k => d[1] = m[PosOf(b, k)]
           /\ \A p \in Live(b) : <<m[p], KeyAt(b, p)>> \in c.data
           /\ \A p, q \in Live(b) : m[p] = m[q] => p = q
<1>1. c.data = {<<m[x[1]], x[2]>> : x \in b.data}  BY DEF Moved
<1>2. KeysOf(c) = KeysOf(b)
  <2>1. \A d \in c.data : \E x \in b.data : d[2] = x[2]  BY <1>1
  <2>2. \A x \in b.data : \E d \in c.data : x[2] = d[2]
    <3>1. ASSUME NEW x \in b.data PROVE \E d \in c.data : x[2] = d[2]
      <4>1. <<m[x[1]], x[2]>> \in c.data  BY <1>1
      <4>. QED  BY <4>1
    <3>. QED  BY <3>1
  <2>. QED  BY <2>1, <2>2 DEF KeysOf
<1>3. Live(c) = {m[p] : p \in Live(b)}
  <2>1. ASSUME NEW d \in c.data PROVE \E p \in Live(b) : d[1] = m[p]
    <3>1. PICK x \in b.data : d = <<m[x[1]], x[2]>>  BY <1>1
    <3>2. x[1] \in Live(b)  BY DEF Live
    <3>. QED  BY <3>1, <3>2
  <2>2. ASSUME NEW p \in Live(b) PROVE \E d \in c.data : m[p] = d[1]
    <3>1. PICK x \in b.data : p = x[1]  BY DEF Live
    <3>2. <<m[x[1]], x[2]>> \in c.data  BY <1>1
    <3>. QED  BY <3>1, <3>2
  <2>3. \A z : z \in Live(c) <=> \E d \in c.data : z = d[1]  BY DEF Live
  <2>. QED  BY <2>1, <2>2, <2>3
<1>4. ASSUME NEW k \in KeysOf(b), NEW d \in c.data, d[2] = k PROVE d[1] = m[PosOf(b, k)]
  <2>1. PICK x \in b.data : d = <<m[x[1]], x[2]>>  BY <1>1
  <2>2. PosOf(b, k) = x[1]  BY <1>4, <2>1, PairIs
  <2>. QED  BY <2>1, <2>2
<1>5. ASSUME NEW p \in Live(b) PROVE <<m[p], KeyAt(b, p)>> \in c.data
  <2>1. <<p, KeyAt(b, p)>> \in b.data  BY SlotIs
  <2>. QED  BY <1>1, <2>1
<1>6. ASSUME NEW p \in Live(b), NEW q \in Live(b), m[p] = m[q] PROVE p = q
  <2>1. p \in Nat /\ q \in Nat  BY SlotIs
  <2>2. c.cap \in Nat
    <3>1. b.cap \in Nat /\ NameCount \in Nat  BY GoodTypes, NamesAre
    <3>. QED  BY <3>1 DEF Moved
  <2>3. m[p] \in Nat /\ m[q] \in Nat  BY <2>2 DEF Moved
  <2>4. ~(p < q) /\ ~(q < p)  BY <1>6, <2>3 DEF Moved
  <2>. QED  BY <2>1, <2>4
<1>. QED  BY <1>2, <1>3, <1>4, <1>5, <1>6

\* Moving keeps a block good.
LEMMA MovedGood ==
    ASSUME NEW b, Good(b), NEW c, NEW m, Moved(b, c, m),
           c.tr \in Translator, c.tr.rev = b.tr.rev, c.epoch \in Nat,
           c.last \in 0 .. c.cap - 1 \/ (c.cap = 0 /\ c.last = 0 /\ c.streak = 0)
    PROVE  /\ Good(c) /\ KeysOf(c) = KeysOf(b) /\ Live(c) = {m[p] : p \in Live(b)}
           /\ \A k \in KeysOf(b) : PosOf(c, k) = m[PosOf(b, k)]
           /\ \A p \in Live(b) : KeyAt(c, m[p]) = KeyAt(b, p)
           /\ Count(c) = Count(b)
<1>0. /\ c.cap \in Nat /\ c.cap <= NameCount
      /\ NameCount \in Nat /\ b.cap \in Nat /\ b.streak \in Nat
  <2>1. b.cap \in Nat /\ NameCount \in Nat /\ b.streak \in Nat  BY GoodTypes, NamesAre
  <2>. QED  BY <2>1 DEF Moved
<1>1. \A x \in b.data : x[1] \in Live(b) /\ x[2] \in Nat /\ x[1] \in Nat  BY PairIs
<1>2. c.data = {<<m[x[1]], x[2]>> : x \in b.data} /\ Whole(c) /\ c.streak = b.streak
  BY DEF Moved
<1>3. c.data \subseteq (0 .. c.cap - 1) \X Nat
  <2>1. \A x \in b.data : m[x[1]] \in 0 .. c.cap - 1  BY <1>1 DEF Moved
  <2>. QED  BY <1>1, <1>2, <2>1
<1>4. KeyOrder(c)
  <2>1. ASSUME NEW d \in c.data, NEW e \in c.data, d # e
        PROVE  d[1] < e[1] <=> Precedes(c, d[2], e[2])
    <3>1. PICK x \in b.data : d = <<m[x[1]], x[2]>>  BY <1>2
    <3>2. PICK y \in b.data : e = <<m[y[1]], y[2]>>  BY <1>2
    <3>3. x # y  BY <2>1, <3>1, <3>2
    <3>4. x[1] < y[1] <=> Precedes(b, x[2], y[2])  BY <3>3 DEF Good, KeyOrder
    <3>5. Precedes(b, x[2], y[2]) <=> Precedes(c, x[2], y[2])  BY DEF Precedes
    <3>6. x[1] # y[1] /\ x[1] \in Nat /\ y[1] \in Nat /\ x[1] \in Live(b) /\ y[1] \in Live(b)
      BY <1>1, <3>3, PairIs
    <3>7. m[x[1]] < m[y[1]] <=> x[1] < y[1]
      <4>1. m[x[1]] \in Nat /\ m[y[1]] \in Nat  BY <1>0, <3>6 DEF Moved
      <4>2. /\ x[1] < y[1] => m[x[1]] < m[y[1]]
            /\ y[1] < x[1] => m[y[1]] < m[x[1]]
        BY <3>6 DEF Moved
      <4>. QED  BY <3>6, <4>1, <4>2
    <3>. QED  BY <3>1, <3>2, <3>4, <3>5, <3>7
  <2>. QED  BY <2>1 DEF KeyOrder
<1>5. Good(c)
  <2>1. c.cap \in 0 .. NameCount /\ c.streak \in Nat  BY <1>0, <1>2
  <2>. QED  BY <1>2, <1>3, <1>4, <2>1 DEF Good
<1>6. KeysOf(c) = KeysOf(b) /\ Live(c) = {m[p] : p \in Live(b)}  BY MovedIs
<1>7. ASSUME NEW k \in KeysOf(b) PROVE PosOf(c, k) = m[PosOf(b, k)]
  <2>1. <<PosOf(c, k), k>> \in c.data  BY <1>5, <1>6, KeyIs
  <2>. QED  BY <2>1, MovedIs
<1>8. ASSUME NEW p \in Live(b) PROVE KeyAt(c, m[p]) = KeyAt(b, p)
  <2>1. <<m[p], KeyAt(b, p)>> \in c.data  BY MovedIs
  <2>. QED  BY <1>5, <2>1, PairIs
<1>9. Count(c) = Count(b)
  <2>. DEFINE f == [x \in b.data |-> <<m[x[1]], x[2]>>]
  <2>1. f \in [b.data -> c.data]  BY <1>2
  <2>2. ASSUME NEW x \in b.data, NEW y \in b.data, f[x] = f[y] PROVE x = y
    <3>1. x[2] = y[2]  BY <2>2
    <3>. QED  BY <3>1, PairIs
  <2>3. \A d \in c.data : \E x \in b.data : f[x] = d  BY <1>2
  <2>4. f \in Bijection(b.data, c.data)
    <3>. HIDE DEF f
    <3>. QED  BY <2>1, <2>2, <2>3 DEF Bijection, Injection, Surjection, IsInjective
  <2>5. ExistsBijection(b.data, c.data)  BY <2>4 DEF ExistsBijection
  <2>6. IsFiniteSet(b.data)  BY LiveIs
  <2>. QED  BY <2>5, <2>6, FS_Bijection DEF Count
<1>. QED  BY <1>5, <1>6, <1>7, <1>8, <1>9

\* Tail slots change nothing else.
LEMMA PushIs ==
    ASSUME NEW b, Good(b), b.cap > 0, NEW n \in Nat, b.cap + n <= NameCount
    PROVE  /\ Good(PushSlots(b, n)) /\ Live(PushSlots(b, n)) = Live(b)
           /\ PushSlots(b, n) = [b EXCEPT !.cap = b.cap + n]
           /\ PushSlots(b, n).cap = b.cap + n /\ PushSlots(b, n).data = b.data
           /\ PushSlots(b, n).last = b.last /\ PushSlots(b, n).event = b.event
           /\ Count(PushSlots(b, n)) = Count(b)
           /\ \A spot, o, m : Opens(PushSlots(b, n), spot, o, m) => Opens(b, spot, o, m)
<1>. DEFINE c == PushSlots(b, n)
<1>0. b.cap \in Nat /\ NameCount \in Nat  BY GoodTypes, NamesAre
<1>1. c = [cap |-> b.cap + n, data |-> b.data, tr |-> b.tr, sum |-> b.sum, last |-> b.last,
           streak |-> b.streak, epoch |-> b.epoch, event |-> b.event]
  BY DEF PushSlots, Good, Whole
<1>2. c = [b EXCEPT !.cap = b.cap + n]  BY DEF PushSlots
<1>3. /\ c.cap = b.cap + n /\ c.data = b.data /\ c.tr = b.tr /\ c.last = b.last
      /\ c.streak = b.streak /\ c.epoch = b.epoch /\ c.event = b.event /\ Whole(c)
  BY <1>1 DEF Whole
<1>. HIDE DEF c
<1>4. Live(c) = Live(b) /\ Count(c) = Count(b)  BY <1>3 DEF Live, Count
<1>5. Good(c)
  <2>1. c.cap \in 0 .. NameCount  BY <1>0, <1>3
  <2>2. c.data \subseteq (0 .. c.cap - 1) \X Nat
    <3>1. \A p \in 0 .. b.cap - 1 : p \in 0 .. c.cap - 1  BY <1>0, <1>3
    <3>2. b.data \subseteq (0 .. b.cap - 1) \X Nat  BY DEF Good
    <3>. QED  BY <1>3, <3>1, <3>2
  <2>3. KeyOrder(c)  BY <1>3 DEF Good, KeyOrder, Precedes
  <2>4. c.last \in 0 .. c.cap - 1  BY <1>0, <1>3 DEF Good
  <2>. QED  BY <1>3, <2>1, <2>2, <2>3, <2>4 DEF Good
<1>6. ASSUME NEW spot, NEW o, NEW m, Opens(c, spot, o, m) PROVE Opens(b, spot, o, m)
  <2>1. c.cap .. NameCount \subseteq b.cap .. NameCount  BY <1>0, <1>3
  <2>2. Moved(b, o.b, m)  BY <1>3, <1>4, <1>6, <2>1 DEF Opens, Moved
  <2>3. Told(b, m, o.b.event, o.b.cap)  BY <1>3, <1>4, <1>6 DEF Opens, Told, Unravelled
  <2>. QED  BY <1>3, <1>4, <1>6, <2>2, <2>3 DEF Opens
<1>. QED  BY <1>2, <1>3, <1>4, <1>5, <1>6 DEF c

\* the slots moved to, and the elements in them
Image(b, m) == {m[p] : p \in Live(b)}
Carried(b, m) == {<<m[x[1]], x[2]>> : x \in b.data}

\* A mask of the slots moved to leaves just the elements there.
LEMMA RelocatedIs ==
    ASSUME NEW b, NEW to, NEW mask, mask = Image(b, to)
    PROVE  Relocated(b.data, to, mask) = Carried(b, to)
<1>. USE DEF Image, Carried
<1>. DEFINE moved == {<<to[c[1]], c[2]>> : c \in b.data}
<1>1. Relocated(b.data, to, mask) =
        {c \in moved : c[1] \in mask} \union {<<q, Stale>> : q \in mask \ {c[1] : c \in moved}}
  BY DEF Relocated
<1>2. \A c \in moved : c[1] \in mask  BY DEF Live
<1>3. ASSUME NEW q \in mask PROVE q \in {c[1] : c \in moved}
  <2>1. PICK x \in b.data : q = to[x[1]]  BY DEF Live
  <2>2. <<to[x[1]], x[2]>> \in moved /\ <<to[x[1]], x[2]>>[1] = q  BY <2>1
  <2>. QED  BY <2>2
<1>. HIDE DEF moved
<1>4. mask \ {c[1] : c \in moved} = {}  BY <1>3
<1>5. Relocated(b.data, to, mask) = moved  BY <1>1, <1>2, <1>4
<1>. QED  BY <1>5 DEF moved

-----------------------------------------------------------------------------
(* Sliding and subdividing.                                                *)

\* the block with other data, anchor and event
Changed(b, data, last, event) ==
    [cap |-> b.cap, data |-> data, tr |-> b.tr, sum |-> b.sum, last |-> last,
     streak |-> b.streak, epoch |-> b.epoch, event |-> event]

\* A changed block whose elements moved.
LEMMA ChangedOpens ==
    ASSUME NEW b, Good(b), NEW m, NEW last, NEW event, NEW spot, NEW at \in 0 .. b.cap - 1,
           \A p \in Live(b) : m[p] \in 0 .. b.cap - 1,
           \A p, q \in Live(b) : p < q => m[p] < m[q],
           \A p \in Live(b) : IF p < spot THEN m[p] < at ELSE at < m[p],
           Told(b, m, event, b.cap)
    PROVE  Opens(b, spot,
                 Opened(Changed(b, Carried(b, m), last, event), at), m)
<1>. DEFINE data == Carried(b, m)
            c == Changed(b, data, last, event)
<1>1. /\ Whole(c) /\ c.cap = b.cap /\ c.data = data /\ c.tr = b.tr
      /\ c.streak = b.streak /\ c.epoch = b.epoch /\ c.event = event
  BY DEF Changed, Whole
<1>2. b.cap \in b.cap .. NameCount
  <2>1. b.cap \in Nat /\ NameCount \in Nat /\ b.cap <= NameCount  BY GoodTypes, NamesAre
  <2>. QED  BY <2>1
<1>. HIDE DEF c
<1>3. Moved(b, c, m)  BY <1>1, <1>2 DEF Moved, Carried
<1>4. Opened(c, at).b = c /\ Opened(c, at).at = at  BY DEF Opened
<1>. HIDE DEF data
<1>5. Opens(b, spot, Opened(c, at), m)  BY <1>1, <1>3, <1>4 DEF Opens
<1>. QED  BY <1>5 DEF c, data

\* A function from 1 .. n is a list.
LEMMA ListOf ==
    ASSUME NEW n \in Nat, NEW T, NEW f \in [1 .. n -> T]
    PROVE  f \in Seq(T) /\ Len(f) = n /\ DOMAIN f = 1 .. n
<1>1. f \in Seq(T)  BY SeqDef
<1>2. Len(f) \in Nat /\ DOMAIN f = 1 .. Len(f)  BY <1>1, LenProperties
<1>3. DOMAIN f = 1 .. n  OBVIOUS
<1>4. Len(f) = n
  <2>. DEFINE l == Len(f)
  <2>1. l \in Nat /\ 1 .. l = 1 .. n  BY <1>2, <1>3
  <2>. HIDE DEF l
  <2>2. l = n
    <3>1. CASE l < n
      <4>1. n \in 1 .. n /\ n \notin 1 .. l  BY <2>1, <3>1
      <4>. QED  BY <2>1, <4>1
    <3>2. CASE l > n
      <4>1. l \in 1 .. l /\ l \notin 1 .. n  BY <2>1, <3>2
      <4>. QED  BY <2>1, <4>1
    <3>. QED  BY <2>1, <3>1, <3>2
  <2>. QED  BY <2>2 DEF l
<1>. QED  BY <1>1, <1>3, <1>4

\* The pairs of a slide of the hole at x to y over live slots.
LEMMA SlidePairsAre ==
    ASSUME NEW x \in Nat, NEW y \in Nat
    PROVE  LET n == Apart(x, y)
               q == SlidePairs(x, y)
           IN  /\ n \in Nat /\ DOMAIN q = 1 .. n
               /\ q = [i \in 1 .. n |-> q[i]]
               /\ \A i \in 1 .. n : q[i] = IF x > y THEN <<x - i, x - i + 1>>
                                           ELSE <<x + i, x + i - 1>>
<1>. DEFINE n == Apart(x, y)
            q == SlidePairs(x, y)
<1>1. n \in Nat /\ n = IF x > y THEN x - y ELSE y - x  BY DEF Apart
<1>2. q = [i \in 1 .. n |-> IF x > y THEN <<x - i, x - i + 1>> ELSE <<x + i, x + i - 1>>]
  BY <1>1 DEF SlidePairs
<1>. HIDE DEF n, q
<1>. QED  BY <1>1, <1>2 DEF n, q

\* where the slide takes the slot p
Slid(x, y, p) ==
    IF y <= p /\ p < x THEN p + 1 ELSE IF x < p /\ p <= y THEN p - 1 ELSE p

\* A slide moves the elements between the hole and the spot by one.
LEMMA SlideOpenIs ==
    ASSUME NEW b, Good(b), NEW hole \in Clear(b), NEW spot \in 0 .. b.cap, hole # spot
    PROVE  LET open == IF hole > spot THEN spot ELSE spot - 1
               m == [p \in 0 .. b.cap - 1 |-> Slid(hole, open, p)]
               mask == (Live(b) \union {hole}) \ {open}
           IN  SlideOpen(b, hole, spot)
                 = Opened(Changed(b, Relocated(b.data, m, mask), m[b.last],
                            Event(b.tr, SlidePairs(hole, open), {<<hole, open>>})), open)
<1>. DEFINE open == IF hole > spot THEN spot ELSE spot - 1
            m == [p \in 0 .. b.cap - 1 |-> Slid(hole, open, p)]
            mask == (Live(b) \union {hole}) \ {open}
            event == Event(b.tr, SlidePairs(hole, open), {<<hole, open>>})
            c == [b EXCEPT !.data = Relocated(b.data, m, mask), !.last = m[b.last]]
<1>1. SlideHole(b, hole, open) = c  BY DEF SlideHole, Slid
<1>. DEFINE d == Relocated(b.data, m, mask)
            l == m[b.last]
            w == [cap |-> b.cap, data |-> d, tr |-> b.tr, sum |-> b.sum, last |-> l,
                  streak |-> b.streak, epoch |-> b.epoch, event |-> b.event]
<1>2. c = w
  <2>1. b = [cap |-> b.cap, data |-> b.data, tr |-> b.tr, sum |-> b.sum, last |-> b.last,
             streak |-> b.streak, epoch |-> b.epoch, event |-> b.event]
    BY DEF Good, Whole
  <2>2. c = [b EXCEPT !.data = d, !.last = l]  OBVIOUS
  <2>. HIDE DEF d, l, c
  <2>. QED  BY <2>1, <2>2
<1>3. RecordSlide(c, hole, open)
        = [c EXCEPT !.event = Event(c.tr, SlidePairs(hole, open), {<<hole, open>>})]
  BY DEF RecordSlide
<1>. HIDE DEF c
<1>4. RecordSlide(c, hole, open) = Changed(b, d, l, event)
  <2>. HIDE DEF d, l
  <2>1. c.tr = b.tr  BY <1>2
  <2>2. RecordSlide(c, hole, open) = [c EXCEPT !.event = event]  BY <1>3, <2>1
  <2>. HIDE DEF event
  <2>. QED  BY <1>2, <2>2 DEF Changed
<1>. HIDE DEF m, d, l, event
<1>5. SlideOpen(b, hole, spot) = Opened(RecordSlide(SlideHole(b, hole, open), hole, open), open)
  BY DEF SlideOpen
<1>. HIDE DEF open
<1>6. SlideOpen(b, hole, spot) = Opened(Changed(b, d, l, event), open)
  BY <1>1, <1>4, <1>5
<1>. QED  BY <1>6 DEF open, m, d, l, event

\* The slots between the hole and the spot are live.
RunLive(b, hole, spot) ==
    \A q \in Nat : (hole < q /\ q < spot) \/ (spot <= q /\ q < hole) => q \in Live(b)

\* A slide over live slots opens one at the spot.
LEMMA SlideIs ==
    ASSUME NEW b, Good(b), NEW hole \in Clear(b), NEW spot \in 0 .. b.cap, hole # spot,
           RunLive(b, hole, spot)
    PROVE  \E m : Opens(b, spot, SlideOpen(b, hole, spot), m)
<1>. DEFINE n == b.cap
            open == IF hole > spot THEN spot ELSE spot - 1
            m == [p \in 0 .. b.cap - 1 |-> Slid(hole, open, p)]
            mask == (Live(b) \union {hole}) \ {open}
            pairs == SlidePairs(hole, open)
            spans == {<<hole, open>>}
            event == Event(b.tr, pairs, spans)
<1>0. n \in Nat /\ hole \in Nat /\ hole < n /\ spot \in Nat /\ spot <= n /\ hole \notin Live(b)
  <2>1. n \in Nat  BY GoodTypes
  <2>. QED  BY <2>1 DEF Clear
<1>1. open \in Nat /\ open < n /\ open = IF hole > spot THEN spot ELSE spot - 1
  BY <1>0
<1>2. \A p \in Live(b) : p \in 0 .. b.cap - 1 /\ p \in Nat /\ p < n /\ p # hole
  <2>1. \A p \in Live(b) : p \in 0 .. b.cap - 1 /\ p \in Nat  BY SlotIs
  <2>. QED  BY <1>0, <2>1
<1>3. \A p \in Live(b) : m[p] = Slid(hole, open, p)  BY <1>2
<1>. HIDE DEF n, open, m
<1>4. \A p \in Live(b) : m[p] \in 0 .. b.cap - 1
  <2>1. ASSUME NEW p \in Live(b) PROVE m[p] \in 0 .. b.cap - 1
    <3>1. p \in Nat /\ p < n /\ p # hole  BY <1>2
    <3>2. m[p] = Slid(hole, open, p)  BY <1>3
    <3>3. Slid(hole, open, p) \in Nat /\ Slid(hole, open, p) < n
      BY <1>0, <1>1, <3>1 DEF Slid
    <3>. QED  BY <1>0, <3>2, <3>3 DEF n
  <2>. QED  BY <2>1
<1>5. \A p, q \in Live(b) : p < q => m[p] < m[q]
  <2>1. ASSUME NEW p \in Live(b), NEW q \in Live(b), p < q PROVE m[p] < m[q]
    <3>1. p \in Nat /\ p # hole /\ q \in Nat /\ q # hole  BY <1>2
    <3>2. Slid(hole, open, p) < Slid(hole, open, q)  BY <1>0, <1>1, <2>1, <3>1 DEF Slid
    <3>. QED  BY <1>3, <3>2
  <2>. QED  BY <2>1
<1>6. \A p \in Live(b) : IF p < spot THEN m[p] < open ELSE open < m[p]
  <2>1. ASSUME NEW p \in Live(b) PROVE IF p < spot THEN m[p] < open ELSE open < m[p]
    <3>1. p \in Nat /\ p # hole  BY <1>2
    <3>2. IF p < spot THEN Slid(hole, open, p) < open ELSE open < Slid(hole, open, p)
      BY <1>0, <1>1, <3>1 DEF Slid
    <3>. QED  BY <1>3, <3>2
  <2>. QED  BY <2>1
<1>7. mask = Image(b, m)
  <2>1. ASSUME NEW p \in Live(b) PROVE m[p] \in mask
    <3>1. p \in Nat /\ p # hole  BY <1>2
    <3>2. m[p] # open
      <4>1. m[p] \in Nat
        <5>1. m[p] \in 0 .. b.cap - 1  BY <1>4
        <5>. QED  BY <1>0, <5>1 DEF n
      <4>. QED  BY <1>1, <1>6, <4>1
    <3>3. m[p] \in Live(b) \union {hole}
      <4>1. CASE m[p] = p  BY <4>1
      <4>2. CASE m[p] # p /\ m[p] # hole
        <5>1. m[p] \in Nat /\ ((hole < m[p] /\ m[p] < spot) \/ (spot <= m[p] /\ m[p] < hole))
          BY <1>0, <1>1, <1>3, <3>1, <4>2 DEF Slid
        <5>. QED  BY <5>1 DEF RunLive
      <4>. QED  BY <4>1, <4>2
    <3>. QED  BY <3>2, <3>3
  <2>2. ASSUME NEW x \in mask PROVE \E p \in Live(b) : m[p] = x
    <3>1. x \in Nat /\ x # open /\ (x \in Live(b) \/ x = hole)  BY <1>0, <1>2
    <3>2. CASE hole > spot /\ open < x /\ x <= hole
      <4>1. x - 1 \in Nat /\ spot <= x - 1 /\ x - 1 < hole  BY <1>0, <1>1, <3>1, <3>2
      <4>2. x - 1 \in Live(b)  BY <4>1 DEF RunLive
      <4>3. Slid(hole, open, x - 1) = x  BY <1>0, <1>1, <3>1, <3>2, <4>1 DEF Slid
      <4>. QED  BY <1>3, <4>2, <4>3
    <3>3. CASE ~(hole > spot) /\ hole <= x /\ x < open
      <4>1. x + 1 \in Nat /\ hole < x + 1 /\ x + 1 < spot  BY <1>0, <1>1, <3>1, <3>3
      <4>2. x + 1 \in Live(b)  BY <4>1 DEF RunLive
      <4>3. Slid(hole, open, x + 1) = x  BY <1>0, <1>1, <3>1, <3>3, <4>1 DEF Slid
      <4>. QED  BY <1>3, <4>2, <4>3
    <3>4. CASE ~(hole > spot /\ open < x /\ x <= hole) /\ ~(~(hole > spot) /\ hole <= x /\ x < open)
      <4>1. Slid(hole, open, x) = x  BY <1>0, <1>1, <3>1, <3>4 DEF Slid
      <4>2. x # hole  BY <1>0, <1>1, <3>1, <3>4
      <4>. QED  BY <1>3, <3>1, <4>1, <4>2
    <3>. QED  BY <3>2, <3>3, <3>4
  <2>. HIDE DEF mask
  <2>. QED  BY <2>1, <2>2 DEF Image
<1>8. Relocated(b.data, m, mask) = Carried(b, m)
  <2>. HIDE DEF mask, m
  <2>. QED  BY <1>7, RelocatedIs
<1>9. SlideOpen(b, hole, spot)
        = Opened(Changed(b, Relocated(b.data, m, mask), m[b.last], event), open)
  BY <1>0, SlideOpenIs DEF open, m
<1>. DEFINE k == Apart(hole, open)
<1>10. /\ k \in Nat /\ DOMAIN pairs = 1 .. k /\ pairs = [i \in 1 .. k |-> pairs[i]]
       /\ \A i \in 1 .. k : pairs[i] = IF hole > open THEN <<hole - i, hole - i + 1>>
                                       ELSE <<hole + i, hole + i - 1>>
  BY <1>0, <1>1, SlidePairsAre
<1>11. k = IF hole > open THEN hole - open ELSE open - hole  BY <1>0, <1>1 DEF Apart
<1>. HIDE DEF pairs, k
<1>12. ASSUME NEW i \in 1 .. k
       PROVE  /\ pairs[i][1] \in Live(b) /\ pairs[i][2] = m[pairs[i][1]]
              /\ pairs[i] \in Live(b) \X (0 .. b.cap - 1)
              /\ pairs[i][1] = IF hole > open THEN hole - i ELSE hole + i
              /\ pairs[i][2] = IF hole > open THEN hole - i + 1 ELSE hole + i - 1
  <2>. DEFINE s == IF hole > open THEN hole - i ELSE hole + i
              d == IF hole > open THEN hole - i + 1 ELSE hole + i - 1
  <2>1. pairs[i] = <<s, d>>  BY <1>10
  <2>2. s \in Nat /\ ((hole < s /\ s < spot) \/ (spot <= s /\ s < hole)) /\ d = Slid(hole, open, s)
    <3>1. i \in Nat /\ 1 <= i /\ i <= k  BY <1>10
    <3>. QED  BY <1>0, <1>1, <1>11, <3>1 DEF Slid
  <2>3. s \in Live(b)  BY <2>2 DEF RunLive
  <2>4. d = m[s] /\ m[s] \in 0 .. b.cap - 1  BY <1>3, <1>4, <2>2, <2>3
  <2>. QED  BY <2>1, <2>3, <2>4
<1>13. ASSUME NEW p \in Live(b), m[p] # p
       PROVE  (\E i \in 1 .. k : pairs[i][1] = p) /\ Between(p, <<hole, open>>)
              /\ Between(m[p], <<hole, open>>)
  <2>. DEFINE i == IF hole > open THEN hole - p ELSE p - hole
  <2>1. p \in Nat /\ p # hole  BY <1>2
  <2>2. m[p] = Slid(hole, open, p)  BY <1>3
  <2>3. i \in 1 .. k /\ p = IF hole > open THEN hole - i ELSE hole + i
    BY <1>0, <1>1, <1>11, <1>13, <2>1, <2>2 DEF Slid
  <2>4. pairs[i][1] = p  BY <1>12, <2>3
  <2>5. (p \in hole .. open \/ p \in open .. hole) /\ (m[p] \in hole .. open \/ m[p] \in open .. hole)
    BY <1>0, <1>1, <1>13, <2>1, <2>2 DEF Slid
  <2>. QED  BY <2>3, <2>4, <2>5 DEF Between
<1>14. Unravelled(b, m, pairs, b.cap)
  <2>1. pairs \in Seq(Live(b) \X (0 .. b.cap - 1))
    <3>1. pairs \in [1 .. k -> Live(b) \X (0 .. b.cap - 1)]  BY <1>10, <1>12
    <3>. QED  BY <1>10, <3>1, ListOf
  <2>2. ASSUME NEW i \in 1 .. k, NEW j \in 1 .. k
        PROVE  /\ pairs[i][1] = pairs[j][1] => i = j
               /\ pairs[j][1] = pairs[i][2] => j < i
    <3>1. i \in Nat /\ j \in Nat  OBVIOUS
    <3>2. /\ pairs[i][1] = IF hole > open THEN hole - i ELSE hole + i
          /\ pairs[j][1] = IF hole > open THEN hole - j ELSE hole + j
          /\ pairs[i][2] = IF hole > open THEN hole - i + 1 ELSE hole + i - 1
      BY <1>12
    <3>. QED  BY <1>0, <1>1, <3>1, <3>2
  <2>. QED  BY <1>10, <1>12, <1>13, <2>1, <2>2 DEF Unravelled
<1>15. Told(b, m, event, b.cap)
  <2>1. event.pairs = pairs /\ event.spans = spans /\ event = Event(b.tr, pairs, spans)
    BY DEF Event
  <2>2. <<hole, open>> \in spans  OBVIOUS
  <2>. HIDE DEF event, spans
  <2>. QED  BY <1>13, <1>14, <2>1, <2>2 DEF Told
<1>16. open \in 0 .. b.cap - 1  BY <1>0, <1>1 DEF n
<1>. HIDE DEF event, mask
<1>17. Opens(b, spot, Opened(Changed(b, Carried(b, m), m[b.last], event), open), m)
  BY <1>4, <1>5, <1>6, <1>15, <1>16, ChangedOpens
<1>. QED  BY <1>8, <1>9, <1>17

\* A clear slot between the neighbours is opened as it is.
LEMMA StayIs ==
    ASSUME NEW b, Good(b), NEW spot, NEW at \in 0 .. b.cap - 1,
           \A p \in Live(b) : IF p < spot THEN p < at ELSE at < p
    PROVE  \E m : Opens(b, spot, Opened(RecordSlide(b, at, at), at), m)
<1>. DEFINE m == [p \in Live(b) |-> p]
            pairs == SlidePairs(at, at)
            spans == {<<at, at>>}
            event == Event(b.tr, pairs, spans)
<1>0. at \in Nat /\ b.cap \in Nat  BY GoodTypes
<1>1. b = [cap |-> b.cap, data |-> b.data, tr |-> b.tr, sum |-> b.sum, last |-> b.last,
           streak |-> b.streak, epoch |-> b.epoch, event |-> b.event]
  BY DEF Good, Whole
<1>2. Carried(b, m) = b.data
  <2>1. ASSUME NEW x \in b.data PROVE <<m[x[1]], x[2]>> = x
    <3>1. x = <<x[1], x[2]>> /\ x[1] \in Live(b)  BY PairIs
    <3>. QED  BY <3>1
  <2>. HIDE DEF m
  <2>. QED  BY <2>1 DEF Carried
<1>3. RecordSlide(b, at, at) = Changed(b, b.data, b.last, event)
  <2>1. RecordSlide(b, at, at) = [b EXCEPT !.event = event]  BY DEF RecordSlide
  <2>. HIDE DEF event
  <2>. QED  BY <1>1, <2>1 DEF Changed
<1>4. Apart(at, at) = 0  BY <1>0 DEF Apart
<1>5. DOMAIN pairs = {} /\ pairs = [i \in 1 .. 0 |-> pairs[i]]
  <2>1. 1 .. 0 = {}  OBVIOUS
  <2>. HIDE DEF pairs
  <2>. QED  BY <1>0, <1>4, <2>1, SlidePairsAre DEF pairs
<1>6. Unravelled(b, m, pairs, b.cap)
  <2>1. pairs \in Seq(Live(b) \X (0 .. b.cap - 1))
    <3>1. pairs \in [1 .. 0 -> Live(b) \X (0 .. b.cap - 1)]
      <4>1. \A i \in 1 .. 0 : FALSE  OBVIOUS
      <4>. HIDE DEF pairs
      <4>. QED  BY <1>5, <4>1
    <3>. QED  BY <3>1, ListOf
  <2>2. \A p \in Live(b) : m[p] = p  OBVIOUS
  <2>. HIDE DEF pairs, m
  <2>. QED  BY <1>5, <2>1, <2>2 DEF Unravelled
<1>7. Told(b, m, event, b.cap)
  <2>1. event.pairs = pairs /\ event.spans = spans /\ event = Event(b.tr, pairs, spans)
    BY DEF Event
  <2>2. \A p \in Live(b) : m[p] = p  OBVIOUS
  <2>. HIDE DEF event, pairs, spans, m
  <2>. QED  BY <1>6, <2>1, <2>2 DEF Told
<1>8. \A p \in Live(b) : m[p] = p /\ p \in 0 .. b.cap - 1
  <2>1. \A p \in Live(b) : p \in 0 .. b.cap - 1  BY SlotIs
  <2>. QED  BY <2>1
<1>. HIDE DEF event, m
<1>9. Opens(b, spot, Opened(Changed(b, Carried(b, m), b.last, event), at), m)
  <2>1. /\ \A p \in Live(b) : m[p] \in 0 .. b.cap - 1
        /\ \A p, q \in Live(b) : p < q => m[p] < m[q]
        /\ \A p \in Live(b) : IF p < spot THEN m[p] < at ELSE at < m[p]
    BY <1>8
  <2>. QED  BY <1>7, <2>1, ChangedOpens
<1>. QED  BY <1>2, <1>3, <1>9

\* The gap around a boundary is the run of clear slots there.
LEMMA GapIs ==
    ASSUME NEW b, Good(b), NEW spot \in 0 .. b.cap
    PROVE  /\ GapLo(b, spot) \in 0 .. spot /\ GapHi(b, spot) \in spot .. b.cap
           /\ \A p \in Live(b) : IF p < spot THEN p < GapLo(b, spot) ELSE GapHi(b, spot) <= p
           /\ GapLo(b, spot) = 0 \/ GapLo(b, spot) - 1 \in Live(b)
           /\ GapHi(b, spot) = b.cap \/ GapHi(b, spot) \in Live(b)
<1>. DEFINE n == b.cap
            S == {p + 1 : p \in {q \in Live(b) : q < spot}} \union {0}
            T == {p \in Live(b) : p >= spot} \union {n}
            lo == GapLo(b, spot)
            hi == GapHi(b, spot)
<1>0. n \in Nat /\ spot \in Nat /\ spot <= n
  <2>1. n \in Nat  BY GoodTypes
  <2>. QED  BY <2>1
<1>1. \A p \in Live(b) : p \in Nat /\ p < n
  <2>1. \A p \in Live(b) : p \in 0 .. n - 1  BY SlotIs
  <2>. QED  BY <1>0, <2>1
<1>2. lo = Max(S) /\ hi = Min(T)  BY DEF GapLo, GapHi
<1>3. S \in SUBSET (0 .. spot) /\ S # {} /\ 0 \in S
  <2>1. \A p \in Live(b) : p < spot => p + 1 \in 0 .. spot  BY <1>0, <1>1
  <2>2. 0 \in 0 .. spot  BY <1>0
  <2>. QED  BY <2>1, <2>2
<1>4. T \in SUBSET Nat /\ T # {} /\ n \in T  BY <1>0, <1>1
<1>5. lo \in S /\ \A x \in S : x <= lo
  <2>. HIDE DEF S
  <2>. QED  BY <1>0, <1>2, <1>3, MostIs
<1>6. hi \in T /\ \A x \in T : hi <= x
  <2>. HIDE DEF T
  <2>. QED  BY <1>2, <1>4, LeastIs
<1>. HIDE DEF lo, hi
<1>7. lo \in 0 .. spot /\ (lo = 0 \/ lo - 1 \in Live(b))
  <2>1. lo = 0 \/ \E p \in Live(b) : lo = p + 1  BY <1>5
  <2>2. ASSUME NEW p \in Live(b), lo = p + 1 PROVE lo - 1 \in Live(b)
    <3>1. lo - 1 = p  BY <1>1, <2>2
    <3>. QED  BY <3>1
  <2>. QED  BY <1>3, <1>5, <2>1, <2>2
<1>8. hi \in spot .. n /\ (hi = n \/ hi \in Live(b))
  <2>1. hi = n \/ (hi \in Live(b) /\ hi >= spot)  BY <1>6
  <2>. QED  BY <1>0, <1>1, <2>1
<1>9. ASSUME NEW p \in Live(b) PROVE IF p < spot THEN p < lo ELSE hi <= p
  <2>1. CASE p < spot
    <3>1. p + 1 \in S  BY <2>1
    <3>2. p + 1 <= lo /\ lo \in Nat  BY <1>0, <1>5, <1>7, <3>1
    <3>. QED  BY <1>1, <2>1, <3>2
  <2>2. CASE ~(p < spot)
    <3>1. p \in T  BY <1>0, <1>1, <2>2
    <3>. QED  BY <1>6, <2>2, <3>1
  <2>. QED  BY <2>1, <2>2
<1>. QED  BY <1>7, <1>8, <1>9 DEF lo, hi

\* A gap between the neighbours is subdivided.
LEMMA SubdivideIs ==
    ASSUME NEW b, Good(b), NEW spot \in 0 .. b.cap, GapHi(b, spot) > GapLo(b, spot)
    PROVE  \E m : Opens(b, spot, Subdivide(b, spot), m)
<1>. DEFINE n == b.cap
            lo == GapLo(b, spot)
            hi == GapHi(b, spot)
            land == IF hi < n THEN lo + ((hi - lo) \div 2) ELSE lo
<1>0. n \in Nat /\ spot \in Nat
  <2>1. n \in Nat  BY GoodTypes
  <2>. QED  BY <2>1
<1>1. /\ lo \in 0 .. spot /\ hi \in spot .. n
      /\ \A p \in Live(b) : IF p < spot THEN p < lo ELSE hi <= p
  BY GapIs
<1>2. \A p \in Live(b) : p \in Nat
  BY SlotIs
<1>3. Subdivide(b, spot) = Opened(RecordSlide(b, land, land), land)  BY DEF Subdivide
<1>4. hi > lo  OBVIOUS
<1>. HIDE DEF lo, hi
<1>5. lo <= land /\ land < hi /\ land \in Nat /\ land \in 0 .. n - 1
  <2>1. lo \in Nat /\ hi \in Nat /\ hi <= n  BY <1>0, <1>1
  <2>. DEFINE h == (hi - lo) \div 2
  <2>2. h \in Nat /\ h < hi - lo  BY <1>4, <2>1
  <2>. HIDE DEF n, h
  <2>. QED  BY <1>0, <1>4, <2>1, <2>2 DEF land, h
<1>6. \A p \in Live(b) : IF p < spot THEN p < land ELSE land < p
  <2>. HIDE DEF land
  <2>1. lo \in Nat /\ hi \in Nat  BY <1>0, <1>1
  <2>. QED  BY <1>1, <1>2, <1>5, <2>1
<1>. HIDE DEF land
<1>7. \E m : Opens(b, spot, Opened(RecordSlide(b, land, land), land), m)  BY <1>5, <1>6, StayIs
<1>. QED  BY <1>3, <1>7

\* The nearest hole is one that no other, but at the centre, is nearer than.
LEMMA NearestIs ==
    ASSUME NEW b, Good(b), NEW centre \in 0 .. b.cap, Clear(b) \ {centre} # {}
    PROVE  LET h == NearestClear(b, centre)
           IN  /\ h \in Clear(b) /\ h # centre
               /\ \A p \in Clear(b) : p # centre => Apart(h, centre) <= Apart(p, centre)
<1>. DEFINE C == Clear(b)
            D == {Apart(p, centre) : p \in C \ {centre}}
            d == Min(D)
            h == NearestClear(b, centre)
<1>0. centre \in Nat /\ \A p \in C : p \in Nat
  <2>1. b.cap \in Nat  BY GoodTypes
  <2>. QED  BY <2>1 DEF Clear
<1>1. \A p \in C : /\ Apart(p, centre) \in Nat /\ (p # centre => Apart(p, centre) > 0)
                   /\ p = centre + Apart(p, centre) \/ p = centre - Apart(p, centre)
  BY <1>0 DEF Apart
<1>2. D \in SUBSET Nat /\ D # {}  BY <1>1
<1>3. d \in D /\ \A x \in D : d <= x
  <2>. HIDE DEF D
  <2>. QED  BY <1>2, LeastIs
<1>4. h = IF centre + d \in C THEN centre + d ELSE centre - d
  BY DEF NearestClear, NearestOf
<1>. HIDE DEF d
<1>5. PICK q \in C \ {centre} : d = Apart(q, centre)  BY <1>3
<1>6. d \in Nat /\ d > 0 /\ (q = centre + d \/ q = centre - d)  BY <1>1, <1>5
<1>. HIDE DEF C, h
<1>7. h \in C /\ (h = centre + d \/ h = centre - d)  BY <1>4, <1>5, <1>6
<1>8. h # centre /\ Apart(h, centre) = d
  <2>1. h \in Nat  BY <1>0, <1>7
  <2>. QED  BY <1>0, <1>6, <1>7, <2>1 DEF Apart
<1>9. \A p \in C : p # centre => Apart(h, centre) <= Apart(p, centre)  BY <1>3, <1>8
<1>. QED  BY <1>7, <1>8, <1>9 DEF C, h

\* Nothing between the nearest hole and a spot that is not clear is clear.
LEMMA NearestRun ==
    ASSUME NEW b, Good(b), NEW spot \in 0 .. b.cap, spot \notin Clear(b), Clear(b) # {}
    PROVE  LET h == NearestClear(b, spot)
           IN  h \in Clear(b) /\ h # spot /\ RunLive(b, h, spot)
<1>. DEFINE h == NearestClear(b, spot)
<1>0. b.cap \in Nat /\ spot \in Nat  BY GoodTypes
<1>1. Clear(b) \ {spot} # {}  OBVIOUS
<1>2. h \in Clear(b) /\ h # spot /\ \A p \in Clear(b) : p # spot => Apart(h, spot) <= Apart(p, spot)
  BY <1>1, NearestIs
<1>. HIDE DEF h
<1>3. h \in Nat /\ h < b.cap  BY <1>0, <1>2 DEF Clear
<1>4. ASSUME NEW q \in Nat, (h < q /\ q < spot) \/ (spot <= q /\ q < h) PROVE q \in Live(b)
  <2>1. q \in 0 .. b.cap - 1
    <3>1. spot <= b.cap  BY <1>0
    <3>. QED  BY <1>0, <1>3, <1>4, <3>1
  <2>2. SUFFICES q \notin Clear(b)  BY <2>1 DEF Clear
  <2>3. q # spot => Apart(q, spot) < Apart(h, spot)  BY <1>0, <1>3, <1>4 DEF Apart
  <2>4. Apart(q, spot) \in Nat /\ Apart(h, spot) \in Nat  BY <1>0, <1>3 DEF Apart
  <2>. QED  BY <1>2, <2>3, <2>4
<1>. QED  BY <1>2, <1>4 DEF RunLive, h

\* A solid block has a key in every slot.
LEMMA SolidIs ==
    ASSUME NEW b, Good(b), Clear(b) = {}
    PROVE  Count(b) = b.cap /\ \A q \in 0 .. b.cap - 1 : q \in Live(b)
BY LiveIs DEF Clear

\* A slot is minted at the end and the hole slides to the spot.
LEMMA MintSlideIs ==
    ASSUME NEW b, Good(b), b.cap > 0, b.cap < NameCount, NEW spot \in 0 .. b.cap - 1,
           \A q \in spot .. b.cap - 1 : q \in Live(b)
    PROVE  \E m : Opens(b, spot, SlideOpen(PushSlots(b, 1), b.cap, spot), m)
<1>. DEFINE c == PushSlots(b, 1)
<1>0. b.cap \in Nat /\ NameCount \in Nat /\ b.cap + 1 <= NameCount  BY GoodTypes, NamesAre
<1>1. /\ Good(c) /\ Live(c) = Live(b) /\ c.cap = b.cap + 1
      /\ \A s, o, m : Opens(c, s, o, m) => Opens(b, s, o, m)
  BY <1>0, PushIs
<1>. HIDE DEF c
<1>2. b.cap \in Clear(c)
  <2>1. b.cap \notin Live(b)
    <3>1. \A p \in Live(b) : p \in 0 .. b.cap - 1  BY SlotIs
    <3>. QED  BY <1>0, <3>1
  <2>. QED  BY <1>0, <1>1, <2>1 DEF Clear
<1>3. spot \in 0 .. c.cap /\ b.cap # spot  BY <1>0, <1>1
<1>4. RunLive(c, b.cap, spot)
  <2>1. ASSUME NEW q \in Nat, (b.cap < q /\ q < spot) \/ (spot <= q /\ q < b.cap)
        PROVE  q \in Live(b)
    <3>1. q \in spot .. b.cap - 1  BY <1>0, <2>1
    <3>. QED  BY <3>1
  <2>. QED  BY <1>1, <2>1 DEF RunLive
<1>5. \E m : Opens(c, spot, SlideOpen(c, b.cap, spot), m)  BY <1>1, <1>2, <1>3, <1>4, SlideIs
<1>. QED  BY <1>1, <1>5 DEF c

\* A spot with no gap, at which an open slot is to come.
Closed(b, spot) ==
    /\ b.cap > 0 /\ Count(b) < NameCount
    /\ spot \in 0 .. b.cap /\ (spot = b.cap => b.cap = NameCount)
    /\ spot \notin Clear(b)

\* The far slide.
LEMMA SlideFarIs ==
    ASSUME NEW b, Good(b), NEW spot, Closed(b, spot)
    PROVE  \E m : Opens(b, spot, SlideFar(b, spot), m)
<1>0. b.cap \in Nat /\ NameCount \in Nat /\ Count(b) \in Nat /\ b.cap <= NameCount
  BY GoodTypes, NamesAre, LiveIs
<1>1. CASE Clear(b) = {}
  <2>1. Count(b) = b.cap /\ \A q \in 0 .. b.cap - 1 : q \in Live(b)  BY <1>1, SolidIs
  <2>2. b.cap < NameCount /\ spot \in 0 .. b.cap - 1  BY <1>0, <2>1 DEF Closed
  <2>3. \A q \in spot .. b.cap - 1 : q \in Live(b)  BY <1>0, <2>1, <2>2
  <2>4. SlideFar(b, spot) = SlideOpen(PushSlots(b, 1), b.cap, spot)  BY <1>1 DEF SlideFar
  <2>. QED  BY <2>2, <2>3, <2>4, MintSlideIs DEF Closed
<1>2. CASE Clear(b) # {}
  <2>1. SlideFar(b, spot) = SlideOpen(b, NearestClear(b, spot), spot)  BY <1>2 DEF SlideFar
  <2>2. /\ NearestClear(b, spot) \in Clear(b) /\ NearestClear(b, spot) # spot
        /\ RunLive(b, NearestClear(b, spot), spot)
    BY <1>2, NearestRun DEF Closed
  <2>. QED  BY <2>1, <2>2, SlideIs DEF Closed
<1>. QED  BY <1>1, <1>2

-----------------------------------------------------------------------------
(* Ranks, and sets listed in order.                                        *)

RankIn(S, x) == Cardinality({y \in S : y < x})

\* The rank of a slot counts the members below it.
LEMMA RankIs ==
    ASSUME NEW S \in SUBSET Nat, IsFiniteSet(S), NEW x \in Nat
    PROVE  /\ Cardinality(S) \in Nat /\ RankIn(S, x) \in 0 .. Cardinality(S)
           /\ RankIn(S, x) \in Nat
           /\ x \in S => RankIn(S, x) < Cardinality(S)
           /\ \A z \in Nat : x <= z => RankIn(S, x) <= RankIn(S, z)
           /\ \A z \in Nat : x \in S /\ x < z => RankIn(S, x) < RankIn(S, z)
<1>. DEFINE T(z) == {y \in S : y < z}
            n == Cardinality(S)
<1>1. n \in Nat  BY FS_CardinalityType
<1>2. \A z : T(z) \in SUBSET S  OBVIOUS
<1>3. \A z : IsFiniteSet(T(z)) /\ Cardinality(T(z)) <= n  BY <1>2, FS_Subset
<1>4. \A z : Cardinality(T(z)) \in Nat  BY <1>3, FS_CardinalityType
<1>5. ASSUME NEW z \in Nat, x <= z PROVE Cardinality(T(x)) <= Cardinality(T(z))
  <2>0. \A y \in S : y < x => y < z
    <3>1. \A y \in S : y \in Nat  OBVIOUS
    <3>. QED  BY <1>5, <3>1
  <2>1. T(x) \in SUBSET T(z)  BY <2>0
  <2>. QED  BY <1>3, <2>1, FS_Subset
<1>6. ASSUME NEW U, U \in SUBSET S, T(x) \subseteq U, x \in U
      PROVE  Cardinality(T(x)) < Cardinality(U)
  <2>1. x \notin T(x)  OBVIOUS
  <2>2. Cardinality(T(x) \union {x}) = Cardinality(T(x)) + 1  BY <1>3, <2>1, FS_AddElement
  <2>3. T(x) \union {x} \in SUBSET U  BY <1>6
  <2>4. IsFiniteSet(U)  BY <1>6, FS_Subset
  <2>5. Cardinality(T(x) \union {x}) <= Cardinality(U) /\ Cardinality(U) \in Nat
    BY <2>3, <2>4, FS_Subset, FS_CardinalityType
  <2>. QED  BY <1>4, <2>2, <2>5
<1>7. x \in S => Cardinality(T(x)) < n  BY <1>2, <1>6
<1>8. ASSUME NEW z \in Nat, x \in S, x < z PROVE Cardinality(T(x)) < Cardinality(T(z))
  <2>0. \A y \in S : y < x => y < z
    <3>1. \A y \in S : y \in Nat  OBVIOUS
    <3>. QED  BY <1>8, <3>1
  <2>1. T(z) \in SUBSET S /\ T(x) \subseteq T(z) /\ x \in T(z)  BY <1>8, <2>0
  <2>. QED  BY <1>6, <2>1
<1>9. \A z : RankIn(S, z) = Cardinality(T(z))  BY DEF RankIn
<1>. HIDE DEF T, n
<1>10. Cardinality(T(x)) \in 0 .. n  BY <1>1, <1>3, <1>4
<1>. QED  BY <1>1, <1>4, <1>5, <1>7, <1>8, <1>9, <1>10 DEF n

\* s lists S, going up or going down
Lists(s, S, up) ==
    /\ s \in Seq(S) /\ Len(s) = Cardinality(S) /\ DOMAIN s = 1 .. Cardinality(S)
    /\ Cardinality(S) \in Nat
    /\ \A i \in 1 .. Cardinality(S) : s[i] \in S
    /\ \A x \in S : \E i \in 1 .. Cardinality(S) : s[i] = x
    /\ \A i, j \in 1 .. Cardinality(S) : i < j => IF up THEN s[i] < s[j] ELSE s[j] < s[i]

\* A set of slots, listed upwards.
LEMMA AscendingIs ==
    ASSUME NEW S \in SUBSET Nat, IsFiniteSet(S)
    PROVE  Lists(Ascending(S), S, TRUE)
<1>. DEFINE n == Cardinality(S)
            f == [x \in S |-> RankIn(S, x)]
            a == Ascending(S)
<1>1. n \in Nat  BY FS_CardinalityType
<1>2. \A x \in S : f[x] \in 0 .. n - 1 /\ f[x] \in Nat
  <2>1. ASSUME NEW x \in S PROVE f[x] \in 0 .. n - 1 /\ f[x] \in Nat
    <3>1. x \in Nat  OBVIOUS
    <3>2. RankIn(S, x) \in Nat /\ RankIn(S, x) < n  BY <3>1, RankIs
    <3>3. f[x] = RankIn(S, x)  OBVIOUS
    <3>. HIDE DEF f, n
    <3>. QED  BY <1>1, <3>2, <3>3
  <2>. QED  BY <2>1
<1>3. \A x, z \in S : x < z => f[x] < f[z]
  <2>1. ASSUME NEW x \in S, NEW z \in S, x < z PROVE RankIn(S, x) < RankIn(S, z)
    <3>1. x \in Nat /\ z \in Nat  OBVIOUS
    <3>. QED  BY <2>1, <3>1, RankIs
  <2>. QED  BY <2>1
<1>4. \A x, z \in S : f[x] = f[z] => x = z
  <2>1. ASSUME NEW x \in S, NEW z \in S, f[x] = f[z], x # z PROVE FALSE
    <3>1. x \in Nat /\ z \in Nat  OBVIOUS
    <3>2. x < z \/ z < x  BY <2>1, <3>1
    <3>. HIDE DEF f
    <3>3. f[x] \in Nat /\ f[z] \in Nat  BY <1>2
    <3>. QED  BY <1>3, <2>1, <3>2, <3>3
  <2>. QED  BY <2>1
<1>5. f \in Surjection(S, 0 .. n - 1)
  <2>0. f \in [S -> 0 .. n - 1]  BY <1>2
  <2>1. f \in Injection(S, 0 .. n - 1)
    <3>. HIDE DEF f, n
    <3>. QED  BY <1>4, <2>0 DEF Injection, IsInjective
  <2>2. IsFiniteSet(0 .. n - 1) /\ Cardinality(0 .. n - 1) = n
    <3>. HIDE DEF n
    <3>. QED  BY <1>1, FS_Interval
  <2>. HIDE DEF f
  <2>. QED  BY <2>1, <2>2, FS_Injection
<1>6. ASSUME NEW i \in 1 .. n PROVE \E x \in S : f[x] = i - 1
  <2>1. i - 1 \in 0 .. n - 1  BY <1>1
  <2>. HIDE DEF f
  <2>. QED  BY <1>5, <2>1 DEF Surjection
<1>7. a = [i \in 1 .. n |-> CHOOSE x \in S : f[x] = i - 1]
  <2>1. a = [i \in 1 .. n |-> CHOOSE x \in S : RankIn(S, x) = i - 1]
    BY DEF Ascending, RankIn
  <2>2. ASSUME NEW i \in 1 .. n
        PROVE  (CHOOSE x \in S : RankIn(S, x) = i - 1) = CHOOSE x \in S : f[x] = i - 1
    <3>1. PICK x \in S : f[x] = i - 1  BY <1>6
    <3>2. \A y \in S : f[y] = RankIn(S, y)  OBVIOUS
    <3>. HIDE DEF f
    <3>3. \A y \in S : (f[y] = i - 1 <=> y = x) /\ (RankIn(S, y) = i - 1 <=> y = x)
      BY <1>4, <3>1, <3>2
    <3>. QED  BY <3>3
  <2>. HIDE DEF f, n
  <2>. QED  BY <2>1, <2>2
<1>8. ASSUME NEW i \in 1 .. n PROVE a[i] \in S /\ f[a[i]] = i - 1
  <2>1. a[i] = CHOOSE x \in S : f[x] = i - 1
    <3>. HIDE DEF f, a
    <3>. QED  BY <1>7
  <2>. HIDE DEF f, a
  <2>. QED  BY <1>6, <2>1
<1>9. a \in [1 .. n -> S]
  <2>. HIDE DEF f, a
  <2>. QED  BY <1>7, <1>8
<1>10. a \in Seq(S) /\ Len(a) = n /\ DOMAIN a = 1 .. n
  <2>. HIDE DEF f, a, n
  <2>. QED  BY <1>1, <1>9, ListOf
<1>11. ASSUME NEW x \in S PROVE \E i \in 1 .. n : a[i] = x
  <2>. HIDE DEF f, a, n
  <2>1. f[x] + 1 \in 1 .. n /\ (f[x] + 1) - 1 = f[x]
    <3>1. f[x] \in 0 .. n - 1  BY <1>2
    <3>. QED  BY <1>1, <3>1
  <2>. DEFINE i == f[x] + 1
  <2>2. i \in 1 .. n /\ i - 1 = f[x]  BY <2>1
  <2>. HIDE DEF i
  <2>3. a[i] \in S /\ f[a[i]] = f[x]  BY <1>8, <2>2
  <2>. QED  BY <1>4, <2>2, <2>3
<1>12. ASSUME NEW i \in 1 .. n, NEW j \in 1 .. n, i < j PROVE a[i] < a[j]
  <2>. HIDE DEF f, a, n
  <2>1. a[i] \in S /\ a[j] \in S /\ f[a[i]] = i - 1 /\ f[a[j]] = j - 1  BY <1>8
  <2>2. a[i] \in Nat /\ a[j] \in Nat  BY <2>1
  <2>3. ~(a[j] < a[i]) /\ a[i] # a[j]
    <3>1. i - 1 < j - 1 /\ i - 1 # j - 1 /\ ~(j - 1 < i - 1)  BY <1>12
    <3>. QED  BY <1>3, <2>1, <3>1
  <2>. QED  BY <2>2, <2>3
<1>. HIDE DEF f, a
<1>. QED  BY <1>1, <1>8, <1>10, <1>11, <1>12 DEF Lists, a

\* A set of slots, listed downwards.
LEMMA DescendingIs ==
    ASSUME NEW S \in SUBSET Nat, IsFiniteSet(S)
    PROVE  Lists(Descending(S), S, FALSE)
<1>. DEFINE n == Cardinality(S)
            a == Ascending(S)
            d == Descending(S)
<1>1. Lists(a, S, TRUE)  BY AscendingIs
<1>. HIDE DEF a
<1>2. n \in Nat /\ Len(a) = n /\ \A i \in 1 .. n : a[i] \in S  BY <1>1 DEF Lists
<1>3. d = [i \in 1 .. n |-> a[(n - i) + 1]]  BY <1>2 DEF Descending, Reverse, a
<1>4. \A i \in 1 .. n : (n - i) + 1 \in 1 .. n  BY <1>2
<1>. HIDE DEF d
<1>5. \A i \in 1 .. n : d[i] = a[(n - i) + 1]  BY <1>3
<1>6. d \in [1 .. n -> S]
  <2>. HIDE DEF n
  <2>. QED  BY <1>2, <1>3, <1>4
<1>7. d \in Seq(S) /\ Len(d) = n /\ DOMAIN d = 1 .. n
  <2>. HIDE DEF n
  <2>. QED  BY <1>2, <1>6, ListOf
<1>8. ASSUME NEW x \in S PROVE \E i \in 1 .. n : d[i] = x
  <2>1. PICK j \in 1 .. n : a[j] = x  BY <1>1 DEF Lists
  <2>. HIDE DEF n
  <2>2. (n - j) + 1 \in 1 .. n /\ (n - ((n - j) + 1)) + 1 = j  BY <1>2
  <2>. QED  BY <1>5, <2>1, <2>2
<1>9. ASSUME NEW i \in 1 .. n, NEW j \in 1 .. n, i < j PROVE d[j] < d[i]
  <2>1. (n - j) + 1 < (n - i) + 1
    <3>. HIDE DEF n
    <3>. QED  BY <1>2, <1>9
  <2>2. a[(n - j) + 1] < a[(n - i) + 1]  BY <1>1, <1>4, <2>1 DEF Lists
  <2>. QED  BY <1>5, <2>2
<1>10. \A i \in 1 .. n : d[i] \in S  BY <1>6
<1>. QED  BY <1>2, <1>7, <1>8, <1>9, <1>10 DEF Lists, d

-----------------------------------------------------------------------------
(* Banking: distances.                                                     *)

\* What the assumption on the constants gives the ladder.
LEMMA ConstantsAre ==
    /\ Chunk \in Nat /\ Chunk >= 3 /\ FreeStride \in Nat /\ FreeStride >= 2 /\ FreeStride < Chunk
    /\ Word \in Nat /\ Word >= 1
    /\ FreeNum \in Nat /\ FreeNum >= 1 /\ FreeDen \in Nat
<1>1. Chunk \in Nat /\ FreeStride \in 2 .. Chunk - 1  BY SlotOpsAssumption
<1>. QED  BY <1>1, SlotOpsAssumption

\* Multiples of a stride rise with the factor.
LEMMA Times ==
    ASSUME NEW c \in Nat, NEW i \in Nat, NEW j \in Nat
    PROVE  /\ c * i \in Nat
           /\ i <= j => c * i <= c * j
           /\ i < j => c * i + c <= c * j
<1>1. c * i \in Nat  OBVIOUS
<1>2. ASSUME NEW d \in Nat, j = i + d PROVE c * j = c * i + c * d /\ c * d \in Nat
  BY <1>2
<1>3. ASSUME i <= j PROVE c * i <= c * j
  <2>. DEFINE d == j - i
  <2>1. d \in Nat /\ j = i + d  BY <1>3
  <2>. HIDE DEF d
  <2>2. c * j = c * i + c * d /\ c * d \in Nat  BY <1>2, <2>1
  <2>. QED  BY <1>1, <2>2
<1>4. ASSUME i < j PROVE c * i + c <= c * j
  <2>. DEFINE d == j - i - 1
  <2>1. d \in Nat /\ j = i + (d + 1)  BY <1>4
  <2>. HIDE DEF d
  <2>2. c * j = c * i + c * (d + 1)  BY <1>2, <2>1
  <2>3. c * (d + 1) = c * d + c /\ c * d \in Nat  BY <2>1
  <2>. QED  BY <1>1, <2>2, <2>3
<1>. QED  BY <1>1, <1>3, <1>4

\* The sentinels of a bank are a chunk and one apart.
LEMMA SentinelIs ==
    ASSUME NEW i \in Nat
    PROVE  /\ Sentinel(i) \in Nat /\ Sentinel(i) = Chunk * i + i + Chunk /\ i + Chunk <= Sentinel(i)
           /\ \A j \in Nat : i < j => Sentinel(i) + Chunk + 1 <= Sentinel(j)
<1>0. Chunk \in Nat  BY ConstantsAre
<1>1. \A j \in Nat : Sentinel(j) = Chunk * j + j + Chunk /\ Chunk * j \in Nat
  <2>1. ASSUME NEW j \in Nat PROVE Sentinel(j) = Chunk * j + j + Chunk /\ Chunk * j \in Nat
    <3>1. (Chunk + 1) * j = Chunk * j + j /\ Chunk * j \in Nat  BY <1>0
    <3>. QED  BY <1>0, <3>1 DEF Sentinel
  <2>. QED  BY <2>1
<1>2. ASSUME NEW j \in Nat, i < j PROVE Sentinel(i) + Chunk + 1 <= Sentinel(j)
  <2>1. Chunk * i + Chunk <= Chunk * j  BY <1>0, <1>2, Times
  <2>2. Chunk * i \in Nat /\ Chunk * j \in Nat  BY <1>1
  <2>. DEFINE x == Chunk * i
              y == Chunk * j
  <2>3. Sentinel(i) = x + i + Chunk /\ Sentinel(j) = y + j + Chunk  BY <1>1
  <2>. HIDE DEF x, y
  <2>. QED  BY <1>0, <1>2, <2>1, <2>2, <2>3 DEF x, y
<1>. QED  BY <1>0, <1>1, <1>2

\* the holes at the distances D are banked: mx is the greatest, none is as near as g
Banks(D, mx, g, w) ==
    /\ mx \in Nat /\ D \in SUBSET (1 .. mx) /\ mx \in D
    /\ w = Cardinality(D) /\ w \in Nat /\ w >= 1
    /\ g = Drag(D) /\ g \in Nat /\ Chunk * g <= w - 1
    /\ \A h \in D : g <= h

\* Holes found at the budget of the bank satisfy its sentinels.
LEMMA BanksAre ==
    ASSUME NEW mx \in Nat, NEW D \in SUBSET (1 .. mx), mx \in D,
           NEW first \in D, \A h \in D : first <= h, Cardinality(D) <= Chunk * first + 1
    PROVE  Banks(D, mx, Drag(D), Cardinality(D)) /\ IsFiniteSet(D)
<1>. DEFINE w == Cardinality(D)
            g == Drag(D)
<1>0. Chunk \in Nat /\ Chunk > 0 /\ first \in Nat  BY ConstantsAre
<1>1. IsFiniteSet(D)
  <2>1. IsFiniteSet(1 .. mx)  BY FS_Interval
  <2>. QED  BY <2>1, FS_Subset
<1>2. w \in Nat /\ w >= 1
  <2>1. w \in Nat /\ w # 0  BY <1>1, FS_CardinalityType, FS_EmptySet
  <2>. QED  BY <2>1
<1>3. g = (w - 1) \div Chunk  BY DEF Drag
<1>. DEFINE x == Chunk * g
            y == Chunk * first
<1>4. g \in Nat /\ x <= w - 1
  <2>. HIDE DEF w, g
  <2>1. w - 1 \in Nat  BY <1>2
  <2>2. /\ (w - 1) \div Chunk \in Nat /\ (w - 1) % Chunk \in 0 .. Chunk - 1
        /\ w - 1 = ((w - 1) \div Chunk) * Chunk + ((w - 1) % Chunk)
    BY <1>0, <2>1, Quotient
  <2>3. g * Chunk = Chunk * g /\ g * Chunk \in Nat  BY <1>0, <1>3, <2>2
  <2>. DEFINE z == g * Chunk
              t == (w - 1) % Chunk
  <2>4. w - 1 = z + t /\ t \in 0 .. Chunk - 1 /\ z = x /\ z \in Nat /\ g \in Nat
    BY <1>3, <2>2, <2>3
  <2>. HIDE DEF z, t, x
  <2>. QED  BY <1>0, <2>1, <2>4
<1>5. g <= first
  <2>. HIDE DEF w, g
  <2>1. SUFFICES ASSUME first < g PROVE FALSE  BY <1>0, <1>4
  <2>2. y + Chunk <= x /\ x \in Nat /\ y \in Nat  BY <1>0, <1>4, <2>1, Times
  <2>3. w <= y + 1  BY DEF w
  <2>. HIDE DEF x, y
  <2>. QED  BY <1>0, <1>2, <1>4, <2>2, <2>3
<1>6. \A h \in D : g <= h
  <2>1. \A h \in D : h \in Nat /\ first <= h  OBVIOUS
  <2>. HIDE DEF g
  <2>. QED  BY <1>0, <1>4, <1>5, <2>1
<1>. HIDE DEF w, g
<1>7. Banks(D, mx, g, w)  BY <1>2, <1>4, <1>6 DEF Banks, g, w
<1>. QED  BY <1>1, <1>7 DEF g, w

Over(D, x) == {h \in D : h >= x}
Inner(D, x, y) == {h \in D : x <= h /\ h < y}

\* How many holes of a bank lie at or beyond a distance.
LEMMA OverIs ==
    ASSUME NEW D, NEW mx, NEW g, NEW w, Banks(D, mx, g, w), NEW x \in Nat
    PROVE  /\ IsFiniteSet(Over(D, x)) /\ Cardinality(Over(D, x)) \in Nat
           /\ Cardinality(Over(D, x)) <= w
           /\ x > mx => Cardinality(Over(D, x)) = 0
           /\ x <= mx => Cardinality(Over(D, x)) >= 1
                         /\ Cardinality(Over(D, x)) <= mx - x + 1
           /\ x \notin D /\ x <= mx => Cardinality(Over(D, x)) <= mx - x
           /\ \A y \in Nat : x <= y =>
                 /\ Cardinality(Inner(D, x, y)) \in Nat
                 /\ Cardinality(Over(D, x)) = Cardinality(Over(D, y)) + Cardinality(Inner(D, x, y))
                 /\ Cardinality(Inner(D, x, y)) <= y - x
                 /\ x \notin D /\ x < y => Cardinality(Inner(D, x, y)) + 1 <= y - x
<1>. DEFINE n(z) == Cardinality(Over(D, z))
<1>0. mx \in Nat /\ D \in SUBSET (1 .. mx) /\ mx \in D /\ w = Cardinality(D)  BY DEF Banks
<1>1. IsFiniteSet(D) /\ IsFiniteSet(1 .. mx)
  <2>1. IsFiniteSet(1 .. mx)  BY <1>0, FS_Interval
  <2>. QED  BY <1>0, <2>1, FS_Subset
<1>2. \A h \in D : h \in Nat /\ 1 <= h /\ h <= mx  BY <1>0
<1>3. \A z : IsFiniteSet(Over(D, z)) /\ n(z) \in Nat /\ n(z) <= w
  <2>1. \A z : Over(D, z) \in SUBSET D  BY DEF Over
  <2>. QED  BY <1>0, <1>1, <2>1, FS_Subset, FS_CardinalityType
<1>4. x > mx => n(x) = 0
  <2>1. SUFFICES ASSUME x > mx PROVE n(x) = 0  OBVIOUS
  <2>2. Over(D, x) = {}
    <3>1. \A h \in D : ~(h >= x)  BY <1>0, <1>2, <2>1
    <3>. QED  BY <3>1 DEF Over
  <2>. QED  BY <2>2, FS_EmptySet
<1>5. x <= mx => n(x) >= 1
  <2>1. SUFFICES ASSUME x <= mx PROVE n(x) >= 1  OBVIOUS
  <2>2. mx \in Over(D, x)  BY <1>0, <2>1 DEF Over
  <2>3. n(x) # 0  BY <1>3, <2>2, FS_EmptySet
  <2>4. n(x) \in Nat  BY <1>3
  <2>. HIDE DEF n
  <2>. QED  BY <2>3, <2>4
<1>6. x <= mx => n(x) <= mx - x + 1
  <2>1. SUFFICES ASSUME x <= mx PROVE n(x) <= mx - x + 1  OBVIOUS
  <2>2. Over(D, x) \in SUBSET (x .. mx)
    <3>1. \A h \in D : h >= x => h \in x .. mx  BY <1>0, <1>2
    <3>. QED  BY <3>1 DEF Over
  <2>3. IsFiniteSet(x .. mx) /\ Cardinality(x .. mx) = mx - x + 1  BY <1>0, <2>1, FS_Interval
  <2>. QED  BY <2>2, <2>3, FS_Subset
<1>7. x \notin D /\ x <= mx => n(x) <= mx - x
  <2>1. SUFFICES ASSUME x \notin D, x <= mx PROVE n(x) <= mx - x  OBVIOUS
  <2>2. Over(D, x) \in SUBSET (x + 1 .. mx)
    <3>1. \A h \in D : h >= x => h \in x + 1 .. mx
      <4>1. \A h \in D : h # x  BY <2>1
      <4>. QED  BY <1>0, <1>2, <4>1
    <3>. QED  BY <3>1 DEF Over
  <2>3. IsFiniteSet(x + 1 .. mx) /\ Cardinality(x + 1 .. mx) = mx - x
    <3>1. x # mx  BY <1>0, <2>1
    <3>. QED  BY <1>0, <2>1, <3>1, FS_Interval
  <2>. QED  BY <2>2, <2>3, FS_Subset
<1>8. ASSUME NEW y \in Nat, x <= y
      PROVE  LET i == Cardinality(Inner(D, x, y))
             IN  /\ i \in Nat /\ n(x) = n(y) + i /\ i <= y - x
                 /\ x \notin D /\ x < y => i + 1 <= y - x
  <2>. DEFINE I == Inner(D, x, y)
              i == Cardinality(I)
  <2>1. IsFiniteSet(I) /\ i \in Nat
    <3>1. I \in SUBSET D  BY DEF Inner
    <3>. QED  BY <1>1, <3>1, FS_Subset, FS_CardinalityType
  <2>2. n(x) = n(y) + i
    <3>1. Over(D, x) = Over(D, y) \union I /\ Over(D, y) \intersect I = {}
      BY <1>2, <1>8 DEF Over, Inner
    <3>2. Cardinality(Over(D, y) \intersect I) = 0  BY <3>1, FS_EmptySet
    <3>3. n(x) = n(y) + i - 0  BY <1>3, <2>1, <3>1, <3>2, FS_Union
    <3>. QED  BY <1>3, <2>1, <3>3
  <2>3. i <= y - x
    <3>1. I \in SUBSET (x .. y - 1)  BY <1>2, <1>8 DEF Inner
    <3>2. IsFiniteSet(x .. y - 1) /\ Cardinality(x .. y - 1) = y - x
      <4>1. IsFiniteSet(x .. y - 1)
            /\ Cardinality(x .. y - 1) = IF x > y - 1 THEN 0 ELSE (y - 1) - x + 1
        BY FS_Interval
      <4>. QED  BY <1>8, <4>1
    <3>. QED  BY <3>1, <3>2, FS_Subset
  <2>4. x \notin D /\ x < y => i + 1 <= y - x
    <3>1. SUFFICES ASSUME x \notin D, x < y PROVE i + 1 <= y - x  OBVIOUS
    <3>2. I \in SUBSET (x + 1 .. y - 1)  BY <1>2, <3>1 DEF Inner
    <3>3. IsFiniteSet(x + 1 .. y - 1) /\ Cardinality(x + 1 .. y - 1) = y - x - 1
      <4>1. IsFiniteSet(x + 1 .. y - 1)
            /\ Cardinality(x + 1 .. y - 1) = IF x + 1 > y - 1 THEN 0 ELSE (y - 1) - (x + 1) + 1
        BY FS_Interval
      <4>. QED  BY <3>1, <4>1
    <3>4. i <= y - x - 1  BY <3>2, <3>3, FS_Subset
    <3>. HIDE DEF i
    <3>. QED  BY <2>1, <3>4
  <2>. QED  BY <2>1, <2>2, <2>3, <2>4
<1>. QED  BY <1>3, <1>4, <1>5, <1>6, <1>7, <1>8

\* Where a bank carries an element at a distance: outwards, within the bank.
LEMMA CrossedIs ==
    ASSUME NEW D, NEW mx, NEW g, NEW w, Banks(D, mx, g, w), NEW x \in Nat
    PROVE  /\ g + w <= mx + 1 /\ Crossed(D, x) \in Nat
           /\ x < g => Crossed(D, x) = Sentinel(x) /\ Crossed(D, x) + 2 <= w + g
                       /\ x <= mx /\ x \notin D
           /\ x \notin D /\ x <= mx => x < Crossed(D, x) /\ Crossed(D, x) <= mx
           /\ x > mx => Crossed(D, x) = x /\ ~(x < g)
           /\ x >= g => /\ Crossed(D, x) = x + Cardinality(Over(D, x))
                        /\ Crossed(D, x) >= w + g
<1>. DEFINE n == Cardinality(Over(D, x))
            c == Crossed(D, x)
<1>0. /\ mx \in Nat /\ mx \in D /\ D \in SUBSET (1 .. mx) /\ g \in Nat /\ w \in Nat /\ w >= 1
      /\ Chunk * g <= w - 1 /\ g = Drag(D) /\ \A h \in D : g <= h /\ h \in Nat
  BY DEF Banks
<1>1. n \in Nat /\ (x <= mx => n >= 1) /\ (x \notin D /\ x <= mx => n <= mx - x)
      /\ (x > mx => n = 0)
  BY OverIs
<1>2. c = IF x < g THEN Sentinel(x) ELSE x + n
  <2>1. x \in 0 .. g - 1 <=> x < g  BY <1>0
  <2>2. Over(D, x) = {h \in D : h >= x}  BY DEF Over
  <2>. QED  BY <1>0, <2>1, <2>2 DEF Crossed
<1>3. g + w <= mx + 1
  <2>1. g <= mx  BY <1>0
  <2>2. Over(D, g) = D  BY <1>0 DEF Over
  <2>3. Cardinality(Over(D, g)) <= mx - g + 1  BY <1>0, <2>1, OverIs
  <2>4. Cardinality(Over(D, g)) = w  BY <2>2 DEF Banks
  <2>. QED  BY <1>0, <2>3, <2>4
<1>4. x < g => Sentinel(x) + 2 <= w + g /\ Sentinel(x) \in Nat /\ x < Sentinel(x)
  <2>1. SUFFICES ASSUME x < g
                 PROVE  Sentinel(x) + 2 <= w + g /\ Sentinel(x) \in Nat /\ x < Sentinel(x)
    OBVIOUS
  <2>2. /\ Sentinel(x) \in Nat /\ Sentinel(x) = Chunk * x + x + Chunk /\ x + Chunk <= Sentinel(x)
    BY SentinelIs
  <2>3. Chunk \in Nat /\ Chunk >= 3  BY ConstantsAre
  <2>4. Chunk * x + Chunk <= Chunk * g /\ Chunk * x \in Nat /\ Chunk * g \in Nat
    BY <1>0, <2>1, <2>3, Times
  <2>. DEFINE a == Chunk * x
              e == Chunk * g
  <2>5. Sentinel(x) = a + x + Chunk /\ a + Chunk <= e /\ e <= w - 1 /\ a \in Nat /\ e \in Nat
    BY <1>0, <2>2, <2>4
  <2>. HIDE DEF a, e
  <2>. QED  BY <1>0, <2>1, <2>2, <2>3, <2>5
<1>5. x >= g => c >= w + g
  <2>1. SUFFICES ASSUME x >= g PROVE c >= w + g  OBVIOUS
  <2>2. Over(D, g) = D  BY <1>0 DEF Over
  <2>3. /\ Cardinality(Inner(D, g, x)) \in Nat
        /\ Cardinality(Over(D, g)) = n + Cardinality(Inner(D, g, x))
        /\ Cardinality(Inner(D, g, x)) <= x - g
    BY <1>0, <2>1, OverIs
  <2>4. Cardinality(Over(D, g)) = w  BY <2>2 DEF Banks
  <2>. DEFINE i == Cardinality(Inner(D, g, x))
  <2>. HIDE DEF i, n, c
  <2>5. w = n + i /\ i \in Nat /\ i <= x - g  BY <2>3, <2>4 DEF i
  <2>6. c = x + n  BY <1>0, <1>2, <2>1
  <2>. QED  BY <1>0, <1>1, <2>1, <2>5, <2>6
<1>6. x < g => x \notin D  BY <1>0
<1>. HIDE DEF n, c
<1>7. c \in Nat  BY <1>0, <1>1, <1>2, <1>4
<1>8. x < g => c = Sentinel(x) /\ c + 2 <= w + g /\ x <= mx
  BY <1>0, <1>2, <1>3, <1>4
<1>9. x \notin D /\ x <= mx => x < c /\ c <= mx
  <2>1. CASE x < g  BY <1>0, <1>2, <1>3, <1>4, <2>1
  <2>2. CASE ~(x < g)  BY <1>0, <1>1, <1>2, <2>2
  <2>. QED  BY <2>1, <2>2
<1>10. x > mx => c = x /\ ~(x < g)  BY <1>0, <1>1, <1>2, <1>3
<1>11. x >= g => c = x + n  BY <1>0, <1>2
<1>. QED  BY <1>3, <1>5, <1>6, <1>7, <1>8, <1>9, <1>10, <1>11 DEF c, n

\* A bank carries no element past another.
LEMMA CrossedRises ==
    ASSUME NEW D, NEW mx, NEW g, NEW w, Banks(D, mx, g, w), NEW x \in Nat, NEW y \in Nat,
           x \notin D, y \notin D, x < y
    PROVE  Crossed(D, x) < Crossed(D, y)
<1>0. g \in Nat /\ w \in Nat  BY DEF Banks
<1>1. Crossed(D, x) \in Nat /\ Crossed(D, y) \in Nat  BY CrossedIs
<1>2. CASE y < g
  <2>1. x < g  BY <1>0, <1>2
  <2>2. Crossed(D, x) = Sentinel(x) /\ Crossed(D, y) = Sentinel(y)  BY <1>2, <2>1, CrossedIs
  <2>3. Sentinel(x) + Chunk + 1 <= Sentinel(y) /\ Sentinel(x) \in Nat /\ Sentinel(y) \in Nat
    BY SentinelIs
  <2>4. Chunk \in Nat  BY ConstantsAre
  <2>. QED  BY <2>2, <2>3, <2>4
<1>3. CASE ~(y < g) /\ x < g
  <2>1. Crossed(D, x) + 2 <= w + g  BY <1>3, CrossedIs
  <2>2. Crossed(D, y) >= w + g
    <3>1. y >= g  BY <1>0, <1>3
    <3>. QED  BY <3>1, CrossedIs
  <2>. QED  BY <1>0, <1>1, <2>1, <2>2
<1>4. CASE ~(x < g)
  <2>1. x >= g /\ y >= g  BY <1>0, <1>4
  <2>2. Crossed(D, x) = x + Cardinality(Over(D, x)) /\ Crossed(D, y) = y + Cardinality(Over(D, y))
    BY <2>1, CrossedIs
  <2>. DEFINE a == Cardinality(Over(D, x))
              e == Cardinality(Over(D, y))
              i == Cardinality(Inner(D, x, y))
  <2>3. a \in Nat /\ e \in Nat /\ i \in Nat /\ a = e + i /\ i + 1 <= y - x
    <3>1. x <= y  OBVIOUS
    <3>. QED  BY <3>1, OverIs
  <2>. HIDE DEF a, e, i
  <2>4. x + a < y + e  BY <2>3
  <2>. QED  BY <2>2, <2>4 DEF a, e
<1>. QED  BY <1>2, <1>3, <1>4

\* The elements beyond the sentinels fill the slots beyond the open ones.
LEMMA CrossedOnto ==
    ASSUME NEW D, NEW mx, NEW g, NEW w, Banks(D, mx, g, w), NEW y \in w + g .. mx
    PROVE  \E x \in Nat : x >= g /\ x <= mx /\ x \notin D /\ Crossed(D, x) = y
<1>. DEFINE S == g .. mx
            X == S \ D
            T == w + g .. mx
            f == [x \in X |-> Crossed(D, x)]
<1>0. /\ mx \in Nat /\ D \in SUBSET (1 .. mx) /\ g \in Nat /\ w \in Nat /\ w = Cardinality(D)
      /\ \A h \in D : g <= h /\ h \in Nat /\ h <= mx
  BY DEF Banks
<1>1. g + w <= mx + 1  BY <1>0, CrossedIs
<1>2. IsFiniteSet(S) /\ Cardinality(S) = mx - g + 1
  <2>1. IsFiniteSet(S) /\ Cardinality(S) = IF g > mx THEN 0 ELSE mx - g + 1
    BY <1>0, FS_Interval
  <2>2. g <= mx  BY DEF Banks
  <2>. QED  BY <1>0, <2>1, <2>2
<1>3. S \intersect D = D
  <2>1. \A h \in D : h \in S  BY <1>0
  <2>. HIDE DEF S
  <2>. QED  BY <2>1
<1>4. IsFiniteSet(X) /\ Cardinality(X) = mx - g + 1 - w
  <2>1. IsFiniteSet(X) /\ Cardinality(X) = Cardinality(S) - Cardinality(S \intersect D)
    BY <1>2, FS_Difference
  <2>2. Cardinality(S \intersect D) = w  BY <1>0, <1>3
  <2>. HIDE DEF X, S
  <2>. QED  BY <1>0, <1>2, <2>1, <2>2
<1>5. IsFiniteSet(T) /\ Cardinality(T) = mx - g + 1 - w
  <2>. DEFINE v == w + g
  <2>0. v \in Int /\ mx \in Int /\ v <= mx + 1 /\ T = v .. mx  BY <1>0, <1>1
  <2>. HIDE DEF T, v
  <2>1. IsFiniteSet(v .. mx) /\ Cardinality(v .. mx) = IF v > mx THEN 0 ELSE mx - v + 1
    BY <2>0, FS_Interval
  <2>2. Cardinality(v .. mx) = mx - v + 1  BY <2>0, <2>1
  <2>. QED  BY <1>0, <2>0, <2>1, <2>2 DEF v
<1>6. \A x \in X : x \in Nat /\ x >= g /\ x <= mx /\ x \notin D  BY <1>0
<1>7. f \in [X -> T]
  <2>1. ASSUME NEW x \in X PROVE Crossed(D, x) \in T
    <3>1. x \in Nat /\ x >= g /\ x <= mx /\ x \notin D  BY <1>6
    <3>2. Crossed(D, x) >= w + g /\ Crossed(D, x) <= mx /\ Crossed(D, x) \in Nat
      BY <3>1, CrossedIs
    <3>. QED  BY <1>0, <3>2
  <2>. HIDE DEF X, T
  <2>. QED  BY <2>1
<1>8. \A x, z \in X : f[x] = f[z] => x = z
  <2>1. ASSUME NEW x \in X, NEW z \in X, Crossed(D, x) = Crossed(D, z), x # z PROVE FALSE
    <3>1. x \in Nat /\ x \notin D /\ z \in Nat /\ z \notin D  BY <1>6
    <3>2. Crossed(D, x) \in Nat  BY <3>1, CrossedIs
    <3>3. x < z \/ z < x  BY <2>1, <3>1
    <3>4. Crossed(D, x) < Crossed(D, z) \/ Crossed(D, z) < Crossed(D, x)
      BY <3>1, <3>3, CrossedRises
    <3>. QED  BY <2>1, <3>2, <3>4
  <2>. HIDE DEF X
  <2>. QED  BY <2>1
<1>9. f \in Surjection(X, T)
  <2>. HIDE DEF X, T, f
  <2>1. f \in Injection(X, T)  BY <1>7, <1>8 DEF Injection, IsInjective
  <2>. QED  BY <1>4, <1>5, <2>1, FS_Injection
<1>10. \E x \in X : f[x] = y
  <2>. HIDE DEF X, f
  <2>. QED  BY <1>9 DEF Surjection
<1>11. PICK x \in X : Crossed(D, x) = y  BY <1>10
<1>. QED  BY <1>6, <1>11

\* The slots of the mask are those the elements cross to.
LEMMA GatherMaskIs ==
    ASSUME NEW D, NEW mx, NEW g, NEW w, Banks(D, mx, g, w), NEW bits \in SUBSET Int,
           \A x \in Nat : x <= mx => (x \in bits <=> x \notin D),
           NEW y \in Int
    PROVE  y \in GatherMask(D, bits)
             <=> \E x \in bits : y = IF x >= 0 THEN Crossed(D, x) ELSE x
<1>0. /\ mx \in Nat /\ D \in SUBSET (1 .. mx) /\ g \in Nat /\ w \in Nat /\ w = Cardinality(D)
      /\ \A h \in D : g <= h /\ h \in Nat /\ h <= mx
      /\ g = Drag(D) /\ w >= 1
  BY DEF Banks
<1>1. y \in GatherMask(D, bits)
        <=> \/ (y \in bits \/ y \in D) /\ (y < 0 \/ w + g <= y)
            \/ \E i \in 0 .. g - 1 : y = Sentinel(i)
  <2>1. y \in 0 .. w + g - 1 <=> ~(y < 0 \/ w + g <= y)  BY <1>0
  <2>. QED  BY <1>0, <2>1 DEF GatherMask
<1>2. g + w <= mx + 1  BY <1>0, CrossedIs
<1>3. ASSUME NEW x \in bits, y = IF x >= 0 THEN Crossed(D, x) ELSE x
      PROVE  y \in GatherMask(D, bits)
  <2>0. x \in Int  OBVIOUS
  <2>1. CASE x < 0
    <3>1. y = x  BY <1>3, <2>0, <2>1
    <3>. QED  BY <1>1, <2>1, <3>1
  <2>2. CASE x >= 0 /\ x < g
    <3>1. x \in Nat /\ x \in 0 .. g - 1  BY <1>0, <2>0, <2>2
    <3>2. y = Sentinel(x)  BY <1>3, <2>2, <3>1, CrossedIs
    <3>. QED  BY <1>1, <3>1, <3>2
  <2>3. CASE x >= 0 /\ ~(x < g)
    <3>1. x \in Nat /\ x >= g  BY <1>0, <2>0, <2>3
    <3>2. y = Crossed(D, x) /\ y >= w + g  BY <1>3, <2>3, <3>1, CrossedIs
    <3>3. y \in bits \/ y \in D
      <4>1. CASE x > mx
        <5>1. y = x  BY <3>1, <3>2, <4>1, CrossedIs
        <5>. QED  BY <5>1
      <4>2. CASE ~(x > mx)
        <5>1. x <= mx  BY <1>0, <3>1, <4>2
        <5>2. x \notin D  BY <3>1, <5>1
        <5>3. y <= mx /\ y \in Nat  BY <3>1, <3>2, <5>1, <5>2, CrossedIs
        <5>. QED  BY <5>3
      <4>. QED  BY <4>1, <4>2
    <3>. QED  BY <1>1, <3>2, <3>3
  <2>. QED  BY <2>0, <2>1, <2>2, <2>3
<1>4. ASSUME y \in GatherMask(D, bits)
      PROVE  \E x \in bits : y = IF x >= 0 THEN Crossed(D, x) ELSE x
  <2>1. ASSUME NEW i \in 0 .. g - 1, y = Sentinel(i)
        PROVE  \E x \in bits : y = IF x >= 0 THEN Crossed(D, x) ELSE x
    <3>1. i \in Nat /\ i < g /\ i >= 0  BY <1>0
    <3>2. i <= mx /\ i \notin D /\ Crossed(D, i) = Sentinel(i)  BY <3>1, CrossedIs
    <3>3. i \in bits  BY <3>1, <3>2
    <3>. QED  BY <2>1, <3>1, <3>2, <3>3
  <2>2. ASSUME y \in bits \/ y \in D, y < 0
        PROVE  \E x \in bits : y = IF x >= 0 THEN Crossed(D, x) ELSE x
    <3>1. y \notin D  BY <1>0, <2>2
    <3>2. y \in bits /\ ~(y >= 0)  BY <2>2, <3>1
    <3>. QED  BY <3>2
  <2>3. ASSUME y \in bits \/ y \in D, w + g <= y
        PROVE  \E x \in bits : y = IF x >= 0 THEN Crossed(D, x) ELSE x
    <3>1. CASE y > mx
      <4>1. y \notin D /\ y \in Nat /\ y >= 0
        <5>1. y \notin D
          <6>1. \A h \in D : h <= mx  BY <1>0
          <6>2. ~(y <= mx)  BY <1>0, <3>1
          <6>. QED  BY <6>1, <6>2
        <5>. QED  BY <1>0, <3>1, <5>1
      <4>2. Crossed(D, y) = y  BY <3>1, <4>1, CrossedIs
      <4>. QED  BY <2>3, <4>1, <4>2
    <3>2. CASE ~(y > mx)
      <4>1. y \in w + g .. mx  BY <1>0, <2>3, <3>2
      <4>2. PICK x \in Nat : x >= g /\ x <= mx /\ x \notin D /\ Crossed(D, x) = y
        BY <4>1, CrossedOnto
      <4>3. x \in bits /\ x >= 0  BY <4>2
      <4>. QED  BY <4>2, <4>3
    <3>. QED  BY <3>1, <3>2
  <2>. QED  BY <1>1, <1>4, <2>1, <2>2, <2>3
<1>. QED  BY <1>3, <1>4

-----------------------------------------------------------------------------
(* Banking: the holes.                                                     *)

Away(open, right, x) == IF right THEN open + x ELSE open - x
Dist(open, right, p) == IF right THEN p - open ELSE open - p

\* A slot and its distance from the open slot, on either side.
LEMMA AwayIs ==
    ASSUME NEW open \in Int, NEW right \in BOOLEAN, NEW p \in Int
    PROVE  /\ Away(open, right, p) \in Int /\ Dist(open, right, p) \in Int
           /\ Away(open, right, Dist(open, right, p)) = p
           /\ Dist(open, right, Away(open, right, p)) = p
           /\ \A q \in Int : p < q <=>
                IF right THEN Away(open, right, p) < Away(open, right, q)
                ELSE Away(open, right, q) < Away(open, right, p)
           /\ \A q \in Int : p < q <=>
                IF right THEN Dist(open, right, p) < Dist(open, right, q)
                ELSE Dist(open, right, q) < Dist(open, right, p)
BY DEF Away, Dist

\* The hole that a bank is made for.
BankFor(b, spot, hole) ==
    /\ spot \in 0 .. b.cap /\ hole \in Clear(b) /\ Apart(hole, spot) > FreeStride
    /\ (IF hole > spot THEN spot ELSE spot - 1) \notin Clear(b)

\* The holes that are banked: the nearest ones, in order, up to one that is far
\* enough for the sentinels.
Fetched(b, open, right, holes, w) ==
    /\ holes \in Seq(Nat) /\ Len(holes) = w /\ DOMAIN holes = 1 .. w /\ w \in Nat /\ w >= 1
    /\ \A i \in 1 .. w : holes[i] \in Clear(b) /\ Dist(open, right, holes[i]) >= 1
    /\ \A i, j \in 1 .. w : i < j => Dist(open, right, holes[i]) < Dist(open, right, holes[j])
    /\ \A p \in Clear(b) :
          0 <= Dist(open, right, p) /\ Dist(open, right, p) <= Dist(open, right, holes[w])
             => \E i \in 1 .. w : holes[i] = p
    /\ w <= Chunk * Dist(open, right, holes[1]) + 1

\* The holes that a bank fetches are clear, on one side, and near enough.
LEMMA FetchedIs ==
    ASSUME NEW b, Good(b), NEW spot, NEW hole, BankFor(b, spot, hole)
    PROVE  LET right == hole > spot
               open == IF right THEN spot ELSE spot - 1
               holes == Kept(open, FetchHoles(b, spot, right, Apart(hole, spot) \div FreeStride))
           IN  Fetched(b, open, right, holes, Len(holes))
<1>. DEFINE right == hole > spot
            open == IF right THEN spot ELSE spot - 1
            want == Apart(hole, spot) \div FreeStride
            S == IF right THEN {h \in Clear(b) : h >= spot} ELSE {h \in Clear(b) : h < spot}
            L == IF right THEN Ascending(S) ELSE Descending(S)
            n == Cardinality(S)
            stops == {i \in DOMAIN L : /\ ~ RunMember(b, L[i])
                                       /\ \E j \in 1 .. i - 1 : RunMember(b, L[j])}
            V == {want, Len(L)} \union {i - 1 : i \in stops}
            v == Min(V)
            fetched == FetchHoles(b, spot, right, want)
            near == Apart(open, fetched[1])
            W == {Len(fetched), Chunk * near + 1}
            w == Min(W)
            holes == Kept(open, fetched)
            d(p) == Dist(open, right, p)
<1>0. /\ b.cap \in Nat /\ spot \in Nat /\ hole \in Nat /\ hole # spot /\ hole \in Clear(b)
      /\ open \in Int /\ open \notin Clear(b) /\ right \in BOOLEAN
      /\ Apart(hole, spot) \in Nat /\ Apart(hole, spot) > FreeStride
      /\ Clear(b) \subseteq 0 .. b.cap - 1
  <2>1. b.cap \in Nat  BY GoodTypes
  <2>2. spot \in Nat /\ hole \in Nat /\ hole \in Clear(b) /\ Apart(hole, spot) > FreeStride
        /\ open \notin Clear(b)
    BY <2>1 DEF BankFor, Clear
  <2>3. hole # spot
    <3>1. Apart(spot, spot) = 0  BY <2>2 DEF Apart
    <3>2. FreeStride \in Nat  BY ConstantsAre
    <3>. QED  BY <2>2, <3>1, <3>2
  <2>4. Apart(hole, spot) \in Nat  BY <2>2 DEF Apart
  <2>. QED  BY <2>1, <2>2, <2>3, <2>4 DEF Clear
<1>1. want \in Nat /\ want >= 1
  <2>1. FreeStride \in Nat /\ FreeStride >= 2  BY ConstantsAre
  <2>. DEFINE a == Apart(hole, spot)
              q == want * FreeStride
              r == a % FreeStride
  <2>2. a \in Nat /\ a > FreeStride  BY <1>0
  <2>3. want \in Nat /\ r \in 0 .. FreeStride - 1 /\ a = q + r  BY <2>1, <2>2, Quotient
  <2>4. want = 0 => q = 0  BY <2>1
  <2>. HIDE DEF want, q, r, a
  <2>. QED  BY <2>1, <2>2, <2>3, <2>4
<1>2. S \in SUBSET Nat /\ IsFiniteSet(S) /\ hole \in S /\ \A h \in S : h \in Clear(b) /\ h \in Nat
  <2>1. S \subseteq Clear(b)  OBVIOUS
  <2>2. IsFiniteSet(0 .. b.cap - 1)
    <3>1. b.cap - 1 \in Int /\ 0 \in Int  BY <1>0
    <3>. QED  BY <3>1, FS_Interval
  <2>3. IsFiniteSet(S)  BY <1>0, <2>1, <2>2, FS_Subset
  <2>4. hole \in S  BY <1>0
  <2>. HIDE DEF S
  <2>. QED  BY <1>0, <2>1, <2>3, <2>4
<1>3. Lists(L, S, right)
  <2>1. Lists(Ascending(S), S, TRUE) /\ Lists(Descending(S), S, FALSE)
    <3>. HIDE DEF S
    <3>. QED  BY <1>2, AscendingIs, DescendingIs
  <2>. HIDE DEF S
  <2>2. CASE right  BY <2>1, <2>2 DEF Lists
  <2>3. CASE ~right  BY <2>1, <2>3 DEF Lists
  <2>. QED  BY <2>2, <2>3
<1>4. \A h \in S : h # open /\ d(h) \in Nat /\ d(h) >= 1
  <2>1. ASSUME NEW h \in S PROVE h # open /\ d(h) \in Nat /\ d(h) >= 1
    <3>1. h \in Nat /\ h \in Clear(b) /\ (IF right THEN h >= spot ELSE h < spot)  BY <1>2
    <3>2. h # open  BY <1>0, <3>1
    <3>. QED  BY <1>0, <3>1, <3>2 DEF Dist
  <2>. QED  BY <2>1
<1>5. \A p \in Clear(b) : 0 <= d(p) => p \in S
  BY <1>0 DEF Dist
<1>6. fetched = SubSeq(L, 1, v)
  <2>1. FetchHoles(b, spot, right, want) = Wanted(b, L, want)
    BY DEF FetchHoles
  <2>. HIDE DEF L
  <2>. QED  BY <2>1 DEF Wanted
<1>. HIDE DEF S, L, want
<1>7. n \in Nat /\ n >= 1 /\ Len(L) = n /\ DOMAIN L = 1 .. n /\ L \in Seq(S)
  <2>1. n \in Nat /\ Len(L) = n /\ DOMAIN L = 1 .. n /\ L \in Seq(S)  BY <1>3 DEF Lists
  <2>2. n # 0  BY <1>2, FS_EmptySet
  <2>. QED  BY <2>1, <2>2
<1>. HIDE DEF n
<1>8. \A i \in stops : i - 1 \in Nat /\ i - 1 >= 1
  <2>1. ASSUME NEW i \in stops PROVE i - 1 \in Nat /\ i - 1 >= 1
    <3>1. i \in 1 .. n /\ \E j \in 1 .. i - 1 : RunMember(b, L[j])  BY <1>7
    <3>. QED  BY <1>7, <3>1
  <2>. QED  BY <2>1
<1>. HIDE DEF stops
<1>9. v \in Nat /\ v >= 1 /\ v <= n
  <2>1. V \in SUBSET Nat /\ V # {} /\ n \in V /\ \A x \in V : x >= 1
    BY <1>1, <1>7, <1>8
  <2>. HIDE DEF V
  <2>2. v \in V /\ \A x \in V : v <= x  BY <2>1, LeastIs
  <2>. HIDE DEF v
  <2>. QED  BY <2>1, <2>2
<1>. HIDE DEF V, v, fetched
<1>10. fetched \in Seq(S) /\ Len(fetched) = v /\ \A i \in 1 .. v : fetched[i] = L[i]
  <2>1. v \in 0 .. Len(L)  BY <1>7, <1>9
  <2>. QED  BY <1>6, <1>7, <2>1, PrefixIs
<1>11. fetched[1] = L[1] /\ L[1] \in S
  <2>1. 1 \in 1 .. v /\ 1 \in 1 .. n  BY <1>7, <1>9
  <2>. QED  BY <1>3, <1>10, <2>1 DEF Lists, n
<1>12. near \in Nat /\ near = d(L[1])
  <2>1. L[1] \in Nat /\ (IF right THEN L[1] >= spot ELSE L[1] < spot)  BY <1>2, <1>11 DEF S
  <2>. DEFINE l == L[1]
  <2>. HIDE DEF l
  <2>2. near = Apart(open, l) /\ l \in Nat /\ (IF right THEN l >= spot ELSE l < spot)
    BY <1>11, <2>1 DEF l
  <2>. HIDE DEF near
  <2>3. near \in Nat /\ near = d(l)  BY <1>0, <2>2 DEF Apart, Dist
  <2>. QED  BY <2>3 DEF l
<1>13. w \in Nat /\ w >= 1 /\ w <= v /\ w <= Chunk * d(L[1]) + 1
  <2>1. Chunk * near \in Nat /\ Len(fetched) = v
    <3>1. Chunk \in Nat  BY ConstantsAre
    <3>. HIDE DEF near
    <3>. QED  BY <1>10, <1>12, <3>1
  <2>. DEFINE y == Chunk * near
  <2>2. y \in Nat /\ W = {v, y + 1} /\ y = Chunk * d(L[1])  BY <1>12, <2>1
  <2>3. W \in SUBSET Nat /\ W # {}
    <3>. HIDE DEF W, y
    <3>. QED  BY <1>9, <2>2
  <2>4. w \in W /\ \A x \in W : w <= x
    <3>. HIDE DEF W
    <3>. QED  BY <2>3, LeastIs
  <2>. HIDE DEF W, y, w
  <2>. QED  BY <1>9, <2>2, <2>4
<1>14. holes = SubSeq(fetched, 1, w)  BY DEF Kept
<1>. HIDE DEF holes, w, near
<1>15. holes \in Seq(S) /\ Len(holes) = w /\ \A i \in 1 .. w : holes[i] = L[i]
  <2>1. w \in 0 .. Len(fetched) /\ \A i \in 1 .. w : i \in 1 .. v  BY <1>9, <1>10, <1>13
  <2>2. holes \in Seq(S) /\ Len(holes) = w /\ \A i \in 1 .. w : holes[i] = fetched[i]
    BY <1>10, <1>14, <2>1, PrefixIs
  <2>. QED  BY <1>10, <2>1, <2>2
<1>16. \A i \in 1 .. w : i \in 1 .. n
  <2>1. w \in Nat /\ n \in Nat /\ w <= n
    <3>. HIDE DEF d
    <3>. QED  BY <1>7, <1>9, <1>13
  <2>. QED  BY <2>1
<1>17. \A i \in 1 .. n : L[i] \in S /\ L[i] \in Nat  BY <1>2, <1>3 DEF Lists, n
<1>18. \A i, j \in 1 .. n : i < j => d(L[i]) < d(L[j])
  <2>1. ASSUME NEW i \in 1 .. n, NEW j \in 1 .. n, i < j PROVE d(L[i]) < d(L[j])
    <3>1. IF right THEN L[i] < L[j] ELSE L[j] < L[i]  BY <1>3, <2>1 DEF Lists, n
    <3>2. L[i] \in Nat /\ L[j] \in Nat  BY <1>17
    <3>. DEFINE x == L[i]
                y == L[j]
    <3>. HIDE DEF x, y
    <3>3. d(x) < d(y)  BY <1>0, <3>1, <3>2 DEF Dist, x, y
    <3>. QED  BY <3>3 DEF x, y
  <2>. QED  BY <2>1
<1>19. ASSUME NEW p \in Clear(b), 0 <= d(p), d(p) <= d(holes[w])
       PROVE  \E i \in 1 .. w : holes[i] = p
  <2>1. p \in S  BY <1>5, <1>19
  <2>2. PICK j \in 1 .. n : L[j] = p  BY <1>3, <2>1 DEF Lists, n
  <2>3. w \in 1 .. w /\ w \in 1 .. n /\ holes[w] = L[w]
    <3>1. w \in 1 .. w  BY <1>13
    <3>. QED  BY <1>15, <1>16, <3>1
  <2>4. j <= w
    <3>1. SUFFICES ASSUME w < j PROVE FALSE  BY <1>7, <1>13
    <3>2. d(L[w]) < d(L[j])  BY <1>18, <2>3, <3>1
    <3>3. d(L[w]) \in Nat /\ d(L[j]) \in Nat  BY <1>4, <1>17, <2>3
    <3>. HIDE DEF d
    <3>. QED  BY <1>19, <2>2, <2>3, <3>2, <3>3
  <2>5. j \in 1 .. w  BY <1>13, <2>4
  <2>. QED  BY <1>15, <2>2, <2>5
<1>20. Fetched(b, open, right, holes, w)
  <2>1. holes \in Seq(Nat) /\ DOMAIN holes = 1 .. w
    <3>1. S \subseteq Nat  BY <1>2
    <3>. QED  BY <1>15, <3>1, SeqMonotonic, LenProperties
  <2>2. \A i \in 1 .. w : holes[i] \in Clear(b) /\ d(holes[i]) >= 1
    BY <1>2, <1>4, <1>15, <1>16, <1>17
  <2>3. \A i, j \in 1 .. w : i < j => d(holes[i]) < d(holes[j])
    BY <1>15, <1>16, <1>18
  <2>4. w <= Chunk * d(holes[1]) + 1
    <3>1. 1 \in 1 .. w  BY <1>13
    <3>. QED  BY <1>13, <1>15, <3>1
  <2>. QED  BY <1>13, <1>15, <1>19, <2>1, <2>2, <2>3, <2>4 DEF Fetched
<1>21. Fetched(b, open, right, holes, Len(holes))  BY <1>15, <1>20
<1>. QED  BY <1>21 DEF holes, fetched, want

-----------------------------------------------------------------------------
(* Banking: the elements.                                                  *)

\* Up to the distance mx the slots away from `open` are live, but for those at a
\* distance in D.
Banked(b, open, right, D, mx, g, w) ==
    /\ Banks(D, mx, g, w) /\ open \in Int /\ right \in BOOLEAN
    /\ \A x \in 0 .. mx : /\ Away(open, right, x) \in 0 .. b.cap - 1
                          /\ Away(open, right, x) \in Live(b) <=> x \notin D

\* the distances of the holes
DistsOf(open, holes) == {Apart(open, holes[i]) : i \in DOMAIN holes}

\* The banked holes are all the holes up to the last of them.
LEMMA FetchedBanks ==
    ASSUME NEW b, Good(b), NEW open \in Live(b), NEW right \in BOOLEAN, NEW holes, NEW w,
           Fetched(b, open, right, holes, w)
    PROVE  LET D == DistsOf(open, holes)
           IN  /\ Banked(b, open, right, D, Dist(open, right, holes[w]), Drag(D), w)
               /\ \A i \in 1 .. w : Dist(open, right, holes[i]) \in D
               /\ \A h \in D : \E i \in 1 .. w : h = Dist(open, right, holes[i])
<1>. DEFINE d(p) == Dist(open, right, p)
            D == {Apart(open, holes[i]) : i \in DOMAIN holes}
            mx == d(holes[w])
            W == 1 .. w
            f == [i \in W |-> d(holes[i])]
<1>0. /\ b.cap \in Nat /\ open \in Nat /\ open \in 0 .. b.cap - 1
      /\ \A p \in Clear(b) : p \in Nat /\ p \in 0 .. b.cap - 1 /\ p \notin Live(b)
      /\ \A p \in 0 .. b.cap - 1 : p \notin Live(b) => p \in Clear(b)
  <2>1. b.cap \in Nat /\ open \in Nat /\ open \in 0 .. b.cap - 1  BY GoodTypes, SlotIs
  <2>. QED  BY <2>1 DEF Clear
<1>1. /\ w \in Nat /\ w >= 1 /\ DOMAIN holes = W
      /\ \A i \in W : holes[i] \in Clear(b) /\ d(holes[i]) >= 1
      /\ \A i, j \in W : i < j => d(holes[i]) < d(holes[j])
      /\ \A p \in Clear(b) : 0 <= d(p) /\ d(p) <= mx => \E i \in W : holes[i] = p
      /\ w <= Chunk * d(holes[1]) + 1
  BY DEF Fetched
<1>2. \A p \in Nat : d(p) \in Int /\ (d(p) >= 1 => Apart(open, p) = d(p))
  BY <1>0 DEF Dist, Apart
<1>3. \A i \in W : /\ holes[i] \in Nat /\ d(holes[i]) \in Nat /\ d(holes[i]) >= 1
                   /\ Apart(open, holes[i]) = d(holes[i])
  <2>1. ASSUME NEW i \in W
        PROVE  /\ holes[i] \in Nat /\ d(holes[i]) \in Nat /\ d(holes[i]) >= 1
               /\ Apart(open, holes[i]) = d(holes[i])
    <3>1. holes[i] \in Nat /\ d(holes[i]) >= 1  BY <1>0, <1>1
    <3>. HIDE DEF d
    <3>. QED  BY <1>2, <3>1
  <2>. QED  BY <2>1
<1>4. (\A i \in W : d(holes[i]) \in D) /\ \A h \in D : \E i \in W : h = d(holes[i])
  <2>. HIDE DEF d
  <2>1. \A i \in W : Apart(open, holes[i]) \in D  BY <1>1
  <2>2. \A h \in D : \E i \in W : h = Apart(open, holes[i])  BY <1>1
  <2>. HIDE DEF D
  <2>. QED  BY <1>3, <2>1, <2>2
<1>. HIDE DEF D, d
<1>5. 1 \in W /\ w \in W  BY <1>1
<1>6. mx \in Nat /\ mx \in D /\ D \in SUBSET (1 .. mx)
  <2>1. mx \in Nat /\ mx \in D  BY <1>3, <1>4, <1>5
  <2>2. ASSUME NEW i \in W PROVE d(holes[i]) \in 1 .. mx
    <3>1. i = w \/ i < w  BY <1>1
    <3>2. d(holes[i]) <= mx
      <4>1. CASE i = w  BY <2>1, <4>1
      <4>2. CASE i < w
        <5>1. d(holes[i]) < d(holes[w])  BY <1>1, <1>5, <4>2
        <5>2. d(holes[i]) \in Nat  BY <1>3
        <5>. QED  BY <2>1, <5>1, <5>2
      <4>. QED  BY <3>1, <4>1, <4>2
    <3>3. d(holes[i]) \in Nat /\ d(holes[i]) >= 1  BY <1>3
    <3>. HIDE DEF mx
    <3>. QED  BY <2>1, <3>2, <3>3
  <2>. QED  BY <1>4, <2>1, <2>2
<1>7. Cardinality(D) = w
  <2>1. f \in [W -> D]  BY <1>4
  <2>2. ASSUME NEW i \in W, NEW j \in W, f[i] = f[j] PROVE i = j
    <3>1. i \in Nat /\ j \in Nat  BY <1>1
    <3>2. d(holes[i]) = d(holes[j]) /\ d(holes[i]) \in Nat  BY <1>3, <2>2
    <3>3. ~(i < j) /\ ~(j < i)  BY <1>1, <3>2
    <3>. QED  BY <3>1, <3>3
  <2>3. \A h \in D : \E i \in W : f[i] = h  BY <1>4
  <2>4. f \in Bijection(W, D)
    <3>. HIDE DEF f, W
    <3>. QED  BY <2>1, <2>2, <2>3 DEF Bijection, Injection, Surjection, IsInjective
  <2>5. ExistsBijection(W, D)
    <3>. HIDE DEF f, W
    <3>. QED  BY <2>4 DEF ExistsBijection
  <2>6. IsFiniteSet(W) /\ Cardinality(W) = w  BY <1>1, FS_Interval
  <2>. HIDE DEF W
  <2>. QED  BY <2>5, <2>6, FS_Bijection
<1>8. Banks(D, mx, Drag(D), w)
  <2>. DEFINE first == d(holes[1])
  <2>1. first \in D  BY <1>4, <1>5
  <2>2. \A h \in D : first <= h
    <3>1. ASSUME NEW i \in W PROVE first <= d(holes[i])
      <4>1. i = 1 \/ 1 < i  BY <1>1
      <4>2. first \in Nat /\ d(holes[i]) \in Nat  BY <1>3, <1>5
      <4>3. 1 < i => first < d(holes[i])  BY <1>1, <1>5
      <4>4. i = 1 => first = d(holes[i])  OBVIOUS
      <4>. HIDE DEF first
      <4>. QED  BY <4>1, <4>2, <4>3, <4>4
    <3>. QED  BY <1>4, <3>1
  <2>3. Cardinality(D) <= Chunk * first + 1  BY <1>1, <1>7
  <2>. HIDE DEF first, mx
  <2>. QED  BY <1>6, <1>7, <2>1, <2>2, <2>3, BanksAre
<1>9. ASSUME NEW x \in 0 .. mx
      PROVE  /\ Away(open, right, x) \in 0 .. b.cap - 1
             /\ Away(open, right, x) \in Live(b) <=> x \notin D
  <2>. DEFINE p == Away(open, right, x)
  <2>1. p \in 0 .. b.cap - 1 /\ d(p) = x
    <3>. DEFINE l == holes[w]
    <3>1. l \in Nat /\ l \in 0 .. b.cap - 1 /\ mx = d(l)  BY <1>0, <1>1, <1>5
    <3>. HIDE DEF l, mx
    <3>. QED  BY <1>0, <1>6, <1>9, <3>1 DEF Away, Dist, d
  <2>. HIDE DEF p
  <2>2. ASSUME x \in D PROVE p \notin Live(b)
    <3>1. PICK i \in W : x = d(holes[i])  BY <1>4, <2>2
    <3>2. holes[i] \in Nat /\ holes[i] \notin Live(b)  BY <1>0, <1>1
    <3>3. p = holes[i]
      <4>. DEFINE l == holes[i]
      <4>1. l \in Nat /\ x = d(l)  BY <3>1, <3>2
      <4>. HIDE DEF l
      <4>2. Away(open, right, Dist(open, right, l)) = l  BY <1>0, <4>1, AwayIs
      <4>. QED  BY <4>1, <4>2 DEF p, l, d
    <3>. QED  BY <3>2, <3>3
  <2>3. ASSUME x \notin D PROVE p \in Live(b)
    <3>1. SUFFICES ASSUME p \notin Live(b) PROVE FALSE  OBVIOUS
    <3>2. p \in Clear(b)  BY <1>0, <2>1, <3>1
    <3>3. 0 <= d(p) /\ d(p) <= mx  BY <1>6, <2>1
    <3>4. PICK i \in W : holes[i] = p  BY <1>1, <3>2, <3>3
    <3>. QED  BY <1>4, <2>1, <2>3, <3>4
  <2>. QED  BY <2>1, <2>2, <2>3 DEF p
<1>10. Banked(b, open, right, D, mx, Drag(D), w)
  <2>. HIDE DEF mx
  <2>. QED  BY <1>0, <1>8, <1>9 DEF Banked
<1>. QED  BY <1>4, <1>10 DEF D, d, DistsOf

\* where an element at the distance x goes, and one in the slot p
Cross(D, x) == IF x >= 0 THEN Crossed(D, x) ELSE x
BankTo(b, open, right, D) ==
    [p \in 0 .. b.cap - 1 |->
       IF Dist(open, right, p) >= 0
       THEN Away(open, right, Crossed(D, Dist(open, right, p))) ELSE p]

\* The slot a bank moves a live slot to.
LEMMA BankToIs ==
    ASSUME NEW b, Good(b), NEW open, NEW right, NEW D, NEW mx, NEW g, NEW w,
           Banked(b, open, right, D, mx, g, w), NEW p \in Live(b)
    PROVE  LET x == Dist(open, right, p)
               c == Cross(D, x)
           IN  /\ x \in Int /\ c \in Int /\ x \notin D
               /\ BankTo(b, open, right, D)[p] = Away(open, right, c)
               /\ BankTo(b, open, right, D)[p] \in 0 .. b.cap - 1
               /\ x < 0 => c = x
               /\ x >= 0 => c = Crossed(D, x)
               /\ x >= 0 /\ x <= mx => x < c /\ c <= mx
               /\ x > mx => c = x
<1>. DEFINE x == Dist(open, right, p)
            c == Cross(D, x)
<1>0. /\ open \in Int /\ right \in BOOLEAN /\ Banks(D, mx, g, w) /\ mx \in Nat
      /\ D \in SUBSET (1 .. mx) /\ p \in 0 .. b.cap - 1 /\ p \in Int
  <2>1. p \in 0 .. b.cap - 1 /\ p \in Nat  BY SlotIs
  <2>. QED  BY <2>1 DEF Banked, Banks
<1>1. x \in Int /\ Away(open, right, x) = p  BY <1>0, AwayIs
<1>2. BankTo(b, open, right, D)[p] = IF x >= 0 THEN Away(open, right, Crossed(D, x)) ELSE p
  BY <1>0 DEF BankTo
<1>. HIDE DEF x
<1>3. BankTo(b, open, right, D)[p] = Away(open, right, c)  BY <1>1, <1>2 DEF Cross
<1>4. x \notin D
  <2>1. SUFFICES ASSUME x \in D PROVE FALSE  OBVIOUS
  <2>2. x \in 0 .. mx  BY <1>0, <2>1
  <2>. QED  BY <1>1, <2>1, <2>2 DEF Banked
<1>5. x < 0 => c = x  BY <1>1 DEF Cross
<1>6. x >= 0 => c = Crossed(D, x)  BY DEF Cross
<1>. HIDE DEF c
<1>7. x >= 0 => /\ c \in Nat /\ (x <= mx => x < c /\ c <= mx) /\ (x > mx => c = x)
  <2>1. SUFFICES ASSUME x >= 0
        PROVE c \in Nat /\ (x <= mx => x < c /\ c <= mx) /\ (x > mx => c = x)
    OBVIOUS
  <2>2. x \in Nat  BY <1>1, <2>1
  <2>. QED  BY <1>0, <1>4, <1>6, <2>1, <2>2, CrossedIs
<1>8. c \in Int /\ (x > mx => c = x)  BY <1>0, <1>1, <1>5, <1>7
<1>9. Away(open, right, c) \in 0 .. b.cap - 1
  <2>1. CASE x >= 0 /\ x <= mx
    <3>1. c \in 0 .. mx  BY <1>0, <1>7, <2>1
    <3>. QED  BY <3>1 DEF Banked
  <2>2. CASE ~(x >= 0 /\ x <= mx)
    <3>1. c = x  BY <1>0, <1>1, <1>5, <1>7, <2>2
    <3>. QED  BY <1>0, <1>1, <3>1
  <2>. QED  BY <2>1, <2>2
<1>. QED  BY <1>1, <1>3, <1>4, <1>5, <1>6, <1>7, <1>8, <1>9 DEF x, c

\* A bank keeps the live slots in order.
LEMMA BankToRises ==
    ASSUME NEW b, Good(b), NEW open, NEW right, NEW D, NEW mx, NEW g, NEW w,
           Banked(b, open, right, D, mx, g, w), NEW p \in Live(b), NEW q \in Live(b), p < q
    PROVE  BankTo(b, open, right, D)[p] < BankTo(b, open, right, D)[q]
<1>. DEFINE x == Dist(open, right, p)
            y == Dist(open, right, q)
<1>0. open \in Int /\ right \in BOOLEAN /\ Banks(D, mx, g, w) /\ p \in Int /\ q \in Int
  <2>1. p \in Nat /\ q \in Nat  BY SlotIs
  <2>. QED  BY <2>1 DEF Banked
<1>1. IF right THEN x < y ELSE y < x  BY <1>0, AwayIs
<1>2. /\ x \in Int /\ Cross(D, x) \in Int /\ x \notin D
      /\ y \in Int /\ Cross(D, y) \in Int /\ y \notin D
      /\ BankTo(b, open, right, D)[p] = Away(open, right, Cross(D, x))
      /\ BankTo(b, open, right, D)[q] = Away(open, right, Cross(D, y))
  BY BankToIs
<1>. HIDE DEF x, y
<1>3. ASSUME NEW u \in Int, NEW v \in Int, u \notin D, v \notin D, u < v
      PROVE  Cross(D, u) < Cross(D, v)
  <2>1. CASE u >= 0
    <3>1. u \in Nat /\ v \in Nat  BY <1>3, <2>1
    <3>2. Crossed(D, u) < Crossed(D, v)  BY <1>0, <1>3, <3>1, CrossedRises
    <3>. QED  BY <3>1, <3>2 DEF Cross
  <2>2. CASE u < 0 /\ v >= 0
    <3>1. v \in Nat  BY <2>2
    <3>2. Crossed(D, v) \in Nat  BY <1>0, <3>1, CrossedIs
    <3>. QED  BY <2>2, <3>2 DEF Cross
  <2>3. CASE v < 0
    <3>1. u < 0  BY <1>3, <2>3
    <3>. QED  BY <1>3, <2>3, <3>1 DEF Cross
  <2>. QED  BY <2>1, <2>2, <2>3
<1>4. IF right THEN Cross(D, x) < Cross(D, y) ELSE Cross(D, y) < Cross(D, x)
  BY <1>1, <1>2, <1>3
<1>. DEFINE u == Cross(D, x)
            v == Cross(D, y)
<1>. HIDE DEF u, v
<1>5. u \in Int /\ v \in Int /\ (IF right THEN u < v ELSE v < u)  BY <1>2, <1>4 DEF u, v
<1>6. Away(open, right, u) < Away(open, right, v)  BY <1>0, <1>5 DEF Away
<1>. QED  BY <1>2, <1>6 DEF u, v

\* what the mask becomes
BankMask(b, open, right, D) ==
    {Away(open, right, x) : x \in GatherMask(D, {Dist(open, right, p) : p \in Live(b)})}

\* The mask that a bank writes is that of the elements it moved.
LEMMA BankMaskIs ==
    ASSUME NEW b, Good(b), NEW open, NEW right, NEW D, NEW mx, NEW g, NEW w,
           Banked(b, open, right, D, mx, g, w)
    PROVE  BankMask(b, open, right, D) = Image(b, BankTo(b, open, right, D))
<1>. DEFINE bits == {Dist(open, right, p) : p \in Live(b)}
            M == GatherMask(D, bits)
            m == BankTo(b, open, right, D)
<1>0. /\ open \in Int /\ right \in BOOLEAN /\ Banks(D, mx, g, w) /\ mx \in Nat
      /\ D \in SUBSET (1 .. mx) /\ g \in Nat /\ g = Drag(D)
  BY DEF Banked, Banks
<1>1. \A p \in Live(b) : Dist(open, right, p) \in Int /\ p \in Int
  <2>1. \A p \in Live(b) : p \in Nat  BY SlotIs
  <2>. QED  BY <1>0, <2>1, AwayIs
<1>2. bits \in SUBSET Int  BY <1>1
<1>3. ASSUME NEW x \in Nat, x <= mx PROVE x \in bits <=> x \notin D
  <2>1. Away(open, right, x) \in Live(b) <=> x \notin D  BY <1>0, <1>3 DEF Banked
  <2>2. Dist(open, right, Away(open, right, x)) = x  BY <1>0, AwayIs
  <2>3. ASSUME x \in bits PROVE Away(open, right, x) \in Live(b)
    <3>1. PICK p \in Live(b) : x = Dist(open, right, p)  BY <2>3
    <3>2. Away(open, right, x) = p  BY <1>0, <1>1, <3>1, AwayIs
    <3>. QED  BY <3>2
  <2>4. ASSUME Away(open, right, x) \in Live(b) PROVE x \in bits  BY <2>2, <2>4
  <2>. QED  BY <2>1, <2>3, <2>4
<1>4. \A x \in bits : \E p \in Live(b) : x = Dist(open, right, p)  OBVIOUS
<1>5. \A p \in Live(b) : Dist(open, right, p) \in bits  OBVIOUS
<1>. HIDE DEF bits
<1>6. \A y \in M : y \in Int
  <2>1. \A i \in 0 .. g - 1 : Sentinel(i) \in Int
    <3>1. \A i \in 0 .. g - 1 : i \in Nat  BY <1>0
    <3>. QED  BY <3>1, SentinelIs
  <2>2. M = ((bits \union D) \ (0 .. Cardinality(D) + Drag(D) - 1))
               \union {Sentinel(i) : i \in 0 .. Drag(D) - 1}
    BY DEF GatherMask
  <2>3. \A y \in D : y \in Int  BY <1>0
  <2>4. ASSUME NEW y \in M PROVE y \in Int
    <3>1. y \in bits \/ y \in D \/ \E i \in 0 .. g - 1 : y = Sentinel(i)
      BY <1>0, <2>2
    <3>. QED  BY <1>2, <2>1, <2>3, <3>1
  <2>. QED  BY <2>4
<1>7. \A y \in Int : y \in M <=> \E x \in bits : y = Cross(D, x)
  BY <1>0, <1>2, <1>3, GatherMaskIs DEF Cross
<1>8. \A p \in Live(b) : /\ m[p] = Away(open, right, Cross(D, Dist(open, right, p)))
                         /\ Cross(D, Dist(open, right, p)) \in Int
  BY BankToIs
<1>. HIDE DEF M, m
<1>9. ASSUME NEW y \in M PROVE \E p \in Live(b) : Away(open, right, y) = m[p]
  <2>1. PICK x \in bits : y = Cross(D, x)  BY <1>6, <1>7
  <2>2. PICK p \in Live(b) : x = Dist(open, right, p)  BY <1>4
  <2>. QED  BY <1>8, <2>1, <2>2
<1>10. ASSUME NEW p \in Live(b) PROVE \E y \in M : m[p] = Away(open, right, y)
  <2>1. Cross(D, Dist(open, right, p)) \in M  BY <1>5, <1>7, <1>8
  <2>. QED  BY <1>8, <2>1
<1>11. {Away(open, right, y) : y \in M} = Image(b, m)  BY <1>9, <1>10 DEF Image
<1>. QED  BY <1>11 DEF BankMask, M, m, bits

\* The pairs of a bank: the elements, the farthest first.
BankPairs(open, right, D) ==
    LET far == Movers(D)
    IN  [i \in DOMAIN far |-> <<Away(open, right, far[i]), Away(open, right, Crossed(D, far[i]))>>]

\* The pairs of a bank's event are its moves, in an order that overwrites none.
LEMMA BankPairsAre ==
    ASSUME NEW b, Good(b), NEW open, NEW right, NEW D, NEW mx, NEW g, NEW w,
           Banked(b, open, right, D, mx, g, w)
    PROVE  Unravelled(b, BankTo(b, open, right, D), BankPairs(open, right, D), b.cap)
<1>. DEFINE m == BankTo(b, open, right, D)
            S == (0 .. mx) \ D
            far == Movers(D)
            n == Cardinality(S)
            pairs == BankPairs(open, right, D)
<1>0. /\ open \in Int /\ right \in BOOLEAN /\ Banks(D, mx, g, w) /\ mx \in Nat /\ mx \in D
      /\ D \in SUBSET (1 .. mx)
      /\ \A x \in 0 .. mx : /\ Away(open, right, x) \in 0 .. b.cap - 1
                            /\ Away(open, right, x) \in Live(b) <=> x \notin D
  BY DEF Banked, Banks
<1>1. Max(D) = mx
  <2>1. D \in SUBSET (0 .. mx) /\ D # {}  BY <1>0
  <2>2. Max(D) \in D /\ \A x \in D : x <= Max(D)  BY <1>0, <2>1, MostIs
  <2>3. Max(D) \in 0 .. mx /\ mx <= Max(D)  BY <1>0, <2>1, <2>2
  <2>. QED  BY <1>0, <2>3
<1>2. S \in SUBSET Nat /\ IsFiniteSet(S) /\ \A x \in S : x \in 0 .. mx /\ x \in Nat /\ x <= mx /\ x \notin D
  <2>1. IsFiniteSet(0 .. mx) /\ S \subseteq 0 .. mx  BY <1>0, FS_Interval
  <2>2. IsFiniteSet(S)  BY <2>1, FS_Subset
  <2>3. S \in SUBSET Nat  BY <1>0
  <2>4. \A x \in S : x \in 0 .. mx /\ x \in Nat /\ x <= mx /\ x \notin D  BY <1>0
  <2>. QED  BY <2>2, <2>3, <2>4
<1>3. Lists(far, S, FALSE)
  <2>1. far = Descending(S)  BY <1>1 DEF Movers
  <2>. HIDE DEF far, S
  <2>. QED  BY <1>2, <2>1, DescendingIs
<1>4. \A x \in 0 .. mx : x \notin D => x \in S  OBVIOUS
<1>. HIDE DEF far, S
<1>5. /\ n \in Nat /\ DOMAIN far = 1 .. n
      /\ \A i \in 1 .. n : far[i] \in S
      /\ \A x \in S : \E i \in 1 .. n : far[i] = x
      /\ \A i, j \in 1 .. n : i < j => far[j] < far[i]
  BY <1>3 DEF Lists
<1>6. /\ DOMAIN pairs = 1 .. n /\ pairs = [i \in 1 .. n |-> pairs[i]]
      /\ \A i \in 1 .. n : pairs[i] = <<Away(open, right, far[i]), Away(open, right, Crossed(D, far[i]))>>
  <2>1. pairs = [i \in 1 .. n |-> <<Away(open, right, far[i]), Away(open, right, Crossed(D, far[i]))>>]
    BY <1>5 DEF BankPairs, far
  <2>. HIDE DEF pairs, n
  <2>. QED  BY <2>1
<1>. HIDE DEF pairs, n
<1>7. ASSUME NEW x \in S
      PROVE  LET p == Away(open, right, x)
             IN  /\ p \in Live(b) /\ Dist(open, right, p) = x
                 /\ m[p] = Away(open, right, Crossed(D, x)) /\ m[p] \in 0 .. b.cap - 1
                 /\ Crossed(D, x) \in Nat /\ x < Crossed(D, x)
  <2>. DEFINE p == Away(open, right, x)
  <2>1. x \in 0 .. mx /\ x \in Nat /\ x <= mx /\ x \notin D  BY <1>2
  <2>2. p \in Live(b) /\ Dist(open, right, p) = x  BY <1>0, <2>1, AwayIs
  <2>. HIDE DEF p, m
  <2>3. Crossed(D, x) \in Nat /\ x < Crossed(D, x)  BY <1>0, <2>1, CrossedIs
  <2>4. m[p] = Away(open, right, Cross(D, x)) /\ m[p] \in 0 .. b.cap - 1
    BY <2>2, BankToIs DEF m
  <2>5. Cross(D, x) = Crossed(D, x)  BY <2>1 DEF Cross
  <2>. QED  BY <2>2, <2>3, <2>4, <2>5 DEF p
<1>8. \A p \in Live(b) : m[p] # p =>
         LET x == Dist(open, right, p) IN x \in S /\ Away(open, right, x) = p
  <2>1. ASSUME NEW p \in Live(b), m[p] # p
        PROVE  Dist(open, right, p) \in S /\ Away(open, right, Dist(open, right, p)) = p
    <3>. DEFINE x == Dist(open, right, p)
    <3>1. p \in Int
      <4>1. p \in Nat  BY SlotIs
      <4>. QED  BY <4>1
    <3>2. Away(open, right, x) = p  BY <1>0, <3>1, AwayIs
    <3>3. /\ x \in Int /\ x \notin D /\ m[p] = Away(open, right, Cross(D, x))
          /\ x < 0 => Cross(D, x) = x
          /\ x > mx => Cross(D, x) = x
      BY BankToIs
    <3>. HIDE DEF x, m
    <3>4. Cross(D, x) # x  BY <2>1, <3>2, <3>3
    <3>5. x \in 0 .. mx  BY <1>0, <3>3, <3>4
    <3>6. x \in S  BY <1>4, <3>3, <3>5
    <3>. QED  BY <3>2, <3>6 DEF x
  <2>. QED  BY <2>1
<1>. HIDE DEF m
<1>9. ASSUME NEW i \in 1 .. n
      PROVE  /\ pairs[i][1] = Away(open, right, far[i]) /\ pairs[i][1] \in Live(b)
             /\ pairs[i][2] = m[pairs[i][1]] /\ pairs[i] \in Live(b) \X (0 .. b.cap - 1)
             /\ Dist(open, right, pairs[i][1]) = far[i]
             /\ Dist(open, right, pairs[i][2]) = Crossed(D, far[i])
             /\ far[i] \in Nat /\ Crossed(D, far[i]) \in Nat /\ far[i] < Crossed(D, far[i])
  <2>1. far[i] \in S  BY <1>5
  <2>2. far[i] \in Nat /\ Crossed(D, far[i]) \in Nat  BY <1>2, <1>7, <2>1
  <2>3. Dist(open, right, Away(open, right, Crossed(D, far[i]))) = Crossed(D, far[i])
    BY <1>0, <2>2, AwayIs
  <2>. DEFINE x == far[i]
              p == Away(open, right, x)
              z == Away(open, right, Crossed(D, x))
  <2>4. pairs[i] = <<p, z>>  BY <1>6
  <2>5. /\ p \in Live(b) /\ Dist(open, right, p) = x /\ m[p] = z /\ m[p] \in 0 .. b.cap - 1
        /\ x < Crossed(D, x) /\ Dist(open, right, z) = Crossed(D, x)
    BY <1>7, <2>1, <2>3
  <2>6. x \in Nat /\ Crossed(D, x) \in Nat  BY <2>2
  <2>. HIDE DEF p, z, x
  <2>7. pairs[i][1] = p /\ pairs[i][2] = z /\ pairs[i] \in Live(b) \X (0 .. b.cap - 1)
    BY <2>4, <2>5
  <2>8. /\ pairs[i][1] = p /\ pairs[i][1] \in Live(b)
        /\ pairs[i][2] = m[pairs[i][1]] /\ pairs[i] \in Live(b) \X (0 .. b.cap - 1)
        /\ Dist(open, right, pairs[i][1]) = x
        /\ Dist(open, right, pairs[i][2]) = Crossed(D, x)
    BY <2>5, <2>7
  <2>. QED  BY <2>5, <2>6, <2>8 DEF p, x
<1>10. pairs \in Seq(Live(b) \X (0 .. b.cap - 1))
  <2>1. pairs \in [1 .. n -> Live(b) \X (0 .. b.cap - 1)]  BY <1>6, <1>9
  <2>. QED  BY <1>5, <2>1, ListOf
<1>11. ASSUME NEW i \in 1 .. n, NEW j \in 1 .. n
       PROVE  /\ pairs[i][1] = pairs[j][1] => i = j
              /\ pairs[j][1] = pairs[i][2] => j < i
  <2>0. i \in Nat /\ j \in Nat  OBVIOUS
  <2>1. /\ far[i] \in Nat /\ far[j] \in Nat /\ Crossed(D, far[i]) \in Nat
        /\ far[i] < Crossed(D, far[i])
    BY <1>9
  <2>2. (i < j => far[j] < far[i]) /\ (j < i => far[i] < far[j])  BY <1>5
  <2>3. pairs[i][1] = pairs[j][1] => far[i] = far[j]
    BY <1>9
  <2>4. pairs[j][1] = pairs[i][2] => far[j] = Crossed(D, far[i])
    BY <1>9
  <2>. QED  BY <2>0, <2>1, <2>2, <2>3, <2>4
<1>12. ASSUME NEW p \in Live(b), m[p] # p PROVE \E i \in 1 .. n : pairs[i][1] = p
  <2>1. Dist(open, right, p) \in S /\ Away(open, right, Dist(open, right, p)) = p  BY <1>8, <1>12
  <2>2. PICK i \in 1 .. n : far[i] = Dist(open, right, p)  BY <1>5, <2>1
  <2>. QED  BY <1>9, <2>1, <2>2
<1>. QED  BY <1>6, <1>9, <1>10, <1>11, <1>12 DEF Unravelled, pairs, m

\* from where the hole's slide starts, counted from `open`
Landed(i) == (i - 1) + ((i - 1) \div Chunk)

\* Where the bank's i-th hole lands, a free slot after each chunk.
LEMMA LandedIs ==
    ASSUME NEW i \in Nat, i >= 1
    PROVE  LET q == (i - 1) \div Chunk
           IN  /\ Landed(i) \in Nat /\ Landed(i) = (i - 1) + q /\ q \in Nat
               /\ q <= i - 1 /\ (i = 1 => q = 0)
               /\ \A j \in Nat : i <= j => q <= (j - 1) \div Chunk
<1>. DEFINE q == (i - 1) \div Chunk
<1>0. i - 1 \in Nat /\ Chunk \in Nat /\ Chunk >= 3  BY ConstantsAre
<1>1. q \in Nat /\ (i - 1) % Chunk \in 0 .. Chunk - 1 /\ i - 1 = q * Chunk + ((i - 1) % Chunk)
  BY <1>0, Quotient
<1>2. ASSUME NEW j \in Nat, i <= j PROVE q <= (j - 1) \div Chunk
  <2>. DEFINE s == (j - 1) \div Chunk
  <2>1. j - 1 \in Nat  BY <1>2
  <2>2. s \in Nat /\ (j - 1) % Chunk \in 0 .. Chunk - 1 /\ j - 1 = s * Chunk + ((j - 1) % Chunk)
    BY <1>0, <2>1, Quotient
  <2>3. SUFFICES ASSUME s < q PROVE FALSE
    <3>1. q \in Nat /\ s \in Nat  BY <1>1, <2>2
    <3>. QED  BY <3>1
  <2>4. Chunk * s + Chunk <= Chunk * q  BY <1>0, <1>1, <2>2, <2>3, Times
  <2>5. Chunk * s = s * Chunk /\ Chunk * q = q * Chunk /\ s * Chunk \in Nat /\ q * Chunk \in Nat
    <3>. HIDE DEF q, s
    <3>. QED  BY <1>0, <1>1, <2>2
  <2>. DEFINE e == q * Chunk
              f == s * Chunk
              r == (i - 1) % Chunk
              t == (j - 1) % Chunk
  <2>6. /\ f + Chunk <= e /\ i - 1 = e + r /\ j - 1 = f + t /\ r \in 0 .. Chunk - 1
        /\ t \in 0 .. Chunk - 1 /\ e \in Nat /\ f \in Nat
    BY <1>1, <2>2, <2>4, <2>5
  <2>. HIDE DEF e, f, r, t
  <2>. QED  BY <1>0, <1>2, <2>6
<1>3. q <= q * Chunk /\ q * Chunk \in Nat
  <2>1. Chunk * q \in Nat /\ q * 1 <= q * Chunk  BY <1>0, <1>1, Times
  <2>. HIDE DEF q
  <2>. QED  BY <1>0, <1>1, <2>1
<1>4. q <= i - 1 /\ (i = 1 => q = 0)
  <2>. DEFINE e == q * Chunk
              r == (i - 1) % Chunk
  <2>1. /\ i - 1 = e + r /\ r \in Nat /\ e \in Nat /\ q <= e  BY <1>0, <1>1, <1>3
  <2>. HIDE DEF q, e, r
  <2>. QED  BY <1>1, <2>1
<1>. HIDE DEF q
<1>5. Landed(i) = (i - 1) + q  BY DEF Landed, q
<1>. QED  BY <1>0, <1>1, <1>2, <1>4, <1>5 DEF q

\* The holes of a bank, and the distances that they are at.
BankOf(b, open, right, holes, D, mx, g, w) ==
    /\ Fetched(b, open, right, holes, w) /\ Banked(b, open, right, D, mx, g, w)
    /\ mx = Dist(open, right, holes[w])
    /\ \A i \in 1 .. w : Dist(open, right, holes[i]) \in D
    /\ \A h \in D : \E i \in 1 .. w : h = Dist(open, right, holes[i])

BankSpans(open, right, holes) ==
    {<<holes[i], Away(open, right, Landed(i))>> : i \in DOMAIN holes}

\* The holes of a bank are at least as far as their rank.
LEMMA HolesApart ==
    ASSUME NEW b, Good(b), NEW open, NEW right, NEW holes, NEW D, NEW mx, NEW g, NEW w,
           BankOf(b, open, right, holes, D, mx, g, w)
    PROVE  \A i \in 1 .. w : /\ holes[i] \in Nat /\ Dist(open, right, holes[i]) \in Nat
                             /\ g + i - 1 <= Dist(open, right, holes[i])
                             /\ Away(open, right, Dist(open, right, holes[i])) = holes[i]
<1>. DEFINE d(i) == Dist(open, right, holes[i])
            S == {i \in 1 .. w : g + i - 1 <= d(i)}
<1>0. /\ open \in Int /\ right \in BOOLEAN /\ w \in Nat /\ w >= 1 /\ g \in Nat
      /\ \A h \in D : g <= h
      /\ \A i \in 1 .. w : d(i) \in D
      /\ \A i, j \in 1 .. w : i < j => d(i) < d(j)
      /\ \A i \in 1 .. w : holes[i] \in Clear(b)
  BY DEF BankOf, Fetched, Banked, Banks
<1>1. ASSUME NEW i \in 1 .. w
      PROVE  /\ holes[i] \in Nat /\ d(i) \in Nat /\ Away(open, right, d(i)) = holes[i]
  <2>1. holes[i] \in Nat
    <3>1. b.cap \in Nat  BY GoodTypes
    <3>. QED  BY <1>0, <3>1 DEF Clear
  <2>2. Away(open, right, d(i)) = holes[i] /\ d(i) \in Int
    <3>. DEFINE h == holes[i]
    <3>1. h \in Int /\ d(i) = Dist(open, right, h)  BY <2>1
    <3>. HIDE DEF h, d
    <3>2. Away(open, right, Dist(open, right, h)) = h /\ Dist(open, right, h) \in Int
      BY <1>0, <3>1, AwayIs
    <3>. QED  BY <3>1, <3>2 DEF h
  <2>3. d(i) >= g  BY <1>0
  <2>. HIDE DEF d
  <2>. QED  BY <1>0, <2>1, <2>2, <2>3
<1>. HIDE DEF d
<1>2. 1 \in S
  <2>1. 1 \in 1 .. w  BY <1>0
  <2>. QED  BY <1>0, <1>1, <2>1
<1>3. ASSUME NEW i \in 1 + 1 .. w, i - 1 \in S PROVE i \in S
  <2>1. i \in 1 .. w /\ i - 1 \in 1 .. w /\ i - 1 < i  BY <1>0
  <2>2. d(i - 1) < d(i) /\ d(i - 1) \in Nat /\ d(i) \in Nat  BY <1>0, <1>1, <2>1
  <2>3. g + (i - 1) - 1 <= d(i - 1)  BY <1>3
  <2>4. g + i - 1 <= d(i)  BY <1>0, <2>1, <2>2, <2>3
  <2>. QED  BY <2>1, <2>4
<1>4. 1 .. w \subseteq S
  <2>. HIDE DEF S
  <2>1. 1 \in Nat  OBVIOUS
  <2>. QED  BY <1>0, <1>2, <1>3, <2>1, Upwards
<1>. QED  BY <1>1, <1>4 DEF d

\* A slide of a bank covers every distance between a hole and its landing.
LEMMA SpanIs ==
    ASSUME NEW b, Good(b), NEW open, NEW right, NEW holes, NEW D, NEW mx, NEW g, NEW w,
           BankOf(b, open, right, holes, D, mx, g, w),
           NEW i \in 1 .. w, NEW y \in Nat, Landed(i) <= y, y <= Dist(open, right, holes[i])
    PROVE  \E s \in BankSpans(open, right, holes) : Between(Away(open, right, y), s)
<1>. DEFINE h == holes[i]
            l == Landed(i)
            s == <<h, Away(open, right, l)>>
<1>0. open \in Int /\ right \in BOOLEAN /\ w \in Nat /\ DOMAIN holes = 1 .. w
  BY DEF BankOf, Fetched, Banked, Banks
<1>1. h \in Nat  BY HolesApart
<1>2. l \in Nat
  <2>1. i \in Nat /\ i >= 1  BY <1>0
  <2>. QED  BY <2>1, LandedIs
<1>3. s \in BankSpans(open, right, holes)  BY <1>0 DEF BankSpans
<1>4. l <= y /\ y <= Dist(open, right, h)  OBVIOUS
<1>. HIDE DEF h, l
<1>5. Between(Away(open, right, y), s)
  <2>. DEFINE a == Away(open, right, y)
              z == Away(open, right, l)
  <2>1. a \in Int /\ z \in Int /\ (IF right THEN z <= a /\ a <= h ELSE h <= a /\ a <= z)
    BY <1>0, <1>1, <1>2, <1>4 DEF Away, Dist
  <2>. HIDE DEF a, z
  <2>2. a \in h .. z \/ a \in z .. h  BY <1>1, <2>1
  <2>. QED  BY <2>2 DEF Between, a, z
<1>. QED  BY <1>3, <1>5

\* An element that moves does so within the spans.
LEMMA BankTells ==
    ASSUME NEW b, Good(b), NEW open, NEW right, NEW holes, NEW D, NEW mx, NEW g, NEW w,
           BankOf(b, open, right, holes, D, mx, g, w),
           NEW p \in Live(b), BankTo(b, open, right, D)[p] # p
    PROVE  /\ \E s \in BankSpans(open, right, holes) : Between(p, s)
           /\ \E s \in BankSpans(open, right, holes) :
                 Between(BankTo(b, open, right, D)[p], s)
<1>. DEFINE x == Dist(open, right, p)
            c == Crossed(D, x)
            d(i) == Dist(open, right, holes[i])
<1>0. /\ open \in Int /\ right \in BOOLEAN /\ w \in Nat /\ w >= 1 /\ g \in Nat /\ mx \in Nat
      /\ Banked(b, open, right, D, mx, g, w) /\ Banks(D, mx, g, w)
      /\ \A h \in D : g <= h
      /\ g = (w - 1) \div Chunk /\ Chunk * g <= w - 1
      /\ mx = d(w)
      /\ \A i \in 1 .. w : d(i) \in D
      /\ Chunk \in Nat /\ Chunk >= 3
  <2>1. Chunk \in Nat /\ Chunk >= 3  BY ConstantsAre
  <2>. QED  BY <2>1 DEF BankOf, Fetched, Banked, Banks, Drag
<1>1. /\ x \in Int /\ x \notin D /\ p = Away(open, right, x)
      /\ BankTo(b, open, right, D)[p] = Away(open, right, Cross(D, x))
      /\ x >= 0 /\ x <= mx /\ Cross(D, x) = c
  <2>1. p \in Int
    <3>1. p \in Nat  BY SlotIs
    <3>. QED  BY <3>1
  <2>2. Away(open, right, x) = p  BY <1>0, <2>1, AwayIs
  <2>3. /\ x \in Int /\ x \notin D
        /\ BankTo(b, open, right, D)[p] = Away(open, right, Cross(D, x))
        /\ x < 0 => Cross(D, x) = x
        /\ x >= 0 => Cross(D, x) = c
        /\ x > mx => Cross(D, x) = x
    BY <1>0, BankToIs
  <2>. HIDE DEF x
  <2>4. x >= 0 /\ x <= mx  BY <1>0, <2>2, <2>3
  <2>. QED  BY <2>2, <2>3, <2>4
<1>. HIDE DEF x
<1>2. x \in Nat  BY <1>1
<1>3. /\ c \in Nat /\ x < c /\ c <= mx
      /\ x < g => c = Sentinel(x)
      /\ x >= g => c >= w + g
  BY <1>0, <1>1, <1>2, CrossedIs
<1>. HIDE DEF c
<1>4. \A i \in 1 .. w : d(i) \in Nat /\ g + i - 1 <= d(i)  BY HolesApart
<1>. HIDE DEF d
<1>5. \A i \in 1 .. w : i \in Nat /\ i >= 1 /\ i <= w  BY <1>0
<1>6. \A i \in 1 .. w : \A y \in Nat :
         Landed(i) <= y /\ y <= d(i)
           => \E s \in BankSpans(open, right, holes) : Between(Away(open, right, y), s)
  BY SpanIs DEF d
<1>7. \E i \in 1 .. w : Landed(i) <= x /\ x <= d(i)
  <2>1. CASE x < g
    <3>1. 1 \in 1 .. w  BY <1>0
    <3>2. Landed(1) = 0
      <4>1. 1 \in Nat /\ 1 >= 1  OBVIOUS
      <4>2. Landed(1) = (1 - 1) + ((1 - 1) \div Chunk) /\ (1 - 1) \div Chunk = 0
        BY <4>1, LandedIs
      <4>. QED  BY <4>2
    <3>3. d(1) \in Nat /\ g <= d(1)  BY <1>0, <1>4, <3>1
    <3>4. Landed(1) <= x /\ x <= d(1)  BY <1>0, <1>2, <2>1, <3>2, <3>3
    <3>. QED  BY <3>1, <3>4
  <2>2. CASE x >= g
    <3>. DEFINE I == {i \in 1 .. w : x < d(i)}
    <3>1. w \in I
      <4>1. w \in 1 .. w  BY <1>0
      <4>2. x # mx  BY <1>0, <1>1, <4>1
      <4>. QED  BY <1>0, <1>1, <4>1, <4>2
    <3>2. I \in SUBSET Nat  BY <1>5
    <3>3. PICK i \in I : \A j \in I : i <= j
      <4>. HIDE DEF I
      <4>. QED  BY <3>1, <3>2, LeastNumber
    <3>4. i \in 1 .. w /\ x < d(i) /\ i \in Nat /\ i >= 1 /\ i <= w  BY <1>5
    <3>5. i - 1 >= 1 => x >= g + (i - 1)
      <4>1. SUFFICES ASSUME i - 1 >= 1 PROVE x >= g + (i - 1)  OBVIOUS
      <4>2. i - 1 \in 1 .. w  BY <1>0, <3>4, <4>1
      <4>3. i - 1 \notin I  BY <3>3, <3>4
      <4>4. ~(x < d(i - 1)) /\ d(i - 1) \in Nat /\ d(i - 1) \in D /\ g + (i - 1) - 1 <= d(i - 1)
        BY <1>0, <1>4, <4>2, <4>3
      <4>5. x # d(i - 1)  BY <1>1, <4>4
      <4>. QED  BY <1>0, <1>2, <3>4, <4>4, <4>5
    <3>. DEFINE q == (i - 1) \div Chunk
    <3>6. Landed(i) = (i - 1) + q /\ q \in Nat /\ (i = 1 => q = 0) /\ q <= g
      BY <1>0, <3>4, LandedIs
    <3>. HIDE DEF q, I
    <3>7. Landed(i) <= x  BY <1>0, <1>2, <2>2, <3>4, <3>5, <3>6
    <3>8. x <= d(i)  BY <1>2, <1>4, <3>4
    <3>. QED  BY <3>4, <3>7, <3>8
  <2>. QED  BY <1>0, <1>2, <2>1, <2>2
<1>8. \E i \in 1 .. w : Landed(i) <= c /\ c <= d(i)
  <2>1. CASE x < g
    <3>. DEFINE e == Chunk * x
                i == e + Chunk
    <3>1. e \in Nat /\ e + Chunk <= Chunk * g  BY <1>0, <1>2, <2>1, Times
    <3>2. c = e + x + Chunk  BY <1>2, <1>3, <2>1, SentinelIs
    <3>. HIDE DEF e
    <3>3. i \in Nat /\ i >= 1 /\ i <= w /\ i \in 1 .. w
      <4>1. Chunk * g \in Nat  BY <1>0, Times
      <4>2. e + Chunk <= w - 1  BY <1>0, <3>1, <4>1
      <4>. QED  BY <1>0, <3>1, <4>2
    <3>4. Landed(i) = (i - 1) + x
      <4>1. Divided(i - 1, Chunk, x, Chunk - 1)
        <5>1. i - 1 = x * Chunk + (Chunk - 1)
          <6>1. x * Chunk = e  BY <1>0, <1>2 DEF e
          <6>. QED  BY <1>0, <3>1, <6>1
        <5>2. i - 1 \in Nat /\ Chunk - 1 \in 0 .. Chunk - 1 /\ Chunk > 0  BY <1>0, <3>3
        <5>. QED  BY <1>0, <1>2, <5>1, <5>2 DEF Divided
      <4>2. (i - 1) \div Chunk = x
        <5>. HIDE DEF i
        <5>. QED  BY <4>1, QuotientOf
      <4>3. Landed(i) = (i - 1) + ((i - 1) \div Chunk)  BY DEF Landed
      <4>. HIDE DEF i
      <4>. QED  BY <4>2, <4>3
    <3>5. d(i) \in Nat /\ g + i - 1 <= d(i)  BY <1>4, <3>3
    <3>6. Landed(i) <= c /\ c <= d(i)  BY <1>0, <1>2, <1>3, <2>1, <3>1, <3>2, <3>4, <3>5
    <3>. HIDE DEF i
    <3>. QED  BY <3>3, <3>6
  <2>2. CASE x >= g
    <3>1. w \in 1 .. w  BY <1>0
    <3>2. Landed(w) = (w - 1) + g  BY <1>0 DEF Landed
    <3>3. Landed(w) <= c /\ c <= d(w)  BY <1>0, <1>3, <2>2, <3>2
    <3>. QED  BY <3>1, <3>3
  <2>. QED  BY <1>0, <1>2, <2>1, <2>2
<1>9. (\E s \in BankSpans(open, right, holes) : Between(p, s))
  BY <1>1, <1>2, <1>6, <1>7
<1>10. \E s \in BankSpans(open, right, holes) : Between(Away(open, right, c), s)
  BY <1>3, <1>6, <1>8
<1>. QED  BY <1>1, <1>9, <1>10

\* The bank's landing is below every slot that an element crosses to.
LEMMA LandingIs ==
    ASSUME NEW b, Good(b), NEW open \in Int, NEW D, NEW mx, NEW g, NEW w, Banks(D, mx, g, w)
    PROVE  LET l == BankLanding(b, open, w)
           IN  /\ l \in Nat /\ l <= mx
               /\ \A x \in Nat : x \notin D => l < Crossed(D, x)
<1>. DEFINE a == FreeStride - Apart(open, b.last)
            T == {0, a}
            t == Max(T)
            h == (w - 1) \div 2
            L == {h, t}
            l == BankLanding(b, open, w)
<1>0. /\ mx \in Nat /\ D \in SUBSET (1 .. mx) /\ g \in Nat /\ w \in Nat /\ w >= 1
      /\ FreeStride \in Nat /\ FreeStride < Chunk /\ Chunk \in Nat
  BY ConstantsAre DEF Banks
<1>1. a \in Int /\ a <= FreeStride
  <2>1. Apart(open, b.last) \in Nat
    <3>1. b.last \in Nat  BY GoodTypes
    <3>. QED  BY <3>1 DEF Apart
  <2>. QED  BY <1>0, <2>1
<1>. HIDE DEF a
<1>2. t \in Nat /\ t <= FreeStride
  <2>. DEFINE U == {IF a >= 0 THEN a ELSE 0, 0}
  <2>1. T = {0, a}  OBVIOUS
  <2>2. PICK z \in T : \A y \in T : z >= y
    <3>1. (\A y \in T : 0 >= y) \/ (\A y \in T : a >= y)  BY <1>1
    <3>2. 0 \in T /\ a \in T  OBVIOUS
    <3>. HIDE DEF T
    <3>. QED  BY <3>1, <3>2
  <2>3. Max(T) \in T /\ \A y \in T : Max(T) >= y  BY <2>2 DEF Max
  <2>4. t \in T /\ t >= 0  BY <2>3
  <2>5. t = 0 \/ t = a
    <3>. HIDE DEF t
    <3>. QED  BY <2>4
  <2>. HIDE DEF t, T
  <2>. QED  BY <1>0, <1>1, <2>4, <2>5
<1>3. h \in Nat /\ h < w
  <2>1. w - 1 \in Nat  BY <1>0
  <2>. HIDE DEF t
  <2>. QED  BY <1>0, <2>1
<1>4. l = Min(L)  BY DEF BankLanding, a
<1>. HIDE DEF t, h, l
<1>5. l \in Nat /\ l <= t /\ l <= h
  <2>1. L \in SUBSET Nat /\ L # {}  BY <1>2, <1>3
  <2>2. t \in L /\ h \in L  OBVIOUS
  <2>. HIDE DEF L
  <2>3. Min(L) \in L /\ \A y \in L : Min(L) <= y  BY <2>1, LeastIs
  <2>. QED  BY <1>4, <2>1, <2>2, <2>3
<1>6. 0 \in Nat /\ 0 \notin D  BY <1>0
<1>7. g + w <= mx + 1  BY <1>6, CrossedIs
<1>8. l < Crossed(D, 0) /\ Crossed(D, 0) \in Nat
  <2>1. /\ Crossed(D, 0) \in Nat
        /\ 0 < g => Crossed(D, 0) = Sentinel(0)
        /\ 0 >= g => Crossed(D, 0) >= w + g
    BY <1>6, CrossedIs
  <2>2. Sentinel(0) \in Nat /\ 0 + Chunk <= Sentinel(0)  BY <1>6, SentinelIs
  <2>. QED  BY <1>0, <1>2, <1>3, <1>5, <2>1, <2>2
<1>9. ASSUME NEW x \in Nat, x \notin D PROVE l < Crossed(D, x)
  <2>1. x = 0 \/ 0 < x  OBVIOUS
  <2>2. 0 < x => Crossed(D, 0) < Crossed(D, x)  BY <1>6, <1>9, CrossedRises
  <2>3. Crossed(D, x) \in Nat  BY CrossedIs
  <2>. QED  BY <1>5, <1>8, <2>1, <2>2, <2>3
<1>10. l <= mx  BY <1>0, <1>3, <1>5, <1>7
<1>. QED  BY <1>5, <1>9, <1>10 DEF l

\* The record that a bank leaves.
LEMMA GatheredIs ==
    ASSUME NEW b, Good(b), NEW open, NEW right, NEW holes, NEW D
    PROVE  Gathered(b, open, right, holes, D, Movers(D))
             = Changed(b, Relocated(b.data, BankTo(b, open, right, D), BankMask(b, open, right, D)),
                       BankTo(b, open, right, D)[b.last],
                       Event(b.tr, BankPairs(open, right, D), BankSpans(open, right, holes)))
<1>. DEFINE to == BankTo(b, open, right, D)
            M == BankMask(b, open, right, D)
            data == Relocated(b.data, to, M)
            last == to[b.last]
            P == BankPairs(open, right, D)
            S == BankSpans(open, right, holes)
            event == Event(b.tr, P, S)
<1>1. Gathered(b, open, right, holes, D, Movers(D))
        = [b EXCEPT !.data = data, !.last = last, !.event = event]
  BY DEF Gathered, BankTo, BankMask, BankPairs, BankSpans, Landed, Away, Dist
<1>2. b = [cap |-> b.cap, data |-> b.data, tr |-> b.tr, sum |-> b.sum, last |-> b.last,
           streak |-> b.streak, epoch |-> b.epoch, event |-> b.event]
  BY DEF Good, Whole
<1>. HIDE DEF data, last, event
<1>3. [b EXCEPT !.data = data, !.last = last, !.event = event] = Changed(b, data, last, event)
  <2>. DEFINE c == [b EXCEPT !.data = data, !.last = last]
              w == [cap |-> b.cap, data |-> data, tr |-> b.tr, sum |-> b.sum, last |-> last,
                    streak |-> b.streak, epoch |-> b.epoch, event |-> b.event]
  <2>1. c = [b EXCEPT !.data = data, !.last = last]  OBVIOUS
  <2>2. [b EXCEPT !.data = data, !.last = last, !.event = event] = [c EXCEPT !.event = event]
    OBVIOUS
  <2>. HIDE DEF c
  <2>3. c = w  BY <1>2, <2>1
  <2>. QED  BY <2>2, <2>3 DEF Changed
<1>. QED  BY <1>1, <1>3 DEF data, last, event

\* A bank opens a slot.
LEMMA BankIs ==
    ASSUME NEW b, Good(b), NEW spot, NEW hole, BankFor(b, spot, hole)
    PROVE  \E m : Opens(b, spot, Bank(b, spot, hole), m)
<1>. DEFINE right == hole > spot
            open == IF right THEN spot ELSE spot - 1
            holes == Kept(open, FetchHoles(b, spot, right, Apart(hole, spot) \div FreeStride))
            w == Len(holes)
            D == DistsOf(open, holes)
            mx == Dist(open, right, holes[w])
            g == Drag(D)
            to == BankTo(b, open, right, D)
            l == BankLanding(b, open, w)
            at == Away(open, right, l)
            event == Event(b.tr, BankPairs(open, right, D), BankSpans(open, right, holes))
<1>0. Fetched(b, open, right, holes, w)  BY FetchedIs
<1>1. /\ Bank(b, spot, hole)
           = Opened(Gathered(b, open, right, holes, D, Movers(D)),
                    IF right THEN open + l ELSE open - l)
  BY DEF Bank, BankHoles, DistsOf
<1>2. b.cap \in Nat /\ spot \in Nat /\ spot <= b.cap /\ hole \in Nat /\ hole < b.cap
      /\ hole # spot
  <2>1. b.cap \in Nat  BY GoodTypes
  <2>2. spot \in Nat /\ spot <= b.cap /\ hole \in Nat /\ hole < b.cap
    BY <2>1 DEF BankFor, Clear
  <2>3. hole # spot
    <3>1. Apart(spot, spot) = 0  BY <2>2 DEF Apart
    <3>2. FreeStride \in Nat  BY ConstantsAre
    <3>. QED  BY <3>1, <3>2 DEF BankFor
  <2>. QED  BY <2>1, <2>2, <2>3
<1>3. /\ open \in Int /\ right \in BOOLEAN /\ open \in Live(b)
      /\ spot = IF right THEN open ELSE open + 1
  <2>1. open \in 0 .. b.cap - 1  BY <1>2
  <2>2. open \notin Clear(b)  BY DEF BankFor
  <2>. QED  BY <1>2, <2>1, <2>2 DEF Clear
<1>. HIDE DEF holes, w, open, right
<1>4. BankOf(b, open, right, holes, D, mx, g, w)
  <2>1. /\ Banked(b, open, right, D, mx, Drag(D), w)
        /\ \A i \in 1 .. w : Dist(open, right, holes[i]) \in D
        /\ \A h \in D : \E i \in 1 .. w : h = Dist(open, right, holes[i])
    <3>1. open \in Live(b) /\ right \in BOOLEAN /\ Fetched(b, open, right, holes, w)
      BY <1>0, <1>3
    <3>. QED  BY <3>1, FetchedBanks
  <2>. HIDE DEF D
  <2>. QED  BY <1>0, <2>1 DEF BankOf
<1>. HIDE DEF D
<1>5. Banked(b, open, right, D, mx, g, w) /\ Banks(D, mx, g, w)  BY <1>4 DEF BankOf, Banked
<1>. HIDE DEF mx, g
<1>6. BankMask(b, open, right, D) = Image(b, to)  BY <1>5, BankMaskIs
<1>7. Relocated(b.data, to, BankMask(b, open, right, D)) = Carried(b, to)  BY <1>6, RelocatedIs
<1>8. Bank(b, spot, hole) = Opened(Changed(b, Carried(b, to), to[b.last], event), at)
  <2>1. Gathered(b, open, right, holes, D, Movers(D)) = Changed(b, Carried(b, to), to[b.last], event)
    BY <1>7, GatheredIs
  <2>2. at = IF right THEN open + l ELSE open - l  BY DEF Away
  <2>. QED  BY <1>1, <2>1, <2>2
<1>9. /\ \A p \in Live(b) : to[p] \in 0 .. b.cap - 1
      /\ \A p, q \in Live(b) : p < q => to[p] < to[q]
  BY <1>5, BankToIs, BankToRises
<1>10. l \in Nat /\ l <= mx /\ \A x \in Nat : x \notin D => l < Crossed(D, x)
  BY <1>3, <1>5, LandingIs
<1>. HIDE DEF l
<1>11. at \in 0 .. b.cap - 1
  <2>1. mx \in Nat  BY <1>5 DEF Banks
  <2>2. l \in 0 .. mx  BY <1>10, <2>1
  <2>. QED  BY <1>5, <2>2 DEF Banked
<1>12. ASSUME NEW p \in Live(b) PROVE IF p < spot THEN to[p] < at ELSE at < to[p]
  <2>. DEFINE x == Dist(open, right, p)
              c == Cross(D, x)
  <2>1. /\ x \in Int /\ c \in Int /\ x \notin D /\ to[p] = Away(open, right, c)
        /\ x < 0 => c = x
        /\ x >= 0 => c = Crossed(D, x)
    BY <1>5, BankToIs
  <2>2. p \in Nat  BY SlotIs
  <2>3. p < spot <=> IF right THEN x < 0 ELSE x >= 0
    BY <1>3, <2>2 DEF Dist
  <2>. HIDE DEF x
  <2>4. IF x < 0 THEN c < l ELSE l < c
    <3>1. CASE x < 0
      <4>. HIDE DEF c
      <4>. QED  BY <1>10, <2>1, <3>1
    <3>2. CASE ~(x < 0)
      <4>1. x \in Nat /\ x >= 0  BY <2>1, <3>2
      <4>. QED  BY <1>10, <2>1, <3>2, <4>1
    <3>. QED  BY <3>1, <3>2
  <2>. HIDE DEF c
  <2>5. IF right THEN (c < l <=> Away(open, right, c) < at) /\ (l < c <=> at < Away(open, right, c))
        ELSE (c < l <=> at < Away(open, right, c)) /\ (l < c <=> Away(open, right, c) < at)
    BY <1>3, <1>10, <2>1 DEF Away
  <2>. HIDE DEF at
  <2>6. right \in BOOLEAN  BY <1>3
  <2>7. CASE x < 0  BY <2>1, <2>3, <2>4, <2>5, <2>6, <2>7
  <2>8. CASE ~(x < 0)
    <3>1. x >= 0  BY <2>1, <2>8
    <3>. QED  BY <2>1, <2>3, <2>4, <2>5, <2>6, <2>8, <3>1
  <2>. QED  BY <2>7, <2>8
<1>13. Told(b, to, event, b.cap)
  <2>1. /\ event.pairs = BankPairs(open, right, D) /\ event.spans = BankSpans(open, right, holes)
        /\ event = Event(b.tr, event.pairs, event.spans)
    BY DEF Event
  <2>2. Unravelled(b, to, event.pairs, b.cap)  BY <1>5, <2>1, BankPairsAre
  <2>3. ASSUME NEW p \in Live(b), to[p] # p
        PROVE  /\ \E s \in event.spans : Between(p, s)
               /\ \E s \in event.spans : Between(to[p], s)
    BY <1>4, <2>1, <2>3, BankTells
  <2>. HIDE DEF event, to
  <2>. QED  BY <2>1, <2>2, <2>3 DEF Told
<1>. HIDE DEF to, at, event
<1>14. Opens(b, spot, Opened(Changed(b, Carried(b, to), to[b.last], event), at), to)
  BY <1>9, <1>11, <1>12, <1>13, ChangedOpens
<1>. QED  BY <1>8, <1>14

-----------------------------------------------------------------------------
(* Water-leveling: the scan.                                               *)

ScanLive(b, s) == Cardinality(LiveIn(b, s[1], s[2]))
ScanSpan(s) == Min({(s[2] + 1) * Word, s[3]}) - s[1] * Word
ScanFull(b, s) == ScanLive(b, s) * FreeDen >= ScanSpan(s) * FreeNum
ScanSparse(b, budget, s) ==
    /\ ~ (ScanSpan(s) < budget /\ ScanLive(b, s) * s[3] > Count(b) * ScanSpan(s))
    /\ ~ ScanFull(b, s)
ScanRight(s) == (s[2] + 1) * Word < s[3]
ScanBeside(b, x) == Cardinality(LiveIn(b, x, x))
ScanMints(b, s) ==
    /\ ScanFull(b, s) /\ ~ ScanRight(s)
    /\ (s[1] > 0 => ScanBeside(b, s[1] - 1) > 0)
ScanGrown(b, s) == s[3] + (ScanLive(b, s) * FreeDen) \div FreeNum + 1 - ScanSpan(s)
ScanStop(s, ok) == [lo |-> s[1], hi |-> s[2], cap |-> s[3], ok |-> ok]
ScanLeft(b, s) ==
    s[1] > 0 /\ (ScanRight(s) => ScanBeside(b, s[1] - 1) <= ScanBeside(b, s[2] + 1))

\* whether the scan goes on, and where
ScanGoes(b, budget, s) ==
    /\ ~ ScanSparse(b, budget, s)
    /\ IF ScanMints(b, s) THEN ~ (ScanGrown(b, s) > NameCount)
       ELSE ~ (~ (s[1] > 0) /\ ~ ScanRight(s))
ScanNext(b, s) ==
    IF ScanMints(b, s) THEN <<s[1], (ScanGrown(b, s) - 1) \div Word, ScanGrown(b, s)>>
    ELSE IF ScanLeft(b, s) THEN <<s[1] - 1, s[2], s[3]>>
    ELSE <<s[1], s[2] + 1, s[3]>>
ScanOut(b, budget, s) ==
    ScanStop(s, ScanSparse(b, budget, s) \/ ~ ScanMints(b, s))

\* A window of the scan is a run of whole words, cut at the block's end.
LEMMA WindowIs ==
    ASSUME NEW b, Good(b), NEW s \in Windows(b)
    PROVE  /\ s[1] \in Nat /\ s[2] \in Nat /\ s[3] \in Nat /\ s = <<s[1], s[2], s[3]>>
           /\ s[1] <= s[2] /\ s[2] * Word < s[3] /\ b.cap <= s[3] /\ s[3] <= NameCount
           /\ s[2] <= NameCount
           /\ s[1] * Word \in Nat /\ s[2] * Word \in Nat /\ s[1] * Word <= s[2] * Word
           /\ (s[2] + 1) * Word = s[2] * Word + Word
           /\ ScanSpan(s) \in Nat /\ ScanSpan(s) >= 1
           /\ Min({(s[2] + 1) * Word, s[3]}) \in Nat
           /\ Min({(s[2] + 1) * Word, s[3]}) <= s[3]
           /\ Min({(s[2] + 1) * Word, s[3]}) <= s[2] * Word + Word
           /\ Min({(s[2] + 1) * Word, s[3]}) = s[3]
                \/ Min({(s[2] + 1) * Word, s[3]}) = s[2] * Word + Word
<1>. DEFINE x == s[1]
            y == s[2]
            z == s[3]
            V == {(s[2] + 1) * Word, s[3]}
            v == Min(V)
<1>0. NameCount \in Nat /\ b.cap \in Nat /\ Word \in Nat /\ Word >= 1
  BY NamesAre, GoodTypes, ConstantsAre
<1>1. s \in (0 .. NameCount) \X (0 .. NameCount) \X (0 .. NameCount)
      /\ x <= y /\ y * Word < z /\ b.cap <= z
  BY DEF Windows
<1>2. s = <<x, y, z>> /\ x \in 0 .. NameCount /\ y \in 0 .. NameCount /\ z \in 0 .. NameCount
  BY <1>1
<1>3. V = {(y + 1) * Word, z} /\ ScanSpan(s) = v - x * Word  BY DEF ScanSpan
<1>. HIDE DEF x, y, z, V
<1>4. x \in Nat /\ y \in Nat /\ z \in Nat /\ z <= NameCount /\ y <= NameCount  BY <1>0, <1>2
<1>5. x * Word \in Nat /\ y * Word \in Nat /\ (y + 1) * Word = y * Word + Word
  BY <1>0, <1>4
<1>6. x * Word <= y * Word
  <2>1. Word * x <= Word * y  BY <1>0, <1>1, <1>4, Times
  <2>2. Word * x = x * Word /\ Word * y = y * Word  BY <1>0, <1>4
  <2>. QED  BY <2>1, <2>2
<1>. DEFINE e == y * Word
            f == x * Word
<1>7. V = {e + Word, z} /\ V \in SUBSET Nat /\ V # {}
  <2>1. V = {e + Word, z}  BY <1>3, <1>5
  <2>. QED  BY <1>0, <1>4, <1>5, <2>1
<1>8. v \in V /\ \A t \in V : v <= t  BY <1>7, LeastIs
<1>. HIDE DEF e, f, v
<1>9. v \in Nat /\ v <= z /\ v <= e + Word /\ (v = z \/ v = e + Word)
  BY <1>7, <1>8
<1>10. v - f \in Nat /\ v - f >= 1
  <2>1. f \in Nat /\ e \in Nat /\ f <= e /\ e < z  BY <1>1, <1>5, <1>6 DEF e, f
  <2>. QED  BY <1>0, <1>4, <1>9, <2>1
<1>. QED  BY <1>1, <1>2, <1>3, <1>4, <1>5, <1>6, <1>9, <1>10 DEF x, y, z, V, v, e, f

\* The elements in the words absorbed, and in the region of them.
LEMMA LiveInIs ==
    ASSUME NEW b, Good(b), NEW lo, NEW hi
    PROVE  /\ LiveIn(b, lo, hi) \subseteq Live(b) /\ IsFiniteSet(LiveIn(b, lo, hi))
           /\ Cardinality(LiveIn(b, lo, hi)) \in Nat
<1>1. LiveIn(b, lo, hi) \subseteq Live(b)  BY DEF LiveIn
<1>2. IsFiniteSet(LiveIn(b, lo, hi))  BY <1>1, LiveIs, FS_Subset
<1>. QED  BY <1>1, <1>2, FS_CardinalityType

\* A block that is too full grows.
LEMMA GrownIs ==
    ASSUME NEW b, Good(b), NEW s \in Windows(b), ScanFull(b, s)
    PROVE  ScanGrown(b, s) \in Nat /\ ScanGrown(b, s) > s[3]
<1>. DEFINE l == ScanLive(b, s)
            p == ScanSpan(s)
            a == l * FreeDen
            q == a \div FreeNum
            r == a % FreeNum
<1>0. /\ l \in Nat /\ p \in Nat /\ s[3] \in Nat
      /\ FreeNum \in Nat /\ FreeNum >= 1 /\ FreeDen \in Nat
  BY LiveInIs, WindowIs, ConstantsAre DEF ScanLive
<1>1. a >= p * FreeNum /\ ScanGrown(b, s) = s[3] + q + 1 - p
  BY DEF ScanFull, ScanGrown
<1>. HIDE DEF l, p
<1>2. a \in Nat  BY <1>0
<1>. HIDE DEF a
<1>3. q \in Nat /\ r \in 0 .. FreeNum - 1 /\ a = q * FreeNum + r  BY <1>0, <1>2, Quotient
<1>. HIDE DEF q, r
<1>4. q >= p
  <2>1. SUFFICES ASSUME q < p PROVE FALSE  BY <1>0, <1>3
  <2>2. FreeNum * q + FreeNum <= FreeNum * p /\ FreeNum * q \in Nat  BY <1>0, <1>3, <2>1, Times
  <2>3. FreeNum * q = q * FreeNum /\ FreeNum * p = p * FreeNum  BY <1>0, <1>3
  <2>. DEFINE x == q * FreeNum
              y == p * FreeNum
  <2>4. x \in Nat /\ x + FreeNum <= y /\ a = x + r /\ a >= y  BY <1>1, <1>3, <2>2, <2>3
  <2>5. y \in Int  BY <1>0
  <2>. HIDE DEF x, y
  <2>. QED  BY <1>0, <1>2, <1>3, <2>4, <2>5
<1>. QED  BY <1>0, <1>1, <1>3, <1>4

\* The scan goes on to a wider window, or to one of a greater block.
LEMMA ScanGoesOn ==
    ASSUME NEW b, Good(b), NEW budget, NEW s \in Windows(b), ScanGoes(b, budget, s)
    PROVE  LET t == ScanNext(b, s)
           IN  /\ t \in Windows(b) /\ t[1] \in Nat /\ t[2] \in Nat /\ t[3] \in Nat
               /\ t[1] <= s[1] /\ s[2] <= t[2] /\ s[3] <= t[3]
               /\ t[1] < s[1] \/ s[2] < t[2] \/ s[3] < t[3]
<1>. DEFINE x == s[1]
            y == s[2]
            z == s[3]
            t == ScanNext(b, s)
            W == (0 .. NameCount) \X (0 .. NameCount) \X (0 .. NameCount)
<1>0. /\ NameCount \in Nat /\ b.cap \in Nat /\ Word \in Nat /\ Word >= 1
  BY NamesAre, GoodTypes, ConstantsAre
<1>1. /\ x \in Nat /\ y \in Nat /\ z \in Nat /\ x <= y /\ y * Word < z /\ b.cap <= z
      /\ z <= NameCount /\ y <= NameCount /\ (y + 1) * Word = y * Word + Word /\ y * Word \in Nat
  BY WindowIs
<1>2. ASSUME NEW u \in Nat, NEW v \in Nat, NEW w \in Nat, u <= v, v * Word < w, b.cap <= w,
             w <= NameCount
      PROVE  <<u, v, w>> \in Windows(b)
  <2>1. v <= NameCount
    <3>1. v * 1 <= v * Word /\ v * Word \in Nat  BY <1>0, Times
    <3>. DEFINE e == v * Word
    <3>2. v <= e /\ e \in Nat /\ e < w  BY <1>2, <3>1
    <3>. HIDE DEF e
    <3>. QED  BY <1>0, <1>2, <3>2
  <2>. DEFINE q == <<u, v, w>>
  <2>2. q \in W  BY <1>0, <1>2, <2>1
  <2>3. q[1] = u /\ q[2] = v /\ q[3] = w  OBVIOUS
  <2>. HIDE DEF q, W
  <2>4. q \in Windows(b)  BY <1>2, <2>2, <2>3 DEF Windows, W
  <2>. QED  BY <2>4 DEF q
<1>3. CASE ScanMints(b, s)
  <2>. DEFINE g == ScanGrown(b, s)
              h == (g - 1) \div Word
  <2>1. g \in Nat /\ g > z  BY <1>3, GrownIs DEF ScanMints
  <2>2. g <= NameCount
    <3>1. ~(g > NameCount)  BY <1>3 DEF ScanGoes
    <3>. HIDE DEF g
    <3>. QED  BY <1>0, <2>1, <3>1
  <2>3. t = <<x, h, g>>  BY <1>3 DEF ScanNext
  <2>. HIDE DEF g, x, y, z, t
  <2>4. g - 1 \in Nat  BY <1>1, <2>1
  <2>. DEFINE r == (g - 1) % Word
              e == h * Word
  <2>5. h \in Nat /\ r \in 0 .. Word - 1 /\ g - 1 = e + r  BY <1>0, <2>4, Quotient
  <2>6. e \in Nat  BY <1>0, <2>5
  <2>7. y <= h
    <3>1. SUFFICES ASSUME h < y PROVE FALSE  BY <1>1, <2>5
    <3>2. Word * h + Word <= Word * y  BY <1>0, <1>1, <2>5, <3>1, Times
    <3>3. Word * h = e /\ Word * y = y * Word  BY <1>0, <1>1, <2>5
    <3>. DEFINE f == y * Word
    <3>4. e + Word <= f /\ f < z /\ f \in Nat  BY <1>1, <3>2, <3>3
    <3>. HIDE DEF f, e, r, h
    <3>. QED  BY <1>0, <1>1, <2>1, <2>5, <2>6, <3>4
  <2>. HIDE DEF h, r
  <2>8. e < g
    <3>. HIDE DEF e
    <3>. QED  BY <1>0, <2>1, <2>5, <2>6
  <2>9. <<x, h, g>> \in Windows(b)
    <3>1. x <= h /\ b.cap <= g /\ h * Word < g  BY <1>0, <1>1, <2>1, <2>5, <2>7, <2>8
    <3>. QED  BY <1>1, <1>2, <2>1, <2>2, <2>5, <3>1
  <2>10. t[1] = x /\ t[2] = h /\ t[3] = g  BY <2>3
  <2>. HIDE DEF e
  <2>11. /\ t \in Windows(b) /\ t[1] \in Nat /\ t[2] \in Nat /\ t[3] \in Nat
         /\ t[1] <= x /\ y <= t[2] /\ z <= t[3] /\ z < t[3]
    BY <1>1, <2>1, <2>3, <2>5, <2>7, <2>9, <2>10
  <2>. QED  BY <2>11 DEF x, y, z, t
<1>4. CASE ~ScanMints(b, s) /\ ScanLeft(b, s)
  <2>1. t = <<x - 1, y, z>>  BY <1>4 DEF ScanNext
  <2>2. x > 0  BY <1>4 DEF ScanLeft
  <2>. HIDE DEF x, y, z, t
  <2>3. x - 1 \in Nat /\ x - 1 <= y  BY <1>1, <2>2
  <2>4. <<x - 1, y, z>> \in Windows(b)  BY <1>1, <1>2, <2>3
  <2>5. t[1] = x - 1 /\ t[2] = y /\ t[3] = z  BY <2>1
  <2>6. /\ t \in Windows(b) /\ t[1] \in Nat /\ t[2] \in Nat /\ t[3] \in Nat
        /\ t[1] <= x /\ y <= t[2] /\ z <= t[3] /\ t[1] < x
    BY <1>1, <2>1, <2>3, <2>4, <2>5
  <2>. QED  BY <2>6 DEF x, y, z, t
<1>5. CASE ~ScanMints(b, s) /\ ~ScanLeft(b, s)
  <2>1. t = <<x, y + 1, z>>  BY <1>5 DEF ScanNext
  <2>2. ScanRight(s)
    <3>1. ~(~ (x > 0) /\ ~ ScanRight(s))  BY <1>5 DEF ScanGoes
    <3>2. ~(x > 0 /\ ~ScanRight(s))  BY <1>5 DEF ScanLeft
    <3>. QED  BY <3>1, <3>2
  <2>3. (y + 1) * Word < z  BY <2>2 DEF ScanRight
  <2>. HIDE DEF x, y, z, t
  <2>4. y + 1 \in Nat /\ x <= y + 1  BY <1>1
  <2>5. <<x, y + 1, z>> \in Windows(b)  BY <1>1, <1>2, <2>3, <2>4
  <2>6. t[1] = x /\ t[2] = y + 1 /\ t[3] = z  BY <2>1
  <2>7. /\ t \in Windows(b) /\ t[1] \in Nat /\ t[2] \in Nat /\ t[3] \in Nat
        /\ t[1] <= x /\ y <= t[2] /\ z <= t[3] /\ y < t[2]
    BY <1>1, <2>1, <2>4, <2>5, <2>6
  <2>. QED  BY <2>7 DEF x, y, z, t
<1>. QED  BY <1>3, <1>4, <1>5

\* the window that a scan ends with holds the window w
Covers(b, w, out) ==
    /\ <<out.lo, out.hi, out.cap>> \in Windows(b)
    /\ out.lo \in Nat /\ out.hi \in Nat /\ out.cap \in Nat
    /\ out.lo <= w[1] /\ w[2] <= out.hi

\* The scan ends with a window that holds the spot's word.
LEMMA ScanIs ==
    ASSUME NEW b, Good(b), b.cap > 0, NEW spot \in 0 .. b.cap, NEW budget
    PROVE  LET at == Min({spot, b.cap - 1})
               w == at \div Word
           IN  /\ at \in 0 .. b.cap - 1 /\ w \in Nat
               /\ (at = spot \/ (at = b.cap - 1 /\ spot = b.cap))
               /\ w * Word <= at /\ at < w * Word + Word
               /\ Covers(b, <<w, w>>, Scan(b, spot, budget))
<1>. DEFINE D == Windows(b)
            N == NameCount
            go == [s \in D |-> ScanGoes(b, budget, s)]
            next == [s \in D |-> ScanNext(b, s)]
            out == [s \in D |-> ScanOut(b, budget, s)]
            m == [s \in D |-> (N - s[3]) + s[1] + (N - s[2])]
            tail(f) == LastCall(f, D, go, next, out)
            is(f) == f = [s \in D |->
               IF ScanSparse(b, budget, s) THEN ScanStop(s, TRUE)
               ELSE IF ScanMints(b, s)
                    THEN IF ScanGrown(b, s) > NameCount THEN ScanStop(s, FALSE)
                         ELSE f[<<s[1], (ScanGrown(b, s) - 1) \div Word, ScanGrown(b, s)>>]
               ELSE IF ~ (s[1] > 0) /\ ~ ScanRight(s) THEN ScanStop(s, TRUE)
               ELSE IF ScanLeft(b, s) THEN f[<<s[1] - 1, s[2], s[3]>>]
               ELSE f[<<s[1], s[2] + 1, s[3]>>]]
            at == Min({spot, b.cap - 1})
            w == at \div Word
<1>0. /\ N \in Nat /\ b.cap \in Nat /\ b.cap <= N /\ Word \in Nat /\ Word >= 1
      /\ 3 * N \in Nat
  BY NamesAre, GoodTypes, ConstantsAre
<1>1. m \in [D -> 0 .. 3 * N]
  <2>1. ASSUME NEW s \in D PROVE (N - s[3]) + s[1] + (N - s[2]) \in 0 .. 3 * N
    <3>1. /\ s[1] \in Nat /\ s[2] \in Nat /\ s[3] \in Nat /\ s[1] <= s[2]
          /\ s[3] <= N /\ s[2] <= N
      BY WindowIs
    <3>. HIDE DEF N, D
    <3>. QED  BY <1>0, <3>1
  <2>. HIDE DEF N, D
  <2>. QED  BY <2>1
<1>2. ASSUME NEW s \in D, go[s]
      PROVE  /\ next[s] \in D /\ m[next[s]] < m[s]
             /\ next[s][1] \in Nat /\ next[s][2] \in Nat
             /\ next[s][1] <= s[1] /\ s[2] <= next[s][2]
  <2>. DEFINE t == ScanNext(b, s)
  <2>1. /\ t \in D /\ t[1] \in Nat /\ t[2] \in Nat /\ t[3] \in Nat
        /\ t[1] <= s[1] /\ s[2] <= t[2] /\ s[3] <= t[3]
        /\ t[1] < s[1] \/ s[2] < t[2] \/ s[3] < t[3]
    BY <1>2, ScanGoesOn
  <2>2. s[1] \in Nat /\ s[2] \in Nat /\ s[3] \in Nat  BY WindowIs
  <2>3. next[s] = t  OBVIOUS
  <2>. HIDE DEF t
  <2>4. m[t] = (N - t[3]) + t[1] + (N - t[2]) /\ m[s] = (N - s[3]) + s[1] + (N - s[2])
    BY <2>1
  <2>. HIDE DEF m, next, go, D, N
  <2>5. m[t] < m[s]  BY <1>0, <2>1, <2>2, <2>4
  <2>. QED  BY <2>1, <2>3, <2>5
<1>3. \E f : tail(f)
  <2>. HIDE DEF m, next, go, out, D, N
  <2>1. Falls(D, 3 * N, m, go, next)  BY <1>0, <1>1, <1>2 DEF Falls
  <2>. QED  BY <2>1, TailRecursion
<1>4. ASSUME NEW f PROVE is(f) <=> tail(f)
  <2>1. ASSUME NEW s \in D
        PROVE  (IF ScanSparse(b, budget, s) THEN ScanStop(s, TRUE)
               ELSE IF ScanMints(b, s)
                    THEN IF ScanGrown(b, s) > NameCount THEN ScanStop(s, FALSE)
                         ELSE f[<<s[1], (ScanGrown(b, s) - 1) \div Word, ScanGrown(b, s)>>]
               ELSE IF ~ (s[1] > 0) /\ ~ ScanRight(s) THEN ScanStop(s, TRUE)
               ELSE IF ScanLeft(b, s) THEN f[<<s[1] - 1, s[2], s[3]>>]
               ELSE f[<<s[1], s[2] + 1, s[3]>>]) = IF go[s] THEN f[next[s]] ELSE out[s]
    <3>1. go[s] = ScanGoes(b, budget, s) /\ next[s] = ScanNext(b, s)
          /\ out[s] = ScanOut(b, budget, s)
      OBVIOUS
    <3>. HIDE DEF next, go, out, D
    <3>2. CASE ScanSparse(b, budget, s)
      <4>1. ~ScanGoes(b, budget, s) /\ ScanOut(b, budget, s) = ScanStop(s, TRUE)
        <5>1. (ScanSparse(b, budget, s) \/ ~ ScanMints(b, s)) = TRUE  BY <3>2
        <5>. QED  BY <3>2, <5>1 DEF ScanGoes, ScanOut
      <4>. QED  BY <3>1, <3>2, <4>1
    <3>3. CASE ~ScanSparse(b, budget, s) /\ ScanMints(b, s) /\ ScanGrown(b, s) > NameCount
      <4>1. ~ScanGoes(b, budget, s) /\ ScanOut(b, budget, s) = ScanStop(s, FALSE)
        <5>1. (ScanSparse(b, budget, s) \/ ~ ScanMints(b, s)) = FALSE  BY <3>3
        <5>. QED  BY <3>3, <5>1 DEF ScanGoes, ScanOut
      <4>. QED  BY <3>1, <3>3, <4>1
    <3>4. CASE ~ScanSparse(b, budget, s) /\ ScanMints(b, s) /\ ~(ScanGrown(b, s) > NameCount)
      BY <3>1, <3>4 DEF ScanGoes, ScanNext
    <3>5. CASE /\ ~ScanSparse(b, budget, s) /\ ~ScanMints(b, s)
               /\ ~ (s[1] > 0) /\ ~ ScanRight(s)
      <4>1. ~ScanGoes(b, budget, s) /\ ScanOut(b, budget, s) = ScanStop(s, TRUE)
        <5>1. (ScanSparse(b, budget, s) \/ ~ ScanMints(b, s)) = TRUE  BY <3>5
        <5>. QED  BY <3>5, <5>1 DEF ScanGoes, ScanOut
      <4>. QED  BY <3>1, <3>5, <4>1
    <3>6. CASE /\ ~ScanSparse(b, budget, s) /\ ~ScanMints(b, s)
               /\ ~(~ (s[1] > 0) /\ ~ ScanRight(s))
      BY <3>1, <3>6 DEF ScanGoes, ScanNext
    <3>. QED  BY <3>2, <3>3, <3>4, <3>5, <3>6
  <2>. HIDE DEF next, go, out, D
  <2>. QED  BY <2>1 DEF LastCall
<1>5. \E f : is(f)
  <2>. HIDE DEF is
  <2>. QED  BY <1>3, <1>4
<1>6. Scan(b, spot, budget) = (CHOOSE f : is(f))[<<w, w, b.cap>>]
  BY DEF Scan, ScanSparse, ScanMints, ScanFull, ScanGrown, ScanStop, ScanLeft, ScanRight,
         ScanLive, ScanSpan, ScanBeside
<1>7. PICK f : is(f) /\ Scan(b, spot, budget) = f[<<w, w, b.cap>>]
  <2>. HIDE DEF is, w
  <2>. QED  BY <1>5, <1>6
<1>8. tail(f)  BY <1>4, <1>7
<1>. HIDE DEF is
<1>9. \A s \in D : f[s] = IF go[s] THEN f[next[s]] ELSE out[s]
  <2>. HIDE DEF next, go, out, D
  <2>. QED  BY <1>8 DEF LastCall
<1>10. \A s \in D : s[1] \in Nat /\ s[2] \in Nat /\ s[3] \in Nat /\ s = <<s[1], s[2], s[3]>>
  BY WindowIs
<1>11. ASSUME NEW s \in D, ~go[s] PROVE Covers(b, s, f[s])
  <2>1. f[s] = out[s] /\ out[s] = ScanOut(b, budget, s)  BY <1>9, <1>11
  <2>2. f[s].lo = s[1] /\ f[s].hi = s[2] /\ f[s].cap = s[3]
    <3>. HIDE DEF out
    <3>. QED  BY <2>1 DEF ScanOut, ScanStop
  <2>. HIDE DEF out, go
  <2>3. <<f[s].lo, f[s].hi, f[s].cap>> \in Windows(b)  BY <1>10, <2>2
  <2>4. f[s].lo <= s[1] /\ s[2] <= f[s].hi  BY <1>10, <2>2
  <2>. HIDE DEF D
  <2>. QED  BY <1>10, <2>2, <2>3, <2>4 DEF Covers
<1>. DEFINE K == {j \in Nat : \A s \in D : m[s] <= j => Covers(b, s, f[s])}
<1>. HIDE DEF go, next, out, D, m
<1>12. \A s \in D : m[s] \in Nat /\ m[s] <= 3 * N
  <2>1. \A s \in D : m[s] \in 0 .. 3 * N  BY <1>1
  <2>. HIDE DEF N
  <2>. QED  BY <1>0, <2>1
<1>13. 0 \in K
  <2>1. ASSUME NEW s \in D, m[s] <= 0 PROVE Covers(b, s, f[s])
    <3>1. ~go[s]
      <4>1. SUFFICES ASSUME go[s] PROVE FALSE  OBVIOUS
      <4>2. m[next[s]] \in Nat /\ m[next[s]] < m[s]  BY <1>2, <1>12, <4>1
      <4>. QED  BY <1>12, <2>1, <4>2
    <3>. QED  BY <1>11, <3>1
  <2>. QED  BY <2>1
<1>14. ASSUME NEW j \in 0 + 1 .. 3 * N, j - 1 \in K PROVE j \in K
  <2>1. ASSUME NEW s \in D, m[s] <= j PROVE Covers(b, s, f[s])
    <3>1. CASE go[s]
      <4>. DEFINE t == next[s]
      <4>1. /\ t \in D /\ m[t] < m[s] /\ t[1] \in Nat /\ t[2] \in Nat
            /\ t[1] <= s[1] /\ s[2] <= t[2]
        BY <1>2, <3>1
      <4>2. f[s] = f[t]  BY <1>9, <3>1
      <4>. HIDE DEF t
      <4>3. m[t] <= j - 1  BY <1>12, <2>1, <4>1
      <4>4. Covers(b, t, f[t])  BY <1>14, <4>1, <4>3
      <4>5. s[1] \in Nat /\ s[2] \in Nat  BY <1>10
      <4>. QED  BY <4>1, <4>2, <4>4, <4>5 DEF Covers
    <3>2. CASE ~go[s]  BY <1>11, <3>2
    <3>. QED  BY <3>1, <3>2
  <2>2. j \in Nat  BY <1>0
  <2>. QED  BY <2>1, <2>2
<1>15. 3 * N \in K
  <2>. HIDE DEF K, N
  <2>1. 0 .. 3 * N \subseteq K  BY <1>0, <1>13, <1>14, Upwards
  <2>2. 3 * N \in 0 .. 3 * N  BY <1>0
  <2>. QED  BY <2>1, <2>2
<1>16. \A s \in D : Covers(b, s, f[s])  BY <1>12, <1>15
<1>. HIDE DEF K
<1>17. /\ at \in 0 .. b.cap - 1 /\ at \in Nat
       /\ (at = spot \/ (at = b.cap - 1 /\ spot = b.cap))
  <2>. DEFINE V == {spot, b.cap - 1}
  <2>1. V \in SUBSET Nat /\ V # {} /\ spot \in V /\ b.cap - 1 \in V  BY <1>0
  <2>2. at = Min(V)  OBVIOUS
  <2>3. Min(V) \in V /\ \A x \in V : Min(V) <= x  BY <2>1, LeastIs
  <2>4. at = spot \/ at = b.cap - 1  BY <2>3
  <2>5. at <= spot /\ at <= b.cap - 1  BY <2>1, <2>2, <2>3
  <2>. HIDE DEF at
  <2>. QED  BY <1>0, <2>4, <2>5
<1>. HIDE DEF at
<1>18. w \in Nat /\ w * Word <= at /\ at < w * Word + Word
  <2>. DEFINE r == at % Word
              e == w * Word
  <2>1. w \in Nat /\ r \in 0 .. Word - 1 /\ at = e + r  BY <1>0, <1>17, Quotient
  <2>2. e \in Nat  BY <1>0, <2>1
  <2>. HIDE DEF w, e, r
  <2>3. e <= at /\ at < e + Word  BY <1>0, <1>17, <2>1, <2>2
  <2>. QED  BY <2>1, <2>3 DEF e
<1>. HIDE DEF w
<1>19. <<w, w, b.cap>> \in D
  <2>. DEFINE e == w * Word
  <2>1. w * 1 <= w * Word /\ e \in Nat  BY <1>0, <1>18, Times
  <2>2. w <= e /\ e <= at  BY <1>18, <2>1
  <2>. HIDE DEF e
  <2>3. w \in 0 .. NameCount /\ b.cap \in 0 .. NameCount /\ e < b.cap
    BY <1>0, <1>17, <1>18, <2>1, <2>2
  <2>. DEFINE q == <<w, w, b.cap>>
  <2>4. q \in (0 .. NameCount) \X (0 .. NameCount) \X (0 .. NameCount)
        /\ q[1] = w /\ q[2] = w /\ q[3] = b.cap
    BY <2>3
  <2>. HIDE DEF q
  <2>5. q[1] <= q[2] /\ q[2] * Word < q[3] /\ b.cap <= q[3]
    BY <1>0, <1>18, <2>3, <2>4 DEF e
  <2>. QED  BY <2>4, <2>5 DEF D, Windows, q
<1>20. Covers(b, <<w, w>>, Scan(b, spot, budget))
  <2>1. Covers(b, <<w, w, b.cap>>, f[<<w, w, b.cap>>])  BY <1>16, <1>19
  <2>2. <<w, w, b.cap>>[1] = <<w, w>>[1] /\ <<w, w, b.cap>>[2] = <<w, w>>[2]  OBVIOUS
  <2>. QED  BY <1>7, <2>1, <2>2 DEF Covers
<1>. QED  BY <1>17, <1>18, <1>20 DEF at, w

-----------------------------------------------------------------------------
(* Water-leveling: the spread.                                             *)

\* Division keeps the order.
LEMMA DivRises ==
    ASSUME NEW n \in Nat, n > 0, NEW x \in Nat, NEW y \in Nat, x <= y
    PROVE  x \div n \in Nat /\ y \div n \in Nat /\ x \div n <= y \div n
<1>. DEFINE q == x \div n
            s == y \div n
            r == x % n
            t == y % n
            e == q * n
            f == s * n
<1>1. q \in Nat /\ r \in 0 .. n - 1 /\ x = e + r  BY Quotient
<1>2. s \in Nat /\ t \in 0 .. n - 1 /\ y = f + t  BY Quotient
<1>3. q <= s
  <2>. HIDE DEF q, s, r, t
  <2>1. SUFFICES ASSUME s < q PROVE FALSE  BY <1>1, <1>2
  <2>2. n * s + n <= n * q  BY <1>1, <1>2, <2>1, Times
  <2>3. n * s = f /\ n * q = e /\ e \in Nat /\ f \in Nat  BY <1>1, <1>2
  <2>4. f + n <= e /\ e \in Nat /\ f \in Nat  BY <2>2, <2>3
  <2>. HIDE DEF e, f
  <2>. QED  BY <1>1, <1>2, <2>4
<1>. QED  BY <1>1, <1>2, <1>3

\* the place of rank j on a lattice with one hole per stride
Rise(j, stride) == j + j \div (stride - 1)

\* The strided ranks of a level rise.
LEMMA RiseIs ==
    ASSUME NEW stride \in Nat, stride >= 2, NEW i \in Nat, NEW j \in Nat
    PROVE  /\ Rise(i, stride) \in Nat
           /\ i < j => Rise(i, stride) < Rise(j, stride)
           /\ i <= j => Rise(i, stride) <= Rise(j, stride)
<1>. DEFINE n == stride - 1
            q == i \div n
            s == j \div n
<1>1. n \in Nat /\ n > 0  OBVIOUS
<1>2. i <= i  OBVIOUS
<1>. HIDE DEF n
<1>3. q \in Nat  BY <1>1, <1>2, DivRises
<1>4. i <= j => s \in Nat /\ q <= s  BY <1>1, DivRises
<1>5. Rise(i, stride) = i + q /\ Rise(j, stride) = j + s  BY DEF Rise, n
<1>. HIDE DEF q, s
<1>. QED  BY <1>3, <1>4, <1>5

\* The stride that levelling chooses fits the window, with a gap after each slot.
LEMMA MinStrideIs ==
    ASSUME NEW live \in Nat, NEW span \in Nat, live < span
    PROVE  LET s == MinStride(live, span)
           IN  s \in Nat /\ s >= 2 /\ Rise(live, s) < span
<1>. DEFINE S == {s \in 2 .. span + 2 : live + live \div (s - 1) < span}
            s == MinStride(live, span)
<1>1. S \in SUBSET Nat  OBVIOUS
<1>2. span + 2 \in S
  <2>. DEFINE n == (span + 2) - 1
  <2>1. Divided(live, n, 0, live)
    <3>1. n \in Nat /\ n > 0 /\ live \in 0 .. n - 1  OBVIOUS
    <3>2. live = 0 * n + live  BY <3>1
    <3>. HIDE DEF n
    <3>. QED  BY <3>1, <3>2 DEF Divided
  <2>2. live \div n = 0
    <3>. HIDE DEF n
    <3>. QED  BY <2>1, QuotientOf
  <2>3. span + 2 \in 2 .. span + 2  OBVIOUS
  <2>4. live + live \div n < span
    <3>. HIDE DEF n
    <3>. QED  BY <2>2
  <2>. QED  BY <2>3, <2>4
<1>3. s = Min(S)  BY DEF MinStride
<1>. HIDE DEF s
<1>4. s \in S
  <2>. HIDE DEF S
  <2>. QED  BY <1>1, <1>2, <1>3, LeastIs
<1>. QED  BY <1>4 DEF Rise, s

\* The slots base .. end - 1 around the spot, with the elements in them.
Region(b, spot, base, end, S) ==
    /\ base \in Nat /\ end \in Nat /\ base < end /\ end <= b.cap /\ spot \in Nat
    /\ S = {p \in Live(b) : base <= p /\ p < end}
    /\ \A p \in Live(b) : p \notin S => IF p < spot THEN p < base ELSE end <= p

LevelTo(b, base, S, r, stride) ==
    [p \in 0 .. b.cap - 1 |->
       IF p \in S THEN base + Lattice(RankIn(S, p), r, stride) ELSE p]

\* how many they are, how many of them are below the spot, and the stride
Spread(b, spot, base, end, S, r, stride) ==
    /\ Region(b, spot, base, end, S) /\ r = RankIn(S, spot)
    /\ stride \in Nat /\ stride >= 2 /\ Rise(Cardinality(S), stride) < end - base

\* Levelling moves each live slot of the window within it, around the open slot.
LEMMA LevelToIs ==
    ASSUME NEW b, Good(b), NEW spot, NEW base, NEW end, NEW S, NEW r, NEW stride,
           Spread(b, spot, base, end, S, r, stride)
    PROVE  LET to == LevelTo(b, base, S, r, stride)
               at == base + Rise(r, stride)
           IN  /\ at \in 0 .. b.cap - 1 /\ base <= at /\ at < end /\ at \in Nat
               /\ \A p \in S : /\ to[p] \in Nat /\ base <= to[p] /\ to[p] < end
                               /\ IF p < spot THEN to[p] < at ELSE at < to[p]
               /\ \A p \in Live(b) : p \notin S => to[p] = p
               /\ \A p, q \in S : p < q => to[p] < to[q]
<1>. DEFINE to == LevelTo(b, base, S, r, stride)
            at == base + Rise(r, stride)
            n == Cardinality(S)
            rank(p) == RankIn(S, p)
            j(p) == IF rank(p) >= r THEN rank(p) + 1 ELSE rank(p)
<1>0. /\ base \in Nat /\ end \in Nat /\ base < end /\ end <= b.cap /\ spot \in Nat
      /\ b.cap \in Nat /\ r = rank(spot) /\ stride \in Nat /\ stride >= 2
      /\ Rise(n, stride) < end - base
      /\ S = {p \in Live(b) : base <= p /\ p < end}
  BY GoodTypes DEF Spread, Region
<1>1. S \in SUBSET Nat /\ IsFiniteSet(S) /\ \A p \in S : p \in Live(b) /\ p \in Nat /\ p \in 0 .. b.cap - 1
  <2>1. S \subseteq Live(b)  BY <1>0
  <2>2. \A p \in Live(b) : p \in Nat /\ p \in 0 .. b.cap - 1  BY SlotIs
  <2>3. IsFiniteSet(S)  BY <2>1, LiveIs, FS_Subset
  <2>. QED  BY <2>1, <2>2, <2>3
<1>. HIDE DEF rank, n
<1>2. /\ n \in Nat /\ \A x \in Nat : rank(x) \in Nat /\ rank(x) <= n
      /\ \A x \in S : rank(x) < n
      /\ \A x, z \in Nat : x <= z => rank(x) <= rank(z)
      /\ \A x \in S, z \in Nat : x < z => rank(x) < rank(z)
  <2>1. ASSUME NEW x \in Nat
        PROVE  /\ n \in Nat /\ rank(x) \in 0 .. n /\ rank(x) \in Nat
               /\ x \in S => rank(x) < n
               /\ \A z \in Nat : x <= z => rank(x) <= rank(z)
               /\ \A z \in Nat : x \in S /\ x < z => rank(x) < rank(z)
    BY <1>1, RankIs DEF rank, n
  <2>2. n \in Nat  BY <1>0, <2>1
  <2>. QED  BY <1>1, <2>1, <2>2
<1>3. \A p \in S : /\ j(p) \in Nat /\ j(p) <= n
                   /\ IF p < spot THEN j(p) < r ELSE r < j(p)
  <2>1. ASSUME NEW p \in S
        PROVE  /\ j(p) \in Nat /\ j(p) <= n
               /\ IF p < spot THEN j(p) < r ELSE r < j(p)
    <3>1. p \in Nat /\ rank(p) \in Nat /\ rank(p) < n /\ r \in Nat /\ n \in Nat
      BY <1>0, <1>1, <1>2
    <3>2. CASE p < spot
      <4>1. rank(p) < r  BY <1>0, <1>2, <3>2
      <4>. QED  BY <3>1, <3>2, <4>1
    <3>3. CASE ~(p < spot)
      <4>1. r <= rank(p)  BY <1>0, <1>2, <3>1, <3>3
      <4>. QED  BY <3>1, <3>3, <4>1
    <3>. QED  BY <3>2, <3>3
  <2>. QED  BY <2>1
<1>4. \A p, q \in S : p < q => j(p) < j(q)
  <2>1. ASSUME NEW p \in S, NEW q \in S, p < q PROVE j(p) < j(q)
    <3>1. rank(p) < rank(q) /\ rank(p) \in Nat /\ rank(q) \in Nat /\ r \in Nat
      BY <1>0, <1>1, <1>2, <2>1
    <3>. QED  BY <3>1
  <2>. QED  BY <2>1
<1>5. \A p \in S : to[p] = base + Rise(j(p), stride)
  BY <1>1 DEF LevelTo, Lattice, Rise, rank
<1>6. \A p \in Live(b) : p \notin S => to[p] = p
  <2>1. \A p \in Live(b) : p \in 0 .. b.cap - 1  BY SlotIs
  <2>. QED  BY <2>1 DEF LevelTo
<1>7. r \in Nat /\ r <= n  BY <1>0, <1>2
<1>. HIDE DEF to, j
<1>8. \A x, z \in Nat : /\ Rise(x, stride) \in Nat
                        /\ x < z => Rise(x, stride) < Rise(z, stride)
                        /\ x <= z => Rise(x, stride) <= Rise(z, stride)
  BY <1>0, RiseIs
<1>9. \A x \in Nat : x <= n => base + Rise(x, stride) < end
  <2>1. ASSUME NEW x \in Nat, x <= n PROVE base + Rise(x, stride) < end
    <3>1. Rise(x, stride) <= Rise(n, stride)  BY <1>2, <1>8, <2>1
    <3>2. Rise(x, stride) \in Nat /\ Rise(n, stride) \in Nat  BY <1>2, <1>8
    <3>. QED  BY <1>0, <3>1, <3>2
  <2>. QED  BY <2>1
<1>10. at \in 0 .. b.cap - 1 /\ base <= at /\ at < end /\ at \in Nat
  <2>1. Rise(r, stride) \in Nat /\ at < end  BY <1>7, <1>8, <1>9
  <2>. QED  BY <1>0, <2>1
<1>11. ASSUME NEW p \in S
       PROVE  /\ to[p] \in Nat /\ base <= to[p] /\ to[p] < end
              /\ IF p < spot THEN to[p] < at ELSE at < to[p]
  <2>. DEFINE y == Rise(j(p), stride)
              z == Rise(r, stride)
  <2>1. /\ y \in Nat /\ z \in Nat /\ base + y < end
        /\ IF p < spot THEN y < z ELSE z < y
    BY <1>3, <1>7, <1>8, <1>9
  <2>2. to[p] = base + y /\ at = base + z  BY <1>5
  <2>. HIDE DEF y, z, at
  <2>. QED  BY <1>0, <2>1, <2>2
<1>12. ASSUME NEW p \in S, NEW q \in S, p < q PROVE to[p] < to[q]
  <2>. DEFINE y == Rise(j(p), stride)
              z == Rise(j(q), stride)
  <2>1. y \in Nat /\ z \in Nat /\ y < z  BY <1>3, <1>4, <1>8, <1>12
  <2>2. to[p] = base + y /\ to[q] = base + z  BY <1>5
  <2>. HIDE DEF y, z
  <2>. QED  BY <1>0, <2>1, <2>2
<1>. QED  BY <1>6, <1>10, <1>11, <1>12 DEF to

\* the elements that move: those that move up from above, then those that move
\* down from below
LevelMovers(S, to) ==
    Descending({p \in S : to[p] > p}) \o Ascending({p \in S : to[p] < p})

\* The pairs of levelling's event are its moves, in an order that overwrites none.
LEMMA LevelPairsAre ==
    ASSUME NEW b, Good(b), NEW spot, NEW base, NEW end, NEW S, NEW r, NEW stride,
           Spread(b, spot, base, end, S, r, stride)
    PROVE  LET to == LevelTo(b, base, S, r, stride)
           IN  Unravelled(b, to, PairsOf(LevelMovers(S, to), to), b.cap)
<1>. DEFINE to == LevelTo(b, base, S, r, stride)
            U == {p \in S : to[p] > p}
            V == {p \in S : to[p] < p}
            u == Descending(U)
            v == Ascending(V)
            k == Cardinality(U)
            l == Cardinality(V)
            s == LevelMovers(S, to)
            pairs == PairsOf(s, to)
<1>0. /\ \A p \in S : to[p] \in Nat /\ base <= to[p] /\ to[p] < end /\ to[p] \in 0 .. b.cap - 1
      /\ \A p \in Live(b) : p \notin S => to[p] = p
      /\ \A p, q \in S : p < q => to[p] < to[q]
      /\ \A p \in S : p \in Live(b) /\ p \in Nat
      /\ S \subseteq Live(b)
  <2>1. /\ \A p \in S : to[p] \in Nat /\ base <= to[p] /\ to[p] < end
        /\ \A p \in Live(b) : p \notin S => to[p] = p
        /\ \A p, q \in S : p < q => to[p] < to[q]
    BY LevelToIs
  <2>2. \A p \in S : p \in Live(b)  BY DEF Spread, Region
  <2>3. \A p \in S : p \in Nat  BY <2>2, SlotIs
  <2>4. end \in Nat /\ end <= b.cap /\ b.cap \in Nat  BY GoodTypes DEF Spread, Region
  <2>. HIDE DEF to
  <2>5. ASSUME NEW p \in S PROVE to[p] \in 0 .. b.cap - 1
    <3>1. to[p] \in Nat /\ to[p] < end  BY <2>1
    <3>. QED  BY <2>4, <3>1
  <2>. QED  BY <2>1, <2>2, <2>3, <2>5
<1>. HIDE DEF to
<1>1. /\ U \in SUBSET Nat /\ V \in SUBSET Nat /\ IsFiniteSet(U) /\ IsFiniteSet(V)
      /\ \A p \in U : p \in S /\ to[p] > p
      /\ \A p \in V : p \in S /\ to[p] < p
      /\ \A p \in S : to[p] # p => p \in U \/ p \in V
  <2>1. U \subseteq Live(b) /\ V \subseteq Live(b)  BY <1>0
  <2>2. IsFiniteSet(U) /\ IsFiniteSet(V)  BY <2>1, LiveIs, FS_Subset
  <2>3. \A p \in S : to[p] # p => p \in U \/ p \in V  BY <1>0
  <2>4. U \in SUBSET Nat /\ V \in SUBSET Nat  BY <1>0
  <2>. QED  BY <2>2, <2>3, <2>4
<1>2. s = u \o v  BY DEF LevelMovers
<1>. HIDE DEF U, V
<1>3. Lists(u, U, FALSE) /\ Lists(v, V, TRUE)  BY <1>1, DescendingIs, AscendingIs
<1>. HIDE DEF u, v, s
<1>4. /\ k \in Nat /\ l \in Nat /\ u \in Seq(U) /\ v \in Seq(V) /\ Len(u) = k /\ Len(v) = l
      /\ \A i \in 1 .. k : u[i] \in U
      /\ \A i \in 1 .. l : v[i] \in V
      /\ \A p \in U : \E i \in 1 .. k : u[i] = p
      /\ \A p \in V : \E i \in 1 .. l : v[i] = p
      /\ \A i, j \in 1 .. k : i < j => u[j] < u[i]
      /\ \A i, j \in 1 .. l : i < j => v[i] < v[j]
  BY <1>3 DEF Lists
<1>. HIDE DEF k, l
<1>5. /\ DOMAIN s = 1 .. k + l /\ s \in Seq(Nat) /\ Len(s) = k + l
      /\ \A i \in 1 .. k + l : s[i] = IF i <= k THEN u[i] ELSE v[i - k]
  <2>1. u \in Seq(Nat) /\ v \in Seq(Nat)  BY <1>1, <1>4, SeqMonotonic
  <2>2. s \in Seq(Nat) /\ Len(s) = k + l /\ \A i \in 1 .. k + l : s[i] = IF i <= k THEN u[i] ELSE v[i - k]
    <3>1. /\ u \o v \in Seq(Nat) /\ Len(u \o v) = Len(u) + Len(v)
          /\ \A i \in 1 .. Len(u) + Len(v) :
                (u \o v)[i] = IF i <= Len(u) THEN u[i] ELSE v[i - Len(u)]
      BY <2>1, ConcatProperties
    <3>. QED  BY <1>2, <1>4, <3>1
  <2>. QED  BY <2>2, LenProperties
<1>6. ASSUME NEW i \in 1 .. k + l
      PROVE  /\ i \in Nat
             /\ i <= k => i \in 1 .. k /\ s[i] = u[i] /\ s[i] \in U
             /\ ~(i <= k) => i - k \in 1 .. l /\ s[i] = v[i - k] /\ s[i] \in V
             /\ s[i] \in S /\ s[i] \in Nat
  <2>1. i \in Nat /\ (i <= k => i \in 1 .. k) /\ (~(i <= k) => i - k \in 1 .. l)  BY <1>4
  <2>2. /\ i <= k => s[i] = u[i] /\ s[i] \in U
        /\ ~(i <= k) => s[i] = v[i - k] /\ s[i] \in V
    BY <1>4, <1>5, <2>1
  <2>. QED  BY <1>0, <1>1, <2>1, <2>2
<1>7. ASSUME NEW i \in 1 .. k + l, NEW j \in 1 .. k + l, s[i] = s[j] PROVE i = j
  <2>1. CASE i <= k /\ j <= k
    <3>1. i \in 1 .. k /\ j \in 1 .. k /\ u[i] = u[j] /\ u[i] \in Nat  BY <1>6, <1>7, <2>1
    <3>2. ~(i < j) /\ ~(j < i)  BY <1>4, <3>1
    <3>. QED  BY <1>6, <3>2
  <2>2. CASE ~(i <= k) /\ ~(j <= k)
    <3>1. i - k \in 1 .. l /\ j - k \in 1 .. l /\ v[i - k] = v[j - k] /\ v[i - k] \in Nat
      BY <1>6, <1>7, <2>2
    <3>2. ~(i - k < j - k) /\ ~(j - k < i - k)  BY <1>4, <3>1
    <3>. QED  BY <1>4, <1>6, <3>2
  <2>3. CASE (i <= k /\ ~(j <= k)) \/ (~(i <= k) /\ j <= k)
    <3>1. \E p \in S : p \in U /\ p \in V  BY <1>6, <1>7, <2>3
    <3>. QED  BY <1>0, <1>1, <3>1
  <2>. QED  BY <2>1, <2>2, <2>3
<1>8. ASSUME NEW i \in 1 .. k + l, NEW j \in 1 .. k + l, s[j] = to[s[i]] PROVE j < i
  <2>1. /\ s[i] \in S /\ s[j] \in S /\ s[i] \in Nat /\ s[j] \in Nat
        /\ to[s[i]] \in Nat /\ to[s[j]] \in Nat /\ i \in Nat /\ j \in Nat /\ k \in Nat
    BY <1>0, <1>4, <1>6
  <2>2. CASE i <= k
    <3>1. s[i] \in U /\ s[i] < s[j]  BY <1>1, <1>6, <1>8, <2>1, <2>2
    <3>2. s[j] < to[s[j]]  BY <1>0, <1>8, <2>1, <3>1
    <3>3. j <= k
      <4>1. SUFFICES ASSUME ~(j <= k) PROVE FALSE  OBVIOUS
      <4>2. s[j] \in V  BY <1>6, <4>1
      <4>. QED  BY <1>1, <2>1, <3>2, <4>2
    <3>4. i \in 1 .. k /\ j \in 1 .. k /\ s[i] = u[i] /\ s[j] = u[j]  BY <1>6, <2>2, <3>3
    <3>5. i # j  BY <2>1, <3>1
    <3>6. ~(i < j)
      <4>1. SUFFICES ASSUME i < j PROVE FALSE  OBVIOUS
      <4>2. u[j] < u[i]  BY <1>4, <3>4, <4>1
      <4>. QED  BY <2>1, <3>1, <3>4, <4>2
    <3>. QED  BY <2>1, <3>5, <3>6
  <2>3. CASE ~(i <= k)
    <3>1. s[i] \in V /\ s[j] < s[i]  BY <1>1, <1>6, <1>8, <2>1, <2>3
    <3>2. CASE j <= k  BY <2>1, <2>3, <3>2
    <3>3. CASE ~(j <= k)
      <4>1. i - k \in 1 .. l /\ j - k \in 1 .. l /\ s[i] = v[i - k] /\ s[j] = v[j - k]
        BY <1>6, <2>3, <3>3
      <4>2. i # j  BY <2>1, <3>1
      <4>3. ~(i - k < j - k)
        <5>1. SUFFICES ASSUME i - k < j - k PROVE FALSE  OBVIOUS
        <5>2. v[i - k] < v[j - k]  BY <1>4, <4>1, <5>1
        <5>. QED  BY <2>1, <3>1, <4>1, <5>2
      <4>. QED  BY <2>1, <4>2, <4>3
    <3>. QED  BY <3>2, <3>3
  <2>. QED  BY <2>2, <2>3
<1>9. /\ DOMAIN pairs = 1 .. k + l /\ pairs = [i \in 1 .. k + l |-> pairs[i]]
      /\ \A i \in 1 .. k + l : pairs[i] = <<s[i], to[s[i]]>>
  <2>1. pairs = [i \in 1 .. k + l |-> <<s[i], to[s[i]]>>]  BY <1>5 DEF PairsOf
  <2>. HIDE DEF pairs
  <2>. QED  BY <2>1
<1>. HIDE DEF pairs
<1>10. ASSUME NEW i \in 1 .. k + l
       PROVE  /\ pairs[i][1] = s[i] /\ pairs[i][2] = to[s[i]]
              /\ pairs[i] \in Live(b) \X (0 .. b.cap - 1)
  <2>. DEFINE x == s[i]
              y == to[s[i]]
  <2>1. x \in Live(b) /\ y \in 0 .. b.cap - 1  BY <1>0, <1>6
  <2>2. pairs[i] = <<x, y>>  BY <1>9
  <2>. HIDE DEF x, y
  <2>3. pairs[i][1] = x /\ pairs[i][2] = y /\ pairs[i] \in Live(b) \X (0 .. b.cap - 1)
    BY <2>1, <2>2
  <2>. QED  BY <2>3 DEF x, y
<1>11. pairs \in Seq(Live(b) \X (0 .. b.cap - 1))
  <2>1. pairs \in [1 .. k + l -> Live(b) \X (0 .. b.cap - 1)]  BY <1>9, <1>10
  <2>2. k + l \in Nat  BY <1>4
  <2>. QED  BY <2>1, <2>2, ListOf
<1>12. ASSUME NEW p \in Live(b), to[p] # p PROVE \E i \in 1 .. k + l : pairs[i][1] = p
  <2>1. p \in U \/ p \in V  BY <1>0, <1>1, <1>12
  <2>2. CASE p \in U
    <3>1. PICK i \in 1 .. k : u[i] = p  BY <1>4, <2>2
    <3>2. i \in 1 .. k + l /\ i <= k  BY <1>4
    <3>. QED  BY <1>6, <1>10, <3>1, <3>2
  <2>3. CASE p \in V
    <3>1. PICK i \in 1 .. l : v[i] = p  BY <1>4, <2>3
    <3>2. i + k \in 1 .. k + l /\ ~(i + k <= k) /\ (i + k) - k = i  BY <1>4
    <3>3. s[i + k] = p  BY <1>6, <3>1, <3>2
    <3>. QED  BY <1>10, <3>2, <3>3
  <2>. QED  BY <2>1, <2>2, <2>3
<1>13. Unravelled(b, to, pairs, b.cap)
  BY <1>7, <1>8, <1>9, <1>10, <1>11, <1>12 DEF Unravelled
<1>. QED  BY <1>13 DEF pairs, s, to

\* Leveling opens a slot.
LEMMA LevelIs ==
    ASSUME NEW b, Good(b), NEW spot, NEW base, NEW end, NEW S, NEW r, NEW stride,
           Spread(b, spot, base, end, S, r, stride)
    PROVE  \E m : Opens(b, spot, Level(b, base, end, S, r, stride), m)
<1>. DEFINE to == LevelTo(b, base, S, r, stride)
            at == base + Rise(r, stride)
            data == Relocated(b.data, to, Image(b, to))
            last == to[b.last]
            pairs == PairsOf(LevelMovers(S, to), to)
            spans == {<<base, end - 1>>}
            event == Event(b.tr, pairs, spans)
<1>0. /\ base \in Nat /\ end \in Nat /\ end <= b.cap /\ b.cap \in Nat /\ spot \in Nat /\ base < end
      /\ S = {p \in Live(b) : base <= p /\ p < end}
      /\ \A p \in Live(b) : p \notin S => IF p < spot THEN p < base ELSE end <= p
  BY GoodTypes DEF Spread, Region
<1>1. /\ at \in 0 .. b.cap - 1 /\ base <= at /\ at < end /\ at \in Nat
      /\ \A p \in S : /\ to[p] \in Nat /\ base <= to[p] /\ to[p] < end
                      /\ IF p < spot THEN to[p] < at ELSE at < to[p]
      /\ \A p \in Live(b) : p \notin S => to[p] = p
      /\ \A p, q \in S : p < q => to[p] < to[q]
  BY LevelToIs
<1>2. Level(b, base, end, S, r, stride) = Opened(Changed(b, data, last, event), at)
  <2>1. b = [cap |-> b.cap, data |-> b.data, tr |-> b.tr, sum |-> b.sum, last |-> b.last,
             streak |-> b.streak, epoch |-> b.epoch, event |-> b.event]
    BY DEF Good, Whole
  <2>. DEFINE c == [b EXCEPT !.data = data, !.last = last]
              w == [cap |-> b.cap, data |-> data, tr |-> b.tr, sum |-> b.sum, last |-> last,
                    streak |-> b.streak, epoch |-> b.epoch, event |-> b.event]
              e == base + r + r \div (stride - 1)
  <2>2. Level(b, base, end, S, r, stride)
          = Opened([b EXCEPT !.data = data, !.last = last, !.event = event], e)
    BY DEF Level, LevelTo, LevelMovers, RankIn, Image
  <2>. HIDE DEF data, last, event
  <2>3. c = [b EXCEPT !.data = data, !.last = last]  OBVIOUS
  <2>4. [b EXCEPT !.data = data, !.last = last, !.event = event] = [c EXCEPT !.event = event]
    OBVIOUS
  <2>. HIDE DEF c
  <2>5. c = w  BY <2>1, <2>3
  <2>6. [c EXCEPT !.event = event] = Changed(b, data, last, event)  BY <2>5 DEF Changed
  <2>7. e = at
    <3>. DEFINE q == r \div (stride - 1)
    <3>1. r \in Nat /\ stride \in Nat /\ stride >= 2
      <4>1. S \subseteq Live(b)  BY <1>0
      <4>2. S \in SUBSET Nat /\ IsFiniteSet(S)  BY <4>1, LiveIs, FS_Subset
      <4>. QED  BY <1>0, <4>2, RankIs DEF Spread
    <3>. DEFINE n == stride - 1
    <3>2. n \in Nat /\ n > 0 /\ r <= r  BY <3>1
    <3>. HIDE DEF n
    <3>3. r \div n \in Nat  BY <3>1, <3>2, DivRises
    <3>4. q \in Nat  BY <3>3 DEF n
    <3>5. e = base + r + q /\ at = base + (r + q)  BY DEF Rise
    <3>. HIDE DEF q, e, at
    <3>. QED  BY <1>0, <3>1, <3>4, <3>5
  <2>. QED  BY <2>2, <2>4, <2>6, <2>7
<1>3. data = Carried(b, to)
  <2>. HIDE DEF to
  <2>. QED  BY RelocatedIs
<1>. HIDE DEF to, at, last, data
<1>4. \A p \in Live(b) : p \in Nat /\ p \in 0 .. b.cap - 1  BY SlotIs
<1>5. ASSUME NEW p \in Live(b)
      PROVE  /\ to[p] \in 0 .. b.cap - 1 /\ to[p] \in Nat
             /\ IF p < spot THEN to[p] < at ELSE at < to[p]
  <2>1. CASE p \in S
    <3>1. to[p] \in Nat /\ to[p] < end  BY <1>1, <2>1
    <3>. QED  BY <1>0, <1>1, <2>1, <3>1
  <2>2. CASE p \notin S
    <3>1. to[p] = p /\ (IF p < spot THEN p < base ELSE end <= p)  BY <1>0, <1>1, <2>2
    <3>. QED  BY <1>0, <1>1, <1>4, <3>1
  <2>. QED  BY <2>1, <2>2
<1>6. ASSUME NEW p \in Live(b), NEW q \in Live(b), p < q PROVE to[p] < to[q]
  <2>0. p \in Nat /\ q \in Nat  BY <1>4
  <2>1. CASE p \in S /\ q \in S  BY <1>1, <1>6, <2>1
  <2>2. CASE p \in S /\ q \notin S
    <3>1. base <= p /\ to[p] \in Nat /\ to[p] < end /\ to[q] = q  BY <1>0, <1>1, <2>2
    <3>2. ~(base <= q /\ q < end)  BY <1>0, <2>2
    <3>. QED  BY <1>0, <1>6, <2>0, <3>1, <3>2
  <2>3. CASE p \notin S /\ q \in S
    <3>1. q < end /\ to[q] \in Nat /\ base <= to[q] /\ to[p] = p  BY <1>0, <1>1, <2>3
    <3>2. ~(base <= p /\ p < end)  BY <1>0, <2>3
    <3>. QED  BY <1>0, <1>6, <2>0, <3>1, <3>2
  <2>4. CASE p \notin S /\ q \notin S  BY <1>1, <1>6, <2>4
  <2>. QED  BY <2>1, <2>2, <2>3, <2>4
<1>7. Told(b, to, event, b.cap)
  <2>1. event.pairs = pairs /\ event.spans = spans /\ event = Event(b.tr, pairs, spans)
    BY DEF Event
  <2>2. Unravelled(b, to, pairs, b.cap)  BY LevelPairsAre DEF to
  <2>3. ASSUME NEW p \in Live(b), to[p] # p
        PROVE  /\ \E s \in spans : Between(p, s)
               /\ \E s \in spans : Between(to[p], s)
    <3>. DEFINE s == <<base, end - 1>>
    <3>1. p \in S  BY <1>1, <2>3
    <3>2. p \in base .. end - 1 /\ to[p] \in base .. end - 1
      <4>1. base <= p /\ p < end /\ p \in Nat /\ to[p] \in Nat /\ base <= to[p] /\ to[p] < end
        BY <1>0, <1>1, <1>4, <3>1
      <4>. QED  BY <1>0, <4>1
    <3>3. s[1] = base /\ s[2] = end - 1 /\ s \in spans  OBVIOUS
    <3>. HIDE DEF s, spans
    <3>4. Between(p, s) /\ Between(to[p], s)  BY <3>2, <3>3 DEF Between
    <3>. QED  BY <3>3, <3>4
  <2>. HIDE DEF event, pairs, spans
  <2>. QED  BY <2>1, <2>2, <2>3 DEF Told
<1>. HIDE DEF event
<1>8. Opens(b, spot, Opened(Changed(b, Carried(b, to), last, event), at), to)
  BY <1>1, <1>5, <1>6, <1>7, ChangedOpens
<1>. QED  BY <1>2, <1>3, <1>8

\* Levelling a window with room opens a slot at the spot.
LEMMA RegionIs ==
    ASSUME NEW b, Good(b), NEW spot, NEW base, NEW end, NEW S, Region(b, spot, base, end, S),
           Cardinality(S) < end - base
    PROVE  \E m : Opens(b, spot, RebalanceRegion(b, spot, base, end, S), m)
<1>0. /\ base \in Nat /\ end \in Nat /\ end <= b.cap /\ b.cap \in Nat /\ spot \in Nat /\ base < end
      /\ S \subseteq Live(b)
      /\ \A p \in Live(b) : p \notin S => IF p < spot THEN p < base ELSE end <= p
  BY GoodTypes DEF Region
<1>1. S \in SUBSET Nat /\ IsFiniteSet(S)  BY <1>0, LiveIs, FS_Subset
<1>2. CASE S = {}
  <2>1. RebalanceRegion(b, spot, base, end, S) = Opened(RecordSlide(b, base, base), base)
    BY <1>2 DEF RebalanceRegion
  <2>2. base \in 0 .. b.cap - 1  BY <1>0
  <2>3. \A p \in Live(b) : p \in Nat  BY SlotIs
  <2>4. \A p \in Live(b) : IF p < spot THEN p < base ELSE base < p  BY <1>0, <1>2, <2>3
  <2>5. \E m : Opens(b, spot, Opened(RecordSlide(b, base, base), base), m)
    BY <2>2, <2>4, StayIs
  <2>. QED  BY <2>1, <2>5
<1>3. CASE S # {}
  <2>. DEFINE n == Cardinality(S)
              span == end - base
              r == RankIn(S, spot)
              s == MinStride(n, span)
  <2>1. n \in Nat /\ span \in Nat /\ n < span  BY <1>0, <1>1, FS_CardinalityType
  <2>2. RebalanceRegion(b, spot, base, end, S) = Level(b, base, end, S, r, s)
    BY <1>3 DEF RebalanceRegion, RankIn
  <2>. HIDE DEF span, n
  <2>3. s \in Nat /\ s >= 2 /\ Rise(n, s) < span  BY <2>1, MinStrideIs
  <2>. HIDE DEF s
  <2>4. Spread(b, spot, base, end, S, r, s)  BY <2>3 DEF Spread, n, span
  <2>5. \E m : Opens(b, spot, Level(b, base, end, S, r, s), m)  BY <2>4, LevelIs
  <2>. QED  BY <2>2, <2>5
<1>. QED  BY <1>2, <1>3

\* Rebalancing opens a slot.
LEMMA RebalanceIs ==
    ASSUME NEW b, Good(b), NEW spot, Closed(b, spot), NEW hole
    PROVE  \E m : Opens(b, spot, Rebalance(b, spot, hole), m)
<1>. DEFINE budget == 2 * Apart(hole, spot) + Word
            s == Scan(b, spot, budget)
            n == s.cap - b.cap
            c == PushSlots(b, n)
            base == s.lo * Word
            V == {(s.hi + 1) * Word, s.cap}
            end == Min(V)
            S == LiveIn(b, s.lo, s.hi)
            at == Min({spot, b.cap - 1})
            w == at \div Word
<1>0. /\ b.cap \in Nat /\ b.cap > 0 /\ Count(b) < NameCount /\ NameCount \in Nat
      /\ spot \in 0 .. b.cap /\ (spot = b.cap => b.cap = NameCount) /\ spot \notin Clear(b)
      /\ spot \in Nat /\ spot <= b.cap /\ Word \in Nat /\ Word >= 1
  <2>1. b.cap \in Nat /\ NameCount \in Nat /\ Word \in Nat /\ Word >= 1
    BY GoodTypes, NamesAre, ConstantsAre
  <2>. QED  BY <2>1 DEF Closed
<1>1. Rebalance(b, spot, hole) = Levelled(c, spot, s.ok, base, end, S)
  BY DEF Rebalance, LevelWindow
<1>. HIDE DEF s
<1>2. /\ at \in 0 .. b.cap - 1 /\ w \in Nat
      /\ (at = spot \/ (at = b.cap - 1 /\ spot = b.cap))
      /\ w * Word <= at /\ at < w * Word + Word
      /\ Covers(b, <<w, w>>, s)
  BY <1>0, ScanIs DEF s
<1>. HIDE DEF at, w
<1>3. /\ <<s.lo, s.hi, s.cap>> \in Windows(b)
      /\ s.lo \in Nat /\ s.hi \in Nat /\ s.cap \in Nat /\ s.lo <= w /\ w <= s.hi
  <2>1. <<w, w>>[1] = w /\ <<w, w>>[2] = w  OBVIOUS
  <2>. QED  BY <1>2, <2>1 DEF Covers
<1>4. /\ b.cap <= s.cap /\ s.cap <= NameCount
      /\ base \in Nat /\ s.hi * Word \in Nat /\ (s.hi + 1) * Word = s.hi * Word + Word
      /\ end \in Nat /\ end <= s.cap /\ end <= s.hi * Word + Word
      /\ (end = s.cap \/ end = s.hi * Word + Word)
  <2>. DEFINE t == <<s.lo, s.hi, s.cap>>
  <2>1. t[1] = s.lo /\ t[2] = s.hi /\ t[3] = s.cap  OBVIOUS
  <2>2. t \in Windows(b)  BY <1>3
  <2>. HIDE DEF t
  <2>3. /\ b.cap <= t[3] /\ t[3] <= NameCount
        /\ t[1] * Word \in Nat /\ t[2] * Word \in Nat /\ (t[2] + 1) * Word = t[2] * Word + Word
        /\ Min({(t[2] + 1) * Word, t[3]}) \in Nat
        /\ Min({(t[2] + 1) * Word, t[3]}) <= t[3]
        /\ Min({(t[2] + 1) * Word, t[3]}) <= t[2] * Word + Word
        /\ Min({(t[2] + 1) * Word, t[3]}) = t[3]
                \/ Min({(t[2] + 1) * Word, t[3]}) = t[2] * Word + Word
    BY <2>2, WindowIs
  <2>. QED  BY <2>1, <2>3
<1>. HIDE DEF end, V
<1>5. base <= at /\ at < end
  <2>1. Word * s.lo <= Word * w /\ Word * w <= Word * s.hi
    BY <1>0, <1>2, <1>3, Times
  <2>2. Word * s.lo = base /\ Word * w = w * Word /\ Word * s.hi = s.hi * Word
        /\ w * Word \in Nat
    BY <1>0, <1>2, <1>3
  <2>. DEFINE x == w * Word
              y == s.hi * Word
  <2>3. base <= x /\ x <= y /\ x \in Nat /\ y \in Nat /\ x <= at /\ at < x + Word
        /\ (end = s.cap \/ end = y + Word)
    BY <1>2, <1>4, <2>1, <2>2
  <2>. HIDE DEF x, y, base
  <2>. QED  BY <1>0, <1>2, <1>3, <1>4, <2>3
<1>6. n \in Nat /\ b.cap + n = s.cap /\ b.cap + n <= NameCount
  <2>. HIDE DEF base
  <2>. QED  BY <1>0, <1>3, <1>4
<1>. HIDE DEF n
<1>7. /\ Good(c) /\ Live(c) = Live(b) /\ c.cap = s.cap /\ Count(c) = Count(b)
      /\ \A o, m : Opens(c, spot, o, m) => Opens(b, spot, o, m)
  BY <1>0, <1>6, PushIs
<1>. HIDE DEF c
<1>8. \A p \in Live(b) : p \in Nat /\ p < b.cap
  <2>1. \A p \in Live(b) : p \in Nat /\ p \in 0 .. b.cap - 1  BY SlotIs
  <2>. QED  BY <1>0, <2>1
<1>9. S = {p \in Live(c) : base <= p /\ p < end}
  <2>1. ASSUME NEW p \in Live(b) PROVE p < (s.hi + 1) * Word <=> p < end
    <3>. DEFINE y == s.hi * Word
    <3>1. /\ y \in Nat /\ (s.hi + 1) * Word = y + Word /\ end <= y + Word
          /\ (end = s.cap \/ end = y + Word)
      BY <1>4
    <3>2. p \in Nat /\ p < b.cap  BY <1>8
    <3>. HIDE DEF y
    <3>. QED  BY <1>0, <1>3, <1>4, <3>1, <3>2
  <2>. QED  BY <1>7, <2>1 DEF LiveIn
<1>. HIDE DEF S
<1>10. CASE s.ok /\ Cardinality(S) < end - base
  <2>1. Rebalance(b, spot, hole) = RebalanceRegion(c, spot, base, end, S)
    BY <1>1, <1>10 DEF Levelled
  <2>2. Region(c, spot, base, end, S)
    <3>. HIDE DEF base
    <3>0. base \in Nat  BY <1>4
    <3>1. ASSUME NEW p \in Live(b), p \notin S PROVE IF p < spot THEN p < base ELSE end <= p
      <4>1. p \in Nat /\ p < b.cap /\ ~(base <= p /\ p < end)  BY <1>7, <1>8, <1>9, <3>1
      <4>2. at \in Nat /\ at < b.cap  BY <1>0, <1>2
      <4>. QED  BY <1>0, <1>2, <1>4, <1>5, <3>0, <4>1, <4>2
    <3>2. base < end
      <4>1. at \in Nat  BY <1>0, <1>2
      <4>. QED  BY <1>4, <1>5, <3>0, <4>1
    <3>. QED  BY <1>0, <1>4, <1>7, <1>9, <3>0, <3>1, <3>2 DEF Region
  <2>3. \E m : Opens(c, spot, RebalanceRegion(c, spot, base, end, S), m)
    <3>. HIDE DEF base
    <3>. QED  BY <1>7, <1>10, <2>2, RegionIs
  <2>. QED  BY <1>7, <2>1, <2>3
<1>11. CASE ~(s.ok /\ Cardinality(S) < end - base)
  <2>1. Rebalance(b, spot, hole) = SlideFar(c, spot)  BY <1>1, <1>11 DEF Levelled
  <2>2. Closed(c, spot)
    <3>1. c.cap > 0 /\ Count(c) < NameCount /\ spot \in 0 .. c.cap
          /\ (spot = c.cap => c.cap = NameCount)
      <4>. HIDE DEF base
      <4>. QED  BY <1>0, <1>3, <1>4, <1>7
    <3>2. spot \notin Clear(c)
      <4>1. CASE spot < b.cap
        <5>1. spot \in Live(b)  BY <1>0, <4>1 DEF Clear
        <5>. QED  BY <1>7, <5>1 DEF Clear
      <4>2. CASE spot = b.cap
        <5>1. c.cap = spot
          <6>. HIDE DEF base
          <6>. QED  BY <1>0, <1>3, <1>4, <1>7, <4>2
        <5>. QED  BY <1>0, <5>1 DEF Clear
      <4>. QED  BY <1>0, <4>1, <4>2
    <3>. QED  BY <3>1, <3>2 DEF Closed
  <2>3. \E m : Opens(c, spot, SlideFar(c, spot), m)  BY <1>7, <2>2, SlideFarIs
  <2>. QED  BY <1>7, <2>1, <2>3
<1>. QED  BY <1>10, <1>11

-----------------------------------------------------------------------------
(* The ladder.                                                             *)

\* What a solid block mints.
LEMMA MintIs ==
    ASSUME NEW b, Good(b), NEW spot, Closed(b, spot), Clear(b) = {}
    PROVE  LET n == MintWant(b, spot)
               c == PushSlots(b, n)
               hole == b.cap + n - 1
           IN  /\ Minted(b, spot) = c /\ HoleFor(b, spot) = hole
               /\ n \in Nat /\ b.cap + n <= NameCount
               /\ hole \in Clear(c) /\ spot < hole /\ Closed(c, spot)
               /\ Apart(hole, spot) <= FreeStride => RunLive(c, hole, spot)
<1>. DEFINE n == MintWant(b, spot)
            c == PushSlots(b, n)
            q == (b.cap - spot) \div FreeStride
            hole == b.cap + n - 1
<1>1. /\ b.cap \in Nat /\ b.cap > 0 /\ b.cap <= NameCount /\ NameCount \in Nat
      /\ Count(b) = b.cap /\ b.cap < NameCount /\ spot \in Nat /\ spot < b.cap
      /\ \A x \in 0 .. b.cap - 1 : x \in Live(b)
  BY GoodTypes, SolidIs, NamesAre DEF Closed
<1>2. FreeStride \in Nat /\ FreeStride >= 2  BY SlotOpsAssumption
<1>3. q \in Nat /\ (q >= 1 => b.cap - spot >= FreeStride)
  <2>. DEFINE x == b.cap - spot
  <2>1. x \in Nat  BY <1>1
  <2>. HIDE DEF x
  <2>2. x \div FreeStride \in Nat /\ x % FreeStride \in 0 .. FreeStride - 1
        /\ x = (x \div FreeStride) * FreeStride + (x % FreeStride)
    BY <1>2, <2>1, Quotient
  <2>. DEFINE y == x \div FreeStride
              r == x % FreeStride
  <2>3. y \in Nat /\ r \in Nat /\ x = y * FreeStride + r  BY <2>2, <1>2
  <2>. HIDE DEF y, r
  <2>4. ASSUME y >= 1 PROVE x >= FreeStride
    <3>1. PICK z \in Nat : y = z + 1  BY <2>3, <2>4
    <3>2. x = z * FreeStride + FreeStride + r  BY <2>3, <3>1, <1>2
    <3>3. z * FreeStride \in Nat  BY <3>1, <1>2
    <3>. QED  BY <3>2, <3>3, <2>3, <1>2
  <2>. QED  BY <2>3, <2>4 DEF y, x
<1>. HIDE DEF q
<1>4. n \in Nat /\ n >= 1 /\ b.cap + n <= NameCount /\ (n > 1 => q >= 1)
  <2>. DEFINE S == {1 + q, NameCount - b.cap}
  <2>1. S \in SUBSET Nat /\ S # {} /\ \A x \in S : x >= 1  BY <1>1, <1>3
  <2>2. n = Min(S)  BY DEF MintWant, q
  <2>3. 1 + q \in S /\ NameCount - b.cap \in S  OBVIOUS
  <2>. HIDE DEF S, n
  <2>4. n \in S /\ \A x \in S : n <= x  BY <2>1, <2>2, LeastIs
  <2>5. n \in Nat /\ n >= 1 /\ n <= 1 + q /\ n <= NameCount - b.cap  BY <2>1, <2>3, <2>4
  <2>. QED  BY <2>5, <1>1, <1>3
<1>5. Minted(b, spot) = c /\ HoleFor(b, spot) = hole  BY DEF Minted, HoleFor
<1>. HIDE DEF n
<1>6. /\ Good(c) /\ c.cap = b.cap + n /\ Live(c) = Live(b) /\ Count(c) = Count(b)
  BY <1>1, <1>4, PushIs
<1>. HIDE DEF c
<1>7. hole \in Nat /\ hole >= b.cap /\ hole \in Clear(c)
  <2>1. Live(b) \subseteq 0 .. b.cap - 1  BY LiveIs
  <2>. QED  BY <1>1, <1>4, <1>6, <2>1 DEF Clear
<1>8. Closed(c, spot)
  <2>1. spot \notin Clear(c)  BY <1>1, <1>6 DEF Clear
  <2>. QED  BY <1>1, <1>4, <1>6, <2>1 DEF Closed
<1>9. ASSUME Apart(hole, spot) <= FreeStride PROVE RunLive(c, hole, spot)
  <2>1. n = 1  BY <1>1, <1>2, <1>3, <1>4, <1>9 DEF Apart
  <2>. QED  BY <1>1, <1>6, <2>1 DEF RunLive
<1>. QED  BY <1>1, <1>4, <1>5, <1>7, <1>8, <1>9 DEF n, c

\* A hole to slide or to bank.
LEMMA ForkIs ==
    ASSUME NEW b, Good(b), NEW spot, Closed(b, spot), NEW hole \in Clear(b), hole # spot,
           hole < spot => spot - 1 \notin Clear(b),
           Apart(hole, spot) <= FreeStride => RunLive(b, hole, spot)
    PROVE  \E m : Opens(b, spot, Fork(b, spot, hole), m)
<1>1. spot \in 0 .. b.cap /\ spot \notin Clear(b) /\ hole \in Nat /\ spot \in Nat
  <2>1. hole \in 0 .. b.cap - 1 /\ b.cap \in Nat  BY GoodTypes DEF Clear
  <2>. QED  BY <2>1 DEF Closed
<1>2. Apart(hole, spot) \in Nat /\ FreeStride \in Nat
  BY <1>1, SlotOpsAssumption DEF Apart
<1>3. CASE Apart(hole, spot) <= FreeStride
  <2>1. \E m : Opens(b, spot, SlideOpen(b, hole, spot), m)  BY <1>1, <1>3, SlideIs
  <2>. QED  BY <2>1, <1>3 DEF Fork
<1>4. CASE ~(Apart(hole, spot) <= FreeStride)
  <2>1. BankFor(b, spot, hole)  BY <1>1, <1>2, <1>4 DEF BankFor
  <2>2. \E m : Opens(b, spot, Bank(b, spot, hole), m)  BY <2>1, BankIs
  <2>3. \E m : Opens(b, spot, Rebalance(b, spot, hole), m)  BY RebalanceIs
  <2>. QED  BY <1>4, <2>2, <2>3 DEF Fork
<1>. QED  BY <1>3, <1>4

\* The gather, the ladder's last rung, opens a slot at the spot of any block with room.
LEMMA GatherSlotsIs ==
    ASSUME NEW b, Good(b), b.cap > 0, Count(b) < NameCount, NEW spot \in 0 .. b.cap,
           spot = b.cap => b.cap = NameCount
    PROVE  \E m : Opens(b, spot, GatherSlots(b, spot), m)
<1>1. CASE GapHi(b, spot) > GapLo(b, spot)
  BY <1>1, SubdivideIs DEF GatherSlots
<1>2. CASE ~(GapHi(b, spot) > GapLo(b, spot))
  <2>1. b.cap \in Nat /\ spot \in Nat  BY GoodTypes
  <2>2. /\ GapLo(b, spot) = spot /\ GapHi(b, spot) = spot
        /\ spot = 0 \/ spot - 1 \in Live(b)
        /\ spot = b.cap \/ spot \in Live(b)
    BY <1>2, <2>1, GapIs
  <2>3. spot \notin Clear(b) /\ (spot > 0 => spot - 1 \notin Clear(b))
    BY <2>1, <2>2 DEF Clear
  <2>4. Closed(b, spot)  BY <2>3 DEF Closed
  <2>5. GatherSlots(b, spot) = Fork(Minted(b, spot), spot, HoleFor(b, spot))
    BY <1>2 DEF GatherSlots
  <2>6. CASE Clear(b) = {}
    <3>. DEFINE n == MintWant(b, spot)
                c == PushSlots(b, n)
                hole == b.cap + n - 1
    <3>1. /\ Minted(b, spot) = c /\ HoleFor(b, spot) = hole
          /\ n \in Nat /\ b.cap + n <= NameCount
          /\ hole \in Clear(c) /\ spot < hole /\ Closed(c, spot)
          /\ Apart(hole, spot) <= FreeStride => RunLive(c, hole, spot)
      BY <2>4, <2>6, MintIs
    <3>. HIDE DEF n
    <3>2. Good(c) /\ \A o, m : Opens(c, spot, o, m) => Opens(b, spot, o, m)
      BY <3>1, PushIs
    <3>. HIDE DEF c, hole
    <3>3. hole \in Nat  BY <3>1, <3>2, GoodTypes DEF Clear
    <3>4. \E m : Opens(c, spot, Fork(c, spot, hole), m)
      BY <2>1, <3>1, <3>2, <3>3, ForkIs
    <3>. QED  BY <2>5, <3>1, <3>2, <3>4
  <2>7. CASE Clear(b) # {}
    <3>. DEFINE hole == NearestClear(b, spot)
    <3>1. Minted(b, spot) = b /\ HoleFor(b, spot) = hole  BY <2>7 DEF Minted, HoleFor
    <3>2. hole \in Clear(b) /\ hole # spot /\ RunLive(b, hole, spot)
      BY <2>3, <2>7, NearestRun
    <3>. HIDE DEF hole
    <3>3. hole < spot => spot > 0  BY <2>1, <3>2, GoodTypes DEF Clear
    <3>4. \E m : Opens(b, spot, Fork(b, spot, hole), m)
      BY <2>3, <2>4, <3>2, <3>3, ForkIs
    <3>. QED  BY <2>5, <3>1, <3>4
  <2>. QED  BY <2>6, <2>7
<1>. QED  BY <1>1, <1>2

-----------------------------------------------------------------------------
(* The silent moves.                                                       *)

\* c is b after a silent move: its keys have the names they had
SameNames(b, c) ==
    /\ Good(c) /\ KeysOf(c) = KeysOf(b) /\ Count(c) = Count(b)
    /\ \A k \in KeysOf(b) : NameOf(c, k) = NameOf(b, k)
    /\ c.event = b.event /\ c.epoch > b.epoch /\ c.cap > 0

\* the block that a turn leaves, but for the sum
Turned(b, c) ==
    /\ Moved(b, c, [p \in 0 .. b.cap - 1 |-> Doubled(b.tr, p)])
    /\ c.tr = Rotate(b.tr) /\ c.event = b.event /\ c.epoch = b.epoch + 1
    /\ c.cap = 2 * b.cap /\ c.last \in 0 .. c.cap - 1

\* A turn doubles the capacity and keeps every name, order and element.
LEMMA GrowRotateIs ==
    ASSUME NEW b, Good(b), b.cap > 0, CanTurn(b)
    PROVE  Turned(b, GrowRotate(b))
<1>. DEFINE m == [p \in 0 .. b.cap - 1 |-> Doubled(b.tr, p)]
            to == [p \in Live(b) |-> TurnedSpot(b, p)]
            c == GrowRotate(b)
            data == Relocated(b.data, to, RotateMask(b))
            last == IF b.last \in Live(b) THEN to[b.last] ELSE 2 * b.last
            two == 2 * b.cap
            sum2 == 2 * b.sum
            tr == Rotate(b.tr)
            epoch == b.epoch + 1
<1>1. /\ b.cap \in Nat /\ b.tr \in Translator /\ b.last \in 0 .. b.cap - 1 /\ b.epoch \in Nat
      /\ Live(b) \subseteq 0 .. b.cap - 1
  <2>1. b.last \in 0 .. b.cap - 1  BY DEF Good
  <2>. QED  BY <2>1, GoodTypes, LiveIs
<1>2. \A p \in 0 .. b.cap - 1 :
         /\ TurnedSpot(b, p) = Doubled(b.tr, p) /\ m[p] = Doubled(b.tr, p)
         /\ Doubled(b.tr, p) \in 0 .. two - 1
  BY <1>1, TurnIs
<1>3. two <= NameCount /\ two \in Nat /\ two >= b.cap
  BY <1>1, NamesAre DEF CanTurn
<1>4. data = Carried(b, m)
  <2>1. \A p \in Live(b) : to[p] = m[p]  BY <1>1, <1>2
  <2>2. \A p \in Live(b) : to[p] = Doubled(b.tr, p)  BY <1>1, <1>2
  <2>. HIDE DEF to, m
  <2>3. RotateMask(b) = Image(b, to)  BY <2>2, TurnMask DEF Image
  <2>4. data = Carried(b, to)  BY <2>3, RelocatedIs
  <2>5. \A x \in b.data : to[x[1]] = m[x[1]]  BY <2>1 DEF Live
  <2>. QED  BY <2>4, <2>5 DEF Carried
<1>5. last \in 0 .. two - 1
  <2>1. CASE b.last \in Live(b)  BY <2>1, <1>1, <1>2
  <2>2. CASE b.last \notin Live(b)  BY <2>2, <1>1
  <2>. QED  BY <2>1, <2>2
<1>6. c = [b EXCEPT !.cap = two, !.data = data, !.tr = tr, !.sum = sum2,
                    !.last = last, !.epoch = epoch]
  BY DEF GrowRotate
<1>. HIDE DEF c, two, data, tr, sum2, last, epoch
<1>7. c = [cap |-> two, data |-> data, tr |-> tr, sum |-> sum2, last |-> last,
           streak |-> b.streak, epoch |-> epoch, event |-> b.event]
  <2>1. Whole(b)  BY DEF Good
  <2>. QED  BY <1>6, <2>1 DEF Whole
<1>8. Moved(b, c, m)
  <2>1. Whole(c) /\ c.cap = two /\ c.streak = b.streak /\ c.data = Carried(b, m)
    BY <1>4, <1>7 DEF Whole
  <2>2. \A p \in Live(b) : m[p] \in 0 .. c.cap - 1  BY <1>1, <1>2, <2>1
  <2>3. ASSUME NEW p \in Live(b), NEW q \in Live(b), p < q PROVE m[p] < m[q]
    <3>1. p \in 0 .. b.cap - 1 /\ q \in 0 .. b.cap - 1  BY <1>1
    <3>. QED  BY <1>1, <1>2, <2>3, <3>1, DoubledOrder
  <2>4. c.cap \in b.cap .. NameCount  BY <1>1, <1>3, <2>1, NamesAre
  <2>. HIDE DEF m
  <2>. QED  BY <2>1, <2>2, <2>3, <2>4 DEF Moved, Carried
<1>9. c.tr = tr /\ c.event = b.event /\ c.epoch = epoch /\ c.cap = two /\ c.last = last
  BY <1>7
<1>. QED  BY <1>5, <1>8, <1>9 DEF Turned, two, tr, epoch, c

\* A turn keeps the names, and takes a key's place to its double.
LEMMA TurnedIs ==
    ASSUME NEW b, Good(b), b.cap > 0, CanTurn(b), NEW c, Turned(b, c)
    PROVE  /\ SameNames(b, c)
           /\ \A k \in Nat, spot \in 0 .. b.cap - 1 :
                Belongs(b, k, spot) => Belongs(c, k, TurnedSpot(b, spot))
                                       /\ TurnedSpot(b, spot) < c.cap
<1>. DEFINE m == [p \in 0 .. b.cap - 1 |-> Doubled(b.tr, p)]
<1>1. /\ b.cap \in Nat /\ b.tr \in Translator /\ b.epoch \in Nat
      /\ Live(b) \subseteq 0 .. b.cap - 1
  BY GoodTypes, LiveIs
<1>2. \A p \in 0 .. b.cap - 1 :
         /\ Rotate(b.tr) \in Translator /\ TurnedSpot(b, p) = Doubled(b.tr, p)
         /\ m[p] = Doubled(b.tr, p) /\ Doubled(b.tr, p) \in 0 .. 2 * b.cap - 1
         /\ P2A(Rotate(b.tr), Doubled(b.tr, p)) = P2A(b.tr, p)
  BY <1>1, TurnIs
<1>3. Moved(b, c, m)  BY DEF Turned
<1>. HIDE DEF m
<1>4. /\ c.tr = Rotate(b.tr) /\ c.tr \in Translator /\ c.tr.rev = b.tr.rev
      /\ c.event = b.event /\ c.epoch = b.epoch + 1 /\ c.cap = 2 * b.cap
      /\ c.last \in 0 .. c.cap - 1
  <2>1. 0 \in 0 .. b.cap - 1  BY <1>1
  <2>2. Rotate(b.tr).rev = b.tr.rev  BY <1>1 DEF Rotate, Translator
  <2>. QED  BY <2>1, <2>2, <1>2 DEF Turned
<1>5. /\ Good(c) /\ KeysOf(c) = KeysOf(b) /\ Live(c) = {m[p] : p \in Live(b)}
      /\ \A k \in KeysOf(b) : PosOf(c, k) = m[PosOf(b, k)]
      /\ \A p \in Live(b) : KeyAt(c, m[p]) = KeyAt(b, p)
      /\ Count(c) = Count(b)
  BY <1>1, <1>3, <1>4, MovedGood
<1>6. SameNames(b, c)
  <2>1. ASSUME NEW k \in KeysOf(b) PROVE NameOf(c, k) = NameOf(b, k)
    <3>1. PosOf(b, k) \in 0 .. b.cap - 1  BY KeyIs
    <3>2. PosOf(c, k) = Doubled(b.tr, PosOf(b, k))  BY <1>2, <1>5, <3>1
    <3>. QED  BY <1>2, <1>4, <3>1, <3>2 DEF NameOf
  <2>. QED  BY <1>1, <1>4, <1>5, <2>1 DEF SameNames
<1>7. ASSUME NEW k \in Nat, NEW spot \in 0 .. b.cap - 1, Belongs(b, k, spot)
      PROVE  Belongs(c, k, TurnedSpot(b, spot)) /\ TurnedSpot(b, spot) < c.cap
  <2>. DEFINE at == TurnedSpot(b, spot)
  <2>1. at = Doubled(b.tr, spot) /\ at \in 0 .. 2 * b.cap - 1  BY <1>2
  <2>. HIDE DEF at
  <2>2. ASSUME NEW q \in Live(c) PROVE q < at <=> Precedes(c, KeyAt(c, q), k)
    <3>1. PICK p \in Live(b) : q = m[p]  BY <1>5
    <3>2. KeyAt(c, q) = KeyAt(b, p)  BY <1>5, <3>1
    <3>3. p < spot <=> Precedes(b, KeyAt(b, p), k)  BY <1>7 DEF Belongs
    <3>4. Precedes(c, KeyAt(c, q), k) <=> Precedes(b, KeyAt(b, p), k)
      BY <1>4, <3>2 DEF Precedes
    <3>5. p \in 0 .. b.cap - 1 /\ p \in Nat /\ spot \in Nat /\ q = Doubled(b.tr, p)
          /\ q \in Nat /\ at \in Nat
      BY <1>1, <1>2, <2>1, <3>1
    <3>6. q < at <=> p < spot
      <4>1. p < spot => q < at  BY <1>1, <2>1, <3>5, DoubledOrder
      <4>2. spot < p => at < q  BY <1>1, <2>1, <3>5, DoubledOrder
      <4>3. spot = p => at = q  BY <2>1, <3>5
      <4>. QED  BY <3>5, <4>1, <4>2, <4>3
    <3>. QED  BY <3>3, <3>4, <3>6
  <2>. QED  BY <1>1, <1>4, <2>1, <2>2 DEF Belongs, at
<1>. QED  BY <1>6, <1>7

\* A flip of a sound block keeps every key's name: only the direction turns.
LEMMA FlippedIs ==
    ASSUME NEW b, Good(b), b.cap > 0
    PROVE  SameNames(b, Flipped(b))
<1>. DEFINE c == Flipped(b)
            m(p) == b.cap - 1 - p
            data == {<<b.cap - 1 - x[1], x[2]>> : x \in b.data}
            last == Max({0, b.cap - 1 - b.last})
            tr == Reversed(b.tr, b.cap)
            sum2 == Count(b) * Count(b) - b.sum
            epoch == b.epoch + 1
<1>1. /\ b.cap \in Nat /\ b.cap <= NameCount /\ b.tr \in Translator /\ b.epoch \in Nat
      /\ b.last \in Nat /\ b.tr.rev \in BOOLEAN
      /\ Live(b) \subseteq 0 .. b.cap - 1 /\ NameCount \in Nat
  BY GoodTypes, LiveIs, NamesAre
<1>2. b.cap > 0  OBVIOUS
<1>3. b.last \in 0 .. b.cap - 1  BY <1>2 DEF Good
<1>4. last \in 0 .. b.cap - 1
  <2>. DEFINE x == b.cap - 1 - b.last
  <2>1. x \in 0 .. b.cap - 1  BY <1>1, <1>3
  <2>. HIDE DEF x
  <2>2. b.cap - 1 \in Nat /\ {0, x} \in SUBSET (0 .. b.cap - 1) /\ {0, x} # {}
    BY <1>1, <1>2, <2>1
  <2>3. Max({0, x}) \in {0, x}  BY <2>2, MostIs
  <2>. QED  BY <2>2, <2>3 DEF x
<1>5. tr \in Translator /\ tr.rev = ~b.tr.rev
      /\ \A p \in 0 .. b.cap - 1 : P2A(tr, m(p)) = P2A(b.tr, p)
  <2>1. b.cap \in 0 .. NameCount /\ 0 \in 0 .. b.cap - 1  BY <1>1, <1>2
  <2>2. \A p \in 0 .. b.cap - 1 : tr \in Translator /\ P2A(tr, m(p)) = P2A(b.tr, p)
    BY <1>1, <2>1, FlipNames
  <2>3. tr.rev = ~b.tr.rev  BY <1>1 DEF Reversed, Translator
  <2>. QED  BY <2>1, <2>2, <2>3
<1>6. c = [b EXCEPT !.data = data, !.tr = tr, !.sum = sum2, !.last = last, !.epoch = epoch]
  BY DEF Flipped
<1>. HIDE DEF c, sum2, last, tr
<1>7. c = [cap |-> b.cap, data |-> data, tr |-> tr, sum |-> sum2, last |-> last,
           streak |-> b.streak, epoch |-> epoch, event |-> b.event]
  <2>. HIDE DEF data, epoch
  <2>1. Whole(b)  BY DEF Good
  <2>. QED  BY <1>6, <2>1 DEF Whole
<1>8. /\ Whole(c) /\ c.cap = b.cap /\ c.data = data /\ c.tr = tr /\ c.last = last
      /\ c.streak = b.streak /\ c.epoch = epoch /\ c.event = b.event
  <2>. HIDE DEF data, epoch
  <2>. QED  BY <1>7 DEF Whole
<1>9. \A x \in b.data : /\ x = <<x[1], x[2]>> /\ x[1] \in 0 .. b.cap - 1 /\ x[1] \in Nat
                        /\ x[2] \in Nat /\ x[2] \in KeysOf(b) /\ PosOf(b, x[2]) = x[1]
  BY PairIs
<1>10. Good(c)
  <2>1. data \subseteq (0 .. b.cap - 1) \X Nat
    <3>1. \A x \in b.data : <<b.cap - 1 - x[1], x[2]>> \in (0 .. b.cap - 1) \X Nat
      BY <1>1, <1>9
    <3>. QED  BY <3>1
  <2>2. KeyOrder(c)
    <3>. SUFFICES ASSUME NEW x \in data, NEW y \in data, x # y
                  PROVE  x[1] < y[1] <=> Precedes(c, x[2], y[2])
      BY <1>8 DEF KeyOrder
    <3>1. PICK u \in b.data : x = <<b.cap - 1 - u[1], u[2]>>  OBVIOUS
    <3>2. PICK v \in b.data : y = <<b.cap - 1 - v[1], v[2]>>  OBVIOUS
    <3>3. u # v  BY <3>1, <3>2
    <3>4. u[1] < v[1] <=> Precedes(b, u[2], v[2])  BY <3>3 DEF Good, KeyOrder
    <3>5. u[1] # v[1] /\ u[2] # v[2]  BY <3>3, PairIs
    <3>6. /\ x[1] = b.cap - 1 - u[1] /\ y[1] = b.cap - 1 - v[1] /\ x[2] = u[2] /\ y[2] = v[2]
          /\ u[1] \in Nat /\ v[1] \in Nat /\ u[2] \in Nat /\ v[2] \in Nat
      BY <3>1, <3>2, <1>9
    <3>7. x[1] < y[1] <=> ~(u[1] < v[1])  BY <1>1, <3>5, <3>6
    <3>8. Precedes(c, u[2], v[2]) <=> ~Precedes(b, u[2], v[2])
      <4>1. c.tr.rev = ~b.tr.rev  BY <1>5, <1>8
      <4>2. CASE b.tr.rev
        <5>1. c.tr.rev = FALSE  BY <4>1, <4>2
        <5>. QED  BY <4>2, <5>1, <3>5, <3>6 DEF Precedes
      <4>3. CASE ~b.tr.rev
        <5>1. c.tr.rev = TRUE  BY <4>1, <4>3
        <5>. QED  BY <4>3, <5>1, <3>5, <3>6 DEF Precedes
      <4>. QED  BY <4>2, <4>3
    <3>. QED  BY <3>4, <3>6, <3>7, <3>8
  <2>3. b.streak \in Nat  BY GoodTypes
  <2>4. b.cap \in 0 .. NameCount  BY <1>1
  <2>. HIDE DEF data
  <2>. QED  BY <1>1, <1>4, <1>5, <1>8, <2>1, <2>2, <2>3, <2>4 DEF Good, epoch
<1>11. KeysOf(c) = KeysOf(b)
  <2>1. KeysOf(c) = {x[2] : x \in data}  BY <1>8 DEF KeysOf
  <2>2. ASSUME NEW x \in data PROVE x[2] \in KeysOf(b)
    <3>1. PICK u \in b.data : x = <<b.cap - 1 - u[1], u[2]>>  OBVIOUS
    <3>. QED  BY <3>1 DEF KeysOf
  <2>3. ASSUME NEW u \in b.data PROVE u[2] \in KeysOf(c)
    <3>1. <<b.cap - 1 - u[1], u[2]>> \in data  OBVIOUS
    <3>. HIDE DEF data
    <3>. QED  BY <2>1, <3>1
  <2>. HIDE DEF data
  <2>4. KeysOf(b) \subseteq KeysOf(c)  BY <2>3 DEF KeysOf
  <2>5. KeysOf(c) \subseteq KeysOf(b)  BY <2>1, <2>2
  <2>. QED  BY <2>4, <2>5
<1>12. ASSUME NEW k \in KeysOf(b) PROVE PosOf(c, k) = m(PosOf(b, k))
  <2>. DEFINE x == <<m(PosOf(b, k)), k>>
  <2>1. <<PosOf(b, k), k>> \in b.data  BY KeyIs
  <2>2. x \in c.data  BY <1>8, <2>1
  <2>. HIDE DEF x
  <2>3. PosOf(c, x[2]) = x[1]  BY <1>10, <2>2, PairIs
  <2>. QED  BY <2>3 DEF x
<1>13. ASSUME NEW k \in KeysOf(b) PROVE NameOf(c, k) = NameOf(b, k)
  <2>1. PosOf(b, k) \in 0 .. b.cap - 1  BY KeyIs
  <2>. QED  BY <1>5, <1>8, <1>12, <2>1 DEF NameOf
<1>14. Count(c) = Count(b)
  <2>1. Count(c) = Cardinality(Live(c)) /\ Count(b) = Cardinality(Live(b))
        /\ IsFiniteSet(Live(c)) /\ IsFiniteSet(Live(b)) /\ Live(c) \subseteq Nat
    BY <1>10, LiveIs
  <2>. DEFINE f == [p \in Live(b) |-> m(p)]
  <2>2. Live(c) = {m(p) : p \in Live(b)}
    <3>1. Live(c) = {x[1] : x \in data}  BY <1>8 DEF Live
    <3>2. ASSUME NEW x \in data PROVE x[1] \in {m(p) : p \in Live(b)}
      <4>1. PICK u \in b.data : x = <<b.cap - 1 - u[1], u[2]>>  OBVIOUS
      <4>. QED  BY <4>1 DEF Live
    <3>3. ASSUME NEW p \in Live(b) PROVE m(p) \in Live(c)
      <4>1. PICK u \in b.data : p = u[1]  BY DEF Live
      <4>2. <<b.cap - 1 - u[1], u[2]>> \in data  OBVIOUS
      <4>. HIDE DEF data
      <4>. QED  BY <3>1, <4>1, <4>2
    <3>. HIDE DEF data
    <3>. QED  BY <3>1, <3>2, <3>3
  <2>3. \A p \in Live(b) : p \in Nat  BY <1>1
  <2>4. f \in [Live(b) -> Live(c)]  BY <2>2
  <2>5. \A p, q \in Live(b) : f[p] = f[q] => p = q  BY <1>1, <2>3
  <2>6. \A q \in Live(c) : \E p \in Live(b) : f[p] = q  BY <2>2
  <2>. HIDE DEF f
  <2>7. f \in Bijection(Live(b), Live(c))
    BY <2>4, <2>5, <2>6 DEF Bijection, Injection, Surjection, IsInjective
  <2>8. ExistsBijection(Live(b), Live(c))  BY <2>7 DEF ExistsBijection
  <2>. QED  BY <2>1, <2>8, FS_Bijection
<1>. QED  BY <1>1, <1>2, <1>8, <1>10, <1>11, <1>13, <1>14 DEF SameNames, epoch, c

\* A reversal keeps every name and turns the order round.
LEMMA FlipIs ==
    ASSUME NEW b, Good(b), ReverseDue(b)
    PROVE  SameNames(b, Flipped(b))
<1>1. Count(b) > 4 * FreeStride /\ FreeStride \in Nat  BY SlotOpsAssumption DEF ReverseDue
<1>2. Count(b) \in Nat /\ Count(b) <= b.cap /\ b.cap \in Nat  BY LiveIs, GoodTypes
<1>3. b.cap > 0  BY <1>1, <1>2
<1>. QED  BY <1>3, FlippedIs

-----------------------------------------------------------------------------
(* An insert.                                                              *)

\* c is b, or b after silent moves
Silent(b, c) == c = b \/ SameNames(b, c)

\* Two steps that tell nothing make one.
LEMMA SilentOn ==
    ASSUME NEW b, Good(b), NEW c, Silent(b, c), NEW d, Silent(c, d)
    PROVE  Silent(b, d)
<1>1. SameNames(b, c) /\ SameNames(c, d) => SameNames(b, d)
  <2>. SUFFICES ASSUME SameNames(b, c), SameNames(c, d) PROVE SameNames(b, d)  OBVIOUS
  <2>1. b.epoch \in Nat /\ c.epoch \in Nat /\ d.epoch \in Nat  BY DEF SameNames, Good
  <2>. QED  BY <2>1 DEF SameNames
<1>. QED  BY <1>1 DEF Silent

\* Readying a block for an insert tells no holder anything and leaves it sound.
LEMMA ReadiedIs ==
    ASSUME NEW b, Good(b)
    PROVE  Silent(b, Readied(b)) /\ Good(Readied(b))
BY FlipIs DEF Readied, MaybeFlip, Silent, SameNames

\* The whole ladder: some rung opens a slot at the key's boundary.
LEMMA OpenIs ==
    ASSUME NEW b, Good(b), b.cap > 0, Count(b) < NameCount, NEW k \in Nat,
           NEW spot, Belongs(b, k, spot), spot = b.cap => b.cap = NameCount
    PROVE  \E a, at, m : /\ Silent(b, a) /\ Good(a) /\ Belongs(a, k, at)
                         /\ Opens(a, at, Open(b, spot), m)
<1>0. b.cap \in Nat /\ spot \in 0 .. b.cap /\ spot \in Nat  BY GoodTypes DEF Belongs
<1>1. CASE SolidTail(b, spot)
  <2>1. /\ spot \in 0 .. b.cap - 1 /\ b.cap < NameCount
        /\ \A q \in spot .. b.cap - 1 : q \in Live(b)
    BY <1>0, <1>1 DEF SolidTail
  <2>2. \E m : Opens(b, spot, SlideOpen(PushSlots(b, 1), b.cap, spot), m)
    BY <2>1, MintSlideIs
  <2>. QED  BY <1>1, <2>2 DEF Open, Silent
<1>2. CASE ~SolidTail(b, spot) /\ Turns(b, spot)
  <2>. DEFINE c == GrowRotate(b)
              at == TurnedSpot(b, spot)
  <2>1. CanTurn(b) /\ spot \in 0 .. b.cap - 1
    <3>1. b.cap - spot > FreeStride /\ FreeStride \in Nat
      BY <1>2, SlotOpsAssumption DEF Turns, TurnDue
    <3>. QED  BY <1>0, <1>2, <3>1 DEF Turns
  <2>2. Open(b, spot) = GatherSlots(c, at)  BY <1>2 DEF Open
  <2>3. Turned(b, c)  BY <2>1, GrowRotateIs
  <2>. HIDE DEF c
  <2>4. SameNames(b, c) /\ Belongs(c, k, at) /\ at < c.cap  BY <2>1, <2>3, TurnedIs
  <2>. HIDE DEF at
  <2>5. Good(c) /\ c.cap > 0 /\ Count(c) < NameCount /\ at \in 0 .. c.cap /\ at # c.cap
    <3>1. c.cap \in Nat /\ at \in 0 .. c.cap  BY <2>4, GoodTypes DEF SameNames, Belongs
    <3>. QED  BY <2>4, <3>1 DEF SameNames
  <2>6. \E m : Opens(c, at, GatherSlots(c, at), m)  BY <2>5, GatherSlotsIs
  <2>. QED  BY <2>2, <2>4, <2>5, <2>6 DEF Silent
<1>3. CASE ~SolidTail(b, spot) /\ ~Turns(b, spot)
  <2>1. Open(b, spot) = GatherSlots(b, spot)  BY <1>3 DEF Open
  <2>2. \E m : Opens(b, spot, GatherSlots(b, spot), m)  BY <1>0, GatherSlotsIs
  <2>. QED  BY <2>1, <2>2 DEF Silent
<1>. QED  BY <1>1, <1>2, <1>3

\* c is b with k in the slot p, which its order asks for
Added(b, k, p, c) ==
    /\ k \in Nat /\ k \notin KeysOf(b) /\ p \in 0 .. b.cap - 1 /\ p \notin Live(b)
    /\ \A q \in Live(b) : q < p <=> Precedes(b, KeyAt(b, q), k)
    /\ Whole(c) /\ c.data = b.data \union {<<p, k>>} /\ c.cap = b.cap /\ c.tr = b.tr
    /\ c.last = p /\ c.streak \in Nat /\ c.epoch = b.epoch

\* A key placed at a clear slot between its neighbours leaves a sound block.
LEMMA AddedIs ==
    ASSUME NEW b, Good(b), NEW k, NEW p, NEW c, Added(b, k, p, c)
    PROVE  /\ Good(c) /\ KeysOf(c) = KeysOf(b) \union {k}
           /\ \A x \in KeysOf(b) : PosOf(c, x) = PosOf(b, x)
           /\ PosOf(c, k) = p
<1>. DEFINE e == <<p, k>>
<1>1. /\ b.cap \in Nat /\ p \in 0 .. b.cap - 1 /\ p \in Nat /\ k \in Nat /\ k \notin KeysOf(b)
      /\ p \notin Live(b) /\ e[1] = p /\ e[2] = k /\ c.data = b.data \union {e}
      /\ e \in c.data /\ c.tr = b.tr /\ b.tr.rev \in BOOLEAN
  BY GoodTypes DEF Added
<1>2. \A x, y : Precedes(c, x, y) <=> Precedes(b, x, y)  BY <1>1 DEF Precedes
<1>3. ASSUME NEW x \in b.data
      PROVE  /\ x[1] < p <=> Precedes(b, x[2], k)
             /\ p < x[1] <=> Precedes(b, k, x[2])
             /\ x[1] # p /\ x[2] # k
  <2>1. /\ x[1] \in Live(b) /\ x[1] \in Nat /\ x[2] \in Nat /\ x[2] \in KeysOf(b)
        /\ KeyAt(b, x[1]) = x[2]
    BY PairIs
  <2>2. x[1] < p <=> Precedes(b, x[2], k)  BY <2>1 DEF Added
  <2>3. x[2] # k /\ x[1] # p  BY <1>1, <2>1
  <2>4. Precedes(b, k, x[2]) <=> ~Precedes(b, x[2], k)  BY <1>1, <2>1, <2>3, PrecedesIs
  <2>. QED  BY <1>1, <2>1, <2>2, <2>3, <2>4
<1>. HIDE DEF e
<1>4. Good(c)
  <2>1. c.data \subseteq (0 .. c.cap - 1) \X Nat
    <3>1. e \in (0 .. b.cap - 1) \X Nat  BY <1>1 DEF e
    <3>. QED  BY <1>1, <3>1 DEF Good, Added
  <2>2. KeyOrder(c)
    <3>. SUFFICES ASSUME NEW x \in c.data, NEW y \in c.data, x # y
                  PROVE  x[1] < y[1] <=> Precedes(b, x[2], y[2])
      BY <1>2 DEF KeyOrder
    <3>1. CASE x = e  BY <3>1, <1>1, <1>3
    <3>2. CASE y = e  BY <3>2, <1>1, <1>3
    <3>3. CASE x # e /\ y # e
      <4>1. x \in b.data /\ y \in b.data  BY <3>3, <1>1
      <4>. QED  BY <4>1 DEF Good, KeyOrder
    <3>. QED  BY <3>1, <3>2, <3>3
  <2>. QED  BY <1>1, <2>1, <2>2 DEF Good, Added
<1>5. KeysOf(c) = KeysOf(b) \union {k}
  BY <1>1 DEF KeysOf
<1>6. ASSUME NEW x \in KeysOf(b) PROVE PosOf(c, x) = PosOf(b, x)
  <2>. DEFINE y == <<PosOf(b, x), x>>
  <2>1. y \in b.data /\ y[1] = PosOf(b, x) /\ y[2] = x  BY KeyIs
  <2>. HIDE DEF y
  <2>2. PosOf(c, y[2]) = y[1]  BY <1>1, <1>4, <2>1, PairIs
  <2>. QED  BY <2>1, <2>2
<1>7. PosOf(c, k) = p
  <2>1. PosOf(c, e[2]) = e[1]  BY <1>1, <1>4, PairIs
  <2>. QED  BY <1>1, <2>1
<1>. QED  BY <1>4, <1>5, <1>6, <1>7

\* k came into a, and m[p] is where the slot p went; the event tells of it, or
\* nothing moved
Entered(a, k, c, m) ==
    /\ Good(a) /\ Good(c) /\ k \notin KeysOf(a) /\ KeysOf(c) = KeysOf(a) \union {k}
    /\ \A x \in KeysOf(a) : PosOf(c, x) = m[PosOf(a, x)]
    /\ c.tr = a.tr /\ c.epoch = a.epoch
    /\ \A p \in Live(a) : m[p] \in 0 .. c.cap - 1
    /\ \/ Told(a, m, c.event, c.cap)
       \/ c.event = a.event /\ \A p \in Live(a) : m[p] = p

\* What placing an element writes.
LEMMA PlaceFieldsAre ==
    ASSUME NEW b, Whole(b), b.streak \in Nat, NEW k, NEW p
    PROVE  LET c == Place(b, k, p)
           IN  /\ Whole(c) /\ c.data = b.data \union {<<p, k>>} /\ c.cap = b.cap
               /\ c.tr = b.tr /\ c.last = p /\ c.streak \in Nat /\ c.epoch = b.epoch
               /\ c.event = b.event
<1>. DEFINE data == b.data \union {<<p, k>>}
            sum2 == b.sum + p
            streak == IF Apart(p, b.last) <= FreeStride THEN b.streak + 1 ELSE 0
            c == Place(b, k, p)
<1>1. streak \in Nat  OBVIOUS
<1>2. c = [b EXCEPT !.data = data, !.sum = sum2, !.streak = streak, !.last = p]
  BY DEF Place
<1>. HIDE DEF streak, data, sum2, c
<1>3. c = [cap |-> b.cap, data |-> data, tr |-> b.tr, sum |-> sum2, last |-> p,
           streak |-> streak, epoch |-> b.epoch, event |-> b.event]
  BY <1>2 DEF Whole
<1>4. /\ Whole(c) /\ c.data = data /\ c.cap = b.cap
      /\ c.tr = b.tr /\ c.last = p /\ c.streak = streak /\ c.epoch = b.epoch
      /\ c.event = b.event
  BY <1>3 DEF Whole
<1>. QED  BY <1>1, <1>4 DEF data, c

\* The key is placed in the slot that the ladder opened.
LEMMA PlaceIs ==
    ASSUME NEW b, Good(b), NEW k \in Nat, k \notin KeysOf(b), NEW spot, Belongs(b, k, spot),
           NEW o, NEW m, Opens(b, spot, o, m)
    PROVE  Entered(b, k, PlaceOpened(o, k), m)
<1>. DEFINE c == PlaceOpened(o, k)
            at == o.at
            u == o.b
            d == [cap |-> u.cap, data |-> u.data, tr |-> u.tr, sum |-> u.sum, last |-> at,
                  streak |-> u.streak, epoch |-> u.epoch, event |-> u.event]
<1>1. /\ Moved(b, u, m) /\ u.tr = b.tr /\ u.epoch = b.epoch /\ at \in 0 .. u.cap - 1
      /\ \A p \in Live(b) : IF p < spot THEN m[p] < at ELSE at < m[p]
      /\ Told(b, m, u.event, u.cap)
  BY DEF Opens
<1>2. c = Place(u, k, at)  BY DEF PlaceOpened
<1>. HIDE DEF u, at, c
<1>3. /\ Whole(d) /\ d.cap = u.cap /\ d.data = u.data /\ d.tr = u.tr /\ d.last = at
      /\ d.streak = u.streak /\ d.epoch = u.epoch
  BY DEF Whole
<1>. HIDE DEF d
<1>4. Whole(u) /\ u.streak \in Nat /\ u.cap \in b.cap .. NameCount /\ u.cap \in Nat
      /\ b.epoch \in Nat /\ b.tr \in Translator /\ b.cap \in Nat
  BY <1>1, GoodTypes, NamesAre DEF Moved
<1>5. Moved(b, d, m)  BY <1>1, <1>3 DEF Moved
<1>6. /\ Good(d) /\ KeysOf(d) = KeysOf(b) /\ Live(d) = {m[p] : p \in Live(b)}
      /\ \A x \in KeysOf(b) : PosOf(d, x) = m[PosOf(b, x)]
      /\ \A p \in Live(b) : KeyAt(d, m[p]) = KeyAt(b, p)
  BY <1>1, <1>3, <1>4, <1>5, MovedGood
<1>7. /\ Whole(c) /\ c.data = u.data \union {<<at, k>>} /\ c.cap = u.cap
      /\ c.tr = u.tr /\ c.last = at /\ c.streak \in Nat /\ c.epoch = u.epoch
      /\ c.event = u.event
  BY <1>2, <1>4, PlaceFieldsAre
<1>8. \A p \in Live(b) : m[p] \in 0 .. u.cap - 1  BY <1>1 DEF Moved
<1>9. Added(d, k, at, c)
  <2>1. ASSUME NEW p \in Live(b) PROVE m[p] < at <=> p < spot
    BY <1>1, <1>4, <1>8
  <2>2. at \notin Live(d)
    <3>. SUFFICES ASSUME NEW p \in Live(b), at = m[p] PROVE FALSE  BY <1>6
    <3>. QED  BY <1>1, <1>4, <1>8
  <2>3. ASSUME NEW q \in Live(d) PROVE q < at <=> Precedes(d, KeyAt(d, q), k)
    <3>1. PICK p \in Live(b) : q = m[p]  BY <1>6
    <3>2. p < spot <=> Precedes(b, KeyAt(b, p), k)  BY DEF Belongs
    <3>3. KeyAt(d, q) = KeyAt(b, p)  BY <1>6, <3>1
    <3>4. Precedes(d, KeyAt(d, q), k) <=> Precedes(b, KeyAt(b, p), k)
      BY <1>1, <1>3, <3>3 DEF Precedes
    <3>. QED  BY <2>1, <3>1, <3>2, <3>4
  <2>. QED  BY <1>1, <1>3, <1>6, <1>7, <2>2, <2>3 DEF Added
<1>10. /\ Good(c) /\ KeysOf(c) = KeysOf(d) \union {k}
       /\ \A x \in KeysOf(d) : PosOf(c, x) = PosOf(d, x)
  BY <1>6, <1>9, AddedIs
<1>. QED  BY <1>1, <1>6, <1>7, <1>8, <1>10 DEF Entered, c

\* A key above all the others is placed past the end of the block.
LEMMA PlaceTailIs ==
    ASSUME NEW b, Good(b), NEW n \in Nat, b.cap + n <= NameCount, n > 0,
           NEW k \in Nat, k \notin KeysOf(b), Belongs(b, k, b.cap)
    PROVE  Entered(b, k, Place(PushSlots(b, n), k, b.cap), [p \in Live(b) |-> p])
<1>. DEFINE cap == b.cap + n
            d == PushSlots(b, n)
            m == [p \in Live(b) |-> p]
            c == Place(d, k, b.cap)
<1>1. b.cap \in Nat /\ b.tr \in Translator /\ Live(b) \subseteq 0 .. b.cap - 1
      /\ NameCount \in Nat /\ Whole(b) /\ b.streak \in Nat /\ b.epoch \in Nat
  BY GoodTypes, LiveIs, NamesAre DEF Good
<1>2. d = [b EXCEPT !.cap = cap]  BY DEF PushSlots
<1>3. cap \in Nat /\ cap > b.cap /\ cap <= NameCount /\ b.cap \in 0 .. cap - 1  BY <1>1
<1>. HIDE DEF d, cap
<1>4. d = [cap |-> cap, data |-> b.data, tr |-> b.tr, sum |-> b.sum, last |-> b.last,
           streak |-> b.streak, epoch |-> b.epoch, event |-> b.event]
  BY <1>1, <1>2 DEF Whole
<1>5. /\ Whole(d) /\ d.cap = cap /\ d.data = b.data /\ d.tr = b.tr /\ d.last = b.last
      /\ d.streak = b.streak /\ d.epoch = b.epoch /\ d.event = b.event
  BY <1>4 DEF Whole
<1>6. d.last \in 0 .. cap - 1
  BY <1>1, <1>3, <1>5 DEF Good
<1>7. Good(d)
  <2>1. b.data \subseteq (0 .. cap - 1) \X Nat
    <3>1. \A x \in b.data : x = <<x[1], x[2]>> /\ x[1] \in 0 .. b.cap - 1 /\ x[2] \in Nat
      BY PairIs
    <3>2. 0 .. b.cap - 1 \subseteq 0 .. cap - 1  BY <1>1, <1>3
    <3>. QED  BY <3>1, <3>2
  <2>2. KeyOrder(d)
    <3>1. KeyOrder(b)  BY DEF Good
    <3>. QED  BY <1>5, <3>1 DEF KeyOrder, Precedes
  <2>3. cap \in 0 .. NameCount  BY <1>1, <1>3
  <2>. QED  BY <1>1, <1>5, <1>6, <2>1, <2>2, <2>3 DEF Good
<1>8. /\ Whole(c) /\ c.data = d.data \union {<<b.cap, k>>} /\ c.cap = d.cap
      /\ c.tr = d.tr /\ c.last = b.cap /\ c.streak \in Nat /\ c.epoch = d.epoch
      /\ c.event = d.event
  BY <1>1, <1>5, PlaceFieldsAre
<1>. HIDE DEF c
<1>9. Live(d) = Live(b) /\ KeysOf(d) = KeysOf(b)
      /\ (\A p : KeyAt(d, p) = KeyAt(b, p)) /\ (\A x : PosOf(d, x) = PosOf(b, x))
      /\ \A x, y : Precedes(d, x, y) <=> Precedes(b, x, y)
  BY <1>5 DEF Live, KeysOf, KeyAt, PosOf, Precedes
<1>10. b.cap \notin Live(b)  BY <1>1
<1>11. \A q \in Live(d) : q < b.cap <=> Precedes(d, KeyAt(d, q), k)  BY <1>9 DEF Belongs
<1>12. Added(d, k, b.cap, c)  BY <1>3, <1>5, <1>8, <1>9, <1>10, <1>11 DEF Added
<1>13. /\ Good(c) /\ KeysOf(c) = KeysOf(d) \union {k}
       /\ \A x \in KeysOf(d) : PosOf(c, x) = PosOf(d, x)
  BY <1>7, <1>12, AddedIs
<1>14. \A x \in KeysOf(b) : PosOf(b, x) \in Live(b)  BY KeyIs
<1>15. \A p \in Live(b) : m[p] = p /\ m[p] \in 0 .. c.cap - 1  BY <1>1, <1>3, <1>5, <1>8
<1>. HIDE DEF m
<1>16. Entered(b, k, c, m)
  BY <1>5, <1>8, <1>9, <1>13, <1>14, <1>15 DEF Entered
<1>. QED  BY <1>16 DEF c, d, m

\* An insert: silent moves, and then the key enters.
LEMMA InsertedIs ==
    ASSUME NEW b, Good(b), NEW k \in Nat, Placeable(b, k)
    PROVE  /\ k \notin KeysOf(b)
           /\ \E a, m : Silent(b, a) /\ Entered(a, k, Inserted(b, k), m)
<1>0. b.cap \in Nat /\ NameCount \in Nat /\ NameCount >= 4
  BY GoodTypes, NamesAre
<1>1. CASE b.cap = 0
  <2>1. b.data = {}
    <3>1. \A x \in b.data : x[1] \in 0 .. b.cap - 1  BY PairIs
    <3>. QED  BY <1>1, <3>1
  <2>2. k \notin KeysOf(b)  BY <2>1 DEF KeysOf
  <2>3. Belongs(b, k, b.cap)  BY <1>0, <2>1 DEF Belongs, Live
  <2>4. Inserted(b, k) = Place(PushSlots(b, 4), k, b.cap)  BY <1>1 DEF Inserted
  <2>5. b.cap + 4 <= NameCount /\ 4 \in Nat /\ 4 > 0  BY <1>0, <1>1
  <2>6. Entered(b, k, Place(PushSlots(b, 4), k, b.cap), [p \in Live(b) |-> p])
    BY <2>2, <2>3, <2>5, PlaceTailIs
  <2>. QED  BY <2>2, <2>4, <2>6 DEF Silent
<1>2. CASE b.cap # 0
  <2>. DEFINE c == Readied(b)
              spot == Spot(c, k)
  <2>1. Count(b) < NameCount /\ spot # Dup  BY <1>2 DEF Placeable
  <2>2. Inserted(b, k) = PlaceFrom(c, k, spot)  BY <1>2 DEF Inserted, InsertReadied
  <2>3. Silent(b, c) /\ Good(c)  BY ReadiedIs
  <2>. HIDE DEF c
  <2>4. Answers(c, k, spot)  BY <2>3, SpotIs
  <2>. HIDE DEF spot
  <2>5. k \notin KeysOf(c) /\ Belongs(c, k, spot)  BY <2>1, <2>4 DEF Answers
  <2>6. KeysOf(c) = KeysOf(b) /\ c.cap > 0 /\ c.cap \in Nat /\ c.cap <= NameCount
        /\ Count(c) < NameCount
    BY <1>0, <1>2, <2>1, <2>3, GoodTypes DEF Silent, SameNames
  <2>7. CASE spot = c.cap /\ c.cap < NameCount
    <3>1. PlaceFrom(c, k, spot) = Place(PushSlots(c, 1), k, c.cap)  BY <2>7 DEF PlaceFrom
    <3>2. c.cap + 1 <= NameCount /\ 1 \in Nat /\ 1 > 0 /\ Belongs(c, k, c.cap)
      BY <1>0, <2>5, <2>6, <2>7
    <3>3. Entered(c, k, Place(PushSlots(c, 1), k, c.cap), [p \in Live(c) |-> p])
      BY <2>3, <2>5, <3>2, PlaceTailIs
    <3>. QED  BY <2>2, <2>3, <2>5, <2>6, <3>1, <3>3
  <2>8. CASE ~(spot = c.cap /\ c.cap < NameCount)
    <3>1. PlaceFrom(c, k, spot) = PlaceOpened(Open(c, spot), k)  BY <2>8 DEF PlaceFrom
    <3>2. spot = c.cap => c.cap = NameCount  BY <1>0, <2>6, <2>8
    <3>3. PICK a, at, m : /\ Silent(c, a) /\ Good(a) /\ Belongs(a, k, at)
                          /\ Opens(a, at, Open(c, spot), m)
      BY <2>3, <2>5, <2>6, <3>2, OpenIs
    <3>4. k \notin KeysOf(a)  BY <2>5, <3>3 DEF Silent, SameNames
    <3>5. Entered(a, k, PlaceOpened(Open(c, spot), k), m)  BY <3>3, <3>4, PlaceIs
    <3>6. Silent(b, a)  BY <2>3, <3>3, SilentOn
    <3>. QED  BY <2>2, <2>5, <2>6, <3>1, <3>5, <3>6
  <2>. QED  BY <2>7, <2>8
<1>. QED  BY <1>1, <1>2

\* A remove.
LEMMA RemovedIs ==
    ASSUME NEW b, Good(b), NEW p
    PROVE  LET c == Removed(b, p)
           IN  /\ Good(c) /\ c.cap = b.cap /\ c.tr = b.tr /\ c.epoch = b.epoch
               /\ c.event = b.event
               /\ KeysOf(c) = KeysOf(b) \ {x \in KeysOf(b) : PosOf(b, x) = p}
               /\ \A x \in KeysOf(c) : PosOf(c, x) = PosOf(b, x)
<1>. DEFINE data == {x \in b.data : x[1] # p}
            sum2 == b.sum - p
            c == Removed(b, p)
<1>1. c = [b EXCEPT !.data = data, !.sum = sum2]  BY DEF Removed
<1>2. Whole(b)  BY DEF Good
<1>. HIDE DEF data, sum2, c
<1>3. c = [cap |-> b.cap, data |-> data, tr |-> b.tr, sum |-> sum2, last |-> b.last,
           streak |-> b.streak, epoch |-> b.epoch, event |-> b.event]
  BY <1>1, <1>2 DEF Whole
<1>4. /\ Whole(c) /\ c.cap = b.cap /\ c.data = data /\ c.tr = b.tr /\ c.last = b.last
      /\ c.streak = b.streak /\ c.epoch = b.epoch /\ c.event = b.event
  BY <1>3 DEF Whole
<1>5. \A x \in b.data : x \in data <=> x[1] # p  BY DEF data
<1>6. data \subseteq b.data  BY DEF data
<1>7. Good(c)
  <2>1. KeyOrder(c)
    <3>1. KeyOrder(b)  BY DEF Good
    <3>. QED  BY <1>4, <1>6, <3>1 DEF KeyOrder, Precedes
  <2>. QED  BY <1>4, <1>6, <2>1 DEF Good
<1>8. ASSUME NEW x \in KeysOf(b) PROVE x \in KeysOf(c) <=> PosOf(b, x) # p
  <2>. DEFINE y == <<PosOf(b, x), x>>
  <2>1. y \in b.data /\ y[1] = PosOf(b, x) /\ y[2] = x  BY KeyIs
  <2>. HIDE DEF y
  <2>2. \A z \in b.data : z[2] = x => z = y  BY <2>1, PairIs
  <2>3. x \in KeysOf(c) <=> y \in data
    BY <1>4, <1>6, <2>1, <2>2 DEF KeysOf
  <2>. QED  BY <1>5, <2>1, <2>3
<1>9. KeysOf(c) \subseteq KeysOf(b)  BY <1>4, <1>6 DEF KeysOf
<1>10. ASSUME NEW x \in KeysOf(c) PROVE PosOf(c, x) = PosOf(b, x)
  <2>1. PICK z \in data : z[2] = x  BY <1>4 DEF KeysOf
  <2>2. PosOf(c, z[2]) = z[1]  BY <1>4, <1>7, PairIs
  <2>3. PosOf(b, z[2]) = z[1]  BY <1>6, PairIs
  <2>. QED  BY <2>1, <2>2, <2>3
<1>11. KeysOf(c) = KeysOf(b) \ {x \in KeysOf(b) : PosOf(b, x) = p}
  BY <1>8, <1>9
<1>. QED  BY <1>4, <1>7, <1>10, <1>11 DEF c
=============================================================================
