---------------------------- MODULE ValuesProofs ----------------------------
(***************************************************************************)
(* The values of instructions, for every width of a byte, every two float  *)
(* formats and every program of the catalogue's instructions: the digits   *)
(* and bits of numbers, the rounding of floats, what instructions pop is   *)
(* what was promised, memories and tables hold what was written to them,   *)
(* integers and conversions are exact.                                     *)
(***************************************************************************)
EXTENDS Values, FiniteSetTheorems, SequenceTheorems, WellFoundedInduction, TLAPS

-----------------------------------------------------------------------------
(* Powers of two *)

LEMMA PowCounts ==
  ASSUME NEW n \in Nat
  PROVE  /\ 2^n \in Nat /\ Cardinality(SUBSET (1 .. n)) = 2^n
         /\ IsFiniteSet(SUBSET (1 .. n))
<1>1. IsFiniteSet(1 .. n) /\ Cardinality(1 .. n) = n
  <2>1. 1 \in Int /\ n \in Int
    OBVIOUS
  <2> QED BY <2>1, FS_Interval
<1> DEFINE N == 1 .. n
<1> HIDE DEF N
<1>2. IsFiniteSet(SUBSET N) /\ Cardinality(SUBSET N) = 2^Cardinality(N)
  BY <1>1, FS_SUBSET DEF N
<1>3. Cardinality(SUBSET N) \in Nat
  BY <1>2, FS_CardinalityType
<1> QED BY <1>1, <1>2, <1>3 DEF N

LEMMA PowAdd ==
  ASSUME NEW m \in Nat, NEW n \in Nat
  PROVE  2^(m + n) = 2^m * 2^n
<1> DEFINE A == SUBSET (1 .. m)
           B == SUBSET (1 .. n)
           C == SUBSET (1 .. m + n)
           low(x) == x \cap (1 .. m)
           high(x) == {i \in 1 .. n : m + i \in x}
           f == [x \in C |-> <<low(x), high(x)>>]
<1>1. f \in [C -> A \X B]
  OBVIOUS
<1>2. ASSUME NEW x \in C, NEW y \in C, low(x) = low(y), high(x) = high(y) PROVE x = y
  <2>1. ASSUME NEW i \in 1 .. m + n PROVE (i \in x) = (i \in y)
    <3>1. CASE i \in 1 .. m
      BY <3>1, <1>2
    <3>2. CASE i \notin 1 .. m
      <4>1. i - m \in 1 .. n /\ m + (i - m) = i
        BY <3>2
      <4>2. (i - m \in high(x)) = (i \in x) /\ (i - m \in high(y)) = (i \in y)
        BY <4>1
      <4> QED BY <4>2, <1>2
    <3> QED BY <3>1, <3>2
  <2> QED BY <2>1
<1>3. ASSUME NEW a \in A, NEW b \in B PROVE \E x \in C : low(x) = a /\ high(x) = b
  <2> DEFINE x == a \cup {i \in m + 1 .. m + n : i - m \in b}
  <2> DEFINE up == {i \in m + 1 .. m + n : i - m \in b}
  <2>4. a \subseteq 1 .. m /\ up \subseteq m + 1 .. m + n /\ x = a \cup up
    OBVIOUS
  <2>5. \A i \in 1 .. m : i \notin m + 1 .. m + n /\ i \in 1 .. m + n
    OBVIOUS
  <2>6. \A i \in m + 1 .. m + n : i \in 1 .. m + n
    OBVIOUS
  <2> HIDE DEF up
  <2>1. x \in C
    BY <2>4, <2>5, <2>6
  <2>2. low(x) = a
    BY <2>4, <2>5
  <2>3. high(x) = b
    <3>1. ASSUME NEW i \in 1 .. n PROVE m + i \in x <=> i \in b
      <4>1. m + i \notin 1 .. m /\ m + i \in m + 1 .. m + n /\ (m + i) - m = i
        OBVIOUS
      <4> QED BY <4>1, <2>4 DEF up
    <3> HIDE DEF x
    <3> QED BY <3>1
  <2> HIDE DEF x, low, high
  <2> QED BY <2>1, <2>2, <2>3
<1>4. f \in Injection(C, A \X B)
  <2> HIDE DEF A, B, C, low, high
  <2>1. \A x \in C, y \in C : f[x] = f[y] => x = y
    BY <1>2
  <2> QED BY <1>1, <2>1 DEF Injection, IsInjective
<1>5. f \in Surjection(C, A \X B)
  <2> HIDE DEF A, B, C, low, high
  <2>1. \A z \in A \X B : \E x \in C : f[x] = z
    BY <1>3
  <2> QED BY <1>1, <2>1 DEF Surjection
<1>6. ExistsBijection(C, A \X B)
  BY <1>4, <1>5 DEF ExistsBijection, Bijection
<1>7. Cardinality(A) = 2^m /\ Cardinality(B) = 2^n /\ Cardinality(C) = 2^(m + n)
      /\ IsFiniteSet(A) /\ IsFiniteSet(B) /\ IsFiniteSet(C)
  <2>1. m + n \in Nat
    OBVIOUS
  <2> QED BY <2>1, PowCounts
<1> HIDE DEF A, B, C, f
<1>8. Cardinality(A \X B) = Cardinality(C) /\ Cardinality(A \X B) = Cardinality(A) * Cardinality(B)
  BY <1>6, <1>7, FS_Product, FS_Bijection
<1> QED BY <1>7, <1>8

LEMMA Pow ==
  ASSUME NEW n \in Nat
  PROVE  2^n \in Nat \ {0} /\ 2^0 = 1 /\ 2^(n + 1) = 2 * 2^n
<1>1. 2^n \in Nat
  BY PowCounts
<1>4. 2^0 = 1 /\ 2^1 = 2
  OBVIOUS
<1>2. 2^(n + 1) = 2^n * 2^1
  BY PowAdd
<1>3. 2^n # 0
  <2>1. Cardinality(SUBSET (1 .. n)) = 2^n /\ IsFiniteSet(SUBSET (1 .. n))
    BY PowCounts
  <2>2. SUBSET (1 .. n) # {}
    OBVIOUS
  <2> DEFINE T == SUBSET (1 .. n)
  <2> HIDE DEF T
  <2>3. T # {} /\ IsFiniteSet(T) => Cardinality(T) # 0
    BY FS_EmptySet
  <2> QED BY <2>1, <2>2, <2>3 DEF T
<1> QED BY <1>1, <1>2, <1>3, <1>4

LEMMA PowOrder ==
  ASSUME NEW m \in Nat, NEW n \in Nat, m <= n
  PROVE  2^n = 2^m * 2^(n - m) /\ 2^m <= 2^n /\ (m < n => 2 * 2^m <= 2^n)
<1> DEFINE k == n - m
<1>1. k \in Nat /\ m + k = n
  OBVIOUS
<1> HIDE DEF k
<1>2. 2^n = 2^m * 2^k /\ 2^m \in Nat \ {0} /\ 2^k \in Nat \ {0}
  BY <1>1, PowAdd, Pow
<1> DEFINE a == 2^m
           b == 2^k
<1>3. a \in Nat \ {0} /\ b \in Nat \ {0} /\ 2^n = a * b
  BY <1>2
<1>4. ASSUME m < n PROVE b >= 2
  <2>1. k - 1 \in Nat
    BY <1>1, <1>4 
  <2>2. 2^((k - 1) + 1) = 2 * 2^(k - 1) /\ 2^(k - 1) \in Nat \ {0}
    BY <2>1, Pow
  <2>3. (k - 1) + 1 = k
    BY <1>1
  <2> QED BY <2>2, <2>3
<1> HIDE DEF a, b
<1>5. a <= a * b /\ (b >= 2 => 2 * a <= a * b)
  BY <1>3
<1> QED BY <1>1, <1>3, <1>4, <1>5 DEF a, b, k

-----------------------------------------------------------------------------
(* Quotients and remainders *)

LEMMA DivMod ==
  ASSUME NEW x \in Int, NEW p \in Nat \ {0}
  PROVE  x = p * (x \div p) + (x % p) /\ x % p \in 0 .. p - 1 /\ x \div p \in Int
<1>1. x \div p \in Int
  OBVIOUS
<1>2. x % p \in 0 .. p - 1
  OBVIOUS
<1>3. x = p * (x \div p) + (x % p)
  OBVIOUS
<1> QED BY <1>1, <1>2, <1>3

LEMMA DivUnique ==
  ASSUME NEW p \in Nat \ {0}, NEW q \in Int, NEW r \in 0 .. p - 1, NEW x \in Int, x = p * q + r
  PROVE  x \div p = q /\ x % p = r
<1> DEFINE u == x \div p
           v == x % p
<1>1. x = p * u + v /\ v \in 0 .. p - 1 /\ u \in Int
  BY DivMod
<1> HIDE DEF u, v
<1>2. p * (u - q) = r - v
  BY <1>1
<1>3. ~ (u - q >= 1) /\ ~ (u - q <= -1)
  <2> DEFINE d == u - q
  <2>1. d \in Int /\ p * d = r - v
    BY <1>1, <1>2
  <2> HIDE DEF d
  <2>2. d >= 1 => p * d >= p
    BY <2>1
  <2>3. d <= -1 => p * d <= -p
    BY <2>1
  <2> QED BY <1>1, <2>1, <2>2, <2>3 DEF d
<1>4. u = q
  BY <1>1, <1>3
<1> QED BY <1>1, <1>4 DEF u, v

LEMMA ModSplit ==
  ASSUME NEW x \in Int, NEW p \in Nat \ {0}, NEW q \in Nat \ {0}
  PROVE  /\ x % (p * q) = (x % p) + p * ((x \div p) % q)
         /\ x \div (p * q) = (x \div p) \div q
<1> DEFINE u == x \div p
           v == x % p
           c == u \div q
           d == u % q
           r == v + p * d
<1>1. x = p * u + v /\ v \in 0 .. p - 1 /\ u \in Int
  BY DivMod
<1>2. u = q * c + d /\ d \in 0 .. q - 1 /\ c \in Int
  BY <1>1, DivMod
<1> HIDE DEF u, v, c, d
<1>3. p * q \in Nat \ {0}
  OBVIOUS
<1>4. x = (p * q) * c + r
  BY <1>1, <1>2
<1>5. r \in 0 .. p * q - 1
  <2>1. p * d >= 0 /\ p * d \in Int
    BY <1>2
  <2>2. p * d <= p * (q - 1)
    <3>1. q - 1 - d \in Nat
      BY <1>2
    <3>2. p * (q - 1 - d) >= 0
      BY <3>1
    <3> QED BY <3>2, <1>2
  <2>3. p * (q - 1) = p * q - p
    OBVIOUS
  <2> QED BY <1>1, <1>3, <2>1, <2>2, <2>3
<1> HIDE DEF r
<1>6. x \div (p * q) = c /\ x % (p * q) = r
  <2> DEFINE w == p * q
  <2>1. w \in Nat \ {0} /\ x = w * c + r /\ r \in 0 .. w - 1
    BY <1>3, <1>4, <1>5
  <2> HIDE DEF w
  <2>2. x \div w = c /\ x % w = r
    BY <1>2, <2>1, DivUnique
  <2> QED BY <2>2 DEF w
<1> QED BY <1>6 DEF r, c, d, u, v

LEMMA SmallMod ==
  ASSUME NEW p \in Nat \ {0}, NEW x \in 0 .. p - 1
  PROVE  x % p = x /\ x \div p = 0
<1>1. x = p * 0 + x /\ 0 \in Int /\ x \in Int
  OBVIOUS
<1> QED BY <1>1, DivUnique

-----------------------------------------------------------------------------
(* Induction, and the sum of the digits of a number *)

LEMMA Upto ==
  ASSUME NEW n \in Nat, NEW P, 0 \in P, \A k \in 0 .. n : k \in P /\ k < n => k + 1 \in P
  PROVE  0 .. n \subseteq P
<1> DEFINE T == (0 .. n) \ P
           R == {ss \in Nat \X Nat : ss[1] < ss[2]}
<1>1. SUFFICES ASSUME T # {} PROVE FALSE
  OBVIOUS
<1>2. T \subseteq Nat
  OBVIOUS
<1>3. PICK x \in T : \A y \in T : ~ (<<y, x>> \in R)
  <2>1. IsWellFoundedOn(R, Nat)
    BY NatLessThanWellFounded, Zenon DEF OpToRel
  <2> HIDE DEF T, R
  <2> QED BY <1>1, <1>2, <2>1, WFMin
<1>4. x - 1 \in 0 .. n /\ x \in Nat /\ x - 1 \in Nat
  OBVIOUS
<1>5. <<x - 1, x>> \in R
  <2> DEFINE ss == <<x - 1, x>>
  <2>1. ss \in Nat \X Nat /\ ss[1] < ss[2]
    BY <1>4
  <2> HIDE DEF ss
  <2> QED BY <2>1 DEF R
<1>6. x - 1 \notin T
  BY <1>3, <1>5
<1> QED BY <1>4, <1>6

UnfoldsNumber(b, n, d, g) ==
  g = [k \in 0 .. n |-> IF k = 0 THEN 0 ELSE g[k - 1] + d[k - 1] * 2^(b * (k - 1))]

LEMMA NumberUnfolds ==
  ASSUME NEW b, NEW n \in Nat, NEW d
  PROVE  \E g : UnfoldsNumber(b, n, d, g) /\ Number(b, n, d) = g[n]
<1> DEFINE P == {m \in 0 .. n : \E g : UnfoldsNumber(b, m, d, g)}
<1>1. 0 \in P
  <2> DEFINE g0 == [k \in 0 .. 0 |-> 0]
  <2>1. UnfoldsNumber(b, 0, d, g0)
    BY DEF UnfoldsNumber
  <2> QED BY <2>1
<1>2. ASSUME NEW m \in 0 .. n, m \in P, m < n PROVE m + 1 \in P
  <2>1. PICK g : UnfoldsNumber(b, m, d, g)
    BY <1>2
  <2> DEFINE g1 == [k \in 0 .. m + 1 |-> IF k = 0 THEN 0 ELSE g[k - 1] + d[k - 1] * 2^(b * (k - 1))]
  <2>2. \A k \in 0 .. m : g1[k] = g[k]
    BY <2>1 DEF UnfoldsNumber
  <2>3. UnfoldsNumber(b, m + 1, d, g1)
    <3> \A k \in 0 .. m + 1 : k # 0 => k - 1 \in 0 .. m
      OBVIOUS
    <3> QED BY <2>2 DEF UnfoldsNumber
  <2> HIDE DEF g1
  <2>4. m + 1 \in 0 .. n
    BY <1>2
  <2> QED BY <2>3, <2>4
<1>3. n \in P
  <2> HIDE DEF P
  <2>1. 0 .. n \subseteq P
    BY <1>1, <1>2, Upto
  <2> QED BY <2>1
<1> DEFINE h == CHOOSE g : UnfoldsNumber(b, n, d, g)
<1>4. UnfoldsNumber(b, n, d, h)
  BY <1>3
<1>5. Number(b, n, d) = h[n]
  BY Zenon DEF Number, UnfoldsNumber
<1> QED BY <1>4, <1>5

\* A number is that of its lower digits, whatever the others, and the last digit.
LEMMA NumberSum ==
  ASSUME NEW b, NEW n \in Nat, NEW d
  PROVE  /\ Number(b, 0, d) = 0
         /\ Number(b, n + 1, d) = Number(b, n, d) + d[n] * 2^(b * n)
         /\ \A e : (\A k \in 0 .. n - 1 : d[k] = e[k]) => Number(b, n, d) = Number(b, n, e)
<1>1. Number(b, 0, d) = 0
  <2>1. PICK g : UnfoldsNumber(b, 0, d, g) /\ Number(b, 0, d) = g[0]
    BY NumberUnfolds
  <2> QED BY <2>1 DEF UnfoldsNumber
<1>2. ASSUME NEW e, NEW g, NEW h, NEW m \in {n, n + 1}, UnfoldsNumber(b, m, d, g), UnfoldsNumber(b, n, e, h),
             \A k \in 0 .. n - 1 : d[k] = e[k]
      PROVE  g[n] = h[n]
  <2> DEFINE P == {k \in 0 .. n : g[k] = h[k]}
  <2>1. \A k \in 0 .. n : k \in 0 .. m
    OBVIOUS
  <2>2. 0 \in P
    BY <1>2, <2>1 DEF UnfoldsNumber
  <2>3. ASSUME NEW k \in 0 .. n, k \in P, k < n PROVE k + 1 \in P
    <3>1. k + 1 \in 0 .. n /\ k + 1 # 0 /\ (k + 1) - 1 = k /\ k \in 0 .. n - 1
      BY <2>3
    <3>2. g[k + 1] = g[k] + d[k] * 2^(b * k)
      BY <1>2, <2>1, <3>1 DEF UnfoldsNumber
    <3>3. h[k + 1] = h[k] + e[k] * 2^(b * k)
      BY <1>2, <3>1 DEF UnfoldsNumber
    <3> QED BY <1>2, <2>3, <3>1, <3>2, <3>3
  <2>4. n \in P
    <3> HIDE DEF P
    <3>1. 0 .. n \subseteq P
      BY <2>2, <2>3, Upto
    <3> QED BY <3>1
  <2> QED BY <2>4
<1>3. ASSUME NEW e, \A k \in 0 .. n - 1 : d[k] = e[k] PROVE Number(b, n, d) = Number(b, n, e)
  <2>1. PICK g : UnfoldsNumber(b, n, d, g) /\ Number(b, n, d) = g[n]
    BY NumberUnfolds
  <2>2. PICK h : UnfoldsNumber(b, n, e, h) /\ Number(b, n, e) = h[n]
    BY NumberUnfolds
  <2> QED BY <1>2, <1>3, <2>1, <2>2
<1>4. Number(b, n + 1, d) = Number(b, n, d) + d[n] * 2^(b * n)
  <2>1. PICK g : UnfoldsNumber(b, n + 1, d, g) /\ Number(b, n + 1, d) = g[n + 1]
    <3>1. n + 1 \in Nat
      OBVIOUS
    <3> QED BY <3>1, NumberUnfolds
  <2>2. PICK h : UnfoldsNumber(b, n, d, h) /\ Number(b, n, d) = h[n]
    BY NumberUnfolds
  <2>3. g[n] = h[n]
    BY <1>2, <2>1, <2>2
  <2>4. g[n + 1] = g[n] + d[n] * 2^(b * n)
    <3>1. n + 1 \in 0 .. n + 1 /\ n + 1 # 0 /\ (n + 1) - 1 = n
      OBVIOUS
    <3> QED BY <2>1, <3>1 DEF UnfoldsNumber
  <2> QED BY <2>1, <2>2, <2>3, <2>4
<1> QED BY <1>1, <1>3, <1>4

-----------------------------------------------------------------------------
(* Digits *)

LEMMA NextPower ==
  ASSUME NEW b \in Nat \ {0}, NEW k \in Nat
  PROVE  /\ b * k \in Nat /\ b * (k + 1) \in Nat /\ 2^b \in Nat \ {0} /\ 2^(b * k) \in Nat \ {0}
         /\ 2^(b * (k + 1)) = 2^(b * k) * 2^b
<1>1. b * k \in Nat /\ b \in Nat /\ b * (k + 1) = b * k + b
  OBVIOUS
<1> DEFINE m == b * k
<1>2. m \in Nat /\ b * (k + 1) = m + b
  BY <1>1
<1> HIDE DEF m
<1>3. 2^(m + b) = 2^m * 2^b
  BY <1>2, PowAdd
<1>4. 2^m \in Nat \ {0} /\ 2^b \in Nat \ {0}
  BY <1>2, Pow
<1> QED BY <1>2, <1>3, <1>4 DEF m

AreDigits(b, n, d) ==
  b \in Nat \ {0} /\ n \in Nat /\ \A k \in 0 .. n - 1 : d[k] \in 0 .. 2^b - 1

LEMMA NumberRange ==
  ASSUME NEW b, NEW n, NEW d, AreDigits(b, n, d)
  PROVE  Number(b, n, d) \in 0 .. 2^(b * n) - 1
<1>0. b \in Nat \ {0} /\ n \in Nat /\ \A j \in 0 .. n - 1 : d[j] \in 0 .. 2^b - 1
  BY DEF AreDigits
<1> DEFINE P == {k \in 0 .. n : Number(b, k, d) \in 0 .. 2^(b * k) - 1}
<1>1. 0 \in P
  <2>1. b * 0 = 0 /\ 2^0 = 1
    BY <1>0
  <2>2. 2^(b * 0) = 1
    BY ONLY <2>1
  <2>3. Number(b, 0, d) = 0
    BY <1>0, NumberSum
  <2> QED BY <1>0, <2>2, <2>3
<1>2. ASSUME NEW k \in 0 .. n, k \in P, k < n PROVE k + 1 \in P
  <2> DEFINE p == 2^(b * k)
             q == 2^b
             x == Number(b, k, d)
             y == Number(b, k + 1, d)
  <2>1. k \in Nat /\ k \in 0 .. n - 1 /\ k + 1 \in 0 .. n
    BY <1>0, <1>2
  <2>2. p \in Nat \ {0} /\ q \in Nat \ {0} /\ 2^(b * (k + 1)) = p * q
    BY <1>0, <2>1, NextPower
  <2>3. y = x + d[k] * p /\ x \in 0 .. p - 1
    BY <1>0, <1>2, <2>1, NumberSum
  <2>4. d[k] \in 0 .. q - 1
    BY <1>0, <2>1
  <2> DEFINE c == d[k]
  <2> HIDE DEF p, q, x, y, c, P
  <2>5. c \in 0 .. q - 1 /\ y = x + c * p /\ x \in 0 .. p - 1
    BY <2>3, <2>4 DEF c
  <2>6. y \in 0 .. p * q - 1
    <3>1. c * p \in Nat
      BY <2>2, <2>5
    <3>2. (q - 1 - c) * p >= 0
      <4>1. q - 1 - c \in Nat
        BY <2>2, <2>5
      <4> QED BY <4>1, <2>2
    <3>3. (q - 1 - c) * p = p * q - p - c * p
      BY <2>2, <2>5
    <3> QED BY <2>2, <2>5, <3>1, <3>2, <3>3
  <2>7. y \in 0 .. 2^(b * (k + 1)) - 1
    BY <2>2, <2>6
  <2> QED BY <2>1, <2>7 DEF P, y
<1>3. n \in P
  <2> HIDE DEF P
  <2>1. 0 .. n \subseteq P
    BY <1>0, <1>1, <1>2, Upto
  <2> QED BY <1>0, <2>1
<1> QED BY <1>3

\* The digits from k on count multiples of 2^(b*k).
LEMMA NumberSplit ==
  ASSUME NEW b, NEW n, NEW d, AreDigits(b, n, d), NEW k \in 0 .. n
  PROVE  \E t \in Nat : Number(b, n, d) = Number(b, k, d) + 2^(b * k) * t
<1>0. b \in Nat \ {0} /\ n \in Nat /\ \A j \in 0 .. n - 1 : d[j] \in 0 .. 2^b - 1
  BY DEF AreDigits
<1> DEFINE m == n - k
           P == {j \in 0 .. m : \E t \in Nat : Number(b, k + j, d) = Number(b, k, d) + 2^(b * k) * t}
<1>1. m \in Nat /\ k + m = n /\ k \in Nat
  BY <1>0
<1>2. 2^(b * k) \in Nat \ {0} /\ Number(b, k, d) \in Nat
  <2>1. AreDigits(b, k, d)
    BY <1>0, <1>1 DEF AreDigits
  <2>2. Number(b, k, d) \in 0 .. 2^(b * k) - 1 /\ 2^(b * k) \in Nat \ {0}
    BY <1>0, <1>1, <2>1, NumberRange, NextPower
  <2> QED BY <2>2
<1>3. 0 \in P
  <2>1. Number(b, k, d) = Number(b, k, d) + 2^(b * k) * 0 /\ k + 0 = k
    BY <1>2
  <2> QED BY <2>1, <1>1
<1>4. ASSUME NEW j \in 0 .. m, j \in P, j < m PROVE j + 1 \in P
  <2>1. PICK t \in Nat : Number(b, k + j, d) = Number(b, k, d) + 2^(b * k) * t
    BY <1>4
  <2>2. k + j \in Nat /\ k + j \in 0 .. n - 1 /\ k + (j + 1) = (k + j) + 1 /\ j + 1 \in 0 .. m /\ j \in Nat
    BY <1>0, <1>1, <1>4
  <2>3. Number(b, k + (j + 1), d) = Number(b, k + j, d) + d[k + j] * 2^(b * (k + j))
    <3> DEFINE i == k + j
    <3>1. i \in Nat /\ k + (j + 1) = i + 1
      BY <2>2
    <3> HIDE DEF i
    <3>2. Number(b, i + 1, d) = Number(b, i, d) + d[i] * 2^(b * i)
      BY <3>1, NumberSum
    <3> QED BY <3>1, <3>2 DEF i
  <2>4. 2^(b * (k + j)) = 2^(b * k) * 2^(b * j) /\ 2^(b * j) \in Nat
    <3>1. b * (k + j) = b * k + b * j /\ b * k \in Nat /\ b * j \in Nat
      BY <1>0, <1>1, <2>2
    <3> DEFINE u == b * k
               v == b * j
    <3> HIDE DEF u, v
    <3>2. u \in Nat /\ v \in Nat /\ b * (k + j) = u + v
      BY <3>1 DEF u, v
    <3>3. 2^(u + v) = 2^u * 2^v /\ 2^v \in Nat
      BY <3>2, PowAdd, Pow
    <3> QED BY <3>2, <3>3 DEF u, v
  <2>5. d[k + j] \in Nat
    <3>1. d[k + j] \in 0 .. 2^b - 1 /\ 2^b \in Nat
      BY <1>0, <2>2, Pow
    <3> QED BY <3>1
  <2> DEFINE p == 2^(b * k)
             q == 2^(b * j)
             c == d[k + j]
             x == Number(b, k, d)
  <2>6. Number(b, k + (j + 1), d) = (x + p * t) + c * (p * q) /\ p \in Nat /\ q \in Nat /\ c \in Nat /\ x \in Nat
    BY <1>2, <2>1, <2>3, <2>4, <2>5
  <2> HIDE DEF p, q, c, x
  <2>7. (x + p * t) + c * (p * q) = x + p * (t + c * q) /\ t + c * q \in Nat
    BY <2>6
  <2>8. \E s \in Nat : Number(b, k + (j + 1), d) = x + p * s
    BY <2>6, <2>7
  <2> QED BY <2>2, <2>8 DEF x, p
<1>5. m \in P
  <2> HIDE DEF P, m
  <2>1. 0 .. m \subseteq P
    BY <1>1, <1>3, <1>4, Upto
  <2> QED BY <2>1, <1>1
<1> QED BY <1>1, <1>5

LEMMA NumberDigit ==
  ASSUME NEW b, NEW n, NEW d, AreDigits(b, n, d), NEW k \in 0 .. n - 1
  PROVE  (Number(b, n, d) \div 2^(b * k)) % 2^b = d[k]
<1>0. b \in Nat \ {0} /\ n \in Nat /\ \A j \in 0 .. n - 1 : d[j] \in 0 .. 2^b - 1
  BY DEF AreDigits
<1> DEFINE x == Number(b, k, d)
           p == 2^(b * k)
           q == 2^b
           c == d[k]
<1>1. k \in Nat /\ k + 1 \in 0 .. n /\ AreDigits(b, k, d)
  BY <1>0 DEF AreDigits
<1>2. PICK t \in Nat : Number(b, n, d) = Number(b, k + 1, d) + 2^(b * (k + 1)) * t
  <2> DEFINE i == k + 1
  <2>1. i \in 0 .. n
    BY <1>1
  <2> HIDE DEF i
  <2>2. \E t \in Nat : Number(b, n, d) = Number(b, i, d) + 2^(b * i) * t
    BY <2>1, NumberSplit
  <2> QED BY <2>2 DEF i
<1>3. Number(b, k + 1, d) = x + c * p
  BY <1>1, NumberSum
<1>4. p \in Nat \ {0} /\ q \in Nat \ {0} /\ 2^(b * (k + 1)) = p * q
  BY <1>0, <1>1, NextPower
<1>5. x \in 0 .. p - 1
  BY <1>1, NumberRange
<1>6. c \in 0 .. q - 1
  BY <1>0
<1> DEFINE y == Number(b, n, d)
<1> HIDE DEF x, p, q, c, y
<1>7. y = p * (c + q * t) + x
  <2>1. y = (x + c * p) + (p * q) * t
    BY <1>2, <1>3, <1>4 DEF y
  <2> QED BY <2>1, <1>4, <1>5, <1>6
<1> DEFINE h == c + q * t
<1>8. h \in Int /\ h = q * t + c /\ y = p * h + x /\ y \in Int
  BY <1>4, <1>5, <1>6, <1>7
<1> HIDE DEF h
<1>9. y \div p = h
  BY <1>4, <1>5, <1>8, DivUnique
<1>10. h % q = c
  <2>1. t \in Int /\ h = q * t + c /\ h \in Int
    BY <1>8
  <2> QED BY ONLY <2>1, <1>4, <1>6, DivUnique
<1> QED BY <1>9, <1>10 DEF y, p, q, c

AreDigitsOf(b, n, d, x) == \A k \in 0 .. n - 1 : d[k] = (x \div 2^(b * k)) % 2^b

LEMMA NumberOfDigits ==
  ASSUME NEW b \in Nat \ {0}, NEW n \in Nat, NEW d, NEW x \in Int, AreDigitsOf(b, n, d, x)
  PROVE  Number(b, n, d) = x % 2^(b * n)
<1>0. \A k \in 0 .. n - 1 : d[k] = (x \div 2^(b * k)) % 2^b
  BY DEF AreDigitsOf
<1> DEFINE P == {k \in 0 .. n : Number(b, k, d) = x % 2^(b * k)}
<1>1. 0 \in P
  <2>1. b * 0 = 0 /\ 2^0 = 1
    OBVIOUS
  <2>2. 2^(b * 0) = 1
    BY ONLY <2>1
  <2>3. Number(b, 0, d) = 0
    BY NumberSum
  <2>4. x % 1 = 0
    OBVIOUS
  <2> QED BY <2>2, <2>3, <2>4
<1>2. ASSUME NEW k \in 0 .. n, k \in P, k < n PROVE k + 1 \in P
  <2> DEFINE p == 2^(b * k)
             q == 2^b
  <2>1. k \in Nat /\ k \in 0 .. n - 1 /\ k + 1 \in 0 .. n
    BY <1>2
  <2>2. p \in Nat \ {0} /\ q \in Nat \ {0} /\ 2^(b * (k + 1)) = p * q
    BY <2>1, NextPower
  <2>3. Number(b, k + 1, d) = (x % p) + ((x \div p) % q) * p
    <3>1. Number(b, k + 1, d) = Number(b, k, d) + d[k] * p
      BY <2>1, NumberSum
    <3>2. Number(b, k, d) = x % p /\ d[k] = (x \div p) % q
      BY <1>0, <1>2, <2>1
    <3> QED BY <3>1, <3>2
  <2> HIDE DEF p, q
  <2>4. x % (p * q) = (x % p) + p * ((x \div p) % q)
    BY <2>2, ModSplit
  <2>5. (x \div p) % q \in Int
    <3>1. x \div p \in Int
      BY <2>2, DivMod
    <3> QED BY <2>2, <3>1, DivMod
  <2>6. p * ((x \div p) % q) = ((x \div p) % q) * p
    BY <2>2, <2>5
  <2>7. Number(b, k + 1, d) = x % 2^(b * (k + 1))
    BY <2>2, <2>3, <2>4, <2>6
  <2> QED BY <2>1, <2>7
<1>3. n \in P
  <2> HIDE DEF P
  <2>1. 0 .. n \subseteq P
    BY <1>1, <1>2, Upto
  <2> QED BY <2>1
<1> QED BY <1>3

-----------------------------------------------------------------------------
(* Bytes, words and lanes *)

LEMMA ByteFacts ==
  /\ ByteBits \in Nat \ {0} /\ 2^ByteBits \in Nat \ {0}
  /\ \A x \in Int, k \in Nat : ByteAt(x, k) \in Byte
  /\ \A n \in Nat : ByteBits * n \in Nat /\ n * ByteBits = ByteBits * n /\ 2^(ByteBits * n) \in Nat \ {0}
<1>1. ByteBits \in Nat \ {0} /\ 2^ByteBits \in Nat \ {0}
  BY ByteBitsAssumption, Pow
<1>2. \A n \in Nat : ByteBits * n \in Nat /\ n * ByteBits = ByteBits * n
  BY <1>1
<1>3. \A n \in Nat : 2^(ByteBits * n) \in Nat \ {0}
  BY <1>2, Pow
<1>4. ASSUME NEW x \in Int, NEW k \in Nat PROVE ByteAt(x, k) \in Byte
  <2>1. x \div 2^(ByteBits * k) \in Int
    BY <1>3, DivMod
  <2> QED BY <1>1, <2>1, DivMod DEF ByteAt, Byte
<1> QED BY <1>1, <1>2, <1>3, <1>4

\* Words of the same bytes are the same, and give their bytes back.
LEMMA WordSame ==
  ASSUME NEW n \in Nat, NEW a, NEW b, NEW i \in Int, NEW j \in Int, \A k \in 0 .. n - 1 : a[i + k] = b[j + k]
  PROVE  Word(a, i, n) = Word(b, j, n)
<1> DEFINE d == [k \in 0 .. n - 1 |-> a[i + k]]
           e == [k \in 0 .. n - 1 |-> b[j + k]]
<1>1. \A k \in 0 .. n - 1 : d[k] = e[k]
  OBVIOUS
<1> HIDE DEF d, e
<1>2. Number(ByteBits, n, d) = Number(ByteBits, n, e)
  BY <1>1, NumberSum
<1> QED BY <1>2 DEF Word, d, e

LEMMA WordBytes ==
  ASSUME NEW n \in Nat, NEW a, NEW i \in Int, \A k \in 0 .. n - 1 : a[i + k] \in Byte
  PROVE  /\ Word(a, i, n) \in 0 .. 2^(n * ByteBits) - 1
         /\ \A k \in 0 .. n - 1 : ByteAt(Word(a, i, n), k) = a[i + k]
<1> DEFINE d == [k \in 0 .. n - 1 |-> a[i + k]]
<1>1. \A k \in 0 .. n - 1 : d[k] = a[i + k] /\ d[k] \in 0 .. 2^ByteBits - 1
  BY DEF Byte
<1> HIDE DEF d
<1>2. AreDigits(ByteBits, n, d)
  BY <1>1, ByteFacts DEF AreDigits
<1>3. Number(ByteBits, n, d) \in 0 .. 2^(ByteBits * n) - 1
  BY <1>2, NumberRange
<1>4. \A k \in 0 .. n - 1 : (Number(ByteBits, n, d) \div 2^(ByteBits * k)) % 2^ByteBits = d[k]
  BY <1>2, NumberDigit
<1>5. Word(a, i, n) = Number(ByteBits, n, d) /\ n * ByteBits = ByteBits * n
  BY ByteFacts DEF Word, d
<1> QED BY <1>1, <1>3, <1>4, <1>5 DEF ByteAt

LEMMA WordOfBytes ==
  ASSUME NEW n \in Nat, NEW a, NEW i \in Int, NEW x \in Int, \A k \in 0 .. n - 1 : a[i + k] = ByteAt(x, k)
  PROVE  Word(a, i, n) = x % 2^(n * ByteBits)
<1> DEFINE d == [k \in 0 .. n - 1 |-> a[i + k]]
<1>1. AreDigitsOf(ByteBits, n, d, x)
  BY DEF ByteAt, AreDigitsOf
<1> HIDE DEF d
<1>2. Number(ByteBits, n, d) = x % 2^(ByteBits * n)
  BY <1>1, ByteFacts, NumberOfDigits
<1>3. Word(a, i, n) = Number(ByteBits, n, d) /\ n * ByteBits = ByteBits * n
  BY ByteFacts DEF Word, d
<1> QED BY <1>2, <1>3

LaneSizes == {1, 2, 4, 8}
Vectors == [1 .. VectorBytes -> Byte]

\* The place of byte k of lane i.
LEMMA LanePlaces ==
  ASSUME NEW n \in LaneSizes
  PROVE  /\ n \in Nat \ {0} /\ Lanes(n) = 0 .. (16 \div n) - 1
         /\ \A i \in Lanes(n), k \in 0 .. n - 1 :
              /\ n * i + 1 + k \in 1 .. VectorBytes /\ n * i + 1 \in Nat
              /\ ((n * i + 1 + k) - 1) \div n = i /\ ((n * i + 1 + k) - 1) % n = k
         /\ \A p \in 1 .. VectorBytes :
              /\ (p - 1) \div n \in Lanes(n) /\ (p - 1) % n \in 0 .. n - 1
              /\ p = n * ((p - 1) \div n) + 1 + ((p - 1) % n)
<1>1. CASE n = 1
  BY <1>1 DEF Lanes, VectorBytes
<1>2. CASE n = 2
  BY <1>2 DEF Lanes, VectorBytes
<1>3. CASE n = 4
  BY <1>3 DEF Lanes, VectorBytes
<1>4. CASE n = 8
  BY <1>4 DEF Lanes, VectorBytes
<1> QED BY <1>1, <1>2, <1>3, <1>4 DEF LaneSizes

LEMMA LanePack ==
  ASSUME NEW n \in LaneSizes, NEW lanes, \A i \in Lanes(n) : lanes[i] \in Int
  PROVE  /\ Pack(n, lanes) \in Vectors
         /\ \A i \in Lanes(n) : Lane(Pack(n, lanes), n, i) = lanes[i] % 2^(n * ByteBits)
<1> DEFINE v == Pack(n, lanes)
<1>1. v = [p \in 1 .. VectorBytes |-> ByteAt(lanes[(p - 1) \div n], (p - 1) % n)]
  BY DEF Pack
<1> HIDE DEF v
<1>2. \A p \in 1 .. VectorBytes : (p - 1) \div n \in Lanes(n) /\ (p - 1) % n \in Nat
  BY LanePlaces
<1>3. v \in Vectors
  BY <1>1, <1>2, ByteFacts DEF Vectors
<1>4. ASSUME NEW i \in Lanes(n) PROVE Lane(v, n, i) = lanes[i] % 2^(n * ByteBits)
  <2> DEFINE x == lanes[i]
             first == n * i + 1
  <2>1. \A k \in 0 .. n - 1 : v[first + k] = ByteAt(x, k)
    BY <1>1, LanePlaces
  <2>2. n \in Nat /\ first \in Int /\ x \in Int
    BY LanePlaces
  <2> HIDE DEF x, first
  <2>3. Word(v, first, n) = x % 2^(n * ByteBits)
    BY <2>1, <2>2, WordOfBytes
  <2> QED BY <2>3 DEF Lane, x, first
<1> QED BY <1>3, <1>4 DEF v

LEMMA LaneRange ==
  ASSUME NEW n \in LaneSizes, NEW v \in Vectors, NEW i \in Lanes(n)
  PROVE  /\ Lane(v, n, i) \in 0 .. 2^(n * ByteBits) - 1
         /\ \A k \in 0 .. n - 1 : ByteAt(Lane(v, n, i), k) = v[n * i + 1 + k]
<1>1. n \in Nat /\ n * i + 1 \in Int /\ \A k \in 0 .. n - 1 : v[n * i + 1 + k] \in Byte
  BY LanePlaces DEF Vectors
<1> QED BY <1>1, WordBytes DEF Lane

-----------------------------------------------------------------------------
(* Signed and unsigned *)

LEMMA Halves ==
  ASSUME NEW w \in Nat \ {0}
  PROVE  2^w = 2 * 2^(w - 1) /\ 2^(w - 1) \in Nat \ {0} /\ 2^w \in Nat \ {0}
<1>1. w - 1 \in Nat /\ (w - 1) + 1 = w
  OBVIOUS
<1>2. 2^((w - 1) + 1) = 2 * 2^(w - 1) /\ 2^(w - 1) \in Nat \ {0}
  BY <1>1, Pow
<1> QED BY <1>1, <1>2

Signeds(w) == -(2^(w - 1)) .. 2^(w - 1) - 1
Unsigneds(w) == 0 .. 2^w - 1

LEMMA SignedFacts ==
  ASSUME NEW w \in Nat \ {0}
  PROVE  /\ \A x \in Unsigneds(w) : S(w, x) \in Signeds(w) /\ U(w, S(w, x)) = x /\ U(w, x) = x
         /\ \A v \in Signeds(w) : S(w, U(w, v)) = v
         /\ \A v \in Int : U(w, v) \in Unsigneds(w) /\ \E k \in Int : v = U(w, v) + 2^w * k
         /\ \A x \in Unsigneds(w) : \E k \in Int : S(w, x) = x + 2^w * k
<1> DEFINE h == 2^(w - 1)
           p == 2^w
<1>1. p = 2 * h /\ h \in Nat \ {0} /\ p \in Nat \ {0}
  BY Halves
<1>2. \A x, y : S(w, x) = (IF x < h THEN x ELSE x - p) /\ U(w, y) = y % p
  BY DEF S, U
<1>3. Signeds(w) = -h .. h - 1 /\ Unsigneds(w) = 0 .. p - 1
  BY DEF Signeds, Unsigneds
<1> HIDE DEF h, p
<1>4. \A x \in 0 .. p - 1 : x % p = x
  BY <1>1, SmallMod
<1>5. ASSUME NEW x \in 0 .. p - 1, x >= h PROVE (x - p) % p = x
  <2>1. x - p = p * (-1) + x /\ x - p \in Int /\ -1 \in Int
    BY <1>1
  <2> QED BY <1>1, <2>1, DivUnique
<1>6. ASSUME NEW v \in -h .. h - 1, v < 0 PROVE v % p = v + p
  <2>1. v = p * (-1) + (v + p) /\ v + p \in 0 .. p - 1 /\ v \in Int /\ -1 \in Int
    BY <1>1, <1>6
  <2> QED BY <1>1, <2>1, DivUnique
<1>7. ASSUME NEW v \in Int PROVE v % p \in 0 .. p - 1 /\ \E k \in Int : v = (v % p) + p * k
  <2>1. v % p \in 0 .. p - 1 /\ v \div p \in Int /\ v = p * (v \div p) + (v % p)
    BY <1>1, DivMod
  <2>2. v = (v % p) + p * (v \div p)
    BY <1>1, <2>1
  <2> QED BY <2>1, <2>2
<1>8. \A x \in 0 .. p - 1 : S(w, x) \in -h .. h - 1 /\ U(w, S(w, x)) = x /\ U(w, x) = x
  BY <1>1, <1>2, <1>4, <1>5
<1>9. \A v \in -h .. h - 1 : S(w, U(w, v)) = v
  <2> TAKE v \in -h .. h - 1
  <2>1. CASE v < 0
    BY <1>1, <1>2, <1>6, <2>1
  <2>2. CASE v >= 0
    <3>1. v \in 0 .. p - 1
      BY <1>1, <2>2
    <3> QED BY <1>1, <1>2, <1>4, <2>2, <3>1
  <2> QED BY <2>1, <2>2
<1>10. \A x \in 0 .. p - 1 : \E k \in Int : S(w, x) = x + p * k
  <2> TAKE x \in 0 .. p - 1
  <2>1. CASE x < h
    <3>1. S(w, x) = x + p * 0
      BY <1>1, <1>2, <2>1
    <3> QED BY <3>1
  <2>2. CASE ~ (x < h)
    <3>1. S(w, x) = x + p * (-1)
      BY <1>1, <1>2, <2>2
    <3> QED BY <3>1
  <2> QED BY <2>1, <2>2
<1>11. \A v \in Int : U(w, v) \in 0 .. p - 1 /\ \E k \in Int : v = U(w, v) + p * k
  BY <1>2, <1>7
<1> QED BY <1>3, <1>8, <1>9, <1>10, <1>11 DEF p

LEMMA SignedOrder ==
  ASSUME NEW m \in Nat \ {0}, NEW n \in Nat \ {0}, m <= n
  PROVE  Signeds(m) \subseteq Signeds(n) /\ Unsigneds(m) \subseteq Unsigneds(n)
<1>1. 2^(m - 1) <= 2^(n - 1) /\ 2^m <= 2^n
  <2>1. m - 1 \in Nat /\ n - 1 \in Nat /\ m - 1 <= n - 1
    OBVIOUS
  <2> QED BY <2>1, PowOrder
<1>2. 2^(m - 1) \in Nat /\ 2^(n - 1) \in Nat /\ 2^m \in Nat /\ 2^n \in Nat
  BY Halves
<1> QED BY <1>1, <1>2 DEF Signeds, Unsigneds

LEMMA Extended ==
  ASSUME NEW m \in Nat \ {0}, NEW n \in Nat \ {0}, m <= n, NEW x \in Unsigneds(m)
  PROVE  SignExtend(m, n, x) \in Unsigneds(n) /\ S(n, SignExtend(m, n, x)) = S(m, x) /\ x \in Unsigneds(n)
<1>1. U(m, x) = x /\ S(m, x) \in Signeds(m)
  BY SignedFacts
<1>2. S(m, x) \in Signeds(n) /\ x \in Unsigneds(n) /\ S(m, x) \in Int
  BY <1>1, SignedOrder DEF Signeds
<1> QED BY <1>1, <1>2, SignedFacts DEF SignExtend

-----------------------------------------------------------------------------
(* Bits *)

\* A multiple added above a place changes nothing at it.
LEMMA DivAdds ==
  ASSUME NEW p \in Nat \ {0}, NEW x \in Int, NEW q \in Int
  PROVE  (x + p * q) \div p = (x \div p) + q /\ (x + p * q) % p = x % p
<1> DEFINE u == x \div p
           v == x % p
           y == x + p * q
<1>1. x = p * u + v /\ v \in 0 .. p - 1 /\ u \in Int
  BY DivMod
<1> HIDE DEF u, v
<1>2. y = p * (u + q) + v /\ u + q \in Int /\ y \in Int
  BY <1>1
<1> HIDE DEF y
<1>3. y \div p = u + q /\ y % p = v
  BY <1>1, <1>2, DivUnique
<1> QED BY <1>3 DEF u, v, y

LEMMA Parity ==
  ASSUME NEW x \in Int, NEW q \in Int
  PROVE  (x + 2 * q) % 2 = x % 2 /\ (2 * q) % 2 = 0 /\ x % 2 \in {0, 1}
<1>1. (x + 2 * q) % 2 = x % 2
  BY DivAdds
<1>2. (0 + 2 * q) % 2 = 0 % 2
  BY DivAdds
<1> QED BY <1>1, <1>2

LEMMA BitRange ==
  ASSUME NEW x \in Int, NEW i \in Nat
  PROVE  Bit(x, i) \in {0, 1} /\ x \div 2^i \in Int /\ 2^i \in Nat \ {0}
<1>1. 2^i \in Nat \ {0}
  BY Pow
<1>2. x \div 2^i \in Int
  BY <1>1, DivMod
<1> QED BY <1>1, <1>2, Parity DEF Bit

\* The bits of a number moved down are those above them.
LEMMA BitDown ==
  ASSUME NEW x \in Int, NEW k \in Nat, NEW i \in Nat
  PROVE  Bit(x \div 2^k, i) = Bit(x, i + k) /\ x \div 2^k \in Int
<1>1. 2^k \in Nat \ {0} /\ 2^i \in Nat \ {0} /\ 2^(i + k) = 2^k * 2^i
  BY Pow, PowAdd
<1>2. x \div (2^k * 2^i) = (x \div 2^k) \div 2^i
  BY <1>1, ModSplit
<1> QED BY <1>1, <1>2, DivMod DEF Bit

\* The bits of a number moved up, and zeros below them.
LEMMA BitUp ==
  ASSUME NEW x \in Int, NEW k \in Nat, NEW i \in Nat
  PROVE  /\ x * 2^k \in Int
         /\ Bit(x * 2^k, i) = IF i < k THEN 0 ELSE Bit(x, i - k)
<1>1. 2^k \in Nat \ {0} /\ 2^i \in Nat \ {0} /\ x * 2^k \in Int
  BY Pow
<1>2. CASE i < k
  <2> DEFINE m == k - i
             p == 2^i
             q == 2^(m - 1)
  <2>1. m \in Nat \ {0} /\ m - 1 \in Nat /\ i <= k
    BY <1>2
  <2>2. 2^k = p * 2^m
    BY <2>1, PowOrder
  <2>3. 2^m = 2 * q /\ q \in Nat \ {0}
    BY <2>1, Halves
  <2> HIDE DEF m, p, q
  <2>4. x * 2^k = 0 + p * (2 * (x * q)) /\ 2 * (x * q) \in Int /\ x * q \in Int /\ p \in Nat \ {0}
    BY <1>1, <2>2, <2>3 DEF p
  <2>5. (0 + p * (2 * (x * q))) \div p = (0 \div p) + 2 * (x * q)
    BY <2>4, DivAdds
  <2>6. 0 \div p = 0
    BY <2>4, SmallMod
  <2>7. (x * 2^k) \div p = 2 * (x * q)
    BY <2>4, <2>5, <2>6
  <2>8. (2 * (x * q)) % 2 = 0
    BY <2>4, Parity
  <2> QED BY <1>1, <1>2, <2>7, <2>8 DEF Bit, p
<1>3. CASE ~ (i < k)
  <2> DEFINE m == i - k
  <2>1. m \in Nat /\ k + m = i
    BY <1>3
  <2> HIDE DEF m
  <2>2. 2^i = 2^k * 2^m /\ 2^m \in Nat \ {0}
    BY <2>1, PowAdd, Pow
  <2>3. (x * 2^k) \div 2^i = ((x * 2^k) \div 2^k) \div 2^m
    <3> DEFINE y == x * 2^k
    <3>1. y \in Int
      BY <1>1
    <3> HIDE DEF y
    <3>2. y \div (2^k * 2^m) = (y \div 2^k) \div 2^m
      BY <1>1, <2>2, <3>1, ModSplit
    <3> QED BY <2>2, <3>2 DEF y
  <2>4. (x * 2^k) \div 2^k = x
    <3> DEFINE p == 2^k
    <3>1. p \in Nat \ {0} /\ x * p = p * x + 0 /\ 0 \in 0 .. p - 1 /\ x * p \in Int
      BY <1>1
    <3> HIDE DEF p
    <3>2. (x * p) \div p = x
      BY <3>1, DivUnique
    <3> QED BY <3>2 DEF p
  <2> QED BY <1>1, <1>3, <2>3, <2>4 DEF Bit, m
<1> QED BY <1>1, <1>2, <1>3

\* What is added from a place on leaves the bits below it.
LEMMA BitBelow ==
  ASSUME NEW x \in Int, NEW q \in Int, NEW n \in Nat, NEW i \in Nat, i < n
  PROVE  Bit(x + 2^n * q, i) = Bit(x, i)
<1> DEFINE m == n - i
           p == 2^i
           h == 2^(m - 1)
<1>1. m \in Nat \ {0} /\ i <= n
  OBVIOUS
<1>2. 2^n = p * 2^m /\ p \in Nat \ {0}
  BY <1>1, PowOrder, Pow
<1>3. 2^m = 2 * h /\ h \in Nat \ {0}
  BY <1>1, Halves
<1> DEFINE r == h * q
<1>4. r \in Int /\ 2^n * q = p * (2 * r) /\ 2 * r \in Int
  <2>1. h * q \in Int
    BY <1>3
  <2> HIDE DEF p, h, m
  <2>2. 2^n * q = (p * (2 * h)) * q
    BY <1>2, <1>3
  <2> QED BY <2>1, <2>2, <1>2, <1>3
<1> HIDE DEF m, p, h, r
<1>5. (x + p * (2 * r)) \div p = (x \div p) + 2 * r /\ x \div p \in Int
  BY <1>2, <1>4, DivAdds, DivMod
<1>6. ((x \div p) + 2 * r) % 2 = (x \div p) % 2
  BY <1>4, <1>5, Parity
<1> QED BY <1>4, <1>5, <1>6 DEF Bit, p

LEMMA BitCut ==
  ASSUME NEW x \in Int, NEW n \in Nat, NEW i \in Nat
  PROVE  x % 2^n \in 0 .. 2^n - 1 /\ Bit(x % 2^n, i) = IF i < n THEN Bit(x, i) ELSE 0
<1> DEFINE p == 2^n
           r == x % p
           q == x \div p
<1>1. p \in Nat \ {0}
  BY Pow
<1>2. x = p * q + r /\ r \in 0 .. p - 1 /\ q \in Int
  BY <1>1, DivMod
<1> HIDE DEF q, r
<1>3. CASE i < n
  <2>1. x = r + 2^n * q /\ r \in Int
    BY <1>1, <1>2
  <2>2. Bit(r + 2^n * q, i) = Bit(r, i)
    BY <1>2, <1>3, <2>1, BitBelow
  <2> QED BY <1>2, <1>3, <2>1, <2>2 DEF r
<1>4. CASE ~ (i < n)
  <2>1. p <= 2^i /\ 2^i \in Nat \ {0}
    BY <1>4, PowOrder, Pow
  <2>2. r \in 0 .. 2^i - 1
    BY <1>1, <1>2, <2>1
  <2>3. r \div 2^i = 0
    BY <2>1, <2>2, SmallMod
  <2>4. Bit(r, i) = 0
    BY <2>3 DEF Bit
  <2> QED BY <1>2, <1>4, <2>4 DEF r
<1> QED BY <1>3, <1>4

\* The bits of a number of n bits, and of a signed one: those above are its sign.
LEMMA BitAbove ==
  ASSUME NEW n \in Nat, NEW i \in Nat, n <= i
  PROVE  /\ \A x \in 0 .. 2^n - 1 : Bit(x, i) = 0
         /\ \A x \in -(2^n) .. -1 : Bit(x, i) = 1
<1> DEFINE p == 2^i
<1>1. 2^n <= p /\ p \in Nat \ {0} /\ 2^n \in Nat \ {0}
  BY PowOrder, Pow
<1> HIDE DEF p
<1>2. ASSUME NEW x \in 0 .. 2^n - 1 PROVE Bit(x, i) = 0
  <2>1. x \in 0 .. p - 1
    BY <1>1
  <2> QED BY <1>1, <2>1, SmallMod DEF Bit, p
<1>3. ASSUME NEW x \in -(2^n) .. -1 PROVE Bit(x, i) = 1
  <2>1. x = p * (-1) + (x + p) /\ x + p \in 0 .. p - 1 /\ x \in Int
    BY <1>1
  <2>2. x \div p = -1
    BY <1>1, <2>1, DivUnique
  <2>3. (-1) % 2 = 1
    <3>1. -1 = 2 * (-1) + 1 /\ -1 \in Int /\ 1 \in 0 .. 2 - 1 /\ 2 \in Nat \ {0}
      OBVIOUS
    <3> QED BY <3>1, DivUnique
  <2> QED BY <2>2, <2>3 DEF Bit, p
<1> QED BY <1>2, <1>3

LEMMA BitSum ==
  ASSUME NEW n \in Nat, NEW x \in 0 .. 2^n - 1, NEW h \in Int, NEW i \in Nat
  PROVE  Bit(h * 2^n + x, i) = IF i < n THEN Bit(x, i) ELSE Bit(h, i - n)
<1> DEFINE p == 2^n
<1>1. p \in Nat \ {0} /\ x \in Int /\ h * p + x = x + p * h /\ h * p + x \in Int
  BY Pow
<1>2. CASE i < n
  <2>1. Bit(x + 2^n * h, i) = Bit(x, i)
    BY <1>1, <1>2, BitBelow, ZenonT(60)
  <2>2. Bit(h * p + x, i) = Bit(x, i)
    BY <1>1, <2>1
  <2> QED BY <1>2, <2>2
<1>3. CASE ~ (i < n)
  <2> DEFINE m == i - n
  <2>1. m \in Nat /\ m + n = i
    BY <1>3
  <2> DEFINE y == h * p + x
  <2>2. y \in Int /\ x \div p = 0 /\ y = x + p * h
    BY <1>1, SmallMod
  <2>3. (x + p * h) \div p = (x \div p) + h
    BY <1>1, DivAdds
  <2>4. y \div p = h
    BY <2>2, <2>3
  <2> HIDE DEF y, m
  <2>5. Bit(y \div 2^n, m) = Bit(y, m + n)
    BY <2>1, <2>2, BitDown
  <2> QED BY <1>3, <2>1, <2>4, <2>5 DEF y, m
<1> QED BY <1>2, <1>3

-----------------------------------------------------------------------------
(* And, or, exclusive or; shifts and rotations *)

LEMMA DigitBits ==
  ASSUME NEW w \in Nat \ {0}, NEW d, \A i \in 0 .. w - 1 : d[i] \in {0, 1}
  PROVE  /\ Number(1, w, d) \in Unsigneds(w)
         /\ BitsSet(w, Number(1, w, d)) = {i \in 0 .. w - 1 : d[i] = 1}
<1>1. 1 \in Nat \ {0} /\ 2^1 = 2 /\ \A k \in Nat : 1 * k = k
  OBVIOUS
<1>2. AreDigits(1, w, d)
  BY <1>1 DEF AreDigits
<1> DEFINE x == Number(1, w, d)
<1>3. x \in 0 .. 2^w - 1
  <2>1. x \in 0 .. 2^(1 * w) - 1
    BY <1>2, NumberRange
  <2>2. 1 * w = w
    BY <1>1
  <2> QED BY <2>1, <2>2
<1>4. ASSUME NEW i \in 0 .. w - 1 PROVE Bit(x, i) = d[i]
  <2>1. (x \div 2^(1 * i)) % 2^1 = d[i]
    <3> DEFINE b == 1
    <3>1. AreDigits(b, w, d) /\ i \in 0 .. w - 1
      BY <1>2
    <3> HIDE DEF b
    <3>2. (Number(b, w, d) \div 2^(b * i)) % 2^b = d[i]
      BY <3>1, NumberDigit
    <3> QED BY <3>2 DEF b
  <2>2. 1 * i = i
    BY <1>1
  <2> HIDE DEF x
  <2>3. (x \div 2^i) % 2^1 = d[i]
    BY ONLY <2>1, <2>2
  <2> QED BY <2>3, <1>1 DEF Bit
<1> HIDE DEF x
<1>5. BitsSet(w, x) = {i \in 0 .. w - 1 : d[i] = 1}
  BY <1>4 DEF BitsSet
<1> QED BY <1>3, <1>5 DEF x, Unsigneds

\* How the bits of a number, and those of a vector, are made of others.
Flips(w, r, a) == BitsSet(w, r) = (0 .. w - 1) \ BitsSet(w, a)
Meets(w, r, a, b) == BitsSet(w, r) = BitsSet(w, a) \cap BitsSet(w, b)
Joins(w, r, a, b) == BitsSet(w, r) = BitsSet(w, a) \cup BitsSet(w, b)
Leaves(w, r, a, b) == BitsSet(w, r) = BitsSet(w, a) \ BitsSet(w, b)
Differs(w, r, a, b) == BitsSet(w, r) = (BitsSet(w, a) \cup BitsSet(w, b)) \ (BitsSet(w, a) \cap BitsSet(w, b))

LEMMA BitwiseIs ==
  ASSUME NEW w \in Nat \ {0}, NEW a \in Int, NEW b \in Int
  PROVE  /\ And(w, a, b) \in Unsigneds(w) /\ Meets(w, And(w, a, b), a, b)
         /\ Or(w, a, b) \in Unsigneds(w) /\ Joins(w, Or(w, a, b), a, b)
         /\ Xor(w, a, b) \in Unsigneds(w) /\ Differs(w, Xor(w, a, b), a, b)
<1>0. \A i \in 0 .. w - 1 : Bit(a, i) \in {0, 1} /\ Bit(b, i) \in {0, 1}
  BY BitRange
<1>1. And(w, a, b) \in Unsigneds(w) /\ BitsSet(w, And(w, a, b)) = BitsSet(w, a) \cap BitsSet(w, b)
  <2> DEFINE d == [i \in 0 .. w - 1 |-> Least(Bit(a, i), Bit(b, i))]
  <2>1. \A i \in 0 .. w - 1 : d[i] \in {0, 1} /\ (d[i] = 1 <=> Bit(a, i) = 1 /\ Bit(b, i) = 1)
    BY <1>0 DEF Least
  <2>2. And(w, a, b) = Number(1, w, d)
    BY DEF And
  <2> HIDE DEF d
  <2>3. Number(1, w, d) \in Unsigneds(w) /\ BitsSet(w, Number(1, w, d)) = {i \in 0 .. w - 1 : d[i] = 1}
    BY <2>1, DigitBits
  <2>4. {i \in 0 .. w - 1 : d[i] = 1} = BitsSet(w, a) \cap BitsSet(w, b)
    BY <2>1 DEF BitsSet
  <2> QED BY <2>2, <2>3, <2>4
<1>2. Or(w, a, b) \in Unsigneds(w) /\ BitsSet(w, Or(w, a, b)) = BitsSet(w, a) \cup BitsSet(w, b)
  <2> DEFINE d == [i \in 0 .. w - 1 |-> Greatest(Bit(a, i), Bit(b, i))]
  <2>1. \A i \in 0 .. w - 1 : d[i] \in {0, 1} /\ (d[i] = 1 <=> Bit(a, i) = 1 \/ Bit(b, i) = 1)
    BY <1>0 DEF Greatest
  <2>2. Or(w, a, b) = Number(1, w, d)
    BY DEF Or
  <2> HIDE DEF d
  <2>3. Number(1, w, d) \in Unsigneds(w) /\ BitsSet(w, Number(1, w, d)) = {i \in 0 .. w - 1 : d[i] = 1}
    BY <2>1, DigitBits
  <2>4. {i \in 0 .. w - 1 : d[i] = 1} = BitsSet(w, a) \cup BitsSet(w, b)
    BY <2>1 DEF BitsSet
  <2> QED BY <2>2, <2>3, <2>4
<1>3. /\ Xor(w, a, b) \in Unsigneds(w)
      /\ BitsSet(w, Xor(w, a, b)) = (BitsSet(w, a) \cup BitsSet(w, b)) \ (BitsSet(w, a) \cap BitsSet(w, b))
  <2> DEFINE d == [i \in 0 .. w - 1 |-> (Bit(a, i) + Bit(b, i)) % 2]
  <2>1. \A i \in 0 .. w - 1 : d[i] \in {0, 1} /\ (d[i] = 1 <=> Bit(a, i) # Bit(b, i))
    BY <1>0
  <2>2. Xor(w, a, b) = Number(1, w, d)
    BY DEF Xor
  <2> HIDE DEF d
  <2>3. Number(1, w, d) \in Unsigneds(w) /\ BitsSet(w, Number(1, w, d)) = {i \in 0 .. w - 1 : d[i] = 1}
    BY <2>1, DigitBits
  <2>4. {i \in 0 .. w - 1 : d[i] = 1} = (BitsSet(w, a) \cup BitsSet(w, b)) \ (BitsSet(w, a) \cap BitsSet(w, b))
    BY <1>0, <2>1 DEF BitsSet
  <2> QED BY <2>2, <2>3, <2>4
<1> QED BY <1>1, <1>2, <1>3 DEF Meets, Joins, Differs

LEMMA BitwiseExact ==
  ASSUME NEW w \in Nat \ {0}, NEW a \in Int, NEW b \in Int
  PROVE  /\ And(w, a, b) \in Unsigneds(w) /\ Or(w, a, b) \in Unsigneds(w) /\ Xor(w, a, b) \in Unsigneds(w)
         /\ BitsSet(w, And(w, a, b)) = BitsSet(w, a) \cap BitsSet(w, b)
         /\ BitsSet(w, Or(w, a, b)) = BitsSet(w, a) \cup BitsSet(w, b)
         /\ BitsSet(w, Xor(w, a, b)) = (BitsSet(w, a) \cup BitsSet(w, b)) \ (BitsSet(w, a) \cap BitsSet(w, b))
<1> DEFINE p == And(w, a, b)
           q == Or(w, a, b)
           r == Xor(w, a, b)
<1>1. /\ p \in Unsigneds(w) /\ Meets(w, p, a, b)
      /\ q \in Unsigneds(w) /\ Joins(w, q, a, b)
      /\ r \in Unsigneds(w) /\ Differs(w, r, a, b)
  BY ONLY BitwiseIs, w \in Nat \ {0}, a \in Int, b \in Int
<1> HIDE DEF p, q, r
<1> QED BY <1>1 DEF Meets, Joins, Differs, p, q, r

\* A set of places is known by what is at each of them.
LEMMA PlacesSame ==
  ASSUME NEW w \in Nat, NEW x \in Int, NEW T, T \subseteq 0 .. w - 1,
         \A i \in 0 .. w - 1 : (i \in T) <=> (Bit(x, i) = 1)
  PROVE  BitsSet(w, x) = T
BY DEF BitsSet

\* The places of a set moved by k, up or down.
MovedSet(T, w, k) == {i + k : i \in T} \cap 0 .. w - 1
LEMMA InMoved ==
  ASSUME NEW w \in Nat, NEW T, T \subseteq Int, NEW k \in Int, NEW i \in 0 .. w - 1
  PROVE  i \in MovedSet(T, w, k) <=> i - k \in T
<1>1. \A j \in T : j + k = i => j = i - k
  OBVIOUS
<1>2. (i - k) + k = i
  OBVIOUS
<1> QED BY <1>1, <1>2 DEF MovedSet

LEMMA ShlExact ==
  ASSUME NEW w \in Nat \ {0}, NEW a \in Unsigneds(w), NEW k \in 0 .. w - 1
  PROVE  /\ Shl(w, a, k) \in Unsigneds(w)
         /\ BitsSet(w, Shl(w, a, k)) = MovedSet(BitsSet(w, a), w, k)
<1> DEFINE n == w - k
           l == a % 2^n
           r == l * 2^k
<1>1. n \in Nat \ {0} /\ a \in Int /\ k \in Nat /\ w \in Nat /\ k <= w
  BY DEF Unsigneds
<1>2. Shl(w, a, k) = r
  BY DEF Shl
<1>3. l \in 0 .. 2^n - 1 /\ \A i \in Nat : Bit(l, i) = IF i < n THEN Bit(a, i) ELSE 0
  BY <1>1, BitCut
<1>4. 2^w = 2^k * 2^n /\ 2^k \in Nat \ {0} /\ 2^n \in Nat \ {0}
  BY <1>1, PowOrder, Pow
<1>5. r \in 0 .. 2^w - 1
  <2> DEFINE p == 2^k
             q == 2^n
  <2>1. l \in 0 .. q - 1 /\ p \in Nat \ {0} /\ q \in Nat \ {0} /\ 2^w = p * q /\ r = l * p
    BY <1>3, <1>4
  <2> HIDE DEF l, p, q, r
  <2>2. l * p >= 0 /\ l * p <= p * q - p
    <3>1. (q - 1 - l) * p >= 0
      <4>1. q - 1 - l \in Nat
        BY <2>1
      <4> QED BY <4>1, <2>1
    <3>2. (q - 1 - l) * p = p * q - p - l * p
      BY <2>1
    <3>3. l * p >= 0 /\ l * p \in Int /\ p * q \in Int
      BY <2>1
    <3> QED BY <2>1, <3>1, <3>2, <3>3
  <2>3. r \in Int /\ p * q \in Int
    BY <2>1
  <2> QED BY <2>1, <2>2, <2>3
<1> DEFINE T == BitsSet(w, a)
<1>6. ASSUME NEW i \in 0 .. w - 1 PROVE (i \in MovedSet(T, w, k)) <=> (Bit(r, i) = 1)
  <2>1. Bit(r, i) = IF i < k THEN 0 ELSE Bit(l, i - k)
    BY <1>1, <1>3, BitUp
  <2>2. i \in MovedSet(T, w, k) <=> i - k \in T
    <3>1. T \subseteq Int
      BY DEF BitsSet
    <3>2. w \in Nat /\ k \in Int
      BY <1>1
    <3> HIDE DEF T
    <3> QED BY ONLY <3>1, <3>2, i \in 0 .. w - 1, InMoved
  <2>3. i - k \in T <=> i - k >= 0 /\ Bit(a, i - k) = 1
    BY <1>1 DEF BitsSet
  <2>4. i - k >= 0 => i - k \in Nat /\ i - k < n
    BY <1>1
  <2> HIDE DEF l, r, T
  <2> QED BY <1>1, <1>3, <2>1, <2>2, <2>3, <2>4
<1>7. MovedSet(T, w, k) \subseteq 0 .. w - 1 /\ r \in Int
  BY <1>5 DEF MovedSet
<1> HIDE DEF T, r
<1>8. BitsSet(w, r) = MovedSet(T, w, k)
  BY <1>1, <1>6, <1>7, PlacesSame
<1> QED BY <1>2, <1>5, <1>8 DEF T, Unsigneds

LEMMA ShrUExact ==
  ASSUME NEW w \in Nat \ {0}, NEW a \in Unsigneds(w), NEW k \in 0 .. w - 1
  PROVE  /\ ShrU(w, a, k) \in Unsigneds(w)
         /\ BitsSet(w, ShrU(w, a, k)) = MovedSet(BitsSet(w, a), w, -k)
<1> DEFINE r == a \div 2^k
           T == BitsSet(w, a)
<1>1. a \in Int /\ k \in Nat /\ w \in Nat /\ a \in 0 .. 2^w - 1 /\ 2^k \in Nat \ {0} /\ 2^w \in Nat \ {0} /\ -k \in Int
  BY Pow DEF Unsigneds
<1>2. ShrU(w, a, k) = r
  BY DEF ShrU
<1>3. r \in Int /\ \A i \in Nat : Bit(r, i) = Bit(a, i + k)
  BY <1>1, BitDown
<1>4. r \in 0 .. 2^w - 1
  <2> DEFINE p == 2^k
  <2>1. a = p * r + (a % p) /\ a % p \in 0 .. p - 1 /\ p \in Nat \ {0} /\ r \in Int
    BY <1>1, <1>3, DivMod
  <2> HIDE DEF p, r
  <2>2. r >= 0
    <3>1. r <= -1 => p * r <= -p
      BY <2>1
    <3> QED BY <1>1, <2>1, <3>1
  <2>3. r <= p * r
    BY <2>1, <2>2
  <2>4. p * r \in Int
    BY <2>1
  <2> QED BY <1>1, <2>1, <2>2, <2>3, <2>4
<1>5. ASSUME NEW i \in 0 .. w - 1 PROVE (i \in MovedSet(T, w, -k)) <=> (Bit(r, i) = 1)
  <2>1. i \in MovedSet(T, w, -k) <=> i - (-k) \in T
    <3>1. T \subseteq Int
      BY DEF BitsSet
    <3> DEFINE m == -k
    <3>2. m \in Int
      BY <1>1
    <3> HIDE DEF T, m
    <3>3. i \in MovedSet(T, w, m) <=> i - m \in T
      BY <1>1, <3>1, <3>2, InMoved
    <3> QED BY <3>3 DEF m
  <2>2. i + k \in Nat /\ i - (-k) = i + k /\ i \in Nat
    BY <1>1
  <2>3. i + k \in T <=> i + k < w /\ Bit(a, i + k) = 1
    BY <1>1, <2>2 DEF BitsSet
  <2>4. ~ (i + k < w) => Bit(a, i + k) = 0
    BY <1>1, <2>2, BitAbove
  <2> HIDE DEF r, T
  <2> QED BY <1>3, <2>1, <2>2, <2>3, <2>4
<1>6. MovedSet(T, w, -k) \subseteq 0 .. w - 1
  BY DEF MovedSet
<1> HIDE DEF T, r
<1>7. BitsSet(w, r) = MovedSet(T, w, -k)
  BY <1>1, <1>3, <1>5, <1>6, PlacesSame
<1> QED BY <1>2, <1>4, <1>7 DEF T, Unsigneds

LEMMA SignedBits ==
  ASSUME NEW w \in Nat \ {0}, NEW a \in Unsigneds(w), NEW i \in Nat
  PROVE  S(w, a) \in Int /\ Bit(S(w, a), i) = IF i < w THEN Bit(a, i) ELSE IF S(w, a) < 0 THEN 1 ELSE 0
<1> DEFINE s == S(w, a)
<1>1. s \in Signeds(w) /\ s \in Int /\ a \in Int
  BY SignedFacts DEF Signeds, Unsigneds
<1>2. PICK q \in Int : s = a + 2^w * q
  BY SignedFacts
<1>3. 2^w = 2 * 2^(w - 1) /\ 2^(w - 1) \in Nat \ {0}
  BY Halves
<1>4. s \in -(2^w) .. 2^w - 1
  BY <1>1, <1>3 DEF Signeds
<1> HIDE DEF s
<1>5. CASE i < w
  <2>1. Bit(a + 2^w * q, i) = Bit(a, i)
    BY <1>1, <1>5, BitBelow, ZenonT(60)
  <2> QED BY <1>1, <1>2, <1>5, <2>1 DEF s
<1>6. CASE ~ (i < w) /\ s < 0
  <2>1. s \in -(2^w) .. -1 /\ w <= i /\ w \in Nat
    BY <1>1, <1>4, <1>6
  <2>2. Bit(s, i) = 1
    BY <2>1, BitAbove
  <2> QED BY <1>1, <1>6, <2>2 DEF s
<1>7. CASE ~ (i < w) /\ ~ (s < 0)
  <2>1. s \in 0 .. 2^w - 1 /\ w <= i /\ w \in Nat
    BY <1>1, <1>4, <1>7
  <2>2. Bit(s, i) = 0
    BY <2>1, BitAbove
  <2> QED BY <1>1, <1>7, <2>2 DEF s
<1> QED BY <1>5, <1>6, <1>7

LEMMA ShrSExact ==
  ASSUME NEW w \in Nat \ {0}, NEW a \in Unsigneds(w), NEW k \in 0 .. w - 1
  PROVE  /\ ShrS(w, a, k) \in Unsigneds(w)
         /\ BitsSet(w, ShrS(w, a, k)) =
              MovedSet(BitsSet(w, a), w, -k) \cup (IF S(w, a) < 0 THEN w - k .. w - 1 ELSE {})
<1> DEFINE s == S(w, a)
           v == s \div 2^k
           r == v % 2^w
           T == BitsSet(w, a)
           signs == IF s < 0 THEN w - k .. w - 1 ELSE {}
           Q == MovedSet(T, w, -k) \cup signs
<1>1. k \in Nat /\ w \in Nat /\ s \in Int
  BY SignedBits
<1>2. ShrS(w, a, k) = r
  BY DEF ShrS, U
<1>3. v \in Int /\ \A i \in Nat : Bit(v, i) = Bit(s, i + k)
  <2> HIDE DEF s
  <2> QED BY <1>1, BitDown
<1>4. r \in 0 .. 2^w - 1 /\ \A i \in 0 .. w - 1 : Bit(r, i) = Bit(v, i)
  <2> HIDE DEF v
  <2> QED BY <1>1, <1>3, BitCut
<1>5. ASSUME NEW i \in 0 .. w - 1 PROVE (i \in Q) <=> (Bit(r, i) = 1)
  <2>1. i \in MovedSet(T, w, -k) <=> i - (-k) \in T
    <3>1. T \subseteq Int
      BY DEF BitsSet
    <3> DEFINE m == -k
    <3>2. m \in Int
      BY <1>1
    <3> HIDE DEF T, m
    <3>3. i \in MovedSet(T, w, m) <=> i - m \in T
      BY <1>1, <3>1, <3>2, InMoved
    <3> QED BY <3>3 DEF m
  <2>2. i + k \in Nat /\ i - (-k) = i + k /\ i \in Nat
    BY <1>1
  <2>3. i + k \in T <=> i + k < w /\ Bit(a, i + k) = 1
    BY <1>1, <2>2 DEF BitsSet
  <2>4. Bit(s, i + k) = IF i + k < w THEN Bit(a, i + k) ELSE IF s < 0 THEN 1 ELSE 0
    BY <2>2, SignedBits
  <2>5. i \in signs <=> s < 0 /\ ~ (i + k < w)
    BY <1>1
  <2>6. Bit(r, i) = Bit(s, i + k)
    BY <1>3, <1>4, <2>2
  <2>8. i \in Q <=> i + k \in T \/ i \in signs
    BY <2>1, <2>2
  <2> HIDE DEF r, T, signs, Q, s, v
  <2> QED BY <2>3, <2>4, <2>5, <2>6, <2>8
<1>6. Q \subseteq 0 .. w - 1 /\ r \in Int
  BY <1>1, <1>4 DEF MovedSet
<1> HIDE DEF r, Q
<1>7. BitsSet(w, r) = Q
  BY <1>1, <1>5, <1>6, PlacesSame
<1> QED BY <1>2, <1>4, <1>7 DEF Q, Unsigneds

\* The places of a set turned by k.
TurnedSet(T, w, k) == {(i + k) % w : i \in T}
LEMMA InTurned ==
  ASSUME NEW w \in Nat \ {0}, NEW T, T \subseteq 0 .. w - 1, NEW k \in Int, NEW n, n = k % w, NEW i \in 0 .. w - 1
  PROVE  /\ n \in 0 .. w - 1 /\ TurnedSet(T, w, k) \subseteq 0 .. w - 1
         /\ i \in TurnedSet(T, w, k) <=> IF i < n THEN i + w - n \in T ELSE i - n \in T
<1> DEFINE q == k \div w
<1>1. n \in 0 .. w - 1 /\ q \in Int /\ k = w * q + n
  BY DivMod
<1> HIDE DEF q
<1>2. ASSUME NEW j \in 0 .. w - 1 PROVE (j + k) % w = IF j + n < w THEN j + n ELSE j + n - w
  <2>1. CASE j + n < w
    <3>1. j + k = w * q + (j + n) /\ j + n \in 0 .. w - 1 /\ j + k \in Int
      BY <1>1, <2>1
    <3> DEFINE x == j + k
               c == j + n
               u == q
    <3>2. x = w * u + c /\ c \in 0 .. w - 1 /\ x \in Int /\ u \in Int
      BY <1>1, <3>1
    <3> HIDE DEF x, c, u
    <3>3. x % w = c
      BY <3>2, DivUnique
    <3> QED BY <2>1, <3>3 DEF x, c
  <2>2. CASE ~ (j + n < w)
    <3>1. j + k = w * (q + 1) + (j + n - w) /\ j + n - w \in 0 .. w - 1 /\ j + k \in Int /\ q + 1 \in Int
      BY <1>1, <2>2
    <3> DEFINE x == j + k
               c == j + n - w
               u == (q + 1)
    <3>2. x = w * u + c /\ c \in 0 .. w - 1 /\ x \in Int /\ u \in Int
      BY <1>1, <3>1
    <3> HIDE DEF x, c, u
    <3>3. x % w = c
      BY <3>2, DivUnique
    <3> QED BY <2>2, <3>3 DEF x, c
  <2> QED BY <2>1, <2>2
<1>3. TurnedSet(T, w, k) \subseteq 0 .. w - 1
  BY <1>1, <1>2 DEF TurnedSet
<1>4. i \in TurnedSet(T, w, k) <=> IF i < n THEN i + w - n \in T ELSE i - n \in T
  <2> DEFINE j0 == IF i < n THEN i + w - n ELSE i - n
  <2>1. j0 \in 0 .. w - 1 /\ (j0 + k) % w = i
    <3>1. j0 \in 0 .. w - 1 /\ (IF j0 + n < w THEN j0 + n ELSE j0 + n - w) = i
      BY <1>1
    <3> HIDE DEF j0
    <3> QED BY <1>2, <3>1
  <2>2. \A j \in 0 .. w - 1 : (j + k) % w = i => j = j0
    BY <1>1, <1>2
  <2>3. i \in TurnedSet(T, w, k) <=> j0 \in T
    <3> HIDE DEF j0
    <3> QED BY <2>1, <2>2 DEF TurnedSet
  <2> QED BY <2>3
<1> QED BY <1>1, <1>3, <1>4

LEMMA RotateExact ==
  ASSUME NEW w \in Nat \ {0}, NEW a \in Unsigneds(w), NEW k \in Int
  PROVE  /\ RotateLeft(w, a, k) \in Unsigneds(w)
         /\ BitsSet(w, RotateLeft(w, a, k)) = TurnedSet(BitsSet(w, a), w, k)
<1> DEFINE n == k % w
           m == w - n
           h == a % 2^m
           l == a \div 2^m
           T == BitsSet(w, a)
<1>1. n \in 0 .. w - 1 /\ n \in Nat /\ m \in Nat \ {0} /\ m <= w /\ n <= w /\ w \in Nat /\ a \in 0 .. 2^w - 1 /\ a \in Int
  BY DivMod DEF Unsigneds
<1> DEFINE r == h * 2^n + l
<1>2. RotateLeft(w, a, k) = r
  <2>1. Shl(w, a, n) = h * 2^n
    BY <1>1 DEF Shl
  <2> QED BY <2>1 DEF RotateLeft
<1> HIDE DEF n, m
<1>3. 2^w = 2^m * 2^n /\ 2^m \in Nat \ {0} /\ 2^n \in Nat \ {0}
  <2>1. w - m = n
    BY <1>1 DEF m
  <2>2. 2^w = 2^m * 2^(w - m)
    BY <1>1, PowOrder
  <2> QED BY <1>1, <2>1, <2>2, Pow
<1>4. h \in 0 .. 2^m - 1 /\ \A i \in Nat : Bit(h, i) = IF i < m THEN Bit(a, i) ELSE 0
  BY <1>1, BitCut
<1>5. l \in Int /\ \A i \in Nat : Bit(l, i) = Bit(a, i + m)
  BY <1>1, BitDown
<1>6. l \in 0 .. 2^n - 1
  <2> DEFINE p == 2^m
             q == 2^n
  <2>1. a = p * l + h /\ h \in 0 .. p - 1 /\ p \in Nat \ {0} /\ q \in Nat \ {0} /\ l \in Int /\ a \in 0 .. p * q - 1
    BY <1>1, <1>3, <1>4, <1>5, DivMod
  <2> HIDE DEF p, q, l, h
  <2>2. l >= 0
    <3>1. l <= -1 => p * l <= -p
      BY <2>1
    <3> QED BY <2>1, <3>1
  <2>3. l < q
    <3>1. l >= q => p * l >= p * q
      <4>1. ASSUME l >= q PROVE p * l >= p * q
        <5>1. p * (l - q) >= 0
          BY <2>1, <4>1
        <5>2. p * (l - q) = p * l - p * q /\ p * l \in Int /\ p * q \in Int
          BY <2>1
        <5> QED BY <5>1, <5>2
      <4> QED BY <4>1
    <3>2. p * l \in Int /\ p * q \in Int
      BY <2>1
    <3> QED BY <2>1, <3>1, <3>2
  <2> QED BY <2>1, <2>2, <2>3 DEF q
<1>7. r \in 0 .. 2^w - 1
  <2> DEFINE p == 2^m
             q == 2^n
  <2>1. h \in 0 .. p - 1 /\ l \in 0 .. q - 1 /\ p \in Nat \ {0} /\ q \in Nat \ {0} /\ r = h * q + l /\ 2^w = p * q
    BY <1>3, <1>4, <1>6
  <2> HIDE DEF p, q, l, h, r
  <2>2. h * q >= 0 /\ h * q <= p * q - q
    <3>1. (p - 1 - h) * q >= 0
      <4>1. p - 1 - h \in Nat
        BY <2>1
      <4> QED BY <4>1, <2>1
    <3>2. (p - 1 - h) * q = p * q - q - h * q
      BY <2>1
    <3>3. h * q >= 0 /\ h * q \in Int /\ p * q \in Int
      BY <2>1
    <3> QED BY <2>1, <3>1, <3>2, <3>3
  <2>3. h * q \in Int /\ p * q \in Int
    BY <2>1
  <2> QED BY <2>1, <2>2, <2>3
<1> HIDE DEF h, l
<1>8. ASSUME NEW i \in 0 .. w - 1 PROVE Bit(r, i) = IF i < n THEN Bit(a, i + w - n) ELSE Bit(a, i - n)
  <2>1. Bit(r, i) = IF i < n THEN Bit(l, i) ELSE Bit(h, i - n)
    <3>1. i \in Nat /\ h \in Int
      BY <1>1, <1>4
    <3> QED BY <1>1, <1>6, <3>1, BitSum
  <2>2. i + m = i + w - n /\ i \in Nat
    BY <1>1 DEF m
  <2>3. ~ (i < n) => i - n \in Nat /\ i - n < m
    BY <1>1 DEF m
  <2> QED BY <1>4, <1>5, <2>1, <2>2, <2>3
<1>9. T \subseteq 0 .. w - 1 /\ n = k % w
  BY DEF BitsSet, n
<1>10. ASSUME NEW i \in 0 .. w - 1 PROVE (i \in TurnedSet(T, w, k)) <=> (Bit(r, i) = 1)
  <2>1. i \in TurnedSet(T, w, k) <=> IF i < n THEN i + w - n \in T ELSE i - n \in T
    <3> HIDE DEF T
    <3> QED BY <1>9, InTurned
  <2>2. IF i < n THEN i + w - n \in 0 .. w - 1 ELSE i - n \in 0 .. w - 1
    BY <1>1
  <2> HIDE DEF r
  <2>3. \A j \in 0 .. w - 1 : j \in T <=> Bit(a, j) = 1
    BY DEF BitsSet
  <2> QED BY <1>8, <2>1, <2>2, <2>3
<1>11. TurnedSet(T, w, k) \subseteq 0 .. w - 1 /\ r \in Int
  <2>1. PICK i : i \in 0 .. w - 1
    BY <1>1
  <2> HIDE DEF T, r
  <2>2. TurnedSet(T, w, k) \subseteq 0 .. w - 1
    BY ONLY w \in Nat \ {0}, k \in Int, <1>9, <2>1, InTurned
  <2> QED BY <1>7, <2>2
<1> HIDE DEF T, r
<1>12. BitsSet(w, r) = TurnedSet(T, w, k)
  BY <1>1, <1>10, <1>11, PlacesSame
<1> QED BY <1>2, <1>7, <1>12 DEF T, Unsigneds

-----------------------------------------------------------------------------
(* Sums and quotients *)

\* A result cut to w bits is the integer's up to a multiple of 2^w.
LEMMA CutExact ==
  ASSUME NEW w \in Nat, NEW v \in Int
  PROVE  U(w, v) \in Unsigneds(w) /\ (U(w, v) - v) % 2^w = 0
<1> DEFINE p == 2^w
           r == v % p
           q == v \div p
<1>1. p \in Nat \ {0}
  BY Pow
<1>2. v = p * q + r /\ r \in 0 .. p - 1 /\ q \in Int
  BY <1>1, DivMod
<1> HIDE DEF r, q, p
<1> DEFINE c == 0
           u == -q
           d == r - v
<1>3. d = p * u + c /\ c \in 0 .. p - 1 /\ d \in Int /\ u \in Int
  BY <1>1, <1>2
<1> HIDE DEF c, u, d
<1>4. d % p = c
  BY <1>1, <1>3, DivUnique
<1>5. (r - v) % p = 0
  BY <1>4 DEF c, d
<1> QED BY <1>2, <1>5 DEF r, p, U, Unsigneds

\* The quotient and the remainder have the signs that are theirs.
Divided(a, b, q, r) ==
  /\ q \in Int /\ r \in Int /\ Quot(a, b) = q /\ Rem(a, b) = r /\ a = b * q + r
  /\ Abs(r) < Abs(b) /\ (r = 0 \/ (a < 0) = (r < 0))
  /\ \E m, n, c \in Nat : \E d \in 0 .. n - 1 :
       /\ n # 0 /\ m = (IF a < 0 THEN -a ELSE a) /\ n = (IF b < 0 THEN -b ELSE b)
       /\ m = n * c + d /\ q = (IF (a < 0) = (b < 0) THEN c ELSE -c) /\ r = (IF a < 0 THEN -d ELSE d)
LEMMA QuotExact ==
  ASSUME NEW a \in Int, NEW b \in Int \ {0}
  PROVE  Divided(a, b, Quot(a, b), Rem(a, b))
<1> DEFINE m == Abs(a)
           n == Abs(b)
           c == m \div n
           d == m % n
           q == IF (a < 0) = (b < 0) THEN c ELSE -c
           r == IF a < 0 THEN -d ELSE d
<1>1. m \in Nat /\ n \in Nat \ {0} /\ m = (IF a < 0 THEN -a ELSE a) /\ n = (IF b < 0 THEN -b ELSE b)
  BY DEF Abs
<1>2. m = n * c + d /\ d \in 0 .. n - 1 /\ c \in Int
  <2>1. m \in Int /\ n \in Nat \ {0}
    BY <1>1
  <2> HIDE DEF m, n
  <2> QED BY ONLY <2>1, DivMod
<1>3. Quot(a, b) = q /\ Rem(a, b) = a - b * q
  BY DEF Quot, Rem
<1> HIDE DEF m, n, c, d
<1>4. c \in Nat
  <2>1. c <= -1 => n * c <= -n
    BY <1>1, <1>2
  <2> QED BY <1>1, <1>2, <2>1
<1>5. q \in Int /\ r \in Int
  BY <1>2
<1>6. a = b * q + r
  <2>1. n * c \in Int
    BY <1>1, <1>2
  <2>2. CASE a < 0 /\ b < 0
    <3>1. b * q = -(n * c)
      BY <1>1, <1>2, <2>2
    <3> QED BY <1>1, <1>2, <2>1, <2>2, <3>1
  <2>3. CASE a < 0 /\ ~ (b < 0)
    <3>1. b * q = -(n * c)
      BY <1>1, <1>2, <2>3
    <3> QED BY <1>1, <1>2, <2>1, <2>3, <3>1
  <2>4. CASE ~ (a < 0) /\ b < 0
    <3>1. b * q = n * c
      BY <1>1, <1>2, <2>4
    <3> QED BY <1>1, <1>2, <2>1, <2>4, <3>1
  <2>5. CASE ~ (a < 0) /\ ~ (b < 0)
    BY <1>1, <1>2, <2>1, <2>5
  <2> QED BY <2>2, <2>3, <2>4, <2>5
<1>7. Rem(a, b) = r
  <2>1. b * q \in Int
    BY <1>5
  <2> HIDE DEF q, r
  <2> QED BY <1>3, <1>5, <1>6, <2>1
<1>8. Abs(r) < Abs(b) /\ (r = 0 \/ (a < 0) = (r < 0))
  <2>1. Abs(r) = d
    BY <1>2 DEF Abs
  <2> QED BY <1>1, <1>2, <2>1 DEF n
<1> HIDE DEF q, r
<1>9. Divided(a, b, q, r)
  <2>1. q = (IF (a < 0) = (b < 0) THEN c ELSE -c) /\ r = (IF a < 0 THEN -d ELSE d) /\ n # 0 /\ n \in Nat
    BY <1>1 DEF q, r
  <2>2. Quot(a, b) = q
    BY <1>3
  <2> QED BY <1>1, <1>2, <1>4, <1>5, <1>6, <1>7, <1>8, <2>1, <2>2 DEF Divided
<1> QED BY <1>3, <1>7, <1>9

LEMMA SignedQuotient ==
  ASSUME NEW w \in Nat \ {0}, NEW a \in Signeds(w), NEW b \in Signeds(w), b # 0
  PROVE  /\ Rem(a, b) \in Signeds(w) /\ Quot(a, b) \in Int
         /\ ~ (a = -(2^(w - 1)) /\ b = -1) => Quot(a, b) \in Signeds(w)
<1> DEFINE h == 2^(w - 1)
<1>1. h \in Nat \ {0} /\ a \in -h .. h - 1 /\ b \in -h .. h - 1 /\ a \in Int /\ b \in Int \ {0}
  BY Halves DEF Signeds
<1> DEFINE q == Quot(a, b)
           r == Rem(a, b)
<1>2. Divided(a, b, q, r)
  BY <1>1, QuotExact
<1> HIDE DEF q, r
<1>3. PICK m \in Nat, n \in Nat \ {0}, c \in Nat : \E d \in 0 .. n - 1 :
        /\ m = (IF a < 0 THEN -a ELSE a) /\ n = (IF b < 0 THEN -b ELSE b)
        /\ m = n * c + d /\ q = (IF (a < 0) = (b < 0) THEN c ELSE -c) /\ r = (IF a < 0 THEN -d ELSE d)
  BY <1>2 DEF Divided
<1>4. PICK d \in 0 .. n - 1 :
        /\ m = (IF a < 0 THEN -a ELSE a) /\ n = (IF b < 0 THEN -b ELSE b)
        /\ m = n * c + d /\ q = (IF (a < 0) = (b < 0) THEN c ELSE -c) /\ r = (IF a < 0 THEN -d ELSE d)
  BY <1>3
<1> HIDE DEF h
<1>5. r \in -h .. h - 1
  BY <1>1, <1>4
<1>6. n * c \in Int /\ c <= n * c /\ (n >= 2 /\ c >= 1 => c < n * c)
  <2>1. n * c \in Int
    OBVIOUS
  <2>2. (n - 1) * c >= 0 /\ (n - 1) * c = n * c - c
    OBVIOUS
  <2>3. n >= 2 /\ c >= 1 => n * c >= 2 * c
    <3>1. ASSUME n >= 2 PROVE (n - 2) * c >= 0 /\ (n - 2) * c = n * c - 2 * c
      BY <3>1
    <3> QED BY <2>1, <3>1
  <2> QED BY <2>1, <2>2, <2>3
<1>7. c <= m /\ m <= h
  BY <1>1, <1>4, <1>6
<1>8. ASSUME ~ (a = -h /\ b = -1) PROVE q \in -h .. h - 1
  <2>1. CASE c = h
    <3>1. m = h /\ n = 1
      BY <1>1, <1>4, <1>6, <1>7, <2>1
    <3>2. a = -h /\ b # -1
      BY <1>1, <1>4, <1>8, <3>1
    <3>3. ~ (b < 0)
      BY <1>1, <1>4, <3>1, <3>2
    <3> QED BY <1>1, <1>4, <2>1, <3>2, <3>3
  <2>2. CASE c # h
    BY <1>1, <1>4, <1>7, <2>2
  <2> QED BY <2>1, <2>2
<1>9. q \in Int
  BY <1>2 DEF Divided
<1> QED BY <1>5, <1>8, <1>9 DEF h, Signeds, q, r

LEMMA QuotientFacts ==
  ASSUME NEW a \in Int, NEW b \in Int \ {0}, NEW q, q = Quot(a, b)
  PROVE  q \in Int /\ Abs(a - q * b) < Abs(b) /\ (a = q * b \/ (a < 0) = (a - q * b < 0))
<1> DEFINE r == Rem(a, b)
<1>1. q \in Int /\ r \in Int /\ a = b * q + r /\ Abs(r) < Abs(b) /\ (r = 0 \/ (a < 0) = (r < 0))
  BY QuotExact DEF Divided
<1> HIDE DEF r
<1>2. q \in Int /\ a - q * b = r /\ q * b \in Int
  BY <1>1
<1> QED BY <1>1, <1>2

LEMMA RemainderFacts ==
  ASSUME NEW a \in Int, NEW b \in Int \ {0}, NEW r, r = Rem(a, b)
  PROVE  r \in Int /\ Abs(r) < Abs(b) /\ (a - r) % Abs(b) = 0 /\ (r = 0 \/ (a < 0) = (r < 0))
<1> DEFINE c == Quot(a, b)
<1>1. c \in Int /\ r \in Int /\ a = b * c + r /\ Abs(r) < Abs(b) /\ (r = 0 \/ (a < 0) = (r < 0))
  BY QuotExact DEF Divided
<1> HIDE DEF c
<1>3. (a - r) % Abs(b) = 0
  <2> DEFINE n == Abs(b)
             d == a - r
             u == IF b < 0 THEN -c ELSE c
             z == 0
  <2>1. n \in Nat \ {0} /\ n = IF b < 0 THEN -b ELSE b
    BY DEF Abs
  <2>2. d = b * c /\ d \in Int /\ b * c \in Int
    BY <1>1
  <2>3. n * u = b * c
    BY <1>1, <2>1
  <2>4. d = n * u + z /\ z \in 0 .. n - 1 /\ u \in Int
    BY <1>1, <2>1, <2>2, <2>3
  <2> HIDE DEF n, d, u, z
  <2>5. d % n = z
    <3>1. n \in Nat \ {0} /\ u \in Int /\ z \in 0 .. n - 1 /\ d \in Int /\ d = n * u + z
      BY <2>1, <2>2, <2>4 DEF d
    <3> QED BY ONLY <3>1, DivUnique
  <2> QED BY <2>5 DEF n, d, z
<1> QED BY <1>1, <1>3

\* Unsigned numbers divide as they do in the integers.
LEMMA UnsignedQuotient ==
  ASSUME NEW a \in Nat, NEW b \in Nat \ {0}
  PROVE  /\ a \div b \in 0 .. a /\ a % b \in 0 .. b - 1
         /\ Abs(a - (a \div b) * b) < Abs(b) /\ (a = (a \div b) * b \/ (a < 0) = (a - (a \div b) * b < 0))
         /\ Abs(a % b) < Abs(b) /\ (a - (a % b)) % Abs(b) = 0 /\ (a % b = 0 \/ (a < 0) = (a % b < 0))
<1>1. Abs(a) = a /\ Abs(b) = b /\ ~ (a < 0) /\ ~ (b < 0) /\ a \in Int /\ b \in Int \ {0}
  BY DEF Abs
<1> DEFINE q == a \div b
           r == a % b
<1>2. Quot(a, b) = q
  BY <1>1 DEF Quot
<1>3. a = b * q + r /\ r \in 0 .. b - 1 /\ q \in Int
  BY DivMod
<1> HIDE DEF q, r
<1>4. Rem(a, b) = r
  <2>1. b * q \in Int
    BY <1>3
  <2> QED BY <1>2, <1>3, <2>1 DEF Rem
<1>5. q \in 0 .. a
  <2>1. q <= -1 => b * q <= -b
    BY <1>3
  <2>2. q >= 0 => q <= b * q
    BY <1>3
  <2>3. b * q \in Int
    BY <1>3
  <2> QED BY <1>3, <2>1, <2>2, <2>3
<1>6. Abs(a - q * b) < Abs(b) /\ (a = q * b \/ (a < 0) = (a - q * b < 0))
  BY <1>1, <1>2, QuotientFacts
<1>7. Abs(r) < Abs(b) /\ (a - r) % Abs(b) = 0 /\ (r = 0 \/ (a < 0) = (r < 0))
  BY <1>1, <1>4, RemainderFacts
<1> QED BY <1>3, <1>5, <1>6, <1>7 DEF q, r

-----------------------------------------------------------------------------
(* Zeros before the first and after the last bit set *)

LEMMA SmallestOf ==
  ASSUME NEW T, T \subseteq Nat, T # {}
  PROVE  \E x \in T : \A y \in T : x <= y
<1> DEFINE R == {ss \in Nat \X Nat : ss[1] < ss[2]}
<1>1. PICK x \in T : \A y \in T : ~ (<<y, x>> \in R)
  <2>1. IsWellFoundedOn(R, Nat)
    BY NatLessThanWellFounded, Zenon DEF OpToRel
  <2> HIDE DEF R
  <2> QED BY <2>1, WFMin
<1>2. ASSUME NEW y \in T PROVE x <= y
  <2> DEFINE ss == <<y, x>>
  <2>1. ss \in Nat \X Nat /\ ss[1] = y /\ ss[2] = x
    OBVIOUS
  <2>2. ~ (ss \in R)
    BY <1>1
  <2> HIDE DEF ss
  <2>3. ~ (y < x)
    BY <2>1, <2>2
  <2> QED BY <2>3
<1> QED BY <1>2

LEMMA LeadingExact ==
  ASSUME NEW w \in Nat \ {0}, NEW a \in Unsigneds(w), NEW r, r = LeadingZeros(w, a)
  PROVE  r \in 0 .. w /\ a < 2^(w - r) /\ (r < w => a >= 2^(w - r - 1))
<1> DEFINE T == {m \in 0 .. w : a < 2^m}
<1>1. a \in Nat /\ w \in T /\ T \subseteq Nat
  BY DEF Unsigneds
<1>2. PICK m \in T : \A y \in T : m <= y
  <2> HIDE DEF T
  <2> QED BY <1>1, SmallestOf
<1>3. m \in 0 .. w /\ a < 2^m
  BY <1>2
<1>4. {i \in 0 .. w - 1 : a < 2^i} = m .. w - 1
  <2>1. ASSUME NEW i \in 0 .. w - 1 PROVE (a < 2^i) <=> m <= i
    <3>1. a < 2^i => m <= i
      <4>1. a < 2^i => i \in T
        OBVIOUS
      <4> QED BY <1>2, <4>1
    <3>2. m <= i => a < 2^i
      <4>1. m <= i => 2^m <= 2^i
        BY <1>3, PowOrder
      <4>2. 2^m \in Nat /\ 2^i \in Nat
        BY <1>3, Pow
      <4> QED BY <1>1, <1>3, <4>1, <4>2
    <3> QED BY <3>1, <3>2
  <2>2. m .. w - 1 \subseteq 0 .. w - 1
    BY <1>3
  <2> HIDE DEF T
  <2> QED BY <2>1, <2>2, <1>3
<1>5. Cardinality(m .. w - 1) = w - m
  <2>1. m \in Int /\ w - 1 \in Int
    BY <1>3
  <2>2. Cardinality(m .. w - 1) = IF m > w - 1 THEN 0 ELSE (w - 1) - m + 1
    BY <2>1, FS_Interval
  <2> QED BY <1>3, <2>2
<1>6. r = w - m
  BY <1>4, <1>5 DEF LeadingZeros
<1>7. m > 0 => a >= 2^(m - 1)
  <2>1. ASSUME m > 0 PROVE a >= 2^(m - 1)
    <3>1. m - 1 \in 0 .. w /\ ~ (m <= m - 1)
      BY <1>3, <2>1
    <3>2. ~ (a < 2^(m - 1))
      BY <1>2, <3>1
    <3>3. 2^(m - 1) \in Nat
      BY <3>1, Pow
    <3> QED BY <1>1, <3>2, <3>3
  <2> QED BY <2>1
<1>8. w - r = m /\ w - r - 1 = m - 1 /\ r \in 0 .. w /\ (r < w => m > 0)
  BY <1>3, <1>6
<1> QED BY <1>3, <1>7, <1>8

LEMMA TrailingExact ==
  ASSUME NEW w \in Nat \ {0}, NEW a \in Unsigneds(w), NEW r, r = TrailingZeros(w, a)
  PROVE  r \in 0 .. w /\ a % 2^r = 0 /\ (r < w => a % 2^(r + 1) # 0)
<1> DEFINE Divides(i) == a % 2^i = 0
           T == {m \in 0 .. w : m = w \/ ~ Divides(m + 1)}
<1>1. a \in Int /\ w \in T /\ T \subseteq Nat
  BY DEF Unsigneds
<1>2. PICK m \in T : \A y \in T : m <= y
  <2> HIDE DEF T
  <2> QED BY <1>1, SmallestOf
<1>3. m \in 0 .. w /\ (m < w => ~ Divides(m + 1))
  BY <1>2
<1>4. Divides(0)
  <2>1. 2^0 = 1 /\ a % 1 = 0
    BY <1>1, DivMod
  <2> QED BY <2>1
<1>5. ASSUME NEW i \in 1 .. m PROVE Divides(i)
  <2>1. i - 1 \in 0 .. w /\ ~ (m <= i - 1) /\ (i - 1) + 1 = i /\ i - 1 # w
    BY <1>3
  <2>2. i - 1 \notin T
    BY <1>2, <2>1
  <2>3. Divides((i - 1) + 1)
    BY <2>1, <2>2
  <2> QED BY <2>1, <2>3
<1>6. ASSUME NEW i \in Nat, NEW j \in Nat, j <= i, Divides(i) PROVE Divides(j)
  <2> DEFINE p == 2^j
             q == 2^(i - j)
             c == a \div p
  <2>1. i - j \in Nat
    BY <1>6
  <2>2. 2^i = p * q /\ p \in Nat \ {0} /\ q \in Nat \ {0}
    BY <1>6, <2>1, PowOrder, Pow
  <2>3. a % (p * q) = (a % p) + p * (c % q)
    <3> HIDE DEF p, q
    <3> QED BY <1>1, <2>2, ModSplit DEF c
  <2>4. a % p \in 0 .. p - 1 /\ c \in Int
    <3> HIDE DEF p
    <3> QED BY <1>1, <2>2, DivMod
  <2> DEFINE e == c % q
             l == a % p
  <2>5. e \in 0 .. q - 1 /\ l \in 0 .. p - 1
    <3> HIDE DEF p, q, c
    <3> QED BY <2>2, <2>4, DivMod
  <2>6. l + p * e = 0
    BY <1>6, <2>2, <2>3
  <2> HIDE DEF p, q, c, e, l
  <2>7. p * e >= 0 /\ p * e \in Int
    BY <2>2, <2>5
  <2>8. l = 0
    BY <2>5, <2>6, <2>7
  <2> QED BY <2>8 DEF l, p
<1> HIDE DEF Divides
<1>7. {i \in 1 .. w : Divides(i)} = 1 .. m
  <2>1. ASSUME NEW i \in 1 .. w PROVE Divides(i) <=> i \in 1 .. m
    <3>1. ~ (i <= m) => ~ Divides(i)
      <4>1. ASSUME ~ (i <= m), Divides(i) PROVE FALSE
        <5>1. m + 1 <= i /\ m < w /\ m + 1 \in Nat /\ i \in Nat
          BY <1>3, <4>1
        <5>2. Divides(m + 1)
          BY <1>6, <4>1, <5>1
        <5> QED BY <1>3, <5>1, <5>2
      <4> QED BY <4>1
    <3> QED BY <1>3, <1>5, <3>1
  <2> HIDE DEF T
  <2> QED BY <2>1, <1>3
<1>8. Cardinality(1 .. m) = m
  <2>1. 1 \in Int /\ m \in Int
    BY <1>3
  <2>2. Cardinality(1 .. m) = IF 1 > m THEN 0 ELSE m - 1 + 1
    BY <2>1, FS_Interval
  <2> QED BY <1>3, <2>2
<1>9. r = m
  BY <1>7, <1>8 DEF TrailingZeros, Divides
<1>10. Divides(m)
  BY <1>3, <1>4, <1>5
<1> QED BY <1>3, <1>9, <1>10 DEF Divides

\* A sign extended from n bits.
IsExtension(w, n, a, r) == 0 <= r /\ r < 2^w /\ r \in Int /\ S(w, r) = S(n, a % 2^n)
LEMMA ExtendExact ==
  ASSUME NEW n \in Nat \ {0}, NEW w \in Nat \ {0}, n <= w, NEW a \in Int
  PROVE  IsExtension(w, n, a, SignExtend(n, w, a))
<1> DEFINE r == SignExtend(n, w, a)
<1> DEFINE x == U(n, a)
<1>1. x \in Unsigneds(n) /\ x = a % 2^n
  BY SignedFacts DEF U
<1>2. r = U(w, S(n, x))
  BY DEF SignExtend
<1> HIDE DEF x, r
<1>3. S(n, x) \in Signeds(w) /\ S(n, x) \in Int
  <2>1. S(n, x) \in Signeds(n)
    BY <1>1, SignedFacts
  <2>2. S(n, x) \in Signeds(w)
    BY <2>1, SignedOrder
  <2> QED BY <2>2 DEF Signeds
<1>4. r \in Unsigneds(w) /\ S(w, r) = S(n, x)
  BY <1>2, <1>3, SignedFacts
<1>5. 2^w \in Nat
  BY Pow
<1> QED BY <1>1, <1>4, <1>5 DEF Unsigneds, IsExtension, r

-----------------------------------------------------------------------------
(* The length of a number *)

UnfoldsLen(n, g) == g = [k \in 0 .. n |-> IF k = 0 THEN 0 ELSE g[k \div 2] + 1]

LEMMA HalfBelow ==
  ASSUME NEW k \in Nat \ {0}
  PROVE  k \div 2 \in 0 .. k - 1 /\ 2 * (k \div 2) <= k /\ k <= 2 * (k \div 2) + 1
OBVIOUS

LEMMA EvenHalf ==
  ASSUME NEW u \in Nat, u % 2 = 0
  PROVE  \E h \in Nat : u = 2 * h
OBVIOUS

LEMMA LenUnfolds ==
  ASSUME NEW n \in Nat
  PROVE  \E g : UnfoldsLen(n, g) /\ BitLen(n) = g[n]
<1> DEFINE P == {m \in 0 .. n : \E g : UnfoldsLen(m, g)}
<1>1. 0 \in P
  <2> DEFINE g0 == [k \in 0 .. 0 |-> 0]
  <2>1. UnfoldsLen(0, g0)
    BY DEF UnfoldsLen
  <2> QED BY <2>1
<1>2. ASSUME NEW m \in 0 .. n, m \in P, m < n PROVE m + 1 \in P
  <2>1. PICK g : UnfoldsLen(m, g)
    BY <1>2
  <2> DEFINE g1 == [k \in 0 .. m + 1 |-> IF k = 0 THEN 0 ELSE g[k \div 2] + 1]
  <2>2. \A k \in 0 .. m : g1[k] = g[k]
    BY <2>1 DEF UnfoldsLen
  <2>3. UnfoldsLen(m + 1, g1)
    <3> \A k \in 0 .. m + 1 : k # 0 => k \div 2 \in 0 .. m
      BY HalfBelow
    <3> QED BY <2>2 DEF UnfoldsLen
  <2> HIDE DEF g1
  <2>4. m + 1 \in 0 .. n
    BY <1>2
  <2> QED BY <2>3, <2>4
<1>3. n \in P
  <2> HIDE DEF P
  <2>1. 0 .. n \subseteq P
    BY <1>1, <1>2, Upto
  <2> QED BY <2>1
<1> DEFINE h == CHOOSE g : UnfoldsLen(n, g)
<1>4. UnfoldsLen(n, h)
  BY <1>3
<1>5. BitLen(n) = h[n]
  BY Zenon DEF BitLen, UnfoldsLen
<1> QED BY <1>4, <1>5

IsLen(m, b) == b \in Nat /\ m < 2^b /\ (m > 0 => b > 0 /\ 2^(b - 1) <= m)

\* The length of a number is the exponent of the next power of two.
LEMMA LenExact ==
  ASSUME NEW m \in Nat
  PROVE  IsLen(m, BitLen(m)) /\ (m = 0 => BitLen(m) = 0)
<1>1. PICK g : UnfoldsLen(m, g) /\ BitLen(m) = g[m]
  BY LenUnfolds
<1>2. g[0] = 0 /\ \A k \in 1 .. m : g[k] = g[k \div 2] + 1
  BY <1>1 DEF UnfoldsLen
<1> DEFINE P == {n \in 0 .. m : \A k \in 0 .. n : IsLen(k, g[k])}
<1>3. 0 \in P
  <2>1. IsLen(0, 0)
    BY Pow DEF IsLen
  <2> QED BY <2>1, <1>2
<1>4. ASSUME NEW n \in 0 .. m, n \in P, n < m PROVE n + 1 \in P
  <2> DEFINE h == (n + 1) \div 2
             b == g[h]
  <2>1. h \in 0 .. n /\ 2 * h <= n + 1 /\ n + 1 <= 2 * h + 1
    BY HalfBelow
  <2>2. IsLen(h, b) /\ g[n + 1] = b + 1
    BY <1>2, <1>4, <2>1
  <2> HIDE DEF h, b
  <2>3. b \in Nat /\ h < 2^b /\ 2^b \in Nat \ {0} /\ 2^(b + 1) = 2 * 2^b
    BY <2>2, Pow DEF IsLen
  <2> DEFINE p == 2^b
  <2>4. CASE h = 0
    <3>1. n = 0
      BY <2>1, <2>4
    <3>2. b = 0
      BY <1>2, <2>4 DEF b
    <3>3. IsLen(1, 1)
      <4>1. 2^1 = 2 /\ 2^0 = 1
        OBVIOUS
      <4> QED BY <4>1 DEF IsLen
    <3>4. IsLen(n + 1, b + 1)
      BY <3>1, <3>2, <3>3
    <3> QED BY <1>4, <2>2, <3>4
  <2>5. CASE h # 0
    <3>1. b - 1 \in Nat /\ 2^(b - 1) <= h
      BY <2>1, <2>2, <2>5 DEF IsLen
    <3> DEFINE c == b - 1
    <3>7. c \in Nat /\ c + 1 = b /\ 2^c <= h
      BY <2>3, <3>1
    <3> HIDE DEF c
    <3>2. 2^(c + 1) = 2 * 2^c /\ 2^c \in Nat
      BY <3>7, Pow
    <3>3. 2^b <= n + 1
      BY <2>1, <3>7, <3>2
    <3>4. n + 1 < 2^(b + 1)
      BY <2>1, <2>3
    <3>5. (b + 1) - 1 = b /\ b + 1 \in Nat /\ b + 1 > 0
      BY <2>3
    <3>6. IsLen(n + 1, b + 1)
      BY <3>3, <3>4, <3>5 DEF IsLen
    <3> QED BY <1>4, <2>2, <3>6
  <2> QED BY <2>4, <2>5
<1>5. m \in P
  <2> HIDE DEF P
  <2>1. 0 .. m \subseteq P
    BY <1>3, <1>4, Upto
  <2> QED BY <2>1
<1> QED BY <1>1, <1>2, <1>5

-----------------------------------------------------------------------------
(* Halves *)

\* k is m / 2^s to the nearest, and even when two are.
IsHalfEven(m, p, k) ==
  /\ k \in Nat /\ (2 * k - 1) * p <= 2 * m /\ 2 * m <= (2 * k + 1) * p
  /\ (2 * k - 1) * p = 2 * m \/ 2 * m = (2 * k + 1) * p => k % 2 = 0

LEMMA HalfEvenExact ==
  ASSUME NEW m \in Nat, NEW s \in Nat \ {0}
  PROVE  IsHalfEven(m, 2^s, HalfEven(m, s))
<1> DEFINE p == 2^s
           b == BitLen(m)
<1>1. p \in Nat \ {0}
  BY Pow
<1>2. CASE s > b
  <2>1. b \in Nat /\ m < 2^b
    BY LenExact DEF IsLen
  <2>2. 2 * 2^b <= 2^s /\ 2^b \in Nat
    BY <1>2, <2>1, PowOrder, Pow
  <2>3. HalfEven(m, s) = 0
    BY <1>2 DEF HalfEven
  <2> HIDE DEF b
  <2>4. 2 * m < p
    BY <2>1, <2>2
  <2> HIDE DEF p
  <2>5. IsHalfEven(m, p, 0)
    BY <1>1, <2>4 DEF IsHalfEven
  <2> QED BY <2>3, <2>5 DEF p
<1>3. CASE ~(s > b)
  <2> DEFINE q == m \div p
             r == m % p
             up == r > p - r \/ (r = p - r /\ q % 2 = 1)
  <2>1. HalfEven(m, s) = IF up THEN q + 1 ELSE q
    BY <1>3 DEF HalfEven
  <2> HIDE DEF p
  <2>2. m = p * q + r /\ r \in 0 .. p - 1 /\ q \in Int
    BY <1>1, DivMod
  <2>3. q \in Nat
    BY <1>1
  <2> HIDE DEF q, r
  <2>4. p * q = q * p /\ (2 * q - 1) * p = 2 * (q * p) - p /\ (2 * q + 1) * p = 2 * (q * p) + p
        /\ (2 * (q + 1) - 1) * p = 2 * (q * p) + p /\ (2 * (q + 1) + 1) * p = 2 * (q * p) + 3 * p /\ q * p \in Int
    BY <1>1, <2>3
  <2>5. q % 2 = 1 => (q + 1) % 2 = 0
    BY <2>3
  <2>6. q % 2 = 1 \/ q % 2 = 0
    BY <2>3
  <2> DEFINE z == q * p
  <2>7. z \in Int /\ m = z + r /\ (2 * q - 1) * p = 2 * z - p /\ (2 * q + 1) * p = 2 * z + p
        /\ (2 * (q + 1) - 1) * p = 2 * z + p /\ (2 * (q + 1) + 1) * p = 2 * z + 3 * p
    BY <2>2, <2>4
  <2> HIDE DEF z
  <2>8. CASE up
    <3>1. 2 * r >= p /\ (2 * r = p => q % 2 = 1)
      BY <1>1, <2>2, <2>8
    <3>2. IsHalfEven(m, p, q + 1)
      BY <1>1, <2>2, <2>3, <2>5, <2>7, <3>1 DEF IsHalfEven
    <3> QED BY <2>1, <2>8, <3>2 DEF p
  <2>9. CASE ~up
    <3>1. 2 * r <= p /\ (2 * r = p => q % 2 = 0)
      BY <1>1, <2>2, <2>6, <2>9
    <3>2. IsHalfEven(m, p, q)
      BY <1>1, <2>2, <2>3, <2>7, <3>1 DEF IsHalfEven
    <3> QED BY <2>1, <2>9, <3>2 DEF p
  <2> QED BY <2>8, <2>9
<1> QED BY <1>2, <1>3

-----------------------------------------------------------------------------
(* The magnitudes of a format, in units *)

FloatTypes == {"f32", "f64"}
Unit(f) == 2^Format[f].fraction
Grain(f, g) == 2^(Format[f].least + Greatest(g \div Unit(f), 1) - 1)
Units(f, g) == (IF g < Unit(f) THEN g ELSE Unit(f) + (g % Unit(f))) * Grain(f, g)

LEMMA FormatFacts ==
  ASSUME NEW f \in FloatTypes
  PROVE  /\ Format[f].fraction \in Nat \ {0} /\ Format[f].exponent \in Nat \ {0} /\ Format[f].least \in Nat
         /\ Format[f].fraction + Format[f].exponent + 1 = Width(f) /\ Width(f) \in Nat \ {0}
         /\ Unit(f) \in Nat \ {0} /\ Unit(f) >= 2 /\ Unit(f) % 2 = 0
         /\ Unit(f) = 2 * 2^(Format[f].fraction - 1) /\ 2^(Format[f].fraction - 1) \in Nat \ {0}
         /\ 2^Format[f].exponent \in Nat \ {0} /\ 2^Format[f].exponent >= 2
         /\ SignBit(f) = 2^Format[f].exponent * Unit(f) /\ SignBit(f) \in Nat \ {0} /\ SignBit(f) % 2 = 0
         /\ Inf(f) = SignBit(f) - Unit(f) /\ Inf(f) \in Nat \ {0} /\ Inf(f) % 2 = 0
         /\ 2^Width(f) = 2 * SignBit(f)
<1> DEFINE F == Format[f].fraction
           E == Format[f].exponent
<1>1. Format[f] \in [fraction : Nat \ {0}, exponent : Nat \ {0}, least : Nat] /\ F + E + 1 = Width(f)
  BY FormatAssumption DEF FloatTypes
<1>2. F \in Nat \ {0} /\ E \in Nat \ {0} /\ Format[f].least \in Nat
  BY <1>1
<1>3. Width(f) \in Nat \ {0} /\ Width(f) - 1 = E + F
  BY <1>1, <1>2
<1> HIDE DEF F, E
<1>4. F - 1 \in Nat /\ E - 1 \in Nat /\ (F - 1) + 1 = F /\ (E - 1) + 1 = E
  BY <1>2
<1> DEFINE h == 2^(F - 1)
           x == 2^E
           u == 2^F
<1>5. h \in Nat \ {0} /\ u = 2 * h
  BY <1>4, Pow
<1>6. 2^(E - 1) \in Nat \ {0} /\ x = 2 * 2^(E - 1)
  BY <1>4, Pow
<1>7. x \in Nat \ {0} /\ x >= 2 /\ u \in Nat \ {0} /\ u >= 2
  BY <1>5, <1>6
<1>8. 2^(E + F) = x * u
  BY <1>2, PowAdd
<1>9. Width(f) - 1 \in Nat /\ (Width(f) - 1) + 1 = Width(f)
  BY <1>3
<1>10. 2^Width(f) = 2 * 2^(Width(f) - 1)
  BY <1>9, Pow
<1> HIDE DEF h, x, u
<1>11. u % 2 = 0
  BY <1>5
<1>12. x * u \in Nat \ {0} /\ (x * u) = 2 * (x * h) /\ x * h \in Nat
  BY <1>5, <1>7
<1>13. (x * u) % 2 = 0
  <2> DEFINE y == x * h
  <2>1. y \in Nat /\ x * u = 2 * y
    BY <1>12
  <2> HIDE DEF y
  <2> QED BY <2>1
<1>14. (x - 1) * u = x * u - u /\ (x - 1) * u \in Nat \ {0}
  BY <1>7
<1>15. (x * u - u) % 2 = 0
  <2> DEFINE y == x * h
  <2>1. y \in Nat /\ x * u - u = 2 * (y - h)
    BY <1>5, <1>12
  <2> HIDE DEF y
  <2> QED BY <1>5, <2>1
<1>16. Unit(f) = u /\ SignBit(f) = x * u /\ Inf(f) = (x - 1) * u
  BY <1>3, <1>8 DEF Unit, SignBit, Inf, u, x, F, E
<1> QED BY <1>1, <1>2, <1>3, <1>5, <1>7, <1>10, <1>11, <1>12, <1>13, <1>14, <1>15, <1>16 DEF F, E, u, x, h, SignBit

\* What a magnitude stands for, by the block of 2^fraction magnitudes it is in.
LEMMA UnitsIn ==
  ASSUME NEW f \in FloatTypes, NEW d \in Nat, NEW j \in 0 .. Unit(f) - 1
  PROVE  /\ d * Unit(f) + j \in Nat
         /\ Grain(f, d * Unit(f) + j) = 2^(Format[f].least + Greatest(d, 1) - 1)
         /\ d = 0 => Units(f, d * Unit(f) + j) = j * 2^Format[f].least
         /\ d > 0 => Units(f, d * Unit(f) + j) = (Unit(f) + j) * 2^(Format[f].least + d - 1)
<1> DEFINE u == Unit(f)
           g == d * u + j
<1>1. u \in Nat \ {0} /\ Format[f].least \in Nat
  BY FormatFacts
<1> HIDE DEF u
<1>2. g = u * d + j /\ g \in Nat /\ j \in 0 .. u - 1
  BY <1>1 DEF u
<1> HIDE DEF g
<1>3. g \div u = d /\ g % u = j
  BY <1>1, <1>2, DivUnique
<1>4. Grain(f, g) = 2^(Format[f].least + Greatest(d, 1) - 1)
  BY <1>3 DEF Grain, u
<1>5. d = 0 => g = j
  BY <1>1, <1>2
<1>6. d > 0 => g >= u
  BY <1>1, <1>2
<1>7. CASE d = 0
  <2>1. Greatest(d, 1) = 1 /\ Format[f].least + 1 - 1 = Format[f].least
    BY <1>1, <1>7 DEF Greatest
  <2>2. g < u
    BY <1>1, <1>2, <1>5, <1>7
  <2>3. Units(f, g) = j * 2^Format[f].least
    BY <1>4, <1>5, <1>7, <2>1, <2>2 DEF Units, u
  <2> QED BY <1>2, <1>4, <1>7, <2>3 DEF g, u
<1>8. CASE d > 0
  <2>1. Greatest(d, 1) = d
    BY <1>8 DEF Greatest
  <2>2. ~(g < u)
    BY <1>1, <1>2, <1>6, <1>8
  <2>3. Units(f, g) = (u + j) * 2^(Format[f].least + d - 1)
    BY <1>3, <1>4, <2>1, <2>2 DEF Units, u
  <2> QED BY <1>2, <1>4, <1>8, <2>3 DEF g, u
<1> QED BY <1>7, <1>8

\* The next magnitude is one grain more.
LEMMA UnitsNext ==
  ASSUME NEW f \in FloatTypes, NEW g \in Nat
  PROVE  /\ Units(f, g) \in Nat /\ Grain(f, g) \in Nat \ {0}
         /\ Units(f, g + 1) = Units(f, g) + Grain(f, g) /\ Units(f, g) < Units(f, g + 1)
<1> DEFINE u == Unit(f)
           L == Format[f].least
           d == g \div u
           j == g % u
<1>1. u \in Nat \ {0} /\ L \in Nat
  BY FormatFacts
<1> HIDE DEF u
<1>2. g = u * d + j /\ j \in 0 .. u - 1 /\ d \in Nat
  <2>1. d \in Nat
    BY <1>1
  <2> QED BY <1>1, <2>1, DivMod
<1> HIDE DEF d, j
<1>3. g = d * u + j
  BY <1>1, <1>2
<1> DEFINE p == 2^(L + Greatest(d, 1) - 1)
<1>4. L + Greatest(d, 1) - 1 \in Nat
  BY <1>1, <1>2 DEF Greatest
<1>5. p \in Nat \ {0}
  BY <1>4, Pow
<1>6. Grain(f, g) = p
  BY <1>2, <1>3, UnitsIn DEF u
<1>7. Units(f, g) = (IF d = 0 THEN j ELSE u + j) * p
  <2>1. CASE d = 0
    <3>1. p = 2^L
      BY <1>1, <2>1 DEF Greatest
    <3> QED BY <1>2, <1>3, <2>1, <3>1, UnitsIn DEF u
  <2>2. CASE d > 0
    <3>0. Greatest(d, 1) = d
      BY <1>2, <2>2 DEF Greatest
    <3>1. p = 2^(L + d - 1)
      BY <3>0
    <3> QED BY <1>2, <1>3, <2>2, <3>1, UnitsIn DEF u
  <2> QED BY <1>2, <2>1, <2>2
<1>8. Units(f, g + 1) = (IF d = 0 THEN j + 1 ELSE u + j + 1) * p
  <2>1. CASE j + 1 < u
    <3>1. g + 1 = d * u + (j + 1) /\ j + 1 \in 0 .. u - 1
      BY <1>1, <1>2, <1>3, <2>1
    <3>2. CASE d = 0
      <4>1. p = 2^L
        BY <1>1, <3>2 DEF Greatest
      <4> QED BY <1>2, <3>1, <3>2, <4>1, UnitsIn DEF u
    <3>3. CASE d > 0
      <4>0. Greatest(d, 1) = d
        BY <1>2, <3>3 DEF Greatest
      <4>1. p = 2^(L + d - 1) /\ u + (j + 1) = u + j + 1
        BY <1>1, <1>2, <4>0
      <4> QED BY <1>2, <3>1, <3>3, <4>1, UnitsIn DEF u
    <3> QED BY <1>2, <3>2, <3>3
  <2>2. CASE j + 1 = u
    <3>1. g + 1 = (d + 1) * u + 0 /\ 0 \in 0 .. u - 1 /\ d + 1 \in Nat /\ d + 1 > 0
      BY <1>1, <1>2, <1>3, <2>2
    <3>2. Units(f, g + 1) = (u + 0) * 2^(L + (d + 1) - 1)
      BY <3>1, UnitsIn DEF u
    <3>3. CASE d = 0
      <4>1. p = 2^L /\ L + (d + 1) - 1 = L
        BY <1>1, <3>3 DEF Greatest
      <4> QED BY <1>1, <2>2, <3>2, <3>3, <4>1
    <3>4. CASE d > 0
      <4> DEFINE c == L + d - 1
      <4>1. c \in Nat /\ L + (d + 1) - 1 = c + 1
        BY <1>1, <1>2, <3>4
      <4>0. Greatest(d, 1) = d
        BY <1>2, <3>4 DEF Greatest
      <4>2. p = 2^c
        BY <4>0
      <4> HIDE DEF c
      <4>3. 2^(c + 1) = 2 * 2^c /\ 2^c \in Nat
        BY <4>1, Pow
      <4>4. Units(f, g + 1) = u * (2 * p)
        BY <1>1, <3>2, <4>1, <4>2, <4>3
      <4> HIDE DEF p, u
      <4>5. u * (2 * p) = (u + j + 1) * p
        BY <1>1, <1>2, <1>5, <2>2
      <4> QED BY <3>4, <4>4, <4>5
    <3> QED BY <1>2, <3>3, <3>4
  <2> QED BY <1>1, <1>2, <2>1, <2>2
<1> HIDE DEF p, u
<1>9. (j + 1) * p = j * p + p /\ (u + j + 1) * p = (u + j) * p + p /\ j * p \in Nat /\ (u + j) * p \in Nat
  BY <1>1, <1>2, <1>5
<1> QED BY <1>5, <1>6, <1>7, <1>8, <1>9

LEMMA UnitsOrder ==
  ASSUME NEW f \in FloatTypes, NEW a \in Nat, NEW b \in Nat, a <= b
  PROVE  Units(f, a) <= Units(f, b) /\ (a < b => Units(f, a) < Units(f, b))
<1> DEFINE P == {k \in 0 .. b - a : Units(f, a) <= Units(f, a + k) /\ (k > 0 => Units(f, a) < Units(f, a + k))}
<1>1. 0 \in P
  <2>1. Units(f, a) \in Nat /\ a + 0 = a
    BY UnitsNext
  <2> QED BY <2>1
<1>2. ASSUME NEW k \in 0 .. b - a, k \in P, k < b - a PROVE k + 1 \in P
  <2> DEFINE c == a + k
  <2>1. c \in Nat /\ a + (k + 1) = c + 1
    OBVIOUS
  <2> HIDE DEF c
  <2>2. Units(f, c) \in Nat /\ Units(f, a) \in Nat /\ Units(f, c + 1) \in Nat /\ Units(f, c) < Units(f, c + 1)
    BY <2>1, UnitsNext
  <2>3. Units(f, a) <= Units(f, c)
    BY <1>2 DEF c
  <2>4. Units(f, a) < Units(f, c + 1)
    BY <2>2, <2>3
  <2> QED BY <1>2, <2>1, <2>2, <2>4
<1>3. b - a \in P
  <2> DEFINE n == b - a
  <2>1. n \in Nat
    OBVIOUS
  <2> HIDE DEF n
  <2>2. 0 \in P /\ \A k \in 0 .. n : k \in P /\ k < n => k + 1 \in P
    BY <1>1, <1>2 DEF n
  <2> HIDE DEF P
  <2>3. 0 .. n \subseteq P
    BY <2>1, <2>2, Upto
  <2> QED BY <2>1, <2>3 DEF n
<1>4. a + (b - a) = b
  OBVIOUS
<1> QED BY <1>3, <1>4

\* The magnitude that is k quanta of 2^q units.
LEMMA UnitsOf ==
  ASSUME NEW f \in FloatTypes, NEW q \in Nat, q >= Format[f].least, NEW k \in 0 .. 2 * Unit(f),
         q = Format[f].least \/ k >= Unit(f)
  PROVE  LET g == (q - Format[f].least) * Unit(f) + k
         IN  g \in Nat /\ Units(f, g) = k * 2^q /\ Grain(f, g) >= 2^q
<1> DEFINE u == Unit(f)
           L == Format[f].least
           c == q - L
           g == c * u + k
<1>0. u \in Nat \ {0} /\ L \in Nat
  BY FormatFacts
<1>6. c \in Nat /\ q = L + c
  BY <1>0
<1> HIDE DEF u, L, c
<1>7. 2^q \in Nat \ {0} /\ 2^(q + 1) = 2 * 2^q
  BY Pow
<1>1. u \in Nat \ {0} /\ L \in Nat /\ c \in Nat /\ q = L + c /\ 2^q \in Nat \ {0} /\ 2^(q + 1) = 2 * 2^q
  BY <1>0, <1>6, <1>7
<1>2. CASE k < u
  <2>4. q = L \/ k >= u
    BY DEF L, u
  <2>5. k \in Nat
    BY <1>1 DEF u
  <2>1. q = L /\ c = 0 /\ g = 0 * u + k /\ k \in 0 .. u - 1
    BY <1>1, <1>2, <2>4, <2>5
  <2>2. Units(f, g) = k * 2^q /\ Grain(f, g) = 2^(L + Greatest(0, 1) - 1) /\ g \in Nat
    BY <2>1, UnitsIn DEF u, L
  <2>3. L + Greatest(0, 1) - 1 = q
    BY <1>1, <2>1 DEF Greatest
  <2> QED BY <1>1, <2>2, <2>3 DEF g, c, L, u
<1>3. CASE u <= k /\ k < 2 * u
  <2> DEFINE j == k - u
             d == c + 1
  <2>1. j \in 0 .. u - 1 /\ d \in Nat /\ d > 0 /\ u + j = k /\ L + d - 1 = q /\ Greatest(d, 1) = d
    BY <1>1, <1>3 DEF Greatest
  <2>2. g = d * u + j
    BY <1>1
  <2> HIDE DEF j, d
  <2>3. Units(f, g) = k * 2^q /\ Grain(f, g) = 2^q /\ g \in Nat
    BY <2>1, <2>2, UnitsIn DEF u, L
  <2> QED BY <1>1, <2>3 DEF g, c, L, u
<1>4. CASE k = 2 * u
  <2> DEFINE d == c + 2
  <2>1. 0 \in 0 .. u - 1 /\ d \in Nat /\ d > 0 /\ L + d - 1 = q + 1 /\ Greatest(d, 1) = d
    BY <1>1 DEF Greatest
  <2>2. g = d * u + 0
    BY <1>1, <1>4
  <2> HIDE DEF d
  <2>3. Units(f, g) = (u + 0) * 2^(q + 1) /\ Grain(f, g) = 2^(q + 1) /\ g \in Nat
    BY <2>1, <2>2, UnitsIn DEF u, L
  <2> DEFINE z == 2^q
  <2>4. z \in Nat \ {0} /\ 2^(q + 1) = 2 * z
    BY <1>1
  <2> HIDE DEF z
  <2>5. (u + 0) * (2 * z) = k * z /\ 2 * z >= z
    BY <1>1, <1>4, <2>4
  <2>6. Units(f, g) = k * z /\ Grain(f, g) >= z
    BY <2>3, <2>4, <2>5
  <2> QED BY <2>3, <2>6 DEF g, c, L, u, z
<1>5. k \in 0 .. 2 * u
  BY DEF u
<1> QED BY <1>1, <1>2, <1>3, <1>4, <1>5

-----------------------------------------------------------------------------
(* Rounding *)

\* Twice v lies between the neighbours of k, and on one's side of the edge only for an even k.
Halved(v, k, p) ==
  /\ (2 * k - 1) * p <= 2 * v /\ 2 * v <= (2 * k + 1) * p
  /\ (2 * k - 1) * p = 2 * v \/ 2 * v = (2 * k + 1) * p => k % 2 = 0

Between(f, g) == Units(f, g) + Units(f, g + 1)

\* v / p units lie between the middles of magnitude g and its neighbours.
RoundsUp(f, g, v, p) == 2 * v <= Between(f, g) * p /\ (2 * v = Between(f, g) * p => g % 2 = 0)
RoundsDown(f, g, v, p) == 2 * v >= Between(f, g - 1) * p /\ (2 * v = Between(f, g - 1) * p => g % 2 = 0)
Rounds(f, g, v, p) ==
  g \in 0 .. Inf(f) /\ (g < Inf(f) => RoundsUp(f, g, v, p)) /\ (g > 0 => RoundsDown(f, g, v, p))

LEMMA ScaledOrder ==
  ASSUME NEW a \in Nat, NEW b \in Nat, NEW p \in Nat \ {0}
  PROVE  (a <= b => a * p <= b * p) /\ (a < b => a * p < b * p) /\ a * p \in Nat
OBVIOUS

\* k quanta of 2^q units are a magnitude to which v / p rounds.
LEMMA RoundsThere ==
  ASSUME NEW f \in FloatTypes, NEW q \in Nat, q >= Format[f].least, NEW k \in 0 .. 2 * Unit(f),
         q = Format[f].least \/ k >= Unit(f),
         NEW v \in Nat, NEW p \in Nat \ {0}, Halved(v, k, 2^q * p),
         q = Format[f].least \/ v >= Unit(f) * (2^q * p)
  PROVE  Rounds(f, Least(Inf(f), (q - Format[f].least) * Unit(f) + k), v, p)
<1> DEFINE u == Unit(f)
           L == Format[f].least
           c == q - L
           g == c * u + k
           z == 2^q
           top == Inf(f)
<1>1. u \in Nat \ {0} /\ u % 2 = 0 /\ L \in Nat /\ top \in Nat \ {0} /\ top % 2 = 0
  BY FormatFacts
<1>2. c \in Nat /\ k \in 0 .. 2 * u
  BY <1>1
<1>3. z \in Nat \ {0}
  BY Pow
<1>4. g \in Nat /\ Units(f, g) = k * z /\ Grain(f, g) >= z
  BY UnitsOf
<1>5. Halved(v, k, z * p) /\ (q = L \/ v >= u * (z * p)) /\ (q = L \/ k >= u)
  OBVIOUS
<1>6. g % 2 = 0 <=> k % 2 = 0
  <2> HIDE DEF u, c
  <2>1. PICK h \in Nat : u = 2 * h
    <3> QED BY <1>1, EvenHalf
  <2>2. g = k + 2 * (c * h) /\ c * h \in Int
    BY <1>1, <1>2, <2>1
  <2> DEFINE y == c * h
  <2>3. y \in Int /\ g = k + 2 * y
    BY <2>2
  <2> HIDE DEF y, g
  <2>4. (k + 2 * y) % 2 = k % 2
    BY <1>2, <2>3, Parity
  <2> QED BY <2>3, <2>4
<1> HIDE DEF u, L, c, g, z, top
<1> DEFINE w == z * p
<1>7. w \in Nat \ {0}
  BY <1>3
<1>8. k * w \in Nat /\ (2 * k + 1) * w = 2 * (k * w) + w /\ (2 * k - 1) * w = 2 * (k * w) - w /\ (k * z) * p = k * w
  BY <1>2, <1>3
<1>9. CASE g <= top
  <2>1. ASSUME g < top PROVE RoundsUp(f, g, v, p)
    <3>1. Units(f, g + 1) = Units(f, g) + Grain(f, g) /\ Grain(f, g) \in Nat
      BY <1>4, UnitsNext
    <3> DEFINE r == Grain(f, g)
    <3>2. Between(f, g) * p = 2 * (k * w) + r * p
      <4>1. Between(f, g) = 2 * (k * z) + r
        BY <1>2, <1>3, <1>4, <3>1 DEF Between
      <4> HIDE DEF r
      <4> DEFINE y == k * z
      <4>3. y \in Nat /\ r \in Nat
        BY <1>2, <1>3, <3>1 DEF r
      <4> HIDE DEF y
      <4>2. (2 * y + r) * p = 2 * (y * p) + r * p
        BY <4>3
      <4> QED BY <1>8, <4>1, <4>2 DEF y
    <3>3. r * p >= w /\ r * p \in Nat
      BY <1>3, <1>4, <3>1, ScaledOrder
    <3> HIDE DEF r, w
    <3>4. 2 * v <= 2 * (k * w) + w /\ (2 * v = 2 * (k * w) + w => k % 2 = 0)
      BY <1>5, <1>8 DEF Halved, w
    <3> DEFINE a == k * w
               b == r * p
    <3>5. a \in Nat /\ b \in Nat /\ b >= w /\ 2 * v <= 2 * a + w /\ (2 * v = 2 * a + w => k % 2 = 0)
          /\ Between(f, g) * p = 2 * a + b
      BY <1>8, <3>2, <3>3, <3>4
    <3> HIDE DEF a, b
    <3>6. 2 * v <= 2 * a + b /\ (2 * v = 2 * a + b => g % 2 = 0)
      BY <1>6, <1>7, <3>5
    <3> QED BY <3>5, <3>6 DEF RoundsUp
  <2>2. ASSUME g > 0 PROVE RoundsDown(f, g, v, p)
    <3>1. g - 1 \in Nat /\ (g - 1) + 1 = g
      BY <1>4, <2>2
    <3>2. Between(f, g - 1) = Units(f, g - 1) + Units(f, g) /\ Units(f, g - 1) < Units(f, g) /\ Units(f, g - 1) \in Nat
      BY <3>1, UnitsNext DEF Between
    <3>3. CASE k >= 1 /\ (q = L \/ k - 1 >= u)
      <4> DEFINE j == k - 1
      <4>1. j \in 0 .. 2 * u /\ (q = L \/ j >= u)
        BY <1>1, <1>2, <3>3
      <4>2. c * u + j = g - 1
        BY <1>1, <1>2 DEF g
      <4> HIDE DEF j
      <4>3. Units(f, g - 1) = j * z
        BY <4>1, <4>2, UnitsOf DEF u, L, c, z
      <4>4. Between(f, g - 1) * p = (2 * k - 1) * w
        <5>1. (j * z + k * z) * p = (2 * k - 1) * w
          BY <1>2, <1>3 DEF j
        <5> QED BY <1>4, <3>2, <4>3, <5>1
      <4> QED BY <1>5, <1>6, <4>4 DEF RoundsDown, Halved
    <3>4. CASE q # L /\ k = u
      <4>1. v >= k * w
        BY <1>5, <3>4
      <4>2. Units(f, g) * p = k * w
        BY <1>4, <1>8
      <4> DEFINE a == Units(f, g - 1)
                 b == Units(f, g)
      <4>3. a \in Nat /\ b \in Nat /\ a < b /\ Between(f, g - 1) = a + b
        BY <1>2, <1>3, <1>4, <3>2
      <4> HIDE DEF a, b
      <4>4. (a + b) * p < 2 * (b * p) /\ (a + b) * p \in Nat
        BY <4>3
      <4>5. (a + b) * p < 2 * v
        BY <1>8, <4>1, <4>2, <4>4 DEF b
      <4> QED BY <4>3, <4>4, <4>5 DEF RoundsDown
    <3>5. k >= 1 \/ q # L
      <4>1. ASSUME k = 0, q = L PROVE FALSE
        <5>1. c = 0
          BY <1>1, <4>1 DEF c
        <5>2. g = 0
          BY <1>1, <4>1, <5>1 DEF g
        <5> QED BY <2>2, <5>2
      <4> QED BY <1>2, <4>1
    <3> QED BY <1>1, <1>2, <1>5, <3>3, <3>4, <3>5
  <2>3. Least(top, g) = g
    BY <1>1, <1>4, <1>9 DEF Least
  <2> QED BY <1>4, <1>9, <2>1, <2>2, <2>3 DEF Rounds, g, top, c, u, L
<1>10. CASE ~(g <= top)
  <2>1. Least(top, g) = top
    BY <1>1, <1>4, <1>10 DEF Least
  <2>2. v >= Units(f, top) * p
    <3>1. Units(f, top) \in Nat
      BY <1>1, UnitsNext
    <3>2. CASE q # L /\ k = u
      <4>1. Units(f, top) <= k * z
        BY <1>1, <1>4, <1>10, UnitsOrder
      <4>2. Units(f, top) * p <= (k * z) * p /\ k * z \in Nat
        BY <1>2, <1>3, <3>1, <4>1, ScaledOrder
      <4> QED BY <1>5, <1>8, <3>1, <3>2, <4>2
    <3>3. CASE k >= 1 /\ (q = L \/ k - 1 >= u)
      <4> DEFINE j == k - 1
      <4>1. j \in 0 .. 2 * u /\ (q = L \/ j >= u) /\ j \in Nat
        BY <1>1, <1>2, <3>3
      <4>2. c * u + j = g - 1
        BY <1>1, <1>2 DEF g
      <4> HIDE DEF j
      <4>3. Units(f, g - 1) = j * z
        BY <4>1, <4>2, UnitsOf DEF u, L, c, z
      <4>4. top <= g - 1 /\ g - 1 \in Nat
        BY <1>1, <1>4, <1>10
      <4>5. Units(f, top) <= j * z /\ j * z \in Nat
        BY <1>1, <1>3, <4>1, <4>3, <4>4, UnitsOrder
      <4>6. Units(f, top) * p <= (j * z) * p
        BY <3>1, <4>5, ScaledOrder
      <4>7. (j * z) * p = k * w - w
        BY <1>2, <1>3 DEF j
      <4>8. 2 * (k * w) - w <= 2 * v
        BY <1>5, <1>8 DEF Halved
      <4> DEFINE a == k * w
                 b == Units(f, top) * p
      <4>9. a \in Nat /\ b \in Nat /\ b <= a - w /\ 2 * a - w <= 2 * v
        BY <1>8, <3>1, <4>6, <4>7, <4>8
      <4> HIDE DEF a, b, w
      <4>10. b <= v
        BY <1>7, <4>9
      <4> QED BY <4>10 DEF b
    <3>4. k >= 1 \/ q # L
      <4>1. ASSUME k = 0, q = L PROVE FALSE
        <5>1. c = 0
          BY <1>1, <4>1 DEF c
        <5>2. g = 0
          BY <1>1, <4>1, <5>1 DEF g
        <5> QED BY <1>1, <1>10, <5>2
      <4> QED BY <1>2, <4>1
    <3> QED BY <1>1, <1>2, <1>5, <3>2, <3>3, <3>4
  <2>3. RoundsDown(f, top, v, p)
    <3>1. top - 1 \in Nat /\ (top - 1) + 1 = top
      BY <1>1
    <3> DEFINE a == Units(f, top - 1)
               b == Units(f, top)
    <3>2. a \in Nat /\ b \in Nat /\ a < b /\ Between(f, top - 1) = a + b
      BY <1>1, <3>1, UnitsNext DEF Between
    <3>3. v >= b * p
      BY <2>2
    <3> HIDE DEF a, b
    <3>4. (a + b) * p < 2 * (b * p) /\ (a + b) * p \in Nat /\ b * p \in Nat
      BY <3>2
    <3>5. (a + b) * p < 2 * v
      BY <3>3, <3>4
    <3> QED BY <3>2, <3>4, <3>5 DEF RoundsDown
  <2>4. Rounds(f, top, v, p)
    BY <1>1, <2>3 DEF Rounds, top
  <2> QED BY <2>1, <2>4 DEF g, top, c, u, L
<1> QED BY <1>9, <1>10

\* The float nearest to m * 2^e units, scaled so that it is an integer.
LEMMA NearestRounds ==
  ASSUME NEW f \in FloatTypes, NEW neg, NEW m \in Nat, NEW e \in Int, NEW h \in Nat, e + h >= 0
  PROVE  \E g : Nearest(f, neg, m, e) = Signed(f, neg, g) /\ Rounds(f, g, m * 2^(e + h), 2^h)
<1> DEFINE F == Format[f].fraction
           L == Format[f].least
           u == Unit(f)
           b == BitLen(m)
           q == IF m = 0 THEN L ELSE Greatest(L, b - 1 + e - F)
           k == IF m = 0 THEN 0 ELSE IF q <= e THEN m * 2^(e - q) ELSE HalfEven(m, q - e)
           n == e + h
           s == 2^n
           v == m * s
           p == 2^h
           w == 2^q * p
<1>1. F \in Nat /\ L \in Nat /\ u \in Nat \ {0} /\ u = 2^F
  BY FormatFacts DEF Unit
<1>2. b \in Nat /\ m < 2^b /\ (m > 0 => b > 0 /\ 2^(b - 1) <= m)
  BY LenExact DEF IsLen
<1>3. Nearest(f, neg, m, e) = Signed(f, neg, Least(Inf(f), (q - L) * u + k))
  BY DEF Nearest, Unit
<1> HIDE DEF F, L, u, b
<1>4. q \in Nat /\ q >= L /\ (q # L => m > 0 /\ q = b - 1 + e - F) /\ (m > 0 => q >= b - 1 + e - F)
  BY <1>1, <1>2 DEF Greatest
<1>5. n \in Nat /\ n = e + h
  OBVIOUS
<1> HIDE DEF q, n
<1>6. s \in Nat \ {0} /\ p \in Nat \ {0} /\ 2^q \in Nat \ {0}
  BY <1>4, <1>5, Pow
<1>7. w = 2^(q + h) /\ w \in Nat \ {0}
  <2>1. 2^(q + h) = 2^q * 2^h
    BY <1>4, PowAdd
  <2> QED BY <1>6, <2>1
<1>8. v \in Nat
  BY <1>6
<1>9. Halved(v, k, w) /\ k \in Nat
  <2>1. CASE m = 0
    <3>1. v = 0 /\ k = 0
      BY <1>6, <2>1
    <3> HIDE DEF v, k, w
    <3>2. Halved(0, 0, w)
      BY <1>7 DEF Halved
    <3> QED BY <3>1, <3>2
  <2>2. CASE m > 0 /\ q <= e
    <3> DEFINE d == e - q
    <3>1. d \in Nat /\ k = m * 2^d
      BY <1>4, <2>2
    <3>2. n = d + (q + h) /\ q + h \in Nat
      BY <1>4, <1>5
    <3> HIDE DEF d
    <3>3. s = 2^d * w /\ 2^d \in Nat
      BY <1>7, <3>1, <3>2, PowAdd, Pow, ZenonT(60)
    <3> DEFINE y == 2^d
    <3>4. y \in Nat /\ s = y * w /\ k = m * y
      BY <3>1, <3>3
    <3> HIDE DEF k, s, w, y
    <3>5. v = k * w /\ k \in Nat
      BY <1>7, <3>4
    <3> HIDE DEF v
    <3>6. (2 * k - 1) * w = 2 * (k * w) - w /\ (2 * k + 1) * w = 2 * (k * w) + w /\ k * w \in Nat
      BY <1>7, <3>5
    <3> QED BY <1>7, <3>5, <3>6 DEF Halved
  <2>3. CASE m > 0 /\ ~(q <= e)
    <3> DEFINE d == q - e
    <3>1. d \in Nat \ {0} /\ k = HalfEven(m, d)
      BY <1>4, <2>3
    <3>2. q + h = d + n
      BY <1>4, <1>5
    <3> HIDE DEF d
    <3>3. w = 2^d * s /\ 2^d \in Nat \ {0}
      <4>1. 2^(d + n) = 2^d * 2^n
        BY <1>5, <3>1, PowAdd
      <4>2. 2^d \in Nat \ {0}
        BY <3>1, Pow
      <4>3. w = 2^(d + n)
        BY <1>7, <3>2
      <4> QED BY <4>1, <4>2, <4>3
    <3>4. IsHalfEven(m, 2^d, k)
      BY <3>1, HalfEvenExact
    <3> DEFINE y == 2^d
    <3>5. y \in Nat \ {0} /\ w = y * s /\ IsHalfEven(m, y, k)
      BY <3>3, <3>4
    <3> HIDE DEF k, s, w, y
    <3>6. k \in Nat
      BY <3>5 DEF IsHalfEven
    <3> DEFINE lo == (2 * k - 1) * y
               hi == (2 * k + 1) * y
    <3>7. lo \in Int /\ hi \in Int /\ (2 * k - 1) * w = lo * s /\ (2 * k + 1) * w = hi * s
      BY <1>6, <3>5, <3>6
    <3>8. lo <= 2 * m /\ 2 * m <= hi /\ (lo = 2 * m \/ 2 * m = hi => k % 2 = 0)
      BY <3>5 DEF IsHalfEven
    <3> HIDE DEF lo, hi
    <3>9. 2 * (m * s) = (2 * m) * s
      BY <1>6
    <3> DEFINE t == 2 * m
    <3>10. t \in Int /\ lo <= t /\ t <= hi /\ (lo = t \/ t = hi => k % 2 = 0)
      BY <3>8
    <3> HIDE DEF t
    <3>11. lo * s <= t * s /\ t * s <= hi * s /\ (lo # t => lo * s # t * s) /\ (t # hi => t * s # hi * s)
      BY <1>6, <3>7, <3>10
    <3>12. (2 * k - 1) * w <= 2 * v /\ 2 * v <= (2 * k + 1) * w
           /\ ((2 * k - 1) * w = 2 * v \/ 2 * v = (2 * k + 1) * w => k % 2 = 0)
      BY <3>7, <3>9, <3>10, <3>11 DEF t
    <3> QED BY <3>6, <3>12 DEF Halved
  <2> QED BY <2>1, <2>2, <2>3
<1>10. v < 2 * u * w
  <2>1. CASE m = 0
    <3>1. v = 0 /\ 2 * u * w \in Nat \ {0}
      BY <1>1, <1>6, <1>7, <2>1
    <3> QED BY <3>1
  <2>2. CASE m > 0
    <3>1. b + n <= (q + F + 1) + h /\ b + n \in Nat /\ (q + F + 1) + h \in Nat
      BY <1>1, <1>2, <1>4, <1>5, <2>2
    <3>2. 2^(b + n) <= 2^((q + F + 1) + h)
      BY <3>1, PowOrder
    <3>3. 2^(b + n) = 2^b * s /\ 2^b \in Nat
      BY <1>2, <1>5, PowAdd, Pow
    <3>4. 2^((q + F + 1) + h) = 2 * u * w
      <4>1. (q + F + 1) + h = (F + (q + h)) + 1 /\ F + (q + h) \in Nat /\ q + h \in Nat
        BY <1>1, <1>4
      <4> DEFINE c == F + (q + h)
      <4>2. c \in Nat
        BY <4>1
      <4> HIDE DEF c
      <4>3. 2^(c + 1) = 2 * 2^c
        BY <4>2, Pow
      <4>4. 2^(F + (q + h)) = 2^F * 2^(q + h)
        BY <1>1, <4>1, PowAdd
      <4>5. 2 * (u * w) = 2 * u * w
        BY <1>1, <1>7
      <4> QED BY <1>1, <1>7, <4>1, <4>3, <4>4, <4>5 DEF c
    <3> DEFINE y == 2^b
    <3>5. m < y /\ y \in Nat /\ 2^(b + n) = y * s
      BY <1>2, <3>3
    <3> HIDE DEF y, s
    <3>6. m * s < y * s
      BY <1>6, <3>5
    <3> DEFINE z == 2 * u * w
    <3>7. m * s < y * s /\ y * s <= z /\ m * s \in Nat /\ y * s \in Nat /\ z \in Nat
      BY <1>1, <1>6, <1>7, <3>2, <3>4, <3>5, <3>6
    <3> HIDE DEF z
    <3>8. m * s < z
      BY <3>7
    <3> QED BY <3>8 DEF z
  <2> QED BY <2>1, <2>2
<1>11. q = L \/ v >= u * w
  <2>1. ASSUME q # L PROVE v >= u * w
    <3>1. m > 0 /\ q + F + h = (b - 1) + n /\ b - 1 \in Nat /\ 2^(b - 1) <= m
      BY <1>1, <1>2, <1>4, <1>5, <2>1
    <3> DEFINE a == b - 1
               y == 2^a
    <3>2. a \in Nat /\ y <= m /\ F + (q + h) = a + n /\ q + h \in Nat
      BY <1>1, <1>4, <3>1
    <3> HIDE DEF a
    <3>3. 2^(a + n) = y * s /\ y \in Nat
      BY <1>5, <3>2, PowAdd, Pow
    <3>4. 2^(F + (q + h)) = u * w
      BY <1>1, <1>7, <3>2, PowAdd, ZenonT(60)
    <3> HIDE DEF y, s
    <3>5. y * s <= m * s
      BY <1>6, <3>2, <3>3
    <3> QED BY <3>2, <3>3, <3>4, <3>5
  <2> QED BY <2>1
<1> HIDE DEF v, w, k, s
<1>12. (2 * k - 1) * w = 2 * (k * w) - w /\ k * w \in Nat /\ (2 * k + 1) * w = 2 * (k * w) + w
  BY <1>7, <1>9
<1>13. 2 * (k * w) - w <= 2 * v /\ 2 * v <= 2 * (k * w) + w
  BY <1>9, <1>12 DEF Halved
<1>14. k <= 2 * u
  <2>1. ASSUME k > 2 * u PROVE FALSE
    <3> DEFINE a == 2 * u
    <3>1. a \in Nat /\ k >= a + 1 /\ v < a * w
      BY <1>1, <1>9, <1>10, <2>1
    <3> HIDE DEF a
    <3>2. k * w >= (a + 1) * w /\ (a + 1) * w = a * w + w /\ a * w \in Nat
      BY <1>7, <1>9, <3>1
    <3> DEFINE y == a * w
               z == k * w
    <3>3. y \in Nat /\ z \in Nat /\ z >= y + w /\ 2 * z - w <= 2 * v /\ v < y
      BY <1>12, <1>13, <3>1, <3>2
    <3> HIDE DEF y, z
    <3> QED BY <1>7, <1>8, <3>3
  <2> QED BY <1>1, <1>9, <2>1
<1>15. q = L \/ k >= u
  <2>1. ASSUME v >= u * w, k < u PROVE FALSE
    <3>1. (k + 1) * w <= u * w /\ (k + 1) * w = k * w + w /\ u * w \in Nat
      BY <1>1, <1>7, <1>9, <2>1
    <3> DEFINE y == u * w
               z == k * w
    <3>2. y \in Nat /\ z \in Nat /\ z + w <= y /\ 2 * v <= 2 * z + w /\ v >= y
      BY <1>12, <1>13, <2>1, <3>1
    <3> HIDE DEF y, z
    <3> QED BY <1>7, <1>8, <3>2
  <2> QED BY <1>1, <1>9, <1>11, <2>1
<1>16. k \in 0 .. 2 * u
  BY <1>1, <1>9, <1>14
<1>17. Rounds(f, Least(Inf(f), (q - L) * u + k), v, p)
  BY <1>4, <1>6, <1>8, <1>9, <1>11, <1>15, <1>16, RoundsThere DEF L, u, w
<1> QED BY <1>3, <1>17 DEF v, s, n

-----------------------------------------------------------------------------
(* Patterns *)

LEMMA SignedPattern ==
  ASSUME NEW f \in FloatTypes, NEW neg \in BOOLEAN, NEW g \in 0 .. SignBit(f) - 1
  PROVE  /\ Signed(f, neg, g) \in Unsigneds(Width(f)) /\ Magnitude(f, Signed(f, neg, g)) = g
         /\ IsNeg(f, Signed(f, neg, g)) = neg /\ Signed(f, neg, g) % 2 = g % 2
<1> DEFINE b == SignBit(f)
<1>1. b \in Nat \ {0} /\ b % 2 = 0 /\ 2^Width(f) = 2 * b
  BY FormatFacts
<1> HIDE DEF b
<1>2. g \in 0 .. b - 1
  BY DEF b
<1>3. g % b = g /\ (b + g) % b = g
  <2>1. g % b = g
    BY <1>1, <1>2, SmallMod
  <2>2. b + g = b * 1 + g /\ b + g \in Int /\ 1 \in Int
    BY <1>1, <1>2
  <2> QED BY <1>1, <1>2, <2>1, <2>2, DivUnique
<1>4. (b + g) % 2 = g % 2
  <2>1. PICK h \in Nat : b = 2 * h
    BY <1>1, EvenHalf
  <2>2. b + g = g + 2 * h
    BY <1>2, <2>1
  <2>3. (g + 2 * h) % 2 = g % 2
    BY <1>2, Parity
  <2> QED BY <2>2, <2>3
<1> QED BY <1>1, <1>2, <1>3, <1>4 DEF b, Signed, Magnitude, IsNeg, Unsigneds

LEMMA PatternSigned ==
  ASSUME NEW f \in FloatTypes, NEW x \in Unsigneds(Width(f))
  PROVE  /\ Magnitude(f, x) \in 0 .. SignBit(f) - 1 /\ IsNeg(f, x) \in BOOLEAN
         /\ x = Signed(f, IsNeg(f, x), Magnitude(f, x))
<1> DEFINE b == SignBit(f)
<1>1. b \in Nat \ {0} /\ 2^Width(f) = 2 * b
  BY FormatFacts
<1>2. x \in 0 .. 2 * b - 1
  BY <1>1 DEF Unsigneds
<1> HIDE DEF b
<1>3. CASE x < b
  <2>1. x \in 0 .. b - 1 /\ ~(x >= b)
    BY <1>1, <1>2, <1>3
  <2>2. x % b = x
    BY <1>1, <2>1, SmallMod
  <2> QED BY <2>1, <2>2, <1>3 DEF b, Signed, Magnitude, IsNeg
<1>4. CASE ~(x < b)
  <2>1. x - b \in 0 .. b - 1 /\ x = b * 1 + (x - b) /\ x \in Int /\ 1 \in Int /\ x >= b
    BY <1>1, <1>2, <1>4
  <2>2. x % b = x - b
    BY <1>1, <2>1, DivUnique, ZenonT(60)
  <2>3. b + (x - b) = x
    BY <1>1, <2>1
  <2> QED BY <2>1, <2>2, <2>3 DEF b, Signed, Magnitude, IsNeg
<1> QED BY <1>3, <1>4

\* What a finite float stands for, and where an infinity is put.
LEMMA RealUnits ==
  ASSUME NEW f \in FloatTypes, NEW x \in Unsigneds(Width(f))
  PROVE  /\ Significand(f, x) \in Nat /\ Exponent(f, x) \in Nat
         /\ Significand(f, x) * 2^Exponent(f, x) = Units(f, Magnitude(f, x))
         /\ Units(f, Magnitude(f, x)) \in Nat /\ Real(f, x) \in Int
         /\ Real(f, x) = IF IsNeg(f, x) THEN -Units(f, Magnitude(f, x)) ELSE Units(f, Magnitude(f, x))
<1> DEFINE g == Magnitude(f, x)
           u == Unit(f)
           L == Format[f].least
<1>1. g \in Nat /\ u \in Nat \ {0} /\ L \in Nat
  BY PatternSigned, FormatFacts
<1>2. Exponent(f, x) = L + Greatest(g \div u, 1) - 1
  BY DEF Exponent, Unit
<1>3. Significand(f, x) = IF g < u THEN g ELSE u + (g % u)
  BY DEF Significand, Unit
<1>4. Units(f, g) = Significand(f, x) * 2^Exponent(f, x)
  BY <1>2, <1>3 DEF Units, Grain
<1>5. Units(f, g) \in Nat
  BY <1>1, UnitsNext
<1> HIDE DEF g, u, L
<1>6. g \div u \in Int /\ g % u \in 0 .. u - 1
  BY <1>1, DivMod
<1>7. Exponent(f, x) \in Nat /\ Significand(f, x) \in Nat
  BY <1>1, <1>2, <1>3, <1>6 DEF Greatest
<1>8. Real(f, x) = IF IsNeg(f, x) THEN -Units(f, g) ELSE Units(f, g)
  BY <1>4 DEF Real
<1>9. Real(f, x) \in Int
  BY <1>5, <1>8
<1> QED BY <1>4, <1>5, <1>7, <1>8, <1>9 DEF g

LEMMA BeyondUnits ==
  ASSUME NEW f \in FloatTypes
  PROVE  Beyond(f) = Units(f, Inf(f)) /\ Beyond(f) \in Nat
<1> DEFINE F == Format[f].fraction
           L == Format[f].least
           x == 2^Format[f].exponent
           u == Unit(f)
           d == x - 1
<1>1. F \in Nat /\ L \in Nat /\ x \in Nat /\ x >= 2 /\ u \in Nat \ {0} /\ u = 2^F
  BY FormatFacts DEF Unit
<1>2. Inf(f) = d * u + 0 /\ d \in Nat /\ d > 0 /\ 0 \in 0 .. u - 1
  <2>1. Inf(f) = d * u
    BY DEF Inf, Unit
  <2> QED BY <1>1, <2>1
<1>3. Units(f, d * u + 0) = (u + 0) * 2^(L + d - 1)
  BY <1>2, UnitsIn
<1>4. Beyond(f) = 2^(L + F + x - 2)
  BY DEF Beyond
<1> HIDE DEF F, L, x, u
<1> DEFINE c == L + d - 1
<1>5. c \in Nat /\ F + c = L + F + x - 2
  BY <1>1, <1>2
<1> HIDE DEF c, d
<1>6. 2^(F + c) = 2^F * 2^c /\ 2^c \in Nat /\ 2^(F + c) \in Nat
  <2>1. F + c \in Nat
    BY <1>1, <1>5
  <2> QED BY <1>1, <1>5, <2>1, PowAdd, Pow
<1>7. (u + 0) * 2^c = u * 2^c
  BY <1>1
<1> QED BY <1>1, <1>2, <1>3, <1>4, <1>5, <1>6, <1>7 DEF c

LEMMA InfBelow ==
  ASSUME NEW f \in FloatTypes
  PROVE  /\ Inf(f) \in 0 .. SignBit(f) - 1 /\ Inf(f) + Unit(f) = SignBit(f)
         /\ 0 .. Inf(f) \subseteq 0 .. SignBit(f) - 1 /\ Inf(f) \in Nat /\ SignBit(f) \in Nat
<1> DEFINE i == Inf(f)
           b == SignBit(f)
           u == Unit(f)
<1>1. i = b - u /\ i \in Nat \ {0} /\ b \in Nat \ {0} /\ u \in Nat \ {0}
  BY FormatFacts
<1> HIDE DEF i, b, u
<1>2. i \in 0 .. b - 1 /\ i + u = b /\ 0 .. i \subseteq 0 .. b - 1
  BY <1>1
<1> QED BY <1>1, <1>2 DEF i, b, u

\* A pattern that is no NaN, with the magnitude of it, and its place among the others.
Placed(f, z) == (IF IsInf(f, z) THEN (IF IsNeg(f, z) THEN -1 ELSE 1) * Beyond(f) ELSE Real(f, z))
LEMMA PlacedUnits ==
  ASSUME NEW f \in FloatTypes, NEW z \in Unsigneds(Width(f)), ~IsNaN(f, z)
  PROVE  /\ Magnitude(f, z) \in 0 .. Inf(f) /\ Units(f, Magnitude(f, z)) \in Nat
         /\ Placed(f, z) = IF IsNeg(f, z) THEN -Units(f, Magnitude(f, z)) ELSE Units(f, Magnitude(f, z))
<1>1. Magnitude(f, z) \in 0 .. SignBit(f) - 1
  BY PatternSigned
<1>2. Magnitude(f, z) \in 0 .. Inf(f)
  BY <1>1, InfBelow DEF IsNaN
<1>3. Units(f, Magnitude(f, z)) \in Nat
  BY RealUnits
<1>4. CASE IsInf(f, z)
  <2>1. Magnitude(f, z) = Inf(f) /\ Beyond(f) \in Nat /\ Beyond(f) = Units(f, Inf(f))
    BY <1>4, BeyondUnits DEF IsInf
  <2>2. (-1) * Beyond(f) = -Beyond(f) /\ 1 * Beyond(f) = Beyond(f)
    BY <2>1
  <2> QED BY <1>2, <1>3, <1>4, <2>1, <2>2 DEF Placed
<1>5. CASE ~IsInf(f, z)
  BY <1>2, <1>3, <1>5, RealUnits DEF Placed
<1> QED BY <1>4, <1>5

\* The distances of neighbours from a number between them.
LEMMA Neighbours ==
  ASSUME NEW a \in Nat, NEW b \in Nat, a < b, NEW t \in Nat
  PROVE  /\ 2 * t <= a + b => Abs(b - t) > Abs(a - t) \/ (Abs(b - t) = Abs(a - t) /\ 2 * t = a + b)
         /\ 2 * t >= a + b => Abs(a - t) > Abs(b - t) \/ (Abs(b - t) = Abs(a - t) /\ 2 * t = a + b)
BY DEF Abs

\* A magnitude to which |v| / d rounds makes, with the sign of v, a float nearest to v / d.
LEMMA QuotientNearest ==
  ASSUME NEW f \in FloatTypes, NEW neg \in BOOLEAN, NEW v \in Int, NEW t \in Nat, v = (IF neg THEN -t ELSE t),
         NEW d \in Nat \ {0}, NEW g, Rounds(f, g, t, d)
  PROVE  IsNearestQuotient(f, v, d, Signed(f, neg, g)) /\ Signed(f, neg, g) \in Unsigneds(Width(f))
<1> DEFINE r == Signed(f, neg, g)
           b == SignBit(f)
<1>1. g \in 0 .. Inf(f) /\ g \in 0 .. b - 1 /\ b \in Nat \ {0}
  BY InfBelow, FormatFacts DEF Rounds
<1>2. r \in Unsigneds(Width(f)) /\ Magnitude(f, r) = g /\ IsNeg(f, r) = neg /\ r % 2 = g % 2
  BY <1>1, SignedPattern
<1>3. ~IsNaN(f, r)
  BY <1>1, <1>2, InfBelow DEF IsNaN
<1>4. r = (IF neg THEN b + g ELSE g) /\ r \in Int
  BY <1>1 DEF Signed
<1> HIDE DEF r, b
<1>5. (IsNeg(f, r) => v <= 0) /\ (v < 0 => IsNeg(f, r))
  BY <1>2
<1> DEFINE Far(z) == Abs(Placed(f, z) * d - v)
<1>6. ASSUME NEW z \in Unsigneds(Width(f)), ~IsNaN(f, z), IsNeg(f, z) = neg
      PROVE  Far(z) = Abs(Units(f, Magnitude(f, z)) * d - t) /\ Magnitude(f, z) \in 0 .. Inf(f)
  <2> DEFINE y == Units(f, Magnitude(f, z))
  <2>1. y \in Nat /\ Magnitude(f, z) \in 0 .. Inf(f) /\ Placed(f, z) = IF neg THEN -y ELSE y
    BY <1>6, PlacedUnits
  <2> HIDE DEF y
  <2>2. Abs(Placed(f, z) * d - v) = Abs(y * d - t)
    <3> DEFINE w == y * d
    <3>1. w \in Nat /\ Placed(f, z) * d = IF neg THEN -w ELSE w
      <4>1. w \in Nat /\ (-y) * d = -(y * d)
        BY <2>1
      <4> QED BY <2>1, <4>1
    <3> HIDE DEF w
    <3> QED BY <3>1 DEF Abs, w
  <2> QED BY <2>1, <2>2 DEF y
<1>7. Far(r) = Abs(Units(f, g) * d - t)
  BY <1>2, <1>3, <1>6
<1>8. ASSUME NEW z \in {r - 1, r + 1}, z \in 0 .. 2^Width(f) - 1, ~IsNaN(f, z), IsNeg(f, z) = IsNeg(f, r)
      PROVE  Far(z) > Far(r) \/ (Far(z) = Far(r) /\ r % 2 = 0)
  <2> DEFINE c == Magnitude(f, z)
  <2>1. Far(z) = Abs(Units(f, c) * d - t) /\ c \in 0 .. Inf(f) /\ z = IF neg THEN b + c ELSE c
    <3>1. z \in Unsigneds(Width(f)) /\ IsNeg(f, z) = neg
      BY <1>2, <1>8 DEF Unsigneds
    <3>2. Far(z) = Abs(Units(f, c) * d - t) /\ c \in 0 .. Inf(f)
      BY <1>6, <1>8, <3>1
    <3>3. z = Signed(f, neg, c)
      BY <3>1, PatternSigned
    <3> QED BY <3>2, <3>3 DEF Signed, b
  <2> HIDE DEF c, Far
  <2>2. c \in Nat /\ c <= Inf(f) /\ Inf(f) \in Nat
    BY <2>1, InfBelow
  <2>3. CASE z = r + 1
    <3>1. c = g + 1 /\ g < Inf(f)
      BY <1>1, <1>4, <2>1, <2>2, <2>3
    <3> DEFINE x == Units(f, g) * d
               y == Units(f, g + 1) * d
    <3>2. x \in Nat /\ y \in Nat /\ x < y /\ Between(f, g) * d = x + y
      <4>1. Units(f, g) \in Nat /\ Units(f, g + 1) \in Nat /\ Units(f, g) < Units(f, g + 1)
        BY <1>1, UnitsNext
      <4>2. (Units(f, g) + Units(f, g + 1)) * d = x + y /\ x \in Nat /\ y \in Nat /\ x < y
        BY <4>1, ScaledOrder
      <4> QED BY <4>2 DEF Between
    <3>4. 2 * t <= x + y /\ (2 * t = x + y => g % 2 = 0)
      BY <3>1, <3>2 DEF Rounds, RoundsUp
    <3> HIDE DEF x, y
    <3>5. Abs(y - t) > Abs(x - t) \/ (Abs(y - t) = Abs(x - t) /\ g % 2 = 0)
      BY <3>2, <3>4, Neighbours, ZenonT(60)
    <3> QED BY <1>2, <1>7, <2>1, <3>1, <3>5 DEF x, y
  <2>4. CASE z = r - 1
    <3>1. g = c + 1 /\ g > 0 /\ c = g - 1
      BY <1>1, <1>4, <2>1, <2>2, <2>4
    <3> DEFINE x == Units(f, c) * d
               y == Units(f, g) * d
    <3>2. x \in Nat /\ y \in Nat /\ x < y /\ Between(f, c) * d = x + y
      <4>1. Units(f, c) \in Nat /\ Units(f, g) \in Nat /\ Units(f, c) < Units(f, g)
        BY <2>2, <3>1, UnitsNext
      <4>2. (Units(f, c) + Units(f, g)) * d = x + y /\ x \in Nat /\ y \in Nat /\ x < y
        BY <4>1, ScaledOrder
      <4> QED BY <3>1, <4>2 DEF Between
    <3>4. 2 * t >= x + y /\ (2 * t = x + y => g % 2 = 0)
      BY <3>1, <3>2 DEF Rounds, RoundsDown
    <3> HIDE DEF x, y
    <3>5. Abs(x - t) > Abs(y - t) \/ (Abs(y - t) = Abs(x - t) /\ g % 2 = 0)
      BY <3>2, <3>4, Neighbours, ZenonT(60)
    <3> QED BY <1>2, <1>7, <2>1, <3>5 DEF x, y
  <2> QED BY <1>8, <2>3, <2>4
<1>9. IsNearestQuotient(f, v, d, r)
  BY <1>3, <1>5, <1>8 DEF IsNearestQuotient, Placed
<1> QED BY <1>2, <1>9 DEF r

LEMMA RoundsNearest ==
  ASSUME NEW f \in FloatTypes, NEW neg \in BOOLEAN, NEW v \in Int, NEW t \in Nat, v = (IF neg THEN -t ELSE t),
         NEW g, Rounds(f, g, t, 1)
  PROVE  IsNearest(f, v, Signed(f, neg, g)) /\ Signed(f, neg, g) \in Unsigneds(Width(f))
<1>1. 1 \in Nat \ {0}
  OBVIOUS
<1>2. IsNearestQuotient(f, v, 1, Signed(f, neg, g)) /\ Signed(f, neg, g) \in Unsigneds(Width(f))
  BY <1>1, QuotientNearest
<1> QED BY <1>2 DEF IsNearest

\* Nearest rounds to a nearest float: of any number to one that is no NaN, and of a whole number of units exactly so.
LEMMA NearestExact ==
  ASSUME NEW f \in FloatTypes, NEW neg \in BOOLEAN, NEW m \in Nat, NEW e \in Int
  PROVE  /\ Nearest(f, neg, m, e) \in Unsigneds(Width(f)) /\ ~IsNaN(f, Nearest(f, neg, m, e))
         /\ IsNeg(f, Nearest(f, neg, m, e)) = neg
         /\ e >= 0 => IsNearest(f, IF neg THEN -(m * 2^e) ELSE m * 2^e, Nearest(f, neg, m, e))
<1> DEFINE r == Nearest(f, neg, m, e)
<1>1. \E g : r = Signed(f, neg, g) /\ g \in 0 .. Inf(f)
  <2> DEFINE h == IF e >= 0 THEN 0 ELSE -e
  <2>1. h \in Nat /\ e + h >= 0
    OBVIOUS
  <2> HIDE DEF h
  <2>2. \E g : r = Signed(f, neg, g) /\ Rounds(f, g, m * 2^(e + h), 2^h)
    BY <2>1, NearestRounds
  <2> QED BY <2>2 DEF Rounds
<1>2. PICK g : r = Signed(f, neg, g) /\ g \in 0 .. Inf(f)
  BY <1>1
<1>3. g \in 0 .. SignBit(f) - 1
  BY <1>2, InfBelow
<1>4. r \in Unsigneds(Width(f)) /\ Magnitude(f, r) = g /\ IsNeg(f, r) = neg
  BY <1>2, <1>3, SignedPattern
<1>5. ~IsNaN(f, r)
  BY <1>2, <1>4, InfBelow DEF IsNaN
<1>6. ASSUME e >= 0 PROVE IsNearest(f, IF neg THEN -(m * 2^e) ELSE m * 2^e, r)
  <2>1. e \in Nat /\ e + 0 = e /\ 2^0 = 1 /\ e + 0 >= 0 /\ 0 \in Nat
    BY <1>6, Pow
  <2>2. PICK i : r = Signed(f, neg, i) /\ Rounds(f, i, m * 2^(e + 0), 2^0)
    BY <2>1, NearestRounds
  <2> DEFINE t == m * 2^e
             v == IF neg THEN -t ELSE t
  <2>3. t \in Nat
    BY <2>1, Pow
  <2>4. Rounds(f, i, t, 1)
    BY <2>1, <2>2
  <2> HIDE DEF t
  <2>5. v \in Int /\ v = IF neg THEN -t ELSE t
    BY <2>3
  <2> HIDE DEF v
  <2>6. IsNearest(f, v, Signed(f, neg, i))
    BY <2>3, <2>4, <2>5, RoundsNearest
  <2> QED BY <2>2, <2>6 DEF v, t
<1> QED BY <1>4, <1>5, <1>6

\* A NaN made quiet is one still.
LEMMA QuietExact ==
  ASSUME NEW f \in FloatTypes, NEW neg \in BOOLEAN, NEW k \in 0 .. Unit(f) - 1
  PROVE  LET r == Quiet(f, Signed(f, neg, Inf(f) + k))
         IN  r \in Unsigneds(Width(f)) /\ IsNaN(f, r) /\ ~IsInf(f, r) /\ IsNeg(f, r) = neg
<1> DEFINE q == 2^(Format[f].fraction - 1)
           u == Unit(f)
           i == Inf(f)
           b == SignBit(f)
           x == Signed(f, neg, i + k)
           r == Quiet(f, x)
<1>1. q \in Nat \ {0} /\ u = 2 * q /\ u \in Nat /\ i \in Nat /\ b \in Nat /\ i + u = b /\ k \in 0 .. u - 1
  BY FormatFacts, InfBelow
<1>2. PICK c \in Nat, d \in Nat : b = c * u /\ i = d * u
  <2>1. b = 2^Format[f].exponent * u /\ i = (2^Format[f].exponent - 1) * u
    BY FormatFacts DEF Inf, Unit
  <2>2. 2^Format[f].exponent \in Nat /\ 2^Format[f].exponent - 1 \in Nat
    BY FormatFacts
  <2> QED BY <2>1, <2>2
<1>3. x = (IF neg THEN b + (i + k) ELSE i + k) /\ r = (IF (x \div q) % 2 = 0 THEN x + q ELSE x)
  BY DEF Signed, Quiet
<1> HIDE DEF q, u, i, b, x, r
<1> DEFINE s == IF neg THEN c + d ELSE d
<1>4. s \in Nat /\ x = s * u + k
  <2>1. c * u + d * u = (c + d) * u /\ c * u \in Nat /\ d * u \in Nat
    BY <1>1
  <2> QED BY <1>1, <1>2, <1>3, <2>1
<1> HIDE DEF s
<1> DEFINE j == IF k < q THEN k + q ELSE k
<1>5. r = IF k < q THEN x + q ELSE x
  <2>1. CASE k < q
    <3>1. x = q * (2 * s) + k /\ k \in 0 .. q - 1 /\ 2 * s \in Int /\ x \in Int
      BY <1>1, <1>4, <2>1
    <3>2. x \div q = 2 * s
      BY <1>1, <3>1, DivUnique
    <3>3. (2 * s) % 2 = 0
      BY <1>4
    <3> QED BY <1>3, <2>1, <3>2, <3>3
  <2>2. CASE ~(k < q)
    <3>1. x = q * (2 * s + 1) + (k - q) /\ k - q \in 0 .. q - 1 /\ 2 * s + 1 \in Int /\ x \in Int
      BY <1>1, <1>4, <2>2
    <3>2. x \div q = 2 * s + 1
      BY <1>1, <3>1, DivUnique, ZenonT(60)
    <3>3. (2 * s + 1) % 2 = 1
      BY <1>4
    <3> QED BY <1>3, <2>2, <3>2, <3>3
  <2> QED BY <2>1, <2>2
<1>6. j \in 1 .. u - 1
  BY <1>1
<1>7. r = Signed(f, neg, i + j) /\ i + j \in 0 .. b - 1 /\ i + j > i
  <2>1. i + j \in 0 .. b - 1 /\ i + j > i
    BY <1>1, <1>6
  <2>2. r = IF neg THEN b + (i + j) ELSE i + j
    BY <1>1, <1>3, <1>5
  <2> QED BY <2>1, <2>2 DEF Signed, b
<1> HIDE DEF j
<1>8. r \in Unsigneds(Width(f)) /\ Magnitude(f, r) = i + j /\ IsNeg(f, r) = neg
  BY <1>7, SignedPattern DEF b
<1>9. IsNaN(f, r) /\ ~IsInf(f, r)
  BY <1>1, <1>6, <1>7, <1>8 DEF IsNaN, IsInf, i
<1> QED BY <1>8, <1>9 DEF r, x, i

\* The fraction of a NaN, and what is kept of it in another format.
LEMMA PayloadKept ==
  ASSUME NEW f \in FloatTypes, NEW g \in FloatTypes, NEW x \in Unsigneds(Width(f)), IsNaN(f, x)
  PROVE  LET from == Format[f].fraction
             to == Format[g].fraction
             payload == Magnitude(f, x) - Inf(f)
         IN  /\ payload \in 1 .. Unit(f) - 1
             /\ to >= from => payload * 2^(to - from) \in 0 .. Unit(g) - 1
             /\ ~(to >= from) => payload \div 2^(from - to) \in 0 .. Unit(g) - 1
<1> DEFINE from == Format[f].fraction
           to == Format[g].fraction
           k == Magnitude(f, x) - Inf(f)
           u == Unit(f)
           z == Unit(g)
<1>1. from \in Nat /\ to \in Nat /\ u \in Nat \ {0} /\ z \in Nat \ {0} /\ u = 2^from /\ z = 2^to
  BY FormatFacts DEF Unit
<1>2. k \in 1 .. u - 1
  <2>1. Magnitude(f, x) \in 0 .. SignBit(f) - 1 /\ Magnitude(f, x) > Inf(f)
    BY PatternSigned DEF IsNaN
  <2> DEFINE y == Magnitude(f, x)
             i == Inf(f)
             b == SignBit(f)
  <2>2. y \in 0 .. b - 1 /\ y > i /\ i \in Nat /\ b \in Nat /\ u \in Nat /\ i + u = b
    BY <1>1, <2>1, InfBelow
  <2> HIDE DEF y, i, b, u
  <2>3. y - i \in 1 .. u - 1
    BY <2>2
  <2> QED BY <2>3 DEF y, i
<1> HIDE DEF from, to, k, u, z
<1>3. ASSUME to >= from PROVE k * 2^(to - from) \in 0 .. z - 1
  <2>1. z = u * 2^(to - from) /\ 2^(to - from) \in Nat \ {0}
    <3>1. to - from \in Nat
      BY <1>1, <1>3
    <3> QED BY <1>1, <1>3, <3>1, PowOrder, Pow
  <2> DEFINE p == 2^(to - from)
  <2>2. p \in Nat \ {0} /\ z = u * p
    BY <2>1
  <2> HIDE DEF p
  <2>3. k * p \in Nat /\ k * p + p <= u * p
    <3>1. (k + 1) * p <= u * p /\ (k + 1) * p = k * p + p
      BY <1>1, <1>2, <2>2
    <3> QED BY <1>2, <2>2, <3>1
  <2>4. k * p \in 0 .. z - 1
    BY <1>1, <2>2, <2>3
  <2> QED BY <2>4 DEF p
<1>4. ASSUME ~(to >= from) PROVE k \div 2^(from - to) \in 0 .. z - 1
  <2>1. u = z * 2^(from - to) /\ 2^(from - to) \in Nat \ {0}
    <3>1. from - to \in Nat /\ to <= from
      BY <1>1, <1>4
    <3> QED BY <1>1, <3>1, PowOrder, Pow
  <2> DEFINE p == 2^(from - to)
             y == k \div p
             r == k % p
  <2>2. p \in Nat \ {0} /\ u = z * p
    BY <2>1
  <2> HIDE DEF p
  <2>3. k = p * y + r /\ r \in 0 .. p - 1 /\ y \in Int
    <3>1. k \in Int
      BY <1>2
    <3> QED BY <2>2, <3>1, DivMod
  <2>4. y >= 0 /\ y < z
    <3> HIDE DEF y, r
    <3>1. ASSUME y <= -1 PROVE FALSE
      <4>1. p * y <= -p
        BY <2>2, <2>3, <3>1
      <4> QED BY <1>2, <2>2, <2>3, <4>1
    <3>2. ASSUME y >= z PROVE FALSE
      <4>1. p * y >= z * p
        BY <1>1, <2>2, <2>3, <3>2
      <4> QED BY <1>2, <2>2, <2>3, <4>1
    <3> QED BY <1>1, <2>3, <3>1, <3>2
  <2> QED BY <1>1, <2>3, <2>4 DEF y, p
<1> QED BY <1>2, <1>3, <1>4 DEF k, from, to, u, z

LEMMA Kinds ==
  ASSUME NEW f, NEW x
  PROVE  IsNaN(f, x) \in BOOLEAN /\ IsInf(f, x) \in BOOLEAN /\ IsNeg(f, x) \in BOOLEAN /\ IsZero(f, x) \in BOOLEAN
BY DEF IsNaN, IsInf, IsNeg, IsZero

\* What a float becomes in another format, or in its own.
LEMMA FloatToExact ==
  ASSUME NEW f \in FloatTypes, NEW g \in FloatTypes, NEW x \in Unsigneds(Width(f))
  PROVE  LET r == FloatTo(f, g, x)
         IN  /\ r \in Unsigneds(Width(g)) /\ IsNeg(g, r) = IsNeg(f, x)
             /\ IsNaN(g, r) = IsNaN(f, x) /\ (IsInf(f, x) => IsInf(g, r))
             /\ IsNaN(f, x) => ~IsInf(g, r) /\ ~IsInf(f, x)
             /\ ~IsNaN(f, x) /\ ~IsInf(f, x) => IsNearest(g, Real(f, x), r)
<1> DEFINE r == FloatTo(f, g, x)
           neg == IsNeg(f, x)
<1>1. neg \in BOOLEAN
  BY PatternSigned
<1>2. CASE IsNaN(f, x)
  <2> DEFINE from == Format[f].fraction
             to == Format[g].fraction
             payload == Magnitude(f, x) - Inf(f)
             kept == IF to >= from THEN payload * 2^(to - from) ELSE payload \div 2^(from - to)
  <2>1. kept \in 0 .. Unit(g) - 1
    BY <1>2, PayloadKept
  <2>2. r = Quiet(g, Signed(g, neg, Inf(g) + kept))
    BY <1>2 DEF FloatTo
  <2> HIDE DEF kept, r, neg
  <2>3. r \in Unsigneds(Width(g)) /\ IsNaN(g, r) /\ ~IsInf(g, r) /\ IsNeg(g, r) = neg
    BY <1>1, <2>1, <2>2, QuietExact
  <2>4. ~IsInf(f, x)
    BY <1>2, PatternSigned, InfBelow DEF IsNaN, IsInf
  <2> QED BY <1>2, <2>3, <2>4 DEF r, neg
<1>3. CASE ~IsNaN(f, x) /\ IsInf(f, x)
  <2>1. r = Signed(g, neg, Inf(g))
    BY <1>3 DEF FloatTo
  <2>2. Inf(g) \in 0 .. SignBit(g) - 1 /\ Inf(g) \in Nat
    BY InfBelow
  <2> HIDE DEF r, neg
  <2>3. r \in Unsigneds(Width(g)) /\ Magnitude(g, r) = Inf(g) /\ IsNeg(g, r) = neg
    BY <1>1, <2>1, <2>2, SignedPattern
  <2>4. IsInf(g, r) /\ ~IsNaN(g, r)
    BY <2>2, <2>3 DEF IsInf, IsNaN
  <2> QED BY <1>3, <2>3, <2>4, Kinds DEF r, neg
<1>4. CASE ~IsNaN(f, x) /\ ~IsInf(f, x)
  <2> DEFINE m == Significand(f, x)
             e == Exponent(f, x)
  <2>1. r = Nearest(g, neg, m, e)
    BY <1>4 DEF FloatTo
  <2>2. m \in Nat /\ e \in Nat /\ Real(f, x) = IF neg THEN -(m * 2^e) ELSE m * 2^e
    BY RealUnits
  <2> HIDE DEF r, neg, m, e
  <2>3. e \in Int /\ e >= 0
    BY <2>2
  <2>4. r \in Unsigneds(Width(g)) /\ ~IsNaN(g, r) /\ IsNeg(g, r) = neg /\ IsNearest(g, Real(f, x), r)
    BY <1>1, <2>1, <2>2, <2>3, NearestExact
  <2> QED BY <1>4, <2>4, Kinds DEF r, neg
<1> QED BY <1>2, <1>3, <1>4

-----------------------------------------------------------------------------
(* The recursive functions unfolded *)

\* The sets of operands on the first n types.
UnfoldsOperands(types, n, g) ==
  g = [k \in 0 .. n |-> IF k = 0 THEN {<< >>}
                        ELSE Pushed(g[k - 1], types[k])]

LEMMA OperandsLoop ==
  ASSUME NEW types, Len(types) \in Nat
  PROVE  \E g : UnfoldsOperands(types, Len(types), g) /\ Operands(types) = g[Len(types)]
<1> DEFINE P == {m \in 0 .. Len(types) : \E g : UnfoldsOperands(types, m, g)}
<1>1. 0 \in P
  <2> DEFINE g0 == [k \in 0 .. 0 |-> {<< >>}]
  <2>1. UnfoldsOperands(types, 0, g0)
    BY DEF UnfoldsOperands
  <2> QED BY <2>1
<1>2. ASSUME NEW m \in 0 .. Len(types), m \in P, m < Len(types) PROVE m + 1 \in P
  <2>1. PICK g : UnfoldsOperands(types, m, g)
    BY <1>2
  <2> DEFINE g1 == [k \in 0 .. m + 1 |-> IF k = 0 THEN {<< >>}
                      ELSE Pushed(g[k - 1], types[k])]
  <2>2. \A k \in 0 .. m : g1[k] = g[k]
    <3> DEFINE first == {<< >>}
    <3> HIDE DEF first
    <3>1. \A k \in 0 .. m : g[k] = IF k = 0 THEN first ELSE Pushed(g[k - 1], types[k])
      <4>1. g = [k \in 0 .. m |-> IF k = 0 THEN first ELSE Pushed(g[k - 1], types[k])]
        BY <2>1, Zenon DEF UnfoldsOperands, first
      <4> QED BY ONLY <4>1
    <3>3. \A k \in 0 .. m : k \in 0 .. m + 1
      OBVIOUS
    <3>2. \A k \in 0 .. m + 1 : g1[k] = IF k = 0 THEN first ELSE Pushed(g[k - 1], types[k])
      BY DEF first
    <3> QED BY ONLY <3>1, <3>2, <3>3
  <2>3. UnfoldsOperands(types, m + 1, g1)
    <3> \A k \in 0 .. m + 1 : k # 0 => k - 1 \in 0 .. m
      OBVIOUS
    <3> QED BY <2>2 DEF UnfoldsOperands
  <2> HIDE DEF g1
  <2>4. m + 1 \in 0 .. Len(types)
    BY <1>2
  <2> QED BY <2>3, <2>4
<1>3. Len(types) \in P
  <2> HIDE DEF P
  <2>1. 0 .. Len(types) \subseteq P
    BY <1>1, <1>2, Upto
  <2> QED BY <2>1
<1> DEFINE h == CHOOSE g : UnfoldsOperands(types, Len(types), g)
<1>4. UnfoldsOperands(types, Len(types), h)
  BY <1>3
<1>5. Operands(types) = h[Len(types)]
  BY Zenon DEF Operands, UnfoldsOperands
<1> QED BY <1>4, <1>5

\* A stack of operands: cells of these types with values that are tried.
Fits(s, types) ==
  /\ s \in Seq([t : ValueTypes, v : UNION {Samples[t] : t \in ValueTypes}]) /\ Len(s) = Len(types)
  /\ \A k \in 1 .. Len(s) : s[k].t = types[k] /\ s[k].v \in Samples[types[k]]

LEMMA OperandsFit ==
  ASSUME NEW types \in Seq(ValueTypes), NEW s \in Operands(types)
  PROVE  Fits(s, types)
<1> DEFINE Cell == [t : ValueTypes, v : UNION {Samples[t] : t \in ValueTypes}]
           n == Len(types)
           Good(q, k) == q \in Seq(Cell) /\ Len(q) = k /\ \A j \in 1 .. k : q[j].t = types[j] /\ q[j].v \in Samples[types[j]]
<1>1. PICK g : UnfoldsOperands(types, n, g) /\ Operands(types) = g[n]
  BY OperandsLoop
<1>2. n \in Nat /\ \A k \in 1 .. n : types[k] \in ValueTypes
  OBVIOUS
<1> DEFINE P == {k \in 0 .. n : \A q \in g[k] : Good(q, k)}
<1>3. 0 \in P
  <2>1. g[0] = {<< >>}
    BY <1>1, <1>2 DEF UnfoldsOperands
  <2>2. Good(<< >>, 0)
    OBVIOUS
  <2> HIDE DEF Good
  <2>3. \A q \in g[0] : Good(q, 0)
    BY <2>1, <2>2
  <2> QED BY <2>3, <1>2
<1>4. ASSUME NEW k \in 0 .. n, k \in P, k < n PROVE k + 1 \in P
  <2>1. k + 1 \in 1 .. n /\ k + 1 # 0 /\ (k + 1) - 1 = k /\ k + 1 \in 0 .. n
    BY <1>4, <1>2
  <2>2. g[k + 1] = Pushed(g[k], types[k + 1])
    BY <1>1, <2>1 DEF UnfoldsOperands
  <2>3. ASSUME NEW r \in g[k + 1] PROVE Good(r, k + 1)
    <3>1. PICK q \in g[k], v \in Samples[types[k + 1]] : r = Append(q, [t |-> types[k + 1], v |-> v])
      BY <2>2 DEF Pushed
    <3>2. Good(q, k)
      BY <1>4
    <3> DEFINE c == [t |-> types[k + 1], v |-> v]
    <3>3. c \in Cell /\ c.t = types[k + 1] /\ c.v \in Samples[types[k + 1]]
      BY <2>1, <1>2
    <3>4. r = Append(q, c)
      BY <3>1
    <3> HIDE DEF c
    <3>5. r \in Seq(Cell) /\ Len(r) = k + 1
      BY <3>2, <3>3, <3>4
    <3>6. \A j \in 1 .. k + 1 : r[j] = IF j = k + 1 THEN c ELSE q[j]
      BY <3>2, <3>3, <3>4, <2>1
    <3> HIDE DEF Cell
    <3>7. ASSUME NEW j \in 1 .. k + 1 PROVE r[j].t = types[j] /\ r[j].v \in Samples[types[j]]
      <4>1. CASE j = k + 1
        BY <4>1, <3>3, <3>6
      <4>2. CASE j # k + 1
        <5>1. j \in 1 .. k
          BY <4>2, <2>1
        <5> QED BY <5>1, <4>2, <3>2, <3>6
      <4> QED BY <4>1, <4>2
    <3> QED BY <3>5, <3>7
  <2> QED BY <2>1, <2>3
<1>5. Good(s, n)
  <2> HIDE DEF P
  <2>1. 0 .. n \subseteq P
    BY <1>2, <1>3, <1>4, Upto
  <2>2. n \in P
    BY <2>1, <1>2
  <2> QED BY <2>2, <1>1 DEF P
<1> QED BY <1>5 DEF Fits

\* The types before each instruction of a program.
UnfoldsTypes(p, n, g) ==
  g = [k \in 1 .. n + 1 |-> IF k = 1 THEN Needs(p) ELSE After(g[k - 1], p[k - 1])]

LEMMA TypesLoop ==
  ASSUME NEW p, Len(p) \in Nat
  PROVE  /\ Types(p)[1] = Needs(p)
         /\ \A k \in 1 .. Len(p) : Types(p)[k + 1] = After(Types(p)[k], p[k])
<1> DEFINE P == {m \in 0 .. Len(p) : \E g : UnfoldsTypes(p, m, g)}
<1>1. 0 \in P
  <2> DEFINE g0 == [k \in 1 .. 1 |-> Needs(p)]
  <2>1. UnfoldsTypes(p, 0, g0)
    BY DEF UnfoldsTypes
  <2> QED BY <2>1
<1>2. ASSUME NEW m \in 0 .. Len(p), m \in P, m < Len(p) PROVE m + 1 \in P
  <2>1. PICK g : UnfoldsTypes(p, m, g)
    BY <1>2
  <2> DEFINE g1 == [k \in 1 .. (m + 1) + 1 |-> IF k = 1 THEN Needs(p) ELSE After(g[k - 1], p[k - 1])]
  <2>2. \A k \in 1 .. m + 1 : g1[k] = g[k]
    BY <2>1 DEF UnfoldsTypes
  <2>3. UnfoldsTypes(p, m + 1, g1)
    <3> \A k \in 1 .. (m + 1) + 1 : k # 1 => k - 1 \in 1 .. m + 1
      OBVIOUS
    <3> QED BY <2>2 DEF UnfoldsTypes
  <2> HIDE DEF g1
  <2>4. m + 1 \in 0 .. Len(p)
    BY <1>2
  <2> QED BY <2>3, <2>4
<1>3. Len(p) \in P
  <2> HIDE DEF P
  <2>1. 0 .. Len(p) \subseteq P
    BY <1>1, <1>2, Upto
  <2> QED BY <2>1
<1>4. UnfoldsTypes(p, Len(p), Types(p))
  BY <1>3 DEF Types, UnfoldsTypes
<1>5. \A k \in 1 .. Len(p) : k + 1 \in 1 .. Len(p) + 1 /\ k + 1 # 1 /\ (k + 1) - 1 = k
  OBVIOUS
<1> QED BY <1>4, <1>5 DEF UnfoldsTypes


-----------------------------------------------------------------------------
(* The operands that are promised are there *)

\* What a program may be.
LEMMA ProgramFacts ==
  ASSUME NEW p \in Programs
  PROVE  /\ Len(p) \in {1, 2} /\ DOMAIN p = 1 .. Len(p)
         /\ \A k \in 1 .. Len(p) :
              /\ p[k] \in Range(p) /\ HasOperation(p[k]) /\ HasAreas(p[k])
              /\ Sig(p[k]).params \in Seq(ValueTypes) /\ Sig(p[k]).results \in Seq(ValueTypes)
         /\ Len(p) = 2 => Sig(p[1]).results = << >>
<1>1. p \in Seq(Range(p)) /\ Len(p) \in {1, 2} /\ DOMAIN p = 1 .. Len(p)
  BY ProgramsAssumption
<1>2. \A i \in Range(p) :
        HasOperation(i) /\ HasAreas(i) /\ Sig(i) \in [params : Seq(ValueTypes), results : Seq(ValueTypes)]
  BY ProgramsAssumption
<1>3. \A k \in 1 .. Len(p) : p[k] \in Range(p)
  BY <1>1
<1>4. ASSUME Len(p) = 2 PROVE Sig(p[1]).results = << >>
  <2>1. p[1].class \in {"store", "storelane", "data.drop", "elem.drop"}
    BY <1>4, ProgramsAssumption
  <2> QED BY <2>1 DEF Sig, Loads, MemoryClasses, TableClasses, StoreRule, LaneRule, MemoryRule, TableRule, Effect
<1>5. \A e \in [params : Seq(ValueTypes), results : Seq(ValueTypes)] :
        e.params \in Seq(ValueTypes) /\ e.results \in Seq(ValueTypes)
  OBVIOUS
<1>6. \A k \in 1 .. Len(p) :
        /\ HasOperation(p[k]) /\ HasAreas(p[k])
        /\ Sig(p[k]).params \in Seq(ValueTypes) /\ Sig(p[k]).results \in Seq(ValueTypes)
  BY <1>2, <1>3, <1>5
<1> QED BY <1>1, <1>3, <1>4, <1>6

\* The types before an instruction end with those it pops.
EndsWith(types, params) ==
  /\ types \in Seq(ValueTypes) /\ Len(params) <= Len(types)
  /\ \A j \in 1 .. Len(params) : types[Len(types) - Len(params) + j] = params[j]

LEMMA EndsWithConcat ==
  ASSUME NEW a \in Seq(ValueTypes), NEW b \in Seq(ValueTypes)
  PROVE  EndsWith(a \o b, b) /\ SubSeq(a \o b, 1, Len(a \o b) - Len(b)) = a
<1>1. a \o b \in Seq(ValueTypes) /\ Len(a \o b) = Len(a) + Len(b)
  OBVIOUS
<1>2. \A j \in 1 .. Len(b) : (a \o b)[Len(a) + j] = b[j]
  OBVIOUS
<1>3. \A j \in 1 .. Len(a) : (a \o b)[j] = a[j]
  OBVIOUS
<1>4. SubSeq(a \o b, 1, Len(a \o b) - Len(b)) = a
  <2> DEFINE c == a \o b
  <2>1. c \in Seq(ValueTypes) /\ Len(c) - Len(b) = Len(a) /\ Len(a) <= Len(c) /\ Len(a) \in Nat
    BY <1>1
  <2>2. \A j \in 1 .. Len(a) : c[j] = a[j]
    BY <1>3
  <2> HIDE DEF c
  <2>3. SubSeq(c, 1, Len(a)) = a
    BY <2>1, <2>2
  <2> QED BY <2>1, <2>3 DEF c
<1> QED BY <1>1, <1>2, <1>4 DEF EndsWith

LEMMA TypesEnd ==
  ASSUME NEW p \in Programs, NEW k \in 1 .. Len(p)
  PROVE  /\ EndsWith(Types(p)[k], Sig(p[k]).params)
         /\ Types(p)[k + 1] = SubSeq(Types(p)[k], 1, Len(Types(p)[k]) - Len(Sig(p[k]).params)) \o Sig(p[k]).results
<1>1. Len(p) \in {1, 2} /\ Len(p) \in Nat
  BY ProgramFacts
<1>2. Types(p)[1] = Needs(p) /\ Types(p)[k + 1] = After(Types(p)[k], p[k])
  BY <1>1, TypesLoop
<1> DEFINE a == Sig(p[1]).params
           b == Sig(p[2]).params
<1>3. CASE Len(p) = 1
  <2>1. k = 1 /\ Needs(p) = a /\ a \in Seq(ValueTypes)
    BY <1>3, ProgramFacts DEF Needs
  <2>2. EndsWith(a, a)
    BY <2>1 DEF EndsWith
  <2> QED BY <1>2, <2>1, <2>2 DEF After
<1>4. CASE Len(p) = 2
  <2>1. a \in Seq(ValueTypes) /\ b \in Seq(ValueTypes) /\ Sig(p[1]).results = << >>
    <3>1. 1 \in 1 .. Len(p) /\ 2 \in 1 .. Len(p)
      BY <1>4
    <3> QED BY <3>1, <1>4, ProgramFacts
  <2>2. Needs(p) = SubSeq(b, 1, Len(b) - 0) \o a
    <3>1. Needs(p) = SubSeq(b, 1, Len(b) - Len(Sig(p[1]).results)) \o a
      <4>1. Len(p) # 1
        BY <1>4
      <4> QED BY <4>1, Zenon DEF Needs
    <3>2. Len(Sig(p[1]).results) = 0
      BY <2>1
    <3> QED BY <3>1, <3>2
  <2>3. SubSeq(b, 1, Len(b) - 0) = b
    BY <2>1
  <2> HIDE DEF a, b
  <2>4. Needs(p) = b \o a /\ EndsWith(b \o a, a) /\ SubSeq(b \o a, 1, Len(b \o a) - Len(a)) = b
    BY <2>1, <2>2, <2>3, EndsWithConcat
  <2>9. b \o << >> = b
    BY <2>1
  <2>5. EndsWith(b, b)
    BY <2>1 DEF EndsWith
  <2>6. Types(p)[1] = b \o a /\ Types(p)[1 + 1] = b
    <3>1. 1 \in 1 .. Len(p)
      BY <1>4
    <3>2. Types(p)[1 + 1] = After(Types(p)[1], p[1])
      BY <3>1, <1>1, TypesLoop
    <3> QED BY <3>2, <1>2, <2>1, <2>4, <2>9 DEF After, a
  <2>7. CASE k = 1
    BY <1>1, <1>2, <2>4, <2>6, <2>7 DEF a, After
  <2>8. CASE k = 2
    BY <1>2, <2>5, <2>6, <2>8 DEF b, After
  <2>10. k = 1 \/ k = 2
    BY <1>4
  <2> QED BY <2>7, <2>8, <2>10
<1> QED BY <1>1, <1>3, <1>4

\* Of an area only the cells change.
SameAreas(now) == now = [a \in DOMAIN Areas |-> [Areas[a] EXCEPT !.data = now[a].data]]

TypeInv ==
  /\ prog \in Programs /\ args \in Operands(Needs(prog))
  /\ pc \in 1 .. Len(prog) + 1
  /\ out = "run" => pc <= Len(prog)
  /\ out = "done" => pc = Len(prog) + 1
  /\ stack \in Seq(Range(stack))
  /\ SameAreas(areas)

LEMMA SameAreasFacts ==
  ASSUME NEW now, SameAreas(now)
  PROVE  /\ DOMAIN now = DOMAIN Areas
         /\ \A a \in DOMAIN Areas : /\ now[a].at = Areas[a].at /\ now[a].unit = Areas[a].unit
                                    /\ now[a].max = Areas[a].max
         /\ \A m, d : SameAreas([now EXCEPT ![m].data = d])
<1> DEFINE Kind == [at : {"i32", "i64"}, unit : Nat \ {0}, max : Nat, data : Seq(Nat)]
<1>1. \A a \in DOMAIN Areas : Areas[a] \in Kind
  BY AreasAssumption
<1>2. now = [a \in DOMAIN Areas |-> [Areas[a] EXCEPT !.data = now[a].data]]
  BY DEF SameAreas
<1>3. DOMAIN now = DOMAIN Areas
  BY <1>2
<1>4. \A a \in DOMAIN Areas : now[a] = [Areas[a] EXCEPT !.data = now[a].data]
  BY <1>2
<1>5. \A r \in Kind : \A d : /\ [r EXCEPT !.data = d].at = r.at /\ [r EXCEPT !.data = d].unit = r.unit
                              /\ [r EXCEPT !.data = d].max = r.max /\ [r EXCEPT !.data = d].data = d
  OBVIOUS
<1>6. \A r \in Kind : \A d, e : [[r EXCEPT !.data = d] EXCEPT !.data = e] = [r EXCEPT !.data = e]
  OBVIOUS
<1>7. ASSUME NEW m, NEW d PROVE SameAreas([now EXCEPT ![m].data = d])
  <2> DEFINE new == [now EXCEPT ![m].data = d]
  <2>1. new = [a \in DOMAIN Areas |-> IF a = m THEN [now[a] EXCEPT !.data = d] ELSE now[a]]
    BY <1>3
  <2> HIDE DEF new
  <2>2. ASSUME NEW a \in DOMAIN Areas PROVE new[a] = [Areas[a] EXCEPT !.data = new[a].data]
    <3>1. CASE a = m
      <4>1. new[a] = [now[a] EXCEPT !.data = d]
        BY <2>1, <3>1
      <4>2. new[a] = [[Areas[a] EXCEPT !.data = now[a].data] EXCEPT !.data = d]
        BY <4>1, <1>4, Zenon
      <4>3. new[a] = [Areas[a] EXCEPT !.data = d]
        BY <4>2, <1>6, <1>1
      <4>4. new[a].data = d
        BY <4>3, <1>5, <1>1
      <4> QED BY <4>3, <4>4
    <3>2. CASE a # m
      BY <2>1, <3>2, <1>4
    <3> QED BY <3>1, <3>2
  <2>3. new = [a \in DOMAIN Areas |-> new[a]]
    BY <2>1
  <2>4. SameAreas(new)
    BY <2>2, <2>3 DEF SameAreas
  <2> QED BY <2>4 DEF new
<1>8. ASSUME NEW a \in DOMAIN Areas
      PROVE  now[a].at = Areas[a].at /\ now[a].unit = Areas[a].unit /\ now[a].max = Areas[a].max
  <2> DEFINE A == Areas[a]
             d == now[a].data
  <2>1. A \in Kind /\ now[a] = [A EXCEPT !.data = d]
    BY <1>1, <1>4
  <2> HIDE DEF A, d, Kind
  <2> QED BY <2>1, <1>5 DEF A
<1> QED BY <1>3, <1>7, <1>8

LEMMA Concat ==
  ASSUME NEW Q, NEW a \in Seq(Q), NEW b \in Seq(Q)
  PROVE  /\ a \o b \in Seq(Q) /\ Len(a \o b) = Len(a) + Len(b) /\ Len(a) \in Nat /\ Len(b) \in Nat
         /\ \A k \in 1 .. Len(a) : (a \o b)[k] = a[k]
         /\ \A k \in Len(a) + 1 .. Len(a) + Len(b) : (a \o b)[k] = b[k - Len(a)]
<1>1. a \o b \in Seq(Q) /\ Len(a \o b) = Len(a) + Len(b) /\ Len(a) \in Nat /\ Len(b) \in Nat
  OBVIOUS
<1>2. \A k \in 1 .. Len(a) : (a \o b)[k] = a[k]
  OBVIOUS
<1>3. \A k \in Len(a) + 1 .. Len(a) + Len(b) : (a \o b)[k] = b[k - Len(a)]
  OBVIOUS
<1> QED BY <1>1, <1>2, <1>3

LEMMA InItsRange ==
  ASSUME NEW Q, NEW s \in Seq(Q)
  PROVE  s \in Seq(Range(s))
<1>1. DOMAIN s = 1 .. Len(s) /\ Len(s) \in Nat /\ s = [k \in 1 .. Len(s) |-> s[k]]
  OBVIOUS
<1>2. \A k \in 1 .. Len(s) : s[k] \in Range(s)
  BY <1>1 DEF Range
<1> QED BY <1>1, <1>2

\* want, popped one by one, is params.
IsReverse(want, params) ==
  /\ want \in Seq(ValueTypes) /\ Len(want) = Len(params)
  /\ \A j \in 1 .. Len(want) : want[j] = params[Len(params) - j + 1]

LEMMA Reverses ==
  /\ IsReverse(<< >>, << >>)
  /\ \A a \in ValueTypes : IsReverse(<<a>>, <<a>>)
  /\ \A a \in ValueTypes, b \in ValueTypes : IsReverse(<<b, a>>, <<a, b>>)
  /\ \A a \in ValueTypes, b \in ValueTypes, c \in ValueTypes : IsReverse(<<c, b, a>>, <<a, b, c>>)
<1>1. IsReverse(<< >>, << >>)
  BY DEF IsReverse
<1>2. ASSUME NEW a \in ValueTypes PROVE IsReverse(<<a>>, <<a>>)
  BY DEF IsReverse
<1>3. ASSUME NEW a \in ValueTypes, NEW b \in ValueTypes PROVE IsReverse(<<b, a>>, <<a, b>>)
  BY DEF IsReverse
<1>4. ASSUME NEW a \in ValueTypes, NEW b \in ValueTypes, NEW c \in ValueTypes
      PROVE  IsReverse(<<c, b, a>>, <<a, b, c>>)
  BY DEF IsReverse
<1> QED BY <1>1, <1>2, <1>3, <1>4

HasTypes(s, types) == [k \in DOMAIN s |-> s[k].t] = types

LEMMA PopsAgree ==
  ASSUME NEW types, NEW params \in Seq(ValueTypes), NEW want, EndsWith(types, params), IsReverse(want, params),
         stack \in Seq(Range(stack)), HasTypes(stack, types)
  PROVE  popWant(want)
<1>1. Len(stack) = Len(types) /\ DOMAIN stack = 1 .. Len(stack) /\ Len(stack) \in Nat
  BY DEF HasTypes, EndsWith
<1>2. \A k \in 1 .. Len(stack) : stack[k].t = types[k]
  BY <1>1 DEF HasTypes
<1>3. Len(want) = Len(params) /\ DOMAIN want = 1 .. Len(want) /\ Len(want) \in Nat /\ Len(want) <= Len(stack)
  BY <1>1 DEF IsReverse, EndsWith
<1>4. ASSUME NEW k \in DOMAIN want PROVE stack[Len(stack) - k + 1].t = want[k]
  <2> DEFINE j == Len(want) - k + 1
  <2>1. j \in 1 .. Len(params) /\ want[k] = params[j]
    BY <1>3 DEF IsReverse
  <2>2. types[Len(types) - Len(params) + j] = params[j]
    BY <2>1 DEF EndsWith
  <2>3. Len(types) - Len(params) + j = Len(stack) - k + 1 /\ Len(stack) - k + 1 \in 1 .. Len(stack)
    BY <1>1, <1>3
  <2> HIDE DEF j
  <2> QED BY <1>2, <2>1, <2>2, <2>3
<1> QED BY <1>3, <1>4 DEF popWant

\* An instruction that pops want and pushes values of these types.
Delivers(want, types) ==
  \E vals, now : /\ Advance(want, vals, now) /\ SameAreas(now)
                 /\ vals \in Seq(Range(vals)) /\ Len(vals) = Len(types)
                 /\ \A k \in 1 .. Len(types) : vals[k].t = types[k]

LEMMA DeliversAgree ==
  ASSUME NEW types, NEW params \in Seq(ValueTypes), NEW results \in Seq(ValueTypes), NEW want,
         EndsWith(types, params), IsReverse(want, params),
         stack \in Seq(Range(stack)), HasTypes(stack, types), Delivers(want, results)
  PROVE  /\ stack' \in Seq(Range(stack'))
         /\ HasTypes(stack', SubSeq(types, 1, Len(types) - Len(params)) \o results)
         /\ SameAreas(areas')
         /\ pc' = pc + 1 /\ out' = (IF pc = Len(prog) THEN "done" ELSE "run") /\ UNCHANGED <<prog, args>>
<1>1. PICK vals, now : /\ Advance(want, vals, now) /\ SameAreas(now)
                       /\ vals \in Seq(Range(vals)) /\ Len(vals) = Len(results)
                       /\ \A k \in 1 .. Len(results) : vals[k].t = results[k]
  BY DEF Delivers
<1> DEFINE m == Len(stack) - Len(want)
           All == Range(stack) \cup Range(vals)
           below == SubSeq(stack, 1, m)
<1>2. /\ Len(stack) = Len(types) /\ DOMAIN stack = 1 .. Len(stack) /\ Len(stack) \in Nat
      /\ \A k \in 1 .. Len(stack) : stack[k].t = types[k]
  BY DEF HasTypes, EndsWith
<1>3. Len(want) = Len(params) /\ Len(want) \in Nat /\ Len(want) <= Len(stack) /\ m \in 0 .. Len(stack)
  BY <1>2 DEF IsReverse, EndsWith
<1> HIDE DEF m
<1>4. stack' = below \o vals /\ areas' = now
  BY <1>1 DEF Advance, m
<1>5. stack \in Seq(All) /\ vals \in Seq(All)
  <2>1. \A k \in 1 .. Len(stack) : stack[k] \in Range(stack)
    BY <1>2 DEF Range
  <2>2. DOMAIN vals = 1 .. Len(vals) /\ Len(vals) \in Nat
    BY <1>1
  <2>3. \A k \in 1 .. Len(vals) : vals[k] \in Range(vals)
    BY <2>2 DEF Range
  <2> HIDE DEF All
  <2>4. Range(stack) \subseteq All /\ Range(vals) \subseteq All
    BY DEF All
  <2> QED BY <1>1, <2>1, <2>2, <2>3, <2>4
<1> HIDE DEF All
<1>6. below \in Seq(All) /\ Len(below) = m /\ \A k \in 1 .. m : below[k] = stack[k]
  BY <1>2, <1>3, <1>5
<1> HIDE DEF below
<1>7. /\ stack' \in Seq(All) /\ Len(stack') = m + Len(vals)
      /\ \A k \in 1 .. m : stack'[k] = stack[k]
      /\ \A k \in m + 1 .. m + Len(vals) : stack'[k] = vals[k - m]
  <2>1. /\ below \o vals \in Seq(All) /\ Len(below \o vals) = Len(below) + Len(vals)
        /\ \A k \in 1 .. Len(below) : (below \o vals)[k] = below[k]
        /\ \A k \in Len(below) + 1 .. Len(below) + Len(vals) : (below \o vals)[k] = vals[k - Len(below)]
    BY ONLY <1>5, <1>6, Concat
  <2> QED BY ONLY <1>4, <1>6, <2>1
<1>8. stack' \in Seq(Range(stack'))
  BY <1>7, InItsRange
<1> DEFINE rest == SubSeq(types, 1, m)
<1>9. rest \in Seq(ValueTypes) /\ Len(rest) = m /\ \A k \in 1 .. m : rest[k] = types[k]
  BY <1>2, <1>3 DEF EndsWith
<1> HIDE DEF rest
<1> DEFINE new == rest \o results
<1>10. /\ new \in Seq(ValueTypes) /\ Len(new) = m + Len(results)
       /\ \A k \in 1 .. m : new[k] = types[k]
       /\ \A k \in m + 1 .. m + Len(results) : new[k] = results[k - m]
  <2>1. /\ new \in Seq(ValueTypes) /\ Len(new) = Len(rest) + Len(results)
        /\ \A k \in 1 .. Len(rest) : new[k] = rest[k]
        /\ \A k \in Len(rest) + 1 .. Len(rest) + Len(results) : new[k] = results[k - Len(rest)]
    <3>1. rest \in Seq(ValueTypes) /\ results \in Seq(ValueTypes)
      BY <1>9
    <3> QED BY ONLY <3>1, Concat
  <2> HIDE DEF new
  <2> QED BY ONLY <1>9, <2>1
<1> HIDE DEF new
<1>11. Len(results) \in Nat /\ m \in Nat /\ m <= Len(stack) /\ Len(vals) = Len(results)
  BY <1>1, <1>2, <1>3
<1>12. ASSUME NEW k \in 1 .. Len(stack') PROVE stack'[k].t = new[k]
  <2>1. CASE k \in 1 .. m
    <3>1. k \in 1 .. Len(stack)
      BY <2>1, <1>11, <1>2
    <3> QED BY <2>1, <3>1, <1>2, <1>7, <1>10
  <2>2. CASE k \notin 1 .. m
    <3>1. k \in m + 1 .. m + Len(vals) /\ k - m \in 1 .. Len(results)
      BY <2>2, <1>7, <1>11
    <3> QED BY <3>1, <1>1, <1>7, <1>10, <1>11
  <2> QED BY <2>1, <2>2
<1>13. HasTypes(stack', new)
  <2>1. DOMAIN stack' = 1 .. Len(stack') /\ new \in Seq(ValueTypes) /\ Len(new) = Len(stack')
    BY <1>7, <1>10, <1>11
  <2>2. new = [k \in 1 .. Len(stack') |-> new[k]]
    BY <2>1
  <2> QED BY <2>1, <2>2, <1>12 DEF HasTypes
<1>14. new = SubSeq(types, 1, Len(types) - Len(params)) \o results
  BY <1>2, <1>3 DEF new, rest, m
<1> QED BY <1>1, <1>4, <1>8, <1>13, <1>14 DEF Advance

\* What a step makes of an instruction whose operands are there.
Promised ==
  /\ out = "run"
  /\ \E want : /\ IsReverse(want, Sig(ins).params)
               /\ ~popWant(want) \/ Stop("trap") \/ Delivers(want, Sig(ins).results)

AgreeInv == TypeInv /\ OperandsAgree

LEMMA PromisedStep ==
  ASSUME AgreeInv, Promised
  PROVE  AgreeInv'
<1>1. /\ prog \in Programs /\ pc \in 1 .. Len(prog) /\ stack \in Seq(Range(stack)) /\ SameAreas(areas) /\ ins = prog[pc]
      /\ HasTypes(stack, Types(prog)[pc]) /\ args \in Operands(Needs(prog)) /\ Len(prog) \in Nat
  <2>1. prog \in Programs /\ Len(prog) \in {1, 2}
    BY ProgramFacts DEF AgreeInv, TypeInv
  <2> QED BY <2>1 DEF AgreeInv, TypeInv, Promised, OperandsAgree, HasTypes, ins
<1> DEFINE types == Types(prog)[pc]
           params == Sig(ins).params
           results == Sig(ins).results
<1>2. params \in Seq(ValueTypes) /\ results \in Seq(ValueTypes)
  BY <1>1, ProgramFacts
<1>3. EndsWith(types, params) /\ Types(prog)[pc + 1] = SubSeq(types, 1, Len(types) - Len(params)) \o results
  BY <1>1, TypesEnd
<1>4. PICK want : /\ IsReverse(want, params)
                  /\ ~popWant(want) \/ Stop("trap") \/ Delivers(want, results)
  BY DEF Promised
<1> HIDE DEF types, params, results
<1>5. HasTypes(stack, types)
  BY <1>1 DEF types
<1>6. popWant(want)
  BY <1>1, <1>2, <1>3, <1>4, <1>5, PopsAgree
<1>7. CASE Stop("trap")
  BY <1>7 DEF AgreeInv, TypeInv, OperandsAgree, Stop
<1>8. CASE Delivers(want, results)
  <2>1. /\ stack' \in Seq(Range(stack'))
        /\ HasTypes(stack', SubSeq(types, 1, Len(types) - Len(params)) \o results)
        /\ SameAreas(areas')
        /\ pc' = pc + 1 /\ out' = (IF pc = Len(prog) THEN "done" ELSE "run") /\ UNCHANGED <<prog, args>>
    BY <1>1, <1>2, <1>3, <1>4, <1>5, <1>8, DeliversAgree
  <2>2. HasTypes(stack', Types(prog)[pc + 1])
    BY <2>1, <1>3
  <2>3. TypeInv'
    BY <1>1, <2>1 DEF TypeInv
  <2>4. OperandsAgree'
    BY <2>1, <2>2 DEF OperandsAgree, HasTypes
  <2> QED BY <2>3, <2>4 DEF AgreeInv
<1> QED BY <1>4, <1>6, <1>7, <1>8

-----------------------------------------------------------------------------
(* Every instruction pops what its signature says *)

Computes(want, t) ==
  ~popWant(want) \/ Stop("trap") \/ \E r, now : Advance(want, <<[t |-> t, v |-> r]>>, now) /\ SameAreas(now)
Clears(want) == ~popWant(want) \/ Stop("trap") \/ \E now : Advance(want, << >>, now) /\ SameAreas(now)

LEMMA ComputesPromised ==
  ASSUME NEW want, NEW params, NEW t, out = "run", Sig(ins) = Effect(params, <<t>>), IsReverse(want, params),
         Computes(want, t)
  PROVE  Promised
<1>1. Sig(ins).params = params /\ Sig(ins).results = <<t>>
  BY DEF Effect
<1>2. ASSUME NEW r, NEW now, Advance(want, <<[t |-> t, v |-> r]>>, now), SameAreas(now) PROVE Delivers(want, <<t>>)
  <2> DEFINE vals == <<[t |-> t, v |-> r]>>
  <2>1. vals \in Seq({[t |-> t, v |-> r]}) /\ Len(vals) = 1 /\ vals[1].t = t
    OBVIOUS
  <2>2. Len(<<t>>) = 1 /\ <<t>>[1] = t
    OBVIOUS
  <2>3. Advance(want, vals, now)
    BY <1>2
  <2> HIDE DEF vals
  <2>4. vals \in Seq(Range(vals)) /\ \A k \in 1 .. Len(<<t>>) : vals[k].t = <<t>>[k]
    BY <2>1, <2>2, InItsRange
  <2> QED BY <1>2, <2>1, <2>2, <2>3, <2>4 DEF Delivers
<1> QED BY <1>1, <1>2 DEF Promised, Computes

LEMMA ClearsPromised ==
  ASSUME NEW want, NEW params, out = "run", Sig(ins) = Effect(params, << >>), IsReverse(want, params), Clears(want)
  PROVE  Promised
<1>1. Sig(ins).params = params /\ Sig(ins).results = << >>
  BY DEF Effect
<1>2. ASSUME NEW now, Advance(want, << >>, now), SameAreas(now) PROVE Delivers(want, << >>)
  <2>1. << >> \in Seq(Range(<< >>)) /\ Len(<< >>) = 0 /\ \A k \in 1 .. Len(<< >>) : FALSE
    OBVIOUS
  <2> QED BY <1>2, <2>1 DEF Delivers
<1> QED BY <1>1, <1>2 DEF Promised, Clears

\* The operand types of the instruction at hand are value types.
LEMMA ParamsTyped ==
  ASSUME TypeInv, out = "run"
  PROVE  /\ Sig(ins).params \in Seq(ValueTypes) /\ HasAreas(ins) /\ HasOperation(ins)
         /\ \A params, results : Sig(ins) = Effect(params, results) => params \in Seq(ValueTypes)
<1>1. prog \in Programs /\ pc \in 1 .. Len(prog)
  <2>1. prog \in Programs
    BY DEF TypeInv
  <2>2. Len(prog) \in Nat
    BY <2>1, ProgramFacts
  <2> QED BY <2>1, <2>2 DEF TypeInv
<1>2. Sig(ins).params \in Seq(ValueTypes) /\ HasAreas(ins) /\ HasOperation(ins)
  BY <1>1, ProgramFacts DEF ins
<1> QED BY <1>2 DEF Effect

\* Integer instructions.
LEMMA IntegerPromised ==
  ASSUME TypeInv, Integer
  PROVE  Promised
<1>0. SameAreas(areas)
  BY DEF TypeInv
<1>1. ASSUME I32Binary PROVE Promised
  <2>1. out = "run" /\ ins.class = "binary" /\ ins.t = "i32" /\ Computes(<<"i32", "i32">>, "i32")
    BY <1>0, <1>1 DEF I32Binary, At, Compute, Computes
  <2>2. Sig(ins) = Effect(<<"i32", "i32">>, <<"i32">>)
    BY <2>1 DEF Sig, Loads, MemoryClasses, TableClasses, NumericSig
  <2>3. IsReverse(<<"i32", "i32">>, <<"i32", "i32">>)
    <3>1. <<"i32", "i32">> \in Seq(ValueTypes)
      BY <2>1, <2>2, ParamsTyped
    <3>2. "i32" \in ValueTypes
      BY <3>1
    <3> QED BY <3>2, Reverses
  <2> QED BY <2>1, <2>2, <2>3, ComputesPromised
<1>2. ASSUME I32Eqz PROVE Promised
  <2>1. out = "run" /\ ins.class = "eqz" /\ ins.t = "i32" /\ Computes(<<"i32">>, "i32")
    BY <1>0, <1>2 DEF I32Eqz, At, Compute, Computes
  <2>2. Sig(ins) = Effect(<<"i32">>, <<"i32">>)
    BY <2>1 DEF Sig, Loads, MemoryClasses, TableClasses, NumericSig
  <2>3. IsReverse(<<"i32">>, <<"i32">>)
    <3>1. <<"i32">> \in Seq(ValueTypes)
      BY <2>1, <2>2, ParamsTyped
    <3>2. "i32" \in ValueTypes
      BY <3>1
    <3> QED BY <3>2, Reverses
  <2> QED BY <2>1, <2>2, <2>3, ComputesPromised
<1>3. ASSUME I32Unary PROVE Promised
  <2>1. out = "run" /\ ins.class = "unary" /\ ins.t = "i32" /\ Computes(<<"i32">>, "i32")
    BY <1>0, <1>3 DEF I32Unary, At, Compute, Computes
  <2>2. Sig(ins) = Effect(<<"i32">>, <<"i32">>)
    BY <2>1 DEF Sig, Loads, MemoryClasses, TableClasses, NumericSig
  <2>3. IsReverse(<<"i32">>, <<"i32">>)
    <3>1. <<"i32">> \in Seq(ValueTypes)
      BY <2>1, <2>2, ParamsTyped
    <3>2. "i32" \in ValueTypes
      BY <3>1
    <3> QED BY <3>2, Reverses
  <2> QED BY <2>1, <2>2, <2>3, ComputesPromised
<1>4. ASSUME I64Binary PROVE Promised
  <2>1. out = "run" /\ ins.class = "binary" /\ ins.t = "i64" /\ Computes(<<"i64", "i64">>, "i64")
    BY <1>0, <1>4 DEF I64Binary, At, Compute, Computes
  <2>2. Sig(ins) = Effect(<<"i64", "i64">>, <<"i64">>)
    BY <2>1 DEF Sig, Loads, MemoryClasses, TableClasses, NumericSig
  <2>3. IsReverse(<<"i64", "i64">>, <<"i64", "i64">>)
    <3>1. <<"i64", "i64">> \in Seq(ValueTypes)
      BY <2>1, <2>2, ParamsTyped
    <3>2. "i64" \in ValueTypes
      BY <3>1
    <3> QED BY <3>2, Reverses
  <2> QED BY <2>1, <2>2, <2>3, ComputesPromised
<1>5. ASSUME I64Compare PROVE Promised
  <2>1. out = "run" /\ ins.class = "compare" /\ ins.t = "i64" /\ Computes(<<"i64", "i64">>, "i32")
    BY <1>0, <1>5 DEF I64Compare, At, Compute, Computes
  <2>2. Sig(ins) = Effect(<<"i64", "i64">>, <<"i32">>)
    BY <2>1 DEF Sig, Loads, MemoryClasses, TableClasses, NumericSig
  <2>3. IsReverse(<<"i64", "i64">>, <<"i64", "i64">>)
    <3>1. <<"i64", "i64">> \in Seq(ValueTypes)
      BY <2>1, <2>2, ParamsTyped
    <3>2. "i64" \in ValueTypes
      BY <3>1
    <3> QED BY <3>2, Reverses
  <2> QED BY <2>1, <2>2, <2>3, ComputesPromised
<1>6. ASSUME I64Eqz PROVE Promised
  <2>1. out = "run" /\ ins.class = "eqz" /\ ins.t = "i64" /\ Computes(<<"i64">>, "i32")
    BY <1>0, <1>6 DEF I64Eqz, At, Compute, Computes
  <2>2. Sig(ins) = Effect(<<"i64">>, <<"i32">>)
    BY <2>1 DEF Sig, Loads, MemoryClasses, TableClasses, NumericSig
  <2>3. IsReverse(<<"i64">>, <<"i64">>)
    <3>1. <<"i64">> \in Seq(ValueTypes)
      BY <2>1, <2>2, ParamsTyped
    <3>2. "i64" \in ValueTypes
      BY <3>1
    <3> QED BY <3>2, Reverses
  <2> QED BY <2>1, <2>2, <2>3, ComputesPromised
<1>7. ASSUME I64Unary PROVE Promised
  <2>1. out = "run" /\ ins.class = "unary" /\ ins.t = "i64" /\ Computes(<<"i64">>, "i64")
    BY <1>0, <1>7 DEF I64Unary, At, Compute, Computes
  <2>2. Sig(ins) = Effect(<<"i64">>, <<"i64">>)
    BY <2>1 DEF Sig, Loads, MemoryClasses, TableClasses, NumericSig
  <2>3. IsReverse(<<"i64">>, <<"i64">>)
    <3>1. <<"i64">> \in Seq(ValueTypes)
      BY <2>1, <2>2, ParamsTyped
    <3>2. "i64" \in ValueTypes
      BY <3>1
    <3> QED BY <3>2, Reverses
  <2> QED BY <2>1, <2>2, <2>3, ComputesPromised
<1> QED BY <1>1, <1>2, <1>3, <1>4, <1>5, <1>6, <1>7 DEF Integer

\* Floating-point instructions.
LEMMA FloatPromised ==
  ASSUME TypeInv, Float
  PROVE  Promised
<1>0. SameAreas(areas)
  BY DEF TypeInv
<1>1. ASSUME F32Unary PROVE Promised
  <2>1. out = "run" /\ ins.class = "unary" /\ ins.t = "f32" /\ Computes(<<"f32">>, "f32")
    BY <1>0, <1>1 DEF F32Unary, At, Compute, Computes
  <2>2. Sig(ins) = Effect(<<"f32">>, <<"f32">>)
    BY <2>1 DEF Sig, Loads, MemoryClasses, TableClasses, NumericSig
  <2>3. IsReverse(<<"f32">>, <<"f32">>)
    <3>1. <<"f32">> \in Seq(ValueTypes)
      BY <2>1, <2>2, ParamsTyped
    <3>2. "f32" \in ValueTypes
      BY <3>1
    <3> QED BY <3>2, Reverses
  <2> QED BY <2>1, <2>2, <2>3, ComputesPromised
<1>2. ASSUME F32Binary PROVE Promised
  <2>1. out = "run" /\ ins.class = "binary" /\ ins.t = "f32" /\ Computes(<<"f32", "f32">>, "f32")
    BY <1>0, <1>2 DEF F32Binary, At, Compute, Computes
  <2>2. Sig(ins) = Effect(<<"f32", "f32">>, <<"f32">>)
    BY <2>1 DEF Sig, Loads, MemoryClasses, TableClasses, NumericSig
  <2>3. IsReverse(<<"f32", "f32">>, <<"f32", "f32">>)
    <3>1. <<"f32", "f32">> \in Seq(ValueTypes)
      BY <2>1, <2>2, ParamsTyped
    <3>2. "f32" \in ValueTypes
      BY <3>1
    <3> QED BY <3>2, Reverses
  <2> QED BY <2>1, <2>2, <2>3, ComputesPromised
<1>3. ASSUME F32Compare PROVE Promised
  <2>1. out = "run" /\ ins.class = "compare" /\ ins.t = "f32" /\ Computes(<<"f32", "f32">>, "i32")
    BY <1>0, <1>3 DEF F32Compare, At, Compute, Computes
  <2>2. Sig(ins) = Effect(<<"f32", "f32">>, <<"i32">>)
    BY <2>1 DEF Sig, Loads, MemoryClasses, TableClasses, NumericSig
  <2>3. IsReverse(<<"f32", "f32">>, <<"f32", "f32">>)
    <3>1. <<"f32", "f32">> \in Seq(ValueTypes)
      BY <2>1, <2>2, ParamsTyped
    <3>2. "f32" \in ValueTypes
      BY <3>1
    <3> QED BY <3>2, Reverses
  <2> QED BY <2>1, <2>2, <2>3, ComputesPromised
<1>4. ASSUME F64Unary PROVE Promised
  <2>1. out = "run" /\ ins.class = "unary" /\ ins.t = "f64" /\ Computes(<<"f64">>, "f64")
    BY <1>0, <1>4 DEF F64Unary, At, Compute, Computes
  <2>2. Sig(ins) = Effect(<<"f64">>, <<"f64">>)
    BY <2>1 DEF Sig, Loads, MemoryClasses, TableClasses, NumericSig
  <2>3. IsReverse(<<"f64">>, <<"f64">>)
    <3>1. <<"f64">> \in Seq(ValueTypes)
      BY <2>1, <2>2, ParamsTyped
    <3>2. "f64" \in ValueTypes
      BY <3>1
    <3> QED BY <3>2, Reverses
  <2> QED BY <2>1, <2>2, <2>3, ComputesPromised
<1>5. ASSUME F64Binary PROVE Promised
  <2>1. out = "run" /\ ins.class = "binary" /\ ins.t = "f64" /\ Computes(<<"f64", "f64">>, "f64")
    BY <1>0, <1>5 DEF F64Binary, At, Compute, Computes
  <2>2. Sig(ins) = Effect(<<"f64", "f64">>, <<"f64">>)
    BY <2>1 DEF Sig, Loads, MemoryClasses, TableClasses, NumericSig
  <2>3. IsReverse(<<"f64", "f64">>, <<"f64", "f64">>)
    <3>1. <<"f64", "f64">> \in Seq(ValueTypes)
      BY <2>1, <2>2, ParamsTyped
    <3>2. "f64" \in ValueTypes
      BY <3>1
    <3> QED BY <3>2, Reverses
  <2> QED BY <2>1, <2>2, <2>3, ComputesPromised
<1>6. ASSUME F64Compare PROVE Promised
  <2>1. out = "run" /\ ins.class = "compare" /\ ins.t = "f64" /\ Computes(<<"f64", "f64">>, "i32")
    BY <1>0, <1>6 DEF F64Compare, At, Compute, Computes
  <2>2. Sig(ins) = Effect(<<"f64", "f64">>, <<"i32">>)
    BY <2>1 DEF Sig, Loads, MemoryClasses, TableClasses, NumericSig
  <2>3. IsReverse(<<"f64", "f64">>, <<"f64", "f64">>)
    <3>1. <<"f64", "f64">> \in Seq(ValueTypes)
      BY <2>1, <2>2, ParamsTyped
    <3>2. "f64" \in ValueTypes
      BY <3>1
    <3> QED BY <3>2, Reverses
  <2> QED BY <2>1, <2>2, <2>3, ComputesPromised
<1> QED BY <1>1, <1>2, <1>3, <1>4, <1>5, <1>6 DEF Float

\* Vector instructions.
LEMMA VectorPromised ==
  ASSUME TypeInv, Vector
  PROVE  Promised
<1>0. SameAreas(areas)
  BY DEF TypeInv
<1>1. ASSUME Splat PROVE Promised
  <2>1. out = "run" /\ ins.class = "splat" /\ Computes(<<LaneType[ins.shape]>>, "v128")
    BY <1>0, <1>1 DEF Splat, At, Compute, Computes
  <2>2. Sig(ins) = Effect(<<LaneType[ins.shape]>>, <<"v128">>)
    BY <2>1 DEF Sig, Loads, MemoryClasses, TableClasses, VectorSig
  <2>3. IsReverse(<<LaneType[ins.shape]>>, <<LaneType[ins.shape]>>)
    <3>1. <<LaneType[ins.shape]>> \in Seq(ValueTypes)
      BY <2>1, <2>2, ParamsTyped
    <3>2. LaneType[ins.shape] \in ValueTypes
      BY <3>1
    <3> QED BY <3>2, Reverses
  <2> QED BY <2>1, <2>2, <2>3, ComputesPromised
<1>2. ASSUME ExtractLane PROVE Promised
  <2>1. out = "run" /\ ins.class = "extract" /\ Computes(<<"v128">>, LaneType[ins.shape])
    BY <1>0, <1>2 DEF ExtractLane, At, Compute, Computes
  <2>2. Sig(ins) = Effect(<<"v128">>, <<LaneType[ins.shape]>>)
    BY <2>1 DEF Sig, Loads, MemoryClasses, TableClasses, ExtractRule
  <2>3. IsReverse(<<"v128">>, <<"v128">>)
    <3>1. <<"v128">> \in Seq(ValueTypes)
      BY <2>1, <2>2, ParamsTyped
    <3>2. "v128" \in ValueTypes
      BY <3>1
    <3> QED BY <3>2, Reverses
  <2> QED BY <2>1, <2>2, <2>3, ComputesPromised
<1>3. ASSUME ReplaceLane PROVE Promised
  <2>1. out = "run" /\ ins.class = "replace" /\ Computes(<<LaneType[ins.shape], "v128">>, "v128")
    BY <1>0, <1>3 DEF ReplaceLane, At, Compute, Computes
  <2>2. Sig(ins) = Effect(<<"v128", LaneType[ins.shape]>>, <<"v128">>)
    BY <2>1 DEF Sig, Loads, MemoryClasses, TableClasses, ReplaceRule
  <2>3. IsReverse(<<LaneType[ins.shape], "v128">>, <<"v128", LaneType[ins.shape]>>)
    <3>1. <<"v128", LaneType[ins.shape]>> \in Seq(ValueTypes)
      BY <2>1, <2>2, ParamsTyped
    <3>2. "v128" \in ValueTypes /\ LaneType[ins.shape] \in ValueTypes
      BY <3>1
    <3> QED BY <3>2, Reverses
  <2> QED BY <2>1, <2>2, <2>3, ComputesPromised
<1>4. ASSUME Shuffle PROVE Promised
  <2>1. out = "run" /\ ins.class = "shuffle" /\ Computes(<<"v128", "v128">>, "v128")
    BY <1>0, <1>4 DEF Shuffle, At, Compute, Computes
  <2>2. Sig(ins) = Effect(<<"v128", "v128">>, <<"v128">>)
    BY <2>1 DEF Sig, Loads, MemoryClasses, TableClasses, ShuffleRule
  <2>3. IsReverse(<<"v128", "v128">>, <<"v128", "v128">>)
    <3>1. <<"v128", "v128">> \in Seq(ValueTypes)
      BY <2>1, <2>2, ParamsTyped
    <3>2. "v128" \in ValueTypes
      BY <3>1
    <3> QED BY <3>2, Reverses
  <2> QED BY <2>1, <2>2, <2>3, ComputesPromised
<1>5. ASSUME VTest PROVE Promised
  <2>1. out = "run" /\ ins.class = "vtest" /\ Computes(<<"v128">>, "i32")
    BY <1>0, <1>5 DEF VTest, At, Compute, Computes
  <2>2. Sig(ins) = Effect(<<"v128">>, <<"i32">>)
    BY <2>1 DEF Sig, Loads, MemoryClasses, TableClasses, VectorSig
  <2>3. IsReverse(<<"v128">>, <<"v128">>)
    <3>1. <<"v128">> \in Seq(ValueTypes)
      BY <2>1, <2>2, ParamsTyped
    <3>2. "v128" \in ValueTypes
      BY <3>1
    <3> QED BY <3>2, Reverses
  <2> QED BY <2>1, <2>2, <2>3, ComputesPromised
<1>6. ASSUME VUnary PROVE Promised
  <2>1. out = "run" /\ ins.class = "vunary" /\ Computes(<<"v128">>, "v128")
    BY <1>0, <1>6 DEF VUnary, At, Compute, Computes
  <2>2. Sig(ins) = Effect(<<"v128">>, <<"v128">>)
    BY <2>1 DEF Sig, Loads, MemoryClasses, TableClasses, VectorSig
  <2>3. IsReverse(<<"v128">>, <<"v128">>)
    <3>1. <<"v128">> \in Seq(ValueTypes)
      BY <2>1, <2>2, ParamsTyped
    <3>2. "v128" \in ValueTypes
      BY <3>1
    <3> QED BY <3>2, Reverses
  <2> QED BY <2>1, <2>2, <2>3, ComputesPromised
<1>7. ASSUME VBinary PROVE Promised
  <2>1. out = "run" /\ ins.class = "vbinary" /\ Computes(<<"v128", "v128">>, "v128")
    BY <1>0, <1>7 DEF VBinary, At, Compute, Computes
  <2>2. Sig(ins) = Effect(<<"v128", "v128">>, <<"v128">>)
    BY <2>1 DEF Sig, Loads, MemoryClasses, TableClasses, VectorSig
  <2>3. IsReverse(<<"v128", "v128">>, <<"v128", "v128">>)
    <3>1. <<"v128", "v128">> \in Seq(ValueTypes)
      BY <2>1, <2>2, ParamsTyped
    <3>2. "v128" \in ValueTypes
      BY <3>1
    <3> QED BY <3>2, Reverses
  <2> QED BY <2>1, <2>2, <2>3, ComputesPromised
<1>8. ASSUME VShift PROVE Promised
  <2>1. out = "run" /\ ins.class = "vshift" /\ Computes(<<"i32", "v128">>, "v128")
    BY <1>0, <1>8 DEF VShift, At, Compute, Computes
  <2>2. Sig(ins) = Effect(<<"v128", "i32">>, <<"v128">>)
    BY <2>1 DEF Sig, Loads, MemoryClasses, TableClasses, VectorSig
  <2>3. IsReverse(<<"i32", "v128">>, <<"v128", "i32">>)
    <3>1. <<"v128", "i32">> \in Seq(ValueTypes)
      BY <2>1, <2>2, ParamsTyped
    <3>2. "v128" \in ValueTypes /\ "i32" \in ValueTypes
      BY <3>1
    <3> QED BY <3>2, Reverses
  <2> QED BY <2>1, <2>2, <2>3, ComputesPromised
<1>9. ASSUME VTernary PROVE Promised
  <2>1. out = "run" /\ ins.class = "vternary" /\ Computes(<<"v128", "v128", "v128">>, "v128")
    BY <1>0, <1>9 DEF VTernary, At, Compute, Computes
  <2>2. Sig(ins) = Effect(<<"v128", "v128", "v128">>, <<"v128">>)
    BY <2>1 DEF Sig, Loads, MemoryClasses, TableClasses, VectorSig
  <2>3. IsReverse(<<"v128", "v128", "v128">>, <<"v128", "v128", "v128">>)
    <3>1. <<"v128", "v128", "v128">> \in Seq(ValueTypes)
      BY <2>1, <2>2, ParamsTyped
    <3>2. "v128" \in ValueTypes
      BY <3>1
    <3> QED BY <3>2, Reverses
  <2> QED BY <2>1, <2>2, <2>3, ComputesPromised
<1>10. ASSUME VCompare PROVE Promised
  <2>1. out = "run" /\ ins.class = "vcompare" /\ Computes(<<"v128", "v128">>, "v128")
    BY <1>0, <1>10 DEF VCompare, At, Compute, Computes
  <2>2. Sig(ins) = Effect(<<"v128", "v128">>, <<"v128">>)
    BY <2>1 DEF Sig, Loads, MemoryClasses, TableClasses, VectorSig
  <2>3. IsReverse(<<"v128", "v128">>, <<"v128", "v128">>)
    <3>1. <<"v128", "v128">> \in Seq(ValueTypes)
      BY <2>1, <2>2, ParamsTyped
    <3>2. "v128" \in ValueTypes
      BY <3>1
    <3> QED BY <3>2, Reverses
  <2> QED BY <2>1, <2>2, <2>3, ComputesPromised
<1> QED BY <1>1, <1>2, <1>3, <1>4, <1>5, <1>6, <1>7, <1>8, <1>9, <1>10 DEF Vector

\* Loads and stores.
LEMMA AccessingPromised ==
  ASSUME TypeInv, Accessing
  PROVE  Promised
<1>0. SameAreas(areas) /\ \A m, d : SameAreas([areas EXCEPT ![m].data = d])
  BY SameAreasFacts DEF TypeInv
<1>1. ASSUME I32Load PROVE Promised
  <2>1. out = "run" /\ ins.class = "load" /\ ins.t = "i32"
    BY <1>1 DEF I32Load, At
  <2>2. areas[ins.area].at = AddressType(ins.area)
    <3>1. ins.area \in DOMAIN Areas
      BY <2>1, ParamsTyped DEF HasAreas, Accesses, Loads, MemoryClasses, TableClasses
    <3> QED BY <1>0, <3>1, SameAreasFacts DEF AddressType
  <2>3. Computes(<<AddressType(ins.area)>>, "i32")
    BY <1>0, <1>1, <2>2 DEF I32Load, LoadInto, LoadBytes, IndexOf, popMemoryIndexOperand, Computes
  <2>4. Sig(ins) = Effect(<<AddressType(ins.area)>>, <<"i32">>)
    BY <2>1 DEF Sig, Loads, MemoryClasses, TableClasses, LoadRule
  <2>5. IsReverse(<<AddressType(ins.area)>>, <<AddressType(ins.area)>>)
    <3>1. <<AddressType(ins.area)>> \in Seq(ValueTypes)
      BY <2>1, <2>4, ParamsTyped
    <3>2. AddressType(ins.area) \in ValueTypes
      BY <3>1
    <3> QED BY <3>2, Reverses
  <2> QED BY <2>1, <2>3, <2>4, <2>5, ComputesPromised
<1>2. ASSUME I32Store PROVE Promised
  <2>1. out = "run" /\ ins.class = "store" /\ ins.t = "i32"
    BY <1>2 DEF I32Store, At
  <2>2. areas[ins.area].at = AddressType(ins.area)
    <3>1. ins.area \in DOMAIN Areas
      BY <2>1, ParamsTyped DEF HasAreas, Accesses, Loads, MemoryClasses, TableClasses
    <3> QED BY <1>0, <3>1, SameAreasFacts DEF AddressType
  <2>3. Clears(<<"i32", AddressType(ins.area)>>)
    BY <1>0, <1>2, <2>2 DEF I32Store, StoreFrom, StoreBytes, Written, IndexOf, popMemoryIndexOperand, Clears
  <2>4. Sig(ins) = Effect(<<AddressType(ins.area), "i32">>, << >>)
    BY <2>1 DEF Sig, Loads, MemoryClasses, TableClasses, StoreRule
  <2>5. IsReverse(<<"i32", AddressType(ins.area)>>, <<AddressType(ins.area), "i32">>)
    <3>1. <<AddressType(ins.area), "i32">> \in Seq(ValueTypes)
      BY <2>1, <2>4, ParamsTyped
    <3>2. AddressType(ins.area) \in ValueTypes /\ "i32" \in ValueTypes
      BY <3>1
    <3> QED BY <3>2, Reverses
  <2> QED BY <2>1, <2>3, <2>4, <2>5, ClearsPromised
<1>3. ASSUME I64Load PROVE Promised
  <2>1. out = "run" /\ ins.class = "load" /\ ins.t = "i64"
    BY <1>3 DEF I64Load, At
  <2>2. areas[ins.area].at = AddressType(ins.area)
    <3>1. ins.area \in DOMAIN Areas
      BY <2>1, ParamsTyped DEF HasAreas, Accesses, Loads, MemoryClasses, TableClasses
    <3> QED BY <1>0, <3>1, SameAreasFacts DEF AddressType
  <2>3. Computes(<<AddressType(ins.area)>>, "i64")
    BY <1>0, <1>3, <2>2 DEF I64Load, LoadInto, LoadBytes, IndexOf, popMemoryIndexOperand, Computes
  <2>4. Sig(ins) = Effect(<<AddressType(ins.area)>>, <<"i64">>)
    BY <2>1 DEF Sig, Loads, MemoryClasses, TableClasses, LoadRule
  <2>5. IsReverse(<<AddressType(ins.area)>>, <<AddressType(ins.area)>>)
    <3>1. <<AddressType(ins.area)>> \in Seq(ValueTypes)
      BY <2>1, <2>4, ParamsTyped
    <3>2. AddressType(ins.area) \in ValueTypes
      BY <3>1
    <3> QED BY <3>2, Reverses
  <2> QED BY <2>1, <2>3, <2>4, <2>5, ComputesPromised
<1>4. ASSUME I64Store PROVE Promised
  <2>1. out = "run" /\ ins.class = "store" /\ ins.t = "i64"
    BY <1>4 DEF I64Store, At
  <2>2. areas[ins.area].at = AddressType(ins.area)
    <3>1. ins.area \in DOMAIN Areas
      BY <2>1, ParamsTyped DEF HasAreas, Accesses, Loads, MemoryClasses, TableClasses
    <3> QED BY <1>0, <3>1, SameAreasFacts DEF AddressType
  <2>3. Clears(<<"i64", AddressType(ins.area)>>)
    BY <1>0, <1>4, <2>2 DEF I64Store, StoreFrom, StoreBytes, Written, IndexOf, popMemoryIndexOperand, Clears
  <2>4. Sig(ins) = Effect(<<AddressType(ins.area), "i64">>, << >>)
    BY <2>1 DEF Sig, Loads, MemoryClasses, TableClasses, StoreRule
  <2>5. IsReverse(<<"i64", AddressType(ins.area)>>, <<AddressType(ins.area), "i64">>)
    <3>1. <<AddressType(ins.area), "i64">> \in Seq(ValueTypes)
      BY <2>1, <2>4, ParamsTyped
    <3>2. AddressType(ins.area) \in ValueTypes /\ "i64" \in ValueTypes
      BY <3>1
    <3> QED BY <3>2, Reverses
  <2> QED BY <2>1, <2>3, <2>4, <2>5, ClearsPromised
<1>5. ASSUME F32Load PROVE Promised
  <2>1. out = "run" /\ ins.class = "load" /\ ins.t = "f32"
    BY <1>5 DEF F32Load, At
  <2>2. areas[ins.area].at = AddressType(ins.area)
    <3>1. ins.area \in DOMAIN Areas
      BY <2>1, ParamsTyped DEF HasAreas, Accesses, Loads, MemoryClasses, TableClasses
    <3> QED BY <1>0, <3>1, SameAreasFacts DEF AddressType
  <2>3. Computes(<<AddressType(ins.area)>>, "f32")
    BY <1>0, <1>5, <2>2 DEF F32Load, LoadInto, LoadBytes, IndexOf, popMemoryIndexOperand, Computes
  <2>4. Sig(ins) = Effect(<<AddressType(ins.area)>>, <<"f32">>)
    BY <2>1 DEF Sig, Loads, MemoryClasses, TableClasses, LoadRule
  <2>5. IsReverse(<<AddressType(ins.area)>>, <<AddressType(ins.area)>>)
    <3>1. <<AddressType(ins.area)>> \in Seq(ValueTypes)
      BY <2>1, <2>4, ParamsTyped
    <3>2. AddressType(ins.area) \in ValueTypes
      BY <3>1
    <3> QED BY <3>2, Reverses
  <2> QED BY <2>1, <2>3, <2>4, <2>5, ComputesPromised
<1>6. ASSUME F32Store PROVE Promised
  <2>1. out = "run" /\ ins.class = "store" /\ ins.t = "f32"
    BY <1>6 DEF F32Store, At
  <2>2. areas[ins.area].at = AddressType(ins.area)
    <3>1. ins.area \in DOMAIN Areas
      BY <2>1, ParamsTyped DEF HasAreas, Accesses, Loads, MemoryClasses, TableClasses
    <3> QED BY <1>0, <3>1, SameAreasFacts DEF AddressType
  <2>3. Clears(<<"f32", AddressType(ins.area)>>)
    BY <1>0, <1>6, <2>2 DEF F32Store, StoreFrom, StoreBytes, Written, IndexOf, popMemoryIndexOperand, Clears
  <2>4. Sig(ins) = Effect(<<AddressType(ins.area), "f32">>, << >>)
    BY <2>1 DEF Sig, Loads, MemoryClasses, TableClasses, StoreRule
  <2>5. IsReverse(<<"f32", AddressType(ins.area)>>, <<AddressType(ins.area), "f32">>)
    <3>1. <<AddressType(ins.area), "f32">> \in Seq(ValueTypes)
      BY <2>1, <2>4, ParamsTyped
    <3>2. AddressType(ins.area) \in ValueTypes /\ "f32" \in ValueTypes
      BY <3>1
    <3> QED BY <3>2, Reverses
  <2> QED BY <2>1, <2>3, <2>4, <2>5, ClearsPromised
<1>7. ASSUME F64Load PROVE Promised
  <2>1. out = "run" /\ ins.class = "load" /\ ins.t = "f64"
    BY <1>7 DEF F64Load, At
  <2>2. areas[ins.area].at = AddressType(ins.area)
    <3>1. ins.area \in DOMAIN Areas
      BY <2>1, ParamsTyped DEF HasAreas, Accesses, Loads, MemoryClasses, TableClasses
    <3> QED BY <1>0, <3>1, SameAreasFacts DEF AddressType
  <2>3. Computes(<<AddressType(ins.area)>>, "f64")
    BY <1>0, <1>7, <2>2 DEF F64Load, LoadInto, LoadBytes, IndexOf, popMemoryIndexOperand, Computes
  <2>4. Sig(ins) = Effect(<<AddressType(ins.area)>>, <<"f64">>)
    BY <2>1 DEF Sig, Loads, MemoryClasses, TableClasses, LoadRule
  <2>5. IsReverse(<<AddressType(ins.area)>>, <<AddressType(ins.area)>>)
    <3>1. <<AddressType(ins.area)>> \in Seq(ValueTypes)
      BY <2>1, <2>4, ParamsTyped
    <3>2. AddressType(ins.area) \in ValueTypes
      BY <3>1
    <3> QED BY <3>2, Reverses
  <2> QED BY <2>1, <2>3, <2>4, <2>5, ComputesPromised
<1>8. ASSUME F64Store PROVE Promised
  <2>1. out = "run" /\ ins.class = "store" /\ ins.t = "f64"
    BY <1>8 DEF F64Store, At
  <2>2. areas[ins.area].at = AddressType(ins.area)
    <3>1. ins.area \in DOMAIN Areas
      BY <2>1, ParamsTyped DEF HasAreas, Accesses, Loads, MemoryClasses, TableClasses
    <3> QED BY <1>0, <3>1, SameAreasFacts DEF AddressType
  <2>3. Clears(<<"f64", AddressType(ins.area)>>)
    BY <1>0, <1>8, <2>2 DEF F64Store, StoreFrom, StoreBytes, Written, IndexOf, popMemoryIndexOperand, Clears
  <2>4. Sig(ins) = Effect(<<AddressType(ins.area), "f64">>, << >>)
    BY <2>1 DEF Sig, Loads, MemoryClasses, TableClasses, StoreRule
  <2>5. IsReverse(<<"f64", AddressType(ins.area)>>, <<AddressType(ins.area), "f64">>)
    <3>1. <<AddressType(ins.area), "f64">> \in Seq(ValueTypes)
      BY <2>1, <2>4, ParamsTyped
    <3>2. AddressType(ins.area) \in ValueTypes /\ "f64" \in ValueTypes
      BY <3>1
    <3> QED BY <3>2, Reverses
  <2> QED BY <2>1, <2>3, <2>4, <2>5, ClearsPromised
<1>9. ASSUME V128Load PROVE Promised
  <2>1. out = "run" /\ ins.class = "vload"
    BY <1>9 DEF V128Load, At
  <2>2. areas[ins.area].at = AddressType(ins.area)
    <3>1. ins.area \in DOMAIN Areas
      BY <2>1, ParamsTyped DEF HasAreas, Accesses, Loads, MemoryClasses, TableClasses
    <3> QED BY <1>0, <3>1, SameAreasFacts DEF AddressType
  <2>3. Computes(<<AddressType(ins.area)>>, "v128")
    BY <1>0, <1>9, <2>2 DEF V128Load, LoadBytes, IndexOf, popMemoryIndexOperand, Computes
  <2>4. Sig(ins) = Effect(<<AddressType(ins.area)>>, <<"v128">>)
    <3>1. ins.t = "v128"
      BY <2>1, ParamsTyped DEF HasOperation
    <3> QED BY <2>1, <3>1 DEF Sig, Loads, MemoryClasses, TableClasses, LoadRule
  <2>5. IsReverse(<<AddressType(ins.area)>>, <<AddressType(ins.area)>>)
    <3>1. <<AddressType(ins.area)>> \in Seq(ValueTypes)
      BY <2>1, <2>4, ParamsTyped
    <3>2. AddressType(ins.area) \in ValueTypes
      BY <3>1
    <3> QED BY <3>2, Reverses
  <2> QED BY <2>1, <2>3, <2>4, <2>5, ComputesPromised
<1>10. ASSUME V128LoadSplat PROVE Promised
  <2>1. out = "run" /\ ins.class = "loadsplat"
    BY <1>10 DEF V128LoadSplat, At
  <2>2. areas[ins.area].at = AddressType(ins.area)
    <3>1. ins.area \in DOMAIN Areas
      BY <2>1, ParamsTyped DEF HasAreas, Accesses, Loads, MemoryClasses, TableClasses
    <3> QED BY <1>0, <3>1, SameAreasFacts DEF AddressType
  <2>3. Computes(<<AddressType(ins.area)>>, "v128")
    BY <1>0, <1>10, <2>2 DEF V128LoadSplat, LoadBytes, IndexOf, popMemoryIndexOperand, Computes
  <2>4. Sig(ins) = Effect(<<AddressType(ins.area)>>, <<"v128">>)
    <3>1. ins.t = "v128"
      BY <2>1, ParamsTyped DEF HasOperation
    <3> QED BY <2>1, <3>1 DEF Sig, Loads, MemoryClasses, TableClasses, LoadRule
  <2>5. IsReverse(<<AddressType(ins.area)>>, <<AddressType(ins.area)>>)
    <3>1. <<AddressType(ins.area)>> \in Seq(ValueTypes)
      BY <2>1, <2>4, ParamsTyped
    <3>2. AddressType(ins.area) \in ValueTypes
      BY <3>1
    <3> QED BY <3>2, Reverses
  <2> QED BY <2>1, <2>3, <2>4, <2>5, ComputesPromised
<1>11. ASSUME V128LoadExtend PROVE Promised
  <2>1. out = "run" /\ ins.class = "loadextend"
    BY <1>11 DEF V128LoadExtend, At
  <2>2. areas[ins.area].at = AddressType(ins.area)
    <3>1. ins.area \in DOMAIN Areas
      BY <2>1, ParamsTyped DEF HasAreas, Accesses, Loads, MemoryClasses, TableClasses
    <3> QED BY <1>0, <3>1, SameAreasFacts DEF AddressType
  <2>3. Computes(<<AddressType(ins.area)>>, "v128")
    BY <1>0, <1>11, <2>2 DEF V128LoadExtend, LoadBytes, IndexOf, popMemoryIndexOperand, Computes
  <2>4. Sig(ins) = Effect(<<AddressType(ins.area)>>, <<"v128">>)
    <3>1. ins.t = "v128"
      BY <2>1, ParamsTyped DEF HasOperation
    <3> QED BY <2>1, <3>1 DEF Sig, Loads, MemoryClasses, TableClasses, LoadRule
  <2>5. IsReverse(<<AddressType(ins.area)>>, <<AddressType(ins.area)>>)
    <3>1. <<AddressType(ins.area)>> \in Seq(ValueTypes)
      BY <2>1, <2>4, ParamsTyped
    <3>2. AddressType(ins.area) \in ValueTypes
      BY <3>1
    <3> QED BY <3>2, Reverses
  <2> QED BY <2>1, <2>3, <2>4, <2>5, ComputesPromised
<1>12. ASSUME V128LoadZero PROVE Promised
  <2>1. out = "run" /\ ins.class = "loadzero"
    BY <1>12 DEF V128LoadZero, At
  <2>2. areas[ins.area].at = AddressType(ins.area)
    <3>1. ins.area \in DOMAIN Areas
      BY <2>1, ParamsTyped DEF HasAreas, Accesses, Loads, MemoryClasses, TableClasses
    <3> QED BY <1>0, <3>1, SameAreasFacts DEF AddressType
  <2>3. Computes(<<AddressType(ins.area)>>, "v128")
    BY <1>0, <1>12, <2>2 DEF V128LoadZero, LoadBytes, IndexOf, popMemoryIndexOperand, Computes
  <2>4. Sig(ins) = Effect(<<AddressType(ins.area)>>, <<"v128">>)
    <3>1. ins.t = "v128"
      BY <2>1, ParamsTyped DEF HasOperation
    <3> QED BY <2>1, <3>1 DEF Sig, Loads, MemoryClasses, TableClasses, LoadRule
  <2>5. IsReverse(<<AddressType(ins.area)>>, <<AddressType(ins.area)>>)
    <3>1. <<AddressType(ins.area)>> \in Seq(ValueTypes)
      BY <2>1, <2>4, ParamsTyped
    <3>2. AddressType(ins.area) \in ValueTypes
      BY <3>1
    <3> QED BY <3>2, Reverses
  <2> QED BY <2>1, <2>3, <2>4, <2>5, ComputesPromised
<1>13. ASSUME V128Store PROVE Promised
  <2>1. out = "run" /\ ins.class = "store" /\ ins.t = "v128"
    BY <1>13 DEF V128Store, At
  <2>2. areas[ins.area].at = AddressType(ins.area)
    <3>1. ins.area \in DOMAIN Areas
      BY <2>1, ParamsTyped DEF HasAreas, Accesses, Loads, MemoryClasses, TableClasses
    <3> QED BY <1>0, <3>1, SameAreasFacts DEF AddressType
  <2>3. Clears(<<"v128", AddressType(ins.area)>>)
    BY <1>0, <1>13, <2>2 DEF V128Store, StoreBytes, Written, IndexOf, popMemoryIndexOperand, Clears
  <2>4. Sig(ins) = Effect(<<AddressType(ins.area), "v128">>, << >>)
    BY <2>1 DEF Sig, Loads, MemoryClasses, TableClasses, StoreRule
  <2>5. IsReverse(<<"v128", AddressType(ins.area)>>, <<AddressType(ins.area), "v128">>)
    <3>1. <<AddressType(ins.area), "v128">> \in Seq(ValueTypes)
      BY <2>1, <2>4, ParamsTyped
    <3>2. AddressType(ins.area) \in ValueTypes /\ "v128" \in ValueTypes
      BY <3>1
    <3> QED BY <3>2, Reverses
  <2> QED BY <2>1, <2>3, <2>4, <2>5, ClearsPromised
<1>14. ASSUME V128LoadLane PROVE Promised
  <2>1. out = "run" /\ ins.class = "loadlane"
    BY <1>14 DEF V128LoadLane, At
  <2>2. areas[ins.area].at = AddressType(ins.area)
    <3>1. ins.area \in DOMAIN Areas
      BY <2>1, ParamsTyped DEF HasAreas, Accesses, Loads, MemoryClasses, TableClasses
    <3> QED BY <1>0, <3>1, SameAreasFacts DEF AddressType
  <2>3. Computes(<<"v128", AddressType(ins.area)>>, "v128")
    BY <1>0, <1>14, <2>2 DEF V128LoadLane, LoadBytes, IndexOf, popMemoryIndexOperand, Computes
  <2>4. Sig(ins) = Effect(<<AddressType(ins.area), "v128">>, <<"v128">>)
    BY <2>1 DEF Sig, Loads, MemoryClasses, TableClasses, LaneRule
  <2>5. IsReverse(<<"v128", AddressType(ins.area)>>, <<AddressType(ins.area), "v128">>)
    <3>1. <<AddressType(ins.area), "v128">> \in Seq(ValueTypes)
      BY <2>1, <2>4, ParamsTyped
    <3>2. AddressType(ins.area) \in ValueTypes /\ "v128" \in ValueTypes
      BY <3>1
    <3> QED BY <3>2, Reverses
  <2> QED BY <2>1, <2>3, <2>4, <2>5, ComputesPromised
<1>15. ASSUME V128StoreLane PROVE Promised
  <2>1. out = "run" /\ ins.class = "storelane"
    BY <1>15 DEF V128StoreLane, At
  <2>2. areas[ins.area].at = AddressType(ins.area)
    <3>1. ins.area \in DOMAIN Areas
      BY <2>1, ParamsTyped DEF HasAreas, Accesses, Loads, MemoryClasses, TableClasses
    <3> QED BY <1>0, <3>1, SameAreasFacts DEF AddressType
  <2>3. Clears(<<"v128", AddressType(ins.area)>>)
    BY <1>0, <1>15, <2>2 DEF V128StoreLane, StoreBytes, Written, IndexOf, popMemoryIndexOperand, Clears
  <2>4. Sig(ins) = Effect(<<AddressType(ins.area), "v128">>, << >>)
    BY <2>1 DEF Sig, Loads, MemoryClasses, TableClasses, LaneRule
  <2>5. IsReverse(<<"v128", AddressType(ins.area)>>, <<AddressType(ins.area), "v128">>)
    <3>1. <<AddressType(ins.area), "v128">> \in Seq(ValueTypes)
      BY <2>1, <2>4, ParamsTyped
    <3>2. AddressType(ins.area) \in ValueTypes /\ "v128" \in ValueTypes
      BY <3>1
    <3> QED BY <3>2, Reverses
  <2> QED BY <2>1, <2>3, <2>4, <2>5, ClearsPromised
<1> QED BY <1>1, <1>2, <1>3, <1>4, <1>5, <1>6, <1>7, <1>8, <1>9, <1>10, <1>11, <1>12, <1>13, <1>14, <1>15 DEF Accessing

\* Instructions on memories.
LEMMA MemoriesPromised ==
  ASSUME TypeInv, Memories
  PROVE  Promised
<1>0. SameAreas(areas) /\ \A m, d : SameAreas([areas EXCEPT ![m].data = d])
  BY SameAreasFacts DEF TypeInv
<1>1. ASSUME MemorySize PROVE Promised
  <2>1. out = "run" /\ ins.class = "memory.size"
    BY <1>1 DEF MemorySize, At
  <2>2. areas[ins.area].at = AddressType(ins.area)
    <3>1. ins.area \in DOMAIN Areas
      BY <2>1, ParamsTyped DEF HasAreas, Accesses, Loads, MemoryClasses, TableClasses
    <3> QED BY <1>0, <3>1, SameAreasFacts DEF AddressType
  <2>3. Computes(<< >>, AddressType(ins.area))
    BY <1>0, <1>1, <2>2 DEF MemorySize, Bulk, pushMemoryIndexResult, Computes
  <2>4. Sig(ins) = Effect(<< >>, <<AddressType(ins.area)>>)
    BY <2>1 DEF Sig, Loads, MemoryClasses, TableClasses, MemoryRule, AddressType
  <2>5. IsReverse(<< >>, << >>)
    <3>1. << >> \in Seq(ValueTypes)
      BY <2>1, <2>4, ParamsTyped
    <3> QED BY Reverses
  <2> QED BY <2>1, <2>3, <2>4, <2>5, ComputesPromised
<1>2. ASSUME MemoryGrow PROVE Promised
  <2>1. out = "run" /\ ins.class = "memory.grow"
    BY <1>2 DEF MemoryGrow, At
  <2>2. areas[ins.area].at = AddressType(ins.area)
    <3>1. ins.area \in DOMAIN Areas
      BY <2>1, ParamsTyped DEF HasAreas, Accesses, Loads, MemoryClasses, TableClasses
    <3> QED BY <1>0, <3>1, SameAreasFacts DEF AddressType
  <2>3. Computes(<<AddressType(ins.area)>>, AddressType(ins.area))
    BY <1>0, <1>2, <2>2 DEF MemoryGrow, Bulk, pushMemoryIndexResult, Grown, IndexOf, popMemoryIndexOperand, Computes
  <2>4. Sig(ins) = Effect(<<AddressType(ins.area)>>, <<AddressType(ins.area)>>)
    BY <2>1 DEF Sig, Loads, MemoryClasses, TableClasses, MemoryRule, AddressType
  <2>5. IsReverse(<<AddressType(ins.area)>>, <<AddressType(ins.area)>>)
    <3>1. <<AddressType(ins.area)>> \in Seq(ValueTypes)
      BY <2>1, <2>4, ParamsTyped
    <3>2. AddressType(ins.area) \in ValueTypes
      BY <3>1
    <3> QED BY <3>2, Reverses
  <2> QED BY <2>1, <2>3, <2>4, <2>5, ComputesPromised
<1>3. ASSUME MemoryCopy PROVE Promised
  <2>1. out = "run" /\ ins.class = "memory.copy"
    BY <1>3 DEF MemoryCopy, At
  <2>2. areas[ins.area].at = AddressType(ins.area) /\ areas[ins.from].at = AddressType(ins.from)
    <3>1. ins.area \in DOMAIN Areas /\ ins.from \in DOMAIN Areas
      BY <2>1, ParamsTyped DEF HasAreas, Accesses, Loads, MemoryClasses, TableClasses
    <3> QED BY <1>0, <3>1, SameAreasFacts DEF AddressType
  <2>3. Clears(<<AddressType(ins.area), AddressType(ins.from), AddressType(ins.area)>>)
    BY <1>0, <1>3, <2>2 DEF MemoryCopy, Copy, Copied, Replaced, Written, Bulk, IndexOf, popMemoryIndexOperand, Clears
  <2>4. Sig(ins) = Effect(<<AddressType(ins.area), AddressType(ins.from), AddressType(ins.area)>>, << >>)
    BY <2>1 DEF Sig, Loads, MemoryClasses, TableClasses, MemoryRule, AddressType
  <2>5. IsReverse(<<AddressType(ins.area), AddressType(ins.from), AddressType(ins.area)>>, <<AddressType(ins.area), AddressType(ins.from), AddressType(ins.area)>>)
    <3>1. <<AddressType(ins.area), AddressType(ins.from), AddressType(ins.area)>> \in Seq(ValueTypes)
      BY <2>1, <2>4, ParamsTyped
    <3>2. AddressType(ins.area) \in ValueTypes /\ AddressType(ins.from) \in ValueTypes
      BY <3>1
    <3> QED BY <3>2, Reverses
  <2> QED BY <2>1, <2>3, <2>4, <2>5, ClearsPromised
<1>4. ASSUME MemoryFill PROVE Promised
  <2>1. out = "run" /\ ins.class = "memory.fill"
    BY <1>4 DEF MemoryFill, At
  <2>2. areas[ins.area].at = AddressType(ins.area)
    <3>1. ins.area \in DOMAIN Areas
      BY <2>1, ParamsTyped DEF HasAreas, Accesses, Loads, MemoryClasses, TableClasses
    <3> QED BY <1>0, <3>1, SameAreasFacts DEF AddressType
  <2>3. Clears(<<AddressType(ins.area), "i32", AddressType(ins.area)>>)
    BY <1>0, <1>4, <2>2 DEF MemoryFill, Replaced, Written, Bulk, IndexOf, popMemoryIndexOperand, Clears
  <2>4. Sig(ins) = Effect(<<AddressType(ins.area), "i32", AddressType(ins.area)>>, << >>)
    BY <2>1 DEF Sig, Loads, MemoryClasses, TableClasses, MemoryRule, AddressType
  <2>5. IsReverse(<<AddressType(ins.area), "i32", AddressType(ins.area)>>, <<AddressType(ins.area), "i32", AddressType(ins.area)>>)
    <3>1. <<AddressType(ins.area), "i32", AddressType(ins.area)>> \in Seq(ValueTypes)
      BY <2>1, <2>4, ParamsTyped
    <3>2. AddressType(ins.area) \in ValueTypes /\ "i32" \in ValueTypes
      BY <3>1
    <3> QED BY <3>2, Reverses
  <2> QED BY <2>1, <2>3, <2>4, <2>5, ClearsPromised
<1>5. ASSUME MemoryInit PROVE Promised
  <2>1. out = "run" /\ ins.class = "memory.init"
    BY <1>5 DEF MemoryInit, At
  <2>2. areas[ins.area].at = AddressType(ins.area)
    <3>1. ins.area \in DOMAIN Areas
      BY <2>1, ParamsTyped DEF HasAreas, Accesses, Loads, MemoryClasses, TableClasses
    <3> QED BY <1>0, <3>1, SameAreasFacts DEF AddressType
  <2>3. Clears(<<"i32", "i32", AddressType(ins.area)>>)
    BY <1>0, <1>5, <2>2 DEF MemoryInit, Copy, Copied, Replaced, Written, Bulk, IndexOf, popMemoryIndexOperand, Clears
  <2>4. Sig(ins) = Effect(<<AddressType(ins.area), "i32", "i32">>, << >>)
    BY <2>1 DEF Sig, Loads, MemoryClasses, TableClasses, MemoryRule, AddressType
  <2>5. IsReverse(<<"i32", "i32", AddressType(ins.area)>>, <<AddressType(ins.area), "i32", "i32">>)
    <3>1. <<AddressType(ins.area), "i32", "i32">> \in Seq(ValueTypes)
      BY <2>1, <2>4, ParamsTyped
    <3>2. AddressType(ins.area) \in ValueTypes /\ "i32" \in ValueTypes
      BY <3>1
    <3> QED BY <3>2, Reverses
  <2> QED BY <2>1, <2>3, <2>4, <2>5, ClearsPromised
<1>6. ASSUME DataDrop PROVE Promised
  <2>1. out = "run" /\ ins.class = "data.drop"
    BY <1>6 DEF DataDrop, At
  <2>3. Clears(<< >>)
    BY <1>0, <1>6 DEF DataDrop, Bulk, Clears
  <2>4. Sig(ins) = Effect(<< >>, << >>)
    BY <2>1 DEF Sig, Loads, MemoryClasses, TableClasses, MemoryRule, AddressType
  <2>5. IsReverse(<< >>, << >>)
    <3>1. << >> \in Seq(ValueTypes)
      BY <2>1, <2>4, ParamsTyped
    <3> QED BY Reverses
  <2> QED BY <2>1, <2>3, <2>4, <2>5, ClearsPromised
<1> QED BY <1>1, <1>2, <1>3, <1>4, <1>5, <1>6 DEF Memories

\* Instructions on tables.
LEMMA TablesPromised ==
  ASSUME TypeInv, Tables
  PROVE  Promised
<1>0. SameAreas(areas) /\ \A m, d : SameAreas([areas EXCEPT ![m].data = d])
  BY SameAreasFacts DEF TypeInv
<1>1. ASSUME TableSize PROVE Promised
  <2>1. out = "run" /\ ins.class = "table.size"
    BY <1>1 DEF TableSize, At
  <2>2. areas[ins.area].at = AddressType(ins.area)
    <3>1. ins.area \in DOMAIN Areas
      BY <2>1, ParamsTyped DEF HasAreas, Accesses, Loads, MemoryClasses, TableClasses
    <3> QED BY <1>0, <3>1, SameAreasFacts DEF AddressType
  <2>3. Computes(<< >>, AddressType(ins.area))
    BY <1>0, <1>1, <2>2 DEF TableSize, Bulk, pushTableIndexResult, Computes
  <2>4. Sig(ins) = Effect(<< >>, <<AddressType(ins.area)>>)
    BY <2>1 DEF Sig, Loads, MemoryClasses, TableClasses, TableRule, AddressType
  <2>5. IsReverse(<< >>, << >>)
    <3>1. << >> \in Seq(ValueTypes)
      BY <2>1, <2>4, ParamsTyped
    <3> QED BY Reverses
  <2> QED BY <2>1, <2>3, <2>4, <2>5, ComputesPromised
<1>2. ASSUME TableGet PROVE Promised
  <2>1. out = "run" /\ ins.class = "table.get"
    BY <1>2 DEF TableGet, At
  <2>2. areas[ins.area].at = AddressType(ins.area)
    <3>1. ins.area \in DOMAIN Areas
      BY <2>1, ParamsTyped DEF HasAreas, Accesses, Loads, MemoryClasses, TableClasses
    <3> QED BY <1>0, <3>1, SameAreasFacts DEF AddressType
  <2>3. Computes(<<AddressType(ins.area)>>, "ref")
    BY <1>0, <1>2, <2>2 DEF TableGet, Bulk, popTableIndexOperand, Computes
  <2>4. Sig(ins) = Effect(<<AddressType(ins.area)>>, <<"ref">>)
    BY <2>1 DEF Sig, Loads, MemoryClasses, TableClasses, TableRule, AddressType
  <2>5. IsReverse(<<AddressType(ins.area)>>, <<AddressType(ins.area)>>)
    <3>1. <<AddressType(ins.area)>> \in Seq(ValueTypes)
      BY <2>1, <2>4, ParamsTyped
    <3>2. AddressType(ins.area) \in ValueTypes
      BY <3>1
    <3> QED BY <3>2, Reverses
  <2> QED BY <2>1, <2>3, <2>4, <2>5, ComputesPromised
<1>3. ASSUME TableSet PROVE Promised
  <2>1. out = "run" /\ ins.class = "table.set"
    BY <1>3 DEF TableSet, At
  <2>2. areas[ins.area].at = AddressType(ins.area)
    <3>1. ins.area \in DOMAIN Areas
      BY <2>1, ParamsTyped DEF HasAreas, Accesses, Loads, MemoryClasses, TableClasses
    <3> QED BY <1>0, <3>1, SameAreasFacts DEF AddressType
  <2>3. Clears(<<"ref", AddressType(ins.area)>>)
    BY <1>0, <1>3, <2>2 DEF TableSet, Bulk, Replaced, Written, popTableIndexOperand, Clears
  <2>4. Sig(ins) = Effect(<<AddressType(ins.area), "ref">>, << >>)
    BY <2>1 DEF Sig, Loads, MemoryClasses, TableClasses, TableRule, AddressType
  <2>5. IsReverse(<<"ref", AddressType(ins.area)>>, <<AddressType(ins.area), "ref">>)
    <3>1. <<AddressType(ins.area), "ref">> \in Seq(ValueTypes)
      BY <2>1, <2>4, ParamsTyped
    <3>2. AddressType(ins.area) \in ValueTypes /\ "ref" \in ValueTypes
      BY <3>1
    <3> QED BY <3>2, Reverses
  <2> QED BY <2>1, <2>3, <2>4, <2>5, ClearsPromised
<1>4. ASSUME TableGrow PROVE Promised
  <2>1. out = "run" /\ ins.class = "table.grow"
    BY <1>4 DEF TableGrow, At
  <2>2. areas[ins.area].at = AddressType(ins.area)
    <3>1. ins.area \in DOMAIN Areas
      BY <2>1, ParamsTyped DEF HasAreas, Accesses, Loads, MemoryClasses, TableClasses
    <3> QED BY <1>0, <3>1, SameAreasFacts DEF AddressType
  <2>3. Computes(<<AddressType(ins.area), "ref">>, AddressType(ins.area))
    BY <1>0, <1>4, <2>2 DEF TableGrow, Bulk, pushTableIndexResult, Grown, popTableIndexOperand, Computes
  <2>4. Sig(ins) = Effect(<<"ref", AddressType(ins.area)>>, <<AddressType(ins.area)>>)
    BY <2>1 DEF Sig, Loads, MemoryClasses, TableClasses, TableRule, AddressType
  <2>5. IsReverse(<<AddressType(ins.area), "ref">>, <<"ref", AddressType(ins.area)>>)
    <3>1. <<"ref", AddressType(ins.area)>> \in Seq(ValueTypes)
      BY <2>1, <2>4, ParamsTyped
    <3>2. "ref" \in ValueTypes /\ AddressType(ins.area) \in ValueTypes
      BY <3>1
    <3> QED BY <3>2, Reverses
  <2> QED BY <2>1, <2>3, <2>4, <2>5, ComputesPromised
<1>5. ASSUME TableFill PROVE Promised
  <2>1. out = "run" /\ ins.class = "table.fill"
    BY <1>5 DEF TableFill, At
  <2>2. areas[ins.area].at = AddressType(ins.area)
    <3>1. ins.area \in DOMAIN Areas
      BY <2>1, ParamsTyped DEF HasAreas, Accesses, Loads, MemoryClasses, TableClasses
    <3> QED BY <1>0, <3>1, SameAreasFacts DEF AddressType
  <2>3. Clears(<<AddressType(ins.area), "ref", AddressType(ins.area)>>)
    BY <1>0, <1>5, <2>2 DEF TableFill, Replaced, Written, Bulk, popTableIndexOperand, Clears
  <2>4. Sig(ins) = Effect(<<AddressType(ins.area), "ref", AddressType(ins.area)>>, << >>)
    BY <2>1 DEF Sig, Loads, MemoryClasses, TableClasses, TableRule, AddressType
  <2>5. IsReverse(<<AddressType(ins.area), "ref", AddressType(ins.area)>>, <<AddressType(ins.area), "ref", AddressType(ins.area)>>)
    <3>1. <<AddressType(ins.area), "ref", AddressType(ins.area)>> \in Seq(ValueTypes)
      BY <2>1, <2>4, ParamsTyped
    <3>2. AddressType(ins.area) \in ValueTypes /\ "ref" \in ValueTypes
      BY <3>1
    <3> QED BY <3>2, Reverses
  <2> QED BY <2>1, <2>3, <2>4, <2>5, ClearsPromised
<1>6. ASSUME TableCopy PROVE Promised
  <2>1. out = "run" /\ ins.class = "table.copy"
    BY <1>6 DEF TableCopy, At
  <2>2. areas[ins.area].at = AddressType(ins.area) /\ areas[ins.from].at = AddressType(ins.from)
    <3>1. ins.area \in DOMAIN Areas /\ ins.from \in DOMAIN Areas
      BY <2>1, ParamsTyped, SMTT(60) DEF HasAreas, Accesses, Loads, MemoryClasses, TableClasses
    <3> QED BY <1>0, <3>1, SameAreasFacts DEF AddressType
  <2>3. Clears(<<Both64(ins.area, ins.from), AddressType(ins.from), AddressType(ins.area)>>)
    BY <1>0, <1>6, <2>2 DEF TableCopy, Copy, Copied, Replaced, Written, Bulk, popTableCopySizeOperand, Both64, popTableIndexOperand, Clears
  <2>4. Sig(ins) = Effect(<<AddressType(ins.area), AddressType(ins.from), Both64(ins.area, ins.from)>>, << >>)
    BY <2>1 DEF Sig, Loads, MemoryClasses, TableClasses, TableRule, AddressType
  <2>5. IsReverse(<<Both64(ins.area, ins.from), AddressType(ins.from), AddressType(ins.area)>>, <<AddressType(ins.area), AddressType(ins.from), Both64(ins.area, ins.from)>>)
    <3>1. <<AddressType(ins.area), AddressType(ins.from), Both64(ins.area, ins.from)>> \in Seq(ValueTypes)
      BY <2>1, <2>4, ParamsTyped
    <3>2. AddressType(ins.area) \in ValueTypes /\ AddressType(ins.from) \in ValueTypes /\ Both64(ins.area, ins.from) \in ValueTypes
      BY <3>1
    <3> QED BY <3>2, Reverses
  <2> QED BY <2>1, <2>3, <2>4, <2>5, ClearsPromised
<1>7. ASSUME TableInit PROVE Promised
  <2>1. out = "run" /\ ins.class = "table.init"
    BY <1>7 DEF TableInit, At
  <2>2. areas[ins.area].at = AddressType(ins.area)
    <3>1. ins.area \in DOMAIN Areas
      BY <2>1, ParamsTyped DEF HasAreas, Accesses, Loads, MemoryClasses, TableClasses
    <3> QED BY <1>0, <3>1, SameAreasFacts DEF AddressType
  <2>3. Clears(<<"i32", "i32", AddressType(ins.area)>>)
    BY <1>0, <1>7, <2>2 DEF TableInit, Copy, Copied, Replaced, Written, Bulk, popTableIndexOperand, Clears
  <2>4. Sig(ins) = Effect(<<AddressType(ins.area), "i32", "i32">>, << >>)
    BY <2>1 DEF Sig, Loads, MemoryClasses, TableClasses, TableRule, AddressType
  <2>5. IsReverse(<<"i32", "i32", AddressType(ins.area)>>, <<AddressType(ins.area), "i32", "i32">>)
    <3>1. <<AddressType(ins.area), "i32", "i32">> \in Seq(ValueTypes)
      BY <2>1, <2>4, ParamsTyped
    <3>2. AddressType(ins.area) \in ValueTypes /\ "i32" \in ValueTypes
      BY <3>1
    <3> QED BY <3>2, Reverses
  <2> QED BY <2>1, <2>3, <2>4, <2>5, ClearsPromised
<1>8. ASSUME ElemDrop PROVE Promised
  <2>1. out = "run" /\ ins.class = "elem.drop"
    BY <1>8 DEF ElemDrop, At
  <2>3. Clears(<< >>)
    BY <1>0, <1>8 DEF ElemDrop, Bulk, Clears
  <2>4. Sig(ins) = Effect(<< >>, << >>)
    BY <2>1 DEF Sig, Loads, MemoryClasses, TableClasses, TableRule, AddressType
  <2>5. IsReverse(<< >>, << >>)
    <3>1. << >> \in Seq(ValueTypes)
      BY <2>1, <2>4, ParamsTyped
    <3> QED BY Reverses
  <2> QED BY <2>1, <2>3, <2>4, <2>5, ClearsPromised
<1> QED BY <1>1, <1>2, <1>3, <1>4, <1>5, <1>6, <1>7, <1>8 DEF Tables

LEMMA AgreeInit == Init => AgreeInv
<1> SUFFICES ASSUME Init PROVE AgreeInv
  OBVIOUS
<1>1. prog \in Programs /\ Len(prog) \in {1, 2} /\ 1 \in 1 .. Len(prog)
  BY ProgramFacts DEF Init
<1>2. Types(prog)[1] = Needs(prog) /\ EndsWith(Types(prog)[1], Sig(prog[1]).params)
  <2>1. Len(prog) \in Nat
    BY <1>1
  <2> QED BY <1>1, <2>1, TypesLoop, TypesEnd
<1>3. Fits(args, Needs(prog)) /\ Needs(prog) \in Seq(ValueTypes)
  BY <1>2, OperandsFit DEF EndsWith, Init
<1>4. stack \in Seq(Range(stack)) /\ HasTypes(stack, Needs(prog))
  <2>1. stack = args /\ DOMAIN stack = 1 .. Len(stack) /\ Len(stack) = Len(Needs(prog))
    BY <1>3 DEF Init, Fits
  <2>2. Needs(prog) = [k \in 1 .. Len(stack) |-> Needs(prog)[k]]
    BY <1>3, <2>1
  <2>3. \A k \in 1 .. Len(stack) : stack[k].t = Needs(prog)[k]
    BY <1>3, <2>1 DEF Fits
  <2>4. HasTypes(stack, Needs(prog))
    BY <2>1, <2>2, <2>3 DEF HasTypes
  <2> QED BY <1>3, <2>1, <2>4, InItsRange DEF Fits
<1>5. SameAreas(areas)
  <2>1. \A r \in [at : {"i32", "i64"}, unit : Nat \ {0}, max : Nat, data : Seq(Nat)] : r = [r EXCEPT !.data = r.data]
    OBVIOUS
  <2>2. Areas = [a \in DOMAIN Areas |-> Areas[a]] /\ \A a \in DOMAIN Areas : Areas[a] = [Areas[a] EXCEPT !.data = Areas[a].data]
    BY <2>1, AreasAssumption
  <2> QED BY <2>2 DEF SameAreas, Init
<1> QED BY <1>1, <1>2, <1>4, <1>5 DEF AgreeInv, TypeInv, OperandsAgree, Init, HasTypes

LEMMA NextPromised ==
  ASSUME TypeInv, Next
  PROVE  Promised
<1>1. CASE Const
  <2>1. out = "run" /\ ins.class = "const" /\ Computes(<< >>, ins.t)
    BY <1>1 DEF Const, At, Compute, Computes, TypeInv
  <2>2. Sig(ins) = Effect(<< >>, <<ins.t>>)
    BY <2>1 DEF Sig, Loads, MemoryClasses, TableClasses, ConstRule
  <2> QED BY <2>1, <2>2, ComputesPromised, Reverses
<1>2. CASE Convert
  <2>1. out = "run" /\ ins.class = "convert" /\ Computes(<<ins.from>>, ins.t)
    BY <1>2 DEF Convert, At, Compute, Computes, TypeInv
  <2>2. Sig(ins) = Effect(<<ins.from>>, <<ins.t>>)
    BY <2>1 DEF Sig, Loads, MemoryClasses, TableClasses, NumericSig
  <2>3. IsReverse(<<ins.from>>, <<ins.from>>)
    <3>1. <<ins.from>> \in Seq(ValueTypes)
      BY <2>1, <2>2, ParamsTyped
    <3>2. ins.from \in ValueTypes
      BY <3>1
    <3> QED BY <3>2, Reverses
  <2> QED BY <2>1, <2>2, <2>3, ComputesPromised
<1> QED BY <1>1, <1>2, IntegerPromised, FloatPromised, VectorPromised, AccessingPromised, MemoriesPromised,
           TablesPromised DEF Next

LEMMA AgreeNext == AgreeInv /\ [Next]_vars => AgreeInv'
<1> SUFFICES ASSUME AgreeInv, [Next]_vars PROVE AgreeInv'
  OBVIOUS
<1>1. CASE Next
  BY <1>1, NextPromised, PromisedStep DEF AgreeInv
<1>2. CASE UNCHANGED vars
  BY <1>2 DEF vars, AgreeInv, TypeInv, OperandsAgree
<1> QED BY <1>1, <1>2

\* No instruction of an accepted program finds an operand missing or of another
\* type than the one it pops, and each leaves the types that were promised: the
\* signatures of the catalogue and the validator's rules for memories and tables
\* agree with the pops and pushes of the executor, whatever the index types.
THEOREM OperandsSafe == Spec => []OperandsAgree
<1>1. AgreeInv => OperandsAgree
  BY DEF AgreeInv
<1> QED BY <1>1, AgreeInit, AgreeNext, PTL DEF Spec

-----------------------------------------------------------------------------
(* A program of one instruction *)

\* The instruction is about to run.
Single ==
  /\ TypeInv /\ out = "run" /\ pc = 1 /\ Len(prog) = 1 /\ stack = args /\ areas = Areas

\* It ran: it trapped and nothing changed, or took the whole stack and left results.
Ran(results, now) ==
  /\ UNCHANGED <<prog, args>> /\ out' = "done" /\ areas' = now
  /\ Len(results) = 1 => stack' = results
Trapping == out' = "trap" /\ UNCHANGED <<prog, args, stack, areas>>

Numbers32 == {"i32", "i64", "f32", "f64", "ref"}

LEMMA OperandValues ==
  ASSUME NEW s, NEW types, Fits(s, types), NEW k \in 1 .. Len(types)
  PROVE  /\ types[k] \in Numbers32 => s[k].v \in Nat
         /\ types[k] \in {"i32", "i64", "f32", "f64"} => s[k].v \in Unsigneds(Width(types[k]))
         /\ types[k] = "v128" => s[k].v \in Vectors
<1>1. s[k].v \in Samples[types[k]] /\ Len(s) = Len(types)
  BY DEF Fits
<1>2. ASSUME types[k] \in {"i32", "i64", "f32", "f64"} PROVE s[k].v \in Unsigneds(Width(types[k])) /\ s[k].v \in Nat
  <2>1. s[k].v \in 0 .. 2^Width(types[k]) - 1
    BY <1>1, <1>2, SamplesAssumption
  <2> QED BY <2>1 DEF Unsigneds
<1>3. types[k] = "v128" => s[k].v \in Vectors
  BY <1>1, SamplesAssumption DEF Vectors
<1>4. types[k] = "ref" => s[k].v \in Nat
  BY <1>1, SamplesAssumption
<1> QED BY <1>2, <1>3, <1>4 DEF Numbers32

LEMMA SingleFacts ==
  ASSUME Single
  PROVE  /\ ins = only /\ Fits(args, Sig(ins).params) /\ Sig(ins).params \in Seq(ValueTypes)
         /\ HasAreas(ins) /\ HasOperation(ins)
         /\ Len(args) = Len(Sig(ins).params) /\ Len(args) \in Nat
         /\ DOMAIN prog = {1} /\ prog[Len(prog)] = only /\ prog[1] = only
<1>1. prog \in Programs /\ args \in Operands(Needs(prog)) /\ Len(prog) = 1 /\ ins = only /\ only = prog[1]
  BY DEF Single, TypeInv, ins, only
<1>2. Needs(prog) = Sig(ins).params
  BY <1>1, Zenon DEF Needs
<1>3. Sig(ins).params \in Seq(ValueTypes) /\ HasAreas(ins) /\ HasOperation(ins)
  BY ParamsTyped DEF Single
<1>4. Fits(args, Sig(ins).params)
  BY <1>1, <1>2, <1>3, OperandsFit
<1>5. DOMAIN prog = {1}
  BY <1>1, ProgramFacts
<1> QED BY <1>1, <1>3, <1>4, <1>5 DEF Fits

\* Popping all operands leaves what is pushed.
LEMMA SingleAdvances ==
  ASSUME Single, NEW want, NEW results, NEW now, Advance(want, results, now), Len(want) = Len(args),
         \/ results = << >>
         \/ \E c : results = <<c>>
  PROVE  Ran(results, now)
<1>1. stack = args /\ args \in Seq(Range(args)) /\ Len(args) \in Nat
  <2>1. Fits(args, Sig(ins).params)
    BY SingleFacts
  <2> QED BY <2>1, InItsRange DEF Fits, Single
<1>2. ASSUME NEW c, results = <<c>> PROVE stack' = results
  <2>1. stack' = SubSeq(args, 1, Len(args) - Len(args)) \o <<c>>
    BY <1>1, <1>2 DEF Advance
  <2>2. SubSeq(args, 1, Len(args) - Len(args)) = << >>
    BY <1>1
  <2>3. << >> \o <<c>> = <<c>>
    OBVIOUS
  <2> QED BY <1>2, <2>1, <2>2, <2>3
<1>3. UNCHANGED <<prog, args>> /\ out' = "done" /\ areas' = now
  BY DEF Advance, Single
<1>4. results = << >> => Len(results) # 1
  OBVIOUS
<1> QED BY <1>2, <1>3, <1>4 DEF Ran

LEMMA SingleTraps ==
  ASSUME Single, Stop("trap")
  PROVE  Trapping
BY DEF Stop, Trapping

\* What a bulk instruction does when its operands are there.
LEMMA SingleBulk ==
  ASSUME Single, out' # "fault", NEW want, NEW ok, NEW results, NEW now, Bulk(want, ok, results, now),
         Len(want) = Len(args), results = << >> \/ \E c : results = <<c>>
  PROVE  popWant(want) /\ IF ok THEN Ran(results, now) ELSE Trapping
<1>1. popWant(want)
  BY DEF Bulk, Stop
<1>2. CASE ok
  BY <1>1, <1>2, SingleAdvances DEF Bulk
<1>3. CASE ~ok
  BY <1>1, <1>3, SingleTraps DEF Bulk
<1> QED BY <1>1, <1>2, <1>3

LEMMA Unchanged ==
  ASSUME NEW a
  PROVE  [Areas EXCEPT ![a].data = Areas[a].data] = Areas
<1> DEFINE Kind == [at : {"i32", "i64"}, unit : Nat \ {0}, max : Nat, data : Seq(Nat)]
<1>1. \A r \in Kind : [r EXCEPT !.data = r.data] = r
  OBVIOUS
<1>2. Areas \in [DOMAIN Areas -> Kind]
  BY AreasAssumption
<1> HIDE DEF Kind
<1>3. Areas = [b \in DOMAIN Areas |-> Areas[b]] /\ \A b \in DOMAIN Areas : Areas[b] \in Kind
  BY <1>2
<1> DEFINE new == [Areas EXCEPT ![a].data = Areas[a].data]
<1>4. new = [b \in DOMAIN Areas |-> IF b = a THEN [Areas[b] EXCEPT !.data = Areas[b].data] ELSE Areas[b]]
  BY <1>3
<1> HIDE DEF new
<1>5. \A b \in DOMAIN Areas : new[b] = Areas[b]
  BY <1>1, <1>3, <1>4
<1>6. new = Areas
  BY <1>3, <1>4, <1>5
<1> QED BY <1>6 DEF new

LEMMA AreaFacts ==
  ASSUME NEW a \in DOMAIN Areas
  PROVE  /\ Initial(a) \in Seq(Nat) /\ Len(Initial(a)) \in Nat /\ Areas[a].at \in {"i32", "i64"}
         /\ Areas[a].unit \in Nat \ {0} /\ Areas[a].max \in Nat
         /\ Len(Initial(a)) <= 2^Width("i64") /\ Len(Initial(a)) \div Areas[a].unit < 2^Width(Areas[a].at)
         /\ DOMAIN Initial(a) = 1 .. Len(Initial(a))
<1>1. Areas[a] \in [at : {"i32", "i64"}, unit : Nat \ {0}, max : Nat, data : Seq(Nat)]
  BY AreasAssumption
<1>2. \A r \in [at : {"i32", "i64"}, unit : Nat \ {0}, max : Nat, data : Seq(Nat)] :
        r.data \in Seq(Nat) /\ r.at \in {"i32", "i64"} /\ r.unit \in Nat \ {0} /\ r.max \in Nat
  OBVIOUS
<1>3. Initial(a) \in Seq(Nat) /\ Areas[a].at \in {"i32", "i64"} /\ Areas[a].unit \in Nat \ {0} /\ Areas[a].max \in Nat
  BY <1>1, <1>2 DEF Initial
<1>4. Len(Initial(a)) <= 2^Width("i64") /\ Len(Initial(a)) \div Areas[a].unit < 2^Width(Areas[a].at)
  BY AreasAssumption DEF Initial
<1> QED BY <1>3, <1>4

\* Cells written in the initial areas lie over those that were there.
LEMMA WrittenOver ==
  ASSUME areas = Areas, NEW a \in DOMAIN Areas, NEW at \in Nat, NEW cells, Len(cells) \in Nat
  PROVE  Written(a, at, cells) = [Areas EXCEPT ![a].data = Overlaid(a, at, cells)]
<1> DEFINE w == [k \in DOMAIN Areas[a].data |->
                   IF k \in at + 1 .. at + Len(cells) THEN cells[k - at] ELSE Areas[a].data[k]]
<1>1. Written(a, at, cells) = [Areas EXCEPT ![a].data = w]
  BY DEF Written
<1>2. DOMAIN Areas[a].data = 1 .. Len(Areas[a].data) /\ Len(Areas[a].data) \in Nat
  BY AreaFacts DEF Initial
<1>3. w = Overlaid(a, at, cells)
  <2>1. \A k \in 1 .. Len(Areas[a].data) :
          (k \in at + 1 .. at + Len(cells)) <=> (k - 1 - at \in 0 .. Len(cells) - 1)
    BY <1>2
  <2> QED BY <1>2, <2>1 DEF Overlaid, Initial
<1> HIDE DEF w
<1> QED BY <1>1, <1>3

-----------------------------------------------------------------------------
(* Instructions on whole memories and tables *)

\* What is popped is the operands, from the last to the first.
LEMMA SingleOperands ==
  ASSUME Single
  PROVE  /\ \A j \in 1 .. Len(args) : Sig(ins).params[j] \in Numbers32 => X(j) \in Nat
         /\ \A want : Len(want) = Len(args) /\ DOMAIN want = 1 .. Len(args) =>
              \A j \in 1 .. Len(args) : Popped(want)[j] = X(Len(args) - j + 1)
<1>1. Fits(args, Sig(ins).params) /\ Len(args) = Len(Sig(ins).params) /\ Len(args) \in Nat /\ stack = args
  BY SingleFacts DEF Single
<1>2. ASSUME NEW j \in 1 .. Len(args), Sig(ins).params[j] \in Numbers32 PROVE X(j) \in Nat
  BY <1>1, <1>2, OperandValues DEF X
<1>3. ASSUME NEW want, DOMAIN want = 1 .. Len(args), NEW j \in 1 .. Len(args)
      PROVE  Popped(want)[j] = X(Len(args) - j + 1)
  BY <1>1, <1>3 DEF Popped, X
<1> QED BY <1>2, <1>3

\* Three operands, or two, or one, popped in their order.
LEMMA ThreePopped ==
  ASSUME Single, NEW s, NEW t, NEW u, NEW results, Sig(ins) = Effect(<<s, t, u>>, results),
         s \in Numbers32, t \in Numbers32, u \in Numbers32, NEW a, NEW b, NEW c
  PROVE  /\ Len(<<a, b, c>>) = Len(args) /\ X(1) \in Nat /\ X(2) \in Nat /\ X(3) \in Nat
         /\ Popped(<<a, b, c>>)[1] = X(3) /\ Popped(<<a, b, c>>)[2] = X(2) /\ Popped(<<a, b, c>>)[3] = X(1)
<1>1. Len(args) = 3 /\ Sig(ins).params = <<s, t, u>>
  BY SingleFacts DEF Effect
<1>2. X(1) \in Nat /\ X(2) \in Nat /\ X(3) \in Nat
  BY <1>1, SingleOperands
<1>3. Len(<<a, b, c>>) = 3 /\ DOMAIN <<a, b, c>> = 1 .. 3
  OBVIOUS
<1>4. \A j \in 1 .. 3 : Popped(<<a, b, c>>)[j] = X(3 - j + 1)
  BY <1>1, <1>3, SingleOperands
<1> QED BY <1>1, <1>2, <1>3, <1>4
LEMMA TwoPopped ==
  ASSUME Single, NEW s, NEW t, NEW results, Sig(ins) = Effect(<<s, t>>, results),
         s \in Numbers32, t \in Numbers32, NEW a, NEW b
  PROVE  /\ Len(<<a, b>>) = Len(args) /\ X(1) \in Nat /\ X(2) \in Nat
         /\ Popped(<<a, b>>)[1] = X(2) /\ Popped(<<a, b>>)[2] = X(1)
<1>1. Len(args) = 2 /\ Sig(ins).params = <<s, t>>
  BY SingleFacts DEF Effect
<1>2. X(1) \in Nat /\ X(2) \in Nat
  BY <1>1, SingleOperands
<1>3. Len(<<a, b>>) = 2 /\ DOMAIN <<a, b>> = 1 .. 2
  OBVIOUS
<1>4. \A j \in 1 .. 2 : Popped(<<a, b>>)[j] = X(2 - j + 1)
  BY <1>1, <1>3, SingleOperands
<1> QED BY <1>1, <1>2, <1>3, <1>4
LEMMA OnePopped ==
  ASSUME Single, NEW s, NEW results, Sig(ins) = Effect(<<s>>, results), s \in Numbers32, NEW a
  PROVE  Len(<<a>>) = Len(args) /\ X(1) \in Nat /\ Popped(<<a>>)[1] = X(1)
<1>1. Len(args) = 1 /\ Sig(ins).params = <<s>>
  BY SingleFacts DEF Effect
<1>2. X(1) \in Nat
  BY <1>1, SingleOperands
<1>3. Len(<<a>>) = 1 /\ DOMAIN <<a>> = 1 .. 1
  OBVIOUS
<1>4. \A j \in 1 .. 1 : Popped(<<a>>)[j] = X(1 - j + 1)
  BY <1>1, <1>3, SingleOperands
<1> QED BY <1>1, <1>2, <1>3, <1>4

\* Cells are written when they fit, and nothing happens when they do not.
LEMMA Overwrites ==
  ASSUME Single, NEW a \in DOMAIN Areas, NEW at \in Nat, NEW cells, Len(cells) \in Nat, NEW fits \in BOOLEAN,
         IF fits THEN Ran(<< >>, Written(a, at, cells)) ELSE Trapping
  PROVE  /\ UNCHANGED <<prog, args>> /\ (Trapped' <=> ~fits) /\ out' \in {"done", "trap"}
         /\ areas' = [Areas EXCEPT ![a].data = IF fits THEN Overlaid(a, at, cells) ELSE Initial(a)]
<1>1. CASE fits
  <2>1. areas' = Written(a, at, cells) /\ UNCHANGED <<prog, args>> /\ out' = "done"
    BY <1>1 DEF Ran
  <2>2. Written(a, at, cells) = [Areas EXCEPT ![a].data = Overlaid(a, at, cells)]
    BY WrittenOver DEF Single
  <2> QED BY <1>1, <2>1, <2>2 DEF Trapped
<1>2. CASE ~fits
  <2>1. areas' = Areas /\ UNCHANGED <<prog, args>> /\ out' = "trap"
    BY <1>2 DEF Trapping, Single
  <2>2. [Areas EXCEPT ![a].data = Initial(a)] = Areas
    BY Unchanged DEF Initial
  <2> QED BY <1>2, <2>1, <2>2 DEF Trapped
<1> QED BY <1>1, <1>2

LEMMA WithinFits ==
  ASSUME Single, NEW a \in DOMAIN Areas, NEW at \in Nat, NEW n \in Nat
  PROVE  Within(a, at, n) <=> at + n <= Len(Initial(a))
<1>1. areas[a].data = Initial(a) /\ Len(Initial(a)) \in Nat
  BY AreaFacts DEF Single, Initial
<1> QED BY <1>1 DEF Within, InBounds

\* n cells of an area or segment.
LEMMA SubSeqLen ==
  ASSUME NEW Q, NEW s \in Seq(Q), NEW from \in Nat, NEW n \in Nat
  PROVE  Len(SubSeq(s, from + 1, from + n)) = n
<1>1. SubSeq(s, from + 1, from + n) = [k \in 1 .. (from + n) - (from + 1) + 1 |-> s[k + (from + 1) - 1]]
  BY SMTT(60) DEF SubSeq
<1> QED BY <1>1

LEMMA CopySingle ==
  ASSUME Single, out' # "fault", NEW want, Copy(want), Len(want) = Len(args), X(1) \in Nat, X(2) \in Nat, X(3) \in Nat,
         Popped(want)[1] = X(3), Popped(want)[2] = X(2), Popped(want)[3] = X(1),
         ins.area \in DOMAIN Areas, ins.from \in DOMAIN Areas
  PROVE  UNCHANGED <<prog, args>> /\ CopyExact(only.area, X(1), only.from, X(2), X(3))'
<1>0. ins = only
  BY SingleFacts
<1> DEFINE fits == X(2) + X(3) <= Len(Initial(ins.from)) /\ X(1) + X(3) <= Len(Initial(ins.area))
           cells == SubSeq(Initial(ins.from), X(2) + 1, X(2) + X(3))
           ok == popWant(want) /\ Within(ins.from, X(2), X(3)) /\ Within(ins.area, X(1), X(3))
<1>1. Bulk(want, ok, << >>, Written(ins.area, X(1), cells))
  BY DEF Copy, Copied, Replaced, Cells, Single, Initial
<1>2. popWant(want) /\ (ok <=> fits) /\ IF ok THEN Ran(<< >>, Written(ins.area, X(1), cells)) ELSE Trapping
  <2>1. popWant(want) /\ IF ok THEN Ran(<< >>, Written(ins.area, X(1), cells)) ELSE Trapping
    BY <1>1, SingleBulk
  <2>2. (Within(ins.from, X(2), X(3)) <=> X(2) + X(3) <= Len(Initial(ins.from)))
        /\ (Within(ins.area, X(1), X(3)) <=> X(1) + X(3) <= Len(Initial(ins.area)))
    BY WithinFits
  <2> QED BY <2>1, <2>2
<1>3. Len(cells) \in Nat
  BY SubSeqLen, AreaFacts
<1>4. fits \in BOOLEAN /\ IF fits THEN Ran(<< >>, Written(ins.area, X(1), cells)) ELSE Trapping
  BY <1>2
<1> HIDE DEF fits, cells, ok
<1>5. /\ UNCHANGED <<prog, args>> /\ (Trapped' <=> ~fits)
      /\ areas' = [Areas EXCEPT ![ins.area].data = IF fits THEN Overlaid(ins.area, X(1), cells) ELSE Initial(ins.area)]
  BY <1>3, <1>4, Overwrites
<1> QED BY <1>0, <1>5 DEF CopyExact, OnlyChanged, Trapped, only, X, fits, cells, Initial, Overlaid

\* What an instruction on whole memories or tables is given.
LEMMA BulkFacts ==
  ASSUME Single, ins.class \in MemoryClasses \cup TableClasses
  PROVE  /\ ins.area \in DOMAIN Areas /\ AddressType(ins.area) \in {"i32", "i64"}
         /\ ins.class \in {"memory.copy", "memory.init", "table.copy", "table.init"} =>
              ins.from \in DOMAIN Areas /\ AddressType(ins.from) \in {"i32", "i64"}
         /\ areas = Areas /\ only = ins /\ ins.class = only.class
         /\ ins.class \in MemoryClasses => Sig(ins) = MemoryRule(ins)
         /\ ins.class \in TableClasses => Sig(ins) = TableRule(ins)
<1>1. HasAreas(ins) /\ ins = only
  BY SingleFacts
<1>2. ins.area \in DOMAIN Areas
  BY <1>1 DEF HasAreas
<1>3. ins.class \in {"memory.copy", "memory.init", "table.copy", "table.init"} => ins.from \in DOMAIN Areas
  BY <1>1 DEF HasAreas
<1>4. ins.class \in MemoryClasses => Sig(ins) = MemoryRule(ins)
  BY DEF Sig, Loads, MemoryClasses
<1>5. ins.class \in TableClasses => Sig(ins) = TableRule(ins)
  BY DEF Sig, Loads, MemoryClasses, TableClasses
<1> QED BY <1>1, <1>2, <1>3, <1>4, <1>5, AreaFacts DEF AddressType, Single

LEMMA CopiesExact ==
  ASSUME Single, out' # "fault", MemoryCopy \/ MemoryInit \/ TableCopy \/ TableInit
  PROVE  BulkExact'
<1> DEFINE Result3(want) == /\ UNCHANGED <<prog, args>>
                            /\ CopyExact(only.area, X(1), only.from, X(2), X(3))'
<1>1. ASSUME NEW s, NEW t, NEW u, NEW a, NEW b, NEW c, s \in Numbers32, t \in Numbers32, u \in Numbers32,
             Sig(ins) = Effect(<<s, t, u>>, << >>), Copy(<<a, b, c>>),
             ins.class \in {"memory.copy", "memory.init", "table.copy", "table.init"}
      PROVE  BulkExact'
  <2>1. /\ Len(<<a, b, c>>) = Len(args) /\ X(1) \in Nat /\ X(2) \in Nat /\ X(3) \in Nat
        /\ Popped(<<a, b, c>>)[1] = X(3) /\ Popped(<<a, b, c>>)[2] = X(2) /\ Popped(<<a, b, c>>)[3] = X(1)
    BY <1>1, ThreePopped
  <2>2. ins.class \in MemoryClasses \cup TableClasses
    BY <1>1 DEF MemoryClasses, TableClasses
  <2>3. UNCHANGED <<prog, args>> /\ CopyExact(only.area, X(1), only.from, X(2), X(3))'
    BY <1>1, <2>1, <2>2, BulkFacts, CopySingle
  <2>4. only' = only /\ only.class \in {"memory.copy", "memory.init", "table.copy", "table.init"}
    BY <1>1, <2>2, <2>3, BulkFacts DEF only
  <2> QED BY <2>3, <2>4 DEF BulkExact
<1>2. "i32" \in Numbers32 /\ "i64" \in Numbers32
  BY DEF Numbers32
<1>3. CASE MemoryCopy
  <2>1. ins.class = "memory.copy" /\ Copy(<<IndexOf(ins.area), IndexOf(ins.from), IndexOf(ins.area)>>)
    BY <1>3 DEF MemoryCopy, At
  <2>2. Sig(ins) = Effect(<<AddressType(ins.area), AddressType(ins.from), AddressType(ins.area)>>, << >>)
    BY <2>1, BulkFacts DEF MemoryClasses, MemoryRule
  <2>3. AddressType(ins.area) \in Numbers32 /\ AddressType(ins.from) \in Numbers32
    BY <1>2, <2>1, BulkFacts DEF MemoryClasses
  <2> QED BY <1>1, <1>2, <2>1, <2>2, <2>3
<1>4. CASE MemoryInit
  <2>1. ins.class = "memory.init" /\ Copy(<<"i32", "i32", IndexOf(ins.area)>>)
    BY <1>4 DEF MemoryInit, At
  <2>2. Sig(ins) = Effect(<<AddressType(ins.area), "i32", "i32">>, << >>)
    BY <2>1, BulkFacts DEF MemoryClasses, MemoryRule
  <2>3. AddressType(ins.area) \in Numbers32
    BY <1>2, <2>1, BulkFacts DEF MemoryClasses
  <2> QED BY <1>1, <1>2, <2>1, <2>2, <2>3
<1>5. CASE TableCopy
  <2>1. /\ ins.class = "table.copy"
        /\ Copy(<<popTableCopySizeOperand(ins.area, ins.from), popTableIndexOperand(ins.from),
                  popTableIndexOperand(ins.area)>>)
    BY <1>5 DEF TableCopy, At
  <2>2. Sig(ins) = Effect(<<AddressType(ins.area), AddressType(ins.from), Both64(ins.area, ins.from)>>, << >>)
    BY <2>1, BulkFacts DEF TableClasses, TableRule
  <2>3. AddressType(ins.area) \in Numbers32 /\ AddressType(ins.from) \in Numbers32 /\ Both64(ins.area, ins.from) \in Numbers32
    BY <1>2, <2>1, BulkFacts DEF TableClasses, Both64
  <2> QED BY <1>1, <1>2, <2>1, <2>2, <2>3
<1>6. CASE TableInit
  <2>1. ins.class = "table.init" /\ Copy(<<"i32", "i32", popTableIndexOperand(ins.area)>>)
    BY <1>6 DEF TableInit, At
  <2>2. Sig(ins) = Effect(<<AddressType(ins.area), "i32", "i32">>, << >>)
    BY <2>1, BulkFacts DEF TableClasses, TableRule
  <2>3. AddressType(ins.area) \in Numbers32
    BY <1>2, <2>1, BulkFacts DEF TableClasses
  <2> QED BY <1>1, <1>2, <2>1, <2>2, <2>3
<1> QED BY <1>3, <1>4, <1>5, <1>6

\* One cell is written n times when there is room.
LEMMA FillSingle ==
  ASSUME Single, out' # "fault", NEW want, Len(want) = Len(args), ins.area \in DOMAIN Areas,
         NEW at \in Nat, NEW n \in Nat, NEW cells, Len(cells) \in Nat,
         Bulk(want, popWant(want) /\ Within(ins.area, at, n), << >>, Replaced(ins.area, at, cells))
  PROVE  /\ UNCHANGED <<prog, args>>
         /\ (Trapped' <=> ~(at + n <= Len(Initial(ins.area)))) /\ out' \in {"done", "trap"}
         /\ areas' = [Areas EXCEPT ![ins.area].data = IF at + n <= Len(Initial(ins.area))
                                                      THEN Overlaid(ins.area, at, cells) ELSE Initial(ins.area)]
<1> DEFINE fits == at + n <= Len(Initial(ins.area))
           ok == popWant(want) /\ Within(ins.area, at, n)
<1>1. popWant(want) /\ IF ok THEN Ran(<< >>, Written(ins.area, at, cells)) ELSE Trapping
  BY SingleBulk DEF Replaced
<1>2. ok <=> fits
  BY <1>1, WithinFits
<1>4. fits \in BOOLEAN /\ IF fits THEN Ran(<< >>, Written(ins.area, at, cells)) ELSE Trapping
  BY <1>1, <1>2
<1> HIDE DEF fits, ok
<1>5. /\ UNCHANGED <<prog, args>> /\ (Trapped' <=> ~fits) /\ out' \in {"done", "trap"}
      /\ areas' = [Areas EXCEPT ![ins.area].data = IF fits THEN Overlaid(ins.area, at, cells) ELSE Initial(ins.area)]
  BY <1>4, Overwrites
<1> QED BY <1>5 DEF fits

LEMMA FillsExact ==
  ASSUME Single, out' # "fault", MemoryFill \/ TableFill \/ TableSet
  PROVE  BulkExact'
<1>1. "i32" \in Numbers32 /\ "i64" \in Numbers32 /\ "ref" \in Numbers32
  BY DEF Numbers32
<1>2. CASE MemoryFill
  <2> DEFINE want == <<IndexOf(ins.area), "i32", IndexOf(ins.area)>>
  <2>1. /\ ins.class = "memory.fill" /\ Sig(ins) = Effect(<<AddressType(ins.area), "i32", AddressType(ins.area)>>, << >>)
        /\ AddressType(ins.area) \in Numbers32 /\ ins.area \in DOMAIN Areas /\ only = ins
    BY <1>1, <1>2, BulkFacts DEF MemoryFill, At, MemoryClasses, MemoryRule
  <2>2. /\ Len(want) = Len(args) /\ X(1) \in Nat /\ X(2) \in Nat /\ X(3) \in Nat
        /\ Popped(want)[1] = X(3) /\ Popped(want)[2] = X(2) /\ Popped(want)[3] = X(1)
    BY <1>1, <2>1, ThreePopped
  <2> DEFINE cells == [k \in 1 .. X(3) |-> U(ByteBits, X(2))]
  <2>3. Bulk(want, popWant(want) /\ Within(ins.area, X(1), X(3)), << >>, Replaced(ins.area, X(1), cells))
    BY <1>2, <2>2 DEF MemoryFill
  <2> HIDE DEF want
  <2>4. cells = [k \in 1 .. X(3) |-> X(2) % 2^ByteBits]
    BY DEF U
  <2>5. /\ UNCHANGED <<prog, args>> /\ (Trapped' <=> ~(X(1) + X(3) <= Len(Initial(ins.area))))
        /\ areas' = [Areas EXCEPT ![ins.area].data = IF X(1) + X(3) <= Len(Initial(ins.area))
                                                     THEN Overlaid(ins.area, X(1), cells) ELSE Initial(ins.area)]
    <3>1. Len(cells) \in Nat
      BY <2>2
    <3> HIDE DEF cells
    <3> QED BY <2>1, <2>2, <2>3, <3>1, FillSingle
  <2>6. FillExact(only.area, X(1), X(2) % 2^ByteBits, X(3))'
    <3>1. X(1)' = X(1) /\ X(2)' = X(2) /\ X(3)' = X(3) /\ only' = only /\ only = ins
      BY <2>1, <2>5 DEF X, only
    <3>2. [k \in 1 .. X(3) |-> X(2) % 2^ByteBits]' = cells
      BY <2>4, <3>1
    <3> HIDE DEF cells
    <3> QED BY <2>1, <2>5, <3>1, <3>2 DEF FillExact, OnlyChanged, Trapped
  <2> QED BY <2>1, <2>5, <2>6 DEF BulkExact, only
<1>3. CASE TableFill
  <2> DEFINE want == <<popTableIndexOperand(ins.area), "ref", popTableIndexOperand(ins.area)>>
  <2>1. /\ ins.class = "table.fill" /\ Sig(ins) = Effect(<<AddressType(ins.area), "ref", AddressType(ins.area)>>, << >>)
        /\ AddressType(ins.area) \in Numbers32 /\ ins.area \in DOMAIN Areas /\ only = ins
    BY <1>1, <1>3, BulkFacts DEF TableFill, At, TableClasses, TableRule
  <2>2. /\ Len(want) = Len(args) /\ X(1) \in Nat /\ X(2) \in Nat /\ X(3) \in Nat
        /\ Popped(want)[1] = X(3) /\ Popped(want)[2] = X(2) /\ Popped(want)[3] = X(1)
    BY <1>1, <2>1, ThreePopped
  <2> DEFINE cells == [k \in 1 .. X(3) |-> X(2)]
  <2>3. Bulk(want, popWant(want) /\ Within(ins.area, X(1), X(3)), << >>, Replaced(ins.area, X(1), cells))
    BY <1>3, <2>2 DEF TableFill
  <2> HIDE DEF want
  <2>5. /\ UNCHANGED <<prog, args>> /\ (Trapped' <=> ~(X(1) + X(3) <= Len(Initial(ins.area))))
        /\ areas' = [Areas EXCEPT ![ins.area].data = IF X(1) + X(3) <= Len(Initial(ins.area))
                                                     THEN Overlaid(ins.area, X(1), cells) ELSE Initial(ins.area)]
    <3>1. Len(cells) \in Nat
      BY <2>2
    <3> HIDE DEF cells
    <3> QED BY <2>1, <2>2, <2>3, <3>1, FillSingle
  <2>6. FillExact(only.area, X(1), X(2), X(3))'
    <3>1. X(1)' = X(1) /\ X(2)' = X(2) /\ X(3)' = X(3) /\ only' = only /\ only = ins
      BY <2>1, <2>5 DEF X, only
    <3>2. [k \in 1 .. X(3) |-> X(2)]' = cells
      BY <3>1
    <3> HIDE DEF cells
    <3> QED BY <2>1, <2>5, <3>1, <3>2 DEF FillExact, OnlyChanged, Trapped
  <2> QED BY <2>1, <2>5, <2>6 DEF BulkExact, only
<1>4. CASE TableSet
  <2> DEFINE want == <<"ref", popTableIndexOperand(ins.area)>>
  <2>1. /\ ins.class = "table.set" /\ Sig(ins) = Effect(<<AddressType(ins.area), "ref">>, << >>)
        /\ AddressType(ins.area) \in Numbers32 /\ ins.area \in DOMAIN Areas /\ only = ins
    BY <1>1, <1>4, BulkFacts DEF TableSet, At, TableClasses, TableRule
  <2>2. /\ Len(want) = Len(args) /\ X(1) \in Nat /\ X(2) \in Nat
        /\ Popped(want)[1] = X(2) /\ Popped(want)[2] = X(1)
    BY <1>1, <2>1, TwoPopped
  <2> DEFINE cells == [k \in 1 .. 1 |-> X(2)]
  <2>3. Bulk(want, popWant(want) /\ Within(ins.area, X(1), 1), << >>, Replaced(ins.area, X(1), cells))
    <3>1. cells = <<X(2)>>
      OBVIOUS
    <3> HIDE DEF cells
    <3> QED BY <1>4, <2>2, <3>1 DEF TableSet
  <2> HIDE DEF want
  <2>5. /\ UNCHANGED <<prog, args>> /\ (Trapped' <=> ~(X(1) + 1 <= Len(Initial(ins.area))))
        /\ areas' = [Areas EXCEPT ![ins.area].data = IF X(1) + 1 <= Len(Initial(ins.area))
                                                     THEN Overlaid(ins.area, X(1), cells) ELSE Initial(ins.area)]
    <3>1. Len(cells) \in Nat
      BY <2>2
    <3> HIDE DEF cells
    <3> QED BY <2>1, <2>2, <2>3, <3>1, FillSingle
  <2>6. FillExact(only.area, X(1), X(2), 1)'
    <3>1. X(1)' = X(1) /\ X(2)' = X(2) /\ X(3)' = X(3) /\ only' = only /\ only = ins
      BY <2>1, <2>5 DEF X, only
    <3>2. [k \in 1 .. 1 |-> X(2)]' = cells
      BY <3>1
    <3> HIDE DEF cells
    <3> QED BY <2>1, <2>5, <3>1, <3>2 DEF FillExact, OnlyChanged, Trapped
  <2> QED BY <2>1, <2>5, <2>6 DEF BulkExact, only
<1> QED BY <1>2, <1>3, <1>4

LEMMA RanOne ==
  ASSUME NEW r, NEW now, Ran(<<r>>, now)
  PROVE  UNCHANGED <<prog, args>> /\ out' = "done" /\ areas' = now /\ Result' = r.v
<1>1. Len(<<r>>) = 1 /\ <<r>>[1] = r
  OBVIOUS
<1>2. stack' = <<r>>
  BY <1>1 DEF Ran
<1> QED BY <1>1, <1>2 DEF Ran, Result

\* The size of an area is a number of its index type.
LEMMA SizeFacts ==
  ASSUME Single, NEW a \in DOMAIN Areas
  PROVE  /\ Size(a) = Len(Initial(a)) \div Areas[a].unit /\ Size(a) \in Nat
         /\ U(Width(areas[a].at), Size(a)) = Size(a)
         /\ U(Width(areas[a].at), -1) = 2^Width(Areas[a].at) - 1
<1> DEFINE at == Areas[a].at
           w == Width(at)
           n == Len(Initial(a))
           u == Areas[a].unit
<1>1. n \in Nat /\ u \in Nat \ {0} /\ at \in {"i32", "i64"} /\ n \div u < 2^w
  BY AreaFacts
<1>2. w \in Nat \ {0}
  BY <1>1, ByteFacts DEF Width, Bytes
<1>3. 2^w \in Nat \ {0}
  BY <1>2, Pow
<1>4. Size(a) = n \div u /\ areas[a].at = at
  BY DEF Size, Cells, Single, Initial
<1> HIDE DEF at, w, n, u
<1>5. n \div u \in Nat
  BY <1>1, DivMod, Z3
<1> DEFINE p == 2^w
           q == n \div u
<1>6. p \in Nat \ {0} /\ q \in 0 .. p - 1
  BY <1>1, <1>3, <1>5
<1> HIDE DEF p, q
<1>7. q % p = q
  BY <1>6, SmallMod
<1>8. (-1) % p = p - 1
  <2>1. -1 = p * (-1) + (p - 1) /\ p - 1 \in 0 .. p - 1 /\ -1 \in Int
    BY <1>6
  <2> QED BY <1>6, <2>1, DivUnique
<1> QED BY <1>4, <1>5, <1>7, <1>8 DEF U, p, q, w, at, n, u

LEMMA SizesExact ==
  ASSUME Single, out' # "fault", MemorySize \/ TableSize
  PROVE  BulkExact'
<1> DEFINE r == [t |-> areas[ins.area].at, v |-> U(Width(areas[ins.area].at), Size(ins.area))]
<1>1. /\ ins.class \in {"memory.size", "table.size"} /\ Bulk(<< >>, TRUE, <<r>>, areas)
      /\ ins.area \in DOMAIN Areas /\ only = ins /\ areas = Areas /\ Len(Sig(ins).params) = 0
  <2>1. CASE MemorySize
    <3>1. ins.class = "memory.size" /\ Bulk(<< >>, TRUE, <<r>>, areas)
      BY <2>1 DEF MemorySize, At, pushMemoryIndexResult
    <3>2. ins.area \in DOMAIN Areas /\ only = ins /\ areas = Areas /\ Sig(ins) = Effect(<< >>, <<AddressType(ins.area)>>)
      BY <3>1, BulkFacts DEF MemoryClasses, MemoryRule
    <3>3. Sig(ins).params = << >> /\ Len(<< >>) = 0
      BY <3>2 DEF Effect
    <3> HIDE DEF r
    <3> QED BY <3>1, <3>2, <3>3
  <2>2. CASE TableSize
    <3>1. ins.class = "table.size" /\ Bulk(<< >>, TRUE, <<r>>, areas)
      BY <2>2 DEF TableSize, At, pushTableIndexResult
    <3>2. ins.area \in DOMAIN Areas /\ only = ins /\ areas = Areas /\ Sig(ins) = Effect(<< >>, <<AddressType(ins.area)>>)
      BY <3>1, BulkFacts DEF TableClasses, TableRule
    <3>3. Sig(ins).params = << >> /\ Len(<< >>) = 0
      BY <3>2 DEF Effect
    <3> HIDE DEF r
    <3> QED BY <3>1, <3>2, <3>3
  <2> QED BY <2>1, <2>2
<1>2. r.v = Len(Initial(ins.area)) \div Areas[ins.area].unit
  BY <1>1, SizeFacts
<1> HIDE DEF r
<1>3. Len(<< >>) = Len(args)
  BY <1>1, SingleFacts
<1>4. Ran(<<r>>, areas)
  BY <1>1, <1>3, SingleBulk
<1>5. UNCHANGED <<prog, args>> /\ areas' = Areas /\ Result' = r.v
  BY <1>1, <1>4, RanOne
<1>6. only' = only /\ only.class \in {"memory.size", "table.size"}
  BY <1>1, <1>5 DEF only
<1> QED BY <1>1, <1>2, <1>5, <1>6 DEF BulkExact

LEMMA GetExact ==
  ASSUME Single, out' # "fault", TableGet
  PROVE  BulkExact'
<1> DEFINE want == <<popTableIndexOperand(ins.area)>>
           r == [t |-> "ref", v |-> Initial(ins.area)[X(1) + 1]]
           ok == popWant(want) /\ Within(ins.area, X(1), 1)
<1>1. /\ ins.class = "table.get" /\ Sig(ins) = Effect(<<AddressType(ins.area)>>, <<"ref">>)
      /\ AddressType(ins.area) \in Numbers32 /\ ins.area \in DOMAIN Areas /\ only = ins /\ areas = Areas
  BY BulkFacts DEF TableGet, At, TableClasses, TableRule, Numbers32
<1>2. Len(want) = Len(args) /\ X(1) \in Nat /\ Popped(want)[1] = X(1)
  BY <1>1, OnePopped
<1>3. Bulk(want, ok, <<r>>, areas)
  BY <1>1, <1>2 DEF TableGet, Cells, Initial
<1> HIDE DEF want, r
<1>4. popWant(want) /\ IF ok THEN Ran(<<r>>, areas) ELSE Trapping
  BY <1>2, <1>3, SingleBulk
<1>5. ok <=> X(1) < Len(Initial(ins.area))
  <2>1. Within(ins.area, X(1), 1) <=> X(1) + 1 <= Len(Initial(ins.area))
    BY <1>1, <1>2, WithinFits
  <2>2. Len(Initial(ins.area)) \in Nat
    BY <1>1, AreaFacts
  <2> QED BY <1>2, <1>4, <2>1, <2>2
<1>6. UNCHANGED <<prog, args>> /\ areas' = Areas /\ (Trapped' <=> ~ok) /\ (ok => Result' = r.v)
  <2>1. CASE ok
    BY <1>1, <1>4, <2>1, RanOne DEF Trapped
  <2>2. CASE ~ok
    BY <1>1, <1>4, <2>2 DEF Trapping, Trapped
  <2> QED BY <2>1, <2>2
<1>7. only' = only /\ only.class = "table.get" /\ X(1)' = X(1)
  BY <1>1, <1>6 DEF only, X
<1>8. Trapped' = (X(1) >= Len(Initial(ins.area)))
  BY <1>1, <1>2, <1>5, <1>6, AreaFacts DEF Trapped
<1> QED BY <1>1, <1>6, <1>7, <1>8 DEF BulkExact, r, Trapped, Initial

More(n, cell) == [k \in 1 .. n |-> cell]

\* Growing by delta units of cells: what the instruction does, and what that comes to.
Grows(want, a, delta, cell) ==
  IF popWant(want) /\ MayGrow(a, delta)
  THEN Bulk(want, TRUE, pushMemoryIndexResult(a, Size(a)), Grown(a, delta, cell))
  ELSE Bulk(want, TRUE, pushMemoryIndexResult(a, -1), areas)
Grew(a, delta, cell) ==
  LET A == Areas[a]
      size == Len(A.data) \div A.unit
      may == size + delta <= A.max
  IN  /\ UNCHANGED <<prog, args>> /\ Result' = IF may THEN size ELSE 2^Width(A.at) - 1
      /\ areas' = [Areas EXCEPT ![a].data = A.data \o More(IF may THEN delta * A.unit ELSE 0, cell)]

LEMMA GrowSingle ==
  ASSUME Single, out' # "fault", NEW want, Len(want) = Len(args), ins.area \in DOMAIN Areas, NEW delta \in Nat, NEW cell,
         Grows(want, ins.area, delta, cell)
  PROVE  Grew(ins.area, delta, cell)
<1> DEFINE grown == [t |-> areas[ins.area].at, v |-> U(Width(areas[ins.area].at), Size(ins.area))]
           failed == [t |-> areas[ins.area].at, v |-> U(Width(areas[ins.area].at), -1)]
<1>0. IF popWant(want) /\ MayGrow(ins.area, delta)
      THEN Bulk(want, TRUE, <<grown>>, Grown(ins.area, delta, cell))
      ELSE Bulk(want, TRUE, <<failed>>, areas)
  BY DEF Grows, pushMemoryIndexResult
<1> DEFINE A == Areas[ins.area]
           size == Len(A.data) \div A.unit
           may == size + delta <= A.max
           more == More(IF may THEN delta * A.unit ELSE 0, cell)
<1>1. size \in Nat /\ A.max \in Nat /\ A.data \in Seq(Nat) /\ Size(ins.area) = size /\ areas = Areas
  BY AreaFacts, SizeFacts DEF Initial, Single
<1>2. MayGrow(ins.area, delta) <=> may
  BY <1>1 DEF MayGrow
<1>3. grown.v = size /\ failed.v = 2^Width(A.at) - 1
  BY <1>1, SizeFacts DEF Initial
<1> HIDE DEF grown, failed
<1>4. CASE may
  <2>1. Bulk(want, TRUE, <<grown>>, Grown(ins.area, delta, cell))
    BY <1>0, <1>2, <1>4 DEF Bulk, Stop
  <2>2. Ran(<<grown>>, Grown(ins.area, delta, cell))
    BY <2>1, SingleBulk
  <2>3. UNCHANGED <<prog, args>> /\ Result' = size /\ areas' = Grown(ins.area, delta, cell)
    BY <1>3, <2>2, RanOne
  <2>4. Grown(ins.area, delta, cell) = [Areas EXCEPT ![ins.area].data = A.data \o more]
    <3>1. more = [k \in 1 .. delta * A.unit |-> cell]
      BY <1>4 DEF More
    <3> HIDE DEF more
    <3> QED BY <1>1, <3>1 DEF Grown
  <2> HIDE DEF more
  <2>5. areas' = [Areas EXCEPT ![ins.area].data = A.data \o more]
    BY <2>3, <2>4
  <2> QED BY <1>4, <2>3, <2>5 DEF more, Grew
<1>5. CASE ~may
  <2>1. Bulk(want, TRUE, <<failed>>, areas)
    BY <1>0, <1>2, <1>5
  <2>2. Ran(<<failed>>, areas)
    BY <2>1, SingleBulk
  <2>3. UNCHANGED <<prog, args>> /\ Result' = 2^Width(A.at) - 1 /\ areas' = Areas
    BY <1>1, <1>3, <2>2, RanOne
  <2>4. A.data \o more = A.data
    <3>1. more = << >>
      BY <1>5 DEF More
    <3> HIDE DEF more, A
    <3> QED BY <1>1, <3>1
  <2>5. Areas = [Areas EXCEPT ![ins.area].data = A.data]
    BY Unchanged
  <2> HIDE DEF more
  <2>6. areas' = [Areas EXCEPT ![ins.area].data = A.data \o more]
    BY <2>3, <2>4, <2>5
  <2> QED BY <1>5, <2>3, <2>6 DEF more, Grew
<1> QED BY <1>4, <1>5

LEMMA GrowsExact ==
  ASSUME Single, out' # "fault", MemoryGrow \/ TableGrow
  PROVE  BulkExact'
<1>1. CASE MemoryGrow
  <2> DEFINE want == <<IndexOf(ins.area)>>
  <2>1. /\ ins.class = "memory.grow" /\ Sig(ins) = Effect(<<AddressType(ins.area)>>, <<AddressType(ins.area)>>)
        /\ AddressType(ins.area) \in Numbers32 /\ ins.area \in DOMAIN Areas /\ only = ins
    BY <1>1, BulkFacts DEF MemoryGrow, At, MemoryClasses, MemoryRule, Numbers32
  <2>2. Len(want) = Len(args) /\ X(1) \in Nat /\ Popped(want)[1] = X(1)
    BY <2>1, OnePopped
  <2>3. Grows(want, ins.area, X(1), 0)
    BY <1>1, <2>2 DEF MemoryGrow, Grows
  <2>4. Grew(ins.area, X(1), 0)
    <3> HIDE DEF want
    <3> QED BY <2>1, <2>2, <2>3, GrowSingle
  <2>5. only' = only /\ only = ins /\ only.class = "memory.grow" /\ X(1)' = X(1)
    BY <2>1, <2>4 DEF only, X, Grew
  <2>6. GrowExact(only.area, X(1), 0)'
    BY <2>4, <2>5 DEF GrowExact, OnlyChanged, More, Grew
  <2> QED BY <2>5, <2>6 DEF BulkExact
<1>2. CASE TableGrow
  <2> DEFINE want == <<popTableIndexOperand(ins.area), "ref">>
  <2>1. /\ ins.class = "table.grow" /\ Sig(ins) = Effect(<<"ref", AddressType(ins.area)>>, <<AddressType(ins.area)>>)
        /\ AddressType(ins.area) \in Numbers32 /\ ins.area \in DOMAIN Areas /\ only = ins /\ "ref" \in Numbers32
    BY <1>2, BulkFacts DEF TableGrow, At, TableClasses, TableRule, Numbers32
  <2>2. Len(want) = Len(args) /\ X(2) \in Nat /\ Popped(want)[1] = X(2) /\ Popped(want)[2] = X(1)
    BY <2>1, TwoPopped
  <2>3. Grows(want, ins.area, X(2), X(1))
    BY <1>2, <2>2 DEF TableGrow, Grows, pushTableIndexResult, pushMemoryIndexResult
  <2>4. Grew(ins.area, X(2), X(1))
    <3> HIDE DEF want
    <3> QED BY <2>1, <2>2, <2>3, GrowSingle
  <2>5. only' = only /\ only = ins /\ only.class = "table.grow" /\ X(1)' = X(1) /\ X(2)' = X(2)
    BY <2>1, <2>4 DEF only, X, Grew
  <2>6. GrowExact(only.area, X(2), X(1))'
    BY <2>4, <2>5 DEF GrowExact, OnlyChanged, More, Grew
  <2> QED BY <2>5, <2>6 DEF BulkExact
<1> QED BY <1>1, <1>2

\* Dropping a segment promises nothing of itself.
LEMMA DropsExact ==
  ASSUME Single, out' # "fault", DataDrop \/ ElemDrop
  PROVE  BulkExact'
<1>1. ins.class \in {"data.drop", "elem.drop"} /\ UNCHANGED prog
  BY DEF DataDrop, ElemDrop, At, Bulk, Stop, Advance
<1>2. only' = only /\ only = ins
  BY <1>1, SingleFacts DEF only
<1> QED BY <1>1, <1>2 DEF BulkExact

\* Instructions on whole memories and tables.
LEMMA BulksExact ==
  ASSUME Single, out' # "fault", Memories \/ Tables
  PROVE  BulkExact' /\ UNCHANGED prog /\ only.class \in MemoryClasses \cup TableClasses
<1>1. BulkExact'
  BY CopiesExact, FillsExact, SizesExact, GetExact, GrowsExact, DropsExact, SMTT(60) DEF Memories, Tables
<1>2. UNCHANGED prog
  BY DEF Memories, Tables, MemorySize, MemoryGrow, MemoryCopy, MemoryFill, MemoryInit, DataDrop, TableSize, TableGet,
         TableSet, TableGrow, TableFill, TableCopy, TableInit, ElemDrop, Copy, Bulk, Stop, Advance
<1>3. ins.class \in MemoryClasses \cup TableClasses
  BY DEF Memories, Tables, MemorySize, MemoryGrow, MemoryCopy, MemoryFill, MemoryInit, DataDrop, TableSize, TableGet,
         TableSet, TableGrow, TableFill, TableCopy, TableInit, ElemDrop, At, MemoryClasses, TableClasses
<1> QED BY <1>1, <1>2, <1>3, SingleFacts

-----------------------------------------------------------------------------
(* What is loaded *)

\* These n bytes stand in d behind the first `from`.
Stands(d, from, n, bytes) ==
  /\ from \in Nat /\ n \in Nat /\ Len(bytes) = n
  /\ \A k \in 1 .. n : bytes[k] = d[from + k] /\ bytes[k] \in Byte

LEMMA BytesStand ==
  ASSUME NEW d \in Seq(Byte), NEW from \in Nat, NEW n \in Nat, from + n <= Len(d)
  PROVE  Stands(d, from, n, SubSeq(d, from + 1, from + n)) /\ SubSeq(d, from + 1, from + n) \in Seq(Byte)
<1> DEFINE b == SubSeq(d, from + 1, from + n)
<1>1. b = [k \in 1 .. n |-> d[from + k]]
  BY DEF SubSeq
<1>2. \A k \in 1 .. n : d[from + k] \in Byte
  OBVIOUS
<1>3. Len(b) = n
  BY <1>1
<1>4. \A k \in 1 .. n : b[k] = d[from + k]
  BY <1>1
<1>5. b \in Seq(Byte)
  BY <1>1, <1>2
<1> HIDE DEF b
<1>6. Stands(d, from, n, b)
  BY <1>2, <1>3, <1>4 DEF Stands
<1> QED BY <1>5, <1>6 DEF b

\* The number that m of them spell.
LEMMA StandWord ==
  ASSUME NEW d, NEW from, NEW n, NEW bytes, Stands(d, from, n, bytes), NEW m \in Nat, NEW j \in Nat, j + m <= n
  PROVE  /\ Word(d, from + j + 1, m) = Word(bytes, j + 1, m)
         /\ Word(bytes, j + 1, m) \in Unsigneds(m * ByteBits)
         /\ \A k \in 0 .. m - 1 : ByteAt(Word(bytes, j + 1, m), k) = bytes[j + 1 + k]
<1> DEFINE i == from + j + 1
           l == j + 1
<1>1. i \in Int /\ l \in Int /\ from \in Nat /\ n \in Nat
  BY DEF Stands
<1>2. \A k \in 0 .. m - 1 : d[i + k] = bytes[l + k] /\ bytes[l + k] \in Byte
  <2> TAKE k \in 0 .. m - 1
  <2>1. l + k \in 1 .. n /\ i + k = from + (l + k)
    BY <1>1
  <2> QED BY <2>1 DEF Stands
<1> HIDE DEF i, l
<1>3. Word(d, i, m) = Word(bytes, l, m)
  BY <1>1, <1>2, WordSame
<1>4. Word(bytes, l, m) \in 0 .. 2^(m * ByteBits) - 1 /\ \A k \in 0 .. m - 1 : ByteAt(Word(bytes, l, m), k) = bytes[l + k]
  BY <1>1, <1>2, WordBytes
<1> QED BY <1>3, <1>4 DEF i, l, Unsigneds

LEMMA AccessSizes ==
  /\ \A i : HasOperation(i) /\ i.class = "load" =>
       /\ i.t \in {"i32", "i64", "f32", "f64"} /\ memoryAccessSize(i.size) \in LaneSizes
       /\ memoryAccessSize(i.size) <= Bytes[i.t]
       /\ i.t \in {"f32", "f64"} => memoryAccessSize(i.size) = Bytes[i.t]
  /\ \A i : HasOperation(i) /\ i.class = "store" /\ i.t # "v128" =>
       i.t \in {"i32", "i64", "f32", "f64"} /\ memoryAccessSize(i.size) \in LaneSizes
  /\ \A i : HasOperation(i) /\ i.class \in {"loadlane", "storelane"} =>
       memoryAccessSize(i.size) \in LaneSizes /\ i.lane \in Lanes(memoryAccessSize(i.size))
  /\ \A i : HasOperation(i) /\ i.class = "loadsplat" => memoryAccessSize(i.size) \in LaneSizes
  /\ \A i : HasOperation(i) /\ i.class = "loadextend" => memoryAccessSize(i.size) \in {1, 2, 4}
  /\ \A i : HasOperation(i) /\ i.class = "loadzero" => memoryAccessSize(i.size) \in {4, 8}
<1>1. memoryAccessSize("8") = 1 /\ memoryAccessSize("16") = 2 /\ memoryAccessSize("32") = 4 /\ memoryAccessSize("64") = 8
  BY DEF memoryAccessSize
<1>2. /\ SizesOf["i32"] = {"8", "16", "32"} /\ SizesOf["i64"] = {"8", "16", "32", "64"} /\ SizesOf["f32"] = {"32"}
      /\ SizesOf["f64"] = {"64"} /\ DOMAIN SizesOf = {"i32", "i64", "f32", "f64"}
  BY DEF SizesOf
<1>3. Bytes["i32"] = 4 /\ Bytes["i64"] = 8 /\ Bytes["f32"] = 4 /\ Bytes["f64"] = 8
  BY DEF Bytes
<1>4. ASSUME NEW i, HasOperation(i), i.class = "load"
      PROVE  i.t \in DOMAIN SizesOf /\ i.size \in SizesOf[i.t]
  BY <1>4 DEF HasOperation
<1>5. ASSUME NEW i, HasOperation(i), i.class = "store", i.t # "v128"
      PROVE  i.t \in DOMAIN SizesOf /\ i.size \in SizesOf[i.t]
  BY <1>5 DEF HasOperation
<1>6. ASSUME NEW i, HasOperation(i), i.class \in {"loadlane", "storelane"}
      PROVE  i.size \in SizesOf["i64"] /\ i.lane \in Lanes(memoryAccessSize(i.size))
  BY <1>6 DEF HasOperation
<1>7. ASSUME NEW i, HasOperation(i), i.class = "loadsplat" PROVE i.size \in SizesOf["i64"]
  BY <1>7 DEF HasOperation
<1>8. ASSUME NEW i, HasOperation(i), i.class = "loadextend" PROVE i.size \in SizesOf["i32"]
  BY <1>8 DEF HasOperation
<1>9. ASSUME NEW i, HasOperation(i), i.class = "loadzero" PROVE i.size \in {"32", "64"}
  BY <1>9 DEF HasOperation
<1>10. LaneSizes = {1, 2, 4, 8}
  BY DEF LaneSizes
<1> QED BY <1>1, <1>2, <1>3, <1>4, <1>5, <1>6, <1>7, <1>8, <1>9, <1>10

LEMMA LoadedNumber ==
  ASSUME NEW i, HasOperation(i), i.class = "load", NEW d, NEW from, NEW bytes,
         Stands(d, from, memoryAccessSize(i.size), bytes), NEW under, NEW r,
         \/ r = Word(d, from + 1, memoryAccessSize(i.size)) /\ (i.how = "s" => i.t \in {"f32", "f64"})
         \/ /\ i.how = "s"
            /\ r = SignExtend(memoryAccessSize(i.size) * ByteBits, Width(i.t), Word(d, from + 1, memoryAccessSize(i.size)))
  PROVE  Loaded(i, bytes, under, r)
<1> DEFINE n == memoryAccessSize(i.size)
           x == Word(bytes, 1, n)
           t == i.t
<1>1. n \in LaneSizes /\ t \in {"i32", "i64", "f32", "f64"} /\ n <= Bytes[t] /\ (t \in {"f32", "f64"} => n = Bytes[t])
  BY AccessSizes
<1>2. n \in Nat \ {0} /\ Bytes[t] \in Nat \ {0}
  BY <1>1 DEF LaneSizes, Bytes
<1>3. Len(bytes) = n /\ from \in Nat
  BY DEF Stands
<1>4. Word(d, from + 1, n) = x /\ x \in Unsigneds(n * ByteBits)
  <2> HIDE DEF n
  <2>1. Stands(d, from, n, bytes) /\ n \in Nat /\ 0 \in Nat /\ 0 + n <= n /\ from + 0 + 1 = from + 1 /\ 0 + 1 = 1
    BY <1>2, <1>3 DEF n
  <2> QED BY <2>1, StandWord
<1>5. n * ByteBits \in Nat \ {0} /\ Bytes[t] * ByteBits \in Nat \ {0} /\ Width(t) = Bytes[t] * ByteBits
      /\ n * ByteBits <= Bytes[t] * ByteBits
  <2> HIDE DEF n, t
  <2> QED BY <1>1, <1>2, ByteBitsAssumption, Z3 DEF Width
<1>6. Read(Bytes[t], i.how, r) = Read(n, i.how, x)
  <2>1. CASE i.how = "s" /\ r = SignExtend(n * ByteBits, Width(t), x)
    <3> DEFINE p == n * ByteBits
               q == Bytes[t] * ByteBits
    <3>1. p \in Nat \ {0} /\ q \in Nat \ {0} /\ p <= q /\ x \in Unsigneds(p) /\ r = SignExtend(p, q, x)
      BY <1>4, <1>5, <2>1
    <3> HIDE DEF p, q, x
    <3>2. S(q, r) = S(p, x)
      BY <3>1, Extended
    <3> QED BY <2>1, <3>2 DEF Read, p, q
  <2>2. CASE i.how # "s" /\ r = x
    BY <2>2 DEF Read
  <2>3. CASE t \in {"f32", "f64"} /\ r = x
    BY <1>1, <2>3
  <2> HIDE DEF x, n, t
  <2> QED BY <1>4, <2>1, <2>2, <2>3 DEF n, t
<1> HIDE DEF x
<1> QED BY <1>3, <1>6 DEF Loaded, x

LEMMA LoadedVector ==
  ASSUME NEW i, i.class = "vload", NEW bytes, NEW under
  PROVE  Loaded(i, bytes, under, bytes)
BY DEF Loaded

LEMMA LoadedSplat ==
  ASSUME NEW i, HasOperation(i), i.class = "loadsplat", NEW d, NEW from, NEW bytes,
         Stands(d, from, memoryAccessSize(i.size), bytes), NEW under
  PROVE  Loaded(i, bytes, under, splatV128(memoryAccessSize(i.size), Word(d, from + 1, memoryAccessSize(i.size))))
<1> DEFINE n == memoryAccessSize(i.size)
           x == Word(d, from + 1, n)
           r == splatV128(n, x)
<1>1. n \in LaneSizes /\ n \in Nat \ {0} /\ Len(bytes) = n /\ from \in Nat
  BY AccessSizes DEF LaneSizes, Stands
<1>2. x = Word(bytes, 1, n) /\ x \in Unsigneds(n * ByteBits) /\ \A k \in 0 .. n - 1 : ByteAt(x, k) = bytes[1 + k]
  <2> HIDE DEF n
  <2>1. Stands(d, from, n, bytes) /\ n \in Nat /\ 0 \in Nat /\ 0 + n <= n /\ from + 0 + 1 = from + 1 /\ 0 + 1 = 1
    BY <1>1 DEF n
  <2>2. /\ Word(d, from + 1, n) = Word(bytes, 1, n) /\ Word(bytes, 1, n) \in Unsigneds(n * ByteBits)
        /\ \A k \in 0 .. n - 1 : ByteAt(Word(bytes, 1, n), k) = bytes[1 + k]
    BY <2>1, StandWord
  <2> QED BY <2>2
<1>3. U(n * ByteBits, x) = x
  <2> DEFINE w == n * ByteBits
  <2>1. w \in Nat \ {0}
    BY <1>1, ByteBitsAssumption, Z3
  <2> HIDE DEF w, x
  <2> QED BY <1>2, <2>1, SignedFacts DEF w
<1>4. ASSUME NEW k \in 1 .. VectorBytes PROVE r[k] = bytes[((k - 1) % n) + 1]
  <2>1. (k - 1) \div n \in Lanes(n) /\ (k - 1) % n \in 0 .. n - 1
    BY <1>1, LanePlaces
  <2> DEFINE lanes == [j \in Lanes(n) |-> U(n * ByteBits, x)]
             l == (k - 1) \div n
             b == (k - 1) % n
  <2>2. r[k] = ByteAt(lanes[l], b)
    BY DEF splatV128, Pack
  <2>3. lanes[l] = x
    BY <1>3, <2>1
  <2>4. ByteAt(x, b) = bytes[1 + b] /\ 1 + b = b + 1
    <3> HIDE DEF x
    <3> QED BY <1>1, <1>2, <2>1
  <2> HIDE DEF lanes, l, b, r
  <2> QED BY <2>2, <2>3, <2>4 DEF b
<1> HIDE DEF r, x
<1>5. \A k \in 1 .. VectorBytes : r[k] = bytes[((k - 1) % Len(bytes)) + 1]
  BY <1>1, <1>4
<1> QED BY <1>5 DEF Loaded, r, x

LEMMA LoadedExtend ==
  ASSUME NEW i, HasOperation(i), i.class = "loadextend", NEW d, NEW from, NEW bytes, Stands(d, from, 8, bytes), NEW under
  PROVE  LET m == memoryAccessSize(i.size)
         IN  Loaded(i, bytes, under, Pack(2 * m, [l \in Lanes(2 * m) |-> Widen(m, i.how, Word(d, from + m * l + 1, m))]))
<1> DEFINE m == memoryAccessSize(i.size)
           lanes == [l \in Lanes(2 * m) |-> Widen(m, i.how, Word(d, from + m * l + 1, m))]
           r == Pack(2 * m, lanes)
           w == m * ByteBits
           w2 == 2 * m * ByteBits
<1>1. m \in {1, 2, 4} /\ 2 * m \in LaneSizes /\ m \in Nat \ {0} /\ from \in Nat
  BY AccessSizes DEF LaneSizes, Stands
<1>2. w \in Nat \ {0} /\ w2 \in Nat \ {0} /\ w <= w2 /\ w2 = (2 * m) * ByteBits
  <2> HIDE DEF m
  <2> QED BY <1>1, ByteBitsAssumption, Z3
<1>3. ASSUME NEW l \in Lanes(2 * m)
      PROVE  /\ Word(d, from + m * l + 1, m) = Word(bytes, m * l + 1, m)
             /\ Word(bytes, m * l + 1, m) \in Unsigneds(w)
  <2>1. l \in Nat /\ m * l \in Nat /\ m * l + m <= 8
    <3>1. CASE m = 1
      BY <3>1 DEF Lanes, VectorBytes
    <3>2. CASE m = 2
      BY <3>2 DEF Lanes, VectorBytes
    <3>3. CASE m = 4
      BY <3>3 DEF Lanes, VectorBytes
    <3> QED BY <1>1, <3>1, <3>2, <3>3
  <2> DEFINE j == m * l
  <2> HIDE DEF j, m
  <2>2. Word(d, from + j + 1, m) = Word(bytes, j + 1, m) /\ Word(bytes, j + 1, m) \in Unsigneds(m * ByteBits)
    BY <1>1, <2>1, StandWord, SMTT(60) DEF j
  <2> QED BY <2>2 DEF j
<1>4. ASSUME NEW l \in Lanes(2 * m)
      PROVE  /\ lanes[l] \in Unsigneds(w2)
             /\ Read(2 * m, i.how, lanes[l]) = Read(m, i.how, Word(bytes, m * l + 1, m))
  <2> DEFINE x == Word(bytes, m * l + 1, m)
  <2>1. lanes[l] = IF i.how = "s" THEN SignExtend(w, w2, x) ELSE x
    BY <1>3 DEF Widen
  <2>2. x \in Unsigneds(w)
    BY <1>3
  <2> HIDE DEF x, w, w2, lanes, m
  <2>3. SignExtend(w, w2, x) \in Unsigneds(w2) /\ S(w2, SignExtend(w, w2, x)) = S(w, x) /\ x \in Unsigneds(w2)
    BY <1>2, <2>2, Extended
  <2>4. lanes[l] \in Unsigneds(w2) /\ Read(2 * m, i.how, lanes[l]) = Read(m, i.how, x)
    BY <1>2, <2>1, <2>3 DEF Read, w, w2
  <2> QED BY <2>4 DEF x
<1>5. ASSUME NEW l \in Lanes(2 * m) PROVE Lane(r, 2 * m, l) = lanes[l]
  <2>1. \A k \in Lanes(2 * m) : lanes[k] \in Int
    <3> HIDE DEF lanes, m, w2
    <3>1. 2^w2 \in Nat
      BY <1>2, Pow
    <3> QED BY <1>4, <3>1 DEF Unsigneds
  <2>2. lanes[l] % 2^w2 = lanes[l]
    <3> HIDE DEF lanes, m, w2
    <3> QED BY <1>2, <1>4, SignedFacts DEF U
  <2> HIDE DEF lanes
  <2>3. Lane(r, 2 * m, l) = lanes[l] % 2^((2 * m) * ByteBits)
    BY <1>1, <2>1, LanePack
  <2> QED BY <1>2, <2>2, <2>3
<1> HIDE DEF lanes, r
<1>6. \A l \in Lanes(2 * m) : Read(2 * m, i.how, Lane(r, 2 * m, l)) = Read(m, i.how, Word(bytes, m * l + 1, m))
  BY <1>4, <1>5
<1>7. Loaded(i, bytes, under, r)
  BY <1>6 DEF Loaded
<1> QED BY <1>7 DEF r, lanes

LEMMA LoadedZero ==
  ASSUME NEW i, HasOperation(i), i.class = "loadzero", NEW bytes \in Seq(Byte), Len(bytes) = memoryAccessSize(i.size),
         NEW under
  PROVE  Loaded(i, bytes, under, bytes \o SubSeq(ZeroVector, memoryAccessSize(i.size) + 1, VectorBytes))
<1> DEFINE n == memoryAccessSize(i.size)
           z == SubSeq(ZeroVector, n + 1, VectorBytes)
           r == bytes \o z
<1>1. n \in {4, 8} /\ n \in Nat
  BY AccessSizes
<1>2. ZeroVector \in Seq(Nat) /\ Len(ZeroVector) = 16 /\ \A k \in 1 .. 16 : ZeroVector[k] = 0
  BY DEF ZeroVector, VectorBytes
<1>3. z \in Seq(Nat) /\ Len(z) = 16 - n /\ \A k \in 1 .. 16 - n : z[k] = 0
  <2> HIDE DEF n
  <2>1. SubSeq(ZeroVector, n + 1, 16) = [k \in 1 .. (1 + 16 - (n + 1)) |-> ZeroVector[k + (n + 1) - 1]]
    BY <1>1, <1>2 DEF SubSeq
  <2>2. 1 + 16 - (n + 1) = 16 - n /\ \A k \in 1 .. 16 - n : k + (n + 1) - 1 \in 1 .. 16
    BY <1>1
  <2>3. z = [k \in 1 .. 16 - n |-> 0]
    BY <1>2, <2>1, <2>2 DEF VectorBytes
  <2> HIDE DEF z
  <2> QED BY <1>1, <2>3
<1>4. ASSUME NEW k \in 1 .. VectorBytes PROVE r[k] = IF k <= n THEN bytes[k] ELSE 0
  <2> HIDE DEF z, n
  <2>1. bytes \in Seq(Nat)
    BY ByteFacts, SMTT(60) DEF Byte
  <2>2. Len(bytes) = n /\ k \in 1 .. 16
    BY DEF n, VectorBytes
  <2>3. /\ \A j \in 1 .. Len(bytes) : (bytes \o z)[j] = bytes[j]
        /\ \A j \in Len(bytes) + 1 .. Len(bytes) + Len(z) : (bytes \o z)[j] = z[j - Len(bytes)]
    BY <1>3, <2>1, Concat
  <2>4. ASSUME k <= n PROVE r[k] = bytes[k]
    BY <1>1, <2>2, <2>3, <2>4
  <2>5. ASSUME ~(k <= n) PROVE r[k] = 0
    <3>1. k \in Len(bytes) + 1 .. Len(bytes) + Len(z) /\ k - n \in 1 .. 16 - n
      BY <1>1, <1>3, <2>2, <2>5
    <3> QED BY <1>1, <1>3, <2>2, <2>3, <2>5, <3>1
  <2> QED BY <2>4, <2>5
<1> HIDE DEF r
<1>5. Loaded(i, bytes, under, r)
  BY <1>4 DEF Loaded
<1> QED BY <1>5 DEF r

LEMMA LoadedLane ==
  ASSUME NEW i, HasOperation(i), i.class = "loadlane", NEW d, NEW from, NEW bytes,
         Stands(d, from, memoryAccessSize(i.size), bytes), NEW under, NEW r,
         r = LET first == v128LaneByteOffset(memoryAccessSize(i.size), i.lane)
             IN  [k \in 1 .. VectorBytes |-> IF k \in first + 1 .. first + memoryAccessSize(i.size)
                                             THEN d[from + k - first] ELSE under[k]]
  PROVE  Loaded(i, bytes, under, r)
<1> DEFINE n == memoryAccessSize(i.size)
           first == n * i.lane
<1>1. n \in LaneSizes /\ n \in Nat \ {0} /\ Len(bytes) = n /\ from \in Nat /\ i.lane \in Lanes(n)
  BY AccessSizes DEF LaneSizes, Stands
<1>2. first \in Nat
  <2>1. first + 1 \in Nat /\ i.lane \in Nat
    BY <1>1 DEF Lanes
  <2> HIDE DEF n
  <2> QED BY <1>1, <2>1
<1>3. ASSUME NEW k \in 1 .. VectorBytes
      PROVE  r[k] = IF k - 1 - first \in 0 .. n - 1 THEN bytes[k - first] ELSE under[k]
  <2>1. r[k] = IF k \in first + 1 .. first + n THEN d[from + k - first] ELSE under[k]
    BY DEF v128LaneByteOffset
  <2> HIDE DEF first, n
  <2>2. k \in Int /\ (k \in first + 1 .. first + n <=> k - 1 - first \in 0 .. n - 1)
    BY <1>1, <1>2
  <2>3. k \in first + 1 .. first + n => d[from + k - first] = bytes[k - first]
    <3> SUFFICES ASSUME k \in first + 1 .. first + n PROVE d[from + k - first] = bytes[k - first]
      OBVIOUS
    <3> DEFINE j == k - first
    <3>1. j \in 1 .. n /\ from + k - first = from + j
      BY <1>1, <1>2
    <3> HIDE DEF j
    <3>2. bytes[j] = d[from + j]
      BY <3>1 DEF Stands, n
    <3> QED BY <3>1, <3>2 DEF j
  <2> QED BY <2>1, <2>2, <2>3
<1>4. \A k \in 1 .. VectorBytes :
        r[k] = IF k - 1 - Len(bytes) * i.lane \in 0 .. Len(bytes) - 1 THEN bytes[k - Len(bytes) * i.lane] ELSE under[k]
  BY <1>1, <1>3
<1> QED BY <1>4 DEF Loaded

-----------------------------------------------------------------------------
(* Loads *)

\* The base and the offset reach a place that has n bytes.
LEMMA AccessFits ==
  ASSUME NEW want, popWant(want), NEW base \in Nat, Popped(want)[Len(want)] = base, NEW n \in Nat \ {0},
         ins.offset \in 0 .. 2^Width("i64") - 1, ins.area \in DOMAIN Areas,
         Len(areas[ins.area].data) = Len(Initial(ins.area))
  PROVE  /\ Access(want, n) <=> base + ins.offset + n <= Len(Initial(ins.area))
         /\ Access(want, n) => Address(want) = base + ins.offset
<1> DEFINE p == 2^Width("i64")
           l == Len(Initial(ins.area))
           o == ins.offset
<1>1. p \in Nat \ {0}
  <2>1. Width("i64") \in Nat
    BY ByteFacts DEF Width, Bytes
  <2> QED BY <2>1, Pow
<1>2. l \in Nat /\ l <= p /\ o \in 0 .. p - 1
  BY AreaFacts
<1>3. Access(want, n) <=> /\ ~(base > p - 1 - o)
                          /\ (base + o) % p <= l /\ n <= l - ((base + o) % p)
  BY DEF Access, Overflows, InBounds, Address, U
<1>4. Address(want) = (base + o) % p
  BY DEF Address, U
<1> HIDE DEF p, l, o
<1>5. CASE base > p - 1 - o
  BY <1>1, <1>2, <1>3, <1>5 DEF l, o
<1>6. CASE ~(base > p - 1 - o)
  <2> DEFINE a == base + o
  <2>1. a \in 0 .. p - 1
    BY <1>1, <1>2, <1>6
  <2> HIDE DEF a
  <2>2. a % p = a
    BY <1>1, <2>1, SmallMod
  <2>3. Access(want, n) <=> a <= l /\ n <= l - a
    BY <1>3, <1>6, <2>2 DEF a
  <2>4. Address(want) = a
    BY <1>4, <2>2 DEF a
  <2> QED BY <1>1, <1>2, <2>1, <2>3, <2>4 DEF a, l, o
<1> QED BY <1>1, <1>2, <1>5, <1>6

\* The last instruction is a load and finds the first operands left.
Loading ==
  /\ TypeInv /\ out = "run" /\ pc = Len(prog) /\ ins.class \in Loads \cup {"loadlane"}
  /\ Len(stack) = Len(Sig(ins).params) /\ \A k \in 1 .. Len(stack) : stack[k] = args[k]
  /\ areas[ins.area].data \in Seq(Byte) /\ Len(areas[ins.area].data) = Len(Initial(ins.area))

LEMMA LoadingFacts ==
  ASSUME Loading
  PROVE  /\ HasOperation(ins) /\ ins.area \in DOMAIN Areas /\ ins.offset \in 0 .. 2^Width("i64") - 1
         /\ AddressType(ins.area) \in {"i32", "i64"} /\ X(1) \in Nat
         /\ stack \in Seq(Range(stack)) /\ Len(stack) = IF ins.class = "loadlane" THEN 2 ELSE 1
<1>1. prog \in Programs /\ HasAreas(ins) /\ HasOperation(ins) /\ args \in Operands(Needs(prog))
  BY ParamsTyped DEF Loading, TypeInv
<1>2. ins.area \in DOMAIN Areas /\ ins.offset \in 0 .. 2^Width("i64") - 1
  BY <1>1 DEF HasAreas, Loading, Accesses
<1>3. AddressType(ins.area) \in {"i32", "i64"}
  BY <1>2, AreaFacts DEF AddressType
<1>4. Sig(ins).params = IF ins.class = "loadlane" THEN <<AddressType(ins.area), "v128">> ELSE <<AddressType(ins.area)>>
  <2>1. CASE ins.class \in Loads
    BY <2>1 DEF Sig, LoadRule, Effect, Loads
  <2>2. CASE ins.class = "loadlane"
    BY <2>2 DEF Sig, LaneRule, Effect, Loads
  <2> QED BY <2>1, <2>2 DEF Loading
<1>5. Len(stack) = IF ins.class = "loadlane" THEN 2 ELSE 1
  BY <1>4 DEF Loading
<1>6. Needs(prog)[1] = Sig(ins).params[1] /\ Len(Needs(prog)) >= 1 /\ Needs(prog) \in Seq(ValueTypes)
  <2>1. Len(prog) \in {1, 2} /\ \A k \in 1 .. Len(prog) : Sig(prog[k]).params \in Seq(ValueTypes)
    BY <1>1, ProgramFacts
  <2>2. Len(Sig(ins).params) >= 1 /\ ins = prog[Len(prog)]
    BY <1>4 DEF Loading, ins
  <2>3. CASE Len(prog) = 1
    <3>1. Needs(prog) = Sig(ins).params /\ Sig(ins).params \in Seq(ValueTypes)
      BY <2>1, <2>2, <2>3 DEF Needs
    <3> QED BY <2>2, <3>1
  <2>4. CASE Len(prog) = 2
    <3> DEFINE left == Sig(prog[2]).params
               right == Sig(prog[1]).params
    <3>1. left \in Seq(ValueTypes) /\ right \in Seq(ValueTypes) /\ left = Sig(ins).params
      BY <2>1, <2>2, <2>4
    <3>2. Sig(prog[1]).results = << >>
      BY <1>1, <2>4, ProgramFacts
    <3>3. Needs(prog) = SubSeq(left, 1, Len(left)) \o right
      <4>1. Needs(prog) = SubSeq(left, 1, Len(left) - Len(<< >>)) \o right
        BY <2>4, <3>2 DEF Needs
      <4>2. Len(left) - Len(<< >>) = Len(left)
        BY <3>1
      <4> QED BY <4>1, <4>2
    <3> HIDE DEF left, right
    <3>4. SubSeq(left, 1, Len(left)) = left
      BY <3>1
    <3>5. Needs(prog) = left \o right
      BY <3>3, <3>4
    <3>6. /\ Needs(prog) \in Seq(ValueTypes) /\ Len(Needs(prog)) = Len(left) + Len(right) /\ Len(right) \in Nat
          /\ \A k \in 1 .. Len(left) : Needs(prog)[k] = left[k]
      BY <3>1, <3>5, Concat
    <3>7. Len(left) \in Nat /\ Len(left) >= 1
      BY <2>2, <3>1
    <3> QED BY <3>1, <3>6, <3>7
  <2> QED BY <2>1, <2>3, <2>4
<1>7. X(1) \in Nat
  <2>1. Fits(args, Needs(prog))
    BY <1>1, <1>6, OperandsFit
  <2>2. 1 \in 1 .. Len(Needs(prog)) /\ Needs(prog)[1] = AddressType(ins.area)
    <3>1. Len(Needs(prog)) \in Nat /\ Sig(ins).params[1] = AddressType(ins.area)
      BY <1>4, <1>6
    <3> QED BY <1>6, <3>1
  <2> QED BY <1>3, <2>1, <2>2, OperandValues DEF X, Numbers32
<1> QED BY <1>1, <1>2, <1>3, <1>5, <1>7 DEF Loading, TypeInv

\* It pushes v when n bytes lie inside from its true address on, and traps when they do not.
Reads(want, t, n, v) ==
  IF ~popWant(want) THEN Stop("fault")
  ELSE IF ~Access(want, n) THEN Stop("trap")
  ELSE Advance(want, <<[t |-> t, v |-> v]>>, areas)
Reaches(n) == X(1) + ins.offset + n <= Len(Initial(ins.area))
Gives(n, v) ==
  /\ UNCHANGED <<prog, args, areas>> /\ out' = (IF Reaches(n) THEN "done" ELSE "trap")
  /\ Reaches(n) => Result' = v

LEMMA LoadEnds ==
  ASSUME Loading, out' # "fault", NEW want, Len(want) = Len(stack), DOMAIN want = 1 .. Len(stack),
         NEW t, NEW n \in Nat \ {0}, NEW v, Reads(want, t, n, v)
  PROVE  Gives(n, v) /\ (Reaches(n) => Address(want) = X(1) + ins.offset)
<1>1. popWant(want) /\ IF ~Access(want, n) THEN Stop("trap") ELSE Advance(want, <<[t |-> t, v |-> v]>>, areas)
  BY DEF Reads, Stop
<1>2. Popped(want)[Len(want)] = X(1)
  <2>1. Len(stack) \in {1, 2} /\ stack[1] = args[1]
    <3>1. Len(stack) \in {1, 2}
      BY LoadingFacts
    <3> QED BY <3>1 DEF Loading
  <2>2. Popped(want)[Len(stack)] = stack[Len(stack) - Len(stack) + 1].v
    BY <2>1 DEF Popped
  <2> QED BY <2>1, <2>2 DEF X
<1>3. /\ Access(want, n) <=> Reaches(n)
      /\ Access(want, n) => Address(want) = X(1) + ins.offset
  <2> DEFINE base == X(1)
  <2>1. base \in Nat /\ ins.offset \in 0 .. 2^Width("i64") - 1 /\ ins.area \in DOMAIN Areas
        /\ Len(areas[ins.area].data) = Len(Initial(ins.area)) /\ Popped(want)[Len(want)] = base
    BY <1>2, LoadingFacts DEF Loading
  <2> HIDE DEF base
  <2>2. /\ Access(want, n) <=> base + ins.offset + n <= Len(Initial(ins.area))
        /\ Access(want, n) => Address(want) = base + ins.offset
    BY <1>1, <2>1, AccessFits
  <2> QED BY <2>2 DEF base, Reaches
<1>4. CASE Reaches(n)
  <2>1. Advance(want, <<[t |-> t, v |-> v]>>, areas)
    BY <1>1, <1>3, <1>4
  <2> DEFINE r == [t |-> t, v |-> v]
  <2>2. r.v = v
    OBVIOUS
  <2> HIDE DEF r
  <2>3. SubSeq(stack, 1, Len(stack) - Len(want)) = << >>
    BY LoadingFacts
  <2>4. stack' = << >> \o <<r>>
    BY <2>1, <2>3 DEF Advance, r
  <2>5. stack' = <<r>>
    BY <2>4
  <2>6. Result' = v
    BY <2>2, <2>5 DEF Result
  <2>7. UNCHANGED <<prog, args, areas>> /\ out' = "done"
    BY <2>1 DEF Advance, Loading
  <2> QED BY <1>3, <1>4, <2>6, <2>7 DEF Gives
<1>5. CASE ~Reaches(n)
  BY <1>1, <1>3, <1>5 DEF Stop, Gives
<1> QED BY <1>4, <1>5

\* The bytes it reads, and what it is to push.
There(n) == SubSeq(areas[ins.area].data, X(1) + ins.offset + 1, X(1) + ins.offset + n)
LoadExact == \E r : Gives(BytesRead(ins), r) /\ (Reaches(BytesRead(ins)) => Loaded(ins, There(BytesRead(ins)), X(2), r))

LEMMA ThereStands ==
  ASSUME Loading, NEW n \in Nat, Reaches(n)
  PROVE  /\ Stands(areas[ins.area].data, X(1) + ins.offset, n, There(n)) /\ There(n) \in Seq(Byte) /\ Len(There(n)) = n
         /\ X(1) + ins.offset \in Nat
<1> DEFINE d == areas[ins.area].data
           from == X(1) + ins.offset
<1>1. d \in Seq(Byte) /\ Len(d) = Len(Initial(ins.area)) /\ X(1) \in Nat /\ ins.offset \in 0 .. 2^Width("i64") - 1
  BY LoadingFacts DEF Loading
<1>2. from \in Nat /\ from + n <= Len(d)
  BY <1>1 DEF Reaches
<1> HIDE DEF d, from
<1>3. Stands(d, from, n, SubSeq(d, from + 1, from + n)) /\ SubSeq(d, from + 1, from + n) \in Seq(Byte)
  BY <1>1, <1>2, BytesStand
<1> QED BY <1>2, <1>3 DEF d, from, There, Stands

\* The numbers.
LEMMA NumberLoads ==
  ASSUME Loading, out' # "fault", I32Load \/ I64Load \/ F32Load \/ F64Load
  PROVE  LoadExact
<1> DEFINE n == memoryAccessSize(ins.size)
           want == <<IndexOf(ins.area)>>
           raw == memoryLoad(ins.area, Address(want), n)
           m == n * ByteBits
           w == Word(areas[ins.area].data, X(1) + ins.offset + 1, n)
<1>1. ins.class = "load" /\ HasOperation(ins) /\ Len(want) = Len(stack) /\ DOMAIN want = 1 .. Len(stack)
  <2>1. Len(want) = 1 /\ DOMAIN want = 1 .. 1
    OBVIOUS
  <2> HIDE DEF want
  <2>2. ins.class = "load"
    BY Zenon DEF I32Load, I64Load, F32Load, F64Load, At
  <2> QED BY <2>1, <2>2, LoadingFacts
<1>2. n \in Nat \ {0} /\ BytesRead(ins) = n /\ n \in LaneSizes
  BY <1>1, AccessSizes DEF LaneSizes, BytesRead
<1>3. PICK r : /\ Reads(want, ins.t, n, r)
               /\ \/ r = raw /\ (ins.how = "s" => ins.t \in {"f32", "f64"})
                  \/ ins.how = "s" /\ r = SignExtend(m, Width(ins.t), raw)
  <2>1. CASE I32Load
    <3>1. ins.t = "i32" /\ Reads(want, "i32", n, extendI32Load(n, ins.how, raw))
      BY <2>1 DEF I32Load, LoadInto, LoadBytes, Reads
    <3> HIDE DEF want, n, raw
    <3> QED BY <3>1 DEF extendI32Load
  <2>2. CASE I64Load
    <3>1. ins.t = "i64" /\ Reads(want, "i64", n, extendI64Load(n, ins.how, raw))
      BY <2>2 DEF I64Load, LoadInto, LoadBytes, Reads
    <3> HIDE DEF want, n, raw
    <3> QED BY <3>1 DEF extendI64Load
  <2>3. CASE F32Load
    <3>1. ins.t = "f32" /\ Reads(want, "f32", n, raw)
      BY <2>3 DEF F32Load, LoadInto, LoadBytes, Reads
    <3> HIDE DEF want, n, raw
    <3> QED BY <3>1
  <2>4. CASE F64Load
    <3>1. ins.t = "f64" /\ Reads(want, "f64", n, raw)
      BY <2>4 DEF F64Load, LoadInto, LoadBytes, Reads
    <3> HIDE DEF want, n, raw
    <3> QED BY <3>1
  <2> QED BY <2>1, <2>2, <2>3, <2>4
<1>4. Gives(n, r) /\ (Reaches(n) => raw = w)
  <2> HIDE DEF want, n
  <2>1. Gives(n, r) /\ (Reaches(n) => Address(want) = X(1) + ins.offset)
    BY <1>1, <1>2, <1>3, LoadEnds
  <2> QED BY <2>1 DEF memoryLoad
<1>5. ASSUME Reaches(n) PROVE Loaded(ins, There(n), X(2), r)
  <2>1. Stands(areas[ins.area].data, X(1) + ins.offset, n, There(n))
    BY <1>2, <1>5, ThereStands
  <2>2. \/ r = w /\ (ins.how = "s" => ins.t \in {"f32", "f64"})
        \/ ins.how = "s" /\ r = SignExtend(m, Width(ins.t), w)
    <3> HIDE DEF raw, w, n, m
    <3> QED BY <1>3, <1>4, <1>5
  <2> QED BY <1>1, <2>1, <2>2, LoadedNumber
<1> HIDE DEF n
<1> QED BY <1>2, <1>4, <1>5 DEF LoadExact

\* The vectors. Each pushes what it makes of the bytes at its address.
LEMMA VectorLoads ==
  ASSUME Loading, out' # "fault",
         V128Load \/ V128LoadSplat \/ V128LoadExtend \/ V128LoadZero \/ V128LoadLane
  PROVE  LoadExact
<1> DEFINE d == areas[ins.area].data
           from == X(1) + ins.offset
           n == BytesRead(ins)
           size == memoryAccessSize(ins.size)
           one == <<IndexOf(ins.area)>>
           two == <<"v128", IndexOf(ins.area)>>
<1>1. /\ Len(one) = 1 /\ DOMAIN one = 1 .. 1
      /\ Len(two) = 2 /\ DOMAIN two = 1 .. 2
  OBVIOUS
<1>2. HasOperation(ins) /\ Len(stack) = IF ins.class = "loadlane" THEN 2 ELSE 1
  BY LoadingFacts
<1>3. ASSUME NEW want, Len(want) = Len(stack), DOMAIN want = 1 .. Len(stack), NEW v, Reads(want, "v128", n, v),
             n \in Nat \ {0}, NEW w, Reaches(n) /\ Address(want) = from => v = w,
             Reaches(n) => Loaded(ins, There(n), X(2), w)
      PROVE  LoadExact
  <2> HIDE DEF n, from
  <2>1. Gives(n, v) /\ (Reaches(n) => Address(want) = X(1) + ins.offset)
    BY <1>3, LoadEnds
  <2> QED BY <1>3, <2>1 DEF LoadExact, n, from
<1>4. CASE V128Load
  <2>1. ins.class = "vload" /\ Reads(one, "v128", VectorBytes, AllBytes(ins.area, Address(one), VectorBytes))
    BY <1>4 DEF V128Load, LoadBytes, Reads, At
  <2>2. n = 16 /\ n = VectorBytes /\ n \in Nat \ {0}
    BY <2>1 DEF BytesRead, VectorBytes
  <2>3. Loaded(ins, There(n), X(2), There(n))
    BY <2>1, LoadedVector
  <2>4. Address(one) = from => AllBytes(ins.area, Address(one), n) = There(n)
    BY DEF AllBytes, There
  <2> HIDE DEF one, n, from
  <2> QED BY <1>1, <1>2, <1>3, <2>1, <2>2, <2>3, <2>4
<1>5. CASE V128LoadSplat
  <2>1. ins.class = "loadsplat" /\ Reads(one, "v128", size, evalV128LoadSplat(ins.area, Address(one), size))
    BY <1>5 DEF V128LoadSplat, LoadBytes, Reads, At
  <2>2. n = size /\ n \in Nat \ {0}
    BY <1>2, <2>1, AccessSizes DEF BytesRead, LaneSizes
  <2> DEFINE w == splatV128(size, Word(d, from + 1, size))
  <2>3. ASSUME Reaches(n) PROVE Loaded(ins, There(n), X(2), w)
    <3>1. Stands(d, from, size, There(n))
      BY <2>2, <2>3, ThereStands
    <3> QED BY <1>2, <2>1, <3>1, LoadedSplat
  <2>4. Address(one) = from => evalV128LoadSplat(ins.area, Address(one), size) = w
    BY DEF evalV128LoadSplat, memoryLoad
  <2> HIDE DEF one, n, from, w, size
  <2> QED BY <1>1, <1>2, <1>3, <2>1, <2>2, <2>3, <2>4
<1>6. CASE V128LoadExtend
  <2>1. ins.class = "loadextend" /\ Reads(one, "v128", 8, evalV128LoadExtend(ins.area, Address(one), size, ins.how))
    BY <1>6 DEF V128LoadExtend, LoadBytes, Reads, At
  <2>2. n = 8 /\ n \in Nat \ {0}
    BY <2>1 DEF BytesRead
  <2> DEFINE w == Pack(2 * size, [l \in Lanes(2 * size) |-> Widen(size, ins.how, Word(d, from + size * l + 1, size))])
  <2>3. ASSUME Reaches(n) PROVE Loaded(ins, There(n), X(2), w)
    <3>1. Stands(d, from, 8, There(n))
      BY <2>2, <2>3, ThereStands
    <3> QED BY <1>2, <2>1, <3>1, LoadedExtend
  <2>4. Address(one) = from => evalV128LoadExtend(ins.area, Address(one), size, ins.how) = w
    BY DEF evalV128LoadExtend, memoryLoad
  <2> HIDE DEF one, n, from, w, size
  <2> QED BY <1>1, <1>2, <1>3, <2>1, <2>2, <2>3, <2>4
<1>7. CASE V128LoadZero
  <2>1. ins.class = "loadzero" /\ Reads(one, "v128", size, evalV128LoadZero(ins.area, Address(one), size))
    BY <1>7 DEF V128LoadZero, LoadBytes, Reads, At
  <2>2. n = size /\ n \in Nat \ {0}
    BY <1>2, <2>1, AccessSizes DEF BytesRead
  <2> DEFINE w == There(n) \o SubSeq(ZeroVector, size + 1, VectorBytes)
  <2>3. ASSUME Reaches(n) PROVE Loaded(ins, There(n), X(2), w)
    <3>1. There(n) \in Seq(Byte) /\ Len(There(n)) = size
      BY <2>2, <2>3, ThereStands
    <3> QED BY <1>2, <2>1, <3>1, LoadedZero
  <2>4. Address(one) = from => evalV128LoadZero(ins.area, Address(one), size) = w
    BY <2>2 DEF evalV128LoadZero, AllBytes, There
  <2> HIDE DEF one, n, from, w, size
  <2> QED BY <1>1, <1>2, <1>3, <2>1, <2>2, <2>3, <2>4
<1>8. CASE V128LoadLane
  <2> DEFINE under == Popped(two)[1]
  <2>1. ins.class = "loadlane" /\ Reads(two, "v128", size, evalV128LoadLane(ins.area, Address(two), size, ins.lane, under))
    BY <1>8 DEF V128LoadLane, LoadBytes, Reads, At
  <2>2. n = size /\ n \in Nat \ {0}
    BY <1>2, <2>1, AccessSizes DEF BytesRead, LaneSizes
  <2>3. under = X(2) /\ Len(stack) = 2
    <3>1. Len(stack) = 2 /\ stack[2] = args[2]
      BY <1>2, <2>1 DEF Loading
    <3>2. Popped(two)[1] = stack[Len(stack) - 1 + 1].v
      BY <1>1 DEF Popped
    <3> QED BY <3>1, <3>2 DEF X
  <2> DEFINE w == LET first == v128LaneByteOffset(size, ins.lane)
                  IN  [k \in 1 .. VectorBytes |-> IF k \in first + 1 .. first + size THEN d[from + k - first] ELSE X(2)[k]]
  <2>4. ASSUME Reaches(n) PROVE Loaded(ins, There(n), X(2), w)
    <3>1. Stands(d, from, size, There(n))
      BY <2>2, <2>4, ThereStands
    <3> QED BY <1>2, <2>1, <3>1, LoadedLane
  <2>5. Address(two) = from => evalV128LoadLane(ins.area, Address(two), size, ins.lane, under) = w
    BY <2>3 DEF evalV128LoadLane
  <2> HIDE DEF two, n, from, w, size, under
  <2> QED BY <1>1, <1>3, <2>1, <2>2, <2>3, <2>4, <2>5
<1> QED BY <1>4, <1>5, <1>6, <1>7, <1>8

-----------------------------------------------------------------------------
(* Stores *)

\* The first instruction is a store.
Storing ==
  /\ TypeInv /\ out = "run" /\ pc = 1 /\ ins.class \in {"store", "storelane"} /\ stack = args /\ areas = Areas

LEMMA StoringFacts ==
  ASSUME Storing
  PROVE  /\ HasOperation(ins) /\ ins.area \in DOMAIN Areas /\ ins.offset \in 0 .. 2^Width("i64") - 1
         /\ Len(args) \in Nat /\ Len(args) >= 2 /\ args[Len(args) - 1].v \in Nat /\ args \in Seq(Range(args))
         /\ ins.class = "store" /\ ins.t = "v128" => args[Len(args)].v \in Vectors
         /\ ins.class = "store" /\ ins.t # "v128" => args[Len(args)].v \in Int
         /\ ins.class = "storelane" => args[Len(args)].v \in Vectors
         /\ Initial(ins.area) \in Seq(Byte)
<1>1. /\ prog \in Programs /\ HasAreas(ins) /\ HasOperation(ins) /\ args \in Operands(Needs(prog))
      /\ pc \in 1 .. Len(prog) /\ ins = prog[1]
  BY ParamsTyped, ProgramFacts DEF Storing, TypeInv, ins
<1>2. ins.area \in DOMAIN Areas /\ ins.offset \in 0 .. 2^Width("i64") - 1 /\ Initial(ins.area) \in Seq(Byte)
  BY <1>1 DEF HasAreas, Storing, Accesses, Initial
<1>3. AddressType(ins.area) \in {"i32", "i64"}
  BY <1>2, AreaFacts DEF AddressType
<1> DEFINE t == IF ins.class = "store" THEN ins.t ELSE "v128"
<1>4. Sig(ins).params = <<AddressType(ins.area), t>>
  <2>1. CASE ins.class = "store"
    BY <2>1 DEF Sig, StoreRule, Effect, Loads
  <2>2. CASE ins.class = "storelane"
    BY <2>2 DEF Sig, LaneRule, Effect, Loads
  <2> QED BY <2>1, <2>2 DEF Storing
<1> DEFINE types == Needs(prog)
<1>5. EndsWith(types, Sig(ins).params)
  <2>1. Len(prog) \in Nat /\ 1 \in 1 .. Len(prog)
    BY <1>1, ProgramFacts
  <2>2. Types(prog)[1] = types
    BY <2>1, TypesLoop
  <2> QED BY <1>1, <2>1, <2>2, TypesEnd
<1> HIDE DEF types, t
<1>6. types \in Seq(ValueTypes) /\ Len(types) \in Nat /\ Len(types) >= 2
      /\ types[Len(types) - 1] = AddressType(ins.area) /\ types[Len(types)] = t
  <2>1. Len(Sig(ins).params) = 2 /\ Sig(ins).params[1] = AddressType(ins.area) /\ Sig(ins).params[2] = t
    BY <1>4
  <2>2. types \in Seq(ValueTypes) /\ 2 <= Len(types) /\ \A j \in 1 .. 2 : types[Len(types) - 2 + j] = Sig(ins).params[j]
    BY <1>5, <2>1 DEF EndsWith
  <2>3. Len(types) \in Nat /\ Len(types) - 2 + 1 = Len(types) - 1 /\ Len(types) - 2 + 2 = Len(types)
    BY <2>2
  <2> QED BY <2>1, <2>2, <2>3
<1>7. Fits(args, types) /\ Len(args) = Len(types)
  BY <1>1, <1>6, OperandsFit DEF Fits, types
<1>8. /\ args[Len(args) - 1].v \in Nat
      /\ t = "v128" => args[Len(args)].v \in Vectors
      /\ t \in {"i32", "i64", "f32", "f64"} => args[Len(args)].v \in Nat
  <2>1. Len(types) - 1 \in 1 .. Len(types) /\ Len(types) \in 1 .. Len(types)
    BY <1>6
  <2> QED BY <1>3, <1>6, <1>7, <2>1, OperandValues DEF Numbers32
<1>9. ins.class = "store" /\ ins.t # "v128" => ins.t \in {"i32", "i64", "f32", "f64"}
  BY <1>1, AccessSizes
<1>10. args \in Seq(Range(args))
  BY <1>7, InItsRange DEF Fits
<1>11. args[Len(args)].v \in Nat => args[Len(args)].v \in Int
  OBVIOUS
<1> QED BY <1>1, <1>2, <1>6, <1>7, <1>8, <1>9, <1>10, <1>11 DEF t

To == args[Len(args) - 1].v + ins.offset
Stored == BytesStored(ins, args[Len(args)].v)
StoreExact ==
  /\ UNCHANGED <<prog, args>>
  /\ IF To + Len(Stored) <= Len(Initial(ins.area))
     THEN /\ pc' = 2 /\ out' = (IF Len(prog) = 1 THEN "done" ELSE "run") /\ stack' = SubSeq(args, 1, Len(args) - 2)
          /\ areas' = [Areas EXCEPT ![ins.area].data = Overlaid(ins.area, To, Stored)]
     ELSE out' = "trap" /\ areas' = Areas

LEMMA StoredBytes ==
  ASSUME Storing
  PROVE  Len(Stored) \in Nat \ {0} /\ \A k \in 1 .. Len(Stored) : Stored[k] \in Byte
<1> DEFINE n == memoryAccessSize(ins.size)
           x == args[Len(args)].v
<1>1. CASE ins.class = "store" /\ ins.t = "v128"
  <2>1. Stored = x /\ x \in [1 .. 16 -> Byte]
    BY <1>1, StoringFacts DEF Stored, BytesStored, Vectors, VectorBytes
  <2> HIDE DEF x
  <2>2. Len(x) = 16
    <3>1. x = [k \in 1 .. 16 |-> x[k]] /\ \A k \in 1 .. 16 : x[k] \in Byte
      BY <2>1
    <3>2. DOMAIN x = 1 .. 16 /\ x \in Seq(Byte)
      BY <3>1
    <3> QED BY <3>2
  <2> QED BY <2>1, <2>2
<1>2. CASE ins.class = "store" /\ ins.t # "v128"
  <2>1. n \in Nat \ {0} /\ x \in Int
    BY <1>2, StoringFacts, AccessSizes DEF LaneSizes
  <2>2. Stored = [k \in 1 .. n |-> ByteAt(x, k - 1)]
    BY <1>2 DEF Stored, BytesStored
  <2> HIDE DEF n, x
  <2>3. Len(Stored) = n /\ \A k \in 1 .. n : Stored[k] = ByteAt(x, k - 1) /\ k - 1 \in Nat
    BY <2>1, <2>2
  <2> QED BY <2>1, <2>3, ByteFacts
<1>3. CASE ins.class = "storelane"
  <2>1. n \in LaneSizes /\ n \in Nat \ {0} /\ x \in Vectors /\ ins.lane \in Lanes(n)
    BY <1>3, StoringFacts, AccessSizes DEF LaneSizes
  <2>2. Stored = [k \in 1 .. n |-> x[n * ins.lane + k]]
    BY <1>3 DEF Stored, BytesStored
  <2> HIDE DEF n, x
  <2>3. Len(Stored) = n /\ \A k \in 1 .. n : Stored[k] = x[n * ins.lane + k]
    BY <2>1, <2>2
  <2>4. \A k \in 1 .. n : n * ins.lane + k \in 1 .. VectorBytes
    <3> TAKE k \in 1 .. n
    <3>1. k - 1 \in 0 .. n - 1
      BY <2>1
    <3>2. n * ins.lane + 1 + (k - 1) \in 1 .. VectorBytes /\ n * ins.lane + 1 \in Nat
      BY <2>1, <3>1, LanePlaces
    <3> DEFINE q == n * ins.lane
    <3>3. q \in Int /\ q + 1 + (k - 1) = q + k
      <4>1. ins.lane \in Int
        BY <2>1 DEF Lanes
      <4> QED BY <2>1, <4>1
    <3> HIDE DEF q
    <3> QED BY <3>2, <3>3 DEF q
  <2> QED BY <2>1, <2>3, <2>4 DEF Vectors
<1> QED BY <1>1, <1>2, <1>3 DEF Storing

LEMMA StoreEnds ==
  ASSUME Storing, out' # "fault", NEW t, NEW n, NEW cells,
         LET want == <<t, IndexOf(ins.area)>>
         IN  /\ n = Len(Stored) /\ (Popped(want)[1] = args[Len(args)].v => cells = Stored)
             /\ IF ~popWant(want) THEN Stop("fault")
                ELSE IF ~Access(want, n) THEN Stop("trap")
                ELSE Advance(want, << >>, Written(ins.area, Address(want), cells))
  PROVE  StoreExact
<1> DEFINE want == <<t, IndexOf(ins.area)>>
           base == args[Len(args) - 1].v
           fits == To + Len(Stored) <= Len(Initial(ins.area))
<1>1. /\ popWant(want)
      /\ IF ~Access(want, n) THEN Stop("trap") ELSE Advance(want, << >>, Written(ins.area, Address(want), cells))
  BY DEF Stop
<1>2. Len(want) = 2 /\ DOMAIN want = 1 .. 2
  OBVIOUS
<1>3. n = Len(Stored) /\ (Popped(want)[1] = args[Len(args)].v => cells = Stored)
  OBVIOUS
<1> HIDE DEF want
<1>4. Popped(want)[1] = args[Len(args)].v /\ Popped(want)[2] = base
  <2>1. stack = args /\ Len(args) \in Nat
    BY StoringFacts DEF Storing
  <2>2. Popped(want)[1] = stack[Len(stack) - 1 + 1].v /\ Popped(want)[2] = stack[Len(stack) - 2 + 1].v
    BY <1>2 DEF Popped
  <2>3. Len(args) - 1 + 1 = Len(args) /\ Len(args) - 2 + 1 = Len(args) - 1
    BY <2>1
  <2> QED BY <2>1, <2>2, <2>3
<1>5. cells = Stored /\ n \in Nat \ {0}
  BY <1>3, <1>4, StoredBytes
<1>6. (Access(want, n) <=> fits) /\ (Access(want, n) => Address(want) = To) /\ To \in Nat
  <2>1. base \in Nat /\ ins.offset \in 0 .. 2^Width("i64") - 1 /\ ins.area \in DOMAIN Areas
        /\ Len(areas[ins.area].data) = Len(Initial(ins.area)) /\ Popped(want)[Len(want)] = base
    BY <1>2, <1>4, StoringFacts DEF Storing, Initial
  <2>2. To = base + ins.offset
    BY DEF To
  <2> HIDE DEF base
  <2>3. /\ Access(want, n) <=> base + ins.offset + n <= Len(Initial(ins.area))
        /\ Access(want, n) => Address(want) = base + ins.offset
    BY <1>1, <1>5, <2>1, AccessFits
  <2>4. ins.offset \in Nat
    BY <2>1
  <2> QED BY <1>3, <2>1, <2>2, <2>3, <2>4
<1>7. CASE fits
  <2>1. Advance(want, << >>, Written(ins.area, To, Stored))
    BY <1>1, <1>5, <1>6, <1>7
  <2>2. Written(ins.area, To, Stored) = [Areas EXCEPT ![ins.area].data = Overlaid(ins.area, To, Stored)]
    <3>1. areas = Areas /\ ins.area \in DOMAIN Areas /\ To \in Nat /\ Len(Stored) \in Nat
      BY <1>3, <1>5, <1>6, StoringFacts DEF Storing
    <3> DEFINE a == ins.area
               to == To
               bytes == Stored
    <3>2. areas = Areas /\ a \in DOMAIN Areas /\ to \in Nat /\ Len(bytes) \in Nat
      BY <3>1
    <3> HIDE DEF a, to, bytes
    <3>3. Written(a, to, bytes) = [Areas EXCEPT ![a].data = Overlaid(a, to, bytes)]
      BY <3>2, WrittenOver
    <3> QED BY <3>3 DEF a, to, bytes
  <2>3. stack' = SubSeq(args, 1, Len(args) - 2) \o << >>
    BY <1>2, <2>1 DEF Advance, Storing
  <2>4. SubSeq(args, 1, Len(args) - 2) \o << >> = SubSeq(args, 1, Len(args) - 2)
    <3>1. SubSeq(args, 1, Len(args) - 2) \in Seq(Range(args))
      BY StoringFacts
    <3> QED BY <3>1
  <2>5. UNCHANGED <<prog, args>> /\ pc' = 2 /\ out' = (IF Len(prog) = 1 THEN "done" ELSE "run")
    <3>1. (1 = Len(prog)) <=> (Len(prog) = 1)
      OBVIOUS
    <3> QED BY <2>1, <3>1 DEF Advance, Storing
  <2>6. areas' = [Areas EXCEPT ![ins.area].data = Overlaid(ins.area, To, Stored)]
    BY <2>1, <2>2 DEF Advance
  <2> QED BY <1>7, <2>3, <2>4, <2>5, <2>6 DEF StoreExact
<1>8. CASE ~fits
  BY <1>1, <1>6, <1>8 DEF Stop, StoreExact, Storing
<1> QED BY <1>7, <1>8

\* What a store does: n cells, made of what is popped first.
Writes(want, n, cells) ==
  IF ~popWant(want) THEN Stop("fault")
  ELSE IF ~Access(want, n) THEN Stop("trap")
  ELSE Advance(want, << >>, Written(ins.area, Address(want), cells))

LEMMA StoresExact ==
  ASSUME Storing, out' # "fault",
         I32Store \/ I64Store \/ F32Store \/ F64Store \/ V128Store \/ V128StoreLane
  PROVE  StoreExact
<1> DEFINE n == memoryAccessSize(ins.size)
           x == args[Len(args)].v
<1>1. ASSUME NEW t, NEW m, NEW cells, Writes(<<t, IndexOf(ins.area)>>, m, cells), m = Len(Stored),
             Popped(<<t, IndexOf(ins.area)>>)[1] = x => cells = Stored
      PROVE  StoreExact
  BY <1>1, StoreEnds DEF Writes
<1>2. ASSUME NEW t, t # "v128", ins.class = "store", ins.t = t, StoreFrom(t) PROVE StoreExact
  <2> DEFINE o == Popped(<<t, IndexOf(ins.area)>>)
             cells == LowBytes(o[1], n)
  <2>1. Writes(<<t, IndexOf(ins.area)>>, n, cells)
    BY <1>2 DEF StoreFrom, StoreBytes, Writes
  <2>2. n \in Nat
    BY <1>2, StoringFacts, AccessSizes DEF LaneSizes
  <2>3. Stored = LowBytes(x, n)
    BY <1>2 DEF Stored, BytesStored, LowBytes
  <2>4. Len(Stored) = n
    <3> HIDE DEF n, x
    <3> QED BY <2>2, <2>3 DEF LowBytes
  <2>5. o[1] = x => cells = Stored
    BY <2>3
  <2> HIDE DEF n, x, cells
  <2> QED BY <1>1, <2>1, <2>4, <2>5 DEF x
<1>3. CASE I32Store
  BY <1>2, <1>3 DEF I32Store, At
<1>4. CASE I64Store
  BY <1>2, <1>4 DEF I64Store, At
<1>5. CASE F32Store
  BY <1>2, <1>5 DEF F32Store, At
<1>6. CASE F64Store
  BY <1>2, <1>6 DEF F64Store, At
<1>7. CASE V128Store
  <2> DEFINE o == Popped(<<"v128", IndexOf(ins.area)>>)
  <2>1. ins.class = "store" /\ ins.t = "v128" /\ Writes(<<"v128", IndexOf(ins.area)>>, 16, o[1])
    BY <1>7 DEF V128Store, At, StoreBytes, Writes, VectorBytes
  <2>2. Stored = x
    BY <2>1 DEF Stored, BytesStored
  <2>3. Len(Stored) = 16
    <3>1. x \in [1 .. 16 -> Byte]
      BY <2>1, StoringFacts DEF Vectors, VectorBytes
    <3> HIDE DEF x
    <3>2. x = [k \in 1 .. 16 |-> x[k]] /\ \A k \in 1 .. 16 : x[k] \in Byte
      BY <3>1
    <3>3. DOMAIN x = 1 .. 16 /\ x \in Seq(Byte)
      BY <3>2
    <3> QED BY <2>2, <3>3
  <2>4. o[1] = x => o[1] = Stored
    BY <2>2
  <2> HIDE DEF x
  <2> QED BY <1>1, <2>1, <2>3, <2>4 DEF x
<1>8. CASE V128StoreLane
  <2> DEFINE o == Popped(<<"v128", IndexOf(ins.area)>>)
             cells == evalV128StoreLane(n, ins.lane, o[1])
  <2>1. ins.class = "storelane" /\ Writes(<<"v128", IndexOf(ins.area)>>, n, cells)
    BY <1>8 DEF V128StoreLane, At, StoreBytes, Writes
  <2>2. n \in Nat /\ n \in LaneSizes /\ x \in Vectors /\ ins.lane \in Lanes(n)
    BY <2>1, StoringFacts, AccessSizes DEF LaneSizes
  <2>3. Stored = [k \in 1 .. n |-> x[n * ins.lane + k]]
    BY <2>1 DEF Stored, BytesStored
  <2>4. Len(Stored) = n
    <3> HIDE DEF n, x
    <3> QED BY <2>2, <2>3
  <2>5. evalV128StoreLane(n, ins.lane, x) = Stored
    <3> DEFINE off == n * ins.lane
    <3>1. off \in Int
      <4>1. ins.lane \in Int
        BY <2>2 DEF Lanes
      <4> HIDE DEF n
      <4> QED BY <2>2, <4>1
    <3> HIDE DEF n, x, off
    <3>0. x \in Seq(Byte)
      <4>1. x = [k \in 1 .. 16 |-> x[k]] /\ \A k \in 1 .. 16 : x[k] \in Byte
        BY <2>2 DEF Vectors, VectorBytes
      <4> QED BY <4>1
    <3>2. SubSeq(x, off + 1, off + n) = [k \in 1 .. (1 + (off + n) - (off + 1)) |-> x[k + (off + 1) - 1]]
      BY <2>2, <3>0, <3>1 DEF SubSeq
    <3>3. 1 + (off + n) - (off + 1) = n /\ \A k \in 1 .. n : k + (off + 1) - 1 = off + k
      BY <2>2, <3>1
    <3>4. [k \in 1 .. n |-> x[k + (off + 1) - 1]] = [k \in 1 .. n |-> x[off + k]]
      BY <3>3
    <3>5. SubSeq(x, off + 1, off + n) = [k \in 1 .. n |-> x[off + k]]
      BY <3>2, <3>3, <3>4
    <3> QED BY <2>3, <3>5 DEF evalV128StoreLane, v128LaneByteOffset, off
  <2>6. o[1] = x => cells = Stored
    BY <2>5
  <2> HIDE DEF n, x, cells
  <2> QED BY <1>1, <2>1, <2>4, <2>6 DEF x
<1> QED BY <1>3, <1>4, <1>5, <1>6, <1>7, <1>8

-----------------------------------------------------------------------------
(* Which instruction each action runs, and the invariant *)

StoreActions == I32Store \/ I64Store \/ F32Store \/ F64Store \/ V128Store \/ V128StoreLane
NumberLoadActions == I32Load \/ I64Load \/ F32Load \/ F64Load
VectorLoadActions == V128Load \/ V128LoadSplat \/ V128LoadExtend \/ V128LoadZero \/ V128LoadLane
Places == Accesses \cup MemoryClasses \cup TableClasses

LEMMA ActionClasses ==
  ASSUME Next
  PROVE  \/ StoreActions /\ ins.class \in {"store", "storelane"}
         \/ (NumberLoadActions \/ VectorLoadActions) /\ ins.class \in Loads \cup {"loadlane"}
         \/ (Memories \/ Tables) /\ ins.class \in MemoryClasses \cup TableClasses
         \/ ins.class \notin Places
<1>1. CASE Const
  <2>1. ins.class = "const"
    BY <1>1, Zenon DEF Const, At
  <2> QED BY <2>1 DEF Places, Accesses, Loads, MemoryClasses, TableClasses
<1>2. CASE Integer
  <2>1. ins.class \in {"binary", "eqz", "unary", "compare"}
    BY <1>2, Zenon DEF Integer, I32Binary, I32Eqz, I32Unary, I64Binary, I64Compare, I64Eqz, I64Unary, At
  <2> QED BY <2>1 DEF Places, Accesses, Loads, MemoryClasses, TableClasses
<1>3. CASE Convert
  <2>1. ins.class = "convert"
    BY <1>3, Zenon DEF Convert, At
  <2> QED BY <2>1 DEF Places, Accesses, Loads, MemoryClasses, TableClasses
<1>4. CASE Float
  <2>1. ins.class \in {"binary", "unary", "compare"}
    BY <1>4, Zenon DEF Float, F32Unary, F32Binary, F32Compare, F64Unary, F64Binary, F64Compare, At
  <2> QED BY <2>1 DEF Places, Accesses, Loads, MemoryClasses, TableClasses
<1>5. CASE Vector
  <2>1. ins.class \in {"splat", "extract", "replace", "shuffle", "vtest", "vunary", "vbinary", "vshift", "vternary",
                       "vcompare"}
    BY <1>5, Zenon DEF Vector, Splat, ExtractLane, ReplaceLane, Shuffle, VTest, VUnary, VBinary, VShift, VTernary, VCompare, At
  <2> QED BY <2>1 DEF Places, Accesses, Loads, MemoryClasses, TableClasses
<1>6. CASE Accessing
  <2>1. CASE StoreActions
    <3>1. ins.class \in {"store", "storelane"}
      BY <2>1, Zenon DEF StoreActions, I32Store, I64Store, F32Store, F64Store, V128Store, V128StoreLane, At
    <3> QED BY <2>1, <3>1
  <2>2. CASE NumberLoadActions
    <3>1. ins.class = "load"
      BY <2>2, Zenon DEF NumberLoadActions, I32Load, I64Load, F32Load, F64Load, At
    <3> QED BY <2>2, <3>1 DEF Loads
  <2>3. CASE VectorLoadActions
    <3>1. ins.class \in {"vload", "loadsplat", "loadextend", "loadzero", "loadlane"}
      BY <2>3, Zenon DEF VectorLoadActions, V128Load, V128LoadSplat, V128LoadExtend, V128LoadZero, V128LoadLane, At
    <3> QED BY <2>3, <3>1 DEF Loads
  <2> QED BY <1>6, <2>1, <2>2, <2>3 DEF Accessing, StoreActions, NumberLoadActions, VectorLoadActions
<1>7. CASE Memories
  <2>1. ins.class \in MemoryClasses
    BY <1>7 DEF Memories, MemorySize, MemoryGrow, MemoryCopy, MemoryFill, MemoryInit, DataDrop, At, MemoryClasses
  <2> QED BY <1>7, <2>1
<1>8. CASE Tables
  <2>1. ins.class \in TableClasses
    BY <1>8 DEF Tables, TableSize, TableGet, TableSet, TableGrow, TableFill, TableCopy, TableInit, ElemDrop, At, TableClasses
  <2> QED BY <1>8, <2>1
<1> QED BY <1>1, <1>2, <1>3, <1>4, <1>5, <1>6, <1>7, <1>8 DEF Next

\* A step traps where it is or goes on to the next instruction.
LEMMA StepShape ==
  ASSUME AgreeInv, Next
  PROVE  /\ out = "run" /\ UNCHANGED <<prog, args>> /\ out' # "fault" /\ pc \in 1 .. Len(prog) /\ Len(prog) \in {1, 2}
         /\ \/ out' = "trap" /\ pc' = pc
            \/ pc' = pc + 1 /\ out' = IF pc = Len(prog) THEN "done" ELSE "run"
<1>1. Promised /\ out = "run"
  BY NextPromised DEF AgreeInv, Promised
<1>2. AgreeInv'
  BY <1>1, PromisedStep
<1>3. prog \in Programs /\ pc \in 1 .. Len(prog) /\ Len(prog) \in {1, 2}
  BY <1>1, ProgramFacts DEF AgreeInv, TypeInv
<1>4. PICK want : IsReverse(want, Sig(ins).params) /\ (~popWant(want) \/ Stop("trap") \/ Delivers(want, Sig(ins).results))
  BY <1>1 DEF Promised
<1>5. popWant(want)
  <2> DEFINE types == Types(prog)[pc]
  <2>1. EndsWith(types, Sig(ins).params) /\ Sig(ins).params \in Seq(ValueTypes)
    BY <1>1, <1>3, TypesEnd, ParamsTyped DEF ins, AgreeInv
  <2>2. stack \in Seq(Range(stack)) /\ HasTypes(stack, types)
    BY <1>1 DEF AgreeInv, TypeInv, OperandsAgree, HasTypes
  <2> HIDE DEF types
  <2> QED BY <1>4, <2>1, <2>2, PopsAgree
<1>6. CASE Stop("trap")
  BY <1>1, <1>2, <1>3, <1>6 DEF Stop
<1>7. CASE Delivers(want, Sig(ins).results)
  BY <1>1, <1>2, <1>3, <1>7 DEF Delivers, Advance, AgreeInv, OperandsAgree
<1> QED BY <1>4, <1>5, <1>6, <1>7

\* Between a store and the load after it.
Midway ==
  LET i == prog[1]
      to == args[Len(args) - 1].v + i.offset
      bytes == BytesStored(i, args[Len(args)].v)
  IN  out = "run" /\ pc = 2 /\ i.class \in {"store", "storelane"} =>
        /\ i.area \in DOMAIN Areas /\ Initial(i.area) \in Seq(Byte) /\ to \in Nat
        /\ Len(bytes) \in Nat \ {0} /\ \A k \in 1 .. Len(bytes) : bytes[k] \in Byte
        /\ to + Len(bytes) <= Len(Initial(i.area))
        /\ areas = [Areas EXCEPT ![i.area].data = Overlaid(i.area, to, bytes)]
        /\ stack = SubSeq(args, 1, Len(args) - 2)

MemoryInv ==
  /\ AgreeInv /\ Midway /\ MemoryExact
  /\ out = "run" /\ pc = 1 => stack = args /\ areas = Areas

\* What an access promises of the next state.
AccessAs(trapped, now, r) ==
  LET last == prog[Len(prog)]
      stores == prog[1].class \in {"store", "storelane"}
      loads == last.class \notin {"store", "storelane"}
      to == args[Len(args) - 1].v + prog[1].offset
      bytes == BytesStored(prog[1], args[Len(args)].v)
      stored == stores => to + Len(bytes) <= Len(Initial(prog[1].area))
      from == X(1) + last.offset
      loaded == loads => from + BytesRead(last) <= Len(Initial(last.area))
      image(a) == IF stores /\ a = prog[1].area THEN Overlaid(a, to, bytes) ELSE Initial(a)
  IN  /\ trapped <=> (~stored \/ ~loaded)
      /\ ~trapped /\ loads => Loaded(last, SubSeq(image(last.area), from + 1, from + BytesRead(last)), X(2), r)
      /\ ~trapped => now = [Areas EXCEPT ![prog[1].area].data = image(prog[1].area)]
      /\ ~stored => now = Areas

LEMMA AccessPrimed ==
  ASSUME UNCHANGED <<prog, args>>, AccessAs(Trapped', areas', Result')
  PROVE  AccessExact'
<1>1. prog' = prog /\ args' = args /\ X(1)' = X(1) /\ X(2)' = X(2)
  BY DEF X
<1> QED BY <1>1 DEF AccessAs, AccessExact, OnlyChanged, Trapped

\* A load alone, or after a store.
LEMMA LoadAlone ==
  ASSUME Single, out' # "fault", NumberLoadActions \/ VectorLoadActions, ins.class \in Loads \cup {"loadlane"}
  PROVE  UNCHANGED <<prog, args>> /\ AccessExact'
<1>1. ins = only /\ Len(args) = Len(Sig(ins).params) /\ HasAreas(ins) /\ Len(prog) = 1 /\ prog[Len(prog)] = only
  BY SingleFacts DEF Single
<1>2. Loading
  <2>1. Areas[ins.area].data \in Seq(Byte)
    BY <1>1 DEF HasAreas, Accesses
  <2> QED BY <1>1, <2>1 DEF Loading, Single, Initial
<1>3. LoadExact
  BY <1>2, NumberLoads, VectorLoads DEF NumberLoadActions, VectorLoadActions
<1>4. PICK r : /\ Gives(BytesRead(ins), r)
               /\ Reaches(BytesRead(ins)) => Loaded(ins, There(BytesRead(ins)), X(2), r)
  BY <1>3 DEF LoadExact
<1>5. /\ UNCHANGED <<prog, args>> /\ areas' = Areas /\ (Trapped' <=> ~Reaches(BytesRead(ins)))
      /\ Reaches(BytesRead(ins)) => Loaded(ins, There(BytesRead(ins)), X(2), Result')
  BY <1>4 DEF Gives, Single, Trapped
<1>6. ins.class \notin {"store", "storelane"}
  BY DEF Loads
<1>7. [Areas EXCEPT ![only.area].data = Initial(only.area)] = Areas
  BY Unchanged DEF Initial
<1>8. There(BytesRead(ins)) = SubSeq(Initial(ins.area), X(1) + ins.offset + 1, X(1) + ins.offset + BytesRead(ins))
  BY DEF There, Single, Initial
<1>9. AccessAs(Trapped', areas', Result')
  BY <1>1, <1>5, <1>6, <1>7, <1>8, Zenon DEF AccessAs, Reaches, only
<1> QED BY <1>5, <1>9, AccessPrimed

LEMMA StoreFirst ==
  ASSUME MemoryInv, out' # "fault", StoreActions, out = "run", pc = 1, ins.class \in {"store", "storelane"},
         Len(prog) \in {1, 2}
  PROVE  UNCHANGED <<prog, args>> /\ AccessExact' /\ Midway'
<1>1. Storing
  BY DEF Storing, MemoryInv, AgreeInv
<1>2. StoreExact
  BY <1>1, StoresExact DEF StoreActions
<1>3. ins = prog[1]
  BY DEF ins
<1> DEFINE fits == To + Len(Stored) <= Len(Initial(ins.area))
<1>4. UNCHANGED <<prog, args>>
  BY <1>2 DEF StoreExact
<1>5. Trapped' <=> ~fits
  BY <1>2 DEF StoreExact, Trapped
<1>6. fits => areas' = [Areas EXCEPT ![ins.area].data = Overlaid(ins.area, To, Stored)]
  BY <1>2 DEF StoreExact
<1>7. ~fits => areas' = Areas
  BY <1>2 DEF StoreExact
<1>8. AccessExact'
  <2>1. CASE Len(prog) = 1 \/ ~fits
    <3>1. Len(prog) = 1 => prog[Len(prog)].class \in {"store", "storelane"}
      BY <1>3
    <3>2. AccessAs(Trapped', areas', Result')
      <4>1. CASE fits
        <5>1. Len(prog) = 1 /\ prog[Len(prog)] = ins
          BY <1>3, <2>1, <4>1
        <5> QED BY <1>3, <1>5, <1>6, <4>1, <5>1, Zenon DEF AccessAs, To, Stored
      <4>2. CASE ~fits
        BY <1>3, <1>5, <1>7, <4>2, Zenon DEF AccessAs, To, Stored
      <4> QED BY <4>1, <4>2
    <3> QED BY <1>4, <3>2, AccessPrimed
  <2>2. CASE Len(prog) = 2 /\ fits
    <3>1. out' = "run"
      BY <1>2, <2>2 DEF StoreExact
    <3> QED BY <3>1 DEF AccessExact
  <2> QED BY <2>1, <2>2
<1>9. Midway'
  <2>1. CASE fits
    <3>1. /\ ins.area \in DOMAIN Areas /\ Initial(ins.area) \in Seq(Byte) /\ To \in Nat
          /\ Len(Stored) \in Nat \ {0} /\ \A k \in 1 .. Len(Stored) : Stored[k] \in Byte
      <4>1. args[Len(args) - 1].v \in Nat /\ ins.offset \in Nat
        <5>1. ins.offset \in 0 .. 2^Width("i64") - 1
          BY <1>1, StoringFacts
        <5> QED BY <1>1, <5>1, StoringFacts
      <4>2. To \in Nat
        BY <4>1 DEF To
      <4> QED BY <1>1, <4>2, StoringFacts, StoredBytes
    <3>2. stack' = SubSeq(args, 1, Len(args) - 2)
      BY <1>2, <2>1 DEF StoreExact
    <3> DEFINE i == prog[1]
               to == args[Len(args) - 1].v + i.offset
               bytes == BytesStored(i, args[Len(args)].v)
    <3>3. ins = i /\ To = to /\ Stored = bytes
      BY <1>3 DEF To, Stored
    <3>4. prog' = prog /\ args' = args
      BY <1>4
    <3> QED BY <1>6, <2>1, <3>1, <3>2, <3>3, <3>4, Zenon DEF Midway
  <2>2. CASE ~fits
    <3>1. out' # "run"
      BY <1>2, <2>2 DEF StoreExact
    <3> QED BY <3>1 DEF Midway
  <2> QED BY <2>1, <2>2
<1> QED BY <1>4, <1>8, <1>9

LEMMA OverlaidFacts ==
  ASSUME NEW a, Initial(a) \in Seq(Byte), NEW to \in Nat, NEW bytes, Len(bytes) \in Nat,
         \A k \in 1 .. Len(bytes) : bytes[k] \in Byte
  PROVE  Overlaid(a, to, bytes) \in Seq(Byte) /\ Len(Overlaid(a, to, bytes)) = Len(Initial(a))
<1> DEFINE l == Len(Initial(a))
           d == Overlaid(a, to, bytes)
<1>1. l \in Nat /\ \A k \in 1 .. l : Initial(a)[k] \in Byte
  OBVIOUS
<1>2. d = [k \in 1 .. l |-> IF k - 1 - to \in 0 .. Len(bytes) - 1 THEN bytes[k - to] ELSE Initial(a)[k]]
  BY DEF Overlaid
<1>3. \A k \in 1 .. l : (k - 1 - to \in 0 .. Len(bytes) - 1) => k - to \in 1 .. Len(bytes)
  BY <1>1
<1>4. \A k \in 1 .. l : (IF k - 1 - to \in 0 .. Len(bytes) - 1 THEN bytes[k - to] ELSE Initial(a)[k]) \in Byte
  BY <1>1, <1>3
<1> DEFINE byte(k) == IF k - 1 - to \in 0 .. Len(bytes) - 1 THEN bytes[k - to] ELSE Initial(a)[k]
<1>10. d = [k \in 1 .. l |-> byte(k)] /\ \A k \in 1 .. l : byte(k) \in Byte
  BY ONLY <1>2, <1>4, Zenon
<1> HIDE DEF d, l, byte
<1>5. DOMAIN d = 1 .. l /\ d \in Seq(Byte)
  BY <1>1, <1>10
<1>6. Len(d) = l
  BY <1>1, <1>5
<1> QED BY <1>5, <1>6 DEF d, l

LEMMA LoadAfter ==
  ASSUME MemoryInv, out' # "fault", out = "run", pc = 2, Len(prog) = 2, NumberLoadActions \/ VectorLoadActions,
         ins.class \in Loads \cup {"loadlane"}, prog[1].class \in {"store", "storelane"}
  PROVE  UNCHANGED <<prog, args>> /\ AccessExact'
<1> DEFINE i == prog[1]
           to == args[Len(args) - 1].v + i.offset
           bytes == BytesStored(i, args[Len(args)].v)
           image(a) == IF a = i.area THEN Overlaid(a, to, bytes) ELSE Initial(a)
<1>1. /\ i.area \in DOMAIN Areas /\ Initial(i.area) \in Seq(Byte) /\ to \in Nat
      /\ Len(bytes) \in Nat \ {0} /\ \A k \in 1 .. Len(bytes) : bytes[k] \in Byte
      /\ to + Len(bytes) <= Len(Initial(i.area))
      /\ areas = [Areas EXCEPT ![i.area].data = Overlaid(i.area, to, bytes)]
      /\ stack = SubSeq(args, 1, Len(args) - 2)
  BY DEF MemoryInv, Midway
<1>2. /\ TypeInv /\ prog \in Programs /\ ins = prog[2] /\ HasAreas(ins) /\ args \in Operands(Needs(prog))
      /\ Sig(prog[1]).params \in Seq(ValueTypes) /\ Sig(prog[2]).params \in Seq(ValueTypes) /\ Sig(prog[1]).results = << >>
  <2>1. TypeInv /\ prog \in Programs /\ args \in Operands(Needs(prog))
    BY DEF MemoryInv, AgreeInv, TypeInv
  <2> QED BY <2>1, ParamsTyped, ProgramFacts DEF ins
<1>3. ins.area \in DOMAIN Areas /\ Initial(ins.area) \in Seq(Byte)
  BY <1>2 DEF HasAreas, Accesses, Initial
<1>4. areas[ins.area].data = image(ins.area)
  <2> DEFINE d == Overlaid(i.area, to, bytes)
  <2>1. areas = [Areas EXCEPT ![i.area].data = d]
    BY <1>1
  <2> HIDE DEF d
  <2>2. \A a \in DOMAIN Areas : areas[a].data = IF a = i.area THEN d ELSE Areas[a].data
    <3> DEFINE Kind == [at : {"i32", "i64"}, unit : Nat \ {0}, max : Nat, data : Seq(Nat)]
    <3>1. \A r \in Kind : [r EXCEPT !.data = d].data = d
      OBVIOUS
    <3>2. Areas \in [DOMAIN Areas -> Kind]
      BY AreasAssumption
    <3> HIDE DEF Kind
    <3> QED BY <2>1, <3>1, <3>2
  <2> QED BY <1>3, <2>2 DEF Initial, d
<1>5. image(ins.area) \in Seq(Byte) /\ Len(image(ins.area)) = Len(Initial(ins.area))
  <2>1. Overlaid(i.area, to, bytes) \in Seq(Byte) /\ Len(Overlaid(i.area, to, bytes)) = Len(Initial(i.area))
    <3> DEFINE a == i.area
    <3>1. Initial(a) \in Seq(Byte) /\ to \in Nat /\ Len(bytes) \in Nat /\ \A k \in 1 .. Len(bytes) : bytes[k] \in Byte
      BY <1>1
    <3> HIDE DEF a, to, bytes
    <3>2. Overlaid(a, to, bytes) \in Seq(Byte) /\ Len(Overlaid(a, to, bytes)) = Len(Initial(a))
      BY <3>1, OverlaidFacts
    <3> QED BY <3>2 DEF a
  <2> QED BY <1>3, <2>1
<1> HIDE DEF image, to, bytes
<1>6. Len(stack) = Len(Sig(ins).params) /\ \A k \in 1 .. Len(stack) : stack[k] = args[k]
  <2> DEFINE left == Sig(prog[2]).params
             right == Sig(prog[1]).params
  <2>1. left \in Seq(ValueTypes) /\ right \in Seq(ValueTypes) /\ Len(right) = 2
    <3>1. Len(right) = 2
      <4>1. CASE i.class = "store"
        BY <4>1 DEF Sig, StoreRule, Effect, Loads
      <4>2. CASE i.class = "storelane"
        BY <4>2 DEF Sig, LaneRule, Effect, Loads
      <4> QED BY <4>1, <4>2
    <3> QED BY <1>2, <3>1
  <2>2. Needs(prog) = left \o right
    <3>1. Needs(prog) = SubSeq(left, 1, Len(left) - Len(<< >>)) \o right
      BY <1>2 DEF Needs
    <3> HIDE DEF left, right
    <3>2. SubSeq(left, 1, Len(left) - Len(<< >>)) = left
      <4>1. Len(left) - Len(<< >>) = Len(left)
        BY <2>1
      <4>2. SubSeq(left, 1, Len(left)) = left
        BY <2>1
      <4> QED BY <4>1, <4>2
    <3> QED BY <3>1, <3>2
  <2> HIDE DEF left, right
  <2>3. Needs(prog) \in Seq(ValueTypes) /\ Len(Needs(prog)) = Len(left) + 2 /\ Len(left) \in Nat
    <3>1. left \o right \in Seq(ValueTypes) /\ Len(left \o right) = Len(left) + Len(right)
      BY <2>1, Concat
    <3> QED BY <2>1, <2>2, <3>1
  <2>4. args \in Seq(Range(args)) /\ Len(args) = Len(left) + 2
    <3>1. Fits(args, Needs(prog))
      BY <1>2, <2>3, OperandsFit
    <3> QED BY <2>3, <3>1, InItsRange DEF Fits
  <2>5. Len(stack) = Len(left) /\ \A k \in 1 .. Len(left) : stack[k] = args[k]
    <3>1. stack = SubSeq(args, 1, Len(left)) /\ Len(left) <= Len(args)
      <4>1. Len(args) - 2 = Len(left)
        BY <2>3, <2>4
      <4> QED BY <1>1, <2>3, <2>4, <4>1
    <3> QED BY <2>3, <2>4, <3>1
  <2> QED BY <1>2, <2>5 DEF left
<1>7. Loading
  BY <1>2, <1>4, <1>5, <1>6 DEF Loading
<1>8. LoadExact
  BY <1>7, NumberLoads, VectorLoads DEF NumberLoadActions, VectorLoadActions
<1>9. PICK r : /\ Gives(BytesRead(ins), r)
               /\ Reaches(BytesRead(ins)) => Loaded(ins, There(BytesRead(ins)), X(2), r)
  BY <1>8 DEF LoadExact
<1>10. /\ UNCHANGED <<prog, args>> /\ areas' = areas /\ (Trapped' <=> ~Reaches(BytesRead(ins)))
       /\ Reaches(BytesRead(ins)) => Loaded(ins, There(BytesRead(ins)), X(2), Result')
  BY <1>9 DEF Gives, Trapped
<1>11. ins.class \notin {"store", "storelane"} /\ prog[Len(prog)] = ins
  BY <1>2 DEF Loads
<1>12. There(BytesRead(ins)) = SubSeq(image(ins.area), X(1) + ins.offset + 1, X(1) + ins.offset + BytesRead(ins))
  BY <1>4 DEF There
<1>13. AccessAs(Trapped', areas', Result')
  <2>1. Overlaid(i.area, to, bytes) = image(i.area)
    BY DEF image
  <2>2. to + Len(bytes) <= Len(Initial(i.area)) /\ areas = [Areas EXCEPT ![i.area].data = Overlaid(i.area, to, bytes)]
    BY <1>1
  <2> QED BY <1>10, <1>11, <1>12, <2>1, <2>2, Zenon DEF AccessAs, Reaches, to, bytes, image
<1> QED BY <1>10, <1>13, AccessPrimed

LEMMA MemoryStart == Init => MemoryInv
<1> SUFFICES ASSUME Init PROVE MemoryInv
  OBVIOUS
<1>1. out = "run" /\ pc = 1 /\ stack = args /\ areas = Areas
  BY DEF Init
<1>2. Midway /\ MemoryExact
  BY <1>1 DEF Midway, MemoryExact, AccessExact, BulkExact, Ended
<1> QED BY <1>1, <1>2, AgreeInit DEF MemoryInv

LEMMA MemoryNext == MemoryInv /\ [Next]_vars => MemoryInv'
<1> SUFFICES ASSUME MemoryInv, [Next]_vars PROVE MemoryInv'
  OBVIOUS
<1>1. AgreeInv'
  BY AgreeNext DEF MemoryInv
<1>2. CASE UNCHANGED vars
  <2>1. prog' = prog /\ args' = args /\ pc' = pc /\ stack' = stack /\ areas' = areas /\ out' = out
    BY <1>2 DEF vars
  <2>2. Midway'
    BY <2>1 DEF MemoryInv, Midway
  <2>3. AccessExact'
    BY <2>1, Zenon DEF MemoryInv, MemoryExact, AccessExact, Trapped, OnlyChanged, X, Result
  <2>4. BulkExact'
    <3>1. Trapped' = Trapped /\ Result' = Result /\ only' = only /\ Ended' = Ended
      BY <2>1 DEF Trapped, Result, only, Ended
    <3>2. X(1)' = X(1) /\ X(2)' = X(2) /\ X(3)' = X(3)
      BY <2>1 DEF X
    <3>3. BulkExact
      BY DEF MemoryInv, MemoryExact
    <3>4. CASE only.class \in {"memory.copy", "table.copy", "memory.init", "table.init"}
      BY <2>1, <3>1, <3>2, <3>3, <3>4 DEF BulkExact, CopyExact, OnlyChanged
    <3>5. CASE only.class \in {"memory.fill", "table.fill", "table.set"}
      BY <2>1, <3>1, <3>2, <3>3, <3>5, Zenon DEF BulkExact, FillExact, OnlyChanged
    <3>6. CASE only.class \in {"memory.grow", "table.grow"}
      BY <2>1, <3>1, <3>2, <3>3, <3>6, Zenon DEF BulkExact, GrowExact, OnlyChanged
    <3>7. CASE only.class \notin {"memory.copy", "table.copy", "memory.init", "table.init", "memory.fill", "table.fill", "table.set", "memory.grow", "table.grow"}
      BY <2>1, <3>1, <3>2, <3>3, <3>7 DEF BulkExact
    <3> QED BY <3>4, <3>5, <3>6, <3>7
  <2> QED BY <1>1, <2>1, <2>2, <2>3, <2>4 DEF MemoryInv, MemoryExact
<1>3. CASE Next
  <2>1. /\ out = "run" /\ UNCHANGED <<prog, args>> /\ out' # "fault" /\ pc \in 1 .. Len(prog) /\ Len(prog) \in {1, 2}
        /\ \/ out' = "trap" /\ pc' = pc
           \/ pc' = pc + 1 /\ out' = IF pc = Len(prog) THEN "done" ELSE "run"
    BY <1>3, StepShape DEF MemoryInv
  <2>2. TypeInv /\ prog \in Programs
    BY DEF MemoryInv, AgreeInv, TypeInv
  <2>3. ~(out' = "run" /\ pc' = 1)
    BY <2>1
  <2>4. \/ /\ Len(prog) = 2 /\ prog[1].class \in {"store", "storelane"} /\ prog[2].class \in Loads \cup {"loadlane"}
        \/ Len(prog) = 2 /\ prog[1].class \in {"data.drop", "elem.drop"}
        \/ Len(prog) = 1
    BY <2>1, <2>2, ProgramsAssumption
  <2>5. Len(prog) = 2 => BulkExact'
    BY <2>1 DEF BulkExact, Ended
  <2>6. ASSUME NEW k \in 1 .. Len(prog), prog[k].class \notin Accesses PROVE AccessExact'
    <3>1. DOMAIN prog = 1 .. Len(prog) /\ prog' = prog
      BY <2>1, <2>2, ProgramFacts
    <3> QED BY <2>6, <3>1 DEF AccessExact
  <2>7. prog[1].class \notin {"store", "storelane"} \/ out' # "run" => Midway'
    BY <2>1 DEF Midway
  <2>8. Accesses \cap (MemoryClasses \cup TableClasses) = {}
    BY DEF Accesses, Loads, MemoryClasses, TableClasses
  <2>9. CASE Len(prog) = 1
    <3>1. Single
      BY <2>1, <2>2, <2>9 DEF Single, MemoryInv
    <3>2. ins = prog[1] /\ only = prog[1] /\ only' = only /\ out' # "run" /\ 1 \in 1 .. Len(prog)
      BY <2>1, <2>9 DEF ins, only
    <3>3. Midway'
      BY <2>7, <3>2
    <3>4. ins.class \notin MemoryClasses \cup TableClasses => BulkExact'
      BY <3>2 DEF BulkExact, MemoryClasses, TableClasses
    <3>5. CASE StoreActions /\ ins.class \in {"store", "storelane"}
      BY <1>1, <2>1, <2>3, <2>8, <2>9, <3>3, <3>4, <3>5, StoreFirst DEF MemoryInv, MemoryExact, Accesses, Single
    <3>6. CASE (NumberLoadActions \/ VectorLoadActions) /\ ins.class \in Loads \cup {"loadlane"}
      BY <1>1, <2>1, <2>3, <2>8, <2>9, <3>1, <3>3, <3>4, <3>6, LoadAlone DEF MemoryInv, MemoryExact, Accesses
    <3>7. CASE (Memories \/ Tables) /\ ins.class \in MemoryClasses \cup TableClasses
      BY <1>1, <2>1, <2>3, <2>6, <2>8, <3>1, <3>2, <3>3, <3>7, BulksExact DEF MemoryInv, MemoryExact
    <3>8. CASE ins.class \notin Places
      BY <1>1, <2>1, <2>3, <2>6, <3>2, <3>3, <3>4, <3>8 DEF MemoryInv, MemoryExact, Places
    <3> QED BY <1>3, <3>5, <3>6, <3>7, <3>8, ActionClasses
  <2>10. CASE Len(prog) = 2 /\ prog[1].class \in {"data.drop", "elem.drop"}
    <3>1. prog[1].class \notin Accesses /\ 1 \in 1 .. Len(prog)
      BY <2>10 DEF Accesses, Loads
    <3> QED BY <1>1, <2>3, <2>5, <2>6, <2>7, <2>10, <3>1 DEF MemoryInv, MemoryExact
  <2>11. CASE /\ Len(prog) = 2 /\ prog[1].class \in {"store", "storelane"} /\ prog[2].class \in Loads \cup {"loadlane"}
    <3>1. CASE pc = 1
      <4>1. ins.class \in {"store", "storelane"} /\ ins.class \notin Loads \cup {"loadlane"} /\ ins.class \in Places
            /\ ins.class \notin MemoryClasses \cup TableClasses
        BY <2>11, <3>1 DEF ins, Loads, Places, Accesses, MemoryClasses, TableClasses
      <4>2. StoreActions
        BY <1>3, <4>1, ActionClasses
      <4>3. AccessExact' /\ Midway'
        BY <2>1, <3>1, <4>1, <4>2, StoreFirst
      <4> QED BY <1>1, <2>3, <2>5, <2>11, <4>3 DEF MemoryInv, MemoryExact
    <3>2. CASE pc = 2
      <4>1. ins.class \notin {"store", "storelane"} /\ ins.class \in Loads \cup {"loadlane"} /\ ins.class \in Places
            /\ ins.class \notin MemoryClasses \cup TableClasses
        BY <2>11, <3>2 DEF ins, Loads, Places, Accesses, MemoryClasses, TableClasses
      <4>2. NumberLoadActions \/ VectorLoadActions
        BY <1>3, <4>1, ActionClasses
      <4>3. AccessExact'
        BY <2>1, <2>11, <3>2, <4>1, <4>2, LoadAfter
      <4>4. out' # "run"
        BY <2>1, <2>11, <3>2
      <4> QED BY <1>1, <2>3, <2>5, <2>7, <2>11, <4>3, <4>4 DEF MemoryInv, MemoryExact
    <3> QED BY <2>1, <2>11, <3>1, <3>2
  <2> QED BY <2>4, <2>9, <2>10, <2>11
<1> QED BY <1>2, <1>3

\* Memories and tables change where an instruction writes and nowhere else,
\* whatever the index types; an access traps exactly when its true address lies
\* outside, with no effect; and a load after a store of any other width gives back,
\* byte for byte, what was stored.
THEOREM MemorySafe == Spec => []MemoryExact
<1>1. MemoryInv => MemoryExact
  BY DEF MemoryInv
<1> QED BY <1>1, MemoryStart, MemoryNext, PTL DEF Spec

-----------------------------------------------------------------------------
(* What the integer operations compute *)

\* The promise of a binary operation, of its result and of how it ended.
BinaryIs(how, w, op, a, b, r) ==
  CASE op = "div_s" -> IF b = 0 \/ (S(w, a) = -(2^(w - 1)) /\ S(w, b) = -1) THEN how = "trap"
                       ELSE how # "trap" /\ IsQuotient(S(w, a), S(w, b), S(w, r))
    [] op = "div_u" -> IF b = 0 THEN how = "trap" ELSE how # "trap" /\ IsQuotient(a, b, r)
    [] op = "rem_s" -> IF b = 0 THEN how = "trap" ELSE how # "trap" /\ IsRemainder(S(w, a), S(w, b), S(w, r))
    [] op = "rem_u" -> IF b = 0 THEN how = "trap" ELSE how # "trap" /\ IsRemainder(a, b, r)
    [] OTHER -> ExactTotal(w, op, a, b, r)

\* What an operation gives: a number of w bits that is as promised, or a trap.
Keeps(w, op, a, b, v) ==
  /\ v \in Unsigneds(w) /\ BinaryIs("done", w, op, a, b, v)
Stops(w, op, a, b, v) == v = Trap /\ \A r : BinaryIs("trap", w, op, a, b, r)

LEMMA SumsExact ==
  ASSUME NEW w \in Nat \ {0}, NEW a \in Unsigneds(w), NEW b \in Unsigneds(w), NEW op \in {"add", "sub", "mul"}
  PROVE  Keeps(w, op, a, b, IntBinary(w, op, a, b))
<1> DEFINE v == CASE op = "add" -> a + b [] op = "sub" -> a - b [] op = "mul" -> S(w, a) * S(w, b)
           r == U(w, v)
<1>1. a \in Int /\ b \in Int /\ S(w, a) \in Int /\ S(w, b) \in Int /\ w \in Nat
  BY SignedBits DEF Unsigneds
<1>2. v \in Int
  BY <1>1
<1>3. IntBinary(w, op, a, b) = r
  BY DEF IntBinary
<1>4. r \in Unsigneds(w) /\ (r - v) % 2^w = 0 /\ r \in Int
  <2> HIDE DEF v
  <2> QED BY <1>1, <1>2, CutExact DEF Unsigneds
<1> HIDE DEF r
<1>5. CASE op = "add"
  <2>1. r - v = r - a - b
    BY <1>1, <1>4, <1>5
  <2> QED BY <1>3, <1>4, <1>5, <2>1 DEF Compares, Keeps, BinaryIs, ExactTotal
<1>6. CASE op = "sub"
  <2>1. r - v = r - a + b
    BY <1>1, <1>4, <1>6
  <2> QED BY <1>3, <1>4, <1>6, <2>1 DEF Compares, Keeps, BinaryIs, ExactTotal
<1>7. CASE op = "mul"
  BY <1>3, <1>4, <1>7 DEF Compares, Keeps, BinaryIs, ExactTotal
<1> QED BY <1>5, <1>6, <1>7

LEMMA TrapsOnEdge ==
  ASSUME NEW w \in Nat \ {0}, NEW a \in Unsigneds(w), NEW b \in Unsigneds(w)
  PROVE  /\ (a = 2^(w - 1)) <=> (S(w, a) = -(2^(w - 1)))
         /\ (b = 2^w - 1) <=> (S(w, b) = -1)
         /\ (b = 0) <=> (S(w, b) = 0)
<1> DEFINE h == 2^(w - 1)
           p == 2^w
<1>1. p = 2 * h /\ h \in Nat \ {0} /\ a \in 0 .. p - 1 /\ b \in 0 .. p - 1
  BY Halves DEF Unsigneds
<1>2. S(w, a) = (IF a < h THEN a ELSE a - p) /\ S(w, b) = (IF b < h THEN b ELSE b - p)
  BY DEF S
<1> HIDE DEF h, p
<1>3. (a = h) <=> (S(w, a) = -h)
  BY <1>1, <1>2
<1>4. (b = p - 1) <=> (S(w, b) = -1)
  BY <1>1, <1>2
<1>5. (b = 0) <=> (S(w, b) = 0)
  BY <1>1, <1>2
<1> QED BY <1>3, <1>4, <1>5 DEF h, p

LEMMA DivisionExact ==
  ASSUME NEW w \in Nat \ {0}, NEW a \in Unsigneds(w), NEW b \in Unsigneds(w),
         NEW op \in {"div_s", "div_u", "rem_s", "rem_u"}
  PROVE  LET v == IntBinary(w, op, a, b)
         IN  IF DivTraps(w, op, a, b) THEN Stops(w, op, a, b, v) ELSE Keeps(w, op, a, b, v)
<1> DEFINE v == IntBinary(w, op, a, b)
           s == S(w, a)
           t == S(w, b)
<1>1. a \in Nat /\ b \in Nat /\ s \in Signeds(w) /\ t \in Signeds(w) /\ s \in Int /\ t \in Int
  BY SignedFacts DEF Unsigneds, Signeds
<1>2. DivTraps(w, op, a, b) <=> b = 0 \/ (op = "div_s" /\ s = -(2^(w - 1)) /\ t = -1)
  BY TrapsOnEdge DEF DivTraps
<1>3. (b = 0) <=> (t = 0)
  BY TrapsOnEdge
<1> HIDE DEF s, t
<1>4. CASE DivTraps(w, op, a, b)
  <2>1. v = Trap
    BY <1>4 DEF IntBinary
  <2>2. \A r : BinaryIs("trap", w, op, a, b, r)
    BY <1>2, <1>4 DEF Compares, BinaryIs, ExactTotal, s, t
  <2> HIDE DEF v
  <2>3. Stops(w, op, a, b, v)
    BY <2>1, <2>2 DEF Stops
  <2> QED BY <1>4, <2>3 DEF v
<1>5. CASE ~DivTraps(w, op, a, b)
  <2>1. b \in Nat \ {0} /\ t \in Int \ {0} /\ t # 0
    BY <1>1, <1>2, <1>3, <1>5
  <2>2. CASE op = "div_s"
    <3> DEFINE q == Quot(s, t)
    <3>1. v = U(w, q)
      BY <1>5, <2>2 DEF IntBinary, s, t
    <3>2. q \in Signeds(w)
      BY <1>1, <1>2, <1>5, <2>1, <2>2, SignedQuotient
    <3>3. IsQuotient(s, t, q)
      BY <1>1, <2>1, QuotientFacts DEF IsQuotient
    <3> HIDE DEF q, v
    <3>4. v \in Unsigneds(w) /\ S(w, v) = q
      <4>1. q \in Int
        BY <3>2 DEF Signeds
      <4> QED BY <3>1, <3>2, <4>1, SignedFacts
    <3>5. BinaryIs("done", w, op, a, b, v)
      BY <1>2, <1>5, <2>2, <3>3, <3>4 DEF Compares, BinaryIs, ExactTotal, s, t
    <3> QED BY <1>5, <3>4, <3>5 DEF Keeps, v
  <2>3. CASE op = "rem_s"
    <3> DEFINE q == Rem(s, t)
    <3>1. v = U(w, q)
      BY <1>5, <2>3 DEF IntBinary, s, t
    <3>2. q \in Signeds(w)
      BY <1>1, <2>1, SignedQuotient
    <3>3. IsRemainder(s, t, q)
      BY <1>1, <2>1, RemainderFacts DEF IsRemainder
    <3> HIDE DEF q, v
    <3>4. v \in Unsigneds(w) /\ S(w, v) = q
      <4>1. q \in Int
        BY <3>2 DEF Signeds
      <4> QED BY <3>1, <3>2, <4>1, SignedFacts
    <3>5. BinaryIs("done", w, op, a, b, v)
      BY <1>2, <1>5, <2>3, <3>3, <3>4 DEF Compares, BinaryIs, ExactTotal, s, t
    <3> QED BY <1>5, <3>4, <3>5 DEF Keeps, v
  <2>4. CASE op \in {"div_u", "rem_u"}
    <3> DEFINE q == IF op = "div_u" THEN a \div b ELSE a % b
    <3>1. v = q
      BY <1>5, <2>4 DEF IntBinary
    <3>2. /\ a \div b \in 0 .. a /\ a % b \in 0 .. b - 1
          /\ IsQuotient(a, b, a \div b) /\ IsRemainder(a, b, a % b)
      BY <1>1, <2>1, UnsignedQuotient DEF IsQuotient, IsRemainder
    <3>3. q \in Unsigneds(w)
      <4>1. 2^w \in Nat /\ a \in 0 .. 2^w - 1 /\ b \in 0 .. 2^w - 1
        BY Halves DEF Unsigneds
      <4>2. \A x \in 0 .. a : x \in 0 .. 2^w - 1
        BY <4>1
      <4>3. \A x \in 0 .. b - 1 : x \in 0 .. 2^w - 1
        BY <4>1
      <4> QED BY <2>4, <3>2, <4>2, <4>3 DEF Unsigneds
    <3>4. BinaryIs("done", w, op, a, b, q)
      BY <1>2, <1>5, <2>4, <3>2 DEF Compares, BinaryIs, ExactTotal
    <3> HIDE DEF q, v
    <3> QED BY <1>5, <3>1, <3>3, <3>4 DEF Keeps, v
  <2> QED BY <2>2, <2>3, <2>4
<1> QED BY <1>4, <1>5

LEMMA BitOperations ==
  ASSUME NEW w \in Nat \ {0}, NEW a \in Unsigneds(w), NEW b \in Unsigneds(w), NEW op \in {"and", "or", "xor"}
  PROVE  Keeps(w, op, a, b, IntBinary(w, op, a, b))
<1>1. a \in Int /\ b \in Int
  BY DEF Unsigneds
<1>2. CASE op = "and"
  BY <1>1, <1>2, BitwiseExact DEF Compares, Keeps, BinaryIs, ExactTotal, IntBinary
<1>3. CASE op = "or"
  BY <1>1, <1>3, BitwiseExact DEF Compares, Keeps, BinaryIs, ExactTotal, IntBinary
<1>4. CASE op = "xor"
  BY <1>1, <1>4, BitwiseExact DEF Compares, Keeps, BinaryIs, ExactTotal, IntBinary
<1> QED BY <1>2, <1>3, <1>4

LEMMA Movings ==
  ASSUME NEW w \in Nat \ {0}, NEW a \in Unsigneds(w), NEW b \in Nat, NEW op \in {"shl", "shr_u", "shr_s", "rotl", "rotr"}
  PROVE  Keeps(w, op, a, b, IntBinary(w, op, a, b))
<1> DEFINE k == b % w
<1>1. k \in 0 .. w - 1 /\ k \in Int /\ -k \in Int
  <2>1. b \in Int
    OBVIOUS
  <2>2. k \in 0 .. w - 1
    BY <2>1, DivMod
  <2> HIDE DEF k
  <2> QED BY <2>2
<1>2. \A j : Moved(w, a, j) = MovedSet(BitsSet(w, a), w, j) /\ Turned(w, a, j) = TurnedSet(BitsSet(w, a), w, j)
  BY DEF Moved, Turned, MovedSet, TurnedSet
<1> HIDE DEF k
<1>3. CASE op = "shl"
  <2>1. IntBinary(w, op, a, b) = Shl(w, a, k)
    BY <1>3 DEF IntBinary, k
  <2>2. Shl(w, a, k) \in Unsigneds(w) /\ BitsSet(w, Shl(w, a, k)) = MovedSet(BitsSet(w, a), w, k)
    BY <1>1, ShlExact
  <2> QED BY <1>2, <1>3, <2>1, <2>2 DEF Compares, Keeps, BinaryIs, ExactTotal, k
<1>4. CASE op = "shr_u"
  <2>1. IntBinary(w, op, a, b) = ShrU(w, a, k)
    BY <1>4 DEF IntBinary, k
  <2>2. ShrU(w, a, k) \in Unsigneds(w) /\ BitsSet(w, ShrU(w, a, k)) = MovedSet(BitsSet(w, a), w, -k)
    BY <1>1, ShrUExact
  <2> QED BY <1>2, <1>4, <2>1, <2>2 DEF Compares, Keeps, BinaryIs, ExactTotal, k
<1>5. CASE op = "shr_s"
  <2>1. IntBinary(w, op, a, b) = ShrS(w, a, k)
    BY <1>5 DEF IntBinary, k
  <2>2. ShrS(w, a, k) \in Unsigneds(w) /\ BitsSet(w, ShrS(w, a, k)) =
              MovedSet(BitsSet(w, a), w, -k) \cup (IF S(w, a) < 0 THEN w - k .. w - 1 ELSE {})
    BY <1>1, ShrSExact
  <2> QED BY <1>2, <1>5, <2>1, <2>2 DEF Compares, Keeps, BinaryIs, ExactTotal, k
<1>6. CASE op = "rotl"
  <2>1. IntBinary(w, op, a, b) = RotateLeft(w, a, k)
    BY <1>6 DEF IntBinary, k
  <2>2. RotateLeft(w, a, k) \in Unsigneds(w) /\ BitsSet(w, RotateLeft(w, a, k)) = TurnedSet(BitsSet(w, a), w, k)
    BY <1>1, RotateExact
  <2> QED BY <1>2, <1>6, <2>1, <2>2 DEF Compares, Keeps, BinaryIs, ExactTotal, k
<1>7. CASE op = "rotr"
  <2> DEFINE m == -k
  <2>1. IntBinary(w, op, a, b) = RotateLeft(w, a, m) /\ m \in Int
    BY <1>1, <1>7 DEF IntBinary, k
  <2> HIDE DEF m
  <2>2. RotateLeft(w, a, m) \in Unsigneds(w) /\ BitsSet(w, RotateLeft(w, a, m)) = TurnedSet(BitsSet(w, a), w, m)
    BY <2>1, RotateExact
  <2>3. BitsSet(w, RotateLeft(w, a, m)) = Turned(w, a, -(b % w))
    BY <1>2, <2>2 DEF m, k
  <2> QED BY <1>7, <2>1, <2>2, <2>3 DEF Compares, Keeps, BinaryIs, ExactTotal
<1> QED BY <1>3, <1>4, <1>5, <1>6, <1>7

\* Every arithmetic operation is what the integers modulo 2^w say, at every width.
LEMMA ArithmeticExact ==
  ASSUME NEW w \in Nat \ {0}, NEW a \in Unsigneds(w), NEW b \in Unsigneds(w), NEW op \in Arithmetic
  PROVE  LET v == IntBinary(w, op, a, b) IN Keeps(w, op, a, b, v) \/ Stops(w, op, a, b, v)
<1>1. b \in Nat
  BY DEF Unsigneds
<1>2. CASE op \in {"add", "sub", "mul"}
  BY <1>2, SumsExact
<1>3. CASE op \in {"div_s", "div_u", "rem_s", "rem_u"}
  BY <1>3, DivisionExact
<1>4. CASE op \in {"and", "or", "xor"}
  BY <1>4, BitOperations
<1>5. CASE op \in {"shl", "shr_u", "shr_s", "rotl", "rotr"}
  BY <1>1, <1>5, Movings
<1> QED BY <1>2, <1>3, <1>4, <1>5 DEF Arithmetic

LEMMA UnaryExact ==
  ASSUME NEW t \in {"i32", "i64"}, NEW a \in Unsigneds(Width(t)), NEW op \in UnaryOps[t], NEW v, v = IntUnary(Width(t), op, a)
  PROVE  v # Trap /\ ExactUnary(Width(t), op, a, v)
<1> DEFINE w == Width(t)
<1>1. /\ w \in Nat \ {0} /\ Width("i8") \in Nat \ {0} /\ Width("i16") \in Nat \ {0} /\ Width("i32") \in Nat \ {0}
      /\ Width("i8") <= w /\ Width("i16") <= w /\ Width("i32") <= w
  <2>1. ByteBits \in Nat \ {0}
    BY ByteBitsAssumption
  <2>2. Width("i8") = ByteBits /\ Width("i16") = ByteBits * 2 /\ Width("i32") = ByteBits * 4 /\ Width("i64") = ByteBits * 8
    BY <2>1 DEF Width, Bytes
  <2> QED BY <2>1, <2>2
<1>2. a \in Int /\ a \in Unsigneds(w) /\ v = IntUnary(w, op, a)
  BY DEF Unsigneds
<1>3. op \in {"clz", "ctz", "popcnt", "extend8_s", "extend16_s", "extend32_s"}
  BY DEF UnaryOps
<1> HIDE DEF w
<1>4. CASE op = "clz"
  <2>1. v = LeadingZeros(w, a)
    BY <1>2, <1>4 DEF IntUnary
  <2>2. v \in 0 .. w /\ a < 2^(w - v) /\ (v < w => a >= 2^(w - v - 1))
    BY <1>1, <1>2, <2>1, LeadingExact
  <2>3. v # -1
    BY <1>1, <2>2
  <2> QED BY <1>4, <2>2, <2>3 DEF ExactUnary, Trap, w
<1>5. CASE op = "ctz"
  <2>1. v = TrailingZeros(w, a)
    BY <1>2, <1>5 DEF IntUnary
  <2>2. v \in 0 .. w /\ a % 2^v = 0 /\ (v < w => a % 2^(v + 1) # 0)
    BY <1>1, <1>2, <2>1, TrailingExact
  <2>3. v # -1
    BY <1>1, <2>2
  <2> QED BY <1>5, <2>2, <2>3 DEF ExactUnary, Trap, w
<1>6. CASE op = "popcnt"
  <2>1. v = Cardinality(BitsSet(w, a))
    BY <1>2, <1>6 DEF IntUnary
  <2>2. v \in Nat
    <3>1. IsFiniteSet(0 .. w - 1)
      <4>1. 0 \in Int /\ w - 1 \in Int
        BY <1>1
      <4> QED BY <4>1, FS_Interval
    <3>2. IsFiniteSet(BitsSet(w, a))
      BY <3>1, FS_Subset DEF BitsSet
    <3> QED BY <2>1, <3>2, FS_CardinalityType
  <2> QED BY <1>6, <2>1, <2>2 DEF ExactUnary, Trap, w
<1>7. CASE op \in {"extend8_s", "extend16_s", "extend32_s"}
  <2> DEFINE n == CASE op = "extend8_s" -> Width("i8") [] op = "extend16_s" -> Width("i16")
                    [] op = "extend32_s" -> Width("i32")
  <2>1. v = SignExtend(n, w, a) /\ n \in Nat \ {0} /\ n <= w
    BY <1>1, <1>2, <1>7 DEF IntUnary
  <2> HIDE DEF n
  <2>2. 0 <= v /\ v < 2^w /\ v \in Int /\ S(w, v) = S(n, a % 2^n)
    <3>1. IsExtension(w, n, a, SignExtend(n, w, a))
      BY <1>1, <1>2, <2>1, ExtendExact
    <3> QED BY <2>1, <3>1 DEF IsExtension
  <2>3. v # -1
    BY <2>2
  <2> QED BY <1>7, <2>2, <2>3 DEF ExactUnary, Trap, w, n
<1> QED BY <1>3, <1>4, <1>5, <1>6, <1>7

-----------------------------------------------------------------------------
(* The instructions *)

\* What Compute does with the value v.
ComputeOf(want, t, v) ==
  IF ~popWant(want) THEN Stop("fault")
  ELSE IF v = Trap THEN Stop("trap") ELSE Advance(want, <<[t |-> t, v |-> v]>>, areas)
Gets(v) ==
  /\ UNCHANGED <<prog, args>>
  /\ IF v = Trap THEN out' = "trap" ELSE out' = "done" /\ Result' = v

LEMMA ComputeOnce ==
  ASSUME Single, out' # "fault", NEW want, NEW t, NEW v, ComputeOf(want, t, v), Len(want) = Len(args)
  PROVE  Gets(v)
<1>1. popWant(want)
  BY DEF ComputeOf, Stop
<1>2. CASE v = Trap
  <2>1. Trapping
    BY <1>1, <1>2, SingleTraps DEF ComputeOf
  <2> QED BY <1>2, <2>1 DEF Gets, Trapping
<1>3. CASE v # Trap
  <2> DEFINE c == [t |-> t, v |-> v]
  <2>1. Advance(want, <<c>>, areas) /\ c.v = v
    BY <1>1, <1>3 DEF ComputeOf
  <2> HIDE DEF c
  <2>2. Ran(<<c>>, areas)
    BY <2>1, SingleAdvances
  <2>3. UNCHANGED <<prog, args>> /\ out' = "done" /\ Result' = c.v
    BY <2>2, RanOne
  <2> QED BY <1>3, <2>1, <2>3 DEF Gets
<1> QED BY <1>2, <1>3

\* The operands of a numeric instruction are numbers of its width.
LEMMA TwoNumbers ==
  ASSUME Single, NEW t \in {"i32", "i64", "f32", "f64"}, NEW results, Sig(ins) = Effect(<<t, t>>, results)
  PROVE  /\ Len(<<t, t>>) = Len(args) /\ X(1) \in Unsigneds(Width(t)) /\ X(2) \in Unsigneds(Width(t))
         /\ Popped(<<t, t>>)[1] = X(2) /\ Popped(<<t, t>>)[2] = X(1)
<1>1. Sig(ins).params = <<t, t>> /\ Fits(args, <<t, t>>) /\ Len(<<t, t>>) = 2
  BY SingleFacts DEF Effect
<1>2. /\ Len(<<t, t>>) = Len(args) /\ Popped(<<t, t>>)[1] = X(2) /\ Popped(<<t, t>>)[2] = X(1)
  BY TwoPopped DEF Numbers32
<1> DEFINE types == <<t, t>>
<1>3. types[1] = t /\ types[2] = t /\ 1 \in 1 .. Len(types) /\ 2 \in 1 .. Len(types) /\ Fits(args, types)
  BY <1>1
<1> HIDE DEF types
<1>4. args[1].v \in Unsigneds(Width(types[1])) /\ args[2].v \in Unsigneds(Width(types[2]))
  BY <1>3, OperandValues
<1> QED BY <1>2, <1>3, <1>4 DEF X

LEMMA OneNumber ==
  ASSUME Single, NEW t \in {"i32", "i64", "f32", "f64"}, NEW results, Sig(ins) = Effect(<<t>>, results)
  PROVE  /\ Len(<<t>>) = Len(args) /\ X(1) \in Unsigneds(Width(t)) /\ Popped(<<t>>)[1] = X(1)
<1>1. Sig(ins).params = <<t>> /\ Fits(args, <<t>>) /\ Len(<<t>>) = 1
  BY SingleFacts DEF Effect
<1>2. Len(<<t>>) = Len(args) /\ Popped(<<t>>)[1] = X(1)
  BY OnePopped DEF Numbers32
<1> DEFINE types == <<t>>
<1>3. types[1] = t /\ 1 \in 1 .. Len(types) /\ Fits(args, types)
  BY <1>1
<1> HIDE DEF types
<1>4. args[1].v \in Unsigneds(Width(types[1]))
  BY <1>3, OperandValues
<1> QED BY <1>2, <1>3, <1>4 DEF X

LEMMA CompareResult ==
  ASSUME NEW w, NEW op \in Compares, NEW a, NEW b
  PROVE  LET v == Bool(IntCompare(w, op, a, b)) IN v # Trap /\ BinaryIs("done", w, op, a, b, v)
<1> DEFINE v == Bool(IntCompare(w, op, a, b))
<1>1. v # Trap
  BY DEF Bool, Trap
<1> HIDE DEF v
<1>2. BinaryIs("done", w, op, a, b, v)
  BY DEF Compares, BinaryIs, ExactTotal, v
<1> QED BY <1>1, <1>2 DEF v

\* What a computed value promises of the next state.
LEMMA BinaryGets ==
  ASSUME NEW w, NEW op, NEW a, NEW b, NEW v, Gets(v),
         (v # Trap /\ BinaryIs("done", w, op, a, b, v)) \/ Stops(w, op, a, b, v)
  PROVE  BinaryIs(out', w, op, a, b, Result')
BY DEF Gets, Stops

LEMMA KeepsNoTrap ==
  ASSUME NEW w, NEW op, NEW a, NEW b, NEW v, Keeps(w, op, a, b, v)
  PROVE  v # Trap /\ BinaryIs("done", w, op, a, b, v)
<1>1. v \in 0 .. 2^w - 1
  BY DEF Keeps, Unsigneds
<1>2. v >= 0
  BY <1>1
<1> QED BY <1>2 DEF Keeps, Trap

\* What an integer instruction promises of the next state.
IntegersAs(how, r) ==
  LET w == Width(only.t)
  IN  only.t \in {"i32", "i64"} =>
        CASE only.class = "binary" -> BinaryIs(how, w, only.op, X(1), X(2), r)
          [] only.class = "compare" -> BinaryIs(how, w, only.op, X(1), X(2), r)
          [] only.class = "unary" -> ExactUnary(w, only.op, X(1), r)
          [] only.class = "eqz" -> r = Bool(X(1) = 0)
          [] OTHER -> TRUE

LEMMA IntegersPrimed ==
  ASSUME UNCHANGED <<prog, args>>, IntegersAs(out', Result')
  PROVE  IntegersExact'
<1>1. only' = only /\ X(1)' = X(1) /\ X(2)' = X(2)
  BY DEF only, X
<1>2. ExactBinary(Width(only.t), only.op, X(1), X(2), Result)' <=> BinaryIs(out', Width(only.t), only.op, X(1), X(2), Result')
  BY <1>1, Zenon DEF ExactBinary, BinaryIs, Trapped
<1>3. only.t \in {"i32", "i64"} =>
        (CASE only.class = "binary" -> ExactBinary(Width(only.t), only.op, X(1), X(2), Result)
           [] only.class = "compare" -> ExactBinary(Width(only.t), only.op, X(1), X(2), Result)
           [] only.class = "unary" -> ExactUnary(Width(only.t), only.op, X(1), Result)
           [] only.class = "eqz" -> Result = Bool(X(1) = 0)
           [] OTHER -> TRUE)'
  BY <1>1, <1>2 DEF IntegersAs
<1> QED BY <1>1, <1>3 DEF IntegersExact

LEMMA IntegerStep ==
  ASSUME Single, out' # "fault", Integer
  PROVE  IntegersAs(out', Result') /\ UNCHANGED <<prog, args>>
<1>1. ASSUME NEW t \in {"i32", "i64"}, ins.class = "binary", ins.t = t, t = "i64" => ins.op \in Arithmetic,
             t = "i32" => ins.op \in Arithmetic \cup Compares, NEW v,
             v = IF ins.op \in Compares THEN Bool(IntCompare(Width(t), ins.op, X(1), X(2)))
                 ELSE IntBinary(Width(t), ins.op, X(1), X(2)),
             Gets(v), X(1) \in Unsigneds(Width(t)), X(2) \in Unsigneds(Width(t))
      PROVE  IntegersAs(out', Result')
  <2> DEFINE w == Width(t)
             a == X(1)
             b == X(2)
             op == ins.op
  <2>1. w \in Nat \ {0}
    BY ByteFacts DEF Width, Bytes
  <2>2. only = ins
    BY SingleFacts
  <2>3. (v # Trap /\ BinaryIs("done", w, op, a, b, v)) \/ Stops(w, op, a, b, v)
    <3>1. CASE op \in Compares
      <4>1. v = Bool(IntCompare(w, op, a, b)) /\ op \in Compares
        BY <1>1, <3>1
      <4> HIDE DEF w, a, b, op
      <4> QED BY <4>1, CompareResult
    <3>2. CASE op \notin Compares
      <4>1. v = IntBinary(w, op, a, b) /\ op \in Arithmetic /\ a \in Unsigneds(w) /\ b \in Unsigneds(w)
        BY <1>1, <3>2
      <4> HIDE DEF w, a, b, op
      <4>2. Keeps(w, op, a, b, v) \/ Stops(w, op, a, b, v)
        BY <2>1, <4>1, ArithmeticExact
      <4> QED BY <4>2, KeepsNoTrap
    <3> QED BY <3>1, <3>2
  <2>4. BinaryIs(out', w, op, a, b, Result')
    <3> HIDE DEF w, a, b, op
    <3> QED BY <1>1, <2>3, BinaryGets
  <2> QED BY <1>1, <2>2, <2>4 DEF IntegersAs
<1>2. CASE I32Binary
  <2> DEFINE v == evalI32Binary(ins.op, Popped(<<"i32", "i32">>)[2], Popped(<<"i32", "i32">>)[1])
  <2>1. ins.class = "binary" /\ ins.t = "i32" /\ ComputeOf(<<"i32", "i32">>, "i32", v)
    BY <1>2 DEF I32Binary, At, Compute, ComputeOf
  <2>2. Sig(ins) = Effect(<<"i32", "i32">>, <<"i32">>)
    BY <2>1 DEF Sig, Loads, MemoryClasses, TableClasses, NumericSig
  <2>3. /\ Len(<<"i32", "i32">>) = Len(args) /\ X(1) \in Unsigneds(Width("i32")) /\ X(2) \in Unsigneds(Width("i32"))
        /\ Popped(<<"i32", "i32">>)[1] = X(2) /\ Popped(<<"i32", "i32">>)[2] = X(1)
    BY <2>2, TwoNumbers
  <2>4. v = IF ins.op \in Compares THEN Bool(IntCompare(Width("i32"), ins.op, X(1), X(2)))
            ELSE IntBinary(Width("i32"), ins.op, X(1), X(2))
    BY <2>3 DEF evalI32Binary
  <2>5. ins.op \in Arithmetic \cup Compares
    BY <2>1, SingleFacts DEF HasOperation
  <2> HIDE DEF v
  <2>6. Gets(v)
    BY <2>1, <2>3, ComputeOnce
  <2> QED BY <1>1, <2>1, <2>3, <2>4, <2>5, <2>6 DEF Gets
<1>3. CASE I64Binary
  <2> DEFINE v == evalI64Binary(ins.op, Popped(<<"i64", "i64">>)[2], Popped(<<"i64", "i64">>)[1])
  <2>1. ins.class = "binary" /\ ins.t = "i64" /\ ComputeOf(<<"i64", "i64">>, "i64", v)
    BY <1>3 DEF I64Binary, At, Compute, ComputeOf
  <2>2. Sig(ins) = Effect(<<"i64", "i64">>, <<"i64">>)
    BY <2>1 DEF Sig, Loads, MemoryClasses, TableClasses, NumericSig
  <2>3. /\ Len(<<"i64", "i64">>) = Len(args) /\ X(1) \in Unsigneds(Width("i64")) /\ X(2) \in Unsigneds(Width("i64"))
        /\ Popped(<<"i64", "i64">>)[1] = X(2) /\ Popped(<<"i64", "i64">>)[2] = X(1)
    BY <2>2, TwoNumbers
  <2>5. ins.op \in Arithmetic
    BY <2>1, SingleFacts DEF HasOperation
  <2>4. v = IF ins.op \in Compares THEN Bool(IntCompare(Width("i64"), ins.op, X(1), X(2)))
            ELSE IntBinary(Width("i64"), ins.op, X(1), X(2))
    <3>1. ins.op \notin Compares
      BY <2>5 DEF Arithmetic, Compares
    <3> QED BY <2>3, <3>1 DEF evalI64Binary
  <2> HIDE DEF v
  <2>6. Gets(v)
    BY <2>1, <2>3, ComputeOnce
  <2> QED BY <1>1, <2>1, <2>3, <2>4, <2>5, <2>6 DEF Gets
<1>4. CASE I64Compare
  <2> DEFINE v == evalI64Compare(ins.op, Popped(<<"i64", "i64">>)[2], Popped(<<"i64", "i64">>)[1])
  <2>1. ins.class = "compare" /\ ins.t = "i64" /\ ComputeOf(<<"i64", "i64">>, "i32", v)
    BY <1>4 DEF I64Compare, At, Compute, ComputeOf
  <2>2. Sig(ins) = Effect(<<"i64", "i64">>, <<"i32">>)
    BY <2>1 DEF Sig, Loads, MemoryClasses, TableClasses, NumericSig
  <2>3. /\ Len(<<"i64", "i64">>) = Len(args)
        /\ Popped(<<"i64", "i64">>)[1] = X(2) /\ Popped(<<"i64", "i64">>)[2] = X(1)
    BY <2>2, TwoNumbers
  <2>4. v = Bool(IntCompare(Width("i64"), ins.op, X(1), X(2)))
    BY <2>3 DEF evalI64Compare
  <2>5. ins.op \in Compares /\ only = ins
    BY <2>1, SingleFacts DEF HasOperation
  <2> HIDE DEF v
  <2>6. Gets(v)
    BY <2>1, <2>3, ComputeOnce
  <2>7. BinaryIs(out', Width("i64"), ins.op, X(1), X(2), Result')
    BY <2>4, <2>5, <2>6, CompareResult, BinaryGets
  <2> QED BY <2>1, <2>5, <2>6, <2>7 DEF Gets, IntegersAs
<1>5. ASSUME NEW t \in {"i32", "i64"}, ins.class = "unary", ins.t = t, NEW v, v = IntUnary(Width(t), ins.op, X(1)),
             ComputeOf(<<t>>, t, v)
      PROVE  IntegersAs(out', Result') /\ UNCHANGED <<prog, args>>
  <2>1. Sig(ins) = Effect(<<t>>, <<t>>)
    BY <1>5 DEF Sig, Loads, MemoryClasses, TableClasses, NumericSig
  <2>2. Len(<<t>>) = Len(args) /\ X(1) \in Unsigneds(Width(t))
    BY <2>1, OneNumber
  <2>3. Gets(v)
    BY <1>5, <2>2, ComputeOnce
  <2>4. ins.op \in UnaryOps[t] /\ only = ins
    BY <1>5, SingleFacts DEF HasOperation
  <2>5. v # Trap /\ ExactUnary(Width(t), ins.op, X(1), v)
    BY <1>5, <2>2, <2>4, UnaryExact
  <2> QED BY <1>5, <2>3, <2>4, <2>5 DEF Gets, IntegersAs
<1>6. ASSUME NEW t \in {"i32", "i64"}, ins.class = "eqz", ins.t = t, NEW v, v = Bool(X(1) = 0),
             ComputeOf(<<t>>, "i32", v)
      PROVE  IntegersAs(out', Result') /\ UNCHANGED <<prog, args>>
  <2>1. Sig(ins) = Effect(<<t>>, <<"i32">>)
    BY <1>6 DEF Sig, Loads, MemoryClasses, TableClasses, NumericSig
  <2>2. Len(<<t>>) = Len(args)
    BY <2>1, OneNumber
  <2>3. Gets(v)
    BY <1>6, <2>2, ComputeOnce
  <2>4. v # Trap
    BY <1>6 DEF Bool, Trap
  <2>5. only = ins
    BY SingleFacts
  <2> QED BY <1>6, <2>3, <2>4, <2>5 DEF Gets, IntegersAs
<1>7. ASSUME NEW t \in {"i32", "i64"}, NEW results, Sig(ins) = Effect(<<t>>, results) PROVE Popped(<<t>>)[1] = X(1)
  BY <1>7, OneNumber
<1>8. CASE I32Unary
  <2>1. ins.class = "unary" /\ ins.t = "i32" /\ ComputeOf(<<"i32">>, "i32", IntUnary(Width("i32"), ins.op, Popped(<<"i32">>)[1]))
    BY <1>8 DEF I32Unary, At, Compute, ComputeOf, evalI32Unary
  <2>2. Sig(ins) = Effect(<<"i32">>, <<"i32">>)
    BY <2>1 DEF Sig, Loads, MemoryClasses, TableClasses, NumericSig
  <2> QED BY <1>5, <1>7, <2>1, <2>2
<1>9. CASE I64Unary
  <2>1. ins.class = "unary" /\ ins.t = "i64" /\ ComputeOf(<<"i64">>, "i64", IntUnary(Width("i64"), ins.op, Popped(<<"i64">>)[1]))
    BY <1>9 DEF I64Unary, At, Compute, ComputeOf, evalI64Unary
  <2>2. Sig(ins) = Effect(<<"i64">>, <<"i64">>)
    BY <2>1 DEF Sig, Loads, MemoryClasses, TableClasses, NumericSig
  <2> QED BY <1>5, <1>7, <2>1, <2>2
<1>10. CASE I32Eqz
  <2>1. ins.class = "eqz" /\ ins.t = "i32" /\ ComputeOf(<<"i32">>, "i32", Bool(Popped(<<"i32">>)[1] = 0))
    BY <1>10 DEF I32Eqz, At, Compute, ComputeOf
  <2>2. Sig(ins) = Effect(<<"i32">>, <<"i32">>)
    BY <2>1 DEF Sig, Loads, MemoryClasses, TableClasses, NumericSig
  <2> QED BY <1>6, <1>7, <2>1, <2>2
<1>11. CASE I64Eqz
  <2>1. ins.class = "eqz" /\ ins.t = "i64" /\ ComputeOf(<<"i64">>, "i32", Bool(Popped(<<"i64">>)[1] = 0))
    BY <1>11 DEF I64Eqz, At, Compute, ComputeOf
  <2>2. Sig(ins) = Effect(<<"i64">>, <<"i32">>)
    BY <2>1 DEF Sig, Loads, MemoryClasses, TableClasses, NumericSig
  <2> QED BY <1>6, <1>7, <2>1, <2>2
<1> QED BY <1>2, <1>3, <1>4, <1>8, <1>9, <1>10, <1>11 DEF Integer

LEMMA NoAccess ==
  ASSUME ins.class \notin Places
  PROVE  ~Accessing
<1>1. ASSUME Accessing PROVE ins.class \in Places
  <2>1. CASE StoreActions
    <3>1. ins.class \in {"store", "storelane"}
      BY <2>1, Zenon DEF StoreActions, I32Store, I64Store, F32Store, F64Store, V128Store, V128StoreLane, At
    <3> QED BY <3>1 DEF Places, Accesses
  <2>2. CASE NumberLoadActions
    <3>1. ins.class = "load"
      BY <2>2, Zenon DEF NumberLoadActions, I32Load, I64Load, F32Load, F64Load, At
    <3> QED BY <3>1 DEF Places, Accesses, Loads
  <2>3. CASE VectorLoadActions
    <3>1. ins.class \in {"vload", "loadsplat", "loadextend", "loadzero", "loadlane"}
      BY <2>3, Zenon DEF VectorLoadActions, V128Load, V128LoadSplat, V128LoadExtend, V128LoadZero, V128LoadLane, At
    <3> QED BY <3>1 DEF Places, Accesses, Loads
  <2> QED BY <1>1, <2>1, <2>2, <2>3 DEF Accessing, StoreActions, NumberLoadActions, VectorLoadActions
<1> QED BY <1>1

\* Only the actions on integers run instructions on them.
LEMMA IntegerActions ==
  ASSUME Next, ins.class \in {"binary", "compare", "unary", "eqz"}, ins.t \in {"i32", "i64"}
  PROVE  Integer
<1>1. ~Const /\ ~Convert /\ ~Memories /\ ~Tables
  <2>1. ~Const /\ ~Convert
    BY DEF Const, Convert, At
  <2>2. ~Memories
    BY DEF Memories, MemorySize, MemoryGrow, MemoryCopy, MemoryFill, MemoryInit, DataDrop, At
  <2>3. ~Tables
    BY DEF Tables, TableSize, TableGet, TableSet, TableGrow, TableFill, TableCopy, TableInit, ElemDrop, At
  <2> QED BY <2>1, <2>2, <2>3
<1>2. ~Float
  BY DEF Float, F32Unary, F32Binary, F32Compare, F64Unary, F64Binary, F64Compare, At
<1>3. ~Vector
  BY DEF Vector, Splat, ExtractLane, ReplaceLane, Shuffle, VTest, VUnary, VBinary, VShift, VTernary, VCompare, At
<1>4. ~Accessing
  BY NoAccess DEF Places, Accesses, Loads, MemoryClasses, TableClasses
<1> QED BY <1>1, <1>2, <1>3, <1>4 DEF Next

IntegersInv == MemoryInv /\ IntegersExact

LEMMA IntegersStart == Init => IntegersInv
<1> SUFFICES ASSUME Init PROVE IntegersInv
  OBVIOUS
<1>1. out = "run"
  BY DEF Init
<1> QED BY <1>1, MemoryStart DEF IntegersInv, IntegersExact, Ended

LEMMA IntegersNext == IntegersInv /\ [Next]_vars => IntegersInv'
<1> SUFFICES ASSUME IntegersInv, [Next]_vars PROVE IntegersInv'
  OBVIOUS
<1>1. MemoryInv'
  BY MemoryNext DEF IntegersInv
<1>2. CASE UNCHANGED vars
  <2>1. prog' = prog /\ args' = args /\ stack' = stack /\ out' = out
    BY <1>2 DEF vars
  <2>2. Ended' = Ended /\ only' = only /\ X(1)' = X(1) /\ X(2)' = X(2) /\ Result' = Result /\ Trapped' = Trapped
    BY <2>1 DEF Ended, only, X, Result, Trapped
  <2>3. ASSUME NEW w, NEW op, NEW a, NEW b, NEW r, ExactBinary(w, op, a, b, r) PROVE ExactBinary(w, op, a, b, r)'
    BY <2>2, <2>3, Zenon DEF ExactBinary
  <2>4. IntegersExact'
    BY <2>1, <2>2, <2>3, Zenon DEF IntegersInv, IntegersExact, ExactBinary
  <2> QED BY <1>1, <2>4 DEF IntegersInv
<1>3. CASE Next
  <2>1. /\ out = "run" /\ UNCHANGED <<prog, args>> /\ out' # "fault" /\ pc \in 1 .. Len(prog) /\ Len(prog) \in {1, 2}
    BY <1>3, StepShape DEF MemoryInv, IntegersInv
  <2>2. CASE Len(prog) = 1 /\ only.class \in {"binary", "compare", "unary", "eqz"} /\ only.t \in {"i32", "i64"}
    <3>1. pc = 1 /\ ins = only
      BY <2>1, <2>2 DEF ins, only
    <3>2. Single
      BY <2>1, <2>2, <3>1 DEF Single, MemoryInv, IntegersInv, AgreeInv
    <3>3. Integer
      BY <1>3, <2>2, <3>1, IntegerActions
    <3>4. IntegersAs(out', Result')
      BY <2>1, <3>2, <3>3, IntegerStep
    <3> QED BY <1>1, <2>1, <3>4, IntegersPrimed DEF IntegersInv
  <2>3. CASE ~ (Len(prog) = 1 /\ only.class \in {"binary", "compare", "unary", "eqz"} /\ only.t \in {"i32", "i64"})
    <3>1. only' = only
      BY <2>1 DEF only
    <3>2. IntegersExact'
      BY <2>1, <2>3, <3>1 DEF IntegersExact, Ended
    <3> QED BY <1>1, <3>2 DEF IntegersInv
  <2> QED BY <2>2, <2>3
<1> QED BY <1>2, <1>3

\* i32 and i64 instructions compute what the integers modulo 2^w say, at every width of a byte and for all
\* operands, and trap exactly on a zero divisor and on the one quotient that has no place.
THEOREM IntegersSafe == Spec => []IntegersExact
<1>1. Init => IntegersInv
  BY IntegersStart
<1>2. IntegersInv /\ [Next]_vars => IntegersInv'
  BY IntegersNext
<1>3. IntegersInv => IntegersExact
  BY DEF IntegersInv
<1> QED BY <1>1, <1>2, <1>3, PTL DEF Spec

-----------------------------------------------------------------------------
(* What the conversions compute *)

\* The promise of a conversion of x from type `from` to type t, of its result and of how it ended.
ConvertIs(end, t, op, from, how, x, r) ==
  LET w == Width(t)
      read(v) == IF how = "s" THEN S(w, v) ELSE v
      source == IF how = "s" THEN S(Width(from), x) ELSE x
  IN  CASE op = "wrap" -> r = x % 2^w
        [] op = "extend" -> read(r) = source
        [] op = "trunc" ->
             IF Finite(from, x) /\ \E n \in {Truncated(from, x)} : InRange(w, how, n)
             THEN end # "trap" /\ IsTruncated(from, x, read(r)) ELSE end = "trap"
        [] op = "trunc_sat" ->
             IF IsNaN(from, x) THEN r = 0
             ELSE IF IsInf(from, x) \/ ~InRange(w, how, Truncated(from, x))
             THEN read(r) = Limits(w, how)[IF IsNeg(from, x) THEN 1 ELSE 2]
             ELSE IsTruncated(from, x, read(r))
        [] op = "convert" -> IsNearest(t, source * One, r)
        [] op \in {"promote", "demote"} ->
             IF Finite(from, x) THEN IsNearest(t, Real(from, x), r)
             ELSE IsInf(t, r) = IsInf(from, x) /\ IsNeg(t, r) = IsNeg(from, x)
        [] op = "reinterpret" -> r = x

Converts(t, op, from, how, x, v) == v \in Unsigneds(Width(t)) /\ ConvertIs("done", t, op, from, how, x, v)
ConvertStops(t, op, from, how, x, v) == v = Trap /\ \A r : ConvertIs("trap", t, op, from, how, x, r)

LEMMA OneFacts == One \in Nat \ {0}
BY FormatAssumption, Pow DEF One

LEMMA WidthFacts ==
  ASSUME NEW t \in {"i32", "i64", "f32", "f64"}
  PROVE  Width(t) \in Nat \ {0} /\ 2^Width(t) \in Nat \ {0}
<1>1. Width(t) \in Nat \ {0}
  BY ByteFacts DEF Width, Bytes
<1> QED BY <1>1, Pow

\* A float is truncated towards zero.
LEMMA TruncatedExact ==
  ASSUME NEW f \in FloatTypes, NEW x \in Unsigneds(Width(f))
  PROVE  LET n == Truncated(f, x)
         IN  /\ n \in Int /\ IsTruncated(f, x, n)
             /\ n < 0 => IsNeg(f, x)
             /\ n > 0 => ~IsNeg(f, x)
<1> DEFINE v == Real(f, x)
           o == One
           n == Quot(v, o)
           m == Rem(v, o)
<1>1. v \in Int /\ o \in Nat \ {0} /\ (IsNeg(f, x) => v <= 0) /\ (~IsNeg(f, x) => v >= 0)
  <2>1. v \in Int /\ Units(f, Magnitude(f, x)) \in Nat
        /\ v = IF IsNeg(f, x) THEN -Units(f, Magnitude(f, x)) ELSE Units(f, Magnitude(f, x))
    BY RealUnits
  <2> HIDE DEF v
  <2> QED BY <2>1, OneFacts
<1>2. Truncated(f, x) = n
  BY DEF Truncated, One
<1> HIDE DEF v, o
<1>3. Divided(v, o, n, m)
  BY <1>1, QuotExact
<1> HIDE DEF n, m
<1>4. n \in Int /\ m \in Int /\ v = o * n + m
  BY <1>3 DEF Divided
<1>5. PICK a \in Nat, b \in Nat, c \in Nat : \E d \in 0 .. b - 1 :
        /\ b # 0 /\ a = (IF v < 0 THEN -v ELSE v) /\ b = (IF o < 0 THEN -o ELSE o)
        /\ a = b * c + d /\ n = (IF (v < 0) = (o < 0) THEN c ELSE -c) /\ m = (IF v < 0 THEN -d ELSE d)
  BY <1>3 DEF Divided
<1>6. PICK d \in 0 .. b - 1 :
        /\ b # 0 /\ a = (IF v < 0 THEN -v ELSE v) /\ b = (IF o < 0 THEN -o ELSE o)
        /\ a = b * c + d /\ n = (IF (v < 0) = (o < 0) THEN c ELSE -c) /\ m = (IF v < 0 THEN -d ELSE d)
  BY <1>5
<1>7. b = o /\ n = (IF v < 0 THEN -c ELSE c)
  BY <1>1, <1>6
<1>8. o * c \in Nat /\ a = o * c + d /\ n * o = (IF v < 0 THEN -(o * c) ELSE o * c) /\ (c > 0 => o * c >= o)
  BY <1>1, <1>6, <1>7
<1> DEFINE y == o * c
<1>9. y \in Nat /\ a = y + d /\ n * o = (IF v < 0 THEN -y ELSE y) /\ (c > 0 => y >= o)
  BY <1>8
<1> HIDE DEF y
<1>10. Abs(v - n * o) < o
  BY <1>1, <1>6, <1>7, <1>9 DEF Abs
<1>11. n # 0 => (n < 0) = (v < 0) /\ Abs(n * o) <= Abs(v)
  BY <1>1, <1>6, <1>7, <1>9 DEF Abs
<1>12. (n < 0 => v < 0) /\ (n > 0 => v > 0)
  BY <1>1, <1>6, <1>7, <1>9
<1>13. IsTruncated(f, x, n)
  BY <1>10, <1>11 DEF IsTruncated, v, o
<1> QED BY <1>1, <1>2, <1>4, <1>12, <1>13

LEMMA ReadBack ==
  ASSUME NEW w \in Nat \ {0}, NEW how, NEW n \in Int, InRange(w, how, n)
  PROVE  LET r == U(w, n) IN r \in Unsigneds(w) /\ (IF how = "s" THEN S(w, r) ELSE r) = n
<1>1. CASE how = "s"
  <2>1. n \in Signeds(w)
    BY <1>1 DEF InRange, Signeds
  <2> QED BY <1>1, <2>1, SignedFacts
<1>2. CASE how # "s"
  <2>1. n \in Unsigneds(w)
    BY <1>2 DEF InRange, Unsigneds
  <2> QED BY <1>2, <2>1, SignedFacts
<1> QED BY <1>1, <1>2

LEMMA TruncExact ==
  ASSUME NEW t \in {"i32", "i64"}, NEW from \in FloatTypes, NEW how, NEW x \in Unsigneds(Width(from)),
         NEW v, v = evalConversion(t, "trunc", from, how, x)
  PROVE  Converts(t, "trunc", from, how, x, v) \/ ConvertStops(t, "trunc", from, how, x, v)
<1> DEFINE w == Width(t)
           n == Truncated(from, x)
           h == 2^(w - 1)
           p == 2^w
           lower == IF how = "s" THEN -h ELSE 0
           upper == IF how = "s" THEN h ELSE p
<1>1. w \in Nat \ {0} /\ h \in Nat \ {0} /\ p \in Nat \ {0}
  BY WidthFacts, Halves
<1>2. n \in Int /\ IsTruncated(from, x, n)
  BY TruncatedExact
<1>3. v = checkedTruncFloat(from, x, w, lower, upper)
  BY DEF evalConversion, truncFloatToI32S, truncFloatToI32U, truncFloatToI64S, truncFloatToI64U
<1>4. InRange(w, how, n) <=> ~(n < lower \/ n >= upper)
  <2>1. InRange(w, how, n) <=> IF how = "s" THEN n \in -h .. h - 1 ELSE n \in 0 .. p - 1
    BY DEF InRange
  <2> HIDE DEF n, h, p
  <2> QED BY <1>1, <1>2, <2>1
<1>5. v = IF ~Finite(from, x) \/ ~InRange(w, how, n) THEN Trap ELSE U(w, n)
  <2> HIDE DEF n, lower, upper
  <2>1. v = IF IsNaN(from, x) \/ IsInf(from, x) THEN Trap
            ELSE IF n < lower \/ n >= upper THEN Trap ELSE U(w, n)
    BY <1>3 DEF checkedTruncFloat, n
  <2> QED BY <1>4, <2>1 DEF Finite
<1>6. CASE ~Finite(from, x) \/ ~InRange(w, how, n)
  <2>1. \A r : ConvertIs("trap", t, "trunc", from, how, x, r)
    <3> TAKE r
    <3>1. ~(Finite(from, x) /\ \E k \in {Truncated(from, x)} : InRange(Width(t), how, k))
      BY <1>6
    <3> QED BY <3>1 DEF ConvertIs
  <2> QED BY <1>5, <1>6, <2>1 DEF ConvertStops
<1>7. CASE Finite(from, x) /\ InRange(w, how, n)
  <2>1. v = U(w, n)
    BY <1>5, <1>7
  <2> HIDE DEF n, w
  <2>2. v \in Unsigneds(w) /\ (IF how = "s" THEN S(w, v) ELSE v) = n
    BY <1>1, <1>2, <1>7, <2>1, ReadBack
  <2>3. ConvertIs("done", t, "trunc", from, how, x, v)
    <3>1. Finite(from, x) /\ \E k \in {Truncated(from, x)} : InRange(Width(t), how, k)
      BY <1>7 DEF n, w
    <3>2. IsTruncated(from, x, IF how = "s" THEN S(Width(t), v) ELSE v)
      BY <1>2, <2>2 DEF w
    <3> QED BY <3>1, <3>2 DEF ConvertIs
  <2> QED BY <2>2, <2>3 DEF Converts, w
<1> QED BY <1>6, <1>7

LEMMA SaturateExact ==
  ASSUME NEW t \in {"i32", "i64"}, NEW from \in FloatTypes, NEW how, NEW x \in Unsigneds(Width(from)),
         NEW v, v = evalConversion(t, "trunc_sat", from, how, x)
  PROVE  Converts(t, "trunc_sat", from, how, x, v)
<1> DEFINE w == Width(t)
           n == Truncated(from, x)
           h == 2^(w - 1)
           p == 2^w
           lo == IF how = "s" THEN -h ELSE 0
           hi == IF how = "s" THEN h - 1 ELSE p - 1
           neg == IsNeg(from, x)
           limit == IF neg THEN lo ELSE hi
           read(z) == IF how = "s" THEN S(w, z) ELSE z
<1>1. w \in Nat \ {0} /\ h \in Nat \ {0} /\ p \in Nat \ {0}
  BY WidthFacts, Halves
<1>2. n \in Int /\ IsTruncated(from, x, n) /\ (n < 0 => neg) /\ (n > 0 => ~neg)
  BY TruncatedExact
<1>3. v = IF how = "s" THEN truncSatFloatS(from, x, w) ELSE truncSatFloatU(from, x, w)
  BY DEF evalConversion, truncSatFloatToI32S, truncSatFloatToI32U, truncSatFloatToI64S, truncSatFloatToI64U
<1>4. \A k : InRange(w, how, k) <=> k \in lo .. hi
  BY DEF InRange
<1>5. lo \in Int /\ hi \in Int /\ lo <= 0 /\ hi >= 0 /\ 0 \in lo .. hi /\ Limits(w, how)[IF neg THEN 1 ELSE 2] = limit
  <2>1. Limits(w, how) = <<lo, hi>>
    BY DEF Limits
  <2> HIDE DEF h, p
  <2>2. lo \in Int /\ hi \in Int /\ lo <= 0 /\ hi >= 0 /\ 0 \in lo .. hi
    BY <1>1
  <2> HIDE DEF lo, hi
  <2> QED BY <2>1, <2>2
<1>6. \A k \in lo .. hi : U(w, k) \in Unsigneds(w) /\ read(U(w, k)) = k /\ (how # "s" => U(w, k) = k)
  <2> TAKE k \in lo .. hi
  <2>1. k \in Int /\ InRange(w, how, k)
    BY <1>4, <1>5
  <2>2. how # "s" => k \in Unsigneds(w)
    BY <2>1 DEF InRange, Unsigneds
  <2> HIDE DEF w
  <2> QED BY <1>1, <2>1, <2>2, ReadBack, SignedFacts
<1>7. v = IF IsNaN(from, x) THEN 0 ELSE IF IsInf(from, x) THEN U(w, limit) ELSE U(w, Clamp(n, lo, hi))
  <2> HIDE DEF n, neg
  <2>1. CASE how = "s"
    BY <1>3, <2>1 DEF truncSatFloatS, n, neg
  <2>2. CASE how # "s"
    <3>1. v = IF IsNaN(from, x) THEN 0 ELSE IF IsInf(from, x) THEN limit ELSE Clamp(n, lo, hi)
      BY <1>3, <2>2 DEF truncSatFloatU, n, neg
    <3> HIDE DEF lo, hi
    <3>2. limit \in lo .. hi /\ Clamp(n, lo, hi) \in lo .. hi
      BY <1>2, <1>5 DEF Clamp, Greatest, Least
    <3> HIDE DEF limit
    <3> QED BY <1>6, <2>2, <3>1, <3>2
  <2> QED BY <2>1, <2>2
<1> HIDE DEF w, n, lo, hi, neg, h, p
<1>8. limit \in lo .. hi /\ Clamp(n, lo, hi) \in lo .. hi
      /\ (n \in lo .. hi => Clamp(n, lo, hi) = n) /\ (n \notin lo .. hi => Clamp(n, lo, hi) = limit)
  BY <1>2, <1>5 DEF Clamp, Greatest, Least
<1> HIDE DEF limit
<1>9. v \in Unsigneds(w)
  <2>1. 0 \in Unsigneds(w)
    BY <1>1 DEF Unsigneds, p
  <2> QED BY <1>6, <1>7, <1>8, <2>1
<1>10. ConvertIs("done", t, "trunc_sat", from, how, x, v)
  <2>1. CASE IsNaN(from, x)
    BY <1>7, <2>1 DEF ConvertIs
  <2>2. CASE ~IsNaN(from, x) /\ (IsInf(from, x) \/ ~InRange(w, how, n))
    <3>1. read(v) = limit
      BY <1>4, <1>6, <1>7, <1>8, <2>2
    <3>2. read(v) = Limits(Width(t), how)[IF IsNeg(from, x) THEN 1 ELSE 2]
      BY <1>5, <3>1 DEF w, neg
    <3>3. IsInf(from, x) \/ ~InRange(Width(t), how, Truncated(from, x))
      BY <2>2 DEF w, n
    <3> QED BY <2>2, <3>2, <3>3 DEF ConvertIs, w
  <2>3. CASE ~IsNaN(from, x) /\ ~(IsInf(from, x) \/ ~InRange(w, how, n))
    <3>1. read(v) = n
      BY <1>4, <1>6, <1>7, <1>8, <2>3
    <3>2. IsTruncated(from, x, read(v))
      BY <1>2, <3>1
    <3>3. ~(IsInf(from, x) \/ ~InRange(Width(t), how, Truncated(from, x)))
      BY <2>3 DEF w, n
    <3> QED BY <2>3, <3>2, <3>3 DEF ConvertIs, w
  <2> QED BY <2>1, <2>2, <2>3
<1> QED BY <1>9, <1>10 DEF Converts, w

\* An integer goes to a nearest float.
LEMMA FloatOfExact ==
  ASSUME NEW f \in FloatTypes, NEW n \in Int
  PROVE  LET v == FloatOf(f, n)
         IN  v \in Unsigneds(Width(f)) /\ ~IsNaN(f, v) /\ IsNearest(f, n * One, v)
<1> DEFINE neg == n < 0
           m == Abs(n)
           v == Nearest(f, neg, m, ScaleBits)
<1>1. neg \in BOOLEAN /\ m \in Nat /\ n = (IF neg THEN -m ELSE m)
  BY DEF Abs
<1>2. ScaleBits \in Int /\ ScaleBits >= 0 /\ FloatOf(f, n) = v
  BY FormatAssumption DEF FloatOf
<1> HIDE DEF neg, m
<1>3. v \in Unsigneds(Width(f)) /\ ~IsNaN(f, v)
      /\ IsNearest(f, IF neg THEN -(m * 2^ScaleBits) ELSE m * 2^ScaleBits, v)
  BY <1>1, <1>2, NearestExact
<1>4. n * One = IF neg THEN -(m * 2^ScaleBits) ELSE m * 2^ScaleBits
  <2> DEFINE o == 2^ScaleBits
  <2>1. o \in Nat /\ One = o
    BY OneFacts DEF One
  <2> HIDE DEF o
  <2>2. n * o = IF neg THEN -(m * o) ELSE m * o
    BY <1>1, <2>1
  <2> QED BY <2>1, <2>2 DEF o
<1> QED BY <1>2, <1>3, <1>4

LEMMA ConversionExact ==
  ASSUME NEW t, NEW op \in DOMAIN Conversions, NEW from, <<from, t>> \in Conversions[op], NEW how,
         NEW x \in Unsigneds(Width(from)), NEW v, v = evalConversion(t, op, from, how, x)
  PROVE  Converts(t, op, from, how, x, v) \/ ConvertStops(t, op, from, how, x, v)
<1>0. op \in {"wrap", "extend", "trunc", "trunc_sat", "convert", "promote", "demote", "reinterpret"}
  BY DEF Conversions
<1>1. CASE op \in {"trunc", "trunc_sat"}
  <2>1. t \in {"i32", "i64"} /\ from \in FloatTypes
    BY <1>1 DEF Conversions, FloatTypes
  <2> QED BY <1>1, <2>1, TruncExact, SaturateExact
<1>2. CASE op = "wrap"
  <2>1. t = "i32" /\ from = "i64" /\ v = x % 2^Width(t)
    BY <1>2 DEF Conversions, evalConversion, U
  <2>2. x \in Int /\ 2^Width(t) \in Nat \ {0}
    <3>1. Width(from) \in Nat \ {0} /\ 2^Width(t) \in Nat \ {0} /\ 2^Width(from) \in Nat \ {0}
      BY <2>1, WidthFacts
    <3> QED BY <3>1 DEF Unsigneds
  <2>3. v \in Unsigneds(Width(t))
    BY <2>1, <2>2, DivMod, ZenonT(60) DEF Unsigneds
  <2> QED BY <1>2, <2>1, <2>3 DEF Converts, ConvertIs
<1>3. CASE op = "extend"
  <2> DEFINE m == Width(from)
             n == Width(t)
  <2>1. t = "i64" /\ from = "i32" /\ v = IF how = "s" THEN SignExtend(m, n, x) ELSE x
    BY <1>3 DEF Conversions, evalConversion
  <2>2. m \in Nat \ {0} /\ n \in Nat \ {0} /\ m <= n
    <3>1. m = ByteBits * 4 /\ n = ByteBits * 8
      BY <2>1 DEF Width, Bytes
    <3> QED BY <3>1, ByteFacts
  <2> HIDE DEF m, n
  <2>3. x \in Unsigneds(m)
    BY DEF m
  <2>4. SignExtend(m, n, x) \in Unsigneds(n) /\ S(n, SignExtend(m, n, x)) = S(m, x) /\ x \in Unsigneds(n)
    BY <2>2, <2>3, Extended
  <2>5. v \in Unsigneds(n) /\ (IF how = "s" THEN S(n, v) ELSE v) = (IF how = "s" THEN S(m, x) ELSE x)
    BY <2>1, <2>4
  <2> QED BY <1>3, <2>5 DEF Converts, ConvertIs, m, n
<1>4. CASE op = "convert"
  <2> DEFINE source == IF how = "s" THEN S(Width(from), x) ELSE x
  <2>1. t \in FloatTypes /\ from \in {"i32", "i64"} /\ v = FloatOf(t, source)
    BY <1>4 DEF Conversions, evalConversion, FloatTypes
  <2>2. source \in Int
    <3>1. Width(from) \in Nat \ {0}
      BY <2>1, WidthFacts
    <3>2. S(Width(from), x) \in Signeds(Width(from)) /\ 2^Width(from) \in Nat /\ 2^(Width(from) - 1) \in Nat
      BY <3>1, SignedFacts, Halves
    <3> QED BY <3>2 DEF Signeds, Unsigneds
  <2> HIDE DEF source
  <2>3. v \in Unsigneds(Width(t)) /\ IsNearest(t, source * One, v)
    BY <2>1, <2>2, FloatOfExact
  <2> QED BY <1>4, <2>3 DEF Converts, ConvertIs, source
<1>5. CASE op \in {"promote", "demote"}
  <2>1. t \in FloatTypes /\ from \in FloatTypes /\ v = FloatTo(from, t, x)
    BY <1>5 DEF Conversions, evalConversion, FloatTypes
  <2>2. /\ v \in Unsigneds(Width(t)) /\ IsNeg(t, v) = IsNeg(from, x)
        /\ (IsInf(from, x) => IsInf(t, v)) /\ (IsNaN(from, x) => ~IsInf(t, v) /\ ~IsInf(from, x))
        /\ (~IsNaN(from, x) /\ ~IsInf(from, x) => IsNearest(t, Real(from, x), v))
    BY <2>1, FloatToExact
  <2>3. ConvertIs("done", t, op, from, how, x, v)
    <3>1. IF Finite(from, x) THEN IsNearest(t, Real(from, x), v)
          ELSE IsInf(t, v) = IsInf(from, x) /\ IsNeg(t, v) = IsNeg(from, x)
      BY <2>2, Kinds DEF Finite
    <3> QED BY <1>5, <3>1 DEF ConvertIs
  <2> QED BY <2>2, <2>3 DEF Converts
<1>6. CASE op = "reinterpret"
  <2>1. Width(t) = Width(from) /\ v = x
    BY <1>6 DEF Conversions, evalConversion, Width, Bytes
  <2> QED BY <1>6, <2>1 DEF Converts, ConvertIs
<1> QED BY <1>0, <1>1, <1>2, <1>3, <1>4, <1>5, <1>6

-----------------------------------------------------------------------------
(* The instruction *)

ConversionAs(end, r) ==
  only.class = "convert" => ConvertIs(end, only.t, only.op, only.from, only.how, X(1), r)

LEMMA ConversionsPrimed ==
  ASSUME UNCHANGED <<prog, args>>, ConversionAs(out', Result')
  PROVE  ConversionsExact'
<1>1. only' = only /\ X(1)' = X(1)
  BY DEF only, X
<1> QED BY <1>1, Zenon DEF ConversionAs, ConvertIs, ConversionsExact, Trapped

LEMMA ConvertStep ==
  ASSUME Single, out' # "fault", Convert
  PROVE  ConversionAs(out', Result') /\ UNCHANGED <<prog, args>>
<1> DEFINE want == <<ins.from>>
           v == evalConversion(ins.t, ins.op, ins.from, ins.how, Popped(want)[1])
<1>1. only = ins /\ HasOperation(ins) /\ ins.class = "convert"
  BY SingleFacts DEF Convert, At
<1>2. ins.op \in DOMAIN Conversions /\ <<ins.from, ins.t>> \in Conversions[ins.op]
  BY <1>1 DEF HasOperation
<1>3. ins.from \in {"i32", "i64", "f32", "f64"} /\ ins.t \in {"i32", "i64", "f32", "f64"}
  BY <1>2 DEF Conversions
<1>4. ComputeOf(want, ins.t, v)
  <2>1. ins.t # "v128"
    BY <1>3
  <2> QED BY <2>1 DEF Convert, Compute, ComputeOf
<1>5. Sig(ins) = Effect(want, <<ins.t>>)
  BY <1>1 DEF Sig, Loads, MemoryClasses, TableClasses, NumericSig
<1>6. Len(want) = Len(args) /\ X(1) \in Unsigneds(Width(ins.from)) /\ Popped(want)[1] = X(1)
  BY <1>3, <1>5, OneNumber
<1>7. v = evalConversion(ins.t, ins.op, ins.from, ins.how, X(1))
  BY <1>6
<1> HIDE DEF v
<1>8. Gets(v)
  BY <1>4, <1>6, ComputeOnce
<1>9. Converts(ins.t, ins.op, ins.from, ins.how, X(1), v) \/ ConvertStops(ins.t, ins.op, ins.from, ins.how, X(1), v)
  BY <1>2, <1>6, <1>7, ConversionExact
<1>10. ConvertIs(out', ins.t, ins.op, ins.from, ins.how, X(1), Result')
  <2>1. CASE Converts(ins.t, ins.op, ins.from, ins.how, X(1), v)
    <3>1. v # Trap /\ ConvertIs("done", ins.t, ins.op, ins.from, ins.how, X(1), v)
      <4>1. v \in 0 .. 2^Width(ins.t) - 1
        BY <2>1 DEF Converts, Unsigneds
      <4>2. v >= 0
        BY <4>1
      <4> QED BY <2>1, <4>2 DEF Converts, Trap
    <3> QED BY <1>8, <3>1 DEF Gets
  <2>2. CASE ConvertStops(ins.t, ins.op, ins.from, ins.how, X(1), v)
    BY <1>8, <2>2 DEF Gets, ConvertStops
  <2> QED BY <1>9, <2>1, <2>2
<1> QED BY <1>1, <1>8, <1>10 DEF ConversionAs, Gets

\* Only one action converts.
LEMMA ConvertActions ==
  ASSUME Next, ins.class = "convert"
  PROVE  Convert
<1>1. ~Const /\ ~Integer
  BY DEF Const, Integer, I32Binary, I32Eqz, I32Unary, I64Binary, I64Compare, I64Eqz, I64Unary, At
<1>2. ~Float
  BY DEF Float, F32Unary, F32Binary, F32Compare, F64Unary, F64Binary, F64Compare, At
<1>3. ~Vector
  BY DEF Vector, Splat, ExtractLane, ReplaceLane, Shuffle, VTest, VUnary, VBinary, VShift, VTernary, VCompare, At
<1>4. ~Accessing
  BY NoAccess DEF Places, Accesses, Loads, MemoryClasses, TableClasses
<1>5. ~Memories
  BY DEF Memories, MemorySize, MemoryGrow, MemoryCopy, MemoryFill, MemoryInit, DataDrop, At
<1>6. ~Tables
  BY DEF Tables, TableSize, TableGet, TableSet, TableGrow, TableFill, TableCopy, TableInit, ElemDrop, At
<1> QED BY <1>1, <1>2, <1>3, <1>4, <1>5, <1>6 DEF Next

ConversionsInv == MemoryInv /\ ConversionsExact

LEMMA ConversionsStart == Init => ConversionsInv
<1> SUFFICES ASSUME Init PROVE ConversionsInv
  OBVIOUS
<1>1. out = "run"
  BY DEF Init
<1> QED BY <1>1, MemoryStart DEF ConversionsInv, ConversionsExact, Ended

LEMMA ConversionsNext == ConversionsInv /\ [Next]_vars => ConversionsInv'
<1> SUFFICES ASSUME ConversionsInv, [Next]_vars PROVE ConversionsInv'
  OBVIOUS
<1>1. MemoryInv'
  BY MemoryNext DEF ConversionsInv
<1>2. CASE UNCHANGED vars
  <2>1. prog' = prog /\ args' = args /\ stack' = stack /\ out' = out
    BY <1>2 DEF vars
  <2>2. Ended' = Ended /\ only' = only /\ X(1)' = X(1) /\ Result' = Result /\ Trapped' = Trapped
    BY <2>1 DEF Ended, only, X, Result, Trapped
  <2>3. ConversionsExact'
    BY <2>1, <2>2, Zenon DEF ConversionsInv, ConversionsExact
  <2> QED BY <1>1, <2>3 DEF ConversionsInv
<1>3. CASE Next
  <2>1. /\ out = "run" /\ UNCHANGED <<prog, args>> /\ out' # "fault" /\ pc \in 1 .. Len(prog) /\ Len(prog) \in {1, 2}
    BY <1>3, StepShape DEF MemoryInv, ConversionsInv
  <2>2. CASE Len(prog) = 1 /\ only.class = "convert"
    <3>1. pc = 1 /\ ins = only
      BY <2>1, <2>2 DEF ins, only
    <3>2. Single
      BY <2>1, <2>2, <3>1 DEF Single, MemoryInv, ConversionsInv, AgreeInv
    <3>3. Convert
      BY <1>3, <2>2, <3>1, ConvertActions
    <3>4. ConversionAs(out', Result')
      BY <2>1, <3>2, <3>3, ConvertStep
    <3> QED BY <1>1, <2>1, <3>4, ConversionsPrimed DEF ConversionsInv
  <2>3. CASE ~ (Len(prog) = 1 /\ only.class = "convert")
    <3>1. only' = only
      BY <2>1 DEF only
    <3>2. ConversionsExact'
      BY <2>1, <2>3, <3>1 DEF ConversionsExact, Ended
    <3> QED BY <1>1, <3>2 DEF ConversionsInv
  <2> QED BY <2>2, <2>3
<1> QED BY <1>2, <1>3

\* A float is truncated towards zero, and the truncation traps, or saturates at the nearest limit, exactly when
\* the integer has no place in the type; an integer or a float goes to a nearest float, to the even one of two;
\* wrapping, extending and reinterpreting keep the bits they should: for every width of a byte and every two
\* formats of which the wider holds the narrower.
THEOREM ConversionsSafe == Spec => []ConversionsExact
<1>1. Init => ConversionsInv
  BY ConversionsStart
<1>2. ConversionsInv /\ [Next]_vars => ConversionsInv'
  BY ConversionsNext
<1>3. ConversionsInv => ConversionsExact
  BY DEF ConversionsInv
<1> QED BY <1>1, <1>2, <1>3, PTL DEF Spec
==============================================================================
