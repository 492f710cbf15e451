---------------------------- MODULE FloatsProofs ----------------------------
(***************************************************************************)
(* What the f32 and f64 instructions compute is rounded once, for every    *)
(* two formats of which one holds the other's numbers: which numbers are   *)
(* floats, integral numbers and f32 through f64, then roots, sums,         *)
(* products and quotients, each with enough bits before it is rounded.     *)
(* Then the lanes of vectors: what packing, narrowing, widening, shuffling *)
(* and masking do to the bytes, and that each lane of each instruction is  *)
(* what the scalar instruction gives.                                      *)
(***************************************************************************)
EXTENDS ValuesProofs

-----------------------------------------------------------------------------
(* Numbers that are floats *)

\* Where the format ends: its infinity stands for a power of two that is at least one.
LEMMA OneInside ==
  ASSUME NEW f \in FloatTypes
  PROVE  /\ ScaleBits \in Nat /\ One = 2^ScaleBits /\ One \in Nat \ {0}
         /\ Format[f].least <= ScaleBits
         /\ \E c \in Nat \ {0} : Beyond(f) = c * One
<1> DEFINE F == Format[f].fraction
           L == Format[f].least
           x == 2^Format[f].exponent
           b == L + F + x - 2
<1>1. F \in Nat \ {0} /\ L \in Nat /\ x \in Nat /\ ScaleBits \in Nat \ {0} /\ L <= ScaleBits /\ ScaleBits < L + F + x - 2
  <2>1. F \in Nat \ {0} /\ L \in Nat /\ x \in Nat
    BY FormatFacts
  <2>2. ScaleBits \in Nat \ {0} /\ L <= ScaleBits /\ ScaleBits < L + F + x - 2
    BY FormatAssumption DEF FloatTypes
  <2> QED BY <2>1, <2>2
<1>2. Beyond(f) = 2^b
  BY DEF Beyond
<1> HIDE DEF F, L, x
<1>3. b \in Nat /\ ScaleBits \in Nat /\ ScaleBits <= b /\ b - ScaleBits \in Nat
  BY <1>1
<1> HIDE DEF b
<1>4. 2^b = 2^ScaleBits * 2^(b - ScaleBits) /\ 2^(b - ScaleBits) \in Nat \ {0}
  BY <1>3, PowOrder, Pow
<1>5. One = 2^ScaleBits /\ One \in Nat \ {0}
  BY OneFacts DEF One
<1> DEFINE c == 2^(b - ScaleBits)
<1>6. c \in Nat \ {0} /\ Beyond(f) = One * c
  BY <1>2, <1>4, <1>5
<1> HIDE DEF c
<1>7. Beyond(f) = c * One
  BY <1>5, <1>6
<1> QED BY <1>1, <1>3, <1>5, <1>6, <1>7 DEF L

\* A number that is a float is rounded to it.
LEMMA ExactlyThere ==
  ASSUME NEW f \in FloatTypes, NEW neg, NEW m \in Nat, NEW e \in Nat, NEW g \in 0 .. Inf(f),
         m * 2^e = Units(f, g)
  PROVE  Nearest(f, neg, m, e) = Signed(f, neg, g)
<1> DEFINE t == Units(f, g)
<1>1. 0 \in Nat /\ e \in Int /\ e + 0 >= 0 /\ e + 0 = e /\ 2^0 = 1
  BY Pow
<1>2. PICK i : Nearest(f, neg, m, e) = Signed(f, neg, i) /\ Rounds(f, i, m * 2^(e + 0), 2^0)
  BY <1>1, NearestRounds
<1>3. Rounds(f, i, t, 1)
  BY <1>1, <1>2
<1>4. i \in 0 .. Inf(f) /\ Inf(f) \in Nat /\ i \in Nat /\ g \in Nat
  BY <1>3, InfBelow DEF Rounds
<1>5. ASSUME i < g PROVE FALSE
  <2>1. i < Inf(f) /\ i + 1 <= g /\ i + 1 \in Nat
    BY <1>4, <1>5
  <2>2. Units(f, i) < Units(f, i + 1) /\ Units(f, i + 1) <= t /\ Units(f, i) \in Nat /\ Units(f, i + 1) \in Nat /\ t \in Nat
    BY <1>4, <2>1, UnitsNext, UnitsOrder
  <2>3. 2 * t <= (Units(f, i) + Units(f, i + 1)) * 1
    BY <1>3, <2>1 DEF Rounds, RoundsUp, Between
  <2> HIDE DEF t
  <2> QED BY <2>2, <2>3
<1>6. ASSUME g < i PROVE FALSE
  <2>1. i > 0 /\ g <= i - 1 /\ i - 1 \in Nat /\ (i - 1) + 1 = i
    BY <1>4, <1>6
  <2>2. Units(f, i - 1) < Units(f, i) /\ t <= Units(f, i - 1) /\ Units(f, i) \in Nat /\ Units(f, i - 1) \in Nat /\ t \in Nat
    <3>1. i - 1 < i /\ i - 1 <= i
      BY <1>4
    <3> QED BY <1>4, <2>1, <3>1, UnitsNext, UnitsOrder
  <2>3. 2 * t >= (Units(f, i - 1) + Units(f, i)) * 1
    BY <1>3, <2>1 DEF Rounds, RoundsDown, Between
  <2> HIDE DEF t
  <2> QED BY <2>2, <2>3
<1>7. i = g
  BY <1>4, <1>5, <1>6
<1> QED BY <1>2, <1>7

\* What is below infinity and has no more bits than the format is a float.
LEMMA Representable ==
  ASSUME NEW f \in FloatTypes, NEW c \in Nat, c < 2 * Unit(f), NEW j \in Nat, j >= Format[f].least,
         c * 2^j <= Beyond(f)
  PROVE  \E g \in 0 .. Inf(f) : Units(f, g) = c * 2^j
<1> DEFINE F == Format[f].fraction
           L == Format[f].least
           u == Unit(f)
           b == BitLen(c)
<1>1. F \in Nat /\ L \in Nat /\ u \in Nat \ {0} /\ u = 2^F /\ c < 2 * u /\ j >= L
  BY FormatFacts DEF Unit
<1>2. SUFFICES \E g \in Nat : Units(f, g) = c * 2^j
  <2>1. PICK g \in Nat : Units(f, g) = c * 2^j
    BY <1>2
  <2>2. Units(f, g) <= Units(f, Inf(f)) /\ Inf(f) \in Nat
    BY <2>1, BeyondUnits, InfBelow
  <2>3. ~(Inf(f) < g)
    <3>1. SUFFICES ASSUME Inf(f) < g PROVE FALSE
      OBVIOUS
    <3>2. Inf(f) <= g
      BY <2>1, <2>2, <3>1
    <3>3. Units(f, Inf(f)) < Units(f, g)
      BY <2>1, <2>2, <3>1, <3>2, UnitsOrder
    <3>4. Units(f, g) \in Nat /\ Units(f, Inf(f)) \in Nat
      BY <2>1, <2>2, UnitsNext
    <3> QED BY <2>2, <3>3, <3>4
  <2>4. g \in 0 .. Inf(f)
    BY <2>1, <2>2, <2>3
  <2> QED BY <2>1, <2>4
<1>3. IsLen(c, b) /\ (c = 0 => b = 0)
  BY LenExact
<1>4. b \in Nat /\ c < 2^b /\ (c > 0 => b > 0 /\ 2^(b - 1) <= c)
  BY <1>3 DEF IsLen
<1>5. \A q \in Nat, k \in 0 .. 2 * u : q >= L /\ (q = L \/ k >= u) => \E g \in Nat : Units(f, g) = k * 2^q
  BY UnitsOf
<1> HIDE DEF F, L, u, b
<1>6. CASE j + b <= L + F + 1
  <2> DEFINE d == j - L
             k == c * 2^d
  <2>1. d \in Nat /\ L + d = j /\ b + d <= F + 1 /\ b + d \in Nat
    BY <1>1, <1>4, <1>6
  <2>2. 2^d \in Nat \ {0} /\ 2^L \in Nat \ {0} /\ 2^j = 2^L * 2^d
    BY <1>1, <2>1, Pow, PowAdd, ZenonT(60)
  <2>3. k * 2^L = c * 2^j
    <3> HIDE DEF d
    <3> DEFINE x == 2^d
               y == 2^L
    <3>1. x \in Nat /\ y \in Nat
      BY <2>2
    <3> HIDE DEF x, y
    <3>2. (c * x) * y = c * (y * x)
      BY <3>1
    <3> QED BY <2>2, <3>2 DEF x, y
  <2>4. k \in 0 .. 2 * u
    <3>1. 2^(b + d) = 2^b * 2^d /\ 2^(b + d) <= 2^(F + 1) /\ 2^(F + 1) = 2 * u
      <4>1. F + 1 \in Nat
        BY <1>1
      <4> QED BY <1>1, <1>4, <2>1, <4>1, PowAdd, Pow, PowOrder
    <3>2. 2^b \in Nat
      BY <1>4, Pow
    <3>3. c * 2^d <= 2^b * 2^d /\ c * 2^d \in Nat
      <4> HIDE DEF d, k
      <4>1. c \in Nat /\ 2^b \in Nat /\ c <= 2^b /\ 2^d \in Nat \ {0}
        BY <1>4, <2>2, <3>2
      <4> QED BY <4>1, ScaledOrder
    <3>4. k <= 2 * u /\ k \in Nat
      <4>1. 2^b * 2^d \in Nat
        BY <2>2, <3>2
      <4> HIDE DEF d
      <4> QED BY <1>1, <3>1, <3>3, <4>1
    <3> HIDE DEF k
    <3> QED BY <1>1, <3>4
  <2> HIDE DEF k, d
  <2>5. L >= L
    BY <1>1
  <2>6. \E g \in Nat : Units(f, g) = k * 2^L
    BY <1>1, <1>5, <2>4, <2>5
  <2> QED BY <2>3, <2>6
<1>7. CASE ~(j + b <= L + F + 1) /\ c > 0
  <2> DEFINE d == F + 1 - b
             k == c * 2^d
             q == j - d
  <2>1. b <= F + 1 /\ b > 0 /\ 2^(b - 1) <= c
    <3>1. b > 0 /\ 2^(b - 1) <= c
      BY <1>4, <1>7
    <3>2. SUFFICES ASSUME ~(b <= F + 1) PROVE FALSE
      BY <3>1
    <3>3. F + 1 <= b - 1 /\ F + 1 \in Nat /\ b - 1 \in Nat
      BY <1>1, <1>4, <3>2
    <3>4. 2^(F + 1) <= 2^(b - 1) /\ 2^(F + 1) = 2 * u /\ 2^(b - 1) \in Nat
      BY <1>1, <3>3, PowOrder, Pow
    <3> QED BY <1>1, <3>1, <3>4
  <2>2. d \in Nat /\ q \in Nat /\ q >= L /\ d + q = j /\ (b - 1) + d = F /\ b - 1 \in Nat /\ b + d = F + 1
    BY <1>1, <1>4, <1>7, <2>1
  <2> HIDE DEF d, q
  <2>3. 2^d \in Nat \ {0} /\ 2^q \in Nat \ {0} /\ 2^j = 2^d * 2^q
    BY <2>2, Pow, PowAdd
  <2>4. k * 2^q = c * 2^j
    <3> DEFINE x == 2^d
               y == 2^q
    <3>1. x \in Nat /\ y \in Nat
      BY <2>3
    <3> HIDE DEF x, y
    <3>2. (c * x) * y = c * (x * y)
      BY <3>1
    <3> QED BY <2>3, <3>2 DEF x, y
  <2>5. 2^F = 2^(b - 1) * 2^d /\ 2^(F + 1) = 2^b * 2^d /\ 2^(F + 1) = 2 * u /\ 2^b \in Nat /\ 2^(b - 1) \in Nat
    <3>1. 2^F = 2^(b - 1) * 2^d
      BY <2>2, PowAdd
    <3>2. 2^(F + 1) = 2^b * 2^d
      BY <1>4, <2>2, PowAdd
    <3>3. 2^(F + 1) = 2 * u /\ 2^b \in Nat /\ 2^(b - 1) \in Nat
      BY <1>1, <1>4, <2>2, Pow
    <3> QED BY <3>1, <3>2, <3>3
  <2>6. 2^(b - 1) * 2^d <= c * 2^d /\ c * 2^d <= 2^b * 2^d /\ c * 2^d \in Nat
    <3>1. c <= 2^b
      BY <1>4, <2>5
    <3> QED BY <2>1, <2>3, <2>5, <3>1, ScaledOrder
  <2>7. k \in 0 .. 2 * u /\ k >= u
    <3>1. u <= k /\ k <= 2 * u /\ k \in Nat
      BY <1>1, <2>5, <2>6
    <3> HIDE DEF k
    <3> QED BY <1>1, <3>1
  <2> HIDE DEF k
  <2>8. \E g \in Nat : Units(f, g) = k * 2^q
    BY <1>5, <2>2, <2>7
  <2> QED BY <2>4, <2>8
<1>8. CASE c = 0
  <2>1. 0 \in 0 .. 2 * u /\ L >= L /\ 0 * 2^L = 0 /\ c * 2^j = 0
    <3>1. 2^L \in Nat /\ 2^j \in Nat
      BY <1>1, Pow
    <3> QED BY <1>1, <1>8, <3>1
  <2>2. \E g \in Nat : Units(f, g) = 0 * 2^L
    BY <1>1, <1>5, <2>1
  <2> QED BY <2>1, <2>2
<1> QED BY <1>6, <1>7, <1>8

-----------------------------------------------------------------------------
(* Rounding to an integral value                                           *)

Modes == {"ceil", "floor", "trunc", "nearest"}
Upwards(mode, neg) == (mode = "ceil" /\ ~neg) \/ (mode = "floor" /\ neg)
IntegralOf(mode, neg, m) ==
  CASE mode = "ceil" -> IF neg THEN m \div 2^ScaleBits ELSE (m + 2^ScaleBits - 1) \div 2^ScaleBits
    [] mode = "floor" -> IF neg THEN (m + 2^ScaleBits - 1) \div 2^ScaleBits ELSE m \div 2^ScaleBits
    [] mode = "trunc" -> m \div 2^ScaleBits
    [] mode = "nearest" -> HalfEven(m, ScaleBits)

\* n ones are what a magnitude of m units is rounded to.
IsIntegral(mode, neg, m, n) ==
  /\ n \in Nat /\ n * One < m + One /\ m < n * One + One
  /\ mode # "nearest" => IF Upwards(mode, neg) THEN n * One >= m ELSE n * One <= m
  /\ mode = "nearest" => \/ 2 * (n * One) - 2 * m < One /\ 2 * m - 2 * (n * One) < One
                         \/ (2 * (n * One) - 2 * m = One \/ 2 * m - 2 * (n * One) = One) /\ n % 2 = 0

LEMMA IntegralNumber ==
  ASSUME NEW mode \in Modes, NEW neg \in BOOLEAN, NEW m \in Nat
  PROVE  IsIntegral(mode, neg, m, IntegralOf(mode, neg, m))
<1> DEFINE o == One
           down == m \div o
           up == (m + o - 1) \div o
           near == HalfEven(m, ScaleBits)
<1>1. o \in Nat \ {0} /\ o = 2^ScaleBits /\ ScaleBits \in Nat \ {0}
  BY OneFacts, FormatAssumption DEF One
<1>2. /\ mode = "ceil" => IntegralOf(mode, neg, m) = IF neg THEN down ELSE up
      /\ mode = "floor" => IntegralOf(mode, neg, m) = IF neg THEN up ELSE down
      /\ mode = "trunc" => IntegralOf(mode, neg, m) = down
      /\ mode = "nearest" => IntegralOf(mode, neg, m) = near
  BY <1>1 DEF IntegralOf, Modes
<1> HIDE DEF o
<1>3. down \in Nat /\ down * o <= m /\ m < down * o + o /\ down * o \in Nat
  <2>1. m = o * down + (m % o) /\ m % o \in 0 .. o - 1 /\ down \in Int
    <3>1. m \in Int
      OBVIOUS
    <3> QED BY <1>1, <3>1, DivMod
  <2>2. down >= 0
    BY <1>1, UnsignedQuotient
  <2> HIDE DEF down
  <2>3. o * down = down * o /\ down * o \in Nat
    BY <1>1, <2>1, <2>2
  <2> QED BY <1>1, <2>1, <2>2, <2>3
<1>4. up \in Nat /\ up * o >= m /\ up * o < m + o /\ up * o \in Nat
  <2> DEFINE x == m + o - 1
  <2>1. x \in Nat
    BY <1>1
  <2> HIDE DEF x
  <2>2. x = o * up + (x % o) /\ x % o \in 0 .. o - 1 /\ up \in Int
    <3>1. x \in Int /\ up = x \div o
      BY <2>1 DEF x
    <3> HIDE DEF up
    <3> QED BY <1>1, <3>1, DivMod
  <2>3. up >= 0
    BY <1>1, <2>1, UnsignedQuotient DEF x
  <2> HIDE DEF up
  <2>4. o * up = up * o /\ up * o \in Nat
    BY <1>1, <2>2, <2>3
  <2> QED BY <1>1, <2>2, <2>3, <2>4 DEF x
<1>5. /\ near \in Nat /\ near * o \in Nat /\ near * o < m + o /\ m < near * o + o
      /\ \/ 2 * (near * o) - 2 * m < o /\ 2 * m - 2 * (near * o) < o
         \/ (2 * (near * o) - 2 * m = o \/ 2 * m - 2 * (near * o) = o) /\ near % 2 = 0
  <2>1. IsHalfEven(m, o, near)
    BY <1>1, HalfEvenExact
  <2> HIDE DEF near
  <2>2. near \in Nat /\ (2 * near - 1) * o <= 2 * m /\ 2 * m <= (2 * near + 1) * o
        /\ ((2 * near - 1) * o = 2 * m \/ 2 * m = (2 * near + 1) * o => near % 2 = 0)
    BY <2>1 DEF IsHalfEven
  <2>3. near * o \in Nat /\ (2 * near - 1) * o = 2 * (near * o) - o /\ (2 * near + 1) * o = 2 * (near * o) + o
    BY <1>1, <2>2
  <2> DEFINE y == near * o
  <2> HIDE DEF y
  <2>4. /\ y \in Nat /\ 2 * y - o <= 2 * m /\ 2 * m <= 2 * y + o
        /\ (2 * y - o = 2 * m \/ 2 * m = 2 * y + o => near % 2 = 0)
    BY <2>2, <2>3 DEF y
  <2> QED BY <1>1, <2>2, <2>4 DEF y
<1> HIDE DEF down, up, near
<1>6. CASE mode = "nearest"
  BY <1>2, <1>5, <1>6 DEF IsIntegral, Upwards, o
<1>7. CASE mode # "nearest" /\ Upwards(mode, neg)
  <2>1. IntegralOf(mode, neg, m) = up
    BY <1>2, <1>7 DEF Upwards
  <2>2. m < up * o + o
    BY <1>1, <1>4
  <2> QED BY <1>4, <1>7, <2>1, <2>2 DEF IsIntegral, o
<1>8. CASE mode # "nearest" /\ ~Upwards(mode, neg)
  <2>1. IntegralOf(mode, neg, m) = down
    BY <1>2, <1>8 DEF Upwards, Modes
  <2>2. down * o < m + o
    BY <1>1, <1>3
  <2> QED BY <1>3, <1>8, <2>1, <2>2 DEF IsIntegral, o
<1> QED BY <1>6, <1>7, <1>8

\* The integral numbers next to a float are floats, or what comes after the largest.
LEMMA IntegralThere ==
  ASSUME NEW f \in FloatTypes, NEW x \in Unsigneds(Width(f)), ~IsNaN(f, x), ~IsInf(f, x),
         NEW n \in Nat, NEW m, m = Units(f, Magnitude(f, x)), n * One < m + One, m < n * One + One
  PROVE  \E g \in 0 .. Inf(f) : Units(f, g) = n * One
<1> DEFINE o == One
           s == Significand(f, x)
           e == Exponent(f, x)
           u == Unit(f)
           i == Magnitude(f, x)
<1>1. /\ ScaleBits \in Nat /\ o = 2^ScaleBits /\ o \in Nat \ {0} /\ Format[f].least <= ScaleBits
      /\ Format[f].least \in Nat
  BY OneInside, FormatFacts
<1>2. i \in 0 .. Inf(f) /\ i \in Nat /\ Inf(f) \in Nat
  BY PlacedUnits, InfBelow
<1>3. s \in Nat /\ e \in Nat /\ m = s * 2^e /\ m \in Nat
  BY RealUnits
<1>4. u \in Nat \ {0} /\ s < 2 * u
  <2>1. i % u \in 0 .. u - 1 /\ u \in Nat \ {0}
    <3>1. u \in Nat \ {0} /\ i \in Int
      BY <1>2, FormatFacts
    <3> HIDE DEF u, i
    <3> QED BY <3>1, DivMod
  <2>2. s = IF i < u THEN i ELSE u + (i % u)
    BY DEF Significand, Unit
  <2> HIDE DEF s, u, i
  <2> QED BY <1>2, <2>1, <2>2
<1>5. m < Beyond(f) /\ Beyond(f) \in Nat
  <2>1. i < Inf(f)
    <3>1. i # Inf(f)
      BY DEF IsInf
    <3> QED BY <1>2, <3>1
  <2>2. Units(f, i) < Units(f, Inf(f))
    <3>1. i <= Inf(f)
      BY <1>2, <2>1
    <3> QED BY <1>2, <2>1, <3>1, UnitsOrder
  <2> QED BY <2>2, BeyondUnits
<1> HIDE DEF o, s, e, u, i
<1>6. CASE e >= ScaleBits
  <2> DEFINE a == s * 2^(e - ScaleBits)
  <2>1. 2^e = 2^ScaleBits * 2^(e - ScaleBits) /\ 2^(e - ScaleBits) \in Nat
    <3>1. e - ScaleBits \in Nat /\ ScaleBits <= e
      BY <1>1, <1>3, <1>6
    <3> QED BY <1>1, <1>3, <3>1, PowOrder, Pow
  <2>2. a \in Nat /\ m = a * o
    <3> DEFINE y == 2^(e - ScaleBits)
    <3>1. y \in Nat /\ m = s * (o * y)
      BY <1>1, <1>3, <2>1
    <3> HIDE DEF y
    <3>2. s * (o * y) = (s * y) * o /\ s * y \in Nat
      BY <1>1, <1>3, <3>1
    <3> QED BY <3>1, <3>2 DEF y
  <2> HIDE DEF a
  <2>3. n = a
    <3>1. n * o < a * o + o /\ a * o < n * o + o
      BY <2>2 DEF o
    <3>2. (a + 1) * o = a * o + o /\ (n + 1) * o = n * o + o
      BY <1>1, <2>2
    <3>3. n < a + 1 /\ a < n + 1
      <4>1. ASSUME a + 1 <= n PROVE FALSE
        <5>1. (a + 1) * o <= n * o
          BY <1>1, <2>2, <4>1, ScaledOrder
        <5> QED BY <1>1, <2>2, <3>1, <3>2, <5>1
      <4>2. ASSUME n + 1 <= a PROVE FALSE
        <5>1. (n + 1) * o <= a * o
          BY <1>1, <2>2, <4>2, ScaledOrder
        <5> QED BY <1>1, <2>2, <3>1, <3>2, <5>1
      <4> QED BY <2>2, <4>1, <4>2
    <3> QED BY <2>2, <3>3
  <2> QED BY <1>2, <2>2, <2>3 DEF o, i
<1>7. CASE ~(e >= ScaleBits)
  <2>1. 2 * m <= (2 * u - 1) * o
    <3>1. e < ScaleBits /\ e <= ScaleBits
      BY <1>1, <1>3, <1>7
    <3>2. 2 * 2^e <= o /\ 2^e \in Nat
      BY <1>1, <1>3, <3>1, PowOrder, Pow
    <3> DEFINE y == 2^e
    <3> HIDE DEF y
    <3>3. s <= 2 * u - 1 /\ 2 * y <= o /\ y \in Nat /\ m = s * y /\ 2 * u - 1 \in Nat
      BY <1>3, <1>4, <3>2 DEF y
    <3>4. s * (2 * y) <= s * o
      BY <1>1, <1>3, <3>3
    <3>5. s * o <= (2 * u - 1) * o
      BY <1>1, <1>3, <3>3, ScaledOrder
    <3>6. s * (2 * y) = 2 * m /\ s * o \in Nat /\ (2 * u - 1) * o \in Nat
      BY <1>1, <1>3, <3>3
    <3> QED BY <1>3, <3>4, <3>5, <3>6
  <2>2. n <= u
    <3>1. SUFFICES ASSUME u + 1 <= n PROVE FALSE
      BY <1>4
    <3>2. (u + 1) * o <= n * o /\ n * o \in Nat /\ (u + 1) * o \in Nat
      BY <1>1, <1>4, <3>1, ScaledOrder
    <3>3. (u + 1) * o = u * o + o /\ (2 * u - 1) * o = 2 * (u * o) - o /\ u * o \in Nat
      BY <1>1, <1>4
    <3>4. n * o < m + o
      BY DEF o
    <3> QED BY <1>1, <1>3, <2>1, <3>2, <3>3, <3>4
  <2>3. n * o <= Beyond(f)
    <3>1. PICK c \in Nat \ {0} : Beyond(f) = c * o
      BY OneInside DEF o
    <3>2. SUFFICES ASSUME ~(n <= c) PROVE FALSE
      BY <1>1, <3>1, ScaledOrder
    <3>3. (c + 1) * o <= n * o /\ n * o \in Nat /\ (c + 1) * o = c * o + o
      BY <1>1, <3>1, <3>2, ScaledOrder
    <3>4. n * o < m + o
      BY DEF o
    <3> QED BY <1>1, <1>3, <1>5, <3>1, <3>3, <3>4
  <2>4. n < 2 * u
    BY <1>4, <2>2
  <2> QED BY <1>1, <2>3, <2>4, Representable DEF o, u
<1> QED BY <1>6, <1>7

LEMMA SignedReal ==
  ASSUME NEW f \in FloatTypes, NEW neg \in BOOLEAN, NEW g \in 0 .. Inf(f), NEW r, r = Signed(f, neg, g)
  PROVE  /\ r \in Unsigneds(Width(f)) /\ Magnitude(f, r) = g /\ IsNeg(f, r) = neg /\ ~IsNaN(f, r)
         /\ Units(f, g) \in Nat /\ Real(f, r) = (IF neg THEN -Units(f, g) ELSE Units(f, g))
<1>1. g \in 0 .. SignBit(f) - 1 /\ g \in Nat /\ Inf(f) \in Nat
  BY InfBelow
<1>2. r \in Unsigneds(Width(f)) /\ Magnitude(f, r) = g /\ IsNeg(f, r) = neg
  BY <1>1, SignedPattern
<1>3. ~IsNaN(f, r)
  BY <1>1, <1>2 DEF IsNaN
<1> QED BY <1>2, <1>3, RealUnits

\* r is n ones, with a sign.
IsOnes(f, neg, n, r) == \E g \in 0 .. Inf(f) : r = Signed(f, neg, g) /\ Units(f, g) = n * One

LEMMA IntegralOnes ==
  ASSUME NEW f \in FloatTypes, NEW mode \in Modes, NEW x \in Unsigneds(Width(f)), ~IsNaN(f, x), ~IsInf(f, x),
         NEW m, m = Units(f, Magnitude(f, x))
  PROVE  /\ IsOnes(f, IsNeg(f, x), IntegralOf(mode, IsNeg(f, x), m), Integral(f, mode, x))
         /\ IsIntegral(mode, IsNeg(f, x), m, IntegralOf(mode, IsNeg(f, x), m))
         /\ m \in Nat /\ IsNeg(f, x) \in BOOLEAN
<1> DEFINE neg == IsNeg(f, x)
           n == IntegralOf(mode, neg, m)
<1>1. m \in Nat /\ neg \in BOOLEAN /\ Significand(f, x) * 2^Exponent(f, x) = m
  BY RealUnits, Kinds
<1>2. Integral(f, mode, x) = Nearest(f, neg, n, ScaleBits)
  BY <1>1, Zenon DEF Integral, IntegralOf
<1> HIDE DEF neg
<1>3. IsIntegral(mode, neg, m, n)
  BY <1>1, IntegralNumber
<1> HIDE DEF n
<1>4. PICK g \in 0 .. Inf(f) : Units(f, g) = n * One
  BY <1>3, IntegralThere DEF IsIntegral
<1>5. n \in Nat /\ ScaleBits \in Nat /\ n * 2^ScaleBits = Units(f, g)
  BY <1>3, <1>4, OneInside DEF IsIntegral
<1>6. Nearest(f, neg, n, ScaleBits) = Signed(f, neg, g)
  BY <1>5, ExactlyThere
<1> QED BY <1>1, <1>2, <1>3, <1>4, <1>6 DEF IsOnes, neg, n

LEMMA OnesExact ==
  ASSUME NEW f \in FloatTypes, NEW mode \in Modes, NEW x \in Unsigneds(Width(f)), ~IsNaN(f, x), ~IsInf(f, x),
         NEW m, m = Units(f, Magnitude(f, x)),
         NEW n, IsIntegral(mode, IsNeg(f, x), m, n), NEW r, IsOnes(f, IsNeg(f, x), n, r)
  PROVE  r \in Unsigneds(Width(f)) /\ ExactRounding(f, mode, x, r)
<1> DEFINE neg == IsNeg(f, x)
           o == One
           v == Real(f, x)
           w == Real(f, r)
<1>1. neg \in BOOLEAN /\ o \in Nat \ {0} /\ m \in Nat /\ v = (IF neg THEN -m ELSE m)
  BY OneFacts, RealUnits, Kinds
<1>2. PICK g \in 0 .. Inf(f) : r = Signed(f, neg, g) /\ Units(f, g) = n * o
  BY DEF IsOnes
<1>3. r \in Unsigneds(Width(f)) /\ IsNeg(f, r) = neg /\ w = (IF neg THEN -(n * o) ELSE n * o)
  BY <1>1, <1>2, SignedReal
<1>4. /\ n \in Nat /\ n * o < m + o /\ m < n * o + o
      /\ mode # "nearest" => IF Upwards(mode, neg) THEN n * o >= m ELSE n * o <= m
      /\ mode = "nearest" => \/ 2 * (n * o) - 2 * m < o /\ 2 * m - 2 * (n * o) < o
                             \/ (2 * (n * o) - 2 * m = o \/ 2 * m - 2 * (n * o) = o) /\ n % 2 = 0
  BY DEF IsIntegral
<1> HIDE DEF neg, o, v, w
<1> DEFINE k == IF neg THEN -n ELSE n
           y == n * o
<1>5. k \in Int /\ w = k * o /\ y \in Nat
  BY <1>1, <1>3, <1>4
<1>6. w % o = 0 /\ w \div o = k
  <2>1. k * o \in Int /\ k * o = o * k + 0 /\ 0 \in 0 .. o - 1
    BY <1>1, <1>5
  <2> HIDE DEF k
  <2>2. (k * o) \div o = k /\ (k * o) % o = 0
    BY <1>1, <1>5, <2>1, DivUnique, ZenonT(60)
  <2> QED BY <1>5, <2>2
<1>7. n % 2 = 0 => k % 2 = 0
  BY <1>4
<1>8. w = (IF neg THEN -y ELSE y)
  BY <1>3
<1>9. /\ y < m + o /\ m < y + o
      /\ mode # "nearest" => IF Upwards(mode, neg) THEN y >= m ELSE y <= m
      /\ mode = "nearest" => \/ 2 * y - 2 * m < o /\ 2 * m - 2 * y < o
                             \/ (2 * y - 2 * m = o \/ 2 * m - 2 * y = o) /\ n % 2 = 0
  BY <1>4
<1> HIDE DEF k, y
<1>10. /\ mode = "floor" => w <= v /\ v < w + o
       /\ mode = "ceil" => w >= v /\ v > w - o
       /\ mode = "trunc" => Abs(w) <= Abs(v) /\ Abs(v) < Abs(w) + o
       /\ mode = "nearest" => 2 * Abs(w - v) < o \/ (2 * Abs(w - v) = o /\ (w \div o) % 2 = 0)
  <2>1. CASE mode = "floor"
    BY <1>1, <1>5, <1>8, <1>9, <2>1 DEF Upwards
  <2>2. CASE mode = "ceil"
    BY <1>1, <1>5, <1>8, <1>9, <2>2 DEF Upwards
  <2>3. CASE mode = "trunc"
    BY <1>1, <1>5, <1>8, <1>9, <2>3 DEF Upwards, Abs
  <2>4. CASE mode = "nearest"
    <3>1. Abs(w - v) = (IF y < m THEN m - y ELSE y - m)
      BY <1>1, <1>5, <1>8 DEF Abs
    <3>2. 2 * Abs(w - v) < o \/ (2 * Abs(w - v) = o /\ n % 2 = 0)
      BY <1>1, <1>5, <1>9, <2>4, <3>1
    <3> QED BY <1>6, <1>7, <2>4, <3>2
  <2> QED BY <2>1, <2>2, <2>3, <2>4
<1> QED BY <1>3, <1>6, <1>10 DEF ExactRounding, Modes, neg, o, v, w

LEMMA BeyondOrder == Beyond("f32") <= Beyond("f64") /\ Beyond("f64") \in Nat
<1> DEFINE top(f) == Format[f].least + Format[f].fraction + 2^Format[f].exponent - 2
<1>1. "f32" \in FloatTypes /\ "f64" \in FloatTypes
  BY DEF FloatTypes
<1>2. \A f \in FloatTypes : top(f) \in Nat
  <2>1. \A f \in FloatTypes : /\ Format[f].least \in Nat /\ Format[f].fraction \in Nat
                              /\ 2^Format[f].exponent \in Nat /\ 2^Format[f].exponent >= 2
    BY FormatFacts
  <2> QED BY <2>1
<1>3. top("f32") <= top("f64")
  <2>1. \A f \in FloatTypes : Format[f].least \in Nat /\ Format[f].fraction \in Nat /\ 2^Format[f].exponent \in Nat
    BY FormatFacts
  <2>2. Format["f32"].least + Format["f32"].fraction + 2^Format["f32"].exponent
          <= Format["f64"].least + Format["f64"].fraction + 2^Format["f64"].exponent
    BY FormatAssumption
  <2> QED BY <1>1, <2>1, <2>2
<1>4. Beyond("f32") = 2^top("f32") /\ Beyond("f64") = 2^top("f64")
  BY DEF Beyond
<1> HIDE DEF top
<1> QED BY <1>1, <1>2, <1>3, <1>4, PowOrder, BeyondUnits

\* An f32 is the same number as an f64,
LEMMA Widens ==
  ASSUME NEW x \in Unsigneds(Width("f32")), ~IsNaN("f32", x), ~IsInf("f32", x)
  PROVE  LET y == FloatTo("f32", "f64", x)
         IN  /\ y \in Unsigneds(Width("f64")) /\ ~IsNaN("f64", y) /\ ~IsInf("f64", y)
             /\ IsNeg("f64", y) = IsNeg("f32", x) /\ Units("f64", Magnitude("f64", y)) = Units("f32", Magnitude("f32", x))
<1> DEFINE s == Significand("f32", x)
           e == Exponent("f32", x)
           i == Magnitude("f32", x)
           neg == IsNeg("f32", x)
           y == FloatTo("f32", "f64", x)
           a == Unit("f32")
           b == Unit("f64")
<1>1. "f32" \in FloatTypes /\ "f64" \in FloatTypes
  BY DEF FloatTypes
<1>2. i \in 0 .. Inf("f32") /\ i \in Nat /\ Inf("f32") \in Nat /\ neg \in BOOLEAN
  BY <1>1, PlacedUnits, InfBelow, Kinds
<1>3. s \in Nat /\ e \in Nat /\ Units("f32", i) = s * 2^e /\ Units("f32", i) \in Nat
  BY <1>1, RealUnits
<1>4. y = Nearest("f64", neg, s, e)
  BY DEF FloatTo
<1>5. a \in Nat \ {0} /\ b \in Nat \ {0} /\ a <= b
  <2>1. Format["f32"].fraction \in Nat /\ Format["f64"].fraction \in Nat /\ Format["f32"].fraction <= Format["f64"].fraction
    BY <1>1, FormatFacts, FormatAssumption
  <2>2. 2^Format["f32"].fraction <= 2^Format["f64"].fraction
    BY <2>1, PowOrder
  <2> QED BY <1>1, <2>2, FormatFacts DEF Unit
<1>6. s < 2 * b
  <2>1. i % a \in 0 .. a - 1
    <3>1. i \in Int
      BY <1>2
    <3> HIDE DEF i, a
    <3> QED BY <1>5, <3>1, DivMod
  <2>2. s = IF i < a THEN i ELSE a + (i % a)
    BY DEF Significand, Unit
  <2> HIDE DEF s, a, b, i
  <2> QED BY <1>2, <1>5, <2>1, <2>2
<1>7. e >= Format["f64"].least
  <2>1. e = Format["f32"].least + Greatest(i \div a, 1) - 1
    BY DEF Exponent, Unit
  <2>2. Format["f32"].least \in Nat /\ Format["f64"].least \in Nat /\ Format["f32"].least >= Format["f64"].least
    BY <1>1, FormatFacts, FormatAssumption
  <2>3. i \div a \in Int
    <3>1. i \in Int
      BY <1>2
    <3> HIDE DEF i, a
    <3> QED BY <1>5, <3>1, DivMod
  <2> HIDE DEF i, a, e
  <2> QED BY <2>1, <2>2, <2>3 DEF Greatest
<1>8. Units("f32", i) < Beyond("f64")
  <2>1. i < Inf("f32") /\ i <= Inf("f32")
    <3>1. i # Inf("f32")
      BY DEF IsInf
    <3> QED BY <1>2, <3>1
  <2>2. Units("f32", i) < Beyond("f32") /\ Beyond("f32") \in Nat
    BY <1>1, <1>2, <2>1, UnitsOrder, BeyondUnits
  <2>3. Beyond("f32") <= Beyond("f64") /\ Beyond("f64") \in Nat
    BY BeyondOrder
  <2> HIDE DEF i
  <2> QED BY <1>1, <1>2, <1>3, <2>2, <2>3
<1>9. PICK g \in 0 .. Inf("f64") : Units("f64", g) = s * 2^e
  <2>1. s * 2^e <= Beyond("f64")
    <3>1. s * 2^e \in Nat /\ Beyond("f64") \in Nat /\ s * 2^e < Beyond("f64")
      BY <1>1, <1>3, <1>8, BeyondUnits
    <3> QED BY <3>1
  <2> HIDE DEF s, e
  <2> QED BY <1>1, <1>3, <1>6, <1>7, <2>1, Representable DEF b
<1>10. y = Signed("f64", neg, g)
  <2> HIDE DEF s, e, neg
  <2> QED BY <1>1, <1>3, <1>4, <1>9, ExactlyThere
<1>11. y \in Unsigneds(Width("f64")) /\ Magnitude("f64", y) = g /\ IsNeg("f64", y) = neg /\ ~IsNaN("f64", y)
  BY <1>1, <1>2, <1>10, SignedReal
<1>12. ~IsInf("f64", y)
  <2>1. SUFFICES ASSUME IsInf("f64", y) PROVE FALSE
    BY Kinds
  <2>2. g = Inf("f64")
    BY <1>11, <2>1 DEF IsInf
  <2>3. Units("f64", g) = Beyond("f64") /\ Beyond("f64") \in Nat
    BY <1>1, <2>2, BeyondUnits
  <2> QED BY <1>3, <1>8, <1>9, <2>3
<1> QED BY <1>3, <1>9, <1>11, <1>12

\* and an f64 that is an f32 becomes that one.
LEMMA Narrows ==
  ASSUME NEW z \in Unsigneds(Width("f64")), ~IsNaN("f64", z), NEW g \in 0 .. Inf("f32"),
         Units("f64", Magnitude("f64", z)) = Units("f32", g)
  PROVE  FloatTo("f64", "f32", z) = Signed("f32", IsNeg("f64", z), g)
<1>1. "f32" \in FloatTypes /\ "f64" \in FloatTypes
  BY DEF FloatTypes
<1>2. CASE ~IsInf("f64", z)
  <2>1. FloatTo("f64", "f32", z) = Nearest("f32", IsNeg("f64", z), Significand("f64", z), Exponent("f64", z))
    BY <1>2 DEF FloatTo
  <2>2. Significand("f64", z) \in Nat /\ Exponent("f64", z) \in Nat
        /\ Significand("f64", z) * 2^Exponent("f64", z) = Units("f32", g)
    BY <1>1, RealUnits
  <2> QED BY <1>1, <2>1, <2>2, ExactlyThere
<1>3. CASE IsInf("f64", z)
  <2>1. FloatTo("f64", "f32", z) = Signed("f32", IsNeg("f64", z), Inf("f32"))
    BY <1>3 DEF FloatTo
  <2>2. Units("f32", g) = Beyond("f64")
    BY <1>1, <1>3, BeyondUnits DEF IsInf
  <2>3. Beyond("f32") <= Beyond("f64")
    BY BeyondOrder
  <2>4. g = Inf("f32")
    <3>1. Inf("f32") \in Nat /\ g \in Nat /\ g <= Inf("f32")
      BY <1>1, InfBelow
    <3>2. ASSUME g < Inf("f32") PROVE FALSE
      <4>1. Units("f32", g) < Beyond("f32") /\ Units("f32", g) \in Nat /\ Beyond("f32") \in Nat /\ Beyond("f64") \in Nat
        BY <1>1, <3>1, <3>2, UnitsOrder, UnitsNext, BeyondUnits
      <4> QED BY <2>2, <2>3, <4>1
    <3> QED BY <3>1, <3>2
  <2> QED BY <2>1, <2>4
<1> QED BY <1>2, <1>3

LEMMA QuietPattern ==
  ASSUME NEW f \in FloatTypes, NEW x \in Unsigneds(Width(f)), IsNaN(f, x)
  PROVE  /\ Quiet(f, x) \in Unsigneds(Width(f)) /\ IsNaN(f, Quiet(f, x)) /\ ~IsInf(f, Quiet(f, x))
         /\ IsNeg(f, Quiet(f, x)) = IsNeg(f, x)
<1> DEFINE i == Magnitude(f, x)
           k == i - Inf(f)
<1>1. i \in 0 .. SignBit(f) - 1 /\ IsNeg(f, x) \in BOOLEAN /\ x = Signed(f, IsNeg(f, x), i)
  BY PatternSigned
<1>2. Inf(f) + Unit(f) = SignBit(f) /\ Inf(f) \in Nat /\ Unit(f) \in Nat /\ SignBit(f) \in Nat /\ i > Inf(f)
  BY InfBelow, FormatFacts DEF IsNaN
<1> HIDE DEF i
<1>3. k \in 0 .. Unit(f) - 1 /\ Inf(f) + k = i
  BY <1>1, <1>2
<1> HIDE DEF k
<1>4. x = Signed(f, IsNeg(f, x), Inf(f) + k)
  BY <1>1, <1>3
<1> DEFINE y == Signed(f, IsNeg(f, x), Inf(f) + k)
<1>5. Quiet(f, y) \in Unsigneds(Width(f)) /\ IsNaN(f, Quiet(f, y)) /\ ~IsInf(f, Quiet(f, y)) /\ IsNeg(f, Quiet(f, y)) = IsNeg(f, x)
  <2> DEFINE neg == IsNeg(f, x)
  <2>1. neg \in BOOLEAN
    BY <1>1
  <2> HIDE DEF neg
  <2>2. LET r == Quiet(f, Signed(f, neg, Inf(f) + k))
        IN  r \in Unsigneds(Width(f)) /\ IsNaN(f, r) /\ ~IsInf(f, r) /\ IsNeg(f, r) = neg
    BY <1>3, <2>1, QuietExact
  <2> QED BY <2>2 DEF neg
<1> HIDE DEF y
<1>6. x = y
  BY <1>4 DEF y
<1> QED BY <1>5, <1>6

\* What is not finite stays what it is.
KeepsKind(f, x, g, r) ==
  r \in Unsigneds(Width(g)) /\ IsInf(g, r) = IsInf(f, x) /\ IsNaN(g, r) = IsNaN(f, x) /\ IsNeg(g, r) = IsNeg(f, x)

LEMMA FloatToKeeps ==
  ASSUME NEW f \in FloatTypes, NEW g \in FloatTypes, NEW x \in Unsigneds(Width(f)), IsNaN(f, x) \/ IsInf(f, x)
  PROVE  KeepsKind(f, x, g, FloatTo(f, g, x))
<1> DEFINE r == FloatTo(f, g, x)
<1>1. /\ r \in Unsigneds(Width(g)) /\ IsNeg(g, r) = IsNeg(f, x)
      /\ IsNaN(g, r) = IsNaN(f, x) /\ (IsInf(f, x) => IsInf(g, r))
      /\ IsNaN(f, x) => ~IsInf(g, r) /\ ~IsInf(f, x)
  BY FloatToExact
<1>2. IsInf(g, r) = IsInf(f, x)
  BY <1>1, Kinds
<1> QED BY <1>1, <1>2 DEF KeepsKind

LEMMA IntegralKeeps ==
  ASSUME NEW f \in FloatTypes, NEW mode, NEW x \in Unsigneds(Width(f)), IsNaN(f, x) \/ IsInf(f, x)
  PROVE  KeepsKind(f, x, f, Integral(f, mode, x))
<1>1. CASE IsNaN(f, x)
  <2>1. Integral(f, mode, x) = Quiet(f, x)
    BY <1>1 DEF Integral
  <2>2. ~IsInf(f, x)
    <3>1. Magnitude(f, x) \in 0 .. SignBit(f) - 1 /\ Inf(f) \in Nat /\ SignBit(f) \in Nat
      BY PatternSigned, InfBelow
    <3> QED BY <1>1, <3>1 DEF IsNaN, IsInf
  <2> DEFINE r == Quiet(f, x)
  <2>3. r \in Unsigneds(Width(f)) /\ IsNaN(f, r) /\ ~IsInf(f, r) /\ IsNeg(f, r) = IsNeg(f, x)
    BY <1>1, QuietPattern
  <2>4. Integral(f, mode, x) = r
    BY <2>1
  <2> HIDE DEF r
  <2>5. IsInf(f, r) = IsInf(f, x) /\ IsNaN(f, r) = IsNaN(f, x)
    BY <1>1, <2>2, <2>3, Kinds
  <2> QED BY <2>3, <2>4, <2>5 DEF KeepsKind
<1>2. CASE ~IsNaN(f, x) /\ IsInf(f, x)
  BY <1>2 DEF Integral, KeepsKind
<1> QED BY <1>1, <1>2

FloatUnaryOf(t, op, x) == IF t = "f32" THEN evalF32Unary(op, x) ELSE evalF64Unary(op, x)
UnaryIs(t, op, x, r) == r \in Unsigneds(Width(t)) /\ ExactFloatUnary(t, op, x, r)

\* Through f64 or not, an f32 is rounded to the same number of ones.
LEMMA RoundedOnes ==
  ASSUME NEW t \in FloatTypes, NEW op \in Modes, NEW x \in Unsigneds(Width(t)), ~IsNaN(t, x), ~IsInf(t, x)
  PROVE  LET m == Units(t, Magnitude(t, x))
             n == IntegralOf(op, IsNeg(t, x), m)
         IN  IsOnes(t, IsNeg(t, x), n, FloatUnaryOf(t, op, x)) /\ IsIntegral(op, IsNeg(t, x), m, n)
<1> DEFINE r == FloatUnaryOf(t, op, x)
           y == FloatTo("f32", "f64", x)
           z == Integral("f64", op, y)
<1>1. "f32" \in FloatTypes /\ "f64" \in FloatTypes /\ t \in {"f32", "f64"}
  BY DEF FloatTypes
<1>2. t = "f32" => r = FloatTo("f64", "f32", z)
  BY DEF FloatUnaryOf, evalF32Unary, FloatUnary, Modes
<1>3. t = "f64" => r = Integral("f64", op, x)
  BY DEF FloatUnaryOf, evalF64Unary, FloatUnary, Modes
<1> DEFINE m == Units(t, Magnitude(t, x))
           neg == IsNeg(t, x)
           n == IntegralOf(op, neg, m)
<1>4. IsOnes(t, neg, n, r) /\ IsIntegral(op, neg, m, n)
  <2>1. CASE t = "f64"
    <3>1. IsOnes(t, neg, n, Integral(t, op, x)) /\ IsIntegral(op, neg, m, n)
      BY IntegralOnes
    <3> HIDE DEF r, n
    <3> QED BY <1>3, <2>1, <3>1
  <2>2. CASE t = "f32"
    <3>1. /\ y \in Unsigneds(Width("f64")) /\ ~IsNaN("f64", y) /\ ~IsInf("f64", y)
          /\ IsNeg("f64", y) = neg /\ Units("f64", Magnitude("f64", y)) = m
      BY <2>2, Widens
    <3> HIDE DEF y
    <3>2. IsOnes("f64", IsNeg("f64", y), IntegralOf(op, IsNeg("f64", y), m), z)
          /\ IsIntegral(op, IsNeg("f64", y), m, IntegralOf(op, IsNeg("f64", y), m)) /\ m \in Nat
          /\ IsNeg("f64", y) \in BOOLEAN
      <4> HIDE DEF m
      <4>1. m = Units("f64", Magnitude("f64", y))
        BY <3>1
      <4> QED BY <1>1, <3>1, <4>1, IntegralOnes
    <3>3. IsOnes("f64", neg, n, z) /\ IsIntegral(op, neg, m, n) /\ neg \in BOOLEAN
      <4> HIDE DEF m, z
      <4> QED BY <3>1, <3>2
    <3> HIDE DEF z, n, neg
    <3>4. PICK i \in 0 .. Inf("f64") : z = Signed("f64", neg, i) /\ Units("f64", i) = n * One
      BY <3>3 DEF IsOnes
    <3>5. z \in Unsigneds(Width("f64")) /\ Magnitude("f64", z) = i /\ IsNeg("f64", z) = neg /\ ~IsNaN("f64", z)
      BY <1>1, <3>3, <3>4, SignedReal
    <3>6. PICK g \in 0 .. Inf("f32") : Units("f32", g) = n * One
      BY <1>1, <2>2, <3>3, IntegralThere DEF IsIntegral
    <3>7. FloatTo("f64", "f32", z) = Signed("f32", neg, g)
      BY <3>4, <3>5, <3>6, Narrows
    <3> HIDE DEF r
    <3>8. r = Signed("f32", neg, g)
      BY <1>2, <2>2, <3>7
    <3> QED BY <2>2, <3>3, <3>6, <3>8 DEF IsOnes
  <2> QED BY <1>1, <2>1, <2>2
<1> HIDE DEF r, n
<1> QED BY <1>4 DEF r, n

LEMMA RoundedKeeps ==
  ASSUME NEW t \in FloatTypes, NEW op \in Modes, NEW x \in Unsigneds(Width(t)), IsNaN(t, x) \/ IsInf(t, x)
  PROVE  KeepsKind(t, x, t, FloatUnaryOf(t, op, x))
<1> DEFINE r == FloatUnaryOf(t, op, x)
           y == FloatTo("f32", "f64", x)
           z == Integral("f64", op, y)
<1>1. "f32" \in FloatTypes /\ "f64" \in FloatTypes /\ t \in {"f32", "f64"}
  BY DEF FloatTypes
<1>2. t = "f32" => r = FloatTo("f64", "f32", z)
  BY DEF FloatUnaryOf, evalF32Unary, FloatUnary, Modes
<1>3. t = "f64" => r = Integral("f64", op, x)
  BY DEF FloatUnaryOf, evalF64Unary, FloatUnary, Modes
<1>4. KeepsKind(t, x, t, r)
  <2>1. CASE t = "f64"
    BY <1>1, <1>3, <2>1, IntegralKeeps
  <2>2. CASE t = "f32"
    <3>1. KeepsKind("f32", x, "f64", y)
      BY <1>1, <2>2, FloatToKeeps
    <3> HIDE DEF y
    <3>2. y \in Unsigneds(Width("f64")) /\ (IsNaN("f64", y) \/ IsInf("f64", y))
      BY <2>2, <3>1 DEF KeepsKind
    <3>3. KeepsKind("f64", y, "f64", z)
      BY <1>1, <3>2, IntegralKeeps
    <3> HIDE DEF z
    <3>4. z \in Unsigneds(Width("f64")) /\ (IsNaN("f64", z) \/ IsInf("f64", z))
      BY <3>2, <3>3 DEF KeepsKind
    <3>5. KeepsKind("f64", z, "f32", FloatTo("f64", "f32", z))
      BY <1>1, <3>4, FloatToKeeps
    <3> HIDE DEF r
    <3>6. KeepsKind("f32", x, "f32", FloatTo("f64", "f32", z))
      BY <3>1, <3>3, <3>5 DEF KeepsKind
    <3> QED BY <1>2, <2>2, <3>6
  <2> QED BY <1>1, <2>1, <2>2
<1> QED BY <1>4

LEMMA RoundedOp ==
  ASSUME NEW t \in FloatTypes, NEW op \in Modes, NEW x \in Unsigneds(Width(t))
  PROVE  UnaryIs(t, op, x, FloatUnaryOf(t, op, x))
<1> DEFINE r == FloatUnaryOf(t, op, x)
<1>1. CASE ~IsNaN(t, x) /\ ~IsInf(t, x)
  <2> DEFINE m == Units(t, Magnitude(t, x))
             neg == IsNeg(t, x)
             n == IntegralOf(op, neg, m)
  <2>1. IsOnes(t, neg, n, r) /\ IsIntegral(op, neg, m, n)
    BY <1>1, RoundedOnes
  <2> HIDE DEF r, n
  <2>2. r \in Unsigneds(Width(t)) /\ ExactRounding(t, op, x, r)
    BY <1>1, <2>1, OnesExact
  <2> QED BY <1>1, <2>2 DEF UnaryIs, ExactFloatUnary, Finite, Modes, r
<1>2. CASE IsNaN(t, x) \/ IsInf(t, x)
  <2>1. KeepsKind(t, x, t, r)
    BY <1>2, RoundedKeeps
  <2> HIDE DEF r
  <2>2. ~Finite(t, x)
    BY <1>2 DEF Finite
  <2> QED BY <2>1, <2>2 DEF UnaryIs, ExactFloatUnary, KeepsKind, Modes, r
<1> QED BY <1>1, <1>2

-----------------------------------------------------------------------------
(* Roots                                                                   *)

LEMMA SquareOrder ==
  ASSUME NEW a \in Nat, NEW b \in Nat, a <= b
  PROVE  a * a <= b * b /\ a * a \in Nat /\ b * b \in Nat
<1>1. a * a <= a * b
  OBVIOUS
<1>2. a * b <= b * b
  OBVIOUS
<1> QED BY <1>1, <1>2

LEMMA Square ==
  ASSUME NEW a \in Nat, NEW b \in Nat
  PROVE  (a * b) * (a * b) = (a * a) * (b * b) /\ (2 * a) * (2 * a) = 4 * (a * a) /\ a * a \in Nat
OBVIOUS

LEMMA Cancel ==
  ASSUME NEW a \in Nat, NEW b \in Nat, NEW p \in Nat \ {0}, a * p <= b * p
  PROVE  a <= b
<1> SUFFICES ASSUME b < a PROVE FALSE
  OBVIOUS
<1>1. b * p < a * p /\ a * p \in Nat /\ b * p \in Nat
  BY ScaledOrder
<1> QED BY <1>1

IsFloorRoot(n, r) == r * r <= n /\ n < (r + 1) * (r + 1)

LEMMA RootExists ==
  ASSUME NEW n \in Nat, NEW top \in Nat, n < (top + 1) * (top + 1)
  PROVE  \E r \in 0 .. top : IsFloorRoot(n, r)
<1> DEFINE T == {a \in Nat : n < (a + 1) * (a + 1)}
<1>1. top \in T /\ T \subseteq Nat
  OBVIOUS
<1>2. PICK r \in T : \A a \in T : r <= a
  BY <1>1, SmallestOf
<1>3. r \in 0 .. top /\ n < (r + 1) * (r + 1)
  BY <1>1, <1>2
<1>4. r * r <= n
  <2>1. CASE r = 0
    BY <2>1
  <2>2. CASE r # 0
    <3>1. r - 1 \in Nat /\ r \in Nat /\ ~(r <= r - 1) /\ (r - 1) + 1 = r
      BY <1>3, <2>2
    <3>2. r - 1 \notin T
      BY <1>2, <3>1
    <3>3. ~(n < r * r)
      BY <3>1, <3>2
    <3>4. r * r \in Nat
      BY <3>1
    <3> QED BY <3>3, <3>4
  <2> QED BY <2>1, <2>2
<1> QED BY <1>3, <1>4 DEF IsFloorRoot

\* b is coarse beside t, or at most a of it; and on which side of it a root is.
Coarse(b, a, t) == b <= a * t \/ \E c \in Nat : b = c * (2 * t)
SideShows(n, m, t, b) ==
  /\ b <= m * t => b * b <= 4 * (n * (t * t))
  /\ b >= m * t => b * b >= 4 * (n * (t * t))

\* Whether half of b is under or over a root shows in the root with its last bit, when b has no finer bits.
LEMMA RootSide ==
  ASSUME NEW n \in Nat, NEW r \in Nat, IsFloorRoot(n, r), NEW m, m = Sticky(r, r * r # n),
         NEW t \in Nat \ {0}, NEW b \in Nat, NEW a \in Nat, a <= 2 * r,
         Coarse(b, a, t)
  PROVE  SideShows(n, m, t, b)
<1> DEFINE q == r * r
           w == (r + 1) * (r + 1)
           y == (2 * r) * t
           z == (2 * (r + 1)) * t
           p == t * t
<1>1. q \in Nat /\ w \in Nat /\ q <= n /\ n < w /\ p \in Nat \ {0}
  BY DEF IsFloorRoot
<1>2. y \in Nat /\ z \in Nat /\ y * y = 4 * (q * p) /\ z * z = 4 * (w * p) /\ z = y + 2 * t
  <2>1. (2 * r) \in Nat /\ (2 * (r + 1)) \in Nat /\ r + 1 \in Nat
    OBVIOUS
  <2>2. y * y = ((2 * r) * (2 * r)) * p /\ (2 * r) * (2 * r) = 4 * q
    BY <2>1, Square
  <2>3. z * z = ((2 * (r + 1)) * (2 * (r + 1))) * p /\ (2 * (r + 1)) * (2 * (r + 1)) = 4 * w
    BY <2>1, Square
  <2>4. z = y + 2 * t /\ y \in Nat /\ z \in Nat
    OBVIOUS
  <2> HIDE DEF q, w, y, z, p
  <2>5. (4 * q) * p = 4 * (q * p) /\ (4 * w) * p = 4 * (w * p)
    BY <1>1
  <2> QED BY <2>2, <2>3, <2>4, <2>5
<1>3. m = IF q # n THEN 2 * r + 1 ELSE 2 * r
  BY DEF Sticky, Bool
<1>4. m \in Nat /\ (q = n => m * t = y) /\ (q # n => m * t = y + t)
  <2>1. (2 * r + 1) * t = y + t
    OBVIOUS
  <2> HIDE DEF q, y
  <2>2. CASE q = n
    BY <1>3, <2>2 DEF y
  <2>3. CASE q # n
    BY <1>3, <2>1, <2>3
  <2> QED BY <2>2, <2>3
<1>5. a * t <= y /\ a * t \in Nat
  BY ScaledOrder
<1> HIDE DEF q, w, p
<1>6. q * p <= n * p /\ n * p <= w * p /\ q * p \in Nat /\ n * p \in Nat /\ w * p \in Nat
  BY <1>1, ScaledOrder
<1>7. b <= y \/ b >= z
  <2>1. CASE b <= a * t
    <3> HIDE DEF y, z
    <3> QED BY <1>2, <1>5, <2>1
  <2>2. CASE \E c \in Nat : b = c * (2 * t)
    <3>1. PICK c \in Nat : b = c * (2 * t)
      BY <2>2
    <3>2. 2 * t \in Nat \ {0} /\ r * (2 * t) = y /\ (r + 1) * (2 * t) = z
      OBVIOUS
    <3>3. CASE c <= r
      BY <3>1, <3>2, <3>3, ScaledOrder
    <3>4. CASE r + 1 <= c
      <4>1. (r + 1) * (2 * t) <= c * (2 * t)
        BY <3>2, <3>4, ScaledOrder
      <4> HIDE DEF z
      <4> QED BY <3>1, <3>2, <4>1
    <3> QED BY <3>3, <3>4
  <2> QED BY <2>1, <2>2 DEF Coarse
<1> HIDE DEF y, z
<1>8. b <= y => b * b <= 4 * (n * p)
  <2> HAVE b <= y
  <2>1. b * b <= y * y /\ b * b \in Nat
    BY <1>2, SquareOrder
  <2> QED BY <1>2, <1>6, <2>1
<1>9. b >= z => b * b >= 4 * (n * p)
  <2> HAVE b >= z
  <2>1. z * z <= b * b /\ b * b \in Nat
    BY <1>2, SquareOrder
  <2> QED BY <1>2, <1>6, <2>1
<1>10. ASSUME b <= m * t PROVE b * b <= 4 * (n * p)
  <2>1. b <= y
    BY <1>2, <1>4, <1>7, <1>10
  <2> QED BY <1>8, <2>1
<1>11. ASSUME b >= m * t PROVE b * b >= 4 * (n * p)
  <2>1. CASE q # n
    <3>1. b >= z
      BY <1>2, <1>4, <1>7, <1>11, <2>1
    <3> QED BY <1>9, <3>1
  <2>2. CASE q = n
    <3>1. y <= b
      BY <1>2, <1>4, <1>11, <2>2
    <3>2. y * y <= b * b /\ b * b \in Nat
      BY <1>2, <3>1, SquareOrder
    <3> QED BY <1>2, <1>6, <2>2, <3>2
  <2> QED BY <2>1, <2>2
<1> QED BY <1>10, <1>11 DEF SideShows, p

\* The middle of two floats has two bits more than the format.
LEMMA BetweenBits ==
  ASSUME NEW f \in FloatTypes, NEW g \in Nat, NEW h \in Nat, NEW t \in Nat
  PROVE  /\ Between(f, g) \in Nat
         /\ Coarse(Between(f, g) * 2^h, 4 * Unit(f), 2^t)
<1> DEFINE u == Unit(f)
           e == Format[f].least + Greatest(g \div u, 1) - 1
           s == IF g < u THEN g ELSE u + (g % u)
           b == 2 * s + 1
<1>1. u \in Nat \ {0} /\ Format[f].least \in Nat
  BY FormatFacts
<1>2. e \in Nat /\ Grain(f, g) = 2^e
  <2>1. g \div u \in Int
    <3> HIDE DEF u
    <3> QED BY <1>1, DivMod
  <2>2. Grain(f, g) = 2^e
    BY DEF Grain
  <2> HIDE DEF u
  <2> QED BY <1>1, <2>1, <2>2 DEF Greatest
<1>3. s \in Nat /\ s < 2 * u /\ Units(f, g) = s * 2^e
  <2>1. g % u \in 0 .. u - 1
    <3> HIDE DEF u
    <3> QED BY <1>1, DivMod
  <2>2. Units(f, g) = s * 2^e
    BY <1>2 DEF Units
  <2> HIDE DEF u, e
  <2> QED BY <1>1, <2>1, <2>2
<1> HIDE DEF u, e, s
<1>4. b \in Nat /\ b <= 4 * u
  BY <1>1, <1>3
<1>5. Between(f, g) = b * 2^e /\ 2^e \in Nat \ {0} /\ Between(f, g) \in Nat
  <2> DEFINE y == 2^e
  <2>1. y \in Nat \ {0}
    BY <1>2, Pow
  <2>2. Units(f, g) = s * y /\ Units(f, g + 1) = Units(f, g) + y
    BY <1>2, <1>3, UnitsNext
  <2> HIDE DEF y
  <2>3. s * y + (s * y + y) = (2 * s + 1) * y /\ (2 * s + 1) * y \in Nat
    BY <1>3, <2>1
  <2> QED BY <2>1, <2>2, <2>3 DEF Between, y
<1> HIDE DEF b
<1> DEFINE x == 2^(e + h)
<1>6. e + h \in Nat /\ x \in Nat \ {0} /\ 2^t \in Nat \ {0} /\ Between(f, g) * 2^h = b * x
  <2>1. e + h \in Nat
    BY <1>2
  <2>2. 2^(e + h) = 2^e * 2^h /\ 2^h \in Nat /\ 2^(e + h) \in Nat \ {0} /\ 2^t \in Nat \ {0}
    BY <1>2, <2>1, PowAdd, Pow
  <2> DEFINE y == 2^e
             z == 2^h
  <2> HIDE DEF y, z
  <2>3. y \in Nat /\ z \in Nat
    BY <1>5, <2>2 DEF y, z
  <2>4. (b * y) * z = b * (y * z)
    BY <1>4, <2>3
  <2> QED BY <1>5, <2>1, <2>2, <2>4 DEF y, z
<1>7. CASE e + h <= t
  <2>1. x <= 2^t
    BY <1>6, <1>7, PowOrder
  <2> DEFINE y == 2^t
  <2>2. x <= y /\ y \in Nat
    BY <1>6, <2>1
  <2> HIDE DEF x, y
  <2>3. b * x <= b * y
    BY <1>4, <1>6, <2>2
  <2>4. b * y <= (4 * u) * y
    BY <1>1, <1>4, <2>2
  <2>5. b * x \in Nat /\ b * y \in Nat /\ (4 * u) * y \in Nat
    BY <1>1, <1>4, <1>6, <2>2
  <2> QED BY <1>5, <1>6, <2>3, <2>4, <2>5 DEF Coarse, y, u
<1>8. CASE ~(e + h <= t)
  <2> DEFINE d == (e + h) - (t + 1)
  <2>1. t + 1 <= e + h /\ t + 1 \in Nat
    BY <1>6, <1>8
  <2>2. d \in Nat
    BY <1>6, <2>1
  <2>3. x = 2^(t + 1) * 2^d /\ 2^(t + 1) = 2 * 2^t
    BY <1>6, <2>1, PowOrder, Pow
  <2>4. 2^d \in Nat
    BY <2>2, Pow
  <2> DEFINE y == 2 * 2^t
             z == 2^d
  <2>5. x = y * z /\ y \in Nat /\ z \in Nat
    BY <1>6, <2>3, <2>4
  <2> HIDE DEF x, y, z
  <2>6. b * x = (b * z) * y /\ b * z \in Nat
    BY <1>4, <2>5
  <2> QED BY <1>5, <1>6, <2>6 DEF Coarse, y
<1> QED BY <1>7, <1>8

\* n is in 2^(2c + k) = 2^d with a root of more bits than the format.
HasRoot(f, d, k, n, c) ==
  /\ k \in Nat /\ n \in Nat /\ c \in Int /\ d - k = 2 * c
  /\ \E r \in 0 .. 2^(Format[f].fraction + 2) : IsFloorRoot(n, r)
  /\ \A r \in Nat : IsFloorRoot(n, r) => 4 * Unit(f) <= 2 * r

\* A significand made long enough has a root of more bits than the format, and what is left of its exponent is even.
LEMMA RootBits ==
  ASSUME NEW f \in FloatTypes, NEW s \in Nat, s > 0, s < 2 * Unit(f), NEW d \in Int
  PROVE  LET F == Format[f].fraction
             long == 2 * F + 4 - BitLen(s)
             k == IF (d - long) % 2 = 0 THEN long ELSE long - 1
             n == s * 2^k
         IN  HasRoot(f, d, k, n, (d - k) \div 2)
<1> DEFINE F == Format[f].fraction
           u == Unit(f)
           b == BitLen(s)
           long == 2 * F + 4 - b
           k == IF (d - long) % 2 = 0 THEN long ELSE long - 1
           n == s * 2^k
<1>1. F \in Nat \ {0} /\ u \in Nat \ {0} /\ u = 2^F
  BY FormatFacts DEF Unit
<1>2. b \in Nat /\ s < 2^b /\ b > 0 /\ 2^(b - 1) <= s
  BY LenExact DEF IsLen
<1> HIDE DEF F, u, b
<1>3. b <= F + 1
  <2>1. SUFFICES ASSUME ~(b <= F + 1) PROVE FALSE
    OBVIOUS
  <2>2. F + 1 <= b - 1 /\ F + 1 \in Nat /\ b - 1 \in Nat
    BY <1>1, <1>2, <2>1
  <2>3. 2^(F + 1) <= 2^(b - 1) /\ 2^(F + 1) = 2 * u /\ 2^(b - 1) \in Nat
    BY <1>1, <2>2, PowOrder, Pow
  <2> QED BY <1>1, <1>2, <2>3 DEF u
<1>4. long \in Nat /\ long >= 3 /\ long + b = 2 * F + 4
  BY <1>1, <1>2, <1>3
<1> HIDE DEF long
<1>5. k \in Nat /\ (k = long \/ k = long - 1) /\ (d - k) % 2 = 0
  <2>1. CASE (d - long) % 2 = 0
    BY <1>4, <2>1
  <2>2. CASE (d - long) % 2 # 0
    <3>1. k = long - 1
      BY <2>2
    <3>2. (d - (long - 1)) % 2 = 0
      BY <1>4, <2>2
    <3> QED BY <1>4, <3>1, <3>2
  <2> QED BY <2>1, <2>2
<1> HIDE DEF k
<1>6. (d - k) \div 2 \in Int /\ d - k = 2 * ((d - k) \div 2)
  BY <1>5
<1>7. n \in Nat /\ 2^(2 * F + 2) <= n /\ n < 2^(2 * F + 4)
  <2> DEFINE y == 2^k
  <2>1. y \in Nat \ {0} /\ 2^b \in Nat /\ 2^(b - 1) \in Nat /\ b - 1 \in Nat
    BY <1>2, <1>5, Pow
  <2>2. 2^((b - 1) + k) = 2^(b - 1) * y /\ 2^(b + k) = 2^b * y
    BY <1>2, <1>5, <2>1, PowAdd
  <2>3. 2 * F + 2 <= (b - 1) + k /\ b + k <= 2 * F + 4 /\ (b - 1) + k \in Nat /\ b + k \in Nat
        /\ 2 * F + 2 \in Nat /\ 2 * F + 4 \in Nat
    BY <1>1, <1>2, <1>4, <1>5
  <2>4. 2^(2 * F + 2) <= 2^((b - 1) + k) /\ 2^(b + k) <= 2^(2 * F + 4)
    BY <2>3, PowOrder
  <2>5. /\ 2^(2 * F + 2) \in Nat /\ 2^(2 * F + 4) \in Nat
        /\ 2^((b - 1) + k) \in Nat /\ 2^(b + k) \in Nat
    BY <2>3, Pow
  <2> HIDE DEF y
  <2>6. 2^(b - 1) * y <= s * y /\ s * y < 2^b * y /\ s * y \in Nat
    BY <1>2, <2>1, ScaledOrder
  <2>7. n = s * y
    BY DEF y
  <2> HIDE DEF n
  <2> QED BY <2>2, <2>4, <2>5, <2>6, <2>7
<1> HIDE DEF n
<1> DEFINE lo == 2^(F + 1)
           hi == 2^(F + 2)
<1>8. lo \in Nat \ {0} /\ hi \in Nat \ {0} /\ 2^(2 * F + 2) = lo * lo /\ 2^(2 * F + 4) = hi * hi /\ lo = 2 * u
  <2>1. F + 1 \in Nat /\ F + 2 \in Nat /\ 2 * F + 2 = (F + 1) + (F + 1) /\ 2 * F + 4 = (F + 2) + (F + 2)
    BY <1>1
  <2>2. 2^((F + 1) + (F + 1)) = lo * lo /\ 2^((F + 2) + (F + 2)) = hi * hi
    BY <2>1, PowAdd
  <2>3. lo \in Nat \ {0} /\ hi \in Nat \ {0} /\ lo = 2 * u
    BY <1>1, <2>1, Pow
  <2>4. 2^(2 * F + 2) = lo * lo /\ 2^(2 * F + 4) = hi * hi
    BY <2>1, <2>2
  <2> QED BY <2>3, <2>4
<1>9. \E r \in 0 .. 2^(F + 2) : IsFloorRoot(n, r)
  <2> HIDE DEF hi
  <2>1. hi * hi <= (hi + 1) * (hi + 1) /\ hi * hi \in Nat /\ (hi + 1) * (hi + 1) \in Nat
    BY <1>8, SquareOrder
  <2>2. n < (hi + 1) * (hi + 1)
    BY <1>7, <1>8, <2>1
  <2> QED BY <1>7, <1>8, <2>2, RootExists DEF hi
<1>10. \A r \in Nat : IsFloorRoot(n, r) => 4 * u <= 2 * r
  <2> TAKE r \in Nat
  <2> HAVE IsFloorRoot(n, r)
  <2> HIDE DEF lo
  <2>1. SUFFICES ASSUME r + 1 <= lo PROVE FALSE
    BY <1>1, <1>8
  <2>2. (r + 1) * (r + 1) <= lo * lo /\ (r + 1) * (r + 1) \in Nat /\ lo * lo \in Nat
    BY <1>8, <2>1, SquareOrder
  <2>3. n < (r + 1) * (r + 1) /\ lo * lo <= n
    BY <1>7, <1>8 DEF IsFloorRoot
  <2> QED BY <1>7, <2>2, <2>3
<1>11. HasRoot(f, d, k, n, (d - k) \div 2)
  BY <1>5, <1>6, <1>7, <1>9, <1>10 DEF HasRoot, F, u
<1> QED BY <1>11 DEF n, k, long, b, F

\* What m and q are rounded to is the pattern g, and the root of w is no further than its neighbours' middles.
RootAt(f, w, m, q, g) ==
  /\ Nearest(f, FALSE, m, q) = Signed(f, FALSE, g)
  /\ g < Inf(f) => Between(f, g) * Between(f, g) >= 4 * w
  /\ g > 0 => Between(f, g - 1) * Between(f, g - 1) <= 4 * w

\* What is rounded is the root, whatever is between the two.
LEMMA RootRounds ==
  ASSUME NEW f \in FloatTypes, NEW s \in Nat, NEW e \in Nat, NEW k \in Nat, NEW c \in Int, (e - ScaleBits) - k = 2 * c,
         NEW r \in Nat, IsFloorRoot(s * 2^k, r), 4 * Unit(f) <= 2 * r,
         NEW m, m = Sticky(r, r * r # s * 2^k)
  PROVE  \E g \in 0 .. Inf(f) : RootAt(f, (s * 2^e) * One, m, c + ScaleBits - 1, g)
<1> DEFINE v == s * 2^e
           n == s * 2^k
           h == IF c + ScaleBits >= 1 THEN 0 ELSE 1 - (c + ScaleBits)
           j == c + ScaleBits + h
           i == c + ScaleBits - 1
           t == 2^j
           p == 2^h
<1>1. ScaleBits \in Nat /\ One = 2^ScaleBits /\ One \in Nat \ {0}
  BY OneInside
<1>2. h \in Nat /\ j \in Nat /\ j >= 1 /\ i \in Int /\ i + h = j - 1 /\ i + h >= 0 /\ j - 1 \in Nat
      /\ k + (j + j) = (e + ScaleBits) + (h + h)
  BY <1>1
<1>3. t \in Nat \ {0} /\ p \in Nat \ {0} /\ t = 2 * 2^(j - 1) /\ 2^(j - 1) \in Nat \ {0} /\ n \in Nat /\ v \in Nat
  <2> HIDE DEF h, j, i
  <2>1. t \in Nat \ {0} /\ p \in Nat \ {0} /\ 2^((j - 1) + 1) = 2 * 2^(j - 1) /\ 2^(j - 1) \in Nat \ {0}
        /\ 2^k \in Nat /\ 2^e \in Nat /\ (j - 1) + 1 = j
    BY <1>2, Pow
  <2>2. n \in Nat /\ v \in Nat
    <3> DEFINE x == 2^k
               y == 2^e
    <3>1. x \in Nat /\ y \in Nat
      BY <2>1
    <3> HIDE DEF x, y
    <3> QED BY <3>1 DEF x, y
  <2> QED BY <2>1, <2>2
<1>4. n * (t * t) = (v * One) * (p * p)
  <2> HIDE DEF h, j
  <2>1. t * t = 2^(j + j) /\ p * p = 2^(h + h) /\ j + j \in Nat /\ h + h \in Nat /\ e + ScaleBits \in Nat
    BY <1>1, <1>2, PowAdd, SMTT(60)
  <2> DEFINE x == 2^k
             y == 2^e
             a == 2^(j + j)
             b == 2^(h + h)
             o == 2^ScaleBits
  <2>2. x * a = 2^(k + (j + j))
    BY <2>1, PowAdd
  <2>3. (y * o) * b = 2^((e + ScaleBits) + (h + h))
    <3>1. 2^(e + ScaleBits) = y * o
      BY <1>1, PowAdd
    <3>2. 2^((e + ScaleBits) + (h + h)) = 2^(e + ScaleBits) * b
      BY <2>1, PowAdd
    <3> QED BY <3>1, <3>2
  <2>4. x \in Nat /\ y \in Nat /\ a \in Nat /\ b \in Nat /\ o \in Nat
    BY <1>1, <2>1, Pow
  <2>5. x * a = (y * o) * b
    BY <1>2, <2>2, <2>3
  <2>6. n = s * x /\ v = s * y /\ One = o /\ t * t = a /\ p * p = b
    BY <1>1, <2>1
  <2> HIDE DEF x, y, a, b, o, n, v, t, p
  <2>7. (s * x) * a = s * (x * a) /\ ((s * y) * o) * b = s * ((y * o) * b)
    BY <2>4
  <2> QED BY <2>5, <2>6, <2>7
<1>5. m \in Nat
  BY DEF Sticky, Bool
<1>6. PICK g : Nearest(f, FALSE, m, i) = Signed(f, FALSE, g) /\ Rounds(f, g, m * 2^(i + h), 2^h)
  <2> HIDE DEF h, i
  <2> QED BY <1>2, <1>5, NearestRounds
<1> DEFINE w == m * 2^(j - 1)
<1>7. Rounds(f, g, w, p)
  <2> HIDE DEF h, i, j
  <2> QED BY <1>2, <1>6
<1>8. w \in Nat /\ 2 * w = m * t
  <2> DEFINE y == 2^(j - 1)
  <2>1. y \in Nat /\ t = 2 * y /\ w = m * y
    BY <1>3
  <2> HIDE DEF y, t, w
  <2> QED BY <1>5, <2>1
<1>9. g \in 0 .. Inf(f) /\ g \in Nat /\ (g < Inf(f) => m * t <= Between(f, g) * p) /\ (g > 0 => m * t >= Between(f, g - 1) * p)
  <2>1. g \in 0 .. Inf(f) /\ Inf(f) \in Nat
    BY <1>7, InfBelow DEF Rounds
  <2> QED BY <1>7, <1>8, <2>1 DEF Rounds, RoundsUp, RoundsDown
<1>10. \A q \in Nat : /\ Between(f, q) \in Nat
                      /\ Coarse(Between(f, q) * p, 4 * Unit(f), t)
  <2> TAKE q \in Nat
  <2> HIDE DEF h, j
  <2>1. j \in Nat /\ h \in Nat
    BY <1>2
  <2> QED BY <2>1, BetweenBits
<1> HIDE DEF n, h, j, i, t, p, w
<1>11. \A q \in Nat : /\ Between(f, q) * p <= m * t => Between(f, q) * Between(f, q) <= 4 * (v * One)
                      /\ Between(f, q) * p >= m * t => Between(f, q) * Between(f, q) >= 4 * (v * One)
  <2> TAKE q \in Nat
  <2> DEFINE a == Between(f, q)
             b == a * p
             z == 4 * Unit(f)
             y == v * One
  <2>1. a \in Nat /\ b \in Nat /\ z \in Nat /\ y \in Nat
    BY <1>1, <1>3, <1>10, FormatFacts
  <2>2. Coarse(b, z, t)
    BY <1>10
  <2>3. z <= 2 * r /\ IsFloorRoot(n, r) /\ m = Sticky(r, r * r # n)
    BY DEF n
  <2> HIDE DEF a, b, z, y
  <2>4. SideShows(n, m, t, b)
    BY <1>3, <2>1, <2>2, <2>3, RootSide
  <2>5. b * b = (a * a) * (p * p) /\ 4 * (y * (p * p)) = (4 * y) * (p * p) /\ p * p \in Nat \ {0} /\ a * a \in Nat /\ 4 * y \in Nat
    <3>1. b = a * p
      BY DEF b
    <3>2. b * b = (a * a) * (p * p) /\ p * p \in Nat \ {0} /\ a * a \in Nat
      BY <1>3, <2>1, <3>1, Square
    <3>3. 4 * (y * (p * p)) = (4 * y) * (p * p)
      <4> DEFINE x == p * p
      <4>1. x \in Nat
        BY <3>2
      <4> HIDE DEF x
      <4>2. 4 * (y * x) = (4 * y) * x
        BY <2>1, <4>1
      <4> QED BY <4>2 DEF x
    <3> QED BY <2>1, <3>2, <3>3
  <2>6. n * (t * t) = y * (p * p)
    BY <1>4 DEF y
  <2> DEFINE x == p * p
             d == a * a
             l == 4 * y
  <2>7. x \in Nat \ {0} /\ d \in Nat /\ l \in Nat /\ (b <= m * t => d * x <= l * x) /\ (b >= m * t => l * x <= d * x)
    BY <2>4, <2>5, <2>6 DEF SideShows
  <2> HIDE DEF x, d, l
  <2>8. (b <= m * t => d <= l) /\ (b >= m * t => l <= d)
    BY <2>7, Cancel
  <2> QED BY <2>8 DEF b, a, d, l, y
<1> HIDE DEF v
<1>12. g < Inf(f) => Between(f, g) * Between(f, g) >= 4 * (v * One)
  BY <1>9, <1>11
<1>13. g > 0 => Between(f, g - 1) * Between(f, g - 1) <= 4 * (v * One)
  <2> HAVE g > 0
  <2>1. g - 1 \in Nat
    BY <1>9
  <2> QED BY <1>9, <1>11, <2>1
<1>14. RootAt(f, v * One, m, i, g)
  BY <1>6, <1>12, <1>13 DEF RootAt
<1> QED BY <1>9, <1>14 DEF v, i

LEMMA CanonicalExact ==
  ASSUME NEW f \in FloatTypes
  PROVE  CanonicalNaN(f) \in Unsigneds(Width(f)) /\ IsNaN(f, CanonicalNaN(f)) /\ ~IsInf(f, CanonicalNaN(f))
         /\ ~IsNeg(f, CanonicalNaN(f))
<1> DEFINE q == 2^(Format[f].fraction - 1)
           c == Inf(f) + q
<1>1. q \in Nat \ {0} /\ Unit(f) = 2 * q /\ Inf(f) \in Nat /\ SignBit(f) \in Nat \ {0} /\ Inf(f) + Unit(f) = SignBit(f)
      /\ 2^Width(f) = 2 * SignBit(f)
  BY FormatFacts, InfBelow
<1>2. CanonicalNaN(f) = c
  BY DEF CanonicalNaN
<1> HIDE DEF q
<1>3. c \in 0 .. SignBit(f) - 1 /\ c > Inf(f) /\ c \in 0 .. 2 * SignBit(f) - 1 /\ ~(c >= SignBit(f))
  BY <1>1
<1> HIDE DEF c
<1>4. Magnitude(f, c) = c
  BY <1>1, <1>3, SmallMod DEF Magnitude
<1>5. c # Inf(f)
  BY <1>1, <1>3
<1> QED BY <1>1, <1>2, <1>3, <1>4, <1>5 DEF Unsigneds, IsNaN, IsInf, IsNeg

\* The neighbours of a float without a sign.
LEMMA NextReal ==
  ASSUME NEW f \in FloatTypes, NEW g \in 0 .. Inf(f)
  PROVE  LET r == Signed(f, FALSE, g)
         IN  /\ Units(f, g) \in Nat /\ Units(f, g + 1) \in Nat /\ Real(f, r) = Units(f, g) /\ Real(f, r + 1) = Units(f, g + 1)
             /\ g > 0 => Units(f, g - 1) \in Nat /\ Real(f, r - 1) = Units(f, g - 1)
<1>1. Inf(f) \in Nat /\ SignBit(f) \in Nat \ {0} /\ Inf(f) + Unit(f) = SignBit(f) /\ Unit(f) >= 2 /\ Unit(f) \in Nat
  BY InfBelow, FormatFacts
<1>2. \A i \in 0 .. SignBit(f) - 1 : Signed(f, FALSE, i) = i /\ Units(f, i) \in Nat /\ Real(f, i) = Units(f, i)
  <2> TAKE i \in 0 .. SignBit(f) - 1
  <2>1. Signed(f, FALSE, i) = i
    BY DEF Signed
  <2>2. i \in Unsigneds(Width(f)) /\ Magnitude(f, i) = i /\ IsNeg(f, i) = FALSE
    BY <2>1, SignedPattern
  <2> QED BY <2>1, <2>2, RealUnits
<1>3. g \in 0 .. SignBit(f) - 1 /\ g + 1 \in 0 .. SignBit(f) - 1 /\ (g > 0 => g - 1 \in 0 .. SignBit(f) - 1)
  BY <1>1
<1> QED BY <1>2, <1>3

LEMMA RootExact ==
  ASSUME NEW f \in FloatTypes, NEW x \in Unsigneds(Width(f)), ~IsNaN(f, x), ~IsInf(f, x), ~IsNeg(f, x), ~IsZero(f, x)
  PROVE  /\ Sqrt(f, x) \in Unsigneds(Width(f)) /\ ~IsNaN(f, Sqrt(f, x))
         /\ IsRoot(f, x, Sqrt(f, x))
<1> DEFINE F == Format[f].fraction
           s == Significand(f, x)
           e == Exponent(f, x)
           d == e - ScaleBits
           long == 2 * F + 4 - BitLen(s)
           k == IF (d - long) % 2 = 0 THEN long ELSE long - 1
           n == s * 2^k
           r == CHOOSE r \in 0 .. 2^(F + 2) : r * r <= n /\ n < (r + 1) * (r + 1)
           m == Sticky(r, r * r # n)
           c == (d - k) \div 2
           i == Magnitude(f, x)
           v == Units(f, i)
           u == Unit(f)
           z == Sqrt(f, x)
<1>1. i \in 0 .. Inf(f) /\ i \in Nat /\ Inf(f) \in Nat /\ i # 0 /\ i # Inf(f)
  BY PlacedUnits, InfBelow DEF IsZero, IsInf
<1>2. s \in Nat /\ e \in Nat /\ v = s * 2^e /\ v \in Nat /\ Real(f, x) = v /\ ScaleBits \in Nat
  BY RealUnits, OneInside
<1>3. u \in Nat \ {0} /\ s < 2 * u /\ s > 0
  <2>1. i % u \in 0 .. u - 1 /\ u \in Nat \ {0}
    <3>1. u \in Nat \ {0} /\ i \in Int
      BY <1>1, FormatFacts
    <3> HIDE DEF u, i
    <3> QED BY <3>1, DivMod
  <2>2. s = IF i < u THEN i ELSE u + (i % u)
    BY DEF Significand, Unit
  <2> HIDE DEF s, u, i
  <2> QED BY <1>1, <2>1, <2>2
<1>4. z = Nearest(f, FALSE, m, c + ScaleBits - 1)
  BY DEF Sqrt
<1> HIDE DEF s, e, u, i, v, z
<1>5. d \in Int /\ d = e - ScaleBits
  BY <1>2
<1> HIDE DEF d
<1>6. /\ k \in Nat /\ n \in Nat /\ c \in Int /\ d - k = 2 * c
      /\ \E a \in 0 .. 2^(F + 2) : IsFloorRoot(n, a)
      /\ \A a \in Nat : IsFloorRoot(n, a) => 4 * u <= 2 * a
  <2>1. s < 2 * Unit(f)
    BY <1>3 DEF u
  <2>2. HasRoot(f, d, k, n, c)
    BY ONLY f \in FloatTypes, <1>2, <1>3, <1>5, <2>1, RootBits
  <2> HIDE DEF k, n, c
  <2> QED BY <2>2 DEF HasRoot, u
<1> HIDE DEF k, c, long
<1>7. r \in 0 .. 2^(F + 2) /\ IsFloorRoot(n, r)
  BY <1>6 DEF IsFloorRoot
<1>8. r \in Nat
  <2>1. F + 2 \in Nat /\ 2^(F + 2) \in Nat
    BY FormatFacts, Pow
  <2> HIDE DEF r, F
  <2> QED BY <1>7, <2>1
<1> HIDE DEF r
<1>9. 4 * u <= 2 * r
  BY <1>6, <1>7, <1>8
<1>10. m = Sticky(r, r * r # s * 2^k) /\ IsFloorRoot(s * 2^k, r)
  BY <1>7
<1> HIDE DEF m, n
<1>11. PICK g \in 0 .. Inf(f) : RootAt(f, (s * 2^e) * One, m, c + ScaleBits - 1, g)
  <2>1. (e - ScaleBits) - k = 2 * c
    BY <1>5, <1>6
  <2>2. 4 * Unit(f) <= 2 * r
    BY <1>9 DEF u
  <2> QED BY <1>2, <1>6, <1>8, <1>10, <2>1, <2>2, RootRounds
<1> DEFINE o == One
<1>12. /\ o \in Nat \ {0} /\ (g < Inf(f) => Between(f, g) * Between(f, g) >= 4 * (v * o))
       /\ (g > 0 => Between(f, g - 1) * Between(f, g - 1) <= 4 * (v * o))
  BY <1>2, <1>11, OneInside DEF RootAt
<1> HIDE DEF o
<1>13. z = Signed(f, FALSE, g)
  BY <1>4, <1>11 DEF RootAt
<1>14. z \in Unsigneds(Width(f)) /\ ~IsNaN(f, z)
  BY <1>13, SignedReal
<1>15. /\ Units(f, g) \in Nat /\ Units(f, g + 1) \in Nat /\ Real(f, z) = Units(f, g) /\ Real(f, z + 1) = Units(f, g + 1)
       /\ g > 0 => Units(f, g - 1) \in Nat /\ Real(f, z - 1) = Units(f, g - 1)
  BY <1>13, NextReal
<1>16. Real(f, x) * 2^(ScaleBits + 2) = 4 * (v * o)
  <2> DEFINE y == 2^(ScaleBits + 2)
  <2>1. y = 4 * o
    <3>1. ScaleBits + 1 \in Nat /\ 2^((ScaleBits + 1) + 1) = 2 * 2^(ScaleBits + 1) /\ 2^(ScaleBits + 1) = 2 * 2^ScaleBits
          /\ (ScaleBits + 1) + 1 = ScaleBits + 2
      BY <1>2, Pow
    <3>2. o = 2^ScaleBits
      BY OneInside DEF o
    <3> QED BY <1>12, <3>1, <3>2
  <2> HIDE DEF y
  <2>2. v * (4 * o) = 4 * (v * o)
    BY <1>2, <1>12
  <2> QED BY <1>2, <2>1, <2>2 DEF y
<1>17. g \in Nat /\ v * o \in Nat
  BY <1>1, <1>2, <1>12
<1>18. Between(f, g) * Between(f, g) >= 4 * (v * o)
  <2>1. CASE g < Inf(f)
    BY <1>12, <2>1
  <2>2. CASE g = Inf(f)
    <3> DEFINE b == Beyond(f)
               a == Between(f, g)
    <3>1. b \in Nat /\ b = Units(f, g) /\ v <= b
      <4>1. Units(f, i) <= Units(f, Inf(f))
        BY <1>1, UnitsOrder
      <4> QED BY <2>2, <4>1, BeyondUnits DEF v
    <3>2. o <= b
      <4>1. PICK a1 \in Nat \ {0} : b = a1 * o
        BY OneInside DEF o
      <4>2. 1 * o <= a1 * o
        BY <1>12, <4>1, ScaledOrder
      <4> HIDE DEF b
      <4> QED BY <1>12, <4>1, <4>2
    <3>3. a \in Nat /\ 2 * b <= a
      <4>1. Units(f, g) < Units(f, g + 1)
        BY <1>17, UnitsNext
      <4> HIDE DEF b
      <4> QED BY <1>15, <3>1, <4>1 DEF Between
    <3> HIDE DEF b, a
    <3>4. v * o <= b * o /\ b * o <= b * b
      BY <1>2, <1>12, <3>1, <3>2
    <3>5. (2 * b) * (2 * b) <= a * a /\ (2 * b) * (2 * b) = 4 * (b * b) /\ b * b \in Nat /\ a * a \in Nat
      <4>1. 2 * b \in Nat
        BY <3>1
      <4> QED BY <3>1, <3>3, <4>1, SquareOrder, Square
    <3>6. b * o \in Nat
      BY <1>12, <3>1
    <3> QED BY <1>17, <3>4, <3>5, <3>6 DEF a
  <2> QED BY <1>1, <2>1, <2>2
<1>19. g > 0
  <2> SUFFICES ASSUME g = 0 PROVE FALSE
    BY <1>17
  <2> DEFINE l == Units(f, 1)
  <2>1. Between(f, g) = l /\ l \in Nat \ {0} /\ l <= v
    <3>2. Units(f, 0) = 0 /\ Units(f, 0 + 1) > Units(f, 0) /\ 0 + 1 = 1 /\ Units(f, 1) \in Nat
      <4>1. 0 \in Nat /\ 1 \in Nat /\ 0 + 1 = 1
        OBVIOUS
      <4>2. Units(f, 0) < Units(f, 0 + 1) /\ Units(f, 1) \in Nat /\ Units(f, 0) \in Nat
        BY <4>1, UnitsNext
      <4>3. Units(f, 0) = 0
        <5>1. Unit(f) \in Nat \ {0} /\ Grain(f, 0) \in Nat
          BY <4>1, FormatFacts, UnitsNext
        <5>2. Units(f, 0) = 0 * Grain(f, 0)
          BY <5>1 DEF Units
        <5> QED BY <5>1, <5>2
      <4> QED BY <4>1, <4>2, <4>3
    <3>3. Units(f, 1) <= v
      <4>1. 1 <= i
        BY <1>1
      <4> QED BY <1>1, <4>1, UnitsOrder DEF v
    <3>4. Between(f, 0) = l /\ l > 0 /\ l \in Nat
      BY <3>2 DEF Between
    <3> QED BY <3>3, <3>4
  <2>2. l <= o
    <3> DEFINE L == Format[f].least
    <3>1. L \in Nat /\ ScaleBits \in Nat /\ L <= ScaleBits /\ o = 2^ScaleBits
      BY OneInside, FormatFacts DEF o
    <3>2. 2^L <= 2^ScaleBits
      BY <3>1, PowOrder
    <3>3. l = 2^L
      <4>1. 0 \in Nat /\ 1 \in 0 .. Unit(f) - 1 /\ 0 * Unit(f) + 1 = 1
        BY FormatFacts
      <4>2. Units(f, 0 * Unit(f) + 1) = 1 * 2^L
        BY <4>1, UnitsIn
      <4>3. 2^L \in Nat
        BY <3>1, Pow
      <4> QED BY <4>1, <4>2, <4>3
    <3> QED BY <3>1, <3>2, <3>3
  <2> HIDE DEF l
  <2>3. l * l <= v * l /\ v * l <= v * o /\ l * l \in Nat \ {0} /\ v * l \in Nat
    BY <1>2, <1>12, <2>1, <2>2
  <2>4. l * l >= 4 * (v * o)
    BY <1>18, <2>1
  <2> QED BY <1>17, <2>3, <2>4
<1>20. Between(f, g - 1) * Between(f, g - 1) <= 4 * (v * o)
  BY <1>12, <1>19
<1>21. (Real(f, z) + Real(f, z - 1)) = Between(f, g - 1) /\ (Real(f, z) + Real(f, z + 1)) = Between(f, g)
  <2>1. g - 1 + 1 = g
    BY <1>17
  <2>2. Between(f, g - 1) = Units(f, g - 1) + Units(f, g)
    BY <2>1 DEF Between
  <2>3. Between(f, g) = Units(f, g) + Units(f, g + 1)
    BY DEF Between
  <2> QED BY <1>15, <1>19, <2>2, <2>3
<1>22. IsRoot(f, x, z)
  BY <1>16, <1>18, <1>20, <1>21 DEF IsRoot
<1> QED BY <1>14, <1>22 DEF z

LEMMA SqrtExact ==
  ASSUME NEW f \in FloatTypes, NEW x \in Unsigneds(Width(f))
  PROVE  UnaryIs(f, "sqrt", x, Sqrt(f, x))
<1> DEFINE r == Sqrt(f, x)
<1>1. CASE IsNaN(f, x)
  <2>1. r = Quiet(f, x)
    BY <1>1 DEF Sqrt
  <2>2. r \in Unsigneds(Width(f)) /\ IsNaN(f, r)
    BY <1>1, <2>1, QuietPattern
  <2> HIDE DEF r
  <2> QED BY <1>1, <2>2 DEF UnaryIs, ExactFloatUnary, r
<1>2. CASE ~IsNaN(f, x) /\ (IsZero(f, x) \/ (~IsNeg(f, x) /\ IsInf(f, x)))
  <2>1. r = x
    BY <1>2 DEF Sqrt
  <2> HIDE DEF r
  <2> QED BY <1>2, <2>1 DEF UnaryIs, ExactFloatUnary, r
<1>3. CASE ~IsNaN(f, x) /\ ~IsZero(f, x) /\ IsNeg(f, x)
  <2>1. r = CanonicalNaN(f)
    BY <1>3 DEF Sqrt
  <2>2. r \in Unsigneds(Width(f)) /\ IsNaN(f, r)
    BY <2>1, CanonicalExact
  <2> HIDE DEF r
  <2> QED BY <1>3, <2>2 DEF UnaryIs, ExactFloatUnary, r
<1>4. CASE ~IsNaN(f, x) /\ ~IsInf(f, x) /\ ~IsNeg(f, x) /\ ~IsZero(f, x)
  <2>1. r \in Unsigneds(Width(f)) /\ IsRoot(f, x, r)
    BY <1>4, RootExact
  <2> HIDE DEF r
  <2> QED BY <1>4, <2>1 DEF UnaryIs, ExactFloatUnary, r
<1> QED BY <1>1, <1>2, <1>3, <1>4

LEMMA SignsExact ==
  ASSUME NEW f \in FloatTypes, NEW x \in Unsigneds(Width(f))
  PROVE  UnaryIs(f, "abs", x, Magnitude(f, x)) /\ UnaryIs(f, "neg", x, Negate(f, x))
<1> DEFINE g == Magnitude(f, x)
           neg == IsNeg(f, x)
<1>1. g \in 0 .. SignBit(f) - 1 /\ neg \in BOOLEAN
  BY PatternSigned
<1>2. g = Signed(f, FALSE, g) /\ Negate(f, x) = Signed(f, ~neg, g)
  BY DEF Signed, Negate
<1> HIDE DEF g, neg
<1>3. \A s \in BOOLEAN : /\ Signed(f, s, g) \in Unsigneds(Width(f)) /\ Magnitude(f, Signed(f, s, g)) = g
                         /\ IsNeg(f, Signed(f, s, g)) = s
  BY <1>1, SignedPattern
<1>4. g \in Unsigneds(Width(f)) /\ Magnitude(f, g) = g /\ IsNeg(f, g) = FALSE
  BY <1>2, <1>3
<1>5. /\ Negate(f, x) \in Unsigneds(Width(f)) /\ Magnitude(f, Negate(f, x)) = g
      /\ IsNeg(f, Negate(f, x)) = ~neg
  BY <1>1, <1>2, <1>3
<1> QED BY <1>4, <1>5, Zenon DEF UnaryIs, ExactFloatUnary, g, neg

\* Every scalar floating-point instruction on one operand.
LEMMA FloatUnaryExact ==
  ASSUME NEW t \in FloatTypes, NEW op \in FloatUnaries, NEW x \in Unsigneds(Width(t))
  PROVE  UnaryIs(t, op, x, FloatUnaryOf(t, op, x))
<1>1. ASSUME op \in Modes PROVE UnaryIs(t, op, x, FloatUnaryOf(t, op, x))
  BY <1>1, RoundedOp
<1>2. ASSUME op \in {"abs", "neg", "sqrt"} PROVE UnaryIs(t, op, x, FloatUnaryOf(t, op, x))
  <2>1. FloatUnaryOf(t, op, x) = FloatUnary(t, op, x)
    BY <1>2 DEF FloatUnaryOf, evalF32Unary, evalF64Unary, FloatTypes
  <2>2. /\ op = "abs" => FloatUnary(t, op, x) = Magnitude(t, x)
        /\ op = "neg" => FloatUnary(t, op, x) = Negate(t, x)
        /\ op = "sqrt" => FloatUnary(t, op, x) = Sqrt(t, x)
    BY DEF FloatUnary
  <2>3. UnaryIs(t, "abs", x, Magnitude(t, x)) /\ UnaryIs(t, "neg", x, Negate(t, x)) /\ UnaryIs(t, "sqrt", x, Sqrt(t, x))
    BY SignsExact, SqrtExact
  <2> QED BY <1>2, <2>1, <2>2, <2>3
<1>3. op \in Modes \/ op \in {"abs", "neg", "sqrt"}
  BY DEF FloatUnaries, Modes
<1> QED BY <1>1, <1>2, <1>3

-----------------------------------------------------------------------------
(* Two operands *)

FloatBinaryOf(t, op, x, y) == IF t = "f32" THEN evalF32Binary(op, x, y) ELSE evalF64Binary(op, x, y)
FloatBinaryIs(t, op, x, y, r) == r \in Unsigneds(Width(t)) /\ ExactFloatBinary(t, op, x, y, r)

\* Comparing is comparing places.
LEMMA ComparedPlaces ==
  ASSUME NEW f \in FloatTypes, NEW op, NEW x \in Unsigneds(Width(f)), ~IsNaN(f, x),
         NEW y \in Unsigneds(Width(f)), ~IsNaN(f, y)
  PROVE  FloatRelates(f, op, x, y) = Relates(op, Placed(f, x), Placed(f, y)) /\ Placed(f, x) \in Int /\ Placed(f, y) \in Int
<1> DEFINE Place(z) == IF IsInf(f, z) THEN (IF IsNeg(f, z) THEN -Beyond(f) ELSE Beyond(f)) ELSE Real(f, z)
<1>1. Beyond(f) \in Nat
  BY BeyondUnits
<1>2. \A z : Place(z) = Placed(f, z)
  <2> TAKE z
  <2>1. (-1) * Beyond(f) = -Beyond(f) /\ 1 * Beyond(f) = Beyond(f)
    BY <1>1
  <2> QED BY <2>1 DEF Placed
<1>3. FloatRelates(f, op, x, y) = Relates(op, Place(x), Place(y))
  BY DEF FloatRelates
<1>4. Place(x) = Placed(f, x) /\ Place(y) = Placed(f, y)
  BY <1>2
<1> HIDE DEF Place
<1>5. Placed(f, x) \in Int /\ Placed(f, y) \in Int
  BY PlacedUnits
<1> QED BY <1>3, <1>4, <1>5

LEMMA UnitsZero ==
  ASSUME NEW f \in FloatTypes
  PROVE  Units(f, 0) = 0
<1>1. 0 \in Nat
  OBVIOUS
<1>2. Unit(f) \in Nat \ {0} /\ Grain(f, 0) \in Nat
  BY <1>1, FormatFacts, UnitsNext
<1>3. Units(f, 0) = 0 * Grain(f, 0)
  BY <1>2 DEF Units
<1> QED BY <1>2, <1>3

LEMMA ZeroPattern ==
  ASSUME NEW f \in FloatTypes, NEW x \in Unsigneds(Width(f)), IsZero(f, x)
  PROVE  x = (IF IsNeg(f, x) THEN SignBit(f) ELSE 0) /\ ~IsNaN(f, x) /\ ~IsInf(f, x) /\ Placed(f, x) = 0
<1>1. Magnitude(f, x) = 0 /\ SignBit(f) \in Nat \ {0}
  BY FormatFacts DEF IsZero
<1>2. x = Signed(f, IsNeg(f, x), 0)
  BY <1>1, PatternSigned
<1>3. Inf(f) \in Nat \ {0}
  BY FormatFacts
<1>4. ~IsNaN(f, x) /\ ~IsInf(f, x)
  BY <1>1, <1>3 DEF IsNaN, IsInf
<1>5. Units(f, 0) = 0
  BY UnitsZero
<1>6. Placed(f, x) = 0
  BY <1>1, <1>4, <1>5, PlacedUnits
<1> QED BY <1>1, <1>2, <1>4, <1>6 DEF Signed

\* The lesser of two floats, -0 before +0.
LEMMA LesserExact ==
  ASSUME NEW f \in FloatTypes, NEW x \in Unsigneds(Width(f)), ~IsNaN(f, x), NEW y \in Unsigneds(Width(f)), ~IsNaN(f, y)
  PROVE  FloatBinaryIs(f, "min", x, y, MinOf(f, x, y)) /\ FloatBinaryIs(f, "max", x, y, MaxOf(f, x, y))
<1> DEFINE a == Placed(f, x)
           b == Placed(f, y)
<1>1. a \in Int /\ b \in Int
  BY ComparedPlaces
<1>2. \A op : /\ FloatRelates(f, op, x, y) = Relates(op, a, b) /\ FloatRelates(f, op, y, x) = Relates(op, b, a)
              /\ FloatRelates(f, op, x, x) = Relates(op, a, a) /\ FloatRelates(f, op, y, y) = Relates(op, b, b)
  BY ComparedPlaces
<1> HIDE DEF a, b
<1>3. /\ FloatRelates(f, "lt", x, y) <=> a < b
      /\ FloatRelates(f, "gt", x, y) <=> a > b
      /\ FloatRelates(f, "le", x, y) <=> a <= b
      /\ FloatRelates(f, "le", y, x) <=> b <= a
      /\ FloatRelates(f, "ge", x, y) <=> a >= b
      /\ FloatRelates(f, "ge", y, x) <=> b >= a
      /\ FloatRelates(f, "le", x, x) <=> a <= a
      /\ FloatRelates(f, "ge", x, x) <=> a >= a
      /\ FloatRelates(f, "le", y, y) <=> b <= b
      /\ FloatRelates(f, "ge", y, y) <=> b >= b
  <2>1. \A i, j : /\ Relates("lt", i, j) <=> i < j
                  /\ Relates("le", i, j) <=> i <= j
                  /\ Relates("gt", i, j) <=> i > j
                  /\ Relates("ge", i, j) <=> i >= j
    BY DEF Relates
  <2> QED BY <1>2, <2>1
<1>4. IsZero(f, x) => x = (IF IsNeg(f, x) THEN SignBit(f) ELSE 0) /\ a = 0
  BY ZeroPattern DEF a
<1>5. IsZero(f, y) => y = (IF IsNeg(f, y) THEN SignBit(f) ELSE 0) /\ b = 0
  BY ZeroPattern DEF b
<1>6. IsNeg(f, x) \in BOOLEAN /\ IsNeg(f, y) \in BOOLEAN
  BY Kinds
<1>7. ASSUME NEW r \in {x, y}, FloatRelates(f, "le", r, x), FloatRelates(f, "le", r, y),
             IsZero(f, x) /\ IsZero(f, y) => IsNeg(f, r) = (IsNeg(f, x) \/ IsNeg(f, y))
      PROVE  FloatBinaryIs(f, "min", x, y, r)
  BY <1>7 DEF FloatBinaryIs, ExactFloatBinary
<1>8. ASSUME NEW r \in {x, y}, FloatRelates(f, "ge", r, x), FloatRelates(f, "ge", r, y),
             IsZero(f, x) /\ IsZero(f, y) => IsNeg(f, r) = (IsNeg(f, x) /\ IsNeg(f, y))
      PROVE  FloatBinaryIs(f, "max", x, y, r)
  BY <1>8 DEF FloatBinaryIs, ExactFloatBinary
<1>9. FloatBinaryIs(f, "min", x, y, MinOf(f, x, y))
  <2>1. CASE IsZero(f, x) /\ IsZero(f, y) /\ (IsNeg(f, x) \/ IsNeg(f, y))
    <3>1. MinOf(f, x, y) = SignBit(f)
      BY <2>1 DEF MinOf
    <3>2. PICK r \in {x, y} : r = SignBit(f) /\ IsNeg(f, r) = TRUE
      BY <1>4, <1>5, <1>6, <2>1
    <3>3. FloatRelates(f, "le", r, x) /\ FloatRelates(f, "le", r, y)
      BY <1>1, <1>3, <1>4, <1>5, <2>1
    <3> QED BY <1>7, <2>1, <3>1, <3>2, <3>3
  <2>2. CASE ~(IsZero(f, x) /\ IsZero(f, y) /\ (IsNeg(f, x) \/ IsNeg(f, y)))
    <3> DEFINE r == IF FloatRelates(f, "lt", x, y) THEN x ELSE y
    <3>1. MinOf(f, x, y) = r /\ r \in {x, y}
      BY <2>2 DEF MinOf
    <3>2. FloatRelates(f, "le", r, x) /\ FloatRelates(f, "le", r, y)
      BY <1>1, <1>3
    <3>3. IsZero(f, x) /\ IsZero(f, y) => IsNeg(f, r) = (IsNeg(f, x) \/ IsNeg(f, y))
      BY <1>6, <2>2
    <3> HIDE DEF r
    <3> QED BY <1>7, <3>1, <3>2, <3>3
  <2> QED BY <2>1, <2>2
<1>10. FloatBinaryIs(f, "max", x, y, MaxOf(f, x, y))
  <2>1. CASE IsZero(f, x) /\ IsZero(f, y) /\ ~(IsNeg(f, x) /\ IsNeg(f, y))
    <3>1. MaxOf(f, x, y) = 0
      BY <2>1 DEF MaxOf
    <3>2. PICK r \in {x, y} : r = 0 /\ IsNeg(f, r) = FALSE
      BY <1>4, <1>5, <1>6, <2>1
    <3>3. FloatRelates(f, "ge", r, x) /\ FloatRelates(f, "ge", r, y)
      BY <1>1, <1>3, <1>4, <1>5, <2>1
    <3> QED BY <1>8, <2>1, <3>1, <3>2, <3>3
  <2>2. CASE ~(IsZero(f, x) /\ IsZero(f, y) /\ ~(IsNeg(f, x) /\ IsNeg(f, y)))
    <3> DEFINE r == IF FloatRelates(f, "gt", x, y) THEN x ELSE y
    <3>1. MaxOf(f, x, y) = r /\ r \in {x, y}
      BY <2>2 DEF MaxOf
    <3>2. FloatRelates(f, "ge", r, x) /\ FloatRelates(f, "ge", r, y)
      BY <1>1, <1>3
    <3>3. IsZero(f, x) /\ IsZero(f, y) => IsNeg(f, r) = (IsNeg(f, x) /\ IsNeg(f, y))
      BY <1>6, <2>2
    <3> HIDE DEF r
    <3> QED BY <1>8, <3>1, <3>2, <3>3
  <2> QED BY <2>1, <2>2
<1> QED BY <1>9, <1>10

LEMMA ZeroRounds ==
  ASSUME NEW f \in FloatTypes, NEW d \in Nat \ {0}
  PROVE  Rounds(f, 0, 0, d)
<1>1. 0 \in 0 .. Inf(f) /\ 0 \in Nat
  BY FormatFacts
<1>2. Units(f, 0) \in Nat /\ Units(f, 0 + 1) \in Nat
  BY <1>1, UnitsNext
<1> DEFINE y == Between(f, 0) * d
<1>3. Between(f, 0) \in Nat
  BY <1>2 DEF Between
<1>4. y \in Nat
  BY <1>3
<1>5. RoundsUp(f, 0, 0, d)
  <2> HIDE DEF y
  <2>1. 2 * 0 <= y /\ 0 % 2 = 0
    BY <1>4
  <2> QED BY <2>1 DEF RoundsUp, y
<1> QED BY <1>1, <1>5 DEF Rounds

\* Zero is nearest to nothing, of either sign and whatever it is divided by.
LEMMA ZeroNearest ==
  ASSUME NEW f \in FloatTypes, NEW neg \in BOOLEAN, NEW d \in Nat \ {0}
  PROVE  /\ Signed(f, neg, 0) \in Unsigneds(Width(f)) /\ IsNeg(f, Signed(f, neg, 0)) = neg
         /\ IsZero(f, Signed(f, neg, 0)) /\ IsNearestQuotient(f, 0, d, Signed(f, neg, 0))
<1> DEFINE z == 0
<1>1. 0 \in 0 .. SignBit(f) - 1
  BY FormatFacts
<1>2. z \in Nat /\ z <= 0 /\ z >= 0
  OBVIOUS
<1>3. Rounds(f, 0, z, d)
  BY ZeroRounds
<1> HIDE DEF z
<1>4. z \in Int /\ z = (IF neg THEN -z ELSE z)
  BY <1>2
<1>5. IsNearestQuotient(f, z, d, Signed(f, neg, 0))
  BY <1>2, <1>3, <1>4, QuotientNearest
<1> QED BY <1>1, <1>5, SignedPattern DEF IsZero, z

\* The negation of a float, kind by kind.
LEMMA NegateKeeps ==
  ASSUME NEW f \in FloatTypes, NEW y \in Unsigneds(Width(f))
  PROVE  LET z == Negate(f, y)
         IN  /\ z \in Unsigneds(Width(f)) /\ Magnitude(f, z) = Magnitude(f, y) /\ IsNeg(f, z) = ~IsNeg(f, y)
             /\ IsNaN(f, z) = IsNaN(f, y) /\ IsInf(f, z) = IsInf(f, y)
             /\ Real(f, y) \in Int /\ Real(f, z) = -Real(f, y)
<1> DEFINE z == Negate(f, y)
           u == Units(f, Magnitude(f, y))
<1>1. z \in Unsigneds(Width(f)) /\ Magnitude(f, z) = Magnitude(f, y) /\ IsNeg(f, z) = ~IsNeg(f, y)
  <2>1. Magnitude(f, y) \in 0 .. SignBit(f) - 1 /\ IsNeg(f, y) \in BOOLEAN /\ z = Signed(f, ~IsNeg(f, y), Magnitude(f, y))
    BY PatternSigned DEF Negate
  <2> QED BY <2>1, SignedPattern, ZenonT(60)
<1> HIDE DEF z
<1>2. IsNaN(f, z) = IsNaN(f, y) /\ IsInf(f, z) = IsInf(f, y)
  BY <1>1 DEF IsNaN, IsInf
<1>3. /\ u \in Nat /\ Real(f, y) = IF IsNeg(f, y) THEN -u ELSE u
      /\ Real(f, z) = IF IsNeg(f, z) THEN -u ELSE u
  BY <1>1, RealUnits
<1> HIDE DEF u
<1>4. Real(f, y) \in Int /\ Real(f, z) = -Real(f, y)
  <2>1. CASE IsNeg(f, y)
    <3>1. Real(f, y) = -u /\ Real(f, z) = u
      BY <1>1, <1>3, <2>1
    <3> QED BY <1>3, <3>1
  <2>2. CASE ~IsNeg(f, y)
    <3>1. Real(f, y) = u /\ Real(f, z) = -u
      BY <1>1, <1>3, <2>2
    <3> QED BY <1>3, <3>1
  <2> QED BY <2>1, <2>2
<1> QED BY <1>1, <1>2, <1>4 DEF z

\* A sum is rounded once.
AddsUp(f, x, y, r) ==
  /\ r \in Unsigneds(Width(f))
  /\ IF IsInf(f, x) \/ IsInf(f, y) THEN r = CanonicalNaN(f) \/ IsInf(f, r)
     ELSE /\ IsNearest(f, Real(f, x) + Real(f, y), r)
          /\ Real(f, x) + Real(f, y) = 0 => IsNeg(f, r) = (IsNeg(f, x) /\ IsNeg(f, y))
LEMMA AddExact ==
  ASSUME NEW f \in FloatTypes, NEW x \in Unsigneds(Width(f)), NEW y \in Unsigneds(Width(f))
  PROVE  AddsUp(f, x, y, Add(f, x, y))
<1> DEFINE v == Real(f, x) + Real(f, y)
           r == Add(f, x, y)
           zero == IsNeg(f, x) /\ IsNeg(f, y)
<1>1. v \in Int /\ zero \in BOOLEAN
  BY RealUnits
<1>2. CASE IsInf(f, x) \/ IsInf(f, y)
  <2>1. r = CanonicalNaN(f) \/ (r = x /\ IsInf(f, x)) \/ (r = y /\ IsInf(f, y))
    BY <1>2 DEF Add
  <2> HIDE DEF r
  <2>2. r \in Unsigneds(Width(f)) /\ (r = CanonicalNaN(f) \/ IsInf(f, r))
    BY <2>1, CanonicalExact
  <2> QED BY <1>2, <2>2 DEF AddsUp, r
<1>3. CASE ~(IsInf(f, x) \/ IsInf(f, y)) /\ v = 0
  <2>1. r = Signed(f, zero, 0)
    BY <1>3 DEF Add
  <2> HIDE DEF r, zero
  <2>2. r \in Unsigneds(Width(f)) /\ IsNeg(f, r) = zero /\ IsNearest(f, v, r)
    <3>1. 1 \in Nat \ {0}
      OBVIOUS
    <3>2. IsNearestQuotient(f, 0, 1, r)
      BY <1>1, <2>1, <3>1, ZeroNearest
    <3> QED BY <1>1, <1>3, <2>1, <3>1, <3>2, ZeroNearest DEF IsNearest
  <2> QED BY <1>3, <2>2 DEF AddsUp, r, zero
<1>4. CASE ~(IsInf(f, x) \/ IsInf(f, y)) /\ v # 0
  <2>1. r = Nearest(f, v < 0, Abs(v), 0)
    BY <1>4 DEF Add
  <2> HIDE DEF r, v, zero
  <2>2. Abs(v) \in Nat /\ (v < 0) \in BOOLEAN /\ v = (IF v < 0 THEN -Abs(v) ELSE Abs(v)) /\ 2^0 = 1 /\ 0 \in Int /\ 0 >= 0
    BY <1>1, Pow DEF Abs
  <2> DEFINE m == Abs(v)
             neg == v < 0
  <2>3. m \in Nat /\ neg \in BOOLEAN /\ r = Nearest(f, neg, m, 0)
    BY <2>1, <2>2
  <2> HIDE DEF m, neg
  <2>4. r \in Unsigneds(Width(f)) /\ IsNearest(f, IF neg THEN -(m * 2^0) ELSE m * 2^0, r)
    BY <2>2, <2>3, NearestExact
  <2>5. (IF neg THEN -(m * 2^0) ELSE m * 2^0) = v
    <3>1. m * 1 = m
      BY <2>3
    <3> QED BY <2>2, <3>1 DEF m, neg
  <2>6. IsNearest(f, v, r)
    BY <2>4, <2>5
  <2> QED BY <1>4, <2>4, <2>6 DEF AddsUp, r, v
<1> QED BY <1>2, <1>3, <1>4

LEMMA SumExact ==
  ASSUME NEW f \in FloatTypes, NEW x \in Unsigneds(Width(f)), ~IsNaN(f, x), NEW y \in Unsigneds(Width(f)), ~IsNaN(f, y)
  PROVE  FloatBinaryIs(f, "add", x, y, Add(f, x, y)) /\ FloatBinaryIs(f, "sub", x, y, Add(f, x, Negate(f, y)))
<1> DEFINE z == Negate(f, y)
           r == Add(f, x, y)
           s == Add(f, x, z)
<1>1. /\ z \in Unsigneds(Width(f)) /\ IsNeg(f, z) = ~IsNeg(f, y) /\ IsInf(f, z) = IsInf(f, y)
      /\ Real(f, y) \in Int /\ Real(f, z) = -Real(f, y) /\ Real(f, x) \in Int
  BY NegateKeeps
<1> HIDE DEF z
<1>2. AddsUp(f, x, y, r) /\ AddsUp(f, x, z, s)
  BY <1>1, AddExact
<1> HIDE DEF r, s
<1>3. Real(f, x) + Real(f, z) = Real(f, x) - Real(f, y)
  BY <1>1
<1>4. FloatBinaryIs(f, "add", x, y, r)
  <2>1. CASE IsInf(f, x) \/ IsInf(f, y)
    BY <1>2, <2>1 DEF AddsUp, FloatBinaryIs, ExactFloatBinary, Finite
  <2>2. CASE ~(IsInf(f, x) \/ IsInf(f, y))
    <3>1. r \in Unsigneds(Width(f)) /\ IsRounded(f, "add", x, y, r)
      BY <1>2, <2>2 DEF AddsUp, IsRounded
    <3> QED BY <2>2, <3>1 DEF FloatBinaryIs, ExactFloatBinary, Finite
  <2> QED BY <2>1, <2>2
<1>5. FloatBinaryIs(f, "sub", x, y, s)
  <2>1. CASE IsInf(f, x) \/ IsInf(f, z)
    <3>1. s \in Unsigneds(Width(f)) /\ (s = CanonicalNaN(f) \/ IsInf(f, s)) /\ ~(Finite(f, x) /\ Finite(f, y))
      BY <1>1, <1>2, <2>1 DEF AddsUp, Finite
    <3> QED BY <3>1 DEF FloatBinaryIs, ExactFloatBinary
  <2>2. CASE ~(IsInf(f, x) \/ IsInf(f, z))
    <3>1. r \in Unsigneds(Width(f)) /\ s \in Unsigneds(Width(f)) /\ IsRounded(f, "sub", x, y, s)
      BY <1>1, <1>2, <1>3, <2>2 DEF AddsUp, IsRounded
    <3>2. Finite(f, x) /\ Finite(f, y)
      BY <1>1, <2>2 DEF Finite
    <3> QED BY <3>1, <3>2 DEF FloatBinaryIs, ExactFloatBinary
  <2> QED BY <2>1, <2>2
<1> QED BY <1>4, <1>5 DEF r, s, z

\* A significand has the bits of the fraction and one more.
LEMMA SignificandFacts ==
  ASSUME NEW f \in FloatTypes, NEW x \in Unsigneds(Width(f))
  PROVE  /\ Significand(f, x) \in Nat /\ Significand(f, x) < 2 * Unit(f) /\ (Significand(f, x) = 0 <=> IsZero(f, x))
         /\ BitLen(Significand(f, x)) <= Format[f].fraction + 1
<1> DEFINE s == Significand(f, x)
           u == Unit(f)
           i == Magnitude(f, x)
           F == Format[f].fraction
           b == BitLen(s)
<1>1. i \in Nat /\ u \in Nat \ {0} /\ u = 2^F /\ F \in Nat
  <2>1. i \in 0 .. SignBit(f) - 1 /\ SignBit(f) \in Nat
    BY PatternSigned, FormatFacts
  <2> HIDE DEF i
  <2>2. i \in Nat
    BY <2>1
  <2> QED BY <2>2, FormatFacts DEF Unit
<1>2. s = IF i < u THEN i ELSE u + (i % u)
  BY DEF Significand, Unit
<1>3. i % u \in 0 .. u - 1
  <2>1. i \in Int /\ u \in Nat \ {0}
    BY <1>1
  <2> HIDE DEF u, i
  <2> QED BY <2>1, DivMod
<1> HIDE DEF s, u, i, F
<1>4. s \in Nat /\ s < 2 * u /\ (s = 0 <=> i = 0)
  BY <1>1, <1>2, <1>3
<1>5. b \in Nat /\ (s > 0 => b > 0 /\ 2^(b - 1) <= s) /\ (s = 0 => b = 0)
  BY <1>4, LenExact DEF IsLen
<1> HIDE DEF b
<1>6. b <= F + 1
  <2>1. SUFFICES ASSUME ~(b <= F + 1) PROVE FALSE
    OBVIOUS
  <2>2. F + 1 <= b - 1 /\ F + 1 \in Nat /\ b - 1 \in Nat
    BY <1>1, <1>5, <2>1
  <2>3. 2^(F + 1) <= 2^(b - 1) /\ 2^(F + 1) = 2 * u /\ 2^(b - 1) \in Nat
    BY <1>1, <2>2, PowOrder, Pow
  <2>4. s > 0
    BY <1>1, <1>4, <1>5, <2>1
  <2> QED BY <1>1, <1>4, <1>5, <2>3, <2>4
<1> QED BY <1>4, <1>6 DEF s, u, i, b, F, IsZero

\* Whatever the order of the two signs, a product or a quotient of two numbers has the one of neither or both.
LEMMA SignedPair ==
  ASSUME NEW f \in FloatTypes, NEW x \in Unsigneds(Width(f)), NEW y \in Unsigneds(Width(f)),
         NEW a, a = Units(f, Magnitude(f, x)), NEW b, b = Units(f, Magnitude(f, y)),
         NEW neg, neg = (IsNeg(f, x) # IsNeg(f, y))
  PROVE  /\ a \in Nat /\ b \in Nat /\ neg \in BOOLEAN /\ Abs(Real(f, x)) = a /\ Abs(Real(f, y)) = b
         /\ Real(f, x) * Real(f, y) = (IF neg THEN -(a * b) ELSE a * b)
         /\ b # 0 => (IF Real(f, y) < 0 THEN -Real(f, x) ELSE Real(f, x)) = (IF neg THEN -a ELSE a)
<1>1. /\ a \in Nat /\ b \in Nat /\ Real(f, x) = (IF IsNeg(f, x) THEN -a ELSE a)
      /\ Real(f, y) = (IF IsNeg(f, y) THEN -b ELSE b)
  BY RealUnits
<1>2. IsNeg(f, x) \in BOOLEAN /\ IsNeg(f, y) \in BOOLEAN
  BY Kinds
<1>3. (-a) * b = -(a * b) /\ a * (-b) = -(a * b) /\ (-a) * (-b) = a * b
  BY <1>1
<1>4. Real(f, x) * Real(f, y) = (IF neg THEN -(a * b) ELSE a * b)
  BY <1>1, <1>2, <1>3
<1>5. b # 0 => (IF Real(f, y) < 0 THEN -Real(f, x) ELSE Real(f, x)) = (IF neg THEN -a ELSE a)
  <2> HAVE b # 0
  <2>1. (Real(f, y) < 0) <=> IsNeg(f, y)
    BY <1>1, <1>2
  <2>2. -(-a) = a
    BY <1>1
  <2>3. CASE IsNeg(f, x)
    <3>1. Real(f, x) = -a /\ neg = ~IsNeg(f, y)
      BY <1>1, <1>2, <2>3
    <3> QED BY <1>2, <2>1, <2>2, <3>1
  <2>4. CASE ~IsNeg(f, x)
    <3>1. Real(f, x) = a /\ neg = IsNeg(f, y)
      BY <1>1, <1>2, <2>4
    <3> QED BY <1>2, <2>1, <3>1
  <2> QED BY <2>3, <2>4
<1>6. Abs(Real(f, x)) = a /\ Abs(Real(f, y)) = b
  BY <1>1 DEF Abs
<1> QED BY <1>1, <1>4, <1>5, <1>6

LEMMA ProductExact ==
  ASSUME NEW f \in FloatTypes, NEW x \in Unsigneds(Width(f)), ~IsNaN(f, x), NEW y \in Unsigneds(Width(f)), ~IsNaN(f, y)
  PROVE  FloatBinaryIs(f, "mul", x, y, Mul(f, x, y))
<1> DEFINE neg == IsNeg(f, x) # IsNeg(f, y)
           r == Mul(f, x, y)
<1>1. neg \in BOOLEAN
  OBVIOUS
<1>2. CASE IsInf(f, x) \/ IsInf(f, y)
  <2>1. r = CanonicalNaN(f) \/ r = Signed(f, neg, Inf(f))
    BY <1>2 DEF Mul
  <2> HIDE DEF r, neg
  <2>2. r \in Unsigneds(Width(f)) /\ (r = CanonicalNaN(f) \/ IsInf(f, r))
    <3>1. Inf(f) \in 0 .. SignBit(f) - 1
      BY InfBelow
    <3> QED BY <1>1, <2>1, <3>1, CanonicalExact, SignedPattern DEF IsInf
  <2>3. ~(Finite(f, x) /\ Finite(f, y))
    BY <1>2 DEF Finite
  <2> QED BY <2>2, <2>3 DEF FloatBinaryIs, ExactFloatBinary, r
<1>3. CASE ~(IsInf(f, x) \/ IsInf(f, y))
  <2> DEFINE s1 == Significand(f, x)
             s2 == Significand(f, y)
             e1 == Exponent(f, x)
             e2 == Exponent(f, y)
             m == s1 * s2
             e == e1 + e2 - ScaleBits
             a == Units(f, Magnitude(f, x))
             b == Units(f, Magnitude(f, y))
  <2>1. r = Nearest(f, neg, m, e)
    BY <1>3 DEF Mul
  <2>2. /\ s1 \in Nat /\ s2 \in Nat /\ e1 \in Nat /\ e2 \in Nat /\ a \in Nat /\ b \in Nat
        /\ a = s1 * 2^e1 /\ b = s2 * 2^e2 /\ ScaleBits \in Nat /\ One \in Nat \ {0} /\ One = 2^ScaleBits
    BY RealUnits, OneInside
  <2>3. Real(f, x) * Real(f, y) = (IF neg THEN -(a * b) ELSE a * b)
    BY SignedPair
  <2> HIDE DEF s1, s2, e1, e2, a, b, r, neg
  <2>4. m \in Nat /\ e \in Int /\ e + ScaleBits = e1 + e2 /\ e + ScaleBits >= 0
    BY <2>2
  <2>5. m * 2^(e + ScaleBits) = a * b
    <3> DEFINE p == 2^e1
               q == 2^e2
    <3>1. 2^(e + ScaleBits) = p * q /\ p \in Nat /\ q \in Nat
      <4> HIDE DEF e
      <4>1. 2^(e1 + e2) = p * q /\ p \in Nat /\ q \in Nat
        BY <2>2, PowAdd, Pow
      <4> QED BY <2>4, <4>1
    <3>2. a = s1 * p /\ b = s2 * q
      BY <2>2
    <3> HIDE DEF p, q
    <3>3. (s1 * s2) * (p * q) = (s1 * p) * (s2 * q)
      BY <2>2, <3>1
    <3> QED BY <3>1, <3>2, <3>3
  <2> HIDE DEF m, e
  <2>6. PICK g : r = Signed(f, neg, g) /\ Rounds(f, g, m * 2^(e + ScaleBits), 2^ScaleBits)
    BY <2>1, <2>2, <2>4, NearestRounds
  <2> DEFINE t == a * b
             v == IF neg THEN -t ELSE t
  <2>7. Rounds(f, g, t, One) /\ t \in Nat
    BY <2>2, <2>5, <2>6
  <2> HIDE DEF t
  <2>8. v \in Int /\ v = IF neg THEN -t ELSE t
    BY <2>7
  <2> HIDE DEF v
  <2>9. IsNearestQuotient(f, v, One, r) /\ r \in Unsigneds(Width(f))
    BY <1>1, <2>2, <2>6, <2>7, <2>8, QuotientNearest
  <2>10. IsNeg(f, r) = neg
    <3>1. g \in 0 .. SignBit(f) - 1
      BY <2>6, InfBelow DEF Rounds
    <3> QED BY <1>1, <2>6, <3>1, SignedPattern
  <2>11. IsRounded(f, "mul", x, y, r)
    <3>1. Real(f, x) * Real(f, y) = v
      BY <2>3 DEF v, t
    <3> QED BY <2>9, <2>10, <3>1 DEF IsRounded, neg
  <2>12. Finite(f, x) /\ Finite(f, y)
    BY <1>3 DEF Finite
  <2> QED BY <2>9, <2>11, <2>12 DEF FloatBinaryIs, ExactFloatBinary, r
<1> QED BY <1>2, <1>3

\* On which side of b the number 2nt / d lies is the side on which m t lies, when m ends in whether n / d is more
\* than its whole part and b has few bits.
Shows(n, d, m, t, b) ==
  /\ b <= m * t <=> b * d <= 2 * (n * t)
  /\ b >= m * t <=> b * d >= 2 * (n * t)
LEMMA QuotientSide ==
  ASSUME NEW n \in Nat, NEW d \in Nat \ {0}, NEW m, m = Sticky(n \div d, n % d # 0),
         NEW t \in Nat \ {0}, NEW b \in Nat, NEW a \in Nat, a <= 2 * (n \div d), Coarse(b, a, t)
  PROVE  Shows(n, d, m, t, b)
<1> DEFINE q == n \div d
           c == n % d
<1>1. q \in Nat /\ c \in Nat /\ c < d /\ n = q * d + c
  <2>1. n \in Int /\ d \in Nat \ {0}
    OBVIOUS
  <2>2. n \div d \in Int /\ n % d \in 0 .. d - 1 /\ n = d * (n \div d) + (n % d)
    BY ONLY <2>1, DivMod
  <2> HIDE DEF q, c
  <2>3. q \in Int /\ c \in 0 .. d - 1 /\ n = d * q + c
    BY <2>2 DEF q, c
  <2>4. q >= 0
    <3> SUFFICES ASSUME q <= -1 PROVE FALSE
      BY <2>3
    <3>1. d * q <= d * (-1) /\ d * (-1) = -d
      BY <2>3
    <3> QED BY <2>3, <3>1
  <2>5. d * q = q * d
    BY <2>3
  <2> QED BY <2>3, <2>4, <2>5
<1>2. m = 2 * q + (IF c # 0 THEN 1 ELSE 0)
  BY DEF Sticky, Bool
<1>3. a <= 2 * q
  OBVIOUS
<1> HIDE DEF q, c
<1> DEFINE y == q * t
           w == y * d
           z == c * t
<1>4. y \in Nat /\ w \in Nat /\ z \in Nat /\ n * t = w + z /\ y * d = w /\ n * t \in Nat
  <2>1. y \in Nat
    BY <1>1
  <2>2. w \in Nat /\ z \in Nat
    <3> HIDE DEF y
    <3> QED BY <1>1, <2>1
  <2>3. (q * d + c) * t = (q * t) * d + c * t
    BY <1>1
  <2> QED BY <1>1, <2>1, <2>2, <2>3
<1>5. m * t = (IF c # 0 THEN 2 * y + t ELSE 2 * y) /\ m \in Nat
  BY <1>1, <1>2
<1>6. (c = 0 => z = 0) /\ (c # 0 => z >= t) /\ z < d * t
  <2>1. c = 0 => z = 0
    OBVIOUS
  <2>2. c # 0 => 1 * t <= c * t
    BY <1>1
  <2>3. c * t < d * t
    BY <1>1, ScaledOrder
  <2> QED BY <2>1, <2>2, <2>3
<1>7. d * t \in Nat
  OBVIOUS
<1>8. CASE c = 0
  <2>1. m * t = 2 * y /\ n * t = w /\ 2 * y \in Nat
    BY <1>4, <1>5, <1>6, <1>8
  <2>2. (2 * y) * d = 2 * w
    <3> HIDE DEF y
    <3>1. (2 * y) * d = 2 * (y * d)
      BY <1>4
    <3> QED BY <3>1
  <2> DEFINE x == 2 * y
  <2>3. x \in Nat /\ m * t = x /\ x * d = 2 * (n * t) /\ b * d \in Nat /\ x * d \in Nat
    BY <2>1, <2>2
  <2> HIDE DEF x
  <2>4. (b <= x => b * d <= x * d) /\ (x <= b => x * d <= b * d)
    BY <2>3, ScaledOrder
  <2>5. (b < x => b * d < x * d) /\ (x < b => x * d < b * d)
    BY <2>3, ScaledOrder
  <2> QED BY <2>3, <2>4, <2>5 DEF Shows
<1>9. CASE c # 0
  <2>1. m * t = 2 * y + t /\ z >= t /\ z > 0
    <3> HIDE DEF y, z
    <3> QED BY <1>4, <1>5, <1>6, <1>9
  <2>2. ASSUME b <= 2 * y PROVE Shows(n, d, m, t, b)
    <3>1. b * d <= 2 * w /\ b * d \in Nat
      <4> HIDE DEF y, w
      <4>1. b * d <= (2 * y) * d /\ b * d \in Nat
        BY <1>4, <2>2, ScaledOrder
      <4>2. (2 * y) * d = 2 * (y * d)
        BY <1>4
      <4> QED BY <1>4, <4>1, <4>2
    <3> HIDE DEF y, w, z
    <3>2. b < m * t /\ b * d < 2 * (n * t)
      BY <1>4, <2>1, <2>2, <3>1
    <3>3. m * t \in Nat
      BY <1>5
    <3> QED BY <1>4, <3>1, <3>2, <3>3 DEF Shows
  <2>3. ASSUME b >= 2 * (y + t) PROVE Shows(n, d, m, t, b)
    <3>1. b * d >= 2 * (w + d * t) /\ b * d \in Nat
      <4> HIDE DEF y, w
      <4>1. (2 * (y + t)) * d <= b * d /\ b * d \in Nat
        BY <1>4, <2>3, ScaledOrder
      <4>2. (2 * (y + t)) * d = 2 * (y * d + d * t)
        BY <1>4
      <4> QED BY <1>4, <4>1, <4>2
    <3> DEFINE l == d * t
    <3>2. l \in Nat /\ b * d >= 2 * (w + l) /\ z < l
      BY <1>6, <1>7, <3>1
    <3> HIDE DEF y, w, z, l
    <3>3. b > m * t /\ b * d > 2 * (n * t)
      BY <1>4, <2>1, <2>3, <3>1, <3>2
    <3>4. m * t \in Nat
      BY <1>5
    <3> QED BY <1>4, <3>1, <3>3, <3>4 DEF Shows
  <2>4. CASE b <= a * t
    <3>1. a * t <= (2 * q) * t /\ (2 * q) * t = 2 * y /\ a * t \in Nat
      BY <1>1, <1>3
    <3> HIDE DEF y
    <3> QED BY <1>4, <2>2, <2>4, <3>1
  <2>5. CASE \E k \in Nat : b = k * (2 * t)
    <3>1. PICK k \in Nat : b = k * (2 * t)
      BY <2>5
    <3>2. k <= q \/ k >= q + 1
      BY <1>1
    <3>3. CASE k <= q
      <4>1. k * (2 * t) <= q * (2 * t) /\ q * (2 * t) = 2 * y
        BY <1>1, <3>3
      <4> HIDE DEF y
      <4> QED BY <1>4, <2>2, <3>1, <4>1
    <3>4. CASE k >= q + 1
      <4>1. (q + 1) * (2 * t) <= k * (2 * t) /\ (q + 1) * (2 * t) = 2 * (y + t)
        BY <1>1, <3>4
      <4> HIDE DEF y
      <4> QED BY <1>4, <2>3, <3>1, <4>1
    <3> QED BY <3>2, <3>3, <3>4
  <2> QED BY <2>4, <2>5 DEF Coarse
<1> QED BY <1>8, <1>9

RoundsTo(f, neg, m, i, v, d) == \E g : Nearest(f, neg, m, i) = Signed(f, neg, g) /\ Rounds(f, g, v, d)

\* A quotient is rounded as the numbers it is of.
LEMMA QuotientRounds ==
  ASSUME NEW f \in FloatTypes, NEW neg, NEW s \in Nat, NEW e \in Nat, NEW d \in Nat \ {0}, NEW l \in Nat, NEW k \in Nat,
         4 * Unit(f) <= 2 * ((s * 2^k) \div d), (s * 2^k) \div d \in Nat,
         NEW m, m = Sticky((s * 2^k) \div d, (s * 2^k) % d # 0)
  PROVE  RoundsTo(f, neg, m, (e - l) + ScaleBits - (k + 1), (s * 2^e) * One, d * 2^l)
<1> DEFINE n == s * 2^k
           v == (s * 2^e) * One
           u == d * 2^l
           i == (e - l) + ScaleBits - (k + 1)
           h == IF i >= 0 THEN 0 ELSE -i
           j == i + h + 1
           t == 2^j
           p == 2^h
           x == 2^l
<1>1. ScaleBits \in Nat /\ One = 2^ScaleBits /\ One \in Nat \ {0}
  BY OneInside
<1>2. i \in Int /\ h \in Nat /\ i + h >= 0 /\ i + h \in Nat /\ j \in Nat /\ (i + h) + 1 = j
      /\ k + (j + l) = (e + ScaleBits) + h
  BY <1>1
<1> HIDE DEF i, h, j
<1>3. t \in Nat \ {0} /\ p \in Nat \ {0} /\ x \in Nat \ {0} /\ 2^(i + h) \in Nat \ {0} /\ t = 2 * 2^(i + h)
      /\ 2^k \in Nat /\ 2^e \in Nat
  BY <1>2, Pow
<1>4. n \in Nat /\ s * 2^e \in Nat /\ u \in Nat \ {0}
  <2> DEFINE a == 2^k
             b == 2^e
  <2>1. a \in Nat /\ b \in Nat
    BY <1>3
  <2> HIDE DEF a, b, x
  <2> QED BY <1>3, <2>1 DEF a, b, x
<1>5. v \in Nat
  <2> DEFINE b == s * 2^e
  <2>1. b \in Nat
    BY <1>4
  <2> HIDE DEF b
  <2> QED BY <1>1, <2>1 DEF b
<1>6. v * p = n * (t * x)
  <2> DEFINE a == 2^k
             b == 2^e
             o == 2^ScaleBits
  <2>1. j + l \in Nat /\ e + ScaleBits \in Nat
    BY <1>1, <1>2
  <2>2. t * x = 2^(j + l) /\ a * 2^(j + l) = 2^(k + (j + l))
    BY <1>2, <2>1, PowAdd
  <2>3. b * o = 2^(e + ScaleBits) /\ 2^(e + ScaleBits) * p = 2^((e + ScaleBits) + h)
    BY <1>1, <1>2, <2>1, PowAdd
  <2>4. (b * o) * p = a * (t * x)
    BY <1>2, <2>2, <2>3
  <2>5. a \in Nat /\ b \in Nat /\ o \in Nat /\ n = s * a /\ v = (s * b) * o
    BY <1>1, <1>3
  <2> HIDE DEF a, b, o, n, v, t, p, x
  <2>6. ((s * b) * o) * p = s * ((b * o) * p) /\ (s * a) * (t * x) = s * (a * (t * x))
    BY <1>3, <2>5
  <2> QED BY <2>4, <2>5, <2>6
<1>7. m \in Nat
  BY DEF Sticky, Bool
<1>8. PICK g : Nearest(f, neg, m, i) = Signed(f, neg, g) /\ Rounds(f, g, m * 2^(i + h), 2^h)
  BY <1>2, <1>7, NearestRounds
<1> DEFINE w == m * 2^(i + h)
<1>9. w \in Nat /\ 2 * w = m * t
  <2> DEFINE y == 2^(i + h)
  <2>1. y \in Nat /\ t = 2 * y /\ w = m * y
    BY <1>3
  <2> HIDE DEF y, t, w
  <2> QED BY <1>7, <2>1
<1>10. Rounds(f, g, w, p)
  BY <1>8
<1>11. \A q \in Nat : /\ Between(f, q) \in Nat
                      /\ Coarse(Between(f, q) * p, 4 * Unit(f), t)
  BY <1>2, BetweenBits
<1> HIDE DEF w, t, p, x, u
<1>12. n \div d \in Nat /\ m = Sticky(n \div d, n % d # 0) /\ 4 * Unit(f) <= 2 * (n \div d) /\ 4 * Unit(f) \in Nat
  BY FormatFacts
<1>13. u = d * x
  BY DEF u, x
<1> HIDE DEF n, v
<1>14. \A q \in Nat : /\ 2 * w <= Between(f, q) * p <=> 2 * v <= Between(f, q) * u
                      /\ 2 * w >= Between(f, q) * p <=> 2 * v >= Between(f, q) * u
                      /\ Between(f, q) * p \in Nat /\ Between(f, q) * u \in Nat
  <2> TAKE q \in Nat
  <2> DEFINE a == Between(f, q)
             b == a * p
             z == 4 * Unit(f)
             y == n * t
  <2>1. a \in Nat /\ z \in Nat /\ z <= 2 * (n \div d)
    BY <1>11, <1>12
  <2>2. Coarse(b, z, t)
    BY <1>11
  <2> HIDE DEF a, z
  <2>3. b \in Nat /\ y \in Nat
    BY <1>3, <1>4, <2>1
  <2> HIDE DEF b
  <2>4. Shows(n, d, m, t, b)
    BY <1>3, <1>4, <1>12, <2>1, <2>2, <2>3, QuotientSide
  <2>5. (b <= m * t <=> b * d <= 2 * y) /\ (b >= m * t <=> b * d >= 2 * y)
    BY <2>4 DEF Shows
  <2> DEFINE c == b * d
             r == a * u
  <2>6. c \in Nat /\ r \in Nat /\ c * x = r * p
    <3>1. c \in Nat /\ r \in Nat
      BY <1>4, <2>1, <2>3
    <3>2. ((a * p) * d) * x = (a * (d * x)) * p
      BY <1>3, <2>1
    <3> QED BY <1>13, <3>1, <3>2 DEF b
  <2>7. y * x = v * p
    <3>1. n * (t * x) = (n * t) * x
      BY <1>3, <1>4
    <3> QED BY <1>6, <3>1
  <2> HIDE DEF c, r, y
  <2>8. (c <= 2 * y => c * x <= (2 * y) * x) /\ (2 * y <= c => (2 * y) * x <= c * x)
        /\ (c < 2 * y => c * x < (2 * y) * x) /\ (2 * y < c => (2 * y) * x < c * x)
    <3>1. 2 * y \in Nat
      BY <2>3
    <3> QED BY <1>3, <2>6, <3>1, ScaledOrder
  <2>9. (r <= 2 * v => r * p <= (2 * v) * p) /\ (2 * v <= r => (2 * v) * p <= r * p)
        /\ (r < 2 * v => r * p < (2 * v) * p) /\ (2 * v < r => (2 * v) * p < r * p)
    <3>1. 2 * v \in Nat
      BY <1>5
    <3> QED BY <1>3, <2>6, <3>1, ScaledOrder
  <2>10. (2 * y) * x = (2 * v) * p
    <3>1. (2 * y) * x = 2 * (y * x) /\ (2 * v) * p = 2 * (v * p)
      BY <1>3, <1>5, <2>3
    <3> QED BY <2>7, <3>1
  <2> DEFINE k1 == c * x
             k2 == (2 * v) * p
  <2>11. k1 \in Nat /\ k2 \in Nat /\ r * p = k1 /\ (2 * y) * x = k2
    BY <1>3, <1>5, <2>6, <2>10
  <2> HIDE DEF k1, k2
  <2>12. (c <= 2 * y <=> k1 <= k2) /\ (c >= 2 * y <=> k1 >= k2)
    BY <2>3, <2>6, <2>8, <2>11 DEF k1
  <2>13. (r <= 2 * v <=> k1 <= k2) /\ (r >= 2 * v <=> k1 >= k2)
    BY <1>5, <2>6, <2>9, <2>11 DEF k2
  <2>14. 2 * w = m * t /\ w \in Nat
    BY <1>9
  <2> DEFINE o == m * t
  <2>15. (b <= o <=> c <= 2 * y) /\ (b >= o <=> c >= 2 * y) /\ o = 2 * w
    BY <2>5, <2>14 DEF c
  <2> HIDE DEF o
  <2>16. (2 * w <= b <=> 2 * v <= r) /\ (2 * w >= b <=> 2 * v >= r)
    BY <1>5, <2>3, <2>6, <2>12, <2>13, <2>14, <2>15
  <2> QED BY <2>3, <2>6, <2>16 DEF a, b, r
<1>15. Rounds(f, g, v, u)
  <2>1. g \in 0 .. Inf(f) /\ Inf(f) \in Nat
    BY <1>10, InfBelow DEF Rounds
  <2>2. g \in Nat /\ (g > 0 => g - 1 \in Nat)
    BY <2>1
  <2>3. ASSUME g < Inf(f) PROVE RoundsUp(f, g, v, u)
    <3> DEFINE a == Between(f, g) * p
               b == Between(f, g) * u
    <3>1. /\ 2 * w <= a /\ (2 * w = a => g % 2 = 0) /\ a \in Nat /\ b \in Nat
          /\ 2 * w <= a <=> 2 * v <= b
          /\ 2 * w >= a <=> 2 * v >= b
      BY <1>10, <1>14, <2>2, <2>3 DEF Rounds, RoundsUp
    <3> HIDE DEF a, b
    <3>2. 2 * v <= b /\ (2 * v = b => g % 2 = 0)
      BY <1>5, <1>9, <3>1
    <3> QED BY <3>2 DEF RoundsUp, b
  <2>4. ASSUME g > 0 PROVE RoundsDown(f, g, v, u)
    <3> DEFINE a == Between(f, g - 1) * p
               b == Between(f, g - 1) * u
    <3>1. /\ 2 * w >= a /\ (2 * w = a => g % 2 = 0) /\ a \in Nat /\ b \in Nat
          /\ 2 * w <= a <=> 2 * v <= b
          /\ 2 * w >= a <=> 2 * v >= b
      BY <1>10, <1>14, <2>2, <2>4 DEF Rounds, RoundsDown
    <3> HIDE DEF a, b
    <3>2. 2 * v >= b /\ (2 * v = b => g % 2 = 0)
      BY <1>5, <1>9, <3>1
    <3> QED BY <3>2 DEF RoundsDown, b
  <2> QED BY <2>1, <2>3, <2>4 DEF Rounds
<1>16. RoundsTo(f, neg, m, i, v, u)
  BY <1>8, <1>15 DEF RoundsTo
<1> QED BY <1>16 DEF i, v, u

\* What is divided is made long enough for a quotient of more bits than the format.
LEMMA QuotientBits ==
  ASSUME NEW f \in FloatTypes, NEW x \in Unsigneds(Width(f)), NEW y \in Unsigneds(Width(f)), ~IsZero(f, x), ~IsZero(f, y),
         NEW k, k = 2 * Format[f].fraction + 4 - BitLen(Significand(f, x))
  PROVE  /\ k \in Nat /\ (Significand(f, x) * 2^k) \div Significand(f, y) \in Nat
         /\ 4 * Unit(f) <= 2 * ((Significand(f, x) * 2^k) \div Significand(f, y))
<1> DEFINE F == Format[f].fraction
           u == Unit(f)
           s == Significand(f, x)
           d == Significand(f, y)
           b == BitLen(s)
           n == s * 2^k
           q == n \div d
<1>1. F \in Nat \ {0} /\ u \in Nat \ {0} /\ u = 2^F
  BY FormatFacts DEF Unit
<1>2. s \in Nat /\ s > 0 /\ d \in Nat \ {0} /\ d < 2 * u /\ b <= F + 1
  <2>1. s \in Nat /\ s # 0 /\ b <= F + 1
    BY SignificandFacts
  <2>2. d \in Nat /\ d # 0 /\ d < 2 * u
    BY SignificandFacts
  <2> HIDE DEF s, d, b, u
  <2> QED BY <2>1, <2>2
<1>3. k = 2 * F + 4 - b
  OBVIOUS
<1> HIDE DEF F, u, s, d
<1>4. b \in Nat /\ b > 0 /\ 2^(b - 1) <= s
  BY <1>2, LenExact DEF IsLen
<1> HIDE DEF b
<1>5. k \in Nat /\ b - 1 \in Nat /\ (b - 1) + k = 2 * F + 3 /\ F + 1 \in Nat /\ F + 2 \in Nat /\ (F + 1) + (F + 2) = 2 * F + 3
  BY <1>1, <1>2, <1>3, <1>4
<1> DEFINE y1 == 2^k
           lo == 2^(F + 1)
           hi == 2^(F + 2)
<1>6. y1 \in Nat \ {0} /\ 2^(b - 1) \in Nat /\ 2^((b - 1) + k) = 2^(b - 1) * y1 /\ 2^((F + 1) + (F + 2)) = lo * hi
  BY <1>5, Pow, PowAdd
<1>7. lo = 2 * u /\ hi = 4 * u
  <2>1. lo = 2 * 2^F /\ 2^((F + 1) + 1) = 2 * lo /\ (F + 1) + 1 = F + 2
    BY <1>1, <1>5, Pow
  <2> QED BY <1>1, <2>1
<1>8. (2 * u) * (4 * u) <= n /\ n \in Nat
  <2> DEFINE z == 2^(b - 1)
  <2>1. z * y1 = (2 * u) * (4 * u)
    <3>1. z * y1 = lo * hi
      BY <1>5, <1>6
    <3> QED BY <1>7, <3>1
  <2>2. z \in Nat /\ z <= s
    BY <1>4, <1>6
  <2> HIDE DEF y1, z
  <2>3. z * y1 <= s * y1 /\ s * y1 \in Nat
    BY <1>2, <1>6, <2>2, ScaledOrder
  <2> QED BY <2>1, <2>3 DEF y1
<1> HIDE DEF n
<1>9. q \in Int /\ n % d \in 0 .. d - 1 /\ n = d * q + (n % d)
  <2>1. n \in Int
    BY <1>8
  <2> QED BY ONLY <1>2, <2>1, DivMod
<1> DEFINE c == n % d
<1> HIDE DEF c, q
<1>10. q \in Int /\ c \in 0 .. d - 1 /\ n = d * q + c
  BY <1>9 DEF c, q
<1>11. 4 * u <= q
  <2> SUFFICES ASSUME q + 1 <= 4 * u PROVE FALSE
    BY <1>1, <1>10
  <2> DEFINE a == 4 * u
  <2>1. a \in Nat /\ q + 1 <= a
    BY <1>1
  <2> HIDE DEF a
  <2>2. d * (q + 1) <= d * a /\ d * (q + 1) = d * q + d
    BY <1>2, <1>10, <2>1
  <2>3. d * a < (2 * u) * a
    <3>1. 2 * u \in Nat /\ a > 0
      BY <1>1 DEF a
    <3> DEFINE e == 2 * u
    <3>2. e \in Nat /\ d < e
      BY <1>2, <3>1
    <3> HIDE DEF e
    <3>3. d * a < e * a
      BY <1>2, <2>1, <3>1, <3>2, ScaledOrder
    <3> QED BY <3>3 DEF e
  <2> DEFINE l == (2 * u) * a
             r == d * q
             o == d * a
  <2>4. l \in Nat /\ o \in Nat /\ r \in Int
    BY <1>1, <1>2, <1>10, <2>1
  <2>5. l <= n /\ n = r + c /\ r + d <= o /\ o < l
    BY <1>8, <1>10, <2>2, <2>3 DEF a
  <2> HIDE DEF l, r, o
  <2> QED BY <1>2, <1>10, <2>4, <2>5
<1>12. q \in Nat /\ 4 * u <= 2 * q
  BY <1>1, <1>10, <1>11
<1> QED BY <1>5, <1>12 DEF q, n, s, d, u

LEMMA RatioExact ==
  ASSUME NEW f \in FloatTypes, NEW x \in Unsigneds(Width(f)), ~IsNaN(f, x), NEW y \in Unsigneds(Width(f)), ~IsNaN(f, y),
         ~IsInf(f, x), ~IsInf(f, y), ~IsZero(f, y)
  PROVE  LET r == Div(f, x, y)
         IN  r \in Unsigneds(Width(f)) /\ IsRounded(f, "div", x, y, r)
<1> DEFINE neg == IsNeg(f, x) # IsNeg(f, y)
           r == Div(f, x, y)
           s == Significand(f, x)
           d == Significand(f, y)
           e == Exponent(f, x)
           l == Exponent(f, y)
           k == 2 * Format[f].fraction + 4 - BitLen(s)
           m == Sticky((s * 2^k) \div d, (s * 2^k) % d # 0)
           i == e - l + ScaleBits - k - 1
           a == Units(f, Magnitude(f, x))
           b == Units(f, Magnitude(f, y))
           w == (IF Real(f, y) < 0 THEN -Real(f, x) ELSE Real(f, x))
<1>1. r = Nearest(f, neg, m, i)
  BY DEF Div
<1>2. /\ s \in Nat /\ d \in Nat \ {0} /\ e \in Nat /\ l \in Nat /\ a \in Nat /\ b \in Nat \ {0}
      /\ a = s * 2^e /\ b = d * 2^l /\ ScaleBits \in Nat /\ One \in Nat \ {0}
  <2>1. s \in Nat /\ d \in Nat /\ d # 0 /\ e \in Nat /\ l \in Nat /\ a \in Nat /\ b \in Nat /\ a = s * 2^e /\ b = d * 2^l
    BY RealUnits, SignificandFacts
  <2>2. 2^l \in Nat \ {0}
    BY <2>1, Pow
  <2>3. b # 0
    <3> DEFINE p == 2^l
    <3>1. p \in Nat \ {0} /\ b = d * p
      BY <2>1, <2>2
    <3> HIDE DEF p, b, d
    <3> QED BY <2>1, <3>1
  <2> HIDE DEF s, d, e, l, a, b
  <2> QED BY <2>1, <2>3, OneInside
<1>3. neg \in BOOLEAN /\ Abs(Real(f, y)) = b /\ w = (IF neg THEN -a ELSE a)
  <2>1. /\ Abs(Real(f, y)) = b
        /\ b # 0 => w = (IF neg THEN -a ELSE a)
    BY SignedPair
  <2>2. b # 0
    BY <1>2
  <2> HIDE DEF a, b, w, neg
  <2>3. neg \in BOOLEAN
    BY DEF neg
  <2> QED BY <2>1, <2>2, <2>3
<1>4. \E g : r = Signed(f, neg, g) /\ Rounds(f, g, a * One, b)
  <2>1. CASE ~IsZero(f, x)
    <3>1. k \in Nat /\ (s * 2^k) \div d \in Nat /\ 4 * Unit(f) <= 2 * ((s * 2^k) \div d)
      BY <2>1, QuotientBits
    <3> HIDE DEF s, d, e, l, k, neg, r
    <3>2. RoundsTo(f, neg, m, (e - l) + ScaleBits - (k + 1), (s * 2^e) * One, d * 2^l)
      BY ONLY f \in FloatTypes, <1>2, <3>1, QuotientRounds
    <3>3. (e - l) + ScaleBits - (k + 1) = i
      BY <1>2, <3>1
    <3> HIDE DEF m, i, a, b
    <3>4. RoundsTo(f, neg, m, i, a * One, b)
      BY <1>2, <3>2, <3>3
    <3> QED BY <1>1, <3>4 DEF RoundsTo
  <2>2. CASE IsZero(f, x)
    <3>1. s = 0 /\ k = 2 * Format[f].fraction + 4 - BitLen(0) /\ BitLen(0) = 0
      <4>1. s = 0
        BY <2>2, SignificandFacts
      <4> QED BY <4>1, LenExact
    <3>2. k \in Nat
      <4> HIDE DEF k
      <4> QED BY <3>1, FormatFacts
    <3>3. m = 0
      <4>1. 2^k \in Nat
        BY <3>2, Pow
      <4> HIDE DEF k, d
      <4>2. s * 2^k = 0
        BY <3>1, <4>1
      <4>3. 0 \div d = 0 /\ 0 % d = 0
        BY <1>2
      <4> QED BY <4>2, <4>3 DEF Sticky, Bool
    <3>4. a = 0
      <4>1. 2^e \in Nat
        BY <1>2, Pow
      <4> DEFINE p == 2^e
      <4>2. p \in Nat /\ a = s * p
        BY <1>2, <4>1
      <4> HIDE DEF p, a, s
      <4> QED BY <3>1, <4>2
    <3>5. r = Signed(f, neg, 0)
      <4>1. Nearest(f, neg, 0, i) = Signed(f, neg, Least(Inf(f), (Format[f].least - Format[f].least) * 2^Format[f].fraction + 0))
        BY DEF Nearest
      <4>2. (Format[f].least - Format[f].least) * 2^Format[f].fraction + 0 = 0 /\ Least(Inf(f), 0) = 0
        <5>1. Format[f].least \in Nat /\ 2^Format[f].fraction \in Nat /\ Inf(f) \in Nat
          BY FormatFacts DEF Unit
        <5> QED BY <5>1 DEF Least
      <4> HIDE DEF r, neg, m, i
      <4> QED BY <1>1, <3>3, <4>1, <4>2
    <3>6. Rounds(f, 0, 0, b)
      BY <1>2, ZeroRounds
    <3> HIDE DEF r, neg, a, b
    <3>7. 0 * One = 0
      BY <1>2
    <3> QED BY <3>4, <3>5, <3>6, <3>7
  <2> QED BY <2>1, <2>2
<1>5. PICK g : r = Signed(f, neg, g) /\ Rounds(f, g, a * One, b)
  BY <1>4
<1> HIDE DEF r, a, b, neg, w
<1> DEFINE t == a * One
           v == w * One
<1>6. t \in Nat /\ v \in Int /\ v = (IF neg THEN -t ELSE t) /\ Rounds(f, g, t, b)
  <2>1. t \in Nat /\ (-a) * One = -(a * One)
    BY <1>2
  <2>2. v = (IF neg THEN -t ELSE t)
    BY <1>3, <2>1
  <2> HIDE DEF t, v
  <2>3. Rounds(f, g, t, b)
    BY <1>5 DEF t
  <2> QED BY <2>1, <2>2, <2>3
<1> HIDE DEF t, v
<1>7. IsNearestQuotient(f, v, b, r) /\ r \in Unsigneds(Width(f))
  BY <1>2, <1>3, <1>5, <1>6, QuotientNearest
<1>8. IsNeg(f, r) = neg
  <2>1. g \in 0 .. SignBit(f) - 1
    BY <1>5, InfBelow DEF Rounds
  <2> QED BY <1>3, <1>5, <2>1, SignedPattern
<1>9. IsRounded(f, "div", x, y, r)
  BY <1>3, <1>7, <1>8 DEF IsRounded, neg, v, w
<1> QED BY <1>7, <1>9 DEF r

LEMMA FloatDivisionExact ==
  ASSUME NEW f \in FloatTypes, NEW x \in Unsigneds(Width(f)), ~IsNaN(f, x), NEW y \in Unsigneds(Width(f)), ~IsNaN(f, y)
  PROVE  FloatBinaryIs(f, "div", x, y, Div(f, x, y))
<1> DEFINE neg == IsNeg(f, x) # IsNeg(f, y)
           r == Div(f, x, y)
<1>1. neg \in BOOLEAN
  OBVIOUS
<1>2. CASE Finite(f, x) /\ Finite(f, y) /\ ~IsZero(f, y)
  <2>1. ~IsInf(f, x) /\ ~IsInf(f, y)
    BY <1>2 DEF Finite
  <2>2. r \in Unsigneds(Width(f)) /\ IsRounded(f, "div", x, y, r)
    BY <1>2, <2>1, RatioExact
  <2> HIDE DEF r
  <2> QED BY <1>2, <2>2 DEF FloatBinaryIs, ExactFloatBinary, r
<1>3. CASE ~(Finite(f, x) /\ Finite(f, y) /\ ~IsZero(f, y))
  <2>1. IsInf(f, x) \/ IsInf(f, y) \/ IsZero(f, y)
    BY <1>3 DEF Finite
  <2>2. r = CanonicalNaN(f) \/ r = Signed(f, neg, Inf(f)) \/ r = Signed(f, neg, 0)
    BY <2>1 DEF Div
  <2> HIDE DEF r, neg
  <2>3. Inf(f) \in 0 .. SignBit(f) - 1 /\ 0 \in 0 .. SignBit(f) - 1
    BY InfBelow, FormatFacts
  <2>4. r \in Unsigneds(Width(f)) /\ (r = CanonicalNaN(f) \/ IsInf(f, r) \/ IsZero(f, r))
    BY <1>1, <2>2, <2>3, CanonicalExact, SignedPattern DEF IsInf, IsZero
  <2> QED BY <1>3, <2>4 DEF FloatBinaryIs, ExactFloatBinary, r
<1> QED BY <1>2, <1>3

\* Every scalar floating-point instruction on two operands.
LEMMA FloatBinaryExact ==
  ASSUME NEW t \in FloatTypes, NEW op \in FloatBinaries, NEW x \in Unsigneds(Width(t)), NEW y \in Unsigneds(Width(t))
  PROVE  FloatBinaryIs(t, op, x, y, FloatBinaryOf(t, op, x, y))
<1>1. ASSUME op = "copysign" PROVE FloatBinaryIs(t, op, x, y, FloatBinaryOf(t, op, x, y))
  <2>1. FloatBinaryOf(t, op, x, y) = Signed(t, IsNeg(t, y), Magnitude(t, x))
    BY <1>1 DEF FloatBinaryOf, evalF32Binary, evalF64Binary, Copysign, FloatTypes
  <2> DEFINE r == Signed(t, IsNeg(t, y), Magnitude(t, x))
  <2>2. r \in Unsigneds(Width(t)) /\ Magnitude(t, r) = Magnitude(t, x) /\ IsNeg(t, r) = IsNeg(t, y)
    BY PatternSigned, SignedPattern
  <2> HIDE DEF r
  <2>3. FloatBinaryIs(t, op, x, y, r)
    BY <1>1, <2>2 DEF FloatBinaryIs, ExactFloatBinary
  <2> QED BY <2>1, <2>3 DEF r
<1>2. ASSUME op # "copysign" PROVE FloatBinaryIs(t, op, x, y, FloatBinaryOf(t, op, x, y))
  <2>1. op \in {"add", "sub", "mul", "div", "min", "max"}
    BY <1>2 DEF FloatBinaries
  <2>2. FloatBinaryOf(t, op, x, y) = FloatBinary(t, op, x, y)
    BY <1>2 DEF FloatBinaryOf, evalF32Binary, evalF64Binary, binaryF32, binaryF64, FloatTypes
  <2>3. CASE IsNaN(t, x) \/ IsNaN(t, y)
    <3>1. FloatBinary(t, op, x, y) = CanonicalNaN(t)
      BY <2>1, <2>3 DEF FloatBinary
    <3>2. FloatBinaryIs(t, op, x, y, CanonicalNaN(t))
      BY <1>2, <2>3, CanonicalExact DEF FloatBinaryIs, ExactFloatBinary
    <3> QED BY <2>2, <3>1, <3>2
  <2>4. CASE ~(IsNaN(t, x) \/ IsNaN(t, y))
    <3>1. /\ op = "min" => FloatBinary(t, op, x, y) = MinOf(t, x, y)
          /\ op = "max" => FloatBinary(t, op, x, y) = MaxOf(t, x, y)
          /\ op = "add" => FloatBinary(t, op, x, y) = Add(t, x, y)
          /\ op = "sub" => FloatBinary(t, op, x, y) = Add(t, x, Negate(t, y))
          /\ op = "mul" => FloatBinary(t, op, x, y) = Mul(t, x, y)
          /\ op = "div" => FloatBinary(t, op, x, y) = Div(t, x, y)
      BY <2>4 DEF FloatBinary
    <3>2. /\ FloatBinaryIs(t, "min", x, y, MinOf(t, x, y))
          /\ FloatBinaryIs(t, "max", x, y, MaxOf(t, x, y))
      BY <2>4, LesserExact
    <3>3. /\ FloatBinaryIs(t, "add", x, y, Add(t, x, y))
          /\ FloatBinaryIs(t, "sub", x, y, Add(t, x, Negate(t, y)))
      BY <2>4, SumExact
    <3>4. FloatBinaryIs(t, "mul", x, y, Mul(t, x, y)) /\ FloatBinaryIs(t, "div", x, y, Div(t, x, y))
      BY <2>4, ProductExact, FloatDivisionExact
    <3> QED BY <2>1, <2>2, <3>1, <3>2, <3>3, <3>4
  <2> QED BY <2>3, <2>4
<1> QED BY <1>1, <1>2

-----------------------------------------------------------------------------
(* The instruction *)

FloatsAs(r) ==
  only.t \in FloatTypes =>
    CASE only.class = "unary" -> ExactFloatUnary(only.t, only.op, X(1), r)
      [] only.class = "binary" -> ExactFloatBinary(only.t, only.op, X(1), X(2), r)
      [] OTHER -> TRUE

LEMMA FloatsPrimed ==
  ASSUME UNCHANGED <<prog, args>>, FloatsAs(Result')
  PROVE  FloatsExact'
<1>1. only' = only /\ X(1)' = X(1) /\ X(2)' = X(2)
  BY DEF only, X
<1>2. (only.t \in {"f32", "f64"} =>
         CASE only.class = "unary" -> ExactFloatUnary(only.t, only.op, X(1), Result)
           [] only.class = "binary" -> ExactFloatBinary(only.t, only.op, X(1), X(2), Result)
           [] OTHER -> TRUE)'
  BY <1>1 DEF FloatsAs, FloatTypes
<1> QED BY <1>2 DEF FloatsExact

FloatActions == F32Unary \/ F32Binary \/ F64Unary \/ F64Binary

LEMMA FloatStep ==
  ASSUME Single, out' # "fault", FloatActions
  PROVE  FloatsAs(Result') /\ UNCHANGED <<prog, args>>
<1>1. ASSUME NEW t \in FloatTypes, NEW r \in Unsigneds(Width(t)) PROVE r # Trap
  <2>1. r >= 0
    BY <1>1 DEF Unsigneds
  <2> QED BY <2>1 DEF Trap
<1>2. ASSUME NEW t \in FloatTypes, ins.class = "unary", ins.t = t,
             ComputeOf(<<t>>, t, FloatUnaryOf(t, ins.op, Popped(<<t>>)[1]))
      PROVE  FloatsAs(Result') /\ UNCHANGED <<prog, args>>
  <2>1. Sig(ins) = Effect(<<t>>, <<t>>)
    BY <1>2 DEF Sig, Loads, MemoryClasses, TableClasses, NumericSig
  <2>2. Len(<<t>>) = Len(args) /\ X(1) \in Unsigneds(Width(t)) /\ Popped(<<t>>)[1] = X(1)
    BY <1>2, <2>1, OneNumber DEF FloatTypes
  <2> DEFINE v == FloatUnaryOf(t, ins.op, X(1))
  <2>3. ComputeOf(<<t>>, t, v)
    BY <1>2, <2>2
  <2>4. ins.op \in FloatUnaries /\ only = ins
    BY <1>2, SingleFacts DEF HasOperation, FloatTypes
  <2>5. v \in Unsigneds(Width(t)) /\ ExactFloatUnary(t, ins.op, X(1), v)
    BY <2>2, <2>4, FloatUnaryExact DEF UnaryIs
  <2> HIDE DEF v
  <2>6. Gets(v)
    BY <2>2, <2>3, ComputeOnce
  <2>7. v # Trap
    BY <1>1, <2>5
  <2> QED BY <1>2, <2>4, <2>5, <2>6, <2>7 DEF Gets, FloatsAs
<1>3. ASSUME NEW t \in FloatTypes, ins.class = "binary", ins.t = t,
             ComputeOf(<<t, t>>, t, FloatBinaryOf(t, ins.op, Popped(<<t, t>>)[2], Popped(<<t, t>>)[1]))
      PROVE  FloatsAs(Result') /\ UNCHANGED <<prog, args>>
  <2>1. Sig(ins) = Effect(<<t, t>>, <<t>>)
    BY <1>3 DEF Sig, Loads, MemoryClasses, TableClasses, NumericSig, FloatTypes
  <2>2. /\ Len(<<t, t>>) = Len(args) /\ X(1) \in Unsigneds(Width(t)) /\ X(2) \in Unsigneds(Width(t))
        /\ Popped(<<t, t>>)[1] = X(2) /\ Popped(<<t, t>>)[2] = X(1)
    BY <1>3, <2>1, TwoNumbers DEF FloatTypes
  <2> DEFINE v == FloatBinaryOf(t, ins.op, X(1), X(2))
  <2>3. ComputeOf(<<t, t>>, t, v)
    BY <1>3, <2>2
  <2>4. ins.op \in FloatBinaries /\ only = ins
    BY <1>3, SingleFacts DEF HasOperation, FloatTypes
  <2>5. v \in Unsigneds(Width(t)) /\ ExactFloatBinary(t, ins.op, X(1), X(2), v)
    BY <2>2, <2>4, FloatBinaryExact DEF FloatBinaryIs
  <2> HIDE DEF v
  <2>6. Gets(v)
    BY <2>2, <2>3, ComputeOnce
  <2>7. v # Trap
    BY <1>1, <2>5
  <2> QED BY <1>3, <2>4, <2>5, <2>6, <2>7 DEF Gets, FloatsAs
<1>4. "f32" \in FloatTypes /\ "f64" \in FloatTypes
  BY DEF FloatTypes
<1>5. CASE F32Unary
  <2>1. ins.class = "unary" /\ ins.t = "f32" /\ ComputeOf(<<"f32">>, "f32", FloatUnaryOf("f32", ins.op, Popped(<<"f32">>)[1]))
    BY <1>5 DEF F32Unary, At, Compute, ComputeOf, FloatUnaryOf
  <2> QED BY <1>2, <1>4, <2>1
<1>6. CASE F64Unary
  <2>1. ins.class = "unary" /\ ins.t = "f64" /\ ComputeOf(<<"f64">>, "f64", FloatUnaryOf("f64", ins.op, Popped(<<"f64">>)[1]))
    BY <1>6 DEF F64Unary, At, Compute, ComputeOf, FloatUnaryOf
  <2> QED BY <1>2, <1>4, <2>1
<1>7. CASE F32Binary
  <2>1. /\ ins.class = "binary" /\ ins.t = "f32"
        /\ ComputeOf(<<"f32", "f32">>, "f32",
             FloatBinaryOf("f32", ins.op, Popped(<<"f32", "f32">>)[2], Popped(<<"f32", "f32">>)[1]))
    BY <1>7 DEF F32Binary, At, Compute, ComputeOf, FloatBinaryOf
  <2> QED BY <1>3, <1>4, <2>1
<1>8. CASE F64Binary
  <2>1. /\ ins.class = "binary" /\ ins.t = "f64"
        /\ ComputeOf(<<"f64", "f64">>, "f64",
             FloatBinaryOf("f64", ins.op, Popped(<<"f64", "f64">>)[2], Popped(<<"f64", "f64">>)[1]))
    BY <1>8 DEF F64Binary, At, Compute, ComputeOf, FloatBinaryOf
  <2> QED BY <1>3, <1>4, <2>1
<1> QED BY <1>5, <1>6, <1>7, <1>8 DEF FloatActions

\* Only these actions compute floats from floats.
LEMMA ScalarActions ==
  ASSUME Next, ins.class \in {"unary", "binary"}, ins.t \in FloatTypes
  PROVE  FloatActions
<1>1. ins.t # "i32" /\ ins.t # "i64"
  BY DEF FloatTypes
<1>2. ~Const /\ ~Convert /\ ~Integer
  BY <1>1 DEF Const, Convert, Integer, I32Binary, I32Eqz, I32Unary, I64Binary, I64Compare, I64Eqz, I64Unary, At
<1>3. ~F32Compare /\ ~F64Compare
  BY DEF F32Compare, F64Compare, At
<1>4. ~Vector
  BY DEF Vector, Splat, ExtractLane, ReplaceLane, Shuffle, VTest, VUnary, VBinary, VShift, VTernary, VCompare, At
<1>5. ~Accessing
  BY NoAccess DEF Places, Accesses, Loads, MemoryClasses, TableClasses
<1>6. ~Memories
  BY DEF Memories, MemorySize, MemoryGrow, MemoryCopy, MemoryFill, MemoryInit, DataDrop, At
<1>7. ~Tables
  BY DEF Tables, TableSize, TableGet, TableSet, TableGrow, TableFill, TableCopy, TableInit, ElemDrop, At
<1> QED BY <1>2, <1>3, <1>4, <1>5, <1>6, <1>7 DEF Next, Float, FloatActions

FloatsInv == MemoryInv /\ FloatsExact

LEMMA FloatsStart == Init => FloatsInv
<1> SUFFICES ASSUME Init PROVE FloatsInv
  OBVIOUS
<1>1. out = "run"
  BY DEF Init
<1> QED BY <1>1, MemoryStart DEF FloatsInv, FloatsExact, Ended

LEMMA FloatsNext == FloatsInv /\ [Next]_vars => FloatsInv'
<1> SUFFICES ASSUME FloatsInv, [Next]_vars PROVE FloatsInv'
  OBVIOUS
<1>1. MemoryInv'
  BY MemoryNext DEF FloatsInv
<1>2. CASE UNCHANGED vars
  <2>1. prog' = prog /\ args' = args /\ stack' = stack /\ out' = out
    BY <1>2 DEF vars
  <2>2. Ended' = Ended /\ only' = only /\ X(1)' = X(1) /\ X(2)' = X(2) /\ Result' = Result
    BY <2>1 DEF Ended, only, X, Result
  <2>3. FloatsExact'
    BY <2>2, Zenon DEF FloatsInv, FloatsExact
  <2> QED BY <1>1, <2>3 DEF FloatsInv
<1>3. CASE Next
  <2>1. /\ out = "run" /\ UNCHANGED <<prog, args>> /\ out' # "fault" /\ pc \in 1 .. Len(prog) /\ Len(prog) \in {1, 2}
    BY <1>3, StepShape DEF MemoryInv, FloatsInv
  <2>2. CASE Len(prog) = 1 /\ only.class \in {"unary", "binary"} /\ only.t \in FloatTypes
    <3>1. pc = 1 /\ ins = only
      BY <2>1, <2>2 DEF ins, only
    <3>2. Single
      BY <2>1, <2>2, <3>1 DEF Single, MemoryInv, FloatsInv, AgreeInv
    <3>3. FloatActions
      BY <1>3, <2>2, <3>1, ScalarActions
    <3>4. FloatsAs(Result')
      BY <2>1, <3>2, <3>3, FloatStep
    <3> QED BY <1>1, <2>1, <3>4, FloatsPrimed DEF FloatsInv
  <2>3. CASE ~ (Len(prog) = 1 /\ only.class \in {"unary", "binary"} /\ only.t \in FloatTypes)
    <3>1. only' = only
      BY <2>1 DEF only
    <3>2. FloatsExact'
      BY <2>1, <2>3, <3>1 DEF FloatsExact, Ended, FloatTypes
    <3> QED BY <1>1, <3>2 DEF FloatsInv
  <2> QED BY <2>2, <2>3
<1> QED BY <1>2, <1>3

\* f32 and f64 instructions give a nearest float of the exact result, for every format and all operands; what f32
\* rounds to an integer as an f64 included. They keep the sign of zeros, let -0 be less than +0 and give the canonical NaN.
THEOREM FloatsSafe == Spec => []FloatsExact
<1>1. Init => FloatsInv
  BY FloatsStart
<1>2. FloatsInv /\ [Next]_vars => FloatsInv'
  BY FloatsNext
<1>3. FloatsInv => FloatsExact
  BY DEF FloatsInv
<1> QED BY <1>1, <1>2, <1>3, PTL DEF Spec

-----------------------------------------------------------------------------
(* Vectors as lanes *)

LaneShapes == IntShapes \cup FloatShapes
Bits(n) == n * ByteBits

LEMMA ShapeFacts ==
  ASSUME NEW shape \in LaneShapes
  PROVE  /\ LaneBytes[shape] \in LaneSizes
         /\ LaneType[shape] \in {"i32", "i64", "f32", "f64"}
         /\ LaneBytes[shape] <= Bytes[LaneType[shape]] /\ Bytes[LaneType[shape]] \in {4, 8}
         /\ shape \in FloatShapes => LaneType[shape] = FloatShapeType[shape] /\ LaneBytes[shape] = Bytes[LaneType[shape]]
BY DEF LaneShapes, IntShapes, FloatShapes, LaneBytes, LaneType, Bytes, LaneSizes, FloatShapeType

LEMMA LaneBits ==
  ASSUME NEW n \in LaneSizes
  PROVE  /\ Bits(n) \in Nat \ {0} /\ ByteBits <= Bits(n) /\ 2^Bits(n) \in Nat \ {0} /\ n \in Nat \ {0}
         /\ \A m \in LaneSizes : n <= m => Bits(n) <= Bits(m)
<1>1. ByteBits \in Nat \ {0}
  BY ByteFacts
<1>2. Bits(1) = ByteBits /\ Bits(2) = 2 * ByteBits /\ Bits(4) = 4 * ByteBits /\ Bits(8) = 8 * ByteBits
  BY <1>1 DEF Bits
<1>3. Bits(n) \in Nat \ {0} /\ ByteBits <= Bits(n) /\ \A m \in LaneSizes : n <= m => Bits(n) <= Bits(m)
  BY <1>1, <1>2 DEF LaneSizes
<1>4. 2^Bits(n) \in Nat \ {0}
  BY <1>3, Pow
<1> QED BY <1>3, <1>4 DEF LaneSizes

\* Lanes that are put together can be read again.
LEMMA LanesMade ==
  ASSUME NEW n \in LaneSizes, NEW lanes, \A i \in Lanes(n) : lanes[i] \in Unsigneds(Bits(n))
  PROVE  /\ Pack(n, lanes) \in Vectors
         /\ \A i \in Lanes(n) : Lane(Pack(n, lanes), n, i) = lanes[i]
<1>1. \A i \in Lanes(n) : lanes[i] \in 0 .. 2^(n * ByteBits) - 1 /\ lanes[i] \in Int
  BY DEF Unsigneds, Bits
<1>2. /\ Pack(n, lanes) \in Vectors
      /\ \A i \in Lanes(n) : Lane(Pack(n, lanes), n, i) = lanes[i] % 2^(n * ByteBits)
  BY <1>1, LanePack
<1>3. \A i \in Lanes(n) : lanes[i] % 2^(n * ByteBits) = lanes[i]
  <2> DEFINE p == 2^(n * ByteBits)
  <2>1. p \in Nat \ {0}
    BY LaneBits DEF Bits
  <2>2. \A i \in Lanes(n) : lanes[i] \in 0 .. p - 1
    BY <1>1
  <2> HIDE DEF p
  <2>3. \A i \in Lanes(n) : lanes[i] % p = lanes[i]
    BY <2>1, <2>2, SmallMod
  <2> QED BY <2>3 DEF p
<1> QED BY <1>2, <1>3

LEMMA LaneNumber ==
  ASSUME NEW n \in LaneSizes, NEW v \in Vectors, NEW i \in Lanes(n)
  PROVE  Lane(v, n, i) \in Unsigneds(Bits(n)) /\ Lane(v, n, i) \in Int
BY LaneRange DEF Unsigneds, Bits

-----------------------------------------------------------------------------
(* Splat, extract, replace, shuffle *)

LEMMA SplatExact ==
  ASSUME NEW shape \in LaneShapes, NEW x \in Int
  PROVE  \A i \in Lanes(LaneBytes[shape]) : Lane(evalV128Splat(shape, x), LaneBytes[shape], i) = U(LaneBytes[shape] * ByteBits, x)
<1> DEFINE n == LaneBytes[shape]
           lanes == [i \in Lanes(n) |-> U(n * ByteBits, x)]
<1>1. n \in LaneSizes
  BY ShapeFacts
<1>2. \A i \in Lanes(n) : lanes[i] = U(n * ByteBits, x)
  OBVIOUS
<1>3. evalV128Splat(shape, x) = Pack(n, lanes)
  BY DEF evalV128Splat, splatV128
<1> HIDE DEF n, lanes
<1>4. U(n * ByteBits, x) \in Unsigneds(Bits(n))
  BY <1>1, LaneBits, CutExact DEF Bits
<1>5. \A i \in Lanes(n) : Lane(Pack(n, lanes), n, i) = lanes[i]
  BY <1>1, <1>2, <1>4, LanesMade
<1> QED BY <1>2, <1>3, <1>5 DEF n

LEMMA ExtractExact ==
  ASSUME NEW shape \in LaneShapes, NEW how, NEW lane \in Lanes(LaneBytes[shape]), NEW v \in Vectors
  PROVE  Read(Bytes[LaneType[shape]], how, evalV128ExtractLane(shape, how, lane, v))
           = Read(LaneBytes[shape], how, Lane(v, LaneBytes[shape], lane))
<1> DEFINE n == LaneBytes[shape]
           m == Bytes[LaneType[shape]]
           x == Lane(v, n, lane)
           r == evalV128ExtractLane(shape, how, lane, v)
<1>1. n \in LaneSizes /\ m \in LaneSizes /\ n <= m
  BY ShapeFacts DEF LaneSizes
<1>2. r = IF how = "s" THEN SignExtend(n * ByteBits, ByteBits * m, x) ELSE x
  BY DEF evalV128ExtractLane, v128LaneByteOffset, Lane, Width
<1> HIDE DEF n, m, r
<1>3. x \in Unsigneds(Bits(n))
  BY <1>1, LaneNumber DEF n
<1> HIDE DEF x
<1>4. CASE how = "s"
  <2>1. ByteBits * m = Bits(m) /\ n * ByteBits = Bits(n) /\ Bits(n) <= Bits(m) /\ Bits(n) \in Nat \ {0} /\ Bits(m) \in Nat \ {0}
    BY <1>1, LaneBits, ByteFacts DEF Bits
  <2>2. S(Bits(m), r) = S(Bits(n), x)
    BY <1>2, <1>3, <1>4, <2>1, Extended
  <2> QED BY <1>4, <2>2 DEF Read, Bits, n, m, x, r
<1>5. CASE how # "s"
  BY <1>2, <1>5 DEF Read, n, m, x, r
<1> QED BY <1>4, <1>5

\* Replacing a lane writes it and keeps the others.
Replaces(shape, lane, v, x, r) ==
  LET n == LaneBytes[shape]
  IN  \A i \in Lanes(n) : Lane(r, n, i) = IF i = lane THEN U(n * ByteBits, x) ELSE Lane(v, n, i)

LEMMA ReplaceExact ==
  ASSUME NEW shape \in LaneShapes, NEW lane \in Lanes(LaneBytes[shape]), NEW v, NEW x \in Int
  PROVE  Replaces(shape, lane, v, x, evalV128ReplaceLane(shape, lane, v, x))
<1> SUFFICES ASSUME NEW i \in Lanes(LaneBytes[shape])
             PROVE  Lane(evalV128ReplaceLane(shape, lane, v, x), LaneBytes[shape], i)
                      = IF i = lane THEN U(LaneBytes[shape] * ByteBits, x) ELSE Lane(v, LaneBytes[shape], i)
  BY DEF Replaces
<1> DEFINE n == LaneBytes[shape]
           first == n * lane + 1
           r == evalV128ReplaceLane(shape, lane, v, x)
<1>1. n \in LaneSizes
  BY ShapeFacts
<1>2. r = [k \in 1 .. VectorBytes |-> IF k \in first .. first + n - 1 THEN ByteAt(x, k - first) ELSE v[k]]
  BY DEF evalV128ReplaceLane, v128LaneByteOffset
<1>3. lane \in Lanes(n) /\ i \in Lanes(n)
  OBVIOUS
<1> HIDE DEF n, r
<1>4. n \in Nat \ {0} /\ lane \in Int /\ i \in Int
  BY <1>1, <1>3, LanePlaces DEF Lanes
<1>5. CASE i = lane
  <2>1. \A k \in 0 .. n - 1 : r[first + k] = ByteAt(x, k)
    <3> TAKE k \in 0 .. n - 1
    <3>1. first + k \in 1 .. VectorBytes /\ first \in Nat
      BY <1>1, <1>3, LanePlaces
    <3> HIDE DEF first
    <3>2. first + k \in first .. first + n - 1 /\ (first + k) - first = k
      BY <1>4, <3>1
    <3> QED BY <1>2, <3>1, <3>2
  <2>2. first \in Int
    BY <1>1, <1>3, LanePlaces
  <2> HIDE DEF first
  <2>3. Word(r, first, n) = x % 2^(n * ByteBits)
    BY <1>4, <2>1, <2>2, WordOfBytes
  <2> QED BY <1>5, <2>3 DEF Lane, U, first, n, r
<1>6. CASE i # lane
  <2> DEFINE at == n * i + 1
  <2>1. \A k \in 0 .. n - 1 : r[at + k] = v[at + k]
    <3> TAKE k \in 0 .. n - 1
    <3>1. at + k \in 1 .. VectorBytes /\ at \in Nat /\ first \in Nat /\ ((at + k) - 1) \div n = i
      BY <1>1, <1>3, LanePlaces
    <3>2. ASSUME at + k \in first .. first + n - 1 PROVE FALSE
      <4> DEFINE j == (at + k) - first
      <4>1. j \in 0 .. n - 1 /\ first + j = at + k
        BY <1>4, <3>1, <3>2
      <4> HIDE DEF j
      <4>2. ((first + j) - 1) \div n = lane
        BY <1>1, <1>3, <4>1, LanePlaces
      <4> QED BY <1>6, <3>1, <4>1, <4>2
    <3> HIDE DEF at, first
    <3> QED BY <1>2, <3>1, <3>2
  <2>2. at \in Int
    BY <1>1, <1>3, LanePlaces
  <2> HIDE DEF at
  <2>3. Word(r, at, n) = Word(v, at, n)
    BY <1>4, <2>1, <2>2, WordSame
  <2> QED BY <1>6, <2>3 DEF Lane, at, n, r
<1> QED BY <1>5, <1>6

LEMMA VectorJoined ==
  ASSUME NEW a \in Vectors, NEW b \in Vectors
  PROVE  /\ \A k \in 1 .. 16 : (a \o b)[k] = a[k]
         /\ \A k \in 17 .. 32 : (a \o b)[k] = b[k - 16]
<1>1. ASSUME NEW v \in [1 .. 16 -> Byte] PROVE v \in Seq(Byte) /\ Len(v) = 16
  <2>1. v = [k \in 1 .. 16 |-> v[k]] /\ \A k \in 1 .. 16 : v[k] \in Byte
    OBVIOUS
  <2>2. [k \in 1 .. 16 |-> v[k]] \in Seq(Byte) /\ Len([k \in 1 .. 16 |-> v[k]]) = 16
    BY <2>1
  <2> QED BY <2>1, <2>2, Zenon
<1>2. a \in [1 .. 16 -> Byte] /\ b \in [1 .. 16 -> Byte]
  BY DEF Vectors, VectorBytes
<1>3. a \in Seq(Byte) /\ b \in Seq(Byte) /\ Len(a) = 16 /\ Len(b) = 16
  BY <1>1, <1>2
<1>4. /\ \A k \in 1 .. Len(a) : (a \o b)[k] = a[k]
      /\ \A k \in Len(a) + 1 .. Len(a) + Len(b) : (a \o b)[k] = b[k - Len(a)]
  BY <1>3, Concat
<1>5. \A k \in 1 .. 16 : (a \o b)[k] = a[k]
  BY <1>3, <1>4
<1>6. \A k \in 16 + 1 .. 16 + 16 : (a \o b)[k] = b[k - 16]
  BY <1>3, <1>4, Zenon
<1> DEFINE joined == a \o b
<1>7. /\ \A k \in 1 .. 16 : joined[k] = a[k]
      /\ \A k \in 16 + 1 .. 16 + 16 : joined[k] = b[k - 16]
  BY <1>5, <1>6, Zenon
<1> HIDE DEF joined
<1>8. \A k \in 17 .. 32 : joined[k] = b[k - 16]
  BY <1>7
<1> QED BY <1>7, <1>8, Zenon DEF joined

LEMMA ShuffleExact ==
  ASSUME NEW lanes \in [1 .. VectorBytes -> 0 .. 2 * VectorBytes - 1], NEW a \in Vectors, NEW b \in Vectors
  PROVE  \A k \in 1 .. VectorBytes : evalI8x16Shuffle(lanes, a, b)[k] = (a \o b)[lanes[k] + 1]
<1> TAKE k \in 1 .. VectorBytes
<1> DEFINE l == lanes[k]
<1>1. l \in 0 .. 31
  BY DEF VectorBytes
<1>2. evalI8x16Shuffle(lanes, a, b)[k] = IF l < 16 THEN a[l + 1] ELSE b[l - 16 + 1]
  BY DEF evalI8x16Shuffle, VectorBytes
<1> HIDE DEF l
<1>3. CASE l < 16
  <2>1. l + 1 \in 1 .. 16
    BY <1>1, <1>3
  <2> QED BY <1>2, <1>3, <2>1, VectorJoined DEF l
<1>4. CASE ~ (l < 16)
  <2>1. l + 1 \in 17 .. 32 /\ (l + 1) - 16 = l - 16 + 1
    BY <1>1, <1>4
  <2>2. (a \o b)[l + 1] = b[(l + 1) - 16]
    BY <2>1, VectorJoined
  <2> QED BY <1>2, <1>4, <2>1, <2>2 DEF l
<1> QED BY <1>3, <1>4

LEMMA ZeroIsVector == ZeroVector \in Vectors /\ \A k \in 1 .. 16 : ZeroVector[k] = 0
<1>1. 0 \in Byte
  BY ByteFacts DEF Byte
<1> QED BY <1>1 DEF ZeroVector, Vectors, VectorBytes

LEMMA SwizzleExact ==
  ASSUME NEW a \in Vectors, NEW b \in Vectors
  PROVE  \A k \in 1 .. VectorBytes : swizzleI8x16(a, b)[k] = (a \o ZeroVector)[Least(IndexStep * b[k], VectorBytes) + 1]
<1> TAKE k \in 1 .. VectorBytes
<1> DEFINE l == IndexStep * b[k]
           z == ZeroVector
<1>1. l \in Nat
  <2>1. b[k] \in 0 .. 2^ByteBits - 1 /\ 2^ByteBits \in Nat
    BY ByteFacts DEF Vectors, Byte
  <2>2. b[k] \in Nat /\ IndexStep \in Nat
    BY <2>1, IndexStepAssumption
  <2> QED BY <2>2
<1>2. swizzleI8x16(a, b)[k] = IF l < 16 THEN a[l + 1] ELSE 0
  BY DEF swizzleI8x16, VectorBytes
<1>3. Least(l, VectorBytes) = IF l < 16 THEN l ELSE 16
  BY DEF Least, VectorBytes
<1>4. z \in Vectors /\ z[1] = 0
  BY ZeroIsVector
<1> HIDE DEF l, z
<1>5. (a \o z)[17] = z[17 - 16]
  BY <1>4, VectorJoined, 17 \in 17 .. 32
<1>6. CASE l < 16
  <2>1. l + 1 \in 1 .. 16
    BY <1>1, <1>6
  <2>2. (a \o z)[l + 1] = a[l + 1]
    BY <1>4, <2>1, VectorJoined
  <2> QED BY <1>2, <1>3, <1>6, <2>2 DEF l, z
<1>7. CASE ~ (l < 16)
  <2>1. Least(l, VectorBytes) + 1 = 17 /\ 17 - 16 = 1
    BY <1>3, <1>7
  <2> QED BY <1>2, <1>4, <1>5, <1>7, <2>1 DEF l, z
<1> QED BY <1>6, <1>7

-----------------------------------------------------------------------------
(* Tests *)

LEMMA AnyExact ==
  ASSUME NEW v \in Vectors
  PROVE  (Bool(v128AnyTrue(v)) = 1) = (v # ZeroVector)
<1>1. v # ZeroVector <=> v128AnyTrue(v)
  <2>1. ASSUME ~v128AnyTrue(v) PROVE v = ZeroVector
    BY <2>1 DEF v128AnyTrue, ZeroVector, Vectors
  <2>2. ASSUME v128AnyTrue(v) PROVE v # ZeroVector
    BY <2>2, ZeroIsVector DEF v128AnyTrue, VectorBytes
  <2> QED BY <2>1, <2>2
<1>2. Bool(v128AnyTrue(v)) = 1 <=> v128AnyTrue(v)
  BY DEF Bool
<1> QED BY <1>1, <1>2

LEMMA AllExact ==
  ASSUME NEW n, NEW v
  PROVE  (Bool(v128AllTrue(v, n)) = 0) = \E i \in Lanes(n) : Lane(v, n, i) = 0
<1>1. (Bool(v128AllTrue(v, n)) = 0) <=> ~v128AllTrue(v, n)
  BY DEF Bool
<1>2. ~v128AllTrue(v, n) <=> \E i \in Lanes(n) : Lane(v, n, i) = 0
  BY DEF v128AllTrue
<1> QED BY <1>1, <1>2

LEMMA BitmaskExact ==
  ASSUME NEW n \in LaneSizes, NEW v \in Vectors
  PROVE  BitsSet(16, v128Bitmask(v, n)) = {i \in Lanes(n) : S(n * ByteBits, Lane(v, n, i)) < 0}
<1> DEFINE w == n * ByteBits
           d == [i \in Lanes(n) |-> Lane(v, n, i) \div 2^(w - 1)]
           m == VectorBytes \div n
           r == Number(1, m, d)
<1>1. m \in Nat \ {0} /\ m <= 16 /\ Lanes(n) = 0 .. m - 1
  BY DEF LaneSizes, VectorBytes, Lanes
<1>2. w \in Nat \ {0} /\ \A i \in Lanes(n) : Lane(v, n, i) \in 0 .. 2^w - 1
  BY LaneBits, LaneNumber DEF Bits, Unsigneds
<1>3. v128Bitmask(v, n) = r
  BY DEF v128Bitmask
<1>4. \A i \in Lanes(n) : d[i] = Lane(v, n, i) \div 2^(w - 1)
  OBVIOUS
<1> HIDE DEF w, d, m
<1>5. \A i \in Lanes(n) : d[i] \in {0, 1} /\ (d[i] = 1 <=> S(w, Lane(v, n, i)) < 0)
  <2> TAKE i \in Lanes(n)
  <2> DEFINE h == 2^(w - 1)
             x == Lane(v, n, i)
  <2>1. 2^w = 2 * h /\ h \in Nat \ {0}
    BY <1>2, Halves
  <2>2. S(w, x) = (IF x < h THEN x ELSE x - 2 * h) /\ d[i] = x \div h /\ x \in 0 .. 2 * h - 1
    BY <1>2, <1>4, <2>1 DEF S
  <2> HIDE DEF h, x
  <2>3. CASE x < h
    <3>1. x \div h = 0
      BY <2>1, <2>2, <2>3, SmallMod
    <3> QED BY <2>1, <2>2, <2>3, <3>1 DEF x
  <2>4. CASE ~ (x < h)
    <3>1. x = h * 1 + (x - h) /\ x - h \in 0 .. h - 1 /\ x \in Int /\ 1 \in Int
      BY <2>1, <2>2, <2>4
    <3>2. x \div h = 1
      BY <2>1, <3>1, DivUnique
    <3> QED BY <2>1, <2>2, <2>4, <3>2 DEF x
  <2> QED BY <2>3, <2>4
<1>6. r \in Unsigneds(m) /\ BitsSet(m, r) = {i \in 0 .. m - 1 : d[i] = 1}
  BY <1>1, <1>5, DigitBits
<1> HIDE DEF r
<1>7. \A i \in m .. 15 : Bit(r, i) = 0
  BY <1>1, <1>6, BitAbove DEF Unsigneds
<1>8. BitsSet(16, r) = BitsSet(m, r)
  BY <1>1, <1>7 DEF BitsSet
<1>9. BitsSet(16, r) = {i \in Lanes(n) : S(w, Lane(v, n, i)) < 0}
  BY <1>1, <1>5, <1>6, <1>8
<1> QED BY <1>3, <1>9 DEF w

-----------------------------------------------------------------------------
(* Bit by bit *)

LEMMA NotBitsExact ==
  ASSUME NEW w \in Nat \ {0}, NEW x \in Unsigneds(w)
  PROVE  /\ NotBits(w, x) \in Unsigneds(w)
         /\ BitsSet(w, NotBits(w, x)) = (0 .. w - 1) \ BitsSet(w, x)
<1> DEFINE p == 2^w
           y == p - 1 - x
<1>1. p \in Nat \ {0} /\ x \in 0 .. p - 1
  BY Pow DEF Unsigneds
<1>2. y \in 0 .. p - 1 /\ y \in Int /\ x \in Int
  BY <1>1
<1>3. ASSUME NEW i \in 0 .. w - 1 PROVE Bit(y, i) = 1 - Bit(x, i)
  <2> DEFINE q == 2^i
             h == 2^(w - i - 1)
             s == x \div q
             t == x % q
  <2>1. q \in Nat \ {0} /\ i \in Nat /\ w - i - 1 \in Nat /\ (w - i - 1) + 1 = w - i /\ w - i \in Nat
    BY Pow
  <2>2. h \in Nat /\ 2^(w - i) = 2 * h
    BY <2>1, Pow
  <2>3. p = q * (2 * h)
    <3>1. i \in Nat /\ w \in Nat /\ i <= w
      OBVIOUS
    <3>2. 2^w = 2^i * 2^(w - i)
      BY <3>1, PowOrder
    <3> QED BY <2>2, <3>2
  <2>4. x = q * s + t /\ t \in 0 .. q - 1 /\ s \in Int
    BY <1>2, <2>1, DivMod
  <2>5. Bit(x, i) = s % 2 /\ Bit(y, i) = (y \div q) % 2
    BY DEF Bit
  <2> DEFINE u == 2 * h - 1 - s
  <2> HIDE DEF q, h, s, t, p
  <2>6. q * u = q * (2 * h) - q - q * s
    BY <2>1, <2>2, <2>4
  <2>7. y = q * u + (q - 1 - t) /\ q - 1 - t \in 0 .. q - 1 /\ u \in Int
    BY <1>1, <2>1, <2>2, <2>3, <2>4, <2>6
  <2>8. u % 2 = 1 - (s % 2)
    BY <2>2, <2>4
  <2> HIDE DEF y, u
  <2>9. y \div q = u
    BY <1>2, <2>1, <2>7, DivUnique
  <2> QED BY <2>5, <2>8, <2>9
<1>4. \A i \in 0 .. w - 1 : Bit(x, i) \in {0, 1}
  BY <1>2, BitRange
<1>5. NotBits(w, x) = y
  BY DEF NotBits
<1> HIDE DEF y
<1>6. BitsSet(w, y) = (0 .. w - 1) \ BitsSet(w, x)
  BY <1>3, <1>4 DEF BitsSet
<1> QED BY <1>2, <1>5, <1>6 DEF Unsigneds

LEMMA VectorByte ==
  ASSUME NEW v \in Vectors, NEW k \in 1 .. VectorBytes
  PROVE  v[k] \in Unsigneds(ByteBits) /\ v[k] \in Int
<1>1. v[k] \in 0 .. 2^ByteBits - 1
  BY DEF Vectors, Byte
<1> QED BY <1>1, ByteFacts DEF Unsigneds

LEMMA BitsOf ==
  ASSUME NEW w \in Nat \ {0}, NEW a \in Unsigneds(w), NEW b \in Unsigneds(w)
  PROVE  /\ NotBits(w, a) \in Unsigneds(w) /\ Flips(w, NotBits(w, a), a)
         /\ And(w, a, b) \in Unsigneds(w) /\ Meets(w, And(w, a, b), a, b)
         /\ Or(w, a, b) \in Unsigneds(w) /\ Joins(w, Or(w, a, b), a, b)
         /\ Xor(w, a, b) \in Unsigneds(w) /\ Differs(w, Xor(w, a, b), a, b)
<1>1. a \in Int /\ b \in Int
  BY Pow DEF Unsigneds
<1>2. NotBits(w, a) \in Unsigneds(w) /\ BitsSet(w, NotBits(w, a)) = (0 .. w - 1) \ BitsSet(w, a)
  BY NotBitsExact
<1>3. And(w, a, b) \in Unsigneds(w) /\ Meets(w, And(w, a, b), a, b)
  BY <1>1, BitwiseIs
<1>4. Or(w, a, b) \in Unsigneds(w) /\ Joins(w, Or(w, a, b), a, b)
  BY <1>1, BitwiseIs
<1>5. Xor(w, a, b) \in Unsigneds(w) /\ Differs(w, Xor(w, a, b), a, b)
  BY <1>1, BitwiseIs
<1> QED BY <1>2, <1>3, <1>4, <1>5 DEF Flips

\* Of one byte: a and the complement of b.
LEMMA AndNotBits ==
  ASSUME NEW w \in Nat \ {0}, NEW a \in Unsigneds(w), NEW b \in Unsigneds(w)
  PROVE  /\ And(w, a, NotBits(w, b)) \in Unsigneds(w)
         /\ Leaves(w, And(w, a, NotBits(w, b)), a, b)
<1> DEFINE c == NotBits(w, b)
<1>1. c \in Unsigneds(w) /\ Flips(w, c, b)
  BY BitsOf
<1> HIDE DEF c
<1>2. And(w, a, c) \in Unsigneds(w) /\ Meets(w, And(w, a, c), a, c)
  BY <1>1, BitsOf
<1>3. BitsSet(w, a) \subseteq 0 .. w - 1
  BY DEF BitsSet
<1>4. Leaves(w, And(w, a, c), a, b)
  BY <1>1, <1>2, <1>3 DEF Leaves, Meets, Flips
<1> QED BY <1>2, <1>4 DEF c

\* What each byte promises, the vector promises.
LEMMA FlipsAll ==
  ASSUME NEW r, NEW a, \A k \in 1 .. VectorBytes : Flips(ByteBits, r[k], a[k])
  PROVE  VectorBits(r) = ((1 .. VectorBytes) \X (0 .. ByteBits - 1)) \ VectorBits(a)
<1> DEFINE K == 1 .. VectorBytes
           I == 0 .. ByteBits - 1
           B(v, k) == BitsSet(ByteBits, v[k])
           VB(v) == {p \in K \X I : p[2] \in B(v, p[1])}
<1>1. \A p \in K \X I : p[1] \in K /\ p[2] \in I
  OBVIOUS
<1>2. VectorBits(r) = VB(r) /\ VectorBits(a) = VB(a)
  BY DEF VectorBits
<1>3. \A k \in K : B(r, k) = I \ B(a, k)
  BY DEF Flips
<1> HIDE DEF K, I, B
<1>4. VB(r) = (K \X I) \ VB(a)
  BY <1>1, <1>3
<1> HIDE DEF VB
<1> QED BY <1>2, <1>4, Zenon DEF K, I

LEMMA MeetsAll ==
  ASSUME NEW r, NEW a, NEW b, \A k \in 1 .. VectorBytes : Meets(ByteBits, r[k], a[k], b[k])
  PROVE  VectorBits(r) = VectorBits(a) \cap VectorBits(b)
<1> DEFINE K == 1 .. VectorBytes
           I == 0 .. ByteBits - 1
           B(v, k) == BitsSet(ByteBits, v[k])
           VB(v) == {p \in K \X I : p[2] \in B(v, p[1])}
<1>1. \A p \in K \X I : p[1] \in K /\ p[2] \in I
  OBVIOUS
<1>2. VectorBits(r) = VB(r) /\ VectorBits(a) = VB(a) /\ VectorBits(b) = VB(b)
  BY DEF VectorBits
<1>3. \A k \in K : B(r, k) = B(a, k) \cap B(b, k)
  BY DEF Meets
<1> HIDE DEF K, I, B
<1>4. VB(r) = VB(a) \cap VB(b)
  BY <1>1, <1>3
<1> HIDE DEF VB
<1> QED BY <1>2, <1>4, Zenon DEF K, I

LEMMA JoinsAll ==
  ASSUME NEW r, NEW a, NEW b, \A k \in 1 .. VectorBytes : Joins(ByteBits, r[k], a[k], b[k])
  PROVE  VectorBits(r) = VectorBits(a) \cup VectorBits(b)
<1> DEFINE K == 1 .. VectorBytes
           I == 0 .. ByteBits - 1
           B(v, k) == BitsSet(ByteBits, v[k])
           VB(v) == {p \in K \X I : p[2] \in B(v, p[1])}
<1>1. \A p \in K \X I : p[1] \in K /\ p[2] \in I
  OBVIOUS
<1>2. VectorBits(r) = VB(r) /\ VectorBits(a) = VB(a) /\ VectorBits(b) = VB(b)
  BY DEF VectorBits
<1>3. \A k \in K : B(r, k) = B(a, k) \cup B(b, k)
  BY DEF Joins
<1> HIDE DEF K, I, B
<1>4. VB(r) = VB(a) \cup VB(b)
  BY <1>1, <1>3
<1> HIDE DEF VB
<1> QED BY <1>2, <1>4, Zenon DEF K, I

LEMMA LeavesAll ==
  ASSUME NEW r, NEW a, NEW b, \A k \in 1 .. VectorBytes : Leaves(ByteBits, r[k], a[k], b[k])
  PROVE  VectorBits(r) = VectorBits(a) \ VectorBits(b)
<1> DEFINE K == 1 .. VectorBytes
           I == 0 .. ByteBits - 1
           B(v, k) == BitsSet(ByteBits, v[k])
           VB(v) == {p \in K \X I : p[2] \in B(v, p[1])}
<1>1. \A p \in K \X I : p[1] \in K /\ p[2] \in I
  OBVIOUS
<1>2. VectorBits(r) = VB(r) /\ VectorBits(a) = VB(a) /\ VectorBits(b) = VB(b)
  BY DEF VectorBits
<1>3. \A k \in K : B(r, k) = B(a, k) \ B(b, k)
  BY DEF Leaves
<1> HIDE DEF K, I, B
<1>4. VB(r) = VB(a) \ VB(b)
  BY <1>1, <1>3
<1> HIDE DEF VB
<1> QED BY <1>2, <1>4, Zenon DEF K, I

LEMMA DiffersAll ==
  ASSUME NEW r, NEW a, NEW b, \A k \in 1 .. VectorBytes : Differs(ByteBits, r[k], a[k], b[k])
  PROVE  VectorBits(r) = (VectorBits(a) \cup VectorBits(b)) \ (VectorBits(a) \cap VectorBits(b))
<1> DEFINE K == 1 .. VectorBytes
           I == 0 .. ByteBits - 1
           B(v, k) == BitsSet(ByteBits, v[k])
           VB(v) == {p \in K \X I : p[2] \in B(v, p[1])}
<1>1. \A p \in K \X I : p[1] \in K /\ p[2] \in I
  OBVIOUS
<1>2. VectorBits(r) = VB(r) /\ VectorBits(a) = VB(a) /\ VectorBits(b) = VB(b)
  BY DEF VectorBits
<1>3. \A k \in K : B(r, k) = (B(a, k) \cup B(b, k)) \ (B(a, k) \cap B(b, k))
  BY DEF Differs
<1> HIDE DEF K, I, B
<1>4. VB(r) = (VB(a) \cup VB(b)) \ (VB(a) \cap VB(b))
  BY <1>1, <1>3
<1> HIDE DEF VB
<1> QED BY <1>2, <1>4, Zenon DEF K, I

LEMMA NotExact ==
  ASSUME NEW v \in Vectors
  PROVE  VectorBits(notV128(v)) = ((1 .. VectorBytes) \X (0 .. ByteBits - 1)) \ VectorBits(v)
<1> DEFINE r == notV128(v)
<1>1. ASSUME NEW k \in 1 .. VectorBytes PROVE Flips(ByteBits, r[k], v[k])
  <2>1. r[k] = NotBits(ByteBits, v[k])
    BY DEF notV128
  <2>2. v[k] \in Unsigneds(ByteBits) /\ ByteBits \in Nat \ {0}
    BY VectorByte, ByteFacts
  <2> HIDE DEF r
  <2> QED BY <2>1, <2>2, BitsOf
<1> HIDE DEF r
<1>2. VectorBits(r) = ((1 .. VectorBytes) \X (0 .. ByteBits - 1)) \ VectorBits(v)
  BY <1>1, FlipsAll
<1> QED BY <1>2 DEF r

BitsAre(op, a, b, r) ==
  CASE op = "and" -> VectorBits(r) = VectorBits(a) \cap VectorBits(b)
    [] op = "or" -> VectorBits(r) = VectorBits(a) \cup VectorBits(b)
    [] op = "xor" -> VectorBits(r) = (VectorBits(a) \cup VectorBits(b)) \ (VectorBits(a) \cap VectorBits(b))
    [] op = "andnot" -> VectorBits(r) = VectorBits(a) \ VectorBits(b)

LEMMA BitwiseVector ==
  ASSUME NEW op \in {"and", "or", "xor", "andnot"}, NEW a \in Vectors, NEW b \in Vectors
  PROVE  BitsAre(op, a, b, bitwiseV128(op, a, b))
<1> DEFINE r == bitwiseV128(op, a, b)
<1>1. \A k \in 1 .. VectorBytes :
        r[k] = CASE op = "and" -> And(ByteBits, a[k], b[k])
                 [] op = "andnot" -> And(ByteBits, a[k], NotBits(ByteBits, b[k]))
                 [] op = "or" -> Or(ByteBits, a[k], b[k])
                 [] op = "xor" -> Xor(ByteBits, a[k], b[k])
  BY DEF bitwiseV128
<1> HIDE DEF r
<1>2. \A k \in 1 .. VectorBytes : a[k] \in Unsigneds(ByteBits) /\ b[k] \in Unsigneds(ByteBits)
  BY VectorByte
<1>3. ByteBits \in Nat \ {0}
  BY ByteFacts
<1>4. CASE op = "and"
  <2>1. \A k \in 1 .. VectorBytes : Meets(ByteBits, r[k], a[k], b[k])
    BY <1>1, <1>2, <1>3, <1>4, BitsOf
  <2>2. VectorBits(r) = VectorBits(a) \cap VectorBits(b)
    BY <2>1, MeetsAll
  <2> QED BY <1>4, <2>2 DEF BitsAre, r
<1>5. CASE op = "or"
  <2>1. \A k \in 1 .. VectorBytes : Joins(ByteBits, r[k], a[k], b[k])
    BY <1>1, <1>2, <1>3, <1>5, BitsOf
  <2>2. VectorBits(r) = VectorBits(a) \cup VectorBits(b)
    BY <2>1, JoinsAll
  <2> QED BY <1>5, <2>2 DEF BitsAre, r
<1>6. CASE op = "xor"
  <2>1. \A k \in 1 .. VectorBytes : Differs(ByteBits, r[k], a[k], b[k])
    BY <1>1, <1>2, <1>3, <1>6, BitsOf
  <2>2. VectorBits(r) = (VectorBits(a) \cup VectorBits(b)) \ (VectorBits(a) \cap VectorBits(b))
    BY <2>1, DiffersAll
  <2> QED BY <1>6, <2>2 DEF BitsAre, r
<1>7. CASE op = "andnot"
  <2>1. \A k \in 1 .. VectorBytes : Leaves(ByteBits, r[k], a[k], b[k])
    BY <1>1, <1>2, <1>3, <1>7, AndNotBits
  <2>2. VectorBits(r) = VectorBits(a) \ VectorBits(b)
    BY <2>1, LeavesAll
  <2> QED BY <1>7, <2>2 DEF BitsAre, r
<1> QED BY <1>4, <1>5, <1>6, <1>7

LEMMA SelectExact ==
  ASSUME NEW a \in Vectors, NEW b \in Vectors, NEW m \in Vectors
  PROVE  VectorBits(bitselectV128(a, b, m)) = (VectorBits(a) \cap VectorBits(m)) \cup (VectorBits(b) \ VectorBits(m))
<1> DEFINE x == [k \in 1 .. VectorBytes |-> And(ByteBits, a[k], m[k])]
           y == [k \in 1 .. VectorBytes |-> And(ByteBits, b[k], NotBits(ByteBits, m[k]))]
           r == bitselectV128(a, b, m)
<1>1. \A k \in 1 .. VectorBytes : r[k] = Or(ByteBits, x[k], y[k])
  BY DEF bitselectV128
<1>2. \A k \in 1 .. VectorBytes : x[k] = And(ByteBits, a[k], m[k]) /\ y[k] = And(ByteBits, b[k], NotBits(ByteBits, m[k]))
  OBVIOUS
<1> HIDE DEF x, y, r
<1>3. ASSUME NEW k \in 1 .. VectorBytes
      PROVE  Meets(ByteBits, x[k], a[k], m[k]) /\ Leaves(ByteBits, y[k], b[k], m[k]) /\ Joins(ByteBits, r[k], x[k], y[k])
  <2>1. /\ a[k] \in Unsigneds(ByteBits) /\ b[k] \in Unsigneds(ByteBits) /\ m[k] \in Unsigneds(ByteBits)
        /\ ByteBits \in Nat \ {0}
    BY VectorByte, ByteFacts
  <2>2. x[k] \in Unsigneds(ByteBits) /\ Meets(ByteBits, x[k], a[k], m[k])
    BY <1>2, <2>1, BitsOf
  <2>3. y[k] \in Unsigneds(ByteBits) /\ Leaves(ByteBits, y[k], b[k], m[k])
    BY <1>2, <2>1, AndNotBits
  <2>4. Joins(ByteBits, r[k], x[k], y[k])
    BY <1>1, <2>1, <2>2, <2>3, BitsOf
  <2> QED BY <2>2, <2>3, <2>4
<1>4. VectorBits(x) = VectorBits(a) \cap VectorBits(m)
  BY <1>3, MeetsAll
<1>5. VectorBits(y) = VectorBits(b) \ VectorBits(m)
  BY <1>3, LeavesAll
<1>6. VectorBits(r) = VectorBits(x) \cup VectorBits(y)
  BY <1>3, JoinsAll
<1> QED BY <1>4, <1>5, <1>6 DEF r

-----------------------------------------------------------------------------
(* Shifts *)

LEMMA ShiftExact ==
  ASSUME NEW shape \in IntShapes, NEW op \in {"shl", "shr_s", "shr_u"}, NEW v \in Vectors, NEW count \in Nat,
         NEW i \in Lanes(LaneBytes[shape])
  PROVE  ExactTotal(LaneBytes[shape] * ByteBits, op, Lane(v, LaneBytes[shape], i), count,
                    Lane(evalV128Shift(shape, op, v, count), LaneBytes[shape], i))
<1> DEFINE n == LaneBytes[shape]
           w == n * ByteBits
           r == evalV128Shift(shape, op, v, count)
           lanes == [j \in Lanes(n) |-> IntBinary(w, op, Lane(v, n, j), count)]
<1>1. n \in LaneSizes /\ w \in Nat \ {0} /\ w = Bits(n)
  BY ShapeFacts, LaneBits DEF LaneShapes, Bits
<1>2. r = ShiftLanes(n, op, v, count % w)
  <2>1. ByteBits \in Nat \ {0} /\ 1 * ByteBits = ByteBits
    BY ByteFacts
  <2> QED BY <2>1 DEF evalV128Shift, IntShapes, LaneBytes, shiftI8x16, shiftI16x8, shiftI32x4, shiftI64x2
<1>3. r = Pack(n, lanes)
  BY <1>2 DEF ShiftLanes, Each, IntBinary
<1>4. \A j \in Lanes(n) : lanes[j] = IntBinary(w, op, Lane(v, n, j), count)
  OBVIOUS
<1> HIDE DEF n, r, lanes, w
<1>5. \A j \in Lanes(n) : Keeps(w, op, Lane(v, n, j), count, lanes[j])
  <2> TAKE j \in Lanes(n)
  <2>1. Lane(v, n, j) \in Unsigneds(w)
    BY <1>1, LaneNumber
  <2> QED BY <1>1, <1>4, <2>1, Movings
<1>6. \A j \in Lanes(n) : Lane(r, n, j) = lanes[j]
  BY <1>1, <1>3, <1>5, LanesMade DEF Keeps
<1>7. i \in Lanes(n)
  BY DEF n
<1>8. BinaryIs("done", w, op, Lane(v, n, i), count, Lane(r, n, i))
  BY <1>5, <1>6, <1>7 DEF Keeps
<1> QED BY <1>8 DEF BinaryIs, n, r, w

-----------------------------------------------------------------------------
(* Lanes of integers, one operand *)

LEMMA BelowPower ==
  ASSUME NEW n \in Nat
  PROVE  n < 2^n
<1> DEFINE P == {k \in Nat : k < 2^k}
<1>1. 0 \in P
  BY Pow
<1>2. ASSUME NEW k \in 0 .. n, k \in P, k < n PROVE k + 1 \in P
  <2>1. 2^(k + 1) = 2 * 2^k /\ 2^k \in Nat \ {0} /\ k < 2^k
    BY <1>2, Pow
  <2> QED BY <2>1
<1> HIDE DEF P
<1>3. 0 .. n \subseteq P
  BY <1>1, <1>2, Upto
<1> QED BY <1>3 DEF P

LEMMA CountExact ==
  ASSUME NEW w \in Nat \ {0}, NEW x
  PROVE  Cardinality(BitsSet(w, x)) \in Unsigneds(w)
<1>1. BitsSet(w, x) \subseteq 0 .. w - 1
  BY DEF BitsSet
<1>2. IsFiniteSet(0 .. w - 1) /\ Cardinality(0 .. w - 1) = w
  BY FS_Interval
<1>3. Cardinality(BitsSet(w, x)) \in Nat /\ Cardinality(BitsSet(w, x)) <= w
  BY <1>1, <1>2, FS_Subset, FS_CardinalityType
<1>4. w < 2^w /\ 2^w \in Nat
  BY BelowPower, Pow
<1> QED BY <1>3, <1>4 DEF Unsigneds

LEMMA NegatedLane ==
  ASSUME NEW w \in Nat \ {0}, NEW x \in Unsigneds(w)
  PROVE  U(w, -x) \in Unsigneds(w) /\ (U(w, -x) + x) % 2^w = 0
<1> DEFINE m == -x
           y == U(w, m)
<1>1. x \in Int /\ m \in Int
  BY Pow DEF Unsigneds
<1> HIDE DEF m
<1>2. y \in Unsigneds(w) /\ (y - m) % 2^w = 0
  BY <1>1, CutExact
<1>3. y \in Int
  BY <1>2, Pow DEF Unsigneds
<1> HIDE DEF y
<1>4. y - m = y + x
  BY <1>1, <1>3 DEF m
<1> QED BY <1>2, <1>4 DEF y, m

AbsOfLane(w, x) == IF S(w, x) < 0 THEN U(w, -x) ELSE x
LEMMA AbsoluteLane ==
  ASSUME NEW w \in Nat \ {0}, NEW x \in Unsigneds(w)
  PROVE  AbsOfLane(w, x) \in Unsigneds(w) /\ (AbsOfLane(w, x) - Abs(S(w, x))) % 2^w = 0
<1> DEFINE p == 2^w
           y == U(w, -x)
           h == 2^(w - 1)
<1>1. p \in Nat \ {0} /\ x \in 0 .. p - 1 /\ p = 2 * h /\ h \in Nat
  BY Pow, Halves DEF Unsigneds
<1>2. y \in 0 .. p - 1 /\ (y + x) % p = 0
  BY NegatedLane DEF Unsigneds
<1>3. S(w, x) = IF x < h THEN x ELSE x - p
  BY DEF S
<1> HIDE DEF p, y, h
<1>4. CASE x < h
  <2>1. AbsOfLane(w, x) = x /\ Abs(S(w, x)) = x
    BY <1>1, <1>3, <1>4 DEF AbsOfLane, Abs
  <2>2. (x - x) % p = 0
    BY <1>1
  <2> QED BY <1>1, <2>1, <2>2 DEF Unsigneds, p
<1>5. CASE ~ (x < h)
  <2>1. AbsOfLane(w, x) = y /\ Abs(S(w, x)) = p - x
    BY <1>1, <1>3, <1>5 DEF AbsOfLane, Abs, y
  <2>2. y - (p - x) = (y + x) + p * (-1) /\ y + x \in Int
    BY <1>1, <1>2
  <2>3. ((y + x) + p * (-1)) % p = (y + x) % p
    BY <1>1, <2>2, DivAdds, -1 \in Int
  <2> QED BY <1>2, <2>1, <2>2, <2>3 DEF Unsigneds, p
<1> QED BY <1>4, <1>5

LEMMA TwiceBits ==
  ASSUME NEW m \in {1, 2, 4}
  PROVE  /\ m \in LaneSizes /\ 2 * m \in LaneSizes /\ (2 * m) \div 2 = m /\ Bits(2 * m) = Bits(m) + Bits(m)
         /\ Bits(m) \in Nat \ {0} /\ Bits(2 * m) \in Nat \ {0} /\ Bits(m) < Bits(2 * m)
         /\ m * ByteBits = Bits(m) /\ 2 * m * ByteBits = Bits(2 * m)
<1>1. m \in LaneSizes /\ 2 * m \in LaneSizes /\ (2 * m) \div 2 = m
  BY DEF LaneSizes
<1>2. ByteBits \in Nat \ {0}
  BY ByteFacts
<1>3. Bits(m) \in Nat \ {0} /\ Bits(2 * m) = Bits(m) + Bits(m)
  BY <1>2 DEF Bits
<1> QED BY <1>1, <1>3 DEF Bits

LEMMA WidenLane ==
  ASSUME NEW m \in {1, 2, 4}, NEW how, NEW x \in Unsigneds(Bits(m))
  PROVE  /\ Widen(m, how, x) \in Unsigneds(Bits(2 * m))
         /\ Read(2 * m, how, Widen(m, how, x)) = Read(m, how, x)
<1> DEFINE w == Bits(m)
           z == Bits(2 * m)
<1>1. w \in Nat \ {0} /\ z \in Nat \ {0} /\ w <= z /\ m * ByteBits = w /\ 2 * m * ByteBits = z
  BY TwiceBits
<1>2. /\ Widen(m, how, x) = (IF how = "s" THEN SignExtend(w, z, x) ELSE x)
      /\ \A y : Read(2 * m, how, y) = (IF how = "s" THEN S(z, y) ELSE y) /\ Read(m, how, y) = (IF how = "s" THEN S(w, y) ELSE y)
  BY <1>1 DEF Widen, Read
<1> HIDE DEF w, z
<1>3. x \in Unsigneds(w)
  BY DEF w
<1>4. SignExtend(w, z, x) \in Unsigneds(z) /\ S(z, SignExtend(w, z, x)) = S(w, x) /\ x \in Unsigneds(z)
  BY <1>1, <1>3, Extended
<1> QED BY <1>2, <1>4 DEF w, z

LEMMA HalfPlaces ==
  ASSUME NEW m \in {1, 2, 4}, NEW half, NEW i \in Lanes(2 * m)
  PROVE  /\ Half(m, half) + i \in Lanes(m)
         /\ Half(m, half) = IF half = "high" THEN VectorBytes \div (2 * m) ELSE 0
         /\ 2 * i \in Lanes(m) /\ 2 * i + 1 \in Lanes(m)
BY DEF Half, Lanes, VectorBytes

LEMMA ExtendedLanes ==
  ASSUME NEW m \in {1, 2, 4}, NEW half, NEW how, NEW v \in Vectors, NEW i \in Lanes(2 * m)
  PROVE  LET r == ExtendLanes(m, half, how, v)
         IN  Read(2 * m, how, Lane(r, 2 * m, i)) = Read(m, how, Lane(v, m, Half(m, half) + i))
<1> DEFINE n == 2 * m
           r == ExtendLanes(m, half, how, v)
           lanes == [j \in Lanes(n) |-> Widen(m, how, Lane(v, m, Half(m, half) + j))]
<1>1. n \in LaneSizes /\ m \in LaneSizes
  BY TwiceBits
<1>2. r = Pack(n, lanes)
  BY DEF ExtendLanes
<1>3. \A j \in Lanes(n) : lanes[j] = Widen(m, how, Lane(v, m, Half(m, half) + j))
  OBVIOUS
<1> HIDE DEF r, lanes
<1>4. \A j \in Lanes(n) : /\ lanes[j] \in Unsigneds(Bits(n))
                          /\ Read(n, how, lanes[j]) = Read(m, how, Lane(v, m, Half(m, half) + j))
  <2> TAKE j \in Lanes(n)
  <2> DEFINE x == Lane(v, m, Half(m, half) + j)
  <2>1. Half(m, half) + j \in Lanes(m)
    BY HalfPlaces
  <2>2. x \in Unsigneds(Bits(m))
    BY <1>1, <2>1, LaneNumber
  <2>3. lanes[j] = Widen(m, how, x)
    BY <1>3
  <2> HIDE DEF x
  <2>4. Widen(m, how, x) \in Unsigneds(Bits(n)) /\ Read(n, how, Widen(m, how, x)) = Read(m, how, x)
    BY <2>2, WidenLane
  <2> QED BY <2>3, <2>4 DEF x
<1> HIDE DEF n
<1>5. \A j \in Lanes(n) : Lane(Pack(n, lanes), n, j) = lanes[j]
  BY <1>1, <1>4, LanesMade
<1>6. i \in Lanes(n)
  BY DEF n
<1> QED BY <1>2, <1>4, <1>5, <1>6 DEF n, r

\* Two lanes and their sum in a lane of twice as many bits.
LEMMA WideSum ==
  ASSUME NEW m \in {1, 2, 4}, NEW how, NEW x \in Unsigneds(Bits(m)), NEW y \in Unsigneds(Bits(m))
  PROVE  LET r == U(Bits(2 * m), Widen(m, how, x) + Widen(m, how, y))
         IN  r \in Unsigneds(Bits(2 * m)) /\ Read(2 * m, how, r) = Read(m, how, x) + Read(m, how, y)
<1> DEFINE w == Bits(m)
           z == Bits(2 * m)
           a == Widen(m, how, x)
           b == Widen(m, how, y)
           r == U(z, a + b)
           p == 2^w
           q == 2^z
           h == 2^(w - 1)
<1>1. w \in Nat \ {0} /\ z \in Nat \ {0} /\ z = w + w /\ m * ByteBits = w /\ 2 * m * ByteBits = z
  BY TwiceBits
<1>2. a \in Unsigneds(z) /\ Read(2 * m, how, a) = Read(m, how, x) /\ b \in Unsigneds(z) /\ Read(2 * m, how, b) = Read(m, how, y)
  BY WidenLane
<1>3. \A t : Read(m, how, t) = (IF how = "s" THEN S(w, t) ELSE t) /\ Read(2 * m, how, t) = (IF how = "s" THEN S(z, t) ELSE t)
  BY <1>1 DEF Read
<1>4. p \in Nat \ {0} /\ q = p * p /\ p = 2 * h /\ h \in Nat \ {0} /\ q \in Nat \ {0} /\ 2^(z - 1) = p * h
  <2>1. p \in Nat \ {0} /\ p = 2 * h /\ h \in Nat \ {0} /\ q \in Nat \ {0}
    BY <1>1, Halves
  <2>2. 2^(w + w) = 2^w * 2^w
    BY <1>1, PowAdd
  <2>3. z - 1 = w + (w - 1) /\ w - 1 \in Nat
    BY <1>1
  <2>4. 2^(w + (w - 1)) = 2^w * 2^(w - 1)
    BY <1>1, <2>3, PowAdd
  <2> QED BY <1>1, <2>1, <2>2, <2>3, <2>4
<1>5. p * h >= p /\ p * p = 2 * (p * h) /\ p * h \in Nat
  <2> DEFINE y1 == p * (h - 1)
  <2> HIDE DEF p, h
  <2>1. y1 \in Nat /\ p * h = p + y1
    BY <1>4
  <2> QED BY <1>4, <2>1
<1>6. a \in Int /\ b \in Int /\ a \in 0 .. q - 1 /\ b \in 0 .. q - 1 /\ x \in 0 .. p - 1 /\ y \in 0 .. p - 1
  BY <1>2, <1>4 DEF Unsigneds
<1>7. r \in Unsigneds(z)
  BY <1>1, <1>6, CutExact
<1>8. CASE how # "s"
  <2>1. a = x /\ b = y
    BY <1>2, <1>3, <1>8
  <2> DEFINE c == p * h
  <2>2. x + y \in 0 .. 2 * c - 1 /\ q = 2 * c /\ c \in Nat
    <3> HIDE DEF p, h, q, r, a, b
    <3> QED BY <1>4, <1>5, <1>6
  <2>3. x + y \in 0 .. q - 1
    BY <2>2
  <2> HIDE DEF c
  <2>4. r = x + y
    <3> HIDE DEF p, h, a, b
    <3>1. r = (a + b) % q
      BY DEF U
    <3> HIDE DEF q, r
    <3> QED BY <1>4, <2>1, <2>3, <3>1, SmallMod
  <2> QED BY <1>3, <1>7, <1>8, <2>4
<1>9. CASE how = "s"
  <2> DEFINE s == S(w, x)
             t == S(w, y)
  <2>1. S(z, a) = s /\ S(z, b) = t
    BY <1>2, <1>3, <1>9
  <2>2. s \in Signeds(w) /\ t \in Signeds(w)
    BY <1>1, SignedFacts
  <2>3. PICK k \in Int : S(z, a) = a + 2^z * k
    BY <1>1, <1>2, SignedFacts
  <2>4. PICK l \in Int : S(z, b) = b + 2^z * l
    BY <1>1, <1>2, SignedFacts
  <2>5. s \in -h .. h - 1 /\ t \in -h .. h - 1
    BY <2>2 DEF Signeds
  <2>6. s + t \in Signeds(z)
    <3> DEFINE c == p * h
    <3>1. c >= p /\ c \in Nat
      BY <1>5
    <3>2. Signeds(z) = -c .. c - 1
      BY <1>4 DEF Signeds
    <3> HIDE DEF c, s, t, h, p
    <3> QED BY <1>4, <2>5, <3>1, <3>2
  <2>7. r = (a + b) % q
    BY DEF U
  <2> HIDE DEF r, a, b, s, t, q
  <2>8. s + t = (a + b) + q * (k + l) /\ a + b \in Int /\ k + l \in Int /\ q * (k + l) = q * k + q * l /\ s + t \in Int
    <3>1. s = a + q * k /\ t = b + q * l
      BY <2>1, <2>3, <2>4 DEF q
    <3>2. q * k \in Int /\ q * l \in Int /\ q * (k + l) = q * k + q * l
      BY <1>4
    <3> QED BY <1>6, <3>1, <3>2
  <2>9. (s + t) % q = (a + b) % q
    <3> DEFINE u == a + b
               e == k + l
    <3>1. u \in Int /\ e \in Int /\ s + t = u + q * e
      BY <2>8
    <3> HIDE DEF u, e
    <3>2. (u + q * e) % q = u % q
      BY <1>4, <3>1, DivAdds
    <3> QED BY <3>1, <3>2 DEF u
  <2>10. S(z, U(z, s + t)) = s + t
    BY <1>1, <2>6, SignedFacts
  <2>11. U(z, s + t) = r
    BY <2>7, <2>9 DEF U, q
  <2> QED BY <1>3, <1>7, <1>9, <2>10, <2>11 DEF s, t, r, a, b
<1> QED BY <1>8, <1>9

LEMMA ExtaddedLanes ==
  ASSUME NEW m \in {1, 2, 4}, NEW how, NEW v \in Vectors, NEW i \in Lanes(2 * m)
  PROVE  LET r == ExtaddLanes(m, how, v)
         IN  Read(2 * m, how, Lane(r, 2 * m, i)) = Read(m, how, Lane(v, m, 2 * i)) + Read(m, how, Lane(v, m, 2 * i + 1))
<1> DEFINE n == 2 * m
           r == ExtaddLanes(m, how, v)
           lanes == [j \in Lanes(n) |->
                       U(Bits(2 * m), Widen(m, how, Lane(v, m, 2 * j)) + Widen(m, how, Lane(v, m, 2 * j + 1)))]
<1>1. n \in LaneSizes /\ m \in LaneSizes /\ 2 * m * ByteBits = Bits(2 * m)
  BY TwiceBits
<1>2. r = Pack(n, lanes)
  BY <1>1 DEF ExtaddLanes
<1>3. \A j \in Lanes(n) : lanes[j] = U(Bits(2 * m), Widen(m, how, Lane(v, m, 2 * j)) + Widen(m, how, Lane(v, m, 2 * j + 1)))
  OBVIOUS
<1> HIDE DEF r, lanes
<1>4. \A j \in Lanes(n) : /\ lanes[j] \in Unsigneds(Bits(n))
                          /\ Read(n, how, lanes[j]) = Read(m, how, Lane(v, m, 2 * j)) + Read(m, how, Lane(v, m, 2 * j + 1))
  <2> TAKE j \in Lanes(n)
  <2> DEFINE x == Lane(v, m, 2 * j)
             y == Lane(v, m, 2 * j + 1)
  <2>1. 2 * j \in Lanes(m) /\ 2 * j + 1 \in Lanes(m)
    BY HalfPlaces
  <2>2. x \in Unsigneds(Bits(m)) /\ y \in Unsigneds(Bits(m))
    BY <1>1, <2>1, LaneNumber
  <2>3. lanes[j] = U(Bits(2 * m), Widen(m, how, x) + Widen(m, how, y))
    BY <1>3
  <2> HIDE DEF x, y
  <2> QED BY <2>2, <2>3, WideSum DEF x, y
<1> HIDE DEF n
<1>5. \A j \in Lanes(n) : Lane(Pack(n, lanes), n, j) = lanes[j]
  BY <1>1, <1>4, LanesMade
<1>6. i \in Lanes(n)
  BY DEF n
<1> QED BY <1>2, <1>4, <1>5, <1>6 DEF n, r

LEMMA CountedLane ==
  ASSUME NEW o, o.op = "popcnt", o.shape = "i8x16", NEW v \in Vectors, NEW i \in Lanes(1)
  PROVE  UnaryLane(o, v, evalV128Unary(o, v), 1, i)
<1> DEFINE r == evalV128Unary(o, v)
           lanes == [j \in Lanes(1) |-> Cardinality(BitsSet(ByteBits, Lane(v, 1, j)))]
<1>1. r = Pack(1, lanes)
  BY DEF evalV128Unary, popcntI8x16, Each
<1>2. 1 \in LaneSizes /\ 1 * ByteBits = ByteBits /\ ByteBits \in Nat \ {0} /\ Bits(1) = ByteBits
  BY ByteFacts DEF LaneSizes, Bits
<1>3. \A j \in Lanes(1) : lanes[j] = Cardinality(BitsSet(ByteBits, Lane(v, 1, j)))
  OBVIOUS
<1> HIDE DEF r, lanes
<1>4. \A j \in Lanes(1) : lanes[j] \in Unsigneds(Bits(1))
  BY <1>2, <1>3, CountExact
<1>5. Lane(r, 1, i) = lanes[i]
  BY <1>1, <1>2, <1>4, LanesMade
<1>6. Lane(r, 1, i) = Cardinality(BitsSet(1 * ByteBits, Lane(v, 1, i)))
  BY <1>2, <1>3, <1>5
<1> QED BY <1>6 DEF UnaryLane, r

LEMMA SignedLane ==
  ASSUME NEW o, o.op \in {"abs", "neg"}, o.shape \in IntShapes, NEW v \in Vectors, NEW n, n = LaneBytes[o.shape],
         NEW i \in Lanes(n)
  PROVE  UnaryLane(o, v, evalV128Unary(o, v), n, i)
<1> DEFINE r == evalV128Unary(o, v)
           w == n * ByteBits
<1>1. n \in LaneSizes /\ w = Bits(n) /\ w \in Nat \ {0}
  BY ShapeFacts, LaneBits DEF LaneShapes, Bits
<1>2. i \in Lanes(n) /\ \A j \in Lanes(n) : Lane(v, n, j) \in Unsigneds(w)
  BY <1>1, LaneNumber
<1>3. CASE o.op = "abs"
  <2> DEFINE lanes == [j \in Lanes(n) |-> AbsOfLane(w, Lane(v, n, j))]
  <2>1. r = AbsLanes(n, v)
    BY <1>3 DEF evalV128Unary, absI8x16, absI16x8, absI32x4, absI64x2, IntShapes, LaneBytes
  <2>2. AbsLanes(n, v) = Pack(n, lanes)
    BY DEF AbsLanes, Each, AbsOfLane
  <2>3. \A j \in Lanes(n) : lanes[j] = AbsOfLane(w, Lane(v, n, j))
    OBVIOUS
  <2> HIDE DEF r, lanes, w
  <2>4. \A j \in Lanes(n) : lanes[j] \in Unsigneds(w) /\ (lanes[j] - Abs(S(w, Lane(v, n, j)))) % 2^w = 0
    BY <1>1, <1>2, <2>3, AbsoluteLane
  <2>5. \A j \in Lanes(n) : Lane(Pack(n, lanes), n, j) = lanes[j]
    BY <1>1, <2>4, LanesMade
  <2>6. (Lane(r, n, i) - Abs(S(w, Lane(v, n, i)))) % 2^w = 0
    BY <1>2, <2>1, <2>2, <2>4, <2>5
  <2> QED BY <1>3, <2>6 DEF UnaryLane, w, r, IntShapes
<1>4. CASE o.op = "neg"
  <2> DEFINE lanes == [j \in Lanes(n) |-> U(w, -Lane(v, n, j))]
  <2>1. r = NegLanes(n, v)
    BY <1>4 DEF evalV128Unary, negI8x16, negI16x8, negI32x4, negI64x2, IntShapes, LaneBytes
  <2>2. NegLanes(n, v) = Pack(n, lanes)
    BY DEF NegLanes, Each
  <2>3. \A j \in Lanes(n) : lanes[j] = U(w, -Lane(v, n, j))
    OBVIOUS
  <2> HIDE DEF r, lanes, w
  <2>4. \A j \in Lanes(n) : lanes[j] \in Unsigneds(w) /\ (lanes[j] + Lane(v, n, j)) % 2^w = 0
    BY <1>1, <1>2, <2>3, NegatedLane
  <2>5. \A j \in Lanes(n) : Lane(Pack(n, lanes), n, j) = lanes[j]
    BY <1>1, <2>4, LanesMade
  <2>6. (Lane(r, n, i) + Lane(v, n, i)) % 2^w = 0
    BY <1>2, <2>1, <2>2, <2>4, <2>5
  <2> QED BY <1>4, <2>6 DEF UnaryLane, w, r, IntShapes
<1> QED BY <1>3, <1>4

LEMMA WidenedLane ==
  ASSUME NEW o, \/ o.op = "extadd_pairwise" /\ o.shape \in {"i16x8", "i32x4"}
                \/ o.op = "extend" /\ o.shape \in {"i16x8", "i32x4", "i64x2"},
         NEW v \in Vectors, NEW n, n = LaneBytes[o.shape], NEW i \in Lanes(n)
  PROVE  UnaryLane(o, v, evalV128Unary(o, v), n, i)
<1> DEFINE r == evalV128Unary(o, v)
           m == n \div 2
<1>1. m \in {1, 2, 4} /\ n = 2 * m
  BY DEF LaneBytes
<1>2. CASE o.op = "extend"
  <2>1. r = ExtendLanes(m, o.half, o.how, v)
    BY <1>2 DEF evalV128Unary, extendI8x16ToI16x8, extendI16x8ToI32x4, extendI32x4ToI64x2, LaneBytes
  <2> HIDE DEF r, m
  <2>2. Read(n, o.how, Lane(r, n, i)) = Read(m, o.how, Lane(v, m, Half(m, o.half) + i))
    BY <1>1, <2>1, ExtendedLanes
  <2>3. Half(m, o.half) = IF o.half = "high" THEN VectorBytes \div n ELSE 0
    BY <1>1 DEF Half
  <2> QED BY <1>2, <2>2, <2>3 DEF UnaryLane, r, m
<1>3. CASE o.op = "extadd_pairwise"
  <2>1. r = ExtaddLanes(m, o.how, v)
    BY <1>3 DEF evalV128Unary, extaddPairwiseI8x16ToI16x8, extaddPairwiseI16x8ToI32x4, LaneBytes
  <2> HIDE DEF r, m
  <2>2. Read(n, o.how, Lane(r, n, i)) = Read(m, o.how, Lane(v, m, 2 * i)) + Read(m, o.how, Lane(v, m, 2 * i + 1))
    BY <1>1, <2>1, ExtaddedLanes
  <2> QED BY <1>3, <2>2 DEF UnaryLane, r, m
<1> QED BY <1>2, <1>3

-----------------------------------------------------------------------------
(* Lanes converted *)

LEMMA WidthBits ==
  /\ Width("i32") = Bits(4) /\ Width("f32") = Bits(4) /\ Width("f64") = Bits(8) /\ 4 \in LaneSizes /\ 8 \in LaneSizes
  /\ Lanes(4) = 0 .. 3 /\ Lanes(8) = 0 .. 1 /\ 4 * ByteBits = Width("i32")
  /\ 0 \in Unsigneds(Bits(4))
<1>1. ByteBits \in Nat \ {0}
  BY ByteFacts
<1>2. 4 \in LaneSizes /\ 8 \in LaneSizes /\ Lanes(4) = 0 .. 3 /\ Lanes(8) = 0 .. 1
  BY DEF LaneSizes, Lanes, VectorBytes
<1>3. 0 \in Unsigneds(Bits(4))
  BY <1>2, LaneBits DEF Unsigneds
<1> QED BY <1>1, <1>2, <1>3 DEF Width, Bytes, Bits

LEMMA ConvertedNumber ==
  ASSUME NEW f \in FloatTypes, NEW how, NEW x \in Unsigneds(Bits(4))
  PROVE  /\ FloatOf(f, Read(4, how, x)) \in Unsigneds(Width(f))
         /\ FloatOf(f, Read(4, how, x)) = evalConversion(f, "convert", "i32", how, x)
<1> DEFINE n == Read(4, how, x)
           w == Width("i32")
<1>1. n = IF how = "s" THEN S(w, x) ELSE x
  BY WidthBits DEF Read
<1>2. evalConversion(f, "convert", "i32", how, x) = FloatOf(f, n)
  BY <1>1 DEF evalConversion
<1>3. w \in Nat \ {0} /\ x \in Unsigneds(w)
  BY WidthBits, LaneBits
<1> HIDE DEF n, w
<1>4. n \in Int
  <2>1. S(w, x) \in Signeds(w) /\ x \in Int
    BY <1>3, SignedFacts, Pow DEF Unsigneds
  <2>2. S(w, x) \in Int
    BY <1>3, <2>1, Halves DEF Signeds
  <2> QED BY <1>1, <2>1, <2>2
<1>5. FloatOf(f, n) \in Unsigneds(Width(f))
  BY <1>4, FloatOfExact
<1> QED BY <1>2, <1>5 DEF n

LEMMA ConvertedLane ==
  ASSUME NEW o, o.op = "convert", o.shape \in FloatShapes, NEW v \in Vectors, NEW n, n = LaneBytes[o.shape],
         NEW i \in Lanes(n)
  PROVE  UnaryLane(o, v, evalV128Unary(o, v), n, i)
<1> DEFINE f == FloatShapeType[o.shape]
           r == evalV128Unary(o, v)
           lanes == [j \in Lanes(n) |-> FloatOf(f, Read(4, o.how, Lane(v, 4, j)))]
<1>1. f \in FloatTypes /\ Width(f) = Bits(n) /\ n \in LaneSizes /\ Lanes(n) \subseteq Lanes(4)
  BY WidthBits DEF FloatShapes, FloatShapeType, LaneBytes, FloatTypes
<1>2. r = Pack(n, lanes)
  BY DEF FloatShapes, FloatShapeType, LaneBytes, evalV128Unary, convertI32x4ToF32x4, convertI32x4ToF64x2, Each
<1>3. \A j \in Lanes(n) : lanes[j] = FloatOf(f, Read(4, o.how, Lane(v, 4, j)))
  OBVIOUS
<1> HIDE DEF f, r, lanes
<1>4. \A j \in Lanes(n) : lanes[j] \in Unsigneds(Bits(n)) /\ lanes[j] = evalConversion(f, "convert", "i32", o.how, Lane(v, 4, j))
  <2> TAKE j \in Lanes(n)
  <2>1. Lane(v, 4, j) \in Unsigneds(Bits(4))
    BY <1>1, WidthBits, LaneNumber
  <2> QED BY <1>1, <1>3, <2>1, ConvertedNumber
<1>5. Lane(r, n, i) = lanes[i]
  BY <1>1, <1>2, <1>4, LanesMade
<1>6. Lane(r, n, i) = evalConversion(f, "convert", "i32", o.how, Lane(v, 4, i))
  BY <1>4, <1>5
<1> QED BY <1>6 DEF UnaryLane, r, f

LEMMA CanonicalIsNaN ==
  ASSUME NEW f \in FloatTypes, NEW b
  PROVE  LET r == CanonicalNaN(f) + Bool(b) IN r \in Unsigneds(Width(f)) /\ IsNaN(f, r)
<1> DEFINE q == 2^(Format[f].fraction - 1)
           k == q + Bool(b)
           g == Inf(f) + k
<1>1. Format[f].fraction \in Nat \ {0, 1}
  BY FormatAssumption DEF FloatTypes
<1>2. q \in Nat /\ 2 <= q
  <2>1. Format[f].fraction - 1 \in Nat /\ 1 <= Format[f].fraction - 1 /\ 1 \in Nat
    BY <1>1
  <2>2. 2^1 <= q
    BY <2>1, PowOrder
  <2>3. 2^1 = 2
    BY Pow, 0 \in Nat, 0 + 1 = 1
  <2>4. q \in Nat
    BY <2>1, Pow
  <2> QED BY <2>2, <2>3, <2>4
<1>3. Unit(f) = 2 * q /\ Unit(f) \in Nat
  BY FormatFacts
<1>4. k \in 1 .. Unit(f) - 1
  <2> HIDE DEF q
  <2> QED BY <1>2, <1>3 DEF Bool
<1>5. CanonicalNaN(f) + Bool(b) = g
  <2>1. Inf(f) \in Nat /\ Bool(b) \in Nat
    BY InfBelow DEF Bool
  <2> HIDE DEF q
  <2> QED BY <1>2, <2>1 DEF CanonicalNaN, q
<1> HIDE DEF k
<1>6. g \in 0 .. SignBit(f) - 1 /\ g > Inf(f)
  BY <1>3, <1>4, InfBelow
<1> HIDE DEF g
<1>7. Signed(f, FALSE, g) = g
  BY DEF Signed
<1>8. g \in Unsigneds(Width(f)) /\ Magnitude(f, g) = g
  BY <1>6, <1>7, SignedPattern
<1>9. IsNaN(f, g)
  BY <1>6, <1>8 DEF IsNaN
<1> QED BY <1>5, <1>8, <1>9

LEMMA SameFloat ==
  ASSUME NEW f \in FloatTypes, NEW g \in FloatTypes, NEW x \in Unsigneds(Width(f))
  PROVE  /\ FloatBitsTo(f, g, x) \in Unsigneds(Width(g))
         /\ SameNumber(g, FloatTo(f, g, x), FloatBitsTo(f, g, x))
<1>1. CASE IsNaN(f, x)
  <2>1. FloatBitsTo(f, g, x) = CanonicalNaN(g) + Bool(~canonicalIn(f, x))
    BY <1>1 DEF FloatBitsTo
  <2> DEFINE r == FloatBitsTo(f, g, x)
             b == ~canonicalIn(f, x)
  <2>2. r = CanonicalNaN(g) + Bool(b)
    BY <2>1
  <2> HIDE DEF r, b
  <2>3. r \in Unsigneds(Width(g)) /\ IsNaN(g, r)
    BY <2>2, CanonicalIsNaN
  <2>4. IsNaN(g, FloatTo(f, g, x)) = IsNaN(f, x)
    BY <1>1, FloatToKeeps DEF KeepsKind
  <2>5. IsNaN(g, FloatTo(f, g, x))
    BY <1>1, <2>4, Kinds
  <2> QED BY <2>3, <2>5 DEF SameNumber, r
<1>2. CASE ~IsNaN(f, x)
  <2>1. FloatBitsTo(f, g, x) = FloatTo(f, g, x)
    BY <1>2 DEF FloatBitsTo
  <2>2. FloatTo(f, g, x) \in Unsigneds(Width(g))
    BY FloatToExact
  <2> QED BY <2>1, <2>2 DEF SameNumber
<1> QED BY <1>1, <1>2

LEMMA PromotedLane ==
  ASSUME NEW o, o.op = "promote", o.shape = "f64x2", NEW v \in Vectors, NEW i \in Lanes(8)
  PROVE  UnaryLane(o, v, evalV128Unary(o, v), 8, i)
<1> DEFINE r == evalV128Unary(o, v)
           lanes == [j \in Lanes(8) |-> FloatBitsTo("f32", "f64", Lane(v, 4, j))]
<1>1. r = Pack(8, lanes)
  BY DEF evalV128Unary, promoteLowF32x4ToF64x2, promoteF32BitsToF64Bits
<1>2. \A j \in Lanes(8) : lanes[j] = FloatBitsTo("f32", "f64", Lane(v, 4, j))
  OBVIOUS
<1> HIDE DEF r, lanes
<1>3. \A j \in Lanes(8) : /\ lanes[j] \in Unsigneds(Bits(8))
                          /\ SameNumber("f64", FloatTo("f32", "f64", Lane(v, 4, j)), lanes[j])
  <2> TAKE j \in Lanes(8)
  <2>1. Lane(v, 4, j) \in Unsigneds(Width("f32")) /\ "f32" \in FloatTypes /\ "f64" \in FloatTypes /\ Width("f64") = Bits(8)
    BY WidthBits, LaneNumber DEF FloatTypes
  <2> QED BY <1>2, <2>1, SameFloat
<1>4. Lane(r, 8, i) = lanes[i]
  BY <1>1, <1>3, LanesMade, WidthBits
<1>5. SameNumber("f64", evalConversion("f64", "promote", "f32", "", Lane(v, 4, i)), Lane(r, 8, i))
  BY <1>3, <1>4 DEF evalConversion
<1> QED BY <1>5 DEF UnaryLane, r

LEMMA DemotedLane ==
  ASSUME NEW o, o.op = "demote", o.shape = "f32x4", NEW v \in Vectors, NEW i \in Lanes(4)
  PROVE  UnaryLane(o, v, evalV128Unary(o, v), 4, i)
<1> DEFINE r == evalV128Unary(o, v)
           lanes == [j \in Lanes(4) |-> IF j < 2 THEN FloatBitsTo("f64", "f32", Lane(v, 8, j)) ELSE 0]
<1>1. r = Pack(4, lanes)
  BY DEF evalV128Unary, demoteF64x2ToF32x4Zero, LowLanes, demoteF64BitsToF32Bits
<1>2. \A j \in Lanes(4) : lanes[j] = IF j < 2 THEN FloatBitsTo("f64", "f32", Lane(v, 8, j)) ELSE 0
  OBVIOUS
<1> HIDE DEF r, lanes
<1>3. \A j \in Lanes(4) : /\ lanes[j] \in Unsigneds(Bits(4))
                          /\ j < 2 => SameNumber("f32", FloatTo("f64", "f32", Lane(v, 8, j)), lanes[j])
  <2> TAKE j \in Lanes(4)
  <2>1. CASE j < 2
    <3>1. j \in Lanes(8)
      BY <2>1, WidthBits
    <3>2. Lane(v, 8, j) \in Unsigneds(Width("f64")) /\ "f32" \in FloatTypes /\ "f64" \in FloatTypes /\ Width("f32") = Bits(4)
      BY <3>1, WidthBits, LaneNumber DEF FloatTypes
    <3> QED BY <1>2, <2>1, <3>2, SameFloat
  <2>2. CASE ~ (j < 2)
    BY <1>2, <2>2, WidthBits
  <2> QED BY <2>1, <2>2
<1>4. Lane(r, 4, i) = lanes[i]
  BY <1>1, <1>3, LanesMade, WidthBits
<1>5. IF i >= 2 THEN Lane(r, 4, i) = 0
      ELSE SameNumber("f32", evalConversion("f32", "demote", "f64", "", Lane(v, 8, i)), Lane(r, 4, i))
  BY <1>2, <1>3, <1>4, WidthBits DEF evalConversion
<1> QED BY <1>5 DEF UnaryLane, r

LEMMA TruncatedNumber ==
  ASSUME NEW f \in FloatTypes, NEW how, NEW x \in Unsigneds(Width(f))
  PROVE  /\ TruncSat(f, how, x) \in Unsigneds(Bits(4))
         /\ TruncSat(f, how, x) = evalConversion("i32", "trunc_sat", f, how, x)
<1> DEFINE v == evalConversion("i32", "trunc_sat", f, how, x)
<1>1. TruncSat(f, how, x) = v
  BY DEF TruncSat, evalConversion
<1> HIDE DEF v
<1>2. Converts("i32", "trunc_sat", f, how, x, v)
  BY SaturateExact DEF v
<1>3. v \in Unsigneds(Width("i32"))
  BY <1>2 DEF Converts
<1> QED BY <1>1, <1>3, WidthBits DEF v

LEMMA TruncatedLane ==
  ASSUME NEW o, o.op \in {"trunc_sat", "relaxed_trunc"}, o.shape = "i32x4", o.from \in FloatShapes, NEW v \in Vectors,
         NEW i \in Lanes(4)
  PROVE  UnaryLane(o, v, evalV128Unary(o, v), 4, i)
<1> DEFINE r == evalV128Unary(o, v)
           f == FloatShapeType[o.from]
           m == LaneBytes[o.from]
           lanes == [j \in Lanes(4) |-> IF o.from = "f64x2" /\ j >= 2 THEN 0 ELSE TruncSat(f, o.how, Lane(v, m, j))]
<1>1. f \in FloatTypes /\ m \in LaneSizes /\ Width(f) = Bits(m) /\ \A j \in Lanes(4) : j \in Lanes(m) \/ (o.from = "f64x2" /\ j >= 2)
  BY WidthBits DEF FloatTypes, FloatShapes, FloatShapeType, LaneBytes
<1>2. r = Pack(4, lanes)
  <2>1. CASE o.from = "f32x4"
    BY <2>1 DEF evalV128Unary, FloatShapeType, LaneBytes, truncSatF32x4ToI32x4, Each
  <2>2. CASE o.from = "f64x2"
    <3>1. r = Pack(4, [j \in Lanes(4) |-> IF j < 2 THEN TruncSat("f64", o.how, Lane(v, 8, j)) ELSE 0])
      BY <2>2 DEF evalV128Unary, truncSatF64x2ToI32x4Zero, LowLanes
    <3>2. \A j \in Lanes(4) : j < 2 <=> ~ (j >= 2)
      BY WidthBits
    <3> QED BY <2>2, <3>1, <3>2 DEF FloatShapeType, LaneBytes
  <2> QED BY <2>1, <2>2 DEF FloatShapes
<1>3. \A j \in Lanes(4) : lanes[j] = IF o.from = "f64x2" /\ j >= 2 THEN 0 ELSE TruncSat(f, o.how, Lane(v, m, j))
  OBVIOUS
<1> HIDE DEF r, f, m, lanes
<1>4. \A j \in Lanes(4) : /\ lanes[j] \in Unsigneds(Bits(4))
                          /\ ~ (o.from = "f64x2" /\ j >= 2) => lanes[j] = evalConversion("i32", "trunc_sat", f, o.how, Lane(v, m, j))
  <2> TAKE j \in Lanes(4)
  <2>1. CASE o.from = "f64x2" /\ j >= 2
    BY <1>3, <2>1, WidthBits
  <2>2. CASE ~ (o.from = "f64x2" /\ j >= 2)
    <3>1. Lane(v, m, j) \in Unsigneds(Width(f))
      BY <1>1, <2>2, LaneNumber
    <3> QED BY <1>1, <1>3, <2>2, <3>1, TruncatedNumber
  <2> QED BY <2>1, <2>2
<1>5. Lane(r, 4, i) = lanes[i]
  BY <1>2, <1>4, LanesMade, WidthBits
<1>6. IF o.from = "f64x2" /\ i >= 2 THEN Lane(r, 4, i) = 0
      ELSE Lane(r, 4, i) = evalConversion("i32", "trunc_sat", f, o.how, Lane(v, m, i))
  BY <1>3, <1>4, <1>5
<1> QED BY <1>6 DEF UnaryLane, r, f, m

-----------------------------------------------------------------------------
(* Lanes of floats, one operand *)

LEMMA OnesSame ==
  ASSUME NEW f \in FloatTypes, NEW neg, NEW n, NEW r, IsOnes(f, neg, n, r), NEW s, IsOnes(f, neg, n, s)
  PROVE  r = s
<1>1. PICK g \in 0 .. Inf(f) : r = Signed(f, neg, g) /\ Units(f, g) = n * One
  BY DEF IsOnes
<1>2. PICK h \in 0 .. Inf(f) : s = Signed(f, neg, h) /\ Units(f, h) = n * One
  BY DEF IsOnes
<1>3. g \in Nat /\ h \in Nat /\ Units(f, g) \in Nat /\ Units(f, h) \in Nat
  BY UnitsNext
<1>4. g = h
  <2>1. ASSUME g < h PROVE FALSE
    <3>1. Units(f, g) < Units(f, h)
      BY <1>3, <2>1, UnitsOrder
    <3> QED BY <1>1, <1>2, <1>3, <3>1
  <2>2. ASSUME h < g PROVE FALSE
    <3>1. Units(f, h) < Units(f, g)
      BY <1>3, <2>2, UnitsOrder
    <3> QED BY <1>1, <1>2, <1>3, <3>1
  <2> QED BY <1>3, <2>1, <2>2
<1> QED BY <1>1, <1>2, <1>4

LEMMA KindSame ==
  ASSUME NEW f \in FloatTypes, NEW x, NEW r, KeepsKind(f, x, f, r), NEW s, KeepsKind(f, x, f, s),
         IsNaN(f, x) \/ IsInf(f, x)
  PROVE  SameNumber(f, r, s)
<1>1. CASE IsNaN(f, x)
  <2>1. IsNaN(f, r) /\ IsNaN(f, s)
    BY <1>1, Kinds DEF KeepsKind
  <2> QED BY <2>1 DEF SameNumber
<1>2. CASE IsInf(f, x)
  <2>1. IsInf(f, r) /\ IsInf(f, s)
    BY <1>2, Kinds DEF KeepsKind
  <2>2. Magnitude(f, r) = Inf(f) /\ Magnitude(f, s) = Inf(f)
    BY <2>1 DEF IsInf
  <2>3. IsNeg(f, r) = IsNeg(f, s) /\ r \in Unsigneds(Width(f)) /\ s \in Unsigneds(Width(f))
    BY DEF KeepsKind
  <2>4. r = Signed(f, IsNeg(f, r), Magnitude(f, r)) /\ s = Signed(f, IsNeg(f, s), Magnitude(f, s))
    BY <2>3, PatternSigned
  <2>5. r = s
    BY <2>2, <2>3, <2>4
  <2> QED BY <2>5 DEF SameNumber
<1> QED BY <1>1, <1>2

LEMMA SameRounded ==
  ASSUME NEW f \in FloatTypes, NEW op \in Modes, NEW x \in Unsigneds(Width(f))
  PROVE  Integral(f, op, x) \in Unsigneds(Width(f)) /\ SameNumber(f, FloatUnaryOf(f, op, x), Integral(f, op, x))
<1> DEFINE r == FloatUnaryOf(f, op, x)
           s == Integral(f, op, x)
           m == Units(f, Magnitude(f, x))
<1>1. CASE IsNaN(f, x) \/ IsInf(f, x)
  <2>1. KeepsKind(f, x, f, r)
    BY <1>1, RoundedKeeps
  <2>2. KeepsKind(f, x, f, s)
    BY <1>1, IntegralKeeps
  <2> HIDE DEF r, s
  <2>3. SameNumber(f, r, s)
    BY <1>1, <2>1, <2>2, KindSame
  <2> QED BY <2>2, <2>3 DEF KeepsKind, r, s
<1>2. CASE ~IsNaN(f, x) /\ ~IsInf(f, x)
  <2> DEFINE n == IntegralOf(op, IsNeg(f, x), m)
  <2>1. IsOnes(f, IsNeg(f, x), n, r)
    BY <1>2, RoundedOnes
  <2>2. m = Units(f, Magnitude(f, x))
    OBVIOUS
  <2> HIDE DEF m
  <2>3. /\ IsOnes(f, IsNeg(f, x), n, s) /\ IsIntegral(op, IsNeg(f, x), m, n)
        /\ m \in Nat /\ IsNeg(f, x) \in BOOLEAN
    BY <1>2, <2>2, IntegralOnes
  <2> HIDE DEF r, s, n
  <2>4. r = s
    BY <2>1, <2>3, OnesSame
  <2>5. s \in Unsigneds(Width(f))
    BY <1>2, <2>2, <2>3, OnesExact
  <2> QED BY <2>4, <2>5 DEF SameNumber, r, s
<1> QED BY <1>1, <1>2

UnaryLaneOf(f, op, x) ==
  IF op = "sqrt" /\ (IsNaN(f, x) \/ (IsNeg(f, x) /\ ~IsZero(f, x))) THEN CanonicalNaN(f) ELSE FloatUnary(f, op, x)

LEMMA UnaryFloatNumber ==
  ASSUME NEW f \in FloatTypes, NEW op \in FloatUnaries, NEW x \in Unsigneds(Width(f))
  PROVE  UnaryLaneOf(f, op, x) \in Unsigneds(Width(f)) /\ SameNumber(f, FloatUnaryOf(f, op, x), UnaryLaneOf(f, op, x))
<1> DEFINE r == FloatUnaryOf(f, op, x)
<1>1. UnaryIs(f, op, x, r)
  BY FloatUnaryExact
<1>2. f \in {"f32", "f64"}
  BY DEF FloatTypes
<1>3. CASE op \in Modes
  <2>1. UnaryLaneOf(f, op, x) = Integral(f, op, x)
    BY <1>3 DEF UnaryLaneOf, FloatUnary, Modes
  <2> QED BY <1>3, <2>1, SameRounded
<1>4. CASE op \in {"abs", "neg", "sqrt"}
  <2>1. r = FloatUnary(f, op, x)
    BY <1>2, <1>4 DEF FloatUnaryOf, evalF32Unary, evalF64Unary
  <2> HIDE DEF r
  <2>2. CASE op = "sqrt" /\ (IsNaN(f, x) \/ (IsNeg(f, x) /\ ~IsZero(f, x)))
    <3>1. UnaryLaneOf(f, op, x) = CanonicalNaN(f)
      BY <2>2 DEF UnaryLaneOf
    <3>2. IsNaN(f, r)
      BY <1>1, <2>2 DEF UnaryIs, ExactFloatUnary
    <3>3. CanonicalNaN(f) \in Unsigneds(Width(f)) /\ IsNaN(f, CanonicalNaN(f))
      BY CanonicalExact
    <3> QED BY <3>1, <3>2, <3>3 DEF SameNumber, r
  <2>3. CASE ~ (op = "sqrt" /\ (IsNaN(f, x) \/ (IsNeg(f, x) /\ ~IsZero(f, x))))
    <3>1. UnaryLaneOf(f, op, x) = r
      BY <2>1, <2>3 DEF UnaryLaneOf
    <3> QED BY <1>1, <3>1 DEF SameNumber, UnaryIs, r
  <2> QED BY <2>2, <2>3
<1> QED BY <1>3, <1>4 DEF FloatUnaries, Modes

LEMMA FloatLane ==
  ASSUME NEW o, o.op \in FloatUnaries, o.shape \in FloatShapes, NEW v \in Vectors, NEW n, n = LaneBytes[o.shape],
         NEW i \in Lanes(n)
  PROVE  UnaryLane(o, v, evalV128Unary(o, v), n, i)
<1> DEFINE f == FloatShapeType[o.shape]
           r == evalV128Unary(o, v)
           lanes == [j \in Lanes(n) |-> UnaryLaneOf(f, o.op, Lane(v, n, j))]
<1>1. f \in FloatTypes /\ Width(f) = Bits(n) /\ n \in LaneSizes /\ Bytes[f] = n
  BY WidthBits DEF FloatShapes, FloatShapeType, LaneBytes, FloatTypes, Bytes
<1>2. r = Pack(n, lanes)
  <2>1. r = UnaryFloatLanes(f, o.op, v)
    BY DEF FloatShapes, FloatShapeType, FloatUnaries, evalV128Unary, unaryF32x4, unaryF64x2
  <2> HIDE DEF f
  <2>2. UnaryFloatLanes(f, o.op, v) = Pack(n, lanes)
    BY <1>1 DEF UnaryFloatLanes, Each, UnaryLaneOf
  <2> QED BY <2>1, <2>2
<1>3. \A j \in Lanes(n) : lanes[j] = UnaryLaneOf(f, o.op, Lane(v, n, j))
  OBVIOUS
<1> HIDE DEF f, r, lanes
<1>4. \A j \in Lanes(n) : lanes[j] \in Unsigneds(Bits(n)) /\ SameNumber(f, FloatUnaryOf(f, o.op, Lane(v, n, j)), lanes[j])
  <2> TAKE j \in Lanes(n)
  <2>1. Lane(v, n, j) \in Unsigneds(Width(f))
    BY <1>1, LaneNumber
  <2> QED BY <1>1, <1>3, <2>1, UnaryFloatNumber
<1>5. Lane(r, n, i) = lanes[i]
  BY <1>1, <1>2, <1>4, LanesMade
<1>6. SameNumber(f, IF f = "f32" THEN evalF32Unary(o.op, Lane(v, n, i)) ELSE evalF64Unary(o.op, Lane(v, n, i)), Lane(r, n, i))
  BY <1>4, <1>5 DEF FloatUnaryOf
<1> QED BY <1>6 DEF UnaryLane, r, f, FloatShapes, FloatUnaries, IntShapes

LEMMA VectorUnaryExact ==
  ASSUME NEW o, HasVectorUnary(o.op, o.shape, o.from), o.op # "not", NEW v \in Vectors, NEW n, n = LaneBytes[o.shape],
         NEW i \in Lanes(n)
  PROVE  UnaryLane(o, v, evalV128Unary(o, v), n, i)
<1>1. CASE o.op = "popcnt"
  <2>1. o.shape = "i8x16" /\ n = 1
    BY <1>1 DEF HasVectorUnary, LaneBytes
  <2> QED BY <1>1, <2>1, CountedLane
<1>2. CASE o.op \in {"abs", "neg"} /\ o.shape \in IntShapes
  BY <1>2, SignedLane
<1>3. CASE o.op \in {"extend", "extadd_pairwise"}
  <2>1. \/ o.op = "extadd_pairwise" /\ o.shape \in {"i16x8", "i32x4"}
        \/ o.op = "extend" /\ o.shape \in {"i16x8", "i32x4", "i64x2"}
    BY <1>3 DEF HasVectorUnary
  <2> QED BY <2>1, WidenedLane
<1>4. CASE o.op = "convert"
  BY <1>4, ConvertedLane DEF HasVectorUnary
<1>5. CASE o.op = "demote"
  <2>1. o.shape = "f32x4" /\ n = 4
    BY <1>5 DEF HasVectorUnary, LaneBytes
  <2> QED BY <1>5, <2>1, DemotedLane
<1>6. CASE o.op = "promote"
  <2>1. o.shape = "f64x2" /\ n = 8
    BY <1>6 DEF HasVectorUnary, LaneBytes
  <2> QED BY <1>6, <2>1, PromotedLane
<1>7. CASE o.op \in {"trunc_sat", "relaxed_trunc"}
  <2>1. o.shape = "i32x4" /\ n = 4 /\ o.from \in FloatShapes
    BY <1>7 DEF HasVectorUnary, LaneBytes
  <2> QED BY <1>7, <2>1, TruncatedLane
<1>8. CASE o.op \in FloatUnaries /\ o.shape \in FloatShapes
  BY <1>8, FloatLane
<1> QED BY <1>1, <1>2, <1>3, <1>4, <1>5, <1>6, <1>7, <1>8 DEF HasVectorUnary, FloatUnaries

-----------------------------------------------------------------------------
(* Lanes of integers, two operands *)

LEMMA SaturateNumber ==
  ASSUME NEW w \in Nat \ {0}, NEW how, NEW v \in Int
  PROVE  LET z == Saturate(w, how, v)
         IN  /\ z \in Unsigneds(w)
             /\ IsClamped(IF how = "s" THEN S(w, z) ELSE z, v, Limits(w, how)[1], Limits(w, how)[2])
<1> DEFINE h == 2^(w - 1)
           p == 2^w
           z == Saturate(w, how, v)
<1>1. p = 2 * h /\ h \in Nat \ {0} /\ p \in Nat \ {0}
  BY Halves
<1>2. CASE how = "s"
  <2> DEFINE c == clampInt(v, -h, h - 1)
  <2>1. c \in -h .. h - 1 /\ IsClamped(c, v, -h, h - 1)
    <3> HIDE DEF h
    <3> QED BY <1>1 DEF clampInt, IsClamped
  <2>2. z = U(w, c) /\ Limits(w, how)[1] = -h /\ Limits(w, how)[2] = h - 1
    BY <1>2 DEF Saturate, Limits
  <2>3. c \in Signeds(w) /\ c \in Int
    <3> HIDE DEF c
    <3> QED BY <1>1, <2>1 DEF Signeds
  <2> HIDE DEF c, z
  <2>4. S(w, z) = c /\ z \in Unsigneds(w)
    BY <2>2, <2>3, SignedFacts
  <2> QED BY <1>2, <2>1, <2>2, <2>4 DEF z
<1>3. CASE how # "s"
  <2>1. z = clampInt(v, 0, p - 1) /\ Limits(w, how)[1] = 0 /\ Limits(w, how)[2] = p - 1
    BY <1>3 DEF Saturate, Limits
  <2>2. z \in 0 .. p - 1 /\ IsClamped(z, v, 0, p - 1)
    <3> HIDE DEF p, z
    <3> QED BY <1>1, <2>1 DEF clampInt, IsClamped
  <2> HIDE DEF z
  <2> QED BY <1>3, <2>1, <2>2 DEF Unsigneds, z
<1> QED BY <1>2, <1>3

\* What a lane of w bits is to be, of two lanes.
LaneIs(w, op, x, y, z) ==
  CASE op \in {"add", "sub", "mul"} -> ExactTotal(w, op, x, y, z)
    [] op = "add_sat_s" -> IsClamped(S(w, z), S(w, x) + S(w, y), -(2^(w - 1)), 2^(w - 1) - 1)
    [] op = "sub_sat_s" -> IsClamped(S(w, z), S(w, x) - S(w, y), -(2^(w - 1)), 2^(w - 1) - 1)
    [] op = "add_sat_u" -> IsClamped(z, x + y, 0, 2^w - 1)
    [] op = "sub_sat_u" -> IsClamped(z, x - y, 0, 2^w - 1)
    [] op \in {"min_s", "max_s"} ->
         z \in {x, y} /\ \A k \in {x, y} : IF op = "min_s" THEN S(w, z) <= S(w, k) ELSE S(w, z) >= S(w, k)
    [] op \in {"min_u", "max_u"} -> z \in {x, y} /\ \A k \in {x, y} : IF op = "min_u" THEN z <= k ELSE z >= k
    [] op = "avgr_u" -> 2 * z - x - y \in {0, 1}
Saturations == {"add_sat_s", "add_sat_u", "sub_sat_s", "sub_sat_u"}
Extremes == {"min_s", "max_s", "min_u", "max_u"}
LaneOps == {"add", "sub", "mul", "avgr_u"} \cup Saturations \cup Extremes

LEMMA SaturatedLane ==
  ASSUME NEW w \in Nat \ {0}, NEW op \in Saturations, NEW x \in Unsigneds(w), NEW y \in Unsigneds(w)
  PROVE  LaneBinary(w, op, x, y) \in Unsigneds(w) /\ LaneIs(w, op, x, y, LaneBinary(w, op, x, y))
<1> DEFINE z == LaneBinary(w, op, x, y)
<1>1. S(w, x) \in Int /\ S(w, y) \in Int /\ x \in Int /\ y \in Int
  BY SignedBits, 0 \in Nat, Pow DEF Unsigneds
<1>2. ASSUME NEW how \in {"s", "u"}, NEW v \in Int, z = Saturate(w, how, v)
      PROVE  /\ z \in Unsigneds(w)
             /\ how = "s" => IsClamped(S(w, z), v, -(2^(w - 1)), 2^(w - 1) - 1)
             /\ how = "u" => IsClamped(z, v, 0, 2^w - 1)
  BY <1>2, SaturateNumber DEF Limits
<1>3. CASE op = "add_sat_s"
  <2> DEFINE v == S(w, x) + S(w, y)
  <2>1. v \in Int /\ z = Saturate(w, "s", v)
    BY <1>1, <1>3 DEF LaneBinary
  <2> HIDE DEF v, z
  <2>2. z \in Unsigneds(w) /\ IsClamped(S(w, z), v, -(2^(w - 1)), 2^(w - 1) - 1)
    BY <1>2, <2>1
  <2> QED BY <1>3, <2>2 DEF LaneIs, v, z
<1>4. CASE op = "sub_sat_s"
  <2> DEFINE v == S(w, x) - S(w, y)
  <2>1. v \in Int /\ z = Saturate(w, "s", v)
    BY <1>1, <1>4 DEF LaneBinary
  <2> HIDE DEF v, z
  <2>2. z \in Unsigneds(w) /\ IsClamped(S(w, z), v, -(2^(w - 1)), 2^(w - 1) - 1)
    BY <1>2, <2>1
  <2> QED BY <1>4, <2>2 DEF LaneIs, v, z
<1>5. CASE op = "add_sat_u"
  <2> DEFINE v == x + y
  <2>1. v \in Int /\ z = Saturate(w, "u", v)
    BY <1>1, <1>5 DEF LaneBinary
  <2> HIDE DEF v, z
  <2>2. z \in Unsigneds(w) /\ IsClamped(z, v, 0, 2^w - 1)
    BY <1>2, <2>1
  <2> QED BY <1>5, <2>2 DEF LaneIs, v, z
<1>6. CASE op = "sub_sat_u"
  <2> DEFINE v == x - y
  <2>1. v \in Int /\ z = Saturate(w, "u", v)
    BY <1>1, <1>6 DEF LaneBinary
  <2> HIDE DEF v, z
  <2>2. z \in Unsigneds(w) /\ IsClamped(z, v, 0, 2^w - 1)
    BY <1>2, <2>1
  <2> QED BY <1>6, <2>2 DEF LaneIs, v, z
<1> QED BY <1>3, <1>4, <1>5, <1>6 DEF Saturations

LEMMA ExtremeLane ==
  ASSUME NEW w \in Nat \ {0}, NEW op \in Extremes, NEW x \in Unsigneds(w), NEW y \in Unsigneds(w)
  PROVE  LaneBinary(w, op, x, y) \in Unsigneds(w) /\ LaneIs(w, op, x, y, LaneBinary(w, op, x, y))
<1> DEFINE z == LaneBinary(w, op, x, y)
<1>1. S(w, x) \in Int /\ S(w, y) \in Int /\ x \in Int /\ y \in Int
  BY SignedBits, 0 \in Nat, Pow DEF Unsigneds
<1>2. U(w, S(w, x)) = x /\ U(w, S(w, y)) = y
  BY SignedFacts
<1>3. CASE op = "min_s"
  <2>1. z = U(w, Least(S(w, x), S(w, y)))
    BY <1>3 DEF LaneBinary
  <2>2. z = IF S(w, x) < S(w, y) THEN x ELSE y
    BY <1>2, <2>1 DEF Least
  <2> HIDE DEF z
  <2>3. z \in {x, y} /\ S(w, z) <= S(w, x) /\ S(w, z) <= S(w, y)
    BY <1>1, <2>2
  <2> QED BY <1>3, <2>3 DEF LaneIs, z
<1>4. CASE op = "max_s"
  <2>1. z = U(w, Greatest(S(w, x), S(w, y)))
    BY <1>4 DEF LaneBinary
  <2>2. z = IF S(w, x) > S(w, y) THEN x ELSE y
    BY <1>2, <2>1 DEF Greatest
  <2> HIDE DEF z
  <2>3. z \in {x, y} /\ S(w, z) >= S(w, x) /\ S(w, z) >= S(w, y)
    BY <1>1, <2>2
  <2> QED BY <1>4, <2>3 DEF LaneIs, z
<1>5. CASE op = "min_u"
  <2>1. z = IF x < y THEN x ELSE y
    BY <1>5 DEF LaneBinary, Least
  <2> HIDE DEF z
  <2>2. z \in {x, y} /\ z <= x /\ z <= y
    BY <1>1, <2>1
  <2> QED BY <1>5, <2>2 DEF LaneIs, z
<1>6. CASE op = "max_u"
  <2>1. z = IF x > y THEN x ELSE y
    BY <1>6 DEF LaneBinary, Greatest
  <2> HIDE DEF z
  <2>2. z \in {x, y} /\ z >= x /\ z >= y
    BY <1>1, <2>1
  <2> QED BY <1>6, <2>2 DEF LaneIs, z
<1> QED BY <1>3, <1>4, <1>5, <1>6 DEF Extremes

LEMMA LaneBinaryExact ==
  ASSUME NEW w \in Nat \ {0}, NEW op \in LaneOps, NEW x \in Unsigneds(w), NEW y \in Unsigneds(w)
  PROVE  LaneBinary(w, op, x, y) \in Unsigneds(w) /\ LaneIs(w, op, x, y, LaneBinary(w, op, x, y))
<1> DEFINE z == LaneBinary(w, op, x, y)
<1>1. CASE op \in {"add", "sub", "mul"}
  <2>1. z = IntBinary(w, op, x, y)
    BY <1>1 DEF LaneBinary
  <2> HIDE DEF z
  <2>2. Keeps(w, op, x, y, z)
    BY <1>1, <2>1, SumsExact
  <2>3. z \in Unsigneds(w) /\ ExactTotal(w, op, x, y, z)
    BY <1>1, <2>2 DEF Keeps, BinaryIs
  <2> QED BY <1>1, <2>3 DEF LaneIs, z
<1>2. CASE op = "avgr_u"
  <2> DEFINE p == 2^w
  <2>1. z = (x + y + 1) \div 2 /\ p \in Nat \ {0} /\ x \in 0 .. p - 1 /\ y \in 0 .. p - 1
    BY <1>2, Pow DEF LaneBinary, Unsigneds
  <2> HIDE DEF z, p
  <2>2. z \in 0 .. p - 1 /\ 2 * z - x - y \in {0, 1}
    BY <2>1
  <2> QED BY <1>2, <2>2 DEF LaneIs, Unsigneds, z, p
<1> QED BY <1>1, <1>2, SaturatedLane, ExtremeLane DEF LaneOps

LEMMA IntegerPair ==
  ASSUME NEW o, o.op \in LaneOps, o.shape \in IntShapes, NEW a \in Vectors, NEW b \in Vectors,
         NEW n, n = LaneBytes[o.shape], NEW i \in Lanes(n)
  PROVE  BinaryLane(o, a, b, evalV128Binary(o, a, b), n, i)
<1> DEFINE r == evalV128Binary(o, a, b)
           w == n * ByteBits
           lanes == [j \in Lanes(n) |-> LaneBinary(w, o.op, Lane(a, n, j), Lane(b, n, j))]
<1>1. n \in LaneSizes /\ w = Bits(n) /\ w \in Nat \ {0}
  BY ShapeFacts, LaneBits DEF LaneShapes, Bits
<1>2. r = BinaryLanes(n, o.op, a, b)
  BY DEF evalV128Binary, LaneOps, Saturations, Extremes, IntShapes, LaneBytes, binaryI8x16, binaryI16x8, binaryI32x4, binaryI64x2
<1>3. r = Pack(n, lanes)
  BY <1>2 DEF BinaryLanes, Pairwise
<1>4. \A j \in Lanes(n) : lanes[j] = LaneBinary(w, o.op, Lane(a, n, j), Lane(b, n, j))
  OBVIOUS
<1> HIDE DEF r, lanes, w
<1>5. \A j \in Lanes(n) : lanes[j] \in Unsigneds(Bits(n)) /\ LaneIs(w, o.op, Lane(a, n, j), Lane(b, n, j), lanes[j])
  <2> TAKE j \in Lanes(n)
  <2>1. Lane(a, n, j) \in Unsigneds(w) /\ Lane(b, n, j) \in Unsigneds(w)
    BY <1>1, LaneNumber
  <2> QED BY <1>1, <1>4, <2>1, LaneBinaryExact
<1>6. Lane(r, n, i) = lanes[i]
  BY <1>1, <1>3, <1>5, LanesMade
<1> DEFINE x == Lane(a, n, i)
           y == Lane(b, n, i)
           z == Lane(r, n, i)
<1>7. LaneIs(w, o.op, x, y, z)
  BY <1>5, <1>6
<1>8. /\ Read(n, "s", z) = S(w, z) /\ Read(n, "u", z) = z
      /\ Limits(w, "s")[1] = -(2^(w - 1)) /\ Limits(w, "s")[2] = 2^(w - 1) - 1
      /\ Limits(w, "u")[1] = 0 /\ Limits(w, "u")[2] = 2^w - 1
  BY DEF Read, Limits, w
<1>9. BinaryLane(o, a, b, r, n, i) <=>
        CASE o.op \in {"add", "sub", "mul"} -> ExactTotal(w, o.op, x, y, z)
          [] o.op = "add_sat_s" -> IsClamped(Read(n, "s", z), S(w, x) + S(w, y), Limits(w, "s")[1], Limits(w, "s")[2])
          [] o.op = "sub_sat_s" -> IsClamped(Read(n, "s", z), S(w, x) - S(w, y), Limits(w, "s")[1], Limits(w, "s")[2])
          [] o.op = "add_sat_u" -> IsClamped(Read(n, "u", z), x + y, Limits(w, "u")[1], Limits(w, "u")[2])
          [] o.op = "sub_sat_u" -> IsClamped(Read(n, "u", z), x - y, Limits(w, "u")[1], Limits(w, "u")[2])
          [] o.op \in {"min_s", "max_s"} ->
               z \in {x, y} /\ \A k \in {x, y} : IF o.op = "min_s" THEN S(w, z) <= S(w, k) ELSE S(w, z) >= S(w, k)
          [] o.op \in {"min_u", "max_u"} -> z \in {x, y} /\ \A k \in {x, y} : IF o.op = "min_u" THEN z <= k ELSE z >= k
          [] o.op = "avgr_u" -> 2 * z - x - y \in {0, 1}
  BY DEF BinaryLane, LaneOps, Saturations, Extremes, IntShapes, w
<1> HIDE DEF x, y, z
<1>10. BinaryLane(o, a, b, r, n, i)
  BY <1>7, <1>8, <1>9 DEF LaneIs, LaneOps, Saturations, Extremes
<1> QED BY <1>10 DEF r

LEMMA NarrowPair ==
  ASSUME NEW o, o.op = "narrow", o.shape \in {"i8x16", "i16x8"}, NEW a \in Vectors, NEW b \in Vectors,
         NEW n, n = LaneBytes[o.shape], NEW i \in Lanes(n)
  PROVE  BinaryLane(o, a, b, evalV128Binary(o, a, b), n, i)
<1> DEFINE r == evalV128Binary(o, a, b)
           w == n * ByteBits
           half == VectorBytes \div (2 * n)
           Wide(j) == S(2 * n * ByteBits, IF j >= half THEN Lane(b, 2 * n, j - half) ELSE Lane(a, 2 * n, j))
           lanes == [j \in Lanes(n) |-> Saturate(w, o.how, Wide(j))]
<1>1. n \in {1, 2, 4} /\ n \in {1, 2}
  BY DEF LaneBytes
<1>2. n \in LaneSizes /\ 2 * n \in LaneSizes /\ w = Bits(n) /\ w \in Nat \ {0} /\ 2 * n * ByteBits = Bits(2 * n)
      /\ Bits(2 * n) \in Nat \ {0} /\ 2 * w = 2 * n * ByteBits
  <2>1. Bits(2 * n) = Bits(n) + Bits(n) /\ n * ByteBits = Bits(n) /\ Bits(n) \in Nat
    BY <1>1, TwiceBits
  <2> QED BY <1>1, <2>1, TwiceBits
<1>3. r = Pack(n, lanes)
  BY DEF evalV128Binary, LaneBytes, narrowI16x8ToI8x16, narrowI32x4ToI16x8, NarrowLanes
<1>4. \A j \in Lanes(n) : lanes[j] = Saturate(w, o.how, Wide(j))
  OBVIOUS
<1>5. \A j \in Lanes(n) : /\ j >= half => j - half \in Lanes(2 * n) /\ j % half = j - half /\ ~ (j < half)
                          /\ ~ (j >= half) => j \in Lanes(2 * n) /\ j % half = j /\ j < half
  BY <1>1 DEF Lanes, VectorBytes
<1>6. \A j \in Lanes(n) : /\ Wide(j) = S(2 * w, Lane(IF j < half THEN a ELSE b, 2 * n, j % half))
                          /\ Wide(j) \in Int
  <2> TAKE j \in Lanes(n)
  <2>1. Wide(j) = S(2 * w, Lane(IF j < half THEN a ELSE b, 2 * n, j % half))
    <3> HIDE DEF half, w
    <3> QED BY <1>2, <1>5
  <2>2. (IF j >= half THEN Lane(b, 2 * n, j - half) ELSE Lane(a, 2 * n, j)) \in Unsigneds(Bits(2 * n))
    <3> HIDE DEF half
    <3> QED BY <1>2, <1>5, LaneNumber
  <2> DEFINE x == IF j >= half THEN Lane(b, 2 * n, j - half) ELSE Lane(a, 2 * n, j)
  <2>3. Wide(j) = S(Bits(2 * n), x) /\ x \in Unsigneds(Bits(2 * n))
    BY <1>2, <2>2
  <2> HIDE DEF x
  <2>4. S(Bits(2 * n), x) \in Int
    BY <1>2, <2>3, SignedBits, 0 \in Nat
  <2> QED BY <2>1, <2>3, <2>4
<1> HIDE DEF r, lanes, w, half, Wide
<1>7. \A j \in Lanes(n) :
        /\ lanes[j] \in Unsigneds(w)
        /\ IsClamped(IF o.how = "s" THEN S(w, lanes[j]) ELSE lanes[j], Wide(j), Limits(w, o.how)[1], Limits(w, o.how)[2])
  BY <1>2, <1>4, <1>6, SaturateNumber
<1>8. Lane(r, n, i) = lanes[i]
  BY <1>2, <1>3, <1>7, LanesMade
<1> DEFINE z == Lane(r, n, i)
<1>9. Read(n, o.how, z) = IF o.how = "s" THEN S(w, z) ELSE z
  BY DEF Read, w
<1>10. IsClamped(Read(n, o.how, z), Wide(i), Limits(w, o.how)[1], Limits(w, o.how)[2])
  BY <1>7, <1>8, <1>9
<1>11. Wide(i) = S(2 * w, Lane(IF i < half THEN a ELSE b, 2 * n, i % half))
  BY <1>6
<1>12. BinaryLane(o, a, b, r, n, i) <=>
         IsClamped(Read(n, o.how, z), S(2 * w, Lane(IF i < half THEN a ELSE b, 2 * n, i % half)),
                   Limits(w, o.how)[1], Limits(w, o.how)[2])
  BY DEF BinaryLane, w, half
<1> HIDE DEF z
<1> QED BY <1>10, <1>11, <1>12 DEF r

\* A product of two fractions of w bits, rounded, without its one value too many.
LEMMA FractionProduct ==
  ASSUME NEW w \in Nat, w >= 2, NEW s \in Signeds(w), NEW t \in Signeds(w),
         NEW v, v = Least((s * t + 2^(w - 2)) \div 2^(w - 1), 2^(w - 1) - 1)
  PROVE  /\ v \in Signeds(w)
         /\ IF s = -(2^(w - 1)) /\ t = s THEN v = 2^(w - 1) - 1
            ELSE -(2^(w - 2)) <= s * t - v * 2^(w - 1) /\ s * t - v * 2^(w - 1) < 2^(w - 2)
<1> DEFINE h == 2^(w - 1)
           g == 2^(w - 2)
           p == s * t
           hh == h * h
<1>1. h = 2 * g /\ g \in Nat \ {0} /\ h \in Nat \ {0}
  <2>1. w - 2 \in Nat /\ (w - 2) + 1 = w - 1
    OBVIOUS
  <2> QED BY <2>1, Pow
<1>2. s \in -h .. h - 1 /\ t \in -h .. h - 1
  BY DEF Signeds
<1>3. v = Least((p + g) \div h, h - 1)
  OBVIOUS
<1> HIDE DEF h, g
<1>4. hh \in Nat /\ p \in Int /\ -hh <= p /\ p <= hh
      /\ (~ (s = -h /\ t = -h) => p <= hh - h) /\ (s = -h /\ t = -h => p = hh)
  <2> DEFINE m == IF s < 0 THEN -s ELSE s
             k == IF t < 0 THEN -t ELSE t
             q == m * k
  <2>1. m \in 0 .. h /\ k \in 0 .. h /\ s \in {m, -m} /\ t \in {k, -k} /\ m \in Nat /\ k \in Nat
    BY <1>1, <1>2
  <2>2. p \in {q, -q} /\ q \in Nat /\ p \in Int
    <3>1. CASE s < 0
      <4>1. s = -m /\ m \in Nat
        BY <2>1, <3>1
      <4> QED BY <1>2, <2>1, <4>1
    <3>2. CASE ~ (s < 0)
      <4>1. s = m /\ m \in Nat
        BY <1>2, <3>2
      <4> QED BY <1>2, <2>1, <4>1
    <3> QED BY <3>1, <3>2
  <2>3. ASSUME NEW x \in Nat, NEW y \in Nat, x <= h, y <= h
        PROVE  x * y <= hh /\ (x < h \/ y < h => x * y <= hh - h)
    <3> DEFINE e == (h - x) * y
               f == h * (h - y)
    <3>1. hh = x * y + e + f
      BY <1>1, <2>3
    <3>2. e \in Nat /\ f \in Nat
      BY <1>1, <2>3
    <3>3. y < h => f >= h
      <4> DEFINE c == h * (h - y - 1)
      <4>1. y < h => c \in Nat /\ f = h + c
        BY <1>1, <2>3
      <4> HIDE DEF c, f
      <4> QED BY <1>1, <3>2, <4>1
    <3>4. x < h /\ y = h => e >= h
      <4> DEFINE c == (h - x - 1) * y
      <4>1. x < h => c \in Nat /\ e = y + c
        BY <1>1, <2>3
      <4> HIDE DEF c, e
      <4> QED BY <1>1, <2>3, <3>2, <4>1
    <3>5. x * y \in Nat /\ hh \in Nat
      BY <1>1
    <3> HIDE DEF e, f, hh
    <3>6. y < h \/ y = h
      BY <1>1, <2>3
    <3> DEFINE xy == x * y
    <3> HIDE DEF xy
    <3>7. xy \in Nat /\ hh = xy + e + f
      BY <3>1, <3>5 DEF xy
    <3>8. xy <= hh /\ (x < h \/ y < h => xy <= hh - h)
      BY <1>1, <3>2, <3>3, <3>4, <3>5, <3>6, <3>7
    <3> QED BY <3>8 DEF xy
  <2>4. hh \in Nat
    BY <1>1
  <2>5. s = -h /\ t = -h => p = hh
    BY <1>1
  <2>6. q <= hh /\ (m < h \/ k < h => q <= hh - h)
    BY <2>1, <2>3
  <2>7. hh >= h
    <3> DEFINE c == h * (h - 1)
    <3>1. c \in Nat /\ hh = h + c
      BY <1>1
    <3> HIDE DEF c, hh
    <3> QED BY <1>1, <3>1
  <2>8. ~ (s = -h /\ t = -h) => p <= hh - h
    <3>1. ASSUME ~ (s = -h /\ t = -h) PROVE p <= hh - h
      <4>1. CASE m < h \/ k < h
        <5> HIDE DEF p, q, hh, m, k
        <5> QED BY <1>1, <2>2, <2>4, <2>6, <2>7, <4>1
      <4>2. CASE m = h /\ k = h
        <5>1. s \in {h, -h} /\ t \in {h, -h}
          <6> HIDE DEF m, k
          <6> QED BY <2>1, <4>2
        <5>2. s # h /\ t # h
          BY <1>1, <1>2
        <5> QED BY <3>1, <5>1, <5>2
      <4> HIDE DEF m, k
      <4> QED BY <1>1, <2>1, <4>1, <4>2
    <3> QED BY <3>1
  <2> HIDE DEF p, q, hh, m, k
  <2> QED BY <2>2, <2>4, <2>5, <2>6, <2>8
<1> DEFINE n == (p + g) \div h
           e == (p + g) % h
<1> HIDE DEF p
<1>5. p + g = h * n + e /\ e \in 0 .. h - 1 /\ n \in Int
  <2> DEFINE x == p + g
  <2>1. x \in Int
    BY <1>1, <1>4
  <2> HIDE DEF x
  <2>2. x = h * (x \div h) + (x % h) /\ x % h \in 0 .. h - 1 /\ x \div h \in Int
    BY <1>1, <2>1, DivMod
  <2> QED BY <2>2 DEF x
<1> HIDE DEF n, e
<1>6. n >= -h
  <2>1. ASSUME n < -h PROVE FALSE
    <3> DEFINE c == h * (-h - 1 - n)
    <3>1. c \in Nat /\ h * n = -hh - h - c
      BY <1>1, <1>5, <2>1
    <3> HIDE DEF c, hh
    <3> QED BY <1>1, <1>4, <1>5, <3>1
  <2> QED BY <1>1, <1>5, <2>1
<1>7. CASE s = -h /\ t = -h
  <2>1. n = h
    <3>1. p + g = h * h + g /\ g \in 0 .. h - 1 /\ p + g \in Int /\ h \in Int /\ h \in Nat \ {0}
      BY <1>1, <1>4, <1>7
    <3> DEFINE x == p + g
    <3> HIDE DEF x, g, h
    <3>2. x = h * h + g /\ x \in Int
      BY <3>1 DEF x
    <3>3. x \div h = h
      BY ONLY <3>1, <3>2, DivUnique
    <3> QED BY <3>3 DEF n, x
  <2>2. v = h - 1
    BY <1>1, <1>3, <2>1 DEF Least, n
  <2> QED BY <1>1, <1>7, <2>2 DEF Signeds, h
<1>8. CASE ~ (s = -h /\ t = -h)
  <2>1. n <= h - 1
    <3>1. ASSUME n >= h PROVE FALSE
      <4> DEFINE c == h * (n - h)
      <4>1. c \in Nat /\ h * n = hh + c
        BY <1>1, <1>5, <3>1
      <4> HIDE DEF c, hh
      <4> QED BY <1>1, <1>4, <1>5, <1>8, <4>1
    <3> QED BY <1>1, <1>5, <3>1
  <2>2. v = n
    BY <1>1, <1>3, <1>5, <2>1 DEF Least, n
  <2>3. v \in Signeds(w)
    BY <1>1, <1>5, <1>6, <2>1, <2>2 DEF Signeds, h
  <2>4. p - v * h = e - g
    <3> DEFINE c == h * n
    <3>1. v * h = c /\ c \in Int
      BY <1>1, <1>5, <2>2
    <3>2. p + g = c + e
      BY <1>5
    <3> HIDE DEF c
    <3> QED BY <1>1, <1>4, <1>5, <3>1, <3>2
  <2>5. -g <= p - v * h /\ p - v * h < g
    BY <1>1, <1>5, <2>4
  <2>6. ~ (s = -h /\ t = s)
    BY <1>8
  <2> QED BY <2>3, <2>5, <2>6 DEF p, h, g
<1> QED BY <1>7, <1>8

LEMMA FractionsPair ==
  ASSUME NEW o, o.op \in {"q15mulr_sat_s", "relaxed_q15mulr_s"}, o.shape = "i16x8",
         NEW a \in Vectors, NEW b \in Vectors, NEW n, n = LaneBytes[o.shape], NEW i \in Lanes(n)
  PROVE  BinaryLane(o, a, b, evalV128Binary(o, a, b), n, i)
<1> DEFINE r == evalV128Binary(o, a, b)
           w == 2 * ByteBits
           Value(j) == Least((S(w, Lane(a, 2, j)) * S(w, Lane(b, 2, j)) + 2^(w - 2)) \div 2^(w - 1), 2^(w - 1) - 1)
           lanes == [j \in Lanes(2) |-> U(w, Value(j))]
<1>1. n = 2 /\ 2 \in LaneSizes /\ w = Bits(2) /\ w \in Nat \ {0} /\ w >= 2
  BY LaneBits, ByteBitsAssumption DEF LaneBytes, LaneSizes, Bits
<1>2. r = Pack(2, lanes)
  BY DEF evalV128Binary, q15mulrSatI16x8, Pairwise
<1>3. \A j \in Lanes(2) : lanes[j] = U(w, Value(j))
  OBVIOUS
<1> HIDE DEF r, lanes
<1>4. ASSUME NEW j \in Lanes(2)
      PROVE  /\ S(w, Lane(a, 2, j)) \in Signeds(w) /\ S(w, Lane(b, 2, j)) \in Signeds(w)
             /\ Value(j) \in Signeds(w)
             /\ IF S(w, Lane(a, 2, j)) = -(2^(w - 1)) /\ S(w, Lane(b, 2, j)) = S(w, Lane(a, 2, j))
                THEN Value(j) = 2^(w - 1) - 1
                ELSE LET off == S(w, Lane(a, 2, j)) * S(w, Lane(b, 2, j)) - Value(j) * 2^(w - 1)
                     IN  -(2^(w - 2)) <= off /\ off < 2^(w - 2)
  <2> DEFINE s == S(w, Lane(a, 2, j))
             t == S(w, Lane(b, 2, j))
             v == Value(j)
  <2>1. Lane(a, 2, j) \in Unsigneds(w) /\ Lane(b, 2, j) \in Unsigneds(w)
    BY <1>1, LaneNumber
  <2>2. s \in Signeds(w) /\ t \in Signeds(w)
    BY <1>1, <2>1, SignedFacts
  <2>3. v = Least((s * t + 2^(w - 2)) \div 2^(w - 1), 2^(w - 1) - 1)
    OBVIOUS
  <2> HIDE DEF s, t, v, w
  <2>4. /\ v \in Signeds(w)
        /\ IF s = -(2^(w - 1)) /\ t = s THEN v = 2^(w - 1) - 1
           ELSE -(2^(w - 2)) <= s * t - v * 2^(w - 1) /\ s * t - v * 2^(w - 1) < 2^(w - 2)
    BY ONLY <1>1, <2>2, <2>3, FractionProduct
  <2> QED BY <2>2, <2>4 DEF s, t, v
<1> HIDE DEF w, Value
<1>5. \A j \in Lanes(2) : lanes[j] \in Unsigneds(w) /\ S(w, lanes[j]) = Value(j)
  <2> TAKE j \in Lanes(2)
  <2>1. Value(j) \in Signeds(w)
    BY <1>4
  <2>2. Value(j) \in Int
    BY <1>1, <2>1, Halves DEF Signeds
  <2> DEFINE v == Value(j)
  <2>3. v \in Signeds(w) /\ v \in Int /\ lanes[j] = U(w, v)
    BY <1>3, <2>1, <2>2
  <2> HIDE DEF v
  <2>4. U(w, v) \in Unsigneds(w) /\ S(w, U(w, v)) = v
    BY ONLY <1>1, <2>3, SignedFacts
  <2> QED BY <2>3, <2>4 DEF v
<1>6. Lane(r, 2, i) = lanes[i]
  BY <1>1, <1>2, <1>5, LanesMade
<1> DEFINE x == Lane(a, 2, i)
           y == Lane(b, 2, i)
           z == Lane(r, 2, i)
<1>7. S(w, z) = Value(i)
  BY <1>1, <1>5, <1>6
<1>8. x = y => S(w, x) = S(w, y)
  OBVIOUS
<1>9. S(w, x) = S(w, y) => x = y
  <2>1. x \in Unsigneds(w) /\ y \in Unsigneds(w)
    BY <1>1, LaneNumber
  <2> HIDE DEF x, y
  <2>2. U(w, S(w, x)) = x /\ U(w, S(w, y)) = y
    BY <1>1, <2>1, SignedFacts
  <2> QED BY <2>2
<1>10. IF S(w, x) = -(2^(w - 1)) /\ x = y THEN S(w, z) = 2^(w - 1) - 1
       ELSE LET off == S(w, x) * S(w, y) - S(w, z) * 2^(w - 1)
            IN  -(2^(w - 2)) <= off /\ off < 2^(w - 2)
  <2>1. IF S(w, x) = -(2^(w - 1)) /\ S(w, y) = S(w, x)
        THEN Value(i) = 2^(w - 1) - 1
        ELSE LET off == S(w, x) * S(w, y) - Value(i) * 2^(w - 1)
             IN  -(2^(w - 2)) <= off /\ off < 2^(w - 2)
    BY <1>1, <1>4
  <2> HIDE DEF x, y, z
  <2> QED BY <1>7, <1>8, <1>9, <2>1
<1>11. BinaryLane(o, a, b, r, 2, i) <=>
         IF S(w, x) = -(2^(w - 1)) /\ x = y THEN S(w, z) = 2^(w - 1) - 1
         ELSE LET off == S(w, x) * S(w, y) - S(w, z) * 2^(w - 1)
              IN  -(2^(w - 2)) <= off /\ off < 2^(w - 2)
  BY DEF BinaryLane, w
<1> QED BY <1>1, <1>10, <1>11 DEF r

\* A product of two lanes of m bytes in a lane of twice as many.
LEMMA ExtendedProduct ==
  ASSUME NEW m \in {1, 2, 4}, NEW half, NEW how, NEW a \in Vectors, NEW b \in Vectors, NEW i \in Lanes(2 * m)
  PROVE  (Lane(ExtmulLanes(m, half, how, a, b), 2 * m, i)
            - Read(m, how, Lane(a, m, Half(m, half) + i)) * Read(m, how, Lane(b, m, Half(m, half) + i))) % 2^Bits(2 * m) = 0
<1> DEFINE n == 2 * m
           r == ExtmulLanes(m, half, how, a, b)
           Factor(x, j) == Read(m, how, Lane(x, m, Half(m, half) + j))
           lanes == [j \in Lanes(n) |-> U(Bits(2 * m), Factor(a, j) * Factor(b, j))]
<1>1. /\ n \in LaneSizes /\ m \in LaneSizes /\ 2 * m * ByteBits = Bits(2 * m) /\ m * ByteBits = Bits(m)
      /\ Bits(m) \in Nat \ {0} /\ Bits(2 * m) \in Nat
  BY TwiceBits
<1>2. r = Pack(n, lanes)
  BY <1>1 DEF ExtmulLanes
<1>3. \A j \in Lanes(n) : lanes[j] = U(Bits(2 * m), Factor(a, j) * Factor(b, j))
  OBVIOUS
<1> HIDE DEF r, lanes
<1>4. \A j \in Lanes(n) : Factor(a, j) \in Int /\ Factor(b, j) \in Int
  <2> TAKE j \in Lanes(n)
  <2> DEFINE x == Lane(a, m, Half(m, half) + j)
             y == Lane(b, m, Half(m, half) + j)
  <2>1. x \in Unsigneds(Bits(m)) /\ y \in Unsigneds(Bits(m))
    BY <1>1, HalfPlaces, LaneNumber
  <2>2. Factor(a, j) = Read(m, how, x) /\ Factor(b, j) = Read(m, how, y)
    OBVIOUS
  <2> HIDE DEF x, y, Factor
  <2>3. S(Bits(m), x) \in Int /\ S(Bits(m), y) \in Int /\ x \in Int /\ y \in Int
    BY <1>1, <2>1, SignedBits, 0 \in Nat, Pow DEF Unsigneds
  <2> QED BY <1>1, <2>2, <2>3 DEF Read
<1> HIDE DEF Factor
<1>5. \A j \in Lanes(n) : /\ lanes[j] \in Unsigneds(Bits(n))
                          /\ (lanes[j] - Factor(a, j) * Factor(b, j)) % 2^Bits(2 * m) = 0
  <2> TAKE j \in Lanes(n)
  <2> DEFINE p == Factor(a, j) * Factor(b, j)
  <2>1. p \in Int /\ lanes[j] = U(Bits(2 * m), p)
    BY <1>3, <1>4
  <2> HIDE DEF p
  <2>2. U(Bits(2 * m), p) \in Unsigneds(Bits(2 * m)) /\ (U(Bits(2 * m), p) - p) % 2^Bits(2 * m) = 0
    BY <1>1, <2>1, CutExact
  <2> QED BY <2>1, <2>2 DEF p
<1> HIDE DEF n
<1>6. \A j \in Lanes(n) : Lane(r, n, j) = lanes[j]
  BY <1>1, <1>2, <1>5, LanesMade
<1>7. i \in Lanes(n)
  BY DEF n
<1>8. (Lane(r, n, i) - Factor(a, i) * Factor(b, i)) % 2^Bits(2 * m) = 0
  BY <1>5, <1>6, <1>7
<1> QED BY <1>8 DEF n, r, Factor

LEMMA ProductsPair ==
  ASSUME NEW o, o.op = "extmul", o.shape \in {"i16x8", "i32x4", "i64x2"}, NEW a \in Vectors, NEW b \in Vectors,
         NEW n, n = LaneBytes[o.shape], NEW i \in Lanes(n)
  PROVE  BinaryLane(o, a, b, evalV128Binary(o, a, b), n, i)
<1> DEFINE m == n \div 2
           r == evalV128Binary(o, a, b)
<1>1. m \in {1, 2, 4} /\ n = 2 * m
  BY DEF LaneBytes
<1>2. r = ExtmulLanes(m, o.half, o.how, a, b)
  BY DEF evalV128Binary, LaneBytes, extmulI8x16ToI16x8, extmulI16x8ToI32x4, extmulI32x4ToI64x2
<1>3. BinaryLane(o, a, b, r, n, i) <=>
        (Lane(r, n, i) - Read(m, o.how, Lane(a, m, (IF o.half = "high" THEN VectorBytes \div n ELSE 0) + i))
                           * Read(m, o.how, Lane(b, m, (IF o.half = "high" THEN VectorBytes \div n ELSE 0) + i)))
          % 2^(n * ByteBits) = 0
  BY DEF BinaryLane, IntShapes
<1>4. (IF o.half = "high" THEN VectorBytes \div n ELSE 0) = Half(m, o.half) /\ n * ByteBits = Bits(n)
  BY <1>1, HalfPlaces, TwiceBits
<1> HIDE DEF m, r
<1>5. (Lane(r, n, i) - Read(m, o.how, Lane(a, m, Half(m, o.half) + i)) * Read(m, o.how, Lane(b, m, Half(m, o.half) + i)))
        % 2^Bits(n) = 0
  BY <1>1, <1>2, ExtendedProduct
<1> QED BY <1>3, <1>4, <1>5 DEF r

UnfoldsDot(n, k, v, w, i, g) ==
  g = [j \in 0 .. k |->
        IF j = 0 THEN 0
        ELSE g[j - 1] + S(n * ByteBits, Lane(v, n, k * i + j - 1)) * S(n * ByteBits, Lane(w, n, k * i + j - 1))]

LEMMA DotUnfolds ==
  ASSUME NEW n, NEW k \in Nat, NEW v, NEW w, NEW i
  PROVE  \E g : UnfoldsDot(n, k, v, w, i, g) /\ Dot(n, k, v, w, i) = g[k]
<1> DEFINE Term(j) == S(n * ByteBits, Lane(v, n, k * i + j - 1)) * S(n * ByteBits, Lane(w, n, k * i + j - 1))
           Unfolds(m, g) == g = [j \in 0 .. m |-> IF j = 0 THEN 0 ELSE g[j - 1] + Term(j)]
           P == {m \in 0 .. k : \E g : Unfolds(m, g)}
<1> HIDE DEF Term
<1>1. 0 \in P
  <2> DEFINE g0 == [j \in 0 .. 0 |-> 0]
  <2>1. Unfolds(0, g0)
    OBVIOUS
  <2> HIDE DEF g0
  <2>2. 0 \in 0 .. k
    OBVIOUS
  <2> QED BY <2>1, <2>2
<1>2. ASSUME NEW m \in 0 .. k, m \in P, m < k PROVE m + 1 \in P
  <2>1. PICK g : Unfolds(m, g)
    BY <1>2
  <2> DEFINE g1 == [j \in 0 .. m + 1 |-> IF j = 0 THEN 0 ELSE g[j - 1] + Term(j)]
  <2>2. \A j \in 0 .. m : g1[j] = g[j]
    BY <2>1
  <2>3. Unfolds(m + 1, g1)
    <3> \A j \in 0 .. m + 1 : j # 0 => j - 1 \in 0 .. m
      OBVIOUS
    <3> QED BY <2>2
  <2> HIDE DEF g1
  <2>4. m + 1 \in 0 .. k
    BY <1>2
  <2> QED BY <2>3, <2>4
<1>3. k \in P
  <2> HIDE DEF P
  <2>1. 0 .. k \subseteq P
    BY <1>1, <1>2, Upto
  <2> QED BY <2>1
<1>4. \E g : UnfoldsDot(n, k, v, w, i, g)
  <2>1. PICK g : Unfolds(k, g)
    BY <1>3
  <2> QED BY <2>1 DEF UnfoldsDot, Term
<1> DEFINE h == CHOOSE g : UnfoldsDot(n, k, v, w, i, g)
<1>5. UnfoldsDot(n, k, v, w, i, h)
  BY <1>4
<1>6. Dot(n, k, v, w, i) = h[k]
  BY Zenon DEF Dot, UnfoldsDot
<1> QED BY <1>5, <1>6

LEMMA DotTwo ==
  ASSUME NEW n, NEW v, NEW w, NEW i \in Nat
  PROVE  LET P(j) == S(n * ByteBits, Lane(v, n, j)) * S(n * ByteBits, Lane(w, n, j))
         IN  (P(2 * i) \in Int /\ P(2 * i + 1) \in Int) => Dot(n, 2, v, w, i) = P(2 * i) + P(2 * i + 1)
<1> DEFINE P(j) == S(n * ByteBits, Lane(v, n, j)) * S(n * ByteBits, Lane(w, n, j))
<1>1. PICK h : UnfoldsDot(n, 2, v, w, i, h) /\ Dot(n, 2, v, w, i) = h[2]
  BY DotUnfolds
<1>2. \A j \in 0 .. 2 : h[j] = IF j = 0 THEN 0 ELSE h[j - 1] + P(2 * i + j - 1)
  BY <1>1 DEF UnfoldsDot
<1> HIDE DEF P
<1>3. h[0] = 0 /\ h[1] = h[0] + P(2 * i + 1 - 1) /\ h[2] = h[1] + P(2 * i + 2 - 1)
  <2>1. 0 \in 0 .. 2 /\ 1 \in 0 .. 2 /\ 2 \in 0 .. 2 /\ 2 - 1 = 1 /\ 1 - 1 = 0
    OBVIOUS
  <2> QED BY <1>2, <2>1
<1>4. 2 * i + 1 - 1 = 2 * i /\ 2 * i + 2 - 1 = 2 * i + 1
  OBVIOUS
<1>5. P(2 * i) \in Int /\ P(2 * i + 1) \in Int => h[2] = P(2 * i) + P(2 * i + 1)
  BY <1>3, <1>4
<1> QED BY <1>1, <1>5 DEF P

LEMMA DotFour ==
  ASSUME NEW n, NEW v, NEW w, NEW i \in Nat
  PROVE  LET P(j) == S(n * ByteBits, Lane(v, n, j)) * S(n * ByteBits, Lane(w, n, j))
             b == 4 * i
         IN  (P(b + 0) \in Int /\ P(b + 1) \in Int /\ P(b + 2) \in Int /\ P(b + 3) \in Int) =>
               Dot(n, 4, v, w, i) = P(b + 0) + P(b + 1) + P(b + 2) + P(b + 3)
<1> DEFINE P(j) == S(n * ByteBits, Lane(v, n, j)) * S(n * ByteBits, Lane(w, n, j))
           b == 4 * i
<1>1. PICK h : UnfoldsDot(n, 4, v, w, i, h) /\ Dot(n, 4, v, w, i) = h[4]
  BY DotUnfolds
<1>2. \A j \in 0 .. 4 : h[j] = IF j = 0 THEN 0 ELSE h[j - 1] + P(4 * i + j - 1)
  BY <1>1 DEF UnfoldsDot
<1> HIDE DEF P
<1>3. /\ h[0] = 0 /\ h[1] = h[0] + P(4 * i + 1 - 1) /\ h[2] = h[1] + P(4 * i + 2 - 1)
      /\ h[3] = h[2] + P(4 * i + 3 - 1) /\ h[4] = h[3] + P(4 * i + 4 - 1)
  <2>1. /\ 0 \in 0 .. 4 /\ 1 \in 0 .. 4 /\ 2 \in 0 .. 4 /\ 3 \in 0 .. 4 /\ 4 \in 0 .. 4
        /\ 1 - 1 = 0 /\ 2 - 1 = 1 /\ 3 - 1 = 2 /\ 4 - 1 = 3
    OBVIOUS
  <2> QED BY <1>2, <2>1
<1>4. 4 * i + 1 - 1 = b + 0 /\ 4 * i + 2 - 1 = b + 1 /\ 4 * i + 3 - 1 = b + 2 /\ 4 * i + 4 - 1 = b + 3
  OBVIOUS
<1> HIDE DEF b
<1>5. (P(b + 0) \in Int /\ P(b + 1) \in Int /\ P(b + 2) \in Int /\ P(b + 3) \in Int) =>
        h[4] = P(b + 0) + P(b + 1) + P(b + 2) + P(b + 3)
  BY <1>3, <1>4
<1> QED BY <1>1, <1>5 DEF P, b

LEMMA DotNumbers ==
  ASSUME NEW m \in LaneSizes, NEW a \in Vectors, NEW b \in Vectors, NEW j \in Lanes(m)
  PROVE  S(m * ByteBits, Lane(a, m, j)) * S(m * ByteBits, Lane(b, m, j)) \in Int
<1> DEFINE x == Lane(a, m, j)
           y == Lane(b, m, j)
<1>1. m * ByteBits = Bits(m) /\ Bits(m) \in Nat \ {0}
  BY LaneBits DEF Bits
<1>2. x \in Unsigneds(Bits(m)) /\ y \in Unsigneds(Bits(m))
  BY LaneNumber
<1> HIDE DEF x, y
<1>3. S(Bits(m), x) \in Int /\ S(Bits(m), y) \in Int
  BY <1>1, <1>2, SignedBits, 0 \in Nat
<1> DEFINE s == S(Bits(m), x)
           t == S(Bits(m), y)
<1>4. s \in Int /\ t \in Int
  BY <1>3
<1> HIDE DEF s, t
<1>5. s * t \in Int
  BY <1>4
<1> QED BY <1>1, <1>5 DEF s, t, x, y

LEMMA DotPair ==
  ASSUME NEW o, NEW a \in Vectors, NEW b \in Vectors,
         \/ o.op = "dot_i16x8_s" /\ o.shape = "i32x4"
         \/ o.op = "relaxed_dot_i8x16_i7x16_s" /\ o.shape = "i16x8",
         NEW n, n = LaneBytes[o.shape], NEW i \in Lanes(n)
  PROVE  BinaryLane(o, a, b, evalV128Binary(o, a, b), n, i)
<1> DEFINE m == n \div 2
           r == evalV128Binary(o, a, b)
           P(j) == S(m * ByteBits, Lane(a, m, j)) * S(m * ByteBits, Lane(b, m, j))
           lanes == [j \in Lanes(n) |-> U(n * ByteBits, Dot(m, 2, a, b, j))]
<1>1. m \in {1, 2} /\ m \in {1, 2, 4} /\ n = 2 * m
  BY DEF LaneBytes
<1>2. n \in LaneSizes /\ m \in LaneSizes /\ n * ByteBits = Bits(n) /\ Bits(n) \in Nat
  BY <1>1, TwiceBits
<1>3. r = Pack(n, lanes)
  BY DEF evalV128Binary, LaneBytes, dotI16x8ToI32x4, relaxedDotI8x16ToI16x8
<1>4. BinaryLane(o, a, b, r, n, i) <=> (Lane(r, n, i) - P(2 * i) - P(2 * i + 1)) % 2^(n * ByteBits) = 0
  BY DEF BinaryLane, IntShapes
<1>5. \A j \in Lanes(n) : lanes[j] = U(n * ByteBits, Dot(m, 2, a, b, j))
  OBVIOUS
<1> HIDE DEF r, lanes
<1>6. \A j \in Lanes(n) : j \in Nat /\ P(2 * j) \in Int /\ P(2 * j + 1) \in Int
  <2> TAKE j \in Lanes(n)
  <2>1. j \in Nat
    BY DEF Lanes
  <2> HIDE DEF m
  <2>2. 2 * j \in Lanes(m) /\ 2 * j + 1 \in Lanes(m)
    BY <1>1, HalfPlaces
  <2> QED BY <1>2, <2>1, <2>2, DotNumbers
<1>7. \A j \in Lanes(n) : Dot(m, 2, a, b, j) = P(2 * j) + P(2 * j + 1)
  BY <1>6, DotTwo
<1> HIDE DEF m, P
<1>8. \A j \in Lanes(n) : /\ lanes[j] \in Unsigneds(Bits(n))
                          /\ (lanes[j] - (P(2 * j) + P(2 * j + 1))) % 2^Bits(n) = 0
  <2> TAKE j \in Lanes(n)
  <2> DEFINE p == P(2 * j) + P(2 * j + 1)
  <2>1. p \in Int /\ lanes[j] = U(Bits(n), p)
    BY <1>2, <1>5, <1>6, <1>7
  <2> HIDE DEF p
  <2>2. U(Bits(n), p) \in Unsigneds(Bits(n)) /\ (U(Bits(n), p) - p) % 2^Bits(n) = 0
    BY <1>2, <2>1, CutExact
  <2> QED BY <2>1, <2>2 DEF p
<1>9. Lane(r, n, i) = lanes[i] /\ lanes[i] \in Int
  <2>1. Lane(r, n, i) = lanes[i] /\ lanes[i] \in Unsigneds(Bits(n))
    BY <1>2, <1>3, <1>8, LanesMade
  <2> QED BY <1>2, <2>1, Pow DEF Unsigneds
<1>10. Lane(r, n, i) - P(2 * i) - P(2 * i + 1) = Lane(r, n, i) - (P(2 * i) + P(2 * i + 1))
  BY <1>6, <1>9
<1>11. (Lane(r, n, i) - (P(2 * i) + P(2 * i + 1))) % 2^(n * ByteBits) = 0
  BY <1>2, <1>8, <1>9
<1> QED BY <1>4, <1>10, <1>11 DEF r

-----------------------------------------------------------------------------
(* Lanes of floats, two operands *)

LEMMA FloatNumber ==
  ASSUME NEW f \in {"f32", "f64"}, NEW op \in {"min", "max", "pmin", "pmax", "add", "sub", "mul", "div"},
         NEW x \in Unsigneds(Width(f)), NEW y \in Unsigneds(Width(f))
  PROVE  FloatBinary(f, op, x, y) \in Unsigneds(Width(f))
<1>1. CASE op \in {"pmin", "pmax"}
  BY <1>1 DEF FloatBinary
<1>2. CASE op \in {"min", "max", "add", "sub", "mul", "div"}
  <2>1. op \in FloatBinaries /\ op # "copysign"
    BY <1>2 DEF FloatBinaries
  <2>2. FloatBinaryOf(f, op, x, y) = FloatBinary(f, op, x, y)
    BY <2>1 DEF FloatBinaryOf, evalF32Binary, evalF64Binary, binaryF32, binaryF64
  <2>3. FloatBinaryIs(f, op, x, y, FloatBinaryOf(f, op, x, y))
    BY <2>1, FloatBinaryExact DEF FloatTypes
  <2> QED BY <2>2, <2>3 DEF FloatBinaryIs
<1> QED BY <1>1, <1>2

FloatPairs == {"min", "max", "pmin", "pmax", "relaxed_min", "relaxed_max", "add", "sub", "mul", "div"}

LEMMA FloatPair ==
  ASSUME NEW o, o.op \in FloatPairs, o.shape \in FloatShapes, NEW a \in Vectors, NEW b \in Vectors,
         NEW n, n = LaneBytes[o.shape], NEW i \in Lanes(n)
  PROVE  BinaryLane(o, a, b, evalV128Binary(o, a, b), n, i)
<1> DEFINE f == FloatShapeType[o.shape]
           r == evalV128Binary(o, a, b)
           plain == CASE o.op = "relaxed_min" -> "min" [] o.op = "relaxed_max" -> "max" [] OTHER -> o.op
           lanes == [j \in Lanes(n) |-> FloatBinary(f, o.op, Lane(a, n, j), Lane(b, n, j))]
<1>1. f \in {"f32", "f64"} /\ Width(f) = Bits(n) /\ n \in LaneSizes
  BY WidthBits DEF FloatShapes, FloatShapeType, LaneBytes
<1>2. r = Pack(n, lanes)
  BY DEF evalV128Binary, FloatShapes, FloatShapeType, FloatPairs, LaneBytes, binaryF32x4, binaryF64x2,
         binaryF32, binaryF64, Pairwise
<1>3. \A j \in Lanes(n) : lanes[j] = FloatBinary(f, o.op, Lane(a, n, j), Lane(b, n, j))
  OBVIOUS
<1>4. plain \in {"min", "max", "pmin", "pmax", "add", "sub", "mul", "div"}
  BY DEF FloatPairs
<1>5. \A x, y : FloatBinary(f, o.op, x, y) = FloatBinary(f, plain, x, y)
  <2>1. CASE o.op = "relaxed_min"
    BY <2>1 DEF FloatBinary
  <2>2. CASE o.op = "relaxed_max"
    BY <2>2 DEF FloatBinary
  <2>3. CASE o.op \notin {"relaxed_min", "relaxed_max"}
    <3>1. plain = o.op
      BY <2>3
    <3> HIDE DEF plain
    <3> QED BY <3>1
  <2> QED BY <2>1, <2>2, <2>3
<1>6. \A x, y : plain \notin {"pmin", "pmax"} =>
        FloatBinary(f, plain, x, y) = IF f = "f32" THEN evalF32Binary(plain, x, y) ELSE evalF64Binary(plain, x, y)
  <2> HIDE DEF f, plain
  <2> QED BY <1>1, <1>4 DEF evalF32Binary, evalF64Binary, binaryF32, binaryF64
<1>7. (o.op = "pmin") <=> (plain = "pmin")
  BY DEF FloatPairs
<1>8. (o.op = "pmax") <=> (plain = "pmax")
  BY DEF FloatPairs
<1>9. \A x, y : /\ o.op = "pmin" => FloatBinary(f, o.op, x, y) = IF FloatRelates(f, "lt", y, x) THEN y ELSE x
                /\ o.op = "pmax" => FloatBinary(f, o.op, x, y) = IF FloatRelates(f, "lt", x, y) THEN y ELSE x
  BY DEF FloatBinary
<1>10. BinaryLane(o, a, b, r, n, i) <=>
         LET x == Lane(a, n, i)
             y == Lane(b, n, i)
             z == Lane(r, n, i)
         IN  CASE o.op = "pmin" -> z = IF FloatRelates(f, "lt", y, x) THEN y ELSE x
               [] o.op = "pmax" -> z = IF FloatRelates(f, "lt", x, y) THEN y ELSE x
               [] OTHER -> z = IF f = "f32" THEN evalF32Binary(plain, x, y) ELSE evalF64Binary(plain, x, y)
  BY DEF BinaryLane, FloatPairs, FloatShapes, IntShapes
<1> HIDE DEF f, r, lanes, plain
<1>11. \A j \in Lanes(n) : lanes[j] \in Unsigneds(Bits(n))
  <2> TAKE j \in Lanes(n)
  <2>1. Lane(a, n, j) \in Unsigneds(Width(f)) /\ Lane(b, n, j) \in Unsigneds(Width(f))
    BY <1>1, LaneNumber
  <2>2. FloatBinary(f, plain, Lane(a, n, j), Lane(b, n, j)) \in Unsigneds(Width(f))
    BY <1>1, <1>4, <2>1, FloatNumber
  <2> QED BY <1>1, <1>3, <1>5, <2>2
<1>12. Lane(r, n, i) = FloatBinary(f, o.op, Lane(a, n, i), Lane(b, n, i))
  BY <1>1, <1>2, <1>3, <1>11, LanesMade
<1> DEFINE x == Lane(a, n, i)
           y == Lane(b, n, i)
           z == Lane(r, n, i)
<1>13. z = FloatBinary(f, o.op, x, y)
  BY <1>12
<1> HIDE DEF x, y, z
<1>14. (CASE o.op = "pmin" -> z = IF FloatRelates(f, "lt", y, x) THEN y ELSE x
          [] o.op = "pmax" -> z = IF FloatRelates(f, "lt", x, y) THEN y ELSE x
          [] OTHER -> z = IF f = "f32" THEN evalF32Binary(plain, x, y) ELSE evalF64Binary(plain, x, y))
  BY <1>5, <1>6, <1>7, <1>8, <1>9, <1>13
<1> QED BY <1>10, <1>14 DEF x, y, z, r

\* What each vector instruction on two operands promises.
VectorPair(o, x, r) ==
  LET n == LaneBytes[o.shape]
      a == VectorBits(x[1])
      b == VectorBits(x[2])
  IN CASE o.op = "and" -> VectorBits(r) = a \cap b
       [] o.op = "or" -> VectorBits(r) = a \cup b
       [] o.op = "xor" -> VectorBits(r) = (a \cup b) \ (a \cap b)
       [] o.op = "andnot" -> VectorBits(r) = a \ b
       [] o.op \in {"swizzle", "relaxed_swizzle"} ->
            \A k \in 1 .. VectorBytes : r[k] = (x[1] \o ZeroVector)[Least(IndexStep * x[2][k], VectorBytes) + 1]
       [] OTHER -> \A i \in Lanes(n) : BinaryLane(o, x[1], x[2], r, n, i)

LEMMA VectorBinaryLanes ==
  ASSUME NEW o, HasVectorBinary(o.op, o.shape),
         o.op \notin {"and", "or", "xor", "andnot", "swizzle", "relaxed_swizzle"},
         NEW a \in Vectors, NEW b \in Vectors, NEW n, n = LaneBytes[o.shape], NEW i \in Lanes(n)
  PROVE  BinaryLane(o, a, b, evalV128Binary(o, a, b), n, i)
<1>1. CASE o.op = "narrow"
  <2>1. o.shape \in {"i8x16", "i16x8"}
    BY <1>1 DEF HasVectorBinary
  <2> QED BY <1>1, <2>1, NarrowPair
<1>2. CASE o.op \in LaneOps /\ o.shape \in IntShapes
  BY <1>2, IntegerPair
<1>3. CASE o.op \in {"q15mulr_sat_s", "relaxed_q15mulr_s"}
  <2>1. o.shape = "i16x8"
    BY <1>3 DEF HasVectorBinary
  <2> QED BY <1>3, <2>1, FractionsPair
<1>4. CASE o.op \in {"dot_i16x8_s", "relaxed_dot_i8x16_i7x16_s"}
  <2>1. \/ o.op = "dot_i16x8_s" /\ o.shape = "i32x4"
        \/ o.op = "relaxed_dot_i8x16_i7x16_s" /\ o.shape = "i16x8"
    BY <1>4 DEF HasVectorBinary
  <2> QED BY <2>1, DotPair
<1>5. CASE o.op = "extmul"
  <2>1. o.shape \in {"i16x8", "i32x4", "i64x2"}
    BY <1>5 DEF HasVectorBinary
  <2> QED BY <1>5, <2>1, ProductsPair
<1>6. CASE o.op \in FloatPairs /\ o.shape \in FloatShapes
  BY <1>6, FloatPair
<1>7. \/ o.op = "narrow"
      \/ o.op \in LaneOps /\ o.shape \in IntShapes
      \/ o.op \in {"q15mulr_sat_s", "relaxed_q15mulr_s"}
      \/ o.op \in {"dot_i16x8_s", "relaxed_dot_i8x16_i7x16_s"}
      \/ o.op = "extmul"
      \/ o.op \in FloatPairs /\ o.shape \in FloatShapes
  BY DEF HasVectorBinary, LaneOps, Saturations, Extremes, FloatPairs, IntShapes
<1> QED BY <1>1, <1>2, <1>3, <1>4, <1>5, <1>6, <1>7

-----------------------------------------------------------------------------
(* Comparisons, lane by lane *)

LEMMA MaskLane ==
  ASSUME NEW n \in LaneSizes, NEW ok
  PROVE  boolMask(Bits(n), ok) \in Unsigneds(Bits(n))
<1>1. 2^Bits(n) \in Nat \ {0}
  BY LaneBits, Pow
<1> DEFINE p == 2^Bits(n)
<1> HIDE DEF p
<1>2. p \in Nat \ {0}
  BY <1>1 DEF p
<1>3. (IF ok THEN p - 1 ELSE 0) \in 0 .. p - 1
  BY <1>2
<1> QED BY <1>3 DEF boolMask, Unsigneds, p

\* What a comparison says of two lanes.
LaneCompares(shape, op, x, y) ==
  IF shape \in FloatShapes THEN FloatRelates(FloatShapeType[shape], op, x, y)
  ELSE IntCompare(LaneBytes[shape] * ByteBits, op, x, y)

LEMMA VectorCompareExact ==
  ASSUME NEW o, o.shape \in IntShapes \cup FloatShapes, NEW a \in Vectors, NEW b \in Vectors,
         NEW n, n = LaneBytes[o.shape], NEW i \in Lanes(n)
  PROVE  CompareLane(o, a, b, evalV128Compare(o.shape, o.op, a, b), n, i)
<1> DEFINE r == evalV128Compare(o.shape, o.op, a, b)
           w == Bits(n)
           Holds(j) == LaneCompares(o.shape, o.op, Lane(a, n, j), Lane(b, n, j))
           lanes == [j \in Lanes(n) |-> boolMask(w, Holds(j))]
<1>1. n \in LaneSizes /\ n * ByteBits = w /\ Width("f32") = Bits(4) /\ Width("f64") = Bits(8)
  BY ShapeFacts, WidthBits DEF Bits, LaneShapes
<1>2. r = Pack(n, lanes)
  <2>1. CASE o.shape \in IntShapes
    <3>1. r = CompareLanes(n, o.op, a, b)
      BY <2>1 DEF evalV128Compare, IntShapes, LaneBytes, compareI8x16, compareI16x8, compareI32x4, compareI64x2
    <3>2. \A x, y : LaneCompares(o.shape, o.op, x, y) = IntCompare(w, o.op, x, y)
      BY <1>1, <2>1 DEF LaneCompares, IntShapes, FloatShapes
    <3> HIDE DEF r, w
    <3>3. CompareLanes(n, o.op, a, b) = Pack(n, [j \in Lanes(n) |-> boolMask(w, IntCompare(w, o.op, Lane(a, n, j), Lane(b, n, j)))])
      BY <1>1 DEF CompareLanes, Pairwise
    <3> QED BY <3>1, <3>2, <3>3
  <2>2. CASE o.shape = "f32x4"
    BY <1>1, <2>2 DEF evalV128Compare, LaneBytes, FloatShapes, FloatShapeType, LaneCompares, compareF32x4, Pairwise
  <2>3. CASE o.shape = "f64x2"
    BY <1>1, <2>3 DEF evalV128Compare, LaneBytes, FloatShapes, FloatShapeType, LaneCompares, compareF64x2, Pairwise
  <2> QED BY <2>1, <2>2, <2>3 DEF FloatShapes
<1>3. \A j \in Lanes(n) : lanes[j] = boolMask(w, Holds(j))
  OBVIOUS
<1>4. CompareLane(o, a, b, r, n, i) <=> Lane(r, n, i) = IF Bool(Holds(i)) = 1 THEN 2^w - 1 ELSE 0
  <2> DEFINE x == Lane(a, n, i)
             y == Lane(b, n, i)
             holds == CASE o.shape = "f32x4" -> evalF32Compare(o.op, x, y)
                        [] o.shape = "f64x2" -> evalF64Compare(o.op, x, y)
                        [] OTHER -> Bool(IntCompare(n * ByteBits, o.op, x, y))
  <2>1. CompareLane(o, a, b, r, n, i) <=> Lane(r, n, i) = IF holds = 1 THEN 2^w - 1 ELSE 0
    BY <1>1 DEF CompareLane
  <2> HIDE DEF x, y
  <2>2. holds = Bool(LaneCompares(o.shape, o.op, x, y))
    <3>1. CASE o.shape = "f32x4"
      BY <3>1 DEF LaneCompares, FloatShapes, FloatShapeType, evalF32Compare
    <3>2. CASE o.shape = "f64x2"
      BY <3>2 DEF LaneCompares, FloatShapes, FloatShapeType, evalF64Compare
    <3>3. CASE o.shape \notin FloatShapes
      BY <3>3 DEF LaneCompares, FloatShapes
    <3> QED BY <3>1, <3>2, <3>3 DEF FloatShapes
  <2> HIDE DEF holds
  <2> QED BY <2>1, <2>2 DEF x, y
<1> HIDE DEF r, lanes, Holds
<1>5. \A j \in Lanes(n) : lanes[j] \in Unsigneds(Bits(n))
  BY <1>1, <1>3, MaskLane
<1>6. Lane(r, n, i) = boolMask(w, Holds(i))
  BY <1>1, <1>2, <1>3, <1>5, LanesMade
<1> HIDE DEF w
<1> QED BY <1>4, <1>6 DEF boolMask, Bool, r

-----------------------------------------------------------------------------
(* Three operands *)

\* Adding floats is commutative.
LEMMA AddCommutes ==
  ASSUME NEW f \in FloatTypes, NEW x \in Unsigneds(Width(f)), NEW y \in Unsigneds(Width(f))
  PROVE  Add(f, x, y) = Add(f, y, x)
<1>1. Real(f, x) \in Int /\ Real(f, y) \in Int
  BY NegateKeeps
<1> DEFINE v == Real(f, x) + Real(f, y)
           u == Real(f, y) + Real(f, x)
<1>2. v = u
  BY <1>1
<1> DEFINE n == IsNeg(f, x) /\ IsNeg(f, y)
           m == IsNeg(f, y) /\ IsNeg(f, x)
<1>3. Signed(f, n, 0) = Signed(f, m, 0)
  BY DEF Signed
<1>4. Add(f, x, y) =
        IF IsInf(f, x) \/ IsInf(f, y)
        THEN IF IsInf(f, x) /\ IsInf(f, y) /\ x # y THEN CanonicalNaN(f) ELSE IF IsInf(f, x) THEN x ELSE y
        ELSE IF v = 0 THEN Signed(f, n, 0) ELSE Nearest(f, v < 0, Abs(v), 0)
  BY DEF Add
<1>5. Add(f, y, x) =
        IF IsInf(f, y) \/ IsInf(f, x)
        THEN IF IsInf(f, y) /\ IsInf(f, x) /\ y # x THEN CanonicalNaN(f) ELSE IF IsInf(f, y) THEN y ELSE x
        ELSE IF u = 0 THEN Signed(f, m, 0) ELSE Nearest(f, u < 0, Abs(u), 0)
  BY DEF Add
<1> HIDE DEF v, u, n, m
<1> QED BY <1>2, <1>3, <1>4, <1>5

\* A product or a sum whose NaN is that of an operand.
Mixed(f, op, x, y) ==
  IF IsNaN(f, x) \/ IsNaN(f, y) THEN (IF IsNaN(f, x) THEN Quiet(f, x) ELSE Quiet(f, y))
  ELSE IF op = "mul" THEN Mul(f, x, y) ELSE Add(f, x, y)

\* It is that of the scalar instruction, but for which NaN it is.
LEMMA MixedSame ==
  ASSUME NEW f \in {"f32", "f64"}, NEW op \in {"mul", "add"}, NEW x \in Unsigneds(Width(f)), NEW y \in Unsigneds(Width(f))
  PROVE  /\ Mixed(f, op, x, y) \in Unsigneds(Width(f))
         /\ SameNumber(f, FloatBinary(f, op, x, y), Mixed(f, op, x, y))
<1> DEFINE r == Mixed(f, op, x, y)
           s == FloatBinary(f, op, x, y)
<1>1. f \in FloatTypes
  BY DEF FloatTypes
<1>2. CASE IsNaN(f, x) \/ IsNaN(f, y)
  <2>1. s = CanonicalNaN(f) /\ r = IF IsNaN(f, x) THEN Quiet(f, x) ELSE Quiet(f, y)
    BY <1>2 DEF FloatBinary, Mixed
  <2> HIDE DEF r, s
  <2>2. r \in Unsigneds(Width(f)) /\ IsNaN(f, r)
    BY <1>1, <1>2, <2>1, QuietPattern
  <2>3. IsNaN(f, s)
    BY <1>1, <2>1, CanonicalExact
  <2> QED BY <2>2, <2>3 DEF SameNumber, r, s
<1>3. CASE ~(IsNaN(f, x) \/ IsNaN(f, y))
  <2>1. r = s
    BY <1>3 DEF FloatBinary, Mixed
  <2>2. s \in Unsigneds(Width(f))
    BY FloatNumber
  <2> HIDE DEF r, s
  <2> QED BY <2>1, <2>2 DEF SameNumber, r, s
<1> QED BY <1>2, <1>3

\* Operands that are the same but for which NaN they are, added.
LEMMA MixedSums ==
  ASSUME NEW f \in {"f32", "f64"}, NEW p \in Unsigneds(Width(f)), NEW q \in Unsigneds(Width(f)), SameNumber(f, p, q),
         NEW z \in Unsigneds(Width(f))
  PROVE  /\ SameNumber(f, FloatBinary(f, "add", p, z), Mixed(f, "add", q, z))
         /\ SameNumber(f, FloatBinary(f, "sub", z, p), Mixed(f, "add", Negate(f, q), z))
         /\ Mixed(f, "add", q, z) \in Unsigneds(Width(f)) /\ Mixed(f, "add", Negate(f, q), z) \in Unsigneds(Width(f))
<1>1. f \in FloatTypes
  BY DEF FloatTypes
<1> DEFINE n == Negate(f, q)
<1>2. n \in Unsigneds(Width(f)) /\ IsNaN(f, n) = IsNaN(f, q)
  BY <1>1, NegateKeeps
<1>3. n = Negate(f, q)
  OBVIOUS
<1> HIDE DEF n
<1>4. /\ Mixed(f, "add", q, z) \in Unsigneds(Width(f)) /\ SameNumber(f, FloatBinary(f, "add", q, z), Mixed(f, "add", q, z))
      /\ Mixed(f, "add", n, z) \in Unsigneds(Width(f)) /\ SameNumber(f, FloatBinary(f, "add", n, z), Mixed(f, "add", n, z))
  BY <1>2, MixedSame
<1>5. IsNaN(f, p) = IsNaN(f, q)
  BY <1>1, Kinds DEF SameNumber
<1>6. FloatBinary(f, "add", p, z) = FloatBinary(f, "add", q, z)
  <2>1. CASE p = q
    BY <2>1
  <2>2. CASE IsNaN(f, p) /\ IsNaN(f, q)
    BY <2>2 DEF FloatBinary
  <2> QED BY <2>1, <2>2 DEF SameNumber
<1>7. FloatBinary(f, "sub", z, p) = FloatBinary(f, "add", n, z)
  <2>1. CASE IsNaN(f, p) \/ IsNaN(f, z)
    <3>1. IsNaN(f, n) \/ IsNaN(f, z)
      BY <1>1, <1>2, <1>5, <2>1, Kinds
    <3> QED BY <2>1, <3>1 DEF FloatBinary
  <2>2. CASE ~(IsNaN(f, p) \/ IsNaN(f, z))
    <3>1. p = q
      BY <2>2 DEF SameNumber
    <3>2. ~(IsNaN(f, n) \/ IsNaN(f, z))
      BY <1>1, <1>2, <2>2, <3>1, Kinds
    <3>3. FloatBinary(f, "sub", z, p) = Add(f, z, n)
      BY <1>3, <2>2, <3>1 DEF FloatBinary
    <3>4. FloatBinary(f, "add", n, z) = Add(f, n, z)
      BY <3>2 DEF FloatBinary
    <3> QED BY <1>1, <1>2, <3>3, <3>4, AddCommutes
  <2> QED BY <2>1, <2>2
<1> QED BY <1>3, <1>4, <1>6, <1>7 DEF n

MaddOf(f, op, x, y, z) ==
  Mixed(f, "add", IF op = "relaxed_nmadd" THEN Negate(f, Mixed(f, "mul", x, y)) ELSE Mixed(f, "mul", x, y), z)

LEMMA MaddNumber ==
  ASSUME NEW f \in {"f32", "f64"}, NEW op \in {"relaxed_madd", "relaxed_nmadd"},
         NEW x \in Unsigneds(Width(f)), NEW y \in Unsigneds(Width(f)), NEW z \in Unsigneds(Width(f))
  PROVE  /\ MaddOf(f, op, x, y, z) \in Unsigneds(Width(f))
         /\ op = "relaxed_madd" =>
              SameNumber(f, FloatBinary(f, "add", FloatBinary(f, "mul", x, y), z), MaddOf(f, op, x, y, z))
         /\ op = "relaxed_nmadd" =>
              SameNumber(f, FloatBinary(f, "sub", z, FloatBinary(f, "mul", x, y)), MaddOf(f, op, x, y, z))
<1> DEFINE p == FloatBinary(f, "mul", x, y)
           q == Mixed(f, "mul", x, y)
<1>1. p \in Unsigneds(Width(f))
  BY FloatNumber
<1>2. q \in Unsigneds(Width(f)) /\ SameNumber(f, p, q)
  BY MixedSame
<1>3. /\ op = "relaxed_madd" => MaddOf(f, op, x, y, z) = Mixed(f, "add", q, z)
      /\ op = "relaxed_nmadd" => MaddOf(f, op, x, y, z) = Mixed(f, "add", Negate(f, q), z)
  BY DEF MaddOf
<1> HIDE DEF p, q
<1>4. /\ SameNumber(f, FloatBinary(f, "add", p, z), Mixed(f, "add", q, z))
      /\ SameNumber(f, FloatBinary(f, "sub", z, p), Mixed(f, "add", Negate(f, q), z))
      /\ Mixed(f, "add", q, z) \in Unsigneds(Width(f)) /\ Mixed(f, "add", Negate(f, q), z) \in Unsigneds(Width(f))
  BY <1>1, <1>2, MixedSums
<1> QED BY <1>3, <1>4 DEF p

LEMMA MaddLane ==
  ASSUME NEW o, o.op \in {"relaxed_madd", "relaxed_nmadd"}, o.shape \in FloatShapes,
         NEW a \in Vectors, NEW b \in Vectors, NEW c \in Vectors, NEW n, n = LaneBytes[o.shape], NEW i \in Lanes(n)
  PROVE  TernaryLane(o, a, b, c, evalV128Ternary(o.shape, o.op, a, b, c), n, i)
<1> DEFINE f == FloatShapeType[o.shape]
           r == evalV128Ternary(o.shape, o.op, a, b, c)
           lanes == [j \in Lanes(n) |-> MaddOf(f, o.op, Lane(a, n, j), Lane(b, n, j), Lane(c, n, j))]
<1>1. f \in {"f32", "f64"} /\ Width(f) = Bits(n) /\ n \in LaneSizes /\ Bytes[f] = n
  BY WidthBits DEF FloatShapes, FloatShapeType, LaneBytes, Bytes
<1>2. r = Pack(n, lanes)
  <2>1. r = RelaxedMadd(f, o.op, a, b, c)
    BY DEF FloatShapes, FloatShapeType, evalV128Ternary, relaxedMaddF32x4, relaxedMaddF64x2
  <2> HIDE DEF f
  <2>2. RelaxedMadd(f, o.op, a, b, c) = Pack(n, lanes)
    <3> DEFINE Nan(x, y) == IF IsNaN(f, x) THEN Quiet(f, x) ELSE Quiet(f, y)
               Product(x, y) == IF IsNaN(f, x) \/ IsNaN(f, y) THEN Nan(x, y) ELSE Mul(f, x, y)
               Sum(x, y) == IF IsNaN(f, x) \/ IsNaN(f, y) THEN Nan(x, y) ELSE Add(f, x, y)
               Do(x, y, z) == Sum(IF o.op = "relaxed_nmadd" THEN Negate(f, Product(x, y)) ELSE Product(x, y), z)
    <3>1. RelaxedMadd(f, o.op, a, b, c) = Pack(n, [j \in Lanes(n) |-> Do(Lane(a, n, j), Lane(b, n, j), Lane(c, n, j))])
      BY ONLY <1>1, ZenonT(60) DEF RelaxedMadd
    <3>2. \A x, y : Product(x, y) = Mixed(f, "mul", x, y)
      BY DEF Mixed
    <3>3. \A x, y : Sum(x, y) = Mixed(f, "add", x, y)
      BY DEF Mixed
    <3> HIDE DEF Sum, Product
    <3>4. \A x, y, z : Do(x, y, z) = MaddOf(f, o.op, x, y, z)
      BY <3>2, <3>3 DEF MaddOf
    <3> HIDE DEF Do
    <3> QED BY <3>1, <3>4
  <2> QED BY <2>1, <2>2
<1>3. \A j \in Lanes(n) : lanes[j] = MaddOf(f, o.op, Lane(a, n, j), Lane(b, n, j), Lane(c, n, j))
  OBVIOUS
<1> HIDE DEF f, r, lanes
<1>4. \A x, y : /\ FloatBinary(f, "mul", x, y) = IF f = "f32" THEN evalF32Binary("mul", x, y) ELSE evalF64Binary("mul", x, y)
                /\ FloatBinary(f, "add", x, y) = IF f = "f32" THEN evalF32Binary("add", x, y) ELSE evalF64Binary("add", x, y)
                /\ FloatBinary(f, "sub", x, y) = IF f = "f32" THEN evalF32Binary("sub", x, y) ELSE evalF64Binary("sub", x, y)
  BY <1>1 DEF evalF32Binary, evalF64Binary, binaryF32, binaryF64
<1>5. \A j \in Lanes(n) :
        /\ lanes[j] \in Unsigneds(Bits(n))
        /\ o.op = "relaxed_madd" =>
             SameNumber(f, FloatBinary(f, "add", FloatBinary(f, "mul", Lane(a, n, j), Lane(b, n, j)), Lane(c, n, j)), lanes[j])
        /\ o.op = "relaxed_nmadd" =>
             SameNumber(f, FloatBinary(f, "sub", Lane(c, n, j), FloatBinary(f, "mul", Lane(a, n, j), Lane(b, n, j))), lanes[j])
  <2> TAKE j \in Lanes(n)
  <2> DEFINE x == Lane(a, n, j)
             y == Lane(b, n, j)
             z == Lane(c, n, j)
  <2>1. x \in Unsigneds(Width(f)) /\ y \in Unsigneds(Width(f)) /\ z \in Unsigneds(Width(f))
    BY <1>1, LaneNumber
  <2>2. lanes[j] = MaddOf(f, o.op, x, y, z)
    BY <1>3
  <2> HIDE DEF x, y, z
  <2> QED BY <1>1, <2>1, <2>2, MaddNumber DEF x, y, z
<1>6. Lane(r, n, i) = lanes[i]
  BY <1>1, <1>2, <1>5, LanesMade
<1> DEFINE x == Lane(a, n, i)
           y == Lane(b, n, i)
           z == Lane(c, n, i)
           e == Lane(r, n, i)
           Scalar(op, p, q) == IF f = "f32" THEN evalF32Binary(op, p, q) ELSE evalF64Binary(op, p, q)
<1>7. /\ o.op = "relaxed_madd" => SameNumber(f, FloatBinary(f, "add", FloatBinary(f, "mul", x, y), z), e)
      /\ o.op = "relaxed_nmadd" => SameNumber(f, FloatBinary(f, "sub", z, FloatBinary(f, "mul", x, y)), e)
  BY <1>5, <1>6
<1>8. /\ FloatBinary(f, "add", FloatBinary(f, "mul", x, y), z) = Scalar("add", Scalar("mul", x, y), z)
      /\ FloatBinary(f, "sub", z, FloatBinary(f, "mul", x, y)) = Scalar("sub", z, Scalar("mul", x, y))
  <2> HIDE DEF x, y, z
  <2>1. FloatBinary(f, "mul", x, y) = Scalar("mul", x, y)
    BY <1>4
  <2> DEFINE p == Scalar("mul", x, y)
  <2>2. FloatBinary(f, "mul", x, y) = p
    BY <2>1
  <2> HIDE DEF p
  <2>3. FloatBinary(f, "add", p, z) = Scalar("add", p, z) /\ FloatBinary(f, "sub", z, p) = Scalar("sub", z, p)
    BY <1>4
  <2> QED BY <2>2, <2>3 DEF p
<1>9. TernaryLane(o, a, b, c, r, n, i) <=>
        IF o.op = "relaxed_dot_i8x16_i7x16_add_s" THEN TernaryLane(o, a, b, c, r, n, i)
        ELSE IF o.op = "relaxed_madd" THEN SameNumber(f, Scalar("add", Scalar("mul", x, y), z), e)
        ELSE SameNumber(f, Scalar("sub", z, Scalar("mul", x, y)), e)
  BY DEF TernaryLane, f
<1> HIDE DEF x, y, z, e, Scalar
<1>10. TernaryLane(o, a, b, c, r, n, i)
  BY <1>7, <1>8, <1>9
<1> QED BY <1>10 DEF r

LEMMA DotAddLane ==
  ASSUME NEW o, o.op = "relaxed_dot_i8x16_i7x16_add_s", o.shape = "i32x4",
         NEW a \in Vectors, NEW b \in Vectors, NEW c \in Vectors, NEW n, n = LaneBytes[o.shape], NEW i \in Lanes(n)
  PROVE  TernaryLane(o, a, b, c, evalV128Ternary(o.shape, o.op, a, b, c), n, i)
<1> DEFINE r == evalV128Ternary(o.shape, o.op, a, b, c)
           P(j) == S(1 * ByteBits, Lane(a, 1, j)) * S(1 * ByteBits, Lane(b, 1, j))
           lanes == [j \in Lanes(4) |-> U(4 * ByteBits, Dot(1, 4, a, b, j) + Lane(c, 4, j))]
           Dots(j) == P(4 * j + 0) + P(4 * j + 1) + P(4 * j + 2) + P(4 * j + 3)
<1>1. n = 4 /\ 4 \in LaneSizes /\ 1 \in LaneSizes /\ 4 * ByteBits = Bits(4) /\ Bits(4) \in Nat /\ 1 * ByteBits = ByteBits
  BY TwiceBits, LaneBits, ByteFacts DEF LaneBytes, Bits, LaneSizes
<1>2. r = Pack(4, lanes)
  BY DEF evalV128Ternary, relaxedDotAddI8x16ToI32x4
<1>3. TernaryLane(o, a, b, c, r, 4, i) <=> (Lane(r, 4, i) - Lane(c, 4, i) - Dots(i)) % 2^(4 * ByteBits) = 0
  BY <1>1 DEF TernaryLane, Sum4
<1>4. \A j \in Lanes(4) : lanes[j] = U(4 * ByteBits, Dot(1, 4, a, b, j) + Lane(c, 4, j))
  OBVIOUS
<1> HIDE DEF r, lanes
<1>5. \A j \in Lanes(4) : /\ j \in Nat /\ P(4 * j + 0) \in Int /\ P(4 * j + 1) \in Int /\ P(4 * j + 2) \in Int /\ P(4 * j + 3) \in Int
                          /\ Dots(j) \in Int
  <2> TAKE j \in Lanes(4)
  <2>1. j \in 0 .. 3 /\ 4 * j + 0 \in Lanes(1) /\ 4 * j + 1 \in Lanes(1) /\ 4 * j + 2 \in Lanes(1) /\ 4 * j + 3 \in Lanes(1)
    BY DEF Lanes, VectorBytes
  <2>2. P(4 * j + 0) \in Int /\ P(4 * j + 1) \in Int /\ P(4 * j + 2) \in Int /\ P(4 * j + 3) \in Int
    BY <1>1, <2>1, DotNumbers
  <2> HIDE DEF P
  <2> QED BY <2>1, <2>2
<1>6. \A j \in Lanes(4) : Dot(1, 4, a, b, j) = Dots(j)
  BY <1>5, DotFour
<1> HIDE DEF P, Dots
<1>7. \A j \in Lanes(4) : Lane(c, 4, j) \in Int
  <2> TAKE j \in Lanes(4)
  <2>1. Lane(c, 4, j) \in Unsigneds(Bits(4))
    BY <1>1, LaneNumber
  <2> QED BY <1>1, <2>1, Pow DEF Unsigneds
<1>8. \A j \in Lanes(4) : lanes[j] \in Unsigneds(Bits(4)) /\ (lanes[j] - (Dots(j) + Lane(c, 4, j))) % 2^Bits(4) = 0
  <2> TAKE j \in Lanes(4)
  <2> DEFINE p == Dots(j) + Lane(c, 4, j)
  <2>1. p \in Int /\ lanes[j] = U(Bits(4), p)
    BY <1>1, <1>4, <1>5, <1>6, <1>7
  <2> HIDE DEF p
  <2>2. U(Bits(4), p) \in Unsigneds(Bits(4)) /\ (U(Bits(4), p) - p) % 2^Bits(4) = 0
    BY <1>1, <2>1, CutExact
  <2> QED BY <2>1, <2>2 DEF p
<1>9. i \in Lanes(4)
  BY <1>1
<1>10. Lane(r, 4, i) = lanes[i] /\ lanes[i] \in Int
  <2>1. Lane(r, 4, i) = lanes[i] /\ lanes[i] \in Unsigneds(Bits(4))
    BY <1>1, <1>2, <1>8, <1>9, LanesMade
  <2> QED BY <1>1, <2>1, Pow DEF Unsigneds
<1>11. Lane(r, 4, i) - Lane(c, 4, i) - Dots(i) = lanes[i] - (Dots(i) + Lane(c, 4, i))
  BY <1>5, <1>7, <1>9, <1>10
<1> QED BY <1>1, <1>3, <1>8, <1>9, <1>11 DEF r

\* What each vector instruction on three operands promises.
VectorThree(o, x, r) ==
  IF o.op \in {"bitselect", "relaxed_laneselect"}
  THEN VectorBits(r) = (VectorBits(x[1]) \cap VectorBits(x[3])) \cup (VectorBits(x[2]) \ VectorBits(x[3]))
  ELSE \A i \in Lanes(LaneBytes[o.shape]) : TernaryLane(o, x[1], x[2], x[3], r, LaneBytes[o.shape], i)

LEMMA VectorTernaryExact ==
  ASSUME NEW o, HasVectorTernary(o.op, o.shape), NEW x, x[1] \in Vectors, x[2] \in Vectors, x[3] \in Vectors
  PROVE  VectorThree(o, x, evalV128Ternary(o.shape, o.op, x[1], x[2], x[3]))
<1> DEFINE n == LaneBytes[o.shape]
           a == x[1]
           b == x[2]
           c == x[3]
           r == evalV128Ternary(o.shape, o.op, a, b, c)
<1>1. CASE o.op \in {"bitselect", "relaxed_laneselect"}
  <2>1. r = bitselectV128(a, b, c)
    BY <1>1 DEF evalV128Ternary
  <2>2. VectorBits(bitselectV128(a, b, c)) = (VectorBits(a) \cap VectorBits(c)) \cup (VectorBits(b) \ VectorBits(c))
    BY SelectExact
  <2> QED BY <1>1, <2>1, <2>2 DEF VectorThree
<1>2. CASE o.op \in {"relaxed_madd", "relaxed_nmadd"}
  <2>1. o.shape \in FloatShapes
    BY <1>2 DEF HasVectorTernary
  <2>2. \A i \in Lanes(n) : TernaryLane(o, a, b, c, r, n, i)
    <3> SUFFICES ASSUME NEW i \in Lanes(n) PROVE TernaryLane(o, a, b, c, r, n, i)
      OBVIOUS
    <3>1. a \in Vectors /\ b \in Vectors /\ c \in Vectors /\ n = LaneBytes[o.shape] /\ i \in Lanes(n)
      OBVIOUS
    <3> HIDE DEF a, b, c, n
    <3> QED BY ONLY <1>2, <2>1, <3>1, MaddLane, SMTT(60)
  <2> QED BY <1>2, <2>2 DEF VectorThree
<1>3. CASE o.op = "relaxed_dot_i8x16_i7x16_add_s"
  <2>1. o.shape = "i32x4"
    BY <1>3 DEF HasVectorTernary
  <2>2. \A i \in Lanes(n) : TernaryLane(o, a, b, c, r, n, i)
    BY <1>3, <2>1, DotAddLane
  <2> QED BY <1>3, <2>2 DEF VectorThree
<1> QED BY <1>1, <1>2, <1>3 DEF HasVectorTernary

LEMMA VectorBinaryExact ==
  ASSUME NEW o, HasVectorBinary(o.op, o.shape), NEW x, x[1] \in Vectors, x[2] \in Vectors
  PROVE  VectorPair(o, x, evalV128Binary(o, x[1], x[2]))
<1> DEFINE n == LaneBytes[o.shape]
           a == x[1]
           b == x[2]
           r == evalV128Binary(o, a, b)
<1>1. CASE o.op \in {"and", "or", "xor", "andnot"}
  <2>1. r = bitwiseV128(o.op, a, b)
    <3>1. o.shape = "i8x16"
      BY <1>1 DEF HasVectorBinary
    <3> QED BY <1>1, <3>1 DEF evalV128Binary
  <2>2. BitsAre(o.op, a, b, r)
    BY <1>1, <2>1, BitwiseVector
  <2> HIDE DEF r
  <2> QED BY <1>1, <2>2 DEF VectorPair, BitsAre, r
<1>2. CASE o.op \in {"swizzle", "relaxed_swizzle"}
  <2>1. r = swizzleI8x16(a, b)
    <3>1. o.shape = "i8x16"
      BY <1>2 DEF HasVectorBinary
    <3> QED BY <1>2, <3>1 DEF evalV128Binary
  <2>2. \A k \in 1 .. VectorBytes : r[k] = (a \o ZeroVector)[Least(IndexStep * b[k], VectorBytes) + 1]
    <3>1. a \in Vectors /\ b \in Vectors
      OBVIOUS
    <3> HIDE DEF a, b, r
    <3>2. \A k \in 1 .. VectorBytes : swizzleI8x16(a, b)[k] = (a \o ZeroVector)[Least(IndexStep * b[k], VectorBytes) + 1]
      BY ONLY <3>1, SwizzleExact
    <3> QED BY <2>1, <3>2
  <2> HIDE DEF r
  <2> QED BY <1>2, <2>2 DEF VectorPair, r
<1>3. CASE o.op \notin {"and", "or", "xor", "andnot", "swizzle", "relaxed_swizzle"}
  <2>1. \A i \in Lanes(n) : BinaryLane(o, a, b, r, n, i)
    BY <1>3, VectorBinaryLanes
  <2> HIDE DEF r
  <2> QED BY <1>3, <2>1 DEF VectorPair, r
<1> QED BY <1>1, <1>2, <1>3

-----------------------------------------------------------------------------
(* Every vector instruction *)

VectorClasses == {"splat", "extract", "replace", "shuffle", "vtest", "vunary", "vbinary", "vshift", "vcompare", "vternary"}
Taken(o, x) ==
  CASE o.class = "splat" -> x[1] \in Int
    [] o.class = "replace" -> x[1] \in Vectors /\ x[2] \in Int
    [] o.class = "vshift" -> x[1] \in Vectors /\ x[2] \in Nat
    [] o.class \in {"extract", "vtest", "vunary"} -> x[1] \in Vectors
    [] o.class \in {"shuffle", "vbinary", "vcompare"} -> x[1] \in Vectors /\ x[2] \in Vectors
    [] o.class = "vternary" -> x[1] \in Vectors /\ x[2] \in Vectors /\ x[3] \in Vectors
VectorValue(o, x) ==
  CASE o.class = "splat" -> evalV128Splat(o.shape, x[1])
    [] o.class = "extract" -> evalV128ExtractLane(o.shape, o.how, o.lane, x[1])
    [] o.class = "replace" -> evalV128ReplaceLane(o.shape, o.lane, x[1], x[2])
    [] o.class = "shuffle" -> evalI8x16Shuffle(o.bytes, x[1], x[2])
    [] o.class = "vtest" -> evalV128Test(o.shape, o.op, x[1])
    [] o.class = "vunary" -> evalV128Unary(o, x[1])
    [] o.class = "vbinary" -> evalV128Binary(o, x[1], x[2])
    [] o.class = "vshift" -> evalV128Shift(o.shape, o.op, x[1], x[2])
    [] o.class = "vcompare" -> evalV128Compare(o.shape, o.op, x[1], x[2])
    [] o.class = "vternary" -> evalV128Ternary(o.shape, o.op, x[1], x[2], x[3])

LEMMA LanesMoved ==
  ASSUME NEW o, o.class \in {"splat", "extract", "replace", "shuffle"}, HasVectorOperation(o), NEW x, Taken(o, x)
  PROVE  LanesAre(o, x, VectorValue(o, x))
<1> DEFINE n == LaneBytes[o.shape]
           r == VectorValue(o, x)
<1>1. CASE o.class = "splat"
  <2>1. o.shape \in LaneShapes /\ x[1] \in Int /\ r = evalV128Splat(o.shape, x[1])
    BY <1>1 DEF HasVectorOperation, Taken, VectorValue, LaneShapes
  <2>2. \A i \in Lanes(n) : Lane(r, n, i) = U(n * ByteBits, x[1])
    BY <2>1, SplatExact
  <2> HIDE DEF r
  <2> QED BY <1>1, <2>2 DEF LanesAre, r
<1>2. CASE o.class = "extract"
  <2>1. /\ o.shape \in LaneShapes /\ o.lane \in Lanes(n) /\ x[1] \in Vectors
        /\ r = evalV128ExtractLane(o.shape, o.how, o.lane, x[1])
    BY <1>2 DEF HasVectorOperation, Taken, VectorValue, LaneShapes
  <2>2. Read(Bytes[LaneType[o.shape]], o.how, r) = Read(n, o.how, Lane(x[1], n, o.lane))
    BY <2>1, ExtractExact
  <2> HIDE DEF r
  <2> QED BY <1>2, <2>2 DEF LanesAre, r
<1>3. CASE o.class = "replace"
  <2>1. /\ o.shape \in LaneShapes /\ o.lane \in Lanes(n) /\ x[2] \in Int
        /\ r = evalV128ReplaceLane(o.shape, o.lane, x[1], x[2])
    BY <1>3 DEF HasVectorOperation, Taken, VectorValue, LaneShapes
  <2>2. Replaces(o.shape, o.lane, x[1], x[2], r)
    <3> DEFINE s == o.shape
               l == o.lane
               v == x[1]
               e == x[2]
    <3>1. s \in LaneShapes /\ l \in Lanes(LaneBytes[s]) /\ e \in Int /\ r = evalV128ReplaceLane(s, l, v, e)
      BY <2>1
    <3> HIDE DEF s, l, v, e, r
    <3>2. Replaces(s, l, v, e, evalV128ReplaceLane(s, l, v, e))
      BY ONLY <3>1, ReplaceExact
    <3> QED BY <3>1, <3>2 DEF s, l, v, e
  <2> HIDE DEF r
  <2> QED BY <1>3, <2>2 DEF LanesAre, Replaces, r
<1>4. CASE o.class = "shuffle"
  <2>1. /\ o.bytes \in [1 .. VectorBytes -> 0 .. 2 * VectorBytes - 1] /\ x[1] \in Vectors /\ x[2] \in Vectors
        /\ r = evalI8x16Shuffle(o.bytes, x[1], x[2])
    BY <1>4 DEF HasVectorOperation, Taken, VectorValue
  <2>2. \A k \in 1 .. VectorBytes : r[k] = (x[1] \o x[2])[o.bytes[k] + 1]
    <3> DEFINE l == o.bytes
               a == x[1]
               b == x[2]
    <3>1. l \in [1 .. VectorBytes -> 0 .. 2 * VectorBytes - 1] /\ a \in Vectors /\ b \in Vectors
      BY <2>1
    <3>2. r = evalI8x16Shuffle(l, a, b)
      BY <2>1
    <3> HIDE DEF l, a, b, r
    <3>3. \A k \in 1 .. VectorBytes : evalI8x16Shuffle(l, a, b)[k] = (a \o b)[l[k] + 1]
      BY ONLY <3>1, ShuffleExact
    <3> QED BY <3>2, <3>3 DEF l, a, b
  <2> HIDE DEF r
  <2> QED BY <1>4, <2>2 DEF LanesAre, r
<1> QED BY <1>1, <1>2, <1>3, <1>4

LEMMA LanesTested ==
  ASSUME NEW o, o.class = "vtest", HasVectorOperation(o), NEW x, Taken(o, x)
  PROVE  LanesAre(o, x, VectorValue(o, x))
<1> DEFINE n == LaneBytes[o.shape]
           r == VectorValue(o, x)
<1>1. o.shape \in LaneShapes /\ o.op \in {"any_true", "all_true", "bitmask"} /\ x[1] \in Vectors /\ r = evalV128Test(o.shape, o.op, x[1])
  BY DEF HasVectorOperation, Taken, VectorValue, LaneShapes
<1>2. n \in LaneSizes
  BY <1>1, ShapeFacts
<1>3. /\ o.op = "any_true" => r = Bool(v128AnyTrue(x[1]))
      /\ o.op = "all_true" => r = Bool(v128AllTrue(x[1], n))
      /\ o.op = "bitmask" => r = v128Bitmask(x[1], n)
  BY <1>1 DEF evalV128Test
<1> HIDE DEF r, n
<1>4. o.op = "any_true" => (r = 1) = (x[1] # ZeroVector)
  BY <1>1, <1>3, AnyExact
<1>5. o.op = "all_true" => (r = 0) = \E i \in Lanes(n) : Lane(x[1], n, i) = 0
  <2> DEFINE v == x[1]
  <2>1. o.op = "all_true" => r = Bool(v128AllTrue(v, n))
    BY <1>3
  <2> HIDE DEF v
  <2>2. (Bool(v128AllTrue(v, n)) = 0) = \E i \in Lanes(n) : Lane(v, n, i) = 0
    BY ONLY AllExact
  <2>3. o.op = "all_true" => (r = 0) = \E i \in Lanes(n) : Lane(v, n, i) = 0
    BY <2>1, <2>2
  <2> QED BY <2>3 DEF v
<1>6. o.op = "bitmask" => BitsSet(16, r) = {i \in Lanes(n) : S(n * ByteBits, Lane(x[1], n, i)) < 0}
  BY <1>1, <1>2, <1>3, BitmaskExact
<1>7. LanesAre(o, x, r) <=>
        CASE o.op = "any_true" -> (r = 1) = (x[1] # ZeroVector)
          [] o.op = "all_true" -> (r = 0) = \E i \in Lanes(n) : Lane(x[1], n, i) = 0
          [] o.op = "bitmask" -> BitsSet(16, r) = {i \in Lanes(n) : S(n * ByteBits, Lane(x[1], n, i)) < 0}
  BY DEF LanesAre, n
<1> QED BY <1>1, <1>4, <1>5, <1>6, <1>7 DEF r

LEMMA LanesComputed ==
  ASSUME NEW o, o.class \in {"vunary", "vbinary", "vshift", "vcompare", "vternary"}, HasVectorOperation(o), NEW x, Taken(o, x)
  PROVE  LanesAre(o, x, VectorValue(o, x))
<1> DEFINE n == LaneBytes[o.shape]
           r == VectorValue(o, x)
<1>1. CASE o.class = "vunary"
  <2>1. HasVectorUnary(o.op, o.shape, o.from) /\ x[1] \in Vectors /\ r = evalV128Unary(o, x[1])
    BY <1>1 DEF HasVectorOperation, Taken, VectorValue
  <2>2. CASE o.op = "not"
    <3>1. r = notV128(x[1])
      BY <2>1, <2>2 DEF evalV128Unary
    <3>2. VectorBits(r) = ((1 .. VectorBytes) \X (0 .. ByteBits - 1)) \ VectorBits(x[1])
      BY <2>1, <3>1, NotExact
    <3> HIDE DEF r
    <3> QED BY <1>1, <2>2, <3>2 DEF LanesAre, r
  <2>3. CASE o.op # "not"
    <3>1. \A i \in Lanes(n) : UnaryLane(o, x[1], r, n, i)
      <4> HIDE DEF r
      <4> QED BY <2>1, <2>3, VectorUnaryExact
    <3> HIDE DEF r
    <3> QED BY <1>1, <2>3, <3>1 DEF LanesAre, r
  <2> QED BY <2>2, <2>3
<1>2. CASE o.class = "vbinary"
  <2>1. HasVectorBinary(o.op, o.shape) /\ x[1] \in Vectors /\ x[2] \in Vectors /\ r = evalV128Binary(o, x[1], x[2])
    BY <1>2 DEF HasVectorOperation, Taken, VectorValue
  <2>2. VectorPair(o, x, r)
    BY <2>1, VectorBinaryExact
  <2> HIDE DEF r
  <2>3. LanesAre(o, x, r) <=> VectorPair(o, x, r)
    BY <1>2 DEF LanesAre, VectorPair
  <2> QED BY <2>2, <2>3 DEF r
<1>3. CASE o.class = "vshift"
  <2>1. /\ o.shape \in IntShapes /\ o.op \in {"shl", "shr_s", "shr_u"} /\ x[1] \in Vectors /\ x[2] \in Nat
        /\ r = evalV128Shift(o.shape, o.op, x[1], x[2])
    BY <1>3 DEF HasVectorOperation, Taken, VectorValue
  <2>2. \A i \in Lanes(n) : ExactTotal(n * ByteBits, o.op, Lane(x[1], n, i), x[2], Lane(r, n, i))
    BY <2>1, ShiftExact
  <2> HIDE DEF r
  <2> QED BY <1>3, <2>2 DEF LanesAre, r
<1>4. CASE o.class = "vcompare"
  <2>1. /\ o.shape \in IntShapes \cup FloatShapes /\ x[1] \in Vectors /\ x[2] \in Vectors
        /\ r = evalV128Compare(o.shape, o.op, x[1], x[2])
    BY <1>4 DEF HasVectorOperation, HasVectorCompare, Taken, VectorValue, IntShapes
  <2>2. \A i \in Lanes(n) : CompareLane(o, x[1], x[2], r, n, i)
    <3> HIDE DEF r
    <3> QED BY <2>1, VectorCompareExact
  <2> HIDE DEF r
  <2> QED BY <1>4, <2>2 DEF LanesAre, r
<1>5. CASE o.class = "vternary"
  <2>1. /\ HasVectorTernary(o.op, o.shape) /\ x[1] \in Vectors /\ x[2] \in Vectors /\ x[3] \in Vectors
        /\ r = evalV128Ternary(o.shape, o.op, x[1], x[2], x[3])
    BY <1>5 DEF HasVectorOperation, Taken, VectorValue
  <2>2. VectorThree(o, x, r)
    BY <2>1, VectorTernaryExact
  <2> HIDE DEF r
  <2>3. LanesAre(o, x, r) <=> VectorThree(o, x, r)
    BY <1>5 DEF LanesAre, VectorThree
  <2> QED BY <2>2, <2>3 DEF r
<1> QED BY <1>1, <1>2, <1>3, <1>4, <1>5

-----------------------------------------------------------------------------
(* The steps that run vector instructions *)

\* The operands of the only instruction, in the order in which the program gives them.
Given == [k \in DOMAIN args |-> X(k)]
IsOperand(t, v) == (t \in {"i32", "i64", "f32", "f64"} => v \in Nat) /\ (t = "v128" => v \in Vectors)

LEMMA GivenFacts ==
  ASSUME Single, NEW k \in 1 .. Len(args)
  PROVE  Given[k] = X(k) /\ IsOperand(Sig(ins).params[k], Given[k])
<1>1. Fits(args, Sig(ins).params) /\ Len(args) = Len(Sig(ins).params)
  BY SingleFacts
<1>2. DOMAIN args = 1 .. Len(args)
  BY <1>1, InItsRange DEF Fits
<1>3. Given[k] = X(k)
  BY <1>2 DEF Given
<1> DEFINE types == Sig(ins).params
<1>4. k \in 1 .. Len(types) /\ Fits(args, types)
  BY <1>1
<1> HIDE DEF types
<1>5. types[k] \in {"i32", "i64", "f32", "f64"} => args[k].v \in Nat
  BY <1>4, OperandValues DEF Numbers32
<1>6. types[k] = "v128" => args[k].v \in Vectors
  BY <1>4, OperandValues
<1> QED BY <1>3, <1>5, <1>6 DEF IsOperand, X, types

LEMMA OneGiven ==
  ASSUME Single, NEW s, NEW results, Sig(ins) = Effect(<<s>>, results), NEW a
  PROVE  Len(<<a>>) = Len(args) /\ Popped(<<a>>)[1] = Given[1] /\ IsOperand(s, Given[1])
<1>1. Len(args) = 1 /\ Sig(ins).params = <<s>>
  BY SingleFacts DEF Effect
<1>2. Len(<<a>>) = 1 /\ DOMAIN <<a>> = 1 .. 1 /\ <<s>>[1] = s
  OBVIOUS
<1>3. \A j \in 1 .. 1 : Popped(<<a>>)[j] = X(1 - j + 1)
  BY <1>1, <1>2, SingleOperands
<1>4. 1 \in 1 .. Len(args)
  BY <1>1
<1>5. Given[1] = X(1) /\ IsOperand(Sig(ins).params[1], Given[1])
  BY <1>4, GivenFacts
<1> QED BY <1>1, <1>2, <1>3, <1>5

LEMMA TwoGiven ==
  ASSUME Single, NEW s, NEW t, NEW results, Sig(ins) = Effect(<<s, t>>, results), NEW a, NEW b
  PROVE  /\ Len(<<a, b>>) = Len(args) /\ Popped(<<a, b>>)[1] = Given[2] /\ Popped(<<a, b>>)[2] = Given[1]
         /\ IsOperand(s, Given[1]) /\ IsOperand(t, Given[2])
<1>1. Len(args) = 2 /\ Sig(ins).params = <<s, t>>
  BY SingleFacts DEF Effect
<1>2. Len(<<a, b>>) = 2 /\ DOMAIN <<a, b>> = 1 .. 2 /\ <<s, t>>[1] = s /\ <<s, t>>[2] = t
  OBVIOUS
<1>3. \A j \in 1 .. 2 : Popped(<<a, b>>)[j] = X(2 - j + 1)
  BY <1>1, <1>2, SingleOperands
<1>4. 1 \in 1 .. Len(args) /\ 2 \in 1 .. Len(args)
  BY <1>1
<1>5. /\ Given[1] = X(1) /\ IsOperand(Sig(ins).params[1], Given[1])
      /\ Given[2] = X(2) /\ IsOperand(Sig(ins).params[2], Given[2])
  BY <1>4, GivenFacts
<1> QED BY <1>1, <1>2, <1>3, <1>5

LEMMA ThreeGiven ==
  ASSUME Single, NEW s, NEW t, NEW u, NEW results, Sig(ins) = Effect(<<s, t, u>>, results), NEW a, NEW b, NEW c
  PROVE  /\ Len(<<a, b, c>>) = Len(args) /\ Popped(<<a, b, c>>)[1] = Given[3]
         /\ Popped(<<a, b, c>>)[2] = Given[2] /\ Popped(<<a, b, c>>)[3] = Given[1]
         /\ IsOperand(s, Given[1]) /\ IsOperand(t, Given[2]) /\ IsOperand(u, Given[3])
<1>1. Len(args) = 3 /\ Sig(ins).params = <<s, t, u>>
  BY SingleFacts DEF Effect
<1>2. /\ Len(<<a, b, c>>) = 3 /\ DOMAIN <<a, b, c>> = 1 .. 3
      /\ <<s, t, u>>[1] = s /\ <<s, t, u>>[2] = t /\ <<s, t, u>>[3] = u
  OBVIOUS
<1>3. \A j \in 1 .. 3 : Popped(<<a, b, c>>)[j] = X(3 - j + 1)
  BY <1>1, <1>2, SingleOperands
<1>4. 1 \in 1 .. Len(args) /\ 2 \in 1 .. Len(args) /\ 3 \in 1 .. Len(args)
  BY <1>1
<1>5. /\ Given[1] = X(1) /\ IsOperand(Sig(ins).params[1], Given[1])
      /\ Given[2] = X(2) /\ IsOperand(Sig(ins).params[2], Given[2])
      /\ Given[3] = X(3) /\ IsOperand(Sig(ins).params[3], Given[3])
  BY <1>4, GivenFacts
<1> QED BY <1>1, <1>2, <1>3, <1>5

\* What Compute does with the vector v.
VectorOf(want, v) ==
  IF ~popWant(want) THEN Stop("fault") ELSE Advance(want, <<[t |-> "v128", v |-> v]>>, areas)
Yields(v) == UNCHANGED <<prog, args>> /\ (out' = "done" => Result' = v)

LEMMA VectorOnce ==
  ASSUME Single, out' # "fault", NEW want, NEW v, VectorOf(want, v), Len(want) = Len(args)
  PROVE  Yields(v)
<1> DEFINE c == [t |-> "v128", v |-> v]
<1>1. Advance(want, <<c>>, areas) /\ c.v = v
  BY DEF VectorOf, Stop
<1> HIDE DEF c
<1>2. Ran(<<c>>, areas)
  BY <1>1, SingleAdvances
<1>3. UNCHANGED <<prog, args>> /\ out' = "done" /\ Result' = c.v
  BY <1>2, RanOne
<1> QED BY <1>1, <1>3 DEF Yields

LEMMA NumberOnce ==
  ASSUME Single, out' # "fault", NEW want, NEW t, NEW v, ComputeOf(want, t, v), Len(want) = Len(args)
  PROVE  Yields(v)
<1>1. Gets(v)
  BY ComputeOnce
<1> QED BY <1>1 DEF Gets, Yields

LEMMA LaneTyped ==
  ASSUME NEW shape \in LaneShapes, NEW v, IsOperand(LaneType[shape], v)
  PROVE  v \in Int
<1>1. LaneType[shape] \in {"i32", "i64", "f32", "f64"}
  BY DEF LaneShapes, IntShapes, FloatShapes, LaneType
<1> QED BY <1>1 DEF IsOperand

\* What a vector instruction does to the operands it is given.
Lays == Taken(ins, Given) /\ Yields(VectorValue(ins, Given))

LEMMA VectorLays ==
  ASSUME Single, out' # "fault", Vector
  PROVE  ins.class \in VectorClasses /\ Lays
<1>1. CASE Splat
  <2> DEFINE w == <<LaneType[ins.shape]>>
             v == evalV128Splat(ins.shape, Popped(w)[1])
  <2>1. ins.class = "splat" /\ VectorOf(w, v)
    BY <1>1 DEF Splat, At, Compute, VectorOf
  <2>2. Sig(ins) = Effect(<<LaneType[ins.shape]>>, <<"v128">>)
    BY <2>1 DEF Sig, Loads, MemoryClasses, TableClasses, VectorSig
  <2>3. /\ Len(w) = Len(args) /\ Popped(w)[1] = Given[1]
        /\ IsOperand(LaneType[ins.shape], Given[1])
    BY <2>2, OneGiven
  <2>4. Given[1] \in Int
    <3>1. ins.shape \in LaneShapes
      BY <2>1, SingleFacts DEF HasOperation, HasVectorOperation, LaneShapes
    <3> QED BY <2>3, <3>1, LaneTyped
  <2>5. Taken(ins, Given)
    BY <2>1, <2>3, <2>4 DEF Taken, IsOperand
  <2>6. v = VectorValue(ins, Given)
    BY <2>1, <2>3 DEF VectorValue
  <2> HIDE DEF w, v
  <2>7. Yields(v)
    BY <2>1, <2>3, VectorOnce
  <2> QED BY <2>1, <2>5, <2>6, <2>7 DEF Lays, VectorClasses
<1>2. CASE ExtractLane
  <2> DEFINE w == <<"v128">>
             v == evalV128ExtractLane(ins.shape, ins.how, ins.lane, Popped(w)[1])
  <2>1. ins.class = "extract" /\ ComputeOf(w, LaneType[ins.shape], v)
    <3>1. ins.class = "extract"
      BY <1>2, Zenon DEF ExtractLane, At
    <3>2. ins.shape \in LaneShapes
      BY <3>1, SingleFacts DEF HasOperation, HasVectorOperation, LaneShapes
    <3>3. LaneType[ins.shape] # "v128"
      BY <3>2 DEF LaneShapes, IntShapes, FloatShapes, LaneType
    <3> QED BY <1>2, <3>1, <3>3 DEF ExtractLane, At, Compute, ComputeOf
  <2>2. Sig(ins) = Effect(<<"v128">>, <<LaneType[ins.shape]>>)
    BY <2>1 DEF Sig, Loads, MemoryClasses, TableClasses, ExtractRule
  <2>3. /\ Len(w) = Len(args) /\ Popped(w)[1] = Given[1]
        /\ IsOperand("v128", Given[1])
    BY <2>2, OneGiven
  <2>5. Taken(ins, Given)
    BY <2>1, <2>3 DEF Taken, IsOperand
  <2>6. v = VectorValue(ins, Given)
    BY <2>1, <2>3 DEF VectorValue
  <2> HIDE DEF w, v
  <2>7. Yields(v)
    BY <2>1, <2>3, NumberOnce
  <2> QED BY <2>1, <2>5, <2>6, <2>7 DEF Lays, VectorClasses
<1>3. CASE ReplaceLane
  <2> DEFINE w == <<LaneType[ins.shape], "v128">>
             v == evalV128ReplaceLane(ins.shape, ins.lane, Popped(w)[2], Popped(w)[1])
  <2>1. ins.class = "replace" /\ VectorOf(w, v)
    BY <1>3 DEF ReplaceLane, At, Compute, VectorOf
  <2>2. Sig(ins) = Effect(<<"v128", LaneType[ins.shape]>>, <<"v128">>)
    BY <2>1 DEF Sig, Loads, MemoryClasses, TableClasses, ReplaceRule
  <2>3. /\ Len(w) = Len(args) /\ Popped(w)[2] = Given[1] /\ Popped(w)[1] = Given[2]
        /\ IsOperand("v128", Given[1]) /\ IsOperand(LaneType[ins.shape], Given[2])
    BY <2>2, TwoGiven
  <2>4. Given[2] \in Int
    <3>1. ins.shape \in LaneShapes
      BY <2>1, SingleFacts DEF HasOperation, HasVectorOperation, LaneShapes
    <3> QED BY <2>3, <3>1, LaneTyped
  <2>5. Taken(ins, Given)
    BY <2>1, <2>3, <2>4 DEF Taken, IsOperand
  <2>6. v = VectorValue(ins, Given)
    BY <2>1, <2>3 DEF VectorValue
  <2> HIDE DEF w, v
  <2>7. Yields(v)
    BY <2>1, <2>3, VectorOnce
  <2> QED BY <2>1, <2>5, <2>6, <2>7 DEF Lays, VectorClasses
<1>4. CASE Shuffle
  <2> DEFINE w == <<"v128", "v128">>
             v == evalI8x16Shuffle(ins.bytes, Popped(w)[2], Popped(w)[1])
  <2>1. ins.class = "shuffle" /\ VectorOf(w, v)
    BY <1>4 DEF Shuffle, At, Compute, VectorOf
  <2>2. Sig(ins) = Effect(<<"v128", "v128">>, <<"v128">>)
    BY <2>1 DEF Sig, Loads, MemoryClasses, TableClasses, ShuffleRule
  <2>3. /\ Len(w) = Len(args) /\ Popped(w)[2] = Given[1] /\ Popped(w)[1] = Given[2]
        /\ IsOperand("v128", Given[1]) /\ IsOperand("v128", Given[2])
    BY <2>2, TwoGiven
  <2>5. Taken(ins, Given)
    BY <2>1, <2>3 DEF Taken, IsOperand
  <2>6. v = VectorValue(ins, Given)
    BY <2>1, <2>3 DEF VectorValue
  <2> HIDE DEF w, v
  <2>7. Yields(v)
    BY <2>1, <2>3, VectorOnce
  <2> QED BY <2>1, <2>5, <2>6, <2>7 DEF Lays, VectorClasses
<1>5. CASE VTest
  <2> DEFINE w == <<"v128">>
             v == evalV128Test(ins.shape, ins.op, Popped(w)[1])
  <2>1. ins.class = "vtest" /\ ComputeOf(w, "i32", v)
    BY <1>5 DEF VTest, At, Compute, ComputeOf
  <2>2. Sig(ins) = Effect(<<"v128">>, <<"i32">>)
    BY <2>1 DEF Sig, Loads, MemoryClasses, TableClasses, VectorSig
  <2>3. /\ Len(w) = Len(args) /\ Popped(w)[1] = Given[1]
        /\ IsOperand("v128", Given[1])
    BY <2>2, OneGiven
  <2>5. Taken(ins, Given)
    BY <2>1, <2>3 DEF Taken, IsOperand
  <2>6. v = VectorValue(ins, Given)
    BY <2>1, <2>3 DEF VectorValue
  <2> HIDE DEF w, v
  <2>7. Yields(v)
    BY <2>1, <2>3, NumberOnce
  <2> QED BY <2>1, <2>5, <2>6, <2>7 DEF Lays, VectorClasses
<1>6. CASE VUnary
  <2> DEFINE w == <<"v128">>
             v == evalV128Unary(ins, Popped(w)[1])
  <2>1. ins.class = "vunary" /\ VectorOf(w, v)
    BY <1>6 DEF VUnary, At, Compute, VectorOf
  <2>2. Sig(ins) = Effect(<<"v128">>, <<"v128">>)
    BY <2>1 DEF Sig, Loads, MemoryClasses, TableClasses, VectorSig
  <2>3. /\ Len(w) = Len(args) /\ Popped(w)[1] = Given[1]
        /\ IsOperand("v128", Given[1])
    BY <2>2, OneGiven
  <2>5. Taken(ins, Given)
    BY <2>1, <2>3 DEF Taken, IsOperand
  <2>6. v = VectorValue(ins, Given)
    BY <2>1, <2>3 DEF VectorValue
  <2> HIDE DEF w, v
  <2>7. Yields(v)
    BY <2>1, <2>3, VectorOnce
  <2> QED BY <2>1, <2>5, <2>6, <2>7 DEF Lays, VectorClasses
<1>7. CASE VBinary
  <2> DEFINE w == <<"v128", "v128">>
             v == evalV128Binary(ins, Popped(w)[2], Popped(w)[1])
  <2>1. ins.class = "vbinary" /\ VectorOf(w, v)
    BY <1>7 DEF VBinary, At, Compute, VectorOf
  <2>2. Sig(ins) = Effect(<<"v128", "v128">>, <<"v128">>)
    BY <2>1 DEF Sig, Loads, MemoryClasses, TableClasses, VectorSig
  <2>3. /\ Len(w) = Len(args) /\ Popped(w)[2] = Given[1] /\ Popped(w)[1] = Given[2]
        /\ IsOperand("v128", Given[1]) /\ IsOperand("v128", Given[2])
    BY <2>2, TwoGiven
  <2>5. Taken(ins, Given)
    BY <2>1, <2>3 DEF Taken, IsOperand
  <2>6. v = VectorValue(ins, Given)
    BY <2>1, <2>3 DEF VectorValue
  <2> HIDE DEF w, v
  <2>7. Yields(v)
    BY <2>1, <2>3, VectorOnce
  <2> QED BY <2>1, <2>5, <2>6, <2>7 DEF Lays, VectorClasses
<1>8. CASE VShift
  <2> DEFINE w == <<"i32", "v128">>
             v == evalV128Shift(ins.shape, ins.op, Popped(w)[2], Popped(w)[1])
  <2>1. ins.class = "vshift" /\ VectorOf(w, v)
    BY <1>8 DEF VShift, At, Compute, VectorOf
  <2>2. Sig(ins) = Effect(<<"v128", "i32">>, <<"v128">>)
    BY <2>1 DEF Sig, Loads, MemoryClasses, TableClasses, VectorSig
  <2>3. /\ Len(w) = Len(args) /\ Popped(w)[2] = Given[1] /\ Popped(w)[1] = Given[2]
        /\ IsOperand("v128", Given[1]) /\ IsOperand("i32", Given[2])
    BY <2>2, TwoGiven
  <2>5. Taken(ins, Given)
    BY <2>1, <2>3 DEF Taken, IsOperand
  <2>6. v = VectorValue(ins, Given)
    BY <2>1, <2>3 DEF VectorValue
  <2> HIDE DEF w, v
  <2>7. Yields(v)
    BY <2>1, <2>3, VectorOnce
  <2> QED BY <2>1, <2>5, <2>6, <2>7 DEF Lays, VectorClasses
<1>9. CASE VTernary
  <2> DEFINE w == <<"v128", "v128", "v128">>
             v == evalV128Ternary(ins.shape, ins.op, Popped(w)[3], Popped(w)[2], Popped(w)[1])
  <2>1. ins.class = "vternary" /\ VectorOf(w, v)
    BY <1>9 DEF VTernary, At, Compute, VectorOf
  <2>2. Sig(ins) = Effect(<<"v128", "v128", "v128">>, <<"v128">>)
    BY <2>1 DEF Sig, Loads, MemoryClasses, TableClasses, VectorSig
  <2>3. /\ Len(w) = Len(args) /\ Popped(w)[3] = Given[1] /\ Popped(w)[2] = Given[2] /\ Popped(w)[1] = Given[3]
        /\ IsOperand("v128", Given[1]) /\ IsOperand("v128", Given[2]) /\ IsOperand("v128", Given[3])
    BY <2>2, ThreeGiven
  <2>5. Taken(ins, Given)
    BY <2>1, <2>3 DEF Taken, IsOperand
  <2>6. v = VectorValue(ins, Given)
    BY <2>1, <2>3 DEF VectorValue
  <2> HIDE DEF w, v
  <2>7. Yields(v)
    BY <2>1, <2>3, VectorOnce
  <2> QED BY <2>1, <2>5, <2>6, <2>7 DEF Lays, VectorClasses
<1>10. CASE VCompare
  <2> DEFINE w == <<"v128", "v128">>
             v == evalV128Compare(ins.shape, ins.op, Popped(w)[2], Popped(w)[1])
  <2>1. ins.class = "vcompare" /\ VectorOf(w, v)
    BY <1>10 DEF VCompare, At, Compute, VectorOf
  <2>2. Sig(ins) = Effect(<<"v128", "v128">>, <<"v128">>)
    BY <2>1 DEF Sig, Loads, MemoryClasses, TableClasses, VectorSig
  <2>3. /\ Len(w) = Len(args) /\ Popped(w)[2] = Given[1] /\ Popped(w)[1] = Given[2]
        /\ IsOperand("v128", Given[1]) /\ IsOperand("v128", Given[2])
    BY <2>2, TwoGiven
  <2>5. Taken(ins, Given)
    BY <2>1, <2>3 DEF Taken, IsOperand
  <2>6. v = VectorValue(ins, Given)
    BY <2>1, <2>3 DEF VectorValue
  <2> HIDE DEF w, v
  <2>7. Yields(v)
    BY <2>1, <2>3, VectorOnce
  <2> QED BY <2>1, <2>5, <2>6, <2>7 DEF Lays, VectorClasses
<1> QED BY <1>1, <1>2, <1>3, <1>4, <1>5, <1>6, <1>7, <1>8, <1>9, <1>10 DEF Vector

\* Only the vector actions run vector instructions.
LEMMA VectorActions ==
  ASSUME Next, ins.class \in VectorClasses
  PROVE  Vector
<1>1. ~Const /\ ~Convert /\ ~Integer
  BY DEF VectorClasses, Const, Convert, Integer, I32Binary, I32Eqz, I32Unary, I64Binary, I64Compare, I64Eqz, I64Unary, At
<1>2. ~Float
  BY DEF VectorClasses, Float, F32Unary, F32Binary, F32Compare, F64Unary, F64Binary, F64Compare, At
<1>3. ~Accessing
  BY NoAccess DEF VectorClasses, Places, Accesses, Loads, MemoryClasses, TableClasses
<1>4. ~Memories
  BY DEF VectorClasses, Memories, MemorySize, MemoryGrow, MemoryCopy, MemoryFill, MemoryInit, DataDrop, At
<1>5. ~Tables
  BY DEF VectorClasses, Tables, TableSize, TableGet, TableSet, TableGrow, TableFill, TableCopy, TableInit, ElemDrop, At
<1> QED BY <1>1, <1>2, <1>3, <1>4, <1>5 DEF Next

LEMMA LanesStep ==
  ASSUME Single, out' # "fault", Vector
  PROVE  UNCHANGED <<prog, args>> /\ (out' = "done" => LanesAre(only, Given, Result'))
<1> DEFINE v == VectorValue(ins, Given)
<1>1. ins.class \in VectorClasses /\ Taken(ins, Given) /\ Yields(v)
  BY VectorLays DEF Lays
<1>2. HasVectorOperation(ins)
  BY <1>1, SingleFacts DEF HasOperation, VectorClasses
<1>3. LanesAre(ins, Given, v)
  <2>1. CASE ins.class \in {"splat", "extract", "replace", "shuffle"}
    BY <1>1, <1>2, <2>1, LanesMoved
  <2>2. CASE ins.class = "vtest"
    BY <1>1, <1>2, <2>2, LanesTested
  <2>3. CASE ins.class \in {"vunary", "vbinary", "vshift", "vcompare", "vternary"}
    BY <1>1, <1>2, <2>3, LanesComputed
  <2> QED BY <1>1, <2>1, <2>2, <2>3 DEF VectorClasses
<1> HIDE DEF v
<1>4. ins = only
  BY SingleFacts
<1> QED BY <1>1, <1>3, <1>4 DEF Yields

LEMMA LanesPrimed ==
  ASSUME UNCHANGED <<prog, args>>, out' = "done" /\ Len(prog) = 1 => LanesAre(only, Given, Result')
  PROVE  LanesExact'
<1>1. only' = only /\ Given' = Given
  BY DEF only, Given, X
<1>2. LanesAre(only, Given, Result)' <=> LanesAre(only', Given', Result')
  OBVIOUS
<1>3. LanesExact' <=> (out' = "done" /\ Len(prog') = 1 => LanesAre(only', Given', Result'))
  BY <1>2 DEF LanesExact, Given
<1> QED BY <1>1, <1>3

LEMMA OtherClasses ==
  ASSUME NEW o, o.class \notin VectorClasses, NEW x, NEW r
  PROVE  LanesAre(o, x, r)
BY DEF LanesAre, VectorClasses

LanesInv == MemoryInv /\ LanesExact

LEMMA LanesStart == Init => LanesInv
<1> SUFFICES ASSUME Init PROVE LanesInv
  OBVIOUS
<1>1. out = "run"
  BY DEF Init
<1> QED BY <1>1, MemoryStart DEF LanesInv, LanesExact

LEMMA LanesNext == LanesInv /\ [Next]_vars => LanesInv'
<1> SUFFICES ASSUME LanesInv, [Next]_vars PROVE LanesInv'
  OBVIOUS
<1>1. MemoryInv'
  BY MemoryNext DEF LanesInv
<1>2. CASE UNCHANGED vars
  <2>1. prog' = prog /\ args' = args /\ stack' = stack /\ out' = out
    BY <1>2 DEF vars
  <2>2. Result' = Result /\ UNCHANGED <<prog, args>>
    BY <2>1 DEF Result
  <2>3. out = "done" /\ Len(prog) = 1 => LanesAre(only, Given, Result)
    BY DEF LanesInv, LanesExact, Given
  <2>4. LanesExact'
    BY <2>1, <2>2, <2>3, LanesPrimed
  <2> QED BY <1>1, <2>4 DEF LanesInv
<1>3. CASE Next
  <2>1. /\ out = "run" /\ UNCHANGED <<prog, args>> /\ out' # "fault" /\ pc \in 1 .. Len(prog) /\ Len(prog) \in {1, 2}
    BY <1>3, StepShape DEF MemoryInv, LanesInv
  <2>2. CASE Len(prog) = 1 /\ only.class \in VectorClasses
    <3>1. pc = 1 /\ ins = only
      BY <2>1, <2>2 DEF ins, only
    <3>2. Single
      BY <2>1, <2>2, <3>1 DEF Single, MemoryInv, LanesInv, AgreeInv
    <3>3. Vector
      BY <1>3, <2>2, <3>1, VectorActions
    <3>4. out' = "done" => LanesAre(only, Given, Result')
      BY <2>1, <3>2, <3>3, LanesStep
    <3> QED BY <1>1, <2>1, <3>4, LanesPrimed DEF LanesInv
  <2>3. CASE Len(prog) = 1 /\ only.class \notin VectorClasses
    <3>1. LanesAre(only, Given, Result')
      BY <2>3, OtherClasses
    <3> QED BY <1>1, <2>1, <3>1, LanesPrimed DEF LanesInv
  <2>4. CASE Len(prog) # 1
    BY <1>1, <2>1, <2>4, LanesPrimed DEF LanesInv
  <2> QED BY <2>2, <2>3, <2>4
<1> QED BY <1>2, <1>3

\* Every lane of every vector instruction's result is what the scalar instruction gives for the lanes it is computed
\* from, for all vectors and all lane shapes; masks, shuffles and reductions take exactly the bits and bytes they should.
THEOREM LanesSafe == Spec => []LanesExact
<1>1. Init => LanesInv
  BY LanesStart
<1>2. LanesInv /\ [Next]_vars => LanesInv'
  BY LanesNext
<1>3. LanesInv => LanesExact
  BY DEF LanesInv
<1> QED BY <1>1, <1>2, <1>3, PTL DEF Spec
==============================================================================
