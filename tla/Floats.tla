-------------------------------- MODULE Floats --------------------------------
(***************************************************************************)
(* Floating-point numbers. A float is its bit pattern: a sign, the bits of *)
(* an exponent and those of a fraction, rounded to nearest, ties to even,  *)
(* with subnormals, infinities and NaNs. Finite values are integers when   *)
(* counted in units of the least positive f64. For f32 and f64 of the      *)
(* program, Format is <<23 and 8 bits, 2^925 units>> and <<52 and 11 bits, *)
(* one unit>>, and ScaleBits is 1074. The arithmetic is that of Go and of  *)
(* its package math; which NaN comes out, which zero, and what traps or    *)
(* saturates is decided by execute.go.                                     *)
(***************************************************************************)
EXTENDS Numbers

CONSTANTS
  Format,     \* of f32 and f64: bits of fraction and exponent, and its least positive number, 2^least units
  ScaleBits   \* 2^ScaleBits units are one

\* One is a float, every f32 is an f64, and there are NaNs that are not canonical.
ASSUME FormatAssumption ==
  /\ ScaleBits \in Nat \ {0}
  /\ Format \in [{"f32", "f64"} -> [fraction : Nat \ {0, 1}, exponent : Nat \ {0}, least : Nat]]
  /\ \A f \in {"f32", "f64"} : Format[f].fraction + Format[f].exponent + 1 = Width(f)
  /\ \A f \in {"f32", "f64"} :
       Format[f].least <= ScaleBits /\ ScaleBits < Format[f].least + Format[f].fraction + 2^Format[f].exponent - 2
  /\ Format["f32"].fraction <= Format["f64"].fraction
  /\ Format["f32"].least >= Format["f64"].least
  /\ Format["f32"].least + Format["f32"].fraction + 2^Format["f32"].exponent
       <= Format["f64"].least + Format["f64"].fraction + 2^Format["f64"].exponent

SignBit(f) == 2^(Width(f) - 1)
Magnitude(f, x) == x % SignBit(f)
IsNeg(f, x) == x >= SignBit(f)
Signed(f, neg, mag) == IF neg THEN SignBit(f) + mag ELSE mag
Inf(f) == (2^Format[f].exponent - 1) * 2^Format[f].fraction
IsNaN(f, x) == Magnitude(f, x) > Inf(f)
IsInf(f, x) == Magnitude(f, x) = Inf(f)
IsZero(f, x) == Magnitude(f, x) = 0
CanonicalNaN(f) == Inf(f) + 2^(Format[f].fraction - 1)

\* A finite float is Significand * 2^Exponent units.
Exponent(f, x) ==
  Format[f].least + Greatest(Magnitude(f, x) \div 2^Format[f].fraction, 1) - 1
Significand(f, x) ==
  LET one == 2^Format[f].fraction
  IN  IF Magnitude(f, x) < one THEN Magnitude(f, x) ELSE one + (Magnitude(f, x) % one)
Real(f, x) ==
  LET r == Significand(f, x) * 2^Exponent(f, x) IN IF IsNeg(f, x) THEN -r ELSE r

\* The number of units that the exponent of an infinity would stand for.
Beyond(f) == 2^(Format[f].least + Format[f].fraction + 2^Format[f].exponent - 2)

\* The bits of m, without leading zeros.
BitLen(m) == LET len[k \in 0 .. m] == IF k = 0 THEN 0 ELSE len[k \div 2] + 1 IN len[m]
HalfEven(m, s) ==
  IF s > BitLen(m) THEN 0
  ELSE LET q == m \div 2^s
           r == m % 2^s
       IN  IF r > 2^s - r \/ (r = 2^s - r /\ q % 2 = 1) THEN q + 1 ELSE q

\* The float nearest to m * 2^e units. The exponent's and the fraction's bits
\* are one number, so a fraction that rounds up carries into the exponent.
Nearest(f, neg, m, e) ==
  LET F == Format[f]
      q == IF m = 0 THEN F.least ELSE Greatest(F.least, BitLen(m) - 1 + e - F.fraction)
      k == IF m = 0 THEN 0 ELSE IF q <= e THEN m * 2^(e - q) ELSE HalfEven(m, q - e)
  IN  Signed(f, neg, Least(Inf(f), (q - F.least) * 2^F.fraction + k))

Quiet(f, x) ==
  LET q == 2^(Format[f].fraction - 1) IN IF (x \div q) % 2 = 0 THEN x + q ELSE x

Add(f, x, y) ==
  IF IsInf(f, x) \/ IsInf(f, y)
  THEN IF IsInf(f, x) /\ IsInf(f, y) /\ x # y THEN CanonicalNaN(f)
       ELSE IF IsInf(f, x) THEN x ELSE y
  ELSE LET r == Real(f, x) + Real(f, y)
       IN  IF r = 0 THEN Signed(f, IsNeg(f, x) /\ IsNeg(f, y), 0) ELSE Nearest(f, r < 0, Abs(r), 0)

Negate(f, x) == Signed(f, ~IsNeg(f, x), Magnitude(f, x))

Mul(f, x, y) ==
  LET neg == IsNeg(f, x) # IsNeg(f, y)
  IN  IF IsInf(f, x) \/ IsInf(f, y)
      THEN IF IsZero(f, x) \/ IsZero(f, y) THEN CanonicalNaN(f) ELSE Signed(f, neg, Inf(f))
      ELSE Nearest(f, neg, Significand(f, x) * Significand(f, y),
                   Exponent(f, x) + Exponent(f, y) - ScaleBits)

\* A quotient or a root is computed to more bits than the format has, and a
\* last bit says whether anything was left.
Sticky(q, left) == 2 * q + Bool(left)

Div(f, x, y) ==
  LET neg == IsNeg(f, x) # IsNeg(f, y)
      k == 2 * Format[f].fraction + 4 - BitLen(Significand(f, x))
      n == Significand(f, x) * 2^k
      d == Significand(f, y)
  IN  IF (IsInf(f, x) /\ IsInf(f, y)) \/ (IsZero(f, x) /\ IsZero(f, y)) THEN CanonicalNaN(f)
      ELSE IF IsInf(f, x) \/ IsZero(f, y) THEN Signed(f, neg, Inf(f))
      ELSE IF IsInf(f, y) THEN Signed(f, neg, 0)
      ELSE Nearest(f, neg, Sticky(n \div d, n % d # 0),
                   Exponent(f, x) - Exponent(f, y) + ScaleBits - k - 1)

Sqrt(f, x) ==
  LET e == Exponent(f, x) - ScaleBits
      long == 2 * Format[f].fraction + 4 - BitLen(Significand(f, x))
      k == IF (e - long) % 2 = 0 THEN long ELSE long - 1
      n == Significand(f, x) * 2^k
      r == CHOOSE r \in 0 .. 2^(Format[f].fraction + 2) : r * r <= n /\ n < (r + 1) * (r + 1)
  IN  IF IsNaN(f, x) THEN Quiet(f, x)
      ELSE IF IsZero(f, x) THEN x
      ELSE IF IsNeg(f, x) THEN CanonicalNaN(f)
      ELSE IF IsInf(f, x) THEN x
      ELSE Nearest(f, FALSE, Sticky(r, r * r # n), (e - k) \div 2 + ScaleBits - 1)

\* Rounding to an integral value keeps the sign of a zero.
Integral(f, mode, x) ==
  LET one == 2^ScaleBits
      m == Significand(f, x) * 2^Exponent(f, x)
      up == (m + one - 1) \div one
      down == m \div one
      n == CASE mode = "ceil" -> IF IsNeg(f, x) THEN down ELSE up
             [] mode = "floor" -> IF IsNeg(f, x) THEN up ELSE down
             [] mode = "trunc" -> down
             [] mode = "nearest" -> HalfEven(m, ScaleBits)
  IN  IF IsNaN(f, x) THEN Quiet(f, x)
      ELSE IF IsInf(f, x) THEN x
      ELSE Nearest(f, IsNeg(f, x), n, ScaleBits)

\* float32(x) of a float64 and back; a NaN keeps what fits of its fraction.
FloatTo(f, g, x) ==
  LET from == Format[f].fraction
      to == Format[g].fraction
      payload == Magnitude(f, x) - Inf(f)
      kept == IF to >= from THEN payload * 2^(to - from) ELSE payload \div 2^(from - to)
  IN  IF IsNaN(f, x) THEN Quiet(g, Signed(g, IsNeg(f, x), Inf(g) + kept))
      ELSE IF IsInf(f, x) THEN Signed(g, IsNeg(f, x), Inf(g))
      ELSE Nearest(g, IsNeg(f, x), Significand(f, x), Exponent(f, x))

FloatOf(f, v) == Nearest(f, v < 0, Abs(v), ScaleBits)
Truncated(f, x) == Quot(Real(f, x), 2^ScaleBits)

FloatRelates(f, op, x, y) ==
  LET Place(z) == IF IsInf(f, z) THEN (IF IsNeg(f, z) THEN -Beyond(f) ELSE Beyond(f)) ELSE Real(f, z)
  IN  IF IsNaN(f, x) \/ IsNaN(f, y) THEN op = "ne" ELSE Relates(op, Place(x), Place(y))

-----------------------------------------------------------------------------
(* What execute.go decides.                                                *)

MinOfPlain(f, a, b) == IF FloatRelates(f, "lt", a, b) THEN a ELSE b
MinOf(f, a, b) ==
  IF IsZero(f, a) /\ IsZero(f, b) /\ (IsNeg(f, a) \/ IsNeg(f, b)) THEN SignBit(f)
  ELSE IF FloatRelates(f, "lt", a, b) THEN a ELSE b
MaxOf(f, a, b) ==
  IF IsZero(f, a) /\ IsZero(f, b) /\ ~(IsNeg(f, a) /\ IsNeg(f, b)) THEN 0
  ELSE IF FloatRelates(f, "gt", a, b) THEN a ELSE b

FloatBinary(f, op, a, b) ==
  CASE op = "pmin" -> IF FloatRelates(f, "lt", b, a) THEN b ELSE a
    [] op = "pmax" -> IF FloatRelates(f, "lt", a, b) THEN b ELSE a
    [] OTHER ->
         IF IsNaN(f, a) \/ IsNaN(f, b) THEN CanonicalNaN(f)
         ELSE CASE op \in {"min", "relaxed_min"} -> MinOf(f, a, b)
                [] op \in {"max", "relaxed_max"} -> MaxOf(f, a, b)
                [] op = "add" -> Add(f, a, b)
                [] op = "sub" -> Add(f, a, Negate(f, b))
                [] op = "div" -> Div(f, a, b)
                [] op = "mul" -> Mul(f, a, b)

Copysign(f, lhs, rhs) == Signed(f, IsNeg(f, rhs), Magnitude(f, lhs))

FloatUnary(f, op, v) ==
  CASE op = "abs" -> Magnitude(f, v)
    [] op = "neg" -> Negate(f, v)
    [] op = "sqrt" -> Sqrt(f, v)
    [] op \in {"ceil", "floor", "trunc", "nearest"} -> Integral(f, op, v)

\* The f32 operations go through float64. That does not change a root, whose
\* 53 bits are more than twice 24; the small f64 has too few below 8 for that.
evalF32Unary(op, v) ==
  IF op \in {"abs", "neg", "sqrt"} THEN FloatUnary("f32", op, v)
  ELSE FloatTo("f64", "f32", FloatUnary("f64", op, FloatTo("f32", "f64", v)))
evalF64Unary(op, v) == FloatUnary("f64", op, v)
binaryF32(op, a, b) == FloatBinary("f32", op, a, b)
binaryF64(op, a, b) == FloatBinary("f64", op, a, b)
evalF32Binary(op, a, b) == IF op = "copysign" THEN Copysign("f32", a, b) ELSE binaryF32(op, a, b)
evalF64Binary(op, a, b) == IF op = "copysign" THEN Copysign("f64", a, b) ELSE binaryF64(op, a, b)
evalF32Compare(op, a, b) == Bool(FloatRelates("f32", op, a, b))
evalF64Compare(op, a, b) == Bool(FloatRelates("f64", op, a, b))

checkedTruncFloatTo(f, x, w, lower, upper) ==
  IF IsNaN(f, x) \/ IsInf(f, x) THEN Trap
  ELSE LET t == Truncated(f, x) IN IF t < lower \/ t > upper THEN Trap ELSE U(w, t)
checkedTruncFloat(f, x, w, lower, upper) ==
  IF IsNaN(f, x) \/ IsInf(f, x) THEN Trap
  ELSE LET t == Truncated(f, x) IN IF t < lower \/ t >= upper THEN Trap ELSE U(w, t)
truncFloatToI32S(f, x) == checkedTruncFloat(f, x, Width("i32"), -(2^(Width("i32") - 1)), 2^(Width("i32") - 1))
truncFloatToI32U(f, x) == checkedTruncFloat(f, x, Width("i32"), 0, 2^Width("i32"))
truncFloatToI64S(f, x) == checkedTruncFloat(f, x, Width("i64"), -(2^(Width("i64") - 1)), 2^(Width("i64") - 1))
truncFloatToI64U(f, x) == checkedTruncFloat(f, x, Width("i64"), 0, 2^Width("i64"))

truncSatFloatS(f, x, w) ==
  LET lowest == -(2^(w - 1))
      top == 2^(w - 1) - 1
  IN  IF IsNaN(f, x) THEN 0
      ELSE IF IsInf(f, x) THEN U(w, IF IsNeg(f, x) THEN lowest ELSE top)
      ELSE U(w, Clamp(Truncated(f, x), lowest, top))
truncSatFloatU(f, x, w) ==
  IF IsNaN(f, x) THEN 0
  ELSE IF IsInf(f, x) THEN (IF IsNeg(f, x) THEN 0 ELSE 2^w - 1)
  ELSE Clamp(Truncated(f, x), 0, 2^w - 1)

truncSatFloatToI32S(f, x) == truncSatFloatS(f, x, Width("i32"))
truncSatFloatToI32U(f, x) == truncSatFloatU(f, x, Width("i32"))
truncSatFloatToI64S(f, x) == truncSatFloatS(f, x, Width("i64"))
truncSatFloatToI64U(f, x) == truncSatFloatU(f, x, Width("i64"))

\* A conversion from type `from` to type `to`; how is "s", "u" or "".
evalConversion(to, op, from, how, v) ==
  CASE op = "wrap" -> U(Width(to), v)
    [] op = "extend" -> IF how = "s" THEN SignExtend(Width(from), Width(to), v) ELSE v
    [] op = "trunc" /\ to = "i32" -> IF how = "s" THEN truncFloatToI32S(from, v) ELSE truncFloatToI32U(from, v)
    [] op = "trunc" /\ to = "i64" -> IF how = "s" THEN truncFloatToI64S(from, v) ELSE truncFloatToI64U(from, v)
    [] op = "trunc_sat" /\ to = "i32" -> IF how = "s" THEN truncSatFloatToI32S(from, v) ELSE truncSatFloatToI32U(from, v)
    [] op = "trunc_sat" /\ to = "i64" -> IF how = "s" THEN truncSatFloatToI64S(from, v) ELSE truncSatFloatToI64U(from, v)
    [] op = "convert" -> FloatOf(to, IF how = "s" THEN S(Width(from), v) ELSE v)
    [] op \in {"promote", "demote"} -> FloatTo(from, to, v)
    [] op = "reinterpret" -> v

canonicalIn(f, x) == Magnitude(f, x) = CanonicalNaN(f)
FloatBitsTo(f, g, raw) ==
  IF IsNaN(f, raw) THEN CanonicalNaN(g) + Bool(~canonicalIn(f, raw)) ELSE FloatTo(f, g, raw)
promoteF32BitsToF64Bits(raw) == FloatBitsTo("f32", "f64", raw)
demoteF64BitsToF32Bits(raw) == FloatBitsTo("f64", "f32", raw)
=============================================================================
