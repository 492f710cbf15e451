------------------------------- MODULE Numbers -------------------------------
(***************************************************************************)
(* Integers of a fixed width, as Go computes them: a value of w bits is    *)
(* its bit pattern, a number of 0 .. 2^w-1, which S reads as a signed one. *)
(* A byte has ByteBits bits: 8 in the program, and 2 for TLC, so that the  *)
(* edges of every width lie close together: i8 has 2, i16 4, i32 8 and i64 *)
(* 16 bits then.                                                           *)
(***************************************************************************)
EXTENDS Integers, FiniteSets

CONSTANT ByteBits

ASSUME ByteBitsAssumption == ByteBits \in Nat \ {0}

\* Bytes of each number type, and its width in bits.
Bytes == [i8 |-> 1, i16 |-> 2, i32 |-> 4, i64 |-> 8, f32 |-> 4, f64 |-> 8, v128 |-> 16]
Width(t) == ByteBits * Bytes[t]

\* An integer cut to w bits, and a bit pattern read as a signed integer.
U(w, v) == v % 2^w
S(w, x) == IF x < 2^(w - 1) THEN x ELSE x - 2^w
SignExtend(from, to, x) == U(to, S(from, U(from, x)))

Abs(v) == IF v < 0 THEN -v ELSE v
Least(a, b) == IF a < b THEN a ELSE b
Greatest(a, b) == IF a > b THEN a ELSE b
Clamp(v, lo, hi) == Greatest(lo, Least(v, hi))

\* Go's / and % truncate towards zero.
Quot(a, b) == LET q == Abs(a) \div Abs(b) IN IF (a < 0) = (b < 0) THEN q ELSE -q
Rem(a, b) == a - b * Quot(a, b)

\* The number with n digits of b bits each, d[0] the lowest.
Number(b, n, d) ==
  LET upTo[k \in 0 .. n] == IF k = 0 THEN 0 ELSE upTo[k - 1] + d[k - 1] * 2^(b * (k - 1)) IN upTo[n]

Bit(x, i) == (x \div 2^i) % 2
And(w, a, b) == Number(1, w, [i \in 0 .. w - 1 |-> Least(Bit(a, i), Bit(b, i))])
Or(w, a, b) == Number(1, w, [i \in 0 .. w - 1 |-> Greatest(Bit(a, i), Bit(b, i))])
Xor(w, a, b) == Number(1, w, [i \in 0 .. w - 1 |-> (Bit(a, i) + Bit(b, i)) % 2])

BitsSet(w, x) == {i \in 0 .. w - 1 : Bit(x, i) = 1}
NotBits(w, x) == 2^w - 1 - x

Shl(w, x, k) == IF k >= w THEN 0 ELSE (x % 2^(w - k)) * 2^k
ShrU(w, x, k) == x \div 2^k
ShrS(w, x, k) == U(w, S(w, x) \div 2^k)
RotateLeft(w, x, k) == LET n == k % w IN Shl(w, x, n) + x \div 2^(w - n)

LeadingZeros(w, x) == Cardinality({i \in 0 .. w - 1 : x < 2^i})
TrailingZeros(w, x) == Cardinality({i \in 1 .. w : x % 2^i = 0})

\* The result of an operation that traps; every other result is a pattern.
Trap == -1

Bool(b) == IF b THEN 1 ELSE 0

-----------------------------------------------------------------------------
DivTrapsOnZero(w, op, a, b) == b = 0
DivTraps(w, op, a, b) ==
  \/ b = 0
  \/ op = "div_s" /\ a = 2^(w - 1) /\ b = 2^w - 1

IntBinary(w, op, a, b) ==
  CASE op = "add" -> U(w, a + b)
    [] op = "sub" -> U(w, a - b)
    [] op = "mul" -> U(w, S(w, a) * S(w, b))
    [] op \in {"div_s", "div_u", "rem_s", "rem_u"} /\ DivTraps(w, op, a, b) -> Trap
    [] op = "div_s" /\ ~DivTraps(w, op, a, b) -> U(w, Quot(S(w, a), S(w, b)))
    [] op = "div_u" /\ ~DivTraps(w, op, a, b) -> a \div b
    [] op = "rem_s" /\ ~DivTraps(w, op, a, b) -> U(w, Rem(S(w, a), S(w, b)))
    [] op = "rem_u" /\ ~DivTraps(w, op, a, b) -> a % b
    [] op = "and" -> And(w, a, b)
    [] op = "or" -> Or(w, a, b)
    [] op = "xor" -> Xor(w, a, b)
    [] op = "shl" -> Shl(w, a, b % w)
    [] op = "shr_s" -> ShrS(w, a, b % w)
    [] op = "shr_u" -> ShrU(w, a, b % w)
    [] op = "rotl" -> RotateLeft(w, a, b % w)
    [] op = "rotr" -> RotateLeft(w, a, -(b % w))

IntUnary(w, op, a) ==
  CASE op = "clz" -> LeadingZeros(w, a)
    [] op = "ctz" -> TrailingZeros(w, a)
    [] op = "popcnt" -> Cardinality(BitsSet(w, a))
    [] op = "extend8_s" -> SignExtend(Width("i8"), w, a)
    [] op = "extend16_s" -> SignExtend(Width("i16"), w, a)
    [] op = "extend32_s" -> SignExtend(Width("i32"), w, a)

Relates(op, x, y) ==
  CASE op = "eq" -> x = y
    [] op = "ne" -> x # y
    [] op \in {"lt", "lt_s", "lt_u"} -> x < y
    [] op \in {"le", "le_s", "le_u"} -> x <= y
    [] op \in {"gt", "gt_s", "gt_u"} -> x > y
    [] op \in {"ge", "ge_s", "ge_u"} -> x >= y

SignedCompares == {"lt_s", "le_s", "gt_s", "ge_s"}
IntCompare(w, op, a, b) ==
  IF op \in SignedCompares THEN Relates(op, S(w, a), S(w, b)) ELSE Relates(op, a, b)

Compares == {"eq", "ne", "lt_s", "lt_u", "le_s", "le_u", "gt_s", "gt_u", "ge_s", "ge_u"}
Arithmetic == {"add", "sub", "mul", "div_s", "div_u", "rem_s", "rem_u", "and", "or", "xor",
               "shl", "shr_s", "shr_u", "rotl", "rotr"}

evalI32Binary(op, lhs, rhs) ==
  IF op \in Compares THEN Bool(IntCompare(Width("i32"), op, lhs, rhs))
  ELSE IntBinary(Width("i32"), op, lhs, rhs)
evalI32Unary(op, v) == IntUnary(Width("i32"), op, v)
evalI64Binary(op, lhs, rhs) == IntBinary(Width("i64"), op, lhs, rhs)
evalI64Compare(op, lhs, rhs) == Bool(IntCompare(Width("i64"), op, lhs, rhs))
evalI64Unary(op, v) == IntUnary(Width("i64"), op, v)
=============================================================================
