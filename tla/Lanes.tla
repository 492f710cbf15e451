-------------------------------- MODULE Lanes --------------------------------
(***************************************************************************)
(* The 128-bit vectors: 16 bytes, seen as 16, 8, 4 or 2 little-endian      *)
(* lanes. One definition per function of execute.go.                       *)
(***************************************************************************)
EXTENDS Floats, Sequences

VectorBytes == 16
Byte == 0 .. 2^ByteBits - 1
LaneBytes == [i8x16 |-> 1, i16x8 |-> 2, i32x4 |-> 4, i64x2 |-> 8, f32x4 |-> 4, f64x2 |-> 8]
Lanes(n) == 0 .. (VectorBytes \div n) - 1

\* The little-endian number in bytes first .. first+n-1, and its bytes again.
Word(bytes, first, n) == Number(ByteBits, n, [k \in 0 .. n - 1 |-> bytes[first + k]])
ByteAt(x, k) == (x \div 2^(ByteBits * k)) % 2^ByteBits

Lane(v, n, i) == Word(v, n * i + 1, n)
Pack(n, lanes) == [k \in 1 .. VectorBytes |-> ByteAt(lanes[(k - 1) \div n], (k - 1) % n)]
ZeroVector == [k \in 1 .. VectorBytes |-> 0]

Each(n, v, Op(_)) == Pack(n, [i \in Lanes(n) |-> Op(Lane(v, n, i))])
Pairwise(n, v, w, Op(_, _)) == Pack(n, [i \in Lanes(n) |-> Op(Lane(v, n, i), Lane(w, n, i))])

-----------------------------------------------------------------------------
(* Splat, extract, replace, shuffle.                                       *)

splatV128(n, raw) == Pack(n, [i \in Lanes(n) |-> U(n * ByteBits, raw)])
evalV128Splat(shape, x) == splatV128(LaneBytes[shape], x)

LaneType == [i8x16 |-> "i32", i16x8 |-> "i32", i32x4 |-> "i32", i64x2 |-> "i64",
             f32x4 |-> "f32", f64x2 |-> "f64"]
v128LaneByteOffset(n, lane) == n * lane
evalV128ExtractLane(shape, how, lane, v) ==
  LET n == LaneBytes[shape]
      raw == Word(v, v128LaneByteOffset(n, lane) + 1, n)
  IN  IF how = "s" THEN SignExtend(n * ByteBits, Width(LaneType[shape]), raw) ELSE raw
evalV128ReplaceLane(shape, lane, v, scalar) ==
  LET n == LaneBytes[shape]
      first == v128LaneByteOffset(n, lane) + 1
  IN  [k \in 1 .. VectorBytes |-> IF k \in first .. first + n - 1 THEN ByteAt(scalar, k - first) ELSE v[k]]

\* lanes: which of the 32 bytes of lhs and rhs goes to each place.
evalI8x16Shuffle(lanes, lhs, rhs) ==
  [k \in 1 .. VectorBytes |->
     IF lanes[k] < VectorBytes THEN lhs[lanes[k] + 1] ELSE rhs[lanes[k] - VectorBytes + 1]]
\* The index is a whole byte. Where bytes are so short that it always is in
\* range, it counts in steps of IndexStep, up to beyond the last lane.
CONSTANT IndexStep
ASSUME IndexStepAssumption == IndexStep \in Nat \ {0}

swizzleI8x16(lhs, rhs) ==
  [k \in 1 .. VectorBytes |->
     LET lane == IndexStep * rhs[k] IN IF lane < VectorBytes THEN lhs[lane + 1] ELSE 0]

-----------------------------------------------------------------------------
(* Shifts, tests and unary operations.                                     *)

ShiftLanes(n, op, v, count) ==
  LET w == n * ByteBits
      Shift(x) == CASE op = "shl" -> Shl(w, x, count)
                    [] op = "shr_s" -> ShrS(w, x, count)
                    [] op = "shr_u" -> ShrU(w, x, count)
  IN  Each(n, v, Shift)
shiftI8x16(op, v, count) == ShiftLanes(1, op, v, count)
shiftI16x8(op, v, count) == ShiftLanes(2, op, v, count)
shiftI32x4(op, v, count) == ShiftLanes(4, op, v, count)
shiftI64x2(op, v, count) == ShiftLanes(8, op, v, count)
\* The count is taken modulo the width of a lane.
evalV128Shift(shape, op, v, count) ==
  CASE shape = "i8x16" -> shiftI8x16(op, v, count % ByteBits)
    [] shape = "i16x8" -> shiftI16x8(op, v, count % (2 * ByteBits))
    [] shape = "i32x4" -> shiftI32x4(op, v, count % (4 * ByteBits))
    [] shape = "i64x2" -> shiftI64x2(op, v, count % (8 * ByteBits))

v128AnyTrue(v) == \E k \in 1 .. VectorBytes : v[k] # 0
v128AllTrue(v, n) == \A i \in Lanes(n) : Lane(v, n, i) # 0
v128Bitmask(v, n) ==
  Number(1, VectorBytes \div n, [i \in Lanes(n) |-> Lane(v, n, i) \div 2^(n * ByteBits - 1)])
evalV128Test(shape, op, v) ==
  CASE op = "any_true" -> Bool(v128AnyTrue(v))
    [] op = "all_true" -> Bool(v128AllTrue(v, LaneBytes[shape]))
    [] op = "bitmask" -> v128Bitmask(v, LaneBytes[shape])

notV128(v) == [k \in 1 .. VectorBytes |-> NotBits(ByteBits, v[k])]
NegLanes(n, v) == LET Neg(x) == U(n * ByteBits, -x) IN Each(n, v, Neg)
AbsLanes(n, v) ==
  LET AbsOf(x) == IF S(n * ByteBits, x) < 0 THEN U(n * ByteBits, -x) ELSE x IN Each(n, v, AbsOf)
negI8x16(v) == NegLanes(1, v)
negI16x8(v) == NegLanes(2, v)
negI32x4(v) == NegLanes(4, v)
negI64x2(v) == NegLanes(8, v)
absI8x16(v) == AbsLanes(1, v)
absI16x8(v) == AbsLanes(2, v)
absI32x4(v) == AbsLanes(4, v)
absI64x2(v) == AbsLanes(8, v)
popcntI8x16(v) == LET Ones(x) == Cardinality(BitsSet(ByteBits, x)) IN Each(1, v, Ones)

\* A lane of n bytes widened to one of twice as many.
Widen(n, how, x) == IF how = "s" THEN SignExtend(n * ByteBits, 2 * n * ByteBits, x) ELSE x
Half(n, half) == IF half = "high" THEN VectorBytes \div (2 * n) ELSE 0
ExtendLanes(n, half, how, v) ==
  Pack(2 * n, [i \in Lanes(2 * n) |-> Widen(n, how, Lane(v, n, Half(n, half) + i))])
extendI8x16ToI16x8(half, how, v) == ExtendLanes(1, half, how, v)
extendI16x8ToI32x4(half, how, v) == ExtendLanes(2, half, how, v)
extendI32x4ToI64x2(half, how, v) == ExtendLanes(4, half, how, v)
ExtaddLanes(n, how, v) ==
  Pack(2 * n, [i \in Lanes(2 * n) |->
                 U(2 * n * ByteBits, Widen(n, how, Lane(v, n, 2 * i)) + Widen(n, how, Lane(v, n, 2 * i + 1)))])
extaddPairwiseI8x16ToI16x8(how, v) == ExtaddLanes(1, how, v)
extaddPairwiseI16x8ToI32x4(how, v) == ExtaddLanes(2, how, v)

\* sqrt of what has no root is the canonical NaN, as for the scalars it need not be.
UnaryFloatLanes(f, op, v) ==
  LET Do(x) == IF op = "sqrt" /\ (IsNaN(f, x) \/ (IsNeg(f, x) /\ ~IsZero(f, x))) THEN CanonicalNaN(f)
               ELSE FloatUnary(f, op, x)
  IN  Each(Bytes[f], v, Do)
unaryF32x4(op, v) == UnaryFloatLanes("f32", op, v)
unaryF64x2(op, v) == UnaryFloatLanes("f64", op, v)

Read(n, how, x) == IF how = "s" THEN S(n * ByteBits, x) ELSE x
convertI32x4ToF32x4(how, v) == LET Do(x) == FloatOf("f32", Read(4, how, x)) IN Each(4, v, Do)
convertI32x4ToF64x2(how, v) ==
  Pack(8, [i \in Lanes(8) |-> FloatOf("f64", Read(4, how, Lane(v, 4, i)))])
promoteLowF32x4ToF64x2(v) == Pack(8, [i \in Lanes(8) |-> promoteF32BitsToF64Bits(Lane(v, 4, i))])
LowLanes(Op(_), v) == Pack(4, [i \in Lanes(4) |-> IF i < 2 THEN Op(Lane(v, 8, i)) ELSE 0])
demoteF64x2ToF32x4Zero(v) == LowLanes(demoteF64BitsToF32Bits, v)
TruncSat(f, how, x) == IF how = "s" THEN truncSatFloatToI32S(f, x) ELSE truncSatFloatToI32U(f, x)
truncSatF32x4ToI32x4(how, v) == LET Do(x) == TruncSat("f32", how, x) IN Each(4, v, Do)
truncSatF64x2ToI32x4Zero(how, v) == LET Do(x) == TruncSat("f64", how, x) IN LowLanes(Do, v)

\* ins.from, ins.half and ins.how qualify the operation: extend_low_i8x16_s.
evalV128Unary(ins, v) ==
  LET shape == ins.shape
      op == ins.op
  IN
  CASE op = "not" -> notV128(v)
    [] op = "popcnt" -> popcntI8x16(v)
    [] op = "abs" /\ shape = "i8x16" -> absI8x16(v)
    [] op = "abs" /\ shape = "i16x8" -> absI16x8(v)
    [] op = "abs" /\ shape = "i32x4" -> absI32x4(v)
    [] op = "abs" /\ shape = "i64x2" -> absI64x2(v)
    [] op = "neg" /\ shape = "i8x16" -> negI8x16(v)
    [] op = "neg" /\ shape = "i16x8" -> negI16x8(v)
    [] op = "neg" /\ shape = "i32x4" -> negI32x4(v)
    [] op = "neg" /\ shape = "i64x2" -> negI64x2(v)
    [] op = "extadd_pairwise" /\ shape = "i16x8" -> extaddPairwiseI8x16ToI16x8(ins.how, v)
    [] op = "extadd_pairwise" /\ shape = "i32x4" -> extaddPairwiseI16x8ToI32x4(ins.how, v)
    [] op = "extend" /\ shape = "i16x8" -> extendI8x16ToI16x8(ins.half, ins.how, v)
    [] op = "extend" /\ shape = "i32x4" -> extendI16x8ToI32x4(ins.half, ins.how, v)
    [] op = "extend" /\ shape = "i64x2" -> extendI32x4ToI64x2(ins.half, ins.how, v)
    [] shape = "f32x4" /\ op \in {"abs", "neg", "sqrt", "ceil", "floor", "trunc", "nearest"} -> unaryF32x4(op, v)
    [] shape = "f64x2" /\ op \in {"abs", "neg", "sqrt", "ceil", "floor", "trunc", "nearest"} -> unaryF64x2(op, v)
    [] op = "convert" /\ shape = "f32x4" -> convertI32x4ToF32x4(ins.how, v)
    [] op = "convert" /\ shape = "f64x2" -> convertI32x4ToF64x2(ins.how, v)
    [] op = "demote" -> demoteF64x2ToF32x4Zero(v)
    [] op = "promote" -> promoteLowF32x4ToF64x2(v)
    [] op \in {"trunc_sat", "relaxed_trunc"} /\ ins.from = "f32x4" -> truncSatF32x4ToI32x4(ins.how, v)
    [] op \in {"trunc_sat", "relaxed_trunc"} /\ ins.from = "f64x2" -> truncSatF64x2ToI32x4Zero(ins.how, v)

-----------------------------------------------------------------------------
(* Binary operations, comparisons and ternary operations.                  *)

bitwiseV128(op, v, w) ==
  [k \in 1 .. VectorBytes |->
     CASE op = "and" -> And(ByteBits, v[k], w[k])
       [] op = "andnot" -> And(ByteBits, v[k], NotBits(ByteBits, w[k]))
       [] op = "or" -> Or(ByteBits, v[k], w[k])
       [] op = "xor" -> Xor(ByteBits, v[k], w[k])]

clampIntBelow(v, lo, hi) == IF v < lo THEN lo ELSE v
clampInt(v, lo, hi) == IF v < lo THEN lo ELSE IF v > hi THEN hi ELSE v
\* v clamped to the range of a lane of w bits, signed or unsigned.
Saturate(w, how, v) ==
  IF how = "s" THEN U(w, clampInt(v, -(2^(w - 1)), 2^(w - 1) - 1)) ELSE clampInt(v, 0, 2^w - 1)
NarrowLanes(n, how, v, w) ==
  LET half == VectorBytes \div (2 * n)
      wide(i) == S(2 * n * ByteBits, IF i >= half THEN Lane(w, 2 * n, i - half) ELSE Lane(v, 2 * n, i))
  IN  Pack(n, [i \in Lanes(n) |-> Saturate(n * ByteBits, how, wide(i))])
narrowI16x8ToI8x16(how, v, w) == NarrowLanes(1, how, v, w)
narrowI32x4ToI16x8(how, v, w) == NarrowLanes(2, how, v, w)

LaneBinary(w, op, a, b) ==
  CASE op \in {"add", "sub", "mul"} -> IntBinary(w, op, a, b)
    [] op = "add_sat_s" -> Saturate(w, "s", S(w, a) + S(w, b))
    [] op = "add_sat_u" -> Saturate(w, "u", a + b)
    [] op = "sub_sat_s" -> Saturate(w, "s", S(w, a) - S(w, b))
    [] op = "sub_sat_u" -> Saturate(w, "u", a - b)
    [] op = "min_s" -> U(w, Least(S(w, a), S(w, b)))
    [] op = "min_u" -> Least(a, b)
    [] op = "max_s" -> U(w, Greatest(S(w, a), S(w, b)))
    [] op = "max_u" -> Greatest(a, b)
    [] op = "avgr_u" -> (a + b + 1) \div 2
BinaryLanes(n, op, v, w) == LET Do(a, b) == LaneBinary(n * ByteBits, op, a, b) IN Pairwise(n, v, w, Do)
binaryI8x16(op, v, w) == BinaryLanes(1, op, v, w)
binaryI16x8(op, v, w) == BinaryLanes(2, op, v, w)
binaryI32x4(op, v, w) == BinaryLanes(4, op, v, w)
binaryI64x2(op, v, w) == BinaryLanes(8, op, v, w)

\* (a*b + 0x4000) >> 15 at the width of a lane, cut off at the greatest value.
q15mulrSatI16x8(v, w) ==
  LET bits == 2 * ByteBits
      Do(a, b) == U(bits, Least((S(bits, a) * S(bits, b) + 2^(bits - 2)) \div 2^(bits - 1), 2^(bits - 1) - 1))
  IN  Pairwise(2, v, w, Do)

ExtmulLanes(n, half, how, v, w) ==
  LET Factor(x, i) == Read(n, how, Lane(x, n, Half(n, half) + i))
  IN  Pack(2 * n, [i \in Lanes(2 * n) |-> U(2 * n * ByteBits, Factor(v, i) * Factor(w, i))])
extmulI8x16ToI16x8(half, how, v, w) == ExtmulLanes(1, half, how, v, w)
extmulI16x8ToI32x4(half, how, v, w) == ExtmulLanes(2, half, how, v, w)
extmulI32x4ToI64x2(half, how, v, w) == ExtmulLanes(4, half, how, v, w)

\* Products of n-byte lanes k*i .. k*i+k-1.
Dot(n, k, v, w, i) ==
  LET upTo[j \in 0 .. k] ==
        IF j = 0 THEN 0
        ELSE upTo[j - 1] + S(n * ByteBits, Lane(v, n, k * i + j - 1)) * S(n * ByteBits, Lane(w, n, k * i + j - 1))
  IN  upTo[k]
dotI16x8ToI32x4(v, w) == Pack(4, [i \in Lanes(4) |-> U(4 * ByteBits, Dot(2, 2, v, w, i))])
relaxedDotI8x16ToI16x8(v, w) == Pack(2, [i \in Lanes(2) |-> U(2 * ByteBits, Dot(1, 2, v, w, i))])
relaxedDotAddI8x16ToI32x4(v, w, acc) ==
  Pack(4, [i \in Lanes(4) |-> U(4 * ByteBits, Dot(1, 4, v, w, i) + Lane(acc, 4, i))])

binaryF32x4(op, v, w) == LET Do(a, b) == binaryF32(op, a, b) IN Pairwise(4, v, w, Do)
binaryF64x2(op, v, w) == LET Do(a, b) == binaryF64(op, a, b) IN Pairwise(8, v, w, Do)

evalV128Binary(ins, v, w) ==
  LET shape == ins.shape
      op == ins.op
  IN
  CASE op \in {"swizzle", "relaxed_swizzle"} -> swizzleI8x16(v, w)
    [] op \in {"and", "andnot", "or", "xor"} -> bitwiseV128(op, v, w)
    [] op = "narrow" /\ shape = "i8x16" -> narrowI16x8ToI8x16(ins.how, v, w)
    [] op = "narrow" /\ shape = "i16x8" -> narrowI32x4ToI16x8(ins.how, v, w)
    [] op \in {"q15mulr_sat_s", "relaxed_q15mulr_s"} -> q15mulrSatI16x8(v, w)
    [] op = "relaxed_dot_i8x16_i7x16_s" -> relaxedDotI8x16ToI16x8(v, w)
    [] op = "dot_i16x8_s" -> dotI16x8ToI32x4(v, w)
    [] op = "extmul" /\ shape = "i16x8" -> extmulI8x16ToI16x8(ins.half, ins.how, v, w)
    [] op = "extmul" /\ shape = "i32x4" -> extmulI16x8ToI32x4(ins.half, ins.how, v, w)
    [] op = "extmul" /\ shape = "i64x2" -> extmulI32x4ToI64x2(ins.half, ins.how, v, w)
    [] shape = "f32x4" -> binaryF32x4(op, v, w)
    [] shape = "f64x2" -> binaryF64x2(op, v, w)
    [] OTHER -> CASE shape = "i8x16" -> binaryI8x16(op, v, w)
                  [] shape = "i16x8" -> binaryI16x8(op, v, w)
                  [] shape = "i32x4" -> binaryI32x4(op, v, w)
                  [] shape = "i64x2" -> binaryI64x2(op, v, w)

boolMask(w, ok) == IF ok THEN 2^w - 1 ELSE 0
CompareLanes(n, op, v, w) ==
  LET Do(a, b) == boolMask(n * ByteBits, IntCompare(n * ByteBits, op, a, b)) IN Pairwise(n, v, w, Do)
compareI8x16(op, v, w) == CompareLanes(1, op, v, w)
compareI16x8(op, v, w) == CompareLanes(2, op, v, w)
compareI32x4(op, v, w) == CompareLanes(4, op, v, w)
compareI64x2(op, v, w) == CompareLanes(8, op, v, w)
compareF32x4(op, v, w) ==
  LET Do(a, b) == boolMask(Width("f32"), FloatRelates("f32", op, a, b)) IN Pairwise(4, v, w, Do)
compareF64x2(op, v, w) ==
  LET Do(a, b) == boolMask(Width("f64"), FloatRelates("f64", op, a, b)) IN Pairwise(8, v, w, Do)
evalV128Compare(shape, op, v, w) ==
  CASE shape = "i8x16" -> compareI8x16(op, v, w)
    [] shape = "i16x8" -> compareI16x8(op, v, w)
    [] shape = "i32x4" -> compareI32x4(op, v, w)
    [] shape = "i64x2" -> compareI64x2(op, v, w)
    [] shape = "f32x4" -> compareF32x4(op, v, w)
    [] shape = "f64x2" -> compareF64x2(op, v, w)

bitselectV128(a, b, mask) ==
  [k \in 1 .. VectorBytes |-> Or(ByteBits, And(ByteBits, a[k], mask[k]), And(ByteBits, b[k], NotBits(ByteBits, mask[k])))]
\* Product and sum are rounded one after the other. Their NaN is not made canonical.
RelaxedMadd(f, op, a, b, c) ==
  LET Nan(x, y) == IF IsNaN(f, x) THEN Quiet(f, x) ELSE Quiet(f, y)
      Product(x, y) == IF IsNaN(f, x) \/ IsNaN(f, y) THEN Nan(x, y) ELSE Mul(f, x, y)
      Sum(x, y) == IF IsNaN(f, x) \/ IsNaN(f, y) THEN Nan(x, y) ELSE Add(f, x, y)
      Do(x, y, z) == Sum(IF op = "relaxed_nmadd" THEN Negate(f, Product(x, y)) ELSE Product(x, y), z)
      n == Bytes[f]
  IN  Pack(n, [i \in Lanes(n) |-> Do(Lane(a, n, i), Lane(b, n, i), Lane(c, n, i))])
relaxedMaddF32x4(op, a, b, c) == RelaxedMadd("f32", op, a, b, c)
relaxedMaddF64x2(op, a, b, c) == RelaxedMadd("f64", op, a, b, c)
evalV128Ternary(shape, op, a, b, c) ==
  CASE op \in {"bitselect", "relaxed_laneselect"} -> bitselectV128(a, b, c)
    [] op \in {"relaxed_madd", "relaxed_nmadd"} /\ shape = "f32x4" -> relaxedMaddF32x4(op, a, b, c)
    [] op \in {"relaxed_madd", "relaxed_nmadd"} /\ shape = "f64x2" -> relaxedMaddF64x2(op, a, b, c)
    [] op = "relaxed_dot_i8x16_i7x16_add_s" -> relaxedDotAddI8x16ToI32x4(a, b, c)
=============================================================================
