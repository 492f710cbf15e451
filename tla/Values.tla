-------------------------------- MODULE Values --------------------------------
(***************************************************************************)
(* Numeric, vector, memory and table instructions on operands with values: *)
(* the executor pops what it expects, computes, and pushes; the validator  *)
(* has promised, by the signatures of the catalogue and its own rules for  *)
(* memories and tables, which types are there and which are left.          *)
(***************************************************************************)
EXTENDS Lanes, SequencesExt

CONSTANTS Programs,    \* the sequences of instructions that are run
          Samples,     \* the values of each type that are tried as operands
          Areas,       \* memories, tables and segments as instantiated
          Largest      \* products of integers up to this one are compared, which TLC holds in 32 bits

VARIABLES prog,        \* the instructions
          args,        \* the operands on the stack before them
          pc,
          stack,
          areas,
          out          \* "run", "done", "trap", or "fault": an operand is missing or mistyped
vars == <<prog, args, pc, stack, areas, out>>

-----------------------------------------------------------------------------
(* What the validator knows: types popped, bottom first, and pushed.       *)

AddressType(area) == Areas[area].at
Both64(a, b) == IF AddressType(a) = "i64" /\ AddressType(b) = "i64" THEN "i64" ELSE "i32"
Effect(params, results) == [params |-> params, results |-> results]

\* The fixed signatures of the catalogue.
NumericSig(ins) ==
  CASE ins.class = "eqz" -> Effect(<<ins.t>>, <<"i32">>)
    [] ins.class = "unary" -> Effect(<<ins.t>>, <<ins.t>>)
    [] ins.class = "binary" -> Effect(<<ins.t, ins.t>>, <<ins.t>>)
    [] ins.class = "compare" -> Effect(<<ins.t, ins.t>>, <<"i32">>)
    [] ins.class = "convert" -> Effect(<<ins.from>>, <<ins.t>>)
VectorSig(ins) ==
  CASE ins.class = "splat" -> Effect(<<LaneType[ins.shape]>>, <<"v128">>)
    [] ins.class = "vtest" -> Effect(<<"v128">>, <<"i32">>)
    [] ins.class = "vunary" -> Effect(<<"v128">>, <<"v128">>)
    [] ins.class \in {"vbinary", "vcompare"} -> Effect(<<"v128", "v128">>, <<"v128">>)
    [] ins.class = "vshift" -> Effect(<<"v128", "i32">>, <<"v128">>)
    [] ins.class = "vternary" -> Effect(<<"v128", "v128", "v128">>, <<"v128">>)

\* The rules that are written out in the validator.
ConstRule(ins) == Effect(<<>>, <<ins.t>>)
ShuffleRule(ins) == Effect(<<"v128", "v128">>, <<"v128">>)
ExtractRule(ins) == Effect(<<"v128">>, <<LaneType[ins.shape]>>)
ReplaceRule(ins) == Effect(<<"v128", LaneType[ins.shape]>>, <<"v128">>)
LoadRule(ins) == Effect(<<AddressType(ins.area)>>, <<ins.t>>)
StoreRule(ins) == Effect(<<AddressType(ins.area), ins.t>>, <<>>)
LaneRule(ins) == Effect(<<AddressType(ins.area), "v128">>, IF ins.class = "loadlane" THEN <<"v128">> ELSE <<>>)

MemoryRule(ins) ==
  LET at == AddressType(ins.area)
  IN  CASE ins.class = "memory.size" -> Effect(<<>>, <<at>>)
        [] ins.class = "memory.grow" -> Effect(<<at>>, <<at>>)
        [] ins.class = "memory.copy" -> Effect(<<at, AddressType(ins.from), at>>, <<>>)
        [] ins.class = "memory.init" -> Effect(<<at, "i32", "i32">>, <<>>)
        [] ins.class = "memory.fill" -> Effect(<<at, "i32", at>>, <<>>)
        [] ins.class = "data.drop" -> Effect(<<>>, <<>>)

TableRule(ins) ==
  LET at == AddressType(ins.area)
  IN  CASE ins.class = "table.get" -> Effect(<<at>>, <<"ref">>)
        [] ins.class = "table.set" -> Effect(<<at, "ref">>, <<>>)
        [] ins.class = "table.size" -> Effect(<<>>, <<at>>)
        [] ins.class = "table.grow" -> Effect(<<"ref", at>>, <<at>>)
        [] ins.class = "table.copy" -> Effect(<<at, AddressType(ins.from), Both64(ins.area, ins.from)>>, <<>>)
        [] ins.class = "table.init" -> Effect(<<at, "i32", "i32">>, <<>>)
        [] ins.class = "table.fill" -> Effect(<<at, "ref", at>>, <<>>)
        [] ins.class = "elem.drop" -> Effect(<<>>, <<>>)

Loads == {"load", "vload", "loadsplat", "loadextend", "loadzero"}
MemoryClasses == {"memory.size", "memory.grow", "memory.copy", "memory.init", "memory.fill", "data.drop"}
TableClasses == {"table.get", "table.set", "table.size", "table.grow", "table.copy", "table.init",
                 "table.fill", "elem.drop"}
Sig(ins) ==
  IF ins.class \in Loads THEN LoadRule(ins)
  ELSE IF ins.class = "store" THEN StoreRule(ins)
  ELSE IF ins.class \in {"loadlane", "storelane"} THEN LaneRule(ins)
  ELSE IF ins.class \in MemoryClasses THEN MemoryRule(ins)
  ELSE IF ins.class \in TableClasses THEN TableRule(ins)
  ELSE IF ins.class = "const" THEN ConstRule(ins)
  ELSE IF ins.class = "shuffle" THEN ShuffleRule(ins)
  ELSE IF ins.class = "extract" THEN ExtractRule(ins)
  ELSE IF ins.class = "replace" THEN ReplaceRule(ins)
  ELSE IF ins.class \in {"eqz", "unary", "binary", "compare", "convert"} THEN NumericSig(ins)
  ELSE VectorSig(ins)

\* Types left by an instruction on a stack that has these types.
After(types, ins) ==
  SubSeq(types, 1, Len(types) - Len(Sig(ins).params)) \o Sig(ins).results
\* What a program of one or two instructions needs on the stack.
Needs(p) ==
  IF Len(p) = 1 THEN Sig(p[1]).params
  ELSE LET left == Sig(p[2]).params
       IN  SubSeq(left, 1, Len(left) - Len(Sig(p[1]).results)) \o Sig(p[1]).params
Types(p) ==
  LET upTo[k \in 1 .. Len(p) + 1] == IF k = 1 THEN Needs(p) ELSE After(upTo[k - 1], p[k - 1]) IN upTo

-----------------------------------------------------------------------------
(* The programs, operands and areas that can be given.                     *)

ValueTypes == {"i32", "i64", "f32", "f64", "v128", "ref"}
ASSUME SamplesAssumption ==
  /\ \A t \in {"i32", "i64", "f32", "f64"} : Samples[t] \subseteq 0 .. 2^Width(t) - 1
  /\ Samples["v128"] \subseteq [1 .. VectorBytes -> Byte] /\ Samples["ref"] \subseteq Nat

\* A memory or table is a sequence of cells, and its size in its own units is a
\* number of its index type.
ASSUME AreasAssumption ==
  /\ Areas \in [DOMAIN Areas -> [at : {"i32", "i64"}, unit : Nat \ {0}, max : Nat, data : Seq(Nat)]]
  /\ \A a \in DOMAIN Areas :
       LET n == Len(Areas[a].data)
       IN  n <= 2^Width("i64") /\ n \div Areas[a].unit < 2^Width(Areas[a].at)

memoryAccessSize(how) == CASE how = "8" -> 1 [] how = "16" -> 2 [] how = "32" -> 4 [] how = "64" -> 8

\* The operations that the catalogue has.
SizesOf == [i32 |-> {"8", "16", "32"}, i64 |-> {"8", "16", "32", "64"}, f32 |-> {"32"}, f64 |-> {"64"}]
UnaryOps == [i32 |-> {"clz", "ctz", "popcnt", "extend8_s", "extend16_s"},
             i64 |-> {"clz", "ctz", "popcnt", "extend8_s", "extend16_s", "extend32_s"}]
\* From which type to which each conversion goes.
Conversions == LET ints == {"i32", "i64"}
                   floats == {"f32", "f64"}
               IN  [wrap |-> {<<"i64", "i32">>}, extend |-> {<<"i32", "i64">>},
                    trunc |-> floats \X ints, trunc_sat |-> floats \X ints, convert |-> ints \X floats,
                    promote |-> {<<"f32", "f64">>}, demote |-> {<<"f64", "f32">>},
                    reinterpret |-> {<<"i32", "f32">>, <<"f32", "i32">>, <<"i64", "f64">>, <<"f64", "i64">>}]
FloatUnaries == {"abs", "neg", "sqrt", "ceil", "floor", "trunc", "nearest"}
FloatBinaries == {"add", "sub", "mul", "div", "min", "max", "copysign"}
IntShapes == {"i8x16", "i16x8", "i32x4", "i64x2"}
FloatShapes == {"f32x4", "f64x2"}
HasVectorUnary(op, shape, from) ==
  \/ op \in {"not", "popcnt"} /\ shape = "i8x16"
  \/ op \in {"abs", "neg"} /\ shape \in IntShapes \cup FloatShapes
  \/ op = "extadd_pairwise" /\ shape \in {"i16x8", "i32x4"}
  \/ op = "extend" /\ shape \in {"i16x8", "i32x4", "i64x2"}
  \/ op \in {"sqrt", "ceil", "floor", "trunc", "nearest", "convert"} /\ shape \in FloatShapes
  \/ op = "demote" /\ shape = "f32x4"
  \/ op = "promote" /\ shape = "f64x2"
  \/ op \in {"trunc_sat", "relaxed_trunc"} /\ shape = "i32x4" /\ from \in FloatShapes
HasVectorBinary(op, shape) ==
  \/ op \in {"swizzle", "relaxed_swizzle", "and", "andnot", "or", "xor"} /\ shape = "i8x16"
  \/ op = "narrow" /\ shape \in {"i8x16", "i16x8"}
  \/ op \in {"add", "sub"} /\ shape \in IntShapes
  \/ op = "mul" /\ shape \in IntShapes \ {"i8x16"}
  \/ op \in {"add_sat_s", "add_sat_u", "sub_sat_s", "sub_sat_u", "avgr_u"} /\ shape \in {"i8x16", "i16x8"}
  \/ op \in {"min_s", "min_u", "max_s", "max_u"} /\ shape \in {"i8x16", "i16x8", "i32x4"}
  \/ op \in {"q15mulr_sat_s", "relaxed_q15mulr_s", "relaxed_dot_i8x16_i7x16_s"} /\ shape = "i16x8"
  \/ op = "dot_i16x8_s" /\ shape = "i32x4"
  \/ op = "extmul" /\ shape \in {"i16x8", "i32x4", "i64x2"}
  \/ op \in {"min", "max", "pmin", "pmax", "relaxed_min", "relaxed_max", "add", "sub", "mul", "div"}
     /\ shape \in FloatShapes
HasVectorTernary(op, shape) ==
  \/ op \in {"bitselect", "relaxed_laneselect"} /\ shape \in IntShapes
  \/ op \in {"relaxed_madd", "relaxed_nmadd"} /\ shape \in FloatShapes
  \/ op = "relaxed_dot_i8x16_i7x16_add_s" /\ shape = "i32x4"
HasVectorCompare(op, shape) ==
  \/ op \in Compares /\ shape \in IntShapes \ {"i64x2"}
  \/ op \in {"eq", "ne"} \cup SignedCompares /\ shape = "i64x2"
  \/ op \in {"eq", "ne", "lt", "gt", "le", "ge"} /\ shape \in FloatShapes
HasVectorOperation(i) ==
  CASE i.class = "splat" -> i.shape \in IntShapes \cup FloatShapes
    [] i.class \in {"extract", "replace"} ->
         i.shape \in IntShapes \cup FloatShapes /\ i.lane \in Lanes(LaneBytes[i.shape])
    [] i.class = "shuffle" -> i.bytes \in [1 .. VectorBytes -> 0 .. 2 * VectorBytes - 1]
    [] i.class = "vtest" -> i.shape \in IntShapes /\ i.op \in {"any_true", "all_true", "bitmask"}
    [] i.class = "vunary" -> HasVectorUnary(i.op, i.shape, i.from)
    [] i.class = "vbinary" -> HasVectorBinary(i.op, i.shape)
    [] i.class = "vshift" -> i.shape \in IntShapes /\ i.op \in {"shl", "shr_s", "shr_u"}
    [] i.class = "vcompare" -> HasVectorCompare(i.op, i.shape)
    [] i.class = "vternary" -> HasVectorTernary(i.op, i.shape)
    [] OTHER -> TRUE
HasOperation(i) ==
  CASE i.class = "binary" /\ i.t = "i32" -> i.op \in Arithmetic \cup Compares
    [] i.class = "binary" /\ i.t = "i64" -> i.op \in Arithmetic
    [] i.class = "compare" /\ i.t = "i64" -> i.op \in Compares
    [] i.class = "unary" /\ i.t \in {"i32", "i64"} -> i.op \in UnaryOps[i.t]
    [] i.class = "unary" /\ i.t \in {"f32", "f64"} -> i.op \in FloatUnaries
    [] i.class = "binary" /\ i.t \in {"f32", "f64"} -> i.op \in FloatBinaries
    [] i.class = "convert" -> i.op \in DOMAIN Conversions /\ <<i.from, i.t>> \in Conversions[i.op]
    [] i.class = "load" -> i.t \in DOMAIN SizesOf /\ i.size \in SizesOf[i.t]
    [] i.class = "store" -> i.t = "v128" \/ (i.t \in DOMAIN SizesOf /\ i.size \in SizesOf[i.t])
    [] i.class = "vload" -> i.t = "v128"
    [] i.class = "loadsplat" -> i.t = "v128" /\ i.size \in SizesOf["i64"]
    [] i.class = "loadextend" -> i.t = "v128" /\ i.size \in SizesOf["i32"]
    [] i.class = "loadzero" -> i.t = "v128" /\ i.size \in {"32", "64"}
    [] i.class \in {"loadlane", "storelane"} ->
         i.size \in SizesOf["i64"] /\ i.lane \in Lanes(memoryAccessSize(i.size))
    [] OTHER -> HasVectorOperation(i)

Accesses == Loads \cup {"store", "loadlane", "storelane"}
HasAreas(i) ==
  /\ i.class \in Accesses \cup MemoryClasses \cup TableClasses => i.area \in DOMAIN Areas
  /\ i.class \in {"memory.copy", "memory.init", "table.copy", "table.init"} => i.from \in DOMAIN Areas
  /\ i.class \in Accesses => Areas[i.area].data \in Seq(Byte) /\ i.offset \in 0 .. 2^Width("i64") - 1

\* One instruction, a store and a load after it, or anything after a segment is dropped.
ASSUME ProgramsAssumption ==
  \A p \in Programs :
    /\ p \in Seq(Range(p)) /\ Len(p) \in {1, 2}
    /\ \A i \in Range(p) :
         HasOperation(i) /\ HasAreas(i) /\ Sig(i) \in [params : Seq(ValueTypes), results : Seq(ValueTypes)]
    /\ Len(p) = 2 =>
         \/ p[1].class \in {"store", "storelane"} /\ p[2].class \in Loads \cup {"loadlane"}
         \/ p[1].class \in {"data.drop", "elem.drop"}

-----------------------------------------------------------------------------
(* The executor.                                                           *)

Pushed(stacks, t) == {Append(x[1], [t |-> t, v |-> x[2]]) : x \in stacks \X Samples[t]}
Operands(types) ==
  LET upTo[k \in 0 .. Len(types)] == IF k = 0 THEN {<<>>} ELSE Pushed(upTo[k - 1], types[k]) IN upTo[Len(types)]

Init ==
  /\ prog \in Programs
  /\ args \in Operands(Needs(prog))
  /\ pc = 1
  /\ stack = args
  /\ areas = Areas
  /\ out = "run"

ins == prog[pc]
At(class) == out = "run" /\ pc <= Len(prog) /\ ins.class = class

Stop(how) == out' = how /\ UNCHANGED <<prog, args, pc, stack, areas>>

\* want: the types popped, in the order in which they are popped.
popWant(want) ==
  /\ Len(stack) >= Len(want)
  /\ \A k \in DOMAIN want : stack[Len(stack) - k + 1].t = want[k]
Popped(want) == [k \in DOMAIN want |-> stack[Len(stack) - k + 1].v]

Advance(want, results, now) ==
  /\ stack' = SubSeq(stack, 1, Len(stack) - Len(want)) \o results
  /\ areas' = now
  /\ pc' = pc + 1
  /\ out' = IF pc = Len(prog) THEN "done" ELSE "run"
  /\ UNCHANGED <<prog, args>>

Compute(want, t, F(_)) ==
  IF ~popWant(want) THEN Stop("fault")
  ELSE LET r == F(Popped(want))
       IN  IF t # "v128" /\ r = Trap THEN Stop("trap")
           ELSE Advance(want, <<[t |-> t, v |-> r]>>, areas)

Const == At("const") /\ Compute(<<>>, ins.t, LAMBDA o : IF ins.t = "v128" THEN ins.bytes ELSE ins.imm)

I32Binary == At("binary") /\ ins.t = "i32" /\ Compute(<<"i32", "i32">>, "i32", LAMBDA o : evalI32Binary(ins.op, o[2], o[1]))
I32Eqz == At("eqz") /\ ins.t = "i32" /\ Compute(<<"i32">>, "i32", LAMBDA o : Bool(o[1] = 0))
I32Unary == At("unary") /\ ins.t = "i32" /\ Compute(<<"i32">>, "i32", LAMBDA o : evalI32Unary(ins.op, o[1]))
I64Binary == At("binary") /\ ins.t = "i64" /\ Compute(<<"i64", "i64">>, "i64", LAMBDA o : evalI64Binary(ins.op, o[2], o[1]))
I64Compare == At("compare") /\ ins.t = "i64" /\ Compute(<<"i64", "i64">>, "i32", LAMBDA o : evalI64Compare(ins.op, o[2], o[1]))
I64Eqz == At("eqz") /\ ins.t = "i64" /\ Compute(<<"i64">>, "i32", LAMBDA o : Bool(o[1] = 0))
I64Unary == At("unary") /\ ins.t = "i64" /\ Compute(<<"i64">>, "i64", LAMBDA o : evalI64Unary(ins.op, o[1]))
Convert ==
  At("convert") /\ Compute(<<ins.from>>, ins.t, LAMBDA o : evalConversion(ins.t, ins.op, ins.from, ins.how, o[1]))
F32Unary == At("unary") /\ ins.t = "f32" /\ Compute(<<"f32">>, "f32", LAMBDA o : evalF32Unary(ins.op, o[1]))
F32Binary == At("binary") /\ ins.t = "f32" /\ Compute(<<"f32", "f32">>, "f32", LAMBDA o : evalF32Binary(ins.op, o[2], o[1]))
F32Compare == At("compare") /\ ins.t = "f32" /\ Compute(<<"f32", "f32">>, "i32", LAMBDA o : evalF32Compare(ins.op, o[2], o[1]))
F64Unary == At("unary") /\ ins.t = "f64" /\ Compute(<<"f64">>, "f64", LAMBDA o : evalF64Unary(ins.op, o[1]))
F64Binary == At("binary") /\ ins.t = "f64" /\ Compute(<<"f64", "f64">>, "f64", LAMBDA o : evalF64Binary(ins.op, o[2], o[1]))
F64Compare == At("compare") /\ ins.t = "f64" /\ Compute(<<"f64", "f64">>, "i32", LAMBDA o : evalF64Compare(ins.op, o[2], o[1]))

Splat == At("splat") /\ Compute(<<LaneType[ins.shape]>>, "v128", LAMBDA o : evalV128Splat(ins.shape, o[1]))
ExtractLane ==
  At("extract") /\ Compute(<<"v128">>, LaneType[ins.shape], LAMBDA o : evalV128ExtractLane(ins.shape, ins.how, ins.lane, o[1]))
ReplaceLane ==
  At("replace") /\ Compute(<<LaneType[ins.shape], "v128">>, "v128", LAMBDA o : evalV128ReplaceLane(ins.shape, ins.lane, o[2], o[1]))
Shuffle == At("shuffle") /\ Compute(<<"v128", "v128">>, "v128", LAMBDA o : evalI8x16Shuffle(ins.bytes, o[2], o[1]))
VTest == At("vtest") /\ Compute(<<"v128">>, "i32", LAMBDA o : evalV128Test(ins.shape, ins.op, o[1]))
VUnary == At("vunary") /\ Compute(<<"v128">>, "v128", LAMBDA o : evalV128Unary(ins, o[1]))
VBinary == At("vbinary") /\ Compute(<<"v128", "v128">>, "v128", LAMBDA o : evalV128Binary(ins, o[2], o[1]))
VShift == At("vshift") /\ Compute(<<"i32", "v128">>, "v128", LAMBDA o : evalV128Shift(ins.shape, ins.op, o[2], o[1]))
VTernary ==
  At("vternary") /\ Compute(<<"v128", "v128", "v128">>, "v128", LAMBDA o : evalV128Ternary(ins.shape, ins.op, o[3], o[2], o[1]))
VCompare == At("vcompare") /\ Compute(<<"v128", "v128">>, "v128", LAMBDA o : evalV128Compare(ins.shape, ins.op, o[2], o[1]))

-----------------------------------------------------------------------------
(* Loads and stores.                                                       *)

popMemoryIndexOperand(m) == areas[m].at
\* base + offset, which must not pass the last 64-bit address.
OverflowsNever(base, offset) == FALSE
Overflows(base, offset) == base > 2^Width("i64") - 1 - offset
InBounds(m, a, n) == a <= Len(areas[m].data) /\ n <= Len(areas[m].data) - a

memoryLoad(m, a, n) == Word(areas[m].data, a + 1, n)
Written(m, a, bytes) ==
  [areas EXCEPT ![m].data = [k \in DOMAIN @ |-> IF k \in a + 1 .. a + Len(bytes) THEN bytes[k - a] ELSE @[k]]]
LowBytes(x, n) == [k \in 1 .. n |-> ByteAt(x, k - 1)]
AllBytes(m, a, n) == SubSeq(areas[m].data, a + 1, a + n)

\* The address is popped last; a load pushes, a store writes.
Address(want) == U(Width("i64"), Popped(want)[Len(want)] + ins.offset)
Access(want, n) ==
  /\ popWant(want)
  /\ ~Overflows(Popped(want)[Len(want)], ins.offset)
  /\ InBounds(ins.area, Address(want), n)
LoadBytes(want, t, n, F(_, _)) ==
  IF ~popWant(want) THEN Stop("fault")
  ELSE IF ~Access(want, n) THEN Stop("trap")
  ELSE Advance(want, <<[t |-> t, v |-> F(Popped(want), Address(want))]>>, areas)
StoreBytes(want, n, F(_)) ==
  IF ~popWant(want) THEN Stop("fault")
  ELSE IF ~Access(want, n) THEN Stop("trap")
  ELSE Advance(want, <<>>, Written(ins.area, Address(want), F(Popped(want))))

extendI32Load(n, how, raw) == IF how = "s" THEN SignExtend(n * ByteBits, Width("i32"), raw) ELSE raw
extendI64Load(n, how, raw) == IF how = "s" THEN SignExtend(n * ByteBits, Width("i64"), raw) ELSE raw

IndexOf(m) == popMemoryIndexOperand(m)
LoadInto(t, Extend(_, _, _)) ==
  LET n == memoryAccessSize(ins.size)
  IN  LoadBytes(<<IndexOf(ins.area)>>, t, n, LAMBDA o, a : Extend(n, ins.how, memoryLoad(ins.area, a, n)))
StoreFrom(t) ==
  LET n == memoryAccessSize(ins.size)
  IN  StoreBytes(<<t, IndexOf(ins.area)>>, n, LAMBDA o : LowBytes(o[1], n))

I32Load == At("load") /\ ins.t = "i32" /\ LoadInto("i32", extendI32Load)
I32Store == At("store") /\ ins.t = "i32" /\ StoreFrom("i32")
I64Load == At("load") /\ ins.t = "i64" /\ LoadInto("i64", extendI64Load)
I64Store == At("store") /\ ins.t = "i64" /\ StoreFrom("i64")
F32Load == At("load") /\ ins.t = "f32" /\ LoadInto("f32", LAMBDA n, how, raw : raw)
F32Store == At("store") /\ ins.t = "f32" /\ StoreFrom("f32")
F64Load == At("load") /\ ins.t = "f64" /\ LoadInto("f64", LAMBDA n, how, raw : raw)
F64Store == At("store") /\ ins.t = "f64" /\ StoreFrom("f64")
V128Load ==
  At("vload") /\ LoadBytes(<<IndexOf(ins.area)>>, "v128", VectorBytes, LAMBDA o, a : AllBytes(ins.area, a, VectorBytes))
V128Store ==
  At("store") /\ ins.t = "v128" /\ StoreBytes(<<"v128", IndexOf(ins.area)>>, VectorBytes, LAMBDA o : o[1])

evalV128LoadSplat(m, a, n) == splatV128(n, memoryLoad(m, a, n))
\* Eight bytes, read as lanes of n bytes that are widened to 2n.
evalV128LoadExtend(m, a, n, how) ==
  Pack(2 * n, [i \in Lanes(2 * n) |-> Widen(n, how, memoryLoad(m, a + n * i, n))])
evalV128LoadZero(m, a, n) == AllBytes(m, a, n) \o SubSeq(ZeroVector, n + 1, VectorBytes)
evalV128LoadLane(m, a, n, lane, v) ==
  LET first == v128LaneByteOffset(n, lane)
  IN  [k \in 1 .. VectorBytes |-> IF k \in first + 1 .. first + n THEN areas[m].data[a + k - first] ELSE v[k]]
evalV128StoreLane(n, lane, v) == SubSeq(v, v128LaneByteOffset(n, lane) + 1, v128LaneByteOffset(n, lane) + n)

V128LoadSplat ==
  LET n == memoryAccessSize(ins.size)
  IN  At("loadsplat") /\ LoadBytes(<<IndexOf(ins.area)>>, "v128", n, LAMBDA o, a : evalV128LoadSplat(ins.area, a, n))
V128LoadExtend ==
  At("loadextend") /\ LoadBytes(<<IndexOf(ins.area)>>, "v128", 8,
                        LAMBDA o, a : evalV128LoadExtend(ins.area, a, memoryAccessSize(ins.size), ins.how))
V128LoadZero ==
  LET n == memoryAccessSize(ins.size)
  IN  At("loadzero") /\ LoadBytes(<<IndexOf(ins.area)>>, "v128", n, LAMBDA o, a : evalV128LoadZero(ins.area, a, n))
V128LoadLane ==
  LET n == memoryAccessSize(ins.size)
  IN  At("loadlane") /\ LoadBytes(<<"v128", IndexOf(ins.area)>>, "v128", n,
                          LAMBDA o, a : evalV128LoadLane(ins.area, a, n, ins.lane, o[1]))
V128StoreLane ==
  LET n == memoryAccessSize(ins.size)
  IN  At("storelane") /\ StoreBytes(<<"v128", IndexOf(ins.area)>>, n, LAMBDA o : evalV128StoreLane(n, ins.lane, o[1]))

-----------------------------------------------------------------------------
(* Memories and tables as a whole, addressed by their own index type.      *)

popTableIndexOperand(t) == areas[t].at
popTableCopySizeOperandEither(dst, src) ==
  IF areas[dst].at = "i64" \/ areas[src].at = "i64" THEN "i64" ELSE "i32"
popTableCopySizeOperand(dst, src) ==
  IF areas[dst].at = "i64" /\ areas[src].at = "i64" THEN "i64" ELSE "i32"

Cells(a) == areas[a].data
Replaced(a, at, cells) == Written(a, at, cells)
Size(a) == Len(Cells(a)) \div areas[a].unit

\* A size is pushed in the index type; all ones say that growing failed.
pushMemoryIndexResult(m, n) == <<[t |-> areas[m].at, v |-> U(Width(areas[m].at), n)]>>
pushTableIndexResult(t, n) == <<[t |-> areas[t].at, v |-> U(Width(areas[t].at), n)]>>
Grown(a, delta, cell) ==
  [areas EXCEPT ![a].data = @ \o [k \in 1 .. delta * areas[a].unit |-> cell]]
MayGrow(a, delta) == delta <= areas[a].max /\ Size(a) <= areas[a].max - delta

Bulk(want, ok, results, now) ==
  IF ~popWant(want) THEN Stop("fault") ELSE IF ~ok THEN Stop("trap") ELSE Advance(want, results, now)

MemorySize == At("memory.size") /\ Bulk(<<>>, TRUE, pushMemoryIndexResult(ins.area, Size(ins.area)), areas)
MemoryGrow ==
  LET want == <<IndexOf(ins.area)>>
      delta == Popped(want)[1]
  IN  /\ At("memory.grow")
      /\ IF popWant(want) /\ MayGrow(ins.area, delta)
         THEN Bulk(want, TRUE, pushMemoryIndexResult(ins.area, Size(ins.area)), Grown(ins.area, delta, 0))
         ELSE Bulk(want, TRUE, pushMemoryIndexResult(ins.area, -1), areas)
Within(a, at, n) == InBounds(a, at, n)
Copied(dst, at, src, from, n) == Replaced(dst, at, SubSeq(Cells(src), from + 1, from + n))
Copy(want) ==
  LET o == Popped(want)
  IN  Bulk(want, popWant(want) /\ Within(ins.from, o[2], o[1]) /\ Within(ins.area, o[3], o[1]), <<>>,
           Copied(ins.area, o[3], ins.from, o[2], o[1]))
MemoryCopy == At("memory.copy") /\ Copy(<<IndexOf(ins.area), IndexOf(ins.from), IndexOf(ins.area)>>)
MemoryFill ==
  LET want == <<IndexOf(ins.area), "i32", IndexOf(ins.area)>>
      o == Popped(want)
  IN  At("memory.fill") /\ Bulk(want, popWant(want) /\ Within(ins.area, o[3], o[1]), <<>>,
                              Replaced(ins.area, o[3], [k \in 1 .. o[1] |-> U(ByteBits, o[2])]))
MemoryInit == At("memory.init") /\ Copy(<<"i32", "i32", IndexOf(ins.area)>>)
DataDrop == At("data.drop") /\ Bulk(<<>>, TRUE, <<>>, [areas EXCEPT ![ins.area].data = <<>>])

TableSize == At("table.size") /\ Bulk(<<>>, TRUE, pushTableIndexResult(ins.area, Size(ins.area)), areas)
TableGet ==
  LET want == <<popTableIndexOperand(ins.area)>>
      at == Popped(want)[1]
  IN  At("table.get") /\ Bulk(want, popWant(want) /\ Within(ins.area, at, 1), <<[t |-> "ref", v |-> Cells(ins.area)[at + 1]]>>, areas)
TableSet ==
  LET want == <<"ref", popTableIndexOperand(ins.area)>>
      o == Popped(want)
  IN  At("table.set") /\ Bulk(want, popWant(want) /\ Within(ins.area, o[2], 1), <<>>, Replaced(ins.area, o[2], <<o[1]>>))
TableGrow ==
  LET want == <<popTableIndexOperand(ins.area), "ref">>
      o == Popped(want)
  IN  /\ At("table.grow")
      /\ IF popWant(want) /\ MayGrow(ins.area, o[1])
         THEN Bulk(want, TRUE, pushTableIndexResult(ins.area, Size(ins.area)), Grown(ins.area, o[1], o[2]))
         ELSE Bulk(want, TRUE, pushTableIndexResult(ins.area, -1), areas)
TableFill ==
  LET want == <<popTableIndexOperand(ins.area), "ref", popTableIndexOperand(ins.area)>>
      o == Popped(want)
  IN  At("table.fill") /\ Bulk(want, popWant(want) /\ Within(ins.area, o[3], o[1]), <<>>,
                             Replaced(ins.area, o[3], [k \in 1 .. o[1] |-> o[2]]))
TableCopy ==
  At("table.copy") /\ Copy(<<popTableCopySizeOperand(ins.area, ins.from), popTableIndexOperand(ins.from),
                             popTableIndexOperand(ins.area)>>)
TableInit == At("table.init") /\ Copy(<<"i32", "i32", popTableIndexOperand(ins.area)>>)
ElemDrop == At("elem.drop") /\ Bulk(<<>>, TRUE, <<>>, [areas EXCEPT ![ins.area].data = <<>>])

Integer == I32Binary \/ I32Eqz \/ I32Unary \/ I64Binary \/ I64Compare \/ I64Eqz \/ I64Unary
Float == F32Unary \/ F32Binary \/ F32Compare \/ F64Unary \/ F64Binary \/ F64Compare
Vector ==
  \/ Splat \/ ExtractLane \/ ReplaceLane \/ Shuffle \/ VTest \/ VUnary \/ VBinary \/ VShift \/ VTernary \/ VCompare
Accessing ==
  \/ I32Load \/ I32Store \/ I64Load \/ I64Store \/ F32Load \/ F32Store \/ F64Load \/ F64Store \/ V128Load \/ V128Store
  \/ V128LoadSplat \/ V128LoadExtend \/ V128LoadZero \/ V128LoadLane \/ V128StoreLane
Memories == MemorySize \/ MemoryGrow \/ MemoryCopy \/ MemoryFill \/ MemoryInit \/ DataDrop
Tables ==
  TableSize \/ TableGet \/ TableSet \/ TableGrow \/ TableFill \/ TableCopy \/ TableInit \/ ElemDrop

Next == Const \/ Integer \/ Convert \/ Float \/ Vector \/ Accessing \/ Memories \/ Tables
Spec == Init /\ [][Next]_vars

-----------------------------------------------------------------------------
(* Properties.                                                             *)

\* What the validator promises about operands is what the executor finds, in
\* the order in which it pops them: no instruction of an accepted program stops
\* with "got i32 operand, want i64", and every one leaves the types promised.
OperandsAgree ==
  /\ out # "fault"
  /\ out \in {"run", "done"} =>
       [k \in DOMAIN stack |-> stack[k].t] = Types(prog)[pc]

Ended == out \in {"done", "trap"} /\ Len(prog) = 1
only == prog[1]
X(k) == args[k].v
Result == stack[Len(stack)].v
Trapped == out = "trap"

\* a divided by b in the integers, rounded towards zero, and what is left.
IsQuotient(a, b, q) == Abs(a - q * b) < Abs(b) /\ (a = q * b \/ (a < 0) = (a - q * b < 0))
IsRemainder(a, b, r) == Abs(r) < Abs(b) /\ (a - r) % Abs(b) = 0 /\ (r = 0 \/ (a < 0) = (r < 0))
Moved(w, a, k) == {i + k : i \in BitsSet(w, a)} \cap 0 .. w - 1
Turned(w, a, k) == {(i + k) % w : i \in BitsSet(w, a)}

\* The operations that never trap, and those that do on some operands.
ExactTotal(w, op, a, b, r) ==
  LET k == b % w
  IN  CASE op = "add" -> (r - a - b) % 2^w = 0
        [] op = "sub" -> (r - a + b) % 2^w = 0
        [] op = "mul" -> (r - S(w, a) * S(w, b)) % 2^w = 0
        [] op = "and" -> BitsSet(w, r) = BitsSet(w, a) \cap BitsSet(w, b)
        [] op = "or" -> BitsSet(w, r) = BitsSet(w, a) \cup BitsSet(w, b)
        [] op = "xor" -> BitsSet(w, r) = (BitsSet(w, a) \cup BitsSet(w, b)) \ (BitsSet(w, a) \cap BitsSet(w, b))
        [] op = "shl" -> BitsSet(w, r) = Moved(w, a, k)
        [] op = "shr_u" -> BitsSet(w, r) = Moved(w, a, -k)
        [] op = "shr_s" -> BitsSet(w, r) = Moved(w, a, -k) \cup (IF S(w, a) < 0 THEN w - k .. w - 1 ELSE {})
        [] op = "rotl" -> BitsSet(w, r) = Turned(w, a, k)
        [] op = "rotr" -> BitsSet(w, r) = Turned(w, a, -k)
        [] op \in Compares -> r = Bool(IntCompare(w, op, a, b))
ExactBinary(w, op, a, b, r) ==
  CASE op = "div_s" -> IF b = 0 \/ (S(w, a) = -(2^(w - 1)) /\ S(w, b) = -1) THEN Trapped
                       ELSE ~Trapped /\ IsQuotient(S(w, a), S(w, b), S(w, r))
    [] op = "div_u" -> IF b = 0 THEN Trapped ELSE ~Trapped /\ IsQuotient(a, b, r)
    [] op = "rem_s" -> IF b = 0 THEN Trapped ELSE ~Trapped /\ IsRemainder(S(w, a), S(w, b), S(w, r))
    [] op = "rem_u" -> IF b = 0 THEN Trapped ELSE ~Trapped /\ IsRemainder(a, b, r)
    [] OTHER -> ExactTotal(w, op, a, b, r)

ExactUnary(w, op, a, r) ==
  LET Extends(n) == 0 <= r /\ r < 2^w /\ S(w, r) = S(n, a % 2^n)
  IN  CASE op = "clz" -> r \in 0 .. w /\ a < 2^(w - r) /\ (r < w => a >= 2^(w - r - 1))
        [] op = "ctz" -> r \in 0 .. w /\ a % 2^r = 0 /\ (r < w => a % 2^(r + 1) # 0)
        [] op = "popcnt" -> r = Cardinality(BitsSet(w, a))
        [] op = "extend8_s" -> Extends(Width("i8"))
        [] op = "extend16_s" -> Extends(Width("i16"))
        [] op = "extend32_s" -> Extends(Width("i32"))

\* The i32 and i64 instructions compute what the integers modulo 2^w say, and
\* trap exactly on a zero divisor and on the one quotient that has no place.
IntegersExact ==
  Ended /\ only.t \in {"i32", "i64"} =>
    CASE only.class = "binary" -> ExactBinary(Width(only.t), only.op, X(1), X(2), Result)
      [] only.class = "compare" -> ExactBinary(Width(only.t), only.op, X(1), X(2), Result)
      [] only.class = "unary" -> ExactUnary(Width(only.t), only.op, X(1), Result)
      [] only.class = "eqz" -> Result = Bool(X(1) = 0)
      [] OTHER -> TRUE

One == 2^ScaleBits
Finite(f, x) == ~IsNaN(f, x) /\ ~IsInf(f, x)
\* r is a float nearest to v / d units, an even one when two are, the infinity
\* when that rounds past the greatest.
IsNearestQuotient(f, v, d, r) ==
  LET Far(z) == Abs((IF IsInf(f, z) THEN (IF IsNeg(f, z) THEN -1 ELSE 1) * Beyond(f) ELSE Real(f, z)) * d - v)
      near == {z \in {r - 1, r + 1} : z \in 0 .. 2^Width(f) - 1 /\ ~IsNaN(f, z) /\ IsNeg(f, z) = IsNeg(f, r)}
  IN  /\ ~IsNaN(f, r) /\ (IsNeg(f, r) => v <= 0) /\ (v < 0 => IsNeg(f, r))
      /\ \A z \in near : Far(z) > Far(r) \/ (Far(z) = Far(r) /\ r % 2 = 0)
IsNearest(f, v, r) == IsNearestQuotient(f, v, 1, r)

InRange(w, how, n) == IF how = "s" THEN n \in -(2^(w - 1)) .. 2^(w - 1) - 1 ELSE n \in 0 .. 2^w - 1
IsTruncated(f, x, n) ==
  /\ Abs(Real(f, x) - n * One) < One
  /\ n # 0 => (n < 0) = (Real(f, x) < 0) /\ Abs(n * One) <= Abs(Real(f, x))
Limits(w, how) == IF how = "s" THEN <<-(2^(w - 1)), 2^(w - 1) - 1>> ELSE <<0, 2^w - 1>>

\* A float is truncated towards zero; the truncation traps, or saturates at the
\* nearest limit, exactly when the integer has no place in the type; an integer
\* or a float goes to a nearest float; wrapping, extending and reinterpreting
\* keep the bits they should.
ConversionsExact ==
  Ended /\ only.class = "convert" =>
    LET w == Width(only.t)
        x == X(1)
        read(v) == IF only.how = "s" THEN S(w, v) ELSE v
        source == IF only.how = "s" THEN S(Width(only.from), x) ELSE x
    IN  CASE only.op = "wrap" -> Result = x % 2^w
          [] only.op = "extend" -> read(Result) = source
          [] only.op = "trunc" ->
               IF Finite(only.from, x) /\ \E n \in {Truncated(only.from, x)} : InRange(w, only.how, n)
               THEN ~Trapped /\ IsTruncated(only.from, x, read(Result)) ELSE Trapped
          [] only.op = "trunc_sat" ->
               IF IsNaN(only.from, x) THEN Result = 0
               ELSE IF IsInf(only.from, x) \/ ~InRange(w, only.how, Truncated(only.from, x))
               THEN read(Result) = Limits(w, only.how)[IF IsNeg(only.from, x) THEN 1 ELSE 2]
               ELSE IsTruncated(only.from, x, read(Result))
          [] only.op = "convert" -> IsNearest(only.t, source * One, Result)
          [] only.op \in {"promote", "demote"} ->
               IF Finite(only.from, x) THEN IsNearest(only.t, Real(only.from, x), Result)
               ELSE IsInf(only.t, Result) = IsInf(only.from, x) /\ IsNeg(only.t, Result) = IsNeg(only.from, x)
          [] only.op = "reinterpret" -> Result = x

ExactRounding(f, op, x, r) ==
  LET v == Real(f, x)
      n == Real(f, r)
  IN  /\ n % One = 0 /\ IsNeg(f, r) = IsNeg(f, x)
      /\ CASE op = "floor" -> n <= v /\ v < n + One
            [] op = "ceil" -> n >= v /\ v > n - One
            [] op = "trunc" -> Abs(n) <= Abs(v) /\ Abs(v) < Abs(n) + One
            [] op = "nearest" -> 2 * Abs(n - v) < One \/ (2 * Abs(n - v) = One /\ (n \div One) % 2 = 0)

Computable(a, b) == b = 0 \/ Abs(a) <= Largest \div Abs(b)
\* No float is nearer to the root of x.
IsRoot(f, x, r) ==
  LET twice(z) == Real(f, r) + Real(f, z)
      square == 2^(ScaleBits + 2)
  IN  Computable(Real(f, x), square) =>
        /\ twice(r - 1) * twice(r - 1) <= Real(f, x) * square
        /\ twice(r + 1) * twice(r + 1) >= Real(f, x) * square

ExactFloatUnary(f, op, x, r) ==
  CASE op \in {"abs", "neg"} -> Magnitude(f, r) = Magnitude(f, x) /\ IsNeg(f, r) = (op = "neg" /\ ~IsNeg(f, x))
    [] op = "sqrt" ->
         IF IsNaN(f, x) \/ (IsNeg(f, x) /\ ~IsZero(f, x)) THEN IsNaN(f, r)
         ELSE IF IsZero(f, x) \/ IsInf(f, x) THEN r = x ELSE IsRoot(f, x, r)
    [] op \in {"floor", "ceil", "trunc", "nearest"} ->
         IF Finite(f, x) THEN ExactRounding(f, op, x, r)
         ELSE IsInf(f, r) = IsInf(f, x) /\ IsNaN(f, r) = IsNaN(f, x) /\ IsNeg(f, r) = IsNeg(f, x)

\* r is the sum, product or quotient, rounded once.
IsRounded(f, op, x, y, r) ==
  LET a == Real(f, x)
      b == Real(f, y)
      neg == IsNeg(f, x) # IsNeg(f, y)
  IN  CASE op = "add" -> IsNearest(f, a + b, r) /\ (a + b = 0 => IsNeg(f, r) = (IsNeg(f, x) /\ IsNeg(f, y)))
        [] op = "sub" -> IsNearest(f, a - b, r) /\ (a - b = 0 => IsNeg(f, r) = (IsNeg(f, x) /\ ~IsNeg(f, y)))
        [] op = "mul" -> IsNeg(f, r) = neg /\ (Computable(a, b) => IsNearestQuotient(f, a * b, One, r))
        [] op = "div" ->
             /\ IsNeg(f, r) = neg
             /\ Computable(a, One) => IsNearestQuotient(f, (IF b < 0 THEN -a ELSE a) * One, Abs(b), r)

ExactFloatBinary(f, op, x, y, r) ==
  IF op = "copysign" THEN Magnitude(f, r) = Magnitude(f, x) /\ IsNeg(f, r) = IsNeg(f, y)
  ELSE IF IsNaN(f, x) \/ IsNaN(f, y) THEN r = CanonicalNaN(f)
  ELSE CASE op \in {"min", "max"} ->
              LET first == IF op = "min" THEN "le" ELSE "ge"
                  neg == IF op = "min" THEN IsNeg(f, x) \/ IsNeg(f, y) ELSE IsNeg(f, x) /\ IsNeg(f, y)
              IN  /\ r \in {x, y} /\ FloatRelates(f, first, r, x) /\ FloatRelates(f, first, r, y)
                  /\ IsZero(f, x) /\ IsZero(f, y) => IsNeg(f, r) = neg
         [] op \in {"add", "sub", "mul", "div"} ->
              IF Finite(f, x) /\ Finite(f, y) /\ ~(op = "div" /\ IsZero(f, y)) THEN IsRounded(f, op, x, y, r)
              ELSE r = CanonicalNaN(f) \/ IsInf(f, r) \/ IsZero(f, r)

\* The f32 and f64 instructions round once and to nearest, f32 through f64 too;
\* they keep the sign of zeros, and min and max let -0 be less than +0; a binary
\* operation's NaN is the canonical one.
FloatsExact ==
  Ended /\ only.t \in {"f32", "f64"} =>
    CASE only.class = "unary" -> ExactFloatUnary(only.t, only.op, X(1), Result)
      [] only.class = "binary" -> ExactFloatBinary(only.t, only.op, X(1), X(2), Result)
      [] OTHER -> TRUE

-----------------------------------------------------------------------------
(* What each vector instruction promises of lane i, of n bytes, of its     *)
(* result: the promise of the scalar instruction where there is one.       *)

FloatShapeType == [f32x4 |-> "f32", f64x2 |-> "f64"]
VectorBits(v) == {p \in (1 .. VectorBytes) \X (0 .. ByteBits - 1) : p[2] \in BitsSet(ByteBits, v[p[1]])}
IsClamped(r, v, lo, hi) ==
  r \in lo .. hi /\ (v \in lo .. hi => r = v) /\ (v > hi => r = hi) /\ (v < lo => r = lo)
SameNumber(f, x, r) == r = x \/ (IsNaN(f, x) /\ IsNaN(f, r))

UnaryLane(o, v, r, n, i) ==
  LET w == n * ByteBits
      x == Lane(v, n, i)
      y == Lane(r, n, i)
      m == n \div 2
      from == (IF o.half = "high" THEN VectorBytes \div n ELSE 0) + i
  IN  CASE o.op = "popcnt" -> y = Cardinality(BitsSet(w, x))
        [] o.op = "abs" /\ o.shape \in IntShapes -> (y - Abs(S(w, x))) % 2^w = 0
        [] o.op = "neg" /\ o.shape \in IntShapes -> (y + x) % 2^w = 0
        [] o.op = "extend" -> Read(n, o.how, y) = Read(m, o.how, Lane(v, m, from))
        [] o.op = "extadd_pairwise" ->
             Read(n, o.how, y) = Read(m, o.how, Lane(v, m, 2 * i)) + Read(m, o.how, Lane(v, m, 2 * i + 1))
        [] o.op = "convert" ->
             y = evalConversion(FloatShapeType[o.shape], "convert", "i32", o.how, Lane(v, 4, i))
        [] o.op = "promote" -> SameNumber("f64", evalConversion("f64", "promote", "f32", "", Lane(v, 4, i)), y)
        [] o.op = "demote" ->
             IF i >= 2 THEN y = 0
             ELSE SameNumber("f32", evalConversion("f32", "demote", "f64", "", Lane(v, 8, i)), y)
        [] o.op \in {"trunc_sat", "relaxed_trunc"} ->
             IF o.from = "f64x2" /\ i >= 2 THEN y = 0
             ELSE y = evalConversion("i32", "trunc_sat", FloatShapeType[o.from], o.how,
                                     Lane(v, LaneBytes[o.from], i))
        [] o.shape \in {"f32x4", "f64x2"} /\ o.op \notin {"convert", "promote", "demote"} ->
             LET f == FloatShapeType[o.shape]
             IN  SameNumber(f, IF f = "f32" THEN evalF32Unary(o.op, x) ELSE evalF64Unary(o.op, x), y)

BinaryLane(o, a, b, r, n, i) ==
  LET w == n * ByteBits
      x == Lane(a, n, i)
      y == Lane(b, n, i)
      z == Lane(r, n, i)
      m == n \div 2
      from == (IF o.half = "high" THEN VectorBytes \div n ELSE 0) + i
      half == VectorBytes \div (2 * n)
      Clamped(how, v) == IsClamped(Read(n, how, z), v, Limits(w, how)[1], Limits(w, how)[2])
      Times(k, p) == S(k * ByteBits, Lane(a, k, p)) * S(k * ByteBits, Lane(b, k, p))
  IN  CASE o.op \in {"add", "sub", "mul"} /\ o.shape \in IntShapes -> ExactTotal(w, o.op, x, y, z)
        [] o.op = "narrow" ->
             LET v == S(2 * w, Lane(IF i < half THEN a ELSE b, 2 * n, i % half)) IN Clamped(o.how, v)
        [] o.op = "add_sat_s" -> Clamped("s", S(w, x) + S(w, y))
        [] o.op = "sub_sat_s" -> Clamped("s", S(w, x) - S(w, y))
        [] o.op = "add_sat_u" -> Clamped("u", x + y)
        [] o.op = "sub_sat_u" -> Clamped("u", x - y)
        [] o.op \in {"min_s", "max_s"} ->
             z \in {x, y} /\ \A k \in {x, y} : IF o.op = "min_s" THEN S(w, z) <= S(w, k) ELSE S(w, z) >= S(w, k)
        [] o.op \in {"min_u", "max_u"} ->
             z \in {x, y} /\ \A k \in {x, y} : IF o.op = "min_u" THEN z <= k ELSE z >= k
        [] o.op = "avgr_u" -> 2 * z - x - y \in {0, 1}
        [] o.op \in {"q15mulr_sat_s", "relaxed_q15mulr_s"} ->
             LET off == S(w, x) * S(w, y) - S(w, z) * 2^(w - 1)
             IN  IF S(w, x) = -(2^(w - 1)) /\ x = y THEN S(w, z) = 2^(w - 1) - 1
                 ELSE -(2^(w - 2)) <= off /\ off < 2^(w - 2)
        [] o.op = "extmul" ->
             (z - Read(m, o.how, Lane(a, m, from)) * Read(m, o.how, Lane(b, m, from))) % 2^w = 0
        [] o.op \in {"dot_i16x8_s", "relaxed_dot_i8x16_i7x16_s"} ->
             (z - Times(m, 2 * i) - Times(m, 2 * i + 1)) % 2^w = 0
        [] o.shape \in {"f32x4", "f64x2"} ->
             LET f == FloatShapeType[o.shape]
                 plain == CASE o.op = "relaxed_min" -> "min" [] o.op = "relaxed_max" -> "max" [] OTHER -> o.op
             IN  CASE o.op = "pmin" -> z = IF FloatRelates(f, "lt", y, x) THEN y ELSE x
                   [] o.op = "pmax" -> z = IF FloatRelates(f, "lt", x, y) THEN y ELSE x
                   [] OTHER -> z = IF f = "f32" THEN evalF32Binary(plain, x, y) ELSE evalF64Binary(plain, x, y)

CompareLane(o, a, b, r, n, i) ==
  LET x == Lane(a, n, i)
      y == Lane(b, n, i)
      holds == CASE o.shape = "f32x4" -> evalF32Compare(o.op, x, y)
                 [] o.shape = "f64x2" -> evalF64Compare(o.op, x, y)
                 [] OTHER -> Bool(IntCompare(n * ByteBits, o.op, x, y))
  IN  Lane(r, n, i) = IF holds = 1 THEN 2^(n * ByteBits) - 1 ELSE 0

Sum4(F(_)) == F(0) + F(1) + F(2) + F(3)
TernaryLane(o, a, b, c, r, n, i) ==
  LET f == FloatShapeType[o.shape]
      x == Lane(a, n, i)
      y == Lane(b, n, i)
      z == Lane(c, n, i)
      Scalar(op, p, q) == IF f = "f32" THEN evalF32Binary(op, p, q) ELSE evalF64Binary(op, p, q)
      Dots == Sum4(LAMBDA k : S(ByteBits, Lane(a, 1, 4 * i + k)) * S(ByteBits, Lane(b, 1, 4 * i + k)))
  IN  IF o.op = "relaxed_dot_i8x16_i7x16_add_s" THEN (Lane(r, 4, i) - z - Dots) % 2^(4 * ByteBits) = 0
      ELSE IF o.op = "relaxed_madd" THEN SameNumber(f, Scalar("add", Scalar("mul", x, y), z), Lane(r, n, i))
      ELSE SameNumber(f, Scalar("sub", z, Scalar("mul", x, y)), Lane(r, n, i))

LanesAre(o, x, r) ==
  LET n == LaneBytes[o.shape]
      all == Lanes(n)
  IN  CASE o.class = "splat" -> \A i \in all : Lane(r, n, i) = U(n * ByteBits, x[1])
        [] o.class = "extract" ->
             Read(Bytes[LaneType[o.shape]], o.how, r) = Read(n, o.how, Lane(x[1], n, o.lane))
        [] o.class = "replace" ->
             \A i \in all : Lane(r, n, i) = IF i = o.lane THEN U(n * ByteBits, x[2]) ELSE Lane(x[1], n, i)
        [] o.class = "shuffle" -> \A k \in 1 .. VectorBytes : r[k] = (x[1] \o x[2])[o.bytes[k] + 1]
        [] o.class = "vtest" ->
            (CASE o.op = "any_true" -> (r = 1) = (x[1] # ZeroVector)
               [] o.op = "all_true" -> (r = 0) = \E i \in all : Lane(x[1], n, i) = 0
               [] o.op = "bitmask" -> BitsSet(16, r) = {i \in all : S(n * ByteBits, Lane(x[1], n, i)) < 0})
        [] o.class = "vunary" ->
             IF o.op = "not" THEN VectorBits(r) = ((1 .. VectorBytes) \X (0 .. ByteBits - 1)) \ VectorBits(x[1])
             ELSE \A i \in all : UnaryLane(o, x[1], r, n, i)
        [] o.class = "vbinary" ->
             LET a == VectorBits(x[1])
                 b == VectorBits(x[2])
             IN (CASE o.op = "and" -> VectorBits(r) = a \cap b
                   [] o.op = "or" -> VectorBits(r) = a \cup b
                   [] o.op = "xor" -> VectorBits(r) = (a \cup b) \ (a \cap b)
                   [] o.op = "andnot" -> VectorBits(r) = a \ b
                   [] o.op \in {"swizzle", "relaxed_swizzle"} ->
                        \A k \in 1 .. VectorBytes :
                          r[k] = (x[1] \o ZeroVector)[Least(IndexStep * x[2][k], VectorBytes) + 1]
                   [] OTHER -> \A i \in all : BinaryLane(o, x[1], x[2], r, n, i))
        [] o.class = "vshift" ->
             \A i \in all : ExactTotal(n * ByteBits, o.op, Lane(x[1], n, i), x[2], Lane(r, n, i))
        [] o.class = "vcompare" -> \A i \in all : CompareLane(o, x[1], x[2], r, n, i)
        [] o.class = "vternary" ->
             IF o.op \in {"bitselect", "relaxed_laneselect"}
             THEN VectorBits(r) = (VectorBits(x[1]) \cap VectorBits(x[3])) \cup (VectorBits(x[2]) \ VectorBits(x[3]))
             ELSE \A i \in all : TernaryLane(o, x[1], x[2], x[3], r, n, i)
        [] OTHER -> TRUE

\* Every lane of a vector result is what the scalar instruction of the lane's type
\* gives for the lanes it comes from, and no lane reaches into its neighbours;
\* only the payload of a NaN may differ.
LanesExact == out = "done" /\ Len(prog) = 1 => LanesAre(only, [k \in DOMAIN args |-> X(k)], Result)

-----------------------------------------------------------------------------
(* What memories and tables hold afterwards.                               *)

Initial(a) == Areas[a].data
Overlaid(a, at, cells) ==
  [k \in 1 .. Len(Initial(a)) |-> IF k - 1 - at \in 0 .. Len(cells) - 1 THEN cells[k - at] ELSE Initial(a)[k]]
OnlyChanged(a, cells) == areas = [Areas EXCEPT ![a].data = cells]

BytesStored(i, v) ==
  CASE i.class = "store" /\ i.t = "v128" -> v
    [] i.class = "store" /\ i.t # "v128" -> [k \in 1 .. memoryAccessSize(i.size) |-> ByteAt(v, k - 1)]
    [] i.class = "storelane" -> [k \in 1 .. memoryAccessSize(i.size) |-> v[memoryAccessSize(i.size) * i.lane + k]]
BytesRead(i) ==
  CASE i.class = "vload" -> VectorBytes [] i.class = "loadextend" -> 8 [] OTHER -> memoryAccessSize(i.size)
\* What a load is to push when these bytes stand at its address.
Loaded(i, bytes, under, r) ==
  LET n == Len(bytes)
      m == memoryAccessSize(i.size)
  IN  CASE i.class = "load" -> Read(Bytes[i.t], i.how, r) = Read(n, i.how, Word(bytes, 1, n))
        [] i.class = "vload" -> r = bytes
        [] i.class = "loadsplat" -> \A k \in 1 .. VectorBytes : r[k] = bytes[((k - 1) % n) + 1]
        [] i.class = "loadextend" ->
             \A l \in Lanes(2 * m) : Read(2 * m, i.how, Lane(r, 2 * m, l)) = Read(m, i.how, Word(bytes, m * l + 1, m))
        [] i.class = "loadzero" -> \A k \in 1 .. VectorBytes : r[k] = IF k <= n THEN bytes[k] ELSE 0
        [] i.class = "loadlane" ->
             \A k \in 1 .. VectorBytes : r[k] = IF k - 1 - n * i.lane \in 0 .. n - 1 THEN bytes[k - n * i.lane] ELSE under[k]

\* One load, one store, or a store and a load after it.
AccessExact ==
  out \in {"done", "trap"} /\ (\A k \in DOMAIN prog : prog[k].class \in Accesses) =>
    LET last == prog[Len(prog)]
        stores == prog[1].class \in {"store", "storelane"}
        loads == last.class \notin {"store", "storelane"}
        to == args[Len(args) - 1].v + prog[1].offset
        bytes == BytesStored(prog[1], args[Len(args)].v)
        stored == stores => to + Len(bytes) <= Len(Initial(prog[1].area))
        from == X(1) + last.offset
        loaded == loads => from + BytesRead(last) <= Len(Initial(last.area))
        image(a) == IF stores /\ a = prog[1].area THEN Overlaid(a, to, bytes) ELSE Initial(a)
    IN  /\ Trapped = (~stored \/ ~loaded)
        /\ ~Trapped /\ loads => Loaded(last, SubSeq(image(last.area), from + 1, from + BytesRead(last)), X(2), Result)
        /\ ~Trapped => OnlyChanged(prog[1].area, image(prog[1].area))
        /\ ~stored => areas = Areas

\* n cells at `from` of an area or segment go, all at once, to `to`.
CopyExact(a, to, src, from, n) ==
  LET fits == from + n <= Len(Initial(src)) /\ to + n <= Len(Initial(a))
  IN  /\ Trapped = ~fits
      /\ OnlyChanged(a, IF fits THEN Overlaid(a, to, SubSeq(Initial(src), from + 1, from + n)) ELSE Initial(a))
FillExact(a, to, cell, n) ==
  LET fits == to + n <= Len(Initial(a))
  IN  Trapped = ~fits /\ OnlyChanged(a, IF fits THEN Overlaid(a, to, [k \in 1 .. n |-> cell]) ELSE Initial(a))
\* What cannot grow says so with a number that is no size.
GrowExact(a, delta, cell) ==
  LET A == Areas[a]
      size == Len(A.data) \div A.unit
      may == size + delta <= A.max
  IN  /\ Result = IF may THEN size ELSE 2^Width(A.at) - 1
      /\ OnlyChanged(a, A.data \o [k \in 1 .. (IF may THEN delta * A.unit ELSE 0) |-> cell])

BulkExact ==
  Ended =>
    LET a == only.area
    IN  CASE only.class \in {"memory.copy", "table.copy"} -> CopyExact(a, X(1), only.from, X(2), X(3))
          [] only.class \in {"memory.init", "table.init"} -> CopyExact(a, X(1), only.from, X(2), X(3))
          [] only.class = "memory.fill" -> FillExact(a, X(1), X(2) % 2^ByteBits, X(3))
          [] only.class = "table.fill" -> FillExact(a, X(1), X(2), X(3))
          [] only.class = "table.set" -> FillExact(a, X(1), X(2), 1)
          [] only.class = "table.get" ->
               Trapped = (X(1) >= Len(Initial(a))) /\ areas = Areas /\ (~Trapped => Result = Initial(a)[X(1) + 1])
          [] only.class \in {"memory.size", "table.size"} -> Result = Len(Initial(a)) \div Areas[a].unit /\ areas = Areas
          [] only.class = "memory.grow" -> GrowExact(a, X(1), 0)
          [] only.class = "table.grow" -> GrowExact(a, X(2), X(1))
          [] OTHER -> TRUE

\* Memories and tables change where an instruction writes and nowhere else, by
\* the index type that is theirs; an access traps exactly when its true address
\* lies outside, and then nothing changed; a load gives back, byte for byte, what
\* was stored last, whatever the widths of the two.
MemoryExact == AccessExact /\ BulkExact
=============================================================================
