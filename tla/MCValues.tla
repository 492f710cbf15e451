------------------------------- MODULE MCValues -------------------------------
EXTENDS Values

\* Both formats reach past every integer of 8 bits, f64 past those of 16.
MCFormat == [f32 |-> [fraction |-> 3, exponent |-> 4, least |-> 2],
             f64 |-> [fraction |-> 11, exponent |-> 4, least |-> 0]]

Plain == [class |-> "", t |-> "", op |-> "", from |-> "", how |-> "", half |-> "", shape |-> "i8x16",
          lane |-> 0, area |-> "m32", size |-> "", offset |-> 0, imm |-> 0, bytes |-> ZeroVector]
Alone(set) == {<<i>> : i \in set}
Ints == {"i32", "i64"}
FloatTypes == {"f32", "f64"}

IntegerCode ==
  {[Plain EXCEPT !.class = "binary", !.t = t, !.op = op] : t \in Ints, op \in Arithmetic}
  \cup {[Plain EXCEPT !.class = "binary", !.t = "i32", !.op = op] : op \in Compares}
  \cup {[Plain EXCEPT !.class = "compare", !.t = "i64", !.op = op] : op \in Compares}
  \cup {[Plain EXCEPT !.class = "eqz", !.t = t] : t \in Ints}
  \cup {[Plain EXCEPT !.class = "unary", !.t = t, !.op = op] :
          t \in Ints, op \in {"clz", "ctz", "popcnt", "extend8_s", "extend16_s"}}
  \cup {[Plain EXCEPT !.class = "unary", !.t = "i64", !.op = "extend32_s"]}
  \cup {[Plain EXCEPT !.class = "const", !.t = t, !.imm = 3] : t \in Ints \cup FloatTypes}
  \cup {[Plain EXCEPT !.class = "const", !.t = "v128"]}

ConversionCode ==
  {[Plain EXCEPT !.class = "convert", !.t = t, !.op = op, !.from = f, !.how = how] :
     t \in Ints, op \in {"trunc", "trunc_sat"}, f \in FloatTypes, how \in {"s", "u"}}
  \cup {[Plain EXCEPT !.class = "convert", !.t = f, !.op = "convert", !.from = t, !.how = how] :
     t \in Ints, f \in FloatTypes, how \in {"s", "u"}}
  \cup {[Plain EXCEPT !.class = "convert", !.t = "i64", !.op = "extend", !.from = "i32", !.how = how] : how \in {"s", "u"}}
  \cup {[Plain EXCEPT !.class = "convert", !.t = x[1], !.op = x[2], !.from = x[3]] :
     x \in {<<"i32", "wrap", "i64">>, <<"f32", "demote", "f64">>, <<"f64", "promote", "f32">>,
            <<"i32", "reinterpret", "f32">>, <<"f32", "reinterpret", "i32">>,
            <<"i64", "reinterpret", "f64">>, <<"f64", "reinterpret", "i64">>}}

FloatCode ==
  {[Plain EXCEPT !.class = "unary", !.t = t, !.op = op] :
     t \in FloatTypes, op \in {"abs", "neg", "sqrt", "ceil", "floor", "trunc", "nearest"}}
  \cup {[Plain EXCEPT !.class = "binary", !.t = t, !.op = op] :
     t \in FloatTypes, op \in {"add", "sub", "mul", "div", "min", "max", "copysign"}}
  \cup {[Plain EXCEPT !.class = "compare", !.t = t, !.op = op] :
     t \in FloatTypes, op \in {"eq", "ne", "lt", "gt", "le", "ge"}}

V(class, shape, op) == [Plain EXCEPT !.class = class, !.shape = shape, !.op = op, !.t = "v128"]
Shapes == IntShapes \cup FloatShapes
LaneCode ==
  {V("splat", s, "") : s \in Shapes}
  \cup {[V("extract", s, "") EXCEPT !.lane = l, !.how = h] : s \in {"i8x16", "i16x8"}, l \in {0, 6}, h \in {"s", "u"}}
  \cup {[V("extract", s, "") EXCEPT !.lane = 1] : s \in Shapes \ {"i8x16", "i16x8"}}
  \cup {[V("replace", s, "") EXCEPT !.lane = 1] : s \in Shapes}
  \cup {[V("shuffle", "i8x16", "") EXCEPT !.bytes = [k \in 1 .. VectorBytes |-> (k * 7) % 32]]}
  \cup {V("vtest", "i8x16", "any_true")} \cup {V("vtest", s, op) : s \in IntShapes, op \in {"all_true", "bitmask"}}
UnaryCode ==
  {V("vunary", "i8x16", op) : op \in {"not", "popcnt"}}
  \cup {V("vunary", s, op) : s \in Shapes, op \in {"abs", "neg"}}
  \cup {[V("vunary", s, "extadd_pairwise") EXCEPT !.how = h] : s \in {"i16x8", "i32x4"}, h \in {"s", "u"}}
  \cup {[V("vunary", s, "extend") EXCEPT !.how = h, !.half = x] :
          s \in {"i16x8", "i32x4", "i64x2"}, h \in {"s", "u"}, x \in {"low", "high"}}
  \cup {V("vunary", s, op) : s \in FloatShapes, op \in {"sqrt", "ceil", "floor", "trunc", "nearest"}}
  \cup {[V("vunary", s, "convert") EXCEPT !.how = h] : s \in FloatShapes, h \in {"s", "u"}}
  \cup {V("vunary", "f32x4", "demote"), V("vunary", "f64x2", "promote")}
  \cup {[V("vunary", "i32x4", op) EXCEPT !.from = f, !.how = h] :
          op \in {"trunc_sat", "relaxed_trunc"}, f \in FloatShapes, h \in {"s", "u"}}
  \cup {V("vshift", s, op) : s \in IntShapes, op \in {"shl", "shr_s", "shr_u"}}
BinaryCode ==
  {V("vbinary", "i8x16", op) : op \in {"swizzle", "relaxed_swizzle", "and", "andnot", "or", "xor"}}
  \cup {[V("vbinary", s, "narrow") EXCEPT !.how = h] : s \in {"i8x16", "i16x8"}, h \in {"s", "u"}}
  \cup {V("vbinary", s, op) : s \in IntShapes, op \in {"add", "sub"}}
  \cup {V("vbinary", s, "mul") : s \in IntShapes \ {"i8x16"}}
  \cup {V("vbinary", s, op) : s \in {"i8x16", "i16x8"}, op \in {"add_sat_s", "add_sat_u", "sub_sat_s", "sub_sat_u", "avgr_u"}}
  \cup {V("vbinary", s, op) : s \in {"i8x16", "i16x8", "i32x4"}, op \in {"min_s", "min_u", "max_s", "max_u"}}
  \cup {V("vbinary", "i16x8", op) : op \in {"q15mulr_sat_s", "relaxed_q15mulr_s", "relaxed_dot_i8x16_i7x16_s"}}
  \cup {V("vbinary", "i32x4", "dot_i16x8_s")}
  \cup {[V("vbinary", s, "extmul") EXCEPT !.how = h, !.half = x] :
          s \in {"i16x8", "i32x4", "i64x2"}, h \in {"s", "u"}, x \in {"low", "high"}}
  \cup {V("vbinary", s, op) : s \in FloatShapes,
          op \in {"min", "max", "pmin", "pmax", "relaxed_min", "relaxed_max", "add", "sub", "mul", "div"}}
  \cup {V("vcompare", s, op) : s \in IntShapes \ {"i64x2"}, op \in Compares}
  \cup {V("vcompare", "i64x2", op) : op \in {"eq", "ne"} \cup SignedCompares}
  \cup {V("vcompare", s, op) : s \in FloatShapes, op \in {"eq", "ne", "lt", "gt", "le", "ge"}}
TernaryCode ==
  {V("vternary", "i8x16", "bitselect")} \cup {V("vternary", s, "relaxed_laneselect") : s \in IntShapes}
  \cup {V("vternary", s, op) : s \in FloatShapes, op \in {"relaxed_madd", "relaxed_nmadd"}}
  \cup {V("vternary", "i32x4", "relaxed_dot_i8x16_i7x16_add_s")}

A(class, t, area) == [Plain EXCEPT !.class = class, !.t = t, !.area = area]
Mems == {"m32", "m64"}
Sizes(t) == CASE t \in {"i32"} -> {"8", "16", "32"} [] t = "i64" -> {"8", "16", "32", "64"}
              [] t = "f32" -> {"32"} [] t = "f64" -> {"64"} [] t = "v128" -> {""}
Hows(t) == IF t \in Ints THEN {"s", "u"} ELSE {""}
LoadsOf(t, area) == {[A("load", t, area) EXCEPT !.size = s, !.how = h] : s \in Sizes(t), h \in Hows(t)}
StoresOf(t, area) == {[A("store", t, area) EXCEPT !.size = s] : s \in Sizes(t)}
VectorLoads(area) ==
  {A("vload", "v128", area)}
  \cup {[A("loadsplat", "v128", area) EXCEPT !.size = s] : s \in {"8", "16", "32", "64"}}
  \cup {[A("loadextend", "v128", area) EXCEPT !.size = s, !.how = h] : s \in {"8", "16", "32"}, h \in {"s", "u"}}
  \cup {[A("loadzero", "v128", area) EXCEPT !.size = s] : s \in {"32", "64"}}
  \cup {[A("loadlane", "v128", area) EXCEPT !.size = s, !.lane = 1] : s \in {"8", "16", "32", "64"}}
LaneStores(area) == {[A("storelane", "v128", area) EXCEPT !.size = s, !.lane = 1] : s \in {"8", "16", "32", "64"}}
Numeric == Ints \cup FloatTypes
AccessesOf(area) ==
  VectorLoads(area) \cup LaneStores(area) \cup UNION {LoadsOf(t, area) : t \in Numeric}
  \cup UNION {StoresOf(t, area) : t \in Numeric \cup {"v128"}}
AccessCode ==
  UNION {{[i EXCEPT !.offset = o] : i \in AccessesOf(area), o \in {0, 3, IF area = "m32" THEN 255 ELSE 65535}} : area \in Mems}
\* A store and then a load, of the same memory, of any widths.
PairsOf(ts, tl) ==
  {<<s, l>> : s \in UNION {StoresOf(t, "m32") : t \in ts} \cup LaneStores("m32"), l \in UNION {LoadsOf(t, "m32") : t \in tl}}
PairCode ==
  {<<[p[1] EXCEPT !.offset = 2], p[2]>> : p \in PairsOf({"i32", "f32"}, {"i32", "f32", "f64"}) \cup PairsOf({}, {"i64"})}

BulkCode ==
  {A(c, "", m) : c \in {"memory.size", "memory.grow", "memory.fill"}, m \in Mems}
  \cup {[A("memory.copy", "", m) EXCEPT !.from = n] : m \in Mems, n \in Mems}
  \cup {[A("memory.init", "", m) EXCEPT !.from = "data"] : m \in Mems}
  \cup {A(c, "", t) : c \in {"table.get", "table.set", "table.size", "table.grow", "table.fill"}, t \in {"t32", "t64"}}
  \cup {[A("table.copy", "", t) EXCEPT !.from = u] : t \in {"t32", "t64"}, u \in {"t32", "t64"}}
  \cup {[A("table.init", "", t) EXCEPT !.from = "elem"] : t \in {"t32", "t64"}}
DropCode ==
  {<<A("data.drop", "", "data")>>, <<A("elem.drop", "", "elem")>>}
  \cup {<<A("data.drop", "", "data"), [A("memory.init", "", "m32") EXCEPT !.from = "data"]>>}

\* Zeros, ones, the least and greatest of each width and half of it.
I32s == {0, 1, 2, 5, 8, 20, 24, 86, 127, 128, 129, 254, 255}
I64s == {0, 1, 2, 3, 13, 16, 171, 255, 256, 21846, 32767, 32768, 32769, 65534, 65535}
\* Both zeros, subnormals, 0.5, 1, 1.5, 2.5, the limits of i32 and i64, the
\* greatest, infinities and NaNs; some of each sign.
F32s == {0, 1, 7, 8, 40, 48, 52, 58, 97, 104, 112, 119, 120, 124, 121,
         128, 129, 136, 170, 176, 186, 231, 232, 247, 248, 252, 249}
F64s == {0, 1, 1500, 14336, 16384, 16386, 17408, 18944, 28671, 28672, 28660, 29184, 30719, 30720, 31744, 30721,
         32768, 32769, 40000, 47104, 49152, 51712, 61440, 61441, 63487, 63488, 64512, 63489}

\* Vectors whose lanes differ, whatever their width: 32-bit lanes that are
\* small and large numbers, NaNs, infinities and zeros of both signs.
FromLanes(n, lanes) == Pack(n, [i \in Lanes(n) |-> lanes[i + 1]])
V128s == {FromLanes(4, <<0, 128, 56, 184>>), FromLanes(4, <<124, 120, 248, 187>>), FromLanes(4, <<255, 127, 1, 104>>),
          FromLanes(8, <<16384, 30720>>), FromLanes(8, <<51712, 31744>>), FromLanes(2, <<8, 7, 15, 1, 0, 9, 6, 8>>)}
MCSamples == [i32 |-> I32s, i64 |-> I64s, f32 |-> F32s, f64 |-> F64s, v128 |-> V128s, ref |-> {0, 1}]
Area(at, unit, max, data) == [at |-> at, unit |-> unit, max |-> max, data |-> data]
MCAreas ==
  [m32 |-> Area("i32", 8, 4, [k \in 1 .. 24 |-> (k * k + k \div 3) % 4]),
   m64 |-> Area("i64", 8, 2, [k \in 1 .. 16 |-> (k + k \div 4) % 4]),
   t32 |-> Area("i32", 1, 5, <<1, 0, 2>>), t64 |-> Area("i64", 1, 2, <<0, 1>>),
   data |-> Area("i32", 1, 0, <<3, 1, 2>>), elem |-> Area("i32", 1, 0, <<2, 1>>)]
MCPrograms ==
  Alone(IntegerCode \cup ConversionCode \cup FloatCode \cup LaneCode \cup UnaryCode \cup BinaryCode \cup TernaryCode
        \cup AccessCode \cup BulkCode)
  \cup PairCode \cup DropCode
=============================================================================
