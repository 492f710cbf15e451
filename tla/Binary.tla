------------------------------- MODULE Binary -------------------------------
(***************************************************************************)
(* Integers, names, types and instructions of the binary format: the       *)
(* readers of internal/binaryformat/decode.go and the writers of           *)
(* internal/binaryformat/encode.go.                                        *)
(*                                                                         *)
(* Bytes are numbers below 256 and opcodes, type codes and flags are the   *)
(* real ones.  LEB128 groups have their seven bits; the widths of the      *)
(* integers are scaled so that TLC can hold them, keeping how many bits    *)
(* the last group may use (Width).                                         *)
(***************************************************************************)
EXTENDS Integers, Sequences, SequencesExt, FiniteSetsExt

Group == 7

(* The widths 32, 33 and 64 leave 4, 5 and 1 bits for the last group.      *)
Width == [u32 |-> 18, s32 |-> 18, s33 |-> 19, u64 |-> 22, s64 |-> 22]

Register == 22                         \* the 64 bits of a Go uint64 or int64

-----------------------------------------------------------------------------
(* Readers.                                                                *)

(* A reader takes the bytes that are left and returns what it read and     *)
(* what it left, as a set that is empty when it fails.                     *)
Bad == {}
Good(v, rest) == {<<v, rest>>}

Then(p, F(_, _)) == UNION {F(q[1], q[2]) : q \in p}

From(r, i) == SubSeq(r, i, Len(r))

readByte(r) == IF r = <<>> THEN Bad ELSE Good(r[1], Tail(r))

readN(r, n) == IF n > Len(r) THEN Bad ELSE Good(SubSeq(r, 1, n), From(r, n + 1))

(* The length of the integer in front: its last byte is the first without  *)
(* the continuation bit, among the first bytes the width allows.           *)
GroupsFor(bits) == (bits + Group - 1) \div Group
IntegerEnd(r, bits) ==
    {n \in 1 .. Min({Len(r), GroupsFor(bits)}) : r[n] < 128 /\ \A i \in 1 .. (n - 1) : r[i] >= 128}

Payload(r, i) == (r[i] % 128) * 2^(Group * (i - 1))
Payloads(r, n) == FoldLeft(LAMBDA sum, i : sum + Payload(r, i), 0, [i \in 1 .. n |-> i])

FitsUnsigned(v, bits) == v < 2^bits

readULEB128(r, bits) ==
    {<<Payloads(r, n), From(r, n + 1)>> :
        n \in {i \in IntegerEnd(r, bits) : FitsUnsigned(Payloads(r, i), Min({bits, Register}))}}

(* What n groups hold in a signed register: sign-extended when the groups  *)
(* do not fill it, wrapped when they do.                                   *)
SignedGroups(r, n) ==
    LET raw == Payloads(r, n)
        shift == Group * n
    IN  IF shift < Register
        THEN IF (r[n] % 128) >= 64 THEN raw - 2^shift ELSE raw
        ELSE LET w == raw % 2^Register
             IN  IF w >= 2^(Register - 1) THEN w - 2^Register ELSE w

\* Mutant: the bits are not looked at.
PaddingUnchecked(last, v, bits, n) == TRUE

(* The bits of a full-length encoding above the width repeat its sign.     *)
PaddingOK(last, v, bits, n) ==
    LET used == bits - Group * (n - 1)
        top == (last % 128) \div 2^used
    IN  (n = GroupsFor(bits) /\ used < Group)
          => top = (IF v < 0 THEN 2^(Group - used) - 1 ELSE 0)

readSLEB128(r, bits) ==
    {<<SignedGroups(r, n), From(r, n + 1)>> :
        n \in {i \in IntegerEnd(r, bits) :
                 /\ PaddingOK(r[i], SignedGroups(r, i), bits, i)
                 /\ SignedGroups(r, i) \in (-(2^(bits - 1))) .. (2^(bits - 1) - 1)}}

readU32(r) == readULEB128(r, Width.u32)
readU64(r) == readULEB128(r, Width.u64)
readS32(r) == readSLEB128(r, Width.s32)
readS33(r) == readSLEB128(r, Width.s33)
readS64(r) == readSLEB128(r, Width.s64)

(* The four or eight bytes of a float constant are two or three here.      *)
LittleEndian(b) == FoldLeft(LAMBDA sum, i : sum + b[i] * 256^(i - 1), 0, [i \in 1 .. Len(b) |-> i])
FloatSize == [f32 |-> 2, f64 |-> 3]
readLE(r, size) == Then(readN(r, size), LAMBDA b, s : Good(LittleEndian(b), s))

(* unicode/utf8.Valid for characters of one and two bytes.                 *)
RECURSIVE utf8Valid(_)
utf8Valid(b) ==
    \/ b = <<>>
    \/ b[1] < 128 /\ utf8Valid(Tail(b))
    \/ /\ Len(b) >= 2 /\ b[1] \in 194 .. 223 /\ b[2] \in 128 .. 191
       /\ utf8Valid(From(b, 3))

readName(r) ==
    Then(readU32(r), LAMBDA n, s :
        Then(readN(s, n), LAMBDA b, t : IF utf8Valid(b) THEN Good(b, t) ELSE Bad))

(* A count and that many entries, each of which takes at least one byte.   *)
Repeat(n, P(_), r) ==
    IF n > Len(r) THEN Bad ELSE
    FoldLeft(LAMBDA acc, i :
                Then(acc, LAMBDA vs, s : Then(P(s), LAMBDA v, t : Good(Append(vs, v), t))),
             Good(<<>>, r), [i \in 1 .. n |-> i])
boundedVectorCapacity(r, n) == n <= Len(r)
Vector(P(_), r) ==
    Then(readU32(r), LAMBDA n, s : IF boundedVectorCapacity(s, n) THEN Repeat(n, P, s) ELSE Bad)

-----------------------------------------------------------------------------
(* Writers.                                                                *)

RECURSIVE writeULEB128(_)
writeULEB128(v) == IF v < 128 THEN <<v>> ELSE <<128 + (v % 128)>> \o writeULEB128(v \div 128)

SLEBDone(v, b) == (v = 0 /\ b < 64) \/ (v = -1 /\ b >= 64)

RECURSIVE writeSLEB128(_)
writeSLEB128(v) ==
    LET b == v % 128
        w == v \div 128
    IN  IF SLEBDone(w, b) THEN <<b>> ELSE <<b + 128>> \o writeSLEB128(w)

writeLE(v, size) == [i \in 1 .. size |-> (v \div 256^(i - 1)) % 256]

Each(W(_), s) == FlattenSeq([i \in DOMAIN s |-> W(s[i])])
WriteVector(W(_), s) == writeULEB128(Len(s)) \o Each(W, s)
writeName(name) == writeULEB128(Len(name)) \o name

-----------------------------------------------------------------------------
(* Types: <<kind, heap, type index, nullable>>.                            *)

Num(k) == <<k, "", 0, FALSE>>
Ref(heap, nullable) == <<"ref", heap, 0, nullable>>
RefTypeIndexed(i, nullable) == <<"ref", "index", i, nullable>>
IsRef(t) == t[1] = "ref"
UsesTypeIndex(t) == t[2] = "index"

decodeValueType ==
    [c \in 123 .. 127 |-> Num(<<"v128", "f64", "f32", "i64", "i32">>[c - 122])]
    @@ [c \in 105 .. 116 |-> Ref(<<"exn", "array", "struct", "i31", "eq", "any", "extern", "func",
                                   "none", "noextern", "nofunc", "noexn">>[c - 104], TRUE)]
IsCode(b) == b \in DOMAIN decodeValueType

refNullPrefix == 99
refPrefix == 100

decodeHeapTypeImmediate(n, nullable, rest) ==
    LET heap == [x \in {-22} |-> "array"] @@ [x \in {-21} |-> "struct"] @@ [x \in {-20} |-> "i31"]
             @@ [x \in {-19} |-> "eq"] @@ [x \in {-18} |-> "any"] @@ [x \in {-14} |-> "noextern"]
             @@ [x \in {-12} |-> "noexn"] @@ [x \in {-13} |-> "nofunc"] @@ [x \in {-15} |-> "none"]
             @@ [x \in {-16} |-> "func"] @@ [x \in {-17} |-> "extern"] @@ [x \in {-23} |-> "exn"]
    IN  IF n >= 0 THEN Good(RefTypeIndexed(n, nullable), rest)
        ELSE IF n \in DOMAIN heap THEN Good(Ref(heap[n], nullable), rest) ELSE Bad

decodeValueTypeFromLeadingByte(b, r) ==
    IF b \in {refNullPrefix, refPrefix}
    THEN Then(readS33(r), LAMBDA n, s : decodeHeapTypeImmediate(n, b = refNullPrefix, s))
    ELSE IF IsCode(b) THEN Good(decodeValueType[b], r) ELSE Bad

readValueType(r) == Then(readByte(r), decodeValueTypeFromLeadingByte)
readRefType(r) == Then(readValueType(r), LAMBDA t, s : IF IsRef(t) THEN Good(t, s) ELSE Bad)

(* A heap type: the code of an abstract type or a signed index.            *)
readHeapType(r, nullable) ==
    Then(readByte(r), LAMBDA b, s :
        IF IsCode(b) /\ IsRef(decodeValueType[b])
        THEN Good([decodeValueType[b] EXCEPT ![4] = nullable], s)
        ELSE Then(readS33(r), LAMBDA n, t : decodeHeapTypeImmediate(n, nullable, t)))

refTypeCode ==
    [nofunc |-> 115, noexn |-> 116, noextern |-> 114, none |-> 113, array |-> 106, struct |-> 107,
     i31 |-> 108, eq |-> 109, any |-> 110, func |-> 112, extern |-> 111, exn |-> 105]
valueTypeCode == [i32 |-> 127, i64 |-> 126, f32 |-> 125, f64 |-> 124, v128 |-> 123]

writeHeapType(t) == IF UsesTypeIndex(t) THEN writeSLEB128(t[3]) ELSE <<refTypeCode[t[2]]>>

encodeValueType(t) ==
    IF ~IsRef(t) THEN <<valueTypeCode[t[1]]>>
    ELSE IF UsesTypeIndex(t)
    THEN <<IF t[4] THEN refNullPrefix ELSE refPrefix>> \o writeSLEB128(t[3])
    ELSE IF t[4] THEN <<refTypeCode[t[2]]>> ELSE <<refPrefix, refTypeCode[t[2]]>>

-----------------------------------------------------------------------------
(* Instructions: a kind and its immediates by name.                        *)

(* The rows of the catalogue with an opcode; of the instructions that take *)
(* no immediate or only a memory argument, some of each prefix.            *)
Simple ==
    {<<"unreachable", 0, 0>>, <<"nop", 0, 1>>, <<"else", 0, 5>>, <<"throw_ref", 0, 10>>,
     <<"end", 0, 11>>, <<"return", 0, 15>>, <<"drop", 0, 26>>, <<"select", 0, 27>>,
     <<"i32.add", 0, 106>>, <<"i32.sub", 0, 107>>, <<"i64.mul", 0, 126>>, <<"ref.is_null", 0, 209>>,
     <<"i32.trunc_sat_f32_s", 252, 0>>, <<"array.len", 251, 15>>, <<"extern.convert_any", 251, 27>>,
     <<"ref.i31", 251, 28>>, <<"i8x16.relaxed_swizzle", 253, 256>>}
Operand ==
    {<<"block", 0, 2>>, <<"loop", 0, 3>>, <<"if", 0, 4>>, <<"throw", 0, 8>>, <<"br", 0, 12>>,
     <<"br_if", 0, 13>>, <<"br_table", 0, 14>>, <<"call", 0, 16>>, <<"call_indirect", 0, 17>>,
     <<"return_call", 0, 18>>, <<"return_call_indirect", 0, 19>>, <<"call_ref", 0, 20>>,
     <<"return_call_ref", 0, 21>>, <<"try_table", 0, 31>>, <<"local.get", 0, 32>>,
     <<"local.set", 0, 33>>, <<"local.tee", 0, 34>>, <<"global.get", 0, 35>>, <<"global.set", 0, 36>>,
     <<"table.get", 0, 37>>, <<"table.set", 0, 38>>, <<"i32.load", 0, 40>>, <<"i64.store", 0, 55>>,
     <<"memory.size", 0, 63>>, <<"memory.grow", 0, 64>>, <<"i32.const", 0, 65>>, <<"i64.const", 0, 66>>,
     <<"f32.const", 0, 67>>, <<"f64.const", 0, 68>>, <<"ref.null", 0, 208>>, <<"ref.func", 0, 210>>,
     <<"br_on_null", 0, 213>>, <<"br_on_non_null", 0, 214>>,
     <<"struct.new", 251, 0>>, <<"struct.new_default", 251, 1>>, <<"struct.get", 251, 2>>,
     <<"struct.get_s", 251, 3>>, <<"struct.get_u", 251, 4>>, <<"struct.set", 251, 5>>,
     <<"array.new", 251, 6>>, <<"array.new_default", 251, 7>>, <<"array.new_fixed", 251, 8>>,
     <<"array.new_data", 251, 9>>, <<"array.new_elem", 251, 10>>, <<"array.get", 251, 11>>,
     <<"array.get_s", 251, 12>>, <<"array.get_u", 251, 13>>, <<"array.set", 251, 14>>,
     <<"array.fill", 251, 16>>, <<"array.copy", 251, 17>>, <<"array.init_data", 251, 18>>,
     <<"array.init_elem", 251, 19>>, <<"br_on_cast", 251, 24>>, <<"br_on_cast_fail", 251, 25>>,
     <<"memory.init", 252, 8>>, <<"data.drop", 252, 9>>, <<"memory.copy", 252, 10>>,
     <<"memory.fill", 252, 11>>, <<"table.init", 252, 12>>, <<"elem.drop", 252, 13>>,
     <<"table.copy", 252, 14>>, <<"table.grow", 252, 15>>, <<"table.size", 252, 16>>,
     <<"table.fill", 252, 17>>, <<"v128.load", 253, 0>>, <<"v128.const", 253, 12>>,
     <<"i8x16.shuffle", 253, 13>>, <<"i8x16.extract_lane_s", 253, 21>>,
     <<"f64x2.replace_lane", 253, 34>>, <<"v128.load8_lane", 253, 84>>, <<"v128.store64_lane", 253, 91>>}
Catalogue == Simple \cup Operand

LookupByBinary(prefix, opcode) == {def \in Catalogue : def[2] = prefix /\ def[3] = opcode}
Def(kind) == CHOOSE def \in Catalogue : def[1] = kind
writeInstructionOpcode(kind) ==
    IF Def(kind)[2] = 0 THEN <<Def(kind)[3]>> ELSE <<Def(kind)[2]>> \o writeULEB128(Def(kind)[3])

(* The immediates of an instruction in the order the decoder reads them:   *)
(* <<what is read, the field of the instruction it fills>>.                *)
Kinds(ks, form) == [k \in ks |-> form]
Indices(ks, fields) == Kinds(ks, [i \in DOMAIN fields |-> <<"u32", fields[i]>>])

DecodedIndices ==
    Indices({"br", "br_if", "br_on_null", "br_on_non_null"}, <<"depth">>)
    @@ Indices({"local.get", "local.set", "local.tee"}, <<"local">>)
    @@ Indices({"global.get", "global.set"}, <<"global">>)
    @@ Indices({"table.get", "table.set", "table.grow", "table.size", "table.fill"}, <<"table">>)
    @@ Indices({"call", "return_call", "ref.func"}, <<"func">>)
    @@ Indices({"call_indirect", "return_call_indirect"}, <<"callType", "table">>)
    @@ Indices({"call_ref", "return_call_ref"}, <<"callType">>)
    @@ Indices({"throw"}, <<"tag">>)
DecodedBulk ==
    Indices({"memory.init"}, <<"data", "memory">>)
    @@ Indices({"data.drop"}, <<"data">>)
    @@ Indices({"memory.copy"}, <<"memory", "sourceMemory">>)
    @@ Indices({"memory.fill", "memory.size", "memory.grow"}, <<"memory">>)
    @@ Indices({"table.init"}, <<"elem", "table">>)
    @@ Indices({"elem.drop"}, <<"elem">>)
    @@ Indices({"table.copy"}, <<"table", "sourceTable">>)
DecodedObjects ==
    Indices({"struct.new", "struct.new_default", "array.new", "array.new_default"}, <<"type">>)
    @@ Indices({"struct.get", "struct.get_s", "struct.get_u", "struct.set"}, <<"type", "field">>)
    @@ Indices({"array.new_data", "array.init_data"}, <<"type", "data">>)
    @@ Indices({"array.new_elem", "array.init_elem"}, <<"type", "elem">>)
    @@ Indices({"array.new_fixed"}, <<"type", "count">>)
    @@ Indices({"array.get", "array.get_s", "array.get_u", "array.set", "array.fill"}, <<"type">>)
    @@ Indices({"array.copy"}, <<"type", "sourceType">>)
DecodedControl ==
    Kinds({"block", "loop", "if"}, << <<"block type", "block">> >>)
    @@ Kinds({"try_table"}, << <<"block type", "block">>, <<"catches", "catches">> >>)
    @@ Kinds({"br_table"}, << <<"labels", "labels">>, <<"u32", "default">> >>)
    @@ Kinds({"br_on_cast", "br_on_cast_fail"}, << <<"cast", "cast">> >>)
DecodedValues ==
    Kinds({"i32.const"}, << <<"s32", "value">> >>) @@ Kinds({"i64.const"}, << <<"s64", "value">> >>)
    @@ Kinds({"f32.const"}, << <<"f32", "value">> >>) @@ Kinds({"f64.const"}, << <<"f64", "value">> >>)
    @@ Kinds({"ref.null"}, << <<"null", "type">> >>)
    @@ Kinds({"v128.const", "i8x16.shuffle"}, << <<"16 bytes", "bytes">> >>)
    @@ Kinds({"i8x16.extract_lane_s", "f64x2.replace_lane"}, << <<"byte", "lane">> >>)
DecodedMemory ==
    Kinds({"i32.load", "i64.store", "v128.load"}, << <<"memarg", "memarg">> >>)
    @@ Kinds({"v128.load8_lane", "v128.store64_lane"}, << <<"memarg", "memarg">>, <<"byte", "lane">> >>)
decodeInstructionFromDef ==
    DecodedIndices @@ DecodedBulk @@ DecodedObjects @@ DecodedControl @@ DecodedValues @@ DecodedMemory

(* Bit 6 of the alignment announces a memory index.                        *)
decodeMemInstr(r) ==
    Then(readU32(r), LAMBDA a, s :
        IF a >= 128 THEN Bad
        ELSE LET memory == IF a >= 64 THEN readU32(s) ELSE Good(0, s)
             IN  Then(memory, LAMBDA m, t :
                    Then(readU64(t), LAMBDA offset, u : Good(<<m, a % 64, offset>>, u))))

(* <<form, value type, type index>>.  An index is read as an s64.          *)
Empty == Num("")
BlockTypeOf(form, t, i) == <<form, t, i>>
readControlBlockType(r) ==
    Then(readByte(r), LAMBDA b, s :
        IF b = 64 THEN Good(BlockTypeOf("empty", Empty, 0), s)
        ELSE IF IsCode(b) \/ b \in {refNullPrefix, refPrefix}
        THEN Then(decodeValueTypeFromLeadingByte(b, s),
                  LAMBDA t, u : Good(BlockTypeOf("value", t, 0), u))
        ELSE Then(readS64(r), LAMBDA v, u :
                  IF v < 0 \/ v >= 2^Width.u32 THEN Bad
                  ELSE Good(BlockTypeOf("index", Empty, v), u)))

CatchAll == {2, 3}
readTryTableCatch(r) ==
    Then(readByte(r), LAMBDA kind, s :
        IF kind \in {0, 1}
        THEN Then(readU32(s), LAMBDA tag, t :
                Then(readU32(t), LAMBDA depth, u : Good(<<kind, tag, depth>>, u)))
        ELSE IF kind \in CatchAll
        THEN Then(readU32(s), LAMBDA depth, t : Good(<<kind, 0, depth>>, t))
        ELSE Bad)

(* Bits 0 and 1 of the flags make the source and the target nullable.      *)
readCast(r) ==
    Then(readByte(r), LAMBDA flags, s :
        Then(readU32(s), LAMBDA depth, t :
            Then(readHeapType(t, flags % 2 = 1), LAMBDA source, u :
                Then(readHeapType(u, (flags \div 2) % 2 = 1), LAMBDA target, w :
                    Good(<<depth, source, target>>, w)))))

ReadImmediate(what, r) ==
    CASE what = "u32" -> readU32(r)
      [] what = "s32" -> readS32(r)
      [] what = "s64" -> readS64(r)
      [] what = "byte" -> readByte(r)
      [] what = "f32" -> readLE(r, FloatSize.f32)
      [] what = "f64" -> readLE(r, FloatSize.f64)
      [] what = "16 bytes" -> readN(r, 16)
      [] what = "labels" -> Vector(readU32, r)
      [] what = "block type" -> readControlBlockType(r)
      [] what = "catches" -> Vector(readTryTableCatch, r)
      [] what = "cast" -> readCast(r)
      [] what = "memarg" -> decodeMemInstr(r)
      [] what = "null" -> readHeapType(r, TRUE)

Instr(kind, imm) == [kind |-> kind, imm |-> imm]
With(imm, field, v) == imm @@ (field :> v)
NoImmediate == [f \in {} |-> 0]

readInstructionOfDef(def, r) ==
    IF def \in Simple THEN Good(Instr(def[1], NoImmediate), r)
    ELSE Then(FoldLeft(LAMBDA acc, slot :
                         Then(acc, LAMBDA imm, s :
                            Then(ReadImmediate(slot[1], s), LAMBDA v, t :
                                Good(With(imm, slot[2], v), t))),
                       Good(NoImmediate, r), decodeInstructionFromDef[def[1]]),
              LAMBDA imm, s : Good(Instr(def[1], imm), s))

(* ref.test and ref.cast, whose opcodes carry the nullability.             *)
ReadTypeTest(sub, r) ==
    Then(readHeapType(r, sub \in {21, 23}), LAMBDA t, s :
        Good(Instr(IF sub \in {20, 21} THEN "ref.test" ELSE "ref.cast", "type" :> t), s))

(* A select with a type names exactly one.                                 *)
ReadTypedSelect(r) ==
    Then(readU32(r), LAMBDA n, s :
        IF n # 1 THEN Bad
        ELSE Then(readValueType(s), LAMBDA t, u : Good(Instr("select", "type" :> t), u)))

ReadDef(defs, r) == IF defs = {} THEN Bad ELSE readInstructionOfDef(CHOOSE def \in defs : TRUE, r)

decodeInstructionFromOpcode(op, r) ==
    IF op \in {251, 252, 253}
    THEN Then(readU32(r), LAMBDA sub, s :
            IF op = 251 /\ sub \in 20 .. 23 THEN ReadTypeTest(sub, s)
            ELSE ReadDef(LookupByBinary(op, sub), s))
    ELSE IF op = 28 THEN ReadTypedSelect(r) ELSE ReadDef(LookupByBinary(0, op), r)

(* A body ends at the end that closes the function's own block.            *)
RECURSIVE ReadBody(_, _, _)
ReadBody(r, body, depth) ==
    Then(Then(readByte(r), decodeInstructionFromOpcode), LAMBDA ins, s :
        IF ins.kind = "else" /\ depth = 0 THEN Bad
        ELSE IF ins.kind = "end" /\ depth = 0 THEN Good(Append(body, ins), s)
        ELSE ReadBody(s, Append(body, ins),
                      depth + (IF ins.kind \in {"block", "loop", "if", "try_table"} THEN 1 ELSE 0)
                            - (IF ins.kind = "end" THEN 1 ELSE 0)))
decodeInstructionExpr(r) == ReadBody(r, <<>>, 0)

ConstKinds ==
    {"i32.const", "i64.const", "f32.const", "f64.const", "i32.add", "i32.sub", "i64.mul", "ref.null",
     "ref.func", "global.get", "v128.const", "struct.new", "struct.new_default", "array.new",
     "array.new_default", "array.new_fixed", "extern.convert_any", "ref.i31"}
RECURSIVE ReadConst(_, _)
ReadConst(r, body) ==
    Then(readByte(r), LAMBDA op, s :
        IF op = Def("end")[3] THEN Good(body, s)
        ELSE Then(decodeInstructionFromOpcode(op, s), LAMBDA ins, t :
                IF ins.kind \in ConstKinds THEN ReadConst(t, Append(body, ins)) ELSE Bad))
decodeConstExprInstrs(r) == ReadConst(r, <<>>)

-----------------------------------------------------------------------------
(* Writing instructions: the immediates in the order the encoder writes    *)
(* them.                                                                   *)

EncodedIndices ==
    Indices({"br", "br_if", "br_on_null", "br_on_non_null"}, <<"depth">>)
    @@ Indices({"local.get", "local.set", "local.tee"}, <<"local">>)
    @@ Indices({"global.get", "global.set"}, <<"global">>)
    @@ Indices({"table.get", "table.set", "table.grow", "table.size", "table.fill"}, <<"table">>)
    @@ Indices({"table.copy"}, <<"table", "sourceTable">>)
    @@ Indices({"table.init"}, <<"elem", "table">>)
    @@ Indices({"elem.drop"}, <<"elem">>)
    @@ Indices({"call", "return_call"}, <<"func">>)
    @@ Indices({"call_indirect", "return_call_indirect"}, <<"callType", "table">>)
    @@ Indices({"call_ref", "return_call_ref"}, <<"callType">>)
    @@ Indices({"throw"}, <<"tag">>)
EncodedObjects ==
    Indices({"struct.new", "struct.new_default", "array.new", "array.new_default"}, <<"type">>)
    @@ Indices({"struct.get", "struct.get_s", "struct.get_u", "struct.set"}, <<"type", "field">>)
    @@ Indices({"array.new_data", "array.init_data"}, <<"type", "data">>)
    @@ Indices({"array.new_elem", "array.init_elem"}, <<"type", "elem">>)
    @@ Indices({"array.new_fixed"}, <<"type", "count">>)
    @@ Indices({"array.get", "array.get_s", "array.get_u", "array.set", "array.fill"}, <<"type">>)
    @@ Indices({"array.copy"}, <<"type", "sourceType">>)
EncodedControl ==
    Kinds({"block", "loop", "if"}, << <<"block type", "block">> >>)
    @@ Kinds({"try_table"}, << <<"block type", "block">>, <<"catches", "catches">> >>)
    @@ Kinds({"br_table"}, << <<"labels", "labels">>, <<"u32", "default">> >>)
    @@ Kinds({"br_on_cast", "br_on_cast_fail"}, << <<"cast", "cast">> >>)
    @@ Kinds({"i32.const", "i64.const"}, << <<"s64", "value">> >>)
    @@ Kinds({"f32.const"}, << <<"f32", "value">> >>) @@ Kinds({"f64.const"}, << <<"f64", "value">> >>)
EncodedMemory ==
    Kinds({"i32.load", "i64.store", "v128.load"}, << <<"memarg", "memarg">> >>)
    @@ Kinds({"v128.load8_lane", "v128.store64_lane"}, << <<"memarg", "memarg">>, <<"byte", "lane">> >>)
    @@ Indices({"memory.size", "memory.grow", "memory.fill"}, <<"memory">>)
    @@ Indices({"memory.copy"}, <<"memory", "sourceMemory">>)
    @@ Indices({"memory.init"}, <<"data", "memory">>)
    @@ Indices({"data.drop"}, <<"data">>)
    @@ Kinds({"ref.null"}, << <<"null", "type">> >>)
    @@ Indices({"ref.func"}, <<"func">>)
    @@ Kinds({"v128.const", "i8x16.shuffle"}, << <<"16 bytes", "bytes">> >>)
    @@ Kinds({"i8x16.extract_lane_s", "f64x2.replace_lane"}, << <<"byte", "lane">> >>)
EncodedImmediates == EncodedIndices @@ EncodedObjects @@ EncodedControl @@ EncodedMemory

encodeMemArg(m) ==
    (IF m[1] = 0 THEN writeULEB128(m[2]) ELSE writeULEB128(m[2] + 64) \o writeULEB128(m[1]))
    \o writeULEB128(m[3])

encodeBlockType(b) ==
    CASE b[1] = "index" -> writeSLEB128(b[3])
      [] b[1] = "value" -> encodeValueType(b[2])
      [] b[1] = "empty" -> <<64>>

encodeTryTableCatch(c) ==
    <<c[1]>> \o (IF c[1] \in CatchAll THEN <<>> ELSE writeULEB128(c[2])) \o writeULEB128(c[3])

\* Mutant: the bits change places.
castFlagsSwapped(source, target) == (IF target[4] THEN 1 ELSE 0) + (IF source[4] THEN 2 ELSE 0)

castFlags(source, target) == (IF source[4] THEN 1 ELSE 0) + (IF target[4] THEN 2 ELSE 0)
encodeCast(c) ==
    <<castFlags(c[2], c[3])>> \o writeULEB128(c[1]) \o writeHeapType(c[2]) \o writeHeapType(c[3])

WriteImmediate(what, v) ==
    CASE what = "u32" -> writeULEB128(v)
      [] what = "s64" -> writeSLEB128(v)
      [] what = "byte" -> <<v>>
      [] what = "f32" -> writeLE(v, FloatSize.f32)
      [] what = "f64" -> writeLE(v, FloatSize.f64)
      [] what = "16 bytes" -> v
      [] what = "labels" -> WriteVector(writeULEB128, v)
      [] what = "block type" -> encodeBlockType(v)
      [] what = "catches" -> WriteVector(encodeTryTableCatch, v)
      [] what = "cast" -> encodeCast(v)
      [] what = "memarg" -> encodeMemArg(v)
      [] what = "null" -> writeHeapType(v)

encodeTypeTest(ins) ==
    <<251>> \o writeULEB128((IF ins.kind = "ref.test" THEN 20 ELSE 22) + (IF ins.imm.type[4] THEN 1 ELSE 0))
            \o writeHeapType(ins.imm.type)

encodeInstr(ins) ==
    IF ins.kind \in {"ref.test", "ref.cast"} THEN encodeTypeTest(ins)
    ELSE IF ins.kind = "select" /\ ins.imm # NoImmediate
    THEN <<28>> \o writeULEB128(1) \o encodeValueType(ins.imm.type)
    ELSE IF Def(ins.kind) \in Simple THEN writeInstructionOpcode(ins.kind)
    ELSE writeInstructionOpcode(ins.kind)
         \o Each(LAMBDA slot : WriteImmediate(slot[1], ins.imm[slot[2]]), EncodedImmediates[ins.kind])

encodeConstExprInstrs(expr) == Each(encodeInstr, expr) \o writeInstructionOpcode("end")
=============================================================================
