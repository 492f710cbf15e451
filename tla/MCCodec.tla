------------------------------- MODULE MCCodec -------------------------------
(* Modules that use every section, every form of an entry and every kind   *)
(* of immediate, two small modules whose encoding is tampered with, and    *)
(* the byte sequences read as integers.                                    *)
EXTENDS Codec

i32 == Num("i32")
i64 == Num("i64")
At(kind, v) == Instr(kind, "value" :> v)
Plain(kind) == Instr(kind, NoImmediate)
End == Plain("end")
x == 120
dollar == 36

-----------------------------------------------------------------------------
(* Instructions: the samples of an immediate are taken in turn, each slot  *)
(* of an instruction starting at another one.                              *)
Sample(what) ==
    CASE what = "u32" -> <<5, 130, 0, 2^18 - 1>>
      [] what = "s32" -> <<-1, 63, 64, -65, 2^17 - 1, -(2^17)>>
      [] what = "s64" -> <<-64, 8191, 2^21 - 1, -(2^21)>>
      [] what = "byte" -> <<7, 0>>
      [] what = "f32" -> <<513, 65535>>
      [] what = "f64" -> <<66051, 0>>
      [] what = "16 bytes" -> <<[i \in 1 .. 16 |-> 16 - i]>>
      [] what = "labels" -> << <<1, 0, 200>>, <<>> >>
      [] what = "block type" -> <<BlockTypeOf("empty", Empty, 0), BlockTypeOf("value", i64, 0),
                                  BlockTypeOf("value", Ref("any", TRUE), 0),
                                  BlockTypeOf("value", RefTypeIndexed(64, FALSE), 0),
                                  BlockTypeOf("index", Empty, 64), BlockTypeOf("index", Empty, 0)>>
      [] what = "catches" -> << << <<0, 3, 1>>, <<1, 200, 0>>, <<2, 0, 1>>, <<3, 0, 2>> >>, <<>> >>
      [] what = "cast" -> << <<1, Ref("any", TRUE), Ref("i31", FALSE)>>,
                             <<2, RefTypeIndexed(64, FALSE), Ref("none", TRUE)>>,
                             <<0, Ref("eq", TRUE), RefTypeIndexed(0, TRUE)>> >>
      [] what = "memarg" -> << <<0, 2, 129>>, <<1, 3, 0>>, <<130, 0, 2^22 - 1>> >>
      [] what = "null" -> <<Ref("func", TRUE), RefTypeIndexed(64, TRUE), Ref("noexn", TRUE)>>
Turns == 0 .. 5
Taken(what, n) == Sample(what)[(n % Len(Sample(what))) + 1]
Sampled(kind, turn) ==
    LET slots == decodeInstructionFromDef[kind]
    IN  Instr(kind, FoldLeft(LAMBDA imm, i : With(imm, slots[i][2], Taken(slots[i][1], turn + i - 1)),
                             NoImmediate, [i \in DOMAIN slots |-> i]))
Instructions ==
    {Sampled(k, turn) : k \in DOMAIN decodeInstructionFromDef, turn \in Turns}
    \cup {Plain(def[1]) : def \in {d \in Simple : d[1] \notin {"end", "else"}}}
    \cup {Instr(k, "type" :> t) : k \in {"ref.test", "ref.cast"},
                                  t \in {Ref("i31", TRUE), Ref("i31", FALSE), RefTypeIndexed(70, TRUE)}}
    \cup {Instr("select", "type" :> t) : t \in {i64, Ref("func", TRUE), Ref("extern", FALSE)}}

Func(type, locals, body) ==
    [type |-> type, locals |-> locals, body |-> body, name |-> <<>>, params |-> <<>>, localNames |-> <<>>]
Nested(ins) ==
    CASE ins.kind = "if" -> <<ins, Plain("else"), End, End>>
      [] ins.kind \in {"block", "loop", "try_table"} -> <<ins, End, End>>
      [] OTHER -> <<ins, End>>
BodyModule(body) == [EmptyModule EXCEPT !.funcs = <<Func(0, <<>>, body)>>]

-----------------------------------------------------------------------------
(* Sections.                                                               *)
FuncType(ps, rs) == TypeDef(Shape("func", ps, rs, <<>>), FALSE, FALSE, <<>>)
Field(packed, t, mutable, name) == [packed |-> packed, type |-> t, mutable |-> mutable, name |-> name]
Struct(fields) == Shape("struct", <<>>, <<>>, fields)
ManyTypes ==
    <<FuncType(<<i32, Ref("extern", TRUE), Ref("struct", FALSE)>>, <<Num("v128"), RefTypeIndexed(70, TRUE)>>),
      [TypeDef(Struct(<<Field(119, i32, TRUE, <<dollar, x>>), Field(0, Num("f32"), FALSE, <<>>)>>),
               TRUE, FALSE, <<0, 130>>) EXCEPT !.group = 2, !.name = <<x>>],
      TypeDef(Shape("array", <<>>, <<>>, <<Field(120, i32, FALSE, <<>>)>>), TRUE, TRUE, <<>>),
      [TypeDef(Struct(<<>>), FALSE, FALSE, <<>>) EXCEPT !.name = <<dollar, dollar>>]>>
TypesModule == [EmptyModule EXCEPT !.types = ManyTypes, !.name = <<dollar, x>>]

Table32 == Table(FuncRef, Limits(FALSE, 1, <<130>>), <<>>, FALSE)
TableInit == Table(Ref("any", TRUE), Limits(FALSE, 2, <<>>), <<Instr("ref.null", "type" :> Ref("none", TRUE))>>, FALSE)
Memory64 == Limits(TRUE, 1, <<2^20>>)
Imported(desc) == [desc EXCEPT !.imported = TRUE]
Import(kind, desc) == [mod |-> <<x>>, name |-> <<>>, kind |-> kind, desc |-> desc]
ImportTable == Imported(Table(Ref("extern", TRUE), Limits(TRUE, 3, <<>>), <<>>, FALSE))
ImportMemory == Memory(Limits(FALSE, 1, <<2>>), TRUE)
ImportGlobal == Global(i64, TRUE, <<>>, TRUE)
SpacesModule ==
    [EmptyModule EXCEPT
        !.types = <<FuncType(<<>>, <<>>)>>,
        !.imports = <<Import("func", TypeUse(0)), Import("table", ImportTable), Import("memory", ImportMemory),
                      Import("global", ImportGlobal), Import("tag", TypeUse(0)), Import("func", TypeUse(130))>>,
        !.tables = <<ImportTable, Table32, TableInit>>,
        !.mems = <<ImportMemory, Memory(Memory64, FALSE), Memory(Limits(FALSE, 0, <<>>), FALSE)>>,
        !.globals = <<ImportGlobal, Global(i32, FALSE, <<At("i32.const", -64), At("i32.const", 1), Plain("i32.add")>>, FALSE)>>,
        !.tags = <<[index |-> 0, name |-> <<x>>], [index |-> 130, name |-> <<>>]>>,
        !.exports = <<[name |-> <<x>>, kind |-> "global", index |-> 1], [name |-> <<>>, kind |-> "tag", index |-> 130]>>,
        !.start = <<130>>]

OffsetExpr == <<At("i32.const", 8)>>
NullFunc == <<Instr("ref.null", "type" :> Ref("func", TRUE))>>
Segment(mode, table, offset, at, funcs, exprs, type) ==
    [Elem(mode, table, offset, funcs, exprs, type) EXCEPT !.at = at]
SegmentsModule ==
    [EmptyModule EXCEPT
        !.elems = <<Segment("active", 0, OffsetExpr, NoOffset, <<0, 130>>, <<>>, FuncRef),
                    Segment("active", 2, <<>>, <<"i64", 3>>, <<>>, <<>>, FuncRef),
                    Segment("passive", 0, <<>>, NoOffset, <<1>>, <<>>, FuncRef),
                    Segment("declarative", 0, <<>>, NoOffset, <<1, 2>>, <<>>, FuncRef),
                    Segment("active", 0, <<>>, <<"i32", 200>>, <<>>, <<NullFunc, NullFunc>>, FuncRef),
                    Segment("active", 0, OffsetExpr, NoOffset, <<>>, <<NullFunc>>, Ref("func", FALSE)),
                    Segment("active", 3, OffsetExpr, NoOffset, <<>>, <<NullFunc>>, FuncRef),
                    Segment("passive", 0, <<>>, NoOffset, <<>>, <<NullFunc>>, Ref("any", TRUE)),
                    Segment("declarative", 0, <<>>, NoOffset, <<>>, <<NullFunc>>, FuncRef)>>,
        !.data = <<Data("active", 0, OffsetExpr, <<x, 0>>), Data("active", 2, OffsetExpr, <<>>),
                   Data("passive", 0, <<>>, <<255>>)>>,
        !.funcs = <<Func(0, <<>>, <<Sampled("array.new_data", 0), End>>)>>]
NoOffsetModule == [SegmentsModule EXCEPT !.data[1].offset = <<>>]

NamesModule ==
    [EmptyModule EXCEPT
        !.types = <<FuncType(<<i32, i32>>, <<>>)>>,
        !.imports = <<Import("func", TypeUse(0))>>,
        !.funcs = <<[Func(0, <<i32, i64, i64>>, <<End>>) EXCEPT !.name = <<dollar, x>>, !.params = <<<<>>, <<x>>>>,
                                                               !.localNames = << <<x>>, <<>>, <<dollar>> >>],
                    [Func(0, <<i32>>, <<End>>) EXCEPT !.params = << <<>>, <<>> >>, !.localNames = << <<>> >>]>>,
        !.tags = <<[index |-> 0, name |-> <<x>>]>>]

(* A module with bulk memory, and one with names and a custom section.     *)
BulkModule ==
    [EmptyModule EXCEPT !.types = <<FuncType(<<>>, <<>>)>>,
                        !.mems = <<Memory(Limits(FALSE, 1, <<>>), FALSE)>>,
                        !.funcs = <<Func(0, <<>>, <<Instr("data.drop", "data" :> 0), End>>)>>,
                        !.data = <<Data("passive", 0, <<>>, <<x>>)>>]
SmallModule ==
    [EmptyModule EXCEPT !.types = <<FuncType(<<i32>>, <<>>)>>,
                        !.tables = <<TableInit>>,
                        !.funcs = <<[Func(0, <<i32>>, <<At("i32.const", 64), Plain("drop"), End>>) EXCEPT !.params = << <<x>> >>]>>,
                        !.elems = <<Segment("active", 0, <<>>, <<"i32", 0>>, <<0>>, <<>>, FuncRef)>>]
MCSources == {BulkModule, SmallModule}

MCModules ==
    {BodyModule(Nested(ins)) : ins \in Instructions}
    \cup {EmptyModule, TypesModule, SpacesModule, SegmentsModule, NoOffsetModule, NamesModule}
    \cup MCSources

MCInserted ==
    {[id |-> ID.custom, payload |-> <<1, x, 9>>], [id |-> ID.custom, payload |-> <<2, x>>],
     [id |-> ID.custom, payload |-> <<4>> \o NameSection \o <<1, 3, 1, 0, 0, 0, 2, 1, dollar>>],
     [id |-> ID.type, payload |-> <<2, 78, 0, 78, 1, 96, 0, 0>>], [id |-> ID.table, payload |-> <<0>>],
     [id |-> ID.element, payload |-> <<1, 5, 110, 0>>], [id |-> ID.datacount, payload |-> <<0>>],
     [id |-> 14, payload |-> <<>>]}
MCReplacements == (0 .. 13) \cup {26, 32, 64, 65, 66, 78, 79, 80, 84, 128, 129, 192, 255} \cup (94 .. 127)

(* Every seven bits that matter at an end of a width, continued or not.    *)
Ends == {0, 1, 3, 7, 8, 15, 16, 31, 32, 63, 64, 96, 112, 120, 124, 126, 127}
Middle == {128, 129, 191, 192, 255}
MCIntegers == {<<>>} \cup {<<b>> : b \in Ends \cup Middle}
              \cup {<<a, b>> : a \in Middle, b \in Ends \cup Middle}
              \cup {<<a, b, c>> : a, b \in Middle, c \in Ends \cup Middle}
              \cup {<<a, b, c, d>> : a, b, c \in Middle, d \in Ends \cup Middle}
              \cup {<<a, b, c, 255, d>> : a, b, c \in {128, 255}, d \in Ends}
==============================================================================
