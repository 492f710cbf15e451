------------------------------- MODULE Sections -------------------------------
(***************************************************************************)
(* The sections of a module: what internal/binaryformat/decode.go reads    *)
(* from the payload of each and what encode.go writes.                     *)
(*                                                                         *)
(* Every diagnostic makes DecodeModule fail, so a failed reader is Bad and *)
(* what the code keeps of a module beside its diagnostics is not modelled. *)
(* Names are sequences of bytes, maps are functions.                       *)
(***************************************************************************)
EXTENDS Binary

CONSTANT maxDecodedLocals       \* the cap on the locals of a function, 2^20 in the code

ID == [custom |-> 0, type |-> 1, import |-> 2, function |-> 3, table |-> 4, memory |-> 5, global |-> 6,
       export |-> 7, start |-> 8, element |-> 9, code |-> 10, data |-> 11, datacount |-> 12, tag |-> 13]

Order == <<ID.type, ID.import, ID.function, ID.table, ID.memory, ID.tag, ID.global, ID.export,
           ID.start, ID.element, ID.datacount, ID.code, ID.data>>

\* Mutant: in the order of the section numbers.
sectionOrderRankById(id) == IF id \in ToSet(Order) THEN id ELSE 0

sectionOrderRank(id) == IF id \in ToSet(Order) THEN CHOOSE i \in DOMAIN Order : Order[i] = id ELSE 0

Preamble == <<0, 97, 115, 109, 1, 0, 0, 0>>
NameSection == <<110, 97, 109, 101>>   \* "name"

decodePreamble(b) == Len(b) >= Len(Preamble) /\ SubSeq(b, 1, Len(Preamble)) = Preamble

NoMap == [i \in {} |-> <<>>]
NoNames == [module |-> <<>>, funcs |-> NoMap, locals |-> NoMap, types |-> NoMap, fields |-> NoMap,
            tags |-> NoMap]

EmptyModule ==
    [name |-> <<>>, types |-> <<>>, imports |-> <<>>, funcs |-> <<>>, tables |-> <<>>, mems |-> <<>>,
     globals |-> <<>>, tags |-> <<>>, exports |-> <<>>, start |-> <<>>, elems |-> <<>>, data |-> <<>>,
     customs |-> <<>>]

-----------------------------------------------------------------------------
(* Decoding the entries of the sections.                                   *)

decodeFieldType(r) ==
    Then(Then(readByte(r), LAMBDA b, s :
            IF b \in {119, 120} THEN Good(<<b, Num("i32")>>, s)
            ELSE Then(decodeValueTypeFromLeadingByte(b, s), LAMBDA t, u : Good(<<0, t>>, u))),
         LAMBDA storage, s :
            Then(readByte(s), LAMBDA mut, t :
                IF mut \in {0, 1}
                THEN Good([packed |-> storage[1], type |-> storage[2], mutable |-> mut = 1, name |-> <<>>], t)
                ELSE Bad))

Shape(kind, params, results, fields) ==
    [kind |-> kind, params |-> params, results |-> results, fields |-> fields]
decodeShape(form, r) ==
    CASE form = 96 -> Then(Vector(readValueType, r), LAMBDA ps, s :
                        Then(Vector(readValueType, s), LAMBDA rs, t : Good(Shape("func", ps, rs, <<>>), t)))
      [] form = 95 -> Then(Vector(decodeFieldType, r), LAMBDA fs, s : Good(Shape("struct", <<>>, <<>>, fs), s))
      [] form = 94 -> Then(decodeFieldType(r), LAMBDA f, s : Good(Shape("array", <<>>, <<>>, <<f>>), s))
      [] OTHER -> Bad

TypeDef(shape, sub, final, supers) ==
    [shape |-> shape, sub |-> sub, final |-> final, supers |-> supers, group |-> 0, name |-> <<>>]
decodeOneTypeDef(r) ==
    Then(readByte(r), LAMBDA form, s :
        IF form \in {79, 80}
        THEN Then(Vector(readU32, s), LAMBDA supers, t :
                Then(Then(readByte(t), decodeShape), LAMBDA shape, u :
                    Good(TypeDef(shape, TRUE, form = 79, supers), u)))
        ELSE Then(decodeShape(form, s), LAMBDA shape, t : Good(TypeDef(shape, FALSE, FALSE, <<>>), t)))

(* One entry of the type section: a type or a recursive group, whose size  *)
(* its first type keeps.                                                   *)
decodeTypeEntry(r) ==
    Then(readByte(r), LAMBDA form, s :
        IF form = 78
        THEN Then(readU32(s), LAMBDA n, t :
                Then(Repeat(n, decodeOneTypeDef, t), LAMBDA defs, u :
                    Good(IF n = 0 THEN defs ELSE [defs EXCEPT ![1].group = n], u)))
        ELSE Then(decodeOneTypeDef(r), LAMBDA def, t : Good(<<def>>, t)))
decodeTypeSection(r) == Then(Vector(decodeTypeEntry, r), LAMBDA es, s : Good(FlattenSeq(es), s))

Limits(is64, min, max) == [addr |-> IF is64 THEN "i64" ELSE "i32", min |-> min, max |-> max]
decodeMemoryLimits(r) ==
    Then(readByte(r), LAMBDA flags, s :
        IF flags \in {0, 4} THEN Then(readU64(s), LAMBDA min, t : Good(Limits(flags = 4, min, <<>>), t))
        ELSE IF flags \in {1, 5}
        THEN Then(readU64(s), LAMBDA min, t :
                Then(readU64(t), LAMBDA max, u : Good(Limits(flags = 5, min, <<max>>), u)))
        ELSE Bad)

Table(type, limits, init, imported) == [type |-> type, limits |-> limits, init |-> init, imported |-> imported]
Memory(limits, imported) == [limits |-> limits, imported |-> imported]
Global(type, mutable, init, imported) ==
    [type |-> type, mutable |-> mutable, init |-> init, imported |-> imported]
TypeUse(i) == [index |-> i]

readMutability(r) == Then(readByte(r), LAMBDA mut, s : IF mut \in {0, 1} THEN Good(mut = 1, s) ELSE Bad)
(* A tag: the exception attribute and a type.                              *)
decodeTagType(r) ==
    Then(readByte(r), LAMBDA attr, s :
        IF attr = 0 THEN Then(readU32(s), LAMBDA i, t : Good(TypeUse(i), t)) ELSE Bad)
decodeTag(r) ==
    Then(decodeTagType(r), LAMBDA use, s : Good([index |-> use.index, name |-> <<>>], s))

ExternKinds == <<"func", "table", "memory", "global", "tag">>
decodeImportDesc(kind, r) ==
    CASE kind = 0 -> Then(readU32(r), LAMBDA i, s : Good(TypeUse(i), s))
      [] kind = 1 -> Then(readRefType(r), LAMBDA t, s :
                        Then(decodeMemoryLimits(s), LAMBDA l, u : Good(Table(t, l, <<>>, TRUE), u)))
      [] kind = 2 -> Then(decodeMemoryLimits(r), LAMBDA l, s : Good(Memory(l, TRUE), s))
      [] kind = 3 -> Then(readValueType(r), LAMBDA t, s :
                        Then(readMutability(s), LAMBDA mut, u : Good(Global(t, mut, <<>>, TRUE), u)))
      [] kind = 4 -> decodeTagType(r)
      [] OTHER -> Bad
decodeImport(r) ==
    Then(readName(r), LAMBDA mod, s :
        Then(readName(s), LAMBDA name, t :
            Then(readByte(t), LAMBDA kind, u :
                Then(decodeImportDesc(kind, u), LAMBDA desc, w :
                    Good([mod |-> mod, name |-> name, kind |-> ExternKinds[kind + 1], desc |-> desc], w)))))

decodeTable(r) ==
    Then(readByte(r), LAMBDA first, s :
        IF first = 64
        THEN Then(readByte(s), LAMBDA reserved, t :
                IF reserved # 0 THEN Bad
                ELSE Then(readRefType(t), LAMBDA type, u :
                        Then(decodeMemoryLimits(u), LAMBDA l, w :
                            Then(decodeConstExprInstrs(w), LAMBDA init, x :
                                Good(Table(type, l, init, FALSE), x)))))
        ELSE Then(readRefType(r), LAMBDA type, t :
                Then(decodeMemoryLimits(t), LAMBDA l, u : Good(Table(type, l, <<>>, FALSE), u))))

decodeMemory(r) == Then(decodeMemoryLimits(r), LAMBDA l, s : Good(Memory(l, FALSE), s))

decodeGlobal(r) ==
    Then(readValueType(r), LAMBDA t, s :
        Then(readMutability(s), LAMBDA mut, u :
            Then(decodeConstExprInstrs(u), LAMBDA init, w : Good(Global(t, mut, init, FALSE), w))))

decodeExport(r) ==
    Then(readName(r), LAMBDA name, s :
        Then(readByte(s), LAMBDA kind, t :
            Then(readU32(t), LAMBDA i, u :
                IF kind + 1 \in DOMAIN ExternKinds
                THEN Good([name |-> name, kind |-> ExternKinds[kind + 1], index |-> i], u) ELSE Bad)))

(* Element segments.  Bit 0 of the flags: not active; bit 1: declarative,  *)
(* or an explicit table; bit 2: expressions.                               *)
FuncRef == Ref("func", TRUE)
NoOffset == <<"", 0>>
Elem(mode, table, offset, funcs, exprs, type) ==
    [mode |-> mode, table |-> table, offset |-> offset, at |-> NoOffset, funcs |-> funcs,
     exprs |-> exprs, type |-> type]
ElemMode(flags) == <<"active", "passive", "active", "declarative">>[(flags % 4) + 1]
decodeElemPlace(flags, r) ==
    IF ElemMode(flags) # "active" THEN Good(<<0, <<>> >>, r)
    ELSE Then(IF flags % 4 = 2 THEN readU32(r) ELSE Good(0, r), LAMBDA table, s :
            Then(decodeConstExprInstrs(s), LAMBDA offset, t : Good(<<table, offset>>, t)))
decodeElemKind(flags, r) ==
    IF flags = 0 THEN Good(FuncRef, r)
    ELSE Then(readByte(r), LAMBDA kind, s : IF kind = 0 THEN Good(FuncRef, s) ELSE Bad)
decodeElemType(flags, r) == IF flags = 4 THEN Good(FuncRef, r) ELSE readRefType(r)
decodeElement(r) ==
    Then(readU32(r), LAMBDA flags, s :
        IF flags > 7 THEN Bad
        ELSE Then(decodeElemPlace(flags, s), LAMBDA place, t :
            IF flags < 4
            THEN Then(decodeElemKind(flags, t), LAMBDA type, u :
                    Then(Vector(readU32, u), LAMBDA funcs, w :
                        Good(Elem(ElemMode(flags), place[1], place[2], funcs, <<>>, type), w)))
            ELSE Then(decodeElemType(flags, t), LAMBDA type, u :
                    Then(Vector(decodeConstExprInstrs, u), LAMBDA exprs, w :
                        Good(Elem(ElemMode(flags), place[1], place[2], <<>>, exprs, type), w)))))

Data(mode, mem, offset, init) ==
    [mode |-> mode, mem |-> mem, offset |-> offset, at |-> NoOffset, init |-> init]
decodeDataPlace(flags, r) ==
    IF flags = 1 THEN Good(<<0, <<>> >>, r)
    ELSE Then(IF flags = 2 THEN readU32(r) ELSE Good(0, r), LAMBDA mem, s :
            Then(decodeConstExprInstrs(s), LAMBDA offset, t : Good(<<mem, offset>>, t)))
decodeData(r) ==
    Then(readU32(r), LAMBDA flags, s :
        IF flags > 2 THEN Bad
        ELSE Then(decodeDataPlace(flags, s), LAMBDA place, t :
                Then(readU32(t), LAMBDA size, u :
                    Then(readN(u, size), LAMBDA init, w :
                        Good(Data(IF flags = 1 THEN "passive" ELSE "active", place[1], place[2], init), w)))))

(* Locals come in runs of one type and are kept one by one.                *)
decodeLocalRun(r) ==
    Then(readU32(r), LAMBDA n, s : Then(readValueType(s), LAMBDA t, u : Good(<<n, t>>, u)))
decodeLocals(r) ==
    Then(Vector(decodeLocalRun, r), LAMBDA runs, s :
        IF FoldLeft(LAMBDA sum, run : sum + run[1], 0, runs) > maxDecodedLocals THEN Bad
        ELSE Good(FlattenSeq([i \in DOMAIN runs |-> [j \in 1 .. runs[i][1] |-> runs[i][2]]]), s))

(* A body is read from its own bytes and must use all of them.             *)
decodeCode(r) ==
    Then(readU32(r), LAMBDA size, s :
        Then(readN(s, size), LAMBDA code, t :
            Then(decodeLocals(code), LAMBDA locals, u :
                Then(decodeInstructionExpr(u), LAMBDA body, w :
                    IF w = <<>> THEN Good([locals |-> locals, body |-> body], t) ELSE Bad))))

-----------------------------------------------------------------------------
(* The name section.                                                       *)

Ascending(entries) == \A i \in 1 .. (Len(entries) - 1) : entries[i][1] < entries[i + 1][1]
MapOf(entries) == [i \in {e[1] : e \in ToSet(entries)} |-> (CHOOSE e \in ToSet(entries) : e[1] = i)[2]]
decodeMap(P(_), r) ==
    Then(Vector(LAMBDA s : Then(readU32(s), LAMBDA i, t : Then(P(t), LAMBDA v, u : Good(<<i, v>>, u))), r),
         LAMBDA entries, s : IF Ascending(entries) THEN Good(MapOf(entries), s) ELSE Bad)
decodeNameMap(r) == decodeMap(readName, r)
decodeIndirectNameMap(r) == decodeMap(decodeNameMap, r)

decodeNameSubsection(id, names, r) ==
    CASE id = 0 -> Then(readName(r), LAMBDA n, s : Good([names EXCEPT !.module = n], s))
      [] id = 1 -> Then(decodeNameMap(r), LAMBDA x, s : Good([names EXCEPT !.funcs = x], s))
      [] id = 2 -> Then(decodeIndirectNameMap(r), LAMBDA x, s : Good([names EXCEPT !.locals = x], s))
      [] id = 4 -> Then(decodeNameMap(r), LAMBDA x, s : Good([names EXCEPT !.types = x], s))
      [] id = 10 -> Then(decodeIndirectNameMap(r), LAMBDA x, s : Good([names EXCEPT !.fields = x], s))
      [] id = 11 -> Then(decodeNameMap(r), LAMBDA x, s : Good([names EXCEPT !.tags = x], s))
      [] OTHER -> Good(names, <<>>)

readSection(r) ==
    Then(readByte(r), LAMBDA id, s :
        Then(readU32(s), LAMBDA size, t :
            Then(readN(t, size), LAMBDA payload, u : Good([id |-> id, payload |-> payload], u))))

(* Subsections come once and in the order of their numbers.                *)
RECURSIVE decodeNameSection(_, _, _)
decodeNameSection(r, names, last) ==
    IF r = <<>> THEN Good(names, r)
    ELSE Then(readSection(r), LAMBDA sub, s :
            IF sub.id <= last THEN Bad
            ELSE Then(decodeNameSubsection(sub.id, names, sub.payload), LAMBDA found, t :
                    IF t = <<>> THEN decodeNameSection(s, found, sub.id) ELSE Bad))

CountOf(imports, kind) == Len(SelectSeq(imports, LAMBDA imp : imp.kind = kind))

functionParamCount(m, fn) ==
    IF fn.type < Len(m.types) /\ m.types[fn.type + 1].shape.kind = "func"
    THEN Len(m.types[fn.type + 1].shape.params)
    ELSE Len(fn.params)

(* The names of an index space: those of a map that name an entry of it,   *)
(* which follow the imported ones.                                         *)
Named(map, i, old) == IF i \in DOMAIN map THEN map[i] ELSE old
applyDecodedLocalNames(m, fn, map) ==
    LET n == functionParamCount(m, fn)
        params == \E i \in DOMAIN map : i < n
        locals == \E i \in DOMAIN map : i - n \in 0 .. (Len(fn.locals) - 1)
    IN  [fn EXCEPT !.params = IF params THEN [i \in 1 .. n |-> Named(map, i - 1, <<>>)] ELSE @,
                   !.localNames = IF locals THEN [i \in DOMAIN fn.locals |-> Named(map, n + i - 1, <<>>)] ELSE @]
applyDecodedNames(m, names) ==
    LET funcs0 == CountOf(m.imports, "func")
        tags0 == CountOf(m.imports, "tag")
        Fields(i) == IF i \in DOMAIN names.fields THEN names.fields[i] ELSE NoMap
        NamedShape(shape, map) ==
            IF shape.kind # "struct" THEN shape
            ELSE [shape EXCEPT !.fields = [j \in DOMAIN shape.fields |->
                                             [shape.fields[j] EXCEPT !.name = Named(map, j - 1, @)]]]
        NamedFunc(i) ==
            LET fn == [m.funcs[i] EXCEPT !.name = Named(names.funcs, funcs0 + i - 1, @)]
            IN  IF funcs0 + i - 1 \in DOMAIN names.locals
                THEN applyDecodedLocalNames(m, fn, names.locals[funcs0 + i - 1]) ELSE fn
    IN  [m EXCEPT !.name = IF names.module # <<>> THEN names.module ELSE @,
                  !.types = [i \in DOMAIN @ |-> [@[i] EXCEPT !.name = Named(names.types, i - 1, @),
                                                             !.shape = NamedShape(@, Fields(i - 1))]],
                  !.funcs = [i \in DOMAIN @ |-> NamedFunc(i)],
                  !.tags = [i \in DOMAIN @ |-> [@[i] EXCEPT !.name = Named(names.tags, tags0 + i - 1, @)]]]

-----------------------------------------------------------------------------
(* Encoding.                                                               *)

encodeFieldType(f) ==
    (IF f.packed # 0 THEN <<f.packed>> ELSE encodeValueType(f.type)) \o <<IF f.mutable THEN 1 ELSE 0>>
encodeShape(shape) ==
    CASE shape.kind = "func" -> <<96>> \o WriteVector(encodeValueType, shape.params)
                                       \o WriteVector(encodeValueType, shape.results)
      [] shape.kind = "struct" -> <<95>> \o WriteVector(encodeFieldType, shape.fields)
      [] shape.kind = "array" -> <<94>> \o encodeFieldType(shape.fields[1])
encodeOneTypeDef(def) ==
    (IF def.sub THEN <<IF def.final THEN 79 ELSE 80>> \o WriteVector(writeULEB128, def.supers) ELSE <<>>)
    \o encodeShape(def.shape)

(* The flat list of types is cut into entries where a group starts.        *)
RECURSIVE TypeEntries(_)
TypeEntries(types) ==
    IF types = <<>> THEN <<>>
    ELSE LET n == types[1].group
             size == Min({IF n = 0 THEN 1 ELSE n, Len(types)})
         IN  << (IF n = 0 THEN <<>> ELSE <<78>> \o writeULEB128(n))
                \o Each(encodeOneTypeDef, SubSeq(types, 1, size)) >>
             \o TypeEntries(From(types, size + 1))
encodeTypeSection(types) == WriteVector(LAMBDA entry : entry, TypeEntries(types))

writeLimits(l) ==
    IF l.max = <<>> THEN <<0>> \o writeULEB128(l.min)
    ELSE <<1>> \o writeULEB128(l.min) \o writeULEB128(l.max[1])
writeMemoryLimits(l) ==
    IF l.addr = "i32" THEN writeLimits(l)
    ELSE IF l.max = <<>> THEN <<4>> \o writeULEB128(l.min)
    ELSE <<5>> \o writeULEB128(l.min) \o writeULEB128(l.max[1])
writeTableLimits(l) == writeMemoryLimits(l)

Mutability(mutable) == <<IF mutable THEN 1 ELSE 0>>
KindCode(kind) == (CHOOSE i \in DOMAIN ExternKinds : ExternKinds[i] = kind) - 1
encodeImportDesc(imp) ==
    CASE imp.kind = "func" -> writeULEB128(imp.desc.index)
      [] imp.kind = "table" -> encodeValueType(imp.desc.type) \o writeTableLimits(imp.desc.limits)
      [] imp.kind = "memory" -> writeMemoryLimits(imp.desc.limits)
      [] imp.kind = "global" -> encodeValueType(imp.desc.type) \o Mutability(imp.desc.mutable)
      [] imp.kind = "tag" -> <<0>> \o writeULEB128(imp.desc.index)
encodeImport(imp) ==
    writeName(imp.mod) \o writeName(imp.name) \o <<KindCode(imp.kind)>> \o encodeImportDesc(imp)

encodeTag(tag) == <<0>> \o writeULEB128(tag.index)
encodeTable(tb) ==
    IF tb.init # <<>>
    THEN <<64, 0>> \o encodeValueType(tb.type) \o writeLimits(tb.limits) \o encodeConstExprInstrs(tb.init)
    ELSE encodeValueType(tb.type) \o writeTableLimits(tb.limits)
encodeMemory(mem) == writeMemoryLimits(mem.limits)
encodeGlobal(g) == encodeValueType(g.type) \o Mutability(g.mutable) \o encodeConstExprInstrs(g.init)
encodeExport(e) == writeName(e.name) \o <<KindCode(e.kind)>> \o writeULEB128(e.index)

(* The offset of an active segment: its expression, or a constant of the   *)
(* type that lowering gave it; without either there is a diagnostic.       *)
OffsetConst(at) == Instr(IF at[1] = "i32" THEN "i32.const" ELSE "i64.const", "value" :> at[2])
encodeOffsetExpr(seg) ==
    encodeConstExprInstrs(IF seg.offset # <<>> THEN seg.offset ELSE <<OffsetConst(seg.at)>>)
CanEncodeOffset(seg) == seg.mode # "active" \/ seg.offset # <<>> \/ seg.at[1] \in {"i32", "i64"}

encodeElement(e) ==
    IF e.exprs # <<>>
    THEN LET short == e.table = 0 /\ e.type = FuncRef
             place == CASE e.mode = "passive" -> <<5>>
                        [] e.mode = "declarative" -> <<7>>
                        [] e.mode = "active" ->
                             (IF short THEN <<4>> ELSE <<6>> \o writeULEB128(e.table)) \o encodeOffsetExpr(e)
         IN  place
             \o (IF e.mode = "active" /\ short THEN <<>> ELSE encodeValueType(e.type))
             \o WriteVector(encodeConstExprInstrs, e.exprs)
    ELSE (CASE e.mode = "passive" -> <<1>>
            [] e.mode = "declarative" -> <<3>>
            [] e.mode = "active" -> <<2>> \o writeULEB128(e.table) \o encodeOffsetExpr(e))
         \o <<0>> \o WriteVector(writeULEB128, e.funcs)

encodeData(seg) ==
    (IF seg.mode = "passive" THEN <<1>>
     ELSE (IF seg.mem = 0 THEN <<0>> ELSE <<2>> \o writeULEB128(seg.mem)) \o encodeOffsetExpr(seg))
    \o writeName(seg.init)

encodeCode(fn) ==
    LET code == WriteVector(LAMBDA t : writeULEB128(1) \o encodeValueType(t), fn.locals)
                \o Each(encodeInstr, fn.body)
    IN  writeULEB128(Len(code)) \o code

UsesData(funcs, kinds) == \E fn \in ToSet(funcs) : \E ins \in ToSet(fn.body) : ins.kind \in kinds
moduleUsesDataIndexInstructions(funcs) ==
    UsesData(funcs, {"memory.init", "data.drop", "array.new_data", "array.init_data"})
moduleUsesBulkMemoryData(funcs) == UsesData(funcs, {"memory.init", "data.drop"})

(* Name maps: the entries that have a name, which loses a leading $.       *)
sourceIDName(name) == IF name # <<>> /\ name[1] = 36 THEN Tail(name) ELSE name
Entries(s, base, W(_), Has(_)) ==
    SelectSeq([i \in DOMAIN s |-> IF Has(s[i]) THEN writeULEB128(base + i - 1) \o W(s[i]) ELSE <<>>],
              LAMBDA entry : entry # <<>>)
NameEntries(names, base) ==
    Entries(names, base, LAMBDA n : writeName(sourceIDName(n)), LAMBDA n : n # <<>>)
finishNameMap(entries) == IF entries = <<>> THEN <<>> ELSE WriteVector(LAMBDA entry : entry, entries)
NamesOf(s) == [i \in DOMAIN s |-> s[i].name]

encodeFunctionNameMap(m) == finishNameMap(NameEntries(NamesOf(m.funcs), CountOf(m.imports, "func")))
encodeOneFunctionLocalNameMap(m, fn) ==
    finishNameMap(NameEntries(fn.params, 0) \o NameEntries(fn.localNames, functionParamCount(m, fn)))
encodeLocalNameMap(m) ==
    finishNameMap(Entries(m.funcs, CountOf(m.imports, "func"),
                          LAMBDA fn : encodeOneFunctionLocalNameMap(m, fn),
                          LAMBDA fn : encodeOneFunctionLocalNameMap(m, fn) # <<>>))
encodeTypeNameMap(types) == finishNameMap(NameEntries(NamesOf(types), 0))
FieldMap(def) == IF def.shape.kind = "struct" THEN finishNameMap(NameEntries(NamesOf(def.shape.fields), 0)) ELSE <<>>
encodeFieldNameMap(types) == finishNameMap(Entries(types, 0, FieldMap, LAMBDA def : FieldMap(def) # <<>>))
encodeTagNameMap(m) == finishNameMap(NameEntries(NamesOf(m.tags), CountOf(m.imports, "tag")))

writeNameSubsection(id, payload) ==
    IF payload = <<>> THEN <<>> ELSE <<id>> \o writeULEB128(Len(payload)) \o payload
encodeNameSection(m) ==
    LET subsections == writeNameSubsection(0, IF m.name = <<>> THEN <<>> ELSE writeName(sourceIDName(m.name)))
                    \o writeNameSubsection(1, encodeFunctionNameMap(m))
                    \o writeNameSubsection(2, encodeLocalNameMap(m))
                    \o writeNameSubsection(4, encodeTypeNameMap(m.types))
                    \o writeNameSubsection(10, encodeFieldNameMap(m.types))
                    \o writeNameSubsection(11, encodeTagNameMap(m))
    IN  IF subsections = <<>> THEN <<>> ELSE writeName(NameSection) \o subsections

writeSection(id, payload) == <<id>> \o writeULEB128(Len(payload)) \o payload
writePreservedCustomSections(customs, after) ==
    Each(LAMBDA c : IF c.after = after THEN writeSection(ID.custom, writeName(c.name) \o c.payload) ELSE <<>>,
         customs)

Defined(s) == SelectSeq(s, LAMBDA x : ~x.imported)
IfAny(s, payload) == IF s = <<>> THEN <<>> ELSE payload
SectionPayload(m, id) ==
    CASE id = ID.type -> IfAny(m.types, encodeTypeSection(m.types))
      [] id = ID.import -> IfAny(m.imports, WriteVector(encodeImport, m.imports))
      [] id = ID.function -> IfAny(m.funcs, WriteVector(LAMBDA fn : writeULEB128(fn.type), m.funcs))
      [] id = ID.table -> IfAny(Defined(m.tables), WriteVector(encodeTable, Defined(m.tables)))
      [] id = ID.memory -> IfAny(Defined(m.mems), WriteVector(encodeMemory, Defined(m.mems)))
      [] id = ID.tag -> IfAny(m.tags, WriteVector(encodeTag, m.tags))
      [] id = ID.global -> IfAny(Defined(m.globals), WriteVector(encodeGlobal, Defined(m.globals)))
      [] id = ID.export -> IfAny(m.exports, WriteVector(encodeExport, m.exports))
      [] id = ID.start -> IfAny(m.start, writeULEB128(m.start[1]))
      [] id = ID.element -> IfAny(m.elems, WriteVector(encodeElement, m.elems))
      [] id = ID.datacount ->
            IF moduleUsesDataIndexInstructions(m.funcs) THEN writeULEB128(Len(m.data)) ELSE <<>>
      [] id = ID.code -> IfAny(m.funcs, WriteVector(encodeCode, m.funcs))
      [] id = ID.data -> IfAny(m.data, WriteVector(encodeData, m.data))

CanEncode(m) == \A seg \in ToSet(m.elems) \cup ToSet(m.data) : CanEncodeOffset(seg)
EncodedModule(m) ==
    LET SectionAndCustoms(id) ==
            LET payload == SectionPayload(m, id)
            IN  IF payload = <<>> THEN <<>>
                ELSE writeSection(id, payload) \o writePreservedCustomSections(m.customs, id)
    IN  Preamble
        \o writePreservedCustomSections(m.customs, -1)
        \o Each(SectionAndCustoms, Order)
        \o IfAny(encodeNameSection(m), writeSection(ID.custom, encodeNameSection(m)))
===============================================================================
