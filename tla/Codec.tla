-------------------------------- MODULE Codec --------------------------------
(***************************************************************************)
(* EncodeModule and DecodeModule of internal/binaryformat.  A module is    *)
(* encoded, what is on the wire may come from another producer (Tamper),   *)
(* the decoder reads it one section per step, and what it accepts is       *)
(* encoded and decoded a second time, as the fixed-point test of the       *)
(* repository does.  Beside it, readers of integers (ReadInteger).         *)
(***************************************************************************)
EXTENDS Sections

CONSTANTS
    Modules,            \* modules to encode, as lowering makes them
    Sources,            \* those whose encoding may be tampered with
    Inserted,           \* sections another producer may add
    Replacements,       \* bytes it may write for another byte
    Integers0,          \* sequences of bytes read as integers
    MaxEdits            \* bound: edits of what is on the wire

VARIABLES
    phase,              \* "encode", "wire", "decode", "done", "refused", "integer"
    pass,               \* 1, and 2 when a decoded module is encoded again
    edits,              \* how often the wire was tampered with
    module,             \* the module being encoded
    bytes, rest,        \* the input of DecodeModule and what is left of it
    out,                \* the module being decoded
    side,               \* funcTypeIdxs, funcBodies, expectedDataCount and names
    seen,               \* the seen flags: sections read so far
    lastSectionOrder, lastStandardSectionID,
    diags,              \* whether there is a diagnostic
    integer             \* what the readers of integers returned

reader == <<out, side, seen, lastSectionOrder, lastStandardSectionID>>
vars == <<phase, pass, edits, module, bytes, rest, reader, diags, integer>>

NoSide == [types |-> <<>>, bodies |-> <<>>, count |-> -1, names |-> NoNames]

InitReader ==
    /\ out = EmptyModule
    /\ side = NoSide
    /\ seen = {}
    /\ lastSectionOrder = 0
    /\ lastStandardSectionID = -1
    /\ diags = FALSE

Init ==
    /\ pass = 1 /\ edits = 0 /\ rest = <<>> /\ integer = <<>>
    /\ InitReader
    /\ \/ phase = "encode" /\ module \in Modules /\ bytes = <<>>
       \/ phase = "integer" /\ module = EmptyModule /\ bytes \in Integers0

-----------------------------------------------------------------------------
(* The encoder and the wire.                                               *)

Encode ==
    /\ phase = "encode"
    /\ IF CanEncode(module)
       THEN phase' = "wire" /\ bytes' = EncodedModule(module)
       ELSE phase' = "refused" /\ UNCHANGED bytes
    /\ UNCHANGED <<pass, edits, module, rest, reader, diags, integer>>

(* The sections of r; Bad when one of them is cut short.                   *)
RECURSIVE Split(_)
Split(r) ==
    IF r = <<>> THEN Good(<<>>, r)
    ELSE Then(readSection(r), LAMBDA s, t : Then(Split(t), LAMBDA ss, u : Good(<<s>> \o ss, u)))
Body(b) == From(b, Len(Preamble) + 1)
Join(ss) == Preamble \o Each(LAMBDA s : writeSection(s.id, s.payload), ss)

(* Another producer leaves out, repeats, moves or adds a section, changes  *)
(* one byte, or stops early.                                               *)
Rearranged(ss) ==
    {RemoveAt(ss, i) : i \in DOMAIN ss}
    \cup {InsertAt(ss, i, ss[i]) : i \in DOMAIN ss}
    \cup {InsertAt(RemoveAt(ss, i), i + 1, ss[i]) : i \in 1 .. (Len(ss) - 1)}
    \cup {InsertAt(ss, i, s) : i \in 1 .. (Len(ss) + 1), s \in Inserted}
Edited(b) ==
    UNION {{Join(ss) : ss \in Rearranged(q[1])} : q \in Split(Body(b))}
    \cup {[b EXCEPT ![i] = x] : i \in DOMAIN b, x \in Replacements}
    \cup {SubSeq(b, 1, n) : n \in 0 .. (Len(b) - 1)}

Tamper ==
    /\ phase = "wire" /\ pass = 1 /\ edits < MaxEdits
    /\ module \in Sources
    /\ bytes' \in Edited(bytes)
    /\ edits' = edits + 1
    /\ UNCHANGED <<phase, pass, module, rest, reader, diags, integer>>

-----------------------------------------------------------------------------
(* DecodeModule, one section of the loop per step.                         *)

StartDecode ==
    /\ phase = "wire"
    /\ phase' = "decode"
    /\ rest' = Body(bytes)
    /\ diags' = ~decodePreamble(bytes)
    /\ UNCHANGED <<pass, edits, module, bytes, reader, integer>>

OutOfOrder(id) == sectionOrderRank(id) < lastSectionOrder

(* A standard section: its place is checked and noted, its payload is read *)
(* unless the section was there before, and must be used up.               *)
Section(id, P(_), Put(_)) ==
    /\ phase = "decode"
    /\ \E section \in readSection(rest) :
        /\ section[1].id = id
        /\ rest' = section[2]
        /\ \E found \in {P(section[1].payload)} :
            /\ diags' = (diags \/ OutOfOrder(id) \/ id \in seen \/ ~\E q \in found : q[2] = <<>>)
            /\ IF id \in seen \/ found = Bad THEN UNCHANGED <<out, side>>
               ELSE \E q \in found : \E put \in {Put(q[1])} : out' = put[1] /\ side' = put[2]
    /\ seen' = seen \cup {id}
    /\ lastSectionOrder' = IF OutOfOrder(id) THEN lastSectionOrder ELSE sectionOrderRank(id)
    /\ lastStandardSectionID' = id
    /\ UNCHANGED <<phase, pass, edits, module, bytes, integer>>

TypeSection == Section(ID.type, decodeTypeSection, LAMBDA ts : <<[out EXCEPT !.types = ts], side>>)

(* Imported tables, memories and globals start their index spaces.         *)
Described(imports, kind) ==
    [i \in 1 .. CountOf(imports, kind) |-> SelectSeq(imports, LAMBDA imp : imp.kind = kind)[i].desc]
ImportSection ==
    Section(ID.import, LAMBDA r : Vector(decodeImport, r), LAMBDA imports :
        <<[out EXCEPT !.imports = imports,
                      !.tables = @ \o Described(imports, "table"),
                      !.mems = @ \o Described(imports, "memory"),
                      !.globals = @ \o Described(imports, "global")], side>>)

FunctionSection ==
    Section(ID.function, LAMBDA r : Vector(readU32, r), LAMBDA ts : <<out, [side EXCEPT !.types = ts]>>)
TableSection ==
    Section(ID.table, LAMBDA r : Vector(decodeTable, r),
            LAMBDA ts : <<[out EXCEPT !.tables = @ \o ts], side>>)
MemorySection ==
    Section(ID.memory, LAMBDA r : Vector(decodeMemory, r),
            LAMBDA ms : <<[out EXCEPT !.mems = @ \o ms], side>>)
TagSection ==
    Section(ID.tag, LAMBDA r : Vector(decodeTag, r), LAMBDA ts : <<[out EXCEPT !.tags = ts], side>>)
GlobalSection ==
    Section(ID.global, LAMBDA r : Vector(decodeGlobal, r),
            LAMBDA gs : <<[out EXCEPT !.globals = @ \o gs], side>>)
ExportSection ==
    Section(ID.export, LAMBDA r : Vector(decodeExport, r), LAMBDA es : <<[out EXCEPT !.exports = es], side>>)
StartSection == Section(ID.start, readU32, LAMBDA i : <<[out EXCEPT !.start = <<i>>], side>>)
ElementSection ==
    Section(ID.element, LAMBDA r : Vector(decodeElement, r), LAMBDA es : <<[out EXCEPT !.elems = es], side>>)
DataCountSection == Section(ID.datacount, readU32, LAMBDA n : <<out, [side EXCEPT !.count = n]>>)
CodeSection ==
    Section(ID.code, LAMBDA r : Vector(decodeCode, r), LAMBDA fs : <<out, [side EXCEPT !.bodies = fs]>>)
DataSection ==
    Section(ID.data, LAMBDA r : Vector(decodeData, r), LAMBDA ds : <<[out EXCEPT !.data = ds], side>>)

(* A custom section: names are kept for the end, others with the standard  *)
(* section they follow.                                                    *)
decodeCustom(r, names, after) ==
    Then(readName(r), LAMBDA name, payload :
        IF name = NameSection
        THEN Then(decodeNameSection(payload, names, -1), LAMBDA found, s : Good(<<found, <<>> >>, s))
        ELSE Good(<<names, <<[name |-> name, payload |-> payload, after |-> after]>> >>, <<>>))
CustomSection ==
    /\ phase = "decode"
    /\ \E section \in readSection(rest) :
        /\ section[1].id = ID.custom
        /\ rest' = section[2]
        /\ \E found \in {decodeCustom(section[1].payload, side.names, lastStandardSectionID)} :
            /\ diags' = (diags \/ found = Bad)
            /\ IF found = Bad THEN UNCHANGED <<out, side>>
               ELSE \E q \in found : /\ side' = [side EXCEPT !.names = q[1][1]]
                                     /\ out' = [out EXCEPT !.customs = @ \o q[1][2]]
    /\ UNCHANGED <<phase, pass, edits, module, bytes, seen, lastSectionOrder, lastStandardSectionID, integer>>

UnknownSection ==
    /\ phase = "decode"
    /\ \E section \in readSection(rest) :
        /\ section[1].id # ID.custom /\ sectionOrderRank(section[1].id) = 0
        /\ rest' = section[2]
    /\ diags' = TRUE
    /\ UNCHANGED <<phase, pass, edits, module, bytes, reader, integer>>

(* A section that is cut short ends the loop.                              *)
CutShort ==
    /\ phase = "decode" /\ rest # <<>>
    /\ readSection(rest) = Bad
    /\ rest' = <<>>
    /\ diags' = TRUE
    /\ UNCHANGED <<phase, pass, edits, module, bytes, reader, integer>>

(* After the loop: functions get their bodies, counts are compared, names  *)
(* are applied.                                                            *)
Paired ==
    [i \in 1 .. Min({Len(side.types), Len(side.bodies)}) |->
        [type |-> side.types[i], locals |-> side.bodies[i].locals, body |-> side.bodies[i].body,
         name |-> <<>>, params |-> <<>>, localNames |-> <<>>]]
CountsDiffer ==
    \/ Len(side.types) # Len(side.bodies)
    \/ side.count < 0 /\ moduleUsesBulkMemoryData(Paired)
    \/ side.count >= 0 /\ side.count # Len(out.data)

EndDecode ==
    /\ phase = "decode" /\ rest = <<>>
    /\ phase' = "done"
    /\ diags' = (diags \/ CountsDiffer)
    /\ out' = applyDecodedNames([out EXCEPT !.funcs = Paired], side.names)
    /\ UNCHANGED <<pass, edits, module, bytes, rest, side, seen, lastSectionOrder, lastStandardSectionID, integer>>

Decode ==
    \/ StartDecode \/ CustomSection \/ TypeSection \/ ImportSection \/ FunctionSection \/ TableSection
    \/ MemorySection \/ TagSection \/ GlobalSection \/ ExportSection \/ StartSection \/ ElementSection
    \/ DataCountSection \/ CodeSection \/ DataSection \/ UnknownSection \/ CutShort \/ EndDecode

-----------------------------------------------------------------------------
(* What was decoded is encoded and decoded again.                          *)
Again ==
    /\ phase = "done" /\ ~diags /\ pass = 1
    /\ phase' = "encode" /\ pass' = 2 /\ edits' = 0
    /\ module' = out
    /\ bytes' = <<>>
    /\ out' = EmptyModule /\ side' = NoSide /\ seen' = {}
    /\ lastSectionOrder' = 0 /\ lastStandardSectionID' = -1
    /\ UNCHANGED <<rest, diags, integer>>

ReadInteger ==
    /\ phase = "integer" /\ integer = <<>>
    /\ integer' = [u32 |-> readU32(bytes), s32 |-> readS32(bytes), s33 |-> readS33(bytes),
                   u64 |-> readU64(bytes), s64 |-> readS64(bytes)]
    /\ UNCHANGED <<phase, pass, edits, module, bytes, rest, reader, diags>>

Next == Encode \/ Tamper \/ Decode \/ Again \/ ReadInteger

Spec == Init /\ [][Next]_vars

-----------------------------------------------------------------------------
(* Properties.                                                             *)

Span(k) == CASE k = "u32" -> 0 .. (2^Width.u32 - 1)
             [] k = "u64" -> 0 .. (2^Width.u64 - 1)
             [] OTHER -> (-(2^(Width[k] - 1))) .. (2^(Width[k] - 1) - 1)

(* What bytes say as an integer of a kind: n groups of seven bits, in two's*)
(* complement for the signed kinds; no more groups than the width needs.   *)
Meaning(b, k) ==
    LET ends == {i \in DOMAIN b : b[i] < 128}
        n == IF ends = {} THEN 0 ELSE Min(ends)
        sum == FoldLeft(LAMBDA acc, i : acc + (b[i] % 128) * 128^(i - 1), 0, [i \in 1 .. n |-> i])
        v == IF k \in {"s32", "s33", "s64"} /\ b[n] >= 64 THEN sum - 128^n ELSE sum
    IN  IF n = 0 \/ 7 * (n - 1) >= Width[k] THEN Bad
        ELSE IF v \in Span(k) THEN Good(v, From(b, n + 1)) ELSE Bad

(* The readers of decode.go accept a byte sequence exactly when it is not  *)
(* longer than the width allows and its value is in range, and return that *)
(* value: the checks of the unused bits of the last byte neither refuse a  *)
(* value that fits nor let one through that does not.  writeULEB128 and     *)
(* writeSLEB128 write a value so that it reads back, and no longer than    *)
(* any bytes that say the same.                                            *)
LebExact ==
    integer # <<>> =>
        \A k \in DOMAIN integer :
            /\ integer[k] = Meaning(bytes, k)
            /\ \A q \in integer[k] :
                LET again == IF k \in {"u32", "u64"} THEN writeULEB128(q[1]) ELSE writeSLEB128(q[1])
                IN  Meaning(again, k) = Good(q[1], <<>>) /\ Len(again) + Len(q[2]) <= Len(bytes)

(* Each section is read to its end.                                        *)
ReadWhole(id, payload) ==
    CASE id = ID.custom -> decodeCustom(payload, NoNames, 0)
      [] id = ID.type -> decodeTypeSection(payload)
      [] id \in {ID.start, ID.datacount} -> readU32(payload)
      [] id = ID.import -> Vector(decodeImport, payload)
      [] id = ID.function -> Vector(readU32, payload)
      [] id = ID.table -> Vector(decodeTable, payload)
      [] id = ID.memory -> Vector(decodeMemory, payload)
      [] id = ID.tag -> Vector(decodeTag, payload)
      [] id = ID.global -> Vector(decodeGlobal, payload)
      [] id = ID.export -> Vector(decodeExport, payload)
      [] id = ID.element -> Vector(decodeElement, payload)
      [] id = ID.code -> Vector(decodeCode, payload)
      [] id = ID.data -> Vector(decodeData, payload)
      [] OTHER -> Bad

(* What the binary format says of the sections of a module and what they   *)
(* hold: all whole, the standard ones once and in order, the counts of one *)
(* about another true.                                                     *)
SectionsFit(ss, held) ==
    LET standard == SelectSeq(ss, LAMBDA s : s.id # ID.custom)
        Held(id, default) ==
            IF \E i \in DOMAIN ss : ss[i].id = id
            THEN {q[1] : q \in UNION {held[i] : i \in {j \in DOMAIN ss : ss[j].id = id}}} ELSE {default}
    IN  /\ \A i, j \in DOMAIN standard :
              i < j => \E p, q \in DOMAIN Order :
                         p < q /\ Order[p] = standard[i].id /\ Order[q] = standard[j].id
        /\ \A i \in DOMAIN ss : \E q \in held[i] : q[2] = <<>>
        /\ \A code \in Held(ID.code, <<>>) :
             /\ \A funcs \in Held(ID.function, <<>>) : Len(funcs) = Len(code)
             /\ moduleUsesBulkMemoryData(code) => \E i \in DOMAIN ss : ss[i].id = ID.datacount
        /\ \A data \in Held(ID.data, <<>>) : \A n \in Held(ID.datacount, Len(data)) : n = Len(data)
WellFormed(b) ==
    /\ decodePreamble(b)
    /\ \E q \in Split(Body(b)) :
         \E held \in {[i \in DOMAIN q[1] |-> ReadWhole(q[1][i].id, q[1][i].payload)]} : SectionsFit(q[1], held)

(* However the sections of a module come, repeated, moved, cut short, with *)
(* unknown or custom ones in between, DecodeModule accepts exactly when    *)
(* they are whole, each at most once and in the order of the format, and   *)
(* the counts that sections give of one another agree.                     *)
SectionsExact == phase = "done" => (diags <=> ~WellFormed(bytes))

(* What encoding keeps of a module: everything, but names lose a leading $ *)
(* and lists of names without any are left out, and an offset that lowering*)
(* gave as a number becomes an expression.                                 *)
NamesWritten(names) ==
    IF \A i \in DOMAIN names : names[i] = <<>> THEN <<>> ELSE [i \in DOMAIN names |-> sourceIDName(names[i])]
Offset(seg) ==
    IF seg.mode # "active" \/ seg.offset # <<>> THEN [seg EXCEPT !.at = NoOffset]
    ELSE [seg EXCEPT !.at = NoOffset, !.offset = <<OffsetConst(seg.at)>>]
Written(m) ==
    LET FieldWritten(f) == [f EXCEPT !.name = sourceIDName(f.name)]
        TypeWritten(t) == [t EXCEPT !.name = sourceIDName(t.name),
                                    !.shape.fields = [i \in DOMAIN @ |-> FieldWritten(@[i])]]
        FuncWritten(fn) == [fn EXCEPT !.name = sourceIDName(fn.name), !.params = NamesWritten(fn.params),
                                      !.localNames = NamesWritten(fn.localNames)]
    IN  [m EXCEPT !.name = sourceIDName(m.name),
                  !.types = [i \in DOMAIN @ |-> TypeWritten(@[i])],
                  !.funcs = [i \in DOMAIN @ |-> FuncWritten(@[i])],
                  !.tags = [i \in DOMAIN @ |-> [@[i] EXCEPT !.name = sourceIDName(@)]],
                  !.elems = [i \in DOMAIN @ |-> Offset(@[i])],
                  !.data = [i \in DOMAIN @ |-> Offset(@[i])]]

(* What the encoder cannot say: a custom section that follows a section it *)
(* leaves out, a 64-bit table with an initial value, and the type of a     *)
(* segment without elements.                                               *)
Lossless(m) ==
    /\ \A c \in ToSet(m.customs) : c.after = -1 \/ SectionPayload(m, c.after) # <<>>
    /\ \A t \in ToSet(m.tables) : t.init # <<>> => t.limits.addr = "i32"
    /\ \A e \in ToSet(m.elems) : e.exprs = <<>> => e.type = FuncRef

(* What EncodeModule writes, DecodeModule accepts, and it reads the module *)
(* that was written: every index, immediate, flag, name and custom section *)
(* is where it was.  This holds of modules as lowering makes them, and of  *)
(* every module that was accepted from another producer.                   *)
RoundTrip ==
    phase = "done" /\ edits = 0 /\ Lossless(module) => ~diags /\ out = Written(module)
==============================================================================
