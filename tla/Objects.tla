------------------------------ MODULE Objects ------------------------------
(***************************************************************************)
(* Structs, arrays and references on the heap: the GC instructions of      *)
(* internal/vm/execute.go, with the rules by which internal/validate lets  *)
(* a body use them.                                                        *)
(*                                                                         *)
(* A step is one instruction of a validated body of some instance, or a    *)
(* value that a call hands from one instance to another. Operands come     *)
(* from, and results go to, registers: locals of declared types. At run    *)
(* time a value carries a type too, its tag, which most instructions do    *)
(* not look at, some compare for equality and refMatches reads.            *)
(*                                                                         *)
(* Numbers are kept modulo two bytes, results that are numbers are         *)
(* dropped, and nothing is collected: an object without references changes *)
(* no more.                                                                *)
(***************************************************************************)
EXTENDS RefTypes

CONSTANTS
  Reg,         \* [Insts -> Seq of nullable reference types], the locals there may be
  Programs,    \* bound: which instructions, locals and types occur together
  Funcs,       \* Seq([inst, type]), the functions of all instances
  Data,        \* [Insts -> Seq(Seq of bytes)], the data segments
  Elems,       \* [Insts -> Seq([type, values])], the element segments
  Hosts,       \* the references a host makes, as numbers
  Base,        \* the number of values of a byte
  I31Size,     \* the number of values of an i31
  MaxWord,     \* the largest uint32
  MaxLength    \* bound: the length of an array

VARIABLES
  program,      \* what the code in the modules consists of, one of Programs
  heap,         \* Seq of gcObject: its instance, its type there, its fields or elems
  regs,         \* [Insts -> registers], values
  dataDropped, elemDropped, \* [Insts -> Seq(BOOLEAN)]
  last          \* history: the last instruction, its outcome, and should it have failed?

vars == <<program, heap, regs, dataDropped, elemDropped, last>>

Parts == {"structs", "arrays", "data", "elems", "makes", "casts", "conversions"}
\* The locals each instance uses, the types its casts, selects and nulls name, and the
\* objects that are made.
ProgramsOver(I) == [parts : SUBSET Parts, locals : [I -> SUBSET Nat], casts : [I -> SUBSET RefTypes], objects : Nat]
Locals(i) == program.locals[i]
CastTypes(i) == program.casts[i]

Words == 0 .. MaxWord
Byte == 0 .. Base - 1
Numbers == 0 .. Base * Base - 1

-----------------------------------------------------------------------------
(* Values *)

\* A reference: its kind, and which object, function, host reference or i31 it
\* is. An extern reference may wrap one of another kind: then wrapped is that
\* kind, and tag the type that the value inside carries.
NoRef == [kind |-> "null", of |-> 0, wrapped |-> "no", tag |-> I32]
Value(t, n) == [type |-> t, num |-> n, ref |-> NoRef]
RefValue(t, kind, of) == 
  [type |-> t, num |-> 0, ref |-> [kind |-> kind, of |-> of, wrapped |-> "no", tag |-> I32]]
zeroValue(t) == Value(t, 0)

IsNull(v) == v.ref.kind = "null"
Tagged(v, t) == [v EXCEPT !.type = t]
AsNonNull(v) == Tagged(v, NonNull(v.type))

\* Mutant: packed fields keep the whole operand.
normalizeNothing(f, v) == v

\* normalizeFieldValue: a packed field keeps the low bytes.
normalizeFieldValue(f, v) == IF f.packed = "i8" THEN [v EXCEPT !.num = @ % Base] ELSE v

FieldOf(td, n) == IF td.kind = "array" THEN td.fields[1] ELSE td.fields[n]
Elem(i, k) == Types[i][k].fields[1]

\* What a body may take as an operand where a t is wanted: a register, perhaps
\* after ref.as_non_null or br_on_null; or a number.
Operands(i) ==
  {[v |-> regs[i][r], t |-> Reg[i][r]] : r \in Locals(i)}
    \cup {[v |-> AsNonNull(regs[i][r]), t |-> NonNull(Reg[i][r])] :
            r \in {r \in Locals(i) : ~IsNull(regs[i][r])}}
Given(i, t) ==
  IF t.kind = "ref" THEN {o.v : o \in {o \in Operands(i) : Accepts(i, o.t, i, t)}}
                    ELSE {Value(t, n) : n \in Numbers}

-----------------------------------------------------------------------------
(* Run-time types *)

Object(v) == heap[v.ref.of]

\* Mutant: only the type an object was made with will do.
objectMatchesTypeExact(i, obj, k) == obj.inst = i /\ obj.type = k

\* obj may be used where type k of i is expected
objectMatchesType(i, obj, k) == TypeSubtype(obj.inst, obj.type, i, k)

\* Mutant: an object has the type it was made with, and no other.
refMatchesMadeWith(i, v, k) ==
  v.ref.kind \in {"struct", "array"} /\ Object(v).inst = i /\ Object(v).type = k

refMatchesTypeIndex(i, v, k) ==
  \/ /\ v.ref.kind = "func" /\ typeIndexHasKind(i, k, "func")
     /\ TypeSubtype(Funcs[v.ref.of].inst, Funcs[v.ref.of].type, i, k)
  \/ v.ref.kind \in {"struct", "array"} /\ objectMatchesType(i, Object(v), k)

refMatches(i, v, t) ==
  IF IsNull(v) THEN t.nullable
  ELSE IF v.type.heap = "extern" THEN t.heap = "extern"
  ELSE \/ t.heap = "any" /\ v.ref.kind \in {"i31", "struct", "array", "extern"}
       \/ t.heap = "eq" /\ v.ref.kind \in {"i31", "struct", "array"}
       \/ t.heap \in {"i31", "struct", "array", "func", "extern", "exn"} /\ v.ref.kind = t.heap
       \/ t.heap = "index" /\ refMatchesTypeIndex(i, v, t.index)

\* The most special type of a reference, and the instance in whose terms it is.
RuntimeType(v) ==
  CASE v.ref.kind = "i31" -> Ref("i31", FALSE)
    [] v.ref.kind \in {"struct", "array"} -> RefTypeIndexed(Object(v).type, FALSE)
    [] v.ref.kind = "func" -> RefTypeIndexed(Funcs[v.ref.of].type, FALSE)
    [] OTHER -> Ref(IF v.type.heap = "extern" THEN "extern" ELSE "any", FALSE)
Owner(i, v) ==
  CASE v.ref.kind \in {"struct", "array"} -> Object(v).inst
    [] v.ref.kind = "func" -> Funcs[v.ref.of].inst
    [] OTHER -> i

\* v is a value of type t of i: what the validator takes for granted.
Has(v, i, t) ==
  IF t.kind = "ref"
    THEN v.type.kind = "ref" /\ IF IsNull(v) THEN t.nullable ELSE Accepts(Owner(i, v), RuntimeType(v), i, t)
    ELSE v.type = t

Hierarchy(i, t) ==
  CASE t.heap \in {"any", "eq", "i31", "struct", "array", "none"} -> "any"
    [] t.heap \in {"func", "nofunc"} -> "func"
    [] t.heap \in {"extern", "noextern"} -> "extern"
    [] t.heap = "index" -> IF typeIndexHasKind(i, t.index, "func") THEN "func" ELSE "any"
    [] OTHER -> "exn"

-----------------------------------------------------------------------------
(* Outcomes *)

segments == <<dataDropped, elemDropped>>

\* The history of a step that succeeds, and should, is Fine whatever the instruction.
Fine == [op |-> "any", out |-> "ok", must |-> FALSE]
Outcome(op, out, must) ==
  last' = IF out = "ok" /\ ~must THEN Fine ELSE [op |-> op, out |-> out, must |-> must]

\* "trap" is an error that WebAssembly asks for; "tag", "width" and "fault" are
\* errors of the executor itself.
Fails(op, out, must) == Outcome(op, out, must) /\ UNCHANGED <<heap, regs, segments>>

\* The result v, of static type t, goes to a register that may hold it.
Keep(i, t, v) ==
  IF t.kind = "ref" THEN \E r \in Locals(i) : /\ Accepts(i, t, i, Reg[i][r])
                                             /\ regs' = [regs EXCEPT ![i][r] = v]
                    ELSE UNCHANGED regs

\* popArrayRef, and the same checks of struct.get and struct.set: the reference v of
\* an instruction of type k.
popObject(i, v, k) ==
  IF IsNull(v) THEN "trap"
  ELSE IF v.ref.kind = Types[i][k].kind /\ objectMatchesType(i, Object(v), k) THEN "ok" ELSE "fault"

Refuses(op, i, v, k) == popObject(i, v, k) # "ok" /\ Fails(op, popObject(i, v, k), IsNull(v))

Write(v, cells) == heap' = [heap EXCEPT ![v.ref.of].cells = cells]

\* newStructRef, newArrayRef
Allocate(op, i, k, cells, must) ==
  /\ Len(heap) < program.objects
  /\ heap' = Append(heap, [inst |-> i, type |-> k, cells |-> cells])
  /\ Keep(i, RefTypeIndexed(k, FALSE), RefValue(RefTypeIndexed(k, FALSE), Types[i][k].kind, Len(heap) + 1))
  /\ Outcome(op, "ok", must)
  /\ UNCHANGED segments

\* popWant: a tag must be the type of the field, not below it.
popWant(v, f) == v.type = fieldValueType(f)

\* arrayRange: length cells from start lie within an array of len.
arrayRange(len, start, length) == start <= len /\ length <= len - start

-----------------------------------------------------------------------------
(* The rules of validateFunction: what the operands of an instruction may be *)

StructNewOperands(i, k) ==
  LET fields == Types[i][k].fields
      Cell(n) == Given(i, fieldValueType(fields[n]))
  IN  {cells \in [DOMAIN fields -> UNION {Cell(n) : n \in DOMAIN fields}] : \A n \in DOMAIN fields : cells[n] \in Cell(n)}

DefaultStructs(i) == {k \in Structs(i) : \A n \in DOMAIN Types[i][k].fields : isDefaultableFieldType(Types[i][k].fields[n])}

\* Of struct.get and array.get, with or without a sign.
StructGetOperands(i, k) == Given(i, RefTypeIndexed(k, TRUE))
ArrayGetOperands(i, k) == Given(i, RefTypeIndexed(k, TRUE))

StructSetOperands(i, k, n) ==
  LET f == Types[i][k].fields[n] IN
  IF f.mutable THEN Given(i, RefTypeIndexed(k, TRUE)) \X Given(i, fieldValueType(f)) ELSE {}

DefaultArrays(i) == {k \in Arrays(i) : isDefaultableFieldType(Elem(i, k))}
ArrayNewOperands(i, k) == Given(i, fieldValueType(Elem(i, k)))
ArrayNewFixedOperands(i, k, length) == [1 .. length -> Given(i, fieldValueType(Elem(i, k)))]

\* The segments that array.new_data and array.new_elem may name.
ArrayNewData(i, k) == DOMAIN Data[i]
ArrayNewElem(i, k) == {d \in DOMAIN Elems[i] : Accepts(i, Elems[i][d].type, i, fieldValueType(Elem(i, k)))}

MutableArrays(i) == {k \in Arrays(i) : Elem(i, k).mutable}
ArraySetOperands(i, k) ==
  IF k \in MutableArrays(i) THEN Given(i, RefTypeIndexed(k, TRUE)) \X Given(i, fieldValueType(Elem(i, k))) ELSE {}
ArrayFillOperands(i, k) == 
  IF k \in MutableArrays(i) THEN Given(i, RefTypeIndexed(k, TRUE)) \X Given(i, fieldValueType(Elem(i, k))) ELSE {}
ArrayInitDataOperands(i, k) ==
  IF k \in MutableArrays(i) /\ HasByteWidth(Elem(i, k)) THEN Given(i, RefTypeIndexed(k, TRUE)) \X DOMAIN Data[i] ELSE {}
ArrayInitElemOperands(i, k) ==
  IF k \in MutableArrays(i) THEN Given(i, RefTypeIndexed(k, TRUE)) \X ArrayNewElem(i, k) ELSE {}
\* Mutant: an immutable array can be a destination.
ArrayCopyOperandsAny(i, k, l) ==
  IF sameFieldStorage(Elem(i, k), Elem(i, l))
    THEN Given(i, RefTypeIndexed(k, TRUE)) \X Given(i, RefTypeIndexed(l, TRUE)) ELSE {}

ArrayCopyOperands(i, k, l) ==
  IF k \in MutableArrays(i) /\ sameFieldStorage(Elem(i, k), Elem(i, l))
    THEN Given(i, RefTypeIndexed(k, TRUE)) \X Given(i, RefTypeIndexed(l, TRUE)) ELSE {}

\* ref.test and ref.cast take any reference and name any type; br_on_cast goes from a type
\* to one below it.
RefTestOperands(i) == Operands(i)
RefCastOperands(i) == Operands(i)
BrOnCastOperands(i, s, t) == IF Accepts(i, t, i, s) THEN Given(i, s) ELSE {}

ExternConvertAnyOperands(i) == {o \in Operands(i) : Accepts(i, o.t, i, Ref("any", TRUE))}
AnyConvertExternOperands(i) == {o \in Operands(i) : Accepts(i, o.t, i, Ref("extern", TRUE))}

-----------------------------------------------------------------------------
(* Structs *)

newStruct(i) ==
  \E k \in Structs(i) :
    LET fields == Types[i][k].fields IN
    \E cells \in StructNewOperands(i, k) :
      Allocate("struct.new", i, k, [n \in DOMAIN fields |-> normalizeFieldValue(fields[n], cells[n])], FALSE)

newDefaultStruct(i) ==
  \E k \in DefaultStructs(i) :
    LET fields == Types[i][k].fields IN
    Allocate("struct.new_default", i, k, [n \in DOMAIN fields |-> zeroValue(fieldValueType(fields[n]))], FALSE)

structGet(i) ==
  \E k \in Structs(i) : \E n \in DOMAIN Types[i][k].fields, v \in StructGetOperands(i, k) :
    \/ Refuses("struct.get", i, v, k)
    \/ /\ popObject(i, v, k) = "ok"
       /\ Keep(i, fieldValueType(Types[i][k].fields[n]), Object(v).cells[n])
       /\ Outcome("struct.get", "ok", FALSE)
       /\ UNCHANGED <<heap, segments>>

structSet(i) ==
  \E k \in Structs(i) : \E n \in DOMAIN Types[i][k].fields : \E o \in StructSetOperands(i, k, n) :
    LET f == Types[i][k].fields[n]  v == o[1]  value == o[2] IN
    \/ ~popWant(value, f) /\ Fails("struct.set", "tag", FALSE)
    \/ popWant(value, f) /\ Refuses("struct.set", i, v, k)
    \/ /\ popWant(value, f) /\ popObject(i, v, k) = "ok"
       /\ Write(v, [Object(v).cells EXCEPT ![n] = normalizeFieldValue(f, value)])
       /\ Outcome("struct.set", "ok", FALSE)
       /\ UNCHANGED <<regs, segments>>

-----------------------------------------------------------------------------
(* Arrays: making them *)

Lengths == 0 .. MaxLength

newArray(i) ==
  \E k \in Arrays(i), length \in Lengths : \E value \in ArrayNewOperands(i, k) :
    \/ ~popWant(value, Elem(i, k)) /\ Fails("array.new", "tag", FALSE)
    \/ /\ popWant(value, Elem(i, k))
       /\ Allocate("array.new", i, k, [n \in 1 .. length |-> normalizeFieldValue(Elem(i, k), value)], FALSE)

newFixedArray(i) ==
  \E k \in Arrays(i), length \in Lengths : \E cells \in ArrayNewFixedOperands(i, k, length) :
      Allocate("array.new_fixed", i, k, [n \in 1 .. length |-> normalizeFieldValue(Elem(i, k), cells[n])], FALSE)

newDefaultArray(i) ==
  \E k \in DefaultArrays(i), length \in Lengths :
    Allocate("array.new_default", i, k, [n \in 1 .. length |-> zeroValue(fieldValueType(Elem(i, k)))], FALSE)

\* The elements that length cells of field f have in data segment d from offset on.
valueFromArrayData(f, bytes, at) ==
  Value(fieldValueType(f), IF fieldByteWidth(f) = 1 THEN bytes[at] ELSE bytes[at] + Base * bytes[at + 1])
arrayValuesFromData(i, f, d, offset, length) ==
  IF dataDropped[i][d] THEN <<>>
  ELSE [n \in 1 .. length |-> valueFromArrayData(f, Data[i][d], offset + ((n - 1) * fieldByteWidth(f)) + 1)]

\* Mutant: whether the segment was dropped is not looked at.
DataOutcomeAnyway(i, f, d, offset, length) ==
  IF ~HasByteWidth(f) THEN "width"
  ELSE IF offset <= Len(Data[i][d]) /\ length * fieldByteWidth(f) <= Len(Data[i][d]) - offset
         THEN "ok" ELSE "trap"

\* What arrayValuesFromData reports: a segment is read at its bytes, a dropped
\* one not at all.
DataOutcome(i, f, d, offset, length) ==
  IF dataDropped[i][d] THEN (IF length = 0 THEN "ok" ELSE "trap")
  ELSE IF ~HasByteWidth(f) THEN "width"
  ELSE IF offset <= Len(Data[i][d]) /\ length * fieldByteWidth(f) <= Len(Data[i][d]) - offset
         THEN "ok" ELSE "trap"

arrayValuesFromElem(i, d, offset, length) ==
  IF elemDropped[i][d] THEN <<>> ELSE SubSeq(Elems[i][d].values, offset + 1, offset + length)

ElemOutcome(i, d, offset, length) ==
  IF IF elemDropped[i][d] THEN length = 0 ELSE arrayRange(Len(Elems[i][d].values), offset, length)
    THEN "ok" ELSE "trap"

\* What an empty read may do is left to the code: a dropped segment has no bytes,
\* but nothing is read of it.
DataMustTrap(i, f, d, offset, length) ==
  IF dataDropped[i][d] THEN length > 0 
  ELSE HasByteWidth(f) /\ offset + (length * fieldByteWidth(f)) > Len(Data[i][d])
ElemMustTrap(i, d, offset, length) ==
  IF elemDropped[i][d] THEN length > 0 ELSE offset + length > Len(Elems[i][d].values)

newDataArray(i) ==
  \E k \in Arrays(i), offset \in Words, length \in Lengths : \E d \in ArrayNewData(i, k) :
    LET f == Elem(i, k)
        out == DataOutcome(i, f, d, offset, length)
        must == DataMustTrap(i, f, d, offset, length)
    IN  \/ out # "ok" /\ Fails("array.new_data", out, must)
        \/ out = "ok" /\ Allocate("array.new_data", i, k, arrayValuesFromData(i, f, d, offset, length), must)

newElemArray(i) ==
  \E k \in Arrays(i), offset \in Words, length \in Lengths : \E d \in ArrayNewElem(i, k) :
    LET out == ElemOutcome(i, d, offset, length)
        must == ElemMustTrap(i, d, offset, length)
    IN  \/ out # "ok" /\ Fails("array.new_elem", out, must)
        \/ out = "ok" /\ Allocate("array.new_elem", i, k, arrayValuesFromElem(i, d, offset, length), must)

-----------------------------------------------------------------------------
(* Arrays: using them *)

Cells(v) == Object(v).cells

arrayLen(i) ==
  \E v \in Given(i, Ref("array", TRUE)) :
    \/ IsNull(v) /\ Fails("array.len", "trap", TRUE)
    \/ ~IsNull(v) /\ Fails("array.len", IF v.ref.kind = "array" THEN "ok" ELSE "fault", FALSE)

arrayGet(i) ==
  \E k \in Arrays(i), index \in Words : \E v \in ArrayGetOperands(i, k) :
    \/ Refuses("array.get", i, v, k)
    \/ /\ popObject(i, v, k) = "ok"
       /\ \/ index >= Len(Cells(v)) /\ Fails("array.get", "trap", TRUE)
          \/ /\ index < Len(Cells(v))
             /\ Keep(i, fieldValueType(Elem(i, k)), Cells(v)[index + 1])
             /\ Outcome("array.get", "ok", FALSE)
             /\ UNCHANGED <<heap, segments>>

\* The instructions that write a range of an array: values[n] goes to its n-th cell.
Overwrite(op, v, start, length, values, must) ==
  /\ Write(v, [n \in DOMAIN Cells(v) |-> IF start < n /\ n <= start + length THEN values[n - start] ELSE Cells(v)[n]])
  /\ Outcome(op, "ok", must)
  /\ UNCHANGED <<regs, segments>>

\* array.set is a fill of one cell.
arraySet(i) ==
  \E k \in Arrays(i), index \in Words : \E o \in ArraySetOperands(i, k) :
    LET f == Elem(i, k)  v == o[1]  value == o[2] IN
    \/ ~popWant(value, f) /\ Fails("array.set", "tag", FALSE)
    \/ popWant(value, f) /\ Refuses("array.set", i, v, k)
    \/ /\ popWant(value, f) /\ popObject(i, v, k) = "ok"
       /\ \/ index >= Len(Cells(v)) /\ Fails("array.set", "trap", TRUE)
          \/ /\ index < Len(Cells(v))
             /\ Overwrite("array.set", v, index, 1, <<normalizeFieldValue(f, value)>>, FALSE)

arrayFill(i) ==
  \E k \in Arrays(i), start, length \in Words : \E o \in ArrayFillOperands(i, k) :
    LET f == Elem(i, k)  v == o[1]  value == o[2] IN
    \/ ~popWant(value, f) /\ Fails("array.fill", "tag", FALSE)
    \/ popWant(value, f) /\ Refuses("array.fill", i, v, k)
    \/ /\ popWant(value, f) /\ popObject(i, v, k) = "ok"
       /\ LET must == start + length > Len(Cells(v)) IN
          \/ ~arrayRange(Len(Cells(v)), start, length) /\ Fails("array.fill", "trap", must)
          \/ /\ arrayRange(Len(Cells(v)), start, length)
             /\ Overwrite("array.fill", v, start, length,
                          [n \in 1 .. length |-> normalizeFieldValue(f, value)], must)

arrayInitData(i) ==
  \E k \in Arrays(i), start, offset, length \in Words : \E o \in ArrayInitDataOperands(i, k) :
    LET f == Elem(i, k)  v == o[1]  d == o[2] IN
    \/ Refuses("array.init_data", i, v, k)
    \/ /\ popObject(i, v, k) = "ok"
       /\ LET must == start + length > Len(Cells(v)) \/ DataMustTrap(i, f, d, offset, length)
              fits == arrayRange(Len(Cells(v)), start, length) /\ DataOutcome(i, f, d, offset, length) = "ok"
          IN  \/ ~fits /\ Fails("array.init_data", "trap", must)
              \/ fits /\ Overwrite("array.init_data", v, start, length,
                                  arrayValuesFromData(i, f, d, offset, length), must)

arrayInitElem(i) ==
  \E k \in Arrays(i), start, offset, length \in Words : \E o \in ArrayInitElemOperands(i, k) :
    LET v == o[1]  d == o[2] IN
    \/ Refuses("array.init_elem", i, v, k)
    \/ /\ popObject(i, v, k) = "ok"
       /\ LET must == start + length > Len(Cells(v)) \/ ElemMustTrap(i, d, offset, length)
              fits == arrayRange(Len(Cells(v)), start, length) /\ ElemOutcome(i, d, offset, length) = "ok"
          IN  \/ ~fits /\ Fails("array.init_elem", "trap", must)
              \/ fits /\ Overwrite("array.init_elem", v, start, length,
                                  arrayValuesFromElem(i, d, offset, length), must)

arrayCopy(i) ==
  \E k, l \in Arrays(i), start, from, length \in Words : \E o \in ArrayCopyOperands(i, k, l) :
    LET dst == o[1]  src == o[2] IN
    \/ Refuses("array.copy", i, src, l)
    \/ popObject(i, src, l) = "ok" /\ Refuses("array.copy", i, dst, k)
    \/ /\ popObject(i, src, l) = "ok" /\ popObject(i, dst, k) = "ok"
       /\ LET must == start + length > Len(Cells(dst)) \/ from + length > Len(Cells(src))
              fits == arrayRange(Len(Cells(dst)), start, length) /\ arrayRange(Len(Cells(src)), from, length)
          IN  \/ ~fits /\ Fails("array.copy", "trap", must)
              \/ fits /\ Overwrite("array.copy", dst, start, length,
                                  SubSeq(Cells(src), from + 1, from + length), must)

DropData(i) == 
  \E d \in DOMAIN Data[i] :
    /\ dataDropped' = [dataDropped EXCEPT ![i][d] = TRUE]
    /\ Outcome("data.drop", "ok", FALSE)
    /\ UNCHANGED <<heap, regs, elemDropped>>

DropElem(i) ==
  \E d \in DOMAIN Elems[i] :
    /\ elemDropped' = [elemDropped EXCEPT ![i][d] = TRUE]
    /\ Outcome("elem.drop", "ok", FALSE)
    /\ UNCHANGED <<heap, regs, dataDropped>>

-----------------------------------------------------------------------------
(* References *)

\* A reference without an object: v, of static type t.
Make(op, i, t, v) == Keep(i, t, v) /\ Outcome(op, "ok", FALSE) /\ UNCHANGED <<heap, segments>>

refNull(i) == \E t \in CastTypes(i) : Make("ref.null", i, OrNull(t), zeroValue(OrNull(t)))

refI31(i) == 
  \E n \in Numbers : Make("ref.i31", i, Ref("i31", FALSE), RefValue(Ref("i31", FALSE), "i31", n % I31Size))

refFunc(i) ==
  \E f \in DOMAIN Funcs :
    /\ Funcs[f].inst = i
    /\ Make("ref.func", i, RefTypeIndexed(Funcs[f].type, FALSE), RefValue(Ref("func", FALSE), "func", f))

\* The host calls with a reference of its own.
HostRef(i) ==
  \E h \in Hosts : Make("host", i, Ref("extern", FALSE), RefValue(Ref("extern", FALSE), "extern", h))

i31Get(i) ==
  \E v \in Given(i, Ref("i31", TRUE)) :
    \/ IsNull(v) /\ Fails("i31.get", "trap", TRUE)
    \/ ~IsNull(v) /\ Fails("i31.get", IF v.ref.kind = "i31" THEN "ok" ELSE "fault", FALSE)

\* The validator does not ask that a cast stays within a hierarchy; what it means
\* is clear only then. A function, which the validator takes for an any reference
\* (matchesRefType), may be asked for as one.
CastName(i, v, from, to) ==
  IF Hierarchy(i, from) # Hierarchy(i, to) THEN "cast elsewhere"
  ELSE IF v.ref.kind = "func" /\ to.heap = "any" THEN "cast of function"
  ELSE "cast"

refTest(i) ==
  \E o \in RefTestOperands(i), t \in CastTypes(i) :
    Fails(CastName(i, o.v, o.t, t), IF refMatches(i, o.v, t) THEN "ok" ELSE "no", ~Has(o.v, i, t))

refCast(i) ==
  \E o \in RefCastOperands(i), t \in CastTypes(i) :
    \/ ~refMatches(i, o.v, t) /\ Fails(CastName(i, o.v, o.t, t), "trap", ~Has(o.v, i, t))
    \/ /\ refMatches(i, o.v, t)
       /\ Keep(i, t, Tagged(o.v, t))
       /\ Outcome(CastName(i, o.v, o.t, t), "ok", ~Has(o.v, i, t))
       /\ UNCHANGED <<heap, segments>>

\* br_on_cast from s to t, and br_on_cast_fail, which branches in the other case:
\* one register stands for the operand of the target, one for what falls through.
brOnCast(i) ==
  \E s, t \in CastTypes(i) : \E v \in BrOnCastOperands(i, s, t) :
    /\ \/ /\ refMatches(i, v, t)
          /\ Keep(i, t, Tagged(v, t))
          /\ Outcome(CastName(i, v, s, t), "ok", ~Has(v, i, t))
       \/ /\ ~refMatches(i, v, t)
          /\ Keep(i, diffRefType(s, t), Tagged(v, s))
          /\ Outcome(CastName(i, v, s, t), "no", ~Has(v, i, t))
    /\ UNCHANGED <<heap, segments>>

\* select with a type: the operand selected gets that type as its tag.
evalTypedSelect(i) ==
  \E t \in CastTypes(i) : \E v \in Given(i, t) : Make("select", i, t, Tagged(v, t))

externConvertAny(i) ==
  \E o \in ExternConvertAnyOperands(i) :
    LET t == Ref("extern", o.v.type.nullable) IN
    Make("extern.convert_any", i, Ref("extern", o.t.nullable),
            IF o.v.ref.kind \in {"null", "extern"} THEN Tagged(o.v, t)
            ELSE [type |-> t, num |-> 0, 
                  ref |-> [kind |-> "extern", of |-> o.v.ref.of, wrapped |-> o.v.ref.kind, tag |-> o.v.type]])

anyConvertExtern(i) ==
  \E o \in AnyConvertExternOperands(i) :
    Make("any.convert_extern", i, Ref("any", o.t.nullable),
            IF o.v.ref.wrapped # "no" THEN RefValue(o.v.ref.tag, o.v.ref.wrapped, o.v.ref.of)
            ELSE Tagged(o.v, Ref("any", o.v.type.nullable)))

\* A value moves: local.set, an argument, a result, a global or a table that
\* instances share. The types of both sides were compared when they were linked.
Pass(i, j) ==
  \E o \in Operands(i), r \in Locals(j) :
    /\ Accepts(i, o.t, j, Reg[j][r])
    /\ regs' = [regs EXCEPT ![j][r] = o.v]
    /\ Outcome("pass", "ok", FALSE)
    /\ UNCHANGED <<heap, segments>>

-----------------------------------------------------------------------------

Init ==
  /\ program \in Programs
  /\ heap = <<>>
  /\ regs = [i \in Insts |-> [r \in Locals(i) |-> zeroValue(Reg[i][r])]]
  /\ dataDropped = [i \in Insts |-> [d \in DOMAIN Data[i] |-> FALSE]]
  /\ elemDropped = [i \in Insts |-> [d \in DOMAIN Elems[i] |-> FALSE]]
  /\ last = Fine

StructStep(i) == newStruct(i) \/ newDefaultStruct(i) \/ structGet(i) \/ structSet(i)
ArrayStep(i) ==
  \/ newArray(i) \/ newFixedArray(i) \/ newDefaultArray(i) 
  \/ arrayLen(i) \/ arrayGet(i) \/ arraySet(i) \/ arrayFill(i) \/ arrayCopy(i)
DataStep(i) == newDataArray(i) \/ arrayInitData(i) \/ DropData(i)
ElemStep(i) == newElemArray(i) \/ arrayInitElem(i) \/ DropElem(i)
MakeStep(i) == refNull(i) \/ refI31(i) \/ refFunc(i) \/ HostRef(i) \/ i31Get(i)
CastStep(i) == refTest(i) \/ refCast(i) \/ brOnCast(i) \/ evalTypedSelect(i)
ConversionStep(i) == externConvertAny(i) \/ anyConvertExtern(i)

\* An instruction that fails changes nothing, and ends its frame. What other frames do then
\* they may do before it too.
Next ==
  /\ last.out \in {"ok", "no"}
  /\ \/ \E i \in Insts :
          \/ "structs" \in program.parts /\ StructStep(i)
          \/ "arrays" \in program.parts /\ ArrayStep(i)
          \/ "data" \in program.parts /\ DataStep(i)
          \/ "elems" \in program.parts /\ ElemStep(i)
          \/ "makes" \in program.parts /\ MakeStep(i)
          \/ "casts" \in program.parts /\ CastStep(i)
          \/ "conversions" \in program.parts /\ ConversionStep(i)
     \/ \E i, j \in Insts : Pass(i, j)
  /\ UNCHANGED program

Spec == Init /\ [][Next]_vars

-----------------------------------------------------------------------------

\* Locals that have a default: the others are not read before they are set.
ASSUME RegAssumption ==
  /\ Reg \in [Insts -> Seq(RefTypes)] /\ \A i \in Insts : \A r \in DOMAIN Reg[i] : Reg[i][r].nullable
  /\ \A p \in Programs : p \in ProgramsOver(Insts) /\ \A i \in Insts : p.locals[i] \subseteq DOMAIN Reg[i]

ASSUME BoundsAssumption ==
  {Base, I31Size, MaxWord, MaxLength} \cup Hosts \subseteq Nat /\ Base > 0 /\ I31Size > 0

\* Element segments hold nulls, i31 references and functions of their type. Functions have
\* function types.
ElemOK(i, v, t) ==
  /\ v.num = 0 /\ v.type \in RefTypes /\ v.type.heap # "extern" /\ v.ref.wrapped = "no" /\ v.ref.tag = I32
  /\ \/ v.ref.kind = "null" /\ v.ref.of = 0 /\ t.nullable
     \/ v.ref.kind = "i31" /\ v.ref.of \in 0 .. I31Size - 1 /\ Accepts(i, Ref("i31", FALSE), i, t)
     \/ /\ v.ref.kind = "func" /\ v.ref.of \in DOMAIN Funcs
        /\ Accepts(Funcs[v.ref.of].inst, RefTypeIndexed(Funcs[v.ref.of].type, FALSE), i, t)
ASSUME SegmentsAssumption ==
  /\ Funcs \in Seq([inst : Insts, type : Nat])
  /\ \A f \in DOMAIN Funcs : typeIndexHasKind(Funcs[f].inst, Funcs[f].type, "func")
  /\ Data \in [Insts -> Seq(Seq(Byte))]
  /\ Elems \in [Insts -> Seq([type : RefTypes, values : Seq([type : ValueTypes, num : Nat, ref : 
                   [kind : {"null", "i31", "func"}, of : Nat, wrapped : {"no"}, tag : ValueTypes]])])]
  /\ \A i \in Insts : \A d \in DOMAIN Elems[i] : \A n \in DOMAIN Elems[i][d].values :
       ElemOK(i, Elems[i][d].values[n], Elems[i][d].type)

-----------------------------------------------------------------------------
(* Properties *)

\* A value is well formed: its reference leads to an object of its kind or a
\* function, only host references are extern, or wrap, and what they wrap is an
\* any reference.
RefOK(v, kind) ==
  /\ kind \in {"struct", "array"} => v.ref.of \in DOMAIN heap /\ Types[Object(v).inst][Object(v).type].kind = kind
  /\ kind = "func" => v.ref.of \in DOMAIN Funcs
ValueOK(v) ==
  /\ v.type \in ValueTypes /\ v.num \in Numbers
  /\ v.ref.kind \in {"null", "func", "extern", "i31", "struct", "array"} /\ v.ref.of \in Nat
  /\ RefOK(v, v.ref.kind)
  /\ v.type.heap = "extern" => v.ref.kind \in {"null", "extern"}
  /\ v.ref.wrapped # "no" => /\ v.ref.kind = "extern" /\ v.ref.wrapped \in {"i31", "struct", "array", "func"}
                             /\ v.ref.tag \in RefTypes /\ v.ref.tag.heap # "extern"
                             /\ v.type.heap = "extern" /\ RefOK(v, v.ref.wrapped)

\* What a field holds: a packed one, no more than its bytes.
FieldHolds(i, f, v) ==
  /\ ValueOK(v) /\ Has(v, i, fieldValueType(f))
  /\ f.packed = "i8" => v.num \in Byte

\* Type soundness of the heap (validate.go:2047, execute.go:2242): whatever
\* instructions of whatever instances have run, every register and every field holds a
\* value of its declared type, in terms of the module that declares it, whichever
\* supertype, module, segment or cast it came through, and a packed field only its bytes.
HeapTyped ==
  /\ \A i \in Insts : \A r \in Locals(i) : ValueOK(regs[i][r]) /\ Has(regs[i][r], i, Reg[i][r])
  /\ \A o \in DOMAIN heap : \A n \in DOMAIN heap[o].cells :
       FieldHolds(heap[o].inst, FieldOf(Types[heap[o].inst][heap[o].type], n), heap[o].cells[n])

\* Run-time and static subtyping (execute.go:2137, validate.go:411): within a hierarchy, ref.test,
\* ref.cast and br_on_cast say yes exactly if the most special type of the value is, by the rules of
\* the validator, below the type asked for. The one exception is a function asked for as an any
\* reference: the validator has every type index below any (validate.go:426), and the executor
\* always says no (refInAnyHierarchy, execute.go:2201).
CastsExact ==
  /\ last.op = "cast" => (last.out = "ok" <=> ~last.must)
  /\ last.op = "cast of function" => last.out # "ok" /\ ~last.must

\* Run-time and static subtyping agree without exception (execute.go:2137: "refMatches reports
\* whether v satisfies target at runtime"): a cast within a hierarchy that must succeed does.
\* This does not hold: CastsExact says what does.
CastsAgree == last.op \in {"cast", "cast of function"} => (last.out = "ok" <=> ~last.must)

\* Ranges and dropped segments (execute.go:2837, 2876): an array instruction traps exactly if the reference is
\* null, a range does not fit in unbounded arithmetic, or it would read something of a segment that
\* was dropped; an error of another kind it may report before.
AccessExact ==
  last.op \notin {"cast", "cast of function", "cast elsewhere"} /\ last.out \in {"ok", "trap"} => (last.out = "trap" <=> last.must)

\* The executor checks again what the validator has checked (execute.go:2788). Of these checks
\* only two ever fail: a tag that is below the type of the field (popWant), and
\* array.new_data of an array of references (arrayDataFieldWidth).
TypesNeverMismatch == 
  /\ last.out # "fault"
  /\ last.out = "width" => last.op = "array.new_data"
  /\ last.out = "tag" => last.op \in {"struct.set", "array.new", "array.set", "array.fill"}

\* What the type of an object says stays true (validate.go:293): objects keep their
\* type and their length, and fields that it calls immutable their value, though the
\* object is written through supertypes and through types of other modules.
ImmutableKept ==
  [][\A o \in DOMAIN heap : 
       /\ heap'[o].inst = heap[o].inst /\ heap'[o].type = heap[o].type
       /\ DOMAIN heap'[o].cells = DOMAIN heap[o].cells
       /\ \A n \in DOMAIN heap[o].cells :
            FieldOf(Types[heap[o].inst][heap[o].type], n).mutable \/ heap'[o].cells[n] = heap[o].cells[n]]_vars

\* A validated program may store a reference wherever its type allows it
\* (gc-array-of-structs.wat:14): struct.set, array.new, array.set and array.fill do not refuse what the
\* validator let through. They do: popWant wants the tag to equal the type of the field.
SetsAccept == last.out # "tag"

=============================================================================
