------------------------------ MODULE RefTypes ------------------------------
(***************************************************************************)
(* Reference types and the struct and array types of the modules: what     *)
(* internal/validate knows of them. A type index means something only in a *)
(* module, so every operator that takes a type with an index also takes    *)
(* the instance whose module it is written in.                             *)
(*                                                                         *)
(* The answers of typeequiv.TypeSubtype are a constant here; TypeEquiv is  *)
(* about how they are found.                                               *)
(***************************************************************************)
EXTENDS Integers, Sequences

CONSTANTS
  Insts,       \* identities of instances
  Types,       \* [Insts -> Seq(TypeDefs)], Module.Types
  Subtypes     \* the <<i, a, j, b>> with type a of i a declared or equivalent subtype of type b of j

NumKinds == {"i32", "i64", "f32", "f64", "v128"}
HeapKinds == {"any", "eq", "i31", "struct", "array", "none", "func", "nofunc",
              "extern", "noextern", "exn", "noexn", "index"}

\* As in Go, fields that a kind of type does not have are zero.
ValueTypes ==
  {t \in [kind : NumKinds \cup {"ref"}, nullable : BOOLEAN, heap : HeapKinds \cup {"invalid"}, index : Nat] :
     /\ t.kind = "ref" <=> t.heap # "invalid"
     /\ t.kind # "ref" => ~t.nullable
     /\ t.heap # "index" => t.index = 0}
RefTypes == {t \in ValueTypes : t.kind = "ref"}

Num(k) == [kind |-> k, nullable |-> FALSE, heap |-> "invalid", index |-> 0]
Ref(h, null) == [kind |-> "ref", nullable |-> null, heap |-> h, index |-> 0]
RefTypeIndexed(k, null) == [kind |-> "ref", nullable |-> null, heap |-> "index", index |-> k]
I32 == Num("i32")
NonNull(t) == [t EXCEPT !.nullable = FALSE]
OrNull(t) == [t EXCEPT !.nullable = TRUE]

FieldTypes == [type : ValueTypes, packed : {"none", "i8", "i16"}, mutable : BOOLEAN]
\* The element of an array is its only field; fields of function types are left out.
TypeDefs == [kind : {"struct", "array", "func"}, fields : Seq(FieldTypes)]

fieldValueType(f) == IF f.packed = "none" THEN f.type ELSE I32

isDefaultableFieldType(f) == f.packed # "none" \/ f.type.kind # "ref" \/ f.type.nullable

sameFieldStorage(f, g) == f.packed = g.packed /\ (f.packed = "none" => f.type = g.type)

Width == [i32 |-> 4, f32 |-> 4, i64 |-> 8, f64 |-> 8, v128 |-> 16]
HasByteWidth(f) == f.packed # "none" \/ f.type.kind # "ref"
fieldByteWidth(f) == 
  CASE f.packed = "i8" -> 1 [] f.packed = "i16" -> 2 [] OTHER -> Width[f.type.kind]

-----------------------------------------------------------------------------
(* Matching of types *)

typeIndexHasKind(i, k, kind) == k \in DOMAIN Types[i] /\ Types[i][k].kind = kind

Structs(i) == {k \in DOMAIN Types[i] : Types[i][k].kind = "struct"}
Arrays(i) == {k \in DOMAIN Types[i] : Types[i][k].kind = "array"}

TypeSubtype(i, a, j, b) == <<i, a, j, b>> \in Subtypes

\* The heap type of got, in the module of i, below that of want, in that of j.
\* A type index is below any, whatever its kind.
matchesHeapType(i, got, j, want) ==
  LET IsA(kind) == got.heap = "index" /\ typeIndexHasKind(i, got.index, kind)
      WantA(kind) == typeIndexHasKind(j, want.index, kind)
  IN  \/ want.heap = "any" /\ got.heap \in {"none", "any", "eq", "i31", "array", "struct", "index"}
      \/ want.heap = "eq" /\ got.heap \in {"none", "eq", "i31", "array", "struct"}
      \/ want.heap = "eq" /\ (IsA("struct") \/ IsA("array"))
      \/ want.heap \in {"none", "i31", "array", "struct", "func", "nofunc", "extern", "noextern", "exn", "noexn"}
           /\ got.heap = want.heap
      \/ want.heap \in {"struct", "array", "func"} /\ IsA(want.heap)
      \/ want.heap = "func" /\ got.heap = "nofunc"
      \/ want.heap = "extern" /\ got.heap = "noextern"
      \/ want.heap = "exn" /\ got.heap = "noexn"
      \/ want.heap = "index" /\ got.heap = "index" /\ TypeSubtype(i, got.index, j, want.index)
      \/ want.heap = "index" /\ want.nullable /\ got.heap = "none" /\ (WantA("struct") \/ WantA("array"))
      \/ want.heap = "index" /\ want.nullable /\ got.heap = "nofunc" /\ WantA("func")

matchesRefType(i, got, j, want) ==
  /\ got.kind = "ref" /\ want.kind = "ref"
  /\ got.nullable => want.nullable
  /\ matchesHeapType(i, got, j, want)

\* matchesGCExpectedValue.
Accepts(i, got, j, want) ==
  IF got.kind = "ref" /\ want.kind = "ref" THEN matchesRefType(i, got, j, want) ELSE got = want

\* The type of what is left when a value of type src is not one of target.
diffRefType(src, target) == IF src.nullable /\ target.nullable THEN NonNull(src) ELSE src

\* isValidDeclaredSubtype, for the fields: those of the supertype come first,
\* what can be written has one type, what can only be read a more special one.
FieldBelow(i, f, j, g) ==
  /\ f.mutable = g.mutable /\ f.packed = g.packed
  /\ f.packed = "none" => /\ Accepts(i, f.type, j, g.type)
                          /\ f.mutable => Accepts(j, g.type, i, f.type)
TypeBelow(i, a, j, b) ==
  LET sub == Types[i][a]  super == Types[j][b] IN
  /\ sub.kind = super.kind
  /\ Len(super.fields) <= Len(sub.fields)
  /\ \A n \in DOMAIN super.fields : FieldBelow(i, sub.fields[n], j, super.fields[n])

-----------------------------------------------------------------------------

\* Fields have types of the module, and arrays one element type.
ASSUME TypesAssumption ==
  /\ Types \in [Insts -> Seq(TypeDefs)]
  /\ \A i \in Insts : \A k \in Arrays(i) : Len(Types[i][k].fields) = 1

\* Subtyping is a preorder (TypeEquiv computes it), and only between types that
\* ValidateModule lets be declared subtypes of each other.
ASSUME SubtypesAssumption ==
  /\ \A i, j \in Insts : \A a \in DOMAIN Types[i], b \in DOMAIN Types[j] :
       TypeSubtype(i, a, j, b) => TypeBelow(i, a, j, b)
  /\ \A i \in Insts : \A a \in DOMAIN Types[i] : TypeSubtype(i, a, i, a)
  /\ \A i, j, k \in Insts : \A a \in DOMAIN Types[i], b \in DOMAIN Types[j], c \in DOMAIN Types[k] :
       TypeSubtype(i, a, j, b) /\ TypeSubtype(j, b, k, c) => TypeSubtype(i, a, k, c)
  /\ Subtypes \subseteq Insts \X Nat \X Insts \X Nat
  /\ \A s \in Subtypes : s[2] \in DOMAIN Types[s[1]] /\ s[4] \in DOMAIN Types[s[3]]

=============================================================================
