---------------------------- MODULE ObjectsProofs ----------------------------
(* Theorems of Objects, for all modules, types, programs and bounds. *)
EXTENDS Objects, SequenceTheorems, TLAPS

LEMMA SeqElement == 
  ASSUME NEW S, NEW s \in Seq(S)
  PROVE  \A n \in DOMAIN s : s[n] \in S /\ n \in Nat
OBVIOUS

-----------------------------------------------------------------------------
(* Types *)

LEMMA TypesType ==
  /\ Types \in [Insts -> Seq(TypeDefs)]
  /\ \A i \in Insts : \A k \in DOMAIN Types[i] : 
       /\ Types[i][k] \in TypeDefs /\ k \in Nat
       /\ \A n \in DOMAIN Types[i][k].fields : Types[i][k].fields[n] \in FieldTypes
  /\ \A i \in Insts : \A k \in Arrays(i) : Types[i][k].fields[1] \in FieldTypes /\ 1 \in DOMAIN Types[i][k].fields
<1>1. Types \in [Insts -> Seq(TypeDefs)]
  BY TypesAssumption
<1>2. ASSUME NEW i \in Insts, NEW k \in DOMAIN Types[i]
      PROVE  /\ Types[i][k] \in TypeDefs /\ k \in Nat
             /\ \A n \in DOMAIN Types[i][k].fields : Types[i][k].fields[n] \in FieldTypes
  <2>1. Types[i] \in Seq(TypeDefs)
    BY <1>1
  <2>2. Types[i][k] \in TypeDefs /\ k \in Nat
    BY <2>1, <1>2
  <2>3. Types[i][k].fields \in Seq(FieldTypes)
    BY <2>2 DEF TypeDefs
  <2> QED
    BY <2>2, <2>3
<1>3. ASSUME NEW i \in Insts, NEW k \in Arrays(i)
      PROVE  Types[i][k].fields[1] \in FieldTypes /\ 1 \in DOMAIN Types[i][k].fields
  <2>1. k \in DOMAIN Types[i] /\ Len(Types[i][k].fields) = 1
    BY <1>3, TypesAssumption DEF Arrays
  <2>2. Types[i][k].fields \in Seq(FieldTypes)
    BY <2>1, <1>2 DEF TypeDefs
  <2> QED
    BY <2>1, <2>2
<1> QED
  BY <1>1, <1>2, <1>3

\* The type of what a field holds.
LEMMA FieldValueTypes ==
  ASSUME NEW f \in FieldTypes
  PROVE  /\ fieldValueType(f) \in ValueTypes
         /\ f.packed # "none" => fieldValueType(f) = I32 /\ I32.kind = "i32"
         /\ f.type \in ValueTypes
BY DEF fieldValueType, FieldTypes, ValueTypes, I32, Num, NumKinds, HeapKinds

LEMMA SubtypeBelow ==
  ASSUME NEW i \in Insts, NEW j \in Insts, NEW a, NEW b, TypeSubtype(i, a, j, b)
  PROVE  /\ a \in DOMAIN Types[i] /\ b \in DOMAIN Types[j] /\ TypeBelow(i, a, j, b)
         /\ Types[i][a].kind = Types[j][b].kind
<1> DEFINE s == <<i, a, j, b>>
<1>1. s \in Subtypes
  BY DEF TypeSubtype
<1>2. s[2] \in DOMAIN Types[s[1]] /\ s[4] \in DOMAIN Types[s[3]]
  BY <1>1, SubtypesAssumption
<1>3. a \in DOMAIN Types[i] /\ b \in DOMAIN Types[j]
  BY <1>2
<1> QED
  BY <1>3, SubtypesAssumption DEF TypeBelow

LEMMA RefIsRef ==
  /\ \A h \in HeapKinds \ {"index"}, null \in BOOLEAN : Ref(h, null) \in RefTypes
  /\ \A k \in Nat, null \in BOOLEAN : RefTypeIndexed(k, null) \in RefTypes
  /\ \A t \in RefTypes : NonNull(t) \in RefTypes /\ OrNull(t) \in RefTypes
<1>1. ASSUME NEW h \in HeapKinds \ {"index"}, NEW null \in BOOLEAN
      PROVE  Ref(h, null) \in RefTypes
  BY <1>1 DEF Ref, RefTypes, ValueTypes, HeapKinds
<1>2. ASSUME NEW k \in Nat, NEW null \in BOOLEAN
      PROVE  RefTypeIndexed(k, null) \in RefTypes
  BY <1>2 DEF RefTypeIndexed, RefTypes, ValueTypes, HeapKinds
<1>3. ASSUME NEW t \in RefTypes
      PROVE  NonNull(t) \in RefTypes /\ OrNull(t) \in RefTypes
  BY <1>3 DEF NonNull, OrNull, RefTypes, ValueTypes
<1> QED
  BY <1>1, <1>2, <1>3

\* Types that a reference can have, other than null: most special, not nullable.
RuntimeTypes(j) == 
  {Ref("i31", FALSE), Ref("extern", FALSE), Ref("any", FALSE)} \cup {RefTypeIndexed(k, FALSE) : k \in DOMAIN Types[j]}

LEMMA RuntimeIsRef ==
  ASSUME NEW j \in Insts, NEW t \in RuntimeTypes(j)
  PROVE  /\ t \in RefTypes /\ t.kind = "ref" /\ ~t.nullable 
         /\ t.heap \in {"i31", "extern", "any", "index"}
         /\ t.heap = "index" => t.index \in DOMAIN Types[j]
<1>1. CASE t \in {Ref("i31", FALSE), Ref("extern", FALSE), Ref("any", FALSE)}
  <2>1. t \in RefTypes
    BY <1>1, RefIsRef DEF HeapKinds
  <2>2. t.kind = "ref" /\ ~t.nullable /\ t.heap \in {"i31", "extern", "any"}
    BY <1>1 DEF Ref
  <2> QED
    BY <2>1, <2>2
<1>2. CASE \E k \in DOMAIN Types[j] : t = RefTypeIndexed(k, FALSE)
  <2>1. PICK k \in DOMAIN Types[j] : t = RefTypeIndexed(k, FALSE)
    BY <1>2
  <2>2. k \in Nat
    BY TypesType
  <2> QED
    BY <2>1, <2>2 DEF RefTypeIndexed, RefTypes, ValueTypes, HeapKinds
<1> QED
  BY <1>1, <1>2 DEF RuntimeTypes

\* What a value has by its most special type it has by every type above.
LEMMA HeapTypesCompose ==
  ASSUME NEW j \in Insts, NEW i \in Insts, NEW l \in Insts, 
         NEW r \in RuntimeTypes(j), NEW s \in RefTypes, NEW t \in RefTypes,
         matchesHeapType(j, r, i, s), matchesHeapType(i, s, l, t), s.nullable => t.nullable
  PROVE  matchesHeapType(j, r, l, t)
<1>1. CASE r.heap = "index" /\ s.heap = "index" /\ t.heap = "index"
  <2>1. TypeSubtype(j, r.index, i, s.index) /\ TypeSubtype(i, s.index, l, t.index)
    BY <1>1 DEF matchesHeapType
  <2>2. TypeSubtype(j, r.index, l, t.index)
    BY <2>1, SubtypeBelow, SubtypesAssumption
  <2> QED
    BY <2>2, <1>1 DEF matchesHeapType
<1>2. CASE r.heap = "index" /\ s.heap = "index" /\ t.heap # "index"
  <2>1. TypeSubtype(j, r.index, i, s.index)
    BY <1>2 DEF matchesHeapType
  <2>2. Types[j][r.index].kind = Types[i][s.index].kind /\ r.index \in DOMAIN Types[j]
    BY <2>1, SubtypeBelow
  <2> QED
    BY <2>2, <1>2 DEF matchesHeapType, typeIndexHasKind
<1>3. CASE r.heap = "index" /\ s.heap # "index"
  BY <1>3, RuntimeIsRef DEF matchesHeapType, typeIndexHasKind
<1>4. CASE r.heap # "index"
  BY <1>4, RuntimeIsRef DEF matchesHeapType, typeIndexHasKind
<1> QED
  BY <1>1, <1>2, <1>3, <1>4

LEMMA AcceptsCompose ==
  ASSUME NEW j \in Insts, NEW i \in Insts, NEW l \in Insts, 
         NEW r \in RuntimeTypes(j), NEW s \in RefTypes, NEW t \in RefTypes,
         Accepts(j, r, i, s), Accepts(i, s, l, t)
  PROVE  Accepts(j, r, l, t)
<1>1. /\ r.kind = "ref" /\ s.kind = "ref" /\ t.kind = "ref" /\ ~r.nullable
      /\ matchesHeapType(j, r, i, s) /\ matchesHeapType(i, s, l, t) /\ (s.nullable => t.nullable)
  BY RuntimeIsRef DEF Accepts, matchesRefType, RefTypes
<1>2. matchesHeapType(j, r, l, t)
  BY <1>1, HeapTypesCompose
<1> QED
  BY <1>1, <1>2 DEF Accepts, matchesRefType

-----------------------------------------------------------------------------
(* Values, in a heap h *)

References == [kind : {"null", "func", "extern", "i31", "struct", "array"}, of : Nat,
               wrapped : {"no", "i31", "struct", "array", "func"}, tag : ValueTypes]
Values == [type : ValueTypes, num : Numbers, ref : References]

HeapType(h) ==
  /\ h \in Seq([inst : Insts, type : Nat, cells : Seq(Values)])
  /\ \A o \in DOMAIN h : 
       /\ h[o].type \in Structs(h[o].inst) \cup Arrays(h[o].inst)
       /\ h[o].type \in Structs(h[o].inst) => Len(h[o].cells) = Len(Types[h[o].inst][h[o].type].fields)

RefOKIn(h, v, kind) ==
  /\ kind \in {"struct", "array"} => v.ref.of \in DOMAIN h /\ Types[h[v.ref.of].inst][h[v.ref.of].type].kind = kind
  /\ kind = "func" => v.ref.of \in DOMAIN Funcs

SoundIn(h, v) ==
  /\ v \in Values /\ RefOKIn(h, v, v.ref.kind)
  /\ v.type.heap = "extern" => v.ref.kind \in {"null", "extern"}
  /\ v.ref.wrapped # "no" => /\ v.ref.kind = "extern" /\ v.type.heap = "extern" 
                             /\ v.ref.tag \in RefTypes /\ v.ref.tag.heap # "extern"
                             /\ RefOKIn(h, v, v.ref.wrapped)

RuntimeIn(h, v) ==
  CASE v.ref.kind = "i31" -> Ref("i31", FALSE)
    [] v.ref.kind \in {"struct", "array"} -> RefTypeIndexed(h[v.ref.of].type, FALSE)
    [] v.ref.kind = "func" -> RefTypeIndexed(Funcs[v.ref.of].type, FALSE)
    [] OTHER -> Ref(IF v.type.heap = "extern" THEN "extern" ELSE "any", FALSE)
OwnerIn(h, i, v) ==
  CASE v.ref.kind \in {"struct", "array"} -> h[v.ref.of].inst
    [] v.ref.kind = "func" -> Funcs[v.ref.of].inst
    [] OTHER -> i

HasIn(h, v, i, t) ==
  IF t.kind = "ref"
    THEN v.type.kind = "ref" /\ IF IsNull(v) THEN t.nullable ELSE Accepts(OwnerIn(h, i, v), RuntimeIn(h, v), i, t)
    ELSE v.type = t

\* A sound value of type t.
Typed(h, v, i, t) == SoundIn(h, v) /\ HasIn(h, v, i, t)

LEMMA FuncsType == 
  /\ Funcs \in Seq([inst : Insts, type : Nat])
  /\ \A f \in DOMAIN Funcs : Funcs[f].inst \in Insts /\ Funcs[f].type \in DOMAIN Types[Funcs[f].inst]
                              /\ Types[Funcs[f].inst][Funcs[f].type].kind = "func"
<1>1. Funcs \in Seq([inst : Insts, type : Nat])
  BY SegmentsAssumption
<1>2. \A f \in DOMAIN Funcs : Funcs[f] \in [inst : Insts, type : Nat]
  BY <1>1, SeqElement
<1> QED
  BY <1>1, <1>2, SegmentsAssumption DEF typeIndexHasKind

LEMMA RuntimeOf ==
  ASSUME NEW h, HeapType(h), NEW v, SoundIn(h, v), v.ref.kind # "null", NEW i \in Insts
  PROVE  OwnerIn(h, i, v) \in Insts /\ RuntimeIn(h, v) \in RuntimeTypes(OwnerIn(h, i, v))
<1>1. CASE v.ref.kind \in {"struct", "array"}
  <2>1. v.ref.of \in DOMAIN h
    BY <1>1 DEF SoundIn, RefOKIn
  <2>2. h[v.ref.of] \in [inst : Insts, type : Nat, cells : Seq(Values)]
    BY <2>1, SeqElement DEF HeapType
  <2>3. h[v.ref.of].inst \in Insts /\ h[v.ref.of].type \in DOMAIN Types[h[v.ref.of].inst]
    BY <2>1, <2>2 DEF HeapType, Structs, Arrays
  <2> QED
    BY <2>3, <1>1 DEF OwnerIn, RuntimeIn, RuntimeTypes
<1>2. CASE v.ref.kind = "func"
  <2>1. v.ref.of \in DOMAIN Funcs
    BY <1>2 DEF SoundIn, RefOKIn
  <2> QED
    BY <2>1, <1>2, FuncsType DEF OwnerIn, RuntimeIn, RuntimeTypes
<1>3. CASE v.ref.kind \in {"i31", "extern"}
  BY <1>3 DEF OwnerIn, RuntimeIn, RuntimeTypes
<1>4. v.ref.kind \in {"null", "func", "extern", "i31", "struct", "array"}
  BY DEF SoundIn, Values, References
<1> QED
  BY <1>1, <1>2, <1>3, <1>4

\* Only a type index needs its module.
LEMMA AcceptsAnywhere ==
  ASSUME NEW i, NEW l, NEW j, NEW r, NEW t, r.heap # "index", r.kind = "ref", Accepts(i, r, j, t)
  PROVE  Accepts(l, r, j, t)
BY DEF Accepts, matchesRefType, matchesHeapType

\* A value of a type is a value of every type above it, in every module.
LEMMA TypedAbove ==
  ASSUME NEW h, HeapType(h), NEW v, NEW i \in Insts, NEW l \in Insts, 
         NEW s \in ValueTypes, NEW t \in ValueTypes, Typed(h, v, i, s), Accepts(i, s, l, t)
  PROVE  Typed(h, v, l, t)
<1>1. CASE s.kind # "ref" \/ t.kind # "ref"
  BY <1>1 DEF Typed, HasIn, Accepts
<1>2. CASE s.kind = "ref" /\ t.kind = "ref" /\ IsNull(v)
  BY <1>2 DEF Typed, HasIn, Accepts, matchesRefType
<1>3. CASE s.kind = "ref" /\ t.kind = "ref" /\ ~IsNull(v)
  <2> DEFINE r == RuntimeIn(h, v)
             j == OwnerIn(h, i, v)
             k == OwnerIn(h, l, v)
  <2>1. j \in Insts /\ r \in RuntimeTypes(j) /\ k \in Insts /\ r \in RuntimeTypes(k)
    BY RuntimeOf, <1>3 DEF Typed, IsNull
  <2>2. s \in RefTypes /\ t \in RefTypes
    BY <1>3 DEF RefTypes
  <2>3. Accepts(j, r, i, s)
    BY <1>3 DEF Typed, HasIn
  <2>4. Accepts(j, r, l, t)
    BY <2>1, <2>2, <2>3, AcceptsCompose
  <2>5. Accepts(k, r, l, t)
    <3>1. CASE j = k
      BY <3>1, <2>4
    <3>2. CASE j # k
      <4>1. r.heap # "index" /\ r.kind = "ref"
        BY <3>2 DEF OwnerIn, RuntimeIn, Ref
      <4> QED
        BY <4>1, <2>4, AcceptsAnywhere
    <3> QED
      BY <3>1, <3>2
  <2> QED
    BY <2>5, <1>3 DEF Typed, HasIn
<1> QED
  BY <1>1, <1>2, <1>3

LEMMA Bounds ==
  /\ Base \in Nat /\ Base >= 1 /\ I31Size \in Nat /\ I31Size >= 1
  /\ MaxWord \in Nat /\ MaxLength \in Nat /\ Hosts \subseteq Nat
BY BoundsAssumption

LEMMA ByteNumbers ==
  /\ Byte \subseteq Numbers
  /\ \A n \in Numbers : n % Base \in Byte
  /\ \A a, b \in Byte : a + Base * b \in Numbers
<1>1. Base \in Nat /\ Base >= 1
  BY Bounds
<1>2. Base <= Base * Base
  BY <1>1, SMT
<1>3. ASSUME NEW a \in Byte, NEW b \in Byte
      PROVE  a + Base * b \in Numbers
  <2>1. b \in Nat /\ b <= Base - 1 /\ a \in Nat /\ a <= Base - 1
    BY <1>1 DEF Byte
  <2>2. Base * b <= Base * (Base - 1)
    BY <1>1, <2>1, SMT
  <2>3. Base * (Base - 1) = Base * Base - Base
    BY <1>1, SMT
  <2>4. Base * b \in Nat /\ Base * Base \in Nat
    BY <1>1, <2>1, SMT
  <2> QED
    BY <1>1, <2>1, <2>2, <2>3, <2>4 DEF Numbers
<1> QED
  BY <1>1, <1>2, <1>3 DEF Byte, Numbers

LEMMA ZeroNumber == 0 \in Byte /\ 0 \in Numbers /\ I32 \in ValueTypes
<1>1. 0 \in Byte /\ 0 \in Numbers
  BY Bounds, ByteNumbers DEF Byte
<1> QED
  BY <1>1 DEF I32, Num, ValueTypes, NumKinds, HeapKinds

\* A number, and a null of a nullable type.
LEMMA NumberTyped ==
  ASSUME NEW h, NEW i, NEW t \in ValueTypes, t.kind # "ref", NEW n \in Numbers
  PROVE  Typed(h, Value(t, n), i, t)
BY DEF Typed, SoundIn, HasIn, RefOKIn, Value, NoRef, Values, References, ValueTypes, I32, Num, NumKinds, HeapKinds, IsNull

LEMMA NullTyped ==
  ASSUME NEW h, NEW i, NEW t \in RefTypes, t.nullable
  PROVE  Typed(h, zeroValue(t), i, t)
<1>1. 0 \in Numbers
  BY ZeroNumber
<1>2. zeroValue(t) \in Values
  BY <1>1 DEF zeroValue, Value, NoRef, Values, References, ValueTypes, I32, Num, NumKinds, HeapKinds, RefTypes
<1> QED
  BY <1>2 DEF Typed, SoundIn, HasIn, RefOKIn, zeroValue, Value, NoRef, IsNull, RefTypes

LEMMA TagType ==
  ASSUME NEW v \in Values, NEW t \in ValueTypes
  PROVE  /\ Tagged(v, t) \in Values /\ Tagged(v, t).type = t
         /\ Tagged(v, t).ref = v.ref /\ Tagged(v, t).num = v.num
BY DEF Tagged, Values

LEMMA NonNullTyped ==
  ASSUME NEW h, HeapType(h), NEW v, NEW i \in Insts, NEW t \in RefTypes, Typed(h, v, i, t), ~IsNull(v)
  PROVE  Typed(h, AsNonNull(v), i, NonNull(t))
<1>1. v \in Values /\ v.type \in RefTypes
  BY DEF Typed, SoundIn, HasIn, RefTypes, Values
<1>2. NonNull(v.type) \in RefTypes /\ NonNull(v.type) \in ValueTypes /\ NonNull(v.type).heap = v.type.heap
  BY <1>1, RefIsRef, SMTT(60) DEF NonNull, RefTypes, ValueTypes
<1> DEFINE w == AsNonNull(v)
<1>3. w \in Values /\ w.type = NonNull(v.type) /\ w.ref = v.ref
  BY <1>1, <1>2, TagType, SMTT(60) DEF AsNonNull
<1> HIDE DEF w
<1>4. SoundIn(h, w)
  BY <1>2, <1>3 DEF Typed, SoundIn, RefOKIn
<1>5. RuntimeIn(h, w) = RuntimeIn(h, v) /\ OwnerIn(h, i, w) = OwnerIn(h, i, v) /\ ~IsNull(w)
  BY <1>2, <1>3 DEF RuntimeIn, OwnerIn, IsNull
<1>6. NonNull(t).kind = "ref" /\ NonNull(t).heap = t.heap /\ NonNull(t).index = t.index
  BY DEF NonNull, RefTypes, ValueTypes
<1>7. Accepts(OwnerIn(h, i, v), RuntimeIn(h, v), i, t)
  BY DEF Typed, HasIn, RefTypes
<1>8. RuntimeIn(h, v) \in RuntimeTypes(OwnerIn(h, i, v)) /\ OwnerIn(h, i, v) \in Insts
  BY RuntimeOf DEF Typed, IsNull
<1>9. Accepts(OwnerIn(h, i, v), RuntimeIn(h, v), i, NonNull(t))
  BY <1>6, <1>7, <1>8, RuntimeIsRef DEF Accepts, matchesRefType, matchesHeapType
<1>10. HasIn(h, w, i, NonNull(t))
  BY <1>2, <1>3, <1>5, <1>6, <1>9 DEF HasIn, RefTypes
<1> QED
  BY <1>4, <1>10 DEF Typed, w

\* What of a non-null reference its tag decides: whether one of the host is extern.
LEMMA TaggedTyped ==
  ASSUME NEW h, HeapType(h), NEW v, SoundIn(h, v), NEW i \in Insts, NEW t \in RefTypes, NEW s \in RefTypes,
         v.type.kind = "ref", IsNull(v) => t.nullable,
         ~IsNull(v) => Accepts(OwnerIn(h, i, v), RuntimeIn(h, Tagged(v, s)), i, t),
         s.heap = "extern" => v.ref.kind \in {"null", "extern"},
         v.ref.wrapped # "no" => s.heap = "extern"
  PROVE  Typed(h, Tagged(v, s), i, t)
<1>1. v \in Values /\ s \in ValueTypes /\ s.kind = "ref" /\ t.kind = "ref"
  BY DEF SoundIn, RefTypes
<1> DEFINE w == Tagged(v, s)
<1>2. w \in Values /\ w.type = s /\ w.ref = v.ref
  BY <1>1, TagType, SMTT(60)
<1> HIDE DEF w
<1>3. SoundIn(h, w)
  BY <1>2 DEF SoundIn, RefOKIn
<1>4. OwnerIn(h, i, w) = OwnerIn(h, i, v) /\ (IsNull(w) <=> IsNull(v))
  BY <1>2 DEF OwnerIn, IsNull
<1>5. HasIn(h, w, i, t)
  BY <1>1, <1>2, <1>4 DEF HasIn, w
<1> QED
  BY <1>3, <1>5 DEF Typed, w

\* A select or a failed cast: the tag becomes the type that the value is known to have.
LEMMA RetagTyped ==
  ASSUME NEW h, HeapType(h), NEW v, NEW i \in Insts, NEW t \in RefTypes, Typed(h, v, i, t)
  PROVE  Typed(h, Tagged(v, t), i, t)
<1>1. SoundIn(h, v) /\ v \in Values /\ v.type.kind = "ref" /\ t.kind = "ref" /\ t \in ValueTypes
  BY DEF Typed, SoundIn, HasIn, RefTypes
<1>2. CASE IsNull(v)
  <2>1. t.nullable /\ v.ref.kind = "null" /\ v.ref.wrapped = "no"
    BY <1>1, <1>2 DEF Typed, HasIn, IsNull, SoundIn
  <2> QED
    BY <2>1, <1>1, <1>2, TaggedTyped
<1>3. CASE ~IsNull(v)
  <2> DEFINE r == RuntimeIn(h, v)
             j == OwnerIn(h, i, v)
             q == RuntimeIn(h, Tagged(v, t))
  <2>1. r \in RuntimeTypes(j) /\ j \in Insts /\ Accepts(j, r, i, t)
    BY <1>1, <1>3, RuntimeOf DEF Typed, HasIn, IsNull
  <2>2. Tagged(v, t).type = t /\ Tagged(v, t).ref = v.ref
    BY <1>1, TagType
  <2>3. matchesHeapType(j, r, i, t)
    BY <2>1, <1>1, RuntimeIsRef DEF Accepts, matchesRefType
  <2>4. v.ref.kind \in {"null", "func", "extern", "i31", "struct", "array"}
    BY <1>1 DEF Values, References
  <2>5. CASE v.ref.kind = "extern"
    <3>1. r = Ref(IF v.type.heap = "extern" THEN "extern" ELSE "any", FALSE)
      BY <2>5 DEF RuntimeIn
    <3>2. q = Ref(IF t.heap = "extern" THEN "extern" ELSE "any", FALSE)
      BY <2>5, <2>2 DEF RuntimeIn
    <3>3. v.type.heap = "extern" <=> t.heap = "extern"
      BY <2>3, <3>1 DEF matchesHeapType, Ref
    <3>4. q = r
      <4>1. CASE t.heap = "extern"
        BY <4>1, <3>1, <3>2, <3>3
      <4>2. CASE t.heap # "extern"
        BY <4>2, <3>1, <3>2, <3>3
      <4> QED
        BY <4>1, <4>2
    <3>5. v.ref.wrapped # "no" => t.heap = "extern"
      BY <1>1, <3>3 DEF SoundIn
    <3> QED
      BY <3>4, <3>5, <2>1, <2>5, <1>1, <1>3, TaggedTyped DEF IsNull
  <2>6. CASE v.ref.kind # "extern"
    <3>1. q = r
      BY <2>6, <2>4, <1>3, <2>2 DEF RuntimeIn, IsNull
    <3>2. r.heap \in {"i31", "index"}
      BY <2>6, <2>4, <1>3 DEF RuntimeIn, IsNull, Ref, RefTypeIndexed
    <3>3. t.heap # "extern"
      BY <2>3, <3>2 DEF matchesHeapType
    <3>4. v.ref.wrapped = "no"
      BY <1>1, <2>6 DEF SoundIn
    <3> QED
      BY <3>1, <3>3, <3>4, <2>1, <1>1, <1>3, TaggedTyped
  <2> QED
    BY <2>5, <2>6
<1> QED
  BY <1>2, <1>3

\* What is not null is of the non-null type too.
LEMMA NotNullTyped ==
  ASSUME NEW h, HeapType(h), NEW v, NEW i \in Insts, NEW t \in RefTypes, Typed(h, v, i, t), ~IsNull(v)
  PROVE  Typed(h, v, i, NonNull(t))
<1>1. NonNull(t).kind = "ref" /\ NonNull(t).heap = t.heap /\ NonNull(t).index = t.index
  BY DEF NonNull, RefTypes, ValueTypes
<1>2. Accepts(OwnerIn(h, i, v), RuntimeIn(h, v), i, t)
  BY DEF Typed, HasIn, RefTypes
<1>3. RuntimeIn(h, v) \in RuntimeTypes(OwnerIn(h, i, v)) /\ OwnerIn(h, i, v) \in Insts
  BY RuntimeOf DEF Typed, IsNull
<1>4. Accepts(OwnerIn(h, i, v), RuntimeIn(h, v), i, NonNull(t))
  BY <1>1, <1>2, <1>3, RuntimeIsRef DEF Accepts, matchesRefType, matchesHeapType
<1> QED
  BY <1>1, <1>4 DEF Typed, HasIn, RefTypes

\* The most special type of what is not null, by its kind.
LEMMA RuntimeKinds ==
  ASSUME NEW h, HeapType(h), NEW v, SoundIn(h, v), v.ref.kind # "null", NEW i \in Insts
  PROVE  LET r == RuntimeIn(h, v)  j == OwnerIn(h, i, v) IN
         /\ r.kind = "ref" /\ ~r.nullable
         /\ v.ref.kind = "i31" => r.heap = "i31"
         /\ v.ref.kind = "extern" => r.heap = IF v.type.heap = "extern" THEN "extern" ELSE "any"
         /\ v.ref.kind \in {"struct", "array", "func"} => 
              /\ r.heap = "index" /\ typeIndexHasKind(j, r.index, v.ref.kind)
              /\ \A kind : typeIndexHasKind(j, r.index, kind) => kind = v.ref.kind
<1> DEFINE r == RuntimeIn(h, v)
           j == OwnerIn(h, i, v)
<1>1. r \in RuntimeTypes(j) /\ j \in Insts
  BY RuntimeOf
<1>2. v.ref.kind \in {"func", "extern", "i31", "struct", "array"}
  BY SMTT(60) DEF SoundIn, Values, References
<1>3. CASE v.ref.kind \in {"struct", "array"}
  <2>1. r = RefTypeIndexed(h[v.ref.of].type, FALSE) /\ j = h[v.ref.of].inst
    BY <1>3 DEF RuntimeIn, OwnerIn
  <2>2. Types[j][r.index].kind = v.ref.kind
    BY <1>3, <2>1 DEF SoundIn, RefOKIn, RefTypeIndexed
  <2> QED
    BY <1>1, <1>3, <2>1, <2>2, RuntimeIsRef DEF typeIndexHasKind, RefTypeIndexed
<1>4. CASE v.ref.kind = "func"
  <2>1. r = RefTypeIndexed(Funcs[v.ref.of].type, FALSE) /\ j = Funcs[v.ref.of].inst /\ v.ref.of \in DOMAIN Funcs
    BY <1>4 DEF RuntimeIn, OwnerIn, SoundIn, RefOKIn
  <2>2. Types[j][r.index].kind = "func"
    BY <2>1, FuncsType DEF RefTypeIndexed
  <2> QED
    BY <1>1, <1>4, <2>1, <2>2, RuntimeIsRef DEF typeIndexHasKind, RefTypeIndexed
<1>5. CASE v.ref.kind = "i31"
  BY <1>5 DEF RuntimeIn, Ref
<1>6. CASE v.ref.kind = "extern"
  BY <1>6 DEF RuntimeIn, Ref
<1> QED
  BY <1>2, <1>3, <1>4, <1>5, <1>6

\* A cast that succeeds gives a value of the type it names.
LEMMA RefMatchesTyped ==
  ASSUME HeapType(heap), NEW v, SoundIn(heap, v), v.type.kind = "ref", NEW i \in Insts, NEW t \in RefTypes,
         refMatches(i, v, t)
  PROVE  Typed(heap, Tagged(v, t), i, t)
<1> DEFINE w == Tagged(v, t)
           q == RuntimeIn(heap, w)
           j == OwnerIn(heap, i, v)
<1>1. v \in Values /\ t.kind = "ref" /\ t \in ValueTypes
  BY DEF SoundIn, RefTypes
<1>2. w.type = t /\ w.ref = v.ref
  BY <1>1, TagType
<1>3. v.ref.kind \in {"null", "func", "extern", "i31", "struct", "array"}
  BY <1>1 DEF Values, References
<1>4. t.heap = "extern" => v.ref.kind \in {"null", "extern"}
  BY <1>3 DEF refMatches, IsNull, SoundIn
<1>5. v.ref.wrapped # "no" => t.heap = "extern"
  BY DEF refMatches, IsNull, SoundIn
<1>6. ASSUME ~IsNull(v)
      PROVE  Accepts(j, q, i, t)
  <2>1. v.ref.kind # "null"
    BY <1>6, SMTT(60) DEF IsNull
  <2>2. SoundIn(heap, w) /\ w.ref.kind # "null"
    BY <1>1, <1>2, <1>4, <1>5, <2>1, TagType DEF SoundIn, RefOKIn
  <2>3. OwnerIn(heap, i, w) = j
    BY <1>2 DEF OwnerIn
  <2> HIDE DEF w
  <2>4. /\ q.kind = "ref" /\ ~q.nullable
        /\ v.ref.kind = "i31" => q.heap = "i31"
        /\ v.ref.kind = "extern" => q.heap = IF t.heap = "extern" THEN "extern" ELSE "any"
        /\ v.ref.kind \in {"struct", "array", "func"} => 
              /\ q.heap = "index" /\ typeIndexHasKind(j, q.index, v.ref.kind)
              /\ \A kind : typeIndexHasKind(j, q.index, kind) => kind = v.ref.kind
    BY <1>2, <2>2, <2>3, RuntimeKinds, SMTT(60)
  <2>5. matchesHeapType(j, q, i, t)
    <3>1. CASE v.ref.kind \in {"i31", "extern"}
      BY <1>6, <2>4, <3>1 DEF refMatches, refMatchesTypeIndex, matchesHeapType, SoundIn
    <3>2. CASE v.ref.kind \in {"struct", "array"}
      <4>1. q = RefTypeIndexed(heap[v.ref.of].type, FALSE) /\ j = heap[v.ref.of].inst
        BY <1>2, <3>2 DEF RuntimeIn, OwnerIn
      <4>2. q.index = heap[v.ref.of].type
        BY <4>1 DEF RefTypeIndexed
      <4>3. v.type.heap # "extern"
        BY <3>2, SMTT(60) DEF SoundIn
      <4> QED
        BY <1>6, <2>4, <3>2, <4>1, <4>2, <4>3 
        DEF refMatches, refMatchesTypeIndex, objectMatchesType, Object, matchesHeapType
    <3>3. CASE v.ref.kind = "func"
      <4>1. q = RefTypeIndexed(Funcs[v.ref.of].type, FALSE) /\ j = Funcs[v.ref.of].inst
        BY <1>2, <3>3 DEF RuntimeIn, OwnerIn
      <4>2. q.index = Funcs[v.ref.of].type
        BY <4>1 DEF RefTypeIndexed
      <4>3. v.type.heap # "extern"
        BY <3>3 DEF SoundIn
      <4> QED
        BY <1>6, <2>4, <3>3, <4>1, <4>2, <4>3 DEF refMatches, refMatchesTypeIndex, matchesHeapType
    <3> QED
      BY <1>3, <2>1, <3>1, <3>2, <3>3
  <2> QED
    BY <1>1, <2>4, <2>5 DEF Accepts, matchesRefType
<1> QED
  BY <1>4, <1>5, <1>6, TaggedTyped DEF refMatches

-----------------------------------------------------------------------------
(* Heaps that change *)

\* What objects are made as they stay, and new ones may come.
Extends(h, g) == 
  /\ DOMAIN h \subseteq DOMAIN g
  /\ \A o \in DOMAIN h : g[o].inst = h[o].inst /\ g[o].type = h[o].type

LEMMA TypedStays ==
  ASSUME NEW h, NEW g, Extends(h, g), NEW v, NEW i, NEW t, Typed(h, v, i, t)
  PROVE  Typed(g, v, i, t)
<1>1. /\ RefOKIn(g, v, v.ref.kind) 
      /\ v.ref.wrapped # "no" => RefOKIn(g, v, v.ref.wrapped)
  BY DEF Typed, SoundIn, RefOKIn, Extends
<1>2. SoundIn(g, v)
  BY <1>1 DEF Typed, SoundIn
<1>3. RuntimeIn(g, v) = RuntimeIn(h, v) /\ OwnerIn(g, i, v) = OwnerIn(h, i, v)
  BY DEF Typed, SoundIn, RefOKIn, Extends, RuntimeIn, OwnerIn
<1> QED
  BY <1>2, <1>3, SMTT(60) DEF Typed, HasIn

-----------------------------------------------------------------------------
(* Fields *)

\* What field f of a type of module i holds.
FitsIn(h, i, f, v) ==
  /\ Typed(h, v, i, fieldValueType(f))
  /\ f.packed = "i8" => v.num \in Byte

LEMMA NormalFits ==
  ASSUME NEW h, NEW i, NEW f \in FieldTypes, NEW v, Typed(h, v, i, fieldValueType(f))
  PROVE  FitsIn(h, i, f, normalizeFieldValue(f, v))
<1>1. CASE f.packed # "i8"
  BY <1>1 DEF FitsIn, normalizeFieldValue
<1>2. CASE f.packed = "i8"
  <2> DEFINE w == [v EXCEPT !.num = @ % Base]
  <2>1. v \in Values /\ v.num \in Numbers
    BY DEF Typed, SoundIn, Values
  <2>2. v.num % Base \in Byte /\ v.num % Base \in Numbers
    BY <2>1, ByteNumbers
  <2>3. w \in Values /\ w.num = v.num % Base /\ w.ref = v.ref /\ w.type = v.type
    BY <2>1, <2>2 DEF Values
  <2>4. normalizeFieldValue(f, v) = w
    BY <1>2, SMTT(60) DEF normalizeFieldValue
  <2> HIDE DEF w
  <2>5. SoundIn(h, w)
    BY <2>3 DEF Typed, SoundIn, RefOKIn
  <2>6. HasIn(h, w, i, fieldValueType(f))
    BY <2>3 DEF Typed, HasIn, OwnerIn, RuntimeIn, IsNull
  <2> QED
    BY <2>2, <2>3, <2>4, <2>5, <2>6 DEF FitsIn, Typed
<1> QED
  BY <1>1, <1>2

LEMMA ZeroFits ==
  ASSUME NEW h, NEW i, NEW f \in FieldTypes, isDefaultableFieldType(f)
  PROVE  FitsIn(h, i, f, zeroValue(fieldValueType(f)))
<1> DEFINE t == fieldValueType(f)
<1>1. t \in ValueTypes /\ (f.packed # "none" => t.kind = "i32") /\ (t.kind # "ref" \/ t.nullable)
  BY FieldValueTypes DEF isDefaultableFieldType, fieldValueType
<1>2. 0 \in Byte /\ 0 \in Numbers
  BY ZeroNumber
<1>3. zeroValue(t).num = 0
  BY DEF zeroValue, Value
<1>4. Typed(h, zeroValue(t), i, t)
  BY <1>1, <1>2, NullTyped, NumberTyped DEF zeroValue, RefTypes
<1> QED
  BY <1>2, <1>3, <1>4 DEF FitsIn

\* A field can be read as one of the supertype, and, if it is mutable, written as one.
LEMMA FieldBelowFits ==
  ASSUME NEW h, HeapType(h), NEW v, NEW j \in Insts, NEW i \in Insts, NEW f \in FieldTypes, NEW g \in FieldTypes,
         FieldBelow(j, f, i, g)
  PROVE  /\ FitsIn(h, j, f, v) => FitsIn(h, i, g, v)
         /\ g.mutable /\ FitsIn(h, i, g, v) => FitsIn(h, j, f, v)
         /\ f.mutable = g.mutable
<1>1. f.packed = g.packed /\ f.mutable = g.mutable
  BY DEF FieldBelow
<1>2. CASE f.packed = "none"
  <2>1. fieldValueType(f) = f.type /\ fieldValueType(g) = g.type /\ f.type \in ValueTypes /\ g.type \in ValueTypes
    BY <1>1, <1>2, FieldValueTypes DEF fieldValueType
  <2>2. Accepts(j, f.type, i, g.type) /\ (g.mutable => Accepts(i, g.type, j, f.type))
    BY <1>1, <1>2 DEF FieldBelow
  <2> QED
    BY <1>1, <1>2, <2>1, <2>2, TypedAbove DEF FitsIn
<1>3. CASE f.packed # "none"
  <2>1. fieldValueType(f) = I32 /\ fieldValueType(g) = I32 /\ I32.kind = "i32"
    BY <1>1, <1>3, FieldValueTypes
  <2>2. Typed(h, v, i, I32) <=> Typed(h, v, j, I32)
    BY <2>1 DEF Typed, HasIn
  <2> QED
    BY <1>1, <2>1, <2>2 DEF FitsIn
<1> QED
  BY <1>2, <1>3

LEMMA FieldOfType ==
  ASSUME NEW i \in Insts, NEW k \in Structs(i) \cup Arrays(i), NEW n,
         Types[i][k].kind = "struct" => n \in DOMAIN Types[i][k].fields
  PROVE  FieldOf(Types[i][k], n) \in FieldTypes
BY TypesType DEF FieldOf, Structs, Arrays

LEMMA FieldsBelow ==
  ASSUME NEW j \in Insts, NEW a \in Structs(j) \cup Arrays(j), NEW i \in Insts, NEW k \in Structs(i) \cup Arrays(i), 
         TypeSubtype(j, a, i, k), NEW n, Types[i][k].kind = "struct" => n \in DOMAIN Types[i][k].fields
  PROVE  /\ FieldBelow(j, FieldOf(Types[j][a], n), i, FieldOf(Types[i][k], n))
         /\ FieldOf(Types[i][k], n) \in FieldTypes /\ FieldOf(Types[j][a], n) \in FieldTypes
         /\ Types[i][k].kind = "struct" => n \in DOMAIN Types[j][a].fields
<1>1. /\ Types[j][a].kind = Types[i][k].kind
      /\ Len(Types[i][k].fields) <= Len(Types[j][a].fields)
      /\ \A m \in DOMAIN Types[i][k].fields : FieldBelow(j, Types[j][a].fields[m], i, Types[i][k].fields[m])
  BY SubtypeBelow DEF TypeBelow
<1>2. Types[j][a].fields \in Seq(FieldTypes) /\ Types[i][k].fields \in Seq(FieldTypes)
  <2>1. a \in DOMAIN Types[j] /\ k \in DOMAIN Types[i]
    BY DEF Structs, Arrays
  <2> QED
    BY <2>1, TypesType DEF TypeDefs
<1>3. Types[i][k].kind = "struct" => n \in DOMAIN Types[j][a].fields
  BY <1>1, <1>2
<1>4. Types[i][k].kind # "struct" => k \in Arrays(i) /\ 1 \in DOMAIN Types[i][k].fields
  BY TypesType DEF Structs
<1>5. Types[i][k].kind \in {"struct", "array"}
  BY DEF Structs, Arrays
<1>6. FieldBelow(j, FieldOf(Types[j][a], n), i, FieldOf(Types[i][k], n))
  BY <1>1, <1>4, <1>5 DEF FieldOf
<1> QED
  BY <1>1, <1>3, <1>6, FieldOfType

-----------------------------------------------------------------------------
(* The invariant *)

CellsFit(h, i, k, cells) == \A n \in DOMAIN cells : FitsIn(h, i, FieldOf(Types[i][k], n), cells[n])

\* HeapTyped, for heaps and registers that exist.
IInv ==
  /\ program \in Programs
  /\ HeapType(heap)
  /\ DOMAIN regs = Insts
  /\ \A i \in Insts : DOMAIN regs[i] = Locals(i)
  /\ \A i \in Insts : \A r \in Locals(i) : Typed(heap, regs[i][r], i, Reg[i][r])
  /\ \A o \in DOMAIN heap : CellsFit(heap, heap[o].inst, heap[o].type, heap[o].cells)

LEMMA LocalTypes ==
  ASSUME program \in Programs, NEW i \in Insts
  PROVE  /\ \A r \in Locals(i) : Reg[i][r] \in RefTypes /\ Reg[i][r].nullable
         /\ CastTypes(i) \subseteq RefTypes
<1>1. program \in ProgramsOver(Insts) /\ Locals(i) \subseteq DOMAIN Reg[i]
  BY RegAssumption DEF Locals
<1>2. Reg[i] \in Seq(RefTypes) /\ \A r \in DOMAIN Reg[i] : Reg[i][r].nullable
  BY RegAssumption
<1> QED
  BY <1>1, <1>2 DEF ProgramsOver, CastTypes

LEMMA OperandTyped ==
  ASSUME IInv, NEW i \in Insts, NEW o \in Operands(i)
  PROVE  o.t \in RefTypes /\ Typed(heap, o.v, i, o.t)
<1>1. CASE \E r \in Locals(i) : o = [v |-> regs[i][r], t |-> Reg[i][r]]
  BY <1>1, LocalTypes DEF IInv
<1>2. CASE \E r \in Locals(i) : ~IsNull(regs[i][r]) /\ o = [v |-> AsNonNull(regs[i][r]), t |-> NonNull(Reg[i][r])]
  <2>1. PICK r \in Locals(i) : ~IsNull(regs[i][r]) /\ o = [v |-> AsNonNull(regs[i][r]), t |-> NonNull(Reg[i][r])]
    BY <1>2
  <2>2. Reg[i][r] \in RefTypes /\ Typed(heap, regs[i][r], i, Reg[i][r]) /\ HeapType(heap)
    BY LocalTypes DEF IInv
  <2>3. Typed(heap, AsNonNull(regs[i][r]), i, NonNull(Reg[i][r])) /\ NonNull(Reg[i][r]) \in RefTypes
    BY <2>1, <2>2, NonNullTyped, RefIsRef
  <2>4. o.v = AsNonNull(regs[i][r]) /\ o.t = NonNull(Reg[i][r])
    BY <2>1
  <2> QED
    BY <2>3, <2>4
<1> QED
  BY <1>1, <1>2 DEF Operands

LEMMA GivenTyped ==
  ASSUME IInv, NEW i \in Insts, NEW t \in ValueTypes, NEW v \in Given(i, t)
  PROVE  Typed(heap, v, i, t)
<1>1. CASE t.kind = "ref"
  <2>1. PICK o \in Operands(i) : Accepts(i, o.t, i, t) /\ v = o.v
    BY <1>1 DEF Given
  <2>2. o.t \in RefTypes /\ o.t \in ValueTypes /\ Typed(heap, o.v, i, o.t)
    BY OperandTyped DEF RefTypes
  <2> QED
    BY <2>1, <2>2, TypedAbove DEF IInv
<1>2. CASE t.kind # "ref"
  BY <1>2, NumberTyped, SMTT(60) DEF Given
<1> QED
  BY <1>1, <1>2

\* The object that popObject lets an instruction of type k use.
LEMMA ObjectAt ==
  ASSUME IInv, NEW i \in Insts, NEW k \in Structs(i) \cup Arrays(i), NEW v, SoundIn(heap, v), 
         popObject(i, v, k) = "ok"
  PROVE  LET o == v.ref.of  j == heap[o].inst  a == heap[o].type IN
         /\ o \in DOMAIN heap /\ o \in Nat /\ heap[o] = Object(v)
         /\ heap[o] \in [inst : Insts, type : Nat, cells : Seq(Values)]
         /\ j \in Insts /\ a \in Structs(j) \cup Arrays(j)
         /\ Types[j][a].kind = Types[i][k].kind
         /\ Types[j][a].kind = "struct" => Len(heap[o].cells) = Len(Types[j][a].fields)
         /\ TypeSubtype(j, a, i, k)
         /\ CellsFit(heap, j, a, heap[o].cells)
<1> DEFINE o == v.ref.of
           j == heap[o].inst
           a == heap[o].type
<1>1. v.ref.kind = Types[i][k].kind /\ Types[i][k].kind \in {"struct", "array"}
  BY DEF popObject, Structs, Arrays
<1>2. o \in DOMAIN heap /\ Types[j][a].kind = v.ref.kind
  BY <1>1 DEF SoundIn, RefOKIn
<1>3. TypeSubtype(j, a, i, k)
  BY DEF popObject, objectMatchesType, Object
<1>4. heap[o] \in [inst : Insts, type : Nat, cells : Seq(Values)] /\ o \in Nat
  <2> DEFINE Objs == [inst : Insts, type : Nat, cells : Seq(Values)]
  <2>1. heap \in Seq(Objs)
    BY DEF IInv, HeapType
  <2> HIDE DEF Objs
  <2>2. heap[o] \in Objs /\ o \in Nat
    BY <1>2, <2>1, SeqElement
  <2> QED
    BY <2>2 DEF Objs
<1>5. /\ a \in Structs(j) \cup Arrays(j)
      /\ a \in Structs(j) => Len(heap[o].cells) = Len(Types[j][a].fields)
      /\ CellsFit(heap, j, a, heap[o].cells)
  BY <1>2 DEF IInv, HeapType
<1>6. Types[j][a].kind = "struct" => Len(heap[o].cells) = Len(Types[j][a].fields)
  BY <1>5 DEF Structs, Arrays
<1> QED
  BY <1>1, <1>2, <1>3, <1>4, <1>5, <1>6 DEF Object

\* What is read of an object is as the type of the instruction says.
LEMMA CellRead ==
  ASSUME IInv, NEW i \in Insts, NEW k \in Structs(i) \cup Arrays(i), NEW v, SoundIn(heap, v), 
         popObject(i, v, k) = "ok", NEW n \in DOMAIN Cells(v), 
         Types[i][k].kind = "struct" => n \in DOMAIN Types[i][k].fields
  PROVE  /\ FieldOf(Types[i][k], n) \in FieldTypes
         /\ FitsIn(heap, i, FieldOf(Types[i][k], n), Cells(v)[n])
<1> DEFINE o == v.ref.of
           j == heap[o].inst
           a == heap[o].type
<1>1. /\ j \in Insts /\ a \in Structs(j) \cup Arrays(j) /\ TypeSubtype(j, a, i, k)
      /\ CellsFit(heap, j, a, heap[o].cells) /\ Cells(v) = heap[o].cells
  BY ObjectAt, SMTT(60) DEF Cells
<1>2. FitsIn(heap, j, FieldOf(Types[j][a], n), Cells(v)[n])
  BY <1>1, SMTT(60) DEF CellsFit
<1>3. /\ FieldBelow(j, FieldOf(Types[j][a], n), i, FieldOf(Types[i][k], n))
      /\ FieldOf(Types[i][k], n) \in FieldTypes /\ FieldOf(Types[j][a], n) \in FieldTypes
  BY <1>1, FieldsBelow, ZenonT(60)
<1> HIDE DEF o, j, a
<1> QED
  BY <1>1, <1>2, <1>3, FieldBelowFits, SMTT(60) DEF IInv

LEMMA StructCell ==
  ASSUME IInv, NEW i \in Insts, NEW k \in Structs(i), NEW v, SoundIn(heap, v), 
         popObject(i, v, k) = "ok", NEW n \in DOMAIN Types[i][k].fields
  PROVE  n \in DOMAIN Cells(v)
<1> DEFINE o == v.ref.of
           j == heap[o].inst
           a == heap[o].type
<1>0. Types[i][k].kind = "struct"
  BY DEF Structs
<1>1. /\ j \in Insts /\ a \in Structs(j) \cup Arrays(j) /\ TypeSubtype(j, a, i, k)
      /\ Len(heap[o].cells) = Len(Types[j][a].fields) /\ Cells(v) = heap[o].cells
      /\ heap[o].cells \in Seq(Values)
  BY <1>0, ObjectAt, SMTT(60) DEF Cells
<1>2. n \in DOMAIN Types[j][a].fields
  BY <1>0, <1>1, FieldsBelow, SMTT(60)
<1>3. Types[j][a] \in TypeDefs
  BY <1>1, TypesType DEF Structs, Arrays
<1>4. Types[j][a].fields \in Seq(FieldTypes)
  BY <1>3 DEF TypeDefs
<1> HIDE DEF o, j, a
<1> QED
  BY <1>1, <1>2, <1>4

-----------------------------------------------------------------------------
(* What steps do to heap and registers *)

\* A register of i that may hold v gets it.
Sets(i, v) == \E r \in Locals(i) : regs' = [regs EXCEPT ![i][r] = v] /\ Typed(heap', v, i, Reg[i][r])

\* A new object of type k of i.
Adds(i, k, cells) ==
  /\ k \in Structs(i) \cup Arrays(i)
  /\ cells \in Seq(Values)
  /\ k \in Structs(i) => Len(cells) = Len(Types[i][k].fields)
  /\ CellsFit(heap, i, k, cells)
  /\ heap' = Append(heap, [inst |-> i, type |-> k, cells |-> cells])

Made(i, k, cells) == Adds(i, k, cells) /\ \E v : Sets(i, v)

\* Object o gets other cells, of which those that are immutable are the same.
Rewritten(o, cells) ==
  /\ o \in DOMAIN heap
  /\ cells \in Seq(Values) /\ DOMAIN cells = DOMAIN heap[o].cells
  /\ CellsFit(heap, heap[o].inst, heap[o].type, cells)
  /\ \A n \in DOMAIN cells : 
       FieldOf(Types[heap[o].inst][heap[o].type], n).mutable \/ cells[n] = heap[o].cells[n]
  /\ heap' = [heap EXCEPT ![o].cells = cells]
  /\ UNCHANGED regs

Shaped ==
  \/ UNCHANGED <<heap, regs>>
  \/ \E i \in Insts : \E v : UNCHANGED heap /\ Sets(i, v)
  \/ \E i \in Insts : \E k, cells : Made(i, k, cells)
  \/ \E o, cells : Rewritten(o, cells)

LEMMA SetsKeeps ==
  ASSUME IInv, NEW i \in Insts, NEW v, Sets(i, v), Extends(heap, heap'), UNCHANGED program
  PROVE  /\ DOMAIN regs' = Insts
         /\ \A j \in Insts : DOMAIN regs'[j] = Locals(j)
         /\ \A j \in Insts : \A r \in Locals(j) : Typed(heap', regs'[j][r], j, Reg[j][r])
<1>1. PICK r \in Locals(i) : regs' = [regs EXCEPT ![i][r] = v] /\ Typed(heap', v, i, Reg[i][r])
  BY DEF Sets
<1>2. DOMAIN regs = Insts /\ \A j \in Insts : DOMAIN regs[j] = Locals(j)
  BY DEF IInv
<1>3. DOMAIN regs' = Insts /\ \A j \in Insts : DOMAIN regs'[j] = Locals(j)
  BY <1>1, <1>2
<1>4. ASSUME NEW j \in Insts, NEW q \in Locals(j)
      PROVE  Typed(heap', regs'[j][q], j, Reg[j][q])
  <2>1. Typed(heap', regs[j][q], j, Reg[j][q])
    BY TypedStays DEF IInv
  <2>2. regs'[j][q] = IF j = i /\ q = r THEN v ELSE regs[j][q]
    BY <1>1, <1>2
  <2> QED
    BY <1>1, <2>1, <2>2
<1> QED
  BY <1>3, <1>4

LEMMA FitStays ==
  ASSUME NEW h, NEW g, Extends(h, g), NEW i, NEW k, NEW cells, CellsFit(h, i, k, cells)
  PROVE  CellsFit(g, i, k, cells)
BY TypedStays DEF CellsFit, FitsIn

LEMMA ExtendsItself == ASSUME NEW h PROVE Extends(h, h)
BY DEF Extends

LEMMA AddsKeeps ==
  ASSUME IInv, NEW i \in Insts, NEW k, NEW cells, Adds(i, k, cells)
  PROVE  /\ Extends(heap, heap') /\ HeapType(heap')
         /\ \A o \in DOMAIN heap' : CellsFit(heap', heap'[o].inst, heap'[o].type, heap'[o].cells)
         /\ heap'[Len(heap) + 1].inst = i /\ heap'[Len(heap) + 1].type = k
         /\ Len(heap) + 1 \in DOMAIN heap' /\ Len(heap) + 1 \in Nat
<1> DEFINE obj == [inst |-> i, type |-> k, cells |-> cells]
           Objs == [inst : Insts, type : Nat, cells : Seq(Values)]
<1>1. k \in Nat
  BY TypesType DEF Adds, Structs, Arrays
<1>2. obj \in Objs /\ heap \in Seq(Objs) /\ heap' = Append(heap, obj)
  BY <1>1 DEF Adds, IInv, HeapType
<1>2a. obj.inst = i /\ obj.type = k /\ obj.cells = cells
  OBVIOUS
<1> HIDE DEF obj, Objs
<1>3. /\ heap' \in Seq(Objs) /\ DOMAIN heap' = DOMAIN heap \cup {Len(heap) + 1} /\ DOMAIN heap = 1 .. Len(heap)
      /\ heap'[Len(heap) + 1] = obj /\ \A o \in DOMAIN heap : heap'[o] = heap[o]
      /\ Len(heap) + 1 \notin DOMAIN heap
  BY <1>2
<1>4. Extends(heap, heap')
  BY <1>3 DEF Extends
<1>5. HeapType(heap')
  BY <1>2a, <1>3 DEF IInv, HeapType, Adds, Objs
<1>6. \A o \in DOMAIN heap' : CellsFit(heap', heap'[o].inst, heap'[o].type, heap'[o].cells)
  <2>1. ASSUME NEW o \in DOMAIN heap
        PROVE  CellsFit(heap', heap'[o].inst, heap'[o].type, heap'[o].cells)
    BY <1>3, <1>4, FitStays DEF IInv
  <2>2. CellsFit(heap', i, k, cells)
    BY <1>4, FitStays DEF Adds
  <2> QED
    BY <1>2a, <1>3, <2>1, <2>2
<1> QED
  BY <1>2a, <1>3, <1>4, <1>5, <1>6, <1>2

LEMMA MadeKeeps ==
  ASSUME IInv, NEW i \in Insts, NEW k, NEW cells, Made(i, k, cells), UNCHANGED program
  PROVE  IInv' /\ Extends(heap, heap')
<1>1. Adds(i, k, cells) /\ \E v : Sets(i, v)
  BY DEF Made
<1>2. /\ Extends(heap, heap') /\ HeapType(heap')
      /\ \A o \in DOMAIN heap' : CellsFit(heap', heap'[o].inst, heap'[o].type, heap'[o].cells)
  BY <1>1, AddsKeeps
<1>3. /\ DOMAIN regs' = Insts
      /\ \A j \in Insts : DOMAIN regs'[j] = Locals(j)
      /\ \A j \in Insts : \A r \in Locals(j) : Typed(heap', regs'[j][r], j, Reg[j][r])
  BY <1>1, <1>2, SetsKeeps
<1> QED
  BY <1>2, <1>3 DEF IInv, Locals

LEMMA RewrittenKeeps ==
  ASSUME IInv, NEW o, NEW cells, Rewritten(o, cells), UNCHANGED program
  PROVE  IInv' /\ Extends(heap, heap')
<1> DEFINE Objs == [inst : Insts, type : Nat, cells : Seq(Values)]
<1>1. heap \in Seq(Objs) /\ o \in DOMAIN heap /\ cells \in Seq(Values)
  BY DEF IInv, HeapType, Rewritten
<1>2. heap[o] \in Objs
  BY <1>1, SeqElement
<1>3. [heap[o] EXCEPT !.cells = cells] \in Objs
  BY <1>1, <1>2
<1>4. heap' = [heap EXCEPT ![o] = [heap[o] EXCEPT !.cells = cells]]
  BY DEF Rewritten
<1> HIDE DEF Objs
<1>5. heap' \in Seq(Objs) /\ DOMAIN heap' = DOMAIN heap
  BY <1>1, <1>3, <1>4
<1>6. \A q \in DOMAIN heap : q # o => heap'[q] = heap[q]
  BY <1>1, <1>4
<1>7. heap'[o].inst = heap[o].inst /\ heap'[o].type = heap[o].type /\ heap'[o].cells = cells
  BY <1>1, <1>2, <1>4 DEF Objs
<1>8. Extends(heap, heap')
  BY <1>5, <1>6, <1>7 DEF Extends
<1>9. Len(cells) = Len(heap[o].cells)
  <2>1. heap[o].cells \in Seq(Values) /\ DOMAIN cells = DOMAIN heap[o].cells
    BY <1>2 DEF Objs, Rewritten
  <2> QED
    BY <1>1, <2>1
<1>10. HeapType(heap')
  <2>1. ASSUME NEW q \in DOMAIN heap
        PROVE  /\ heap'[q].type \in Structs(heap'[q].inst) \cup Arrays(heap'[q].inst)
               /\ heap'[q].type \in Structs(heap'[q].inst) => 
                    Len(heap'[q].cells) = Len(Types[heap'[q].inst][heap'[q].type].fields)
    BY <1>6, <1>7, <1>9 DEF IInv, HeapType
  <2> QED
    BY <1>5, <2>1 DEF HeapType, Objs
<1>11. ASSUME NEW q \in DOMAIN heap'
       PROVE  CellsFit(heap', heap'[q].inst, heap'[q].type, heap'[q].cells)
  <2>1. CASE q = o
    <3>1. CellsFit(heap, heap[o].inst, heap[o].type, cells)
      BY DEF Rewritten
    <3> QED
      BY <2>1, <3>1, <1>7, <1>8, FitStays
  <2>2. CASE q # o
    BY <2>2, <1>5, <1>6, <1>8, FitStays DEF IInv
  <2> QED
    BY <2>1, <2>2
<1>12. \A j \in Insts : \A r \in Locals(j) : Typed(heap', regs[j][r], j, Reg[j][r])
  BY <1>8, TypedStays DEF IInv
<1>13. regs' = regs
  BY DEF Rewritten
<1> QED
  BY <1>8, <1>10, <1>11, <1>12, <1>13 DEF IInv, Locals

LEMMA ShapedKeeps ==
  ASSUME IInv, Shaped, UNCHANGED program
  PROVE  IInv' /\ Extends(heap, heap')
<1>1. CASE UNCHANGED <<heap, regs>>
  BY <1>1, ExtendsItself DEF IInv, Locals
<1>2. CASE \E i \in Insts : \E v : UNCHANGED heap /\ Sets(i, v)
  <2>1w. PICK i \in Insts : \E v : UNCHANGED heap /\ Sets(i, v)
    BY <1>2
  <2>1. PICK v : UNCHANGED heap /\ Sets(i, v)
    BY <2>1w
  <2>2. Extends(heap, heap')
    BY <2>1, ExtendsItself
  <2> QED
    BY <2>1, <2>2, SetsKeeps DEF IInv, Locals
<1> QED
  BY <1>1, <1>2, MadeKeeps, RewrittenKeeps DEF Shaped

\* A result in a register.
LEMMA KeepSets ==
  ASSUME IInv, NEW i \in Insts, NEW t \in ValueTypes, t.kind = "ref", NEW v, HeapType(heap'), Typed(heap', v, i, t), 
         Keep(i, t, v)
  PROVE  Sets(i, v)
<1>1. PICK r \in Locals(i) : Accepts(i, t, i, Reg[i][r]) /\ regs' = [regs EXCEPT ![i][r] = v]
  BY DEF Keep
<1>2. Reg[i][r] \in ValueTypes
  BY LocalTypes DEF IInv, RefTypes
<1>3. Typed(heap', v, i, Reg[i][r])
  BY <1>1, <1>2, TypedAbove
<1> QED
  BY <1>1, <1>3 DEF Sets

LEMMA KeepShaped ==
  ASSUME IInv, NEW i \in Insts, NEW t \in ValueTypes, NEW v, Typed(heap, v, i, t), Keep(i, t, v), UNCHANGED heap
  PROVE  Shaped
<1>1. CASE t.kind = "ref"
  <2>1. HeapType(heap') /\ Typed(heap', v, i, t)
    BY DEF IInv
  <2> QED
    BY <1>1, <2>1, KeepSets DEF Shaped
<1>2. CASE t.kind # "ref"
  BY <1>2 DEF Keep, Shaped
<1> QED
  BY <1>1, <1>2

LEMMA FailsShaped ==
  ASSUME NEW op, NEW out, NEW must, Fails(op, out, must)
  PROVE  Shaped
BY DEF Fails, Shaped

\* A reference to an object of its own type.
LEMMA NewRefTyped ==
  ASSUME NEW h, HeapType(h), NEW i \in Insts, NEW k \in Structs(i) \cup Arrays(i), NEW o \in DOMAIN h, o \in Nat,
         h[o].inst = i, h[o].type = k
  PROVE  LET t == RefTypeIndexed(k, FALSE) IN
         t \in RefTypes /\ t \in ValueTypes /\ t.kind = "ref" /\ Typed(h, RefValue(t, Types[i][k].kind, o), i, t)
<1> DEFINE t == RefTypeIndexed(k, FALSE)
           v == RefValue(t, Types[i][k].kind, o)
<1>1. k \in DOMAIN Types[i] /\ k \in Nat /\ Types[i][k].kind \in {"struct", "array"}
  BY TypesType DEF Structs, Arrays
<1>2. t \in RefTypes /\ t \in ValueTypes /\ t.kind = "ref" /\ t.heap = "index" /\ t.index = k /\ ~t.nullable
  BY <1>1, RefIsRef DEF RefTypes, RefTypeIndexed
<1>3. 0 \in Numbers /\ I32 \in ValueTypes
  BY ZeroNumber
<1>4. /\ v.type = t /\ v.num = 0
      /\ v.ref.kind = Types[i][k].kind /\ v.ref.of = o /\ v.ref.wrapped = "no"
  BY DEF RefValue
<1>5. v \in Values
  BY <1>1, <1>2, <1>3 DEF RefValue, Values, References
<1> HIDE DEF v
<1>6. SoundIn(h, v)
  BY <1>1, <1>2, <1>4, <1>5 DEF SoundIn, RefOKIn
<1>7. RuntimeIn(h, v) = t /\ OwnerIn(h, i, v) = i
  BY <1>1, <1>4 DEF RuntimeIn, OwnerIn
<1>8. Accepts(i, t, i, t)
  <2>1. TypeSubtype(i, k, i, k)
    BY <1>1, SubtypesAssumption
  <2> QED
    BY <1>2, <2>1 DEF Accepts, matchesRefType, matchesHeapType
<1>9. ~IsNull(v)
  BY <1>1, <1>4 DEF IsNull
<1> HIDE DEF t
<1>10. HasIn(h, v, i, t)
  BY <1>2, <1>4, <1>7, <1>8, <1>9 DEF HasIn
<1> QED
  BY <1>2, <1>6, <1>10 DEF Typed, v, t

LEMMA AllocateShaped ==
  ASSUME IInv, NEW i \in Insts, NEW k \in Structs(i) \cup Arrays(i), NEW cells \in Seq(Values),
         k \in Structs(i) => Len(cells) = Len(Types[i][k].fields),
         CellsFit(heap, i, k, cells), NEW op, NEW must, Allocate(op, i, k, cells, must)
  PROVE  Shaped
<1> DEFINE t == RefTypeIndexed(k, FALSE)
           v == RefValue(t, Types[i][k].kind, Len(heap) + 1)
<1>1. Adds(i, k, cells)
  BY DEF Adds, Allocate
<1>2. /\ HeapType(heap') /\ heap'[Len(heap) + 1].inst = i /\ heap'[Len(heap) + 1].type = k
      /\ Len(heap) + 1 \in DOMAIN heap' /\ Len(heap) + 1 \in Nat
  BY <1>1, AddsKeeps
<1>3. t \in ValueTypes /\ t.kind = "ref" /\ Typed(heap', v, i, t)
  BY <1>2, NewRefTyped
<1>4. Keep(i, t, v)
  BY DEF Allocate
<1> HIDE DEF t, v
<1>5. Sets(i, v)
  BY <1>2, <1>3, <1>4, KeepSets
<1> QED
  BY <1>1, <1>5 DEF Made, Shaped

\* A write through a type that the object has: to fields that are mutable there.
LEMMA WriteShaped ==
  ASSUME IInv, NEW i \in Insts, NEW k \in Structs(i) \cup Arrays(i), NEW v, SoundIn(heap, v), popObject(i, v, k) = "ok",
         NEW cells, DOMAIN cells = DOMAIN Cells(v),
         \A n \in DOMAIN Cells(v) :
           \/ cells[n] = Cells(v)[n]
           \/ /\ Types[i][k].kind = "struct" => n \in DOMAIN Types[i][k].fields
              /\ FieldOf(Types[i][k], n).mutable
              /\ FitsIn(heap, i, FieldOf(Types[i][k], n), cells[n]),
         cells = [n \in DOMAIN Cells(v) |-> cells[n]],
         Write(v, cells), UNCHANGED regs
  PROVE  Shaped
<1> DEFINE o == v.ref.of
           j == heap[o].inst
           a == heap[o].type
<1>1. /\ o \in DOMAIN heap /\ heap[o].cells \in Seq(Values) /\ Cells(v) = heap[o].cells
      /\ j \in Insts /\ a \in Structs(j) \cup Arrays(j) /\ TypeSubtype(j, a, i, k)
      /\ CellsFit(heap, j, a, heap[o].cells)
  BY ObjectAt DEF Cells
<1>2. heap' = [heap EXCEPT ![o].cells = cells]
  BY DEF Write
<1> HIDE DEF o, j, a
<1>3. ASSUME NEW n \in DOMAIN cells
      PROVE  /\ FitsIn(heap, j, FieldOf(Types[j][a], n), cells[n])
             /\ FieldOf(Types[j][a], n).mutable \/ cells[n] = heap[o].cells[n]
  <2>1. CASE cells[n] = Cells(v)[n]
    BY <1>1, <2>1 DEF CellsFit
  <2>2. CASE cells[n] # Cells(v)[n]
    <3>1. /\ Types[i][k].kind = "struct" => n \in DOMAIN Types[i][k].fields
          /\ FieldOf(Types[i][k], n).mutable
          /\ FitsIn(heap, i, FieldOf(Types[i][k], n), cells[n])
      BY <2>2
    <3>2. /\ FieldBelow(j, FieldOf(Types[j][a], n), i, FieldOf(Types[i][k], n))
          /\ FieldOf(Types[i][k], n) \in FieldTypes /\ FieldOf(Types[j][a], n) \in FieldTypes
      BY <1>1, <3>1, FieldsBelow
    <3>3. /\ FitsIn(heap, j, FieldOf(Types[j][a], n), cells[n])
          /\ FieldOf(Types[j][a], n).mutable = FieldOf(Types[i][k], n).mutable
      <4> DEFINE f == FieldOf(Types[j][a], n)
                 g == FieldOf(Types[i][k], n)
      <4>1. HeapType(heap) /\ j \in Insts
        BY <1>1 DEF IInv
      <4>2. f \in FieldTypes /\ g \in FieldTypes /\ FieldBelow(j, f, i, g) /\ g.mutable /\ FitsIn(heap, i, g, cells[n])
        BY <3>1, <3>2
      <4> HIDE DEF f, g
      <4>3. FitsIn(heap, j, f, cells[n]) /\ f.mutable = g.mutable
        BY <4>1, <4>2, FieldBelowFits
      <4> QED
        BY <4>3 DEF f, g
    <3> QED
      BY <3>1, <3>3
  <2> QED
    BY <2>1, <2>2
<1>4. \A n \in DOMAIN cells : cells[n] \in Values
  BY <1>3 DEF FitsIn, Typed, SoundIn
<1>5. cells \in Seq(Values)
  <2>1. DOMAIN cells = 1 .. Len(heap[o].cells) /\ Len(heap[o].cells) \in Nat
    BY <1>1
  <2> DEFINE g == [n \in 1 .. Len(heap[o].cells) |-> cells[n]]
  <2>2. g \in Seq(Values)
    BY <1>4, <2>1
  <2>3. cells = g
    BY <2>1
  <2> QED
    BY <2>2, <2>3
<1>6. CellsFit(heap, j, a, cells)
  BY <1>3 DEF CellsFit
<1>7. Rewritten(o, cells)
  BY <1>1, <1>2, <1>3, <1>5, <1>6 DEF Rewritten, j, a
<1> QED
  BY <1>7, SMTT(60) DEF Shaped

\* What an instruction of type k gets as a reference: null or an object that it can use.
LEMMA GivenObject ==
  ASSUME IInv, NEW i \in Insts, NEW k \in Structs(i) \cup Arrays(i), NEW v \in Given(i, RefTypeIndexed(k, TRUE))
  PROVE  SoundIn(heap, v) /\ popObject(i, v, k) = IF IsNull(v) THEN "trap" ELSE "ok"
<1> DEFINE t == RefTypeIndexed(k, TRUE)
           r == RuntimeIn(heap, v)
           j == OwnerIn(heap, i, v)
<1>1. k \in DOMAIN Types[i] /\ k \in Nat /\ Types[i][k].kind \in {"struct", "array"}
  BY TypesType DEF Structs, Arrays
<1>2. t \in ValueTypes /\ t.kind = "ref" /\ t.heap = "index" /\ t.index = k
  BY <1>1, RefIsRef DEF RefTypes, RefTypeIndexed
<1> HIDE DEF t
<1>3. Typed(heap, v, i, t)
  BY <1>2, GivenTyped DEF t
<1>4. ASSUME ~IsNull(v)
      PROVE  v.ref.kind = Types[i][k].kind /\ objectMatchesType(i, Object(v), k)
  <2>1. Accepts(j, r, i, t) /\ HeapType(heap) /\ SoundIn(heap, v) /\ v.ref.kind # "null"
    BY <1>2, <1>3, <1>4 DEF Typed, HasIn, IInv, IsNull
  <2>2. v.ref.kind \in {"func", "extern", "i31", "struct", "array"}
    BY <2>1 DEF SoundIn, Values, References
  <2>3. /\ r.kind = "ref" /\ r.heap \in {"i31", "extern", "any", "index"} /\ j \in Insts
        /\ v.ref.kind \in {"i31", "extern"} => r.heap # "index"
        /\ v.ref.kind \in {"struct", "array", "func"} => 
             \A kind : typeIndexHasKind(j, r.index, kind) => kind = v.ref.kind
    BY <2>1, <2>2, RuntimeKinds, RuntimeOf
  <2>4. r.heap = "index" /\ TypeSubtype(j, r.index, i, k)
    BY <1>2, <2>1, <2>3 DEF Accepts, matchesRefType, matchesHeapType
  <2>5. typeIndexHasKind(j, r.index, Types[i][k].kind)
    BY <2>3, <2>4, SubtypeBelow DEF typeIndexHasKind
  <2>6. v.ref.kind = Types[i][k].kind
    BY <2>2, <2>3, <2>4, <2>5
  <2>7. r.index = heap[v.ref.of].type /\ j = heap[v.ref.of].inst
    BY <1>1, <2>6 DEF RuntimeIn, OwnerIn, RefTypeIndexed
  <2> QED
    BY <2>4, <2>6, <2>7 DEF objectMatchesType, Object
<1> QED
  BY <1>3, <1>4 DEF Typed, popObject

-----------------------------------------------------------------------------
(* Structs *)

LEMMA CellsMade ==
  ASSUME NEW i \in Insts, NEW k, NEW m \in Nat, NEW cells \in [1 .. m -> Values],
         \A n \in 1 .. m : FitsIn(heap, i, FieldOf(Types[i][k], n), cells[n])
  PROVE  cells \in Seq(Values) /\ Len(cells) = m /\ CellsFit(heap, i, k, cells)
BY DEF CellsFit

LEMMA FitIsValue ==
  ASSUME NEW h, NEW i, NEW f, NEW v, FitsIn(h, i, f, v)
  PROVE  v \in Values
BY DEF FitsIn, Typed, SoundIn

LEMMA StructFields ==
  ASSUME NEW i \in Insts, NEW k \in Structs(i)
  PROVE  /\ Types[i][k].kind = "struct" /\ k \in Structs(i) \cup Arrays(i)
         /\ Types[i][k].fields \in Seq(FieldTypes)
         /\ \A n \in DOMAIN Types[i][k].fields : 
              /\ Types[i][k].fields[n] \in FieldTypes /\ fieldValueType(Types[i][k].fields[n]) \in ValueTypes
              /\ FieldOf(Types[i][k], n) = Types[i][k].fields[n]
<1>1. Types[i][k] \in TypeDefs /\ Types[i][k].kind = "struct"
  BY TypesType DEF Structs
<1>2. Types[i][k].fields \in Seq(FieldTypes)
  BY <1>1 DEF TypeDefs
<1>3. \A n \in DOMAIN Types[i][k].fields : Types[i][k].fields[n] \in FieldTypes
  BY <1>2, SeqElement
<1> QED
  BY <1>1, <1>2, <1>3, FieldValueTypes DEF FieldOf

LEMMA newStructShaped ==
  ASSUME IInv, NEW i \in Insts, newStruct(i)
  PROVE  Shaped
<1>1. PICK k \in Structs(i) : \E cells \in StructNewOperands(i, k) :
        Allocate("struct.new", i, k, 
                 [n \in DOMAIN Types[i][k].fields |-> normalizeFieldValue(Types[i][k].fields[n], cells[n])], FALSE)
  BY DEF newStruct
<1> DEFINE fields == Types[i][k].fields
<1>2. PICK given \in StructNewOperands(i, k) :
        Allocate("struct.new", i, k, [n \in DOMAIN fields |-> normalizeFieldValue(fields[n], given[n])], FALSE)
  BY <1>1
<1> DEFINE cells == [n \in DOMAIN fields |-> normalizeFieldValue(fields[n], given[n])]
<1>3. fields \in Seq(FieldTypes) /\ DOMAIN fields = 1 .. Len(fields) /\ Len(fields) \in Nat
  BY StructFields
<1>4. ASSUME NEW n \in DOMAIN fields
      PROVE  FitsIn(heap, i, FieldOf(Types[i][k], n), cells[n])
  <2>1. given[n] \in Given(i, fieldValueType(fields[n]))
    BY DEF StructNewOperands
  <2>2. Typed(heap, given[n], i, fieldValueType(fields[n]))
    BY <2>1, GivenTyped, StructFields
  <2> QED
    BY <2>2, NormalFits, StructFields
<1>5. cells \in [1 .. Len(fields) -> Values]
  BY <1>3, <1>4, FitIsValue
<1> HIDE DEF cells
<1>5a. \A n \in 1 .. Len(fields) : FitsIn(heap, i, FieldOf(Types[i][k], n), cells[n])
  BY <1>3, <1>4
<1>6. cells \in Seq(Values) /\ Len(cells) = Len(fields) /\ CellsFit(heap, i, k, cells)
  <2> HIDE DEF fields
  <2> QED
    BY <1>3, <1>5a, <1>5, CellsMade
<1> QED
  BY <1>2, <1>6, AllocateShaped DEF cells

LEMMA newDefaultStructShaped ==
  ASSUME IInv, NEW i \in Insts, newDefaultStruct(i)
  PROVE  Shaped
<1>1. PICK k \in DefaultStructs(i) : 
        Allocate("struct.new_default", i, k, 
                 [n \in DOMAIN Types[i][k].fields |-> zeroValue(fieldValueType(Types[i][k].fields[n]))], FALSE)
  BY DEF newDefaultStruct
<1> DEFINE fields == Types[i][k].fields
           cells == [n \in DOMAIN fields |-> zeroValue(fieldValueType(fields[n]))]
<1>2. k \in Structs(i) /\ \A n \in DOMAIN fields : isDefaultableFieldType(fields[n])
  BY DEF DefaultStructs
<1>3. fields \in Seq(FieldTypes) /\ DOMAIN fields = 1 .. Len(fields) /\ Len(fields) \in Nat
  BY <1>2, StructFields
<1>4. ASSUME NEW n \in DOMAIN fields
      PROVE  FitsIn(heap, i, FieldOf(Types[i][k], n), cells[n])
  BY <1>2, ZeroFits, StructFields
<1>5. cells \in [1 .. Len(fields) -> Values]
  BY <1>3, <1>4, FitIsValue
<1> HIDE DEF cells
<1>5a. \A n \in 1 .. Len(fields) : FitsIn(heap, i, FieldOf(Types[i][k], n), cells[n])
  BY <1>3, <1>4
<1>6. cells \in Seq(Values) /\ Len(cells) = Len(fields) /\ CellsFit(heap, i, k, cells)
  <2> HIDE DEF fields
  <2> QED
    BY <1>3, <1>5a, <1>5, CellsMade
<1> QED
  BY <1>1, <1>2, <1>6, AllocateShaped DEF cells

LEMMA structGetShaped ==
  ASSUME IInv, NEW i \in Insts, structGet(i)
  PROVE  Shaped
<1>1. PICK k \in Structs(i) : \E n \in DOMAIN Types[i][k].fields, v \in StructGetOperands(i, k) :
        \/ Refuses("struct.get", i, v, k)
        \/ /\ popObject(i, v, k) = "ok"
           /\ Keep(i, fieldValueType(Types[i][k].fields[n]), Object(v).cells[n])
           /\ UNCHANGED heap
  BY DEF structGet
<1>2. PICK n \in DOMAIN Types[i][k].fields, v \in StructGetOperands(i, k) :
        \/ Refuses("struct.get", i, v, k)
        \/ /\ popObject(i, v, k) = "ok"
           /\ Keep(i, fieldValueType(Types[i][k].fields[n]), Object(v).cells[n])
           /\ UNCHANGED heap
  BY <1>1
<1>3. CASE Refuses("struct.get", i, v, k)
  BY <1>3, FailsShaped DEF Refuses
<1>4. CASE /\ popObject(i, v, k) = "ok"
           /\ Keep(i, fieldValueType(Types[i][k].fields[n]), Object(v).cells[n])
           /\ UNCHANGED heap
  <2> DEFINE t == fieldValueType(Types[i][k].fields[n])
             w == Object(v).cells[n]
  <2>1. SoundIn(heap, v)
    BY GivenObject DEF StructGetOperands
  <2>2. n \in DOMAIN Cells(v) /\ k \in Structs(i) \cup Arrays(i)
    BY <1>4, <2>1, StructCell
  <2>3. FitsIn(heap, i, FieldOf(Types[i][k], n), Cells(v)[n])
    BY <1>4, <2>1, <2>2, CellRead
  <2>4. Typed(heap, w, i, t) /\ t \in ValueTypes
    BY <2>3, StructFields DEF FitsIn, Cells
  <2>5. Keep(i, t, w)
    BY <1>4
  <2> HIDE DEF t, w
  <2> QED
    BY <1>4, <2>4, <2>5, KeepShaped
<1> QED
  BY <1>2, <1>3, <1>4

LEMMA structSetShaped ==
  ASSUME IInv, NEW i \in Insts, structSet(i)
  PROVE  Shaped
<1>1. PICK k \in Structs(i) : \E n \in DOMAIN Types[i][k].fields : \E o \in StructSetOperands(i, k, n) :
        \/ Fails("struct.set", "tag", FALSE)
        \/ Refuses("struct.set", i, o[1], k)
        \/ /\ popObject(i, o[1], k) = "ok"
           /\ Write(o[1], [Object(o[1]).cells EXCEPT ![n] = normalizeFieldValue(Types[i][k].fields[n], o[2])])
           /\ UNCHANGED regs
  BY DEF structSet
<1>2. PICK n \in DOMAIN Types[i][k].fields : \E o \in StructSetOperands(i, k, n) :
        \/ Fails("struct.set", "tag", FALSE)
        \/ Refuses("struct.set", i, o[1], k)
        \/ /\ popObject(i, o[1], k) = "ok"
           /\ Write(o[1], [Object(o[1]).cells EXCEPT ![n] = normalizeFieldValue(Types[i][k].fields[n], o[2])])
           /\ UNCHANGED regs
  BY <1>1
<1>2a. PICK o \in StructSetOperands(i, k, n) :
        \/ Fails("struct.set", "tag", FALSE)
        \/ Refuses("struct.set", i, o[1], k)
        \/ /\ popObject(i, o[1], k) = "ok"
           /\ Write(o[1], [Object(o[1]).cells EXCEPT ![n] = normalizeFieldValue(Types[i][k].fields[n], o[2])])
           /\ UNCHANGED regs
  BY <1>2
<1> DEFINE v == o[1]
           f == Types[i][k].fields[n]
           w == normalizeFieldValue(f, o[2])
<1>3. CASE Fails("struct.set", "tag", FALSE) \/ Refuses("struct.set", i, v, k)
  BY <1>3, FailsShaped DEF Refuses
<1>4. CASE popObject(i, v, k) = "ok" /\ Write(v, [Object(v).cells EXCEPT ![n] = w]) /\ UNCHANGED regs
  <2>1. f.mutable /\ v \in Given(i, RefTypeIndexed(k, TRUE)) /\ o[2] \in Given(i, fieldValueType(f))
    BY DEF StructSetOperands
  <2>2. f \in FieldTypes /\ fieldValueType(f) \in ValueTypes /\ FieldOf(Types[i][k], n) = f
    BY StructFields
  <2>3. SoundIn(heap, v) /\ k \in Structs(i) \cup Arrays(i)
    BY <2>1, GivenObject
  <2> HIDE DEF v, f
  <2>4. FitsIn(heap, i, f, w)
    BY <2>1, <2>2, GivenTyped, NormalFits
  <2> HIDE DEF w
  <2> DEFINE cells == [Object(v).cells EXCEPT ![n] = w]
  <2>5. DOMAIN cells = DOMAIN Cells(v) /\ \A m \in DOMAIN Cells(v) : cells[m] = IF m = n THEN w ELSE Cells(v)[m]
    BY DEF Cells
  <2>6. cells = [m \in DOMAIN Cells(v) |-> cells[m]]
    BY DEF Cells
  <2>7. Write(v, cells) /\ UNCHANGED regs /\ popObject(i, v, k) = "ok"
    BY <1>4
  <2>8. \A m \in DOMAIN Cells(v) :
           \/ cells[m] = Cells(v)[m]
           \/ /\ Types[i][k].kind = "struct" => m \in DOMAIN Types[i][k].fields
              /\ FieldOf(Types[i][k], m).mutable
              /\ FitsIn(heap, i, FieldOf(Types[i][k], m), cells[m])
    BY <2>1, <2>2, <2>4, <2>5
  <2> HIDE DEF cells
  <2> QED
    BY <2>3, <2>5, <2>6, <2>7, <2>8, WriteShaped
<1> QED
  BY <1>2a, <1>3, <1>4

-----------------------------------------------------------------------------
(* Arrays *)

LEMMA ArrayElem ==
  ASSUME NEW i \in Insts, NEW k \in Arrays(i)
  PROVE  /\ Types[i][k].kind = "array" /\ k \in Structs(i) \cup Arrays(i) /\ k \notin Structs(i)
         /\ Elem(i, k) \in FieldTypes /\ fieldValueType(Elem(i, k)) \in ValueTypes
         /\ \A n : FieldOf(Types[i][k], n) = Elem(i, k)
<1>1. Elem(i, k) \in FieldTypes
  BY TypesType DEF Elem
<1> QED
  BY <1>1, FieldValueTypes DEF Arrays, Structs, FieldOf, Elem

LEMMA ArrayMade ==
  ASSUME IInv, NEW i \in Insts, NEW k \in Arrays(i), NEW m \in Nat, NEW cells \in [1 .. m -> Values],
         \A n \in 1 .. m : FitsIn(heap, i, Elem(i, k), cells[n]),
         NEW op, NEW must, Allocate(op, i, k, cells, must)
  PROVE  Shaped
<1>1. k \in Structs(i) \cup Arrays(i) /\ k \notin Structs(i) /\ \A n \in 1 .. m : FieldOf(Types[i][k], n) = Elem(i, k)
  BY ArrayElem
<1>2. \A n \in 1 .. m : FitsIn(heap, i, FieldOf(Types[i][k], n), cells[n])
  BY <1>1
<1>3. cells \in Seq(Values) /\ CellsFit(heap, i, k, cells)
  BY <1>2, CellsMade
<1> QED
  BY <1>1, <1>3, AllocateShaped

LEMMA OverwriteShaped ==
  ASSUME IInv, NEW i \in Insts, NEW k \in MutableArrays(i), NEW v \in Given(i, RefTypeIndexed(k, TRUE)),
         popObject(i, v, k) = "ok", NEW start \in Nat, NEW length \in Nat, NEW values,
         \A m \in 1 .. length : FitsIn(heap, i, Elem(i, k), values[m]),
         NEW op, NEW must, Overwrite(op, v, start, length, values, must)
  PROVE  Shaped
<1> DEFINE cells == [n \in DOMAIN Cells(v) |-> 
                       IF start < n /\ n <= start + length THEN values[n - start] ELSE Cells(v)[n]]
<1>1. k \in Arrays(i) /\ Elem(i, k).mutable
  BY DEF MutableArrays
<1>2. /\ Types[i][k].kind = "array" /\ k \in Structs(i) \cup Arrays(i) 
      /\ \A n \in DOMAIN Cells(v) : FieldOf(Types[i][k], n) = Elem(i, k)
  BY <1>1, ArrayElem
<1>3. SoundIn(heap, v)
  BY <1>2, GivenObject
<1>4. Cells(v) \in Seq(Values)
  BY <1>2, <1>3, ObjectAt DEF Cells
<1>5. ASSUME NEW n \in DOMAIN Cells(v)
      PROVE  cells[n] = Cells(v)[n] \/ FitsIn(heap, i, Elem(i, k), cells[n])
  <2>1. n \in Nat
    BY <1>4
  <2>2. CASE start < n /\ n <= start + length
    BY <2>1, <2>2
  <2>3. CASE ~(start < n /\ n <= start + length)
    BY <2>3
  <2> QED
    BY <2>2, <2>3
<1>6. Write(v, cells) /\ UNCHANGED regs
  BY DEF Overwrite
<1>7. DOMAIN cells = DOMAIN Cells(v) /\ cells = [n \in DOMAIN Cells(v) |-> cells[n]]
  OBVIOUS
<1> HIDE DEF cells
<1>8. \A n \in DOMAIN Cells(v) :
           \/ cells[n] = Cells(v)[n]
           \/ /\ Types[i][k].kind = "struct" => n \in DOMAIN Types[i][k].fields
              /\ FieldOf(Types[i][k], n).mutable
              /\ FitsIn(heap, i, FieldOf(Types[i][k], n), cells[n])
  BY <1>1, <1>2, <1>5
<1> QED
  BY <1>2, <1>3, <1>6, <1>7, <1>8, WriteShaped

\* What is read from segments.
LEMMA DataFits ==
  ASSUME NEW i \in Insts, NEW f \in FieldTypes, NEW d \in DOMAIN Data[i], NEW offset \in Nat, NEW length \in Nat,
         DataOutcome(i, f, d, offset, length) = "ok"
  PROVE  LET values == arrayValuesFromData(i, f, d, offset, length) IN
         /\ values \in [1 .. length -> Values]
         /\ \A n \in 1 .. length : FitsIn(heap, i, f, values[n])
<1> DEFINE values == arrayValuesFromData(i, f, d, offset, length)
           w == fieldByteWidth(f)
           bytes == Data[i][d]
<1>1. CASE dataDropped[i][d]
  <2>1. length = 0 /\ values = <<>>
    BY <1>1 DEF DataOutcome, arrayValuesFromData
  <2>2. <<>> \in [1 .. 0 -> Values] /\ 1 .. 0 = {}
    OBVIOUS
  <2> HIDE DEF values
  <2>3. values \in [1 .. length -> Values] /\ 1 .. length = {}
    BY <2>1, <2>2
  <2> QED
    BY <2>3 DEF values
<1>2. CASE ~dataDropped[i][d]
  <2>1. HasByteWidth(f) /\ offset <= Len(bytes) /\ length * w <= Len(bytes) - offset
    BY <1>2 DEF DataOutcome
  <2>2. bytes \in Seq(Byte)
    <3>1. Data[i] \in Seq(Seq(Byte))
      BY SegmentsAssumption
    <3> QED
      BY <3>1, SeqElement
  <2>3. /\ fieldValueType(f) \in ValueTypes /\ fieldValueType(f).kind # "ref"
        /\ w \in {1, 2, 4, 8, 16} /\ (w = 1 <=> f.packed = "i8")
    <3>1. /\ f.packed \in {"none", "i8", "i16"} /\ f.type.kind \in NumKinds \cup {"ref"} /\ fieldValueType(f) \in ValueTypes
          /\ (f.packed # "none" => fieldValueType(f).kind = "i32")
      BY FieldValueTypes DEF FieldTypes, ValueTypes
    <3>2. CASE f.packed # "none"
      BY <3>1, <3>2 DEF fieldByteWidth
    <3>3. CASE f.packed = "none"
      BY <2>1, <3>1, <3>3 DEF HasByteWidth, fieldValueType, fieldByteWidth, Width, NumKinds
    <3> QED
      BY <3>2, <3>3
  <2>4. values = [n \in 1 .. length |-> valueFromArrayData(f, bytes, offset + ((n - 1) * w) + 1)]
    BY <1>2 DEF arrayValuesFromData
  <2> HIDE DEF w
  <2>5. ASSUME NEW n \in 1 .. length
        PROVE  FitsIn(heap, i, f, values[n])
    <3> DEFINE at == offset + ((n - 1) * w) + 1
               num == IF w = 1 THEN bytes[at] ELSE bytes[at] + Base * bytes[at + 1]
    <3>1. n * w <= length * w /\ (n - 1) * w = n * w - w /\ n * w \in Nat /\ length * w \in Nat /\ (n - 1) * w \in Nat
      BY <2>3
    <3>2. at \in Nat /\ at >= 1 /\ at + w - 1 <= Len(bytes) /\ Len(bytes) \in Nat
      BY <2>1, <2>2, <2>3, <3>1
    <3>3. bytes[at] \in Byte /\ (w # 1 => bytes[at + 1] \in Byte)
      <4> DEFINE p == at
      <4>1. DOMAIN bytes = 1 .. Len(bytes) /\ \A q \in DOMAIN bytes : bytes[q] \in Byte
        <5> HIDE DEF bytes
        <5> QED
          BY <2>2, SeqElement
      <4>2. p \in Nat /\ p >= 1 /\ p + w - 1 <= Len(bytes) /\ Len(bytes) \in Nat
        BY <3>2
      <4> HIDE DEF p, bytes
      <4>3. p \in 1 .. Len(bytes)
        BY <2>3, <4>2
      <4>4. w # 1 => p + 1 \in 1 .. Len(bytes)
        BY <2>3, <4>2
      <4>5. bytes[p] \in Byte /\ (w # 1 => bytes[p + 1] \in Byte)
        BY <4>1, <4>3, <4>4
      <4> QED
        BY <4>5 DEF p
    <3>4. values[n] = Value(fieldValueType(f), num)
      BY <2>4 DEF valueFromArrayData, w
    <3> HIDE DEF at
    <3>5. num \in Numbers /\ (w = 1 => num \in Byte)
      BY <3>3, ByteNumbers
    <3> HIDE DEF num, values
    <3>6. Typed(heap, values[n], i, fieldValueType(f)) /\ values[n].num = num
      BY <2>3, <3>4, <3>5, NumberTyped DEF Value
    <3> QED
      BY <2>3, <3>5, <3>6 DEF FitsIn
  <2> HIDE DEF values
  <2>6. values \in [1 .. length -> Values]
    BY <2>4, <2>5, FitIsValue
  <2> QED
    BY <2>5, <2>6 DEF values
<1> QED
  BY <1>1, <1>2

ElemRefs == [kind : {"null", "i31", "func"}, of : Nat, wrapped : {"no"}, tag : ValueTypes]
ElemValues == [type : ValueTypes, num : Nat, ref : ElemRefs]

LEMMA ElemsType ==
  ASSUME NEW i \in Insts, NEW d \in DOMAIN Elems[i]
  PROVE  Elems[i][d].type \in RefTypes /\ Elems[i][d].values \in Seq(ElemValues)
<1> DEFINE Segs == [type : RefTypes, values : Seq(ElemValues)]
<1>1. Elems[i] \in Seq(Segs)
  BY SegmentsAssumption DEF ElemValues, ElemRefs
<1>2. Elems[i][d] \in Segs
  <2> HIDE DEF Segs
  <2> QED
    BY <1>1, SeqElement
<1> QED
  BY <1>2

LEMMA ElemTyped ==
  ASSUME NEW i \in Insts, NEW d \in DOMAIN Elems[i], NEW n \in DOMAIN Elems[i][d].values
  PROVE  Elems[i][d].type \in RefTypes /\ Typed(heap, Elems[i][d].values[n], i, Elems[i][d].type)
<1> DEFINE v == Elems[i][d].values[n]
           t == Elems[i][d].type
<1>2. t \in RefTypes /\ Elems[i][d].values \in Seq(ElemValues)
  BY ElemsType
<1>3. v \in ElemValues
  BY <1>2, SeqElement
<1>4. ElemOK(i, v, t)
  BY SegmentsAssumption
<1> HIDE DEF v, t
<1>5. /\ v.type \in RefTypes /\ v.type.heap # "extern" /\ v.type.kind = "ref" /\ v.ref.wrapped = "no" 
      /\ v.ref.kind \in {"null", "i31", "func"} /\ t.kind = "ref"
  BY <1>2, <1>3, <1>4 DEF ElemOK, RefTypes, ElemValues, ElemRefs
<1>6. v \in Values
  <2>1. 0 \in Numbers
    BY ZeroNumber
  <2> QED
    BY <1>3, <1>4, <2>1 DEF ElemOK, Values, References, ElemValues, ElemRefs
<1>7. SoundIn(heap, v)
  BY <1>4, <1>5, <1>6 DEF ElemOK, SoundIn, RefOKIn
<1>8. HasIn(heap, v, i, t)
  <2>1. CASE v.ref.kind = "null"
    BY <1>4, <1>5, <2>1 DEF ElemOK, HasIn, IsNull
  <2>2. CASE v.ref.kind = "i31"
    BY <1>4, <1>5, <2>2 DEF ElemOK, HasIn, IsNull, RuntimeIn, OwnerIn
  <2>3. CASE v.ref.kind = "func"
    BY <1>4, <1>5, <2>3 DEF ElemOK, HasIn, IsNull, RuntimeIn, OwnerIn
  <2> QED
    BY <1>5, <2>1, <2>2, <2>3
<1> QED
  BY <1>2, <1>7, <1>8 DEF Typed, v, t

LEMMA ElemFits ==
  ASSUME IInv, NEW i \in Insts, NEW k \in Arrays(i), NEW d \in ArrayNewElem(i, k), NEW offset \in Nat, NEW length \in Nat,
         ElemOutcome(i, d, offset, length) = "ok"
  PROVE  LET values == arrayValuesFromElem(i, d, offset, length) IN
         /\ values \in [1 .. length -> Values]
         /\ \A n \in 1 .. length : FitsIn(heap, i, Elem(i, k), values[n])
<1> DEFINE values == arrayValuesFromElem(i, d, offset, length)
           all == Elems[i][d].values
           f == Elem(i, k)
           t == Elems[i][d].type
<1>1. CASE elemDropped[i][d]
  <2>1. length = 0 /\ values = <<>>
    BY <1>1 DEF ElemOutcome, arrayValuesFromElem
  <2>2. <<>> \in [1 .. 0 -> Values] /\ 1 .. 0 = {}
    OBVIOUS
  <2> HIDE DEF values
  <2>3. values \in [1 .. length -> Values] /\ 1 .. length = {}
    BY <2>1, <2>2
  <2> QED
    BY <2>3 DEF values
<1>2. CASE ~elemDropped[i][d]
  <2>1. offset <= Len(all) /\ length <= Len(all) - offset
    BY <1>2 DEF ElemOutcome, arrayRange
  <2>2. d \in DOMAIN Elems[i] /\ Accepts(i, t, i, fieldValueType(f))
    BY DEF ArrayNewElem
  <2>3. all \in Seq(ElemValues) /\ DOMAIN all = 1 .. Len(all) /\ Len(all) \in Nat
    BY <2>2, ElemsType
  <2>4. values = SubSeq(all, offset + 1, offset + length)
    BY <1>2 DEF arrayValuesFromElem
  <2>5. values = [n \in 1 .. length |-> all[offset + n]]
    <3> HIDE DEF all
    <3>1. (offset + length) - (offset + 1) + 1 = length /\ \A n \in 1 .. length : offset + 1 + n - 1 = offset + n
      OBVIOUS
    <3>2. SubSeq(all, offset + 1, offset + length) = [n \in 1 .. length |-> all[offset + n]]
      BY <2>1, <2>3, <3>1
    <3> QED
      BY <2>4, <3>2
  <2>6. ASSUME NEW n \in 1 .. length
        PROVE  FitsIn(heap, i, f, values[n])
    <3>1. offset + n \in DOMAIN all /\ values[n] = all[offset + n]
      BY <2>1, <2>3, <2>5
    <3>2. t \in RefTypes /\ Typed(heap, values[n], i, t)
      BY <2>2, <3>1, ElemTyped
    <3>3. f \in FieldTypes /\ fieldValueType(f) \in ValueTypes
      BY ArrayElem
    <3> HIDE DEF t, f
    <3>4. Typed(heap, values[n], i, fieldValueType(f))
      BY <2>2, <3>2, <3>3, TypedAbove DEF IInv, RefTypes
    <3>5. f.packed = "none"
      BY <2>2, <3>2, <3>3, FieldValueTypes DEF Accepts, RefTypes
    <3> QED
      BY <3>4, <3>5 DEF FitsIn
  <2> HIDE DEF values, f, all
  <2>7. values \in [1 .. length -> Values]
    BY <2>5, <2>6, FitIsValue
  <2> QED
    BY <2>6, <2>7 DEF values, f
<1> QED
  BY <1>1, <1>2

LEMMA Bounded == Lengths \subseteq Nat /\ Words \subseteq Nat
BY Bounds DEF Lengths, Words

LEMMA newArrayShaped ==
  ASSUME IInv, NEW i \in Insts, newArray(i)
  PROVE  Shaped
<1>1. PICK k \in Arrays(i), length \in Lengths : \E value \in ArrayNewOperands(i, k) :
        \/ Fails("array.new", "tag", FALSE)
        \/ Allocate("array.new", i, k, [n \in 1 .. length |-> normalizeFieldValue(Elem(i, k), value)], FALSE)
  BY DEF newArray
<1>2. PICK value \in ArrayNewOperands(i, k) :
        \/ Fails("array.new", "tag", FALSE)
        \/ Allocate("array.new", i, k, [n \in 1 .. length |-> normalizeFieldValue(Elem(i, k), value)], FALSE)
  BY <1>1
<1> DEFINE w == normalizeFieldValue(Elem(i, k), value)
           cells == [n \in 1 .. length |-> w]
<1>3. FitsIn(heap, i, Elem(i, k), w)
  BY ArrayElem, GivenTyped, NormalFits DEF ArrayNewOperands
<1> HIDE DEF w
<1>4. cells \in [1 .. length -> Values] /\ length \in Nat /\ \A n \in 1 .. length : FitsIn(heap, i, Elem(i, k), cells[n])
  BY <1>3, FitIsValue, Bounded
<1>5. Fails("array.new", "tag", FALSE) \/ Allocate("array.new", i, k, cells, FALSE)
  BY <1>2 DEF w
<1> HIDE DEF cells
<1> QED
  BY <1>4, <1>5, FailsShaped, ArrayMade

LEMMA newFixedArrayShaped ==
  ASSUME IInv, NEW i \in Insts, newFixedArray(i)
  PROVE  Shaped
<1>1. PICK k \in Arrays(i), length \in Lengths : \E given \in ArrayNewFixedOperands(i, k, length) :
        Allocate("array.new_fixed", i, k, [n \in 1 .. length |-> normalizeFieldValue(Elem(i, k), given[n])], FALSE)
  BY DEF newFixedArray
<1>2. PICK given \in ArrayNewFixedOperands(i, k, length) :
        Allocate("array.new_fixed", i, k, [n \in 1 .. length |-> normalizeFieldValue(Elem(i, k), given[n])], FALSE)
  BY <1>1
<1> DEFINE cells == [n \in 1 .. length |-> normalizeFieldValue(Elem(i, k), given[n])]
<1>3. ASSUME NEW n \in 1 .. length
      PROVE  FitsIn(heap, i, Elem(i, k), cells[n])
  <2>1. given[n] \in Given(i, fieldValueType(Elem(i, k)))
    BY DEF ArrayNewFixedOperands
  <2> QED
    BY <2>1, ArrayElem, GivenTyped, NormalFits
<1>4. cells \in [1 .. length -> Values] /\ length \in Nat
  BY <1>3, FitIsValue, Bounded
<1>5. Allocate("array.new_fixed", i, k, cells, FALSE)
  BY <1>2
<1> HIDE DEF cells
<1> QED
  BY <1>3, <1>4, <1>5, ArrayMade

LEMMA newDefaultArrayShaped ==
  ASSUME IInv, NEW i \in Insts, newDefaultArray(i)
  PROVE  Shaped
<1>1. PICK k \in DefaultArrays(i), length \in Lengths :
        Allocate("array.new_default", i, k, [n \in 1 .. length |-> zeroValue(fieldValueType(Elem(i, k)))], FALSE)
  BY DEF newDefaultArray
<1> DEFINE w == zeroValue(fieldValueType(Elem(i, k)))
           cells == [n \in 1 .. length |-> w]
<1>2. k \in Arrays(i) /\ FitsIn(heap, i, Elem(i, k), w)
  BY ArrayElem, ZeroFits DEF DefaultArrays
<1>3. Allocate("array.new_default", i, k, cells, FALSE)
  BY <1>1
<1> HIDE DEF w
<1>4. cells \in [1 .. length -> Values] /\ length \in Nat /\ \A n \in 1 .. length : FitsIn(heap, i, Elem(i, k), cells[n])
  BY <1>2, FitIsValue, Bounded
<1> HIDE DEF cells
<1> QED
  BY <1>2, <1>3, <1>4, ArrayMade

LEMMA newDataArrayShaped ==
  ASSUME IInv, NEW i \in Insts, newDataArray(i)
  PROVE  Shaped
<1>1. PICK k \in Arrays(i), offset \in Words, length \in Lengths : \E d \in ArrayNewData(i, k) : \E out, must :
        \/ Fails("array.new_data", out, must)
        \/ /\ DataOutcome(i, Elem(i, k), d, offset, length) = "ok" 
           /\ Allocate("array.new_data", i, k, arrayValuesFromData(i, Elem(i, k), d, offset, length), must)
  BY DEF newDataArray
<1>2w. PICK d \in ArrayNewData(i, k) : \E out, must :
        \/ Fails("array.new_data", out, must)
        \/ /\ DataOutcome(i, Elem(i, k), d, offset, length) = "ok" 
           /\ Allocate("array.new_data", i, k, arrayValuesFromData(i, Elem(i, k), d, offset, length), must)
  BY <1>1
<1>2. PICK out, must :
        \/ Fails("array.new_data", out, must)
        \/ /\ DataOutcome(i, Elem(i, k), d, offset, length) = "ok" 
           /\ Allocate("array.new_data", i, k, arrayValuesFromData(i, Elem(i, k), d, offset, length), must)
  BY <1>2w
<1> DEFINE values == arrayValuesFromData(i, Elem(i, k), d, offset, length)
<1>3. d \in DOMAIN Data[i] /\ offset \in Nat /\ length \in Nat /\ Elem(i, k) \in FieldTypes
  BY ArrayElem, Bounded DEF ArrayNewData
<1>4. CASE Fails("array.new_data", out, must)
  BY <1>4, FailsShaped
<1>5. CASE DataOutcome(i, Elem(i, k), d, offset, length) = "ok" /\ Allocate("array.new_data", i, k, values, must)
  <2>1. values \in [1 .. length -> Values] /\ \A n \in 1 .. length : FitsIn(heap, i, Elem(i, k), values[n])
    BY <1>3, <1>5, DataFits
  <2> HIDE DEF values
  <2> QED
    BY <1>3, <1>5, <2>1, ArrayMade
<1> QED
  BY <1>2, <1>4, <1>5

LEMMA newElemArrayShaped ==
  ASSUME IInv, NEW i \in Insts, newElemArray(i)
  PROVE  Shaped
<1>1. PICK k \in Arrays(i), offset \in Words, length \in Lengths : \E d \in ArrayNewElem(i, k) : \E out, must :
        \/ Fails("array.new_elem", out, must)
        \/ /\ ElemOutcome(i, d, offset, length) = "ok" 
           /\ Allocate("array.new_elem", i, k, arrayValuesFromElem(i, d, offset, length), must)
  BY DEF newElemArray
<1>2w. PICK d \in ArrayNewElem(i, k) : \E out, must :
        \/ Fails("array.new_elem", out, must)
        \/ /\ ElemOutcome(i, d, offset, length) = "ok" 
           /\ Allocate("array.new_elem", i, k, arrayValuesFromElem(i, d, offset, length), must)
  BY <1>1
<1>2. PICK out, must :
        \/ Fails("array.new_elem", out, must)
        \/ /\ ElemOutcome(i, d, offset, length) = "ok" 
           /\ Allocate("array.new_elem", i, k, arrayValuesFromElem(i, d, offset, length), must)
  BY <1>2w
<1> DEFINE values == arrayValuesFromElem(i, d, offset, length)
<1>3. offset \in Nat /\ length \in Nat
  BY Bounded
<1>4. CASE Fails("array.new_elem", out, must)
  BY <1>4, FailsShaped
<1>5. CASE ElemOutcome(i, d, offset, length) = "ok" /\ Allocate("array.new_elem", i, k, values, must)
  <2>1. values \in [1 .. length -> Values] /\ \A n \in 1 .. length : FitsIn(heap, i, Elem(i, k), values[n])
    BY <1>3, <1>5, ElemFits
  <2> HIDE DEF values
  <2> QED
    BY <1>3, <1>5, <2>1, ArrayMade
<1> QED
  BY <1>2, <1>4, <1>5

LEMMA arrayLenShaped ==
  ASSUME NEW i \in Insts, arrayLen(i)
  PROVE  Shaped
BY FailsShaped DEF arrayLen

LEMMA arrayGetShaped ==
  ASSUME IInv, NEW i \in Insts, arrayGet(i)
  PROVE  Shaped
<1>1. PICK k \in Arrays(i), index \in Words : \E v \in ArrayGetOperands(i, k) :
        \/ Refuses("array.get", i, v, k)
        \/ Fails("array.get", "trap", TRUE)
        \/ /\ popObject(i, v, k) = "ok"
           /\ index < Len(Cells(v))
           /\ Keep(i, fieldValueType(Elem(i, k)), Cells(v)[index + 1])
           /\ UNCHANGED heap
  BY DEF arrayGet
<1>2. PICK v \in ArrayGetOperands(i, k) :
        \/ Refuses("array.get", i, v, k)
        \/ Fails("array.get", "trap", TRUE)
        \/ /\ popObject(i, v, k) = "ok"
           /\ index < Len(Cells(v))
           /\ Keep(i, fieldValueType(Elem(i, k)), Cells(v)[index + 1])
           /\ UNCHANGED heap
  BY <1>1
<1>3. CASE Refuses("array.get", i, v, k) \/ Fails("array.get", "trap", TRUE)
  BY <1>3, FailsShaped DEF Refuses
<1>4. CASE /\ popObject(i, v, k) = "ok"
           /\ index < Len(Cells(v))
           /\ Keep(i, fieldValueType(Elem(i, k)), Cells(v)[index + 1])
           /\ UNCHANGED heap
  <2> DEFINE t == fieldValueType(Elem(i, k))
             w == Cells(v)[index + 1]
  <2>1. SoundIn(heap, v) /\ k \in Structs(i) \cup Arrays(i) /\ Types[i][k].kind = "array"
    BY ArrayElem, GivenObject DEF ArrayGetOperands
  <2>2. Cells(v) \in Seq(Values) /\ index \in Nat
    BY <1>4, <2>1, ObjectAt, Bounded DEF Cells
  <2>3. index + 1 \in DOMAIN Cells(v)
    BY <1>4, <2>2
  <2>4. FitsIn(heap, i, FieldOf(Types[i][k], index + 1), w)
    BY <1>4, <2>1, <2>3, CellRead
  <2>5. Typed(heap, w, i, t) /\ t \in ValueTypes
    BY <2>4, ArrayElem DEF FitsIn
  <2>6. Keep(i, t, w)
    BY <1>4
  <2> HIDE DEF t, w
  <2> QED
    BY <1>4, <2>5, <2>6, KeepShaped
<1> QED
  BY <1>2, <1>3, <1>4

LEMMA arraySetShaped ==
  ASSUME IInv, NEW i \in Insts, arraySet(i)
  PROVE  Shaped
<1>1. PICK k \in Arrays(i), index \in Words : \E o \in ArraySetOperands(i, k) :
        \/ Fails("array.set", "tag", FALSE) \/ Refuses("array.set", i, o[1], k) \/ Fails("array.set", "trap", TRUE)
        \/ /\ popObject(i, o[1], k) = "ok"
           /\ Overwrite("array.set", o[1], index, 1, <<normalizeFieldValue(Elem(i, k), o[2])>>, FALSE)
  BY DEF arraySet
<1>2. PICK o \in ArraySetOperands(i, k) :
        \/ Fails("array.set", "tag", FALSE) \/ Refuses("array.set", i, o[1], k) \/ Fails("array.set", "trap", TRUE)
        \/ /\ popObject(i, o[1], k) = "ok"
           /\ Overwrite("array.set", o[1], index, 1, <<normalizeFieldValue(Elem(i, k), o[2])>>, FALSE)
  BY <1>1
<1> DEFINE v == o[1]
           w == normalizeFieldValue(Elem(i, k), o[2])
           values == <<w>>
<1>3. CASE Fails("array.set", "tag", FALSE) \/ Refuses("array.set", i, v, k) \/ Fails("array.set", "trap", TRUE)
  BY <1>3, FailsShaped DEF Refuses
<1>4. CASE popObject(i, v, k) = "ok" /\ Overwrite("array.set", v, index, 1, values, FALSE)
  <2>1. k \in MutableArrays(i) /\ v \in Given(i, RefTypeIndexed(k, TRUE)) /\ o[2] \in Given(i, fieldValueType(Elem(i, k)))
    BY DEF ArraySetOperands
  <2>2. FitsIn(heap, i, Elem(i, k), w)
    BY <2>1, ArrayElem, GivenTyped, NormalFits
  <2> HIDE DEF v, w
  <2>3. \A m \in 1 .. 1 : FitsIn(heap, i, Elem(i, k), values[m])
    BY <2>2
  <2>4. index \in Nat /\ 1 \in Nat
    BY Bounded
  <2> HIDE DEF values
  <2> QED
    BY <1>4, <2>1, <2>3, <2>4, OverwriteShaped
<1> QED
  BY <1>2, <1>3, <1>4

LEMMA arrayFillShaped ==
  ASSUME IInv, NEW i \in Insts, arrayFill(i)
  PROVE  Shaped
<1>1. PICK k \in Arrays(i), start \in Words, length \in Words : \E o \in ArrayFillOperands(i, k) :
        \/ ~popWant(o[2], Elem(i, k)) /\ Fails("array.fill", "tag", FALSE)
        \/ popWant(o[2], Elem(i, k)) /\ Refuses("array.fill", i, o[1], k)
        \/ /\ popWant(o[2], Elem(i, k)) /\ popObject(i, o[1], k) = "ok"
           /\ LET must == start + length > Len(Cells(o[1])) IN
              \/ ~arrayRange(Len(Cells(o[1])), start, length) /\ Fails("array.fill", "trap", must)
              \/ /\ arrayRange(Len(Cells(o[1])), start, length)
                 /\ Overwrite("array.fill", o[1], start, length,
                              [n \in 1 .. length |-> normalizeFieldValue(Elem(i, k), o[2])], must)
  BY Zenon DEF arrayFill
<1>2. PICK o \in ArrayFillOperands(i, k) :
        \/ Fails("array.fill", "tag", FALSE) \/ Refuses("array.fill", i, o[1], k) 
        \/ \E must : Fails("array.fill", "trap", must)
        \/ \E must : 
             /\ popObject(i, o[1], k) = "ok"
             /\ Overwrite("array.fill", o[1], start, length, [n \in 1 .. length |-> normalizeFieldValue(Elem(i, k), o[2])], must)
  BY <1>1
<1> DEFINE v == o[1]
           w == normalizeFieldValue(Elem(i, k), o[2])
           values == [n \in 1 .. length |-> w]
<1>3. CASE Fails("array.fill", "tag", FALSE) \/ Refuses("array.fill", i, v, k) \/ \E must : Fails("array.fill", "trap", must)
  BY <1>3, FailsShaped DEF Refuses
<1>4. CASE popObject(i, v, k) = "ok" /\ \E must : Overwrite("array.fill", v, start, length, values, must)
  <2>1. k \in MutableArrays(i) /\ v \in Given(i, RefTypeIndexed(k, TRUE)) /\ o[2] \in Given(i, fieldValueType(Elem(i, k)))
    BY DEF ArrayFillOperands
  <2>2. FitsIn(heap, i, Elem(i, k), w)
    BY <2>1, ArrayElem, GivenTyped, NormalFits
  <2> HIDE DEF v, w
  <2>3. \A m \in 1 .. length : FitsIn(heap, i, Elem(i, k), values[m])
    BY <2>2
  <2>4. start \in Nat /\ length \in Nat
    BY Bounded
  <2> HIDE DEF values
  <2> QED
    BY <1>4, <2>1, <2>3, <2>4, OverwriteShaped
<1> QED
  BY <1>2, <1>3, <1>4

LEMMA arrayInitDataShaped ==
  ASSUME IInv, NEW i \in Insts, arrayInitData(i)
  PROVE  Shaped
<1>1. PICK k \in Arrays(i), start \in Words, offset \in Words, length \in Words : \E o \in ArrayInitDataOperands(i, k) :
        LET must == start + length > Len(Cells(o[1])) \/ DataMustTrap(i, Elem(i, k), o[2], offset, length) IN
        \/ Refuses("array.init_data", i, o[1], k) \/ Fails("array.init_data", "trap", must)
        \/ /\ popObject(i, o[1], k) = "ok" /\ DataOutcome(i, Elem(i, k), o[2], offset, length) = "ok"
           /\ Overwrite("array.init_data", o[1], start, length,
                        arrayValuesFromData(i, Elem(i, k), o[2], offset, length), must)
  BY DEF arrayInitData
<1>2. PICK o \in ArrayInitDataOperands(i, k) :
        LET must == start + length > Len(Cells(o[1])) \/ DataMustTrap(i, Elem(i, k), o[2], offset, length) IN
        \/ Refuses("array.init_data", i, o[1], k) \/ Fails("array.init_data", "trap", must)
        \/ /\ popObject(i, o[1], k) = "ok" /\ DataOutcome(i, Elem(i, k), o[2], offset, length) = "ok"
           /\ Overwrite("array.init_data", o[1], start, length,
                        arrayValuesFromData(i, Elem(i, k), o[2], offset, length), must)
  BY <1>1
<1> DEFINE must == start + length > Len(Cells(o[1])) \/ DataMustTrap(i, Elem(i, k), o[2], offset, length)
           v == o[1]
           d == o[2]
           values == arrayValuesFromData(i, Elem(i, k), d, offset, length)
<1>3. CASE Refuses("array.init_data", i, v, k) \/ Fails("array.init_data", "trap", must)
  BY <1>3, FailsShaped DEF Refuses
<1>4. CASE /\ popObject(i, v, k) = "ok" /\ DataOutcome(i, Elem(i, k), d, offset, length) = "ok"
           /\ Overwrite("array.init_data", v, start, length, values, must)
  <2>1. k \in MutableArrays(i) /\ v \in Given(i, RefTypeIndexed(k, TRUE)) /\ d \in DOMAIN Data[i]
    BY DEF ArrayInitDataOperands
  <2>2. start \in Nat /\ offset \in Nat /\ length \in Nat
    BY Bounded
  <2> HIDE DEF v, d, must
  <2>3. \A m \in 1 .. length : FitsIn(heap, i, Elem(i, k), values[m])
    BY <1>4, <2>1, <2>2, ArrayElem, DataFits
  <2> HIDE DEF values
  <2> QED
    BY <1>4, <2>1, <2>2, <2>3, OverwriteShaped
<1> QED
  BY <1>2, <1>3, <1>4

LEMMA arrayInitElemShaped ==
  ASSUME IInv, NEW i \in Insts, arrayInitElem(i)
  PROVE  Shaped
<1>1. PICK k \in Arrays(i), start \in Words, offset \in Words, length \in Words : \E o \in ArrayInitElemOperands(i, k) :
        LET must == start + length > Len(Cells(o[1])) \/ ElemMustTrap(i, o[2], offset, length) IN
        \/ Refuses("array.init_elem", i, o[1], k) \/ Fails("array.init_elem", "trap", must)
        \/ /\ popObject(i, o[1], k) = "ok" /\ ElemOutcome(i, o[2], offset, length) = "ok"
           /\ Overwrite("array.init_elem", o[1], start, length, arrayValuesFromElem(i, o[2], offset, length), must)
  BY DEF arrayInitElem
<1>2. PICK o \in ArrayInitElemOperands(i, k) :
        LET must == start + length > Len(Cells(o[1])) \/ ElemMustTrap(i, o[2], offset, length) IN
        \/ Refuses("array.init_elem", i, o[1], k) \/ Fails("array.init_elem", "trap", must)
        \/ /\ popObject(i, o[1], k) = "ok" /\ ElemOutcome(i, o[2], offset, length) = "ok"
           /\ Overwrite("array.init_elem", o[1], start, length, arrayValuesFromElem(i, o[2], offset, length), must)
  BY <1>1
<1> DEFINE must == start + length > Len(Cells(o[1])) \/ ElemMustTrap(i, o[2], offset, length)
           v == o[1]
           d == o[2]
           values == arrayValuesFromElem(i, d, offset, length)
<1>3. CASE Refuses("array.init_elem", i, v, k) \/ Fails("array.init_elem", "trap", must)
  BY <1>3, FailsShaped DEF Refuses
<1>4. CASE /\ popObject(i, v, k) = "ok" /\ ElemOutcome(i, d, offset, length) = "ok"
           /\ Overwrite("array.init_elem", v, start, length, values, must)
  <2>1. k \in MutableArrays(i) /\ v \in Given(i, RefTypeIndexed(k, TRUE)) /\ d \in ArrayNewElem(i, k)
    BY DEF ArrayInitElemOperands
  <2>2. start \in Nat /\ offset \in Nat /\ length \in Nat
    BY Bounded
  <2> HIDE DEF v, d, must
  <2>3. \A m \in 1 .. length : FitsIn(heap, i, Elem(i, k), values[m])
    BY <1>4, <2>1, <2>2, ElemFits
  <2> HIDE DEF values
  <2> QED
    BY <1>4, <2>1, <2>2, <2>3, OverwriteShaped
<1> QED
  BY <1>2, <1>3, <1>4

LEMMA arrayCopyShaped ==
  ASSUME IInv, NEW i \in Insts, arrayCopy(i)
  PROVE  Shaped
<1>1. PICK k \in Arrays(i), l \in Arrays(i), start \in Words, from \in Words, length \in Words : 
        \E o \in ArrayCopyOperands(i, k, l) :
          LET must == start + length > Len(Cells(o[1])) \/ from + length > Len(Cells(o[2])) IN
          \/ Refuses("array.copy", i, o[2], l) \/ Refuses("array.copy", i, o[1], k) \/ Fails("array.copy", "trap", must)
          \/ /\ popObject(i, o[2], l) = "ok" /\ popObject(i, o[1], k) = "ok" 
             /\ arrayRange(Len(Cells(o[2])), from, length)
             /\ Overwrite("array.copy", o[1], start, length, SubSeq(Cells(o[2]), from + 1, from + length), must)
  BY DEF arrayCopy
<1>2. PICK o \in ArrayCopyOperands(i, k, l) :
          LET must == start + length > Len(Cells(o[1])) \/ from + length > Len(Cells(o[2])) IN
          \/ Refuses("array.copy", i, o[2], l) \/ Refuses("array.copy", i, o[1], k) \/ Fails("array.copy", "trap", must)
          \/ /\ popObject(i, o[2], l) = "ok" /\ popObject(i, o[1], k) = "ok" 
             /\ arrayRange(Len(Cells(o[2])), from, length)
             /\ Overwrite("array.copy", o[1], start, length, SubSeq(Cells(o[2]), from + 1, from + length), must)
  BY <1>1
<1> DEFINE must == start + length > Len(Cells(o[1])) \/ from + length > Len(Cells(o[2]))
           dst == o[1]
           src == o[2]
           values == SubSeq(Cells(src), from + 1, from + length)
<1>3. CASE Refuses("array.copy", i, src, l) \/ Refuses("array.copy", i, dst, k) \/ Fails("array.copy", "trap", must)
  BY <1>3, FailsShaped DEF Refuses
<1>4. CASE /\ popObject(i, src, l) = "ok" /\ popObject(i, dst, k) = "ok" /\ arrayRange(Len(Cells(src)), from, length)
           /\ Overwrite("array.copy", dst, start, length, values, must)
  <2>1. /\ k \in MutableArrays(i) /\ sameFieldStorage(Elem(i, k), Elem(i, l))
        /\ dst \in Given(i, RefTypeIndexed(k, TRUE)) /\ src \in Given(i, RefTypeIndexed(l, TRUE))
    BY DEF ArrayCopyOperands
  <2>2. start \in Nat /\ from \in Nat /\ length \in Nat
    BY Bounded
  <2> HIDE DEF dst, src, must
  <2>3. SoundIn(heap, src) /\ l \in Structs(i) \cup Arrays(i) /\ Types[i][l].kind = "array"
    BY <2>1, ArrayElem, GivenObject
  <2>4. Cells(src) \in Seq(Values)
    BY <1>4, <2>3, ObjectAt DEF Cells
  <2>5. ASSUME NEW m \in 1 .. length
        PROVE  FitsIn(heap, i, Elem(i, k), values[m])
    <3>1. from + m \in DOMAIN Cells(src)
      BY <1>4, <2>2, <2>4 DEF arrayRange
    <3>2. values[m] = Cells(src)[from + m]
      BY <1>4, <2>2, <2>4 DEF arrayRange
    <3>3. FitsIn(heap, i, FieldOf(Types[i][l], from + m), Cells(src)[from + m])
      BY <1>4, <2>3, <3>1, CellRead
    <3>4. FitsIn(heap, i, Elem(i, l), values[m])
      BY <3>2, <3>3, ArrayElem
    <3>5. fieldValueType(Elem(i, k)) = fieldValueType(Elem(i, l)) /\ Elem(i, k).packed = Elem(i, l).packed
      BY <2>1 DEF sameFieldStorage, fieldValueType
    <3> QED
      BY <3>4, <3>5 DEF FitsIn
  <2> HIDE DEF values
  <2> QED
    BY <1>4, <2>1, <2>2, <2>5, OverwriteShaped
<1> QED
  BY <1>2, <1>3, <1>4

LEMMA DropShaped ==
  ASSUME NEW i \in Insts, DropData(i) \/ DropElem(i)
  PROVE  Shaped
BY DEF DropData, DropElem, Shaped

-----------------------------------------------------------------------------
(* References *)

LEMMA MakeShaped ==
  ASSUME IInv, NEW i \in Insts, NEW t \in RefTypes, NEW v, Typed(heap, v, i, t), NEW op, Make(op, i, t, v)
  PROVE  Shaped
BY KeepShaped DEF Make, RefTypes

\* An i31 or a reference of the host.
LEMMA AtomTyped ==
  ASSUME NEW h, NEW i, NEW kind \in {"i31", "extern"}, NEW of \in Nat
  PROVE  Ref(kind, FALSE) \in RefTypes /\ Typed(h, RefValue(Ref(kind, FALSE), kind, of), i, Ref(kind, FALSE))
<1> DEFINE t == Ref(kind, FALSE)
           v == RefValue(t, kind, of)
<1>1. t \in RefTypes /\ t.kind = "ref" /\ t.heap = kind /\ ~t.nullable /\ t \in ValueTypes
  BY RefIsRef DEF Ref, HeapKinds, RefTypes
<1>2. 0 \in Numbers /\ I32 \in ValueTypes
  BY ZeroNumber
<1>3. v.type = t /\ v.ref.kind = kind /\ v.ref.wrapped = "no"
  BY DEF RefValue
<1>4. v \in Values
  BY <1>1, <1>2 DEF RefValue, Values, References
<1> HIDE DEF v
<1>5. SoundIn(h, v)
  BY <1>1, <1>3, <1>4 DEF SoundIn, RefOKIn
<1>6. RuntimeIn(h, v) = t
  BY <1>1, <1>3 DEF RuntimeIn
<1> HIDE DEF t
<1>7. HasIn(h, v, i, t)
  BY <1>1, <1>3, <1>6 DEF HasIn, IsNull, Accepts, matchesRefType, matchesHeapType
<1> QED
  BY <1>1, <1>5, <1>7 DEF Typed, v, t

LEMMA FuncTyped ==
  ASSUME NEW h, NEW f \in DOMAIN Funcs
  PROVE  LET t == RefTypeIndexed(Funcs[f].type, FALSE) IN
         t \in RefTypes /\ Typed(h, RefValue(Ref("func", FALSE), "func", f), Funcs[f].inst, t)
<1> DEFINE k == Funcs[f].type
           i == Funcs[f].inst
           t == RefTypeIndexed(k, FALSE)
           tag == Ref("func", FALSE)
           v == RefValue(tag, "func", f)
<1>1. i \in Insts /\ k \in DOMAIN Types[i] /\ k \in Nat /\ f \in Nat
  BY FuncsType, TypesType, SMTT(60)
<1>2. t \in RefTypes /\ t.kind = "ref" /\ t.heap = "index" /\ t.index = k /\ ~t.nullable
  BY <1>1, RefIsRef DEF RefTypes, RefTypeIndexed
<1>3. 0 \in Numbers /\ I32 \in ValueTypes
  BY ZeroNumber
<1>10. tag \in ValueTypes /\ tag.kind = "ref" /\ tag.heap = "func"
  BY RefIsRef DEF Ref, HeapKinds, RefTypes
<1>4. v.type = tag /\ v.ref.kind = "func" /\ v.ref.wrapped = "no" /\ v.ref.of = f
  BY DEF RefValue
<1> HIDE DEF tag
<1>5. v \in Values
  BY <1>1, <1>3, <1>10 DEF RefValue, Values, References
<1> HIDE DEF v
<1>6. SoundIn(h, v)
  BY <1>4, <1>5, <1>10 DEF SoundIn, RefOKIn
<1>7. RuntimeIn(h, v) = t /\ OwnerIn(h, i, v) = i
  BY <1>4 DEF RuntimeIn, OwnerIn
<1>8. TypeSubtype(i, k, i, k)
  BY <1>1, SubtypesAssumption
<1> HIDE DEF t
<1>9. HasIn(h, v, i, t)
  BY <1>2, <1>4, <1>7, <1>8, <1>10 DEF HasIn, IsNull, Accepts, matchesRefType, matchesHeapType
<1> QED
  BY <1>2, <1>6, <1>9 DEF Typed, v, t, tag

LEMMA MakesShaped ==
  ASSUME IInv, NEW i \in Insts, MakeStep(i)
  PROVE  Shaped
<1>1. ASSUME refNull(i)
      PROVE  Shaped
  <2>1. PICK t \in CastTypes(i) : Make("ref.null", i, OrNull(t), zeroValue(OrNull(t)))
    BY <1>1 DEF refNull
  <2>2. t \in RefTypes
    BY LocalTypes DEF IInv
  <2>3. OrNull(t) \in RefTypes /\ OrNull(t).nullable
    BY <2>2, RefIsRef DEF OrNull, RefTypes, ValueTypes
  <2> QED
    BY <2>1, <2>3, NullTyped, MakeShaped
<1>2. ASSUME refI31(i)
      PROVE  Shaped
  <2>1. PICK n \in Numbers : 
          Make("ref.i31", i, Ref("i31", FALSE), RefValue(Ref("i31", FALSE), "i31", n % I31Size))
    BY <1>2 DEF refI31
  <2>2. n % I31Size \in Nat
    BY Bounds, ZeroNumber DEF Numbers
  <2> QED
    BY <2>1, <2>2, AtomTyped, MakeShaped
<1>3. ASSUME refFunc(i)
      PROVE  Shaped
  <2>1. PICK f \in DOMAIN Funcs : 
          /\ Funcs[f].inst = i
          /\ Make("ref.func", i, RefTypeIndexed(Funcs[f].type, FALSE), 
                  RefValue(Ref("func", FALSE), "func", f))
    BY <1>3 DEF refFunc
  <2> QED
    BY <2>1, FuncTyped, MakeShaped
<1>4. ASSUME HostRef(i)
      PROVE  Shaped
  <2>1. PICK h \in Hosts : 
          Make("host", i, Ref("extern", FALSE), RefValue(Ref("extern", FALSE), "extern", h))
    BY <1>4 DEF HostRef
  <2>2. h \in Nat
    BY Bounds
  <2> QED
    BY <2>1, <2>2, AtomTyped, MakeShaped
<1>5. ASSUME i31Get(i)
      PROVE  Shaped
  BY <1>5, FailsShaped DEF i31Get
<1> QED
  BY <1>1, <1>2, <1>3, <1>4, <1>5 DEF MakeStep

LEMMA refCastShaped ==
  ASSUME IInv, NEW i \in Insts, refCast(i)
  PROVE  Shaped
<1>1. PICK o \in RefCastOperands(i), t \in CastTypes(i) :
        \/ Fails(CastName(i, o.v, o.t, t), "trap", ~Has(o.v, i, t))
        \/ refMatches(i, o.v, t) /\ Keep(i, t, Tagged(o.v, t)) /\ UNCHANGED heap
  BY DEF refCast
<1>2. t \in RefTypes /\ t \in ValueTypes /\ o \in Operands(i)
  BY LocalTypes DEF IInv, RefCastOperands, RefTypes
<1>3. o.t \in RefTypes /\ Typed(heap, o.v, i, o.t)
  BY <1>2, OperandTyped
<1>4. SoundIn(heap, o.v) /\ o.v.type.kind = "ref" /\ HeapType(heap)
  BY <1>3 DEF Typed, HasIn, IInv, RefTypes
<1>5. refMatches(i, o.v, t) => Typed(heap, Tagged(o.v, t), i, t)
  BY <1>2, <1>4, RefMatchesTyped
<1> QED
  BY <1>1, <1>2, <1>5, FailsShaped, KeepShaped

LEMMA brOnCastShaped ==
  ASSUME IInv, NEW i \in Insts, brOnCast(i)
  PROVE  Shaped
<1>1. PICK s \in CastTypes(i), t \in CastTypes(i) : \E v \in BrOnCastOperands(i, s, t) :
        /\ \/ refMatches(i, v, t) /\ Keep(i, t, Tagged(v, t))
           \/ ~refMatches(i, v, t) /\ Keep(i, diffRefType(s, t), Tagged(v, s))
        /\ UNCHANGED heap
  BY DEF brOnCast
<1>2. PICK v \in BrOnCastOperands(i, s, t) :
        /\ \/ refMatches(i, v, t) /\ Keep(i, t, Tagged(v, t))
           \/ ~refMatches(i, v, t) /\ Keep(i, diffRefType(s, t), Tagged(v, s))
        /\ UNCHANGED heap
  BY <1>1
<1>3. t \in RefTypes /\ t \in ValueTypes /\ s \in RefTypes /\ s \in ValueTypes /\ HeapType(heap)
  BY LocalTypes DEF IInv, RefTypes
<1>4. v \in Given(i, s)
  BY DEF BrOnCastOperands
<1>5. Typed(heap, v, i, s)
  BY <1>3, <1>4, GivenTyped
<1>6. CASE refMatches(i, v, t) /\ Keep(i, t, Tagged(v, t))
  <2>1. SoundIn(heap, v) /\ v.type.kind = "ref"
    BY <1>3, <1>5 DEF Typed, HasIn, RefTypes
  <2>2. Typed(heap, Tagged(v, t), i, t)
    BY <1>3, <1>6, <2>1, RefMatchesTyped
  <2> QED
    BY <1>2, <1>3, <1>6, <2>2, KeepShaped
<1>7. CASE ~refMatches(i, v, t) /\ Keep(i, diffRefType(s, t), Tagged(v, s))
  <2>1. Typed(heap, Tagged(v, s), i, s)
    BY <1>3, <1>5, RetagTyped
  <2>2. IsNull(Tagged(v, s)) <=> IsNull(v)
    <3>1. v \in Values
      BY <1>5 DEF Typed, SoundIn
    <3> QED
      BY <1>3, <3>1, TagType DEF IsNull
  <2>3. diffRefType(s, t) \in RefTypes /\ Typed(heap, Tagged(v, s), i, diffRefType(s, t))
    <3>1. CASE s.nullable /\ t.nullable
      <4>1. ~IsNull(v)
        BY <1>7, <3>1 DEF refMatches
      <4>2. Typed(heap, Tagged(v, s), i, NonNull(s)) /\ NonNull(s) \in RefTypes
        BY <1>3, <2>1, <2>2, <4>1, NotNullTyped, RefIsRef
      <4> QED
        BY <3>1, <4>2 DEF diffRefType
    <3>2. CASE ~(s.nullable /\ t.nullable)
      BY <1>3, <2>1, <3>2 DEF diffRefType
    <3> QED
      BY <3>1, <3>2
  <2> QED
    BY <1>2, <1>7, <2>3, KeepShaped DEF RefTypes
<1> QED
  BY <1>2, <1>6, <1>7

LEMMA CastsShaped ==
  ASSUME IInv, NEW i \in Insts, CastStep(i)
  PROVE  Shaped
<1>1. ASSUME refTest(i)
      PROVE  Shaped
  BY <1>1, FailsShaped DEF refTest
<1>2. ASSUME evalTypedSelect(i)
      PROVE  Shaped
  <2>1. PICK t \in CastTypes(i) : \E v \in Given(i, t) : Make("select", i, t, Tagged(v, t))
    BY <1>2 DEF evalTypedSelect
  <2>2. PICK v \in Given(i, t) : Make("select", i, t, Tagged(v, t))
    BY <2>1
  <2>3. t \in RefTypes /\ t \in ValueTypes /\ HeapType(heap)
    BY LocalTypes DEF IInv, RefTypes
  <2>4. Typed(heap, Tagged(v, t), i, t)
    BY <2>3, GivenTyped, RetagTyped
  <2> QED
    BY <2>2, <2>3, <2>4, MakeShaped
<1> QED
  BY <1>1, <1>2, refCastShaped, brOnCastShaped DEF CastStep

\* An any reference becomes an extern one, and wraps what it was.
LEMMA externConvertAnyShaped ==
  ASSUME IInv, NEW i \in Insts, externConvertAny(i)
  PROVE  Shaped
<1>1. PICK o \in ExternConvertAnyOperands(i) :
        LET t == Ref("extern", o.v.type.nullable) IN
        Make("extern.convert_any", i, Ref("extern", o.t.nullable),
             IF o.v.ref.kind \in {"null", "extern"} THEN Tagged(o.v, t)
             ELSE [type |-> t, num |-> 0, 
                   ref |-> [kind |-> "extern", of |-> o.v.ref.of, wrapped |-> o.v.ref.kind, tag |-> o.v.type]])
  BY DEF externConvertAny
<1> DEFINE v == o.v
           null == o.t.nullable
           any == Ref("any", TRUE)
           s == Ref("extern", null)
           t == Ref("extern", v.type.nullable)
           r == RuntimeIn(heap, v)
           j == OwnerIn(heap, i, v)
<1>2. o.t \in RefTypes /\ Typed(heap, v, i, o.t) /\ Accepts(i, o.t, i, any)
  BY OperandTyped DEF ExternConvertAnyOperands
<1>3. /\ null \in BOOLEAN /\ o.t \in ValueTypes /\ any \in ValueTypes 
      /\ any.kind = "ref" /\ any.heap = "any" /\ HeapType(heap)
  BY <1>2, RefIsRef DEF RefTypes, ValueTypes, IInv, HeapKinds, Ref
<1>4. Typed(heap, v, i, any)
  BY <1>2, <1>3, TypedAbove
<1>5. /\ SoundIn(heap, v) /\ v \in Values /\ v.type.kind = "ref" /\ v.type \in RefTypes /\ v.type.nullable \in BOOLEAN
      /\ v.ref.kind \in {"null", "func", "extern", "i31", "struct", "array"}
  BY <1>3, <1>4 DEF Typed, HasIn, SoundIn, Values, References, RefTypes, ValueTypes
<1>6. IsNull(v) => null
  BY <1>2 DEF Typed, HasIn, RefTypes
<1>7. /\ s \in RefTypes /\ s.kind = "ref" /\ s.heap = "extern" /\ s.nullable = null 
      /\ t \in RefTypes /\ t \in ValueTypes /\ t.kind = "ref" /\ t.heap = "extern"
  BY <1>3, <1>5, RefIsRef DEF Ref, HeapKinds, RefTypes
<1>8. Accepts(i, Ref("extern", FALSE), i, s)
  BY <1>7 DEF Accepts, matchesRefType, matchesHeapType, Ref
<1>9. ~IsNull(v) => Accepts(j, r, i, any)
  BY <1>3, <1>4 DEF Typed, HasIn
<1> HIDE DEF v, null, s, t, any
<1>10. CASE v.ref.kind \in {"null", "extern"}
  <2> DEFINE w == Tagged(v, t)
  <2>1. w.type = t /\ w.ref = v.ref
    BY <1>5, <1>7, TagType
  <2>2. ~IsNull(v) => RuntimeIn(heap, w) = Ref("extern", FALSE)
    BY <1>7, <1>10, <2>1 DEF RuntimeIn, IsNull
  <2>3. v.ref.wrapped # "no" => t.heap = "extern"
    BY <1>7
  <2>4. Accepts(j, Ref("extern", FALSE), i, s)
    BY <1>8, AcceptsAnywhere DEF Ref
  <2>5. Typed(heap, w, i, s)
    BY <1>3, <1>5, <1>6, <1>7, <1>10, <2>2, <2>4, TaggedTyped
  <2>6. Make("extern.convert_any", i, s, w)
    BY <1>1, <1>10 DEF v, t, s, null
  <2> HIDE DEF w
  <2> QED
    BY <1>7, <2>5, <2>6, MakeShaped
<1>11. CASE v.ref.kind \notin {"null", "extern"}
  <2> DEFINE w == [type |-> t, num |-> 0, 
                   ref |-> [kind |-> "extern", of |-> v.ref.of, wrapped |-> v.ref.kind, tag |-> v.type]]
  <2>1. /\ w.type = t /\ w.ref.kind = "extern" /\ w.ref.of = v.ref.of /\ w.ref.wrapped = v.ref.kind 
        /\ w.ref.tag = v.type
    OBVIOUS
  <2>2. 0 \in Numbers
    BY ZeroNumber
  <2>3. v.ref.of \in Nat /\ v.type \in ValueTypes /\ v.ref.kind \in {"func", "i31", "struct", "array"}
    BY <1>5, <1>11 DEF Values, References
  <2>4. w \in Values
    BY <1>7, <2>2, <2>3 DEF Values, References
  <2>5. v.type.heap # "extern"
    BY <1>5, <1>11 DEF SoundIn
  <2> HIDE DEF w
  <2>7. RefOKIn(heap, w, w.ref.wrapped)
    BY <1>5, <2>1, SMTT(60) DEF SoundIn, RefOKIn
  <2>8. SoundIn(heap, w)
    BY <1>5, <1>7, <2>1, <2>4, <2>5, <2>7 DEF SoundIn, RefOKIn
  <2>9. RuntimeIn(heap, w) = Ref("extern", FALSE) /\ OwnerIn(heap, i, w) = i
    BY <1>7, <2>1 DEF RuntimeIn, OwnerIn
  <2>10. Typed(heap, w, i, s)
    BY <1>7, <1>8, <2>1, <2>8, <2>9 DEF Typed, HasIn, IsNull
  <2>11. Make("extern.convert_any", i, s, w)
    BY <1>1, <1>11 DEF v, t, s, null, w
  <2> QED
    BY <1>7, <2>10, <2>11, MakeShaped
<1> QED
  BY <1>10, <1>11

\* And back: what an extern reference wraps, or one of the host.
LEMMA anyConvertExternShaped ==
  ASSUME IInv, NEW i \in Insts, anyConvertExtern(i)
  PROVE  Shaped
<1>1. PICK o \in AnyConvertExternOperands(i) :
        Make("any.convert_extern", i, Ref("any", o.t.nullable),
             IF o.v.ref.wrapped # "no" THEN RefValue(o.v.ref.tag, o.v.ref.wrapped, o.v.ref.of)
             ELSE Tagged(o.v, Ref("any", o.v.type.nullable)))
  BY DEF anyConvertExtern
<1> DEFINE v == o.v
           null == o.t.nullable
           extern == Ref("extern", TRUE)
           s == Ref("any", null)
           t == Ref("any", v.type.nullable)
           r == RuntimeIn(heap, v)
           j == OwnerIn(heap, i, v)
<1>2. o.t \in RefTypes /\ Typed(heap, v, i, o.t) /\ Accepts(i, o.t, i, extern)
  BY OperandTyped DEF AnyConvertExternOperands
<1>3. /\ null \in BOOLEAN /\ o.t \in ValueTypes /\ extern \in ValueTypes 
      /\ extern.kind = "ref" /\ extern.heap = "extern" /\ HeapType(heap)
  BY <1>2, RefIsRef DEF RefTypes, ValueTypes, IInv, HeapKinds, Ref
<1>4. Typed(heap, v, i, extern)
  BY <1>2, <1>3, TypedAbove
<1>5. /\ SoundIn(heap, v) /\ v \in Values /\ v.type.kind = "ref" /\ v.type \in RefTypes /\ v.type.nullable \in BOOLEAN
      /\ v.ref.kind \in {"null", "func", "extern", "i31", "struct", "array"}
      /\ v.ref.wrapped \in {"no", "i31", "struct", "array", "func"}
  BY <1>3, <1>4 DEF Typed, HasIn, SoundIn, Values, References, RefTypes, ValueTypes
<1>6. IsNull(v) => null
  BY <1>2 DEF Typed, HasIn, RefTypes
<1>7. /\ s \in RefTypes /\ s.kind = "ref" /\ s.heap = "any" /\ s.nullable = null 
      /\ t \in RefTypes /\ t \in ValueTypes /\ t.kind = "ref" /\ t.heap = "any"
  BY <1>3, <1>5, RefIsRef DEF Ref, HeapKinds, RefTypes
<1>8. ~IsNull(v) => Accepts(j, r, i, extern)
  BY <1>3, <1>4 DEF Typed, HasIn
<1> HIDE DEF v, null, s, t, extern
<1>9. CASE v.ref.wrapped = "no"
  <2> DEFINE w == Tagged(v, t)
  <2>1. w.type = t /\ w.ref = v.ref
    BY <1>5, <1>7, TagType
  <2>2. ~IsNull(v) => v.ref.kind = "extern"
    <3>1. ASSUME ~IsNull(v), v.ref.kind # "extern"
          PROVE  FALSE
      <4>1. Accepts(j, r, i, extern) /\ r.kind = "ref" /\ (r.heap = "index" \/ r.heap = "i31")
        BY <1>3, <1>5, <1>8, <3>1, RuntimeKinds DEF IsNull
      <4> QED
        BY <1>3, <4>1 DEF Accepts, matchesRefType, matchesHeapType
    <3> QED
      BY <3>1
  <2>3. ~IsNull(v) => RuntimeIn(heap, w) = Ref("any", FALSE)
    BY <1>7, <2>1, <2>2 DEF RuntimeIn
  <2>4. Accepts(j, Ref("any", FALSE), i, s)
    BY <1>7 DEF Accepts, matchesRefType, matchesHeapType, Ref
  <2>5. Typed(heap, w, i, s)
    BY <1>3, <1>5, <1>6, <1>7, <1>9, <2>3, <2>4, TaggedTyped
  <2>6. Make("any.convert_extern", i, s, w)
    BY <1>1, <1>9 DEF v, t, s, null
  <2> HIDE DEF w
  <2> QED
    BY <1>7, <2>5, <2>6, MakeShaped
<1>10. CASE v.ref.wrapped # "no"
  <2> DEFINE w == RefValue(v.ref.tag, v.ref.wrapped, v.ref.of)
  <2>1. w.type = v.ref.tag /\ w.ref.kind = v.ref.wrapped /\ w.ref.of = v.ref.of /\ w.ref.wrapped = "no"
    BY DEF RefValue
  <2>2. 0 \in Numbers /\ I32 \in ValueTypes
    BY ZeroNumber
  <2>3. v.ref.of \in Nat /\ v.ref.wrapped \in {"i31", "struct", "array", "func"}
    BY <1>5, <1>10 DEF Values, References
  <2>4. /\ v.ref.tag \in RefTypes /\ v.ref.tag.heap # "extern" /\ v.ref.tag \in ValueTypes /\ v.ref.tag.kind = "ref"
        /\ RefOKIn(heap, v, v.ref.wrapped)
    BY <1>5, <1>10 DEF SoundIn, RefTypes
  <2>5. w \in Values
    BY <2>2, <2>3, <2>4 DEF RefValue, Values, References
  <2> HIDE DEF w
  <2>6. SoundIn(heap, w)
    BY <2>1, <2>4, <2>5 DEF SoundIn, RefOKIn
  <2> DEFINE rw == RuntimeIn(heap, w)
             jw == OwnerIn(heap, i, w)
  <2>7. /\ rw.kind = "ref" /\ ~rw.nullable /\ w.ref.kind \in {"i31", "struct", "array", "func"}
        /\ w.ref.kind = "i31" => rw.heap = "i31"
        /\ w.ref.kind \in {"struct", "array", "func"} => 
             rw.heap = "index" /\ (typeIndexHasKind(jw, rw.index, "func") => w.ref.kind = "func")
    <3>1. HeapType(heap) /\ w.ref.kind # "null"
      BY <1>3, <2>1, <2>3
    <3> QED
      BY <2>1, <2>3, <2>6, <3>1, RuntimeKinds
  <2> HIDE DEF rw, jw
  <2>14. rw.heap \in {"i31", "index"}
    BY <2>7
  <2>8. Accepts(jw, rw, i, s)
    BY <1>7, <2>7, <2>14 DEF Accepts, matchesRefType, matchesHeapType
  <2>9. Typed(heap, w, i, s)
    BY <1>7, <2>1, <2>3, <2>4, <2>6, <2>8 DEF Typed, HasIn, IsNull, rw, jw
  <2>10. Make("any.convert_extern", i, s, w)
    BY <1>1, <1>10 DEF v, s, null, w
  <2> QED
    BY <1>7, <2>9, <2>10, MakeShaped
<1> QED
  BY <1>9, <1>10

LEMMA PassShaped ==
  ASSUME IInv, NEW i \in Insts, NEW j \in Insts, Pass(i, j)
  PROVE  Shaped
<1>1. PICK o \in Operands(i), r \in Locals(j) :
        Accepts(i, o.t, j, Reg[j][r]) /\ regs' = [regs EXCEPT ![j][r] = o.v] /\ UNCHANGED heap
  BY DEF Pass
<1>2. o.t \in RefTypes /\ Typed(heap, o.v, i, o.t) /\ Reg[j][r] \in RefTypes /\ HeapType(heap)
  BY OperandTyped, LocalTypes DEF IInv
<1>3. Typed(heap, o.v, j, Reg[j][r])
  BY <1>1, <1>2, TypedAbove DEF RefTypes
<1>4. Typed(heap', o.v, j, Reg[j][r])
  BY <1>1, <1>3
<1> QED
  BY <1>1, <1>4 DEF Shaped, Sets

-----------------------------------------------------------------------------
(* The theorems *)

LEMMA InstructionShaped ==
  ASSUME IInv, NEW i \in Insts,
         \/ StructStep(i) \/ ArrayStep(i) \/ DataStep(i) \/ ElemStep(i) \/ MakeStep(i) \/ CastStep(i) \/ ConversionStep(i)
  PROVE  Shaped
<1>1. CASE StructStep(i)
  BY <1>1, newStructShaped, newDefaultStructShaped, structGetShaped, structSetShaped DEF StructStep
<1>2. CASE ArrayStep(i)
  BY <1>2, newArrayShaped, newFixedArrayShaped, newDefaultArrayShaped, arrayLenShaped, arrayGetShaped,
     arraySetShaped, arrayFillShaped, arrayCopyShaped DEF ArrayStep
<1>3. CASE DataStep(i)
  BY <1>3, newDataArrayShaped, arrayInitDataShaped, DropShaped DEF DataStep
<1>4. CASE ElemStep(i)
  BY <1>4, newElemArrayShaped, arrayInitElemShaped, DropShaped DEF ElemStep
<1>5. CASE MakeStep(i)
  BY <1>5, MakesShaped
<1>6. CASE CastStep(i)
  BY <1>6, CastsShaped
<1>7. CASE ConversionStep(i)
  BY <1>7, externConvertAnyShaped, anyConvertExternShaped DEF ConversionStep
<1> QED
  BY <1>1, <1>2, <1>3, <1>4, <1>5, <1>6, <1>7

LEMMA NextShaped ==
  ASSUME IInv, [Next]_vars
  PROVE  Shaped /\ UNCHANGED program
<1>1. CASE UNCHANGED vars
  BY <1>1 DEF vars, Shaped
<1>2. CASE Next
  <2>1. UNCHANGED program
    BY <1>2 DEF Next
  <2>2. CASE \E i \in Insts :
               \/ StructStep(i) \/ ArrayStep(i) \/ DataStep(i) \/ ElemStep(i) \/ MakeStep(i) \/ CastStep(i)
               \/ ConversionStep(i)
    <3>1. PICK i \in Insts :
                 \/ StructStep(i) \/ ArrayStep(i) \/ DataStep(i) \/ ElemStep(i) \/ MakeStep(i) \/ CastStep(i)
                 \/ ConversionStep(i)
      BY <2>2
    <3> QED
      BY <2>1, <3>1, InstructionShaped
  <2>3. CASE \E i, j \in Insts : Pass(i, j)
    <3>1. PICK i \in Insts, j \in Insts : Pass(i, j)
      BY <2>3
    <3> QED
      BY <2>1, <3>1, PassShaped
  <2> QED
    BY <1>2, <2>1, <2>2, <2>3 DEF Next
<1> QED
  BY <1>1, <1>2

LEMMA InitInv ==
  ASSUME Init
  PROVE  IInv
<1>1. program \in Programs /\ heap = <<>> /\ regs = [i \in Insts |-> [r \in Locals(i) |-> zeroValue(Reg[i][r])]]
  BY DEF Init
<1>2. HeapType(heap) /\ DOMAIN heap = {}
  BY <1>1 DEF HeapType
<1>3. DOMAIN regs = Insts /\ \A i \in Insts : DOMAIN regs[i] = Locals(i)
  BY <1>1
<1>4. ASSUME NEW i \in Insts, NEW r \in Locals(i)
      PROVE  Typed(heap, regs[i][r], i, Reg[i][r])
  <2>1. regs[i][r] = zeroValue(Reg[i][r])
    BY <1>1
  <2> QED
    BY <1>1, <2>1, LocalTypes, NullTyped
<1> QED
  BY <1>1, <1>2, <1>3, <1>4 DEF IInv

\* The inductive invariant holds: registers and fields are typed, and what their
\* references lead to exists.
THEOREM Invariance == Spec => []IInv
<1>1. Init => IInv
  BY InitInv
<1>2. IInv /\ [Next]_vars => IInv'
  BY NextShaped, ShapedKeeps
<1> QED
  BY <1>1, <1>2, PTL DEF Spec

LEMMA TypedHas ==
  ASSUME NEW v, NEW i, NEW t, Typed(heap, v, i, t)
  PROVE  ValueOK(v) /\ Has(v, i, t)
<1>1. SoundIn(heap, v) /\ HasIn(heap, v, i, t)
  BY DEF Typed
<1>2. v \in Values
  BY <1>1, SMTT(60) DEF SoundIn
<1>3. ValueOK(v)
  BY <1>1, <1>2 DEF SoundIn, ValueOK, RefOK, RefOKIn, Object, Values, References
<1>4. RuntimeType(v) = RuntimeIn(heap, v) /\ Owner(i, v) = OwnerIn(heap, i, v)
  BY DEF RuntimeType, RuntimeIn, Owner, OwnerIn, Object
<1> QED
  BY <1>1, <1>3, <1>4 DEF Has, HasIn

LEMMA InvTyped ==
  ASSUME IInv
  PROVE  HeapTyped
<1>1. ASSUME NEW i \in Insts, NEW r \in Locals(i)
      PROVE  ValueOK(regs[i][r]) /\ Has(regs[i][r], i, Reg[i][r])
  BY TypedHas DEF IInv
<1>2. ASSUME NEW o \in DOMAIN heap, NEW n \in DOMAIN heap[o].cells
      PROVE  FieldHolds(heap[o].inst, FieldOf(Types[heap[o].inst][heap[o].type], n), heap[o].cells[n])
  <2>1. FitsIn(heap, heap[o].inst, FieldOf(Types[heap[o].inst][heap[o].type], n), heap[o].cells[n])
    BY DEF IInv, CellsFit
  <2> QED
    BY <2>1, TypedHas DEF FitsIn, FieldHolds
<1> QED
  BY <1>1, <1>2 DEF HeapTyped

\* Type soundness of the heap, for every number of modules, types, locals, functions and
\* segments, whatever instructions have run: a register and a field hold values of their
\* declared types (validate.go:2047, execute.go:2242).
THEOREM HeapSound == Spec => []HeapTyped
BY Invariance, InvTyped, PTL

LEMMA ShapedKeepsFields ==
  ASSUME IInv, Shaped, NEW o \in DOMAIN heap
  PROVE  /\ heap'[o].inst = heap[o].inst /\ heap'[o].type = heap[o].type
         /\ DOMAIN heap'[o].cells = DOMAIN heap[o].cells
         /\ \A n \in DOMAIN heap[o].cells :
              FieldOf(Types[heap[o].inst][heap[o].type], n).mutable \/ heap'[o].cells[n] = heap[o].cells[n]
<1> DEFINE Obj == [inst : Insts, type : Nat, cells : Seq(Values)]
<1>1. heap \in Seq(Obj)
  BY DEF IInv, HeapType
<1>2. heap[o] \in Obj
  <2> HIDE DEF Obj
  <2> QED
    BY <1>1, SeqElement
<1>3. CASE UNCHANGED heap
  BY <1>3
<1>4. CASE \E i \in Insts : \E k, cells : Adds(i, k, cells)
  <2>1w. PICK i \in Insts : \E k, cells : Adds(i, k, cells)
    BY <1>4
  <2>1. PICK k, cells : Adds(i, k, cells)
    BY <2>1w
  <2> DEFINE new == [inst |-> i, type |-> k, cells |-> cells]
  <2>2. heap' = Append(heap, new)
    BY <2>1 DEF Adds
  <2> HIDE DEF new, Obj
  <2>3. heap'[o] = heap[o]
    BY <1>1, <2>2
  <2> QED
    BY <2>3
<1>5. CASE \E p, cells : Rewritten(p, cells)
  <2>1. PICK p, cells : Rewritten(p, cells)
    BY <1>5
  <2>2. CASE p = o
    <3>1. heap'[o] = [heap[o] EXCEPT !.cells = cells]
      BY <1>1, <2>1, <2>2 DEF Rewritten
    <3>2. heap'[o].inst = heap[o].inst /\ heap'[o].type = heap[o].type /\ heap'[o].cells = cells
      BY <1>2, <3>1
    <3> QED
      BY <2>1, <2>2, <3>2 DEF Rewritten
  <2>3. CASE p # o
    <3>1. heap'[o] = heap[o]
      BY <1>1, <2>1, <2>3 DEF Rewritten
    <3> QED
      BY <3>1
  <2> QED
    BY <2>2, <2>3
<1> QED
  BY <1>3, <1>4, <1>5 DEF Shaped, Made

\* Objects keep their type and length, and immutable fields their value, whatever module
\* and supertype they are written through (validate.go:293).
THEOREM ImmutableFieldsKept == Spec => ImmutableKept
<1> DEFINE Kept ==
      \A o \in DOMAIN heap : 
        /\ heap'[o].inst = heap[o].inst /\ heap'[o].type = heap[o].type
        /\ DOMAIN heap'[o].cells = DOMAIN heap[o].cells
        /\ \A n \in DOMAIN heap[o].cells :
             FieldOf(Types[heap[o].inst][heap[o].type], n).mutable \/ heap'[o].cells[n] = heap[o].cells[n]
<1>1. IInv /\ [Next]_vars => [Kept]_vars
  <2> SUFFICES ASSUME IInv, [Next]_vars PROVE Kept
    OBVIOUS
  <2>1. Shaped
    BY NextShaped
  <2> QED
    BY <2>1, ShapedKeepsFields
<1> HIDE DEF Kept
<1>2. Spec => [][Kept]_vars
  BY <1>1, Invariance, PTL DEF Spec
<1> QED
  BY <1>2 DEF ImmutableKept, Kept

-----------------------------------------------------------------------------
(* Outcomes *)

\* An outcome that TypesNeverMismatch and AccessExact allow.
Right(op, out, must) ==
  /\ \/ out \in {"ok", "no", "trap"}
     \/ out = "width" /\ op = "array.new_data"
     \/ out = "tag" /\ op \in {"struct.set", "array.new", "array.set", "array.fill"}
  /\ op \notin {"cast", "cast of function", "cast elsewhere"} /\ out \in {"ok", "trap"} => (out = "trap" <=> must)

LEMMA RightOutcome ==
  ASSUME NEW op, NEW out, NEW must \in BOOLEAN, Outcome(op, out, must), Right(op, out, must)
  PROVE  TypesNeverMismatch' /\ AccessExact'
<1>1. CASE out = "ok" /\ ~must
  <2>1. last' = Fine
    BY <1>1 DEF Outcome
  <2>2. last'.op = "any" /\ last'.out = "ok" /\ last'.must = FALSE
    BY <2>1 DEF Fine
  <2> QED
    BY <2>2 DEF TypesNeverMismatch, AccessExact
<1>2. CASE ~(out = "ok" /\ ~must)
  <2>1. last' = [op |-> op, out |-> out, must |-> must]
    BY <1>2 DEF Outcome
  <2>2. last'.op = op /\ last'.out = out /\ last'.must = must
    BY <2>1
  <2> QED
    BY <2>2 DEF Right, TypesNeverMismatch, AccessExact
<1> QED
  BY <1>1, <1>2

LEMMA RightFails ==
  ASSUME NEW op, NEW out, NEW must \in BOOLEAN, Fails(op, out, must), Right(op, out, must)
  PROVE  TypesNeverMismatch' /\ AccessExact'
BY RightOutcome DEF Fails

LEMMA RightOk ==
  ASSUME NEW op, Outcome(op, "ok", FALSE)
  PROVE  TypesNeverMismatch' /\ AccessExact'
BY RightOutcome DEF Right

LEMMA RightTag ==
  ASSUME NEW op \in {"struct.set", "array.new", "array.set", "array.fill"}, Fails(op, "tag", FALSE)
  PROVE  TypesNeverMismatch' /\ AccessExact'
BY RightFails DEF Right

LEMMA RightRefuses ==
  ASSUME IInv, NEW i \in Insts, NEW k \in Structs(i) \cup Arrays(i), NEW v \in Given(i, RefTypeIndexed(k, TRUE)),
         NEW op, op \notin {"cast", "cast of function", "cast elsewhere"}, Refuses(op, i, v, k)
  PROVE  TypesNeverMismatch' /\ AccessExact'
<1>1. popObject(i, v, k) = "trap" /\ IsNull(v)
  BY GivenObject DEF Refuses
<1>2. Fails(op, "trap", TRUE)
  BY <1>1 DEF Refuses, IsNull
<1> QED
  BY <1>2, RightFails DEF Right

LEMMA RightAllocate ==
  ASSUME NEW op, op \notin {"cast", "cast of function", "cast elsewhere"}, NEW i, NEW k, NEW cells, NEW must, must = FALSE,
         Allocate(op, i, k, cells, must)
  PROVE  TypesNeverMismatch' /\ AccessExact'
BY RightOutcome DEF Allocate, Right

LEMMA RightOverwrite ==
  ASSUME NEW op, op \notin {"cast", "cast of function", "cast elsewhere"}, NEW v, NEW start, NEW length, NEW values, NEW must, must = FALSE,
         Overwrite(op, v, start, length, values, must)
  PROVE  TypesNeverMismatch' /\ AccessExact'
BY RightOutcome DEF Overwrite, Right

LEMMA RightMake ==
  ASSUME NEW op, op \notin {"cast", "cast of function", "cast elsewhere"}, NEW i, NEW t, NEW v, Make(op, i, t, v)
  PROVE  TypesNeverMismatch' /\ AccessExact'
BY RightOutcome DEF Make, Right

LEMMA StructRight ==
  ASSUME IInv, NEW i \in Insts, StructStep(i)
  PROVE  TypesNeverMismatch' /\ AccessExact'
<1>1. CASE newStruct(i)
  BY <1>1, RightAllocate DEF newStruct
<1>2. CASE newDefaultStruct(i)
  BY <1>2, RightAllocate DEF newDefaultStruct
<1>3. CASE structGet(i)
  <2>1. PICK k \in Structs(i) : \E v \in Given(i, RefTypeIndexed(k, TRUE)) :
          Refuses("struct.get", i, v, k) \/ Outcome("struct.get", "ok", FALSE)
    BY <1>3 DEF structGet, StructGetOperands
  <2>2. PICK v \in Given(i, RefTypeIndexed(k, TRUE)) :
          Refuses("struct.get", i, v, k) \/ Outcome("struct.get", "ok", FALSE)
    BY <2>1
  <2> QED
    BY <2>2, RightRefuses, RightOk
<1>4. CASE structSet(i)
  <2>1. PICK k \in Structs(i) : \E n \in DOMAIN Types[i][k].fields : \E o \in StructSetOperands(i, k, n) :
          Fails("struct.set", "tag", FALSE) \/ Refuses("struct.set", i, o[1], k) \/ Outcome("struct.set", "ok", FALSE)
    BY <1>4 DEF structSet
  <2>2. PICK n \in DOMAIN Types[i][k].fields : \E o \in StructSetOperands(i, k, n) :
          Fails("struct.set", "tag", FALSE) \/ Refuses("struct.set", i, o[1], k) \/ Outcome("struct.set", "ok", FALSE)
    BY <2>1
  <2>4. PICK o \in StructSetOperands(i, k, n) :
          Fails("struct.set", "tag", FALSE) \/ Refuses("struct.set", i, o[1], k) \/ Outcome("struct.set", "ok", FALSE)
    BY <2>2
  <2>3. o[1] \in Given(i, RefTypeIndexed(k, TRUE))
    BY DEF StructSetOperands
  <2>5. CASE Refuses("struct.set", i, o[1], k)
    <3>1. PICK v \in Given(i, RefTypeIndexed(k, TRUE)) : Refuses("struct.set", i, v, k)
      BY <2>3, <2>5
    <3> QED
      BY <3>1, RightRefuses
  <2> QED
    BY <2>4, <2>5, RightTag, RightOk
<1> QED
  BY <1>1, <1>2, <1>3, <1>4 DEF StructStep

\* Whether a range fits, in one sum.
LEMMA RangeFits ==
  ASSUME NEW len \in Nat, NEW start \in Nat, NEW length \in Nat
  PROVE  /\ arrayRange(len, start, length) <=> ~(start + length > len)
         /\ arrayRange(len, start, length) <=> start <= len /\ length <= len - start
BY DEF arrayRange

LEMMA CellsNumber ==
  ASSUME IInv, NEW i \in Insts, NEW k \in Arrays(i), NEW v \in Given(i, RefTypeIndexed(k, TRUE)), popObject(i, v, k) = "ok"
  PROVE  Len(Cells(v)) \in Nat
<1>1. k \in Structs(i) \cup Arrays(i) /\ SoundIn(heap, v)
  BY GivenObject
<1>2. Object(v) \in [inst : Insts, type : Nat, cells : Seq(Values)]
  BY <1>1, ObjectAt
<1> QED
  BY <1>2 DEF Cells

LEMMA DataRight ==
  ASSUME NEW i \in Insts, NEW f \in FieldTypes, NEW d \in DOMAIN Data[i], NEW offset \in Nat, NEW length \in Nat
  PROVE  /\ DataOutcome(i, f, d, offset, length) \in {"ok", "trap", "width"}
         /\ DataMustTrap(i, f, d, offset, length) \in BOOLEAN
         /\ DataOutcome(i, f, d, offset, length) = "ok" => ~DataMustTrap(i, f, d, offset, length)
         /\ DataOutcome(i, f, d, offset, length) = "trap" => DataMustTrap(i, f, d, offset, length)
         /\ HasByteWidth(f) => DataOutcome(i, f, d, offset, length) # "width"
<1> DEFINE w == fieldByteWidth(f)
<1>1. CASE dataDropped[i][d]
  BY <1>1 DEF DataOutcome, DataMustTrap
<1>2. CASE ~dataDropped[i][d] /\ ~HasByteWidth(f)
  BY <1>2 DEF DataOutcome, DataMustTrap
<1>3. CASE ~dataDropped[i][d] /\ HasByteWidth(f)
  <2>1. w \in Nat
    <3>1. f.packed \in {"none", "i8", "i16"} /\ f.type.kind \in NumKinds \cup {"ref"}
      BY DEF FieldTypes, ValueTypes, Num
    <3>2. CASE f.packed # "none"
      BY <3>1, <3>2 DEF fieldByteWidth
    <3>3. CASE f.packed = "none"
      BY <1>3, <3>1, <3>3 DEF HasByteWidth, fieldByteWidth, Width, NumKinds
    <3> QED
      BY <3>2, <3>3
  <2>2. Len(Data[i][d]) \in Nat
    <3>1. Data[i] \in Seq(Seq(Byte))
      BY SegmentsAssumption
    <3>2. Data[i][d] \in Seq(Byte)
      BY <3>1, SeqElement
    <3> QED
      BY <3>2
  <2> DEFINE bytes == length * w
             len == Len(Data[i][d])
  <2>3. bytes \in Nat
    BY <2>1
  <2>4. /\ DataOutcome(i, f, d, offset, length) = IF offset <= len /\ bytes <= len - offset THEN "ok" ELSE "trap"
        /\ DataMustTrap(i, f, d, offset, length) <=> offset + bytes > len
        /\ DataMustTrap(i, f, d, offset, length) \in BOOLEAN
    BY <1>3 DEF DataOutcome, DataMustTrap
  <2> HIDE DEF bytes, len
  <2>5. len \in Nat
    BY <2>2 DEF len
  <2>6. (offset <= len /\ bytes <= len - offset) <=> ~(offset + bytes > len)
    BY <2>3, <2>5
  <2> QED
    BY <1>3, <2>4, <2>6
<1> QED
  BY <1>1, <1>2, <1>3

LEMMA ElemRight ==
  ASSUME NEW i \in Insts, NEW d \in DOMAIN Elems[i], NEW offset \in Nat, NEW length \in Nat
  PROVE  /\ ElemOutcome(i, d, offset, length) \in {"ok", "trap"}
         /\ ElemMustTrap(i, d, offset, length) \in BOOLEAN
         /\ ElemOutcome(i, d, offset, length) = "trap" <=> ElemMustTrap(i, d, offset, length)
<1>1. CASE elemDropped[i][d]
  BY <1>1 DEF ElemOutcome, ElemMustTrap
<1>2. CASE ~elemDropped[i][d]
  <2>1. Len(Elems[i][d].values) \in Nat
    BY ElemsType
  <2>2. arrayRange(Len(Elems[i][d].values), offset, length) <=> ~(offset + length > Len(Elems[i][d].values))
    BY <2>1, RangeFits
  <2> QED
    BY <1>2, <2>2 DEF ElemOutcome, ElemMustTrap
<1> QED
  BY <1>1, <1>2

\* The kind of a reference that is given where i31, or an array, is wanted.
LEMMA GivenKind ==
  ASSUME IInv, NEW i \in Insts, NEW t \in ValueTypes, t.kind = "ref", t.heap \in {"i31", "array"},
         NEW v \in Given(i, t), ~IsNull(v)
  PROVE  v.ref.kind = t.heap
<1> DEFINE r == RuntimeIn(heap, v)
           j == OwnerIn(heap, i, v)
<1>1. SoundIn(heap, v) /\ Accepts(j, r, i, t) /\ v.ref.kind # "null" /\ HeapType(heap)
  BY GivenTyped DEF Typed, HasIn, IsNull, IInv
<1>2. v.ref.kind \in {"func", "extern", "i31", "struct", "array"}
  BY <1>1 DEF SoundIn, Values, References
<1>3. /\ r.kind = "ref"
      /\ v.ref.kind = "i31" => r.heap = "i31"
      /\ v.ref.kind = "extern" => r.heap \in {"extern", "any"}
      /\ v.ref.kind \in {"struct", "array", "func"} => 
           /\ r.heap = "index" /\ typeIndexHasKind(j, r.index, v.ref.kind)
           /\ \A kind : typeIndexHasKind(j, r.index, kind) => kind = v.ref.kind
  BY <1>1, <1>2, RuntimeKinds
<1> HIDE DEF r, j
<1> QED
  BY <1>1, <1>2, <1>3 DEF Accepts, matchesRefType, matchesHeapType

\* What a range instruction does: fits, whether its ranges fit, and fails, whether they should not.
RangeStep(op, v, start, length, values, fits, fails) ==
  \/ ~fits /\ Fails(op, "trap", fails)
  \/ fits /\ Overwrite(op, v, start, length, values, fails)

LEMMA RightRange ==
  ASSUME NEW op, op \notin {"cast", "cast of function", "cast elsewhere"}, NEW v, NEW start, NEW length, NEW values,
         NEW fits \in BOOLEAN, NEW fails \in BOOLEAN, fits <=> ~fails, RangeStep(op, v, start, length, values, fits, fails)
  PROVE  TypesNeverMismatch' /\ AccessExact'
<1>1. CASE fails
  BY <1>1, RightFails DEF Right, RangeStep
<1>2. CASE ~fails
  <2>1. fails = FALSE
    BY <1>2
  <2> QED
    BY <2>1, RightOverwrite DEF RangeStep
<1> QED
  BY <1>1, <1>2

LEMMA ArrayRight ==
  ASSUME IInv, NEW i \in Insts, ArrayStep(i)
  PROVE  TypesNeverMismatch' /\ AccessExact'
<1>1. CASE newArray(i)
  <2>1. PICK k \in Arrays(i), length \in Lengths : \E value \in ArrayNewOperands(i, k) :
          \/ Fails("array.new", "tag", FALSE)
          \/ Allocate("array.new", i, k, [n \in 1 .. length |-> normalizeFieldValue(Elem(i, k), value)], FALSE)
    BY <1>1 DEF newArray
  <2> QED
    BY <2>1, RightTag, RightAllocate
<1>2. CASE newFixedArray(i)
  BY <1>2, RightAllocate DEF newFixedArray
<1>3. CASE newDefaultArray(i)
  BY <1>3, RightAllocate DEF newDefaultArray
<1>4. CASE arrayLen(i)
  <2> DEFINE t == Ref("array", TRUE)
  <2>1. t \in RefTypes /\ t \in ValueTypes /\ t.kind = "ref" /\ t.heap = "array"
    BY RefIsRef DEF RefTypes, Ref, HeapKinds
  <2> HIDE DEF t
  <2>2. PICK v \in Given(i, t) :
          \/ IsNull(v) /\ Fails("array.len", "trap", TRUE)
          \/ ~IsNull(v) /\ Fails("array.len", IF v.ref.kind = "array" THEN "ok" ELSE "fault", FALSE)
    BY <1>4 DEF arrayLen, t
  <2>3. ~IsNull(v) => v.ref.kind = "array"
    BY <2>1, GivenKind
  <2>4. Fails("array.len", "trap", TRUE) \/ Fails("array.len", "ok", FALSE)
    BY <2>2, <2>3
  <2> QED
    BY <2>4, RightFails DEF Right
<1>5. CASE arrayGet(i)
  <2>1. PICK k \in Arrays(i) : \E v \in Given(i, RefTypeIndexed(k, TRUE)) :
          Refuses("array.get", i, v, k) \/ Fails("array.get", "trap", TRUE) \/ Outcome("array.get", "ok", FALSE)
    BY <1>5 DEF arrayGet, ArrayGetOperands
  <2>2. PICK v \in Given(i, RefTypeIndexed(k, TRUE)) :
          Refuses("array.get", i, v, k) \/ Fails("array.get", "trap", TRUE) \/ Outcome("array.get", "ok", FALSE)
    BY <2>1
  <2>3. CASE Refuses("array.get", i, v, k)
    BY <2>3, RightRefuses
  <2> QED
    BY <2>2, <2>3, RightOk, RightFails DEF Right
<1>6. CASE arraySet(i)
  <2>1. PICK k \in Arrays(i), index \in Words : \E o \in ArraySetOperands(i, k) :
          \/ Fails("array.set", "tag", FALSE) \/ Refuses("array.set", i, o[1], k) \/ Fails("array.set", "trap", TRUE)
          \/ Overwrite("array.set", o[1], index, 1, <<normalizeFieldValue(Elem(i, k), o[2])>>, FALSE)
    BY <1>6 DEF arraySet
  <2>2. PICK o \in ArraySetOperands(i, k) :
          \/ Fails("array.set", "tag", FALSE) \/ Refuses("array.set", i, o[1], k) \/ Fails("array.set", "trap", TRUE)
          \/ Overwrite("array.set", o[1], index, 1, <<normalizeFieldValue(Elem(i, k), o[2])>>, FALSE)
    BY <2>1
  <2>3. CASE Refuses("array.set", i, o[1], k)
    <3>1. PICK v \in Given(i, RefTypeIndexed(k, TRUE)) : Refuses("array.set", i, v, k)
      BY <2>3 DEF ArraySetOperands
    <3> QED
      BY <3>1, RightRefuses
  <2>4. CASE Fails("array.set", "trap", TRUE)
    BY <2>4, RightFails DEF Right
  <2> QED
    BY <2>2, <2>3, <2>4, RightTag, RightOverwrite
<1>7. CASE arrayFill(i)
  <2>1. PICK k \in Arrays(i), start \in Words, length \in Words : \E o \in ArrayFillOperands(i, k) : \E values :
          \/ Fails("array.fill", "tag", FALSE) \/ Refuses("array.fill", i, o[1], k)
          \/ /\ popObject(i, o[1], k) = "ok"
             /\ RangeStep("array.fill", o[1], start, length, values,
                          arrayRange(Len(Cells(o[1])), start, length), start + length > Len(Cells(o[1])))
    BY <1>7, ZenonT(60) DEF arrayFill, RangeStep
  <2>2w. PICK o \in ArrayFillOperands(i, k) : \E values :
          \/ Fails("array.fill", "tag", FALSE) \/ Refuses("array.fill", i, o[1], k)
          \/ /\ popObject(i, o[1], k) = "ok"
             /\ RangeStep("array.fill", o[1], start, length, values,
                          arrayRange(Len(Cells(o[1])), start, length), start + length > Len(Cells(o[1])))
    BY <2>1
  <2>2. PICK values :
          \/ Fails("array.fill", "tag", FALSE) \/ Refuses("array.fill", i, o[1], k)
          \/ /\ popObject(i, o[1], k) = "ok"
             /\ RangeStep("array.fill", o[1], start, length, values,
                          arrayRange(Len(Cells(o[1])), start, length), start + length > Len(Cells(o[1])))
    BY <2>2w
  <2> DEFINE v == o[1]
  <2>3. v \in Given(i, RefTypeIndexed(k, TRUE))
    BY DEF ArrayFillOperands
  <2> HIDE DEF v
  <2>4. CASE Refuses("array.fill", i, v, k)
    BY <2>3, <2>4, RightRefuses
  <2>5. CASE /\ popObject(i, v, k) = "ok"
             /\ RangeStep("array.fill", v, start, length, values,
                          arrayRange(Len(Cells(v)), start, length), start + length > Len(Cells(v)))
    <3> DEFINE fits == arrayRange(Len(Cells(v)), start, length)
               fails == start + length > Len(Cells(v))
    <3>1. start \in Nat /\ length \in Nat /\ Len(Cells(v)) \in Nat
      BY <2>3, <2>5, CellsNumber, Bounded
    <3>2. fits \in BOOLEAN /\ fails \in BOOLEAN /\ (fits <=> ~fails)
      BY <3>1, RangeFits DEF arrayRange
    <3>3. RangeStep("array.fill", v, start, length, values, fits, fails)
      BY <2>5
    <3> HIDE DEF fits, fails
    <3> QED
      BY <3>2, <3>3, RightRange
  <2> QED
    BY <2>2, <2>4, <2>5, RightTag DEF v
<1>8. CASE arrayCopy(i)
  <2>1. PICK k \in Arrays(i), l \in Arrays(i), start \in Words, from \in Words, length \in Words :
          \E o \in ArrayCopyOperands(i, k, l) : \E values :
            \/ Refuses("array.copy", i, o[2], l) \/ Refuses("array.copy", i, o[1], k)
            \/ /\ popObject(i, o[2], l) = "ok" /\ popObject(i, o[1], k) = "ok"
               /\ RangeStep("array.copy", o[1], start, length, values,
                    arrayRange(Len(Cells(o[1])), start, length) /\ arrayRange(Len(Cells(o[2])), from, length),
                    start + length > Len(Cells(o[1])) \/ from + length > Len(Cells(o[2])))
    BY <1>8 DEF arrayCopy, RangeStep
  <2>2w. PICK o \in ArrayCopyOperands(i, k, l) : \E values :
            \/ Refuses("array.copy", i, o[2], l) \/ Refuses("array.copy", i, o[1], k)
            \/ /\ popObject(i, o[2], l) = "ok" /\ popObject(i, o[1], k) = "ok"
               /\ RangeStep("array.copy", o[1], start, length, values,
                    arrayRange(Len(Cells(o[1])), start, length) /\ arrayRange(Len(Cells(o[2])), from, length),
                    start + length > Len(Cells(o[1])) \/ from + length > Len(Cells(o[2])))
    BY <2>1
  <2>2. PICK values :
            \/ Refuses("array.copy", i, o[2], l) \/ Refuses("array.copy", i, o[1], k)
            \/ /\ popObject(i, o[2], l) = "ok" /\ popObject(i, o[1], k) = "ok"
               /\ RangeStep("array.copy", o[1], start, length, values,
                    arrayRange(Len(Cells(o[1])), start, length) /\ arrayRange(Len(Cells(o[2])), from, length),
                    start + length > Len(Cells(o[1])) \/ from + length > Len(Cells(o[2])))
    BY <2>2w
  <2> DEFINE dst == o[1]
             src == o[2]
  <2>3. dst \in Given(i, RefTypeIndexed(k, TRUE)) /\ src \in Given(i, RefTypeIndexed(l, TRUE))
    BY DEF ArrayCopyOperands
  <2> HIDE DEF dst, src
  <2>4. CASE Refuses("array.copy", i, src, l)
    BY <2>3, <2>4, RightRefuses
  <2>5. CASE Refuses("array.copy", i, dst, k)
    BY <2>3, <2>5, RightRefuses
  <2>6. CASE /\ popObject(i, src, l) = "ok" /\ popObject(i, dst, k) = "ok"
             /\ RangeStep("array.copy", dst, start, length, values,
                  arrayRange(Len(Cells(dst)), start, length) /\ arrayRange(Len(Cells(src)), from, length),
                  start + length > Len(Cells(dst)) \/ from + length > Len(Cells(src)))
    <3> DEFINE fits == arrayRange(Len(Cells(dst)), start, length) /\ arrayRange(Len(Cells(src)), from, length)
               fails == start + length > Len(Cells(dst)) \/ from + length > Len(Cells(src))
    <3>1. start \in Nat /\ length \in Nat /\ from \in Nat /\ Len(Cells(dst)) \in Nat /\ Len(Cells(src)) \in Nat
      BY <2>3, <2>6, CellsNumber, Bounded
    <3>2. fits \in BOOLEAN /\ fails \in BOOLEAN /\ (fits <=> ~fails)
      BY <3>1, RangeFits DEF arrayRange
    <3>3. RangeStep("array.copy", dst, start, length, values, fits, fails)
      BY <2>6
    <3> HIDE DEF fits, fails
    <3> QED
      BY <3>2, <3>3, RightRange
  <2> QED
    BY <2>2, <2>4, <2>5, <2>6 DEF dst, src
<1> QED
  BY <1>1, <1>2, <1>3, <1>4, <1>5, <1>6, <1>7, <1>8 DEF ArrayStep

LEMMA DataElemRight ==
  ASSUME IInv, NEW i \in Insts, DataStep(i) \/ ElemStep(i)
  PROVE  TypesNeverMismatch' /\ AccessExact'
<1>1. CASE newDataArray(i)
  <2>1. PICK k \in Arrays(i), offset \in Words, length \in Lengths : \E d \in ArrayNewData(i, k) :
          LET out == DataOutcome(i, Elem(i, k), d, offset, length)
              must == DataMustTrap(i, Elem(i, k), d, offset, length) IN
          \/ out # "ok" /\ Fails("array.new_data", out, must)
          \/ out = "ok" /\ Allocate("array.new_data", i, k, arrayValuesFromData(i, Elem(i, k), d, offset, length), must)
    BY <1>1 DEF newDataArray
  <2>2. PICK d \in ArrayNewData(i, k) :
          LET out == DataOutcome(i, Elem(i, k), d, offset, length)
              must == DataMustTrap(i, Elem(i, k), d, offset, length) IN
          \/ out # "ok" /\ Fails("array.new_data", out, must)
          \/ out = "ok" /\ Allocate("array.new_data", i, k, arrayValuesFromData(i, Elem(i, k), d, offset, length), must)
    BY <2>1
  <2> DEFINE out == DataOutcome(i, Elem(i, k), d, offset, length)
             must == DataMustTrap(i, Elem(i, k), d, offset, length)
  <2>3. d \in DOMAIN Data[i] /\ offset \in Nat /\ length \in Nat /\ Elem(i, k) \in FieldTypes
    BY ArrayElem, Bounded DEF ArrayNewData
  <2>4. out \in {"ok", "trap", "width"} /\ must \in BOOLEAN /\ (out = "ok" => ~must) /\ (out = "trap" => must)
    BY <2>3, DataRight
  <2>5. \/ out # "ok" /\ Fails("array.new_data", out, must)
        \/ out = "ok" /\ Allocate("array.new_data", i, k, arrayValuesFromData(i, Elem(i, k), d, offset, length), must)
    BY <2>2
  <2> HIDE DEF out, must
  <2>6. CASE out # "ok" /\ Fails("array.new_data", out, must)
    BY <2>4, <2>6, RightFails DEF Right
  <2>7. CASE out = "ok" /\ Allocate("array.new_data", i, k, arrayValuesFromData(i, Elem(i, k), d, offset, length), must)
    BY <2>4, <2>7, RightAllocate
  <2> QED
    BY <2>5, <2>6, <2>7
<1>2. CASE newElemArray(i)
  <2>1. PICK k \in Arrays(i), offset \in Words, length \in Lengths : \E d \in ArrayNewElem(i, k) :
          LET out == ElemOutcome(i, d, offset, length)
              must == ElemMustTrap(i, d, offset, length) IN
          \/ out # "ok" /\ Fails("array.new_elem", out, must)
          \/ out = "ok" /\ Allocate("array.new_elem", i, k, arrayValuesFromElem(i, d, offset, length), must)
    BY <1>2 DEF newElemArray
  <2>2. PICK d \in ArrayNewElem(i, k) :
          LET out == ElemOutcome(i, d, offset, length)
              must == ElemMustTrap(i, d, offset, length) IN
          \/ out # "ok" /\ Fails("array.new_elem", out, must)
          \/ out = "ok" /\ Allocate("array.new_elem", i, k, arrayValuesFromElem(i, d, offset, length), must)
    BY <2>1
  <2> DEFINE out == ElemOutcome(i, d, offset, length)
             must == ElemMustTrap(i, d, offset, length)
  <2>3. d \in DOMAIN Elems[i] /\ offset \in Nat /\ length \in Nat
    BY Bounded DEF ArrayNewElem
  <2>4. out \in {"ok", "trap"} /\ must \in BOOLEAN /\ (out = "trap" <=> must)
    BY <2>3, ElemRight
  <2>5. \/ out # "ok" /\ Fails("array.new_elem", out, must)
        \/ out = "ok" /\ Allocate("array.new_elem", i, k, arrayValuesFromElem(i, d, offset, length), must)
    BY <2>2
  <2> HIDE DEF out, must
  <2>6. CASE out # "ok" /\ Fails("array.new_elem", out, must)
    BY <2>4, <2>6, RightFails DEF Right
  <2>7. CASE out = "ok" /\ Allocate("array.new_elem", i, k, arrayValuesFromElem(i, d, offset, length), must)
    BY <2>4, <2>7, RightAllocate
  <2> QED
    BY <2>5, <2>6, <2>7
<1>3. CASE arrayInitData(i)
  <2>1. PICK k \in Arrays(i), start \in Words, offset \in Words, length \in Words :
          \E o \in ArrayInitDataOperands(i, k) : \E values :
            \/ Refuses("array.init_data", i, o[1], k)
            \/ /\ popObject(i, o[1], k) = "ok"
               /\ RangeStep("array.init_data", o[1], start, length, values,
                    arrayRange(Len(Cells(o[1])), start, length) /\ DataOutcome(i, Elem(i, k), o[2], offset, length) = "ok",
                    start + length > Len(Cells(o[1])) \/ DataMustTrap(i, Elem(i, k), o[2], offset, length))
    BY <1>3 DEF arrayInitData, RangeStep
  <2>2w. PICK o \in ArrayInitDataOperands(i, k) : \E values :
            \/ Refuses("array.init_data", i, o[1], k)
            \/ /\ popObject(i, o[1], k) = "ok"
               /\ RangeStep("array.init_data", o[1], start, length, values,
                    arrayRange(Len(Cells(o[1])), start, length) /\ DataOutcome(i, Elem(i, k), o[2], offset, length) = "ok",
                    start + length > Len(Cells(o[1])) \/ DataMustTrap(i, Elem(i, k), o[2], offset, length))
    BY <2>1
  <2>2. PICK values :
            \/ Refuses("array.init_data", i, o[1], k)
            \/ /\ popObject(i, o[1], k) = "ok"
               /\ RangeStep("array.init_data", o[1], start, length, values,
                    arrayRange(Len(Cells(o[1])), start, length) /\ DataOutcome(i, Elem(i, k), o[2], offset, length) = "ok",
                    start + length > Len(Cells(o[1])) \/ DataMustTrap(i, Elem(i, k), o[2], offset, length))
    BY <2>2w
  <2> DEFINE v == o[1]
             d == o[2]
  <2>3. v \in Given(i, RefTypeIndexed(k, TRUE)) /\ d \in DOMAIN Data[i] /\ HasByteWidth(Elem(i, k))
    BY DEF ArrayInitDataOperands
  <2> HIDE DEF v, d
  <2>4. CASE Refuses("array.init_data", i, v, k)
    BY <2>3, <2>4, RightRefuses
  <2>5. CASE /\ popObject(i, v, k) = "ok"
             /\ RangeStep("array.init_data", v, start, length, values,
                  arrayRange(Len(Cells(v)), start, length) /\ DataOutcome(i, Elem(i, k), d, offset, length) = "ok",
                  start + length > Len(Cells(v)) \/ DataMustTrap(i, Elem(i, k), d, offset, length))
    <3> DEFINE fits == arrayRange(Len(Cells(v)), start, length) /\ DataOutcome(i, Elem(i, k), d, offset, length) = "ok"
               fails == start + length > Len(Cells(v)) \/ DataMustTrap(i, Elem(i, k), d, offset, length)
    <3>1. start \in Nat /\ length \in Nat /\ offset \in Nat /\ Len(Cells(v)) \in Nat /\ Elem(i, k) \in FieldTypes
      BY <2>3, <2>5, CellsNumber, Bounded, ArrayElem
    <3>2. fits \in BOOLEAN /\ fails \in BOOLEAN /\ (fits <=> ~fails)
      BY <2>3, <3>1, RangeFits, DataRight
    <3>3. RangeStep("array.init_data", v, start, length, values, fits, fails)
      BY <2>5
    <3> HIDE DEF fits, fails
    <3> QED
      BY <3>2, <3>3, RightRange
  <2> QED
    BY <2>2, <2>4, <2>5 DEF v, d
<1>4. CASE arrayInitElem(i)
  <2>1. PICK k \in Arrays(i), start \in Words, offset \in Words, length \in Words :
          \E o \in ArrayInitElemOperands(i, k) : \E values :
            \/ Refuses("array.init_elem", i, o[1], k)
            \/ /\ popObject(i, o[1], k) = "ok"
               /\ RangeStep("array.init_elem", o[1], start, length, values,
                    arrayRange(Len(Cells(o[1])), start, length) /\ ElemOutcome(i, o[2], offset, length) = "ok",
                    start + length > Len(Cells(o[1])) \/ ElemMustTrap(i, o[2], offset, length))
    BY <1>4 DEF arrayInitElem, RangeStep
  <2>2w. PICK o \in ArrayInitElemOperands(i, k) : \E values :
            \/ Refuses("array.init_elem", i, o[1], k)
            \/ /\ popObject(i, o[1], k) = "ok"
               /\ RangeStep("array.init_elem", o[1], start, length, values,
                    arrayRange(Len(Cells(o[1])), start, length) /\ ElemOutcome(i, o[2], offset, length) = "ok",
                    start + length > Len(Cells(o[1])) \/ ElemMustTrap(i, o[2], offset, length))
    BY <2>1
  <2>2. PICK values :
            \/ Refuses("array.init_elem", i, o[1], k)
            \/ /\ popObject(i, o[1], k) = "ok"
               /\ RangeStep("array.init_elem", o[1], start, length, values,
                    arrayRange(Len(Cells(o[1])), start, length) /\ ElemOutcome(i, o[2], offset, length) = "ok",
                    start + length > Len(Cells(o[1])) \/ ElemMustTrap(i, o[2], offset, length))
    BY <2>2w
  <2> DEFINE v == o[1]
             d == o[2]
  <2>3. v \in Given(i, RefTypeIndexed(k, TRUE)) /\ d \in DOMAIN Elems[i]
    BY DEF ArrayInitElemOperands, ArrayNewElem
  <2> HIDE DEF v, d
  <2>4. CASE Refuses("array.init_elem", i, v, k)
    BY <2>3, <2>4, RightRefuses
  <2>5. CASE /\ popObject(i, v, k) = "ok"
             /\ RangeStep("array.init_elem", v, start, length, values,
                  arrayRange(Len(Cells(v)), start, length) /\ ElemOutcome(i, d, offset, length) = "ok",
                  start + length > Len(Cells(v)) \/ ElemMustTrap(i, d, offset, length))
    <3> DEFINE fits == arrayRange(Len(Cells(v)), start, length) /\ ElemOutcome(i, d, offset, length) = "ok"
               fails == start + length > Len(Cells(v)) \/ ElemMustTrap(i, d, offset, length)
    <3>1. start \in Nat /\ length \in Nat /\ offset \in Nat /\ Len(Cells(v)) \in Nat
      BY <2>3, <2>5, CellsNumber, Bounded
    <3>2. fits \in BOOLEAN /\ fails \in BOOLEAN /\ (fits <=> ~fails)
      BY <2>3, <3>1, RangeFits, ElemRight
    <3>3. RangeStep("array.init_elem", v, start, length, values, fits, fails)
      BY <2>5
    <3> HIDE DEF fits, fails
    <3> QED
      BY <3>2, <3>3, RightRange
  <2> QED
    BY <2>2, <2>4, <2>5 DEF v, d
<1>5. CASE DropData(i) \/ DropElem(i)
  BY <1>5, RightOk DEF DropData, DropElem, Right
<1> QED
  BY <1>1, <1>2, <1>3, <1>4, <1>5 DEF DataStep, ElemStep

LEMMA RightCast ==
  ASSUME NEW i, NEW v, NEW s, NEW t, NEW out \in {"ok", "no", "trap"}, NEW must,
         Outcome(CastName(i, v, s, t), out, must)
  PROVE  TypesNeverMismatch' /\ AccessExact'
<1>1. PICK op \in {"cast", "cast of function", "cast elsewhere"} : Outcome(op, out, must)
  BY DEF CastName
<1>2. last' = Fine \/ last' = [op |-> op, out |-> out, must |-> must]
  BY <1>1 DEF Outcome
<1>3. CASE last' = Fine
  BY <1>3 DEF Fine, TypesNeverMismatch, AccessExact
<1>4. CASE last' = [op |-> op, out |-> out, must |-> must]
  <2>1. last'.op = op /\ last'.out = out
    BY <1>4
  <2> QED
    BY <2>1 DEF TypesNeverMismatch, AccessExact
<1> QED
  BY <1>2, <1>3, <1>4

LEMMA CastRight ==
  ASSUME NEW i \in Insts, CastStep(i)
  PROVE  TypesNeverMismatch' /\ AccessExact'
<1>1. CASE refTest(i)
  BY <1>1, RightCast DEF refTest, Fails
<1>2. CASE refCast(i)
  BY <1>2, RightCast DEF refCast, Fails
<1>3. CASE brOnCast(i)
  BY <1>3, RightCast DEF brOnCast
<1>4. CASE evalTypedSelect(i)
  BY <1>4, RightMake DEF evalTypedSelect
<1> QED
  BY <1>1, <1>2, <1>3, <1>4 DEF CastStep

LEMMA MakeRight ==
  ASSUME IInv, NEW i \in Insts, MakeStep(i) \/ ConversionStep(i)
  PROVE  TypesNeverMismatch' /\ AccessExact'
<1>1. CASE i31Get(i)
  <2> DEFINE t == Ref("i31", TRUE)
  <2>1. t \in RefTypes /\ t \in ValueTypes /\ t.kind = "ref" /\ t.heap = "i31"
    BY RefIsRef DEF RefTypes, Ref, HeapKinds
  <2> HIDE DEF t
  <2>2. PICK v \in Given(i, t) :
          \/ IsNull(v) /\ Fails("i31.get", "trap", TRUE)
          \/ ~IsNull(v) /\ Fails("i31.get", IF v.ref.kind = "i31" THEN "ok" ELSE "fault", FALSE)
    BY <1>1 DEF i31Get, t
  <2>3. ~IsNull(v) => v.ref.kind = "i31"
    BY <2>1, GivenKind
  <2>4. Fails("i31.get", "trap", TRUE) \/ Fails("i31.get", "ok", FALSE)
    BY <2>2, <2>3
  <2> QED
    BY <2>4, RightFails DEF Right
<1>2. CASE refNull(i)
  BY <1>2, RightMake DEF refNull
<1>3. CASE refI31(i)
  BY <1>3, RightMake DEF refI31
<1>4. CASE refFunc(i)
  BY <1>4, RightMake DEF refFunc
<1>5. CASE HostRef(i)
  BY <1>5, RightMake DEF HostRef
<1>6. CASE externConvertAny(i)
  BY <1>6, RightMake DEF externConvertAny
<1>7. CASE anyConvertExtern(i)
  BY <1>7, RightMake DEF anyConvertExtern
<1> QED
  BY <1>1, <1>2, <1>3, <1>4, <1>5, <1>6, <1>7 DEF MakeStep, ConversionStep

LEMMA NextRight ==
  ASSUME IInv, Next
  PROVE  TypesNeverMismatch' /\ AccessExact'
<1>1. CASE \E i \in Insts :
             \/ StructStep(i) \/ ArrayStep(i) \/ DataStep(i) \/ ElemStep(i) \/ MakeStep(i) \/ CastStep(i)
             \/ ConversionStep(i)
  <2>1. PICK i \in Insts :
             \/ StructStep(i) \/ ArrayStep(i) \/ DataStep(i) \/ ElemStep(i) \/ MakeStep(i) \/ CastStep(i)
             \/ ConversionStep(i)
    BY <1>1
  <2>2. CASE StructStep(i)
    BY <2>2, StructRight
  <2>3. CASE ArrayStep(i)
    BY <2>3, ArrayRight
  <2>4. CASE DataStep(i) \/ ElemStep(i)
    BY <2>4, DataElemRight
  <2>5. CASE MakeStep(i) \/ ConversionStep(i)
    BY <2>5, MakeRight
  <2>6. CASE CastStep(i)
    BY <2>6, CastRight
  <2> QED
    BY <2>1, <2>2, <2>3, <2>4, <2>5, <2>6
<1>2. CASE \E i, j \in Insts : Pass(i, j)
  <2>1. Outcome("pass", "ok", FALSE)
    BY <1>2 DEF Pass
  <2> QED
    BY <2>1, RightOk
<1> QED
  BY <1>1, <1>2 DEF Next

LEMMA OutcomesRight == Spec => [](TypesNeverMismatch /\ AccessExact)
<1> DEFINE Good == TypesNeverMismatch /\ AccessExact
<1>1. Init => Good
  BY DEF Init, Fine, TypesNeverMismatch, AccessExact
<1>2. ASSUME IInv, Good, [Next]_vars
      PROVE  Good'
  <2>1. CASE UNCHANGED vars
    BY <1>2, <2>1 DEF vars, TypesNeverMismatch, AccessExact
  <2>2. CASE Next
    BY <1>2, <2>2, NextRight
  <2> QED
    BY <1>2, <2>1, <2>2
<1> HIDE DEF Good
<1>3. Spec => []Good
  BY <1>1, <1>2, Invariance, PTL DEF Spec
<1> QED
  BY <1>3 DEF Good

\* The checks of the executor that only a missing rule of the validator could fail never do
\* (execute.go:2788): every object that an instruction gets is of a type it can use.
THEOREM ChecksNeverFail == Spec => []TypesNeverMismatch
BY OutcomesRight, PTL

\* Array instructions trap exactly when a range, in unbounded arithmetic, does not fit, the
\* reference is null or a dropped segment is read (execute.go:2837, 2876), whatever the
\* widths of words and fields and the sizes of arrays and segments.
THEOREM AccessesExact == Spec => []AccessExact
BY OutcomesRight, PTL

-----------------------------------------------------------------------------
(* Casts *)

\* Unless a function is asked for as an any reference, refMatches says what the validator would
\* say of the most special type of a value; unless that is any and extern is asked for, which no
\* cast within a hierarchy does.
LEMMA CastAgrees ==
  ASSUME HeapType(heap), NEW i \in Insts, NEW v, SoundIn(heap, v), v.type.kind = "ref", NEW t \in RefTypes,
         ~(v.ref.kind = "func" /\ t.heap = "any"),
         v.ref.kind = "extern" /\ t.heap = "extern" => v.type.heap = "extern"
  PROVE  refMatches(i, v, t) <=> Has(v, i, t)
<1> DEFINE r == RuntimeIn(heap, v)
           j == OwnerIn(heap, i, v)
<1>1. v.ref.kind \in {"null", "func", "extern", "i31", "struct", "array"} /\ t.kind = "ref"
  BY DEF SoundIn, Values, References, RefTypes
<1>2. RuntimeType(v) = r /\ Owner(i, v) = j
  BY DEF RuntimeType, RuntimeIn, Owner, OwnerIn, Object
<1>3. CASE v.ref.kind = "null"
  BY <1>1, <1>3 DEF refMatches, Has, IsNull
<1>4. CASE v.ref.kind # "null"
  <2>1. /\ r.kind = "ref" /\ ~r.nullable /\ j \in Insts
        /\ v.ref.kind = "i31" => r.heap = "i31"
        /\ v.ref.kind = "extern" => r.heap = IF v.type.heap = "extern" THEN "extern" ELSE "any"
        /\ v.ref.kind \in {"struct", "array", "func"} => 
              /\ r.heap = "index" /\ typeIndexHasKind(j, r.index, v.ref.kind)
              /\ \A kind : typeIndexHasKind(j, r.index, kind) => kind = v.ref.kind
    BY <1>1, <1>4, RuntimeKinds, RuntimeOf
  <2>2. Has(v, i, t) <=> matchesHeapType(j, r, i, t)
    BY <1>1, <1>2, <1>4, <2>1 DEF Has, IsNull, Accepts, matchesRefType
  <2>3. v.ref.kind # "extern" => v.type.heap # "extern"
    BY <1>4 DEF SoundIn
  <2>4. CASE v.ref.kind \in {"i31", "extern"}
    <3> HIDE DEF r, j
    <3> QED
      BY <1>1, <2>1, <2>2, <2>3, <2>4 DEF refMatches, refMatchesTypeIndex, IsNull, matchesHeapType
  <2>5. CASE v.ref.kind \in {"struct", "array"}
    <3>1. refMatchesTypeIndex(i, v, t.index) <=> TypeSubtype(j, r.index, i, t.index)
      <4>1. r = RefTypeIndexed(heap[v.ref.of].type, FALSE) /\ j = heap[v.ref.of].inst
        BY <2>5 DEF RuntimeIn, OwnerIn
      <4> QED
        BY <2>5, <4>1 DEF refMatchesTypeIndex, objectMatchesType, Object, RefTypeIndexed
    <3> HIDE DEF r, j
    <3> QED
      BY <1>1, <2>1, <2>2, <2>3, <2>5, <3>1 DEF refMatches, IsNull, matchesHeapType
  <2>6. CASE v.ref.kind = "func"
    <3>1. refMatchesTypeIndex(i, v, t.index) <=> typeIndexHasKind(i, t.index, "func") /\ TypeSubtype(j, r.index, i, t.index)
      <4>1. r = RefTypeIndexed(Funcs[v.ref.of].type, FALSE) /\ j = Funcs[v.ref.of].inst
        BY <2>6 DEF RuntimeIn, OwnerIn
      <4> QED
        BY <2>6, <4>1 DEF refMatchesTypeIndex, RefTypeIndexed
    <3> HIDE DEF r, j
    <3>2. TypeSubtype(j, r.index, i, t.index) => typeIndexHasKind(i, t.index, "func")
      BY <2>1, <2>6, SubtypeBelow DEF typeIndexHasKind
    <3> QED
      BY <1>1, <2>1, <2>2, <2>3, <2>6, <3>1, <3>2 DEF refMatches, IsNull, matchesHeapType
  <2> QED
    BY <1>1, <1>4, <2>4, <2>5, <2>6
<1> QED
  BY <1>3, <1>4

LEMMA ExternTagged ==
  ASSUME HeapType(heap), NEW i \in Insts, NEW s \in RefTypes, s.heap \in {"extern", "noextern"}, NEW v, Typed(heap, v, i, s),
         v.ref.kind = "extern"
  PROVE  v.type.heap = "extern"
<1> DEFINE r == RuntimeIn(heap, v)
           j == OwnerIn(heap, i, v)
<1>1. SoundIn(heap, v) /\ Accepts(j, r, i, s) /\ v.ref.kind # "null"
  BY DEF Typed, HasIn, IsNull, RefTypes
<1>2. r.kind = "ref" /\ r.heap = IF v.type.heap = "extern" THEN "extern" ELSE "any"
  BY <1>1, RuntimeKinds
<1> HIDE DEF r, j
<1> QED
  BY <1>1, <1>2 DEF Accepts, matchesRefType, matchesHeapType, RefTypes

\* The executor has no function among the any references, the validator has them all.
LEMMA FunctionNotAny ==
  ASSUME HeapType(heap), NEW i \in Insts, NEW v, SoundIn(heap, v), v.type.kind = "ref", NEW t \in RefTypes,
         v.ref.kind = "func", t.heap = "any"
  PROVE  ~refMatches(i, v, t) /\ Has(v, i, t)
<1> DEFINE r == RuntimeIn(heap, v)
           j == OwnerIn(heap, i, v)
<1>1. t.kind = "ref" /\ v.type.heap # "extern"
  BY DEF SoundIn, RefTypes
<1>2. RuntimeType(v) = r /\ Owner(i, v) = j
  BY DEF RuntimeType, RuntimeIn, Owner, OwnerIn, Object
<1>3. r.kind = "ref" /\ ~r.nullable /\ r.heap = "index"
  BY RuntimeKinds
<1> HIDE DEF r, j
<1>4. Accepts(j, r, i, t)
  BY <1>1, <1>3 DEF Accepts, matchesRefType, matchesHeapType
<1> QED
  BY <1>1, <1>2, <1>4 DEF refMatches, Has, IsNull

\* A value of type s is cast to t, within a hierarchy.
LEMMA CastFrom ==
  ASSUME IInv, NEW i \in Insts, NEW s \in RefTypes, NEW v, Typed(heap, v, i, s), NEW t \in RefTypes,
         Hierarchy(i, s) = Hierarchy(i, t), ~(v.ref.kind = "func" /\ t.heap = "any")
  PROVE  refMatches(i, v, t) <=> Has(v, i, t)
<1>1. v.type.kind = "ref" /\ SoundIn(heap, v) /\ HeapType(heap)
  BY DEF Typed, HasIn, IInv, RefTypes
<1>2. ASSUME t.heap = "extern"
      PROVE  s.heap \in {"extern", "noextern"}
  <2>1. Hierarchy(i, t) = "extern"
    BY <1>2 DEF Hierarchy
  <2> QED
    BY <2>1 DEF Hierarchy
<1>3. v.ref.kind = "extern" /\ t.heap = "extern" => v.type.heap = "extern"
  BY <1>1, <1>2, ExternTagged
<1> QED
  BY <1>1, <1>3, CastAgrees

\* An outcome that CastsExact allows: of another instruction, or of a cast that agrees with has.
LEMMA OtherOutcome ==
  ASSUME NEW op, op \notin {"cast", "cast of function"}, NEW out, NEW must, Outcome(op, out, must)
  PROVE  CastsExact'
<1>1. last' = Fine \/ last' = [op |-> op, out |-> out, must |-> must]
  BY DEF Outcome
<1>2. CASE last' = Fine
  BY <1>2 DEF Fine, CastsExact
<1>3. CASE last' = [op |-> op, out |-> out, must |-> must]
  <2>1. last'.op = op
    BY <1>3
  <2> QED
    BY <2>1 DEF CastsExact
<1> QED
  BY <1>1, <1>2, <1>3

LEMMA CastOutcome ==
  ASSUME NEW out, NEW has \in BOOLEAN, out = "ok" <=> has, Outcome("cast", out, ~has)
  PROVE  CastsExact'
<1>1. last' = Fine \/ last' = [op |-> "cast", out |-> out, must |-> ~has]
  BY DEF Outcome
<1>2. CASE last' = Fine
  BY <1>2 DEF Fine, CastsExact
<1>3. CASE last' = [op |-> "cast", out |-> out, must |-> ~has]
  <2>1. last'.op = "cast" /\ last'.out = out /\ last'.must = ~has
    BY <1>3
  <2> QED
    BY <2>1 DEF CastsExact
<1> QED
  BY <1>1, <1>2, <1>3

LEMMA HasBoolean ==
  ASSUME NEW v, NEW i, NEW t \in RefTypes
  PROVE  Has(v, i, t) \in BOOLEAN
<1>1. t.kind = "ref"
  BY DEF RefTypes
<1>2. Has(v, i, t) = (v.type.kind = "ref" /\ IF IsNull(v) THEN t.nullable ELSE Accepts(Owner(i, v), RuntimeType(v), i, t))
  BY <1>1 DEF Has
<1> QED
  BY <1>2, Zenon

\* A value v of type s is cast to t: the one step that the instructions have in common.
LEMMA CastDecided ==
  ASSUME IInv, NEW i \in Insts, NEW s \in RefTypes, NEW v, Typed(heap, v, i, s), NEW t \in RefTypes,
         NEW out, out = "ok" <=> refMatches(i, v, t), Outcome(CastName(i, v, s, t), out, ~Has(v, i, t))
  PROVE  CastsExact'
<1>1. CASE Hierarchy(i, s) # Hierarchy(i, t)
  <2>1. Outcome("cast elsewhere", out, ~Has(v, i, t))
    BY <1>1 DEF CastName
  <2> QED
    BY <2>1, OtherOutcome
<1>2. CASE Hierarchy(i, s) = Hierarchy(i, t) /\ v.ref.kind = "func" /\ t.heap = "any"
  <2>1. ~refMatches(i, v, t) /\ Has(v, i, t)
    BY <1>2, FunctionNotAny DEF Typed, HasIn, IInv, RefTypes
  <2>2. Outcome("cast of function", out, FALSE) /\ out # "ok"
    BY <1>2, <2>1 DEF CastName
  <2>3. last' = Fine \/ last' = [op |-> "cast of function", out |-> out, must |-> FALSE]
    BY <2>2 DEF Outcome
  <2>4. CASE last' = Fine
    BY <2>4 DEF Fine, CastsExact
  <2>5. CASE last' = [op |-> "cast of function", out |-> out, must |-> FALSE]
    <3>1. last'.op = "cast of function" /\ last'.out = out /\ last'.must = FALSE
      BY <2>5
    <3> QED
      BY <2>2, <3>1 DEF CastsExact
  <2> QED
    BY <2>3, <2>4, <2>5
<1>3. CASE Hierarchy(i, s) = Hierarchy(i, t) /\ ~(v.ref.kind = "func" /\ t.heap = "any")
  <2>1. refMatches(i, v, t) <=> Has(v, i, t)
    BY <1>3, CastFrom
  <2>2. Outcome("cast", out, ~Has(v, i, t))
    BY <1>3 DEF CastName
  <2> QED
    BY <2>1, <2>2, HasBoolean, CastOutcome
<1> QED
  BY <1>1, <1>2, <1>3

LEMMA CastStepExact ==
  ASSUME IInv, NEW i \in Insts, CastStep(i)
  PROVE  CastsExact'
<1>1. ASSUME NEW o \in Operands(i), NEW t \in CastTypes(i), NEW out,
             out = "ok" <=> refMatches(i, o.v, t), Outcome(CastName(i, o.v, o.t, t), out, ~Has(o.v, i, t))
      PROVE  CastsExact'
  <2>1. t \in RefTypes /\ o.t \in RefTypes /\ Typed(heap, o.v, i, o.t)
    BY OperandTyped, LocalTypes DEF IInv
  <2> QED
    BY <1>1, <2>1, CastDecided
<1>2. CASE refTest(i)
  <2>1. PICK o \in Operands(i), t \in CastTypes(i) :
          Outcome(CastName(i, o.v, o.t, t), IF refMatches(i, o.v, t) THEN "ok" ELSE "no", ~Has(o.v, i, t))
    BY <1>2 DEF refTest, Fails, RefTestOperands
  <2> DEFINE out == IF refMatches(i, o.v, t) THEN "ok" ELSE "no"
  <2>2. (out = "ok" <=> refMatches(i, o.v, t)) /\ Outcome(CastName(i, o.v, o.t, t), out, ~Has(o.v, i, t))
    BY <2>1
  <2> HIDE DEF out
  <2> QED
    BY <1>1, <2>2
<1>3. CASE refCast(i)
  <2>1. PICK o \in Operands(i), t \in CastTypes(i) :
          \/ ~refMatches(i, o.v, t) /\ Outcome(CastName(i, o.v, o.t, t), "trap", ~Has(o.v, i, t))
          \/ refMatches(i, o.v, t) /\ Outcome(CastName(i, o.v, o.t, t), "ok", ~Has(o.v, i, t))
    BY <1>3 DEF refCast, Fails, RefCastOperands
  <2> QED
    BY <1>1, <2>1
<1>4. CASE brOnCast(i)
  <2>1. PICK s \in CastTypes(i), t \in CastTypes(i) : \E v \in BrOnCastOperands(i, s, t) :
          \/ refMatches(i, v, t) /\ Outcome(CastName(i, v, s, t), "ok", ~Has(v, i, t))
          \/ ~refMatches(i, v, t) /\ Outcome(CastName(i, v, s, t), "no", ~Has(v, i, t))
    BY <1>4 DEF brOnCast
  <2>2. PICK v \in BrOnCastOperands(i, s, t) :
          \/ refMatches(i, v, t) /\ Outcome(CastName(i, v, s, t), "ok", ~Has(v, i, t))
          \/ ~refMatches(i, v, t) /\ Outcome(CastName(i, v, s, t), "no", ~Has(v, i, t))
    BY <2>1
  <2>3. s \in RefTypes /\ t \in RefTypes /\ s \in ValueTypes
    BY LocalTypes DEF IInv, RefTypes
  <2>4. Accepts(i, t, i, s) /\ v \in Given(i, s)
    BY DEF BrOnCastOperands
  <2>5. Typed(heap, v, i, s)
    BY <2>3, <2>4, GivenTyped
  <2> QED
    BY <2>2, <2>3, <2>5, CastDecided
<1>5. CASE evalTypedSelect(i)
  BY <1>5, OtherOutcome DEF evalTypedSelect, Make
<1> QED
  BY <1>2, <1>3, <1>4, <1>5 DEF CastStep

LEMMA OtherStepsExact ==
  ASSUME NEW i \in Insts, StructStep(i) \/ ArrayStep(i) \/ DataStep(i) \/ ElemStep(i) \/ MakeStep(i) \/ ConversionStep(i)
  PROVE  CastsExact'
<1>1. PICK op, out, must : op \notin {"cast", "cast of function"} /\ Outcome(op, out, must)
  <2>1. CASE StructStep(i)
    BY <2>1 DEF StructStep, newStruct, newDefaultStruct, structGet, structSet, Allocate, Refuses, Fails
  <2>2. CASE newArray(i) \/ newFixedArray(i) \/ newDefaultArray(i)
    BY <2>2 DEF newArray, newFixedArray, newDefaultArray, Allocate, Fails
  <2>3. CASE arrayLen(i) \/ arrayGet(i)
    BY <2>3 DEF arrayLen, arrayGet, Refuses, Fails
  <2>4. CASE arraySet(i)
    BY <2>4 DEF arraySet, Overwrite, Refuses, Fails
  <2>5. CASE arrayFill(i)
    <3>1. PICK v, k, start, length, values, must :
            \/ Fails("array.fill", "tag", must) \/ Refuses("array.fill", i, v, k) \/ Fails("array.fill", "trap", must)
            \/ Overwrite("array.fill", v, start, length, values, must)
      BY <2>5, ZenonT(60) DEF arrayFill
    <3> QED
      BY <3>1 DEF Overwrite, Refuses, Fails
  <2>6. CASE arrayCopy(i)
    <3>1. PICK dst, src, k, l, start, length, values, must :
            \/ Refuses("array.copy", i, src, l) \/ Refuses("array.copy", i, dst, k) \/ Fails("array.copy", "trap", must)
            \/ Overwrite("array.copy", dst, start, length, values, must)
      BY <2>6 DEF arrayCopy
    <3> QED
      BY <3>1 DEF Overwrite, Refuses, Fails
  <2>7. CASE newDataArray(i)
    BY <2>7, ZenonT(60) DEF newDataArray, Allocate, Fails
  <2>8. CASE arrayInitData(i)
    <3>1. PICK v, k, start, length, values, must :
            \/ Refuses("array.init_data", i, v, k) \/ Fails("array.init_data", "trap", must)
            \/ Overwrite("array.init_data", v, start, length, values, must)
      BY <2>8 DEF arrayInitData
    <3> QED
      BY <3>1 DEF Overwrite, Refuses, Fails
  <2>9. CASE newElemArray(i)
    BY <2>9 DEF newElemArray, Allocate, Fails
  <2>10. CASE arrayInitElem(i)
    <3>1. PICK v, k, start, length, values, must :
            \/ Refuses("array.init_elem", i, v, k) \/ Fails("array.init_elem", "trap", must)
            \/ Overwrite("array.init_elem", v, start, length, values, must)
      BY <2>10, ZenonT(60) DEF arrayInitElem
    <3> QED
      BY <3>1 DEF Overwrite, Refuses, Fails
  <2>11. CASE DropData(i) \/ DropElem(i)
    BY <2>11 DEF DropData, DropElem
  <2>12. CASE MakeStep(i)
    BY <2>12 DEF MakeStep, refNull, refI31, refFunc, HostRef, i31Get, Make, Fails
  <2>13. CASE ConversionStep(i)
    BY <2>13 DEF ConversionStep, externConvertAny, anyConvertExtern, Make
  <2> QED
    BY <2>1, <2>2, <2>3, <2>4, <2>5, <2>6, <2>7, <2>8, <2>9, <2>10, <2>11, <2>12, <2>13 DEF ArrayStep, DataStep, ElemStep
<1> QED
  BY <1>1, OtherOutcome

\* Casts decide as the validator would (execute.go:2137, validate.go:411), for every number of
\* modules and types, except that no function passes for the any reference the validator takes it for.
THEOREM CastsDecide == Spec => []CastsExact
<1>1. Init => CastsExact
  BY DEF Init, Fine, CastsExact
<1>2. ASSUME IInv, CastsExact, [Next]_vars
      PROVE  CastsExact'
  <2>1. CASE UNCHANGED vars
    BY <1>2, <2>1 DEF vars, CastsExact
  <2>2. CASE \E i \in Insts :
               \/ StructStep(i) \/ ArrayStep(i) \/ DataStep(i) \/ ElemStep(i) \/ MakeStep(i) \/ CastStep(i)
               \/ ConversionStep(i)
    BY <1>2, <2>2, OtherStepsExact, CastStepExact
  <2>3. CASE \E i, j \in Insts : Pass(i, j)
    BY <2>3, OtherOutcome DEF Pass
  <2> QED
    BY <1>2, <2>1, <2>2, <2>3 DEF Next
<1> QED
  BY <1>1, <1>2, Invariance, PTL DEF Spec
=============================================================================
