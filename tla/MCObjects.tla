------------------------------ MODULE MCObjects ------------------------------
(***************************************************************************)
(* Two modules for Objects. The first has a struct type Node, a subtype    *)
(* Leaf of it with a packed field that cannot be written, an array of      *)
(* Nodes, a function type and an array of functions; the second has Node   *)
(* and the function type too, at other indices, and arrays of one and of   *)
(* two bytes, of which the second cannot be written.                       *)
(***************************************************************************)
EXTENDS Objects

Mut(t) == [type |-> t, packed |-> "none", mutable |-> TRUE]
Packed(p, m) == [type |-> I32, packed |-> p, mutable |-> m]
Struct(fs) == [kind |-> "struct", fields |-> fs]
Array(f) == [kind |-> "array", fields |-> <<f>>]
Func == [kind |-> "func", fields |-> <<>>]

MCInsts == {"a", "b"}
By(a, b) == [i \in MCInsts |-> IF i = "a" THEN a ELSE b]
Nullable(k) == RefTypeIndexed(k, TRUE)
Leaf == RefTypeIndexed(2, FALSE)
FuncType == By(4, 3)
MCTypes == By(<<Struct(<<Mut(Nullable(1))>>),
                Struct(<<Mut(Nullable(1)), Packed("i8", FALSE)>>),
                Array(Mut(Nullable(1))),
                Func,
                Array(Mut(Ref("func", TRUE)))>>,
              <<Array(Packed("i8", TRUE)),
                Struct(<<Mut(Nullable(2))>>),
                Func,
                Array(Packed("i16", FALSE))>>)

\* The types that have the same meaning, and what is declared below what.
Same == {<<"a", 1, "b", 2>>, <<"a", 4, "b", 3>>}
Reflexive == UNION {{<<i, k, i, k>> : k \in DOMAIN MCTypes[i]} : i \in MCInsts}
MCSubtypes == Reflexive \cup Same \cup {<<s[3], s[4], s[1], s[2]>> : s \in Same}
                \cup {<<"a", 2, "a", 1>>, <<"a", 2, "b", 2>>}

\* The locals, named.
Any == 1
Extern == 2
FuncLocal == 3
NodeLocal == 4
FirstArray == 5
SecondArray == 6
MCReg == [i \in MCInsts |->
  <<Ref("any", TRUE), Ref("extern", TRUE), Ref("func", TRUE)>> \o
  (IF i = "a" THEN <<Nullable(1), Nullable(3), Nullable(5)>> ELSE <<Nullable(2), Nullable(1), Nullable(4)>>)]

Program(parts, locals, casts, n) == [parts |-> parts, locals |-> locals, casts |-> casts, objects |-> n]
MCPrograms == {
  Program({"structs", "casts"}, By({NodeLocal}, {NodeLocal}), By({Nullable(1), Leaf}, {}), 1),
  Program({"structs"}, By({NodeLocal}, {NodeLocal}), By({}, {}), 2),
  Program({"makes", "casts", "conversions", "structs"}, By({Any}, {Any, Extern}),
          By({Leaf}, {Ref("i31", FALSE)}), 1),
  Program({"arrays", "elems", "structs"}, By({NodeLocal, FirstArray}, {}), By({}, {}), 2),
  Program({"arrays", "elems", "casts"}, By({FuncLocal, SecondArray}, {}), By({RefTypeIndexed(4, FALSE)}, {}), 1),
  Program({"makes", "casts"}, By({FuncLocal}, {FuncLocal}), By({}, {Nullable(3), Ref("nofunc", TRUE)}), 0),
  Program({"makes", "casts"}, By({Any}, {}), By({Ref("any", FALSE)}, {}), 0),
  Program({"arrays", "data"}, By({}, {FirstArray}), By({}, {}), 2),
  Program({"arrays", "data"}, By({FirstArray}, {SecondArray}), By({}, {}), 1)}

MCFuncs == <<[inst |-> "a", type |-> 4], [inst |-> "b", type |-> 3]>>
MCData == By(<<<<1>>>>, <<<<1, 0>>>>)
MCElems == By(<<[type |-> Ref("none", TRUE), values |-> <<zeroValue(Ref("none", TRUE))>>],
                [type |-> Ref("func", TRUE), values |-> <<RefValue(Ref("func", FALSE), "func", 1)>>]>>, <<>>)
=============================================================================
