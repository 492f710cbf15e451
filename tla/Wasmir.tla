------------------------------- MODULE Wasmir -------------------------------
(***************************************************************************)
(* The shared vocabulary of the pipeline: the instructions and types of    *)
(* wasmir/module.go that the validator, the compiler and the executor all  *)
(* read. An instruction is a record whose field op is its InstrKind and    *)
(* whose other fields are the immediates that kind carries; value types    *)
(* are strings. "exn" is (ref exn), "exnref" is (ref null exn). A run-time   *)
(* value is abstracted to its type, a reference to "exn" or "null".         *)
(***************************************************************************)
EXTENDS Integers, Sequences

CONSTANTS
  ResultTypes,   \* result types of the function under validation
  ParamTypes,    \* its parameter types
  LocalTypes,    \* the types of its declared locals
  TagParams,     \* [tag -> its parameter types]
  Funcs          \* [function -> [params, results]], the callable functions

RefTypes == {"exn", "exnref"}
ValueTypes == {"i32", "i64"} \cup RefTypes
Values == {"i32", "i64", "exn", "null"}

\* The values of a type, and the sequences of values of a sequence of types.
ValuesOf(type) == CASE type = "exnref" -> {"exn", "null"} [] OTHER -> {type}
Tuples(types) == {s \in [DOMAIN types -> Values] : \A i \in DOMAIN types : s[i] \in ValuesOf(types[i])}

Openers == {"block", "loop", "if", "try_table"}

\* ref.null counts as the constant of type exnref.
Const(t) == [op |-> "const", type |-> t]
Plain(op) == [op |-> op]
Open(op, params, results) == [op |-> op, params |-> params, results |-> results]
TryTable(params, results, catches) ==
  [op |-> "try_table", params |-> params, results |-> results, catches |-> catches]
Branch(op, depth) == [op |-> op, depth |-> depth]
BrTable(depths) == [op |-> "br_table", depths |-> depths]  \* the default comes last
Throw(tag) == [op |-> "throw", tag |-> tag]
Local(op, index) == [op |-> op, index |-> index]
Call(op, func) == [op |-> op, func |-> func]

\* One clause of a try_table.
Catch(kind, tag, depth) == [kind |-> kind, tag |-> tag, depth |-> depth]
Clauses == [kind : {"tag", "tag_ref", "all", "all_ref"}, tag : DOMAIN TagParams, depth : Nat]

Branches == {"br", "br_if", "br_on_null", "br_on_non_null"}

\* The immediates an instruction carries have the types of their fields, and
\* the indices of functions and tags were checked against the module's tables.
IsInstr(ins) ==
  /\ ins.op = "const" => ins.type \in ValueTypes \ {"exn"}
  /\ ins.op \in Openers => {ins.params, ins.results} \subseteq Seq(ValueTypes)
  /\ ins.op = "try_table" => ins.catches \in Seq(Clauses)
  /\ ins.op \in Branches => ins.depth \in Nat
  /\ ins.op = "br_table" => ins.depths \in Seq(Nat) \ {<< >>}
  /\ ins.op \in {"local.get", "local.set", "local.tee"} => ins.index \in Nat
  /\ ins.op \in {"call", "return_call"} => ins.func \in DOMAIN Funcs
  /\ ins.op = "throw" => ins.tag \in DOMAIN TagParams

ASSUME TypeTables ==
  /\ {ResultTypes, ParamTypes, LocalTypes} \subseteq Seq(ValueTypes)
  /\ \A t \in DOMAIN TagParams : TagParams[t] \in Seq(ValueTypes)
  /\ \A f \in DOMAIN Funcs : /\ Funcs[f].params \in Seq(ValueTypes)
                             /\ Funcs[f].results \in Seq(ValueTypes)
=============================================================================
