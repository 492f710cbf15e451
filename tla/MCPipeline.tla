----------------------------- MODULE MCPipeline -----------------------------
(* Small instances of Pipeline for TLC. *)
EXTENDS Pipeline

I32 == <<"i32">>
I64 == <<"i64">>
None == << >>
Exn == <<"exn">>
Exnref == <<"exnref">>

MCTags == "t" :> I32 @@ "u" :> None
MCFuncs == "f" :> [params |-> I32, results |-> I32]
        @@ "g" :> [params |-> None, results |-> Exnref]
        @@ "h" :> [params |-> None, results |-> I32]

Core == {Const("i32"), Plain("drop"), Plain("end")}

\* Nested blocks and loops with every kind of branch.
BranchAlphabet == Core \cup
  {Open("block", None, None), Open("block", None, I32), Open("loop", I32, None),
   Branch("br", 0), Branch("br", 1), Branch("br_if", 0), Branch("br_if", 1),
   BrTable(<<0, 1>>), Plain("return"), Plain("unreachable")}

\* Conditionals with and without an else, with and without results. The else
\* rule of the validator is wrong for an if with parameters, see PipelineElse:
\* IfAlphabet has an else and no such if, ParamAlphabet such ifs and no else.
IfAlphabet == Core \cup
  {Open("if", None, None), Open("if", None, I32), Plain("else"),
   Const("i64"), Plain("select"), Branch("br_if", 0), Plain("unreachable")}

ParamAlphabet == Core \cup
  {Open("if", I32, I32), Open("if", I32, None), Const("i64"), Branch("br_if", 0), Plain("unreachable")}

\* An if with parameters and an else.
ElseAlphabet == Core \cup {Open("if", I32, I64), Plain("else"), Const("i64")}

\* Exceptions: every kind of clause, to the label around the try_table and to
\* the next one, thrown here or in a callee, and thrown again.
ExceptionAlphabet ==
  {Plain("end"), Plain("drop"), Plain("throw_ref"), Throw("t"), Const("i32"), Call("call", "g"),
   Open("block", None, None), Open("block", None, Exnref),
   TryTable(None, None, <<Catch("tag", "t", 1), Catch("all", "t", 0)>>),
   TryTable(I32, Exnref, <<Catch("all_ref", "t", 0)>>),
   TryTable(None, Exnref, <<Catch("tag_ref", "u", 0), Catch("tag", "t", 1)>>)}

\* Handlers in handlers that match the same exceptions.
HandlerAlphabet ==
  {Plain("end"), Throw("u"), Open("block", None, None),
   TryTable(None, None, <<Catch("all", "t", 0)>>)}

\* References and locals: a local that must be set before it is read.
LocalAlphabet ==
  {Plain("end"), Plain("drop"), Call("call", "g"), Open("block", None, None), Open("block", None, Exn),
   Open("loop", None, None), Const("i32"), Branch("br_if", 0), Plain("unreachable"),
   Local("local.get", 1), Local("local.set", 1), Local("local.tee", 1),
   Branch("br_on_null", 0), Branch("br_on_non_null", 0), Plain("ref.as_non_null"), Call("return_call", "h")}

MCAlphabets ==
  BranchAlphabet :> 7 @@ IfAlphabet :> 7 @@ ParamAlphabet :> 7 @@ ExceptionAlphabet :> 8 @@ HandlerAlphabet :> 9
  @@ LocalAlphabet :> 6
ElseAlphabets == ElseAlphabet :> 9

\* A body that goes on after the end of its function frame.
EndAlphabets == Core \cup {Open("block", None, None)} :> 6
=============================================================================
