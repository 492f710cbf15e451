------------------------------- MODULE Execute -------------------------------
(***************************************************************************)
(* The executor of internal/vm/execute.go on one function frame: a flat    *)
(* operand stack, a stack of runtime labels and a program counter, running *)
(* the code that Compile produced. Numbers are abstracted to their types,  *)
(* so a condition or selector may come out either way; a call returns,     *)
(* traps or throws, as the callee likes.                                   *)
(*                                                                         *)
(* "fault" stands for every internal error of the executor: an operand     *)
(* missing or of the wrong type, a label stack underflow, a bad target.    *)
(***************************************************************************)
EXTENDS Wasmir, SequencesExt

VARIABLES
  code,      \* function.code, with the label of each opener in place
  pc,        \* the instruction that runs next
  stack,     \* operand stack: a sequence of values
  locals,    \* parameters, then declared locals
  labels,    \* runtime labels; the first is the function's own
  status     \* "idle", "running", "returned", "tail", "trap", "thrown", "fault"

execVars == <<code, pc, stack, locals, labels, status>>

Refs == {"exn", "null"}

\* runtimeTypeMatches tells no two references apart.
RuntimeMatches(value, want) == value = want \/ (value \in Refs /\ want \in RefTypes)

HasTops(s, types) ==
  /\ Len(s) >= Len(types)
  /\ \A i \in DOMAIN types : RuntimeMatches(s[Len(s) - Len(types) + i], types[i])

Below(s, n) == SubSeq(s, 1, Len(s) - n)
Top(s, n) == SubSeq(s, Len(s) - n + 1, Len(s))

\* popWant compares for equality.
TopIs(s, type) == s # << >> /\ Last(s) = type

FunctionLabel ==
  [height |-> 0, results |-> Len(ResultTypes), branch |-> Len(ResultTypes),
   isLoop |-> FALSE, catches |-> << >>]

ExecInit ==
  /\ code = << >> /\ pc = 0 /\ stack = << >> /\ locals = << >> /\ labels = << >>
  /\ status = "idle"

\* initLocals: the zero value of any reference type is null.
Zero(type) == IF type \in RefTypes THEN "null" ELSE type

\* executeFunction, with arguments that CallFunc has checked.
Begin(compiled) ==
  /\ status = "idle"
  /\ code' = compiled
  /\ pc' = 1
  /\ stack' = << >>
  /\ \E args \in Tuples(ParamTypes) :
       locals' = args \o [i \in DOMAIN LocalTypes |-> Zero(LocalTypes[i])]
  /\ labels' = <<FunctionLabel>>
  /\ status' = "running"

-----------------------------------------------------------------------------
(* Outcomes of a step *)

At(op) == status = "running" /\ pc \in DOMAIN code /\ code[pc].op = op

\* The frame is left with an error, a trap, an exception or results.
Leave(how, s) ==
  /\ status' = how
  /\ stack' = s
  /\ labels' = << >>
  /\ UNCHANGED <<code, pc, locals>>

Fault == status' = "fault" /\ UNCHANGED <<code, pc, stack, locals, labels>>

Goto(next, s, ls) ==
  /\ pc' = next /\ stack' = s /\ labels' = ls
  /\ UNCHANGED <<code, locals, status>>

Advance(s) == Goto(pc + 1, s, labels)

-----------------------------------------------------------------------------
(* Labels *)

\* normalizeLabelValues: the top n values are moved down to height.
CanNormalize(s, height, n) == n <= Len(s) /\ height <= Len(s) - n

\* Mutant: the values under the label's results stay.
NormalizeNothing(s, height, n) == s

Normalize(s, height, n) == SubSeq(s, 1, height) \o Top(s, n)

\* Mutant: the parameters do not belong to the label.
RuntimeLabelAbove(s, ins) ==
  [height |-> Len(s), results |-> ins.label.results,
   branch |-> ins.label.branch, isLoop |-> ins.label.isLoop, catches |-> ins.catches]

RuntimeLabel(s, ins) ==
  [height |-> Len(s) - ins.label.params, results |-> ins.label.results,
   branch |-> ins.label.branch, isLoop |-> ins.label.isLoop, catches |-> ins.catches]

\* enterLabel, continuing at next.
EnterLabel(s, ins, next) ==
  IF Len(s) < ins.label.params THEN Fault
  ELSE Goto(next, s, Append(labels, RuntimeLabel(s, ins)))

\* exitLabel, continuing at next.
ExitLabel(next) ==
  LET l == Last(labels)
  IN  IF Len(labels) <= 1 \/ ~CanNormalize(stack, l.height, l.results) THEN Fault
      ELSE Goto(next, Normalize(stack, l.height, l.results), Front(labels))

\* An if whose condition is false and that has no else: in and out again.
SkipIf(s, ins) ==
  LET h == Len(s) - ins.label.params
  IN  IF h < 0 \/ ~CanNormalize(s, h, ins.label.results) THEN Fault
      ELSE Goto(ins.target + 1, Normalize(s, h, ins.label.results), labels)

\* Mutant: the function's label is left like that of a block.
KeptLabelsOfLoop(index) == IF labels[index].isLoop THEN index ELSE index - 1

\* How many labels are left after a branch: a loop keeps its label, as does the
\* function.
KeptLabels(index) == IF labels[index].isLoop \/ index = 1 THEN index ELSE index - 1

\* branchToLabelIndex
BranchToLabel(s, index, target) ==
  IF index \notin DOMAIN labels THEN Fault
  ELSE LET l == labels[index]
       IN  IF ~CanNormalize(s, l.height, l.branch) THEN Fault
           ELSE Goto(target + 1, Normalize(s, l.height, l.branch), SubSeq(labels, 1, KeptLabels(index)))

\* branchTo
BranchTo(s, target) == BranchToLabel(s, Len(labels) - target.depth, target.pc)

-----------------------------------------------------------------------------
(* Exceptions *)

CatchMatches(c, tag) == c.kind \in {"all", "all_ref"} \/ c.tag = tag

\* The clauses of the active labels that match tag, as <<label, clause>>.
Handlers(tag) ==
  {a \in UNION {{h} \X DOMAIN labels[h].catches : h \in DOMAIN labels} :
     CatchMatches(labels[a[1]].catches[a[2]], tag)}

\* The label a clause of label h branches to, counted from outside h.
CatchLabel(h, c) == h - 1 - c.target.depth

\* Mutant: the outermost label wins.
BeforeOutermost(a, b) == a[1] < b[1] \/ (a[1] = b[1] /\ a[2] <= b[2])

\* handleException: the innermost label, and its first clause, that match.
Before(a, b) == a[1] > b[1] \/ (a[1] = b[1] /\ a[2] <= b[2])

\* exceptionCatchValues: the payload is copied from the exception.
CatchValues(c, payload) ==
  (IF c.kind \in {"tag", "tag_ref"} THEN payload ELSE << >>)
    \o (IF c.kind \in {"tag_ref", "all_ref"} THEN <<"exn">> ELSE << >>)

Raise(s, tag, payload) ==
  IF Handlers(tag) = {} THEN Leave("thrown", s)
  ELSE LET h == CHOOSE a \in Handlers(tag) : \A b \in Handlers(tag) : Before(a, b)
           c == labels[h[1]].catches[h[2]]
       IN  BranchToLabel(s \o CatchValues(c, payload), CatchLabel(h[1], c), c.target.pc)

\* An exception that comes from elsewhere: a callee, or a reference.
RaiseAny(s) == \E tag \in DOMAIN TagParams : \E payload \in Tuples(TagParams[tag]) : Raise(s, tag, payload)

-----------------------------------------------------------------------------
(* One action per instruction of run *)

ConstStep == At("const") /\ Advance(Append(stack, Zero(code[pc].type)))

DropStep == At("drop") /\ IF stack = << >> THEN Fault ELSE Advance(Front(stack))

\* The untyped select pops the condition and both values.
SelectStep ==
  /\ At("select")
  /\ IF ~TopIs(stack, "i32") \/ Len(stack) < 3 \/ stack[Len(stack) - 1] # stack[Len(stack) - 2] THEN Fault
     ELSE \E keep \in {1, 2} : Advance(Append(Below(stack, 3), stack[Len(stack) - keep]))

EnterStep ==
  \E op \in {"block", "loop", "try_table"} : At(op) /\ EnterLabel(stack, code[pc], pc + 1)

IfStep ==
  /\ At("if")
  /\ IF ~TopIs(stack, "i32") THEN Fault
     ELSE \/ EnterLabel(Front(stack), code[pc], pc + 1)
          \/ /\ code[code[pc].target].op = "else"
             /\ EnterLabel(Front(stack), code[pc], code[pc].target + 1)
          \/ /\ code[code[pc].target].op # "else"
             /\ SkipIf(Front(stack), code[pc])

\* The then arm is complete: leave the label and skip past the end.
ElseStep == At("else") /\ ExitLabel(code[pc].target + 1)

ReturnResults ==
  IF HasTops(stack, ResultTypes) THEN Leave("returned", Top(stack, Len(ResultTypes))) ELSE Fault

EndStep ==
  At("end") /\ IF pc # Len(code) THEN ExitLabel(pc + 1) ELSE ReturnResults

BrStep == At("br") /\ BranchTo(stack, code[pc].targets[1])

BrIfStep ==
  /\ At("br_if")
  /\ IF ~TopIs(stack, "i32") THEN Fault
     ELSE Advance(Front(stack)) \/ BranchTo(Front(stack), code[pc].targets[1])

BrTableStep ==
  /\ At("br_table")
  /\ IF ~TopIs(stack, "i32") THEN Fault
     ELSE \E i \in DOMAIN code[pc].targets : BranchTo(Front(stack), code[pc].targets[i])

ReturnStep == At("return") /\ ReturnResults

UnreachableStep == At("unreachable") /\ Leave("trap", stack)

\* callFunction. A callee's exception is offered to this frame's handlers.
CallStep ==
  /\ At("call")
  /\ LET f == Funcs[code[pc].func]
         rest == Below(stack, Len(f.params))
     IN  IF ~HasTops(stack, f.params) THEN Fault
         ELSE \/ \E results \in Tuples(f.results) : Advance(rest \o results)
              \/ Leave("trap", rest)
              \/ RaiseAny(rest)

\* tailCallFunction gives this frame to the callee; no handler of it is left.
ReturnCallStep ==
  /\ At("return_call")
  /\ LET f == Funcs[code[pc].func]
         fits == /\ Len(f.results) = Len(ResultTypes)
                 /\ \A i \in DOMAIN f.results : RuntimeMatches(f.results[i], ResultTypes[i])
     IN  IF ~fits \/ ~HasTops(stack, f.params) THEN Fault
         ELSE Leave("tail", Top(stack, Len(f.params)))

ThrowStep ==
  /\ At("throw")
  /\ LET params == TagParams[code[pc].tag]
     IN  IF ~HasTops(stack, params) THEN Fault
         ELSE Raise(Below(stack, Len(params)), code[pc].tag, Top(stack, Len(params)))

HasRef == stack # << >> /\ Last(stack) \in Refs

ThrowRefStep ==
  /\ At("throw_ref")
  /\ IF ~HasRef THEN Fault
     ELSE \/ Last(stack) = "null" /\ Leave("trap", Front(stack))
          \/ Last(stack) = "exn" /\ RaiseAny(Front(stack))

BrOnNullStep ==
  /\ At("br_on_null")
  /\ IF ~HasRef THEN Fault
     ELSE \/ Last(stack) = "null" /\ BranchTo(Front(stack), code[pc].targets[1])
          \/ Last(stack) = "exn" /\ Advance(stack)

BrOnNonNullStep ==
  /\ At("br_on_non_null")
  /\ IF ~HasRef THEN Fault
     ELSE \/ Last(stack) = "exn" /\ BranchTo(stack, code[pc].targets[1])
          \/ Last(stack) = "null" /\ Advance(Front(stack))

RefAsNonNullStep ==
  /\ At("ref.as_non_null")
  /\ IF ~HasRef THEN Fault
     ELSE IF Last(stack) = "null" THEN Leave("trap", Front(stack)) ELSE Advance(stack)

LocalGetStep ==
  /\ At("local.get")
  /\ IF code[pc].index \in DOMAIN locals THEN Advance(Append(stack, locals[code[pc].index])) ELSE Fault

\* local.set and local.tee check the value against the one it replaces.
SetLocal(s) ==
  LET i == code[pc].index
      replaceable(v) == v = locals[i] \/ {v, locals[i]} \subseteq Refs
  IN  IF i \notin DOMAIN locals \/ stack = << >> THEN Fault
      ELSE IF ~replaceable(Last(stack)) THEN Fault
      ELSE /\ locals' = [locals EXCEPT ![i] = Last(stack)]
           /\ pc' = pc + 1 /\ stack' = s
           /\ UNCHANGED <<code, labels, status>>

LocalSetStep == At("local.set") /\ SetLocal(Front(stack))

LocalTeeStep == At("local.tee") /\ SetLocal(stack)

Step ==
  \/ ConstStep \/ DropStep \/ SelectStep \/ EnterStep \/ IfStep \/ ElseStep \/ EndStep
  \/ BrStep \/ BrIfStep \/ BrTableStep \/ ReturnStep \/ UnreachableStep
  \/ CallStep \/ ReturnCallStep \/ ThrowStep \/ ThrowRefStep
  \/ BrOnNullStep \/ BrOnNonNullStep \/ RefAsNonNullStep
  \/ LocalGetStep \/ LocalSetStep \/ LocalTeeStep
=============================================================================
