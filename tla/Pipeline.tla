------------------------------ MODULE Pipeline ------------------------------
(***************************************************************************)
(* Validator, compiler and executor on one function: a body the validator  *)
(* accepts is compiled by Instantiate and then run. The properties say     *)
(* what validation promises the executor, which checks none of it again:   *)
(* operands are there and have their types, labels are the ones branches   *)
(* were resolved against, and code proved unreachable never runs.          *)
(***************************************************************************)
EXTENDS Validate, Compile, Execute

CONSTANT MaxArity   \* the largest number of operands an instruction takes or leaves

\* select takes three; an if, its parameters and a condition.
ASSUME ArityAssumption ==
  /\ MaxArity \in Nat /\ MaxArity >= 3
  /\ \A f \in DOMAIN Funcs : Len(Funcs[f].params) <= MaxArity /\ Len(Funcs[f].results) <= MaxArity
  /\ \A A \in DOMAIN Alphabets : \A ins \in A :
       ins.op \in Openers => Len(ins.params) < MaxArity /\ Len(ins.results) <= MaxArity

vars == <<body, val, typing, verdict, code, pc, stack, locals, labels, status>>

validateVars == <<body, val, typing, verdict>>

Init == ValidateInit /\ ExecInit

\* Instantiate compiles the body and the first call starts a frame. A body
\* that does not compile leaves the instance unbuilt: status "uncompiled".
Instantiate ==
  /\ verdict = "valid" /\ status = "idle"
  /\ LET f == CompileFunction(body)
     IN  IF f.ok THEN Begin(f.code)
         ELSE /\ status' = "uncompiled"
              /\ UNCHANGED <<code, pc, stack, locals, labels>>
  /\ UNCHANGED validateVars

Validating ==
  /\ \/ \E A \in DOMAIN Alphabets :
          Range(body) \subseteq A /\ \E ins \in A : Accept(ins, Alphabets[A]) \/ Reject(ins)
     \/ Finish
  /\ UNCHANGED execVars

Running == Step /\ UNCHANGED validateVars

Next == Validating \/ Instantiate \/ Running

Spec == Init /\ [][Next]_vars

\* run's loop always takes the next instruction. Which body is read, and whether
\* anybody instantiates and calls it, is the environment's choice.
FairSpec == Spec /\ WF_vars(Running)

-----------------------------------------------------------------------------
(* Properties *)

\* A validated body never makes the executor report an internal error: no
\* operand is missing or of the wrong type, no label or target is out of range,
\* and control does not run past the final end.
NoFault == status # "fault" /\ (status = "running" => pc \in DOMAIN code)

\* Does the body go on after the end that closed its function frame?
GoesOn == \E p \in DOMAIN typing : typing[p].ctrl = << >>

\* compileFunction compiles every body the validator accepts but those that go
\* on after the end of their function frame, and those it always refuses: no
\* code after that end is ever run.
AcceptedCompiles == status # "idle" => (status = "uncompiled" <=> GoesOn)

\* "The final end must close the implicit function frame" (validate.go), so
\* Instantiate does not fail on the body of a validated module. This does not
\* hold: validate takes any last end when no frame is open.
ValidCompiles == status # "uncompiled"

\* Is the next instruction an inner one, not the final end? The final end is
\* where branches to the function's label arrive.
Inside == status = "running" /\ pc \in 1 .. Len(body) - 1

\* Code the validator has marked unreachable is never executed, so the operands
\* it made up for such code are never missed at run time.
DeadCodeNeverRuns == Inside => ~TopFrame(typing[pc]).dead

\* Whenever an instruction is about to run, however it was reached, the operand
\* stack has the height and the types the validator assigned to that point, a
\* local the validator holds to be set has a value of its type (no null that a
\* non-nullable local was born with is ever read), and the labels on the runtime label stack are the validator's frames: their
\* entry heights, branch arities and loop flags agree one by one.
StackAgrees ==
  Inside =>
    LET v == typing[pc]
    IN  /\ Len(stack) = v.height
        /\ \A i \in DOMAIN stack : v.slots[i] = Unknown \/ stack[i] \in ValuesOf(v.slots[i])
        /\ \A i \in v.inits : locals[i] \in ValuesOf(AllLocals[i])
        /\ Len(labels) = Len(v.ctrl)
        /\ \A i \in DOMAIN labels :
             /\ labels[i].height = v.ctrl[i].entry
             /\ labels[i].branch = Len(LabelTypes(v.ctrl[i]))
             /\ labels[i].isLoop = (v.ctrl[i].kind = "loop")

\* The instruction that opened frame i of the state before p.
OpenerOfFrame(p, i) ==
  Max({s \in 1 .. p - 1 : body[s].op \in Openers /\ Len(typing[s].ctrl) = i - 1})

\* The instruction after which frame i of the state before p is closed.
EndOfFrame(p, i) ==
  Min({e \in p .. Len(body) : body[e].op = "end" /\ Len(typing[e].ctrl) = i})

\* Where a branch to that frame continues.
Arrival(p, i) ==
  IF i = 1 THEN Len(body)
  ELSE IF body[OpenerOfFrame(p, i)].op = "loop" THEN OpenerOfFrame(p, i) + 1 ELSE EndOfFrame(p, i) + 1

\* The clauses around p that match tag, as <<frame, clause>>.
ClausesAt(p, i) == IF typing[p].ctrl[i].kind = "try_table" THEN body[OpenerOfFrame(p, i)].catches ELSE << >>
Catchers(p, tag) ==
  {a \in UNION {{i} \X DOMAIN ClausesAt(p, i) : i \in DOMAIN typing[p].ctrl} :
     CatchMatches(ClausesAt(p, a[1])[a[2]], tag)}

\* An exception is thrown here, in a callee, or again. (One from a callee that
\* is taken by the next instruction looks as if the callee had returned.)
Raises ==
  \/ At("throw")
  \/ At("throw_ref") /\ status' # "trap"
  \/ At("call") /\ status' # "trap" /\ pc' # pc + 1

\* These are all the clauses that match: the exception continues where the one
\* of the innermost try_table says, the first of those, and leaves the frame
\* only if there is none. The depth of a clause counts from outside.
TakenBy(all) ==
  \/ all = {} /\ status' = "thrown"
  \/ \E a \in all :
       /\ \A b \in all : b[1] < a[1] \/ (b[1] = a[1] /\ b[2] >= a[2])
       /\ status' = "running"
       /\ pc' = Arrival(pc, a[1] - 1 - ClausesAt(pc, a[1])[a[2]].depth)

\* Every exception is taken by the first matching clause of the innermost
\* try_table around it that has one, as the nesting of the body says, and not
\* by the order in which the run-time labels are searched.
HandledFirst ==
  [][Raises =>
       \E tag \in IF At("throw") THEN {body[pc].tag} ELSE DOMAIN TagParams : TakenBy(Catchers(pc, tag))]_vars

\* The final end, reached by falling through or by a branch to the function's
\* label, finds the results and nothing below them: popResults, which takes
\* only the top of the stack, drops nothing.
NothingLeftBehind ==
  status = "running" /\ pc = Len(body) =>
    /\ Len(stack) = Len(ResultTypes) /\ Len(labels) = 1
    /\ \A i \in DOMAIN stack : stack[i] \in ValuesOf(ResultTypes[i])

\* The operands of each label: the stack cut at the heights of the labels.
Ceiling(s, lbs, i) == IF i = Len(lbs) THEN Len(s) ELSE lbs[i + 1].height
Cut(s, lbs) == [i \in DOMAIN lbs |-> SubSeq(s, lbs[i].height + 1, Ceiling(s, lbs, i))]
ShapesOf(lbs) == [i \in DOMAIN lbs |-> <<lbs[i].results, lbs[i].branch, lbs[i].isLoop>>]

\* What Structured sees of a frame; it has no mode "fault".
Mode == CASE status \in {"idle", "uncompiled"} -> "idle" [] status \in {"running", "fault"} -> status [] OTHER -> "done"
Contexts == Cut(stack, labels)
Shapes == ShapesOf(labels)

\* The flat stack, cut at the entry heights of the labels, is the structured
\* semantics of WebAssembly: no operand of an outer label is touched, ends move
\* exactly the results, and branches and handlers carry what their label takes.
S == INSTANCE Structured WITH mode <- Mode, operands <- Contexts, shapes <- Shapes

ImplementsStructured == S!Spec

\* A body without loops runs to an end once it is called: the frame returns, is
\* given to a tail callee, traps or throws. Targets are resolved one counter
\* before the instruction that runs next, so an off-by-one can spin in place.
LoopFreeEnds ==
  (status = "running" /\ \A i \in DOMAIN body : body[i].op # "loop")
    ~> status \in {"returned", "tail", "trap", "thrown"}
=============================================================================
