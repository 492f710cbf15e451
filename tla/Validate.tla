------------------------------ MODULE Validate ------------------------------
(***************************************************************************)
(* bodyValidator.validate of internal/validate/validate.go: the forward    *)
(* pass over one function body with an operand stack of types and a stack  *)
(* of control frames. The body is chosen one instruction at a time, which  *)
(* lets TLC enumerate every body the pass accepts.                         *)
(*                                                                         *)
(* A rule maps a validation state and an instruction to the set of states  *)
(* that may follow it: {} where the code adds a diagnostic (any one of     *)
(* them rejects the module), a singleton where it does not.                *)
(*                                                                         *)
(* The operand stack is a Go slice: slots is its backing array and height  *)
(* its length. Truncating leaves the array alone, and truncating to a      *)
(* larger length brings old slots back.                                    *)
(***************************************************************************)
EXTENDS Wasmir, SequencesExt

CONSTANT
  Alphabets       \* [sets of instructions a body may be made of -> bound on its length]

ASSUME BodyAlphabets ==
  \A A \in DOMAIN Alphabets : Alphabets[A] \in Nat /\ \A ins \in A : IsInstr(ins)

VARIABLES
  body,           \* the instructions read so far (wasmir.Function.Body)
  val,            \* operand and control stacks before the next instruction
  typing,         \* history: val before each instruction of body
  verdict         \* "open", "valid" or "rejected"

Unknown == "unknown"

\* matchesExpectedValueInModule on the types of this model.
Matches(got, want) ==
  \/ got = Unknown
  \/ got = want
  \/ got = "exn" /\ want = "exnref"

Frame(kind, entry, params, results, inits, dead) ==
  [kind |-> kind, entry |-> entry, params |-> params, results |-> results, inits |-> inits,
   sawElse |-> FALSE, enteredDead |-> dead, dead |-> dead]

-----------------------------------------------------------------------------
(* The operand stack *)

Live(v) == SubSeq(v.slots, 1, v.height)
TopFrame(v) == v.ctrl[Len(v.ctrl)]
FrameAt(v, depth) == v.ctrl[Len(v.ctrl) - depth]

Truncate(v, n) == [v EXCEPT !.height = n]

Push(v, types) ==
  LET n == v.height + Len(types)
  IN  [v EXCEPT !.height = n,
                !.slots = Live(v) \o types \o SubSeq(v.slots, n + 1, Len(v.slots))]

\* Overwrites the top of the stack with types (setStackValue in a loop).
Retype(v, types) == Push(Truncate(v, v.height - Len(types)), types)

\* Are the top operands of the given types?
Tops(v, types) ==
  \A i \in DOMAIN types : Matches(v.slots[v.height - Len(types) + i], types[i])

\* ensureCurrentFrameOperands without folded-source hints: in unreachable code
\* missing operands are made up under the ones the frame has.
Ensure(v, n) ==
  IF v.ctrl = << >> THEN IF v.height >= n THEN {v} ELSE {}
  ELSE LET entry == TopFrame(v).entry
           missing == n - (v.height - entry)
       IN  IF missing <= 0 THEN {v}
           ELSE IF ~TopFrame(v).dead THEN {}
           ELSE {Push(Truncate(v, entry),
                      [i \in 1 .. missing |-> Unknown]
                        \o SubSeq(v.slots, entry + 1, v.height))}

\* The states in which the top operands exist and have the given types.
WithTops(v, types) == {w \in Ensure(v, Len(types)) : Tops(w, types)}

Pop(v, types) == {Truncate(w, w.height - Len(types)) : w \in WithTops(v, types)}

\* markCurrentFrameUnreachable
MarkDead(v) ==
  IF v.ctrl = << >> THEN v
  ELSE [Truncate(v, TopFrame(v).entry) EXCEPT !.ctrl[Len(v.ctrl)].dead = TRUE]

-----------------------------------------------------------------------------
(* Frames and branches *)

\* validateFrameResult
FrameResult(v, f) ==
  LET got == SubSeq(v.slots, f.entry + 1, v.height)
      skip == Len(f.results) - Len(got)
  IN  /\ IF f.dead THEN skip >= 0 ELSE skip = 0
      /\ \A i \in DOMAIN got : Matches(got[i], f.results[skip + i])

\* branchTargetTypes
LabelTypes(f) == IF f.kind = "loop" THEN f.params ELSE f.results

\* validateBranchTarget
BranchTarget(v, depth) ==
  IF depth >= Len(v.ctrl) THEN {} ELSE WithTops(v, LabelTypes(FrameAt(v, depth)))

\* tryTableCatchValues
CatchTypes(c) ==
  (IF c.kind \in {"tag", "tag_ref"} THEN TagParams[c.tag] ELSE << >>)
    \o (IF c.kind \in {"tag_ref", "all_ref"} THEN <<"exn">> ELSE << >>)

\* A catch clause is resolved before the try_table pushes its own frame.
CatchOK(v, c) ==
  /\ c.depth < Len(v.ctrl)
  /\ LET want == LabelTypes(FrameAt(v, c.depth))
         got == CatchTypes(c)
     IN  /\ Len(got) = Len(want)
         /\ \A i \in DOMAIN got : Matches(got[i], want[i])

\* A label is opened: its parameters are re-typed in place.
OpenFrame(v, ins) ==
  {[Retype(w, ins.params) EXCEPT
      !.ctrl = Append(@, Frame(ins.op, w.height - Len(ins.params), ins.params, ins.results,
                               w.inits, @ # << >> /\ TopFrame(w).dead))]
     : w \in WithTops(v, ins.params)}

-----------------------------------------------------------------------------
(* One rule per instruction *)

IfRule(v, ins) == UNION {OpenFrame(Truncate(w, w.height - 1), ins)
                           : w \in {u \in Ensure(v, 1 + Len(ins.params)) : Tops(u, <<"i32">>)}}

TryTableRule(v, ins) ==
  IF \A i \in DOMAIN ins.catches : CatchOK(v, ins.catches[i]) THEN OpenFrame(v, ins) ELSE {}

\* Mutant: the else arm of an if stays as unreachable as its then arm became.
ElseArmStaysDead(v, f) ==
  [Truncate(v, f.entry + Len(f.params)) EXCEPT !.inits = f.inits, !.ctrl[Len(v.ctrl)].sawElse = TRUE]

\* The state in which the else arm starts. The parameters' slots keep the types
\* the then arm left there.
ElseArm(v, f) ==
  [Truncate(v, f.entry + Len(f.params)) EXCEPT
     !.inits = f.inits,
     !.ctrl[Len(v.ctrl)].sawElse = TRUE,
     !.ctrl[Len(v.ctrl)].dead = f.enteredDead]

ElseRule(v) ==
  IF v.ctrl = << >> THEN {}
  ELSE LET f == TopFrame(v)
       IN  IF f.kind # "if" \/ f.sawElse \/ ~FrameResult(v, f) THEN {} ELSE {ElseArm(v, f)}

\* Mutant: an if may always do without an else.
NeedsElseNever(f) == FALSE

\* Without an else, parameters must do for results.
NeedsElse(f) ==
  /\ f.kind = "if" /\ ~f.sawElse
  /\ f.results # << >> /\ f.params # f.results
  /\ ~f.enteredDead

EndRule(v) ==
  IF v.ctrl = << >> THEN {[v EXCEPT !.closed = TRUE]}
  ELSE LET f == TopFrame(v)
       IN  IF ~FrameResult(v, f) \/ NeedsElse(f) THEN {}
           ELSE {Push(Truncate([v EXCEPT !.ctrl = Front(@), !.inits = f.inits], f.entry), f.results)}

BrRule(v, depth) == {MarkDead(w) : w \in BranchTarget(v, depth)}

BrIfRule(v, depth) ==
  UNION {{Retype(u, LabelTypes(FrameAt(u, depth))) : u \in BranchTarget(w, depth)}
           : w \in Pop(v, <<"i32">>)}

BrTableRule(v, depths) ==
  LET types(d) == LabelTypes(FrameAt(v, d))
      fits(w, d) == /\ d < Len(w.ctrl)
                    /\ Len(types(d)) = Len(types(depths[1]))
                    /\ Tops(w, types(d))
  IN  UNION {{MarkDead(u) : u \in {x \in BranchTarget(w, depths[1]) :
                                     \A i \in DOMAIN depths : fits(x, depths[i])}}
               : w \in Pop(v, <<"i32">>)}

\* The top operand as the reference it must be, proved not to be null.
IsRef(type) == type \in RefTypes \cup {Unknown}
NonNull(type) == IF type = "exnref" THEN "exn" ELSE type
TopRef(v) == {w \in Ensure(v, 1) : IsRef(w.slots[w.height])}

\* The reference stays on the stack of the fall-through, the label's operands
\* lie under it.
BrOnNullRule(v, depth) ==
  UNION {LET ref == w.slots[w.height]
             types == LabelTypes(FrameAt(w, depth))
             under == {Truncate(u, u.height - 1) : u \in Ensure(w, Len(types) + 1)}
         IN  {Push(Retype(u, types), <<NonNull(ref)>>) : u \in {x \in under : Tops(x, types)}}
           : w \in {x \in TopRef(v) : depth < Len(x.ctrl)}}

\* The reference is the last operand of the label, and gone from the fall-through.
BrOnNonNullRule(v, depth) ==
  UNION {LET ref == w.slots[w.height]
             types == LabelTypes(FrameAt(w, depth))
             under == {Truncate(u, u.height - 1) : u \in Ensure(w, Len(types))}
         IN  IF types = << >> \/ ~Matches(NonNull(ref), Last(types)) THEN {}
             ELSE {Retype(u, Front(types)) : u \in {x \in under : Tops(x, Front(types))}}
           : w \in {x \in TopRef(v) : depth < Len(x.ctrl)}}

RefAsNonNullRule(v) == {Retype(w, <<NonNull(w.slots[w.height])>>) : w \in TopRef(v)}

AllLocals == ParamTypes \o LocalTypes

LocalGetRule(v, i) == IF i \in v.inits THEN {Push(v, <<AllLocals[i]>>)} ELSE {}

\* local.set pops the value, local.tee leaves it with the local's type.
LocalSetRule(v, i, keep) ==
  IF i \notin DOMAIN AllLocals THEN {} ELSE
  {[(IF keep THEN Retype(w, <<AllLocals[i]>>) ELSE Truncate(w, w.height - 1))
      EXCEPT !.inits = @ \cup {i}] : w \in WithTops(v, <<AllLocals[i]>>)}

SelectRule(v) ==
  LET join(a, b) == IF a = Unknown THEN b ELSE a
      same(a, b) == a = Unknown \/ b = Unknown \/ a = b
  IN  UNION {LET a == w.slots[w.height - 1]
                 b == w.slots[w.height]
             IN  IF same(a, b) /\ {a, b} \cap RefTypes = {}
                 THEN {Push(Truncate(w, w.height - 2), <<join(a, b)>>)} ELSE {}
               : w \in {Truncate(u, u.height - 1) : u \in {x \in Ensure(v, 3) : Tops(x, <<"i32">>)}}}

ReturnCallRule(v, f) ==
  IF /\ Len(f.results) = Len(ResultTypes)
     /\ \A i \in DOMAIN f.results : Matches(f.results[i], ResultTypes[i])
  THEN {MarkDead(w) : w \in WithTops(v, f.params)} ELSE {}

ConstRule(v, type) == {Push(v, <<type>>)}
DropRule(v) == {Truncate(w, w.height - 1) : w \in Ensure(v, 1)}
ReturnRule(v) == {MarkDead(w) : w \in WithTops(v, ResultTypes)}
CallRule(v, f) == {Push(w, f.results) : w \in Pop(v, f.params)}
ThrowRule(v, tag) == {MarkDead(w) : w \in Pop(v, TagParams[tag])}
ThrowRefRule(v) == {MarkDead(w) : w \in Pop(v, <<"exnref">>)}

Rule(v, ins) ==
  IF v.closed THEN {}
  ELSE CASE ins.op = "const" -> ConstRule(v, ins.type)
         [] ins.op = "drop" -> DropRule(v)
         [] ins.op = "select" -> SelectRule(v)
         [] ins.op \in {"block", "loop"} -> OpenFrame(v, ins)
         [] ins.op = "if" -> IfRule(v, ins)
         [] ins.op = "try_table" -> TryTableRule(v, ins)
         [] ins.op = "else" -> ElseRule(v)
         [] ins.op = "end" -> EndRule(v)
         [] ins.op = "br" -> BrRule(v, ins.depth)
         [] ins.op = "br_if" -> BrIfRule(v, ins.depth)
         [] ins.op = "br_table" -> BrTableRule(v, ins.depths)
         [] ins.op = "br_on_null" -> BrOnNullRule(v, ins.depth)
         [] ins.op = "br_on_non_null" -> BrOnNonNullRule(v, ins.depth)
         [] ins.op = "ref.as_non_null" -> RefAsNonNullRule(v)
         [] ins.op = "local.get" -> LocalGetRule(v, ins.index)
         [] ins.op = "local.set" -> LocalSetRule(v, ins.index, FALSE)
         [] ins.op = "local.tee" -> LocalSetRule(v, ins.index, TRUE)
         [] ins.op = "return" -> ReturnRule(v)
         [] ins.op = "unreachable" -> {MarkDead(v)}
         [] ins.op = "call" -> CallRule(v, Funcs[ins.func])
         [] ins.op = "return_call" -> ReturnCallRule(v, Funcs[ins.func])
         [] ins.op = "throw" -> ThrowRule(v, ins.tag)
         [] ins.op = "throw_ref" -> ThrowRefRule(v)
         [] OTHER -> {}

-----------------------------------------------------------------------------
(* The pass *)

\* Parameters and locals of a type with a default start initialized.
InitiallySet == {i \in DOMAIN AllLocals : i <= Len(ParamTypes) \/ AllLocals[i] # "exn"}

Start == [slots |-> << >>, height |-> 0, closed |-> FALSE, inits |-> InitiallySet,
          ctrl |-> <<Frame("block", 0, << >>, ResultTypes, InitiallySet, FALSE)>>]

ValidateInit ==
  /\ body = << >>
  /\ val = Start
  /\ typing = << >>
  /\ verdict = "open"

\* The next instruction of the body is accepted. The bound leaves room for the
\* ends that close the open frames.
Accept(ins, bound) ==
  /\ verdict = "open"
  /\ \E w \in Rule(val, ins) :
       /\ Len(body) + 1 + Len(w.ctrl) <= bound
       /\ val' = w
  /\ body' = Append(body, ins)
  /\ typing' = Append(typing, val)
  /\ UNCHANGED verdict

\* A diagnostic: ValidateModule returns an error and nothing else of the body
\* matters, so all rejections lead to one state.
Reject(ins) ==
  /\ verdict = "open"
  /\ Rule(val, ins) = {}
  /\ verdict' = "rejected"
  /\ body' = << >>
  /\ typing' = << >>
  /\ val' = Start

\* The loop over the body is over: every frame is closed and the operands left
\* are the results.
Finish ==
  /\ verdict = "open"
  /\ body # << >> /\ Last(body).op = "end"
  /\ val.ctrl = << >>
  /\ val.height = Len(ResultTypes) /\ Tops(val, ResultTypes)
  /\ verdict' = "valid"
  /\ UNCHANGED <<body, val, typing>>
=============================================================================
