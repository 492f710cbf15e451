----------------------------- MODULE Soundness -----------------------------
(***************************************************************************)
(* Why a validated body is safe to run: the inductive invariant of         *)
(* Pipeline. It has three parts. Typed says what the validation states     *)
(* before the instructions of a body have to do with each other; Resolved  *)
(* says that the labels and targets of compiled code are the frames of the *)
(* validator; Fits says that a running frame is an instance of the         *)
(* validation state at its program counter.                                *)
(*                                                                         *)
(* b is a body and h[p] the validation state before its instruction p, so  *)
(* h has one state more than b has instructions.                           *)
(***************************************************************************)
EXTENDS Pipeline

Instrs == UNION DOMAIN Alphabets

\* An else gives its arm the slots as the then arm left them. They are as the
\* arm is run with them if they hold the types of the parameters.
Honest(v) ==
  LET f == TopFrame(v)
  IN  f.enteredDead \/ \A k \in DOMAIN f.params : Matches(f.params[k], v.slots[f.entry + k])

\* So much must be asked of a body for validation to promise anything. One that
\* goes on after the end of its function frame is never run.
ElseHonest == ~GoesOn => \A p \in DOMAIN body : body[p].op = "else" => Honest(typing[p])

\* It can be had by leaving out parameters of an if that may have an else.
ElseSafe(instrs) ==
  (\E ins \in instrs : ins.op = "else") => \A ins \in instrs : ins.op = "if" => ins.params = << >>

\* What the code as it is can promise without a look at the body.
Promise == \A A \in DOMAIN Alphabets : ElseSafe(A)

-----------------------------------------------------------------------------
(* One validation state *)

Slots == ValueTypes \cup {Unknown}

Frames == [kind : Openers, entry : Nat, params : Seq(ValueTypes), results : Seq(ValueTypes),
           inits : SUBSET DOMAIN AllLocals, sawElse : BOOLEAN, enteredDead : BOOLEAN, dead : BOOLEAN]

States == [slots : Seq(Slots), height : Nat, closed : {FALSE},
           inits : SUBSET DOMAIN AllLocals, ctrl : Seq(Frames)]

IsLive(v) == v.ctrl # << >> /\ ~TopFrame(v).dead

\* The operands up to n have types, none was made up for code that never runs.
Known(v, n) == \A k \in 1 .. n : v.slots[k] # Unknown

\* Frames lie on top of each other, what an outer one has an inner one has too,
\* and the inner frames of dead code are dead.
Nested(v) ==
  /\ v.height <= Len(v.slots)
  /\ \A i \in DOMAIN v.ctrl : /\ v.ctrl[i].entry <= v.height
                              /\ v.ctrl[i].entry + Len(v.ctrl[i].params) <= Len(v.slots)
                              /\ v.ctrl[i].inits \subseteq v.inits
                              /\ v.ctrl[i].enteredDead => v.ctrl[i].dead
  /\ \A i, j \in DOMAIN v.ctrl : i < j => /\ v.ctrl[i].entry <= v.ctrl[j].entry
                                          /\ v.ctrl[i].inits \subseteq v.ctrl[j].inits
                                          /\ v.ctrl[i].dead => v.ctrl[j].enteredDead
  /\ \A i \in 2 .. Len(v.ctrl) : v.ctrl[i].enteredDead => v.ctrl[i - 1].dead

\* The outermost frame is the function's own.
Rooted(v) ==
  v.ctrl # << >> =>
    LET f == v.ctrl[1]
    IN  f.kind = "block" /\ f.entry = 0 /\ f.params = << >> /\ f.results = ResultTypes /\ ~f.enteredDead

\* Made-up operands belong to frames that are dead.
Grounded(v) ==
  /\ \A i \in DOMAIN v.ctrl : ~v.ctrl[i].enteredDead => Known(v, v.ctrl[i].entry)
  /\ IsLive(v) => Known(v, v.height)

Good(v) == v \in States /\ Nested(v) /\ Rooted(v) /\ Grounded(v)

-----------------------------------------------------------------------------
(* Two validation states *)

\* f and g are one frame, before and after some of its instructions.
SameFrame(f, g) ==
  /\ g.kind = f.kind /\ g.entry = f.entry /\ g.params = f.params /\ g.results = f.results
  /\ g.inits = f.inits /\ g.enteredDead = f.enteredDead
  /\ f.sawElse => g.sawElse

\* From v to w frame i stayed open: the operands under it and the frames around
\* it are as they were.
Same(v, w, i) ==
  /\ i \in DOMAIN v.ctrl /\ i \in DOMAIN w.ctrl
  /\ \A j \in 1 .. i - 1 : w.ctrl[j] = v.ctrl[j]
  /\ SameFrame(v.ctrl[i], w.ctrl[i])
  /\ \A k \in 1 .. v.ctrl[i].entry : w.slots[k] = v.slots[k]

\* Frame i is open in all states from p to q.
Spans(h, p, q, i) == \A r \in p .. q : Len(h[r].ctrl) >= i

\* Frame i of h[p] was opened by the instruction at s.
OpensAt(b, h, p, i, s) ==
  /\ s \in 1 .. p - 1 /\ b[s].op \in Openers
  /\ Len(h[s].ctrl) = i - 1
  /\ Spans(h, s + 1, p, i)

\* The frame that the instruction at s opens ends at e.
EndsAt(b, h, s, e) ==
  /\ e \in DOMAIN b /\ b[e].op = "end"
  /\ OpensAt(b, h, e, Len(h[s].ctrl) + 1, s)
  /\ Len(h[e + 1].ctrl) = Len(h[s].ctrl)

\* The else of the if at s is at q.
ElseAt(b, h, s, q) ==
  /\ q \in DOMAIN b /\ b[q].op = "else"
  /\ Len(h[q].ctrl) = Len(h[s].ctrl) + 1
  /\ OpensAt(b, h, q, Len(h[q].ctrl), s)

\* Frame f is the one the instruction ins opens.
FrameOf(f, ins) == f.kind = ins.op /\ f.params = ins.params /\ f.results = ins.results

Typed(b, h) ==
  /\ b \in Seq(Instrs) /\ Len(h) = Len(b) + 1 /\ h \in Seq(States)
  /\ \A p \in DOMAIN b : b[p].op = "else" => Honest(h[p])
  /\ h[1] = Start
  /\ \A p \in DOMAIN h : Good(h[p])
  /\ \A p \in DOMAIN b : h[p].ctrl # << >> /\ h[p + 1] \in Rule(h[p], b[p])
  /\ \A p \in DOMAIN h : \A i \in 2 .. Len(h[p].ctrl) :
       \E s \in 1 .. p - 1 : OpensAt(b, h, p, i, s) /\ FrameOf(h[p].ctrl[i], b[s])
  /\ \A p, q \in DOMAIN h : \A i \in DOMAIN h[p].ctrl :
       p <= q /\ Spans(h, p, q, i) => Same(h[p], h[q], i)
  /\ \A p \in DOMAIN h : \A i \in 2 .. Len(h[p].ctrl) : \A s \in 1 .. p - 1 :
       OpensAt(b, h, p, i, s) /\ h[p].ctrl[i].sawElse => \E q \in s + 1 .. p - 1 : ElseAt(b, h, s, q)

-----------------------------------------------------------------------------
(* Compiled code *)

\* A branch in h[p] to frame i that is resolved to x continues where it should.
Lands(b, h, p, i, x) ==
  \/ i = 1 /\ x = Len(b) - 1
  \/ i > 1 /\ \E s \in 1 .. p - 1 :
       OpensAt(b, h, p, i, s) /\ IF b[s].op = "loop" THEN x = s ELSE EndsAt(b, h, s, x)

TargetOK(b, h, p, depth, t) ==
  /\ t.depth = depth /\ depth < Len(h[p].ctrl)
  /\ Lands(b, h, p, Len(h[p].ctrl) - depth, t.pc)

\* The label of the opener at s has its else, its end and its arities.
LabelOK(b, h, s, l) ==
  /\ EndsAt(b, h, s, l.end)
  /\ IF l.else = 0 THEN \A q \in DOMAIN b : ~ElseAt(b, h, s, q) ELSE ElseAt(b, h, s, l.else)
  /\ l.target = (IF b[s].op = "loop" THEN s ELSE l.end)
  /\ l.params = Len(b[s].params) /\ l.results = Len(b[s].results)
  /\ l.branch = Len(IF b[s].op = "loop" THEN b[s].params ELSE b[s].results)
  /\ l.isLoop = (b[s].op = "loop")

CatchesOK(b, h, p, catches) ==
  /\ DOMAIN catches = DOMAIN b[p].catches
  /\ \A i \in DOMAIN catches :
       /\ catches[i].kind = b[p].catches[i].kind /\ catches[i].tag = b[p].catches[i].tag
       /\ TargetOK(b, h, p, b[p].catches[i].depth, catches[i].target)

\* The compiled instruction at p is the one the validator saw.
ResolvedAt(b, h, p, c) ==
  /\ c.op = b[p].op
  /\ c.op \in Openers => LabelOK(b, h, p, c.label)
  /\ c.op \in Openers => IF c.op = "try_table" THEN CatchesOK(b, h, p, c.catches) ELSE c.catches = << >>
  /\ c.op = "if" => c.target = (IF c.label.else # 0 THEN c.label.else ELSE c.label.end)
  /\ c.op = "else" => \E s \in 1 .. p - 1 : ElseAt(b, h, s, p) /\ EndsAt(b, h, s, c.target)
  /\ c.op \in Branches => TargetOK(b, h, p, b[p].depth, c.targets[1])
  /\ c.op = "br_table" => /\ DOMAIN c.targets = DOMAIN b[p].depths
                          /\ \A i \in DOMAIN c.targets : TargetOK(b, h, p, b[p].depths[i], c.targets[i])
  /\ c.op \notin Openers \cup {"else"} \cup Branches \cup {"br_table"} => c = b[p]

Resolved(b, h, c) ==
  Len(c) = Len(b) /\ DOMAIN c = DOMAIN b /\ \A p \in DOMAIN b : ResolvedAt(b, h, p, c[p])

-----------------------------------------------------------------------------
(* A running frame *)

\* The operands s have the height and the types of v.
Agrees(s, v) == s \in Seq(Values) /\ Len(s) = v.height /\ \A k \in DOMAIN s : s[k] \in ValuesOf(v.slots[k])

\* Locals have the kind of value of their type, and those known to be set have
\* a value of it.
LocalsFit(ls, inits) ==
  /\ DOMAIN ls = DOMAIN AllLocals
  /\ \A i \in DOMAIN ls : IF AllLocals[i] \in RefTypes THEN ls[i] \in Refs ELSE ls[i] = AllLocals[i]
  /\ \A i \in inits : ls[i] \in ValuesOf(AllLocals[i])

\* Run-time label l is frame i of h[p].
LabelFits(b, h, c, p, i, l) ==
  LET f == h[p].ctrl[i]
  IN  IF i = 1 THEN l = FunctionLabel
      ELSE \E s \in 1 .. p - 1 :
             /\ OpensAt(b, h, p, i, s)
             /\ l = [height |-> f.entry, results |-> Len(f.results), branch |-> Len(LabelTypes(f)),
                     isLoop |-> f.kind = "loop", catches |-> c[s].catches]

Inner(b, h, c, p, s, ls, lbs) ==
  /\ IsLive(h[p])
  /\ Agrees(s, h[p])
  /\ LocalsFit(ls, h[p].inits)
  /\ lbs \in Seq(UNION {{lbs[i]} : i \in DOMAIN lbs}) /\ Len(lbs) = Len(h[p].ctrl)
  /\ \A i \in DOMAIN lbs : LabelFits(b, h, c, p, i, lbs[i])

\* The final end is also where branches to the function's label arrive, whatever
\* the validator thinks of the code before it.
Outermost(s, lbs) == s \in Tuples(ResultTypes) /\ lbs = <<FunctionLabel>>

Fits(b, h, c, p, s, ls, lbs) ==
  /\ p \in DOMAIN b
  /\ IF p = Len(b) THEN Outermost(s, lbs) ELSE Inner(b, h, c, p, s, ls, lbs)

-----------------------------------------------------------------------------

\* val before each instruction, and after the last one.
History == Append(typing, val)

OneAlphabet == body = << >> \/ \E A \in DOMAIN Alphabets : Range(body) \subseteq A

Validated ==
  /\ OneAlphabet /\ typing \in Seq(States) /\ Typed(body, History)
  /\ verdict = "valid" => body # << >> /\ Last(body).op = "end" /\ val.ctrl = << >>

\* The function frame was closed at n and the body went on.
Part(s, n) == [k \in 1 .. n |-> s[k]]
ClosedAt(n) == Typed(Part(body, n), Part(typing, n + 1)) /\ typing[n + 1].ctrl = << >>

Overran ==
  /\ body \in Seq(Instrs) /\ typing \in Seq(Range(typing)) /\ Len(typing) = Len(body)
  /\ \E n \in 1 .. Len(body) - 1 : ClosedAt(n)

Checked == IF GoesOn THEN Overran ELSE Validated

Ran == {"running", "returned", "tail", "trap", "thrown"}

IInv ==
  /\ Checked
  /\ status \in {"idle", "uncompiled"} \cup Ran
  /\ status # "idle" => verdict = "valid" /\ (status = "uncompiled" <=> GoesOn)
  /\ status = "running" => /\ Resolved(body, History, code)
                           /\ Fits(body, History, code, pc, stack, locals, labels)
=============================================================================
