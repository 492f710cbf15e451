------------------------------- MODULE Compile -------------------------------
(***************************************************************************)
(* internal/vm/compile.go: a validated body becomes the linear form the    *)
(* executor runs. analyzeControl matches openers with their else and end;  *)
(* compileFunction resolves label depths to program counters. Program      *)
(* counters start at 1; a target is the counter BEFORE the instruction     *)
(* that runs next, as in the code, whose loop adds one.                    *)
(***************************************************************************)
EXTENDS Wasmir, SequencesExt

\* The Go maps and stacks of analyzeControl, after some prefix of the body.
NoControl == [stack |-> << >>, elses |-> << >>, labels |-> << >>, ok |-> TRUE]

\* Mutant: a branch to a block starts the block again.
LabelTargetAgain(loop, start, pc) == start

\* Where a branch to a label continues: at the loop, or at the matching end.
LabelTarget(loop, start, pc) == IF loop THEN start ELSE pc

\* controlLabel, with the arities setControlLabelSignature adds.
Label(body, start, elses, pc) ==
  LET ins == body[start]
      loop == ins.op = "loop"
  IN  [end |-> pc,
       target |-> LabelTarget(loop, start, pc),
       else |-> IF start \in DOMAIN elses THEN elses[start] ELSE 0,
       params |-> Len(ins.params),
       results |-> Len(ins.results),
       branch |-> Len(IF loop THEN ins.params ELSE ins.results),
       isLoop |-> loop]

\* m[x] = y on a Go map.
Put(m, x, y) == [z \in DOMAIN m \cup {x} |-> IF z = x THEN y ELSE m[z]]

\* One turn of analyzeControl's loop.
Scan(body, c, pc) ==
  LET ins == body[pc]
  IN  CASE ins.op \in Openers -> [c EXCEPT !.stack = Append(@, pc)]
        [] ins.op = "else" ->
             IF c.stack # << >> /\ body[Last(c.stack)].op = "if"
             THEN [c EXCEPT !.elses = Put(@, Last(c.stack), pc)]
             ELSE [c EXCEPT !.ok = FALSE]
        [] ins.op = "end" /\ c.stack # << >> ->
             [c EXCEPT !.stack = Front(@),
                       !.labels = Put(@, Last(c.stack), Label(body, Last(c.stack), c.elses, pc))]
        [] OTHER -> c

\* Its maps and stacks after each prefix of the body.
Controls(body) ==
  LET f[k \in 0 .. Len(body)] == IF k = 0 THEN NoControl ELSE Scan(body, f[k - 1], k)
  IN  f

AnalyzeControl(body) ==
  LET c == Controls(body)[Len(body)]
  IN  [labels |-> c.labels, ok |-> c.ok /\ c.stack = << >>]

\* Mutant: the label of the function is taken to be out of range.
BranchTargetOfBlocks(depth, open, labels, finalEnd) ==
  [depth |-> depth,
   pc |-> IF depth >= Len(open) THEN -1 ELSE labels[open[Len(open) - depth]].target]

\* compileBranchTarget: pc and depth, or pc = -1 where the code fails. The
\* label of the function itself continues at the final end.
BranchTargetOf(depth, open, labels, finalEnd) ==
  [depth |-> depth,
   pc |-> CASE depth > Len(open) -> -1
            [] depth = Len(open) -> finalEnd - 1
            [] OTHER -> labels[open[Len(open) - depth]].target]

\* setControlLabelCatches, called before the try_table's own label is pushed.
Catches(ins, open, labels, finalEnd) ==
  [i \in DOMAIN ins.catches |->
     [kind |-> ins.catches[i].kind, tag |-> ins.catches[i].tag,
      target |-> BranchTargetOf(ins.catches[i].depth, open, labels, finalEnd)]]

\* The compiled instruction at pc: the source instruction with its resolved
\* targets and, for an opener, its label.
Compiled(body, pc, open, labels) ==
  LET ins == body[pc]
      finalEnd == Len(body)
      to(d) == BranchTargetOf(d, open, labels, finalEnd)
  IN  CASE ins.op = "try_table" ->
             [op |-> ins.op, label |-> labels[pc], catches |-> Catches(ins, open, labels, finalEnd)]
        [] ins.op \in {"block", "loop"} ->
             [op |-> ins.op, label |-> labels[pc], catches |-> << >>]
        [] ins.op = "if" ->
             [op |-> ins.op, label |-> labels[pc], catches |-> << >>,
              target |-> IF labels[pc].else # 0 THEN labels[pc].else ELSE labels[pc].end]
        [] ins.op = "else" -> [op |-> ins.op, target |-> labels[Last(open)].end]
        [] ins.op \in Branches -> [op |-> ins.op, targets |-> <<to(ins.depth)>>]
        [] ins.op = "br_table" ->
             [op |-> ins.op, targets |-> [i \in DOMAIN ins.depths |-> to(ins.depths[i])]]
        [] OTHER -> ins

\* Why an instruction does not compile.
CompileError(body, pc, open, labels) ==
  LET ins == body[pc]
      c == Compiled(body, pc, open, labels)
  IN  CASE ins.op = "else" -> open = << >> \/ labels[Last(open)].else # pc
        [] ins.op = "end" -> open = << >> /\ pc # Len(body)
        [] ins.op \in Branches \cup {"br_table"} ->
             \E i \in DOMAIN c.targets : c.targets[i].pc = -1
        [] ins.op = "try_table" -> \E i \in DOMAIN c.catches : c.catches[i].target.pc = -1
        [] OTHER -> FALSE

\* compileFunction's own labelStack after the instruction at pc.
OpenAfter(body, pc, open, labels) ==
  CASE body[pc].op \in Openers -> Append(open, pc)
    [] body[pc].op = "end" /\ open # << >> /\ labels[Last(open)].end = pc -> Front(open)
    [] OTHER -> open

\* One turn of compileFunction's loop: s holds its labelStack and the code so far.
CompileOne(body, s, pc, labels) ==
  IF ~s.ok \/ CompileError(body, pc, s.open, labels)
  THEN [s EXCEPT !.ok = FALSE]
  ELSE [s EXCEPT !.open = OpenAfter(body, pc, @, labels),
                 !.code = Append(@, Compiled(body, pc, s.open, labels))]

Emitted(body, ctrl) ==
  LET f[k \in 0 .. Len(body)] ==
        IF k = 0 THEN [ok |-> ctrl.ok, open |-> << >>, code |-> << >>]
        ELSE CompileOne(body, f[k - 1], k, ctrl.labels)
  IN  f

CompileFunction(body) ==
  LET s == Emitted(body, AnalyzeControl(body))[Len(body)]
  IN  IF s.ok /\ s.open = << >> THEN [ok |-> TRUE, code |-> s.code]
                                ELSE [ok |-> FALSE, code |-> << >>]
=============================================================================
