----------------------------- MODULE Structured -----------------------------
(***************************************************************************)
(* What structured control promises, in the terms of the WebAssembly       *)
(* semantics and with no flat stack: every label is a context with values  *)
(* of its own. An instruction sees only the innermost context; a label is  *)
(* left by moving exactly its results to the context around it; a branch   *)
(* carries the target's operands out of the innermost context and all      *)
(* values of the contexts it leaves are gone. Nothing goes wrong: there is *)
(* no action that fails.                                                   *)
(***************************************************************************)
EXTENDS Integers, Sequences

CONSTANTS
  Values,     \* the values operands can have
  MaxArity    \* the largest number of operands an instruction takes or leaves

VARIABLES
  mode,       \* "idle", "running" or "done"
  operands,   \* the values of each context, innermost last
  shapes      \* of each label: <<result arity, branch arity, is it a loop?>>

structuredVars == <<mode, operands, shapes>>

Depth == Len(operands)
Arity == 0 .. MaxArity
Pieces == UNION {[1 .. n -> Values] : n \in Arity}
First(s, n) == SubSeq(s, 1, n)
Final(s, n) == SubSeq(s, Len(s) - n + 1, Len(s))
Vals == operands[Depth]

\* The contexts cs with vs for the values of the innermost one.
With(cs, vs) == Append(First(cs, Len(cs) - 1), vs)

Init == mode = "idle" /\ operands = << >> /\ shapes = << >>

Start ==
  /\ mode = "idle" /\ mode' = "running"
  /\ operands' = << << >> >>
  /\ Len(shapes') = 1

\* An instruction takes at most MaxArity operands of the innermost context, all
\* but the first kept ones, and leaves at most MaxArity in their place.
Compute ==
  /\ UNCHANGED <<mode, shapes>>
  /\ \E kept \in 0 .. Len(Vals) :
       LET made == SubSeq(operands'[Depth], kept + 1, Len(operands'[Depth]))
       IN  /\ Len(Vals) - kept \in Arity /\ made \in Pieces
           /\ operands' = With(operands, First(Vals, kept) \o made)

\* A label is entered: its parameters move in, perhaps after a condition.
Enter ==
  /\ mode' = mode
  /\ Len(shapes') = Depth + 1 /\ First(shapes', Depth) = shapes
  /\ \E cond \in {0, 1}, params \in Arity :
       LET n == Len(Vals) - cond
       IN  /\ params <= n
           /\ operands' = Append(With(operands, First(Vals, n - params)),
                                 Final(First(Vals, n), params))

\* A label is left at its end, holding its results and nothing else.
Exit ==
  /\ mode' = mode
  /\ Depth > 1
  /\ Len(Vals) = shapes[Depth][1]
  /\ operands' = With(First(operands, Depth - 1), operands[Depth - 1] \o Vals)
  /\ shapes' = First(shapes, Depth - 1)

\* Control goes to the label of the context at index with the operands vs. A
\* loop starts again in a context of its own; so does the end of the function.
Unwind(index, vs) ==
  /\ mode' = mode
  /\ Len(vs) = shapes[index][2]
  /\ IF shapes[index][3] \/ index = 1
     THEN /\ operands' = With(First(operands, index), vs)
          /\ shapes' = First(shapes, index)
     ELSE /\ operands' = With(First(operands, index - 1), operands[index - 1] \o vs)
          /\ shapes' = First(shapes, index - 1)

Branch ==
  \E index \in 1 .. Depth, cond \in {0, 1} :
    /\ shapes[index][2] + cond <= Len(Vals)
    /\ Unwind(index, Final(First(Vals, Len(Vals) - cond), shapes[index][2]))

\* A handler receives the exception's values and nothing from the stack.
Caught == \E index \in 1 .. Depth : \E vs \in [1 .. shapes[index][2] -> Values] : Unwind(index, vs)

Stop == mode' = "done" /\ operands' = << >> /\ shapes' = << >>

Next == Start \/ (mode = "running" /\ (Compute \/ Enter \/ Exit \/ Stop \/ Branch \/ Caught))

Spec == Init /\ [][Next]_structuredVars
=============================================================================
