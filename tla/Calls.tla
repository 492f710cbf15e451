-------------------------------- MODULE Calls --------------------------------
(***************************************************************************)
(* Calls between instances and the host: the Go call stack that CallFunc,  *)
(* the executor and host callbacks build up, the call depth each instance  *)
(* counts, how results, traps and exceptions travel down the stack, and    *)
(* the exceptions each instance keeps for its exception references.        *)
(*                                                                         *)
(* What a function does is left open: whenever it runs it may call         *)
(* anything it can reach, return, throw or trap. Instances are live.       *)
(* Arguments and results are abstracted to the exception references among  *)
(* them, at most one at a time.                                            *)
(***************************************************************************)
EXTENDS Integers, Sequences, FiniteSets

CONSTANTS
  Insts,       \* identities of instances
  Host,        \* the host program
  Exns,        \* identities of exceptions: a tag and a payload
  None,        \* no exception
  MaxDepth,    \* maxCallDepth
  MaxExns,     \* bound: exceptions an instance keeps
  SharesRefs,  \* do exception references pass from one instance to another?
  Panics       \* may a host callback panic, and a host further down recover?

VARIABLES
  stack,       \* the Go call stack, the activation that runs last
  depth,       \* [Insts -> Nat], Instance.callDepth
  exns,        \* [Insts -> Seq(Exns)], Instance.exns; an id is an index
  signal       \* what travels down the stack, or "none"

vars == <<stack, depth, exns, signal>>

ASSUME CallsAssumption ==
  /\ IsFiniteSet(Insts) /\ Host \notin Insts /\ None \notin Exns
  /\ MaxDepth \in Nat \ {0} /\ MaxExns \in Nat
  /\ {SharesRefs, Panics} \subseteq BOOLEAN

\* An exception reference: an index into one instance's exceptions. of is
\* history: the exception it was made for.
ExnRefs == [id : Nat \ {0}, of : Exns]

\* An activation: a host program or callback, CallFunc on an imported function
\* ("import"), or an executor frame ("wasm"), which CallFunc has entered. It
\* runs, or waits for a call, or for a tail call whose results it returns.
Activations ==
  [kind : {"host", "import", "wasm"}, inst : Insts \cup {Host},
   waits : {"no", "call", "tail"}, refs : SUBSET ExnRefs]

Activation(kind, inst, refs) == [kind |-> kind, inst |-> inst, waits |-> "no", refs |-> refs]

Quiet == [kind |-> "none", exn |-> None, refs |-> {}]
Trap == [kind |-> "trap", exn |-> None, refs |-> {}]
Exception(e) == [kind |-> "exn", exn |-> e, refs |-> {}]
Return(refs) == [kind |-> "return", exn |-> None, refs |-> refs]

Signals ==
  [kind : {"none", "trap"}, exn : {None}, refs : {{}}] \cup [kind : {"exn"}, exn : Exns, refs : {{}}]
    \cup [kind : {"return"}, exn : {None}, refs : SUBSET ExnRefs]

-----------------------------------------------------------------------------
(* The stack *)

Top == stack[Len(stack)]
Callers == SubSeq(stack, 1, Len(stack) - 1)
Caller == stack[Len(stack) - 1]
Runs(kind) == signal = Quiet /\ Top.kind = kind /\ Top.waits = "no"

\* The stack with its top activation waiting.
Waiting(how) == [stack EXCEPT ![Len(stack)].waits = how]

\* What an activation can pass on: nothing, or one of its references, which
\* crosses to another instance or the host only if modules share them.
Passed(a, to) == {{}} \cup (IF SharesRefs \/ a.inst = to THEN {{r} : r \in a.refs} ELSE {})

\* Of the references that come back from one instance, those that reach another.
Crossing(refs, from, to) == IF SharesRefs \/ from = to THEN refs ELSE {}

\* Mutants: a failed import gives its depth back twice, or not at all.
ExitTwice(a) ==
  IF a.kind = "host" THEN depth
  ELSE [depth EXCEPT ![a.inst] = @ - (IF a.kind = "import" /\ signal.kind = "trap" THEN 2 ELSE 1)]
ExitNotOnError(a) ==
  IF a.kind = "host" \/ (a.kind = "import" /\ signal.kind = "trap") THEN depth
  ELSE [depth EXCEPT ![a.inst] = @ - 1]

\* exitCall, for an activation that CallFunc has entered.
Exit(a) == IF a.kind = "host" THEN depth ELSE [depth EXCEPT ![a.inst] = @ - 1]

\* The top activation is left with sig.
Leave(sig) ==
  /\ stack' = Callers
  /\ depth' = Exit(Top)
  /\ signal' = sig
  /\ UNCHANGED exns

\* The top activation goes on, with refs in addition.
Resume(refs) ==
  /\ stack' = [stack EXCEPT ![Len(stack)].waits = "no", ![Len(stack)].refs = @ \cup refs]
  /\ signal' = Quiet
  /\ UNCHANGED depth

\* Mutant: the depth is compared after it has been counted.
MayEnterLate(i) == depth[i] <= MaxDepth

\* enterCall
MayEnter(i) == depth[i] < MaxDepth

\* CallFunc on instance i, whose caller is the top activation of s: the
\* function is imported or has code.
CallFunc(s, i, args) ==
  /\ UNCHANGED exns
  /\ IF ~MayEnter(i) THEN stack' = s /\ depth' = depth /\ signal' = Trap
     ELSE /\ \E kind \in {"import", "wasm"} : stack' = Append(s, Activation(kind, i, args))
          /\ depth' = [depth EXCEPT ![i] = @ + 1]
          /\ UNCHANGED signal

\* Resolver.CallFunc: an import is a Go callback or another module's export.
Resolve(s, a) ==
  \/ \E args \in Passed(a, Host) :
       /\ stack' = Append(s, Activation("host", Host, args))
       /\ UNCHANGED <<depth, exns, signal>>
  \/ \E j \in Insts : \E args \in Passed(a, j) : CallFunc(s, j, args)

-----------------------------------------------------------------------------
(* The host *)

\* Func.Call
HostCall == Runs("host") /\ \E i \in Insts : \E args \in Passed(Top, i) : CallFunc(Waiting("call"), i, args)

\* A callback returns, with results or an error (results of other types than its
\* signature's are one too). The program at the bottom of the stack runs on.
HostReturn ==
  /\ Runs("host") /\ Len(stack) > 1
  /\ \/ \E refs \in Passed(Top, Caller.inst) : Leave(Return(refs))
     \/ Leave(Trap)

\* A callback panics. Go unwinds to a host that recovers, and CallFunc, which
\* has no deferred call, gives nothing back.
HostPanic ==
  /\ Panics /\ Runs("host")
  /\ \E k \in 1 .. Len(stack) - 1 :
       /\ stack[k].kind = "host"
       /\ stack' = [SubSeq(stack, 1, k) EXCEPT ![k].waits = "no"]
  /\ UNCHANGED <<depth, exns, signal>>

-----------------------------------------------------------------------------
(* WebAssembly code *)

\* call, and call_indirect or call_ref to a function of any instance.
WasmCall == Runs("wasm") /\ \E i \in Insts : \E args \in Passed(Top, i) : CallFunc(Waiting("call"), i, args)

\* Mutant: a tail call waits for its callee like any call, but is not counted.
WasmTailOwnGrows ==
  /\ Runs("wasm")
  /\ \E args \in Passed(Top, Top.inst) : stack' = Append(Waiting("tail"), Activation("wasm", Top.inst, args))
  /\ UNCHANGED <<depth, exns, signal>>

\* tailCallFunction to a function with code: the frame becomes the callee's.
WasmTailOwn ==
  /\ Runs("wasm")
  /\ \E args \in Passed(Top, Top.inst) : stack' = Append(Callers, Activation("wasm", Top.inst, args))
  /\ UNCHANGED <<depth, exns, signal>>

\* tailCallFunction to an imported function, which calls the resolver directly.
WasmTailImport == Runs("wasm") /\ Resolve(Waiting("tail"), Top)

\* tailCallFunctionRef to a function of another instance.
WasmTailForeign ==
  /\ Runs("wasm")
  /\ \E i \in Insts \ {Top.inst} : \E args \in Passed(Top, i) : CallFunc(Waiting("tail"), i, args)

WasmReturn ==
  /\ Runs("wasm")
  /\ \E refs \in Passed(Top, Caller.inst) : Leave(Return(refs))

WasmTrap == Runs("wasm") /\ Leave(Trap)

\* Mutant: references are counted from the start again.
NewRefAgain(i, e) == {[id |-> 1, of |-> e]}

\* newExceptionRef
NewRef(i, e) == {[id |-> Len(exns[i]) + 1, of |-> e]}

\* handleException in the top frame: a clause without a reference, a clause
\* with one, or none that matches.
Handle(e) ==
  \/ Resume({}) /\ UNCHANGED exns
  \/ /\ Len(exns[Top.inst]) < MaxExns
     /\ Resume(NewRef(Top.inst, e))
     /\ exns' = [exns EXCEPT ![Top.inst] = Append(@, e)]
  \/ Leave(Exception(e))

WasmThrow == Runs("wasm") /\ \E e \in Exns : Handle(e)

\* exceptionFromRef: the number is looked up in the instance that throws.
WasmThrowRef ==
  /\ Runs("wasm")
  /\ \E r \in Top.refs :
       IF r.id \in DOMAIN exns[Top.inst] THEN Handle(exns[Top.inst][r.id]) ELSE Leave(Trap)

-----------------------------------------------------------------------------
(* What comes back *)

\* CallFunc goes on to call the resolver.
ImportCall == Runs("import") /\ Resolve(Waiting("call"), Top)

\* Mutant: a frame in a tail call gets its results as after any call.
TakesBackTail(a) == a.kind = "host" \/ (a.kind = "wasm" /\ a.waits # "no")

\* Does an activation go on when what it waits for has returned? CallFunc on an
\* import, and a frame in a tail call, hand the results on.
TakesBack(a) == a.kind = "host" \/ (a.kind = "wasm" /\ a.waits = "call")

Returned ==
  /\ signal.kind = "return"
  /\ IF TakesBack(Top) THEN Resume(signal.refs) /\ UNCHANGED exns
     ELSE Leave(Return(Crossing(signal.refs, Top.inst, Caller.inst)))

\* An error, which a host may keep to itself or hand on.
Failed ==
  /\ signal.kind \in {"trap", "exn"}
  /\ \/ Top.kind = "host" /\ Resume({}) /\ UNCHANGED exns
     \/ Top.kind = "host" /\ Len(stack) > 1 /\ Leave(signal)
     \/ Top.kind = "import" /\ Leave(signal)
     \/ Top.kind = "wasm" /\ (Top.waits = "tail" \/ signal.kind = "trap") /\ Leave(signal)
     \/ Top.kind = "wasm" /\ Top.waits = "call" /\ signal.kind = "exn" /\ Handle(signal.exn)

-----------------------------------------------------------------------------

Init ==
  /\ stack = <<Activation("host", Host, {})>>
  /\ depth = [i \in Insts |-> 0]
  /\ exns = [i \in Insts |-> << >>]
  /\ signal = Quiet

Calling == HostCall \/ ImportCall \/ WasmCall \/ WasmTailOwn \/ WasmTailImport \/ WasmTailForeign
Ending == HostReturn \/ HostPanic \/ WasmReturn \/ WasmTrap \/ WasmThrow \/ WasmThrowRef

Next == Calling \/ Ending \/ Returned \/ Failed

Spec == Init /\ [][Next]_vars

-----------------------------------------------------------------------------
(* Properties *)

\* Every variable has its type.
TypeOK ==
  /\ stack \in Seq(Activations) /\ stack # << >>
  /\ depth \in [Insts -> Nat]
  /\ exns \in [Insts -> Seq(Exns)]
  /\ signal \in Signals

\* The activations of an instance that CallFunc has entered and not left.
Entered(i) == {k \in DOMAIN stack : stack[k].kind # "host" /\ stack[k].inst = i}

\* "callDepth counts active WebAssembly calls in this instance": it is given
\* back once for every call that was entered, however the call ends (results,
\* traps, exceptions, tail calls that stay in the frame or leave it) and
\* whatever host callbacks call in between. Callbacks that panic break this.
DepthCounts == \A i \in Insts : depth[i] = Cardinality(Entered(i))

\* What is left with callbacks that panic: the count is never below the number of
\* active calls, so the limit still limits them.
DepthCovers == \A i \in Insts : Cardinality(Entered(i)) <= depth[i] /\ depth[i] <= MaxDepth

\* A panic is the only thing that leaks depth; no step gives back more than it
\* has taken.
Leaked(i) == depth[i] - Cardinality(Entered(i))
OnlyPanicsLeak == [][\/ \A i \in Insts : Leaked(i)' = Leaked(i)
                     \/ HostPanic /\ \A i \in Insts : Leaked(i)' >= Leaked(i)]_vars

\* The limit of each instance bounds the Go stack, host callbacks included:
\* recursion through imports, tables and callbacks runs into
\* errCallStackExhausted in some instance before the stack grows beyond it.
GoStackBounded == Len(stack) <= 1 + 2 * MaxDepth * Cardinality(Insts)

\* A reference that a frame of an instance holds still leads to the exception
\* it was made for, so throw_ref throws again what was caught.
Resolves(r, i) == r.id \in DOMAIN exns[i] /\ exns[i][r.id] = r.of
RefsResolve == \A k \in DOMAIN stack : stack[k].kind = "wasm" => \A r \in stack[k].refs : Resolves(r, stack[k].inst)

\* A frame that has made a tail call never runs again: it only hands on what
\* its callee returns or throws, and none of its handlers catches it.
TailFramesDone ==
  [][\A k \in DOMAIN stack : stack[k].waits = "tail" =>
        k > Len(stack') \/ stack'[k] = stack[k]]_vars

-----------------------------------------------------------------------------
(* Inductive invariant *)

\* Activations below the top wait; only the top may run, and it waits while a
\* signal is under way. Imports and hosts make no tail calls. The program is at
\* the bottom, and a callback was called by WebAssembly.
Stacked ==
  /\ stack[1].kind = "host"
  /\ \A k \in DOMAIN stack :
       /\ stack[k].kind = "host" <=> stack[k].inst = Host
       /\ stack[k].waits = "tail" => stack[k].kind = "wasm"
       /\ k < Len(stack) => stack[k].waits # "no"
       /\ k > 1 /\ stack[k].kind = "host" => stack[k - 1].kind # "host"
  /\ signal.kind # "none" => Top.waits # "no"

IInv == TypeOK /\ Stacked
=============================================================================
