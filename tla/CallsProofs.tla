---------------------------- MODULE CallsProofs ----------------------------
(* Theorems of Calls, for every value of its constants. *)
EXTENDS Calls, FiniteSetTheorems, SequenceTheorems, TLAPS

-----------------------------------------------------------------------------
(* How a step changes the stack *)

\* The stack below its top is as it was, and the top is the same activation,
\* perhaps in another state.
TopOnly(s) ==
  /\ s \in Seq(Activations) /\ Len(s) >= Len(stack)
  /\ \A k \in DOMAIN stack : k # Len(stack) => s[k] = stack[k]
  /\ LET a == s[Len(stack)] IN
       /\ a.kind = Top.kind /\ a.inst = Top.inst
       /\ a.waits = "tail" => a.kind = "wasm"

\* The top changes its state: it waits, goes on, or is given to a tail callee.
Stays ==
  /\ TopOnly(stack') /\ Len(stack') = Len(stack) /\ depth' = depth
  /\ signal'.kind # "none" => stack'[Len(stack)].waits # "no"

\* The top, which waits from now on, calls the activation a.
Calls(a) ==
  /\ TopOnly(stack') /\ Len(stack') = Len(stack) + 1
  /\ stack'[Len(stack)].waits # "no"
  /\ stack'[Len(stack) + 1] = a /\ a.waits = "no"
  /\ signal'.kind = "none"

\* A call through CallFunc.
Enters ==
  \E a \in Activations : /\ Calls(a) /\ a.kind \in {"import", "wasm"} /\ a.inst \in Insts
                         /\ depth[a.inst] < MaxDepth
                         /\ depth' = [depth EXCEPT ![a.inst] = @ + 1]

\* A call of a callback, which the host itself never makes.
CallsBack ==
  /\ \E a \in Activations : Calls(a) /\ a.kind = "host" /\ a.inst = Host
  /\ Top.kind # "host" /\ depth' = depth

\* The top is left.
Leaves == Len(stack) > 1 /\ stack' = Callers /\ depth' = Exit(Top)

\* A panic cuts the stack.
Cuts ==
  /\ HostPanic /\ depth' = depth /\ signal'.kind = "none"
  /\ \E k \in 1 .. Len(stack) - 1 :
       /\ stack[k].kind = "host"
       /\ stack' = [SubSeq(stack, 1, k) EXCEPT ![k].waits = "no"]

Shaped == Stays \/ Enters \/ CallsBack \/ Leaves \/ Cuts

\* The top of a stack that is not empty.
LEMMA TopType ==
  ASSUME TypeOK
  PROVE  /\ Len(stack) \in Nat /\ Len(stack) \in DOMAIN stack
         /\ Top \in Activations
         /\ DOMAIN stack = 1 .. Len(stack)
BY DEF TypeOK, Top

\* Replacing the last element of a sequence.
LEMMA ReplaceTop ==
  ASSUME NEW S, NEW s \in Seq(S), s # << >>, NEW x \in S
  PROVE  /\ [s EXCEPT ![Len(s)] = x] \in Seq(S)
         /\ Len([s EXCEPT ![Len(s)] = x]) = Len(s)
         /\ \A k \in DOMAIN s : k # Len(s) => [s EXCEPT ![Len(s)] = x][k] = s[k]
         /\ [s EXCEPT ![Len(s)] = x][Len(s)] = x
OBVIOUS

\* What SubSeq leaves of the beginning of a sequence.
LEMMA PrefixOf ==
  ASSUME NEW S, NEW s \in Seq(S), NEW m \in 0 .. Len(s)
  PROVE  /\ SubSeq(s, 1, m) \in Seq(S) /\ Len(SubSeq(s, 1, m)) = m
         /\ \A k \in 1 .. m : SubSeq(s, 1, m)[k] = s[k]
<1> DEFINE c == SubSeq(s, 1, m)
<1>1. m \in Nat /\ \A k \in 1 .. m : s[k] \in S
  OBVIOUS
<1>2. /\ c \in Seq(S) /\ Len(c) = IF 1 <= m THEN m - 1 + 1 ELSE 0
      /\ \A k \in 1 .. m - 1 + 1 : c[k] = s[1 + k - 1]
  BY <1>1, SubSeqProperties
<1> HIDE DEF c
<1>3. Len(c) = m
  BY <1>1, <1>2
<1>4. ASSUME NEW k \in 1 .. m PROVE c[k] = s[k]
  <2>1. k \in 1 .. m - 1 + 1 /\ 1 + k - 1 = k
    BY <1>1
  <2> QED BY <1>2, <2>1
<1> QED BY <1>2, <1>3, <1>4 DEF c

\* Replacing the last element by appending to the rest.
LEMMA ReplaceLast ==
  ASSUME NEW S, NEW s \in Seq(S), s # << >>, NEW x \in S
  PROVE  LET t == Append(SubSeq(s, 1, Len(s) - 1), x) IN
         /\ t \in Seq(S) /\ Len(t) = Len(s)
         /\ \A k \in DOMAIN s : k # Len(s) => t[k] = s[k]
         /\ t[Len(s)] = x
<1> DEFINE c == SubSeq(s, 1, Len(s) - 1)
<1>1. Len(s) \in Nat \ {0} /\ Len(s) - 1 \in 0 .. Len(s)
  OBVIOUS
<1>2. /\ c \in Seq(S) /\ Len(c) = Len(s) - 1
      /\ \A k \in 1 .. Len(s) - 1 : c[k] = s[k]
  BY <1>1, PrefixOf
<1> HIDE DEF c
<1>3. /\ Append(c, x) \in Seq(S) /\ Len(Append(c, x)) = Len(s)
      /\ \A k \in 1 .. Len(s) - 1 : Append(c, x)[k] = c[k]
      /\ Append(c, x)[Len(s)] = x
  BY <1>1, <1>2
<1> QED BY <1>1, <1>2, <1>3 DEF c

\* Marking the top as waiting changes nothing else.
LEMMA WaitingType ==
  ASSUME TypeOK, NEW how \in {"call", "tail"}
  PROVE  /\ Waiting(how) \in Seq(Activations) /\ Len(Waiting(how)) = Len(stack)
         /\ \A k \in DOMAIN stack : k # Len(stack) => Waiting(how)[k] = stack[k]
         /\ Waiting(how)[Len(stack)] = [Top EXCEPT !.waits = how]
         /\ Waiting(how)[Len(stack)].kind = Top.kind /\ Waiting(how)[Len(stack)].inst = Top.inst
         /\ Waiting(how)[Len(stack)].waits = how /\ Waiting(how)[Len(stack)].refs = Top.refs
<1>1. [Top EXCEPT !.waits = how] \in Activations
  BY TopType DEF Activations
<1>2. Waiting(how) = [stack EXCEPT ![Len(stack)] = [Top EXCEPT !.waits = how]]
  BY DEF Waiting, Top
<1>3. stack \in Seq(Activations) /\ stack # << >> /\ Top \in Activations
  BY TopType DEF TypeOK
<1>4. /\ Waiting(how) \in Seq(Activations) /\ Len(Waiting(how)) = Len(stack)
      /\ \A k \in DOMAIN stack : k # Len(stack) => Waiting(how)[k] = stack[k]
      /\ Waiting(how)[Len(stack)] = [Top EXCEPT !.waits = how]
  BY <1>1, <1>2, <1>3, ReplaceTop
<1> QED
  BY <1>3, <1>4 DEF Activations

\* What an activation passes on are references.
LEMMA PassedType ==
  ASSUME NEW a \in Activations, NEW to, NEW args \in Passed(a, to)
  PROVE  args \in SUBSET ExnRefs /\ args \subseteq a.refs
BY DEF Passed, Activations

LEMMA ActivationType ==
  ASSUME NEW kind \in {"host", "import", "wasm"}, NEW inst \in Insts \cup {Host}, NEW refs \in SUBSET ExnRefs
  PROVE  /\ Activation(kind, inst, refs) \in Activations
         /\ Activation(kind, inst, refs).kind = kind /\ Activation(kind, inst, refs).inst = inst
         /\ Activation(kind, inst, refs).waits = "no" /\ Activation(kind, inst, refs).refs = refs
BY DEF Activation, Activations

\* Resume: the top goes on.
LEMMA ResumeShape ==
  ASSUME TypeOK, NEW refs \in SUBSET ExnRefs, Resume(refs)
  PROVE  Stays /\ stack'[Len(stack)].refs = Top.refs \cup refs
<1> DEFINE top == [Top EXCEPT !.waits = "no", !.refs = @ \cup refs]
<1>1. top \in Activations /\ top.kind = Top.kind /\ top.inst = Top.inst /\ top.waits = "no"
      /\ top.refs = Top.refs \cup refs
  BY TopType DEF Activations
<1>2. stack' = [stack EXCEPT ![Len(stack)] = top]
  BY TopType DEF Resume, Top, TypeOK
<1>3. /\ stack' \in Seq(Activations) /\ Len(stack') = Len(stack)
      /\ \A k \in DOMAIN stack : k # Len(stack) => stack'[k] = stack[k]
      /\ stack'[Len(stack)] = top
  <2> HIDE DEF top
  <2> QED BY <1>1, <1>2, ReplaceTop DEF TypeOK
<1>4. signal' = Quiet /\ depth' = depth
  BY DEF Resume
<1> QED
  BY <1>1, <1>3, <1>4, TopType DEF Stays, TopOnly, Quiet

\* The top waits and an activation is put on it.
LEMMA CallsShape ==
  ASSUME TypeOK, NEW how \in {"call", "tail"}, how = "tail" => Top.kind = "wasm",
         NEW a \in Activations, a.waits = "no",
         stack' = Append(Waiting(how), a), signal'.kind = "none"
  PROVE  Calls(a)
<1> DEFINE w == Waiting(how)
<1>1. /\ w \in Seq(Activations) /\ Len(w) = Len(stack)
      /\ \A k \in DOMAIN stack : k # Len(stack) => w[k] = stack[k]
      /\ w[Len(stack)].kind = Top.kind /\ w[Len(stack)].inst = Top.inst /\ w[Len(stack)].waits = how
  BY WaitingType
<1> HIDE DEF w
<1>2. /\ stack' \in Seq(Activations) /\ Len(stack') = Len(stack) + 1
      /\ \A k \in DOMAIN stack : stack'[k] = w[k]
      /\ stack'[Len(stack) + 1] = a
  BY <1>1, TopType DEF w
<1> QED BY <1>1, <1>2, TopType DEF Calls, TopOnly

\* CallFunc, called by the top: the call is entered, or the depth is exhausted.
LEMMA CallFuncShape ==
  ASSUME TypeOK, NEW how \in {"call", "tail"}, how = "tail" => Top.kind = "wasm",
         NEW i \in Insts, NEW args \in SUBSET ExnRefs,
         signal = Quiet, CallFunc(Waiting(how), i, args)
  PROVE  /\ \/ Stays /\ stack' = Waiting(how) /\ signal' = Trap
            \/ Enters /\ signal' = Quiet /\ \E kind \in {"import", "wasm"} :
                 stack' = Append(Waiting(how), Activation(kind, i, args))
         /\ UNCHANGED exns
<1> USE TopType
<1>1. CASE ~MayEnter(i)
  <2>1. stack' = Waiting(how) /\ depth' = depth /\ signal' = Trap /\ UNCHANGED exns
    BY <1>1 DEF CallFunc
  <2>2. Stays
    BY <2>1, WaitingType DEF Stays, TopOnly
  <2> QED BY <2>1, <2>2
<1>2. CASE MayEnter(i)
  <2>1. PICK kind \in {"import", "wasm"} : stack' = Append(Waiting(how), Activation(kind, i, args))
    BY <1>2 DEF CallFunc
  <2>2. depth' = [depth EXCEPT ![i] = @ + 1] /\ UNCHANGED <<signal, exns>> /\ depth[i] < MaxDepth
    BY <1>2 DEF CallFunc, MayEnter
  <2> DEFINE a == Activation(kind, i, args)
  <2>3. a \in Activations /\ a.kind = kind /\ a.inst = i /\ a.waits = "no"
    BY ActivationType
  <2>4. Calls(a)
    BY <2>1, <2>2, <2>3, CallsShape DEF Quiet
  <2> HIDE DEF a
  <2>5. Enters
    BY <2>2, <2>3, <2>4 DEF Enters
  <2> QED BY <2>1, <2>2, <2>5
<1> QED BY <1>1, <1>2

\* Leaving the top.
LEMMA LeaveShape ==
  ASSUME TypeOK, NEW sig, Leave(sig), Len(stack) > 1
  PROVE  Leaves /\ signal' = sig /\ UNCHANGED exns
BY DEF Leave, Leaves

\* A call of an import by a WebAssembly activation.
LEMMA ResolveShape ==
  ASSUME TypeOK, NEW how \in {"call", "tail"}, how = "tail" => Top.kind = "wasm", Top.kind # "host",
         signal = Quiet, Resolve(Waiting(how), Top)
  PROVE  /\ \/ Stays /\ stack' = Waiting(how) /\ signal' = Trap
            \/ /\ Enters \/ CallsBack
               /\ signal' = Quiet
               /\ \E kind \in {"host", "import", "wasm"}, i \in Insts \cup {Host} :
                    /\ kind = "host" <=> i = Host
                    /\ \E args \in Passed(Top, i) : stack' = Append(Waiting(how), Activation(kind, i, args))
         /\ UNCHANGED exns
<1>1. CASE \E args \in Passed(Top, Host) :
             /\ stack' = Append(Waiting(how), Activation("host", Host, args))
             /\ UNCHANGED <<depth, exns, signal>>
  <2>1. PICK args \in Passed(Top, Host) :
             /\ stack' = Append(Waiting(how), Activation("host", Host, args))
             /\ UNCHANGED <<depth, exns, signal>>
    BY <1>1
  <2> DEFINE a == Activation("host", Host, args)
  <2>2. a \in Activations /\ a.kind = "host" /\ a.inst = Host /\ a.waits = "no"
    BY ActivationType, PassedType, TopType
  <2>3. Calls(a)
    BY <2>1, <2>2, CallsShape DEF Quiet
  <2> HIDE DEF a
  <2>4. CallsBack
    BY <2>1, <2>2, <2>3 DEF CallsBack
  <2> QED BY <2>1, <2>4 DEF a
<1>2. CASE \E j \in Insts : \E args \in Passed(Top, j) : CallFunc(Waiting(how), j, args)
  <2>0. PICK j \in Insts : \E args \in Passed(Top, j) : CallFunc(Waiting(how), j, args)
    BY <1>2
  <2>1. PICK args \in Passed(Top, j) : CallFunc(Waiting(how), j, args)
    BY <2>0
  <2>2. j # Host
    BY CallsAssumption
  <2>3. args \in SUBSET ExnRefs
    BY <2>1, PassedType, TopType
  <2> QED BY <2>1, <2>2, <2>3, CallFuncShape
<1> QED BY <1>1, <1>2 DEF Resolve

\* What a frame does about an exception.
LEMMA HandleShape ==
  ASSUME TypeOK, Top.kind = "wasm", Len(stack) > 1, Top.inst \in Insts, NEW e \in Exns, Handle(e)
  PROVE  /\ \/ Stays /\ stack'[Len(stack)].refs = Top.refs /\ UNCHANGED exns
            \/ /\ Stays /\ stack'[Len(stack)].refs = Top.refs \cup NewRef(Top.inst, e)
               /\ exns' = [exns EXCEPT ![Top.inst] = Append(@, e)]
            \/ Leaves /\ UNCHANGED exns
         /\ signal' \in {Quiet, Exception(e)}
<1>1. CASE Resume({}) /\ UNCHANGED exns
  <2>1. Stays /\ stack'[Len(stack)].refs = Top.refs \cup {}
    BY <1>1, ResumeShape
  <2>2. Top.refs \cup {} = Top.refs
    OBVIOUS
  <2> QED BY <1>1, <2>1, <2>2 DEF Resume
<1>2. CASE Resume(NewRef(Top.inst, e)) /\ exns' = [exns EXCEPT ![Top.inst] = Append(@, e)]
  <2>1. NewRef(Top.inst, e) \in SUBSET ExnRefs
    BY DEF TypeOK, NewRef, ExnRefs
  <2> QED BY <1>2, <2>1, ResumeShape DEF Resume
<1>3. CASE Leave(Exception(e))
  BY <1>3, LeaveShape
<1> QED BY <1>1, <1>2, <1>3 DEF Handle

-----------------------------------------------------------------------------
(* The types of what travels *)

LEMMA SignalType ==
  /\ {Quiet, Trap} \subseteq Signals
  /\ \A e \in Exns : Exception(e) \in Signals
  /\ \A refs \in SUBSET ExnRefs : Return(refs) \in Signals
BY DEF Quiet, Trap, Exception, Return, Signals

\* A stack of one activation has the host program on top.
LEMMA AboveHost ==
  ASSUME IInv, Top.kind # "host"
  PROVE  Len(stack) > 1 /\ Top.inst \in Insts /\ Caller \in Activations
<1>1. Len(stack) \in Nat \ {0} /\ Top \in Activations
  BY TopType DEF IInv
<1>2. Len(stack) # 1
  BY DEF IInv, Stacked, Top
<1>3. Top.inst # Host
  BY <1>1, TopType DEF IInv, Stacked, Top
<1>4. Len(stack) - 1 \in DOMAIN stack
  BY <1>1, <1>2, TopType DEF IInv
<1>5. Caller \in Activations
  <2> HIDE DEF Activations
  <2> QED BY <1>4 DEF IInv, TypeOK, Caller
<1>6. Top.inst \in Insts
  BY <1>1, <1>3 DEF Activations
<1>7. Len(stack) > 1
  BY <1>1, <1>2
<1> QED BY <1>5, <1>6, <1>7

\* Every step has one of the shapes, and keeps the types of what is not counted.
LEMMA StepShape ==
  ASSUME IInv, Next
  PROVE  Shaped /\ exns' \in [Insts -> Seq(Exns)] /\ signal' \in Signals
<1> DEFINE ExnsOK == exns' \in [Insts -> Seq(Exns)]
<1> USE DEF IInv
<1>t. /\ Top \in Activations /\ Len(stack) \in Nat \ {0} /\ TypeOK
      /\ exns \in [Insts -> Seq(Exns)] /\ signal \in Signals
  BY TopType DEF TypeOK
<1>q. Quiet \in Signals /\ Trap \in Signals
  BY SignalType
<1>1. CASE HostCall
  <2>1. PICK i \in Insts : \E args \in Passed(Top, i) : CallFunc(Waiting("call"), i, args)
    BY <1>1 DEF HostCall
  <2>2. PICK args \in Passed(Top, i) : CallFunc(Waiting("call"), i, args)
    BY <2>1
  <2>3. args \in SUBSET ExnRefs /\ signal = Quiet
    BY <1>1, <1>t, PassedType DEF HostCall, Runs
  <2> QED BY <1>t, <1>q, <2>2, <2>3, CallFuncShape DEF Shaped
<1>2. CASE ImportCall
  <2>1. Top.kind = "import" /\ signal = Quiet /\ Resolve(Waiting("call"), Top)
    BY <1>2 DEF ImportCall, Runs
  <2> QED BY <1>t, <1>q, <2>1, ResolveShape DEF Shaped
<1>3. CASE WasmCall
  <2>1. PICK i \in Insts : \E args \in Passed(Top, i) : CallFunc(Waiting("call"), i, args)
    BY <1>3 DEF WasmCall
  <2>2. PICK args \in Passed(Top, i) : CallFunc(Waiting("call"), i, args)
    BY <2>1
  <2>3. args \in SUBSET ExnRefs /\ signal = Quiet
    BY <1>3, <1>t, PassedType DEF WasmCall, Runs
  <2> QED BY <1>t, <1>q, <2>2, <2>3, CallFuncShape DEF Shaped
<1>4. CASE WasmTailImport
  <2>1. Top.kind = "wasm" /\ signal = Quiet /\ Resolve(Waiting("tail"), Top)
    BY <1>4 DEF WasmTailImport, Runs
  <2> QED BY <1>t, <1>q, <2>1, ResolveShape DEF Shaped
<1>5. CASE WasmTailForeign
  <2>1. PICK i \in Insts \ {Top.inst} : \E args \in Passed(Top, i) : CallFunc(Waiting("tail"), i, args)
    BY <1>5 DEF WasmTailForeign
  <2>2. PICK args \in Passed(Top, i) : CallFunc(Waiting("tail"), i, args)
    BY <2>1
  <2>3. args \in SUBSET ExnRefs /\ signal = Quiet /\ Top.kind = "wasm"
    BY <1>5, <1>t, PassedType DEF WasmTailForeign, Runs
  <2> QED BY <1>t, <1>q, <2>2, <2>3, CallFuncShape DEF Shaped
<1>6. CASE WasmTailOwn
  <2>1. PICK args \in Passed(Top, Top.inst) :
          stack' = Append(Callers, Activation("wasm", Top.inst, args))
    BY <1>6 DEF WasmTailOwn
  <2>2. depth' = depth /\ exns' = exns /\ signal' = signal /\ Top.kind = "wasm" /\ signal = Quiet
    BY <1>6 DEF WasmTailOwn, Runs
  <2>3. Top.inst \in Insts \cup {Host} /\ args \in SUBSET ExnRefs
    BY <1>t, PassedType DEF Activations
  <2> DEFINE a == Activation("wasm", Top.inst, args)
  <2>4. a \in Activations /\ a.kind = "wasm" /\ a.inst = Top.inst /\ a.waits = "no"
    BY <2>3, ActivationType
  <2> HIDE DEF a
  <2>5. /\ stack' \in Seq(Activations) /\ Len(stack') = Len(stack)
        /\ \A k \in DOMAIN stack : k # Len(stack) => stack'[k] = stack[k]
        /\ stack'[Len(stack)] = a
    <3>1. stack' = Append(SubSeq(stack, 1, Len(stack) - 1), a) /\ stack \in Seq(Activations)
      BY <2>1 DEF a, Callers, TypeOK
    <3>2. stack # << >>
      BY DEF TypeOK
    <3> HIDE DEF IInv
    <3> QED BY <2>4, <3>1, <3>2, ReplaceLast
  <2>6. Stays
    BY <2>2, <2>4, <2>5, <1>t DEF Stays, TopOnly, Quiet
  <2> QED BY <1>t, <2>2, <2>6 DEF Shaped
<1>7. CASE HostReturn
  <2>1. Len(stack) > 1 /\ \/ \E refs \in Passed(Top, Caller.inst) : Leave(Return(refs))
                          \/ Leave(Trap)
    BY <1>7 DEF HostReturn
  <2>2. CASE \E refs \in Passed(Top, Caller.inst) : Leave(Return(refs))
    <3>1. PICK refs \in Passed(Top, Caller.inst) : Leave(Return(refs))
      BY <2>2
    <3>2. Return(refs) \in Signals
      BY <1>t, SignalType, PassedType
    <3> QED BY <1>t, <2>1, <3>1, <3>2, LeaveShape DEF Shaped
  <2>3. CASE Leave(Trap)
    BY <1>t, <1>q, <2>1, <2>3, LeaveShape DEF Shaped
  <2> QED BY <2>1, <2>2, <2>3
<1>8. CASE HostPanic
  <2>1. depth' = depth /\ exns' = exns /\ signal' = signal /\ signal = Quiet
    BY <1>8 DEF HostPanic, Runs
  <2>2. signal'.kind = "none"
    BY <2>1 DEF Quiet
  <2>3. \E k \in 1 .. Len(stack) - 1 :
          /\ stack[k].kind = "host"
          /\ stack' = [SubSeq(stack, 1, k) EXCEPT ![k].waits = "no"]
    BY <1>8 DEF HostPanic
  <2>4. Cuts
    BY <1>8, <2>1, <2>2, <2>3 DEF Cuts
  <2> QED BY <1>t, <2>1, <2>4 DEF Shaped
<1>9. CASE WasmReturn
  <2>1. PICK refs \in Passed(Top, Caller.inst) : Leave(Return(refs))
    BY <1>9 DEF WasmReturn
  <2>2. Return(refs) \in Signals
    BY <1>t, SignalType, PassedType
  <2>3. Len(stack) > 1
    BY <1>9, AboveHost DEF WasmReturn, Runs
  <2> QED BY <1>t, <2>1, <2>2, <2>3, LeaveShape DEF Shaped
<1>10. CASE WasmTrap
  BY <1>t, <1>q, <1>10, LeaveShape, AboveHost DEF Shaped, WasmTrap, Runs
<1>h. ASSUME NEW e \in Exns, Handle(e), Top.kind = "wasm"
      PROVE  Shaped /\ ExnsOK /\ signal' \in Signals
  <2>1. Len(stack) > 1 /\ Top.inst \in Insts
    BY <1>h, AboveHost
  <2>2. /\ Stays \/ Leaves
        /\ exns' = exns \/ exns' = [exns EXCEPT ![Top.inst] = Append(@, e)]
        /\ signal' \in {Quiet, Exception(e)}
    BY <1>h, <1>t, <2>1, HandleShape
  <2>3. ExnsOK
    <3>1. Append(exns[Top.inst], e) \in Seq(Exns)
      BY <1>h, <1>t, <2>1
    <3> QED BY <1>t, <2>1, <2>2, <3>1
  <2> QED BY <2>2, <2>3, <1>q, SignalType DEF Shaped
<1>11. CASE WasmThrow
  <2>1. PICK e \in Exns : Handle(e)
    BY <1>11 DEF WasmThrow
  <2> QED BY <1>11, <1>h, <2>1 DEF WasmThrow, Runs
<1>12. CASE WasmThrowRef
  <2>1. PICK r \in Top.refs :
          IF r.id \in DOMAIN exns[Top.inst] THEN Handle(exns[Top.inst][r.id]) ELSE Leave(Trap)
    BY <1>12 DEF WasmThrowRef
  <2>2. Len(stack) > 1 /\ Top.inst \in Insts /\ Top.kind = "wasm"
    BY <1>12, AboveHost DEF WasmThrowRef, Runs
  <2>3. CASE r.id \in DOMAIN exns[Top.inst]
    <3>1. exns[Top.inst][r.id] \in Exns
      BY <1>t, <2>2, <2>3
    <3> QED BY <1>h, <2>1, <2>2, <2>3, <3>1
  <2>4. CASE r.id \notin DOMAIN exns[Top.inst]
    BY <1>t, <1>q, <2>1, <2>2, <2>4, LeaveShape DEF Shaped
  <2> QED BY <2>3, <2>4
<1>13. CASE Returned
  <2>1. signal.refs \in SUBSET ExnRefs
    BY <1>t DEF Signals
  <2>2. CASE TakesBack(Top)
    <3>1. Resume(signal.refs) /\ exns' = exns
      BY <1>13, <2>2 DEF Returned
    <3>2. Stays /\ signal' = Quiet
      BY <1>t, <2>1, <3>1, ResumeShape DEF Resume
    <3> QED BY <1>t, <1>q, <3>1, <3>2 DEF Shaped
  <2>3. CASE ~TakesBack(Top)
    <3>1. Leave(Return(Crossing(signal.refs, Top.inst, Caller.inst)))
      BY <1>13, <2>3 DEF Returned
    <3>2. Crossing(signal.refs, Top.inst, Caller.inst) \in SUBSET ExnRefs
      BY <2>1 DEF Crossing
    <3>3. Len(stack) > 1
      BY <2>3, AboveHost DEF TakesBack
    <3> QED BY <1>t, <3>1, <3>2, <3>3, SignalType, LeaveShape DEF Shaped
  <2> QED BY <2>2, <2>3
<1>14. CASE Failed
  <2>1. CASE Resume({}) /\ UNCHANGED exns
    <3>1. Stays
      BY <1>t, <2>1, ResumeShape
    <3>2. signal' = Quiet
      BY <2>1 DEF Resume
    <3> QED BY <1>t, <1>q, <2>1, <3>1, <3>2 DEF Shaped
  <2>2. CASE Leave(signal) /\ Len(stack) > 1
    BY <1>t, <2>2, LeaveShape DEF Shaped
  <2>3. CASE Top.kind = "wasm" /\ signal.kind = "exn" /\ Handle(signal.exn)
    <3>1. signal.exn \in Exns
      BY <1>t, <2>3 DEF Signals
    <3> QED BY <1>h, <2>3, <3>1
  <2> QED BY <1>14, <2>1, <2>2, <2>3, AboveHost DEF Failed
<1> QED
  BY <1>1, <1>2, <1>3, <1>4, <1>5, <1>6, <1>7, <1>8, <1>9, <1>10, <1>11, <1>12, <1>13, <1>14
  DEF Next, Calling, Ending

-----------------------------------------------------------------------------
(* Stacked is kept *)

\* A shaped step keeps the stack in order, and of type.
LEMMA ShapedStacked ==
  ASSUME IInv, Shaped
  PROVE  stack' \in Seq(Activations) /\ stack' # << >> /\ Stacked'
<1> DEFINE n == Len(stack)
<1>t. /\ TypeOK /\ Top \in Activations /\ n \in Nat \ {0} /\ DOMAIN stack = 1 .. n
      /\ stack \in Seq(Activations) /\ Stacked /\ Top = stack[n]
  BY TopType DEF IInv, TypeOK, Top
<1>h. /\ stack[1].kind = "host"
      /\ \A k \in 1 .. n :
           /\ stack[k].kind = "host" <=> stack[k].inst = Host
           /\ stack[k].waits = "tail" => stack[k].kind = "wasm"
           /\ k < n => stack[k].waits # "no"
           /\ k > 1 /\ stack[k].kind = "host" => stack[k - 1].kind # "host"
  BY <1>t DEF Stacked
<1> DEFINE StackOK ==
      /\ stack'[1].kind = "host"
      /\ \A k \in 1 .. Len(stack') :
           /\ stack'[k].kind = "host" <=> stack'[k].inst = Host
           /\ stack'[k].waits = "tail" => stack'[k].kind = "wasm"
           /\ k < Len(stack') => stack'[k].waits # "no"
           /\ k > 1 /\ stack'[k].kind = "host" => stack'[k - 1].kind # "host"
      /\ signal'.kind # "none" => stack'[Len(stack')].waits # "no"
<1>s. ASSUME stack' \in Seq(Activations), StackOK
      PROVE  Stacked'
  BY <1>s DEF Stacked, Top
<1>o. ASSUME TopOnly(stack'), Len(stack') >= n
      PROVE  /\ stack' \in Seq(Activations) /\ Len(stack') \in Nat
             /\ \A k \in 1 .. n : stack'[k].kind = stack[k].kind /\ stack'[k].inst = stack[k].inst
             /\ \A k \in 1 .. n : k # n => stack'[k].waits = stack[k].waits
             /\ stack'[n].waits = "tail" => stack[n].kind = "wasm"
  <2>1. /\ stack' \in Seq(Activations)
        /\ \A k \in 1 .. n : k # n => stack'[k] = stack[k]
        /\ stack'[n].kind = Top.kind /\ stack'[n].inst = Top.inst
        /\ stack'[n].waits = "tail" => stack'[n].kind = "wasm"
    BY <1>o, <1>t DEF TopOnly
  <2>2. Len(stack') \in Nat
    BY <2>1
  <2> HIDE DEF n
  <2> QED BY <1>t, <2>1, <2>2, SMTT(60)
<1>1. CASE Stays
  <2>1. TopOnly(stack') /\ Len(stack') = n /\ (signal'.kind # "none" => stack'[n].waits # "no")
    BY <1>1 DEF Stays
  <2> HIDE DEF n
  <2>2. StackOK
    BY <1>t, <1>h, <1>o, <2>1
  <2> QED BY <1>t, <1>s, <1>o, <2>1, <2>2
<1>2. ASSUME NEW a \in Activations, Calls(a), a.kind = "host" <=> a.inst = Host,
             a.kind = "host" => Top.kind # "host"
      PROVE  stack' \in Seq(Activations) /\ Len(stack') = n + 1 /\ StackOK
  <2>1. /\ TopOnly(stack') /\ Len(stack') = n + 1 /\ stack'[n].waits # "no"
        /\ stack'[n + 1] = a /\ a.waits = "no" /\ signal'.kind = "none"
    BY <1>2 DEF Calls
  <2> HIDE DEF n
  <2>2. \A k \in 1 .. n + 1 : k = n + 1 \/ k \in 1 .. n
    BY <1>t
  <2>3. StackOK
    BY <1>2, <1>t, <1>h, <1>o, <2>1, <2>2
  <2> QED BY <1>t, <1>o, <2>1, <2>3
<1>3. CASE Enters
  <2>1. PICK a \in Activations : Calls(a) /\ a.kind \in {"import", "wasm"} /\ a.inst \in Insts
    BY <1>3 DEF Enters
  <2>2. a.kind # "host" /\ a.inst # Host
    BY <2>1, CallsAssumption
  <2> HIDE DEF n, StackOK
  <2>3. stack' \in Seq(Activations) /\ Len(stack') = n + 1 /\ StackOK
    BY <1>2, <2>1, <2>2
  <2> QED BY <1>t, <1>s, <2>3
<1>4. CASE CallsBack
  <2>1. PICK a \in Activations : Calls(a) /\ a.kind = "host" /\ a.inst = Host /\ Top.kind # "host"
    BY <1>4 DEF CallsBack
  <2> HIDE DEF n, StackOK
  <2>2. stack' \in Seq(Activations) /\ Len(stack') = n + 1 /\ StackOK
    BY <1>2, <2>1
  <2> QED BY <1>t, <1>s, <2>2
<1>p. ASSUME NEW m \in 1 .. n - 1
      PROVE  /\ SubSeq(stack, 1, m) \in Seq(Activations) /\ Len(SubSeq(stack, 1, m)) = m
             /\ \A k \in 1 .. m : SubSeq(stack, 1, m)[k] = stack[k]
  BY <1>t, PrefixOf
<1>5. CASE Leaves
  <2>1. stack' = SubSeq(stack, 1, n - 1) /\ n - 1 \in 1 .. n - 1
    BY <1>5, <1>t DEF Leaves, Callers
  <2> HIDE DEF n
  <2>2. stack' \in Seq(Activations) /\ Len(stack') = n - 1 /\ \A k \in 1 .. n - 1 : stack'[k] = stack[k]
    BY <1>p, <2>1
  <2>3. StackOK
    BY <1>t, <1>h, <2>1, <2>2
  <2> QED BY <1>t, <1>s, <2>1, <2>2, <2>3
<1>6. CASE Cuts
  <2>1. PICK m \in 1 .. n - 1 : stack[m].kind = "host" /\ stack' = [SubSeq(stack, 1, m) EXCEPT ![m].waits = "no"]
    BY <1>6 DEF Cuts
  <2>2. signal'.kind = "none"
    BY <1>6 DEF Cuts
  <2> DEFINE c == SubSeq(stack, 1, m)
  <2> HIDE DEF n
  <2>3. c \in Seq(Activations) /\ Len(c) = m /\ (\A k \in 1 .. m : c[k] = stack[k]) /\ m \in Nat \ {0} /\ m < n
    BY <1>p, <1>t
  <2> HIDE DEF c
  <2>4. c[m] \in Activations
    BY <2>3
  <2>d. [c[m] EXCEPT !.waits = "no"] \in Activations
    BY <2>4 DEF Activations
  <2>5. stack' = [c EXCEPT ![m] = [c[m] EXCEPT !.waits = "no"]]
    BY <2>1 DEF c
  <2>6. /\ stack' \in Seq(Activations) /\ Len(stack') = m
        /\ \A k \in 1 .. m : k # m => stack'[k] = stack[k]
        /\ stack'[m] = [stack[m] EXCEPT !.waits = "no"]
    BY <2>3, <2>d, <2>5
  <2>7. stack'[m].kind = stack[m].kind /\ stack'[m].inst = stack[m].inst /\ stack'[m].waits = "no"
    BY <2>3, <2>4, <2>6 DEF Activations
  <2>e. \A k \in 1 .. m : k # m => k \in 1 .. n /\ k < n /\ k - 1 # m
    BY <1>t, <2>3
  <2>f. m \in 1 .. n /\ (m > 1 => m - 1 \in 1 .. m /\ m - 1 # m)
    BY <1>t, <2>3
  <2>8. StackOK
    <3>1. stack'[1].kind = "host"
      BY <1>h, <2>1, <2>3, <2>6, <2>7
    <3>2. ASSUME NEW k \in 1 .. m
          PROVE  /\ stack'[k].kind = "host" <=> stack'[k].inst = Host
                 /\ stack'[k].waits = "tail" => stack'[k].kind = "wasm"
                 /\ k < m => stack'[k].waits # "no"
                 /\ k > 1 /\ stack'[k].kind = "host" => stack'[k - 1].kind # "host"
      <4>1. CASE k = m
        <5>1. m > 1 => stack'[m - 1] = stack[m - 1]
          BY <2>6, <2>f
        <5> QED BY <1>h, <2>1, <2>3, <2>7, <2>f, <4>1, <5>1
      <4>2. CASE k # m
        <5>1. k > 1 => stack'[k - 1] = stack[k - 1]
          BY <2>3, <2>6, <2>e, <4>2
        <5> QED BY <1>h, <2>6, <2>e, <4>2, <5>1
      <4> QED BY <4>1, <4>2
    <3> QED BY <2>2, <2>6, <3>1, <3>2
  <2> QED BY <1>s, <2>3, <2>6, <2>8
<1> QED BY <1>1, <1>3, <1>4, <1>5, <1>6 DEF Shaped

-----------------------------------------------------------------------------
(* The depth counts what is entered *)

LEMMA EnteredFinite ==
  ASSUME stack \in Seq(Activations), NEW i
  PROVE  IsFiniteSet(Entered(i)) /\ Cardinality(Entered(i)) \in Nat /\ Entered(i) \subseteq DOMAIN stack
<1>1. Len(stack) \in Nat /\ DOMAIN stack = 1 .. Len(stack)
  OBVIOUS
<1>2. Entered(i) \subseteq 1 .. Len(stack) /\ IsFiniteSet(1 .. Len(stack))
  BY <1>1, FS_Interval DEF Entered
<1> QED BY <1>1, <1>2, FS_Subset, FS_CardinalityType

\* What a step does to the set of entered calls of an instance.
LEMMA EnteredStep ==
  ASSUME IInv, Shaped, NEW i \in Insts
  PROVE  LET n == Len(stack) IN
         \/ (Stays \/ CallsBack) /\ Entered(i)' = Entered(i) /\ depth'[i] = depth[i]
         \/ Enters /\ depth[i] < MaxDepth /\ depth'[i] = depth[i] + 1
              /\ Entered(i)' = Entered(i) \cup {n + 1} /\ n + 1 \notin Entered(i)
         \/ Enters /\ Entered(i)' = Entered(i) /\ depth'[i] = depth[i]
         \/ Leaves /\ n \in Entered(i) /\ Entered(i)' = Entered(i) \ {n} /\ depth'[i] = depth[i] - 1
         \/ Leaves /\ Entered(i)' = Entered(i) /\ depth'[i] = depth[i]
         \/ Cuts /\ Entered(i)' \subseteq Entered(i) /\ depth'[i] = depth[i]
<1> DEFINE n == Len(stack)
<1>t. /\ stack \in Seq(Activations) /\ n \in Nat \ {0} /\ DOMAIN stack = 1 .. n /\ Top = stack[n]
      /\ depth \in [Insts -> Nat] /\ i # Host
  BY TopType, CallsAssumption DEF IInv, TypeOK, Top
<1>e. /\ Entered(i) = {k \in 1 .. n : stack[k].kind # "host" /\ stack[k].inst = i}
      /\ Entered(i)' = {k \in DOMAIN stack' : stack'[k].kind # "host" /\ stack'[k].inst = i}
  BY <1>t DEF Entered
<1>o. ASSUME TopOnly(stack')
      PROVE  /\ DOMAIN stack' = 1 .. Len(stack')
             /\ \A k \in 1 .. n : stack'[k].kind = stack[k].kind /\ stack'[k].inst = stack[k].inst
  BY <1>o, <1>t, SMTT(60) DEF TopOnly
<1>1. CASE Stays
  <2>1. DOMAIN stack' = 1 .. n /\ depth' = depth
        /\ \A k \in 1 .. n : stack'[k].kind = stack[k].kind /\ stack'[k].inst = stack[k].inst
    BY <1>1, <1>o DEF Stays
  <2> HIDE DEF n
  <2>2. Entered(i)' = Entered(i)
    BY <1>e, <2>1
  <2> QED BY <1>1, <2>1, <2>2
<1>2. ASSUME NEW a \in Activations, Calls(a)
      PROVE  /\ n + 1 \notin Entered(i)
             /\ Entered(i)' = IF a.kind # "host" /\ a.inst = i THEN Entered(i) \cup {n + 1} ELSE Entered(i)
  <2>1. DOMAIN stack' = 1 .. n + 1 /\ stack'[n + 1] = a
        /\ \A k \in 1 .. n : stack'[k].kind = stack[k].kind /\ stack'[k].inst = stack[k].inst
    BY <1>2, <1>o DEF Calls
  <2> HIDE DEF n
  <2>2. 1 .. n + 1 = 1 .. n \cup {n + 1} /\ n + 1 \notin 1 .. n
    BY <1>t
  <2> QED BY <1>e, <2>1, <2>2
<1>3. CASE Enters
  <2>1. PICK a \in Activations : /\ Calls(a) /\ a.kind \in {"import", "wasm"} /\ a.inst \in Insts
                                 /\ depth[a.inst] < MaxDepth
                                 /\ depth' = [depth EXCEPT ![a.inst] = @ + 1]
    BY <1>3 DEF Enters
  <2> HIDE DEF n
  <2>2. CASE a.inst = i
    BY <1>2, <1>3, <1>t, <2>1, <2>2 DEF n
  <2>3. CASE a.inst # i
    BY <1>2, <1>3, <1>t, <2>1, <2>3 DEF n
  <2> QED BY <2>2, <2>3
<1>4. CASE CallsBack
  <2>1. PICK a \in Activations : Calls(a) /\ a.kind = "host"
    BY <1>4 DEF CallsBack
  <2>2. depth' = depth
    BY <1>4 DEF CallsBack
  <2> QED BY <1>2, <1>4, <2>1, <2>2
<1>5. CASE Leaves
  <2>1. n - 1 \in 0 .. n /\ stack' = SubSeq(stack, 1, n - 1) /\ depth' = Exit(Top)
    BY <1>5, <1>t DEF Leaves, Callers
  <2>2. DOMAIN stack' = 1 .. n - 1 /\ \A k \in 1 .. n - 1 : stack'[k] = stack[k]
    <3> HIDE DEF n
    <3> QED BY <1>t, <2>1, PrefixOf
  <2>3. 1 .. n - 1 = (1 .. n) \ {n}
    <3> HIDE DEF n
    <3> QED BY <1>t
  <2>4. Entered(i)' = Entered(i) \ {n}
    <3> HIDE DEF n
    <3> QED BY <1>e, <2>2, <2>3
  <2>5. CASE n \in Entered(i)
    <3>1. Top.kind # "host" /\ Top.inst = i
      BY <1>e, <1>t, <2>5
    <3>2. depth'[i] = depth[i] - 1
      BY <1>t, <2>1, <3>1 DEF Exit
    <3> QED BY <1>5, <2>4, <2>5, <3>2
  <2>6. CASE n \notin Entered(i)
    <3>1. Top.kind = "host" \/ Top.inst # i
      BY <1>e, <1>t, <2>6
    <3>2. depth'[i] = depth[i]
      BY <1>t, <2>1, <3>1 DEF Exit
    <3>3. Entered(i) \ {n} = Entered(i)
      BY <2>6
    <3> QED BY <1>5, <2>4, <3>2, <3>3
  <2> QED BY <2>5, <2>6
<1>6. CASE Cuts
  <2>1. PICK m \in 1 .. n - 1 : stack[m].kind = "host" /\ stack' = [SubSeq(stack, 1, m) EXCEPT ![m].waits = "no"]
    BY <1>6 DEF Cuts
  <2>2. depth' = depth
    BY <1>6 DEF Cuts
  <2> DEFINE c == SubSeq(stack, 1, m)
  <2>3. c \in Seq(Activations) /\ Len(c) = m /\ \A k \in 1 .. m : c[k] = stack[k]
    <3>1. m \in 0 .. Len(stack)
      BY <1>t
    <3> QED BY <1>t, <3>1, PrefixOf
  <2>4. m \in Nat /\ 1 .. m \subseteq 1 .. n
    BY <1>t
  <2> HIDE DEF c, n
  <2>5. c[m] = stack[m] /\ stack' = [c EXCEPT ![m] = [c[m] EXCEPT !.waits = "no"]]
    BY <2>1, <2>3, <2>4 DEF c
  <2>6. DOMAIN stack' = 1 .. m /\ \A k \in 1 .. m : k # m => stack'[k] = stack[k]
    BY <2>3, <2>4, <2>5
  <2>7. stack'[m] = [stack[m] EXCEPT !.waits = "no"]
    BY <2>3, <2>4, <2>5, <2>1
  <2>8. stack[m] \in Activations
    BY <1>t, <2>1, <2>4
  <2>9. stack'[m].kind = stack[m].kind /\ stack'[m].inst = stack[m].inst
    BY <2>7, <2>8 DEF Activations
  <2>10. Entered(i)' \subseteq Entered(i)
    BY <1>e, <2>4, <2>6, <2>9
  <2> QED BY <1>6, <2>2, <2>10
<1> HIDE DEF n
<1> QED BY <1>1, <1>3, <1>4, <1>5, <1>6 DEF Shaped, n

\* What a step does to the number of entered calls and to the leaked depth.
LEMMA CountStep ==
  ASSUME IInv, DepthCovers, Shaped, stack' \in Seq(Activations), NEW i \in Insts
  PROVE  /\ depth'[i] \in Nat /\ Cardinality(Entered(i)') \in Nat
         /\ Cardinality(Entered(i)') <= depth'[i] /\ depth'[i] <= MaxDepth
         /\ \/ Leaked(i)' = Leaked(i)
            \/ Cuts /\ Leaked(i)' >= Leaked(i)
<1> DEFINE S == Entered(i)
           n == Len(stack)
<1>t. /\ IsFiniteSet(S) /\ Cardinality(S) \in Nat /\ depth[i] \in Nat /\ MaxDepth \in Nat
      /\ Cardinality(S) <= depth[i] /\ depth[i] <= MaxDepth
      /\ S' = Entered(i)'
  BY EnteredFinite, CallsAssumption DEF IInv, TypeOK, DepthCovers
<1>l. Leaked(i) = depth[i] - Cardinality(S) /\ Leaked(i)' = depth'[i] - Cardinality(S')
  BY DEF Leaked
<1>1. \/ (Stays \/ CallsBack) /\ S' = S /\ depth'[i] = depth[i]
      \/ Enters /\ depth[i] < MaxDepth /\ depth'[i] = depth[i] + 1 /\ S' = S \cup {n + 1} /\ n + 1 \notin S
      \/ Enters /\ S' = S /\ depth'[i] = depth[i]
      \/ Leaves /\ n \in S /\ S' = S \ {n} /\ depth'[i] = depth[i] - 1
      \/ Leaves /\ S' = S /\ depth'[i] = depth[i]
      \/ Cuts /\ S' \subseteq S /\ depth'[i] = depth[i]
  BY EnteredStep
<1> HIDE DEF S, n
<1>2. CASE S' = S /\ depth'[i] = depth[i]
  BY <1>t, <1>l, <1>2
<1>3. CASE depth[i] < MaxDepth /\ depth'[i] = depth[i] + 1 /\ S' = S \cup {n + 1} /\ n + 1 \notin S
  <2>1. Cardinality(S') = Cardinality(S) + 1
    BY <1>t, <1>3, FS_AddElement
  <2> QED BY <1>t, <1>l, <1>3, <2>1
<1>4. CASE n \in S /\ S' = S \ {n} /\ depth'[i] = depth[i] - 1
  <2>1. Cardinality(S') = Cardinality(S) - 1 /\ Cardinality(S') \in Nat
    BY <1>t, <1>4, FS_RemoveElement, FS_CardinalityType
  <2> QED BY <1>t, <1>l, <1>4, <2>1
<1>5. CASE Cuts /\ S' \subseteq S /\ depth'[i] = depth[i]
  <2>1. Cardinality(S') <= Cardinality(S) /\ Cardinality(S') \in Nat
    BY <1>t, <1>5, FS_Subset, FS_CardinalityType
  <2> QED BY <1>t, <1>l, <1>5, <2>1
<1> QED BY <1>1, <1>2, <1>3, <1>4, <1>5

-----------------------------------------------------------------------------
(* The theorems *)

\* The invariant that is inductive: the order of the stack needs the types, the
\* depth stays a natural number because it covers what is entered.
Counted == IInv /\ DepthCovers

LEMMA InitCounted == Init => Counted
<1> SUFFICES ASSUME Init PROVE Counted
  OBVIOUS
<1> DEFINE a == Activation("host", Host, {})
<1>1. a \in Activations /\ a.kind = "host" /\ a.inst = Host /\ a.waits = "no"
  BY ActivationType
<1>2. stack = <<a>> /\ signal = Quiet /\ depth = [i \in Insts |-> 0] /\ exns = [i \in Insts |-> << >>]
  BY DEF Init
<1> HIDE DEF a
<1>3. stack \in Seq(Activations) /\ stack # << >> /\ Len(stack) = 1 /\ DOMAIN stack = {1} /\ stack[1] = a
  BY <1>1, <1>2
<1>4. signal \in Signals /\ signal.kind = "none"
  BY <1>2, SignalType DEF Quiet
<1>5. TypeOK
  BY <1>2, <1>3, <1>4 DEF TypeOK
<1>6. Stacked
  BY <1>1, <1>3, <1>4 DEF Stacked, Top
<1>7. \A i \in Insts : Entered(i) = {}
  BY <1>1, <1>3 DEF Entered
<1>8. DepthCovers
  <2>1. Cardinality({}) = 0
    BY FS_EmptySet
  <2>2. ASSUME NEW i \in Insts PROVE Cardinality(Entered(i)) = 0 /\ depth[i] = 0
    BY <1>2, <1>7, <2>1
  <2>3. MaxDepth >= 0
    BY CallsAssumption
  <2> QED BY <2>2, <2>3 DEF DepthCovers
<1> QED BY <1>5, <1>6, <1>8 DEF Counted, IInv

LEMMA NextCounted == Counted /\ [Next]_vars => Counted'
<1> SUFFICES ASSUME Counted, [Next]_vars PROVE Counted'
  OBVIOUS
<1>1. CASE Next
  <2>1. Shaped /\ exns' \in [Insts -> Seq(Exns)] /\ signal' \in Signals
    BY <1>1, StepShape DEF Counted
  <2>2. stack' \in Seq(Activations) /\ stack' # << >> /\ Stacked'
    BY <2>1, ShapedStacked DEF Counted
  <2>3. ASSUME NEW i \in Insts
        PROVE  depth'[i] \in Nat /\ Cardinality(Entered(i)') <= depth'[i] /\ depth'[i] <= MaxDepth
    BY <2>1, <2>2, CountStep DEF Counted
  <2>4. DepthCovers'
    BY <2>3 DEF DepthCovers
  <2>5. \E f : depth' = [i \in Insts |-> f[i]]
    <3>1. depth \in [Insts -> Nat]
      BY DEF Counted, IInv, TypeOK
    <3>2. CASE depth' = depth
      BY <3>1, <3>2
    <3>3. CASE Enters
      BY <3>1, <3>3 DEF Enters
    <3>4. CASE Leaves
      <4>1. depth' = depth \/ depth' = [depth EXCEPT ![Top.inst] = depth[Top.inst] - 1]
        BY <3>4 DEF Leaves, Exit
      <4> QED BY <3>1, <3>2, <4>1
    <3> QED BY <2>1, <3>2, <3>3, <3>4 DEF Shaped, Stays, CallsBack, Cuts
  <2>6. depth' \in [Insts -> Nat]
    BY <2>3, <2>5
  <2> QED BY <2>1, <2>2, <2>4, <2>6 DEF Counted, IInv, TypeOK
<1>2. CASE UNCHANGED vars
  BY <1>2 DEF vars, Counted, IInv, TypeOK, Stacked, DepthCovers, Entered, Top
<1> QED BY <1>1, <1>2

LEMMA AlwaysCounted == Spec => []Counted
<1> QED BY InitCounted, NextCounted, PTL DEF Spec

\* For any number of instances and any limits the stack has its types and its
\* order: only the top runs, and hosts are called by WebAssembly.
THEOREM StackInOrder == Spec => []IInv
<1>1. Counted => IInv
  BY DEF Counted
<1> QED BY <1>1, AlwaysCounted, PTL

\* Whatever calls, returns, throws, traps, tail calls and panics, no instance has
\* more active calls than it counts, nor counts more than maxCallDepth.
THEOREM DepthAlwaysCovers == Spec => []DepthCovers
<1>1. Counted => DepthCovers
  BY DEF Counted
<1> QED BY <1>1, AlwaysCounted, PTL

\* Every step that is no panic keeps the depth and the active calls in step, for
\* every instance: what is entered is left exactly once.
THEOREM OnlyPanicsEverLeak == Spec => OnlyPanicsLeak
<1> DEFINE A == \/ \A i \in Insts : Leaked(i)' = Leaked(i)
                \/ HostPanic /\ \A i \in Insts : Leaked(i)' >= Leaked(i)
<1>1. Counted /\ [Next]_vars => [A]_vars
  <2> SUFFICES ASSUME Counted, Next PROVE A
    BY DEF vars
  <2>1. Shaped /\ stack' \in Seq(Activations)
    BY StepShape, ShapedStacked DEF Counted
  <2>2. \A i \in Insts : Leaked(i) \in Int
    BY EnteredFinite DEF Counted, IInv, TypeOK, Leaked
  <2>3. ASSUME NEW i \in Insts PROVE Leaked(i)' = Leaked(i) \/ (Cuts /\ Leaked(i)' >= Leaked(i))
    BY <2>1, CountStep DEF Counted
  <2>4. CASE Cuts
    <3>1. HostPanic
      BY <2>4 DEF Cuts
    <3> QED BY <2>2, <2>3, <3>1
  <2>5. CASE ~Cuts
    BY <2>3, <2>5
  <2> QED BY <2>4, <2>5
<1> QED BY <1>1, AlwaysCounted, PTL DEF Spec, OnlyPanicsLeak

\* Without callbacks that panic the depth is exactly the number of active calls,
\* as the comment at its field says.
THEOREM DepthCountsUnlessPanics ==
  ASSUME ~Panics
  PROVE  Spec => []DepthCounts
<1>1. Init => DepthCounts
  <2> SUFFICES ASSUME Init, NEW i \in Insts PROVE depth[i] = Cardinality(Entered(i))
    BY DEF DepthCounts
  <2>1. depth[i] = 0 /\ DOMAIN stack = {1} /\ stack[1].kind = "host"
    BY DEF Init, Activation
  <2>2. Entered(i) = {} /\ Cardinality({}) = 0
    BY <2>1, FS_EmptySet DEF Entered
  <2> QED BY <2>1, <2>2
<1>2. Counted /\ DepthCounts /\ [Next]_vars => DepthCounts'
  <2> SUFFICES ASSUME Counted, DepthCounts, [Next]_vars PROVE DepthCounts'
    OBVIOUS
  <2>1. CASE Next
    <3>1. Shaped /\ stack' \in Seq(Activations)
      BY <2>1, StepShape, ShapedStacked DEF Counted
    <3>2. ~Cuts
      BY DEF Cuts, HostPanic
    <3> SUFFICES ASSUME NEW i \in Insts PROVE depth'[i] = Cardinality(Entered(i)')
      BY DEF DepthCounts
    <3>3. Leaked(i)' = Leaked(i) /\ depth'[i] \in Nat
      BY <3>1, <3>2, CountStep DEF Counted
    <3>4. depth[i] = Cardinality(Entered(i)) /\ depth[i] \in Nat
      BY DEF DepthCounts, Counted, IInv, TypeOK
    <3>5. Cardinality(Entered(i)') \in Nat
      BY <3>1, CountStep DEF Counted
    <3>6. depth'[i] - Cardinality(Entered(i)') = depth[i] - Cardinality(Entered(i))
      BY <3>3 DEF Leaked
    <3> QED BY <3>3, <3>4, <3>5, <3>6
  <2>2. CASE UNCHANGED vars
    BY <2>2 DEF vars, DepthCounts, Entered
  <2> QED BY <2>1, <2>2
<1> QED BY <1>1, <1>2, AlwaysCounted, PTL DEF Spec

-----------------------------------------------------------------------------
(* Frames in a tail call *)

\* With a frame in a tail call on top a step leaves it, or a panic cuts it off.
LEMMA TailOnTop ==
  ASSUME IInv, Next, Top.waits = "tail"
  PROVE  Leaves \/ Cuts
<1>1. Len(stack) \in DOMAIN stack /\ Top = stack[Len(stack)]
  BY TopType DEF IInv, Top
<1>2. Top.kind = "wasm" /\ Len(stack) > 1
  BY <1>1, AboveHost DEF IInv, Stacked
<1>3. \A kind : ~Runs(kind)
  BY DEF Runs
<1>4. CASE Returned
  <2>1. ~TakesBack(Top)
    BY <1>2 DEF TakesBack
  <2> QED BY <1>2, <1>4, <2>1 DEF Returned, Leave, Leaves
<1>5. CASE Failed
  BY <1>2, <1>5 DEF Failed, Leave, Leaves
<1> QED
  BY <1>3, <1>4, <1>5 DEF Next, Calling, Ending, HostCall, ImportCall, WasmCall, WasmTailOwn, WasmTailImport,
     WasmTailForeign, HostReturn, HostPanic, WasmReturn, WasmTrap, WasmThrow, WasmThrowRef

\* A frame in a tail call never runs again, catches nothing and keeps nothing for
\* itself: it stays as it is until it is left or cut off.
THEOREM TailFramesNeverRun == Spec => TailFramesDone
<1> DEFINE A == \A k \in DOMAIN stack : stack[k].waits = "tail" => k > Len(stack') \/ stack'[k] = stack[k]
<1>1. IInv /\ [Next]_vars => [A]_vars
  <2> SUFFICES ASSUME IInv, Next, NEW k \in DOMAIN stack, stack[k].waits = "tail"
               PROVE  k > Len(stack') \/ stack'[k] = stack[k]
    BY DEF vars
  <2> DEFINE n == Len(stack)
  <2>1. Shaped
    BY StepShape
  <2>2. /\ n \in Nat /\ k \in 1 .. n /\ Top = stack[n] /\ stack[k].kind = "wasm"
        /\ stack \in Seq(Activations)
    BY TopType DEF IInv, TypeOK, Stacked, Top
  <2>3. k = n => Leaves \/ Cuts
    BY <2>2, TailOnTop
  <2>4. CASE Leaves
    <3>1. stack' = SubSeq(stack, 1, n - 1) /\ n - 1 \in 0 .. n
      BY <2>2, <2>4 DEF Leaves, Callers
    <3> HIDE DEF n
    <3>2. Len(stack') = n - 1 /\ \A j \in 1 .. n - 1 : stack'[j] = stack[j]
      BY <2>2, <3>1, PrefixOf DEF n
    <3>3. k > n - 1 \/ k \in 1 .. n - 1
      BY <2>2
    <3> QED BY <3>2, <3>3
  <2>5. CASE Cuts
    <3>1. PICK m \in 1 .. n - 1 : stack[m].kind = "host" /\ stack' = [SubSeq(stack, 1, m) EXCEPT ![m].waits = "no"]
      BY <2>5 DEF Cuts
    <3>2. m \in 0 .. n /\ m \in Nat
      BY <2>2
    <3> DEFINE c == SubSeq(stack, 1, m)
    <3>3. c \in Seq(Activations) /\ Len(c) = m /\ \A j \in 1 .. m : c[j] = stack[j]
      BY <2>2, <3>2, PrefixOf
    <3> HIDE DEF n, c
    <3>4. stack' = [c EXCEPT ![m] = [c[m] EXCEPT !.waits = "no"]]
      BY <3>1 DEF c
    <3>5. Len(stack') = m /\ \A j \in 1 .. m : j # m => stack'[j] = stack[j]
      BY <3>2, <3>3, <3>4
    <3>6. k # m
      BY <2>2, <3>1
    <3>7. k > m \/ k \in 1 .. m
      BY <2>2, <3>2
    <3> QED BY <3>5, <3>6, <3>7
  <2>6. CASE TopOnly(stack') /\ k # n
    BY <2>2, <2>6 DEF TopOnly
  <2> QED BY <2>1, <2>3, <2>4, <2>5, <2>6 DEF Shaped, Stays, Enters, CallsBack, Calls
<1> QED BY <1>1, StackInOrder, PTL DEF Spec, TailFramesDone

-----------------------------------------------------------------------------
(* The size of the Go stack *)

\* The positions of WebAssembly activations, of callbacks, and how many calls of
\* its own instance an activation lies upon, itself included.
Called == {k \in DOMAIN stack : stack[k].kind # "host"}
Callbacks == {k \in DOMAIN stack : stack[k].kind = "host" /\ k > 1}
Rank(k) == Cardinality({j \in Entered(stack[k].inst) : j <= k})

\* Every callback lies on an activation of its own.
LEMMA FewCallbacks ==
  ASSUME IInv
  PROVE  Cardinality(Callbacks) <= Cardinality(Called)
<1> DEFINE f == [k \in Callbacks |-> k - 1]
           n == Len(stack)
<1>1. n \in Nat /\ DOMAIN stack = 1 .. n
  BY TopType DEF IInv
<1>2. IsFiniteSet(Called)
  <2>1. Called \subseteq 1 .. n /\ IsFiniteSet(1 .. n)
    BY <1>1, FS_Interval DEF Called
  <2> QED BY <2>1, FS_Subset
<1>3. ASSUME NEW k \in Callbacks PROVE k \in Int /\ k - 1 \in Called
  <2>1. k \in 1 .. n /\ k > 1 /\ stack[k].kind = "host"
    BY <1>1 DEF Callbacks
  <2>2. stack[k - 1].kind # "host"
    BY <1>1, <2>1 DEF IInv, Stacked
  <2>3. k - 1 \in 1 .. n
    BY <1>1, <2>1
  <2> QED BY <1>1, <2>1, <2>2, <2>3 DEF Called
<1>4. f \in Injection(Callbacks, Called)
  BY <1>3 DEF Injection, IsInjective
<1> QED BY <1>2, <1>4, FS_Injection

\* No instance has more than MaxDepth calls, so all have at most MaxDepth each.
LEMMA FewCalled ==
  ASSUME Counted
  PROVE  Cardinality(Called) <= Cardinality(Insts) * MaxDepth
<1> DEFINE T == Insts \X (1 .. MaxDepth)
           f == [k \in Called |-> <<stack[k].inst, Rank(k)>>]
           n == Len(stack)
<1>1. n \in Nat /\ DOMAIN stack = 1 .. n /\ stack \in Seq(Activations) /\ MaxDepth \in Nat
  BY TopType, CallsAssumption DEF Counted, IInv, TypeOK
<1>2. IsFiniteSet(T) /\ Cardinality(T) = Cardinality(Insts) * MaxDepth
  <2>1. IsFiniteSet(1 .. MaxDepth) /\ Cardinality(1 .. MaxDepth) = MaxDepth
    <3>1. 1 > MaxDepth => MaxDepth = 0
      BY <1>1
    <3> QED BY <1>1, <3>1, FS_Interval, SMTT(60)
  <2> QED BY <2>1, FS_Product, CallsAssumption
<1>3. ASSUME NEW k \in Called
      PROVE  k \in 1 .. n /\ stack[k].inst \in Insts /\ k \in Entered(stack[k].inst)
  <2>1. k \in 1 .. n /\ stack[k].kind # "host"
    BY <1>1 DEF Called
  <2>2. stack[k].inst # Host /\ stack[k] \in Activations
    BY <1>1, <2>1 DEF Counted, IInv, Stacked
  <2>3. stack[k].inst \in Insts
    BY <2>2 DEF Activations
  <2> QED BY <1>1, <2>1, <2>3 DEF Entered
<1>4. ASSUME NEW i \in Insts, NEW k \in 1 .. n
      PROVE  LET R == {j \in Entered(i) : j <= k} IN
             /\ IsFiniteSet(R) /\ Cardinality(R) \in Nat /\ Cardinality(R) <= MaxDepth
             /\ R # {} => Cardinality(R) >= 1
  <2> DEFINE R == {j \in Entered(i) : j <= k}
  <2>1. /\ IsFiniteSet(Entered(i)) /\ Cardinality(Entered(i)) \in Nat
        /\ Cardinality(Entered(i)) <= depth[i] /\ depth[i] <= MaxDepth /\ depth[i] \in Nat
    BY <1>1, EnteredFinite DEF Counted, IInv, TypeOK, DepthCovers
  <2>2. R \in SUBSET Entered(i)
    OBVIOUS
  <2> HIDE DEF R
  <2>3. IsFiniteSet(R) /\ Cardinality(R) <= Cardinality(Entered(i))
    BY <2>1, <2>2, FS_Subset
  <2>4. Cardinality(R) \in Nat
    BY <2>3, FS_CardinalityType
  <2>5. Cardinality(R) = 0 => R = {}
    BY <2>3, FS_EmptySet
  <2>6. Cardinality(R) <= MaxDepth /\ (R # {} => Cardinality(R) >= 1)
    BY <1>1, <2>1, <2>3, <2>4, <2>5
  <2> QED BY <2>3, <2>4, <2>6 DEF R
<1>5. ASSUME NEW k \in Called PROVE <<stack[k].inst, Rank(k)>> \in T
  <2> DEFINE R == {j \in Entered(stack[k].inst) : j <= k}
  <2>1. k \in R
    BY <1>1, <1>3
  <2>2. Cardinality(R) \in Nat /\ Cardinality(R) <= MaxDepth /\ Cardinality(R) >= 1
    BY <1>3, <1>4, <2>1
  <2>3. Rank(k) = Cardinality(R)
    BY DEF Rank
  <2> HIDE DEF R
  <2>4. Rank(k) \in 1 .. MaxDepth
    BY <1>1, <2>2, <2>3
  <2> QED BY <1>3, <2>4
<1>6. ASSUME NEW k \in Called, NEW m \in Called, stack[k].inst = stack[m].inst, k < m
      PROVE  Rank(k) # Rank(m)
  <2> DEFINE R == {j \in Entered(stack[k].inst) : j <= k}
             Q == {j \in Entered(stack[k].inst) : j <= m}
  <2>1. k \in 1 .. n /\ m \in 1 .. n /\ m \in Entered(stack[k].inst) /\ stack[k].inst \in Insts
    BY <1>3, <1>6
  <2>2. Entered(stack[k].inst) \subseteq 1 .. n
    BY <1>1 DEF Entered
  <2>3. R \in SUBSET Q /\ m \in Q /\ m \notin R
    BY <1>1, <1>6, <2>1, <2>2
  <2>4. IsFiniteSet(Q)
    BY <1>4, <2>1
  <2>5. Rank(k) = Cardinality(R) /\ Rank(m) = Cardinality(Q)
    BY <1>6 DEF Rank
  <2> HIDE DEF R, Q
  <2>6. Cardinality(Q) = Cardinality(R) => Q = R
    BY <2>3, <2>4, FS_Subset
  <2> QED BY <2>3, <2>5, <2>6
<1>7. f \in Injection(Called, T)
  <2> HIDE DEF T
  <2>1. f \in [Called -> T]
    BY <1>5
  <2>2. ASSUME NEW k \in Called, NEW m \in Called, f[k] = f[m] PROVE k = m
    <3>1. stack[k].inst = stack[m].inst /\ Rank(k) = Rank(m)
      BY <2>2
    <3>2. k \in 1 .. n /\ m \in 1 .. n
      BY <1>3
    <3>3. k < m \/ m < k \/ k = m
      BY <1>1, <3>2
    <3> QED BY <1>6, <3>1, <3>3
  <2>3. DOMAIN f = Called
    OBVIOUS
  <2> HIDE DEF f
  <2> QED BY <2>1, <2>2, <2>3 DEF Injection, IsInjective
<1> HIDE DEF T, f
<1> QED BY <1>2, <1>7, FS_Injection

\* However WebAssembly and callbacks call each other, the limits bound the Go
\* stack: at most MaxDepth calls in each instance, and a callback on each.
THEOREM GoStackAlwaysBounded == Spec => []GoStackBounded
<1>1. Counted => GoStackBounded
  <2> SUFFICES ASSUME Counted PROVE GoStackBounded
    OBVIOUS
  <2> DEFINE n == Len(stack)
             h == Cardinality(Callbacks)
             c == Cardinality(Called)
             p == Cardinality(Insts)
  <2>1. n \in Nat \ {0} /\ DOMAIN stack = 1 .. n /\ stack[1].kind = "host"
    BY TopType DEF Counted, IInv, Stacked, TypeOK
  <2>2. /\ 2 .. n = Callbacks \cup Called /\ Callbacks \cap Called = {}
        /\ IsFiniteSet(2 .. n) /\ Cardinality(2 .. n) = n - 1
    <3>1. \A k \in 1 .. n : k = 1 \/ k \in 2 .. n
      BY <2>1
    <3>2. Cardinality(2 .. n) = IF 2 > n THEN 0 ELSE n - 2 + 1
      BY <2>1, FS_Interval, SMTT(60)
    <3> HIDE DEF n
    <3>3. Cardinality(2 .. n) = n - 1
      BY <2>1, <3>2
    <3>4. IsFiniteSet(2 .. n)
      BY <2>1, FS_Interval
    <3>5. \A k \in 2 .. n : k \in 1 .. n /\ k > 1 /\ k # 1
      BY <2>1
    <3>6. 2 .. n = Callbacks \cup Called
      BY <2>1, <3>1, <3>5 DEF Callbacks, Called
    <3>7. Callbacks \cap Called = {}
      BY DEF Callbacks, Called
    <3> QED BY <3>3, <3>4, <3>6, <3>7
  <2>3. IsFiniteSet(Callbacks) /\ IsFiniteSet(Called)
    BY <2>2, FS_Subset
  <2>4. n - 1 = h + c - Cardinality({})
    BY <2>2, <2>3, FS_Union
  <2>5. h \in Nat /\ c \in Nat /\ Cardinality({}) = 0 /\ p \in Nat /\ MaxDepth \in Nat
    BY <2>3, FS_CardinalityType, FS_EmptySet, CallsAssumption
  <2>6. h <= c /\ c <= p * MaxDepth
    BY FewCallbacks, FewCalled DEF Counted
  <2> HIDE DEF n, h, c, p
  <2>7. 2 * MaxDepth * p = 2 * (p * MaxDepth) /\ p * MaxDepth \in Nat
    BY <2>5
  <2>8. n <= 1 + 2 * MaxDepth * p
    BY <2>1, <2>4, <2>5, <2>6, <2>7
  <2> QED BY <2>8 DEF GoStackBounded, n, p
<1> QED BY <1>1, AlwaysCounted, PTL

-----------------------------------------------------------------------------
(* Exception references *)

\* References that one instance's exceptions resolve, now or after a step.
Good(refs, i) == \A r \in refs : i \in Insts /\ Resolves(r, i)
GoodNext(refs, i) == \A r \in refs : i \in Insts /\ r.id \in DOMAIN exns'[i] /\ exns'[i][r.id] = r.of

\* What is inductive: whoever holds a reference can resolve it, and what travels
\* down can be resolved by whom it reaches. Hosts hold none.
RefsGood ==
  /\ \A k \in DOMAIN stack : Good(stack[k].refs, stack[k].inst)
  /\ Good(signal.refs, Top.inst)

\* Exceptions are only ever added.
Grows == exns' = exns \/ \E i \in Insts, e \in Exns : exns' = [exns EXCEPT ![i] = Append(@, e)]

LEMMA GoodKept ==
  ASSUME TypeOK, Grows, NEW refs \in SUBSET ExnRefs, NEW i, Good(refs, i)
  PROVE  GoodNext(refs, i)
<1> SUFFICES ASSUME NEW r \in refs
             PROVE  i \in Insts /\ r.id \in DOMAIN exns'[i] /\ exns'[i][r.id] = r.of
  BY DEF GoodNext
<1>1. i \in Insts /\ r.id \in DOMAIN exns[i] /\ exns[i][r.id] = r.of /\ exns[i] \in Seq(Exns)
  BY DEF Good, Resolves, TypeOK
<1>2. CASE exns' = exns
  BY <1>1, <1>2
<1>3. ASSUME NEW j \in Insts, NEW e \in Exns, exns' = [exns EXCEPT ![j] = Append(@, e)]
      PROVE  r.id \in DOMAIN exns'[i] /\ exns'[i][r.id] = r.of
  <2>1. CASE i # j
    BY <1>1, <1>3, <2>1 DEF TypeOK
  <2>2. CASE i = j
    <3>1. exns'[i] = Append(exns[i], e)
      BY <1>1, <1>3, <2>2 DEF TypeOK
    <3> QED BY <1>1, <3>1
  <2> QED BY <2>1, <2>2
<1> QED BY <1>1, <1>2, <1>3 DEF Grows

LEMMA GoodAfter ==
  ASSUME stack' \in Seq(Activations),
         \A k \in 1 .. Len(stack') : GoodNext(stack'[k].refs, stack'[k].inst),
         GoodNext(signal'.refs, stack'[Len(stack')].inst)
  PROVE  RefsGood'
<1>1. DOMAIN stack' = 1 .. Len(stack')
  OBVIOUS
<1> QED BY <1>1 DEF RefsGood, Good, GoodNext, Resolves, Top

\* What is passed within an instance stays good, and to another nothing is.
LEMMA PassedGood ==
  ASSUME ~SharesRefs, NEW a \in Activations, Good(a.refs, a.inst), NEW to, NEW args \in Passed(a, to)
  PROVE  Good(args, to)
BY DEF Passed, Good

\* The activations of the stack stay good while exceptions are added.
LEMMA StackGood ==
  ASSUME IInv, RefsGood, Grows
  PROVE  /\ \A k \in 1 .. Len(stack) : GoodNext(stack[k].refs, stack[k].inst)
         /\ stack \in Seq(Activations) /\ Len(stack) \in Nat \ {0} /\ Top = stack[Len(stack)]
<1>1. /\ stack \in Seq(Activations) /\ Len(stack) \in Nat \ {0} /\ Top = stack[Len(stack)]
      /\ DOMAIN stack = 1 .. Len(stack) /\ TypeOK
  BY TopType DEF IInv, TypeOK, Top
<1>2. ASSUME NEW k \in 1 .. Len(stack) PROVE GoodNext(stack[k].refs, stack[k].inst)
  <2>1. stack[k] \in Activations
    BY <1>1
  <2>2. stack[k].refs \in SUBSET ExnRefs
    BY <2>1 DEF Activations
  <2> QED BY <1>1, <2>2, GoodKept DEF RefsGood
<1> QED BY <1>1, <1>2

LEMMA LeaveGood ==
  ASSUME IInv, RefsGood, NEW sig, sig.refs \in SUBSET ExnRefs, Len(stack) > 1, Leave(sig), Good(sig.refs, Caller.inst)
  PROVE  RefsGood'
<1> DEFINE n == Len(stack)
<1>1. stack' = SubSeq(stack, 1, n - 1) /\ signal' = sig /\ exns' = exns
  BY DEF Leave, Callers
<1>2. /\ \A k \in 1 .. n : GoodNext(stack[k].refs, stack[k].inst)
      /\ stack \in Seq(Activations) /\ n \in Nat \ {0}
  BY <1>1, StackGood DEF Grows
<1>3. n - 1 \in 0 .. n /\ n - 1 \in 1 .. n - 1
  BY <1>2
<1>4. /\ stack' \in Seq(Activations) /\ Len(stack') = n - 1
      /\ \A k \in 1 .. n - 1 : stack'[k] = stack[k] /\ k \in 1 .. n
  BY <1>1, <1>2, <1>3, PrefixOf
<1>5. GoodNext(sig.refs, stack[n - 1].inst)
  BY <1>1 DEF Good, GoodNext, Resolves, Caller
<1> HIDE DEF n
<1> QED BY <1>1, <1>2, <1>3, <1>4, <1>5, GoodAfter

LEMMA ResumeGood ==
  ASSUME IInv, RefsGood, NEW refs \in SUBSET ExnRefs, Resume(refs), Grows, GoodNext(refs, Top.inst)
  PROVE  RefsGood'
<1> DEFINE n == Len(stack)
<1>1. /\ \A k \in 1 .. n : GoodNext(stack[k].refs, stack[k].inst)
      /\ stack \in Seq(Activations) /\ n \in Nat \ {0} /\ Top = stack[n] /\ DOMAIN stack = 1 .. n
  BY StackGood
<1>2. Stays /\ stack'[n].refs = Top.refs \cup refs
  BY ResumeShape, SMTT(60) DEF IInv
<1>3. /\ stack' \in Seq(Activations) /\ Len(stack') = n /\ stack'[n].inst = Top.inst
      /\ \A k \in 1 .. n : k # n => stack'[k] = stack[k]
  BY <1>1, <1>2 DEF Stays, TopOnly
<1>4. signal'.refs = {}
  BY DEF Resume, Quiet
<1> HIDE DEF n
<1>5. n \in 1 .. n
  BY <1>1
<1>6. GoodNext(stack'[n].refs, stack'[n].inst)
  BY <1>1, <1>2, <1>3, <1>5 DEF GoodNext
<1>7. \A k \in 1 .. n : GoodNext(stack'[k].refs, stack'[k].inst)
  BY <1>1, <1>3, <1>6
<1>8. GoodNext(signal'.refs, stack'[n].inst)
  BY <1>4 DEF GoodNext
<1> QED BY <1>3, <1>7, <1>8, GoodAfter

\* The top waits for a call, entered or not.
LEMMA WaitGood ==
  ASSUME IInv, RefsGood, NEW how \in {"call", "tail"}, UNCHANGED exns, signal'.refs = {},
         \/ stack' = Waiting(how)
         \/ \E kind \in {"host", "import", "wasm"}, i \in Insts \cup {Host} : \E args \in SUBSET ExnRefs :
              Good(args, i) /\ stack' = Append(Waiting(how), Activation(kind, i, args))
  PROVE  RefsGood'
<1> DEFINE n == Len(stack)
           w == Waiting(how)
<1>1. /\ \A k \in 1 .. n : GoodNext(stack[k].refs, stack[k].inst)
      /\ stack \in Seq(Activations) /\ n \in Nat \ {0} /\ Top = stack[n] /\ DOMAIN stack = 1 .. n
  BY StackGood DEF Grows
<1>2. /\ w \in Seq(Activations) /\ Len(w) = n
      /\ \A k \in 1 .. n : k # n => w[k] = stack[k]
      /\ w[n].inst = Top.inst /\ w[n].refs = Top.refs
  BY <1>1, WaitingType DEF IInv
<1> HIDE DEF n, w
<1>3. \A k \in 1 .. n : GoodNext(w[k].refs, w[k].inst)
  BY <1>1, <1>2
<1>4. \A i : GoodNext(signal'.refs, i)
  BY DEF GoodNext
<1>5. CASE stack' = w
  BY <1>2, <1>3, <1>4, <1>5, GoodAfter
<1>6. ASSUME NEW kind \in {"host", "import", "wasm"}, NEW i \in Insts \cup {Host}, NEW args \in SUBSET ExnRefs,
             Good(args, i), stack' = Append(w, Activation(kind, i, args))
      PROVE  RefsGood'
  <2> DEFINE a == Activation(kind, i, args)
  <2>1. a \in Activations /\ a.refs = args /\ a.inst = i
    BY ActivationType
  <2>2. GoodNext(args, i)
    BY <1>6 DEF Good, GoodNext, Resolves
  <2> HIDE DEF a
  <2>3. /\ stack' \in Seq(Activations) /\ Len(stack') = n + 1
        /\ \A k \in 1 .. n : stack'[k] = w[k]
        /\ stack'[n + 1] = a
    BY <1>1, <1>2, <1>6, <2>1 DEF a
  <2>4. \A k \in 1 .. n + 1 : k \in 1 .. n \/ k = n + 1
    BY <1>1
  <2>5. \A k \in 1 .. n + 1 : GoodNext(stack'[k].refs, stack'[k].inst)
    BY <1>3, <2>1, <2>2, <2>3, <2>4
  <2> QED BY <1>4, <2>3, <2>5, GoodAfter
<1> QED BY <1>5, <1>6 DEF w

LEMMA HandleGood ==
  ASSUME IInv, RefsGood, Top.kind = "wasm", NEW e \in Exns, Handle(e)
  PROVE  RefsGood'
<1>1. Len(stack) > 1 /\ Top.inst \in Insts /\ exns \in [Insts -> Seq(Exns)]
  BY AboveHost DEF IInv, TypeOK
<1>2. CASE Resume({}) /\ UNCHANGED exns
  <2>1. GoodNext({}, Top.inst) /\ {} \in SUBSET ExnRefs
    BY DEF GoodNext
  <2>2. Grows
    BY <1>2 DEF Grows
  <2> QED BY <1>2, <2>1, <2>2, ResumeGood
<1>3. CASE Resume(NewRef(Top.inst, e)) /\ exns' = [exns EXCEPT ![Top.inst] = Append(@, e)]
  <2> DEFINE l == Len(exns[Top.inst])
  <2>1. exns[Top.inst] \in Seq(Exns) /\ l \in Nat /\ exns'[Top.inst] = Append(exns[Top.inst], e)
    BY <1>1, <1>3
  <2>2. l + 1 \in DOMAIN exns'[Top.inst] /\ exns'[Top.inst][l + 1] = e
    BY <2>1
  <2>3. NewRef(Top.inst, e) \in SUBSET ExnRefs
    BY <2>1 DEF NewRef, ExnRefs
  <2>4. GoodNext(NewRef(Top.inst, e), Top.inst)
    BY <1>1, <2>2 DEF GoodNext, NewRef
  <2>5. Grows
    BY <1>1, <1>3 DEF Grows
  <2> QED BY <1>3, <2>3, <2>4, <2>5, ResumeGood
<1>4. CASE Leave(Exception(e))
  <2>1. Exception(e).refs = {}
    BY DEF Exception
  <2>2. Good(Exception(e).refs, Caller.inst) /\ Exception(e).refs \in SUBSET ExnRefs
    BY <2>1 DEF Good
  <2> QED BY <1>1, <1>4, <2>2, LeaveGood
<1> QED BY <1>2, <1>3, <1>4 DEF Handle

\* CallFunc and Resolve, called by the top.
LEMMA CallFuncGood ==
  ASSUME IInv, RefsGood, ~SharesRefs, NEW how \in {"call", "tail"}, how = "tail" => Top.kind = "wasm",
         NEW i \in Insts, NEW args \in Passed(Top, i), signal = Quiet, CallFunc(Waiting(how), i, args)
  PROVE  RefsGood'
<1>1. TypeOK /\ Top \in Activations /\ args \in SUBSET ExnRefs /\ Good(Top.refs, Top.inst)
  BY TopType, PassedType DEF IInv, RefsGood, Top
<1>2. Good(args, i)
  BY <1>1, PassedGood
<1>3. /\ UNCHANGED exns
      /\ \/ stack' = Waiting(how) /\ signal' = Trap
         \/ /\ signal' = Quiet
            /\ \E kind \in {"import", "wasm"} : stack' = Append(Waiting(how), Activation(kind, i, args))
  BY <1>1, CallFuncShape
<1>4. signal'.refs = {}
  BY <1>3 DEF Trap, Quiet
<1> QED BY <1>1, <1>2, <1>3, <1>4, WaitGood

LEMMA ResolveGood ==
  ASSUME IInv, RefsGood, ~SharesRefs, NEW how \in {"call", "tail"}, how = "tail" => Top.kind = "wasm",
         Top.kind # "host", signal = Quiet, Resolve(Waiting(how), Top)
  PROVE  RefsGood'
<1>1. TypeOK /\ Top \in Activations /\ Good(Top.refs, Top.inst)
  BY TopType DEF IInv, RefsGood, Top
<1>2. CASE \E j \in Insts : \E args \in Passed(Top, j) : CallFunc(Waiting(how), j, args)
  <2>1. PICK j \in Insts : \E args \in Passed(Top, j) : CallFunc(Waiting(how), j, args)
    BY <1>2
  <2>2. PICK args \in Passed(Top, j) : CallFunc(Waiting(how), j, args)
    BY <2>1
  <2> QED BY <2>2, CallFuncGood
<1>3. CASE \E args \in Passed(Top, Host) :
             /\ stack' = Append(Waiting(how), Activation("host", Host, args))
             /\ UNCHANGED <<depth, exns, signal>>
  <2>1. PICK args \in Passed(Top, Host) :
             /\ stack' = Append(Waiting(how), Activation("host", Host, args))
             /\ UNCHANGED <<depth, exns, signal>>
    BY <1>3
  <2>2. args \in SUBSET ExnRefs /\ Good(args, Host)
    BY <1>1, PassedType, PassedGood
  <2>3. signal'.refs = {}
    BY <2>1 DEF Quiet
  <2> QED BY <2>1, <2>2, <2>3, WaitGood
<1> QED BY <1>2, <1>3 DEF Resolve

\* Returning references, or an error without any.
LEMMA ReturnGood ==
  ASSUME IInv, RefsGood, ~SharesRefs, Len(stack) > 1, NEW refs \in Passed(Top, Caller.inst), Leave(Return(refs))
  PROVE  RefsGood'
<1>1. Top \in Activations /\ refs \in SUBSET ExnRefs /\ Good(Top.refs, Top.inst)
  BY TopType, PassedType DEF IInv, RefsGood, Top
<1>2. Good(refs, Caller.inst)
  BY <1>1, PassedGood
<1>3. Return(refs).refs = refs
  BY DEF Return
<1> QED BY <1>1, <1>2, <1>3, LeaveGood

LEMMA TrapGood ==
  ASSUME IInv, RefsGood, Len(stack) > 1, Leave(Trap)
  PROVE  RefsGood'
<1>1. Trap.refs = {}
  BY DEF Trap
<1>2. Good(Trap.refs, Caller.inst) /\ Trap.refs \in SUBSET ExnRefs
  BY <1>1 DEF Good
<1> QED BY <1>2, LeaveGood

LEMMA TailOwnGood ==
  ASSUME IInv, RefsGood, ~SharesRefs, WasmTailOwn
  PROVE  RefsGood'
<1> DEFINE n == Len(stack)
<1>1. /\ \A k \in 1 .. n : GoodNext(stack[k].refs, stack[k].inst)
      /\ stack \in Seq(Activations) /\ n \in Nat \ {0} /\ Top = stack[n] /\ stack # << >>
      /\ Top \in Activations /\ Good(Top.refs, Top.inst)
  BY StackGood, TopType DEF Grows, WasmTailOwn, IInv, RefsGood, TypeOK
<1>2. PICK args \in Passed(Top, Top.inst) : stack' = Append(Callers, Activation("wasm", Top.inst, args))
  BY DEF WasmTailOwn
<1>3. args \in SUBSET ExnRefs /\ Good(args, Top.inst) /\ Top.inst \in Insts \cup {Host}
  BY <1>1, PassedType, PassedGood DEF Activations
<1> DEFINE a == Activation("wasm", Top.inst, args)
<1>4. a \in Activations /\ a.refs = args /\ a.inst = Top.inst
  BY <1>3, ActivationType
<1> HIDE DEF a
<1>5. stack' = Append(SubSeq(stack, 1, Len(stack) - 1), a)
  BY <1>2 DEF a, Callers
<1>6. /\ stack' \in Seq(Activations) /\ Len(stack') = n
      /\ \A k \in DOMAIN stack : k # n => stack'[k] = stack[k]
      /\ stack'[n] = a
  BY <1>1, <1>4, <1>5, ReplaceLast
<1>7. exns' = exns /\ signal'.refs = {}
  BY DEF WasmTailOwn, Runs, Quiet
<1>8. GoodNext(args, Top.inst) /\ GoodNext(signal'.refs, stack'[n].inst)
  BY <1>3, <1>7 DEF Good, GoodNext, Resolves
<1>9. DOMAIN stack = 1 .. n
  BY <1>1
<1> HIDE DEF n
<1>10. \A k \in 1 .. n : GoodNext(stack'[k].refs, stack'[k].inst)
  BY <1>1, <1>4, <1>6, <1>8, <1>9
<1> QED BY <1>6, <1>8, <1>10, GoodAfter

LEMMA PanicGood ==
  ASSUME IInv, RefsGood, HostPanic
  PROVE  RefsGood'
<1> DEFINE n == Len(stack)
<1>1. /\ \A k \in 1 .. n : GoodNext(stack[k].refs, stack[k].inst)
      /\ stack \in Seq(Activations) /\ n \in Nat \ {0}
  BY StackGood DEF Grows, HostPanic
<1>2. PICK m \in 1 .. n - 1 : stack[m].kind = "host" /\ stack' = [SubSeq(stack, 1, m) EXCEPT ![m].waits = "no"]
  BY DEF HostPanic
<1>3. signal'.refs = {} /\ m \in 0 .. n /\ m \in 1 .. n
  BY <1>1 DEF HostPanic, Runs, Quiet
<1> DEFINE c == SubSeq(stack, 1, m)
<1>4. c \in Seq(Activations) /\ Len(c) = m /\ \A k \in 1 .. m : c[k] = stack[k]
  BY <1>1, <1>3, PrefixOf
<1> HIDE DEF n, c
<1>5. m \in 1 .. m /\ \A k \in 1 .. m : k \in 1 .. n
  BY <1>1, <1>3
<1>6. c[m] \in Activations
  BY <1>4, <1>5
<1>7. /\ [c[m] EXCEPT !.waits = "no"] \in Activations
      /\ [c[m] EXCEPT !.waits = "no"].refs = c[m].refs /\ [c[m] EXCEPT !.waits = "no"].inst = c[m].inst
  BY <1>6 DEF Activations
<1>8. stack' = [c EXCEPT ![m] = [c[m] EXCEPT !.waits = "no"]]
  BY <1>2 DEF c
<1>9. /\ stack' \in Seq(Activations) /\ Len(stack') = m
      /\ \A k \in 1 .. m : k # m => stack'[k] = c[k]
      /\ stack'[m] = [c[m] EXCEPT !.waits = "no"]
  BY <1>4, <1>5, <1>7, <1>8
<1>10. \A k \in 1 .. m : stack'[k].refs = stack[k].refs /\ stack'[k].inst = stack[k].inst
  BY <1>4, <1>5, <1>7, <1>9
<1>11. \A k \in 1 .. m : GoodNext(stack'[k].refs, stack'[k].inst)
  BY <1>1, <1>5, <1>10
<1>12. GoodNext(signal'.refs, stack'[m].inst)
  BY <1>3 DEF GoodNext
<1> QED BY <1>9, <1>11, <1>12, GoodAfter

LEMMA ReturnedGood ==
  ASSUME IInv, RefsGood, ~SharesRefs, Returned
  PROVE  RefsGood'
<1>1. signal.refs \in SUBSET ExnRefs /\ Good(signal.refs, Top.inst)
  BY DEF IInv, TypeOK, Signals, RefsGood
<1>2. CASE TakesBack(Top)
  <2>1. Resume(signal.refs) /\ exns' = exns
    BY <1>2 DEF Returned
  <2>2. GoodNext(signal.refs, Top.inst) /\ Grows
    BY <1>1, <2>1 DEF Good, GoodNext, Resolves, Grows
  <2> QED BY <1>1, <2>1, <2>2, ResumeGood
<1>3. CASE ~TakesBack(Top)
  <2> DEFINE refs == Crossing(signal.refs, Top.inst, Caller.inst)
  <2>1. Leave(Return(refs)) /\ Len(stack) > 1
    BY <1>3, AboveHost DEF Returned, TakesBack
  <2>2. Return(refs).refs = refs /\ refs \in SUBSET ExnRefs /\ Good(refs, Caller.inst)
    BY <1>1 DEF Return, Crossing, Good
  <2> HIDE DEF refs
  <2> QED BY <2>1, <2>2, LeaveGood
<1> QED BY <1>2, <1>3

LEMMA FailedGood ==
  ASSUME IInv, RefsGood, Failed
  PROVE  RefsGood'
<1>1. signal.refs = {} /\ (signal.kind = "exn" => signal.exn \in Exns)
  BY DEF IInv, TypeOK, Signals, Failed
<1>2. Good(signal.refs, Caller.inst) /\ signal.refs \in SUBSET ExnRefs
  BY <1>1 DEF Good
<1>3. CASE Resume({}) /\ UNCHANGED exns
  <2>1. GoodNext({}, Top.inst) /\ {} \in SUBSET ExnRefs
    BY DEF GoodNext
  <2>2. Grows
    BY <1>3 DEF Grows
  <2> QED BY <1>3, <2>1, <2>2, ResumeGood
<1>4. CASE Leave(signal) /\ Len(stack) > 1
  BY <1>2, <1>4, LeaveGood
<1>5. CASE Top.kind = "wasm" /\ signal.kind = "exn" /\ Handle(signal.exn)
  BY <1>1, <1>5, HandleGood
<1> QED BY <1>3, <1>4, <1>5, AboveHost DEF Failed

\* Without modules that share references a step keeps them good.
LEMMA NextGood ==
  ASSUME IInv, RefsGood, ~SharesRefs, Next
  PROVE  RefsGood'
<1>1. CASE HostCall \/ WasmCall
  <2>1. PICK i \in Insts : \E args \in Passed(Top, i) : CallFunc(Waiting("call"), i, args)
    BY <1>1 DEF HostCall, WasmCall
  <2>2. PICK args \in Passed(Top, i) : CallFunc(Waiting("call"), i, args)
    BY <2>1
  <2>3. signal = Quiet
    BY <1>1 DEF HostCall, WasmCall, Runs
  <2> QED BY <2>2, <2>3, CallFuncGood
<1>2. CASE WasmTailForeign
  <2>1. PICK i \in Insts \ {Top.inst} : \E args \in Passed(Top, i) : CallFunc(Waiting("tail"), i, args)
    BY <1>2 DEF WasmTailForeign
  <2>2. PICK args \in Passed(Top, i) : CallFunc(Waiting("tail"), i, args)
    BY <2>1
  <2>3. signal = Quiet /\ Top.kind = "wasm"
    BY <1>2 DEF WasmTailForeign, Runs
  <2> QED BY <2>2, <2>3, CallFuncGood
<1>3. CASE ImportCall
  <2>1. Top.kind = "import" /\ signal = Quiet /\ Resolve(Waiting("call"), Top)
    BY <1>3 DEF ImportCall, Runs
  <2> QED BY <2>1, ResolveGood
<1>4. CASE WasmTailImport
  <2>1. Top.kind = "wasm" /\ signal = Quiet /\ Resolve(Waiting("tail"), Top)
    BY <1>4 DEF WasmTailImport, Runs
  <2> QED BY <2>1, ResolveGood
<1>5. CASE HostReturn \/ WasmReturn
  <2>1. Len(stack) > 1
    BY <1>5, AboveHost DEF HostReturn, WasmReturn, Runs
  <2>2. Leave(Trap) \/ \E refs \in Passed(Top, Caller.inst) : Leave(Return(refs))
    BY <1>5 DEF HostReturn, WasmReturn
  <2> QED BY <2>1, <2>2, ReturnGood, TrapGood
<1>6. CASE WasmTrap
  BY <1>6, TrapGood, AboveHost DEF WasmTrap, Runs
<1>7. CASE WasmThrow
  <2>1. PICK e \in Exns : Handle(e)
    BY <1>7 DEF WasmThrow
  <2> QED BY <1>7, <2>1, HandleGood DEF WasmThrow, Runs
<1>8. CASE WasmThrowRef
  <2>1. PICK r \in Top.refs :
          IF r.id \in DOMAIN exns[Top.inst] THEN Handle(exns[Top.inst][r.id]) ELSE Leave(Trap)
    BY <1>8 DEF WasmThrowRef
  <2>2. Len(stack) > 1 /\ Top.inst \in Insts /\ Top.kind = "wasm"
    BY <1>8, AboveHost DEF WasmThrowRef, Runs
  <2>3. CASE r.id \in DOMAIN exns[Top.inst]
    <3>1. exns[Top.inst] \in Seq(Exns)
      BY <2>2 DEF IInv, TypeOK
    <3>2. exns[Top.inst][r.id] \in Exns
      BY <2>3, <3>1
    <3> QED BY <2>1, <2>2, <2>3, <3>2, HandleGood
  <2>4. CASE r.id \notin DOMAIN exns[Top.inst]
    BY <2>1, <2>2, <2>4, TrapGood
  <2> QED BY <2>3, <2>4
<1> QED
  BY <1>1, <1>2, <1>3, <1>4, <1>5, <1>6, <1>7, <1>8, TailOwnGood, PanicGood, ReturnedGood, FailedGood
  DEF Next, Calling, Ending

\* Where modules do not pass exception references to each other, a reference that
\* a frame holds leads to the exception it was made for, however many exceptions
\* are caught and thrown again, and whatever calls and panics come in between.
THEOREM OwnRefsResolve ==
  ASSUME ~SharesRefs
  PROVE  Spec => []RefsResolve
<1>1. Init => RefsGood
  <2> SUFFICES ASSUME Init PROVE RefsGood
    OBVIOUS
  <2>1. DOMAIN stack = {1} /\ stack[1].refs = {} /\ signal.refs = {}
    BY DEF Init, Activation, Quiet
  <2> QED BY <2>1 DEF RefsGood, Good
<1>2. IInv /\ RefsGood /\ [Next]_vars => RefsGood'
  <2> SUFFICES ASSUME IInv, RefsGood, [Next]_vars PROVE RefsGood'
    OBVIOUS
  <2>1. CASE UNCHANGED vars
    BY <2>1 DEF vars, RefsGood, Good, Resolves, Top
  <2> QED BY <2>1, NextGood
<1>3. RefsGood => RefsResolve
  BY DEF RefsGood, RefsResolve, Good
<1> QED BY <1>1, <1>2, <1>3, StackInOrder, PTL DEF Spec
=============================================================================
