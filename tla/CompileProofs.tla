--------------------------- MODULE CompileProofs ----------------------------
(***************************************************************************)
(* What the rules of Validate do to a validation state, proved for every   *)
(* type table and every body: the operand stack and the frames stay well   *)
(* formed, and the states before the instructions of a body fit together   *)
(* (Typed of Soundness). The proofs follow the structure of the rules:     *)
(* first the stack operations, then what an ordinary instruction, an       *)
(* opener, an else and an end do to the frames, then the whole body.       *)
(* Then compileFunction on a body the validator accepts: it never fails,   *)
(* and every label, target and clause it resolves is the frame the         *)
(* validator saw (Resolved of Soundness). analyzeControl's stack and       *)
(* compileFunction's own are both the positions of the openers of the      *)
(* validator's frames; the two loops are recursive functions on the        *)
(* prefixes of the body, and their invariants are proved by induction.     *)
(***************************************************************************)
EXTENDS Soundness, WellFoundedInduction, TLAPS

-----------------------------------------------------------------------------
(* Tables *)

LEMMA Tables ==
  /\ ResultTypes \in Seq(ValueTypes) /\ ParamTypes \in Seq(ValueTypes) /\ LocalTypes \in Seq(ValueTypes)
  /\ \A t \in DOMAIN TagParams : TagParams[t] \in Seq(ValueTypes)
  /\ \A f \in DOMAIN Funcs : Funcs[f].params \in Seq(ValueTypes) /\ Funcs[f].results \in Seq(ValueTypes)
  /\ AllLocals \in Seq(ValueTypes)
BY TypeTables DEF AllLocals

LEMMA SlotTypes == Unknown \notin ValueTypes /\ ValueTypes \subseteq Slots /\ Unknown \in Slots
BY DEF Unknown, Slots, ValueTypes, RefTypes

LEMMA AlphabetInstrs == ASSUME NEW ins \in Instrs PROVE IsInstr(ins)
BY BodyAlphabets DEF Instrs

LEMMA PrefixIs ==
  ASSUME NEW Elem, NEW s \in Seq(Elem), NEW n \in Nat, n <= Len(s)
  PROVE  /\ SubSeq(s, 1, n) \in Seq(Elem) /\ Len(SubSeq(s, 1, n)) = n
         /\ \A k \in 1 .. n : SubSeq(s, 1, n)[k] = s[k]
OBVIOUS

LEMMA FrontIs ==
  ASSUME NEW Elem, NEW s \in Seq(Elem), s # << >>
  PROVE  /\ Front(s) \in Seq(Elem) /\ Len(Front(s)) = Len(s) - 1
         /\ Last(s) = s[Len(s)] /\ Last(s) \in Elem
         /\ \A k \in 1 .. Len(s) - 1 : Front(s)[k] = s[k]
         /\ Len(s) \in Nat /\ Len(s) >= 1
<1> DEFINE n == Len(s) - 1
<1>1. Len(s) \in Nat /\ Len(s) # 0
  OBVIOUS
<1>2. Len(s) >= 1 /\ n \in Nat /\ n <= Len(s) /\ Len(s) \in 1 .. Len(s)
  BY <1>1
<1>3. Front(s) = SubSeq(s, 1, n)
  BY DEF Front
<1>4. Last(s) = s[Len(s)] /\ s[Len(s)] \in Elem
  BY <1>2 DEF Last
<1> HIDE DEF n
<1>5. Front(s) \in Seq(Elem) /\ Len(Front(s)) = n /\ \A k \in 1 .. n : Front(s)[k] = s[k]
  BY <1>2, <1>3, PrefixIs
<1> QED BY <1>2, <1>4, <1>5 DEF n

-----------------------------------------------------------------------------
(* The operand stack *)

\* A state with an open frame whose operands are where they should be.
Ready(v) ==
  /\ v \in States /\ v.ctrl # << >>
  /\ TopFrame(v).entry <= v.height /\ v.height <= Len(v.slots)

LEMMA StateFields ==
  ASSUME NEW v \in States
  PROVE  /\ v.slots \in Seq(Slots) /\ v.height \in Nat
         /\ v.inits \subseteq DOMAIN AllLocals /\ v.ctrl \in Seq(Frames)
         /\ Len(v.ctrl) \in Nat /\ Len(v.slots) \in Nat
<1>2. v.slots \in Seq(Slots) /\ v.height \in Nat
  BY DEF States
<1>4. v.inits \subseteq DOMAIN AllLocals
  BY DEF States
<1>5. v.ctrl \in Seq(Frames)
  BY DEF States
<1>6. Len(v.ctrl) \in Nat /\ Len(v.slots) \in Nat
  BY <1>2, <1>5
<1> QED BY <1>2, <1>4, <1>5, <1>6

LEMMA TopIsFrame ==
  ASSUME NEW v \in States, v.ctrl # << >>
  PROVE  /\ Len(v.ctrl) \in Nat \ {0} /\ Len(v.ctrl) \in DOMAIN v.ctrl /\ DOMAIN v.ctrl = 1 .. Len(v.ctrl)
         /\ TopFrame(v) = v.ctrl[Len(v.ctrl)] /\ TopFrame(v) \in Frames /\ TopFrame(v).entry \in Nat
<1>1. v.ctrl \in Seq(Frames) /\ Len(v.ctrl) \in Nat
  BY StateFields
<1>2. Len(v.ctrl) # 0 /\ DOMAIN v.ctrl = 1 .. Len(v.ctrl)
  BY <1>1
<1>3. TopFrame(v) = v.ctrl[Len(v.ctrl)] /\ TopFrame(v) \in Frames
  BY <1>1, <1>2 DEF TopFrame
<1> QED BY <1>1, <1>2, <1>3 DEF Frames

LEMMA TruncateIs ==
  ASSUME NEW v \in States, NEW n \in Nat
  PROVE  /\ Truncate(v, n) \in States
         /\ Truncate(v, n).height = n /\ Truncate(v, n).slots = v.slots
         /\ Truncate(v, n).inits = v.inits /\ Truncate(v, n).ctrl = v.ctrl
BY DEF Truncate, States

LEMMA PushIs ==
  ASSUME NEW v \in States, v.height <= Len(v.slots), NEW types \in Seq(Slots),
         NEW w, w = Push(v, types)
  PROVE  /\ w \in States
         /\ w.height = v.height + Len(types) /\ w.height <= Len(w.slots) /\ Len(v.slots) <= Len(w.slots)
         /\ w.inits = v.inits /\ w.ctrl = v.ctrl
         /\ \A k \in 1 .. v.height : w.slots[k] = v.slots[k]
         /\ \A k \in 1 .. Len(types) : w.slots[v.height + k] = types[k]
<1> DEFINE n == v.height + Len(types)
           rest == SubSeq(v.slots, n + 1, Len(v.slots))
           s == Live(v) \o types \o rest
<1>1. v.slots \in Seq(Slots) /\ v.height \in Nat /\ Len(types) \in Nat /\ Len(v.slots) \in Nat
  BY StateFields
<1>2. /\ Live(v) \in Seq(Slots) /\ Len(Live(v)) = v.height
      /\ \A k \in 1 .. v.height : Live(v)[k] = v.slots[k]
  BY <1>1 DEF Live
<1>3. rest \in Seq(Slots) /\ Len(rest) \in Nat /\ n + Len(rest) >= Len(v.slots)
  BY <1>1, SMTT(60)
<1> HIDE DEF rest
<1>4. /\ s \in Seq(Slots) /\ Len(s) >= n /\ Len(s) >= Len(v.slots)
      /\ \A k \in 1 .. v.height : s[k] = v.slots[k]
      /\ \A k \in 1 .. Len(types) : s[v.height + k] = types[k]
  BY <1>1, <1>2, <1>3, SMTT(60)
<1>5. w = [v EXCEPT !.height = n, !.slots = s]
  BY DEF Push, rest
<1> HIDE DEF s
<1>6. w.height = n /\ w.slots = s /\ w.closed = v.closed /\ w.inits = v.inits /\ w.ctrl = v.ctrl
  BY <1>5 DEF States
<1>9. n \in Nat
  BY <1>1
<1> HIDE DEF n
<1>7. w \in States
  BY <1>4, <1>5, <1>9 DEF States
<1>8. n = v.height + Len(types)
  BY DEF n
<1> QED BY <1>1, <1>4, <1>6, <1>7, <1>8

LEMMA RetypeIs ==
  ASSUME NEW v \in States, v.height <= Len(v.slots), NEW types \in Seq(Slots), Len(types) <= v.height,
         NEW w, w = Retype(v, types)
  PROVE  /\ w \in States
         /\ w.height = v.height /\ w.height <= Len(w.slots) /\ Len(v.slots) <= Len(w.slots)
         /\ w.inits = v.inits /\ w.ctrl = v.ctrl
         /\ \A k \in 1 .. v.height - Len(types) : w.slots[k] = v.slots[k]
         /\ \A k \in 1 .. Len(types) : w.slots[v.height - Len(types) + k] = types[k]
<1> DEFINE n == v.height - Len(types)
           u == Truncate(v, n)
<1>1. n \in Nat /\ v.height \in Nat /\ Len(types) \in Nat /\ Len(v.slots) \in Nat
  BY StateFields
<1>2. u \in States /\ u.height = n /\ u.slots = v.slots /\ u.inits = v.inits /\ u.ctrl = v.ctrl
  BY <1>1, TruncateIs
<1>3. w = Push(u, types)
  BY DEF Retype
<1> HIDE DEF u, n
<1>4. u.height <= Len(u.slots) /\ u.height + Len(types) = v.height
  BY <1>1, <1>2 DEF n
<1>5. /\ w \in States /\ w.height = u.height + Len(types) /\ w.height <= Len(w.slots)
      /\ Len(u.slots) <= Len(w.slots)
      /\ w.inits = u.inits /\ w.ctrl = u.ctrl
      /\ \A k \in 1 .. u.height : w.slots[k] = u.slots[k]
      /\ \A k \in 1 .. Len(types) : w.slots[u.height + k] = types[k]
  BY <1>2, <1>3, <1>4, PushIs
<1> QED BY <1>2, <1>4, <1>5 DEF n

-----------------------------------------------------------------------------
(* Within a frame *)

\* From v to w only operands of the innermost frame change.
Quiet(v, w) ==
  /\ Ready(w) /\ Len(v.slots) <= Len(w.slots)
  /\ w.ctrl = v.ctrl /\ w.inits = v.inits
  /\ \A k \in 1 .. TopFrame(v).entry : w.slots[k] = v.slots[k]
  /\ IsLive(v) /\ Known(v, v.height) => Known(w, w.height)

Typeable(v, types) == IsLive(v) => \A k \in DOMAIN types : types[k] # Unknown

LEMMA ReadyFacts ==
  ASSUME NEW v, Ready(v)
  PROVE  /\ v \in States /\ v.height \in Nat /\ Len(v.slots) \in Nat /\ v.height <= Len(v.slots)
         /\ TopFrame(v).entry \in Nat /\ TopFrame(v).entry <= v.height
         /\ v.ctrl # << >> /\ v.slots \in Seq(Slots)
BY StateFields, TopIsFrame DEF Ready

LEMMA QuietSelf ==
  ASSUME NEW v, Ready(v)
  PROVE  Quiet(v, v)
BY ReadyFacts DEF Quiet

LEMMA QuietTop ==
  ASSUME NEW v, NEW w, Quiet(v, w)
  PROVE  TopFrame(w) = TopFrame(v) /\ (IsLive(w) <=> IsLive(v))
BY DEF Quiet, TopFrame, IsLive

LEMMA QuietTrans ==
  ASSUME NEW v, NEW u, NEW w, Quiet(v, u), Quiet(u, w)
  PROVE  Quiet(v, w)
<1>1. TopFrame(u) = TopFrame(v) /\ (IsLive(u) <=> IsLive(v))
  BY QuietTop
<1>2. Len(v.slots) <= Len(w.slots)
  <2>1. Len(v.slots) \in Nat
    BY DEF Quiet
  <2> QED BY DEF Quiet
<1> QED BY <1>1, <1>2 DEF Quiet

LEMMA QuietTruncate ==
  ASSUME NEW v, Ready(v), NEW n \in Nat, TopFrame(v).entry <= n, n <= v.height
  PROVE  Quiet(v, Truncate(v, n))
<1> DEFINE w == Truncate(v, n)
<1>1. /\ v.height \in Nat /\ Len(v.slots) \in Nat /\ v.height <= Len(v.slots)
      /\ v.ctrl # << >> /\ v \in States
  BY ReadyFacts
<1>2. w \in States /\ w.height = n /\ w.slots = v.slots /\ w.inits = v.inits /\ w.ctrl = v.ctrl
  BY <1>1, TruncateIs
<1> HIDE DEF w
<1>3. Ready(w)
  BY <1>1, <1>2 DEF Ready, TopFrame
<1>4. Known(v, v.height) => Known(w, w.height)
  BY <1>1, <1>2 DEF Known
<1> QED BY <1>2, <1>3, <1>4 DEF Quiet, w

LEMMA QuietPush ==
  ASSUME NEW v, Ready(v), NEW types \in Seq(Slots), Typeable(v, types)
  PROVE  Quiet(v, Push(v, types))
<1> DEFINE w == Push(v, types)
<1>1. /\ v.height \in Nat /\ Len(v.slots) \in Nat /\ v.height <= Len(v.slots)
      /\ v.ctrl # << >> /\ v \in States /\ Len(types) \in Nat
      /\ TopFrame(v).entry \in Nat /\ TopFrame(v).entry <= v.height
  BY ReadyFacts
<1>2. /\ w \in States
      /\ w.height = v.height + Len(types) /\ w.height <= Len(w.slots) /\ Len(v.slots) <= Len(w.slots)
      /\ w.inits = v.inits /\ w.ctrl = v.ctrl
      /\ \A k \in 1 .. v.height : w.slots[k] = v.slots[k]
      /\ \A k \in 1 .. Len(types) : w.slots[v.height + k] = types[k]
  <2>1. w = Push(v, types)
    OBVIOUS
  <2> HIDE DEF w
  <2> QED BY <1>1, <2>1, PushIs, SMTT(60)
<1> HIDE DEF w
<1>3. Ready(w)
  BY <1>1, <1>2 DEF Ready, TopFrame
<1>4. ASSUME IsLive(v), Known(v, v.height) PROVE Known(w, w.height)
  <2> SUFFICES ASSUME NEW k \in 1 .. w.height PROVE w.slots[k] # Unknown
    BY DEF Known
  <2>1. CASE k <= v.height
    <3>1. k \in 1 .. v.height
      BY <2>1, <1>1, <1>2
    <3> QED BY <3>1, <1>2, <1>4 DEF Known
  <2>2. CASE k > v.height
    <3>1. k - v.height \in 1 .. Len(types) /\ v.height + (k - v.height) = k
      BY <2>2, <1>1, <1>2
    <3>2. w.slots[v.height + (k - v.height)] = types[k - v.height]
      BY <3>1, <1>2
    <3> QED BY <3>1, <3>2, <1>4 DEF Typeable
  <2> QED BY <2>1, <2>2, <1>1, <1>2
<1>5. \A k \in 1 .. TopFrame(v).entry : w.slots[k] = v.slots[k]
  BY <1>1, <1>2
<1> QED BY <1>2, <1>3, <1>4, <1>5 DEF Quiet, w

LEMMA QuietRetype ==
  ASSUME NEW v, Ready(v), NEW types \in Seq(Slots), Typeable(v, types),
         TopFrame(v).entry + Len(types) <= v.height
  PROVE  Quiet(v, Retype(v, types))
<1> DEFINE u == Truncate(v, v.height - Len(types))
<1>1. v.height \in Nat /\ Len(types) \in Nat /\ TopFrame(v).entry \in Nat
  BY ReadyFacts
<1>2. v.height - Len(types) \in Nat /\ TopFrame(v).entry <= v.height - Len(types)
      /\ v.height - Len(types) <= v.height
  BY <1>1
<1>3. Quiet(v, u)
  BY <1>2, QuietTruncate
<1>4. Ready(u) /\ Typeable(u, types)
  BY <1>3, QuietTop DEF Quiet, Typeable
<1> HIDE DEF u
<1>5. Quiet(u, Push(u, types))
  BY <1>4, QuietPush
<1> QED BY <1>3, <1>5, QuietTrans DEF Retype, u

\* ensureCurrentFrameOperands never reaches under the innermost frame, and
\* makes nothing up in code that may run.
LEMMA QuietEnsure ==
  ASSUME NEW v, Ready(v), NEW n \in Nat, NEW w \in Ensure(v, n)
  PROVE  /\ Quiet(v, w)
         /\ w.height >= TopFrame(v).entry + n
         /\ IsLive(v) => w = v
<1> DEFINE entry == TopFrame(v).entry
           missing == n - (v.height - entry)
           made == [i \in 1 .. missing |-> Unknown]
           own == SubSeq(v.slots, entry + 1, v.height)
           u == Truncate(v, entry)
<1>1. /\ v.height \in Nat /\ entry \in Nat /\ entry <= v.height /\ v.ctrl # << >>
      /\ v.slots \in Seq(Slots) /\ v.height <= Len(v.slots) /\ v \in States /\ Len(v.slots) \in Nat
  BY ReadyFacts
<1>2. CASE missing <= 0
  <2>1. w = v
    BY <1>1, <1>2 DEF Ensure
  <2> QED BY <2>1, <1>1, <1>2, QuietSelf
<1>3. CASE ~(missing <= 0)
  <2>1. TopFrame(v).dead /\ w = Push(u, made \o own)
    BY <1>1, <1>3 DEF Ensure
  <2>2. ~IsLive(v)
    BY <2>1 DEF IsLive
  <2>3. Quiet(v, u)
    BY <1>1, QuietTruncate
  <2>11. u.height = entry /\ u \in States
    BY <1>1, TruncateIs
  <2>4. missing \in Nat
    BY <1>1, <1>3
  <2>5. made \in Seq(Slots) /\ Len(made) = missing
    BY <2>4, SlotTypes
  <2>6. own \in Seq(Slots) /\ Len(own) = v.height - entry
    BY <1>1
  <2> HIDE DEF made, own, u
  <2>7. made \o own \in Seq(Slots) /\ Len(made \o own) = n
    <3>1. missing + (v.height - entry) = n
      BY <1>1
    <3> HIDE DEF missing, entry
    <3> QED BY <2>5, <2>6, <2>4, <3>1
  <2>8. Ready(u) /\ Typeable(u, made \o own)
    BY <2>2, <2>3, QuietTop DEF Typeable, Quiet
  <2>9. Quiet(u, w)
    BY <2>1, <2>7, <2>8, QuietPush
  <2>10. w.height = entry + n
    <3>1. u.height <= Len(u.slots)
      BY <2>8 DEF Ready
    <3>2. w.height = u.height + Len(made \o own)
      BY <2>1, <2>7, <2>11, <3>1, PushIs, ZenonT(60)
    <3> QED BY <3>2, <2>7, <2>11
  <2> QED BY <2>2, <2>3, <2>9, <2>10, <1>1, QuietTrans
<1> QED BY <1>2, <1>3

LEMMA QuietWithTops ==
  ASSUME NEW v, Ready(v), NEW types, Len(types) \in Nat, NEW w \in WithTops(v, types)
  PROVE  /\ Quiet(v, w) /\ Tops(w, types)
         /\ w.height >= TopFrame(v).entry + Len(types)
         /\ IsLive(v) => w = v
BY QuietEnsure DEF WithTops

LEMMA QuietPop ==
  ASSUME NEW v, Ready(v), NEW types, Len(types) \in Nat, NEW w \in Pop(v, types)
  PROVE  /\ Quiet(v, w)
         /\ IsLive(v) => w = Truncate(v, v.height - Len(types)) /\ v \in WithTops(v, types)
<1>1. PICK u \in WithTops(v, types) : w = Truncate(u, u.height - Len(types))
  BY DEF Pop
<1>2. Quiet(v, u) /\ u.height >= TopFrame(v).entry + Len(types) /\ (IsLive(v) => u = v)
  BY QuietWithTops
<1>3. Ready(u) /\ TopFrame(u) = TopFrame(v)
  BY <1>2, QuietTop DEF Quiet
<1>4. u.height - Len(types) \in Nat /\ TopFrame(u).entry <= u.height - Len(types)
      /\ u.height - Len(types) <= u.height
  BY <1>2, <1>3, ReadyFacts
<1>5. Quiet(u, w)
  BY <1>1, <1>3, <1>4, QuietTruncate
<1> QED BY <1>1, <1>2, <1>5, QuietTrans
-----------------------------------------------------------------------------
(* Ordinary instructions: those that leave the frames alone *)

\* In code that may run every operand has a type.
Firm(v) == Ready(v) /\ (IsLive(v) => Known(v, v.height))

\* What an ordinary instruction does: it changes operands of the innermost
\* frame, and may then mark the frame unreachable or a local as set.
Ordinary(v, w) ==
  \E u : /\ Quiet(v, u)
         /\ \/ w = u
            \/ w = MarkDead(u)
            \/ \E i \in DOMAIN AllLocals : w = [u EXCEPT !.inits = @ \cup {i}]

LEMMA QuietLocal ==
  ASSUME NEW v, NEW w, Quiet(v, w)
  PROVE  Ordinary(v, w) /\ Ordinary(v, MarkDead(w))
BY DEF Ordinary

LEMMA QuietFirm ==
  ASSUME NEW v, Firm(v), NEW w, Quiet(v, w)
  PROVE  Firm(w)
BY QuietTop DEF Firm, Quiet

LEMMA TypesTypeable ==
  ASSUME NEW v, NEW types \in Seq(ValueTypes)
  PROVE  types \in Seq(Slots) /\ Typeable(v, types) /\ Len(types) \in Nat
BY SlotTypes DEF Typeable

LEMMA OneType ==
  ASSUME NEW type \in ValueTypes
  PROVE  <<type>> \in Seq(ValueTypes) /\ Len(<<type>>) = 1 /\ DOMAIN <<type>> = {1} /\ <<type>>[1] = type
OBVIOUS

LEMMA I32Type == <<"i32">> \in Seq(ValueTypes) /\ Len(<<"i32">>) = 1
BY OneType DEF ValueTypes

LEMMA LabelTyped ==
  ASSUME NEW v \in States, NEW depth \in Nat, depth < Len(v.ctrl)
  PROVE  /\ FrameAt(v, depth) \in Frames
         /\ LabelTypes(FrameAt(v, depth)) \in Seq(ValueTypes)
<1>1. v.ctrl \in Seq(Frames) /\ Len(v.ctrl) \in Nat
  BY StateFields
<1>2. FrameAt(v, depth) \in Frames
  BY <1>1 DEF FrameAt
<1> QED BY <1>2 DEF LabelTypes, Frames

LEMMA DropLocal ==
  ASSUME NEW v, Firm(v), NEW w \in DropRule(v)
  PROVE  Quiet(v, w)
<1>1. PICK u \in Ensure(v, 1) : w = Truncate(u, u.height - 1)
  BY DEF DropRule
<1>2. Quiet(v, u) /\ u.height >= TopFrame(v).entry + 1
  BY <1>1, QuietEnsure DEF Firm
<1>3. Ready(u) /\ TopFrame(u) = TopFrame(v)
  BY <1>2, QuietTop DEF Quiet
<1>4. u.height - 1 \in Nat /\ TopFrame(u).entry <= u.height - 1 /\ u.height - 1 <= u.height
  BY <1>2, <1>3, ReadyFacts
<1> QED BY <1>1, <1>2, <1>3, <1>4, QuietTruncate, QuietTrans

LEMMA SelectLocal ==
  ASSUME NEW v, Firm(v), NEW w \in SelectRule(v)
  PROVE  Quiet(v, w)
<1> DEFINE join(a, b) == IF a = Unknown THEN b ELSE a
<1>1. PICK u \in Ensure(v, 3) :
        LET x == Truncate(u, u.height - 1)
        IN  w = Push(Truncate(x, x.height - 2), <<join(x.slots[x.height - 1], x.slots[x.height])>>)
  BY DEF SelectRule
<1> DEFINE x == Truncate(u, u.height - 1)
           y == Truncate(x, x.height - 2)
           a == x.slots[x.height - 1]
           c == x.slots[x.height]
<1>2. Quiet(v, u) /\ u.height >= TopFrame(v).entry + 3
  BY <1>1, QuietEnsure DEF Firm
<1>3. Ready(u) /\ TopFrame(u) = TopFrame(v) /\ Firm(u)
  BY <1>2, QuietTop, QuietFirm DEF Quiet
<1>4. /\ u.height \in Nat /\ TopFrame(u).entry \in Nat /\ TopFrame(u).entry + 3 <= u.height
      /\ u.slots \in Seq(Slots) /\ u.height <= Len(u.slots) /\ u \in States /\ Len(u.slots) \in Nat
  BY <1>2, <1>3, ReadyFacts
<1>5. x.height = u.height - 1 /\ x.slots = u.slots /\ x \in States
  <2>1. u.height - 1 \in Nat
    BY <1>4
  <2> QED BY <1>4, <2>1, TruncateIs
<1>6. Quiet(u, x)
  <2>1. u.height - 1 \in Nat /\ TopFrame(u).entry <= u.height - 1 /\ u.height - 1 <= u.height
    BY <1>4
  <2> QED BY <1>3, <2>1, QuietTruncate
<1> HIDE DEF x
<1>7. Ready(x) /\ TopFrame(x) = TopFrame(u) /\ Firm(x)
  BY <1>3, <1>6, QuietTop, QuietFirm DEF Quiet
<1>8. Quiet(x, y)
  <2>1. x.height - 2 \in Nat /\ TopFrame(x).entry <= x.height - 2 /\ x.height - 2 <= x.height
    BY <1>4, <1>5, <1>7, SMTT(60)
  <2> QED BY <1>7, <2>1, QuietTruncate
<1>9. a \in Slots /\ c \in Slots
  BY <1>4, <1>5
<1>10. IsLive(x) => a # Unknown /\ c # Unknown
  BY <1>4, <1>5, <1>7, SMTT(60) DEF Firm, Known
<1> HIDE DEF a, c
<1> DEFINE t == <<join(a, c)>>
<1>11. t \in Seq(Slots) /\ DOMAIN t = {1} /\ t[1] = join(a, c)
  BY <1>9
<1>12. Ready(y) /\ Typeable(y, t)
  <2>1. Ready(y) /\ (IsLive(y) => IsLive(x))
    BY <1>8, QuietTop DEF Quiet
  <2> QED BY <2>1, <1>10, <1>11 DEF Typeable
<1>13. w = Push(y, t)
  BY <1>1 DEF x, a, c
<1> HIDE DEF y, t
<1> QED BY <1>2, <1>6, <1>8, <1>11, <1>12, <1>13, QuietPush, QuietTrans

LEMMA BranchTargetLocal ==
  ASSUME NEW v, Firm(v), NEW depth \in Nat, NEW w \in BranchTarget(v, depth)
  PROVE  /\ depth < Len(v.ctrl)
         /\ Quiet(v, w) /\ Tops(w, LabelTypes(FrameAt(v, depth)))
         /\ LabelTypes(FrameAt(v, depth)) \in Seq(ValueTypes)
         /\ w.height >= TopFrame(v).entry + Len(LabelTypes(FrameAt(v, depth)))
         /\ IsLive(v) => w = v
<1>1. v \in States /\ Len(v.ctrl) \in Nat
  BY ReadyFacts, StateFields DEF Firm
<1>2. depth < Len(v.ctrl) /\ w \in WithTops(v, LabelTypes(FrameAt(v, depth)))
  BY <1>1 DEF BranchTarget
<1>3. LabelTypes(FrameAt(v, depth)) \in Seq(ValueTypes)
  BY <1>1, <1>2, LabelTyped
<1>4. Len(LabelTypes(FrameAt(v, depth))) \in Nat
  BY <1>3
<1> QED BY <1>2, <1>3, <1>4, QuietWithTops DEF Firm

LEMMA BrLocal ==
  ASSUME NEW v, Firm(v), NEW depth \in Nat, NEW w \in BrRule(v, depth)
  PROVE  Ordinary(v, w) /\ depth < Len(v.ctrl)
<1>1. PICK u \in BranchTarget(v, depth) : w = MarkDead(u)
  BY DEF BrRule
<1> QED BY <1>1, BranchTargetLocal, QuietLocal

\* A quiet step leaves the frames a branch can name.
LEMMA QuietFrames ==
  ASSUME NEW v, NEW w, Quiet(v, w)
  PROVE  Len(w.ctrl) = Len(v.ctrl) /\ \A d : FrameAt(w, d) = FrameAt(v, d)
BY DEF Quiet, FrameAt

LEMMA PopI32 ==
  ASSUME NEW v, Firm(v), NEW w \in Pop(v, <<"i32">>)
  PROVE  Quiet(v, w) /\ Firm(w)
BY I32Type, QuietPop, QuietFirm DEF Firm

LEMMA BrIfLocal ==
  ASSUME NEW v, Firm(v), NEW depth \in Nat, NEW w \in BrIfRule(v, depth)
  PROVE  Ordinary(v, w) /\ depth < Len(v.ctrl)
<1>1. PICK x \in Pop(v, <<"i32">>) : \E u \in BranchTarget(x, depth) :
               w = Retype(u, LabelTypes(FrameAt(u, depth)))
  BY DEF BrIfRule
<1>2. PICK u \in BranchTarget(x, depth) : w = Retype(u, LabelTypes(FrameAt(u, depth)))
  BY <1>1
<1> DEFINE types == LabelTypes(FrameAt(x, depth))
<1>3. Quiet(v, x) /\ Firm(x)
  BY PopI32
<1>4. /\ depth < Len(x.ctrl) /\ Quiet(x, u) /\ types \in Seq(ValueTypes)
      /\ u.height >= TopFrame(x).entry + Len(types)
  BY <1>3, BranchTargetLocal
<1>5. Ready(u) /\ TopFrame(u) = TopFrame(x) /\ FrameAt(u, depth) = FrameAt(x, depth)
  BY <1>4, QuietTop, QuietFrames DEF Quiet
<1>6. w = Retype(u, types)
  BY <1>2, <1>5
<1> HIDE DEF types
<1>7. types \in Seq(Slots) /\ Typeable(u, types) /\ TopFrame(u).entry + Len(types) <= u.height
  <2>1. Len(types) \in Nat /\ u.height \in Nat /\ TopFrame(u).entry \in Nat
    BY <1>4, <1>5, TypesTypeable, ReadyFacts
  <2> QED BY <2>1, <1>4, <1>5, TypesTypeable
<1>8. Quiet(u, w)
  BY <1>5, <1>6, <1>7, QuietRetype
<1> QED BY <1>3, <1>4, <1>8, QuietTrans, QuietLocal, QuietFrames

LEMMA BrTableLocal ==
  ASSUME NEW v, Firm(v), NEW depths \in Seq(Nat), depths # << >>, NEW w \in BrTableRule(v, depths)
  PROVE  Ordinary(v, w) /\ \A i \in DOMAIN depths : depths[i] < Len(v.ctrl)
<1>1. PICK x \in Pop(v, <<"i32">>) : \E u \in BranchTarget(x, depths[1]) :
          w = MarkDead(u) /\ \A i \in DOMAIN depths : depths[i] < Len(u.ctrl)
  BY DEF BrTableRule
<1>2. PICK u \in BranchTarget(x, depths[1]) :
          w = MarkDead(u) /\ \A i \in DOMAIN depths : depths[i] < Len(u.ctrl)
  BY <1>1
<1>3. depths[1] \in Nat
  OBVIOUS
<1>4. Quiet(v, x) /\ Firm(x)
  BY PopI32
<1>5. Quiet(x, u)
  BY <1>3, <1>4, BranchTargetLocal
<1> QED BY <1>2, <1>4, <1>5, QuietTrans, QuietLocal, QuietFrames

LEMMA NonNullType ==
  ASSUME NEW type \in Slots
  PROVE  /\ NonNull(type) \in Slots
         /\ type # Unknown => NonNull(type) # Unknown /\ NonNull(type) \in ValueTypes
BY DEF NonNull, Slots, ValueTypes, RefTypes, Unknown

LEMMA TopRefLocal ==
  ASSUME NEW v, Firm(v), NEW w \in TopRef(v)
  PROVE  /\ Quiet(v, w) /\ Firm(w) /\ (IsLive(v) => w = v)
         /\ w.height \in Nat /\ w.height >= TopFrame(w).entry + 1
         /\ w.slots[w.height] \in Slots /\ IsRef(w.slots[w.height])
         /\ IsLive(w) => w.slots[w.height] # Unknown
         /\ <<NonNull(w.slots[w.height])>> \in Seq(Slots)
         /\ Len(<<NonNull(w.slots[w.height])>>) = 1
         /\ Typeable(w, <<NonNull(w.slots[w.height])>>)
<1>1. w \in Ensure(v, 1) /\ IsRef(w.slots[w.height])
  BY DEF TopRef
<1>2. Quiet(v, w) /\ w.height >= TopFrame(v).entry + 1 /\ (IsLive(v) => w = v)
  BY <1>1, QuietEnsure DEF Firm
<1>3. Ready(w) /\ TopFrame(w) = TopFrame(v) /\ Firm(w)
  BY <1>2, QuietTop, QuietFirm DEF Quiet
<1>4. /\ w.height \in Nat /\ TopFrame(w).entry \in Nat /\ w.slots \in Seq(Slots)
      /\ w.height <= Len(w.slots) /\ Len(w.slots) \in Nat /\ w.height \in 1 .. w.height
  BY <1>2, <1>3, ReadyFacts
<1>5. w.slots[w.height] \in Slots
  BY <1>4
<1>6. IsLive(w) => w.slots[w.height] # Unknown
  BY <1>3, <1>4 DEF Firm, Known
<1> DEFINE t == <<NonNull(w.slots[w.height])>>
<1>7. t \in Seq(Slots) /\ Len(t) = 1 /\ DOMAIN t = {1} /\ t[1] = NonNull(w.slots[w.height])
  BY <1>5, NonNullType
<1>8. Typeable(w, t)
  BY <1>5, <1>6, <1>7, NonNullType DEF Typeable
<1> QED BY <1>1, <1>2, <1>3, <1>4, <1>5, <1>6, <1>7, <1>8

LEMMA RefAsNonNullLocal ==
  ASSUME NEW v, Firm(v), NEW w \in RefAsNonNullRule(v)
  PROVE  Quiet(v, w)
<1>1. PICK u \in TopRef(v) : w = Retype(u, <<NonNull(u.slots[u.height])>>)
  BY DEF RefAsNonNullRule
<1> DEFINE t == <<NonNull(u.slots[u.height])>>
<1>2. /\ Quiet(v, u) /\ Ready(u) /\ u.height >= TopFrame(u).entry + 1
      /\ t \in Seq(Slots) /\ Len(t) = 1 /\ Typeable(u, t) /\ u.height \in Nat
  BY TopRefLocal DEF Firm
<1> HIDE DEF t
<1>3. Quiet(u, Retype(u, t))
  <2>1. TopFrame(u).entry + Len(t) <= u.height
    BY <1>2, ReadyFacts
  <2> QED BY <1>2, <2>1, QuietRetype
<1> QED BY <1>1, <1>2, <1>3, QuietTrans DEF t

\* The last of n operands is popped.
LEMMA EnsureDrop ==
  ASSUME NEW v, Firm(v), NEW n \in Nat, n >= 1, NEW u \in Ensure(v, n), NEW w, w = Truncate(u, u.height - 1)
  PROVE  /\ Quiet(v, w) /\ Firm(w) /\ w.height >= TopFrame(w).entry + (n - 1) /\ w.height \in Nat
         /\ w.height = u.height - 1 /\ TopFrame(w) = TopFrame(v)
         /\ IsLive(v) => u = v /\ w = Truncate(v, v.height - 1)
<1>1. Quiet(v, u) /\ u.height >= TopFrame(v).entry + n /\ (IsLive(v) => u = v)
  BY QuietEnsure DEF Firm
<1>2. Ready(u) /\ TopFrame(u) = TopFrame(v)
  BY <1>1, QuietTop DEF Quiet
<1>3. /\ u.height - 1 \in Nat /\ TopFrame(u).entry <= u.height - 1 /\ u.height - 1 <= u.height
      /\ u \in States /\ u.height - 1 >= TopFrame(v).entry + (n - 1)
  BY <1>1, <1>2, ReadyFacts
<1>4. Quiet(u, w) /\ w.height = u.height - 1
  BY <1>2, <1>3, QuietTruncate, TruncateIs
<1>5. Quiet(v, w)
  BY <1>1, <1>4, QuietTrans
<1>6. Firm(w) /\ TopFrame(w) = TopFrame(v)
  BY <1>5, QuietTop, QuietFirm
<1> QED BY <1>1, <1>3, <1>4, <1>5, <1>6

LEMMA RetypeLocal ==
  ASSUME NEW v, Firm(v), NEW types \in Seq(ValueTypes), TopFrame(v).entry + Len(types) <= v.height
  PROVE  Quiet(v, Retype(v, types))
BY TypesTypeable, QuietRetype DEF Firm

LEMMA BrOnNullLocal ==
  ASSUME NEW v, Firm(v), NEW depth \in Nat, NEW w \in BrOnNullRule(v, depth)
  PROVE  Ordinary(v, w) /\ depth < Len(v.ctrl)
<1>1. PICK x \in TopRef(v) :
         /\ depth < Len(x.ctrl)
         /\ \E u \in Ensure(x, Len(LabelTypes(FrameAt(x, depth))) + 1) :
              w = Push(Retype(Truncate(u, u.height - 1), LabelTypes(FrameAt(x, depth))),
                       <<NonNull(x.slots[x.height])>>)
  BY DEF BrOnNullRule
<1> DEFINE types == LabelTypes(FrameAt(x, depth))
           t == <<NonNull(x.slots[x.height])>>
<1>2. PICK u \in Ensure(x, Len(types) + 1) : w = Push(Retype(Truncate(u, u.height - 1), types), t)
  BY <1>1
<1>3. Quiet(v, x) /\ Firm(x) /\ t \in Seq(Slots) /\ Typeable(x, t)
  BY TopRefLocal
<1>4. types \in Seq(ValueTypes) /\ Len(types) \in Nat
  <2>1. x \in States
    BY <1>3, ReadyFacts DEF Firm
  <2> QED BY <1>1, <2>1, LabelTyped
<1> HIDE DEF types, t
<1> DEFINE y == Truncate(u, u.height - 1)
           z == Retype(y, types)
<1>5. Quiet(x, y) /\ Firm(y) /\ y.height >= TopFrame(y).entry + Len(types) /\ y.height \in Nat
  <2>1. Len(types) + 1 \in Nat /\ Len(types) + 1 >= 1 /\ (Len(types) + 1) - 1 = Len(types)
    BY <1>4
  <2> QED BY <1>2, <1>3, <2>1, EnsureDrop
<1> HIDE DEF y
<1>6. Quiet(y, z)
  <2>1. TopFrame(y).entry + Len(types) <= y.height
    BY <1>4, <1>5, ReadyFacts DEF Firm
  <2> QED BY <1>4, <1>5, <2>1, RetypeLocal
<1> HIDE DEF z
<1>7. Quiet(x, z)
  BY <1>5, <1>6, QuietTrans
<1>8. Ready(z) /\ Typeable(z, t)
  BY <1>3, <1>7, QuietTop DEF Typeable, Quiet
<1>9. Quiet(z, w)
  BY <1>2, <1>3, <1>8, QuietPush DEF y, z
<1> QED BY <1>1, <1>3, <1>7, <1>9, QuietTrans, QuietLocal, QuietFrames

LEMMA FrontTypes ==
  ASSUME NEW types \in Seq(ValueTypes), types # << >>
  PROVE  /\ Front(types) \in Seq(ValueTypes) /\ Len(Front(types)) = Len(types) - 1
         /\ Last(types) = types[Len(types)] /\ Last(types) \in ValueTypes
         /\ \A k \in 1 .. Len(types) - 1 : Front(types)[k] = types[k]
         /\ Len(types) \in Nat /\ Len(types) >= 1
BY FrontIs

LEMMA BrOnNonNullLocal ==
  ASSUME NEW v, Firm(v), NEW depth \in Nat, NEW w \in BrOnNonNullRule(v, depth)
  PROVE  Ordinary(v, w) /\ depth < Len(v.ctrl)
<1>1. PICK x \in TopRef(v) :
         /\ depth < Len(x.ctrl) /\ LabelTypes(FrameAt(x, depth)) # << >>
         /\ \E u \in Ensure(x, Len(LabelTypes(FrameAt(x, depth)))) :
              w = Retype(Truncate(u, u.height - 1), Front(LabelTypes(FrameAt(x, depth))))
  BY DEF BrOnNonNullRule
<1> DEFINE types == LabelTypes(FrameAt(x, depth))
<1>2. PICK u \in Ensure(x, Len(types)) : w = Retype(Truncate(u, u.height - 1), Front(types))
  BY <1>1
<1>3. Quiet(v, x) /\ Firm(x)
  BY TopRefLocal
<1>4. types \in Seq(ValueTypes)
  <2>1. x \in States
    BY <1>3, ReadyFacts DEF Firm
  <2> QED BY <1>1, <2>1, LabelTyped
<1>5. Front(types) \in Seq(ValueTypes) /\ Len(Front(types)) = Len(types) - 1 /\ Len(types) \in Nat /\ Len(types) >= 1
  BY <1>1, <1>4, FrontTypes
<1> HIDE DEF types
<1> DEFINE y == Truncate(u, u.height - 1)
<1>6. Quiet(x, y) /\ Firm(y) /\ y.height >= TopFrame(y).entry + (Len(types) - 1) /\ y.height \in Nat
  BY <1>2, <1>3, <1>5, EnsureDrop
<1> HIDE DEF y
<1>7. Quiet(y, w)
  <2>1. TopFrame(y).entry + Len(Front(types)) <= y.height
    BY <1>5, <1>6, ReadyFacts DEF Firm
  <2> QED BY <1>2, <1>5, <1>6, <2>1, RetypeLocal DEF y
<1> QED BY <1>1, <1>3, <1>6, <1>7, QuietTrans, QuietLocal, QuietFrames

LEMMA LocalGetLocal ==
  ASSUME NEW v, Firm(v), NEW i \in Nat, NEW w \in LocalGetRule(v, i)
  PROVE  Quiet(v, w)
<1>1. i \in v.inits /\ w = Push(v, <<AllLocals[i]>>)
  BY DEF LocalGetRule
<1>2. v \in States
  BY ReadyFacts DEF Firm
<1>3. AllLocals[i] \in ValueTypes
  <2>1. i \in DOMAIN AllLocals
    BY <1>1, <1>2, StateFields
  <2> QED BY <2>1, Tables
<1> QED BY <1>1, <1>3, OneType, TypesTypeable, QuietPush DEF Firm

LEMMA LocalSetLocal ==
  ASSUME NEW v, Firm(v), NEW i \in Nat, NEW keep \in BOOLEAN, NEW w \in LocalSetRule(v, i, keep)
  PROVE  Ordinary(v, w)
<1> DEFINE t == <<AllLocals[i]>>
<1>1. i \in DOMAIN AllLocals
  BY DEF LocalSetRule
<1>2. PICK u \in WithTops(v, t) :
         w = [(IF keep THEN Retype(u, t) ELSE Truncate(u, u.height - 1)) EXCEPT !.inits = @ \cup {i}]
  BY <1>1 DEF LocalSetRule
<1>3. t \in Seq(ValueTypes) /\ Len(t) = 1
  BY <1>1, Tables, OneType
<1> HIDE DEF t
<1>4. Quiet(v, u) /\ u.height >= TopFrame(v).entry + 1
  <2>1. Len(t) \in Nat
    BY <1>3
  <2>2. Quiet(v, u) /\ u.height >= TopFrame(v).entry + Len(t)
    BY <1>2, <2>1, QuietWithTops DEF Firm
  <2> QED BY <1>3, <2>2
<1>5. Firm(u) /\ Ready(u) /\ TopFrame(u) = TopFrame(v)
  BY <1>4, QuietTop, QuietFirm DEF Firm
<1>6. /\ TopFrame(u).entry + 1 <= u.height /\ u.height - 1 \in Nat
      /\ TopFrame(u).entry <= u.height - 1 /\ u.height - 1 <= u.height
  BY <1>4, <1>5, ReadyFacts
<1>7. Quiet(u, Retype(u, t)) /\ Quiet(u, Truncate(u, u.height - 1))
  BY <1>3, <1>5, <1>6, RetypeLocal, QuietTruncate
<1> DEFINE x == IF keep THEN Retype(u, t) ELSE Truncate(u, u.height - 1)
<1>8. Quiet(v, x)
  BY <1>4, <1>7, QuietTrans
<1>9. w = [x EXCEPT !.inits = @ \cup {i}]
  BY <1>2
<1> HIDE DEF x
<1> QED BY <1>1, <1>8, <1>9 DEF Ordinary

LEMMA PushTypes ==
  ASSUME NEW v, Ready(v), NEW types \in Seq(ValueTypes)
  PROVE  Quiet(v, Push(v, types))
BY TypesTypeable, QuietPush

LEMMA PopTypes ==
  ASSUME NEW v, Firm(v), NEW types \in Seq(ValueTypes), NEW w \in Pop(v, types)
  PROVE  Quiet(v, w)
BY TypesTypeable, QuietPop DEF Firm

LEMMA WithTypes ==
  ASSUME NEW v, Firm(v), NEW types \in Seq(ValueTypes), NEW w \in WithTops(v, types)
  PROVE  Quiet(v, w)
BY TypesTypeable, QuietWithTops DEF Firm

\* The immediates of an instruction, by its op.
LEMMA Immediates ==
  ASSUME NEW ins, IsInstr(ins)
  PROVE  /\ ins.op = "const" => ins.type \in ValueTypes
         /\ ins.op \in Openers => ins.params \in Seq(ValueTypes) /\ ins.results \in Seq(ValueTypes)
         /\ ins.op = "try_table" => ins.catches \in Seq(Clauses)
         /\ ins.op \in Branches => ins.depth \in Nat
         /\ ins.op = "br_table" => ins.depths \in Seq(Nat) /\ ins.depths # << >>
         /\ ins.op \in {"local.get", "local.set", "local.tee"} => ins.index \in Nat
         /\ ins.op \in {"call", "return_call"} => /\ Funcs[ins.func].params \in Seq(ValueTypes)
                                                  /\ Funcs[ins.func].results \in Seq(ValueTypes)
         /\ ins.op = "throw" => TagParams[ins.tag] \in Seq(ValueTypes)
BY Tables DEF IsInstr

Structural == Openers \cup {"else", "end"}

LEMMA RuleOrdinary ==
  ASSUME NEW v, Firm(v), ~v.closed, NEW ins, IsInstr(ins), ins.op \notin Structural, NEW w \in Rule(v, ins)
  PROVE  Ordinary(v, w)
<1> USE Immediates DEF Branches
<1>1. CASE ins.op = "const"
  <2>1. w = Push(v, <<ins.type>>)
    BY <1>1 DEF Rule, ConstRule
  <2> QED BY <1>1, <2>1, OneType, PushTypes, QuietLocal DEF Firm
<1>2. CASE ins.op = "drop"
  BY <1>2, DropLocal, QuietLocal DEF Rule
<1>3. CASE ins.op = "select"
  BY <1>3, SelectLocal, QuietLocal DEF Rule
<1>4. CASE ins.op = "br"
  BY <1>4, BrLocal DEF Rule
<1>5. CASE ins.op = "br_if"
  BY <1>5, BrIfLocal DEF Rule
<1>6. CASE ins.op = "br_table"
  BY <1>6, BrTableLocal DEF Rule
<1>7. CASE ins.op = "br_on_null"
  BY <1>7, BrOnNullLocal DEF Rule
<1>8. CASE ins.op = "br_on_non_null"
  BY <1>8, BrOnNonNullLocal DEF Rule
<1>9. CASE ins.op = "ref.as_non_null"
  BY <1>9, RefAsNonNullLocal, QuietLocal DEF Rule
<1>10. CASE ins.op = "local.get"
  BY <1>10, LocalGetLocal, QuietLocal DEF Rule
<1>11. CASE ins.op \in {"local.set", "local.tee"}
  BY <1>11, LocalSetLocal DEF Rule
<1>12. CASE ins.op = "return"
  BY <1>12, WithTypes, QuietLocal, Tables DEF Rule, ReturnRule
<1>13. CASE ins.op = "unreachable"
  BY <1>13, QuietSelf, QuietLocal DEF Rule, Firm
<1>14. CASE ins.op = "call"
  <2>1. PICK u \in Pop(v, Funcs[ins.func].params) : w = Push(u, Funcs[ins.func].results)
    BY <1>14 DEF Rule, CallRule
  <2>2. Quiet(v, u)
    BY <1>14, <2>1, PopTypes
  <2>3. Quiet(u, w)
    BY <1>14, <2>1, <2>2, PushTypes DEF Quiet
  <2> QED BY <2>2, <2>3, QuietTrans, QuietLocal
<1>15. CASE ins.op = "return_call"
  <2>1. PICK u \in WithTops(v, Funcs[ins.func].params) : w = MarkDead(u)
    BY <1>15 DEF Rule, ReturnCallRule
  <2> QED BY <1>15, <2>1, WithTypes, QuietLocal
<1>16. CASE ins.op = "throw"
  <2>1. PICK u \in Pop(v, TagParams[ins.tag]) : w = MarkDead(u)
    BY <1>16 DEF Rule, ThrowRule
  <2> QED BY <1>16, <2>1, PopTypes, QuietLocal
<1>17. CASE ins.op = "throw_ref"
  <2>1. PICK u \in Pop(v, <<"exnref">>) : w = MarkDead(u)
    BY <1>17 DEF Rule, ThrowRefRule
  <2>2. <<"exnref">> \in Seq(ValueTypes)
    BY OneType DEF ValueTypes, RefTypes
  <2> QED BY <2>1, <2>2, PopTypes, QuietLocal
<1>18. CASE ins.op \notin {"const", "drop", "select", "br", "br_if", "br_table", "br_on_null", "br_on_non_null",
                           "ref.as_non_null", "local.get", "local.set", "local.tee", "return", "unreachable",
                           "call", "return_call", "throw", "throw_ref"}
  BY <1>18 DEF Rule, Structural, Openers
<1> QED BY <1>1, <1>2, <1>3, <1>4, <1>5, <1>6, <1>7, <1>8, <1>9, <1>10, <1>11, <1>12, <1>13, <1>14,
           <1>15, <1>16, <1>17, <1>18

-----------------------------------------------------------------------------
(* What an instruction does to the frames *)

\* The frames stay, only the innermost one may be marked.
Keeps(v, w) ==
  LET f == TopFrame(v)
      g == TopFrame(w)
  IN  /\ w \in States /\ Len(w.ctrl) = Len(v.ctrl)
      /\ w.height <= Len(w.slots) /\ f.entry <= w.height /\ Len(v.slots) <= Len(w.slots)
      /\ \A j \in 1 .. Len(v.ctrl) - 1 : w.ctrl[j] = v.ctrl[j]
      /\ SameFrame(f, g)
      /\ f.inits \subseteq w.inits
      /\ g.enteredDead => g.dead
      /\ \A k \in 1 .. f.entry : w.slots[k] = v.slots[k]
      /\ IsLive(w) => Known(w, w.height)

\* A frame for ins is put on the others.
Opens(v, w, ins) ==
  LET f == TopFrame(w)
  IN  /\ w \in States /\ Len(w.ctrl) = Len(v.ctrl) + 1
      /\ \A j \in 1 .. Len(v.ctrl) : w.ctrl[j] = v.ctrl[j]
      /\ FrameOf(f, ins) /\ ~f.sawElse
      /\ (f.enteredDead <=> TopFrame(v).dead) /\ (f.dead <=> TopFrame(v).dead)
      /\ f.inits = v.inits /\ w.inits = v.inits
      /\ TopFrame(v).entry <= f.entry
      /\ w.height = f.entry + Len(ins.params) /\ w.height <= Len(w.slots) /\ Len(v.slots) <= Len(w.slots)
      /\ \A k \in 1 .. Len(ins.params) : w.slots[f.entry + k] = ins.params[k]
      /\ \A k \in 1 .. TopFrame(v).entry : w.slots[k] = v.slots[k]
      /\ IsLive(v) => f.entry <= v.height /\ \A k \in 1 .. f.entry : w.slots[k] = v.slots[k]

\* The innermost frame is replaced by its results.
Closes(v, w) ==
  LET f == TopFrame(v)
  IN  /\ w \in States /\ Len(w.ctrl) = Len(v.ctrl) - 1
      /\ \A j \in 1 .. Len(v.ctrl) - 1 : w.ctrl[j] = v.ctrl[j]
      /\ w.inits = f.inits
      /\ w.height = f.entry + Len(f.results) /\ w.height <= Len(w.slots) /\ Len(v.slots) <= Len(w.slots)
      /\ \A k \in 1 .. Len(f.results) : w.slots[f.entry + k] = f.results[k]
      /\ \A k \in 1 .. f.entry : w.slots[k] = v.slots[k]

LEMMA GoodFirm ==
  ASSUME NEW v, Good(v), v.ctrl # << >>
  PROVE  Firm(v) /\ ~v.closed
<1>1. v \in States /\ Len(v.ctrl) \in DOMAIN v.ctrl
  BY TopIsFrame DEF Good
<1>2. Ready(v)
  BY <1>1 DEF Good, Nested, Ready, TopFrame
<1>3. ~v.closed
  BY <1>1 DEF States
<1> QED BY <1>2, <1>3 DEF Good, Grounded, Firm

LEMMA FrameFields ==
  ASSUME NEW f \in Frames
  PROVE  /\ f.entry \in Nat /\ f.params \in Seq(ValueTypes) /\ f.results \in Seq(ValueTypes)
         /\ f.inits \subseteq DOMAIN AllLocals
         /\ Len(f.params) \in Nat /\ Len(f.results) \in Nat
<1>1. f.entry \in Nat /\ f.params \in Seq(ValueTypes) /\ f.results \in Seq(ValueTypes)
  BY DEF Frames
<1>2. f.inits \subseteq DOMAIN AllLocals
  BY DEF Frames
<1> QED BY <1>1, <1>2

LEMMA GoodFrames ==
  ASSUME NEW v, Good(v)
  PROVE  /\ v \in States /\ v.ctrl \in Seq(Frames) /\ Len(v.ctrl) \in Nat /\ DOMAIN v.ctrl = 1 .. Len(v.ctrl)
         /\ v.height \in Nat /\ v.height <= Len(v.slots)
         /\ \A i \in DOMAIN v.ctrl : /\ v.ctrl[i] \in Frames /\ v.ctrl[i].entry \in Nat
                                     /\ v.ctrl[i].entry <= v.height /\ v.ctrl[i].inits \subseteq v.inits
                                     /\ Len(v.ctrl[i].params) \in Nat
                                     /\ v.ctrl[i].entry + Len(v.ctrl[i].params) <= Len(v.slots)
BY StateFields, FrameFields DEF Good, Nested

LEMMA MarkDeadIs ==
  ASSUME NEW v, Ready(v), NEW w, w = MarkDead(v)
  PROVE  /\ w \in States /\ Len(w.ctrl) = Len(v.ctrl)
         /\ w.height = TopFrame(v).entry /\ w.slots = v.slots /\ w.inits = v.inits
         /\ \A j \in 1 .. Len(v.ctrl) - 1 : w.ctrl[j] = v.ctrl[j]
         /\ SameFrame(TopFrame(v), TopFrame(w)) /\ TopFrame(w).dead
         /\ TopFrame(w).sawElse <=> TopFrame(v).sawElse
<1> DEFINE n == Len(v.ctrl)
           f == TopFrame(v)
           u == Truncate(v, f.entry)
           g == [f EXCEPT !.dead = TRUE]
<1>1. /\ v \in States /\ v.ctrl # << >> /\ n \in Nat \ {0} /\ n \in DOMAIN v.ctrl /\ DOMAIN v.ctrl = 1 .. n
      /\ f = v.ctrl[n] /\ f \in Frames /\ f.entry \in Nat /\ v.ctrl \in Seq(Frames)
  BY TopIsFrame, StateFields DEF Ready
<1>2. u \in States /\ u.height = f.entry /\ u.slots = v.slots /\ u.inits = v.inits /\ u.ctrl = v.ctrl
  BY <1>1, TruncateIs
<1> HIDE DEF u, f, n
<1>3. w = [u EXCEPT !.ctrl = [v.ctrl EXCEPT ![n] = g]]
  BY <1>1, <1>2 DEF MarkDead, n, u, f
<1>4. g \in Frames /\ SameFrame(f, g) /\ g.dead /\ (g.sawElse <=> f.sawElse)
  BY <1>1 DEF Frames, SameFrame
<1> HIDE DEF g
<1> DEFINE c == [v.ctrl EXCEPT ![n] = g]
<1>5. /\ c \in Seq(Frames) /\ Len(c) = n /\ c[n] = g
      /\ \A j \in 1 .. n - 1 : c[j] = v.ctrl[j]
  BY <1>1, <1>4
<1> HIDE DEF c
<1>6. w = [u EXCEPT !.ctrl = c]
  BY <1>3 DEF c
<1>7. w \in States /\ w.ctrl = c /\ w.height = u.height /\ w.slots = u.slots /\ w.inits = u.inits
  BY <1>2, <1>5, <1>6 DEF States
<1>8. TopFrame(w) = g
  BY <1>5, <1>7 DEF TopFrame
<1> QED BY <1>2, <1>4, <1>5, <1>7, <1>8 DEF n, f

LEMMA SameFrameSelf == ASSUME NEW f PROVE SameFrame(f, f)
BY DEF SameFrame

LEMMA OrdinaryKeeps ==
  ASSUME NEW v, Good(v), v.ctrl # << >>, NEW w, Ordinary(v, w)
  PROVE  Keeps(v, w)
<1>1. PICK u : /\ Quiet(v, u)
               /\ \/ w = u
                  \/ w = MarkDead(u)
                  \/ \E i \in DOMAIN AllLocals : w = [u EXCEPT !.inits = @ \cup {i}]
  BY DEF Ordinary
<1> DEFINE f == TopFrame(v)
           n == Len(v.ctrl)
<1>2. Firm(v) /\ Firm(u) /\ Ready(u) /\ TopFrame(u) = f /\ u.ctrl = v.ctrl /\ u.inits = v.inits
  BY <1>1, GoodFirm, QuietFirm, QuietTop DEF Quiet, Firm
<1>3. /\ n \in DOMAIN v.ctrl /\ n \in Nat /\ f = v.ctrl[n] /\ f.entry \in Nat
      /\ u \in States /\ u.height \in Nat /\ f.entry <= u.height /\ u.height <= Len(u.slots) /\ Len(u.slots) \in Nat
      /\ Len(v.slots) <= Len(u.slots)
  BY <1>1, <1>2, ReadyFacts, TopIsFrame DEF Good, Quiet
<1>4. f.inits \subseteq v.inits /\ (f.enteredDead => f.dead)
  BY <1>3 DEF Good, Nested
<1>5. \A k \in 1 .. f.entry : u.slots[k] = v.slots[k]
  BY <1>1 DEF Quiet
<1>6. IsLive(u) => Known(u, u.height)
  BY <1>2 DEF Firm
<1>7. CASE w = u
  BY <1>2, <1>3, <1>4, <1>5, <1>6, <1>7, SameFrameSelf DEF Keeps
<1>8. CASE w = MarkDead(u)
  <2>1. /\ w \in States /\ Len(w.ctrl) = n /\ w.height = f.entry /\ w.slots = u.slots /\ w.inits = u.inits
        /\ \A j \in 1 .. n - 1 : w.ctrl[j] = v.ctrl[j]
        /\ SameFrame(f, TopFrame(w)) /\ TopFrame(w).dead
    BY <1>2, <1>8, MarkDeadIs
  <2>2. ~IsLive(w)
    BY <2>1 DEF IsLive
  <2>3. w.height <= Len(w.slots) /\ f.entry <= w.height /\ Len(v.slots) <= Len(w.slots)
    BY <2>1, <1>3
  <2> HIDE DEF f, n
  <2>4. \A k \in 1 .. f.entry : w.slots[k] = v.slots[k]
    BY <2>1, <1>5
  <2> QED BY <2>1, <2>2, <2>3, <2>4, <1>2, <1>4 DEF Keeps, f, n
<1>9. CASE \E i \in DOMAIN AllLocals : w = [u EXCEPT !.inits = @ \cup {i}]
  <2>1. PICK i \in DOMAIN AllLocals : w = [u EXCEPT !.inits = @ \cup {i}]
    BY <1>9
  <2>2. u.inits \subseteq DOMAIN AllLocals
    BY <1>3, StateFields
  <2>3. /\ w \in States /\ w.ctrl = u.ctrl /\ w.height = u.height /\ w.slots = u.slots
        /\ w.inits = u.inits \cup {i}
    BY <1>3, <2>1, <2>2 DEF States
  <2>4. TopFrame(w) = f
    BY <2>3, <1>2 DEF TopFrame
  <2>5. IsLive(w) => Known(w, w.height)
    BY <2>3, <2>4, <1>2, <1>6 DEF IsLive, Known
  <2> QED BY <2>3, <2>4, <2>5, <1>2, <1>3, <1>4, <1>5, SameFrameSelf DEF Keeps
<1> QED BY <1>1, <1>7, <1>8, <1>9

LEMMA ElseKeeps ==
  ASSUME NEW v, Good(v), NEW w \in ElseRule(v), Honest(v)
  PROVE  /\ Keeps(v, w) /\ v.ctrl # << >>
         /\ TopFrame(v).kind = "if" /\ ~TopFrame(v).sawElse /\ TopFrame(w).sawElse
         /\ FrameResult(v, TopFrame(v))
         /\ w.height = TopFrame(v).entry + Len(TopFrame(v).params) /\ w.slots = v.slots
         /\ w.inits = TopFrame(v).inits
         /\ TopFrame(w).dead <=> TopFrame(v).enteredDead
<1> DEFINE f == TopFrame(v)
           n == Len(v.ctrl)
           m == f.entry + Len(f.params)
           u == Truncate(v, m)
           g == [f EXCEPT !.sawElse = TRUE, !.dead = f.enteredDead]
           c == [v.ctrl EXCEPT ![n] = g]
<1>1. v.ctrl # << >> /\ f.kind = "if" /\ ~f.sawElse /\ FrameResult(v, f) /\ w = ElseArm(v, f)
  BY DEF ElseRule
<1>2. /\ v \in States /\ n \in Nat \ {0} /\ n \in DOMAIN v.ctrl /\ DOMAIN v.ctrl = 1 .. n
      /\ f = v.ctrl[n] /\ f \in Frames /\ f.entry \in Nat /\ v.ctrl \in Seq(Frames)
      /\ v.height \in Nat /\ Len(v.slots) \in Nat /\ f.entry <= v.height /\ v.height <= Len(v.slots)
  BY <1>1, TopIsFrame, StateFields, GoodFirm, ReadyFacts DEF Good, Firm
<1>4. /\ f.params \in Seq(ValueTypes) /\ Len(f.params) \in Nat /\ m \in Nat
      /\ f.entry <= m /\ m <= Len(v.slots)
  <2>1. f.params \in Seq(ValueTypes) /\ f.entry + Len(f.params) <= Len(v.slots)
    BY <1>2, FrameFields, GoodFrames
  <2> HIDE DEF f
  <2> QED BY <2>1, <1>2, SMTT(60)
<1> HIDE DEF m
<1>3. u \in States /\ u.height = m /\ u.slots = v.slots /\ u.inits = v.inits /\ u.ctrl = v.ctrl
  BY <1>2, <1>4, TruncateIs
<1>5. f.inits \subseteq DOMAIN AllLocals
  BY <1>2, FrameFields
<1>6. /\ g \in Frames /\ SameFrame(f, g) /\ g.sawElse /\ (g.dead <=> f.enteredDead)
      /\ (g.enteredDead <=> f.enteredDead)
  BY <1>2 DEF Frames, SameFrame
<1>7. w = [u EXCEPT !.inits = f.inits, !.ctrl = c]
  <2>1. ElseArm(v, f) = [u EXCEPT !.inits = f.inits,
                           !.ctrl[n].sawElse = TRUE, !.ctrl[n].dead = f.enteredDead]
    BY DEF ElseArm, m
  <2> HIDE DEF f, n
  <2>2. [[v.ctrl EXCEPT ![n].sawElse = TRUE] EXCEPT ![n].dead = f.enteredDead] = c
    BY <1>2
  <2> HIDE DEF u, c
  <2> QED BY <2>1, <2>2, <1>1, <1>3 DEF States
<1> HIDE DEF g, f, n, u
<1>8. /\ c \in Seq(Frames) /\ Len(c) = n /\ c[n] = g
      /\ \A j \in 1 .. n - 1 : c[j] = v.ctrl[j]
  BY <1>2, <1>6
<1> HIDE DEF c
<1>9. w \in States /\ w.ctrl = c /\ w.height = u.height /\ w.slots = u.slots /\ w.inits = f.inits
  BY <1>3, <1>5, <1>7, <1>8 DEF States
<1>10. TopFrame(w) = g
  BY <1>8, <1>9 DEF TopFrame
<1>11. ASSUME IsLive(w) PROVE Known(w, w.height)
  <2>1. ~f.enteredDead
    BY <1>6, <1>10, <1>11 DEF IsLive
  <2>2. Known(v, f.entry)
    BY <2>1, <1>2 DEF Good, Grounded
  <2>3. \A k \in DOMAIN f.params : Matches(f.params[k], v.slots[f.entry + k])
    BY <2>1 DEF Honest, f
  <2>4. SUFFICES ASSUME NEW k \in 1 .. m PROVE v.slots[k] # Unknown
    BY <1>3, <1>9 DEF Known
  <2>5. CASE k <= f.entry
    <3>1. k \in 1 .. f.entry
      BY <2>5, <1>2
    <3> QED BY <3>1, <2>2 DEF Known
  <2>6. CASE k > f.entry
    <3>1. k - f.entry \in DOMAIN f.params /\ f.entry + (k - f.entry) = k
      BY <2>6, <1>2, <1>4, SMTT(60) DEF m
    <3>2. Matches(f.params[k - f.entry], v.slots[k]) /\ f.params[k - f.entry] \in ValueTypes
      BY <3>1, <2>3, <1>4
    <3>3. ~Matches(f.params[k - f.entry], Unknown)
      BY <3>2, SlotTypes DEF Matches, ValueTypes, RefTypes
    <3> QED BY <3>2, <3>3
  <2> QED BY <2>5, <2>6, <1>2
<1> QED BY <1>1, <1>2, <1>3, <1>4, <1>6, <1>8, <1>9, <1>10, <1>11, SMTT(60) DEF Keeps, f, n, m

LEMMA OpenFrameOpens ==
  ASSUME NEW v, Firm(v), NEW ins, IsInstr(ins), ins.op \in Openers,
         NEW u, Quiet(v, u), IsLive(v) => u.height <= v.height /\ u.slots = v.slots,
         NEW w \in OpenFrame(u, ins)
  PROVE  Opens(v, w, ins)
<1> DEFINE types == ins.params
           n == Len(v.ctrl)
<1>1. types \in Seq(ValueTypes) /\ types \in Seq(Slots) /\ Len(types) \in Nat /\ ins.results \in Seq(ValueTypes)
  BY Immediates, TypesTypeable
<1>2. Firm(u) /\ TopFrame(u) = TopFrame(v) /\ (IsLive(u) <=> IsLive(v))
  BY QuietFirm, QuietTop
<1>3. PICK x \in WithTops(u, types) :
         w = [Retype(x, types) EXCEPT
               !.ctrl = Append(Retype(x, types).ctrl,
                               Frame(ins.op, x.height - Len(types), types, ins.results, x.inits,
                                     Retype(x, types).ctrl # << >> /\ TopFrame(x).dead))]
  BY DEF OpenFrame
<1>4. Quiet(u, x) /\ x.height >= TopFrame(u).entry + Len(types) /\ (IsLive(u) => x = u)
  BY <1>1, <1>2, QuietWithTops DEF Firm
<1>5. Quiet(v, x)
  BY <1>4, QuietTrans
<1>6. Firm(x) /\ TopFrame(x) = TopFrame(v) /\ x.ctrl = v.ctrl /\ x.inits = v.inits
  BY <1>5, QuietFirm, QuietTop DEF Quiet
<1>7. /\ x \in States /\ x.height \in Nat /\ Len(x.slots) \in Nat /\ x.height <= Len(x.slots)
      /\ TopFrame(v).entry \in Nat /\ v.ctrl # << >> /\ v.ctrl \in Seq(Frames)
      /\ v.inits \subseteq DOMAIN AllLocals
      /\ Len(v.slots) \in Nat /\ Len(v.slots) <= Len(x.slots)
  BY <1>2, <1>5, <1>6, ReadyFacts, StateFields DEF Firm, Quiet
<1> DEFINE y == Retype(x, types)
           entry == x.height - Len(types)
<1>8. entry \in Nat /\ entry + Len(types) = x.height /\ TopFrame(v).entry <= entry /\ Len(types) <= x.height
  BY <1>1, <1>2, <1>4, <1>7
<1>9. /\ y \in States /\ y.height = x.height /\ y.height <= Len(y.slots) /\ Len(x.slots) <= Len(y.slots)
      /\ y.inits = x.inits /\ y.ctrl = x.ctrl
      /\ \A k \in 1 .. entry : y.slots[k] = x.slots[k]
      /\ \A k \in 1 .. Len(types) : y.slots[entry + k] = types[k]
  <2>1. y = Retype(x, types) /\ x \in States /\ x.height <= Len(x.slots) /\ types \in Seq(Slots)
        /\ Len(types) <= x.height /\ entry = x.height - Len(types)
    BY <1>1, <1>7, <1>8
  <2> HIDE DEF y, entry, types
  <2> QED BY <2>1, RetypeIs
<1> HIDE DEF y
<1> DEFINE dead == v.ctrl # << >> /\ TopFrame(v).dead
           f == Frame(ins.op, entry, types, ins.results, v.inits, dead)
           c == Append(v.ctrl, f)
<1>10. w = [y EXCEPT !.ctrl = c]
  BY <1>3, <1>6, <1>9 DEF y
<1> HIDE DEF entry
<1>11. dead \in BOOLEAN /\ (dead <=> TopFrame(v).dead)
  <2>1. TopFrame(v) \in Frames
    BY <1>6, <1>7, TopIsFrame
  <2> QED BY <1>7, <2>1 DEF Frames
<1> HIDE DEF dead
<1>12. /\ f \in Frames /\ FrameOf(f, ins) /\ ~f.sawElse /\ (f.enteredDead <=> dead) /\ (f.dead <=> dead)
       /\ f.inits = v.inits /\ f.entry = entry
  BY <1>1, <1>7, <1>8, <1>11 DEF Frame, Frames, FrameOf
<1> HIDE DEF f
<1>13. /\ c \in Seq(Frames) /\ Len(c) = n + 1 /\ c[n + 1] = f /\ n \in Nat
       /\ \A j \in 1 .. n : c[j] = v.ctrl[j]
  BY <1>7, <1>12
<1> HIDE DEF c
<1>14. /\ w \in States /\ w.ctrl = c /\ w.height = y.height /\ w.slots = y.slots /\ w.inits = v.inits
  BY <1>6, <1>9, <1>10, <1>13 DEF States
<1>15. TopFrame(w) = f
  BY <1>13, <1>14 DEF TopFrame
<1>16. \A k \in 1 .. TopFrame(v).entry : w.slots[k] = v.slots[k]
  <2>1. \A k \in 1 .. TopFrame(v).entry : x.slots[k] = v.slots[k]
    BY <1>5 DEF Quiet
  <2>2. \A k \in 1 .. TopFrame(v).entry : k \in 1 .. entry
    BY <1>7, <1>8
  <2> QED BY <2>1, <2>2, <1>9, <1>14
<1>17. IsLive(v) => entry <= v.height /\ \A k \in 1 .. entry : w.slots[k] = v.slots[k]
  <2>1. SUFFICES ASSUME IsLive(v) PROVE entry <= v.height /\ \A k \in 1 .. entry : w.slots[k] = v.slots[k]
    OBVIOUS
  <2>2. x.height <= v.height /\ x.slots = v.slots /\ v.height \in Nat
    BY <2>1, <1>2, <1>4, ReadyFacts DEF Firm
  <2> QED BY <2>2, <1>1, <1>7, <1>8, <1>9, <1>14
<1>18. Len(v.slots) <= Len(w.slots)
  <2>1. Len(y.slots) \in Nat
    BY <1>9, StateFields
  <2> QED BY <2>1, <1>7, <1>9, <1>14
<1> HIDE DEF n
<1> QED BY <1>6, <1>8, <1>9, <1>11, <1>12, <1>13, <1>14, <1>15, <1>16, <1>17, <1>18 DEF Opens, n

LEMMA OpenerOpens ==
  ASSUME NEW v, Firm(v), ~v.closed, NEW ins, IsInstr(ins), ins.op \in Openers, NEW w \in Rule(v, ins)
  PROVE  Opens(v, w, ins)
<1>1. Quiet(v, v)
  BY QuietSelf DEF Firm
<1>2. v.height \in Nat
  BY ReadyFacts DEF Firm
<1>3. CASE ins.op \in {"block", "loop", "try_table"}
  <2>1. w \in OpenFrame(v, ins)
    BY <1>3 DEF Rule, TryTableRule
  <2> QED BY <1>1, <1>2, <2>1, OpenFrameOpens
<1>4. CASE ins.op = "if"
  <2>1. PICK x \in Ensure(v, 1 + Len(ins.params)) : w \in OpenFrame(Truncate(x, x.height - 1), ins)
    BY <1>4 DEF Rule, IfRule
  <2> DEFINE u == Truncate(x, x.height - 1)
  <2>2. 1 + Len(ins.params) \in Nat /\ 1 + Len(ins.params) >= 1
    BY Immediates, TypesTypeable
  <2>3. Quiet(v, u) /\ (IsLive(v) => u = Truncate(v, v.height - 1)) /\ u.height \in Nat /\ u.height = x.height - 1
        /\ (IsLive(v) => x = v)
    BY <2>1, <2>2, EnsureDrop
  <2>4. IsLive(v) => u.height <= v.height /\ u.slots = v.slots
    BY <2>3, <1>2 DEF Truncate
  <2> HIDE DEF u
  <2> QED BY <2>1, <2>3, <2>4, OpenFrameOpens DEF u
<1> QED BY <1>3, <1>4 DEF Openers

LEMMA EndCloses ==
  ASSUME NEW v, Good(v), v.ctrl # << >>, NEW w \in EndRule(v)
  PROVE  /\ Closes(v, w)
         /\ FrameResult(v, TopFrame(v)) /\ ~NeedsElse(TopFrame(v))
<1> DEFINE f == TopFrame(v)
           n == Len(v.ctrl)
           c == Front(v.ctrl)
           x == [v EXCEPT !.ctrl = c, !.inits = f.inits]
           y == Truncate(x, f.entry)
<1>1. FrameResult(v, f) /\ ~NeedsElse(f) /\ w = Push(y, f.results)
  BY DEF EndRule
<1>2. /\ v \in States /\ f \in Frames /\ f.entry \in Nat /\ v.ctrl \in Seq(Frames) /\ f.entry <= v.height
      /\ v.height \in Nat /\ v.height <= Len(v.slots) /\ Len(v.slots) \in Nat
  BY GoodFirm, ReadyFacts, TopIsFrame, StateFields DEF Firm
<1>3. /\ c \in Seq(Frames) /\ Len(c) = n - 1 /\ \A j \in 1 .. n - 1 : c[j] = v.ctrl[j]
  BY <1>2, FrontIs
<1>4. /\ f.inits \subseteq DOMAIN AllLocals /\ f.results \in Seq(ValueTypes) /\ f.results \in Seq(Slots)
      /\ Len(f.results) \in Nat
  BY <1>2, FrameFields, TypesTypeable
<1> HIDE DEF f, c, n
<1>5. x \in States /\ x.ctrl = c /\ x.inits = f.inits /\ x.slots = v.slots
  BY <1>2, <1>3, <1>4 DEF States
<1> HIDE DEF x
<1>6. y \in States /\ y.height = f.entry /\ y.slots = v.slots /\ y.ctrl = c /\ y.inits = f.inits
  BY <1>2, <1>5, TruncateIs
<1> HIDE DEF y
<1>7. y.height <= Len(y.slots)
  BY <1>2, <1>6
<1>8. /\ w \in States /\ w.height = y.height + Len(f.results) /\ w.height <= Len(w.slots)
      /\ Len(y.slots) <= Len(w.slots)
      /\ w.inits = y.inits /\ w.ctrl = y.ctrl
      /\ \A k \in 1 .. y.height : w.slots[k] = y.slots[k]
      /\ \A k \in 1 .. Len(f.results) : w.slots[y.height + k] = f.results[k]
  BY <1>1, <1>4, <1>6, <1>7, PushIs, SMTT(60)
<1> QED BY <1>1, <1>3, <1>6, <1>8 DEF Closes, f, n

-----------------------------------------------------------------------------
(* Good is kept *)

LEMMA StillRoom ==
  ASSUME NEW e \in Nat, NEW k \in Nat, NEW n \in Nat, NEW m \in Nat, e + k <= n, n <= m
  PROVE  e + k <= m
OBVIOUS

LEMMA KeepsGood ==
  ASSUME NEW v, Good(v), v.ctrl # << >>, NEW w, Keeps(v, w)
  PROVE  /\ Good(w) /\ w.ctrl # << >>
         /\ \A i \in DOMAIN v.ctrl : Same(v, w, i)
<1> DEFINE n == Len(v.ctrl)
           f == v.ctrl[n]
           g == w.ctrl[n]
<1>1. /\ v \in States /\ n \in Nat /\ n # 0 /\ n \in DOMAIN v.ctrl /\ DOMAIN v.ctrl = 1 .. n /\ f = TopFrame(v)
      /\ f.entry \in Nat
  BY TopIsFrame DEF Good
<1>2. /\ w \in States /\ Len(w.ctrl) = n /\ g = TopFrame(w) /\ w.ctrl \in Seq(Frames) /\ DOMAIN w.ctrl = 1 .. n
      /\ w.height \in Nat /\ w.ctrl # << >>
  <2>1. w \in States /\ Len(w.ctrl) = n
    BY DEF Keeps
  <2>2. w.ctrl \in Seq(Frames) /\ w.height \in Nat
    BY <2>1, StateFields
  <2> QED BY <2>1, <2>2, <1>1 DEF TopFrame
<1>3. /\ w.height <= Len(w.slots) /\ f.entry <= w.height /\ Len(v.slots) <= Len(w.slots)
      /\ \A j \in 1 .. n - 1 : w.ctrl[j] = v.ctrl[j]
      /\ SameFrame(f, g)
      /\ f.inits \subseteq w.inits
      /\ g.enteredDead => g.dead
      /\ \A k \in 1 .. f.entry : w.slots[k] = v.slots[k]
      /\ IsLive(w) => Known(w, w.height)
  BY <1>1, <1>2 DEF Keeps
<1>4. /\ \A i \in 1 .. n : v.ctrl[i].entry \in Nat /\ v.ctrl[i].entry <= f.entry /\ v.ctrl[i].inits \subseteq f.inits
      /\ \A i \in 1 .. n : v.ctrl[i].enteredDead => v.ctrl[i].dead
      /\ \A i \in 2 .. n : v.ctrl[i].enteredDead => v.ctrl[i - 1].dead
      /\ \A i, j \in 1 .. n : i < j => /\ v.ctrl[i].entry <= v.ctrl[j].entry
                                       /\ v.ctrl[i].inits \subseteq v.ctrl[j].inits
                                       /\ v.ctrl[i].dead => v.ctrl[j].enteredDead
  <2>1. ASSUME NEW i \in 1 .. n
        PROVE v.ctrl[i].entry \in Nat /\ v.ctrl[i].entry <= f.entry /\ v.ctrl[i].inits \subseteq f.inits
    <3>1. v.ctrl[i].entry \in Nat
      BY <1>1, GoodFrames
    <3>2. CASE i = n
      BY <3>1, <3>2
    <3>3. CASE i < n
      BY <3>1, <3>3, <1>1 DEF Good, Nested
    <3> QED BY <3>2, <3>3, <1>1
  <2> QED BY <2>1, <1>1 DEF Good, Nested
<1>5. /\ g.kind = f.kind /\ g.entry = f.entry /\ g.params = f.params /\ g.results = f.results
      /\ g.inits = f.inits /\ (g.enteredDead <=> f.enteredDead) /\ (f.sawElse => g.sawElse)
  BY <1>3 DEF SameFrame
<1> HIDE DEF f, g
<1>6. \A i \in 1 .. n : i = n \/ i \in 1 .. n - 1
  BY <1>1
<1>7. \A i \in 1 .. n : /\ w.ctrl[i].entry = v.ctrl[i].entry /\ w.ctrl[i].inits = v.ctrl[i].inits
                        /\ w.ctrl[i].enteredDead <=> v.ctrl[i].enteredDead
                        /\ SameFrame(v.ctrl[i], w.ctrl[i])
                        /\ w.ctrl[i].enteredDead => w.ctrl[i].dead
  <2> SUFFICES ASSUME NEW i \in 1 .. n
               PROVE  /\ w.ctrl[i].entry = v.ctrl[i].entry /\ w.ctrl[i].inits = v.ctrl[i].inits
                      /\ w.ctrl[i].enteredDead <=> v.ctrl[i].enteredDead
                      /\ SameFrame(v.ctrl[i], w.ctrl[i])
                      /\ w.ctrl[i].enteredDead => w.ctrl[i].dead
    OBVIOUS
  <2>1. CASE i = n
    BY <2>1, <1>3, <1>5 DEF f, g
  <2>2. CASE i \in 1 .. n - 1
    BY <2>2, <1>3, <1>4, SameFrameSelf
  <2> QED BY <2>1, <2>2, <1>6
<1>8. Nested(w)
  <2>1. ASSUME NEW i \in 1 .. n PROVE w.ctrl[i].entry <= w.height /\ w.ctrl[i].inits \subseteq w.inits
    <3>1. w.ctrl[i].entry = v.ctrl[i].entry /\ w.ctrl[i].inits = v.ctrl[i].inits
      BY <1>7
    <3> QED BY <3>1, <1>1, <1>2, <1>3, <1>4, SMTT(60)
  <2>2. ASSUME NEW i \in 1 .. n, NEW j \in 1 .. n, i < j
        PROVE /\ w.ctrl[i].entry <= w.ctrl[j].entry
              /\ w.ctrl[i].inits \subseteq w.ctrl[j].inits
              /\ w.ctrl[i].dead => w.ctrl[j].enteredDead
    <3>1. i \in 1 .. n - 1
      BY <2>2, <1>1
    <3> QED BY <3>1, <2>2, <1>3, <1>4, <1>7
  <2>3. ASSUME NEW i \in 2 .. n, w.ctrl[i].enteredDead PROVE w.ctrl[i - 1].dead
    <3>1. i \in 1 .. n /\ i - 1 \in 1 .. n - 1
      BY <1>1
    <3> QED BY <3>1, <2>3, <1>3, <1>4, <1>7
  <2>4. ASSUME NEW i \in 1 .. n PROVE w.ctrl[i].entry + Len(w.ctrl[i].params) <= Len(w.slots)
    <3>1. w.ctrl[i].entry = v.ctrl[i].entry /\ w.ctrl[i].params = v.ctrl[i].params
      BY <1>7 DEF SameFrame
    <3>2. /\ v.ctrl[i].entry \in Nat /\ Len(v.ctrl[i].params) \in Nat
          /\ v.ctrl[i].entry + Len(v.ctrl[i].params) <= Len(v.slots)
      BY <1>1, GoodFrames
    <3>3. Len(v.slots) \in Nat /\ Len(w.slots) \in Nat
      BY <1>1, <1>2, StateFields
    <3> QED BY <3>1, <3>2, <3>3, <1>3, SMTT(60)
  <2> QED BY <2>1, <2>2, <2>3, <2>4, <1>2, <1>3, <1>7 DEF Nested
<1>9. Rooted(w)
  <2>1. 1 \in 1 .. n /\ SameFrame(v.ctrl[1], w.ctrl[1])
    BY <1>1, <1>7
  <2> QED BY <2>1, <1>7, <1>2 DEF Rooted, SameFrame, Good
<1>10. Grounded(w)
  <2>1. ASSUME NEW i \in 1 .. n, ~w.ctrl[i].enteredDead PROVE Known(w, w.ctrl[i].entry)
    <3>1. Known(v, v.ctrl[i].entry)
      BY <2>1, <1>1, <1>7 DEF Good, Grounded
    <3>2. \A k \in 1 .. v.ctrl[i].entry : k \in 1 .. f.entry
      BY <1>1, <1>4
    <3> QED BY <3>1, <3>2, <1>3, <1>7 DEF Known
  <2> QED BY <2>1, <1>2, <1>3 DEF Grounded
<1>11. ASSUME NEW i \in 1 .. n PROVE Same(v, w, i)
  <2>1. \A j \in 1 .. i - 1 : j \in 1 .. n - 1
    BY <1>1
  <2>2. \A k \in 1 .. v.ctrl[i].entry : k \in 1 .. f.entry
    BY <1>1, <1>4
  <2> QED BY <2>1, <2>2, <1>1, <1>2, <1>3, <1>7 DEF Same
<1> QED BY <1>1, <1>2, <1>8, <1>9, <1>10, <1>11 DEF Good

LEMMA OpensGood ==
  ASSUME NEW v, Good(v), v.ctrl # << >>, NEW ins, IsInstr(ins), ins.op \in Openers, NEW w, Opens(v, w, ins)
  PROVE  /\ Good(w) /\ Len(w.ctrl) = Len(v.ctrl) + 1
         /\ \A i \in DOMAIN v.ctrl : Same(v, w, i)
<1> DEFINE n == Len(v.ctrl)
           f == v.ctrl[n]
           g == w.ctrl[n + 1]
<1>1. /\ v \in States /\ n \in Nat /\ n # 0 /\ n \in DOMAIN v.ctrl /\ DOMAIN v.ctrl = 1 .. n /\ f = TopFrame(v)
      /\ f.entry \in Nat /\ v.height \in Nat /\ v.inits \subseteq DOMAIN AllLocals
  BY TopIsFrame, StateFields DEF Good
<1>2. w \in States /\ Len(w.ctrl) = n + 1
  BY DEF Opens
<1>3. w.ctrl \in Seq(Frames) /\ w.height \in Nat /\ Len(w.slots) \in Nat
  BY <1>2, StateFields
<1>4. /\ g = TopFrame(w) /\ DOMAIN w.ctrl = 1 .. n + 1 /\ n + 1 \in DOMAIN w.ctrl /\ g \in Frames
      /\ w.ctrl # << >>
  BY <1>1, <1>2, <1>3 DEF TopFrame
<1>5. g.entry \in Nat /\ Len(ins.params) \in Nat /\ ins.params \in Seq(ValueTypes)
  BY <1>4, FrameFields, Immediates, TypesTypeable
<1>6. /\ \A j \in 1 .. n : w.ctrl[j] = v.ctrl[j]
      /\ (g.enteredDead <=> f.dead) /\ (g.dead <=> f.dead)
      /\ g.inits = v.inits /\ w.inits = v.inits
      /\ f.entry <= g.entry
      /\ w.height = g.entry + Len(ins.params) /\ w.height <= Len(w.slots)
      /\ Len(v.slots) <= Len(w.slots) /\ g.params = ins.params
      /\ \A k \in 1 .. Len(ins.params) : w.slots[g.entry + k] = ins.params[k]
      /\ \A k \in 1 .. f.entry : w.slots[k] = v.slots[k]
      /\ IsLive(v) => g.entry <= v.height /\ \A k \in 1 .. g.entry : w.slots[k] = v.slots[k]
  BY <1>1, <1>4 DEF Opens, FrameOf
<1>7. /\ \A i \in 1 .. n : /\ v.ctrl[i].entry \in Nat /\ v.ctrl[i].entry <= f.entry
                           /\ v.ctrl[i].inits \subseteq v.inits
                           /\ v.ctrl[i].enteredDead => v.ctrl[i].dead
                           /\ v.ctrl[i].dead => f.dead
      /\ \A i \in 2 .. n : v.ctrl[i].enteredDead => v.ctrl[i - 1].dead
      /\ \A i, j \in 1 .. n : i < j => /\ v.ctrl[i].entry <= v.ctrl[j].entry
                                       /\ v.ctrl[i].inits \subseteq v.ctrl[j].inits
                                       /\ v.ctrl[i].dead => v.ctrl[j].enteredDead
  <2>1. ASSUME NEW i \in 1 .. n
        PROVE  /\ v.ctrl[i].entry \in Nat /\ v.ctrl[i].entry <= f.entry
               /\ v.ctrl[i].inits \subseteq v.inits
               /\ v.ctrl[i].enteredDead => v.ctrl[i].dead
               /\ v.ctrl[i].dead => f.dead
    <3>1. v.ctrl[i].entry \in Nat /\ v.ctrl[i].inits \subseteq v.inits
      BY <1>1, GoodFrames
    <3>2. v.ctrl[i].enteredDead => v.ctrl[i].dead
      BY <1>1 DEF Good, Nested
    <3>3. CASE i = n
      BY <3>1, <3>2, <3>3
    <3>4. CASE i < n
      <4>1. v.ctrl[i].entry <= f.entry /\ (v.ctrl[i].dead => f.enteredDead) /\ (f.enteredDead => f.dead)
        BY <3>4, <1>1 DEF Good, Nested
      <4> QED BY <3>1, <3>2, <4>1
    <3> QED BY <3>3, <3>4, <1>1
  <2> QED BY <2>1, <1>1 DEF Good, Nested
<1> HIDE DEF f, g
<1>8. \A i \in 1 .. n + 1 : i = n + 1 \/ i \in 1 .. n
  BY <1>1
<1>9. Nested(w)
  <2>1. ASSUME NEW i \in 1 .. n + 1
        PROVE  /\ w.ctrl[i].entry <= w.height /\ w.ctrl[i].inits \subseteq w.inits
               /\ w.ctrl[i].enteredDead => w.ctrl[i].dead
    <3>1. CASE i = n + 1
      BY <3>1, <1>5, <1>6 DEF g
    <3>2. CASE i \in 1 .. n
      <4>1. v.ctrl[i].entry <= w.height
        BY <3>2, <1>1, <1>5, <1>6, <1>7, SMTT(60)
      <4> QED BY <3>2, <4>1, <1>6, <1>7
    <3> QED BY <3>1, <3>2, <1>8
  <2>2. ASSUME NEW i \in 1 .. n + 1, NEW j \in 1 .. n + 1, i < j
        PROVE /\ w.ctrl[i].entry <= w.ctrl[j].entry
              /\ w.ctrl[i].inits \subseteq w.ctrl[j].inits
              /\ w.ctrl[i].dead => w.ctrl[j].enteredDead
    <3>1. i \in 1 .. n
      BY <2>2, <1>1
    <3>2. CASE j = n + 1
      <4>1. v.ctrl[i].entry <= g.entry
        BY <3>1, <1>1, <1>5, <1>6, <1>7, SMTT(60)
      <4> QED BY <3>1, <3>2, <4>1, <1>6, <1>7 DEF g
    <3>3. CASE j \in 1 .. n
      BY <3>1, <3>3, <2>2, <1>6, <1>7
    <3> QED BY <3>2, <3>3, <1>8
  <2>3. ASSUME NEW i \in 2 .. n + 1, w.ctrl[i].enteredDead PROVE w.ctrl[i - 1].dead
    <3>1. CASE i = n + 1
      <4>1. i - 1 = n /\ n \in 1 .. n
        BY <3>1, <1>1
      <4> QED BY <2>3, <3>1, <4>1, <1>6 DEF f, g
    <3>2. CASE i # n + 1
      <4>1. i \in 2 .. n /\ i \in 1 .. n /\ i - 1 \in 1 .. n
        BY <3>2, <1>1
      <4> QED BY <2>3, <4>1, <1>6, <1>7
    <3> QED BY <3>1, <3>2
  <2>4. ASSUME NEW i \in 1 .. n + 1 PROVE w.ctrl[i].entry + Len(w.ctrl[i].params) <= Len(w.slots)
    <3>1. CASE i = n + 1
      BY <3>1, <1>6 DEF g
    <3>2. CASE i \in 1 .. n
      <4>1. /\ v.ctrl[i].entry \in Nat /\ Len(v.ctrl[i].params) \in Nat
            /\ v.ctrl[i].entry + Len(v.ctrl[i].params) <= Len(v.slots)
        BY <3>2, <1>1, GoodFrames
      <4>2. Len(v.slots) \in Nat
        BY <1>1, StateFields
      <4>3. w.ctrl[i].entry = v.ctrl[i].entry /\ w.ctrl[i].params = v.ctrl[i].params
        BY <3>2, <1>6
      <4>4. Len(w.slots) \in Nat /\ Len(v.slots) <= Len(w.slots)
        BY <1>3, <1>6
      <4> QED BY <4>1, <4>2, <4>3, <4>4, StillRoom
    <3> QED BY <3>1, <3>2, <1>8
  <2> QED BY <2>1, <2>2, <2>3, <2>4, <1>2, <1>4, <1>6 DEF Nested
<1>10. Rooted(w)
  <2>1. 1 \in 1 .. n
    BY <1>1
  <2> QED BY <2>1, <1>6 DEF Rooted, Good
<1>11. Grounded(w)
  <2>1. ~f.dead => IsLive(v) /\ Known(v, v.height)
    BY <1>1 DEF Good, Grounded, IsLive
  <2>2. ~f.dead => Known(w, g.entry)
    <3>1. SUFFICES ASSUME ~f.dead, NEW k \in 1 .. g.entry PROVE w.slots[k] # Unknown
      BY DEF Known
    <3>2. k \in 1 .. v.height /\ w.slots[k] = v.slots[k]
      BY <3>1, <2>1, <1>1, <1>5, <1>6
    <3> QED BY <3>1, <3>2, <2>1 DEF Known
  <2>3. ASSUME NEW i \in 1 .. n + 1, ~w.ctrl[i].enteredDead PROVE Known(w, w.ctrl[i].entry)
    <3>1. CASE i = n + 1
      BY <2>2, <2>3, <3>1, <1>6 DEF g
    <3>2. CASE i \in 1 .. n
      <4>1. ~v.ctrl[i].enteredDead /\ w.ctrl[i].entry = v.ctrl[i].entry
        BY <2>3, <3>2, <1>6
      <4>2. Known(v, v.ctrl[i].entry)
        BY <3>2, <4>1, <1>1 DEF Good, Grounded
      <4>3. \A k \in 1 .. v.ctrl[i].entry : k \in 1 .. f.entry
        BY <3>2, <1>1, <1>7
      <4> QED BY <4>1, <4>2, <4>3, <1>6 DEF Known
    <3> QED BY <3>1, <3>2, <1>8
  <2>4. ASSUME IsLive(w) PROVE Known(w, w.height)
    <3>1. ~f.dead
      BY <2>4, <1>4, <1>6 DEF IsLive
    <3>2. SUFFICES ASSUME NEW k \in 1 .. w.height PROVE w.slots[k] # Unknown
      BY DEF Known
    <3>3. CASE k <= g.entry
      <4>1. k \in 1 .. g.entry
        BY <3>3, <1>5
      <4> QED BY <4>1, <3>1, <2>2 DEF Known
    <3>4. CASE k > g.entry
      <4>1. k - g.entry \in 1 .. Len(ins.params) /\ g.entry + (k - g.entry) = k
        BY <3>4, <1>5, <1>6
      <4>2. w.slots[k] = ins.params[k - g.entry] /\ ins.params[k - g.entry] \in ValueTypes
        BY <4>1, <1>5, <1>6, SMTT(60)
      <4> QED BY <4>2, SlotTypes
    <3> QED BY <3>3, <3>4, <1>5
  <2> QED BY <2>3, <2>4, <1>4 DEF Grounded
<1>12. ASSUME NEW i \in 1 .. n PROVE Same(v, w, i)
  <2>1. \A j \in 1 .. i - 1 : j \in 1 .. n
    BY <1>1
  <2>2. \A k \in 1 .. v.ctrl[i].entry : k \in 1 .. f.entry
    BY <1>1, <1>7
  <2>3. i \in 1 .. n + 1
    BY <1>1
  <2> QED BY <2>1, <2>2, <2>3, <1>1, <1>4, <1>6, SameFrameSelf DEF Same
<1> QED BY <1>1, <1>2, <1>9, <1>10, <1>11, <1>12 DEF Good

LEMMA ClosesGood ==
  ASSUME NEW v, Good(v), v.ctrl # << >>, NEW w, Closes(v, w)
  PROVE  /\ Good(w)
         /\ \A i \in DOMAIN w.ctrl : Same(v, w, i)
<1> DEFINE n == Len(v.ctrl)
           f == v.ctrl[n]
<1>1. /\ v \in States /\ n \in Nat /\ n # 0 /\ n \in DOMAIN v.ctrl /\ DOMAIN v.ctrl = 1 .. n /\ f = TopFrame(v)
      /\ f.entry \in Nat /\ v.height \in Nat /\ f \in Frames
  BY TopIsFrame, StateFields DEF Good
<1>2. w \in States /\ Len(w.ctrl) = n - 1
  BY DEF Closes
<1>3. w.ctrl \in Seq(Frames) /\ w.height \in Nat /\ Len(w.slots) \in Nat /\ DOMAIN w.ctrl = 1 .. n - 1
  BY <1>2, StateFields
<1>4. f.results \in Seq(ValueTypes) /\ Len(f.results) \in Nat
  BY <1>1, FrameFields
<1>5. /\ \A j \in 1 .. n - 1 : w.ctrl[j] = v.ctrl[j]
      /\ w.inits = f.inits
      /\ w.height = f.entry + Len(f.results) /\ w.height <= Len(w.slots) /\ Len(v.slots) <= Len(w.slots)
      /\ \A k \in 1 .. Len(f.results) : w.slots[f.entry + k] = f.results[k]
      /\ \A k \in 1 .. f.entry : w.slots[k] = v.slots[k]
  BY <1>1 DEF Closes
<1>6. \A i \in 1 .. n - 1 : i \in 1 .. n /\ i < n
  BY <1>1
<1>7. /\ \A i \in 1 .. n : v.ctrl[i].entry \in Nat /\ (v.ctrl[i].enteredDead => v.ctrl[i].dead)
      /\ \A i \in 1 .. n - 1 : v.ctrl[i].entry <= f.entry /\ v.ctrl[i].inits \subseteq f.inits
      /\ \A i \in 2 .. n : v.ctrl[i].enteredDead => v.ctrl[i - 1].dead
      /\ \A i, j \in 1 .. n : i < j => /\ v.ctrl[i].entry <= v.ctrl[j].entry
                                       /\ v.ctrl[i].inits \subseteq v.ctrl[j].inits
                                       /\ v.ctrl[i].dead => v.ctrl[j].enteredDead
  BY <1>1, <1>6, GoodFrames DEF Good, Nested
<1> HIDE DEF f
<1>8. Nested(w)
  <2>1. ASSUME NEW i \in 1 .. n - 1
        PROVE  /\ w.ctrl[i].entry <= w.height /\ w.ctrl[i].inits \subseteq w.inits
               /\ w.ctrl[i].enteredDead => w.ctrl[i].dead
    <3>1. v.ctrl[i].entry <= w.height
      BY <1>1, <1>4, <1>5, <1>6, <1>7, SMTT(60)
    <3> QED BY <3>1, <1>5, <1>6, <1>7
  <2>2. ASSUME NEW i \in 2 .. n - 1, w.ctrl[i].enteredDead PROVE w.ctrl[i - 1].dead
    <3>1. i \in 2 .. n /\ i \in 1 .. n - 1 /\ i - 1 \in 1 .. n - 1
      BY <1>1
    <3> QED BY <2>2, <3>1, <1>5, <1>7
  <2>3. ASSUME NEW i \in 1 .. n - 1 PROVE w.ctrl[i].entry + Len(w.ctrl[i].params) <= Len(w.slots)
    <3>1. /\ v.ctrl[i].entry \in Nat /\ Len(v.ctrl[i].params) \in Nat
          /\ v.ctrl[i].entry + Len(v.ctrl[i].params) <= Len(v.slots)
      BY <1>1, <1>6, GoodFrames
    <3>2. Len(v.slots) \in Nat
      BY <1>1, StateFields
    <3>3. w.ctrl[i].entry = v.ctrl[i].entry /\ w.ctrl[i].params = v.ctrl[i].params
      BY <1>5
    <3>4. Len(w.slots) \in Nat /\ Len(v.slots) <= Len(w.slots)
      BY <1>3, <1>5
    <3> QED BY <3>1, <3>2, <3>3, <3>4, StillRoom
  <2> QED BY <2>1, <2>2, <2>3, <1>2, <1>3, <1>5, <1>6, <1>7 DEF Nested
<1>9. Rooted(w)
  <2>1. w.ctrl # << >> => 1 \in 1 .. n - 1
    BY <1>2, <1>3
  <2> QED BY <2>1, <1>5 DEF Rooted, Good
<1>10. \A i \in 1 .. n - 1 : ~w.ctrl[i].enteredDead => Known(w, w.ctrl[i].entry)
  <2> SUFFICES ASSUME NEW i \in 1 .. n - 1, ~w.ctrl[i].enteredDead PROVE Known(w, w.ctrl[i].entry)
    OBVIOUS
  <2>1. w.ctrl[i].entry = v.ctrl[i].entry /\ Known(v, v.ctrl[i].entry)
    BY <1>1, <1>5, <1>6 DEF Good, Grounded
  <2>2. \A k \in 1 .. v.ctrl[i].entry : k \in 1 .. f.entry
    BY <1>1, <1>6, <1>7
  <2> QED BY <2>1, <2>2, <1>5 DEF Known
<1>11. ASSUME IsLive(w) PROVE Known(w, w.height)
  <2>1. n - 1 \in 1 .. n - 1 /\ TopFrame(w) = w.ctrl[n - 1] /\ n \in 2 .. n
    BY <1>1, <1>2, <1>3, <1>11 DEF IsLive, TopFrame
  <2>2. ~v.ctrl[n - 1].dead
    BY <2>1, <1>5, <1>11 DEF IsLive
  <2>3. ~f.enteredDead
    BY <2>1, <2>2, <1>7 DEF f
  <2>4. Known(v, f.entry)
    BY <2>3, <1>1 DEF Good, Grounded, f
  <2>5. SUFFICES ASSUME NEW k \in 1 .. w.height PROVE w.slots[k] # Unknown
    BY DEF Known
  <2>6. CASE k <= f.entry
    <3>1. k \in 1 .. f.entry
      BY <2>6, <1>1
    <3> QED BY <3>1, <2>4, <1>5 DEF Known
  <2>7. CASE k > f.entry
    <3>1. k - f.entry \in 1 .. Len(f.results) /\ f.entry + (k - f.entry) = k
      BY <2>7, <1>1, <1>4, <1>5
    <3>2. w.slots[k] = f.results[k - f.entry] /\ f.results[k - f.entry] \in ValueTypes
      BY <3>1, <1>4, <1>5
    <3> QED BY <3>2, SlotTypes
  <2> QED BY <2>6, <2>7, <1>1
<1>12. ASSUME NEW i \in 1 .. n - 1 PROVE Same(v, w, i)
  <2>1. \A j \in 1 .. i - 1 : j \in 1 .. n - 1
    BY <1>1
  <2>2. \A k \in 1 .. v.ctrl[i].entry : k \in 1 .. f.entry
    BY <1>1, <1>6, <1>7
  <2> QED BY <2>1, <2>2, <1>1, <1>3, <1>5, <1>6, SameFrameSelf DEF Same
<1> QED BY <1>2, <1>3, <1>8, <1>9, <1>10, <1>11, <1>12 DEF Good, Grounded

LEMMA OrdinarySawElse ==
  ASSUME NEW v, NEW w, Ordinary(v, w)
  PROVE  TopFrame(w).sawElse => TopFrame(v).sawElse
<1>1. PICK u : /\ Quiet(v, u)
               /\ \/ w = u
                  \/ w = MarkDead(u)
                  \/ \E i \in DOMAIN AllLocals : w = [u EXCEPT !.inits = @ \cup {i}]
  BY DEF Ordinary
<1>2. Ready(u) /\ TopFrame(u) = TopFrame(v)
  BY <1>1, QuietTop DEF Quiet
<1>3. CASE w = MarkDead(u)
  BY <1>2, <1>3, MarkDeadIs
<1>4. CASE \E i \in DOMAIN AllLocals : w = [u EXCEPT !.inits = @ \cup {i}]
  <2>1. w.ctrl = u.ctrl
    BY <1>2, <1>4 DEF Ready, States
  <2> QED BY <2>1, <1>2 DEF TopFrame
<1> QED BY <1>1, <1>2, <1>3, <1>4

\* Everything the body level needs to know of one instruction.
Steps(v, w, ins) ==
  /\ Good(w)
  /\ \A i \in DOMAIN v.ctrl : i \in DOMAIN w.ctrl => Same(v, w, i)
  /\ ins.op \in Openers => Opens(v, w, ins) /\ Len(w.ctrl) = Len(v.ctrl) + 1
  /\ ins.op = "end" => Closes(v, w) /\ Len(w.ctrl) = Len(v.ctrl) - 1
  /\ ins.op \notin Openers \cup {"end"} => Keeps(v, w) /\ Len(w.ctrl) = Len(v.ctrl)
  /\ \A i \in DOMAIN v.ctrl : i \in DOMAIN w.ctrl /\ w.ctrl[i].sawElse =>
       v.ctrl[i].sawElse \/ (ins.op = "else" /\ i = Len(v.ctrl))

LEMMA RuleSteps ==
  ASSUME NEW v, Good(v), v.ctrl # << >>, NEW ins, IsInstr(ins), NEW w \in Rule(v, ins), ins.op = "else" => Honest(v)
  PROVE  Steps(v, w, ins)
<1>1. Firm(v) /\ ~v.closed /\ v \in States
  BY GoodFirm DEF Good
<1>2. Len(v.ctrl) \in Nat \ {0} /\ DOMAIN v.ctrl = 1 .. Len(v.ctrl) /\ TopFrame(v) = v.ctrl[Len(v.ctrl)]
  BY <1>1, TopIsFrame
<1>3. \A i \in 1 .. Len(v.ctrl) : i = Len(v.ctrl) \/ i \in 1 .. Len(v.ctrl) - 1
  BY <1>2
<1>4. CASE ins.op \in Openers
  <2>1. Opens(v, w, ins)
    BY <1>1, <1>4, OpenerOpens
  <2>2. Good(w) /\ Len(w.ctrl) = Len(v.ctrl) + 1 /\ \A i \in DOMAIN v.ctrl : Same(v, w, i)
    BY <1>4, <2>1, OpensGood
  <2>3. \A i \in DOMAIN v.ctrl : w.ctrl[i] = v.ctrl[i]
    BY <1>2, <2>1 DEF Opens
  <2> QED BY <1>4, <2>1, <2>2, <2>3 DEF Steps, Openers
<1>5. CASE ins.op = "end"
  <2>1. w \in EndRule(v)
    BY <1>1, <1>5 DEF Rule
  <2>2. Closes(v, w)
    BY <2>1, EndCloses
  <2>3. Good(w) /\ \A i \in DOMAIN w.ctrl : Same(v, w, i)
    BY <2>2, ClosesGood
  <2>4. Len(w.ctrl) = Len(v.ctrl) - 1 /\ DOMAIN w.ctrl = 1 .. Len(v.ctrl) - 1
        /\ \A i \in 1 .. Len(v.ctrl) - 1 : w.ctrl[i] = v.ctrl[i]
    BY <2>2, <2>3, GoodFrames DEF Closes
  <2> QED BY <1>5, <2>2, <2>3, <2>4 DEF Steps, Openers
<1>6. CASE ins.op = "else"
  <2>1. w \in ElseRule(v)
    BY <1>1, <1>6 DEF Rule
  <2>3. Keeps(v, w)
    BY <1>6, <2>1, ElseKeeps
  <2>4. Good(w) /\ \A i \in DOMAIN v.ctrl : Same(v, w, i)
    BY <2>3, KeepsGood
  <2>5. Len(w.ctrl) = Len(v.ctrl) /\ \A i \in 1 .. Len(v.ctrl) - 1 : w.ctrl[i] = v.ctrl[i]
    BY <2>3 DEF Keeps
  <2> QED BY <1>2, <1>3, <1>6, <2>3, <2>4, <2>5 DEF Steps, Openers
<1>7. CASE ins.op \notin Structural
  <2>1. Ordinary(v, w)
    BY <1>1, <1>7, RuleOrdinary
  <2>2. Keeps(v, w) /\ (TopFrame(w).sawElse => TopFrame(v).sawElse)
    BY <2>1, OrdinaryKeeps, OrdinarySawElse
  <2>3. Good(w) /\ \A i \in DOMAIN v.ctrl : Same(v, w, i)
    BY <2>2, KeepsGood
  <2>4. Len(w.ctrl) = Len(v.ctrl) /\ \A i \in 1 .. Len(v.ctrl) - 1 : w.ctrl[i] = v.ctrl[i]
    BY <2>2 DEF Keeps
  <2>5. TopFrame(w) = w.ctrl[Len(v.ctrl)]
    BY <2>4 DEF TopFrame
  <2> QED BY <1>2, <1>3, <1>7, <2>2, <2>3, <2>4, <2>5 DEF Steps, Structural
<1> QED BY <1>4, <1>5, <1>6, <1>7 DEF Structural

-----------------------------------------------------------------------------
(* A whole body *)

LEMMA SameSelf ==
  ASSUME NEW v, NEW i \in DOMAIN v.ctrl
  PROVE  Same(v, v, i)
BY SameFrameSelf DEF Same

LEMMA SameTrans ==
  ASSUME NEW v, NEW u, NEW w, NEW i \in Nat, Same(v, u, i), Same(u, w, i)
  PROVE  Same(v, w, i)
<1>1. SameFrame(v.ctrl[i], u.ctrl[i]) /\ SameFrame(u.ctrl[i], w.ctrl[i])
  BY DEF Same
<1>2. SameFrame(v.ctrl[i], w.ctrl[i]) /\ u.ctrl[i].entry = v.ctrl[i].entry
  BY <1>1 DEF SameFrame
<1> QED BY <1>2 DEF Same

LEMMA StartGood ==
  /\ Good(Start) /\ Len(Start.ctrl) = 1 /\ DOMAIN Start.ctrl = {1}
  /\ ~Start.ctrl[1].dead /\ ~Start.ctrl[1].sawElse
  /\ Start.height = 0 /\ Start.inits = InitiallySet
<1> DEFINE f == Frame("block", 0, << >>, ResultTypes, InitiallySet, FALSE)
<1>1. InitiallySet \subseteq DOMAIN AllLocals
  BY DEF InitiallySet
<1>2. /\ f \in Frames /\ f.kind = "block" /\ f.entry = 0 /\ f.params = << >> /\ f.results = ResultTypes
      /\ ~f.enteredDead /\ ~f.dead /\ f.inits = InitiallySet /\ ~f.sawElse
  BY <1>1, Tables DEF Frame, Frames, Openers
<1> HIDE DEF f
<1>3. /\ Start.slots = << >> /\ Start.height = 0 /\ Start.inits = InitiallySet /\ Start.ctrl = <<f>>
  BY DEF Start, f
<1>4. <<f>> \in Seq(Frames) /\ << >> \in Seq(Slots) /\ Len(<<f>>) = 1 /\ DOMAIN <<f>> = {1} /\ <<f>>[1] = f
      /\ <<f>> # << >>
  BY <1>2
<1>5. Start \in States
  <2>1. Start = [slots |-> << >>, height |-> 0, closed |-> FALSE, inits |-> InitiallySet, ctrl |-> <<f>>]
    BY DEF Start, f
  <2> QED BY <1>1, <1>4, <2>1 DEF States
<1>6. Nested(Start)
  BY <1>2, <1>3, <1>4 DEF Nested
<1>7. Rooted(Start)
  BY <1>2, <1>3, <1>4 DEF Rooted
<1>8. Grounded(Start)
  BY <1>2, <1>3, <1>4 DEF Grounded, Known
<1> QED BY <1>2, <1>3, <1>4, <1>5, <1>6, <1>7, <1>8 DEF Good

LEMMA TypedStart == Typed(<< >>, <<Start>>)
<1>1. Start \in States
  BY StartGood DEF Good
<1> DEFINE h == <<Start>>
<1>2. h \in Seq(States) /\ Len(h) = 1 /\ DOMAIN h = {1} /\ h[1] = Start
  BY <1>1
<1>3. << >> \in Seq(Instrs) /\ Len(<< >>) = 0 /\ DOMAIN << >> = {}
  OBVIOUS
<1> HIDE DEF h
<1>4. \A p \in DOMAIN h : \A i \in 2 .. Len(h[p].ctrl) : FALSE
  <2> SUFFICES ASSUME NEW p \in DOMAIN h, NEW i \in 2 .. Len(h[p].ctrl) PROVE FALSE
    OBVIOUS
  <2>1. p = 1 /\ Len(h[1].ctrl) = 1
    BY <1>2, StartGood
  <2>2. i \in 2 .. 1
    BY <2>1
  <2> QED BY <2>2
<1>5. \A p, q \in DOMAIN h : \A i \in DOMAIN h[p].ctrl : Same(h[p], h[q], i)
  BY <1>2, SameSelf
<1>7. \A p \in DOMAIN h : Good(h[p])
  BY <1>2, StartGood
<1>8. \A p \in DOMAIN h : \A i \in 2 .. Len(h[p].ctrl) :
        \E s \in 1 .. p - 1 : OpensAt(<< >>, h, p, i, s) /\ FrameOf(h[p].ctrl[i], << >>[s])
  BY <1>4
<1>9. \A p \in DOMAIN h : \A i \in 2 .. Len(h[p].ctrl) : \A s \in 1 .. p - 1 :
        OpensAt(<< >>, h, p, i, s) /\ h[p].ctrl[i].sawElse => \E q \in s + 1 .. p - 1 : ElseAt(<< >>, h, s, q)
  BY <1>4
<1> DEFINE b == << >>
<1>11. b \in Seq(Instrs) /\ Len(b) = 0 /\ DOMAIN b = {}
  BY <1>3
<1> HIDE DEF b
<1>10. Typed(b, h)
  BY <1>2, <1>5, <1>7, <1>8, <1>9, <1>11 DEF Typed, b
<1> QED BY <1>10 DEF h, b

\* The body grows by an instruction, what was said of its prefix stays true.
Prolongs(b, h, ins, w, b2, h2) ==
  /\ b2 \in Seq(Instrs) /\ h2 \in Seq(States) /\ Len(b2) = Len(b) + 1 /\ Len(h2) = Len(b2) + 1
  /\ Len(b) \in Nat
  /\ DOMAIN b = 1 .. Len(b) /\ DOMAIN h = 1 .. Len(b) + 1
  /\ DOMAIN b2 = 1 .. Len(b) + 1 /\ DOMAIN h2 = 1 .. Len(b) + 2
  /\ b2[Len(b) + 1] = ins /\ h2[Len(b) + 2] = w
  /\ \A p \in 1 .. Len(b) : b2[p] = b[p]
  /\ \A p \in 1 .. Len(b) + 1 : h2[p] = h[p]
  /\ \A p \in 1 .. Len(b) + 1, i \in Nat, s \in Nat : OpensAt(b2, h2, p, i, s) <=> OpensAt(b, h, p, i, s)
  /\ \A s \in 1 .. Len(b) + 1, q \in 1 .. Len(b) : ElseAt(b, h, s, q) => ElseAt(b2, h2, s, q)

LEMMA Longer ==
  ASSUME NEW b \in Seq(Instrs), NEW h \in Seq(States), Len(h) = Len(b) + 1,
         NEW ins \in Instrs, NEW w \in States,
         NEW b2, b2 = Append(b, ins), NEW h2, h2 = Append(h, w)
  PROVE  Prolongs(b, h, ins, w, b2, h2)
<1> DEFINE m == Len(b)
<1>1. /\ b2 \in Seq(Instrs) /\ h2 \in Seq(States) /\ Len(b2) = m + 1 /\ Len(h2) = Len(b2) + 1
      /\ m \in Nat
      /\ DOMAIN b = 1 .. m /\ DOMAIN h = 1 .. m + 1
      /\ DOMAIN b2 = 1 .. m + 1 /\ DOMAIN h2 = 1 .. m + 2
      /\ b2[m + 1] = ins /\ h2[m + 2] = w
  OBVIOUS
<1>2. (\A p \in 1 .. m : b2[p] = b[p]) /\ \A p \in 1 .. m + 1 : h2[p] = h[p]
  OBVIOUS
<1> HIDE DEF m
<1>3. ASSUME NEW p \in 1 .. m + 1, NEW i \in Nat, NEW s \in Nat
      PROVE  OpensAt(b2, h2, p, i, s) <=> OpensAt(b, h, p, i, s)
  <2>1. s \in 1 .. p - 1 => s \in 1 .. m /\ s \in 1 .. m + 1 /\ \A r \in s + 1 .. p : r \in 1 .. m + 1
    BY <1>1
  <2> QED BY <2>1, <1>2 DEF OpensAt, Spans
<1>4. ASSUME NEW s \in 1 .. m + 1, NEW q \in 1 .. m, ElseAt(b, h, s, q)
      PROVE  ElseAt(b2, h2, s, q)
  <2>1. q \in 1 .. m + 1 /\ s \in Nat
    BY <1>1
  <2>2. h[q] \in States /\ Len(h[q].ctrl) \in Nat
    BY <1>1, <2>1, StateFields
  <2>3. OpensAt(b2, h2, q, Len(h[q].ctrl), s)
    BY <1>3, <1>4, <2>1, <2>2 DEF ElseAt
  <2> QED BY <1>1, <1>2, <1>4, <2>1, <2>3 DEF ElseAt
<1> QED BY <1>1, <1>2, <1>3, <1>4 DEF m, Prolongs

\* An if whose arms may be two has no parameters.
\* Where an if that may have an else has no parameters, there is nothing the
\* else arm could find changed.
LEMMA SafeHonest ==
  ASSUME NEW b, NEW h, Typed(b, h), NEW v, v = h[Len(h)], v.ctrl # << >>, NEW ins \in Instrs,
         NEW w \in Rule(v, ins), ElseSafe(Range(Append(b, ins)))
  PROVE  ins.op = "else" => Honest(v)
<1> DEFINE n == Len(v.ctrl)
           m == Len(b)
<1>1. SUFFICES ASSUME ins.op = "else" PROVE TopFrame(v).params = << >>
  BY DEF Honest
<1>2. b \in Seq(Instrs) /\ h \in Seq(States) /\ Len(h) = m + 1 /\ m \in Nat
  BY DEF Typed
<1>3. DOMAIN h = 1 .. m + 1 /\ m + 1 \in DOMAIN h /\ v = h[m + 1] /\ Good(v)
  BY <1>2 DEF Typed
<1>4. n \in Nat \ {0} /\ TopFrame(v) = v.ctrl[n]
  BY <1>3, TopIsFrame DEF Good
<1>11. TopFrame(v).kind = "if"
  <2>1. w \in ElseRule(v)
    <3>1. ~v.closed
      BY <1>3, GoodFirm
    <3> QED BY <1>1, <3>1 DEF Rule
  <2> QED BY <2>1 DEF ElseRule
<1>5. n # 1
  <2>1. v.ctrl[1].kind = "block"
    BY <1>3 DEF Good, Rooted
  <2> QED BY <2>1, <1>4, <1>11
<1>6. n \in 2 .. n
  <2> HIDE DEF n
  <2> QED BY <1>4, <1>5
<1>7. PICK s \in 1 .. m : OpensAt(b, h, m + 1, n, s) /\ FrameOf(v.ctrl[n], b[s])
  <2>1. (m + 1) - 1 = m
    BY <1>2
  <2> QED BY <1>3, <1>6, <2>1 DEF Typed
<1> DEFINE b2 == Append(b, ins)
<1>8. b2[m + 1] = ins /\ b2[s] = b[s] /\ {m + 1, s} \subseteq DOMAIN b2
  BY <1>2
<1>9. ins \in Range(b2) /\ b[s] \in Range(b2)
  BY <1>8 DEF Range
<1> HIDE DEF b2
<1>10. b[s].op = "if" => b[s].params = << >>
  BY <1>1, <1>9 DEF ElseSafe, b2
<1> QED BY <1>4, <1>7, <1>10, <1>11 DEF FrameOf

\* One more instruction keeps what a validated prefix promises: whatever
\* bodyValidator.validate answers, its state has types under live code, frames
\* that lie on each other, and each frame stays what its opener made it.
THEOREM TypedExtends ==
  ASSUME NEW b, NEW h, Typed(b, h), NEW v, v = h[Len(h)], v.ctrl # << >>,
         NEW ins \in Instrs, ins.op = "else" => Honest(v), NEW w \in Rule(v, ins)
  PROVE  Typed(Append(b, ins), Append(h, w))
<1> DEFINE m == Len(b)
           b2 == Append(b, ins)
           h2 == Append(h, w)
<1>1. b \in Seq(Instrs) /\ h \in Seq(States) /\ Len(h) = m + 1 /\ m \in Nat
  BY DEF Typed
<1>2. DOMAIN h = 1 .. m + 1 /\ m + 1 \in DOMAIN h /\ v = h[m + 1] /\ Good(v)
  BY <1>1 DEF Typed
<1>3. Steps(v, w, ins)
  BY <1>2, AlphabetInstrs, RuleSteps
<1>4. Good(w) /\ w \in States
  BY <1>3 DEF Steps, Good
<1>20. b2 = Append(b, ins) /\ h2 = Append(h, w)
  OBVIOUS
<1> HIDE DEF b2, h2
<1>5. /\ b2 \in Seq(Instrs) /\ h2 \in Seq(States) /\ Len(b2) = m + 1 /\ Len(h2) = Len(b2) + 1
      /\ DOMAIN b = 1 .. m
      /\ DOMAIN b2 = 1 .. m + 1 /\ DOMAIN h2 = 1 .. m + 2
      /\ b2[m + 1] = ins /\ h2[m + 2] = w
      /\ \A p \in 1 .. m : b2[p] = b[p]
      /\ \A p \in 1 .. m + 1 : h2[p] = h[p]
      /\ \A p \in 1 .. m + 1, i \in Nat, s \in Nat : OpensAt(b2, h2, p, i, s) <=> OpensAt(b, h, p, i, s)
      /\ \A s \in 1 .. m + 1, q \in 1 .. m : ElseAt(b, h, s, q) => ElseAt(b2, h2, s, q)
  <2>1. Prolongs(b, h, ins, w, b2, h2)
    BY <1>1, <1>4, <1>20, Longer
  <2> QED BY <2>1 DEF Prolongs
<1>7. \A p \in 1 .. m + 2 : p = m + 2 \/ p \in 1 .. m + 1
  BY <1>1
<1>8. \A p \in 1 .. m + 1 : p = m + 1 \/ p \in 1 .. m
  BY <1>1
<1>6. ASSUME NEW p \in DOMAIN b2, b2[p].op = "else" PROVE Honest(h2[p])
  <2>1. CASE p = m + 1
    <3>1. h2[p] = v /\ b2[p] = ins
      BY <2>1, <1>1, <1>2, <1>5
    <3> QED BY <3>1, <1>6
  <2>2. CASE p \in 1 .. m
    <3>1. p \in 1 .. m + 1
      BY <2>2, <1>1
    <3> QED BY <2>2, <3>1, <1>5, <1>6 DEF Typed
  <2> QED BY <2>1, <2>2, <1>5, <1>8
<1>9. h2[1] = Start
  BY <1>1, <1>5 DEF Typed
<1>10. \A p \in DOMAIN h2 : Good(h2[p])
  BY <1>2, <1>4, <1>5, <1>7 DEF Typed
<1>11. \A p \in DOMAIN b2 : h2[p].ctrl # << >> /\ h2[p + 1] \in Rule(h2[p], b2[p])
  <2> SUFFICES ASSUME NEW p \in 1 .. m + 1 PROVE h2[p].ctrl # << >> /\ h2[p + 1] \in Rule(h2[p], b2[p])
    BY <1>5
  <2>1. CASE p = m + 1
    <3>1. p + 1 = m + 2 /\ p \in 1 .. m + 1
      BY <2>1, <1>1
    <3> QED BY <2>1, <3>1, <1>2, <1>5
  <2>2. CASE p \in 1 .. m
    <3>1. p \in 1 .. m + 1 /\ p + 1 \in 1 .. m + 1
      BY <2>2, <1>1
    <3> QED BY <2>2, <3>1, <1>5 DEF Typed
  <2> QED BY <2>1, <2>2, <1>8
<1>12. v.ctrl \in Seq(Frames) /\ Len(v.ctrl) \in Nat /\ DOMAIN v.ctrl = 1 .. Len(v.ctrl)
  BY <1>2, GoodFrames
<1>13. w.ctrl \in Seq(Frames) /\ Len(w.ctrl) \in Nat /\ DOMAIN w.ctrl = 1 .. Len(w.ctrl)
  BY <1>4, GoodFrames
<1>14. ASSUME NEW i \in 2 .. Len(w.ctrl), NEW s \in 1 .. m, i <= Len(v.ctrl), OpensAt(b, h, m + 1, i, s)
       PROVE  OpensAt(b2, h2, m + 2, i, s)
  <2>1. OpensAt(b2, h2, m + 1, i, s)
    BY <1>1, <1>5, <1>14
  <2>2. s \in 1 .. (m + 2) - 1 /\ \A r \in s + 1 .. m + 2 : r = m + 2 \/ r \in s + 1 .. m + 1
    BY <1>1
  <2>3. Len(h2[m + 2].ctrl) >= i
    BY <1>5, <1>13
  <2> QED BY <2>1, <2>2, <2>3 DEF OpensAt, Spans
<1>15. ASSUME NEW i \in 1 .. Len(w.ctrl), i > Len(v.ctrl)
       PROVE  i = Len(v.ctrl) + 1 /\ ins.op \in Openers /\ Opens(v, w, ins)
  <2>1. ins.op \in Openers
    BY <1>3, <1>12, <1>13, <1>15 DEF Steps
  <2>2. Len(w.ctrl) = Len(v.ctrl) + 1 /\ Opens(v, w, ins)
    BY <2>1, <1>3 DEF Steps
  <2> QED BY <2>1, <2>2, <1>12, <1>15
<1>16. \A p \in DOMAIN h2 : \A i \in 2 .. Len(h2[p].ctrl) :
         \E s \in 1 .. p - 1 : OpensAt(b2, h2, p, i, s) /\ FrameOf(h2[p].ctrl[i], b2[s])
  <2> SUFFICES ASSUME NEW p \in 1 .. m + 2, NEW i \in 2 .. Len(h2[p].ctrl)
               PROVE  \E s \in 1 .. p - 1 : OpensAt(b2, h2, p, i, s) /\ FrameOf(h2[p].ctrl[i], b2[s])
    BY <1>5
  <2>1. CASE p \in 1 .. m + 1
    <3>1. PICK s \in 1 .. p - 1 : OpensAt(b, h, p, i, s) /\ FrameOf(h[p].ctrl[i], b[s])
      BY <2>1, <1>2, <1>5 DEF Typed
    <3>2. s \in 1 .. m /\ s \in Nat /\ i \in Nat
      BY <2>1, <1>1
    <3> QED BY <2>1, <3>1, <3>2, <1>5
  <2>2. CASE p = m + 2 /\ i <= Len(v.ctrl)
    <3>1. i \in 2 .. Len(w.ctrl) /\ i \in 2 .. Len(v.ctrl) /\ i \in DOMAIN v.ctrl /\ i \in DOMAIN w.ctrl
      BY <2>2, <1>5, <1>12, <1>13
    <3>2. PICK s \in 1 .. (m + 1) - 1 : OpensAt(b, h, m + 1, i, s) /\ FrameOf(v.ctrl[i], b[s])
      BY <3>1, <1>2 DEF Typed
    <3>3. s \in 1 .. m /\ s \in 1 .. p - 1
      BY <2>2, <1>1
    <3>4. OpensAt(b2, h2, p, i, s)
      BY <2>2, <3>1, <3>2, <3>3, <1>14
    <3>5. FrameOf(w.ctrl[i], b[s])
      BY <3>1, <3>2, <1>3 DEF Steps, Same, SameFrame, FrameOf
    <3> QED BY <2>2, <3>3, <3>4, <3>5, <1>5
  <2>3. CASE p = m + 2 /\ ~(i <= Len(v.ctrl))
    <3>1. i \in 1 .. Len(w.ctrl) /\ i > Len(v.ctrl)
      BY <2>3, <1>5, <1>12, <1>13
    <3>2. i = Len(v.ctrl) + 1 /\ ins.op \in Openers /\ Opens(v, w, ins)
      BY <3>1, <1>15, SMTT(60)
    <3>3. w.ctrl[i] = TopFrame(w) /\ FrameOf(w.ctrl[i], ins)
      BY <3>2 DEF Opens, TopFrame
    <3>4. m + 1 \in 1 .. p - 1 /\ m + 1 \in 1 .. m + 1
      BY <2>3, <1>1
    <3>5. OpensAt(b2, h2, p, i, m + 1)
      <4>1. Len(h2[m + 1].ctrl) = i - 1
        BY <3>2, <3>4, <1>2, <1>5, <1>12
      <4>2. \A r \in (m + 1) + 1 .. m + 2 : r = m + 2
        BY <1>1
      <4>3. Len(h2[m + 2].ctrl) >= i
        BY <3>1, <1>5, <1>13
      <4> QED BY <2>3, <3>2, <3>4, <4>1, <4>2, <4>3, <1>5 DEF OpensAt, Spans
    <3> QED BY <2>3, <3>3, <3>4, <3>5, <1>5
  <2> QED BY <2>1, <2>2, <2>3, <1>7
<1>17. \A p, q \in DOMAIN h2 : \A i \in DOMAIN h2[p].ctrl :
         p <= q /\ Spans(h2, p, q, i) => Same(h2[p], h2[q], i)
  <2> SUFFICES ASSUME NEW p \in 1 .. m + 2, NEW q \in 1 .. m + 2, NEW i \in DOMAIN h2[p].ctrl,
                      p <= q, Spans(h2, p, q, i)
               PROVE  Same(h2[p], h2[q], i)
    BY <1>5
  <2>1. CASE p = m + 2
    <3>1. q = m + 2
      BY <2>1, <1>1
    <3> QED BY <2>1, <3>1, SameSelf
  <2>2. CASE p \in 1 .. m + 1 /\ q \in 1 .. m + 1
    <3>1. \A r \in p .. q : r \in 1 .. m + 1
      BY <2>2, <1>1
    <3>2. Spans(h, p, q, i)
      BY <3>1, <1>5 DEF Spans
    <3> QED BY <2>2, <3>2, <1>2, <1>5 DEF Typed
  <2>3. CASE p \in 1 .. m + 1 /\ q = m + 2
    <3>1. \A r \in p .. m + 1 : r \in 1 .. m + 1 /\ r \in p .. q
      BY <2>3, <1>1
    <3>2. Spans(h, p, m + 1, i) /\ p <= m + 1 /\ m + 1 \in p .. q /\ m + 2 \in p .. q
      BY <2>3, <3>1, <1>1, <1>5 DEF Spans
    <3>3. Same(h[p], v, i)
      BY <2>3, <3>2, <1>2, <1>5 DEF Typed
    <3>4. i \in Nat /\ i >= 1
      <4>1. Good(h2[p])
        BY <1>5, <1>10
      <4> QED BY <4>1, GoodFrames
    <3>5. i \in DOMAIN v.ctrl /\ i \in DOMAIN w.ctrl
      <4>1. Len(h2[m + 2].ctrl) >= i
        BY <3>2, <2>3 DEF Spans
      <4> QED BY <3>3, <3>4, <4>1, <1>5, <1>13 DEF Same
    <3>6. Same(v, w, i)
      BY <3>5, <1>3 DEF Steps
    <3> QED BY <2>3, <3>3, <3>4, <3>6, <1>5, SameTrans
  <2> QED BY <2>1, <2>2, <2>3, <1>7
<1>18. \A p \in DOMAIN h2 : \A i \in 2 .. Len(h2[p].ctrl) : \A s \in 1 .. p - 1 :
         OpensAt(b2, h2, p, i, s) /\ h2[p].ctrl[i].sawElse => \E q \in s + 1 .. p - 1 : ElseAt(b2, h2, s, q)
  <2> SUFFICES ASSUME NEW p \in 1 .. m + 2, NEW i \in 2 .. Len(h2[p].ctrl), NEW s \in 1 .. p - 1,
                      OpensAt(b2, h2, p, i, s), h2[p].ctrl[i].sawElse
               PROVE  \E q \in s + 1 .. p - 1 : ElseAt(b2, h2, s, q)
    BY <1>5
  <2>0. s \in Nat /\ i \in Nat /\ s \in 1 .. m + 1
    BY <1>1
  <2>1. CASE p \in 1 .. m + 1
    <3>1. OpensAt(b, h, p, i, s) /\ h[p].ctrl[i].sawElse /\ i \in 2 .. Len(h[p].ctrl)
      BY <2>0, <2>1, <1>5
    <3>2. PICK q \in s + 1 .. p - 1 : ElseAt(b, h, s, q)
      BY <2>1, <3>1, <1>2 DEF Typed
    <3>3. q \in 1 .. m
      BY <2>1, <1>1
    <3> QED BY <2>0, <3>2, <3>3, <1>5
  <2>2. CASE p = m + 2 /\ i <= Len(v.ctrl)
    <3>1. i \in 2 .. Len(w.ctrl) /\ i \in 2 .. Len(v.ctrl) /\ i \in DOMAIN v.ctrl /\ i \in DOMAIN w.ctrl
      BY <2>2, <1>5, <1>12, <1>13
    <3>2. Len(h2[s].ctrl) = i - 1
      BY DEF OpensAt
    <3>3. s # m + 1
      BY <3>1, <3>2, <2>2, <1>2, <1>5, <1>12
    <3>4. s \in 1 .. m /\ s \in 1 .. (m + 1) - 1
      BY <2>0, <3>3, <1>1
    <3>5. OpensAt(b2, h2, m + 1, i, s)
      <4>1. \A r \in s + 1 .. m + 1 : r \in s + 1 .. p
        BY <2>2, <1>1
      <4> QED BY <3>4, <4>1, <2>2 DEF OpensAt, Spans
    <3>6. OpensAt(b, h, m + 1, i, s)
      BY <3>5, <2>0, <1>2, <1>5
    <3>7. CASE v.ctrl[i].sawElse
      <4>1. PICK q \in s + 1 .. (m + 1) - 1 : ElseAt(b, h, s, q)
        BY <3>1, <3>4, <3>6, <3>7, <1>2 DEF Typed
      <4>2. q \in 1 .. m /\ q \in s + 1 .. p - 1
        BY <2>0, <2>2, <1>1
      <4> QED BY <2>0, <4>1, <4>2, <1>5
    <3>8. CASE ins.op = "else" /\ i = Len(v.ctrl)
      <4>1. m + 1 \in s + 1 .. p - 1 /\ m + 1 \in DOMAIN b2 /\ m + 1 \in 1 .. m + 1
        BY <3>4, <2>2, <1>1, <1>5
      <4>2. h2[m + 1] = v /\ Len(v.ctrl) = Len(h2[s].ctrl) + 1
        BY <3>2, <3>8, <4>1, <1>2, <1>5, <1>12, SMTT(60)
      <4>3. ElseAt(b2, h2, s, m + 1)
        BY <3>5, <3>8, <4>1, <4>2, <1>5 DEF ElseAt
      <4> QED BY <4>1, <4>3
    <3>9. w.ctrl[i].sawElse
      BY <2>2, <1>5
    <3> QED BY <3>1, <3>7, <3>8, <3>9, <1>3 DEF Steps
  <2>3. CASE p = m + 2 /\ ~(i <= Len(v.ctrl))
    <3>1. i \in 1 .. Len(w.ctrl) /\ i > Len(v.ctrl)
      BY <2>3, <1>5, <1>12, <1>13
    <3>2. i = Len(v.ctrl) + 1 /\ Opens(v, w, ins)
      BY <3>1, <1>15, SMTT(60)
    <3>3. w.ctrl[i] = TopFrame(w) /\ ~w.ctrl[i].sawElse
      BY <3>2 DEF Opens, TopFrame
    <3> QED BY <2>3, <3>3, <1>5
  <2> QED BY <2>1, <2>2, <2>3, <1>7
<1>19. Typed(b2, h2)
  BY <1>5, <1>6, <1>9, <1>10, <1>11, <1>16, <1>17, <1>18 DEF Typed
<1> QED BY <1>19 DEF b2, h2

-----------------------------------------------------------------------------
(* Induction over the prefixes of a body *)

LEMMA Upto ==
  ASSUME NEW n \in Nat, NEW P, 0 \in P, \A k \in 0 .. n : k \in P /\ k < n => k + 1 \in P
  PROVE  0 .. n \subseteq P
<1> DEFINE T == (0 .. n) \ P
           R == {ss \in Nat \X Nat : ss[1] < ss[2]}
<1>1. SUFFICES ASSUME T # {} PROVE FALSE
  OBVIOUS
<1>2. T \subseteq Nat
  OBVIOUS
<1>3. PICK x \in T : \A y \in T : ~ (<<y, x>> \in R)
  <2>1. IsWellFoundedOn(R, Nat)
    BY NatLessThanWellFounded, Zenon DEF OpToRel
  <2> HIDE DEF T, R
  <2> QED BY <1>1, <1>2, <2>1, WFMin
<1>4. x - 1 \in 0 .. n /\ x \in Nat /\ x - 1 \in Nat
  OBVIOUS
<1>5. <<x - 1, x>> \in R
  <2> DEFINE ss == <<x - 1, x>>
  <2>1. ss \in Nat \X Nat /\ ss[1] < ss[2]
    BY <1>4
  <2> HIDE DEF ss
  <2> QED BY <2>1 DEF R
<1>6. x - 1 \notin T
  BY <1>3, <1>5
<1> QED BY <1>4, <1>6

\* The maps and stacks after each prefix satisfy the loop's equation.
UnfoldsScan(body_, n, g) ==
  g = [k \in 0 .. n |-> IF k = 0 THEN NoControl ELSE Scan(body_, g[k - 1], k)]

LEMMA ControlsLoop ==
  ASSUME NEW b, Len(b) \in Nat
  PROVE  /\ Controls(b)[0] = NoControl
         /\ \A k \in 1 .. Len(b) : Controls(b)[k] = Scan(b, Controls(b)[k - 1], k)
<1> DEFINE P == {m \in 0 .. Len(b) : \E g : UnfoldsScan(b, m, g)}
<1>1. 0 \in P
  <2> DEFINE g0 == [k \in 0 .. 0 |-> NoControl]
  <2>1. UnfoldsScan(b, 0, g0)
    BY DEF UnfoldsScan
  <2> QED BY <2>1
<1>2. ASSUME NEW m \in 0 .. Len(b), m \in P, m < Len(b) PROVE m + 1 \in P
  <2>1. PICK g : UnfoldsScan(b, m, g)
    BY <1>2
  <2> DEFINE g1 == [k \in 0 .. m + 1 |-> IF k = 0 THEN NoControl ELSE Scan(b, g[k - 1], k)]
  <2>2. \A k \in 0 .. m : g1[k] = g[k]
    BY <2>1 DEF UnfoldsScan
  <2>3. UnfoldsScan(b, m + 1, g1)
    <3> \A k \in 0 .. m + 1 : k # 0 => k - 1 \in 0 .. m
      OBVIOUS
    <3> QED BY <2>2 DEF UnfoldsScan
  <2> HIDE DEF g1
  <2>4. m + 1 \in 0 .. Len(b)
    BY <1>2
  <2> QED BY <2>3, <2>4
<1>3. Len(b) \in P
  <2> HIDE DEF P
  <2>1. 0 .. Len(b) \subseteq P
    BY <1>1, <1>2, Upto
  <2> QED BY <2>1
<1>4. UnfoldsScan(b, Len(b), Controls(b))
  BY <1>3 DEF Controls, UnfoldsScan
<1> QED BY <1>4 DEF UnfoldsScan

\* Its labelStack and code after each prefix satisfy compileFunction's.
UnfoldsEmit(body_, ctrl, n, g) ==
  g = [k \in 0 .. n |-> IF k = 0 THEN [ok |-> ctrl.ok, open |-> << >>, code |-> << >>]
                        ELSE CompileOne(body_, g[k - 1], k, ctrl.labels)]

LEMMA EmittedLoop ==
  ASSUME NEW b, Len(b) \in Nat, NEW ctrl
  PROVE  /\ Emitted(b, ctrl)[0] = [ok |-> ctrl.ok, open |-> << >>, code |-> << >>]
         /\ \A k \in 1 .. Len(b) : Emitted(b, ctrl)[k] = CompileOne(b, Emitted(b, ctrl)[k - 1], k, ctrl.labels)
<1> DEFINE P == {m \in 0 .. Len(b) : \E g : UnfoldsEmit(b, ctrl, m, g)}
           first == [ok |-> ctrl.ok, open |-> << >>, code |-> << >>]
<1>1. 0 \in P
  <2> DEFINE g0 == [k \in 0 .. 0 |-> first]
  <2>1. UnfoldsEmit(b, ctrl, 0, g0)
    BY DEF UnfoldsEmit
  <2> QED BY <2>1
<1>2. ASSUME NEW m \in 0 .. Len(b), m \in P, m < Len(b) PROVE m + 1 \in P
  <2>1. PICK g : UnfoldsEmit(b, ctrl, m, g)
    BY <1>2
  <2> DEFINE g1 == [k \in 0 .. m + 1 |-> IF k = 0 THEN first ELSE CompileOne(b, g[k - 1], k, ctrl.labels)]
  <2>2. \A k \in 0 .. m : g1[k] = g[k]
    BY <2>1 DEF UnfoldsEmit
  <2>3. UnfoldsEmit(b, ctrl, m + 1, g1)
    <3> \A k \in 0 .. m + 1 : k # 0 => k - 1 \in 0 .. m
      OBVIOUS
    <3> QED BY <2>2 DEF UnfoldsEmit
  <2> HIDE DEF g1
  <2>4. m + 1 \in 0 .. Len(b)
    BY <1>2
  <2> QED BY <2>3, <2>4
<1>3. Len(b) \in P
  <2> HIDE DEF P
  <2>1. 0 .. Len(b) \subseteq P
    BY <1>1, <1>2, Upto
  <2> QED BY <2>1
<1>4. UnfoldsEmit(b, ctrl, Len(b), Emitted(b, ctrl))
  BY <1>3 DEF Emitted, UnfoldsEmit
<1> QED BY <1>4 DEF UnfoldsEmit

-----------------------------------------------------------------------------
(* A body the validator accepted *)

Whole(b, h) ==
  Typed(b, h) /\ b # << >> /\ b[Len(b)].op = "end" /\ h[Len(b) + 1].ctrl = << >>

\* The shapes of the two sequences.
LEMMA WholeShape ==
  ASSUME NEW b, NEW h, Whole(b, h)
  PROVE  /\ Len(b) \in Nat \ {0} /\ DOMAIN b = 1 .. Len(b) /\ DOMAIN h = 1 .. Len(b) + 1
         /\ b \in Seq(Instrs) /\ h \in Seq(States) /\ h[1] = Start
         /\ \A p \in 1 .. Len(b) + 1 : /\ Good(h[p]) /\ h[p] \in States /\ Len(h[p].ctrl) \in Nat
                                       /\ DOMAIN h[p].ctrl = 1 .. Len(h[p].ctrl)
         /\ \A p \in 1 .. Len(b) : /\ b[p] \in Instrs /\ IsInstr(b[p]) /\ h[p + 1] \in Rule(h[p], b[p])
                                   /\ h[p].ctrl # << >> /\ Len(h[p].ctrl) >= 1
         /\ Len(h[Len(b) + 1].ctrl) = 0
<1> DEFINE m == Len(b)
<1>1. b \in Seq(Instrs) /\ h \in Seq(States) /\ Len(h) = Len(b) + 1 /\ h[1] = Start /\ b # << >>
  BY DEF Whole, Typed
<1>2. m \in Nat \ {0} /\ DOMAIN b = 1 .. m /\ DOMAIN h = 1 .. m + 1
  BY <1>1
<1>3. ASSUME NEW p \in 1 .. m + 1
      PROVE  /\ Good(h[p]) /\ h[p] \in States /\ Len(h[p].ctrl) \in Nat
             /\ DOMAIN h[p].ctrl = 1 .. Len(h[p].ctrl)
  <2>1. Good(h[p])
    BY <1>2 DEF Whole, Typed
  <2> QED BY <2>1, GoodFrames
<1>4. ASSUME NEW p \in 1 .. m
      PROVE  /\ b[p] \in Instrs /\ IsInstr(b[p]) /\ h[p + 1] \in Rule(h[p], b[p])
             /\ h[p].ctrl # << >> /\ Len(h[p].ctrl) >= 1
  <2>1. b[p] \in Instrs
    BY <1>1
  <2>2. h[p + 1] \in Rule(h[p], b[p]) /\ h[p].ctrl # << >>
    BY <1>2 DEF Whole, Typed
  <2>3. p \in 1 .. m + 1
    BY <1>2
  <2>4. Len(h[p].ctrl) \in Nat \ {0}
    BY <1>3, <2>2, <2>3, TopIsFrame
  <2> QED BY <2>1, <2>2, <2>4, AlphabetInstrs
<1>5. Len(h[m + 1].ctrl) = 0
  BY DEF Whole
<1> QED BY <1>1, <1>2, <1>3, <1>4, <1>5

\* The instruction that opened a frame, with its types.
LEMMA OpenerOf ==
  ASSUME NEW b, NEW h, Whole(b, h), NEW p \in 1 .. Len(b) + 1, NEW i \in 2 .. Len(h[p].ctrl)
  PROVE  \E s \in 1 .. p - 1 : OpensAt(b, h, p, i, s) /\ FrameOf(h[p].ctrl[i], b[s])
<1>1. p \in DOMAIN h
  BY WholeShape
<1>2. \A q \in DOMAIN h : \A j \in 2 .. Len(h[q].ctrl) :
        \E s \in 1 .. q - 1 : OpensAt(b, h, q, j, s) /\ FrameOf(h[q].ctrl[j], b[s])
  BY DEF Whole, Typed
<1> QED BY <1>1, <1>2

\* The frame of the function is not an if.
LEMMA IfWithElse ==
  ASSUME NEW b, NEW h, Whole(b, h), NEW p \in 1 .. Len(b), b[p].op = "else", TopFrame(h[p]).kind = "if"
  PROVE  Len(h[p].ctrl) >= 2
<1> DEFINE v == h[p]
           n == Len(v.ctrl)
<1>1. Len(b) \in Nat /\ DOMAIN b = 1 .. Len(b) /\ p \in 1 .. Len(b) + 1 /\ Good(v) /\ v \in States
      /\ v.ctrl # << >> /\ n \in Nat /\ n >= 1
  BY WholeShape
<1>2. TopFrame(v) = v.ctrl[n]
  BY <1>1, TopIsFrame
<1>3. n # 1
  BY <1>1, <1>2 DEF Good, Rooted
<1> HIDE DEF n
<1>4. n >= 2
  BY <1>1, <1>3
<1> QED BY <1>4 DEF n

LEMMA WholeSteps ==
  ASSUME NEW b, NEW h, Whole(b, h), NEW p \in 1 .. Len(b)
  PROVE  Steps(h[p], h[p + 1], b[p]) /\ p + 1 \in 1 .. Len(b) + 1 /\ p \in 1 .. Len(b) + 1
<1>1. Len(b) \in Nat /\ p \in 1 .. Len(b) + 1 /\ p + 1 \in 1 .. Len(b) + 1
  BY WholeShape
<1>2. Good(h[p]) /\ h[p].ctrl # << >> /\ IsInstr(b[p]) /\ h[p + 1] \in Rule(h[p], b[p])
  BY <1>1, WholeShape
<1>3. b[p].op = "else" => Honest(h[p])
  BY WholeShape DEF Whole, Typed
<1> QED BY <1>1, <1>2, <1>3, RuleSteps

\* What the rule of an else asks and does.
LEMMA ElseStepped ==
  ASSUME NEW b, NEW h, Whole(b, h), NEW p \in 1 .. Len(b), b[p].op = "else"
  PROVE  /\ TopFrame(h[p]).kind = "if" /\ Len(h[p].ctrl) >= 2 /\ Len(h[p + 1].ctrl) = Len(h[p].ctrl)
         /\ ~TopFrame(h[p]).sawElse /\ TopFrame(h[p + 1]).sawElse
         /\ FrameResult(h[p], TopFrame(h[p])) /\ Honest(h[p]) /\ h[p + 1].slots = h[p].slots
         /\ h[p + 1].height = TopFrame(h[p]).entry + Len(TopFrame(h[p]).params)
         /\ h[p + 1].inits = TopFrame(h[p]).inits
         /\ TopFrame(h[p + 1]).dead <=> TopFrame(h[p]).enteredDead
         /\ Keeps(h[p], h[p + 1])
<1>1. Len(b) \in Nat /\ p \in 1 .. Len(b) + 1 /\ p + 1 \in 1 .. Len(b) + 1
  BY WholeShape
<1>2. Good(h[p]) /\ h[p].ctrl # << >> /\ h[p + 1] \in Rule(h[p], b[p])
  BY <1>1, WholeShape
<1>3. ~h[p].closed
  BY <1>2, GoodFirm
<1>4. h[p + 1] \in ElseRule(h[p])
  BY <1>2, <1>3 DEF Rule
<1>5. TopFrame(h[p]).kind = "if"
  BY <1>2, <1>4 DEF ElseRule
<1>6. Len(h[p].ctrl) >= 2 /\ Honest(h[p])
  BY <1>5, IfWithElse, WholeShape DEF Whole, Typed
<1>7. Steps(h[p], h[p + 1], b[p])
  BY WholeSteps
<1>8. Len(h[p + 1].ctrl) = Len(h[p].ctrl)
  BY <1>7 DEF Steps, Openers
<1> QED BY <1>2, <1>4, <1>6, <1>8, ElseKeeps

-----------------------------------------------------------------------------
(* Where frames are opened and closed *)

\* A frame is open in every state it spans.
LEMMA SpanAt ==
  ASSUME NEW h, NEW p \in Int, NEW q \in Int, NEW i, Spans(h, p, q, i), NEW r \in p .. q
  PROVE  Len(h[r].ctrl) >= i
BY DEF Spans

LEMMA OpensBefore ==
  ASSUME NEW b, NEW h, Whole(b, h), NEW p \in 1 .. Len(b) + 1, NEW i \in Nat,
         NEW s, OpensAt(b, h, p, i, s), NEW x, OpensAt(b, h, p, i, x)
  PROVE  ~(s < x)
<1>1. Len(b) \in Nat /\ \A q \in 1 .. Len(b) + 1 : Len(h[q].ctrl) \in Nat
  BY WholeShape
<1>2. s \in 1 .. p - 1 /\ x \in 1 .. p - 1 /\ Spans(h, s + 1, p, i) /\ Len(h[x].ctrl) = i - 1
  BY DEF OpensAt
<1>3. ASSUME s < x PROVE FALSE
  <2>1. x \in s + 1 .. p /\ s + 1 \in Int /\ p \in Int /\ x \in 1 .. Len(b) + 1
    BY <1>1, <1>2, <1>3
  <2>2. Len(h[x].ctrl) >= i
    BY <1>2, <2>1, SpanAt
  <2>3. Len(h[x].ctrl) \in Nat
    BY <1>1, <2>1
  <2> QED BY <1>2, <2>2
<1> QED BY <1>3

LEMMA OpensOnce ==
  ASSUME NEW b, NEW h, Whole(b, h), NEW p \in 1 .. Len(b) + 1, NEW i \in Nat,
         NEW s, OpensAt(b, h, p, i, s), NEW x, OpensAt(b, h, p, i, x)
  PROVE  s = x
<1>1. Len(b) \in Nat
  BY WholeShape
<1>2. s \in 1 .. p - 1 /\ x \in 1 .. p - 1
  BY DEF OpensAt
<1>3. ~(s < x) /\ ~(x < s)
  BY OpensBefore
<1> QED BY <1>1, <1>2, <1>3

\* What the frame looks like where it was opened, and since.
LEMMA Opened ==
  ASSUME NEW b, NEW h, Whole(b, h), NEW p \in 1 .. Len(b) + 1, NEW i \in Nat,
         NEW s, OpensAt(b, h, p, i, s)
  PROVE  /\ s \in 1 .. Len(b) /\ s \in 1 .. p - 1 /\ b[s].op \in Openers /\ i >= 2
         /\ Len(h[s].ctrl) = i - 1 /\ Len(h[s + 1].ctrl) = i /\ Opens(h[s], h[s + 1], b[s])
         /\ Same(h[s + 1], h[p], i) /\ i \in 2 .. Len(h[p].ctrl) /\ FrameOf(h[p].ctrl[i], b[s])
<1>1. Len(b) \in Nat /\ DOMAIN h = 1 .. Len(b) + 1 /\ \A q \in 1 .. Len(b) + 1 : Len(h[q].ctrl) \in Nat
  BY WholeShape
<1>2. s \in 1 .. p - 1 /\ Spans(h, s + 1, p, i) /\ Len(h[s].ctrl) = i - 1 /\ b[s].op \in Openers
  BY DEF OpensAt
<1>3. s \in 1 .. Len(b) /\ s + 1 \in 1 .. Len(b) + 1 /\ s + 1 <= p
  BY <1>1, <1>2
<1>4. Len(h[s].ctrl) >= 1 /\ i >= 2
  BY <1>1, <1>2, <1>3, WholeShape
<1>5. Opens(h[s], h[s + 1], b[s]) /\ Len(h[s + 1].ctrl) = Len(h[s].ctrl) + 1
  BY <1>2, <1>3, WholeSteps DEF Steps
<1>6. Len(h[s + 1].ctrl) = i
  BY <1>1, <1>2, <1>5
<1>7. i \in DOMAIN h[s + 1].ctrl
  <2>1. DOMAIN h[s + 1].ctrl = 1 .. Len(h[s + 1].ctrl)
    BY <1>3, WholeShape
  <2> QED BY <1>4, <1>6, <2>1
<1>8. Same(h[s + 1], h[p], i)
  <2>1. \A x, q \in DOMAIN h : \A j \in DOMAIN h[x].ctrl :
          x <= q /\ Spans(h, x, q, j) => Same(h[x], h[q], j)
    BY DEF Whole, Typed
  <2> QED BY <1>1, <1>2, <1>3, <1>7, <2>1
<1>9. i \in 2 .. Len(h[p].ctrl)
  <2>1. p \in s + 1 .. p /\ s + 1 \in Int /\ p \in Int
    BY <1>1, <1>2
  <2>2. Len(h[p].ctrl) >= i /\ Len(h[p].ctrl) \in Nat
    BY <1>1, <1>2, <2>1, SpanAt
  <2> QED BY <1>4, <2>2
<1>10. FrameOf(h[p].ctrl[i], b[s])
  <2>1. PICK x \in 1 .. p - 1 : OpensAt(b, h, p, i, x) /\ FrameOf(h[p].ctrl[i], b[x])
    BY <1>9, OpenerOf
  <2> QED BY <2>1, OpensOnce
<1> QED BY <1>2, <1>3, <1>4, <1>5, <1>6, <1>8, <1>9, <1>10

\* A frame stays open over an instruction that does not close it.
LEMMA OpensStays ==
  ASSUME NEW b, NEW h, Whole(b, h), NEW p \in 1 .. Len(b), NEW i \in Nat, NEW s,
         OpensAt(b, h, p, i, s), i <= Len(h[p + 1].ctrl)
  PROVE  OpensAt(b, h, p + 1, i, s)
<1>1. Len(b) \in Nat /\ \A q \in 1 .. Len(b) + 1 : Len(h[q].ctrl) \in Nat
  BY WholeShape
<1>2. s \in 1 .. p - 1 /\ Spans(h, s + 1, p, i)
  BY DEF OpensAt
<1>3. p + 1 \in 1 .. Len(b) + 1 /\ s \in 1 .. p + 1 - 1
  BY <1>1, <1>2
<1>4. ASSUME NEW r \in s + 1 .. p + 1 PROVE Len(h[r].ctrl) >= i
  <2>1. Len(h[p + 1].ctrl) \in Nat
    BY <1>1, <1>3
  <2>2. CASE r = p + 1
    BY <2>1, <2>2
  <2>3. CASE r \in s + 1 .. p
    BY <1>2, <2>3 DEF Spans
  <2> QED BY <1>2, <2>2, <2>3
<1>5. Spans(h, s + 1, p + 1, i)
  BY <1>4 DEF Spans
<1> QED BY <1>3, <1>5 DEF OpensAt

LEMMA OpensEarlier ==
  ASSUME NEW b, NEW h, Whole(b, h), NEW p \in 1 .. Len(b) + 1, NEW i \in Nat, NEW s,
         OpensAt(b, h, p, i, s), NEW q \in s + 1 .. p
  PROVE  OpensAt(b, h, q, i, s)
<1>1. Len(b) \in Nat /\ s \in 1 .. p - 1 /\ Spans(h, s + 1, p, i)
  BY WholeShape DEF OpensAt
<1>2. s \in 1 .. q - 1
  BY <1>1
<1>3. s + 1 .. q \subseteq s + 1 .. p
  BY <1>1
<1>4. Spans(h, s + 1, q, i)
  BY <1>1, <1>3 DEF Spans
<1> QED BY <1>2, <1>4 DEF OpensAt

\* An opener opens the frame that is innermost after it.
LEMMA OpenerOpened ==
  ASSUME NEW b, NEW h, Whole(b, h), NEW p \in 1 .. Len(b), b[p].op \in Openers
  PROVE  /\ Len(h[p + 1].ctrl) = Len(h[p].ctrl) + 1
         /\ OpensAt(b, h, p + 1, Len(h[p].ctrl) + 1, p)
<1>1. Len(b) \in Nat /\ p + 1 \in 1 .. Len(b) + 1 /\ p \in 1 .. Len(b) + 1
      /\ \A q \in 1 .. Len(b) + 1 : Len(h[q].ctrl) \in Nat
  BY WholeShape
<1>2. Len(h[p + 1].ctrl) = Len(h[p].ctrl) + 1
  BY WholeSteps DEF Steps
<1>3. Spans(h, p + 1, p + 1, Len(h[p].ctrl) + 1)
  <2>1. \A r \in p + 1 .. p + 1 : r = p + 1
    BY <1>1
  <2>2. Len(h[p + 1].ctrl) \in Nat
    BY <1>1
  <2>3. Len(h[p + 1].ctrl) >= Len(h[p].ctrl) + 1
    BY <1>2, <2>2
  <2> QED BY <2>1, <2>3 DEF Spans
<1>4. p \in 1 .. p + 1 - 1
  BY <1>1
<1>5. Len(h[p].ctrl) = Len(h[p].ctrl) + 1 - 1
  BY <1>1
<1> QED BY <1>2, <1>3, <1>4, <1>5 DEF OpensAt

\* The end of the innermost frame.
LEMMA EndEnds ==
  ASSUME NEW b, NEW h, Whole(b, h), NEW p \in 1 .. Len(b), b[p].op = "end"
  PROVE  /\ Len(h[p + 1].ctrl) = Len(h[p].ctrl) - 1
         /\ \A s : OpensAt(b, h, p, Len(h[p].ctrl), s) => EndsAt(b, h, s, p)
<1>1. Len(b) \in Nat /\ p \in DOMAIN b /\ p \in 1 .. Len(b) + 1 /\ Len(h[p].ctrl) \in Nat
  BY WholeShape
<1>2. Len(h[p + 1].ctrl) = Len(h[p].ctrl) - 1
  BY WholeSteps DEF Steps
<1>3. ASSUME NEW s, OpensAt(b, h, p, Len(h[p].ctrl), s) PROVE EndsAt(b, h, s, p)
  <2>1. Len(h[s].ctrl) = Len(h[p].ctrl) - 1
    BY <1>3 DEF OpensAt
  <2>2. Len(h[s].ctrl) + 1 = Len(h[p].ctrl)
    BY <1>1, <2>1
  <2> QED BY <1>1, <1>2, <1>3, <2>1, <2>2 DEF EndsAt
<1> QED BY <1>2, <1>3

LEMMA EndsFacts ==
  ASSUME NEW b, NEW h, Whole(b, h), NEW s, NEW e, EndsAt(b, h, s, e)
  PROVE  /\ s \in 1 .. Len(b) /\ e \in s + 1 .. Len(b) /\ b[e].op = "end"
         /\ Len(h[s].ctrl) \in Nat /\ Len(h[s].ctrl) >= 1
         /\ OpensAt(b, h, e, Len(h[s].ctrl) + 1, s) /\ Len(h[e + 1].ctrl) = Len(h[s].ctrl)
         /\ Len(h[e].ctrl) = Len(h[s].ctrl) + 1
<1>1. Len(b) \in Nat /\ e \in 1 .. Len(b) /\ b[e].op = "end"
  BY WholeShape DEF EndsAt
<1>2. OpensAt(b, h, e, Len(h[s].ctrl) + 1, s) /\ Len(h[e + 1].ctrl) = Len(h[s].ctrl)
  BY DEF EndsAt
<1>3. s \in 1 .. e - 1
  BY <1>2 DEF OpensAt
<1>4. s \in 1 .. Len(b) /\ e \in s + 1 .. Len(b)
  BY <1>1, <1>3
<1>5. Len(h[s].ctrl) \in Nat /\ Len(h[s].ctrl) >= 1
  <2>1. s \in 1 .. Len(b) + 1
    BY <1>1, <1>4
  <2> QED BY <1>4, <2>1, WholeShape
<1>6. Len(h[e + 1].ctrl) = Len(h[e].ctrl) - 1 /\ Len(h[e].ctrl) \in Nat
  <2>1. e \in 1 .. Len(b) + 1
    BY <1>1
  <2> QED BY <1>1, <2>1, EndEnds, WholeShape
<1> QED BY <1>1, <1>2, <1>4, <1>5, <1>6

LEMMA EndsOnce ==
  ASSUME NEW b, NEW h, Whole(b, h), NEW s, NEW e, EndsAt(b, h, s, e), NEW x, EndsAt(b, h, s, x)
  PROVE  e = x
<1>1. ASSUME NEW y, NEW z, EndsAt(b, h, s, y), EndsAt(b, h, s, z), y < z PROVE FALSE
  <2>1. Len(b) \in Nat /\ s \in 1 .. Len(b) /\ y \in s + 1 .. Len(b) /\ z \in s + 1 .. Len(b)
        /\ Len(h[s].ctrl) \in Nat /\ Len(h[y + 1].ctrl) = Len(h[s].ctrl)
    BY <1>1, EndsFacts, WholeShape
  <2>2. Spans(h, s + 1, z, Len(h[s].ctrl) + 1)
    BY <1>1 DEF EndsAt, OpensAt
  <2>3. y + 1 \in s + 1 .. z /\ s + 1 \in Int /\ z \in Int
    BY <1>1, <2>1
  <2>4. Len(h[y + 1].ctrl) >= Len(h[s].ctrl) + 1
    BY <2>2, <2>3, SpanAt
  <2> QED BY <2>1, <2>4
<1>2. Len(b) \in Nat /\ e \in s + 1 .. Len(b) /\ x \in s + 1 .. Len(b) /\ s \in 1 .. Len(b)
  BY EndsFacts, WholeShape
<1>3. ~(e < x) /\ ~(x < e)
  BY <1>1
<1> QED BY <1>2, <1>3

\* The else of the innermost frame.
LEMMA ElseElses ==
  ASSUME NEW b, NEW h, Whole(b, h), NEW p \in 1 .. Len(b), b[p].op = "else", NEW s,
         OpensAt(b, h, p, Len(h[p].ctrl), s)
  PROVE  ElseAt(b, h, s, p) /\ b[s].op = "if"
<1>1. Len(b) \in Nat /\ p \in DOMAIN b /\ p \in 1 .. Len(b) + 1 /\ Len(h[p].ctrl) \in Nat
      /\ h[p] \in States /\ h[p].ctrl # << >>
  BY WholeShape
<1>2. Len(h[s].ctrl) = Len(h[p].ctrl) - 1
  BY DEF OpensAt
<1>3. Len(h[p].ctrl) = Len(h[s].ctrl) + 1
  BY <1>1, <1>2
<1>4. ElseAt(b, h, s, p)
  BY <1>1, <1>3 DEF ElseAt
<1>5. FrameOf(h[p].ctrl[Len(h[p].ctrl)], b[s])
  BY <1>1, Opened
<1>6. TopFrame(h[p]).kind = "if"
  BY ElseStepped
<1> QED BY <1>1, <1>4, <1>5, <1>6, TopIsFrame DEF FrameOf

LEMMA ElseFacts ==
  ASSUME NEW b, NEW h, Whole(b, h), NEW s, NEW q, ElseAt(b, h, s, q)
  PROVE  /\ q \in 1 .. Len(b) /\ b[q].op = "else" /\ s \in 1 .. q - 1 /\ s \in 1 .. Len(b)
         /\ Len(h[q].ctrl) = Len(h[s].ctrl) + 1 /\ Len(h[s].ctrl) \in Nat /\ Len(h[s].ctrl) >= 1
         /\ OpensAt(b, h, q, Len(h[q].ctrl), s) /\ b[s].op = "if"
<1>1. Len(b) \in Nat /\ q \in 1 .. Len(b) /\ b[q].op = "else" /\ Len(h[q].ctrl) = Len(h[s].ctrl) + 1
      /\ OpensAt(b, h, q, Len(h[q].ctrl), s)
  BY WholeShape DEF ElseAt
<1>2. s \in 1 .. q - 1
  BY <1>1 DEF OpensAt
<1>3. s \in 1 .. Len(b) /\ s \in 1 .. Len(b) + 1
  BY <1>1, <1>2
<1>4. Len(h[s].ctrl) \in Nat /\ Len(h[s].ctrl) >= 1
  BY <1>3, WholeShape
<1> QED BY <1>1, <1>2, <1>3, <1>4, ElseElses

LEMMA ElseOnce ==
  ASSUME NEW b, NEW h, Whole(b, h), NEW s, NEW q, ElseAt(b, h, s, q), NEW x, ElseAt(b, h, s, x)
  PROVE  q = x
<1>1. ASSUME NEW y, NEW z, ElseAt(b, h, s, y), ElseAt(b, h, s, z), y < z PROVE FALSE
  <2> DEFINE i == Len(h[s].ctrl) + 1
  <2>1. Len(b) \in Nat /\ s \in 1 .. y - 1 /\ y \in 1 .. Len(b) /\ z \in 1 .. Len(b)
        /\ Len(h[y].ctrl) = i /\ Len(h[z].ctrl) = i /\ i \in Nat /\ i >= 1
        /\ b[y].op = "else" /\ b[z].op = "else" /\ OpensAt(b, h, z, i, s)
    <3>1. /\ s \in 1 .. y - 1 /\ y \in 1 .. Len(b) /\ Len(h[y].ctrl) = i /\ b[y].op = "else"
          /\ Len(h[s].ctrl) \in Nat
      BY <1>1, ElseFacts
    <3>2. /\ z \in 1 .. Len(b) /\ Len(h[z].ctrl) = i /\ b[z].op = "else"
          /\ OpensAt(b, h, z, Len(h[z].ctrl), s)
      BY <1>1, ElseFacts
    <3>3. Len(b) \in Nat
      BY WholeShape
    <3>4. i \in Nat /\ i >= 1
      BY <3>1
    <3> QED BY <3>1, <3>2, <3>3, <3>4
  <2>2. Len(h[y + 1].ctrl) = i /\ TopFrame(h[y + 1]).sawElse /\ ~TopFrame(h[z]).sawElse
    BY <2>1, ElseStepped
  <2>3. y + 1 \in 1 .. Len(b) + 1 /\ z \in 1 .. Len(b) + 1 /\ y + 1 <= z
        /\ y + 1 .. z \subseteq s + 1 .. z
    BY <1>1, <2>1
  <2>4. Spans(h, y + 1, z, i)
    <3>1. Spans(h, s + 1, z, i)
      BY <2>1 DEF OpensAt
    <3> QED BY <2>3, <3>1 DEF Spans
  <2>5. i \in DOMAIN h[y + 1].ctrl /\ DOMAIN h = 1 .. Len(b) + 1
    <3>1. DOMAIN h[y + 1].ctrl = 1 .. Len(h[y + 1].ctrl) /\ DOMAIN h = 1 .. Len(b) + 1
      BY <2>3, WholeShape
    <3> HIDE DEF i
    <3> QED BY <2>1, <2>2, <3>1
  <2>6. Same(h[y + 1], h[z], i)
    <3>1. \A u, q_ \in DOMAIN h : \A j \in DOMAIN h[u].ctrl :
            u <= q_ /\ Spans(h, u, q_, j) => Same(h[u], h[q_], j)
      BY DEF Whole, Typed
    <3> HIDE DEF i
    <3> QED BY <2>3, <2>4, <2>5, <3>1
  <2>7. TopFrame(h[y + 1]) = h[y + 1].ctrl[i] /\ TopFrame(h[z]) = h[z].ctrl[i]
    BY <2>1, <2>2 DEF TopFrame
  <2> QED BY <2>2, <2>6, <2>7 DEF Same, SameFrame
<1>2. Len(b) \in Nat /\ q \in 1 .. Len(b) /\ x \in 1 .. Len(b)
  BY ElseFacts, WholeShape
<1>3. ~(q < x) /\ ~(x < q)
  BY <1>1
<1> QED BY <1>2, <1>3, SMTT(60)

\* After the end of a frame there is no else of it.
LEMMA NoElseAfterEnd ==
  ASSUME NEW b, NEW h, Whole(b, h), NEW s, NEW e, EndsAt(b, h, s, e), NEW q, ElseAt(b, h, s, q)
  PROVE  q \in s + 1 .. e - 1
<1>1. Len(b) \in Nat /\ s \in 1 .. Len(b) /\ e \in s + 1 .. Len(b) /\ q \in 1 .. Len(b) /\ s \in 1 .. q - 1
      /\ Len(h[s].ctrl) \in Nat /\ Len(h[e + 1].ctrl) = Len(h[s].ctrl)
      /\ OpensAt(b, h, q, Len(h[s].ctrl) + 1, s) /\ b[q].op = "else" /\ b[e].op = "end"
  BY EndsFacts, ElseFacts, WholeShape
<1>2. Spans(h, s + 1, q, Len(h[s].ctrl) + 1)
  BY <1>1 DEF OpensAt
<1>3. ASSUME q > e PROVE FALSE
  <2>1. e + 1 \in s + 1 .. q /\ s + 1 \in Int /\ q \in Int
    BY <1>1, <1>3
  <2>2. Len(h[e + 1].ctrl) >= Len(h[s].ctrl) + 1
    BY <1>2, <2>1, SpanAt
  <2> QED BY <1>1, <2>2
<1>4. q # e
  BY <1>1
<1> QED BY <1>1, <1>3, <1>4

-----------------------------------------------------------------------------
(* The stacks of openers *)

\* The openers of the frames after the first k instructions, without the
\* function's own.
Stacked(b, h, k, open) ==
  /\ open \in Seq(Nat)
  /\ Len(open) = (IF h[k + 1].ctrl = << >> THEN 0 ELSE Len(h[k + 1].ctrl) - 1)
  /\ \A j \in 1 .. Len(open) : OpensAt(b, h, k + 1, j + 1, open[j])

LEMMA StackedNow ==
  ASSUME NEW b, NEW h, Whole(b, h), NEW p \in 1 .. Len(b), NEW open, Stacked(b, h, p - 1, open)
  PROVE  /\ open \in Seq(Nat) /\ Len(open) \in Nat /\ DOMAIN open = 1 .. Len(open)
         /\ Len(h[p].ctrl) = Len(open) + 1
         /\ \A j \in 1 .. Len(open) : OpensAt(b, h, p, j + 1, open[j])
<1>1. Len(b) \in Nat /\ p - 1 + 1 = p /\ h[p].ctrl # << >> /\ Len(h[p].ctrl) \in Nat
  <2>1. Len(b) \in Nat
    BY WholeShape
  <2>2. p \in 1 .. Len(b) + 1
    BY <2>1
  <2> QED BY <2>1, <2>2, WholeShape
<1>2. /\ open \in Seq(Nat) /\ Len(open) = Len(h[p].ctrl) - 1
      /\ \A j \in 1 .. Len(open) : OpensAt(b, h, p, j + 1, open[j])
  BY <1>1 DEF Stacked
<1> QED BY <1>1, <1>2

LEMMA StackedLast ==
  ASSUME NEW b, NEW h, Whole(b, h), NEW p \in 1 .. Len(b), NEW open, Stacked(b, h, p - 1, open),
         open # << >>
  PROVE  /\ Last(open) = open[Len(open)] /\ Len(open) \in 1 .. Len(open) /\ Last(open) \in Nat
         /\ OpensAt(b, h, p, Len(h[p].ctrl), Last(open))
<1>1. /\ open \in Seq(Nat) /\ Len(open) \in Nat
      /\ Len(h[p].ctrl) = Len(open) + 1
      /\ \A j \in 1 .. Len(open) : OpensAt(b, h, p, j + 1, open[j])
  BY StackedNow, SMTT(60)
<1>2. Last(open) = open[Len(open)] /\ Len(open) >= 1 /\ Last(open) \in Nat
  BY <1>1, FrontIs
<1>3. Len(open) \in 1 .. Len(open)
  BY <1>1, <1>2
<1> QED BY <1>1, <1>2, <1>3

LEMMA StackedOpener ==
  ASSUME NEW b, NEW h, Whole(b, h), NEW p \in 1 .. Len(b), NEW open, Stacked(b, h, p - 1, open),
         b[p].op \in Openers
  PROVE  Stacked(b, h, p, Append(open, p))
<1> DEFINE n == Len(open)
<1>1. /\ open \in Seq(Nat) /\ n \in Nat /\ DOMAIN open = 1 .. n
      /\ Len(h[p].ctrl) = n + 1 /\ \A j \in 1 .. n : OpensAt(b, h, p, j + 1, open[j])
  BY StackedNow
<1>2. Len(h[p + 1].ctrl) = n + 2 /\ OpensAt(b, h, p + 1, n + 2, p)
  <2>1. n + 1 + 1 = n + 2
    BY <1>1
  <2>2. Len(h[p + 1].ctrl) = Len(h[p].ctrl) + 1 /\ OpensAt(b, h, p + 1, Len(h[p].ctrl) + 1, p)
    BY OpenerOpened
  <2>3. Len(h[p].ctrl) + 1 = n + 2
    BY <1>1, <2>1
  <2> HIDE DEF n
  <2> QED BY <2>2, <2>3, Zenon
<1>3. ASSUME NEW j \in 1 .. n PROVE OpensAt(b, h, p + 1, j + 1, open[j])
  <2>1. j + 1 \in Nat /\ j + 1 <= Len(h[p + 1].ctrl)
    <3> HIDE DEF n
    <3> QED BY <1>1, <1>2
  <2> QED BY <1>1, <1>3, <2>1, OpensStays
<1>4. p \in Nat
  BY WholeShape
<1>5. /\ Append(open, p) \in Seq(Nat) /\ Len(Append(open, p)) = n + 1
      /\ \A j \in 1 .. n : Append(open, p)[j] = open[j]
      /\ Append(open, p)[n + 1] = p
  BY <1>1, <1>4
<1>6. \A j \in 1 .. n + 1 : OpensAt(b, h, p + 1, j + 1, Append(open, p)[j])
  <2> TAKE j \in 1 .. n + 1
  <2> HIDE DEF n
  <2>1. CASE j = n + 1
    <3>1. j + 1 = n + 2
      BY <1>1, <2>1
    <3> QED BY <1>2, <1>5, <2>1, <3>1
  <2>2. CASE j \in 1 .. n
    BY <1>3, <1>5, <2>2
  <2> QED BY <1>1, <2>1, <2>2
<1>7. h[p + 1].ctrl # << >> /\ Len(Append(open, p)) = Len(h[p + 1].ctrl) - 1
  <2> HIDE DEF n
  <2> QED BY <1>1, <1>2, <1>5
<1> HIDE DEF n
<1> QED BY <1>5, <1>6, <1>7 DEF Stacked

LEMMA StackedOther ==
  ASSUME NEW b, NEW h, Whole(b, h), NEW p \in 1 .. Len(b), NEW open, Stacked(b, h, p - 1, open),
         b[p].op \notin Openers \cup {"end"}
  PROVE  Stacked(b, h, p, open)
<1> DEFINE n == Len(open)
<1>1. /\ open \in Seq(Nat) /\ n \in Nat
      /\ Len(h[p].ctrl) = n + 1 /\ \A j \in 1 .. n : OpensAt(b, h, p, j + 1, open[j])
  BY StackedNow
<1>2. Len(h[p + 1].ctrl) = n + 1
  BY <1>1, WholeSteps DEF Steps
<1>3. ASSUME NEW j \in 1 .. n PROVE OpensAt(b, h, p + 1, j + 1, open[j])
  <2>1. j + 1 \in Nat /\ j + 1 <= Len(h[p + 1].ctrl)
    <3> HIDE DEF n
    <3> QED BY <1>1, <1>2
  <2> QED BY <1>1, <1>3, <2>1, OpensStays
<1>4. h[p + 1].ctrl # << >> /\ n = Len(h[p + 1].ctrl) - 1
  <2> HIDE DEF n
  <2> QED BY <1>1, <1>2
<1> QED BY <1>1, <1>3, <1>4 DEF Stacked

LEMMA StackedEnd ==
  ASSUME NEW b, NEW h, Whole(b, h), NEW p \in 1 .. Len(b), NEW open, Stacked(b, h, p - 1, open),
         b[p].op = "end"
  PROVE  /\ open # << >> => Stacked(b, h, p, Front(open)) /\ EndsAt(b, h, Last(open), p)
         /\ open = << >> => Stacked(b, h, p, open) /\ p = Len(b)
<1> DEFINE n == Len(open)
<1>1. /\ open \in Seq(Nat) /\ n \in Nat
      /\ Len(h[p].ctrl) = n + 1 /\ \A j \in 1 .. n : OpensAt(b, h, p, j + 1, open[j])
      /\ open # << >> => OpensAt(b, h, p, Len(h[p].ctrl), Last(open))
  BY StackedNow, StackedLast
<1>2. Len(h[p + 1].ctrl) = n /\ \A s : OpensAt(b, h, p, Len(h[p].ctrl), s) => EndsAt(b, h, s, p)
  <2>1. n + 1 - 1 = n
    BY <1>1
  <2> HIDE DEF n
  <2> QED BY <1>1, <2>1, EndEnds
<1>3. ASSUME open # << >> PROVE Stacked(b, h, p, Front(open)) /\ EndsAt(b, h, Last(open), p)
  <2>1. Front(open) \in Seq(Nat) /\ Len(Front(open)) = n - 1 /\ n >= 1
        /\ \A k \in 1 .. n - 1 : Front(open)[k] = open[k]
    BY <1>1, <1>3, FrontIs
  <2>2. ASSUME NEW j \in 1 .. n - 1 PROVE OpensAt(b, h, p + 1, j + 1, Front(open)[j])
    <3>1. j + 1 \in Nat /\ j + 1 <= Len(h[p + 1].ctrl) /\ j \in 1 .. n
      <4> HIDE DEF n
      <4> QED BY <1>1, <1>2
    <3> QED BY <1>1, <2>1, <3>1, OpensStays
  <2>3. h[p + 1].ctrl # << >> /\ Len(Front(open)) = Len(h[p + 1].ctrl) - 1
    <3> HIDE DEF n
    <3> QED BY <1>2, <2>1
  <2> QED BY <1>1, <1>2, <1>3, <2>1, <2>2, <2>3 DEF Stacked
<1>4. ASSUME open = << >> PROVE Stacked(b, h, p, open) /\ p = Len(b)
  <2>1. n = 0 /\ Len(h[p + 1].ctrl) = 0
    BY <1>2, <1>4
  <2>2. Len(b) \in Nat /\ p + 1 \in 1 .. Len(b) + 1
    BY WholeShape
  <2>3. p = Len(b)
    <3>1. ASSUME p # Len(b) PROVE FALSE
      <4>1. p + 1 \in 1 .. Len(b)
        BY <2>2, <3>1
      <4>2. Len(h[p + 1].ctrl) >= 1
        BY <4>1, WholeShape
      <4> QED BY <2>1, <4>2
    <3> QED BY <3>1
  <2>4. h[p + 1].ctrl = << >>
    BY <2>3 DEF Whole
  <2>5. \A j \in 1 .. n : FALSE
    BY <2>1
  <2> QED BY <1>1, <2>1, <2>3, <2>4, <2>5 DEF Stacked
<1> QED BY <1>3, <1>4

-----------------------------------------------------------------------------
(* analyzeControl *)

\* elseByStart after the first k instructions.
ElsesKnown(b, h, elses, k) ==
  /\ \A s \in DOMAIN elses : ElseAt(b, h, s, elses[s])
  /\ \A s : \A q \in 1 .. k : ElseAt(b, h, s, q) => s \in DOMAIN elses

LEMMA LabelResolves ==
  ASSUME NEW b, NEW h, Whole(b, h), NEW s, NEW p, EndsAt(b, h, s, p),
         NEW elses, ElsesKnown(b, h, elses, p - 1), NEW l, l = Label(b, s, elses, p)
  PROVE  LabelOK(b, h, s, l)
<1>1. s \in 1 .. Len(b) /\ p \in s + 1 .. Len(b) /\ Len(b) \in Nat
  BY EndsFacts, WholeShape
<1>2. /\ l.end = p /\ l.target = (IF b[s].op = "loop" THEN s ELSE p)
      /\ l.else = (IF s \in DOMAIN elses THEN elses[s] ELSE 0)
      /\ l.params = Len(b[s].params) /\ l.results = Len(b[s].results)
      /\ l.branch = Len(IF b[s].op = "loop" THEN b[s].params ELSE b[s].results)
  BY DEF Label, LabelTarget
<1>5. l.isLoop = (b[s].op = "loop")
  BY Zenon DEF Label
<1>6. EndsAt(b, h, s, l.end) /\ l.target = (IF b[s].op = "loop" THEN s ELSE l.end)
  BY <1>2
<1>3. CASE s \in DOMAIN elses
  <2>1. ElseAt(b, h, s, elses[s])
    BY <1>3 DEF ElsesKnown
  <2>2. elses[s] \in 1 .. Len(b)
    BY <2>1, ElseFacts
  <2>3. l.else = elses[s] /\ l.else # 0
    BY <1>1, <1>2, <1>3, <2>2
  <2>4. ElseAt(b, h, s, l.else)
    BY <2>1, <2>3
  <2> QED BY <1>2, <1>5, <1>6, <2>3, <2>4, Zenon DEF LabelOK
<1>4. CASE s \notin DOMAIN elses
  <2>1. ASSUME NEW q \in DOMAIN b, ElseAt(b, h, s, q) PROVE FALSE
    <3>1. q \in s + 1 .. p - 1
      BY <2>1, NoElseAfterEnd
    <3>2. q \in 1 .. p - 1
      BY <1>1, <3>1
    <3> QED BY <1>4, <2>1, <3>2 DEF ElsesKnown
  <2>2. l.else = 0
    BY <1>2, <1>4
  <2> QED BY <1>2, <1>5, <1>6, <2>1, <2>2, Zenon DEF LabelOK
<1> QED BY <1>3, <1>4

\* The maps and stacks of analyzeControl after the first k instructions.
Scanned(b, h, c, k) ==
  /\ DOMAIN c = {"stack", "elses", "labels", "ok"} /\ c.ok
  /\ Stacked(b, h, k, c.stack)
  /\ ElsesKnown(b, h, c.elses, k)
  /\ \A s \in 1 .. k : b[s].op \in Openers => s \in DOMAIN c.labels \/ \E j \in DOMAIN c.stack : c.stack[j] = s
  /\ \A s \in DOMAIN c.labels : LabelOK(b, h, s, c.labels[s])

\* Where no else is, the elses known stay the ones there are.
LEMMA NoElseHere ==
  ASSUME NEW b, NEW h, Whole(b, h), NEW p \in 1 .. Len(b), b[p].op # "else",
         NEW elses, ElsesKnown(b, h, elses, p - 1)
  PROVE  ElsesKnown(b, h, elses, p)
<1>1. ASSUME NEW s, NEW q \in 1 .. p, ElseAt(b, h, s, q) PROVE s \in DOMAIN elses
  <2>1. q # p
    BY <1>1, ElseFacts
  <2>2. q \in 1 .. p - 1
    BY <2>1, WholeShape
  <2> QED BY <1>1, <2>2 DEF ElsesKnown
<1> QED BY <1>1 DEF ElsesKnown

LEMMA ElseHere ==
  ASSUME NEW b, NEW h, Whole(b, h), NEW p \in 1 .. Len(b), b[p].op = "else",
         NEW s, OpensAt(b, h, p, Len(h[p].ctrl), s),
         NEW elses, ElsesKnown(b, h, elses, p - 1)
  PROVE  ElsesKnown(b, h, Put(elses, s, p), p)
<1>1. ElseAt(b, h, s, p)
  BY ElseElses
<1>2. ASSUME NEW x \in DOMAIN Put(elses, s, p) PROVE ElseAt(b, h, x, Put(elses, s, p)[x])
  <2>1. CASE x = s
    BY <1>1, <2>1 DEF Put
  <2>2. CASE x # s
    BY <1>2, <2>2 DEF ElsesKnown, Put
  <2> QED BY <2>1, <2>2
<1>3. ASSUME NEW x, NEW q \in 1 .. p, ElseAt(b, h, x, q) PROVE x \in DOMAIN Put(elses, s, p)
  <2>1. CASE q = p
    <3>1. Len(b) \in Nat /\ p \in 1 .. Len(b) + 1 /\ Len(h[p].ctrl) \in Nat
      BY WholeShape
    <3>2. OpensAt(b, h, p, Len(h[p].ctrl), x)
      BY <1>3, <2>1, ElseFacts
    <3>3. x = s
      BY <3>1, <3>2, OpensOnce
    <3> QED BY <3>3 DEF Put
  <2>2. CASE q # p
    <3>1. q \in 1 .. p - 1
      BY <2>2, WholeShape
    <3>2. x \in DOMAIN elses
      BY <1>3, <3>1 DEF ElsesKnown
    <3> QED BY <3>2 DEF Put
  <2> QED BY <2>1, <2>2
<1> QED BY <1>2, <1>3 DEF ElsesKnown

LEMMA ScanStarts ==
  ASSUME NEW b, NEW h, Whole(b, h)
  PROVE  Scanned(b, h, NoControl, 0)
<1>1. h[1] = Start /\ Len(b) \in Nat /\ 1 \in 1 .. Len(b) + 1
  BY WholeShape
<1>2. h[0 + 1].ctrl # << >> /\ Len(h[0 + 1].ctrl) = 1
  <2>1. h[0 + 1] = Start
    BY <1>1
  <2> QED BY <2>1, StartGood
<1> DEFINE none == << >>
<1>3. none \in Seq(Nat) /\ Len(none) = 0 /\ DOMAIN none = {}
  OBVIOUS
<1>4. Stacked(b, h, 0, none)
  BY <1>2, <1>3 DEF Stacked
<1>5. ElsesKnown(b, h, none, 0)
  BY <1>3 DEF ElsesKnown
<1>6. /\ NoControl.stack = none /\ NoControl.elses = none /\ NoControl.labels = none /\ NoControl.ok
      /\ DOMAIN NoControl = {"stack", "elses", "labels", "ok"}
  BY DEF NoControl
<1> HIDE DEF none
<1> QED BY <1>3, <1>4, <1>5, <1>6 DEF Scanned

LEMMA ScanStep ==
  ASSUME NEW b, NEW h, Whole(b, h), NEW p \in 1 .. Len(b), NEW c, Scanned(b, h, c, p - 1),
         NEW w, w = Scan(b, c, p)
  PROVE  Scanned(b, h, w, p)
<1> DEFINE n == Len(c.stack)
<1>1. /\ Stacked(b, h, p - 1, c.stack) /\ ElsesKnown(b, h, c.elses, p - 1)
      /\ DOMAIN c = {"stack", "elses", "labels", "ok"} /\ c.ok
      /\ \A s \in 1 .. p - 1 :
           b[s].op \in Openers => s \in DOMAIN c.labels \/ \E j \in DOMAIN c.stack : c.stack[j] = s
      /\ \A s \in DOMAIN c.labels : LabelOK(b, h, s, c.labels[s])
  BY DEF Scanned
<1>2. c.stack \in Seq(Nat) /\ n \in Nat /\ DOMAIN c.stack = 1 .. n /\ Len(h[p].ctrl) = n + 1
      /\ p \in Nat /\ \A s \in 1 .. p : s # p => s \in 1 .. p - 1
  BY <1>1, StackedNow, WholeShape
<1>3. CASE b[p].op \in Openers
  <2>1. w = [c EXCEPT !.stack = Append(c.stack, p)]
    BY <1>3 DEF Scan, Openers
  <2> DEFINE s2 == Append(c.stack, p)
  <2>2. Stacked(b, h, p, s2)
    BY <1>1, <1>3, StackedOpener
  <2>3. ElsesKnown(b, h, c.elses, p)
    BY <1>1, <1>3, NoElseHere DEF Openers
  <2>4. DOMAIN s2 = 1 .. n + 1 /\ s2[n + 1] = p /\ \A j \in 1 .. n : s2[j] = c.stack[j] /\ j \in 1 .. n + 1
        /\ n + 1 \in 1 .. n + 1
    BY <1>2, SMTT(60)
  <2>5. ASSUME NEW s \in 1 .. p, b[s].op \in Openers
        PROVE  s \in DOMAIN c.labels \/ \E j \in DOMAIN s2 : s2[j] = s
    <3>1. CASE s = p
      BY <2>4, <3>1
    <3>2. CASE s # p
      <4> HIDE DEF s2, n
      <4>1. s \in 1 .. p - 1
        BY <1>2, <3>2
      <4> QED BY <1>1, <1>2, <2>4, <2>5, <4>1
    <3> QED BY <3>1, <3>2
  <2>6. w.stack = s2 /\ w.elses = c.elses /\ w.labels = c.labels /\ DOMAIN w = {"stack", "elses", "labels", "ok"} /\ w.ok
    BY <1>1, <2>1
  <2> HIDE DEF s2
  <2> QED BY <1>1, <2>2, <2>3, <2>5, <2>6 DEF Scanned
<1>4. CASE b[p].op = "else"
  <2>1. Len(h[p].ctrl) >= 2
    BY <1>4, ElseStepped
  <2>2. c.stack # << >>
    BY <1>2, <2>1
  <2>3. OpensAt(b, h, p, Len(h[p].ctrl), Last(c.stack))
    BY <1>1, <2>2, StackedLast
  <2>4. b[Last(c.stack)].op = "if"
    BY <1>4, <2>3, ElseElses
  <2> DEFINE e2 == Put(c.elses, Last(c.stack), p)
  <2>5. w = [c EXCEPT !.elses = e2]
    BY <1>4, <2>2, <2>4 DEF Scan, Openers
  <2>6. ElsesKnown(b, h, e2, p)
    BY <1>1, <1>4, <2>3, ElseHere
  <2>7. Stacked(b, h, p, c.stack)
    BY <1>1, <1>4, StackedOther DEF Openers
  <2>8. ASSUME NEW s \in 1 .. p, b[s].op \in Openers
        PROVE  s \in DOMAIN c.labels \/ \E j \in DOMAIN c.stack : c.stack[j] = s
    <3>1. s # p
      BY <1>4, <2>8 DEF Openers
    <3> QED BY <1>1, <1>2, <2>8, <3>1
  <2>9. w.stack = c.stack /\ w.elses = e2 /\ w.labels = c.labels /\ DOMAIN w = {"stack", "elses", "labels", "ok"} /\ w.ok
    BY <1>1, <2>5
  <2> HIDE DEF e2
  <2> QED BY <1>1, <2>6, <2>7, <2>8, <2>9 DEF Scanned
<1>5. CASE b[p].op = "end" /\ c.stack # << >>
  <2> DEFINE x == Last(c.stack)
             s2 == Front(c.stack)
             l2 == Put(c.labels, x, Label(b, x, c.elses, p))
  <2>1. w = [c EXCEPT !.stack = s2, !.labels = l2]
    BY <1>5 DEF Scan, Openers
  <2>2. Stacked(b, h, p, s2) /\ EndsAt(b, h, x, p)
    BY <1>1, <1>5, StackedEnd
  <2>3. ElsesKnown(b, h, c.elses, p)
    BY <1>1, <1>5, NoElseHere
  <2>4. ASSUME NEW s \in DOMAIN l2 PROVE LabelOK(b, h, s, l2[s])
    <3>1. CASE s = x
      <4>1. LabelOK(b, h, x, Label(b, x, c.elses, p))
        BY <1>1, <2>2, LabelResolves
      <4> QED BY <3>1, <4>1 DEF Put
    <3>2. CASE s # x
      BY <1>1, <2>4, <3>2 DEF Put
    <3> QED BY <3>1, <3>2
  <2>5. ASSUME NEW s \in 1 .. p, b[s].op \in Openers
        PROVE  s \in DOMAIN l2 \/ \E j \in DOMAIN s2 : s2[j] = s
    <3>1. s # p
      BY <1>5, <2>5 DEF Openers
    <3>2. s \in DOMAIN c.labels \/ \E j \in DOMAIN c.stack : c.stack[j] = s
      BY <1>1, <1>2, <2>5, <3>1
    <3>3. CASE s \in DOMAIN c.labels
      BY <3>3 DEF Put
    <3>4. ASSUME NEW j \in DOMAIN c.stack, c.stack[j] = s PROVE s \in DOMAIN l2 \/ \E i \in DOMAIN s2 : s2[i] = s
      <4>1. x = c.stack[n] /\ n >= 1 /\ s2 \in Seq(Nat) /\ Len(s2) = n - 1 /\ \A i \in 1 .. n - 1 : s2[i] = c.stack[i]
        BY <1>2, <1>5, FrontIs
      <4>2. DOMAIN s2 = 1 .. n - 1
        BY <4>1
      <4>3. CASE j = n
        BY <3>4, <4>1, <4>3 DEF Put
      <4>4. CASE j # n
        <5>1. j \in 1 .. n - 1
          BY <1>2, <3>4, <4>4
        <5> QED BY <3>4, <4>1, <4>2, <5>1
      <4> QED BY <4>3, <4>4
    <3> QED BY <3>2, <3>3, <3>4
  <2>6. w.stack = s2 /\ w.elses = c.elses /\ w.labels = l2 /\ DOMAIN w = {"stack", "elses", "labels", "ok"} /\ w.ok
    BY <1>1, <2>1
  <2> HIDE DEF s2, l2
  <2> QED BY <2>2, <2>3, <2>4, <2>5, <2>6 DEF Scanned
<1>6. CASE b[p].op \notin Openers \cup {"else"} /\ (b[p].op # "end" \/ c.stack = << >>)
  <2>1. w = c
    BY <1>6 DEF Scan
  <2>2. Stacked(b, h, p, c.stack)
    BY <1>1, <1>6, StackedOther, StackedEnd
  <2>3. ElsesKnown(b, h, c.elses, p)
    BY <1>1, <1>6, NoElseHere
  <2>4. ASSUME NEW s \in 1 .. p, b[s].op \in Openers
        PROVE  s \in DOMAIN c.labels \/ \E j \in DOMAIN c.stack : c.stack[j] = s
    <3>1. s # p
      BY <1>6, <2>4
    <3> QED BY <1>1, <1>2, <2>4, <3>1
  <2> QED BY <1>1, <2>1, <2>2, <2>3, <2>4 DEF Scanned
<1> QED BY <1>3, <1>4, <1>5, <1>6

\* The labels of every opener of the body.
LabelsKnown(b, h, labels_) == \A s \in 1 .. Len(b) : b[s].op \in Openers => LabelOK(b, h, s, labels_[s])

LEMMA ControlAnalyzed ==
  ASSUME NEW b, NEW h, Whole(b, h)
  PROVE  AnalyzeControl(b).ok /\ LabelsKnown(b, h, AnalyzeControl(b).labels)
<1> DEFINE f == Controls(b)
           P == {k \in 0 .. Len(b) : Scanned(b, h, f[k], k)}
           c == f[Len(b)]
<1>1. Len(b) \in Nat
  BY WholeShape
<1>2. f[0] = NoControl /\ \A k \in 1 .. Len(b) : f[k] = Scan(b, f[k - 1], k)
  BY <1>1, ControlsLoop
<1> HIDE DEF f
<1>3. 0 \in P
  BY <1>1, <1>2, ScanStarts
<1>4. ASSUME NEW k \in 0 .. Len(b), k \in P, k < Len(b) PROVE k + 1 \in P
  <2>1. k + 1 \in 1 .. Len(b) /\ k + 1 - 1 = k /\ k + 1 \in 0 .. Len(b)
    BY <1>1, <1>4
  <2>2. f[k + 1] = Scan(b, f[k], k + 1) /\ Scanned(b, h, f[k], k + 1 - 1)
    BY <1>2, <1>4, <2>1
  <2>3. Scanned(b, h, f[k + 1], k + 1)
    BY <2>1, <2>2, ScanStep
  <2> QED BY <2>1, <2>3
<1>5. Scanned(b, h, c, Len(b))
  <2> HIDE DEF P
  <2>1. 0 .. Len(b) \subseteq P
    BY <1>1, <1>3, <1>4, Upto
  <2>2. Len(b) \in P
    BY <1>1, <2>1
  <2> QED BY <2>2 DEF P
<1> HIDE DEF c
<1>6. c.stack = << >>
  <2>1. Len(c.stack) = 0 /\ c.stack \in Seq(Nat)
    BY <1>5 DEF Scanned, Stacked, Whole
  <2> QED BY <2>1
<1>7. AnalyzeControl(b).labels = c.labels /\ (AnalyzeControl(b).ok <=> c.ok /\ c.stack = << >>)
  BY DEF AnalyzeControl, c, f
<1>8. c.ok /\ \A s \in 1 .. Len(b) : b[s].op \in Openers => LabelOK(b, h, s, c.labels[s])
  <2>1. \A j \in DOMAIN c.stack : FALSE
    BY <1>6
  <2> QED BY <1>5, <2>1 DEF Scanned
<1> QED BY <1>6, <1>7, <1>8 DEF LabelsKnown

-----------------------------------------------------------------------------
(* compileFunction *)

\* compileBranchTarget finds the frame the validator checked the branch against.
LEMMA TargetResolves ==
  ASSUME NEW b, NEW h, Whole(b, h), NEW p \in 1 .. Len(b), NEW open, Stacked(b, h, p - 1, open),
         NEW L, LabelsKnown(b, h, L), NEW depth \in Nat, depth < Len(h[p].ctrl),
         NEW t, t = BranchTargetOf(depth, open, L, Len(b))
  PROVE  TargetOK(b, h, p, depth, t) /\ t.pc # -1
<1> DEFINE n == Len(open)
           s == open[n - depth]
<1>1. /\ open \in Seq(Nat) /\ n \in Nat /\ Len(h[p].ctrl) = n + 1
      /\ \A j \in 1 .. n : OpensAt(b, h, p, j + 1, open[j])
      /\ Len(b) \in Nat \ {0} /\ p \in 1 .. Len(b) + 1
  <2>1. Len(b) \in Nat \ {0} /\ p \in 1 .. Len(b) + 1
    BY WholeShape
  <2> QED BY <2>1, StackedNow
<1>2. t.depth = depth
  BY DEF BranchTargetOf
<1>3. CASE depth = n
  <2>1. t.pc = Len(b) - 1
    BY <1>1, <1>3 DEF BranchTargetOf
  <2>2. Len(h[p].ctrl) - depth = 1
    BY <1>1, <1>3
  <2> QED BY <1>1, <1>2, <2>1, <2>2 DEF TargetOK, Lands
<1>4. CASE depth < n
  <2> HIDE DEF n
  <2>1. t.pc = L[s].target
    BY <1>1, <1>4 DEF BranchTargetOf, n
  <2>2. n - depth \in 1 .. n /\ n - depth + 1 \in Nat /\ n - depth + 1 > 1 /\ Len(h[p].ctrl) - depth = n - depth + 1
    BY <1>1, <1>4
  <2>3. OpensAt(b, h, p, n - depth + 1, s)
    BY <1>1, <2>2
  <2> HIDE DEF s
  <2>4. s \in 1 .. Len(b) /\ s \in 1 .. p - 1 /\ b[s].op \in Openers
    BY <1>1, <2>2, <2>3, Opened
  <2>5. LabelOK(b, h, s, L[s])
    BY <2>4 DEF LabelsKnown
  <2>6. L[s].target = (IF b[s].op = "loop" THEN s ELSE L[s].end) /\ EndsAt(b, h, s, L[s].end)
    BY <2>5 DEF LabelOK
  <2>7. L[s].end \in s + 1 .. Len(b)
    BY <2>6, EndsFacts
  <2>8. t.pc # -1
    BY <1>1, <2>1, <2>4, <2>6, <2>7
  <2>9. Lands(b, h, p, n - depth + 1, t.pc)
    BY <2>1, <2>2, <2>3, <2>4, <2>6 DEF Lands
  <2> QED BY <1>2, <2>2, <2>8, <2>9 DEF TargetOK
<1> QED BY <1>1, <1>3, <1>4

\* The depths a validated instruction names are those of frames.
LEMMA DepthsInRange ==
  ASSUME NEW b, NEW h, Whole(b, h), NEW p \in 1 .. Len(b)
  PROVE  /\ b[p].op \in Branches => b[p].depth \in Nat /\ b[p].depth < Len(h[p].ctrl)
         /\ b[p].op = "br_table" =>
              b[p].depths \in Seq(Nat) /\ \A i \in DOMAIN b[p].depths : b[p].depths[i] < Len(h[p].ctrl)
         /\ b[p].op = "try_table" =>
              b[p].catches \in Seq(Clauses) /\ \A i \in DOMAIN b[p].catches : CatchOK(h[p], b[p].catches[i])
<1> DEFINE v == h[p]
           ins == b[p]
<1>1. Good(v) /\ v.ctrl # << >> /\ IsInstr(ins) /\ h[p + 1] \in Rule(v, ins)
  <2>1. p \in 1 .. Len(b) + 1
    BY WholeShape
  <2> QED BY <2>1, WholeShape
<1>2. Firm(v) /\ ~v.closed
  BY <1>1, GoodFirm
<1>3. /\ ins.op \in Branches => ins.depth \in Nat
      /\ ins.op = "br_table" => ins.depths \in Seq(Nat) /\ ins.depths # << >>
      /\ ins.op = "try_table" => ins.catches \in Seq(Clauses)
  BY <1>1, Immediates
<1>4. /\ ins.op = "br" => h[p + 1] \in BrRule(v, ins.depth)
      /\ ins.op = "br_if" => h[p + 1] \in BrIfRule(v, ins.depth)
      /\ ins.op = "br_on_null" => h[p + 1] \in BrOnNullRule(v, ins.depth)
      /\ ins.op = "br_on_non_null" => h[p + 1] \in BrOnNonNullRule(v, ins.depth)
      /\ ins.op = "br_table" => h[p + 1] \in BrTableRule(v, ins.depths)
      /\ ins.op = "try_table" => h[p + 1] \in TryTableRule(v, ins)
  BY <1>1, <1>2 DEF Rule
<1>5. ins.op = "try_table" => \A i \in DOMAIN ins.catches : CatchOK(v, ins.catches[i])
  BY <1>4 DEF TryTableRule
<1> HIDE DEF v, ins
<1>6. ins.op \in Branches => ins.depth < Len(v.ctrl)
  BY <1>2, <1>3, <1>4, BrLocal, BrIfLocal, BrOnNullLocal, BrOnNonNullLocal DEF Branches
<1>7. ins.op = "br_table" => \A i \in DOMAIN ins.depths : ins.depths[i] < Len(v.ctrl)
  BY <1>2, <1>3, <1>4, BrTableLocal
<1> QED BY <1>3, <1>5, <1>6, <1>7 DEF v, ins

\* One instruction compiles, to what the validator saw.
LEMMA InstructionCompiles ==
  ASSUME NEW b, NEW h, Whole(b, h), NEW p \in 1 .. Len(b), NEW open, Stacked(b, h, p - 1, open),
         NEW L, LabelsKnown(b, h, L), NEW c, c = Compiled(b, p, open, L)
  PROVE  ~CompileError(b, p, open, L) /\ ResolvedAt(b, h, p, c)
<1> DEFINE ins == b[p]
           to(d) == BranchTargetOf(d, open, L, Len(b))
<1>1. ASSUME NEW d \in Nat, d < Len(h[p].ctrl) PROVE TargetOK(b, h, p, d, to(d)) /\ to(d).pc # -1
  BY <1>1, TargetResolves
<1> HIDE DEF to
<1>2. CASE ins.op = "try_table"
  <2>1. c = [op |-> ins.op, label |-> L[p], catches |-> Catches(ins, open, L, Len(b))]
    BY <1>2 DEF Compiled, Openers, Branches, to
  <2>2. c.op = ins.op /\ c.label = L[p] /\ c.catches = Catches(ins, open, L, Len(b))
    BY <2>1
  <2>3. /\ DOMAIN c.catches = DOMAIN ins.catches
        /\ \A i \in DOMAIN ins.catches :
             c.catches[i] = [kind |-> ins.catches[i].kind, tag |-> ins.catches[i].tag,
                             target |-> to(ins.catches[i].depth)]
    BY <2>2 DEF Catches, to
  <2>4. ASSUME NEW i \in DOMAIN ins.catches
        PROVE  /\ c.catches[i].kind = ins.catches[i].kind /\ c.catches[i].tag = ins.catches[i].tag
               /\ TargetOK(b, h, p, ins.catches[i].depth, c.catches[i].target)
               /\ c.catches[i].target.pc # -1
    <3>1. ins.catches[i].depth \in Nat /\ ins.catches[i].depth < Len(h[p].ctrl)
      <4>1. ins.catches \in Seq(Clauses) /\ CatchOK(h[p], ins.catches[i])
        BY <1>2, DepthsInRange
      <4>2. ins.catches[i] \in Clauses
        BY <4>1
      <4> HIDE DEF ins
      <4> QED BY <4>1, <4>2 DEF CatchOK, Clauses
    <3>2. TargetOK(b, h, p, ins.catches[i].depth, to(ins.catches[i].depth)) /\ to(ins.catches[i].depth).pc # -1
      BY <1>1, <3>1
    <3>3. c.catches[i].kind = ins.catches[i].kind /\ c.catches[i].tag = ins.catches[i].tag
          /\ c.catches[i].target = to(ins.catches[i].depth)
      <4> DEFINE x == ins.catches[i]
                 y == to(x.depth)
      <4>1. c.catches[i] = [kind |-> x.kind, tag |-> x.tag, target |-> y]
        BY <2>3
      <4> HIDE DEF y
      <4>2. c.catches[i].kind = x.kind /\ c.catches[i].tag = x.tag /\ c.catches[i].target = y
        BY <4>1
      <4> QED BY <4>2 DEF y
    <3> QED BY <3>2, <3>3
  <2>5. LabelOK(b, h, p, L[p])
    BY <1>2 DEF LabelsKnown, Openers
  <2>6. CatchesOK(b, h, p, c.catches)
    BY <2>3, <2>4 DEF CatchesOK
  <2>7. ~CompileError(b, p, open, L)
    <3>1. c.catches = Compiled(b, p, open, L).catches
      OBVIOUS
    <3> HIDE DEF ins
    <3>2. ~(\E i \in DOMAIN c.catches : c.catches[i].target.pc = -1)
      BY <2>3, <2>4
    <3> QED BY <1>2, <3>1, <3>2 DEF CompileError, ins, Branches
  <2> QED BY <1>2, <2>2, <2>5, <2>6, <2>7 DEF ResolvedAt, Openers, Branches
<1>3. CASE ins.op \in {"block", "loop", "if"}
  <2>1. ASSUME ins.op = "if"
        PROVE  /\ c.op = ins.op /\ c.label = L[p] /\ c.catches = << >>
               /\ c.target = IF c.label.else # 0 THEN c.label.else ELSE c.label.end
    <3> DEFINE x == IF L[p].else # 0 THEN L[p].else ELSE L[p].end
    <3>1. c = [op |-> ins.op, label |-> L[p], catches |-> << >>, target |-> x]
      BY <2>1 DEF Compiled, Openers, Branches, to
    <3>2. c.op = ins.op /\ c.label = L[p] /\ c.catches = << >> /\ c.target = x
      <4> HIDE DEF x, ins
      <4> QED BY <3>1
    <3> QED BY <3>2
  <2>2. ASSUME ins.op \in {"block", "loop"}
        PROVE  c.op = ins.op /\ c.label = L[p] /\ c.catches = << >>
    <3>1. c = [op |-> ins.op, label |-> L[p], catches |-> << >>]
      BY <2>2 DEF Compiled, Openers, Branches, to
    <3> QED BY <2>2, <3>1
  <2>3. LabelOK(b, h, p, L[p])
    BY <1>3 DEF LabelsKnown, Openers
  <2>4. ~CompileError(b, p, open, L)
    BY <1>3 DEF CompileError, Branches
  <2>5. /\ c.op = ins.op /\ c.label = L[p] /\ c.catches = << >>
        /\ ins.op = "if" => c.target = IF c.label.else # 0 THEN c.label.else ELSE c.label.end
    BY <1>3, <2>1, <2>2
  <2> QED BY <1>3, <2>3, <2>4, <2>5 DEF ResolvedAt, Openers, Branches
<1>4. CASE ins.op = "else"
  <2>1. open # << >>
    <3>1. Len(h[p].ctrl) >= 2 /\ Len(h[p].ctrl) = Len(open) + 1 /\ Len(open) \in Nat
      BY <1>4, ElseStepped, StackedNow
    <3> QED BY <3>1
  <2> DEFINE s == Last(open)
  <2>2. OpensAt(b, h, p, Len(h[p].ctrl), s)
    BY <2>1, StackedLast
  <2>3. ElseAt(b, h, s, p) /\ b[s].op = "if"
    BY <1>4, <2>2, ElseElses
  <2>4. s \in 1 .. Len(b) /\ s \in 1 .. p - 1
    BY <2>3, ElseFacts
  <2>5. LabelOK(b, h, s, L[s])
    BY <2>3, <2>4 DEF LabelsKnown, Openers
  <2>6. L[s].else = p /\ EndsAt(b, h, s, L[s].end)
    <3>1. EndsAt(b, h, s, L[s].end)
          /\ IF L[s].else = 0 THEN \A q \in DOMAIN b : ~ElseAt(b, h, s, q) ELSE ElseAt(b, h, s, L[s].else)
      BY <2>5 DEF LabelOK
    <3>2. p \in DOMAIN b
      BY WholeShape
    <3>3. ElseAt(b, h, s, L[s].else)
      BY <2>3, <3>1, <3>2
    <3> QED BY <2>3, <3>1, <3>3, ElseOnce
  <2>7. ~CompileError(b, p, open, L)
    BY <1>4, <2>1, <2>6 DEF CompileError, Branches
  <2>8. c.op = ins.op /\ c.target = L[s].end
    <3>1. c = [op |-> ins.op, target |-> L[s].end]
      BY <1>4 DEF Compiled, Openers, Branches, to
    <3> QED BY <3>1
  <2> HIDE DEF s
  <2> QED BY <1>4, <2>3, <2>4, <2>6, <2>7, <2>8 DEF ResolvedAt, Openers, Branches
<1>5. CASE ins.op \in Branches
  <2>1. ins.depth \in Nat /\ ins.depth < Len(h[p].ctrl)
    BY <1>5, DepthsInRange
  <2>2. c = [op |-> ins.op, targets |-> <<to(ins.depth)>>]
    BY <1>5 DEF Compiled, Branches, to
  <2>3. c.op = ins.op /\ c.targets = <<to(ins.depth)>> /\ DOMAIN c.targets = {1} /\ c.targets[1] = to(ins.depth)
    BY <2>2
  <2>4. TargetOK(b, h, p, ins.depth, c.targets[1]) /\ c.targets[1].pc # -1
    BY <1>1, <2>1, <2>3
  <2>5. ~CompileError(b, p, open, L)
    <3>1. ~(\E i \in DOMAIN c.targets : c.targets[i].pc = -1)
      BY <2>3, <2>4
    <3> QED BY <1>5, <3>1 DEF CompileError, Branches
  <2> QED BY <1>5, <2>3, <2>4, <2>5 DEF ResolvedAt, Openers, Branches
<1>6. CASE ins.op = "br_table"
  <2>1. \A i \in DOMAIN ins.depths : ins.depths[i] \in Nat /\ ins.depths[i] < Len(h[p].ctrl)
    BY <1>6, DepthsInRange
  <2>2. c = [op |-> ins.op, targets |-> [i \in DOMAIN ins.depths |-> to(ins.depths[i])]]
    BY <1>6 DEF Compiled, Branches, to
  <2>3. c.op = ins.op /\ DOMAIN c.targets = DOMAIN ins.depths
        /\ \A i \in DOMAIN c.targets : c.targets[i] = to(ins.depths[i])
    BY <2>2
  <2>4. \A i \in DOMAIN c.targets : TargetOK(b, h, p, ins.depths[i], c.targets[i]) /\ c.targets[i].pc # -1
    BY <1>1, <2>1, <2>3
  <2>5. ~CompileError(b, p, open, L)
    <3>1. ~(\E i \in DOMAIN c.targets : c.targets[i].pc = -1)
      BY <2>4
    <3> QED BY <1>6, <3>1 DEF CompileError, Branches
  <2> QED BY <1>6, <2>3, <2>4, <2>5 DEF ResolvedAt, Openers, Branches
<1>7. CASE ins.op \notin Openers \cup {"else"} \cup Branches \cup {"br_table"}
  <2>1. c = ins
    BY <1>7 DEF Compiled, Openers, Branches
  <2>2. ~CompileError(b, p, open, L)
    <3>1. ins.op = "end" => open # << >> \/ p = Len(b)
      BY StackedEnd
    <3> QED BY <1>7, <3>1 DEF CompileError, Openers, Branches
  <2> QED BY <1>7, <2>1, <2>2 DEF ResolvedAt, Openers, Branches
<1> QED BY <1>2, <1>3, <1>4, <1>5, <1>6, <1>7 DEF Openers

\* The labelStack and the code of compileFunction after the first k instructions.
Compiling(b, h, st, k) ==
  /\ DOMAIN st = {"ok", "open", "code"} /\ st.ok
  /\ Stacked(b, h, k, st.open)
  /\ \E T : st.code \in Seq(T)
  /\ Len(st.code) = k /\ \A p \in 1 .. k : ResolvedAt(b, h, p, st.code[p])

LEMMA OpenFollows ==
  ASSUME NEW b, NEW h, Whole(b, h), NEW p \in 1 .. Len(b), NEW open, Stacked(b, h, p - 1, open),
         NEW L, LabelsKnown(b, h, L)
  PROVE  Stacked(b, h, p, OpenAfter(b, p, open, L))
<1>1. CASE b[p].op \in Openers
  <2>1. OpenAfter(b, p, open, L) = Append(open, p)
    BY <1>1 DEF OpenAfter, Openers
  <2> QED BY <1>1, <2>1, StackedOpener
<1>2. CASE b[p].op = "end" /\ open # << >>
  <2>1. Stacked(b, h, p, Front(open)) /\ EndsAt(b, h, Last(open), p)
    BY <1>2, StackedEnd
  <2> DEFINE s == Last(open)
  <2>2. s \in 1 .. Len(b)
    BY <2>1, EndsFacts
  <2>3. b[s].op \in Openers
    BY <2>1 DEF EndsAt, OpensAt
  <2>4. EndsAt(b, h, s, L[s].end)
    BY <2>2, <2>3 DEF LabelsKnown, LabelOK
  <2>5. L[s].end = p
    BY <2>1, <2>4, EndsOnce
  <2>6. OpenAfter(b, p, open, L) = Front(open)
    BY <1>2, <2>5 DEF OpenAfter, Openers
  <2> QED BY <2>1, <2>6
<1>3. CASE b[p].op = "end" /\ open = << >>
  <2>1. OpenAfter(b, p, open, L) = open
    BY <1>3 DEF OpenAfter, Openers
  <2> QED BY <1>3, <2>1, StackedEnd
<1>4. CASE b[p].op \notin Openers \cup {"end"}
  <2>1. OpenAfter(b, p, open, L) = open
    BY <1>4 DEF OpenAfter
  <2> QED BY <1>4, <2>1, StackedOther
<1> QED BY <1>1, <1>2, <1>3, <1>4

LEMMA CompileStep ==
  ASSUME NEW b, NEW h, Whole(b, h), NEW p \in 1 .. Len(b), NEW st, Compiling(b, h, st, p - 1),
         NEW L, LabelsKnown(b, h, L), NEW w, w = CompileOne(b, st, p, L)
  PROVE  Compiling(b, h, w, p)
<1> DEFINE c == Compiled(b, p, st.open, L)
           o == OpenAfter(b, p, st.open, L)
<1>1. /\ DOMAIN st = {"ok", "open", "code"} /\ st.ok /\ Stacked(b, h, p - 1, st.open)
      /\ Len(st.code) = p - 1 /\ \A k \in 1 .. p - 1 : ResolvedAt(b, h, k, st.code[k])
  BY DEF Compiling
<1>2. PICK T : st.code \in Seq(T)
  BY DEF Compiling
<1>3. ~CompileError(b, p, st.open, L) /\ ResolvedAt(b, h, p, c)
  BY <1>1, InstructionCompiles
<1>4. Stacked(b, h, p, o)
  BY <1>1, OpenFollows
<1>5. w = [st EXCEPT !.open = o, !.code = Append(st.code, c)]
  BY <1>1, <1>3 DEF CompileOne
<1> HIDE DEF c, o
<1>6. DOMAIN w = {"ok", "open", "code"} /\ w.ok /\ w.open = o /\ w.code = Append(st.code, c)
  BY <1>1, <1>5
<1>7. /\ Append(st.code, c) \in Seq(T \cup {c}) /\ Len(Append(st.code, c)) = p
      /\ \A k \in 1 .. p - 1 : Append(st.code, c)[k] = st.code[k]
      /\ Append(st.code, c)[p] = c
  <2>1. st.code \in Seq(T \cup {c})
    BY <1>2
  <2>2. p \in Nat /\ p - 1 \in Nat
    BY WholeShape
  <2> QED BY <1>1, <2>1, <2>2
<1>8. ASSUME NEW k \in 1 .. p PROVE ResolvedAt(b, h, k, w.code[k])
  <2>1. CASE k = p
    BY <1>3, <1>6, <1>7, <2>1
  <2>2. CASE k # p
    <3>1. k \in 1 .. p - 1
      BY <2>2, WholeShape
    <3> QED BY <1>1, <1>6, <1>7, <3>1
  <2> QED BY <2>1, <2>2
<1> QED BY <1>4, <1>6, <1>7, <1>8 DEF Compiling

\* Every body the validator accepts compiles, and its labels, targets and
\* clauses are the validator's frames.
THEOREM CompilesResolved ==
  ASSUME NEW b, NEW h, Whole(b, h)
  PROVE  CompileFunction(b).ok /\ Resolved(b, h, CompileFunction(b).code)
<1> DEFINE a == AnalyzeControl(b)
           f == Emitted(b, a)
           P == {k \in 0 .. Len(b) : Compiling(b, h, f[k], k)}
           st == f[Len(b)]
<1>1. Len(b) \in Nat /\ DOMAIN b = 1 .. Len(b)
  BY WholeShape
<1>2. a.ok /\ LabelsKnown(b, h, a.labels)
  BY ControlAnalyzed
<1>3. /\ f[0] = [ok |-> a.ok, open |-> << >>, code |-> << >>]
      /\ \A k \in 1 .. Len(b) : f[k] = CompileOne(b, f[k - 1], k, a.labels)
  BY <1>1, EmittedLoop
<1> HIDE DEF f, a
<1>4. 0 \in P
  <2> DEFINE none == << >>
  <2>1. DOMAIN f[0] = {"ok", "open", "code"} /\ f[0].ok /\ f[0].open = none /\ f[0].code = none
    BY <1>2, <1>3
  <2>2. none \in Seq(Nat) /\ Len(none) = 0
    OBVIOUS
  <2>3. Stacked(b, h, 0, none)
    <3>1. Scanned(b, h, NoControl, 0)
      BY ScanStarts
    <3> QED BY <3>1 DEF Scanned, NoControl
  <2> HIDE DEF none
  <2>4. Compiling(b, h, f[0], 0)
    BY <2>1, <2>2, <2>3 DEF Compiling
  <2> QED BY <1>1, <2>4
<1>5. ASSUME NEW k \in 0 .. Len(b), k \in P, k < Len(b) PROVE k + 1 \in P
  <2>1. k + 1 \in 1 .. Len(b) /\ k + 1 - 1 = k /\ k + 1 \in 0 .. Len(b)
    BY <1>1, <1>5
  <2>2. f[k + 1] = CompileOne(b, f[k], k + 1, a.labels) /\ Compiling(b, h, f[k], k + 1 - 1)
    BY <1>3, <1>5, <2>1
  <2>3. Compiling(b, h, f[k + 1], k + 1)
    BY <1>2, <2>1, <2>2, CompileStep
  <2> QED BY <2>1, <2>3
<1>6. Compiling(b, h, st, Len(b))
  <2> HIDE DEF P
  <2>1. 0 .. Len(b) \subseteq P
    BY <1>1, <1>4, <1>5, Upto
  <2>2. Len(b) \in P
    BY <1>1, <2>1
  <2> QED BY <2>2 DEF P
<1>7. CompileFunction(b) = IF st.ok /\ st.open = << >> THEN [ok |-> TRUE, code |-> st.code]
                                                  ELSE [ok |-> FALSE, code |-> << >>]
  BY DEF CompileFunction, f, a
<1> HIDE DEF st
<1>8. st.open = << >> /\ st.ok
  <2>1. Len(st.open) = 0 /\ st.open \in Seq(Nat) /\ st.ok
    BY <1>6 DEF Compiling, Stacked, Whole
  <2> QED BY <2>1
<1>9. CompileFunction(b) = [ok |-> TRUE, code |-> st.code]
  BY <1>7, <1>8
<1>10. CompileFunction(b).ok /\ CompileFunction(b).code = st.code
  BY <1>9
<1>11. Len(st.code) = Len(b) /\ DOMAIN st.code = 1 .. Len(b) /\ \A p \in 1 .. Len(b) : ResolvedAt(b, h, p, st.code[p])
  BY <1>6 DEF Compiling
<1> QED BY <1>1, <1>10, <1>11 DEF Resolved
-----------------------------------------------------------------------------
(* A body that goes on *)

\* Only an end closes the frame of the function.
LEMMA ClosedByEnd ==
  ASSUME NEW b, NEW h, Typed(b, h), b # << >>, h[Len(b) + 1].ctrl = << >>
  PROVE  Whole(b, h)
<1> DEFINE n == Len(b)
           v == h[n]
           w == h[n + 1]
<1>1. b \in Seq(Instrs) /\ n \in Nat \ {0} /\ n \in DOMAIN b /\ n \in DOMAIN h
  BY DEF Typed
<1>2. Good(v) /\ v.ctrl # << >> /\ w \in Rule(v, b[n]) /\ b[n] \in Instrs /\ IsInstr(b[n])
      /\ (b[n].op = "else" => Honest(v))
  <2>1. b[n] \in Instrs
    BY <1>1
  <2> QED BY <1>1, <2>1, AlphabetInstrs DEF Typed
<1>3. Len(v.ctrl) \in Nat \ {0} /\ Len(w.ctrl) = 0
  <2>1. v \in States
    BY <1>2 DEF Good
  <2>2. Len(v.ctrl) \in Nat \ {0}
    BY <1>2, <2>1, TopIsFrame
  <2> QED BY <2>2
<1> HIDE DEF v, w, n
<1>4. Steps(v, w, b[n])
  BY <1>2, RuleSteps
<1>5. b[n].op = "end"
  BY <1>3, <1>4 DEF Steps
<1> QED BY <1>5 DEF Whole, n, w

\* b goes on after the whole body b0.
Extends(b, b0) == Len(b) \in Nat /\ Len(b) > Len(b0) /\ \A k \in 1 .. Len(b0) : b[k] = b0[k]

\* Up to there analyzeControl does what it does on the whole body.
LEMMA ScanAlike ==
  ASSUME NEW b0, NEW h0, Whole(b0, h0), NEW b, Extends(b, b0), NEW p \in 1 .. Len(b0),
         NEW c, Scanned(b0, h0, c, p - 1)
  PROVE  Scan(b, c, p) = Scan(b0, c, p)
<1> DEFINE x == Last(c.stack)
<1>1. b[p] = b0[p] /\ Len(b0) \in Nat
  BY WholeShape DEF Extends
<1>2. ASSUME c.stack # << >> PROVE b[x] = b0[x]
  <2>1. Stacked(b0, h0, p - 1, c.stack)
    BY DEF Scanned
  <2>2. OpensAt(b0, h0, p, Len(h0[p].ctrl), x)
    BY <1>2, <2>1, StackedLast
  <2>3. x \in 1 .. p - 1
    BY <2>2 DEF OpensAt
  <2>4. x \in 1 .. Len(b0)
    BY <1>1, <2>3
  <2> QED BY <2>4 DEF Extends
<1>3. ASSUME c.stack # << >> PROVE Label(b, x, c.elses, p) = Label(b0, x, c.elses, p)
  BY <1>2, <1>3 DEF Label
<1> HIDE DEF x
<1>4. CASE c.stack # << >>
  <2>1. b[Last(c.stack)] = b0[Last(c.stack)] /\ Label(b, Last(c.stack), c.elses, p) = Label(b0, Last(c.stack), c.elses, p)
    BY <1>2, <1>3, <1>4 DEF x
  <2> QED BY <1>1, <1>4, <2>1 DEF Scan
<1>5. CASE c.stack = << >>
  BY <1>1, <1>5 DEF Scan
<1> QED BY <1>4, <1>5

\* After it, it has closed every opener of b0, and only opens and closes others.
Beyond(b0, h0, c) ==
  /\ DOMAIN c = {"stack", "elses", "labels", "ok"}
  /\ c.stack \in Seq(Nat) /\ \A j \in 1 .. Len(c.stack) : c.stack[j] > Len(b0)
  /\ \A s \in 1 .. Len(b0) : b0[s].op \in Openers => s \in DOMAIN c.labels /\ LabelOK(b0, h0, s, c.labels[s])

LEMMA BeyondStarts ==
  ASSUME NEW b0, NEW h0, Whole(b0, h0), NEW c, Scanned(b0, h0, c, Len(b0))
  PROVE  Beyond(b0, h0, c)
<1>1. Stacked(b0, h0, Len(b0), c.stack) /\ h0[Len(b0) + 1].ctrl = << >>
  BY DEF Scanned, Whole
<1>2. c.stack \in Seq(Nat) /\ Len(c.stack) = 0 /\ DOMAIN c.stack = {}
  <2>1. c.stack \in Seq(Nat) /\ Len(c.stack) = 0
    BY <1>1 DEF Stacked
  <2> QED BY <2>1
<1> QED BY <1>2 DEF Scanned, Beyond

LEMMA BeyondStep ==
  ASSUME NEW b0, NEW h0, Whole(b0, h0), NEW b, NEW c, Beyond(b0, h0, c),
         NEW p \in Nat, p > Len(b0)
  PROVE  Beyond(b0, h0, Scan(b, c, p))
<1> DEFINE w == Scan(b, c, p)
           x == Last(c.stack)
<1>1. /\ DOMAIN c = {"stack", "elses", "labels", "ok"} /\ c.stack \in Seq(Nat) /\ Len(b0) \in Nat
      /\ \A j \in 1 .. Len(c.stack) : c.stack[j] > Len(b0)
      /\ \A s \in 1 .. Len(b0) : b0[s].op \in Openers => s \in DOMAIN c.labels /\ LabelOK(b0, h0, s, c.labels[s])
  BY WholeShape DEF Beyond
<1>2. CASE b[p].op \in Openers
  <2> DEFINE s2 == Append(c.stack, p)
  <2>1. w = [c EXCEPT !.stack = s2]
    BY <1>2 DEF Scan, Openers
  <2>2. s2 \in Seq(Nat) /\ \A j \in 1 .. Len(s2) : s2[j] > Len(b0)
    BY <1>1, SMTT(60)
  <2> HIDE DEF s2, w
  <2>3. w.stack = s2 /\ w.labels = c.labels /\ DOMAIN w = DOMAIN c
    BY <1>1, <2>1
  <2>4. Beyond(b0, h0, w)
    BY <1>1, <2>2, <2>3 DEF Beyond
  <2> QED BY <2>4 DEF w
<1>3. CASE b[p].op = "else"
  <2>1. \E e : w = [c EXCEPT !.elses = e] \/ w = [c EXCEPT !.ok = FALSE]
    BY <1>3 DEF Scan, Openers
  <2> HIDE DEF w
  <2>2. w.stack = c.stack /\ w.labels = c.labels /\ DOMAIN w = DOMAIN c
    BY <1>1, <2>1
  <2>3. Beyond(b0, h0, w)
    BY <1>1, <2>2 DEF Beyond
  <2> QED BY <2>3 DEF w
<1>4. CASE b[p].op = "end" /\ c.stack # << >>
  <2> DEFINE s2 == Front(c.stack)
             l == Label(b, x, c.elses, p)
             l2 == Put(c.labels, x, l)
  <2>1. w = [c EXCEPT !.stack = s2, !.labels = l2]
    BY <1>4 DEF Scan, Openers
  <2>2. /\ s2 \in Seq(Nat) /\ Len(s2) = Len(c.stack) - 1 /\ x = c.stack[Len(c.stack)]
        /\ \A j \in 1 .. Len(c.stack) - 1 : s2[j] = c.stack[j]
        /\ Len(c.stack) \in Nat /\ Len(c.stack) >= 1
    BY <1>1, <1>4, FrontIs
  <2> HIDE DEF x, s2, l, w
  <2>3. x > Len(b0) /\ \A j \in 1 .. Len(s2) : s2[j] > Len(b0)
    <3>1. Len(c.stack) \in 1 .. Len(c.stack) /\ \A j \in 1 .. Len(c.stack) - 1 : j \in 1 .. Len(c.stack)
      BY <2>2
    <3>2. x > Len(b0) /\ \A j \in 1 .. Len(c.stack) - 1 : s2[j] > Len(b0)
      BY <1>1, <2>2, <3>1
    <3> QED BY <2>2, <3>2
  <2>4. ASSUME NEW s \in 1 .. Len(b0), b0[s].op \in Openers
        PROVE  s \in DOMAIN l2 /\ LabelOK(b0, h0, s, l2[s])
    <3>1. s # x /\ s \in DOMAIN c.labels /\ LabelOK(b0, h0, s, c.labels[s])
      BY <1>1, <2>3, <2>4
    <3>2. s \in DOMAIN l2 /\ l2[s] = c.labels[s]
      BY <3>1 DEF Put
    <3> QED BY <3>1, <3>2
  <2> HIDE DEF l2
  <2>5. w.stack = s2 /\ w.labels = l2 /\ DOMAIN w = DOMAIN c
    BY <1>1, <2>1
  <2>6. Beyond(b0, h0, w)
    BY <1>1, <2>2, <2>3, <2>4, <2>5 DEF Beyond
  <2> QED BY <2>6 DEF w
<1>5. CASE b[p].op \notin Openers \cup {"else"} /\ (b[p].op # "end" \/ c.stack = << >>)
  <2>1. w = c
    BY <1>5 DEF Scan
  <2> QED BY <2>1
<1> QED BY <1>2, <1>3, <1>4, <1>5

\* So the labels of the openers of b0 are those of b0.
LEMMA OverrunAnalyzed ==
  ASSUME NEW b0, NEW h0, Whole(b0, h0), NEW b, Extends(b, b0)
  PROVE  LabelsKnown(b0, h0, AnalyzeControl(b).labels)
<1> DEFINE f == Controls(b)
           n == Len(b0)
           Q == {k \in 0 .. Len(b) : IF k <= n THEN Scanned(b0, h0, f[k], k) ELSE Beyond(b0, h0, f[k])}
<1>1. Len(b) \in Nat /\ n \in Nat \ {0} /\ Len(b) > n
  BY WholeShape DEF Extends
<1>2. f[0] = NoControl /\ \A k \in 1 .. Len(b) : f[k] = Scan(b, f[k - 1], k)
  BY <1>1, ControlsLoop
<1> HIDE DEF f
<1>3. 0 \in Q
  BY <1>1, <1>2, ScanStarts
<1>4. ASSUME NEW k \in 0 .. Len(b), k \in Q, k < Len(b) PROVE k + 1 \in Q
  <2>1. k + 1 \in 1 .. Len(b) /\ k + 1 - 1 = k /\ k + 1 \in 0 .. Len(b) /\ k \in Nat
    BY <1>1, <1>4
  <2>2. f[k + 1] = Scan(b, f[k], k + 1)
    BY <1>2, <2>1
  <2>3. CASE k + 1 <= n
    <3>1. k + 1 \in 1 .. n /\ k <= n
      BY <1>1, <2>1, <2>3
    <3>2. Scanned(b0, h0, f[k], k + 1 - 1)
      BY <1>4, <2>1, <3>1
    <3> HIDE DEF n
    <3>3. f[k + 1] = Scan(b0, f[k], k + 1)
      BY <2>2, <3>1, <3>2, ScanAlike DEF n
    <3>4. Scanned(b0, h0, f[k + 1], k + 1)
      BY <3>1, <3>2, <3>3, ScanStep DEF n
    <3> QED BY <2>1, <2>3, <3>4
  <2>4. CASE ~(k + 1 <= n)
    <3>1. Beyond(b0, h0, f[k])
      <4>1. CASE k = n
        BY <1>1, <1>4, <4>1, BeyondStarts
      <4>2. CASE k # n
        <5>1. ~(k <= n)
          BY <1>1, <2>1, <2>4, <4>2
        <5> QED BY <1>4, <5>1
      <4> QED BY <4>1, <4>2
    <3>2. k + 1 \in Nat /\ k + 1 > n
      BY <1>1, <2>1, <2>4
    <3>3. Beyond(b0, h0, f[k + 1])
      BY <2>2, <3>1, <3>2, BeyondStep
    <3> QED BY <2>1, <2>4, <3>3
  <2> QED BY <2>3, <2>4
<1>5. Beyond(b0, h0, f[Len(b)])
  <2>1. Len(b) \in Q
    <3> HIDE DEF Q
    <3>1. 0 .. Len(b) \subseteq Q
      BY <1>1, <1>3, <1>4, Upto
    <3> QED BY <1>1, <3>1
  <2>2. ~(Len(b) <= n)
    BY <1>1
  <2> QED BY <2>1, <2>2
<1>6. AnalyzeControl(b).labels = f[Len(b)].labels
  BY DEF AnalyzeControl, f
<1> QED BY <1>5, <1>6 DEF Beyond, LabelsKnown

\* compileFunction's own stack is that of b0 until its last end, where it stops.
Doomed(b0, h0, st, k) ==
  /\ DOMAIN st = {"ok", "open", "code"}
  /\ st.ok => k < Len(b0) /\ Stacked(b0, h0, k, st.open)

LEMMA DoomedStep ==
  ASSUME NEW b0, NEW h0, Whole(b0, h0), NEW b, Extends(b, b0), NEW p \in 1 .. Len(b),
         NEW st, Doomed(b0, h0, st, p - 1), NEW L, LabelsKnown(b0, h0, L)
  PROVE  Doomed(b0, h0, CompileOne(b, st, p, L), p)
<1> DEFINE w == CompileOne(b, st, p, L)
           n == Len(b0)
           o == OpenAfter(b, p, st.open, L)
           c == Append(st.code, Compiled(b, p, st.open, L))
<1>1. n \in Nat \ {0} /\ Len(b) \in Nat /\ Len(b) > n /\ \A k \in 1 .. n : b[k] = b0[k]
  BY WholeShape DEF Extends
<1>2. DOMAIN st = {"ok", "open", "code"} /\ (st.ok => p - 1 < n /\ Stacked(b0, h0, p - 1, st.open))
  BY DEF Doomed
<1>3. CASE ~st.ok \/ CompileError(b, p, st.open, L)
  <2>1. w = [st EXCEPT !.ok = FALSE]
    BY <1>3 DEF CompileOne
  <2> HIDE DEF w
  <2>2. DOMAIN w = {"ok", "open", "code"} /\ ~w.ok
    BY <1>2, <2>1
  <2>3. Doomed(b0, h0, w, p)
    BY <2>2 DEF Doomed
  <2> QED BY <2>3 DEF w
<1>4. CASE st.ok /\ ~CompileError(b, p, st.open, L)
  <2>1. p \in 1 .. n /\ b[p] = b0[p] /\ Stacked(b0, h0, p - 1, st.open)
    BY <1>1, <1>2, <1>4
  <2>2. p # n
    <3> SUFFICES ASSUME p = n PROVE FALSE
      OBVIOUS
    <3>1. b0[p].op = "end"
      BY DEF Whole
    <3>2. Len(h0[p].ctrl) = Len(st.open) + 1 /\ st.open \in Seq(Nat)
      BY <2>1, StackedNow
    <3>3. Len(h0[p + 1].ctrl) = Len(h0[p].ctrl) - 1
      BY <2>1, <3>1, EndEnds
    <3>4. Len(h0[n + 1].ctrl) = 0
      BY WholeShape
    <3> HIDE DEF n
    <3>5. Len(st.open) = 0
      BY <3>2, <3>3, <3>4
    <3>6. st.open = << >>
      BY <3>2, <3>5
    <3>7. p # Len(b)
      BY <1>1
    <3> QED BY <1>4, <2>1, <3>1, <3>6, <3>7 DEF CompileError, Openers, Branches
  <2>3. o = OpenAfter(b0, p, st.open, L)
    BY <2>1 DEF OpenAfter
  <2>4. Stacked(b0, h0, p, o)
    BY <2>1, <2>3, OpenFollows
  <2>5. w = [st EXCEPT !.open = o, !.code = c]
    BY <1>4 DEF CompileOne
  <2> HIDE DEF w, o, c
  <2>6. DOMAIN w = {"ok", "open", "code"} /\ w.open = o
    BY <1>2, <2>5
  <2>7. p < n
    BY <1>1, <2>1, <2>2
  <2>8. Doomed(b0, h0, w, p)
    BY <2>4, <2>6, <2>7 DEF Doomed
  <2> QED BY <2>8 DEF w
<1> QED BY <1>3, <1>4

\* A body that goes on after the end of its function frame does not compile.
THEOREM OverrunRefused ==
  ASSUME NEW b0, NEW h0, Whole(b0, h0), NEW b, Extends(b, b0)
  PROVE  ~CompileFunction(b).ok
<1> DEFINE a == AnalyzeControl(b)
           f == Emitted(b, a)
           P == {k \in 0 .. Len(b) : Doomed(b0, h0, f[k], k)}
           st == f[Len(b)]
<1>1. Len(b) \in Nat /\ Len(b0) \in Nat \ {0} /\ Len(b) > Len(b0)
  BY WholeShape DEF Extends
<1>2. LabelsKnown(b0, h0, a.labels)
  BY OverrunAnalyzed
<1>3. /\ f[0] = [ok |-> a.ok, open |-> << >>, code |-> << >>]
      /\ \A k \in 1 .. Len(b) : f[k] = CompileOne(b, f[k - 1], k, a.labels)
  BY <1>1, EmittedLoop
<1> HIDE DEF f, a
<1>4. 0 \in P
  <2>1. DOMAIN f[0] = {"ok", "open", "code"} /\ f[0].open = << >>
    BY <1>3
  <2>2. Stacked(b0, h0, 0, << >>)
    <3>1. Scanned(b0, h0, NoControl, 0)
      BY ScanStarts
    <3> QED BY <3>1 DEF Scanned, NoControl
  <2>3. Doomed(b0, h0, f[0], 0)
    BY <1>1, <2>1, <2>2 DEF Doomed
  <2> QED BY <1>1, <2>3
<1>5. ASSUME NEW k \in 0 .. Len(b), k \in P, k < Len(b) PROVE k + 1 \in P
  <2>1. k + 1 \in 1 .. Len(b) /\ k + 1 - 1 = k /\ k + 1 \in 0 .. Len(b)
    BY <1>1, <1>5
  <2>2. f[k + 1] = CompileOne(b, f[k], k + 1, a.labels) /\ Doomed(b0, h0, f[k], k + 1 - 1)
    BY <1>3, <1>5, <2>1
  <2>3. Doomed(b0, h0, f[k + 1], k + 1)
    BY <1>2, <2>1, <2>2, DoomedStep
  <2> QED BY <2>1, <2>3
<1>6. Doomed(b0, h0, st, Len(b))
  <2> HIDE DEF P
  <2>1. 0 .. Len(b) \subseteq P
    BY <1>1, <1>4, <1>5, Upto
  <2>2. Len(b) \in P
    BY <1>1, <2>1
  <2> QED BY <2>2 DEF P
<1>7. ~st.ok
  BY <1>1, <1>6 DEF Doomed
<1>8. CompileFunction(b) = [ok |-> FALSE, code |-> << >>]
  BY <1>7 DEF CompileFunction, f, a
<1> QED BY <1>8
==============================================================================
