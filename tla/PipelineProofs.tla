--------------------------- MODULE PipelineProofs ---------------------------
(***************************************************************************)
(* What validation promises a running frame: wherever control goes, the    *)
(* operands, locals and labels fit the validation state there (Fits of     *)
(* Soundness). An instruction that continues with the next one runs on the *)
(* state the validator's rule leaves; a branch, an end or a handler        *)
(* arrives at the state the validator had after the frame it leaves, which *)
(* no code between could change.                                           *)
(* Then the safety properties of Pipeline, for every body the validator's  *)
(* rules accept: IInv of Soundness is an inductive invariant, and each     *)
(* property follows from it, as long as no else starts with other operands *)
(* than its parameters (ElseHonest, the one thing the code does not see    *)
(* to), and so without a condition where no alphabet lets that happen      *)
(* (Promise).                                                              *)
(***************************************************************************)
EXTENDS CompileProofs

-----------------------------------------------------------------------------
(* Operands and their types *)

LEMMA MatchValues ==
  ASSUME NEW got \in ValueTypes, NEW want \in ValueTypes, Matches(got, want)
  PROVE  ValuesOf(got) \subseteq ValuesOf(want)
BY SlotTypes DEF Matches, ValuesOf

LEMMA SlotIsType ==
  ASSUME NEW got \in Slots, got # Unknown
  PROVE  got \in ValueTypes
BY DEF Slots

LEMMA ValuesAre ==
  ASSUME NEW type \in ValueTypes
  PROVE  /\ ValuesOf(type) \subseteq Values
         /\ type \in {"i32", "i64"} => ValuesOf(type) = {type}
         /\ type = "exn" => ValuesOf(type) = {"exn"}
         /\ type = "exnref" => ValuesOf(type) = Refs
         /\ type \in RefTypes => ValuesOf(type) \subseteq Refs
         /\ Zero(type) \in Values
         /\ type # "exn" => Zero(type) \in ValuesOf(type)
         /\ \A x \in ValuesOf(type) : RuntimeMatches(x, type)
BY DEF ValuesOf, ValueTypes, RefTypes, Values, Refs, Zero, RuntimeMatches

\* The operands s end with values of types.
Carries(s, types) ==
  /\ Len(types) <= Len(s)
  /\ \A k \in 1 .. Len(types) : s[Len(s) - Len(types) + k] \in ValuesOf(types[k])

LEMMA AgreesShape ==
  ASSUME NEW v \in States, NEW s, Agrees(s, v)
  PROVE  /\ s \in Seq(Values) /\ Len(s) \in Nat /\ Len(s) = v.height /\ DOMAIN s = 1 .. Len(s)
         /\ \A k \in 1 .. v.height : s[k] \in ValuesOf(v.slots[k]) /\ s[k] \in Values
BY StateFields DEF Agrees

LEMMA TopsCarry ==
  ASSUME NEW v \in States, v.height <= Len(v.slots), Known(v, v.height), NEW s, Agrees(s, v),
         NEW types \in Seq(ValueTypes), Tops(v, types), Len(types) <= v.height
  PROVE  Carries(s, types)
<1> DEFINE n == v.height - Len(types)
<1>1. /\ Len(s) = v.height /\ v.height \in Nat /\ Len(types) \in Nat /\ DOMAIN types = 1 .. Len(types)
      /\ v.slots \in Seq(Slots) /\ \A k \in 1 .. v.height : s[k] \in ValuesOf(v.slots[k])
  BY AgreesShape, StateFields
<1>2. ASSUME NEW k \in 1 .. Len(types) PROVE s[n + k] \in ValuesOf(types[k])
  <2>1. n + k \in 1 .. v.height /\ n + k \in 1 .. Len(v.slots)
    BY <1>1
  <2>2. v.slots[n + k] \in Slots /\ v.slots[n + k] # Unknown
    BY <1>1, <2>1 DEF Known
  <2>3. Matches(v.slots[n + k], types[k])
    BY <1>1 DEF Tops
  <2>4. types[k] \in ValueTypes /\ v.slots[n + k] \in ValueTypes
    BY <1>1, <2>2, SlotIsType
  <2>5. ValuesOf(v.slots[n + k]) \subseteq ValuesOf(types[k])
    BY <2>3, <2>4, MatchValues
  <2> QED BY <1>1, <2>1, <2>5
<1> QED BY <1>1, <1>2 DEF Carries

LEMMA SplitIs ==
  ASSUME NEW s \in Seq(Values), NEW n \in Nat, n <= Len(s)
  PROVE  /\ Below(s, n) \in Seq(Values) /\ Len(Below(s, n)) = Len(s) - n
         /\ \A k \in 1 .. Len(s) - n : Below(s, n)[k] = s[k]
         /\ Top(s, n) \in Seq(Values) /\ Len(Top(s, n)) = n
         /\ \A k \in 1 .. n : Top(s, n)[k] = s[Len(s) - n + k]
BY DEF Below, Top

\* The executor's test of the operands passes, and what it takes has the types.
LEMMA CarriesHas ==
  ASSUME NEW s \in Seq(Values), NEW types \in Seq(ValueTypes), Carries(s, types)
  PROVE  HasTops(s, types) /\ Top(s, Len(types)) \in Tuples(types)
<1> DEFINE t == Top(s, Len(types))
<1>1. Len(types) \in Nat /\ DOMAIN types = 1 .. Len(types) /\ Len(types) <= Len(s)
      /\ \A k \in 1 .. Len(types) : types[k] \in ValueTypes
  BY DEF Carries
<1>2. ASSUME NEW k \in 1 .. Len(types)
      PROVE  RuntimeMatches(s[Len(s) - Len(types) + k], types[k])
  BY <1>1, <1>2, ValuesAre DEF Carries
<1>3. t \in Seq(Values) /\ Len(t) = Len(types) /\ \A k \in 1 .. Len(types) : t[k] = s[Len(s) - Len(types) + k]
  BY <1>1, SplitIs
<1> HIDE DEF t
<1>4. t \in [DOMAIN types -> Values]
  BY <1>1, <1>3
<1>5. \A k \in DOMAIN types : t[k] \in ValuesOf(types[k])
  BY <1>1, <1>3 DEF Carries
<1>6. t \in Tuples(types)
  BY <1>4, <1>5 DEF Tuples
<1> QED BY <1>1, <1>2, <1>6 DEF HasTops, t

LEMMA TupleIs ==
  ASSUME NEW types \in Seq(ValueTypes), NEW t \in Tuples(types)
  PROVE  /\ t \in Seq(Values) /\ Len(t) = Len(types)
         /\ \A k \in 1 .. Len(types) : t[k] \in ValuesOf(types[k])
<1>1. t \in [1 .. Len(types) -> Values] /\ Len(types) \in Nat
  BY DEF Tuples
<1>2. \A k \in 1 .. Len(types) : t[k] \in ValuesOf(types[k])
  BY DEF Tuples
<1> QED BY <1>1, <1>2

LEMMA AgreesTruncate ==
  ASSUME NEW v \in States, NEW s, Agrees(s, v), NEW n \in Nat, n <= v.height, NEW s2, s2 \in Seq(Values),
         Len(s2) = n, \A k \in 1 .. n : s2[k] = s[k]
  PROVE  Agrees(s2, Truncate(v, n))
<1>1. Truncate(v, n).height = n /\ Truncate(v, n).slots = v.slots
  BY TruncateIs
<1>2. v.height \in Nat /\ \A k \in 1 .. v.height : s[k] \in ValuesOf(v.slots[k])
  BY AgreesShape, StateFields
<1>3. \A k \in 1 .. n : k \in 1 .. v.height
  BY <1>2
<1>4. DOMAIN s2 = 1 .. n
  OBVIOUS
<1> QED BY <1>1, <1>2, <1>3, <1>4 DEF Agrees

LEMMA AgreesPush ==
  ASSUME NEW v \in States, v.height <= Len(v.slots), NEW s, Agrees(s, v),
         NEW types \in Seq(ValueTypes), NEW t \in Tuples(types)
  PROVE  Agrees(s \o t, Push(v, types))
<1> DEFINE w == Push(v, types)
           n == v.height
<1>1. types \in Seq(Slots) /\ Len(types) \in Nat
  BY SlotTypes
<1>2. /\ w \in States /\ w.height = n + Len(types)
      /\ \A k \in 1 .. n : w.slots[k] = v.slots[k]
      /\ \A k \in 1 .. Len(types) : w.slots[n + k] = types[k]
  BY <1>1, PushIs
<1> HIDE DEF w
<1>3. s \in Seq(Values) /\ Len(s) = n /\ n \in Nat /\ \A k \in 1 .. n : s[k] \in ValuesOf(v.slots[k])
  BY AgreesShape
<1>4. t \in Seq(Values) /\ Len(t) = Len(types) /\ \A k \in 1 .. Len(types) : t[k] \in ValuesOf(types[k])
  BY TupleIs
<1> HIDE DEF n
<1>5. /\ s \o t \in Seq(Values) /\ Len(s \o t) = n + Len(types)
      /\ \A k \in 1 .. n : (s \o t)[k] = s[k]
      /\ \A k \in 1 .. Len(types) : (s \o t)[n + k] = t[k]
      /\ DOMAIN (s \o t) = 1 .. n + Len(types)
  BY <1>1, <1>3, <1>4
<1>6. ASSUME NEW k \in 1 .. n + Len(types) PROVE (s \o t)[k] \in ValuesOf(w.slots[k])
  <2>1. CASE k \in 1 .. n
    BY <1>2, <1>3, <1>5, <2>1
  <2>2. CASE k \notin 1 .. n
    <3> DEFINE j == k - n
    <3>1. j \in 1 .. Len(types) /\ k = n + j
      BY <1>1, <1>3, <2>2
    <3> HIDE DEF j
    <3> QED BY <1>2, <1>4, <1>5, <3>1
  <2> QED BY <2>1, <2>2
<1> QED BY <1>2, <1>5, <1>6 DEF Agrees, w

LEMMA AgreesRetype ==
  ASSUME NEW v \in States, v.height <= Len(v.slots), NEW s, Agrees(s, v),
         NEW types \in Seq(ValueTypes), Carries(s, types)
  PROVE  Agrees(s, Retype(v, types))
<1> DEFINE w == Retype(v, types)
           n == v.height - Len(types)
<1>1. types \in Seq(Slots) /\ Len(types) \in Nat
  BY SlotTypes
<1>2. s \in Seq(Values) /\ Len(s) = v.height /\ v.height \in Nat /\ DOMAIN s = 1 .. v.height
      /\ \A k \in 1 .. v.height : s[k] \in ValuesOf(v.slots[k])
  BY AgreesShape
<1>3. Len(types) <= v.height /\ \A k \in 1 .. Len(types) : s[n + k] \in ValuesOf(types[k])
  BY <1>2 DEF Carries
<1>4. /\ w \in States /\ w.height = v.height
      /\ \A k \in 1 .. n : w.slots[k] = v.slots[k]
      /\ \A k \in 1 .. Len(types) : w.slots[n + k] = types[k]
  BY <1>1, <1>3, RetypeIs
<1>5. ASSUME NEW k \in 1 .. v.height PROVE s[k] \in ValuesOf(w.slots[k])
  <2> HIDE DEF w
  <2>1. CASE k \in 1 .. n
    BY <1>2, <1>4, <2>1
  <2>2. CASE k \notin 1 .. n
    <3> DEFINE j == k - n
    <3>1. j \in 1 .. Len(types) /\ k = n + j
      BY <1>1, <1>2, <1>3, <2>2
    <3> HIDE DEF j, n
    <3> QED BY <1>3, <1>4, <3>1
  <2> QED BY <2>1, <2>2
<1> HIDE DEF w
<1> QED BY <1>2, <1>4, <1>5 DEF Agrees, w

-----------------------------------------------------------------------------
(* Live states and the labels of their frames *)

LEMMA LiveFrames ==
  ASSUME NEW v, Good(v), IsLive(v)
  PROVE  /\ Firm(v) /\ ~v.closed /\ Known(v, v.height) /\ v.ctrl # << >>
         /\ \A i \in DOMAIN v.ctrl : ~v.ctrl[i].dead /\ ~v.ctrl[i].enteredDead
<1> DEFINE n == Len(v.ctrl)
<1>1. v.ctrl # << >> /\ ~TopFrame(v).dead
  BY DEF IsLive
<1>2. Firm(v) /\ ~v.closed
  BY <1>1, GoodFirm
<1>3. Known(v, v.height)
  BY DEF Good, Grounded
<1>4. n \in Nat \ {0} /\ DOMAIN v.ctrl = 1 .. n /\ TopFrame(v) = v.ctrl[n] /\ n \in DOMAIN v.ctrl
  BY <1>1, TopIsFrame DEF Good
<1> HIDE DEF n
<1>5. ~v.ctrl[n].dead /\ ~v.ctrl[n].enteredDead
  BY <1>1, <1>4 DEF Good, Nested
<1>6. ASSUME NEW i \in DOMAIN v.ctrl, i # n PROVE ~v.ctrl[i].dead
  <2>1. i < n
    BY <1>4, <1>6
  <2>2. v.ctrl[i].dead => v.ctrl[n].enteredDead
    BY <1>4, <2>1 DEF Good, Nested
  <2> QED BY <1>5, <2>2
<1>7. \A i \in DOMAIN v.ctrl : ~v.ctrl[i].dead
  BY <1>5, <1>6
<1>8. \A i \in DOMAIN v.ctrl : ~v.ctrl[i].enteredDead
  BY <1>7 DEF Good, Nested
<1> QED BY <1>1, <1>2, <1>3, <1>7, <1>8

\* One frame seen by two states has one run-time label.
LEMMA SameLabel ==
  ASSUME NEW b, NEW h, NEW c, NEW p, NEW q, NEW i \in Nat, NEW l,
         LabelFits(b, h, c, p, i, l),
         SameFrame(h[p].ctrl[i], h[q].ctrl[i]),
         i # 1 => \A s : OpensAt(b, h, p, i, s) => OpensAt(b, h, q, i, s)
  PROVE  LabelFits(b, h, c, q, i, l)
<1> DEFINE f == h[p].ctrl[i]
           g == h[q].ctrl[i]
<1>1. CASE i = 1
  BY <1>1 DEF LabelFits
<1>2. CASE i # 1
  <2>1. PICK s \in 1 .. p - 1 :
          /\ OpensAt(b, h, p, i, s)
          /\ l = [height |-> f.entry, results |-> Len(f.results), branch |-> Len(LabelTypes(f)),
                  isLoop |-> f.kind = "loop", catches |-> c[s].catches]
    BY <1>2 DEF LabelFits
  <2>2. g.kind = f.kind /\ g.entry = f.entry /\ g.params = f.params /\ g.results = f.results
    BY DEF SameFrame
  <2>3. LabelTypes(g) = LabelTypes(f)
    BY <2>2 DEF LabelTypes
  <2> HIDE DEF f, g
  <2>4. l = [height |-> g.entry, results |-> Len(g.results), branch |-> Len(LabelTypes(g)),
             isLoop |-> g.kind = "loop", catches |-> c[s].catches]
    BY <2>1, <2>2, <2>3, Zenon
  <2>5. OpensAt(b, h, q, i, s) /\ s \in 1 .. q - 1
    BY <1>2, <2>1 DEF OpensAt
  <2> QED BY <1>2, <2>4, <2>5 DEF LabelFits, g
<1> QED BY <1>1, <1>2

\* Over one instruction.
LEMMA LabelStays ==
  ASSUME NEW b, NEW h, Whole(b, h), NEW c, NEW p \in 1 .. Len(b), NEW i \in DOMAIN h[p].ctrl,
         i <= Len(h[p + 1].ctrl), NEW l, LabelFits(b, h, c, p, i, l)
  PROVE  LabelFits(b, h, c, p + 1, i, l)
<1>1. /\ Len(b) \in Nat /\ p \in 1 .. Len(b) + 1 /\ p + 1 \in 1 .. Len(b) + 1
      /\ Steps(h[p], h[p + 1], b[p])
  BY WholeSteps, WholeShape
<1>2. /\ DOMAIN h[p].ctrl = 1 .. Len(h[p].ctrl) /\ Len(h[p].ctrl) \in Nat
      /\ DOMAIN h[p + 1].ctrl = 1 .. Len(h[p + 1].ctrl) /\ Len(h[p + 1].ctrl) \in Nat
  BY <1>1, WholeShape, SMTT(60)
<1>3. i \in DOMAIN h[p + 1].ctrl /\ i \in Nat
  BY <1>2
<1>4. SameFrame(h[p].ctrl[i], h[p + 1].ctrl[i])
  BY <1>1, <1>3 DEF Steps, Same
<1>5. \A s : OpensAt(b, h, p, i, s) => OpensAt(b, h, p + 1, i, s)
  BY <1>3, OpensStays
<1> QED BY <1>3, <1>4, <1>5, SameLabel

\* Two states that have frame i open have the frames around it in common.
LEMMA AroundSame ==
  ASSUME NEW b, NEW h, Whole(b, h), NEW p \in 1 .. Len(b) + 1, NEW q \in 1 .. Len(b) + 1,
         NEW i \in Nat, NEW s, OpensAt(b, h, p, i, s), OpensAt(b, h, q, i, s),
         NEW j \in 1 .. i - 1
  PROVE  /\ h[q].ctrl[j] = h[p].ctrl[j] /\ h[s].ctrl[j] = h[p].ctrl[j]
         /\ j # 1 => \A t : OpensAt(b, h, p, j, t) => OpensAt(b, h, q, j, t) /\ OpensAt(b, h, s, j, t)
<1>1. /\ Same(h[s + 1], h[p], i) /\ Same(h[s + 1], h[q], i) /\ Opens(h[s], h[s + 1], b[s])
      /\ s \in 1 .. p - 1 /\ s \in 1 .. q - 1 /\ s \in 1 .. Len(b) /\ Len(h[s].ctrl) = i - 1 /\ i >= 2
  BY Opened
<1>2. h[p].ctrl[j] = h[s + 1].ctrl[j] /\ h[q].ctrl[j] = h[s + 1].ctrl[j]
  BY <1>1 DEF Same
<1>3. h[s + 1].ctrl[j] = h[s].ctrl[j]
  BY <1>1 DEF Opens
<1>4. ASSUME NEW t, OpensAt(b, h, p, j, t) PROVE OpensAt(b, h, q, j, t) /\ OpensAt(b, h, s, j, t)
  <2>1. /\ t \in 1 .. p - 1 /\ b[t].op \in Openers /\ Len(h[t].ctrl) = j - 1
        /\ \A r \in t + 1 .. p : Len(h[r].ctrl) >= j
    BY <1>4 DEF OpensAt, Spans
  <2>2. (\A r \in s + 1 .. p : Len(h[r].ctrl) >= i) /\ \A r \in s + 1 .. q : Len(h[r].ctrl) >= i
    BY DEF OpensAt, Spans
  <2>3. Len(b) \in Nat /\ \A r \in 1 .. Len(b) + 1 : Len(h[r].ctrl) \in Nat
    BY WholeShape
  <2>4. t < s
    <3>1. ~(t > s)
      <4>1. ASSUME t > s PROVE FALSE
        <5>1. t \in s + 1 .. p
          BY <1>1, <2>1, <2>3, <4>1
        <5>2. Len(h[t].ctrl) >= i
          BY <2>2, <5>1
        <5> QED BY <2>1, <5>2
      <4> QED BY <4>1
    <3>2. t # s
      BY <1>1, <2>1
    <3> QED BY <1>1, <2>1, <3>1, <3>2
  <2>5. ASSUME NEW r \in t + 1 .. q PROVE Len(h[r].ctrl) >= j
    <3>1. CASE r <= s
      <4>1. r \in t + 1 .. p
        BY <1>1, <2>1, <3>1
      <4> QED BY <2>1, <4>1
    <3>2. CASE r > s
      <4>1. r \in s + 1 .. q /\ r \in 1 .. Len(b) + 1
        BY <1>1, <2>1, <2>3, <3>2
      <4>2. Len(h[r].ctrl) >= i /\ Len(h[r].ctrl) \in Nat
        BY <2>2, <2>3, <4>1
      <4> QED BY <4>2
    <3> QED BY <1>1, <2>1, <3>1, <3>2
  <2>6. t \in 1 .. q - 1 /\ t \in 1 .. s - 1 /\ t + 1 .. s \subseteq t + 1 .. q
    BY <1>1, <2>1, <2>4
  <2> QED BY <2>1, <2>5, <2>6 DEF OpensAt, Spans
<1> QED BY <1>2, <1>3, <1>4

LEMMA LabelCarries ==
  ASSUME NEW b, NEW h, Whole(b, h), NEW c, NEW p \in 1 .. Len(b) + 1, NEW q \in 1 .. Len(b) + 1,
         NEW i \in Nat, NEW s, OpensAt(b, h, p, i, s), OpensAt(b, h, q, i, s),
         NEW j \in 1 .. i, NEW l, LabelFits(b, h, c, p, j, l)
  PROVE  LabelFits(b, h, c, q, j, l)
<1>1. CASE j = i
  <2>1. Same(h[s + 1], h[p], i) /\ Same(h[s + 1], h[q], i)
    BY Opened
  <2>2. SameFrame(h[s + 1].ctrl[i], h[p].ctrl[i]) /\ SameFrame(h[s + 1].ctrl[i], h[q].ctrl[i])
    BY <2>1 DEF Same
  <2> DEFINE f == h[p].ctrl[i]
             g == h[q].ctrl[i]
  <2>3. CASE i = 1
    BY <1>1, <2>3 DEF LabelFits
  <2>4. CASE i # 1
    <3>1. PICK x \in 1 .. p - 1 :
            /\ OpensAt(b, h, p, i, x)
            /\ l = [height |-> f.entry, results |-> Len(f.results), branch |-> Len(LabelTypes(f)),
                    isLoop |-> f.kind = "loop", catches |-> c[x].catches]
      BY <1>1, <2>4 DEF LabelFits
    <3>2. g.kind = f.kind /\ g.entry = f.entry /\ g.params = f.params /\ g.results = f.results
      BY <2>2 DEF SameFrame
    <3>3. LabelTypes(g) = LabelTypes(f)
      BY <3>2 DEF LabelTypes
    <3> HIDE DEF f, g
    <3>4. x = s
      BY <3>1, OpensOnce
    <3>5. l = [height |-> g.entry, results |-> Len(g.results), branch |-> Len(LabelTypes(g)),
               isLoop |-> g.kind = "loop", catches |-> c[s].catches]
      BY <3>1, <3>2, <3>3, <3>4, Zenon
    <3>6. s \in 1 .. q - 1
      BY DEF OpensAt
    <3> QED BY <1>1, <2>4, <3>5, <3>6 DEF LabelFits, g
  <2> QED BY <2>3, <2>4
<1>2. CASE j # i
  <2>1. j \in 1 .. i - 1 /\ j \in Nat
    BY <1>2
  <2>2. h[q].ctrl[j] = h[p].ctrl[j] /\ (j # 1 => \A t : OpensAt(b, h, p, j, t) => OpensAt(b, h, q, j, t))
    BY <2>1, AroundSame
  <2> QED BY <2>1, <2>2, SameFrameSelf, SameLabel
<1> QED BY <1>1, <1>2

-----------------------------------------------------------------------------
(* Arriving at an instruction *)

\* Inner, but for the operands.
Framed(b, h, c, p, ls, lbs) ==
  /\ Whole(b, h) /\ p \in 1 .. Len(b)
  /\ IsLive(h[p]) /\ LocalsFit(ls, h[p].inits)
  /\ \E T : lbs \in Seq(T)
  /\ Len(lbs) = Len(h[p].ctrl)
  /\ \A i \in DOMAIN lbs : LabelFits(b, h, c, p, i, lbs[i])

LEMMA OwnSeq ==
  ASSUME NEW T, NEW q \in Seq(T)
  PROVE  q \in Seq(UNION {{q[i]} : i \in DOMAIN q})
<1> DEFINE U == UNION {{q[i]} : i \in DOMAIN q}
<1>1. \A i \in DOMAIN q : q[i] \in U
  OBVIOUS
<1>2. Len(q) \in Nat /\ DOMAIN q = 1 .. Len(q) /\ q = [i \in 1 .. Len(q) |-> q[i]]
  OBVIOUS
<1> HIDE DEF U
<1>3. q \in [1 .. Len(q) -> U]
  BY <1>1, <1>2
<1> QED BY <1>2, <1>3

LEMMA InnerFramed ==
  ASSUME NEW b, NEW h, Whole(b, h), NEW c, NEW p \in 1 .. Len(b), NEW s, NEW ls, NEW lbs
  PROVE  Inner(b, h, c, p, s, ls, lbs) <=> Framed(b, h, c, p, ls, lbs) /\ Agrees(s, h[p])
<1>1. ASSUME NEW T, lbs \in Seq(T) PROVE lbs \in Seq(UNION {{lbs[i]} : i \in DOMAIN lbs})
  BY <1>1, OwnSeq
<1> QED BY <1>1 DEF Inner, Framed

LEMMA FramedFacts ==
  ASSUME NEW b, NEW h, NEW c, NEW p, NEW ls, NEW lbs, Framed(b, h, c, p, ls, lbs)
  PROVE  /\ Whole(b, h) /\ Len(b) \in Nat /\ p \in 1 .. Len(b) /\ p \in 1 .. Len(b) + 1 /\ p + 1 \in 1 .. Len(b) + 1
         /\ DOMAIN b = 1 .. Len(b)
         /\ Good(h[p]) /\ h[p] \in States /\ h[p].ctrl # << >> /\ Firm(h[p]) /\ ~h[p].closed
         /\ IsLive(h[p]) /\ Known(h[p], h[p].height)
         /\ IsInstr(b[p]) /\ h[p + 1] \in Rule(h[p], b[p])
         /\ LocalsFit(ls, h[p].inits)
         /\ Len(lbs) = Len(h[p].ctrl) /\ Len(lbs) \in Nat \ {0} /\ DOMAIN lbs = 1 .. Len(lbs)
         /\ DOMAIN h[p].ctrl = 1 .. Len(lbs)
         /\ \A i \in DOMAIN lbs : LabelFits(b, h, c, p, i, lbs[i])
         /\ lbs[1] = FunctionLabel
<1>1. Whole(b, h) /\ p \in 1 .. Len(b) /\ IsLive(h[p]) /\ LocalsFit(ls, h[p].inits) /\ Len(lbs) = Len(h[p].ctrl)
      /\ \A i \in DOMAIN lbs : LabelFits(b, h, c, p, i, lbs[i])
  BY DEF Framed
<1>2. PICK T : lbs \in Seq(T)
  BY DEF Framed
<1>3. Len(b) \in Nat /\ p \in 1 .. Len(b) + 1 /\ p + 1 \in 1 .. Len(b) + 1 /\ DOMAIN b = 1 .. Len(b)
  BY <1>1, WholeShape
<1>4. Good(h[p]) /\ h[p] \in States /\ h[p].ctrl # << >> /\ IsInstr(b[p]) /\ h[p + 1] \in Rule(h[p], b[p])
      /\ DOMAIN h[p].ctrl = 1 .. Len(h[p].ctrl) /\ Len(h[p].ctrl) \in Nat /\ Len(h[p].ctrl) >= 1
  BY <1>1, <1>3, WholeShape
<1>5. Firm(h[p]) /\ ~h[p].closed /\ Known(h[p], h[p].height)
  BY <1>1, <1>4, LiveFrames
<1>6. Len(lbs) \in Nat \ {0} /\ DOMAIN lbs = 1 .. Len(lbs) /\ 1 \in DOMAIN lbs
  BY <1>1, <1>2, <1>4
<1>7. lbs[1] = FunctionLabel
  BY <1>1, <1>6 DEF LabelFits
<1> QED BY <1>1, <1>3, <1>4, <1>5, <1>6, <1>7

LEMMA LocalsFewer ==
  ASSUME NEW ls, NEW inits, NEW some, LocalsFit(ls, inits), some \subseteq inits
  PROVE  LocalsFit(ls, some)
BY DEF LocalsFit

LEMMA CutLabels ==
  ASSUME NEW T, NEW lbs \in Seq(T), NEW n \in Nat, n <= Len(lbs)
  PROVE  /\ \E U : SubSeq(lbs, 1, n) \in Seq(U)
         /\ Len(SubSeq(lbs, 1, n)) = n /\ DOMAIN SubSeq(lbs, 1, n) = 1 .. n
         /\ \A i \in 1 .. n : SubSeq(lbs, 1, n)[i] = lbs[i] /\ i \in DOMAIN lbs
BY PrefixIs

LEMMA JoinIs ==
  ASSUME NEW x \in Seq(Values), NEW y \in Seq(Values)
  PROVE  /\ x \o y \in Seq(Values) /\ Len(x \o y) = Len(x) + Len(y)
         /\ \A k \in 1 .. Len(x) : (x \o y)[k] = x[k]
         /\ \A k \in 1 .. Len(y) : (x \o y)[Len(x) + k] = y[k]
OBVIOUS

LEMMA NormalizeIs ==
  ASSUME NEW s \in Seq(Values), NEW height \in Nat, NEW n \in Nat, height + n <= Len(s)
  PROVE  /\ CanNormalize(s, height, n)
         /\ Normalize(s, height, n) \in Seq(Values) /\ Len(Normalize(s, height, n)) = height + n
         /\ \A k \in 1 .. height : Normalize(s, height, n)[k] = s[k]
         /\ \A k \in 1 .. n : Normalize(s, height, n)[height + k] = s[Len(s) - n + k]
<1> DEFINE x == SubSeq(s, 1, height)
           y == Top(s, n)
<1>1. x \in Seq(Values) /\ Len(x) = height /\ \A k \in 1 .. height : x[k] = s[k]
  BY PrefixIs
<1>2. y \in Seq(Values) /\ Len(y) = n /\ \A k \in 1 .. n : y[k] = s[Len(s) - n + k]
  <2>1. n <= Len(s)
    OBVIOUS
  <2> QED BY <2>1, SplitIs
<1>3. Normalize(s, height, n) = x \o y
  BY DEF Normalize
<1> HIDE DEF x, y
<1>4. CanNormalize(s, height, n)
  BY DEF CanNormalize
<1>5. x \o y \in Seq(Values) /\ Len(x \o y) = height + n
      /\ (\A k \in 1 .. height : (x \o y)[k] = x[k])
      /\ \A k \in 1 .. n : (x \o y)[height + k] = y[k]
  <2>1. x \in Seq(Values) /\ y \in Seq(Values) /\ Len(x) = height /\ Len(y) = n
    BY <1>1, <1>2
  <2>2. /\ x \o y \in Seq(Values) /\ Len(x \o y) = Len(x) + Len(y)
        /\ \A k \in 1 .. Len(x) : (x \o y)[k] = x[k]
        /\ \A k \in 1 .. Len(y) : (x \o y)[Len(x) + k] = y[k]
    BY <2>1, JoinIs
  <2> QED BY <2>1, <2>2
<1> QED BY <1>1, <1>2, <1>3, <1>4, <1>5, SMTT(60)

\* What the operands are after normalizing, against a state with those heights.
LEMMA NormalizedAgrees ==
  ASSUME NEW s \in Seq(Values), NEW types \in Seq(ValueTypes),
         Carries(s, types), NEW height \in Nat, height + Len(types) <= Len(s),
         NEW w \in States, w.height = height + Len(types), w.height <= Len(w.slots),
         \A k \in 1 .. height : s[k] \in ValuesOf(w.slots[k]),
         \A k \in 1 .. Len(types) : w.slots[height + k] = types[k]
  PROVE  Agrees(Normalize(s, height, Len(types)), w)
<1> DEFINE z == Normalize(s, height, Len(types))
           n == Len(types)
<1>1. n \in Nat
  OBVIOUS
<1>2. /\ z \in Seq(Values) /\ Len(z) = height + n
      /\ \A k \in 1 .. height : z[k] = s[k]
      /\ \A k \in 1 .. n : z[height + k] = s[Len(s) - n + k]
  BY <1>1, NormalizeIs
<1> HIDE DEF z
<1>3. DOMAIN z = 1 .. height + n
  BY <1>2
<1>4. \A k \in 1 .. n : z[height + k] \in ValuesOf(w.slots[height + k])
  BY <1>2 DEF Carries
<1> HIDE DEF n
<1>5. ASSUME NEW k \in 1 .. height + n PROVE z[k] \in ValuesOf(w.slots[k])
  <2>1. CASE k \in 1 .. height
    BY <1>2, <2>1
  <2>2. CASE k \notin 1 .. height
    <3> DEFINE j == k - height
    <3>1. j \in 1 .. n /\ k = height + j
      BY <1>1, <2>2
    <3> HIDE DEF j
    <3> QED BY <1>4, <3>1
  <2> QED BY <2>1, <2>2
<1> QED BY <1>2, <1>3, <1>5 DEF Agrees, z, n

\* At the final end an inner frame is outermost: the operands are the results.
LEMMA InnerFits ==
  ASSUME NEW b, NEW h, NEW c, NEW p, NEW ls, NEW lbs, Framed(b, h, c, p, ls, lbs), NEW s, Agrees(s, h[p])
  PROVE  Fits(b, h, c, p, s, ls, lbs)
<1> DEFINE v == h[p]
           f == TopFrame(v)
<1>1. /\ Whole(b, h) /\ Len(b) \in Nat /\ p \in 1 .. Len(b) /\ DOMAIN b = 1 .. Len(b)
      /\ Good(v) /\ v \in States /\ v.ctrl # << >> /\ ~v.closed
      /\ IsLive(v) /\ Known(v, v.height) /\ h[p + 1] \in Rule(v, b[p])
      /\ Len(lbs) = Len(v.ctrl) /\ lbs[1] = FunctionLabel
  BY FramedFacts
<1>2. PICK T : lbs \in Seq(T)
  BY SMTT(60) DEF Framed
<1>3. CASE p # Len(b)
  BY <1>1, <1>3, InnerFramed DEF Fits
<1>4. CASE p = Len(b)
  <2>1. b[p].op = "end" /\ Len(h[p + 1].ctrl) = 0
    BY <1>1, <1>4, WholeShape DEF Whole
  <2>2. Len(v.ctrl) = 1
    <3>1. 0 = Len(v.ctrl) - 1
      BY <1>1, <2>1, EndEnds
    <3>2. Len(v.ctrl) \in Nat
      BY <1>1, StateFields
    <3> QED BY <3>1, <3>2
  <2>3. f = v.ctrl[1] /\ f.entry = 0 /\ f.results = ResultTypes
    BY <1>1, <2>2 DEF TopFrame, Good, Rooted
  <2>4. FrameResult(v, f) /\ ~f.dead
    <3>1. h[p + 1] \in EndRule(v)
      BY <1>1, <2>1 DEF Rule
    <3> QED BY <1>1, <3>1, EndCloses DEF IsLive
  <2> DEFINE got == SubSeq(v.slots, 1, v.height)
  <2>5. v.slots \in Seq(Slots) /\ v.height \in Nat /\ v.height <= Len(v.slots) /\ ResultTypes \in Seq(ValueTypes)
    BY <1>1, StateFields, Tables DEF Good, Nested
  <2>6. got \in Seq(Slots) /\ Len(got) = v.height /\ DOMAIN got = 1 .. v.height
        /\ \A k \in 1 .. v.height : got[k] = v.slots[k]
    BY <2>5, PrefixIs
  <2>7. Len(ResultTypes) - Len(got) = 0 /\ \A i \in DOMAIN got : Matches(got[i], ResultTypes[0 + i])
    <3>1. f.entry + 1 = 1
      BY <2>3
    <3> HIDE DEF v, f
    <3> QED BY <2>3, <2>4, <3>1 DEF FrameResult, v
  <2>8. v.height = Len(ResultTypes)
    <3> HIDE DEF got
    <3> QED BY <2>5, <2>6, <2>7
  <2>9. Tops(v, ResultTypes)
    <3>1. \A i \in 1 .. v.height : Matches(v.slots[i], ResultTypes[i])
      <4> HIDE DEF got
      <4>1. \A i \in 1 .. v.height : 0 + i = i
        BY <2>5
      <4> QED BY <2>6, <2>7, <4>1
    <3>2. DOMAIN ResultTypes = 1 .. v.height /\ \A i \in 1 .. v.height : v.height - Len(ResultTypes) + i = i
      BY <2>5, <2>8
    <3> QED BY <3>1, <3>2 DEF Tops
  <2>10. Carries(s, ResultTypes)
    BY <1>1, <2>5, <2>8, <2>9, TopsCarry
  <2>11. s \in Seq(Values) /\ Len(s) = Len(ResultTypes)
    BY <1>1, <2>8, AgreesShape
  <2>12. s \in Tuples(ResultTypes)
    <3>1. \A k \in DOMAIN ResultTypes : s[k] \in ValuesOf(ResultTypes[k])
      BY <2>5, <2>10, <2>11 DEF Carries
    <3>2. s \in [DOMAIN ResultTypes -> Values]
      BY <2>5, <2>11
    <3> QED BY <3>1, <3>2 DEF Tuples
  <2>13. lbs = <<FunctionLabel>>
    BY <1>1, <1>2, <2>2
  <2> QED BY <1>1, <1>4, <2>12, <2>13 DEF Fits, Outermost
<1> QED BY <1>3, <1>4

\* The frames of a state that is arrived at.
LEMMA InsideFrame ==
  ASSUME NEW b, NEW h, NEW c, NEW p, NEW ls, NEW lbs, Framed(b, h, c, p, ls, lbs), NEW i \in DOMAIN lbs
  PROVE  /\ i \in Nat /\ i >= 1 /\ i <= Len(h[p].ctrl) /\ h[p].ctrl[i] \in Frames
         /\ h[p].ctrl[i].entry \in Nat /\ h[p].ctrl[i].entry <= TopFrame(h[p]).entry
         /\ h[p].ctrl[i].entry <= h[p].height /\ h[p].ctrl[i].inits \subseteq h[p].inits
         /\ h[p].ctrl[i].params \in Seq(ValueTypes) /\ h[p].ctrl[i].results \in Seq(ValueTypes)
         /\ ~h[p].ctrl[i].dead /\ ~h[p].ctrl[i].enteredDead
<1> DEFINE v == h[p]
           f == v.ctrl[i]
<1>1. Good(v) /\ v \in States /\ v.ctrl # << >> /\ IsLive(v) /\ Len(lbs) = Len(v.ctrl)
      /\ DOMAIN lbs = 1 .. Len(lbs) /\ DOMAIN v.ctrl = 1 .. Len(lbs) /\ Len(lbs) \in Nat
  BY FramedFacts
<1>2. i \in DOMAIN v.ctrl
  BY <1>1
<1>3. f \in Frames /\ f.entry \in Nat /\ f.entry <= v.height /\ f.inits \subseteq v.inits
  BY <1>1, <1>2, GoodFrames
<1>4. f.params \in Seq(ValueTypes) /\ f.results \in Seq(ValueTypes)
  BY <1>3, FrameFields
<1>5. ~f.dead /\ ~f.enteredDead
  BY <1>1, <1>2, LiveFrames
<1>6. f.entry <= TopFrame(v).entry
  <2>1. TopFrame(v) = v.ctrl[Len(v.ctrl)] /\ Len(v.ctrl) \in DOMAIN v.ctrl
    BY <1>1, TopIsFrame
  <2>2. CASE i = Len(v.ctrl)
    BY <1>3, <2>1, <2>2
  <2>3. CASE i # Len(v.ctrl)
    <3>1. i < Len(v.ctrl)
      BY <1>1, <2>3
    <3> QED BY <1>1, <1>2, <2>1, <3>1 DEF Good, Nested
  <2> QED BY <2>2, <2>3
<1> QED BY <1>1, <1>3, <1>4, <1>5, <1>6

\* Control arrives after the end of frame i.
LEMMA EndArrives ==
  ASSUME NEW b, NEW h, NEW c, NEW p, NEW ls, NEW lbs, Framed(b, h, c, p, ls, lbs),
         NEW i \in DOMAIN lbs, i # 1, NEW s, OpensAt(b, h, p, i, s), NEW e, EndsAt(b, h, s, e),
         NEW f, f = h[p].ctrl[i],
         NEW vals \in Seq(Values), f.entry + Len(f.results) <= Len(vals), Carries(vals, f.results),
         \A k \in 1 .. f.entry : vals[k] \in ValuesOf(h[p].slots[k])
  PROVE  /\ CanNormalize(vals, f.entry, Len(f.results))
         /\ Fits(b, h, c, e + 1, Normalize(vals, f.entry, Len(f.results)), ls, SubSeq(lbs, 1, i - 1))
<1> DEFINE v == h[p]
           w == h[e + 1]
           g == TopFrame(h[e])
           L == SubSeq(lbs, 1, i - 1)
<1>1. /\ Whole(b, h) /\ Len(b) \in Nat /\ p \in 1 .. Len(b) /\ p \in 1 .. Len(b) + 1
      /\ Good(v) /\ v \in States /\ IsLive(v) /\ LocalsFit(ls, v.inits) /\ Len(lbs) \in Nat
      /\ DOMAIN lbs = 1 .. Len(lbs) /\ DOMAIN v.ctrl = 1 .. Len(lbs)
      /\ \A j \in DOMAIN lbs : LabelFits(b, h, c, p, j, lbs[j])
  BY FramedFacts
<1>2. /\ i \in Nat /\ i >= 2 /\ f.entry \in Nat /\ f.inits \subseteq v.inits
      /\ f.results \in Seq(ValueTypes) /\ Len(f.results) \in Nat
  BY InsideFrame
<1>3. /\ s \in 1 .. Len(b) /\ e \in s + 1 .. Len(b) /\ b[e].op = "end" /\ Len(h[s].ctrl) = i - 1
      /\ OpensAt(b, h, e, i, s) /\ Len(w.ctrl) = i - 1 /\ Len(h[e].ctrl) = i
  <2>1. /\ s \in 1 .. Len(b) /\ e \in s + 1 .. Len(b) /\ b[e].op = "end"
        /\ OpensAt(b, h, e, Len(h[s].ctrl) + 1, s) /\ Len(w.ctrl) = Len(h[s].ctrl)
        /\ Len(h[e].ctrl) = Len(h[s].ctrl) + 1
    BY <1>1, EndsFacts
  <2>2. Len(h[s].ctrl) = i - 1
    BY DEF OpensAt
  <2>3. Len(h[s].ctrl) + 1 = i
    BY <1>2, <2>2
  <2> QED BY <2>1, <2>2, <2>3
<1>4. e \in 1 .. Len(b) /\ e + 1 \in 1 .. Len(b) /\ e \in 1 .. Len(b) + 1 /\ e + 1 \in 1 .. Len(b) + 1
  <2>1. e \in 1 .. Len(b) /\ e \in 1 .. Len(b) + 1 /\ e + 1 \in 1 .. Len(b) + 1
    BY <1>1, <1>3
  <2>2. Len(w.ctrl) # 0
    BY <1>2, <1>3
  <2>3. e # Len(b)
    BY <1>1, <2>2, WholeShape
  <2> QED BY <1>1, <2>1, <2>3
<1>5. Good(w) /\ w \in States /\ Good(h[e]) /\ h[e] \in States /\ h[e].ctrl # << >> /\ w.ctrl # << >>
      /\ DOMAIN w.ctrl = 1 .. i - 1 /\ DOMAIN h[e].ctrl = 1 .. i
  <2>1. Good(w) /\ w \in States /\ w.ctrl # << >> /\ DOMAIN w.ctrl = 1 .. Len(w.ctrl)
    BY <1>1, <1>4, WholeShape, SMTT(60)
  <2>2. Good(h[e]) /\ h[e] \in States /\ h[e].ctrl # << >> /\ DOMAIN h[e].ctrl = 1 .. Len(h[e].ctrl)
    <3>1. Whole(b, h) /\ e \in 1 .. Len(b) /\ e \in 1 .. Len(b) + 1
      BY <1>1, <1>4
    <3> QED BY ONLY <3>1, WholeShape
  <2> HIDE DEF w
  <2> QED BY <1>3, <2>1, <2>2
<1>6. Closes(h[e], w)
  BY <1>1, <1>3, <1>4, WholeSteps DEF Steps
<1>7. Same(h[s + 1], v, i) /\ Same(h[s + 1], h[e], i)
  BY <1>1, <1>2, <1>3, <1>4, Opened
<1>8. g = h[e].ctrl[i] /\ g.entry = f.entry /\ g.results = f.results /\ g.inits = f.inits
  <2>1. g = h[e].ctrl[i]
    BY <1>3, SMTT(60) DEF TopFrame
  <2> QED BY <1>7, <2>1 DEF Same, SameFrame
<1>9. w.height = f.entry + Len(f.results) /\ w.height <= Len(w.slots) /\ w.inits = f.inits
      /\ \A k \in 1 .. Len(f.results) : w.slots[f.entry + k] = f.results[k]
  BY <1>6, <1>8 DEF Closes
<1>10. \A k \in 1 .. f.entry : w.slots[k] = v.slots[k]
  <2>1. \A k \in 1 .. f.entry : w.slots[k] = h[e].slots[k]
    BY <1>6, <1>8, SMTT(60) DEF Closes
  <2>2. h[s + 1].ctrl[i].entry = f.entry
    BY <1>7 DEF Same, SameFrame
  <2>3. \A k \in 1 .. f.entry : h[e].slots[k] = h[s + 1].slots[k] /\ v.slots[k] = h[s + 1].slots[k]
    BY <1>7, <2>2 DEF Same
  <2> QED BY <2>1, <2>3, SMTT(60)
<1> HIDE DEF w
<1>11. Agrees(Normalize(vals, f.entry, Len(f.results)), w)
  <2>1. \A k \in 1 .. f.entry : vals[k] \in ValuesOf(w.slots[k])
    BY <1>10, SMTT(60)
  <2> DEFINE x == f.entry
             types == f.results
  <2>2. /\ x \in Nat /\ types \in Seq(ValueTypes) /\ Carries(vals, types) /\ x + Len(types) <= Len(vals)
        /\ w \in States /\ w.height = x + Len(types) /\ w.height <= Len(w.slots)
        /\ \A k \in 1 .. x : vals[k] \in ValuesOf(w.slots[k])
        /\ \A k \in 1 .. Len(types) : w.slots[x + k] = types[k]
    BY <1>2, <1>5, <1>9, <2>1
  <2> HIDE DEF x, types
  <2>3. Agrees(Normalize(vals, x, Len(types)), w)
    BY <2>2, NormalizedAgrees
  <2> QED BY <2>3 DEF x, types
<1>12. IsLive(w)
  <2> DEFINE j == i - 1
  <2>1. j \in 1 .. i - 1 /\ j \in 1 .. i /\ j \in DOMAIN lbs
    <3>1. i <= Len(lbs)
      BY <1>1
    <3> QED BY <1>1, <1>2, <3>1
  <2>2. w.ctrl[j] = h[e].ctrl[j]
    BY <1>3, <1>6, <2>1 DEF Closes
  <2>3. h[e].ctrl[j] = v.ctrl[j]
    <3> HIDE DEF j
    <3>1. \A k \in 1 .. i - 1 : h[e].ctrl[k] = h[p].ctrl[k]
      BY <1>1, <1>2, <1>3, <1>4, AroundSame
    <3> QED BY <2>1, <3>1
  <2>4. ~v.ctrl[j].dead
    BY <2>1, InsideFrame, SMTT(60)
  <2>5. TopFrame(w) = w.ctrl[j]
    BY <1>3 DEF TopFrame, w
  <2> QED BY <1>5, <2>2, <2>3, <2>4, <2>5 DEF IsLive
<1>13. LocalsFit(ls, w.inits)
  BY <1>1, <1>2, <1>9, LocalsFewer
<1>14. i - 1 \in Nat /\ i - 1 <= Len(lbs)
  BY <1>1, <1>2
<1>15. /\ \E U : L \in Seq(U)
       /\ Len(L) = i - 1 /\ DOMAIN L = 1 .. i - 1
       /\ \A j \in 1 .. i - 1 : L[j] = lbs[j] /\ j \in DOMAIN lbs
  <2>1. PICK T : lbs \in Seq(T)
    BY DEF Framed
  <2> QED BY <1>14, <2>1, CutLabels
<1> HIDE DEF L
<1>16. ASSUME NEW j \in DOMAIN L PROVE LabelFits(b, h, c, e + 1, j, L[j])
  <2>1. j \in 1 .. i - 1 /\ j \in 1 .. i /\ j <= Len(h[e + 1].ctrl)
    BY <1>2, <1>3, <1>15 DEF w
  <2>2. LabelFits(b, h, c, p, j, L[j])
    BY <1>1, <1>15, <2>1
  <2>3. LabelFits(b, h, c, e, j, L[j])
    BY <1>1, <1>2, <1>3, <1>4, <2>1, <2>2, LabelCarries
  <2>4. j \in DOMAIN h[e].ctrl
    BY <1>5, <2>1
  <2> QED BY <1>1, <1>4, <2>1, <2>3, <2>4, LabelStays
<1>17. Framed(b, h, c, e + 1, ls, L)
  BY <1>1, <1>3, <1>4, <1>12, <1>13, <1>15, <1>16 DEF Framed, w
<1>18. CanNormalize(vals, f.entry, Len(f.results))
  BY <1>2, NormalizeIs
<1> QED BY <1>11, <1>17, <1>18, InnerFits DEF w, L

\* Opening a frame from live code leaves live code.
LEMMA LiveAfterOpener ==
  ASSUME NEW b, NEW h, NEW c, NEW p, NEW ls, NEW lbs, Framed(b, h, c, p, ls, lbs),
         NEW i \in DOMAIN lbs, i # 1, NEW s, OpensAt(b, h, p, i, s)
  PROVE  IsLive(h[s + 1]) /\ h[s + 1].ctrl # << >> /\ TopFrame(h[s + 1]) = h[s + 1].ctrl[i]
<1>1. Whole(b, h) /\ p \in 1 .. Len(b) + 1 /\ Len(b) \in Nat
  BY FramedFacts
<1>2. i \in Nat /\ i >= 2 /\ ~h[p].ctrl[i].enteredDead
  BY InsideFrame
<1>3. /\ Same(h[s + 1], h[p], i) /\ Opens(h[s], h[s + 1], b[s]) /\ Len(h[s + 1].ctrl) = i
      /\ s \in 1 .. Len(b)
  BY <1>1, <1>2, Opened, SMTT(60)
<1>4. TopFrame(h[s + 1]) = h[s + 1].ctrl[i]
  BY <1>3 DEF TopFrame
<1>5. ~h[s + 1].ctrl[i].enteredDead
  BY <1>2, <1>3 DEF Same, SameFrame
<1>6. ~TopFrame(h[s + 1]).dead
  BY <1>3, <1>4, <1>5 DEF Opens
<1>7. h[s + 1].ctrl # << >>
  BY <1>2, <1>3
<1> QED BY <1>4, <1>6, <1>7 DEF IsLive

\* A branch to a loop arrives after its opener.
LEMMA LoopArrives ==
  ASSUME NEW b, NEW h, NEW c, NEW p, NEW ls, NEW lbs, Framed(b, h, c, p, ls, lbs),
         NEW i \in DOMAIN lbs, i # 1, NEW s, OpensAt(b, h, p, i, s),
         NEW f, f = h[p].ctrl[i],
         NEW vals \in Seq(Values), f.entry + Len(f.params) <= Len(vals), Carries(vals, f.params),
         \A k \in 1 .. f.entry : vals[k] \in ValuesOf(h[p].slots[k])
  PROVE  /\ CanNormalize(vals, f.entry, Len(f.params))
         /\ Fits(b, h, c, s + 1, Normalize(vals, f.entry, Len(f.params)), ls, SubSeq(lbs, 1, i))
<1> DEFINE v == h[p]
           w == h[s + 1]
           L == SubSeq(lbs, 1, i)
<1>1. /\ Whole(b, h) /\ Len(b) \in Nat /\ p \in 1 .. Len(b) /\ p \in 1 .. Len(b) + 1
      /\ LocalsFit(ls, v.inits) /\ Len(lbs) \in Nat /\ DOMAIN lbs = 1 .. Len(lbs)
      /\ \A j \in DOMAIN lbs : LabelFits(b, h, c, p, j, lbs[j])
  BY FramedFacts
<1>2. /\ i \in Nat /\ i >= 2 /\ f.entry \in Nat /\ f.inits \subseteq v.inits
      /\ f.params \in Seq(ValueTypes) /\ Len(f.params) \in Nat
  BY InsideFrame
<1>3. /\ s \in 1 .. Len(b) /\ s \in 1 .. p - 1 /\ Len(w.ctrl) = i /\ Opens(h[s], w, b[s])
      /\ Same(w, v, i) /\ FrameOf(f, b[s])
  <2>1. /\ s \in 1 .. Len(b) /\ s \in 1 .. p - 1 /\ Len(h[s + 1].ctrl) = i /\ Opens(h[s], h[s + 1], b[s])
        /\ Same(h[s + 1], h[p], i) /\ FrameOf(h[p].ctrl[i], b[s])
    <3>1. Whole(b, h) /\ p \in 1 .. Len(b) + 1 /\ i \in Nat
      BY <1>1, <1>2
    <3> HIDE DEF v, w, L
    <3> QED BY <3>1, Opened, SMTT(60)
  <2> QED BY <2>1
<1>4. s + 1 \in 1 .. Len(b) /\ s + 1 \in 1 .. Len(b) + 1 /\ s + 1 \in s + 1 .. p
  BY <1>1, <1>3
<1>5. IsLive(w) /\ TopFrame(w) = w.ctrl[i]
  BY LiveAfterOpener
<1>6. TopFrame(w).entry = f.entry /\ TopFrame(w).inits = f.inits /\ b[s].params = f.params
  BY <1>3, <1>5 DEF Same, SameFrame, FrameOf
<1>7. w \in States
  BY <1>1, <1>4, WholeShape, SMTT(60)
<1>8. w.height = f.entry + Len(f.params) /\ w.height <= Len(w.slots) /\ w.inits = f.inits
      /\ \A k \in 1 .. Len(f.params) : w.slots[f.entry + k] = f.params[k]
  BY <1>3, <1>6, ZenonT(60) DEF Opens
<1>9. \A k \in 1 .. f.entry : vals[k] \in ValuesOf(w.slots[k])
  <2>1. \A k \in 1 .. f.entry : v.slots[k] = w.slots[k]
    BY <1>3, <1>5, <1>6 DEF Same
  <2> QED BY <2>1
<1> HIDE DEF w
<1>10. Agrees(Normalize(vals, f.entry, Len(f.params)), w)
  <2> DEFINE x == f.entry
             types == f.params
  <2>1. /\ x \in Nat /\ types \in Seq(ValueTypes) /\ Carries(vals, types) /\ x + Len(types) <= Len(vals)
        /\ w \in States /\ w.height = x + Len(types) /\ w.height <= Len(w.slots)
        /\ \A k \in 1 .. x : vals[k] \in ValuesOf(w.slots[k])
        /\ \A k \in 1 .. Len(types) : w.slots[x + k] = types[k]
    BY <1>2, <1>7, <1>8, <1>9
  <2> HIDE DEF x, types
  <2>2. Agrees(Normalize(vals, x, Len(types)), w)
    BY <2>1, NormalizedAgrees
  <2> QED BY <2>2 DEF x, types
<1>11. LocalsFit(ls, w.inits)
  BY <1>1, <1>2, <1>8, LocalsFewer
<1>12. /\ \E U : L \in Seq(U)
       /\ Len(L) = i /\ DOMAIN L = 1 .. i
       /\ \A j \in 1 .. i : L[j] = lbs[j] /\ j \in DOMAIN lbs
  <2>1. PICK T : lbs \in Seq(T)
    BY DEF Framed
  <2>2. i <= Len(lbs)
    BY <1>1
  <2> QED BY <1>2, <2>1, <2>2, CutLabels
<1> HIDE DEF L
<1>13. ASSUME NEW j \in DOMAIN L PROVE LabelFits(b, h, c, s + 1, j, L[j])
  <2>1. j \in 1 .. i
    BY <1>12
  <2>2. LabelFits(b, h, c, p, j, L[j])
    BY <1>1, <1>12, <2>1
  <2>3. OpensAt(b, h, s + 1, i, s)
    BY <1>1, <1>2, <1>4, OpensEarlier
  <2> QED BY <1>1, <1>2, <1>4, <2>1, <2>2, <2>3, LabelCarries
<1>14. Framed(b, h, c, s + 1, ls, L)
  BY <1>1, <1>3, <1>4, <1>5, <1>11, <1>12, <1>13 DEF Framed, w
<1>15. CanNormalize(vals, f.entry, Len(f.params))
  BY <1>2, NormalizeIs
<1> QED BY <1>10, <1>14, <1>15, InnerFits DEF w, L

\* A branch to the function's label arrives at the final end.
LEMMA FunctionArrives ==
  ASSUME NEW b, NEW h, NEW c, NEW p, NEW ls, NEW lbs, Framed(b, h, c, p, ls, lbs),
         NEW vals \in Seq(Values), Carries(vals, ResultTypes)
  PROVE  /\ CanNormalize(vals, 0, Len(ResultTypes))
         /\ Fits(b, h, c, Len(b), Normalize(vals, 0, Len(ResultTypes)), ls, SubSeq(lbs, 1, 1))
<1> DEFINE n == Len(ResultTypes)
           z == Normalize(vals, 0, n)
<1>1. ResultTypes \in Seq(ValueTypes) /\ n \in Nat /\ DOMAIN ResultTypes = 1 .. n /\ n <= Len(vals)
  BY Tables DEF Carries
<1>2. /\ CanNormalize(vals, 0, n) /\ z \in Seq(Values) /\ Len(z) = 0 + n
      /\ \A k \in 1 .. n : z[0 + k] = vals[Len(vals) - n + k]
  <2> DEFINE zero == 0
             u == Normalize(vals, zero, n)
  <2>1. zero \in Nat /\ zero + n <= Len(vals) /\ zero = 0
    BY <1>1
  <2> HIDE DEF n, zero, u
  <2>2. /\ CanNormalize(vals, zero, n) /\ u \in Seq(Values) /\ Len(u) = zero + n
        /\ \A k \in 1 .. n : u[zero + k] = vals[Len(vals) - n + k]
    BY <1>1, <2>1, NormalizeIs DEF u
  <2> HIDE DEF z
  <2>3. z = u
    BY <2>1 DEF z, u
  <2> QED BY <2>1, <2>2, <2>3
<1>3. \A k \in 1 .. n : z[k] \in ValuesOf(ResultTypes[k])
  <2>1. \A k \in 1 .. n : 0 + k = k
    BY <1>1
  <2> HIDE DEF z
  <2> QED BY <1>2, <2>1 DEF Carries
<1> HIDE DEF z
<1>4. z \in Tuples(ResultTypes)
  <2>1. z \in [DOMAIN ResultTypes -> Values]
    BY <1>1, <1>2
  <2> QED BY <1>1, <1>3, <2>1 DEF Tuples
<1>5. Len(lbs) \in Nat \ {0} /\ lbs[1] = FunctionLabel /\ Len(b) \in Nat /\ DOMAIN b = 1 .. Len(b)
      /\ p \in 1 .. Len(b)
  BY FramedFacts
<1>6. SubSeq(lbs, 1, 1) = <<FunctionLabel>>
  <2>1. PICK T : lbs \in Seq(T)
    BY DEF Framed
  <2> DEFINE one == SubSeq(lbs, 1, 1)
  <2>2. 1 <= Len(lbs)
    BY <1>5
  <2>3. /\ \E U : one \in Seq(U)
        /\ Len(one) = 1 /\ DOMAIN one = 1 .. 1 /\ \A k \in 1 .. 1 : one[k] = lbs[k]
    BY <2>1, <2>2, CutLabels
  <2> HIDE DEF one
  <2>4. one[1] = FunctionLabel
    BY <1>5, <2>3
  <2>5. one = <<FunctionLabel>>
    BY <2>3, <2>4
  <2> QED BY <2>5 DEF one
<1>7. Len(b) \in DOMAIN b
  BY <1>5
<1> QED BY <1>2, <1>4, <1>6, <1>7 DEF Fits, Outermost, z

-----------------------------------------------------------------------------
(* Branches *)

LEMMA LabelIs ==
  ASSUME NEW b, NEW h, NEW c, NEW p, NEW ls, NEW lbs, Framed(b, h, c, p, ls, lbs),
         NEW i \in DOMAIN lbs, NEW f, f = h[p].ctrl[i]
  PROVE  /\ lbs[i].height = f.entry /\ lbs[i].results = Len(f.results)
         /\ lbs[i].branch = Len(LabelTypes(f)) /\ LabelTypes(f) \in Seq(ValueTypes)
         /\ lbs[i].isLoop <=> f.kind = "loop"
         /\ i = 1 => f.kind = "block" /\ f.results = ResultTypes /\ f.entry = 0
<1>1. LabelFits(b, h, c, p, i, lbs[i]) /\ Good(h[p]) /\ h[p].ctrl # << >>
  BY FramedFacts
<1>2. LabelTypes(f) \in Seq(ValueTypes)
  BY InsideFrame DEF LabelTypes
<1>3. CASE i = 1
  <2>1. f.kind = "block" /\ f.entry = 0 /\ f.results = ResultTypes
    BY <1>1, <1>3 DEF Good, Rooted
  <2>2. LabelTypes(f) = ResultTypes
    BY <2>1 DEF LabelTypes
  <2>3. lbs[i] = FunctionLabel
    BY <1>1, <1>3 DEF LabelFits
  <2>4. lbs[i].height = 0 /\ lbs[i].results = Len(ResultTypes) /\ lbs[i].branch = Len(ResultTypes)
    BY <2>3 DEF FunctionLabel
  <2>5. ~lbs[i].isLoop
    <3>1. FunctionLabel.isLoop = FALSE
      BY DEF FunctionLabel
    <3> QED BY <2>3, <3>1, Zenon
  <2> QED BY <1>2, <2>1, <2>2, <2>4, <2>5
<1>4. CASE i # 1
  <2>1. PICK s \in 1 .. p - 1 :
          lbs[i] = [height |-> f.entry, results |-> Len(f.results), branch |-> Len(LabelTypes(f)),
                    isLoop |-> f.kind = "loop", catches |-> c[s].catches]
    BY <1>1, <1>4 DEF LabelFits
  <2>2. lbs[i].height = f.entry /\ lbs[i].results = Len(f.results) /\ lbs[i].branch = Len(LabelTypes(f))
    BY <2>1
  <2>3. lbs[i].isLoop <=> f.kind = "loop"
    <3>1. lbs[i].isLoop = (f.kind = "loop")
      BY <2>1
    <3> QED BY <3>1, Zenon
  <2> QED BY <1>2, <1>4, <2>2, <2>3
<1> QED BY <1>3, <1>4

\* branchToLabel: in a frame that Fits, a branch to label i finds its operands,
\* carries them there and goes on in a frame that fits the instruction after its
\* target, a loop's first or the one after an end.
THEOREM BranchLands ==
  ASSUME NEW b, NEW h, NEW c, NEW p, NEW ls, NEW lbs, Framed(b, h, c, p, ls, lbs),
         NEW i \in DOMAIN lbs, NEW f, f = h[p].ctrl[i], NEW x, Lands(b, h, p, i, x),
         NEW vals \in Seq(Values), f.entry + Len(LabelTypes(f)) <= Len(vals), Carries(vals, LabelTypes(f)),
         \A k \in 1 .. f.entry : vals[k] \in ValuesOf(h[p].slots[k])
  PROVE  /\ CanNormalize(vals, lbs[i].height, lbs[i].branch)
         /\ Fits(b, h, c, x + 1, Normalize(vals, lbs[i].height, lbs[i].branch), ls,
                 SubSeq(lbs, 1, IF lbs[i].isLoop \/ i = 1 THEN i ELSE i - 1))
<1>1. /\ lbs[i].height = f.entry /\ lbs[i].branch = Len(LabelTypes(f))
      /\ lbs[i].isLoop <=> f.kind = "loop"
      /\ i = 1 => f.kind = "block" /\ f.results = ResultTypes /\ f.entry = 0
  BY LabelIs
<1>2. /\ Whole(b, h) /\ Len(b) \in Nat /\ p \in 1 .. Len(b) + 1 /\ i \in Nat
  BY FramedFacts, InsideFrame
<1>3. CASE i = 1
  <2>1. f.entry = 0 /\ LabelTypes(f) = ResultTypes
    BY <1>1, <1>3 DEF LabelTypes
  <2>2. x + 1 = Len(b)
    BY <1>2, <1>3 DEF Lands
  <2>3. /\ CanNormalize(vals, 0, Len(ResultTypes))
        /\ Fits(b, h, c, Len(b), Normalize(vals, 0, Len(ResultTypes)), ls, SubSeq(lbs, 1, 1))
    BY <2>1, FunctionArrives
  <2>4. (IF lbs[i].isLoop \/ i = 1 THEN i ELSE i - 1) = 1
    BY <1>3
  <2>5. lbs[i].height = 0 /\ lbs[i].branch = Len(ResultTypes)
    BY <1>1, <2>1
  <2> QED BY <2>2, <2>3, <2>4, <2>5
<1>4. CASE i # 1
  <2>1. PICK s \in 1 .. p - 1 : OpensAt(b, h, p, i, s) /\ IF b[s].op = "loop" THEN x = s ELSE EndsAt(b, h, s, x)
    BY <1>4 DEF Lands
  <2>2. f.kind = b[s].op
    BY <1>2, <2>1, Opened, SMTT(60) DEF FrameOf
  <2>3. CASE f.kind = "loop"
    <3>1. LabelTypes(f) = f.params /\ x = s
      BY <2>1, <2>2, <2>3 DEF LabelTypes
    <3>2. (IF lbs[i].isLoop \/ i = 1 THEN i ELSE i - 1) = i
      BY <1>1, <2>3
    <3>3. /\ CanNormalize(vals, f.entry, Len(f.params))
          /\ Fits(b, h, c, s + 1, Normalize(vals, f.entry, Len(f.params)), ls, SubSeq(lbs, 1, i))
      BY <1>4, <2>1, <3>1, LoopArrives
    <3> QED BY <1>1, <3>1, <3>2, <3>3
  <2>4. CASE f.kind # "loop"
    <3>1. LabelTypes(f) = f.results /\ EndsAt(b, h, s, x)
      BY <2>1, <2>2, <2>4 DEF LabelTypes
    <3>2. (IF lbs[i].isLoop \/ i = 1 THEN i ELSE i - 1) = i - 1
      BY <1>1, <1>4, <2>4
    <3>3. /\ CanNormalize(vals, f.entry, Len(f.results))
          /\ Fits(b, h, c, x + 1, Normalize(vals, f.entry, Len(f.results)), ls, SubSeq(lbs, 1, i - 1))
      BY <1>4, <2>1, <3>1, EndArrives
    <3> QED BY <1>1, <3>1, <3>2, <3>3
  <2> QED BY <2>3, <2>4
<1> QED BY <1>3, <1>4

\* A clause was resolved where its try_table opened; the frames it may name
\* are still there.
LEMMA LandsLater ==
  ASSUME NEW b, NEW h, Whole(b, h), NEW p \in 1 .. Len(b) + 1, NEW n \in Nat, NEW s, OpensAt(b, h, p, n, s),
         NEW i \in 1 .. n - 1, NEW x, Lands(b, h, s, i, x)
  PROVE  Lands(b, h, p, i, x)
<1>1. CASE i = 1 /\ x = Len(b) - 1
  BY <1>1 DEF Lands
<1>2. CASE ~(i = 1 /\ x = Len(b) - 1)
  <2>1. i > 1
    BY <1>2 DEF Lands
  <2>2. PICK t \in 1 .. s - 1 : OpensAt(b, h, s, i, t) /\ IF b[t].op = "loop" THEN x = t ELSE EndsAt(b, h, t, x)
    BY <1>2 DEF Lands
  <2>3. Len(b) \in Nat /\ s \in 1 .. p - 1 /\ s \in 1 .. Len(b) + 1 /\ i \in Nat
    BY WholeShape DEF OpensAt
  <2>4. ASSUME NEW r \in t + 1 .. p PROVE Len(h[r].ctrl) >= i
    <3>1. CASE r <= s
      <4>1. r \in t + 1 .. s
        BY <2>3, <3>1
      <4> QED BY <2>2, <4>1 DEF OpensAt, Spans
    <3>2. CASE r > s
      <4>1. r \in s + 1 .. p /\ r \in 1 .. Len(b) + 1
        BY <2>3, <3>2
      <4>2. Len(h[r].ctrl) >= n /\ Len(h[r].ctrl) \in Nat
        BY <4>1, WholeShape DEF OpensAt, Spans
      <4> QED BY <4>2
    <3> QED BY <2>3, <3>1, <3>2
  <2>5. t \in 1 .. p - 1
    BY <2>3
  <2>6. OpensAt(b, h, p, i, t)
    BY <2>2, <2>4, <2>5 DEF OpensAt, Spans
  <2> QED BY <2>1, <2>2, <2>5, <2>6 DEF Lands
<1> QED BY <1>1, <1>2

-----------------------------------------------------------------------------
(* Instructions on operands that fit *)

Alive(v) == Firm(v) /\ IsLive(v)

LEMMA AliveFacts ==
  ASSUME NEW v, Alive(v)
  PROVE  /\ v \in States /\ v.height \in Nat /\ v.height <= Len(v.slots) /\ Known(v, v.height) /\ Ready(v)
         /\ TopFrame(v).entry \in Nat /\ TopFrame(v).entry <= v.height /\ v.ctrl # << >>
         /\ \A k \in 1 .. v.height : v.slots[k] \in ValueTypes /\ v.slots[k] \in Slots
<1>1. Ready(v) /\ Known(v, v.height)
  BY DEF Alive, Firm
<1>2. /\ v \in States /\ v.height \in Nat /\ v.height <= Len(v.slots)
      /\ TopFrame(v).entry \in Nat /\ TopFrame(v).entry <= v.height /\ v.ctrl # << >>
      /\ v.slots \in Seq(Slots) /\ Len(v.slots) \in Nat
  BY <1>1, ReadyFacts
<1>3. ASSUME NEW k \in 1 .. v.height PROVE v.slots[k] \in ValueTypes /\ v.slots[k] \in Slots
  <2>1. k \in 1 .. Len(v.slots)
    BY <1>2
  <2>2. v.slots[k] \in Slots /\ v.slots[k] # Unknown
    BY <1>1, <1>2, <2>1 DEF Known
  <2> QED BY <2>2, SlotIsType
<1> QED BY <1>1, <1>2, <1>3

LEMMA AliveQuiet ==
  ASSUME NEW v, Alive(v), NEW w, Quiet(v, w)
  PROVE  /\ Alive(w) /\ IsLive(w) /\ TopFrame(w) = TopFrame(v) /\ w.inits = v.inits /\ w.ctrl = v.ctrl
         /\ \A d : FrameAt(w, d) = FrameAt(v, d)
<1>1. TopFrame(w) = TopFrame(v) /\ IsLive(w) /\ Firm(w)
  BY QuietTop, QuietFirm DEF Alive
<1> QED BY <1>1, QuietFrames DEF Alive, Quiet

LEMMA AliveEnsure ==
  ASSUME NEW v, Alive(v), NEW n \in Nat, NEW w \in Ensure(v, n)
  PROVE  w = v /\ v.height >= TopFrame(v).entry + n
<1>1. Ready(v) /\ IsLive(v)
  BY DEF Alive, Firm
<1> QED BY <1>1, QuietEnsure

LEMMA AliveTops ==
  ASSUME NEW v, Alive(v), NEW s, Agrees(s, v), NEW types \in Seq(ValueTypes), NEW w \in WithTops(v, types)
  PROVE  /\ w = v /\ Len(types) \in Nat /\ TopFrame(v).entry + Len(types) <= Len(s)
         /\ Carries(s, types) /\ HasTops(s, types)
<1>1. Ready(v) /\ IsLive(v)
  BY DEF Alive, Firm
<1>2. Len(types) \in Nat
  OBVIOUS
<1>3. w = v /\ Tops(w, types) /\ w.height >= TopFrame(v).entry + Len(types)
  BY <1>1, <1>2, QuietWithTops
<1>4. /\ v \in States /\ v.height \in Nat /\ v.height <= Len(v.slots) /\ Known(v, v.height)
      /\ TopFrame(v).entry \in Nat
  BY AliveFacts
<1>5. Len(types) <= v.height /\ Len(s) = v.height /\ s \in Seq(Values)
  BY <1>2, <1>3, <1>4, AgreesShape
<1>6. Carries(s, types)
  BY <1>3, <1>4, <1>5, TopsCarry
<1>7. TopFrame(v).entry + Len(types) <= Len(s)
  BY <1>3, <1>5
<1> QED BY <1>2, <1>3, <1>5, <1>6, <1>7, CarriesHas

LEMMA AlivePop ==
  ASSUME NEW v, Alive(v), NEW s, Agrees(s, v), NEW types \in Seq(ValueTypes), NEW w \in Pop(v, types)
  PROVE  /\ w = Truncate(v, v.height - Len(types)) /\ Quiet(v, w) /\ Alive(w)
         /\ Carries(s, types) /\ HasTops(s, types) /\ TopFrame(v).entry + Len(types) <= Len(s)
         /\ Agrees(Below(s, Len(types)), w)
<1>1. PICK u \in WithTops(v, types) : w = Truncate(u, u.height - Len(types))
  BY DEF Pop
<1>2. /\ u = v /\ Len(types) \in Nat /\ TopFrame(v).entry + Len(types) <= Len(s)
      /\ Carries(s, types) /\ HasTops(s, types)
  BY AliveTops
<1>3. v \in States /\ v.height \in Nat /\ Len(s) = v.height /\ s \in Seq(Values) /\ TopFrame(v).entry \in Nat
      /\ Ready(v)
  BY AliveFacts, AgreesShape
<1>4. v.height - Len(types) \in Nat /\ v.height - Len(types) <= v.height /\ Len(types) <= Len(s)
      /\ TopFrame(v).entry <= v.height - Len(types)
  BY <1>2, <1>3
<1>5. Quiet(v, w)
  BY <1>1, <1>2, <1>3, <1>4, QuietTruncate
<1>6. Agrees(Below(s, Len(types)), w)
  <2> DEFINE x == Below(s, Len(types))
             n == v.height - Len(types)
  <2>1. x \in Seq(Values) /\ Len(x) = Len(s) - Len(types) /\ \A k \in 1 .. Len(s) - Len(types) : x[k] = s[k]
    BY <1>2, <1>3, <1>4, SplitIs
  <2> HIDE DEF x
  <2>2. n \in Nat /\ n <= v.height /\ Len(x) = n /\ (\A k \in 1 .. n : x[k] = s[k]) /\ w = Truncate(v, n)
    BY <1>1, <1>2, <1>3, <1>4, <2>1
  <2> HIDE DEF n
  <2>3. Agrees(x, Truncate(v, n))
    BY <1>3, <2>1, <2>2, AgreesTruncate
  <2> QED BY <2>2, <2>3 DEF x
<1> QED BY <1>1, <1>2, <1>5, <1>6, AliveQuiet

LEMMA PushOne ==
  ASSUME NEW v, Alive(v), NEW s, Agrees(s, v), NEW type \in ValueTypes, NEW x \in ValuesOf(type)
  PROVE  Agrees(Append(s, x), Push(v, <<type>>)) /\ Quiet(v, Push(v, <<type>>))
<1>1. /\ v \in States /\ v.height <= Len(v.slots) /\ Ready(v) /\ s \in Seq(Values)
  BY AliveFacts, AgreesShape
<1>2. <<type>> \in Seq(ValueTypes) /\ Len(<<type>>) = 1 /\ DOMAIN <<type>> = {1} /\ <<type>>[1] = type
  BY OneType
<1>3. x \in Values
  BY ValuesAre
<1>4. <<x>> \in Tuples(<<type>>)
  <2>1. <<x>> \in [{1} -> Values] /\ <<x>>[1] = x
    BY <1>3
  <2> QED BY <1>2, <2>1 DEF Tuples
<1>5. Append(s, x) = s \o <<x>>
  BY <1>1, <1>3
<1> QED BY <1>1, <1>2, <1>4, <1>5, AgreesPush, PushTypes

\* The top operand, and what is under it.
LEMMA DropOne ==
  ASSUME NEW v, Alive(v), NEW s, Agrees(s, v), NEW n \in Nat, v.height >= TopFrame(v).entry + n, n >= 1
  PROVE  /\ s # << >> /\ Front(s) \in Seq(Values) /\ Len(Front(s)) = Len(s) - 1
         /\ Last(s) = s[Len(s)] /\ Last(s) \in ValuesOf(v.slots[v.height]) /\ v.slots[v.height] \in ValueTypes
         /\ Agrees(Front(s), Truncate(v, v.height - 1)) /\ Quiet(v, Truncate(v, v.height - 1))
         /\ Alive(Truncate(v, v.height - 1)) /\ Append(Front(s), Last(s)) = s
<1>1. /\ v \in States /\ v.height \in Nat /\ TopFrame(v).entry \in Nat /\ Ready(v)
      /\ \A k \in 1 .. v.height : v.slots[k] \in ValueTypes
  BY AliveFacts
<1>2. s \in Seq(Values) /\ Len(s) = v.height /\ \A k \in 1 .. v.height : s[k] \in ValuesOf(v.slots[k])
  BY <1>1, AgreesShape
<1>3. v.height >= 1 /\ v.height \in 1 .. v.height /\ v.height - 1 \in Nat /\ v.height - 1 <= v.height
      /\ TopFrame(v).entry <= v.height - 1
  BY <1>1
<1>4. s # << >>
  BY <1>2, <1>3
<1>5. Front(s) \in Seq(Values) /\ Len(Front(s)) = Len(s) - 1 /\ Last(s) = s[Len(s)]
      /\ \A k \in 1 .. Len(s) - 1 : Front(s)[k] = s[k]
  BY <1>2, <1>4, FrontIs
<1>6. Agrees(Front(s), Truncate(v, v.height - 1))
  BY <1>1, <1>2, <1>3, <1>5, AgreesTruncate
<1>7. Quiet(v, Truncate(v, v.height - 1))
  BY <1>1, <1>3, QuietTruncate
<1>8. Append(Front(s), Last(s)) = s
  BY <1>2, <1>4 DEF Front, Last
<1> QED BY <1>1, <1>2, <1>3, <1>4, <1>5, <1>6, <1>7, <1>8, AliveQuiet

LEMMA PopNumber ==
  ASSUME NEW v, Alive(v), NEW s, Agrees(s, v), NEW w \in Pop(v, <<"i32">>)
  PROVE  /\ TopIs(s, "i32") /\ Quiet(v, w) /\ Alive(w) /\ Agrees(Front(s), w)
<1>1. /\ w = Truncate(v, v.height - 1) /\ Quiet(v, w) /\ Alive(w) /\ Carries(s, <<"i32">>)
      /\ TopFrame(v).entry + 1 <= Len(s)
  BY AlivePop, I32Type
<1>2. Len(s) = v.height /\ v \in States
  BY AliveFacts, AgreesShape
<1>3. /\ s # << >> /\ Last(s) = s[Len(s)] /\ Agrees(Front(s), w)
  BY <1>1, <1>2, AliveFacts, DropOne
<1>4. s[Len(s)] \in ValuesOf("i32")
  <2>1. s[Len(s) - 1 + 1] \in ValuesOf(<<"i32">>[1])
    BY <1>1, I32Type DEF Carries
  <2>2. Len(s) \in Nat
    BY <1>2, AgreesShape
  <2> QED BY <2>1, <2>2
<1>5. Last(s) = "i32"
  BY <1>3, <1>4 DEF ValuesOf
<1> QED BY <1>1, <1>3, <1>5 DEF TopIs

\* The operands s may be taken to the frame at depth: they end with the types
\* of its label, and what lies under the top frame is as it was.
Feeds(v, depth, s) ==
  LET types == LabelTypes(FrameAt(v, depth))
  IN  /\ depth < Len(v.ctrl)
      /\ s \in Seq(Values) /\ TopFrame(v).entry + Len(types) <= Len(s) /\ Carries(s, types)
      /\ \A k \in 1 .. TopFrame(v).entry : s[k] \in ValuesOf(v.slots[k])

LEMMA FeedsQuiet ==
  ASSUME NEW v, NEW w, Quiet(v, w), NEW depth, NEW s, Feeds(w, depth, s)
  PROVE  Feeds(v, depth, s)
<1>1. TopFrame(w) = TopFrame(v) /\ Len(w.ctrl) = Len(v.ctrl) /\ FrameAt(w, depth) = FrameAt(v, depth)
  BY QuietTop, QuietFrames
<1>2. \A k \in 1 .. TopFrame(v).entry : w.slots[k] = v.slots[k]
  BY DEF Quiet
<1> QED BY <1>1, <1>2 DEF Feeds

LEMMA AgreesUnder ==
  ASSUME NEW v, Alive(v), NEW s, Agrees(s, v)
  PROVE  s \in Seq(Values) /\ \A k \in 1 .. TopFrame(v).entry : s[k] \in ValuesOf(v.slots[k])
<1>1. v \in States /\ v.height \in Nat /\ TopFrame(v).entry \in Nat /\ TopFrame(v).entry <= v.height
  BY AliveFacts
<1>2. \A k \in 1 .. TopFrame(v).entry : k \in 1 .. v.height
  BY <1>1
<1> QED BY <1>1, <1>2, AgreesShape

LEMMA BranchFeeds ==
  ASSUME NEW v, Alive(v), NEW s, Agrees(s, v), NEW depth \in Nat, NEW w \in BranchTarget(v, depth)
  PROVE  w = v /\ Feeds(v, depth, s) /\ LabelTypes(FrameAt(v, depth)) \in Seq(ValueTypes)
<1> DEFINE types == LabelTypes(FrameAt(v, depth))
<1>1. Firm(v) /\ IsLive(v)
  BY DEF Alive
<1>2. depth < Len(v.ctrl) /\ types \in Seq(ValueTypes)
  BY <1>1, BranchTargetLocal
<1>3. w \in WithTops(v, types)
  <2>1. Len(v.ctrl) \in Nat
    BY AliveFacts, StateFields
  <2>2. ~(depth >= Len(v.ctrl))
    BY <1>2, <2>1
  <2> QED BY <2>2 DEF BranchTarget
<1> HIDE DEF types
<1>4. w = v /\ TopFrame(v).entry + Len(types) <= Len(s) /\ Carries(s, types)
  BY <1>2, <1>3, AliveTops
<1> QED BY <1>2, <1>4, AgreesUnder DEF Feeds, types

LEMMA ConstRuns ==
  ASSUME NEW v, Alive(v), NEW s, Agrees(s, v), NEW type \in ValueTypes \ {"exn"}, NEW w \in ConstRule(v, type)
  PROVE  Quiet(v, w) /\ Agrees(Append(s, Zero(type)), w)
BY PushOne, ValuesAre DEF ConstRule

LEMMA DropRuns ==
  ASSUME NEW v, Alive(v), NEW s, Agrees(s, v), NEW w \in DropRule(v)
  PROVE  s # << >> /\ Quiet(v, w) /\ Agrees(Front(s), w)
<1>1. PICK u \in Ensure(v, 1) : w = Truncate(u, u.height - 1)
  BY DEF DropRule
<1>2. u = v /\ v.height >= TopFrame(v).entry + 1
  BY AliveEnsure
<1> QED BY <1>1, <1>2, DropOne

LEMMA BrRuns ==
  ASSUME NEW v, Alive(v), NEW s, Agrees(s, v), NEW depth \in Nat, NEW w \in BrRule(v, depth)
  PROVE  Feeds(v, depth, s)
BY BranchFeeds DEF BrRule

LEMMA BrIfRuns ==
  ASSUME NEW v, Alive(v), NEW s, Agrees(s, v), NEW depth \in Nat, NEW w \in BrIfRule(v, depth)
  PROVE  TopIs(s, "i32") /\ Feeds(v, depth, Front(s)) /\ Quiet(v, w) /\ Agrees(Front(s), w)
<1>1. PICK x \in Pop(v, <<"i32">>) : \E u \in BranchTarget(x, depth) : w = Retype(u, LabelTypes(FrameAt(u, depth)))
  BY DEF BrIfRule
<1>2. PICK u \in BranchTarget(x, depth) : w = Retype(u, LabelTypes(FrameAt(u, depth)))
  BY <1>1
<1>3. TopIs(s, "i32") /\ Quiet(v, x) /\ Alive(x) /\ Agrees(Front(s), x)
  BY PopNumber
<1> DEFINE types == LabelTypes(FrameAt(x, depth))
<1>4. u = x /\ Feeds(x, depth, Front(s)) /\ types \in Seq(ValueTypes)
  BY <1>3, BranchFeeds
<1>5. TopFrame(x).entry + Len(types) <= Len(Front(s)) /\ Carries(Front(s), types)
  BY <1>4 DEF Feeds
<1> HIDE DEF types
<1>6. w = Retype(x, types)
  BY <1>2, <1>4 DEF types
<1>7. x \in States /\ x.height <= Len(x.slots) /\ Len(Front(s)) = x.height /\ Firm(x)
  BY <1>3, AliveFacts, AgreesShape DEF Alive
<1>8. Agrees(Front(s), w)
  BY <1>3, <1>4, <1>5, <1>6, <1>7, AgreesRetype
<1>9. Quiet(x, w)
  BY <1>4, <1>5, <1>6, <1>7, RetypeLocal
<1> QED BY <1>3, <1>4, <1>8, <1>9, FeedsQuiet, QuietTrans

LEMMA BrTableRuns ==
  ASSUME NEW v, Alive(v), NEW s, Agrees(s, v), NEW depths \in Seq(Nat), depths # << >>,
         NEW w \in BrTableRule(v, depths)
  PROVE  TopIs(s, "i32") /\ \A i \in DOMAIN depths : Feeds(v, depths[i], Front(s))
<1>1. PICK x \in Pop(v, <<"i32">>) : \E u \in BranchTarget(x, depths[1]) :
         \A i \in DOMAIN depths : /\ depths[i] < Len(u.ctrl)
                                  /\ Len(LabelTypes(FrameAt(v, depths[i]))) = Len(LabelTypes(FrameAt(v, depths[1])))
                                  /\ Tops(u, LabelTypes(FrameAt(v, depths[i])))
  BY DEF BrTableRule
<1>2. PICK u \in BranchTarget(x, depths[1]) :
         \A i \in DOMAIN depths : /\ depths[i] < Len(u.ctrl)
                                  /\ Len(LabelTypes(FrameAt(v, depths[i]))) = Len(LabelTypes(FrameAt(v, depths[1])))
                                  /\ Tops(u, LabelTypes(FrameAt(v, depths[i])))
  BY <1>1
<1>3. /\ TopIs(s, "i32") /\ Quiet(v, x) /\ Alive(x) /\ Agrees(Front(s), x)
      /\ \A d : FrameAt(x, d) = FrameAt(v, d)
  BY PopNumber, QuietFrames
<1>4. depths[1] \in Nat
  OBVIOUS
<1>5. u = x /\ Feeds(x, depths[1], Front(s)) /\ LabelTypes(FrameAt(v, depths[1])) \in Seq(ValueTypes)
  BY <1>3, <1>4, BranchFeeds
<1>6. ASSUME NEW i \in DOMAIN depths PROVE Feeds(x, depths[i], Front(s))
  <2> DEFINE types == LabelTypes(FrameAt(v, depths[i]))
             first == LabelTypes(FrameAt(v, depths[1]))
  <2>1. depths[i] < Len(x.ctrl) /\ Len(types) = Len(first) /\ Tops(x, types) /\ depths[i] \in Nat
    BY <1>2, <1>5
  <2>2. /\ x \in States /\ x.height <= Len(x.slots) /\ Known(x, x.height) /\ TopFrame(x).entry \in Nat
        /\ Len(Front(s)) = x.height /\ Front(s) \in Seq(Values) /\ x.height \in Nat
    BY <1>3, AliveFacts, AgreesShape
  <2>3. types \in Seq(ValueTypes)
    BY <1>3, <2>1, <2>2, LabelTyped
  <2>4. TopFrame(x).entry + Len(first) <= Len(Front(s))
    BY <1>3, <1>5 DEF Feeds
  <2> HIDE DEF types, first
  <2>5. TopFrame(x).entry + Len(types) <= Len(Front(s)) /\ Len(types) <= x.height
    BY <2>1, <2>2, <2>3, <2>4
  <2>6. Carries(Front(s), types)
    BY <1>3, <2>1, <2>2, <2>3, <2>5, TopsCarry
  <2>7. types = LabelTypes(FrameAt(x, depths[i]))
    BY <1>3 DEF types
  <2> QED BY <1>3, <2>1, <2>2, <2>5, <2>6, <2>7, AgreesUnder DEF Feeds
<1> QED BY <1>3, <1>6, FeedsQuiet

\* The top operand is a reference.
LEMMA TopRefRuns ==
  ASSUME NEW v, Alive(v), NEW s, Agrees(s, v), NEW w \in TopRef(v), NEW type, type = v.slots[v.height]
  PROVE  /\ w = v /\ s # << >> /\ Last(s) \in Refs /\ Last(s) = s[Len(s)]
         /\ type \in RefTypes /\ NonNull(type) = "exn" /\ Last(s) \in ValuesOf(type)
         /\ v.height >= TopFrame(v).entry + 1
         /\ Front(s) \in Seq(Values) /\ Len(Front(s)) = Len(s) - 1 /\ Len(s) \in Nat
         /\ Agrees(Front(s), Truncate(v, v.height - 1)) /\ Append(Front(s), Last(s)) = s
         /\ Quiet(v, Truncate(v, v.height - 1)) /\ Alive(Truncate(v, v.height - 1))
<1>1. w = v /\ v.height >= TopFrame(v).entry + 1
  BY AliveEnsure DEF TopRef
<1>2. IsRef(type)
  BY <1>1 DEF TopRef
<1>3. /\ s # << >> /\ Last(s) = s[Len(s)] /\ Last(s) \in ValuesOf(type) /\ type \in ValueTypes
      /\ Front(s) \in Seq(Values) /\ Len(Front(s)) = Len(s) - 1
      /\ Agrees(Front(s), Truncate(v, v.height - 1)) /\ Append(Front(s), Last(s)) = s
      /\ Quiet(v, Truncate(v, v.height - 1)) /\ Alive(Truncate(v, v.height - 1))
  BY <1>1, DropOne
<1>4. type \in RefTypes
  BY <1>2, <1>3, SlotTypes DEF IsRef
<1>5. NonNull(type) = "exn"
  BY <1>4 DEF NonNull, RefTypes
<1>6. Last(s) \in Refs
  BY <1>3, <1>4, ValuesAre
<1>7. Len(s) \in Nat
  BY AliveFacts, AgreesShape
<1> QED BY <1>1, <1>3, <1>4, <1>5, <1>6, <1>7

LEMMA RefAsNonNullRuns ==
  ASSUME NEW v, Alive(v), NEW s, Agrees(s, v), NEW w \in RefAsNonNullRule(v)
  PROVE  s # << >> /\ Last(s) \in Refs /\ Quiet(v, w) /\ (Last(s) # "null" => Agrees(s, w))
<1> DEFINE type == v.slots[v.height]
<1>1. PICK u \in TopRef(v) : w = Retype(u, <<NonNull(u.slots[u.height])>>)
  BY DEF RefAsNonNullRule
<1>2. /\ u = v /\ s # << >> /\ Last(s) \in Refs /\ Last(s) = s[Len(s)] /\ NonNull(type) = "exn"
      /\ v.height >= TopFrame(v).entry + 1
  BY TopRefRuns
<1>3. Quiet(v, w)
  BY RefAsNonNullLocal DEF Alive
<1>4. w = Retype(v, <<"exn">>)
  BY <1>1, <1>2
<1>5. v \in States /\ v.height <= Len(v.slots) /\ Len(s) = v.height /\ v.height \in Nat /\ TopFrame(v).entry \in Nat
      /\ s \in Seq(Values)
  BY AliveFacts, AgreesShape
<1>6. "exn" \in ValueTypes
  BY DEF ValueTypes, RefTypes
<1>7. ASSUME Last(s) # "null" PROVE Carries(s, <<"exn">>)
  <2>1. s[Len(s)] = "exn"
    BY <1>2, <1>7 DEF Refs
  <2>2. "exn" \in ValuesOf("exn")
    BY DEF ValuesOf
  <2>3. Len(<<"exn">>) = 1 /\ <<"exn">>[1] = "exn" /\ \A k \in 1 .. 1 : k = 1
    OBVIOUS
  <2>4. Len(s) - 1 + 1 = Len(s) /\ 1 <= Len(s)
    BY <1>2, <1>5
  <2> QED BY <2>1, <2>2, <2>3, <2>4 DEF Carries
<1>8. <<"exn">> \in Seq(ValueTypes)
  BY <1>6, OneType
<1>9. Last(s) # "null" => Agrees(s, w)
  BY <1>4, <1>5, <1>7, <1>8, AgreesRetype
<1> QED BY <1>2, <1>3, <1>9

LEMMA BrOnNullRuns ==
  ASSUME NEW v, Alive(v), NEW s, Agrees(s, v), NEW depth \in Nat, NEW w \in BrOnNullRule(v, depth)
  PROVE  /\ s # << >> /\ Last(s) \in Refs /\ Quiet(v, w) /\ Feeds(v, depth, Front(s))
         /\ Last(s) = "exn" => Agrees(s, w)
<1> DEFINE types == LabelTypes(FrameAt(v, depth))
           type == v.slots[v.height]
<1>1. PICK r \in TopRef(v) :
         /\ depth < Len(r.ctrl)
         /\ \E u \in Ensure(r, Len(LabelTypes(FrameAt(r, depth))) + 1) :
              /\ w = Push(Retype(Truncate(u, u.height - 1), LabelTypes(FrameAt(r, depth))),
                          <<NonNull(r.slots[r.height])>>)
              /\ Tops(Truncate(u, u.height - 1), LabelTypes(FrameAt(r, depth)))
  BY DEF BrOnNullRule
<1>2. /\ r = v /\ s # << >> /\ Last(s) \in Refs /\ NonNull(type) = "exn"
      /\ Front(s) \in Seq(Values) /\ Append(Front(s), Last(s)) = s
      /\ Agrees(Front(s), Truncate(v, v.height - 1))
      /\ Quiet(v, Truncate(v, v.height - 1)) /\ Alive(Truncate(v, v.height - 1))
  BY TopRefRuns
<1> DEFINE x == Truncate(v, v.height - 1)
<1>3. PICK u \in Ensure(v, Len(types) + 1) :
         w = Push(Retype(Truncate(u, u.height - 1), types), <<"exn">>) /\ Tops(Truncate(u, u.height - 1), types)
  BY <1>1, <1>2
<1>4. types \in Seq(ValueTypes) /\ Len(types) \in Nat
  BY <1>1, <1>2, AliveFacts, LabelTyped
<1> HIDE DEF types
<1>5. u = v /\ v.height >= TopFrame(v).entry + (Len(types) + 1)
  <2>1. Len(types) + 1 \in Nat
    BY <1>4
  <2> QED BY <2>1, AliveEnsure
<1>6. w = Push(Retype(x, types), <<"exn">>) /\ Tops(x, types)
  BY <1>3, <1>5
<1>7. v \in States /\ v.height \in Nat /\ TopFrame(v).entry \in Nat
  BY AliveFacts
<1>8. x.height = v.height - 1 /\ x.ctrl = v.ctrl
  <2>1. v.height - 1 \in Nat
    BY <1>4, <1>5, <1>7
  <2> QED BY <1>7, <2>1, TruncateIs
<1> HIDE DEF x
<1>9. /\ x \in States /\ x.height <= Len(x.slots) /\ Known(x, x.height) /\ x.height \in Nat
      /\ Len(Front(s)) = x.height /\ TopFrame(x) = TopFrame(v)
  BY <1>2, AliveFacts, AgreesShape, QuietTop DEF x
<1>10. TopFrame(x).entry + Len(types) <= x.height /\ Len(types) <= x.height
  BY <1>4, <1>5, <1>7, <1>8, <1>9
<1>11. Carries(Front(s), types)
  BY <1>2, <1>4, <1>6, <1>9, <1>10, TopsCarry DEF x
<1>12. types = LabelTypes(FrameAt(x, depth)) /\ depth < Len(x.ctrl)
  BY <1>1, <1>2, <1>8 DEF types, FrameAt
<1>13. Alive(x) /\ Agrees(Front(s), x) /\ Quiet(v, x)
  BY <1>2 DEF x
<1>14. Feeds(x, depth, Front(s))
  BY <1>9, <1>10, <1>11, <1>12, <1>13, AgreesUnder DEF Feeds
<1> DEFINE y == Retype(x, types)
<1>15. Quiet(x, y) /\ Agrees(Front(s), y)
  <2>1. Firm(x)
    BY <1>13 DEF Alive
  <2> QED BY <1>4, <1>9, <1>10, <1>11, <1>13, <2>1, RetypeLocal, AgreesRetype
<1> HIDE DEF y
<1>16. Alive(y) /\ "exn" \in ValueTypes /\ "exn" \in ValuesOf("exn")
  BY <1>13, <1>15, AliveQuiet DEF ValueTypes, RefTypes, ValuesOf
<1>17. Agrees(Append(Front(s), "exn"), w) /\ Quiet(y, w)
  BY <1>6, <1>15, <1>16, PushOne DEF y
<1>18. Quiet(v, w)
  BY <1>13, <1>15, <1>17, QuietTrans
<1> QED BY <1>2, <1>13, <1>14, <1>17, <1>18, FeedsQuiet

LEMMA BrOnNonNullRuns ==
  ASSUME NEW v, Alive(v), NEW s, Agrees(s, v), NEW depth \in Nat, NEW w \in BrOnNonNullRule(v, depth)
  PROVE  /\ s # << >> /\ Last(s) \in Refs /\ Quiet(v, w) /\ Agrees(Front(s), w)
         /\ Last(s) = "exn" => Feeds(v, depth, s)
<1> DEFINE types == LabelTypes(FrameAt(v, depth))
           type == v.slots[v.height]
<1>1. PICK r \in TopRef(v) :
         /\ depth < Len(r.ctrl) /\ LabelTypes(FrameAt(r, depth)) # << >>
         /\ Matches(NonNull(r.slots[r.height]), Last(LabelTypes(FrameAt(r, depth))))
         /\ \E u \in Ensure(r, Len(LabelTypes(FrameAt(r, depth)))) :
              /\ w = Retype(Truncate(u, u.height - 1), Front(LabelTypes(FrameAt(r, depth))))
              /\ Tops(Truncate(u, u.height - 1), Front(LabelTypes(FrameAt(r, depth))))
  BY DEF BrOnNonNullRule
<1>2. /\ r = v /\ s # << >> /\ Last(s) \in Refs /\ Last(s) = s[Len(s)] /\ NonNull(type) = "exn"
      /\ Front(s) \in Seq(Values) /\ Len(Front(s)) = Len(s) - 1
      /\ Agrees(Front(s), Truncate(v, v.height - 1))
      /\ Quiet(v, Truncate(v, v.height - 1)) /\ Alive(Truncate(v, v.height - 1))
  BY TopRefRuns
<1> DEFINE x == Truncate(v, v.height - 1)
<1>3. PICK u \in Ensure(v, Len(types)) :
         w = Retype(Truncate(u, u.height - 1), Front(types)) /\ Tops(Truncate(u, u.height - 1), Front(types))
  BY <1>1, <1>2
<1>4. types \in Seq(ValueTypes) /\ types # << >> /\ Matches("exn", Last(types)) /\ depth < Len(v.ctrl)
  BY <1>1, <1>2, AliveFacts, LabelTyped
<1> HIDE DEF types
<1> DEFINE front == Front(types)
           n == Len(types)
<1>5. /\ front \in Seq(ValueTypes) /\ Len(front) = n - 1 /\ Last(types) = types[n] /\ Last(types) \in ValueTypes
      /\ (\A k \in 1 .. n - 1 : front[k] = types[k]) /\ n \in Nat /\ n >= 1
  BY <1>4, FrontTypes
<1> HIDE DEF front, n
<1>6. u = v /\ v.height >= TopFrame(v).entry + n
  BY <1>3, <1>5, AliveEnsure DEF n
<1>7. w = Retype(x, front) /\ Tops(x, front)
  BY <1>3, <1>6 DEF front
<1>8. v \in States /\ v.height \in Nat /\ TopFrame(v).entry \in Nat /\ s \in Seq(Values) /\ Len(s) = v.height
  BY AliveFacts, AgreesShape
<1>9. x.height = v.height - 1
  <2>1. v.height - 1 \in Nat
    BY <1>5, <1>6, <1>8
  <2> QED BY <1>8, <2>1, TruncateIs
<1>10. Alive(x) /\ Agrees(Front(s), x) /\ Quiet(v, x)
  BY <1>2
<1> HIDE DEF x
<1>11. /\ x \in States /\ x.height <= Len(x.slots) /\ Known(x, x.height) /\ x.height \in Nat
       /\ Len(Front(s)) = x.height /\ TopFrame(x) = TopFrame(v) /\ Firm(x)
  BY <1>10, AliveFacts, AgreesShape, QuietTop DEF Alive
<1>12. TopFrame(x).entry + Len(front) <= x.height /\ Len(front) <= x.height
  BY <1>5, <1>6, <1>8, <1>9, <1>11, SMTT(60)
<1>13. Carries(Front(s), front)
  BY <1>5, <1>7, <1>10, <1>11, <1>12, TopsCarry
<1>14. Quiet(x, w) /\ Agrees(Front(s), w)
  BY <1>5, <1>7, <1>10, <1>11, <1>12, <1>13, RetypeLocal, AgreesRetype
<1>15. ASSUME Last(s) = "exn" PROVE Feeds(v, depth, s)
  <2>1. "exn" \in ValuesOf(types[n])
    <3>1. "exn" \in ValueTypes /\ "exn" \in ValuesOf("exn")
      BY DEF ValueTypes, RefTypes, ValuesOf
    <3> QED BY <1>4, <1>5, <3>1, MatchValues
  <2>2. \A k \in 1 .. Len(s) - 1 : Front(s)[k] = s[k]
    BY <1>2, <1>8, FrontIs
  <2>3. ASSUME NEW k \in 1 .. n PROVE s[Len(s) - n + k] \in ValuesOf(types[k])
    <3>1. CASE k = n
      <4>1. Len(s) - n + k = Len(s)
        BY <1>5, <1>8, <3>1
      <4> QED BY <1>2, <1>15, <2>1, <3>1, <4>1
    <3>2. CASE k # n
      <4> DEFINE j == Len(s) - n + k
      <4>0. Len(s) \in Nat /\ n <= Len(s) /\ Len(Front(s)) = Len(s) - 1 /\ Len(front) = n - 1
        BY <1>2, <1>5, <1>6, <1>8
      <4>1. k \in 1 .. n - 1 /\ k \in 1 .. Len(front) /\ j \in 1 .. Len(s) - 1
            /\ Len(Front(s)) - Len(front) + k = j
        BY <1>5, <3>2, <4>0
      <4>2. Front(s)[Len(Front(s)) - Len(front) + k] \in ValuesOf(front[k])
        BY <1>13, <4>1 DEF Carries
      <4> HIDE DEF j
      <4>3. Front(s)[j] \in ValuesOf(types[k])
        BY <1>5, <4>1, <4>2
      <4> QED BY <2>2, <4>1, <4>3 DEF j
    <3> QED BY <3>1, <3>2
  <2>4. Carries(s, types)
    BY <1>5, <1>6, <1>8, <2>3 DEF Carries, n
  <2>5. TopFrame(v).entry + Len(types) <= Len(s)
    BY <1>5, <1>6, <1>8 DEF n
  <2> QED BY <1>4, <2>4, <2>5, AgreesUnder DEF Feeds, types
<1> QED BY <1>2, <1>10, <1>14, <1>15, QuietTrans

LEMMA SelectRuns ==
  ASSUME NEW v, Alive(v), NEW s, Agrees(s, v), NEW w \in SelectRule(v)
  PROVE  /\ TopIs(s, "i32") /\ Len(s) >= 3 /\ s[Len(s) - 1] = s[Len(s) - 2] /\ Quiet(v, w)
         /\ TopFrame(v).entry + 3 <= Len(s)
         /\ \A keep \in {1, 2} : Agrees(Append(Below(s, 3), s[Len(s) - keep]), w)
<1> DEFINE n == v.height
           a == v.slots[n - 2]
           c == v.slots[n - 1]
<1>1. PICK u \in Ensure(v, 3) :
        LET x == Truncate(u, u.height - 1)
            l == x.slots[x.height - 1]
            r == x.slots[x.height]
        IN  /\ Tops(u, <<"i32">>)
            /\ l = Unknown \/ r = Unknown \/ l = r
            /\ {l, r} \cap RefTypes = {}
            /\ w = Push(Truncate(x, x.height - 2), <<IF l = Unknown THEN r ELSE l>>)
  BY DEF SelectRule
<1>2. u = v /\ n >= TopFrame(v).entry + 3
  BY AliveEnsure
<1>3. v \in States /\ n \in Nat /\ TopFrame(v).entry \in Nat /\ n <= Len(v.slots) /\ Ready(v)
      /\ Known(v, n) /\ (\A k \in 1 .. n : v.slots[k] \in ValueTypes)
      /\ s \in Seq(Values) /\ Len(s) = n /\ \A k \in 1 .. n : s[k] \in ValuesOf(v.slots[k])
  BY AliveFacts, AgreesShape
<1>4. n - 1 \in Nat /\ n - 3 \in Nat /\ n - 3 >= TopFrame(v).entry /\ n - 3 <= n
      /\ n - 1 \in 1 .. n /\ n - 2 \in 1 .. n /\ n \in 1 .. n /\ n - 1 - 1 = n - 2 /\ n - 1 - 2 = n - 3
  BY <1>2, <1>3, SMTT(60)
<1> DEFINE x == Truncate(v, n - 1)
           y == Truncate(v, n - 3)
<1>5. x.height = n - 1 /\ x.slots = v.slots
  BY <1>3, <1>4, TruncateIs
<1>6. Truncate(x, n - 3) = y
  BY DEF Truncate
<1>7. /\ Tops(v, <<"i32">>) /\ (a = Unknown \/ c = Unknown \/ a = c) /\ {a, c} \cap RefTypes = {}
      /\ w = Push(y, <<IF a = Unknown THEN c ELSE a>>)
  <2>1. x.height - 1 = n - 2 /\ x.height - 2 = n - 3
    BY <1>4, <1>5, SMTT(60)
  <2>2. /\ Tops(v, <<"i32">>)
        /\ x.slots[x.height - 1] = Unknown \/ x.slots[x.height] = Unknown \/ x.slots[x.height - 1] = x.slots[x.height]
        /\ {x.slots[x.height - 1], x.slots[x.height]} \cap RefTypes = {}
        /\ w = Push(Truncate(x, x.height - 2),
                    <<IF x.slots[x.height - 1] = Unknown THEN x.slots[x.height] ELSE x.slots[x.height - 1]>>)
    BY <1>1, <1>2
  <2> HIDE DEF x, y, n
  <2> QED BY <1>5, <1>6, <2>1, <2>2
<1>8. a \in {"i32", "i64"} /\ c = a /\ a # Unknown
  <2>1. a \in ValueTypes /\ c \in ValueTypes
    BY <1>3, <1>4
  <2> HIDE DEF a, c
  <2> QED BY <1>7, <2>1, SlotTypes DEF ValueTypes
<1>9. s[n - 1] = a /\ s[n - 2] = a
  <2>1. s[n - 1] \in ValuesOf(c) /\ s[n - 2] \in ValuesOf(a)
    BY <1>3, <1>4
  <2> HIDE DEF a, c
  <2> QED BY <1>8, <2>1 DEF ValuesOf
<1>10. w = Push(y, <<a>>)
  BY <1>7, <1>8
<1>11. TopIs(s, "i32")
  <2>1. Carries(s, <<"i32">>)
    <3>1. Len(<<"i32">>) = 1 /\ <<"i32">> \in Seq(ValueTypes) /\ 1 <= v.height
      BY <1>3, <1>4, I32Type
    <3> QED BY <1>3, <1>7, <3>1, TopsCarry
  <2>2. s[Len(s) - 1 + 1] \in ValuesOf(<<"i32">>[1])
    BY <2>1, I32Type DEF Carries
  <2>3. s[Len(s)] = "i32"
    BY <1>3, <2>2 DEF ValuesOf
  <2>4. s # << >> /\ Last(s) = s[Len(s)]
    <3>1. s # << >>
      BY <1>3, <1>4, SMTT(60)
    <3> QED BY <1>3, <3>1, FrontIs
  <2> QED BY <2>3, <2>4 DEF TopIs
<1>12. Quiet(v, y) /\ Alive(y)
  BY <1>3, <1>4, QuietTruncate, AliveQuiet
<1>13. Agrees(Below(s, 3), y)
  <2> DEFINE z == Below(s, 3)
             m == n - 3
  <2>1. z \in Seq(Values) /\ Len(z) = Len(s) - 3 /\ \A k \in 1 .. Len(s) - 3 : z[k] = s[k]
    <3>1. 3 \in Nat /\ 3 <= Len(s)
      BY <1>3, <1>4, SMTT(60)
    <3> QED BY <1>3, <3>1, SplitIs
  <2> HIDE DEF z
  <2>2. m \in Nat /\ m <= n /\ Len(z) = m /\ \A k \in 1 .. m : z[k] = s[k]
    BY <1>3, <1>4, <2>1
  <2> HIDE DEF m
  <2>3. Agrees(z, Truncate(v, m))
    BY <1>3, <2>1, <2>2, AgreesTruncate
  <2> QED BY <2>3 DEF m, z
<1> HIDE DEF a, c, y, x
<1>14. a \in ValueTypes /\ a \in ValuesOf(a)
  BY <1>8 DEF ValueTypes, ValuesOf
<1>15. Agrees(Append(Below(s, 3), a), w) /\ Quiet(y, w)
  BY <1>10, <1>12, <1>13, <1>14, PushOne
<1>16. \A keep \in {1, 2} : s[Len(s) - keep] = a
  BY <1>3, <1>9
<1> QED BY <1>2, <1>3, <1>4, <1>9, <1>11, <1>12, <1>15, <1>16, QuietTrans, SMTT(60)

LEMMA LocalGetRuns ==
  ASSUME NEW v, Alive(v), NEW s, Agrees(s, v), NEW i, NEW w \in LocalGetRule(v, i),
         NEW ls, LocalsFit(ls, v.inits)
  PROVE  i \in DOMAIN ls /\ ls[i] \in Values /\ Quiet(v, w) /\ Agrees(Append(s, ls[i]), w)
<1>1. i \in v.inits /\ w = Push(v, <<AllLocals[i]>>)
  BY DEF LocalGetRule
<1>2. i \in DOMAIN AllLocals
  BY <1>1, AliveFacts, StateFields
<1>3. AllLocals[i] \in ValueTypes
  BY <1>2, Tables
<1>4. ls[i] \in ValuesOf(AllLocals[i]) /\ i \in DOMAIN ls
  BY <1>1, <1>2 DEF LocalsFit
<1>5. ls[i] \in Values
  BY <1>3, <1>4, ValuesAre
<1> QED BY <1>1, <1>3, <1>4, <1>5, PushOne

\* What local.set and local.tee do to a state.
LEMMA LocalSetRuns ==
  ASSUME NEW v, Alive(v), NEW s, Agrees(s, v), NEW i, NEW keep \in BOOLEAN, NEW w \in LocalSetRule(v, i, keep),
         NEW ls, LocalsFit(ls, v.inits)
  PROVE  /\ i \in DOMAIN ls /\ s # << >> /\ (Last(s) = ls[i] \/ {Last(s), ls[i]} \subseteq Refs)
         /\ w.ctrl = v.ctrl /\ IsLive(w)
         /\ keep => Agrees(s, w)
         /\ ~keep => Agrees(Front(s), w)
         /\ LocalsFit([ls EXCEPT ![i] = Last(s)], w.inits)
<1> DEFINE type == AllLocals[i]
           t == <<type>>
           val2 == Last(s)
           ls2 == [ls EXCEPT ![i] = val2]
<1>1. i \in DOMAIN AllLocals /\ type \in ValueTypes
  <2>1. i \in DOMAIN AllLocals
    BY DEF LocalSetRule
  <2> QED BY <2>1, Tables
<1>2. PICK u \in WithTops(v, t) :
         w = [(IF keep THEN Retype(u, t) ELSE Truncate(u, u.height - 1)) EXCEPT !.inits = @ \cup {i}]
  BY <1>1 DEF LocalSetRule
<1>3. t \in Seq(ValueTypes) /\ Len(t) = 1 /\ t[1] = type
  BY <1>1, OneType
<1>4. u = v /\ TopFrame(v).entry + 1 <= Len(s) /\ Carries(s, t)
  <2> HIDE DEF t
  <2>1. u = v /\ TopFrame(v).entry + Len(t) <= Len(s) /\ Carries(s, t)
    BY <1>2, <1>3, AliveTops
  <2> QED BY <2>1, <1>3
<1>5. v \in States /\ v.height \in Nat /\ v.height <= Len(v.slots) /\ TopFrame(v).entry \in Nat /\ Firm(v)
      /\ Len(s) = v.height /\ s \in Seq(Values) /\ v.ctrl # << >> /\ IsLive(v)
  BY AliveFacts, AgreesShape DEF Alive
<1>6. /\ s # << >> /\ Last(s) = s[Len(s)]
      /\ Agrees(Front(s), Truncate(v, v.height - 1)) /\ Quiet(v, Truncate(v, v.height - 1))
  <2>1. v.height >= TopFrame(v).entry + 1
    BY <1>4, <1>5
  <2> QED BY <2>1, DropOne
<1>7. val2 \in ValuesOf(type)
  <2>1. s[Len(s) - 1 + 1] \in ValuesOf(t[1])
    BY <1>3, <1>4 DEF Carries
  <2>2. Len(s) - 1 + 1 = Len(s)
    BY <1>5
  <2> HIDE DEF t
  <2> QED BY <1>3, <1>6, <2>1, <2>2
<1>8. Agrees(s, Retype(v, t)) /\ Quiet(v, Retype(v, t))
  <2>1. TopFrame(v).entry + Len(t) <= v.height
    BY <1>3, <1>4, <1>5
  <2> HIDE DEF t
  <2> QED BY <1>3, <1>4, <1>5, <2>1, AgreesRetype, RetypeLocal
<1> DEFINE x == IF keep THEN Retype(v, t) ELSE Truncate(v, v.height - 1)
<1>9. Quiet(v, x) /\ (keep => Agrees(s, x)) /\ (~keep => Agrees(Front(s), x))
  BY <1>6, <1>8
<1>10. w = [x EXCEPT !.inits = @ \cup {i}]
  BY <1>2, <1>4
<1> HIDE DEF x
<1>11. x \in States /\ x.ctrl = v.ctrl /\ x.inits = v.inits
  BY <1>9, ReadyFacts DEF Quiet
<1>12. w.slots = x.slots /\ w.height = x.height /\ w.ctrl = v.ctrl /\ w.inits = v.inits \cup {i}
  BY <1>10, <1>11 DEF States
<1>13. (keep => Agrees(s, w)) /\ (~keep => Agrees(Front(s), w))
  BY <1>9, <1>12 DEF Agrees
<1>14. IsLive(w)
  BY <1>5, <1>12 DEF IsLive, TopFrame
<1>15. DOMAIN ls = DOMAIN AllLocals /\ (IF type \in RefTypes THEN ls[i] \in Refs ELSE ls[i] = type)
  BY <1>1 DEF LocalsFit
<1>16. IF type \in RefTypes THEN val2 \in Refs ELSE val2 = type
  <2>1. type \in ValueTypes /\ val2 \in ValuesOf(type)
    BY <1>1, <1>7
  <2> HIDE DEF type, val2
  <2>2. type \in RefTypes \/ type \in {"i32", "i64"}
    BY <2>1 DEF ValueTypes
  <2> QED BY <2>1, <2>2, ValuesAre
<1>17. val2 = ls[i] \/ {val2, ls[i]} \subseteq Refs
  BY <1>15, <1>16
<1> HIDE DEF val2, type
<1>18. LocalsFit(ls2, w.inits)
  <2>1. DOMAIN ls2 = DOMAIN AllLocals /\ ls2[i] = val2 /\ \A j \in DOMAIN ls : j # i => ls2[j] = ls[j]
    BY <1>1, <1>15
  <2> HIDE DEF ls2
  <2>2. ASSUME NEW j \in DOMAIN ls2 PROVE IF AllLocals[j] \in RefTypes THEN ls2[j] \in Refs ELSE ls2[j] = AllLocals[j]
    BY <1>15, <1>16, <2>1 DEF LocalsFit, type
  <2>3. ASSUME NEW j \in w.inits PROVE ls2[j] \in ValuesOf(AllLocals[j])
    <3>1. CASE j = i
      BY <1>7, <2>1, <3>1 DEF type
    <3>2. CASE j # i
      <4>1. j \in v.inits
        BY <1>12, <3>2
      <4>2. j \in DOMAIN ls
        BY <1>5, <1>15, <4>1, StateFields
      <4> QED BY <2>1, <3>2, <4>1, <4>2 DEF LocalsFit
    <3> QED BY <3>1, <3>2
  <2> QED BY <2>1, <2>2, <2>3 DEF LocalsFit
<1> QED BY <1>1, <1>6, <1>12, <1>13, <1>14, <1>15, <1>17, <1>18 DEF val2

\* Operands that are taken off leave those under the top frame as they were.
LEMMA TakesTops ==
  ASSUME NEW v, Alive(v), NEW s, Agrees(s, v), NEW types \in Seq(ValueTypes), NEW w \in WithTops(v, types)
  PROVE  /\ HasTops(s, types) /\ Top(s, Len(types)) \in Tuples(types)
         /\ Below(s, Len(types)) \in Seq(Values)
         /\ TopFrame(v).entry <= Len(Below(s, Len(types)))
         /\ \A k \in 1 .. TopFrame(v).entry : Below(s, Len(types))[k] \in ValuesOf(v.slots[k])
<1>1. /\ Len(types) \in Nat /\ TopFrame(v).entry + Len(types) <= Len(s)
      /\ Carries(s, types) /\ HasTops(s, types)
  BY AliveTops
<1>2. s \in Seq(Values) /\ \A k \in 1 .. TopFrame(v).entry : s[k] \in ValuesOf(v.slots[k])
  BY AgreesUnder
<1>3. TopFrame(v).entry \in Nat /\ Len(s) \in Nat
  BY <1>2, AliveFacts
<1> DEFINE x == Below(s, Len(types))
<1>4. x \in Seq(Values) /\ Len(x) = Len(s) - Len(types) /\ \A k \in 1 .. Len(s) - Len(types) : x[k] = s[k]
  <2>1. Len(types) <= Len(s)
    BY <1>1, <1>3
  <2> QED BY <1>1, <1>2, <2>1, SplitIs
<1> HIDE DEF x
<1>5. TopFrame(v).entry <= Len(x) /\ \A k \in 1 .. TopFrame(v).entry : x[k] = s[k]
  BY <1>1, <1>3, <1>4
<1> QED BY <1>1, <1>2, <1>4, <1>5, CarriesHas DEF x

LEMMA CallRuns ==
  ASSUME NEW v, Alive(v), NEW s, Agrees(s, v), NEW f \in DOMAIN Funcs, NEW w \in CallRule(v, Funcs[f]),
         NEW results \in Tuples(Funcs[f].results)
  PROVE  Quiet(v, w) /\ Agrees(Below(s, Len(Funcs[f].params)) \o results, w)
<1> DEFINE params == Funcs[f].params
           types == Funcs[f].results
<1>1. params \in Seq(ValueTypes) /\ types \in Seq(ValueTypes)
  BY Tables
<1>2. PICK u \in Pop(v, params) : w = Push(u, types)
  BY DEF CallRule
<1> HIDE DEF params, types
<1>3. Quiet(v, u) /\ Alive(u) /\ Agrees(Below(s, Len(params)), u)
  BY <1>1, <1>2, AlivePop
<1>4. u \in States /\ u.height <= Len(u.slots) /\ Ready(u)
  BY <1>3, AliveFacts
<1>5. Agrees(Below(s, Len(params)) \o results, w) /\ Quiet(u, w)
  BY <1>1, <1>2, <1>3, <1>4, AgreesPush, PushTypes DEF types
<1> QED BY <1>3, <1>5, QuietTrans DEF params

LEMMA OpenFrameRuns ==
  ASSUME NEW v, Alive(v), NEW s, Agrees(s, v), NEW ins, ins.params \in Seq(ValueTypes),
         NEW w \in OpenFrame(v, ins)
  PROVE  /\ Len(ins.params) <= Len(s) /\ Agrees(s, w) /\ IsLive(w) /\ w.inits = v.inits
         /\ TopFrame(w).entry = Len(s) - Len(ins.params) /\ TopFrame(v).entry + Len(ins.params) <= Len(s)
<1> DEFINE params == ins.params
           x == Retype(v, params)
           f(u) == Frame(ins.op, u.height - Len(params), params, ins.results, u.inits,
                         Retype(u, params).ctrl # << >> /\ TopFrame(u).dead)
<1>1. PICK u \in WithTops(v, params) : w = [Retype(u, params) EXCEPT !.ctrl = Append(@, f(u))]
  BY DEF OpenFrame
<1>2. u = v /\ Len(params) \in Nat /\ TopFrame(v).entry + Len(params) <= Len(s) /\ Carries(s, params)
  BY AliveTops
<1>3. /\ v \in States /\ v.height \in Nat /\ v.height <= Len(v.slots) /\ TopFrame(v).entry \in Nat
      /\ Len(s) = v.height /\ Firm(v) /\ IsLive(v)
  BY AliveFacts, AgreesShape DEF Alive
<1>4. Len(params) <= v.height /\ TopFrame(v).entry + Len(params) <= v.height
  BY <1>2, <1>3
<1>5. Agrees(s, x) /\ Quiet(v, x)
  BY <1>2, <1>3, <1>4, AgreesRetype, RetypeLocal
<1>6. w = [x EXCEPT !.ctrl = Append(@, f(v))]
  BY <1>1, <1>2
<1>7. x \in States /\ x.ctrl = v.ctrl /\ x.inits = v.inits /\ v.ctrl # << >>
  BY <1>3, <1>5, ReadyFacts DEF Quiet, IsLive
<1> HIDE DEF x
<1> DEFINE g == f(v)
<1>8. w.slots = x.slots /\ w.height = x.height /\ w.inits = v.inits /\ w.ctrl = Append(v.ctrl, g)
  BY <1>6, <1>7 DEF States
<1>9. g.entry = v.height - Len(params) /\ ~g.dead
  <2>1. g.entry = v.height - Len(params)
    BY DEF Frame
  <2>2. g.dead = (Retype(v, params).ctrl # << >> /\ TopFrame(v).dead)
    BY DEF Frame
  <2>3. ~TopFrame(v).dead
    BY <1>3 DEF IsLive
  <2> HIDE DEF f
  <2>4. ~(Retype(v, params).ctrl # << >> /\ TopFrame(v).dead)
    BY <2>3
  <2>5. ~g.dead
    BY <2>2, <2>4, Zenon
  <2> QED BY <2>1, <2>5
<1> HIDE DEF g
<1>10. TopFrame(w) = g /\ w.ctrl # << >>
  <2>1. v.ctrl \in Seq(Frames)
    BY <1>3, StateFields
  <2>2. Len(Append(v.ctrl, g)) = Len(v.ctrl) + 1 /\ Append(v.ctrl, g)[Len(v.ctrl) + 1] = g /\ Len(v.ctrl) \in Nat
    BY <2>1
  <2> QED BY <1>8, <2>2 DEF TopFrame
<1>11. IsLive(w)
  BY <1>9, <1>10 DEF IsLive
<1>12. Agrees(s, w)
  BY <1>5, <1>8 DEF Agrees
<1> QED BY <1>2, <1>3, <1>4, <1>8, <1>9, <1>10, <1>11, <1>12

LEMMA IfRuns ==
  ASSUME NEW v, Alive(v), NEW s, Agrees(s, v), NEW ins, ins.params \in Seq(ValueTypes),
         NEW w \in IfRule(v, ins)
  PROVE  /\ TopIs(s, "i32") /\ Front(s) \in Seq(Values)
         /\ Len(ins.params) <= Len(Front(s)) /\ Agrees(Front(s), w) /\ IsLive(w) /\ w.inits = v.inits
         /\ TopFrame(w).entry = Len(Front(s)) - Len(ins.params)
         /\ TopFrame(v).entry + Len(ins.params) <= Len(Front(s))
<1>1. PICK u \in Ensure(v, 1 + Len(ins.params)) : Tops(u, <<"i32">>) /\ w \in OpenFrame(Truncate(u, u.height - 1), ins)
  BY DEF IfRule
<1>2. Len(ins.params) \in Nat /\ 1 + Len(ins.params) \in Nat
  OBVIOUS
<1>3. u = v /\ v.height >= TopFrame(v).entry + (1 + Len(ins.params))
  BY <1>2, AliveEnsure
<1>4. v \in States /\ v.height \in Nat /\ v.height <= Len(v.slots) /\ TopFrame(v).entry \in Nat /\ Known(v, v.height)
      /\ Len(s) = v.height /\ s \in Seq(Values)
  BY AliveFacts, AgreesShape
<1>5. v.height >= TopFrame(v).entry + 1 /\ 1 <= v.height
  BY <1>2, <1>3, <1>4
<1>6. /\ s # << >> /\ Front(s) \in Seq(Values) /\ Last(s) = s[Len(s)]
      /\ Agrees(Front(s), Truncate(v, v.height - 1)) /\ Quiet(v, Truncate(v, v.height - 1))
      /\ Alive(Truncate(v, v.height - 1))
  BY <1>5, DropOne
<1>7. TopIs(s, "i32")
  <2>1. Carries(s, <<"i32">>)
    <3>1. Len(<<"i32">>) = 1 /\ <<"i32">> \in Seq(ValueTypes) /\ 1 <= v.height
      BY <1>5, I32Type
    <3> QED BY <1>1, <1>3, <1>4, <3>1, TopsCarry
  <2>2. s[Len(s) - 1 + 1] \in ValuesOf(<<"i32">>[1])
    BY <2>1, I32Type DEF Carries
  <2>3. s[Len(s)] = "i32"
    BY <1>4, <2>2 DEF ValuesOf
  <2> QED BY <1>6, <2>3 DEF TopIs
<1> DEFINE x == Truncate(v, v.height - 1)
<1>8. w \in OpenFrame(x, ins)
  BY <1>1, <1>3
<1>9. Alive(x) /\ Agrees(Front(s), x) /\ x.inits = v.inits /\ TopFrame(x) = TopFrame(v)
  BY <1>6, AliveQuiet
<1> HIDE DEF x
<1>10. /\ Len(ins.params) <= Len(Front(s)) /\ Agrees(Front(s), w) /\ IsLive(w) /\ w.inits = x.inits
       /\ TopFrame(w).entry = Len(Front(s)) - Len(ins.params)
       /\ TopFrame(x).entry + Len(ins.params) <= Len(Front(s))
  BY <1>8, <1>9, OpenFrameRuns
<1> QED BY <1>6, <1>7, <1>9, <1>10

LEMMA MoreLabels ==
  ASSUME NEW T, NEW lbs \in Seq(T), NEW l, NEW z, z = Append(lbs, l)
  PROVE  /\ \E U : z \in Seq(U)
         /\ Len(z) = Len(lbs) + 1 /\ DOMAIN z = 1 .. Len(lbs) + 1 /\ Len(lbs) \in Nat
         /\ z[Len(lbs) + 1] = l /\ \A i \in 1 .. Len(lbs) : z[i] = lbs[i]
<1>1. lbs \in Seq(T \cup {l}) /\ l \in T \cup {l}
  OBVIOUS
<1>2. z \in Seq(T \cup {l})
  BY <1>1
<1> QED BY <1>2

\* Control goes on after an opener, in the frame it opens.
LEMMA OpensOn ==
  ASSUME NEW b, NEW h, NEW c, NEW p, NEW ls, NEW lbs, Framed(b, h, c, p, ls, lbs), Resolved(b, h, c),
         b[p].op \in Openers, NEW w, w = h[p + 1], IsLive(w), w.inits = h[p].inits,
         NEW s \in Seq(Values), TopFrame(w).entry = Len(s) - Len(b[p].params)
  PROVE  Framed(b, h, c, p + 1, ls, Append(lbs, RuntimeLabel(s, c[p])))
<1> DEFINE n == Len(lbs)
           l == RuntimeLabel(s, c[p])
           z == Append(lbs, l)
           f == TopFrame(w)
<1>1. /\ Whole(b, h) /\ Len(b) \in Nat /\ p \in 1 .. Len(b) /\ p + 1 \in 1 .. Len(b) + 1 /\ DOMAIN b = 1 .. Len(b)
      /\ LocalsFit(ls, h[p].inits) /\ n = Len(h[p].ctrl) /\ n \in Nat \ {0} /\ DOMAIN lbs = 1 .. n
      /\ DOMAIN h[p].ctrl = 1 .. n /\ \A i \in DOMAIN lbs : LabelFits(b, h, c, p, i, lbs[i])
  BY FramedFacts
<1>2. p # Len(b)
  <2>1. b[Len(b)].op = "end" /\ "end" \notin Openers
    BY <1>1 DEF Whole, Openers
  <2> QED BY <2>1
<1>3. p + 1 \in 1 .. Len(b)
  <2>1. p \in 1 .. Len(b) /\ Len(b) \in Nat
    BY <1>1
  <2> QED BY ONLY <1>2, <2>1
<1>4. Len(w.ctrl) = n + 1 /\ OpensAt(b, h, p + 1, n + 1, p)
  BY <1>1, OpenerOpened
<1>5. Opens(h[p], w, b[p])
  BY <1>1, WholeSteps, SMTT(60) DEF Steps
<1>6. f = w.ctrl[n + 1] /\ f.kind = b[p].op /\ f.params = b[p].params /\ f.results = b[p].results
  BY <1>4, <1>5 DEF TopFrame, Opens, FrameOf
<1>7. ResolvedAt(b, h, p, c[p])
  BY <1>1 DEF Resolved
<1>8. LabelOK(b, h, p, c[p].label)
  BY <1>7 DEF ResolvedAt
<1>9. l = [height |-> f.entry, results |-> Len(f.results), branch |-> Len(LabelTypes(f)),
           isLoop |-> f.kind = "loop", catches |-> c[p].catches]
  <2> DEFINE k == c[p].label
  <2>1. k.params = Len(b[p].params) /\ k.results = Len(b[p].results)
        /\ k.branch = Len(IF b[p].op = "loop" THEN b[p].params ELSE b[p].results)
    BY <1>8 DEF LabelOK
  <2>2. k.isLoop = (b[p].op = "loop")
    BY <1>8, Zenon DEF LabelOK
  <2>3. LabelTypes(f) = IF b[p].op = "loop" THEN b[p].params ELSE b[p].results
    BY <1>6 DEF LabelTypes
  <2>4. l = [height |-> Len(s) - k.params, results |-> k.results, branch |-> k.branch,
             isLoop |-> k.isLoop, catches |-> c[p].catches]
    BY DEF RuntimeLabel
  <2>5. Len(s) - k.params = f.entry /\ k.results = Len(f.results) /\ k.branch = Len(LabelTypes(f))
    BY <1>6, <2>1, <2>3
  <2>6. k.isLoop = (f.kind = "loop")
    BY <1>6, <2>2, Zenon
  <2> HIDE DEF k, l, f
  <2> QED BY <2>4, <2>5, <2>6, Zenon
<1> HIDE DEF l
<1>10. /\ \E U : z \in Seq(U)
       /\ Len(z) = n + 1 /\ DOMAIN z = 1 .. n + 1
       /\ z[n + 1] = l /\ \A i \in 1 .. n : z[i] = lbs[i]
  <2>1. PICK T : lbs \in Seq(T)
    BY DEF Framed
  <2>2. z = Append(lbs, l)
    OBVIOUS
  <2> HIDE DEF z
  <2>3. /\ \E U : z \in Seq(U)
        /\ Len(z) = Len(lbs) + 1 /\ DOMAIN z = 1 .. Len(lbs) + 1
        /\ z[Len(lbs) + 1] = l /\ \A i \in 1 .. Len(lbs) : z[i] = lbs[i]
    BY <2>1, <2>2, MoreLabels, SMTT(60)
  <2> QED BY <2>3
<1> HIDE DEF z
<1>11. ASSUME NEW i \in DOMAIN z PROVE LabelFits(b, h, c, p + 1, i, z[i])
  <2>1. CASE i = n + 1
    <3>1. i # 1 /\ p \in 1 .. (p + 1) - 1
      BY <1>1, <2>1
    <3>2. OpensAt(b, h, p + 1, i, p) /\ h[p + 1].ctrl[i] = f /\ z[i] = l
      BY <1>4, <1>6, <1>10, <2>1
    <3> HIDE DEF f
    <3> QED BY <1>9, <3>1, <3>2 DEF LabelFits
  <2>2. CASE i # n + 1
    <3>1. i \in 1 .. n /\ i <= Len(h[p + 1].ctrl)
      BY <1>1, <1>4, <1>10, <2>2
    <3>2. LabelFits(b, h, c, p, i, z[i]) /\ i \in DOMAIN h[p].ctrl
      BY <1>1, <1>10, <3>1
    <3> QED BY <1>1, <3>1, <3>2, LabelStays
  <2> QED BY <2>1, <2>2
<1>12. LocalsFit(ls, w.inits)
  BY <1>1
<1>13. Framed(b, h, c, p + 1, ls, z)
  BY <1>1, <1>3, <1>4, <1>10, <1>11, <1>12 DEF Framed
<1> QED BY <1>13 DEF z, l

-----------------------------------------------------------------------------
(* Where control goes *)

\* To the next instruction, unless a frame is opened or closed.
LEMMA GoesNext ==
  ASSUME NEW b, NEW h, NEW c, NEW p, NEW ls, NEW lbs, Framed(b, h, c, p, ls, lbs),
         b[p].op \notin Openers \cup {"end"}, NEW w, w = h[p + 1], IsLive(w),
         NEW ls2, LocalsFit(ls2, w.inits)
  PROVE  Framed(b, h, c, p + 1, ls2, lbs)
<1>1. /\ Whole(b, h) /\ Len(b) \in Nat /\ p \in 1 .. Len(b) /\ p + 1 \in 1 .. Len(b) + 1
      /\ Len(lbs) = Len(h[p].ctrl) /\ Len(lbs) \in Nat \ {0} /\ DOMAIN lbs = 1 .. Len(lbs)
      /\ DOMAIN h[p].ctrl = 1 .. Len(lbs) /\ \A i \in DOMAIN lbs : LabelFits(b, h, c, p, i, lbs[i])
  BY FramedFacts
<1>2. p # Len(b)
  BY <1>1 DEF Whole
<1>3. p + 1 \in 1 .. Len(b)
  BY <1>1, <1>2
<1>4. Len(w.ctrl) = Len(lbs)
  BY <1>1, WholeSteps DEF Steps
<1>5. ASSUME NEW i \in DOMAIN lbs PROVE LabelFits(b, h, c, p + 1, i, lbs[i])
  <2>1. i <= Len(h[p + 1].ctrl) /\ i \in DOMAIN h[p].ctrl
    BY <1>1, <1>4
  <2> QED BY <1>1, <2>1, LabelStays
<1> QED BY <1>1, <1>3, <1>4, <1>5 DEF Framed

LEMMA QuietGoesNext ==
  ASSUME NEW b, NEW h, NEW c, NEW p, NEW ls, NEW lbs, Framed(b, h, c, p, ls, lbs),
         b[p].op \notin Openers \cup {"end"}, Quiet(h[p], h[p + 1]), NEW s, Agrees(s, h[p + 1])
  PROVE  Fits(b, h, c, p + 1, s, ls, lbs)
<1>1. IsLive(h[p]) /\ LocalsFit(ls, h[p].inits)
  BY FramedFacts
<1>2. IsLive(h[p + 1]) /\ h[p + 1].inits = h[p].inits
  BY <1>1, QuietTop DEF Quiet
<1>3. Framed(b, h, c, p + 1, ls, lbs)
  BY <1>1, <1>2, GoesNext
<1> QED BY <1>3, InnerFits

\* To the label of the frame at depth.
LEMMA BranchGoes ==
  ASSUME NEW b, NEW h, NEW c, NEW p, NEW ls, NEW lbs, Framed(b, h, c, p, ls, lbs),
         NEW depth \in Nat, NEW t, TargetOK(b, h, p, depth, t),
         NEW s, Feeds(h[p], depth, s), NEW i, i = Len(lbs) - t.depth
  PROVE  /\ i \in DOMAIN lbs /\ CanNormalize(s, lbs[i].height, lbs[i].branch)
         /\ TopFrame(h[p]).entry + lbs[i].branch <= Len(s)
         /\ Fits(b, h, c, t.pc + 1, Normalize(s, lbs[i].height, lbs[i].branch), ls,
                 SubSeq(lbs, 1, IF lbs[i].isLoop \/ i = 1 THEN i ELSE i - 1))
<1> DEFINE f == h[p].ctrl[i]
           types == LabelTypes(f)
<1>1. /\ Len(lbs) = Len(h[p].ctrl) /\ Len(lbs) \in Nat \ {0} /\ DOMAIN lbs = 1 .. Len(lbs)
      /\ h[p] \in States /\ h[p].ctrl # << >>
  BY FramedFacts
<1>2. t.depth = depth /\ depth < Len(lbs) /\ Lands(b, h, p, Len(lbs) - depth, t.pc)
  BY <1>1 DEF TargetOK
<1>3. i \in DOMAIN lbs /\ Lands(b, h, p, i, t.pc)
  BY <1>1, <1>2
<1>4. FrameAt(h[p], depth) = f
  BY <1>1, <1>2 DEF FrameAt
<1>5. /\ s \in Seq(Values) /\ TopFrame(h[p]).entry + Len(types) <= Len(s) /\ Carries(s, types)
      /\ \A k \in 1 .. TopFrame(h[p]).entry : s[k] \in ValuesOf(h[p].slots[k])
  BY <1>4 DEF Feeds
<1>6. f.entry \in Nat /\ f.entry <= TopFrame(h[p]).entry /\ TopFrame(h[p]).entry \in Nat /\ Len(types) \in Nat
  <2>1. types \in Seq(ValueTypes)
    BY <1>3, InsideFrame DEF LabelTypes
  <2>2. TopFrame(h[p]).entry \in Nat
    BY <1>1, TopIsFrame
  <2> QED BY <1>3, <2>1, <2>2, InsideFrame
<1> HIDE DEF types, f
<1>7. f.entry + Len(types) <= Len(s)
  BY <1>5, <1>6
<1>8. \A k \in 1 .. f.entry : s[k] \in ValuesOf(h[p].slots[k])
  BY <1>5, <1>6
<1>9. lbs[i].branch = Len(types)
  BY <1>3, LabelIs DEF types, f
<1> QED BY <1>3, <1>5, <1>7, <1>8, <1>9, BranchLands DEF types, f

\* A frame that control leaves in live code has its results on top.
LEMMA ResultsCarry ==
  ASSUME NEW v, Good(v), IsLive(v), NEW f, f = TopFrame(v), FrameResult(v, f), NEW s, Agrees(s, v)
  PROVE  Carries(s, f.results) /\ Len(s) = f.entry + Len(f.results) /\ s \in Seq(Values)
<1> DEFINE n == v.height - f.entry
           got == SubSeq(v.slots, f.entry + 1, v.height)
           types == f.results
<1>1. /\ v \in States /\ v.height \in Nat /\ v.height <= Len(v.slots) /\ v.slots \in Seq(Slots)
      /\ f.entry \in Nat /\ f.entry <= v.height /\ types \in Seq(ValueTypes) /\ Known(v, v.height)
      /\ Len(v.slots) \in Nat /\ ~f.dead
  <2>1. v.ctrl # << >> /\ Firm(v) /\ Known(v, v.height)
    BY LiveFrames
  <2>2. f \in Frames
    BY <2>1, TopIsFrame DEF Good
  <2> QED BY <2>1, <2>2, FrameFields, ReadyFacts DEF Firm, IsLive
<1>2. n \in Nat /\ Len(got) = n /\ DOMAIN got = 1 .. n /\ \A k \in 1 .. n : got[k] = v.slots[f.entry + k]
  <2> DEFINE a == f.entry
             z == v.height
             slots == v.slots
  <2>1. a \in Nat /\ z \in Nat /\ a <= z /\ slots \in Seq(Slots) /\ z <= Len(slots) /\ Len(slots) \in Nat
    BY <1>1
  <2>2. n = z - a /\ got = SubSeq(slots, a + 1, z)
    OBVIOUS
  <2> HIDE DEF a, z, slots, got, n
  <2>3. n \in Nat /\ Len(got) = n /\ DOMAIN got = 1 .. n /\ \A k \in 1 .. n : got[k] = slots[a + k]
    BY <2>1, <2>2
  <2> QED BY <2>3 DEF a, slots
<1>3. Len(types) - Len(got) = 0 /\ \A k \in DOMAIN got : Matches(got[k], types[Len(types) - Len(got) + k])
  BY <1>1 DEF FrameResult
<1> HIDE DEF got, types
<1>4. Len(types) = n /\ \A k \in 1 .. n : Matches(v.slots[f.entry + k], types[k])
  <2>1. Len(types) \in Nat
    BY <1>1
  <2>2. Len(types) = n
    BY <1>2, <1>3, <2>1
  <2>3. ASSUME NEW k \in 1 .. n PROVE Matches(v.slots[f.entry + k], types[k])
    <3>1. Len(types) - Len(got) + k = k
      BY <1>2, <2>2
    <3> QED BY <1>2, <1>3, <3>1
  <2> QED BY <2>2, <2>3
<1>5. Len(types) <= v.height /\ v.height - Len(types) = f.entry /\ DOMAIN types = 1 .. n
  BY <1>1, <1>2, <1>4
<1>6. Tops(v, types)
  BY <1>4, <1>5 DEF Tops
<1>7. Carries(s, types)
  BY <1>1, <1>5, <1>6, TopsCarry
<1>8. Len(s) = v.height /\ s \in Seq(Values)
  BY <1>1, AgreesShape
<1>9. Len(s) = f.entry + Len(types)
  BY <1>1, <1>4, <1>8
<1> QED BY <1>7, <1>8, <1>9 DEF types

\* Out of the top frame.
LEMMA ExitGoes ==
  ASSUME NEW b, NEW h, NEW c, NEW p, NEW ls, NEW lbs, Framed(b, h, c, p, ls, lbs),
         NEW n, n = Len(lbs), n # 1, NEW x, OpensAt(b, h, p, n, x), NEW e, EndsAt(b, h, x, e),
         FrameResult(h[p], TopFrame(h[p])), NEW s, Agrees(s, h[p]), NEW l, l = Last(lbs)
  PROVE  /\ n > 1 /\ CanNormalize(s, l.height, l.results) /\ Len(s) = l.height + l.results
         /\ Fits(b, h, c, e + 1, Normalize(s, l.height, l.results), ls, Front(lbs))
<1> DEFINE f == TopFrame(h[p])
<1>1. /\ n = Len(h[p].ctrl) /\ n \in Nat \ {0} /\ DOMAIN lbs = 1 .. n
      /\ Good(h[p]) /\ h[p] \in States /\ h[p].ctrl # << >> /\ IsLive(h[p])
  BY FramedFacts
<1>2. n > 1 /\ n \in DOMAIN lbs /\ f = h[p].ctrl[n] /\ l = lbs[n] /\ Front(lbs) = SubSeq(lbs, 1, n - 1)
  <2>1. n > 1 /\ n \in 1 .. n
    <3>1. \A k \in Nat : k # 0 /\ k # 1 => k > 1 /\ k \in 1 .. k
      OBVIOUS
    <3>2. n \in Nat /\ n # 0 /\ n # 1
      BY <1>1
    <3> QED BY <3>1, <3>2, Zenon
  <2>2. f = h[p].ctrl[n] /\ l = lbs[n] /\ Front(lbs) = SubSeq(lbs, 1, n - 1)
    <3>1. f = h[p].ctrl[Len(h[p].ctrl)] /\ l = lbs[Len(lbs)] /\ Front(lbs) = SubSeq(lbs, 1, Len(lbs) - 1)
      BY DEF TopFrame, Last, Front
    <3>2. Len(h[p].ctrl) = n /\ Len(lbs) = n
      BY <1>1
    <3> HIDE DEF f
    <3> QED BY <3>1, <3>2
  <2> QED BY <1>1, <2>1, <2>2
<1>3. Carries(s, f.results) /\ Len(s) = f.entry + Len(f.results) /\ s \in Seq(Values)
  BY <1>1, ResultsCarry
<1>4. \A k \in 1 .. f.entry : s[k] \in ValuesOf(h[p].slots[k])
  <2>1. Alive(h[p])
    BY FramedFacts DEF Alive
  <2> QED BY <2>1, AgreesUnder
<1>5. f.entry \in Nat /\ Len(f.results) \in Nat
  BY <1>2, InsideFrame, SMTT(60)
<1> HIDE DEF f
<1>6. f.entry + Len(f.results) <= Len(s)
  BY <1>3, <1>5
<1>7. /\ CanNormalize(s, f.entry, Len(f.results))
      /\ Fits(b, h, c, e + 1, Normalize(s, f.entry, Len(f.results)), ls, SubSeq(lbs, 1, n - 1))
  BY <1>2, <1>3, <1>4, <1>6, EndArrives
<1>8. l.height = f.entry /\ l.results = Len(f.results)
  BY <1>2, LabelIs
<1> QED BY <1>2, <1>3, <1>7, <1>8

\* Out of the frame of a block at its end.
LEMMA EndGoes ==
  ASSUME NEW b, NEW h, NEW c, NEW p, NEW ls, NEW lbs, Framed(b, h, c, p, ls, lbs), p # Len(b),
         b[p].op = "end", NEW s, Agrees(s, h[p]), NEW l, l = Last(lbs)
  PROVE  /\ Len(lbs) > 1 /\ CanNormalize(s, l.height, l.results) /\ Len(s) = l.height + l.results
         /\ Fits(b, h, c, p + 1, Normalize(s, l.height, l.results), ls, Front(lbs))
<1> DEFINE n == Len(lbs)
<1>1. /\ Whole(b, h) /\ Len(b) \in Nat /\ p \in 1 .. Len(b) /\ p \in 1 .. Len(b) + 1
      /\ n = Len(h[p].ctrl) /\ n \in Nat \ {0}
      /\ Good(h[p]) /\ ~h[p].closed /\ h[p].ctrl # << >> /\ h[p + 1] \in Rule(h[p], b[p])
  BY FramedFacts
<1>2. p + 1 \in 1 .. Len(b)
  BY <1>1
<1>3. Len(h[p + 1].ctrl) >= 1 /\ Len(h[p + 1].ctrl) = n - 1
  BY <1>1, <1>2, WholeShape, EndEnds
<1>4. n # 1 /\ n \in 2 .. Len(h[p].ctrl)
  <2>1. n \in Nat /\ n - 1 >= 1 /\ Len(h[p].ctrl) = n
    BY <1>1, <1>3
  <2> HIDE DEF n
  <2> QED BY <2>1
<1>5. PICK x \in 1 .. p - 1 : OpensAt(b, h, p, n, x)
  BY <1>1, <1>4, OpenerOf
<1>6. EndsAt(b, h, x, p)
  BY <1>1, <1>5, EndEnds
<1>7. FrameResult(h[p], TopFrame(h[p]))
  <2>1. h[p + 1] \in EndRule(h[p])
    BY <1>1 DEF Rule
  <2> QED BY <1>1, <2>1, EndCloses
<1>8. /\ n = Len(lbs) /\ n # 1 /\ Framed(b, h, c, p, ls, lbs) /\ Agrees(s, h[p]) /\ l = Last(lbs)
      /\ OpensAt(b, h, p, n, x) /\ EndsAt(b, h, x, p) /\ FrameResult(h[p], TopFrame(h[p]))
  BY <1>4, <1>5, <1>6, <1>7
<1> HIDE DEF n
<1>9. /\ n > 1 /\ CanNormalize(s, l.height, l.results) /\ Len(s) = l.height + l.results
      /\ Fits(b, h, c, p + 1, Normalize(s, l.height, l.results), ls, Front(lbs))
  BY ONLY <1>8, ExitGoes
<1> QED BY <1>8, <1>9

\* From the end of a then arm past the end of its if.
LEMMA ThenGoes ==
  ASSUME NEW b, NEW h, NEW c, NEW p, NEW ls, NEW lbs, Framed(b, h, c, p, ls, lbs), Resolved(b, h, c),
         b[p].op = "else", NEW s, Agrees(s, h[p]), NEW l, l = Last(lbs)
  PROVE  /\ Len(lbs) > 1 /\ CanNormalize(s, l.height, l.results) /\ Len(s) = l.height + l.results
         /\ Fits(b, h, c, c[p].target + 1, Normalize(s, l.height, l.results), ls, Front(lbs))
<1>1. /\ Whole(b, h) /\ p \in 1 .. Len(b) /\ Len(lbs) = Len(h[p].ctrl) /\ DOMAIN b = 1 .. Len(b)
  BY FramedFacts
<1>2. /\ Len(h[p].ctrl) >= 2 /\ FrameResult(h[p], TopFrame(h[p]))
  BY <1>1, ElseStepped
<1>3. c[p].op = b[p].op /\ ResolvedAt(b, h, p, c[p])
  BY <1>1 DEF Resolved, ResolvedAt
<1>4. PICK x \in 1 .. p - 1 : ElseAt(b, h, x, p) /\ EndsAt(b, h, x, c[p].target)
  BY <1>3 DEF ResolvedAt
<1>5. OpensAt(b, h, p, Len(lbs), x)
  BY <1>1, <1>4, ElseFacts
<1>6. Len(lbs) # 1
  <2>1. Len(lbs) >= 2 /\ Len(lbs) \in Nat
    BY <1>1, <1>2, FramedFacts
  <2> QED BY <2>1, SMTT(60)
<1> DEFINE n == Len(lbs)
           e == c[p].target
<1>7. /\ n = Len(lbs) /\ n # 1 /\ Framed(b, h, c, p, ls, lbs) /\ Agrees(s, h[p]) /\ l = Last(lbs)
      /\ OpensAt(b, h, p, n, x) /\ EndsAt(b, h, x, e) /\ FrameResult(h[p], TopFrame(h[p]))
  BY <1>2, <1>4, <1>5, <1>6
<1> HIDE DEF n, e
<1>8. /\ n > 1 /\ CanNormalize(s, l.height, l.results) /\ Len(s) = l.height + l.results
      /\ Fits(b, h, c, e + 1, Normalize(s, l.height, l.results), ls, Front(lbs))
  BY ONLY <1>7, ExitGoes
<1> QED BY <1>7, <1>8 DEF e

\* From an if to its else arm.
LEMMA ElseArrives ==
  ASSUME NEW b, NEW h, NEW c, NEW p, NEW ls, NEW lbs, Framed(b, h, c, p + 1, ls, lbs), p \in 1 .. Len(b),
         NEW q, ElseAt(b, h, p, q), NEW s, Agrees(s, h[p + 1])
  PROVE  Fits(b, h, c, q + 1, s, ls, lbs)
<1> DEFINE v == h[p + 1]
           u == h[q]
           w == h[q + 1]
           i == Len(h[p].ctrl) + 1
           f == v.ctrl[i]
           g == u.ctrl[i]
<1>1. /\ Whole(b, h) /\ Len(b) \in Nat /\ p + 1 \in 1 .. Len(b) /\ p + 1 \in 1 .. Len(b) + 1
      /\ v \in States /\ IsLive(v) /\ LocalsFit(ls, v.inits) /\ v.height <= Len(v.slots)
      /\ Len(lbs) = Len(v.ctrl) /\ Len(lbs) \in Nat \ {0} /\ DOMAIN lbs = 1 .. Len(lbs)
      /\ \A j \in DOMAIN lbs : LabelFits(b, h, c, p + 1, j, lbs[j])
  BY FramedFacts, ReadyFacts DEF Firm
<1>2. /\ q \in 1 .. Len(b) /\ b[q].op = "else" /\ p \in 1 .. q - 1 /\ Len(u.ctrl) = i
      /\ OpensAt(b, h, q, i, p) /\ b[p].op = "if" /\ i \in Nat /\ i >= 2
  BY <1>1, ElseFacts, SMTT(60)
<1>3. Len(v.ctrl) = i /\ OpensAt(b, h, p + 1, i, p)
  <2>1. b[p].op \in Openers
    BY <1>2 DEF Openers
  <2> QED BY <1>1, <2>1, OpenerOpened
<1>4. q \in 1 .. Len(b) + 1 /\ q + 1 \in 1 .. Len(b) + 1 /\ q + 1 \in 1 .. Len(b)
  <2>1. q # Len(b)
    BY <1>1, <1>2 DEF Whole
  <2> QED BY <1>1, <1>2, <2>1, SMTT(60)
<1>5. /\ Same(v, u, i) /\ Opens(h[p], v, b[p]) /\ FrameOf(g, b[p])
  <2>1. q \in 1 .. Len(b) + 1 /\ i \in Nat
    BY <1>2, <1>4
  <2> HIDE DEF i
  <2> QED BY <1>1, <1>2, <2>1, Opened
<1>6. TopFrame(v) = f /\ TopFrame(u) = g /\ i \in 1 .. i
  BY <1>2, <1>3 DEF TopFrame
<1>7. /\ Honest(u) /\ w.height = g.entry + Len(g.params) /\ w.inits = g.inits /\ w.slots = u.slots
      /\ TopFrame(w).dead <=> g.enteredDead
      /\ Keeps(u, w) /\ Len(w.ctrl) = i
  <2>1. /\ Honest(u) /\ w.height = TopFrame(u).entry + Len(TopFrame(u).params)
        /\ w.inits = TopFrame(u).inits /\ w.slots = u.slots
        /\ TopFrame(w).dead <=> TopFrame(u).enteredDead
        /\ Keeps(u, w) /\ Len(w.ctrl) = Len(u.ctrl)
    <3>1. Whole(b, h) /\ q \in 1 .. Len(b) /\ b[q].op = "else"
      BY <1>1, <1>2
    <3>2. /\ Honest(h[q]) /\ h[q + 1].height = TopFrame(h[q]).entry + Len(TopFrame(h[q]).params)
          /\ h[q + 1].inits = TopFrame(h[q]).inits /\ h[q + 1].slots = h[q].slots
          /\ TopFrame(h[q + 1]).dead <=> TopFrame(h[q]).enteredDead
          /\ Keeps(h[q], h[q + 1]) /\ Len(h[q + 1].ctrl) = Len(h[q].ctrl)
      BY <3>1, ElseStepped
    <3> QED BY <3>2
  <2> HIDE DEF w, u, g, f, i
  <2> QED BY <1>2, <1>6, <2>1 DEF u
<1>8. g.entry = f.entry /\ g.params = f.params /\ g.inits = f.inits /\ (g.enteredDead <=> f.enteredDead)
  <2>1. SameFrame(f, g)
    BY <1>5 DEF Same
  <2> HIDE DEF f, g
  <2> QED BY <2>1, SMTT(60) DEF SameFrame
<1>9. ~f.enteredDead /\ f.inits \subseteq v.inits /\ f.entry \in Nat
  <2>1. i \in DOMAIN lbs
    <3> HIDE DEF i
    <3> QED BY <1>1, <1>3, <1>6, SMTT(60)
  <2> HIDE DEF i
  <2> QED BY <2>1, InsideFrame
<1>10. IsLive(w)
  <2>1. w.ctrl # << >>
    BY <1>2, <1>7, SMTT(60)
  <2> QED BY <1>7, <1>8, <1>9, <2>1 DEF IsLive
<1>11. /\ v.height = f.entry + Len(f.params) /\ Len(f.params) \in Nat /\ f.params \in Seq(ValueTypes)
       /\ \A k \in 1 .. Len(f.params) : v.slots[f.entry + k] = f.params[k]
  <2>1. /\ TopFrame(v).params = b[p].params /\ v.height = TopFrame(v).entry + Len(b[p].params)
        /\ \A k \in 1 .. Len(b[p].params) : v.slots[TopFrame(v).entry + k] = b[p].params[k]
    BY <1>5 DEF Opens, FrameOf
  <2>2. b[p].params \in Seq(ValueTypes) /\ Len(b[p].params) \in Nat
    <3>1. IsInstr(b[p]) /\ b[p].op \in Openers
      BY <1>1, <1>2, WholeShape DEF Openers
    <3> QED BY <3>1, Immediates
  <2> HIDE DEF f, v
  <2> QED BY <1>6, <2>1, <2>2
\* Under the parameters nothing changed, and the parameters are honest.
<1>12. ASSUME NEW k \in 1 .. v.height, s[k] \in ValuesOf(v.slots[k]) PROVE s[k] \in ValuesOf(w.slots[k])
  <2>1. /\ \A m \in 1 .. f.entry : u.slots[m] = v.slots[m]
        /\ \A m \in DOMAIN f.params : Matches(f.params[m], u.slots[f.entry + m])
    <3>1. ~g.enteredDead => \A m \in DOMAIN g.params : Matches(g.params[m], u.slots[g.entry + m])
      BY <1>6, <1>7 DEF Honest
    <3>2. \A m \in 1 .. f.entry : u.slots[m] = v.slots[m]
      BY <1>5 DEF Same
    <3> HIDE DEF f, g, u, v
    <3> QED BY <3>1, <3>2, <1>8, <1>9, SMTT(60)
  <2> HIDE DEF f, g, v, u, w
  <2>2. CASE k <= f.entry
    <3>1. k \in 1 .. f.entry
      BY <2>2, <1>9
    <3> QED BY <3>1, <2>1, <1>7, <1>12
  <2>3. CASE k > f.entry
    <3>1. k - f.entry \in 1 .. Len(f.params) /\ f.entry + (k - f.entry) = k /\ DOMAIN f.params = 1 .. Len(f.params)
      BY <2>3, <1>9, <1>11, SMTT(60)
    <3>2. v.slots[k] = f.params[k - f.entry] /\ f.params[k - f.entry] \in ValueTypes
          /\ Matches(f.params[k - f.entry], u.slots[k])
      BY <3>1, <2>1, <1>11
    <3>3. s[k] \in ValuesOf(f.params[k - f.entry])
      BY <3>2, <1>12
    <3>4. u.slots[k] \in ValueTypes
      <4>1. ~Matches(f.params[k - f.entry], Unknown)
        BY <3>2, SlotTypes DEF Matches, ValueTypes, RefTypes
      <4>2. u.slots[k] = f.params[k - f.entry] \/ u.slots[k] = "exnref"
        BY <3>2, <4>1 DEF Matches
      <4> QED BY <3>2, <4>2 DEF ValueTypes, RefTypes
    <3>5. ValuesOf(f.params[k - f.entry]) \subseteq ValuesOf(u.slots[k])
      BY <3>2, <3>4, MatchValues
    <3> QED BY <3>3, <3>5, <1>7
  <2> QED BY <2>2, <2>3, <1>9
<1>13. Agrees(s, w)
  <2>1. s \in Seq(Values) /\ Len(s) = v.height /\ DOMAIN s = 1 .. v.height
        /\ \A k \in 1 .. v.height : s[k] \in ValuesOf(v.slots[k])
    BY <1>1, AgreesShape, SMTT(60)
  <2>2. w.height = v.height
    BY <1>7, <1>8, <1>11, ZenonT(60)
  <2> HIDE DEF v, w
  <2> QED BY <2>1, <2>2, <1>12 DEF Agrees
<1>14. LocalsFit(ls, w.inits)
  BY <1>1, <1>7, <1>8, <1>9, LocalsFewer
<1>15. ASSUME NEW j \in DOMAIN lbs PROVE LabelFits(b, h, c, q + 1, j, lbs[j])
  <2>1. j \in 1 .. i
    BY <1>1, <1>3
  <2>2. LabelFits(b, h, c, p + 1, j, lbs[j])
    BY <1>1
  <2>3. LabelFits(b, h, c, q, j, lbs[j])
    <3>1. i \in Nat
      BY <1>2
    <3> HIDE DEF i
    <3> QED BY <1>1, <1>2, <1>3, <1>4, <2>1, <2>2, <3>1, LabelCarries
  <2>4. j \in DOMAIN h[q].ctrl /\ j <= Len(h[q + 1].ctrl)
    <3>1. DOMAIN h[q].ctrl = 1 .. Len(h[q].ctrl)
      BY <1>1, <1>4, WholeShape
    <3> HIDE DEF i
    <3> QED BY <1>2, <1>7, <2>1, <3>1
  <2> QED BY <1>1, <1>2, <2>3, <2>4, LabelStays
<1>16. Len(lbs) = Len(w.ctrl)
  BY <1>1, <1>3, <1>7
<1>17. \E T : lbs \in Seq(T)
  BY DEF Framed
<1>18. Framed(b, h, c, q + 1, ls, lbs)
  BY <1>1, <1>4, <1>10, <1>14, <1>15, <1>16, <1>17 DEF Framed
<1> QED BY <1>13, <1>18, InnerFits

LEMMA RuleAt ==
  ASSUME NEW b, NEW h, Whole(b, h), NEW p \in 1 .. Len(b)
  PROVE  h[p].ctrl # << >> /\ h[p + 1] \in Rule(h[p], b[p])
BY WholeShape, SMTT(60)

\* A frame without an else, left as it was entered: what it was entered with
\* are its results.
LEMMA SkipGoes ==
  ASSUME NEW b, NEW h, NEW c, NEW p, NEW ls, NEW lbs, NEW l, Framed(b, h, c, p + 1, ls, Append(lbs, l)),
         \E T : lbs \in Seq(T), p \in 1 .. Len(b), b[p].op = "if",
         NEW e, EndsAt(b, h, p, e), \A q \in DOMAIN b : ~ElseAt(b, h, p, q),
         NEW s, Agrees(s, h[p + 1]), NEW height, height = Len(s) - Len(b[p].params),
         NEW n, n = Len(b[p].results)
  PROVE  /\ height >= 0 /\ CanNormalize(s, height, n)
         /\ Fits(b, h, c, e + 1, Normalize(s, height, n), ls, lbs)
<1> DEFINE L == Append(lbs, l)
           v == h[p + 1]
           i == Len(h[p].ctrl) + 1
           f == v.ctrl[i]
           g == TopFrame(h[e])
<1>1. /\ Whole(b, h) /\ Len(b) \in Nat /\ p + 1 \in 1 .. Len(b) + 1 /\ v \in States /\ Good(v)
      /\ Len(L) = Len(v.ctrl) /\ DOMAIN L = 1 .. Len(L) /\ Len(L) \in Nat /\ Alive(v) /\ DOMAIN b = 1 .. Len(b)
  <2>1. Framed(b, h, c, p + 1, ls, L)
    OBVIOUS
  <2> HIDE DEF L
  <2> QED BY <2>1, FramedFacts DEF Alive
<1>2. b[p].op \in Openers
  BY DEF Openers
<1>3. Len(v.ctrl) = i /\ OpensAt(b, h, p + 1, i, p)
  BY <1>1, <1>2, OpenerOpened
<1>4. /\ e \in p + 1 .. Len(b) /\ b[e].op = "end" /\ OpensAt(b, h, e, i, p) /\ Len(h[e].ctrl) = i
      /\ Len(h[p].ctrl) \in Nat /\ Len(h[p].ctrl) >= 1 /\ i \in Nat /\ i >= 2 /\ i # 1
  BY <1>1, EndsFacts, SMTT(60)
<1>5. i \in DOMAIN L
  BY <1>1, <1>3, <1>4, SMTT(60)
<1>6. e \in 1 .. Len(b) /\ e \in 1 .. Len(b) + 1
  BY <1>1, <1>4
<1>7. Same(v, h[e], i) /\ Opens(h[p], v, b[p]) /\ FrameOf(f, b[p])
  <2>1. i \in Nat
    BY <1>4
  <2> HIDE DEF i
  <2>2. Same(v, h[e], i) /\ Opens(h[p], v, b[p])
    BY <1>1, <1>4, <1>6, <2>1, Opened, SMTT(60)
  <2>3. FrameOf(f, b[p])
    BY <1>1, <1>3, <2>1, Opened
  <2> QED BY <2>2, <2>3
<1>8. g = h[e].ctrl[i] /\ TopFrame(v) = f
  BY <1>3, <1>4 DEF TopFrame
<1>9. /\ f.kind = "if" /\ f.params = b[p].params /\ f.results = b[p].results
      /\ v.height = f.entry + Len(f.params) /\ \A k \in 1 .. Len(f.params) : v.slots[f.entry + k] = f.params[k]
  <2> HIDE DEF f
  <2> QED BY <1>7, <1>8 DEF Opens, FrameOf
<1>10. /\ f.entry \in Nat /\ ~f.enteredDead /\ f.params \in Seq(ValueTypes) /\ f.results \in Seq(ValueTypes)
       /\ Len(f.params) \in Nat /\ Len(f.results) \in Nat
  <2> HIDE DEF i, L
  <2>1. Framed(b, h, c, p + 1, ls, L)
    BY DEF L
  <2>2. /\ f.entry \in Nat /\ ~f.enteredDead /\ f.params \in Seq(ValueTypes) /\ f.results \in Seq(ValueTypes)
    BY <1>5, <2>1, InsideFrame
  <2> HIDE DEF f
  <2> QED BY <2>2
<1>11. ~g.sawElse
  <2>1. ASSUME g.sawElse PROVE FALSE
    <3>1. h[e].ctrl[i].sawElse /\ i \in 2 .. Len(h[e].ctrl) /\ p \in 1 .. e - 1 /\ e \in DOMAIN h
      <4>1. DOMAIN h = 1 .. Len(b) + 1
        BY <1>1, WholeShape
      <4> QED BY <1>4, <1>6, <1>8, <2>1, <4>1
    <3>2. \E q \in p + 1 .. e - 1 : ElseAt(b, h, p, q)
      <4> HIDE DEF i
      <4> QED BY <1>1, <1>4, <3>1 DEF Whole, Typed
    <3>3. \A q : ElseAt(b, h, p, q) => q \in DOMAIN b
      BY DEF ElseAt
    <3> QED BY <3>2, <3>3
  <2> QED BY <2>1
<1>12. g.kind = "if" /\ g.params = f.params /\ g.results = f.results /\ ~g.enteredDead
  <2>1. SameFrame(f, g)
    BY <1>7, <1>8 DEF Same
  <2> HIDE DEF f, g
  <2> QED BY <1>9, <1>10, <2>1, SMTT(60) DEF SameFrame
<1>13. ~NeedsElse(g)
  <2>1. Good(h[e]) /\ h[e].ctrl # << >> /\ h[e + 1] \in Rule(h[e], b[e]) /\ ~h[e].closed
    <3> HIDE DEF f, v, i, g, L
    <3>1. Good(h[e])
      BY <1>1, <1>6, WholeShape
    <3>2. h[e].ctrl # << >> /\ h[e + 1] \in Rule(h[e], b[e])
      BY <1>1, <1>6, RuleAt
    <3> QED BY <3>1, <3>2, GoodFirm
  <2>2. h[e + 1] \in EndRule(h[e])
    BY <1>4, <2>1 DEF Rule
  <2> QED BY <2>1, <2>2, EndCloses
<1>14. f.results = << >> \/ f.params = f.results
  <2> HIDE DEF f, g
  <2> QED BY <1>11, <1>12, <1>13 DEF NeedsElse
<1>15. s \in Seq(Values) /\ Len(s) = v.height /\ \A k \in 1 .. v.height : s[k] \in ValuesOf(v.slots[k])
  BY <1>1, AgreesShape
<1>16. height = f.entry /\ n = Len(f.results)
  <2>1. height = v.height - Len(f.params) /\ n = Len(f.results)
    BY <1>9, <1>15
  <2> HIDE DEF f, v
  <2> QED BY <1>9, <1>10, <2>1, SMTT(60)
<1>17. Carries(s, f.results) /\ f.entry + Len(f.results) <= Len(s)
  <2>1. CASE f.results = << >>
    <3>1. Len(f.results) = 0
      BY <2>1
    <3> HIDE DEF f, v
    <3>2. f.entry + Len(f.results) <= Len(s) /\ Len(f.results) <= Len(s)
      BY <1>9, <1>10, <1>15, <3>1, SMTT(60)
    <3> QED BY <3>1, <3>2 DEF Carries
  <2>2. CASE f.params = f.results
    <3> DEFINE m == Len(f.results)
               a == f.entry
    <3>1. m \in Nat /\ a \in Nat /\ Len(s) = a + m /\ \A k \in 1 .. m : v.slots[a + k] = f.results[k]
      BY <1>9, <1>10, <1>15, <2>2, ZenonT(60)
    <3>2. \A k \in 1 .. a + m : s[k] \in ValuesOf(v.slots[k])
      BY <1>9, <1>15, <2>2
    <3> HIDE DEF m, a
    <3>3. ASSUME NEW k \in 1 .. m PROVE s[Len(s) - m + k] \in ValuesOf(f.results[k])
      <4>1. Len(s) - m + k = a + k /\ a + k \in 1 .. a + m
        BY <3>1
      <4> QED BY <3>1, <3>2, <4>1
    <3>4. m <= Len(s) /\ a + m <= Len(s)
      BY <3>1, SMTT(60)
    <3> QED BY <3>3, <3>4, ZenonT(60) DEF Carries, m, a
  <2> QED BY <1>14, <2>1, <2>2
<1>18. \A k \in 1 .. f.entry : s[k] \in ValuesOf(v.slots[k])
  <2>1. \A k \in 1 .. f.entry : k \in 1 .. v.height
    <3> HIDE DEF f, v
    <3> QED BY <1>9, <1>10
  <2> QED BY <1>15, <2>1
<1>19. /\ CanNormalize(s, f.entry, Len(f.results))
       /\ Fits(b, h, c, e + 1, Normalize(s, f.entry, Len(f.results)), ls, SubSeq(L, 1, i - 1))
  <2>1. Framed(b, h, c, p + 1, ls, L)
    OBVIOUS
  <2> HIDE DEF L, i
  <2> QED BY <1>3, <1>4, <1>5, <1>15, <1>17, <1>18, <2>1, EndArrives
<1>20. SubSeq(L, 1, i - 1) = lbs
  <2>1. PICK T : lbs \in Seq(T)
    OBVIOUS
  <2>2. Len(L) = Len(lbs) + 1 /\ Len(lbs) \in Nat
    BY <2>1
  <2>3. i - 1 = Len(lbs)
    BY <1>1, <1>3, <1>4, <2>2, SMTT(60)
  <2>4. SubSeq(L, 1, Len(lbs)) = lbs
    BY <2>1
  <2> QED BY <2>3, <2>4
<1>21. height >= 0
  <2> HIDE DEF f
  <2> QED BY <1>10, <1>16
<1> QED BY <1>16, <1>19, <1>20, <1>21

-----------------------------------------------------------------------------
(* Exceptions *)

LEMMA Least ==
  ASSUME NEW T, T \subseteq Nat, T # {}
  PROVE  \E x \in T : \A y \in T : x <= y
<1> DEFINE R == {ss \in Nat \X Nat : ss[1] < ss[2]}
<1>1. PICK x \in T : \A y \in T : ~ (<<y, x>> \in R)
  <2>1. IsWellFoundedOn(R, Nat)
    BY NatLessThanWellFounded, Zenon DEF OpToRel
  <2> HIDE DEF R
  <2> QED BY <2>1, WFMin
<1>2. ASSUME NEW y \in T PROVE x <= y
  <2>1. x \in Nat /\ y \in Nat
    OBVIOUS
  <2> DEFINE ss == <<y, x>>
  <2>2. y < x => ss \in Nat \X Nat /\ ss[1] < ss[2]
    BY <2>1
  <2> HIDE DEF ss
  <2>3. y < x => ss \in R
    BY <2>2
  <2>4. ~(y < x)
    BY <1>1, <2>3 DEF ss
  <2> QED BY <2>1, <2>4
<1> QED BY <1>2

\* Of the clauses that match, one comes first.
LEMMA FirstOf ==
  ASSUME NEW n \in Nat, NEW H, H \subseteq (1 .. n) \X Nat, H # {}
  PROVE  \E a \in H : \A z \in H : Before(a, z)
<1>1. \A a \in H : a[1] \in 1 .. n /\ a[2] \in Nat
  OBVIOUS
<1> DEFINE D == {k \in Nat : \E a \in H : a[1] = n - k}
<1>2. D # {}
  <2>1. PICK a \in H : TRUE
    OBVIOUS
  <2>2. n - a[1] \in Nat /\ a[1] = n - (n - a[1])
    BY <1>1
  <2> QED BY <2>1, <2>2
<1>3. PICK m \in D : \A k \in D : m <= k
  <2>1. D \subseteq Nat
    OBVIOUS
  <2> HIDE DEF D
  <2> QED BY <1>2, <2>1, Least
<1>4. ASSUME NEW a \in H PROVE a[1] <= n - m
  <2>1. n - a[1] \in D
    <3>1. n - a[1] \in Nat /\ a[1] = n - (n - a[1])
      BY <1>1
    <3> QED BY <3>1
  <2>2. m <= n - a[1] /\ m \in Nat /\ a[1] \in Nat
    BY <1>1, <1>3, <2>1
  <2> QED BY <2>2
<1> DEFINE E == {k \in Nat : \E a \in H : a[1] = n - m /\ a[2] = k}
<1>5. E # {}
  <2>1. PICK a \in H : a[1] = n - m
    OBVIOUS
  <2> QED BY <1>1, <2>1
<1>6. PICK j \in E : \A k \in E : j <= k
  <2>1. E \subseteq Nat
    OBVIOUS
  <2> HIDE DEF E
  <2> QED BY <1>5, <2>1, Least
<1>7. PICK a \in H : a[1] = n - m /\ a[2] = j
  OBVIOUS
<1>8. ASSUME NEW z \in H PROVE Before(a, z)
  <2>1. z[1] <= n - m /\ z[1] \in Nat /\ n - m \in Int
    BY <1>1, <1>4
  <2>2. CASE z[1] = n - m
    <3>1. z[2] \in E
      BY <1>1, <2>2
    <3>2. j <= z[2]
      BY <1>6, <3>1
    <3> QED BY <1>7, <2>2, <3>2 DEF Before
  <2>3. CASE z[1] # n - m
    BY <1>7, <2>1, <2>3 DEF Before
  <2> QED BY <2>2, <2>3
<1> QED BY <1>7, <1>8

LEMMA NoTypes == << >> \in Seq(ValueTypes) /\ << >> \in Tuples(<< >>)
BY DEF Tuples

LEMMA ExnTypes == <<"exn">> \in Seq(ValueTypes) /\ <<"exn">> \in Tuples(<<"exn">>)
BY DEF Tuples, ValueTypes, RefTypes, Values, ValuesOf

LEMMA TuplesJoin ==
  ASSUME NEW t1 \in Seq(ValueTypes), NEW t2 \in Seq(ValueTypes), NEW y1 \in Tuples(t1), NEW y2 \in Tuples(t2),
         NEW t, t = t1 \o t2, NEW y, y = y1 \o y2
  PROVE  /\ t \in Seq(ValueTypes) /\ y \in Seq(Values) /\ Len(y) = Len(t) /\ Len(t) \in Nat
         /\ \A k \in 1 .. Len(t) : y[k] \in ValuesOf(t[k])
<1>1. /\ y1 \in Seq(Values) /\ Len(y1) = Len(t1) /\ \A k \in 1 .. Len(t1) : y1[k] \in ValuesOf(t1[k])
  BY TupleIs
<1>2. /\ y2 \in Seq(Values) /\ Len(y2) = Len(t2) /\ \A k \in 1 .. Len(t2) : y2[k] \in ValuesOf(t2[k])
  BY TupleIs
<1> DEFINE n == Len(t1)
           m == Len(t2)
<1>3. n \in Nat /\ m \in Nat
  OBVIOUS
<1>4. /\ t \in Seq(ValueTypes) /\ Len(t) = n + m
      /\ \A k \in 1 .. n : t[k] = t1[k]
      /\ \A k \in 1 .. m : t[n + k] = t2[k]
  OBVIOUS
<1>5. /\ y \in Seq(Values) /\ Len(y) = n + m
      /\ \A k \in 1 .. n : y[k] = y1[k]
      /\ \A k \in 1 .. m : y[n + k] = y2[k]
  <2>1. /\ y \in Seq(Values) /\ Len(y) = Len(y1) + Len(y2)
        /\ \A k \in 1 .. Len(y1) : y[k] = y1[k]
        /\ \A k \in 1 .. Len(y2) : y[Len(y1) + k] = y2[k]
    BY <1>1, <1>2, JoinIs
  <2> QED BY <1>1, <1>2, <2>1
<1> HIDE DEF n, m
<1>6. ASSUME NEW k \in 1 .. n + m PROVE y[k] \in ValuesOf(t[k])
  <2>1. CASE k \in 1 .. n
    BY <1>1, <1>4, <1>5, <2>1 DEF n
  <2>2. CASE k \notin 1 .. n
    <3> DEFINE j == k - n
    <3>1. j \in 1 .. m /\ k = n + j
      BY <1>3, <2>2
    <3> HIDE DEF j
    <3>2. y2[j] \in ValuesOf(t2[j])
      BY <1>2, <3>1 DEF m
    <3> QED BY <1>4, <1>5, <3>1, <3>2
  <2> QED BY <2>1, <2>2
<1> QED BY <1>3, <1>4, <1>5, <1>6

\* What a clause passes to its label has the types the validator gave it.
LEMMA CaughtValues ==
  ASSUME NEW ins, NEW c, c.kind = ins.kind, c.tag = ins.tag,
         ins.kind \in {"tag", "tag_ref", "all", "all_ref"},
         NEW tag \in DOMAIN TagParams, CatchMatches(c, tag), NEW payload \in Tuples(TagParams[tag]),
         NEW t, t = CatchTypes(ins), NEW y, y = CatchValues(c, payload)
  PROVE  /\ t \in Seq(ValueTypes) /\ y \in Seq(Values) /\ Len(y) = Len(t) /\ Len(t) \in Nat
         /\ \A k \in 1 .. Len(t) : y[k] \in ValuesOf(t[k])
<1> DEFINE t1 == IF ins.kind \in {"tag", "tag_ref"} THEN TagParams[ins.tag] ELSE << >>
           t2 == IF ins.kind \in {"tag_ref", "all_ref"} THEN <<"exn">> ELSE << >>
           y1 == IF c.kind \in {"tag", "tag_ref"} THEN payload ELSE << >>
           y2 == IF c.kind \in {"tag_ref", "all_ref"} THEN <<"exn">> ELSE << >>
<1>1. t = t1 \o t2 /\ y = y1 \o y2
  BY DEF CatchTypes, CatchValues
<1>2. t1 \in Seq(ValueTypes) /\ y1 \in Tuples(t1)
  <2>1. CASE ins.kind \in {"tag", "tag_ref"}
    <3>1. ins.tag = tag
      BY <2>1 DEF CatchMatches
    <3> QED BY <2>1, <3>1, Tables
  <2>2. CASE ins.kind \notin {"tag", "tag_ref"}
    BY <2>2, NoTypes
  <2> QED BY <2>1, <2>2
<1>3. t2 \in Seq(ValueTypes) /\ y2 \in Tuples(t2)
  BY NoTypes, ExnTypes
<1> HIDE DEF t1, t2, y1, y2
<1> QED BY <1>1, <1>2, <1>3, TuplesJoin

-----------------------------------------------------------------------------
(* Exceptions *)

\* Where the clause of a label comes from.
LEMMA ClauseOf ==
  ASSUME NEW b, NEW h, NEW c, NEW p, NEW ls, NEW lbs, Framed(b, h, c, p, ls, lbs), Resolved(b, h, c),
         NEW lab \in DOMAIN lbs, NEW m, m \in DOMAIN lbs[lab].catches
  PROVE  /\ lab # 1 /\ m \in Nat
         /\ \E x \in 1 .. p - 1 :
              /\ OpensAt(b, h, p, lab, x) /\ lbs[lab].catches = c[x].catches
              /\ m \in DOMAIN c[x].catches /\ m \in DOMAIN b[x].catches
              /\ CatchesOK(b, h, x, c[x].catches)
              /\ CatchOK(h[x], b[x].catches[m]) /\ b[x].catches[m] \in Clauses
<1>1. /\ Whole(b, h) /\ Len(b) \in Nat /\ p \in 1 .. Len(b) /\ p \in 1 .. Len(b) + 1 /\ DOMAIN b = 1 .. Len(b)
      /\ LabelFits(b, h, c, p, lab, lbs[lab])
  BY FramedFacts
<1>2. lab # 1
  <2>1. ASSUME lab = 1 PROVE FALSE
    <3>1. lbs[lab] = FunctionLabel
      BY <1>1, <2>1 DEF LabelFits
    <3>2. lbs[lab].catches = << >>
      BY <3>1 DEF FunctionLabel
    <3> QED BY <3>2
  <2> QED BY <2>1
<1>3. PICK x \in 1 .. p - 1 : OpensAt(b, h, p, lab, x) /\ lbs[lab].catches = c[x].catches
  BY <1>1, <1>2 DEF LabelFits
<1>4. lab \in Nat
  BY InsideFrame
<1>5. x \in 1 .. Len(b) /\ b[x].op \in Openers
  BY <1>1, <1>3, <1>4, Opened
<1>6. ResolvedAt(b, h, x, c[x])
  BY <1>1, <1>5 DEF Resolved
<1>7. c[x].op = b[x].op
  BY <1>6 DEF ResolvedAt
<1>8. b[x].op = "try_table"
  <2>1. ASSUME b[x].op # "try_table" PROVE FALSE
    <3>1. c[x].catches = << >>
      BY <1>5, <1>6, <1>7, <2>1 DEF ResolvedAt
    <3>2. DOMAIN c[x].catches = {}
      BY <3>1
    <3> QED BY <1>3, <3>2
  <2> QED BY <2>1
<1>9. CatchesOK(b, h, x, c[x].catches)
  BY <1>5, <1>6, <1>7, <1>8 DEF ResolvedAt
<1>10. b[x].catches \in Seq(Clauses) /\ \A i \in DOMAIN b[x].catches : CatchOK(h[x], b[x].catches[i])
  BY <1>1, <1>5, <1>8, DepthsInRange
<1>11. m \in DOMAIN c[x].catches /\ m \in DOMAIN b[x].catches
  BY <1>3, <1>9 DEF CatchesOK
<1>12. m \in Nat /\ b[x].catches[m] \in Clauses
  BY <1>10, <1>11, SMTT(60)
<1> QED BY <1>2, <1>3, <1>9, <1>10, <1>11, <1>12

\* Clause m of label lab takes an exception raised over the operands s: it
\* continues at label i with the operands vals.
Takes(b, h, c, p, ls, lbs, tag, payload, s, lab, m, cl, i, vals) ==
  /\ Framed(b, h, c, p, ls, lbs) /\ Resolved(b, h, c)
  /\ tag \in DOMAIN TagParams /\ payload \in Tuples(TagParams[tag])
  /\ s \in Seq(Values) /\ TopFrame(h[p]).entry <= Len(s)
  /\ \A k \in 1 .. TopFrame(h[p]).entry : s[k] \in ValuesOf(h[p].slots[k])
  /\ lab \in DOMAIN lbs /\ m \in DOMAIN lbs[lab].catches
  /\ cl = lbs[lab].catches[m] /\ CatchMatches(cl, tag)
  /\ i = CatchLabel(lab, cl) /\ vals = s \o CatchValues(cl, payload)

\* throwException: the clause that takes an exception goes to a label that
\* exists, and the values it carries there fit the code it goes on with.
THEOREM HandlerGoes ==
  ASSUME NEW b, NEW h, NEW c, NEW p, NEW ls, NEW lbs, NEW tag, NEW payload, NEW s,
         NEW lab, NEW m, NEW cl, NEW i, NEW vals,
         Takes(b, h, c, p, ls, lbs, tag, payload, s, lab, m, cl, i, vals)
  PROVE  /\ CatchValues(cl, payload) \in Seq(Values) /\ Len(CatchValues(cl, payload)) = lbs[i].branch
         /\ i \in DOMAIN lbs /\ CanNormalize(vals, lbs[i].height, lbs[i].branch) /\ lbs[i].height <= Len(s)
         /\ Fits(b, h, c, cl.target.pc + 1, Normalize(vals, lbs[i].height, lbs[i].branch), ls,
                 SubSeq(lbs, 1, IF lbs[i].isLoop \/ i = 1 THEN i ELSE i - 1))
<1> USE DEF Takes
<1>1. lab # 1 /\ m \in Nat
  BY ClauseOf
<1>2. PICK x \in 1 .. p - 1 :
        /\ OpensAt(b, h, p, lab, x) /\ lbs[lab].catches = c[x].catches
        /\ m \in DOMAIN c[x].catches /\ m \in DOMAIN b[x].catches
        /\ CatchesOK(b, h, x, c[x].catches)
        /\ CatchOK(h[x], b[x].catches[m]) /\ b[x].catches[m] \in Clauses
  BY ClauseOf
<1> DEFINE ins == b[x].catches[m]
           got == CatchTypes(ins)
           y == CatchValues(cl, payload)
<1>3. /\ cl.kind = ins.kind /\ cl.tag = ins.tag /\ TargetOK(b, h, x, ins.depth, cl.target)
      /\ ins.kind \in {"tag", "tag_ref", "all", "all_ref"} /\ ins.depth \in Nat
  BY <1>2 DEF CatchesOK, Clauses
<1>4. /\ got \in Seq(ValueTypes) /\ y \in Seq(Values) /\ Len(y) = Len(got) /\ Len(got) \in Nat
      /\ \A k \in 1 .. Len(got) : y[k] \in ValuesOf(got[k])
  BY <1>3, CaughtValues
<1>5. /\ Whole(b, h) /\ Len(b) \in Nat /\ p \in 1 .. Len(b) /\ p \in 1 .. Len(b) + 1 /\ DOMAIN lbs = 1 .. Len(lbs)
      /\ Len(lbs) \in Nat /\ h[p] \in States /\ h[p].ctrl # << >>
  BY FramedFacts
<1>6. lab \in Nat /\ lab <= Len(lbs) /\ lab >= 1
  BY <1>5
<1>7. x \in 1 .. Len(b) /\ Len(h[x].ctrl) = lab - 1 /\ x \in 1 .. Len(b) + 1
  BY <1>2, <1>5, <1>6, Opened, SMTT(60)
<1>8. cl.target.depth = ins.depth /\ ins.depth < lab - 1 /\ Lands(b, h, x, lab - 1 - ins.depth, cl.target.pc)
  BY <1>3, <1>7 DEF TargetOK
<1>9. i = lab - 1 - ins.depth /\ i \in 1 .. lab - 1 /\ i \in DOMAIN lbs
  <2>1. i = lab - 1 - ins.depth
    BY <1>8 DEF CatchLabel
  <2> QED BY <1>3, <1>5, <1>6, <1>8, <2>1, SMTT(60)
<1>10. Lands(b, h, p, i, cl.target.pc)
  BY <1>2, <1>5, <1>6, <1>8, <1>9, LandsLater
<1> DEFINE f == h[p].ctrl[i]
           want == LabelTypes(f)
<1>11. h[x].ctrl[i] = f
  <2>1. /\ Same(h[x + 1], h[p], lab) /\ Opens(h[x], h[x + 1], b[x])
    BY <1>2, <1>5, <1>6, Opened, SMTT(60)
  <2>2. h[p].ctrl[i] = h[x + 1].ctrl[i]
    BY <1>9, <2>1, SMTT(60) DEF Same
  <2>3. h[x + 1].ctrl[i] = h[x].ctrl[i]
    BY <1>7, <1>9, <2>1 DEF Opens
  <2> QED BY <2>2, <2>3
<1>12. FrameAt(h[x], ins.depth) = f
  BY <1>7, <1>9, <1>11 DEF FrameAt
<1>13. Len(got) = Len(want) /\ \A k \in DOMAIN got : Matches(got[k], want[k])
  BY <1>2, <1>12 DEF CatchOK
<1>14. want \in Seq(ValueTypes) /\ f.entry \in Nat /\ f.entry <= TopFrame(h[p]).entry /\ TopFrame(h[p]).entry \in Nat
  <2>1. want \in Seq(ValueTypes)
    BY <1>9, LabelIs, SMTT(60)
  <2>2. f.entry \in Nat /\ f.entry <= TopFrame(h[p]).entry
    BY <1>9, InsideFrame
  <2>3. TopFrame(h[p]).entry \in Nat
    BY <1>5, TopIsFrame
  <2> QED BY <2>1, <2>2, <2>3
<1> HIDE DEF got, y, want, f, ins
<1>15. /\ vals \in Seq(Values) /\ Len(vals) = Len(s) + Len(want) /\ Len(s) \in Nat /\ Len(want) \in Nat
       /\ \A k \in 1 .. Len(s) : vals[k] = s[k]
       /\ \A k \in 1 .. Len(want) : vals[Len(s) + k] = y[k]
  <2>1. vals = s \o y
    BY DEF y
  <2>2. s \in Seq(Values) /\ y \in Seq(Values)
    BY <1>4
  <2>3. /\ vals \in Seq(Values) /\ Len(vals) = Len(s) + Len(y)
        /\ \A k \in 1 .. Len(s) : vals[k] = s[k]
        /\ \A k \in 1 .. Len(y) : vals[Len(s) + k] = y[k]
    BY ONLY <2>1, <2>2, JoinIs
  <2>4. Len(y) = Len(want) /\ Len(want) \in Nat /\ Len(s) \in Nat
    BY <1>4, <1>13, <2>2
  <2> QED BY ONLY <2>3, <2>4
<1>16. \A k \in 1 .. Len(want) : y[k] \in ValuesOf(want[k])
  <2>1. ASSUME NEW k \in 1 .. Len(want) PROVE y[k] \in ValuesOf(want[k])
    <3>1. k \in 1 .. Len(got) /\ k \in DOMAIN got
      BY <1>4, <1>13
    <3>2. got[k] \in ValueTypes /\ want[k] \in ValueTypes
      BY <1>4, <1>14, <2>1, <3>1
    <3>3. Matches(got[k], want[k])
      BY <1>13, <3>1
    <3>4. ValuesOf(got[k]) \subseteq ValuesOf(want[k])
      BY <3>2, <3>3, MatchValues
    <3> QED BY <1>4, <3>1, <3>4
  <2> QED BY <2>1
<1>17. Carries(vals, want)
  BY <1>15, <1>16 DEF Carries
<1>18. f.entry + Len(want) <= Len(vals)
  BY <1>14, <1>15
<1>19. \A k \in 1 .. f.entry : vals[k] \in ValuesOf(h[p].slots[k])
  BY <1>14, <1>15, SMTT(60)
<1>20. /\ i \in DOMAIN lbs /\ CanNormalize(vals, lbs[i].height, lbs[i].branch)
       /\ Fits(b, h, c, cl.target.pc + 1, Normalize(vals, lbs[i].height, lbs[i].branch), ls,
               SubSeq(lbs, 1, IF lbs[i].isLoop \/ i = 1 THEN i ELSE i - 1))
  BY <1>9, <1>10, <1>15, <1>17, <1>18, <1>19, BranchLands DEF want, f
<1>21. lbs[i].height = f.entry /\ lbs[i].branch = Len(want)
  BY <1>9, LabelIs DEF want, f
<1>22. f.entry <= Len(s)
  <2>1. TopFrame(h[p]).entry <= Len(s)
    OBVIOUS
  <2> QED BY ONLY <1>14, <1>15, <2>1
<1>23. y \in Seq(Values) /\ Len(y) = lbs[i].branch /\ lbs[i].height <= Len(s)
  BY <1>4, <1>13, <1>21, <1>22
<1> QED BY <1>20, <1>23 DEF y

-----------------------------------------------------------------------------
(* A stack cut at the heights of labels *)

\* Labels lie on each other, the function's own on the bottom.
Layered(s, lbs) ==
  /\ s \in Seq(Values)
  /\ \E T : lbs \in Seq(T)
  /\ lbs # << >> /\ lbs[1].height = 0
  /\ \A i \in DOMAIN lbs : lbs[i].height \in Nat /\ lbs[i].height <= Len(s)
  /\ \A i, j \in DOMAIN lbs : i <= j => lbs[i].height <= lbs[j].height

LEMMA LayeredFacts ==
  ASSUME NEW s, NEW lbs, Layered(s, lbs), NEW n, n = Len(lbs)
  PROVE  /\ s \in Seq(Values) /\ Len(s) \in Nat /\ DOMAIN lbs = 1 .. n /\ n \in Nat /\ n >= 1
         /\ \A i \in 1 .. n : /\ lbs[i].height \in Nat
                              /\ Ceiling(s, lbs, i) \in Nat
                              /\ lbs[i].height <= Ceiling(s, lbs, i) /\ Ceiling(s, lbs, i) <= Len(s)
         /\ \A i \in 1 .. n - 1 : Ceiling(s, lbs, i) = lbs[i + 1].height
         /\ Ceiling(s, lbs, n) = Len(s)
<1>1. s \in Seq(Values) /\ Len(s) \in Nat
  BY DEF Layered
<1>2. DOMAIN lbs = 1 .. n /\ n \in Nat /\ n >= 1
  BY DEF Layered
<1>3. \A i \in 1 .. n : lbs[i].height \in Nat /\ lbs[i].height <= Len(s)
  BY <1>2 DEF Layered
<1>4. ASSUME NEW i \in 1 .. n - 1
      PROVE  Ceiling(s, lbs, i) = lbs[i + 1].height /\ lbs[i].height <= lbs[i + 1].height /\ i + 1 \in 1 .. n
  <2>1. i \in DOMAIN lbs /\ i + 1 \in DOMAIN lbs /\ i <= i + 1 /\ i # n /\ i + 1 \in 1 .. n
    BY <1>2
  <2> QED BY <2>1 DEF Layered, Ceiling
<1>5. Ceiling(s, lbs, n) = Len(s)
  BY DEF Ceiling
<1>6. ASSUME NEW i \in 1 .. n
      PROVE  Ceiling(s, lbs, i) \in Nat /\ lbs[i].height <= Ceiling(s, lbs, i) /\ Ceiling(s, lbs, i) <= Len(s)
  <2>1. CASE i = n
    BY <1>1, <1>3, <1>5, <2>1
  <2>2. CASE i # n
    <3>1. i \in 1 .. n - 1
      BY <1>2, <2>2
    <3> QED BY <1>3, <1>4, <3>1
  <2> QED BY <2>1, <2>2
<1> QED BY <1>1, <1>2, <1>3, <1>4, <1>5, <1>6

\* Every label has its own operands.
LEMMA CutIs ==
  ASSUME NEW s, NEW lbs, Layered(s, lbs), NEW cs, cs = Cut(s, lbs)
  PROVE  /\ cs \in Seq(Seq(Values)) /\ Len(cs) = Len(lbs)
         /\ \A i \in 1 .. Len(lbs) : /\ cs[i] = SubSeq(s, lbs[i].height + 1, Ceiling(s, lbs, i))
                                     /\ cs[i] \in Seq(Values)
                                     /\ Len(cs[i]) = Ceiling(s, lbs, i) - lbs[i].height
<1> DEFINE n == Len(lbs)
<1>0. n = Len(lbs)
  OBVIOUS
<1> HIDE DEF n
<1>1. /\ s \in Seq(Values) /\ Len(s) \in Nat /\ DOMAIN lbs = 1 .. n /\ n \in Nat
      /\ \A i \in 1 .. n : /\ lbs[i].height \in Nat /\ Ceiling(s, lbs, i) \in Nat
                           /\ lbs[i].height <= Ceiling(s, lbs, i) /\ Ceiling(s, lbs, i) <= Len(s)
  BY <1>0, LayeredFacts
<1>2. ASSUME NEW i \in 1 .. n
      PROVE  /\ cs[i] = SubSeq(s, lbs[i].height + 1, Ceiling(s, lbs, i))
             /\ cs[i] \in Seq(Values)
             /\ Len(cs[i]) = Ceiling(s, lbs, i) - lbs[i].height
  <2>1. cs[i] = SubSeq(s, lbs[i].height + 1, Ceiling(s, lbs, i))
    BY <1>1 DEF Cut
  <2> DEFINE lo == lbs[i].height
             hi == Ceiling(s, lbs, i)
  <2>2. lo \in Nat /\ hi \in Nat /\ lo <= hi /\ hi <= Len(s)
    BY <1>1
  <2> HIDE DEF lo, hi
  <2>3. SubSeq(s, lo + 1, hi) \in Seq(Values) /\ Len(SubSeq(s, lo + 1, hi)) = hi - lo
    BY <1>1, <2>2
  <2> QED BY <2>1, <2>3 DEF lo, hi
<1>4. cs \in [1 .. n -> Seq(Values)]
  BY <1>1, <1>2 DEF Cut
<1>5. cs \in Seq(Seq(Values)) /\ Len(cs) = n
  BY <1>1, <1>4
<1> QED BY <1>0, <1>2, <1>5
LEMMA SeqsEqual ==
  ASSUME NEW V, NEW x \in Seq(V), NEW y \in Seq(V), Len(x) = Len(y), \A k \in 1 .. Len(x) : x[k] = y[k]
  PROVE  x = y
OBVIOUS

LEMMA PieceIs ==
  ASSUME NEW V, NEW x \in Seq(V), NEW lo \in Nat, NEW hi \in Nat, lo <= hi, hi <= Len(x)
  PROVE  /\ SubSeq(x, lo + 1, hi) \in Seq(V) /\ Len(SubSeq(x, lo + 1, hi)) = hi - lo
         /\ \A k \in 1 .. hi - lo : SubSeq(x, lo + 1, hi)[k] = x[lo + k]
OBVIOUS

LEMMA PiecesSame ==
  ASSUME NEW V, NEW x \in Seq(V), NEW y \in Seq(V), NEW lo \in Nat, NEW hi \in Nat, lo <= hi,
         hi <= Len(x), hi <= Len(y), \A k \in lo + 1 .. hi : x[k] = y[k]
  PROVE  SubSeq(x, lo + 1, hi) = SubSeq(y, lo + 1, hi)
<1> DEFINE a == SubSeq(x, lo + 1, hi)
           b == SubSeq(y, lo + 1, hi)
<1>1. /\ a \in Seq(V) /\ b \in Seq(V) /\ Len(a) = hi - lo /\ Len(b) = hi - lo
      /\ \A k \in 1 .. hi - lo : a[k] = x[lo + k] /\ b[k] = y[lo + k]
  BY PieceIs
<1>2. ASSUME NEW k \in 1 .. hi - lo PROVE lo + k \in lo + 1 .. hi
  OBVIOUS
<1>3. \A k \in 1 .. Len(a) : a[k] = b[k]
  BY <1>1, <1>2
<1> HIDE DEF a, b
<1>4. a = b
  BY <1>1, <1>3, SeqsEqual
<1> QED BY <1>4 DEF a, b

\* A piece in two pieces.
LEMMA PieceSplits ==
  ASSUME NEW V, NEW x \in Seq(V), NEW k \in Nat, k <= Len(x)
  PROVE  /\ SubSeq(x, 1, k) \in Seq(V) /\ Len(SubSeq(x, 1, k)) = k
         /\ SubSeq(x, k + 1, Len(x)) \in Seq(V) /\ Len(SubSeq(x, k + 1, Len(x))) = Len(x) - k
         /\ x = SubSeq(x, 1, k) \o SubSeq(x, k + 1, Len(x))
<1>1. Len(x) \in Nat
  OBVIOUS
<1> DEFINE a == SubSeq(x, 1, k)
           b == SubSeq(x, k + 1, Len(x))
<1>2. /\ a \in Seq(V) /\ Len(a) = k /\ \A j \in 1 .. k : a[j] = x[j]
  OBVIOUS
<1>3. /\ b \in Seq(V) /\ Len(b) = Len(x) - k /\ \A j \in 1 .. Len(x) - k : b[j] = x[k + j]
  BY <1>1, PieceIs
<1> HIDE DEF a, b
<1>4. a \o b \in Seq(V) /\ Len(a \o b) = Len(x)
  BY <1>1, <1>2, <1>3
<1>5. ASSUME NEW j \in 1 .. Len(x) PROVE x[j] = (a \o b)[j]
  <2>1. CASE j <= k
    BY <1>1, <1>2, <1>3, <2>1
  <2>2. CASE j > k
    <3>1. j - k \in 1 .. Len(x) - k /\ k + (j - k) = j
      BY <1>1, <2>2
    <3>2. (a \o b)[j] = b[j - k]
      BY <1>1, <1>2, <1>3, <2>2
    <3>3. b[j - k] = x[k + (j - k)]
      BY <1>3, <3>1
    <3> QED BY <3>1, <3>2, <3>3
  <2>3. j <= k \/ j > k
    BY <1>1
  <2> QED BY <2>1, <2>2, <2>3
<1>6. x = a \o b
  BY <1>4, <1>5, SeqsEqual
<1> QED BY <1>2, <1>3, <1>6 DEF a, b

\* The operands above k, which is not below the innermost label, are replaced.
Retopped(s, lbs, s2, k) ==
  /\ Layered(s, lbs) /\ Layered(s2, lbs)
  /\ k \in Nat /\ lbs[Len(lbs)].height <= k /\ k <= Len(s) /\ k <= Len(s2)
  /\ \A j \in 1 .. k : s2[j] = s[j]

\* So is the end of the innermost context.
LEMMA CutTop ==
  ASSUME NEW s, NEW lbs, NEW s2, NEW k, Retopped(s, lbs, s2, k), NEW n, n = Len(lbs), NEW e, e = lbs[n].height,
         NEW cs, cs = Cut(s, lbs), NEW ds, ds = Cut(s2, lbs)
  PROVE  /\ Len(cs) = n /\ n \in Nat \ {0} /\ e \in Nat /\ Len(s) \in Nat /\ Len(s2) \in Nat
         /\ Len(cs[n]) = Len(s) - e
         /\ SubSeq(ds[n], k - e + 1, Len(ds[n])) \in Seq(Values)
         /\ Len(SubSeq(ds[n], k - e + 1, Len(ds[n]))) = Len(s2) - k
         /\ ds = S!With(cs, S!First(cs[n], k - e) \o SubSeq(ds[n], k - e + 1, Len(ds[n])))
<1> USE DEF Retopped
<1>1. /\ s \in Seq(Values) /\ s2 \in Seq(Values) /\ Len(s) \in Nat /\ Len(s2) \in Nat
      /\ n \in Nat /\ n >= 1 /\ DOMAIN lbs = 1 .. n /\ e \in Nat
      /\ Ceiling(s, lbs, n) = Len(s) /\ Ceiling(s2, lbs, n) = Len(s2)
  BY LayeredFacts
<1>2. /\ cs \in Seq(Seq(Values)) /\ Len(cs) = n
      /\ \A i \in 1 .. n : cs[i] = SubSeq(s, lbs[i].height + 1, Ceiling(s, lbs, i)) /\ cs[i] \in Seq(Values)
  BY CutIs, SMTT(60)
<1>3. /\ ds \in Seq(Seq(Values)) /\ Len(ds) = n
      /\ \A i \in 1 .. n : ds[i] = SubSeq(s2, lbs[i].height + 1, Ceiling(s2, lbs, i)) /\ ds[i] \in Seq(Values)
  BY CutIs, SMTT(60)
<1>4. n \in 1 .. n
  BY <1>1
<1>5. Len(cs[n]) = Len(s) - e /\ Len(ds[n]) = Len(s2) - e
  <2>1. \A i \in 1 .. n : Len(cs[i]) = Ceiling(s, lbs, i) - lbs[i].height
    BY ONLY Layered(s, lbs), n = Len(lbs), cs = Cut(s, lbs), CutIs
  <2>2. \A i \in 1 .. n : Len(ds[i]) = Ceiling(s2, lbs, i) - lbs[i].height
    BY ONLY Layered(s2, lbs), n = Len(lbs), ds = Cut(s2, lbs), CutIs
  <2> QED BY <1>1, <1>4, <2>1, <2>2
<1>6. ASSUME NEW i \in 1 .. n - 1 PROVE ds[i] = cs[i]
  <2> DEFINE lo == lbs[i].height
             hi == lbs[i + 1].height
  <2>1. i \in 1 .. n /\ i + 1 \in 1 .. n /\ i + 1 <= n
    BY <1>1
  <2>2. lo \in Nat /\ hi \in Nat /\ lo <= hi /\ hi <= e
    BY <1>1, <1>4, <2>1, SMTT(60) DEF Layered
  <2>3. Ceiling(s, lbs, i) = hi /\ Ceiling(s2, lbs, i) = hi
    BY LayeredFacts
  <2> HIDE DEF lo, hi
  <2>4. \A j \in lo + 1 .. hi : s[j] = s2[j]
    BY <1>1, <2>2
  <2>5. hi <= Len(s) /\ hi <= Len(s2)
    BY <1>1, <2>2
  <2>6. SubSeq(s, lo + 1, hi) = SubSeq(s2, lo + 1, hi)
    BY <1>1, <2>2, <2>4, <2>5, PiecesSame
  <2> QED BY <1>2, <1>3, <2>1, <2>3, <2>6 DEF lo, hi
<1> DEFINE m == k - e
           top == SubSeq(ds[n], m + 1, Len(ds[n]))
           low == SubSeq(cs[n], 1, m)
<1>7. m \in Nat /\ m <= Len(cs[n]) /\ m <= Len(ds[n])
  BY <1>1, <1>5
<1>8. ds[n] \in Seq(Values) /\ cs[n] \in Seq(Values)
  BY <1>2, <1>3, <1>4
<1>9. /\ top \in Seq(Values) /\ Len(top) = Len(ds[n]) - m /\ ds[n] = SubSeq(ds[n], 1, m) \o top
  <2> HIDE DEF m
  <2> QED BY <1>7, <1>8, PieceSplits
<1>10. SubSeq(ds[n], 1, m) = low
  <2>1. cs[n] = SubSeq(s, e + 1, Len(s)) /\ ds[n] = SubSeq(s2, e + 1, Len(s2))
    BY <1>1, <1>2, <1>3, <1>4
  <2>2. e <= Len(s) /\ e <= Len(s2)
    BY <1>1
  <2>3. \A j \in 1 .. Len(s) - e : SubSeq(s, e + 1, Len(s))[j] = s[e + j]
    BY ONLY <1>1, <2>2, PieceIs
  <2>4. \A j \in 1 .. Len(s2) - e : SubSeq(s2, e + 1, Len(s2))[j] = s2[e + j]
    BY ONLY <1>1, <2>2, PieceIs
  <2>5. ASSUME NEW j \in 1 .. m PROVE cs[n][j] = ds[n][j]
    <3>1. e + j \in 1 .. k /\ j \in 1 .. Len(s) - e /\ j \in 1 .. Len(s2) - e
      BY <1>1
    <3> QED BY <2>1, <2>3, <2>4, <3>1, ZenonT(60)
  <2> HIDE DEF m
  <2>6. SubSeq(cs[n], 0 + 1, m) = SubSeq(ds[n], 0 + 1, m)
    <3>1. \A j \in 0 + 1 .. m : cs[n][j] = ds[n][j]
      BY <2>5
    <3>2. 0 \in Nat /\ 0 <= m
      BY <1>7
    <3> QED BY <1>7, <1>8, <3>1, <3>2, PiecesSame
  <2>7. 0 + 1 = 1
    OBVIOUS
  <2> QED BY <2>6, <2>7
<1>11. ds[n] = low \o top
  BY <1>9, <1>10
<1> DEFINE around == SubSeq(cs, 1, n - 1)
<1>12. around \in Seq(Seq(Values)) /\ Len(around) = n - 1 /\ \A i \in 1 .. n - 1 : around[i] = cs[i]
  BY <1>1, <1>2, SMTT(60)
<1> HIDE DEF low, top, around
<1>13. Append(around, ds[n]) \in Seq(Seq(Values)) /\ Len(Append(around, ds[n])) = n
  BY <1>1, <1>8, <1>12
<1>14. ASSUME NEW i \in 1 .. n PROVE ds[i] = Append(around, ds[n])[i]
  <2>1. CASE i = n
    BY <1>1, <1>12, <2>1
  <2>2. CASE i # n
    <3>1. i \in 1 .. n - 1
      BY <1>1, <2>2
    <3>2. ds[i] = around[i]
      BY <1>6, <1>12, <3>1
    <3> QED BY <1>1, <1>12, <3>1, <3>2
  <2> QED BY <2>1, <2>2
<1>15. ds = Append(around, ds[n])
  BY <1>3, <1>13, <1>14, SeqsEqual
<1>16. ds = Append(around, low \o top)
  BY <1>11, <1>15
<1>17. Len(top) = Len(s2) - k
  <2>1. Len(top) = (Len(s2) - e) - (k - e)
    BY ONLY <1>5, <1>9
  <2> QED BY ONLY <1>1, <2>1, k \in Nat
<1>18. n \in Nat \ {0}
  BY <1>1
<1>19. S!With(cs, low \o top) = Append(around, low \o top)
  BY <1>2 DEF S!With, S!First, around
<1>20. low = S!First(cs[n], m)
  BY DEF low, S!First
<1>21. ds = S!With(cs, S!First(cs[n], m) \o top)
  BY ONLY <1>16, <1>19, <1>20
<1> QED BY ONLY <1>1, <1>2, <1>5, <1>9, <1>17, <1>18, <1>21 DEF top, m
LEMMA FirstOfFirst ==
  ASSUME NEW V, NEW x \in Seq(V), NEW m \in Nat, m <= Len(x), NEW k \in Nat, k <= m
  PROVE  SubSeq(SubSeq(x, 1, m), 1, k) = SubSeq(x, 1, k) /\ Len(SubSeq(x, 1, m)) = m
<1> DEFINE y == SubSeq(x, 1, m)
<1>1. y \in Seq(V) /\ Len(y) = m /\ \A j \in 1 .. m : y[j] = x[j]
  OBVIOUS
<1> HIDE DEF y
<1>2. SubSeq(y, 0 + 1, k) = SubSeq(x, 0 + 1, k)
  <2>1. 0 \in Nat /\ 0 <= k /\ k <= Len(y) /\ k <= Len(x) /\ \A j \in 0 + 1 .. k : y[j] = x[j]
    BY <1>1
  <2> QED BY <1>1, <2>1, PiecesSame
<1>3. SubSeq(y, 1, k) = SubSeq(x, 1, k)
  BY <1>2
<1> QED BY <1>1, <1>3 DEF y

\* The end of a stack that was cut at h and got vs.
LEMMA JoinedPieces ==
  ASSUME NEW V, NEW x \in Seq(V), NEW h \in Nat, h <= Len(x), NEW vs \in Seq(V), NEW t, t = SubSeq(x, 1, h) \o vs
  PROVE  /\ t \in Seq(V) /\ Len(t) = h + Len(vs) /\ Len(vs) \in Nat
         /\ \A j \in 1 .. h : t[j] = x[j]
         /\ \A lo \in 0 .. h : SubSeq(t, lo + 1, Len(t)) = SubSeq(x, lo + 1, h) \o vs
         /\ SubSeq(t, h + 1, Len(t)) = vs
<1> DEFINE y == SubSeq(x, 1, h)
<1>1. y \in Seq(V) /\ Len(y) = h /\ \A j \in 1 .. h : y[j] = x[j]
  OBVIOUS
<1>2. t = y \o vs
  OBVIOUS
<1> HIDE DEF y
<1>3. /\ t \in Seq(V) /\ Len(t) = h + Len(vs) /\ Len(vs) \in Nat
      /\ \A j \in 1 .. h : t[j] = x[j]
      /\ \A j \in 1 .. Len(vs) : t[h + j] = vs[j]
  BY <1>1, <1>2
<1>4. ASSUME NEW lo \in 0 .. h PROVE SubSeq(t, lo + 1, Len(t)) = SubSeq(x, lo + 1, h) \o vs
  <2> DEFINE a == SubSeq(t, lo + 1, Len(t))
             c == SubSeq(x, lo + 1, h)
             n == Len(t) - lo
  <2>1. lo \in Nat /\ lo <= h /\ lo <= Len(t) /\ Len(t) \in Nat
    BY <1>3
  <2>2. a \in Seq(V) /\ Len(a) = n /\ \A j \in 1 .. n : a[j] = t[lo + j]
    BY <1>3, <2>1, PieceIs
  <2>3. c \in Seq(V) /\ Len(c) = h - lo /\ \A j \in 1 .. h - lo : c[j] = x[lo + j]
    BY <2>1, PieceIs
  <2> HIDE DEF a, c
  <2>4. c \o vs \in Seq(V) /\ Len(c \o vs) = n
    <3>1. c \in Seq(V) /\ vs \in Seq(V)
      BY <2>3
    <3>2. c \o vs \in Seq(V) /\ Len(c \o vs) = Len(c) + Len(vs)
      BY ONLY <3>1
    <3>3. Len(c) + Len(vs) = n
      BY ONLY <1>3, <2>1, <2>3, h \in Nat
    <3> QED BY <3>2, <3>3
  <2>5. ASSUME NEW j \in 1 .. n PROVE a[j] = (c \o vs)[j]
    <3>1. CASE j <= h - lo
      <4>1. j \in 1 .. h - lo /\ lo + j \in 1 .. h
        BY <2>1, <3>1
      <4>2. (c \o vs)[j] = c[j]
        BY <2>1, <2>3, <3>1
      <4> QED BY <1>3, <2>2, <2>3, <4>1, <4>2
    <3>2. CASE j > h - lo
      <4> DEFINE m == j - (h - lo)
      <4>1. m \in 1 .. Len(vs) /\ h + m = lo + j
        BY <1>3, <2>1, <3>2
      <4>2. (c \o vs)[j] = vs[m]
        BY <1>3, <2>1, <2>3, <3>2, SMTT(60)
      <4> HIDE DEF m
      <4>3. t[h + m] = vs[m]
        BY <1>3, <4>1
      <4> QED BY <2>2, <4>1, <4>2, <4>3
    <3>3. j <= h - lo \/ j > h - lo
      BY <2>1
    <3> QED BY <3>1, <3>2, <3>3
  <2>6. a = c \o vs
    <3> HIDE DEF n
    <3> QED BY <2>2, <2>4, <2>5, SeqsEqual
  <2> QED BY <2>6 DEF a, c
<1>5. SubSeq(t, h + 1, Len(t)) = vs
  <2> DEFINE a == SubSeq(t, h + 1, Len(t))
  <2>1. h <= Len(t) /\ Len(t) \in Nat /\ Len(t) - h = Len(vs)
    BY <1>3
  <2>2. a \in Seq(V) /\ Len(a) = Len(t) - h /\ \A j \in 1 .. Len(t) - h : a[j] = t[h + j]
    BY <1>3, <2>1, PieceIs, SMTT(60)
  <2> HIDE DEF a
  <2>3. \A j \in 1 .. Len(a) : a[j] = vs[j]
    BY <1>3, <2>1, <2>2
  <2>4. a = vs
    BY <2>1, <2>2, <2>3, SeqsEqual
  <2> QED BY <2>4 DEF a
<1> QED BY <1>3, <1>4, <1>5

\* The operands s2 and the labels kept when label i takes the operands vs.
Unwound(s, lbs, i, vs, s2, k, lbs2) ==
  /\ Layered(s, lbs) /\ i \in 1 .. Len(lbs) /\ vs \in Seq(Values)
  /\ s2 = SubSeq(s, 1, lbs[i].height) \o vs
  /\ k \in 1 .. i /\ k >= i - 1 /\ lbs2 = SubSeq(lbs, 1, k)

LEMMA LabelsKept ==
  ASSUME NEW s, NEW lbs, NEW i, NEW vs, NEW s2, NEW k, NEW lbs2, Unwound(s, lbs, i, vs, s2, k, lbs2)
  PROVE  /\ Len(lbs2) = k /\ DOMAIN lbs2 = 1 .. k /\ k \in Nat /\ i \in Nat /\ k <= Len(lbs) /\ Len(lbs) \in Nat
         /\ \A j \in 1 .. k : lbs2[j] = lbs[j] /\ j \in 1 .. Len(lbs)
<1>1. PICK T : lbs \in Seq(T)
  BY DEF Unwound, Layered
<1>2. k \in Nat /\ i \in Nat /\ k <= Len(lbs) /\ Len(lbs) \in Nat /\ lbs2 = SubSeq(lbs, 1, k)
  BY <1>1 DEF Unwound
<1> QED BY <1>1, <1>2

LEMMA UnwoundLayered ==
  ASSUME NEW s, NEW lbs, NEW i, NEW vs, NEW s2, NEW k, NEW lbs2, Unwound(s, lbs, i, vs, s2, k, lbs2),
         NEW h, h = lbs[i].height
  PROVE  /\ Layered(s2, lbs2) /\ h \in Nat /\ h <= Len(s) /\ Len(s) \in Nat /\ s \in Seq(Values)
         /\ s2 = SubSeq(s, 1, h) \o vs /\ vs \in Seq(Values) /\ s2 \in Seq(Values)
         /\ Len(s2) = h + Len(vs) /\ Len(vs) \in Nat
         /\ \A j \in 1 .. k : lbs[j].height \in Nat /\ lbs[j].height <= h
         /\ \A j \in 1 .. h : s2[j] = s[j]
<1>1. /\ Len(lbs2) = k /\ DOMAIN lbs2 = 1 .. k /\ k \in Nat /\ i \in Nat /\ k <= Len(lbs) /\ Len(lbs) \in Nat
      /\ \A j \in 1 .. k : lbs2[j] = lbs[j] /\ j \in 1 .. Len(lbs)
  BY LabelsKept
<1>2. /\ Layered(s, lbs) /\ i \in 1 .. Len(lbs) /\ vs \in Seq(Values) /\ k >= 1 /\ k <= i
      /\ s2 = SubSeq(s, 1, h) \o vs /\ lbs2 = SubSeq(lbs, 1, k)
  BY DEF Unwound
<1>3. /\ h \in Nat /\ h <= Len(s) /\ Len(s) \in Nat /\ s \in Seq(Values) /\ DOMAIN lbs = 1 .. Len(lbs)
  BY <1>2, LayeredFacts DEF Layered
<1>4. s2 \in Seq(Values) /\ Len(s2) = h + Len(vs) /\ Len(vs) \in Nat /\ \A j \in 1 .. h : s2[j] = s[j]
  BY <1>2, <1>3, JoinedPieces
<1>5. ASSUME NEW j \in 1 .. k PROVE lbs[j].height \in Nat /\ lbs[j].height <= h
  <2>1. j \in DOMAIN lbs /\ i \in DOMAIN lbs /\ j <= i
    BY <1>1, <1>2, <1>3
  <2> QED BY <1>2, <2>1 DEF Layered
<1>6. ASSUME NEW j \in DOMAIN lbs2 PROVE lbs2[j].height \in Nat /\ lbs2[j].height <= Len(s2)
  BY <1>1, <1>3, <1>4, <1>5, SMTT(60)
<1>7. ASSUME NEW j \in DOMAIN lbs2, NEW m \in DOMAIN lbs2, j <= m PROVE lbs2[j].height <= lbs2[m].height
  <2>1. j \in DOMAIN lbs /\ m \in DOMAIN lbs /\ lbs2[j] = lbs[j] /\ lbs2[m] = lbs[m]
    BY <1>1, <1>3
  <2>2. lbs[j].height <= lbs[m].height
    BY <1>2, <1>7, <2>1 DEF Layered
  <2> QED BY <2>1, <2>2
<1>8. lbs2 # << >> /\ lbs2[1].height = 0
  <2>1. 1 \in 1 .. k /\ 1 \in DOMAIN lbs2 /\ lbs[1].height = 0
    BY <1>1, <1>2 DEF Layered
  <2>2. lbs2[1] = lbs[1]
    BY <1>1, <2>1
  <2> QED BY <2>1, <2>2
<1>9. \E T : lbs2 \in Seq(T)
  <2>1. PICK T : lbs \in Seq(T)
    BY <1>2 DEF Layered
  <2>2. lbs2 \in Seq(T)
    BY <1>1, <1>2, <2>1
  <2> QED BY <2>2
<1>10. Layered(s2, lbs2)
  BY <1>4, <1>6, <1>7, <1>8, <1>9 DEF Layered
<1> QED BY <1>2, <1>3, <1>4, <1>5, <1>10

\* The contexts under the innermost one are what they were.
LEMMA CutUnder ==
  ASSUME NEW s, NEW lbs, NEW i, NEW vs, NEW s2, NEW k, NEW lbs2, Unwound(s, lbs, i, vs, s2, k, lbs2),
         NEW cs, cs = Cut(s, lbs), NEW ds, ds = Cut(s2, lbs2)
  PROVE  /\ cs \in Seq(Seq(Values)) /\ Len(cs) = Len(lbs)
         /\ ds \in Seq(Seq(Values)) /\ Len(ds) = k
         /\ \A j \in 1 .. k - 1 : ds[j] = cs[j]
         /\ ds[k] = SubSeq(s2, lbs[k].height + 1, Len(s2))
<1> DEFINE h == lbs[i].height
<1>1. /\ Len(lbs2) = k /\ DOMAIN lbs2 = 1 .. k /\ k \in Nat /\ i \in Nat /\ k <= Len(lbs) /\ Len(lbs) \in Nat
      /\ \A j \in 1 .. k : lbs2[j] = lbs[j] /\ j \in 1 .. Len(lbs)
  BY LabelsKept
<1>2. /\ Layered(s2, lbs2) /\ h \in Nat /\ h <= Len(s) /\ Len(s) \in Nat /\ s \in Seq(Values)
      /\ s2 \in Seq(Values) /\ Len(s2) = h + Len(vs) /\ Len(vs) \in Nat
      /\ \A j \in 1 .. k : lbs[j].height \in Nat /\ lbs[j].height <= h
      /\ \A j \in 1 .. h : s2[j] = s[j]
  BY UnwoundLayered
<1>3. Layered(s, lbs) /\ k >= 1 /\ k \in 1 .. k
  BY <1>1 DEF Unwound
<1>4. /\ cs \in Seq(Seq(Values)) /\ Len(cs) = Len(lbs)
      /\ \A j \in 1 .. Len(lbs) : cs[j] = SubSeq(s, lbs[j].height + 1, Ceiling(s, lbs, j))
  <2>1. Layered(s, lbs)
    BY <1>3
  <2> QED BY ONLY <2>1, cs = Cut(s, lbs), CutIs
<1>5. /\ ds \in Seq(Seq(Values)) /\ Len(ds) = k
      /\ \A j \in 1 .. k : ds[j] = SubSeq(s2, lbs2[j].height + 1, Ceiling(s2, lbs2, j))
  <2>1. Layered(s2, lbs2) /\ Len(lbs2) = k
    BY <1>1, <1>2
  <2> QED BY ONLY <2>1, ds = Cut(s2, lbs2), CutIs
<1> HIDE DEF h
<1>6. ASSUME NEW j \in 1 .. k - 1 PROVE ds[j] = cs[j]
  <2> DEFINE lo == lbs[j].height
             hi == lbs[j + 1].height
  <2>1. j \in 1 .. k /\ j + 1 \in 1 .. k /\ j # k /\ j # Len(lbs)
    BY <1>1
  <2>2. Ceiling(s, lbs, j) = hi /\ Ceiling(s2, lbs2, j) = hi /\ lbs2[j].height = lo
    BY <1>1, <2>1 DEF Ceiling
  <2>3. lo \in Nat /\ hi \in Nat /\ hi <= h
    BY <1>2, <2>1
  <2>4. lo <= hi
    <3>1. DOMAIN lbs = 1 .. Len(lbs)
      BY <1>3, LayeredFacts
    <3>2. j \in 1 .. Len(lbs) /\ j + 1 \in 1 .. Len(lbs) /\ j <= j + 1
      BY <1>1, <2>1
    <3> QED BY <1>3, <3>1, <3>2 DEF Layered
  <2> HIDE DEF lo, hi
  <2>5. hi <= Len(s) /\ hi <= Len(s2) /\ \A m \in lo + 1 .. hi : s[m] = s2[m]
    BY <1>2, <2>3
  <2>6. SubSeq(s, lo + 1, hi) = SubSeq(s2, lo + 1, hi)
    BY <1>2, <2>3, <2>4, <2>5, PiecesSame
  <2>7. cs[j] = SubSeq(s, lo + 1, hi)
    BY <1>1, <1>4, <2>1, <2>2 DEF lo
  <2>8. ds[j] = SubSeq(s2, lo + 1, hi)
    BY <1>1, <1>5, <2>1, <2>2
  <2> QED BY <2>6, <2>7, <2>8
<1>7. ds[k] = SubSeq(s2, lbs[k].height + 1, Len(s2))
  BY <1>1, <1>3, <1>5 DEF Ceiling
<1> QED BY <1>4, <1>5, <1>6, <1>7

\* A label that is kept starts again with the operands it takes.
LEMMA CutAgain ==
  ASSUME NEW s, NEW lbs, NEW i, NEW vs, NEW s2, NEW lbs2, Unwound(s, lbs, i, vs, s2, i, lbs2),
         NEW cs, cs = Cut(s, lbs)
  PROVE  Cut(s2, lbs2) = S!With(S!First(cs, i), vs)
<1> DEFINE ds == Cut(s2, lbs2)
           h == lbs[i].height
<1>1. /\ cs \in Seq(Seq(Values)) /\ Len(cs) = Len(lbs) /\ ds \in Seq(Seq(Values)) /\ Len(ds) = i
      /\ \A j \in 1 .. i - 1 : ds[j] = cs[j]
      /\ ds[i] = SubSeq(s2, h + 1, Len(s2))
  BY CutUnder
<1>2. h \in Nat /\ h <= Len(s) /\ s \in Seq(Values) /\ s2 = SubSeq(s, 1, h) \o vs /\ vs \in Seq(Values)
  BY UnwoundLayered
<1>3. i \in Nat /\ i >= 1 /\ i <= Len(lbs) /\ Len(lbs) \in Nat
  BY LabelsKept DEF Unwound
<1> HIDE DEF ds, h
<1>4. ds[i] = vs
  BY <1>1, <1>2, JoinedPieces
<1> DEFINE around == SubSeq(cs, 1, i - 1)
<1>5. around \in Seq(Seq(Values)) /\ Len(around) = i - 1 /\ \A j \in 1 .. i - 1 : around[j] = cs[j]
  BY <1>1, <1>3
<1> HIDE DEF around
<1>6. Append(around, vs) \in Seq(Seq(Values)) /\ Len(Append(around, vs)) = i
  BY <1>2, <1>3, <1>5
<1>7. ASSUME NEW j \in 1 .. i PROVE ds[j] = Append(around, vs)[j]
  <2>1. CASE j = i
    BY <1>3, <1>4, <1>5, <2>1
  <2>2. CASE j # i
    <3>1. j \in 1 .. i - 1
      BY <1>3, <2>2
    <3> QED BY <1>1, <1>3, <1>5, <3>1, SMTT(60)
  <2> QED BY <2>1, <2>2
<1>8. ds = Append(around, vs)
  BY <1>1, <1>6, <1>7, SeqsEqual
<1>9. SubSeq(SubSeq(cs, 1, i), 1, i - 1) = SubSeq(cs, 1, i - 1) /\ Len(SubSeq(cs, 1, i)) = i
  <2> DEFINE j == i - 1
  <2>1. cs \in Seq(Seq(Values)) /\ i \in Nat /\ i <= Len(cs) /\ j \in Nat /\ j <= i
    BY <1>1, <1>3
  <2> HIDE DEF j
  <2>2. SubSeq(SubSeq(cs, 1, i), 1, j) = SubSeq(cs, 1, j) /\ Len(SubSeq(cs, 1, i)) = i
    BY ONLY <2>1, FirstOfFirst
  <2> QED BY <2>2 DEF j
<1>10. S!With(S!First(cs, i), vs) = Append(around, vs)
  BY <1>9 DEF S!With, S!First, around
<1> QED BY <1>8, <1>10 DEF ds

\* Context k of cs is the innermost one of ds and has got vs.
Gives(cs, ds, k, vs) == ds = S!With(S!First(cs, k), cs[k] \o vs)

\* A label that is left gives the operands it takes to the context around it.
LEMMA CutAround ==
  ASSUME NEW s, NEW lbs, NEW i, i # 1, NEW vs, NEW s2, NEW k, k = i - 1, NEW lbs2, Unwound(s, lbs, i, vs, s2, k, lbs2),
         NEW cs, cs = Cut(s, lbs)
  PROVE  Gives(cs, Cut(s2, lbs2), k, vs)
<1> DEFINE ds == Cut(s2, lbs2)
           h == lbs[i].height
<1>1. /\ k \in Nat /\ k >= 1 /\ k + 1 = i /\ i \in Nat /\ i <= Len(lbs) /\ Len(lbs) \in Nat /\ i - 2 = k - 1
      /\ Layered(s, lbs)
  <2>1. i \in Nat /\ k \in Nat /\ Len(lbs) \in Nat
    BY LabelsKept
  <2>2. i - 1 >= 1 /\ i <= Len(lbs) /\ Layered(s, lbs)
    BY <2>1 DEF Unwound
  <2> QED BY <2>1, <2>2
<1>2. /\ cs \in Seq(Seq(Values)) /\ Len(cs) = Len(lbs) /\ ds \in Seq(Seq(Values)) /\ Len(ds) = k
      /\ \A j \in 1 .. k - 1 : ds[j] = cs[j]
      /\ ds[k] = SubSeq(s2, lbs[k].height + 1, Len(s2))
  BY CutUnder, SMTT(60)
<1>3. /\ h \in Nat /\ h <= Len(s) /\ s \in Seq(Values) /\ s2 = SubSeq(s, 1, h) \o vs /\ vs \in Seq(Values)
      /\ \A j \in 1 .. k : lbs[j].height \in Nat /\ lbs[j].height <= h
  BY UnwoundLayered, SMTT(60)
<1> HIDE DEF ds
<1>4. ds[k] = cs[k] \o vs
  <2> DEFINE lo == lbs[k].height
  <2>1. lo \in 0 .. h /\ k \in 1 .. Len(lbs) /\ k \in 1 .. Len(lbs) - 1
    <3>1. k \in Nat /\ k >= 1 /\ k + 1 <= Len(lbs) /\ Len(lbs) \in Nat /\ h \in Nat
          /\ \A j \in 1 .. k : lbs[j].height \in Nat /\ lbs[j].height <= h
      BY <1>1, <1>3
    <3> QED BY ONLY <3>1
  <2>2. Ceiling(s, lbs, k) = h
    BY <1>1, <2>1, LayeredFacts, ZenonT(60)
  <2>3. cs[k] = SubSeq(s, lo + 1, h)
    <3>1. \A j \in 1 .. Len(lbs) : cs[j] = SubSeq(s, lbs[j].height + 1, Ceiling(s, lbs, j))
      <4>1. Layered(s, lbs)
        BY <1>1
      <4> QED BY ONLY <4>1, cs = Cut(s, lbs), CutIs
    <3> QED BY <2>1, <2>2, <3>1
  <2> HIDE DEF lo, h
  <2>4. SubSeq(s2, lo + 1, Len(s2)) = SubSeq(s, lo + 1, h) \o vs
    <3>1. \A x \in 0 .. h : SubSeq(s2, x + 1, Len(s2)) = SubSeq(s, x + 1, h) \o vs
      BY ONLY <1>3, JoinedPieces, SMTT(60)
    <3> QED BY <2>1, <3>1
  <2> QED BY <1>2, <2>3, <2>4 DEF lo
<1> DEFINE around == SubSeq(cs, 1, i - 2)
           top == cs[k] \o vs
<1>5. around \in Seq(Seq(Values)) /\ Len(around) = k - 1 /\ \A j \in 1 .. k - 1 : around[j] = cs[j]
  <2> DEFINE a == k - 1
  <2>1. /\ cs \in Seq(Seq(Values)) /\ Len(cs) \in Nat /\ a \in Nat /\ a <= Len(cs) /\ k - 1 = a
    BY <1>1, <1>2
  <2>2. around = SubSeq(cs, 1, a)
    BY <1>1
  <2> HIDE DEF around, a
  <2> QED BY ONLY <2>1, <2>2
<1>6. top \in Seq(Values)
  <2>1. cs[k] \in Seq(Values) /\ vs \in Seq(Values)
    BY <1>1, <1>2, <1>3
  <2> QED BY ONLY <2>1
<1> HIDE DEF around, top
<1>7. Append(around, top) \in Seq(Seq(Values)) /\ Len(Append(around, top)) = k
  BY <1>1, <1>5, <1>6
<1>8. ASSUME NEW j \in 1 .. k PROVE ds[j] = Append(around, top)[j]
  <2>1. CASE j = k
    <3>1. ds[k] = top
      BY <1>4 DEF top
    <3>2. Append(around, top)[k] = top
      BY <1>1, <1>5
    <3> QED BY <2>1, <3>1, <3>2
  <2>2. CASE j # k
    <3>1. j \in 1 .. k - 1
      BY <1>1, <2>2
    <3> QED BY <1>1, <1>2, <1>5, <3>1
  <2> QED BY <2>1, <2>2
<1>9. ds = Append(around, top)
  BY <1>2, <1>7, <1>8, SeqsEqual
<1>10. SubSeq(SubSeq(cs, 1, k), 1, k - 1) = SubSeq(cs, 1, k - 1) /\ Len(SubSeq(cs, 1, k)) = k
  <2> DEFINE j == k - 1
  <2>1. cs \in Seq(Seq(Values)) /\ k \in Nat /\ k <= Len(cs) /\ j \in Nat /\ j <= k
    BY <1>1, <1>2
  <2> HIDE DEF j
  <2>2. SubSeq(SubSeq(cs, 1, k), 1, j) = SubSeq(cs, 1, j) /\ Len(SubSeq(cs, 1, k)) = k
    BY ONLY <2>1, FirstOfFirst
  <2> QED BY <2>2 DEF j
<1>11. around = SubSeq(cs, 1, k - 1)
  BY <1>1 DEF around
<1>12. S!With(S!First(cs, k), top) = Append(around, top)
  BY <1>10, <1>11 DEF S!With, S!First
<1>13. ds = S!With(S!First(cs, k), cs[k] \o vs)
  BY <1>9, <1>12 DEF top
<1> QED BY <1>13 DEF ds, Gives
LEMMA PieceOfPiece ==
  ASSUME NEW V, NEW x \in Seq(V), NEW lo \in Nat, NEW hi \in Nat, lo <= hi, hi <= Len(x),
         NEW from \in Nat, NEW to \in Nat, from <= to, to <= hi - lo
  PROVE  SubSeq(SubSeq(x, lo + 1, hi), from + 1, to) = SubSeq(x, lo + from + 1, lo + to)
<1> DEFINE y == SubSeq(x, lo + 1, hi)
           a == SubSeq(y, from + 1, to)
           b == SubSeq(x, lo + from + 1, lo + to)
<1>1. y \in Seq(V) /\ Len(y) = hi - lo /\ \A k \in 1 .. hi - lo : y[k] = x[lo + k]
  BY PieceIs
<1> HIDE DEF y
<1>2. a \in Seq(V) /\ Len(a) = to - from /\ \A k \in 1 .. to - from : a[k] = y[from + k]
  BY <1>1, PieceIs
<1>3. b \in Seq(V) /\ Len(b) = to - from /\ \A k \in 1 .. to - from : b[k] = x[lo + from + k]
  <2> DEFINE l == lo + from
             u == lo + to
  <2>1. l \in Nat /\ u \in Nat /\ l <= u /\ u <= Len(x) /\ u - l = to - from
    BY <1>1
  <2>2. /\ SubSeq(x, l + 1, u) \in Seq(V) /\ Len(SubSeq(x, l + 1, u)) = u - l
        /\ \A k \in 1 .. u - l : SubSeq(x, l + 1, u)[k] = x[l + k]
    <3> HIDE DEF l, u
    <3> QED BY <2>1, PieceIs
  <2> QED BY <2>1, <2>2
<1> HIDE DEF a, b
<1>4. ASSUME NEW k \in 1 .. Len(a) PROVE a[k] = b[k]
  <2>1. k \in 1 .. to - from /\ from + k \in 1 .. hi - lo /\ lo + (from + k) = lo + from + k
    BY <1>2
  <2> QED BY <1>1, <1>2, <1>3, <2>1
<1>5. a = b
  BY <1>2, <1>3, <1>4, SeqsEqual
<1> QED BY <1>5 DEF a, b, y

\* A label is put on top, over the last of the operands s2 that are left of s.
Entered(s, lbs, s2, lbs2, cond, params) ==
  /\ Layered(s, lbs) /\ Layered(s2, lbs2) /\ cond \in {0, 1} /\ params \in Nat
  /\ Len(lbs2) = Len(lbs) + 1 /\ \A i \in 1 .. Len(lbs) : lbs2[i] = lbs[i]
  /\ Len(s2) = Len(s) - cond /\ \A j \in 1 .. Len(s2) : s2[j] = s[j]
  /\ lbs2[Len(lbs) + 1].height = Len(s2) - params

\* ds is cs where the last params of m operands of the innermost context got
\* one of their own.
Nests(cs, ds, m, params) ==
  LET vals == cs[Len(cs)]
  IN  ds = Append(S!With(cs, S!First(vals, m - params)), S!Final(S!First(vals, m), params))

\* The parameters of the new label leave the context that was innermost.
LEMMA CutEntered ==
  ASSUME NEW s, NEW lbs, NEW s2, NEW lbs2, NEW cond, NEW params, Entered(s, lbs, s2, lbs2, cond, params),
         NEW cs, cs = Cut(s, lbs), NEW n, n = Len(lbs), NEW m, m = Len(cs[n]) - cond
  PROVE  /\ Len(cs) = n /\ n \in Nat /\ m \in Nat /\ params <= m /\ cs[n] \in Seq(Values) /\ m <= Len(cs[n])
         /\ Nests(cs, Cut(s2, lbs2), m, params)
<1> DEFINE ds == Cut(s2, lbs2)
           e == lbs[n].height
           h == lbs2[n + 1].height
<1>1. /\ Layered(s, lbs) /\ Layered(s2, lbs2) /\ cond \in {0, 1} /\ params \in Nat
      /\ Len(lbs2) = n + 1 /\ \A i \in 1 .. n : lbs2[i] = lbs[i]
      /\ Len(s2) = Len(s) - cond /\ \A j \in 1 .. Len(s2) : s2[j] = s[j]
      /\ h = Len(s2) - params
  BY DEF Entered
<1>2. /\ s \in Seq(Values) /\ Len(s) \in Nat /\ n \in Nat /\ n >= 1 /\ DOMAIN lbs = 1 .. n
      /\ Ceiling(s, lbs, n) = Len(s) /\ e \in Nat /\ e <= Len(s) /\ n \in 1 .. n
      /\ \A i \in 1 .. n - 1 : Ceiling(s, lbs, i) = lbs[i + 1].height
  <2>1. /\ s \in Seq(Values) /\ Len(s) \in Nat /\ n \in Nat /\ n >= 1 /\ DOMAIN lbs = 1 .. n
        /\ \A i \in 1 .. n : lbs[i].height \in Nat /\ lbs[i].height <= Ceiling(s, lbs, i)
        /\ \A i \in 1 .. n - 1 : Ceiling(s, lbs, i) = lbs[i + 1].height
        /\ Ceiling(s, lbs, n) = Len(s)
    BY ONLY <1>1, n = Len(lbs), LayeredFacts
  <2>2. n \in 1 .. n
    BY <2>1
  <2>3. e \in Nat /\ e <= Len(s)
    BY <2>1, <2>2
  <2> HIDE DEF e
  <2> QED BY <2>1, <2>2, <2>3
<1>3. /\ s2 \in Seq(Values) /\ Len(s2) \in Nat /\ DOMAIN lbs2 = 1 .. n + 1
      /\ Ceiling(s2, lbs2, n + 1) = Len(s2) /\ h \in Nat /\ h <= Len(s2)
      /\ \A i \in 1 .. n : Ceiling(s2, lbs2, i) = lbs2[i + 1].height
  <2>1. n + 1 \in 1 .. n + 1 /\ n + 1 - 1 = n
    BY <1>2
  <2>2. /\ s2 \in Seq(Values) /\ Len(s2) \in Nat /\ DOMAIN lbs2 = 1 .. n + 1
        /\ Ceiling(s2, lbs2, n + 1) = Len(s2)
        /\ \A i \in 1 .. n + 1 : lbs2[i].height \in Nat /\ lbs2[i].height <= Ceiling(s2, lbs2, i)
                                 /\ Ceiling(s2, lbs2, i) <= Len(s2)
        /\ \A i \in 1 .. n + 1 - 1 : Ceiling(s2, lbs2, i) = lbs2[i + 1].height
    <3> DEFINE k == n + 1
    <3>1. Layered(s2, lbs2) /\ k = Len(lbs2)
      BY <1>1
    <3> HIDE DEF k
    <3>2. /\ s2 \in Seq(Values) /\ Len(s2) \in Nat /\ DOMAIN lbs2 = 1 .. k
          /\ Ceiling(s2, lbs2, k) = Len(s2)
          /\ \A i \in 1 .. k : lbs2[i].height \in Nat /\ lbs2[i].height <= Ceiling(s2, lbs2, i)
                                 /\ Ceiling(s2, lbs2, i) <= Len(s2)
          /\ \A i \in 1 .. k - 1 : Ceiling(s2, lbs2, i) = lbs2[i + 1].height
      BY ONLY <3>1, LayeredFacts
    <3> QED BY <3>2 DEF k
  <2> QED BY <2>1, <2>2
<1>4. e <= h
  <2>1. n \in DOMAIN lbs2 /\ n + 1 \in DOMAIN lbs2 /\ n <= n + 1 /\ lbs2[n] = lbs[n]
    BY <1>1, <1>2, <1>3, SMTT(60)
  <2>2. lbs2[n].height <= lbs2[n + 1].height
    BY <1>1, <2>1 DEF Layered
  <2> QED BY <2>1, <2>2
<1>5. /\ cs \in Seq(Seq(Values)) /\ Len(cs) = n
      /\ \A i \in 1 .. n : /\ cs[i] = SubSeq(s, lbs[i].height + 1, Ceiling(s, lbs, i)) /\ cs[i] \in Seq(Values)
                           /\ Len(cs[i]) = Ceiling(s, lbs, i) - lbs[i].height
  <2>1. Layered(s, lbs) /\ n = Len(lbs) /\ cs = Cut(s, lbs)
    BY <1>1
  <2> QED BY ONLY <2>1, CutIs
<1>6. /\ ds \in Seq(Seq(Values)) /\ Len(ds) = n + 1
      /\ \A i \in 1 .. n + 1 : /\ ds[i] = SubSeq(s2, lbs2[i].height + 1, Ceiling(s2, lbs2, i))
                               /\ ds[i] \in Seq(Values)
  BY ONLY <1>1, CutIs
<1> HIDE DEF ds, e, h
<1>7. cs[n] = SubSeq(s, e + 1, Len(s)) /\ Len(cs[n]) = Len(s) - e /\ cs[n] \in Seq(Values)
  BY <1>2, <1>5 DEF e
<1>8. m = Len(s2) - e /\ m \in Nat /\ m - params = h - e /\ params <= m /\ m <= Len(cs[n]) /\ Len(s2) <= Len(s)
  <2>1. m = Len(s) - e - cond /\ cond \in Nat /\ h = Len(s2) - params /\ Len(s2) = Len(s) - cond /\ params \in Nat
    BY <1>1, <1>7
  <2> QED BY ONLY <1>2, <1>3, <1>4, <1>7, <2>1, SMTT(60)
<1> DEFINE low == SubSeq(cs[n], 1, m - params)
           top == SubSeq(SubSeq(cs[n], 1, m), m - params + 1, m)
           around == SubSeq(cs, 1, n - 1)
<1>9. ASSUME NEW i \in 1 .. n - 1 PROVE ds[i] = cs[i]
  <2> DEFINE lo == lbs[i].height
             hi == lbs[i + 1].height
  <2>1. i \in 1 .. n /\ i + 1 \in 1 .. n /\ i \in 1 .. n + 1 /\ i <= i + 1 /\ i + 1 <= n
    BY <1>2
  <2>2. /\ lbs2[i].height = lo /\ lbs2[i + 1].height = hi
        /\ Ceiling(s, lbs, i) = hi /\ Ceiling(s2, lbs2, i) = hi
    BY <1>1, <1>2, <1>3, <2>1
  <2>3. lo \in Nat /\ hi \in Nat /\ lo <= hi /\ hi <= e
    <3>1. i \in DOMAIN lbs /\ i + 1 \in DOMAIN lbs /\ n \in DOMAIN lbs
      BY <1>2, <2>1
    <3> QED BY <1>1, <2>1, <3>1 DEF Layered, e
  <2>4. ds[i] = SubSeq(s2, lo + 1, hi) /\ cs[i] = SubSeq(s, lo + 1, hi)
    BY <1>5, <1>6, <2>1, <2>2
  <2> HIDE DEF lo, hi
  <2>5. hi <= Len(s) /\ hi <= Len(s2)
    BY <1>2, <1>3, <1>4, <2>3
  <2>6. \A j \in lo + 1 .. hi : s2[j] = s[j]
    <3>1. Len(s2) \in Nat /\ \A j \in 1 .. Len(s2) : s2[j] = s[j]
      BY <1>1, <1>3
    <3> QED BY ONLY <2>3, <2>5, <3>1
  <2>7. SubSeq(s2, lo + 1, hi) = SubSeq(s, lo + 1, hi)
    BY <1>2, <1>3, <2>3, <2>5, <2>6, PiecesSame
  <2> QED BY <2>4, <2>7
<1>10. ds[n] = low /\ low \in Seq(Values)
  <2> DEFINE k == m - params
  <2>0. k = h - e /\ e \in Nat /\ h \in Nat /\ e <= h /\ h <= Len(s2) /\ Len(s2) <= Len(s)
        /\ Len(s) \in Nat /\ Len(s2) \in Nat /\ Len(cs[n]) = Len(s) - e
    BY <1>2, <1>3, <1>4, <1>7, <1>8
  <2>1. k = h - e /\ k \in Nat /\ k <= Len(s) - e /\ k <= Len(cs[n])
    <3> HIDE DEF k
    <3> QED BY ONLY <2>0
  <2>2. lbs2[n].height = e /\ Ceiling(s2, lbs2, n) = h /\ n \in 1 .. n + 1
    BY <1>1, <1>2, <1>3 DEF e, h
  <2>3. ds[n] = SubSeq(s2, e + 1, h)
    BY <1>6, <2>2
  <2>4. SubSeq(s2, e + 1, h) = SubSeq(s, e + 1, h)
    <3>1. h <= Len(s) /\ h <= Len(s2)
      BY <1>2, <1>3, <1>8
    <3>2. \A j \in e + 1 .. h : s2[j] = s[j]
      <4>1. Len(s2) \in Nat /\ \A j \in 1 .. Len(s2) : s2[j] = s[j]
        BY <1>1, <1>3
      <4> QED BY ONLY <2>0, <4>1
    <3>3. s \in Seq(Values) /\ s2 \in Seq(Values)
      BY <1>2, <1>3
    <3> QED BY ONLY <2>0, <3>1, <3>2, <3>3, PiecesSame
  <2> HIDE DEF k
  <2>5. SubSeq(cs[n], 0 + 1, k) = SubSeq(s, e + 0 + 1, e + k)
    <3>1. 0 \in Nat /\ 0 <= k /\ Len(s) <= Len(s) /\ s \in Seq(Values) /\ Len(s) \in Nat /\ e \in Nat /\ e <= Len(s)
      BY <1>2, <2>1
    <3>2. SubSeq(SubSeq(s, e + 1, Len(s)), 0 + 1, k) = SubSeq(s, e + 0 + 1, e + k)
      BY ONLY <2>1, <3>1, PieceOfPiece
    <3> QED BY <1>7, <3>2
  <2>6. e + 0 + 1 = e + 1 /\ e + k = h /\ 0 + 1 = 1
    BY <1>2, <1>3, <2>1
  <2>7. SubSeq(cs[n], 1, k) = ds[n]
    BY <2>3, <2>4, <2>5, <2>6
  <2> QED BY <1>2, <1>6, <2>2, <2>7 DEF k
<1>11. ds[n + 1] = top /\ top \in Seq(Values)
  <2>1. n + 1 \in 1 .. n + 1
    BY <1>2
  <2>2. ds[n + 1] = SubSeq(s2, h + 1, Len(s2)) /\ ds[n + 1] \in Seq(Values)
    BY <1>3, <1>6, <2>1 DEF h
  <2>3. SubSeq(s2, h + 1, Len(s2)) = SubSeq(s, h + 1, Len(s2))
    <3>1. \A j \in h + 1 .. Len(s2) : s2[j] = s[j]
      BY <1>1, <1>3, SMTT(60)
    <3> QED BY <1>2, <1>3, <1>8, <3>1, PiecesSame
  <2>4. SubSeq(cs[n], 1, m) = SubSeq(s, e + 1, Len(s2))
    <3>1. 0 \in Nat /\ 0 <= m /\ Len(s) <= Len(s) /\ s \in Seq(Values) /\ Len(s) \in Nat /\ e \in Nat /\ e <= Len(s)
          /\ m \in Nat /\ m <= Len(s) - e
      BY <1>2, <1>7, <1>8
    <3>2. SubSeq(SubSeq(s, e + 1, Len(s)), 0 + 1, m) = SubSeq(s, e + 0 + 1, e + m)
      BY ONLY <3>1, PieceOfPiece
    <3>3. e + 0 + 1 = e + 1 /\ e + m = Len(s2) /\ 0 + 1 = 1
      BY <1>2, <1>3, <1>8, SMTT(60)
    <3> QED BY <1>7, <3>2, <3>3
  <2> DEFINE from == m - params
             hi == Len(s2)
  <2>5. /\ from \in Nat /\ from <= m /\ m <= hi - e /\ hi \in Nat /\ e \in Nat /\ e <= hi /\ hi <= Len(s)
        /\ e + from + 1 = h + 1 /\ e + m = hi /\ m \in Nat /\ s \in Seq(Values)
    <3>1. /\ from = h - e /\ m = hi - e /\ from <= m /\ e \in Nat /\ h \in Nat /\ e <= h /\ h <= hi
          /\ hi <= Len(s) /\ Len(s) \in Nat /\ hi \in Nat /\ s \in Seq(Values) /\ m \in Nat
      <4>1. from = h - e /\ m = hi - e /\ m \in Nat /\ hi <= Len(s)
        BY <1>8
      <4>2. e \in Nat /\ h \in Nat /\ e <= h /\ h <= hi /\ Len(s) \in Nat /\ hi \in Nat /\ s \in Seq(Values)
        BY <1>2, <1>3, <1>4
      <4> HIDE DEF from, hi
      <4>3. from <= m
        BY ONLY <4>1, <4>2, m \in Nat
      <4> QED BY <4>1, <4>2, <4>3
    <3> HIDE DEF from, hi
    <3> QED BY ONLY <3>1
  <2>6. SubSeq(SubSeq(s, e + 1, hi), from + 1, m) = SubSeq(s, e + from + 1, e + m)
    <3> HIDE DEF from, hi
    <3> QED BY ONLY <2>5, PieceOfPiece
  <2>7. top = SubSeq(s, h + 1, Len(s2))
    BY <2>4, <2>5, <2>6
  <2> HIDE DEF top, from, hi
  <2> QED BY <2>2, <2>3, <2>7
<1>12. around \in Seq(Seq(Values)) /\ Len(around) = n - 1 /\ \A i \in 1 .. n - 1 : around[i] = cs[i]
  BY <1>2, <1>5
<1> HIDE DEF low, top, around
<1> DEFINE inner == Append(around, low)
           new == Append(inner, top)
<1>13. /\ inner \in Seq(Seq(Values)) /\ Len(inner) = n /\ inner[n] = low
       /\ \A i \in 1 .. n - 1 : inner[i] = cs[i]
  BY <1>2, <1>10, <1>12
<1> HIDE DEF inner
<1>14. /\ new \in Seq(Seq(Values)) /\ Len(new) = n + 1 /\ new[n + 1] = top
       /\ \A i \in 1 .. n : new[i] = inner[i]
  BY <1>2, <1>11, <1>13
<1> HIDE DEF new
<1>15. ASSUME NEW i \in 1 .. n + 1 PROVE ds[i] = new[i]
  <2>1. i \in 1 .. n - 1 \/ i = n \/ i = n + 1
    BY <1>2
  <2>2. \A j \in 1 .. n - 1 : j \in 1 .. n
    BY <1>2
  <2> QED BY <1>2, <1>9, <1>10, <1>11, <1>13, <1>14, <2>1, <2>2
<1>16. ds = new
  BY <1>6, <1>14, <1>15, SeqsEqual
<1>17. inner = S!With(cs, S!First(cs[n], m - params))
  BY <1>5 DEF S!With, S!First, inner, low, around
<1>18. top = S!Final(S!First(cs[n], m), params)
  <2>1. Len(SubSeq(cs[n], 1, m)) = m
    BY <1>7, <1>8
  <2> QED BY <2>1 DEF S!Final, S!First, top
<1>19. ds = Append(S!With(cs, S!First(cs[n], m - params)), S!Final(S!First(cs[n], m), params))
  BY <1>16, <1>17, <1>18 DEF new
<1>20. Nests(cs, ds, m, params)
  BY <1>5, <1>19 DEF Nests
<1> QED BY <1>2, <1>5, <1>7, <1>8, <1>20 DEF ds

-----------------------------------------------------------------------------
(* A step of a frame *)

\* A frame about to run an instruction other than the final end.
Poised ==
  /\ status = "running"
  /\ Framed(body, History, code, pc, locals, labels) /\ Agrees(stack, History[pc])
  /\ Resolved(body, History, code)

\* A frame goes on where its operands fit, or it is over, without a fault.
Goes ==
  /\ code' = code
  /\ \/ status' \in {"returned", "tail", "trap", "thrown"}
     \/ /\ status' = "running"
        /\ Fits(body, History, code, pc', stack', locals', labels')

LEMMA PoisedFacts ==
  ASSUME Poised
  PROVE  /\ Whole(body, History) /\ Alive(History[pc]) /\ Agrees(stack, History[pc])
         /\ pc \in 1 .. Len(body) /\ Len(body) \in Nat /\ DOMAIN body = 1 .. Len(body) /\ ~History[pc].closed
         /\ ResolvedAt(body, History, pc, code[pc]) /\ IsInstr(body[pc])
         /\ History[pc + 1] \in Rule(History[pc], body[pc])
         /\ code[pc].op = body[pc].op /\ LocalsFit(locals, History[pc].inits)
<1>1. Framed(body, History, code, pc, locals, labels) /\ Agrees(stack, History[pc]) /\ Resolved(body, History, code)
  BY DEF Poised
<1>2. /\ Whole(body, History) /\ pc \in 1 .. Len(body) /\ Len(body) \in Nat /\ DOMAIN body = 1 .. Len(body)
      /\ Firm(History[pc]) /\ ~History[pc].closed
      /\ IsLive(History[pc]) /\ IsInstr(body[pc]) /\ LocalsFit(locals, History[pc].inits)
      /\ History[pc + 1] \in Rule(History[pc], body[pc])
  BY <1>1, FramedFacts
<1>3. ResolvedAt(body, History, pc, code[pc])
  BY <1>1, <1>2 DEF Resolved
<1>4. code[pc].op = body[pc].op
  BY <1>3 DEF ResolvedAt
<1> QED BY <1>1, <1>2, <1>3, <1>4 DEF Alive

\* An instruction without a target is compiled to itself.
LEMMA PlainCode ==
  ASSUME Poised, body[pc].op \notin Openers \cup {"else"} \cup Branches \cup {"br_table"}
  PROVE  code[pc] = body[pc]
BY PoisedFacts DEF ResolvedAt

LEMMA FramedLayered ==
  ASSUME NEW b, NEW h, NEW c, NEW p, NEW ls, NEW lbs, Framed(b, h, c, p, ls, lbs), NEW s, Agrees(s, h[p])
  PROVE  /\ Layered(s, lbs) /\ Len(lbs) \in Nat \ {0}
         /\ lbs[Len(lbs)].height = TopFrame(h[p]).entry /\ TopFrame(h[p]).entry \in Nat
<1>1. /\ Len(lbs) = Len(h[p].ctrl) /\ Len(lbs) \in Nat \ {0} /\ DOMAIN lbs = 1 .. Len(lbs)
      /\ Good(h[p]) /\ h[p] \in States /\ DOMAIN h[p].ctrl = 1 .. Len(lbs)
  BY FramedFacts
<1>2. s \in Seq(Values) /\ Len(s) = h[p].height
  BY DEF Agrees
<1>3. ASSUME NEW i \in DOMAIN lbs
      PROVE  /\ lbs[i].height = h[p].ctrl[i].entry /\ lbs[i].height \in Nat /\ lbs[i].height <= Len(s)
             /\ i = 1 => lbs[i].height = 0
  <2>1. lbs[i].height = h[p].ctrl[i].entry /\ (i = 1 => h[p].ctrl[i].entry = 0)
    BY LabelIs
  <2>2. h[p].ctrl[i].entry \in Nat /\ h[p].ctrl[i].entry <= h[p].height
    BY InsideFrame
  <2> QED BY <1>2, <2>1, <2>2
<1>4. ASSUME NEW i \in DOMAIN lbs, NEW j \in DOMAIN lbs, i <= j
      PROVE  lbs[i].height <= lbs[j].height
  <2>1. CASE i = j
    BY <1>3, <2>1
  <2>2. CASE i # j
    <3>1. i < j /\ i \in DOMAIN h[p].ctrl /\ j \in DOMAIN h[p].ctrl
      BY <1>1, <1>4, <2>2
    <3>2. h[p].ctrl[i].entry <= h[p].ctrl[j].entry
      BY <1>1, <3>1 DEF Good, Nested
    <3> QED BY <1>3, <3>2
  <2> QED BY <2>1, <2>2
<1>5. \E T : lbs \in Seq(T)
  BY DEF Framed
<1>6. lbs # << >> /\ 1 \in DOMAIN lbs /\ Len(lbs) \in DOMAIN lbs
  BY <1>1
<1>7. Layered(s, lbs)
  BY <1>2, <1>3, <1>4, <1>5, <1>6 DEF Layered
<1>8. TopFrame(h[p]) = h[p].ctrl[Len(lbs)]
  BY <1>1 DEF TopFrame, Last
<1> QED BY <1>1, <1>3, <1>6, <1>7, <1>8

LEMMA FitsLayered ==
  ASSUME NEW b, NEW h, Whole(b, h), NEW c, NEW p, NEW s, NEW ls, NEW lbs, Fits(b, h, c, p, s, ls, lbs)
  PROVE  Layered(s, lbs)
<1>1. p \in 1 .. Len(b)
  BY WholeShape DEF Fits
<1>2. CASE p = Len(b)
  <2>1. s \in Seq(Values) /\ lbs = <<FunctionLabel>> /\ Len(s) \in Nat
    BY <1>2, TupleIs, Tables DEF Fits, Outermost
  <2>2. lbs \in Seq({FunctionLabel}) /\ DOMAIN lbs = {1} /\ lbs # << >> /\ lbs[1] = FunctionLabel
    BY <2>1
  <2>3. FunctionLabel.height = 0
    BY DEF FunctionLabel
  <2>4. \A i \in DOMAIN lbs : lbs[i].height \in Nat /\ lbs[i].height <= Len(s)
    BY <2>1, <2>2, <2>3
  <2>5. \A i, j \in DOMAIN lbs : i <= j => lbs[i].height <= lbs[j].height
    BY <2>2, <2>3
  <2> QED BY <2>1, <2>2, <2>3, <2>4, <2>5 DEF Layered
<1>3. CASE p # Len(b)
  <2>1. Inner(b, h, c, p, s, ls, lbs)
    BY <1>3 DEF Fits
  <2> QED BY <1>1, <2>1, InnerFramed, FramedLayered
<1> QED BY <1>2, <1>3

LEMMA PoisedLayered ==
  ASSUME Poised
  PROVE  /\ Layered(stack, labels) /\ Len(labels) \in Nat \ {0} /\ Mode = "running"
         /\ labels[Len(labels)].height = TopFrame(History[pc]).entry /\ TopFrame(History[pc]).entry \in Nat
         /\ stack \in Seq(Values) /\ Len(stack) \in Nat
<1>1. Mode = "running"
  BY DEF Poised, Mode
<1>2. stack \in Seq(Values) /\ Len(stack) \in Nat
  BY DEF Poised, Agrees
<1> QED BY <1>1, <1>2, FramedLayered DEF Poised

LEMMA GoesLayered ==
  ASSUME Poised, Goes, status' = "running"
  PROVE  Layered(stack', labels') /\ Mode' = "running" /\ stack' \in Seq(Values) /\ Len(stack') \in Nat
<1>1. Fits(body, History, code, pc', stack', locals', labels')
  BY DEF Goes
<1>2. Layered(stack', labels')
  BY <1>1, PoisedFacts, FitsLayered
<1>3. Mode' = "running"
  BY DEF Mode
<1>4. stack' \in Seq(Values)
  BY <1>2 DEF Layered
<1> QED BY <1>2, <1>3, <1>4

\* The frame goes on, or ends, in a step of structured control.
Moves == Goes /\ S!Next

\* s is the stack with what an instruction left in place of the operands above
\* k, none of them an operand of an outer label.
Changes(s, k) ==
  /\ k \in Nat /\ TopFrame(History[pc]).entry <= k /\ k <= Len(stack) /\ k <= Len(s)
  /\ Len(stack) - k <= MaxArity /\ Len(s) - k <= MaxArity
  /\ \A j \in 1 .. k : s[j] = stack[j]

LEMMA ComputeMoves ==
  ASSUME Poised, Goes, status' = "running", labels' = labels, NEW k, Changes(stack', k)
  PROVE  Moves
<1> DEFINE s == stack
           t == stack'
           n == Len(labels)
           e == labels[n].height
           cs == Contexts
           ds == Contexts'
           left == k - e
           made == SubSeq(ds[n], left + 1, Len(ds[n]))
<1>1. Retopped(s, labels, t, k) /\ n = Len(labels) /\ e = labels[n].height /\ cs = Cut(s, labels) /\ ds = Cut(t, labels)
  BY PoisedLayered, GoesLayered DEF Changes, Contexts, Retopped
<1>2. /\ k \in Nat /\ e <= k /\ k <= Len(s) /\ k <= Len(t)
      /\ Len(s) - k <= MaxArity /\ Len(t) - k <= MaxArity /\ MaxArity \in Nat
  BY <1>1, ArityAssumption DEF Changes, Retopped
<1>3. Layered(t, labels)
  BY <1>1 DEF Retopped
<1>4. Mode' = Mode /\ Shapes' = Shapes /\ Mode = "running"
  BY PoisedLayered, GoesLayered DEF Shapes
<1> HIDE DEF s, t, n, e, cs, ds
<1>5. /\ Len(cs) = n /\ n \in Nat \ {0} /\ e \in Nat /\ Len(s) \in Nat /\ Len(t) \in Nat
      /\ Len(cs[n]) = Len(s) - e /\ made \in Seq(Values) /\ Len(made) = Len(t) - k
      /\ ds = S!With(cs, S!First(cs[n], left) \o made)
  BY ONLY <1>1, CutTop, SMTT(60)
<1>6. Len(ds) = n
  BY ONLY <1>1, <1>3, CutIs
<1> HIDE DEF made
<1>7. left \in 0 .. Len(cs[n]) /\ Len(cs[n]) - left \in 0 .. MaxArity /\ Len(made) \in 0 .. MaxArity
  BY ONLY <1>2, <1>5
<1>8. made \in UNION {[1 .. a -> Values] : a \in 0 .. MaxArity}
  BY ONLY <1>5, <1>7
<1> HIDE DEF left
<1>9. S!Compute
  <2>1. Len(Contexts) = n /\ Len(Contexts') = n
    BY <1>5, <1>6 DEF cs, ds
  <2>2. /\ left \in 0 .. Len(Contexts[n]) /\ Len(Contexts[n]) - left \in 0 .. MaxArity
        /\ SubSeq(Contexts'[n], left + 1, Len(Contexts'[n])) \in UNION {[1 .. a -> Values] : a \in 0 .. MaxArity}
        /\ Contexts' = S!With(Contexts, S!First(Contexts[n], left) \o SubSeq(Contexts'[n], left + 1, Len(Contexts'[n])))
    BY <1>5, <1>7, <1>8 DEF cs, ds, made
  <2> QED BY <1>4, <2>1, <2>2 DEF S!Compute, S!Vals, S!Depth, S!Arity, S!Pieces
<1> QED BY <1>4, <1>9 DEF Moves, S!Next

LEMMA ShapesAre ==
  ASSUME NEW lbs, \E T : lbs \in Seq(T)
  PROVE  /\ \E U : ShapesOf(lbs) \in Seq(U)
         /\ Len(ShapesOf(lbs)) = Len(lbs) /\ Len(lbs) \in Nat /\ DOMAIN lbs = 1 .. Len(lbs)
         /\ \A i \in 1 .. Len(lbs) : /\ ShapesOf(lbs)[i] = <<lbs[i].results, lbs[i].branch, lbs[i].isLoop>>
                                     /\ ShapesOf(lbs)[i][1] = lbs[i].results
                                     /\ ShapesOf(lbs)[i][2] = lbs[i].branch
<1> DEFINE n == Len(lbs)
           shape(i) == <<lbs[i].results, lbs[i].branch, lbs[i].isLoop>>
           U == {shape(i) : i \in 1 .. n}
           z == ShapesOf(lbs)
<1>1. n \in Nat /\ DOMAIN lbs = 1 .. n
  OBVIOUS
<1>2. z = [i \in 1 .. n |-> shape(i)]
  BY <1>1 DEF ShapesOf
<1>3. \A i \in 1 .. n : shape(i) \in U
  OBVIOUS
<1>4. \A i \in 1 .. n : shape(i)[1] = lbs[i].results /\ shape(i)[2] = lbs[i].branch
  OBVIOUS
<1> HIDE DEF n, shape, U, z
<1>5. z \in [1 .. n -> U]
  BY <1>2, <1>3
<1>6. z \in Seq(U) /\ Len(z) = n
  BY <1>1, <1>5
<1>7. \A i \in 1 .. n : z[i] = shape(i)
  BY <1>2
<1> QED BY <1>1, <1>4, <1>6, <1>7 DEF n, z, shape

\* The shapes of the labels that are kept, or that were there before.
LEMMA ShapesFirst ==
  ASSUME NEW lbs, \E T : lbs \in Seq(T), NEW k \in Nat, k <= Len(lbs),
         NEW lbs2, \E T : lbs2 \in Seq(T), Len(lbs2) = k, \A j \in 1 .. k : lbs2[j] = lbs[j]
  PROVE  ShapesOf(lbs2) = S!First(ShapesOf(lbs), k)
<1> DEFINE z == ShapesOf(lbs)
           y == ShapesOf(lbs2)
<1>1. /\ Len(z) = Len(lbs) /\ Len(lbs) \in Nat
      /\ \A i \in 1 .. Len(lbs) : z[i] = <<lbs[i].results, lbs[i].branch, lbs[i].isLoop>>
  BY ShapesAre
<1>2. /\ Len(y) = k
      /\ \A i \in 1 .. k : y[i] = <<lbs2[i].results, lbs2[i].branch, lbs2[i].isLoop>>
  <2>1. /\ Len(y) = Len(lbs2)
        /\ \A i \in 1 .. Len(lbs2) : y[i] = <<lbs2[i].results, lbs2[i].branch, lbs2[i].isLoop>>
    BY ShapesAre
  <2> QED BY <2>1
<1>3. (\E U : z \in Seq(U)) /\ (\E W : y \in Seq(W))
  BY ShapesAre
<1>4. ASSUME NEW i \in 1 .. k PROVE y[i] = z[i]
  <2>1. i \in 1 .. Len(lbs) /\ lbs2[i] = lbs[i]
    BY <1>1
  <2> QED BY <1>1, <1>2, <2>1
<1> HIDE DEF z, y
<1>5. PICK U : z \in Seq(U)
  BY <1>3
<1>6. PICK W : y \in Seq(W)
  BY <1>3
<1>7. z \in Seq(U \cup W) /\ y \in Seq(U \cup W)
  BY <1>5, <1>6
<1> DEFINE x == SubSeq(z, 1, k)
<1>8. x \in Seq(U \cup W) /\ Len(x) = k /\ \A i \in 1 .. k : x[i] = z[i]
  <2>1. k <= Len(z)
    BY <1>1
  <2> QED BY ONLY <1>7, <2>1, k \in Nat
<1> HIDE DEF x
<1>9. \A i \in 1 .. Len(y) : y[i] = x[i]
  BY <1>2, <1>4, <1>8
<1>10. y = x
  BY <1>2, <1>7, <1>8, <1>9, SeqsEqual
<1> QED BY <1>10 DEF x, y, z, S!First

LEMMA EnterMoves ==
  ASSUME Poised, Goes, status' = "running", NEW l, labels' = Append(labels, l), NEW cond \in {0, 1},
         Len(stack') = Len(stack) - cond, \A j \in 1 .. Len(stack') : stack'[j] = stack[j],
         NEW params \in Nat, params <= MaxArity, l.height = Len(stack') - params
  PROVE  Moves
<1> DEFINE s == stack
           t == stack'
           lbs == labels
           ms == labels'
           n == Len(labels)
           cs == Contexts
           m == Len(cs[n]) - cond
<1>1. /\ Layered(s, lbs) /\ Layered(t, ms) /\ cs = Cut(s, lbs) /\ n = Len(lbs) /\ n \in Nat
      /\ Mode' = Mode /\ Mode = "running"
  BY PoisedLayered, GoesLayered DEF Contexts
<1>2. (\E T : lbs \in Seq(T)) /\ (\E T : ms \in Seq(T))
  BY <1>1 DEF Layered
<1>3. Len(ms) = n + 1 /\ ms[n + 1] = l /\ \A i \in 1 .. n : ms[i] = lbs[i]
  BY <1>2, MoreLabels
<1>4. Entered(s, lbs, t, ms, cond, params)
  BY <1>1, <1>3 DEF Entered
<1>5. ShapesOf(lbs) = S!First(ShapesOf(ms), n) /\ Len(ShapesOf(ms)) = n + 1
  <2>1. n <= Len(ms) /\ \A i \in 1 .. n : lbs[i] = ms[i]
    BY <1>1, <1>3
  <2>2. Len(ShapesOf(ms)) = n + 1
    BY <1>2, <1>3, ShapesAre
  <2> HIDE DEF lbs, ms, n
  <2> QED BY <1>1, <1>2, <2>1, <2>2, ShapesFirst
<1>6. m = Len(cs[n]) - cond
  OBVIOUS
<1> HIDE DEF s, t, lbs, ms, n, cs, m
<1>7. /\ Len(cs) = n /\ m \in Nat /\ params <= m
      /\ Nests(cs, Cut(t, ms), m, params)
  BY ONLY <1>1, <1>4, <1>6, CutEntered
<1>8. params \in 0 .. MaxArity
  BY ArityAssumption
<1>9. /\ Len(Contexts) = n /\ Len(Contexts[n]) - cond = m /\ Len(Shapes') = n + 1 /\ S!First(Shapes', n) = Shapes
      /\ Contexts' = Append(S!With(Contexts, S!First(Contexts[n], m - params)), S!Final(S!First(Contexts[n], m), params))
  BY <1>5, <1>6, <1>7 DEF cs, t, ms, lbs, Contexts, Shapes, Nests
<1>10. S!Enter
  BY <1>1, <1>7, <1>8, <1>9 DEF S!Enter, S!Vals, S!Depth, S!Arity
<1> QED BY <1>1, <1>10 DEF Moves, S!Next

\* A frame that ends has no operands, contexts or labels left.
LEMMA LeaveMoves ==
  ASSUME status = "running", NEW how \in {"returned", "tail", "trap", "thrown"}, NEW s, Leave(how, s)
  PROVE  Moves
<1>1. Goes
  BY DEF Leave, Goes
<1>2. Mode = "running" /\ Mode' = "done"
  BY DEF Leave, Mode
<1>3. labels' = << >>
  BY DEF Leave
<1>4. Contexts' = << >> /\ Shapes' = << >>
  BY <1>3 DEF Contexts, Cut, Shapes, ShapesOf
<1>5. S!Stop
  BY <1>2, <1>4 DEF S!Stop
<1> QED BY <1>1, <1>2, <1>5 DEF Moves, S!Next

\* Label i takes the operands vs and is left, or starts again.
Lifts(i, vs) ==
  /\ i \in DOMAIN labels /\ vs \in Seq(Values) /\ Len(vs) = labels[i].branch
  /\ stack' = SubSeq(stack, 1, labels[i].height) \o vs
  /\ labels' = SubSeq(labels, 1, IF labels[i].isLoop \/ i = 1 THEN i ELSE i - 1)

LEMMA LiftUnwinds ==
  ASSUME Poised, Goes, status' = "running", NEW i, NEW vs, Lifts(i, vs)
  PROVE  S!Unwind(i, vs) /\ Mode = "running" /\ i \in 1 .. Len(Contexts)
<1> DEFINE s == stack
           t == stack'
           lbs == labels
           ms == labels'
           n == Len(labels)
           cs == Contexts
           k == IF labels[i].isLoop \/ i = 1 THEN i ELSE i - 1
<1>1. /\ Layered(s, lbs) /\ Layered(t, ms) /\ cs = Cut(s, lbs) /\ n = Len(lbs) /\ n \in Nat /\ DOMAIN lbs = 1 .. n
      /\ Mode' = Mode /\ Mode = "running" /\ i \in 1 .. n
  <2>1. DOMAIN labels = 1 .. n
    BY PoisedLayered, LayeredFacts
  <2> QED BY <2>1, PoisedLayered, GoesLayered DEF Contexts, Lifts
<1>2. (\E T : lbs \in Seq(T)) /\ (\E T : ms \in Seq(T))
  BY <1>1 DEF Layered
<1>3. k \in 1 .. i /\ k >= i - 1 /\ k \in Nat /\ k <= n
  <2>1. CASE labels[i].isLoop \/ i = 1
    BY <1>1, <2>1
  <2>2. CASE ~(labels[i].isLoop \/ i = 1)
    BY <1>1, <2>2
  <2> QED BY <2>1, <2>2
<1>4. vs \in Seq(Values) /\ t = SubSeq(s, 1, lbs[i].height) \o vs /\ ms = SubSeq(lbs, 1, k)
  BY DEF Lifts
<1>5. Len(ShapesOf(lbs)) = n /\ ShapesOf(lbs)[i] = <<lbs[i].results, lbs[i].branch, lbs[i].isLoop>>
  <2> HIDE DEF lbs
  <2> QED BY <1>1, <1>2, ShapesAre
<1>6. Len(vs) = Shapes[i][2]
  BY <1>5 DEF Lifts, Shapes
<1>7. Shapes[i][3] <=> labels[i].isLoop
  BY <1>5 DEF Shapes
<1> HIDE DEF s, t, lbs, ms, n, cs, k
<1>8. Unwound(s, lbs, i, vs, t, k, ms)
  BY <1>1, <1>3, <1>4 DEF Unwound
<1>9. ShapesOf(ms) = S!First(ShapesOf(lbs), k)
  <2>1. Len(ms) = k /\ \A j \in 1 .. k : ms[j] = lbs[j]
    BY <1>8, LabelsKept
  <2> QED BY <1>1, <1>2, <1>3, <2>1, ShapesFirst
<1>10. Shapes' = S!First(Shapes, k)
  BY <1>9 DEF Shapes, ms, lbs
<1>11. Len(cs) = n
  BY <1>1, CutIs
<1>12. CASE labels[i].isLoop \/ i = 1
  <2>1. k = i
    BY <1>12 DEF k
  <2>2. Unwound(s, lbs, i, vs, t, i, ms)
    BY <1>8, <2>1
  <2>3. Cut(t, ms) = S!With(S!First(cs, i), vs)
    BY ONLY <1>1, <2>2, CutAgain
  <2>4. Contexts' = S!With(S!First(Contexts, i), vs)
    BY <2>3 DEF Contexts, cs, t, ms
  <2>5. Shapes' = S!First(Shapes, i)
    BY <1>10, <2>1
  <2> QED BY <1>1, <1>6, <1>7, <1>11, <1>12, <2>4, <2>5 DEF S!Unwind, cs
<1>13. CASE ~(labels[i].isLoop \/ i = 1)
  <2>1. k = i - 1 /\ i # 1
    BY <1>13 DEF k
  <2>3. Gives(cs, Cut(t, ms), k, vs)
    BY ONLY <1>1, <1>8, <2>1, CutAround
  <2>4. Contexts' = S!With(S!First(Contexts, i - 1), Contexts[i - 1] \o vs)
    BY <2>1, <2>3 DEF Contexts, cs, t, ms, Gives
  <2>5. Shapes' = S!First(Shapes, i - 1)
    BY <1>10, <2>1
  <2> QED BY <1>1, <1>6, <1>7, <1>11, <1>13, <2>4, <2>5 DEF S!Unwind, cs
<1> QED BY <1>12, <1>13

\* A handler takes what the exception carries.
LEMMA CaughtMoves ==
  ASSUME Poised, Goes, status' = "running", NEW i, NEW vs, Lifts(i, vs)
  PROVE  Moves
<1>1. S!Unwind(i, vs) /\ Mode = "running" /\ i \in 1 .. Len(Contexts)
  BY LiftUnwinds
<1>2. vs \in [1 .. Shapes[i][2] -> Values]
  <2>1. Len(vs) = Shapes[i][2]
    BY <1>1 DEF S!Unwind
  <2>2. vs \in Seq(Values)
    BY DEF Lifts
  <2>3. vs \in [1 .. Len(vs) -> Values]
    BY <2>2
  <2> QED BY <2>1, <2>3
<1>3. S!Caught
  BY <1>1, <1>2 DEF S!Caught, S!Depth
<1> QED BY <1>1, <1>3 DEF Moves, S!Next

\* s is the stack, perhaps without a condition that was on top.
Left(s, cond) ==
  /\ cond \in {0, 1} /\ s \in Seq(Values) /\ Len(s) = Len(stack) - cond
  /\ \A j \in 1 .. Len(s) : s[j] = stack[j]

LEMMA LeftStack ==
  ASSUME Poised
  PROVE  Left(stack, 0) /\ (stack # << >> => Left(Front(stack), 1))
<1>1. stack \in Seq(Values) /\ Len(stack) \in Nat
  BY PoisedLayered
<1>2. Left(stack, 0)
  BY <1>1 DEF Left
<1>3. ASSUME stack # << >> PROVE Left(Front(stack), 1)
  <2>1. /\ Front(stack) \in Seq(Values) /\ Len(Front(stack)) = Len(stack) - 1
        /\ \A j \in 1 .. Len(stack) - 1 : Front(stack)[j] = stack[j]
    BY <1>1, <1>3, FrontIs
  <2> QED BY <2>1 DEF Left
<1> QED BY <1>2, <1>3

\* What is on top of s is on top of the innermost context.
LEMMA TopOfContext ==
  ASSUME Poised, NEW s, NEW cond, Left(s, cond), NEW b \in Nat, TopFrame(History[pc]).entry + b <= Len(s),
         NEW vals, vals = Contexts[Len(Contexts)]
  PROVE  /\ Len(Contexts) = Len(labels) /\ Len(vals) \in Nat /\ b + cond <= Len(vals)
         /\ Top(s, b) = S!Final(S!First(vals, Len(vals) - cond), b)
<1> DEFINE n == Len(labels)
           e == TopFrame(History[pc]).entry
           t == stack
           m == Len(vals) - cond
           first == SubSeq(vals, 1, m)
<1>1. /\ Layered(t, labels) /\ n \in Nat \ {0} /\ labels[n].height = e /\ e \in Nat
      /\ t \in Seq(Values) /\ Len(t) \in Nat
  BY PoisedLayered
<1>2. /\ cond \in {0, 1} /\ s \in Seq(Values) /\ Len(s) = Len(t) - cond /\ Len(s) \in Nat
      /\ \A j \in 1 .. Len(s) : s[j] = t[j]
  BY DEF Left
<1>3. Ceiling(t, labels, n) = Len(t)
  BY <1>1, LayeredFacts
<1>4. Len(Contexts) = n /\ vals = SubSeq(t, e + 1, Len(t)) /\ Len(vals) = Len(t) - e
  <2>1. /\ Len(Contexts) = Len(labels)
        /\ \A i \in 1 .. Len(labels) : /\ Contexts[i] = SubSeq(stack, labels[i].height + 1, Ceiling(stack, labels, i))
                                       /\ Len(Contexts[i]) = Ceiling(stack, labels, i) - labels[i].height
    BY <1>1, CutIs, SMTT(60) DEF Contexts
  <2>2. n \in 1 .. Len(labels)
    BY <1>1
  <2> QED BY <1>1, <1>3, <2>1, <2>2
<1> HIDE DEF n, e, t
<1>5. /\ e <= Len(t) /\ m \in Nat /\ m = Len(s) - e /\ b <= m /\ m <= Len(t) - e /\ b + cond <= Len(vals)
      /\ Len(s) <= Len(t) /\ e + m = Len(s) /\ Len(vals) \in Nat /\ m - b \in Nat /\ e + (m - b) = Len(s) - b
      /\ Len(s) - b \in Nat /\ e + b <= Len(s)
  <2>1. e + b <= Len(s)
    BY DEF e
  <2> QED BY <1>1, <1>2, <1>4, <2>1
<1> HIDE DEF m
<1>6. first = SubSeq(t, e + 1, Len(s)) /\ Len(first) = m
  <2>1. first = SubSeq(t, e + 0 + 1, e + m)
    BY <1>1, <1>4, <1>5, PieceOfPiece, SMTT(60)
  <2>2. e + 0 = e
    BY <1>1
  <2>3. e <= Len(s)
    BY <1>1, <1>5
  <2> QED BY <1>1, <1>2, <1>5, <2>1, <2>2, <2>3, PieceIs, SMTT(60)
<1> HIDE DEF first
<1>7. SubSeq(first, (m - b) + 1, m) = SubSeq(t, e + (m - b) + 1, e + m)
  <2> DEFINE from == m - b
             hi == Len(s)
  <2>1. e <= hi /\ m <= hi - e /\ from <= m /\ from \in Nat /\ m \in Nat /\ hi \in Nat /\ e \in Nat
    BY <1>1, <1>2, <1>5
  <2>2. hi <= Len(t) /\ first = SubSeq(t, e + 1, hi) /\ t \in Seq(Values)
    BY <1>1, <1>5, <1>6
  <2> HIDE DEF from, hi
  <2>3. SubSeq(SubSeq(t, e + 1, hi), from + 1, m) = SubSeq(t, e + from + 1, e + m)
    BY ONLY <2>1, <2>2, PieceOfPiece
  <2> QED BY <2>2, <2>3 DEF from
<1>8. SubSeq(t, (Len(s) - b) + 1, Len(s)) = SubSeq(s, (Len(s) - b) + 1, Len(s))
  <2> DEFINE lo == Len(s) - b
             hi == Len(s)
  <2>1. lo <= hi /\ lo \in Nat /\ hi \in Nat /\ hi <= Len(t) /\ hi <= Len(s)
    BY <1>1, <1>2, <1>5
  <2>2. \A j \in lo + 1 .. hi : t[j] = s[j]
    BY <1>2, <1>5, SMTT(60)
  <2> HIDE DEF lo, hi
  <2>3. SubSeq(t, lo + 1, hi) = SubSeq(s, lo + 1, hi)
    BY ONLY <1>1, <1>2, <2>1, <2>2, PiecesSame
  <2> QED BY <2>3 DEF lo, hi
<1>9. Top(s, b) = SubSeq(s, (Len(s) - b) + 1, Len(s))
  BY DEF Top
<1>10. S!Final(S!First(vals, m), b) = SubSeq(first, (m - b) + 1, m)
  BY <1>6 DEF S!Final, S!First, first
<1> QED BY <1>4, <1>5, <1>7, <1>8, <1>9, <1>10 DEF n, m

LEMMA BranchMoves ==
  ASSUME Poised, Goes, status' = "running", NEW i, NEW s, NEW cond, Left(s, cond), NEW vs, Lifts(i, vs),
         TopFrame(History[pc]).entry + labels[i].branch <= Len(s), vs = Top(s, labels[i].branch)
  PROVE  Moves
<1> DEFINE b == labels[i].branch
           vals == Contexts[Len(Contexts)]
<1>1. S!Unwind(i, vs) /\ Mode = "running" /\ i \in 1 .. Len(Contexts)
  BY LiftUnwinds
<1>2. b \in Nat /\ Shapes[i][2] = b
  <2>1. Len(vs) = b /\ vs \in Seq(Values)
    BY DEF Lifts
  <2>2. Len(vs) = Shapes[i][2]
    BY <1>1 DEF S!Unwind
  <2> QED BY <2>1, <2>2
<1>3. b + cond <= Len(vals) /\ vs = S!Final(S!First(vals, Len(vals) - cond), b)
  <2>1. TopFrame(History[pc]).entry + b <= Len(s) /\ vs = Top(s, b) /\ vals = Contexts[Len(Contexts)]
    OBVIOUS
  <2> HIDE DEF b, vals
  <2> QED BY <1>2, <2>1, TopOfContext
<1>4. cond \in {0, 1}
  BY DEF Left
<1>5. S!Branch
  <2>1. /\ Shapes[i][2] + cond <= Len(Contexts[Len(Contexts)])
        /\ vs = S!Final(S!First(Contexts[Len(Contexts)], Len(Contexts[Len(Contexts)]) - cond), Shapes[i][2])
    BY <1>2, <1>3
  <2> QED BY <1>1, <1>4, <2>1 DEF S!Branch, S!Depth, S!Vals
<1> QED BY <1>1, <1>5 DEF Moves, S!Next

\* A label that is left at its end holds its results and nothing else.
LEMMA ExitMoves ==
  ASSUME Poised, Goes, status' = "running", Len(labels) > 1, NEW l, l = Last(labels), l.results \in Nat,
         Len(stack) = l.height + l.results, stack' = Normalize(stack, l.height, l.results), labels' = Front(labels)
  PROVE  Moves
<1> DEFINE s == stack
           t == stack'
           lbs == labels
           ms == labels'
           i == Len(labels)
           k == Len(labels) - 1
           vs == Top(stack, l.results)
           cs == Contexts
<1>1. /\ Layered(s, lbs) /\ cs = Cut(s, lbs) /\ Mode' = Mode /\ Mode = "running"
      /\ i \in Nat /\ i > 1 /\ k = i - 1 /\ k \in 1 .. i /\ k >= i - 1 /\ i # 1 /\ i \in 1 .. Len(lbs) /\ k \in Nat
      /\ k <= Len(lbs) /\ i = Len(lbs)
      /\ lbs[i] = l /\ l.height \in Nat /\ s \in Seq(Values) /\ Len(s) \in Nat
  <2>1. /\ Layered(s, lbs) /\ i \in Nat \ {0} /\ Mode' = Mode /\ Mode = "running"
        /\ s \in Seq(Values) /\ Len(s) \in Nat /\ TopFrame(History[pc]).entry \in Nat
        /\ lbs[i].height = TopFrame(History[pc]).entry
    BY PoisedLayered, GoesLayered
  <2>2. lbs[i] = l
    BY DEF Last
  <2> QED BY <2>1, <2>2 DEF Contexts
<1>2. \E T : lbs \in Seq(T)
  BY <1>1 DEF Layered
<1>3. ms = SubSeq(lbs, 1, k) /\ t = SubSeq(s, 1, lbs[i].height) \o vs
  BY <1>1 DEF Front, Normalize
<1>4. vs \in Seq(Values) /\ Len(vs) = l.results /\ vs = SubSeq(s, lbs[i].height + 1, Len(s))
  <2>1. vs = SubSeq(s, Len(s) - l.results + 1, Len(s))
    BY DEF Top
  <2>2. Len(s) - l.results = l.height /\ l.height <= Len(s) /\ Len(s) - l.height = l.results
    BY <1>1
  <2>3. vs = SubSeq(s, l.height + 1, Len(s))
    BY <2>1, <2>2
  <2>4. l.height \in Nat /\ Len(s) \in Nat /\ s \in Seq(Values) /\ lbs[i] = l
    BY <1>1
  <2> DEFINE lo == l.height
             hi == Len(s)
  <2>5. lo <= hi /\ hi <= Len(s) /\ lo \in Nat /\ hi \in Nat
    BY <2>2, <2>4
  <2> HIDE DEF vs, s, lo, hi
  <2>6. SubSeq(s, lo + 1, hi) \in Seq(Values) /\ Len(SubSeq(s, lo + 1, hi)) = hi - lo
    BY ONLY <2>4, <2>5, PieceIs
  <2> QED BY <2>2, <2>3, <2>4, <2>6 DEF lo, hi
<1>5. cs[i] = vs /\ Len(cs) = i
  <2>1. Len(cs) = Len(lbs) /\ cs[i] = SubSeq(s, lbs[i].height + 1, Ceiling(s, lbs, i))
    <3> HIDE DEF s, lbs, i, cs
    <3> QED BY <1>1, CutIs, SMTT(60)
  <2>2. Ceiling(s, lbs, i) = Len(s)
    BY <1>1, LayeredFacts
  <2> QED BY <1>1, <1>4, <2>1, <2>2
<1>6. Shapes[i][1] = l.results
  <2>1. ShapesOf(lbs)[i][1] = lbs[i].results
    BY <1>1, <1>2, ShapesAre
  <2> QED BY <1>1, <2>1 DEF Shapes
<1> HIDE DEF s, t, lbs, ms, i, k, vs, cs
<1>7. Unwound(s, lbs, i, vs, t, k, ms)
  BY <1>1, <1>3, <1>4 DEF Unwound
<1>8. Gives(cs, Cut(t, ms), k, vs)
  BY ONLY <1>1, <1>7, CutAround
<1>9. Shapes' = S!First(Shapes, i - 1)
  <2>1. Len(ms) = k /\ \A j \in 1 .. k : ms[j] = lbs[j]
    BY <1>7, LabelsKept
  <2>2. \E T : ms \in Seq(T)
    <3>1. Layered(t, ms)
      BY <1>7, UnwoundLayered
    <3> QED BY <3>1 DEF Layered
  <2>3. ShapesOf(ms) = S!First(ShapesOf(lbs), k)
    BY <1>1, <1>2, <2>1, <2>2, ShapesFirst
  <2> QED BY <1>1, <2>3 DEF Shapes, lbs, ms
<1>10. Contexts' = S!With(S!First(Contexts, i - 1), Contexts[i - 1] \o Contexts[i])
  BY <1>1, <1>5, <1>8 DEF Contexts, cs, t, ms, Gives
<1>11. S!Exit
  <2>1. Len(Contexts) = i /\ Len(Contexts[i]) = Shapes[i][1]
    BY <1>4, <1>5, <1>6 DEF cs
  <2> QED BY <1>1, <1>9, <1>10, <2>1 DEF S!Exit, S!Depth, S!Vals
<1> QED BY <1>1, <1>11 DEF Moves, S!Next

LEMMA GotoGoes ==
  ASSUME Poised, NEW n, NEW s, NEW lbs, Goto(n, s, lbs), Fits(body, History, code, n, s, locals, lbs)
  PROVE  Goes /\ status' = "running" /\ stack' = s /\ labels' = lbs
BY DEF Poised, Goto, Goes

\* Quiet instructions take and leave a few operands above k.
LEMMA AdvanceMoves ==
  ASSUME Poised, body[pc].op \notin Openers \cup {"end"}, Quiet(History[pc], History[pc + 1]),
         NEW s, Agrees(s, History[pc + 1]), Advance(s), NEW k, Changes(s, k)
  PROVE  Moves
<1>1. Fits(body, History, code, pc + 1, s, locals, labels)
  BY QuietGoesNext DEF Poised
<1>2. Goes /\ status' = "running" /\ stack' = s /\ labels' = labels
  BY <1>1, GotoGoes DEF Advance
<1>3. Changes(stack', k)
  BY <1>2
<1> QED BY <1>2, <1>3, ComputeMoves

LEMMA QuietRoom ==
  ASSUME Poised, Quiet(History[pc], History[pc + 1]), NEW s, Agrees(s, History[pc + 1])
  PROVE  s \in Seq(Values) /\ TopFrame(History[pc]).entry <= Len(s)
<1>1. Alive(History[pc + 1]) /\ TopFrame(History[pc + 1]) = TopFrame(History[pc])
  BY PoisedFacts, AliveQuiet
<1>2. TopFrame(History[pc + 1]).entry <= History[pc + 1].height
  BY <1>1, AliveFacts
<1> QED BY <1>1, <1>2 DEF Agrees

LEMMA SmallChanges ==
  ASSUME Poised, NEW s \in Seq(Values), TopFrame(History[pc]).entry <= Len(s)
  PROVE  /\ s = stack => Changes(s, Len(stack))
         /\ \A x \in Values : s = Append(stack, x) => Changes(s, Len(stack))
         /\ stack # << >> /\ s = Front(stack) => Changes(s, Len(s))
<1> DEFINE e == TopFrame(History[pc]).entry
<1>1. stack \in Seq(Values) /\ Len(stack) \in Nat /\ e \in Nat /\ MaxArity \in Nat /\ MaxArity >= 3
  BY PoisedLayered, ArityAssumption
<1>2. Alive(History[pc]) /\ Agrees(stack, History[pc])
  BY PoisedFacts
<1>3. e <= Len(stack)
  BY <1>2, AliveFacts DEF Agrees
<1>4. e <= Len(s) /\ Len(s) \in Nat
  OBVIOUS
<1>5. ASSUME s = stack PROVE Changes(s, Len(stack))
  BY <1>1, <1>3, <1>5 DEF Changes
<1>6. ASSUME NEW x \in Values, s = Append(stack, x) PROVE Changes(s, Len(stack))
  <2>1. Len(s) = Len(stack) + 1 /\ \A j \in 1 .. Len(stack) : s[j] = stack[j]
    BY <1>1, <1>6
  <2> QED BY <1>1, <1>3, <2>1 DEF Changes
<1>7. ASSUME stack # << >>, s = Front(stack) PROVE Changes(s, Len(s))
  <2>1. Len(s) = Len(stack) - 1 /\ \A j \in 1 .. Len(stack) - 1 : s[j] = stack[j]
    BY <1>1, <1>7, FrontIs
  <2> QED BY <1>1, <1>4, <2>1 DEF Changes
<1> QED BY <1>5, <1>6, <1>7

LEMMA LabelGoes ==
  ASSUME Poised, NEW s, NEW i, NEW x, i \in DOMAIN labels,
         CanNormalize(s, labels[i].height, labels[i].branch),
         Fits(body, History, code, x + 1, Normalize(s, labels[i].height, labels[i].branch), locals,
              SubSeq(labels, 1, IF labels[i].isLoop \/ i = 1 THEN i ELSE i - 1)),
         BranchToLabel(s, i, x)
  PROVE  /\ Goes /\ status' = "running"
         /\ stack' = SubSeq(s, 1, labels[i].height) \o Top(s, labels[i].branch)
         /\ labels' = SubSeq(labels, 1, IF labels[i].isLoop \/ i = 1 THEN i ELSE i - 1)
<1> DEFINE lbs == SubSeq(labels, 1, IF labels[i].isLoop \/ i = 1 THEN i ELSE i - 1)
           t == Normalize(s, labels[i].height, labels[i].branch)
<1>1. Goto(x + 1, t, lbs)
  BY DEF BranchToLabel, KeptLabels
<1>2. t = SubSeq(s, 1, labels[i].height) \o Top(s, labels[i].branch)
  BY DEF Normalize
<1>3. Fits(body, History, code, x + 1, t, locals, lbs)
  OBVIOUS
<1> HIDE DEF t, lbs
<1>4. Goes /\ status' = "running" /\ stack' = t /\ labels' = lbs
  BY <1>1, <1>3, GotoGoes
<1> QED BY <1>2, <1>4 DEF lbs

LEMMA BranchToMoves ==
  ASSUME Poised, NEW depth \in Nat, NEW t, TargetOK(body, History, pc, depth, t),
         NEW s, Feeds(History[pc], depth, s), BranchTo(s, t), NEW cond, Left(s, cond)
  PROVE  Moves
<1> DEFINE i == Len(labels) - t.depth
           l == labels[i]
           b == l.branch
           vs == Top(s, b)
<1>1. i = Len(labels) - t.depth
  OBVIOUS
<1>2. BranchToLabel(s, i, t.pc)
  BY DEF BranchTo
<1> HIDE DEF i
<1>3. /\ i \in DOMAIN labels /\ CanNormalize(s, labels[i].height, labels[i].branch)
      /\ TopFrame(History[pc]).entry + labels[i].branch <= Len(s)
      /\ Fits(body, History, code, t.pc + 1, Normalize(s, labels[i].height, labels[i].branch), locals,
              SubSeq(labels, 1, IF labels[i].isLoop \/ i = 1 THEN i ELSE i - 1))
  BY <1>1, BranchGoes DEF Poised
<1>4. /\ Goes /\ status' = "running" /\ stack' = SubSeq(s, 1, l.height) \o vs
      /\ labels' = SubSeq(labels, 1, IF labels[i].isLoop \/ i = 1 THEN i ELSE i - 1)
  BY <1>2, <1>3, LabelGoes
<1>5. /\ l.height \in Nat /\ b \in Nat /\ b <= Len(s) /\ l.height <= Len(s)
      /\ s \in Seq(Values) /\ Len(s) \in Nat
  <2>1. b \in Nat
    <3>1. b = Len(LabelTypes(History[pc].ctrl[i])) /\ LabelTypes(History[pc].ctrl[i]) \in Seq(ValueTypes)
      BY <1>3, LabelIs DEF Poised
    <3> QED BY <3>1
  <2>2. l.height \in Nat
    BY <1>3, PoisedLayered DEF Layered
  <2>3. s \in Seq(Values)
    BY DEF Left
  <2> HIDE DEF b, l
  <2> QED BY <1>3, <2>1, <2>2, <2>3 DEF CanNormalize, b, l
<1>6. SubSeq(s, 1, l.height) = SubSeq(stack, 1, l.height)
  <2>1. /\ stack \in Seq(Values) /\ Len(stack) \in Nat /\ Len(s) <= Len(stack)
        /\ \A j \in 1 .. Len(s) : s[j] = stack[j]
    BY PoisedLayered DEF Left
  <2> HIDE DEF l
  <2>2. l.height <= Len(stack) /\ 0 <= l.height /\ \A j \in 0 + 1 .. l.height : s[j] = stack[j]
    BY <1>5, <2>1
  <2>3. SubSeq(s, 0 + 1, l.height) = SubSeq(stack, 0 + 1, l.height)
    BY <1>5, <2>1, <2>2, PiecesSame
  <2>4. 0 + 1 = 1
    OBVIOUS
  <2> QED BY <2>3, <2>4, Zenon DEF l
<1>7. vs \in Seq(Values) /\ Len(vs) = b
  <2> HIDE DEF b
  <2> QED BY <1>5, SplitIs
<1>8. Lifts(i, vs)
  BY <1>3, <1>4, <1>6, <1>7 DEF Lifts
<1>9. TopFrame(History[pc]).entry + labels[i].branch <= Len(s) /\ vs = Top(s, labels[i].branch)
  BY <1>3
<1> HIDE DEF vs, b, l
<1> QED BY <1>4, <1>8, <1>9, BranchMoves

\* vals is s, which was the first part of t, with the values vs on top.
Joined(s, t, vs, vals, height) ==
  /\ s \in Seq(Values) /\ t \in Seq(Values) /\ Len(s) <= Len(t) /\ \A j \in 1 .. Len(s) : s[j] = t[j]
  /\ vs \in Seq(Values) /\ vals = s \o vs /\ height \in Nat /\ height <= Len(s)

\* What is on top and what is left of t.
Parted(vals, vs, t, height) ==
  Top(vals, Len(vs)) = vs /\ SubSeq(vals, 1, height) = SubSeq(t, 1, height)

LEMMA JoinedParts ==
  ASSUME NEW s, NEW t, NEW vs, NEW vals, NEW height, Joined(s, t, vs, vals, height)
  PROVE  Parted(vals, vs, t, height)
<1> DEFINE m == Len(s)
           n == Len(vs)
           whole == SubSeq(s, 1, m) \o vs
<1>1. /\ s \in Seq(Values) /\ t \in Seq(Values) /\ vs \in Seq(Values) /\ vals = s \o vs
      /\ m \in Nat /\ n \in Nat /\ Len(t) \in Nat /\ height \in Nat /\ height <= m /\ m <= Len(t) /\ m <= Len(s)
      /\ \A j \in 1 .. m : s[j] = t[j]
  BY DEF Joined
<1>2. s = SubSeq(s, 1, m)
  BY <1>1
<1>3. vals = whole
  BY <1>1, <1>2
<1> HIDE DEF m, whole
<1>4. /\ whole \in Seq(Values) /\ Len(whole) = m + n /\ \A j \in 1 .. m : whole[j] = s[j]
  <2>1. m \in Nat /\ m <= Len(s) /\ s \in Seq(Values) /\ vs \in Seq(Values) /\ whole = SubSeq(s, 1, m) \o vs
    BY <1>1 DEF whole
  <2>2. whole \in Seq(Values) /\ Len(whole) = m + Len(vs) /\ \A j \in 1 .. m : whole[j] = s[j]
    BY ONLY <2>1, JoinedPieces
  <2> QED BY <2>2
<1>5. SubSeq(whole, m + 1, Len(whole)) = vs
  BY <1>1, JoinedPieces DEF whole
<1>6. Top(whole, n) = vs
  <2>1. Len(whole) - n + 1 = m + 1
    BY <1>1, <1>4
  <2> QED BY <1>5, <2>1 DEF Top
<1>7. SubSeq(whole, 1, height) = SubSeq(t, 1, height)
  <2> DEFINE lo == 0
  <2>1. /\ lo \in Nat /\ lo <= height /\ height <= Len(whole) /\ height <= Len(t)
        /\ \A j \in lo + 1 .. height : whole[j] = t[j]
    BY <1>1, <1>4
  <2>2. lo + 1 = 1
    OBVIOUS
  <2> HIDE DEF lo
  <2>3. SubSeq(whole, lo + 1, height) = SubSeq(t, lo + 1, height)
    BY <1>1, <1>4, <2>1, PiecesSame
  <2> QED BY <2>2, <2>3
<1> QED BY <1>3, <1>6, <1>7 DEF Parted

\* An exception is taken by the first clause that matches, or leaves the frame.
LEMMA RaiseMoves ==
  ASSUME Poised, NEW tag \in DOMAIN TagParams, NEW payload \in Tuples(TagParams[tag]),
         NEW s \in Seq(Values), TopFrame(History[pc]).entry <= Len(s),
         \A k \in 1 .. TopFrame(History[pc]).entry : s[k] \in ValuesOf(History[pc].slots[k]),
         Len(s) <= Len(stack), \A k \in 1 .. Len(s) : s[k] = stack[k],
         Raise(s, tag, payload)
  PROVE  Moves
<1> DEFINE H == Handlers(tag)
<1>1. CASE H = {}
  BY <1>1, LeaveMoves DEF Raise, Poised
<1>2. CASE H # {}
  <2> DEFINE a == CHOOSE z \in H : \A y \in H : Before(z, y)
             cl == labels[a[1]].catches[a[2]]
             i == CatchLabel(a[1], cl)
             vals == s \o CatchValues(cl, payload)
  <2>1. /\ Framed(body, History, code, pc, locals, labels) /\ Resolved(body, History, code)
        /\ Len(labels) \in Nat /\ DOMAIN labels = 1 .. Len(labels)
    BY FramedFacts DEF Poised
  <2>2. ASSUME NEW z \in H
        PROVE  /\ z \in (1 .. Len(labels)) \X Nat
               /\ z[1] \in DOMAIN labels /\ z[2] \in DOMAIN labels[z[1]].catches
               /\ CatchMatches(labels[z[1]].catches[z[2]], tag)
    <3>1. PICK lab \in DOMAIN labels : z \in {lab} \X DOMAIN labels[lab].catches
      BY DEF Handlers
    <3>2. z = <<z[1], z[2]>> /\ z[1] = lab /\ z[2] \in DOMAIN labels[lab].catches
      BY <3>1
    <3>3. z[2] \in Nat
      BY <2>1, <3>2, ClauseOf, SMTT(60)
    <3>4. CatchMatches(labels[z[1]].catches[z[2]], tag)
      BY DEF Handlers
    <3> QED BY <2>1, <3>2, <3>3, <3>4
  <2>3. BranchToLabel(vals, i, cl.target.pc)
    BY <1>2 DEF Raise
  <2> HIDE DEF H
  <2>4. H \subseteq (1 .. Len(labels)) \X Nat
    BY <2>2
  <2>5. \E z \in H : \A y \in H : Before(z, y)
    BY <1>2, <2>1, <2>4, FirstOf
  <2>6. a \in H
    BY <2>5
  <2>7. cl = labels[a[1]].catches[a[2]] /\ i = CatchLabel(a[1], cl) /\ vals = s \o CatchValues(cl, payload)
    BY SMTT(60)
  <2> HIDE DEF a, cl, i, vals
  <2>8. a[1] \in DOMAIN labels /\ a[2] \in DOMAIN labels[a[1]].catches /\ CatchMatches(cl, tag)
    BY <2>2, <2>6, <2>7
  <2> DEFINE lab == a[1]
             m == a[2]
  <2>9. /\ lab \in DOMAIN labels /\ m \in DOMAIN labels[lab].catches /\ CatchMatches(cl, tag)
        /\ cl = labels[lab].catches[m] /\ i = CatchLabel(lab, cl) /\ vals = s \o CatchValues(cl, payload)
    BY <2>7, <2>8
  <2> HIDE DEF lab, m
  <2>10. /\ CatchValues(cl, payload) \in Seq(Values) /\ Len(CatchValues(cl, payload)) = labels[i].branch
         /\ labels[i].height <= Len(s)
         /\ i \in DOMAIN labels /\ CanNormalize(vals, labels[i].height, labels[i].branch)
         /\ Fits(body, History, code, cl.target.pc + 1, Normalize(vals, labels[i].height, labels[i].branch), locals,
                 SubSeq(labels, 1, IF labels[i].isLoop \/ i = 1 THEN i ELSE i - 1))
    <3>1. Takes(body, History, code, pc, locals, labels, tag, payload, s, lab, m, cl, i, vals)
      BY <2>1, <2>9 DEF Takes
    <3> QED BY ONLY <3>1, HandlerGoes
  <2>11. /\ Goes /\ status' = "running"
         /\ stack' = SubSeq(vals, 1, labels[i].height) \o Top(vals, labels[i].branch)
         /\ labels' = SubSeq(labels, 1, IF labels[i].isLoop \/ i = 1 THEN i ELSE i - 1)
    BY <2>3, <2>10, LabelGoes
  <2> DEFINE vs == CatchValues(cl, payload)
             height == labels[i].height
  <2>12. height \in Nat /\ stack \in Seq(Values) /\ Len(stack) \in Nat /\ Len(s) \in Nat
    BY <2>10, PoisedLayered, SMTT(60) DEF Layered
  <2>13. vs \in Seq(Values) /\ Len(vs) = labels[i].branch /\ height <= Len(s) /\ vals = s \o vs
    BY <2>7, <2>10
  <2> HIDE DEF vs, height
  <2>14. Parted(vals, vs, stack, height)
    <3>1. Joined(s, stack, vs, vals, height)
      BY <2>12, <2>13 DEF Joined
    <3> QED BY ONLY <3>1, JoinedParts
  <2>15. Lifts(i, vs)
    BY <2>10, <2>11, <2>13, <2>14 DEF Lifts, Parted, height
  <2> QED BY <2>11, <2>15, CaughtMoves
<1> QED BY <1>1, <1>2

LEMMA RaiseAnyMoves ==
  ASSUME Poised, NEW s \in Seq(Values), TopFrame(History[pc]).entry <= Len(s),
         \A k \in 1 .. TopFrame(History[pc]).entry : s[k] \in ValuesOf(History[pc].slots[k]),
         Len(s) <= Len(stack), \A k \in 1 .. Len(s) : s[k] = stack[k],
         RaiseAny(s)
  PROVE  Moves
<1>1. PICK tag \in DOMAIN TagParams : \E payload \in Tuples(TagParams[tag]) : Raise(s, tag, payload)
  BY DEF RaiseAny
<1> QED BY <1>1, RaiseMoves

-----------------------------------------------------------------------------
(* One lemma per action *)

LEMMA ConstMoves ==
  ASSUME Poised, ConstStep
  PROVE  Moves
<1>1. body[pc].op = "const" /\ Advance(Append(stack, Zero(code[pc].type)))
  BY PoisedFacts DEF ConstStep, At
<1>2. code[pc] = body[pc]
  BY <1>1, PlainCode DEF Openers, Branches
<1>3. body[pc].type \in ValueTypes \ {"exn"} /\ History[pc + 1] \in ConstRule(History[pc], body[pc].type)
  BY <1>1, PoisedFacts DEF Rule, IsInstr
<1>4. Quiet(History[pc], History[pc + 1]) /\ Agrees(Append(stack, Zero(body[pc].type)), History[pc + 1])
  BY <1>3, ConstRuns, PoisedFacts
<1>5. Zero(body[pc].type) \in Values
  BY <1>3, ValuesAre
<1>6. Changes(Append(stack, Zero(body[pc].type)), Len(stack))
  BY <1>4, <1>5, QuietRoom, SmallChanges
<1> QED BY <1>1, <1>2, <1>4, <1>6, AdvanceMoves DEF Openers

LEMMA DropMoves ==
  ASSUME Poised, DropStep
  PROVE  Moves
<1>1. body[pc].op = "drop"
  BY PoisedFacts DEF DropStep, At
<1>2. History[pc + 1] \in DropRule(History[pc])
  BY <1>1, PoisedFacts DEF Rule
<1>3. stack # << >> /\ Quiet(History[pc], History[pc + 1]) /\ Agrees(Front(stack), History[pc + 1])
  BY <1>2, DropRuns, PoisedFacts
<1>4. Advance(Front(stack))
  BY <1>3 DEF DropStep
<1>5. Changes(Front(stack), Len(Front(stack)))
  BY <1>3, QuietRoom, SmallChanges
<1> QED BY <1>1, <1>3, <1>4, <1>5, AdvanceMoves DEF Openers

LEMMA SelectMoves ==
  ASSUME Poised, SelectStep
  PROVE  Moves
<1>1. body[pc].op = "select"
  BY PoisedFacts DEF SelectStep, At
<1>2. History[pc + 1] \in SelectRule(History[pc])
  BY <1>1, PoisedFacts DEF Rule
<1>3. /\ TopIs(stack, "i32") /\ Len(stack) >= 3 /\ stack[Len(stack) - 1] = stack[Len(stack) - 2]
      /\ Quiet(History[pc], History[pc + 1]) /\ TopFrame(History[pc]).entry + 3 <= Len(stack)
      /\ \A keep \in {1, 2} : Agrees(Append(Below(stack, 3), stack[Len(stack) - keep]), History[pc + 1])
  BY <1>2, SelectRuns, PoisedFacts
<1>4. stack \in Seq(Values) /\ Len(stack) \in Nat /\ TopFrame(History[pc]).entry \in Nat
  BY PoisedLayered
<1>5. PICK keep \in {1, 2} : Advance(Append(Below(stack, 3), stack[Len(stack) - keep]))
  BY <1>3, <1>4 DEF SelectStep
<1> DEFINE x == stack[Len(stack) - keep]
           s == Append(Below(stack, 3), x)
           k == Len(stack) - 3
<1>6. Agrees(s, History[pc + 1]) /\ Advance(s)
  BY <1>3, <1>5
<1>7. /\ Below(stack, 3) \in Seq(Values) /\ Len(Below(stack, 3)) = k
      /\ \A j \in 1 .. k : Below(stack, 3)[j] = stack[j]
  <2>1. 3 \in Nat /\ 3 <= Len(stack)
    BY <1>3, <1>4
  <2> QED BY <1>4, <2>1, SplitIs
<1>8. x \in Values
  <2>1. Len(stack) - keep \in 1 .. Len(stack)
    BY <1>3, <1>4
  <2> QED BY <1>4, <2>1
<1> HIDE DEF x
<1>9. Len(s) = k + 1 /\ \A j \in 1 .. k : s[j] = stack[j]
  BY <1>3, <1>4, <1>7, <1>8
<1> HIDE DEF s
<1>10. Changes(s, k)
  BY <1>3, <1>4, <1>9, ArityAssumption DEF Changes
<1> HIDE DEF k
<1> QED BY <1>1, <1>3, <1>6, <1>10, AdvanceMoves DEF Openers

\* What the assumption on the arities says of the body.
LEMMA OpenersFit ==
  ASSUME Poised, body[pc].op \in Openers
  PROVE  Len(body[pc].params) < MaxArity /\ Len(body[pc].params) <= MaxArity /\ Len(body[pc].results) <= MaxArity
<1>1. body[pc] \in Instrs
  BY PoisedFacts, WholeShape
<1>2. PICK A \in DOMAIN Alphabets : body[pc] \in A
  BY <1>1 DEF Instrs
<1>3. Len(body[pc].params) < MaxArity /\ Len(body[pc].results) <= MaxArity /\ MaxArity \in Nat
  BY <1>2, ArityAssumption
<1>4. Len(body[pc].params) \in Nat
  <2>1. body[pc].params \in Seq(ValueTypes)
    BY PoisedFacts, Immediates
  <2> QED BY <2>1
<1> QED BY <1>3, <1>4

\* The next instruction is the first one of the frame that opens.
LEMMA OpenMoves ==
  ASSUME Poised, body[pc].op \in Openers, NEW s, Agrees(s, History[pc + 1]), s \in Seq(Values),
         IsLive(History[pc + 1]), History[pc + 1].inits = History[pc].inits,
         Len(body[pc].params) <= Len(s), TopFrame(History[pc + 1]).entry = Len(s) - Len(body[pc].params),
         NEW cond, Left(s, cond)
  PROVE  /\ code[pc].label.params = Len(body[pc].params) /\ ~(Len(s) < code[pc].label.params)
         /\ Framed(body, History, code, pc + 1, locals, Append(labels, RuntimeLabel(s, code[pc])))
         /\ \A n : Goto(n, s, Append(labels, RuntimeLabel(s, code[pc])))
                   /\ Fits(body, History, code, n, s, locals, Append(labels, RuntimeLabel(s, code[pc]))) => Moves
         /\ EnterLabel(s, code[pc], pc + 1) => Moves
<1>1. /\ Framed(body, History, code, pc, locals, labels) /\ Resolved(body, History, code)
  BY DEF Poised
<1>2. Framed(body, History, code, pc + 1, locals, Append(labels, RuntimeLabel(s, code[pc])))
  BY <1>1, OpensOn
<1>3. Fits(body, History, code, pc + 1, s, locals, Append(labels, RuntimeLabel(s, code[pc])))
  BY <1>2, InnerFits
<1>4. code[pc].label.params = Len(body[pc].params)
  BY PoisedFacts DEF ResolvedAt, LabelOK
<1>5. Len(body[pc].params) \in Nat /\ Len(s) \in Nat
  <2>1. body[pc].params \in Seq(ValueTypes)
    BY PoisedFacts, Immediates
  <2> QED BY <2>1
<1>6. ~(Len(s) < code[pc].label.params)
  BY <1>4, <1>5
<1> DEFINE l == RuntimeLabel(s, code[pc])
           params == Len(body[pc].params)
<1>7. l.height = Len(s) - params
  BY <1>4 DEF RuntimeLabel
<1>8. params <= MaxArity
  BY OpenersFit
<1> HIDE DEF l, params
<1>9. ASSUME NEW n, Goto(n, s, Append(labels, l)), Fits(body, History, code, n, s, locals, Append(labels, l))
      PROVE  Moves
  <2>1. Goes /\ status' = "running" /\ stack' = s /\ labels' = Append(labels, l)
    BY <1>9, GotoGoes
  <2>2. /\ cond \in {0, 1} /\ Len(stack') = Len(stack) - cond /\ \A j \in 1 .. Len(stack') : stack'[j] = stack[j]
        /\ params \in Nat /\ l.height = Len(stack') - params
    BY <1>5, <1>7, <2>1 DEF Left, params
  <2> QED BY <1>8, <2>1, <2>2, EnterMoves
<1>10. ASSUME EnterLabel(s, code[pc], pc + 1) PROVE Moves
  <2>1. Goto(pc + 1, s, Append(labels, l))
    BY <1>6, <1>10 DEF EnterLabel, l
  <2> QED BY <1>3, <1>9, <2>1 DEF l
<1> QED BY <1>2, <1>4, <1>6, <1>9, <1>10 DEF l

LEMMA BlockMoves ==
  ASSUME Poised, EnterStep
  PROVE  Moves
<1>1. body[pc].op \in {"block", "loop", "try_table"} /\ EnterLabel(stack, code[pc], pc + 1)
  BY PoisedFacts DEF EnterStep, At
<1>2. body[pc].op \in Openers /\ body[pc].params \in Seq(ValueTypes)
  BY <1>1, PoisedFacts, Immediates DEF Openers
<1>3. History[pc + 1] \in OpenFrame(History[pc], body[pc])
  <2>1. CASE body[pc].op \in {"block", "loop"}
    BY <2>1, PoisedFacts DEF Rule
  <2>2. CASE body[pc].op = "try_table"
    <3>1. History[pc + 1] \in TryTableRule(History[pc], body[pc])
      BY <2>2, PoisedFacts DEF Rule
    <3> QED BY <3>1 DEF TryTableRule
  <2> QED BY <1>1, <2>1, <2>2
<1>4. /\ Len(body[pc].params) <= Len(stack) /\ Agrees(stack, History[pc + 1]) /\ IsLive(History[pc + 1])
      /\ History[pc + 1].inits = History[pc].inits
      /\ TopFrame(History[pc + 1]).entry = Len(stack) - Len(body[pc].params)
  BY <1>2, <1>3, OpenFrameRuns, PoisedFacts
<1>5. stack \in Seq(Values)
  BY <1>4 DEF Agrees
<1>6. Left(stack, 0)
  BY LeftStack
<1> QED BY <1>1, <1>2, <1>4, <1>5, <1>6, OpenMoves

LEMMA BrMoves ==
  ASSUME Poised, BrStep
  PROVE  Moves
<1>1. body[pc].op = "br" /\ BranchTo(stack, code[pc].targets[1])
  BY PoisedFacts DEF BrStep, At
<1>2. body[pc].depth \in Nat /\ History[pc + 1] \in BrRule(History[pc], body[pc].depth)
  BY <1>1, PoisedFacts, Immediates DEF Rule, Branches
<1>3. Feeds(History[pc], body[pc].depth, stack)
  BY <1>2, BrRuns, PoisedFacts
<1>4. TargetOK(body, History, pc, body[pc].depth, code[pc].targets[1])
  BY <1>1, PoisedFacts DEF ResolvedAt, Branches
<1>5. Left(stack, 0)
  BY LeftStack
<1> QED BY <1>1, <1>2, <1>3, <1>4, <1>5, BranchToMoves

LEMMA BrIfMoves ==
  ASSUME Poised, BrIfStep
  PROVE  Moves
<1>1. body[pc].op = "br_if"
  BY PoisedFacts DEF BrIfStep, At
<1>2. body[pc].depth \in Nat /\ History[pc + 1] \in BrIfRule(History[pc], body[pc].depth)
  BY <1>1, PoisedFacts, Immediates DEF Rule, Branches
<1>3. /\ TopIs(stack, "i32") /\ Feeds(History[pc], body[pc].depth, Front(stack))
      /\ Quiet(History[pc], History[pc + 1]) /\ Agrees(Front(stack), History[pc + 1])
  BY <1>2, BrIfRuns, PoisedFacts
<1>4. TargetOK(body, History, pc, body[pc].depth, code[pc].targets[1])
  BY <1>1, PoisedFacts DEF ResolvedAt, Branches
<1>5. Advance(Front(stack)) \/ BranchTo(Front(stack), code[pc].targets[1])
  BY <1>3 DEF BrIfStep
<1>6. Left(Front(stack), 1) /\ Changes(Front(stack), Len(Front(stack)))
  BY <1>3, LeftStack, QuietRoom, SmallChanges DEF TopIs
<1>7. ASSUME Advance(Front(stack)) PROVE Moves
  BY <1>1, <1>3, <1>6, <1>7, AdvanceMoves DEF Openers
<1>8. ASSUME BranchTo(Front(stack), code[pc].targets[1]) PROVE Moves
  BY <1>2, <1>3, <1>4, <1>6, <1>8, BranchToMoves
<1> QED BY <1>5, <1>7, <1>8

LEMMA BrTableMoves ==
  ASSUME Poised, BrTableStep
  PROVE  Moves
<1>1. body[pc].op = "br_table"
  BY PoisedFacts DEF BrTableStep, At
<1> DEFINE depths == body[pc].depths
<1>2. /\ depths \in Seq(Nat) /\ depths # << >> /\ History[pc + 1] \in BrTableRule(History[pc], depths)
  BY <1>1, PoisedFacts, Immediates DEF Rule
<1>3. TopIs(stack, "i32") /\ \A i \in DOMAIN depths : Feeds(History[pc], depths[i], Front(stack))
  <2> HIDE DEF depths
  <2> QED BY <1>2, BrTableRuns, PoisedFacts
<1>4. /\ DOMAIN code[pc].targets = DOMAIN depths
      /\ \A i \in DOMAIN code[pc].targets : TargetOK(body, History, pc, depths[i], code[pc].targets[i])
  BY <1>1, PoisedFacts DEF ResolvedAt
<1>5. PICK i \in DOMAIN code[pc].targets : BranchTo(Front(stack), code[pc].targets[i])
  BY <1>3 DEF BrTableStep
<1> HIDE DEF depths
<1>6. /\ depths[i] \in Nat /\ TargetOK(body, History, pc, depths[i], code[pc].targets[i])
      /\ Feeds(History[pc], depths[i], Front(stack))
  BY <1>2, <1>3, <1>4, <1>5
<1>7. Left(Front(stack), 1)
  BY <1>3, LeftStack DEF TopIs
<1> QED BY <1>5, <1>6, <1>7, BranchToMoves

LEMMA ReturnResultsMoves ==
  ASSUME status = "running", HasTops(stack, ResultTypes), ReturnResults
  PROVE  Moves
<1>1. Leave("returned", Top(stack, Len(ResultTypes)))
  BY DEF ReturnResults
<1> QED BY <1>1, LeaveMoves

LEMMA ReturnMoves ==
  ASSUME Poised, ReturnStep
  PROVE  Moves
<1>1. body[pc].op = "return" /\ ReturnResults
  BY PoisedFacts DEF ReturnStep, At
<1>2. History[pc + 1] \in ReturnRule(History[pc])
  BY <1>1, PoisedFacts DEF Rule
<1>3. PICK w \in WithTops(History[pc], ResultTypes) : TRUE
  BY <1>2 DEF ReturnRule
<1>4. HasTops(stack, ResultTypes)
  BY <1>3, TakesTops, PoisedFacts, Tables
<1> QED BY <1>1, <1>4, ReturnResultsMoves DEF Poised

LEMMA UnreachableMoves ==
  ASSUME Poised, UnreachableStep
  PROVE  Moves
BY LeaveMoves DEF UnreachableStep, Poised

\* The three ways on from an if: its then arm, its else arm, or past its end.
LEMMA IfMoves ==
  ASSUME Poised, IfStep
  PROVE  Moves
<1> DEFINE s == Front(stack)
           c == code[pc]
           k == c.label
<1>1. body[pc].op = "if"
  BY PoisedFacts DEF IfStep, At
<1>2. body[pc].op \in Openers /\ body[pc].params \in Seq(ValueTypes) /\ body[pc].results \in Seq(ValueTypes)
  BY <1>1, PoisedFacts, Immediates DEF Openers
<1>3. History[pc + 1] \in IfRule(History[pc], body[pc])
  BY <1>1, PoisedFacts DEF Rule
<1>4. /\ TopIs(stack, "i32") /\ s \in Seq(Values)
      /\ Len(body[pc].params) <= Len(s) /\ Agrees(s, History[pc + 1])
      /\ IsLive(History[pc + 1]) /\ History[pc + 1].inits = History[pc].inits
      /\ TopFrame(History[pc + 1]).entry = Len(s) - Len(body[pc].params)
      /\ TopFrame(History[pc]).entry + Len(body[pc].params) <= Len(s)
  BY <1>2, <1>3, IfRuns, PoisedFacts
<1>5. \/ EnterLabel(s, c, pc + 1)
      \/ code[c.target].op = "else" /\ EnterLabel(s, c, c.target + 1)
      \/ code[c.target].op # "else" /\ SkipIf(s, c)
  BY <1>4 DEF IfStep
<1>0. Left(s, 1)
  BY <1>4, LeftStack DEF TopIs
<1> HIDE DEF s
<1>6. /\ k.params = Len(body[pc].params) /\ ~(Len(s) < k.params)
      /\ Framed(body, History, code, pc + 1, locals, Append(labels, RuntimeLabel(s, c)))
      /\ \A n : Goto(n, s, Append(labels, RuntimeLabel(s, c)))
                /\ Fits(body, History, code, n, s, locals, Append(labels, RuntimeLabel(s, c))) => Moves
      /\ EnterLabel(s, c, pc + 1) => Moves
  BY <1>0, <1>2, <1>4, OpenMoves
<1>7. /\ c.target = (IF k.else # 0 THEN k.else ELSE k.end)
      /\ LabelOK(body, History, pc, k)
  BY <1>1, <1>2, PoisedFacts DEF ResolvedAt
<1>8. /\ EndsAt(body, History, pc, k.end) /\ k.results = Len(body[pc].results)
      /\ IF k.else = 0 THEN \A q \in DOMAIN body : ~ElseAt(body, History, pc, q)
                       ELSE ElseAt(body, History, pc, k.else)
  BY <1>7 DEF LabelOK
<1>9. \A q \in DOMAIN body : code[q].op = body[q].op
  BY DEF Poised, Resolved, ResolvedAt
<1>10. code[k.end].op = "end"
  BY <1>8, <1>9 DEF EndsAt
<1>11. pc \in 1 .. Len(body)
  BY PoisedFacts
<1> HIDE DEF c
<1>12. CASE code[c.target].op = "else" /\ EnterLabel(s, c, c.target + 1)
  <2>1. k.else # 0 /\ c.target = k.else
    BY <1>7, <1>10, <1>12
  <2>2. ElseAt(body, History, pc, c.target)
    BY <1>8, <2>1
  <2>3. Fits(body, History, code, c.target + 1, s, locals, Append(labels, RuntimeLabel(s, c)))
    BY <1>4, <1>6, <1>11, <2>2, ElseArrives
  <2>4. Goto(c.target + 1, s, Append(labels, RuntimeLabel(s, c)))
    BY <1>6, <1>12 DEF EnterLabel
  <2> QED BY <1>6, <2>3, <2>4
<1>13. CASE code[c.target].op # "else" /\ SkipIf(s, c)
  <2>1. k.else = 0
    <3>1. ASSUME k.else # 0 PROVE FALSE
      <4>1. ElseAt(body, History, pc, k.else) /\ c.target = k.else
        BY <1>7, <1>8, <3>1
      <4>2. code[k.else].op = "else"
        BY <1>9, <4>1 DEF ElseAt
      <4> QED BY <1>13, <4>1, <4>2
    <3> QED BY <3>1
  <2>2. c.target = k.end /\ \A q \in DOMAIN body : ~ElseAt(body, History, pc, q)
    BY <1>7, <1>8, <2>1
  <2> DEFINE height == Len(s) - k.params
             n == k.results
  <2>3. height = Len(s) - Len(body[pc].params) /\ n = Len(body[pc].results)
    BY <1>6, <1>8
  <2>4. Len(s) \in Nat /\ Len(body[pc].params) \in Nat
    BY <1>2, <1>4
  <2>5. \E T : labels \in Seq(T)
    BY DEF Poised, Framed
  <2>6. IF height < 0 \/ ~CanNormalize(s, height, n) THEN Fault
        ELSE Goto(c.target + 1, Normalize(s, height, n), labels)
    BY <1>13 DEF SkipIf
  <2> HIDE DEF height, n
  <2>7. /\ height >= 0 /\ CanNormalize(s, height, n)
        /\ Fits(body, History, code, k.end + 1, Normalize(s, height, n), locals, labels)
    BY <1>1, <1>4, <1>6, <1>8, <1>11, <2>2, <2>3, <2>5, SkipGoes
  <2>8. height \in Int
    BY <2>3, <2>4
  <2>9. Goto(c.target + 1, Normalize(s, height, n), labels)
    BY <2>6, <2>7, <2>8
  <2> DEFINE t == Normalize(s, height, n)
  <2>10. Goes /\ status' = "running" /\ stack' = t /\ labels' = labels
    BY <2>2, <2>7, <2>9, GotoGoes
  <2>11. /\ height = TopFrame(History[pc + 1]).entry /\ height \in Nat /\ n \in Nat /\ height <= Len(s)
         /\ Len(s) - height < MaxArity /\ n <= MaxArity /\ n <= Len(s) /\ MaxArity \in Nat
    <3>1. Len(body[pc].params) < MaxArity /\ Len(body[pc].results) <= MaxArity
      BY <1>2, OpenersFit
    <3>2. n \in Nat
      BY <1>2, <2>3
    <3> QED BY <1>4, <2>3, <2>4, <2>7, <2>8, <3>1, <3>2, ArityAssumption DEF CanNormalize
  <2>12. TopFrame(History[pc]).entry <= height
    BY <1>4, <2>3, <2>4, PoisedLayered
  <2>13. /\ stack \in Seq(Values) /\ Len(stack) \in Nat /\ Len(s) = Len(stack) - 1 /\ s \in Seq(Values)
         /\ \A j \in 1 .. Len(s) : s[j] = stack[j]
    BY <1>0, PoisedLayered DEF Left
  <2>14. /\ Top(s, n) \in Seq(Values) /\ Len(Top(s, n)) = n
    BY <2>11, <2>13, SplitIs
  <2>15. Len(t) = height + n /\ \A j \in 1 .. height : t[j] = s[j]
    BY <2>11, <2>13, <2>14, JoinedPieces DEF Normalize
  <2> HIDE DEF t
  <2>16. Changes(t, height)
    <3>1. /\ height <= Len(stack) /\ height <= Len(t)
          /\ Len(stack) - height <= MaxArity /\ Len(t) - height <= MaxArity
      BY ONLY <2>11, <2>13, <2>15, SMTT(60)
    <3>2. \A j \in 1 .. height : t[j] = stack[j]
      BY <2>11, <2>13, <2>15
    <3> QED BY <2>11, <2>12, <3>1, <3>2 DEF Changes
  <2> QED BY <2>10, <2>16, ComputeMoves
<1> QED BY <1>5, <1>6, <1>12, <1>13 DEF c

LEMMA ExitLabelMoves ==
  ASSUME Poised, NEW n, ExitLabel(n), Len(labels) > 1, NEW l, l = Last(labels),
         CanNormalize(stack, l.height, l.results), Len(stack) = l.height + l.results,
         Fits(body, History, code, n, Normalize(stack, l.height, l.results), locals, Front(labels))
  PROVE  Moves
<1>1. Len(labels) \in Nat
  BY FramedFacts DEF Poised
<1>2. ~(Len(labels) <= 1)
  BY <1>1
<1>3. Goto(n, Normalize(stack, l.height, l.results), Front(labels))
  BY <1>2 DEF ExitLabel
<1>4. /\ Goes /\ status' = "running" /\ stack' = Normalize(stack, l.height, l.results)
      /\ labels' = Front(labels)
  BY <1>3, GotoGoes
<1>5. l.results \in Nat
  <2>1. Len(labels) \in DOMAIN labels
    BY <1>1, PoisedLayered, LayeredFacts
  <2>2. l.results = Len(History[pc].ctrl[Len(labels)].results)
    BY <2>1, LabelIs DEF Poised, Last
  <2>3. History[pc].ctrl[Len(labels)].results \in Seq(ValueTypes)
    BY <2>1, InsideFrame DEF Poised
  <2> QED BY <2>2, <2>3, SMTT(60)
<1> QED BY <1>4, <1>5, ExitMoves

LEMMA ElseMoves ==
  ASSUME Poised, ElseStep
  PROVE  Moves
<1>1. body[pc].op = "else" /\ ExitLabel(code[pc].target + 1)
  BY PoisedFacts DEF ElseStep, At
<1> DEFINE l == Last(labels)
<1>2. l = Last(labels)
  OBVIOUS
<1> HIDE DEF l
<1>3. /\ Len(labels) > 1 /\ CanNormalize(stack, l.height, l.results) /\ Len(stack) = l.height + l.results
      /\ Fits(body, History, code, code[pc].target + 1, Normalize(stack, l.height, l.results), locals, Front(labels))
  BY <1>1, <1>2, ThenGoes DEF Poised
<1> QED BY <1>1, <1>2, <1>3, ExitLabelMoves

LEMMA EndOfBlockMoves ==
  ASSUME Poised, pc # Len(body), EndStep
  PROVE  Moves
<1>1. body[pc].op = "end" /\ Len(code) = Len(body)
  BY PoisedFacts DEF EndStep, At, Poised, Resolved
<1>2. ExitLabel(pc + 1)
  BY <1>1 DEF EndStep
<1> DEFINE l == Last(labels)
<1>3. l = Last(labels)
  OBVIOUS
<1> HIDE DEF l
<1>4. /\ Len(labels) > 1 /\ CanNormalize(stack, l.height, l.results) /\ Len(stack) = l.height + l.results
      /\ Fits(body, History, code, pc + 1, Normalize(stack, l.height, l.results), locals, Front(labels))
  BY <1>1, <1>3, EndGoes, SMTT(60) DEF Poised
<1> QED BY <1>2, <1>3, <1>4, ExitLabelMoves

\* What an instruction leaves that takes operands of the given types.
LEMMA BelowIs ==
  ASSUME Poised, NEW types \in Seq(ValueTypes), HasTops(stack, types), NEW rest, rest = Below(stack, Len(types))
  PROVE  /\ Len(rest) \in Nat /\ Len(rest) <= Len(stack) /\ Len(stack) - Len(rest) = Len(types)
         /\ \A k \in 1 .. Len(rest) : rest[k] = stack[k]
<1>1. stack \in Seq(Values) /\ Len(stack) \in Nat
  BY PoisedLayered
<1>2. Len(types) \in Nat /\ Len(types) <= Len(stack)
  BY <1>1 DEF HasTops
<1>3. Len(rest) = Len(stack) - Len(types) /\ \A k \in 1 .. Len(stack) - Len(types) : rest[k] = stack[k]
  BY <1>1, <1>2, SplitIs
<1> QED BY <1>1, <1>2, <1>3

LEMMA CallMoves ==
  ASSUME Poised, CallStep
  PROVE  Moves
<1>1. body[pc].op = "call"
  BY PoisedFacts DEF CallStep, At
<1>2. code[pc] = body[pc]
  BY <1>1, PlainCode DEF Openers, Branches
<1> DEFINE f == body[pc].func
           params == Funcs[f].params
           rest == Below(stack, Len(params))
<1>3. /\ f \in DOMAIN Funcs /\ params \in Seq(ValueTypes) /\ History[pc + 1] \in CallRule(History[pc], Funcs[f])
  BY <1>1, PoisedFacts, Tables DEF Rule, IsInstr
<1>4. PICK w \in WithTops(History[pc], params) : TRUE
  BY <1>3 DEF CallRule, Pop
<1>5. /\ HasTops(stack, params) /\ rest \in Seq(Values) /\ TopFrame(History[pc]).entry <= Len(rest)
      /\ \A k \in 1 .. TopFrame(History[pc]).entry : rest[k] \in ValuesOf(History[pc].slots[k])
  <2> HIDE DEF f, params
  <2> QED BY <1>3, <1>4, TakesTops, PoisedFacts
<1>10. /\ Len(rest) \in Nat /\ Len(rest) <= Len(stack) /\ Len(stack) - Len(rest) = Len(params)
       /\ \A k \in 1 .. Len(rest) : rest[k] = stack[k]
  <2> HIDE DEF f, params
  <2> QED BY <1>3, <1>5, BelowIs
<1>6. \/ \E results \in Tuples(Funcs[f].results) : Advance(rest \o results)
      \/ Leave("trap", rest)
      \/ RaiseAny(rest)
  BY <1>2, <1>5 DEF CallStep
<1>7. ASSUME NEW results \in Tuples(Funcs[f].results), Advance(rest \o results) PROVE Moves
  <2> HIDE DEF f
  <2>1. Quiet(History[pc], History[pc + 1]) /\ Agrees(rest \o results, History[pc + 1])
    BY <1>3, CallRuns, PoisedFacts
  <2>2. results \in Seq(Values) /\ Len(results) \in Nat /\ Len(results) <= MaxArity /\ Len(params) <= MaxArity
    <3>1. Funcs[f].results \in Seq(ValueTypes)
      BY <1>3, Tables
    <3>2. results \in Seq(Values) /\ Len(results) = Len(Funcs[f].results)
      BY <1>7, <3>1, TupleIs
    <3> QED BY <1>3, <3>2, ArityAssumption
  <2>3. rest \o results \in Seq(Values) /\ Len(rest \o results) = Len(rest) + Len(results)
        /\ \A j \in 1 .. Len(rest) : (rest \o results)[j] = rest[j]
    <3> HIDE DEF rest
    <3> QED BY <1>5, <2>2
  <2> DEFINE s == rest \o results
             k == Len(rest)
  <2>4. /\ k \in Nat /\ k <= Len(stack) /\ Len(stack) - k = Len(params) /\ Len(stack) \in Nat
        /\ TopFrame(History[pc]).entry \in Nat /\ \A j \in 1 .. k : rest[j] = stack[j]
    BY <1>10, PoisedLayered
  <2> HIDE DEF s, k
  <2>5. Changes(s, k)
    <3>1. TopFrame(History[pc]).entry <= k /\ Len(s) = k + Len(results) /\ \A j \in 1 .. k : s[j] = rest[j]
      BY <1>5, <2>3 DEF s, k
    <3> HIDE DEF params
    <3>2. /\ k <= Len(s) /\ Len(s) - k <= MaxArity /\ Len(stack) - k <= MaxArity
          /\ \A j \in 1 .. k : s[j] = stack[j]
      BY ONLY <2>2, <2>4, <3>1
    <3> QED BY <2>4, <3>1, <3>2 DEF Changes
  <2> QED BY <1>1, <1>7, <2>1, <2>5, AdvanceMoves DEF Openers, s
<1> HIDE DEF rest
<1>8. Leave("trap", rest) => Moves
  BY LeaveMoves DEF Poised
<1>9. RaiseAny(rest) => Moves
  BY <1>5, <1>10, RaiseAnyMoves
<1> QED BY <1>6, <1>7, <1>8, <1>9

LEMMA ReturnCallMoves ==
  ASSUME Poised, ReturnCallStep
  PROVE  Moves
<1>1. body[pc].op = "return_call"
  BY PoisedFacts DEF ReturnCallStep, At
<1>2. code[pc] = body[pc]
  BY <1>1, PlainCode DEF Openers, Branches
<1> DEFINE f == Funcs[body[pc].func]
<1>3. /\ f.params \in Seq(ValueTypes) /\ f.results \in Seq(ValueTypes)
      /\ History[pc + 1] \in ReturnCallRule(History[pc], f)
  BY <1>1, PoisedFacts, Immediates DEF Rule
<1> HIDE DEF f
<1>4. /\ Len(f.results) = Len(ResultTypes)
      /\ \A i \in DOMAIN f.results : Matches(f.results[i], ResultTypes[i])
      /\ \E w \in WithTops(History[pc], f.params) : TRUE
  BY <1>3 DEF ReturnCallRule
<1>5. ASSUME NEW i \in DOMAIN f.results PROVE RuntimeMatches(f.results[i], ResultTypes[i])
  <2>1. f.results[i] \in ValueTypes /\ Matches(f.results[i], ResultTypes[i])
    BY <1>3, <1>4
  <2> QED BY <2>1 DEF Matches, RuntimeMatches, ValueTypes, RefTypes, Refs, Unknown
<1>6. HasTops(stack, f.params)
  BY <1>3, <1>4, TakesTops, PoisedFacts
<1>7. Leave("tail", Top(stack, Len(f.params)))
  BY <1>2, <1>4, <1>5, <1>6 DEF ReturnCallStep, f
<1> QED BY <1>7, LeaveMoves DEF Poised

LEMMA ThrowMoves ==
  ASSUME Poised, ThrowStep
  PROVE  Moves
<1>1. body[pc].op = "throw"
  BY PoisedFacts DEF ThrowStep, At
<1>2. code[pc] = body[pc]
  BY <1>1, PlainCode DEF Openers, Branches
<1> DEFINE tag == body[pc].tag
           params == TagParams[tag]
           rest == Below(stack, Len(params))
<1>3. /\ tag \in DOMAIN TagParams /\ params \in Seq(ValueTypes) /\ History[pc + 1] \in ThrowRule(History[pc], tag)
  BY <1>1, PoisedFacts, Tables DEF Rule, IsInstr
<1>4. PICK w \in WithTops(History[pc], params) : TRUE
  BY <1>3 DEF ThrowRule, Pop
<1>5. /\ HasTops(stack, params) /\ Top(stack, Len(params)) \in Tuples(params)
      /\ rest \in Seq(Values) /\ TopFrame(History[pc]).entry <= Len(rest)
      /\ \A k \in 1 .. TopFrame(History[pc]).entry : rest[k] \in ValuesOf(History[pc].slots[k])
  <2> HIDE DEF tag, params
  <2> QED BY <1>3, <1>4, TakesTops, PoisedFacts
<1>6. Raise(rest, tag, Top(stack, Len(params)))
  BY <1>2, <1>5 DEF ThrowStep
<1> DEFINE payload == Top(stack, Len(params))
<1>7. payload \in Tuples(TagParams[tag]) /\ Raise(rest, tag, payload)
  BY <1>5, <1>6
<1>8. Len(rest) <= Len(stack) /\ \A k \in 1 .. Len(rest) : rest[k] = stack[k]
  <2> HIDE DEF tag, params
  <2> QED BY <1>3, <1>5, BelowIs
<1> HIDE DEF tag, rest, payload
<1> QED BY <1>3, <1>5, <1>7, <1>8, RaiseMoves

LEMMA ThrowRefMoves ==
  ASSUME Poised, ThrowRefStep
  PROVE  Moves
<1>1. body[pc].op = "throw_ref"
  BY PoisedFacts DEF ThrowRefStep, At
<1> DEFINE one == <<"exnref">>
           rest == Below(stack, Len(one))
<1>2. one \in Seq(ValueTypes) /\ Len(one) = 1 /\ one[1] = "exnref"
  BY DEF ValueTypes, RefTypes
<1>3. History[pc + 1] \in ThrowRefRule(History[pc])
  BY <1>1, PoisedFacts DEF Rule
<1>4. PICK w \in WithTops(History[pc], one) : TRUE
  BY <1>3 DEF ThrowRefRule, Pop
<1> HIDE DEF one
<1>5. /\ HasTops(stack, one) /\ Top(stack, Len(one)) \in Tuples(one)
      /\ rest \in Seq(Values) /\ TopFrame(History[pc]).entry <= Len(rest)
      /\ \A k \in 1 .. TopFrame(History[pc]).entry : rest[k] \in ValuesOf(History[pc].slots[k])
  BY <1>2, <1>4, TakesTops, PoisedFacts
<1>6. stack \in Seq(Values) /\ Len(stack) \in Nat
  BY PoisedFacts DEF Agrees
<1>7. stack # << >> /\ Len(stack) >= 1
  BY <1>2, <1>5, <1>6 DEF HasTops
<1>8. Front(stack) = rest
  BY <1>2 DEF Front, Below
<1>9. Last(stack) \in Refs
  <2>1. Top(stack, 1)[1] = stack[Len(stack) - 1 + 1]
    <3>1. \A k \in 1 .. 1 : Top(stack, 1)[k] = stack[Len(stack) - 1 + k]
      BY <1>6, <1>7, SplitIs
    <3> QED BY <3>1
  <2>2. Top(stack, 1)[1] \in ValuesOf("exnref")
    BY <1>2, <1>5, TupleIs
  <2>3. stack[Len(stack)] \in ValuesOf("exnref")
    BY <1>6, <2>1, <2>2
  <2> QED BY <2>3 DEF Last, ValuesOf, Refs
<1>11. Len(rest) <= Len(stack) /\ \A k \in 1 .. Len(rest) : rest[k] = stack[k]
  BY <1>2, <1>5, BelowIs
<1> HIDE DEF rest
<1>10. Leave("trap", Front(stack)) \/ RaiseAny(rest)
  BY <1>7, <1>8, <1>9 DEF ThrowRefStep, HasRef
<1> QED BY <1>5, <1>10, <1>11, LeaveMoves, RaiseAnyMoves DEF Poised

LEMMA BrOnNullMoves ==
  ASSUME Poised, BrOnNullStep
  PROVE  Moves
<1>1. body[pc].op = "br_on_null"
  BY PoisedFacts DEF BrOnNullStep, At
<1>2. body[pc].depth \in Nat /\ History[pc + 1] \in BrOnNullRule(History[pc], body[pc].depth)
  BY <1>1, PoisedFacts, Immediates DEF Rule, Branches
<1>3. /\ stack # << >> /\ Last(stack) \in Refs /\ Quiet(History[pc], History[pc + 1])
      /\ Feeds(History[pc], body[pc].depth, Front(stack))
      /\ Last(stack) = "exn" => Agrees(stack, History[pc + 1])
  BY <1>2, BrOnNullRuns, PoisedFacts
<1>4. TargetOK(body, History, pc, body[pc].depth, code[pc].targets[1])
  BY <1>1, PoisedFacts DEF ResolvedAt, Branches
<1>5. \/ BranchTo(Front(stack), code[pc].targets[1])
      \/ Last(stack) = "exn" /\ Advance(stack)
  BY <1>3 DEF BrOnNullStep, HasRef
<1>6. ASSUME BranchTo(Front(stack), code[pc].targets[1]) PROVE Moves
  BY <1>2, <1>3, <1>4, <1>6, LeftStack, BranchToMoves
<1>7. ASSUME Last(stack) = "exn", Advance(stack) PROVE Moves
  BY <1>1, <1>3, <1>7, QuietRoom, SmallChanges, AdvanceMoves DEF Openers
<1> QED BY <1>5, <1>6, <1>7

LEMMA BrOnNonNullMoves ==
  ASSUME Poised, BrOnNonNullStep
  PROVE  Moves
<1>1. body[pc].op = "br_on_non_null"
  BY PoisedFacts DEF BrOnNonNullStep, At
<1>2. body[pc].depth \in Nat /\ History[pc + 1] \in BrOnNonNullRule(History[pc], body[pc].depth)
  BY <1>1, PoisedFacts, Immediates DEF Rule, Branches
<1>3. /\ stack # << >> /\ Last(stack) \in Refs /\ Quiet(History[pc], History[pc + 1])
      /\ Agrees(Front(stack), History[pc + 1])
      /\ Last(stack) = "exn" => Feeds(History[pc], body[pc].depth, stack)
  BY <1>2, BrOnNonNullRuns, PoisedFacts
<1>4. TargetOK(body, History, pc, body[pc].depth, code[pc].targets[1])
  BY <1>1, PoisedFacts DEF ResolvedAt, Branches
<1>5. \/ Last(stack) = "exn" /\ BranchTo(stack, code[pc].targets[1])
      \/ Advance(Front(stack))
  BY <1>3 DEF BrOnNonNullStep, HasRef
<1>6. ASSUME Last(stack) = "exn", BranchTo(stack, code[pc].targets[1]) PROVE Moves
  BY <1>2, <1>3, <1>4, <1>6, LeftStack, BranchToMoves
<1>7. ASSUME Advance(Front(stack)) PROVE Moves
  BY <1>1, <1>3, <1>7, QuietRoom, SmallChanges, AdvanceMoves DEF Openers
<1> QED BY <1>5, <1>6, <1>7

LEMMA RefAsNonNullMoves ==
  ASSUME Poised, RefAsNonNullStep
  PROVE  Moves
<1>1. body[pc].op = "ref.as_non_null"
  BY PoisedFacts DEF RefAsNonNullStep, At
<1>2. History[pc + 1] \in RefAsNonNullRule(History[pc])
  BY <1>1, PoisedFacts DEF Rule
<1>3. /\ stack # << >> /\ Last(stack) \in Refs /\ Quiet(History[pc], History[pc + 1])
      /\ Last(stack) # "null" => Agrees(stack, History[pc + 1])
  BY <1>2, RefAsNonNullRuns, PoisedFacts
<1>4. \/ Leave("trap", Front(stack))
      \/ Last(stack) # "null" /\ Advance(stack)
  BY <1>3 DEF RefAsNonNullStep, HasRef
<1>5. ASSUME Last(stack) # "null", Advance(stack) PROVE Moves
  BY <1>1, <1>3, <1>5, QuietRoom, SmallChanges, AdvanceMoves DEF Openers
<1> QED BY <1>4, <1>5, LeaveMoves DEF Poised

LEMMA LocalGetMoves ==
  ASSUME Poised, LocalGetStep
  PROVE  Moves
<1>1. body[pc].op = "local.get"
  BY PoisedFacts DEF LocalGetStep, At
<1>2. code[pc] = body[pc]
  BY <1>1, PlainCode DEF Openers, Branches
<1>3. History[pc + 1] \in LocalGetRule(History[pc], body[pc].index)
  BY <1>1, PoisedFacts DEF Rule
<1>4. /\ body[pc].index \in DOMAIN locals /\ locals[body[pc].index] \in Values /\ Quiet(History[pc], History[pc + 1])
      /\ Agrees(Append(stack, locals[body[pc].index]), History[pc + 1])
  BY <1>3, LocalGetRuns, PoisedFacts
<1>5. Advance(Append(stack, locals[body[pc].index]))
  BY <1>2, <1>4 DEF LocalGetStep
<1>6. Changes(Append(stack, locals[body[pc].index]), Len(stack))
  BY <1>4, QuietRoom, SmallChanges
<1> QED BY <1>1, <1>4, <1>5, <1>6, AdvanceMoves DEF Openers

LEMMA SetLocalMoves ==
  ASSUME Poised, NEW keep \in BOOLEAN, body[pc].op = (IF keep THEN "local.tee" ELSE "local.set"),
         NEW s, s = (IF keep THEN stack ELSE Front(stack)), SetLocal(s)
  PROVE  Moves
<1>1. body[pc].op \in {"local.set", "local.tee"}
  OBVIOUS
<1>2. code[pc] = body[pc]
  BY <1>1, PlainCode DEF Openers, Branches
<1> DEFINE i == body[pc].index
           x == [locals EXCEPT ![i] = Last(stack)]
<1>3. History[pc + 1] \in LocalSetRule(History[pc], i, keep)
  <2>1. CASE keep = TRUE
    BY <2>1, PoisedFacts DEF Rule
  <2>2. CASE keep = FALSE
    BY <2>2, PoisedFacts DEF Rule
  <2> QED BY <2>1, <2>2
<1> HIDE DEF i
<1>4. /\ i \in DOMAIN locals /\ stack # << >> /\ (Last(stack) = locals[i] \/ {Last(stack), locals[i]} \subseteq Refs)
      /\ IsLive(History[pc + 1])
      /\ keep => Agrees(stack, History[pc + 1])
      /\ ~keep => Agrees(Front(stack), History[pc + 1])
      /\ LocalsFit(x, History[pc + 1].inits)
  BY <1>3, LocalSetRuns, PoisedFacts
<1>5. Agrees(s, History[pc + 1])
  BY <1>4
<1>6. /\ locals' = x /\ pc' = pc + 1 /\ stack' = s /\ code' = code /\ labels' = labels /\ status' = status
  BY <1>2, <1>4 DEF SetLocal, i
<1> HIDE DEF x
<1>7. Framed(body, History, code, pc + 1, x, labels)
  BY <1>1, <1>4, GoesNext DEF Poised, Openers
<1>8. Fits(body, History, code, pc + 1, s, x, labels)
  BY <1>5, <1>7, InnerFits
<1>9. Goes /\ status' = "running"
  BY <1>6, <1>8 DEF Poised, Goes
<1>10. s \in Seq(Values) /\ TopFrame(History[pc]).entry <= Len(s)
  <2>1. labels[Len(labels)].height = TopFrame(History[pc]).entry /\ Len(labels) \in 1 .. Len(labels)
    BY PoisedLayered
  <2>2. Layered(s, labels)
    BY <1>5, <1>7, FramedLayered
  <2> QED BY <2>1, <2>2, LayeredFacts DEF Layered
<1>11. \E k : Changes(s, k)
  <2>1. s = stack \/ s = Front(stack)
    OBVIOUS
  <2> QED BY <1>4, <1>10, <2>1, SmallChanges
<1>12. PICK k : Changes(stack', k)
  BY <1>6, <1>11
<1> QED BY <1>6, <1>9, <1>12, ComputeMoves

LEMMA LocalSetMoves ==
  ASSUME Poised, LocalSetStep
  PROVE  Moves
<1>1. body[pc].op = "local.set" /\ SetLocal(Front(stack))
  BY PoisedFacts DEF LocalSetStep, At
<1> DEFINE keep == FALSE
<1>2. keep \in BOOLEAN /\ body[pc].op = (IF keep THEN "local.tee" ELSE "local.set")
      /\ Front(stack) = (IF keep THEN stack ELSE Front(stack))
  BY <1>1
<1> HIDE DEF keep
<1> QED BY <1>1, <1>2, SetLocalMoves

LEMMA LocalTeeMoves ==
  ASSUME Poised, LocalTeeStep
  PROVE  Moves
<1>1. body[pc].op = "local.tee" /\ SetLocal(stack)
  BY PoisedFacts DEF LocalTeeStep, At
<1> DEFINE keep == TRUE
<1>2. keep \in BOOLEAN /\ body[pc].op = (IF keep THEN "local.tee" ELSE "local.set")
      /\ stack = (IF keep THEN stack ELSE Front(stack))
  BY <1>1
<1> HIDE DEF keep
<1> QED BY <1>1, <1>2, SetLocalMoves

\* Any instruction but the final end.
LEMMA InnerStepMoves ==
  ASSUME Poised, pc # Len(body), Step
  PROVE  Moves
BY ConstMoves, DropMoves, SelectMoves, BlockMoves, IfMoves, ElseMoves, EndOfBlockMoves, BrMoves, BrIfMoves, BrTableMoves,
   ReturnMoves, UnreachableMoves, CallMoves, ReturnCallMoves, ThrowMoves, ThrowRefMoves, BrOnNullMoves, BrOnNonNullMoves,
   RefAsNonNullMoves, LocalGetMoves, LocalSetMoves, LocalTeeMoves DEF Step

\* The final end finds the results of the function.
LEMMA FinalStepMoves ==
  ASSUME Whole(body, History), Resolved(body, History, code), pc = Len(body), Outermost(stack, labels), Step,
         status = "running"
  PROVE  Moves
<1>1. body[pc].op = "end" /\ pc \in DOMAIN body
  BY WholeShape DEF Whole
<1>2. code[pc].op = "end" /\ Len(code) = pc
  BY <1>1 DEF Resolved, ResolvedAt
<1>3. EndStep
  BY <1>2 DEF Step, ConstStep, DropStep, SelectStep, EnterStep, IfStep, ElseStep, BrStep, BrIfStep, BrTableStep,
              ReturnStep, UnreachableStep, CallStep, ReturnCallStep, ThrowStep, ThrowRefStep, BrOnNullStep,
              BrOnNonNullStep, RefAsNonNullStep, LocalGetStep, LocalSetStep, LocalTeeStep, At
<1>4. ReturnResults
  BY <1>2, <1>3 DEF EndStep
<1>5. HasTops(stack, ResultTypes)
  <2>1. stack \in Seq(Values) /\ Len(stack) = Len(ResultTypes)
        /\ \A k \in 1 .. Len(ResultTypes) : stack[k] \in ValuesOf(ResultTypes[k])
    BY TupleIs, Tables DEF Outermost
  <2>2. Len(stack) \in Nat
    BY <2>1
  <2>3. \A k \in 1 .. Len(ResultTypes) : Len(stack) - Len(ResultTypes) + k = k
    BY <2>1, <2>2
  <2>4. Carries(stack, ResultTypes)
    BY <2>1, <2>2, <2>3 DEF Carries
  <2> QED BY <2>1, <2>4, CarriesHas, Tables
<1> QED BY <1>4, <1>5, ReturnResultsMoves

-----------------------------------------------------------------------------
(* The validation *)

\* The history is a sequence of states that ends with the current one.
LEMMA HistoryEnds ==
  ASSUME Validated
  PROVE  /\ body \in Seq(Instrs) /\ History \in Seq(States) /\ Len(body) \in Nat
         /\ Len(typing) = Len(body) /\ Len(History) = Len(body) + 1
         /\ History[Len(History)] = val /\ History[Len(body) + 1] = val
         /\ \A p \in 1 .. Len(body) : typing[p] = History[p]
<1>1. /\ body \in Seq(Instrs) /\ History \in Seq(States) /\ Len(History) = Len(body) + 1
      /\ typing \in Seq(States)
  BY DEF Validated, Typed
<1>2. /\ Len(History) = Len(typing) + 1 /\ History[Len(typing) + 1] = val /\ Len(typing) \in Nat
      /\ \A p \in 1 .. Len(typing) : typing[p] = History[p]
  <2>1. typing \in Seq(States \cup {val})
    BY <1>1
  <2> QED BY <2>1 DEF History
<1>3. Len(body) \in Nat /\ Len(typing) = Len(body)
  BY <1>1, <1>2
<1> QED BY <1>1, <1>2, <1>3

LEMMA SaferFewer ==
  ASSUME NEW A, ElseSafe(A), NEW B, B \subseteq A
  PROVE  ElseSafe(B)
BY DEF ElseSafe

LEMMA RangeGrows ==
  ASSUME NEW A, NEW b \in Seq(Instrs), Range(b) \subseteq A, NEW ins \in Instrs, ins \in A
  PROVE  Range(Append(b, ins)) \subseteq A
<1>1. /\ Len(Append(b, ins)) = Len(b) + 1 /\ DOMAIN Append(b, ins) = 1 .. Len(b) + 1
      /\ \A k \in 1 .. Len(b) : Append(b, ins)[k] = b[k]
      /\ Append(b, ins)[Len(b) + 1] = ins /\ Len(b) \in Nat /\ DOMAIN b = 1 .. Len(b)
  OBVIOUS
<1>2. ASSUME NEW k \in 1 .. Len(b) + 1 PROVE Append(b, ins)[k] \in A
  <2>1. CASE k \in 1 .. Len(b)
    BY <1>1, <2>1 DEF Range
  <2>2. CASE k \notin 1 .. Len(b)
    <3>1. k = Len(b) + 1
      BY <1>1, <2>2
    <3> QED BY <1>1, <3>1
  <2> QED BY <2>1, <2>2
<1> QED BY <1>1, <1>2 DEF Range

LEMMA ValidatedStarts ==
  ASSUME NEW b, b = << >>, NEW t, t = << >>, NEW v, v = Start
  PROVE  t \in Seq(States) /\ Typed(b, Append(t, v))
<1>1. Append(t, v) = <<Start>>
  OBVIOUS
<1>2. t \in Seq(States)
  OBVIOUS
<1> QED BY <1>1, <1>2, TypedStart

\* Why the elses of a body are honest: it is assumed, or there are none that
\* could be otherwise.
Harmless == ElseHonest' \/ \A A \in DOMAIN Alphabets : ElseSafe(A)

\* The frame of the function is open before every instruction of a body that
\* is Validated.
LEMMA ValidatedStops ==
  ASSUME Validated
  PROVE  ~GoesOn
<1>1. /\ \A p \in DOMAIN body : History[p].ctrl # << >>
      /\ body \in Seq(Instrs) /\ typing \in Seq(States) /\ Len(typing) = Len(body)
      /\ \A p \in 1 .. Len(body) : typing[p] = History[p]
  BY HistoryEnds DEF Validated, Typed
<1>2. DOMAIN typing = 1 .. Len(body) /\ DOMAIN body = 1 .. Len(body)
  BY <1>1
<1> QED BY <1>1, <1>2 DEF GoesOn

\* The sequence s with one more element.
LEMMA AppendIs ==
  ASSUME NEW T, NEW s \in Seq(T), NEW e, NEW t, t = Append(s, e)
  PROVE  /\ Len(s) \in Nat /\ Len(t) = Len(s) + 1 /\ DOMAIN t = 1 .. Len(s) + 1 /\ DOMAIN s = 1 .. Len(s)
         /\ t[Len(s) + 1] = e /\ \A k \in 1 .. Len(s) : t[k] = s[k]
OBVIOUS

LEMMA AppendRange ==
  ASSUME NEW T, NEW s \in Seq(T), NEW e, NEW t, t = Append(s, e)
  PROVE  t \in Seq(Range(t))
<1>1. t \in Seq(T \cup {e})
  <2>1. s \in Seq(T \cup {e})
    OBVIOUS
  <2> QED BY <2>1
<1>2. DOMAIN t = 1 .. Len(t)
  BY <1>1
<1>3. \A k \in 1 .. Len(t) : t[k] \in Range(t)
  BY <1>2 DEF Range
<1> QED BY <1>1, <1>3

\* Whether a body goes on with the instruction accepted next.
LEMMA GoesOnNext ==
  ASSUME NEW T, typing \in Seq(T), typing' = Append(typing, val)
  PROVE  GoesOn' <=> GoesOn \/ val.ctrl = << >>
<1>1. /\ Len(typing) \in Nat /\ DOMAIN typing' = 1 .. Len(typing) + 1 /\ DOMAIN typing = 1 .. Len(typing)
      /\ typing'[Len(typing) + 1] = val /\ \A k \in 1 .. Len(typing) : typing'[k] = typing[k]
  BY AppendIs
<1> DEFINE n == Len(typing)
           after == typing'
<1>2. GoesOn' <=> \E p \in 1 .. n + 1 : after[p].ctrl = << >>
  BY <1>1 DEF GoesOn
<1>3. GoesOn <=> \E p \in 1 .. n : typing[p].ctrl = << >>
  BY <1>1 DEF GoesOn
<1>4. n \in Nat /\ after[n + 1] = val /\ \A k \in 1 .. n : after[k] = typing[k]
  BY <1>1
<1> HIDE DEF n, after
<1>5. \A p \in 1 .. n + 1 : p = n + 1 \/ p \in 1 .. n
  BY <1>4
<1>6. n + 1 \in 1 .. n + 1 /\ \A p \in 1 .. n : p \in 1 .. n + 1
  BY <1>4
<1> QED BY <1>2, <1>3, <1>4, <1>5, <1>6

\* One more instruction, accepted by its rule in an open frame.
LEMMA AcceptKeeps ==
  ASSUME Harmless, Validated, val.ctrl # << >>,
         NEW A \in DOMAIN Alphabets, Range(body) \subseteq A, NEW ins \in A, NEW bound,
         Accept(ins, bound)
  PROVE  Validated'
<1> DEFINE h == History
           w == val'
<1>1. /\ body \in Seq(Instrs) /\ h \in Seq(States) /\ Len(body) \in Nat
      /\ h[Len(h)] = val /\ Typed(body, h) /\ typing \in Seq(States)
  BY HistoryEnds DEF Validated
<1>2. /\ verdict = "open" /\ val.ctrl # << >> /\ w \in Rule(val, ins)
      /\ body' = Append(body, ins) /\ typing' = h /\ verdict' = "open"
  BY DEF Accept, History
<1>3. ins \in Instrs
  BY DEF Instrs
<1>4. Range(body') \subseteq A
  BY <1>1, <1>2, <1>3, RangeGrows
<1>5. ASSUME ElseSafe(A) PROVE ElseSafe(Range(Append(body, ins)))
  BY <1>2, <1>4, <1>5, SaferFewer
<1>6. History' = Append(h, w)
  BY <1>2 DEF History
<1> HIDE DEF h, w
<1> DEFINE v == val
<1>7. v = h[Len(h)] /\ v.ctrl # << >> /\ w \in Rule(v, ins)
  BY <1>1, <1>2
<1>13. ~GoesOn'
  BY <1>1, <1>2, ValidatedStops, GoesOnNext DEF h, History
<1>11. ASSUME ElseHonest' PROVE ins.op = "else" => Honest(v)
  <2>1. Len(body) + 1 \in DOMAIN body' /\ body'[Len(body) + 1] = ins /\ typing'[Len(body) + 1] = v
    <3>1. Len(h) = Len(body) + 1
      BY <1>1 DEF Typed
    <3> QED BY <3>1, <1>1, <1>2, <1>7
  <2> HIDE DEF v
  <2> QED BY <2>1, <1>11, <1>13 DEF ElseHonest
<1> HIDE DEF v
<1>12. ins.op = "else" => Honest(v)
  <2>1. CASE ElseHonest'
    BY <2>1, <1>11
  <2>2. CASE ElseSafe(A)
    BY <2>2, <1>1, <1>3, <1>5, <1>7, SafeHonest
  <2> QED BY <2>1, <2>2 DEF Harmless
<1>8. Typed(Append(body, ins), Append(h, w))
  BY <1>1, <1>3, <1>7, <1>12, TypedExtends
<1>9. Typed(body', History')
  BY <1>2, <1>6, <1>8
<1>10. typing' \in Seq(States)
  BY <1>1, <1>2
<1> QED BY <1>2, <1>4, <1>9, <1>10 DEF Validated, OneAlphabet

\* The first instruction after the end of the function frame.
LEMMA OverranStarts ==
  ASSUME Validated, val.ctrl = << >>, NEW ins \in Instrs, NEW bound, Accept(ins, bound)
  PROVE  GoesOn' /\ Overran'
<1>0. PICK n \in Nat : n = Len(body)
  BY HistoryEnds
<1> DEFINE h == History
<1>1. /\ body \in Seq(Instrs) /\ h \in Seq(States) /\ Len(h) = n + 1 /\ h[n + 1] = val
      /\ Typed(body, h) /\ typing \in Seq(States)
  BY <1>0, HistoryEnds DEF Validated
<1>2. body' = Append(body, ins) /\ typing' = h /\ h = Append(typing, val)
  BY DEF Accept, History
<1>3. GoesOn'
  BY <1>1, <1>2, GoesOnNext
<1>4. n # 0
  <2>1. h[1] = Start
    BY <1>1 DEF Typed
  <2> HIDE DEF h
  <2> QED BY <1>1, <2>1, StartGood
<1> HIDE DEF h
<1>5. /\ body' \in Seq(Instrs) /\ Len(body') = n + 1 /\ typing' \in Seq(Range(typing')) /\ Len(typing') = n + 1
      /\ \A k \in 1 .. n : body'[k] = body[k]
  <2>1. Append(body, ins) \in Seq(Instrs) /\ Len(Append(body, ins)) = n + 1
        /\ \A k \in 1 .. n : Append(body, ins)[k] = body[k]
    BY <1>0, <1>1
  <2>2. h \in Seq(Range(h))
    BY <1>1, <1>2, AppendRange
  <2> QED BY <1>1, <1>2, <2>1, <2>2
<1>6. Part(body', n) = body
  <2>1. body = [k \in 1 .. n |-> body[k]]
    BY <1>0, <1>1
  <2> QED BY <1>5, <2>1 DEF Part
<1>7. Part(typing', n + 1) = h
  <2>1. h = [k \in 1 .. n + 1 |-> h[k]]
    BY <1>1
  <2> QED BY <1>2, <2>1 DEF Part
<1>8. typing'[n + 1].ctrl = << >>
  BY <1>1, <1>2
<1>9. n \in 1 .. Len(body') - 1
  BY <1>1, <1>4, <1>5
<1>10. ClosedAt(n)'
  BY <1>1, <1>6, <1>7, <1>8 DEF ClosedAt
<1> QED BY <1>3, <1>5, <1>9, <1>10 DEF Overran

\* And the ones after it.
LEMMA OverranGoes ==
  ASSUME Overran, GoesOn, NEW ins \in Instrs, NEW bound, Accept(ins, bound)
  PROVE  GoesOn' /\ Overran'
<1> DEFINE m == Len(body)
<1>1. /\ body \in Seq(Instrs) /\ typing \in Seq(Range(typing)) /\ Len(typing) = m /\ m \in Nat
  BY DEF Overran
<1>2. body' = Append(body, ins) /\ typing' = Append(typing, val)
  BY DEF Accept
<1>3. GoesOn'
  BY <1>1, <1>2, GoesOnNext
<1>4. PICK n \in 1 .. m - 1 : ClosedAt(n)
  BY DEF Overran
<1>5. /\ body' \in Seq(Instrs) /\ Len(body') = m + 1 /\ \A k \in 1 .. m : body'[k] = body[k]
  BY <1>1, <1>2
<1>6. /\ typing' \in Seq(Range(typing')) /\ Len(typing') = m + 1 /\ \A k \in 1 .. m : typing'[k] = typing[k]
  <2> DEFINE after == typing'
  <2>1. after = Append(typing, val)
    BY <1>2
  <2>2. after \in Seq(Range(after))
    BY <1>1, <2>1, AppendRange
  <2>3. Len(after) = Len(typing) + 1 /\ \A k \in 1 .. Len(typing) : after[k] = typing[k]
    BY <1>1, <2>1, AppendIs
  <2> QED BY <1>1, <2>2, <2>3
<1> HIDE DEF m
<1>7. n \in Nat /\ n + 1 \in 1 .. m /\ n \in 1 .. Len(body') - 1
      /\ (\A k \in 1 .. n : k \in 1 .. m) /\ \A k \in 1 .. n + 1 : k \in 1 .. m
  BY <1>1, <1>4, <1>5
<1>8. Part(body', n) = Part(body, n) /\ Part(typing', n + 1) = Part(typing, n + 1) /\ typing'[n + 1] = typing[n + 1]
  BY <1>5, <1>6, <1>7 DEF Part
<1>9. ClosedAt(n)'
  BY <1>4, <1>8 DEF ClosedAt
<1> QED BY <1>3, <1>5, <1>6, <1>7, <1>9 DEF Overran

\* compileFunction refuses such a body.
LEMMA OverranRefused ==
  ASSUME Overran
  PROVE  ~CompileFunction(body).ok
<1>1. PICK n \in 1 .. Len(body) - 1 : ClosedAt(n)
  BY DEF Overran
<1> DEFINE b0 == Part(body, n)
           h0 == Part(typing, n + 1)
<1>2. Typed(b0, h0) /\ typing[n + 1].ctrl = << >> /\ Len(body) \in Nat
  BY <1>1 DEF ClosedAt, Overran
<1>3. DOMAIN b0 = 1 .. n /\ (\A k \in 1 .. n : b0[k] = body[k]) /\ h0[n + 1] = typing[n + 1] /\ n \in Nat /\ n >= 1
  BY <1>1, <1>2 DEF Part
<1> HIDE DEF b0, h0
<1>4. Len(b0) = n /\ b0 # << >>
  <2>1. b0 \in Seq(Instrs)
    BY <1>2 DEF Typed
  <2>2. DOMAIN b0 = 1 .. Len(b0) /\ Len(b0) \in Nat
    BY <2>1
  <2>3. n \in DOMAIN b0
    BY <1>3
  <2> QED BY <1>3, <2>1, <2>2, <2>3
<1>5. Whole(b0, h0)
  BY <1>2, <1>3, <1>4, ClosedByEnd
<1>6. Extends(body, b0)
  BY <1>1, <1>2, <1>3, <1>4 DEF Extends
<1> QED BY <1>5, <1>6, OverrunRefused

LEMMA ValidatingKeeps ==
  ASSUME Harmless, Checked, Validating
  PROVE  Checked'
<1>1. ASSUME NEW A \in DOMAIN Alphabets, Range(body) \subseteq A, NEW ins \in A, Accept(ins, Alphabets[A])
      PROVE  Checked'
  <2>1. ins \in Instrs
    BY <1>1 DEF Instrs
  <2>2. CASE GoesOn
    BY <1>1, <2>1, <2>2, OverranGoes DEF Checked
  <2>3. CASE ~GoesOn /\ val.ctrl = << >>
    BY <1>1, <2>1, <2>3, OverranStarts DEF Checked
  <2>4. CASE ~GoesOn /\ val.ctrl # << >>
    <3>1. Validated'
      BY <1>1, <2>4, AcceptKeeps DEF Checked
    <3>2. ~GoesOn'
      <4>1. typing \in Seq(States) /\ typing' = Append(typing, val)
        BY <1>1, <2>4 DEF Checked, Validated, Accept
      <4> QED BY <2>4, <4>1, GoesOnNext
    <3> QED BY <3>1, <3>2 DEF Checked
  <2> QED BY <2>2, <2>3, <2>4
<1>2. ASSUME NEW ins, Reject(ins) PROVE Checked'
  <2>1. body' = << >> /\ typing' = << >> /\ val' = Start /\ verdict' = "rejected"
    BY <1>2 DEF Reject
  <2>2. typing' \in Seq(States) /\ Typed(body', Append(typing', val'))
    BY <2>1, ValidatedStarts
  <2>3. Validated'
    BY <2>1, <2>2 DEF Validated, OneAlphabet, History
  <2>4. ~GoesOn'
    BY <2>1 DEF GoesOn
  <2> QED BY <2>3, <2>4 DEF Checked
<1>3. ASSUME Finish PROVE Checked'
  <2>1. /\ body' = body /\ val' = val /\ typing' = typing /\ body # << >> /\ Last(body).op = "end"
        /\ val.ctrl = << >>
    BY <1>3 DEF Finish
  <2>2. CASE GoesOn
    BY <2>1, <2>2 DEF Checked, GoesOn, Overran, ClosedAt
  <2>3. CASE ~GoesOn
    BY <2>1, <2>3 DEF Checked, GoesOn, Validated, OneAlphabet, History
  <2> QED BY <2>2, <2>3
<1> QED BY <1>1, <1>2, <1>3 DEF Validating

-----------------------------------------------------------------------------
(* The first step of a frame *)

LEMMA WholeBody ==
  ASSUME Validated, verdict = "valid"
  PROVE  Whole(body, History)
<1>1. body # << >> /\ Last(body).op = "end" /\ val.ctrl = << >> /\ Typed(body, History)
  BY DEF Validated
<1>2. History[Len(body) + 1] = val
  BY HistoryEnds
<1> QED BY <1>1, <1>2 DEF Whole, Last

\* The locals a call starts with.
LEMMA StartingLocals ==
  ASSUME NEW args \in Tuples(ParamTypes),
         NEW ls, ls = args \o [i \in DOMAIN LocalTypes |-> Zero(LocalTypes[i])]
  PROVE  LocalsFit(ls, InitiallySet)
<1> DEFINE z == [i \in DOMAIN LocalTypes |-> Zero(LocalTypes[i])]
           n == Len(ParamTypes)
           m == Len(LocalTypes)
<1>1. ParamTypes \in Seq(ValueTypes) /\ LocalTypes \in Seq(ValueTypes) /\ n \in Nat /\ m \in Nat
      /\ DOMAIN LocalTypes = 1 .. m
  BY Tables
<1>2. args \in Seq(Values) /\ Len(args) = n /\ \A k \in 1 .. n : args[k] \in ValuesOf(ParamTypes[k])
  BY <1>1, TupleIs
<1>3. /\ z \in Seq(Values) /\ Len(z) = m
      /\ \A k \in 1 .. m : z[k] = Zero(LocalTypes[k]) /\ LocalTypes[k] \in ValueTypes
  <2>1. \A k \in 1 .. m : LocalTypes[k] \in ValueTypes
    BY <1>1
  <2>2. \A k \in 1 .. m : Zero(LocalTypes[k]) \in Values
    BY <2>1, ValuesAre
  <2>3. z = [k \in 1 .. m |-> Zero(LocalTypes[k])]
    BY <1>1
  <2> HIDE DEF z, m
  <2>4. z \in [1 .. m -> Values]
    BY <2>2, <2>3
  <2>5. z \in Seq(Values) /\ Len(z) = m
    BY <1>1, <2>4
  <2> QED BY <2>1, <2>3, <2>5
<1>4. /\ DOMAIN AllLocals = 1 .. n + m
      /\ \A k \in 1 .. n : AllLocals[k] = ParamTypes[k] /\ ParamTypes[k] \in ValueTypes
      /\ \A k \in 1 .. m : AllLocals[n + k] = LocalTypes[k]
  BY <1>1 DEF AllLocals
<1>5. ls = args \o z
  OBVIOUS
<1> HIDE DEF z, n, m
<1>6. /\ ls \in Seq(Values) /\ Len(ls) = n + m
      /\ \A k \in 1 .. n : ls[k] = args[k]
      /\ \A k \in 1 .. m : ls[n + k] = z[k]
  <2>1. args \in Seq(Values) /\ z \in Seq(Values)
    BY <1>2, <1>3
  <2>2. /\ args \o z \in Seq(Values) /\ Len(args \o z) = Len(args) + Len(z)
        /\ \A k \in 1 .. Len(args) : (args \o z)[k] = args[k]
        /\ \A k \in 1 .. Len(z) : (args \o z)[Len(args) + k] = z[k]
    BY <2>1, JoinIs
  <2> QED BY <1>2, <1>3, <1>5, <2>2
<1>7. DOMAIN ls = DOMAIN AllLocals
  BY <1>1, <1>4, <1>6
<1>8. ASSUME NEW i \in 1 .. n + m
      PROVE  /\ IF AllLocals[i] \in RefTypes THEN ls[i] \in Refs ELSE ls[i] = AllLocals[i]
             /\ i \in InitiallySet => ls[i] \in ValuesOf(AllLocals[i])
  <2>1. CASE i \in 1 .. n
    <3> DEFINE t == ParamTypes[i]
    <3>1. ls[i] \in ValuesOf(t) /\ AllLocals[i] = t /\ t \in ValueTypes
      BY <1>2, <1>4, <1>6, <2>1
    <3> HIDE DEF t
    <3> QED BY <3>1 DEF ValuesOf, ValueTypes, RefTypes, Refs
  <2>2. CASE i \notin 1 .. n
    <3> DEFINE k == i - n
    <3>1. k \in 1 .. m /\ i = n + k /\ i > n
      BY <1>1, <2>2 DEF n, m
    <3> HIDE DEF k
    <3> DEFINE t == LocalTypes[k]
    <3>2. ls[i] = Zero(t) /\ AllLocals[i] = t /\ t \in ValueTypes
      BY <1>3, <1>4, <1>6, <3>1
    <3>3. i \in InitiallySet => t # "exn"
      BY <3>1, <3>2 DEF InitiallySet, n
    <3> HIDE DEF t
    <3> QED BY <3>2, <3>3 DEF ValuesOf, ValueTypes, RefTypes, Refs, Zero
  <2> QED BY <2>1, <2>2
<1> QED BY <1>4, <1>7, <1>8 DEF LocalsFit, InitiallySet

LEMMA BeginFits ==
  ASSUME NEW b, NEW h, Whole(b, h), NEW c, NEW args \in Tuples(ParamTypes),
         NEW ls, ls = args \o [i \in DOMAIN LocalTypes |-> Zero(LocalTypes[i])]
  PROVE  Fits(b, h, c, 1, << >>, ls, <<FunctionLabel>>)
<1> DEFINE lbs == <<FunctionLabel>>
           none == << >>
<1>1. Len(b) \in Nat \ {0} /\ h[1] = Start
  BY WholeShape
<1>2. /\ Len(Start.ctrl) = 1 /\ Start.ctrl # << >> /\ TopFrame(Start) = Start.ctrl[1] /\ ~Start.ctrl[1].dead
      /\ Start.height = 0 /\ Start.inits = InitiallySet
  BY StartGood DEF TopFrame
<1>3. IsLive(h[1])
  BY <1>1, <1>2 DEF IsLive
<1>4. LocalsFit(ls, h[1].inits)
  BY <1>1, <1>2, StartingLocals
<1>5. lbs \in Seq({FunctionLabel}) /\ Len(lbs) = 1 /\ DOMAIN lbs = {1} /\ lbs[1] = FunctionLabel
  OBVIOUS
<1>6. Agrees(none, h[1])
  <2>1. none \in Seq(Values) /\ Len(none) = 0 /\ DOMAIN none = {}
    OBVIOUS
  <2> HIDE DEF none
  <2> QED BY <1>1, <1>2, <2>1 DEF Agrees
<1> HIDE DEF lbs, none
<1>7. \A i \in DOMAIN lbs : LabelFits(b, h, c, 1, i, lbs[i])
  BY <1>5 DEF LabelFits
<1>8. Framed(b, h, c, 1, ls, lbs)
  BY <1>1, <1>2, <1>3, <1>4, <1>5, <1>7 DEF Framed
<1>9. Fits(b, h, c, 1, none, ls, lbs)
  BY <1>6, <1>8, InnerFits
<1> QED BY <1>9 DEF none, lbs

-----------------------------------------------------------------------------
(* The invariant is inductive *)

LEMMA IInvStarts ==
  ASSUME Init
  PROVE  IInv
<1>1. body = << >> /\ typing = << >> /\ val = Start /\ verdict = "open" /\ status = "idle"
  BY DEF Init, ValidateInit, ExecInit
<1>2. typing \in Seq(States) /\ Typed(body, Append(typing, val))
  BY <1>1, ValidatedStarts
<1>3. Validated
  BY <1>1, <1>2 DEF Validated, OneAlphabet, History
<1>4. ~GoesOn
  BY <1>1 DEF GoesOn
<1> QED BY <1>1, <1>3, <1>4 DEF IInv, Checked

\* Instantiate does not change what was validated.
LEMMA CheckedStays ==
  ASSUME Checked, UNCHANGED validateVars
  PROVE  Checked' /\ (GoesOn' <=> GoesOn) /\ History' = History
<1>1. body' = body /\ val' = val /\ typing' = typing /\ verdict' = verdict
  BY DEF validateVars
<1>2. (GoesOn' <=> GoesOn) /\ History' = History
  BY <1>1 DEF GoesOn, History
<1>3. GoesOn => (Overran' <=> Overran)
  BY <1>1 DEF Overran, ClosedAt
<1>4. Validated' <=> Validated
  BY <1>1, <1>2 DEF Validated, OneAlphabet
<1> QED BY <1>2, <1>3, <1>4 DEF Checked

\* A body that is valid and stops at the end of its function frame compiles, and
\* its frame starts where it fits.
LEMMA InstantiateKeeps ==
  ASSUME IInv, Instantiate
  PROVE  IInv'
<1>1. Checked /\ verdict = "valid" /\ body' = body /\ val' = val /\ typing' = typing /\ verdict' = verdict
  BY DEF IInv, Instantiate, validateVars
<1>2. Checked' /\ (GoesOn' <=> GoesOn) /\ History' = History
  BY <1>1, CheckedStays DEF Instantiate
<1>3. CASE GoesOn
  <2>1. ~CompileFunction(body).ok
    BY <1>1, <1>3, OverranRefused DEF Checked
  <2>2. status' = "uncompiled"
    BY <2>1 DEF Instantiate
  <2> QED BY <1>1, <1>2, <1>3, <2>2 DEF IInv, Ran
<1>4. CASE ~GoesOn
  <2>1. Validated
    BY <1>1, <1>4 DEF Checked
  <2>2. Whole(body, History)
    BY <1>1, <2>1, WholeBody
  <2>3. CompileFunction(body).ok /\ Resolved(body, History, CompileFunction(body).code)
    BY <2>2, CompilesResolved
  <2>4. Begin(CompileFunction(body).code)
    BY <2>3 DEF Instantiate
  <2>5. PICK args \in Tuples(ParamTypes) : locals' = args \o [i \in DOMAIN LocalTypes |-> Zero(LocalTypes[i])]
    BY <2>4 DEF Begin
  <2>6. /\ code' = CompileFunction(body).code /\ pc' = 1 /\ stack' = << >> /\ labels' = <<FunctionLabel>>
        /\ status' = "running"
    BY <2>4 DEF Begin
  <2>7. Fits(body, History, code', 1, << >>, locals', <<FunctionLabel>>)
    BY <2>2, <2>5, BeginFits
  <2>8. Resolved(body', History', code') /\ Fits(body', History', code', pc', stack', locals', labels')
    BY <1>1, <1>2, <2>3, <2>6, <2>7
  <2> QED BY <1>1, <1>2, <1>4, <2>6, <2>8 DEF IInv, Ran
<1> QED BY <1>3, <1>4

LEMMA StepRuns ==
  ASSUME Step
  PROVE  status = "running"
BY DEF Step, ConstStep, DropStep, SelectStep, EnterStep, IfStep, ElseStep, EndStep, BrStep, BrIfStep, BrTableStep,
       ReturnStep, UnreachableStep, CallStep, ReturnCallStep, ThrowStep, ThrowRefStep, BrOnNullStep,
       BrOnNonNullStep, RefAsNonNullStep, LocalGetStep, LocalSetStep, LocalTeeStep, At

\* What IInv says of a running frame.
LEMMA RunningFits ==
  ASSUME IInv, status = "running"
  PROVE  /\ Validated /\ Whole(body, History) /\ Resolved(body, History, code)
         /\ pc \in DOMAIN body /\ pc \in DOMAIN code /\ DOMAIN body = 1 .. Len(body) /\ Len(body) \in Nat
         /\ pc = Len(body) => Outermost(stack, labels)
         /\ pc # Len(body) => Poised
<1>1. /\ Validated /\ verdict = "valid" /\ Resolved(body, History, code)
      /\ Fits(body, History, code, pc, stack, locals, labels)
  BY DEF IInv, Checked
<1>2. Whole(body, History)
  BY <1>1, WholeBody
<1>3. DOMAIN body = 1 .. Len(body) /\ Len(body) \in Nat
  BY <1>2, WholeShape
<1>4. pc \in DOMAIN body /\ pc \in DOMAIN code
  BY <1>1 DEF Fits, Resolved
<1>5. pc # Len(body) => Poised
  <2>1. ASSUME pc # Len(body) PROVE Poised
    <3>1. Inner(body, History, code, pc, stack, locals, labels)
      BY <1>1, <2>1 DEF Fits
    <3>2. Framed(body, History, code, pc, locals, labels) /\ Agrees(stack, History[pc])
      BY <1>2, <1>3, <1>4, <3>1, InnerFramed
    <3> QED BY <1>1, <3>2 DEF Poised
  <2> QED BY <2>1
<1> QED BY <1>1, <1>2, <1>3, <1>4, <1>5 DEF Fits

LEMMA RunningMoves ==
  ASSUME IInv, Running
  PROVE  Moves
<1>1. Step /\ status = "running"
  BY StepRuns DEF Running
<1> QED BY <1>1, RunningFits, InnerStepMoves, FinalStepMoves

LEMMA RunningKeeps ==
  ASSUME IInv, Running
  PROVE  IInv'
<1>1. /\ Step /\ status = "running"
      /\ body' = body /\ val' = val /\ typing' = typing /\ verdict' = verdict
  BY StepRuns DEF Running, validateVars
<1>2. Goes
  BY RunningMoves DEF Moves
<1>3. Checked /\ verdict = "valid" /\ Resolved(body, History, code) /\ ~GoesOn
  BY <1>1 DEF IInv
<1>4. Checked' /\ ~GoesOn' /\ History' = History
  BY <1>3, CheckedStays DEF Running
<1>5. code' = code
  BY <1>2 DEF Goes
<1>6. CASE status' \in {"returned", "tail", "trap", "thrown"}
  BY <1>1, <1>3, <1>4, <1>6 DEF IInv, Ran
<1>7. CASE status' = "running" /\ Fits(body, History, code, pc', stack', locals', labels')
  <2>1. Resolved(body', History', code') /\ Fits(body', History', code', pc', stack', locals', labels')
    BY <1>1, <1>3, <1>4, <1>5, <1>7
  <2> QED BY <1>1, <1>3, <1>4, <1>7, <2>1 DEF IInv, Ran
<1> QED BY <1>2, <1>6, <1>7 DEF Goes

LEMMA IInvKept ==
  ASSUME Harmless, IInv, [Next]_vars
  PROVE  IInv'
<1>1. CASE Validating /\ UNCHANGED execVars
  <2>1. Checked'
    BY <1>1, ValidatingKeeps DEF IInv
  <2>2. verdict = "open" /\ status' = status
    BY <1>1 DEF Validating, Accept, Reject, Finish, execVars
  <2>3. status = "idle"
    BY <2>2 DEF IInv
  <2> QED BY <2>1, <2>2, <2>3 DEF IInv, Ran
<1>2. CASE Instantiate
  BY <1>2, InstantiateKeeps
<1>3. CASE Running
  BY <1>3, RunningKeeps
<1>4. CASE UNCHANGED vars
  <2>1. UNCHANGED validateVars /\ UNCHANGED <<code, pc, stack, locals, labels, status>>
    BY <1>4 DEF vars, validateVars
  <2>2. Checked' /\ (GoesOn' <=> GoesOn) /\ History' = History
    BY <2>1, CheckedStays DEF IInv
  <2> QED BY <2>1, <2>2 DEF IInv, validateVars
<1>5. Validating => UNCHANGED execVars
  BY DEF Validating
<1> QED BY <1>1, <1>2, <1>3, <1>4, <1>5 DEF Next

-----------------------------------------------------------------------------
(* The properties *)

\* A validated body and the frame that runs it never part: validation states
\* are those of the rules, compiled code names the validator's frames, and
\* operands, locals and labels fit the state before the next instruction. The
\* else rule is all that stands in the way.
THEOREM Soundness == Spec /\ []ElseHonest => []IInv
<1>1. Init => IInv
  BY IInvStarts
<1>2. IInv /\ ElseHonest' /\ [Next]_vars => IInv'
  BY IInvKept DEF Harmless
<1> QED BY <1>1, <1>2, PTL DEF Spec

\* The typing of the validator holds of every body it accepts, whether the body
\* is run or not, until one goes on after the end of its function frame.
THEOREM TypingSound == Spec /\ []ElseHonest => [](GoesOn \/ Validated)
<1>1. IInv => GoesOn \/ Validated
  BY DEF IInv, Checked
<1> QED BY <1>1, Soundness, PTL

\* Executing a validated body never ends in an internal error of the executor.
THEOREM NeverFaults == Spec /\ []ElseHonest => []NoFault
<1>1. IInv => NoFault
  BY RunningFits DEF IInv, Ran, NoFault
<1> QED BY <1>1, Soundness, PTL

\* Instantiate compiles the body of a validated module, unless it goes on after
\* the end of its function frame; then it never does.
THEOREM AlwaysCompiles == Spec /\ []ElseHonest => []AcceptedCompiles
<1>1. IInv => AcceptedCompiles
  BY SMTT(60) DEF IInv, Ran, AcceptedCompiles
<1> QED BY <1>1, Soundness, PTL

\* What IInv says of a frame about to run an inner instruction.
LEMMA InsidePoised ==
  ASSUME IInv, Inside
  PROVE  Poised /\ typing[pc] = History[pc] /\ pc \in 1 .. Len(body)
<1>1. status = "running" /\ pc \in 1 .. Len(body) - 1
  BY SMTT(60) DEF Inside
<1>2. Validated /\ Len(body) \in Nat
  BY <1>1, RunningFits
<1>3. pc \in 1 .. Len(body) /\ pc # Len(body)
  BY <1>1, <1>2
<1> QED BY <1>1, <1>2, <1>3, RunningFits, HistoryEnds

\* Control never reaches code the validator proved unreachable.
THEOREM DeadCodeStaysDead == Spec /\ []ElseHonest => []DeadCodeNeverRuns
<1>1. IInv => DeadCodeNeverRuns
  <2> SUFFICES ASSUME IInv, Inside PROVE ~TopFrame(typing[pc]).dead
    BY DEF DeadCodeNeverRuns
  <2> QED BY InsidePoised, FramedFacts DEF Poised, IsLive
<1> QED BY <1>1, Soundness, PTL

\* A label's loop flag says whether its frame is a loop.
LEMMA LabelLoops ==
  ASSUME NEW b, NEW h, NEW c, NEW p, NEW ls, NEW lbs, Framed(b, h, c, p, ls, lbs), NEW i \in DOMAIN lbs
  PROVE  lbs[i].isLoop = (h[p].ctrl[i].kind = "loop")
<1> DEFINE f == h[p].ctrl[i]
<1>1. LabelFits(b, h, c, p, i, lbs[i])
  BY FramedFacts
<1>2. CASE i = 1
  <2>1. lbs[i] = FunctionLabel
    BY <1>1, <1>2 DEF LabelFits
  <2>2. f.kind = "block"
    BY <1>2, LabelIs
  <2>3. lbs[i].isLoop = FALSE
    <3>1. FunctionLabel.isLoop = FALSE
      BY DEF FunctionLabel
    <3> QED BY <2>1, <3>1, Zenon
  <2>4. (f.kind = "loop") = FALSE
    BY <2>2
  <2> HIDE DEF f
  <2> QED BY <2>3, <2>4, Zenon DEF f
<1>3. CASE i # 1
  <2>1. PICK s \in 1 .. p - 1 :
          lbs[i] = [height |-> f.entry, results |-> Len(f.results), branch |-> Len(LabelTypes(f)),
                    isLoop |-> f.kind = "loop", catches |-> c[s].catches]
    BY <1>1, <1>3 DEF LabelFits
  <2> QED BY <2>1
<1> QED BY <1>2, <1>3

\* Operands, locals and labels agree with the validator's state before every
\* inner instruction, however control came there.
THEOREM StackAlwaysAgrees == Spec /\ []ElseHonest => []StackAgrees
<1>1. IInv => StackAgrees
  <2> SUFFICES ASSUME IInv, Inside, NEW v, v = typing[pc]
               PROVE  /\ Len(stack) = v.height
                      /\ \A i \in DOMAIN stack : v.slots[i] = Unknown \/ stack[i] \in ValuesOf(v.slots[i])
                      /\ \A i \in v.inits : locals[i] \in ValuesOf(AllLocals[i])
                      /\ Len(labels) = Len(v.ctrl)
                      /\ \A i \in DOMAIN labels :
                           /\ labels[i].height = v.ctrl[i].entry
                           /\ labels[i].branch = Len(LabelTypes(v.ctrl[i]))
                           /\ labels[i].isLoop = (v.ctrl[i].kind = "loop")
    BY DEF StackAgrees
  <2>1. Framed(body, History, code, pc, locals, labels) /\ Agrees(stack, History[pc]) /\ v = History[pc]
    BY InsidePoised DEF Poised
  <2>2. Len(stack) = v.height /\ \A i \in DOMAIN stack : stack[i] \in ValuesOf(v.slots[i])
    BY <2>1 DEF Agrees
  <2>3. LocalsFit(locals, v.inits) /\ Len(labels) = Len(v.ctrl)
    BY <2>1, FramedFacts
  <2>4. \A i \in v.inits : locals[i] \in ValuesOf(AllLocals[i])
    BY <2>3 DEF LocalsFit
  <2>5. ASSUME NEW i \in DOMAIN labels
        PROVE  labels[i].height = v.ctrl[i].entry /\ labels[i].branch = Len(LabelTypes(v.ctrl[i]))
    BY <2>1, LabelIs
  <2>6. ASSUME NEW i \in DOMAIN labels PROVE labels[i].isLoop = (v.ctrl[i].kind = "loop")
    <3>1. labels[i].isLoop = (History[pc].ctrl[i].kind = "loop")
      BY <2>1, LabelLoops
    <3> QED BY <2>1, <3>1
  <2> QED BY <2>2, <2>3, <2>4, <2>5, <2>6
<1> QED BY <1>1, Soundness, PTL

\* The final end finds the results of the function and nothing below them.
THEOREM NothingIsLeft == Spec /\ []ElseHonest => []NothingLeftBehind
<1>1. IInv => NothingLeftBehind
  <2> SUFFICES ASSUME IInv, status = "running", pc = Len(body)
               PROVE  /\ Len(stack) = Len(ResultTypes) /\ Len(labels) = 1
                      /\ \A i \in DOMAIN stack : stack[i] \in ValuesOf(ResultTypes[i])
    BY DEF NothingLeftBehind
  <2>1. stack \in Tuples(ResultTypes) /\ labels = <<FunctionLabel>>
    BY RunningFits DEF Outermost
  <2>2. /\ stack \in Seq(Values) /\ Len(stack) = Len(ResultTypes)
        /\ \A k \in 1 .. Len(ResultTypes) : stack[k] \in ValuesOf(ResultTypes[k])
    BY <2>1, TupleIs, Tables
  <2> QED BY <2>1, <2>2
<1> QED BY <1>1, Soundness, PTL

\* A frame starts with one context, which is empty.
LEMMA StartMoves ==
  ASSUME IInv, ~GoesOn, Instantiate
  PROVE  S!Next
<1>1. Validated /\ verdict = "valid" /\ status = "idle"
  BY DEF IInv, Checked, Instantiate
<1>2. CompileFunction(body).ok
  BY <1>1, WholeBody, CompilesResolved
<1>3. stack' = << >> /\ labels' = <<FunctionLabel>> /\ status' = "running"
  BY <1>2 DEF Instantiate, Begin
<1>4. Mode = "idle" /\ Mode' = "running"
  BY <1>1, <1>3 DEF Mode
<1>5. FunctionLabel.height = 0
  BY DEF FunctionLabel
<1>6. Contexts' = << << >> >>
  <2>1. Contexts' = [i \in {1} |-> SubSeq(<< >>, 1, 0)]
    BY <1>3, <1>5 DEF Contexts, Cut, Ceiling
  <2> QED BY <2>1
<1>7. Len(Shapes') = 1
  BY <1>3 DEF Shapes, ShapesOf
<1> QED BY <1>4, <1>6, <1>7 DEF S!Next, S!Start

LEMMA NextMoves ==
  ASSUME IInv, [Next]_vars
  PROVE  [S!Next]_(S!structuredVars)
<1>1. CASE Validating \/ UNCHANGED vars
  <2>1. stack' = stack /\ labels' = labels /\ status' = status
    BY <1>1 DEF Validating, execVars, vars
  <2>2. Mode' = Mode /\ Contexts' = Contexts /\ Shapes' = Shapes
    BY <2>1 DEF Mode, Contexts, Shapes
  <2> QED BY <2>2 DEF S!structuredVars
<1>2. CASE Instantiate /\ ~GoesOn
  BY <1>2, StartMoves
<1>4. CASE Instantiate /\ GoesOn
  <2>1. ~CompileFunction(body).ok
    BY <1>4, OverranRefused DEF IInv, Checked
  <2>2. stack' = stack /\ labels' = labels /\ status = "idle" /\ status' = "uncompiled"
    BY <1>4, <2>1 DEF Instantiate
  <2>3. Mode' = Mode /\ Contexts' = Contexts /\ Shapes' = Shapes
    BY <2>2 DEF Mode, Contexts, Shapes
  <2> QED BY <2>3 DEF S!structuredVars
<1>3. CASE Running
  BY <1>3, RunningMoves DEF Moves
<1> QED BY <1>1, <1>2, <1>3, <1>4 DEF Next

\* The executor, with its one flat stack, implements structured control: in every
\* step an instruction takes operands of the innermost label only, an end moves
\* exactly the results of its label, and branches and handlers carry what their
\* label takes and nothing else.
THEOREM Refinement == Spec /\ []ElseHonest => ImplementsStructured
<1>1. Init => S!Init
  <2> SUFFICES ASSUME Init PROVE S!Init
    OBVIOUS
  <2>1. stack = << >> /\ labels = << >> /\ status = "idle"
    BY DEF Init, ExecInit
  <2>2. Mode = "idle" /\ Contexts = << >> /\ Shapes = << >>
    BY <2>1 DEF Mode, Contexts, Cut, Shapes, ShapesOf
  <2> QED BY <2>2 DEF S!Init
<1>2. IInv /\ [Next]_vars => [S!Next]_(S!structuredVars)
  BY NextMoves
<1> QED BY <1>1, <1>2, Soundness, PTL DEF Spec, ImplementsStructured, S!Spec

-----------------------------------------------------------------------------
(* Which clause takes an exception *)

\* The history of a body that the validator has taken.
Taken(b, h) ==
  /\ b = body /\ h = History /\ Whole(b, h) /\ Len(b) \in Nat
  /\ \A p \in 1 .. Len(b) : typing[p] = h[p]

\* An opener of frame i at s is the last instruction before p that opened a
\* frame at that depth.
LEMMA OpenerIs ==
  ASSUME NEW b, NEW h, Taken(b, h), NEW p \in 1 .. Len(b), NEW i \in Nat, NEW s, OpensAt(b, h, p, i, s)
  PROVE  OpenerOfFrame(p, i) = s
<1> DEFINE D == {x \in 1 .. p - 1 : body[x].op \in Openers /\ Len(typing[x].ctrl) = i - 1}
<1>1. Len(b) \in Nat /\ p \in 1 .. Len(b) + 1 /\ \A q \in 1 .. Len(b) + 1 : Len(h[q].ctrl) \in Nat
  BY WholeShape DEF Taken
<1>2. s \in 1 .. p - 1 /\ s \in 1 .. Len(b) /\ b[s].op \in Openers /\ Len(h[s].ctrl) = i - 1
      /\ Spans(h, s + 1, p, i)
  BY <1>1 DEF OpensAt
<1>3. s \in D
  BY <1>2 DEF Taken
<1>4. ASSUME NEW x \in D PROVE s >= x
  <2>1. x \in 1 .. p - 1 /\ x \in 1 .. Len(b) /\ x \in 1 .. Len(b) + 1 /\ Len(h[x].ctrl) = i - 1
    BY <1>1 DEF Taken
  <2>2. ASSUME s < x PROVE FALSE
    <3>1. x \in s + 1 .. p /\ s + 1 \in Int /\ p \in Int
      BY <1>1, <1>2, <2>1, <2>2
    <3>2. Len(h[x].ctrl) >= i
      BY <1>2, <3>1, SpanAt
    <3> QED BY <1>1, <2>1, <3>2
  <2> QED BY <1>2, <2>1, <2>2
<1>5. \A x \in D : x \in Int
  OBVIOUS
<1>6. OpenerOfFrame(p, i) = Max(D)
  BY DEF OpenerOfFrame
<1> HIDE DEF D
<1>7. Max(D) \in D /\ \A x \in D : Max(D) >= x
  BY <1>3, <1>4 DEF Max
<1>8. Max(D) >= s /\ s >= Max(D)
  BY <1>3, <1>4, <1>7
<1> QED BY <1>3, <1>5, <1>6, <1>7, <1>8

\* The end of that frame is the first end after p at that depth.
LEMMA EndIs ==
  ASSUME NEW b, NEW h, Taken(b, h), NEW p \in 1 .. Len(b), NEW i \in Nat, NEW s, OpensAt(b, h, p, i, s),
         NEW e, EndsAt(b, h, s, e)
  PROVE  EndOfFrame(p, i) = e
<1> DEFINE D == {x \in p .. Len(body) : body[x].op = "end" /\ Len(typing[x].ctrl) = i}
<1>1. Whole(b, h) /\ Len(b) \in Nat /\ p \in 1 .. Len(b) + 1 /\ \A q \in 1 .. Len(b) + 1 : Len(h[q].ctrl) \in Nat
  BY WholeShape DEF Taken
<1>2. s \in 1 .. p - 1 /\ Len(h[s].ctrl) = i - 1 /\ Spans(h, s + 1, p, i)
  BY DEF OpensAt
<1>3. /\ s \in 1 .. Len(b) /\ e \in s + 1 .. Len(b) /\ b[e].op = "end"
      /\ OpensAt(b, h, e, Len(h[s].ctrl) + 1, s) /\ Len(h[e + 1].ctrl) = Len(h[s].ctrl)
      /\ Len(h[e].ctrl) = Len(h[s].ctrl) + 1
  BY <1>1, EndsFacts
<1>4. Len(h[e].ctrl) = i /\ Len(h[e + 1].ctrl) = i - 1 /\ Spans(h, s + 1, e, i)
  <2>1. Len(h[s].ctrl) + 1 = i
    BY <1>2
  <2> QED BY <1>2, <1>3, <2>1 DEF OpensAt
<1>5. p <= e
  <2>1. ASSUME e < p PROVE FALSE
    <3>1. e + 1 \in s + 1 .. p /\ s + 1 \in Int /\ p \in Int
      BY <1>1, <1>3, <2>1
    <3>2. Len(h[e + 1].ctrl) >= i
      BY <1>2, <3>1, SpanAt
    <3> QED BY <1>4, <3>2
  <2> QED BY <1>1, <1>3, <2>1
<1>6. e \in D
  <2>1. e \in 1 .. Len(b) /\ e \in p .. Len(b)
    BY <1>1, <1>3, <1>5
  <2> QED BY <1>3, <1>4, <2>1 DEF Taken
<1>7. ASSUME NEW x \in D PROVE e <= x
  <2>1. x \in p .. Len(b) /\ x \in 1 .. Len(b) /\ b[x].op = "end" /\ Len(h[x].ctrl) = i
    BY <1>1 DEF Taken
  <2>2. ASSUME x < e PROVE FALSE
    <3>1. Len(h[x + 1].ctrl) = i - 1
      BY <1>1, <2>1, EndEnds
    <3>2. x + 1 \in s + 1 .. e /\ s + 1 \in Int /\ e \in Int
      BY <1>1, <1>2, <1>3, <2>1, <2>2
    <3>3. Len(h[x + 1].ctrl) >= i
      BY <1>4, <3>2, SpanAt
    <3> QED BY <3>1, <3>3
  <2> QED BY <1>3, <2>1, <2>2
<1>8. \A x \in D : x \in Int
  OBVIOUS
<1>9. EndOfFrame(p, i) = Min(D)
  BY DEF EndOfFrame
<1> HIDE DEF D
<1>10. Min(D) \in D /\ \A x \in D : Min(D) <= x
  BY <1>6, <1>7 DEF Min
<1>11. Min(D) <= e /\ e <= Min(D)
  BY <1>6, <1>7, <1>10
<1> QED BY <1>6, <1>8, <1>9, <1>10, <1>11

\* A resolved target is where the nesting of the body says that the branch
\* arrives.
LEMMA ArrivalIs ==
  ASSUME NEW b, NEW h, Taken(b, h), NEW p \in 1 .. Len(b), NEW i \in Nat, NEW x, Lands(b, h, p, i, x)
  PROVE  Arrival(p, i) = x + 1
<1>1. CASE i = 1 /\ x = Len(b) - 1
  BY <1>1 DEF Arrival, Taken
<1>2. CASE ~(i = 1 /\ x = Len(b) - 1)
  <2>1. i > 1
    BY <1>2 DEF Lands
  <2>2. PICK s \in 1 .. p - 1 : OpensAt(b, h, p, i, s) /\ IF b[s].op = "loop" THEN x = s ELSE EndsAt(b, h, s, x)
    BY <1>2 DEF Lands
  <2>3. OpenerOfFrame(p, i) = s
    BY <2>2, OpenerIs
  <2>4. CASE b[s].op = "loop"
    BY <2>1, <2>2, <2>3, <2>4 DEF Arrival, Taken
  <2>5. CASE b[s].op # "loop"
    <3>1. EndOfFrame(p, i) = x
      BY <2>2, <2>5, EndIs
    <3> QED BY <2>1, <2>3, <2>5, <3>1 DEF Arrival, Taken
  <2> QED BY <2>4, <2>5
<1> QED BY <1>1, <1>2

\* The clauses of label i are those of the try_table that opened frame i, and
\* each is resolved to where it arrives.
LEMMA ClausesAre ==
  ASSUME NEW b, NEW h, Taken(b, h), NEW c, NEW p, NEW ls, NEW lbs, Framed(b, h, c, p, ls, lbs), Resolved(b, h, c),
         NEW i \in DOMAIN lbs
  PROVE  /\ DOMAIN lbs[i].catches = DOMAIN ClausesAt(p, i)
         /\ \A m \in DOMAIN lbs[i].catches :
              LET cl == lbs[i].catches[m]
                  ins == ClausesAt(p, i)[m]
              IN  /\ cl.kind = ins.kind /\ cl.tag = ins.tag /\ cl.target.depth = ins.depth
                  /\ Arrival(p, i - 1 - ins.depth) = cl.target.pc + 1
<1>1. /\ Whole(b, h) /\ Len(b) \in Nat /\ p \in 1 .. Len(b) /\ p \in 1 .. Len(b) + 1 /\ DOMAIN b = 1 .. Len(b)
      /\ LabelFits(b, h, c, p, i, lbs[i]) /\ typing[p] = h[p] /\ Good(h[p]) /\ h[p].ctrl # << >>
      /\ Len(lbs) = Len(h[p].ctrl) /\ DOMAIN lbs = 1 .. Len(lbs) /\ Len(lbs) \in Nat
  BY FramedFacts DEF Taken
<1>2. CASE i = 1
  <2>1. lbs[i].catches = << >>
    BY <1>1, <1>2 DEF LabelFits, FunctionLabel
  <2>2. ClausesAt(p, i) = << >>
    <3>1. h[p].ctrl[1].kind = "block"
      BY <1>1 DEF Good, Rooted
    <3> QED BY <1>1, <1>2, <3>1 DEF ClausesAt
  <2> QED BY <2>1, <2>2
<1>3. CASE i # 1
  <2>1. PICK x \in 1 .. p - 1 : OpensAt(b, h, p, i, x) /\ lbs[i].catches = c[x].catches
    <3>1. LabelFits(b, h, c, p, i, lbs[i])
      BY <1>1
    <3>2. \E x \in 1 .. p - 1 :
            /\ OpensAt(b, h, p, i, x)
            /\ lbs[i] = [height |-> h[p].ctrl[i].entry, results |-> Len(h[p].ctrl[i].results),
                         branch |-> Len(LabelTypes(h[p].ctrl[i])),
                         isLoop |-> h[p].ctrl[i].kind = "loop", catches |-> c[x].catches]
      BY ONLY <1>3, <3>1, Zenon DEF LabelFits
    <3> QED BY ONLY <3>2
  <2>2. i \in Nat
    BY <1>1
  <2>3. /\ x \in 1 .. Len(b) /\ b[x].op \in Openers /\ FrameOf(h[p].ctrl[i], b[x])
        /\ Len(h[x].ctrl) = i - 1
    BY <1>1, <2>1, <2>2, Opened
  <2>4. ResolvedAt(b, h, x, c[x]) /\ c[x].op = b[x].op
    BY <1>1, <2>3 DEF Resolved, ResolvedAt
  <2>5. OpenerOfFrame(p, i) = x
    BY <1>1, <2>1, <2>2, OpenerIs
  <2>6. CASE b[x].op # "try_table"
    <3>1. c[x].catches = << >>
      BY <2>3, <2>4, <2>6 DEF ResolvedAt
    <3>2. ClausesAt(p, i) = << >>
      BY <1>1, <2>3, <2>6 DEF ClausesAt, FrameOf
    <3> QED BY <2>1, <3>1, <3>2
  <2>7. CASE b[x].op = "try_table"
    <3>1. CatchesOK(b, h, x, c[x].catches)
      BY <2>3, <2>4, <2>7 DEF ResolvedAt
    <3>2. ClausesAt(p, i) = b[x].catches
      BY <1>1, <2>3, <2>5, <2>7 DEF ClausesAt, FrameOf, Taken
    <3>3. ASSUME NEW m \in DOMAIN lbs[i].catches
          PROVE  LET cl == lbs[i].catches[m]
                     ins == ClausesAt(p, i)[m]
                 IN  /\ cl.kind = ins.kind /\ cl.tag = ins.tag /\ cl.target.depth = ins.depth
                     /\ Arrival(p, i - 1 - ins.depth) = cl.target.pc + 1
      <4> DEFINE cl == c[x].catches[m]
                 ins == b[x].catches[m]
      <4>1. m \in DOMAIN c[x].catches
        BY <2>1
      <4>2. cl.kind = ins.kind /\ cl.tag = ins.tag /\ TargetOK(b, h, x, ins.depth, cl.target)
        BY <3>1, <4>1 DEF CatchesOK
      <4>3. ins.depth \in Nat
        <5>1. m \in DOMAIN b[x].catches
          BY <3>1, <4>1 DEF CatchesOK
        <5>2. b[x].catches \in Seq(Clauses)
          BY <1>1, <2>3, <2>7, DepthsInRange
        <5>3. ins \in Clauses
          BY <5>1, <5>2
        <5> QED BY <5>3 DEF Clauses
      <4> HIDE DEF cl, ins
      <4>4. cl.target.depth = ins.depth /\ ins.depth < i - 1 /\ Lands(b, h, x, i - 1 - ins.depth, cl.target.pc)
        BY <2>3, <4>2 DEF TargetOK
      <4>5. i - 1 - ins.depth \in 1 .. i - 1 /\ i - 1 - ins.depth \in Nat
        BY <2>2, <4>3, <4>4
      <4>6. Lands(b, h, p, i - 1 - ins.depth, cl.target.pc)
        BY <1>1, <2>1, <2>2, <4>4, <4>5, LandsLater
      <4>7. Arrival(p, i - 1 - ins.depth) = cl.target.pc + 1
        BY <1>1, <4>5, <4>6, ArrivalIs
      <4> QED BY <2>1, <3>2, <4>2, <4>4, <4>7 DEF cl, ins
    <3>4. DOMAIN lbs[i].catches = DOMAIN ClausesAt(p, i)
      BY <2>1, <3>1, <3>2 DEF CatchesOK
    <3> QED BY <3>3, <3>4
  <2> QED BY <2>6, <2>7
<1> QED BY <1>2, <1>3

\* The clauses that throwException searches are those around the instruction.
LEMMA CatchersAre ==
  ASSUME Poised, Taken(body, History), NEW tag
  PROVE  Catchers(pc, tag) = Handlers(tag)
<1>1. /\ Framed(body, History, code, pc, locals, labels) /\ Resolved(body, History, code)
      /\ DOMAIN labels = DOMAIN typing[pc].ctrl
  BY FramedFacts DEF Poised, Taken
<1>2. ASSUME NEW i \in DOMAIN labels
      PROVE  /\ DOMAIN labels[i].catches = DOMAIN ClausesAt(pc, i)
             /\ \A m \in DOMAIN labels[i].catches :
                  CatchMatches(labels[i].catches[m], tag) <=> CatchMatches(ClausesAt(pc, i)[m], tag)
  BY <1>1, ClausesAre DEF CatchMatches
<1> DEFINE U == UNION {{i} \X DOMAIN ClausesAt(pc, i) : i \in DOMAIN typing[pc].ctrl}
           V == UNION {{i} \X DOMAIN labels[i].catches : i \in DOMAIN labels}
<1>3. U = V
  BY <1>1, <1>2
<1>4. ASSUME NEW a \in V
      PROVE  CatchMatches(labels[a[1]].catches[a[2]], tag) <=> CatchMatches(ClausesAt(pc, a[1])[a[2]], tag)
  <2>1. PICK i \in DOMAIN labels : a \in {i} \X DOMAIN labels[i].catches
    OBVIOUS
  <2>2. a[1] = i /\ a[2] \in DOMAIN labels[i].catches
    BY <2>1
  <2> QED BY <1>2, <2>2
<1> HIDE DEF U, V
<1>5. Catchers(pc, tag) = {a \in U : CatchMatches(ClausesAt(pc, a[1])[a[2]], tag)}
  BY DEF Catchers, U
<1>6. Handlers(tag) = {a \in V : CatchMatches(labels[a[1]].catches[a[2]], tag)}
  BY DEF Handlers, V
<1> QED BY <1>3, <1>4, <1>5, <1>6

\* throwException takes the first clause of the innermost label, and it goes
\* where the nesting says.
LEMMA RaiseTaken ==
  ASSUME Poised, Taken(body, History), NEW tag, NEW payload, NEW s, Raise(s, tag, payload), status' # "fault"
  PROVE  TakenBy(Catchers(pc, tag))
<1> DEFINE H == Handlers(tag)
<1>1. H = Catchers(pc, tag)
  BY CatchersAre
<1>2. CASE H = {}
  <2>1. status' = "thrown"
    BY <1>2 DEF Raise, Leave
  <2> QED BY <1>1, <1>2, <2>1 DEF TakenBy
<1>3. CASE H # {}
  <2> DEFINE a == CHOOSE z \in H : \A y \in H : Before(z, y)
             cl == labels[a[1]].catches[a[2]]
  <2>1. /\ Framed(body, History, code, pc, locals, labels) /\ Resolved(body, History, code)
        /\ Len(labels) \in Nat /\ DOMAIN labels = 1 .. Len(labels) /\ status = "running"
    BY FramedFacts DEF Poised
  <2>2. ASSUME NEW z \in H
        PROVE  /\ z \in (1 .. Len(labels)) \X Nat
               /\ z[1] \in DOMAIN labels /\ z[2] \in DOMAIN labels[z[1]].catches
    <3>1. PICK lab \in DOMAIN labels : z \in {lab} \X DOMAIN labels[lab].catches
      BY DEF Handlers
    <3>2. z = <<z[1], z[2]>> /\ z[1] = lab /\ z[2] \in DOMAIN labels[lab].catches
      BY <3>1
    <3>3. z[2] \in Nat
      BY <2>1, <3>2, ClauseOf, SMTT(60)
    <3> QED BY <2>1, <3>2, <3>3
  <2>3. BranchToLabel(s \o CatchValues(cl, payload), CatchLabel(a[1], cl), cl.target.pc)
    BY <1>3 DEF Raise
  <2> HIDE DEF H
  <2>4. H \subseteq (1 .. Len(labels)) \X Nat
    BY <2>2
  <2>5. \E z \in H : \A y \in H : Before(z, y)
    BY <1>3, <2>1, <2>4, FirstOf
  <2>6. a \in H /\ \A y \in H : Before(a, y)
    BY <2>5
  <2>7. cl = labels[a[1]].catches[a[2]]
    OBVIOUS
  <2> HIDE DEF a, cl
  <2>8. a[1] \in DOMAIN labels /\ a[2] \in DOMAIN labels[a[1]].catches
    BY <2>2, <2>6
  <2>9. Arrival(pc, a[1] - 1 - ClausesAt(pc, a[1])[a[2]].depth) = cl.target.pc + 1
    BY <2>1, <2>7, <2>8, ClausesAre
  <2>10. pc' = cl.target.pc + 1 /\ status' = "running"
    BY <2>1, <2>3 DEF BranchToLabel, Fault, Goto
  <2>11. \A y \in H : y[1] < a[1] \/ (y[1] = a[1] /\ y[2] >= a[2])
    <3>1. ASSUME NEW y \in H PROVE y[1] < a[1] \/ (y[1] = a[1] /\ y[2] >= a[2])
      <4>1. /\ y[1] \in Int /\ y[2] \in Int /\ a[1] \in Int /\ a[2] \in Int
        BY <2>4, <2>6
      <4> QED BY <2>6, <4>1 DEF Before
    <3> QED BY <3>1
  <2> QED BY <1>1, <2>6, <2>9, <2>10, <2>11 DEF TakenBy
<1> HIDE DEF H
<1> QED BY <1>2, <1>3

\* Only an instruction of the body raises, never its final end.
LEMMA RaisePoised ==
  ASSUME IInv, Raises
  PROVE  Poised /\ Taken(body, History) /\ code[pc].op = body[pc].op
<1>1. status = "running" /\ code[pc].op \in {"throw", "throw_ref", "call"}
  BY DEF Raises, At
<1>2. /\ Validated /\ Whole(body, History) /\ Resolved(body, History, code)
      /\ pc \in DOMAIN body /\ DOMAIN body = 1 .. Len(body) /\ Len(body) \in Nat
      /\ pc # Len(body) => Poised
  BY <1>1, RunningFits
<1>3. code[pc].op = body[pc].op
  BY <1>2 DEF Resolved, ResolvedAt
<1>4. pc # Len(body)
  BY <1>1, <1>2, <1>3 DEF Whole
<1>5. Taken(body, History)
  BY <1>2, HistoryEnds DEF Taken
<1> QED BY <1>2, <1>3, <1>4, <1>5

LEMMA RaisesTaken ==
  ASSUME IInv, Next, Raises
  PROVE  \E tag \in IF At("throw") THEN {body[pc].tag} ELSE DOMAIN TagParams : TakenBy(Catchers(pc, tag))
<1>1. Poised /\ Taken(body, History) /\ code[pc].op = body[pc].op
  BY RaisePoised
<1>2. status = "running"
  BY <1>1 DEF Poised
<1>3. Running
  <2>1. ~Instantiate
    BY <1>2 DEF Instantiate
  <2>2. ~Validating
    BY <1>2 DEF IInv, Validating, Accept, Reject, Finish
  <2> QED BY <2>1, <2>2 DEF Next
<1>4. Step /\ status' # "fault"
  BY <1>3, RunningMoves DEF Running, Moves, Goes
<1>5. CASE At("throw")
  <2>1. code[pc] = body[pc]
    BY <1>1, <1>5, PlainCode DEF Openers, Branches, At
  <2>2. ThrowStep
    BY <1>4, <1>5 DEF Step, ConstStep, DropStep, SelectStep, EnterStep, IfStep, ElseStep, EndStep, BrStep, BrIfStep,
          BrTableStep, ReturnStep, UnreachableStep, CallStep, ReturnCallStep, ThrowRefStep, BrOnNullStep,
          BrOnNonNullStep, RefAsNonNullStep, LocalGetStep, LocalSetStep, LocalTeeStep, At
  <2>3. \E s, payload : Raise(s, code[pc].tag, payload)
    BY <1>4, <2>2 DEF ThrowStep, Fault
  <2>4. PICK s, payload : Raise(s, code[pc].tag, payload)
    BY <2>3
  <2>5. TakenBy(Catchers(pc, code[pc].tag))
    BY <1>1, <1>4, <2>4, RaiseTaken
  <2> QED BY <1>5, <2>1, <2>5
<1>6. CASE ~At("throw")
  <2>1. (At("call") /\ status' # "trap" /\ pc' # pc + 1) \/ (At("throw_ref") /\ status' # "trap")
    BY <1>6 DEF Raises
  <2>2. CallStep \/ ThrowRefStep
    BY <1>4, <2>1 DEF Step, ConstStep, DropStep, SelectStep, EnterStep, IfStep, ElseStep, EndStep, BrStep, BrIfStep,
          BrTableStep, ReturnStep, UnreachableStep, ThrowStep, ReturnCallStep, BrOnNullStep,
          BrOnNonNullStep, RefAsNonNullStep, LocalGetStep, LocalSetStep, LocalTeeStep, At
  <2>3. \E s : RaiseAny(s)
    <3>1. CASE CallStep
      BY <1>4, <2>1, <3>1 DEF CallStep, At, Fault, Leave, Advance, Goto
    <3>2. CASE ThrowRefStep
      BY <1>4, <2>1, <3>2 DEF ThrowRefStep, At, Fault, Leave
    <3> QED BY <2>2, <3>1, <3>2
  <2>4. PICK s : RaiseAny(s)
    BY <2>3
  <2>5. PICK tag \in DOMAIN TagParams : \E payload \in Tuples(TagParams[tag]) : Raise(s, tag, payload)
    BY <2>4 DEF RaiseAny
  <2>6. TakenBy(Catchers(pc, tag))
    BY <1>1, <1>4, <2>5, RaiseTaken
  <2> QED BY <1>6, <2>6
<1> QED BY <1>5, <1>6

\* An exception is taken by the first clause that matches of the innermost
\* try_table around the instruction, and continues where that clause says; none
\* leaves the frame that a clause around it would take.
THEOREM HandlersInOrder == Spec /\ []ElseHonest => HandledFirst
<1>1. IInv /\ [Next]_vars =>
        [Raises => \E tag \in IF At("throw") THEN {body[pc].tag} ELSE DOMAIN TagParams :
                     TakenBy(Catchers(pc, tag))]_vars
  BY RaisesTaken
<1> QED BY <1>1, Soundness, PTL DEF Spec, HandledFirst

-----------------------------------------------------------------------------

\* Where an if that may have an else has no parameters, all of this holds with
\* no condition on the body.
THEOREM AlwaysSafe ==
  ASSUME Promise
  PROVE  Spec => /\ [](ElseHonest /\ NoFault /\ AcceptedCompiles /\ DeadCodeNeverRuns /\ StackAgrees
                       /\ NothingLeftBehind)
                 /\ ImplementsStructured /\ HandledFirst
<1>2. Init => IInv
  BY IInvStarts
<1>3. IInv /\ [Next]_vars => IInv'
  BY IInvKept DEF Promise, Harmless
<1>4. IInv => ElseHonest
  <2> SUFFICES ASSUME IInv, ~GoesOn, NEW p \in DOMAIN body, body[p].op = "else" PROVE Honest(typing[p])
    BY DEF ElseHonest
  <2>1. Validated
    BY DEF IInv, Checked
  <2>2. Honest(History[p])
    BY <2>1 DEF Validated, Typed
  <2>3. typing[p] = History[p]
    BY <2>1 DEF Validated, Typed, History
  <2> QED BY <2>2, <2>3
<1>5. Spec => []ElseHonest
  BY <1>2, <1>3, <1>4, PTL DEF Spec
<1> QED BY <1>5, NeverFaults, AlwaysCompiles, DeadCodeStaysDead, StackAlwaysAgrees, NothingIsLeft, Refinement,
          HandlersInOrder, PTL
==============================================================================
