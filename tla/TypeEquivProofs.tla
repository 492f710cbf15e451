--------------------------- MODULE TypeEquivProofs ---------------------------
(* Theorems of TypeEquiv, for every value of its constants. *)
EXTENDS TypeEquiv, SequenceTheorems, TLAPS

-----------------------------------------------------------------------------
(* Sequences *)

\* What SubSeq leaves of the beginning of a sequence.
LEMMA PrefixOf ==
  ASSUME NEW S, NEW s \in Seq(S), NEW m \in 0 .. Len(s)
  PROVE  /\ SubSeq(s, 1, m) \in Seq(S) /\ Len(SubSeq(s, 1, m)) = m
         /\ \A k \in 1 .. m : SubSeq(s, 1, m)[k] = s[k]
<1> DEFINE c == SubSeq(s, 1, m)
<1>1. m \in Nat /\ \A k \in 1 .. m : s[k] \in S
  OBVIOUS
<1>2. /\ c \in Seq(S) /\ Len(c) = IF 1 <= m THEN m - 1 + 1 ELSE 0
      /\ \A k \in 1 .. m - 1 + 1 : c[k] = s[1 + k - 1]
  BY <1>1, SubSeqProperties
<1> HIDE DEF c
<1>3. Len(c) = m /\ \A k \in 1 .. m : c[k] = s[k]
  BY <1>1, <1>2
<1> QED BY <1>2, <1>3 DEF c

\* Front and Last take a sequence apart.
LEMMA FrontOf ==
  ASSUME NEW S, NEW s \in Seq(S), s # << >>
  PROVE  /\ Front(s) \in Seq(S) /\ Len(Front(s)) = Len(s) - 1 /\ Last(s) \in S
         /\ \A k \in 1 .. Len(s) - 1 : Front(s)[k] = s[k]
         /\ Last(s) = s[Len(s)] /\ Len(s) \in DOMAIN s
<1>1. Len(s) - 1 \in 0 .. Len(s) /\ Len(s) \in DOMAIN s /\ s[Len(s)] \in S
  OBVIOUS
<1> QED BY <1>1, PrefixOf DEF Front, Last

\* What is in the rest of a sequence, and what is not.
LEMMA RangeOfTail ==
  ASSUME NEW S, NEW s \in Seq(S), s # << >>
  PROVE  /\ Tail(s) \in Seq(S) /\ Head(s) \in S /\ Head(s) \in Range(s)
         /\ Range(Tail(s)) \subseteq Range(s)
         /\ \A g \in Range(s) : g = Head(s) \/ g \in Range(Tail(s))
<1>1. Tail(s) \in Seq(S) /\ Head(s) \in S /\ Head(s) = s[1] /\ Len(Tail(s)) = Len(s) - 1
  OBVIOUS
<1>2. Len(s) \in Nat /\ Len(s) >= 1 /\ DOMAIN s = 1 .. Len(s) /\ DOMAIN Tail(s) = 1 .. Len(s) - 1
  BY <1>1
<1>3. \A k \in 1 .. Len(s) - 1 : Tail(s)[k] = s[k + 1]
  OBVIOUS
<1>4. ASSUME NEW k \in 1 .. Len(s), k # 1
      PROVE  k - 1 \in DOMAIN Tail(s) /\ s[k] = Tail(s)[k - 1]
  BY <1>2, <1>3, <1>4
<1>5. Range(Tail(s)) \subseteq Range(s) /\ Head(s) \in Range(s)
  <2>1. ASSUME NEW k \in DOMAIN Tail(s) PROVE k + 1 \in DOMAIN s
    BY <1>2, <2>1
  <2> QED BY <1>1, <1>2, <1>3, <2>1 DEF Range
<1>6. \A g \in Range(s) : g = Head(s) \/ g \in Range(Tail(s))
  <2>1. ASSUME NEW k \in DOMAIN s
        PROVE  s[k] = Head(s) \/ \E l \in DOMAIN Tail(s) : s[k] = Tail(s)[l]
    BY <1>1, <1>2, <1>4
  <2> QED BY <2>1 DEF Range
<1> QED BY <1>1, <1>5, <1>6
-----------------------------------------------------------------------------
(* Recursion groups *)

\* The entries of a section are type definitions with natural indices.
LEMMA SectionType ==
  ASSUME NEW m, IsSection(m)
  PROVE  /\ DOMAIN m \subseteq Nat /\ DOMAIN m \subseteq Indices
         /\ \A i \in DOMAIN m : /\ m[i].supers \in Seq(Indices) /\ m[i].refs \in Seq(Indices)
                                /\ m[i].group \in Nat
BY PairsAssumption DEF IsSection, TypeDefs

\* Groups do not overlap, and end within the section.
LEMMA OneCover ==
  ASSUME NEW m, IsSection(m), NEW i \in Nat, NEW s \in DOMAIN m, Covers(m, s, i)
  PROVE  i \in DOMAIN m /\ \A t \in DOMAIN m : Covers(m, t, i) => t = s
<1>1. s \in Nat /\ m[s].group \in Nat /\ \A t \in DOMAIN m : t \in Nat /\ m[t].group \in Nat
  BY SectionType
<1>2. \A t \in DOMAIN m : \A j \in (t + 1) .. (t + m[t].group - 1) : j \in DOMAIN m /\ m[j].group = 0
  BY DEF IsSection
<1>3. i \in DOMAIN m
  <2>1. i = s \/ i \in (s + 1) .. (s + m[s].group - 1)
    BY <1>1 DEF Covers
  <2> QED BY <1>2, <2>1
<1>4. ASSUME NEW t \in DOMAIN m, Covers(m, t, i), t < s PROVE FALSE
  <2>1. s \in (t + 1) .. (t + m[t].group - 1)
    BY <1>1, <1>4 DEF Covers
  <2>2. m[s].group = 0
    BY <1>2, <2>1
  <2> QED BY <1>1, <2>2 DEF Covers
<1>5. ASSUME NEW t \in DOMAIN m, Covers(m, t, i), s < t PROVE FALSE
  <2>1. t \in (s + 1) .. (s + m[s].group - 1)
    BY <1>1, <1>5 DEF Covers
  <2>2. m[t].group = 0
    BY <1>2, <2>1
  <2> QED BY <1>1, <1>5, <2>2 DEF Covers
<1> QED BY <1>1, <1>3, <1>4, <1>5

\* The group that covers a type is its group.
LEMMA CoverIsGroup ==
  ASSUME NEW m, IsSection(m), NEW i \in Nat, NEW s \in DOMAIN m, Covers(m, s, i)
  PROVE  RecGroupInfo(m, i) = [start |-> s, size |-> m[s].group, pos |-> i - s]
<1> DEFINE C(t) == Covers(m, t, i) /\ \A u \in DOMAIN m : Covers(m, u, i) => u <= t
<1>1. i \in DOMAIN m /\ \A t \in DOMAIN m : Covers(m, t, i) => t = s
  BY OneCover
<1>2. s \in Nat
  BY SectionType
<1>3. C(s)
  BY <1>1, <1>2
<1>4. \A t \in DOMAIN m : C(t) => t = s
  BY <1>1
<1>5. (CHOOSE t \in DOMAIN m : C(t)) = s
  BY <1>3, <1>4
<1> QED BY <1>1, <1>5 DEF RecGroupInfo

\* The shape of a group: a type outside of any is alone; otherwise
\* all members share it.
LEMMA GroupShape ==
  ASSUME NEW m, IsSection(m), NEW i \in Nat
  PROVE  LET g == RecGroupInfo(m, i) IN
         /\ g \in [start : Nat, size : Nat, pos : Nat]
         /\ g.size >= 1 /\ g.pos < g.size /\ i = g.start + g.pos
         /\ g.size > 1 => i \in DOMAIN m
         /\ \A j \in Nat : g.start <= j /\ j < g.start + g.size /\ g.size > 1 =>
              /\ j \in DOMAIN m
              /\ RecGroupInfo(m, j) = [start |-> g.start, size |-> g.size, pos |-> j - g.start]
<1>1. CASE i \in DOMAIN m /\ \E s \in DOMAIN m : Covers(m, s, i)
  <2> PICK s \in DOMAIN m : Covers(m, s, i)
    BY <1>1
  <2>1. RecGroupInfo(m, i) = [start |-> s, size |-> m[s].group, pos |-> i - s]
    BY CoverIsGroup
  <2>2. s \in Nat /\ m[s].group \in Nat
    BY SectionType
  <2>3. ASSUME NEW j \in Nat, s <= j, j < s + m[s].group
        PROVE  /\ j \in DOMAIN m
               /\ RecGroupInfo(m, j) = [start |-> s, size |-> m[s].group, pos |-> j - s]
    <3>1. Covers(m, s, j)
      BY <2>3 DEF Covers
    <3> QED BY <3>1, OneCover, CoverIsGroup
  <2>4. i - s \in Nat /\ m[s].group >= 1 /\ i - s < m[s].group /\ i = s + (i - s)
    BY <2>2 DEF Covers
  <2> QED BY <1>1, <2>1, <2>2, <2>3, <2>4
<1>2. CASE ~(i \in DOMAIN m /\ \E s \in DOMAIN m : Covers(m, s, i))
  <2>1. RecGroupInfo(m, i) = [start |-> i, size |-> 1, pos |-> 0]
    BY <1>2 DEF RecGroupInfo
  <2> QED BY <2>1
<1> QED BY <1>1, <1>2
-----------------------------------------------------------------------------
(* The question does not change, nor does what depends on it alone *)

\* What is asked about satisfies the assumption on pairs of modules.
LEMMA AskedType ==
  ASSUME TypeOK
  PROVE  /\ IsSection(A) /\ IsSection(B) /\ ShapesFixLength(A, B)
         /\ same \in BOOLEAN /\ (same => A = B)
         /\ asked.sub \in Indices /\ asked.super \in Indices
<1>1. asked.pair \in ModulePairs /\ asked.sub \in Indices /\ asked.super \in Indices
  BY DEF TypeOK, Questions
<1> QED BY <1>1, PairsAssumption DEF A, B, same

\* The two halves of the invariant in the next state, in terms of this one.
LEMMA Constancy ==
  ASSUME asked' = asked
  PROVE  /\ A' = A /\ B' = B /\ same' = same
         /\ Sound' <=> (~Failing' => SoundIn(Held', phase', at', frames', pair'))
         /\ Complete' <=>
              \A R \in SUBSET ((DOMAIN A) \X (DOMAIN B)) :
                Correspondence(R) /\ Related(R, pair'[1], pair'[2]) =>
                  ~Failing' /\ refuted' = {} /\ CompleteIn(R, phase', at', frames')
<1>1. A' = A /\ B' = B /\ same' = same
  BY DEF A, B, same
<1>2. Sound' <=> (~Failing' => SoundIn(Held', phase', at', frames', pair'))
  BY <1>1 DEF Sound, SoundIn, Met, MemberMet, IndicesMet, SameSpot, GroupKey, Key, SamePlace, InA, InB,
              Pending, Serves, Left, KeyFits, GoalFits, GroupPair, Alike, Duties, Members, RefGoals, Refs, Goal
<1>3. Complete' <=>
        \A R \in SUBSET ((DOMAIN A) \X (DOMAIN B)) :
          Correspondence(R) /\ Related(R, pair'[1], pair'[2]) =>
            ~Failing' /\ refuted' = {} /\ CompleteIn(R, phase', at', frames')
  BY <1>1 DEF Complete, CompleteIn, Correspondence, Corresponds, Alike, Refs, SamePlace, InA, InB,
              KeepTo, Inside, Related, Holds
<1> QED BY <1>1, <1>2, <1>3

-----------------------------------------------------------------------------
(* Types *)

\* What a type refers to.
LEMMA RefsType ==
  ASSUME NEW m, IsSection(m), NEW i \in DOMAIN m
  PROVE  /\ Refs(m, i) \in Seq(Indices)
         /\ Len(Refs(m, i)) = Len(m[i].supers) + Len(m[i].refs)
<1>1. m[i].supers \in Seq(Indices) /\ m[i].refs \in Seq(Indices)
  BY SectionType
<1> QED BY <1>1, ConcatProperties DEF Refs

\* Alike types refer to equally many.
LEMMA AlikeRefs ==
  ASSUME TypeOK, NEW a \in DOMAIN A, NEW b \in DOMAIN B, Alike(a, b)
  PROVE  /\ Refs(A, a) \in Seq(Indices) /\ Refs(B, b) \in Seq(Indices)
         /\ Len(Refs(A, a)) = Len(Refs(B, b))
BY AskedType, RefsType DEF Alike, ShapesFixLength

\* Pairs of groups, and the lists of goals made of them, have their types.
LEMMA GroupPairType ==
  ASSUME TypeOK, NEW a \in Nat, NEW b \in Nat
  PROVE  GroupPair(a, b) \in GroupPairs
<1>1. /\ RecGroupInfo(A, a) \in [start : Nat, size : Nat, pos : Nat]
      /\ RecGroupInfo(B, b) \in [start : Nat, size : Nat, pos : Nat]
  BY AskedType, GroupShape
<1> QED BY <1>1 DEF GroupPair, GroupPairs, NoGroup

\* The references of alike types, as goals.
LEMMA RefGoalsType ==
  ASSUME TypeOK, NEW a \in DOMAIN A, NEW b \in DOMAIN B, Alike(a, b), NEW g \in GroupPairs
  PROVE  RefGoals(a, b, g) \in Seq(Goals)
<1> DEFINE n == Len(Refs(A, a))
<1>1. n \in Nat /\ \A i \in 1 .. n : Refs(A, a)[i] \in Indices /\ Refs(B, b)[i] \in Indices
  BY AlikeRefs
<1>2. \A i \in 1 .. n : Goal("ref", Refs(A, a)[i], Refs(B, b)[i], g) \in Goals
  BY <1>1, PairsAssumption DEF Goal, Goals
<1> QED BY <1>1, <1>2 DEF RefGoals

\* The members of a pair of groups, as goals.
LEMMA MembersType ==
  ASSUME NEW g \in GroupPairs
  PROVE  Members(g) \in Seq(Goals)
<1>1. g.a \in Nat /\ g.b \in Nat /\ g.size \in Nat
  BY DEF GroupPairs
<1>2. \A i \in 1 .. g.size : Goal("member", g.a + i - 1, g.b + i - 1, g) \in Goals
  BY <1>1 DEF Goal, Goals
<1> QED BY <1>1, <1>2 DEF Members

\* A call of Types begins with variables of the right types.
LEMMA FreshType ==
  ASSUME NEW a \in Indices, NEW b \in Indices
  PROVE  /\ <<a, b>> \in Indices \X Indices /\ Goal("indices", a, b, NoGroup) \in Goals
         /\ << >> \in Seq([key : Keys, todo : Seq(Goals)])
BY PairsAssumption DEF Goal, Goals, NoGroup, GroupPairs

\* TypeOK holds when a question is asked.
LEMMA InitType == Init => TypeOK
<1> SUFFICES ASSUME Init PROVE TypeOK
  OBVIOUS
<1>1. asked \in Questions /\ asked.sub \in Indices /\ asked.super \in Indices
  BY DEF Init, Questions
<1>2. << >> \in Seq(Indices)
  OBVIOUS
<1> QED BY <1>1, <1>2, FreshType DEF Init, TypeOK

\* TypeOK survives every step of a comparison.
LEMMA CheckType ==
  ASSUME TypeOK, Check
  PROVE  TypeOK'
<1> USE DEF TypeOK
<1>1. asked' = asked /\ UNCHANGED walkVars /\ at \in Goals /\ at.a \in Nat /\ at.b \in Nat /\ at.group \in GroupPairs
  BY DEF Check, Goals
<1>2. ASSUME NEW v \in BOOLEAN, Return(v) PROVE TypeOK'
  BY <1>1, <1>2 DEF Return, walkVars
<1>3. ASSUME NEW k \in Keys, NEW t \in Seq(Goals), Enter(k, t) PROVE TypeOK'
  <2>1. [key |-> k, todo |-> t] \in [key : Keys, todo : Seq(Goals)]
    OBVIOUS
  <2>2. frames' \in Seq([key : Keys, todo : Seq(Goals)])
    BY <1>3, <2>1 DEF Enter
  <2> QED BY <1>1, <1>3, <2>2 DEF Enter, walkVars
<1>4. ASSUME NEW k, Recall(k) \/ Suppose(k) PROVE TypeOK'
  <2>1. Return(TRUE) \/ Return(FALSE)
    BY <1>4 DEF Recall, Suppose, Return
  <2> QED BY <1>2, <2>1
<1>5. CASE CompareRef
  <2>1. CASE Return(FALSE)
    BY <1>2, <2>1
  <2>2. CASE /\ at' = IF InA(at.group, at.a) THEN [at EXCEPT !.how = "member"]
                      ELSE Goal("indices", at.a, at.b, NoGroup)
             /\ UNCHANGED <<pair, frames, known, refuted, phase, answer>>
    <3>1. at' \in Goals
      BY <1>1, <2>2 DEF Goals, Goal, NoGroup, GroupPairs
    <3> QED BY <1>1, <2>2, <3>1 DEF walkVars
  <2> QED BY <1>5, <2>1, <2>2 DEF CompareRef
<1>6. CASE CompareIndices
  <2> DEFINE k == Key("group", RecGroupInfo(A, at.a).start, RecGroupInfo(B, at.b).start)
  <2>1. CASE Return(FALSE)
    BY <1>2, <2>1
  <2>2. CASE Recall(k) \/ Suppose(k)
    BY <1>4, <2>2
  <2>3. CASE Enter(k, Members(GroupPair(at.a, at.b)))
    <3>1. k \in Keys
      BY <1>1, AskedType, GroupShape DEF Key, Keys
    <3> QED BY <1>1, <1>3, <2>3, <3>1, GroupPairType, MembersType
  <2>4. CASE /\ at' = Goal("member", at.a, at.b, NoGroup)
             /\ UNCHANGED <<pair, frames, known, refuted, phase, answer>>
    <3>1. at' \in Goals
      BY <1>1, <2>4 DEF Goals, Goal, NoGroup, GroupPairs
    <3> QED BY <1>1, <2>4, <3>1 DEF walkVars
  <2> QED BY <1>6, <2>1, <2>2, <2>3, <2>4 DEF CompareIndices
<1>7. CASE CompareMember
  <2> DEFINE k == Key("type", at.a, at.b)
  <2>1. CASE Return(FALSE) \/ Return(TRUE)
    BY <1>2, <2>1
  <2>2. CASE Recall(k) \/ Suppose(k)
    BY <1>4, <2>2
  <2>3. k \in Keys
    BY <1>1 DEF Key, Keys
  <2>4. CASE at.a \in DOMAIN A /\ at.b \in DOMAIN B /\ Alike(at.a, at.b) /\ Enter(k, RefGoals(at.a, at.b, at.group))
    BY <1>1, <1>3, <2>3, <2>4, RefGoalsType
  <2>5. CASE /\ refuted' = refuted \cup {k} /\ phase' = "return" /\ answer' = FALSE
             /\ UNCHANGED <<pair, at, frames, known>>
    BY <1>1, <2>3, <2>5 DEF walkVars
  <2> QED BY <1>7, <2>1, <2>2, <2>4, <2>5 DEF CompareMember
<1>8. CASE Resume
  <2> DEFINE F == [key : Keys, todo : Seq(Goals)]
  <2>1. frames # << >> /\ Last(frames) \in F /\ Front(frames) \in Seq(F)
    BY <1>8, FrontOf DEF Resume
  <2>2. CASE /\ Last(frames).todo # << >>
             /\ at' = Head(Last(frames).todo)
             /\ frames' = Append(Front(frames), [Last(frames) EXCEPT !.todo = Tail(Last(frames).todo)])
             /\ phase' = "compare" /\ UNCHANGED <<pair, known, refuted, answer>>
    <3>1. Head(Last(frames).todo) \in Goals /\ Tail(Last(frames).todo) \in Seq(Goals)
      BY <2>1, <2>2, RangeOfTail
    <3>2. [Last(frames) EXCEPT !.todo = Tail(Last(frames).todo)] \in F
      BY <2>1, <3>1
    <3>3. frames' \in Seq(F)
      BY <2>1, <2>2, <3>2
    <3> QED BY <1>1, <2>2, <3>1, <3>3 DEF walkVars
  <2>3. CASE /\ frames' = Front(frames)
             /\ known' \in {known, known \cup {Last(frames).key}}
             /\ refuted' \in {refuted, refuted \cup {Last(frames).key}}
             /\ UNCHANGED <<pair, at, phase, answer>>
    BY <1>1, <2>1, <2>3 DEF walkVars
  <2> QED BY <1>8, <2>2, <2>3 DEF Resume
<1> QED BY <1>5, <1>6, <1>7, <1>8 DEF Check

\* TypeOK survives every step of the walk.
LEMMA WalkType ==
  ASSUME TypeOK, Walk
  PROVE  TypeOK'
<1> USE DEF TypeOK
<1>1. CASE Found \/ NotItself \/ Exhausted
  <2>1. <<asked.sub>> \in Seq(Indices)
    BY AskedType
  <2>2. UNCHANGED <<asked, checkerVars, seen, supers>> /\ stack' \in {stack, <<asked.sub>>}
    BY <1>1 DEF Found, NotItself, Exhausted
  <2>3. stage' \in {"yes", "no", "walk"}
    BY <1>1 DEF Found, NotItself, Exhausted
  <2> QED BY <2>1, <2>2, <2>3 DEF checkerVars
<1>2. CASE Visit
  <2>1. Front(stack) \in Seq(Indices) /\ Last(stack) \in Indices
    BY <1>2, FrontOf DEF Visit
  <2>2. Last(stack) \in DOMAIN A => A[Last(stack)].supers \in Seq(Indices)
    BY AskedType, SectionType
  <2> QED BY <1>2, <2>1, <2>2 DEF Visit, checkerVars
<1>3. CASE TrySuper
  <2>1. Head(supers) \in Indices /\ Tail(supers) \in Seq(Indices) /\ asked.super \in Indices
    BY <1>3, AskedType, RangeOfTail DEF TrySuper
  <2>2. pair' \in Indices \X Indices /\ at' \in Goals /\ frames' \in Seq([key : Keys, todo : Seq(Goals)])
    BY <1>3, <2>1, FreshType DEF TrySuper, Types
  <2> QED BY <1>3, <2>1, <2>2 DEF TrySuper, Types
<1>4. CASE NotThisSuper
  <2>1. pair[1] \in Indices
    OBVIOUS
  <2> QED BY <1>4, <2>1 DEF NotThisSuper, checkerVars
<1> QED BY <1>1, <1>2, <1>3, <1>4 DEF Walk

\* TypeOK survives a step that changes nothing.
LEMMA StutterType == TypeOK /\ UNCHANGED vars => TypeOK'
BY DEF TypeOK, vars, checkerVars, walkVars

\* TypeOK is an invariant.
THEOREM TypeCorrect == Spec => []TypeOK
<1>1. TypeOK /\ [Next]_vars => TypeOK'
  BY CheckType, WalkType, StutterType DEF Next
<1> QED BY <1>1, InitType, PTL DEF Spec
-----------------------------------------------------------------------------
(* Groups of two modules side by side *)

\* Members at one position of two groups of one size.
LEMMA GroupMembers ==
  ASSUME TypeOK, NEW a \in Nat, NEW b \in Nat, SameSpot(a, b), RecGroupInfo(A, a).size > 1,
         NEW i \in Nat, i < GroupPair(a, b).size
  PROVE  LET g == GroupPair(a, b) IN
         /\ g.a + i \in DOMAIN A /\ g.b + i \in DOMAIN B
         /\ SameSpot(g.a + i, g.b + i) /\ GroupPair(g.a + i, g.b + i) = g
         /\ RecGroupInfo(A, g.a + i).size > 1
         /\ GroupKey(g.a + i, g.b + i) = GroupKey(a, b) /\ GroupKey(a, b) = Key("group", g.a, g.b)
<1> DEFINE ga == RecGroupInfo(A, a)
           gb == RecGroupInfo(B, b)
           g == GroupPair(a, b)
<1>1. g = [a |-> ga.start, b |-> gb.start, size |-> ga.size] /\ ga.size = gb.size
  BY DEF GroupPair, SameSpot
<1>2. ga.start \in Nat /\ gb.start \in Nat /\ ga.size \in Nat
  BY AskedType, GroupShape
<1>3. /\ ga.start + i \in DOMAIN A
      /\ RecGroupInfo(A, ga.start + i) = [start |-> ga.start, size |-> ga.size, pos |-> i]
  BY <1>1, <1>2, AskedType, GroupShape
<1>4. /\ gb.start + i \in DOMAIN B
      /\ RecGroupInfo(B, gb.start + i) = [start |-> gb.start, size |-> gb.size, pos |-> i]
  BY <1>1, <1>2, AskedType, GroupShape
<1>5. g.a + i = ga.start + i /\ g.b + i = gb.start + i
  BY <1>1
<1>6. SameSpot(g.a + i, g.b + i) /\ RecGroupInfo(A, g.a + i).size > 1
  BY <1>1, <1>3, <1>4, <1>5 DEF SameSpot
<1>7. GroupPair(g.a + i, g.b + i) = g
  BY <1>1, <1>3, <1>4, <1>5 DEF GroupPair
<1>8. GroupKey(g.a + i, g.b + i) = GroupKey(a, b) /\ GroupKey(a, b) = Key("group", g.a, g.b)
  BY <1>1, <1>3, <1>4, <1>5 DEF GroupKey
<1> QED BY <1>3, <1>4, <1>5, <1>6, <1>7, <1>8

\* A pair of types is a member of its own pair of groups.
LEMMA OwnGroup ==
  ASSUME TypeOK, NEW a \in Nat, NEW b \in Nat, SameSpot(a, b), RecGroupInfo(A, a).size > 1
  PROVE  LET g == GroupPair(a, b)
             i == RecGroupInfo(A, a).pos
         IN  /\ i \in Nat /\ i < g.size /\ a = g.a + i /\ b = g.b + i
             /\ g = [a |-> RecGroupInfo(A, a).start, b |-> RecGroupInfo(B, b).start, size |-> RecGroupInfo(A, a).size]
             /\ g # NoGroup
<1>1. GroupPair(a, b) = [a |-> RecGroupInfo(A, a).start, b |-> RecGroupInfo(B, b).start, size |-> RecGroupInfo(A, a).size]
  BY DEF GroupPair
<1>2. /\ RecGroupInfo(A, a) \in [start : Nat, size : Nat, pos : Nat]
      /\ RecGroupInfo(A, a).pos < RecGroupInfo(A, a).size
      /\ a = RecGroupInfo(A, a).start + RecGroupInfo(A, a).pos
      /\ b = RecGroupInfo(B, b).start + RecGroupInfo(B, b).pos
  BY AskedType, GroupShape
<1>3. GroupPair(a, b) # NoGroup
  BY <1>1 DEF NoGroup
<1> QED BY <1>1, <1>2, <1>3 DEF SameSpot

\* References that keep to their groups lead to the same place.
LEMMA KeepPlace ==
  ASSUME TypeOK, NEW a \in Nat, NEW b \in Nat, SameSpot(a, b), NEW x \in Nat, NEW y \in Nat
  PROVE  (RecGroupInfo(A, a).size > 1 => KeepTo(RecGroupInfo(A, a), RecGroupInfo(B, b), x, y))
           <=> SamePlace(GroupPair(a, b), x, y)
<1> DEFINE ga == RecGroupInfo(A, a)
           gb == RecGroupInfo(B, b)
<1>1. /\ ga.start \in Nat /\ gb.start \in Nat /\ ga.size \in Nat /\ gb.size = ga.size
  BY AskedType, GroupShape DEF SameSpot
<1>2. CASE ga.size > 1
  <2>1. GroupPair(a, b) = [a |-> ga.start, b |-> gb.start, size |-> ga.size]
    BY <1>2 DEF GroupPair
  <2> HIDE DEF ga, gb
  <2>2. /\ Inside(ga, x) <=> InA(GroupPair(a, b), x)
        /\ Inside(gb, y) <=> InB(GroupPair(a, b), y)
    BY <1>1, <2>1 DEF Inside, InA, InB
  <2>3. KeepTo(ga, gb, x, y) <=> SamePlace(GroupPair(a, b), x, y)
    BY <1>2, <2>1, <2>2 DEF KeepTo, SamePlace
  <2> QED BY <1>2, <2>3 DEF ga, gb
<1>3. CASE ~(ga.size > 1)
  <2>1. GroupPair(a, b) = NoGroup
    BY <1>3 DEF GroupPair
  <2>2. ~InA(NoGroup, x) /\ ~InB(NoGroup, y)
    BY DEF InA, InB, NoGroup
  <2> QED BY <1>3, <2>1, <2>2 DEF SamePlace
<1> QED BY <1>2, <1>3
-----------------------------------------------------------------------------
(* The yes answers are sound: how the parts of Sound change *)

\* A goal met stays met when more is held.
LEMMA MetGrows ==
  ASSUME NEW K, NEW L, K \subseteq L, NEW g \in Goals, Met(K, g)
  PROVE  Met(L, g)
BY DEF Met, MemberMet, IndicesMet, Goals

\* A goal is met when what it comes down to is.
LEMMA MetServed ==
  ASSUME NEW K, NEW h \in Goals, NEW g \in Goals, Serves(h, g), Met(K, h)
  PROVE  Met(K, g)
<1>1. CASE h = g
  BY <1>1
<1>2. CASE g.how = "ref"
  BY <1>2 DEF Met, Serves, IndicesMet, Goals
<1>3. CASE g.how = "indices"
  BY <1>3 DEF Met, Serves, IndicesMet, Goals
<1>4. CASE g.how = "member"
  BY <1>1, <1>4 DEF Serves
<1> QED BY <1>2, <1>3, <1>4 DEF Goals

\* Duties are goals.
LEMMA DutiesType ==
  ASSUME TypeOK, NEW K, NEW k \in Keys, KeyFits(K, k)
  PROVE  Duties(k) \subseteq Goals
<1>1. k[2] \in DOMAIN A /\ k[3] \in DOMAIN B /\ k[2] \in Nat /\ k[3] \in Nat /\ k[1] \in {"group", "type"}
  BY DEF KeyFits, Keys
<1>2. GroupPair(k[2], k[3]) \in GroupPairs
  BY <1>1, GroupPairType
<1>3. CASE k[1] = "group"
  <2>1. Members(GroupPair(k[2], k[3])) \in Seq(Goals)
    BY <1>2, MembersType
  <2> QED BY <1>3, <2>1 DEF Duties, Range
<1>4. CASE k[1] = "type"
  <2>1. RefGoals(k[2], k[3], GroupPair(k[2], k[3])) \in Seq(Goals)
    BY <1>1, <1>2, <1>4, RefGoalsType DEF KeyFits
  <2> QED BY <1>4, <2>1 DEF Duties, Range
<1> QED BY <1>1, <1>3, <1>4

Frames == [key : Keys, todo : Seq(Goals)]

\* The comparison at hand is answered with yes.
LEMMA SoundYes ==
  ASSUME TypeOK, NEW K \in SUBSET Keys, NEW h \in Goals, NEW f \in Seq(Frames), NEW p \in Indices \X Indices,
         SoundIn(K, "compare", h, f, p), Met(K, h)
  PROVE  SoundIn(K, "return", h, f, p)
<1>1. ASSUME NEW k \in K PROVE Duties(k) \subseteq Goals
  BY <1>1, DutiesType DEF SoundIn
<1>2. ASSUME NEW g \in Goals, Met(K, g) \/ Pending("compare", h, g) PROVE Met(K, g)
  BY <1>2, MetServed DEF Pending
<1>3. Goal("indices", p[1], p[2], NoGroup) \in Goals
  BY FreshType
<1> QED BY <1>1, <1>2, <1>3 DEF SoundIn

\* The comparison at hand comes down to another.
LEMMA SoundMove ==
  ASSUME NEW K, NEW h, NEW h2, NEW f, NEW p,
         SoundIn(K, "compare", h, f, p), GoalFits(K, h2),
         \A g : Serves(h, g) => Serves(h2, g)
  PROVE  SoundIn(K, "compare", h2, f, p)
BY DEF SoundIn, Pending

\* A comparison is entered.
LEMMA SoundEnter ==
  ASSUME TypeOK, NEW K \in SUBSET Keys, NEW h \in Goals, NEW f \in Seq(Frames), NEW p \in Indices \X Indices,
         SoundIn(K, "compare", h, f, p),
         NEW k \in Keys, NEW t \in Seq(Goals), Duties(k) = Range(t),
         KeyFits(K \cup {k}, k), Met(K \cup {k}, h),
         \A g \in Range(t) : GoalFits(K \cup {k}, g)
  PROVE  SoundIn(K \cup {k}, "return", h, Append(f, [key |-> k, todo |-> t]), p)
<1> DEFINE L == K \cup {k}
           x == [key |-> k, todo |-> t]
           e == Append(f, x)
<1>1. /\ x \in Frames /\ Len(f) \in Nat /\ DOMAIN f = 1 .. Len(f) /\ DOMAIN e = 1 .. Len(f) + 1
      /\ \A i \in DOMAIN f : i \in DOMAIN e /\ e[i] = f[i]
      /\ e[Len(f) + 1] = x /\ Len(f) + 1 \in DOMAIN e
      /\ \A i \in DOMAIN e : i \in DOMAIN f \/ i = Len(f) + 1
  BY DEF Frames
<1> HIDE DEF e
<1>2. ASSUME NEW g \in Goals, Met(K, g) \/ Pending("compare", h, g) PROVE Met(L, g)
  BY <1>2, MetServed, MetGrows DEF Pending
<1>3. ASSUME NEW l \in K, NEW g \in Duties(l) PROVE Met(L, g) \/ Left(e, l, g)
  <2>1. g \in Goals
    BY DutiesType DEF SoundIn
  <2>2. Left(f, l, g) => Left(e, l, g)
    BY <1>1 DEF Left
  <2> QED BY <1>2, <2>1, <2>2 DEF SoundIn
<1>4. ASSUME NEW g \in Duties(k) PROVE Left(e, k, g)
  BY <1>1 DEF Left
<1>5. ASSUME NEW l \in K PROVE KeyFits(L, l)
  BY DEF SoundIn, KeyFits
<1>6. ASSUME NEW i \in DOMAIN e, NEW g \in Range(e[i].todo) PROVE GoalFits(L, g)
  <2>1. CASE i \in DOMAIN f
    <3>1. GoalFits(K, g)
      BY <1>1, <2>1 DEF SoundIn
    <3> QED BY <3>1 DEF GoalFits
  <2>2. CASE i = Len(f) + 1
    <3>1. e[i].todo = t
      BY <1>1, <2>2
    <3>2. g \in Range(t)
      BY <3>1
    <3> QED BY <3>2
  <2> QED BY <1>1, <2>1, <2>2
<1>7. Met(L, Goal("indices", p[1], p[2], NoGroup))
  BY <1>2, FreshType DEF SoundIn
<1> QED BY <1>3, <1>4, <1>5, <1>6, <1>7 DEF SoundIn, e

\* The innermost comparison goes on with its next goal.
LEMMA SoundResume ==
  ASSUME NEW K, NEW h, NEW f \in Seq(Frames), NEW p,
         SoundIn(K, "return", h, f, p), f # << >>, Last(f).todo # << >>
  PROVE  SoundIn(K, "compare", Head(Last(f).todo),
                 Append(Front(f), [Last(f) EXCEPT !.todo = Tail(Last(f).todo)]), p)
<1> DEFINE n == Len(f)
           t == Last(f).todo
           x == [Last(f) EXCEPT !.todo = Tail(t)]
           e == Append(Front(f), x)
<1>1. /\ Front(f) \in Seq(Frames) /\ Len(Front(f)) = n - 1 /\ Last(f) \in Frames
      /\ \A k \in 1 .. n - 1 : Front(f)[k] = f[k]
      /\ Last(f) = f[n] /\ n \in DOMAIN f
  BY FrontOf
<1>2. t \in Seq(Goals) /\ x.key = Last(f).key /\ x.todo = Tail(t) /\ n \in Nat /\ DOMAIN f = 1 .. n
  BY <1>1 DEF Frames
<1>3. /\ DOMAIN e = 1 .. n /\ e[n] = x
      /\ \A i \in 1 .. n - 1 : e[i] = f[i]
  BY <1>1, <1>2
<1>4. /\ Head(t) \in Range(t) /\ Range(Tail(t)) \subseteq Range(t)
      /\ \A g \in Range(t) : g = Head(t) \/ g \in Range(Tail(t))
  BY <1>2, RangeOfTail
<1> HIDE DEF e, x, t, n
<1>5. ASSUME NEW k, NEW g, Left(f, k, g) PROVE Pending("compare", Head(t), g) \/ Left(e, k, g)
  <2> PICK i \in DOMAIN f : f[i].key = k /\ g \in Range(f[i].todo)
    BY <1>5 DEF Left
  <2>1. CASE i = n
    <3>1. e[n].key = k /\ n \in DOMAIN e /\ g \in Range(t)
      BY <1>1, <1>2, <1>3, <2>1 DEF t
    <3> QED BY <1>2, <1>3, <1>4, <3>1 DEF Pending, Serves, Left
  <2>2. CASE i # n
    <3>1. i \in 1 .. n - 1 /\ i \in DOMAIN e
      BY <1>2, <1>3, <2>2
    <3> QED BY <1>3, <3>1 DEF Left
  <2> QED BY <2>1, <2>2
<1>6. ASSUME NEW i \in DOMAIN e, NEW g \in Range(e[i].todo) PROVE GoalFits(K, g)
  <2>1. CASE i = n
    BY <1>1, <1>2, <1>3, <1>4, <2>1 DEF SoundIn, t
  <2>2. CASE i # n
    <3>1. i \in 1 .. n - 1 /\ i \in DOMAIN f
      BY <1>2, <1>3, <2>2
    <3> QED BY <1>3, <3>1 DEF SoundIn
  <2> QED BY <2>1, <2>2
<1>7. GoalFits(K, Head(t))
  BY <1>1, <1>4 DEF SoundIn, t
<1>8. SoundIn(K, "compare", Head(t), e, p)
  BY <1>5, <1>6, <1>7 DEF SoundIn, Pending
<1> QED BY <1>8 DEF e, x, t

\* The innermost comparison is over.
LEMMA SoundConclude ==
  ASSUME NEW K, NEW h, NEW f \in Seq(Frames), NEW p,
         SoundIn(K, "return", h, f, p), f # << >>, Last(f).todo = << >>
  PROVE  SoundIn(K, "return", h, Front(f), p)
<1> DEFINE n == Len(f)
           e == Front(f)
<1>1. /\ e \in Seq(Frames) /\ Len(e) = n - 1 /\ \A k \in 1 .. n - 1 : e[k] = f[k]
      /\ Last(f) = f[n] /\ n \in Nat /\ DOMAIN f = 1 .. n
  BY FrontOf
<1>2. DOMAIN e = 1 .. n - 1
  BY <1>1
<1> HIDE DEF e, n
<1>3. Range(f[n].todo) = {}
  BY <1>1 DEF Range
<1>4. ASSUME NEW i \in DOMAIN f PROVE i \in DOMAIN e \/ i = n
  BY <1>1, <1>2
<1>5. ASSUME NEW i \in DOMAIN e PROVE i \in DOMAIN f /\ e[i] = f[i]
  BY <1>1, <1>2
<1>6. ASSUME NEW k, NEW g, Left(f, k, g) PROVE Left(e, k, g)
  BY <1>3, <1>4, <1>5, <1>6 DEF Left
<1>7. SoundIn(K, "return", h, e, p)
  BY <1>5, <1>6 DEF SoundIn, Pending
<1> QED BY <1>7 DEF e
-----------------------------------------------------------------------------
(* The yes answers are sound: every step *)

\* Appending a frame adds its comparison to those in progress; removing the
\* last one and remembering it changes nothing.
LEMMA HeldChanges ==
  ASSUME TypeOK
  PROVE  /\ Visiting \subseteq Keys /\ Held \subseteq Keys
         /\ \A k \in Keys : \A t : frames' = Append(frames, [key |-> k, todo |-> t]) => Visiting' = Visiting \cup {k}
         /\ frames # << >> => /\ Last(frames) \in Frames /\ Last(frames).key \in Visiting
                              /\ Visiting = {Front(frames)[i].key : i \in DOMAIN Front(frames)} \cup {Last(frames).key}
<1>1. frames \in Seq(Frames)
  BY DEF TypeOK, Frames
<1>2. Visiting \subseteq Keys
  <2>1. \A i \in DOMAIN frames : frames[i] \in Frames
    BY <1>1
  <2>2. \A i \in DOMAIN frames : frames[i].key \in Keys
    BY <2>1 DEF Frames
  <2> QED BY <2>2 DEF Visiting
<1>3. ASSUME NEW k \in Keys, NEW t, frames' = Append(frames, [key |-> k, todo |-> t])
      PROVE  Visiting' = Visiting \cup {k}
  <2>1. /\ Len(frames) \in Nat /\ DOMAIN frames = 1 .. Len(frames) /\ DOMAIN frames' = 1 .. Len(frames) + 1
        /\ \A i \in DOMAIN frames : frames'[i] = frames[i]
        /\ frames'[Len(frames) + 1] = [key |-> k, todo |-> t]
    BY <1>1, <1>3
  <2>2. DOMAIN frames' = DOMAIN frames \cup {Len(frames) + 1}
    BY <2>1
  <2>3. \A i \in DOMAIN frames : frames'[i].key = frames[i].key
    BY <2>1
  <2>4. frames'[Len(frames) + 1].key = k
    BY <2>1
  <2> QED BY <2>2, <2>3, <2>4 DEF Visiting
<1>4. ASSUME frames # << >>
      PROVE  /\ Last(frames) \in Frames /\ Last(frames).key \in Visiting
             /\ Visiting = {Front(frames)[i].key : i \in DOMAIN Front(frames)} \cup {Last(frames).key}
  <2> DEFINE n == Len(frames)
             e == Front(frames)
  <2>1. /\ e \in Seq(Frames) /\ Len(e) = n - 1 /\ \A k \in 1 .. n - 1 : e[k] = frames[k]
        /\ Last(frames) = frames[n] /\ Last(frames) \in Frames /\ n \in Nat /\ n \in DOMAIN frames
        /\ DOMAIN frames = 1 .. n
    BY <1>1, <1>4, FrontOf
  <2>2. DOMAIN e = 1 .. n - 1
    BY <2>1
  <2> HIDE DEF e, n
  <2>3. DOMAIN frames = DOMAIN e \cup {n} /\ \A i \in DOMAIN e : e[i].key = frames[i].key
    BY <2>1, <2>2
  <2>4. Visiting = {e[i].key : i \in DOMAIN e} \cup {Last(frames).key}
    BY <2>1, <2>3 DEF Visiting
  <2> QED BY <2>1, <2>4 DEF e
<1> QED BY <1>2, <1>3, <1>4, <1>1 DEF Held, TypeOK

\* A step that answers yes keeps Sound.
LEMMA SoundReturn ==
  ASSUME TypeOK, Sound, phase = "compare", asked' = asked,
         Return(FALSE) \/ (Return(TRUE) /\ Met(Held, at))
  PROVE  Sound'
<1>1. Sound' <=> (~Failing' => SoundIn(Held', phase', at', frames', pair'))
  BY Constancy
<1>2. CASE Return(FALSE)
  BY <1>1, <1>2 DEF Return, Failing
<1>3. CASE Return(TRUE) /\ Met(Held, at)
  <2>1. SoundIn(Held, "compare", at, frames, pair)
    BY DEF Sound, Failing
  <2>2. Held \in SUBSET Keys /\ frames \in Seq(Frames) /\ at \in Goals /\ pair \in Indices \X Indices
    BY HeldChanges DEF TypeOK, Frames
  <2>3. SoundIn(Held, "return", at, frames, pair)
    BY <1>3, <2>1, <2>2, SoundYes
  <2>4. Held' = Held /\ phase' = "return" /\ at' = at /\ frames' = frames /\ pair' = pair
    BY <1>3 DEF Return, Held, Visiting
  <2> QED BY <1>1, <2>3, <2>4
<1> QED BY <1>2, <1>3

\* A step that passes the comparison on keeps Sound.
LEMMA SoundMoves ==
  ASSUME TypeOK, Sound, phase = "compare", asked' = asked,
         UNCHANGED <<pair, frames, known, refuted, phase, answer>>,
         GoalFits(Held, at'), \A g : Serves(at, g) => Serves(at', g)
  PROVE  Sound'
<1>1. Sound' <=> (~Failing' => SoundIn(Held', phase', at', frames', pair'))
  BY Constancy
<1>2. SoundIn(Held, "compare", at, frames, pair)
  BY DEF Sound, Failing
<1>3. SoundIn(Held, "compare", at', frames, pair)
  BY <1>2, SoundMove
<1>4. Held' = Held /\ phase' = "compare" /\ frames' = frames /\ pair' = pair
  BY DEF Held, Visiting
<1> QED BY <1>1, <1>3, <1>4

\* A step that enters a comparison keeps Sound.
LEMMA SoundEnters ==
  ASSUME TypeOK, Sound, phase = "compare", asked' = asked,
         NEW k \in Keys, NEW t \in Seq(Goals), Enter(k, t), Duties(k) = Range(t),
         KeyFits(Held \cup {k}, k), Met(Held \cup {k}, at),
         \A g \in Range(t) : GoalFits(Held \cup {k}, g)
  PROVE  Sound'
<1>1. Sound' <=> (~Failing' => SoundIn(Held', phase', at', frames', pair'))
  BY Constancy
<1>2. SoundIn(Held, "compare", at, frames, pair)
  BY DEF Sound, Failing
<1>3. Held \in SUBSET Keys /\ frames \in Seq(Frames) /\ at \in Goals /\ pair \in Indices \X Indices
  BY HeldChanges DEF TypeOK, Frames
<1>4. SoundIn(Held \cup {k}, "return", at, Append(frames, [key |-> k, todo |-> t]), pair)
  BY <1>2, <1>3, SoundEnter
<1>5. Held' = Held \cup {k}
  BY HeldChanges DEF Enter, Held
<1> QED BY <1>1, <1>4, <1>5 DEF Enter

\* A reference that stays within the pair of groups is one between members.
LEMMA RefMember ==
  ASSUME TypeOK, NEW K, NEW g \in Goals, GoalFits(K, g), g.how = "ref",
         SamePlace(g.group, g.a, g.b), InA(g.group, g.a)
  PROVE  /\ SameSpot(g.a, g.b) /\ g.group = GroupPair(g.a, g.b)
         /\ GroupKey(g.a, g.b) \in K
<1> DEFINE a == g.group.a
           b == g.group.b
           i == g.a - a
<1>1. g.a \in Nat /\ g.b \in Nat /\ a \in Nat /\ b \in Nat /\ g.group.size \in Nat
  BY DEF Goals, GroupPairs
<1>2. g.group # NoGroup
  BY <1>1 DEF InA, NoGroup
<1>3. SameSpot(a, b) /\ g.group = GroupPair(a, b) /\ GroupKey(a, b) \in K
  BY <1>2 DEF GoalFits
<1>4. RecGroupInfo(A, a).size > 1
  BY <1>2, <1>3 DEF GroupPair
<1>5. i \in Nat /\ i < GroupPair(a, b).size /\ g.a = a + i /\ g.b = b + i
  BY <1>1, <1>3 DEF SamePlace, InA, InB
<1> QED BY <1>1, <1>3, <1>4, <1>5, GroupMembers
\* What is entered for a pair of groups fits.
LEMMA GroupFits ==
  ASSUME TypeOK, NEW a \in Nat, NEW b \in Nat, SameSpot(a, b), RecGroupInfo(A, a).size > 1,
         NEW K, GroupKey(a, b) \in K
  PROVE  /\ GroupKey(a, b) \in Keys /\ KeyFits(K, GroupKey(a, b))
         /\ Duties(GroupKey(a, b)) = Range(Members(GroupPair(a, b)))
         /\ \A g \in Range(Members(GroupPair(a, b))) : GoalFits(K, g)
<1> DEFINE g == GroupPair(a, b)
<1>1. /\ g \in GroupPairs /\ g.a \in Nat /\ g.b \in Nat /\ g.size \in Nat /\ 0 < g.size
      /\ GroupKey(a, b) = Key("group", g.a, g.b)
  <2>1. g \in GroupPairs /\ g.a \in Nat /\ g.b \in Nat /\ g.size \in Nat
    BY GroupPairType DEF GroupPairs
  <2>2. 0 < g.size
    BY <2>1 DEF GroupPair
  <2>3. GroupKey(a, b) = Key("group", g.a, g.b)
    BY <2>2, GroupMembers
  <2> QED BY <2>1, <2>2, <2>3
<1>2. ASSUME NEW i \in Nat, i < g.size
      PROVE  /\ g.a + i \in DOMAIN A /\ g.b + i \in DOMAIN B
             /\ SameSpot(g.a + i, g.b + i) /\ GroupPair(g.a + i, g.b + i) = g
             /\ RecGroupInfo(A, g.a + i).size > 1
             /\ GroupKey(g.a + i, g.b + i) = GroupKey(a, b)
  BY <1>2, GroupMembers
<1>3. /\ g.a \in DOMAIN A /\ g.b \in DOMAIN B /\ SameSpot(g.a, g.b) /\ GroupPair(g.a, g.b) = g
      /\ RecGroupInfo(A, g.a).size > 1 /\ GroupKey(g.a, g.b) = GroupKey(a, b)
  <2>1. g.a + 0 = g.a /\ g.b + 0 = g.b
    BY <1>1
  <2> HIDE DEF g
  <2> QED BY <1>1, <1>2, <2>1
<1>4. ASSUME NEW h \in Range(Members(g)) PROVE GoalFits(K, h)
  <2>1. PICK j \in 1 .. g.size : h = Goal("member", g.a + j - 1, g.b + j - 1, g)
    BY DEF Members, Range
  <2>2. j - 1 \in Nat /\ j - 1 < g.size /\ g.a + j - 1 = g.a + (j - 1) /\ g.b + j - 1 = g.b + (j - 1)
    BY <1>1
  <2>3. h = Goal("member", g.a + (j - 1), g.b + (j - 1), g)
    BY <2>1, <2>2
  <2> HIDE DEF g
  <2>4. SameSpot(h.a, h.b) /\ h.group = GroupPair(h.a, h.b) /\ GroupKey(h.a, h.b) \in K /\ h.how = "member"
    BY <1>2, <2>2, <2>3 DEF Goal
  <2> QED BY <2>4 DEF GoalFits
<1>5. KeyFits(K, GroupKey(a, b))
  <2> HIDE DEF g
  <2> QED BY <1>1, <1>3 DEF KeyFits, Key
<1>6. Duties(GroupKey(a, b)) = Range(Members(g))
  <2> HIDE DEF g
  <2> QED BY <1>1, <1>3 DEF Duties, Key
<1> QED BY <1>1, <1>4, <1>5, <1>6 DEF Key, Keys

\* What is entered for a pair of types fits.
LEMMA TypeFits ==
  ASSUME TypeOK, NEW h \in Goals, NEW K, NEW L, K \subseteq L, GoalFits(K, h), h.how = "member",
         h.a \in DOMAIN A, h.b \in DOMAIN B, Alike(h.a, h.b)
  PROVE  /\ KeyFits(L, Key("type", h.a, h.b))
         /\ Duties(Key("type", h.a, h.b)) = Range(RefGoals(h.a, h.b, h.group))
         /\ \A g \in Range(RefGoals(h.a, h.b, h.group)) : GoalFits(L, g)
<1>1. /\ SameSpot(h.a, h.b) /\ h.group = GroupPair(h.a, h.b)
      /\ RecGroupInfo(A, h.a).size > 1 => GroupKey(h.a, h.b) \in K
  BY DEF GoalFits
<1>2. h.a \in Nat /\ h.b \in Nat
  BY DEF Goals
<1>3. ASSUME NEW g \in Range(RefGoals(h.a, h.b, h.group)) PROVE GoalFits(L, g)
  <2>1. g.how = "ref" /\ g.group = h.group
    BY DEF RefGoals, Range, Goal
  <2>2. CASE h.group = NoGroup
    BY <2>1, <2>2 DEF GoalFits
  <2>3. CASE h.group # NoGroup
    <3>1. RecGroupInfo(A, h.a).size > 1
      BY <1>1, <2>3 DEF GroupPair
    <3>2. 0 \in Nat /\ 0 < GroupPair(h.a, h.b).size /\ h.group.a \in Nat /\ h.group.b \in Nat
      BY <1>1, <1>2, <3>1, OwnGroup, GroupPairType DEF GroupPairs
    <3>3. h.group.a + 0 = h.group.a /\ h.group.b + 0 = h.group.b
      BY <3>2
    <3>4. /\ SameSpot(h.group.a, h.group.b) /\ GroupPair(h.group.a, h.group.b) = h.group
          /\ GroupKey(h.group.a, h.group.b) = GroupKey(h.a, h.b)
      BY <1>1, <1>2, <3>1, <3>2, <3>3, GroupMembers
    <3> QED BY <1>1, <2>1, <3>1, <3>4 DEF GoalFits
  <2> QED BY <2>2, <2>3
<1>4. KeyFits(L, Key("type", h.a, h.b))
  BY <1>1 DEF KeyFits, Key
<1>5. Duties(Key("type", h.a, h.b)) = Range(RefGoals(h.a, h.b, h.group))
  BY <1>1 DEF Duties, Key
<1> QED BY <1>3, <1>4, <1>5

\* Every step of a comparison keeps Sound.
LEMMA SoundCheck ==
  ASSUME TypeOK, Sound, Check
  PROVE  Sound'
<1>1. asked' = asked /\ at \in Goals /\ at.a \in Nat /\ at.b \in Nat /\ Held \subseteq Keys
  BY HeldChanges DEF Check, TypeOK, Goals
<1>2. phase = "compare" => SoundIn(Held, "compare", at, frames, pair) /\ GoalFits(Held, at)
  BY DEF Sound, Failing, SoundIn
<1>3. ASSUME phase = "compare", NEW k, Recall(k) \/ Suppose(k), k \in Held => Met(Held, at) PROVE Sound'
  <2>1. Return(FALSE) \/ (Return(TRUE) /\ Met(Held, at))
    <3>1. CASE k \in Held
      <4>1. Return(TRUE) \/ Return(FALSE)
        BY <1>3 DEF Recall, Suppose, Return
      <4> QED BY <1>3, <3>1, <4>1
    <3>2. CASE k \notin Held
      <4>1. k \notin known /\ Recall(k)
        BY <1>3, <3>2 DEF Suppose, Held
      <4>2. (k \in known) = FALSE
        BY <4>1
      <4> QED BY <4>1, <4>2 DEF Recall
    <3> QED BY <3>1, <3>2
  <2> QED BY <1>1, <1>3, <2>1, SoundReturn
<1>4. CASE phase = "compare" /\ CompareRef
  <2>1. CASE Return(FALSE)
    BY <1>1, <1>4, <2>1, SoundReturn
  <2>2. CASE /\ SamePlace(at.group, at.a, at.b)
             /\ at' = IF InA(at.group, at.a) THEN [at EXCEPT !.how = "member"]
                      ELSE Goal("indices", at.a, at.b, NoGroup)
             /\ UNCHANGED <<pair, frames, known, refuted, phase, answer>>
    <3>1. at.how = "ref" /\ at'.a = at.a /\ at'.b = at.b
      BY <1>1, <1>4, <2>2 DEF CompareRef, Goal, Goals
    <3>2. CASE InA(at.group, at.a)
      <4>1. at'.how = "member" /\ at'.group = at.group
        BY <1>1, <2>2, <3>2 DEF Goals
      <4>2. GoalFits(Held, at')
        BY <1>1, <1>2, <1>4, <2>2, <3>1, <3>2, <4>1, RefMember DEF GoalFits
      <4>3. \A g : Serves(at, g) => Serves(at', g)
        BY <2>2, <3>1, <3>2, <4>1 DEF Serves
      <4> QED BY <1>1, <1>4, <2>2, <4>2, <4>3, SoundMoves
    <3>3. CASE ~InA(at.group, at.a)
      <4>1. at'.how = "indices" /\ at'.group = NoGroup
        BY <2>2, <3>3 DEF Goal
      <4>2. GoalFits(Held, at')
        BY <4>1 DEF GoalFits
      <4>3. \A g : Serves(at, g) => Serves(at', g)
        BY <2>2, <3>1, <3>3, <4>1 DEF Serves
      <4> QED BY <1>1, <1>4, <2>2, <4>2, <4>3, SoundMoves
    <3> QED BY <3>2, <3>3
  <2> QED BY <1>4, <2>1, <2>2 DEF CompareRef
<1>5. CASE phase = "compare" /\ CompareIndices
  <2> DEFINE size == RecGroupInfo(A, at.a).size
             k == GroupKey(at.a, at.b)
  <2>1. CASE Return(FALSE)
    BY <1>1, <1>5, <2>1, SoundReturn
  <2>2. ASSUME SameSpot(at.a, at.b), size > 1, NEW K, k \in K PROVE Met(K, at)
    BY <1>5, <2>2 DEF CompareIndices, Met, IndicesMet
  <2>3. CASE SameSpot(at.a, at.b) /\ size > 1 /\ (Recall(k) \/ Suppose(k))
    BY <1>3, <1>5, <2>2, <2>3
  <2>4. CASE SameSpot(at.a, at.b) /\ size > 1 /\ Enter(k, Members(GroupPair(at.a, at.b)))
    <3>1. /\ k \in Keys /\ KeyFits(Held \cup {k}, k)
          /\ Duties(k) = Range(Members(GroupPair(at.a, at.b)))
          /\ \A g \in Range(Members(GroupPair(at.a, at.b))) : GoalFits(Held \cup {k}, g)
      BY <1>1, <2>4, GroupFits
    <3>2. Members(GroupPair(at.a, at.b)) \in Seq(Goals)
      BY <1>1, GroupPairType, MembersType
    <3>3. Met(Held \cup {k}, at)
      BY <2>2, <2>4
    <3> HIDE DEF k, size
    <3> QED BY <1>1, <1>5, <2>4, <3>1, <3>2, <3>3, SoundEnters
  <2>5. CASE /\ SameSpot(at.a, at.b) /\ size = 1
             /\ at' = Goal("member", at.a, at.b, NoGroup)
             /\ UNCHANGED <<pair, frames, known, refuted, phase, answer>>
    <3>1. at.how = "indices" /\ at'.a = at.a /\ at'.b = at.b /\ at'.how = "member" /\ at'.group = NoGroup
      BY <1>5, <2>5 DEF CompareIndices, Goal
    <3>2. GoalFits(Held, at')
      BY <2>5, <3>1 DEF GoalFits, GroupPair
    <3>3. \A g : Serves(at, g) => Serves(at', g)
      BY <2>5, <3>1 DEF Serves
    <3> QED BY <1>1, <1>5, <2>5, <3>2, <3>3, SoundMoves
  <2> QED BY <1>5, <2>1, <2>3, <2>4, <2>5 DEF CompareIndices, SameSpot, GroupKey
<1>6. CASE phase = "compare" /\ CompareMember
  <2> DEFINE k == Key("type", at.a, at.b)
  <2>1. CASE Return(FALSE)
    BY <1>1, <1>6, <2>1, SoundReturn
  <2>2. ASSUME NEW K, k \in K PROVE Met(K, at)
    BY <1>6, <2>2 DEF CompareMember, Met, MemberMet
  <2>3. CASE Recall(k) \/ Suppose(k)
    BY <1>3, <1>6, <2>2, <2>3
  <2>4. CASE same /\ at.a = at.b /\ Return(TRUE)
    <3>1. Met(Held, at)
      BY <1>6, <2>4 DEF CompareMember, Met, MemberMet
    <3> QED BY <1>1, <1>6, <2>4, <3>1, SoundReturn
  <2>5. CASE /\ at.a \in DOMAIN A /\ at.b \in DOMAIN B /\ Alike(at.a, at.b)
             /\ Enter(k, RefGoals(at.a, at.b, at.group))
    <3>1. at.how = "member" /\ k \in Keys
      BY <1>1, <1>6 DEF CompareMember, Key, Keys
    <3>2. /\ KeyFits(Held \cup {k}, k) /\ Duties(k) = Range(RefGoals(at.a, at.b, at.group))
          /\ \A g \in Range(RefGoals(at.a, at.b, at.group)) : GoalFits(Held \cup {k}, g)
      BY <1>1, <1>2, <1>6, <2>5, <3>1, TypeFits
    <3>3. RefGoals(at.a, at.b, at.group) \in Seq(Goals)
      BY <1>1, <2>5, RefGoalsType DEF Goals
    <3>4. Met(Held \cup {k}, at)
      BY <2>2
    <3> HIDE DEF k
    <3> QED BY <1>1, <1>6, <2>5, <3>1, <3>2, <3>3, <3>4, SoundEnters
  <2>6. CASE phase' = "return" /\ answer' = FALSE
    BY <1>1, <2>6, Constancy DEF Failing
  <2> QED BY <1>6, <2>1, <2>3, <2>4, <2>5, <2>6 DEF CompareMember
<1>7. CASE Resume
  <2>1. Sound' <=> (~Failing' => SoundIn(Held', phase', at', frames', pair'))
    BY <1>1, Constancy
  <2>2. CASE ~answer
    BY <1>7, <2>1, <2>2 DEF Resume, Failing
  <2>3. CASE answer
    <3>1. SoundIn(Held, "return", at, frames, pair) /\ frames # << >> /\ frames \in Seq(Frames)
      BY <1>7, <2>3 DEF Resume, Sound, Failing, TypeOK, Frames
    <3>2. CASE /\ Last(frames).todo # << >>
               /\ at' = Head(Last(frames).todo)
               /\ frames' = Append(Front(frames), [Last(frames) EXCEPT !.todo = Tail(Last(frames).todo)])
               /\ phase' = "compare" /\ UNCHANGED <<pair, known, refuted, answer>>
      <4>1. SoundIn(Held, "compare", at', frames', pair)
        BY <3>1, <3>2, SoundResume
      <4>2. Visiting' = Visiting
        <5> DEFINE e == Front(frames)
                   x == [Last(frames) EXCEPT !.todo = Tail(Last(frames).todo)]
        <5>1. e \in Seq(Frames) /\ Last(frames) \in Frames
          BY <3>1, FrontOf
        <5>2. x.key = Last(frames).key
          BY <5>1 DEF Frames
        <5>3. Visiting = {e[i].key : i \in DOMAIN e} \cup {x.key}
          BY <3>1, <5>2, HeldChanges
        <5> HIDE DEF e, x
        <5>4. frames' = Append(e, x)
          BY <3>2 DEF e, x
        <5>5. /\ Len(e) \in Nat /\ DOMAIN e = 1 .. Len(e) /\ DOMAIN frames' = 1 .. Len(e) + 1
              /\ \A i \in DOMAIN e : frames'[i] = e[i]
              /\ frames'[Len(e) + 1] = x
          BY <5>1, <5>4
        <5>6. DOMAIN frames' = DOMAIN e \cup {Len(e) + 1} /\ \A i \in DOMAIN e : frames'[i].key = e[i].key
          BY <5>5
        <5>7. frames'[Len(e) + 1].key = x.key
          BY <5>5
        <5> QED BY <5>3, <5>6, <5>7, SMTT(60) DEF Visiting
      <4>3. Held' = Held
        BY <3>2, <4>2 DEF Held
      <4> QED BY <2>1, <3>2, <4>1, <4>3
    <3>3. CASE /\ Last(frames).todo = << >>
               /\ known' = known \cup {Last(frames).key}
               /\ frames' = Front(frames)
               /\ UNCHANGED <<pair, at, refuted, phase, answer>>
      <4>1. SoundIn(Held, "return", at, frames', pair)
        BY <3>1, <3>3, SoundConclude
      <4>2. Held' = Held
        <5>1. Visiting' = {Front(frames)[i].key : i \in DOMAIN Front(frames)}
          BY <3>3 DEF Visiting
        <5>2. Visiting = {Front(frames)[i].key : i \in DOMAIN Front(frames)} \cup {Last(frames).key}
          BY <3>1, HeldChanges
        <5> QED BY <3>3, <5>1, <5>2 DEF Held
      <4> QED BY <1>7, <2>1, <3>3, <4>1, <4>2 DEF Resume
    <3> QED BY <1>7, <2>3, <3>2, <3>3 DEF Resume
  <2> QED BY <2>2, <2>3
<1> QED BY <1>4, <1>5, <1>6, <1>7 DEF Check
-----------------------------------------------------------------------------
(* The no answers are right *)

\* Related types lie at one position of groups of one size.
LEMMA RelatedSpot ==
  ASSUME TypeOK, NEW R, Correspondence(R), NEW a \in Nat, NEW b \in Nat, Related(R, a, b)
  PROVE  /\ SameSpot(a, b)
         /\ \/ same /\ a = b /\ A = B
            \/ a \in DOMAIN A /\ b \in DOMAIN B /\ Corresponds(R, a, b)
<1>1. CASE same /\ a = b
  BY <1>1, AskedType DEF SameSpot
<1>2. CASE <<a, b>> \in R
  BY <1>2 DEF Correspondence, Corresponds, SameSpot
<1> QED BY <1>1, <1>2 DEF Related

\* The members of a related pair of groups are related.
LEMMA MembersHold ==
  ASSUME TypeOK, NEW R, Correspondence(R), NEW a \in Nat, NEW b \in Nat, Related(R, a, b),
         RecGroupInfo(A, a).size > 1, NEW g \in Range(Members(GroupPair(a, b)))
  PROVE  Holds(R, g)
<1> DEFINE p == GroupPair(a, b)
<1>1. /\ p = [a |-> RecGroupInfo(A, a).start, b |-> RecGroupInfo(B, b).start, size |-> RecGroupInfo(A, a).size]
      /\ p.a \in Nat /\ p.b \in Nat /\ p.size \in Nat
  BY GroupPairType DEF GroupPair, GroupPairs
<1>2. PICK j \in 1 .. p.size : g = Goal("member", p.a + j - 1, p.b + j - 1, p)
  BY DEF Members, Range
<1>3. j - 1 \in 0 .. (p.size - 1) /\ p.a + j - 1 = p.a + (j - 1) /\ p.b + j - 1 = p.b + (j - 1)
  BY <1>1
<1>4. g.how = "member" /\ g.a = p.a + (j - 1) /\ g.b = p.b + (j - 1)
  BY <1>2, <1>3 DEF Goal
<1>5. CASE same /\ a = b /\ A = B
  BY <1>1, <1>4, <1>5 DEF Holds, Related
<1>6. CASE Corresponds(R, a, b)
  BY <1>1, <1>3, <1>4, <1>6 DEF Corresponds, Holds
<1> QED BY <1>5, <1>6, RelatedSpot

\* A correspondence stays one that relates all that is left.
LEMMA CompleteCheck ==
  ASSUME TypeOK, Sound, Complete, Check
  PROVE  Complete'
<1>1. asked' = asked /\ pair' = pair /\ at \in Goals /\ at.a \in Nat /\ at.b \in Nat
  BY DEF Check, TypeOK, Goals, CompareRef, CompareIndices, CompareMember, Resume, Return, Recall, Suppose, Enter
<1> SUFFICES ASSUME NEW R \in SUBSET ((DOMAIN A) \X (DOMAIN B)), Correspondence(R), Related(R, pair[1], pair[2])
             PROVE  ~Failing' /\ refuted' = {} /\ CompleteIn(R, phase', at', frames')
  BY <1>1, Constancy
<1>2. ~Failing /\ refuted = {} /\ CompleteIn(R, phase, at, frames)
  BY DEF Complete
<1>3. ASSUME Return(TRUE) PROVE ~Failing' /\ refuted' = {} /\ CompleteIn(R, phase', at', frames')
  BY <1>2, <1>3 DEF Return, Failing, CompleteIn
<1>4. ASSUME NEW k, Recall(k) \/ Suppose(k) PROVE Return(TRUE)
  <2>1. k \in known => (k \in known) = TRUE
    OBVIOUS
  <2> QED BY <1>2, <1>4, <2>1 DEF Recall, Suppose
<1>5. ASSUME phase = "compare", UNCHANGED <<pair, frames, known, refuted, phase, answer>>, Holds(R, at')
      PROVE  ~Failing' /\ refuted' = {} /\ CompleteIn(R, phase', at', frames')
  BY <1>2, <1>5 DEF Failing, CompleteIn
<1>6. ASSUME NEW k \in Keys, NEW t \in Seq(Goals), Enter(k, t), \A g \in Range(t) : Holds(R, g)
      PROVE  ~Failing' /\ refuted' = {} /\ CompleteIn(R, phase', at', frames')
  <2> DEFINE x == [key |-> k, todo |-> t]
  <2>1. frames \in Seq(Frames) /\ x.todo = t
    BY DEF TypeOK, Frames
  <2> HIDE DEF x
  <2>2. frames' = Append(frames, x)
    BY <1>6 DEF Enter, x
  <2>3. /\ \A i \in DOMAIN frames' : i \in DOMAIN frames \/ i = Len(frames) + 1
        /\ \A i \in DOMAIN frames : frames'[i] = frames[i]
        /\ frames'[Len(frames) + 1] = x
    BY <2>1, <2>2
  <2>4. ASSUME NEW i \in DOMAIN frames', NEW g \in Range(frames'[i].todo) PROVE Holds(R, g)
    <3>1. CASE i \in DOMAIN frames
      BY <1>2, <2>3, <3>1 DEF CompleteIn
    <3>2. CASE i = Len(frames) + 1
      <4>1. frames'[i].todo = t
        BY <2>1, <2>3, <3>2
      <4>2. g \in Range(t)
        BY <4>1
      <4> QED BY <1>6, <4>2
    <3> QED BY <2>3, <3>1, <3>2
  <2> QED BY <1>2, <1>6, <2>4 DEF Enter, Failing, CompleteIn
<1>7. CASE phase = "compare" /\ CompareRef
  <2>1. Holds(R, at) /\ at.how = "ref"
    BY <1>2, <1>7 DEF CompleteIn, CompareRef
  <2>2. /\ UNCHANGED <<pair, frames, known, refuted, phase, answer>>
        /\ at' = IF InA(at.group, at.a) THEN [at EXCEPT !.how = "member"]
                 ELSE Goal("indices", at.a, at.b, NoGroup)
    BY <1>7, <2>1 DEF CompareRef, Holds
  <2>3. at'.a = at.a /\ at'.b = at.b /\ at'.how # "ref"
    BY <1>1, <2>2 DEF Goal, Goals
  <2> QED BY <1>5, <1>7, <2>1, <2>2, <2>3 DEF Holds
<1>8. CASE phase = "compare" /\ CompareIndices
  <2> DEFINE k == GroupKey(at.a, at.b)
  <2>1. Related(R, at.a, at.b) /\ SameSpot(at.a, at.b)
    BY <1>1, <1>2, <1>8, RelatedSpot DEF CompleteIn, Holds
  <2>2. CASE Recall(k) \/ Suppose(k)
    BY <1>3, <1>4, <2>2
  <2>3. CASE RecGroupInfo(A, at.a).size > 1 /\ Enter(k, Members(GroupPair(at.a, at.b)))
    <3>1. \A g \in Range(Members(GroupPair(at.a, at.b))) : Holds(R, g)
      BY <1>1, <2>1, <2>3, MembersHold
    <3>2. k \in Keys
      BY <1>1, AskedType, GroupShape DEF GroupKey, Key, Keys
    <3>3. Members(GroupPair(at.a, at.b)) \in Seq(Goals)
      BY <1>1, GroupPairType, MembersType
    <3> HIDE DEF k
    <3> QED BY <1>6, <2>3, <3>1, <3>2, <3>3
  <2>4. CASE /\ at' = Goal("member", at.a, at.b, NoGroup)
             /\ UNCHANGED <<pair, frames, known, refuted, phase, answer>>
    <3>1. Holds(R, at')
      BY <2>1, <2>4 DEF Holds, Goal
    <3> QED BY <1>5, <1>8, <2>4, <3>1
  <2> QED BY <1>8, <2>1, <2>2, <2>3, <2>4 DEF CompareIndices, SameSpot, GroupKey
<1>9. CASE phase = "compare" /\ CompareMember
  <2> DEFINE k == Key("type", at.a, at.b)
             one == same /\ at.a = at.b /\ at.group.a = at.group.b
  <2>1. Related(R, at.a, at.b) /\ at.how = "member"
    BY <1>2, <1>9 DEF CompleteIn, Holds, CompareMember
  <2>2. at.group = GroupPair(at.a, at.b)
    BY <1>2, <1>9, <2>1 DEF Sound, SoundIn, GoalFits
  <2>3. one \/ (at.a \in DOMAIN A /\ at.b \in DOMAIN B /\ Corresponds(R, at.a, at.b))
    <3>1. CASE same /\ at.a = at.b /\ A = B
      <4>1. at.group.a = at.group.b
        BY <2>2, <3>1 DEF GroupPair, NoGroup
      <4> QED BY <3>1, <4>1
    <3> QED BY <1>1, <2>1, <3>1, RelatedSpot
  <2>4. CASE Return(TRUE)
    BY <1>3, <2>4
  <2>5. CASE Recall(k) \/ Suppose(k)
    BY <1>3, <1>4, <2>5
  <2>6. CASE /\ at.a \in DOMAIN A /\ at.b \in DOMAIN B /\ Corresponds(R, at.a, at.b) /\ Alike(at.a, at.b)
             /\ Enter(k, RefGoals(at.a, at.b, at.group))
    <3>1. ASSUME NEW g \in Range(RefGoals(at.a, at.b, at.group)) PROVE Holds(R, g)
      <4>1. Refs(A, at.a) \in Seq(Indices)
        BY <2>6, AlikeRefs
      <4>2. PICK i \in 1 .. Len(Refs(A, at.a)) : g = Goal("ref", Refs(A, at.a)[i], Refs(B, at.b)[i], at.group)
        BY DEF RefGoals, Range
      <4>3. i \in DOMAIN Refs(A, at.a) /\ Refs(A, at.a)[i] \in Nat /\ Refs(B, at.b)[i] \in Nat
        BY <2>6, <4>1, AlikeRefs, PairsAssumption
      <4>4. SamePlace(at.group, Refs(A, at.a)[i], Refs(B, at.b)[i])
        BY <1>1, <2>2, <2>6, <4>3, KeepPlace DEF Corresponds, SameSpot
      <4> QED BY <2>6, <4>2, <4>3, <4>4 DEF Corresponds, Holds, Goal
    <3>2. RefGoals(at.a, at.b, at.group) \in Seq(Goals)
      BY <1>1, <2>6, RefGoalsType DEF Goals
    <3>3. k \in Keys
      BY <1>1 DEF Key, Keys
    <3> HIDE DEF k
    <3> QED BY <1>6, <2>6, <3>1, <3>2, <3>3
  <2>7. one \/ Alike(at.a, at.b)
    BY <2>3 DEF Corresponds
  <2> QED BY <1>9, <2>3, <2>4, <2>5, <2>6, <2>7 DEF CompareMember
<1>10. CASE Resume
  <2> DEFINE n == Len(frames)
             e == Front(frames)
             t == Last(frames).todo
  <2>1. frames \in Seq(Frames) /\ frames # << >> /\ answer
    BY <1>2, <1>10 DEF TypeOK, Frames, Resume, Failing
  <2>2. /\ e \in Seq(Frames) /\ Len(e) = n - 1 /\ \A i \in 1 .. n - 1 : e[i] = frames[i]
        /\ Last(frames) = frames[n] /\ n \in DOMAIN frames /\ n \in Nat /\ DOMAIN frames = 1 .. n
        /\ Last(frames) \in Frames
    BY <2>1, FrontOf, SMTT(60)
  <2>3. \A g \in Range(t) : Holds(R, g)
    BY <1>2, <2>2 DEF CompleteIn
  <2>4. \A i \in DOMAIN e : i \in DOMAIN frames /\ i \in 1 .. n - 1 /\ e[i] = frames[i]
    BY <2>2
  <2>5. \A i \in DOMAIN e : \A g \in Range(e[i].todo) : Holds(R, g)
    BY <1>2, <2>4 DEF CompleteIn
  <2>6. CASE /\ t # << >> /\ at' = Head(t)
             /\ frames' = Append(e, [Last(frames) EXCEPT !.todo = Tail(t)])
             /\ phase' = "compare" /\ UNCHANGED <<pair, known, refuted, answer>>
    <3> DEFINE x == [Last(frames) EXCEPT !.todo = Tail(t)]
    <3>1. t \in Seq(Goals) /\ x.todo = Tail(t)
      BY <2>2 DEF Frames
    <3>2. Head(t) \in Range(t) /\ Range(Tail(t)) \subseteq Range(t)
      BY <2>6, <3>1, RangeOfTail
    <3>3. /\ \A i \in DOMAIN frames' : i \in DOMAIN e \/ i = n
          /\ \A i \in DOMAIN e : frames'[i] = e[i]
          /\ frames'[n] = x
      <4> HIDE DEF e, x, n, t
      <4>1. frames' = Append(e, x)
        BY <2>6 DEF e, x, t
      <4> QED BY <2>2, <4>1
    <3> HIDE DEF e, x, n, t
    <3>4. ASSUME NEW i \in DOMAIN frames', NEW g \in Range(frames'[i].todo) PROVE Holds(R, g)
      <4>1. CASE i \in DOMAIN e
        BY <2>5, <3>3, <4>1
      <4>2. CASE i = n
        <5>1. g \in Range(Tail(t))
          BY <3>1, <3>3, <4>2
        <5> QED BY <2>3, <3>2, <5>1
      <4> QED BY <3>3, <4>1, <4>2
    <3>5. CompleteIn(R, phase', at', frames')
      BY <2>3, <2>6, <3>2, <3>4 DEF CompleteIn
    <3> QED BY <1>2, <2>6, <3>5 DEF Failing
  <2>7. CASE /\ frames' = e /\ UNCHANGED <<pair, at, refuted, phase, answer>>
    <3>1. phase = "return"
      BY <1>10 DEF Resume
    <3> QED BY <1>2, <2>5, <2>7, <3>1 DEF CompleteIn, Failing
  <2> QED BY <1>10, <2>1, <2>6, <2>7 DEF Resume
<1> QED BY <1>7, <1>8, <1>9, <1>10 DEF Check

-----------------------------------------------------------------------------
(* The theorems *)

\* A call of Types begins soundly, and with all still to be compared.
LEMMA FreshInv ==
  ASSUME NEW a, NEW b
  PROVE  /\ SoundIn({}, "compare", Goal("indices", a, b, NoGroup), << >>, <<a, b>>)
         /\ \A R : Related(R, a, b) => CompleteIn(R, "compare", Goal("indices", a, b, NoGroup), << >>)
BY DEF SoundIn, CompleteIn, Holds, Pending, Serves, GoalFits, Goal

\* The invariant holds when a question is asked.
LEMMA InitInv == Init => IInv
<1> SUFFICES ASSUME Init PROVE IInv
  OBVIOUS
<1>1. Held = {} /\ phase = "compare" /\ refuted = {} /\ ~Failing
  BY DEF Init, Held, Visiting, Failing
<1>2. Sound
  BY <1>1, FreshInv DEF Init, Sound
<1>3. Complete
  BY <1>1, FreshInv DEF Init, Complete
<1> QED BY <1>2, <1>3, InitType DEF IInv

\* The walk leaves a call as it is or begins a new one.
LEMMA WalkInv ==
  ASSUME IInv, asked' = asked,
         UNCHANGED checkerVars \/ \E a \in Indices : Types(a, asked.super)
  PROVE  Sound' /\ Complete'
<1>1. CASE UNCHANGED checkerVars
  <2>1. /\ Held' = Held /\ phase' = phase /\ at' = at /\ frames' = frames /\ pair' = pair
        /\ refuted' = refuted /\ (Failing' <=> Failing)
    BY <1>1 DEF checkerVars, Held, Visiting, Failing
  <2>2. Sound'
    BY <2>1, Constancy DEF IInv, Sound
  <2>3. Complete'
    BY <2>1, Constancy DEF IInv, Complete
  <2> QED BY <2>2, <2>3
<1>2. CASE \E a \in Indices : Types(a, asked.super)
  <2> PICK a \in Indices : Types(a, asked.super)
    BY <1>2
  <2> DEFINE b == asked.super
  <2>1. Held' = {} /\ phase' = "compare" /\ refuted' = {} /\ ~Failing' /\ frames' = << >>
        /\ pair' = <<a, b>> /\ at' = Goal("indices", a, b, NoGroup)
    BY DEF Types, Held, Visiting, Failing
  <2>2. Sound'
    BY <2>1, FreshInv, Constancy
  <2>3. Complete'
    BY <2>1, FreshInv, Constancy
  <2> QED BY <2>2, <2>3
<1> QED BY <1>1, <1>2

\* The invariant is inductive.
LEMMA Inductive == IInv /\ [Next]_vars => IInv'
<1> SUFFICES ASSUME IInv, [Next]_vars PROVE IInv'
  OBVIOUS
<1>1. CASE Check
  BY <1>1, CheckType, SoundCheck, CompleteCheck DEF IInv
<1>2. CASE Walk
  <2>1. asked' = asked /\ (UNCHANGED checkerVars \/ \E a \in Indices : Types(a, asked.super))
    <3>1. CASE TrySuper
      <4>1. Head(supers) \in Indices
        BY <3>1, RangeOfTail DEF TrySuper, IInv, TypeOK
      <4> QED BY <3>1, <4>1 DEF TrySuper
    <3> QED BY <1>2, <3>1 DEF Walk, Found, NotItself, Visit, NotThisSuper, Exhausted
  <2> QED BY <1>2, <2>1, WalkType, WalkInv DEF IInv
<1>3. CASE UNCHANGED vars
  BY <1>3, StutterType, WalkInv DEF IInv, vars
<1> QED BY <1>1, <1>2, <1>3 DEF Next

\* IInv is an invariant: every yes held is as good as what it still has to
\* establish, and every correspondence relates all that is left to compare.
THEOREM Invariance == Spec => []IInv
BY InitInv, Inductive, PTL DEF Spec
-----------------------------------------------------------------------------
(* What is remembered when a call of Types is over *)

Yes(K) == {p \in (DOMAIN A) \X (DOMAIN B) : Key("type", p[1], p[2]) \in K}
Finished(K) == \A k \in K : KeyFits(K, k) /\ \A g \in Duties(k) : Met(K, g)

\* A member that is met is related.
LEMMA MemberRelated ==
  ASSUME NEW K, Finished(K), NEW a, NEW b, MemberMet(K, a, b)
  PROVE  Related(Yes(K), a, b)
<1> SUFFICES ASSUME Key("type", a, b) \in K PROVE <<a, b>> \in Yes(K)
  BY DEF MemberMet, Related
<1>1. a \in DOMAIN A /\ b \in DOMAIN B
  BY DEF Finished, KeyFits, Key
<1> QED BY <1>1 DEF Yes

\* A remembered pair of groups is related member by member.
LEMMA GroupRelated ==
  ASSUME TypeOK, NEW K, Finished(K), NEW a \in Nat, NEW b \in Nat, SameSpot(a, b),
         RecGroupInfo(A, a).size > 1, GroupKey(a, b) \in K,
         NEW i \in Nat, i < RecGroupInfo(A, a).size
  PROVE  Related(Yes(K), RecGroupInfo(A, a).start + i, RecGroupInfo(B, b).start + i)
<1> DEFINE p == GroupPair(a, b)
           k == GroupKey(a, b)
<1>1. p = [a |-> RecGroupInfo(A, a).start, b |-> RecGroupInfo(B, b).start, size |-> RecGroupInfo(A, a).size]
  BY OwnGroup
<1>2. p \in GroupPairs /\ p.a \in Nat /\ p.b \in Nat /\ p.size \in Nat /\ 0 < p.size /\ i < p.size
  <2>1. p \in GroupPairs
    BY GroupPairType
  <2>2. p.a \in Nat /\ p.b \in Nat /\ p.size \in Nat
    BY <2>1 DEF GroupPairs
  <2>3. p.size = RecGroupInfo(A, a).size
    BY <1>1
  <2> HIDE DEF p
  <2> QED BY <2>1, <2>2, <2>3
<1>3. p.a + 0 = p.a /\ p.b + 0 = p.b
  BY <1>2
<1>4. k = Key("group", p.a, p.b) /\ GroupPair(p.a, p.b) = p
  BY <1>2, <1>3, GroupMembers
<1>5. Duties(k) = Range(Members(p))
  BY <1>4 DEF Duties, Key
<1>6. Goal("member", p.a + i, p.b + i, p) \in Range(Members(p))
  <2>1. i + 1 \in 1 .. p.size /\ p.a + (i + 1) - 1 = p.a + i /\ p.b + (i + 1) - 1 = p.b + i
    BY <1>2
  <2> HIDE DEF p
  <2>2. Members(p)[i + 1] = Goal("member", p.a + i, p.b + i, p) /\ i + 1 \in DOMAIN Members(p)
    BY <2>1 DEF Members
  <2> QED BY <2>2 DEF Range
<1>7. Met(K, Goal("member", p.a + i, p.b + i, p))
  BY <1>5, <1>6 DEF Finished
<1>8. MemberMet(K, p.a + i, p.b + i)
  BY <1>7 DEF Met, Goal
<1> QED BY <1>1, <1>8, MemberRelated

\* Indices that are met are related.
LEMMA IndicesRelated ==
  ASSUME TypeOK, NEW K, Finished(K), NEW a \in Nat, NEW b \in Nat, IndicesMet(K, a, b)
  PROVE  Related(Yes(K), a, b)
<1>1. CASE RecGroupInfo(A, a).size = 1
  BY <1>1, MemberRelated DEF IndicesMet
<1>2. CASE RecGroupInfo(A, a).size # 1
  <2>1. RecGroupInfo(A, a).size > 1 /\ SameSpot(a, b) /\ GroupKey(a, b) \in K
    BY <1>2, AskedType, GroupShape DEF IndicesMet
  <2> DEFINE g == GroupPair(a, b)
             i == RecGroupInfo(A, a).pos
  <2>2. /\ i \in Nat /\ i < RecGroupInfo(A, a).size
        /\ a = RecGroupInfo(A, a).start + i /\ b = RecGroupInfo(B, b).start + i
    BY <2>1, OwnGroup
  <2> QED BY <2>1, <2>2, GroupRelated
<1> QED BY <1>1, <1>2

\* The pairs of types remembered are a correspondence.
LEMMA KnownCorresponds ==
  ASSUME TypeOK, NEW K, Finished(K)
  PROVE  Correspondence(Yes(K))
<1> SUFFICES ASSUME NEW a \in DOMAIN A, NEW b \in DOMAIN B, Key("type", a, b) \in K
             PROVE  Corresponds(Yes(K), a, b)
  BY DEF Correspondence, Yes
<1> DEFINE k == Key("type", a, b)
           ga == RecGroupInfo(A, a)
           gb == RecGroupInfo(B, b)
<1>1. a \in Nat /\ b \in Nat /\ SameSpot(a, b) /\ Alike(a, b) /\ (ga.size > 1 => GroupKey(a, b) \in K)
  BY AskedType, SectionType DEF Finished, KeyFits, Key
<1>2. Duties(k) = Range(RefGoals(a, b, GroupPair(a, b)))
  BY DEF Duties, Key
<1>3. ASSUME NEW i \in DOMAIN Refs(A, a)
      PROVE  /\ ga.size > 1 => KeepTo(ga, gb, Refs(A, a)[i], Refs(B, b)[i])
             /\ Related(Yes(K), Refs(A, a)[i], Refs(B, b)[i])
  <2> DEFINE x == Refs(A, a)[i]
             y == Refs(B, b)[i]
             g == Goal("ref", x, y, GroupPair(a, b))
  <2>1. i \in 1 .. Len(Refs(A, a)) /\ x \in Nat /\ y \in Nat
    BY <1>1, AlikeRefs, PairsAssumption
  <2>2. g \in Duties(k)
    BY <1>2, <2>1 DEF RefGoals, Range
  <2>3. Met(K, g)
    BY <2>2 DEF Finished
  <2>4. SamePlace(GroupPair(a, b), x, y) /\ (MemberMet(K, x, y) \/ IndicesMet(K, x, y))
    BY <2>3 DEF Met, Goal
  <2> HIDE DEF x, y
  <2>5. Related(Yes(K), x, y) /\ (ga.size > 1 => KeepTo(ga, gb, x, y))
    BY <1>1, <2>1, <2>4, MemberRelated, IndicesRelated, KeepPlace
  <2> QED BY <2>5 DEF x, y
<1>4. ASSUME NEW i \in 0 .. (ga.size - 1) PROVE Related(Yes(K), ga.start + i, gb.start + i)
  <2>1. /\ ga \in [start : Nat, size : Nat, pos : Nat] /\ ga.size >= 1 /\ ga.pos < ga.size
        /\ a = ga.start + ga.pos
        /\ gb \in [start : Nat, size : Nat, pos : Nat] /\ b = gb.start + gb.pos
    BY <1>1, AskedType, GroupShape
  <2>2. i \in Nat /\ i < ga.size
    BY <2>1
  <2>3. CASE ga.size > 1
    BY <1>1, <2>2, <2>3, GroupRelated
  <2>4. CASE ga.size = 1
    <3>1. ga.start + i = a /\ gb.start + i = b
      BY <1>1, <2>1, <2>2, <2>4 DEF SameSpot
    <3>2. <<a, b>> \in Yes(K)
      BY DEF Yes
    <3> QED BY <3>1, <3>2 DEF Related
  <2> QED BY <2>1, <2>3, <2>4
<1> QED BY <1>1, <1>3, <1>4 DEF Corresponds, SameSpot

\* Where no type outside of groups refers to itself, a correspondence keeps to the groups of one too.
LEMMA GroupedAlready ==
  ASSUME TypeOK, ~SelfReferring(A), ~SelfReferring(B), NEW R, Correspondence(R)
  PROVE  Grouped(R)
<1> SUFFICES ASSUME NEW p \in R, NEW i \in DOMAIN Refs(A, p[1])
             PROVE  KeepTo(RecGroupInfo(A, p[1]), RecGroupInfo(B, p[2]), Refs(A, p[1])[i], Refs(B, p[2])[i])
  BY DEF Grouped
<1> DEFINE a == p[1]
           b == p[2]
           x == Refs(A, a)[i]
           y == Refs(B, b)[i]
           ga == RecGroupInfo(A, a)
           gb == RecGroupInfo(B, b)
<1>1. a \in DOMAIN A /\ b \in DOMAIN B /\ Corresponds(R, a, b)
  BY DEF Correspondence
<1>2. a \in Nat /\ b \in Nat /\ IsSection(A) /\ IsSection(B)
  BY <1>1, AskedType, SectionType
<1>3. /\ x \in Nat /\ y \in Nat /\ x \in Range(Refs(A, a)) /\ y \in Range(Refs(B, b))
  <2>1. /\ Refs(A, a) \in Seq(Indices) /\ Refs(B, b) \in Seq(Indices) /\ Len(Refs(A, a)) = Len(Refs(B, b))
    BY <1>1, AlikeRefs DEF Corresponds
  <2>2. i \in DOMAIN Refs(A, a) /\ i \in DOMAIN Refs(B, b)
    BY <2>1
  <2> QED BY <2>1, <2>2, PairsAssumption DEF Range
<1>4. /\ ga \in [start : Nat, size : Nat, pos : Nat] /\ ga.size >= 1 /\ ga.pos < ga.size /\ a = ga.start + ga.pos
      /\ gb \in [start : Nat, size : Nat, pos : Nat] /\ gb.pos < gb.size /\ b = gb.start + gb.pos
      /\ gb.size = ga.size
  BY <1>1, <1>2, GroupShape DEF Corresponds
<1>5. CASE ga.size > 1
  BY <1>1, <1>5 DEF Corresponds
<1>6. CASE ga.size = 1
  <2>1. x # a /\ y # b
    BY <1>1, <1>3, <1>4, <1>6 DEF SelfReferring
  <2>2. ga.start = a /\ gb.start = b
    BY <1>4, <1>6
  <2> HIDE DEF x, y, ga, gb
  <2>3. ~Inside(ga, x) /\ ~Inside(gb, y)
    BY <1>2, <1>3, <1>4, <1>6, <2>1, <2>2 DEF Inside
  <2> QED BY <2>3 DEF KeepTo, x, y, ga, gb
<1> QED BY <1>4, <1>5, <1>6

\* There, types that look the same are equivalent.
LEMMA EquivalentThen ==
  ASSUME TypeOK, ~SelfReferring(A), ~SelfReferring(B), NEW a, NEW b
  PROVE  Indistinguishable(a, b) <=> Equivalent(a, b)
BY GroupedAlready DEF Indistinguishable, Equivalent

\* An answer means what it should: a yes is backed by the comparisons
\* remembered, a no would have spared every correspondence.
LEMMA InvExact == IInv => TypesUnfolded
<1> SUFFICES ASSUME IInv, Answered PROVE answer <=> Indistinguishable(pair[1], pair[2])
  BY EquivalentThen DEF TypesUnfolded, IInv
<1>1. TypeOK /\ phase = "return" /\ DOMAIN frames = {} /\ pair[1] \in Nat /\ pair[2] \in Nat
  BY PairsAssumption DEF IInv, Answered, TypeOK
<1>2. Held = known
  BY <1>1 DEF Held, Visiting
<1>3. ASSUME answer PROVE Indistinguishable(pair[1], pair[2])
  <2>1. SoundIn(known, "return", at, frames, pair)
    BY <1>1, <1>2, <1>3 DEF IInv, Sound, Failing
  <2>2. Finished(known) /\ Met(known, Goal("indices", pair[1], pair[2], NoGroup))
    BY <1>1, <2>1 DEF SoundIn, Pending, Left, Finished
  <2>3. IndicesMet(known, pair[1], pair[2])
    BY <2>2 DEF Met, Goal
  <2>4. Related(Yes(known), pair[1], pair[2]) /\ Correspondence(Yes(known))
    BY <1>1, <2>2, <2>3, IndicesRelated, KnownCorresponds
  <2>5. Yes(known) \in SUBSET ((DOMAIN A) \X (DOMAIN B))
    BY DEF Yes
  <2> QED BY <2>4, <2>5 DEF Indistinguishable, Related
<1>4. ASSUME ~answer, Indistinguishable(pair[1], pair[2]) PROVE FALSE
  <2>1. ASSUME NEW R \in SUBSET ((DOMAIN A) \X (DOMAIN B)), Correspondence(R), Related(R, pair[1], pair[2])
        PROVE  FALSE
    BY <1>1, <1>4, <2>1 DEF IInv, Complete, Failing
  <2>2. CASE same /\ pair[1] = pair[2]
    <3>1. Correspondence({}) /\ Related({}, pair[1], pair[2])
      BY <2>2 DEF Correspondence, Related
    <3> QED BY <2>1, <3>1
  <2> QED BY <1>4, <2>1, <2>2 DEF Indistinguishable, Related
<1> QED BY <1>1, <1>3, <1>4 DEF TypeOK

\* TypesUnfolded is an invariant: whatever the graphs of types, whatever cycles
\* they have and however large they are, Types answers yes exactly for types that
\* look the same, and for equivalent ones if no type outside of groups refers to itself.
THEOREM Exactness == Spec => []TypesUnfolded
BY Invariance, InvExact, PTL
-----------------------------------------------------------------------------
(* The walk over declared supertypes *)

\* Taking a sequence apart at its end, and putting one more at it.
LEMMA RangeOfFront ==
  ASSUME NEW S, NEW s \in Seq(S), s # << >>
  PROVE  Range(s) = Range(Front(s)) \cup {Last(s)}
<1>1. /\ Front(s) \in Seq(S) /\ Len(Front(s)) = Len(s) - 1 /\ Last(s) = s[Len(s)]
      /\ \A k \in 1 .. Len(s) - 1 : Front(s)[k] = s[k]
  BY FrontOf
<1>2. Len(s) \in Nat /\ DOMAIN s = 1 .. Len(s) /\ DOMAIN Front(s) = 1 .. Len(s) - 1 /\ Len(s) \in DOMAIN s
  BY <1>1, FrontOf
<1>3. \A k \in DOMAIN s : k \in DOMAIN Front(s) \/ k = Len(s)
  BY <1>2
<1>4. \A k \in DOMAIN Front(s) : k \in DOMAIN s /\ Front(s)[k] = s[k]
  BY <1>1, <1>2
<1> QED BY <1>1, <1>2, <1>3, <1>4 DEF Range

LEMMA RangeOfAppend ==
  ASSUME NEW S, NEW s \in Seq(S), NEW x \in S
  PROVE  Range(Append(s, x)) = Range(s) \cup {x}
<1>1. /\ Append(s, x) \in Seq(S) /\ Len(Append(s, x)) = Len(s) + 1 /\ Append(s, x)[Len(s) + 1] = x
      /\ \A k \in 1 .. Len(s) : Append(s, x)[k] = s[k]
  OBVIOUS
<1>2. Len(s) \in Nat /\ DOMAIN s = 1 .. Len(s) /\ DOMAIN Append(s, x) = 1 .. Len(s) + 1
  BY <1>1
<1>3. \A k \in DOMAIN Append(s, x) : k \in DOMAIN s \/ k = Len(s) + 1
  BY <1>2
<1>4. \A k \in DOMAIN s : k \in DOMAIN Append(s, x) /\ Append(s, x)[k] = s[k]
  BY <1>1, <1>2
<1>5. Len(s) + 1 \in DOMAIN Append(s, x)
  BY <1>2
<1> QED BY <1>1, <1>3, <1>4, <1>5 DEF Range

\* Pursuit with what it depends on besides the question as parameters.
PursuitIn(visited, behind, pursued) ==
  /\ asked.sub \in DOMAIN A /\ asked.super \in DOMAIN B
  /\ asked.sub \in behind
  /\ pursued \subseteq Ancestors(asked.sub)
  /\ \A i \in behind : ~Indistinguishable(i, asked.super)
  /\ \A i \in visited \cap DOMAIN A : Range(A[i].supers) \subseteq pursued \cup (Indices \ DOMAIN A)

ExactIn(st) ==
  st \in {"yes", "no"} =>
    (st = "yes" <=>
       \/ Indistinguishable(asked.sub, asked.super)
       \/ /\ asked.sub \in DOMAIN A /\ asked.super \in DOMAIN B
          /\ \E i \in Ancestors(asked.sub) : Indistinguishable(i, asked.super))

\* As long as the question stays, which types look the same and who the ancestors are do too.
LEMMA WalkConstancy ==
  ASSUME asked' = asked
  PROVE  /\ Pursuit' <=> PursuitIn(seen', Behind', Pursued')
         /\ SubtypeExact' <=> ExactIn(stage')
<1>1. A' = A /\ B' = B /\ same' = same
  BY DEF A, B, same
<1>2. \A a, b : Indistinguishable(a, b)' <=> Indistinguishable(a, b)
  BY <1>1 DEF Indistinguishable, Correspondence, Corresponds, Alike, Refs, KeepTo, Inside, Related
<1>3. Ancestors(asked.sub)' = Ancestors(asked.sub)
  BY <1>1 DEF Ancestors, Closed
<1> USE <1>1, <1>2, <1>3
<1>4. Pursuit' <=> PursuitIn(seen', Behind', Pursued')
  BY DEF Pursuit, PursuitIn
<1>5. SubtypeExact' <=> ExactIn(stage')
  BY DEF SubtypeExact, ExactIn
<1> QED BY <1>4, <1>5

\* A type is its own ancestor, and the supertypes of an ancestor are ancestors.
LEMMA AncestorsClosed ==
  ASSUME NEW i \in Indices
  PROVE  /\ i \in Ancestors(i) /\ Ancestors(i) \subseteq Indices
         /\ \A j \in Ancestors(i) \cap DOMAIN A :
              A[j].supers \in Seq(Indices) => Range(A[j].supers) \subseteq Ancestors(i)
<1>1. i \in Ancestors(i) /\ Ancestors(i) \subseteq Indices
  BY DEF Ancestors
<1>2. ASSUME NEW j \in Ancestors(i), j \in DOMAIN A, A[j].supers \in Seq(Indices), NEW k \in DOMAIN A[j].supers
      PROVE  A[j].supers[k] \in Ancestors(i)
  <2>1. A[j].supers[k] \in Indices
    BY <1>2
  <2>2. ASSUME NEW S \in SUBSET Indices, i \in S, Closed(S) PROVE A[j].supers[k] \in S
    BY <1>2, <2>2 DEF Ancestors, Closed
  <2> QED BY <2>1, <2>2 DEF Ancestors
<1> QED BY <1>1, <1>2 DEF Range

\* A closed set with the type in it holds all its ancestors.
LEMMA AncestorsLeast ==
  ASSUME NEW i, NEW S \in SUBSET Indices, i \in S, Closed(S)
  PROVE  Ancestors(i) \subseteq S
BY DEF Ancestors

\* What is out of range looks like nothing that is in range.
LEMMA OutOfRange ==
  ASSUME TypeOK, NEW a, NEW b \in DOMAIN B, Indistinguishable(a, b)
  PROVE  a \in DOMAIN A
BY AskedType DEF Indistinguishable

\* The walk holds when a question is asked.
LEMMA InitWalked == Init => Walked
BY DEF Init, Walked, Waiting, SubtypeExact

\* A step that leaves the walk alone, and stays with the comparison it waits for.
LEMMA WalkedCheck ==
  ASSUME Walked, asked' = asked, pair' = pair, UNCHANGED walkVars
  PROVE  Walked'
<1>1. Behind' = Behind /\ Pursued' = Pursued /\ seen' = seen /\ stage' = stage
  BY DEF walkVars, Behind, Pursued
<1>2. (stage' \in {"walk", "super"} => Pursuit') /\ SubtypeExact'
  BY <1>1, WalkConstancy DEF Walked, Pursuit, PursuitIn, SubtypeExact, ExactIn
<1>3. Waiting'
  BY <1>1 DEF Walked, Waiting, walkVars
<1> QED BY <1>2, <1>3 DEF Walked

\* A type is found: the type itself, or an ancestor of it.
LEMMA WalkedFound ==
  ASSUME IInv, Walked, Found
  PROVE  Walked'
<1>1. asked' = asked /\ stage' = "yes" /\ answer /\ stage \in {"itself", "super"} /\ pair[2] = asked.super
  BY DEF Found, Walked, Waiting
<1>2. Indistinguishable(pair[1], asked.super)
  BY <1>1, InvExact DEF Found, TypesUnfolded
<1>3. ExactIn("yes")
  <2>1. CASE stage = "itself"
    BY <1>2, <2>1 DEF Walked, Waiting, ExactIn
  <2>2. CASE stage = "super"
    <3>1. Pursuit /\ pair[1] \in Pursued
      BY <2>2 DEF Walked, Pursued
    <3> QED BY <1>2, <3>1 DEF ExactIn, Pursuit
  <2> QED BY <1>1, <2>1, <2>2
<1> QED BY <1>1, <1>3, WalkConstancy DEF Walked, Waiting

\* The type itself is not the one: the walk begins with it, or is over when
\* one of the two is out of range.
LEMMA WalkedNotItself ==
  ASSUME IInv, Walked, NotItself
  PROVE  Walked'
<1>1. asked' = asked /\ stage = "itself" /\ seen' = seen /\ supers' = supers /\ ~Indistinguishable(asked.sub, asked.super)
  BY InvExact DEF NotItself, TypesUnfolded, Walked, Waiting
<1>2. TypeOK
  BY DEF IInv
<1>3. CASE asked.sub \notin DOMAIN A \/ asked.super \notin DOMAIN B
  <2>1. stage' = "no"
    BY <1>3 DEF NotItself
  <2>2. ExactIn("no")
    BY <1>1, <1>3 DEF ExactIn
  <2> QED BY <1>1, <2>1, <2>2, WalkConstancy DEF Walked, Waiting
<1>4. CASE asked.sub \in DOMAIN A /\ asked.super \in DOMAIN B
  <2>1. stage' = "walk" /\ stack' = <<asked.sub>>
    BY <1>4 DEF NotItself
  <2>2. Range(<<asked.sub>>) = {asked.sub}
    BY DEF Range
  <2>3. seen = {} /\ supers = << >>
    BY <1>1, Zenon DEF Walked, Waiting
  <2>4. Behind' = {asked.sub} /\ Pursued' = {asked.sub}
    BY <1>1, <2>1, <2>2, <2>3 DEF Behind, Pursued, Range
  <2>5. PursuitIn({}, {asked.sub}, {asked.sub})
    BY <1>1, <1>2, <1>4, AskedType, AncestorsClosed DEF PursuitIn
  <2> QED BY <1>1, <2>1, <2>3, <2>4, <2>5, WalkConstancy DEF Walked, Waiting, ExactIn
<1> QED BY <1>3, <1>4

\* A type is taken from the stack: it has been visited, is out of range, or its
\* supertypes are next.
LEMMA WalkedVisit ==
  ASSUME IInv, Walked, Visit
  PROVE  Walked'
<1> DEFINE i == Last(stack)
           rest == Front(stack)
<1>1. asked' = asked /\ stage = "walk" /\ stack' = rest /\ supers = << >> /\ Pursuit
  BY DEF Visit, Walked
<1>2. TypeOK /\ stack \in Seq(Indices) /\ stack # << >> /\ i \in Indices /\ asked.super \in DOMAIN B
  BY <1>1, FrontOf DEF IInv, TypeOK, Visit, Pursuit
<1>3. Range(stack) = Range(rest) \cup {i} /\ i \in Behind
  BY <1>2, RangeOfFront DEF Behind
<1>4. Range(supers) = {}
  BY <1>1 DEF Range
<1>5. Pursued = Behind
  BY <1>1, <1>4 DEF Pursued
<1>6. CASE Skipped(i)
  <2>1. stage' = "walk" /\ seen' = seen /\ supers' = supers
    BY <1>1, <1>6 DEF Visit
  <2>2. i \in seen \/ i \in Indices \ DOMAIN A
    BY <1>2, <1>6 DEF Skipped
  <2>3. /\ Behind' \subseteq Behind /\ Behind \subseteq Behind' \cup (Indices \ DOMAIN A)
        /\ Pursued' = Behind'
    <3>1. Range(supers') = {}
      BY <1>4, <2>1
    <3> QED BY <1>1, <1>3, <2>1, <2>2, <3>1 DEF Behind, Pursued
  <2>4. PursuitIn(seen, Behind', Behind')
    BY <1>1, <1>5, <2>3 DEF Pursuit, PursuitIn
  <2> QED BY <1>1, <2>1, <2>3, <2>4, WalkConstancy DEF Walked, Waiting, ExactIn
<1>7. CASE ~Skipped(i) /\ i \in DOMAIN A
  <2>1. stage' = "walk" /\ seen' = seen \cup {i} /\ supers' = A[i].supers
    BY <1>1, <1>7 DEF Visit
  <2>2. Behind' = Behind /\ Pursued' = Behind \cup Range(A[i].supers)
    BY <1>1, <1>3, <2>1 DEF Behind, Pursued
  <2>3. A[i].supers \in Seq(Indices)
    BY <1>2, <1>7, AskedType, SectionType
  <2>4. Range(A[i].supers) \subseteq Ancestors(asked.sub)
    <3>1. i \in Ancestors(asked.sub) /\ asked.sub \in Indices
      BY <1>1, <1>2, <1>3, <1>5, AskedType DEF Pursuit
    <3> QED BY <1>7, <2>3, <3>1, AncestorsClosed
  <2>5. PursuitIn(seen \cup {i}, Behind, Behind \cup Range(A[i].supers))
    BY <1>1, <1>5, <2>4 DEF Pursuit, PursuitIn
  <2> QED BY <1>1, <2>1, <2>2, <2>5, WalkConstancy DEF Walked, Waiting, ExactIn
<1>8. CASE ~Skipped(i) /\ i \notin DOMAIN A
  <2>1. stage' = "panic"
    BY <1>8 DEF Visit
  <2> QED BY <1>1, <2>1, WalkConstancy DEF Walked, Waiting, ExactIn
<1> QED BY <1>6, <1>7, <1>8

\* The next supertype is compared.
LEMMA WalkedTrySuper ==
  ASSUME IInv, Walked, TrySuper
  PROVE  Walked'
<1>1. /\ asked' = asked /\ stage = "walk" /\ stage' = "super" /\ seen' = seen /\ stack' = stack
      /\ pair' = <<Head(supers), asked.super>> /\ supers' = Tail(supers) /\ supers # << >> /\ Pursuit
  BY DEF TrySuper, Types, Walked
<1>2. supers \in Seq(Indices)
  BY DEF IInv, TypeOK
<1>3. Range(supers) = Range(Tail(supers)) \cup {Head(supers)}
  BY <1>1, <1>2, RangeOfTail
<1>4. Behind' = Behind /\ Pursued' = Pursued
  BY <1>1, <1>3 DEF Behind, Pursued
<1>5. PursuitIn(seen, Behind, Pursued)
  BY <1>1 DEF Pursuit, PursuitIn
<1> QED BY <1>1, <1>4, <1>5, WalkConstancy DEF Walked, Waiting, ExactIn

\* The supertype is not the one: its own supertypes are to be visited.
LEMMA WalkedNotThisSuper ==
  ASSUME IInv, Walked, NotThisSuper
  PROVE  Walked'
<1>1. /\ asked' = asked /\ stage = "super" /\ stage' = "walk" /\ seen' = seen /\ supers' = supers
      /\ pair' = pair /\ stack' = Append(stack, pair[1]) /\ pair[2] = asked.super /\ Pursuit
  BY DEF NotThisSuper, Walked, Waiting, checkerVars
<1>2. ~Indistinguishable(pair[1], asked.super)
  BY <1>1, InvExact DEF NotThisSuper, TypesUnfolded
<1>3. Range(stack') = Range(stack) \cup {pair[1]}
  <2>1. stack \in Seq(Indices) /\ pair[1] \in Indices
    BY DEF IInv, TypeOK
  <2> QED BY <1>1, <2>1, RangeOfAppend
<1>4. Behind' = Behind \cup {pair[1]} /\ Pursued' = Pursued
  BY <1>1, <1>3 DEF Behind, Pursued
<1>5. PursuitIn(seen, Behind \cup {pair[1]}, Pursued)
  BY <1>1, <1>2 DEF Pursuit, PursuitIn
<1> QED BY <1>1, <1>4, <1>5, WalkConstancy DEF Walked, Waiting, ExactIn

\* Nothing is left: the types visited and those out of range are closed under
\* supertypes, so no ancestor was missed.
LEMMA WalkedExhausted ==
  ASSUME IInv, Walked, Exhausted
  PROVE  Walked'
<1>1. asked' = asked /\ stage = "walk" /\ stage' = "no" /\ supers = << >> /\ stack = << >> /\ Pursuit
  BY DEF Exhausted, Walked
<1>2. TypeOK
  BY DEF IInv
<1>3. Behind = seen /\ Pursued = seen
  BY <1>1 DEF Behind, Pursued, Range
<1> DEFINE S == seen \cup (Indices \ DOMAIN A)
<1>4. S \in SUBSET Indices /\ asked.sub \in S
  BY <1>1, <1>2, <1>3 DEF TypeOK, Pursuit
<1>5. Closed(S)
  <2> SUFFICES ASSUME NEW i \in S, i \in DOMAIN A, NEW j \in DOMAIN A[i].supers
               PROVE  A[i].supers[j] \in S
    BY DEF Closed
  <2>1. Range(A[i].supers) \subseteq S
    BY <1>1, <1>3 DEF Pursuit
  <2> QED BY <2>1 DEF Range
<1>6. ASSUME NEW i \in Ancestors(asked.sub) PROVE ~Indistinguishable(i, asked.super)
  <2>1. i \in S
    BY <1>4, <1>5, AncestorsLeast
  <2> QED BY <1>1, <1>2, <1>3, <2>1, OutOfRange DEF Pursuit
<1>7. ~Indistinguishable(asked.sub, asked.super)
  BY <1>1 DEF Pursuit
<1>8. ExactIn("no")
  BY <1>6, <1>7 DEF ExactIn
<1> QED BY <1>1, <1>8, WalkConstancy DEF Walked, Waiting

\* The walk's invariant is inductive, given that every call of Types is exact.
LEMMA WalkedStep == IInv /\ Walked /\ [Next]_vars => Walked'
<1> SUFFICES ASSUME IInv, Walked, [Next]_vars PROVE Walked'
  OBVIOUS
<1>1. CASE Check \/ UNCHANGED vars
  <2>1. asked' = asked /\ pair' = pair /\ UNCHANGED walkVars
    BY <1>1 DEF Check, Resume, CompareRef, CompareIndices, CompareMember, Recall, Suppose, Enter, Return,
                vars, checkerVars
  <2> QED BY <2>1, WalkedCheck
<1>2. CASE Walk
  BY <1>2, WalkedFound, WalkedNotItself, WalkedVisit, WalkedTrySuper, WalkedNotThisSuper, WalkedExhausted DEF Walk
<1> QED BY <1>1, <1>2 DEF Next

\* SubtypeExact is an invariant: whatever supertypes are declared, in circles,
\* twice or out of range, the walk answers yes exactly if the type or one of its
\* ancestors looks the same as the one asked for.
THEOREM Subtyping == Spec => []SubtypeExact
<1>1. Walked => SubtypeExact
  BY DEF Walked
<1> QED BY <1>1, InitWalked, WalkedStep, Invariance, PTL DEF Spec
=============================================================================
