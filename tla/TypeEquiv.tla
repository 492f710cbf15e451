------------------------------ MODULE TypeEquiv ------------------------------
(***************************************************************************)
(* Equivalence and declared subtyping of WebAssembly types:                *)
(* internal/typeequiv, and the walk of the validator over the same graph.  *)
(*                                                                         *)
(* Types compares two graphs of types depth first. A comparison in         *)
(* progress is a frame with what is left to compare in todo; meeting it    *)
(* again answers yes, and finished comparisons are remembered. One call    *)
(* of Types has a checker of its own. TypeSubtype and isTypeIndexSubtype   *)
(* walk up the declared supertypes and call Types for each.                *)
(*                                                                         *)
(* A type definition is reduced to its shape (kind, arity, mutability,     *)
(* everything that is compared without following an index), its declared   *)
(* supertypes, and the indices it refers to, in order.                     *)
(***************************************************************************)
EXTENDS Naturals, Sequences, SequencesExt

CONSTANTS
  Indices,     \* the type indices that occur, in range or not
  Shapes,
  ModulePairs  \* the pairs <<A, B, same>> compared; same: one module, not two

TypeDefs == [shape : Shapes, supers : Seq(Indices), refs : Seq(Indices), group : Nat]

\* Recursion groups lie one after another within the section (the decoder and
\* the lowering put the size of a group in its first entry).
IsSection(m) ==
  /\ DOMAIN m \subseteq Indices
  /\ m \in [DOMAIN m -> TypeDefs]
  /\ \A s \in DOMAIN m : \A i \in (s + 1)..(s + m[s].group - 1) :
       i \in DOMAIN m /\ m[i].group = 0

\* A shape fixes the number of indices.
ShapesFixLength(A, B) ==
  \A a \in DOMAIN A, b \in DOMAIN B :
     A[a].shape = B[b].shape => Len(A[a].refs) = Len(B[b].refs)

ASSUME PairsAssumption ==
  /\ Indices \subseteq Nat
  /\ \A p \in ModulePairs :
       /\ p = <<p[1], p[2], p[3]>> /\ p[3] \in BOOLEAN
       /\ IsSection(p[1]) /\ IsSection(p[2]) /\ ShapesFixLength(p[1], p[2])
       /\ p[3] => p[1] = p[2]

VARIABLES
  asked,    \* the question: which function, which modules, which two types
  pair,     \* the arguments of the call of Types in progress
  at,       \* the comparison about to be made
  frames,   \* the comparisons in progress, outermost first
  known,    \* memo: finished comparisons that said yes
  refuted,  \* memo: finished comparisons that said no
  phase,    \* "compare": at is next; "return": answer goes to the innermost frame
  answer,
  stage,    \* of the walk over supertypes, and its result
  stack,    \* worklist of the walk
  seen,
  supers    \* supertypes of the type under visit not yet compared

checkerVars == <<pair, at, frames, known, refuted, phase, answer>>
walkVars == <<stage, stack, seen, supers>>
vars == <<asked, checkerVars, walkVars>>

A == asked.pair[1]
B == asked.pair[2]
same == asked.pair[3]
-----------------------------------------------------------------------------
(* Recursion groups *)

Covers(m, s, i) == s <= i /\ i < s + m[s].group

\* The group of type i: a type outside of any is a group of its own.
RecGroupInfo(m, i) ==
  IF i \in DOMAIN m /\ \E s \in DOMAIN m : Covers(m, s, i)
  THEN LET s == CHOOSE s \in DOMAIN m :
                  Covers(m, s, i) /\ \A t \in DOMAIN m : Covers(m, t, i) => t <= s
       IN  [start |-> s, size |-> m[s].group, pos |-> i - s]
  ELSE [start |-> i, size |-> 1, pos |-> 0]

\* The pair of groups that a comparison takes place in; NoGroup outside of
\* groups of several types.
NoGroup == [a |-> 0, b |-> 0, size |-> 0]
GroupPair(a, b) ==
  IF RecGroupInfo(A, a).size > 1
  THEN [a |-> RecGroupInfo(A, a).start, b |-> RecGroupInfo(B, b).start,
        size |-> RecGroupInfo(A, a).size]
  ELSE NoGroup

InA(g, a) == g.a <= a /\ a < g.a + g.size
InB(g, b) == g.b <= b /\ b < g.b + g.size

\* References under a pair of groups: both lead into their group, to the same
\* position, or both lead out of it.
SamePlace(g, a, b) ==
  InA(g, a) \/ InB(g, b) => InA(g, a) /\ InB(g, b) /\ a - g.a = b - g.b
-----------------------------------------------------------------------------
(* One call of Types *)

Goal(how, a, b, g) == [how |-> how, a |-> a, b |-> b, group |-> g]
Key(kind, a, b) == <<kind, a, b>>
Visiting == {frames[i].key : i \in DOMAIN frames}

\* newChecker, then typeIndicesEquivalent.
Types(a, b) ==
  /\ pair' = <<a, b>>
  /\ at' = Goal("indices", a, b, NoGroup)
  /\ phase' = "compare"
  /\ frames' = << >> /\ known' = {} /\ refuted' = {} /\ answer' = FALSE

Answered == phase = "return" /\ frames = << >>

Return(v) ==
  /\ phase' = "return" /\ answer' = v
  /\ UNCHANGED <<pair, at, frames, known, refuted>>

\* What a type definition refers to: supertypes first.
Refs(m, i) == m[i].supers \o m[i].refs

Alike(a, b) ==
  A[a].shape = B[b].shape /\ Len(A[a].supers) = Len(B[b].supers)

\* Mutant: counts the members from one before the first.
MembersFromBefore(g) == [i \in 1..g.size |-> Goal("member", g.a + i - 2, g.b + i - 2, g)]

Members(g) == [i \in 1..g.size |-> Goal("member", g.a + i - 1, g.b + i - 1, g)]
RefGoals(a, b, g) ==
  [i \in 1..Len(Refs(A, a)) |-> Goal("ref", Refs(A, a)[i], Refs(B, b)[i], g)]

\* The memo and the comparisons in progress, the same for groups and types.
Recall(key) == key \in known \cup refuted /\ Return(key \in known)
\* Mutant: a comparison in progress answers no.
SupposeNot(key) == key \notin known \cup refuted /\ key \in Visiting /\ Return(FALSE)

Suppose(key) == key \notin known \cup refuted /\ key \in Visiting /\ Return(TRUE)
Fresh(key) == key \notin known \cup refuted \cup Visiting
Enter(key, todo) ==
  /\ frames' = Append(frames, [key |-> key, todo |-> todo])
  /\ phase' = "return" /\ answer' = TRUE
  /\ UNCHANGED <<pair, at, known, refuted>>

\* typeIndexRefsEquivalentInGroup; outside of groups every reference is
\* compared by typeIndicesEquivalent.
CompareRef ==
  /\ at.how = "ref"
  /\ \/ ~SamePlace(at.group, at.a, at.b) /\ Return(FALSE)
     \/ /\ SamePlace(at.group, at.a, at.b)
        /\ at' = IF InA(at.group, at.a) THEN [at EXCEPT !.how = "member"]
                 ELSE Goal("indices", at.a, at.b, NoGroup)
        /\ UNCHANGED <<pair, frames, known, refuted, phase, answer>>

\* typeIndicesEquivalent
CompareIndices ==
  LET ga == RecGroupInfo(A, at.a)
      gb == RecGroupInfo(B, at.b)
      key == Key("group", ga.start, gb.start)
  IN  /\ at.how = "indices"
      /\ \/ /\ ga.pos # gb.pos \/ ga.size # gb.size
            /\ Return(FALSE)
         \/ /\ ga.pos = gb.pos /\ ga.size = gb.size /\ ga.size > 1
            /\ \/ Recall(key)
               \/ Suppose(key)
               \/ Fresh(key) /\ Enter(key, Members(GroupPair(at.a, at.b)))
         \/ /\ ga.pos = gb.pos /\ ga.size = gb.size /\ ga.size = 1
            /\ at' = Goal("member", at.a, at.b, NoGroup)
            /\ UNCHANGED <<pair, frames, known, refuted, phase, answer>>

\* typeIndicesEquivalentInGroup and, under NoGroup, typeIndicesEquivalentBody.
CompareMember ==
  LET key == Key("type", at.a, at.b)
      one == same /\ at.a = at.b /\ at.group.a = at.group.b
      found == at.a \in DOMAIN A /\ at.b \in DOMAIN B
  IN  /\ at.how = "member"
      /\ \/ one /\ Return(TRUE)
         \/ ~one /\ ~found /\ Return(FALSE)
         \/ /\ ~one /\ found
            /\ \/ Recall(key)
               \/ Suppose(key)
               \/ /\ Fresh(key) /\ ~Alike(at.a, at.b)
                  /\ refuted' = refuted \cup {key}
                  /\ phase' = "return" /\ answer' = FALSE
                  /\ UNCHANGED <<pair, at, frames, known>>
               \/ Fresh(key) /\ Alike(at.a, at.b) /\ Enter(key, RefGoals(at.a, at.b, at.group))

\* The innermost comparison takes an answer: it goes on with the next goal,
\* or is over.
Resume ==
  /\ phase = "return" /\ frames # << >>
  /\ LET top == Last(frames)
     IN  \/ /\ answer /\ top.todo # << >>
            /\ at' = Head(top.todo)
            /\ frames' = Append(Front(frames), [top EXCEPT !.todo = Tail(top.todo)])
            /\ phase' = "compare"
            /\ UNCHANGED <<pair, known, refuted, answer>>
         \/ /\ answer /\ top.todo = << >>
            /\ known' = known \cup {top.key}
            /\ frames' = Front(frames)
            /\ UNCHANGED <<pair, at, refuted, phase, answer>>
         \/ /\ ~answer
            /\ refuted' = refuted \cup {top.key}
            /\ frames' = Front(frames)
            /\ UNCHANGED <<pair, at, known, phase, answer>>

Check ==
  /\ \/ phase = "compare" /\ (CompareRef \/ CompareIndices \/ CompareMember)
     \/ Resume
  /\ UNCHANGED <<asked, walkVars>>
-----------------------------------------------------------------------------
(* The walk over declared supertypes *)

\* The type itself is compared first.
Found ==
  /\ stage \in {"itself", "super"} /\ Answered /\ answer
  /\ stage' = "yes"
  /\ UNCHANGED <<asked, checkerVars, stack, seen, supers>>

NotItself ==
  /\ stage = "itself" /\ Answered /\ ~answer
  /\ \/ /\ asked.sub \notin DOMAIN A \/ asked.super \notin DOMAIN B
        /\ stage' = "no" /\ UNCHANGED stack
     \/ /\ asked.sub \in DOMAIN A /\ asked.super \in DOMAIN B
        /\ stage' = "walk" /\ stack' = <<asked.sub>>
  /\ UNCHANGED <<asked, checkerVars, seen, supers>>

\* Mutant: does not skip what it has seen.
SkippedUnseen(i) == asked.how = "TypeSubtype" /\ i \notin DOMAIN A

\* TypeSubtype skips an index out of range, isTypeIndexSubtype looks it up.
Skipped(i) == i \in seen \/ (asked.how = "TypeSubtype" /\ i \notin DOMAIN A)

Visit ==
  /\ stage = "walk" /\ supers = << >> /\ stack # << >>
  /\ stack' = Front(stack)
  /\ LET i == Last(stack)
     IN  \/ Skipped(i) /\ UNCHANGED <<stage, seen, supers>>
         \/ /\ ~Skipped(i) /\ i \in DOMAIN A
            /\ seen' = seen \cup {i} /\ supers' = A[i].supers
            /\ UNCHANGED stage
         \/ /\ ~Skipped(i) /\ i \notin DOMAIN A
            /\ seen' = seen \cup {i}
            /\ stage' = "panic" /\ UNCHANGED supers
  /\ UNCHANGED <<asked, checkerVars>>

TrySuper ==
  /\ stage = "walk" /\ supers # << >>
  /\ Types(Head(supers), asked.super)
  /\ supers' = Tail(supers) /\ stage' = "super"
  /\ UNCHANGED <<asked, stack, seen>>

\* Mutant: does not go on to the supertypes of a supertype.
NotThisSuperNorItsOwn ==
  /\ stage = "super" /\ Answered /\ ~answer
  /\ stage' = "walk"
  /\ UNCHANGED <<asked, checkerVars, stack, seen, supers>>

NotThisSuper ==
  /\ stage = "super" /\ Answered /\ ~answer
  /\ stack' = Append(stack, pair[1]) /\ stage' = "walk"
  /\ UNCHANGED <<asked, checkerVars, seen, supers>>

Exhausted ==
  /\ stage = "walk" /\ supers = << >> /\ stack = << >>
  /\ stage' = "no"
  /\ UNCHANGED <<asked, checkerVars, stack, seen, supers>>

Walk == Found \/ NotItself \/ Visit \/ TrySuper \/ NotThisSuper \/ Exhausted

\* isTypeIndexSubtype is about one module.
Questions ==
  {q \in [how : {"TypeSubtype", "isTypeIndexSubtype"}, pair : ModulePairs, sub : Indices, super : Indices] :
     q.how = "isTypeIndexSubtype" => q.pair[3]}

Init ==
  /\ asked \in Questions
  /\ pair = <<asked.sub, asked.super>>
  /\ at = Goal("indices", asked.sub, asked.super, NoGroup)
  /\ phase = "compare"
  /\ frames = << >> /\ known = {} /\ refuted = {} /\ answer = FALSE
  /\ stage = "itself" /\ stack = << >> /\ seen = {} /\ supers = << >>

Next == Check \/ Walk

Spec == Init /\ [][Next]_vars

\* A call is one Go function that runs to its end.
FairSpec == Spec /\ WF_vars(Next)
-----------------------------------------------------------------------------
(* What the answers mean *)

\* A relation between the types of A and B is a correspondence if related types
\* are alike and what they refer to is related in turn. Types of one module
\* correspond to themselves. Types of a group of several correspond as a
\* group, position by position, and their references keep to it: a reference
\* into the group corresponds only to one to the same position of the other group.
Related(R, a, b) == <<a, b>> \in R \/ (same /\ a = b)

Inside(g, i) == i \in g.start..(g.start + g.size - 1)
KeepTo(ga, gb, x, y) ==
  \/ ~Inside(ga, x) /\ ~Inside(gb, y)
  \/ Inside(ga, x) /\ Inside(gb, y) /\ x - ga.start = y - gb.start

Corresponds(R, a, b) ==
  LET ga == RecGroupInfo(A, a)
      gb == RecGroupInfo(B, b)
  IN  /\ ga.pos = gb.pos /\ ga.size = gb.size
      /\ Alike(a, b)
      /\ \A i \in DOMAIN Refs(A, a) :
            /\ ga.size > 1 => KeepTo(ga, gb, Refs(A, a)[i], Refs(B, b)[i])
            /\ Related(R, Refs(A, a)[i], Refs(B, b)[i])
      /\ \A i \in 0..(ga.size - 1) : Related(R, ga.start + i, gb.start + i)

Correspondence(R) ==
  R \subseteq (DOMAIN A) \X (DOMAIN B) /\ \A p \in R : Corresponds(R, p[1], p[2])

\* A type outside of groups, followed through its references, looks the same as the
\* other: a reference to itself, and one to another type that looks like it, do too.
Indistinguishable(a, b) ==
  \/ same /\ a = b
  \/ \E R \in SUBSET ((DOMAIN A) \X (DOMAIN B)) : <<a, b>> \in R /\ Correspondence(R)

\* A type outside of groups is a group of one, which its references keep to
\* like those of every group.
Grouped(R) ==
  \A p \in R : \A i \in DOMAIN Refs(A, p[1]) :
     KeepTo(RecGroupInfo(A, p[1]), RecGroupInfo(B, p[2]), Refs(A, p[1])[i], Refs(B, p[2])[i])
Equivalent(a, b) ==
  \/ same /\ a = b
  \/ \E R \in SUBSET ((DOMAIN A) \X (DOMAIN B)) : <<a, b>> \in R /\ Correspondence(R) /\ Grouped(R)

\* Some type outside of groups, or in a group of its own, refers to itself.
SelfReferring(m) == \E i \in DOMAIN m : RecGroupInfo(m, i).size = 1 /\ i \in Range(Refs(m, i))

\* The supertypes of i, declared by it or by a supertype of it.
Closed(S) == \A i \in S \cap DOMAIN A : \A j \in DOMAIN A[i].supers : A[i].supers[j] \in S
Ancestors(i) == {j \in Indices : \A S \in SUBSET Indices : i \in S /\ Closed(S) => j \in S}

Keys == {"group", "type"} \X Nat \X Nat
GroupPairs == [a : Nat, b : Nat, size : Nat]
Goals == [how : {"indices", "ref", "member"}, a : Nat, b : Nat, group : GroupPairs]

TypeOK ==
  /\ asked \in Questions
  /\ pair \in Indices \X Indices
  /\ at \in Goals
  /\ frames \in Seq([key : Keys, todo : Seq(Goals)])
  /\ known \subseteq Keys /\ refuted \subseteq Keys
  /\ phase \in {"compare", "return"} /\ answer \in BOOLEAN
  /\ stage \in {"itself", "walk", "super", "yes", "no", "panic"}
  /\ stack \in Seq(Indices) /\ seen \subseteq Indices /\ supers \in Seq(Indices)

\* Types says yes exactly if the two types look the same, whatever cycles the
\* comparison met and whatever it had assumed when it filled its memo
\* (typeIndicesEquivalent). So it is exact, unless a type outside of groups refers to
\* itself: typeIndicesEquivalentBody does not ask that the other type does so too.
TypesUnfolded ==
  Answered =>
    /\ answer <=> Indistinguishable(pair[1], pair[2])
    /\ ~SelfReferring(A) /\ ~SelfReferring(B) => (answer <=> Equivalent(pair[1], pair[2]))

\* Types says yes exactly if the two types are equivalent, where "non-grouped types behave
\* like singleton groups" (typeequiv.go:117) and groups "compare by shape and relative
\* position" (typeequiv.go:15). This does not hold: TypesUnfolded says what does.
TypesExact == Answered => (answer <=> Equivalent(pair[1], pair[2]))

\* The walk finds a supertype exactly if some ancestor of the type looks the same, as
\* Types has it, as the one asked for; supertypes that are declared in a circle or
\* several times do not lead it astray (TypeSubtype, isTypeIndexSubtype).
SubtypeExact ==
  stage \in {"yes", "no"} =>
    (stage = "yes" <=>
       \/ Indistinguishable(asked.sub, asked.super)
       \/ /\ asked.sub \in DOMAIN A /\ asked.super \in DOMAIN B
          /\ \E i \in Ancestors(asked.sub) : Indistinguishable(i, asked.super))

\* The comparisons that the memo or the frames answer with yes.
Held == known \cup Visiting
Failing == phase = "return" /\ ~answer

SameSpot(a, b) ==
  RecGroupInfo(A, a).pos = RecGroupInfo(B, b).pos /\ RecGroupInfo(A, a).size = RecGroupInfo(B, b).size
GroupKey(a, b) == Key("group", RecGroupInfo(A, a).start, RecGroupInfo(B, b).start)

\* Goal g would be answered with yes if the comparisons in K are.
MemberMet(K, a, b) == (same /\ a = b) \/ Key("type", a, b) \in K
IndicesMet(K, a, b) ==
  /\ SameSpot(a, b)
  /\ IF RecGroupInfo(A, a).size = 1 THEN MemberMet(K, a, b) ELSE GroupKey(a, b) \in K
Met(K, g) ==
  CASE g.how = "member" -> MemberMet(K, g.a, g.b)
    [] g.how = "indices" -> IndicesMet(K, g.a, g.b)
    [] g.how = "ref" -> /\ SamePlace(g.group, g.a, g.b)
                        /\ IF InA(g.group, g.a) THEN MemberMet(K, g.a, g.b) ELSE IndicesMet(K, g.a, g.b)

\* Goal h is g or what g comes down to.
Serves(h, g) ==
  \/ h = g
  \/ /\ h.a = g.a /\ h.b = g.b
     /\ g.how = "ref" => SamePlace(g.group, g.a, g.b)
     /\ \/ g.how = "ref" /\ InA(g.group, g.a) /\ h.how = "member"
        \/ g.how = "ref" /\ ~InA(g.group, g.a) /\ h.how = "indices"
        \/ /\ g.how = "indices" \/ (g.how = "ref" /\ ~InA(g.group, g.a))
           /\ h.how = "member" /\ SameSpot(g.a, g.b) /\ RecGroupInfo(A, g.a).size = 1

\* What a comparison has to establish.
Duties(k) ==
  IF k[1] = "group" THEN Range(Members(GroupPair(k[2], k[3])))
  ELSE Range(RefGoals(k[2], k[3], GroupPair(k[2], k[3])))

KeyFits(K, k) ==
  /\ k[2] \in DOMAIN A /\ k[3] \in DOMAIN B /\ SameSpot(k[2], k[3])
  /\ k[1] = "type" => Alike(k[2], k[3])
  /\ k[1] = "group" => k = GroupKey(k[2], k[3])
  /\ RecGroupInfo(A, k[2]).size > 1 \/ k[1] = "type"
  /\ RecGroupInfo(A, k[2]).size > 1 => GroupKey(k[2], k[3]) \in K

GoalFits(K, g) ==
  /\ g.how = "indices" => g.group = NoGroup
  /\ g.how = "member" =>
       /\ SameSpot(g.a, g.b) /\ g.group = GroupPair(g.a, g.b)
       /\ RecGroupInfo(A, g.a).size > 1 => GroupKey(g.a, g.b) \in K
  /\ g.how = "ref" /\ g.group # NoGroup =>
       /\ SameSpot(g.group.a, g.group.b) /\ g.group = GroupPair(g.group.a, g.group.b)
       /\ GroupKey(g.group.a, g.group.b) \in K

\* Unless the call is about to answer no: every comparison that the memo or
\* the frames answer with yes is as good as its duties, and each duty is
\* answered with yes in the same way, comes down to what is compared now, or is
\* still to be done.
Pending(ph, h, g) == ph = "compare" /\ Serves(h, g)
Left(f, k, g) == \E i \in DOMAIN f : f[i].key = k /\ g \in Range(f[i].todo)
SoundIn(K, ph, h, f, p) ==
  /\ \A k \in K : KeyFits(K, k) /\ \A g \in Duties(k) : Met(K, g) \/ Pending(ph, h, g) \/ Left(f, k, g)
  /\ ph = "compare" => GoalFits(K, h)
  /\ \A i \in DOMAIN f : \A g \in Range(f[i].todo) : GoalFits(K, g)
  /\ LET top == Goal("indices", p[1], p[2], NoGroup) IN Met(K, top) \/ Pending(ph, h, top)
Sound == ~Failing => SoundIn(Held, phase, at, frames, pair)

\* Whatever correspondence relates the two types relates everything still to be
\* compared, and nothing has been answered with no.
Holds(R, g) == Related(R, g.a, g.b) /\ (g.how = "ref" => SamePlace(g.group, g.a, g.b))
CompleteIn(R, ph, h, f) ==
  /\ ph = "compare" => Holds(R, h)
  /\ \A i \in DOMAIN f : \A g \in Range(f[i].todo) : Holds(R, g)
Complete ==
  \A R \in SUBSET ((DOMAIN A) \X (DOMAIN B)) :
    Correspondence(R) /\ Related(R, pair[1], pair[2]) =>
      ~Failing /\ refuted = {} /\ CompleteIn(R, phase, at, frames)

\* The inductive invariant.
IInv == TypeOK /\ Sound /\ Complete

\* The types whose turn in the walk has been or is still to come. The types in
\* Behind are compared already.
Behind == seen \cup Range(stack)
Pursued == Behind \cup Range(supers) \cup (IF stage = "super" THEN {pair[1]} ELSE {})

\* While it goes on, the walk has compared its types in vain, follows nothing but
\* ancestors, and loses no supertype of a type it has visited but one out of range.
Pursuit ==
  /\ asked.sub \in DOMAIN A /\ asked.super \in DOMAIN B
  /\ asked.sub \in Behind
  /\ Pursued \subseteq Ancestors(asked.sub)
  /\ \A i \in Behind : ~Indistinguishable(i, asked.super)
  /\ \A i \in seen \cap DOMAIN A : Range(A[i].supers) \subseteq Pursued \cup (Indices \ DOMAIN A)

\* The comparison the walk waits for is the one it asked for, the first one before
\* anything is visited.
Waiting ==
  /\ stage = "itself" => pair[1] = asked.sub /\ seen = {} /\ supers = << >>
  /\ stage \in {"itself", "super"} => pair[2] = asked.super

\* The inductive invariant of the walk, given that Types is exact.
Walked == Waiting /\ (stage \in {"walk", "super"} => Pursuit) /\ SubtypeExact

\* Every question is answered, on type graphs of any form: a comparison is not
\* entered twice at a time, a type is not visited twice.
Answers == <>(stage \in {"yes", "no", "panic"})

\* validate.go:568: ValidateModule returns nil or a diag.ErrorList.
NoPanic == stage # "panic"
=============================================================================
