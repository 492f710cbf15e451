----------------------------- MODULE MCTypeEquiv -----------------------------
(* Small instances of TypeEquiv for TLC. *)
EXTENDS TypeEquiv

Def(shape, super, refs, group) == [shape |-> shape, supers |-> super, refs |-> refs, group |-> group]

MCShapes == {"leaf", "one", "two", "sub"}
MCIndices == 0..3

\* A type without references, and types that refer to one type, to two, or declare one
\* as their supertype.
Leaf == {<<"leaf", << >>, << >>>>}
One(I) == {<<"one", << >>, <<i>>>> : i \in I}
Two(I) == {<<"two", << >>, <<i, 0>>>> : i \in I}
Sub(I) == {<<"sub", <<i>>, << >>>> : i \in I}

Build(bodies, groups) ==
  [i \in DOMAIN bodies |-> Def(bodies[i][1], bodies[i][2], bodies[i][3], groups[i])]

Groupings(n) ==
  {g \in [0..(n - 1) -> 0..n] :
     \A s \in 0..(n - 1) : s + g[s] <= n /\ \A i \in (s + 1)..(s + g[s] - 1) : g[i] = 0}
Sections(n, bodies) ==
  {Build(b, g) : b \in [0..(n - 1) -> bodies], g \in {h \in Groupings(n) : \A i \in DOMAIN h : h[i] # 1}}

\* Two modules of two types each; two or three types of one module, with a
\* supertype out of range among the two.
Twos == Sections(2, Leaf \cup One({0, 1}) \cup Sub({0}))
MCPairs ==
  {<<m, n, FALSE>> : m \in Twos, n \in Twos}
    \cup {<<m, m, TRUE>> : m \in Sections(3, Leaf \cup One({0, 2}) \cup Sub({1, 2}))
                                \cup Sections(2, Leaf \cup One({0, 1}) \cup Two({0, 1}) \cup Sub({0, 1, 2}))}
=============================================================================
