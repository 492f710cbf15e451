---------------------------- MODULE StoreProofs ----------------------------
(* Theorems of Store, for every value of its constants. *)
EXTENDS Store, SequenceTheorems, TLAPS

-----------------------------------------------------------------------------
(* Sequences *)

\* Overwriting a window of an area keeps its cells a sequence of the same
\* length: Memory.data and Table.elems are written in place.
LEMMA OverwriteType ==
  ASSUME NEW S, NEW cells \in Seq(S), NEW at \in Int, NEW new \in Seq(S)
  PROVE  /\ Overwrite(cells, at, new) \in Seq(S)
         /\ Len(Overwrite(cells, at, new)) = Len(cells)
<1>1. \A j \in DOMAIN cells : j > at /\ j <= at + Len(new) => new[j - at] \in S
  OBVIOUS
<1>2. \A j \in DOMAIN cells : (IF j > at /\ j <= at + Len(new) THEN new[j - at] ELSE cells[j]) \in S
  BY <1>1
<1> QED
  BY <1>2, SMTT(60) DEF Overwrite

\* A fresh run of equal cells, as a new memory, a new table or a fill writes it.
LEMMA RepeatType ==
  ASSUME NEW S, NEW n \in Nat, NEW x \in S
  PROVE  Repeat(n, x) \in Seq(S) /\ Len(Repeat(n, x)) = n
BY DEF Repeat

\* The source window of a copy or an init that passed its bounds check.
LEMMA SliceType ==
  ASSUME NEW S, NEW cells \in Seq(S), NEW at \in Nat, NEW n \in Nat, Fit(cells, at, n)
  PROVE  Slice(cells, at, n) \in Seq(S) /\ Len(Slice(cells, at, n)) = n
BY DEF Slice, Fit

\* What a grow appends.
LEMMA ConcatType ==
  ASSUME NEW S, NEW s \in Seq(S), NEW t \in Seq(S)
  PROVE  /\ s \o t \in Seq(S) /\ Len(s \o t) = Len(s) + Len(t)
         /\ SubSeq(s \o t, 1, Len(s)) = s
OBVIOUS

\* A memory's size in pages.
LEMMA PagesOfPages ==
  ASSUME NEW p \in Nat, p > 0, NEW n \in Nat
  PROVE  n * p \in Nat /\ (n * p) \div p = n
OBVIOUS

LEMMA PagesAdd ==
  ASSUME NEW p \in Nat, p > 0, NEW len \in Nat, NEW delta \in Nat
  PROVE  /\ delta * p \in Nat /\ len \div p \in Nat
         /\ (len + delta * p) \div p = (len \div p) + delta
OBVIOUS

-----------------------------------------------------------------------------
(* What one operation does to the area it works on *)

\* What an operation does to the cells of an area: it rewrites them, or it
\* appends to them and stays within the limit.
Keeps(old, new) == Len(new) >= Len(old) /\ (Len(new) > Len(old) => SubSeq(new, 1, Len(old)) = old)

MemoryWrite(a, cells) ==
  /\ cells \in Seq(Bytes) /\ Keeps(a.cells, cells)
  /\ Len(cells) = (Len(cells) \div PageSize) * PageSize
  /\ Len(cells) \div PageSize <= a.limit

TableWrite(a, cells, S) == cells \in Seq(S) /\ Keeps(a.cells, cells) /\ Len(cells) <= a.limit

WritesMemory(i) ==
  \E k \in DOMAIN memoryIndex[i] : \E cells \in Seq(Bytes) :
    SetMemory(memoryIndex[i][k], cells) /\ MemoryWrite(memories[memoryIndex[i][k]], cells)

WritesTable(i) ==
  \E k \in DOMAIN tableIndex[i] : \E cells \in Seq(Held(i)) :
    SetTable(tableIndex[i][k], cells) /\ TableWrite(tables[tableIndex[i][k]], cells, Held(i))

Decided == last' \in [ok : BOOLEAN, legal : BOOLEAN] /\ last'.ok = last'.legal

\* The bounds check by differences is the check by sums.
LEMMA FitIsWithin ==
  ASSUME NEW S, NEW cells \in Seq(S), NEW at \in Nat, NEW n \in Nat
  PROVE  Fit(cells, at, n) <=> at + n <= Len(cells)
BY DEF Fit

\* An operation on a memory that succeeds exactly when it should, with a legal
\* write, has the effect all of them share.
LEMMA MemoryOutcomeEffect ==
  ASSUME NEW i \in Insts, NEW k \in DOMAIN memoryIndex[i],
         NEW ok \in BOOLEAN, NEW legal \in BOOLEAN, NEW cells,
         MemoryOutcome(ok, legal, memoryIndex[i][k], cells),
         ok <=> legal, ok => MemoryWrite(memories[memoryIndex[i][k]], cells)
  PROVE  /\ memories' = memories \/ WritesMemory(i)
         /\ Decided
         /\ UNCHANGED <<tables, segments, phase, links, busy, next>>
<1>1. CASE ok
  <2>1. SetMemory(memoryIndex[i][k], cells)
    BY <1>1 DEF MemoryOutcome, Outcome
  <2>2. WritesMemory(i)
    BY <1>1, <2>1 DEF WritesMemory, MemoryWrite
  <2>3. Decided
    BY <1>1 DEF MemoryOutcome, Outcome, Decided
  <2> QED BY <2>2, <2>3 DEF MemoryOutcome, Outcome, links, segments
<1>2. CASE ~ok
  <2>1. memories' = memories
    BY <1>2 DEF MemoryOutcome, Outcome
  <2>3. Decided
    BY <1>2 DEF MemoryOutcome, Outcome, Decided
  <2> QED BY <2>1, <2>3 DEF MemoryOutcome, Outcome, links, segments
<1> QED BY <1>1, <1>2

LEMMA TableOutcomeEffect ==
  ASSUME NEW i \in Insts, NEW k \in DOMAIN tableIndex[i],
         NEW ok \in BOOLEAN, NEW legal \in BOOLEAN, NEW cells,
         TableOutcome(ok, legal, tableIndex[i][k], cells),
         ok <=> legal, ok => TableWrite(tables[tableIndex[i][k]], cells, Held(i))
  PROVE  /\ tables' = tables \/ WritesTable(i)
         /\ Decided
         /\ UNCHANGED <<memories, segments, phase, links, busy, next>>
<1>1. CASE ok
  <2>1. SetTable(tableIndex[i][k], cells)
    BY <1>1 DEF TableOutcome, Outcome
  <2>2. WritesTable(i)
    BY <1>1, <2>1 DEF WritesTable, TableWrite
  <2>3. Decided
    BY <1>1 DEF TableOutcome, Outcome, Decided
  <2> QED BY <2>2, <2>3 DEF TableOutcome, Outcome, links, segments
<1>2. CASE ~ok
  <2>1. tables' = tables
    BY <1>2 DEF TableOutcome, Outcome
  <2>3. Decided
    BY <1>2 DEF TableOutcome, Outcome, Decided
  <2> QED BY <2>1, <2>3 DEF TableOutcome, Outcome, links, segments
<1> QED BY <1>1, <1>2

\* Writing into an area in place is a legal write.
LEMMA OverwriteMemory ==
  ASSUME TypeOK, Sized, NEW m \in Mems, NEW at \in Nat, NEW new \in Seq(Bytes)
  PROVE  MemoryWrite(memories[m], Overwrite(memories[m].cells, at, new))
<1>1. memories[m] \in Areas(Refs, Bytes) /\ memories[m].cells \in Seq(Bytes)
  BY DEF TypeOK, Areas
<1>2. /\ Overwrite(memories[m].cells, at, new) \in Seq(Bytes)
      /\ Len(Overwrite(memories[m].cells, at, new)) = Len(memories[m].cells)
  BY <1>1, OverwriteType
<1>3. /\ Len(memories[m].cells) = (Len(memories[m].cells) \div PageSize) * PageSize
      /\ Len(memories[m].cells) \div PageSize <= memories[m].limit
  BY DEF Sized, SizedMemory, Pages
<1> QED BY <1>1, <1>2, <1>3 DEF MemoryWrite, Keeps

LEMMA OverwriteTable ==
  ASSUME TypeOK, Sized, NEW t \in Tabs, NEW S, tables[t].cells \in Seq(S), NEW at \in Nat, NEW new \in Seq(S)
  PROVE  TableWrite(tables[t], Overwrite(tables[t].cells, at, new), S)
<1>1. tables[t] \in Areas(Refs, Refs) /\ tables[t].cells \in Seq(S)
  BY DEF TypeOK, Areas
<1>2. /\ Overwrite(tables[t].cells, at, new) \in Seq(S)
      /\ Len(Overwrite(tables[t].cells, at, new)) = Len(tables[t].cells)
  BY <1>1, OverwriteType
<1> QED BY <1>1, <1>2 DEF TableWrite, Keeps, Sized, SizedTable

\* What the operations of i find in the memories it names.
LEMMA MemoryFacts ==
  ASSUME TypeOK, Sized, NEW i \in Insts, NEW k \in DOMAIN memoryIndex[i]
  PROVE  /\ memoryIndex[i][k] \in Mems
         /\ memories[memoryIndex[i][k]].cells \in Seq(Bytes)
         /\ memories[memoryIndex[i][k]].limit \in Nat
         /\ memories[memoryIndex[i][k]].limit <= MaxPages
         /\ Pages(memories[memoryIndex[i][k]]) \in Nat
<1>1. memoryIndex[i][k] \in Mems
  BY DEF TypeOK
<1>2. memories[memoryIndex[i][k]] \in Areas(Refs, Bytes)
  BY <1>1 DEF TypeOK
<1>3. Len(memories[memoryIndex[i][k]].cells) \in Nat
  BY <1>2 DEF Areas
<1>4. Pages(memories[memoryIndex[i][k]]) \in Nat
  BY <1>3, StoreAssumption, PagesAdd DEF Pages
<1> QED BY <1>1, <1>2, <1>4 DEF Areas, Sized, SizedMemory

\* What they find in the tables: only what i can hold.
LEMMA TableFacts ==
  ASSUME TypeOK, NEW i \in Insts, NEW k \in DOMAIN tableIndex[i]
  PROVE  /\ tableIndex[i][k] \in Tabs
         /\ tables[tableIndex[i][k]].cells \in Seq(Held(i))
         /\ tables[tableIndex[i][k]].limit \in Nat
         /\ Held(i) \subseteq Refs
<1>1. tableIndex[i] \in Seq(Tabs) /\ \A l \in DOMAIN tableIndex[i] : tableIndex[i][l] \in Tabs
  BY DEF TypeOK
<1>2. \A t \in Tabs : tables[t] \in Areas(Refs, Refs)
  BY DEF TypeOK
<1>3. \A t \in Tabs : tables[t].cells \in Seq(Refs) /\ tables[t].limit \in Nat
  BY <1>2 DEF Areas
<1>4. \A t \in Tabs : \A j \in DOMAIN tables[t].cells : tables[t].cells[j] \in Refs
  BY <1>3
<1>5. Held(i) \subseteq Refs
  BY <1>1, <1>4 DEF Held, Refs
<1>6. \A j \in DOMAIN tables[tableIndex[i][k]].cells : tables[tableIndex[i][k]].cells[j] \in Held(i)
  BY DEF Held
<1>7. tables[tableIndex[i][k]].cells \in Seq(Held(i))
  BY <1>1, <1>3, <1>6, SMTT(60)
<1> QED BY <1>1, <1>3, <1>5, <1>7

\* What validation guarantees of segments.
LEMMA SegmentFacts ==
  ASSUME NEW i \in Insts
  PROVE  /\ \A k \in DOMAIN Module[i].data : Module[i].data[k] \in DataSegments
         /\ \A k \in DOMAIN Module[i].elems :
              Module[i].elems[k] \in ElemSegments /\ ElemValues(i, k) \in Seq({i, Nobody})
         /\ Module[i].data \in Seq(DataSegments) /\ Module[i].elems \in Seq(ElemSegments)
         /\ Module[i].mems \in Seq(Definitions) /\ Module[i].tabs \in Seq(Definitions)
         /\ Module[i].start \in BOOLEAN
<1>1. Module[i] \in Modules
  BY ModuleAssumption
<1>2. /\ Module[i].data \in Seq(DataSegments) /\ Module[i].elems \in Seq(ElemSegments)
      /\ Module[i].mems \in Seq(Definitions) /\ Module[i].tabs \in Seq(Definitions)
      /\ Module[i].start \in BOOLEAN
  BY <1>1 DEF Modules
<1>3. \A k \in DOMAIN Module[i].elems : Module[i].elems[k] \in ElemSegments
  BY <1>2
<1>4. \A k \in DOMAIN Module[i].elems : Module[i].elems[k].init \in Seq(BOOLEAN)
  BY <1>3 DEF ElemSegments
<1>5. \A k \in DOMAIN Module[i].elems : ElemValues(i, k) \in Seq({i, Nobody})
  BY <1>4 DEF ElemValues
<1> QED BY <1>2, <1>3, <1>5

\* Every memory operation traps exactly when it should and writes legally.
LEMMA MemoryOpEffect ==
  ASSUME TypeOK, Sized, NEW i \in Insts, MemoryOp(i)
  PROVE  /\ memories' = memories \/ WritesMemory(i)
         /\ Decided
         /\ UNCHANGED <<tables, segments, phase, links, busy, next>>
<1> PICK k \in DOMAIN memoryIndex[i] :
      \/ MemoryStore(i, k) \/ MemoryFill(i, k) \/ MemoryInit(i, k) \/ MemoryGrow(i, k)
      \/ \E l \in DOMAIN memoryIndex[i] : MemoryCopy(i, k, l)
  BY DEF MemoryOp
<1> DEFINE m == memoryIndex[i][k]
           cells == memories[m].cells
<1> HIDE DEF m, cells
<1>1. /\ m \in Mems /\ cells \in Seq(Bytes) /\ Len(cells) \in Nat
      /\ memories[m].limit \in Nat /\ memories[m].limit <= MaxPages /\ Pages(memories[m]) \in Nat
  BY MemoryFacts DEF m, cells
<1>2. Words \subseteq Nat /\ MaxWord \in Nat /\ PageSize \in Nat /\ PageSize > 0 /\ MaxPages \in Nat /\ MaxPages <= MaxWord
  BY StoreAssumption DEF Words
<1>3. \A at \in Nat, new \in Seq(Bytes) : MemoryWrite(memories[m], Overwrite(cells, at, new))
  BY <1>1, OverwriteMemory DEF cells
<1>4. \A at \in Nat, n \in Nat :
         /\ Fit(cells, at, n) <=> Within(memories[m], at, n)
         /\ Within(memories[m], at, n) <=> at + n <= Len(cells)
         /\ Fit(cells, at, n) \in BOOLEAN /\ Within(memories[m], at, n) \in BOOLEAN
  <2>1. \A at \in Nat, n \in Nat : Within(memories[m], at, n) <=> at + n <= Len(cells)
    BY DEF Within, cells
  <2>2. \A at \in Nat, n \in Nat : Fit(cells, at, n) \in BOOLEAN /\ Within(memories[m], at, n) \in BOOLEAN
    BY DEF Within, Fit
  <2> QED BY <1>1, <2>1, <2>2, FitIsWithin
<1>5. CASE MemoryStore(i, k)
  <2> PICK base \in Words, offset \in Words, x \in Bytes :
        MemoryOutcome(base <= MaxWord - offset /\ Fit(cells, base + offset, 1),
                      Within(memories[m], base + offset, 1), m, Overwrite(cells, base + offset, <<x>>))
    BY <1>5 DEF MemoryStore, m, cells
  <2> DEFINE at == base + offset
             ok == base <= MaxWord - offset /\ Fit(cells, at, 1)
             legal == Within(memories[m], at, 1)
  <2>0. MemoryOutcome(ok, legal, m, Overwrite(cells, at, <<x>>))
    OBVIOUS
  <2>1. base \in Nat /\ offset \in Nat /\ at \in Nat /\ <<x>> \in Seq(Bytes)
    BY <1>2
  <2>2. Len(cells) <= MaxWord + 1
    <3>1. Len(cells) = Pages(memories[m]) * PageSize /\ Pages(memories[m]) <= MaxPages
      BY <1>1, <1>2 DEF Sized, SizedMemory, cells
    <3>2. Pages(memories[m]) * PageSize <= MaxPages * PageSize
      BY <1>1, <1>2, <3>1
    <3> QED BY <1>1, <1>2, <3>1, <3>2, StoreAssumption
  <2>3. at + 1 <= Len(cells) => base <= MaxWord - offset
    BY <1>1, <1>2, <2>1, <2>2
  <2> HIDE DEF at
  <2>4. /\ Fit(cells, at, 1) <=> legal
        /\ legal <=> at + 1 <= Len(cells)
        /\ legal \in BOOLEAN
    BY <1>4, <2>1
  <2>5. ok \in BOOLEAN /\ (ok <=> legal)
    BY <2>3, <2>4
  <2>6. MemoryWrite(memories[m], Overwrite(cells, at, <<x>>))
    BY <1>3, <2>1
  <2> HIDE DEF ok, legal
  <2> QED BY <2>0, <2>4, <2>5, <2>6, MemoryOutcomeEffect DEF m
<1>6. CASE MemoryFill(i, k)
  <2> PICK at \in Words, n \in Words, x \in Bytes :
        MemoryOutcome(Fit(cells, at, n), Within(memories[m], at, n), m, Overwrite(cells, at, Repeat(n, x)))
    BY <1>6 DEF MemoryFill, m, cells
  <2>1. at \in Nat /\ n \in Nat /\ Repeat(n, x) \in Seq(Bytes)
    BY <1>2, RepeatType
  <2> QED BY <1>3, <1>4, <2>1, MemoryOutcomeEffect DEF m, cells
<1>7. CASE \E l \in DOMAIN memoryIndex[i] : MemoryCopy(i, k, l)
  <2> PICK l \in DOMAIN memoryIndex[i] : MemoryCopy(i, k, l)
    BY <1>7
  <2> DEFINE src == memories[memoryIndex[i][l]]
  <2> HIDE DEF src
  <2> PICK at \in Words, from \in Words, n \in Words :
        MemoryOutcome(Fit(cells, at, n) /\ Fit(src.cells, from, n),
                      Within(memories[m], at, n) /\ Within(src, from, n),
                      m, Overwrite(cells, at, Slice(src.cells, from, n)))
    BY DEF MemoryCopy, m, cells, src
  <2>1. src.cells \in Seq(Bytes) /\ at \in Nat /\ from \in Nat /\ n \in Nat
    BY <1>2, MemoryFacts DEF src
  <2>2. Fit(src.cells, from, n) <=> Within(src, from, n)
    BY <2>1, FitIsWithin DEF Within
  <2>3. Fit(src.cells, from, n) => Slice(src.cells, from, n) \in Seq(Bytes)
    BY <2>1, SliceType
  <2> QED BY <1>3, <1>4, <2>1, <2>2, <2>3, MemoryOutcomeEffect DEF m, cells
<1>8. CASE MemoryInit(i, k)
  <2> PICK d \in DOMAIN dataDropped[i], at \in Words, from \in Words, n \in Words :
        LET init == Module[i].data[d].init
            dropped == dataDropped[i][d]
        IN  MemoryOutcome(/\ ~(dropped /\ (from # 0 \/ n # 0))
                          /\ Fit(init, from, n) /\ Fit(cells, at, n),
                          /\ from + n <= (IF dropped THEN 0 ELSE Len(init))
                          /\ Within(memories[m], at, n),
                          m, Overwrite(cells, at, Slice(init, from, n)))
    BY <1>8 DEF MemoryInit, m, cells
  <2> DEFINE init == Module[i].data[d].init
             dropped == dataDropped[i][d]
  <2>1. init \in Seq(Bytes) /\ dropped \in BOOLEAN /\ at \in Nat /\ from \in Nat /\ n \in Nat
    <3>1. d \in DOMAIN Module[i].data /\ dataDropped[i] \in Seq(BOOLEAN)
      BY DEF TypeOK
    <3>2. Module[i].data[d] \in DataSegments
      BY <3>1, SegmentFacts
    <3>3. Module[i].data[d].init \in Seq(Bytes)
      BY <3>2 DEF DataSegments
    <3>4. dataDropped[i][d] \in BOOLEAN
      BY <3>1
    <3> QED BY <1>2, <3>3, <3>4
  <2> HIDE DEF init, dropped
  <2>2. /\ Fit(init, from, n) <=> from + n <= Len(init)
        /\ Fit(cells, at, n) <=> Within(memories[m], at, n)
        /\ Len(init) \in Nat
    <3>1. Fit(init, from, n) <=> from + n <= Len(init)
      BY <2>1, FitIsWithin
    <3> QED BY <1>4, <2>1, <3>1
  <2>3. (~(dropped /\ (from # 0 \/ n # 0)) /\ Fit(init, from, n) /\ Fit(cells, at, n))
          <=> from + n <= (IF dropped THEN 0 ELSE Len(init)) /\ Within(memories[m], at, n)
    <3>1. CASE dropped
      BY <2>1, <2>2, <3>1
    <3>2. CASE ~dropped
      BY <2>1, <2>2, <3>2
    <3> QED BY <3>1, <3>2
  <2>4. Fit(init, from, n) => Slice(init, from, n) \in Seq(Bytes)
    BY <2>1, SliceType
  <2> QED BY <1>3, <2>1, <2>3, <2>4, MemoryOutcomeEffect DEF m, cells, init, dropped
<1>9. CASE MemoryGrow(i, k)
  <2> DEFINE old == Pages(memories[m])
  <2> PICK delta \in Words :
        MemoryOutcome(delta <= MaxWord - old /\ old + delta <= memories[m].limit,
                      old + delta <= memories[m].limit, m, cells \o Repeat(delta * PageSize, 0))
    BY <1>9 DEF MemoryGrow, MayGrow, Extend, m, cells
  <2>0. delta \in Nat /\ old \in Nat
    BY <1>1, <1>2 DEF Pages
  <2>1. old = Len(cells) \div PageSize /\ Len(cells) = old * PageSize
    BY <1>1, <1>2 DEF Pages, cells, Sized, SizedMemory
  <2> HIDE DEF old
  <2>2. (delta <= MaxWord - old /\ old + delta <= memories[m].limit) <=> old + delta <= memories[m].limit
    BY <1>1, <1>2, <2>0
  <2>3. delta * PageSize \in Nat /\ (Len(cells) + delta * PageSize) \div PageSize = old + delta
    BY <1>1, <1>2, <2>0, <2>1, PagesAdd, ZenonT(60)
  <2>4. Repeat(delta * PageSize, 0) \in Seq(Bytes) /\ Len(Repeat(delta * PageSize, 0)) = delta * PageSize
    BY <2>3, RepeatType, StoreAssumption
  <2> DEFINE new == cells \o Repeat(delta * PageSize, 0)
             ok == delta <= MaxWord - old /\ old + delta <= memories[m].limit
             legal == old + delta <= memories[m].limit
  <2>8. MemoryOutcome(ok, legal, m, new)
    OBVIOUS
  <2>5. new \in Seq(Bytes) /\ Len(new) = Len(cells) + delta * PageSize /\ SubSeq(new, 1, Len(cells)) = cells
    BY <1>1, <2>4, ConcatType
  <2> HIDE DEF new
  <2>6. Len(cells) + delta * PageSize = (old + delta) * PageSize
    BY <1>2, <2>0, <2>1
  <2>7. legal => MemoryWrite(memories[m], new)
    BY <1>1, <2>0, <2>3, <2>5, <2>6, SMTT(60) DEF MemoryWrite, Keeps, cells
  <2>9. ok \in BOOLEAN /\ legal \in BOOLEAN /\ (ok <=> legal)
    BY <2>2
  <2> HIDE DEF ok, legal
  <2> QED BY <2>7, <2>8, <2>9, MemoryOutcomeEffect DEF m
<1> QED BY <1>5, <1>6, <1>7, <1>8, <1>9

\* Every table operation traps exactly when it should, writes legally, and
\* writes only references that code of i can hold.
LEMMA TableOpEffect ==
  ASSUME TypeOK, Sized, NEW i \in Insts, TableOp(i)
  PROVE  /\ tables' = tables \/ WritesTable(i)
         /\ Decided
         /\ UNCHANGED <<memories, segments, phase, links, busy, next>>
<1> PICK k \in DOMAIN tableIndex[i] :
      \/ TableSet(i, k) \/ TableFill(i, k) \/ TableInit(i, k) \/ TableGrow(i, k)
      \/ \E l \in DOMAIN tableIndex[i] : TableCopy(i, k, l)
  BY DEF TableOp
<1> DEFINE t == tableIndex[i][k]
           cells == tables[t].cells
           H == Held(i)
<1> HIDE DEF t, cells, H
<1>1. /\ t \in Tabs /\ cells \in Seq(H) /\ Len(cells) \in Nat
      /\ tables[t].limit \in Nat /\ i \in H /\ Nobody \in H
  <2>1. /\ t \in Tabs /\ cells \in Seq(H) /\ tables[t].limit \in Nat
    BY TableFacts DEF t, cells, H
  <2>2. i \in H /\ Nobody \in H
    BY DEF H, Held
  <2> QED BY <2>1, <2>2
<1>2. Words \subseteq Nat /\ MaxWord \in Nat /\ MaxElems \in Nat /\ MaxElems <= MaxWord
  BY StoreAssumption DEF Words
<1>3. \A at \in Nat, new \in Seq(H) : TableWrite(tables[t], Overwrite(cells, at, new), H)
  BY <1>1, OverwriteTable DEF cells
<1>4. \A at \in Nat, n \in Nat :
         /\ Fit(cells, at, n) <=> Within(tables[t], at, n)
         /\ Fit(cells, at, n) \in BOOLEAN /\ Within(tables[t], at, n) \in BOOLEAN
  <2>1. \A at \in Nat, n \in Nat : Within(tables[t], at, n) <=> at + n <= Len(cells)
    BY DEF Within, cells
  <2>2. \A at \in Nat, n \in Nat : Fit(cells, at, n) \in BOOLEAN /\ Within(tables[t], at, n) \in BOOLEAN
    BY DEF Within, Fit
  <2> QED BY <1>1, <2>1, <2>2, FitIsWithin
<1>5. CASE TableSet(i, k)
  <2> PICK at \in Words, x \in H :
        TableOutcome(Fit(cells, at, 1), Within(tables[t], at, 1), t, Overwrite(cells, at, <<x>>))
    BY <1>5 DEF TableSet, t, cells, H
  <2>1. at \in Nat /\ <<x>> \in Seq(H)
    BY <1>2
  <2> QED BY <1>3, <1>4, <2>1, TableOutcomeEffect DEF t, cells, H
<1>6. CASE TableFill(i, k)
  <2> PICK at \in Words, n \in Words, x \in H :
        TableOutcome(Fit(cells, at, n), Within(tables[t], at, n), t, Overwrite(cells, at, Repeat(n, x)))
    BY <1>6 DEF TableFill, t, cells, H
  <2>1. at \in Nat /\ n \in Nat /\ Repeat(n, x) \in Seq(H)
    BY <1>2, RepeatType
  <2> QED BY <1>3, <1>4, <2>1, TableOutcomeEffect DEF t, cells, H
<1>7. CASE \E l \in DOMAIN tableIndex[i] : TableCopy(i, k, l)
  <2> PICK l \in DOMAIN tableIndex[i] : TableCopy(i, k, l)
    BY <1>7
  <2> DEFINE src == tables[tableIndex[i][l]]
  <2> HIDE DEF src
  <2> PICK at \in Words, from \in Words, n \in Words :
        TableOutcome(Fit(cells, at, n) /\ Fit(src.cells, from, n),
                     Within(tables[t], at, n) /\ Within(src, from, n),
                     t, Overwrite(cells, at, Slice(src.cells, from, n)))
    BY DEF TableCopy, t, cells, src
  <2>1. src.cells \in Seq(H) /\ at \in Nat /\ from \in Nat /\ n \in Nat
    BY <1>2, TableFacts DEF src, H
  <2>2. Fit(src.cells, from, n) <=> Within(src, from, n)
    BY <2>1, FitIsWithin DEF Within
  <2>3. Fit(src.cells, from, n) => Slice(src.cells, from, n) \in Seq(H)
    BY <2>1, SliceType
  <2> QED BY <1>3, <1>4, <2>1, <2>2, <2>3, TableOutcomeEffect DEF t, cells, H
<1>8. CASE TableInit(i, k)
  <2> PICK d \in DOMAIN elemDropped[i], at \in Words, from \in Words, n \in Words :
        LET init == ElemValues(i, d)
            dropped == elemDropped[i][d]
        IN  TableOutcome(/\ ~(dropped /\ (from # 0 \/ n # 0))
                         /\ Fit(init, from, n) /\ Fit(cells, at, n),
                         /\ from + n <= (IF dropped THEN 0 ELSE Len(init))
                         /\ Within(tables[t], at, n),
                         t, Overwrite(cells, at, Slice(init, from, n)))
    BY <1>8 DEF TableInit, t, cells
  <2> DEFINE init == ElemValues(i, d)
             dropped == elemDropped[i][d]
  <2>1. init \in Seq(H) /\ dropped \in BOOLEAN /\ at \in Nat /\ from \in Nat /\ n \in Nat
    <3>1. d \in DOMAIN Module[i].elems /\ elemDropped[i] \in Seq(BOOLEAN)
      BY DEF TypeOK
    <3>2. ElemValues(i, d) \in Seq({i, Nobody})
      BY <3>1, SegmentFacts
    <3>3. ElemValues(i, d) \in Seq(H)
      BY <1>1, <3>2
    <3>4. elemDropped[i][d] \in BOOLEAN
      BY <3>1
    <3> QED BY <1>2, <3>3, <3>4
  <2> HIDE DEF init, dropped
  <2>2. /\ Fit(init, from, n) <=> from + n <= Len(init)
        /\ Fit(cells, at, n) <=> Within(tables[t], at, n)
        /\ Len(init) \in Nat
    <3>1. Fit(init, from, n) <=> from + n <= Len(init)
      BY <2>1, FitIsWithin
    <3> QED BY <1>4, <2>1, <3>1
  <2>3. (~(dropped /\ (from # 0 \/ n # 0)) /\ Fit(init, from, n) /\ Fit(cells, at, n))
          <=> from + n <= (IF dropped THEN 0 ELSE Len(init)) /\ Within(tables[t], at, n)
    <3>1. CASE dropped
      BY <2>1, <2>2, <3>1
    <3>2. CASE ~dropped
      BY <2>1, <2>2, <3>2
    <3> QED BY <3>1, <3>2
  <2>4. Fit(init, from, n) => Slice(init, from, n) \in Seq(H)
    BY <2>1, SliceType
  <2> QED BY <1>3, <2>1, <2>3, <2>4, TableOutcomeEffect DEF t, cells, H, init, dropped
<1>9. CASE TableGrow(i, k)
  <2> DEFINE old == Len(cells)
  <2> PICK delta \in Words, x \in H :
        TableOutcome(delta <= MaxWord - old /\ old + delta <= MaxElems /\ old + delta <= tables[t].limit,
                     old + delta <= MaxElems /\ old + delta <= tables[t].limit,
                     t, cells \o Repeat(delta, x))
    BY <1>9 DEF TableGrow, MayGrow, Extend, t, cells, H
  <2> DEFINE new == cells \o Repeat(delta, x)
             ok == delta <= MaxWord - old /\ old + delta <= MaxElems /\ old + delta <= tables[t].limit
             legal == old + delta <= MaxElems /\ old + delta <= tables[t].limit
  <2>1. TableOutcome(ok, legal, t, new)
    OBVIOUS
  <2>2. delta \in Nat /\ old \in Nat
    BY <1>1, <1>2
  <2>3. ok \in BOOLEAN /\ legal \in BOOLEAN /\ (ok <=> legal)
    BY <1>1, <1>2, <2>2
  <2>4. new \in Seq(H) /\ Len(new) = Len(cells) + delta /\ SubSeq(new, 1, Len(cells)) = cells
    <3>1. Repeat(delta, x) \in Seq(H) /\ Len(Repeat(delta, x)) = delta
      BY <2>2, RepeatType, SMTT(60)
    <3> QED BY <1>1, <3>1, ConcatType
  <2> HIDE DEF new
  <2>5. legal => TableWrite(tables[t], new, H)
    BY <1>1, <2>2, <2>4 DEF TableWrite, Keeps, cells
  <2> HIDE DEF ok, legal
  <2> QED BY <2>1, <2>3, <2>5, TableOutcomeEffect DEF t, H
<1> QED BY <1>5, <1>6, <1>7, <1>8, <1>9

-----------------------------------------------------------------------------
(* What a step does to the memories and to the tables *)

WroteMemory ==
  \E m \in Mems : \E cells \in Seq(Bytes) :
    SetMemory(m, cells) /\ MemoryWrite(memories[m], cells) /\ memories[m].made

MadeMemory ==
  \E m \in Mems, owner \in Refs, limits \in PageLimits :
    /\ ~memories[m].made /\ (owner = Nobody \/ Building(owner))
    /\ memories' = [memories EXCEPT ![m] = NewMemory(owner, limits)]

WroteTable ==
  \E t \in Tabs, i \in Insts : \E cells \in Seq(Held(i)) :
    SetTable(t, cells) /\ TableWrite(tables[t], cells, Held(i)) /\ (CanRun(i) \/ Applying(i)) /\ tables[t].made

MadeTable ==
  \E t \in Tabs, owner \in Refs, limits \in Limits : \E init \in {owner, Nobody} :
    /\ ~tables[t].made /\ (owner = Nobody \/ Building(owner)) /\ limits[1] <= MaxElems
    /\ tables' = [tables EXCEPT ![t] = NewTable(owner, limits, init)]

\* The data segments are written within the memories of the instance.
LEMMA ApplyDataWrites ==
  ASSUME IInv, NEW i \in Insts, ApplyData(i)
  PROVE  memories' = memories \/ WroteMemory
<1> DEFINE k == next - Len(Module[i].elems)
           seg == Module[i].data[k]
           m == memoryIndex[i][seg.area]
<1>1. Applying(i) /\ k \in DOMAIN Module[i].data
  BY DEF Spend, ApplyData
<1>2. CASE seg.mode = "active" /\ Fit(memories[m].cells, seg.offset, Len(seg.init))
  <2>1. memories' = [memories EXCEPT ![m].cells = Overwrite(@, seg.offset, seg.init)]
    BY <1>2 DEF Spend, ApplyData
  <2>2. seg.init \in Seq(Bytes) /\ seg.offset \in Nat
    <3>1. seg \in DataSegments
      BY <1>1, SegmentFacts
    <3> QED BY <3>1, StoreAssumption, SMTT(60) DEF DataSegments, Words
  <2>3. seg.area \in DOMAIN memoryIndex[i]
    <3>1. seg.area \in DOMAIN Module[i].mems
      BY <1>1, <1>2, ModuleAssumption
    <3>2. Len(memoryIndex[i]) = Len(Module[i].mems)
      BY <1>1 DEF IInv, Staged, Applying, Built
    <3>3. memoryIndex[i] \in Seq(Mems) /\ Module[i].mems \in Seq(Definitions)
      BY SegmentFacts DEF IInv, TypeOK
    <3> QED BY <3>1, <3>2, <3>3, SMTT(60)
  <2>4. m \in Mems /\ memories[m].made
    <3>1. memoryIndex[i][seg.area] \in Mems
      BY <2>3, MemoryFacts, SMTT(60) DEF IInv
    <3>2. memories[memoryIndex[i][seg.area]].made
      BY <2>3, SMTT(60) DEF IInv, Linked
    <3> QED BY <3>1, <3>2
  <2> HIDE DEF m, seg
  <2>5. MemoryWrite(memories[m], Overwrite(memories[m].cells, seg.offset, seg.init))
    BY <2>2, <2>4, OverwriteMemory DEF IInv
  <2>6. SetMemory(m, Overwrite(memories[m].cells, seg.offset, seg.init))
    BY <2>1, <2>4 DEF SetMemory
  <2> QED BY <2>4, <2>5, <2>6, SMTT(60) DEF WroteMemory, MemoryWrite
<1>3. CASE ~(seg.mode = "active" /\ Fit(memories[m].cells, seg.offset, Len(seg.init)))
  BY <1>3 DEF Spend, ApplyData, Fail
<1> HIDE DEF seg, m
<1> QED BY <1>2, <1>3, Zenon

LEMMA ApplyElemWrites ==
  ASSUME IInv, NEW i \in Insts, ApplyElem(i)
  PROVE  tables' = tables \/ WroteTable
<1> DEFINE seg == Module[i].elems[next]
           t == tableIndex[i][seg.area]
<1>1. Applying(i) /\ next \in DOMAIN Module[i].elems
  BY DEF Spend, ApplyElem
<1>2. CASE seg.mode = "active" /\ Fit(tables[t].cells, seg.offset, Len(seg.init))
  <2>1. tables' = [tables EXCEPT ![t].cells = Overwrite(@, seg.offset, ElemValues(i, next))]
    BY <1>2 DEF Spend, ApplyElem
  <2>2. ElemValues(i, next) \in Seq(Held(i)) /\ seg.offset \in Nat
    <3>1. seg \in ElemSegments /\ ElemValues(i, next) \in Seq({i, Nobody})
      BY <1>1, SegmentFacts
    <3>2. {i, Nobody} \subseteq Held(i)
      BY DEF Held
    <3>3. ElemValues(i, next) \in Seq(Held(i))
      BY <3>1, <3>2
    <3>4. seg.offset \in Nat
      BY <3>1, StoreAssumption DEF ElemSegments, Words
    <3> QED BY <3>3, <3>4
  <2>3. seg.area \in DOMAIN tableIndex[i]
    <3>1. seg.area \in DOMAIN Module[i].tabs
      BY <1>1, <1>2, ModuleAssumption
    <3>2. Len(tableIndex[i]) = Len(Module[i].tabs)
      BY <1>1 DEF IInv, Staged, Applying, Built
    <3>3. tableIndex[i] \in Seq(Tabs) /\ Module[i].tabs \in Seq(Definitions)
      BY SegmentFacts DEF IInv, TypeOK
    <3> QED BY <3>1, <3>2, <3>3, SMTT(60)
  <2>4. t \in Tabs /\ tables[t].made /\ tables[t].cells \in Seq(Held(i))
    BY <2>3, TableFacts, SMTT(60) DEF IInv, Linked
  <2> HIDE DEF t, seg
  <2>5. TableWrite(tables[t], Overwrite(tables[t].cells, seg.offset, ElemValues(i, next)), Held(i))
    BY <2>2, <2>4, OverwriteTable DEF IInv
  <2>6. SetTable(t, Overwrite(tables[t].cells, seg.offset, ElemValues(i, next)))
    BY <2>1, <2>4 DEF SetTable
  <2> QED BY <1>1, <2>4, <2>5, <2>6, SMTT(60) DEF WroteTable, TableWrite
<1>3. CASE ~(seg.mode = "active" /\ Fit(tables[t].cells, seg.offset, Len(seg.init)))
  BY <1>3 DEF Spend, ApplyElem, Fail
<1> QED BY <1>2, <1>3, SMTT(60)

\* A step leaves the memories alone, writes one, or makes one.
LEMMA MemoriesStep ==
  ASSUME IInv, [Next]_vars
  PROVE  memories' = memories \/ WroteMemory \/ MadeMemory
<1>1. CASE UNCHANGED vars
  BY <1>1 DEF vars
<1>2. CASE HostMemory
  <2> PICK m \in Mems, limits \in HostMemoryLimits :
        ~memories[m].made /\ memories' = [memories EXCEPT ![m] = NewMemory(Nobody, limits)]
    BY <1>2 DEF HostMemory
  <2> limits \in PageLimits /\ Nobody \in Refs
    BY StoreAssumption DEF Refs
  <2> QED BY DEF MadeMemory
<1>3. CASE HostTable
  BY <1>3 DEF HostTable
<1>4. ASSUME NEW i \in Insts, Instantiating(i)
      PROVE  memories' = memories \/ WroteMemory \/ MadeMemory
  <2>1. CASE BuildMemory(i)
    <3> DEFINE k == Len(memoryIndex[i]) + 1
               def == Module[i].mems[k]
    <3>1. Building(i) /\ k \in DOMAIN Module[i].mems
      BY <2>1 DEF BuildMemory
    <3>2. CASE \E m \in Mems : ~memories[m].made /\ memories' = [memories EXCEPT ![m] = NewMemory(i, def.limits)]
      <4>1. def.limits \in PageLimits /\ i \in Refs
        BY <3>1, ModuleAssumption DEF Refs
      <4> HIDE DEF def
      <4> QED BY <3>1, <3>2, <4>1 DEF MadeMemory
    <3> HIDE DEF k, def
    <3>3. memories' = memories \/ \E m \in Mems : /\ ~memories[m].made
                                                /\ memories' = [memories EXCEPT ![m] = NewMemory(i, def.limits)]
      BY <2>1 DEF BuildMemory, Fail, k, def
    <3> QED BY <3>2, <3>3
  <2>2. CASE ApplyData(i)
    BY <2>2, ApplyDataWrites, SMTT(60)
  <2>3. CASE Begin(i) \/ BuildTable(i) \/ BuildSegments(i)
    BY <2>3, SMTT(60) DEF Begin, BuildTable, BuildSegments, Fail
  <2>4. CASE ApplyElem(i) \/ Applied(i) \/ StartReturns(i) \/ StartTraps(i)
    BY <2>4 DEF Spend, ApplyElem, Applied, StartReturns, StartTraps, Fail
  <2> QED BY <1>4, <2>1, <2>2, <2>3, <2>4 DEF Instantiating
<1>5. ASSUME NEW i \in Insts, Operating(i)
      PROVE  memories' = memories \/ WroteMemory \/ MadeMemory
  <2>1. CASE MemoryOp(i)
    <3>1. memories' = memories \/ WritesMemory(i)
      BY <2>1, MemoryOpEffect DEF IInv
    <3>2. \A k \in DOMAIN memoryIndex[i] : memoryIndex[i][k] \in Mems /\ memories[memoryIndex[i][k]].made
      BY MemoryFacts DEF IInv, Linked
    <3> QED BY <3>1, <3>2 DEF WritesMemory, WroteMemory
  <2>2. CASE TableOp(i)
    BY <2>2, TableOpEffect DEF IInv
  <2>3. CASE DataDrop(i) \/ ElemDrop(i)
    BY <2>3 DEF DataDrop, ElemDrop, Outcome
  <2> QED BY <1>5, <2>1, <2>2, <2>3 DEF Operating
<1> QED BY <1>1, <1>2, <1>3, <1>4, <1>5 DEF Next

\* A step leaves the tables alone, writes one, or makes one.
LEMMA TablesStep ==
  ASSUME IInv, [Next]_vars
  PROVE  tables' = tables \/ WroteTable \/ MadeTable
<1>1. CASE UNCHANGED vars
  BY <1>1 DEF vars
<1>2. CASE HostMemory
  BY <1>2 DEF HostMemory
<1>3. CASE HostTable
  <2> PICK t \in Tabs, limits \in HostTableLimits :
        /\ ~tables[t].made /\ limits[1] <= MaxElems
        /\ tables' = [tables EXCEPT ![t] = NewTable(Nobody, limits, Nobody)]
    BY <1>3 DEF HostTable
  <2> limits \in Limits /\ Nobody \in Refs
    BY StoreAssumption DEF Refs
  <2> QED BY DEF MadeTable
<1>4. ASSUME NEW i \in Insts, Instantiating(i)
      PROVE  tables' = tables \/ WroteTable \/ MadeTable
  <2>1. CASE BuildTable(i)
    <3> DEFINE k == Len(tableIndex[i]) + 1
               def == Module[i].tabs[k]
               Made == def.limits[1] <= MaxElems /\ \E t \in Tabs, init \in {i, Nobody} :
                         ~tables[t].made /\ tables' = [tables EXCEPT ![t] = NewTable(i, def.limits, init)]
    <3>1. Building(i) /\ k \in DOMAIN Module[i].tabs
      BY <2>1 DEF BuildTable
    <3>2. CASE Made
      <4>1. Module[i].tabs \in Seq(Definitions)
        BY SegmentFacts
      <4> HIDE DEF k
      <4>3. def \in Definitions
        BY <3>1, <4>1
      <4>2. def.limits \in Limits /\ i \in Refs
        BY <4>3, SMTT(60) DEF Definitions, Refs
      <4> HIDE DEF def
      <4> QED BY <3>1, <3>2, <4>2 DEF MadeTable
    <3> HIDE DEF k, def
    <3>3. tables' = tables \/ Made
      BY <2>1 DEF BuildTable, Fail, k, def
    <3> QED BY <3>2, <3>3, SMTT(60)
  <2>2. CASE ApplyElem(i)
    BY <2>2, ApplyElemWrites
  <2>3. CASE Begin(i) \/ BuildMemory(i) \/ BuildSegments(i)
    BY <2>3, SMTT(60) DEF Begin, BuildMemory, BuildSegments, Fail
  <2>4. CASE ApplyData(i) \/ Applied(i) \/ StartReturns(i) \/ StartTraps(i)
    BY <2>4 DEF Spend, ApplyData, Applied, StartReturns, StartTraps, Fail
  <2> QED BY <1>4, <2>1, <2>2, <2>3, <2>4 DEF Instantiating
<1>5. ASSUME NEW i \in Insts, Operating(i)
      PROVE  tables' = tables \/ WroteTable \/ MadeTable
  <2>0. CanRun(i)
    BY <1>5 DEF Operating
  <2>1. CASE TableOp(i)
    <3>1. tables' = tables \/ WritesTable(i)
      BY <2>1, TableOpEffect DEF IInv
    <3>2. \A k \in DOMAIN tableIndex[i] : tableIndex[i][k] \in Tabs /\ tables[tableIndex[i][k]].made
      BY TableFacts DEF IInv, Linked
    <3> QED BY <2>0, <3>1, <3>2 DEF WritesTable, WroteTable
  <2>2. CASE MemoryOp(i)
    BY <2>2, MemoryOpEffect DEF IInv
  <2>3. CASE DataDrop(i) \/ ElemDrop(i)
    BY <2>3 DEF DataDrop, ElemDrop, Outcome
  <2> QED BY <1>5, <2>1, <2>2, <2>3 DEF Operating
<1> QED BY <1>1, <1>2, <1>3, <1>4, <1>5 DEF Next

-----------------------------------------------------------------------------
(* Type correctness *)

\* A memory or table just made has the size and limit of its definition.
LEMMA NewMemoryType ==
  ASSUME NEW owner \in Refs, NEW limits \in PageLimits
  PROVE  LET a == NewMemory(owner, limits)
         IN  /\ a \in Areas(Refs, Bytes) /\ a.made /\ a.owner = owner
             /\ a.limit = PageLimit(limits) /\ a.limit <= MaxPages
             /\ Len(a.cells) = limits[1] * PageSize /\ Pages(a) = limits[1] /\ limits[1] <= a.limit
<1>1. /\ limits[1] \in Nat /\ limits[1] <= MaxPages
      /\ PageLimit(limits) \in Nat /\ PageLimit(limits) <= MaxPages /\ limits[1] <= PageLimit(limits)
  BY StoreAssumption DEF PageLimits, Limits, PageLimit, NoMax
<1>2. limits[1] * PageSize \in Nat /\ (limits[1] * PageSize) \div PageSize = limits[1]
  BY <1>1, StoreAssumption, PagesOfPages
<1> DEFINE cells == Repeat(limits[1] * PageSize, 0)
<1>3. cells \in Seq(Bytes) /\ Len(cells) = limits[1] * PageSize
  BY <1>2, StoreAssumption, RepeatType
<1>4. NewMemory(owner, limits) = Area(owner, cells, PageLimit(limits))
  BY DEF NewMemory
<1> HIDE DEF cells
<1> QED BY <1>1, <1>2, <1>3, <1>4 DEF Area, Areas, Pages

LEMMA NewTableType ==
  ASSUME NEW owner \in Refs, NEW limits \in Limits, limits[1] <= MaxElems, NEW init \in {owner, Nobody}
  PROVE  LET a == NewTable(owner, limits, init)
         IN  /\ a \in Areas(Refs, Refs) /\ a.made /\ a.owner = owner
             /\ a.cells = Repeat(limits[1], init)
             /\ a.limit = ElemLimit(limits) /\ Len(a.cells) = limits[1] /\ limits[1] <= a.limit
<1>1. limits[1] \in Nat /\ ElemLimit(limits) \in Nat /\ limits[1] <= ElemLimit(limits)
  BY StoreAssumption DEF Limits, ElemLimit, NoMax
<1>2. init \in Refs
  BY DEF Refs
<1> DEFINE cells == Repeat(limits[1], init)
<1>3. cells \in Seq(Refs) /\ Len(cells) = limits[1]
  BY <1>1, <1>2, RepeatType
<1>4. NewTable(owner, limits, init) = Area(owner, cells, ElemLimit(limits))
  BY DEF NewTable
<1>5. NewTable(owner, limits, init).cells = cells
  BY <1>4 DEF Area
<1> HIDE DEF cells
<1>6. Area(owner, cells, ElemLimit(limits)) \in Areas(Refs, Refs)
  BY <1>1, <1>3 DEF Area, Areas
<1> QED BY <1>1, <1>3, <1>4, <1>5, <1>6 DEF Area, cells

LEMMA TypeStepAreas ==
  ASSUME IInv, [Next]_vars
  PROVE  memories' \in [Mems -> Areas(Refs, Bytes)] /\ tables' \in [Tabs -> Areas(Refs, Refs)]
<1>1. memories \in [Mems -> Areas(Refs, Bytes)] /\ tables \in [Tabs -> Areas(Refs, Refs)]
  BY DEF IInv, TypeOK
<1>2. memories' \in [Mems -> Areas(Refs, Bytes)]
  <2>1. CASE WroteMemory
    BY <1>1, <2>1 DEF WroteMemory, SetMemory, Areas
  <2>2. CASE MadeMemory
    BY <1>1, <2>2, NewMemoryType DEF MadeMemory
  <2> QED BY <1>1, <2>1, <2>2, MemoriesStep
<1>3. tables' \in [Tabs -> Areas(Refs, Refs)]
  <2>1. CASE WroteTable
    <3> PICK t \in Tabs, i \in Insts : \E cells \in Seq(Held(i)) : SetTable(t, cells)
      BY <2>1 DEF WroteTable
    <3> PICK cells \in Seq(Held(i)) : SetTable(t, cells)
      OBVIOUS
    <3>1. Held(i) \subseteq Refs
      <4>1. \A u \in Tabs : tables[u].cells \in Seq(Refs)
        BY <1>1 DEF Areas
      <4>2. \A u \in Tabs : \A j \in DOMAIN tables[u].cells : tables[u].cells[j] \in Refs
        BY <4>1
      <4>3. \A k \in DOMAIN tableIndex[i] : tableIndex[i][k] \in Tabs
        BY DEF IInv, TypeOK
      <4> QED BY <4>2, <4>3 DEF Held, Refs
    <3>2. cells \in Seq(Refs)
      BY <3>1
    <3> QED BY <1>1, <3>2, ZenonT(60) DEF SetTable, Areas
  <2>2. CASE MadeTable
    BY <1>1, <2>2, NewTableType DEF MadeTable
  <2> QED BY <1>1, <2>1, <2>2, TablesStep
<1> QED BY <1>2, <1>3

\* The links of an instance change only while it is being built, by one more.
MemoryLinked(i, m) ==
  LET k == Len(memoryIndex[i]) + 1
      def == Module[i].mems[k]
  IN  /\ Building(i) /\ k \in DOMAIN Module[i].mems
      /\ memoryIndex' = [memoryIndex EXCEPT ![i] = Append(@, m)]
      /\ \/ /\ Importable(memories[m]) /\ Acceptable(Pages(memories[m]), memories[m].limit, def.limits)
            /\ memories' = memories
         \/ ~memories[m].made /\ memories' = [memories EXCEPT ![m] = NewMemory(i, def.limits)]

TableLinked(i, t) ==
  LET k == Len(tableIndex[i]) + 1
      def == Module[i].tabs[k]
  IN  /\ Building(i) /\ k \in DOMAIN Module[i].tabs
      /\ tableIndex' = [tableIndex EXCEPT ![i] = Append(@, t)]
      /\ \/ /\ Importable(tables[t]) /\ Acceptable(Len(tables[t].cells), tables[t].limit, def.limits)
            /\ tables' = tables
         \/ /\ ~tables[t].made /\ def.limits[1] <= MaxElems
            /\ \E init \in {i, Nobody} : tables' = [tables EXCEPT ![t] = NewTable(i, def.limits, init)]

AddsMemory(i) ==
  (\E m \in Mems : MemoryLinked(i, m)) /\ UNCHANGED <<tables, phase, tableIndex, segments, busy, next, last>>
AddsTable(i) ==
  (\E t \in Tabs : TableLinked(i, t)) /\ UNCHANGED <<memories, phase, memoryIndex, segments, busy, next, last>>

\* The other ways a step of Instantiate can go.
Aborts(i) ==
  (Building(i) \/ Applying(i) \/ (busy = Nobody /\ phase[i] = "start")) /\ Fail(i)

LEMMA BuildMemorySplit ==
  ASSUME NEW i \in Insts, BuildMemory(i)
  PROVE  AddsMemory(i) \/ Aborts(i)
<1> DEFINE k == Len(memoryIndex[i]) + 1
           def == Module[i].mems[k]
<1>1. Building(i) /\ k \in DOMAIN Module[i].mems
  BY DEF BuildMemory
<1> HIDE DEF k, def
<1>2. CASE Fail(i)
  BY <1>1, <1>2 DEF Aborts
<1>3. CASE ~Fail(i)
  <2>1. \/ \E m \in Mems :
             /\ Importable(memories[m]) /\ Acceptable(Pages(memories[m]), memories[m].limit, def.limits)
             /\ memoryIndex' = [memoryIndex EXCEPT ![i] = Append(@, m)]
             /\ UNCHANGED <<memories, tables, phase, tableIndex, segments, busy, next, last>>
        \/ \E m \in Mems :
             /\ ~memories[m].made
             /\ memories' = [memories EXCEPT ![m] = NewMemory(i, def.limits)]
             /\ memoryIndex' = [memoryIndex EXCEPT ![i] = Append(@, m)]
             /\ UNCHANGED <<tables, phase, tableIndex, segments, busy, next, last>>
    BY <1>3, SMTT(60) DEF BuildMemory, k, def
  <2> QED BY <1>1, <2>1, SMTT(60) DEF AddsMemory, MemoryLinked, k, def
<1> QED BY <1>2, <1>3

LEMMA BuildTableSplit ==
  ASSUME NEW i \in Insts, BuildTable(i)
  PROVE  AddsTable(i) \/ Aborts(i)
<1> DEFINE k == Len(tableIndex[i]) + 1
           def == Module[i].tabs[k]
<1>1. Building(i) /\ k \in DOMAIN Module[i].tabs
  BY DEF BuildTable
<1> HIDE DEF k, def
<1>2. CASE Fail(i)
  BY <1>1, <1>2, SMTT(60) DEF Aborts
<1>3. CASE ~Fail(i)
  <2>1. \/ \E t \in Tabs :
             /\ Importable(tables[t]) /\ Acceptable(Len(tables[t].cells), tables[t].limit, def.limits)
             /\ tableIndex' = [tableIndex EXCEPT ![i] = Append(@, t)]
             /\ UNCHANGED <<memories, tables, phase, memoryIndex, segments, busy, next, last>>
        \/ def.limits[1] <= MaxElems /\ \E t \in Tabs, init \in {i, Nobody} :
             /\ ~tables[t].made
             /\ tables' = [tables EXCEPT ![t] = NewTable(i, def.limits, init)]
             /\ tableIndex' = [tableIndex EXCEPT ![i] = Append(@, t)]
             /\ UNCHANGED <<memories, phase, memoryIndex, segments, busy, next, last>>
    BY <1>3 DEF BuildTable, k, def
  <2> QED BY <1>1, <2>1, SMTT(60) DEF AddsTable, TableLinked, k, def
<1> QED BY <1>2, <1>3, SMTT(60)

\* The phases an instance passes through once it is built.
Advances(i) == BuildSegments(i) \/ Applied(i) \/ StartReturns(i)
Spends(i) == Applying(i) /\ (ApplyElem(i) \/ ApplyData(i)) /\ ~Fail(i)

\* The cases of a step, as the invariants need them.
LEMMA StepCases ==
  ASSUME IInv, [Next]_vars
  PROVE  \/ UNCHANGED <<phase, links, segments, busy, next, last>>
         \/ \E i \in Insts : \/ Begin(i) \/ AddsMemory(i) \/ AddsTable(i) \/ Advances(i)
                             \/ Spends(i) \/ Aborts(i)
         \/ \E i \in Insts : /\ CanRun(i) /\ Decided /\ UNCHANGED <<phase, links, busy, next>>
                             /\ UNCHANGED segments \/ DataDrop(i) \/ ElemDrop(i)
<1>1. CASE UNCHANGED vars \/ HostMemory \/ HostTable
  BY <1>1 DEF vars, HostMemory, HostTable, links, segments
<1>2. ASSUME NEW i \in Insts, Instantiating(i)
      PROVE  Begin(i) \/ AddsMemory(i) \/ AddsTable(i) \/ Advances(i) \/ Spends(i) \/ Aborts(i)
  <2>1. CASE ApplyElem(i) \/ ApplyData(i)
    BY <2>1 DEF Spend, ApplyElem, ApplyData, Spends, Aborts
  <2>2. CASE StartTraps(i)
    BY <2>2 DEF StartTraps, Aborts
  <2> QED BY <1>2, <2>1, <2>2, BuildMemorySplit, BuildTableSplit, SMTT(60) DEF Instantiating, Advances
<1>3. ASSUME NEW i \in Insts, Operating(i)
      PROVE  /\ CanRun(i) /\ Decided /\ UNCHANGED <<phase, links, busy, next>>
             /\ UNCHANGED segments \/ DataDrop(i) \/ ElemDrop(i)
  <2>1. CASE MemoryOp(i)
    BY <1>3, <2>1, MemoryOpEffect DEF IInv, Operating
  <2>2. CASE TableOp(i)
    BY <1>3, <2>2, TableOpEffect DEF IInv, Operating
  <2>3. CASE DataDrop(i) \/ ElemDrop(i)
    <3>1. last' = [ok |-> TRUE, legal |-> TRUE] /\ UNCHANGED <<phase, links, busy, next>>
      BY <2>3 DEF DataDrop, ElemDrop, Outcome
    <3>2. Decided
      BY <3>1 DEF Decided
    <3> QED BY <1>3, <2>3, <3>1, <3>2 DEF Operating
  <2> QED BY <1>3, <2>1, <2>2, <2>3 DEF Operating
<1> QED BY <1>1, <1>2, <1>3 DEF Next

\* Appending to the links of an instance that is being built.
LEMMA AppendLinks ==
  ASSUME NEW S, NEW f \in [Insts -> Seq(S)], NEW i \in Insts, NEW x \in S
  PROVE  /\ [f EXCEPT ![i] = Append(@, x)] \in [Insts -> Seq(S)]
         /\ \A j \in Insts \ {i} : [f EXCEPT ![i] = Append(@, x)][j] = f[j]
         /\ LET s == [f EXCEPT ![i] = Append(@, x)][i]
            IN  /\ Len(s) = Len(f[i]) + 1
                /\ s[Len(f[i]) + 1] = x
                /\ \A k \in DOMAIN f[i] : s[k] = f[i][k]
                /\ \A k \in DOMAIN s : k \in DOMAIN f[i] \/ k = Len(f[i]) + 1
OBVIOUS

\* Sequences as functions.
LEMMA FunctionType ==
  ASSUME NEW S, NEW T, NEW s \in Seq(T), NEW f \in [DOMAIN s -> S]
  PROVE  f \in Seq(S) /\ DOMAIN f = DOMAIN s /\ Len(f) = Len(s)
OBVIOUS

LEMMA ExceptType ==
  ASSUME NEW S, NEW s \in Seq(S), NEW k, NEW x \in S
  PROVE  /\ [s EXCEPT ![k] = x] \in Seq(S)
         /\ DOMAIN [s EXCEPT ![k] = x] = DOMAIN s
         /\ Len([s EXCEPT ![k] = x]) = Len(s)
<1>1. s \in [DOMAIN s -> S]
  OBVIOUS
<1>2. [s EXCEPT ![k] = x] \in [DOMAIN s -> S]
  BY <1>1, Zenon
<1> QED BY <1>2, FunctionType

\* Setting one flag of one instance keeps the flags what they are.
LEMMA SetFlag ==
  ASSUME NEW f \in [Insts -> Seq(BOOLEAN)], NEW g, NEW i \in Insts, NEW k,
         g = [f EXCEPT ![i][k] = TRUE]
  PROVE  /\ g \in [Insts -> Seq(BOOLEAN)]
         /\ \A j \in Insts : DOMAIN g[j] = DOMAIN f[j]
<1> DEFINE s == [f[i] EXCEPT ![k] = TRUE]
<1>1. f[i] \in Seq(BOOLEAN)
  OBVIOUS
<1>2. s \in Seq(BOOLEAN) /\ DOMAIN s = DOMAIN f[i] /\ Len(s) = Len(f[i])
  <2> DEFINE x == TRUE
  <2>1. x \in BOOLEAN /\ s = [f[i] EXCEPT ![k] = x]
    OBVIOUS
  <2> HIDE DEF x, s
  <2> QED BY <1>1, <2>1, ExceptType
<1>3. g = [f EXCEPT ![i] = s]
  OBVIOUS
<1> HIDE DEF s
<1> QED BY <1>2, <1>3

LEMMA SameLength ==
  ASSUME NEW s \in Seq(BOOLEAN), NEW t \in Seq(BOOLEAN), DOMAIN s = DOMAIN t
  PROVE  Len(s) = Len(t)
OBVIOUS

\* A segment is applied: its flag is set if it is active, and it is the next one's turn.
SpendsElem(i) ==
  /\ next \in DOMAIN Module[i].elems /\ dataDropped' = dataDropped
  /\ elemDropped' = IF Module[i].elems[next].mode = "active" THEN [elemDropped EXCEPT ![i][next] = TRUE]
                    ELSE elemDropped

SpendsData(i) ==
  LET k == next - Len(Module[i].elems)
  IN  /\ k \in DOMAIN Module[i].data /\ elemDropped' = elemDropped
      /\ dataDropped' = IF Module[i].data[k].mode = "active" THEN [dataDropped EXCEPT ![i][k] = TRUE]
                        ELSE dataDropped

LEMMA SpendCases ==
  ASSUME NEW i \in Insts, Spends(i)
  PROVE  /\ Applying(i) /\ next' = next + 1 /\ UNCHANGED <<phase, links, busy, last>>
         /\ SpendsElem(i) \/ SpendsData(i)
<1>1. CASE ApplyElem(i)
  <2> DEFINE seg == Module[i].elems[next]
             fits == Fit(tables[tableIndex[i][seg.area]].cells, seg.offset, Len(seg.init))
             new == [tables EXCEPT ![tableIndex[i][seg.area]].cells = Overwrite(@, seg.offset, ElemValues(i, next))]
  <2> HIDE DEF fits, new
  <2>1. /\ next \in DOMAIN Module[i].elems
        /\ IF seg.mode = "active" /\ ~fits THEN Fail(i)
           ELSE /\ next' = next + 1
                /\ IF seg.mode # "active" THEN UNCHANGED <<tables, elemDropped>>
                   ELSE tables' = new /\ elemDropped' = [elemDropped EXCEPT ![i][next] = TRUE]
                /\ UNCHANGED <<memories, phase, links, dataDropped, busy, last>>
    BY <1>1 DEF Spend, ApplyElem, fits, new
  <2> HIDE DEF seg
  <2>2. /\ next \in DOMAIN Module[i].elems /\ next' = next + 1 /\ dataDropped' = dataDropped
        /\ UNCHANGED <<phase, links, busy, last>>
        /\ elemDropped' = IF seg.mode = "active" THEN [elemDropped EXCEPT ![i][next] = TRUE] ELSE elemDropped
    BY <2>1 DEF Spends
  <2> QED BY <2>2, SMTT(60) DEF SpendsElem, Spends, seg
<1>2. CASE ApplyData(i)
  <2> DEFINE k == next - Len(Module[i].elems)
             seg == Module[i].data[k]
             fits == Fit(memories[memoryIndex[i][seg.area]].cells, seg.offset, Len(seg.init))
             new == [memories EXCEPT ![memoryIndex[i][seg.area]].cells = Overwrite(@, seg.offset, seg.init)]
  <2> HIDE DEF fits, new
  <2>1. /\ k \in DOMAIN Module[i].data
        /\ IF seg.mode = "active" /\ ~fits THEN Fail(i)
           ELSE /\ next' = next + 1
                /\ IF seg.mode # "active" THEN UNCHANGED <<memories, dataDropped>>
                   ELSE memories' = new /\ dataDropped' = [dataDropped EXCEPT ![i][k] = TRUE]
                /\ UNCHANGED <<tables, phase, links, elemDropped, busy, last>>
    BY <1>2 DEF Spend, ApplyData, fits, new
  <2> HIDE DEF seg, k
  <2>2. /\ k \in DOMAIN Module[i].data /\ next' = next + 1 /\ elemDropped' = elemDropped
        /\ UNCHANGED <<phase, links, busy, last>>
        /\ dataDropped' = IF seg.mode = "active" THEN [dataDropped EXCEPT ![i][k] = TRUE] ELSE dataDropped
    BY <2>1 DEF Spends
  <2> QED BY <2>2, SMTT(60) DEF SpendsData, Spends, seg, k
<1> QED BY <1>1, <1>2 DEF Spends

LEMMA TypeStepInstances ==
  ASSUME IInv, [Next]_vars
  PROVE  /\ phase' \in [Insts -> Phases]
         /\ memoryIndex' \in [Insts -> Seq(Mems)]
         /\ tableIndex' \in [Insts -> Seq(Tabs)]
         /\ busy' \in Refs
         /\ next' \in Nat
         /\ last' \in [ok : BOOLEAN, legal : BOOLEAN]
<1> USE DEF TypeOK, links, segments
<1>0. TypeOK
  BY DEF IInv
<1>1. CASE UNCHANGED <<phase, links, segments, busy, next, last>>
  BY <1>0, <1>1
<1>2. ASSUME NEW i \in Insts, Begin(i) \/ Aborts(i)
      PROVE  /\ phase' \in [Insts -> Phases] /\ busy' \in Refs
             /\ UNCHANGED <<links, segments, next, last>>
  BY <1>0, <1>2 DEF Begin, Aborts, Fail, Phases, Refs
<1>3. ASSUME NEW i \in Insts, AddsMemory(i)
      PROVE  memoryIndex' \in [Insts -> Seq(Mems)] /\ UNCHANGED <<phase, tableIndex, busy, next, last>>
  BY <1>0, <1>3, AppendLinks DEF AddsMemory, MemoryLinked
<1>4. ASSUME NEW i \in Insts, AddsTable(i)
      PROVE  tableIndex' \in [Insts -> Seq(Tabs)] /\ UNCHANGED <<phase, memoryIndex, busy, next, last>>
  BY <1>0, <1>4, AppendLinks DEF AddsTable, TableLinked
<1>5. ASSUME NEW i \in Insts, Advances(i)
      PROVE  phase' \in [Insts -> Phases] /\ busy' \in Refs /\ next' \in Nat /\ UNCHANGED <<links, last>>
  <2>1. CASE BuildSegments(i)
    BY <1>0, <2>1 DEF BuildSegments, Phases
  <2>2. CASE Applied(i)
    BY <1>0, <2>2 DEF Applied, Phases, Refs
  <2>3. CASE StartReturns(i)
    BY <1>0, <2>3 DEF StartReturns, Phases
  <2> QED BY <1>5, <2>1, <2>2, <2>3 DEF Advances
<1>6. ASSUME NEW i \in Insts, Spends(i)
      PROVE  next' \in Nat /\ UNCHANGED <<phase, links, busy, last>>
  BY <1>0, <1>6, SpendCases
<1>7. CASE Decided /\ UNCHANGED <<phase, links, busy, next>>
  BY <1>0, <1>7 DEF Decided
<1> QED BY <1>0, <1>1, <1>2, <1>3, <1>4, <1>5, <1>6, <1>7, StepCases

LEMMA TypeStepSegments ==
  ASSUME IInv, [Next]_vars
  PROVE  /\ dataDropped' \in [Insts -> Seq(BOOLEAN)]
         /\ elemDropped' \in [Insts -> Seq(BOOLEAN)]
         /\ \A i \in Insts : /\ DOMAIN dataDropped'[i] \subseteq DOMAIN Module[i].data
                             /\ DOMAIN elemDropped'[i] \subseteq DOMAIN Module[i].elems
<1>0. /\ dataDropped \in [Insts -> Seq(BOOLEAN)]
      /\ elemDropped \in [Insts -> Seq(BOOLEAN)]
      /\ \A i \in Insts : /\ DOMAIN dataDropped[i] \subseteq DOMAIN Module[i].data
                          /\ DOMAIN elemDropped[i] \subseteq DOMAIN Module[i].elems
  BY DEF IInv, TypeOK
<1>1. CASE UNCHANGED segments
  BY <1>0, <1>1 DEF segments
<1>2. ASSUME NEW i \in Insts, BuildSegments(i)
      PROVE  /\ dataDropped' \in [Insts -> Seq(BOOLEAN)]
             /\ elemDropped' \in [Insts -> Seq(BOOLEAN)]
             /\ \A j \in Insts : /\ DOMAIN dataDropped'[j] \subseteq DOMAIN Module[j].data
                                 /\ DOMAIN elemDropped'[j] \subseteq DOMAIN Module[j].elems
  <2> DEFINE ds == [k \in DOMAIN Module[i].data |-> FALSE]
             es == [k \in DOMAIN Module[i].elems |-> Module[i].elems[k].mode = "declarative"]
  <2>1. dataDropped' = [dataDropped EXCEPT ![i] = ds] /\ elemDropped' = [elemDropped EXCEPT ![i] = es]
    BY <1>2 DEF BuildSegments
  <2>2. Module[i].data \in Seq(DataSegments) /\ Module[i].elems \in Seq(ElemSegments)
    BY SegmentFacts
  <2>3. ds \in Seq(BOOLEAN) /\ DOMAIN ds = DOMAIN Module[i].data
    <3>1. ds \in [DOMAIN Module[i].data -> BOOLEAN]
      BY Zenon
    <3> QED BY <2>2, <3>1, FunctionType
  <2>4. es \in Seq(BOOLEAN) /\ DOMAIN es = DOMAIN Module[i].elems
    <3>1. es \in [DOMAIN Module[i].elems -> BOOLEAN]
      BY Zenon
    <3> QED BY <2>2, <3>1, FunctionType
  <2> HIDE DEF ds, es
  <2> QED BY <1>0, <2>1, <2>3, <2>4
<1>3. ASSUME NEW i \in Insts, NEW k, dataDropped' = [dataDropped EXCEPT ![i][k] = TRUE], elemDropped' = elemDropped
      PROVE  /\ dataDropped' \in [Insts -> Seq(BOOLEAN)]
             /\ \A j \in Insts : DOMAIN dataDropped'[j] = DOMAIN dataDropped[j]
  <2>1. dataDropped \in [Insts -> Seq(BOOLEAN)]
    BY <1>0, Zenon
  <2>2. dataDropped' = [dataDropped EXCEPT ![i][k] = TRUE]
    BY <1>3, Zenon
  <2> QED BY <2>1, <2>2, SetFlag, Zenon
<1>4. ASSUME NEW i \in Insts, NEW k, elemDropped' = [elemDropped EXCEPT ![i][k] = TRUE], dataDropped' = dataDropped
      PROVE  /\ elemDropped' \in [Insts -> Seq(BOOLEAN)]
             /\ \A j \in Insts : DOMAIN elemDropped'[j] = DOMAIN elemDropped[j]
  <2>1. elemDropped \in [Insts -> Seq(BOOLEAN)]
    BY <1>0, Zenon
  <2>2. elemDropped' = [elemDropped EXCEPT ![i][k] = TRUE]
    BY <1>4, Zenon
  <2> QED BY <2>1, <2>2, SetFlag, Zenon
<1>5. ASSUME NEW i \in Insts, Spends(i)
      PROVE  \/ UNCHANGED segments
             \/ \E k : dataDropped' = [dataDropped EXCEPT ![i][k] = TRUE] /\ elemDropped' = elemDropped
             \/ \E k : elemDropped' = [elemDropped EXCEPT ![i][k] = TRUE] /\ dataDropped' = dataDropped
  BY <1>5, SpendCases DEF segments, SpendsElem, SpendsData
<1>6. ASSUME NEW i \in Insts, DataDrop(i) \/ ElemDrop(i)
      PROVE  \/ \E k : dataDropped' = [dataDropped EXCEPT ![i][k] = TRUE] /\ elemDropped' = elemDropped
             \/ \E k : elemDropped' = [elemDropped EXCEPT ![i][k] = TRUE] /\ dataDropped' = dataDropped
  BY <1>0, <1>6 DEF DataDrop, ElemDrop, Outcome
<1>7. ASSUME NEW i \in Insts, Begin(i) \/ AddsMemory(i) \/ AddsTable(i) \/ Aborts(i) \/ Applied(i) \/ StartReturns(i)
      PROVE  UNCHANGED segments
  BY <1>7 DEF Begin, AddsMemory, AddsTable, Aborts, Fail, Applied, StartReturns
<1> QED BY <1>0, <1>1, <1>2, <1>3, <1>4, <1>5, <1>6, <1>7, StepCases DEF Advances, segments

LEMMA TypeStep ==
  ASSUME IInv, [Next]_vars
  PROVE  TypeOK'
BY TypeStepAreas, TypeStepInstances, TypeStepSegments DEF TypeOK

-----------------------------------------------------------------------------
(* The inductive invariant *)

\* What a step can do to one memory: nothing, a legal write, or making it.
LEMMA OneMemory ==
  ASSUME IInv, [Next]_vars, NEW m \in Mems
  PROVE  \/ memories'[m] = memories[m]
         \/ \E cells \in Seq(Bytes) : /\ memories'[m] = [memories[m] EXCEPT !.cells = cells]
                                      /\ MemoryWrite(memories[m], cells) /\ memories[m].made
         \/ \E owner \in Refs, limits \in PageLimits :
              ~memories[m].made /\ memories'[m] = NewMemory(owner, limits)
<1>1. memories \in [Mems -> Areas(Refs, Bytes)]
  BY DEF IInv, TypeOK
<1>2. CASE WroteMemory
  BY <1>1, <1>2 DEF WroteMemory, SetMemory
<1>3. CASE MadeMemory
  BY <1>1, <1>3 DEF MadeMemory
<1> QED BY <1>2, <1>3, MemoriesStep

LEMMA OneTable ==
  ASSUME IInv, [Next]_vars, NEW t \in Tabs
  PROVE  \/ tables'[t] = tables[t]
         \/ \E i \in Insts : \E cells \in Seq(Held(i)) :
              /\ tables'[t] = [tables[t] EXCEPT !.cells = cells]
              /\ TableWrite(tables[t], cells, Held(i)) /\ (CanRun(i) \/ Applying(i)) /\ tables[t].made
         \/ \E owner \in Refs, limits \in Limits : \E init \in {owner, Nobody} :
              /\ ~tables[t].made /\ (owner = Nobody \/ Building(owner)) /\ limits[1] <= MaxElems
              /\ tables'[t] = NewTable(owner, limits, init)
<1>1. tables \in [Tabs -> Areas(Refs, Refs)]
  BY DEF IInv, TypeOK
<1>2. CASE WroteTable
  BY <1>1, <1>2 DEF WroteTable, SetTable
<1>3. CASE MadeTable
  BY <1>1, <1>3 DEF MadeTable
<1> QED BY <1>2, <1>3, TablesStep

\* Areas only grow, and what is in them stays where it is when they do.
GrownMemory(m) == Grown(memories[m], memories'[m]) /\ (memories[m].made => Pages(memories'[m]) >= Pages(memories[m]))
GrownTable(t) == Grown(tables[t], tables'[t])

\* The size in pages grows with the size in bytes.
LEMMA PagesMonotone ==
  ASSUME NEW p \in Nat, p > 0, NEW x \in Nat, NEW y \in Nat, x <= y
  PROVE  x \div p <= y \div p
OBVIOUS

LEMMA MemoryGrowth ==
  ASSUME IInv, [Next]_vars, NEW m \in Mems
  PROVE  GrownMemory(m)
<1>1. memories[m] \in Areas(Refs, Bytes)
  BY DEF IInv, TypeOK
<1>2. Len(memories[m].cells) \in Nat
  BY <1>1 DEF Areas
<1>3. CASE memories'[m] = memories[m]
  BY <1>1, <1>2, <1>3, StoreAssumption DEF GrownMemory, Grown, Pages
<1>4. ASSUME NEW cells \in Seq(Bytes), memories'[m] = [memories[m] EXCEPT !.cells = cells],
             MemoryWrite(memories[m], cells)
      PROVE  GrownMemory(m)
  <2>1. /\ memories'[m].cells = cells /\ memories'[m].made = memories[m].made
        /\ memories'[m].owner = memories[m].owner /\ memories'[m].limit = memories[m].limit
    BY <1>1, <1>4 DEF Areas
  <2>2. Len(cells) >= Len(memories[m].cells) /\ Len(cells) \in Nat
    BY <1>4 DEF MemoryWrite, Keeps
  <2>3. Len(memories[m].cells) \div PageSize <= Len(cells) \div PageSize
    BY <1>2, <2>2, StoreAssumption, PagesMonotone
  <2>4. Len(memories[m].cells) \div PageSize \in Int /\ Len(cells) \div PageSize \in Int
    BY <1>2, <2>2, StoreAssumption, SMTT(60)
  <2> QED BY <1>2, <2>1, <2>2, <2>3, <2>4 DEF GrownMemory, Grown, Pages
<1>5. CASE ~memories[m].made
  BY <1>5 DEF GrownMemory, Grown
<1> QED BY <1>3, <1>4, <1>5, OneMemory

LEMMA TableGrowth ==
  ASSUME IInv, [Next]_vars, NEW t \in Tabs
  PROVE  GrownTable(t)
<1>1. tables[t] \in Areas(Refs, Refs)
  BY DEF IInv, TypeOK
<1>2. Len(tables[t].cells) \in Nat
  BY <1>1 DEF Areas
<1>3. CASE tables'[t] = tables[t]
  BY <1>2, <1>3 DEF GrownTable, Grown
<1>4. ASSUME NEW i \in Insts, NEW cells \in Seq(Held(i)), tables'[t] = [tables[t] EXCEPT !.cells = cells],
             TableWrite(tables[t], cells, Held(i))
      PROVE  GrownTable(t)
  BY <1>1, <1>4 DEF GrownTable, Grown, TableWrite, Keeps, Areas
<1>5. CASE ~tables[t].made
  BY <1>5 DEF GrownTable, Grown
<1> QED BY <1>3, <1>4, <1>5, OneTable

LEMMA SizedStep ==
  ASSUME IInv, [Next]_vars
  PROVE  Sized'
<1>1. ASSUME NEW m \in Mems
      PROVE  SizedMemory(memories'[m])
  <2>0. memories[m] \in Areas(Refs, Bytes) /\ SizedMemory(memories[m])
    BY DEF IInv, TypeOK, Sized
  <2>1. CASE memories'[m] = memories[m]
    BY <2>0, <2>1
  <2>2. ASSUME NEW cells \in Seq(Bytes), memories'[m] = [memories[m] EXCEPT !.cells = cells],
               MemoryWrite(memories[m], cells)
        PROVE  memories[m].made => SizedMemory(memories'[m])
    <3>1. /\ memories'[m].cells = cells /\ memories'[m].limit = memories[m].limit
          /\ memories'[m].made = memories[m].made
      BY <2>0, <2>2 DEF Areas
    <3>2. memories[m].limit <= MaxPages
      BY <2>0 DEF SizedMemory
    <3>3. /\ Len(cells) = (Len(cells) \div PageSize) * PageSize
          /\ Len(cells) \div PageSize <= memories[m].limit
      BY <2>2 DEF MemoryWrite
    <3> QED BY <3>1, <3>2, <3>3 DEF Pages, SizedMemory
  <2>3. ASSUME NEW owner \in Refs, NEW limits \in PageLimits, memories'[m] = NewMemory(owner, limits)
        PROVE  SizedMemory(memories'[m])
    BY <2>3, NewMemoryType DEF SizedMemory
  <2> QED BY <2>1, <2>2, <2>3, OneMemory
<1>2. ASSUME NEW t \in Tabs
      PROVE  SizedTable(tables'[t])
  <2>0. tables[t] \in Areas(Refs, Refs) /\ SizedTable(tables[t])
    BY DEF IInv, TypeOK, Sized
  <2>1. CASE tables'[t] = tables[t]
    BY <2>0, <2>1
  <2>2. ASSUME NEW i \in Insts, NEW cells \in Seq(Held(i)), tables'[t] = [tables[t] EXCEPT !.cells = cells],
               TableWrite(tables[t], cells, Held(i))
        PROVE  tables[t].made => SizedTable(tables'[t])
    BY <2>0, <2>2 DEF TableWrite, Areas, SizedTable
  <2>3. ASSUME NEW owner \in Refs, NEW limits \in Limits, NEW init \in {owner, Nobody}, limits[1] <= MaxElems,
               tables'[t] = NewTable(owner, limits, init)
        PROVE  SizedTable(tables'[t])
    BY <2>3, NewTableType DEF SizedTable
  <2> QED BY <2>1, <2>2, <2>3, OneTable
<1> QED BY <1>1, <1>2 DEF Sized, SizedMemory, SizedTable, Pages

LEMMA MemoryIndexStep ==
  ASSUME IInv, [Next]_vars
  PROVE  memoryIndex' = memoryIndex \/ \E i \in Insts, m \in Mems : MemoryLinked(i, m)
<1>1. ASSUME NEW i \in Insts, Begin(i) \/ AddsTable(i) \/ Advances(i) \/ Aborts(i)
      PROVE  memoryIndex' = memoryIndex
  BY <1>1 DEF Begin, AddsTable, Advances, BuildSegments, Applied, StartReturns, Aborts, Fail, links
<1>2. ASSUME NEW i \in Insts, Spends(i)
      PROVE  memoryIndex' = memoryIndex
  BY <1>2, SpendCases DEF links
<1>3. ASSUME NEW i \in Insts, AddsMemory(i)
      PROVE  \E m \in Mems : MemoryLinked(i, m)
  BY <1>3 DEF AddsMemory
<1> QED BY <1>1, <1>2, <1>3, StepCases DEF links

LEMMA TableIndexStep ==
  ASSUME IInv, [Next]_vars
  PROVE  tableIndex' = tableIndex \/ \E i \in Insts, t \in Tabs : TableLinked(i, t)
<1>1. ASSUME NEW i \in Insts, Begin(i) \/ AddsMemory(i) \/ Advances(i) \/ Aborts(i)
      PROVE  tableIndex' = tableIndex
  BY <1>1 DEF Begin, AddsMemory, Advances, BuildSegments, Applied, StartReturns, Aborts, Fail, links
<1>2. ASSUME NEW i \in Insts, Spends(i)
      PROVE  tableIndex' = tableIndex
  BY <1>2, SpendCases DEF links
<1>3. ASSUME NEW i \in Insts, AddsTable(i)
      PROVE  \E t \in Tabs : TableLinked(i, t)
  BY <1>3 DEF AddsTable
<1> QED BY <1>1, <1>2, <1>3, StepCases DEF links

LEMMA LinkedStep ==
  ASSUME IInv, [Next]_vars
  PROVE  Linked'
<1>1. \A i \in Insts : Len(memoryIndex'[i]) <= Len(Module[i].mems)
                       /\ \A k \in DOMAIN memoryIndex'[i] : memories'[memoryIndex'[i][k]].made
  <2>1. \A m \in Mems : memories[m].made => memories'[m].made
    BY MemoryGrowth DEF GrownMemory, Grown
  <2>2. memoryIndex \in [Insts -> Seq(Mems)] /\ memories \in [Mems -> Areas(Refs, Bytes)]
    BY DEF IInv, TypeOK
  <2>3. \A i \in Insts : Len(memoryIndex[i]) <= Len(Module[i].mems)
                         /\ \A k \in DOMAIN memoryIndex[i] : memoryIndex[i][k] \in Mems /\ memories[memoryIndex[i][k]].made
    BY <2>2 DEF IInv, Linked
  <2>4. CASE memoryIndex' = memoryIndex
    BY <2>1, <2>3, <2>4
  <2>5. ASSUME NEW i \in Insts, NEW m \in Mems, MemoryLinked(i, m)
        PROVE  \A j \in Insts : Len(memoryIndex'[j]) <= Len(Module[j].mems)
                 /\ \A k \in DOMAIN memoryIndex'[j] : memories'[memoryIndex'[j][k]].made
    <3>1. memoryIndex' = [memoryIndex EXCEPT ![i] = Append(@, m)]
      BY <2>5 DEF MemoryLinked
    <3>2. memories'[m].made
      <4>1. CASE memories[m].made
        BY <2>1, <4>1
      <4>2. CASE ~memories[m].made
        BY <2>2, <2>5, <4>2 DEF MemoryLinked, Importable, NewMemory, Area
      <4> QED BY <4>1, <4>2
    <3>3. Len(memoryIndex[i]) + 1 <= Len(Module[i].mems)
      <4>1. Len(memoryIndex[i]) + 1 \in DOMAIN Module[i].mems
        BY <2>5 DEF MemoryLinked
      <4>2. Module[i].mems \in Seq(Definitions)
        BY SegmentFacts
      <4> QED BY <4>1, <4>2
    <3>4. /\ \A j \in Insts \ {i} : memoryIndex'[j] = memoryIndex[j]
          /\ Len(memoryIndex'[i]) = Len(memoryIndex[i]) + 1
          /\ memoryIndex'[i][Len(memoryIndex[i]) + 1] = m
          /\ \A k \in DOMAIN memoryIndex[i] : memoryIndex'[i][k] = memoryIndex[i][k]
          /\ \A k \in DOMAIN memoryIndex'[i] : k \in DOMAIN memoryIndex[i] \/ k = Len(memoryIndex[i]) + 1
      BY <2>2, <3>1, AppendLinks
    <3> QED BY <2>1, <2>3, <3>2, <3>3, <3>4
  <2> QED BY <2>4, <2>5, MemoryIndexStep
<1>2. \A i \in Insts : Len(tableIndex'[i]) <= Len(Module[i].tabs)
                       /\ \A k \in DOMAIN tableIndex'[i] : tables'[tableIndex'[i][k]].made
  <2>1. \A t \in Tabs : tables[t].made => tables'[t].made
    BY TableGrowth DEF GrownTable, Grown
  <2>2. tableIndex \in [Insts -> Seq(Tabs)] /\ tables \in [Tabs -> Areas(Refs, Refs)]
    BY DEF IInv, TypeOK
  <2>3. \A i \in Insts : Len(tableIndex[i]) <= Len(Module[i].tabs)
                         /\ \A k \in DOMAIN tableIndex[i] : tableIndex[i][k] \in Tabs /\ tables[tableIndex[i][k]].made
    BY <2>2 DEF IInv, Linked
  <2>4. CASE tableIndex' = tableIndex
    BY <2>1, <2>3, <2>4
  <2>5. ASSUME NEW i \in Insts, NEW t \in Tabs, TableLinked(i, t)
        PROVE  \A j \in Insts : Len(tableIndex'[j]) <= Len(Module[j].tabs)
                 /\ \A k \in DOMAIN tableIndex'[j] : tables'[tableIndex'[j][k]].made
    <3>1. tableIndex' = [tableIndex EXCEPT ![i] = Append(@, t)]
      BY <2>5 DEF TableLinked
    <3>2. tables'[t].made
      <4>1. CASE tables[t].made
        BY <2>1, <4>1
      <4>2. CASE ~tables[t].made
        BY <2>2, <2>5, <4>2 DEF TableLinked, Importable, NewTable, Area
      <4> QED BY <4>1, <4>2
    <3>3. Len(tableIndex[i]) + 1 <= Len(Module[i].tabs)
      <4>1. Len(tableIndex[i]) + 1 \in DOMAIN Module[i].tabs
        BY <2>5 DEF TableLinked
      <4>2. Module[i].tabs \in Seq(Definitions)
        BY SegmentFacts
      <4> QED BY <4>1, <4>2
    <3>4. /\ \A j \in Insts \ {i} : tableIndex'[j] = tableIndex[j]
          /\ Len(tableIndex'[i]) = Len(tableIndex[i]) + 1
          /\ tableIndex'[i][Len(tableIndex[i]) + 1] = t
          /\ \A k \in DOMAIN tableIndex[i] : tableIndex'[i][k] = tableIndex[i][k]
          /\ \A k \in DOMAIN tableIndex'[i] : k \in DOMAIN tableIndex[i] \/ k = Len(tableIndex[i]) + 1
      BY <2>2, <3>1, AppendLinks
    <3> QED BY <2>1, <2>3, <3>2, <3>3, <3>4
  <2> QED BY <2>4, <2>5, TableIndexStep
<1> QED BY <1>1, <1>2 DEF Linked

\* The flags keep their number, except when BuildSegments makes them.
LEMMA FlagsStep ==
  ASSUME IInv, [Next]_vars, NEW j \in Insts
  PROVE  IF BuildSegments(j)
         THEN Len(dataDropped'[j]) = Len(Module[j].data) /\ Len(elemDropped'[j]) = Len(Module[j].elems)
         ELSE Len(dataDropped'[j]) = Len(dataDropped[j]) /\ Len(elemDropped'[j]) = Len(elemDropped[j])
<1>0. dataDropped \in [Insts -> Seq(BOOLEAN)] /\ elemDropped \in [Insts -> Seq(BOOLEAN)]
  BY DEF IInv, TypeOK
<1>1. ASSUME NEW i \in Insts, NEW k, dataDropped' = [dataDropped EXCEPT ![i][k] = TRUE], elemDropped' = elemDropped
      PROVE  Len(dataDropped'[j]) = Len(dataDropped[j]) /\ Len(elemDropped'[j]) = Len(elemDropped[j])
  <2>1. dataDropped \in [Insts -> Seq(BOOLEAN)]
    BY <1>0, Zenon
  <2>2. dataDropped' = [dataDropped EXCEPT ![i][k] = TRUE]
    BY <1>1, Zenon
  <2>3. /\ dataDropped' \in [Insts -> Seq(BOOLEAN)]
        /\ \A m \in Insts : DOMAIN dataDropped'[m] = DOMAIN dataDropped[m]
    BY <2>1, <2>2, SetFlag, Zenon
  <2>4. /\ dataDropped[j] \in Seq(BOOLEAN) /\ dataDropped'[j] \in Seq(BOOLEAN)
        /\ DOMAIN dataDropped[j] = DOMAIN dataDropped'[j]
    BY <2>1, <2>3
  <2>5. Len(dataDropped[j]) = Len(dataDropped'[j])
    BY <2>4, SameLength, Zenon
  <2> QED BY <1>1, <2>5, Zenon
<1>2. ASSUME NEW i \in Insts, NEW k, elemDropped' = [elemDropped EXCEPT ![i][k] = TRUE], dataDropped' = dataDropped
      PROVE  Len(dataDropped'[j]) = Len(dataDropped[j]) /\ Len(elemDropped'[j]) = Len(elemDropped[j])
  <2>1. elemDropped \in [Insts -> Seq(BOOLEAN)]
    BY <1>0, Zenon
  <2>2. elemDropped' = [elemDropped EXCEPT ![i][k] = TRUE]
    BY <1>2, Zenon
  <2>3. /\ elemDropped' \in [Insts -> Seq(BOOLEAN)]
        /\ \A m \in Insts : DOMAIN elemDropped'[m] = DOMAIN elemDropped[m]
    BY <2>1, <2>2, SetFlag, Zenon
  <2>4. /\ elemDropped[j] \in Seq(BOOLEAN) /\ elemDropped'[j] \in Seq(BOOLEAN)
        /\ DOMAIN elemDropped[j] = DOMAIN elemDropped'[j]
    BY <2>1, <2>3
  <2>5. Len(elemDropped[j]) = Len(elemDropped'[j])
    BY <2>4, SameLength, Zenon
  <2> QED BY <1>2, <2>5, Zenon
<1>3. ASSUME NEW i \in Insts, BuildSegments(i)
      PROVE  \/ j = i /\ Len(dataDropped'[j]) = Len(Module[j].data) /\ Len(elemDropped'[j]) = Len(Module[j].elems)
             \/ j # i /\ dataDropped'[j] = dataDropped[j] /\ elemDropped'[j] = elemDropped[j]
  <2> DEFINE ds == [k \in DOMAIN Module[i].data |-> FALSE]
             es == [k \in DOMAIN Module[i].elems |-> Module[i].elems[k].mode = "declarative"]
  <2>1. dataDropped' = [dataDropped EXCEPT ![i] = ds] /\ elemDropped' = [elemDropped EXCEPT ![i] = es]
    BY <1>3 DEF BuildSegments
  <2>2. Module[i].data \in Seq(DataSegments) /\ Module[i].elems \in Seq(ElemSegments)
    BY SegmentFacts
  <2>3. ds \in [DOMAIN Module[i].data -> BOOLEAN] /\ es \in [DOMAIN Module[i].elems -> BOOLEAN]
    BY Zenon
  <2> HIDE DEF ds, es
  <2>4. Len(ds) = Len(Module[i].data) /\ Len(es) = Len(Module[i].elems)
    BY <2>2, <2>3, FunctionType
  <2> QED BY <1>0, <2>1, <2>4
<1>4. ASSUME NEW i \in Insts, Spends(i)
      PROVE  \/ UNCHANGED segments
             \/ \E k : dataDropped' = [dataDropped EXCEPT ![i][k] = TRUE] /\ elemDropped' = elemDropped
             \/ \E k : elemDropped' = [elemDropped EXCEPT ![i][k] = TRUE] /\ dataDropped' = dataDropped
  BY <1>4, SpendCases DEF segments, SpendsElem, SpendsData
<1>5. ASSUME NEW i \in Insts, DataDrop(i) \/ ElemDrop(i)
      PROVE  \/ \E k : dataDropped' = [dataDropped EXCEPT ![i][k] = TRUE] /\ elemDropped' = elemDropped
             \/ \E k : elemDropped' = [elemDropped EXCEPT ![i][k] = TRUE] /\ dataDropped' = dataDropped
  BY <1>5 DEF DataDrop, ElemDrop, Outcome
<1>6. ASSUME NEW i \in Insts, Begin(i) \/ AddsMemory(i) \/ AddsTable(i) \/ Aborts(i) \/ Applied(i) \/ StartReturns(i)
      PROVE  UNCHANGED segments
  BY <1>6 DEF Begin, AddsMemory, AddsTable, Aborts, Fail, Applied, StartReturns
<1>7. ASSUME UNCHANGED segments
      PROVE  Len(dataDropped'[j]) = Len(dataDropped[j]) /\ Len(elemDropped'[j]) = Len(elemDropped[j])
  BY <1>7 DEF segments
<1>8. CASE BuildSegments(j)
  BY <1>3, <1>8
<1>9. CASE ~BuildSegments(j)
  BY <1>1, <1>2, <1>3, <1>4, <1>5, <1>6, <1>7, <1>9, StepCases DEF Advances, segments
<1> QED BY <1>8, <1>9

\* Once an instance is built it stays so.
LEMMA BuiltStays ==
  ASSUME IInv, [Next]_vars, NEW j \in Insts, Built(j)
  PROVE  Built(j)'
<1>1. Len(memoryIndex'[j]) = Len(Module[j].mems)
  <2>1. memoryIndex \in [Insts -> Seq(Mems)] /\ Module[j].mems \in Seq(Definitions)
    BY SegmentFacts DEF IInv, TypeOK
  <2>2. ASSUME NEW i \in Insts, NEW m \in Mems, MemoryLinked(i, m)
        PROVE  memoryIndex'[j] = memoryIndex[j]
    <3>1. i # j
      <4>1. Len(memoryIndex[i]) + 1 \in DOMAIN Module[i].mems
        BY <2>2 DEF MemoryLinked
      <4>2. ~(Len(memoryIndex[j]) + 1 \in DOMAIN Module[j].mems)
        BY <2>1 DEF Built
      <4> QED BY <4>1, <4>2
    <3> QED BY <2>1, <2>2, <3>1 DEF MemoryLinked
  <2> QED BY <2>2, MemoryIndexStep DEF Built
<1>2. Len(tableIndex'[j]) = Len(Module[j].tabs)
  <2>1. tableIndex \in [Insts -> Seq(Tabs)] /\ Module[j].tabs \in Seq(Definitions)
    BY SegmentFacts DEF IInv, TypeOK
  <2>2. ASSUME NEW i \in Insts, NEW t \in Tabs, TableLinked(i, t)
        PROVE  tableIndex'[j] = tableIndex[j]
    <3>1. i # j
      <4>1. Len(tableIndex[i]) + 1 \in DOMAIN Module[i].tabs
        BY <2>2 DEF TableLinked
      <4>2. ~(Len(tableIndex[j]) + 1 \in DOMAIN Module[j].tabs)
        BY <2>1 DEF Built
      <4> QED BY <4>1, <4>2
    <3> QED BY <2>1, <2>2, <3>1 DEF TableLinked
  <2> QED BY <2>2, TableIndexStep DEF Built
<1> QED BY <1>1, <1>2, FlagsStep DEF Built

\* How the phases move.
LEMMA PhaseStep ==
  ASSUME IInv, [Next]_vars
  PROVE  \/ UNCHANGED <<phase, busy>>
         \/ \E i \in Insts : Begin(i) \/ Advances(i) \/ Aborts(i)
<1>1. ASSUME NEW i \in Insts, AddsMemory(i) \/ AddsTable(i) \/ Spends(i)
      PROVE  UNCHANGED <<phase, busy>>
  BY <1>1, SpendCases DEF AddsMemory, AddsTable
<1> QED BY <1>1, StepCases

LEMMA StagedStep ==
  ASSUME IInv, [Next]_vars
  PROVE  Staged'
<1>0. /\ phase \in [Insts -> Phases] /\ busy \in Refs /\ Nobody \notin Insts
      /\ \A j \in Insts : phase[j] \in {"build", "apply"} <=> busy = j
      /\ \A j \in Insts : phase[j] \in {"apply", "start", "live"} => Built(j)
  BY StoreAssumption DEF IInv, TypeOK, Staged
<1>1. \A j \in Insts : phase'[j] \in {"build", "apply"} <=> busy' = j
  <2>1. CASE UNCHANGED <<phase, busy>>
    BY <1>0, <2>1
  <2>2. ASSUME NEW i \in Insts, Begin(i)
        PROVE  \A j \in Insts : phase'[j] \in {"build", "apply"} <=> busy' = j
    BY <1>0, <2>2 DEF Begin
  <2>3. ASSUME NEW i \in Insts, Aborts(i)
        PROVE  \A j \in Insts : phase'[j] \in {"build", "apply"} <=> busy' = j
    BY <1>0, <2>3 DEF Aborts, Fail, Building, Applying
  <2>4. ASSUME NEW i \in Insts, BuildSegments(i)
        PROVE  \A j \in Insts : phase'[j] \in {"build", "apply"} <=> busy' = j
    BY <1>0, <2>4 DEF BuildSegments, Building
  <2>5. ASSUME NEW i \in Insts, Applied(i)
        PROVE  \A j \in Insts : phase'[j] \in {"build", "apply"} <=> busy' = j
    BY <1>0, <2>5 DEF Applied, Applying
  <2>6. ASSUME NEW i \in Insts, StartReturns(i)
        PROVE  \A j \in Insts : phase'[j] \in {"build", "apply"} <=> busy' = j
    BY <1>0, <2>6 DEF StartReturns
  <2> QED BY <2>1, <2>2, <2>3, <2>4, <2>5, <2>6, PhaseStep DEF Advances
<1>2. ASSUME NEW j \in Insts, phase'[j] \in {"apply", "start", "live"}
      PROVE  Built(j)'
  <2>1. CASE phase[j] \in {"apply", "start", "live"}
    BY <1>0, <2>1, BuiltStays
  <2>2. CASE phase[j] \notin {"apply", "start", "live"}
    <3>1. phase'[j] # phase[j]
      BY <1>2, <2>2
    <3>2. BuildSegments(j)
      <4>1. ASSUME NEW i \in Insts, Begin(i) \/ Aborts(i)
            PROVE  FALSE
        BY <1>0, <1>2, <3>1, <4>1 DEF Begin, Aborts, Fail
      <4>2. ASSUME NEW i \in Insts, Applied(i) \/ StartReturns(i)
            PROVE  FALSE
        BY <1>0, <2>2, <3>1, <4>2 DEF Applied, Applying, StartReturns
      <4>3. ASSUME NEW i \in Insts, BuildSegments(i)
            PROVE  i = j
        BY <1>0, <3>1, <4>3 DEF BuildSegments
      <4> QED BY <3>1, <4>1, <4>2, <4>3, PhaseStep DEF Advances
    <3>3. /\ Len(memoryIndex[j]) = Len(Module[j].mems) /\ Len(tableIndex[j]) = Len(Module[j].tabs)
          /\ UNCHANGED links
      BY <3>2 DEF BuildSegments
    <3>4. Len(dataDropped'[j]) = Len(Module[j].data) /\ Len(elemDropped'[j]) = Len(Module[j].elems)
      BY <3>2, FlagsStep
    <3> QED BY <3>3, <3>4 DEF Built, links
  <2> QED BY <2>1, <2>2
<1> QED BY <1>1, <1>2 DEF Staged

-----------------------------------------------------------------------------
(* Segments are spent in their turn *)

\* Setting one flag of one instance takes no flag back.
LEMMA FlagStays ==
  ASSUME NEW f \in [Insts -> Seq(BOOLEAN)], NEW g, NEW i \in Insts, NEW k,
         g = [f EXCEPT ![i][k] = TRUE], NEW j \in Insts, NEW l \in DOMAIN f[j], f[j][l]
  PROVE  g[j][l]
<1> DEFINE s == [f[i] EXCEPT ![k] = TRUE]
<1>1. g = [f EXCEPT ![i] = s]
  OBVIOUS
<1>2. CASE j # i
  <2> HIDE DEF s
  <2>1. g[j] = f[j]
    BY <1>1, <1>2
  <2> QED BY <2>1, Zenon
<1>3. CASE j = i
  <2>1. g[j] = s
    <3> HIDE DEF s
    <3> QED BY <1>1, <1>3
  <2>2. l \in DOMAIN f[i] /\ f[i][l]
    BY <1>3, Zenon
  <2>3. CASE l = k
    <3>1. s[l] = TRUE
      BY <2>2, <2>3
    <3> HIDE DEF s
    <3> QED BY <2>1, <3>1, Zenon
  <2>4. CASE l # k
    <3>1. s[l] = f[i][l]
      BY <2>2, <2>4, Zenon
    <3> HIDE DEF s
    <3> QED BY <2>1, <2>2, <3>1, Zenon
  <2> QED BY <2>3, <2>4
<1> QED BY <1>2, <1>3

\* A segment that has been spent stays spent, unless the instance is built.
LEMMA SpentStays ==
  ASSUME IInv, [Next]_vars, NEW j \in Insts, ~BuildSegments(j)
  PROVE  /\ \A l \in DOMAIN dataDropped[j] : dataDropped[j][l] => dataDropped'[j][l]
         /\ \A l \in DOMAIN elemDropped[j] : elemDropped[j][l] => elemDropped'[j][l]
<1>0. dataDropped \in [Insts -> Seq(BOOLEAN)] /\ elemDropped \in [Insts -> Seq(BOOLEAN)]
  BY DEF IInv, TypeOK
<1>1. CASE UNCHANGED segments
  BY <1>1 DEF segments
<1>2. ASSUME NEW i \in Insts, BuildSegments(i)
      PROVE  dataDropped'[j] = dataDropped[j] /\ elemDropped'[j] = elemDropped[j]
  <2>1. i # j
    BY <1>2
  <2> QED BY <1>0, <1>2, <2>1 DEF BuildSegments
<1>3. CASE \E i \in Insts : \E k : dataDropped' = [dataDropped EXCEPT ![i][k] = TRUE] /\ elemDropped' = elemDropped
  BY <1>0, <1>3, FlagStays, Zenon
<1>4. CASE \E i \in Insts : \E k : elemDropped' = [elemDropped EXCEPT ![i][k] = TRUE] /\ dataDropped' = dataDropped
  BY <1>0, <1>4, FlagStays, Zenon
<1>5. ASSUME NEW i \in Insts, Spends(i)
      PROVE  \/ UNCHANGED segments
             \/ \E k : dataDropped' = [dataDropped EXCEPT ![i][k] = TRUE] /\ elemDropped' = elemDropped
             \/ \E k : elemDropped' = [elemDropped EXCEPT ![i][k] = TRUE] /\ dataDropped' = dataDropped
  BY <1>5, SpendCases DEF segments, SpendsElem, SpendsData
<1>6. ASSUME NEW i \in Insts, DataDrop(i) \/ ElemDrop(i)
      PROVE  \/ \E k : dataDropped' = [dataDropped EXCEPT ![i][k] = TRUE] /\ elemDropped' = elemDropped
             \/ \E k : elemDropped' = [elemDropped EXCEPT ![i][k] = TRUE] /\ dataDropped' = dataDropped
  BY <1>6 DEF DataDrop, ElemDrop, Outcome
<1>7. ASSUME NEW i \in Insts, Begin(i) \/ AddsMemory(i) \/ AddsTable(i) \/ Aborts(i) \/ Applied(i) \/ StartReturns(i)
      PROVE  UNCHANGED segments
  BY <1>7 DEF Begin, AddsMemory, AddsTable, Aborts, Fail, Applied, StartReturns
<1> QED BY <1>1, <1>2, <1>3, <1>4, <1>5, <1>6, <1>7, StepCases DEF Advances, segments

\* What an instance has come past after a step it had come past before, but for
\* the segments made or applied in that very step.
LEMMA PassedStep ==
  ASSUME IInv, [Next]_vars, NEW j \in Insts, ~BuildSegments(j), NEW k \in Int, Passed(j, k)'
  PROVE  \/ Passed(j, k)
         \/ Spends(j) /\ k = next
         \/ Applied(j) /\ phase[j] = "apply" /\ next > Len(Module[j].elems) + Len(Module[j].data)
<1>0. /\ phase \in [Insts -> Phases] /\ next \in Nat /\ busy \in Refs /\ Nobody \notin Insts
      /\ \A i \in Insts : phase[i] \in {"build", "apply"} <=> busy = i
  BY StoreAssumption DEF IInv, TypeOK, Staged
<1>1. CASE UNCHANGED <<phase, next>>
  BY <1>1 DEF Passed
<1>2. ASSUME NEW i \in Insts, Begin(i) \/ Aborts(i)
      PROVE  Passed(j, k)
  BY <1>0, <1>2 DEF Passed, Begin, Aborts, Fail
<1>3. ASSUME NEW i \in Insts, BuildSegments(i)
      PROVE  Passed(j, k)
  <2>1. i # j /\ busy = i
    BY <1>3 DEF BuildSegments, Building
  <2>2. phase'[j] = phase[j] /\ phase[j] # "apply"
    BY <1>0, <1>3, <2>1 DEF BuildSegments
  <2> QED BY <2>2 DEF Passed
<1>4. ASSUME NEW i \in Insts, Applied(i)
      PROVE  \/ Passed(j, k)
             \/ Applied(j) /\ phase[j] = "apply" /\ next > Len(Module[j].elems) + Len(Module[j].data)
  <2>1. CASE i = j
    BY <1>4, <2>1 DEF Applied, Applying
  <2>2. CASE i # j
    BY <1>0, <1>4, <2>2 DEF Applied, Passed
  <2> QED BY <2>1, <2>2
<1>5. ASSUME NEW i \in Insts, StartReturns(i)
      PROVE  Passed(j, k)
  BY <1>0, <1>5 DEF StartReturns, Passed
<1>6. ASSUME NEW i \in Insts, Spends(i)
      PROVE  Passed(j, k) \/ (Spends(j) /\ k = next)
  <2>1. Applying(i) /\ next' = next + 1 /\ phase' = phase
    BY <1>6, SpendCases
  <2>2. CASE i = j
    BY <1>0, <1>6, <2>1, <2>2 DEF Passed
  <2>3. CASE i # j
    <3>1. phase[j] # "apply"
      BY <1>0, <2>1, <2>3 DEF Applying
    <3> QED BY <2>1, <3>1 DEF Passed
  <2> QED BY <2>2, <2>3
<1>7. ASSUME NEW i \in Insts, AddsMemory(i) \/ AddsTable(i)
      PROVE  UNCHANGED <<phase, next>>
  BY <1>7 DEF AddsMemory, AddsTable
<1> QED BY <1>1, <1>2, <1>3, <1>4, <1>5, <1>6, <1>7, StepCases DEF Advances

\* The segments an instance has come past, but for the one it passes now, were
\* passed before: Instantiate ends only when it is past the last one.
LEMMA PassedBefore ==
  ASSUME IInv, [Next]_vars, NEW j \in Insts, ~BuildSegments(j),
         NEW k \in Int, k <= Len(Module[j].elems) + Len(Module[j].data), Passed(j, k)', ~(Spends(j) /\ k = next)
  PROVE  Passed(j, k)
<1>1. next \in Nat
  BY DEF IInv, TypeOK
<1>2. Module[j].data \in Seq(DataSegments) /\ Module[j].elems \in Seq(ElemSegments)
  BY SegmentFacts
<1>3. Len(Module[j].data) \in Nat /\ Len(Module[j].elems) \in Nat
  BY <1>2
<1>4. ASSUME phase[j] = "apply", next > Len(Module[j].elems) + Len(Module[j].data)
      PROVE  Passed(j, k)
  <2>1. \A a \in Nat, b \in Nat : k <= a + b /\ next > a + b => k < next
    BY <1>1
  <2>2. k < next
    BY <1>3, <1>4, <2>1
  <2> QED BY <1>4, <2>2 DEF Passed
<1> QED BY <1>4, PassedStep

\* Passing a segment spends it if it is active.
LEMMA SpendsActive ==
  ASSUME IInv, NEW j \in Insts, Spends(j)
  PROVE  /\ \A k \in DOMAIN Module[j].data :
              Module[j].data[k].mode = "active" /\ Len(Module[j].elems) + k = next => dataDropped'[j][k]
         /\ \A k \in DOMAIN Module[j].elems :
              Module[j].elems[k].mode = "active" /\ k = next => elemDropped'[j][k]
<1>0. /\ dataDropped \in [Insts -> Seq(BOOLEAN)] /\ elemDropped \in [Insts -> Seq(BOOLEAN)]
      /\ next \in Nat
  BY DEF IInv, TypeOK
<1>1. /\ Module[j].data \in Seq(DataSegments) /\ Module[j].elems \in Seq(ElemSegments)
      /\ DOMAIN Module[j].data = 1 .. Len(Module[j].data) /\ Len(Module[j].data) \in Nat
      /\ DOMAIN Module[j].elems = 1 .. Len(Module[j].elems) /\ Len(Module[j].elems) \in Nat
  <2>1. Module[j].data \in Seq(DataSegments) /\ Module[j].elems \in Seq(ElemSegments)
    BY SegmentFacts
  <2> QED BY <2>1
<1>2. /\ Len(dataDropped[j]) = Len(Module[j].data) /\ Len(elemDropped[j]) = Len(Module[j].elems)
  BY SpendCases DEF IInv, Staged, Built, Applying
<1>3. DOMAIN dataDropped[j] = DOMAIN Module[j].data /\ DOMAIN elemDropped[j] = DOMAIN Module[j].elems
  BY <1>0, <1>1, <1>2
<1>4. CASE SpendsElem(j)
  <2>1. next \in DOMAIN Module[j].elems
    BY <1>4 DEF SpendsElem
  <2>2. \A k \in DOMAIN Module[j].data : Len(Module[j].elems) + k # next
    BY <1>1, <2>1
  <2>3. ASSUME Module[j].elems[next].mode = "active"
        PROVE  elemDropped'[j][next]
    <3>1. elemDropped' = [elemDropped EXCEPT ![j][next] = TRUE]
      BY <1>4, <2>3 DEF SpendsElem
    <3>2. next \in DOMAIN elemDropped[j] /\ j \in DOMAIN elemDropped
      BY <1>0, <1>3, <2>1
    <3>3. elemDropped'[j] = [elemDropped[j] EXCEPT ![next] = TRUE]
      BY <3>1, <3>2, Zenon
    <3> QED BY <3>2, <3>3, Zenon
  <2> QED BY <2>2, <2>3
<1>5. CASE SpendsData(j)
  <2> DEFINE n == next - Len(Module[j].elems)
  <2>1. n \in DOMAIN Module[j].data
    BY <1>5 DEF SpendsData
  <2>2. /\ \A k \in DOMAIN Module[j].elems : k # next
        /\ \A k \in DOMAIN Module[j].data : Len(Module[j].elems) + k = next => k = n
    <3>1. n \in Nat /\ n >= 1
      BY <1>1, <2>1
    <3>2. \A k \in DOMAIN Module[j].elems : k \in Nat /\ k <= Len(Module[j].elems)
      BY <1>1
    <3>3. \A k \in DOMAIN Module[j].data : k \in Nat
      BY <1>1
    <3>4. ASSUME NEW le \in Nat, le = Len(Module[j].elems), NEW k \in Nat
          PROVE  (k <= le => k # next) /\ (le + k = next => k = n)
      BY <1>0, <3>1, <3>4
    <3> HIDE DEF n
    <3> QED BY <1>1, <3>2, <3>3, <3>4
  <2>3. ASSUME Module[j].data[n].mode = "active"
        PROVE  dataDropped'[j][n]
    <3>1. dataDropped' = [dataDropped EXCEPT ![j][n] = TRUE]
      BY <1>5, <2>3 DEF SpendsData
    <3> HIDE DEF n
    <3>2. n \in DOMAIN dataDropped[j] /\ j \in DOMAIN dataDropped
      BY <1>0, <1>3, <2>1
    <3>3. dataDropped'[j] = [dataDropped[j] EXCEPT ![n] = TRUE]
      BY <3>1, <3>2, Zenon
    <3> QED BY <3>2, <3>3, Zenon
  <2> HIDE DEF n
  <2> QED BY <2>2, <2>3
<1> QED BY <1>4, <1>5, SpendCases

\* Built instances have a flag for each of their segments.
LEMMA FlagDomains ==
  ASSUME IInv, NEW j \in Insts, Built(j)
  PROVE  DOMAIN dataDropped[j] = DOMAIN Module[j].data /\ DOMAIN elemDropped[j] = DOMAIN Module[j].elems
<1>1. Module[j].data \in Seq(DataSegments) /\ Module[j].elems \in Seq(ElemSegments)
  BY SegmentFacts
<1>2. dataDropped[j] \in Seq(BOOLEAN) /\ elemDropped[j] \in Seq(BOOLEAN)
  BY DEF IInv, TypeOK
<1> QED BY <1>1, <1>2 DEF Built

LEMMA SpentStep ==
  ASSUME IInv, [Next]_vars
  PROVE  SpentSoFar'
<1> SUFFICES ASSUME NEW j \in Insts
             PROVE  /\ \A k \in DOMAIN Module[j].data :
                         Module[j].data[k].mode = "active" /\ Passed(j, Len(Module[j].elems) + k)' => dataDropped'[j][k]
                    /\ \A k \in DOMAIN Module[j].elems :
                         /\ Module[j].elems[k].mode = "active" /\ Passed(j, k)' => elemDropped'[j][k]
                         /\ Module[j].elems[k].mode = "declarative" /\ phase'[j] \in {"apply", "start", "live"}
                              => elemDropped'[j][k]
  BY DEF SpentSoFar, Passed
<1>0. /\ phase \in [Insts -> Phases] /\ next \in Nat
      /\ dataDropped \in [Insts -> Seq(BOOLEAN)] /\ elemDropped \in [Insts -> Seq(BOOLEAN)]
  BY DEF IInv, TypeOK
<1>1. /\ DOMAIN Module[j].data = 1 .. Len(Module[j].data) /\ Len(Module[j].data) \in Nat
      /\ DOMAIN Module[j].elems = 1 .. Len(Module[j].elems) /\ Len(Module[j].elems) \in Nat
  <2>1. Module[j].data \in Seq(DataSegments) /\ Module[j].elems \in Seq(ElemSegments)
    BY SegmentFacts
  <2> QED BY <2>1
<1>2. CASE BuildSegments(j)
  <2>1. next' = 1 /\ phase'[j] = "apply"
    BY <1>0, <1>2 DEF BuildSegments
  <2>2. \A k \in Nat \ {0} : ~Passed(j, k)'
    BY <2>1 DEF Passed
  <2>3. elemDropped'[j] = [k \in DOMAIN Module[j].elems |-> Module[j].elems[k].mode = "declarative"]
    BY <1>0, <1>2 DEF BuildSegments
  <2>4. \A k \in DOMAIN Module[j].elems : Module[j].elems[k].mode = "declarative" => elemDropped'[j][k]
    BY <2>3, Zenon
  <2>5. \A k \in DOMAIN Module[j].data : ~Passed(j, Len(Module[j].elems) + k)'
    BY <1>1, <2>2
  <2>6. \A k \in DOMAIN Module[j].elems : ~Passed(j, k)'
    BY <1>1, <2>2
  <2> QED BY <2>4, <2>5, <2>6
<1>3. CASE ~BuildSegments(j)
  <2>1. ASSUME NEW k \in DOMAIN Module[j].data, Module[j].data[k].mode = "active",
               Passed(j, Len(Module[j].elems) + k)'
        PROVE  dataDropped'[j][k]
    <3>1. CASE Spends(j) /\ Len(Module[j].elems) + k = next
      BY <2>1, <3>1, SpendsActive
    <3>2. CASE ~(Spends(j) /\ Len(Module[j].elems) + k = next)
      <4>1. k \in Nat /\ k <= Len(Module[j].data)
        BY <1>1
      <4>2. Passed(j, Len(Module[j].elems) + k)
        <5> DEFINE n == Len(Module[j].elems) + k
        <5>1. n \in Int /\ n <= Len(Module[j].elems) + Len(Module[j].data)
          <6>1. \A a \in Nat, b \in Nat : k <= b => a + k \in Int /\ a + k <= a + b
            BY <4>1
          <6> QED BY <1>1, <4>1, <6>1
        <5> HIDE DEF n
        <5>2. Passed(j, n)' /\ ~(Spends(j) /\ n = next)
          BY <2>1, <3>2 DEF n
        <5>3. Passed(j, n)
          BY <1>0, <1>1, <1>3, <5>1, <5>2, PassedBefore
        <5> QED BY <5>3 DEF n
      <4>3. dataDropped[j][k]
        BY <2>1, <4>2 DEF IInv, SpentSoFar
      <4>4. k \in DOMAIN dataDropped[j]
        BY <4>2, FlagDomains DEF IInv, Staged, Passed
      <4> QED BY <1>3, <4>3, <4>4, SpentStays
    <3> QED BY <3>1, <3>2
  <2>2. ASSUME NEW k \in DOMAIN Module[j].elems, Module[j].elems[k].mode = "active", Passed(j, k)'
        PROVE  elemDropped'[j][k]
    <3>1. CASE Spends(j) /\ k = next
      BY <2>2, <3>1, SpendsActive
    <3>2. CASE ~(Spends(j) /\ k = next)
      <4>1. k \in Nat /\ k <= Len(Module[j].elems)
        BY <1>1
      <4>2. k \in Int /\ k <= Len(Module[j].elems) + Len(Module[j].data)
        <5>1. \A a \in Nat, b \in Nat : k <= a => k \in Int /\ k <= a + b
          BY <4>1
        <5> QED BY <1>1, <4>1, <5>1
      <4>3. Passed(j, k)
        BY <1>3, <2>2, <3>2, <4>2, PassedBefore
      <4>4. elemDropped[j][k]
        BY <2>2, <4>3 DEF IInv, SpentSoFar
      <4>5. k \in DOMAIN elemDropped[j]
        BY <4>3, FlagDomains DEF IInv, Staged, Passed
      <4> QED BY <1>3, <4>4, <4>5, SpentStays
    <3> QED BY <3>1, <3>2
  <2>3. ASSUME NEW k \in DOMAIN Module[j].elems, Module[j].elems[k].mode = "declarative",
               phase'[j] \in {"apply", "start", "live"}
        PROVE  elemDropped'[j][k]
    <3>1. phase[j] \in {"apply", "start", "live"}
      <4>1. ASSUME NEW i \in Insts, Begin(i) \/ Aborts(i)
            PROVE  phase[j] \in {"apply", "start", "live"}
        BY <1>0, <2>3, <4>1 DEF Begin, Aborts, Fail
      <4>2. ASSUME NEW i \in Insts, Applied(i) \/ StartReturns(i)
            PROVE  phase[j] \in {"apply", "start", "live"}
        BY <1>0, <2>3, <4>2 DEF Applied, Applying, StartReturns
      <4>3. ASSUME NEW i \in Insts, BuildSegments(i)
            PROVE  phase[j] \in {"apply", "start", "live"}
        BY <1>0, <1>3, <2>3, <4>3 DEF BuildSegments
      <4> QED BY <2>3, <4>1, <4>2, <4>3, PhaseStep DEF Advances
    <3>2. elemDropped[j][k]
      BY <2>3, <3>1 DEF IInv, SpentSoFar
    <3>3. k \in DOMAIN elemDropped[j]
      BY <3>1, FlagDomains DEF IInv, Staged
    <3> QED BY <1>3, <3>2, <3>3, SpentStays
  <2> QED BY <2>1, <2>2, <2>3
<1> QED BY <1>2, <1>3

-----------------------------------------------------------------------------
(* Theorems *)

LEMMA InitHolds == Init => IInv
<1> SUFFICES ASSUME Init PROVE IInv
  OBVIOUS
<1>1. TypeOK
  <2>1. Unmade \in Areas(Refs, Bytes) /\ Unmade \in Areas(Refs, Refs)
    BY DEF Unmade, Areas, Refs
  <2>2. memories \in [Mems -> Areas(Refs, Bytes)] /\ tables \in [Tabs -> Areas(Refs, Refs)]
    BY <2>1 DEF Init
  <2>3. phase \in [Insts -> Phases] /\ busy \in Refs /\ next \in Nat /\ last \in [ok : BOOLEAN, legal : BOOLEAN]
    BY DEF Init, Phases, Refs
  <2>4. memoryIndex \in [Insts -> Seq(Mems)] /\ tableIndex \in [Insts -> Seq(Tabs)]
    BY DEF Init
  <2>5. /\ dataDropped \in [Insts -> Seq(BOOLEAN)] /\ elemDropped \in [Insts -> Seq(BOOLEAN)]
        /\ \A i \in Insts : DOMAIN dataDropped[i] = {} /\ DOMAIN elemDropped[i] = {}
    BY DEF Init
  <2> QED BY <2>2, <2>3, <2>4, <2>5 DEF TypeOK
<1>2. Linked
  <2> SUFFICES ASSUME NEW i \in Insts
               PROVE  /\ Len(memoryIndex[i]) <= Len(Module[i].mems) /\ Len(tableIndex[i]) <= Len(Module[i].tabs)
                      /\ \A k \in DOMAIN memoryIndex[i] : memories[memoryIndex[i][k]].made
                      /\ \A k \in DOMAIN tableIndex[i] : tables[tableIndex[i][k]].made
    BY DEF Linked
  <2>1. Module[i].mems \in Seq(Definitions) /\ Module[i].tabs \in Seq(Definitions)
    BY SegmentFacts
  <2>2. Len(Module[i].mems) \in Nat /\ Len(Module[i].tabs) \in Nat
    BY <2>1
  <2>3. memoryIndex[i] = << >> /\ tableIndex[i] = << >>
    BY DEF Init
  <2>4. Len(memoryIndex[i]) = 0 /\ DOMAIN memoryIndex[i] = {}
    BY <2>3
  <2>5. Len(tableIndex[i]) = 0 /\ DOMAIN tableIndex[i] = {}
    BY <2>3
  <2> QED BY <2>2, <2>4, <2>5
<1>3. Sized
  <2>1. 0 \div PageSize = 0
    BY StoreAssumption
  <2> QED BY <2>1, StoreAssumption DEF Init, Sized, SizedMemory, SizedTable, Unmade, Pages
<1>4. Staged
  BY StoreAssumption DEF Init, Staged
<1>5. SpentSoFar
  BY DEF Init, SpentSoFar, Passed
<1> QED BY <1>1, <1>2, <1>3, <1>4, <1>5 DEF IInv

LEMMA StepHolds == IInv /\ [Next]_vars => IInv'
BY TypeStep, LinkedStep, SizedStep, StagedStep, SpentStep DEF IInv

\* IInv is inductive: what an instance can name exists and is within its limits,
\* one Instantiate is at work at a time, and only built instances go beyond it.
THEOREM Invariance == Spec => []IInv
BY InitHolds, StepHolds, PTL DEF Spec

\* Every variable has its type, in particular every operation keeps the bytes
\* of memories bytes and the entries of tables references.
THEOREM TypeCorrect == Spec => []TypeOK
<1>1. IInv => TypeOK
  BY DEF IInv
<1> QED BY <1>1, Invariance, PTL

\* Whatever runs on an instance that was initialized, in its start function too,
\* finds the active and declarative segments spent: Instantiate passes every
\* segment in its turn, and no operation takes a flag back.
THEOREM Spending == Spec => []SegmentsSpent
<1>1. IInv => SegmentsSpent
  <2> SUFFICES ASSUME IInv, NEW i \in Insts, phase[i] \in {"start", "live"}
               PROVE  /\ \A k \in DOMAIN Module[i].data : Module[i].data[k].mode = "active" => dataDropped[i][k]
                      /\ \A k \in DOMAIN Module[i].elems : Module[i].elems[k].mode # "passive" => elemDropped[i][k]
    BY DEF SegmentsSpent
  <2>1. \A k \in DOMAIN Module[i].elems : Module[i].elems[k].mode \in {"active", "passive", "declarative"}
    BY SegmentFacts DEF ElemSegments
  <2> QED BY <2>1 DEF IInv, SpentSoFar, Passed
<1> QED BY <1>1, Invariance, PTL

\* The bounds checks are exact: no access is refused that is in range, none
\* allowed that is not, and no sum wraps around.
THEOREM Exactness == Spec => []TrapsExactly
<1>1. Init => TrapsExactly
  BY DEF Init, TrapsExactly
<1>2. IInv /\ TrapsExactly /\ [Next]_vars => TrapsExactly'
  <2> SUFFICES ASSUME IInv, TrapsExactly, [Next]_vars PROVE TrapsExactly'
    OBVIOUS
  <2>1. ASSUME NEW i \in Insts, Begin(i) \/ AddsMemory(i) \/ AddsTable(i) \/ Advances(i) \/ Spends(i) \/ Aborts(i)
        PROVE  last' = last
    BY <2>1, SpendCases DEF Begin, AddsMemory, AddsTable, Advances, BuildSegments, Applied, StartReturns, Aborts, Fail
  <2> QED BY <2>1, StepCases DEF TrapsExactly, Decided
<1> QED BY <1>1, <1>2, Invariance, PTL DEF Spec

\* What a grow leaves in place.
LEMMA KeptStep ==
  ASSUME IInv, [Next]_vars
  PROVE  /\ \A m \in Mems : Len(memories'[m].cells) > Len(memories[m].cells) =>
              SubSeq(memories'[m].cells, 1, Len(memories[m].cells)) = memories[m].cells
         /\ \A t \in Tabs : Len(tables'[t].cells) > Len(tables[t].cells) =>
              SubSeq(tables'[t].cells, 1, Len(tables[t].cells)) = tables[t].cells
<1>1. ASSUME NEW m \in Mems, Len(memories'[m].cells) > Len(memories[m].cells)
      PROVE  SubSeq(memories'[m].cells, 1, Len(memories[m].cells)) = memories[m].cells
  <2>0. /\ memories[m] \in Areas(Refs, Bytes) /\ memories'[m] \in Areas(Refs, Bytes)
        /\ ~memories[m].made => memories[m].cells = << >>
    BY TypeStepAreas DEF IInv, TypeOK, Sized, SizedMemory
  <2>1. memories[m].cells \in Seq(Bytes) /\ memories'[m].cells \in Seq(Bytes)
    BY <2>0 DEF Areas
  <2>2. memories'[m] # memories[m]
    BY <1>1, <2>1
  <2>3. CASE memories[m].made
    <3> PICK cells \in Seq(Bytes) : /\ memories'[m] = [memories[m] EXCEPT !.cells = cells]
                                   /\ MemoryWrite(memories[m], cells)
      BY <2>2, <2>3, OneMemory
    <3>1. memories'[m].cells = cells
      BY <2>0 DEF Areas
    <3> QED BY <1>1, <3>1 DEF MemoryWrite, Keeps
  <2>4. CASE ~memories[m].made
    BY <2>0, <2>1, <2>4
  <2> QED BY <2>3, <2>4
<1>2. ASSUME NEW t \in Tabs, Len(tables'[t].cells) > Len(tables[t].cells)
      PROVE  SubSeq(tables'[t].cells, 1, Len(tables[t].cells)) = tables[t].cells
  <2>0. /\ tables[t] \in Areas(Refs, Refs) /\ tables'[t] \in Areas(Refs, Refs)
        /\ ~tables[t].made => tables[t].cells = << >>
    BY TypeStepAreas DEF IInv, TypeOK, Sized, SizedTable
  <2>1. tables[t].cells \in Seq(Refs) /\ tables'[t].cells \in Seq(Refs)
    BY <2>0 DEF Areas
  <2>2. tables'[t] # tables[t]
    BY <1>2, <2>1
  <2>3. CASE tables[t].made
    <3> PICK i \in Insts : \E cells \in Seq(Held(i)) :
          tables'[t] = [tables[t] EXCEPT !.cells = cells] /\ TableWrite(tables[t], cells, Held(i))
      BY <2>2, <2>3, OneTable
    <3> PICK cells \in Seq(Held(i)) :
          tables'[t] = [tables[t] EXCEPT !.cells = cells] /\ TableWrite(tables[t], cells, Held(i))
      OBVIOUS
    <3>1. tables'[t].cells = cells
      BY <2>0 DEF Areas
    <3> QED BY <1>2, <3>1 DEF TableWrite, Keeps
  <2>4. CASE ~tables[t].made
    BY <2>0, <2>1, <2>4
  <2> QED BY <2>3, <2>4
<1> QED BY <1>1, <1>2

\* Memories and tables only grow and keep their owner and limit, so a check made at
\* link time is never invalidated by a sharer; and a grow keeps every byte and every
\* reference where it was, also in memories and tables that other instances share.
THEOREM Keeping == Spec => GrowKeeps
<1>1. IInv /\ [Next]_vars =>
        [/\ \A m \in Mems : Grown(memories[m], memories'[m]) /\ Kept(memories[m], memories'[m])
         /\ \A t \in Tabs : Grown(tables[t], tables'[t]) /\ Kept(tables[t], tables'[t])]_vars
  BY KeptStep, MemoryGrowth, TableGrowth DEF GrownMemory, GrownTable, Kept
<1> QED BY <1>1, Invariance, PTL DEF Spec, GrowKeeps

-----------------------------------------------------------------------------
(* Imports *)

\* What was acceptable stays so while the area grows within its limit.
MemoryContract(a, limits) == a.made /\ Honours(Pages(a), a.limit, limits)
TableContract(a, limits) == a.made /\ Honours(Len(a.cells), a.limit, limits)

LEMMA MemoryContractStep ==
  ASSUME IInv, [Next]_vars, NEW m \in Mems, NEW limits \in Limits, MemoryContract(memories[m], limits)
  PROVE  MemoryContract(memories'[m], limits)
<1>1. /\ GrownMemory(m) /\ SizedMemory(memories'[m])
      /\ memories[m] \in Areas(Refs, Bytes) /\ memories'[m] \in Areas(Refs, Bytes)
  BY MemoryGrowth, SizedStep, TypeStepAreas DEF IInv, TypeOK, Sized, SizedMemory, Pages
<1>2. Len(memories[m].cells) \in Nat /\ Len(memories'[m].cells) \in Nat
  BY <1>1 DEF Areas
<1>3. Pages(memories[m]) \in Nat /\ Pages(memories'[m]) \in Nat
  BY <1>2, StoreAssumption, PagesAdd DEF Pages
<1>4. /\ memories'[m].made /\ Pages(memories'[m]) >= Pages(memories[m])
      /\ memories'[m].limit = memories[m].limit /\ Pages(memories'[m]) <= memories'[m].limit
  BY <1>1 DEF MemoryContract, GrownMemory, Grown, SizedMemory
<1>5. limits[1] \in Nat
  BY DEF Limits
<1> QED BY <1>3, <1>4, <1>5 DEF MemoryContract, Honours

LEMMA TableContractStep ==
  ASSUME IInv, [Next]_vars, NEW t \in Tabs, NEW limits \in Limits, TableContract(tables[t], limits)
  PROVE  TableContract(tables'[t], limits)
<1>1. /\ GrownTable(t) /\ SizedTable(tables'[t])
      /\ tables[t] \in Areas(Refs, Refs) /\ tables'[t] \in Areas(Refs, Refs)
  BY TableGrowth, SizedStep, TypeStepAreas DEF IInv, TypeOK, Sized, SizedTable
<1>2. Len(tables[t].cells) \in Nat /\ Len(tables'[t].cells) \in Nat
  BY <1>1 DEF Areas
<1>4. /\ tables'[t].made /\ Len(tables'[t].cells) >= Len(tables[t].cells)
      /\ tables'[t].limit = tables[t].limit /\ Len(tables'[t].cells) <= tables'[t].limit
  BY <1>1 DEF TableContract, GrownTable, Grown, SizedTable
<1>5. limits[1] \in Nat
  BY DEF Limits
<1> QED BY <1>2, <1>4, <1>5 DEF TableContract, Honours

\* What is linked satisfies its definition.
LEMMA MemoryLinkedContract ==
  ASSUME IInv, NEW i \in Insts, NEW m \in Mems, MemoryLinked(i, m)
  PROVE  MemoryContract(memories'[m], Module[i].mems[Len(memoryIndex[i]) + 1].limits)
<1> DEFINE k == Len(memoryIndex[i]) + 1
           limits == Module[i].mems[k].limits
<1>1. limits \in PageLimits /\ i \in Refs
  BY ModuleAssumption DEF MemoryLinked, Refs
<1>2. memories \in [Mems -> Areas(Refs, Bytes)] /\ SizedMemory(memories[m])
  BY DEF IInv, TypeOK, Sized
<1> HIDE DEF k
<1>3. \/ /\ Importable(memories[m]) /\ Acceptable(Pages(memories[m]), memories[m].limit, limits)
         /\ memories' = memories
      \/ ~memories[m].made /\ memories' = [memories EXCEPT ![m] = NewMemory(i, limits)]
  BY DEF MemoryLinked, k
<1> HIDE DEF limits
<1>4. ASSUME Importable(memories[m]), Acceptable(Pages(memories[m]), memories[m].limit, limits), memories' = memories
      PROVE  MemoryContract(memories'[m], limits)
  <2>1. MemoryContract(memories[m], limits)
    BY <1>2, <1>4 DEF MemoryContract, Honours, Acceptable, Importable, SizedMemory
  <2> QED BY <1>4, <2>1
<1>5. ASSUME memories' = [memories EXCEPT ![m] = NewMemory(i, limits)]
      PROVE  MemoryContract(memories'[m], limits)
  <2>1. memories'[m] = NewMemory(i, limits)
    BY <1>2, <1>5
  <2>2. /\ memories'[m].made /\ Pages(memories'[m]) = limits[1] /\ limits[1] <= memories'[m].limit
        /\ memories'[m].limit = PageLimit(limits)
    BY <1>1, <2>1, NewMemoryType
  <2>3. limits[1] \in Nat /\ limits[2] \in Int
    BY <1>1 DEF PageLimits, Limits, NoMax
  <2>4. Honours(Pages(memories'[m]), memories'[m].limit, limits)
    BY <2>2, <2>3 DEF Honours, PageLimit
  <2> QED BY <2>2, <2>4 DEF MemoryContract
<1> QED BY <1>3, <1>4, <1>5 DEF limits, k

LEMMA TableLinkedContract ==
  ASSUME IInv, NEW i \in Insts, NEW t \in Tabs, TableLinked(i, t)
  PROVE  /\ TableContract(tables'[t], Module[i].tabs[Len(tableIndex[i]) + 1].limits)
         /\ Module[i].tabs[Len(tableIndex[i]) + 1].limits \in Limits
<1> DEFINE k == Len(tableIndex[i]) + 1
           limits == Module[i].tabs[k].limits
<1>0. k \in DOMAIN Module[i].tabs /\ Module[i].tabs \in Seq(Definitions)
  BY SegmentFacts DEF TableLinked
<1>2. tables \in [Tabs -> Areas(Refs, Refs)] /\ SizedTable(tables[t])
  BY DEF IInv, TypeOK, Sized
<1> HIDE DEF k
<1>1. limits \in Limits /\ i \in Refs
  <2>1. Module[i].tabs[k] \in Definitions
    BY <1>0
  <2> QED BY <2>1 DEF Definitions, Refs
<1>3. \/ /\ Importable(tables[t]) /\ Acceptable(Len(tables[t].cells), tables[t].limit, limits)
         /\ tables' = tables
      \/ /\ ~tables[t].made /\ limits[1] <= MaxElems
         /\ \E init \in {i, Nobody} : tables' = [tables EXCEPT ![t] = NewTable(i, limits, init)]
  BY DEF TableLinked, k
<1> HIDE DEF limits
<1>4. CASE Importable(tables[t]) /\ Acceptable(Len(tables[t].cells), tables[t].limit, limits) /\ tables' = tables
  BY <1>1, <1>2, <1>4 DEF TableContract, Honours, Acceptable, Importable, SizedTable, limits, k
<1>5. ASSUME NEW init \in {i, Nobody}, limits[1] <= MaxElems, tables' = [tables EXCEPT ![t] = NewTable(i, limits, init)]
      PROVE  TableContract(tables'[t], limits)
  <2>1. tables'[t] = NewTable(i, limits, init)
    BY <1>2, <1>5
  <2>2. /\ tables'[t].made /\ Len(tables'[t].cells) = limits[1] /\ limits[1] <= tables'[t].limit
        /\ tables'[t].limit = ElemLimit(limits)
    BY <1>1, <1>5, <2>1, NewTableType
  <2>3. limits[1] \in Nat /\ limits[2] \in Int
    BY <1>1 DEF Limits, NoMax
  <2>4. Honours(Len(tables'[t].cells), tables'[t].limit, limits)
    BY <2>2, <2>3 DEF Honours, ElemLimit
  <2> QED BY <2>2, <2>4 DEF TableContract
<1> QED BY <1>1, <1>3, <1>4, <1>5 DEF limits, k

LEMMA ContractsStep ==
  ASSUME IInv, ImportContracts, [Next]_vars
  PROVE  ImportContracts'
<1>0. /\ memoryIndex \in [Insts -> Seq(Mems)] /\ tableIndex \in [Insts -> Seq(Tabs)]
      /\ \A i \in Insts : Len(memoryIndex[i]) <= Len(Module[i].mems) /\ Len(tableIndex[i]) <= Len(Module[i].tabs)
  BY DEF IInv, TypeOK, Linked
<1>1. ASSUME NEW i \in Insts, NEW k \in DOMAIN memoryIndex[i]
      PROVE  MemoryContract(memories'[memoryIndex[i][k]], Module[i].mems[k].limits)
  <2>1. memoryIndex[i][k] \in Mems
    BY <1>0
  <2>2. Module[i].mems \in Seq(Definitions) /\ k \in DOMAIN Module[i].mems
    <3>1. Module[i].mems \in Seq(Definitions)
      BY SegmentFacts
    <3> QED BY <1>0, <3>1
  <2>3. Module[i].mems[k].limits \in Limits
    <3>1. Module[i].mems[k] \in Definitions
      BY <2>2
    <3> QED BY <3>1 DEF Definitions
  <2>4. MemoryContract(memories[memoryIndex[i][k]], Module[i].mems[k].limits)
    BY DEF ImportContracts, MemoryContract
  <2> QED BY <2>1, <2>3, <2>4, MemoryContractStep
<1>2. ASSUME NEW i \in Insts, NEW k \in DOMAIN tableIndex[i]
      PROVE  TableContract(tables'[tableIndex[i][k]], Module[i].tabs[k].limits)
  <2>1. tableIndex[i][k] \in Tabs
    BY <1>0
  <2>2. Module[i].tabs \in Seq(Definitions) /\ k \in DOMAIN Module[i].tabs
    <3>1. Module[i].tabs \in Seq(Definitions)
      BY SegmentFacts
    <3> QED BY <1>0, <3>1
  <2>3. Module[i].tabs[k].limits \in Limits
    <3>1. Module[i].tabs[k] \in Definitions
      BY <2>2
    <3> QED BY <3>1 DEF Definitions
  <2>4. TableContract(tables[tableIndex[i][k]], Module[i].tabs[k].limits)
    BY DEF ImportContracts, TableContract
  <2> QED BY <2>1, <2>3, <2>4, TableContractStep
<1>3. ASSUME NEW i \in Insts, NEW k \in DOMAIN memoryIndex'[i]
      PROVE  MemoryContract(memories'[memoryIndex'[i][k]], Module[i].mems[k].limits)
  <2>1. CASE memoryIndex' = memoryIndex
    BY <1>1, <1>3, <2>1
  <2>2. ASSUME NEW j \in Insts, NEW m \in Mems, MemoryLinked(j, m)
        PROVE  MemoryContract(memories'[memoryIndex'[i][k]], Module[i].mems[k].limits)
    <3>1. memoryIndex' = [memoryIndex EXCEPT ![j] = Append(@, m)]
      BY <2>2 DEF MemoryLinked
    <3>2. /\ \A h \in Insts \ {j} : memoryIndex'[h] = memoryIndex[h]
          /\ memoryIndex'[j][Len(memoryIndex[j]) + 1] = m
          /\ \A l \in DOMAIN memoryIndex[j] : memoryIndex'[j][l] = memoryIndex[j][l]
          /\ \A l \in DOMAIN memoryIndex'[j] : l \in DOMAIN memoryIndex[j] \/ l = Len(memoryIndex[j]) + 1
      BY <1>0, <3>1, AppendLinks
    <3>3. MemoryContract(memories'[m], Module[j].mems[Len(memoryIndex[j]) + 1].limits)
      BY <2>2, MemoryLinkedContract
    <3> QED BY <1>1, <1>3, <3>2, <3>3
  <2> QED BY <2>1, <2>2, MemoryIndexStep
<1>4. ASSUME NEW i \in Insts, NEW k \in DOMAIN tableIndex'[i]
      PROVE  TableContract(tables'[tableIndex'[i][k]], Module[i].tabs[k].limits)
  <2>1. CASE tableIndex' = tableIndex
    BY <1>2, <1>4, <2>1
  <2>2. ASSUME NEW j \in Insts, NEW t \in Tabs, TableLinked(j, t)
        PROVE  TableContract(tables'[tableIndex'[i][k]], Module[i].tabs[k].limits)
    <3>1. tableIndex' = [tableIndex EXCEPT ![j] = Append(@, t)]
      BY <2>2 DEF TableLinked
    <3>2. /\ \A h \in Insts \ {j} : tableIndex'[h] = tableIndex[h]
          /\ tableIndex'[j][Len(tableIndex[j]) + 1] = t
          /\ \A l \in DOMAIN tableIndex[j] : tableIndex'[j][l] = tableIndex[j][l]
          /\ \A l \in DOMAIN tableIndex'[j] : l \in DOMAIN tableIndex[j] \/ l = Len(tableIndex[j]) + 1
      BY <1>0, <3>1, AppendLinks
    <3>3. TableContract(tables'[t], Module[j].tabs[Len(tableIndex[j]) + 1].limits)
      BY <2>2, TableLinkedContract
    <3> QED BY <1>2, <1>4, <3>2, <3>3
  <2> QED BY <2>1, <2>2, TableIndexStep
<1> QED BY <1>3, <1>4 DEF ImportContracts, MemoryContract, TableContract, Pages

\* What an instance asked of a memory or table when it linked it holds as long
\* as it runs, whatever its sharers do.
THEOREM Contracts == Spec => []ImportContracts
<1>1. Init => ImportContracts
  <2> SUFFICES ASSUME Init, NEW i \in Insts
               PROVE  DOMAIN memoryIndex[i] = {} /\ DOMAIN tableIndex[i] = {}
    BY DEF ImportContracts
  <2> QED BY DEF Init
<1>2. IInv /\ ImportContracts /\ [Next]_vars => ImportContracts'
  BY ContractsStep
<1> QED BY <1>1, <1>2, Invariance, PTL DEF Spec

-----------------------------------------------------------------------------
(* Failed instances *)

\* A live instance stays live, and one that is not yet built, or failed, either
\* stays out of the way or gets built.
LEMMA PhaseOf ==
  ASSUME IInv, [Next]_vars, NEW x \in Insts
  PROVE  /\ phase[x] = "live" => phase'[x] = "live"
         /\ phase[x] \in {"build", "failed"} => phase'[x] \in {"build", "failed"} \/ Built(x)'
<1>0. /\ phase \in [Insts -> Phases]
      /\ phase[x] \in {"build", "apply"} <=> busy = x
  BY DEF IInv, TypeOK, Staged
<1>1. CASE UNCHANGED <<phase, busy>>
  BY <1>1
<1>2. ASSUME NEW i \in Insts, Begin(i) \/ Applied(i) \/ StartReturns(i)
      PROVE  /\ phase[x] = "live" => phase'[x] = "live"
             /\ phase[x] \in {"build", "failed"} => phase'[x] = phase[x]
  BY <1>0, <1>2 DEF Begin, Applied, Applying, StartReturns
<1>3. ASSUME NEW i \in Insts, Aborts(i)
      PROVE  /\ phase[x] = "live" => phase'[x] = "live"
             /\ phase[x] \in {"build", "failed"} => phase'[x] = "failed"
  <2>1. phase[i] \in {"build", "apply", "start"} /\ phase' = [phase EXCEPT ![i] = "failed"]
    BY <1>3 DEF Aborts, Building, Applying, Fail
  <2>2. phase[x] = "build" => i = x
    BY <1>0, <1>3, StoreAssumption DEF Aborts, Building, Applying
  <2> QED BY <1>0, <2>1, <2>2
<1>4. ASSUME NEW i \in Insts, BuildSegments(i)
      PROVE  /\ phase[x] = "live" => phase'[x] = "live"
             /\ phase[x] \in {"build", "failed"} => phase'[x] = phase[x] \/ phase'[x] = "apply"
  BY <1>0, <1>4 DEF BuildSegments, Building
<1>5. phase'[x] = "apply" => Built(x)'
  BY StagedStep DEF Staged, Built
<1> QED BY <1>1, <1>2, <1>3, <1>4, <1>5, PhaseStep DEF Advances

\* A link that a step adds is to something importable, or to the instance's own.
LEMMA NewLinks ==
  ASSUME IInv, [Next]_vars, NEW j \in Insts
  PROVE  /\ \A k \in DOMAIN memoryIndex'[j] :
              LET m == memoryIndex'[j][k] IN
                \/ k \in DOMAIN memoryIndex[j] /\ m = memoryIndex[j][k]
                \/ m \in Mems /\ Building(j) /\ Importable(memories[m]) /\ memories' = memories
                \/ m \in Mems /\ Building(j) /\ ~memories[m].made /\ memories'[m].owner = j
         /\ \A k \in DOMAIN tableIndex'[j] :
              LET t == tableIndex'[j][k] IN
                \/ k \in DOMAIN tableIndex[j] /\ t = tableIndex[j][k]
                \/ t \in Tabs /\ Building(j) /\ Importable(tables[t]) /\ tables' = tables
                \/ t \in Tabs /\ Building(j) /\ ~tables[t].made /\ tables'[t].owner = j
<1>0. /\ memoryIndex \in [Insts -> Seq(Mems)] /\ tableIndex \in [Insts -> Seq(Tabs)]
      /\ memories \in [Mems -> Areas(Refs, Bytes)] /\ tables \in [Tabs -> Areas(Refs, Refs)]
  BY DEF IInv, TypeOK
<1>1. ASSUME NEW k \in DOMAIN memoryIndex'[j]
      PROVE  LET m == memoryIndex'[j][k] IN
               \/ k \in DOMAIN memoryIndex[j] /\ m = memoryIndex[j][k]
               \/ m \in Mems /\ Building(j) /\ Importable(memories[m]) /\ memories' = memories
               \/ m \in Mems /\ Building(j) /\ ~memories[m].made /\ memories'[m].owner = j
  <2>1. CASE memoryIndex' = memoryIndex
    BY <1>1, <2>1
  <2>2. ASSUME NEW i \in Insts, NEW m \in Mems, MemoryLinked(i, m)
        PROVE  \/ k \in DOMAIN memoryIndex[j] /\ memoryIndex'[j][k] = memoryIndex[j][k]
               \/ i = j /\ memoryIndex'[j][k] = m
    <3>1. memoryIndex' = [memoryIndex EXCEPT ![i] = Append(@, m)]
      BY <2>2 DEF MemoryLinked
    <3> QED BY <1>0, <1>1, <3>1, AppendLinks
  <2>3. ASSUME NEW m \in Mems, MemoryLinked(j, m)
        PROVE  \/ m \in Mems /\ Building(j) /\ Importable(memories[m]) /\ memories' = memories
               \/ m \in Mems /\ Building(j) /\ ~memories[m].made /\ memories'[m].owner = j
    BY <1>0, <2>3 DEF MemoryLinked, NewMemory, Area
  <2> QED BY <2>1, <2>2, <2>3, MemoryIndexStep
<1>2. ASSUME NEW k \in DOMAIN tableIndex'[j]
      PROVE  LET t == tableIndex'[j][k] IN
               \/ k \in DOMAIN tableIndex[j] /\ t = tableIndex[j][k]
               \/ t \in Tabs /\ Building(j) /\ Importable(tables[t]) /\ tables' = tables
               \/ t \in Tabs /\ Building(j) /\ ~tables[t].made /\ tables'[t].owner = j
  <2>1. CASE tableIndex' = tableIndex
    BY <1>2, <2>1
  <2>2. ASSUME NEW i \in Insts, NEW t \in Tabs, TableLinked(i, t)
        PROVE  \/ k \in DOMAIN tableIndex[j] /\ tableIndex'[j][k] = tableIndex[j][k]
               \/ i = j /\ tableIndex'[j][k] = t
    <3>1. tableIndex' = [tableIndex EXCEPT ![i] = Append(@, t)]
      BY <2>2 DEF TableLinked
    <3> QED BY <1>0, <1>2, <3>1, AppendLinks
  <2>3. ASSUME NEW t \in Tabs, TableLinked(j, t)
        PROVE  \/ t \in Tabs /\ Building(j) /\ Importable(tables[t]) /\ tables' = tables
               \/ t \in Tabs /\ Building(j) /\ ~tables[t].made /\ tables'[t].owner = j
    BY <1>0, <2>3 DEF TableLinked, NewTable, Area
  <2> QED BY <2>1, <2>2, <2>3, TableIndexStep
<1> QED BY <1>1, <1>2

LEMMA PrivacyStep ==
  ASSUME IInv, PrivateUntilLive, [Next]_vars
  PROVE  PrivateUntilLive'
<1> SUFFICES ASSUME NEW i \in Insts, NEW j \in Insts, i # j
             PROVE  /\ \A k \in DOMAIN memoryIndex'[j] : memories'[memoryIndex'[j][k]].owner = i => phase'[i] = "live"
                    /\ \A k \in DOMAIN tableIndex'[j] : tables'[tableIndex'[j][k]].owner = i => phase'[i] = "live"
  BY DEF PrivateUntilLive
<1>0. phase[i] = "live" => phase'[i] = "live"
  BY PhaseOf
<1>1. ASSUME NEW k \in DOMAIN memoryIndex'[j], memories'[memoryIndex'[j][k]].owner = i
      PROVE  phase'[i] = "live"
  <2> DEFINE m == memoryIndex'[j][k]
  <2> HIDE DEF m
  <2>1. CASE k \in DOMAIN memoryIndex[j] /\ m = memoryIndex[j][k]
    <3>1. m \in Mems /\ memories[m].made
      BY <2>1, MemoryFacts DEF IInv, Linked
    <3>2. memories'[m].owner = memories[m].owner
      BY <3>1, MemoryGrowth DEF GrownMemory, Grown
    <3> QED BY <1>0, <1>1, <2>1, <3>2 DEF PrivateUntilLive, m
  <2>2. CASE Importable(memories[m]) /\ memories' = memories
    BY <1>0, <1>1, <2>2, StoreAssumption DEF Importable, m
  <2>3. CASE memories'[m].owner = j
    BY <1>1, <2>3 DEF m
  <2> QED BY <1>1, <2>1, <2>2, <2>3, NewLinks DEF m
<1>2. ASSUME NEW k \in DOMAIN tableIndex'[j], tables'[tableIndex'[j][k]].owner = i
      PROVE  phase'[i] = "live"
  <2> DEFINE t == tableIndex'[j][k]
  <2> HIDE DEF t
  <2>1. CASE k \in DOMAIN tableIndex[j] /\ t = tableIndex[j][k]
    <3>1. t \in Tabs /\ tables[t].made
      BY <2>1, TableFacts DEF IInv, Linked
    <3>2. tables'[t].owner = tables[t].owner
      BY <3>1, TableGrowth DEF GrownTable, Grown
    <3> QED BY <1>0, <1>2, <2>1, <3>2 DEF PrivateUntilLive, t
  <2>2. CASE Importable(tables[t]) /\ tables' = tables
    BY <1>0, <1>2, <2>2, StoreAssumption DEF Importable, t
  <2>3. CASE tables'[t].owner = j
    BY <1>2, <2>3 DEF t
  <2> QED BY <1>2, <2>1, <2>2, <2>3, NewLinks DEF t
<1> QED BY <1>1, <1>2

\* Nothing of an instance is shared before its Instantiate has succeeded.
THEOREM Privacy == Spec => []PrivateUntilLive
<1>1. Init => PrivateUntilLive
  <2> SUFFICES ASSUME Init, NEW j \in Insts
               PROVE  DOMAIN memoryIndex[j] = {} /\ DOMAIN tableIndex[j] = {}
    BY DEF PrivateUntilLive
  <2> QED BY DEF Init
<1>2. IInv /\ PrivateUntilLive /\ [Next]_vars => PrivateUntilLive'
  BY PrivacyStep
<1> QED BY <1>1, <1>2, Invariance, PTL DEF Spec

\* Code that can run, or whose segments are being applied, is code of a built
\* instance, and so is everything it can hold.
LEMMA RunsBuilt ==
  ASSUME IInv, RefsCallable, NEW i \in Insts, CanRun(i)
  PROVE  Built(i)
<1>1. CASE phase[i] \in {"start", "live"}
  BY <1>1 DEF IInv, Staged
<1>2. CASE phase[i] = "failed" /\ Leaked(i)
  <2> PICK t \in Tabs :
        /\ Contains(tables[t], i)
        /\ \/ Importable(tables[t])
           \/ \E j \in Insts \ {i} : \E k \in DOMAIN tableIndex[j] : tableIndex[j][k] = t
    BY <1>2 DEF Leaked
  <2>1. ~Private(t, i)
    BY <1>2, StoreAssumption DEF Private, Importable
  <2>2. i # Nobody
    BY StoreAssumption
  <2> QED BY <2>1, <2>2 DEF RefsCallable, Contains
<1> QED BY <1>1, <1>2 DEF CanRun

LEMMA HeldBuilt ==
  ASSUME IInv, RefsCallable, NEW i \in Insts, CanRun(i) \/ Applying(i), NEW x \in Held(i), x # Nobody
  PROVE  x \in Insts /\ Built(x)
<1>1. Built(i)
  BY RunsBuilt DEF IInv, Staged, Applying
<1>2. ASSUME x # i
      PROVE  Built(x)
  <2> PICK k \in DOMAIN tableIndex[i] :
        \E j \in DOMAIN tables[tableIndex[i][k]].cells : x = tables[tableIndex[i][k]].cells[j]
    BY <1>2 DEF Held
  <2>1. tableIndex[i][k] \in Tabs
    BY TableFacts DEF IInv
  <2>2. Built(x) \/ Private(tableIndex[i][k], x)
    BY <2>1 DEF RefsCallable
  <2>3. ~Private(tableIndex[i][k], x)
    BY <1>2 DEF Private
  <2> QED BY <2>2, <2>3
<1>3. x \in Insts
  <2>1. CASE x = i
    BY <2>1
  <2>2. CASE x # i
    <3> PICK k \in DOMAIN tableIndex[i] : TRUE
      BY <2>2 DEF Held
    <3> QED BY TableFacts DEF IInv, Refs
  <2> QED BY <2>1, <2>2
<1> QED BY <1>1, <1>2, <1>3

\* A private table stays private, unless its owner gets built.
LEMMA PrivateStays ==
  ASSUME IInv, [Next]_vars, NEW t \in Tabs, NEW x \in Insts, Private(t, x), tables[t].made
  PROVE  Private(t, x)' \/ Built(x)'
<1>1. phase[x] \in {"build", "failed"} /\ tables[t].owner = x
  BY DEF Private
<1>2. phase'[x] \in {"build", "failed"} \/ Built(x)'
  BY <1>1, PhaseOf
<1>3. tables'[t].owner = x
  BY <1>1, TableGrowth DEF GrownTable, Grown
<1>4. ASSUME NEW j \in Insts \ {x}, NEW k \in DOMAIN tableIndex'[j], tableIndex'[j][k] = t
      PROVE  FALSE
  <2>1. ~(k \in DOMAIN tableIndex[j] /\ t = tableIndex[j][k])
    BY DEF Private
  <2>2. ~Importable(tables[t])
    BY <1>1, StoreAssumption DEF Importable
  <2> QED BY <1>4, <2>1, <2>2, NewLinks
<1> QED BY <1>2, <1>3, <1>4 DEF Private

LEMMA RefsStep ==
  ASSUME IInv, RefsCallable, [Next]_vars
  PROVE  RefsCallable'
<1> SUFFICES ASSUME NEW t \in Tabs, NEW j \in DOMAIN tables'[t].cells, NEW x,
                    x = tables'[t].cells[j], x # Nobody
             PROVE  Built(x)' \/ Private(t, x)'
  BY SMTT(60) DEF RefsCallable, Built, Private
<1>0. tables[t] \in Areas(Refs, Refs) /\ (~tables[t].made => tables[t].cells = << >>)
  BY DEF IInv, TypeOK, Sized, SizedTable
<1>1. CASE tables'[t] = tables[t]
  <2>1. x = tables[t].cells[j] /\ j \in DOMAIN tables[t].cells
    BY <1>1
  <2>2. tables[t].made
    <3>1. DOMAIN tables[t].cells # {}
      BY <2>1
    <3>2. DOMAIN << >> = {}
      OBVIOUS
    <3> QED BY <1>0, <3>1, <3>2
  <2>3. x \in Insts
    <3>1. tables[t].cells \in Seq(Refs)
      BY <1>0 DEF Areas
    <3>2. x \in Refs /\ x # Nobody
      BY <2>1, <3>1
    <3> QED BY <3>2 DEF Refs
  <2>4. Built(x) \/ Private(t, x)
    BY <2>1 DEF RefsCallable
  <2> QED BY <2>2, <2>3, <2>4, BuiltStays, PrivateStays
<1>2. ASSUME NEW i \in Insts, NEW cells \in Seq(Held(i)), tables'[t] = [tables[t] EXCEPT !.cells = cells],
             CanRun(i) \/ Applying(i)
      PROVE  Built(x)' \/ Private(t, x)'
  <2>1. tables'[t].cells = cells
    BY <1>0, <1>2 DEF Areas
  <2>2. x \in Held(i) /\ x # Nobody
    BY <2>1
  <2>3. x \in Insts /\ Built(x)
    BY <1>2, <2>2, HeldBuilt
  <2> QED BY <2>3, BuiltStays
<1>3. ASSUME NEW owner \in Refs, NEW limits \in Limits, NEW init \in {owner, Nobody},
             ~tables[t].made, owner = Nobody \/ Building(owner), limits[1] <= MaxElems,
             tables'[t] = NewTable(owner, limits, init)
      PROVE  Built(x)' \/ Private(t, x)'
  <2>1. tables'[t].cells = Repeat(limits[1], init) /\ tables'[t].owner = owner
    BY <1>3, NewTableType
  <2>2. x = init /\ x # Nobody
    BY <2>1 DEF Repeat
  <2>3. x = owner /\ x \in Insts /\ Building(x)
    BY <1>3, <2>2 DEF Refs
  <2>4. phase'[x] \in {"build", "failed"} \/ Built(x)'
    BY <2>3, PhaseOf DEF Building
  <2>5. ASSUME NEW h \in Insts \ {x}, NEW k \in DOMAIN tableIndex'[h], tableIndex'[h][k] = t
        PROVE  FALSE
    <3>1. ~(k \in DOMAIN tableIndex[h] /\ t = tableIndex[h][k])
      BY <1>3 DEF IInv, Linked
    <3>2. ~Importable(tables[t]) /\ ~Building(h)
      BY <1>3, <2>3 DEF Importable, Building
    <3> QED BY <2>5, <3>1, <3>2, NewLinks
  <2> QED BY <2>1, <2>3, <2>4, <2>5 DEF Private
<1> QED BY <1>1, <1>2, <1>3, OneTable

\* A reference that a call can find in a table is to a function of an instance
\* that has all its memories, tables and segments, failed ones included.
THEOREM Callable == Spec => []RefsCallable
<1>1. Init => RefsCallable
  <2> SUFFICES ASSUME Init, NEW t \in Tabs
               PROVE  DOMAIN tables[t].cells = {}
    BY DEF RefsCallable
  <2> QED BY DEF Init, Unmade
<1>2. IInv /\ RefsCallable /\ [Next]_vars => RefsCallable'
  BY RefsStep
<1> QED BY <1>1, <1>2, Invariance, PTL DEF Spec

\* No code runs on an instance that lacks something its code names.
THEOREM BuiltRuns == Spec => []OnlyBuiltRuns
<1>1. IInv /\ RefsCallable => OnlyBuiltRuns
  BY RunsBuilt DEF OnlyBuiltRuns
<1> QED BY <1>1, Invariance, Callable, PTL
=============================================================================
