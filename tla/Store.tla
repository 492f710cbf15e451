-------------------------------- MODULE Store --------------------------------
(***************************************************************************)
(* The store of internal/vm/instance.go: memories and tables, which host   *)
(* and instances share by pointer, the segments each instance owns, and    *)
(* the stages of Instantiate, which may fail half way and leaves behind    *)
(* what it has already written.                                            *)
(*                                                                         *)
(* The VM is single-threaded. Instantiate runs without interruption up to  *)
(* the start function; from then on code of any instance may run, called   *)
(* by the start function, by the host or through a table. Memories have    *)
(* 32-bit addresses; a function reference is abstracted to the instance    *)
(* that owns the function.                                                 *)
(***************************************************************************)
EXTENDS Integers, Sequences

CONSTANTS
  Insts,      \* identities of instances
  Mems,       \* identities of memories
  Tabs,       \* identities of tables
  Nobody,     \* no instance; as an owner, the host; as a reference, null
  Module,     \* [Insts -> the module an instance is made from]
  HostMemoryLimits, HostTableLimits, \* the <<min, max>> of what the host creates
  Bytes,      \* the values of a byte, with 0
  PageSize,   \* wasmPageSize
  MaxPages,   \* maxWasm32MemoryPages
  MaxElems,   \* maxTableElements
  MaxWord     \* the largest uint64

VARIABLES
  memories,     \* [Mems -> area]
  tables,       \* [Tabs -> area]
  phase,        \* [Insts -> "none", "build", "apply", "start", "live", "failed"]
  memoryIndex,  \* [Insts -> Seq(Mems)], Instance.memories
  tableIndex,   \* [Insts -> Seq(Tabs)], Instance.tables
  dataDropped,  \* [Insts -> Seq(BOOLEAN)], dataInst.dropped
  elemDropped,  \* [Insts -> Seq(BOOLEAN)], elemInst.dropped
  busy,         \* the instance that Instantiate is working on, or Nobody
  next,         \* its next segment: the element segments, then the data segments
  last          \* history: did the last operation succeed, and should it have?

links == <<memoryIndex, tableIndex>>
segments == <<dataDropped, elemDropped>>
vars == <<memories, tables, phase, memoryIndex, tableIndex, dataDropped, elemDropped, busy, next, last>>

Words == 0 .. MaxWord
NoMax == -1
Refs == Insts \cup {Nobody}

Limits == {l \in Nat \X (Nat \cup {NoMax}) : l[2] = NoMax \/ l[1] <= l[2]}
PageLimits == {l \in Limits : l[1] <= MaxPages /\ l[2] <= MaxPages}
Definitions == [imported : BOOLEAN, limits : Limits]
DataSegments == [mode : {"active", "passive"}, area : Nat, offset : Words, init : Seq(Bytes)]
\* An element is a function of the instance (TRUE) or null.
ElemSegments ==
  [mode : {"active", "passive", "declarative"}, area : Nat, offset : Words, init : Seq(BOOLEAN)]

Modules == [mems : Seq(Definitions), tabs : Seq(Definitions),
            data : Seq(DataSegments), elems : Seq(ElemSegments), start : BOOLEAN]

ASSUME StoreAssumption ==
  /\ Nobody \notin Insts
  /\ {PageSize, MaxElems, MaxPages, MaxWord} \subseteq Nat
  /\ PageSize > 0 /\ MaxPages * PageSize <= MaxWord + 1 /\ MaxPages <= MaxWord /\ MaxElems <= MaxWord
  /\ 0 \in Bytes
  /\ HostMemoryLimits \subseteq PageLimits /\ HostTableLimits \subseteq Limits

\* What ValidateModule guarantees of a module: limits are ordered, within the
\* address space, and segments name memories and tables there are.
ASSUME ModuleAssumption ==
  /\ Module \in [Insts -> Modules]
  /\ \A i \in Insts :
       /\ \A k \in DOMAIN Module[i].mems : Module[i].mems[k].limits \in PageLimits
       /\ \A k \in DOMAIN Module[i].data : 
            Module[i].data[k].mode = "active" => Module[i].data[k].area \in DOMAIN Module[i].mems
       /\ \A k \in DOMAIN Module[i].elems :
            Module[i].elems[k].mode = "active" => Module[i].elems[k].area \in DOMAIN Module[i].tabs

-----------------------------------------------------------------------------
(* Areas: what a Memory and a Table have in common *)

Area(owner, cells, limit) == [made |-> TRUE, owner |-> owner, cells |-> cells, limit |-> limit]
Unmade == [made |-> FALSE, owner |-> Nobody, cells |-> << >>, limit |-> 0]

Fit(cells, at, n) == at <= Len(cells) /\ n <= Len(cells) - at

Overwrite(cells, at, new) ==
  [j \in DOMAIN cells |-> IF j > at /\ j <= at + Len(new) THEN new[j - at] ELSE cells[j]]

Repeat(n, x) == [j \in 1 .. n |-> x]
Slice(cells, at, n) == SubSeq(cells, at + 1, at + n)

\* Mutant: a grow starts afresh.
ExtendAfresh(cells, n, x) == Repeat(Len(cells) + n, x)

Extend(cells, n, x) == cells \o Repeat(n, x)

\* Mutant: the new size is computed in a uint64, which may wrap.
MayGrowWrapped(old, delta, limit) == (old + delta) % (MaxWord + 1) <= limit

\* memoryGrow and tableGrow.
MayGrow(old, delta, limit) == delta <= MaxWord - old /\ old + delta <= limit

Pages(area) == Len(area.cells) \div PageSize

\* Mutant: a memory without a maximum has no limit.
PageLimitNone(limits) == IF limits[2] = NoMax THEN MaxWord ELSE limits[2]

\* Memory.maxPages and Table.maxElements
PageLimit(limits) == IF limits[2] = NoMax THEN MaxPages ELSE limits[2]
ElemLimit(limits) == IF limits[2] = NoMax THEN MaxWord ELSE limits[2]

NewMemory(owner, limits) == Area(owner, Repeat(limits[1] * PageSize, 0), PageLimit(limits))
NewTable(owner, limits, init) == Area(owner, Repeat(limits[1], init), ElemLimit(limits))

-----------------------------------------------------------------------------
(* Instantiate *)

\* Mutant: the exports of an instance that failed are published too.
ImportableAnyway(area) == area.made /\ area.owner \in {Nobody} \cup {i \in Insts : phase[i] \in {"live", "failed"}}

\* Exports are published when Instantiate has succeeded, so an import is the
\* host's or a live instance's.
Importable(area) == area.made /\ area.owner \in {Nobody} \cup {i \in Insts : phase[i] = "live"}

HostMemory ==
  /\ busy = Nobody
  /\ \E m \in Mems, limits \in HostMemoryLimits :
       /\ ~memories[m].made
       /\ memories' = [memories EXCEPT ![m] = NewMemory(Nobody, limits)]
  /\ UNCHANGED <<tables, phase, links, segments, busy, next, last>>

HostTable ==
  /\ busy = Nobody
  /\ \E t \in Tabs, limits \in HostTableLimits :
       /\ ~tables[t].made /\ limits[1] <= MaxElems
       /\ tables' = [tables EXCEPT ![t] = NewTable(Nobody, limits, Nobody)]
  /\ UNCHANGED <<memories, phase, links, segments, busy, next, last>>

Begin(i) ==
  /\ busy = Nobody /\ phase[i] = "none"
  /\ busy' = i
  /\ phase' = [phase EXCEPT ![i] = "build"]
  /\ UNCHANGED <<memories, tables, links, segments, next, last>>

\* Instantiate returns an error; the instance is lost, what it wrote is not.
Fail(i) ==
  /\ busy' = Nobody
  /\ phase' = [phase EXCEPT ![i] = "failed"]
  /\ UNCHANGED <<memories, tables, links, segments, next, last>>

Building(i) == busy = i /\ phase[i] = "build"

\* Mutant: the maximum is not looked at.
AcceptableMin(size, limit, limits) == size >= limits[1]

\* checkImportedMemory and checkImportedTable, on size and effective limit.
Acceptable(size, limit, limits) == size >= limits[1] /\ (limits[2] # NoMax => limit <= limits[2])

\* One round of buildMemories.
BuildMemory(i) ==
  LET k == Len(memoryIndex[i]) + 1
      def == Module[i].mems[k]
  IN  /\ Building(i) /\ k \in DOMAIN Module[i].mems
      /\ \/ def.imported /\ \E m \in Mems :
              /\ Importable(memories[m])
              /\ IF ~Acceptable(Pages(memories[m]), memories[m].limit, def.limits) THEN Fail(i)
                 ELSE /\ memoryIndex' = [memoryIndex EXCEPT ![i] = Append(@, m)]
                      /\ UNCHANGED <<memories, tables, phase, tableIndex, segments, busy, next, last>>
         \/ ~def.imported /\ \E m \in Mems :
              /\ ~memories[m].made
              /\ memories' = [memories EXCEPT ![m] = NewMemory(i, def.limits)]
              /\ memoryIndex' = [memoryIndex EXCEPT ![i] = Append(@, m)]
              /\ UNCHANGED <<tables, phase, tableIndex, segments, busy, next, last>>
         \/ def.imported /\ Fail(i)   \* the import is missing

\* One round of buildTables. The initializer is null or a function of i.
BuildTable(i) ==
  LET k == Len(tableIndex[i]) + 1
      def == Module[i].tabs[k]
  IN  /\ Building(i) /\ Len(memoryIndex[i]) = Len(Module[i].mems) /\ k \in DOMAIN Module[i].tabs
      /\ \/ def.imported /\ \E t \in Tabs :
              /\ Importable(tables[t])
              /\ IF ~Acceptable(Len(tables[t].cells), tables[t].limit, def.limits) THEN Fail(i)
                 ELSE /\ tableIndex' = [tableIndex EXCEPT ![i] = Append(@, t)]
                      /\ UNCHANGED <<memories, tables, phase, memoryIndex, segments, busy, next, last>>
         \/ ~def.imported /\ def.limits[1] <= MaxElems /\ \E t \in Tabs, init \in {i, Nobody} :
              /\ ~tables[t].made
              /\ tables' = [tables EXCEPT ![t] = NewTable(i, def.limits, init)]
              /\ tableIndex' = [tableIndex EXCEPT ![i] = Append(@, t)]
              /\ UNCHANGED <<memories, phase, memoryIndex, segments, busy, next, last>>
         \/ (def.imported \/ def.limits[1] > MaxElems) /\ Fail(i)

\* Mutant: the element segments are forgotten.
BuildDataSegments(i) ==
  /\ Building(i)
  /\ Len(memoryIndex[i]) = Len(Module[i].mems) /\ Len(tableIndex[i]) = Len(Module[i].tabs)
  /\ dataDropped' = [dataDropped EXCEPT ![i] = [k \in DOMAIN Module[i].data |-> FALSE]]
  /\ phase' = [phase EXCEPT ![i] = "apply"]
  /\ next' = 1
  /\ UNCHANGED <<memories, tables, links, elemDropped, busy, last>>

\* buildDataSegments and buildElementSegments.
BuildSegments(i) ==
  /\ Building(i)
  /\ Len(memoryIndex[i]) = Len(Module[i].mems) /\ Len(tableIndex[i]) = Len(Module[i].tabs)
  /\ dataDropped' = [dataDropped EXCEPT ![i] = [k \in DOMAIN Module[i].data |-> FALSE]]
  /\ elemDropped' = [elemDropped EXCEPT ![i] =
                       [k \in DOMAIN Module[i].elems |-> Module[i].elems[k].mode = "declarative"]]
  /\ phase' = [phase EXCEPT ![i] = "apply"]
  /\ next' = 1
  /\ UNCHANGED <<memories, tables, links, busy, last>>

Applying(i) == busy = i /\ phase[i] = "apply"

ElemValues(i, k) == [j \in DOMAIN Module[i].elems[k].init |-> IF Module[i].elems[k].init[j] THEN i ELSE Nobody]

\* Mutant: an active segment is left as it is.
SpendNothing(flags, i, k) == flags

\* An active segment is dropped when it has been applied.
Spend(flags, i, k) == [flags EXCEPT ![i][k] = TRUE]

\* One round of applyElementSegments.
ApplyElem(i) ==
  LET seg == Module[i].elems[next]
      t == tableIndex[i][seg.area]
  IN  /\ Applying(i) /\ next \in DOMAIN Module[i].elems
      /\ IF seg.mode = "active" /\ ~Fit(tables[t].cells, seg.offset, Len(seg.init)) THEN Fail(i)
         ELSE /\ next' = next + 1
              /\ IF seg.mode # "active" THEN UNCHANGED <<tables, elemDropped>>
                 ELSE /\ tables' = [tables EXCEPT ![t].cells = Overwrite(@, seg.offset, ElemValues(i, next))]
                      /\ elemDropped' = Spend(elemDropped, i, next)
              /\ UNCHANGED <<memories, phase, links, dataDropped, busy, last>>

\* One round of applyDataSegments.
ApplyData(i) ==
  LET k == next - Len(Module[i].elems)
      seg == Module[i].data[k]
      m == memoryIndex[i][seg.area]
  IN  /\ Applying(i) /\ k \in DOMAIN Module[i].data
      /\ IF seg.mode = "active" /\ ~Fit(memories[m].cells, seg.offset, Len(seg.init)) THEN Fail(i)
         ELSE /\ next' = next + 1
              /\ IF seg.mode # "active" THEN UNCHANGED <<memories, dataDropped>>
                 ELSE /\ memories' = [memories EXCEPT ![m].cells = Overwrite(@, seg.offset, seg.init)]
                      /\ dataDropped' = Spend(dataDropped, i, k)
              /\ UNCHANGED <<tables, phase, links, elemDropped, busy, last>>

\* executeStartFunction is entered, if there is one.
Applied(i) ==
  /\ Applying(i) /\ next > Len(Module[i].elems) + Len(Module[i].data)
  /\ phase' = [phase EXCEPT ![i] = IF Module[i].start THEN "start" ELSE "live"]
  /\ busy' = Nobody
  /\ UNCHANGED <<memories, tables, links, segments, next, last>>

StartReturns(i) ==
  /\ busy = Nobody /\ phase[i] = "start"
  /\ phase' = [phase EXCEPT ![i] = "live"]
  /\ UNCHANGED <<memories, tables, links, segments, busy, next, last>>

StartTraps(i) == busy = Nobody /\ phase[i] = "start" /\ Fail(i)

-----------------------------------------------------------------------------
(* Operations of running code *)

\* A function of a failed instance can still be called when a table that others
\* have, or may yet have, refers to it.
Contains(area, x) == \E j \in DOMAIN area.cells : area.cells[j] = x
Leaked(i) ==
  \E t \in Tabs : /\ Contains(tables[t], i)
                 /\ \/ Importable(tables[t])
                    \/ \E j \in Insts \ {i} : \E k \in DOMAIN tableIndex[j] : tableIndex[j][k] = t

CanRun(i) ==
  /\ busy = Nobody
  /\ phase[i] \in {"start", "live"} \/ (phase[i] = "failed" /\ Leaked(i))

\* An operation by i that should succeed exactly when legal: succeeds and has
\* its effect, or traps (a grow: answers -1) and has none.
Outcome(ok, legal, effect, frame) ==
  /\ last' = [ok |-> ok, legal |-> legal]
  /\ UNCHANGED <<phase, links, busy, next>>
  /\ UNCHANGED frame
  /\ effect

Within(area, at, n) == at + n <= Len(area.cells)

SetMemory(m, cells) == memories' = [memories EXCEPT ![m].cells = cells]
SetTable(t, cells) == tables' = [tables EXCEPT ![t].cells = cells]

MemoryOutcome(ok, legal, m, cells) ==
  Outcome(ok, legal, IF ok THEN SetMemory(m, cells) ELSE memories' = memories, <<tables, segments>>)

TableOutcome(ok, legal, t, cells) ==
  Outcome(ok, legal, IF ok THEN SetTable(t, cells) ELSE tables' = tables, <<memories, segments>>)

\* memoryStore at the effective address that memoryAddress computes.
MemoryStore(i, k) ==
  \E base \in Words, offset \in Words, x \in Bytes :
    LET m == memoryIndex[i][k]
        cells == memories[m].cells
    IN  MemoryOutcome(base <= MaxWord - offset /\ Fit(cells, base + offset, 1),
                      Within(memories[m], base + offset, 1),
                      m, Overwrite(cells, base + offset, <<x>>))

MemoryFill(i, k) ==
  \E at \in Words, n \in Words, x \in Bytes :
    LET m == memoryIndex[i][k]
        cells == memories[m].cells
    IN  MemoryOutcome(Fit(cells, at, n), Within(memories[m], at, n), m, Overwrite(cells, at, Repeat(n, x)))

\* Both windows may lie in one memory and overlap; copy moves as if at once.
MemoryCopy(i, k, l) ==
  \E at \in Words, from \in Words, n \in Words :
    LET m == memoryIndex[i][k]
        src == memories[memoryIndex[i][l]]
    IN  MemoryOutcome(Fit(memories[m].cells, at, n) /\ Fit(src.cells, from, n),
                      Within(memories[m], at, n) /\ Within(src, from, n),
                      m, Overwrite(memories[m].cells, at, Slice(src.cells, from, n)))

\* A dropped segment is an empty source.
MemoryInit(i, k) ==
  \E d \in DOMAIN dataDropped[i], at \in Words, from \in Words, n \in Words :
    LET m == memoryIndex[i][k]
        init == Module[i].data[d].init
        dropped == dataDropped[i][d]
    IN  MemoryOutcome(/\ ~(dropped /\ (from # 0 \/ n # 0))
                      /\ Fit(init, from, n) /\ Fit(memories[m].cells, at, n),
                      /\ from + n <= (IF dropped THEN 0 ELSE Len(init))
                      /\ Within(memories[m], at, n),
                      m, Overwrite(memories[m].cells, at, Slice(init, from, n)))

MemoryGrow(i, k) ==
  \E delta \in Words :
    LET m == memoryIndex[i][k]
        old == Pages(memories[m])
    IN  MemoryOutcome(MayGrow(old, delta, memories[m].limit),
                      old + delta <= memories[m].limit,
                      m, Extend(memories[m].cells, delta * PageSize, 0))

DataDrop(i) ==
  \E d \in DOMAIN dataDropped[i] :
    Outcome(TRUE, TRUE, dataDropped' = [dataDropped EXCEPT ![i][d] = TRUE], <<memories, tables, elemDropped>>)

\* The references code of i can hold: null, its own and those of its tables.
Held(i) ==
  {i, Nobody} \cup UNION {{tables[tableIndex[i][k]].cells[j] : j \in DOMAIN tables[tableIndex[i][k]].cells}
                            : k \in DOMAIN tableIndex[i]}

TableSet(i, k) ==
  \E at \in Words, x \in Held(i) :
    LET t == tableIndex[i][k]
        cells == tables[t].cells
    IN  TableOutcome(Fit(cells, at, 1), Within(tables[t], at, 1), t, Overwrite(cells, at, <<x>>))

TableFill(i, k) ==
  \E at \in Words, n \in Words, x \in Held(i) :
    LET t == tableIndex[i][k]
        cells == tables[t].cells
    IN  TableOutcome(Fit(cells, at, n), Within(tables[t], at, n), t, Overwrite(cells, at, Repeat(n, x)))

TableCopy(i, k, l) ==
  \E at \in Words, from \in Words, n \in Words :
    LET t == tableIndex[i][k]
        src == tables[tableIndex[i][l]]
    IN  TableOutcome(Fit(tables[t].cells, at, n) /\ Fit(src.cells, from, n),
                     Within(tables[t], at, n) /\ Within(src, from, n),
                     t, Overwrite(tables[t].cells, at, Slice(src.cells, from, n)))

TableInit(i, k) ==
  \E d \in DOMAIN elemDropped[i], at \in Words, from \in Words, n \in Words :
    LET t == tableIndex[i][k]
        init == ElemValues(i, d)
        dropped == elemDropped[i][d]
    IN  TableOutcome(/\ ~(dropped /\ (from # 0 \/ n # 0))
                     /\ Fit(init, from, n) /\ Fit(tables[t].cells, at, n),
                     /\ from + n <= (IF dropped THEN 0 ELSE Len(init))
                     /\ Within(tables[t], at, n),
                     t, Overwrite(tables[t].cells, at, Slice(init, from, n)))

TableGrow(i, k) ==
  \E delta \in Words, x \in Held(i) :
    LET t == tableIndex[i][k]
        old == Len(tables[t].cells)
    IN  TableOutcome(old + delta <= MaxElems /\ MayGrow(old, delta, tables[t].limit),
                     old + delta <= MaxElems /\ old + delta <= tables[t].limit,
                     t, Extend(tables[t].cells, delta, x))

ElemDrop(i) ==
  \E d \in DOMAIN elemDropped[i] :
    Outcome(TRUE, TRUE, elemDropped' = [elemDropped EXCEPT ![i][d] = TRUE], <<memories, tables, dataDropped>>)

-----------------------------------------------------------------------------

Init ==
  /\ memories = [m \in Mems |-> Unmade]
  /\ tables = [t \in Tabs |-> Unmade]
  /\ phase = [i \in Insts |-> "none"]
  /\ memoryIndex = [i \in Insts |-> << >>]
  /\ tableIndex = [i \in Insts |-> << >>]
  /\ dataDropped = [i \in Insts |-> << >>]
  /\ elemDropped = [i \in Insts |-> << >>]
  /\ busy = Nobody
  /\ next = 1
  /\ last = [ok |-> TRUE, legal |-> TRUE]

Instantiating(i) ==
  \/ Begin(i) \/ BuildMemory(i) \/ BuildTable(i) \/ BuildSegments(i)
  \/ ApplyElem(i) \/ ApplyData(i) \/ Applied(i) \/ StartReturns(i) \/ StartTraps(i)

MemoryOp(i) ==
  \E k \in DOMAIN memoryIndex[i] :
    \/ MemoryStore(i, k) \/ MemoryFill(i, k) \/ MemoryInit(i, k) \/ MemoryGrow(i, k)
    \/ \E l \in DOMAIN memoryIndex[i] : MemoryCopy(i, k, l)

TableOp(i) ==
  \E k \in DOMAIN tableIndex[i] :
    \/ TableSet(i, k) \/ TableFill(i, k) \/ TableInit(i, k) \/ TableGrow(i, k)
    \/ \E l \in DOMAIN tableIndex[i] : TableCopy(i, k, l)

Operating(i) == CanRun(i) /\ (MemoryOp(i) \/ TableOp(i) \/ DataDrop(i) \/ ElemDrop(i))

Next == HostMemory \/ HostTable \/ \E i \in Insts : Instantiating(i) \/ Operating(i)

Spec == Init /\ [][Next]_vars

-----------------------------------------------------------------------------
(* Properties *)

Phases == {"none", "build", "apply", "start", "live", "failed"}
Areas(Owners, Cells) ==
  [made : BOOLEAN, owner : Owners, cells : Seq(Cells), limit : Nat]

\* Every variable has its type, and an instance has flags only for segments of
\* its module.
TypeOK ==
  /\ memories \in [Mems -> Areas(Refs, Bytes)]
  /\ tables \in [Tabs -> Areas(Refs, Refs)]
  /\ phase \in [Insts -> Phases]
  /\ memoryIndex \in [Insts -> Seq(Mems)]
  /\ tableIndex \in [Insts -> Seq(Tabs)]
  /\ dataDropped \in [Insts -> Seq(BOOLEAN)]
  /\ elemDropped \in [Insts -> Seq(BOOLEAN)]
  /\ \A i \in Insts : /\ DOMAIN dataDropped[i] \subseteq DOMAIN Module[i].data
                      /\ DOMAIN elemDropped[i] \subseteq DOMAIN Module[i].elems
  /\ busy \in Refs
  /\ next \in Nat
  /\ last \in [ok : BOOLEAN, legal : BOOLEAN]

\* checkImportedMemory and checkImportedTable run once, at link time, but what
\* they promise holds for ever: whatever the sharers of a memory or table do,
\* every instance finds it at least as large as its import asked for, within the
\* maximum its import allows, and within its own limit.
Honours(size, limit, limits) ==
  /\ limits[1] <= size /\ size <= limit
  /\ limits[2] # NoMax => limit <= limits[2]

ImportContracts ==
  \A i \in Insts :
    /\ \A k \in DOMAIN memoryIndex[i] :
         LET a == memories[memoryIndex[i][k]]
         IN  a.made /\ Honours(Pages(a), a.limit, Module[i].mems[k].limits)
    /\ \A k \in DOMAIN tableIndex[i] :
         LET a == tables[tableIndex[i][k]]
         IN  a.made /\ Honours(Len(a.cells), a.limit, Module[i].tabs[k].limits)

\* Memories and tables only grow, keep their limit, and a grow keeps what is in
\* them: no window computed from an earlier size is ever out of range.
Grown(a, b) == a.made => b.made /\ b.owner = a.owner /\ b.limit = a.limit /\ Len(b.cells) >= Len(a.cells)
Kept(a, b) == Len(b.cells) > Len(a.cells) => SubSeq(b.cells, 1, Len(a.cells)) = a.cells
GrowKeeps == [][/\ \A m \in Mems : Grown(memories[m], memories'[m]) /\ Kept(memories[m], memories'[m])
                /\ \A t \in Tabs : Grown(tables[t], tables'[t]) /\ Kept(tables[t], tables'[t])]_vars

\* The bounds checks, written with differences so that uint64 never wraps, trap
\* exactly the accesses that leave the memory, table or segment, and refuse
\* exactly the grows that pass the limit.
TrapsExactly == last.ok = last.legal

\* When code of an instance can run after a successful initialization, all its
\* active and declarative segments are spent, and stay so: memory.init and
\* table.init see them as empty.
SegmentsSpent ==
  \A i \in Insts : phase[i] \in {"start", "live"} =>
    /\ \A k \in DOMAIN Module[i].data : Module[i].data[k].mode = "active" => dataDropped[i][k]
    /\ \A k \in DOMAIN Module[i].elems : Module[i].elems[k].mode # "passive" => elemDropped[i][k]

\* What an instance created is shared only once it is live: an instance that
\* fails to instantiate, in its start function too, never exports anything.
PrivateUntilLive ==
  \A i, j \in Insts : i # j =>
    /\ \A k \in DOMAIN memoryIndex[j] : memories[memoryIndex[j][k]].owner = i => phase[i] = "live"
    /\ \A k \in DOMAIN tableIndex[j] : tables[tableIndex[j][k]].owner = i => phase[i] = "live"

\* The instance has all the memories, tables and segments its code may name.
Built(i) ==
  /\ Len(memoryIndex[i]) = Len(Module[i].mems) /\ Len(tableIndex[i]) = Len(Module[i].tabs)
  /\ Len(dataDropped[i]) = Len(Module[i].data) /\ Len(elemDropped[i]) = Len(Module[i].elems)

\* Is the table out of reach of all code but the owner's, which cannot run?
Private(t, i) ==
  /\ tables[t].owner = i /\ phase[i] \in {"build", "failed"}
  /\ \A j \in Insts \ {i} : \A k \in DOMAIN tableIndex[j] : tableIndex[j][k] # t

\* A function reference in a table leads to an instance that is completely
\* built, even where Instantiate failed after writing it: a call through the
\* table never meets an index that is out of range. References to an instance
\* whose building failed are only in tables nobody can reach.
RefsCallable ==
  \A t \in Tabs : \A j \in DOMAIN tables[t].cells :
    LET i == tables[t].cells[j] IN i # Nobody => Built(i) \/ Private(t, i)

\* Code runs only on instances that are completely built.
OnlyBuiltRuns == \A i \in Insts : CanRun(i) => Built(i)

-----------------------------------------------------------------------------
(* Inductive invariant *)

\* Instances name only memories and tables there are, at most their module's.
Linked ==
  \A i \in Insts :
    /\ Len(memoryIndex[i]) <= Len(Module[i].mems) /\ Len(tableIndex[i]) <= Len(Module[i].tabs)
    /\ \A k \in DOMAIN memoryIndex[i] : memories[memoryIndex[i][k]].made
    /\ \A k \in DOMAIN tableIndex[i] : tables[tableIndex[i][k]].made

\* Memories are whole pages, no area has passed its limit, and there is nothing
\* in an area before it is made.
SizedMemory(a) ==
  /\ Len(a.cells) = Pages(a) * PageSize /\ Pages(a) <= a.limit /\ a.limit <= MaxPages
  /\ ~a.made => a.cells = << >>
SizedTable(a) == Len(a.cells) <= a.limit /\ (~a.made => a.cells = << >>)

Sized == (\A m \in Mems : SizedMemory(memories[m])) /\ (\A t \in Tabs : SizedTable(tables[t]))

\* One Instantiate is at work at a time, and it is past building only when all is built.
Staged ==
  \A i \in Insts : /\ phase[i] \in {"build", "apply"} <=> busy = i
                   /\ phase[i] \in {"apply", "start", "live"} => Built(i)

\* Has Instantiate come past the segment at position k of all its segments?
Passed(i, k) == phase[i] \in {"start", "live"} \/ (phase[i] = "apply" /\ k < next)

\* The segments that have had their turn are spent: declarative ones from the
\* moment they are built, active ones as they are applied.
SpentSoFar ==
  \A i \in Insts :
    /\ \A k \in DOMAIN Module[i].data :
         Module[i].data[k].mode = "active" /\ Passed(i, Len(Module[i].elems) + k) => dataDropped[i][k]
    /\ \A k \in DOMAIN Module[i].elems :
         /\ Module[i].elems[k].mode = "active" /\ Passed(i, k) => elemDropped[i][k]
         /\ Module[i].elems[k].mode = "declarative" /\ phase[i] \in {"apply", "start", "live"} => elemDropped[i][k]

IInv == TypeOK /\ Linked /\ Sized /\ Staged /\ SpentSoFar
=============================================================================
