------------------------------- MODULE MCStore -------------------------------
(* Small instances of Store for TLC. *)
EXTENDS Store, TLC

CONSTANTS first, second   \* the instances

Bits == {0, 1}

Def(imported, min, max) == [imported |-> imported, limits |-> <<min, max>>]
Seg(mode, area, offset, init) == [mode |-> mode, area |-> area, offset |-> offset, init |-> init]
Mod(mems, tabs, data, elems, start) ==
  [mems |-> mems, tabs |-> tabs, data |-> data, elems |-> elems, start |-> start]

\* first defines a memory with an active and a passive segment. second imports two
\* memories, perhaps the same one, the second only if it cannot grow beyond a
\* page; its second segment may not fit, and then the first is already written.
\* Both have a start function.
MemoryModules ==
  first :> Mod(<<Def(FALSE, 1, 2)>>, << >>, <<Seg("active", 1, 0, <<1>>), Seg("passive", 1, 0, <<1, 0>>)>>, << >>, TRUE)
    @@ second :> Mod(<<Def(TRUE, 0, NoMax), Def(TRUE, 1, 1)>>, << >>,
                <<Seg("active", 2, 0, <<1, 0>>), Seg("active", 1, 1, <<1>>)>>, << >>, TRUE)
MemoryLimits == {<<0, 1>>, <<1, 1>>, <<1, NoMax>>}

\* second has a table of its own and imports one of the host or of first, whose size
\* decides whether its second segment fits; if not, it fails after it has written
\* its own function to the shared table.
TableModules ==
  first :> Mod(<< >>, <<Def(FALSE, 1, 2)>>, << >>, <<Seg("active", 1, 0, <<TRUE>>), Seg("declarative", 1, 0, <<TRUE>>)>>, FALSE)
    @@ second :> Mod(<< >>, <<Def(FALSE, 1, 1), Def(TRUE, 1, 2)>>, << >>,
                <<Seg("active", 2, 0, <<TRUE>>), Seg("active", 2, 1, <<FALSE>>), Seg("passive", 1, 0, <<TRUE, FALSE>>)>>, FALSE)
TableLimits == {<<0, 1>>, <<1, 2>>, <<1, NoMax>>}
=============================================================================
