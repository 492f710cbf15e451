------------------------------ MODULE MCCalls ------------------------------
(* Small instances of Calls for TLC. *)
EXTENDS Calls, TLC

CONSTANTS i1, i2, e1, e2

\* Neither instances nor exceptions are told apart.
Alike == Permutations({i1, i2}) \cup Permutations({e1, e2})
=============================================================================
