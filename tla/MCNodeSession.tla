---------------------------- MODULE MCNodeSession ----------------------------
(***************************************************************************)
(* Small instances of NodeSession.                                         *)
(***************************************************************************)
EXTENDS NodeSession, TLC

CONSTANTS o1, o2, c1, c2, c3

Symmetry == Permutations(Objects) \cup Permutations(Calls)
=============================================================================
