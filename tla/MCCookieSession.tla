--------------------------- MODULE MCCookieSession ---------------------------
(***************************************************************************)
(* Small instances of CookieSession.                                       *)
(***************************************************************************)
EXTENDS CookieSession, TLC

CONSTANTS n1, n2, s1, s2

Symmetry == Permutations(Names) \cup Permutations(Servers)
=============================================================================
