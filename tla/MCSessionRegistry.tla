-------------------------- MODULE MCSessionRegistry --------------------------
(***************************************************************************)
(* Small instances of SessionRegistry.                                     *)
(***************************************************************************)
EXTENDS SessionRegistry, TLC

CONSTANTS s1, s2, s3, c1, c2

SessionSymmetry == Permutations(Sessions)

\* Runs in which nobody logs out: every call is a login.
OnlyLogins == \A c \in Callers : call[c].op \in {"none", "login"}
=============================================================================
