------------------------------ MODULE SessionSet ------------------------------
(***************************************************************************)
(* What the list of registered sessions promises: a set of session         *)
(* identifiers that a login adds to and a logout removes one session from, *)
(* each in one step, and that clearAll empties.  Only emptying takes time: *)
(* a crash in the middle of it may leave any part of the set.  At any      *)
(* other moment a crash loses no session.                                  *)
(***************************************************************************)
CONSTANTS Sessions, MayCrash

VARIABLES
  sessions,   \* the registered sessions
  emptying    \* whether clearAll is clearing them

vars == <<sessions, emptying>>

Init == sessions = {} /\ emptying = FALSE

Register(s) == ~ emptying /\ sessions' = sessions \cup {s} /\ UNCHANGED emptying
Remove(s) == ~ emptying /\ sessions' = sessions \ {s} /\ UNCHANGED emptying

StartEmptying == ~ emptying /\ emptying' = TRUE /\ UNCHANGED sessions
Empty == emptying /\ sessions' = {} /\ emptying' = FALSE

Crash ==
  /\ MayCrash
  /\ emptying
  /\ sessions' \in SUBSET sessions
  /\ emptying' = FALSE

Next ==
  \/ StartEmptying \/ Empty \/ Crash
  \/ \E s \in Sessions : Register(s) \/ Remove(s)

Spec == Init /\ [][Next]_vars
=============================================================================
