--------------------------- MODULE MCBrowserSession ---------------------------
(***************************************************************************)
(* Small instances of BrowserSession.                                      *)
(***************************************************************************)
EXTENDS BrowserSession, TLC

CONSTANTS t1, t2, t3

TaskSymmetry == Permutations(Tasks)
=============================================================================
