------------------------------ MODULE CodeGrant ------------------------------
(***************************************************************************)
(* The authorization code grant as an application sees it: it asks, the    *)
(* identity provider grants a code for what was asked, and each code gives *)
(* credentials at most once.  Requests and codes can be lost at any time.  *)
(***************************************************************************)
EXTENDS Naturals

CONSTANTS Requests, None

VARIABLES
  made,        \* number of requests made
  open,        \* requests that can still be answered with a code
  granted,     \* codes that can still be redeemed
  credential   \* the request whose tokens are in use

vars == <<made, open, granted, credential>>

Init == made = 0 /\ open = {} /\ granted = {} /\ credential = None

\* A new request; it may replace one that has not been answered.
Ask ==
  /\ made + 1 \in Requests
  /\ made' = made + 1
  /\ open' \subseteq open \cup {made'}
  /\ UNCHANGED <<granted, credential>>

\* Some open requests are granted, and are then closed; codes may be lost.
Answer ==
  /\ open' \subseteq open
  /\ granted' \subseteq granted \cup (open \ open')
  /\ credential' \in {credential, None}
  /\ UNCHANGED made

Redeem ==
  /\ open' \subseteq open
  /\ credential' \in granted
  /\ granted' = granted \ {credential'}
  /\ UNCHANGED made

Next == Ask \/ Answer \/ Redeem

Spec == Init /\ [][Next]_vars
=============================================================================
