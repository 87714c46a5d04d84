--------------------------- MODULE SessionRegistry ---------------------------
(***************************************************************************)
(* The list of sessions a Node.js server keeps in its storage (node        *)
(* package: SessionInfoManager register, clear and clearAll, reached from  *)
(* Session.login, Session.logout and clearSessionFromStorageAll).          *)
(*                                                                         *)
(* The storage is an IStorage whose operations are asynchronous, so every  *)
(* await is a point where the calls of other requests run.  A call reads   *)
(* the list under the one key KEY_REGISTERED_SESSIONS, and later writes a  *)
(* list it computed from what it read: each action below is one storage    *)
(* operation with the code that runs before the next await.  The JSON      *)
(* array is modelled by the set of its elements: the code only asks which  *)
(* identifiers it contains.                                                *)
(***************************************************************************)
EXTENDS FiniteSets

CONSTANTS
  Sessions,   \* session identifiers
  Callers,    \* concurrent callers of the API (requests being served)
  Undefined,  \* what the storage returns for a key that is not set
  MayCrash    \* whether the process may stop between two steps

ASSUME RegistryAssumption ==
  /\ \A S \in SUBSET Sessions : Undefined # S
  /\ Undefined \notin Sessions
  /\ MayCrash \in BOOLEAN

VARIABLES
  registered,   \* value under KEY_REGISTERED_SESSIONS
  stored,       \* sessions with data under solidClientAuthenticationUser:<id>
  call,         \* call[c]: what caller c is doing, and in which step
  list,         \* list[c]: the set caller c computed from its last read
  clearing,     \* clearing[c][s]: step of the clear of s that c runs
  copy,         \* copy[c][s]: the set that clear is about to write
  interrupted   \* history: sessions whose last clear was cut short by a crash

vars == <<registered, stored, call, list, clearing, copy, interrupted>>

NoCall == [op |-> "none", session |-> Undefined, step |-> "none"]
Call == [op : {"none", "login", "logout", "clearAll"},
         session : Sessions \cup {Undefined},
         step : {"none", "read", "write", "data", "clear"}]
ClearSteps == {"none", "read", "write", "delete"}

\* What JSON.parse of a read list contains.
Ids(value) == IF value = Undefined THEN {} ELSE value

\* Mutant: the new list holds the new session only.
OnlySession(ids, s) == {s}
\* The list register writes.
WithSession(ids, s) == ids \cup {s}

\* Mutant: the whole list is dropped instead of one session.
WithoutAny(ids, s) == {}
\* The list clear writes.
WithoutSession(ids, s) == ids \ {s}

\* Mutant: clearAll only empties the list.
NoneToClear(ids) == [s \in Sessions |-> "none"]
\* The clears that clearAll starts.
ToClear(ids) == [s \in Sessions |-> IF s \in ids THEN "read" ELSE "none"]

\* Mutant: the session identifier is not passed on.
AnonymousLogin(s) == [op |-> "login", session |-> Undefined, step |-> "read"]
LoginCall(s) == [op |-> "login", session |-> s, step |-> "read"]

Init ==
  /\ registered = Undefined
  /\ stored = {}
  /\ call = [c \in Callers |-> NoCall]
  /\ list = [c \in Callers |-> {}]
  /\ clearing = [c \in Callers |-> [s \in Sessions |-> "none"]]
  /\ copy = [c \in Callers |-> [s \in Sessions |-> {}]]
  /\ interrupted = {}

At(c, op, step) == call[c].op = op /\ call[c].step = step
Goto(c, step) == call' = [call EXCEPT ![c].step = step]
Return(c) == call' = [call EXCEPT ![c] = NoCall]

-----------------------------------------------------------------------------
(* Session.login: register, then the login handler saves session data.     *)

Login(c, s) ==
  /\ call[c] = NoCall
  /\ call' = [call EXCEPT ![c] = LoginCall(s)]
  /\ UNCHANGED <<registered, stored, list, clearing, copy, interrupted>>

\* register: read the list; a session already in it is not written again.
RegisterRead(c) ==
  /\ At(c, "login", "read")
  /\ IF call[c].session \in Ids(registered)
       THEN Goto(c, "data") /\ UNCHANGED list
       ELSE /\ Goto(c, "write")
            /\ list' = [list EXCEPT ![c] = WithSession(Ids(registered), call[c].session)]
  /\ UNCHANGED <<registered, stored, clearing, copy, interrupted>>

RegisterWrite(c) ==
  /\ At(c, "login", "write")
  /\ registered' = list[c]
  /\ Goto(c, "data")
  /\ UNCHANGED <<stored, list, clearing, copy, interrupted>>

\* The login handler stores what it knows of the session under its own key.
SaveSession(c) ==
  /\ At(c, "login", "data")
  /\ stored' = stored \cup {call[c].session}
  /\ Return(c)
  /\ UNCHANGED <<registered, list, clearing, copy, interrupted>>

\* The login handler throws before it stored anything.
LoginFails(c) ==
  /\ At(c, "login", "data")
  /\ Return(c)
  /\ UNCHANGED <<registered, stored, list, clearing, copy, interrupted>>

-----------------------------------------------------------------------------
(* Session.logout clears one session; clearAll clears, in parallel, each   *)
(* session of the list it read, and then writes the empty list.            *)

Logout(c, s) ==
  /\ call[c] = NoCall
  /\ call' = [call EXCEPT ![c] = [op |-> "logout", session |-> s, step |-> "clear"]]
  /\ clearing' = [clearing EXCEPT ![c][s] = "read"]
  /\ UNCHANGED <<registered, stored, list, copy, interrupted>>

ClearAll(c) ==
  /\ call[c] = NoCall
  /\ call' = [call EXCEPT ![c] =
                [op |-> "clearAll", session |-> Undefined, step |-> "read"]]
  /\ UNCHANGED <<registered, stored, list, clearing, copy, interrupted>>

ClearAllRead(c) ==
  /\ At(c, "clearAll", "read")
  /\ IF registered = Undefined
       THEN Return(c) /\ UNCHANGED clearing
       ELSE /\ Goto(c, "clear")
            /\ clearing' = [clearing EXCEPT ![c] = ToClear(registered)]
  /\ list' = [list EXCEPT ![c] = Ids(registered)]
  /\ UNCHANGED <<registered, stored, copy, interrupted>>

\* clear(s): read the list; without a list, go straight to the user data.
ClearRead(c, s) ==
  /\ clearing[c][s] = "read"
  /\ IF registered = Undefined
       THEN clearing' = [clearing EXCEPT ![c][s] = "delete"] /\ UNCHANGED copy
       ELSE /\ clearing' = [clearing EXCEPT ![c][s] = "write"]
            /\ copy' = [copy EXCEPT ![c][s] = WithoutSession(registered, s)]
  /\ UNCHANGED <<registered, stored, call, list, interrupted>>

ClearWrite(c, s) ==
  /\ clearing[c][s] = "write"
  /\ registered' = copy[c][s]
  /\ clearing' = [clearing EXCEPT ![c][s] = "delete"]
  /\ UNCHANGED <<stored, call, list, copy, interrupted>>

ClearDelete(c, s) ==
  /\ clearing[c][s] = "delete"
  /\ stored' = stored \ {s}
  /\ clearing' = [clearing EXCEPT ![c][s] = "none"]
  /\ interrupted' = interrupted \ {s}
  /\ UNCHANGED <<registered, call, list, copy>>

Cleared(c) == \A s \in Sessions : clearing[c][s] = "none"

LogoutReturns(c) ==
  /\ At(c, "logout", "clear")
  /\ Cleared(c)
  /\ Return(c)
  /\ UNCHANGED <<registered, stored, list, clearing, copy, interrupted>>

ClearAllWrite(c) ==
  /\ At(c, "clearAll", "clear")
  /\ Cleared(c)
  /\ registered' = {}
  /\ Return(c)
  /\ UNCHANGED <<stored, list, clearing, copy, interrupted>>

-----------------------------------------------------------------------------
\* The process stops; what the storage holds survives, the calls do not.
Crash ==
  /\ MayCrash
  /\ interrupted' = interrupted \cup
       {s \in Sessions : \E c \in Callers : clearing[c][s] # "none"}
  /\ call' = [c \in Callers |-> NoCall]
  /\ list' = [c \in Callers |-> {}]
  /\ clearing' = [c \in Callers |-> [s \in Sessions |-> "none"]]
  /\ copy' = [c \in Callers |-> [s \in Sessions |-> {}]]
  /\ UNCHANGED <<registered, stored>>

\* The steps the library takes by itself once a call has begun.
Continue(c) ==
  \/ RegisterRead(c) \/ RegisterWrite(c) \/ SaveSession(c) \/ LoginFails(c)
  \/ ClearAllRead(c) \/ LogoutReturns(c) \/ ClearAllWrite(c)
  \/ \E s \in Sessions : ClearRead(c, s) \/ ClearWrite(c, s) \/ ClearDelete(c, s)

Begin(c) == ClearAll(c) \/ \E s \in Sessions : Login(c, s) \/ Logout(c, s)

Next == Crash \/ \E c \in Callers : Begin(c) \/ Continue(c)

Spec == Init /\ [][Next]_vars

-----------------------------------------------------------------------------
\* The registry, its calls and the steps they have reached.
TypeOK ==
  /\ registered \in {Undefined} \cup SUBSET Sessions
  /\ stored \subseteq Sessions
  /\ call \in [Callers -> Call]
  /\ \A c \in Callers : call[c].op \in {"login", "logout"} => call[c].session \in Sessions
  /\ list \in [Callers -> SUBSET Sessions]
  /\ clearing \in [Callers -> [Sessions -> ClearSteps]]
  /\ copy \in [Callers -> [Sessions -> SUBSET Sessions]]
  /\ interrupted \subseteq Sessions

\* A session whose data (its refresh token among it) is in storage can be
\* found through the registry, which is the only way clearAll reaches it, or
\* is being cleared, or was left over when a crash cut its clear short.
DataReachable ==
  \A s \in stored :
    \/ s \in Ids(registered)
    \/ \E c \in Callers : clearing[c][s] # "none"
    \/ s \in interrupted

\* clearAll runs its clears in parallel and they overwrite each other's
\* lists; when it writes the empty list, the only data left in storage is
\* what an earlier crash had put out of its reach.
ClearAllClears ==
  [][\A c \in Callers : ClearAllWrite(c) => stored \subseteq interrupted]_vars

\* The registry behaves like a set with atomic operations, whatever steps
\* its calls take (while calls do not overlap): a login adds its session and
\* loses no other, a logout takes its own off and no other, and a process
\* that stops loses a session only if a clearAll was clearing them.
Emptying == \E c \in Callers : At(c, "clearAll", "clear")
Known ==
  IF Emptying
    THEN list[CHOOSE c \in Callers : At(c, "clearAll", "clear")]
    ELSE Ids(registered)

Atomic == INSTANCE SessionSet WITH sessions <- Known, emptying <- Emptying
IsAtomic == Atomic!Spec
=============================================================================
