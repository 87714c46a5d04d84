------------------------ MODULE SessionRegistryProofs ------------------------
(***************************************************************************)
(* Theorems about SessionRegistry: the shape of its state, for any callers *)
(* at the same time; and, when there is one caller at a time, that session *)
(* data stay within reach, that clearAll clears, and that the registry is  *)
(* the atomic set of SessionSet.  The run registry_overlap shows that the  *)
(* last three fail when calls overlap.                                     *)
(***************************************************************************)
EXTENDS SessionRegistry, TLAPS

\* The application awaits each call before the next one.
OneCaller == \A c, d \in Callers : c = d

-----------------------------------------------------------------------------
(* Type correctness.                                                       *)

LEMMA IdsOfList ==
  ASSUME NEW value \in {Undefined} \cup SUBSET Sessions
  PROVE  Ids(value) \in SUBSET Sessions
  BY DEF Ids

\* What [f EXCEPT ![c][s] = v] is, for the tables of the clears.
LEMMA TableUpdate ==
  ASSUME NEW S, NEW f \in [Callers -> [Sessions -> S]], NEW c \in Callers,
         NEW s \in Sessions, NEW v \in S
  PROVE  /\ [f EXCEPT ![c][s] = v] \in [Callers -> [Sessions -> S]]
         /\ \A d \in Callers, t \in Sessions :
              [f EXCEPT ![c][s] = v][d][t] =
                IF d = c /\ t = s THEN v ELSE f[d][t]
  OBVIOUS

\* A caller moves on to a step, or is done.
LEMMA CallShapes ==
  ASSUME TypeOK, NEW c \in Callers,
         \/ Return(c)
         \/ \E step \in {"write", "data", "clear"} : Goto(c, step)
  PROVE  /\ call' \in [Callers -> Call]
         /\ \A d \in Callers : call'[d].op \in {"login", "logout"} =>
              call'[d].session \in Sessions
  <1>1. /\ call \in [Callers -> Call] /\ call[c] \in Call
        /\ \A d \in Callers : call[d].op \in {"login", "logout"} =>
             call[d].session \in Sessions
    BY DEF TypeOK
  <1>2. CASE Return(c)
    BY <1>1, <1>2 DEF Return, NoCall, Call
  <1>3. ASSUME NEW step \in {"write", "data", "clear"}, Goto(c, step)
        PROVE  /\ call' \in [Callers -> Call]
               /\ \A d \in Callers : call'[d].op \in {"login", "logout"} =>
                    call'[d].session \in Sessions
    <2>1. /\ [call[c] EXCEPT !.step = step] \in Call
          /\ [call[c] EXCEPT !.step = step].op = call[c].op
          /\ [call[c] EXCEPT !.step = step].session = call[c].session
      BY <1>1 DEF Call
    <2>2. call' = [call EXCEPT ![c] = [call[c] EXCEPT !.step = step]]
      BY <1>1, <1>3 DEF Goto
    <2> QED
      BY <1>1, <2>1, <2>2
  <1> QED
    BY <1>2, <1>3

LEMMA InitTypeOK == Init => TypeOK
  BY DEF Init, TypeOK, NoCall, Call, ClearSteps

LEMMA NextTypeOK == TypeOK /\ [Next]_vars => TypeOK'
  <1> SUFFICES ASSUME TypeOK, [Next]_vars PROVE TypeOK'
    OBVIOUS
  <1>0. /\ registered \in {Undefined} \cup SUBSET Sessions
        /\ Ids(registered) \in SUBSET Sessions
        /\ list \in [Callers -> SUBSET Sessions]
        /\ clearing \in [Callers -> [Sessions -> ClearSteps]]
        /\ copy \in [Callers -> [Sessions -> SUBSET Sessions]]
    BY IdsOfList DEF TypeOK
  <1>a. ASSUME NEW c \in Callers, NEW s \in Sessions, NEW step \in ClearSteps
        PROVE  [clearing EXCEPT ![c][s] = step] \in [Callers -> [Sessions -> ClearSteps]]
    BY <1>0, TableUpdate
  <1>1. ASSUME NEW c \in Callers, NEW s \in Sessions, Login(c, s) \/ Logout(c, s)
        PROVE  TypeOK'
    <2>1. CASE Login(c, s)
      BY <2>1 DEF TypeOK, Login, LoginCall, Call
    <2>2. CASE Logout(c, s)
      <3>1. clearing' \in [Callers -> [Sessions -> ClearSteps]]
        BY <1>a, <2>2 DEF Logout, ClearSteps
      <3> QED
        BY <2>2, <3>1 DEF TypeOK, Logout, Call
    <2> QED
      BY <1>1, <2>1, <2>2
  <1>2. ASSUME NEW c \in Callers, ClearAll(c)
        PROVE  TypeOK'
    BY <1>2 DEF TypeOK, ClearAll, Call
  <1>3. ASSUME NEW c \in Callers, RegisterRead(c)
        PROVE  TypeOK'
    <2>1. WithSession(Ids(registered), call[c].session) \in SUBSET Sessions
      BY <1>0, <1>3 DEF TypeOK, RegisterRead, At, WithSession
    <2> QED
      BY <1>0, <1>3, <2>1, CallShapes DEF TypeOK, RegisterRead
  <1>4. ASSUME NEW c \in Callers, RegisterWrite(c)
        PROVE  TypeOK'
    BY <1>0, <1>4, CallShapes DEF TypeOK, RegisterWrite
  <1>5. ASSUME NEW c \in Callers, SaveSession(c) \/ LoginFails(c)
        PROVE  TypeOK'
    BY <1>5, CallShapes DEF TypeOK, SaveSession, LoginFails, At
  <1>6. ASSUME NEW c \in Callers, ClearAllRead(c)
        PROVE  TypeOK'
    <2>1. registered # Undefined => ToClear(registered) \in [Sessions -> ClearSteps]
      BY DEF ToClear, ClearSteps
    <2> QED
      BY <1>0, <1>6, <2>1, CallShapes DEF TypeOK, ClearAllRead
  <1>7. ASSUME NEW c \in Callers, LogoutReturns(c) \/ ClearAllWrite(c)
        PROVE  TypeOK'
    BY <1>7, CallShapes DEF TypeOK, LogoutReturns, ClearAllWrite
  <1>8. ASSUME NEW c \in Callers, NEW s \in Sessions, ClearRead(c, s)
        PROVE  TypeOK'
    <2>1. registered # Undefined => WithoutSession(registered, s) \in SUBSET Sessions
      BY <1>0 DEF WithoutSession
    <2>2. clearing' \in [Callers -> [Sessions -> ClearSteps]]
      BY <1>a, <1>8 DEF ClearRead, ClearSteps
    <2>3. copy' \in [Callers -> [Sessions -> SUBSET Sessions]]
      <3>1. CASE registered = Undefined
        BY <1>0, <1>8, <3>1 DEF ClearRead
      <3>2. CASE registered # Undefined
        <4> DEFINE rest == WithoutSession(registered, s)
        <4>1. copy' = [copy EXCEPT ![c][s] = rest] /\ rest \in SUBSET Sessions
          BY <1>8, <2>1, <3>2 DEF ClearRead
        <4> HIDE DEF rest
        <4> QED
          BY <1>0, <4>1
      <3> QED
        BY <3>1, <3>2
    <2> QED
      BY <1>8, <2>2, <2>3 DEF TypeOK, ClearRead
  <1>9. ASSUME NEW c \in Callers, NEW s \in Sessions,
               ClearWrite(c, s) \/ ClearDelete(c, s)
        PROVE  TypeOK'
    <2>1. clearing' \in [Callers -> [Sessions -> ClearSteps]]
      BY <1>a, <1>9 DEF ClearWrite, ClearDelete, ClearSteps
    <2>2. copy[c][s] \in SUBSET Sessions
      BY <1>0
    <2> QED
      BY <1>9, <2>1, <2>2 DEF TypeOK, ClearWrite, ClearDelete
  <1>10. CASE Crash
    BY <1>10 DEF TypeOK, Crash, NoCall, Call, ClearSteps
  <1>11. CASE UNCHANGED vars
    BY <1>11 DEF TypeOK, vars
  <1> QED
    BY <1>1, <1>2, <1>3, <1>4, <1>5, <1>6, <1>7, <1>8, <1>9, <1>10, <1>11
    DEF Next, Begin, Continue

\* Every step keeps the shape of the state: the stored list is a set of
\* sessions or missing, and a caller that registers or clears one knows it.
THEOREM TypeCorrect == Spec => []TypeOK
  BY InitTypeOK, NextTypeOK, PTL DEF Spec

-----------------------------------------------------------------------------
(* One caller at a time.  While a clearAll runs its clears in parallel, the *)
(* stored list says little: each clear overwrites it with the list it read  *)
(* less one session.  What holds then is about the list clearAll read.      *)

\* What a login is about to write adds its session to the stored list, and
\* its session is in the list by the time session data are stored.
LoginRegisters(c) ==
  /\ At(c, "login", "write") => list[c] = WithSession(Ids(registered), call[c].session)
  /\ At(c, "login", "data") => call[c].session \in Ids(registered)

\* Only a logout, of its session, and a clearAll run clears.
ClearsOfCall(c) ==
  \A s \in Sessions : clearing[c][s] # "none" =>
    \/ At(c, "logout", "clear") /\ call[c].session = s
    \/ At(c, "clearAll", "clear")

\* What a logout is about to write takes its session off the stored list.
LogoutRemoves(c) ==
  \A s \in Sessions :
    At(c, "logout", "clear") /\ clearing[c][s] = "write" =>
      copy[c][s] = WithoutSession(Ids(registered), s)

\* The clears of a clearAll write sessions of the list it read only, and
\* all data within its reach are of a session that has yet to be cleared.
ClearAllCovers(c) ==
  At(c, "clearAll", "clear") =>
    /\ Ids(registered) \subseteq list[c]
    /\ \A s \in Sessions : clearing[c][s] = "write" => copy[c][s] \subseteq list[c]
    /\ \A s \in stored : clearing[c][s] # "none" \/ s \in interrupted

CallInv(c) ==
  LoginRegisters(c) /\ ClearsOfCall(c) /\ LogoutRemoves(c) /\ ClearAllCovers(c)

IInv == TypeOK /\ DataReachable /\ \A c \in Callers : CallInv(c)

LEMMA InitIInv == Init => IInv
  <1> SUFFICES ASSUME Init PROVE DataReachable /\ \A c \in Callers : CallInv(c)
    BY InitTypeOK DEF IInv
  <1>1. DataReachable
    BY DEF Init, DataReachable
  <1>2. ASSUME NEW c \in Callers PROVE CallInv(c)
    BY DEF Init, NoCall, At, CallInv, LoginRegisters, ClearsOfCall, LogoutRemoves,
           ClearAllCovers
  <1> QED
    BY <1>1, <1>2

\* Where a caller is after it moved on, or returned.
LEMMA CallAfter ==
  ASSUME TypeOK, NEW c \in Callers
  PROVE  /\ \A step \in {"write", "data", "clear"} : Goto(c, step) =>
              /\ call'[c].op = call[c].op
              /\ call'[c].session = call[c].session
              /\ call'[c].step = step
         /\ Return(c) => call'[c].op = "none"
  BY DEF TypeOK, Call, Goto, Return, NoCall

\* A call of one step only changes nothing but itself: what is claimed of a
\* call that has ended, or has only begun, is that no clear runs.
LEMMA IdleInv ==
  ASSUME NEW c \in Callers, ClearsOfCall(c), UNCHANGED clearing,
         ~ At(c, "logout", "clear"), ~ At(c, "clearAll", "clear"),
         call'[c].op \notin {"login", "logout", "clearAll"} \/ call'[c].step = "read"
  PROVE  CallInv(c)'
  BY DEF ClearsOfCall, At, CallInv, LoginRegisters, LogoutRemoves, ClearAllCovers

\* The steps of a login.
LEMMA LoginSteps ==
  ASSUME OneCaller, IInv, NEW c \in Callers,
         \/ \E s \in Sessions : Login(c, s)
         \/ RegisterRead(c) \/ RegisterWrite(c) \/ SaveSession(c) \/ LoginFails(c)
  PROVE  DataReachable' /\ CallInv(c)'
  <1> USE DEF At
  <1>0. /\ TypeOK /\ DataReachable /\ CallInv(c)
        /\ ClearsOfCall(c) /\ LoginRegisters(c)
    BY DEF IInv, CallInv
  <1>1. ASSUME NEW s \in Sessions, Login(c, s)
        PROVE  DataReachable' /\ CallInv(c)'
    <2>1. call'[c] = LoginCall(s) /\ call[c].op = "none"
      BY <1>0, <1>1 DEF Login, TypeOK, NoCall
    <2>2. DataReachable'
      BY <1>0, <1>1 DEF Login, DataReachable
    <2> QED
      BY <1>0, <1>1, <2>1, <2>2, IdleInv DEF Login, LoginCall
  <1>2. CASE RegisterRead(c)
    <2>1. DataReachable'
      BY <1>0, <1>2 DEF RegisterRead, DataReachable
    <2>2. ClearsOfCall(c)' /\ LogoutRemoves(c)' /\ ClearAllCovers(c)'
      BY <1>0, <1>2, CallAfter DEF RegisterRead, ClearsOfCall, LogoutRemoves, ClearAllCovers
    <2>3. LoginRegisters(c)'
      <3>1. CASE call[c].session \in Ids(registered)
        BY <1>0, <1>2, <3>1, CallAfter DEF RegisterRead, LoginRegisters
      <3>2. CASE call[c].session \notin Ids(registered)
        <4>1. list'[c] = WithSession(Ids(registered), call[c].session)
          BY <1>0, <1>2, <3>2 DEF RegisterRead, TypeOK
        <4> QED
          BY <1>0, <1>2, <3>2, <4>1, CallAfter DEF RegisterRead, LoginRegisters
      <3> QED
        BY <3>1, <3>2
    <2> QED
      BY <2>1, <2>2, <2>3 DEF CallInv
  <1>3. CASE RegisterWrite(c)
    <2>1. Ids(registered)' = WithSession(Ids(registered), call[c].session)
      BY <1>0, <1>3, RegistryAssumption
      DEF RegisterWrite, LoginRegisters, TypeOK, Ids
    <2>2. DataReachable'
      BY <1>0, <1>3, <2>1 DEF RegisterWrite, DataReachable, WithSession
    <2>3. ClearsOfCall(c)' /\ LogoutRemoves(c)' /\ ClearAllCovers(c)'
      BY <1>0, <1>3, CallAfter DEF RegisterWrite, ClearsOfCall, LogoutRemoves, ClearAllCovers
    <2>4. LoginRegisters(c)'
      BY <1>0, <1>3, <2>1, CallAfter DEF RegisterWrite, LoginRegisters, WithSession
    <2> QED
      BY <2>2, <2>3, <2>4 DEF CallInv
  <1>4. CASE SaveSession(c) \/ LoginFails(c)
    <2>1. DataReachable'
      BY <1>0, <1>4 DEF SaveSession, LoginFails, LoginRegisters, DataReachable
    <2> QED
      BY <1>0, <1>4, <2>1, CallAfter, IdleInv DEF SaveSession, LoginFails
  <1> QED
    BY <1>1, <1>2, <1>3, <1>4

\* The steps by which a logout and a clearAll begin and end.
LEMMA EndSteps ==
  ASSUME OneCaller, IInv, NEW c \in Callers,
         \/ \E s \in Sessions : Logout(c, s)
         \/ ClearAll(c) \/ ClearAllRead(c) \/ LogoutReturns(c) \/ ClearAllWrite(c)
  PROVE  DataReachable' /\ CallInv(c)'
  <1> USE DEF At
  <1>0. /\ TypeOK /\ DataReachable /\ CallInv(c)
        /\ ClearsOfCall(c) /\ ClearAllCovers(c)
        /\ clearing \in [Callers -> [Sessions -> ClearSteps]]
    BY DEF IInv, CallInv, TypeOK
  <1>1. ASSUME NEW s \in Sessions, Logout(c, s)
        PROVE  DataReachable' /\ CallInv(c)'
    <2>1. /\ call'[c] = [op |-> "logout", session |-> s, step |-> "clear"]
          /\ call[c].op = "none"
      BY <1>0, <1>1 DEF Logout, TypeOK, NoCall
    <2>2. /\ \A d \in Callers, t \in Sessions :
               clearing'[d][t] = IF d = c /\ t = s THEN "read" ELSE clearing[d][t]
      BY <1>0, <1>1, TableUpdate DEF Logout, ClearSteps
    <2>3. DataReachable'
      BY <1>0, <1>1, <2>2 DEF Logout, DataReachable, TypeOK
    <2>4. ClearsOfCall(c)'
      BY <1>0, <2>1, <2>2 DEF ClearsOfCall
    <2>5. LogoutRemoves(c)'
      BY <1>0, <2>1, <2>2 DEF ClearsOfCall, LogoutRemoves
    <2> QED
      BY <2>1, <2>3, <2>4, <2>5 DEF CallInv, LoginRegisters, ClearAllCovers
  <1>2. CASE ClearAll(c)
    <2>1. DataReachable'
      BY <1>0, <1>2 DEF ClearAll, DataReachable
    <2> QED
      BY <1>0, <1>2, <2>1, IdleInv DEF ClearAll, TypeOK, NoCall
  <1>3. CASE ClearAllRead(c) /\ registered = Undefined
    <2>1. DataReachable'
      BY <1>0, <1>3 DEF ClearAllRead, DataReachable
    <2> QED
      BY <1>0, <1>3, <2>1, CallAfter, IdleInv DEF ClearAllRead
  <1>4. CASE ClearAllRead(c) /\ registered # Undefined
    <2>1. /\ clearing'[c] = ToClear(registered)
          /\ list'[c] = Ids(registered) /\ Ids(registered) = registered
      BY <1>0, <1>4 DEF ClearAllRead, TypeOK, Ids
    <2>2. \A s \in Sessions : clearing[c][s] = "none"
      BY <1>0, <1>4 DEF ClearAllRead, ClearsOfCall
    <2>3. DataReachable'
      <3>1. \A s \in stored : s \in Ids(registered) \/ s \in interrupted
        BY <1>0, <2>2 DEF DataReachable, OneCaller, TypeOK
      <3> QED
        BY <1>4, <3>1 DEF ClearAllRead, DataReachable
    <2>4. \A s \in stored : clearing'[c][s] # "none" \/ s \in interrupted
      BY <1>0, <2>1, <2>2 DEF DataReachable, OneCaller, ToClear, TypeOK
    <2>5. \A s \in Sessions : clearing'[c][s] # "write"
      BY <2>1 DEF ToClear
    <2>6. ClearAllCovers(c)'
      BY <1>4, <2>1, <2>4, <2>5 DEF ClearAllRead, ClearAllCovers
    <2> QED
      BY <1>0, <1>4, <2>3, <2>5, <2>6, CallAfter
      DEF ClearAllRead, CallInv, LoginRegisters, ClearsOfCall, LogoutRemoves
  <1>5. CASE LogoutReturns(c) \/ ClearAllWrite(c)
    <2>1. Cleared(c) /\ UNCHANGED clearing /\ call'[c].op = "none"
      BY <1>0, <1>5, CallAfter DEF LogoutReturns, ClearAllWrite
    <2>2. DataReachable'
      <3>1. CASE LogoutReturns(c)
        BY <1>0, <3>1 DEF LogoutReturns, DataReachable
      <3>2. CASE ClearAllWrite(c)
        BY <1>0, <3>2 DEF ClearAllWrite, Cleared, ClearAllCovers, DataReachable, TypeOK
      <3> QED
        BY <1>5, <3>1, <3>2
    <2> QED
      BY <2>1, <2>2
      DEF Cleared, CallInv, LoginRegisters, ClearsOfCall, LogoutRemoves, ClearAllCovers
  <1> QED
    BY <1>1, <1>2, <1>3, <1>4, <1>5 DEF ClearAllRead

\* The clears, of a logout or of a clearAll.
LEMMA ClearingSteps ==
  ASSUME OneCaller, IInv, NEW c \in Callers, NEW s \in Sessions,
         ClearRead(c, s) \/ ClearWrite(c, s) \/ ClearDelete(c, s)
  PROVE  DataReachable' /\ CallInv(c)'
  <1> USE DEF At
  <1>0. /\ TypeOK /\ DataReachable
        /\ ClearsOfCall(c) /\ LogoutRemoves(c) /\ ClearAllCovers(c)
        /\ clearing \in [Callers -> [Sessions -> ClearSteps]]
        /\ copy \in [Callers -> [Sessions -> SUBSET Sessions]]
        /\ registered \in {Undefined} \cup SUBSET Sessions
    BY DEF IInv, CallInv, TypeOK
  <1>1. /\ clearing[c][s] # "none"
        /\ UNCHANGED <<call, list>>
    BY <1>0 DEF ClearRead, ClearWrite, ClearDelete
  \* A caller that runs clears is in no login.
  <1>2. LoginRegisters(c)'
    BY <1>0, <1>1 DEF ClearsOfCall, LoginRegisters
  <1>3. CASE ClearRead(c, s)
    <2>1. PICK step \in {"delete", "write"} :
             \A d \in Callers, t \in Sessions :
               clearing'[d][t] = IF d = c /\ t = s THEN step ELSE clearing[d][t]
      BY <1>0, <1>3, TableUpdate DEF ClearRead, ClearSteps
    <2>2. \A t \in Sessions : clearing'[c][t] = "write" =>
             IF t = s THEN copy'[c][t] = WithoutSession(Ids(registered), s)
                      ELSE clearing[c][t] = "write" /\ copy'[c][t] = copy[c][t]
      <3>1. CASE registered = Undefined
        BY <1>0, <1>3, <3>1 DEF ClearRead, ClearSteps
      <3>2. CASE registered # Undefined
        <4> DEFINE rest == WithoutSession(registered, s)
        <4>1. /\ copy' = [copy EXCEPT ![c][s] = rest]
              /\ rest = WithoutSession(Ids(registered), s)
          BY <1>3, <3>2 DEF ClearRead, Ids
        <4> HIDE DEF rest
        <4>2. \A t \in Sessions : copy'[c][t] = IF t = s THEN rest ELSE copy[c][t]
          BY <1>0, <4>1
        <4> QED
          BY <2>1, <4>1, <4>2
      <3> QED
        BY <3>1, <3>2
    <2>3. UNCHANGED <<registered, stored, interrupted>>
      BY <1>3 DEF ClearRead
    <2>4. DataReachable'
      BY <1>0, <1>1, <2>1, <2>3 DEF DataReachable, TypeOK
    <2>5. ClearsOfCall(c)'
      BY <1>0, <1>1, <2>1 DEF ClearsOfCall
    <2>6. LogoutRemoves(c)'
      BY <1>0, <1>1, <2>2, <2>3 DEF LogoutRemoves
    <2>7. ClearAllCovers(c)'
      BY <1>0, <1>1, <2>1, <2>2, <2>3 DEF ClearAllCovers, WithoutSession, TypeOK
    <2> QED
      BY <1>2, <2>4, <2>5, <2>6, <2>7 DEF CallInv
  <1>4. CASE ClearWrite(c, s)
    <2>1. \A d \in Callers, t \in Sessions :
            clearing'[d][t] = IF d = c /\ t = s THEN "delete" ELSE clearing[d][t]
      BY <1>0, <1>4, TableUpdate DEF ClearWrite, ClearSteps
    <2>2. Ids(registered)' = copy[c][s] /\ UNCHANGED <<stored, copy, interrupted>>
      BY <1>0, <1>4, RegistryAssumption DEF ClearWrite, Ids
    <2>3. DataReachable'
      <3>1. CASE At(c, "logout", "clear")
        <4>1. Ids(registered)' = WithoutSession(Ids(registered), s)
          BY <1>0, <1>4, <2>2, <3>1 DEF LogoutRemoves, ClearWrite
        <4> QED
          BY <1>0, <2>1, <2>2, <4>1 DEF DataReachable, WithoutSession, TypeOK
      <3>2. CASE At(c, "clearAll", "clear")
        BY <1>0, <2>1, <2>2, <3>2 DEF ClearAllCovers, DataReachable, TypeOK
      <3> QED
        BY <1>0, <1>1, <3>1, <3>2 DEF ClearsOfCall
    <2>4. ClearsOfCall(c)'
      BY <1>0, <1>1, <2>1 DEF ClearsOfCall
    \* A logout clears one session, so no other clear is to be written.
    <2>5. LogoutRemoves(c)'
      BY <1>0, <1>1, <2>1 DEF ClearsOfCall, LogoutRemoves
    <2>6. ClearAllCovers(c)'
      BY <1>0, <1>1, <1>4, <2>1, <2>2 DEF ClearAllCovers, ClearWrite, TypeOK
    <2> QED
      BY <1>2, <2>3, <2>4, <2>5, <2>6 DEF CallInv
  <1>5. CASE ClearDelete(c, s)
    <2>1. \A d \in Callers, t \in Sessions :
            clearing'[d][t] = IF d = c /\ t = s THEN "none" ELSE clearing[d][t]
      BY <1>0, <1>5, TableUpdate DEF ClearDelete, ClearSteps
    <2>2. /\ UNCHANGED <<registered, copy>>
          /\ stored' = stored \ {s} /\ interrupted' = interrupted \ {s}
      BY <1>5 DEF ClearDelete
    <2>3. DataReachable'
      BY <1>0, <2>1, <2>2 DEF DataReachable, TypeOK
    <2>4. ClearsOfCall(c)'
      BY <1>0, <1>1, <2>1 DEF ClearsOfCall
    <2>5. LogoutRemoves(c)'
      BY <1>0, <1>1, <2>1, <2>2 DEF LogoutRemoves
    <2>6. ClearAllCovers(c)'
      BY <1>0, <1>1, <2>1, <2>2 DEF ClearAllCovers, TypeOK
    <2> QED
      BY <1>2, <2>3, <2>4, <2>5, <2>6 DEF CallInv
  <1> QED
    BY <1>3, <1>4, <1>5

LEMMA NextIInv == ASSUME OneCaller PROVE IInv /\ [Next]_vars => IInv'
  <1> SUFFICES ASSUME IInv, [Next]_vars
               PROVE  DataReachable' /\ \A c \in Callers : CallInv(c)'
    BY NextTypeOK DEF IInv
  <1>1. ASSUME NEW c \in Callers, Begin(c) \/ Continue(c)
        PROVE  DataReachable' /\ \A d \in Callers : CallInv(d)'
    <2>1. DataReachable' /\ CallInv(c)'
      BY <1>1, LoginSteps, EndSteps, ClearingSteps DEF Begin, Continue
    <2>2. ASSUME NEW d \in Callers PROVE CallInv(d)'
      <3>1. c = d
        BY DEF OneCaller
      <3> QED
        BY <2>1, <3>1
    <2> QED
      BY <2>1, <2>2
  <1>2. CASE Crash
    <2>1. DataReachable'
      BY <1>2 DEF Crash, IInv, TypeOK, DataReachable
    <2>2. ASSUME NEW c \in Callers PROVE CallInv(c)'
      BY <1>2 DEF Crash, NoCall, At, CallInv, LoginRegisters, ClearsOfCall,
                  LogoutRemoves, ClearAllCovers
    <2> QED
      BY <2>1, <2>2
  <1>3. CASE UNCHANGED vars
    BY <1>3 DEF vars, IInv, DataReachable, At, CallInv, LoginRegisters, ClearsOfCall,
                LogoutRemoves, ClearAllCovers
  <1> QED
    BY <1>1, <1>2, <1>3 DEF Next

LEMMA OneCallerIInv == ASSUME OneCaller PROVE Spec => []IInv
  BY InitIInv, NextIInv, PTL DEF Spec

\* Session data in storage, refresh tokens among them, stay within reach of
\* clearAll through the stored list, or are being cleared, or were left over
\* when the process stopped in the middle of a clear.
THEOREM DataStayReachable == ASSUME OneCaller PROVE Spec => []DataReachable
  BY OneCallerIInv, PTL DEF IInv

\* Whatever its parallel clears write over each other's lists: when a
\* clearAll writes the empty list, it has cleared all session data but those
\* an earlier stop of the process had put out of its reach.
THEOREM ClearAllDoesClear == ASSUME OneCaller PROVE Spec => ClearAllClears
  <1>1. IInv /\ [Next]_vars =>
          [\A c \in Callers : ClearAllWrite(c) => stored \subseteq interrupted]_vars
    BY DEF IInv, CallInv, ClearAllCovers, ClearAllWrite, Cleared, TypeOK
  <1> QED
    BY <1>1, OneCallerIInv, PTL DEF Spec, ClearAllClears

-----------------------------------------------------------------------------
(* With one caller the registry implements the atomic set of SessionSet.   *)

\* The abstract set: the list that a clearAll read, until it writes.
LEMMA KnownOf ==
  ASSUME OneCaller, NEW c \in Callers
  PROVE  /\ Emptying <=> At(c, "clearAll", "clear")
         /\ Known = IF Emptying THEN list[c] ELSE Ids(registered)
  BY DEF Known, Emptying, OneCaller

LEMMA KnownOfNext ==
  ASSUME OneCaller, NEW c \in Callers
  PROVE  /\ Emptying' <=> At(c, "clearAll", "clear")'
         /\ Known' = IF Emptying' THEN list'[c] ELSE Ids(registered)'
  BY DEF Known, Emptying, OneCaller, At

\* A step that changes neither the set nor whether it is being emptied.
LEMMA Stutters ==
  /\ (Emptying' <=> Emptying) => Emptying' = Emptying
  /\ (Emptying' <=> Emptying) /\ Known' = Known => [Atomic!Next]_(Atomic!vars)
  <1>1. ASSUME Emptying' <=> Emptying PROVE Emptying' = Emptying
    BY <1>1 DEF Emptying
  <1>2. ASSUME Emptying' = Emptying, Known' = Known PROVE UNCHANGED Atomic!vars
    BY <1>2, Zenon DEF Atomic!vars
  <1> QED
    BY <1>1, <1>2

LEMMA StepRefines ==
  ASSUME OneCaller, IInv, NEW c \in Callers, Begin(c) \/ Continue(c)
  PROVE  [Atomic!Next]_(Atomic!vars)
  <1> USE DEF At
  <1>k. /\ Emptying <=> At(c, "clearAll", "clear")
        /\ Emptying' <=> At(c, "clearAll", "clear")'
        /\ Known = IF Emptying THEN list[c] ELSE Ids(registered)
        /\ Known' = IF Emptying' THEN list'[c] ELSE Ids(registered)'
    BY KnownOf, KnownOfNext
  <1>0. TypeOK /\ ClearsOfCall(c) /\ LoginRegisters(c) /\ LogoutRemoves(c)
    BY DEF IInv, CallInv
  <1>1. ASSUME NEW s \in Sessions, Login(c, s) \/ Logout(c, s)
        PROVE  [Atomic!Next]_(Atomic!vars)
    BY <1>k, <1>0, <1>1, Stutters DEF Login, Logout, TypeOK, NoCall, LoginCall, Ids
  <1>2. CASE ClearAll(c)
    BY <1>k, <1>0, <1>2, Stutters DEF ClearAll, TypeOK, NoCall, Ids
  <1>3. CASE RegisterRead(c) \/ SaveSession(c) \/ LoginFails(c) \/ LogoutReturns(c)
    <2>1. UNCHANGED registered /\ ~ Emptying /\ ~ Emptying'
      BY <1>k, <1>0, <1>3, CallAfter DEF RegisterRead, SaveSession, LoginFails, LogoutReturns
    <2> QED
      BY <1>k, <2>1, Stutters DEF Ids
  <1>4. CASE RegisterWrite(c)
    <2>1. Ids(registered)' = WithSession(Ids(registered), call[c].session)
      BY <1>k, <1>0, <1>4, RegistryAssumption
      DEF RegisterWrite, LoginRegisters, TypeOK, Ids
    <2>2. call[c].session \in Sessions /\ ~ Emptying /\ ~ Emptying'
      BY <1>k, <1>0, <1>4, CallAfter DEF RegisterWrite, TypeOK
    <2>3. Atomic!Register(call[c].session)
      BY <1>k, <2>1, <2>2, Stutters DEF Atomic!Register, WithSession
    <2> QED
      BY <2>2, <2>3 DEF Atomic!Next
  \* clearAll starts to empty the set with all of it, or finds no list.
  <1>5. CASE ClearAllRead(c)
    <2>1. ~ Emptying /\ Ids(registered)' = Ids(registered) /\ list'[c] = Ids(registered)
      BY <1>k, <1>0, <1>5 DEF ClearAllRead, TypeOK, Ids
    <2>2. Emptying' <=> registered # Undefined
      BY <1>k, <1>0, <1>5, CallAfter DEF ClearAllRead
    <2>3. CASE registered = Undefined
      BY <1>k, <2>1, <2>2, <2>3, Stutters
    <2>4. CASE registered # Undefined
      <3>1. Atomic!StartEmptying
        BY <1>k, <2>1, <2>2, <2>4 DEF Atomic!StartEmptying, Emptying
      <3> QED
        BY <3>1 DEF Atomic!Next
    <2> QED
      BY <2>3, <2>4
  <1>6. CASE ClearAllWrite(c)
    <2>1. Ids(registered)' = {}
      BY <1>6, RegistryAssumption DEF ClearAllWrite, Ids
    <2>2. Emptying /\ ~ Emptying'
      BY <1>k, <1>0, <1>6, CallAfter DEF ClearAllWrite
    <2>3. Atomic!Empty
      BY <1>k, <2>1, <2>2 DEF Atomic!Empty, Emptying
    <2> QED
      BY <2>3 DEF Atomic!Next
  <1>7. ASSUME NEW s \in Sessions, ClearRead(c, s) \/ ClearDelete(c, s)
        PROVE  [Atomic!Next]_(Atomic!vars)
    BY <1>k, <1>7, Stutters DEF ClearRead, ClearDelete, Ids
  <1>8. ASSUME NEW s \in Sessions, ClearWrite(c, s)
        PROVE  [Atomic!Next]_(Atomic!vars)
    <2>0. (Emptying' <=> Emptying) /\ UNCHANGED list
      BY <1>k, <1>8 DEF ClearWrite
    <2>1. CASE At(c, "clearAll", "clear")
      BY <1>k, <2>0, <2>1, Stutters
    <2>2. CASE At(c, "logout", "clear")
      <3>1. Ids(registered)' = WithoutSession(Ids(registered), s)
        BY <1>0, <1>8, <2>2, RegistryAssumption
        DEF ClearWrite, LogoutRemoves, TypeOK, Ids
      <3>2. Atomic!Remove(s)
        BY <1>k, <2>0, <2>2, <3>1, Stutters DEF Atomic!Remove, WithoutSession
      <3> QED
        BY <3>2 DEF Atomic!Next
    <2> QED
      BY <1>0, <1>8, <2>1, <2>2 DEF ClearsOfCall, ClearWrite
  <1> QED
    BY <1>1, <1>2, <1>3, <1>4, <1>5, <1>6, <1>7, <1>8 DEF Begin, Continue

\* A stop in the middle of a clearAll leaves part of the set; at any other
\* moment a stop leaves the set as it was.
LEMMA CrashRefines ==
  ASSUME OneCaller, IInv, Crash
  PROVE  [Atomic!Next]_(Atomic!vars)
  <1>1. ~ Emptying'
    BY DEF Emptying, Crash, At, NoCall
  <1>2. Known' = Ids(registered)
    BY <1>1 DEF Known, Crash, Ids
  <1>3. CASE Emptying
    <2>1. PICK c \in Callers : At(c, "clearAll", "clear")
      BY <1>3 DEF Emptying
    <2>2. Ids(registered) \subseteq Known
      BY <1>3, <2>1, KnownOf DEF IInv, CallInv, ClearAllCovers
    <2>3. Atomic!Crash
      BY <1>1, <1>2, <1>3, <2>2 DEF Crash, Atomic!Crash
    <2> QED
      BY <2>3 DEF Atomic!Next
  <1>4. CASE ~ Emptying
    BY <1>1, <1>2, <1>4, Stutters DEF Known
  <1> QED
    BY <1>3, <1>4

\* As long as calls do not overlap, the list of sessions is a set with
\* atomic operations: a login adds, a logout removes its own session, a
\* clearAll empties the set at its end although its clears write partial
\* lists, and a stop of the process takes sessions away only during one.
THEOREM RegistryIsAtomic == ASSUME OneCaller PROVE Spec => IsAtomic
  <1>1. Init => Atomic!Init
    BY DEF Init, Atomic!Init, Known, Emptying, At, NoCall, Ids
  <1>2. IInv /\ [Next]_vars => [Atomic!Next]_(Atomic!vars)
    <2> SUFFICES ASSUME IInv, [Next]_vars PROVE [Atomic!Next]_(Atomic!vars)
      OBVIOUS
    <2>1. CASE Next
      BY <2>1, StepRefines, CrashRefines DEF Next
    <2>2. CASE UNCHANGED vars
      BY <2>2 DEF vars, Known, Emptying, At, Ids, Atomic!vars
    <2> QED
      BY <2>1, <2>2
  <1> QED
    BY <1>1, <1>2, OneCallerIInv, PTL DEF Spec, IsAtomic, Atomic!Spec

=============================================================================
