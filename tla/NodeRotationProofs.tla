------------------------- MODULE NodeRotationProofs -------------------------
(***************************************************************************)
(* Theorems about NodeSession when the only calls that overlap are fetches *)
(* with fetches and redirects with redirects, of however many calls and    *)
(* objects: rotation strands neither the stored session nor the fetch of   *)
(* the object that got tokens last, and a logout removes the record for    *)
(* good.  The run node_logout shows that the last one fails when a logout  *)
(* overlaps with a fetch.                                                  *)
(***************************************************************************)
EXTENDS NodeSessionProofs

\* Requests of users come at the same time; logins, logouts and restores of
\* the session each have it to themselves.
Apart == Concurrent \subseteq {{"fetch"}, {"redirect"}}

-----------------------------------------------------------------------------
(* Who is alone.                                                           *)

Alone ==
  \A c, d \in Calls :
    \/ c = d \/ calls[c].kind = "none" \/ calls[d].kind = "none"
    \/ calls[c].kind = calls[d].kind /\ calls[c].kind \in {"fetch", "redirect"}

\* A call that begins finds calls of its own kind only, or none.
LEMMA BeginsAlone ==
  ASSUME Apart, Shapes, NEW c \in Calls, NEW kind, NEW o, NEW step,
         Begins(c, kind, o, step), NEW d \in Calls, calls[d].kind # "none"
  PROVE  calls[d].kind = kind /\ kind \in {"fetch", "redirect"} /\ d # c
  <1>1. calls[d].kind \in Kinds /\ calls[c].kind = "none"
    BY NewCall DEF Shapes, CallShapes, Call, Begins
  <1>2. {calls[d].kind, kind} \in {{"fetch"}, {"redirect"}}
    BY <1>1 DEF Begins, Running, Apart
  <1> QED
    BY <1>1, <1>2

LEMMA SameKinds ==
  ASSUME Alone, NEW c \in Calls, Others(c),
         calls'[c].kind = "none" \/ calls'[c].kind = calls[c].kind
  PROVE  Alone'
  BY DEF Alone, Others

LEMMA BeginsStillAlone ==
  ASSUME Apart, Shapes, Alone, NEW c \in Calls, NEW kind, NEW o, NEW step,
         Begins(c, kind, o, step)
  PROVE  Alone'
  <1>1. \A d \in Calls : d # c => calls'[d] = calls[d]
    BY DEF Begins, Others
  <1>2. \A d \in Calls : d # c /\ calls[d].kind # "none" =>
          calls[d].kind = kind /\ kind \in {"fetch", "redirect"}
    BY BeginsAlone
  <1>3. calls'[c].kind = kind
    BY DEF Begins
  <1> QED
    BY <1>1, <1>2, <1>3 DEF Alone

\* Each step of a call in progress continues it or ends it.
LEMMA ContinueKinds ==
  ASSUME Shapes, NEW c \in Calls, Continue(c)
  PROVE  /\ Others(c) /\ calls[c].kind # "none"
         /\ calls'[c].kind = "none" \/ calls'[c].kind = calls[c].kind
  <1>0. Shape(calls[c])
    BY DEF Shapes, CallShapes
  <1>1. CASE ReadRecord(c) \/ WriteRecord(c) \/ GetClient(c) \/ Choose(c)
    <2>1. Keeps(c) /\ calls[c].step # "none"
      BY <1>1, ReadRecordEffect, WriteRecordEffect, GetClientEffect, ChooseEffect
      DEF SetSteps
    <2> QED
      BY <1>0, <2>1 DEF Keeps, Shape, KindSteps
  <1>2. CASE SendUser(c) \/ LoadContext(c) \/ Fails(c)
    <2>1. (Keeps(c) \/ Ends(c)) /\ calls[c].step # "none"
      BY <1>2, SendUserEffect, LoadContextEffect, FailsEffect
    <2> QED
      BY <1>0, <2>1, NewCall DEF Keeps, Ends, Shape, KindSteps
  <1>3. ASSUME NEW token \in Grants \cup {None},
               CodeRedeemed(c, token) \/ Refreshed(c, token) \/ AnswerLost(c, token)
        PROVE  /\ Others(c) /\ calls[c].kind # "none"
               /\ calls'[c].kind = "none" \/ calls'[c].kind = calls[c].kind
    <2>1. (Keeps(c) \/ Ends(c)) /\ Grant(c, token)
      BY <1>3, CodeRedeemedEffect, RefreshedEffect, AnswerLostEffect
    <2> QED
      BY <2>1, GrantEffect, NewCall DEF Keeps, Ends
  <1>4. CASE StoreRotated(c) \/ TellRotated(c) \/ FinishLogin(c) \/ FinishRedirect(c)
             \/ FetchReturns(c) \/ FetchRefused(c)
    <2>1. (Keeps(c) \/ Ends(c)) /\ calls[c].kind # "none"
      BY <1>4, StoreRotatedEffect, TellRotatedEffect, FinishEffect, FetchEffect DEF GetsFetch
    <2> QED
      BY <2>1, NewCall DEF Keeps, Ends
  <1>5. CASE DeleteRecord(c) \/ FinishLogout(c)
    BY <1>5, LogoutEffect, NewCall DEF Keeps, Ends
  <1> QED
    BY <1>1, <1>2, <1>3, <1>4, <1>5 DEF Continue

LEMMA NextAlone ==
  ASSUME Apart
  PROVE  Shapes /\ Alone /\ [Next]_vars => Alone'
  <1> SUFFICES ASSUME Shapes, Alone, [Next]_vars PROVE Alone'
    OBVIOUS
  <1>1. CASE UNCHANGED calls
    BY <1>1 DEF Alone
  <1>2. ASSUME NEW c \in Calls, NEW kind, NEW o, NEW step, Begins(c, kind, o, step)
        PROVE  Alone'
    BY <1>2, BeginsStillAlone
  <1>3. CASE Application
    <2>1. ASSUME NEW o \in Objects, HandleNoCode(o) PROVE Alone'
      BY <1>1, <2>1 DEF HandleNoCode
    <2>2. ASSUME NEW c \in Calls, NEW o \in Objects,
                 \/ Restore(c, o) \/ Fetch(c, o) \/ Logout(c, o)
                 \/ \E token \in Grants \cup {None} : Login(c, o, token)
                 \/ \E code \in 1..made : HandleCode(c, o, code)
          PROVE  Alone'
      BY <1>1, <1>2, <2>2, BeginEffects
    <2> QED
      BY <1>3, <2>1, <2>2 DEF Application
  <1>4. CASE Crash
    BY <1>4, NewCall DEF Crash, Alone
  <1>5. ASSUME NEW c \in Calls, Continue(c)
        PROVE  Alone'
    BY <1>5, ContinueKinds, SameKinds
  <1> QED
    BY <1>1, <1>3, <1>4, <1>5 DEF Next, vars

-----------------------------------------------------------------------------
(* The record while calls are at work on it.                               *)

ClientOf(record) == record # Absent /\ record.issuer => record.client # "none"

\* A fetch or a redirect that has loaded its context still finds it: what
\* the others write at the same time has it too.  So it registers no client
\* of its own, and what it writes back is no empty record.
SharesRecord(call) ==
  call.kind \in {"fetch", "redirect"} =>
    /\ call.step # "register"
    /\ call.step \notin {"send", "load", "get"} => HasContext(data)
    /\ call.copy # Absent => call.copy.issuer

\* A login or a restore has the record to itself.
OwnsRecord(call) ==
  call.kind \in {"login", "restore"} =>
    /\ call.copy # Absent => call.copy = IF data = Absent THEN EmptyRecord ELSE data
    /\ call.step \in {"stored", "request"} => data # Absent /\ data.client # "none"
    /\ \/ call.step \in {"client", "identify", "register"}
       \/ call.kind = "login" /\ call.step \in {"stored", "request"}
       \/ call.client # "none"

ClientOfCall(call) ==
  /\ ClientOf(call.copy) /\ SharesRecord(call) /\ OwnsRecord(call)
  /\ call.kind = "logout" /\ call.step = "reset" => data = Absent

Clients == ClientOf(data) /\ \A c \in Calls : ClientOfCall(calls[c])

\* What one call does, seen by the others.
LEMMA ClientsStep ==
  ASSUME Shapes, Alone, Clients, NEW c \in Calls, Others(c),
         ClientOf(data)', ClientOfCall(calls[c])',
         \/ UNCHANGED data
         \/ calls[c].kind \in {"login", "restore", "logout"}
         \/ calls[c].kind \in {"fetch", "redirect"} /\ HasContext(data)'
  PROVE  Clients'
  <1> SUFFICES ASSUME NEW d \in Calls, d # c PROVE ClientOfCall(calls[d])'
    BY DEF Clients
  <1>1. calls'[d] = calls[d] /\ ClientOfCall(calls[d]) /\ Shape(calls[d])
    BY DEF Others, Clients, Shapes, CallShapes
  <1>2. CASE calls[d].kind = "none"
    <2>1. calls[d].copy = Absent
      BY <1>1, <1>2 DEF Shape, KindSteps, SetSteps
    <2> QED
      BY <1>1, <1>2, <2>1 DEF ClientOfCall, ClientOf, SharesRecord, OwnsRecord
  <1>3. CASE UNCHANGED data
    BY <1>1, <1>3
    DEF ClientOfCall, ClientOf, SharesRecord, OwnsRecord, HasContext
  <1>4. CASE calls[d].kind # "none" /\ ~UNCHANGED data
    <2>1. /\ calls[d].kind = calls[c].kind /\ calls[d].kind \in {"fetch", "redirect"}
          /\ HasContext(data)'
      BY <1>4 DEF Alone
    <2> QED
      BY <1>1, <2>1 DEF ClientOfCall, ClientOf, SharesRecord, OwnsRecord, HasContext
  <1> QED
    BY <1>2, <1>3, <1>4

LEMMA NextClients ==
  ASSUME Apart
  PROVE  Shapes /\ Alone /\ Clients /\ [Next]_vars => Clients'
  <1> SUFFICES ASSUME Shapes, Alone, Clients, [Next]_vars PROVE Clients'
    OBVIOUS
  <1> USE NewCall
  <1>0. /\ \A c \in Calls : calls[c] \in Call /\ Shape(calls[c]) /\ ClientOfCall(calls[c])
        /\ data \in Record \cup {Absent} /\ ClientOf(data)
    BY DEF Shapes, CallShapes, TypeOK, Clients
  \* Calls that begin, or end without a write.
  <1>b. ASSUME NEW c \in Calls, UNCHANGED data, Others(c), calls'[c].copy = Absent,
               \/ calls'[c].kind \in {"none"}
               \/ calls'[c].kind \in {"login", "restore", "redirect", "fetch", "logout"}
                  /\ calls'[c].step \in {"client", "identify", "load", "send", "delete"}
                  /\ (calls'[c].step = "load" => calls'[c].kind \in {"fetch", "redirect"})
                  /\ (calls'[c].kind \in {"fetch", "redirect"} => calls'[c].step \in {"load", "send"})
                  /\ (calls'[c].kind \in {"login", "restore"} =>
                        calls'[c].step \in {"client", "identify"})
        PROVE  Clients'
    <2>1. ClientOf(data)' /\ ClientOfCall(calls[c])'
      BY <1>0, <1>b DEF ClientOfCall, ClientOf, SharesRecord, OwnsRecord
    <2> QED
      BY <1>b, <2>1, ClientsStep
  <1>1. CASE Application
    <2>1. ASSUME NEW o \in Objects, HandleNoCode(o) PROVE Clients'
      BY <2>1 DEF HandleNoCode, Clients, ClientOfCall, ClientOf, SharesRecord, OwnsRecord,
                  HasContext
    <2>2. ASSUME NEW c \in Calls, NEW o \in Objects, Restore(c, o) PROVE Clients'
      <3>1. CASE UNCHANGED calls
        BY <2>2, <3>1, BeginEffects DEF Clients, ClientOfCall, ClientOf, SharesRecord,
                                        OwnsRecord, HasContext
      <3>2. CASE Begins(c, "restore", o, "identify")
        BY <1>b, <2>2, <3>2, BeginEffects DEF Begins
      <3> QED
        BY <2>2, <3>1, <3>2, BeginEffects
    <2>3. ASSUME NEW c \in Calls, NEW o \in Objects,
                 \/ Fetch(c, o) \/ Logout(c, o)
                 \/ \E token \in Grants \cup {None} : Login(c, o, token)
                 \/ \E code \in 1..made : HandleCode(c, o, code)
          PROVE  Clients'
      BY <1>b, <2>3, BeginEffects DEF Begins
    <2> QED
      BY <1>1, <2>1, <2>2, <2>3 DEF Application
  <1>2. CASE Crash
    BY <1>0, <1>2 DEF Crash, Clients, ClientOfCall, ClientOf, SharesRecord, OwnsRecord
  <1>3. ASSUME NEW c \in Calls, Continue(c)
        PROVE  Clients'
    <2> DEFINE call == calls[c]
    <2>0. /\ calls[c] \in Call /\ Shape(calls[c]) /\ ClientOf(calls[c].copy)
          /\ SharesRecord(calls[c]) /\ OwnsRecord(calls[c])
          /\ ClientOfCall(calls[c])
      BY <1>0 DEF ClientOfCall
    <2>k. calls[c].kind \in Kinds
      BY <1>3, <2>0, ContinueKinds DEF Call
    <2>1. CASE ReadRecord(c)
      <3>1. /\ Keeps(c) /\ UNCHANGED data /\ calls[c].step \in SetSteps
            /\ calls'[c].step = calls[c].step /\ calls'[c].client = calls[c].client
            /\ calls'[c].copy = IF data = Absent THEN EmptyRecord ELSE data
        BY <2>1, ReadRecordEffect DEF OnlyCalls
      <3>2. ClientOf(calls'[c].copy)
        BY <1>0, <3>1 DEF ClientOf, EmptyRecord
      <3>3. SharesRecord(calls[c])'
        BY <2>0, <3>1 DEF Keeps, SharesRecord, HasContext, SetSteps
      <3>4. OwnsRecord(calls[c])'
        BY <2>0, <3>1 DEF Keeps, OwnsRecord
      <3>5. ClientOfCall(calls[c])'
        BY <2>0, <3>1, <3>2, <3>3, <3>4 DEF Keeps, ClientOfCall, ClientOf, SetSteps
      <3> QED
        BY <1>0, <3>1, <3>5, ClientsStep DEF Keeps, ClientOf
    <2>2. CASE WriteRecord(c)
      <3>1. /\ Keeps(c) /\ data' = Update(calls[c]) /\ calls[c].copy # Absent
            /\ calls[c].step \in {"client", "register", "context", "save", "touch"}
            /\ calls'[c].step = Following(calls[c]) /\ calls'[c].copy = Absent
            /\ calls'[c].client =
                 IF calls[c].step = "register" THEN "other" ELSE calls[c].client
        BY <2>2, WriteRecordEffect
      <3>2. /\ data' \in Record
            /\ data'.issuer = IF calls[c].step = "context" THEN TRUE ELSE calls[c].copy.issuer
            /\ data'.client = IF calls[c].step = "client" THEN "own"
                              ELSE IF calls[c].step = "register" THEN "other"
                              ELSE IF calls[c].step = "context" THEN calls[c].client
                              ELSE calls[c].copy.client
        BY <2>0, <3>1, UpdateType DEF SetSteps
      <3>3. data' # Absent
        BY <3>2, Constants
      <3>4. calls[c].kind \in {"login", "restore", "redirect", "fetch"}
        BY <2>0, <2>k, <3>1 DEF Kinds, Shape, KindSteps
      <3>5. calls[c].step = "context" => calls[c].client # "none"
        BY <2>0, <3>1, <3>4 DEF Shape, KindSteps, OwnsRecord
      <3>6. ClientOf(data)'
        BY <2>0, <3>1, <3>2, <3>5 DEF ClientOf
      <3>7. CASE calls[c].kind \in {"redirect", "fetch"}
        <4>1. /\ calls[c].step \in {"save", "touch"} /\ calls[c].kind = "redirect"
              /\ calls[c].copy.issuer
          <5>1. KindSteps(calls[c]) /\ calls[c].step # "register"
            BY <2>0, <3>7 DEF Shape, SharesRecord
          <5>2. calls[c].kind # "fetch"
            BY <3>1, <5>1 DEF KindSteps
          <5>3. calls[c].step \in {"save", "touch"}
            BY <3>1, <3>7, <5>1, <5>2 DEF KindSteps
          <5>4. calls[c].copy.issuer
            BY <2>0, <3>1, <3>7 DEF SharesRecord
          <5> QED
            BY <3>7, <5>2, <5>3, <5>4
        <4>2. HasContext(data)'
          BY <3>2, <3>3, <4>1 DEF HasContext
        <4>3. calls'[c].step \in {"touch", "get"}
          BY <3>1, <4>1 DEF Following
        <4>4. ClientOfCall(calls[c])'
          BY <3>1, <4>1, <4>2, <4>3 DEF Keeps, ClientOfCall, ClientOf, SharesRecord, OwnsRecord
        <4> QED
          BY <3>1, <3>6, <3>7, <4>2, <4>4, ClientsStep DEF Keeps
      <3>8. CASE calls[c].kind \in {"login", "restore"}
        <4>1. calls'[c].step \in {"stored", "request"} => data'.client # "none"
          BY <3>1, <3>2 DEF Following
        <4>2. \/ calls'[c].step \in {"client", "identify", "register"}
              \/ calls[c].kind = "login" /\ calls'[c].step \in {"stored", "request"}
              \/ calls'[c].client # "none"
          <5>1. CASE calls[c].step = "client"
            <6>1. calls[c].kind = "login"
              BY <2>0, <3>8, <5>1 DEF Shape, KindSteps, RefreshSteps
            <6> QED
              BY <3>1, <5>1, <6>1 DEF Following
          <5>2. CASE calls[c].step = "register"
            BY <3>1, <5>2
          <5>3. CASE calls[c].step \in {"context", "save", "touch"}
            BY <2>0, <3>1, <3>8, <5>3 DEF OwnsRecord
          <5> QED
            BY <3>1, <5>1, <5>2, <5>3
        <4>3. ClientOfCall(calls[c])'
          BY <3>1, <3>3, <3>8, <4>1, <4>2
          DEF Keeps, ClientOfCall, ClientOf, SharesRecord, OwnsRecord
        <4> QED
          BY <3>1, <3>6, <3>8, <4>3, ClientsStep DEF Keeps
      <3> QED
        BY <3>4, <3>7, <3>8
    <2>3. CASE GetClient(c)
      <3>1. /\ Keeps(c) /\ UNCHANGED data /\ calls'[c].copy = Absent
            /\ calls[c].step \in {"identify", "getClient"}
            /\ \/ /\ data # Absent /\ data.client # "none" /\ calls'[c].client = data.client
                  /\ calls'[c].step = IF calls[c].step = "identify" THEN "stored" ELSE "token"
               \/ /\ ~(data # Absent /\ data.client # "none")
                  /\ calls'[c].client = calls[c].client /\ calls'[c].step = "register"
        BY <2>3, GetClientEffect DEF OnlyCalls
      <3>2. SharesRecord(calls[c])'
        <4> SUFFICES ASSUME calls[c].kind \in {"fetch", "redirect"}
                     PROVE  calls'[c].step # "register" /\ HasContext(data)'
          BY <3>1 DEF Keeps, SharesRecord
        <4>1. HasContext(data) /\ data.client # "none"
          BY <1>0, <2>0, <3>1 DEF SharesRecord, ClientOf, HasContext
        <4> QED
          BY <3>1, <4>1 DEF HasContext
      <3>3. OwnsRecord(calls[c])'
        BY <2>0, <3>1 DEF Keeps, OwnsRecord
      <3>4. ClientOfCall(calls[c])'
        BY <3>1, <3>2, <3>3 DEF Keeps, ClientOfCall, ClientOf
      <3> QED
        BY <1>0, <3>1, <3>4, ClientsStep DEF Keeps, ClientOf
    <2>4. CASE Choose(c)
      <3>1. /\ Keeps(c) /\ UNCHANGED data /\ calls'[c].copy = Absent
            /\ calls[c].step = "stored" /\ calls[c].kind \in {"login", "restore"}
            /\ \/ /\ calls'[c].step = "context"
                  /\ calls'[c].client = IF calls[c].kind = "login" THEN "own" ELSE calls[c].client
               \/ calls'[c].step = "request" /\ calls'[c].client = calls[c].client
        BY <2>4, ChooseEffect
      <3>2. ClientOfCall(calls[c])'
        BY <2>0, <3>1 DEF Keeps, ClientOfCall, ClientOf, SharesRecord, OwnsRecord
      <3> QED
        BY <1>0, <3>1, <3>2, ClientsStep DEF Keeps, ClientOf
    <2>5. CASE SendUser(c)
      <3>1. /\ Ends(c) /\ data' = Update(calls[c]) /\ calls[c].copy # Absent
            /\ calls[c].step = "request" /\ calls[c].kind \in {"login", "restore"}
        BY <2>5, SendUserEffect
      <3>2. data'.client = calls[c].copy.client
        BY <2>0, <3>1, UpdateType DEF SetSteps
      <3>3. calls[c].copy.client # "none"
        BY <2>0, <3>1 DEF OwnsRecord
      <3>4. ClientOf(data)' /\ ClientOfCall(calls[c])'
        BY <3>1, <3>2, <3>3 DEF Ends, ClientOfCall, ClientOf, SharesRecord, OwnsRecord
      <3> QED
        BY <3>1, <3>4, ClientsStep DEF Ends
    <2>6. CASE LoadContext(c) \/ Fails(c)
      <3>1. CASE Ends(c)
        BY <1>b, <2>6, <3>1, LoadContextEffect, FailsEffect DEF Ends
      <3>2. CASE Keeps(c) /\ LoadContext(c)
        <4>1. /\ Keeps(c) /\ UNCHANGED data
              /\ Ends(c) \/ /\ HasContext(data) /\ calls'[c].step = "getClient"
                            /\ calls'[c].copy = Absent /\ calls'[c].client = calls[c].client
              /\ calls[c].step = "load"
          BY <3>2, LoadContextEffect
        <4>2. CASE Ends(c)
          BY <1>b, <4>1, <4>2 DEF Ends
        <4>3. CASE ~Ends(c)
          <5>1. ClientOfCall(calls[c])'
            BY <2>0, <4>1, <4>3
            DEF Keeps, ClientOfCall, ClientOf, SharesRecord, OwnsRecord, HasContext
          <5> QED
            BY <1>0, <4>1, <5>1, ClientsStep DEF Keeps, ClientOf
        <4> QED
          BY <4>2, <4>3
      <3> QED
        BY <2>6, <3>1, <3>2, LoadContextEffect, FailsEffect
    <2>7. ASSUME NEW token \in Grants \cup {None},
                 CodeRedeemed(c, token) \/ Refreshed(c, token) \/ AnswerLost(c, token)
          PROVE  Clients'
      <3>1. /\ UNCHANGED data /\ calls[c].step = "token" /\ calls[c].client = "own"
            /\ calls[c].kind \in {"login", "restore", "redirect", "fetch"}
            /\ \/ Ends(c)
               \/ /\ Keeps(c) /\ calls'[c].copy = Absent
                  /\ calls'[c].client = calls[c].client
                  /\ calls'[c].step \in {"touch", "save", "rotated"}
        BY <2>7, CodeRedeemedEffect, RefreshedEffect, AnswerLostEffect, GrantEffect
      <3>2. CASE Ends(c)
        BY <1>b, <3>1, <3>2 DEF Ends
      <3>3. CASE ~Ends(c)
        <4>1. ClientOfCall(calls[c])'
          BY <2>0, <3>1, <3>3
          DEF Keeps, ClientOfCall, ClientOf, SharesRecord, OwnsRecord, HasContext
        <4> QED
          BY <1>0, <3>1, <3>3, <4>1, ClientsStep DEF Keeps, ClientOf
      <3> QED
        BY <3>2, <3>3
    <2>8. CASE StoreRotated(c)
      <3>1. /\ calls[c].step = "rotated" /\ calls[c].copy # Absent
            /\ calls[c].kind \in {"login", "restore", "fetch"} /\ data' = Update(calls[c])
            /\ Keeps(c) /\ calls'[c].step = "tell" /\ calls'[c].copy = Absent
            /\ calls'[c].client = calls[c].client
        BY <2>8, StoreRotatedEffect
      <3>2. /\ data' \in Record /\ data'.issuer = calls[c].copy.issuer
            /\ data'.client = calls[c].copy.client
        BY <2>0, <3>1, UpdateType DEF SetSteps
      <3>3. ClientOf(data)' /\ data' # Absent
        BY <2>0, <3>1, <3>2, Constants DEF ClientOf
      <3>4. calls[c].kind = "fetch" => HasContext(data)'
        BY <2>0, <3>1, <3>2, <3>3 DEF SharesRecord, HasContext
      <3>5. ClientOfCall(calls[c])'
        BY <2>0, <3>1, <3>3, <3>4
        DEF Keeps, ClientOfCall, ClientOf, SharesRecord, OwnsRecord
      <3>6. Others(c)
        BY <3>1 DEF Keeps
      <3> QED
        BY <3>1, <3>3, <3>4, <3>5, <3>6, ClientsStep
    <2>12. CASE TellRotated(c)
      <3>1. /\ calls[c].step = "tell" /\ calls[c].kind \in {"login", "restore", "fetch"}
            /\ UNCHANGED data
            /\ \/ calls[c].kind = "fetch" /\ Ends(c)
               \/ /\ calls[c].kind # "fetch" /\ Keeps(c)
                  /\ calls'[c].step = "save" /\ calls'[c].copy = Absent
                  /\ calls'[c].client = calls[c].client
        BY <2>12, TellRotatedEffect
      <3>2. CASE Ends(c)
        BY <1>b, <3>1, <3>2 DEF Ends
      <3>3. CASE ~Ends(c)
        <4>1. ClientOfCall(calls[c])'
          BY <2>0, <3>1, <3>3
          DEF Keeps, ClientOfCall, ClientOf, SharesRecord, OwnsRecord
        <4> QED
          BY <1>0, <3>1, <3>3, <4>1, ClientsStep DEF Keeps, ClientOf
      <3> QED
        BY <3>2, <3>3
    <2>9. CASE FinishLogin(c) \/ FinishRedirect(c)
      <3>1. Ends(c)
        BY <2>9, FinishEffect DEF GetsFetch
      <3>2. CASE UNCHANGED data
        BY <1>b, <3>1, <3>2 DEF Ends
      <3>3. CASE calls[c].step = "finish" /\ calls[c].copy # Absent
                 /\ calls[c].kind \in {"login", "restore"} /\ data' = Update(calls[c])
        <4>1. data'.client = calls[c].client /\ calls[c].client # "none"
          BY <2>0, <3>3, UpdateType DEF SetSteps, OwnsRecord
        <4>2. ClientOf(data)' /\ ClientOfCall(calls[c])'
          BY <3>1, <4>1 DEF Ends, ClientOfCall, ClientOf, SharesRecord, OwnsRecord
        <4> QED
          BY <3>1, <3>3, <4>2, ClientsStep DEF Ends
      <3> QED
        BY <2>9, <3>2, <3>3, FinishEffect
    <2>10. CASE FetchReturns(c) \/ FetchRefused(c)
      BY <1>b, <2>10, FetchEffect DEF Keeps, Ends, OnlyCalls
    <2>11. CASE DeleteRecord(c) \/ FinishLogout(c)
      <3>1. CASE Ends(c)
        BY <1>b, <2>11, <3>1, LogoutEffect DEF Keeps, Ends
      <3>2. CASE Keeps(c) /\ data' = Absent /\ calls'[c].step = "reset" /\ calls'[c].copy = Absent
                 /\ calls[c].kind = "logout"
        <4>1. ClientOf(data)' /\ ClientOfCall(calls[c])'
          BY <3>2 DEF Keeps, ClientOfCall, ClientOf, SharesRecord, OwnsRecord
        <4> QED
          BY <3>2, <4>1, ClientsStep DEF Keeps
      <3> QED
        BY <2>11, <3>1, <3>2, LogoutEffect
    <2> QED
      BY <1>3, <2>1, <2>2, <2>3, <2>4, <2>5, <2>6, <2>7, <2>8, <2>9, <2>10, <2>11,
         <2>12 DEF Continue
  <1>4. CASE UNCHANGED vars
    BY <1>4 DEF vars, Clients, ClientOfCall, ClientOf, SharesRecord, OwnsRecord, HasContext
  <1> QED
    BY <1>1, <1>2, <1>3, <1>4 DEF Next

-----------------------------------------------------------------------------
(* The tokens that the provider accepts.                                   *)

Live(token) == token # None => token \in live

\* A call that is about to store a token, or to build a fetch with it, has
\* one that is live, and so is the one in the record it writes back.
LiveOfCall(call) ==
  /\ call.step \in RotatedSteps => call.token \in live
  /\ call.kind = "redirect" => Live(call.token)
  /\ call.step \in {"save", "touch", "finish", "get"} => Live(call.token)
  /\ call.step # "rotated" /\ call.copy # Absent /\ ~lost => Live(call.copy.token)

\* The token in storage is live unless a call is about to replace it.
LiveTokens ==
  /\ \A c \in Calls : LiveOfCall(calls[c])
  /\ data # Absent /\ ~lost => Live(data.token) \/ \E c \in Calls : calls[c].step = "rotated"

\* A step of a call after which all tokens are live that were so before.
LEMMA LiveStep ==
  ASSUME LiveTokens, NEW c \in Calls, Others(c), live \subseteq live', lost => lost',
         LiveOfCall(calls[c])',
         \/ UNCHANGED data /\ (calls[c].step # "rotated" \/ calls'[c].step = "rotated")
         \/ data' = Absent
         \/ lost' \/ Live(data.token)'
  PROVE  LiveTokens'
  <1>1. \A d \in Calls : d # c => calls'[d] = calls[d] /\ LiveOfCall(calls[d])
    BY DEF Others, LiveTokens
  <1>2. ASSUME NEW d \in Calls PROVE LiveOfCall(calls[d])'
    BY <1>1 DEF LiveOfCall, Live
  <1>3. data' # Absent /\ ~lost' =>
          Live(data.token)' \/ \E d \in Calls : calls'[d].step = "rotated"
    <2>1. CASE UNCHANGED data /\ (calls[c].step # "rotated" \/ calls'[c].step = "rotated")
      <3> SUFFICES ASSUME data # Absent, ~lost
                   PROVE  Live(data.token)' \/ \E d \in Calls : calls'[d].step = "rotated"
        BY <2>1
      <3>1. CASE Live(data.token)
        BY <2>1, <3>1 DEF Live
      <3>2. ASSUME NEW d \in Calls, calls[d].step = "rotated"
            PROVE  calls'[d].step = "rotated"
        BY <1>1, <2>1, <3>2
      <3> QED
        BY <3>1, <3>2 DEF LiveTokens
    <2> QED
      BY <2>1
  <1> QED
    BY <1>2, <1>3 DEF LiveTokens

\* While a refresh is under way nobody else holds on to the token it uses up.
LEMMA RefreshStep ==
  ASSUME Shapes, Telling, Alone, Clients, LiveTokens,
         NEW c \in Calls, Others(c), NEW token, Grant(c, token), calls[c].kind # "redirect",
         LiveOfCall(calls[c])', UNCHANGED data,
         lost => lost', lost' \/ token = None \/ calls'[c].step = "rotated"
  PROVE  LiveTokens'
  <1>1. /\ calls[c].kind \in {"login", "restore", "fetch"} /\ calls[c].step = "token"
        /\ calls[c].token \in live /\ granted' # None
        /\ \A t \in live : t \in live' \/ (token = granted' /\ t = calls[c].token)
    BY GrantEffect
  <1>2. CASE token = None
    <2>1. live \subseteq live' /\ calls[c].step # "rotated"
      BY <1>1, <1>2
    <2> QED
      BY <2>1, LiveStep
  <1>3. CASE token # None
    <2>1. calls[c].kind = "fetch" => told[calls[c].token] = 1
      <3>1. calls[c].token \in 1..granted /\ granted \in Nat
        BY <1>1, GrantEffect DEF Shapes, TypeOK
      <3> QED
        BY <1>1, <3>1 DEF Telling, TokensOfCall, Told, None, RotatedSteps
    <2>2. ASSUME NEW d \in Calls, d # c PROVE LiveOfCall(calls[d])'
      <3>1. /\ calls'[d] = calls[d] /\ LiveOfCall(calls[d]) /\ Shape(calls[d])
            /\ SharesRecord(calls[d]) /\ TokensOfCall(calls[d])
        BY <2>2 DEF Others, LiveTokens, Shapes, CallShapes, Clients, ClientOfCall, Telling
      <3>2. \/ calls[d].kind = "none"
            \/ calls[d].kind = "fetch" /\ calls[c].kind = "fetch"
        BY <1>1, <2>2 DEF Alone
      <3>3. calls[d].step \notin {"save", "touch", "finish", "get"}
        BY <3>1, <3>2 DEF Shape, KindSteps
      <3>4. calls[d].copy # Absent => calls[d].step = "rotated"
        BY <3>1, <3>2 DEF Shape, KindSteps, SetSteps, SharesRecord
      <3>5. calls[d].step \in RotatedSteps => calls[d].token \in live'
        BY <1>1, <2>1, <3>1, <3>2
        DEF LiveOfCall, TokensOfCall, RotatedSteps, Shape, KindSteps
      <3> QED
        BY <3>1, <3>2, <3>3, <3>4, <3>5 DEF LiveOfCall
    <2> QED
      BY <1>3, <2>2 DEF LiveTokens
  <1> QED
    BY <1>2, <1>3

LEMMA NextLiveTokens ==
  Shapes /\ Telling /\ Alone /\ Clients /\ LiveTokens /\ [Next]_vars => LiveTokens'
  <1> SUFFICES ASSUME Shapes, Telling, Alone, Clients, LiveTokens, [Next]_vars
               PROVE  LiveTokens'
    OBVIOUS
  <1> USE NewCall
  <1>0. \A c \in Calls : calls[c] \in Call /\ Shape(calls[c]) /\ LiveOfCall(calls[c])
    BY DEF Shapes, CallShapes, TypeOK, LiveTokens
  \* Calls that begin, or end without a write.
  <1>b. ASSUME NEW c \in Calls, UNCHANGED <<data, live, lost>>, Others(c),
               calls[c].step # "rotated", calls'[c].copy = Absent,
               calls'[c].step \notin {"rotated", "tell", "save", "touch", "finish", "get"},
               calls'[c].kind = "redirect" => calls'[c].token = None
        PROVE  LiveTokens'
    <2>1. LiveOfCall(calls[c])'
      BY <1>b DEF LiveOfCall, Live, RotatedSteps
    <2> QED
      BY <1>b, <2>1, LiveStep
  <1>1. CASE Application
    <2>1. ASSUME NEW o \in Objects, HandleNoCode(o) PROVE LiveTokens'
      BY <2>1 DEF HandleNoCode, provider, history, LiveTokens, LiveOfCall, Live
    <2>2. ASSUME NEW c \in Calls, NEW o \in Objects, Restore(c, o), UNCHANGED calls
          PROVE  LiveTokens'
      <3>1. UNCHANGED <<data, calls, live, lost>>
        BY <2>2, BeginEffects DEF provider
      <3> QED
        BY <3>1 DEF LiveTokens, LiveOfCall, Live
    <2>3. ASSUME NEW c \in Calls, NEW o \in Objects, Restore(c, o), ~UNCHANGED calls
          PROVE  LiveTokens'
      BY <1>b, <2>3, BeginEffects DEF Begins, provider
    <2>4. ASSUME NEW c \in Calls, NEW o \in Objects,
                 \/ Fetch(c, o) \/ Logout(c, o)
                 \/ \E token \in Grants \cup {None} : Login(c, o, token)
                 \/ \E code \in 1..made : HandleCode(c, o, code)
          PROVE  LiveTokens'
      BY <1>b, <2>4, BeginEffects DEF Begins, provider, history
    <2> QED
      BY <1>1, <2>1, <2>2, <2>3, <2>4 DEF Application
  <1>2. CASE Crash
    <2>1. /\ \A c \in Calls : calls'[c] = NoCall
          /\ UNCHANGED <<data, live>>
          /\ lost' = (lost \/ \E c \in Calls : calls[c].step = "rotated")
      BY <1>2 DEF Crash, provider
    <2>2. \A c \in Calls : LiveOfCall(calls[c])'
      BY <2>1 DEF LiveOfCall, Live, RotatedSteps
    <2>3. data' # Absent /\ ~lost' => Live(data.token)'
      BY <2>1 DEF LiveTokens, Live
    <2> QED
      BY <2>2, <2>3 DEF LiveTokens
  <1>3. ASSUME NEW c \in Calls, Continue(c)
        PROVE  LiveTokens'
    <2>0. /\ calls[c] \in Call /\ Shape(calls[c]) /\ LiveOfCall(calls[c])
          /\ SharesRecord(calls[c])
      BY <1>0 DEF Clients, ClientOfCall
    \* The token that a set writes.
    <2>u. ASSUME calls[c].copy # Absent, data' = Update(calls[c]), UNCHANGED <<live, lost>>
          PROVE  lost' \/ Live(data.token)'
      <3>1. calls[c].step \in SetSteps
        BY <2>0, <2>u DEF Shape
      <3>2. data'.token = IF calls[c].step \in {"rotated", "save"} THEN calls[c].token
                                                                   ELSE calls[c].copy.token
        BY <2>0, <2>u, <3>1, UpdateType
      <3> QED
        BY <2>0, <2>u, <3>2 DEF LiveOfCall, Live, RotatedSteps
    <2>1. CASE ReadRecord(c)
      <3>1. /\ Keeps(c) /\ UNCHANGED <<data, live, lost>>
            /\ calls[c].step \in SetSteps /\ calls'[c].step = calls[c].step
            /\ calls'[c].copy = IF data = Absent THEN EmptyRecord ELSE data
            /\ calls'[c].token = calls[c].token /\ calls'[c].kind = calls[c].kind
        BY <2>1, ReadRecordEffect DEF OnlyCalls, provider, history, Keeps
      <3>2. ASSUME calls[c].step # "rotated", data # Absent, ~lost
            PROVE  Live(data.token)
        <4>1. Live(data.token) \/ \E d \in Calls : calls[d].step = "rotated"
          BY <3>2 DEF LiveTokens
        <4>2. ASSUME NEW d \in Calls, calls[d].step = "rotated" PROVE FALSE
          <5>1. calls[d].kind \notin {"none", "redirect"} /\ calls[c].kind # "none"
            BY <1>0, <2>0, <3>1, <4>2 DEF Shape, KindSteps, SetSteps
          <5>2. calls[c].kind = "fetch"
            BY <3>2, <4>2, <5>1 DEF Alone
          <5>3. calls[c].step = "register"
            BY <2>0, <3>1, <3>2, <5>2 DEF Shape, KindSteps, SetSteps
          <5> QED
            BY <2>0, <5>2, <5>3 DEF SharesRecord
        <4> QED
          BY <4>1, <4>2
      <3>3. LiveOfCall(calls[c])'
        BY <2>0, <3>1, <3>2 DEF LiveOfCall, Live, EmptyRecord, RotatedSteps
      <3> QED
        BY <3>1, <3>3, LiveStep DEF Keeps
    <2>2. CASE WriteRecord(c)
      <3>1. /\ Keeps(c) /\ data' = Update(calls[c]) /\ calls[c].copy # Absent
            /\ calls[c].step \in {"client", "register", "context", "save", "touch"}
            /\ calls'[c].step = Following(calls[c]) /\ calls'[c].copy = Absent
            /\ calls'[c].token = calls[c].token /\ calls'[c].kind = calls[c].kind
            /\ UNCHANGED <<live, lost>>
        BY <2>2, WriteRecordEffect DEF provider, history, Keeps
      <3>2. /\ calls'[c].step \notin RotatedSteps
            /\ calls'[c].step \in {"save", "touch", "finish", "get"}
                 => calls[c].step \in {"save", "touch"}
        BY <3>1 DEF Following, RotatedSteps
      <3>3. LiveOfCall(calls[c])'
        BY <2>0, <3>1, <3>2 DEF LiveOfCall, Live
      <3> QED
        BY <2>u, <3>1, <3>3, LiveStep DEF Keeps
    <2>3. CASE GetClient(c) \/ Choose(c) \/ LoadContext(c) \/ Fails(c)
      <3>1. /\ Others(c) /\ UNCHANGED <<data, live, lost>> /\ calls'[c].copy = Absent
            /\ calls[c].step # "rotated"
        BY <2>3, GetClientEffect, ChooseEffect, LoadContextEffect, FailsEffect
        DEF Keeps, Ends, OnlyCalls, provider, history
      <3>2. /\ calls'[c].step \notin {"rotated", "tell", "save", "touch", "finish", "get"}
            /\ calls'[c].kind = "redirect" =>
                 calls[c].kind = "redirect" /\ calls'[c].token = calls[c].token
        BY <2>3, GetClientEffect, ChooseEffect, LoadContextEffect, FailsEffect
        DEF Keeps, Ends
      <3>3. LiveOfCall(calls[c])'
        BY <2>0, <3>1, <3>2 DEF LiveOfCall, Live, RotatedSteps
      <3> QED
        BY <3>1, <3>3, LiveStep
    <2>4. CASE SendUser(c)
      <3>1. /\ Ends(c) /\ data' = Update(calls[c]) /\ calls[c].copy # Absent
            /\ UNCHANGED <<live, lost>>
        BY <2>4, SendUserEffect DEF history
      <3>2. LiveOfCall(calls[c])'
        BY <3>1 DEF Ends, LiveOfCall, Live, RotatedSteps
      <3> QED
        BY <2>u, <3>1, <3>2, LiveStep DEF Ends
    <2>5. ASSUME NEW token \in Grants \cup {None}, CodeRedeemed(c, token) PROVE LiveTokens'
      <3>1. /\ Keeps(c) /\ calls[c].kind = "redirect" /\ calls[c].step = "token"
            /\ calls'[c].step \in {"touch", "save"} /\ calls'[c].copy = Absent
            /\ calls'[c].token = token /\ Live(token)' /\ live \subseteq live'
            /\ UNCHANGED <<data, lost>>
        BY <2>5, CodeRedeemedEffect, GrantEffect DEF Live
      <3>2. LiveOfCall(calls[c])'
        BY <3>1 DEF LiveOfCall, Live, RotatedSteps
      <3> QED
        BY <3>1, <3>2, LiveStep DEF Keeps
    <2>6. ASSUME NEW token \in Grants \cup {None}, Refreshed(c, token) PROVE LiveTokens'
      <3>1. /\ Grant(c, token) /\ calls[c].kind # "redirect" /\ UNCHANGED <<data, lost>>
            /\ \/ /\ Keeps(c) /\ calls'[c].copy = Absent
                  /\ IF token # None
                       THEN calls'[c].step = "rotated" /\ calls'[c].token = token
                       ELSE calls'[c].step = "save" /\ calls'[c].token = calls[c].token
               \/ Ends(c) /\ token = None
        BY <2>6, RefreshedEffect
      <3>2. /\ token # None => token \in live'
            /\ token = None => calls[c].token \in live'
        BY <3>1, GrantEffect
      <3>3. LiveOfCall(calls[c])'
        BY <3>1, <3>2 DEF Keeps, Ends, LiveOfCall, Live, RotatedSteps
      <3> QED
        BY <3>1, <3>3, RefreshStep DEF Keeps, Ends
    <2>7. ASSUME NEW token \in Grants \cup {None}, AnswerLost(c, token) PROVE LiveTokens'
      <3>1. /\ Grant(c, token) /\ Ends(c) /\ UNCHANGED data
            /\ lost' = (lost \/ (Rotates /\ calls[c].kind # "redirect"))
            /\ calls[c].step = "token"
        BY <2>7, AnswerLostEffect, GrantEffect
      <3>2. LiveOfCall(calls[c])'
        BY <3>1 DEF Ends, LiveOfCall, Live, RotatedSteps
      <3>3. CASE calls[c].kind = "redirect"
        <4>1. live \subseteq live'
          BY <3>1, <3>3, GrantEffect
        <4> QED
          BY <3>1, <3>2, <4>1, LiveStep DEF Ends
      <3>4. CASE calls[c].kind # "redirect"
        <4>1. lost' \/ token = None
          BY <3>1, <3>4, GrantEffect
        <4> QED
          BY <3>1, <3>2, <3>4, <4>1, RefreshStep DEF Ends
      <3> QED
        BY <3>3, <3>4
    <2>8. CASE StoreRotated(c)
      <3>1. /\ calls[c].step = "rotated" /\ calls[c].copy # Absent
            /\ data' = Update(calls[c]) /\ UNCHANGED <<live, lost>>
            /\ Keeps(c) /\ calls'[c].step = "tell" /\ calls'[c].copy = Absent
            /\ calls'[c].token = calls[c].token
            /\ calls[c].kind \in {"login", "restore", "fetch"}
        BY <2>8, StoreRotatedEffect DEF provider, history
      <3>2. LiveOfCall(calls[c])'
        BY <2>0, <3>1 DEF Keeps, LiveOfCall, Live, RotatedSteps
      <3> QED
        BY <2>u, <3>1, <3>2, LiveStep DEF Keeps
    <2>12. CASE TellRotated(c)
      <3>1. /\ calls[c].step = "tell" /\ calls[c].kind \in {"login", "restore", "fetch"}
            /\ UNCHANGED <<data, live, lost>>
            /\ \/ Ends(c)
               \/ /\ Keeps(c) /\ calls'[c].step = "save" /\ calls'[c].copy = Absent
                  /\ calls'[c].token = calls[c].token
        BY <2>12, TellRotatedEffect DEF provider
      <3>2. LiveOfCall(calls[c])'
        BY <2>0, <3>1 DEF Keeps, Ends, LiveOfCall, Live, RotatedSteps
      <3> QED
        BY <3>1, <3>2, LiveStep DEF Keeps, Ends
    <2>9. CASE FinishLogin(c) \/ FinishRedirect(c)
      <3>1. /\ Ends(c) /\ UNCHANGED <<live, lost>>
            /\ \/ calls[c].copy # Absent /\ data' = Update(calls[c])
               \/ UNCHANGED data /\ calls[c].step = "get"
        BY <2>9, FinishEffect DEF GetsFetch, provider
      <3>2. LiveOfCall(calls[c])'
        BY <3>1 DEF Ends, LiveOfCall, Live, RotatedSteps
      <3> QED
        BY <2>u, <3>1, <3>2, LiveStep DEF Ends
    <2>10. CASE FetchReturns(c) \/ FetchRefused(c)
      BY <1>b, <2>10, FetchEffect DEF Keeps, Ends, OnlyCalls, provider, history
    <2>11. CASE DeleteRecord(c) \/ FinishLogout(c)
      <3>1. /\ Others(c) /\ UNCHANGED <<live, lost>> /\ calls'[c].copy = Absent
            /\ calls'[c].step \in {"none", "reset"} /\ calls'[c].kind # "redirect"
            /\ \/ data' = Absent
               \/ UNCHANGED data /\ calls[c].step = "reset"
        BY <2>11, LogoutEffect DEF Keeps, Ends, provider
      <3>2. LiveOfCall(calls[c])'
        BY <3>1 DEF LiveOfCall, RotatedSteps
      <3> QED
        BY <3>1, <3>2, LiveStep
    <2> QED
      BY <1>3, <2>1, <2>2, <2>3, <2>4, <2>5, <2>6, <2>7, <2>8, <2>9, <2>10, <2>11,
         <2>12 DEF Continue
  <1>4. CASE UNCHANGED vars
    BY <1>4 DEF vars, provider, history, LiveTokens, LiveOfCall, Live
  <1> QED
    BY <1>1, <1>2, <1>3, <1>4 DEF Next

LEMMA InitRotation == Init => Telling /\ Alone /\ Clients /\ LiveTokens
  <1> SUFFICES ASSUME Init PROVE Telling /\ Alone /\ Clients /\ LiveTokens
    OBVIOUS
  <1>1. Telling
    BY DEF Init, Telling, TokensOfCall, Told, Accounted, OwnTokens, TellsAtOnce, RotatedSteps,
           NoCall, None
  <1>2. Alone
    BY NewCall DEF Init, Alone
  <1>3. Clients
    BY NewCall DEF Init, Clients, ClientOfCall, ClientOf, SharesRecord, OwnsRecord
  <1>4. LiveTokens
    BY NewCall DEF Init, LiveTokens, LiveOfCall, Live, RotatedSteps
  <1> QED
    BY <1>1, <1>2, <1>3, <1>4

\* However many fetches refresh their tokens at the same time, and whenever
\* the process stops: once no call is under way, the refresh token in storage
\* is one the provider accepts, unless an answer of the provider, or the
\* process, was lost between its rotation and the write that records it.
THEOREM RotationKeepsSession ==
  ASSUME Apart
  PROVE  Spec => []StoredTokenLive
  <1>1. Shapes /\ LiveTokens => StoredTokenLive
    <2> SUFFICES ASSUME Shapes, LiveTokens, Quiet PROVE StoredTokenLive
      BY DEF StoredTokenLive
    <2>1. \A c \in Calls : calls[c].step # "rotated"
      BY DEF Shapes, CallShapes, Shape, KindSteps, TypeOK, Call, Quiet, Running
    <2> QED
      BY <2>1 DEF LiveTokens, Live, StoredTokenLive
  <1>2. Shapes /\ Telling /\ Alone /\ Clients /\ LiveTokens /\ [Next]_vars =>
          (Shapes /\ Telling /\ Alone /\ Clients /\ LiveTokens)'
    BY NextShapes, NextTelling, NextAlone, NextClients, NextLiveTokens
  <1> QED
    BY <1>1, <1>2, InitShapes, InitRotation, PTL DEF Spec

-----------------------------------------------------------------------------
(* The fetches that the objects hold.                                      *)

\* A fetch that is under way is the one its object still has.
FetchOfObject(call) ==
  call.kind = "fetch" =>
    sessions[call.object].isLoggedIn /\ sessions[call.object].fetch = call.grant

HolderLive ==
  holder # None /\ sessions[holder].isLoggedIn => Live(closures[sessions[holder].fetch])

Holding == HolderLive /\ \A c \in Calls : FetchOfObject(calls[c])

\* A step that gives nobody a fetch and takes it from nobody.
LEMMA HoldingStep ==
  ASSUME Shapes, Holding, NEW c \in Calls, Others(c),
         RedirectOver(c) \/ UNCHANGED sessions,
         UNCHANGED <<closures, live, holder>> \/ holder' = None,
         FetchOfObject(calls[c])'
  PROVE  Holding'
  <1>1. \A o \in Objects : /\ sessions'[o].isLoggedIn = sessions[o].isLoggedIn
                           /\ sessions'[o].fetch = sessions[o].fetch
    BY DEF RedirectOver
  <1>2. ASSUME NEW d \in Calls, d # c PROVE FetchOfObject(calls[d])'
    <2>1. calls'[d] = calls[d] /\ FetchOfObject(calls[d]) /\ Shape(calls[d])
      BY <1>2 DEF Others, Holding, Shapes, CallShapes
    <2> QED
      BY <1>1, <2>1 DEF FetchOfObject, Shape
  <1>3. HolderLive'
    <2>1. CASE holder' = None
      BY <2>1 DEF HolderLive
    <2>2. CASE UNCHANGED <<closures, live, holder>> /\ holder # None
      <3>1. holder \in Objects
        BY <2>2 DEF Shapes, TypeOK
      <3> QED
        BY <1>1, <2>2, <3>1 DEF Holding, HolderLive, Live
    <2> QED
      BY <2>1, <2>2
  <1> QED
    BY <1>2, <1>3 DEF Holding

\* A step of a call that nobody fetches meanwhile.
LEMMA NobodyFetches ==
  ASSUME Alone, NEW c \in Calls, Others(c),
         calls[c].kind \in {"login", "restore", "redirect", "logout"},
         calls'[c].kind # "fetch", HolderLive'
  PROVE  Holding'
  BY DEF Alone, Others, Holding, FetchOfObject

\* The end of a login or of a redirect.
LEMMA GetsLiveFetch ==
  ASSUME Shapes, Alone, NEW c \in Calls, NEW isLoggedIn, GetsFetch(c, isLoggedIn),
         calls[c].kind \in {"login", "restore", "redirect"},
         Live(calls[c].token), UNCHANGED live
  PROVE  Holding'
  <1>1. closures'[calls[c].grant] = calls[c].token
    BY DEF GetsFetch, Shapes, TypeOK
  <1>2. HolderLive'
    BY <1>1 DEF GetsFetch, HolderLive, Live
  <1>3. Others(c) /\ calls'[c].kind # "fetch"
    BY NewCall DEF GetsFetch, Ends
  <1> QED
    BY <1>2, <1>3, NobodyFetches

LEMMA NextHolding ==
  Shapes /\ Alone /\ LiveTokens /\ Holding /\ [Next]_vars => Holding'
  <1> SUFFICES ASSUME Shapes, Alone, LiveTokens, Holding, [Next]_vars
               PROVE  Holding'
    OBVIOUS
  <1> USE NewCall
  <1>0. \A c \in Calls : Shape(calls[c]) /\ LiveOfCall(calls[c]) /\ FetchOfObject(calls[c])
    BY DEF Shapes, CallShapes, LiveTokens, Holding
  <1>t. sessions \in [Objects -> Session] /\ holder \in Objects \cup {None}
    BY DEF Shapes, TypeOK
  <1>1. CASE Application
    <2>1. ASSUME NEW o \in Objects, HandleNoCode(o) PROVE Holding'
      <3>1. /\ ~sessions[o].isLoggedIn /\ ~sessions'[o].isLoggedIn
            /\ \A p \in Objects : p # o => sessions'[p] = sessions[p]
            /\ UNCHANGED <<calls, closures, live, holder>>
        BY <1>t, <2>1 DEF HandleNoCode, MayHandleRedirect, Session, provider, history
      <3>2. ASSUME NEW d \in Calls PROVE FetchOfObject(calls[d])'
        <4> SUFFICES ASSUME calls[d].kind = "fetch" PROVE FetchOfObject(calls[d])'
          BY <3>1 DEF FetchOfObject
        <4>1. calls[d].object \in Objects /\ calls[d].object # o
          BY <1>0, <3>1 DEF FetchOfObject, Shape
        <4> QED
          BY <1>0, <3>1, <4>1 DEF FetchOfObject
      <3>3. HolderLive'
        BY <1>t, <3>1 DEF Holding, HolderLive, Live
      <3> QED
        BY <3>2, <3>3 DEF Holding
    <2>2. ASSUME NEW c \in Calls, NEW o \in Objects, Restore(c, o) PROVE Holding'
      <3>1. /\ \A d \in Running(Kinds) : calls[d].object # o
            /\ ~sessions'[o].isLoggedIn
            /\ \A p \in Objects : p # o => sessions'[p] = sessions[p]
            /\ UNCHANGED <<closures, live, holder>>
            /\ UNCHANGED calls \/ (Others(c) /\ calls'[c].kind = "restore")
        <4>1. /\ \A d \in Running(Kinds) : calls[d].object # o
              /\ sessions' = [sessions EXCEPT ![o] = NewSession]
              /\ UNCHANGED <<closures, live, holder>>
              /\ UNCHANGED calls \/ Begins(c, "restore", o, "identify")
          BY <2>2, BeginEffects DEF provider
        <4>2. Begins(c, "restore", o, "identify") => Others(c) /\ calls'[c].kind = "restore"
          BY DEF Begins
        <4> QED
          BY <1>t, <4>1, <4>2 DEF NewSession
      <3>2. ASSUME NEW d \in Calls PROVE FetchOfObject(calls[d])'
        <4> SUFFICES ASSUME calls'[d].kind = "fetch" PROVE FetchOfObject(calls[d])'
          BY DEF FetchOfObject
        <4>1. calls'[d] = calls[d]
          BY <3>1 DEF Others
        <4>2. calls[d].object \in Objects /\ calls[d].object # o
          BY <1>0, <3>1, <4>1 DEF Running, Kinds, Shape
        <4> QED
          BY <1>0, <3>1, <4>1, <4>2 DEF FetchOfObject
      <3>3. HolderLive'
        BY <1>t, <3>1 DEF Holding, HolderLive, Live
      <3> QED
        BY <3>2, <3>3 DEF Holding
    <2>3. ASSUME NEW c \in Calls, NEW o \in Objects, Fetch(c, o) PROVE Holding'
      <3>1. /\ Begins(c, "fetch", o, "send") /\ calls'[c].grant = sessions[o].fetch
            /\ sessions[o].isLoggedIn /\ UNCHANGED <<sessions, closures, live, holder>>
        BY <2>3, BeginEffects DEF provider, history
      <3> QED
        BY <3>1, HoldingStep DEF Begins, FetchOfObject
    <2>4. ASSUME NEW c \in Calls, NEW o \in Objects,
                 \/ Logout(c, o) \/ \E token \in Grants \cup {None} : Login(c, o, token)
          PROVE  Holding'
      <3>1. /\ Others(c) /\ calls'[c].kind # "fetch"
            /\ UNCHANGED <<sessions, closures, live, holder>>
        BY <2>4, BeginEffects DEF provider, history, Begins
      <3> QED
        BY <3>1, HoldingStep DEF FetchOfObject
    <2>5. ASSUME NEW c \in Calls, NEW o \in Objects, NEW code \in 1..made,
                 HandleCode(c, o, code)
          PROVE  Holding'
      <3>1. /\ Others(c) /\ calls'[c].kind = "redirect" /\ calls[c].kind = "none"
            /\ sessions' = [sessions EXCEPT ![o].inProgress = TRUE]
            /\ UNCHANGED <<closures, live, holder>>
        BY <2>5, BeginEffects DEF provider, history, Begins
      <3>2. RedirectOver(c) \/ \A p \in Objects :
              /\ sessions'[p].isLoggedIn = sessions[p].isLoggedIn
              /\ sessions'[p].fetch = sessions[p].fetch
        BY <1>t, <3>1 DEF Session
      <3>3. \A d \in Calls : FetchOfObject(calls[d])'
        BY <1>0, <3>1, <3>2 DEF FetchOfObject, Shape, RedirectOver, Others
      <3>4. HolderLive'
        BY <1>t, <3>1, <3>2 DEF Holding, HolderLive, Live, RedirectOver
      <3> QED
        BY <3>3, <3>4 DEF Holding
    <2> QED
      BY <1>1, <2>1, <2>2, <2>3, <2>4, <2>5 DEF Application
  <1>2. CASE Crash
    <2>1. /\ \A c \in Calls : calls'[c] = NoCall
          /\ \A o \in Objects : ~sessions'[o].isLoggedIn
          /\ holder' = holder
      BY <1>2 DEF Crash, NewSession
    <2> QED
      BY <1>t, <2>1 DEF Holding, HolderLive, FetchOfObject
  <1>3. ASSUME NEW c \in Calls, Continue(c)
        PROVE  Holding'
    <2>0. Shape(calls[c]) /\ LiveOfCall(calls[c]) /\ FetchOfObject(calls[c])
      BY <1>0
    \* A call that goes on, or is over, and leaves the fetches alone.
    <2>k. ASSUME \/ Ends(c)
                 \/ Keeps(c) /\ (calls[c].kind = "fetch" => calls'[c].grant = calls[c].grant),
                 RedirectOver(c) \/ UNCHANGED sessions,
                 UNCHANGED <<closures, live, holder>> \/ holder' = None
          PROVE  Holding'
      <3>1. FetchOfObject(calls[c])'
        <4> SUFFICES ASSUME calls'[c].kind = "fetch" PROVE FetchOfObject(calls[c])'
          BY DEF FetchOfObject
        <4>1. /\ calls[c].kind = "fetch" /\ calls'[c].object = calls[c].object
              /\ calls'[c].grant = calls[c].grant /\ calls[c].object \in Objects
          BY <2>0, <2>k DEF Keeps, Ends, Shape
        <4> QED
          BY <2>0, <2>k, <4>1 DEF FetchOfObject, RedirectOver
      <3>2. Others(c)
        BY <2>k DEF Keeps, Ends
      <3> QED
        BY <2>k, <3>1, <3>2, HoldingStep
    <2>1. CASE ReadRecord(c) \/ WriteRecord(c) \/ GetClient(c) \/ Choose(c)
      <3>1. /\ Keeps(c) /\ calls'[c].grant = calls[c].grant
            /\ UNCHANGED <<sessions, closures, live, holder>>
        BY <2>1, ReadRecordEffect, WriteRecordEffect, GetClientEffect, ChooseEffect
        DEF OnlyCalls, provider, history
      <3> QED
        BY <2>k, <3>1
    <2>2. CASE SendUser(c) \/ LoadContext(c) \/ Fails(c)
      <3>1. /\ Ends(c) \/ (Keeps(c) /\ calls'[c].grant = calls[c].grant)
            /\ RedirectOver(c) \/ UNCHANGED sessions
            /\ UNCHANGED <<closures, live, holder>>
        BY <2>2, SendUserEffect, LoadContextEffect, FailsEffect DEF provider, history
      <3> QED
        BY <2>k, <3>1
    <2>3. ASSUME NEW token \in Grants \cup {None},
                 CodeRedeemed(c, token) \/ Refreshed(c, token) \/ AnswerLost(c, token)
          PROVE  Holding'
      <3>1. /\ holder' = None
            /\ RedirectOver(c) \/ UNCHANGED sessions
            /\ \/ Ends(c)
               \/ Keeps(c) /\ (calls[c].kind = "fetch" => calls'[c].grant = calls[c].grant)
        <4>1. CASE CodeRedeemed(c, token)
          BY <4>1, CodeRedeemedEffect, GrantEffect
        <4>2. CASE Refreshed(c, token)
          BY <4>2, RefreshedEffect, GrantEffect
        <4>3. CASE AnswerLost(c, token)
          BY <4>3, AnswerLostEffect, GrantEffect
        <4> QED
          BY <2>3, <4>1, <4>2, <4>3
      <3> QED
        BY <2>k, <3>1
    <2>9. CASE StoreRotated(c)
      BY <2>k, <2>9, StoreRotatedEffect DEF provider, history
    <2>4. CASE TellRotated(c)
      <3>1. CASE calls[c].kind = "fetch"
        <4>1. /\ Ends(c) /\ UNCHANGED <<sessions, live>>
              /\ calls[c].step = "tell" /\ calls[c].grant \in Grants
              /\ closures' = [closures EXCEPT ![calls[c].grant] = calls[c].token]
              /\ holder' = calls[c].object
          BY <2>4, <3>1, TellRotatedEffect DEF provider
        <4>2. closures'[calls[c].grant] = calls[c].token
          BY <4>1 DEF Shapes, TypeOK
        <4>3. HolderLive'
          BY <2>0, <3>1, <4>1, <4>2 DEF HolderLive, FetchOfObject, LiveOfCall, Live, RotatedSteps
        <4>4. ASSUME NEW d \in Calls PROVE FetchOfObject(calls[d])'
          BY <1>0, <4>1 DEF FetchOfObject, Ends, Others
        <4> QED
          BY <4>3, <4>4 DEF Holding
      <3>2. CASE calls[c].kind # "fetch"
        BY <2>k, <2>4, <3>2, TellRotatedEffect DEF provider
      <3> QED
        BY <3>1, <3>2
    <2>5. CASE FinishLogin(c) \/ FinishRedirect(c)
      <3>1. /\ calls[c].kind \in {"login", "restore", "redirect"}
            /\ calls[c].step \in {"finish", "get"} /\ UNCHANGED live
            /\ \/ \E isLoggedIn : GetsFetch(c, isLoggedIn)
               \/ Ends(c) /\ RedirectOver(c) /\ UNCHANGED <<closures, holder>>
        BY <2>5, FinishEffect DEF provider
      <3>2. ASSUME NEW isLoggedIn, GetsFetch(c, isLoggedIn) PROVE Holding'
        BY <2>0, <3>1, <3>2, GetsLiveFetch DEF LiveOfCall
      <3>3. CASE Ends(c) /\ RedirectOver(c) /\ UNCHANGED <<closures, holder>>
        BY <2>k, <3>1, <3>3
      <3> QED
        BY <3>1, <3>2, <3>3
    <2>6. CASE FetchReturns(c) \/ FetchRefused(c)
      BY <2>k, <2>6, FetchEffect DEF OnlyCalls, provider, history
    <2>7. CASE DeleteRecord(c)
      <3>1. Keeps(c) /\ calls[c].kind = "logout"
        BY <2>7, LogoutEffect DEF DeleteRecord, At
      <3>2. UNCHANGED <<sessions, closures, live, holder>>
        BY <2>7 DEF DeleteRecord, provider, history
      <3> QED
        BY <2>k, <3>1, <3>2
    <2>8. CASE FinishLogout(c)
      <3>1. /\ Ends(c) /\ calls[c].kind = "logout" /\ calls[c].object \in Objects
            /\ UNCHANGED <<closures, live, holder>>
            /\ sessions' = [sessions EXCEPT ![calls[c].object].isLoggedIn = FALSE,
                                            ![calls[c].object].fetch = None]
        BY <2>8, LogoutEffect DEF FinishLogout, At, provider
      <3>2. HolderLive'
        <4>1. CASE holder = calls[c].object
          BY <1>t, <3>1, <4>1 DEF HolderLive, Session
        <4>2. CASE holder # calls[c].object
          BY <1>t, <3>1, <4>2 DEF Holding, HolderLive, Live
        <4> QED
          BY <4>1, <4>2
      <3> QED
        BY <3>1, <3>2, NobodyFetches DEF Ends
    <2> QED
      BY <1>3, <2>1, <2>2, <2>3, <2>4, <2>5, <2>6, <2>7, <2>8, <2>9 DEF Continue
  <1>4. CASE UNCHANGED vars
    BY <1>4 DEF vars, provider, history, Holding, HolderLive, FetchOfObject, Live
  <1> QED
    BY <1>1, <1>2, <1>3, <1>4 DEF Next

\* However many fetches refresh their tokens at the same time: the object
\* that got tokens last holds a refresh token that the provider accepts, so
\* it can go on.
THEOREM RotationKeepsFetch ==
  ASSUME Apart
  PROVE  Spec => []FetchCanRefresh
  <1>1. Init => Holding
    BY NewCall DEF Init, NewSession, Holding, HolderLive, FetchOfObject
  <1>2. Holding => FetchCanRefresh
    BY DEF Holding, HolderLive, Live, FetchCanRefresh
  <1>3. Shapes /\ Telling /\ Alone /\ Clients /\ LiveTokens /\ Holding /\ [Next]_vars =>
          (Shapes /\ Telling /\ Alone /\ Clients /\ LiveTokens /\ Holding)'
    BY NextShapes, NextTelling, NextAlone, NextClients, NextLiveTokens, NextHolding
  <1> QED
    BY <1>1, <1>2, <1>3, InitShapes, InitRotation, PTL DEF Spec

-----------------------------------------------------------------------------
(* After a logout.                                                         *)

Gone == removed => /\ data = Absent
                   /\ \A c \in Calls : calls[c].kind \notin {"login", "restore"}

\* What a call does after a logout: no login and no restore is under way, and
\* the others write only where they find a record.
LEMMA GoneStep ==
  ASSUME Gone, NEW c \in Calls, Others(c), removed' => removed,
         removed' => calls'[c].kind \in {"none", calls[c].kind},
         \/ UNCHANGED data \/ data' = Absent \/ data # Absent
         \/ calls[c].kind \in {"login", "restore"}
  PROVE  Gone'
  BY DEF Gone, Others

LEMMA NextGone ==
  Shapes /\ Alone /\ Clients /\ Gone /\ [Next]_vars => Gone'
  <1> SUFFICES ASSUME Shapes, Alone, Clients, Gone, [Next]_vars PROVE Gone'
    OBVIOUS
  <1> USE NewCall
  <1>1. CASE Application
    <2>1. ASSUME NEW o \in Objects, HandleNoCode(o) PROVE Gone'
      BY <2>1 DEF HandleNoCode, provider, history, Gone
    <2>2. ASSUME NEW c \in Calls, NEW o \in Objects, Restore(c, o) PROVE Gone'
      <3>1. data # Absent /\ UNCHANGED data
        BY <2>2 DEF Restore
      <3>2. UNCHANGED <<calls, removed>> \/ removed' = FALSE
        BY <2>2, BeginEffects
      <3> QED
        BY <3>1, <3>2 DEF Gone
    <2>3. ASSUME NEW c \in Calls, NEW o \in Objects, NEW token \in Grants \cup {None},
                 Login(c, o, token)
          PROVE  Gone'
      BY <2>3 DEF Login, Gone
    <2>4. ASSUME NEW c \in Calls, NEW o \in Objects,
                 \/ Fetch(c, o) \/ Logout(c, o)
                 \/ \E code \in 1..made : HandleCode(c, o, code)
          PROVE  Gone'
      <3>1. /\ Others(c) /\ calls'[c].kind \in {"fetch", "logout", "redirect"}
            /\ UNCHANGED <<data, removed>>
        BY <2>4, BeginEffects DEF history, Begins
      <3> QED
        BY <3>1 DEF Gone, Others
    <2> QED
      BY <1>1, <2>1, <2>2, <2>3, <2>4 DEF Application
  <1>2. CASE Crash
    BY <1>2 DEF Crash, Gone
  <1>3. ASSUME NEW c \in Calls, Continue(c)
        PROVE  Gone'
    <2>0. /\ Shape(calls[c]) /\ ClientOfCall(calls[c])
      BY DEF Shapes, CallShapes, Clients
    <2>k. Others(c) /\ calls'[c].kind \in {"none", calls[c].kind}
      BY <1>3, ContinueKinds
    <2>1. CASE UNCHANGED <<data, removed>>
      BY <2>k, <2>1, GoneStep
    <2>2. CASE WriteRecord(c) \/ StoreRotated(c) \/ SendUser(c) \/ FinishLogin(c)
      <3>1. /\ UNCHANGED removed
            /\ calls[c].step \in SetSteps
        BY <2>2 DEF WriteRecord, StoreRotated, SendUser, FinishLogin, history, SetSteps
      <3>2. calls[c].kind \in {"login", "restore", "redirect", "fetch"}
        BY <2>0, <3>1, ContinueKinds DEF Shape, KindSteps, SetSteps, Shapes, TypeOK, Call, Kinds
      <3>3. calls[c].kind \in {"redirect", "fetch"} => data # Absent
        BY <2>0, <3>1 DEF ClientOfCall, SharesRecord, HasContext, SetSteps
      <3> QED
        BY <2>k, <3>1, <3>2, <3>3, GoneStep
    <2>3. CASE FinishRedirect(c)
      BY <2>1, <2>3, FinishEffect DEF FinishRedirect, At
    <2>4. CASE DeleteRecord(c)
      <3>1. data' = Absent /\ UNCHANGED removed
        BY <2>4 DEF DeleteRecord, history
      <3> QED
        BY <2>k, <3>1, GoneStep
    <2>5. CASE FinishLogout(c)
      <3>1. /\ UNCHANGED data /\ calls[c].kind = "logout" /\ calls[c].step = "reset"
            /\ Ends(c)
        BY <2>5, LogoutEffect DEF FinishLogout, At
      <3>2. data = Absent
        BY <2>0, <3>1 DEF ClientOfCall
      <3>3. \A d \in Calls : d # c => calls[d].kind = "none"
        BY <3>1 DEF Alone
      <3> QED
        BY <2>k, <3>1, <3>2, <3>3 DEF Gone, Others, Ends
    <2>6. CASE ReadRecord(c) \/ GetClient(c) \/ Choose(c) \/ LoadContext(c) \/ Fails(c)
      BY <2>1, <2>6, ReadRecordEffect, GetClientEffect, ChooseEffect, LoadContextEffect,
         FailsEffect DEF OnlyCalls, history
    <2>7. ASSUME NEW token \in Grants \cup {None},
                 CodeRedeemed(c, token) \/ Refreshed(c, token) \/ AnswerLost(c, token)
          PROVE  Gone'
      BY <2>1, <2>7, CodeRedeemedEffect, RefreshedEffect, AnswerLostEffect
    <2>8. CASE TellRotated(c) \/ FetchReturns(c) \/ FetchRefused(c)
      BY <2>1, <2>8, TellRotatedEffect, FetchEffect DEF OnlyCalls, history
    <2> QED
      BY <1>3, <2>2, <2>3, <2>4, <2>5, <2>6, <2>7, <2>8 DEF Continue
  <1>4. CASE UNCHANGED vars
    BY <1>4 DEF vars, history, Gone
  <1> QED
    BY <1>1, <1>2, <1>3, <1>4 DEF Next

\* Once a session was logged out, nothing but a new login writes its record:
\* not a code that comes back late, a fetch that another object still makes
\* or an attempt to restore the session.
THEOREM LogoutRemovesForGood ==
  ASSUME Apart
  PROVE  Spec => []RemovedOnLogout
  <1>1. Init => Gone
    BY DEF Init, Gone
  <1>2. Gone => RemovedOnLogout
    BY DEF Gone, RemovedOnLogout
  <1>3. Shapes /\ Alone /\ Clients /\ Gone /\ [Next]_vars =>
          (Shapes /\ Alone /\ Clients /\ Gone)'
    BY NextShapes, NextAlone, NextClients, NextGone
  <1> QED
    BY <1>1, <1>2, <1>3, InitShapes, InitRotation, PTL DEF Spec

=============================================================================
