-------------------------- MODULE NodeSessionProofs --------------------------
(***************************************************************************)
(* Theorems about NodeSession that hold whatever calls overlap: the shape  *)
(* of the state, redirects that take turns, refresh tokens that are told   *)
(* once.  In between, what each action does to the fields that the proofs  *)
(* here and in NodeRotationProofs are about.                               *)
(***************************************************************************)
EXTENDS NodeSession, TLAPS

-----------------------------------------------------------------------------
(* Type correctness, with what the steps of the calls take for granted.    *)

RefreshSteps == {"context", "load", "getClient", "register", "token",
                 "rotated", "tell", "save", "touch", "finish"}

\* The steps of each kind of call.
KindSteps(call) ==
  /\ call.kind = "none" => call.step = "none"
  /\ call.kind = "login" => call.step \in RefreshSteps \cup {"client", "stored", "request"}
  /\ call.kind = "restore" => call.step \in RefreshSteps \cup {"identify", "stored", "request"}
  /\ call.kind = "redirect" =>
       call.step \in {"load", "getClient", "register", "token", "save", "touch", "get"}
  /\ call.kind = "fetch" =>
       call.step \in {"send", "load", "getClient", "register", "token", "rotated", "tell"}
  /\ call.kind = "logout" => call.step \in {"delete", "reset"}

\* What a call has at hand in the steps that use it.
Shape(call) ==
  /\ KindSteps(call)
  /\ call.kind # "none" => call.object \in Objects
  /\ call.copy # Absent => call.step \in SetSteps
  /\ call.kind = "fetch" \/ call.step \in {"rotated", "tell", "save", "touch", "get", "finish"}
       => call.grant # None
  /\ call.step = "request" => call.code # None
  /\ call.step \in {"rotated", "tell"} => call.token # None

CallShapes ==
  /\ calls \in [Calls -> Call]
  /\ \A c \in Calls : Shape(calls[c]) /\ calls[c].code <= made

Shapes ==
  /\ TypeOK
  /\ CallShapes
  /\ \A o \in Objects : sessions[o].isLoggedIn => sessions[o].fetch # None

LEMMA Constants ==
  /\ EmptyRecord \in Record /\ NewSession \in Session /\ NoCall \in Call
  /\ Absent \notin Record
  /\ Shape(NoCall) /\ NoCall.code = 0
  BY NodeAssumption DEF EmptyRecord, Record, NewSession, Session, NoCall, Call, Steps,
     None, Shape, KindSteps

\* The call of c, and nobody else's, changes.
LEMMA CallChanges ==
  ASSUME calls \in [Calls -> Call], NEW c \in Calls, NEW call \in Call, Change(c, call)
  PROVE  /\ calls' \in [Calls -> Call]
         /\ calls'[c] = call
         /\ \A d \in Calls : d # c => calls'[d] = calls[d]
  BY DEF Change

\* What a set writes.
LEMMA UpdateType ==
  ASSUME NEW call \in Call, call.copy # Absent, call.step \in SetSteps
  PROVE  /\ Update(call) \in Record
         /\ Update(call).token = IF call.step \in {"rotated", "save"} THEN call.token
                                                                ELSE call.copy.token
         /\ Update(call).issuer = IF call.step \in {"request", "context", "finish"}
                                    THEN TRUE ELSE call.copy.issuer
         /\ Update(call).client = IF call.step = "client" THEN "own"
                                  ELSE IF call.step = "register" THEN "other"
                                  ELSE IF call.step \in {"context", "finish"} THEN call.client
                                  ELSE call.copy.client
  <1>1. call.copy \in Record
    BY DEF Call
  <1>2. CASE call.step = "client"
    BY <1>1, <1>2 DEF Update, Record, Call
  <1>3. CASE call.step = "register"
    BY <1>1, <1>3 DEF Update, Record, Call
  <1>4. CASE call.step = "request"
    BY <1>1, <1>4 DEF Update, Record, Call
  <1>5. CASE call.step \in {"context", "finish"}
    BY <1>1, <1>5 DEF Update, Record, Call
  <1>6. CASE call.step \in {"rotated", "save"}
    BY <1>1, <1>6 DEF Update, WithToken, Record, Call
  <1>7. CASE call.step = "touch"
    BY <1>1, <1>7 DEF Update, Record, Call
  <1> QED
    BY <1>2, <1>3, <1>4, <1>5, <1>6, <1>7 DEF SetSteps

\* A call goes on to a step for which it has what it needs.
LEMMA CallMoves ==
  ASSUME Shapes, NEW c \in Calls, NEW call \in Call, Shape(call), Change(c, call),
         made' \in 0..MaxRequests, made <= made', call.code <= made'
  PROVE  CallShapes'
  <1>1. /\ calls \in [Calls -> Call] /\ made \in Nat
        /\ \A d \in Calls : Shape(calls[d]) /\ calls[d].code <= made
        /\ \A d \in Calls : calls[d].code \in Nat
    BY NodeAssumption DEF Shapes, CallShapes, TypeOK, Call, Requests, None
  <1>2. /\ calls' \in [Calls -> Call] /\ calls'[c] = call
        /\ \A d \in Calls : d # c => calls'[d] = calls[d]
    BY <1>1, CallChanges
  <1>3. \A d \in Calls : Shape(calls'[d]) /\ calls'[d].code <= made'
    BY <1>1, <1>2, NodeAssumption
  <1> QED
    BY <1>2, <1>3 DEF CallShapes, Shape, KindSteps

\* A call that begins.
LEMMA CallBegins ==
  ASSUME Shapes, NEW c \in Calls, NEW call \in Call, Shape(call), Begin(c, call),
         call.code <= made, UNCHANGED made
  PROVE  CallShapes'
  <1>1. made' \in 0..MaxRequests /\ made <= made'
    BY NodeAssumption DEF Shapes, TypeOK
  <1> QED
    BY <1>1, CallMoves DEF Begin, Change

LEMMA CallEnds ==
  ASSUME Shapes, NEW c \in Calls, End(c), UNCHANGED made
  PROVE  CallShapes'
  <1>1. made' \in 0..MaxRequests /\ made <= made' /\ 0 <= made'
    BY NodeAssumption DEF Shapes, TypeOK
  <1> QED
    BY <1>1, CallMoves, Constants DEF End

LEMMA ApplicationShapes ==
  ASSUME Shapes, Application
  PROVE  Shapes'
  <1> USE DEF Shapes, None
  <1>0. made \in Nat /\ granted \in Nat /\ sessions \in [Objects -> Session]
    BY NodeAssumption DEF TypeOK
  <1>1. ASSUME NEW o \in Objects, HandleNoCode(o)
        PROVE  Shapes'
    <2>1. CallShapes'
      BY <1>1 DEF HandleNoCode, CallShapes, provider, Shape, KindSteps
    <2>2. /\ sessions' \in [Objects -> Session]
          /\ \A p \in Objects : sessions'[p].isLoggedIn => sessions'[p].fetch # None
      BY <1>0, <1>1 DEF HandleNoCode, MayHandleRedirect, Session
    <2> QED
      BY <1>1, <2>1, <2>2 DEF HandleNoCode, TypeOK, CallShapes, provider, history
  <1>2. ASSUME NEW c \in Calls, NEW o \in Objects, Restore(c, o)
        PROVE  Shapes'
    <2>1. CallOf("restore", o, "identify") \in Call /\ Shape(CallOf("restore", o, "identify"))
          /\ CallOf("restore", o, "identify").code = 0
      BY DEF CallOf, NoCall, Call, Kinds, Steps, Shape, KindSteps
    <2>2. CallShapes'
      BY <1>0, <1>2, <2>1, CallBegins DEF Restore, provider, CallShapes, Shape, KindSteps
    <2>3. sessions' = [sessions EXCEPT ![o] = NewSession] /\ ~NewSession.isLoggedIn
      BY <1>2 DEF Restore, NewSession
    <2>4. removed' \in BOOLEAN
      BY <1>2 DEF Restore, TypeOK
    <2> QED
      BY <1>0, <1>2, <2>2, <2>3, <2>4, Constants DEF Restore, TypeOK, CallShapes, provider
  <1>3. ASSUME NEW c \in Calls, NEW o \in Objects, Fetch(c, o)
        PROVE  Shapes'
    <2> DEFINE call == [CallOf("fetch", o, "send") EXCEPT !.grant = sessions[o].fetch]
    <2>1. sessions[o].fetch \in Grants \cup {0} /\ sessions[o].fetch # 0
      BY <1>0, <1>3 DEF Fetch, Session
    <2>2. call \in Call /\ Shape(call) /\ call.code = 0
      BY <2>1 DEF CallOf, NoCall, Call, Kinds, Steps, Shape, KindSteps
    <2> HIDE DEF call
    <2>b. Begin(c, call) /\ UNCHANGED made
      BY <1>3 DEF Fetch, provider, call
    <2>3. CallShapes'
      BY <1>0, <2>2, <2>b, CallBegins
    <2> QED
      BY <1>3, <2>3 DEF Fetch, TypeOK, CallShapes, provider, history
  <1>4. ASSUME NEW c \in Calls, NEW o \in Objects, Logout(c, o)
        PROVE  Shapes'
    <2>1. CallOf("logout", o, "delete") \in Call /\ Shape(CallOf("logout", o, "delete"))
          /\ CallOf("logout", o, "delete").code = 0
      BY DEF CallOf, NoCall, Call, Kinds, Steps, Shape, KindSteps
    <2>2. CallShapes'
      BY <1>0, <1>4, <2>1, CallBegins DEF Logout, provider
    <2> QED
      BY <1>4, <2>2 DEF Logout, TypeOK, CallShapes, provider, history
  <1>5. ASSUME NEW c \in Calls, NEW o \in Objects, NEW token \in Grants \cup {None},
               Login(c, o, token)
        PROVE  Shapes'
    <2> DEFINE call == [CallOf("login", o, "client") EXCEPT !.token = token]
    <2>1. call \in Call /\ Shape(call) /\ call.code = 0
      BY DEF CallOf, NoCall, Call, Kinds, Steps, SetSteps, Shape, KindSteps
    <2> HIDE DEF call
    <2>b. Begin(c, call) /\ UNCHANGED made
      BY <1>5 DEF Login, provider, call
    <2>2. CallShapes'
      BY <1>0, <2>1, <2>b, CallBegins
    <2> QED
      BY <1>5, <2>2 DEF Login, TypeOK, CallShapes, provider
  <1>6. ASSUME NEW c \in Calls, NEW o \in Objects, NEW code \in 1..made,
               HandleCode(c, o, code)
        PROVE  Shapes'
    <2> DEFINE call == [CallOf("redirect", o, "load") EXCEPT !.code = code]
    <2>a. code \in Requests /\ code <= made
      BY NodeAssumption DEF Requests, TypeOK
    <2>1. call \in Call /\ Shape(call) /\ call.code = code
      BY <2>a DEF CallOf, NoCall, Call, Kinds, Steps, SetSteps, Shape, KindSteps
    <2> HIDE DEF call
    <2>b. Begin(c, call) /\ UNCHANGED made
      BY <1>6 DEF HandleCode, provider, call
    <2>2. CallShapes'
      BY <1>0, <2>a, <2>1, <2>b, CallBegins
    <2>3. /\ sessions' \in [Objects -> Session]
          /\ \A p \in Objects : sessions'[p].isLoggedIn => sessions'[p].fetch # None
      BY <1>0, <1>6 DEF HandleCode, Session
    <2> QED
      BY <1>6, <2>2, <2>3 DEF HandleCode, TypeOK, CallShapes, provider, history
  <1> QED
    BY <1>1, <1>2, <1>3, <1>4, <1>5, <1>6 DEF Application

\* The steps that concern the record, and nothing outside the storage.
LEMMA StorageShapes ==
  ASSUME Shapes, NEW c \in Calls,
         ReadRecord(c) \/ WriteRecord(c) \/ GetClient(c) \/ Choose(c) \/ SendUser(c)
  PROVE  Shapes'
  <1> USE DEF None
  <1>0. /\ made \in Nat /\ made \in 0..MaxRequests /\ TypeOK
        /\ calls[c] \in Call /\ Shape(calls[c]) /\ calls[c].code <= made
        /\ data \in Record \cup {Absent}
    BY NodeAssumption DEF Shapes, CallShapes, TypeOK
  <1>a. ASSUME CallShapes', TypeOK', UNCHANGED sessions PROVE Shapes'
    BY <1>a DEF Shapes
  <1>1. CASE ReadRecord(c)
    <2> DEFINE call == [calls[c] EXCEPT !.copy = IF data = Absent THEN EmptyRecord ELSE data]
    <2>1. Change(c, call) /\ calls[c].step \in SetSteps /\ UNCHANGED made
      BY <1>1 DEF ReadRecord, provider
    <2>2. call \in Call /\ Shape(call) /\ call.code = calls[c].code
      BY <1>0, <2>1, Constants DEF Call, Shape, KindSteps
    <2> HIDE DEF call
    <2>3. CallShapes'
      BY <1>0, <2>1, <2>2, CallMoves
    <2> QED
      BY <1>0, <1>1, <1>a, <2>3 DEF ReadRecord, TypeOK, CallShapes, provider, history
  <1>2. CASE WriteRecord(c)
    <2> DEFINE next == Following(calls[c])
               client == IF calls[c].step = "register" THEN "other" ELSE calls[c].client
               old == calls[c]
               call == [old EXCEPT !.copy = Absent, !.step = next, !.client = client]
    <2>1. /\ Change(c, call) /\ UNCHANGED made /\ Written(c)
          /\ calls[c].step \in {"client", "register", "context", "save", "touch"}
      BY <1>2 DEF WriteRecord, provider
    <2>2. /\ next \in {"stored", "token", "load", "touch", "get", "finish"}
          /\ client \in {"none", "own", "other"}
      BY <1>0, <2>1 DEF Following, Call
    <2>3. /\ call \in Call /\ call.code = old.code
          /\ call.kind = old.kind /\ call.object = old.object
          /\ call.copy = Absent /\ call.step = next
          /\ call.grant = old.grant
      <3>1. next \in Steps /\ old \in Call
        BY <1>0, <2>2 DEF Steps, SetSteps
      <3> HIDE DEF next, client, old
      <3> QED
        BY <2>2, <3>1 DEF Call
    <2>4. Shape(call)
      <3> HIDE DEF call
      <3> QED
        BY <1>0, <2>1, <2>3 DEF Following, Shape, KindSteps, RefreshSteps
    <2> HIDE DEF call
    <2>5. CallShapes'
      BY <1>0, <2>1, <2>3, <2>4, CallMoves
    <2>6. data' \in Record
      BY <1>0, <2>1, UpdateType DEF Written, SetSteps
    <2> QED
      BY <1>0, <1>2, <1>a, <2>5, <2>6 DEF WriteRecord, TypeOK, CallShapes, provider, history
  <1>3. CASE GetClient(c)
    <2>1. PICK call \in Call :
             /\ Change(c, call) /\ Shape(call) /\ call.code = calls[c].code
      <3>1. CASE data # Absent /\ data.client # "none"
        <4> DEFINE next == IF calls[c].step = "identify" THEN "stored" ELSE "token"
                   client == data.client
                   old == calls[c]
                   call == [old EXCEPT !.client = client, !.step = next]
        <4>1. Change(c, call)
          BY <1>3, <3>1 DEF GetClient
        <4>a. calls[c].copy = Absent /\ calls[c].step \in {"identify", "getClient"}
          BY <1>3 DEF GetClient, At
        <4>b. calls[c].kind \in Kinds \cup {"none"}
          BY <1>0 DEF Call
        <4>c. client \in {"none", "own", "other"}
          BY <1>0, <3>1 DEF Record
        <4>2. /\ next \in {"stored", "token"} /\ client \in {"none", "own", "other"}
              /\ next = "stored" => calls[c].kind = "restore"
              /\ next = "token" => calls[c].kind \in {"login", "restore", "redirect", "fetch"}
              /\ calls[c].copy = Absent
              /\ calls[c].kind = "fetch" => calls[c].grant # None
              /\ calls[c].kind # "none" => calls[c].object \in Objects
          BY <1>0, <4>a, <4>b, <4>c DEF Kinds, Shape, KindSteps, RefreshSteps
        <4>3. /\ call \in Call /\ call.code = old.code
              /\ call.kind = old.kind /\ call.object = old.object
              /\ call.copy = old.copy /\ call.step = next
              /\ call.grant = old.grant
          <5>1. next \in Steps /\ old \in Call
            BY <1>0, <4>2 DEF Steps
          <5> HIDE DEF next, client, old
          <5> QED
            BY <4>2, <5>1 DEF Call
        <4> HIDE DEF call, next, client
        <4>4. Shape(call)
          BY <4>2, <4>3 DEF Call, Kinds, Shape, KindSteps, RefreshSteps
        <4> QED
          BY <4>1, <4>3, <4>4
      <3>2. CASE ~(data # Absent /\ data.client # "none")
        <4>1. Change(c, [calls[c] EXCEPT !.step = "register"])
          BY <1>3, <3>2 DEF GetClient, Goto
        <4>2. /\ [calls[c] EXCEPT !.step = "register"] \in Call
              /\ Shape([calls[c] EXCEPT !.step = "register"])
              /\ [calls[c] EXCEPT !.step = "register"].code = calls[c].code
          BY <1>0, <1>3
          DEF GetClient, At, Call, Steps, SetSteps, Shape, KindSteps, RefreshSteps
        <4> QED
          BY <4>1, <4>2
      <3> QED
        BY <3>1, <3>2
    <2>2. UNCHANGED made
      BY <1>3 DEF GetClient, provider
    <2>3. CallShapes'
      BY <1>0, <2>1, <2>2, CallMoves
    <2> QED
      BY <1>0, <1>3, <1>a, <2>3 DEF GetClient, TypeOK, CallShapes, provider, history
  <1>4. CASE Choose(c)
    <2> DEFINE stored == IF data = Absent THEN None ELSE data.token
               token == IF calls[c].token # None THEN calls[c].token ELSE stored
               client == IF calls[c].kind = "login" THEN "own" ELSE calls[c].client
               old == calls[c]
               refresh == [old EXCEPT !.token = token, !.client = client, !.step = "context"]
               ask == [calls[c] EXCEPT !.code = made', !.step = "request"]
    <2>1. token \in Grants \cup {None} /\ client \in {"none", "own", "other"}
      BY <1>0 DEF Call, Record
    <2>a. At(c, "stored")
      BY <1>4 DEF Choose
    <2>2. At(c, "stored") /\ calls[c].kind \in {"login", "restore"}
      BY <1>0, <2>a DEF At, Call, Kinds, Shape, KindSteps, RefreshSteps
    <2>3. CASE token # None /\ Change(c, refresh) /\ UNCHANGED made
      <3>1. /\ refresh \in Call /\ refresh.code = old.code
            /\ refresh.kind = old.kind /\ refresh.object = old.object
            /\ refresh.copy = old.copy /\ refresh.step = "context"
        <4>1. "context" \in Steps /\ old \in Call
          BY <1>0 DEF Steps, SetSteps
        <4> HIDE DEF token, client, old
        <4> QED
          BY <2>1, <4>1 DEF Call
      <3> HIDE DEF refresh
      <3>a. Shape(refresh)
        BY <1>0, <2>2, <3>1 DEF At, Shape, KindSteps, RefreshSteps, SetSteps
      <3>2. CallShapes'
        BY <1>0, <2>3, <3>1, <3>a, CallMoves
      <3> QED
        BY <1>0, <1>4, <1>a, <2>3, <3>2 DEF Choose, TypeOK, CallShapes, history
    <2>4. CASE made < MaxRequests /\ made' = made + 1 /\ Change(c, ask)
      <3>1. made' \in Requests /\ made' \in 0..MaxRequests /\ made < made' /\ made' # 0
        BY <1>0, <2>4, NodeAssumption DEF Requests
      <3>2. ask \in Call /\ Shape(ask) /\ ask.code = made'
        BY <1>0, <2>2, <3>1
        DEF At, Call, Steps, SetSteps, Shape, KindSteps, RefreshSteps
      <3> HIDE DEF ask
      <3>3. CallShapes'
        BY <1>0, <2>4, <3>1, <3>2, CallMoves
      <3>4. codes \subseteq 1..made'
        BY <1>0, <3>1 DEF TypeOK
      <3> QED
        BY <1>0, <1>4, <1>a, <3>1, <3>3, <3>4 DEF Choose, TypeOK, CallShapes, history
    <2> QED
      BY <1>4, <2>3, <2>4 DEF Choose
  <1>5. CASE SendUser(c)
    <2>1. /\ End(c) /\ UNCHANGED made /\ Written(c) /\ calls[c].step = "request"
      BY <1>5 DEF SendUser
    <2>2. CallShapes'
      BY <2>1, CallEnds
    <2>3. data' \in Record
      BY <1>0, <2>1, UpdateType DEF Written, SetSteps
    <2>4. calls[c].code \in 1..made
      BY <1>0, <2>1 DEF Shape, Call, Requests
    <2>5. codes' \subseteq 1..made
      BY <1>0, <1>5, <2>4 DEF SendUser, TypeOK
    <2> QED
      BY <1>0, <1>5, <1>a, <2>2, <2>3, <2>5 DEF SendUser, TypeOK, CallShapes, history
  <1> QED
    BY <1>1, <1>2, <1>3, <1>4, <1>5

\* What a grant of tokens leaves behind.
LEMMA GrantTypes ==
  ASSUME Shapes, NEW c \in Calls, NEW token, Grant(c, token)
  PROVE  /\ granted' = granted + 1 /\ granted' \in Grants /\ granted' \in 0..MaxGrants
         /\ token \in {None, granted'} /\ token \in Grants \cup {None}
         /\ codes' \subseteq 1..made' /\ live' \subseteq 1..granted'
         /\ holder' = None /\ made' = made
         /\ At(c, "token")
         /\ calls[c].kind \in {"login", "restore", "redirect", "fetch"}
  <1>1. /\ granted \in 0..MaxGrants /\ granted \in Nat /\ MaxGrants \in Nat
        /\ codes \subseteq 1..made /\ live \subseteq 1..granted /\ made \in Nat
        /\ calls[c].kind \in Kinds \cup {"none"} /\ Shape(calls[c])
    BY NodeAssumption DEF Shapes, CallShapes, TypeOK, Call
  <1>2. At(c, "token") /\ granted < MaxGrants /\ granted' = granted + 1
    BY DEF Grant
  <1>3. granted' \in Grants /\ granted' \in 0..MaxGrants
    BY <1>1, <1>2 DEF Grants
  <1>4. token \in {None, granted'} /\ made' = made /\ holder' = None
    BY DEF Grant
  <1>5. codes' \subseteq 1..made'
    BY <1>1, <1>4 DEF Grant
  <1>6. live' \subseteq 1..granted'
    <2>1. \A t \in live' : t \in live \/ (t = granted' /\ t # None)
      BY <1>1, <1>2, <1>4 DEF Grant, None
    <2>2. granted' \in 1..granted' /\ live \subseteq 1..granted'
      BY <1>1, <1>2
    <2> QED
      BY <2>1, <2>2
  <1>7. calls[c].kind \in {"login", "restore", "redirect", "fetch"}
    BY <1>1, <1>2 DEF At, Kinds, Shape, KindSteps
  <1> QED
    BY <1>2, <1>3, <1>4, <1>5, <1>6, <1>7

LEMMA TellTypes ==
  ASSUME told \in [Grants -> Nat], NEW token \in Grants, Tell(token)
  PROVE  /\ told' \in [Grants -> Nat]
         /\ told'[token] = told[token] + 1
         /\ \A g \in Grants : g # token => told'[g] = told[g]
  BY DEF Tell

LEMMA ThrowTypes ==
  ASSUME Shapes, NEW c \in Calls, Throw(c), UNCHANGED made
  PROVE  /\ CallShapes'
         /\ sessions' \in [Objects -> Session]
         /\ \A o \in Objects : sessions'[o].isLoggedIn => sessions'[o].fetch # None
  <1>1. CallShapes'
    BY CallEnds DEF Throw
  <1>2. /\ sessions \in [Objects -> Session]
        /\ \A o \in Objects : sessions[o].isLoggedIn => sessions[o].fetch # None
    BY DEF Shapes, TypeOK
  <1>3. /\ sessions' \in [Objects -> Session]
        /\ \A o \in Objects : sessions'[o].isLoggedIn => sessions'[o].fetch # None
    BY <1>2 DEF Throw, Session
  <1> QED
    BY <1>1, <1>3

\* The steps about tokens.
LEMMA TokenShapes ==
  ASSUME Shapes, NEW c \in Calls,
         \/ LoadContext(c) \/ Fails(c)
         \/ \E token \in Grants \cup {None} :
              CodeRedeemed(c, token) \/ Refreshed(c, token) \/ AnswerLost(c, token)
  PROVE  Shapes'
  <1>0. /\ made \in Nat /\ made \in 0..MaxRequests /\ TypeOK
        /\ calls[c] \in Call /\ Shape(calls[c]) /\ calls[c].code <= made
        /\ data \in Record \cup {Absent}
        /\ \A o \in Objects : sessions[o].isLoggedIn => sessions[o].fetch # None
    BY NodeAssumption DEF Shapes, CallShapes, TypeOK
  <1>a. ASSUME CallShapes', TypeOK', UNCHANGED sessions PROVE Shapes'
    BY <1>a DEF Shapes
  <1>1. CASE LoadContext(c)
    <2>1. CASE HasContext(data)
      <3> DEFINE old == calls[c]
                 verifier == IF data = Absent THEN None ELSE data.flow
                 call == [old EXCEPT !.verifier = verifier, !.step = "getClient"]
      <3>1. /\ Change(c, call) /\ UNCHANGED <<made, sessions>>
            /\ old.step = "load" /\ old.copy = Absent
        BY <1>1, <2>1 DEF LoadContext, At, provider
      <3>2. verifier \in Requests \cup {None} /\ old \in Call /\ "getClient" \in Steps
        BY <1>0 DEF Record, Steps
      <3>3. /\ call \in Call /\ call.code = old.code
            /\ call.kind = old.kind /\ call.object = old.object
            /\ call.copy = old.copy /\ call.step = "getClient"
            /\ call.grant = old.grant
        <4> HIDE DEF verifier, old
        <4> QED
          BY <3>2 DEF Call
      <3> HIDE DEF call
      <3>4. Shape(call)
        BY <1>0, <3>1, <3>3 DEF Shape, KindSteps, RefreshSteps
      <3>5. CallShapes'
        BY <1>0, <3>1, <3>3, <3>4, CallMoves
      <3> QED
        BY <1>0, <1>1, <1>a, <3>1, <3>5 DEF LoadContext, TypeOK, CallShapes, provider, history
    <2>2. CASE ~HasContext(data)
      <3>1. Throw(c) /\ UNCHANGED made
        BY <1>1, <2>2 DEF LoadContext, provider
      <3> QED
        BY <1>0, <1>1, <3>1, ThrowTypes
        DEF LoadContext, Shapes, TypeOK, CallShapes, provider, history
    <2> QED
      BY <2>1, <2>2
  <1>2. CASE Fails(c)
    <2>1. Throw(c) /\ UNCHANGED made
      BY <1>2 DEF Fails, provider
    <2> QED
      BY <1>0, <1>2, <2>1, ThrowTypes
      DEF Fails, Shapes, TypeOK, CallShapes, provider, history
  <1>3. ASSUME NEW token \in Grants \cup {None}, CodeRedeemed(c, token)
        PROVE  Shapes'
    <2> DEFINE old == calls[c]
               next == IF token = None THEN "touch" ELSE "save"
               grant == granted'
               call == [old EXCEPT !.token = token, !.grant = grant, !.step = next]
    <2>1. Grant(c, token) /\ Change(c, call) /\ old.kind = "redirect"
      BY <1>3 DEF CodeRedeemed
    <2>2. /\ next \in {"touch", "save"} /\ next \in Steps /\ grant \in Grants
          /\ grant # None /\ old \in Call
      BY <1>0, <2>1, GrantTypes DEF Steps, SetSteps, Grants, None
    <2>3. /\ call \in Call /\ call.code = old.code
          /\ call.kind = old.kind /\ call.object = old.object
          /\ call.copy = old.copy /\ call.step = next
          /\ call.grant = grant
      <3> HIDE DEF next, grant, old
      <3> QED
        BY <2>2 DEF Call
    <2> HIDE DEF call, next, grant
    <2>4. Shape(call)
      BY <1>0, <2>1, <2>2, <2>3, GrantTypes DEF At, Shape, KindSteps
    <2>a. made' = made
      BY <2>1, GrantTypes
    <2>5. CallShapes'
      BY <1>0, <2>1, <2>3, <2>4, <2>a, CallMoves
    <2>6. told' \in [Grants -> Nat]
      <3>1. \/ UNCHANGED told
            \/ token \in Grants /\ Tell(token)
        BY <1>3 DEF CodeRedeemed
      <3>2. told \in [Grants -> Nat]
        BY <1>0 DEF TypeOK
      <3> QED
        BY <3>1, <3>2, TellTypes
    <2>7. UNCHANGED <<data, sessions, closures, untold, lost, removed>>
      BY <1>3 DEF CodeRedeemed
    <2> QED
      BY <1>0, <1>a, <2>1, <2>5, <2>6, <2>7, GrantTypes DEF TypeOK, CallShapes
  <1>4. ASSUME NEW token \in Grants \cup {None}, Refreshed(c, token)
        PROVE  Shapes'
    <2>0. Grant(c, token) /\ calls[c].kind # "redirect"
      BY <1>4 DEF Refreshed
    <2>1. CallShapes'
      <3> DEFINE old == calls[c]
                 grant == IF old.kind = "fetch" THEN old.grant ELSE granted'
                 call == [old EXCEPT !.grant = grant]
                 rotated == [call EXCEPT !.token = token, !.step = "rotated"]
                 saved == [call EXCEPT !.step = "save"]
      <3>1. /\ grant \in Grants /\ grant # None /\ old \in Call
            /\ {"rotated", "save"} \subseteq Steps
        BY <1>0, <2>0, GrantTypes DEF Shape, Call, Steps, SetSteps, Grants, None
      <3>2. /\ rotated \in Call /\ rotated.code = old.code
            /\ rotated.kind = old.kind /\ rotated.object = old.object
            /\ rotated.copy = old.copy /\ rotated.step = "rotated"
            /\ rotated.grant = grant /\ rotated.token = token
            /\ saved \in Call /\ saved.code = old.code
            /\ saved.kind = old.kind /\ saved.object = old.object
            /\ saved.copy = old.copy /\ saved.step = "save"
            /\ saved.grant = grant
            /\ call.kind = old.kind
        <4> HIDE DEF grant, old
        <4> QED
          BY <3>1 DEF Call
      <3>3. \/ Change(c, rotated) /\ token # None
            \/ End(c)
            \/ Change(c, saved) /\ old.kind # "fetch"
        BY <1>4, <3>2 DEF Refreshed
      <3> HIDE DEF rotated, saved, grant
      <3>4. CASE Change(c, rotated) /\ token # None
        <4>1. Shape(rotated)
          BY <1>0, <2>0, <3>1, <3>2, <3>4, GrantTypes DEF At, Shape, KindSteps, SetSteps, RefreshSteps
        <4> QED
          BY <1>0, <2>0, <3>2, <3>4, <4>1, GrantTypes, CallMoves
      <3>5. CASE End(c)
        BY <2>0, <3>5, GrantTypes, CallEnds
      <3>6. CASE Change(c, saved) /\ old.kind # "fetch"
        <4>1. Shape(saved)
          BY <1>0, <2>0, <3>1, <3>2, <3>6, GrantTypes DEF At, Shape, KindSteps, SetSteps, RefreshSteps
        <4> QED
          BY <1>0, <2>0, <3>2, <3>6, <4>1, GrantTypes, CallMoves
      <3> QED
        BY <3>3, <3>4, <3>5, <3>6
    <2>2. UNCHANGED <<data, sessions, closures, told, untold, lost, removed>>
      BY <1>4 DEF Refreshed
    <2> QED
      BY <1>0, <1>a, <2>0, <2>1, <2>2, GrantTypes DEF TypeOK, CallShapes
  <1>5. ASSUME NEW token \in Grants \cup {None}, AnswerLost(c, token)
        PROVE  Shapes'
    <2>1. Grant(c, token) /\ Throw(c) /\ UNCHANGED <<data, closures, told, untold, removed>>
      BY <1>5 DEF AnswerLost
    <2>2. lost' \in BOOLEAN
      BY <1>5 DEF AnswerLost
    <2> QED
      BY <1>0, <2>1, <2>2, GrantTypes, ThrowTypes DEF Shapes, TypeOK, CallShapes
  <1> QED
    BY <1>1, <1>2, <1>3, <1>4, <1>5

\* What an object that gets a fetch, and the fetch, are.
LEMMA UseFetchTypes ==
  ASSUME Shapes, NEW c \in Calls, calls[c].kind # "none", calls[c].grant # None,
         NEW isLoggedIn \in BOOLEAN, UseFetch(calls[c], isLoggedIn)
  PROVE  /\ sessions' \in [Objects -> Session]
         /\ \A o \in Objects : sessions'[o].isLoggedIn => sessions'[o].fetch # None
         /\ closures' \in [Grants -> Grants \cup {None}]
         /\ holder' \in Objects
         /\ calls[c].object \in Objects /\ calls[c].grant \in Grants
         /\ closures' = [closures EXCEPT ![calls[c].grant] = calls[c].token]
         /\ sessions'[calls[c].object].isLoggedIn = isLoggedIn
         /\ sessions'[calls[c].object].fetch = calls[c].grant
         /\ sessions'[calls[c].object].inProgress =
              (sessions[calls[c].object].inProgress /\ calls[c].kind # "redirect")
         /\ \A o \in Objects : o # calls[c].object => sessions'[o] = sessions[o]
  <1> DEFINE call == calls[c]
             o == call.object
             session == [isLoggedIn |-> isLoggedIn, fetch |-> call.grant, bound |-> TRUE,
                         inProgress |-> sessions[o].inProgress /\ call.kind # "redirect"]
  <1>1. /\ call \in Call /\ o \in Objects
        /\ sessions \in [Objects -> Session]
        /\ closures \in [Grants -> Grants \cup {None}]
        /\ \A p \in Objects : sessions[p].isLoggedIn => sessions[p].fetch # None
    BY DEF Shapes, CallShapes, TypeOK, Shape
  <1>2. /\ call.grant \in Grants /\ call.token \in Grants \cup {None}
    BY <1>1 DEF Call
  <1>3. /\ sessions' = [sessions EXCEPT ![o] = session]
        /\ closures' = [closures EXCEPT ![call.grant] = call.token]
        /\ holder' = o
    BY DEF UseFetch, Hold
  <1>4. session \in Session
    BY <1>1, <1>2 DEF Session
  <1>5. /\ session.isLoggedIn = isLoggedIn /\ session.fetch = call.grant
        /\ session.inProgress = (sessions[o].inProgress /\ call.kind # "redirect")
    OBVIOUS
  <1> HIDE DEF session
  <1>6. /\ sessions' \in [Objects -> Session] /\ sessions'[o] = session
        /\ \A p \in Objects : p # o => sessions'[p] = sessions[p]
    BY <1>1, <1>3, <1>4
  <1>7. closures' \in [Grants -> Grants \cup {None}]
    BY <1>1, <1>2, <1>3
  <1> QED
    BY <1>1, <1>2, <1>3, <1>5, <1>6, <1>7

\* The ends of the calls, and what a fetch does.
LEMMA EndShapes ==
  ASSUME Shapes, NEW c \in Calls,
         \/ StoreRotated(c) \/ TellRotated(c) \/ FinishLogin(c) \/ FinishRedirect(c)
         \/ FetchReturns(c) \/ FetchRefused(c)
         \/ DeleteRecord(c) \/ FinishLogout(c)
  PROVE  Shapes'
  <1>0. /\ made \in Nat /\ made \in 0..MaxRequests /\ TypeOK
        /\ calls[c] \in Call /\ Shape(calls[c]) /\ calls[c].code <= made
        /\ data \in Record \cup {Absent}
        /\ sessions \in [Objects -> Session]
        /\ told \in [Grants -> Nat]
        /\ closures \in [Grants -> Grants \cup {None}]
        /\ \A o \in Objects : sessions[o].isLoggedIn => sessions[o].fetch # None
    BY NodeAssumption DEF Shapes, CallShapes, TypeOK
  <1>a. ASSUME CallShapes', TypeOK', UNCHANGED sessions PROVE Shapes'
    BY <1>a DEF Shapes
  <1>1. CASE StoreRotated(c)
    <2> DEFINE old == calls[c]
               call == [old EXCEPT !.copy = Absent, !.step = "tell"]
    <2>1. /\ old.step = "rotated" /\ Written(c) /\ Change(c, call)
          /\ UNCHANGED <<sessions, closures, provider, history>>
      BY <1>1 DEF StoreRotated
    <2>2. old.kind \in {"login", "restore", "fetch"}
      BY <1>0, <2>1 DEF Call, Kinds, Shape, KindSteps
    <2>3. data' \in Record
      BY <1>0, <2>1, UpdateType DEF Written, SetSteps
    <2>4. /\ call \in Call /\ call.code = old.code
          /\ call.kind = old.kind /\ call.object = old.object
          /\ call.copy = Absent /\ call.step = "tell"
          /\ call.grant = old.grant /\ call.token = old.token
      <3>1. old \in Call /\ "tell" \in Steps
        BY <1>0 DEF Steps
      <3> HIDE DEF old
      <3> QED
        BY <3>1 DEF Call
    <2> HIDE DEF call
    <2>5. Shape(call)
      BY <1>0, <2>1, <2>2, <2>4 DEF Shape, KindSteps, RefreshSteps
    <2>6. CallShapes'
      BY <1>0, <2>1, <2>4, <2>5, CallMoves DEF provider
    <2> QED
      BY <1>0, <1>a, <2>1, <2>3, <2>6 DEF TypeOK, CallShapes, provider, history
  <1>8. CASE TellRotated(c)
    <2> DEFINE old == calls[c]
               call == [old EXCEPT !.step = "save"]
    <2>1. /\ old.step = "tell" /\ old.copy = Absent /\ Tell(old.token)
          /\ IF old.kind = "fetch"
               THEN Hold(old) /\ holder' = old.object /\ End(c)
               ELSE Change(c, call) /\ UNCHANGED <<closures, holder>>
          /\ UNCHANGED <<data, sessions, made, granted, codes, live, untold, lost, removed>>
      BY <1>8 DEF TellRotated, At, Goto, provider
    <2>2. /\ old.token \in Grants /\ old.grant \in Grants /\ old.object \in Objects
          /\ old.kind \in {"login", "restore", "fetch"}
      BY <1>0, <2>1 DEF Call, Kinds, Shape, KindSteps
    <2>4. told' \in [Grants -> Nat]
      BY <1>0, <2>1, <2>2, TellTypes
    <2>5. CASE old.kind = "fetch"
      <3>1. CallShapes'
        BY <2>1, <2>5, CallEnds
      <3>2. closures' \in [Grants -> Grants \cup {None}]
        BY <1>0, <2>1, <2>2, <2>5 DEF Hold
      <3> QED
        BY <1>0, <1>a, <2>1, <2>2, <2>4, <2>5, <3>1, <3>2 DEF TypeOK, CallShapes
    <2>6. CASE old.kind # "fetch"
      <3>1. /\ call \in Call /\ call.code = old.code
            /\ call.kind = old.kind /\ call.object = old.object
            /\ call.copy = old.copy /\ call.step = "save"
            /\ call.grant = old.grant
        <4>1. old \in Call /\ "save" \in Steps
          BY <1>0 DEF Steps, SetSteps
        <4> HIDE DEF old
        <4> QED
          BY <4>1 DEF Call
      <3>2. Change(c, call)
        BY <2>1, <2>6
      <3> HIDE DEF call
      <3>3. Shape(call)
        BY <1>0, <2>1, <2>2, <2>6, <3>1 DEF Shape, KindSteps, RefreshSteps
      <3>4. CallShapes'
        BY <1>0, <2>1, <3>1, <3>2, <3>3, CallMoves
      <3> QED
        BY <1>0, <1>a, <2>1, <2>2, <2>4, <2>6, <3>4 DEF TypeOK, CallShapes
    <2> QED
      BY <2>5, <2>6
  <1>2. CASE FinishLogin(c)
    <2>1. /\ calls[c].step = "finish" /\ Written(c) /\ UseFetch(calls[c], TRUE) /\ End(c)
          /\ UNCHANGED <<made, granted, codes, live, told, untold, lost, removed>>
      BY <1>2 DEF FinishLogin, provider
    <2>2. calls[c].kind # "none" /\ calls[c].grant # None
      BY <1>0, <2>1 DEF Shape, KindSteps
    <2>3. data' \in Record
      BY <1>0, <2>1, UpdateType DEF Written, SetSteps
    <2>4. CallShapes'
      BY <2>1, CallEnds
    <2>5. /\ sessions' \in [Objects -> Session]
          /\ \A o \in Objects : sessions'[o].isLoggedIn => sessions'[o].fetch # None
          /\ closures' \in [Grants -> Grants \cup {None}]
          /\ holder' \in Objects
      BY <2>1, <2>2, UseFetchTypes
    <2> QED
      BY <1>0, <2>1, <2>3, <2>4, <2>5 DEF Shapes, TypeOK, CallShapes
  <1>3. CASE FinishRedirect(c)
    <2>1. At(c, "get") /\ UNCHANGED <<data, made, granted, codes, live, told, untold, lost, removed>>
      BY <1>3 DEF FinishRedirect, provider
    <2>2. calls[c].kind # "none" /\ calls[c].grant # None
      BY <1>0, <2>1 DEF At, Shape, KindSteps
    <2>3. CASE HasContext(data)
      <3>1. UseFetch(calls[c], data.isLoggedIn) /\ End(c) /\ data.isLoggedIn \in BOOLEAN
        BY <1>0, <1>3, <2>3 DEF FinishRedirect, HasContext, Record
      <3>2. CallShapes'
        BY <2>1, <3>1, CallEnds
      <3>3. /\ sessions' \in [Objects -> Session]
            /\ \A o \in Objects : sessions'[o].isLoggedIn => sessions'[o].fetch # None
            /\ closures' \in [Grants -> Grants \cup {None}]
            /\ holder' \in Objects
        BY <2>2, <3>1, UseFetchTypes
      <3> QED
        BY <1>0, <2>1, <3>2, <3>3 DEF Shapes, TypeOK, CallShapes
    <2>4. CASE ~HasContext(data)
      <3>1. Throw(c) /\ UNCHANGED <<closures, holder>>
        BY <1>3, <2>4 DEF FinishRedirect
      <3> QED
        BY <1>0, <2>1, <3>1, ThrowTypes DEF Shapes, TypeOK, CallShapes
    <2> QED
      BY <2>3, <2>4
  <1>4. CASE FetchReturns(c)
    <2>1. CallShapes'
      BY <1>4, CallEnds DEF FetchReturns, provider
    <2> QED
      BY <1>0, <1>4, <1>a, <2>1 DEF FetchReturns, TypeOK, CallShapes, provider, history
  <1>5. CASE FetchRefused(c)
    <2> DEFINE old == calls[c]
               token == closures[old.grant]
               call == [old EXCEPT !.token = token, !.step = "load"]
    <2>1. /\ At(c, "send") /\ Change(c, call)
          /\ UNCHANGED <<data, sessions, closures, provider, history>>
      BY <1>5 DEF FetchRefused
    <2>2. old.kind = "fetch" /\ old.grant \in Grants /\ old.copy = Absent
      BY <1>0, <2>1 DEF At, Call, Kinds, Shape, KindSteps, RefreshSteps
    <2>3. token \in Grants \cup {None} /\ old \in Call /\ "load" \in Steps
      BY <1>0, <2>2 DEF Steps
    <2>4. /\ call \in Call /\ call.code = old.code
          /\ call.kind = old.kind /\ call.object = old.object
          /\ call.copy = old.copy /\ call.step = "load"
          /\ call.grant = old.grant
      <3> HIDE DEF old, token
      <3> QED
        BY <2>3 DEF Call
    <2> HIDE DEF call
    <2>5. Shape(call)
      BY <1>0, <2>2, <2>4 DEF Shape, KindSteps
    <2>6. CallShapes'
      BY <1>0, <2>1, <2>4, <2>5, CallMoves DEF provider
    <2> QED
      BY <1>0, <1>a, <2>1, <2>6 DEF TypeOK, CallShapes, provider, history
  <1>6. CASE DeleteRecord(c)
    <2> DEFINE old == calls[c]
               call == [old EXCEPT !.step = "reset"]
    <2>1. /\ At(c, "delete") /\ Change(c, call) /\ data' = Absent
          /\ UNCHANGED <<sessions, closures, provider, history>>
      BY <1>6 DEF DeleteRecord, Goto
    <2>2. old.kind = "logout" /\ old.copy = Absent
      BY <1>0, <2>1 DEF At, Call, Kinds, Shape, KindSteps, RefreshSteps
    <2>3. /\ call \in Call /\ call.code = old.code
          /\ call.kind = old.kind /\ call.object = old.object
          /\ call.copy = old.copy /\ call.step = "reset"
      <3>1. old \in Call /\ "reset" \in Steps
        BY <1>0 DEF Steps
      <3> HIDE DEF old
      <3> QED
        BY <3>1 DEF Call
    <2> HIDE DEF call
    <2>4. Shape(call)
      BY <1>0, <2>2, <2>3 DEF Shape, KindSteps
    <2>5. CallShapes'
      BY <1>0, <2>1, <2>3, <2>4, CallMoves DEF provider
    <2> QED
      BY <1>0, <1>a, <2>1, <2>5 DEF TypeOK, CallShapes, provider, history
  <1>7. CASE FinishLogout(c)
    <2>1. CallShapes'
      BY <1>7, CallEnds DEF FinishLogout, provider
    <2>2. /\ sessions' \in [Objects -> Session]
          /\ \A o \in Objects : sessions'[o].isLoggedIn => sessions'[o].fetch # None
      BY <1>0, <1>7 DEF FinishLogout, Session, None
    <2>3. removed' \in BOOLEAN
      BY <1>7 DEF FinishLogout
    <2> QED
      BY <1>0, <1>7, <2>1, <2>2, <2>3 DEF FinishLogout, Shapes, TypeOK, CallShapes, provider
  <1> QED
    BY <1>1, <1>2, <1>3, <1>4, <1>5, <1>6, <1>7, <1>8

LEMMA InitShapes == Init => Shapes
  <1> SUFFICES ASSUME Init PROVE Shapes
    OBVIOUS
  <1>1. CallShapes
    BY Constants DEF Init, CallShapes
  <1>2. ~NewSession.isLoggedIn /\ NewSession \in Session
    BY Constants DEF NewSession
  <1>3. TypeOK
    <2>1. /\ data = Absent /\ holder = 0 /\ lost = FALSE /\ removed = FALSE /\ untold = {}
          /\ sessions \in [Objects -> Session]
      BY <1>2 DEF Init, None
    <2>2. /\ closures \in [Grants -> Grants \cup {0}] /\ told \in [Grants -> Nat]
      BY DEF Init, None
    <2>3. /\ made \in 0..MaxRequests /\ granted \in 0..MaxGrants
          /\ codes \subseteq 1..made /\ live \subseteq 1..granted
      BY NodeAssumption DEF Init
    <2> QED
      BY <1>1, <2>1, <2>2, <2>3 DEF CallShapes, TypeOK, None
  <1> QED
    BY <1>1, <1>2, <1>3 DEF Init, Shapes

LEMMA NextShapes == Shapes /\ [Next]_vars => Shapes'
  <1> SUFFICES ASSUME Shapes, [Next]_vars PROVE Shapes'
    OBVIOUS
  <1>1. CASE Application
    BY <1>1, ApplicationShapes
  <1>2. CASE Crash
    <2>1. /\ sessions' = [o \in Objects |-> NewSession] /\ closures' = [g \in Grants |-> None]
          /\ calls' = [c \in Calls |-> NoCall] /\ lost' \in BOOLEAN
          /\ UNCHANGED <<data, made, granted, codes, live, told, holder, removed>>
      BY <1>2 DEF Crash, provider
    <2>2. ~NewSession.isLoggedIn /\ made \in Nat
      BY NodeAssumption DEF NewSession, Shapes, TypeOK
    <2>3. untold' \subseteq Grants
      <3>1. \A c \in Calls : calls[c].step = "tell" => calls[c].token \in Grants
        BY DEF Shapes, CallShapes, Shape, Call
      <3> QED
        BY <1>2, <3>1 DEF Crash, Shapes, TypeOK
    <2> QED
      BY <2>1, <2>2, <2>3, Constants DEF Shapes, CallShapes, TypeOK, None, Shape, KindSteps
  <1>3. ASSUME NEW c \in Calls, Continue(c)
        PROVE  Shapes'
    BY <1>3, StorageShapes, TokenShapes, EndShapes DEF Continue
  <1>4. CASE UNCHANGED vars
    BY <1>4 DEF Shapes, CallShapes, TypeOK, vars, provider, history, Shape, KindSteps
  <1> QED
    BY <1>1, <1>2, <1>3, <1>4 DEF Next

\* Every step keeps the shape of the state: a call that writes has read a
\* record, one that gets tokens has a fetch to put them in.
THEOREM TypeCorrect == Spec => []TypeOK
  <1>1. Shapes => TypeOK
    BY DEF Shapes
  <1> QED
    BY <1>1, InitShapes, NextShapes, PTL DEF Spec

-----------------------------------------------------------------------------
(* What each step does, field by field: the facts the invariants need.     *)

Others(c) == \A d \in Calls : d # c => calls'[d] = calls[d]
\* The call of c begins, is still the same one, or is over.
Begins(c, kind, o, step) ==
  /\ calls[c] = NoCall
  /\ \A d \in Running(Kinds) : {calls[d].kind, kind} \in Concurrent
  /\ calls'[c].kind = kind /\ calls'[c].object = o /\ calls'[c].step = step
  /\ calls'[c].copy = Absent
  /\ Others(c)
Keeps(c) ==
  /\ calls'[c].kind = calls[c].kind /\ calls'[c].object = calls[c].object
  /\ Others(c)
Ends(c) == calls'[c] = NoCall /\ Others(c)

\* The objects keep all but what the call of c says about a redirect of its
\* own.
RedirectOver(c) ==
  /\ sessions' \in [Objects -> Session]
  /\ \A o \in Objects :
       /\ sessions'[o].isLoggedIn = sessions[o].isLoggedIn
       /\ sessions'[o].fetch = sessions[o].fetch
       /\ sessions'[o].inProgress =
            (sessions[o].inProgress /\ ~(calls[c].kind = "redirect" /\ calls[c].object = o))

LEMMA BeginsEffect ==
  ASSUME Shapes, NEW c \in Calls, NEW kind \in Kinds, NEW o \in Objects, NEW step \in Steps,
         NEW call \in Call, call.kind = kind, call.object = o, call.step = step,
         call.copy = Absent, Begin(c, call)
  PROVE  Begins(c, kind, o, step) /\ calls'[c] = call
  BY DEF Shapes, CallShapes, Begin, Begins, Others

LEMMA EndsEffect ==
  ASSUME Shapes, NEW c \in Calls, End(c)
  PROVE  Ends(c)
  BY Constants, CallChanges DEF Shapes, CallShapes, End, Ends, Others

LEMMA ThrowEffect ==
  ASSUME Shapes, NEW c \in Calls, Throw(c), calls[c].kind # "none"
  PROVE  Ends(c) /\ RedirectOver(c)
  <1>1. Ends(c)
    BY EndsEffect DEF Throw
  <1>2. sessions \in [Objects -> Session] /\ calls[c].object \in Objects
    BY DEF Shapes, CallShapes, TypeOK, Shape
  <1>3. RedirectOver(c)
    <2>1. CASE calls[c].kind = "redirect"
      <3>1. sessions' = [sessions EXCEPT ![calls[c].object].inProgress = FALSE]
        BY <2>1 DEF Throw
      <3> QED
        BY <1>2, <2>1, <3>1 DEF RedirectOver, Session
    <2>2. CASE calls[c].kind # "redirect"
      BY <1>2, <2>2 DEF RedirectOver, Throw, Session
    <2> QED
      BY <2>1, <2>2
  <1> QED
    BY <1>1, <1>3

LEMMA BeginEffects ==
  ASSUME Shapes, NEW c \in Calls, NEW o \in Objects
  PROVE  /\ \A token \in Grants \cup {None} : Login(c, o, token) =>
              /\ Begins(c, "login", o, "client") /\ calls'[c].token = token
              /\ token = None \/ (token \in Grants /\ told[token] > 0)
              /\ removed' = FALSE
              /\ UNCHANGED <<data, sessions, closures, provider, told, untold, holder, lost>>
         /\ \A code \in 1..made : HandleCode(c, o, code) =>
              /\ Begins(c, "redirect", o, "load") /\ calls'[c].token = None
              /\ ~sessions[o].isLoggedIn /\ ~sessions[o].inProgress
              /\ sessions' = [sessions EXCEPT ![o].inProgress = TRUE]
              /\ UNCHANGED <<data, closures, provider, history>>
         /\ Fetch(c, o) =>
              /\ Begins(c, "fetch", o, "send") /\ calls'[c].token = None
              /\ calls'[c].grant = sessions[o].fetch
              /\ sessions[o].isLoggedIn
              /\ UNCHANGED <<data, sessions, closures, provider, history>>
         /\ Logout(c, o) =>
              /\ Begins(c, "logout", o, "delete") /\ calls'[c].token = None
              /\ UNCHANGED <<data, sessions, closures, provider, history>>
         /\ Restore(c, o) =>
              /\ \A d \in Running(Kinds) : calls[d].object # o
              /\ sessions' = [sessions EXCEPT ![o] = NewSession]
              /\ HasContext(data)
              /\ \/ UNCHANGED <<calls, removed>>
                 \/ /\ Begins(c, "restore", o, "identify") /\ calls'[c].token = None
                    /\ removed' = FALSE
              /\ UNCHANGED <<data, closures, provider, told, untold, holder, lost>>
  <1>0. /\ sessions[o].fetch \in Grants \cup {None} /\ None = 0
        /\ 1..made \subseteq Requests
    BY NodeAssumption DEF Shapes, TypeOK, Session, None, Requests
  <1>1. ASSUME NEW token \in Grants \cup {None}, Login(c, o, token)
        PROVE  /\ Begins(c, "login", o, "client") /\ calls'[c].token = token
               /\ token = None \/ (token \in Grants /\ told[token] > 0)
               /\ removed' = FALSE
               /\ UNCHANGED <<data, sessions, closures, provider, told, untold, holder, lost>>
    <2> DEFINE call == [CallOf("login", o, "client") EXCEPT !.token = token]
    <2>1. /\ call \in Call /\ call.kind = "login" /\ call.object = o /\ call.step = "client"
          /\ call.copy = Absent /\ call.token = token
      BY <1>0 DEF CallOf, NoCall, Call, Kinds, Steps, SetSteps
    <2>2. Begin(c, call) /\ "login" \in Kinds /\ "client" \in Steps
      BY <1>1 DEF Login, Kinds, Steps, SetSteps
    <2> HIDE DEF call
    <2>3. Begins(c, "login", o, "client") /\ calls'[c] = call
      BY <2>1, <2>2, BeginsEffect
    <2> QED
      BY <1>1, <2>1, <2>3 DEF Login
  <1>2. ASSUME NEW code \in 1..made, HandleCode(c, o, code)
        PROVE  /\ Begins(c, "redirect", o, "load") /\ calls'[c].token = None
               /\ ~sessions[o].isLoggedIn /\ ~sessions[o].inProgress
               /\ sessions' = [sessions EXCEPT ![o].inProgress = TRUE]
               /\ UNCHANGED <<data, closures, provider, history>>
    <2> DEFINE call == [CallOf("redirect", o, "load") EXCEPT !.code = code]
    <2>1. /\ call \in Call /\ call.kind = "redirect" /\ call.object = o /\ call.step = "load"
          /\ call.copy = Absent /\ call.token = None
      BY <1>0 DEF CallOf, NoCall, Call, Kinds, Steps
    <2>2. Begin(c, call) /\ "redirect" \in Kinds /\ "load" \in Steps
      BY <1>2 DEF HandleCode, Kinds, Steps
    <2> HIDE DEF call
    <2>3. Begins(c, "redirect", o, "load") /\ calls'[c] = call
      BY <2>1, <2>2, BeginsEffect
    <2> QED
      BY <1>2, <2>1, <2>3 DEF HandleCode, MayHandleRedirect
  <1>3. ASSUME Fetch(c, o)
        PROVE  /\ Begins(c, "fetch", o, "send") /\ calls'[c].token = None
               /\ calls'[c].grant = sessions[o].fetch
               /\ sessions[o].isLoggedIn
               /\ UNCHANGED <<data, sessions, closures, provider, history>>
    <2> DEFINE fetch == sessions[o].fetch
               call == [CallOf("fetch", o, "send") EXCEPT !.grant = fetch]
    <2>1. /\ call \in Call /\ call.kind = "fetch" /\ call.object = o /\ call.step = "send"
          /\ call.copy = Absent /\ call.token = None /\ call.grant = fetch
      <3> HIDE DEF fetch
      <3> QED
        BY <1>0 DEF CallOf, NoCall, Call, Kinds, Steps, fetch
    <2>2. Begin(c, call) /\ "fetch" \in Kinds /\ "send" \in Steps
      BY <1>3 DEF Fetch, Kinds, Steps
    <2> HIDE DEF call
    <2>3. Begins(c, "fetch", o, "send") /\ calls'[c] = call
      BY <2>1, <2>2, BeginsEffect
    <2> QED
      BY <1>3, <2>1, <2>3 DEF Fetch
  <1>4. ASSUME Logout(c, o)
        PROVE  /\ Begins(c, "logout", o, "delete") /\ calls'[c].token = None
               /\ UNCHANGED <<data, sessions, closures, provider, history>>
    <2> DEFINE call == CallOf("logout", o, "delete")
    <2>1. /\ call \in Call /\ call.kind = "logout" /\ call.object = o /\ call.step = "delete"
          /\ call.copy = Absent /\ call.token = None
      BY <1>0 DEF CallOf, NoCall, Call, Kinds, Steps
    <2>2. Begin(c, call) /\ "logout" \in Kinds /\ "delete" \in Steps
      BY <1>4 DEF Logout, Kinds, Steps
    <2> HIDE DEF call
    <2>3. Begins(c, "logout", o, "delete") /\ calls'[c] = call
      BY <2>1, <2>2, BeginsEffect
    <2> QED
      BY <1>4, <2>1, <2>3 DEF Logout
  <1>5. ASSUME Restore(c, o)
        PROVE  /\ \A d \in Running(Kinds) : calls[d].object # o
               /\ sessions' = [sessions EXCEPT ![o] = NewSession]
               /\ HasContext(data)
               /\ \/ UNCHANGED <<calls, removed>>
                  \/ /\ Begins(c, "restore", o, "identify") /\ calls'[c].token = None
                     /\ removed' = FALSE
               /\ UNCHANGED <<data, closures, provider, told, untold, holder, lost>>
    <2> DEFINE call == CallOf("restore", o, "identify")
    <2>1. /\ call \in Call /\ call.kind = "restore" /\ call.object = o /\ call.step = "identify"
          /\ call.copy = Absent /\ call.token = None
      BY <1>0 DEF CallOf, NoCall, Call, Kinds, Steps
    <2>2. \/ UNCHANGED <<calls, removed>>
          \/ Begin(c, call) /\ removed' = FALSE
      BY <1>5 DEF Restore
    <2>3. "restore" \in Kinds /\ "identify" \in Steps
      BY DEF Kinds, Steps
    <2> HIDE DEF call
    <2>4. Begin(c, call) => Begins(c, "restore", o, "identify") /\ calls'[c] = call
      BY <2>1, <2>3, BeginsEffect
    <2> QED
      BY <1>5, <2>1, <2>2, <2>4 DEF Restore, HasContext
  <1> QED
    BY <1>1, <1>2, <1>3, <1>4, <1>5

\* Nothing but the call itself changes.
OnlyCalls == UNCHANGED <<data, sessions, closures, provider, history>>

LEMMA ReadRecordEffect ==
  ASSUME Shapes, NEW c \in Calls, ReadRecord(c)
  PROVE  /\ Keeps(c) /\ OnlyCalls
         /\ calls[c].step \in SetSteps /\ calls'[c].step = calls[c].step
         /\ calls'[c].copy = IF data = Absent THEN EmptyRecord ELSE data
         /\ calls'[c].token = calls[c].token /\ calls'[c].client = calls[c].client
         /\ calls'[c].grant = calls[c].grant
  <1> DEFINE old == calls[c]
             copy == IF data = Absent THEN EmptyRecord ELSE data
             call == [old EXCEPT !.copy = copy]
  <1>1. /\ calls \in [Calls -> Call] /\ old \in Call /\ copy \in Record \cup {Absent}
    BY Constants DEF Shapes, CallShapes, TypeOK
  <1>2. /\ Change(c, call) /\ old.step \in SetSteps /\ OnlyCalls
    BY DEF ReadRecord, OnlyCalls
  <1>3. /\ call \in Call /\ call.kind = old.kind /\ call.object = old.object
        /\ call.step = old.step /\ call.copy = copy /\ call.token = old.token
        /\ call.client = old.client /\ call.grant = old.grant
    <2> HIDE DEF old, copy
    <2> QED
      BY <1>1 DEF Call
  <1> HIDE DEF call
  <1> QED
    BY <1>1, <1>2, <1>3, CallChanges DEF Keeps, Others

LEMMA WriteRecordEffect ==
  ASSUME Shapes, NEW c \in Calls, WriteRecord(c)
  PROVE  /\ Keeps(c)
         /\ calls[c].step \in {"client", "register", "context", "save", "touch"}
         /\ calls[c].copy # Absent /\ data' = Update(calls[c])
         /\ calls'[c].step = Following(calls[c])
         /\ calls'[c].copy = Absent
         /\ calls'[c].token = calls[c].token /\ calls'[c].grant = calls[c].grant
         /\ calls'[c].client = IF calls[c].step = "register" THEN "other" ELSE calls[c].client
         /\ UNCHANGED <<sessions, closures, provider, history>>
  <1> DEFINE old == calls[c]
             next == Following(old)
             client == IF old.step = "register" THEN "other" ELSE old.client
             call == [old EXCEPT !.copy = Absent, !.step = next, !.client = client]
  <1>1. /\ calls \in [Calls -> Call] /\ old \in Call
    BY DEF Shapes, CallShapes
  <1>2. /\ Change(c, call) /\ old.copy # Absent /\ data' = Update(old)
        /\ old.step \in {"client", "register", "context", "save", "touch"}
        /\ UNCHANGED <<sessions, closures, provider, history>>
    BY DEF WriteRecord, Written
  <1>3. next \in Steps /\ client \in {"none", "own", "other"}
    BY <1>1, <1>2 DEF Following, Steps, SetSteps, Call
  <1>4. /\ call \in Call /\ call.kind = old.kind /\ call.object = old.object
        /\ call.step = next /\ call.copy = Absent /\ call.token = old.token
        /\ call.client = client /\ call.grant = old.grant
    <2> HIDE DEF old, next, client
    <2> QED
      BY <1>1, <1>3 DEF Call
  <1> HIDE DEF call
  <1> QED
    BY <1>1, <1>2, <1>4, CallChanges DEF Keeps, Others

LEMMA GetClientEffect ==
  ASSUME Shapes, NEW c \in Calls, GetClient(c)
  PROVE  /\ Keeps(c) /\ OnlyCalls
         /\ calls[c].copy = Absent /\ calls[c].step \in {"identify", "getClient"}
         /\ calls'[c].copy = Absent
         /\ calls'[c].token = calls[c].token /\ calls'[c].grant = calls[c].grant
         /\ \/ /\ data # Absent /\ data.client # "none" /\ calls'[c].client = data.client
               /\ calls'[c].step = IF calls[c].step = "identify" THEN "stored" ELSE "token"
            \/ /\ ~(data # Absent /\ data.client # "none")
               /\ calls'[c].client = calls[c].client /\ calls'[c].step = "register"
  <1> DEFINE old == calls[c]
             found == data # Absent /\ data.client # "none"
             next == IF old.step = "identify" THEN "stored" ELSE "token"
             client == data.client
             call == [old EXCEPT !.client = client, !.step = next]
             register == [old EXCEPT !.step = "register"]
  <1>1. /\ calls \in [Calls -> Call] /\ old \in Call /\ data \in Record \cup {Absent}
    BY DEF Shapes, CallShapes, TypeOK
  <1>2. /\ old.copy = Absent /\ old.step \in {"identify", "getClient"} /\ OnlyCalls
        /\ IF found THEN Change(c, call) ELSE Change(c, register)
    BY DEF GetClient, At, OnlyCalls, Goto
  <1>3. /\ {next, "register"} \subseteq Steps
        /\ found => client \in {"none", "own", "other"}
    BY <1>1 DEF Steps, SetSteps, Record
  <1>4. CASE found
    <2>1. /\ call \in Call /\ call.kind = old.kind /\ call.object = old.object
          /\ call.step = next /\ call.copy = old.copy /\ call.token = old.token
          /\ call.client = client /\ call.grant = old.grant
      <3>1. client \in {"none", "own", "other"}
        BY <1>3, <1>4
      <3> HIDE DEF old, next, client
      <3> QED
        BY <1>1, <1>3, <3>1 DEF Call
    <2> HIDE DEF call
    <2> QED
      BY <1>1, <1>2, <1>4, <2>1, CallChanges DEF Keeps, Others
  <1>5. CASE ~found
    <2>1. /\ register \in Call /\ register.kind = old.kind /\ register.object = old.object
          /\ register.step = "register" /\ register.copy = old.copy
          /\ register.token = old.token
          /\ register.client = old.client /\ register.grant = old.grant
      <3> HIDE DEF old
      <3> QED
        BY <1>1, <1>3 DEF Call
    <2> HIDE DEF register
    <2> QED
      BY <1>1, <1>2, <1>5, <2>1, CallChanges DEF Keeps, Others
  <1> QED
    BY <1>4, <1>5

LEMMA ChooseEffect ==
  ASSUME Shapes, NEW c \in Calls, Choose(c)
  PROVE  LET stored == IF data = Absent THEN None ELSE data.token
             token == IF calls[c].token # None THEN calls[c].token ELSE stored
         IN
         /\ Keeps(c)
         /\ calls[c].copy = Absent /\ calls[c].step = "stored"
         /\ calls[c].kind \in {"login", "restore"}
         /\ calls'[c].copy = Absent /\ calls'[c].grant = calls[c].grant
         /\ \/ /\ token # None /\ calls'[c].token = token
               /\ calls'[c].client = IF calls[c].kind = "login" THEN "own" ELSE calls[c].client
               /\ calls'[c].step = "context"
            \/ /\ token = None /\ calls'[c].token = calls[c].token
               /\ calls'[c].client = calls[c].client
               /\ calls'[c].step = "request"
         /\ UNCHANGED <<data, sessions, closures, granted, codes, live, history>>
  <1> DEFINE old == calls[c]
             stored == IF data = Absent THEN None ELSE data.token
             token == IF old.token # None THEN old.token ELSE stored
             client == IF old.kind = "login" THEN "own" ELSE old.client
             refresh == [old EXCEPT !.token = token, !.client = client, !.step = "context"]
             code == made'
             ask == [old EXCEPT !.code = code, !.step = "request"]
  <1>1. /\ calls \in [Calls -> Call] /\ old \in Call /\ data \in Record \cup {Absent}
        /\ Shape(old) /\ made \in Nat /\ MaxRequests \in Nat
        /\ {"context", "request"} \subseteq Steps
    BY NodeAssumption DEF Shapes, CallShapes, TypeOK, Steps, SetSteps
  <1>2. /\ old.copy = Absent /\ old.step = "stored"
        /\ UNCHANGED <<data, sessions, closures, granted, codes, live, history>>
        /\ \/ token # None /\ Change(c, refresh)
           \/ token = None /\ made < MaxRequests /\ made' = made + 1 /\ Change(c, ask)
    BY DEF Choose, At
  <1>3. old.kind \in {"login", "restore"}
    BY <1>1, <1>2 DEF Call, Kinds, Shape, KindSteps, RefreshSteps
  <1>4. token \in Grants \cup {None} /\ client \in {"none", "own", "other"}
    BY <1>1 DEF Call, Record
  <1>5. CASE token # None /\ Change(c, refresh)
    <2>1. /\ refresh \in Call /\ refresh.kind = old.kind /\ refresh.object = old.object
          /\ refresh.step = "context" /\ refresh.copy = old.copy /\ refresh.token = token
          /\ refresh.client = client /\ refresh.grant = old.grant
      <3> HIDE DEF old, token, client
      <3> QED
        BY <1>1, <1>4 DEF Call
    <2> HIDE DEF refresh
    <2> QED
      BY <1>1, <1>2, <1>3, <1>5, <2>1, CallChanges DEF Keeps, Others
  <1>6. CASE token = None /\ made < MaxRequests /\ made' = made + 1 /\ Change(c, ask)
    <2>1. code \in Requests
      BY <1>1, <1>6 DEF Requests
    <2>2. /\ ask \in Call /\ ask.kind = old.kind /\ ask.object = old.object
          /\ ask.step = "request" /\ ask.copy = old.copy /\ ask.token = old.token
          /\ ask.client = old.client /\ ask.grant = old.grant
      <3> HIDE DEF old, code
      <3> QED
        BY <1>1, <2>1 DEF Call
    <2> HIDE DEF ask
    <2> QED
      BY <1>1, <1>2, <1>3, <1>6, <2>2, CallChanges DEF Keeps, Others
  <1> QED
    BY <1>2, <1>5, <1>6

LEMMA SendUserEffect ==
  ASSUME Shapes, NEW c \in Calls, SendUser(c)
  PROVE  /\ Ends(c)
         /\ calls[c].step = "request" /\ calls[c].copy # Absent
         /\ calls[c].kind \in {"login", "restore"}
         /\ data' = Update(calls[c])
         /\ UNCHANGED <<sessions, closures, granted, live, history>>
  <1>1. calls[c] \in Call /\ Shape(calls[c])
    BY DEF Shapes, CallShapes
  <1>2. calls[c].kind \in {"login", "restore"}
    BY <1>1 DEF SendUser, Call, Kinds, Shape, KindSteps, RefreshSteps
  <1> QED
    BY <1>2, EndsEffect DEF SendUser, Written

LEMMA LoadContextEffect ==
  ASSUME Shapes, NEW c \in Calls, LoadContext(c)
  PROVE  /\ calls[c].step = "load" /\ calls[c].copy = Absent
         /\ UNCHANGED <<data, closures, provider, history>>
         /\ \/ /\ Keeps(c) /\ HasContext(data) /\ UNCHANGED sessions
               /\ calls'[c].step = "getClient" /\ calls'[c].copy = Absent
               /\ calls'[c].token = calls[c].token /\ calls'[c].client = calls[c].client
               /\ calls'[c].grant = calls[c].grant
            \/ Ends(c) /\ RedirectOver(c)
  <1> DEFINE old == calls[c]
             verifier == IF data = Absent THEN None ELSE data.flow
             call == [old EXCEPT !.verifier = verifier, !.step = "getClient"]
  <1>1. /\ calls \in [Calls -> Call] /\ old \in Call /\ data \in Record \cup {Absent}
        /\ Shape(old) /\ "getClient" \in Steps
    BY DEF Shapes, CallShapes, TypeOK, Steps
  <1>2. /\ old.step = "load" /\ old.copy = Absent
        /\ UNCHANGED <<data, closures, provider, history>>
        /\ \/ HasContext(data) /\ Change(c, call) /\ UNCHANGED sessions
           \/ Throw(c)
    BY DEF LoadContext, At
  <1>3. verifier \in Requests \cup {None}
    BY <1>1 DEF Record
  <1>4. /\ call \in Call /\ call.kind = old.kind /\ call.object = old.object
        /\ call.step = "getClient" /\ call.copy = old.copy /\ call.token = old.token
        /\ call.client = old.client /\ call.grant = old.grant
    <2> HIDE DEF old, verifier
    <2> QED
      BY <1>1, <1>3 DEF Call
  <1>5. old.kind # "none"
    BY <1>1, <1>2 DEF Shape, KindSteps
  <1> HIDE DEF call
  <1>6. Change(c, call) => /\ calls'[c] = call /\ Others(c)
    BY <1>1, <1>4, CallChanges DEF Others
  <1>7. Throw(c) => Ends(c) /\ RedirectOver(c)
    BY <1>5, ThrowEffect
  <1> QED
    BY <1>2, <1>4, <1>6, <1>7 DEF Keeps

LEMMA FailsEffect ==
  ASSUME Shapes, NEW c \in Calls, Fails(c)
  PROVE  /\ Ends(c) /\ RedirectOver(c) /\ calls[c].copy = Absent
         /\ calls[c].step \in {"client", "load", "register", "token", "save", "touch"}
         /\ UNCHANGED <<data, closures, provider, history>>
  <1>1. /\ Throw(c) /\ UNCHANGED <<data, closures, provider, history>>
        /\ calls[c].step \in {"client", "load", "register", "token", "save", "touch"}
        /\ calls[c].copy = Absent
    BY DEF Fails, At
  <1>2. calls[c].kind # "none"
    BY <1>1 DEF Shapes, CallShapes, Shape, KindSteps
  <1> QED
    BY <1>1, <1>2, ThrowEffect

\* A grant, as far as refresh tokens are concerned: the new one is the
\* number of the grant; a refresh takes away the one it was asked with.
LEMMA GrantEffect ==
  ASSUME Shapes, NEW c \in Calls, NEW token, Grant(c, token)
  PROVE  /\ calls[c].step = "token" /\ calls[c].copy = Absent
         /\ calls[c].kind \in {"login", "restore", "redirect", "fetch"}
         /\ calls[c].kind # "redirect" => calls[c].token \in live
         /\ calls[c].client = "own"
         /\ granted' = granted + 1 /\ granted' \in Grants /\ granted \in Nat
         /\ token \in {None, granted'} /\ granted' # None
         /\ \A t : t # None /\ t = token => t \in live'
         /\ \A t \in live : t \in live' \/ (calls[c].kind # "redirect" /\ Rotates
                                            /\ token = granted' /\ t = calls[c].token)
         /\ calls[c].kind # "redirect" => token = (IF Rotates THEN granted' ELSE None)
         /\ holder' = None
  <1>1. /\ granted' = granted + 1 /\ granted' \in Grants /\ token \in {None, granted'}
        /\ At(c, "token") /\ holder' = None /\ granted \in Nat
        /\ calls[c].kind \in {"login", "restore", "redirect", "fetch"}
    BY GrantTypes, NodeAssumption DEF Shapes, TypeOK
  <1>2. calls[c].kind # "redirect" => token = (IF Rotates THEN granted' ELSE None)
    BY DEF Grant
  <1>3. calls[c].client = "own" /\ (calls[c].kind # "redirect" => calls[c].token \in live)
    BY DEF Grant, Honours
  <1>4. granted' # None
    BY <1>1 DEF None
  <1>5. /\ \A t : t # None /\ t = token => t \in live'
        /\ \A t \in live : t \in live' \/ (calls[c].kind # "redirect" /\ Rotates
                                           /\ token = granted' /\ t = calls[c].token)
    <2>1. IF calls[c].kind = "redirect"
            THEN live' = live \cup ({token} \ {None})
            ELSE live' = IF Rotates THEN (live \ {calls[c].token}) \cup {token} ELSE live
      BY DEF Grant
    <2> QED
      BY <1>2, <2>1
  <1> QED
    BY <1>1, <1>2, <1>3, <1>4, <1>5 DEF At

LEMMA CodeRedeemedEffect ==
  ASSUME Shapes, NEW c \in Calls, NEW token \in Grants \cup {None}, CodeRedeemed(c, token)
  PROVE  /\ Keeps(c) /\ Grant(c, token) /\ calls[c].kind = "redirect"
         /\ calls'[c].step = IF token = None THEN "touch" ELSE "save"
         /\ calls'[c].copy = Absent /\ calls'[c].token = token
         /\ calls'[c].client = calls[c].client
         /\ IF token = None THEN UNCHANGED told ELSE Tell(token)
         /\ UNCHANGED <<data, sessions, closures, untold, lost, removed>>
  <1> DEFINE old == calls[c]
             next == IF token = None THEN "touch" ELSE "save"
             grant == granted'
             call == [old EXCEPT !.token = token, !.grant = grant, !.step = next]
  <1>1. /\ calls \in [Calls -> Call] /\ old \in Call /\ next \in Steps
    BY DEF Shapes, CallShapes, Steps, SetSteps
  <1>2. /\ Grant(c, token) /\ Change(c, call) /\ old.kind = "redirect"
        /\ IF token = None THEN UNCHANGED told ELSE Tell(token)
        /\ UNCHANGED <<data, sessions, closures, untold, lost, removed>>
    BY DEF CodeRedeemed
  <1>3. grant \in Grants /\ old.copy = Absent
    BY <1>2, GrantEffect
  <1>4. /\ call \in Call /\ call.kind = old.kind /\ call.object = old.object
        /\ call.step = next /\ call.copy = old.copy /\ call.token = token
        /\ call.client = old.client
    <2> HIDE DEF old, next, grant
    <2> QED
      BY <1>1, <1>3 DEF Call
  <1> HIDE DEF call
  <1> QED
    BY <1>1, <1>2, <1>3, <1>4, CallChanges DEF Keeps, Others

LEMMA RefreshedEffect ==
  ASSUME Shapes, NEW c \in Calls, NEW token \in Grants \cup {None}, Refreshed(c, token)
  PROVE  /\ Grant(c, token) /\ calls[c].kind # "redirect"
         /\ \/ /\ Keeps(c) /\ calls'[c].copy = Absent
               /\ calls'[c].client = calls[c].client
               /\ calls[c].kind = "fetch" => calls'[c].grant = calls[c].grant
               /\ IF token # None
                    THEN calls'[c].step = "rotated" /\ calls'[c].token = token
                    ELSE /\ calls'[c].step = "save" /\ calls'[c].token = calls[c].token
                         /\ calls[c].kind # "fetch"
            \/ Ends(c) /\ token = None
         /\ UNCHANGED <<data, sessions, closures, told, untold, lost, removed>>
  <1> DEFINE old == calls[c]
             grant == IF old.kind = "fetch" THEN old.grant ELSE granted'
             call == [old EXCEPT !.grant = grant]
             rotated == [call EXCEPT !.token = token, !.step = "rotated"]
             saved == [call EXCEPT !.step = "save"]
  <1>1. /\ calls \in [Calls -> Call] /\ old \in Call /\ {"rotated", "save"} \subseteq Steps
    BY DEF Shapes, CallShapes, Steps, SetSteps
  <1>2. Grant(c, token) /\ old.kind # "redirect"
    BY DEF Refreshed
  <1>3. old.copy = Absent /\ granted' \in Grants
    BY <1>2, GrantEffect
  <1>4. grant \in Grants \cup {None}
    BY <1>1, <1>3 DEF Call
  <1>5. /\ rotated \in Call /\ rotated.kind = old.kind /\ rotated.object = old.object
        /\ rotated.step = "rotated" /\ rotated.copy = old.copy /\ rotated.token = token
        /\ rotated.client = old.client /\ rotated.grant = grant
        /\ saved \in Call /\ saved.kind = old.kind /\ saved.object = old.object
        /\ saved.step = "save" /\ saved.copy = old.copy /\ saved.token = old.token
        /\ saved.client = old.client /\ saved.grant = grant
        /\ call.kind = old.kind
    <2>1. /\ call \in Call /\ call.kind = old.kind /\ call.object = old.object
          /\ call.copy = old.copy /\ call.token = old.token
          /\ call.client = old.client /\ call.grant = grant
      <3> HIDE DEF old, grant
      <3> QED
        BY <1>1, <1>4 DEF Call
    <2> HIDE DEF call
    <2>2. /\ rotated \in Call /\ rotated.kind = call.kind /\ rotated.object = call.object
          /\ rotated.step = "rotated" /\ rotated.copy = call.copy /\ rotated.token = token
          /\ rotated.client = call.client /\ rotated.grant = call.grant
      BY <1>1, <2>1 DEF Call
    <2>3. /\ saved \in Call /\ saved.kind = call.kind /\ saved.object = call.object
          /\ saved.step = "save" /\ saved.copy = call.copy /\ saved.token = call.token
          /\ saved.client = call.client /\ saved.grant = call.grant
      BY <1>1, <2>1 DEF Call
    <2> QED
      BY <2>1, <2>2, <2>3
  <1>6. /\ \/ Change(c, rotated) /\ token # None
           \/ End(c) /\ token = None
           \/ Change(c, saved) /\ token = None /\ old.kind # "fetch"
        /\ UNCHANGED <<data, sessions, closures, told, untold, lost, removed>>
    BY <1>5 DEF Refreshed
  <1> HIDE DEF rotated, saved
  <1>7. /\ Change(c, rotated) => calls'[c] = rotated /\ Others(c)
        /\ Change(c, saved) => calls'[c] = saved /\ Others(c)
        /\ End(c) => Ends(c)
    BY <1>1, <1>5, CallChanges, EndsEffect DEF Others
  <1> QED
    BY <1>2, <1>3, <1>5, <1>6, <1>7 DEF Keeps

LEMMA AnswerLostEffect ==
  ASSUME Shapes, NEW c \in Calls, NEW token \in Grants \cup {None}, AnswerLost(c, token)
  PROVE  /\ Grant(c, token) /\ Ends(c) /\ RedirectOver(c)
         /\ lost' = (lost \/ (Rotates /\ calls[c].kind # "redirect"))
         /\ UNCHANGED <<data, closures, told, untold, removed>>
  <1>1. /\ Grant(c, token) /\ Throw(c)
        /\ lost' = (lost \/ (Rotates /\ calls[c].kind # "redirect"))
        /\ UNCHANGED <<data, closures, told, untold, removed>>
    BY DEF AnswerLost
  <1>2. calls[c].kind # "none"
    BY <1>1, GrantEffect
  <1> QED
    BY <1>1, <1>2, ThrowEffect

LEMMA StoreRotatedEffect ==
  ASSUME Shapes, NEW c \in Calls, StoreRotated(c)
  PROVE  /\ calls[c].step = "rotated" /\ calls[c].copy # Absent
         /\ calls[c].kind \in {"login", "restore", "fetch"}
         /\ calls[c].token \in Grants
         /\ data' = Update(calls[c])
         /\ UNCHANGED <<sessions, closures, provider, history>>
         /\ Keeps(c) /\ calls'[c].step = "tell" /\ calls'[c].copy = Absent
         /\ calls'[c].token = calls[c].token
         /\ calls'[c].client = calls[c].client /\ calls'[c].grant = calls[c].grant
  <1> DEFINE old == calls[c]
             call == [old EXCEPT !.copy = Absent, !.step = "tell"]
  <1>1. /\ calls \in [Calls -> Call] /\ old \in Call /\ Shape(old) /\ "tell" \in Steps
    BY DEF Shapes, CallShapes, Steps
  <1>2. /\ old.step = "rotated" /\ old.copy # Absent /\ data' = Update(old)
        /\ Change(c, call)
        /\ UNCHANGED <<sessions, closures, provider, history>>
    BY DEF StoreRotated, Written
  <1>3. old.kind \in {"login", "restore", "fetch"} /\ old.token \in Grants
    BY <1>1, <1>2 DEF Call, Kinds, Shape, KindSteps
  <1>4. /\ call \in Call /\ call.kind = old.kind /\ call.object = old.object
        /\ call.step = "tell" /\ call.copy = Absent /\ call.token = old.token
        /\ call.client = old.client /\ call.grant = old.grant
    <2> HIDE DEF old
    <2> QED
      BY <1>1 DEF Call
  <1> HIDE DEF call
  <1>5. calls'[c] = call /\ Others(c)
    BY <1>1, <1>2, <1>4, CallChanges DEF Others
  <1> QED
    BY <1>2, <1>3, <1>4, <1>5 DEF Keeps

LEMMA TellRotatedEffect ==
  ASSUME Shapes, NEW c \in Calls, TellRotated(c)
  PROVE  /\ calls[c].step = "tell" /\ calls[c].copy = Absent
         /\ calls[c].kind \in {"login", "restore", "fetch"}
         /\ calls[c].token \in Grants /\ calls[c].grant \in Grants
         /\ Tell(calls[c].token)
         /\ UNCHANGED <<data, sessions, provider, untold, lost, removed>>
         /\ \/ /\ calls[c].kind = "fetch" /\ Ends(c)
               /\ closures' = [closures EXCEPT ![calls[c].grant] = calls[c].token]
               /\ holder' = calls[c].object
            \/ /\ calls[c].kind # "fetch" /\ Keeps(c) /\ UNCHANGED <<closures, holder>>
               /\ calls'[c].step = "save" /\ calls'[c].copy = Absent
               /\ calls'[c].token = calls[c].token
               /\ calls'[c].client = calls[c].client /\ calls'[c].grant = calls[c].grant
  <1> DEFINE old == calls[c]
             call == [old EXCEPT !.step = "save"]
  <1>1. /\ calls \in [Calls -> Call] /\ old \in Call /\ Shape(old) /\ "save" \in Steps
    BY DEF Shapes, CallShapes, Steps, SetSteps
  <1>2. /\ old.step = "tell" /\ old.copy = Absent /\ Tell(old.token)
        /\ UNCHANGED <<data, sessions, provider, untold, lost, removed>>
        /\ IF old.kind = "fetch"
             THEN Hold(old) /\ holder' = old.object /\ End(c)
             ELSE Change(c, call) /\ UNCHANGED <<closures, holder>>
    BY DEF TellRotated, At, Goto
  <1>3. /\ old.kind \in {"login", "restore", "fetch"}
        /\ old.token \in Grants /\ old.grant \in Grants
    BY <1>1, <1>2 DEF Call, Kinds, Shape, KindSteps
  <1>4. /\ call \in Call /\ call.kind = old.kind /\ call.object = old.object
        /\ call.step = "save" /\ call.copy = old.copy /\ call.token = old.token
        /\ call.client = old.client /\ call.grant = old.grant
    <2> HIDE DEF old
    <2> QED
      BY <1>1 DEF Call
  <1> HIDE DEF call
  <1>5. /\ Change(c, call) => calls'[c] = call /\ Others(c)
        /\ End(c) => Ends(c)
    BY <1>1, <1>4, CallChanges, EndsEffect DEF Others
  <1> QED
    BY <1>2, <1>3, <1>4, <1>5 DEF Keeps, Hold

\* What an object that gets a fetch is like.
GetsFetch(c, isLoggedIn) ==
  /\ Ends(c)
  /\ calls[c].object \in Objects /\ calls[c].grant \in Grants
  /\ closures' = [closures EXCEPT ![calls[c].grant] = calls[c].token]
  /\ holder' = calls[c].object
  /\ sessions'[calls[c].object].isLoggedIn = isLoggedIn
  /\ sessions'[calls[c].object].fetch = calls[c].grant
  /\ sessions'[calls[c].object].inProgress =
       (sessions[calls[c].object].inProgress /\ calls[c].kind # "redirect")
  /\ \A o \in Objects : o # calls[c].object => sessions'[o] = sessions[o]

LEMMA FinishEffect ==
  ASSUME Shapes, NEW c \in Calls, FinishLogin(c) \/ FinishRedirect(c)
  PROVE  /\ UNCHANGED <<provider, told, untold, lost, removed>>
         /\ \/ /\ calls[c].step = "finish" /\ calls[c].copy # Absent
               /\ calls[c].kind \in {"login", "restore"}
               /\ data' = Update(calls[c]) /\ GetsFetch(c, TRUE)
            \/ /\ calls[c].step = "get" /\ calls[c].kind = "redirect" /\ UNCHANGED data
               /\ \/ GetsFetch(c, data.isLoggedIn)
                  \/ Ends(c) /\ RedirectOver(c) /\ UNCHANGED <<closures, holder>>
  <1>1. calls[c] \in Call /\ Shape(calls[c]) /\ data \in Record \cup {Absent}
    BY DEF Shapes, CallShapes, TypeOK
  <1>2. ASSUME NEW isLoggedIn \in BOOLEAN, UseFetch(calls[c], isLoggedIn), End(c),
               calls[c].step \in {"finish", "get"}
        PROVE  GetsFetch(c, isLoggedIn)
    <2>1. calls[c].kind # "none" /\ calls[c].grant # None
      BY <1>1, <1>2 DEF Shape, KindSteps
    <2>2. holder' = calls[c].object
      BY <1>2 DEF UseFetch
    <2> QED
      BY <1>2, <2>1, <2>2, UseFetchTypes, EndsEffect DEF GetsFetch
  <1>3. CASE FinishLogin(c)
    <2>1. /\ calls[c].step = "finish" /\ calls[c].copy # Absent /\ data' = Update(calls[c])
          /\ UseFetch(calls[c], TRUE) /\ End(c)
          /\ UNCHANGED <<provider, told, untold, lost, removed>>
      BY <1>3 DEF FinishLogin, Written
    <2>2. calls[c].kind \in {"login", "restore"}
      BY <1>1, <2>1 DEF Call, Kinds, Shape, KindSteps
    <2> QED
      BY <1>2, <2>1, <2>2
  <1>4. CASE FinishRedirect(c)
    <2>1. /\ calls[c].step = "get" /\ UNCHANGED <<data, provider, told, untold, lost, removed>>
          /\ \/ HasContext(data) /\ UseFetch(calls[c], data.isLoggedIn) /\ End(c)
             \/ Throw(c) /\ UNCHANGED <<closures, holder>>
      BY <1>4 DEF FinishRedirect, At
    <2>2. calls[c].kind = "redirect"
      BY <1>1, <2>1 DEF Call, Kinds, Shape, KindSteps, RefreshSteps
    <2>3. HasContext(data) => data.isLoggedIn \in BOOLEAN
      BY <1>1 DEF HasContext, Record
    <2> QED
      BY <1>2, <2>1, <2>2, <2>3, ThrowEffect
  <1> QED
    BY <1>3, <1>4

LEMMA FetchEffect ==
  ASSUME Shapes, NEW c \in Calls, FetchReturns(c) \/ FetchRefused(c)
  PROVE  /\ calls[c].step = "send" /\ calls[c].copy = Absent /\ calls[c].kind = "fetch"
         /\ OnlyCalls
         /\ \/ Ends(c)
            \/ /\ Keeps(c)
               /\ calls'[c].step = "load" /\ calls'[c].copy = Absent
               /\ calls[c].grant \in Grants /\ calls'[c].grant = calls[c].grant
               /\ calls'[c].token = closures[calls[c].grant]
               /\ calls'[c].client = calls[c].client
  <1> DEFINE old == calls[c]
             token == closures[old.grant]
             call == [old EXCEPT !.token = token, !.step = "load"]
  <1>1. /\ calls \in [Calls -> Call] /\ old \in Call /\ Shape(old) /\ "load" \in Steps
        /\ closures \in [Grants -> Grants \cup {None}]
    BY DEF Shapes, CallShapes, TypeOK, Steps, SetSteps
  <1>2. /\ old.step = "send" /\ old.copy = Absent /\ OnlyCalls
        /\ End(c) \/ Change(c, call)
    BY DEF FetchReturns, FetchRefused, At, OnlyCalls
  <1>3. old.kind = "fetch" /\ old.grant \in Grants
    BY <1>1, <1>2 DEF Call, Kinds, Shape, KindSteps, RefreshSteps
  <1>4. token \in Grants \cup {None}
    BY <1>1, <1>3
  <1>5. /\ call \in Call /\ call.kind = old.kind /\ call.object = old.object
        /\ call.step = "load" /\ call.copy = old.copy /\ call.token = token
        /\ call.client = old.client /\ call.grant = old.grant
    <2> HIDE DEF old, token
    <2> QED
      BY <1>1, <1>4 DEF Call
  <1> HIDE DEF call
  <1>6. /\ Change(c, call) => calls'[c] = call /\ Others(c)
        /\ End(c) => Ends(c)
    BY <1>1, <1>5, CallChanges, EndsEffect DEF Others
  <1> QED
    BY <1>2, <1>3, <1>5, <1>6 DEF Keeps

LEMMA LogoutEffect ==
  ASSUME Shapes, NEW c \in Calls, DeleteRecord(c) \/ FinishLogout(c)
  PROVE  /\ calls[c].kind = "logout" /\ calls[c].copy = Absent /\ calls[c].object \in Objects
         /\ UNCHANGED <<closures, provider, told, untold, holder, lost>>
         /\ \/ /\ Keeps(c) /\ data' = Absent /\ UNCHANGED <<sessions, removed>>
               /\ calls[c].step = "delete" /\ calls'[c].step = "reset"
               /\ calls'[c].copy = Absent /\ calls'[c].token = calls[c].token
               /\ calls'[c].client = calls[c].client /\ calls'[c].grant = calls[c].grant
            \/ /\ Ends(c) /\ calls[c].step = "reset" /\ UNCHANGED data
               /\ removed' = (removed \/ Running({"login", "restore", "redirect"}) = {})
               /\ sessions' = [sessions EXCEPT ![calls[c].object].isLoggedIn = FALSE,
                                               ![calls[c].object].fetch = None]
  <1> DEFINE old == calls[c]
             call == [old EXCEPT !.step = "reset"]
  <1>1. /\ calls \in [Calls -> Call] /\ old \in Call /\ Shape(old) /\ "reset" \in Steps
    BY DEF Shapes, CallShapes, Steps
  <1>2. old.copy = Absent /\ old.step \in {"delete", "reset"}
    BY DEF DeleteRecord, FinishLogout, At
  <1>3. old.kind = "logout" /\ old.object \in Objects
    BY <1>1, <1>2 DEF Call, Kinds, Shape, KindSteps, RefreshSteps
  <1>4. /\ call \in Call /\ call.kind = old.kind /\ call.object = old.object
        /\ call.step = "reset" /\ call.copy = old.copy /\ call.token = old.token
        /\ call.client = old.client /\ call.grant = old.grant
    <2> HIDE DEF old
    <2> QED
      BY <1>1 DEF Call
  <1> HIDE DEF call
  <1>5. CASE DeleteRecord(c)
    <2>1. /\ Change(c, call) /\ data' = Absent /\ old.step = "delete"
          /\ UNCHANGED <<sessions, closures, provider, told, untold, holder, lost, removed>>
      <3>1. DeleteRecord(c)
        BY <1>5
      <3> USE DEF call
      <3> QED
        BY <3>1 DEF DeleteRecord, Goto, At, history
    <2>2. calls'[c] = call /\ Others(c)
      BY <1>1, <1>4, <2>1, CallChanges DEF Others
    <2> QED
      BY <1>2, <1>3, <1>4, <2>1, <2>2 DEF Keeps
  <1>6. CASE FinishLogout(c)
    BY <1>2, <1>3, <1>6, EndsEffect DEF FinishLogout, At
  <1> QED
    BY <1>5, <1>6

-----------------------------------------------------------------------------
(* Redirects, whatever calls overlap.                                      *)

\* Steps that neither begin nor end a redirect.
LEMMA SameRedirects ==
  ASSUME RedirectsOneAtATime,
         \A o \in Objects : sessions'[o].inProgress = sessions[o].inProgress,
         \A d \in Calls : /\ calls'[d].kind = "redirect" <=> calls[d].kind = "redirect"
                          /\ calls'[d].kind = "redirect" => calls'[d].object = calls[d].object
  PROVE  RedirectsOneAtATime'
  BY DEF RedirectsOneAtATime, Running

LEMMA NewCall == NoCall.kind = "none" /\ NoCall.step = "none" /\ NoCall.copy = Absent
                 /\ NoCall.token = None /\ NoCall.client = "none"
  BY DEF NoCall

\* The end of a call: an object is in progress no more if it was a redirect.
LEMMA RedirectEnds ==
  ASSUME RedirectsOneAtATime, NEW c \in Calls, calls'[c].kind = "none", Others(c),
         \A o \in Objects : sessions'[o].inProgress =
           (sessions[o].inProgress /\ ~(calls[c].kind = "redirect" /\ calls[c].object = o)),
         \A o \in Objects : sessions[o].inProgress \in BOOLEAN
  PROVE  RedirectsOneAtATime'
  <1>1. ASSUME NEW o \in Objects
        PROVE  sessions'[o].inProgress <=>
                 \E d \in Calls : calls'[d].kind = "redirect" /\ calls'[d].object = o
    <2>1. sessions[o].inProgress <=>
            \E d \in Calls : calls[d].kind = "redirect" /\ calls[d].object = o
      BY DEF RedirectsOneAtATime, Running
    <2>2. CASE calls[c].kind = "redirect" /\ calls[c].object = o
      <3>1. ~sessions'[o].inProgress
        BY <2>2
      <3>2. \A d \in Calls : d # c => ~(calls[d].kind = "redirect" /\ calls[d].object = o)
        BY <2>2 DEF RedirectsOneAtATime, Running
      <3> QED
        BY <3>1, <3>2 DEF Others
    <2>3. CASE ~(calls[c].kind = "redirect" /\ calls[c].object = o)
      <3>1. sessions'[o].inProgress <=> sessions[o].inProgress
        BY <2>3
      <3> QED
        BY <2>1, <2>3, <3>1 DEF Others
    <2> QED
      BY <2>2, <2>3
  <1>2. \A d, e \in Calls : calls'[d].kind = "redirect" /\ calls'[e].kind = "redirect"
                             /\ calls'[d].object = calls'[e].object => d = e
    BY DEF RedirectsOneAtATime, Running, Others
  <1> QED
    BY <1>1, <1>2 DEF RedirectsOneAtATime, Running

LEMMA NextRedirects ==
  Shapes /\ RedirectsOneAtATime /\ [Next]_vars => RedirectsOneAtATime'
  <1> SUFFICES ASSUME Shapes, RedirectsOneAtATime, [Next]_vars
               PROVE  RedirectsOneAtATime'
    OBVIOUS
  <1> USE NewCall
  <1>0. /\ sessions \in [Objects -> Session]
        /\ \A o \in Objects : sessions[o].inProgress \in BOOLEAN
    BY DEF Shapes, TypeOK, Session
  <1>1. ASSUME NEW o \in Objects, HandleNoCode(o)
        PROVE  RedirectsOneAtATime'
    <2>1. UNCHANGED calls /\ \A p \in Objects : sessions'[p].inProgress = sessions[p].inProgress
      BY <1>0, <1>1 DEF HandleNoCode, Session
    <2> QED
      BY <2>1, SameRedirects
  <1>2. ASSUME NEW c \in Calls, NEW o \in Objects, Restore(c, o)
        PROVE  RedirectsOneAtATime'
    <2>a. /\ \A d \in Running(Kinds) : calls[d].object # o
          /\ sessions' = [sessions EXCEPT ![o] = NewSession]
          /\ calls' = calls \/ Begins(c, "restore", o, "identify")
      BY <1>2, BeginEffects
    <2>b. NewSession.inProgress = FALSE
      BY DEF NewSession
    <2>1. /\ \A d \in Running(Kinds) : calls[d].object # o
          /\ \A p \in Objects : p # o => sessions'[p] = sessions[p]
          /\ sessions'[o].inProgress = FALSE
          /\ calls' = calls \/ Begins(c, "restore", o, "identify")
      BY <1>0, <2>a, <2>b
    <2>2. ~sessions[o].inProgress
      BY <2>1 DEF RedirectsOneAtATime, Running, Kinds
    <2>3. \A p \in Objects : sessions'[p].inProgress = sessions[p].inProgress
      BY <1>0, <2>1, <2>2
    <2> QED
      BY <2>1, <2>3, SameRedirects DEF Begins, Others
  <1>3. ASSUME NEW c \in Calls, NEW o \in Objects,
               \/ Fetch(c, o) \/ Logout(c, o)
               \/ \E token \in Grants \cup {None} : Login(c, o, token)
        PROVE  RedirectsOneAtATime'
    <2>1. /\ UNCHANGED sessions
          /\ \E kind \in {"fetch", "logout", "login"}, step \in Steps : Begins(c, kind, o, step)
      BY <1>3, BeginEffects DEF Steps, SetSteps
    <2> QED
      BY <2>1, SameRedirects DEF Begins, Others
  <1>4. ASSUME NEW c \in Calls, NEW o \in Objects, NEW code \in 1..made,
               HandleCode(c, o, code)
        PROVE  RedirectsOneAtATime'
    <2>1. /\ Begins(c, "redirect", o, "load") /\ ~sessions[o].inProgress
          /\ sessions' = [sessions EXCEPT ![o].inProgress = TRUE]
      BY <1>4, BeginEffects
    <2>2. /\ sessions'[o].inProgress = TRUE
          /\ \A p \in Objects : p # o => sessions'[p] = sessions[p]
      BY <1>0, <2>1 DEF Session
    <2>3. /\ calls'[c].kind = "redirect" /\ calls'[c].object = o /\ calls[c].kind = "none"
          /\ Others(c)
      BY <2>1 DEF Begins
    <2>4. \A d \in Calls : calls[d].kind = "redirect" => calls[d].object # o
      BY <2>1 DEF RedirectsOneAtATime, Running
    <2>5. ASSUME NEW p \in Objects
          PROVE  sessions'[p].inProgress <=>
                   \E d \in Calls : calls'[d].kind = "redirect" /\ calls'[d].object = p
      <3>1. CASE p = o
        BY <2>2, <2>3, <3>1
      <3>2. CASE p # o
        BY <2>2, <2>3, <3>2 DEF RedirectsOneAtATime, Running, Others
      <3> QED
        BY <3>1, <3>2
    <2>6. \A d, e \in Calls : calls'[d].kind = "redirect" /\ calls'[e].kind = "redirect"
                               /\ calls'[d].object = calls'[e].object => d = e
      BY <2>3, <2>4 DEF RedirectsOneAtATime, Running, Others
    <2> QED
      BY <2>5, <2>6 DEF RedirectsOneAtATime, Running
  <1>5. CASE Crash
    <2>1. /\ \A o \in Objects : sessions'[o].inProgress = FALSE
          /\ \A c \in Calls : calls'[c].kind = "none"
      BY <1>5 DEF Crash, NewSession
    <2> QED
      BY <2>1 DEF RedirectsOneAtATime, Running
  <1>6. ASSUME NEW c \in Calls, Continue(c)
        PROVE  RedirectsOneAtATime'
    <2>1. CASE Keeps(c) /\ UNCHANGED sessions
      BY <2>1, SameRedirects DEF Keeps, Others
    <2>2. CASE Ends(c) /\ UNCHANGED sessions /\ calls[c].kind # "redirect"
      BY <2>2, SameRedirects DEF Ends, Others
    <2>3. CASE Ends(c) /\ RedirectOver(c)
      BY <1>0, <2>3, RedirectEnds DEF Ends, RedirectOver
    <2>4. ASSUME NEW isLoggedIn, GetsFetch(c, isLoggedIn)
          PROVE  RedirectsOneAtATime'
      <3>1. Ends(c) /\ calls[c].object \in Objects
        BY <2>4 DEF GetsFetch
      <3>2. \A o \in Objects : sessions'[o].inProgress =
              (sessions[o].inProgress /\ ~(calls[c].kind = "redirect" /\ calls[c].object = o))
        BY <1>0, <2>4 DEF GetsFetch
      <3> QED
        BY <1>0, <3>1, <3>2, RedirectEnds DEF Ends
    <2>5. CASE ReadRecord(c) \/ WriteRecord(c) \/ GetClient(c) \/ Choose(c)
      BY <2>1, <2>5, ReadRecordEffect, WriteRecordEffect, GetClientEffect, ChooseEffect
      DEF OnlyCalls
    <2>6. CASE SendUser(c) \/ LoadContext(c) \/ Fails(c)
      BY <2>1, <2>2, <2>3, <2>6, SendUserEffect, LoadContextEffect, FailsEffect
    <2>7. ASSUME NEW token \in Grants \cup {None},
                 CodeRedeemed(c, token) \/ Refreshed(c, token) \/ AnswerLost(c, token)
          PROVE  RedirectsOneAtATime'
      BY <2>1, <2>2, <2>3, <2>7, CodeRedeemedEffect, RefreshedEffect, AnswerLostEffect
    <2>8. CASE StoreRotated(c) \/ TellRotated(c) \/ FetchReturns(c) \/ FetchRefused(c)
      BY <2>1, <2>2, <2>8, StoreRotatedEffect, TellRotatedEffect, FetchEffect DEF OnlyCalls
    <2>9. CASE FinishLogin(c) \/ FinishRedirect(c)
      BY <2>3, <2>4, <2>9, FinishEffect
    <2>10. CASE DeleteRecord(c) \/ FinishLogout(c)
      <3>1. CASE UNCHANGED sessions
        BY <2>1, <2>2, <2>10, <3>1, LogoutEffect
      <3>2. CASE Ends(c) /\ calls[c].kind = "logout" /\ calls[c].object \in Objects
                 /\ sessions' = [sessions EXCEPT ![calls[c].object].isLoggedIn = FALSE,
                                                 ![calls[c].object].fetch = None]
        <4>1. \A o \in Objects : sessions'[o].inProgress = sessions[o].inProgress
          BY <1>0, <3>2 DEF Session
        <4> QED
          BY <3>2, <4>1, SameRedirects DEF Ends, Others
      <3> QED
        BY <2>10, <3>1, <3>2, LogoutEffect
    <2> QED
      BY <1>6, <2>5, <2>6, <2>7, <2>8, <2>9, <2>10 DEF Continue
  <1>7. CASE UNCHANGED vars
    BY <1>7, SameRedirects DEF vars
  <1> QED
    BY <1>1, <1>2, <1>3, <1>4, <1>5, <1>6, <1>7 DEF Next, Application

\* Whatever calls the application lets overlap: an object exchanges one code
\* at a time, and is in progress exactly while it does, so that no failure,
\* logout or restored session leaves it refusing redirects for good.
THEOREM RedirectsTakeTurns == Spec => []RedirectsOneAtATime
  <1>1. Init => RedirectsOneAtATime
    BY DEF Init, RedirectsOneAtATime, Running, NewSession, NoCall
  <1> QED
    BY <1>1, InitShapes, NextShapes, NextRedirects, PTL DEF Spec

-----------------------------------------------------------------------------
(* What the application is told, whatever calls overlap.                   *)

Told(token) == token # None => told[token] = 1

RotatedSteps == {"rotated", "tell"}
AboutToTell(token) ==
  \E c \in Calls : calls[c].step = "tell" /\ calls[c].token = token

\* A token that has been told, or was stored and is still to be told, unless
\* the process stopped.
Accounted(token) == Told(token) \/ token \in untold \/ AboutToTell(token)

\* A refresh token that the provider rotated to is known to the call that
\* got it only, until that call stores it, and told when that call tells.
\* Other calls find it in storage in between, and refresh it, if it does
\* rotate, before they build a fetch with it.
TokensOfCall(call) ==
  /\ call.copy # Absent => Accounted(call.copy.token)
  /\ call.step \in RotatedSteps => told[call.token] = 0 /\ call.token <= granted
  /\ call.step \notin RotatedSteps => Accounted(call.token)
  /\ call.step \notin RotatedSteps /\ call.kind \in {"fetch", "redirect"} => Told(call.token)
  /\ call.step \in {"save", "touch", "finish", "get"} => Told(call.token)

\* Two calls never have the same new token.
OwnTokens ==
  \A c, d \in Calls :
    /\ calls[c].step \in RotatedSteps /\ calls[d].step \in RotatedSteps
    /\ calls[c].token = calls[d].token
    => c = d

\* Without rotation there is nothing to store before it is told.
TellsAtOnce ==
  ~Rotates => untold = {} /\ \A c \in Calls : calls[c].step \notin RotatedSteps

Telling ==
  /\ \A g \in Grants : told[g] = 0 \/ (told[g] = 1 /\ g <= granted)
  /\ data # Absent => Accounted(data.token)
  /\ \A g \in Grants : Told(closures[g])
  /\ \A c \in Calls : TokensOfCall(calls[c])
  /\ OwnTokens
  /\ TellsAtOnce

\* The effect of a step on told: nothing, or a first mention of a token that
\* no other call is about to tell of.
TellsOnce(c) ==
  \/ UNCHANGED told
  \/ \E token \in Grants :
       /\ Tell(token) /\ told[token] = 0 /\ token <= granted'
       /\ \A d \in Calls : d # c /\ calls[d].step \in RotatedSteps => calls[d].token # token

LEMMA ToldStays ==
  ASSUME Shapes, NEW c \in Calls, TellsOnce(c), NEW token \in Grants \cup {None}, Told(token)
  PROVE  Told(token)'
  <1>1. told \in [Grants -> Nat]
    BY DEF Shapes, TypeOK
  <1>2. ASSUME NEW new \in Grants, Tell(new), told[new] = 0
        PROVE  Told(token)'
    BY <1>1, <1>2, TellTypes DEF Told
  <1> QED
    BY <1>2 DEF TellsOnce, Told

\* A token stays accounted for unless the call that is about to tell of it
\* moves on; and that one does tell.
LEMMA AccountedStays ==
  ASSUME Shapes, NEW c \in Calls, Others(c), TellsOnce(c), untold \subseteq untold',
         calls[c].step = "tell" => told'[calls[c].token] = 1,
         NEW token \in Grants \cup {None}, Accounted(token)
  PROVE  Accounted(token)'
  <1>1. CASE Told(token)
    <2>1. Told(token)'
      BY <1>1, ToldStays
    <2> QED
      BY <2>1 DEF Accounted, Told
  <1>2. CASE token \in untold
    BY <1>2 DEF Accounted
  <1>3. ASSUME NEW d \in Calls, calls[d].step = "tell", calls[d].token = token
        PROVE  Accounted(token)'
    <2>1. CASE d = c
      BY <1>3, <2>1 DEF Accounted, Told
    <2>2. CASE d # c
      BY <1>3, <2>2 DEF Others, Accounted, AboutToTell
    <2> QED
      BY <2>1, <2>2
  <1> QED
    BY <1>1, <1>2, <1>3 DEF Accounted, AboutToTell

LEMMA TellingStep ==
  ASSUME Shapes, Shapes', Telling, NEW c \in Calls, Others(c), TellsOnce(c),
         UNCHANGED untold, granted <= granted',
         calls[c].step = "tell" => told'[calls[c].token] = 1,
         data' = data \/ data' = Absent \/ Accounted(data.token)',
         \A g \in Grants : closures'[g] = closures[g] \/ Told(closures[g])',
         TokensOfCall(calls[c])',
         calls'[c].step \in RotatedSteps =>
           \/ calls[c].step \in RotatedSteps /\ calls'[c].token = calls[c].token
           \/ calls'[c].token = granted' /\ granted < granted' /\ Rotates
  PROVE  Telling'
  <1>0. /\ granted \in Nat /\ granted' \in Nat
        /\ told \in [Grants -> Nat] /\ data \in Record \cup {Absent}
        /\ closures \in [Grants -> Grants \cup {None}]
        /\ \A d \in Calls : calls[d] \in Call /\ Shape(calls[d])
        /\ \A g \in Grants : g \in Nat
        /\ Absent \notin Record
    BY NodeAssumption DEF Shapes, TypeOK, CallShapes, Grants
  <1>1. \A g \in Grants : told'[g] = 0 \/ (told'[g] = 1 /\ g <= granted')
    <2>1. CASE UNCHANGED told
      BY <1>0, <2>1 DEF Telling
    <2>2. ASSUME NEW token \in Grants, Tell(token), told[token] = 0, token <= granted'
          PROVE  \A g \in Grants : told'[g] = 0 \/ (told'[g] = 1 /\ g <= granted')
      BY <1>0, <2>2, TellTypes DEF Telling
    <2> QED
      BY <2>1, <2>2 DEF TellsOnce
  <1>a. \A token \in Grants \cup {None} : Accounted(token) => Accounted(token)'
    BY AccountedStays
  <1>2. (data # Absent => Accounted(data.token))'
    <2>1. CASE data' = data /\ data # Absent
      <3>1. data.token \in Grants \cup {None} /\ Accounted(data.token)
        BY <1>0, <2>1 DEF Record, Telling
      <3>2. Accounted(data.token)'
        <4> DEFINE token == data.token
        <4>1. token' = token /\ token \in Grants \cup {None} /\ Accounted(token)
          BY <2>1, <3>1
        <4> HIDE DEF token
        <4>2. Accounted(token)'
          BY <1>a, <4>1 DEF Accounted, Told, AboutToTell
        <4> QED
          BY <4>2 DEF token
      <3> QED
        BY <3>2
    <2> QED
      BY <2>1
  <1>3. \A g \in Grants : Told(closures[g])'
    <2> SUFFICES ASSUME NEW g \in Grants, closures'[g] = closures[g]
                 PROVE  Told(closures[g])'
      OBVIOUS
    <2>1. closures[g] \in Grants \cup {None} /\ Told(closures[g])
      BY <1>0 DEF Telling
    <2> QED
      BY <2>1, ToldStays DEF Told
  <1>4. ASSUME NEW d \in Calls, d # c
        PROVE  TokensOfCall(calls[d])'
    <2>1. calls'[d] = calls[d] /\ TokensOfCall(calls[d])
      BY <1>4 DEF Others, Telling
    <2>2. calls[d].token \in Grants \cup {None}
      BY <1>0 DEF Call
    <2>3. calls[d].copy # Absent => calls[d].copy.token \in Grants \cup {None}
      BY <1>0 DEF Call, Record
    <2>4. Told(calls[d].token) => Told(calls[d].token)'
      BY <2>1, <2>2, ToldStays DEF Told
    <2>5. Accounted(calls[d].token) => Accounted(calls[d].token)'
      BY <1>a, <2>1, <2>2 DEF Accounted, Told, AboutToTell
    <2>6. calls[d].copy # Absent => Accounted(calls[d].copy.token)'
      BY <1>a, <2>1, <2>3 DEF TokensOfCall, Accounted, Told, AboutToTell
    <2>7. ASSUME calls[d].step \in RotatedSteps
          PROVE  told'[calls[d].token] = 0 /\ calls[d].token <= granted'
      <3>1. /\ told[calls[d].token] = 0 /\ calls[d].token <= granted
            /\ calls[d].token \in Grants
        BY <1>0, <2>1, <2>2, <2>7 DEF TokensOfCall, Shape, RotatedSteps
      <3>2. ASSUME NEW token \in Grants, Tell(token), calls[d].token # token
            PROVE  told'[calls[d].token] = 0
        BY <1>0, <3>1, <3>2, TellTypes
      <3>3. told'[calls[d].token] = 0
        BY <1>4, <2>7, <3>1, <3>2 DEF TellsOnce
      <3> QED
        BY <1>0, <3>1, <3>3
    <2> QED
      BY <2>1, <2>4, <2>5, <2>6, <2>7 DEF TokensOfCall
  <1>5. OwnTokens'
    <2>1. ASSUME NEW f \in Calls, f # c, calls'[f].step \in RotatedSteps,
                 calls'[c].step \in RotatedSteps, calls'[f].token = calls'[c].token
          PROVE  FALSE
      <3>1. calls'[f] = calls[f] /\ TokensOfCall(calls[f])
        BY <2>1 DEF Others, Telling
      <3>2. calls[f].token <= granted /\ calls[f].token \in Nat
        BY <1>0, <2>1, <3>1 DEF TokensOfCall, Call, None
      <3> QED
        BY <1>0, <2>1, <3>1, <3>2 DEF Telling, OwnTokens
    <2> QED
      BY <2>1 DEF Others, Telling, OwnTokens
  <1>6. TellsAtOnce'
    BY DEF Telling, TellsAtOnce, Others
  <1> QED
    BY <1>1, <1>2, <1>3, <1>4, <1>5, <1>6 DEF Telling

LEMMA NextTelling ==
  Shapes /\ Telling /\ [Next]_vars => Telling'
  <1> SUFFICES ASSUME Shapes, Telling, [Next]_vars
               PROVE  Telling'
    OBVIOUS
  <1> USE NewCall
  <1>s. Shapes'
    BY NextShapes
  <1>0. /\ granted \in Nat /\ granted <= granted
        /\ told \in [Grants -> Nat] /\ data \in Record \cup {Absent}
        /\ closures \in [Grants -> Grants \cup {None}]
        /\ \A d \in Calls : calls[d] \in Call /\ Shape(calls[d]) /\ TokensOfCall(calls[d])
        /\ \A g \in Grants : g \in Nat
    BY NodeAssumption DEF Shapes, TypeOK, CallShapes, Telling, Grants
  \* Steps that tell nothing, and of which no token is new.
  <1>q. ASSUME NEW c \in Calls, Others(c), UNCHANGED <<told, untold, granted>>,
               calls[c].step # "tell",
               data' = data \/ data' = Absent \/ Accounted(data.token)',
               \A g \in Grants : closures'[g] = closures[g] \/ Told(closures'[g]),
               TokensOfCall(calls[c])',
               calls'[c].step \in RotatedSteps =>
                 calls[c].step \in RotatedSteps /\ calls'[c].token = calls[c].token
        PROVE  Telling'
    <2>1. TellsOnce(c) /\ granted <= granted'
      BY <1>0, <1>q DEF TellsOnce
    <2> QED
      BY <1>s, <1>q, <2>1, TellingStep DEF Told
  \* What is accounted for stays so in those steps.
  <1>k. ASSUME NEW c \in Calls, Others(c), UNCHANGED <<told, untold>>, calls[c].step # "tell",
               NEW token \in Grants \cup {None}, Accounted(token)
        PROVE  Accounted(token)'
    BY <1>k, AccountedStays DEF TellsOnce
  <1>e. ASSUME NEW c \in Calls, Ends(c), UNCHANGED <<told, untold, granted>>,
               calls[c].step # "tell",
               data' = data \/ data' = Absent \/ Accounted(data.token)',
               \A g \in Grants : closures'[g] = closures[g] \/ Told(closures'[g])
        PROVE  Telling'
    <2>1. TokensOfCall(calls[c])'
      BY <1>e DEF Ends, TokensOfCall, Accounted, Told, RotatedSteps, NoCall
    <2> QED
      BY <1>q, <1>e, <2>1 DEF Ends, RotatedSteps
  \* A call that begins.
  <1>b. ASSUME NEW c \in Calls, NEW kind, NEW o, NEW step, Begins(c, kind, o, step),
               UNCHANGED <<data, closures, told, untold, granted>>,
               step \notin RotatedSteps \cup {"save", "touch", "finish", "get"},
               Told(calls'[c].token)
        PROVE  Telling'
    <2>1. TokensOfCall(calls[c])'
      BY <1>b DEF Begins, TokensOfCall, Accounted, Told
    <2> QED
      BY <1>q, <1>b, <2>1 DEF Begins
  \* What a set other than that of a new token writes.
  <1>w. ASSUME NEW c \in Calls, calls[c].copy # Absent, calls[c].step \in SetSteps,
               calls[c].step # "rotated", data' = Update(calls[c]),
               Others(c), UNCHANGED <<told, untold>>
        PROVE  Accounted(data.token)'
    <2> DEFINE token == Update(calls[c]).token
    <2>1. token \in Grants \cup {None} /\ Accounted(token)
      <3>1. calls[c].step \notin RotatedSteps
        BY <1>w DEF RotatedSteps, SetSteps
      <3>2. \/ token = calls[c].token \/ token = calls[c].copy.token
        BY <1>0, <1>w, UpdateType
      <3> QED
        BY <1>0, <1>w, <3>1, <3>2 DEF TokensOfCall, Call, Record
    <2>2. data'.token = token
      BY <1>w
    <2>3. calls[c].step # "tell"
      BY <1>w DEF SetSteps
    <2> HIDE DEF token
    <2> QED
      BY <1>k, <1>w, <2>1, <2>2, <2>3 DEF Accounted, Told, AboutToTell
  <1>1. CASE Application
    <2>1. ASSUME NEW o \in Objects, HandleNoCode(o)
          PROVE  Telling'
      BY <2>1 DEF HandleNoCode, provider, history, Telling, TokensOfCall, Told, Accounted,
                  AboutToTell, OwnTokens, TellsAtOnce
    <2>2. ASSUME NEW c \in Calls, NEW o \in Objects, NEW token \in Grants \cup {None},
                 Login(c, o, token)
          PROVE  Telling'
      <3>1. /\ Begins(c, "login", o, "client") /\ calls'[c].token = token
            /\ token = None \/ (token \in Grants /\ told[token] > 0)
            /\ UNCHANGED <<data, closures, granted, told, untold>>
        BY <2>2, BeginEffects DEF provider
      <3>2. Told(calls'[c].token)
        BY <1>0, <3>1 DEF Telling, Told
      <3> QED
        BY <1>b, <3>1, <3>2 DEF RotatedSteps
    <2>3. ASSUME NEW c \in Calls, NEW o \in Objects,
                 \/ Fetch(c, o) \/ Logout(c, o)
                 \/ \E code \in 1..made : HandleCode(c, o, code)
          PROVE  Telling'
      <3>1. /\ \E kind \in {"fetch", "logout", "redirect"}, step \in {"send", "delete", "load"} :
                 Begins(c, kind, o, step)
            /\ calls'[c].token = None
            /\ UNCHANGED <<data, closures, granted, told, untold>>
        BY <2>3, BeginEffects DEF history, provider
      <3>2. Told(calls'[c].token)
        BY <3>1 DEF Told
      <3> QED
        BY <1>b, <3>1, <3>2 DEF RotatedSteps
    <2>4. ASSUME NEW c \in Calls, NEW o \in Objects, Restore(c, o)
          PROVE  Telling'
      <3>1. /\ \/ UNCHANGED calls
               \/ Begins(c, "restore", o, "identify") /\ calls'[c].token = None
            /\ UNCHANGED <<data, closures, granted, told, untold>>
        BY <2>4, BeginEffects DEF provider
      <3>2. CASE UNCHANGED calls
        BY <3>1, <3>2 DEF Telling, TokensOfCall, Told, Accounted, AboutToTell, OwnTokens,
                          TellsAtOnce
      <3>3. CASE Begins(c, "restore", o, "identify") /\ calls'[c].token = None
        BY <1>b, <3>1, <3>3 DEF Told, RotatedSteps
      <3> QED
        BY <3>1, <3>2, <3>3
    <2> QED
      BY <1>1, <2>1, <2>2, <2>3, <2>4 DEF Application
  <1>2. CASE Crash
    <2>1. /\ \A c \in Calls : calls'[c] = NoCall
          /\ \A g \in Grants : closures'[g] = None
          /\ UNCHANGED <<data, granted, told>>
          /\ untold \subseteq untold'
          /\ \A token : AboutToTell(token) => token \in untold'
      BY <1>2 DEF Crash, provider, AboutToTell
    <2>2. (data # Absent => Accounted(data.token))'
      BY <2>1 DEF Telling, Accounted, Told
    <2>3. \A c \in Calls : TokensOfCall(calls[c])'
      BY <2>1 DEF TokensOfCall, Accounted, Told, RotatedSteps, NoCall
    <2>4. TellsAtOnce'
      <3>1. ~Rotates => untold' = {}
        BY <1>2 DEF Crash, Telling, TellsAtOnce, RotatedSteps
      <3> QED
        BY <2>1, <3>1 DEF TellsAtOnce, RotatedSteps
    <2> QED
      BY <2>1, <2>2, <2>3, <2>4 DEF Telling, Told, OwnTokens, RotatedSteps
  <1>3. ASSUME NEW c \in Calls, Continue(c)
        PROVE  Telling'
    <2>0. calls[c] \in Call /\ Shape(calls[c]) /\ TokensOfCall(calls[c])
      BY <1>0
    <2>1. CASE ReadRecord(c)
      <3>1. /\ Keeps(c) /\ UNCHANGED <<data, closures, told, untold, granted>>
            /\ calls[c].step \in SetSteps /\ calls'[c].step = calls[c].step
            /\ calls'[c].copy = IF data = Absent THEN EmptyRecord ELSE data
            /\ calls'[c].token = calls[c].token
        BY <2>1, ReadRecordEffect DEF OnlyCalls, provider, history
      <3>2. calls[c].step # "tell"
        BY <3>1 DEF SetSteps
      <3>3. /\ calls'[c].copy.token \in Grants \cup {None}
            /\ Accounted(calls'[c].copy.token)
        BY <1>0, <3>1 DEF Telling, EmptyRecord, Accounted, Told, Record
      <3>4. TokensOfCall(calls[c])'
        BY <1>k, <2>0, <3>1, <3>2, <3>3 DEF Keeps, TokensOfCall, Call, Accounted, Told, AboutToTell
      <3> QED
        BY <1>q, <3>1, <3>2, <3>4 DEF Keeps
    <2>2. CASE WriteRecord(c)
      <3>1. /\ Keeps(c) /\ UNCHANGED <<closures, told, untold, granted>>
            /\ data' = Update(calls[c]) /\ calls[c].copy # Absent
            /\ calls[c].step \in {"client", "register", "context", "save", "touch"}
            /\ calls'[c].step = Following(calls[c]) /\ calls'[c].copy = Absent
            /\ calls'[c].token = calls[c].token
        BY <2>2, WriteRecordEffect DEF provider, history
      <3>2. Accounted(data.token)'
        BY <1>w, <3>1 DEF Keeps, SetSteps
      <3>3. /\ calls'[c].step \notin RotatedSteps /\ calls[c].step \notin RotatedSteps
            /\ calls'[c].step \in {"save", "touch", "finish", "get"}
                 => calls[c].step \in {"save", "touch"}
        BY <3>1 DEF Following, RotatedSteps
      <3>4. TokensOfCall(calls[c])'
        BY <1>k, <2>0, <3>1, <3>3
        DEF Keeps, TokensOfCall, Call, Accounted, Told, AboutToTell, RotatedSteps
      <3> QED
        BY <1>q, <3>1, <3>2, <3>3, <3>4 DEF Keeps, RotatedSteps
    <2>3. CASE GetClient(c)
      <3>1. /\ Keeps(c) /\ UNCHANGED <<data, closures, told, untold, granted>>
            /\ calls[c].step \in {"identify", "getClient"} /\ calls'[c].copy = Absent
            /\ calls'[c].step \in {"stored", "token", "register"}
            /\ calls'[c].token = calls[c].token
        BY <2>3, GetClientEffect DEF OnlyCalls, provider, history
      <3>2. TokensOfCall(calls[c])'
        BY <1>k, <2>0, <3>1
        DEF Keeps, TokensOfCall, Call, Accounted, Told, AboutToTell, RotatedSteps
      <3> QED
        BY <1>q, <3>1, <3>2 DEF Keeps, RotatedSteps
    <2>4. CASE Choose(c)
      <3>1. /\ Keeps(c) /\ UNCHANGED <<data, closures, told, untold, granted>>
            /\ calls[c].step = "stored" /\ calls[c].kind \in {"login", "restore"}
            /\ calls'[c].copy = Absent /\ calls'[c].step \in {"context", "request"}
            /\ calls'[c].token \in {None, calls[c].token} \cup
                 (IF data = Absent THEN {} ELSE {data.token})
        BY <2>4, ChooseEffect DEF history
      <3>2. calls'[c].token \in Grants \cup {None} /\ Accounted(calls'[c].token)
        BY <1>0, <2>0, <3>1
        DEF Telling, TokensOfCall, Accounted, Told, Call, Record, RotatedSteps
      <3>3. TokensOfCall(calls[c])'
        BY <1>k, <3>1, <3>2
        DEF Keeps, TokensOfCall, Accounted, Told, AboutToTell, RotatedSteps
      <3> QED
        BY <1>q, <3>1, <3>3 DEF Keeps, RotatedSteps
    <2>5. CASE SendUser(c)
      <3>1. /\ Ends(c) /\ UNCHANGED <<closures, told, untold, granted>>
            /\ data' = Update(calls[c]) /\ calls[c].copy # Absent /\ calls[c].step = "request"
        BY <2>5, SendUserEffect DEF history
      <3>2. Accounted(data.token)'
        BY <1>w, <3>1 DEF Ends, SetSteps
      <3> QED
        BY <1>e, <3>1, <3>2
    <2>6. CASE LoadContext(c) \/ Fails(c)
      <3>1. /\ UNCHANGED <<data, closures, told, untold, granted>>
            /\ calls[c].step \notin RotatedSteps
            /\ \/ Ends(c)
               \/ /\ Keeps(c) /\ calls'[c].copy = Absent /\ calls'[c].step = "getClient"
                  /\ calls'[c].token = calls[c].token
        BY <2>6, LoadContextEffect, FailsEffect DEF provider, history, RotatedSteps
      <3>2. CASE Ends(c)
        BY <1>e, <3>1, <3>2 DEF RotatedSteps
      <3>3. CASE ~Ends(c)
        <4>1. TokensOfCall(calls[c])'
          BY <1>k, <2>0, <3>1, <3>3
          DEF Keeps, TokensOfCall, Call, Accounted, Told, AboutToTell, RotatedSteps
        <4> QED
          BY <1>q, <3>1, <3>3, <4>1 DEF Keeps, RotatedSteps
      <3> QED
        BY <3>2, <3>3
    <2>7. ASSUME NEW token \in Grants \cup {None}, CodeRedeemed(c, token)
          PROVE  Telling'
      <3>1. /\ Keeps(c) /\ calls'[c].copy = Absent /\ calls'[c].token = token
            /\ calls[c].step = "token" /\ calls'[c].step \in {"touch", "save"}
            /\ IF token = None THEN UNCHANGED told ELSE Tell(token)
            /\ UNCHANGED <<data, closures, untold>>
            /\ token \in {None, granted'} /\ granted' = granted + 1
        BY <2>7, CodeRedeemedEffect, GrantEffect
      <3>2. token # None => told[token] = 0 /\ told'[token] = 1
        BY <1>0, <3>1, TellTypes DEF Telling
      <3>3. TellsOnce(c) /\ granted <= granted'
        <4>1. \A d \in Calls : calls[d].step \in RotatedSteps => calls[d].token # granted'
          BY <1>0, <3>1 DEF TokensOfCall, Call, None
        <4> QED
          BY <1>0, <3>1, <3>2, <4>1 DEF TellsOnce
      <3>4. TokensOfCall(calls[c])'
        BY <3>1, <3>2 DEF TokensOfCall, Accounted, Told, RotatedSteps
      <3> QED
        BY <1>s, <3>1, <3>3, <3>4, TellingStep DEF Keeps, RotatedSteps
    <2>8. ASSUME NEW token \in Grants \cup {None}, Refreshed(c, token)
          PROVE  Telling'
      <3>1. /\ UNCHANGED <<data, closures, told, untold>>
            /\ token \in {None, granted'} /\ granted' = granted + 1 /\ granted' \in Grants
            /\ calls[c].step = "token" /\ calls[c].kind # "redirect"
            /\ token # None <=> Rotates
            /\ calls[c].token \in live
        BY <2>8, RefreshedEffect, GrantEffect
      <3>2. TellsOnce(c) /\ granted <= granted' /\ granted < granted' /\ told[granted'] = 0
        BY <1>0, <3>1 DEF TellsOnce, Telling
      <3>3. /\ Others(c) /\ TokensOfCall(calls[c])'
            /\ (calls'[c].step \in RotatedSteps => calls'[c].token = granted' /\ Rotates)
        <4>1. CASE Ends(c)
          BY <4>1 DEF Ends, TokensOfCall, Accounted, Told, RotatedSteps, NoCall
        <4>2. CASE Keeps(c) /\ calls'[c].copy = Absent /\ token # None
                   /\ calls'[c].step = "rotated" /\ calls'[c].token = token
          BY <1>0, <3>1, <3>2, <4>2 DEF Keeps, TokensOfCall, RotatedSteps
        <4>3. CASE Keeps(c) /\ calls'[c].copy = Absent /\ token = None
                   /\ calls'[c].step = "save" /\ calls'[c].token = calls[c].token
          \* Without rotation all tokens have been told.
          <5>1. Told(calls[c].token)
            BY <2>0, <3>1, <4>3
            DEF TokensOfCall, Accounted, AboutToTell, Telling, TellsAtOnce, RotatedSteps
          <5> QED
            BY <3>1, <4>3, <5>1 DEF Keeps, TokensOfCall, Accounted, Told, RotatedSteps
        <4> QED
          BY <2>8, <4>1, <4>2, <4>3, RefreshedEffect
      <3> QED
        BY <1>s, <3>1, <3>2, <3>3, TellingStep
    <2>9. ASSUME NEW token \in Grants \cup {None}, AnswerLost(c, token)
          PROVE  Telling'
      <3>1. /\ UNCHANGED <<data, closures, told, untold>> /\ Ends(c) /\ granted' = granted + 1
            /\ calls[c].step = "token"
        BY <2>9, AnswerLostEffect, GrantEffect
      <3>2. TellsOnce(c) /\ granted <= granted' /\ Others(c) /\ TokensOfCall(calls[c])'
        BY <1>0, <3>1 DEF TellsOnce, Ends, TokensOfCall, Accounted, Told, RotatedSteps, NoCall
      <3> QED
        BY <1>s, <3>1, <3>2, TellingStep DEF Ends, RotatedSteps
    <2>10. CASE StoreRotated(c)
      <3>1. /\ Keeps(c) /\ calls[c].step = "rotated" /\ calls'[c].step = "tell"
            /\ calls'[c].copy = Absent /\ calls[c].copy # Absent
            /\ calls[c].token \in Grants /\ calls'[c].token = calls[c].token
            /\ data' = Update(calls[c])
            /\ UNCHANGED <<closures, told, untold, granted>>
        BY <2>10, StoreRotatedEffect DEF provider, history
      <3>2. data'.token = calls'[c].token
        BY <2>0, <3>1, UpdateType DEF SetSteps
      <3>3. Accounted(data.token)'
        BY <3>1, <3>2 DEF Accounted, AboutToTell
      <3>4. TokensOfCall(calls[c])'
        BY <2>0, <3>1 DEF TokensOfCall, RotatedSteps
      <3> QED
        BY <1>q, <3>1, <3>3, <3>4 DEF Keeps, RotatedSteps
    <2>14. CASE TellRotated(c)
      <3> DEFINE token == calls[c].token
      <3>1. /\ calls[c].step = "tell" /\ token \in Grants /\ Tell(token)
            /\ told[token] = 0 /\ token <= granted
            /\ UNCHANGED <<data, untold, granted>>
            /\ told'[token] = 1
        BY <1>0, <2>14, TellRotatedEffect, TellTypes DEF TokensOfCall, RotatedSteps, provider
      <3>2. TellsOnce(c) /\ granted <= granted'
        <4>1. \A d \in Calls : d # c /\ calls[d].step \in RotatedSteps => calls[d].token # token
          BY <3>1 DEF Telling, OwnTokens, RotatedSteps
        <4>2. granted' = granted /\ token <= granted' /\ granted <= granted'
          BY <1>0, <3>1
        <4> HIDE DEF token
        <4>3. TellsOnce(c)
          BY <3>1, <4>1, <4>2, Zenon DEF TellsOnce
        <4> QED
          BY <4>2, <4>3
      <3>3. \A g \in Grants : closures'[g] = closures[g] \/ Told(closures[g])'
        BY <1>0, <2>14, <3>1, TellRotatedEffect DEF Told
      <3>4. /\ Others(c) /\ calls'[c].step \notin RotatedSteps
            /\ TokensOfCall(calls[c])'
        BY <2>14, <3>1, TellRotatedEffect
        DEF Ends, Keeps, TokensOfCall, Accounted, Told, RotatedSteps, NoCall
      <3>5. told'[token] = 1
        BY <3>1
      <3> QED
        BY <1>s, <3>1, <3>2, <3>3, <3>4, <3>5, TellingStep DEF Told
    <2>11. CASE FinishLogin(c) \/ FinishRedirect(c)
      <3>1. /\ UNCHANGED <<told, untold, granted>> /\ Ends(c)
            /\ calls[c].step \in {"finish", "get"}
        BY <2>11, FinishEffect DEF provider, GetsFetch
      <3>2. data' = data \/ Accounted(data.token)'
        BY <1>w, <2>11, <3>1, FinishEffect DEF SetSteps, Ends
      <3>3. \A g \in Grants : closures'[g] = closures[g] \/ closures'[g] = calls[c].token
        BY <1>0, <2>11, FinishEffect DEF GetsFetch
      <3>4. Told(calls[c].token)
        BY <2>0, <3>1 DEF TokensOfCall
      <3>5. \A g \in Grants : closures'[g] = closures[g] \/ Told(closures'[g])
        BY <3>3, <3>4
      <3> QED
        BY <1>e, <3>1, <3>2, <3>5
    <2>12. CASE FetchReturns(c) \/ FetchRefused(c)
      <3>1. /\ UNCHANGED <<data, closures, told, untold, granted>>
            /\ calls[c].step = "send"
            /\ \/ Ends(c)
               \/ /\ Keeps(c) /\ calls'[c].copy = Absent /\ calls'[c].step = "load"
                  /\ calls[c].grant \in Grants /\ calls'[c].token = closures[calls[c].grant]
        BY <2>12, FetchEffect DEF OnlyCalls, provider, history
      <3>2. CASE Ends(c)
        BY <1>e, <3>1, <3>2
      <3>3. CASE ~Ends(c)
        <4>1. Told(closures[calls[c].grant])
          BY <3>1, <3>3 DEF Telling
        <4>2. TokensOfCall(calls[c])'
          BY <3>1, <3>3, <4>1 DEF Keeps, TokensOfCall, Accounted, Told, RotatedSteps
        <4> QED
          BY <1>q, <3>1, <3>3, <4>2 DEF Keeps, RotatedSteps
      <3> QED
        BY <3>2, <3>3
    <2>13. CASE DeleteRecord(c) \/ FinishLogout(c)
      <3>1. /\ UNCHANGED <<closures, told, untold, granted>>
            /\ data' = data \/ data' = Absent
            /\ calls[c].kind = "logout" /\ calls[c].step \in {"delete", "reset"}
            /\ \/ Ends(c)
               \/ /\ Keeps(c) /\ calls'[c].copy = Absent /\ calls'[c].step = "reset"
                  /\ calls'[c].token = calls[c].token
        BY <2>13, LogoutEffect DEF provider
      <3>2. CASE Ends(c)
        BY <1>e, <3>1, <3>2
      <3>3. CASE ~Ends(c)
        <4>1. TokensOfCall(calls[c])'
          BY <1>k, <2>0, <3>1, <3>3
          DEF Keeps, TokensOfCall, Call, Accounted, Told, AboutToTell, RotatedSteps
        <4> QED
          BY <1>q, <3>1, <3>3, <4>1 DEF Keeps, RotatedSteps
      <3> QED
        BY <3>2, <3>3
    <2> QED
      BY <1>3, <2>1, <2>2, <2>3, <2>4, <2>5, <2>6, <2>7, <2>8, <2>9, <2>10, <2>11, <2>12,
         <2>13, <2>14 DEF Continue
  <1>4. CASE UNCHANGED vars
    BY <1>4 DEF vars, provider, history, Telling, TokensOfCall, Told, Accounted, AboutToTell,
                OwnTokens, TellsAtOnce
  <1> QED
    BY <1>1, <1>2, <1>3, <1>4 DEF Next

\* Whatever calls overlap, answers get lost and processes stop: the
\* application is never told of a refresh token twice, it has been told of each
\* one that a fetch holds, and of the one in storage, unless it is about to be
\* or the process stopped after the write of the token and before the callback.
THEOREM ToldOfEachToken == Spec => []ToldOnce
  <1>1. Init => Telling
    BY DEF Init, Telling, TokensOfCall, Told, Accounted, OwnTokens, TellsAtOnce, RotatedSteps,
           NoCall, None
  <1>2. Shapes /\ Telling => ToldOnce
    <2> SUFFICES ASSUME Shapes, Telling PROVE ToldOnce
      OBVIOUS
    <2>1. \A g \in Grants : told[g] <= 1
      BY DEF Telling
    <2>2. ASSUME NEW o \in Objects, sessions[o].fetch # None
          PROVE  Told(closures[sessions[o].fetch])
      BY <2>2 DEF Telling, Shapes, TypeOK, Session
    <2>3. data # Absent => Accounted(data.token)
      BY DEF Telling
    <2> QED
      BY <2>1, <2>2, <2>3 DEF Told, Accounted, AboutToTell, ToldOnce
  <1> QED
    BY <1>1, <1>2, InitShapes, NextShapes, NextTelling, PTL DEF Spec

=============================================================================
