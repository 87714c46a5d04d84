----------------------------- MODULE NodeSession -----------------------------
(***************************************************************************)
(* One session of a Node.js server: the record kept for it in storage, the *)
(* Session objects that the server builds for it, the authenticated fetch  *)
(* of each and the refresh tokens that rotate under them.                  *)
(*                                                                         *)
(* A server handles many requests at a time.  Each call of the API below   *)
(* is a flow whose steps are the operations on the storage (an IStorage,   *)
(* asynchronous) and the requests to the identity provider; flows          *)
(* interleave between them.  StorageUtility.setForUser reads the whole     *)
(* record and later writes it back with some fields changed: these are two *)
(* steps.  The fields are those a flow decides on; consecutive sets that   *)
(* only differ in other fields (idToken, webId, clientSecret...) are one.  *)
(*                                                                         *)
(* The registry of sessions is in SessionRegistry; the storage itself does *)
(* not fail; the application logs in with a client identifier of its own.  *)
(***************************************************************************)
EXTENDS Naturals, FiniteSets

CONSTANTS
  Objects,       \* Session objects, each with its ClientAuthentication
  Calls,         \* calls that can be in progress at once
  Concurrent,    \* the kinds of two calls that the application lets overlap
  Rotates,       \* whether the provider issues a new token on each refresh
  MayFail,       \* whether tokens come without what the call needs, replies
                 \* get lost and the process stops
  MaxRequests,   \* bound: authorization requests
  MaxGrants,     \* bound: successes at the token endpoint
  Absent         \* no record, or a record not read yet

Kinds == {"login", "restore", "redirect", "fetch", "logout"}
Requests == 1..MaxRequests
Grants == 1..MaxGrants
None == 0   \* no request, no refresh token, the plain fetch

\* Mutant: a field that is missing is not given an empty value.
UndefinedRecord == [issuer |-> FALSE, client |-> "none", flow |-> None,
                    token |-> Absent, isLoggedIn |-> FALSE]
\* What setForUser starts from when nothing is stored.
EmptyRecord == [issuer |-> FALSE, client |-> "none", flow |-> None,
                token |-> None, isLoggedIn |-> FALSE]
Record == [issuer : BOOLEAN, client : {"none", "own", "other"},
           flow : Requests \cup {None}, token : Grants \cup {None},
           isLoggedIn : BOOLEAN]

ASSUME NodeAssumption ==
  /\ Concurrent \subseteq SUBSET Kinds
  /\ Rotates \in BOOLEAN
  /\ MayFail \in BOOLEAN
  /\ MaxRequests \in Nat
  /\ MaxGrants \in Nat
  /\ Absent \notin Record

VARIABLES
  data,       \* solidClientAuthenticationUser:<id>, the record of the session
  sessions,   \* sessions[o]: the Session object o and the fetch it uses
  closures,   \* closures[g]: refresh token of the fetch built for grant g
  calls,      \* calls[c]: the call c, its step and what it has read
  made,       \* authorization requests made so far: 1..made
  granted,    \* successes at the token endpoint so far: 1..granted
  codes,      \* codes the provider has issued and not redeemed
  live,       \* refresh tokens the provider accepts
  told,       \* history: told[g], calls of onNewRefreshToken for the token g
  untold,     \* history: tokens stored when the process stopped before telling
  holder,     \* history: the object that got tokens last, None if it failed to
  lost,       \* history: a token the provider rotated to never got stored
  removed     \* history: logged out, and no login begun or under way since

vars == <<data, sessions, closures, calls, made, granted, codes, live, told,
          untold, holder, lost, removed>>
provider == <<made, granted, codes, live>>
history == <<told, untold, holder, lost, removed>>

NewSession == [isLoggedIn |-> FALSE, inProgress |-> FALSE, fetch |-> None,
               bound |-> TRUE]
NoCall == [kind |-> "none", object |-> None, step |-> "none", copy |-> Absent,
           code |-> None, verifier |-> None, client |-> "none",
           token |-> None, grant |-> None]
CallOf(kind, o, step) == [NoCall EXCEPT !.kind = kind, !.object = o, !.step = step]

Init ==
  /\ data = Absent
  /\ sessions = [o \in Objects |-> NewSession]
  /\ closures = [g \in Grants |-> None]
  /\ calls = [c \in Calls |-> NoCall]
  /\ made = 0
  /\ granted = 0
  /\ codes = {}
  /\ live = {}
  /\ told = [g \in Grants |-> 0]
  /\ untold = {}
  /\ holder = None
  /\ lost = FALSE
  /\ removed = FALSE

Running(kinds) == {c \in Calls : calls[c].kind \in kinds}
At(c, step) == calls[c].step = step /\ calls[c].copy = Absent

\* The application starts a call when those in progress may overlap with it.
Begin(c, call) ==
  /\ calls[c] = NoCall
  /\ \A d \in Running(Kinds) : {calls[d].kind, call.kind} \in Concurrent
  /\ calls' = [calls EXCEPT ![c] = call]
Change(c, call) == calls' = [calls EXCEPT ![c] = call]
Goto(c, step) == Change(c, [calls[c] EXCEPT !.step = step])
End(c) == Change(c, NoCall)

-----------------------------------------------------------------------------
(* Calls of the application.                                               *)

\* Session.login with a client identifier, and perhaps a refresh token that
\* the application kept, told to it by onNewRefreshToken.
Login(c, o, token) ==
  /\ sessions[o].bound
  /\ token \in {None} \cup {g \in Grants : told[g] > 0}
  /\ Begin(c, [CallOf("login", o, "client") EXCEPT !.token = token])
  /\ removed' = FALSE
  /\ UNCHANGED <<data, sessions, closures, provider, told, untold, holder, lost>>

\* getSessionFromStorage, in a request that no other request shares o with.
\* It logs in when the record has an issuer and a refresh token.
Restore(c, o) ==
  /\ \A d \in Running(Kinds) : calls[d].object # o
  /\ sessions' = [sessions EXCEPT ![o] = NewSession]
  /\ data # Absent /\ data.issuer
  /\ IF data.token = None
       THEN UNCHANGED <<calls, removed>>
       ELSE Begin(c, CallOf("restore", o, "identify")) /\ removed' = FALSE
  /\ UNCHANGED <<data, closures, provider, told, untold, holder, lost>>

\* Mutant: a call under way is not looked at.
IgnoresProgress(s) == ~s.isLoggedIn
MayHandleRedirect(s) == ~s.isLoggedIn /\ ~s.inProgress

\* Session.handleIncomingRedirect on a URL with a code, whose state parameter
\* leads to the session: nothing ever removes that entry from storage.
HandleCode(c, o, code) ==
  /\ sessions[o].bound
  /\ MayHandleRedirect(sessions[o])
  /\ Begin(c, [CallOf("redirect", o, "load") EXCEPT !.code = code])
  /\ sessions' = [sessions EXCEPT ![o].inProgress = TRUE]
  /\ UNCHANGED <<data, closures, provider, history>>

\* On a URL without a code the object takes the identifier of a new session:
\* what it does from then on is about another record.
HandleNoCode(o) ==
  /\ MayHandleRedirect(sessions[o])
  /\ sessions' = [sessions EXCEPT ![o].bound = FALSE, ![o].fetch = None]
  /\ UNCHANGED <<data, closures, calls, provider, history>>

\* Session.fetch while logged in; the plain fetch otherwise does nothing here.
\* The object's fetch is the one it has now, whatever it is given later.
Fetch(c, o) ==
  /\ sessions[o].bound /\ sessions[o].isLoggedIn
  /\ Begin(c, [CallOf("fetch", o, "send") EXCEPT !.grant = sessions[o].fetch])
  /\ UNCHANGED <<data, sessions, closures, provider, history>>

Logout(c, o) ==
  /\ sessions[o].bound
  /\ Begin(c, CallOf("logout", o, "delete"))
  /\ UNCHANGED <<data, sessions, closures, provider, history>>

-----------------------------------------------------------------------------
(* StorageUtility.setForUser.                                              *)

SetSteps == {"client", "request", "register", "context", "rotated", "save",
             "touch", "finish"}

\* setForUser reads the record; an absent one reads as an empty one.
ReadRecord(c) ==
  /\ calls[c].step \in SetSteps /\ calls[c].copy = Absent
  /\ Change(c, [calls[c] EXCEPT !.copy = IF data = Absent THEN EmptyRecord ELSE data])
  /\ UNCHANGED <<data, sessions, closures, provider, history>>

\* Mutant: a fetch that refreshes its token does not save the new one.
WithTokenOfLogin(call) ==
  IF call.kind = "fetch" THEN call.copy ELSE [call.copy EXCEPT !.token = call.token]
WithToken(call) == [call.copy EXCEPT !.token = call.token]

\* The record a call writes: the one it read, with the fields it sets.
Update(call) ==
  LET r == call.copy IN
  CASE call.step = "client" -> [r EXCEPT !.client = "own"]
    [] call.step = "register" -> [r EXCEPT !.client = "other"]
    [] call.step = "request" -> [r EXCEPT !.issuer = TRUE, !.flow = call.code]
    [] call.step \in {"context", "finish"} ->
         [r EXCEPT !.issuer = TRUE, !.client = call.client]
    [] call.step \in {"rotated", "save"} -> WithToken(call)
    [] call.step = "touch" -> [r EXCEPT !.isLoggedIn = TRUE]

Written(c) == calls[c].copy # Absent /\ data' = Update(calls[c])

\* The step after a set that only changes the record.
Following(call) ==
  CASE call.step = "client" -> "stored"
    [] call.step = "register" ->
         IF call.kind = "restore" /\ call.token = None THEN "stored" ELSE "token"
    [] call.step = "context" -> "load"
    [] call.step = "save" -> "touch"
    [] call.step = "touch" -> IF call.kind = "redirect" THEN "get" ELSE "finish"

WriteRecord(c) ==
  /\ calls[c].step \in {"client", "register", "context", "save", "touch"}
  /\ Written(c)
  /\ Change(c, [calls[c] EXCEPT
       !.copy = Absent,
       !.step = Following(calls[c]),
       !.client = IF calls[c].step = "register" THEN "other" ELSE @])
  /\ UNCHANGED <<sessions, closures, provider, history>>

-----------------------------------------------------------------------------
(* OidcLoginHandler and the handlers it chooses from.                      *)

\* ClientRegistrar.getClient: the stored client, or one to be registered.
GetClient(c) ==
  /\ At(c, "identify") \/ At(c, "getClient")
  /\ IF data # Absent /\ data.client # "none"
       THEN Change(c, [calls[c] EXCEPT !.client = data.client,
              !.step = IF @ = "identify" THEN "stored" ELSE "token"])
       ELSE Goto(c, "register")
  /\ UNCHANGED <<data, sessions, closures, provider, history>>

\* A refresh token, given by the application or else found in storage, makes
\* it a refresh; without one the user has to be redirected.
Choose(c) ==
  LET stored == IF data = Absent THEN None ELSE data.token
      token == IF calls[c].token # None THEN calls[c].token ELSE stored
      client == IF calls[c].kind = "login" THEN "own" ELSE calls[c].client
  IN
  /\ At(c, "stored")
  /\ \/ /\ token # None
        /\ Change(c, [calls[c] EXCEPT
             !.token = token, !.client = client, !.step = "context"])
        /\ UNCHANGED made
     \/ /\ token = None /\ made < MaxRequests
        /\ made' = made + 1
        /\ Change(c, [calls[c] EXCEPT !.code = made', !.step = "request"])
  /\ UNCHANGED <<data, sessions, closures, granted, codes, live, history>>

\* The verifier is stored, and the user sent to the provider, which will send
\* back a code.  A session that is being restored has nobody to send: it
\* throws.
SendUser(c) ==
  /\ calls[c].step = "request"
  /\ Written(c)
  /\ codes' = IF calls[c].kind = "login" THEN codes \cup {calls[c].code} ELSE codes
  /\ End(c)
  /\ UNCHANGED <<sessions, closures, made, granted, live, history>>

\* The call throws, or, for a fetch, returns the response it had got.
Throw(c) ==
  /\ sessions' = IF calls[c].kind = "redirect"
                   THEN [sessions EXCEPT ![calls[c].object].inProgress = FALSE]
                   ELSE sessions
  /\ End(c)

\* Mutant: a missing issuer goes unnoticed.
AnyContext(record) == TRUE
HasContext(record) == record # Absent /\ record.issuer

\* loadOidcContextFromStorage.
LoadContext(c) ==
  /\ At(c, "load")
  /\ IF HasContext(data)
       THEN /\ Change(c, [calls[c] EXCEPT
                 !.verifier = IF data = Absent THEN None ELSE data.flow,
                 !.step = "getClient"])
            /\ UNCHANGED sessions
       ELSE Throw(c)
  /\ UNCHANGED <<data, closures, provider, history>>

\* A request of the call fails or is refused, or its answer is not valid: when
\* it is about to save the tokens that it has got, no valid ID token came along.
Fails(c) ==
  /\ \/ \E step \in {"client", "load", "register", "token"} : At(c, step)
     \/ MayFail /\ At(c, "save")
     \/ MayFail /\ At(c, "touch") /\ calls[c].token = None
  /\ Throw(c)
  /\ UNCHANGED <<data, closures, provider, history>>

-----------------------------------------------------------------------------
(* The token endpoint.                                                     *)

\* A code is honoured once, with the verifier of its request, a refresh token
\* while it is live, and both from the client they were issued to.
Honours(call) ==
  /\ call.client = "own"
  /\ IF call.kind = "redirect"
       THEN call.code \in codes /\ call.verifier = call.code
       ELSE call.token \in live

\* The provider grants tokens: token is the refresh token it issues, if any.
Grant(c, token) ==
  /\ At(c, "token") /\ Honours(calls[c])
  /\ granted < MaxGrants
  /\ granted' = granted + 1
  /\ IF calls[c].kind = "redirect"
       THEN /\ token \in {None, granted'}
            /\ codes' = codes \ {calls[c].code}
            /\ live' = live \cup ({token} \ {None})
       ELSE /\ token = (IF Rotates THEN granted' ELSE None)
            /\ codes' = codes
            /\ live' = IF Rotates THEN (live \ {calls[c].token}) \cup {token} ELSE live
  /\ holder' = None
  /\ UNCHANGED made

\* Mutant: the application is told of rotated tokens only.
TellLater(token) == told' = [told EXCEPT ![token] = IF token = 1 THEN @ ELSE @ + 1]
\* onNewRefreshToken is called.
Tell(token) == told' = [told EXCEPT ![token] = @ + 1]

\* AuthCodeRedirectHandler obtains tokens, and tells of the refresh token.
CodeRedeemed(c, token) ==
  /\ calls[c].kind = "redirect"
  /\ Grant(c, token)
  /\ Change(c, [calls[c] EXCEPT !.token = token, !.grant = granted',
       !.step = IF token = None THEN "touch" ELSE "save"])
  /\ IF token = None THEN UNCHANGED told ELSE Tell(token)
  /\ UNCHANGED <<data, sessions, closures, untold, lost, removed>>

\* TokenRefresher obtains tokens.  Without rotation a fetch is done with the
\* new access token, and a login goes on with the refresh token it had.
Refreshed(c, token) ==
  /\ calls[c].kind # "redirect"
  /\ Grant(c, token)
  /\ LET call == [calls[c] EXCEPT
            !.grant = IF calls[c].kind = "fetch" THEN @ ELSE granted']
     IN IF token # None
          THEN Change(c, [call EXCEPT !.token = token, !.step = "rotated"])
          ELSE IF call.kind = "fetch" THEN End(c)
          ELSE Change(c, [call EXCEPT !.step = "save"])
  /\ UNCHANGED <<data, sessions, closures, told, untold, lost, removed>>

\* The provider grants tokens, and its answer gets lost.
AnswerLost(c, token) ==
  /\ MayFail
  /\ Grant(c, token)
  /\ Throw(c)
  /\ lost' = (lost \/ (Rotates /\ calls[c].kind # "redirect"))
  /\ UNCHANGED <<data, closures, told, untold, removed>>

\* Mutant: a fetch keeps the token it was built with.
HoldFirst(call) ==
  closures' = [closures EXCEPT ![call.grant] = IF @ = None THEN call.token ELSE @]
\* The fetch built for the call's grant holds the call's token from now on.
Hold(call) == closures' = [closures EXCEPT ![call.grant] = call.token]

\* TokenRefresher stores the new refresh token.
StoreRotated(c) ==
  /\ calls[c].step = "rotated"
  /\ Written(c)
  /\ Change(c, [calls[c] EXCEPT !.copy = Absent, !.step = "tell"])
  /\ UNCHANGED <<sessions, closures, provider, history>>

\* Once it is stored the application is told: of a fetch, by the fetch, which
\* uses the token from now on, of a login, by TokenRefresher.
TellRotated(c) ==
  LET call == calls[c] IN
  /\ At(c, "tell")
  /\ Tell(call.token)
  /\ IF call.kind = "fetch"
       THEN Hold(call) /\ holder' = call.object /\ End(c)
       ELSE Goto(c, "save") /\ UNCHANGED <<closures, holder>>
  /\ UNCHANGED <<data, sessions, provider, untold, lost, removed>>

-----------------------------------------------------------------------------
(* The ends of the calls.                                                  *)

\* The object gets the fetch built for the grant.
UseFetch(call, isLoggedIn) ==
  /\ Hold(call)
  /\ holder' = call.object
  /\ sessions' = [sessions EXCEPT ![call.object] =
       [isLoggedIn |-> isLoggedIn, fetch |-> call.grant, bound |-> TRUE,
        inProgress |-> @.inProgress /\ call.kind # "redirect"]]

\* A login with a refresh token ends.
FinishLogin(c) ==
  /\ calls[c].step = "finish"
  /\ Written(c)
  /\ UseFetch(calls[c], TRUE)
  /\ End(c)
  /\ UNCHANGED <<provider, told, untold, lost, removed>>

\* handleIncomingRedirect ends with what SessionInfoManager.get finds.
FinishRedirect(c) ==
  /\ At(c, "get")
  /\ IF HasContext(data)
       THEN UseFetch(calls[c], data.isLoggedIn) /\ End(c)
       ELSE Throw(c) /\ UNCHANGED <<closures, holder>>
  /\ UNCHANGED <<data, provider, told, untold, lost, removed>>

\* The resource answers, or it refuses the access token, twice if the request
\* was redirected, and there is a refresh token to get another one with.
FetchReturns(c) ==
  /\ At(c, "send")
  /\ End(c)
  /\ UNCHANGED <<data, sessions, closures, provider, history>>

FetchRefused(c) ==
  /\ At(c, "send")
  /\ closures[calls[c].grant] # None
  /\ Change(c, [calls[c] EXCEPT !.token = closures[calls[c].grant], !.step = "load"])
  /\ UNCHANGED <<data, sessions, closures, provider, history>>

\* Logout deletes the record, then forgets the fetch.
DeleteRecord(c) ==
  /\ At(c, "delete")
  /\ data' = Absent
  /\ Goto(c, "reset")
  /\ UNCHANGED <<sessions, closures, provider, history>>

FinishLogout(c) ==
  /\ At(c, "reset")
  /\ sessions' = [sessions EXCEPT ![calls[c].object].isLoggedIn = FALSE,
                                  ![calls[c].object].fetch = None]
  /\ removed' = (removed \/ Running({"login", "restore", "redirect"}) = {})
  /\ End(c)
  /\ UNCHANGED <<data, closures, provider, told, untold, holder, lost>>

\* The process stops; the storage is outside of it.
Crash ==
  /\ MayFail
  /\ sessions' = [o \in Objects |-> NewSession]
  /\ closures' = [g \in Grants |-> None]
  /\ calls' = [c \in Calls |-> NoCall]
  /\ lost' = (lost \/ \E c \in Calls : calls[c].step = "rotated")
  /\ untold' = untold \cup {calls[c].token : c \in {d \in Calls : calls[d].step = "tell"}}
  /\ UNCHANGED <<data, provider, told, holder, removed>>

-----------------------------------------------------------------------------
Application ==
  \/ \E o \in Objects : HandleNoCode(o)
  \/ \E c \in Calls, o \in Objects :
       \/ Restore(c, o) \/ Fetch(c, o) \/ Logout(c, o)
       \/ \E token \in Grants \cup {None} : Login(c, o, token)
       \/ \E code \in 1..made : HandleCode(c, o, code)

Continue(c) ==
  \/ ReadRecord(c) \/ WriteRecord(c)
  \/ GetClient(c) \/ Choose(c) \/ SendUser(c) \/ LoadContext(c) \/ Fails(c)
  \/ \E token \in Grants \cup {None} :
       CodeRedeemed(c, token) \/ Refreshed(c, token) \/ AnswerLost(c, token)
  \/ StoreRotated(c) \/ TellRotated(c) \/ FinishLogin(c) \/ FinishRedirect(c)
  \/ FetchReturns(c) \/ FetchRefused(c)
  \/ DeleteRecord(c) \/ FinishLogout(c)

Next == Application \/ Crash \/ \E c \in Calls : Continue(c)

Spec == Init /\ [][Next]_vars

-----------------------------------------------------------------------------
(* Properties.                                                             *)

Session == [isLoggedIn : BOOLEAN, inProgress : BOOLEAN,
            fetch : Grants \cup {None}, bound : BOOLEAN]
Steps == {"none", "identify", "stored", "load", "getClient", "token", "tell",
          "get", "send", "delete", "reset"} \cup SetSteps
Call == [kind : Kinds \cup {"none"}, object : Objects \cup {None}, step : Steps,
         copy : Record \cup {Absent}, code : Requests \cup {None},
         verifier : Requests \cup {None}, client : {"none", "own", "other"},
         token : Grants \cup {None}, grant : Grants \cup {None}]

\* The shape of the state.
TypeOK ==
  /\ data \in Record \cup {Absent}
  /\ sessions \in [Objects -> Session]
  /\ closures \in [Grants -> Grants \cup {None}]
  /\ calls \in [Calls -> Call]
  /\ made \in 0..MaxRequests
  /\ granted \in 0..MaxGrants
  /\ codes \subseteq 1..made
  /\ live \subseteq 1..granted
  /\ told \in [Grants -> Nat]
  /\ untold \subseteq Grants
  /\ holder \in Objects \cup {None}
  /\ lost \in BOOLEAN
  /\ removed \in BOOLEAN

Quiet == Running(Kinds) = {}

\* Rotation never strands the session: whatever fetches refresh their tokens
\* at the same time, and whenever the process stops, the refresh token in
\* storage is one the provider accepts, unless an answer or the process was
\* lost between the provider's rotation and the write that records it.
StoredTokenLive ==
  Quiet /\ ~lost /\ data # Absent /\ data.token # None => data.token \in live

\* Nor does it strand the object that got tokens last, alone or among others:
\* the refresh token its fetch holds is one the provider accepts.
FetchCanRefresh ==
  Quiet /\ ~lost /\ holder # None =>
    LET s == sessions[holder] IN
    s.isLoggedIn /\ closures[s.fetch] # None => closures[s.fetch] \in live

\* The application, which may keep the refresh tokens itself, is never told of
\* one twice; each one that the fetch of an object holds it has been told of;
\* and so it has of the one in storage, unless a call is about to tell, or the
\* process stopped when one was: a token is stored before it is told.
ToldOnce ==
  /\ \A g \in Grants : told[g] <= 1
  /\ \A o \in Objects : LET s == sessions[o] IN
       s.fetch # None /\ closures[s.fetch] # None => told[closures[s.fetch]] = 1
  /\ data # Absent /\ data.token # None =>
       \/ told[data.token] = 1
       \/ data.token \in untold
       \/ \E c \in Calls : calls[c].step = "tell" /\ calls[c].token = data.token

\* A session that was logged out is gone from storage for good: no fetch that
\* was under way or is made later on another object, no code that comes back
\* late and no attempt to restore it writes its record again.
RemovedOnLogout == removed /\ Quiet => data = Absent

\* An object exchanges one code at a time, and whatever becomes of the
\* exchange the object can handle another redirect afterwards.
RedirectsOneAtATime ==
  /\ \A o \in Objects : sessions[o].inProgress <=>
       \E c \in Running({"redirect"}) : calls[c].object = o
  /\ \A c, d \in Running({"redirect"}) : calls[c].object = calls[d].object => c = d
=============================================================================
