------------------------- MODULE BrowserSessionProofs -------------------------
(***************************************************************************)
(* What holds of BrowserSession for every number of flows, of requests, of *)
(* ticks of the clock, and for every lifetime of the tokens.               *)
(***************************************************************************)
EXTENDS BrowserSession, TLAPS

-----------------------------------------------------------------------------
(* Type correctness.                                                       *)

\* The values that actions give to the parts of the state have their shape.
LEMMA StorageShapes ==
  ASSUME NEW s \in Storage
  PROVE  /\ Clear(s) \in Storage
         /\ RemembersUrl(s) \in Storage
         /\ [s EXCEPT !.clientId = TRUE] \in Storage
         /\ [s EXCEPT !.currentSession = TRUE] \in Storage
         /\ [s EXCEPT !.idToken = TRUE] \in Storage
         /\ [s EXCEPT !.idToken = TRUE, !.currentUrl = FALSE] \in Storage
         /\ \A r \in Requests : [s EXCEPT !.states = @ \cup {r}, !.flow = r] \in Storage
  BY DEF Storage, Clear, RemembersUrl, Request0, None

\* The Session object that each change of it leaves has its shape.
LEMMA SessionShapes ==
  ASSUME NEW s \in SessionObject
  PROVE  /\ LoggedOut(s) \in SessionObject
         /\ \A flag \in BOOLEAN :
              [s EXCEPT !.tokenRequestInProgress = flag] \in SessionObject
         /\ [s EXCEPT !.fetch = None] \in SessionObject
         /\ [s EXCEPT !.tokenRequestInProgress = TRUE, !.fetch = None] \in SessionObject
  BY DEF SessionObject, LoggedOut, Request0, None

\* So have the window,
LEMMA WindowShapes ==
  ASSUME NEW w \in Window
  PROVE  /\ \A r \in Request0 : [w EXCEPT !.iframe = r] \in Window
         /\ \A r \in Request0 : [w EXCEPT !.navigation = r] \in Window
         /\ [w EXCEPT !.location = None] \in Window
         /\ [w EXCEPT !.location = None, !.iframe = None] \in Window
         /\ None \in Request0
         /\ w.iframe \in Request0 /\ w.location \in Request0 /\ w.navigation \in Request0
  BY DEF Window, Request0, None

\* the flows,
LEMMA TaskShapes ==
  ASSUME NEW code \in Request0
  PROVE  /\ NoTask \in Task
         /\ \A kind \in {"redirect", "iframe"} : Exchange(kind, code) \in Task
         /\ \A kind \in {"redirect", "renew"} : SilentLogin(kind) \in Task
         /\ [NoTask EXCEPT !.kind = "login", !.step = "issuer"] \in Task
  BY DEF Task, NoTask, Exchange, SilentLogin, Request0, None

\* and the state of a page that has just been loaded.
LEMMA NewPageShapes ==
  ASSUME NEW location \in Request0
  PROVE  /\ EmptyStorage \in Storage
         /\ NewSession \in SessionObject
         /\ [location |-> location, navigation |-> None, iframe |-> None] \in Window
  BY DEF EmptyStorage, Storage, NewSession, SessionObject, Window, Request0, None

\* The state has its shape at first,
LEMMA TypeInit == Init => TypeOK
<1> SUFFICES ASSUME Init PROVE TypeOK
  OBVIOUS
<1>1. None \in Request0
  BY DEF Request0
<1>2. /\ made \in 0..MaxRequests /\ now \in 0..MaxTime /\ bounces \in 0..made
  BY BrowserAssumption DEF BrowserAssumption, Init
<1>3. tasks \in [Tasks -> Task]
  BY <1>1, TaskShapes DEF Init
<1> QED
  BY <1>1, <1>2, <1>3, NewPageShapes DEF Init, TypeOK

\* A page that has just been loaded has the right shape wherever it is.
LEMMA FreshPageTyped ==
  ASSUME TypeOK, NEW location \in Request0, FreshPage(location),
         codes' \subseteq Requests,
         UNCHANGED <<storage, made, now, silent, bounces, revoked>>
  PROVE  TypeOK'
<1>1. tasks' \in [Tasks -> Task]
  BY TaskShapes DEF FreshPage
<1> QED
  BY <1>1, NewPageShapes DEF TypeOK, FreshPage

\* The changes of a task keep its shape.
LEMMA TaskSteps ==
  ASSUME TypeOK, NEW t \in Tasks
  PROVE  /\ \A task \in Task : Begin(t, task) => tasks' \in [Tasks -> Task]
         /\ \A step \in {"issuer", "signin", "register", "token", "forever"} :
              Goto(t, step) => tasks' \in [Tasks -> Task]
         /\ End(t) => tasks' \in [Tasks -> Task]
<1>1. /\ tasks[t] \in Task /\ NoTask \in Task
  BY TaskShapes DEF TypeOK, Request0
<1>2. ASSUME NEW step \in {"issuer", "signin", "register", "token", "forever"},
             NEW task \in Task
      PROVE  [task EXCEPT !.step = step] \in Task
  BY DEF Task
<1>3. \A step : Goto(t, step) => tasks' = [tasks EXCEPT ![t] = [@ EXCEPT !.step = step]]
  BY DEF Goto
<1> QED
  BY <1>1, <1>2, <1>3 DEF TypeOK, Begin, End

\* and every step keeps it.
LEMMA TypeStep == TypeOK /\ [Next]_vars => TypeOK'
<1> SUFFICES ASSUME TypeOK, [Next]_vars PROVE TypeOK'
  OBVIOUS
<1> USE DEF history
<1>0. /\ storage \in Storage /\ session \in SessionObject /\ window \in Window
      /\ tasks \in [Tasks -> Task] /\ None \in Request0
  BY DEF TypeOK, Request0
<1>a. ASSUME NEW t \in Tasks, Login(t) PROVE TypeOK'
  BY <1>0, <1>a, StorageShapes, TaskShapes, TaskSteps DEF TypeOK, Login, Emit
<1>b. ASSUME NEW t \in Tasks, HandleCode(t) PROVE TypeOK'
  BY <1>0, <1>b, StorageShapes, SessionShapes, WindowShapes, TaskShapes, TaskSteps
  DEF TypeOK, HandleCode, Emit
<1>c. ASSUME NEW t \in Tasks, NEW restore \in BOOLEAN, HandleNoCode(t, restore)
      PROVE TypeOK'
  BY <1>0, <1>c, SessionShapes, TaskShapes, TaskSteps DEF TypeOK, HandleNoCode, Emit
<1>d. ASSUME NEW t \in Tasks, Renew(t) PROVE TypeOK'
  BY <1>0, <1>d, TaskShapes, TaskSteps DEF TypeOK, Renew, Emit
<1>e. ASSUME LogOut, timers' \subseteq timers PROVE TypeOK'
  <2>1. revoked' \in BOOLEAN
    BY <1>e DEF TypeOK, LogOut, Quiet
  <2> QED
    BY <1>0, <1>e, <2>1, StorageShapes, SessionShapes DEF TypeOK, LogOut, Emit
<1>g. ASSUME NEW t \in Tasks, TokenValid(t) PROVE TypeOK'
  BY <1>0, <1>g, StorageShapes, TaskSteps DEF TypeOK, TokenValid, Emit
<1>h. ASSUME NEW t \in Tasks, TokenInvalid(t) PROVE TypeOK'
  BY <1>0, <1>h, SessionShapes, TaskSteps DEF TypeOK, TokenInvalid, Emit
<1>i. ASSUME NEW t \in Tasks, IssuerFetched(t) PROVE TypeOK'
  BY <1>0, <1>i, StorageShapes, TaskSteps DEF TypeOK, IssuerFetched, Emit
<1>j. ASSUME NEW t \in Tasks, SigninCreated(t) PROVE TypeOK'
  <2>1. /\ made' \in 0..MaxRequests /\ made' \in Requests /\ made' \in Request0
        /\ bounces' \in 0..made'
    BY <1>j, BrowserAssumption
    DEF BrowserAssumption, TypeOK, SigninCreated, SaveFlow, Requests, Request0
  <2>2. storage' \in Storage /\ window' \in Window /\ tasks' \in [Tasks -> Task]
    BY <1>0, <1>j, <2>1, StorageShapes, WindowShapes, TaskSteps DEF SigninCreated, SaveFlow
  <2> QED
    BY <1>j, <2>1, <2>2 DEF TypeOK, SigninCreated, SaveFlow, Emit
<1>k. ASSUME NEW t \in Tasks, SigninFails(t) PROVE TypeOK'
  BY <1>0, <1>k, TaskSteps DEF TypeOK, SigninFails, Emit
<1>1. ASSUME NEW t \in Tasks, NEW ownClient \in BOOLEAN, SendCode(t, ownClient),
             Awaits(t, {"redirect", "iframe"}, "config")
               \/ Awaits(t, {"redirect", "iframe"}, "register")
      PROVE tasks' \in [Tasks -> Task] /\ sent' \subseteq Request0
  <2>1. tasks[t] \in Task
    BY <1>0
  <2>2. CASE storage.flow # None /\ tasks' = [tasks EXCEPT ![t] = [@ EXCEPT
          !.step = "token", !.verifier = storage.flow, !.ownClient = ownClient,
          !.since = now]] /\ sent' = sent \cup {tasks[t].code}
    <3>1. storage.flow \in Request0 /\ now \in Nat
      BY BrowserAssumption DEF BrowserAssumption, TypeOK, Storage
    <3>2. [tasks[t] EXCEPT !.step = "token", !.verifier = storage.flow,
             !.ownClient = ownClient, !.since = now] \in Task
      BY <2>1, <3>1 DEF Task
    <3>3. tasks[t].code \in Request0
      BY <2>1 DEF Task
    <3> QED
      BY <1>0, <2>2, <3>2, <3>3 DEF TypeOK
  <2>3. CASE End(t) /\ UNCHANGED sent
    BY <2>3, TaskSteps DEF TypeOK
  <2> QED
    BY <1>1, <2>2, <2>3 DEF SendCode
<1>l. ASSUME NEW t \in Tasks, ConfigFetched(t) PROVE TypeOK'
  BY <1>0, <1>1, <1>l, TaskSteps DEF TypeOK, ConfigFetched, Emit
<1>m. ASSUME NEW t \in Tasks, ClientRegistered(t) PROVE TypeOK'
  BY <1>0, <1>1, <1>m, StorageShapes DEF TypeOK, ClientRegistered, Emit
<1>n. ASSUME NEW t \in Tasks, NEW life \in Lifetimes, TokensObtained(t, life)
      PROVE TypeOK'
  <2> DEFINE expiration == Expiration(tasks[t].since, life)
  <2>1. tasks[t].code \in Request0 /\ tasks[t].since \in Nat
    BY <1>0 DEF Task
  <2>2. expiration \in Nat \cup {Never}
    BY <2>1, BrowserAssumption DEF BrowserAssumption, Expiration
  <2>3. Timer(expiration, tasks[t].code) \subseteq [due : Nat, code : Request0]
    BY <2>1, <2>2, BrowserAssumption DEF BrowserAssumption, TypeOK, Timer
  <2>4. tasks' \in [Tasks -> Task] /\ timers' \subseteq [due : Nat, code : Request0]
    BY <1>n, <2>3, TaskSteps DEF TokensObtained, TypeOK
  <2>5. storage' \in Storage /\ window' \in Window
    BY <1>0, <1>n, StorageShapes, WindowShapes DEF TokensObtained
  <2>8. session' \in SessionObject
    <3>1. \/ session' = [isLoggedIn |-> TRUE, expirationDate |-> expiration,
                         tokenRequestInProgress |-> FALSE, fetch |-> tasks[t].code]
          \/ session' = [session EXCEPT !.isLoggedIn = TRUE,
                           !.expirationDate = expiration, !.fetch = tasks[t].code]
      BY <1>n DEF TokensObtained
    <3> HIDE DEF expiration
    <3>2. [isLoggedIn |-> TRUE, expirationDate |-> expiration,
           tokenRequestInProgress |-> FALSE, fetch |-> tasks[t].code] \in SessionObject
      BY <2>1, <2>2 DEF SessionObject
    <3>3. [session EXCEPT !.isLoggedIn = TRUE, !.expirationDate = expiration,
                          !.fetch = tasks[t].code] \in SessionObject
      BY <1>0, <2>1, <2>2 DEF SessionObject
    <3> QED
      BY <3>1, <3>2, <3>3, Zenon
  <2>6. event' \in {"none", "login", "sessionRestore", "logout"}
    BY <1>n DEF TokensObtained, Emit
  <2>7. bounces' \in 0..made'
    BY <1>n DEF TokensObtained, TypeOK
  <2> QED
    BY <1>n, <2>4, <2>5, <2>6, <2>7, <2>8 DEF TypeOK, TokensObtained
<1>o. ASSUME NEW t \in Tasks, RequestFails(t) PROVE TypeOK'
  BY <1>0, <1>o, TaskSteps DEF TypeOK, RequestFails, Emit
<1>p. ASSUME NEW t \in Tasks, IframeReturnsCode(t) PROVE TypeOK'
  BY <1>0, <1>p, StorageShapes, WindowShapes, TaskShapes, TaskSteps
  DEF TypeOK, IframeReturnsCode, Emit, Request0
<1>q. ASSUME IframeReturnsError PROVE TypeOK'
  BY <1>0, <1>q, SessionShapes, WindowShapes DEF TypeOK, IframeReturnsError, Emit
<1>r. ASSUME NavigationReturns PROVE TypeOK'
  BY <1>0, <1>r, FreshPageTyped, WindowShapes
  DEF TypeOK, NavigationReturns, LeavePage, Request0
<1>s. ASSUME Reload PROVE TypeOK'
  BY <1>0, <1>s, FreshPageTyped, WindowShapes DEF TypeOK, Reload, LeavePage
<1>t. ASSUME Tick PROVE TypeOK'
  BY <1>t, BrowserAssumption DEF BrowserAssumption, TypeOK, Tick, Emit
<1>u. ASSUME UNCHANGED vars PROVE TypeOK'
  BY <1>u DEF TypeOK, vars
<1> QED
  BY <1>a, <1>b, <1>c, <1>d, <1>e, <1>g, <1>h, <1>i, <1>j, <1>k, <1>l,
     <1>m, <1>n, <1>o, <1>p, <1>q, <1>r, <1>s, <1>t, <1>u
  DEF Next, Application, Reply, Browser, Logout, TimerFires

\* The state keeps its shape.
THEOREM TypeCorrect == Spec => []TypeOK
  BY TypeInit, TypeStep, PTL DEF Spec

-----------------------------------------------------------------------------
(* The session, its fetch and its timers.                                  *)

\* Apart from what obtains tokens, a step that leaves the page logged in has
\* found it logged in, keeps its expiration date and all of its timers, and
\* gives its fetch no tokens.
KeepsLogin ==
  /\ session'.fetch \in {session.fetch, None}
  /\ session'.isLoggedIn \/ session'.fetch # None =>
       /\ session'.isLoggedIn = session.isLoggedIn
       /\ session'.expirationDate = session.expirationDate
       /\ timers \subseteq timers'

\* Only obtaining tokens, a timer and a new page touch the login and the timers
\* otherwise than by logging out.
LEMMA OtherStepsKeepLogin ==
  ASSUME TypeOK, FetchNeedsLogin, [Next]_vars,
         ~ \E t \in Tasks, life \in Lifetimes : TokensObtained(t, life)
  PROVE  KeepsLogin
<1> USE DEF KeepsLogin, TypeOK, SessionObject, FetchNeedsLogin
<1>1. ASSUME UNCHANGED <<session, timers>> PROVE KeepsLogin
  BY <1>1
<1>2. ASSUME NEW t \in Tasks, HandleCode(t) PROVE KeepsLogin
  BY <1>2 DEF HandleCode
<1>3. ASSUME NEW t \in Tasks, NEW restore \in BOOLEAN, HandleNoCode(t, restore)
      PROVE KeepsLogin
  BY <1>3 DEF HandleNoCode
<1>4. ASSUME LogOut PROVE KeepsLogin
  BY <1>4 DEF LogOut, LoggedOut
<1>5. ASSUME NEW t \in Tasks, TokenInvalid(t) PROVE KeepsLogin
  BY <1>5 DEF TokenInvalid
<1>6. ASSUME IframeReturnsError PROVE KeepsLogin
  BY <1>6 DEF IframeReturnsError
<1>7. ASSUME NEW location, FreshPage(location) PROVE KeepsLogin
  BY <1>7 DEF FreshPage, NewSession
<1> QED
  BY <1>1, <1>2, <1>3, <1>4, <1>5, <1>6, <1>7
  DEF Next, Application, Reply, Browser, vars, Login, Renew, Logout, TimerFires,
      TokenValid, IssuerFetched, SigninCreated, SaveFlow, SigninFails, ConfigFetched,
      ClientRegistered, RequestFails, IframeReturnsCode, NavigationReturns,
      Reload, Tick

\* A flow that obtains tokens logs the session in with a timer for them.
LEMMA TokensLogIn ==
  ASSUME TypeOK, NEW t \in Tasks, NEW life \in Lifetimes, TokensObtained(t, life)
  PROVE  /\ session'.isLoggedIn
         /\ session'.expirationDate = Expiration(tasks[t].since, life)
         /\ timers' = timers \cup
              Timer(Expiration(tasks[t].since, life), tasks[t].code)
<1> DEFINE expiration == Expiration(tasks[t].since, life)
<1>1. session \in SessionObject
  BY DEF TypeOK
<1>2. /\ timers' = timers \cup Timer(expiration, tasks[t].code)
      /\ \/ session' = [isLoggedIn |-> TRUE, expirationDate |-> expiration,
                       tokenRequestInProgress |-> FALSE, fetch |-> tasks[t].code]
         \/ session' = [session EXCEPT !.isLoggedIn = TRUE,
                         !.expirationDate = expiration, !.fetch = tasks[t].code]
  BY DEF TokensObtained
<1>3. session'.isLoggedIn /\ session'.expirationDate = expiration
  <2> HIDE DEF expiration
  <2>1. CASE session' = [isLoggedIn |-> TRUE, expirationDate |-> expiration,
                         tokenRequestInProgress |-> FALSE, fetch |-> tasks[t].code]
    BY <2>1
  <2>2. CASE session' = [session EXCEPT !.isLoggedIn = TRUE,
                         !.expirationDate = expiration, !.fetch = tasks[t].code]
    <3>1. session'.isLoggedIn = TRUE
      BY <1>1, <2>2 DEF SessionObject
    <3>2. session'.expirationDate = expiration
      BY <1>1, <2>2 DEF SessionObject
    <3> QED
      BY <3>1, <3>2
  <2> QED
    BY <1>2, <2>1, <2>2
<1> QED
  BY <1>2, <1>3

\* A timer is set for every expiration date, and is due by then.
LEMMA TimerInTime ==
  ASSUME TypeOK, NEW expiration \in Nat, NEW code
  PROVE  \E timer \in Timer(expiration, code) : timer.due <= expiration
<1>1. Timer(expiration, code) =
        {[due |-> IF expiration > now + MaxDelay THEN now ELSE expiration,
          code |-> code]}
  BY BrowserAssumption DEF Timer, BrowserAssumption
<1>2. now \in Nat /\ MaxDelay \in Nat
  BY BrowserAssumption DEF TypeOK, BrowserAssumption
<1> QED
  BY <1>1, <1>2

LoginInv == TypeOK /\ ExpiryTimerArmed /\ FetchNeedsLogin

\* Every step keeps the timer and the fetch in line with the login.
LEMMA LoginInvStep == LoginInv /\ [Next]_vars => LoginInv'
<1> SUFFICES ASSUME LoginInv, [Next]_vars PROVE LoginInv'
  OBVIOUS
<1>1. TypeOK'
  BY TypeStep DEF LoginInv
<1>2. CASE \E t \in Tasks, life \in Lifetimes : TokensObtained(t, life)
  <2>1. PICK t \in Tasks, life \in Lifetimes : TokensObtained(t, life)
    BY <1>2
  <2> DEFINE expiration == Expiration(tasks[t].since, life)
  <2>2. /\ session'.isLoggedIn
        /\ session'.expirationDate = expiration
        /\ timers' = timers \cup Timer(expiration, tasks[t].code)
    BY <2>1, TokensLogIn DEF LoginInv
  <2>3. session'.expirationDate \in Nat \cup {Never}
    BY <1>1 DEF TypeOK, SessionObject
  <2>4. session'.expirationDate # Never =>
          \E timer \in timers' : timer.due <= session'.expirationDate
    <3> HIDE DEF expiration
    <3> QED
      BY <2>2, <2>3, TimerInTime DEF LoginInv
  <2> QED
    BY <1>1, <2>2, <2>4 DEF LoginInv, ExpiryTimerArmed, FetchNeedsLogin
<1>3. CASE ~ \E t \in Tasks, life \in Lifetimes : TokensObtained(t, life)
  <2>1. KeepsLogin
    BY <1>3, OtherStepsKeepLogin DEF LoginInv
  <2> QED
    BY <1>1, <2>1 DEF LoginInv, KeepsLogin, ExpiryTimerArmed, FetchNeedsLogin
<1> QED
  BY <1>2, <1>3

\* They are in line at first: the session is logged out.
LEMMA LoginInvInit == Init => LoginInv
  BY TypeInit DEF Init, NewSession, LoginInv, ExpiryTimerArmed, FetchNeedsLogin

\* A page that is logged in with tokens that expire always has a timer that
\* logs it out by then: no flow that obtains tokens forgets it, and nothing
\* takes it away before it has fired.
THEOREM AlwaysArmed == Spec => []ExpiryTimerArmed
<1>1. LoginInv => ExpiryTimerArmed
  BY DEF LoginInv
<1> QED
  BY <1>1, LoginInvInit, LoginInvStep, PTL DEF Spec

\* The fetch of a page that is logged out carries no tokens.
THEOREM NoFetchAfterLogout == Spec => []FetchNeedsLogin
<1>1. LoginInv => FetchNeedsLogin
  BY DEF LoginInv
<1> QED
  BY <1>1, LoginInvInit, LoginInvStep, PTL DEF Spec

-----------------------------------------------------------------------------
(* Logging out.                                                            *)

\* Nothing that a revoked session left behind can be turned into a login: no
\* ID token for a silent login, no state that leads a code to the session, no
\* flow under way.
FinalInv ==
  /\ TypeOK
  /\ revoked => /\ ~session.isLoggedIn /\ ~storage.idToken /\ storage.states = {}
                /\ Quiet

\* The application has not logged out yet when the page is first loaded.
LEMMA FinalInvInit == Init => FinalInv
  BY TypeInit DEF Init, FinalInv

\* After a final logout no step but a call of login leaves anything to log in
\* with.
LEMMA FinalInvStep == FinalInv /\ [Next]_vars => FinalInv'
<1> SUFFICES ASSUME FinalInv, [Next]_vars PROVE FinalInv'
  OBVIOUS
<1>0. TypeOK /\ TypeOK'
  BY TypeStep DEF FinalInv
<1>1. ASSUME Logout \/ \E timer \in timers : TimerFires(timer) PROVE FinalInv'
  <2>1. LogOut
    BY <1>1 DEF Logout, TimerFires
  <2>2. /\ ~session'.isLoggedIn /\ ~storage'.idToken /\ storage'.states = {}
    BY <1>0, <2>1 DEF LogOut, LoggedOut, Clear, TypeOK, SessionObject, Storage
  <2>3. revoked' => Quiet'
    BY <2>1 DEF LogOut, Quiet, FinalInv
  <2> QED
    BY <1>0, <2>2, <2>3 DEF FinalInv
<1>2. ASSUME ~revoked' PROVE FinalInv'
  BY <1>0, <1>2 DEF FinalInv
<1>3. ASSUME revoked, ~ Logout, ~ \E timer \in timers : TimerFires(timer), revoked'
      PROVE FinalInv'
  <2> DEFINE Known == ~session.isLoggedIn /\ ~storage.idToken /\ storage.states = {}
  <2>0. Known /\ Quiet
    BY <1>3 DEF FinalInv
  <2>1. \A t \in Tasks : tasks[t].step \in {"none", "forever"}
    BY <2>0 DEF Quiet, NoTask
  <2>2. ~Restorable(storage) /\ \A code : ~Redeemable(storage, code)
    BY <2>0 DEF Restorable, Redeemable
  <2>3. ASSUME NEW t \in Tasks, Reply(t) PROVE FALSE
    BY <2>1, <2>3 DEF Reply, TokenValid, TokenInvalid, IssuerFetched, SigninCreated, SaveFlow,
      SigninFails, ConfigFetched, ClientRegistered, TokensObtained, RequestFails, Awaits
  <2>4. ASSUME NEW t \in Tasks, Login(t) PROVE FALSE
    BY <1>3, <2>4 DEF Login
  <2>5. ASSUME NEW t \in Tasks, HandleCode(t) PROVE Known' /\ Quiet'
    BY <1>0, <2>0, <2>2, <2>5 DEF HandleCode, Quiet, TypeOK, SessionObject
  <2>6. ASSUME NEW t \in Tasks, NEW restore \in BOOLEAN, HandleNoCode(t, restore)
        PROVE Known' /\ Quiet'
    BY <1>0, <2>0, <2>2, <2>6 DEF HandleNoCode, Quiet, TypeOK, SessionObject
  <2>7. ASSUME FreshPage(window.location) \/ FreshPage(None), UNCHANGED storage
        PROVE Known' /\ Quiet'
    BY <2>0, <2>7 DEF FreshPage, Quiet, NewSession
  <2>8. ASSUME Tick \/ UNCHANGED vars PROVE Known' /\ Quiet'
    BY <2>0, <2>8 DEF Tick, vars, Quiet
  <2>9. Known' /\ Quiet'
    BY <1>3, <2>0, <2>2, <2>3, <2>4, <2>5, <2>6, <2>7, <2>8
    DEF Next, Application, Browser, Renew, IframeReturnsCode, IframeReturnsError,
        NavigationReturns, Reload, Quiet
  <2> QED
    BY <1>0, <2>9 DEF FinalInv
<1>4. ASSUME ~revoked, ~ Logout, ~ \E timer \in timers : TimerFires(timer)
      PROVE ~revoked'
  BY <1>0, <1>4 DEF history, Next, Application, Reply, Browser, vars, Login, HandleCode,
      HandleNoCode, Renew, TokenValid, TokenInvalid, IssuerFetched, SigninCreated, SaveFlow,
      SigninFails, ConfigFetched, ClientRegistered, TokensObtained, RequestFails,
      IframeReturnsCode, IframeReturnsError, NavigationReturns, Reload, Tick
<1> QED
  BY <1>1, <1>2, <1>3, <1>4

\* After a logout with nothing under way, neither handleIncomingRedirect, with
\* whatever code the page's URL still carries, nor a reload and a silent login
\* logs the user in before the application calls login.
THEOREM LogoutFinal == Spec => []LogoutIsFinal
<1>1. FinalInv => LogoutIsFinal
  BY DEF FinalInv, LogoutIsFinal
<1> QED
  BY <1>1, FinalInvInit, FinalInvStep, PTL DEF Spec

-----------------------------------------------------------------------------
(* Authorization codes.                                                    *)

\* Flow t is exchanging its code, or has sent it.
Exchanging(t) == tasks[t].step \in {"config", "register", "token"}

\* No flow of the page has taken code c.
Fresh(c) == c \notin sent /\ \A t \in Tasks : Exchanging(t) => tasks[t].code # c

\* Codes are numbered in the order of their requests.
Numbered ==
  /\ window.location <= made /\ window.navigation <= made /\ window.iframe <= made
  /\ \A c \in sent : c <= made
  /\ \A t \in Tasks : tasks[t].code <= made

\* No two flows have the same code, and a code that has not been sent yet is
\* not known to have been.
OneFlowPerCode ==
  /\ \A t, u \in Tasks :
       Exchanging(t) /\ Exchanging(u) /\ tasks[t].code = tasks[u].code => t = u
  /\ \A t \in Tasks :
       tasks[t].step \in {"config", "register"} => tasks[t].code \notin sent

\* The code in the page's URL is fresh as long as handleIncomingRedirect may
\* take it; so is the one the iframe may come back with.
FreshToCome ==
  /\ window.location # None /\ ~session.tokenRequestInProgress => Fresh(window.location)
  /\ window.iframe # None => Fresh(window.iframe) /\ window.iframe # window.location

\* A silent login of the main window starts where there is no code.
SilentWithoutCode ==
  \A t \in Tasks : tasks[t].step = "validate" /\ tasks[t].kind = "redirect"
                     => window.location = None

CodeInv == TypeOK /\ Numbered /\ OneFlowPerCode /\ FreshToCome /\ SilentWithoutCode

\* Nothing has been sent when the page is first loaded.
LEMMA CodeInvInit == Init => CodeInv
  BY TypeInit DEF Init, CodeInv, Numbered, OneFlowPerCode, FreshToCome,
     SilentWithoutCode, Exchanging, NoTask, None

\* The arithmetic of the shapes, for the steps below.
LEMMA Naturals0 ==
  ASSUME TypeOK
  PROVE  /\ made \in Nat /\ window.location \in Nat /\ window.navigation \in Nat
         /\ window.iframe \in Nat /\ sent \subseteq Nat
         /\ \A t \in Tasks : tasks[t].code \in Nat
  BY BrowserAssumption
  DEF BrowserAssumption, TypeOK, Window, Task, Request0, Requests, None

\* Flow t starts no exchange and sends no code, nor a silent login of the main
\* window while there is a code.
Settled(t) ==
  /\ Exchanging(t)' => /\ Exchanging(t) /\ tasks'[t].code = tasks[t].code
                       /\ (tasks'[t].step = "token" <=> tasks[t].step = "token")
  /\ tasks'[t].code \in {tasks[t].code, None}
  /\ tasks'[t].step = "validate" /\ tasks'[t].kind = "redirect" =>
       \/ window'.location = None
       \/ tasks[t].step = "validate" /\ tasks[t].kind = "redirect"

\* A step in which no flow does, and that brings no code to the page or its
\* iframe.
Settles ==
  /\ \A t \in Tasks : Settled(t)
  /\ sent' = sent
  /\ window'.location \in {window.location, None}
  /\ window'.iframe \in {window.iframe, None}
  /\ window'.navigation <= made'
  /\ made' >= made
  /\ window'.location # None /\ ~session'.tokenRequestInProgress
       => ~session.tokenRequestInProgress

\* Steps after which no flow exchanges a code it did not exchange before.
LEMMA SettlesKeepsCodeInv ==
  ASSUME CodeInv, TypeOK', Settles PROVE CodeInv'
<1>0. TypeOK
  BY DEF CodeInv
<1> USE <1>0, Naturals0 DEF Settles, Settled
<1>1. made' \in Nat
  BY BrowserAssumption DEF BrowserAssumption, TypeOK
<1>2. Numbered'
  BY <1>1 DEF CodeInv, Numbered, None
<1>3. OneFlowPerCode'
  <2>1. \A t \in Tasks : tasks'[t].step \in {"config", "register"} => Exchanging(t)'
    BY DEF Exchanging
  <2>2. \A t \in Tasks : Exchanging(t) /\ tasks[t].step # "token"
                           => tasks[t].step \in {"config", "register"}
    BY DEF Exchanging
  <2> QED
    BY <2>1, <2>2 DEF CodeInv, OneFlowPerCode
<1>4. FreshToCome'
  BY DEF CodeInv, FreshToCome, Fresh
<1>5. SilentWithoutCode'
  BY DEF CodeInv, SilentWithoutCode
<1> QED
  BY <1>2, <1>3, <1>4, <1>5 DEF CodeInv

\* Changing, starting or ending one flow.
LEMMA OneTask ==
  ASSUME TypeOK, NEW t \in Tasks, NEW task, tasks' = [tasks EXCEPT ![t] = task]
  PROVE  /\ tasks'[t] = task
         /\ \A u \in Tasks \ {t} : tasks'[u] = tasks[u]
  BY DEF TypeOK

\* Moving one flow to another step leaves the other flows alone.
LEMMA GotoOne ==
  ASSUME TypeOK, NEW t \in Tasks, NEW step, Goto(t, step)
  PROVE  /\ tasks'[t] = [tasks[t] EXCEPT !.step = step]
         /\ tasks'[t].step = step
         /\ tasks'[t].code = tasks[t].code /\ tasks'[t].kind = tasks[t].kind
         /\ \A u \in Tasks \ {t} : tasks'[u] = tasks[u]
<1>1. tasks[t] \in Task
  BY DEF TypeOK
<1>2. tasks' = [tasks EXCEPT ![t] = [tasks[t] EXCEPT !.step = step]]
  BY DEF Goto
<1>3. tasks'[t] = [tasks[t] EXCEPT !.step = step]
  BY <1>2, OneTask
<1>4. \A u \in Tasks \ {t} : tasks'[u] = tasks[u]
  BY <1>2, OneTask
<1> QED
  BY <1>1, <1>3, <1>4 DEF Task

\* The changes of the flows that start no exchange and send no code.
LEMMA SettledSteps ==
  ASSUME TypeOK, NEW t \in Tasks
  PROVE  /\ tasks' = tasks => \A u \in Tasks : Settled(u)
         /\ End(t) => \A u \in Tasks : Settled(u)
         /\ \A step \in {"issuer", "signin", "forever"} :
              Goto(t, step) => \A u \in Tasks : Settled(u)
         /\ Goto(t, "register") /\ tasks[t].step = "config"
              => \A u \in Tasks : Settled(u)
         /\ Begin(t, [NoTask EXCEPT !.kind = "login", !.step = "issuer"])
              => \A u \in Tasks : Settled(u)
         /\ Begin(t, SilentLogin("renew")) => \A u \in Tasks : Settled(u)
         /\ Begin(t, SilentLogin("redirect")) /\ window'.location = None
              => \A u \in Tasks : Settled(u)
<1> USE DEF Settled, Exchanging
<1>0. ASSUME NEW u \in Tasks, tasks'[u] = tasks[u] PROVE Settled(u)
  BY <1>0
<1>1. ASSUME End(t), NEW u \in Tasks PROVE Settled(u)
  <2>1. tasks'[t] = NoTask
    BY <1>1, OneTask DEF End
  <2>2. NoTask.step = "none" /\ NoTask.code = None
    BY DEF NoTask
  <2>3. u # t => tasks'[u] = tasks[u]
    BY <1>1, OneTask DEF End
  <2> QED
    BY <1>0, <2>1, <2>2, <2>3
<1>2. ASSUME NEW step \in {"issuer", "signin", "forever"}, Goto(t, step), NEW u \in Tasks
      PROVE Settled(u)
  <2>1. /\ tasks'[t].step = step
        /\ tasks'[t].code = tasks[t].code
    BY <1>2, GotoOne
  <2>2. u # t => tasks'[u] = tasks[u]
    BY <1>2, GotoOne
  <2> QED
    BY <1>0, <1>2, <2>1, <2>2
<1>3. ASSUME Goto(t, "register"), tasks[t].step = "config", NEW u \in Tasks
      PROVE Settled(u)
  <2>1. tasks'[t].step = "register" /\ tasks'[t].code = tasks[t].code
    BY <1>3, GotoOne
  <2>2. u # t => tasks'[u] = tasks[u]
    BY <1>3, GotoOne
  <2> QED
    BY <1>0, <1>3, <2>1, <2>2
<1>4. ASSUME NEW task, task.code = None, ~ task.step \in {"config", "register", "token"},
             task.step = "validate" /\ task.kind = "redirect" => window'.location = None,
             Begin(t, task), NEW u \in Tasks
      PROVE Settled(u)
  <2>1. tasks'[t] = task
    BY <1>4, OneTask DEF Begin
  <2>2. u # t => tasks'[u] = tasks[u]
    BY <1>4, OneTask DEF Begin
  <2> QED
    BY <1>0, <1>4, <2>1, <2>2
<1>5. \A u \in Tasks :
        Begin(t, [NoTask EXCEPT !.kind = "login", !.step = "issuer"]) => Settled(u)
  <2> DEFINE task == [NoTask EXCEPT !.kind = "login", !.step = "issuer"]
  <2>1. task.code = None /\ task.step = "issuer"
    BY DEF NoTask
  <2> HIDE DEF task
  <2>2. \A u \in Tasks : Begin(t, task) => Settled(u)
    BY <1>4, <2>1
  <2> QED
    BY <2>2 DEF task
<1>6. \A u \in Tasks : Begin(t, SilentLogin("renew")) => Settled(u)
  <2>1. /\ SilentLogin("renew").code = None /\ SilentLogin("renew").step = "validate"
        /\ SilentLogin("renew").kind = "renew"
    BY DEF NoTask, SilentLogin
  <2> QED
    BY <1>4, <2>1
<1>7. \A u \in Tasks :
        Begin(t, SilentLogin("redirect")) /\ window'.location = None => Settled(u)
  <2>1. /\ SilentLogin("redirect").code = None
        /\ SilentLogin("redirect").step = "validate"
    BY DEF NoTask, SilentLogin
  <2> QED
    BY <1>4, <2>1
<1>8. tasks' = tasks => \A u \in Tasks : Settled(u)
  BY <1>0
<1> HIDE DEF Settled, Exchanging
<1> QED
  BY <1>1, <1>2, <1>3, <1>5, <1>6, <1>7, <1>8

\* handleIncomingRedirect, or the iframe, starts the exchange of a fresh code.
LEMMA ExchangeKeepsCodeInv ==
  ASSUME CodeInv, TypeOK', NEW t \in Tasks, NEW kind \in {"redirect", "iframe"},
         NEW c \in Requests, Fresh(c), c <= made,
         Begin(t, Exchange(kind, c)),
         sent' = sent, made' = made,
         window'.location = window.location, window'.navigation = window.navigation,
         window'.iframe \in {window.iframe, None},
         c # window'.iframe \/ window'.iframe = None,
         window.location # None /\ ~session'.tokenRequestInProgress =>
           c # window.location /\ ~session.tokenRequestInProgress
  PROVE  CodeInv'
<1>0. TypeOK /\ Numbered /\ OneFlowPerCode /\ FreshToCome /\ SilentWithoutCode
  BY DEF CodeInv
<1> USE <1>0, Naturals0
<1>1. /\ tasks'[t].step = "config" /\ tasks'[t].code = c
  <2>1. tasks'[t] = Exchange(kind, c)
    BY OneTask DEF Begin
  <2> QED
    BY <2>1 DEF Exchange, NoTask
<1>2. \A u \in Tasks \ {t} : tasks'[u] = tasks[u]
  BY OneTask DEF Begin
<1>3. Numbered'
  BY <1>1, <1>2 DEF Numbered, None
<1>4. OneFlowPerCode'
  BY <1>1, <1>2 DEF OneFlowPerCode, Exchanging, Fresh
<1>5. FreshToCome'
  BY <1>1, <1>2 DEF FreshToCome, Exchanging, Fresh
<1>6. SilentWithoutCode'
  BY <1>1, <1>2 DEF SilentWithoutCode
<1> QED
  BY <1>3, <1>4, <1>5, <1>6 DEF CodeInv

\* A flow sends its code.
LEMMA SendKeepsCodeInv ==
  ASSUME CodeInv, TypeOK', NEW t \in Tasks, NEW ownClient \in BOOLEAN,
         tasks[t].step \in {"config", "register"},
         SendCode(t, ownClient), UNCHANGED <<session, window, made>>
  PROVE  CodeInv' /\ (tasks'[t].step = "token" => tasks'[t].code \notin sent)
                  /\ \A u \in Tasks \ {t} : tasks'[u] = tasks[u]
<1>0. TypeOK /\ Numbered /\ OneFlowPerCode /\ FreshToCome /\ SilentWithoutCode
  BY DEF CodeInv
<1> USE <1>0, Naturals0
<1>1. CASE End(t) /\ sent' = sent
  <2>1. \A u \in Tasks : Settled(u)
    BY <1>1, SettledSteps
  <2>2. Settles
    BY <1>1, <2>1 DEF Settles, Numbered
  <2>3. tasks'[t] = NoTask /\ \A u \in Tasks \ {t} : tasks'[u] = tasks[u]
    BY <1>1, OneTask DEF End
  <2> QED
    BY <2>2, <2>3, SettlesKeepsCodeInv DEF NoTask
<1>2. CASE /\ tasks' = [tasks EXCEPT ![t] = [@ EXCEPT !.step = "token",
                 !.verifier = storage.flow, !.ownClient = ownClient, !.since = now]]
           /\ sent' = sent \cup {tasks[t].code}
  <2>1. tasks'[t] = [tasks[t] EXCEPT !.step = "token",
           !.verifier = storage.flow, !.ownClient = ownClient, !.since = now]
    BY <1>2, OneTask
  <2>2. tasks'[t].step = "token" /\ tasks'[t].code = tasks[t].code
    <3>1. tasks[t] \in Task
      BY DEF TypeOK
    <3> QED
      BY <2>1, <3>1 DEF Task
  <2>3. \A u \in Tasks \ {t} : tasks'[u] = tasks[u]
    BY <1>2, OneTask
  <2>4. Exchanging(t)
    BY DEF Exchanging
  <2>5. Numbered'
    BY <1>2, <2>2, <2>3 DEF Numbered
  <2>6. OneFlowPerCode'
    BY <1>2, <2>2, <2>3, <2>4 DEF OneFlowPerCode, Exchanging
  <2>7. FreshToCome'
    BY <1>2, <2>2, <2>3, <2>4 DEF FreshToCome, Fresh, Exchanging
  <2>8. SilentWithoutCode'
    BY <2>2, <2>3 DEF SilentWithoutCode
  <2> QED
    BY <2>2, <2>3, <2>5, <2>6, <2>7, <2>8 DEF CodeInv, OneFlowPerCode
<1> QED
  BY <1>1, <1>2 DEF SendCode

\* The iframe is sent to the identity provider with a request of its own.
LEMMA NewIframeKeepsCodeInv ==
  ASSUME CodeInv, TypeOK', \A t \in Tasks : Settled(t), sent' = sent,
         made' = made + 1, window' = [window EXCEPT !.iframe = made'],
         session' = session
  PROVE  CodeInv'
<1>0. TypeOK /\ Numbered /\ OneFlowPerCode /\ FreshToCome /\ SilentWithoutCode
  BY DEF CodeInv
<1> USE <1>0, Naturals0 DEF Settled
<1>1. /\ window'.location = window.location /\ window'.navigation = window.navigation
      /\ window'.iframe = made + 1
  BY DEF TypeOK, Window
<1>2. Numbered'
  BY <1>1 DEF Numbered, None
<1>3. OneFlowPerCode'
  <2>1. \A t \in Tasks : tasks'[t].step \in {"config", "register"} => Exchanging(t)'
    BY DEF Exchanging
  <2>2. \A t \in Tasks : Exchanging(t) /\ tasks[t].step # "token"
                           => tasks[t].step \in {"config", "register"}
    BY DEF Exchanging
  <2> QED
    BY <2>1, <2>2 DEF OneFlowPerCode
<1>4. FreshToCome'
  BY <1>1 DEF FreshToCome, Fresh, Numbered
<1>5. SilentWithoutCode'
  BY <1>1 DEF SilentWithoutCode
<1> QED
  BY <1>2, <1>3, <1>4, <1>5 DEF CodeInv

\* A new page has sent nothing yet.
LEMMA FreshPageKeepsCodeInv ==
  ASSUME CodeInv, TypeOK', made' = made, NEW location \in Request0,
         location <= made, FreshPage(location)
  PROVE  CodeInv'
<1> USE DEF FreshPage
<1>1. made \in Nat
  BY Naturals0 DEF CodeInv
<1>2. \A t \in Tasks : tasks'[t].step = "none" /\ tasks'[t].code = None
  BY DEF NoTask
<1> QED
  BY <1>1, <1>2 DEF CodeInv, Numbered, OneFlowPerCode, FreshToCome, SilentWithoutCode,
     Exchanging, Fresh, None

\* Every step keeps the codes that are under way apart, and sends none twice.
LEMMA CodeInvStep == CodeInv /\ [Next]_vars => CodeInv' /\ SendsFreshCode
<1> SUFFICES ASSUME CodeInv, [Next]_vars PROVE CodeInv' /\ SendsFreshCode
  OBVIOUS
<1>0. TypeOK /\ TypeOK'
  BY TypeStep DEF CodeInv
<1>1. ASSUME Settles PROVE CodeInv' /\ SendsFreshCode
  BY <1>0, <1>1, SettlesKeepsCodeInv DEF Settles, Settled, SendsFreshCode, Exchanging
<1>2. ASSUME UNCHANGED <<sent, made>>, window' = window, session' = session,
             \A t \in Tasks : Settled(t)
      PROVE  Settles
  BY <1>0, <1>2, Naturals0 DEF Settles, CodeInv, Numbered
<1>3. ASSUME NEW t \in Tasks, Begin(t, Exchange("redirect", window.location))
               \/ Begin(t, Exchange("iframe", window.iframe))
      PROVE  SendsFreshCode
  <2>1. PICK kind \in {"redirect", "iframe"}, c \in {window.location, window.iframe} : Begin(t, Exchange(kind, c))
    BY <1>3
  <2>2. tasks'[t] = Exchange(kind, c)
    BY <1>0, <2>1, OneTask DEF Begin
  <2>3. Exchange(kind, c).step = "config"
    BY DEF Exchange, NoTask
  <2>4. \A u \in Tasks \ {t} : tasks'[u] = tasks[u]
    BY <1>0, <2>1, OneTask DEF Begin
  <2> QED
    BY <2>2, <2>3, <2>4 DEF SendsFreshCode
<1>a. ASSUME NEW t \in Tasks, Login(t) PROVE CodeInv' /\ SendsFreshCode
  BY <1>0, <1>1, <1>2, <1>a, SettledSteps DEF Login
<1>b. ASSUME NEW t \in Tasks, HandleCode(t) PROVE CodeInv' /\ SendsFreshCode
  <2>1. /\ ~session.tokenRequestInProgress /\ session'.tokenRequestInProgress
        /\ window' = window /\ sent' = sent /\ made' = made
        /\ window.location # None
    BY <1>0, <1>b DEF HandleCode, MayHandleRedirect, history, TypeOK, SessionObject
  <2>2. /\ Fresh(window.location) /\ window.location <= made
        /\ window.location \in Requests
        /\ window.iframe # None => window.iframe # window.location
    BY <1>0, <2>1 DEF CodeInv, FreshToCome, Numbered, TypeOK, Window, Request0
  <2>3. CASE Begin(t, Exchange("redirect", window.location))
    <3>1. CodeInv'
      BY <1>0, <2>1, <2>2, <2>3, ExchangeKeepsCodeInv
    <3> QED
      BY <1>3, <2>3, <3>1
  <2>4. CASE tasks' = tasks
    <3>1. Settles
      BY <1>0, <2>1, <2>4, Naturals0, SettledSteps DEF Settles, CodeInv, Numbered
    <3> QED
      BY <1>1, <3>1
  <2> QED
    BY <1>b, <2>3, <2>4 DEF HandleCode
<1>c. ASSUME NEW t \in Tasks, NEW restore \in BOOLEAN, HandleNoCode(t, restore)
      PROVE CodeInv' /\ SendsFreshCode
  <2>1. \A u \in Tasks : Settled(u)
    BY <1>0, <1>c, SettledSteps DEF HandleNoCode
  <2>2. Settles
    BY <1>0, <1>c, <2>1, Naturals0 DEF HandleNoCode, history, Settles, CodeInv, Numbered
  <2> QED
    BY <1>1, <2>2
<1>d. ASSUME NEW t \in Tasks, Renew(t) PROVE CodeInv' /\ SendsFreshCode
  BY <1>0, <1>1, <1>2, <1>d, SettledSteps DEF Renew, history
<1>e. ASSUME LogOut PROVE CodeInv' /\ SendsFreshCode
  <2>1. session'.tokenRequestInProgress = session.tokenRequestInProgress
    BY <1>0, <1>e DEF LogOut, LoggedOut, TypeOK, SessionObject
  <2>2. \A u \in Tasks : Settled(u)
    BY <1>e DEF LogOut, Settled, Exchanging
  <2>3. Settles
    BY <1>0, <1>e, <2>1, <2>2, Naturals0 DEF LogOut, Settles, CodeInv, Numbered
  <2> QED
    BY <1>1, <2>3
<1>g. ASSUME NEW t \in Tasks, TokenValid(t) PROVE CodeInv' /\ SendsFreshCode
  BY <1>0, <1>1, <1>2, <1>g, SettledSteps DEF TokenValid, history
<1>h. ASSUME NEW t \in Tasks, TokenInvalid(t) PROVE CodeInv' /\ SendsFreshCode
  <2>1. window'.location = None \/ session' = session
    BY <1>h DEF TokenInvalid, Awaits, CodeInv, SilentWithoutCode
  <2>2. \A u \in Tasks : Settled(u)
    BY <1>0, <1>h, SettledSteps DEF TokenInvalid
  <2>3. Settles
    BY <1>0, <1>h, <2>1, <2>2, Naturals0
    DEF TokenInvalid, history, Settles, CodeInv, Numbered
  <2> QED
    BY <1>1, <2>3
<1>i. ASSUME NEW t \in Tasks, IssuerFetched(t) PROVE CodeInv' /\ SendsFreshCode
  BY <1>0, <1>1, <1>2, <1>i, SettledSteps DEF IssuerFetched, history
<1>j. ASSUME NEW t \in Tasks, SigninCreated(t) PROVE CodeInv' /\ SendsFreshCode
  <2>1. \A u \in Tasks : Settled(u)
    BY <1>0, <1>j, SettledSteps DEF SigninCreated, SaveFlow
  <2>2. CASE window' = [window EXCEPT !.iframe = made']
    <3>1. CodeInv'
      BY <1>0, <1>j, <2>1, <2>2, NewIframeKeepsCodeInv DEF SigninCreated, SaveFlow
    <3> QED
      BY <2>1, <3>1 DEF Settled, SendsFreshCode, Exchanging
  <2>3. CASE window' = [window EXCEPT !.navigation = made']
    <3>1. /\ window'.location = window.location /\ window'.iframe = window.iframe
          /\ window'.navigation = made'
      BY <1>0, <2>3 DEF TypeOK, Window
    <3>2. Settles
      BY <1>0, <1>j, <2>1, <3>1, Naturals0 DEF SigninCreated, SaveFlow, Settles
    <3> QED
      BY <1>1, <3>2
  <2> QED
    BY <1>j, <2>2, <2>3 DEF SigninCreated, SaveFlow
<1>k. ASSUME NEW t \in Tasks, SigninFails(t) PROVE CodeInv' /\ SendsFreshCode
  BY <1>0, <1>1, <1>2, <1>k, SettledSteps DEF SigninFails, history
<1>4. ASSUME NEW t \in Tasks, NEW ownClient \in BOOLEAN, SendCode(t, ownClient),
             tasks[t].step \in {"config", "register"},
             UNCHANGED <<session, window, made>>
      PROVE  CodeInv' /\ SendsFreshCode
  BY <1>0, <1>4, SendKeepsCodeInv DEF SendsFreshCode
<1>l. ASSUME NEW t \in Tasks, ConfigFetched(t) PROVE CodeInv' /\ SendsFreshCode
  BY <1>0, <1>1, <1>2, <1>4, <1>l, SettledSteps DEF ConfigFetched, Awaits
<1>m. ASSUME NEW t \in Tasks, ClientRegistered(t) PROVE CodeInv' /\ SendsFreshCode
  BY <1>4, <1>m DEF ClientRegistered, Awaits
<1>n. ASSUME NEW t \in Tasks, NEW life \in Lifetimes, TokensObtained(t, life)
      PROVE CodeInv' /\ SendsFreshCode
  <2>1. \A u \in Tasks : Settled(u)
    BY <1>0, <1>n, SettledSteps DEF TokensObtained
  <2>2. /\ window'.location = None /\ window'.navigation = window.navigation
        /\ window'.iframe \in {window.iframe, None}
    BY <1>0, <1>n DEF TokensObtained, TypeOK, Window
  <2>3. Settles
    BY <1>0, <1>n, <2>1, <2>2, Naturals0 DEF TokensObtained, Settles, CodeInv, Numbered
  <2> QED
    BY <1>1, <2>3
<1>o. ASSUME NEW t \in Tasks, RequestFails(t) PROVE CodeInv' /\ SendsFreshCode
  BY <1>0, <1>1, <1>2, <1>o, SettledSteps DEF RequestFails, history
<1>p. ASSUME NEW t \in Tasks, IframeReturnsCode(t) PROVE CodeInv' /\ SendsFreshCode
  <2>1. /\ window'.location = window.location /\ window'.navigation = window.navigation
        /\ window'.iframe = None
        /\ sent' = sent /\ made' = made /\ session' = session
    BY <1>0, <1>p DEF IframeReturnsCode, history, TypeOK, Window
  <2>2. /\ Fresh(window.iframe) /\ window.iframe <= made /\ window.iframe \in Requests
        /\ window.iframe # window.location
    BY <1>0, <1>p DEF IframeReturnsCode, CodeInv, FreshToCome, Numbered, TypeOK,
       Window, Request0
  <2>3. CASE Begin(t, Exchange("iframe", window.iframe))
    <3>1. CodeInv'
      BY <1>0, <2>1, <2>2, <2>3, ExchangeKeepsCodeInv
    <3> QED
      BY <1>3, <2>3, <3>1
  <2>4. CASE tasks' = tasks
    <3>1. Settles
      BY <1>0, <2>1, <2>4, Naturals0, SettledSteps DEF Settles, CodeInv, Numbered
    <3> QED
      BY <1>1, <3>1
  <2> QED
    BY <1>p, <2>3, <2>4 DEF IframeReturnsCode
<1>q. ASSUME IframeReturnsError PROVE CodeInv' /\ SendsFreshCode
  <2>1. /\ window'.location = None /\ window'.navigation = window.navigation
        /\ window'.iframe = None
        /\ session'.tokenRequestInProgress = session.tokenRequestInProgress
    BY <1>0, <1>q DEF IframeReturnsError, TypeOK, Window, SessionObject
  <2>2. Settles
    BY <1>0, <1>q, <2>1, Naturals0
    DEF IframeReturnsError, history, Settles, Settled, Exchanging, CodeInv, Numbered
  <2> QED
    BY <1>1, <2>2
<1>5. ASSUME NEW location \in Request0, location <= made, FreshPage(location), made' = made
      PROVE CodeInv' /\ SendsFreshCode
  <2>1. CodeInv'
    BY <1>0, <1>5, FreshPageKeepsCodeInv
  <2>2. \A t \in Tasks : tasks'[t].step = "none"
    BY <1>5 DEF FreshPage, NoTask
  <2> QED
    BY <2>1, <2>2 DEF SendsFreshCode
<1>6. /\ window.location <= made /\ window.navigation <= made /\ None <= made
      /\ window.location \in Request0 /\ window.navigation \in Request0
      /\ None \in Request0
  BY <1>0, Naturals0 DEF CodeInv, Numbered, TypeOK, Window, Request0, None
<1>r. ASSUME NavigationReturns PROVE CodeInv' /\ SendsFreshCode
  BY <1>5, <1>6, <1>r DEF NavigationReturns
<1>s. ASSUME Reload PROVE CodeInv' /\ SendsFreshCode
  BY <1>5, <1>6, <1>s DEF Reload
<1>t. ASSUME Tick \/ UNCHANGED vars PROVE CodeInv' /\ SendsFreshCode
  <2>1. tasks' = tasks /\ window' = window /\ session' = session
        /\ UNCHANGED <<sent, made>>
    BY <1>t DEF Tick, vars, history
  <2>2. \A u \in Tasks : Settled(u)
    BY <2>1 DEF Settled, Exchanging
  <2> QED
    BY <1>1, <1>2, <2>1, <2>2
<1> QED
  BY <1>a, <1>b, <1>c, <1>d, <1>e, <1>g, <1>h, <1>i, <1>j, <1>k, <1>l,
     <1>m, <1>n, <1>o, <1>p, <1>q, <1>r, <1>s, <1>t
  DEF Next, Application, Reply, Browser, Logout, TimerFires

\* However the flows of a page interleave, with each other, with logouts and
\* with the messages of the iframe, the page never sends the same code twice.
THEOREM NoCodeSentTwice == Spec => CodeSentOnce
  BY CodeInvInit, CodeInvStep, PTL DEF Spec, CodeSentOnce
=============================================================================
