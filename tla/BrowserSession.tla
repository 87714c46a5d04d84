---------------------------- MODULE BrowserSession ----------------------------
(***************************************************************************)
(* One tab of a web application that uses the browser package: the Session *)
(* object, the flows it starts through ClientAuthentication, the handlers  *)
(* that complete them, and what survives in window.localStorage when the   *)
(* page is left.  The tab holds one session, the one whose identifier is   *)
(* kept under KEY_CURRENT_SESSION and which the application gives to its   *)
(* Session on each page, with the default storages and DPoP tokens.        *)
(*                                                                         *)
(* The default storages answer within the microtask queue, so an atomic    *)
(* step is the code that runs between two awaits of the network: the steps *)
(* of different flows interleave there, with timers, with the messages of  *)
(* the iframe, with the calls of the application and with the navigation   *)
(* that a redirect has only asked for.                                     *)
(***************************************************************************)
EXTENDS Naturals, FiniteSets

CONSTANTS
  Tasks,         \* flows that can be in progress at once
  MaxRequests,   \* bound: authorization requests made by the application
  MaxTime,       \* bound: the clock
  Lifetimes,     \* what a token response can say in expires_in, or Never
  Never,         \* expires_in is absent: expirationDate is null
  MaxDelay,      \* the longest delay setTimeout can honour
  UsesRenewal    \* whether the application emits "tokenRenewal"

ASSUME BrowserAssumption ==
  /\ MaxRequests \in Nat
  /\ MaxTime \in Nat
  /\ Never \notin Nat
  /\ Lifetimes \subseteq Nat \cup {Never}
  /\ MaxDelay \in Nat
  /\ UsesRenewal \in BOOLEAN

VARIABLES
  storage,   \* window.localStorage
  session,   \* the Session object and the fetch of its ClientAuthentication
  timers,    \* pending setTimeout callbacks of setSessionInfo
  window,    \* the code in the page's URL, the navigations under way
  tasks,     \* tasks[t]: the flow t and the reply it awaits
  made,      \* authorization requests made so far: 1..made
  codes,     \* codes the identity provider issued and has not redeemed
  now,       \* Date.now()
  event,     \* the event the last step emitted
  silent,    \* history: requests made with prompt=none by the main window
  sent,      \* history: codes this page has sent to the token endpoint
  bounces,   \* history: silent redirects since tokens were last obtained
  revoked    \* history: logged out while nothing was under way, no login since

vars == <<storage, session, timers, window, tasks, made, codes, now, event,
          silent, sent, bounces, revoked>>
history == <<silent, sent, bounces, revoked>>

Requests == 1..MaxRequests
None == 0      \* no request: no code, no navigation, the plain fetch

-----------------------------------------------------------------------------
(* State.                                                                  *)

\* solidClientAuthenticationUser:<id> holds what saving and completing a
\* login put there: flow is the request whose code verifier (with its issuer
\* and redirect URL) is stored; states the requests whose state parameter
\* leads back to the session.
EmptyStorage == [idToken |-> FALSE, clientId |-> FALSE, flow |-> None,
                 states |-> {}, currentSession |-> FALSE, currentUrl |-> FALSE]

\* fetch is the request whose tokens authenticate it, None for window.fetch.
NewSession == [isLoggedIn |-> FALSE, expirationDate |-> Never,
               tokenRequestInProgress |-> FALSE, fetch |-> None]

NoTask == [kind |-> "none", step |-> "none", code |-> None,
           verifier |-> None, ownClient |-> FALSE, since |-> 0]

\* What a page that has just been loaded starts with.
FreshPage(location) ==
  /\ session' = NewSession
  /\ timers' = {}
  /\ window' = [location |-> location, navigation |-> None, iframe |-> None]
  /\ tasks' = [t \in Tasks |-> NoTask]
  /\ event' = "none"
  /\ sent' = {}

Init ==
  /\ storage = EmptyStorage
  /\ session = NewSession
  /\ timers = {}
  /\ window = [location |-> None, navigation |-> None, iframe |-> None]
  /\ tasks = [t \in Tasks |-> NoTask]
  /\ made = 0
  /\ codes = {}
  /\ now = 0
  /\ event = "none"
  /\ silent = {}
  /\ sent = {}
  /\ bounces = 0
  /\ revoked = FALSE

Awaits(t, kinds, step) == tasks[t].kind \in kinds /\ tasks[t].step = step
Begin(t, task) == tasks[t] = NoTask /\ tasks' = [tasks EXCEPT ![t] = task]
Goto(t, step) == tasks' = [tasks EXCEPT ![t].step = step]
End(t) == tasks' = [tasks EXCEPT ![t] = NoTask]

Emit(e) == event' = e

\* Mutants: the ID token, or what the exchange of a code needs, is kept.
ClearKeepsToken(s) == [s EXCEPT !.clientId = FALSE, !.flow = None, !.states = {}]
ClearKeepsFlow(s) == [s EXCEPT !.idToken = FALSE]

\* SessionInfoManager.clear and clearOidcPersistentStorage.
Clear(s) == [s EXCEPT !.idToken = FALSE, !.clientId = FALSE, !.flow = None,
                      !.states = {}]

-----------------------------------------------------------------------------
(* Calls of the application.                                               *)

\* Session.login: clears what was known of the session, then fetches the
\* issuer's configuration.
Login(t) ==
  /\ Begin(t, [NoTask EXCEPT !.kind = "login", !.step = "issuer"])
  /\ storage' = Clear(storage)
  /\ Emit("none")
  /\ revoked' = FALSE
  /\ UNCHANGED <<session, timers, window, made, codes, now, silent, sent,
                 bounces>>

\* validateCurrentSession goes to the network only with a current session,
\* an ID token, a client identifier and an issuer in storage.
Restorable(s) == s.currentSession /\ s.idToken /\ s.clientId /\ s.flow # None

\* Mutant: any code is taken for one of the flow in storage.
RedeemableByAnyFlow(s, code) == s.flow # None

\* AuthCodeRedirectHandler.handle throws, before it does anything, when the
\* state leads to no session or the session has no issuer.
Redeemable(s, code) == code \in s.states /\ s.flow # None

Exchange(kind, code) ==
  [NoTask EXCEPT !.kind = kind, !.step = "config", !.code = code]

SilentLogin(kind) == [NoTask EXCEPT !.kind = kind, !.step = "validate"]

\* Mutants: one of the early returns is missing.
IgnoresProgress == ~session.isLoggedIn
IgnoresLogin == ~session.tokenRequestInProgress

\* Neither of the early returns of handleIncomingRedirect.
MayHandleRedirect == ~session.isLoggedIn /\ ~session.tokenRequestInProgress

\* The page's URL carries a code: start exchanging it, or throw.
HandleCode(t) ==
  /\ MayHandleRedirect
  /\ window.location # None
  /\ session' = [session EXCEPT !.tokenRequestInProgress = TRUE]
  /\ \/ /\ Redeemable(storage, window.location)
        /\ Begin(t, Exchange("redirect", window.location))
        /\ storage' = [storage EXCEPT !.currentSession = TRUE]
     \/ /\ ~Redeemable(storage, window.location)
        /\ UNCHANGED <<tasks, storage>>
  /\ Emit("none")
  /\ UNCHANGED <<timers, window, made, codes, now, history>>

\* There is no code: the page is not logged in, and is restored if the
\* application asked for it (restore) and storage allows it.
HandleNoCode(t, restore) ==
  /\ MayHandleRedirect
  /\ window.location = None
  /\ \/ /\ restore /\ Restorable(storage)
        /\ Begin(t, SilentLogin("redirect"))
        /\ session' = [session EXCEPT !.tokenRequestInProgress = TRUE,
                                      !.fetch = None]
     \/ /\ ~(restore /\ Restorable(storage))
        /\ session' = [session EXCEPT !.fetch = None]
        /\ UNCHANGED tasks
  /\ Emit("none")
  /\ UNCHANGED <<storage, timers, window, made, codes, now, history>>

\* The listener of "tokenRenewal": silent authentication in an iframe.
Renew(t) ==
  /\ UsesRenewal
  /\ Restorable(storage)
  /\ Begin(t, SilentLogin("renew"))
  /\ Emit("none")
  /\ UNCHANGED <<storage, session, timers, window, made, codes, now, history>>

\* Nothing is under way that could log the page in.
Quiet ==
  /\ \A t \in Tasks : tasks[t] = NoTask \/ tasks[t].step = "forever"
  /\ window.navigation = None /\ window.iframe = None

\* Mutant: the authenticated fetch outlives the session.
LoggedOutWithFetch(s) == [s EXCEPT !.isLoggedIn = FALSE]

LoggedOut(s) == [s EXCEPT !.isLoggedIn = FALSE, !.fetch = None]

\* Session.logout, called by the application or by a timer.
LogOut ==
  /\ storage' = Clear(storage)
  /\ session' = LoggedOut(session)
  /\ Emit("logout")
  /\ revoked' = (revoked \/ Quiet)
  /\ UNCHANGED <<window, tasks, made, codes, now, silent, sent,
                 bounces>>

Logout == LogOut /\ UNCHANGED timers

TimerFires(timer) ==
  /\ timer.due <= now
  /\ timers' = timers \ {timer}
  /\ LogOut

-----------------------------------------------------------------------------
(* silentlyAuthenticate and the login it starts.                           *)

\* Mutant: the URL of the page is not stored before it is left.
ForgetsUrl(s) == Clear(s)

\* What storage holds once a silent login has begun.
RemembersUrl(s) == [Clear(s) EXCEPT !.currentUrl = TRUE]

\* The ID token is valid: remember where the page was, clear the session and
\* log in again with prompt=none.
TokenValid(t) ==
  /\ Awaits(t, {"redirect", "renew"}, "validate")
  /\ storage' = RemembersUrl(storage)
  /\ Goto(t, "issuer")
  /\ Emit("none")
  /\ UNCHANGED <<session, timers, window, made, codes, now, history>>

\* The ID token is not valid: nothing is restored.
TokenInvalid(t) ==
  /\ Awaits(t, {"redirect", "renew"}, "validate")
  /\ End(t)
  /\ IF tasks[t].kind = "redirect"
       THEN session' = [session EXCEPT !.tokenRequestInProgress = FALSE]
       ELSE UNCHANGED session
  /\ Emit("none")
  /\ UNCHANGED <<storage, timers, window, made, codes, now, history>>

\* The issuer's configuration arrives: the client identifier is stored.
IssuerFetched(t) ==
  /\ Awaits(t, {"redirect", "renew", "login"}, "issuer")
  /\ storage' = [storage EXCEPT !.clientId = TRUE]
  /\ Goto(t, "signin")
  /\ Emit("none")
  /\ UNCHANGED <<session, timers, window, made, codes, now, history>>

\* Mutant: what an abandoned request stored is kept.
SaveFlowOnce(s, request) ==
  [s EXCEPT !.states = @ \cup {request}, !.flow = IF @ = None THEN request ELSE @]

\* The state parameter of the request leads to the session, which holds its
\* code verifier, issuer and redirect URL.
SaveFlow(s, request) ==
  [s EXCEPT !.states = @ \cup {request}, !.flow = request]

\* createSigninRequest succeeds: store what the exchange will need and send
\* the browser (or the iframe) to the identity provider.
SigninCreated(t) ==
  /\ Awaits(t, {"redirect", "renew", "login"}, "signin")
  /\ made < MaxRequests
  /\ made' = made + 1
  /\ storage' = SaveFlow(storage, made')
  /\ IF tasks[t].kind = "renew"
       THEN window' = [window EXCEPT !.iframe = made'] /\ End(t)
       ELSE window' = [window EXCEPT !.navigation = made'] /\ Goto(t, "forever")
  /\ IF tasks[t].kind = "redirect"
       THEN silent' = silent \cup {made'} /\ bounces' = bounces + 1
       ELSE UNCHANGED <<silent, bounces>>
  /\ Emit("none")
  /\ UNCHANGED <<session, timers, codes, now, sent, revoked>>

\* createSigninRequest fails: the error is logged and swallowed, and the
\* caller goes on as if the redirect were on its way.
SigninFails(t) ==
  /\ Awaits(t, {"redirect", "renew", "login"}, "signin")
  /\ IF tasks[t].kind = "renew" THEN End(t) ELSE Goto(t, "forever")
  /\ Emit("none")
  /\ UNCHANGED <<storage, session, timers, window, made, codes, now, history>>

-----------------------------------------------------------------------------
(* AuthCodeRedirectHandler.handle, from the reply to its first request on. *)

\* Ask the token endpoint with the stored code verifier, or throw if there is
\* none.
SendCode(t, ownClient) ==
  \/ /\ storage.flow # None
     /\ tasks' = [tasks EXCEPT ![t] = [@ EXCEPT
          !.step = "token",
          !.verifier = storage.flow,
          !.ownClient = ownClient,
          !.since = now]]
     /\ sent' = sent \cup {tasks[t].code}
  \/ /\ storage.flow = None
     /\ End(t)
     /\ UNCHANGED sent

\* The issuer's configuration arrives.  When the stored client is gone, a new
\* one has to be registered first.
ConfigFetched(t) ==
  /\ Awaits(t, {"redirect", "iframe"}, "config")
  /\ IF storage.clientId
       THEN SendCode(t, TRUE)
       ELSE Goto(t, "register") /\ UNCHANGED sent
  /\ Emit("none")
  /\ UNCHANGED <<storage, session, timers, window, made, codes, now,
                 silent, bounces, revoked>>

ClientRegistered(t) ==
  /\ Awaits(t, {"redirect", "iframe"}, "register")
  /\ storage' = [storage EXCEPT !.clientId = TRUE]
  /\ SendCode(t, FALSE)
  /\ Emit("none")
  /\ UNCHANGED <<session, timers, window, made, codes, now, silent, bounces,
                 revoked>>

Expiration(since, life) == IF life = Never THEN Never ELSE since + life

\* Mutants: a timer even without an expiration date; none for tokens that
\* expired on their way; one that fires at once.
TimerAlways(expiration, code) == {[due |-> expiration, code |-> code]}
TimerForLater(expiration, code) ==
  IF expiration = Never \/ expiration <= now THEN {}
  ELSE {[due |-> expiration, code |-> code]}
TimerAtOnce(expiration, code) ==
  IF expiration = Never THEN {} ELSE {[due |-> now, code |-> code]}

\* setTimeout(logout, expirationDate - Date.now()); a delay that does not fit
\* in its 32 bits is replaced by the shortest one.
Timer(expiration, code) ==
  IF expiration = Never THEN {}
  ELSE {[due |-> IF expiration > now + MaxDelay THEN now ELSE expiration,
         code |-> code]}

\* The identity provider honours a code once, from the client it was issued
\* to and with the verifier of its request.
Honours(task) ==
  task.code \in codes /\ task.verifier = task.code /\ task.ownClient
Response(task) == IF Honours(task) THEN "tokens" ELSE "error"

\* Mutant: an error response is taken for tokens.
AnyResponse(response) == TRUE
\* validateTokenEndpointResponse.
ValidResponse(response) == response # "error"

\* The token endpoint accepts the code.
TokensObtained(t, life) ==
  LET task == tasks[t]
      expiration == Expiration(task.since, life)
  IN
  /\ Awaits(t, {"redirect", "iframe"}, "token")
  /\ ValidResponse(Response(task))
  /\ codes' = codes \ {task.code}
  /\ timers' = timers \cup Timer(expiration, task.code)
  /\ bounces' = 0
  /\ End(t)
  /\ \/ /\ task.kind = "redirect"
        /\ storage' = [storage EXCEPT !.idToken = TRUE, !.currentUrl = FALSE]
        /\ session' = [isLoggedIn |-> TRUE, expirationDate |-> expiration,
                       tokenRequestInProgress |-> FALSE, fetch |-> task.code]
        /\ window' = [window EXCEPT !.location = None]
        /\ Emit(IF storage.currentUrl THEN "sessionRestore" ELSE "login")
     \/ /\ task.kind = "iframe"
        /\ storage' = [storage EXCEPT !.idToken = TRUE]
        /\ session' = [session EXCEPT !.isLoggedIn = TRUE,
                         !.expirationDate = expiration, !.fetch = task.code]
        /\ window' = [window EXCEPT !.location = None, !.iframe = None]
        /\ Emit("none")
  /\ UNCHANGED <<made, now, silent, sent, revoked>>

\* A request of an exchange or of a silent login fails, or is refused: the
\* flow throws.  Nothing resets tokenRequestInProgress.
RequestFails(t) ==
  /\ tasks[t].step \in {"validate", "issuer", "config", "register", "token"}
  /\ End(t)
  /\ \/ UNCHANGED codes
     \/ tasks[t].step = "token" /\ codes' = codes \ {tasks[t].code}
  /\ Emit("none")
  /\ UNCHANGED <<storage, session, timers, window, made, now, history>>

-----------------------------------------------------------------------------
(* The browser and the identity provider.                                  *)

\* The iframe comes back with a code, and posts its URL to the page.
IframeReturnsCode(t) ==
  /\ window.iframe # None
  /\ codes' = codes \cup {window.iframe}
  /\ \/ /\ Redeemable(storage, window.iframe)
        /\ Begin(t, Exchange("iframe", window.iframe))
        /\ storage' = [storage EXCEPT !.currentSession = TRUE]
     \/ /\ ~Redeemable(storage, window.iframe)
        /\ UNCHANGED <<tasks, storage>>
  /\ window' = [window EXCEPT !.iframe = None]
  /\ Emit("none")
  /\ UNCHANGED <<session, timers, made, now, history>>

\* The iframe comes back with an error: there is no code in the URL, so the
\* fallback handler answers, with the plain fetch.
IframeReturnsError ==
  /\ window.iframe # None
  /\ session' = [session EXCEPT !.fetch = None]
  /\ window' = [window EXCEPT !.location = None, !.iframe = None]
  /\ Emit("none")
  /\ UNCHANGED <<storage, timers, tasks, made, codes, now, history>>

\* Codes of requests that were in flight when the page was left may have been
\* redeemed or not.
InFlight == {tasks[t].code : t \in {u \in Tasks : tasks[u].step = "token"}}
LeavePage(issued) ==
  \E lost \in SUBSET InFlight : codes' = (codes \cup issued) \ lost

\* The navigation takes place, and the identity provider sends the browser
\* back: with a code, or with an error.
NavigationReturns ==
  /\ window.navigation # None
  /\ \/ LeavePage({window.navigation}) /\ FreshPage(window.navigation)
     \/ LeavePage({}) /\ FreshPage(None)
  /\ UNCHANGED <<storage, made, now, silent, bounces, revoked>>

\* The user reloads the page, or opens the application at its own address.
Reload ==
  /\ LeavePage({})
  /\ FreshPage(window.location) \/ FreshPage(None)
  /\ UNCHANGED <<storage, made, now, silent, bounces, revoked>>

Tick ==
  /\ now < MaxTime
  /\ now' = now + 1
  /\ Emit("none")
  /\ UNCHANGED <<storage, session, timers, window, tasks, made, codes, history>>

-----------------------------------------------------------------------------
Application ==
  \/ Logout
  \/ \E t \in Tasks : \/ Login(t) \/ HandleCode(t) \/ Renew(t)
                      \/ \E restore \in BOOLEAN : HandleNoCode(t, restore)

Reply(t) ==
  \/ TokenValid(t) \/ TokenInvalid(t) \/ IssuerFetched(t)
  \/ SigninCreated(t) \/ SigninFails(t)
  \/ ConfigFetched(t) \/ ClientRegistered(t)
  \/ \E life \in Lifetimes : TokensObtained(t, life)
  \/ RequestFails(t)

Browser ==
  \/ \E timer \in timers : TimerFires(timer)
  \/ \E t \in Tasks : IframeReturnsCode(t)
  \/ IframeReturnsError \/ NavigationReturns \/ Reload \/ Tick

Next == Application \/ Browser \/ \E t \in Tasks : Reply(t)

Spec == Init /\ [][Next]_vars

\* setTimeout fires, and time goes on.
FairSpec ==
  /\ Spec
  /\ WF_vars(Tick)
  /\ WF_vars(\E timer \in timers : TimerFires(timer))

-----------------------------------------------------------------------------
(* Properties.                                                             *)

Request0 == Requests \cup {None}
Storage == [idToken : BOOLEAN, clientId : BOOLEAN, flow : Request0,
            states : SUBSET Requests, currentSession : BOOLEAN,
            currentUrl : BOOLEAN]
SessionObject == [isLoggedIn : BOOLEAN, expirationDate : Nat \cup {Never},
                  tokenRequestInProgress : BOOLEAN, fetch : Request0]
Window == [location : Request0, navigation : Request0, iframe : Request0]
Task == [kind : {"none", "redirect", "iframe", "login", "renew"},
         step : {"none", "validate", "issuer", "signin", "config", "register",
                 "token", "forever"},
         code : Request0, verifier : Request0, ownClient : BOOLEAN, since : Nat]

\* The shape of the state.
TypeOK ==
  /\ storage \in Storage
  /\ session \in SessionObject
  /\ timers \subseteq [due : Nat, code : Request0]
  /\ window \in Window
  /\ tasks \in [Tasks -> Task]
  /\ made \in 0..MaxRequests
  /\ codes \subseteq Requests
  /\ now \in 0..MaxTime
  /\ event \in {"none", "login", "sessionRestore", "logout"}
  /\ silent \subseteq Requests
  /\ sent \subseteq Request0
  /\ bounces \in 0..made
  /\ revoked \in BOOLEAN

\* A page that is logged in with tokens that expire has a pending timer that
\* logs it out no later than they do.
ExpiryTimerArmed ==
  session.isLoggedIn /\ session.expirationDate # Never =>
    \E timer \in timers : timer.due <= session.expirationDate

\* A timer never logs out a session whose tokens have not expired yet.
NoPrematureLogout ==
  [][timers' # timers /\ event' = "logout" /\ session.isLoggedIn
       => session.expirationDate # Never /\ session.expirationDate <= now]_vars

\* A page that is logged out has no fetch that carries tokens.
FetchNeedsLogin == session.fetch # None => session.isLoggedIn

\* A page that says it is logged in has a fetch that carries its tokens.
LoginGivesFetch == session.isLoggedIn => session.fetch # None

\* A page never sends the same authorization code to the token endpoint twice.
SendsFreshCode ==
  \A t \in Tasks : tasks'[t].step = "token" /\ tasks[t].step # "token"
                     => tasks'[t].code \notin sent
CodeSentOnce == [][SendsFreshCode]_vars

\* Between two successes at the token endpoint the page is sent to the
\* identity provider for a silent login at most once: it never bounces.
BouncesOnce == bounces <= 1

\* A login that completes a silent request of the main window is announced as
\* a restored session, at the URL stored before the page was left.
Completes(code) == session'.fetch = code /\ session.fetch # code
SilentLoginRestores ==
  [][\A code \in silent : Completes(code) => event' = "sessionRestore"]_vars

\* Only a session that was silently authenticated is announced as restored.
RestoreIsSilent ==
  [][event' = "sessionRestore" => session'.fetch \in silent]_vars

\* What a logout leaves behind cannot log the user in again: neither a call of
\* handleIncomingRedirect, with or without a code, nor a reload followed by a
\* silent login, until the application calls login.
LogoutIsFinal == revoked => ~session.isLoggedIn /\ ~storage.idToken

\* A promise that never settles is on a page that is about to be replaced.
HangsOnlyWhenLeaving ==
  (\E t \in Tasks : tasks[t].step = "forever") => window.navigation # None

\* A code goes to the token endpoint with the verifier of its own request, or
\* of one made since, whose flow took the session over: never with that of a
\* request that was abandoned before.
OwnVerifier ==
  \A t \in Tasks :
    tasks[t].step = "token" => tasks[t].verifier \in tasks[t].code..made

\* A session whose tokens have expired is logged out or renewed.
ExpiredSessionEnds ==
  session.isLoggedIn /\ session.expirationDate # Never /\ session.expirationDate <= now
    ~> ~session.isLoggedIn \/ session.expirationDate = Never \/ session.expirationDate > now

\* The fetch of the page only ever carries tokens got for a code that the
\* identity provider issued for a request of this application, one that had
\* not been used before.
Grants == INSTANCE CodeGrant WITH
            open <- {window.navigation, window.iframe} \ {None},
            granted <- codes, credential <- session.fetch
FollowsGrants == Grants!Spec
=============================================================================
