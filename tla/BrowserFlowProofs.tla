--------------------------- MODULE BrowserFlowProofs ---------------------------
(***************************************************************************)
(* Theorems about BrowserSession that relate the flows of a page to each   *)
(* other and to what earlier pages left in storage: verifiers, the         *)
(* refinement of CodeGrant, silent logins, and, without renewal in an      *)
(* iframe, bounces, the fetch of a page that is logged in, and its timers. *)
(***************************************************************************)
EXTENDS BrowserSessionProofs

-----------------------------------------------------------------------------
(* What the actions do to the fields that matter below.                    *)

Others(t) == \A u \in Tasks : u # t => tasks'[u] = tasks[u]

\* Flow t begins, goes on or ends.
Begins(t, kind, step, code) ==
  /\ tasks'[t].kind = kind /\ tasks'[t].step = step /\ tasks'[t].code = code
  /\ tasks[t] = NoTask /\ Others(t)
Continues(t, step) ==
  /\ tasks'[t].step = step
  /\ tasks'[t].kind = tasks[t].kind /\ tasks'[t].code = tasks[t].code
  /\ Others(t)
Ends(t) == tasks'[t] = NoTask /\ Others(t)

SameStorage ==
  /\ storage'.idToken = storage.idToken /\ storage'.flow = storage.flow
  /\ storage'.states = storage.states /\ storage'.currentUrl = storage.currentUrl
Cleared == ~storage'.idToken /\ storage'.flow = None /\ storage'.states = {}

SameLogin ==
  /\ session'.isLoggedIn = session.isLoggedIn
  /\ session'.expirationDate = session.expirationDate
SameProgress == session'.tokenRequestInProgress = session.tokenRequestInProgress

LEMMA NoTaskFields ==
  NoTask.kind = "none" /\ NoTask.step = "none" /\ NoTask.code = None /\ NoTask.since = 0
  BY DEF NoTask

LEMMA StorageFields ==
  ASSUME NEW s \in Storage
  PROVE  /\ ~Clear(s).idToken /\ Clear(s).flow = None /\ Clear(s).states = {}
         /\ Clear(s).currentUrl = s.currentUrl
         /\ ~RemembersUrl(s).idToken /\ RemembersUrl(s).flow = None
         /\ RemembersUrl(s).states = {} /\ RemembersUrl(s).currentUrl
  BY DEF Storage, Clear, RemembersUrl

LEMMA BeginsFlow ==
  ASSUME TypeOK, NEW t \in Tasks
  PROVE  /\ \A code : \A kind :
              Begin(t, Exchange(kind, code)) => Begins(t, kind, "config", code)
         /\ \A kind : Begin(t, SilentLogin(kind)) => Begins(t, kind, "validate", None)
         /\ Begin(t, [NoTask EXCEPT !.kind = "login", !.step = "issuer"]) =>
              Begins(t, "login", "issuer", None)
  <1>1. ASSUME NEW task, Begin(t, task)
        PROVE  Begins(t, task.kind, task.step, task.code)
    BY <1>1 DEF Begin, Begins, Others, TypeOK
  <1>2. ASSUME NEW code, NEW kind
        PROVE  /\ Exchange(kind, code).kind = kind /\ Exchange(kind, code).step = "config"
               /\ Exchange(kind, code).code = code
    BY DEF Exchange, NoTask
  <1>3. ASSUME NEW kind
        PROVE  /\ SilentLogin(kind).kind = kind /\ SilentLogin(kind).step = "validate"
               /\ SilentLogin(kind).code = None
    BY DEF SilentLogin, NoTask
  <1>4. ASSUME NEW task, task = [NoTask EXCEPT !.kind = "login", !.step = "issuer"]
        PROVE  task.kind = "login" /\ task.step = "issuer" /\ task.code = None
    BY <1>4 DEF NoTask
  <1>5. ASSUME NEW code, NEW kind, Begin(t, Exchange(kind, code))
        PROVE  Begins(t, kind, "config", code)
    BY <1>1, <1>2, <1>5
  <1>6. ASSUME NEW kind, Begin(t, SilentLogin(kind))
        PROVE  Begins(t, kind, "validate", None)
    BY <1>1, <1>3, <1>6
  <1>7. ASSUME NEW task, task = [NoTask EXCEPT !.kind = "login", !.step = "issuer"],
               Begin(t, task)
        PROVE  Begins(t, "login", "issuer", None)
    BY <1>1, <1>4, <1>7
  <1> QED
    BY <1>5, <1>6, <1>7

LEMMA FlowMoves ==
  ASSUME TypeOK, NEW t \in Tasks
  PROVE  /\ \A step : Goto(t, step) =>
              Continues(t, step) /\ tasks'[t].since = tasks[t].since
         /\ End(t) => Ends(t)
  <1>1. ASSUME NEW step, Goto(t, step)
        PROVE  Continues(t, step) /\ tasks'[t].since = tasks[t].since
    <2>1. tasks'[t] = [tasks[t] EXCEPT !.step = step] /\ Others(t)
      BY <1>1, GotoOne DEF Others
    <2> QED
      BY <2>1 DEF Continues, TypeOK, Task
  <1>2. End(t) => Ends(t)
    BY DEF End, Ends, Others, TypeOK
  <1> QED
    BY <1>1, <1>2

\* Calls of the application.
LEMMA ApplicationEffects ==
  ASSUME TypeOK, NEW t \in Tasks
  PROVE  /\ Login(t) =>
              /\ Begins(t, "login", "issuer", None)
              /\ Cleared /\ storage'.currentUrl = storage.currentUrl
              /\ UNCHANGED <<session, timers, window, made, codes, now, silent, bounces>>
         /\ HandleCode(t) =>
              /\ MayHandleRedirect /\ window.location # None
              /\ SameLogin /\ session'.fetch = session.fetch
              /\ session'.tokenRequestInProgress
              /\ \/ /\ Begins(t, "redirect", "config", window.location)
                    /\ Redeemable(storage, window.location)
                 \/ UNCHANGED tasks
              /\ SameStorage
              /\ UNCHANGED <<timers, window, made, codes, now, silent, bounces>>
         /\ \A restore \in BOOLEAN : HandleNoCode(t, restore) =>
              /\ MayHandleRedirect /\ window.location = None
              /\ SameLogin /\ session'.fetch = None
              /\ \/ /\ Begins(t, "redirect", "validate", None)
                    /\ storage.idToken /\ session'.tokenRequestInProgress
                 \/ UNCHANGED tasks /\ SameProgress
              /\ UNCHANGED <<storage, timers, window, made, codes, now, silent, bounces>>
         /\ Renew(t) =>
              /\ UsesRenewal /\ Begins(t, "renew", "validate", None)
              /\ UNCHANGED <<storage, session, timers, window, made, codes, now, silent,
                             bounces>>
  <1>0. storage \in Storage /\ session \in SessionObject
    BY DEF TypeOK
  <1>1. Login(t) =>
          /\ Begins(t, "login", "issuer", None)
          /\ Cleared /\ storage'.currentUrl = storage.currentUrl
          /\ UNCHANGED <<session, timers, window, made, codes, now, silent, bounces>>
    BY <1>0, BeginsFlow, StorageFields DEF Login, Cleared
  <1>2. HandleCode(t) =>
          /\ MayHandleRedirect /\ window.location # None
          /\ SameLogin /\ session'.fetch = session.fetch
          /\ session'.tokenRequestInProgress
          /\ UNCHANGED <<timers, window, made, codes, now, silent, bounces>>
    BY <1>0 DEF HandleCode, SameLogin, SessionObject, history
  <1>3. HandleCode(t) =>
          /\ SameStorage
          /\ \/ /\ Begins(t, "redirect", "config", window.location)
                /\ Redeemable(storage, window.location)
             \/ UNCHANGED tasks
    BY <1>0, BeginsFlow DEF HandleCode, SameStorage, Storage
  <1>4. ASSUME NEW restore \in BOOLEAN, HandleNoCode(t, restore)
        PROVE  /\ MayHandleRedirect /\ window.location = None
               /\ SameLogin /\ session'.fetch = None
               /\ UNCHANGED <<storage, timers, window, made, codes, now, silent, bounces>>
    BY <1>0, <1>4 DEF HandleNoCode, SameLogin, SessionObject, history
  <1>5. ASSUME NEW restore \in BOOLEAN, HandleNoCode(t, restore)
        PROVE  \/ /\ Begins(t, "redirect", "validate", None)
                  /\ storage.idToken /\ session'.tokenRequestInProgress
               \/ UNCHANGED tasks /\ SameProgress
    BY <1>0, <1>5, BeginsFlow DEF HandleNoCode, Restorable, SessionObject, SameProgress
  <1>6. Renew(t) =>
          /\ UsesRenewal /\ Begins(t, "renew", "validate", None)
          /\ UNCHANGED <<storage, session, timers, window, made, codes, now, silent, bounces>>
    BY BeginsFlow DEF Renew, history
  <1> QED
    BY <1>1, <1>2, <1>3, <1>4, <1>5, <1>6

LEMMA LogOutEffect ==
  ASSUME TypeOK, LogOut
  PROVE  /\ Cleared /\ storage'.currentUrl = storage.currentUrl
         /\ ~session'.isLoggedIn /\ session'.fetch = None /\ SameProgress
         /\ UNCHANGED <<window, tasks, made, codes, now, silent, bounces>>
  BY StorageFields DEF TypeOK, SessionObject, LogOut, LoggedOut, Cleared, SameProgress

\* The steps of a login, up to its request.
LEMMA RequestEffects ==
  ASSUME TypeOK, NEW t \in Tasks
  PROVE  /\ TokenValid(t) =>
              /\ tasks[t].step = "validate" /\ Continues(t, "issuer")
              /\ Cleared /\ storage'.currentUrl
              /\ UNCHANGED <<session, timers, window, made, codes, now, silent, bounces>>
         /\ TokenInvalid(t) =>
              /\ tasks[t].step = "validate" /\ Ends(t)
              /\ SameLogin /\ session'.fetch = session.fetch
              /\ SameProgress \/ tasks[t].kind = "redirect"
              /\ UNCHANGED <<storage, timers, window, made, codes, now, silent, bounces>>
         /\ IssuerFetched(t) =>
              /\ tasks[t].step = "issuer" /\ Continues(t, "signin")
              /\ SameStorage
              /\ UNCHANGED <<session, timers, window, made, codes, now, silent, bounces>>
         /\ SigninFails(t) =>
              /\ tasks[t].step = "signin"
              /\ Ends(t) \/ Continues(t, "forever")
              /\ UNCHANGED <<storage, session, timers, window, made, codes, now, silent,
                             bounces>>
  <1>0. storage \in Storage /\ session \in SessionObject
    BY DEF TypeOK
  <1>1. TokenValid(t) =>
          /\ tasks[t].step = "validate" /\ Continues(t, "issuer")
          /\ Cleared /\ storage'.currentUrl
          /\ UNCHANGED <<session, timers, window, made, codes, now, silent, bounces>>
    BY <1>0, FlowMoves, StorageFields DEF TokenValid, Awaits, Cleared, history
  <1>2. TokenInvalid(t) =>
          /\ tasks[t].step = "validate" /\ Ends(t)
          /\ SameLogin /\ session'.fetch = session.fetch
          /\ SameProgress \/ tasks[t].kind = "redirect"
          /\ UNCHANGED <<storage, timers, window, made, codes, now, silent, bounces>>
    BY <1>0, FlowMoves
    DEF TokenInvalid, Awaits, SameLogin, SameProgress, SessionObject, history
  <1>3. IssuerFetched(t) =>
          /\ tasks[t].step = "issuer" /\ Continues(t, "signin")
          /\ SameStorage
          /\ UNCHANGED <<session, timers, window, made, codes, now, silent, bounces>>
    BY <1>0, FlowMoves DEF IssuerFetched, Awaits, SameStorage, Storage, history
  <1>4. SigninFails(t) =>
          /\ tasks[t].step = "signin"
          /\ Ends(t) \/ Continues(t, "forever")
          /\ UNCHANGED <<storage, session, timers, window, made, codes, now, silent, bounces>>
    BY FlowMoves DEF SigninFails, Awaits, history
  <1> QED
    BY <1>1, <1>2, <1>3, <1>4

LEMMA SigninEffect ==
  ASSUME TypeOK, NEW t \in Tasks, SigninCreated(t)
  PROVE  /\ tasks[t].step = "signin" /\ tasks[t].kind \in {"redirect", "renew", "login"}
         /\ made' = made + 1 /\ made' \in Requests
         /\ storage'.flow = made' /\ storage'.states = storage.states \cup {made'}
         /\ storage'.idToken = storage.idToken /\ storage'.currentUrl = storage.currentUrl
         /\ window'.location = window.location
         /\ IF tasks[t].kind = "renew"
              THEN /\ Ends(t) /\ window'.iframe = made'
                   /\ window'.navigation = window.navigation
              ELSE /\ Continues(t, "forever") /\ window'.navigation = made'
                   /\ window'.iframe = window.iframe
         /\ IF tasks[t].kind = "redirect"
              THEN silent' = silent \cup {made'} /\ bounces' = bounces + 1
              ELSE UNCHANGED <<silent, bounces>>
         /\ UNCHANGED <<session, timers, codes, now>>
  <1>0. storage \in Storage /\ window \in Window
    BY DEF TypeOK
  <1>1. made' = made + 1 /\ made' \in Requests
    BY BrowserAssumption DEF TypeOK, SigninCreated, Requests
  <1>2. /\ storage'.flow = made' /\ storage'.states = storage.states \cup {made'}
        /\ storage'.idToken = storage.idToken /\ storage'.currentUrl = storage.currentUrl
    BY <1>0 DEF SigninCreated, SaveFlow, Storage
  <1>3. /\ window'.location = window.location
        /\ IF tasks[t].kind = "renew"
              THEN window'.iframe = made' /\ window'.navigation = window.navigation
              ELSE window'.navigation = made' /\ window'.iframe = window.iframe
    BY <1>0 DEF SigninCreated, Window
  <1>4. IF tasks[t].kind = "renew" THEN Ends(t) ELSE Continues(t, "forever")
    BY FlowMoves DEF SigninCreated
  <1> QED
    BY <1>1, <1>2, <1>3, <1>4 DEF SigninCreated, Awaits

\* The steps of an exchange.
LEMMA SendCodeEffect ==
  ASSUME TypeOK, NEW t \in Tasks, NEW ownClient, SendCode(t, ownClient)
  PROVE  \/ /\ Continues(t, "token") /\ storage.flow # None
            /\ tasks'[t].verifier = storage.flow /\ tasks'[t].since = now
         \/ Ends(t)
  <1>1. CASE End(t)
    BY <1>1, FlowMoves
  <1>2. CASE ~End(t)
    <2>1. /\ storage.flow # None
          /\ tasks' = [tasks EXCEPT ![t] = [tasks[t] EXCEPT !.step = "token",
               !.verifier = storage.flow, !.ownClient = ownClient, !.since = now]]
      BY <1>2 DEF SendCode
    <2>2. /\ tasks'[t] = [tasks[t] EXCEPT !.step = "token", !.verifier = storage.flow,
                            !.ownClient = ownClient, !.since = now]
          /\ Others(t)
      BY <2>1, OneTask DEF Others
    <2>3. ASSUME NEW old \in Task, NEW new,
                 new = [old EXCEPT !.step = "token", !.verifier = storage.flow,
                                   !.ownClient = ownClient, !.since = now]
          PROVE  /\ new.step = "token" /\ new.kind = old.kind /\ new.code = old.code
                 /\ new.verifier = storage.flow /\ new.since = now
      BY <2>3 DEF Task
    <2>4. tasks[t] \in Task
      BY DEF TypeOK
    <2> QED
      BY <2>1, <2>2, <2>3, <2>4 DEF Continues
  <1> QED
    BY <1>1, <1>2

LEMMA ExchangeEffects ==
  ASSUME TypeOK, NEW t \in Tasks
  PROVE  /\ ConfigFetched(t) \/ ClientRegistered(t) =>
              /\ tasks[t].step \in {"config", "register"}
              /\ tasks[t].kind \in {"redirect", "iframe"}
              /\ \/ Continues(t, "register") /\ tasks'[t].since = tasks[t].since
                 \/ /\ Continues(t, "token") /\ storage.flow # None
                    /\ tasks'[t].verifier = storage.flow /\ tasks'[t].since = now
                 \/ Ends(t)
              /\ SameStorage
              /\ UNCHANGED <<session, timers, window, made, codes, now, silent, bounces>>
         /\ RequestFails(t) =>
              /\ tasks[t].step # "forever" /\ Ends(t) /\ codes' \subseteq codes
              /\ UNCHANGED <<storage, session, timers, window, made, now, silent, bounces>>
  <1>1. ASSUME ConfigFetched(t)
        PROVE  /\ tasks[t].step \in {"config", "register"}
               /\ tasks[t].kind \in {"redirect", "iframe"}
               /\ \/ Continues(t, "register") /\ tasks'[t].since = tasks[t].since
                  \/ /\ Continues(t, "token") /\ storage.flow # None
                     /\ tasks'[t].verifier = storage.flow /\ tasks'[t].since = now
                  \/ Ends(t)
               /\ SameStorage
               /\ UNCHANGED <<session, timers, window, made, codes, now, silent, bounces>>
    BY <1>1, FlowMoves, SendCodeEffect DEF ConfigFetched, Awaits, SameStorage
  <1>2. ASSUME ClientRegistered(t)
        PROVE  /\ tasks[t].step \in {"config", "register"}
               /\ tasks[t].kind \in {"redirect", "iframe"}
               /\ \/ /\ Continues(t, "token") /\ storage.flow # None
                     /\ tasks'[t].verifier = storage.flow /\ tasks'[t].since = now
                  \/ Ends(t)
               /\ SameStorage
               /\ UNCHANGED <<session, timers, window, made, codes, now, silent, bounces>>
    <2>1. storage \in Storage
      BY DEF TypeOK
    <2>2. SameStorage
      BY <1>2, <2>1 DEF ClientRegistered, SameStorage, Storage
    <2> QED
      BY <1>2, <2>2, SendCodeEffect DEF ClientRegistered, Awaits
  <1>3. ASSUME RequestFails(t)
        PROVE  /\ tasks[t].step # "forever" /\ Ends(t) /\ codes' \subseteq codes
               /\ UNCHANGED <<storage, session, timers, window, made, now, silent, bounces>>
    BY <1>3, FlowMoves DEF RequestFails, history
  <1> QED
    BY <1>1, <1>2, <1>3

LEMMA TokensEffect ==
  ASSUME TypeOK, NEW t \in Tasks, NEW life \in Lifetimes, TokensObtained(t, life)
  PROVE  /\ tasks[t].step = "token" /\ tasks[t].kind \in {"redirect", "iframe"}
         /\ tasks[t].code \in codes /\ codes' = codes \ {tasks[t].code}
         /\ Ends(t) /\ bounces' = 0
         /\ session'.isLoggedIn /\ session'.fetch = tasks[t].code
         /\ SameProgress \/ tasks[t].kind = "redirect"
         /\ storage'.idToken /\ storage'.flow = storage.flow
         /\ storage'.states = storage.states
         /\ tasks[t].kind = "iframe" => storage'.currentUrl = storage.currentUrl
         /\ tasks[t].kind = "redirect" /\ storage.currentUrl => event' = "sessionRestore"
         /\ window'.location = None /\ window'.navigation = window.navigation
         /\ window'.iframe \in {window.iframe, None}
         /\ UNCHANGED <<made, now, silent>>
  <1>0. storage \in Storage /\ session \in SessionObject /\ window \in Window
    BY DEF TypeOK
  <1>1. tasks[t].code \in codes
    BY DEF TokensObtained, ValidResponse, Response, Honours
  <1>2. Ends(t)
    BY FlowMoves DEF TokensObtained
  <1>3. CASE tasks[t].kind = "redirect"
    <2>1. /\ storage' = [storage EXCEPT !.idToken = TRUE, !.currentUrl = FALSE]
          /\ session' = [isLoggedIn |-> TRUE,
                         expirationDate |-> Expiration(tasks[t].since, life),
                         tokenRequestInProgress |-> FALSE, fetch |-> tasks[t].code]
          /\ window' = [window EXCEPT !.location = None]
          /\ storage.currentUrl => event' = "sessionRestore"
      BY <1>3 DEF TokensObtained, Emit
    <2>2. session'.isLoggedIn /\ session'.fetch = tasks[t].code
      BY <2>1
    <2> QED
      BY <1>0, <1>1, <1>2, <1>3, <2>1, <2>2 DEF TokensObtained, Awaits, Storage, Window
  <1>4. CASE tasks[t].kind = "iframe"
    <2>1. /\ storage' = [storage EXCEPT !.idToken = TRUE]
          /\ session' = [session EXCEPT !.isLoggedIn = TRUE,
               !.expirationDate = Expiration(tasks[t].since, life), !.fetch = tasks[t].code]
          /\ window' = [window EXCEPT !.location = None, !.iframe = None]
      BY <1>4 DEF TokensObtained
    <2>2. /\ session'.isLoggedIn /\ session'.fetch = tasks[t].code /\ SameProgress
      BY <1>0, <2>1 DEF SessionObject, SameProgress
    <2> QED
      BY <1>0, <1>1, <1>2, <1>4, <2>1, <2>2 DEF TokensObtained, Awaits, Storage, Window
  <1> QED
    BY <1>3, <1>4 DEF TokensObtained, Awaits

\* The iframe comes back.
LEMMA IframeEffects ==
  ASSUME TypeOK
  PROVE  /\ \A t \in Tasks : IframeReturnsCode(t) =>
              /\ window.iframe # None /\ codes' = codes \cup {window.iframe}
              /\ SameStorage
              /\ window'.iframe = None /\ window'.location = window.location
              /\ window'.navigation = window.navigation
              /\ \/ /\ Begins(t, "iframe", "config", window.iframe)
                    /\ Redeemable(storage, window.iframe)
                 \/ UNCHANGED tasks
              /\ UNCHANGED <<session, timers, made, now, silent, bounces>>
         /\ IframeReturnsError =>
              /\ window.iframe # None
              /\ SameLogin /\ SameProgress /\ session'.fetch = None
              /\ window'.iframe = None /\ window'.location = None
              /\ window'.navigation = window.navigation
              /\ UNCHANGED <<storage, timers, tasks, made, codes, now, silent, bounces>>
  <1>0. storage \in Storage /\ session \in SessionObject /\ window \in Window
    BY DEF TypeOK
  <1>1. ASSUME NEW t \in Tasks, IframeReturnsCode(t)
        PROVE  /\ window.iframe # None /\ codes' = codes \cup {window.iframe}
               /\ window'.iframe = None /\ window'.location = window.location
               /\ window'.navigation = window.navigation
               /\ UNCHANGED <<session, timers, made, now, silent, bounces>>
    BY <1>0, <1>1 DEF IframeReturnsCode, Window, history
  <1>2. ASSUME NEW t \in Tasks, IframeReturnsCode(t)
        PROVE  /\ SameStorage
               /\ \/ /\ Begins(t, "iframe", "config", window.iframe)
                     /\ Redeemable(storage, window.iframe)
                  \/ UNCHANGED tasks
    BY <1>0, <1>2, BeginsFlow DEF IframeReturnsCode, SameStorage, Storage
  <1>3. ASSUME IframeReturnsError
        PROVE  /\ window.iframe # None
               /\ SameLogin /\ SameProgress /\ session'.fetch = None
               /\ window'.iframe = None /\ window'.location = None
               /\ window'.navigation = window.navigation
               /\ UNCHANGED <<storage, timers, tasks, made, codes, now, silent, bounces>>
    BY <1>0, <1>3
    DEF IframeReturnsError, Window, SessionObject, SameLogin, SameProgress, history
  <1> QED
    BY <1>1, <1>2, <1>3

\* A page is loaded.
LEMMA NewPageEffect ==
  ASSUME TypeOK, NavigationReturns \/ Reload
  PROVE  /\ \A t \in Tasks : tasks'[t] = NoTask
         /\ session' = NewSession /\ timers' = {} /\ event' = "none"
         /\ window'.location \in {window.navigation, window.location, None}
         /\ window'.navigation = None /\ window'.iframe = None
         /\ codes' \subseteq codes \cup ({window.navigation} \ {None})
         /\ UNCHANGED <<storage, made, now, silent, bounces>>
  <1>1. PICK location \in {window.navigation, window.location, None} : FreshPage(location)
    BY DEF NavigationReturns, Reload
  <1>2. /\ \A t \in Tasks : tasks'[t] = NoTask
        /\ session' = NewSession /\ timers' = {} /\ event' = "none"
        /\ window'.location = location /\ window'.navigation = None /\ window'.iframe = None
    BY <1>1 DEF FreshPage
  <1>3. codes' \subseteq codes \cup ({window.navigation} \ {None})
    BY DEF NavigationReturns, Reload, LeavePage
  <1> QED
    BY <1>2, <1>3 DEF NavigationReturns, Reload

-----------------------------------------------------------------------------
(* Verifiers.                                                              *)

\* What flow t has taken from storage, or will, is of its own request or of a
\* later one.
FlowOf(task) ==
  /\ task.step \in {"config", "register"} /\ storage.flow # None => task.code <= storage.flow
  /\ task.step = "token" => task.code <= task.verifier /\ task.verifier <= made

\* The verifier in storage is of the latest of the requests whose state leads
\* to the session.
LatestFlow ==
  /\ storage.flow <= made
  /\ \A r \in storage.states : r <= made /\ (storage.flow # None => r <= storage.flow)
  /\ \A t \in Tasks : FlowOf(tasks[t])

LEMMA FlowNumbers ==
  ASSUME TypeOK
  PROVE  /\ made \in Nat /\ storage.flow \in Nat /\ storage.states \subseteq Nat
         /\ None \in Nat /\ None <= made
         /\ \A t \in Tasks : tasks[t].code \in Nat /\ tasks[t].verifier \in Nat
         /\ window.location \in Nat /\ window.navigation \in Nat /\ window.iframe \in Nat
  BY BrowserAssumption DEF TypeOK, Window, Storage, Task, Request0, Requests, None

LEMMA NextLatest == CodeInv /\ LatestFlow /\ [Next]_vars => LatestFlow'
  <1> SUFFICES ASSUME CodeInv, LatestFlow, [Next]_vars PROVE LatestFlow'
    OBVIOUS
  <1> USE NoTaskFields, FlowNumbers
  <1>0. TypeOK /\ Numbered
    BY DEF CodeInv
  \* Steps that make no request.
  <1>u. ASSUME SameStorage \/ Cleared, UNCHANGED made,
               NEW T \in SUBSET Tasks, \A u \in T : tasks'[u] = tasks[u],
               \A t \in Tasks \ T : FlowOf(tasks[t])'
        PROVE  LatestFlow'
    <2>1. ASSUME NEW u \in T PROVE FlowOf(tasks[u])'
      BY <1>u, <2>1 DEF LatestFlow, FlowOf, SameStorage, Cleared
    <2>2. \A r \in storage'.states :
            r <= made' /\ (storage'.flow # None => r <= storage'.flow)
      BY <1>u DEF LatestFlow, SameStorage, Cleared
    <2>3. storage'.flow <= made'
      BY <1>0, <1>u DEF LatestFlow, SameStorage, Cleared
    <2> QED
      BY <2>1, <2>2, <2>3, <1>u DEF LatestFlow
  <1>s. ASSUME SameStorage \/ Cleared, UNCHANGED <<made, tasks>> PROVE LatestFlow'
    BY <1>s, <1>u
  <1>o. ASSUME SameStorage \/ Cleared, UNCHANGED made,
               NEW t \in Tasks, Others(t), FlowOf(tasks[t])'
        PROVE  LatestFlow'
    <2> DEFINE T == Tasks \ {t}
    <2>1. /\ T \in SUBSET Tasks /\ \A u \in T : tasks'[u] = tasks[u]
          /\ \A u \in Tasks \ T : FlowOf(tasks[u])'
      BY <1>o DEF Others
    <2> HIDE DEF T
    <2> QED
      BY <1>o, <1>u, <2>1
  <1>n. ASSUME SameStorage \/ Cleared, UNCHANGED made, NEW t \in Tasks, Others(t),
               tasks'[t].step \notin {"config", "register", "token"}
        PROVE  LatestFlow'
    BY <1>n, <1>o DEF FlowOf
  <1>1. ASSUME NEW t \in Tasks, Login(t) \/ Renew(t) \/ TokenValid(t) \/ TokenInvalid(t)
                                \/ IssuerFetched(t) \/ SigninFails(t) \/ RequestFails(t)
        PROVE  LatestFlow'
    BY <1>0, <1>1, <1>n, ApplicationEffects, RequestEffects, ExchangeEffects
    DEF Begins, Continues, Ends, SameStorage
  <1>2. ASSUME NEW t \in Tasks, HandleCode(t) \/ IframeReturnsCode(t) PROVE LatestFlow'
    <2>1. SameStorage /\ UNCHANGED made
      BY <1>0, <1>2, ApplicationEffects, IframeEffects
    <2>2. CASE UNCHANGED tasks
      BY <1>s, <2>1, <2>2
    <2>3. CASE ~UNCHANGED tasks
      <3>1. PICK kind, code : Begins(t, kind, "config", code) /\ Redeemable(storage, code)
        BY <1>0, <1>2, <2>3, ApplicationEffects, IframeEffects
      <3>2. FlowOf(tasks[t])'
        BY <2>1, <3>1 DEF Begins, Redeemable, LatestFlow, FlowOf, SameStorage
      <3> QED
        BY <1>o, <2>1, <3>1, <3>2 DEF Begins
    <2> QED
      BY <2>2, <2>3
  <1>3. ASSUME NEW t \in Tasks, NEW restore \in BOOLEAN, HandleNoCode(t, restore)
        PROVE  LatestFlow'
    <2>1. /\ UNCHANGED <<storage, made>>
          /\ UNCHANGED tasks \/ Begins(t, "redirect", "validate", None)
      BY <1>0, <1>3, ApplicationEffects
    <2> QED
      BY <2>1, <1>s, <1>n DEF Begins, SameStorage
  <1>4. ASSUME LogOut PROVE LatestFlow'
    BY <1>0, <1>4, <1>s, LogOutEffect
  <1>5. ASSUME NEW t \in Tasks, SigninCreated(t) PROVE LatestFlow'
    <2>1. /\ made' = made + 1 /\ storage'.flow = made'
          /\ storage'.states = storage.states \cup {made'}
          /\ Others(t) /\ tasks'[t].step \in {"none", "forever"}
      BY <1>0, <1>5, SigninEffect DEF Ends, Continues
    <2>2. ASSUME NEW u \in Tasks PROVE FlowOf(tasks[u])'
      <3>1. CASE u = t
        BY <2>1, <3>1 DEF FlowOf
      <3>2. CASE u # t
        BY <1>0, <2>1, <3>2 DEF FlowOf, Others, LatestFlow, Numbered
      <3> QED
        BY <3>1, <3>2
    <2>3. made' \in Nat /\ \A r \in storage'.states : r <= made'
      BY <1>0, <2>1 DEF LatestFlow
    <2> QED
      BY <2>1, <2>2, <2>3 DEF LatestFlow
  <1>6. ASSUME NEW t \in Tasks, ConfigFetched(t) \/ ClientRegistered(t) PROVE LatestFlow'
    <2>1. /\ tasks[t].step \in {"config", "register"} /\ SameStorage /\ UNCHANGED made
          /\ \/ Continues(t, "register")
             \/ /\ Continues(t, "token") /\ storage.flow # None
                /\ tasks'[t].verifier = storage.flow
             \/ Ends(t)
      BY <1>0, <1>6, ExchangeEffects
    <2>2. FlowOf(tasks[t])'
      BY <2>1 DEF FlowOf, LatestFlow, SameStorage, Continues, Ends
    <2> QED
      BY <1>o, <2>1, <2>2 DEF Continues, Ends
  <1>7. ASSUME NEW t \in Tasks, NEW life \in Lifetimes, TokensObtained(t, life)
        PROVE  LatestFlow'
    <2>1. /\ storage'.flow = storage.flow /\ storage'.states = storage.states
          /\ UNCHANGED made /\ Ends(t)
      BY <1>0, <1>7, TokensEffect
    <2>2. ASSUME NEW u \in Tasks PROVE FlowOf(tasks[u])'
      BY <2>1 DEF Ends, Others, LatestFlow, FlowOf
    <2> QED
      BY <2>1, <2>2 DEF LatestFlow
  <1>8. CASE IframeReturnsError \/ Tick \/ UNCHANGED vars
    BY <1>0, <1>8, <1>s, IframeEffects DEF Tick, vars, SameStorage
  <1>9. CASE NavigationReturns \/ Reload
    <2>1. (\A t \in Tasks : tasks'[t] = NoTask) /\ UNCHANGED <<storage, made>>
      BY <1>0, <1>9, NewPageEffect
    <2> QED
      BY <2>1 DEF LatestFlow, FlowOf
  <1> QED
    BY <1>1, <1>2, <1>3, <1>4, <1>5, <1>6, <1>7, <1>8, <1>9
    DEF Next, Application, Browser, Reply, Logout, TimerFires

\* A code goes to the token endpoint with the verifier of its own request, or
\* of one made since, however requests are abandoned on this page and on
\* earlier ones.
THEOREM VerifierOfRequest == Spec => []OwnVerifier
  <1>1. Init => LatestFlow
    BY NoTaskFields DEF Init, EmptyStorage, LatestFlow, FlowOf, None
  <1>2. CodeInv /\ LatestFlow => OwnVerifier
    BY FlowNumbers DEF CodeInv, LatestFlow, FlowOf, OwnVerifier
  <1> QED
    BY <1>1, <1>2, CodeInvInit, CodeInvStep, NextLatest, PTL DEF Spec

-----------------------------------------------------------------------------
(* The refinement of CodeGrant.                                            *)

\* The two ways by which a code may be on its way are for two requests.
TwoWays == window.navigation # None => window.navigation # window.iframe

\* What a step is to CodeGrant.
LEMMA StepRefines ==
  ASSUME CodeInv, TwoWays, Next
  PROVE  TwoWays' /\ [Grants!Next]_(Grants!vars)
  <1> USE DEF Grants!Next, Grants!vars, Grants!Ask, Grants!Answer, Grants!Redeem
  <1>0. TypeOK /\ Numbered
    BY DEF CodeInv
  <1>n. /\ made \in Nat /\ None = 0 /\ window.navigation \in Nat /\ window.iframe \in Nat
        /\ window.navigation <= made /\ window.iframe <= made
    BY <1>0, FlowNumbers DEF Numbered, None
  \* Steps that the grant of codes does not see, or as a loss.
  <1>a. ASSUME /\ UNCHANGED made /\ window'.navigation = window.navigation
               /\ window'.iframe \in {window.iframe, None}
               /\ codes' \subseteq codes /\ session'.fetch \in {session.fetch, None}
        PROVE  TwoWays' /\ [Grants!Next]_(Grants!vars)
    <2>1. TwoWays'
      BY <1>a, <1>n DEF TwoWays
    <2>2. ({window.navigation, window.iframe} \ {None})' \subseteq
            {window.navigation, window.iframe} \ {None}
      BY <1>a
    <2> QED
      BY <1>a, <2>1, <2>2
  <1>1. ASSUME NEW t \in Tasks, Login(t) \/ HandleCode(t) \/ Renew(t)
               \/ \E restore \in BOOLEAN : HandleNoCode(t, restore)
        PROVE  TwoWays' /\ [Grants!Next]_(Grants!vars)
    BY <1>0, <1>1, <1>a, ApplicationEffects
  <1>2. ASSUME LogOut PROVE TwoWays' /\ [Grants!Next]_(Grants!vars)
    BY <1>0, <1>2, <1>a, LogOutEffect
  <1>3. ASSUME NEW t \in Tasks, TokenValid(t) \/ TokenInvalid(t) \/ IssuerFetched(t)
               \/ SigninFails(t) \/ ConfigFetched(t) \/ ClientRegistered(t) \/ RequestFails(t)
        PROVE  TwoWays' /\ [Grants!Next]_(Grants!vars)
    BY <1>0, <1>3, <1>a, RequestEffects, ExchangeEffects
  <1>4. ASSUME NEW t \in Tasks, SigninCreated(t)
        PROVE  TwoWays' /\ [Grants!Next]_(Grants!vars)
    <2>1. /\ made' = made + 1 /\ made' \in Requests /\ UNCHANGED <<codes, session>>
          /\ \/ window'.iframe = made' /\ window'.navigation = window.navigation
             \/ window'.navigation = made' /\ window'.iframe = window.iframe
      BY <1>0, <1>4, SigninEffect
    <2>2. TwoWays'
      BY <1>n, <2>1 DEF TwoWays
    <2>3. ({window.navigation, window.iframe} \ {None})' \subseteq
            ({window.navigation, window.iframe} \ {None}) \cup {made'}
      BY <2>1
    <2> QED
      BY <2>1, <2>2, <2>3
  <1>5. ASSUME NEW t \in Tasks, NEW life \in Lifetimes, TokensObtained(t, life)
        PROVE  TwoWays' /\ [Grants!Next]_(Grants!vars)
    <2>1. /\ tasks[t].code \in codes /\ codes' = codes \ {tasks[t].code}
          /\ session'.fetch = tasks[t].code /\ UNCHANGED made
          /\ window'.navigation = window.navigation
          /\ window'.iframe \in {window.iframe, None}
      BY <1>0, <1>5, TokensEffect
    <2>2. TwoWays'
      BY <1>n, <2>1 DEF TwoWays
    <2>3. ({window.navigation, window.iframe} \ {None})' \subseteq
            {window.navigation, window.iframe} \ {None}
      BY <2>1
    <2> QED
      BY <2>1, <2>2, <2>3
  <1>6. ASSUME NEW t \in Tasks, IframeReturnsCode(t)
        PROVE  TwoWays' /\ [Grants!Next]_(Grants!vars)
    <2>1. /\ window.iframe # None /\ codes' = codes \cup {window.iframe}
          /\ window'.iframe = None /\ window'.navigation = window.navigation
          /\ UNCHANGED <<session, made>>
      BY <1>0, <1>6, IframeEffects
    <2>2. window.iframe \in ({window.navigation, window.iframe} \ {None})
                            \ ({window.navigation, window.iframe} \ {None})'
      BY <2>1 DEF TwoWays
    <2>3. ({window.navigation, window.iframe} \ {None})' \subseteq
            {window.navigation, window.iframe} \ {None}
      BY <2>1
    <2> QED
      BY <2>1, <2>2, <2>3 DEF TwoWays
  <1>7. CASE IframeReturnsError \/ Tick
    BY <1>0, <1>7, <1>a, IframeEffects DEF Tick
  <1>8. CASE NavigationReturns \/ Reload
    <2>1. /\ session'.fetch = None /\ UNCHANGED made
          /\ window'.navigation = None /\ window'.iframe = None
          /\ codes' \subseteq codes \cup ({window.navigation} \ {None})
      BY <1>0, <1>8, NewPageEffect DEF NewSession
    <2>2. ({window.navigation, window.iframe} \ {None})' = {}
      BY <2>1
    <2> QED
      BY <2>1, <2>2 DEF TwoWays
  <1> QED
    BY <1>1, <1>2, <1>3, <1>4, <1>5, <1>6, <1>7, <1>8
    DEF Next, Application, Browser, Reply, Logout, TimerFires

\* BrowserSession implements CodeGrant: its fetch carries tokens only for a
\* code that the provider issued for a request of this page or of an earlier
\* one, and that nothing had redeemed before.
THEOREM ImplementsCodeGrant == Spec => FollowsGrants
  <1>1. Init => TwoWays /\ Grants!Init
    BY DEF Init, TwoWays, Grants!Init, NewSession, None
  <1>2. CodeInv /\ TwoWays /\ [Next]_vars => TwoWays' /\ [Grants!Next]_(Grants!vars)
    <2>1. CASE UNCHANGED vars
      BY <2>1 DEF vars, TwoWays, Grants!vars
    <2> QED
      BY <2>1, StepRefines
  <1> QED
    BY <1>1, <1>2, CodeInvInit, CodeInvStep, PTL DEF Spec, FollowsGrants, Grants!Spec

-----------------------------------------------------------------------------
(* Silent logins.                                                          *)

\* handleIncomingRedirect runs once at a time.
OneRedirect ==
  \A t \in Tasks : tasks[t].kind = "redirect" =>
    /\ session.tokenRequestInProgress
    /\ \A u \in Tasks : tasks[u].kind = "redirect" => t = u

LEMMA NextOneRedirect == TypeOK /\ OneRedirect /\ [Next]_vars => OneRedirect'
  <1> SUFFICES ASSUME TypeOK, OneRedirect, [Next]_vars PROVE OneRedirect'
    OBVIOUS
  <1> USE NoTaskFields
  <1>a. ASSUME UNCHANGED tasks, SameProgress \/ session'.tokenRequestInProgress
        PROVE  OneRedirect'
    BY <1>a DEF OneRedirect, SameProgress
  <1>b. ASSUME NEW t \in Tasks, Others(t), tasks'[t].kind \in {tasks[t].kind} \ {"redirect"},
               SameProgress
        PROVE  OneRedirect'
    BY <1>b DEF OneRedirect, Others, SameProgress
  <1>c. ASSUME NEW t \in Tasks, Others(t), tasks'[t].kind = tasks[t].kind, SameProgress
        PROVE  OneRedirect'
    BY <1>c DEF OneRedirect, Others, SameProgress
  <1>d. ASSUME NEW t \in Tasks, Others(t), tasks'[t].kind # "redirect",
               SameProgress \/ tasks[t].kind = "redirect"
        PROVE  OneRedirect'
    BY <1>d DEF OneRedirect, Others, SameProgress
  <1>1. ASSUME NEW t \in Tasks, Login(t) \/ Renew(t) PROVE OneRedirect'
    BY <1>1, <1>d, ApplicationEffects DEF Begins, SameProgress
  <1>2. ASSUME NEW t \in Tasks, HandleCode(t) \/ \E restore \in BOOLEAN : HandleNoCode(t, restore)
        PROVE  OneRedirect'
    <2>1. /\ ~session.tokenRequestInProgress
          /\ \/ UNCHANGED tasks /\ (SameProgress \/ session'.tokenRequestInProgress)
             \/ Others(t) /\ session'.tokenRequestInProgress
      BY <1>2, ApplicationEffects DEF Begins, MayHandleRedirect
    <2> QED
      BY <1>a, <2>1 DEF OneRedirect, Others
  <1>3. ASSUME LogOut PROVE OneRedirect'
    BY <1>3, <1>a, LogOutEffect
  <1>4. ASSUME NEW t \in Tasks, TokenValid(t) \/ TokenInvalid(t) \/ IssuerFetched(t)
               \/ SigninFails(t) \/ ConfigFetched(t) \/ ClientRegistered(t) \/ RequestFails(t)
        PROVE  OneRedirect'
    BY <1>4, <1>c, <1>d, RequestEffects, ExchangeEffects DEF Continues, Ends, SameProgress
  <1>5. ASSUME NEW t \in Tasks, SigninCreated(t) PROVE OneRedirect'
    BY <1>5, <1>c, <1>d, SigninEffect DEF Continues, Ends, SameProgress
  <1>6. ASSUME NEW t \in Tasks, NEW life \in Lifetimes, TokensObtained(t, life)
        PROVE  OneRedirect'
    BY <1>6, <1>d, TokensEffect DEF Ends
  <1>7. ASSUME NEW t \in Tasks, IframeReturnsCode(t) PROVE OneRedirect'
    BY <1>7, <1>a, <1>d, IframeEffects DEF Begins, SameProgress
  <1>8. CASE IframeReturnsError \/ Tick \/ UNCHANGED vars
    BY <1>8, <1>a, IframeEffects DEF Tick, vars, SameProgress
  <1>9. CASE NavigationReturns \/ Reload
    BY <1>9, NewPageEffect DEF OneRedirect
  <1> QED
    BY <1>1, <1>2, <1>3, <1>4, <1>5, <1>6, <1>7, <1>8, <1>9
    DEF Next, Application, Browser, Reply, Logout, TimerFires

\* Flow t is about to make a silent request of the main window, or to
\* complete one.
Restores(t) ==
  /\ tasks[t].kind = "redirect"
  /\ tasks[t].step \in {"issuer", "signin"} \/ (Exchanging(t) /\ tasks[t].code \in silent)

\* Silent requests of the main window never come back through the iframe.
NotInIframe ==
  /\ silent \subseteq 1..made /\ window.iframe \notin silent
  /\ \A t \in Tasks : tasks[t].kind = "iframe" => tasks[t].code \notin silent

\* A page that is about to be left for a silent request completes no other.
LeavesOnly ==
  /\ window.navigation \in silent =>
       /\ session.tokenRequestInProgress
       /\ \A t \in Tasks : tasks[t].kind = "redirect" => tasks[t].step = "forever"
  /\ \A t \in Tasks : tasks[t].kind = "redirect" /\ Exchanging(t) =>
       window.location \in {None, tasks[t].code}

\* The URL of the page that a silent login left stays in storage until the
\* login completes.
UrlKept ==
  \/ window.navigation \in silent \/ window.location \in silent
  \/ \E t \in Tasks : Restores(t)
  => storage.currentUrl

Silently == NotInIframe /\ LeavesOnly /\ UrlKept

\* A step that makes no silent request, and after which the flows of T are
\* what they were.
LEMMA SilentlyStep ==
  ASSUME Silently, UNCHANGED <<silent, made>>,
         window'.navigation = window.navigation,
         window'.location \in {window.location, None},
         window'.iframe \in {window.iframe, None},
         storage.currentUrl => storage'.currentUrl,
         window.navigation \in silent => session'.tokenRequestInProgress,
         NEW T \in SUBSET Tasks, \A u \in T : tasks'[u] = tasks[u],
         \A t \in Tasks \ T :
           /\ tasks'[t].kind = "iframe" => tasks'[t].code \notin silent
           /\ tasks'[t].kind = "redirect" /\ window.navigation \in silent =>
                tasks'[t].step = "forever"
           /\ tasks'[t].kind = "redirect" /\ Exchanging(t)' =>
                window'.location \in {None, tasks'[t].code}
           /\ Restores(t)' => storage'.currentUrl
  PROVE  Silently'
  <1>1. None \notin silent
    BY DEF Silently, NotInIframe, None
  <1>2. NotInIframe'
    BY <1>1 DEF Silently, NotInIframe
  <1>3. LeavesOnly'
    BY DEF Silently, LeavesOnly, Exchanging
  <1>4. UrlKept'
    <2>1. ASSUME NEW t \in Tasks, Restores(t)' PROVE storage'.currentUrl
      BY <2>1 DEF Silently, UrlKept, Restores, Exchanging
    <2> QED
      BY <1>1, <2>1 DEF Silently, UrlKept
  <1> QED
    BY <1>2, <1>3, <1>4 DEF Silently

LEMMA NextSilently == CodeInv /\ OneRedirect /\ Silently /\ [Next]_vars => Silently'
  <1> SUFFICES ASSUME CodeInv, OneRedirect, Silently, [Next]_vars PROVE Silently'
    OBVIOUS
  <1> USE NoTaskFields
  <1>0. TypeOK
    BY DEF CodeInv
  <1>l. /\ window.navigation \in silent => session.tokenRequestInProgress
        /\ None \notin silent
    BY DEF Silently, LeavesOnly, NotInIframe, None
  \* Steps of one flow, and of none.
  <1>o. ASSUME UNCHANGED <<silent, made>>, NEW t \in Tasks, Others(t),
               window'.navigation = window.navigation,
               window'.location \in {window.location, None},
               window'.iframe \in {window.iframe, None},
               storage.currentUrl => storage'.currentUrl,
               window.navigation \in silent => session'.tokenRequestInProgress,
               tasks'[t].kind = "iframe" => tasks'[t].code \notin silent,
               tasks'[t].kind = "redirect" /\ window.navigation \in silent =>
                 tasks'[t].step = "forever",
               tasks'[t].kind = "redirect" /\ Exchanging(t)' =>
                 window'.location \in {None, tasks'[t].code},
               Restores(t)' => storage'.currentUrl
        PROVE  Silently'
    <2> DEFINE T == Tasks \ {t}
    <2>1. /\ T \in SUBSET Tasks /\ \A u \in T : tasks'[u] = tasks[u]
          /\ \A u \in Tasks \ T : u = t
      BY <1>o DEF Others
    <2> HIDE DEF T
    <2> QED
      BY <1>o, <2>1, SilentlyStep
  <1>s. ASSUME UNCHANGED <<silent, made, tasks>>,
               window'.navigation = window.navigation,
               window'.location \in {window.location, None},
               window'.iframe \in {window.iframe, None},
               storage'.currentUrl = storage.currentUrl,
               SameProgress \/ session'.tokenRequestInProgress
        PROVE  Silently'
    BY <1>s, <1>l, SilentlyStep DEF SameProgress
  \* A step that only moves a flow on.
  <1>m. ASSUME UNCHANGED <<silent, made, window>>, NEW t \in Tasks,
               NEW step, Continues(t, step),
               Exchanging(t)' => Exchanging(t),
               step \in {"issuer", "signin"} =>
                 tasks[t].step \in {"issuer", "signin"} \/ storage'.currentUrl,
               storage.currentUrl => storage'.currentUrl,
               tasks[t].step # "forever", SameProgress
        PROVE  Silently'
    <2>1. Restores(t)' => storage'.currentUrl
      BY <1>m DEF Restores, Silently, UrlKept, Continues, Exchanging
    <2> QED
      BY <1>m, <1>o, <1>l, <2>1
      DEF Silently, NotInIframe, LeavesOnly, Continues, SameProgress
  \* One that ends a flow, or begins one that is not of the redirect.
  <1>e. ASSUME UNCHANGED <<silent, made, window>>, NEW t \in Tasks, Others(t),
               tasks'[t].kind \notin {"redirect", "iframe"},
               storage.currentUrl => storage'.currentUrl,
               window.navigation \in silent => session'.tokenRequestInProgress
        PROVE  Silently'
    BY <1>e, <1>o DEF Restores
  <1>1. ASSUME NEW t \in Tasks, Login(t) \/ Renew(t) PROVE Silently'
    BY <1>0, <1>1, <1>e, <1>l, ApplicationEffects DEF Begins
  <1>2. ASSUME NEW t \in Tasks, HandleCode(t) PROVE Silently'
    <2>1. /\ window.navigation \notin silent /\ UNCHANGED <<silent, made, window>>
          /\ SameStorage /\ session'.tokenRequestInProgress
          /\ Begins(t, "redirect", "config", window.location) \/ UNCHANGED tasks
      BY <1>0, <1>2, <1>l, ApplicationEffects DEF MayHandleRedirect
    <2>2. CASE UNCHANGED tasks
      BY <1>s, <2>1, <2>2 DEF SameStorage
    <2>3. CASE Begins(t, "redirect", "config", window.location)
      <3>1. Restores(t)' => storage'.currentUrl
        BY <2>1, <2>3 DEF Restores, Begins, Silently, UrlKept, SameStorage
      <3> QED
        BY <1>o, <2>1, <2>3, <3>1 DEF Begins, SameStorage
    <2> QED
      BY <2>1, <2>2, <2>3
  <1>3. ASSUME NEW t \in Tasks, NEW restore \in BOOLEAN, HandleNoCode(t, restore)
        PROVE  Silently'
    <2>1. /\ window.navigation \notin silent /\ UNCHANGED <<silent, made, window, storage>>
          /\ \/ Begins(t, "redirect", "validate", None) /\ session'.tokenRequestInProgress
             \/ UNCHANGED tasks /\ SameProgress
      BY <1>0, <1>3, <1>l, ApplicationEffects DEF MayHandleRedirect
    <2>2. CASE UNCHANGED tasks /\ SameProgress
      BY <1>s, <2>1, <2>2
    <2>3. CASE Begins(t, "redirect", "validate", None)
      BY <1>o, <2>1, <2>3 DEF Begins, Restores, Exchanging
    <2> QED
      BY <2>1, <2>2, <2>3
  <1>4. ASSUME LogOut PROVE Silently'
    BY <1>0, <1>4, <1>s, LogOutEffect
  <1>5. ASSUME NEW t \in Tasks, TokenValid(t) \/ IssuerFetched(t) PROVE Silently'
    <2>1. PICK step \in {"issuer", "signin"} :
            /\ Continues(t, step) /\ UNCHANGED <<silent, made, window, session>>
            /\ storage.currentUrl => storage'.currentUrl
            /\ tasks[t].step = "issuer" \/ storage'.currentUrl
            /\ tasks[t].step # "forever"
      BY <1>0, <1>5, RequestEffects DEF SameStorage
    <2>2. ~Exchanging(t)' /\ SameProgress
      BY <2>1 DEF Exchanging, Continues, SameProgress
    <2> QED
      BY <1>m, <2>1, <2>2
  <1>6. ASSUME NEW t \in Tasks, SigninFails(t) PROVE Silently'
    <2>1. /\ UNCHANGED <<silent, made, window, session, storage>>
          /\ tasks[t].step = "signin"
          /\ Continues(t, "forever") \/ Ends(t)
      BY <1>0, <1>6, RequestEffects
    <2>2. CASE Continues(t, "forever")
      BY <1>m, <2>1, <2>2 DEF Exchanging, Continues, SameProgress
    <2> QED
      BY <1>e, <1>l, <2>1, <2>2 DEF Ends
  <1>7. ASSUME NEW t \in Tasks, TokenInvalid(t) PROVE Silently'
    <2>1. /\ UNCHANGED <<silent, made, window, storage>> /\ Ends(t)
          /\ tasks[t].step = "validate" /\ (SameProgress \/ tasks[t].kind = "redirect")
      BY <1>0, <1>7, RequestEffects
    <2>2. window.navigation \in silent => session'.tokenRequestInProgress
      BY <1>l, <2>1 DEF Silently, LeavesOnly, SameProgress
    <2> QED
      BY <1>e, <2>1, <2>2 DEF Ends
  <1>8. ASSUME NEW t \in Tasks, ConfigFetched(t) \/ ClientRegistered(t) PROVE Silently'
    <2>1. /\ UNCHANGED <<silent, made, window, session>> /\ SameStorage
          /\ tasks[t].step \in {"config", "register"}
          /\ Continues(t, "register") \/ Continues(t, "token") \/ Ends(t)
      BY <1>0, <1>8, ExchangeEffects
    <2>2. CASE Ends(t)
      BY <1>e, <1>l, <2>1, <2>2 DEF Ends, SameStorage
    <2>3. CASE Continues(t, "register") \/ Continues(t, "token")
      BY <1>m, <2>1, <2>3 DEF Exchanging, SameStorage, SameProgress
    <2> QED
      BY <2>1, <2>2, <2>3
  <1>9. ASSUME NEW t \in Tasks, RequestFails(t) PROVE Silently'
    BY <1>0, <1>9, <1>e, <1>l, ExchangeEffects DEF Ends
  <1>10. ASSUME NEW t \in Tasks, NEW life \in Lifetimes, TokensObtained(t, life)
         PROVE  Silently'
    <2>1. /\ UNCHANGED <<silent, made>> /\ Ends(t)
          /\ tasks[t].step = "token" /\ tasks[t].kind \in {"redirect", "iframe"}
          /\ window'.navigation = window.navigation /\ window'.location = None
          /\ window'.iframe \in {window.iframe, None}
          /\ SameProgress \/ tasks[t].kind = "redirect"
          /\ tasks[t].kind = "iframe" => storage'.currentUrl = storage.currentUrl
      BY <1>0, <1>10, TokensEffect
    <2>2. CASE tasks[t].kind = "iframe"
      BY <1>o, <1>l, <2>1, <2>2 DEF Ends, Restores, SameProgress
    <2>3. CASE tasks[t].kind = "redirect"
      <3>1. window.navigation \notin silent
        BY <2>1, <2>3 DEF Silently, LeavesOnly
      <3>2. \A u \in Tasks : tasks'[u].kind # "redirect"
        BY <2>1, <2>3 DEF OneRedirect, Ends, Others
      <3>3. ASSUME NEW u \in Tasks, tasks'[u].kind = "iframe"
            PROVE  tasks'[u].code \notin silent
        BY <2>1, <3>3 DEF Silently, NotInIframe, Ends, Others
      <3>4. NotInIframe'
        BY <1>l, <2>1, <3>3 DEF Silently, NotInIframe
      <3>5. LeavesOnly' /\ UrlKept'
        BY <1>l, <2>1, <3>1, <3>2 DEF LeavesOnly, UrlKept, Restores
      <3> QED
        BY <3>4, <3>5 DEF Silently
    <2> QED
      BY <2>1, <2>2, <2>3
  <1>11. ASSUME NEW t \in Tasks, IframeReturnsCode(t) PROVE Silently'
    <2>1. /\ UNCHANGED <<silent, made, session>> /\ SameStorage
          /\ window'.navigation = window.navigation
          /\ window'.location = window.location /\ window'.iframe = None
          /\ Begins(t, "iframe", "config", window.iframe) \/ UNCHANGED tasks
      BY <1>0, <1>11, IframeEffects
    <2>2. CASE Begins(t, "iframe", "config", window.iframe)
      BY <1>o, <1>l, <2>1, <2>2 DEF Begins, Silently, NotInIframe, Restores, SameStorage
    <2> QED
      BY <1>s, <2>1, <2>2 DEF SameStorage, SameProgress
  <1>12. CASE IframeReturnsError \/ Tick \/ UNCHANGED vars
    BY <1>0, <1>12, <1>s, IframeEffects DEF Tick, vars, history, SameProgress
  <1>13. CASE NavigationReturns \/ Reload
    BY <1>0, <1>13, <1>l, NewPageEffect
    DEF Silently, NotInIframe, LeavesOnly, UrlKept, Restores, Exchanging
  <1>14. ASSUME NEW t \in Tasks, SigninCreated(t) PROVE Silently'
    <2>1. /\ tasks[t].step = "signin" /\ tasks[t].kind \in {"redirect", "renew", "login"}
          /\ made' = made + 1 /\ storage'.currentUrl = storage.currentUrl
          /\ window'.location = window.location /\ UNCHANGED session
          /\ IF tasks[t].kind = "renew"
               THEN /\ Ends(t) /\ window'.iframe = made'
                    /\ window'.navigation = window.navigation
               ELSE /\ Continues(t, "forever") /\ window'.navigation = made'
                    /\ window'.iframe = window.iframe
          /\ silent' = IF tasks[t].kind = "redirect" THEN silent \cup {made'} ELSE silent
      BY <1>0, <1>14, SigninEffect
    <2>2. /\ made \in Nat /\ made' \notin silent /\ silent \subseteq 1..made
          /\ window.location # made' /\ window.iframe # made'
          /\ \A u \in Tasks : tasks[u].code # made'
      BY <2>1, Naturals0 DEF CodeInv, Numbered, Silently, NotInIframe
    <2>3. silent' \subseteq 1..made'
      BY <2>1, <2>2
    <2>4. Others(t) /\ tasks'[t].step \in {"none", "forever"} /\ tasks'[t].kind # "iframe"
      BY <2>1 DEF Ends, Continues
    <2>5. NotInIframe'
      <3>1. window'.iframe \notin silent'
        BY <2>1, <2>2 DEF Silently, NotInIframe
      <3>2. ASSUME NEW u \in Tasks, tasks'[u].kind = "iframe"
            PROVE  tasks'[u].code \notin silent'
        BY <2>1, <2>2, <2>4, <3>2 DEF Silently, NotInIframe, Others
      <3> QED
        BY <2>3, <3>1, <3>2 DEF NotInIframe
    <2>6. LeavesOnly'
      <3>1. ASSUME window'.navigation \in silent'
            PROVE  /\ session.tokenRequestInProgress
                   /\ \A u \in Tasks : tasks'[u].kind = "redirect" =>
                        tasks'[u].step = "forever"
        <4>1. CASE tasks[t].kind = "renew"
          BY <2>1, <2>4, <3>1, <4>1 DEF Silently, LeavesOnly, Others, Ends
        <4>2. CASE tasks[t].kind # "renew"
          BY <2>1, <2>2, <2>4, <3>1, <4>2 DEF OneRedirect, Others, Continues
        <4> QED
          BY <4>1, <4>2
      <3>2. ASSUME NEW u \in Tasks, tasks'[u].kind = "redirect", Exchanging(u)'
            PROVE  window'.location \in {None, tasks'[u].code}
        BY <2>1, <2>4, <3>2 DEF Silently, LeavesOnly, Exchanging, Others
      <3> QED
        BY <2>1, <3>1, <3>2 DEF LeavesOnly
    <2>7. UrlKept'
      <3>1. ASSUME window'.navigation \in silent' PROVE storage.currentUrl
        BY <2>1, <2>2, <3>1 DEF Silently, UrlKept, Restores
      <3>2. ASSUME window'.location \in silent' PROVE storage.currentUrl
        BY <2>1, <2>2, <3>2 DEF Silently, UrlKept
      <3>3. ASSUME NEW u \in Tasks, Restores(u)' PROVE storage.currentUrl
        BY <2>1, <2>2, <2>4, <3>3 DEF Silently, UrlKept, Restores, Exchanging, Others
      <3> QED
        BY <2>1, <3>1, <3>2, <3>3 DEF UrlKept
    <2> QED
      BY <2>5, <2>6, <2>7 DEF Silently
  <1> QED
    BY <1>1, <1>2, <1>3, <1>4, <1>5, <1>6, <1>7, <1>8, <1>9, <1>10, <1>11, <1>12, <1>13, <1>14
    DEF Next, Application, Browser, Reply, Logout, TimerFires

\* The login that completes a silent request of the main window finds the URL
\* that the page was left at.
LEMMA CompletesRestored ==
  ASSUME LoginInv, Silently, [Next]_vars, NEW code \in silent, Completes(code)
  PROVE  event' = "sessionRestore"
  <1>0. TypeOK /\ code # None
    BY DEF LoginInv, Silently, NotInIframe, None
  <1>1. PICK t \in Tasks, life \in Lifetimes : TokensObtained(t, life)
    BY <1>0, OtherStepsKeepLogin DEF LoginInv, KeepsLogin, Completes
  <1>2. tasks[t].code = code /\ tasks[t].step = "token" /\ tasks[t].kind = "redirect"
    BY <1>0, <1>1, TokensEffect DEF Completes, Silently, NotInIframe
  <1>3. storage.currentUrl
    BY <1>2 DEF Silently, UrlKept, Restores, Exchanging
  <1> QED
    BY <1>0, <1>1, <1>2, <1>3, TokensEffect

\* A login that completes a silent request of the main window is announced as
\* a restored session, at the URL that the page was left at: nothing that
\* happens on the way, in the iframe or by a logout, makes the page forget it.
THEOREM RestoresWhereLeft == Spec => SilentLoginRestores
  <1>1. Init => OneRedirect /\ Silently
    BY NoTaskFields
    DEF Init, EmptyStorage, OneRedirect, Silently, NotInIframe, LeavesOnly, UrlKept,
        Restores, None
  <1>2. LoginInv /\ Silently /\ [Next]_vars =>
          [\A code \in silent : Completes(code) => event' = "sessionRestore"]_vars
    BY CompletesRestored
  <1>3. CodeInv => TypeOK
    BY DEF CodeInv
  <1> QED
    BY <1>1, <1>2, <1>3, CodeInvInit, CodeInvStep, LoginInvInit, LoginInvStep,
       NextOneRedirect, NextSilently, PTL DEF Spec, SilentLoginRestores

-----------------------------------------------------------------------------
(* A page that does not renew its session in an iframe.                    *)

\* Flow t logs in from the main window: it makes a silent request only when
\* none has been made since tokens were obtained, and drops the ID token first.
InMainWindow(t) ==
  /\ tasks[t].kind \notin {"renew", "iframe"}
  /\ Exchanging(t) => tasks[t].kind = "redirect"
  /\ tasks[t].kind = "redirect" =>
       /\ tasks[t].step \in {"validate", "issuer", "signin"} => bounces = 0
       /\ tasks[t].step \in {"issuer", "signin"} => ~storage.idToken

\* All flows log in from the main window, a silent request leaves nothing to
\* start another with, and a page with a timer has no code to exchange.
MainWindow ==
  /\ window.iframe = None
  /\ \A t \in Tasks : InMainWindow(t)
  /\ BouncesOnce
  /\ bounces = 1 => ~storage.idToken
  /\ LoginGivesFetch
  /\ timers # {} => window.location = None /\ \A t \in Tasks : ~Exchanging(t)

\* A step that obtains no tokens and asks for none, and after which the flows
\* of T are what they were.
LEMMA MainWindowStep ==
  ASSUME MainWindow, window'.iframe = None,
         window'.location \in {window.location, None},
         timers' \subseteq timers, UNCHANGED bounces,
         storage'.idToken => storage.idToken,
         session'.isLoggedIn => session.isLoggedIn /\ session'.fetch = session.fetch,
         NEW T \in SUBSET Tasks, \A u \in T : tasks'[u] = tasks[u],
         \A t \in Tasks \ T : InMainWindow(t)' /\ (timers # {} => ~Exchanging(t)')
  PROVE  MainWindow'
  <1>1. \A t \in Tasks : InMainWindow(t)'
    BY DEF MainWindow, InMainWindow, Exchanging
  <1>2. timers' # {} => window'.location = None /\ \A t \in Tasks : ~Exchanging(t)'
    BY DEF MainWindow, Exchanging
  <1> QED
    BY <1>1, <1>2 DEF MainWindow, BouncesOnce, LoginGivesFetch

LEMMA NextMainWindow ==
  ASSUME ~UsesRenewal, TypeOK, OneRedirect, MainWindow, [Next]_vars
  PROVE  MainWindow'
  <1> USE NoTaskFields
  <1>0. bounces \in Nat /\ window.iframe = None
    BY BrowserAssumption DEF TypeOK, MainWindow
  \* Steps of one flow, and of none.
  <1>o. ASSUME UNCHANGED <<bounces, timers, window>>,
               storage'.idToken => storage.idToken,
               session'.isLoggedIn => session.isLoggedIn /\ session'.fetch = session.fetch,
               NEW t \in Tasks, Others(t), InMainWindow(t)',
               timers # {} => ~Exchanging(t)'
        PROVE  MainWindow'
    <2> DEFINE T == Tasks \ {t}
    <2>1. /\ T \in SUBSET Tasks /\ \A u \in T : tasks'[u] = tasks[u]
          /\ \A u \in Tasks \ T : u = t
      BY <1>o DEF Others
    <2> HIDE DEF T
    <2> QED
      BY <1>0, <1>o, <2>1, MainWindowStep
  <1>s. ASSUME UNCHANGED <<bounces, tasks, window>>, timers' \subseteq timers,
               storage'.idToken => storage.idToken,
               session'.isLoggedIn => session.isLoggedIn /\ session'.fetch = session.fetch
        PROVE  MainWindow'
    BY <1>s, <1>0, MainWindowStep
  \* A step that ends a flow, or begins a login.
  <1>e. ASSUME UNCHANGED <<bounces, timers, window>>,
               storage'.idToken => storage.idToken,
               session'.isLoggedIn => session.isLoggedIn /\ session'.fetch = session.fetch,
               NEW t \in Tasks, Others(t), tasks'[t].kind \in {"none", "login"},
               tasks'[t].step \in {"none", "issuer"}
        PROVE  MainWindow'
    BY <1>e, <1>o DEF InMainWindow, Exchanging
  \* One that only moves a flow on.
  <1>m. ASSUME UNCHANGED <<bounces, timers, window, session>>,
               storage'.idToken => storage.idToken,
               NEW t \in Tasks, NEW step, Continues(t, step),
               step \in {"config", "register", "token"} => Exchanging(t),
               step \in {"issuer", "signin"} =>
                 /\ tasks[t].step \in {"validate", "issuer", "signin"}
                 /\ tasks[t].step = "validate" => ~storage'.idToken,
               step # "validate"
        PROVE  MainWindow'
    <2>1. InMainWindow(t)'
      BY <1>m DEF MainWindow, InMainWindow, Continues, Exchanging
    <2> QED
      BY <1>m, <1>o, <2>1 DEF MainWindow, Continues, Exchanging
  <1>1. ASSUME NEW t \in Tasks, Login(t) PROVE MainWindow'
    BY <1>1, <1>e, ApplicationEffects DEF Begins, Cleared
  <1>2. ASSUME NEW t \in Tasks, Renew(t) PROVE MainWindow'
    BY <1>2, ApplicationEffects
  <1>3. ASSUME NEW t \in Tasks, HandleCode(t) PROVE MainWindow'
    <2>1. /\ window.location # None
          /\ Begins(t, "redirect", "config", window.location) \/ UNCHANGED tasks
          /\ SameLogin /\ session'.fetch = session.fetch /\ SameStorage
          /\ UNCHANGED <<bounces, timers, window>>
      BY <1>3, ApplicationEffects
    <2>2. timers = {}
      BY <2>1 DEF MainWindow
    <2>3. CASE UNCHANGED tasks
      BY <1>s, <2>1, <2>3 DEF SameLogin, SameStorage
    <2>4. CASE Begins(t, "redirect", "config", window.location)
      BY <1>o, <2>1, <2>2, <2>4 DEF Begins, InMainWindow, Exchanging, SameLogin, SameStorage
    <2> QED
      BY <2>1, <2>3, <2>4
  <1>4. ASSUME NEW t \in Tasks, NEW restore \in BOOLEAN, HandleNoCode(t, restore)
        PROVE  MainWindow'
    <2>1. /\ ~session.isLoggedIn /\ ~session'.isLoggedIn
          /\ \/ Begins(t, "redirect", "validate", None) /\ storage.idToken
             \/ UNCHANGED tasks
          /\ UNCHANGED <<storage, bounces, timers, window>>
      BY <1>4, ApplicationEffects DEF MayHandleRedirect, SameLogin
    <2>2. CASE UNCHANGED tasks
      BY <1>s, <2>1, <2>2
    <2>3. CASE Begins(t, "redirect", "validate", None) /\ storage.idToken
      <3>1. bounces = 0
        BY <1>0, <2>3 DEF MainWindow, BouncesOnce
      <3> QED
        BY <1>o, <2>1, <2>3, <3>1 DEF Begins, InMainWindow, Exchanging
    <2> QED
      BY <2>1, <2>2, <2>3
  <1>5. ASSUME LogOut, timers' \subseteq timers PROVE MainWindow'
    BY <1>5, <1>s, LogOutEffect DEF Cleared
  <1>6. ASSUME NEW t \in Tasks, TokenValid(t) \/ IssuerFetched(t) PROVE MainWindow'
    BY <1>6, <1>m, RequestEffects DEF Cleared, SameStorage
  <1>7. ASSUME NEW t \in Tasks, TokenInvalid(t) \/ SigninFails(t) \/ RequestFails(t)
        PROVE  MainWindow'
    <2>1. /\ UNCHANGED <<storage, bounces, timers, window>>
          /\ \/ Ends(t) /\ SameLogin /\ session'.fetch = session.fetch
             \/ Continues(t, "forever") /\ UNCHANGED session
      BY <1>7, RequestEffects, ExchangeEffects DEF SameLogin
    <2> QED
      BY <1>e, <1>m, <2>1 DEF Ends, SameLogin
  <1>8. ASSUME NEW t \in Tasks, ConfigFetched(t) \/ ClientRegistered(t) PROVE MainWindow'
    <2>1. /\ UNCHANGED <<bounces, timers, window, session>> /\ SameStorage /\ Exchanging(t)
          /\ Ends(t) \/ Continues(t, "register") \/ Continues(t, "token")
      BY <1>8, ExchangeEffects DEF Exchanging
    <2> QED
      BY <1>e, <1>m, <2>1 DEF Ends, SameStorage
  <1>9. ASSUME NEW t \in Tasks, SigninCreated(t) PROVE MainWindow'
    <2>1. /\ tasks[t].step = "signin" /\ tasks[t].kind # "renew"
          /\ Others(t) /\ tasks'[t].kind = tasks[t].kind /\ tasks'[t].step = "forever"
          /\ UNCHANGED <<timers, session>> /\ storage'.idToken = storage.idToken
          /\ window'.iframe = None /\ window'.location = window.location
          /\ bounces' = IF tasks[t].kind = "redirect" THEN bounces + 1 ELSE bounces
      BY <1>9, <1>0, SigninEffect DEF MainWindow, InMainWindow, Continues
    <2>2. CASE tasks[t].kind # "redirect"
      <3> DEFINE T == Tasks \ {t}
      <3>1. /\ T \in SUBSET Tasks /\ \A u \in T : tasks'[u] = tasks[u]
            /\ \A u \in Tasks \ T : u = t
        BY <2>1 DEF Others
      <3>2. InMainWindow(t)' /\ ~Exchanging(t)'
        BY <2>1, <2>2 DEF MainWindow, InMainWindow, Exchanging
      <3> HIDE DEF T
      <3> QED
        BY <2>1, <2>2, <3>1, <3>2, MainWindowStep
    <2>3. CASE tasks[t].kind = "redirect"
      <3>1. bounces = 0 /\ ~storage.idToken
        BY <2>1, <2>3 DEF MainWindow, InMainWindow
      <3>2. \A u \in Tasks : u # t => tasks'[u].kind # "redirect"
        BY <2>1, <2>3 DEF OneRedirect, Others
      <3>3. ASSUME NEW u \in Tasks PROVE InMainWindow(u)'
        BY <2>1, <2>3, <3>1, <3>2 DEF MainWindow, InMainWindow, Exchanging, Others
      <3>4. bounces' = 1
        BY <2>1, <2>3, <3>1
      <3>5. \A u \in Tasks : Exchanging(u)' => Exchanging(u)
        BY <2>1 DEF Exchanging, Others
      <3> QED
        BY <2>1, <3>1, <3>3, <3>4, <3>5 DEF MainWindow, BouncesOnce, LoginGivesFetch
    <2> QED
      BY <2>2, <2>3
  <1>10. ASSUME NEW t \in Tasks, NEW life \in Lifetimes, TokensObtained(t, life)
         PROVE  MainWindow'
    <2>1. /\ Ends(t) /\ tasks[t].step = "token" /\ bounces' = 0
          /\ tasks[t].code \in codes /\ session'.fetch = tasks[t].code
          /\ window'.location = None /\ window'.iframe \in {window.iframe, None}
      BY <1>10, TokensEffect
    <2>2. tasks[t].code # None
      BY <2>1 DEF TypeOK, Requests, None
    <2>3. tasks[t].kind = "redirect"
      BY <2>1 DEF MainWindow, InMainWindow, Exchanging
    <2>4. \A u \in Tasks : tasks'[u].kind # "redirect"
      BY <2>1, <2>3 DEF OneRedirect, Ends, Others
    <2>5. ASSUME NEW u \in Tasks PROVE InMainWindow(u)' /\ ~Exchanging(u)'
      BY <2>1, <2>4 DEF MainWindow, InMainWindow, Exchanging, Ends, Others
    <2> QED
      BY <1>0, <2>1, <2>2, <2>5 DEF MainWindow, BouncesOnce, LoginGivesFetch
  <1>11. ASSUME IframeReturnsError \/ \E t \in Tasks : IframeReturnsCode(t)
         PROVE  MainWindow'
    BY <1>0, <1>11, IframeEffects
  <1>12. CASE Tick \/ UNCHANGED vars
    BY <1>12, <1>s DEF Tick, vars, history
  <1>13. CASE NavigationReturns \/ Reload
    <2>1. /\ \A t \in Tasks : tasks'[t] = NoTask
          /\ ~session'.isLoggedIn /\ timers' = {} /\ window'.iframe = None
          /\ UNCHANGED <<storage, bounces>>
      BY <1>13, NewPageEffect DEF NewSession
    <2> QED
      BY <2>1 DEF MainWindow, InMainWindow, Exchanging, BouncesOnce, LoginGivesFetch
  <1> QED
    BY <1>1, <1>2, <1>3, <1>4, <1>5, <1>6, <1>7, <1>8, <1>9, <1>10, <1>11, <1>12, <1>13
    DEF Next, Application, Browser, Reply, Logout, TimerFires

LEMMA InitMainWindow == Init => OneRedirect /\ MainWindow
  BY NoTaskFields
  DEF Init, EmptyStorage, NewSession, OneRedirect, MainWindow, InMainWindow, Exchanging,
      BouncesOnce, LoginGivesFetch, None

\* Without renewal in an iframe, the page is sent to the identity provider for
\* a silent login at most once between two successes at the token endpoint,
\* over any number of reloads, failed exchanges and abandoned redirects.
THEOREM NeverBounces == ASSUME ~UsesRenewal PROVE Spec => []BouncesOnce
  <1>1. TypeOK /\ OneRedirect /\ MainWindow /\ [Next]_vars => MainWindow'
    BY NextMainWindow
  <1>2. MainWindow => BouncesOnce
    BY DEF MainWindow
  <1> QED
    BY <1>1, <1>2, TypeInit, TypeStep, InitMainWindow, NextOneRedirect, PTL DEF Spec

\* Without renewal in an iframe, a page that says it is logged in has a fetch
\* that carries its tokens: what handleIncomingRedirect does when there is
\* nothing to complete never takes it away.
THEOREM KeepsFetch == ASSUME ~UsesRenewal PROVE Spec => []LoginGivesFetch
  <1>1. TypeOK /\ OneRedirect /\ MainWindow /\ [Next]_vars => MainWindow'
    BY NextMainWindow
  <1>2. MainWindow => LoginGivesFetch
    BY DEF MainWindow
  <1> QED
    BY <1>1, <1>2, TypeInit, TypeStep, InitMainWindow, NextOneRedirect, PTL DEF Spec

-----------------------------------------------------------------------------
(* Timers that are not early.                                              *)

\* setTimeout can wait for the end of every token.
DelaysFit == \A life \in Lifetimes \ {Never} : life <= MaxDelay

\* A pending timer is of the tokens the session has, and not due before they
\* expire; a token request was made in the past.
TimersOfLogin ==
  /\ session.isLoggedIn =>
       \A timer \in timers :
         session.expirationDate # Never /\ timer.due >= session.expirationDate
  /\ \A t \in Tasks : tasks[t].step = "token" => tasks[t].since <= now

\* Only logging out announces a logout,
LEMMA LogoutEvents ==
  ASSUME TypeOK, [Next]_vars, event' = "logout"
  PROVE  UNCHANGED timers \/ \E timer \in timers : TimerFires(timer)
  <1>1. UNCHANGED vars \/ Logout \/ \E timer \in timers : TimerFires(timer)
    BY DEF Next, Application, Reply, Browser, Emit, Login, HandleCode, HandleNoCode, Renew,
      TokenValid, TokenInvalid, IssuerFetched, SigninCreated, SigninFails, ConfigFetched,
      ClientRegistered, TokensObtained, RequestFails, IframeReturnsCode,
      IframeReturnsError, NavigationReturns, Reload, FreshPage, Tick
  <1> QED
    BY <1>1 DEF vars, Logout

\* and only obtaining tokens sets a timer.
LEMMA TimersGoAway ==
  ASSUME TypeOK, [Next]_vars,
         ~ \E t \in Tasks, life \in Lifetimes : TokensObtained(t, life)
  PROVE  timers' \subseteq timers
  <1>1. ASSUME FreshPage(None) \/ FreshPage(window.navigation) \/ FreshPage(window.location)
        PROVE  timers' \subseteq timers
    BY <1>1 DEF FreshPage
  <1> QED
    BY <1>1 DEF Next, Application, Reply, Browser, Login, HandleCode, HandleNoCode, Renew,
      TokenValid, TokenInvalid, IssuerFetched, SigninCreated, SigninFails, ConfigFetched,
      ClientRegistered, RequestFails, IframeReturnsCode, IframeReturnsError, Logout,
      TimerFires, NavigationReturns, Reload, Tick, vars

\* A token request keeps the time it was made at.
LEMMA RequestTimes ==
  ASSUME TypeOK, TimersOfLogin, [Next]_vars, NEW u \in Tasks, tasks'[u].step = "token"
  PROVE  tasks'[u].since <= now'
  <1> USE NoTaskFields
  <1>0. now \in Nat /\ \A t \in Tasks : tasks[t].since \in Nat
    BY BrowserAssumption DEF TypeOK, Task
  <1>1. CASE tasks'[u] = tasks[u]
    <2>1. UNCHANGED now \/ now' = now + 1
      BY DEF Next, Application, Reply, Browser, Login, HandleCode, HandleNoCode, Renew,
        TokenValid, TokenInvalid, IssuerFetched, SigninCreated, SigninFails, ConfigFetched,
        ClientRegistered, TokensObtained, RequestFails, IframeReturnsCode,
        IframeReturnsError, Logout, LogOut, TimerFires, NavigationReturns, Reload, Tick, vars
    <2> QED
      BY <1>0, <1>1, <2>1 DEF TimersOfLogin
  <1>2. CASE ~(tasks'[u] = tasks[u])
    <2>1. ConfigFetched(u) \/ ClientRegistered(u)
      <3>1. ASSUME NEW t \in Tasks, Login(t) \/ HandleCode(t) \/ Renew(t)
                                    \/ \E restore \in BOOLEAN : HandleNoCode(t, restore)
            PROVE  FALSE
        BY <1>2, <3>1, ApplicationEffects DEF Begins, Others
      <3>2. ASSUME NEW t \in Tasks, TokenValid(t) \/ TokenInvalid(t) \/ IssuerFetched(t)
                                    \/ SigninFails(t) \/ RequestFails(t)
            PROVE  FALSE
        BY <1>2, <3>2, RequestEffects, ExchangeEffects DEF Continues, Ends, Others
      <3>3. ASSUME NEW t \in Tasks, SigninCreated(t) PROVE FALSE
        BY <1>2, <3>3, SigninEffect DEF Continues, Ends, Others
      <3>4. ASSUME NEW t \in Tasks, NEW life \in Lifetimes, TokensObtained(t, life)
            PROVE  FALSE
        BY <1>2, <3>4, TokensEffect DEF Ends, Others
      <3>5. ASSUME NEW t \in Tasks, IframeReturnsCode(t) PROVE FALSE
        BY <1>2, <3>5, IframeEffects DEF Begins, Others
      <3>6. ASSUME IframeReturnsError \/ LogOut \/ Tick \/ UNCHANGED vars PROVE FALSE
        BY <1>2, <3>6, IframeEffects, LogOutEffect DEF Tick, vars
      <3>7. ASSUME NavigationReturns \/ Reload PROVE FALSE
        BY <3>7, NewPageEffect
      <3>8. ASSUME NEW t \in Tasks, ConfigFetched(t) \/ ClientRegistered(t) PROVE t = u
        BY <1>2, <3>8, ExchangeEffects DEF Continues, Ends, Others
      <3> QED
        BY <3>1, <3>2, <3>3, <3>4, <3>5, <3>6, <3>7, <3>8
        DEF Next, Application, Browser, Reply, Logout, TimerFires
    <2> QED
      BY <1>0, <2>1, ExchangeEffects DEF Continues, Ends
  <1> QED
    BY <1>1, <1>2

LEMMA NextTimersOfLogin ==
  ASSUME DelaysFit, LoginInv, MainWindow, TimersOfLogin, [Next]_vars
  PROVE  TimersOfLogin'
  <1>0. TypeOK
    BY DEF LoginInv
  <1>1. \A t \in Tasks : tasks'[t].step = "token" => tasks'[t].since <= now'
    BY <1>0, RequestTimes
  <1>2. CASE ~ \E t \in Tasks, life \in Lifetimes : TokensObtained(t, life)
    BY <1>0, <1>1, <1>2, OtherStepsKeepLogin, TimersGoAway
    DEF LoginInv, KeepsLogin, TimersOfLogin
  <1>3. ASSUME NEW t \in Tasks, NEW life \in Lifetimes, TokensObtained(t, life)
        PROVE  TimersOfLogin'
    <2> DEFINE expiration == Expiration(tasks[t].since, life)
    <2>1. /\ session'.expirationDate = expiration
          /\ timers' = timers \cup Timer(expiration, tasks[t].code)
      BY <1>0, <1>3, TokensLogIn
    <2>2. tasks[t].step = "token"
      BY <1>0, <1>3, TokensEffect
    <2>3. timers = {}
      BY <2>2 DEF MainWindow, Exchanging
    <2>4. /\ tasks[t].since \in Nat /\ now \in Nat /\ tasks[t].since <= now
          /\ MaxDelay \in Nat /\ life \in Nat \cup {Never} /\ Never \notin Nat
      BY <1>0, <2>2, BrowserAssumption DEF TypeOK, Task, TimersOfLogin
    <2>5. CASE life = Never
      <3>1. timers' = {}
        BY <2>1, <2>3, <2>5 DEF Expiration, Timer
      <3> QED
        BY <1>1, <3>1 DEF TimersOfLogin
    <2>6. CASE life # Never
      <3>1. /\ expiration = tasks[t].since + life /\ life <= MaxDelay
            /\ expiration \in Nat /\ expiration <= now + MaxDelay
        BY <2>4, <2>6 DEF Expiration, DelaysFit
      <3> HIDE DEF expiration
      <3>2. timers' = {[due |-> expiration, code |-> tasks[t].code]}
        BY <2>1, <2>3, <2>4, <3>1 DEF Timer
      <3> QED
        BY <1>1, <2>1, <2>4, <3>1, <3>2 DEF TimersOfLogin
    <2> QED
      BY <2>5, <2>6
  <1> QED
    BY <1>2, <1>3

\* Without renewal in an iframe, and with tokens whose lifetime setTimeout can
\* wait for, no timer logs out a session whose tokens have not expired: those
\* of earlier logins, which are never cancelled, have gone with their page
\* before there is another login.
THEOREM LogsOutInTime ==
  ASSUME ~UsesRenewal, DelaysFit
  PROVE  Spec => NoPrematureLogout
  <1>1. TypeOK /\ OneRedirect /\ MainWindow /\ [Next]_vars => MainWindow'
    BY NextMainWindow
  <1>2. LoginInv /\ MainWindow /\ TimersOfLogin /\ [Next]_vars => TimersOfLogin'
    BY NextTimersOfLogin
  <1>3. Init => TimersOfLogin
    BY NoTaskFields DEF Init, NewSession, TimersOfLogin
  <1>4. TypeOK /\ TimersOfLogin /\ [Next]_vars =>
          [timers' # timers /\ event' = "logout" /\ session.isLoggedIn
             => session.expirationDate # Never /\ session.expirationDate <= now]_vars
    <2> SUFFICES ASSUME TypeOK, TimersOfLogin, [Next]_vars,
                        timers' # timers, event' = "logout", session.isLoggedIn
                 PROVE  session.expirationDate # Never /\ session.expirationDate <= now
      OBVIOUS
    <2>1. PICK timer \in timers : TimerFires(timer)
      BY LogoutEvents
    <2>2. /\ session.expirationDate # Never /\ timer.due >= session.expirationDate
          /\ timer.due <= now
      BY <2>1 DEF TimersOfLogin, TimerFires
    <2>3. session.expirationDate \in Nat /\ timer.due \in Nat /\ now \in Nat
      BY <2>2, BrowserAssumption DEF TypeOK, SessionObject
    <2> QED
      BY <2>2, <2>3
  <1> QED
    BY <1>1, <1>2, <1>3, <1>4, TypeInit, TypeStep, LoginInvInit, LoginInvStep,
       InitMainWindow, NextOneRedirect, PTL DEF Spec, NoPrematureLogout

=============================================================================
