---------------------------- MODULE CookieSession ----------------------------
(***************************************************************************)
(* The useEssSession workaround of the browser package: after a login the  *)
(* page asks the user's resource server whether its cookie keeps the user  *)
(* logged in, remembers the answer in window.localStorage, and on later    *)
(* page loads logs the user in from what it remembers, without tokens.     *)
(*                                                                         *)
(* One tab.  BrowserSession models the login itself; here it is what it    *)
(* does to this memory: the calls of the application, the requests to the  *)
(* resource servers and the clock interleave.  The application does not    *)
(* log in or out while handleIncomingRedirect has not returned.            *)
(***************************************************************************)
EXTENDS Naturals

CONSTANTS
  Names, Servers,   \* a WebID is a name at a resource server
  Lifespan,         \* DEFAULT_LIFESPAN, which is also that of the cookies
  Margin,           \* the five minutes before its end a cookie is not trusted
  Latency,          \* the longest that a request to /session takes
  MaxTime,          \* bound: the clock
  None

WebIds == Names \X Servers
ServerOf(webId) == webId[2]

ASSUME CookieAssumption ==
  /\ Lifespan \in Nat
  /\ Margin \in Nat
  /\ Latency \in 0..Margin
  /\ MaxTime \in Nat
  /\ None \notin WebIds

VARIABLES
  enabled,   \* tmp-resource-server-session-enabled
  info,      \* tmp-resource-server-session-info
  page,      \* the Session object, the exchange it runs, the code in its URL
  cookies,   \* cookies[s]: what the browser holds for the server s
  now,       \* Date.now()
  last       \* history: who logged in last, None after a logout or a login call

vars == <<enabled, info, page, cookies, now, last>>

NoSessions == [s \in {} |-> 0]
NoInfo == [webId |-> None, sessions |-> NoSessions]
NoCookie == [user |-> None, until |-> 0]
FreshPage(code) == [isLoggedIn |-> FALSE, webId |-> None, withCookies |-> FALSE,
                    step |-> "none", code |-> code, since |-> 0]

Init ==
  /\ enabled = TRUE
  /\ info = NoInfo
  /\ page = FreshPage(None)
  /\ cookies = [s \in Servers |-> NoCookie]
  /\ now = 0
  /\ last = None

-----------------------------------------------------------------------------
(* StorageUtility.                                                         *)

\* The sessions of another WebID are dropped.
Kept(webId) == IF info.webId = webId THEN info.sessions ELSE NoSessions

\* storeResourceServerSessionInfo.
Stored(webId, expiration) ==
  [webId |-> webId,
   sessions |-> [s \in DOMAIN Kept(webId) \cup {ServerOf(webId)} |->
                   IF s = ServerOf(webId) THEN expiration ELSE info.sessions[s]]]

\* Mutants: what is remembered survives; a WebID without sessions is kept.
ClearedOfNothing(server) == info
ClearedOfServer(server) ==
  [info EXCEPT !.sessions = [s \in DOMAIN info.sessions \ {server} |-> info.sessions[s]]]
\* clearResourceServerSessionInfo.
Cleared(server) ==
  LET left == DOMAIN info.sessions \ {server} IN
  IF left = {} THEN NoInfo
  ELSE [info EXCEPT !.sessions = [s \in left |-> info.sessions[s]]]

\* The part of SessionInfoManager's clear that is about this memory.
Forgotten == IF info.webId = None THEN info ELSE Cleared(ServerOf(info.webId))

-----------------------------------------------------------------------------
(* Session.                                                                *)

\* The user's own server, when it is known, decides.
RelevantServer ==
  IF ServerOf(info.webId) \in DOMAIN info.sessions
    THEN ServerOf(info.webId)
    ELSE CHOOSE s \in DOMAIN info.sessions : TRUE

\* Mutant: a cookie is trusted to its end.
TrustedToTheEnd == info.webId # None /\ info.sessions[RelevantServer] > now
\* A cookie valid for less than five minutes is not trusted.
Trusted == info.webId # None /\ info.sessions[RelevantServer] > now + Margin

\* handleIncomingRedirect called with its options useEssSession and
\* restorePreviousSession, on a page that neither is logged in nor exchanges a
\* code.  It logs in with cookies, or exchanges the code of the URL, or, when
\* it has none, does nothing that matters here: a silent login is a Login.
HandleIncomingRedirect(useEssSession, restorePreviousSession) ==
  /\ ~page.isLoggedIn /\ page.step = "none"
  /\ enabled' = (useEssSession /\ ~restorePreviousSession)
  /\ IF enabled' /\ Trusted
       THEN page' = [page EXCEPT !.isLoggedIn = TRUE, !.webId = info.webId,
                                 !.withCookies = TRUE]
       ELSE page' = [page EXCEPT !.step = IF page.code = None THEN "none" ELSE "token"]
  /\ UNCHANGED <<info, cookies, now, last>>

\* The exchange ends.
FinishLogin ==
  /\ page' = [page EXCEPT !.isLoggedIn = TRUE, !.webId = page.code,
                          !.step = "none", !.code = None]
  /\ last' = page.code

\* The tokens arrive; without the workaround that is all.
TokensObtained ==
  /\ page.step = "token"
  /\ IF enabled THEN page' = [page EXCEPT !.step = "webId"] /\ UNCHANGED last
                ELSE FinishLogin
  /\ UNCHANGED <<enabled, info, cookies, now>>

\* A server answers a request with tokens and sets its cookie.
SetCookie(server, webId) ==
  cookies' = [cookies EXCEPT ![server] = [user |-> webId, until |-> now + Lifespan]]

\* The WebID document, fetched with tokens, is what makes the server set it.
WebIdFetched ==
  /\ page.step = "webId"
  /\ SetCookie(ServerOf(page.code), page.code) \/ UNCHANGED cookies
  /\ page' = [page EXCEPT !.step = "session", !.since = now]
  /\ UNCHANGED <<enabled, info, now, last>>

\* The tokens or the WebID document cannot be had: the call throws, and leaves
\* tokenRequestInProgress set.
ExchangeFails ==
  /\ page.step \in {"token", "webId"}
  /\ page' = [page EXCEPT !.step = "failed"]
  /\ UNCHANGED <<enabled, info, cookies, now, last>>

\* The server's /session endpoint knows the user by the cookie just set.
SessionFound ==
  /\ page.step = "session"
  /\ cookies[ServerOf(page.code)].user = page.code
  /\ cookies[ServerOf(page.code)].until >= page.since + Lifespan
  /\ info' = Stored(page.code, now + Lifespan)
  /\ FinishLogin
  /\ UNCHANGED <<enabled, cookies, now>>

\* It does not, or it cannot be reached.
SessionNotFound ==
  /\ page.step = "session"
  /\ info' = Cleared(ServerOf(page.code))
  /\ FinishLogin
  /\ UNCHANGED <<enabled, cookies, now>>

\* Any later fetch with tokens may set a cookie.
Fetch(server) ==
  /\ page.isLoggedIn /\ ~page.withCookies
  /\ SetCookie(server, page.webId)
  /\ UNCHANGED <<enabled, info, page, now, last>>

Logout ==
  /\ page.step = "none"
  /\ info' = Forgotten
  /\ page' = [page EXCEPT !.isLoggedIn = FALSE, !.withCookies = FALSE]
  /\ last' = None
  /\ UNCHANGED <<enabled, cookies, now>>

\* login forgets the session, and sends the user away, who comes back with a
\* code for some WebID or without one; or it throws.
Login ==
  /\ page.step \in {"none", "failed"}
  /\ info' = Forgotten
  /\ \/ \E code \in WebIds \cup {None} : page' = FreshPage(code)
     \/ UNCHANGED page
  /\ last' = None
  /\ UNCHANGED <<enabled, cookies, now>>

\* The user loads the page again, or anew; a code that was sent is spent.
Reload ==
  /\ \/ page' = FreshPage(None)
     \/ page.step = "none" /\ page' = FreshPage(page.code)
  /\ UNCHANGED <<enabled, info, cookies, now, last>>

Tick ==
  /\ now < MaxTime
  /\ page.step = "session" => now < page.since + Latency
  /\ now' = now + 1
  /\ UNCHANGED <<enabled, info, page, cookies, last>>

Next ==
  \/ \E useEssSession, restorePreviousSession \in BOOLEAN :
       HandleIncomingRedirect(useEssSession, restorePreviousSession)
  \/ TokensObtained \/ WebIdFetched \/ ExchangeFails
  \/ SessionFound \/ SessionNotFound
  \/ \E server \in Servers : Fetch(server)
  \/ Logout \/ Login \/ Reload \/ Tick

Spec == Init /\ [][Next]_vars

-----------------------------------------------------------------------------
(* Properties.                                                             *)

Page == [isLoggedIn : BOOLEAN, webId : WebIds \cup {None}, withCookies : BOOLEAN,
         code : WebIds \cup {None}, since : Nat,
         step : {"none", "token", "webId", "session", "failed"}]

\* The shape of the state; one WebID is remembered, with its own server.
TypeOK ==
  /\ enabled \in BOOLEAN
  /\ \/ info = NoInfo
     \/ \E webId \in WebIds :
          /\ info.webId = webId
          /\ info.sessions \in [{ServerOf(webId)} -> Nat]
          /\ info = [webId |-> webId, sessions |-> info.sessions]
  /\ page \in Page
  /\ page.step # "none" => page.code # None
  /\ cookies \in [Servers -> [user : WebIds \cup {None}, until : Nat]]
  /\ now \in Nat
  /\ last \in WebIds \cup {None}

LogsInWithCookies == page'.withCookies /\ ~page.withCookies

\* A login with cookies finds the cookie there and valid: the user's server
\* holds the browser for that very user, although it was somebody else's fetch
\* that set the cookie before, and although the server's answer was on its way
\* when the end of the cookie was computed.
CookieLoginHonoured ==
  [][LogsInWithCookies =>
       LET cookie == cookies[ServerOf(page'.webId)] IN
       cookie.user = page'.webId /\ cookie.until > now]_vars

\* Only the user who logged in last is logged in with cookies, and nobody is
\* after a logout or once another login was begun: not the one before whose
\* server still has a cookie, not even when the last one's server has none.
CookieLoginIsLast == [][LogsInWithCookies => page'.webId = last]_vars
=============================================================================
