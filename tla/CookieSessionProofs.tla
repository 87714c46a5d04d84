------------------------- MODULE CookieSessionProofs -------------------------
(***************************************************************************)
(* What CookieSession promises, for any WebIDs, servers, lifetimes and any *)
(* length of time.                                                         *)
(***************************************************************************)
EXTENDS CookieSession, TLAPS

\* What is remembered is about the user who logged in last, whose server's
\* cookie ends at most Latency before the remembered end.
Backed ==
  info # NoInfo =>
    LET server == ServerOf(info.webId) IN
    /\ info.webId = last
    /\ cookies[server].user = info.webId
    /\ info.sessions[server] <= cookies[server].until + Latency

\* Nothing is remembered while a code waits or is exchanged.
Exclusive == page.code # None => info = NoInfo

\* A page that is logged in is so as the user who logged in last, unless a
\* login or a logout has forgotten who that was.
Current ==
  /\ page.isLoggedIn => page.webId \in WebIds
  /\ page.isLoggedIn /\ last # None => page.webId = last

\* No cookie outlives its lifespan, and no answer of /session is late.
Timely ==
  /\ \A s \in Servers : cookies[s].until <= now + Lifespan
  /\ page.step = "session" => page.since <= now /\ now <= page.since + Latency

IInv == TypeOK /\ Backed /\ Exclusive /\ Current /\ Timely

\* Every WebID has a server.
LEMMA ServerTyped == ASSUME NEW webId \in WebIds PROVE ServerOf(webId) \in Servers
  BY DEF WebIds, ServerOf

\* Clearing the only session that can be remembered forgets everything.
LEMMA ForgottenIsAll == ASSUME TypeOK PROVE Forgotten = NoInfo
<1>1. CASE info = NoInfo
  BY <1>1 DEF Forgotten, NoInfo
<1>2. CASE info # NoInfo
  <2>1. PICK webId \in WebIds :
          info.webId = webId /\ info.sessions \in [{ServerOf(webId)} -> Nat]
    BY <1>2 DEF TypeOK
  <2>2. DOMAIN info.sessions \ {ServerOf(info.webId)} = {}
    BY <2>1
  <2>3. info.webId # None
    BY <2>1, CookieAssumption
  <2> QED BY <2>2, <2>3 DEF Forgotten, Cleared
<1> QED BY <1>1, <1>2

\* Clearing any server when nothing is remembered changes nothing.
LEMMA ClearedOfNone == ASSUME info = NoInfo, NEW server PROVE Cleared(server) = NoInfo
<1>1. DOMAIN info.sessions = {}
  BY DEF NoInfo, NoSessions
<1> QED BY <1>1 DEF Cleared

\* Storing a session when nothing is remembered remembers just that session.
LEMMA StoredFirst ==
  ASSUME info = NoInfo, NEW webId \in WebIds, NEW expiration \in Nat
  PROVE  /\ Stored(webId, expiration).webId = webId
         /\ Stored(webId, expiration).sessions = [s \in {ServerOf(webId)} |-> expiration]
         /\ Stored(webId, expiration) =
              [webId |-> webId, sessions |-> Stored(webId, expiration).sessions]
<1>1. DOMAIN Kept(webId) = {}
  BY CookieAssumption DEF Kept, NoInfo, NoSessions
<1>2. DOMAIN Kept(webId) \cup {ServerOf(webId)} = {ServerOf(webId)}
  BY <1>1
<1> QED BY <1>2 DEF Stored

\* A page just loaded has the type of a page.
LEMMA FreshTyped == ASSUME NEW code \in WebIds \cup {None}
                    PROVE  FreshPage(code) \in Page
  BY DEF FreshPage, Page

\* What is remembered is nothing or one session of one WebID.
LEMMA InfoShape ==
  ASSUME TypeOK, info # NoInfo
  PROVE  /\ info.webId \in WebIds
         /\ info.webId # None
         /\ info.sessions \in [{ServerOf(info.webId)} -> Nat]
         /\ info.sessions[ServerOf(info.webId)] \in Nat
         /\ RelevantServer = ServerOf(info.webId)
  BY CookieAssumption DEF TypeOK, RelevantServer

\* The initial state satisfies the invariant.
LEMMA InitHolds == Init => IInv
<1> SUFFICES ASSUME Init PROVE IInv
  OBVIOUS
<1>1. TypeOK
  BY FreshTyped DEF Init, TypeOK, Page, FreshPage, NoCookie
<1>2. Backed /\ Exclusive /\ Current
  BY CookieAssumption DEF Init, Backed, Exclusive, Current, FreshPage
<1>3. Timely
  BY CookieAssumption DEF Init, Timely, FreshPage, NoCookie
<1> QED BY <1>1, <1>2, <1>3 DEF IInv

\* A cookie that is set has its type, and no longer a life than its lifespan.
LEMMA CookieSet ==
  ASSUME TypeOK, Timely, NEW server \in Servers, NEW webId \in WebIds,
         SetCookie(server, webId), now' = now
  PROVE  /\ cookies' \in [Servers -> [user : WebIds \cup {None}, until : Nat]]
         /\ \A s \in Servers : cookies'[s].until <= now' + Lifespan
         /\ cookies'[server] = [user |-> webId, until |-> now + Lifespan]
         /\ \A s \in Servers \ {server} : cookies'[s] = cookies[s]
<1> USE CookieAssumption
<1>1. cookies'[server] = [user |-> webId, until |-> now + Lifespan]
  BY DEF SetCookie, TypeOK
<1>2. \A s \in Servers \ {server} : cookies'[s] = cookies[s]
  BY DEF SetCookie, TypeOK
<1>3. now + Lifespan \in Nat
  BY DEF TypeOK
<1>4. cookies' \in [Servers -> [user : WebIds \cup {None}, until : Nat]]
  BY <1>3 DEF SetCookie, TypeOK
<1>5. \A s \in Servers : cookies'[s].until <= now' + Lifespan
  BY <1>1, <1>2, <1>3 DEF Timely, TypeOK
<1> QED BY <1>1, <1>2, <1>4, <1>5

\* The parts of the invariant that speak of what is remembered hold of nothing.
LEMMA NothingHolds ==
  ASSUME info' = NoInfo PROVE Backed' /\ Exclusive'
  BY DEF Backed, Exclusive

\* handleIncomingRedirect keeps the invariant.
LEMMA RedirectKeeps ==
  ASSUME IInv, NEW useEssSession \in BOOLEAN, NEW restorePreviousSession \in BOOLEAN,
         HandleIncomingRedirect(useEssSession, restorePreviousSession)
  PROVE  IInv'
<1> USE DEF HandleIncomingRedirect
<1>0. UNCHANGED <<info, cookies, now, last>> /\ enabled' \in BOOLEAN
  OBVIOUS
<1>1. page' \in Page /\ (page'.step # "none" => page'.code # None)
      /\ page'.code = page.code /\ page'.step \in {"none", "token"}
      /\ (page'.isLoggedIn => page'.webId = info.webId /\ info # NoInfo)
  <2>1. CASE enabled' /\ Trusted
    <3>1. info # NoInfo
      BY <2>1 DEF Trusted, NoInfo
    <3>2. info.webId \in WebIds
      BY <3>1, InfoShape DEF IInv
    <3> QED BY <2>1, <3>1, <3>2 DEF IInv, TypeOK, Page
  <2>2. CASE ~(enabled' /\ Trusted)
    BY <2>2 DEF IInv, TypeOK, Page
  <2> QED BY <2>1, <2>2
<1>2. TypeOK'
  BY <1>0, <1>1 DEF IInv, TypeOK
<1>3. Backed' /\ Exclusive'
  BY <1>0, <1>1 DEF IInv, Backed, Exclusive
<1>4. Current'
  BY <1>0, <1>1, InfoShape DEF IInv, Backed, Current
<1>5. Timely'
  BY <1>0, <1>1 DEF IInv, Timely
<1> QED BY <1>2, <1>3, <1>4, <1>5 DEF IInv

\* The end of an exchange leaves a page logged in as the user it was for.
LEMMA Finished ==
  ASSUME TypeOK, page.step # "none", FinishLogin
  PROVE  /\ page' \in Page /\ page'.step = "none" /\ page'.code = None
         /\ page'.webId = page.code /\ page.code \in WebIds
         /\ last' = page.code
  BY CookieAssumption DEF FinishLogin, TypeOK, Page

\* The steps of an exchange up to the answer of /session keep the invariant.
LEMMA ExchangeKeeps ==
  ASSUME IInv, TokensObtained \/ WebIdFetched \/ ExchangeFails
  PROVE  IInv'
<1>0. info = NoInfo /\ info' = NoInfo /\ now' = now /\ enabled' = enabled
  BY DEF IInv, TypeOK, Exclusive, TokensObtained, WebIdFetched, ExchangeFails
<1>1. Backed' /\ Exclusive'
  BY <1>0, NothingHolds
<1>2. CASE TokensObtained
  <2>1. CASE enabled
    <3>1. page' = [page EXCEPT !.step = "webId"] /\ UNCHANGED <<last, cookies>>
      BY <1>2, <2>1 DEF TokensObtained
    <3>2. TypeOK'
      BY <1>0, <1>2, <3>1 DEF IInv, TypeOK, Page, TokensObtained
    <3> QED BY <1>0, <1>1, <3>1, <3>2 DEF IInv, Current, Timely, TypeOK, Page
  <2>2. CASE ~enabled
    <3>1. FinishLogin /\ page.step = "token" /\ cookies' = cookies
      BY <1>2, <2>2 DEF TokensObtained
    <3>2. TypeOK'
      BY <1>0, <3>1, Finished DEF IInv, TypeOK
    <3> QED BY <1>0, <1>1, <3>1, <3>2, Finished DEF IInv, Current, Timely
  <2> QED BY <2>1, <2>2
<1>3. CASE WebIdFetched
  <2>1. page' = [page EXCEPT !.step = "session", !.since = now]
        /\ last' = last /\ page.step = "webId" /\ page.code \in WebIds
    BY <1>3 DEF WebIdFetched, IInv, TypeOK, Page
  <2>2. /\ cookies' \in [Servers -> [user : WebIds \cup {None}, until : Nat]]
        /\ \A s \in Servers : cookies'[s].until <= now' + Lifespan
    <3>1. CASE SetCookie(ServerOf(page.code), page.code)
      BY <1>0, <2>1, <3>1, CookieSet, ServerTyped DEF IInv
    <3>2. CASE UNCHANGED cookies
      BY <1>0, <3>2 DEF IInv, TypeOK, Timely
    <3> QED BY <1>3, <3>1, <3>2 DEF WebIdFetched
  <2>3. TypeOK'
    BY <1>0, <2>1, <2>2 DEF IInv, TypeOK, Page
  <2>4. Timely'
    BY <1>0, <2>1, <2>2, CookieAssumption DEF IInv, TypeOK, Page, Timely
  <2> QED BY <1>1, <2>1, <2>3, <2>4 DEF IInv, Current, TypeOK, Page
<1>4. CASE ExchangeFails
  <2>1. page' = [page EXCEPT !.step = "failed"] /\ UNCHANGED <<last, cookies>>
    BY <1>4 DEF ExchangeFails
  <2>2. TypeOK'
    BY <1>0, <1>4, <2>1 DEF IInv, TypeOK, Page, ExchangeFails
  <2> QED BY <1>0, <1>1, <2>1, <2>2 DEF IInv, Current, Timely, TypeOK, Page
<1> QED BY <1>2, <1>3, <1>4

\* The answer of /session keeps the invariant: what is remembered is backed by
\* the cookie set on the fetch of the WebID.
LEMMA AnswerKeeps ==
  ASSUME IInv, SessionFound \/ SessionNotFound
  PROVE  IInv'
<1> DEFINE u == page.code
<1>0. FinishLogin /\ page.step = "session" /\ UNCHANGED <<enabled, cookies, now>>
  BY DEF SessionFound, SessionNotFound
<1>1. info = NoInfo
  BY <1>0 DEF IInv, TypeOK, Exclusive
<1>2. page' \in Page /\ page'.step = "none" /\ page'.code = None
      /\ page'.webId = u /\ u \in WebIds /\ last' = u
  BY <1>0, Finished DEF IInv
<1>3. Current' /\ Timely'
  BY <1>0, <1>2 DEF IInv, Current, Timely
<1>4. Exclusive'
  BY <1>2 DEF Exclusive
<1>5. CASE SessionNotFound
  <2>1. info' = NoInfo
    BY <1>1, <1>5, ClearedOfNone DEF SessionNotFound
  <2>2. TypeOK'
    BY <1>0, <1>2, <2>1 DEF IInv, TypeOK
  <2> QED BY <1>3, <2>1, <2>2, NothingHolds DEF IInv
<1>6. CASE SessionFound
  <2> DEFINE server == ServerOf(u)
             expiration == now + Lifespan
  <2>1. expiration \in Nat /\ server \in Servers
    BY <1>2, CookieAssumption, ServerTyped DEF IInv, TypeOK
  <2>2. /\ info'.webId = u
        /\ info'.sessions = [s \in {server} |-> expiration]
        /\ info' = [webId |-> u, sessions |-> info'.sessions]
    BY <1>1, <1>2, <1>6, <2>1, StoredFirst DEF SessionFound
  <2>3. TypeOK'
    <3>1. info'.sessions \in [{server} -> Nat]
      BY <2>1, <2>2
    <3> HIDE DEF server, expiration
    <3>2. \E webId \in WebIds :
            /\ info'.webId = webId
            /\ info'.sessions \in [{ServerOf(webId)} -> Nat]
            /\ info' = [webId |-> webId, sessions |-> info'.sessions]
      BY <1>2, <2>2, <3>1 DEF server
    <3> QED BY <1>0, <1>2, <3>2 DEF IInv, TypeOK
  <2>4. info'.sessions[server] = expiration
    BY <2>2
  <2>5. cookies[server].user = u /\ cookies[server].until >= page.since + Lifespan
    BY <1>6 DEF SessionFound
  <2>6. expiration <= cookies[server].until + Latency
    <3>1. now <= page.since + Latency
      BY <1>0 DEF IInv, Timely
    <3>2. now \in Nat /\ page.since \in Nat /\ cookies[server].until \in Nat
          /\ Lifespan \in Nat /\ Latency \in Nat
      BY <2>1, CookieAssumption DEF IInv, TypeOK, Page
    <3> QED BY <2>5, <3>1, <3>2
  <2>7. Backed'
    BY <1>0, <1>2, <2>2, <2>4, <2>5, <2>6 DEF Backed
  <2> QED BY <1>3, <1>4, <2>3, <2>7 DEF IInv
<1> QED BY <1>5, <1>6

\* A fetch with tokens keeps the invariant: only the user who logged in last
\* can make one while anything is remembered.
LEMMA FetchKeeps ==
  ASSUME IInv, NEW server \in Servers, Fetch(server)
  PROVE  IInv'
<1> USE CookieAssumption
<1>0. page.isLoggedIn /\ page.webId \in WebIds /\ SetCookie(server, page.webId)
      /\ UNCHANGED <<enabled, info, page, now, last>>
  BY DEF Fetch, IInv, Current
<1>1. /\ cookies' \in [Servers -> [user : WebIds \cup {None}, until : Nat]]
      /\ \A s \in Servers : cookies'[s].until <= now' + Lifespan
      /\ cookies'[server] = [user |-> page.webId, until |-> now + Lifespan]
      /\ \A s \in Servers \ {server} : cookies'[s] = cookies[s]
  BY <1>0, CookieSet DEF IInv
<1>2. TypeOK' /\ Exclusive' /\ Current' /\ Timely'
  BY <1>0, <1>1 DEF IInv, TypeOK, Exclusive, Current, Timely
<1>3. Backed'
  <2> SUFFICES ASSUME info # NoInfo PROVE Backed'
    BY <1>0 DEF Backed
  <2> DEFINE own == ServerOf(info.webId)
  <2>1. info.webId = last /\ cookies[own].user = info.webId
        /\ info.sessions[own] <= cookies[own].until + Latency
    BY DEF IInv, Backed
  <2>2. info.webId \in WebIds /\ own \in Servers /\ info.sessions[own] \in Nat
        /\ last # None
    BY <2>1, InfoShape, ServerTyped DEF IInv
  <2>3. page.webId = info.webId
    BY <1>0, <2>1, <2>2 DEF IInv, Current
  <2>4. cookies'[own].user = info.webId /\ cookies'[own].until >= cookies[own].until
    BY <1>1, <2>1, <2>2, <2>3 DEF IInv, Timely, TypeOK
  <2>5. cookies[own].until \in Nat /\ cookies'[own].until \in Nat /\ Latency \in Nat
    BY <1>1, <2>2 DEF IInv, TypeOK
  <2>6. info.sessions[own] <= cookies'[own].until + Latency
    BY <2>1, <2>2, <2>4, <2>5
  <2> QED BY <1>0, <2>1, <2>4, <2>6 DEF Backed
<1> QED BY <1>2, <1>3 DEF IInv

\* Logging out, and calling login, forget what is remembered.
LEMMA LogoutKeeps ==
  ASSUME IInv, Logout \/ Login
  PROVE  IInv'
<1>0. info' = NoInfo /\ last' = None /\ UNCHANGED <<enabled, cookies, now>>
  BY ForgottenIsAll DEF IInv, Logout, Login
<1>1. page' \in Page /\ (page'.step # "none" => page'.code # None)
      /\ page'.step # "session" /\ (page'.isLoggedIn => page'.webId \in WebIds)
  <2>1. CASE Logout
    BY <2>1 DEF Logout, IInv, TypeOK, Page
  <2>2. CASE Login
    <3>1. CASE UNCHANGED page
      BY <2>2, <3>1 DEF Login, IInv, TypeOK, Page, Current
    <3>2. CASE \E code \in WebIds \cup {None} : page' = FreshPage(code)
      BY <3>2, FreshTyped DEF FreshPage
    <3> QED BY <2>2, <3>1, <3>2 DEF Login
  <2> QED BY <2>1, <2>2
<1>2. TypeOK'
  BY <1>0, <1>1 DEF IInv, TypeOK
<1>3. Current' /\ Timely'
  BY <1>0, <1>1 DEF IInv, Current, Timely
<1> QED BY <1>0, <1>2, <1>3, NothingHolds DEF IInv

\* Loading the page again keeps the invariant.
LEMMA ReloadKeeps ==
  ASSUME IInv, Reload
  PROVE  IInv'
<1>1. UNCHANGED <<enabled, info, cookies, now, last>>
  BY DEF Reload
<1>2. PICK code \in {None, page.code} : page' = FreshPage(code)
  BY DEF Reload
<1>3. code \in WebIds \cup {None}
  BY DEF IInv, TypeOK, Page
<1>4. page' \in Page /\ ~page'.isLoggedIn /\ page'.step = "none" /\ page'.code = code
  BY <1>2, <1>3, FreshTyped DEF FreshPage
<1>5. TypeOK'
  BY <1>1, <1>4 DEF IInv, TypeOK
<1>6. Backed' /\ Exclusive' /\ Current' /\ Timely'
  BY <1>1, <1>2, <1>4 DEF IInv, Backed, Exclusive, Current, Timely
<1> QED BY <1>5, <1>6 DEF IInv

\* Time passes.
LEMMA TickKeeps ==
  ASSUME IInv, Tick
  PROVE  IInv'
<1> USE CookieAssumption
<1>1. UNCHANGED <<enabled, info, page, cookies, last>> /\ now' = now + 1 /\ now \in Nat
  BY DEF Tick, IInv, TypeOK
<1>2. TypeOK'
  BY <1>1 DEF IInv, TypeOK
<1>3. Backed' /\ Exclusive' /\ Current'
  BY <1>1 DEF IInv, Backed, Exclusive, Current
<1>4. Timely'
  <2>1. \A s \in Servers : cookies[s].until \in Nat
    BY DEF IInv, TypeOK
  <2>2. page.since \in Nat
    BY DEF IInv, TypeOK, Page
  <2> QED BY <1>1, <2>1, <2>2 DEF IInv, Timely, Tick
<1> QED BY <1>2, <1>3, <1>4 DEF IInv

\* Every step keeps the invariant.
LEMMA StepHolds == IInv /\ [Next]_vars => IInv'
<1> SUFFICES ASSUME IInv, [Next]_vars PROVE IInv'
  OBVIOUS
<1>1. CASE UNCHANGED vars
  BY <1>1 DEF vars, IInv, TypeOK, Backed, Exclusive, Current, Timely
<1>2. CASE Next
  BY <1>2, RedirectKeeps, ExchangeKeeps, AnswerKeeps, FetchKeeps, LogoutKeeps,
     ReloadKeeps, TickKeeps DEF Next
<1> QED BY <1>1, <1>2

\* The inductive invariant holds in every reachable state.
LEMMA Invariance == Spec => []IInv
<1>1. Init => IInv
  BY InitHolds
<1>2. IInv /\ [Next]_vars => IInv'
  BY StepHolds
<1> QED BY <1>1, <1>2, PTL DEF Spec

\* Every step keeps the shape of the state; at most one WebID is remembered,
\* with its own server.
THEOREM TypeCorrect == Spec => []TypeOK
<1>1. IInv => TypeOK
  BY DEF IInv
<1> QED BY <1>1, Invariance, PTL

\* A step that logs in with cookies takes the user from what is remembered.
LEMMA CookieLogin ==
  ASSUME IInv, [Next]_vars, LogsInWithCookies
  PROVE  info # NoInfo /\ page'.webId = info.webId /\ Trusted
<1>0. page \in Page /\ page'.withCookies /\ ~page.withCookies
  BY DEF LogsInWithCookies, IInv, TypeOK
<1>1. PICK useEssSession \in BOOLEAN, restorePreviousSession \in BOOLEAN :
        HandleIncomingRedirect(useEssSession, restorePreviousSession)
  <2>1. ~(TokensObtained \/ WebIdFetched \/ ExchangeFails)
    BY <1>0 DEF TokensObtained, WebIdFetched, ExchangeFails, FinishLogin, Page
  <2>2. ~(SessionFound \/ SessionNotFound)
    BY <1>0 DEF SessionFound, SessionNotFound, FinishLogin, Page
  <2>3. ~(Logout \/ Login \/ Reload)
    <3>1. \A code : ~FreshPage(code).withCookies
      BY DEF FreshPage
    <3>2. ~Logout
      BY <1>0 DEF Logout, Page
    <3>3. ~(Login \/ Reload)
      BY <1>0, <3>1 DEF Login, Reload
    <3> QED BY <3>2, <3>3
  <2>4. ~(Tick \/ UNCHANGED vars) /\ \A server \in Servers : ~Fetch(server)
    BY <1>0 DEF Tick, Fetch, vars
  <2> QED BY <2>1, <2>2, <2>3, <2>4 DEF Next
<1>2. enabled' /\ Trusted
  BY <1>1 DEF HandleIncomingRedirect, LogsInWithCookies, IInv, TypeOK, Page
<1>3. page' = [page EXCEPT !.isLoggedIn = TRUE, !.webId = info.webId, !.withCookies = TRUE]
  BY <1>1, <1>2 DEF HandleIncomingRedirect
<1> QED BY <1>2, <1>3 DEF Trusted, NoInfo, IInv, TypeOK, Page

\* Whenever handleIncomingRedirect logs in with cookies, the user's server has
\* set a cookie for that user which is still valid.
THEOREM CookiesHonoured == Spec => CookieLoginHonoured
<1>1. ASSUME IInv, [Next]_vars, LogsInWithCookies
      PROVE  LET cookie == cookies[ServerOf(page'.webId)] IN
             cookie.user = page'.webId /\ cookie.until > now
  <2> DEFINE server == ServerOf(info.webId)
  <2>1. info # NoInfo /\ page'.webId = info.webId /\ Trusted
    BY <1>1, CookieLogin
  <2>2. cookies[server].user = info.webId
        /\ info.sessions[server] <= cookies[server].until + Latency
    BY <1>1, <2>1 DEF IInv, Backed
  <2>3. info.sessions[server] > now + Margin
    BY <1>1, <2>1, InfoShape DEF IInv, Trusted
  <2>4. server \in Servers /\ info.sessions[server] \in Nat
    BY <1>1, <2>1, InfoShape, ServerTyped DEF IInv
  <2>5. cookies[server].until \in Nat /\ now \in Nat
    BY <1>1, <2>4 DEF IInv, TypeOK
  <2>6. cookies[server].until > now
    BY <2>2, <2>3, <2>4, <2>5, CookieAssumption
  <2> QED BY <2>1, <2>2, <2>6
<1> QED BY <1>1, Invariance, PTL DEF Spec, CookieLoginHonoured

\* Only the user who logged in last, and has not logged out since, is logged
\* in with cookies.
THEOREM CookiesOfLast == Spec => CookieLoginIsLast
<1>1. ASSUME IInv, [Next]_vars, LogsInWithCookies
      PROVE  page'.webId = last
  BY <1>1, CookieLogin DEF IInv, Backed
<1> QED BY <1>1, Invariance, PTL DEF Spec, CookieLoginIsLast
=============================================================================
