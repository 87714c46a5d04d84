# Verification of the Solid client authentication libraries

TLA+ models, TLC runs and TLAPS proofs for `solid-client-authn`: the browser
package (`packages/browser`), the Node.js package (`packages/node`), what they
share (`packages/core`) and the OpenID Connect extensions (`packages/oidc`).
Paths below are relative to `packages/`.

## 1. The system

A *session* is a user logged in to an application through a Solid identity
provider. The libraries run the OpenID Connect authorization code flow with PKCE
and DPoP-bound tokens, keep what the flow needs across page loads or requests in
storage, and give the application a `fetch` that carries the access token.

### Inventory

| Component | State it keeps | Operations | Talks to |
|---|---|---|---|
| Browser `Session` (`browser/src/Session.ts`, `iframe.ts`) | `info` (logged in, expiration date), `tokenRequestInProgress`, `tmpFetchWithCookies`, pending `setTimeout`s, keys of `localStorage` | `login`, `logout`, `fetch`, `handleIncomingRedirect`, renewal in an iframe on `tokenRenewal` | `ClientAuthentication`, `window`, the iframe |
| Browser `ClientAuthentication` | the current `fetch` | `login`, `logout`, `validateCurrentSession`, `handleIncomingRedirect` | the handlers, `SessionInfoManager` |
| Browser login and redirect handlers | none of their own: they read and write storage | PKCE request, code exchange, fallback | identity provider, storage, client registrar |
| Browser `SessionInfoManager`, `BrowserStorage` | the session's data in storage | `get`, `clear` (the others throw) | `StorageUtility` |
| Resource server session (`useEssSession`) | what is remembered of a server's cookie | set up after an exchange, login from it, clear | `StorageUtility`, resource servers |
| Node `Session`, `ClientAuthentication`, `multiSession` | `info`, `tokenRequestInProgress`, the current `fetch` | `login`, `logout`, `fetch`, `handleIncomingRedirect`, `getSessionFromStorage`, `clearSessionFromStorageAll` | the handlers, `IStorage` |
| Node handlers, `TokenRefresher`, `fetchFactory` | the refresh token in each fetch's closure | code exchange, refresh on login, refresh on a refused request, rotation | identity provider, storage |
| Node `SessionInfoManager` | the list of registered sessions | `register`, `clear`, `clearAll`, `get` | `IStorage` |
| Core `StorageUtility` | two storages, a JSON object per user | get, set, delete, for a user or for a key | `IStorage` |
| Client registrars | the registered client, in storage | stored client or dynamic registration | identity provider |
| Issuer configuration | a copy in storage that nothing reads | read a discovery document, keep and rename its keys | identity provider |
| Aggregate handlers, dependency wiring | the list of handlers | pick the first handler that can handle | the handlers |
| Token endpoint client, dynamic registration (`oidc`) | none | check the preconditions, ask, check the response | identity provider |
| Token payload and JWKS | none | verify an ID token, take its WebID | identity provider |
| DPoP proofs and the browser's authenticated fetch | the access token and its key, in a closure | one request, repeated once where it was redirected to | resource servers |

`PROJECT.json` lists all of them with what is modelled of each.

### What is hard

* **Interleavings.** Everything is asynchronous. In a browser tab the flows of
  the main window, the iframe, the timers, the application's calls and the
  navigations that a redirect has only *asked for* interleave at each request to
  the network. On a server the requests that share a session interleave at each
  operation of the storage, and `setForUser` is a read followed by a write.
* **Restarts.** Every redirect and reload destroys the page in the middle of
  whatever it was doing; a server may stop between two operations of the storage.
* **Time.** Tokens expire, timers are armed and never cancelled, `setTimeout`
  overflows, cookies end.
* **One-shot credentials.** A code can be redeemed once, with one verifier, by one
  client; with rotation a refresh token can be used once.
* **Storage read later.** What a login decided (issuer, client, secret, verifier,
  type of tokens) reaches the next page or process field by field through one
  JSON object per session, which other logins write to and which may be damaged.
* **Silent login.** It is a redirect that happens by itself on page load: done
  at the wrong time it loops for ever or undoes a logout.

`PROJECT.json` lists the hazards, each at the line where it bites, with the
properties that are about it or the reason why none is.

## 2. The modules

| Module | Models | Proofs |
|---|---|---|
| `BrowserSession` | one tab with one session: `Session`, `ClientAuthentication`, the handlers, `localStorage`, iframe, timers, navigation, the identity provider as far as it matters | `BrowserSessionProofs`, `BrowserFlowProofs` |
| `CodeGrant` | what a client may do with authorization codes: the abstract specification that `BrowserSession` implements | `BrowserFlowProofs` |
| `CookieSession` | the `useEssSession` workaround in one tab: memory of the cookie, cookies, changes of user | `CookieSessionProofs` |
| `NodeSession` | one session of a server: its record in storage, the `Session` objects built for it, their fetches, rotating refresh tokens | `NodeSessionProofs`, `NodeRotationProofs` |
| `SessionRegistry` | the server's list of sessions and their data, operation of the storage by operation | `SessionRegistryProofs` |
| `SessionSet` | an atomic set of sessions: the abstract specification that `SessionRegistry` implements for one caller | `SessionRegistryProofs` |
| `LoginFlow` | successive logins of one session in either package, with the data: options, configuration, client, handler, stored fields, ID token, fetch | `LoginFlowProofs`, `LoginDataProofs` |
| `UserStorage` | `StorageUtility`: the JSON object of a user, partial updates, damage | used by `LoginFlowProofs`, `LoginDataProofs` |
| `IssuerConfig` | what each package keeps of a discovery document | used by `LoginDataProofs` |
| `ClientRegistration` | the client of a login: given, stored or registered; the negotiation of the algorithm | used by `LoginDataProofs` |
| `HandlerChoice` | `AggregateHandler` and the handlers wired into it | used by `LoginFlowProofs`, `LoginDataProofs` |
| `TokenResponse` | the checks of a token response and of an ID token | used by `LoginDataProofs` |
| `MC...` | the model values and the symmetry of the runs | |

### BrowserSession

State: `storage` (the fields of the session's record that a decision depends on,
`KEY_CURRENT_SESSION`, `KEY_CURRENT_URL`), `session` (the `Session` object and the
fetch of its `ClientAuthentication`), `timers`, `window` (the code in the URL, the
navigation under way, the iframe), `tasks` (the flows and the reply each awaits),
the provider's `codes`, the clock, the emitted `event`, and history variables.

A step is the code that runs between two awaits of the *network*: the default
storages resolve within the microtask queue, so nothing interleaves at their
awaits. `Login`, `HandleCode`, `HandleNoCode`, `Renew`, `Logout` are calls of the
application (or of the library on its behalf) up to the first request;
`TokenValid`, `TokenInvalid`, `IssuerFetched`, `SigninCreated`, `SigninFails`,
`ConfigFetched`, `ClientRegistered`, `TokensObtained`, `RequestFails` are what the
code does when a reply comes; `IframeReturnsCode`, `IframeReturnsError`,
`TimerFires`, `LeavePage`, `NavigationReturns`, `Reload`, `Tick` are the browser and
the provider. A flow that waits for a promise that nobody settles stays at step
`"forever"`.

Abstractions: a request, its state parameter, its verifier, its code and its tokens
are one number; the session has a fixed identifier that the application reuses;
DPoP tokens only; the application uses a static client identifier, or the
one stored; the history variable `sent` is about the page, which a reload starts
anew; a navigation loses the flows of the page, and with them codes that were on
their way.

### NodeSession

State: `data` (the session's record), `sessions` (one per `Session` object),
`closures` (the refresh token that the fetch of each grant holds), `calls` (the
flows in progress: a kind, a step, the record as read), the provider's codes and
tokens, and history variables. `ReadRecord` and `WriteRecord` are the two halves of
`StorageUtility.setForUser`; sets that also move the flow on have their write in
the action that does so (`SendUser`, `StoreRotated`, `FinishLogin`). `GetClient`,
`Choose`, `LoadContext` follow `ClientRegistrar`, `OidcLoginHandler` and
`loadOidcContextFromStorage`; `CodeRedeemed`, `Refreshed`, `AnswerLost` are the
token endpoint; `Fails` is everything else that can throw; `Crash` stops the process.

`Concurrent` says which kinds of calls may overlap: an application may well issue
fetches in parallel, and users come back from the provider at the same time, but
what the library promises when a login overlaps a refresh of the same session is
nothing (see the hazards): it writes back a record it read earlier.

Abstractions: consecutive sets that touch only fields no decision depends on are
one; the storage does not fail; `getSessionFromStorage` is not called for an object in
use. The write of a rotated token and the call of `onNewRefreshToken` that follows it
are two steps (`StoreRotated`, `TellRotated`), since the process may stop between them:
the token it leaves in storage is then in the history variable `untold`. `TokenRefresher`
tells of it in a login, the fetch in a fetch, which gives `TokenRefresher` no callback.

### CookieSession

One variable for each of the two `localStorage` keys, the page with the exchange
it runs, the cookies of the browser and the clock. Assumed of a resource
server: the cookie it sets lasts `Lifespan` (`DEFAULT_LIFESPAN`), the fetch of the
WebID renews it (the comment at `AuthCodeRedirectHandler.ts:66` relies on it),
and `/session` answers within `Margin`, which is five minutes.

### SessionRegistry

`register`, `clear`, `clearAll` of the node `SessionInfoManager`, a step for each
operation of the storage, with crashes in between. `clearAll` starts the clears of
all sessions in parallel, each of which reads the list and writes it back.

`SessionSet` says what callers rely on: a login adds a session and loses no other, a
logout removes one, `clearAll` empties the set. It takes time, from its read of the list
(`StartEmptying`) to its last write (`Empty`), and only a crash in that time may leave
part of the set; a crash at any other moment changes nothing. Until that last write the
abstract set is the list that `clearAll` read (`Known`), and `emptying` is that it has read one.

### LoginFlow

`BrowserSession` and `NodeSession` interleave flows and abstract the data;
`LoginFlow` runs one flow at a time and keeps the data. `platform` says which
package it is: the logic that differs (`FetchConfig`, `StoredClient`,
`MayRegister`, `OidcHandler`, `HasLoginContext`, `Usable`...) takes it as a
parameter or tests it, so that what the packages share is written once.

State: `record`, the user's object in the storage that survives the page or the
process; `memory`, the browser's secure storage, which is in memory; `states`, the
state parameters that lead to the session; `session`, with the type and refresh
token of its fetch; `flow`, the call in progress with the step whose reply it
awaits; the provider's `requests`, `clients` and `tokens`; and history variables.

`Login`, `Logout`, `Restore` and `FetchRefused` are the calls of the application (the
last is a fetch whose access token is refused). `ConfigFetched`, `ClientRegistered`,
`CurrentSessionValidated`, `RefreshContextLoaded`, `RedirectConfigFetched`,
`TokensObtained`, `KeysFetched`, `ProfileFetched` and `RequestFails` are the replies
(`SavingStops` is a `KeysFetched` whose process stops between the writes it makes);
`RefreshAccess`, `RequestAuthorization` and `NoSuitableHandler` the handlers a login
may be given to; `ReturnWithCode`, `ReturnWithout` and `Corrupt` what the user, the
page or process and the storage may do. `GetClient`, `SetForUser`, `FetchConfig` and
the other operators come from the pure modules, whose definitions are translated
from one function each.

*The name of an issuer.* The application asks for a URL; `OidcLoginHandler` goes on with
the `issuer` of the document it finds there (`NamedIssuer`, `Onward`), in the request, in
storage and when it verifies the ID token (`IssuerToCheck`). Nothing compares it
with the URL. Assumed of the documents: the one at a URL names the provider that answers
there (`IssuerOf`), and at that name there is a document of the same provider; what is asked may
well be another URL of it, as the comment at `browser/src/login/oidc/OidcLoginHandler.ts:101`
has in mind. In the browser a document may lack `issuer`: a login then stops, and an
exchange with DPoP tokens verifies the ID token without looking at its issuer. In the
node package it is there, since `openid-client` accepts no document without it. A document
that names another provider than the one that answers there is outside the model.

Abstractions: a discovery document is the set of its keys, with values for `issuer` and the
two lists a decision depends on; a registration or token response says for each
field whether it is there and well-formed; an ID token is its issuer, audience, key
and the claim its WebID comes from. The provider accepts a grant only from the client it
was made to, with its secret. The application passes no refresh token of its own
(`NodeSession` has that). A refusal by the resource is one step, whether or not the
request was redirected. The identifier and the secret of the application's own client, which
`handleRegistration` writes one after the other, are one write: a login stopped in between
leaves neither an issuer nor a request, and the next login writes both again.

## 3. What TLC checks

| Run | Instance | Shows |
|---|---|---|
| `registry_serial` | 3 sessions, one caller, crashes | `DataReachable`, `ClearAllClears`, `IsAtomic`: data never gets out of reach of the list, and the registry is an atomic set, from which a crash takes something only while a `clearAll` empties it |
| `registry_overlap` | 2 callers | finding: `DataReachable` fails |
| `browser_main` | 2 flows, 4 requests, clock to 3, no renewal | expiry timers, fetch, bounces, final logout, codes sent once, silent login, refinement of `CodeGrant` |
| `browser_renewal` | 2 flows, 3 requests, renewal, `setTimeout` overflow, fairness of the clock | the same safety properties where renewal interferes, `OwnVerifier`, `ExpiredSessionEnds` |
| `browser_stale_timer`, `browser_stale_url`, `browser_hang`, `browser_lost_fetch` | as above | findings |
| `node_main` | 2 objects, 3 calls, 2 requests, 3 grants, rotation, lost answers, crashes | `StoredTokenLive`, `FetchCanRefresh`, `ToldOnce`, `RemovedOnLogout`, `RedirectsOneAtATime` |
| `node_logout` | 1 object, a logout overlaps a fetch | finding: `RemovedOnLogout` fails |
| `cookie_main` | 2 users on each of 2 servers, clock to 5 | `CookieLoginHonoured`, `CookieLoginIsLast` |
| `login_main` | both packages, 2 issuers of which one knows Client WebIDs and has a second URL, 6 documents, 4 kinds of login, 2 requests, 1 registration, 2 refresh tokens | `GrantsToTheirClient`, `SessionAvailable`, `RegistersToLogIn`, `LoginAsAsked`, `TokenTypeAsAsked`, `ClientAsAsked`, `NoNeedlessRedirect` |

Each module has one type invariant, `TypeOK`. The properties are stated with
comments at the end of each module.

### Bounds

The bounds cap counters that the code leaves unbounded, in guards, and are
constants. *Requests*: a wrong verifier needs two requests of one session, a
bounce three, an abandoned silent login followed by an interactive one and a
reload four. *Flows*: interference is between two flows; a third adds no kind
of step. *Clock*: long enough for a token to expire and for a renewed one to
outlive it. *Grants*: a code, a rotation, and a second rotation by another fetch;
`node_main` was also run with four grants and two calls, without a violation.
*Calls*: two fetches that race and a third that starts afterwards. *Cookies*: a
clock to 5 with a lifespan of 3 lets a cookie end and be renewed. *Logins* of
`login_main`: the second request meets what the first one left; one
registration (it was also run with two, for two kinds of login and three documents,
without a violation); the second refresh token is the rotated one; each document but the first
lacks what one decision looks at, one of them the name of its issuer; one login asks for an
issuer by another URL. A login with other options than the last
one, without a logout, is explored once (`~mixed` in `Login`), and in the run only with the
options for the second issuer (`OtherOptions`; it was also run with all four options, without
a violation; the theorems are for any set): `GrantsToTheirClient`,
`SessionAvailable`, `TokenTypeAsAsked` and `ClientAsAsked` leave it out, since the node
package then uses the stored client and token of the earlier login (a hazard
of the list); `LoginAsAsked` still says that the WebID is of the client of the grant, and
of its issuer where the code checks that, and `RegistersToLogIn` and `NoNeedlessRedirect` hold there too. Symmetry is used
for flows, calls, objects, names and servers, in runs without liveness.

The deadlock check is off: the bounds on requests and time stop the model, and an
application may stop using the library at any time.

What `login_main` shows: whatever steps fail, whichever page or process goes on and
whatever earlier logins left in storage, the code and the refresh tokens go to
the issuer and with the client and secret they were granted for, also those of a
fetch that was built before a later login; a session that logged in can
be restored until its next login, logout or damage; and the request for the user
names the issuer, as it calls itself, and the client that the application asked for, including
the silent login of the browser. A document without `issuer` does not lead to another
provider's login, for the code still goes where it was granted, but the ID token is then taken
whoever it says it is from: `LoginAsAsked` does not claim more. The run also settled two
details that are easily missed. A session that asked for Bearer tokens is restored with DPoP tokens, and a
restore may change the type of tokens of a login that waits for the user
(`TokenTypeAsAsked` says "the last login or restore"). And in the node package an
older request's code is exchanged with the record of the latest one, so the
properties are about the latest request.

### Fairness

`FairSpec` (used for `ExpiredSessionEnds`) assumes that the clock advances and that a
timer that is due fires. Both are the browser's doing: `setTimeout` callbacks run
once the page is idle. Nothing is assumed of the application, the user, the
network or the provider: a flow may stay without a reply for ever.

### Findings

| Run | What the code does | What it says |
|---|---|---|
| `browser_stale_timer` | never cancels the timer of tokens that were renewed: the renewed session is logged out early | "make sure to apply the new expiration time" (`Session.ts:208`) |
| `browser_stale_url` | takes a URL left by a silent login that failed for the sign that a later login is silent | `sessionRestore` is for "a user's already logged-in session" (`Session.ts:445`) |
| `browser_hang` | swallows the failure of a signin request and returns a promise that never settles | "the main window will imminently be redirected" (`Session.ts:406`) |
| `browser_lost_fetch` | a refused renewal replaces the fetch of a valid session by the plain one | "do nothing; the existing session might still be valid" (`Session.ts:202`) |
| `registry_overlap` | two registrations that overlap lose one | "available in storage as soon as it logged in once" (`multiSession.ts:36`) |
| `node_logout` | a fetch that stores a rotated token writes back the record that a logout deleted | "removed from storage on logout" (`multiSession.ts:36`) |

Also met while modelling, without a text to hold against them (listed as
hazards): an exchange that throws leaves `tokenRequestInProgress` set in the browser
(the node package resets it in a `finally`); a logout during an exchange is
undone by its end; a stored refresh token that died blocks every further login
of the node package until a logout; after a refresh, a fetch with DPoP repeats a
redirected request at its first URL; a second login clears the client that the first one's code was
issued to; with renewal, `BouncesOnce` fails with four requests, when the iframe's
exchange ends between the clearing of the session and the silent redirect; two
logins or restores of a session on a server can put a spent refresh token back
into storage, since `RefreshTokenOidcHandler` saves the token a second time.

## 4. What is proved

TLAPS checks these for every value of the constants: any number of flows, users,
servers, issuers, clients and documents, any lifetimes, any bound.

| Theorem | States | Provided that |
|---|---|---|
| `BrowserSessionProofs!TypeCorrect` | `Spec => []TypeOK` | |
| `BrowserSessionProofs!AlwaysArmed` | `ExpiryTimerArmed` | |
| `BrowserSessionProofs!NoFetchAfterLogout` | `FetchNeedsLogin` | |
| `BrowserSessionProofs!LogoutFinal` | `LogoutIsFinal` | |
| `BrowserSessionProofs!NoCodeSentTwice` | `CodeSentOnce` | |
| `BrowserFlowProofs!VerifierOfRequest` | `OwnVerifier` | |
| `BrowserFlowProofs!ImplementsCodeGrant` | `FollowsGrants`: `Spec => Grants!Spec` | |
| `BrowserFlowProofs!RestoresWhereLeft` | `SilentLoginRestores` | |
| `BrowserFlowProofs!NeverBounces` | `BouncesOnce` | `~UsesRenewal` |
| `BrowserFlowProofs!KeepsFetch` | `LoginGivesFetch` | `~UsesRenewal` |
| `BrowserFlowProofs!LogsOutInTime` | `NoPrematureLogout` | `~UsesRenewal`, `DelaysFit` |
| `CookieSessionProofs!TypeCorrect` | `Spec => []TypeOK` | |
| `CookieSessionProofs!CookiesHonoured` | `CookieLoginHonoured` | |
| `CookieSessionProofs!CookiesOfLast` | `CookieLoginIsLast` | |
| `SessionRegistryProofs!TypeCorrect` | `Spec => []TypeOK` | |
| `SessionRegistryProofs!DataStayReachable` | `DataReachable` | `OneCaller` |
| `SessionRegistryProofs!ClearAllDoesClear` | `ClearAllClears` | `OneCaller` |
| `SessionRegistryProofs!RegistryIsAtomic` | `IsAtomic`: `Spec => Atomic!Spec` | `OneCaller` |
| `NodeSessionProofs!TypeCorrect` | `Spec => []TypeOK` | |
| `NodeSessionProofs!RedirectsTakeTurns` | `RedirectsOneAtATime` | |
| `NodeSessionProofs!ToldOfEachToken` | `ToldOnce` | |
| `NodeRotationProofs!RotationKeepsSession` | `StoredTokenLive` | `Apart` |
| `NodeRotationProofs!RotationKeepsFetch` | `FetchCanRefresh` | `Apart` |
| `NodeRotationProofs!LogoutRemovesForGood` | `RemovedOnLogout` | `Apart` |
| `LoginFlowProofs!RegistersToLogInHolds` | `RegistersToLogIn` | |
| `LoginFlowProofs!NoNeedlessRedirectHolds` | `NoNeedlessRedirect` | |
| `LoginDataProofs!LoginTypeCorrect` | `Spec => []TypeOK` | |
| `LoginDataProofs!LoginAsAskedHolds` | `LoginAsAsked` | |
| `LoginDataProofs!TokenTypeAsAskedHolds` | `TokenTypeAsAsked` | |
| `LoginDataProofs!ClientAsAskedHolds` | `ClientAsAsked` | |
| `LoginDataProofs!GrantsToTheirClientHolds` | `GrantsToTheirClient` | |
| `LoginDataProofs!SessionAvailableHolds` | `SessionAvailable` | |

The assumptions on the constants (`BrowserAssumption`, `CookieAssumption`,
`LoginAssumption`, and those of `NodeSession` and `SessionRegistry`) are few: the sets of
clients are disjoint and without `Undefined`, the bounds are natural numbers, lifetimes
are natural numbers or `Never`, which is none, `None` is no WebID, and `Latency` is at
most `Margin`. `LoginAssumption` also says that every issuer has a document at the URL which is
its name (`IssuerOf`), that no document of `Documents` has
`solid_oidc_supported`, which `DocumentsOf` adds for the issuers in `SolidIssuers`, and
`UndefinedAssumption` that `Undefined` is no value that a field of the record can have.

The provisos of the last column are what the code asks of its caller, and where they
fail a run or a hazard shows that the property does:

* `OneCaller`: the calls that change the list of sessions are awaited one by one. A
  crash may still stop one and another follow. `registry_overlap` is the finding for two
  callers.
* `Apart` (`Concurrent` is at most `{{"fetch"}, {"redirect"}}`, its value in `node_main`):
  fetches overlap with fetches and redirects with redirects, any number of them, on
  any number of objects; logins, logouts and restores of the session do not overlap with
  anything. `node_logout` is the finding for a logout during a fetch.
* `~UsesRenewal`: the application does not emit `tokenRenewal`. With it,
  `browser_lost_fetch` and `browser_stale_timer` are the findings about the fetch and the
  timers, and `BouncesOnce` fails with four requests (end of section 3).
* `DelaysFit`: no lifetime exceeds the delay of about 24 days that `setTimeout` can
  wait for. A longer one fires at once.

*Timers and fetch* (`LoginInv`). With `TypeOK`, `ExpiryTimerArmed` and
`FetchNeedsLogin` are inductive as they stand: only the step that gets tokens logs a
page in and gives it a fetch, and it arms a timer for them; a timer that fires, or a
logout, takes the login and the fetch with it.

*Logout* (`FinalInv`). `LogoutIsFinal` speaks of the login and the ID token; to be
inductive it must also say that nothing is left that could be turned into a login:
once revoked, and until another call of login, no OAuth state in storage leads a
code to the session, and no flow, navigation or iframe is under way (`Quiet`).

*Codes* (`CodeInv`). That a flow never sends a code a second time needs facts about
all flows together: codes are numbered by the requests made (`Numbered`), no two
flows hold the same code and a code about to be sent has not been (`OneFlowPerCode`),
the code in the page's URL is fresh for as long as handleIncomingRedirect may take
it, and the iframe's is fresh and another one (`FreshToCome`), and a silent login
starts only where the URL has no code (`SilentWithoutCode`).

*Verifiers* (`LatestFlow`). Storage holds one verifier, that of the request that wrote
last. The invariant says that no state in storage belongs to a later request, and that
a flow with a code still finds the verifier of its own request or a later one
(`FlowOf`); numbers of requests (`Numbered`) carry it over the steps that clear storage or
make another request.

*CodeGrant* (`TwoWays`). The refinement maps what is open to the navigation and the
iframe, what is granted to the provider's codes and the credential to the fetch. A code
comes back by the way its request went only once because the two ways are never for
the same request; the rest is one case per action, and a reload or a navigation that
loses codes is a step of `Answer` that loses them.

*Silent logins* (`OneRedirect`, `Silently`). That the URL is still in storage when the
login completes takes three facts about the time in between: silent requests of the main
window never come back through the iframe (`NotInIframe`), a page that is about to be
left for one has no other redirect that could complete and use up the URL
(`LeavesOnly`, for which handleIncomingRedirect must run once at a time), and as long as
such a request is on its way, in the URL or being exchanged, the URL is there (`UrlKept`).

*The main window alone* (`MainWindow`, `TimersOfLogin`). Without an iframe a silent
request leaves no ID token in storage, and only an exchange that succeeds puts one back:
so the next silent login finds none (`InMainWindow`). A page with a timer has no code
to exchange and runs no exchange, so that its timers all belong to the tokens it has.

*Registry* (`IInv` of `SessionRegistryProofs`). What a call is about to write is the list
as it is, with or without its session (`LoginRegisters`, `LogoutRemoves`), since nobody
else writes; the clears of a `clearAll` do overwrite each other, but with parts of the
list it read, which covers all data not yet cleared (`ClearAllCovers`).

*Tokens of a server* (`Shapes`, `Telling`). The shape of a call depends on its kind and
step: which copy of the record, client, token and grant it holds. `Telling` says that
every refresh token is accounted for, wherever it is kept (the record, copies of it,
calls): it has been told once, or a call that has just stored it is about to tell, or it
is in `untold`; and what fetches hold has been told. A token the provider has just
rotated to is known to a single call (`OwnTokens`), which nobody else can tell of, and
has not been told before that call stores it (`TokensOfCall`). It holds whichever calls
overlap, and wherever the process stops.

*Rotation and logout* (`Alone`, `Clients`, `LiveTokens`, `Holding`, `Gone`). Under `Apart`
all calls in progress are of one kind (`Alone`). Then a fetch that refreshes finds the
client that its context was read with, and no call writes back a record without one
(`Clients`); the token in storage, and in any record read and not yet written back, is
live unless a call is about to replace it (`LiveTokens`), which needs that a rotated
token is stored by the call that got it before that call writes anything else; the
fetch of the object that got tokens last holds a live one (`Holding`); and once
logged out, no login or restore is in progress, and the other calls write only where they
find a record (`Gone`).

*Cookies* (`IInv` of `CookieSessionProofs`). `CookieLoginHonoured` is about the moment
of a login; what makes it true is that whatever is remembered belongs to the user
who logged in last (`Backed`), that nothing is remembered while a code waits
(`Exclusive`), and that a page that is still logged in, and can thus replace the
cookie, is so as that very user (`Current`).

*Clients* (`IInv` of `LoginFlowProofs`). `RegistersToLogIn` is about a step that is
only taken when no client is found in storage; the invariant says why one is
found wherever a login is completed or refreshed. Whoever finds an issuer in the
record finds a client (`ClientWithIssuer`): a handler writes the issuer only after
`OidcLoginHandler` wrote a client, a partial update keeps it (`KeepsClient`, from
what `SetForUser` does for any data), and only the deletion of the whole record or
damage to it takes it away, with the issuer. `ClientIsStored` carries that to the steps that
are about to read the client, `FlowHasClient` says that the flow has
one from the choice of a handler on, which is also what makes the handler of refresh
tokens, the first in the list (`RefreshIsFirst`), able to handle a login: hence
`NoNeedlessRedirect`. `StartsAsLogin` is what remains of the kinds of flow.

*Data of a login* (`Types` and `DataFits` of `LoginDataProofs`). The properties compare
what a flow holds, what is stored and what was asked for, at steps that may lie in
different pages or processes; a flow that fails may leave any prefix of its writes. The
invariant therefore says, for every step, which of the three agree. `Types` gives each
field its type and each step the fields of the flow that have a value, which rests on
what `SetForUser` reads back after a write (`Writes`, `WritesOfClient`). `Owned` ties the
issuer of flow and storage to the one asked for, which is known by its URL until `Onward` puts
its name there, and the ID token to the grant that was exchanged (`OnwardGoesOn`, `GivesChecked`). `RecordFits` says what is true of the record between flows: its client is
one that suits the options, with its own secret and algorithm (`ClientFits`); its
verifier, issuer and client are those of the latest request (`RequestFits`); its refresh
token was granted to that issuer and client (`RefreshTokenFits`); the last login that
completed is still described by it (`LastFits`). `FlowFits` says what a flow in
progress has taken from it, and that nobody has changed it meanwhile (`FlowClientFits`,
`FlowContextFits`, `FlowGrantFits`). A login that completes, or whose process stops while it
is being stored, has written some of its fields (`Saves`), all from one grant. After a login with other options but no logout in
between (`mixed`), the node package keeps fields of both, and only the parts that hold
then are claimed. Each action has a lemma on what it does to the fields (`...Does`) and one
that the invariant survives it (`...Fits`); the parts were checked with TLC, as
invariants on the constants of `login_main`, before they were proved. The six theorems read their property off the
invariant: `LoginCompletes` and the two steps that can end a login give
`LoginAsAsked` and `TokenTypeAsAsked`, the one step that makes a request gives
`ClientAsAsked`, and `SessionAvailable` and `GrantsToTheirClient` hold in every state.

Only model-checked: liveness (`ExpiredSessionEnds`), which under fairness is out of the
prover's reach.

## 5. What is not modelled

* Several tabs of one application, which share `localStorage`: the code itself says
  of the cookie workaround that many edge cases will not work (`Session.ts:302`), and
  for them the two cookie properties do not hold.
* Cryptography: DPoP proofs and their keys, signatures, PKCE challenges. A token is
  signed by the right key or not, a verifier is that of a request or not.
* The replay of a redirected request by a fetch with DPoP, and the defect at
  `node/src/authenticatedFetch/fetchFactory.ts:202` that follows from it (listed as a
  hazard): requests to resources have no URL in the models.
* What `openid-client` checks for the node package, the algorithm of ID tokens in
  particular: a request may fail for any reason.
* HTTP headers, URL and JSON syntax: the failures they cause are steps that fail.
* Custom storages in the browser package, which may answer late.
* Handlers and functions that always throw (`WebIdLoginHandler`, `TokenRequester`,
  `getAllSessionInfo`), the construction of objects in `dependencies.ts`, error classes,
  examples and tests. The default session only delegates to a `Session`.

## 6. Plan

1. *Done*: `BrowserSession` with `CodeGrant`, `SessionRegistry` with `SessionSet`,
   `NodeSession`, `CookieSession`, and their proofs as listed; `UserStorage`, `IssuerConfig`,
   `ClientRegistration`, `HandlerChoice`, `TokenResponse` and `LoginFlow`, which composes
   them, with `LoginFlowProofs`.
2. *Done*: `NodeSessionProofs`, `NodeRotationProofs`, `SessionRegistryProofs` and
   `BrowserFlowProofs`, with the refinements of `CodeGrant` and `SessionSet`.
3. *Done*: `LoginDataProofs`, on the data of `LoginFlow`: every invariant and action
   property of the passing runs is now a theorem.
4. To see how far the provisos of section 4 can be weakened: `Apart`, for logins and
   restores that overlap with fetches of the session, and what `BouncesOnce` becomes for
   an application that renews its tokens (a bound on the silent logins in a row).
