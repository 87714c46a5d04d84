------------------------------ MODULE LoginFlow ------------------------------
(***************************************************************************)
(* The logins of one session identifier, one after the other, from the     *)
(* options of the application to the tokens of the identity provider: the  *)
(* client they use, the handler that is chosen, what each step writes to   *)
(* storage and what a later step, login, page or process reads there.      *)
(* platform says whether the session is of the browser package (a tab with *)
(* the default storages) or of the node package (an application that keeps *)
(* the storage).                                                           *)
(*                                                                         *)
(* One flow is in progress at a time; BrowserSession and NodeSession have  *)
(* flows that overlap, with the data abstracted.  A step ends at a reply   *)
(* of the network, or where the page may be left or the process may stop   *)
(* with the storage changed.                                               *)
(*                                                                         *)
(* An issuer is known by the name that its discovery document gives it.    *)
(* The application may ask for it by any URL where that document is found. *)
(* The application gives no refresh token of its own (NodeSession has it). *)
(***************************************************************************)
EXTENDS ClientRegistration, TokenResponse, HandlerChoice

CONSTANTS
  Platforms,      \* "browser", "node"
  Issuers,        \* identity providers, as their documents name them
  IssuerUrls,     \* URLs that have a discovery document
  IssuerOf,       \* IssuerOf[url]: the provider that the document there is of
  SolidIssuers,   \* those that dereference Client WebIDs
  Documents,      \* discovery documents, but for the values of issuer and
                  \* solid_oidc_supported
  Options,        \* what the application asks for: issuer, clientId, dpop; it
                  \* knows the secret of its own client
  OwnClient,      \* a client identifier registered with every issuer
  OtherOptions,   \* bound: options a login may have when others were used
                  \* before, without a logout
  MaxRequests,    \* bound: authorization requests
  MaxClients,     \* bound: clients registered dynamically
  MaxTokens       \* bound: refresh tokens

Requests == 1..MaxRequests
DynamicClients == 1..MaxClients
RefreshTokens == 1..MaxTokens
ClientIds == {OwnClient} \cup UrlClients \cup DynamicClients
None == 0   \* no request, no refresh token

LoginOptions == [issuer : IssuerUrls, dpop : BOOLEAN,
                 clientId : {Undefined, OwnClient} \cup UrlClients]

ASSUME LoginAssumption ==
  /\ Platforms \subseteq {"browser", "node"}
  /\ IssuerOf \in [IssuerUrls -> Issuers]
  /\ \A issuer \in Issuers : issuer \in IssuerUrls /\ IssuerOf[issuer] = issuer
  /\ SolidIssuers \subseteq Issuers
  /\ Options \subseteq LoginOptions
  /\ OwnClient \notin UrlClients \cup DynamicClients
  /\ UrlClients \cap DynamicClients = {}
  /\ Undefined \notin IssuerUrls \cup ClientIds
  /\ FirstKey \in Keys
  /\ \A document \in Documents : "solid_oidc_supported" \notin DOMAIN document
  /\ MaxRequests \in Nat /\ MaxClients \in Nat /\ MaxTokens \in Nat

VARIABLES
  platform,   \* the package, constant
  record,     \* the user's data that survives a page or a process
  memory,     \* browser: the user's data in the secure storage of the page
  states,     \* requests whose state parameter leads to the session
  session,    \* the Session object, with the kind of fetch it has and the
              \* refresh token in its closure
  flow,       \* the call in progress
  requests,   \* requests[r]: who the authorization request r is made to
  open,       \* requests the user may still come back from
  clients,    \* clients[c]: the dynamic client c
  tokens,     \* tokens[k]: the refresh token k
  live,       \* refresh tokens the provider accepts
  asked,      \* history: options of the last login since a logout, the
              \* library's own to restore a session included
  mixed,      \* history: node: other options were used without a logout
  last        \* history: grant of the last login that completed, if the
              \* session has been left alone since

provider == <<requests, open, clients, tokens, live>>
history == <<asked, mixed, last>>
vars == <<platform, record, memory, states, session, flow, provider, history>>

Stored(field) == GetForUser(record, field)

NewSession == [isLoggedIn |-> FALSE, dpop |-> FALSE, webId |-> Undefined,
               token |-> None]

NoFlow == [kind |-> "none", step |-> "none", issuer |-> Undefined,
           clientId |-> Undefined, clientSecret |-> Undefined, dpop |-> FALSE,
           config |-> Undefined, client |-> NoClient, code |-> None,
           token |-> None, idToken |-> Undefined]

Init ==
  /\ platform \in Platforms
  /\ record = NoData
  /\ memory = NoData
  /\ states = {}
  /\ session = NewSession
  /\ flow = NoFlow
  /\ requests = <<>>
  /\ open = {}
  /\ clients = <<>>
  /\ tokens = <<>>
  /\ live = {}
  /\ asked = Undefined
  /\ mixed = FALSE
  /\ last = Undefined

Awaits(step) == flow.step = step
Goto(step) == flow' = [flow EXCEPT !.step = step]
Throw == flow' = NoFlow   \* or return: the call is over

-----------------------------------------------------------------------------
(* Identity providers.                                                     *)

\* The documents that may be found at url.  A provider that is used from a
\* server always names itself there (IssuerMetadata of openid-client).
DocumentsOf(url) ==
  LET issuer == IssuerOf[url]
      solid == IF issuer \in SolidIssuers THEN [solid_oidc_supported |-> TRUE]
                                          ELSE NoData
      Of(d) == Merged([key \in DOMAIN d |->
                         IF key = "issuer" THEN issuer ELSE d[key]], solid)
  IN {Of(d) : d \in {d \in Documents : platform = "node" =>
                                         "issuer" \in DOMAIN d}}

SecretOf(clientId) ==
  CASE clientId = OwnClient -> OwnClient
    [] clientId \in UrlClients -> Undefined
    [] OTHER -> IF clients[clientId].secret THEN clientId ELSE Undefined

\* The token endpoint of issuer accepts a grant from the client it was made
\* to, with the client's secret.
Accepts(issuer, client, grant) ==
  /\ grant = [issuer |-> issuer, clientId |-> client.clientId]
  /\ client.clientSecret = SecretOf(client.clientId)

Accepted ==
  \/ /\ Awaits("token")
     /\ Accepts(flow.issuer, flow.client, requests[flow.code])
     /\ Stored("codeVerifier") = flow.code
  \/ /\ Awaits("refresh")
     /\ Accepts(flow.issuer, flow.client, tokens[flow.token])
     /\ flow.token \in live

\* The ID token of a response: what it should be, or with one thing wrong.
IdTokens ==
  LET right == IdToken(flow.issuer, flow.client.clientId) IN
  {right} \cup {[right EXCEPT !.iss = i] : i \in Issuers}
    \cup {[right EXCEPT !.aud = c] : c \in {OwnClient} \cup UrlClients}
    \cup {[right EXCEPT !.key = k] : k \in Keys}
    \cup {[right EXCEPT !.claim = "none"]}

-----------------------------------------------------------------------------
(* Calls of the application.                                               *)

\* loadOidcContextFromStorage: the issuer of a login and, in the node package,
\* the type of its tokens.
HasLoginContext ==
  /\ Readable(record)
  /\ Stored("issuer") # Undefined
  /\ platform = "node" => Stored("dpop") # Undefined

\* ClientAuthentication.login of the browser starts from empty storage, that
\* of the node package from what is there.
StartLogin(f) ==
  /\ flow' = f
  /\ IF platform = "browser"
       THEN record' = NoData /\ memory' = NoData /\ states' = {}
       ELSE UNCHANGED <<record, memory, states>>

Login(options) ==
  /\ flow = NoFlow
  /\ ~mixed   \* bound: one login with other options, then a logout
  /\ StartLogin([NoFlow EXCEPT
       !.kind = "login", !.step = "config", !.issuer = options.issuer,
       !.clientId = options.clientId, !.dpop = options.dpop,
       !.clientSecret = IF options.clientId = OwnClient THEN OwnClient
                                                        ELSE Undefined])
  /\ asked' = options
  /\ mixed' = (record' # NoData /\ (mixed \/ options # asked))
  /\ mixed' => options \in OtherOptions
  /\ last' = Undefined
  /\ UNCHANGED <<platform, session, provider>>

Logout ==
  /\ flow = NoFlow
  /\ record' = NoData
  /\ memory' = NoData
  /\ states' = IF platform = "browser" THEN {} ELSE states
  /\ session' = NewSession
  /\ asked' = Undefined
  /\ mixed' = FALSE
  /\ last' = Undefined
  /\ UNCHANGED <<platform, flow, provider>>

\* Session.fetch of the node package, when the access token is refused and the
\* fetch has a refresh token: TokenRefresher loads its context from storage,
\* which may be that of a later login.  If it cannot, the caller of fetch gets
\* the refusal.
FetchRefused ==
  /\ flow = NoFlow
  /\ session.token # None
  /\ HasLoginContext
  /\ flow' = [NoFlow EXCEPT
       !.kind = "fetch", !.step = "context", !.issuer = Stored("issuer"),
       !.dpop = session.dpop, !.token = session.token]
  /\ UNCHANGED <<platform, record, memory, states, session, provider, history>>

\* SessionInfoManager.get, then what each package asks of it: the browser,
\* in validateCurrentSession, for all it takes to check the ID token; the
\* node package, in getSessionFromStorage, for an issuer and a refresh token.
Restorable ==
  /\ Readable(record)
  /\ Stored("issuer") # Undefined
  /\ IF platform = "browser"
       THEN Stored("idToken") # Undefined /\ Stored("clientId") # Undefined
       ELSE Stored("refreshToken") # Undefined

\* A session is restored, on a new page or in a new process.  The type of its
\* tokens is not stored: it is DPoP.
RestoredFlow ==
  [NoFlow EXCEPT !.kind = "restore", !.issuer = Stored("issuer"), !.dpop = TRUE]

Restore ==
  /\ flow = NoFlow
  /\ session = NewSession
  /\ Restorable
  /\ IF platform = "browser"
       THEN flow' = [RestoredFlow EXCEPT
              !.step = "validate",
              !.clientId = Stored("clientId"),
              !.clientSecret = Stored("clientSecret"),
              !.idToken = Stored("idToken")]
       ELSE flow' = [RestoredFlow EXCEPT !.step = "config"]
  /\ UNCHANGED <<platform, record, memory, states, session, provider, history>>

\* Browser: the keys of the issuer arrive; silentlyAuthenticate logs in again
\* as the same client, or does nothing.  current: whether the first of the
\* keys is still the one that signed the ID token.
CurrentSessionValidated(current) ==
  /\ Awaits("validate")
  /\ \E document \in DocumentsOf(flow.issuer) :
       LET issuer == NamedIssuer(FetchConfig(platform, document)) IN
       IF current /\ Verified(flow.idToken, issuer, flow.clientId)
         THEN /\ StartLogin([flow EXCEPT !.step = "config",
                                         !.idToken = Undefined])
              /\ asked' = [asked EXCEPT !.dpop = TRUE]
              /\ last' = Undefined
         ELSE Throw /\ UNCHANGED <<record, memory, states, asked, last>>
  /\ UNCHANGED <<platform, session, provider, mixed>>

-----------------------------------------------------------------------------
(* OidcLoginHandler.handle.                                                *)

\* What is done once the client is known: a code is exchanged, a refresh token
\* is, or the login is handed to a handler (only then is there an issuer to be
\* replaced by the one of the configuration).
NextStep ==
  CASE flow.kind = "redirect" -> "token"
    [] flow.kind # "redirect" /\ flow.token # None -> "refresh"
    [] OTHER -> "handle"

\* What of the configuration is looked at from then on: the choice of a handler
\* depends on the grant types, the check of an ID token on the issuer.
Needed(config) ==
  LET keys == {IF NextStep = "handle" THEN "grant_types_supported"
                                      ELSE "issuer"}
  IN [key \in DOMAIN config \cap keys |-> config[key]]

\* Mutant: the options keep the URL that the application gave.
OnwardWithUrl(config, client) ==
  flow' = [flow EXCEPT !.step = NextStep, !.client = client,
                       !.config = Needed(config)]

\* The flow goes on with client.  The issuer of a login is from then on the one
\* that the configuration names; in the browser, there may be none to make a
\* request to.
Onward(config, client) ==
  LET issuer == IF NextStep = "handle" THEN NamedIssuer(config) ELSE flow.issuer
  IN IF issuer = Undefined THEN Throw
     ELSE flow' = [flow EXCEPT !.step = NextStep, !.issuer = issuer,
                               !.client = client, !.config = Needed(config)]

\* getClient: the stored client, else one to register, else an error.
GetClient(config) ==
  CASE ~Readable(record) -> Throw
    [] Readable(record) /\ HasStoredClient(record) ->
         Onward(config, StoredClient(platform, record))
    [] OTHER ->
         IF MayRegister(platform, config)
           THEN flow' = [flow EXCEPT !.step = "register", !.config = config]
           ELSE Throw

\* The issuer's configuration arrives: handleRegistration.  It writes the secret
\* of a given client after the identifier; a login that stops in between leaves
\* no issuer and no request, and the next one writes both again: it is one step.
ConfigFetched ==
  /\ Awaits("config")
  /\ \E document \in DocumentsOf(flow.issuer) :
       LET config == FetchConfig(platform, document)
           given == GivenClient(flow.clientId, flow.clientSecret)
       IN IF config = Undefined THEN Throw /\ UNCHANGED record
          ELSE IF NeedsRegistration(flow.clientId, config)
            THEN GetClient(config) /\ UNCHANGED record
            ELSE /\ record' = SetForUser(record, ClientFields(given))
                 /\ Onward(config, given)
  /\ UNCHANGED <<platform, memory, states, session, provider, history>>

\* The registration endpoint answers.
ClientRegistered(response) ==
  LET clientId == Len(clients) + 1
      asks == SigningAlg(flow.config)
  IN
  /\ Awaits("register")
  /\ Len(clients) < MaxClients
  /\ IF ValidRegistration(response, flow.kind # "redirect")
       THEN \E secret \in BOOLEAN, answer \in {asks, Undefined} \ {NoAlg} :
              LET client ==
                    [clientId |-> clientId,
                     clientSecret |-> IF secret THEN clientId ELSE Undefined,
                     idTokenSignedResponseAlg |->
                       RegisteredAlg(platform, asks, answer)]
              IN /\ clients' = Append(clients,
                      [issuer |-> IssuerOf[flow.issuer], secret |-> secret,
                       alg |-> asks])
                 /\ record' = SetForUser(record, ClientFields(client))
                 /\ Onward(flow.config, client)
       ELSE Throw /\ UNCHANGED <<record, clients>>
  /\ UNCHANGED <<platform, memory, states, session, requests, open, tokens,
                 live, history>>

\* The handler of the login.  The browser has only one.
Handler ==
  IF platform = "browser" THEN "authorizationCodeWithPkce"
  ELSE OidcHandler(Stored("refreshToken"), flow.client.clientId, flow.config)

\* RefreshTokenOidcHandler stores what TokenRefresher reads, which fetches the
\* configuration of the issuer once more.
RefreshAccess ==
  /\ Awaits("handle")
  /\ Handler = "refreshToken"
  /\ record' = SetForUser(record,
       [issuer |-> flow.issuer, dpop |-> flow.dpop,
        clientId |-> flow.client.clientId,
        clientSecret |-> flow.client.clientSecret])
  /\ flow' = [flow EXCEPT !.step = "context", !.config = Undefined,
                       !.token = Stored("refreshToken")]
  /\ asked' = [asked EXCEPT !.dpop = flow.dpop]
  /\ UNCHANGED <<platform, memory, states, session, provider, mixed, last>>

\* Mutant: the type of the tokens is not stored.
ContextWithoutType(request) ==
  [codeVerifier |-> request, issuer |-> flow.issuer]

\* What AuthorizationCodeWithPkceOidcHandler keeps of a login for the redirect.
LoginContext(request) ==
  [codeVerifier |-> request, issuer |-> flow.issuer, dpop |-> flow.dpop]

\* AuthorizationCodeWithPkceOidcHandler stores what the redirect will need and
\* has the user sent to the issuer.
RequestAuthorization ==
  LET request == Len(requests) + 1 IN
  /\ Awaits("handle")
  /\ Handler = "authorizationCodeWithPkce"
  /\ Len(requests) < MaxRequests
  /\ requests' = Append(requests,
       [issuer |-> flow.issuer, clientId |-> flow.client.clientId])
  /\ open' = open \cup {request}
  /\ states' = states \cup {request}
  /\ record' = SetForUser(record, LoginContext(request))
  /\ Throw
  /\ UNCHANGED <<platform, memory, session, clients, tokens, live, history>>

\* No handler can handle the login.
NoSuitableHandler ==
  /\ Awaits("handle")
  /\ Handler = NoHandler
  /\ Throw
  /\ UNCHANGED <<platform, record, memory, states, session, provider, history>>

-----------------------------------------------------------------------------
(* TokenRefresher.refresh and AuthCodeRedirectHandler.handle.              *)

\* TokenRefresher: the context, which is that of the login, and the client
\* come from storage.  A fetch with Bearer tokens has no key to refresh the
\* tokens of a login with DPoP.
RefreshContextLoaded ==
  /\ Awaits("context")
  /\ \E document \in DocumentsOf(flow.issuer) :
       LET config == FetchConfig(platform, document)
       IN IF \/ config = Undefined
             \/ /\ Stored("idTokenSignedResponseAlg") = Undefined
                /\ ~CanNegotiate(config)
             \/ Stored("dpop") = TRUE /\ ~flow.dpop
          THEN Throw
          ELSE GetClient(config)
  /\ UNCHANGED <<platform, record, memory, states, session, provider, history>>

\* What an exchange finds in storage: the session of the state and what its
\* login kept.
HasContext(code) == code \in states /\ HasLoginContext

\* The user comes back with a code, in the browser on a new page.
ReturnWithCode(code) ==
  /\ flow = NoFlow
  /\ code \in open
  /\ open' = open \ {code}
  /\ platform = "node" => ~session.isLoggedIn
  /\ RedirectHandler(TRUE, TRUE) = "authCode"
  /\ session' = NewSession
  /\ memory' = NoData
  /\ IF HasContext(code)
       THEN flow' = [NoFlow EXCEPT
              !.kind = "redirect", !.step = "redirectConfig", !.code = code,
              !.issuer = Stored("issuer"), !.dpop = (Stored("dpop") = TRUE)]
       ELSE UNCHANGED flow
  /\ UNCHANGED <<platform, record, states, requests, clients, tokens, live,
                 history>>

\* The user comes back without one, or not at all: a page or a process that
\* starts anew, with the plain fetch.
ReturnWithout ==
  /\ RedirectHandler(FALSE, FALSE) = "fallback"
  /\ session' = NewSession
  /\ memory' = NoData
  /\ flow' = NoFlow
  /\ UNCHANGED <<platform, record, states, provider, history>>

\* The configuration arrives: the client comes from storage, then the code
\* goes to the token endpoint.  The browser checks the configuration first,
\* for a DPoP token; its verifier is looked up after the client.
RedirectConfigFetched ==
  /\ Awaits("redirectConfig")
  /\ \E document \in DocumentsOf(flow.issuer) :
       LET config == FetchConfig(platform, document)
       IN IF \/ config = Undefined
             \/ /\ platform = "browser" /\ flow.dpop
                /\ ~ValidPreconditions(config)
          THEN Throw
          ELSE GetClient(config)
  /\ UNCHANGED <<platform, record, memory, states, session, provider, history>>

\* What each handler requires of the response of a token endpoint.
Usable(response) ==
  CASE flow.kind = "redirect" /\ platform = "browser" /\ flow.dpop ->
         ValidTokenResponse(response, TRUE)
    [] flow.kind = "redirect" /\ platform = "browser" /\ ~flow.dpop ->
         HasIdToken(response)
    [] flow.kind = "redirect" /\ platform = "node" ->
         HasAccessToken(response) /\ HasIdToken(response)
    [] OTHER -> HasAccessToken(response)

\* A token endpoint sends tokens, a refresh token perhaps among them.  Of the
\* handlers of the node package, TokenRefresher stores it at once; the fetch
\* that called it keeps it for the next time.
TokensObtained(response, fresh) ==
  LET token == IF fresh THEN Len(tokens) + 1 ELSE flow.token IN
  /\ Accepted
  /\ response.error = "undefined"
  /\ fresh => Len(tokens) < MaxTokens
  /\ IF fresh
       THEN /\ tokens' = Append(tokens, [issuer |-> flow.issuer,
                                         clientId |-> flow.client.clientId])
            /\ live' = (live \ {flow.token}) \cup {token}
       ELSE UNCHANGED <<tokens, live>>
  /\ record' = IF Usable(response) /\ Awaits("refresh") /\ fresh
                 THEN SetForUser(record, [refreshToken |-> token]) ELSE record
  /\ IF Usable(response) /\ HasIdToken(response) /\ flow.kind # "fetch"
       THEN \E idToken \in IdTokens :
              flow' = [flow EXCEPT !.step = "jwks", !.token = token,
                                   !.idToken = idToken]
       ELSE Throw
  /\ session' = IF Usable(response) /\ flow.kind = "fetch"
                  THEN [session EXCEPT !.token = token] ELSE session
  /\ UNCHANGED <<platform, memory, states, requests, open, clients, history>>

\* What a login that completes stores.
RefreshedFields ==
  Merged([isLoggedIn |-> TRUE, refreshToken |-> flow.token,
          issuer |-> flow.issuer, dpop |-> flow.dpop],
         ClientFields([flow.client EXCEPT
                         !.idTokenSignedResponseAlg = Undefined]))
RedirectedFields ==
  Merged([isLoggedIn |-> TRUE, idToken |-> flow.idToken,
          webId |-> WebIdOf(flow.idToken)],
         [field \in IF flow.token = None THEN {} ELSE {"refreshToken"} |->
            flow.token])

CompletedFields ==
  IF flow.kind = "redirect" THEN RedirectedFields ELSE RefreshedFields

\* The writes are made one after the other, each awaited.
SavedInOrder ==
  <<{"refreshToken"}, {"idToken"}, {"webId"}, {"isLoggedIn"},
    {"issuer", "dpop", "clientId"}, {"clientSecret"}>>

FirstOfFields(count) ==
  LET saved == UNION {SavedInOrder[i] : i \in 1..count} IN
  [field \in DOMAIN CompletedFields \cap saved |-> CompletedFields[field]]

\* Mutant: the ID token is kept with the rest, in the secure storage only.
NoInsecureFields == NoData

\* What the browser stores: of the tokens, only the ID token survives the page.
BrowserFields == [idToken |-> flow.idToken]

\* The placeholder for a refresh token, which nothing reads, is left out.
BrowserSecureFields == [isLoggedIn |-> TRUE, webId |-> WebIdOf(flow.idToken)]

Grant ==
  IF flow.kind = "redirect" THEN requests[flow.code] ELSE tokens[flow.token]

LogIn ==
  /\ session' = [isLoggedIn |-> TRUE, dpop |-> flow.dpop,
                 webId |-> WebIdOf(flow.idToken),
                 token |-> IF platform = "node" THEN flow.token ELSE None]
  /\ last' = Grant

\* The issuer that the ID token must be from: the one that the configuration
\* names, if it does, when a code is exchanged by the library itself; the one
\* of the login in a refresh, and for Bearer tokens in the browser, where
\* oidc-client has read it anew.
IssuerToCheck ==
  IF flow.kind = "redirect" /\ (platform = "node" \/ flow.dpop)
    THEN NamedIssuer(flow.config) ELSE flow.issuer

GivesWebId == HasWebId(flow.idToken, IssuerToCheck, flow.client.clientId)

\* The keys of the issuer arrive and the ID token gives a WebID: the login is
\* complete, in the browser once the user's profile has been fetched.
KeysFetched ==
  /\ Awaits("jwks")
  /\ IF ~GivesWebId
       THEN Throw /\ UNCHANGED <<record, memory, session, last>>
     ELSE IF platform = "browser"
       THEN /\ memory' = SetForUser(memory, BrowserSecureFields)
            /\ record' = SetForUser(record, BrowserFields)
            /\ Goto("profile")
            /\ UNCHANGED <<session, last>>
       ELSE /\ record' = SetForUser(record, CompletedFields)
            /\ LogIn
            /\ Throw
            /\ UNCHANGED memory
  /\ UNCHANGED <<platform, states, provider, asked, mixed>>

\* The process of the node package stops when only the first of these writes
\* are made.
SavingStops(count) ==
  /\ Awaits("jwks")
  /\ platform = "node"
  /\ GivesWebId
  /\ record' = SetForUser(record, FirstOfFields(count))
  /\ session' = NewSession
  /\ Throw
  /\ UNCHANGED <<platform, memory, states, provider, history>>

\* setupResourceServerSession has fetched the WebID.
ProfileFetched ==
  /\ Awaits("profile")
  /\ GetForUser(memory, "isLoggedIn") = TRUE
  /\ LogIn
  /\ Throw
  /\ UNCHANGED <<platform, record, memory, states, provider, asked, mixed>>

\* A request fails or is refused, or its reply is lost: the call throws.  The
\* refresh token may be dead from then on: it has been rotated, or it was
\* revoked, or too old.
RequestFails ==
  /\ \/ flow.step \in {"config", "validate", "register", "context", "refresh",
                       "redirectConfig", "token", "jwks", "profile"}
     \/ Awaits("handle") /\ platform = "browser"
  /\ Throw
  /\ \/ UNCHANGED live
     \/ Awaits("refresh") /\ live' = live \ {flow.token}
  /\ UNCHANGED <<platform, record, memory, states, session, requests, open,
                 clients, tokens, history>>

\* Something else writes over the record in the storage that the application
\* gave to the node package.
Corrupt ==
  /\ flow = NoFlow
  /\ platform = "node"
  /\ record # NoData
  /\ record' = Corrupted
  /\ last' = Undefined
  /\ UNCHANGED <<platform, memory, states, session, flow, provider, asked,
                 mixed>>

-----------------------------------------------------------------------------
Application ==
  \/ \E options \in Options : Login(options)
  \/ Logout
  \/ FetchRefused
  \/ Restore

Reply ==
  \/ ConfigFetched
  \/ \E current \in BOOLEAN : CurrentSessionValidated(current)
  \/ \E response \in RegistrationResponses : ClientRegistered(response)
  \/ RefreshContextLoaded
  \/ RedirectConfigFetched
  \/ \E response \in TokenResponses, fresh \in BOOLEAN :
       TokensObtained(response, fresh)
  \/ KeysFetched
  \/ \E count \in 1..(Len(SavedInOrder) - 1) : SavingStops(count)
  \/ ProfileFetched
  \/ RequestFails

Continuation == RefreshAccess \/ RequestAuthorization \/ NoSuitableHandler

Environment ==
  \/ \E code \in open : ReturnWithCode(code)
  \/ ReturnWithout
  \/ Corrupt

Next == Application \/ Reply \/ Continuation \/ Environment

Spec == Init /\ [][Next]_vars

-----------------------------------------------------------------------------
(* Properties.                                                             *)

IdTokenValues == [iss : Issuers, aud : ClientIds, key : Keys,
                  claim : {"webid", "none"}]
WebIds == [iss : Issuers, aud : ClientIds]
Grants == [issuer : Issuers, clientId : ClientIds]

\* The values of the fields of the user's data.
FieldType ==
  [isLoggedIn |-> {TRUE}, dpop |-> BOOLEAN, issuer |-> Issuers,
   clientId |-> ClientIds, clientSecret |-> ClientIds,
   idTokenSignedResponseAlg |->
     {PREFERRED_SIGNING_ALG[i] : i \in DOMAIN PREFERRED_SIGNING_ALG},
   codeVerifier |-> Requests, refreshToken |-> RefreshTokens,
   idToken |-> IdTokenValues, webId |-> WebIds]

\* A field that is there has a value.
ASSUME UndefinedAssumption ==
  \A field \in DOMAIN FieldType : Undefined \notin FieldType[field]

IsUserData(data) ==
  /\ DOMAIN data \subseteq DOMAIN FieldType
  /\ \A field \in DOMAIN data : data[field] \in FieldType[field]

\* The types of the variables: in particular, the application and the library
\* never write a field that is undefined, and a corrupted record is only met in
\* the storage given to the node package (StorageUtility).
TypeOK ==
  /\ platform \in Platforms
  /\ \/ platform = "node" /\ record = Corrupted
     \/ IsUserData(record)
  /\ IsUserData(memory)
  /\ platform = "node" => memory = NoData
  /\ states \subseteq DOMAIN requests /\ open \subseteq DOMAIN requests
  /\ session \in [isLoggedIn : BOOLEAN, dpop : BOOLEAN,
                  webId : {Undefined} \cup WebIds,
                  token : {None} \cup DOMAIN tokens]
  /\ flow.issuer \in {Undefined} \cup IssuerUrls
  /\ flow.clientId \in {Undefined} \cup ClientIds
  /\ flow.client.clientId \in {Undefined} \cup ClientIds
  /\ flow.code \in {None} \cup DOMAIN requests
  /\ flow.token \in {None} \cup DOMAIN tokens
  /\ flow.idToken \in {Undefined} \cup IdTokenValues
  /\ \A r \in DOMAIN requests : requests[r] \in Grants
  /\ \A k \in DOMAIN tokens : tokens[k] \in Grants
  /\ live \subseteq DOMAIN tokens
  /\ asked \in {Undefined} \cup LoginOptions
  /\ mixed \in BOOLEAN
  /\ last \in {Undefined} \cup Grants

\* The client of a flow is the one that the grant it sends was made to.
IsClientOf(grant) ==
  /\ Accepts(flow.issuer, flow.client, grant)
  /\ platform = "node" /\ grant.clientId \in DynamicClients =>
       flow.client.idTokenSignedResponseAlg = clients[grant.clientId].alg

\* What is read from storage to exchange a grant, possibly in another process
\* or page than the one that wrote it, belongs together and to the grant: the
\* issuer, the client with its secret and algorithm, and for the code of the
\* latest request the verifier.  In the node package, only if no login with
\* other options was started without a logout
\* (AuthCodeRedirectHandler.handle, TokenRefresher.refresh, getClient).
GrantsToTheirClient ==
  /\ Awaits("token") /\ ~mixed
       /\ (platform = "node" => flow.code = Len(requests)) =>
     IsClientOf(requests[flow.code]) /\ Stored("codeVerifier") = flow.code
  /\ Awaits("refresh") /\ ~mixed => IsClientOf(tokens[flow.token])

\* The issuer that the application last asked for, under its own name.
AskedIssuer == IssuerOf[asked.issuer]

\* A login that completes is with the issuer whose document is at the URL that
\* the application last asked for, whatever name that document gives it; its
\* WebID is asserted to the client the grant was made to, and by that issuer if
\* the document read to complete the login names one.  Nothing else is compared
\* with the issuer of the ID token (OidcLoginHandler.handle,
\* getWebidFromTokenPayload, and all that is stored between the steps).
LoginAsAsked ==
  [][last' # last /\ last' # Undefined =>
       /\ session'.webId.aud = last'.clientId
       /\ IssuerToCheck # Undefined => session'.webId.iss = last'.issuer
       /\ mixed \/ last'.issuer = AskedIssuer]_vars

\* The fetch that a completed login gives sends tokens of the type that the
\* login asked for: that of the application, or, when the library restores a
\* session, always DPoP (LoginContext, the dpop field read after the redirect).
TokenTypeAsAsked ==
  [][last' # last /\ last' # Undefined /\ ~mixed =>
       session'.dpop = asked.dpop]_vars

\* After a login, and until the next one, a logout or damage to the storage,
\* the stored data of the session stay complete and consistent, whichever
\* steps fail in between: what restores it belongs to the grant that the login
\* completed with, and in the browser the ID token to the WebID of the session
\* (setForUser, saveSessionInfoToStorage, RefreshTokenOidcHandler.handle).
SessionAvailable ==
  last # Undefined /\ ~mixed =>
    /\ Stored("issuer") = last.issuer
    /\ Stored("clientId") = last.clientId
    /\ Stored("clientSecret") = SecretOf(last.clientId)
    /\ platform = "browser" =>
         /\ Restorable
         /\ Stored("idToken").aud = last.clientId
         /\ session.isLoggedIn => WebIdOf(Stored("idToken")) = session.webId
    /\ Stored("refreshToken") # Undefined =>
         tokens[Stored("refreshToken")] = last

\* A request is made to the issuer that the application asked for, under its
\* own name and not the URL that was given, on behalf of the client that the
\* application named; a client registered dynamically stands in only when it
\* named none, or a Client WebID that the issuer would not dereference.
RequestAsAsked(request) ==
  /\ request.issuer = AskedIssuer
  /\ IF \/ asked.clientId = Undefined
        \/ asked.clientId \in UrlClients /\ AskedIssuer \notin SolidIssuers
       THEN /\ request.clientId \in DynamicClients
            /\ clients[request.clientId].issuer = request.issuer
       ELSE request.clientId = asked.clientId

\* The user is sent to the issuer and on behalf of the client that the
\* application asked for.  This includes the silent logins that restore a
\* session (handleRegistration, getClient, silentlyAuthenticate).
ClientAsAsked ==
  [][requests' # requests /\ ~mixed =>
       RequestAsAsked(requests'[Len(requests')])]_vars

\* The user of the node package is not sent to the issuer while a refresh token
\* is stored, whoever stored it (dependencies.ts, the order of the handlers).
NoNeedlessRedirect ==
  [][requests' # requests /\ platform = "node" =>
       Stored("refreshToken") = Undefined]_vars

\* A client is registered to start a login, never to complete one or to
\* refresh: the page or process that completes it finds the client of the one
\* that started it (getClient, "This should also retrieve the client from
\* storage").
RegistersToLogIn ==
  Awaits("register") => flow.kind # "redirect" /\ flow.token = None
=============================================================================
