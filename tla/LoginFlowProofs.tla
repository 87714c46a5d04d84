--------------------------- MODULE LoginFlowProofs ---------------------------
(***************************************************************************)
(* Theorems about LoginFlow, for every value of its constants: that        *)
(* completing a login never registers a client, and that the node package  *)
(* redirects nobody while it has a refresh token.  Both rest on what the   *)
(* record of the session holds at each step of a flow.                     *)
(***************************************************************************)
EXTENDS LoginFlow, SequenceTheorems, TLAPS

-----------------------------------------------------------------------------
(* The operators of UserStorage.                                           *)

\* A field that is written has the new value, any other the value it had, if
\* the data could be read.
LEMMA GetOfSet ==
  ASSUME NEW data, NEW values, NEW field
  PROVE  GetForUser(SetForUser(data, values), field) =
           IF field \in DOMAIN values THEN values[field]
           ELSE IF Readable(data) THEN GetForUser(data, field) ELSE Undefined
  BY DEF GetForUser, SetForUser, Stringified, Merged, NoData

\* What is written over damaged data can be read.
LEMMA SetReadable ==
  ASSUME NEW data, NEW values, "notJson" \notin DOMAIN values
  PROVE  Readable(SetForUser(data, values))
  BY DEF Readable, SetForUser, Stringified, Merged, NoData

\* Whoever finds an issuer in the data finds a client.
ClientWithIssuer(data) ==
  Readable(data) /\ GetForUser(data, "issuer") # Undefined =>
    GetForUser(data, "clientId") # Undefined

LEMMA KeepsClient ==
  ASSUME NEW data, NEW values, ClientWithIssuer(data),
         "clientId" \in DOMAIN values => values["clientId"] # Undefined,
         "issuer" \in DOMAIN values =>
           \/ "clientId" \in DOMAIN values
           \/ Readable(data) /\ GetForUser(data, "clientId") # Undefined
  PROVE  ClientWithIssuer(SetForUser(data, values))
  BY GetOfSet DEF ClientWithIssuer

LEMMA WritesClient ==
  ASSUME NEW client, DOMAIN client = DOMAIN NoClient,
         client["clientId"] # Undefined
  PROVE  /\ "clientId" \in DOMAIN ClientFields(client)
         /\ ClientFields(client)["clientId"] = client["clientId"]
         /\ "notJson" \notin DOMAIN ClientFields(client)
  BY DEF ClientFields, NoClient

-----------------------------------------------------------------------------
(* The invariant.                                                          *)

\* The flow and its client are records, and clients is a sequence.
Shapes ==
  /\ DOMAIN flow = DOMAIN NoFlow
  /\ DOMAIN flow.client = DOMAIN NoClient
  /\ \E S : clients \in Seq(S)

\* From the step where the handler is chosen on, the flow has a client.
FlowHasClient ==
  flow.step \in {"handle", "refresh", "token", "jwks", "profile"} =>
    flow.client.clientId # Undefined

\* A flow that is about to read the client from storage finds one, and at the
\* choice of the handler it can be read.
ClientIsStored ==
  /\ flow.step \in {"handle", "context", "redirectConfig"} /\ Readable(record) =>
       Stored("clientId") # Undefined
  /\ flow.step = "handle" => Readable(record)

\* The first steps are those of a login.
StartsAsLogin ==
  flow.step \in {"validate", "config", "register"} =>
    flow.kind # "redirect" /\ flow.token = None

IInv == Shapes /\ ClientWithIssuer(record) /\ FlowHasClient /\ ClientIsStored
          /\ StartsAsLogin

LEMMA InitIInv == Init => IInv
  <1> SUFFICES ASSUME Init PROVE IInv
    OBVIOUS
  <1>1. clients \in Seq({})
    BY DEF Init
  <1>2. Shapes
    BY <1>1 DEF Init, Shapes, NoFlow
  <1>3. GetForUser(record, "issuer") = Undefined
    BY DEF Init, GetForUser, NoData
  <1> QED
    BY <1>2, <1>3 DEF Init, IInv, ClientWithIssuer, FlowHasClient,
      ClientIsStored, StartsAsLogin, NoFlow

\* The call is over: nothing is asked of the flow.
LEMMA OverIInv ==
  ASSUME Shapes, ClientWithIssuer(record)', flow' = NoFlow,
         UNCHANGED clients
  PROVE  IInv'
  BY DEF IInv, Shapes, FlowHasClient, ClientIsStored, StartsAsLogin, NoFlow

\* Facts to expand a step that only changes fields of the flow.
LEMMA NextStepIs ==
  NextStep \in {"token", "refresh", "handle"}
  BY DEF NextStep

\* A flow that goes on has its client, and is otherwise the same but for the
\* issuer and what is kept of the configuration.
LEMMA OnwardDoes ==
  ASSUME NEW config, NEW client, DOMAIN flow = DOMAIN NoFlow,
         Onward(config, client), flow' # NoFlow
  PROVE  /\ DOMAIN flow' = DOMAIN NoFlow
         /\ flow'.step = NextStep /\ flow'.client = client
         /\ flow'.config = Needed(config)
         /\ flow'.issuer # Undefined
         /\ flow'.issuer = IF NextStep = "handle" THEN NamedIssuer(config)
                                                 ELSE flow.issuer
         /\ flow'.kind = flow.kind /\ flow'.clientId = flow.clientId
         /\ flow'.clientSecret = flow.clientSecret /\ flow'.dpop = flow.dpop
         /\ flow'.code = flow.code /\ flow'.token = flow.token
         /\ flow'.idToken = flow.idToken
  <1> DEFINE issuer ==
        IF NextStep = "handle" THEN NamedIssuer(config) ELSE flow.issuer
  <1>1. /\ issuer # Undefined
        /\ flow' = [flow EXCEPT !.step = NextStep, !.issuer = issuer,
                                !.client = client, !.config = Needed(config)]
    BY DEF Onward, Throw
  <1> HIDE DEF issuer
  <1>2. /\ DOMAIN flow' = DOMAIN NoFlow
        /\ flow'.step = NextStep /\ flow'.client = client
        /\ flow'.config = Needed(config) /\ flow'.issuer = issuer
        /\ flow'.kind = flow.kind /\ flow'.clientId = flow.clientId
        /\ flow'.clientSecret = flow.clientSecret /\ flow'.dpop = flow.dpop
        /\ flow'.code = flow.code /\ flow'.token = flow.token
        /\ flow'.idToken = flow.idToken
    BY <1>1 DEF NoFlow
  <1> QED
    BY <1>1, <1>2 DEF issuer

LEMMA GetClientIInv ==
  ASSUME NEW config, IInv, GetClient(config), UNCHANGED <<record, clients>>,
         flow.step \in {"config", "context", "redirectConfig"}
  PROVE  IInv'
  <1>0. ClientWithIssuer(record)' /\ Shapes
    BY DEF IInv, ClientWithIssuer
  <1>1. CASE flow' = NoFlow
    BY <1>0, <1>1, OverIInv
  <1>2. CASE /\ Readable(record) /\ HasStoredClient(record) /\ flow' # NoFlow
             /\ Onward(config, StoredClient(platform, record))
    <2>1. StoredClient(platform, record).clientId # Undefined
          /\ DOMAIN StoredClient(platform, record) = DOMAIN NoClient
      BY <1>2 DEF StoredClient, HasStoredClient, NoClient
    <2>2. /\ flow'.step = NextStep
          /\ flow'.client = StoredClient(platform, record)
          /\ DOMAIN flow' = DOMAIN flow
      BY <1>0, <1>2, OnwardDoes DEF Shapes
    <2> QED
      BY <1>0, <1>2, <2>1, <2>2, NextStepIs DEF IInv, Shapes, FlowHasClient,
        ClientIsStored, StartsAsLogin, HasStoredClient, Stored
  <1>3. CASE /\ ~(Readable(record) /\ HasStoredClient(record))
             /\ flow' = [flow EXCEPT !.step = "register", !.config = config]
             /\ Readable(record)
    <2>1. flow.step = "config"
      BY <1>3 DEF IInv, ClientIsStored, HasStoredClient, Stored
    <2>2. /\ flow'.step = "register" /\ flow'.client = flow.client
          /\ flow'.kind = flow.kind /\ flow'.token = flow.token
          /\ DOMAIN flow' = DOMAIN flow
      BY <1>0, <1>3 DEF Shapes, NoFlow
    <2> QED
      BY <1>0, <2>1, <2>2 DEF IInv, Shapes, FlowHasClient, ClientIsStored,
        StartsAsLogin
  <1> QED
    BY <1>1, <1>2, <1>3 DEF GetClient, Throw

-----------------------------------------------------------------------------
(* The calls of the application.                                           *)

LEMMA ClearedHasNoIssuer == ClientWithIssuer(NoData)
  BY DEF ClientWithIssuer, GetForUser, NoData

LEMMA StartLoginIInv ==
  ASSUME NEW f, Shapes, ClientWithIssuer(record), StartLogin(f),
         UNCHANGED clients, DOMAIN f = DOMAIN NoFlow,
         DOMAIN f.client = DOMAIN NoClient, f.step = "config",
         f.kind # "redirect", f.token = None
  PROVE  IInv'
  <1>1. ClientWithIssuer(record)'
    BY ClearedHasNoIssuer DEF StartLogin
  <1> QED
    BY <1>1 DEF StartLogin, IInv, Shapes, FlowHasClient, ClientIsStored,
      StartsAsLogin

LEMMA ApplicationIInv ==
  ASSUME IInv, Application
  PROVE  IInv'
  <1>0. Shapes /\ ClientWithIssuer(record)
    BY DEF IInv
  <1>1. ASSUME NEW options \in Options, Login(options)
        PROVE  IInv'
    BY <1>0, <1>1, StartLoginIInv DEF Login, NoFlow, NoClient, provider, None
  <1>2. CASE Logout
    BY <1>0, <1>2, OverIInv, ClearedHasNoIssuer DEF Logout, provider
  <1>3. CASE Restore
    <2>1. /\ flow'.step \in {"validate", "config"} /\ flow'.kind = "restore"
          /\ flow'.token = None /\ DOMAIN flow' = DOMAIN NoFlow
          /\ flow'.client = NoClient
          /\ UNCHANGED <<record, clients>>
      BY <1>3 DEF Restore, RestoredFlow, NoFlow, provider
    <2> QED
      BY <1>0, <2>1 DEF IInv, Shapes, ClientWithIssuer, FlowHasClient,
        ClientIsStored, StartsAsLogin
  <1>4. CASE FetchRefused
    <2>1. /\ DOMAIN flow' = DOMAIN NoFlow /\ flow'.client = NoClient
          /\ flow'.step = "context" /\ UNCHANGED <<record, clients>>
      BY <1>4 DEF FetchRefused, NoFlow, provider
    <2>2. GetForUser(record, "clientId") # Undefined
      BY <1>0, <1>4 DEF FetchRefused, HasLoginContext, ClientWithIssuer, Stored
    <2> QED
      BY <1>0, <2>1, <2>2 DEF IInv, Shapes, ClientWithIssuer, FlowHasClient,
        ClientIsStored, StartsAsLogin, Stored
  <1> QED
    BY <1>1, <1>2, <1>3, <1>4 DEF Application

-----------------------------------------------------------------------------
(* The replies of the network.                                             *)

\* A step that keeps the client and the record, and does not go back to an
\* earlier step of the flow.
LEMMA AdvanceIInv ==
  ASSUME IInv, UNCHANGED clients, ClientWithIssuer(record)',
         DOMAIN flow' = DOMAIN flow, flow'.client = flow.client,
         flow.step \in {"handle", "refresh", "token", "jwks", "profile"},
         flow'.step \in {"refresh", "token", "jwks", "profile"}
  PROVE  IInv'
  BY DEF IInv, Shapes, FlowHasClient, ClientIsStored, StartsAsLogin

LEMMA ConfigFetchedIInv ==
  ASSUME IInv, ConfigFetched
  PROVE  IInv'
  <1>0. /\ Shapes /\ ClientWithIssuer(record) /\ flow.step = "config"
        /\ UNCHANGED clients
    BY DEF IInv, ConfigFetched, Awaits, provider
  <1>1. PICK document \in DocumentsOf(flow.issuer) :
          LET config == FetchConfig(platform, document)
              given == GivenClient(flow.clientId, flow.clientSecret)
          IN IF config = Undefined THEN Throw /\ UNCHANGED record
             ELSE IF NeedsRegistration(flow.clientId, config)
               THEN GetClient(config) /\ UNCHANGED record
               ELSE /\ record' = SetForUser(record, ClientFields(given))
                    /\ Onward(config, given)
    BY DEF ConfigFetched
  <1> DEFINE config == FetchConfig(platform, document)
             given == GivenClient(flow.clientId, flow.clientSecret)
  <1>2. CASE Throw /\ UNCHANGED record
    BY <1>0, <1>2, OverIInv DEF Throw, ClientWithIssuer
  <1>3. CASE GetClient(config) /\ UNCHANGED record
    <2> HIDE DEF config
    <2> QED
      BY <1>0, <1>3, GetClientIInv
  <1>4. CASE /\ ~NeedsRegistration(flow.clientId, config)
             /\ record' = SetForUser(record, ClientFields(given))
             /\ Onward(config, given)
    <2>1. DOMAIN given = DOMAIN NoClient /\ given.clientId # Undefined
      BY <1>4 DEF NeedsRegistration, GivenClient, NoClient
    <2> HIDE DEF config, given
    <2>2. /\ Readable(record')
          /\ GetForUser(record', "clientId") # Undefined
      BY <1>4, <2>1, WritesClient, GetOfSet, SetReadable
    <2>3. CASE flow' = NoFlow
      BY <1>0, <2>2, <2>3, OverIInv DEF ClientWithIssuer
    <2>4. CASE flow' # NoFlow
      <3>1. /\ flow'.step = "handle" /\ flow'.client = given
            /\ DOMAIN flow' = DOMAIN flow
        BY <1>0, <1>4, <2>4, OnwardDoes DEF IInv, Shapes, StartsAsLogin,
          NextStep
      <3> QED
        BY <1>0, <2>1, <2>2, <3>1 DEF IInv, Shapes, ClientWithIssuer,
          FlowHasClient, ClientIsStored, StartsAsLogin, Stored
    <2> QED
      BY <2>3, <2>4
  <1> QED
    BY <1>1, <1>2, <1>3, <1>4

LEMMA ClientRegisteredIInv ==
  ASSUME IInv, NEW response, ClientRegistered(response)
  PROVE  IInv'
  <1>0. Shapes /\ ClientWithIssuer(record) /\ flow.step = "register"
    BY DEF IInv, ClientRegistered, Awaits
  <1> DEFINE clientId == Len(clients) + 1
             asks == SigningAlg(flow.config)
  <1>1. CASE Throw /\ UNCHANGED <<record, clients>>
    BY <1>0, <1>1, OverIInv DEF Throw, ClientWithIssuer
  <1>2. ASSUME NEW secret \in BOOLEAN, NEW alg, NEW new,
               Len(clients) < MaxClients,
               clients' = Append(clients, new),
               record' = SetForUser(record, ClientFields(
                 [clientId |-> clientId,
                  clientSecret |-> IF secret THEN clientId ELSE Undefined,
                  idTokenSignedResponseAlg |-> alg])),
               Onward(flow.config,
                 [clientId |-> clientId,
                  clientSecret |-> IF secret THEN clientId ELSE Undefined,
                  idTokenSignedResponseAlg |-> alg])
        PROVE  IInv'
    <2> DEFINE client == [clientId |-> clientId,
                 clientSecret |-> IF secret THEN clientId ELSE Undefined,
                 idTokenSignedResponseAlg |-> alg]
    <2>1. PICK S : clients \in Seq(S)
      BY <1>0 DEF Shapes
    <2>2. clients' \in Seq(S \cup {new})
      <3>1. clients \in Seq(S \cup {new})
        BY <2>1
      <3> QED
        BY <1>2, <3>1
    <2>3. clientId \in DynamicClients
      BY <1>2, <2>1, LoginAssumption DEF DynamicClients
    <2>4. DOMAIN client = DOMAIN NoClient /\ client.clientId # Undefined
      BY <2>3, LoginAssumption DEF NoClient, ClientIds
    <2> HIDE DEF client
    <2>5. /\ Readable(record')
          /\ GetForUser(record', "clientId") # Undefined
      BY <1>2, <2>4, WritesClient, GetOfSet, SetReadable DEF client
    <2>6. CASE flow' = NoFlow
      BY <2>2, <2>5, <2>6 DEF IInv, Shapes, ClientWithIssuer, FlowHasClient,
        ClientIsStored, StartsAsLogin, NoFlow
    <2>7. CASE flow' # NoFlow
      <3>1. Onward(flow.config, client)
        BY <1>2 DEF client
      <3>2. /\ flow'.step = NextStep /\ flow'.client = client
            /\ DOMAIN flow' = DOMAIN flow
        BY <1>0, <2>7, <3>1, OnwardDoes DEF Shapes
      <3> QED
        BY <1>0, <2>2, <2>4, <2>5, <3>2, NextStepIs DEF IInv, Shapes,
          ClientWithIssuer, FlowHasClient, ClientIsStored, StartsAsLogin, Stored
    <2> QED
      BY <2>6, <2>7
  <1> QED
    BY <1>1, <1>2 DEF ClientRegistered

LEMMA ContextIInv ==
  ASSUME IInv, RefreshContextLoaded \/ RedirectConfigFetched
  PROVE  IInv'
  <1>0. /\ Shapes /\ ClientWithIssuer(record)
        /\ flow.step \in {"context", "redirectConfig"}
        /\ UNCHANGED <<record, clients>>
    BY DEF IInv, RefreshContextLoaded, RedirectConfigFetched, Awaits, provider
  <1>1. CASE Throw
    BY <1>0, <1>1, OverIInv DEF Throw, ClientWithIssuer
  <1>2. ASSUME NEW config, GetClient(config)
        PROVE  IInv'
    BY <1>0, <1>2, GetClientIInv
  <1> QED
    BY <1>1, <1>2 DEF RefreshContextLoaded, RedirectConfigFetched

\* The browser restores a session: a silent login starts.
LEMMA ValidatedIInv ==
  ASSUME IInv, NEW current, CurrentSessionValidated(current)
  PROVE  IInv'
  <1>0. /\ Shapes /\ ClientWithIssuer(record) /\ flow.step = "validate"
        /\ UNCHANGED clients
    BY DEF IInv, CurrentSessionValidated, Awaits, provider
  <1>1. CASE Throw /\ UNCHANGED record
    BY <1>0, <1>1, OverIInv DEF Throw, ClientWithIssuer
  <1> DEFINE f == [flow EXCEPT !.step = "config", !.idToken = Undefined]
  <1>2. CASE StartLogin(f)
    <2>1. /\ DOMAIN f = DOMAIN NoFlow /\ DOMAIN f.client = DOMAIN NoClient
          /\ f.step = "config" /\ f.kind = flow.kind /\ f.token = flow.token
      BY <1>0 DEF Shapes, NoFlow
    <2>2. f.kind # "redirect" /\ f.token = None
      BY <1>0, <2>1 DEF IInv, StartsAsLogin
    <2> HIDE DEF f
    <2> QED
      BY <1>0, <1>2, <2>1, <2>2, StartLoginIInv
  <1> QED
    BY <1>1, <1>2 DEF CurrentSessionValidated

LEMMA TokensObtainedIInv ==
  ASSUME IInv, NEW response, NEW fresh, TokensObtained(response, fresh)
  PROVE  IInv'
  <1> DEFINE token == IF fresh THEN Len(tokens) + 1 ELSE flow.token
  <1>0. /\ Shapes /\ ClientWithIssuer(record)
        /\ flow.step \in {"token", "refresh"} /\ UNCHANGED clients
    BY DEF IInv, TokensObtained, Accepted, Awaits
  <1>1. ClientWithIssuer(record)'
    <2>1. ClientWithIssuer(SetForUser(record, [refreshToken |-> token]))
      BY <1>0, KeepsClient
    <2>2. record' = record \/ record' = SetForUser(record, [refreshToken |-> token])
      BY DEF TokensObtained
    <2> QED
      BY <1>0, <2>1, <2>2 DEF ClientWithIssuer
  <1>2. CASE Throw
    BY <1>0, <1>1, <1>2, OverIInv DEF Throw
  <1>3. ASSUME NEW idToken,
               flow' = [flow EXCEPT !.step = "jwks", !.token = token,
                                    !.idToken = idToken]
        PROVE  IInv'
    <2>1. /\ DOMAIN flow' = DOMAIN flow /\ flow'.client = flow.client
          /\ flow'.step = "jwks"
      BY <1>0, <1>3 DEF Shapes, NoFlow
    <2> QED
      BY <1>0, <1>1, <2>1, AdvanceIInv
  <1> QED
    BY <1>2, <1>3 DEF TokensObtained

LEMMA ClientIsRefreshed ==
  ASSUME Shapes, flow.client["clientId"] # Undefined
  PROVE  /\ "clientId" \in DOMAIN RefreshedFields
         /\ RefreshedFields["clientId"] # Undefined
  <1> DEFINE client == [flow.client EXCEPT !.idTokenSignedResponseAlg = Undefined]
  <1>1. /\ DOMAIN client = DOMAIN NoClient
        /\ client["clientId"] = flow.client["clientId"]
    BY DEF Shapes, NoClient
  <1>2. /\ "clientId" \in DOMAIN ClientFields(client)
        /\ ClientFields(client)["clientId"] # Undefined
    <2> HIDE DEF client
    <2> QED
      BY <1>1, WritesClient
  <1> QED
    BY <1>2 DEF RefreshedFields, Merged

LEMMA KeysFetchedIInv ==
  ASSUME IInv, KeysFetched
  PROVE  IInv'
  <1>0. /\ Shapes /\ ClientWithIssuer(record) /\ flow.step = "jwks"
        /\ flow.client["clientId"] # Undefined /\ UNCHANGED clients
    BY DEF IInv, FlowHasClient, KeysFetched, Awaits, provider
  <1>1. ClientWithIssuer(SetForUser(record, BrowserFields))
    BY <1>0, KeepsClient DEF BrowserFields
  <1>2. ClientWithIssuer(SetForUser(record, RedirectedFields))
    <2>1. {"clientId", "issuer"} \cap DOMAIN RedirectedFields = {}
      BY DEF RedirectedFields, Merged
    <2> QED
      BY <1>0, <2>1, KeepsClient
  <1>3. ClientWithIssuer(SetForUser(record, RefreshedFields))
    BY <1>0, ClientIsRefreshed, KeepsClient
  <1>4. ClientWithIssuer(record)'
    BY <1>0, <1>1, <1>2, <1>3 DEF KeysFetched, CompletedFields, ClientWithIssuer
  <1>5. CASE Throw
    BY <1>0, <1>4, <1>5, OverIInv DEF Throw
  <1>6. CASE Goto("profile")
    <2>1. /\ DOMAIN flow' = DOMAIN flow /\ flow'.client = flow.client
          /\ flow'.step = "profile"
      BY <1>0, <1>6 DEF Goto, Shapes, NoFlow
    <2> QED
      BY <1>0, <1>4, <2>1, AdvanceIInv
  <1> QED
    BY <1>5, <1>6 DEF KeysFetched

\* The issuer and the client are written together.
LEMMA SavingStopsIInv ==
  ASSUME IInv, NEW count \in 1..(Len(SavedInOrder) - 1), SavingStops(count)
  PROVE  IInv'
  <1>0. /\ Shapes /\ ClientWithIssuer(record) /\ flow.step = "jwks"
        /\ flow.client["clientId"] # Undefined /\ UNCHANGED clients
        /\ flow' = NoFlow
        /\ record' = SetForUser(record, FirstOfFields(count))
    BY DEF IInv, FlowHasClient, SavingStops, Awaits, Throw, provider
  <1> DEFINE saved == UNION {SavedInOrder[i] : i \in 1..count}
  <1>1. "issuer" \in saved => "clientId" \in saved
    <2>1. count \in {1, 2, 3, 4, 5}
      BY DEF SavedInOrder
    <2>2. \A i \in 1..count : "issuer" \in SavedInOrder[i] =>
                              "clientId" \in SavedInOrder[i]
      BY <2>1 DEF SavedInOrder
    <2> HIDE DEF SavedInOrder
    <2> QED
      BY <2>2
  <1>2. /\ "issuer" \in DOMAIN CompletedFields =>
             "clientId" \in DOMAIN CompletedFields
        /\ "clientId" \in DOMAIN CompletedFields =>
             CompletedFields["clientId"] # Undefined
    <2>1. {"clientId", "issuer"} \cap DOMAIN RedirectedFields = {}
      BY DEF RedirectedFields, Merged
    <2>2. /\ "clientId" \in DOMAIN RefreshedFields
          /\ RefreshedFields["clientId"] # Undefined
      BY <1>0, ClientIsRefreshed
    <2> QED
      BY <2>1, <2>2 DEF CompletedFields
  <1>3. ClientWithIssuer(SetForUser(record, FirstOfFields(count)))
    <2>1. /\ DOMAIN FirstOfFields(count) = DOMAIN CompletedFields \cap saved
          /\ \A field \in DOMAIN FirstOfFields(count) :
               FirstOfFields(count)[field] = CompletedFields[field]
      BY DEF FirstOfFields
    <2> HIDE DEF saved
    <2> QED
      BY <1>0, <1>1, <1>2, <2>1, KeepsClient
  <1> QED
    BY <1>0, <1>3, OverIInv

LEMMA ReplyIInv ==
  ASSUME IInv, Reply
  PROVE  IInv'
  <1>0. Shapes /\ ClientWithIssuer(record)
    BY DEF IInv
  <1>1. CASE ProfileFetched \/ RequestFails
    BY <1>0, <1>1, OverIInv DEF ProfileFetched, RequestFails, Throw, provider,
      ClientWithIssuer
  <1> QED
    BY <1>1, ConfigFetchedIInv, ValidatedIInv, ClientRegisteredIInv,
      ContextIInv, TokensObtainedIInv, KeysFetchedIInv, SavingStopsIInv
      DEF Reply

-----------------------------------------------------------------------------
(* The choice of a handler, and what comes from outside.                   *)

LEMMA RefreshAccessIInv ==
  ASSUME IInv, RefreshAccess
  PROVE  IInv'
  <1> DEFINE values == [issuer |-> flow.issuer, dpop |-> flow.dpop,
                        clientId |-> flow.client.clientId,
                        clientSecret |-> flow.client.clientSecret]
  <1>0. /\ Shapes /\ ClientWithIssuer(record) /\ flow.step = "handle"
        /\ flow.client.clientId # Undefined /\ UNCHANGED clients
        /\ record' = SetForUser(record, values)
    BY DEF IInv, FlowHasClient, RefreshAccess, Awaits, provider
  <1>1. /\ "clientId" \in DOMAIN values
        /\ values["clientId"] = flow.client.clientId
    OBVIOUS
  <1>2. GetForUser(record', "clientId") # Undefined
    <2> HIDE DEF values
    <2> QED
      BY <1>0, <1>1, GetOfSet
  <1>3. /\ DOMAIN flow' = DOMAIN flow /\ flow'.client = flow.client
        /\ flow'.step = "context"
    BY <1>0 DEF RefreshAccess, Shapes, NoFlow
  <1> QED
    BY <1>0, <1>2, <1>3 DEF IInv, Shapes, ClientWithIssuer, FlowHasClient,
      ClientIsStored, StartsAsLogin, Stored

LEMMA RequestAuthorizationIInv ==
  ASSUME IInv, RequestAuthorization
  PROVE  IInv'
  <1> DEFINE request == Len(requests) + 1
  <1>0. /\ Shapes /\ ClientWithIssuer(record) /\ Readable(record)
        /\ GetForUser(record, "clientId") # Undefined /\ UNCHANGED clients
        /\ record' = SetForUser(record, LoginContext(request))
        /\ flow' = NoFlow
    BY DEF IInv, ClientIsStored, Stored, RequestAuthorization, Awaits, Throw
  <1>1. "clientId" \notin DOMAIN LoginContext(request)
    BY DEF LoginContext
  <1> QED
    BY <1>0, <1>1, KeepsClient, OverIInv

LEMMA ContinuationIInv ==
  ASSUME IInv, Continuation
  PROVE  IInv'
  <1>1. CASE NoSuitableHandler
    BY <1>1, OverIInv DEF NoSuitableHandler, Throw, IInv, provider,
      ClientWithIssuer
  <1> QED
    BY <1>1, RefreshAccessIInv, RequestAuthorizationIInv DEF Continuation

LEMMA EnvironmentIInv ==
  ASSUME IInv, Environment
  PROVE  IInv'
  <1>0. Shapes /\ ClientWithIssuer(record)
    BY DEF IInv
  <1>1. ASSUME NEW code, ReturnWithCode(code)
        PROVE  IInv'
    <2>1. UNCHANGED <<record, clients>>
      BY <1>1 DEF ReturnWithCode
    <2>2. CASE flow' = flow
      BY <1>1, <2>1, <2>2, <1>0, OverIInv DEF ReturnWithCode, ClientWithIssuer
    <2>3. CASE /\ HasContext(code)
               /\ flow' = [NoFlow EXCEPT
                    !.kind = "redirect", !.step = "redirectConfig",
                    !.code = code, !.issuer = Stored("issuer"),
                    !.dpop = (Stored("dpop") = TRUE)]
      <3>1. /\ DOMAIN flow' = DOMAIN NoFlow /\ flow'.client = NoClient
            /\ flow'.step = "redirectConfig"
        BY <2>3 DEF NoFlow
      <3>2. GetForUser(record, "clientId") # Undefined
        BY <1>0, <2>3 DEF HasContext, HasLoginContext, ClientWithIssuer,
          Stored
      <3> QED
        BY <1>0, <2>1, <3>1, <3>2 DEF IInv, Shapes, ClientWithIssuer,
          FlowHasClient, ClientIsStored, StartsAsLogin, Stored
    <2> QED
      BY <1>1, <2>2, <2>3 DEF ReturnWithCode
  <1>2. CASE ReturnWithout
    BY <1>0, <1>2, OverIInv DEF ReturnWithout, provider, ClientWithIssuer
  <1>3. CASE Corrupt
    <2>1. ~Readable(record')
      BY <1>3 DEF Corrupt, Corrupted, Readable
    <2> QED
      BY <1>0, <1>3, <2>1, OverIInv DEF Corrupt, provider, ClientWithIssuer
  <1> QED
    BY <1>1, <1>2, <1>3 DEF Environment

LEMMA NextIInv == IInv /\ [Next]_vars => IInv'
  <1> SUFFICES ASSUME IInv, [Next]_vars PROVE IInv'
    OBVIOUS
  <1>1. CASE UNCHANGED vars
    BY <1>1 DEF vars, provider, IInv, Shapes, ClientWithIssuer, FlowHasClient,
      ClientIsStored, StartsAsLogin, Stored
  <1> QED
    BY <1>1, ApplicationIInv, ReplyIInv, ContinuationIInv, EnvironmentIInv
      DEF Next

LEMMA Invariance == Spec => []IInv
  BY InitIInv, NextIInv, PTL DEF Spec

-----------------------------------------------------------------------------
(* The theorems.                                                           *)

\* The handler of refresh tokens is the first that is asked.
LEMMA RefreshIsFirst ==
  ASSUME NEW refreshToken, NEW clientId, NEW config,
         refreshToken # Undefined, clientId # Undefined
  PROVE  OidcHandler(refreshToken, clientId, config) = "refreshToken"
  <1> DEFINE can == [refreshToken |-> CanRefresh(refreshToken, clientId),
                     authorizationCodeWithPkce |-> CanRedirect(config)]
             IsFirst(i) == /\ can[OidcHandlers[i]]
                           /\ \A j \in 1..(i - 1) : ~can[OidcHandlers[j]]
  <1>1. DOMAIN OidcHandlers = {1, 2} /\ OidcHandlers[1] = "refreshToken"
    BY DEF OidcHandlers
  <1>2. can["refreshToken"]
    BY DEF CanRefresh
  <1> HIDE DEF can
  <1>3. \A i \in {1, 2} : IsFirst(i) <=> i = 1
    BY <1>1, <1>2
  <1>4. (CHOOSE i \in {1, 2} : IsFirst(i)) = 1
    <2> HIDE DEF IsFirst
    <2> QED
      BY <1>3
  <1>5. ProperHandler(OidcHandlers, can) = "refreshToken"
    BY <1>1, <1>2, <1>4 DEF ProperHandler
  <1> QED
    BY <1>5 DEF OidcHandler, can

\* Whichever logins, restarts, failures and damage to the storage came before,
\* a page or a process that completes a login, or refreshes a token, never
\* reaches the registration endpoint from getClient.
THEOREM RegistersToLogInHolds == Spec => []RegistersToLogIn
  <1>1. IInv => RegistersToLogIn
    BY DEF IInv, StartsAsLogin, RegistersToLogIn, Awaits
  <1> QED
    BY <1>1, Invariance, PTL

\* In the node package a login sends the user to the issuer only when no
\* refresh token is stored: the handler of refresh tokens comes first and,
\* as the flow always has a client there, it can handle the login.
THEOREM NoNeedlessRedirectHolds == Spec => NoNeedlessRedirect
  <1>1. ASSUME IInv, [Next]_vars, requests' # requests, platform = "node"
        PROVE  Stored("refreshToken") = Undefined
    <2>1. RequestAuthorization
      BY <1>1 DEF Next, Application, Reply, Continuation, Environment, vars,
        provider, Login, Logout, FetchRefused, Restore, ConfigFetched,
        CurrentSessionValidated, ClientRegistered, RefreshContextLoaded,
        RedirectConfigFetched, TokensObtained, KeysFetched, ProfileFetched,
        SavingStops, RequestFails, RefreshAccess, NoSuitableHandler, ReturnWithCode,
        ReturnWithout, Corrupt
    <2>2. /\ flow.client.clientId # Undefined
          /\ OidcHandler(Stored("refreshToken"), flow.client.clientId,
                         flow.config) = "authorizationCodeWithPkce"
      BY <1>1, <2>1 DEF RequestAuthorization, Awaits, Handler, IInv,
        FlowHasClient
    <2> QED
      BY <2>2, RefreshIsFirst
  <1> QED
    BY <1>1, Invariance, PTL DEF Spec, NoNeedlessRedirect
==============================================================================
