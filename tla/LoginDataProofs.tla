--------------------------- MODULE LoginDataProofs ---------------------------
(***************************************************************************)
(* Theorems about the data of LoginFlow, for every value of its constants: *)
(* what is stored by one login, and read by a later step, page or process, *)
(* belongs together and to what the application asked for.                 *)
(***************************************************************************)
EXTENDS LoginFlowProofs

-----------------------------------------------------------------------------
(* Types.                                                                  *)

Algs == {PREFERRED_SIGNING_ALG[i] : i \in DOMAIN PREFERRED_SIGNING_ALG}
OrUndefined(S) == S \cup {Undefined}

IsStore(data) == IsUserData(data) \/ data = Corrupted

\* The flow: the values of its fields.
FlowTyped ==
  /\ flow.kind \in {"none", "login", "fetch", "restore", "redirect"}
  /\ flow.issuer \in OrUndefined(IssuerUrls)
  /\ flow.clientId \in OrUndefined(ClientIds)
  /\ flow.clientSecret \in OrUndefined(ClientIds)
  /\ flow.dpop \in BOOLEAN
  /\ flow.client.clientId \in OrUndefined(ClientIds)
  /\ flow.client.clientSecret \in OrUndefined(ClientIds)
  /\ flow.client.idTokenSignedResponseAlg \in OrUndefined(Algs)
  /\ flow.code \in {None} \cup DOMAIN requests
  /\ flow.token \in {None} \cup DOMAIN tokens
  /\ flow.idToken \in OrUndefined(IdTokenValues)

\* What is kept of a configuration found at url: it may not name its issuer.
IsDocumentOf(url, config) == NamedIssuer(config) \in {Undefined, IssuerOf[url]}

\* The flow: which fields have a value at each step.  Its issuer is a URL that
\* the application gave until the configuration of the issuer is there.
FlowStepped ==
  /\ flow.step # "none" => flow.issuer \in IssuerUrls
  /\ flow.step \notin {"none", "config", "register"} => flow.issuer \in Issuers
  /\ flow.step \in {"register", "refresh", "token", "jwks", "profile"} =>
       IsDocumentOf(flow.issuer, flow.config)
  /\ flow.kind = "redirect" => flow.code \in DOMAIN requests
  /\ flow.step \in {"context", "refresh"} =>
       flow.kind # "redirect" /\ flow.token # None
  /\ flow.step = "handle" => flow.kind # "redirect" /\ flow.token = None
  /\ flow.step \in {"redirectConfig", "token"} => flow.kind = "redirect"
  /\ flow.step \in {"jwks", "profile"} =>
       /\ flow.kind = "redirect" \/ flow.token # None
       /\ flow.idToken \in IdTokenValues
  /\ flow.step = "register" /\ platform = "node" => CanNegotiate(flow.config)

\* The provider's side.
ProviderTyped ==
  /\ requests \in Seq(Grants)
  /\ Len(requests) <= MaxRequests
  /\ tokens \in Seq(Grants)
  /\ Len(tokens) <= MaxTokens
  /\ Len(clients) <= MaxClients
  /\ live \subseteq DOMAIN tokens
  /\ states \subseteq DOMAIN requests
  /\ open \subseteq DOMAIN requests

\* The user's data, and the session.
StorageTyped ==
  /\ platform \in Platforms
  /\ IsUserData(record) \/ (platform = "node" /\ record = Corrupted)
  /\ IsUserData(memory)
  /\ platform = "node" => memory = NoData
  /\ Stored("refreshToken") \in {Undefined} \cup DOMAIN tokens
  /\ session \in [isLoggedIn : BOOLEAN, dpop : BOOLEAN,
                  webId : {Undefined} \cup WebIds,
                  token : {None} \cup DOMAIN tokens]

\* What the application asked for.  Without a login since the last logout,
\* nothing is stored and no flow is under way.
HistoryTyped ==
  /\ asked \in LoginOptions
       \/ (asked = Undefined /\ record = NoData /\ flow = NoFlow)
  /\ mixed \in BOOLEAN
  /\ last \in {Undefined} \cup Grants

Types == FlowTyped /\ FlowStepped /\ ProviderTyped /\ StorageTyped /\ HistoryTyped

-----------------------------------------------------------------------------
(* Whose login it is.                                                      *)

\* The issuer of the flow, and the stored one, is the one asked for.
IssuerAsAsked ==
  ~mixed => /\ Stored("issuer") # Undefined => Stored("issuer") = AskedIssuer
            /\ flow.step # "none" => IssuerOf[flow.issuer] = AskedIssuer

\* Once the tokens are obtained, the grant is to the client of the flow.
GrantOfFlow ==
  flow.step \in {"jwks", "profile"} =>
    Grant = [issuer |-> flow.issuer, clientId |-> flow.client.clientId]

\* The user's profile is fetched for a WebID of that grant.
TokenOfFlow ==
  flow.step = "profile" =>
    /\ IssuerToCheck # Undefined => flow.idToken.iss = flow.issuer
    /\ flow.idToken.aud = flow.client.clientId

Owned == IssuerAsAsked /\ GrantOfFlow /\ TokenOfFlow

-----------------------------------------------------------------------------
(* What is stored.                                                         *)

\* The application named a client that its issuer knows.
Named ==
  /\ asked.clientId # Undefined
  /\ asked.clientId \in UrlClients => AskedIssuer \in SolidIssuers

\* The client that the application named, or a dynamic one in its stead.
Suits(clientId) ==
  IF Named THEN clientId = asked.clientId
  ELSE /\ clientId \in DOMAIN clients
       /\ clientId \in DynamicClients
       /\ clients[clientId].issuer = AskedIssuer

Pair(issuer, clientId) == [issuer |-> issuer, clientId |-> clientId]
StoredPair == Pair(Stored("issuer"), Stored("clientId"))

\* The fields of the record belong together.
ClientFits ==
  /\ Stored("clientId") # Undefined /\ ~mixed =>
       /\ Suits(Stored("clientId"))
       /\ Stored("clientSecret") = SecretOf(Stored("clientId"))
       /\ platform = "node" /\ Stored("clientId") \in DynamicClients =>
            Stored("idTokenSignedResponseAlg") = clients[Stored("clientId")].alg
  /\ Stored("clientId") = Undefined => Stored("clientSecret") = Undefined

TypeFits == Stored("issuer") # Undefined /\ ~mixed => Stored("dpop") = asked.dpop

RequestFits ==
  Stored("issuer") # Undefined /\ ~mixed =>
    /\ Stored("codeVerifier") = Len(requests)
    /\ Len(requests) # 0
    /\ requests[Len(requests)] = StoredPair

RefreshTokenFits ==
  Stored("refreshToken") # Undefined =>
    /\ Stored("issuer") # Undefined
    /\ ~mixed => tokens[Stored("refreshToken")] = StoredPair

LastFits ==
  last # Undefined /\ ~mixed =>
    /\ StoredPair = last
    /\ platform = "browser" =>
         /\ Stored("idToken") # Undefined
         /\ Stored("idToken").aud = last.clientId
         /\ session.isLoggedIn => WebIdOf(Stored("idToken")) = session.webId

SessionFits ==
  /\ platform = "browser" =>
       /\ session.token = None /\ flow.kind # "fetch"
       /\ flow.kind = "redirect" => ~session.isLoggedIn
       /\ flow.step \notin {"context", "refresh"}
       /\ flow.step \in {"jwks", "profile"} => flow.kind = "redirect"
  /\ session.token # None /\ ~mixed =>
       /\ tokens[session.token].issuer = AskedIssuer
       /\ Named => tokens[session.token].clientId = asked.clientId
       /\ Readable(record) => tokens[session.token].clientId = Stored("clientId")

StatesFit ==
  platform = "browser" =>
    /\ states \subseteq {Len(requests)}
    /\ flow.step \in {"config", "register", "handle"} => states = {}

RecordFits == ClientFits /\ TypeFits /\ RequestFits /\ RefreshTokenFits
                /\ LastFits /\ SessionFits /\ StatesFit

\* The client that a login starts with.
StartFits ==
  /\ flow.step \in {"validate", "config"} /\ ~mixed =>
       /\ flow.clientId # Undefined =>
            flow.clientSecret = SecretOf(flow.clientId)
       /\ \/ flow.clientId = asked.clientId
          \/ platform = "browser" /\ Suits(flow.clientId)
          \/ /\ platform = "node" /\ flow.kind = "restore"
             /\ flow.clientId = Undefined
  /\ flow.step \in {"config", "register", "handle"}
       /\ platform = "node" /\ flow.kind = "restore" =>
          Stored("refreshToken") # Undefined
  /\ flow.step = "register" =>
       /\ Readable(record) /\ Stored("clientId") = Undefined
       /\ mixed \/ ~Named
  /\ flow.step = "validate" => platform = "browser" /\ flow.kind = "restore"
                                  /\ flow.dpop = TRUE
  /\ flow.step = "config" /\ platform = "browser" => record = NoData
  /\ flow.kind = "fetch" => flow.step \in {"context", "refresh"}

\* The client of the flow is the one stored, with its secret and algorithm.
FlowClientFits ==
  /\ flow.step \in {"handle", "refresh", "token", "jwks", "profile"} =>
       flow.client.clientId = Stored("clientId")
  /\ flow.step \in {"handle", "refresh", "token", "jwks"} /\ ~mixed =>
       /\ flow.client.clientSecret = SecretOf(flow.client.clientId)
       /\ platform = "node" /\ flow.client.clientId \in DynamicClients =>
            flow.client.idTokenSignedResponseAlg =
              clients[flow.client.clientId].alg

\* A flow that exchanges a grant has the stored issuer, and the type of tokens
\* that was asked for.
FlowContextFits ==
  /\ flow.step \in {"context", "refresh", "redirectConfig", "token", "jwks",
                    "profile"} =>
       /\ Readable(record) /\ flow.issuer = Stored("issuer")
       /\ flow.kind # "fetch" /\ ~mixed => flow.dpop = asked.dpop
  /\ flow.step \in {"config", "register", "handle"} /\ ~mixed =>
       flow.dpop = asked.dpop \/ (flow.kind = "restore" /\ platform = "node")

\* The grant that a flow exchanges.
FlowGrantFits ==
  /\ flow.step \in {"redirectConfig", "token"} =>
       flow.code \in states /\ flow.token = None
  /\ flow.step \in {"context", "refresh"} /\ ~mixed =>
       tokens[flow.token] = StoredPair
  /\ flow.step = "jwks" /\ flow.token # None =>
       tokens[flow.token] = Pair(flow.issuer, flow.client.clientId)
  /\ flow.step = "profile" =>
       platform = "browser" /\ Stored("idToken") = flow.idToken

FlowFits == StartFits /\ FlowClientFits /\ FlowContextFits /\ FlowGrantFits

DataFits == Owned /\ RecordFits /\ FlowFits

-----------------------------------------------------------------------------
(* The operators of UserStorage, on the user's data.                       *)

LEMMA Fields ==
  /\ DOMAIN FieldType =
       {"isLoggedIn", "dpop", "issuer", "clientId", "clientSecret",
        "idTokenSignedResponseAlg", "codeVerifier", "refreshToken", "idToken",
        "webId"}
  /\ FieldType["isLoggedIn"] = {TRUE} /\ FieldType["dpop"] = BOOLEAN
  /\ FieldType["issuer"] = Issuers /\ FieldType["clientId"] = ClientIds
  /\ FieldType["clientSecret"] = ClientIds
  /\ FieldType["idTokenSignedResponseAlg"] = Algs
  /\ FieldType["codeVerifier"] = Requests
  /\ FieldType["refreshToken"] = RefreshTokens
  /\ FieldType["idToken"] = IdTokenValues /\ FieldType["webId"] = WebIds
  BY DEF FieldType, Algs

LEMMA NothingIsStored ==
  /\ IsUserData(NoData) /\ Readable(NoData)
  /\ \A field : GetForUser(NoData, field) = Undefined
  BY DEF IsUserData, NoData, Readable, GetForUser

LEMMA CorruptedHasNoField ==
  /\ ~Readable(Corrupted)
  /\ \A field \in DOMAIN FieldType : GetForUser(Corrupted, field) = Undefined
  BY Fields DEF Corrupted, Readable, GetForUser

LEMMA UserDataReadable ==
  ASSUME NEW data, IsUserData(data)
  PROVE  Readable(data)
  BY Fields DEF IsUserData, Readable

\* What is read from the user's data is undefined or of the field's type.
LEMMA StoreTyped ==
  ASSUME NEW data, IsStore(data), NEW field \in DOMAIN FieldType
  PROVE  GetForUser(data, field) \in OrUndefined(FieldType[field])
  <1>1. CASE data = Corrupted
    BY <1>1, CorruptedHasNoField DEF OrUndefined
  <1>2. CASE IsUserData(data)
    BY <1>2 DEF IsUserData, GetForUser, OrUndefined
  <1> QED
    BY <1>1, <1>2 DEF IsStore

\* What is read after a write: also from data that could not be read before.
LEMMA Writes ==
  ASSUME NEW data, IsStore(data), NEW values, NEW field \in DOMAIN FieldType
  PROVE  GetForUser(SetForUser(data, values), field) =
           IF field \in DOMAIN values THEN values[field]
           ELSE GetForUser(data, field)
  <1>1. CASE data = Corrupted
    BY <1>1, CorruptedHasNoField, GetOfSet
  <1>2. CASE IsUserData(data)
    BY <1>2, UserDataReadable, GetOfSet
  <1> QED
    BY <1>1, <1>2 DEF IsStore

\* Only values of the right types are stored, and no undefined ones.
LEMMA WritesTyped ==
  ASSUME NEW data, IsStore(data), NEW values,
         DOMAIN values \subseteq DOMAIN FieldType,
         \A field \in DOMAIN values :
           values[field] \in OrUndefined(FieldType[field])
  PROVE  /\ IsUserData(SetForUser(data, values))
         /\ Readable(SetForUser(data, values))
  <1> DEFINE old == IF Readable(data) THEN data ELSE NoData
  <1>1. IsUserData(old)
    BY NothingIsStored, CorruptedHasNoField DEF IsStore
  <1> HIDE DEF old
  <1>2. IsUserData(Stringified(Merged(old, values)))
    BY <1>1 DEF IsUserData, Stringified, Merged, OrUndefined
  <1> QED
    BY <1>2, UserDataReadable DEF SetForUser, old

\* The fields of a client, when they are written over others.
LEMMA WritesOfClient ==
  ASSUME NEW data, IsStore(data), NEW client, DOMAIN client = DOMAIN NoClient
  PROVE
    /\ DOMAIN ClientFields(client) \subseteq DOMAIN NoClient
    /\ \A field \in DOMAIN ClientFields(client) :
         ClientFields(client)[field] = client[field]
    /\ \A field \in DOMAIN FieldType :
         GetForUser(SetForUser(data, ClientFields(client)), field) =
           IF /\ field \in DOMAIN NoClient
              /\ field = "clientId" \/ client[field] # Undefined
           THEN client[field] ELSE GetForUser(data, field)
  <1>1. /\ DOMAIN ClientFields(client) =
             {f \in DOMAIN NoClient : f = "clientId" \/ client[f] # Undefined}
        /\ \A field \in DOMAIN ClientFields(client) :
             ClientFields(client)[field] = client[field]
    BY DEF ClientFields
  <1> QED
    BY <1>1, Writes

LEMMA ClientTyped ==
  ASSUME NEW client, DOMAIN client = DOMAIN NoClient,
         client.clientId \in OrUndefined(ClientIds),
         client.clientSecret \in OrUndefined(ClientIds),
         client.idTokenSignedResponseAlg \in OrUndefined(Algs)
  PROVE  /\ DOMAIN ClientFields(client) \subseteq DOMAIN FieldType
         /\ \A field \in DOMAIN ClientFields(client) :
              ClientFields(client)[field] \in OrUndefined(FieldType[field])
         /\ "refreshToken" \notin DOMAIN ClientFields(client)
  <1>1. DOMAIN ClientFields(client) \subseteq
          {"clientId", "clientSecret", "idTokenSignedResponseAlg"}
    BY DEF ClientFields, NoClient
  <1>2. \A field \in DOMAIN ClientFields(client) :
          ClientFields(client)[field] = client[field]
    BY DEF ClientFields
  <1> QED
    BY <1>1, <1>2, Fields

-----------------------------------------------------------------------------
(* The names of issuers.                                                   *)

LEMMA IssuerNames ==
  /\ Issuers \subseteq IssuerUrls /\ Undefined \notin IssuerUrls
  /\ \A issuer \in Issuers : IssuerOf[issuer] = issuer
  /\ \A url \in IssuerUrls : IssuerOf[url] \in Issuers
  BY LoginAssumption

\* A configuration names the provider whose document it is, or nobody.
LEMMA DocumentNames ==
  ASSUME NEW url, NEW document \in DocumentsOf(url),
         FetchConfig(platform, document) # Undefined
  PROVE  IsDocumentOf(url, FetchConfig(platform, document))
  <1>1. "issuer" \in DOMAIN document => document["issuer"] = IssuerOf[url]
    BY DEF DocumentsOf, Merged, NoData
  <1>2. FetchConfig(platform, document) = ProcessConfig(document)
    BY DEF FetchConfig, ConfigFromIssuerMetadata
  <1> QED
    BY <1>1, <1>2 DEF ProcessConfig, NamedIssuer, IsDocumentOf

\* What is kept of it to check an ID token.
LEMMA NeededNames ==
  ASSUME NEW config, NextStep # "handle"
  PROVE  NamedIssuer(Needed(config)) = NamedIssuer(config)
  BY DEF Needed, NamedIssuer

-----------------------------------------------------------------------------
(* The types.                                                              *)

LEMMA OverTyped ==
  ASSUME flow' = NoFlow
  PROVE  FlowTyped' /\ FlowStepped'
  BY DEF FlowTyped, FlowStepped, NoFlow, NoClient, OrUndefined

\* Nothing but the flow and the stored data changes.
LEMMA RestTyped ==
  ASSUME ProviderTyped, HistoryTyped,
         UNCHANGED <<clients, requests, tokens, asked, mixed>>,
         last' \in {Undefined} \cup Grants,
         flow.step # "none" \/ record # NoData,
         live' \subseteq live, open' \subseteq open, states' \subseteq states
  PROVE  ProviderTyped' /\ HistoryTyped'
  BY DEF ProviderTyped, HistoryTyped, NoFlow

LEMMA InitTypes == Init => Types
  <1> SUFFICES ASSUME Init PROVE Types
    OBVIOUS
  <1>1. FlowTyped /\ FlowStepped
    BY DEF Init, FlowTyped, FlowStepped, NoFlow, NoClient, OrUndefined
  <1>2. /\ requests \in Seq(Grants) /\ tokens \in Seq(Grants)
        /\ Len(requests) = 0 /\ Len(tokens) = 0 /\ Len(clients) = 0
    BY DEF Init
  <1>3. ProviderTyped
    BY <1>2, LoginAssumption DEF Init, ProviderTyped
  <1>4. StorageTyped
    BY NothingIsStored DEF Init, StorageTyped, Stored, NewSession
  <1>5. HistoryTyped
    BY DEF Init, HistoryTyped
  <1> QED
    BY <1>1, <1>3, <1>4, <1>5 DEF Types

\* The fields of the record, by their types.
LEMMA StoredTyped ==
  ASSUME StorageTyped
  PROVE  /\ IsStore(record)
         /\ Stored("issuer") \in OrUndefined(Issuers)
         /\ Stored("dpop") \in OrUndefined(BOOLEAN)
         /\ Stored("clientId") \in OrUndefined(ClientIds)
         /\ Stored("clientSecret") \in OrUndefined(ClientIds)
         /\ Stored("idTokenSignedResponseAlg") \in OrUndefined(Algs)
         /\ Stored("codeVerifier") \in OrUndefined(Requests)
         /\ Stored("idToken") \in OrUndefined(IdTokenValues)
  <1>1. IsStore(record)
    BY DEF StorageTyped, IsStore
  <1> QED
    BY <1>1, StoreTyped, Fields DEF Stored

\* What every step does to the stored data and the session.
LEMMA StorageKept ==
  ASSUME StorageTyped, UNCHANGED <<platform, record, memory, session>>,
         DOMAIN tokens \subseteq DOMAIN tokens'
  PROVE  StorageTyped'
  BY DEF StorageTyped, Stored

LEMMA StorageWritten ==
  ASSUME StorageTyped, NEW values,
         record' = SetForUser(record, values), UNCHANGED platform,
         IsUserData(memory)', platform = "node" => memory' = NoData,
         session' \in [isLoggedIn : BOOLEAN, dpop : BOOLEAN,
                       webId : {Undefined} \cup WebIds,
                       token : {None} \cup DOMAIN tokens'],
         DOMAIN values \subseteq DOMAIN FieldType,
         \A field \in DOMAIN values :
           values[field] \in OrUndefined(FieldType[field]),
         DOMAIN tokens \subseteq DOMAIN tokens',
         "refreshToken" \in DOMAIN values =>
           values["refreshToken"] \in {Undefined} \cup DOMAIN tokens'
  PROVE  StorageTyped'
  <1>1. IsUserData(record)'
    BY StoredTyped, WritesTyped
  <1>2. Stored("refreshToken")' \in {Undefined} \cup DOMAIN tokens'
    BY StoredTyped, Writes, Fields DEF Stored, StorageTyped
  <1> QED
    BY <1>1, <1>2 DEF StorageTyped

LEMMA FlowStarts ==
  ASSUME NEW f, DOMAIN f = DOMAIN NoFlow, flow' = f,
         f.kind \in {"login", "fetch", "restore"},
         f.step \in {"config", "validate", "context"},
         f.issuer \in Issuers \/ (f.step = "config" /\ f.issuer \in IssuerUrls),
         f.clientId \in OrUndefined(ClientIds),
         f.clientSecret \in OrUndefined(ClientIds), f.dpop \in BOOLEAN,
         f.client = NoClient, f.code = None,
         f.token \in {None} \cup DOMAIN tokens',
         f.step = "context" => f.token # None,
         f.idToken \in OrUndefined(IdTokenValues)
  PROVE  FlowTyped' /\ FlowStepped'
  BY IssuerNames DEF FlowTyped, FlowStepped, NoClient, OrUndefined

LEMMA LoginTyped ==
  ASSUME Types, NEW options \in Options, Login(options)
  PROVE  Types'
  <1>0. /\ FlowTyped /\ ProviderTyped /\ StorageTyped /\ HistoryTyped
        /\ options \in LoginOptions /\ asked' = options
        /\ UNCHANGED <<platform, session, requests, open, clients, tokens, live>>
    BY LoginAssumption DEF Types, Login, provider
  <1>1. FlowTyped' /\ FlowStepped'
    <2>1. /\ options.issuer \in IssuerUrls /\ options.dpop \in BOOLEAN
          /\ options.clientId \in OrUndefined(ClientIds)
      BY <1>0 DEF LoginOptions, ClientIds, OrUndefined
    <2>2. /\ DOMAIN flow' = DOMAIN NoFlow /\ flow'.kind = "login"
          /\ flow'.step = "config" /\ flow'.issuer = options.issuer
          /\ flow'.clientId = options.clientId /\ flow'.dpop = options.dpop
          /\ flow'.clientSecret \in {OwnClient, Undefined}
          /\ flow'.client = NoClient /\ flow'.code = None
          /\ flow'.token = None /\ flow'.idToken = Undefined
      BY DEF Login, StartLogin, NoFlow
    <2> QED
      BY <2>1, <2>2, FlowStarts DEF ClientIds, OrUndefined
  <1>2. ProviderTyped'
    BY <1>0 DEF ProviderTyped, Login, StartLogin
  <1>3. StorageTyped'
    <2>1. \/ record' = NoData /\ memory' = NoData
          \/ UNCHANGED <<record, memory>>
      BY DEF Login, StartLogin
    <2> QED
      BY <1>0, <2>1, NothingIsStored DEF StorageTyped, Stored
  <1>4. HistoryTyped'
    BY <1>0 DEF HistoryTyped, Login
  <1> QED
    BY <1>1, <1>2, <1>3, <1>4 DEF Types

LEMMA LogoutTyped ==
  ASSUME Types, Logout
  PROVE  Types'
  <1>1. FlowTyped' /\ FlowStepped'
    BY OverTyped DEF Logout
  <1>2. ProviderTyped'
    BY DEF Types, ProviderTyped, Logout, provider
  <1>3. StorageTyped'
    BY NothingIsStored DEF Types, StorageTyped, Stored, Logout, NewSession
  <1>4. HistoryTyped'
    BY DEF HistoryTyped, Logout
  <1> QED
    BY <1>1, <1>2, <1>3, <1>4 DEF Types

LEMMA FetchRefusedTyped ==
  ASSUME Types, FetchRefused
  PROVE  Types'
  <1>0. /\ StorageTyped /\ ProviderTyped /\ HistoryTyped
        /\ UNCHANGED <<platform, record, memory, states, session, provider,
                       history>>
    BY DEF Types, FetchRefused
  <1>1. FlowTyped' /\ FlowStepped'
    <2>1. /\ Stored("issuer") \in Issuers /\ session.dpop \in BOOLEAN
          /\ session.token \in DOMAIN tokens /\ session.token # None
          /\ UNCHANGED tokens
      BY <1>0, StoredTyped DEF FetchRefused, HasLoginContext, StorageTyped,
        OrUndefined, provider
    <2>2. /\ DOMAIN flow' = DOMAIN NoFlow /\ flow'.kind = "fetch"
          /\ flow'.step = "context" /\ flow'.issuer = Stored("issuer")
          /\ flow'.clientId = Undefined /\ flow'.dpop = session.dpop
          /\ flow'.clientSecret = Undefined
          /\ flow'.client = NoClient /\ flow'.code = None
          /\ flow'.token = session.token /\ flow'.idToken = Undefined
      BY DEF FetchRefused, NoFlow
    <2> QED
      BY <2>1, <2>2, FlowStarts DEF OrUndefined
  <1>2. record # NoData
    BY NothingIsStored DEF FetchRefused, HasLoginContext, Stored
  <1>3. ProviderTyped' /\ HistoryTyped' /\ StorageTyped'
    BY <1>0, <1>2, StorageKept DEF provider, history, ProviderTyped,
      HistoryTyped
  <1> QED
    BY <1>1, <1>3 DEF Types

LEMMA RestoreTyped ==
  ASSUME Types, Restore
  PROVE  Types'
  <1>0. /\ StorageTyped /\ ProviderTyped /\ HistoryTyped
        /\ UNCHANGED <<platform, record, memory, states, session, provider,
                       history>>
        /\ Stored("issuer") \in Issuers
    BY StoredTyped DEF Types, Restore, Restorable, OrUndefined
  <1>1. FlowTyped' /\ FlowStepped'
    <2>1. /\ DOMAIN flow' = DOMAIN NoFlow /\ flow'.kind = "restore"
          /\ flow'.step \in {"validate", "config"}
          /\ flow'.issuer = Stored("issuer") /\ flow'.dpop = TRUE
          /\ flow'.client = NoClient /\ flow'.code = None
          /\ flow'.token = None
          /\ flow'.clientId \in {Undefined, Stored("clientId")}
          /\ flow'.clientSecret \in {Undefined, Stored("clientSecret")}
          /\ flow'.idToken \in {Undefined, Stored("idToken")}
      BY DEF Restore, RestoredFlow, NoFlow
    <2> QED
      BY <1>0, <2>1, StoredTyped, FlowStarts DEF OrUndefined
  <1>2. record # NoData
    BY NothingIsStored DEF Restore, Restorable, Stored
  <1>3. ProviderTyped' /\ HistoryTyped' /\ StorageTyped'
    BY <1>0, <1>2, StorageKept DEF provider, history, ProviderTyped,
      HistoryTyped
  <1> QED
    BY <1>1, <1>3 DEF Types

LEMMA ValidatedTyped ==
  ASSUME IInv, Types, NEW current, CurrentSessionValidated(current)
  PROVE  Types'
  <1>0. /\ StorageTyped /\ ProviderTyped /\ HistoryTyped /\ FlowTyped
        /\ FlowStepped /\ flow.step = "validate"
        /\ UNCHANGED <<platform, session, provider, mixed>>
    BY DEF Types, CurrentSessionValidated, Awaits
  <1>1. CASE Throw /\ UNCHANGED <<record, memory, states, asked, last>>
    <2>1. FlowTyped' /\ FlowStepped'
      BY <1>1, OverTyped DEF Throw
    <2>2. ProviderTyped' /\ HistoryTyped' /\ StorageTyped'
      BY <1>0, <1>1, StorageKept DEF provider, ProviderTyped, HistoryTyped,
        NoFlow
    <2> QED
      BY <2>1, <2>2 DEF Types
  <1>2. CASE /\ StartLogin([flow EXCEPT !.step = "config", !.idToken = Undefined])
             /\ asked' = [asked EXCEPT !.dpop = TRUE]
             /\ last' = Undefined
    <2>1. /\ flow.kind # "redirect" /\ flow.token = None
          /\ DOMAIN flow = DOMAIN NoFlow
      BY <1>0 DEF IInv, StartsAsLogin, Shapes
    <2>2. FlowTyped' /\ FlowStepped'
      <3>1. flow' = [flow EXCEPT !.step = "config", !.idToken = Undefined]
        BY <1>2 DEF StartLogin
      <3>2. /\ flow'.kind = flow.kind /\ flow'.step = "config"
            /\ flow'.issuer = flow.issuer
            /\ flow'.clientId = flow.clientId
            /\ flow'.clientSecret = flow.clientSecret
            /\ flow'.dpop = flow.dpop /\ flow'.client = flow.client
            /\ flow'.code = flow.code /\ flow'.token = flow.token
            /\ flow'.idToken = Undefined
        BY <2>1, <3>1 DEF NoFlow
      <3> QED
        BY <1>0, <2>1, <3>2 DEF FlowTyped, FlowStepped, OrUndefined, provider
    <2>3. ProviderTyped'
      BY <1>0, <1>2 DEF ProviderTyped, StartLogin, provider
    <2>4. StorageTyped'
      <3>1. \/ record' = NoData /\ memory' = NoData
            \/ UNCHANGED <<record, memory>>
        BY <1>2 DEF StartLogin
      <3> QED
        BY <1>0, <3>1, NothingIsStored DEF StorageTyped, Stored, provider
    <2>5. HistoryTyped'
      <3>1. asked \in LoginOptions
        BY <1>0 DEF HistoryTyped, NoFlow
      <3>2. asked' \in LoginOptions
        BY <1>2, <3>1 DEF LoginOptions
      <3> QED
        BY <1>0, <1>2, <3>2 DEF HistoryTyped
    <2> QED
      BY <2>2, <2>3, <2>4, <2>5 DEF Types
  <1> QED
    BY <1>1, <1>2 DEF CurrentSessionValidated

LEMMA StepAfterClient ==
  ASSUME StartsAsLogin, FlowStepped
  PROVE  /\ flow.step \in {"config", "register"} => NextStep = "handle"
         /\ flow.step = "context" => NextStep = "refresh"
         /\ flow.step = "redirectConfig" => NextStep = "token"
  BY DEF StartsAsLogin, FlowStepped, NextStep

\* A step that gives the flow a client.
LEMMA ClientGivenTyped ==
  ASSUME IInv, Types, NEW client, NEW config, Onward(config, client),
         IsDocumentOf(flow.issuer, config),
         UNCHANGED <<requests, tokens>>,
         flow.step \in {"config", "register", "context", "redirectConfig"},
         client.clientId \in OrUndefined(ClientIds),
         client.clientSecret \in OrUndefined(ClientIds),
         client.idTokenSignedResponseAlg \in OrUndefined(Algs)
  PROVE  FlowTyped' /\ FlowStepped'
  <1>0. /\ FlowTyped /\ FlowStepped /\ StartsAsLogin
        /\ DOMAIN flow = DOMAIN NoFlow
    BY DEF Types, IInv, Shapes
  <1>1. SUFFICES ASSUME flow' # NoFlow
                 PROVE  FlowTyped' /\ FlowStepped'
    BY OverTyped
  <1>2. /\ flow'.kind = flow.kind /\ flow'.step = NextStep
        /\ flow'.clientId = flow.clientId
        /\ flow'.clientSecret = flow.clientSecret
        /\ flow'.dpop = flow.dpop /\ flow'.client = client
        /\ flow'.code = flow.code /\ flow'.token = flow.token
        /\ flow'.idToken = flow.idToken
        /\ flow'.config = Needed(config) /\ flow'.issuer # Undefined
        /\ flow'.issuer = IF NextStep = "handle" THEN NamedIssuer(config)
                                                ELSE flow.issuer
    BY <1>0, <1>1, OnwardDoes
  <1>3. /\ flow.step \in {"config", "register"} => NextStep = "handle"
        /\ flow.step = "context" => NextStep = "refresh"
        /\ flow.step = "redirectConfig" => NextStep = "token"
    BY <1>0, StepAfterClient
  <1>4. flow.issuer \in IssuerUrls
    BY <1>0 DEF FlowStepped
  <1>5. flow'.issuer \in Issuers
    BY <1>0, <1>2, <1>3, <1>4, IssuerNames DEF FlowStepped, IsDocumentOf
  <1>6. NextStep # "handle" =>
          flow'.issuer = flow.issuer /\ IsDocumentOf(flow.issuer, flow'.config)
    BY <1>2, NeededNames DEF IsDocumentOf
  <1>7. FlowTyped'
    BY <1>0, <1>2, <1>5, IssuerNames DEF FlowTyped, OrUndefined
  <1>8. NextStep # "handle" => IsDocumentOf(flow'.issuer, flow'.config)
    BY <1>6 DEF IsDocumentOf
  <1>9. FlowStepped'
    BY <1>0, <1>2, <1>3, <1>5, <1>8, IssuerNames DEF FlowStepped,
      StartsAsLogin, IsDocumentOf
  <1> QED
    BY <1>7, <1>9

LEMMA GetClientTyped ==
  ASSUME IInv, Types, NEW config, GetClient(config),
         IsDocumentOf(flow.issuer, config),
         UNCHANGED <<platform, requests, tokens>>,
         flow.step \in {"config", "context", "redirectConfig"}
  PROVE  FlowTyped' /\ FlowStepped'
  <1>0. /\ FlowTyped /\ FlowStepped /\ StorageTyped
        /\ DOMAIN flow = DOMAIN NoFlow
    BY DEF Types, IInv, Shapes
  <1>1. CASE flow' = NoFlow
    BY <1>1, OverTyped
  <1>2. CASE Onward(config, StoredClient(platform, record))
    <2> DEFINE client == StoredClient(platform, record)
    <2>1. /\ client.clientId \in OrUndefined(ClientIds)
          /\ client.clientSecret \in OrUndefined(ClientIds)
          /\ client.idTokenSignedResponseAlg \in OrUndefined(Algs)
      BY <1>0, StoredTyped DEF StoredClient, Stored, OrUndefined
    <2>2. Onward(config, client)
      BY <1>2
    <2> HIDE DEF client
    <2> QED
      BY <2>1, <2>2, ClientGivenTyped
  <1>3. CASE /\ flow' = [flow EXCEPT !.step = "register", !.config = config]
             /\ Readable(record) /\ ~HasStoredClient(record)
             /\ MayRegister(platform, config)
    <2>1. flow.step = "config"
      BY <1>3 DEF IInv, ClientIsStored, HasStoredClient, Stored
    <2>2. /\ flow'.kind = flow.kind /\ flow'.step = "register"
          /\ flow'.issuer = flow.issuer /\ flow'.clientId = flow.clientId
          /\ flow'.clientSecret = flow.clientSecret
          /\ flow'.dpop = flow.dpop /\ flow'.client = flow.client
          /\ flow'.code = flow.code /\ flow'.token = flow.token
          /\ flow'.idToken = flow.idToken /\ flow'.config = config
      BY <1>0, <1>3 DEF NoFlow
    <2>3. platform = "node" => CanNegotiate(config)
      BY <1>3 DEF MayRegister
    <2>4. IsDocumentOf(flow.issuer, config)'
      BY <2>2 DEF IsDocumentOf
    <2> QED
      BY <1>0, <2>1, <2>2, <2>3, <2>4 DEF FlowTyped, FlowStepped, IsDocumentOf
  <1> QED
    BY <1>1, <1>2, <1>3 DEF GetClient, Throw

\* A step that changes nothing but the flow.
LEMMA FlowOnlyTyped ==
  ASSUME Types, flow.step # "none",
         UNCHANGED <<platform, record, memory, states, session, provider, history>>
  PROVE  ProviderTyped' /\ HistoryTyped' /\ StorageTyped'
  BY StorageKept DEF Types, provider, history, ProviderTyped, HistoryTyped,
    NoFlow

\* A step that only writes to the record, beside the flow.
LEMMA RecordOnlyTyped ==
  ASSUME Types, flow.step # "none", NEW values,
         record' = SetForUser(record, values),
         UNCHANGED <<platform, memory, states, session, requests, open, tokens,
                     live, asked, mixed>>,
         last' \in {Undefined} \cup Grants, Len(clients') <= MaxClients,
         DOMAIN values \subseteq DOMAIN FieldType,
         \A field \in DOMAIN values :
           values[field] \in OrUndefined(FieldType[field]),
         "refreshToken" \in DOMAIN values =>
           values["refreshToken"] \in {Undefined} \cup DOMAIN tokens
  PROVE  ProviderTyped' /\ HistoryTyped' /\ StorageTyped'
  <1>0. ProviderTyped /\ StorageTyped /\ HistoryTyped
    BY DEF Types
  <1>1. ProviderTyped'
    BY <1>0 DEF ProviderTyped
  <1>2. HistoryTyped'
    BY <1>0 DEF HistoryTyped, NoFlow
  <1>3. /\ IsUserData(memory)' /\ (platform = "node" => memory' = NoData)
        /\ session' \in [isLoggedIn : BOOLEAN, dpop : BOOLEAN,
                         webId : {Undefined} \cup WebIds,
                         token : {None} \cup DOMAIN tokens']
    BY <1>0 DEF StorageTyped
  <1>4. StorageTyped'
    BY <1>0, <1>3, StorageWritten
  <1> QED
    BY <1>1, <1>2, <1>4

LEMMA ConfigFetchedTyped ==
  ASSUME IInv, Types, ConfigFetched
  PROVE  Types'
  <1>0. /\ FlowTyped /\ flow.step = "config" /\ DOMAIN flow = DOMAIN NoFlow
        /\ UNCHANGED <<platform, memory, states, session, provider, history>>
    BY DEF Types, IInv, Shapes, ConfigFetched, Awaits
  <1>1. PICK document \in DocumentsOf(flow.issuer) :
          LET config == FetchConfig(platform, document)
              given == GivenClient(flow.clientId, flow.clientSecret)
          IN IF config = Undefined THEN Throw /\ UNCHANGED record
             ELSE IF NeedsRegistration(flow.clientId, config)
               THEN GetClient(config) /\ UNCHANGED record
               ELSE /\ record' = SetForUser(record, ClientFields(given))
                    /\ Onward(config, given)
    BY DEF ConfigFetched
  <1> DEFINE config == FetchConfig(platform, document)
             given == GivenClient(flow.clientId, flow.clientSecret)
  <1> HIDE DEF config
  <1>2. CASE Throw /\ UNCHANGED record
    BY <1>0, <1>2, OverTyped, FlowOnlyTyped DEF Throw, Types
  <1>3. CASE config # Undefined /\ GetClient(config) /\ UNCHANGED record
    <2>1. IsDocumentOf(flow.issuer, config)
      BY <1>3, DocumentNames DEF config
    <2> QED
      BY <1>0, <1>3, <2>1, GetClientTyped, FlowOnlyTyped DEF Types, provider
  <1>4. CASE /\ config # Undefined
             /\ record' = SetForUser(record, ClientFields(given))
             /\ Onward(config, given)
    <2>1. /\ DOMAIN given = DOMAIN NoClient
          /\ given.clientId \in OrUndefined(ClientIds)
          /\ given.clientSecret \in OrUndefined(ClientIds)
          /\ given.idTokenSignedResponseAlg \in OrUndefined(Algs)
      BY <1>0 DEF GivenClient, NoClient, FlowTyped, OrUndefined
    <2> HIDE DEF given
    <2>2. IsDocumentOf(flow.issuer, config)
      BY <1>4, DocumentNames DEF config
    <2>3. FlowTyped' /\ FlowStepped'
      BY <1>0, <1>4, <2>1, <2>2, ClientGivenTyped DEF provider
    <2>4. /\ DOMAIN ClientFields(given) \subseteq DOMAIN FieldType
          /\ \A field \in DOMAIN ClientFields(given) :
               ClientFields(given)[field] \in OrUndefined(FieldType[field])
          /\ "refreshToken" \notin DOMAIN ClientFields(given)
      BY <2>1, ClientTyped
    <2>5. ProviderTyped' /\ HistoryTyped' /\ StorageTyped'
      BY <1>0, <1>4, <2>4, RecordOnlyTyped DEF provider, history, Types,
        ProviderTyped, HistoryTyped
    <2> QED
      BY <2>3, <2>5 DEF Types
  <1> QED
    BY <1>1, <1>2, <1>3, <1>4 DEF config

\* The algorithm that a registration asks for.
LEMMA AskedAlg ==
  ASSUME NEW config
  PROVE  SigningAlg(config) \in Algs \cup {NoAlg}
  <1> DEFINE supported == config["id_token_signing_alg_values_supported"]
             IsFirst(i) == /\ PREFERRED_SIGNING_ALG[i] \in supported
                           /\ \A j \in 1..(i - 1) :
                                PREFERRED_SIGNING_ALG[j] \notin supported
  <1> HIDE DEF supported
  <1>1. DOMAIN PREFERRED_SIGNING_ALG = {1, 2}
    BY DEF PREFERRED_SIGNING_ALG
  <1>2. CASE \A i \in {1, 2} : PREFERRED_SIGNING_ALG[i] \notin supported
    BY <1>1, <1>2 DEF SigningAlg, DetermineSigningAlg, supported
  <1>3. CASE \E i \in {1, 2} : PREFERRED_SIGNING_ALG[i] \in supported
    <2>1. IsFirst(1) \/ IsFirst(2)
      BY <1>3
    <2> HIDE DEF IsFirst
    <2>2. (CHOOSE i \in {1, 2} : IsFirst(i)) \in {1, 2}
      BY <2>1
    <2>3. PREFERRED_SIGNING_ALG[CHOOSE i \in {1, 2} : IsFirst(i)] \in Algs
      BY <1>1, <2>2 DEF Algs
    <2> QED
      BY <1>1, <1>3, <2>3 DEF SigningAlg, DetermineSigningAlg, supported, IsFirst
  <1> QED
    BY <1>2, <1>3

LEMMA ClientRegisteredTyped ==
  ASSUME IInv, Types, NEW response, ClientRegistered(response)
  PROVE  Types'
  <1>0. /\ FlowTyped /\ FlowStepped /\ ProviderTyped /\ HistoryTyped
        /\ flow.step = "register" /\ Len(clients) < MaxClients
        /\ UNCHANGED <<platform, memory, states, session, requests, open,
                       tokens, live, history>>
    BY DEF Types, ClientRegistered, Awaits
  <1> DEFINE clientId == Len(clients) + 1
             asks == SigningAlg(flow.config)
  <1>1. CASE Throw /\ UNCHANGED <<record, clients>>
    BY <1>0, <1>1, OverTyped, FlowOnlyTyped DEF Throw, Types, provider
  <1>2. ASSUME NEW secret \in BOOLEAN, NEW answer \in {asks, Undefined} \ {NoAlg},
               clients' = Append(clients,
                 [issuer |-> IssuerOf[flow.issuer], secret |-> secret,
                  alg |-> asks]),
               record' = SetForUser(record, ClientFields(
                 [clientId |-> clientId,
                  clientSecret |-> IF secret THEN clientId ELSE Undefined,
                  idTokenSignedResponseAlg |->
                    RegisteredAlg(platform, asks, answer)])),
               Onward(flow.config,
                 [clientId |-> clientId,
                  clientSecret |-> IF secret THEN clientId ELSE Undefined,
                  idTokenSignedResponseAlg |->
                    RegisteredAlg(platform, asks, answer)])
        PROVE  Types'
    <2> DEFINE client == [clientId |-> clientId,
                 clientSecret |-> IF secret THEN clientId ELSE Undefined,
                 idTokenSignedResponseAlg |->
                   RegisteredAlg(platform, asks, answer)]
    <2>1. PICK S : clients \in Seq(S)
      BY DEF IInv, Shapes
    <2>2. clientId \in ClientIds /\ Len(clients') <= MaxClients
      BY <1>0, <1>2, <2>1, LoginAssumption DEF ClientIds, DynamicClients
    <2>3. RegisteredAlg(platform, asks, answer) \in OrUndefined(Algs)
      <3>1. asks \in Algs \cup {NoAlg}
        BY AskedAlg
      <3>2. platform = "node" => asks # NoAlg
        BY <1>0 DEF FlowStepped, CanNegotiate
      <3> HIDE DEF asks
      <3> QED
        BY <1>2, <3>1, <3>2 DEF RegisteredAlg, OrUndefined
    <2>4. /\ DOMAIN client = DOMAIN NoClient
          /\ client.clientId \in OrUndefined(ClientIds)
          /\ client.clientSecret \in OrUndefined(ClientIds)
          /\ client.idTokenSignedResponseAlg \in OrUndefined(Algs)
      BY <2>2, <2>3 DEF NoClient, OrUndefined
    <2>5. /\ record' = SetForUser(record, ClientFields(client))
          /\ Onward(flow.config, client)
      BY <1>2
    <2> HIDE DEF client
    <2>6. FlowTyped' /\ FlowStepped'
      BY <1>0, <2>4, <2>5, ClientGivenTyped DEF FlowStepped
    <2>7. ProviderTyped' /\ HistoryTyped' /\ StorageTyped'
      BY <1>0, <2>2, <2>4, <2>5, ClientTyped, RecordOnlyTyped DEF history,
        HistoryTyped
    <2> QED
      BY <2>6, <2>7 DEF Types
  <1> QED
    BY <1>1, <1>2 DEF ClientRegistered

LEMMA ContextTyped ==
  ASSUME IInv, Types, RefreshContextLoaded \/ RedirectConfigFetched
  PROVE  Types'
  <1>0. /\ flow.step \in {"context", "redirectConfig"}
        /\ UNCHANGED <<platform, record, memory, states, session, provider,
                       history>>
    BY DEF RefreshContextLoaded, RedirectConfigFetched, Awaits
  <1>1. FlowTyped' /\ FlowStepped'
    <2>1. CASE Throw
      BY <2>1, OverTyped DEF Throw
    <2>2. ASSUME NEW document \in DocumentsOf(flow.issuer),
                 FetchConfig(platform, document) # Undefined,
                 GetClient(FetchConfig(platform, document))
          PROVE  FlowTyped' /\ FlowStepped'
      <3> DEFINE config == FetchConfig(platform, document)
      <3>1. IsDocumentOf(flow.issuer, config)
        BY <2>2, DocumentNames
      <3> HIDE DEF config
      <3>2. GetClient(config)
        BY <2>2 DEF config
      <3> QED
        BY <1>0, <3>1, <3>2, GetClientTyped DEF provider
    <2> QED
      BY <2>1, <2>2 DEF RefreshContextLoaded, RedirectConfigFetched
  <1> QED
    BY <1>0, <1>1, FlowOnlyTyped DEF Types

\* What the provider asserts is an ID token, whatever is wrong with it.
LEMMA IdTokensTyped ==
  ASSUME flow.issuer \in Issuers, flow.client.clientId \in ClientIds
  PROVE  IdTokens \subseteq IdTokenValues
  <1>1. IdToken(flow.issuer, flow.client.clientId) \in IdTokenValues
    BY LoginAssumption DEF IdToken, IdTokenValues
  <1> QED
    BY <1>1 DEF IdTokens, IdTokenValues, ClientIds

\* A refresh token, with its grant, is added to those there are.
LEMMA AppendGrant ==
  ASSUME NEW s \in Seq(Grants), NEW grant \in Grants, NEW s1,
         s1 = Append(s, grant)
  PROVE  /\ s1 \in Seq(Grants) /\ Len(s1) = Len(s) + 1
         /\ DOMAIN s1 = DOMAIN s \cup {Len(s) + 1}
         /\ \A i \in DOMAIN s : s1[i] = s[i]
         /\ s1[Len(s) + 1] = grant
         /\ Len(s) + 1 # 0
  OBVIOUS

\* What happens to the tokens when some are obtained.
LEMMA TokensGrow ==
  ASSUME IInv, Types, NEW response, NEW fresh \in BOOLEAN,
         TokensObtained(response, fresh), NEW token,
         token = IF fresh THEN Len(tokens) + 1 ELSE flow.token
  PROVE  /\ flow.step \in {"token", "refresh"}
         /\ Pair(flow.issuer, flow.client.clientId) \in Grants
         /\ tokens' \in Seq(Grants) /\ Len(tokens') <= MaxTokens
         /\ live' \subseteq DOMAIN tokens'
         /\ DOMAIN tokens \subseteq DOMAIN tokens'
         /\ \A k \in DOMAIN tokens : tokens'[k] = tokens[k]
         /\ token \in {None} \cup DOMAIN tokens'
         /\ fresh => /\ token \in DOMAIN tokens' /\ token # None
                     /\ tokens'[token] = Pair(flow.issuer, flow.client.clientId)
  <1> DEFINE grant == Pair(flow.issuer, flow.client.clientId)
  <1>0. /\ FlowTyped /\ FlowStepped /\ ProviderTyped
        /\ flow.step \in {"token", "refresh"}
    BY DEF Types, TokensObtained, Accepted, Awaits
  <1>1. grant \in Grants
    <2>1. flow.issuer \in Issuers
      BY <1>0 DEF FlowStepped
    <2>2. flow.client.clientId \in ClientIds
      BY <1>0 DEF IInv, FlowHasClient, FlowTyped, OrUndefined
    <2> QED
      BY <2>1, <2>2 DEF Grants, Pair
  <1>2. CASE ~fresh
    BY <1>0, <1>1, <1>2 DEF TokensObtained, ProviderTyped, FlowTyped
  <1>3. CASE fresh
    <2>1. /\ tokens' = Append(tokens, grant) /\ Len(tokens) < MaxTokens
          /\ live' = (live \ {flow.token}) \cup {token}
      BY <1>3 DEF TokensObtained, Pair
    <2> HIDE DEF grant
    <2>2. /\ tokens' \in Seq(Grants) /\ Len(tokens') = Len(tokens) + 1
          /\ DOMAIN tokens' = DOMAIN tokens \cup {Len(tokens) + 1}
          /\ \A k \in DOMAIN tokens : tokens'[k] = tokens[k]
          /\ tokens'[Len(tokens) + 1] = grant
          /\ Len(tokens) + 1 # 0
      BY <1>0, <1>1, <2>1, AppendGrant DEF ProviderTyped
    <2>3. Len(tokens') <= MaxTokens
      BY <1>0, <2>1, <2>2, LoginAssumption DEF ProviderTyped
    <2> QED
      BY <1>0, <1>1, <1>3, <2>1, <2>2, <2>3 DEF ProviderTyped, None, grant
  <1> QED
    BY <1>2, <1>3

LEMMA TokensObtainedTyped ==
  ASSUME IInv, Types, NEW response, NEW fresh \in BOOLEAN,
         TokensObtained(response, fresh)
  PROVE  Types'
  <1> DEFINE token == IF fresh THEN Len(tokens) + 1 ELSE flow.token
  <1>0. /\ FlowTyped /\ FlowStepped /\ ProviderTyped /\ StorageTyped
        /\ HistoryTyped /\ DOMAIN flow = DOMAIN NoFlow
        /\ UNCHANGED <<platform, memory, states, requests, open, clients, history>>
    BY DEF Types, IInv, Shapes, TokensObtained
  <1>1. /\ flow.step \in {"token", "refresh"}
        /\ Pair(flow.issuer, flow.client.clientId) \in Grants
        /\ tokens' \in Seq(Grants) /\ Len(tokens') <= MaxTokens
        /\ live' \subseteq DOMAIN tokens'
        /\ DOMAIN tokens \subseteq DOMAIN tokens'
        /\ token \in {None} \cup DOMAIN tokens'
        /\ fresh => token \in DOMAIN tokens' /\ token # None
    BY TokensGrow
  <1>2. ProviderTyped'
    BY <1>0, <1>1 DEF ProviderTyped
  <1>3. HistoryTyped'
    BY <1>0, <1>1 DEF HistoryTyped, history, NoFlow
  <1>4. FlowTyped' /\ FlowStepped'
    <2>1. CASE Throw
      BY <2>1, OverTyped DEF Throw
    <2>2. ASSUME NEW idToken \in IdTokens,
                 flow' = [flow EXCEPT !.step = "jwks", !.token = token,
                                      !.idToken = idToken]
          PROVE  FlowTyped' /\ FlowStepped'
      <3>1. idToken \in IdTokenValues
        BY <1>1, <2>2, IdTokensTyped DEF Grants, Pair
      <3> HIDE DEF token
      <3>2. /\ flow'.kind = flow.kind /\ flow'.step = "jwks"
            /\ flow'.issuer = flow.issuer /\ flow'.clientId = flow.clientId
            /\ flow'.clientSecret = flow.clientSecret
            /\ flow'.dpop = flow.dpop /\ flow'.client = flow.client
            /\ flow'.code = flow.code /\ flow'.token = token
            /\ flow'.idToken = idToken /\ flow'.config = flow.config
        BY <1>0, <2>2 DEF NoFlow
      <3>3. FlowTyped'
        BY <1>0, <1>1, <3>1, <3>2 DEF FlowTyped, OrUndefined
      <3>4. flow.kind = "redirect" \/ token # None
        BY <1>0, <1>1 DEF FlowStepped, token
      <3> QED
        BY <1>0, <1>1, <3>1, <3>2, <3>3, <3>4 DEF FlowStepped, IsDocumentOf
    <2> QED
      BY <2>1, <2>2 DEF TokensObtained
  <1>5. StorageTyped'
    <2> HIDE DEF token
    <2>1. session' \in [isLoggedIn : BOOLEAN, dpop : BOOLEAN,
                        webId : {Undefined} \cup WebIds,
                        token : {None} \cup DOMAIN tokens']
      <3>1. session' = session \/ session' = [session EXCEPT !.token = token]
        BY DEF TokensObtained, token
      <3> QED
        BY <1>0, <1>1, <3>1 DEF StorageTyped
    <2>2. CASE record' = record
      BY <1>0, <1>1, <2>1, <2>2 DEF StorageTyped, Stored
    <2>3. CASE fresh /\ record' = SetForUser(record, [refreshToken |-> token])
      <3> DEFINE values == [refreshToken |-> token]
      <3>1. /\ DOMAIN values = {"refreshToken"}
            /\ values["refreshToken"] = token
        OBVIOUS
      <3>2. token \in RefreshTokens
        BY <1>1, <2>3, LoginAssumption DEF RefreshTokens
      <3> HIDE DEF values
      <3>3. \A field \in DOMAIN values :
              values[field] \in OrUndefined(FieldType[field])
        BY <3>1, <3>2, Fields DEF OrUndefined
      <3>4. IsUserData(memory)' /\ (platform = "node" => memory' = NoData)
        BY <1>0 DEF StorageTyped
      <3>5. record' = SetForUser(record, values)
        BY <2>3 DEF values
      <3>6. values["refreshToken"] \in {Undefined} \cup DOMAIN tokens'
        BY <1>1, <2>3, <3>1
      <3> QED
        BY <1>0, <1>1, <2>1, <3>1, <3>3, <3>4, <3>5, <3>6, StorageWritten,
          Fields
    <2> QED
      BY <2>2, <2>3 DEF TokensObtained, token
  <1> QED
    BY <1>2, <1>3, <1>4, <1>5 DEF Types

\* The grant of a flow that has its tokens.
LEMMA GrantTyped ==
  ASSUME Types, flow.step \in {"jwks", "profile"}
  PROVE  Grant \in Grants
  <1>1. \/ flow.kind = "redirect" /\ flow.code \in DOMAIN requests
        \/ flow.kind # "redirect" /\ flow.token \in DOMAIN tokens
    BY DEF Types, FlowStepped, FlowTyped
  <1>2. requests \in Seq(Grants) /\ tokens \in Seq(Grants)
    BY DEF Types, ProviderTyped
  <1> QED
    BY <1>1, <1>2 DEF Grant

LEMMA LogInTyped ==
  ASSUME Types, flow.step \in {"jwks", "profile"}, LogIn, UNCHANGED tokens
  PROVE  /\ session' \in [isLoggedIn : BOOLEAN, dpop : BOOLEAN,
                          webId : {Undefined} \cup WebIds,
                          token : {None} \cup DOMAIN tokens']
         /\ last' \in {Undefined} \cup Grants
  <1>1. last' \in {Undefined} \cup Grants
    BY GrantTyped DEF LogIn
  <1>2. /\ flow.idToken \in IdTokenValues /\ flow.dpop \in BOOLEAN
        /\ flow.token \in {None} \cup DOMAIN tokens
    BY DEF Types, FlowStepped, FlowTyped
  <1>3. WebIdOf(flow.idToken) \in WebIds
    BY <1>2 DEF WebIdOf, IdTokenValues, WebIds
  <1>4. session' = [isLoggedIn |-> TRUE, dpop |-> flow.dpop,
                    webId |-> WebIdOf(flow.idToken),
                    token |-> IF platform = "node" THEN flow.token ELSE None]
    BY DEF LogIn
  <1>5. (IF platform = "node" THEN flow.token ELSE None) \in
          {None} \cup DOMAIN tokens'
    BY <1>2
  <1> QED
    BY <1>1, <1>2, <1>3, <1>4, <1>5

\* The fields written when a login completes, and what is in them.
LEMMA RefreshedHas ==
  ASSUME DOMAIN flow.client = DOMAIN NoClient
  PROVE  /\ DOMAIN RefreshedFields =
              {"isLoggedIn", "refreshToken", "issuer", "dpop", "clientId"}
                \cup (IF flow.client.clientSecret # Undefined
                        THEN {"clientSecret"} ELSE {})
         /\ RefreshedFields["isLoggedIn"] = TRUE
         /\ RefreshedFields["refreshToken"] = flow.token
         /\ RefreshedFields["issuer"] = flow.issuer
         /\ RefreshedFields["dpop"] = flow.dpop
         /\ RefreshedFields["clientId"] = flow.client.clientId
         /\ flow.client.clientSecret # Undefined =>
              RefreshedFields["clientSecret"] = flow.client.clientSecret
  <1> DEFINE client == [flow.client EXCEPT !.idTokenSignedResponseAlg = Undefined]
  <1>1. /\ DOMAIN client =
             {"clientId", "clientSecret", "idTokenSignedResponseAlg"}
        /\ client["clientId"] = flow.client.clientId
        /\ client["clientSecret"] = flow.client.clientSecret
        /\ client["idTokenSignedResponseAlg"] = Undefined
    BY DEF NoClient
  <1> HIDE DEF client
  <1>2. /\ DOMAIN ClientFields(client) =
             {"clientId"} \cup (IF flow.client.clientSecret # Undefined
                                  THEN {"clientSecret"} ELSE {})
        /\ \A field \in DOMAIN ClientFields(client) :
             ClientFields(client)[field] = client[field]
    BY <1>1 DEF ClientFields
  <1> DEFINE fields == ClientFields(client)
             rest == [isLoggedIn |-> TRUE, refreshToken |-> flow.token,
                      issuer |-> flow.issuer, dpop |-> flow.dpop]
  <1>3. RefreshedFields = Merged(rest, fields)
    BY DEF RefreshedFields, client
  <1> HIDE DEF fields
  <1>4. /\ DOMAIN RefreshedFields = DOMAIN rest \cup DOMAIN fields
        /\ \A field \in DOMAIN RefreshedFields :
             RefreshedFields[field] = IF field \in DOMAIN fields
                                        THEN fields[field] ELSE rest[field]
    BY <1>3 DEF Merged
  <1> QED
    BY <1>1, <1>2, <1>4 DEF fields

LEMMA RedirectedHas ==
  /\ DOMAIN RedirectedFields =
       {"isLoggedIn", "idToken", "webId"}
         \cup (IF flow.token = None THEN {} ELSE {"refreshToken"})
  /\ RedirectedFields["isLoggedIn"] = TRUE
  /\ RedirectedFields["idToken"] = flow.idToken
  /\ RedirectedFields["webId"] = WebIdOf(flow.idToken)
  /\ flow.token # None => RedirectedFields["refreshToken"] = flow.token
  BY DEF RedirectedFields, Merged

\* All that a login stores when it completes in the node package is typed.
LEMMA CompletedTyped ==
  ASSUME IInv, Types, flow.step = "jwks"
  PROVE  /\ DOMAIN CompletedFields \subseteq DOMAIN FieldType
         /\ \A field \in DOMAIN CompletedFields :
              CompletedFields[field] \in OrUndefined(FieldType[field])
         /\ "refreshToken" \in DOMAIN CompletedFields =>
              CompletedFields["refreshToken"] \in {Undefined} \cup DOMAIN tokens
  <1>0. /\ FlowTyped /\ FlowStepped /\ ProviderTyped
        /\ DOMAIN flow.client = DOMAIN NoClient
    BY DEF Types, IInv, Shapes
  <1>1. /\ flow.issuer \in Issuers /\ flow.idToken \in IdTokenValues
        /\ flow.token \in {None} \cup DOMAIN tokens
        /\ flow.kind # "redirect" => flow.token # None
        /\ flow.client.clientId \in OrUndefined(ClientIds)
        /\ flow.client.clientSecret \in OrUndefined(ClientIds)
        /\ flow.dpop \in BOOLEAN
        /\ WebIdOf(flow.idToken) \in WebIds
    BY <1>0 DEF FlowTyped, FlowStepped, WebIdOf, IdTokenValues, WebIds
  <1>2. DOMAIN tokens \subseteq RefreshTokens
    BY <1>0, LoginAssumption DEF ProviderTyped, RefreshTokens
  <1>3. CASE flow.kind = "redirect"
    BY <1>1, <1>2, <1>3, RedirectedHas, Fields DEF CompletedFields, OrUndefined
  <1>4. CASE flow.kind # "redirect"
    BY <1>0, <1>1, <1>2, <1>4, RefreshedHas, Fields DEF CompletedFields,
      OrUndefined
  <1> QED
    BY <1>3, <1>4

LEMMA KeysFetchedTyped ==
  ASSUME IInv, Types, KeysFetched
  PROVE  Types'
  <1>0. /\ FlowTyped /\ FlowStepped /\ ProviderTyped /\ StorageTyped
        /\ HistoryTyped /\ DOMAIN flow = DOMAIN NoFlow
        /\ DOMAIN flow.client = DOMAIN NoClient /\ flow.step = "jwks"
        /\ UNCHANGED <<platform, states, provider, asked, mixed>>
    BY DEF Types, IInv, Shapes, KeysFetched, Awaits
  <1>1. flow.idToken \in IdTokenValues /\ WebIdOf(flow.idToken) \in WebIds
    BY <1>0 DEF FlowStepped, WebIdOf, IdTokenValues, WebIds
  <1>3. ProviderTyped'
    BY <1>0 DEF ProviderTyped, provider
  <1>4. HistoryTyped'
    <2>1. last' \in {Undefined} \cup Grants
      BY <1>0, LogInTyped DEF KeysFetched, HistoryTyped, provider
    <2> QED
      BY <1>0, <2>1 DEF HistoryTyped, NoFlow
  <1>5. CASE Throw /\ UNCHANGED <<record, memory, session, last>>
    BY <1>0, <1>3, <1>4, <1>5, OverTyped, StorageKept DEF Throw, Types, provider
  <1>6. CASE /\ platform = "browser"
             /\ memory' = SetForUser(memory, BrowserSecureFields)
             /\ record' = SetForUser(record, BrowserFields)
             /\ Goto("profile") /\ UNCHANGED <<session, last>>
    <2>1. FlowTyped' /\ FlowStepped'
      <3>1. /\ flow'.kind = flow.kind /\ flow'.step = "profile"
            /\ flow'.issuer = flow.issuer /\ flow'.clientId = flow.clientId
            /\ flow'.clientSecret = flow.clientSecret
            /\ flow'.dpop = flow.dpop /\ flow'.client = flow.client
            /\ flow'.code = flow.code /\ flow'.token = flow.token
            /\ flow'.idToken = flow.idToken /\ flow'.config = flow.config
        BY <1>0, <1>6 DEF Goto, NoFlow
      <3> QED
        BY <1>0, <3>1 DEF FlowTyped, FlowStepped, IsDocumentOf, provider
    <2>2. IsUserData(memory)'
      <3>1. /\ DOMAIN BrowserSecureFields = {"isLoggedIn", "webId"}
            /\ BrowserSecureFields["isLoggedIn"] = TRUE
            /\ BrowserSecureFields["webId"] = WebIdOf(flow.idToken)
        BY DEF BrowserSecureFields
      <3>2. \A field \in DOMAIN BrowserSecureFields :
              BrowserSecureFields[field] \in OrUndefined(FieldType[field])
        BY <1>1, <3>1, Fields DEF OrUndefined
      <3>3. IsStore(memory)
        BY <1>0 DEF StorageTyped, IsStore
      <3> QED
        BY <1>6, <3>1, <3>2, <3>3, WritesTyped, Fields
    <2>3. StorageTyped'
      <3>1. /\ DOMAIN BrowserFields = {"idToken"}
            /\ BrowserFields["idToken"] = flow.idToken
        BY DEF BrowserFields
      <3>2. \A field \in DOMAIN BrowserFields :
              BrowserFields[field] \in OrUndefined(FieldType[field])
        BY <1>1, <3>1, Fields DEF OrUndefined
      <3>3. session' \in [isLoggedIn : BOOLEAN, dpop : BOOLEAN,
                          webId : {Undefined} \cup WebIds,
                          token : {None} \cup DOMAIN tokens']
        BY <1>0, <1>6 DEF StorageTyped, provider
      <3>4. platform = "node" => memory' = NoData
        BY <1>6
      <3> QED
        BY <1>0, <1>6, <2>2, <3>1, <3>2, <3>3, <3>4, StorageWritten, Fields
          DEF provider
    <2> QED
      BY <1>3, <1>4, <2>1, <2>3 DEF Types
  <1>7. CASE /\ record' = SetForUser(record, CompletedFields)
             /\ LogIn /\ Throw /\ UNCHANGED memory
    <2> DEFINE values == CompletedFields
    <2>1. /\ DOMAIN values \subseteq DOMAIN FieldType
          /\ \A field \in DOMAIN values :
               values[field] \in OrUndefined(FieldType[field])
          /\ "refreshToken" \in DOMAIN values =>
               values["refreshToken"] \in {Undefined} \cup DOMAIN tokens
      BY <1>0, CompletedTyped
    <2>2. record' = SetForUser(record, values)
      BY <1>7
    <2> HIDE DEF values
    <2>3. session' \in [isLoggedIn : BOOLEAN, dpop : BOOLEAN,
                        webId : {Undefined} \cup WebIds,
                        token : {None} \cup DOMAIN tokens']
      BY <1>0, <1>7, LogInTyped DEF provider
    <2>4. IsUserData(memory)' /\ (platform = "node" => memory' = NoData)
      BY <1>0, <1>7 DEF StorageTyped
    <2>5. StorageTyped'
      BY <1>0, <2>1, <2>2, <2>3, <2>4, StorageWritten DEF provider
    <2> QED
      BY <1>3, <1>4, <1>7, <2>5, OverTyped DEF Throw, Types
  <1> QED
    BY <1>5, <1>6, <1>7 DEF KeysFetched

\* The process stops when some of these fields are stored.
LEMMA SavingStopsTyped ==
  ASSUME IInv, Types, NEW count, SavingStops(count)
  PROVE  Types'
  <1> DEFINE values == FirstOfFields(count)
  <1>0. /\ ProviderTyped /\ StorageTyped /\ HistoryTyped /\ flow.step = "jwks"
        /\ flow' = NoFlow /\ session' = NewSession
        /\ record' = SetForUser(record, values)
        /\ UNCHANGED <<platform, memory, states, provider, history>>
    BY DEF Types, SavingStops, Awaits, Throw
  <1>1. /\ DOMAIN values \subseteq DOMAIN CompletedFields
        /\ \A field \in DOMAIN values : values[field] = CompletedFields[field]
    BY DEF FirstOfFields
  <1> HIDE DEF values
  <1>2. /\ DOMAIN values \subseteq DOMAIN FieldType
        /\ \A field \in DOMAIN values :
             values[field] \in OrUndefined(FieldType[field])
        /\ "refreshToken" \in DOMAIN values =>
             values["refreshToken"] \in {Undefined} \cup DOMAIN tokens
    BY <1>0, <1>1, CompletedTyped
  <1>3. ProviderTyped' /\ HistoryTyped'
    BY <1>0 DEF ProviderTyped, HistoryTyped, NoFlow, provider, history
  <1>4. /\ IsUserData(memory)' /\ (platform = "node" => memory' = NoData)
        /\ session' \in [isLoggedIn : BOOLEAN, dpop : BOOLEAN,
                         webId : {Undefined} \cup WebIds,
                         token : {None} \cup DOMAIN tokens']
    BY <1>0 DEF StorageTyped, NewSession
  <1>5. StorageTyped'
    BY <1>0, <1>2, <1>4, StorageWritten DEF provider
  <1> QED
    BY <1>0, <1>3, <1>5, OverTyped DEF Types

LEMMA ProfileFetchedTyped ==
  ASSUME Types, ProfileFetched
  PROVE  Types'
  <1>0. /\ ProviderTyped /\ StorageTyped /\ HistoryTyped
        /\ flow.step = "profile" /\ LogIn /\ flow' = NoFlow
        /\ UNCHANGED <<platform, record, memory, states, provider, asked, mixed>>
    BY DEF Types, ProfileFetched, Awaits, Throw
  <1>1. /\ session' \in [isLoggedIn : BOOLEAN, dpop : BOOLEAN,
                         webId : {Undefined} \cup WebIds,
                         token : {None} \cup DOMAIN tokens']
        /\ last' \in {Undefined} \cup Grants
    BY <1>0, LogInTyped DEF provider
  <1>2. ProviderTyped'
    BY <1>0 DEF ProviderTyped, provider
  <1>3. HistoryTyped'
    BY <1>0, <1>1 DEF HistoryTyped, NoFlow
  <1>4. StorageTyped'
    BY <1>0, <1>1 DEF StorageTyped, Stored, provider
  <1> QED
    BY <1>0, <1>2, <1>3, <1>4, OverTyped DEF Types

LEMMA RequestFailsTyped ==
  ASSUME Types, RequestFails
  PROVE  Types'
  <1>0. /\ ProviderTyped /\ StorageTyped /\ HistoryTyped
        /\ flow.step # "none" /\ flow' = NoFlow /\ live' \subseteq live
        /\ UNCHANGED <<platform, record, memory, states, session, requests,
                       open, clients, tokens, history>>
    BY DEF Types, RequestFails, Awaits, Throw
  <1>1. ProviderTyped' /\ HistoryTyped' /\ StorageTyped'
    BY <1>0, StorageKept DEF ProviderTyped, HistoryTyped, NoFlow, history
  <1> QED
    BY <1>0, <1>1, OverTyped DEF Types

\* The handler of refresh tokens is chosen only when there is one.
LEMMA RefreshNeedsToken ==
  ASSUME NEW refreshToken, NEW clientId, NEW config,
         OidcHandler(refreshToken, clientId, config) = "refreshToken"
  PROVE  refreshToken # Undefined
  <1> DEFINE can == [refreshToken |-> CanRefresh(refreshToken, clientId),
                     authorizationCodeWithPkce |-> CanRedirect(config)]
             IsFirst(i) == /\ can[OidcHandlers[i]]
                           /\ \A j \in 1..(i - 1) : ~can[OidcHandlers[j]]
  <1>1. /\ DOMAIN OidcHandlers = {1, 2} /\ OidcHandlers[1] = "refreshToken"
        /\ OidcHandlers[2] = "authorizationCodeWithPkce"
    BY DEF OidcHandlers
  <1>2. can["refreshToken"] = CanRefresh(refreshToken, clientId)
    OBVIOUS
  <1> HIDE DEF can
  <1>3. SUFFICES ASSUME ~can["refreshToken"] PROVE FALSE
    BY <1>2 DEF CanRefresh
  <1>4. OidcHandler(refreshToken, clientId, config) # NoHandler
    BY DEF NoHandler
  <1>5. ProperHandler(OidcHandlers, can) = "refreshToken"
    BY DEF OidcHandler, can
  <1>6. OidcHandlers[CHOOSE i \in {1, 2} : IsFirst(i)] = "refreshToken"
        /\ \E i \in {1, 2} : can[OidcHandlers[i]]
    BY <1>1, <1>5 DEF ProperHandler, NoHandler
  <1>7. IsFirst(2)
    BY <1>1, <1>3, <1>6
  <1>8. ~IsFirst(1)
    BY <1>1, <1>3
  <1> HIDE DEF IsFirst
  <1>9. (CHOOSE i \in {1, 2} : IsFirst(i)) = 2
    BY <1>7, <1>8
  <1> QED
    BY <1>1, <1>6, <1>9

LEMMA RefreshAccessTyped ==
  ASSUME IInv, Types, RefreshAccess
  PROVE  Types'
  <1> DEFINE values == [issuer |-> flow.issuer, dpop |-> flow.dpop,
                        clientId |-> flow.client.clientId,
                        clientSecret |-> flow.client.clientSecret]
  <1>0. /\ FlowTyped /\ FlowStepped /\ ProviderTyped /\ StorageTyped
        /\ HistoryTyped /\ DOMAIN flow = DOMAIN NoFlow /\ flow.step = "handle"
        /\ record' = SetForUser(record, values)
        /\ asked' = [asked EXCEPT !.dpop = flow.dpop]
        /\ UNCHANGED <<platform, memory, states, session, provider, mixed, last>>
    BY DEF Types, IInv, Shapes, RefreshAccess, Awaits
  <1>1. Stored("refreshToken") \in DOMAIN tokens
    <2>1. OidcHandler(Stored("refreshToken"), flow.client.clientId, flow.config)
            = "refreshToken"
      BY DEF RefreshAccess, Handler
    <2> QED
      BY <1>0, <2>1, RefreshNeedsToken DEF StorageTyped
  <1>2. FlowTyped' /\ FlowStepped'
    <2>1. /\ flow'.kind = flow.kind /\ flow'.step = "context"
          /\ flow'.issuer = flow.issuer /\ flow'.clientId = flow.clientId
          /\ flow'.clientSecret = flow.clientSecret
          /\ flow'.dpop = flow.dpop /\ flow'.client = flow.client
          /\ flow'.code = flow.code /\ flow'.token = Stored("refreshToken")
          /\ flow'.idToken = flow.idToken
      BY <1>0 DEF RefreshAccess, NoFlow
    <2>2. Stored("refreshToken") # None
      BY <1>0, <1>1 DEF ProviderTyped, None
    <2> QED
      BY <1>0, <1>1, <2>1, <2>2 DEF FlowTyped, FlowStepped, provider
  <1>3. ProviderTyped'
    BY <1>0 DEF ProviderTyped, provider
  <1>4. HistoryTyped'
    <2>1. asked \in LoginOptions /\ flow.dpop \in BOOLEAN
      BY <1>0 DEF HistoryTyped, NoFlow, FlowTyped
    <2>2. asked' \in LoginOptions
      BY <1>0, <2>1 DEF LoginOptions
    <2> QED
      BY <1>0, <2>2 DEF HistoryTyped
  <1>5. StorageTyped'
    <2>1. /\ DOMAIN values = {"issuer", "dpop", "clientId", "clientSecret"}
          /\ values["issuer"] = flow.issuer /\ values["dpop"] = flow.dpop
          /\ values["clientId"] = flow.client.clientId
          /\ values["clientSecret"] = flow.client.clientSecret
      OBVIOUS
    <2> HIDE DEF values
    <2>2. \A field \in DOMAIN values :
            values[field] \in OrUndefined(FieldType[field])
      BY <1>0, <2>1, Fields DEF OrUndefined, FlowTyped, FlowStepped
    <2>3. /\ IsUserData(memory)' /\ (platform = "node" => memory' = NoData)
          /\ session' \in [isLoggedIn : BOOLEAN, dpop : BOOLEAN,
                           webId : {Undefined} \cup WebIds,
                           token : {None} \cup DOMAIN tokens']
      BY <1>0 DEF StorageTyped, provider
    <2> QED
      BY <1>0, <2>1, <2>2, <2>3, StorageWritten, Fields DEF provider
  <1> QED
    BY <1>2, <1>3, <1>4, <1>5 DEF Types

LEMMA RequestAuthorizationTyped ==
  ASSUME IInv, Types, RequestAuthorization
  PROVE  Types'
  <1> DEFINE request == Len(requests) + 1
             values == LoginContext(request)
             grant == Pair(flow.issuer, flow.client.clientId)
  <1>0. /\ FlowTyped /\ FlowStepped /\ ProviderTyped /\ StorageTyped
        /\ HistoryTyped /\ flow.step = "handle" /\ flow' = NoFlow
        /\ Len(requests) < MaxRequests /\ requests' = Append(requests, grant)
        /\ open' = open \cup {request} /\ states' = states \cup {request}
        /\ record' = SetForUser(record, values)
        /\ UNCHANGED <<platform, memory, session, clients, tokens, live, history>>
    BY DEF Types, RequestAuthorization, Awaits, Throw, Pair
  <1>1. grant \in Grants
    <2>1. flow.issuer \in Issuers
      BY <1>0 DEF FlowStepped
    <2>2. flow.client.clientId \in ClientIds
      BY <1>0 DEF IInv, FlowHasClient, FlowTyped, OrUndefined
    <2> QED
      BY <2>1, <2>2 DEF Grants, Pair
  <1> HIDE DEF grant
  <1>2. /\ requests' \in Seq(Grants) /\ Len(requests') = Len(requests) + 1
        /\ DOMAIN requests' = DOMAIN requests \cup {request}
    BY <1>0, <1>1, AppendGrant DEF ProviderTyped
  <1>3. ProviderTyped'
    BY <1>0, <1>2, LoginAssumption DEF ProviderTyped
  <1>4. HistoryTyped'
    BY <1>0 DEF HistoryTyped, NoFlow, history
  <1>5. StorageTyped'
    <2>1. /\ DOMAIN values = {"codeVerifier", "issuer", "dpop"}
          /\ values["codeVerifier"] = request
          /\ values["issuer"] = flow.issuer /\ values["dpop"] = flow.dpop
      BY DEF LoginContext
    <2>2. request \in Requests
      BY <1>0, LoginAssumption DEF ProviderTyped, Requests
    <2> HIDE DEF values
    <2>3. \A field \in DOMAIN values :
            values[field] \in OrUndefined(FieldType[field])
      BY <1>0, <2>1, <2>2, Fields DEF OrUndefined, FlowTyped, FlowStepped
    <2>4. /\ IsUserData(memory)' /\ (platform = "node" => memory' = NoData)
          /\ session' \in [isLoggedIn : BOOLEAN, dpop : BOOLEAN,
                           webId : {Undefined} \cup WebIds,
                           token : {None} \cup DOMAIN tokens']
      BY <1>0 DEF StorageTyped
    <2> QED
      BY <1>0, <2>1, <2>3, <2>4, StorageWritten, Fields
  <1> QED
    BY <1>0, <1>3, <1>4, <1>5, OverTyped DEF Types

LEMMA ReturnTyped ==
  ASSUME Types, NEW code \in open, ReturnWithCode(code)
  PROVE  Types'
  <1>0. /\ ProviderTyped /\ StorageTyped /\ HistoryTyped
        /\ session' = NewSession /\ memory' = NoData /\ open' \subseteq open
        /\ code \in DOMAIN requests
        /\ UNCHANGED <<platform, record, states, requests, clients, tokens,
                       live, history>>
    BY DEF Types, ReturnWithCode, ProviderTyped
  <1>1. CASE flow' = flow
    <2>1. ProviderTyped' /\ StorageTyped' /\ HistoryTyped'
      BY <1>0, <1>1, NothingIsStored DEF ProviderTyped, StorageTyped,
        HistoryTyped, Stored, NewSession, history
    <2> QED
      BY <1>1, <2>1, OverTyped DEF Types, ReturnWithCode
  <1>2. CASE /\ HasContext(code)
             /\ flow' = [NoFlow EXCEPT
                  !.kind = "redirect", !.step = "redirectConfig", !.code = code,
                  !.issuer = Stored("issuer"), !.dpop = (Stored("dpop") = TRUE)]
    <2>1. Stored("issuer") \in Issuers
      BY <1>0, <1>2, StoredTyped DEF HasContext, HasLoginContext, OrUndefined
    <2>2. record # NoData
      BY <1>2, NothingIsStored DEF HasContext, HasLoginContext, Stored
    <2>3. ProviderTyped' /\ StorageTyped' /\ HistoryTyped'
      BY <1>0, <2>2, NothingIsStored DEF ProviderTyped, StorageTyped,
        HistoryTyped, Stored, NewSession, history
    <2>4. /\ flow'.kind = "redirect" /\ flow'.step = "redirectConfig"
          /\ flow'.issuer = Stored("issuer") /\ flow'.clientId = Undefined
          /\ flow'.clientSecret = Undefined
          /\ flow'.dpop \in BOOLEAN /\ flow'.client = NoClient
          /\ flow'.code = code /\ flow'.token = None
          /\ flow'.idToken = Undefined
      BY <1>2 DEF NoFlow
    <2>5. FlowTyped' /\ FlowStepped'
      BY <1>0, <2>1, <2>4, IssuerNames DEF FlowTyped, FlowStepped, NoClient,
        OrUndefined
    <2> QED
      BY <2>3, <2>5 DEF Types
  <1> QED
    BY <1>1, <1>2 DEF ReturnWithCode

LEMMA OutsideTyped ==
  ASSUME Types, ReturnWithout \/ Corrupt
  PROVE  Types'
  <1>0. ProviderTyped /\ StorageTyped /\ HistoryTyped
    BY DEF Types
  <1>1. CASE ReturnWithout
    <2>1. ProviderTyped' /\ StorageTyped' /\ HistoryTyped'
      BY <1>0, <1>1, NothingIsStored DEF ReturnWithout, ProviderTyped,
        StorageTyped, HistoryTyped, Stored, NewSession, history, provider
    <2> QED
      BY <1>1, <2>1, OverTyped DEF Types, ReturnWithout
  <1>2. CASE Corrupt
    <2>1. ProviderTyped' /\ StorageTyped' /\ HistoryTyped'
      BY <1>0, <1>2, CorruptedHasNoField, Fields DEF Corrupt, ProviderTyped,
        StorageTyped, HistoryTyped, Stored, provider
    <2> QED
      BY <1>2, <2>1, OverTyped DEF Types, Corrupt
  <1> QED
    BY <1>1, <1>2

LEMMA NextTypes == IInv /\ Types /\ [Next]_vars => Types'
  <1> SUFFICES ASSUME IInv, Types, [Next]_vars PROVE Types'
    OBVIOUS
  <1>1. CASE UNCHANGED vars
    BY <1>1 DEF vars, provider, history, Types, FlowTyped, FlowStepped,
      IsDocumentOf, ProviderTyped, StorageTyped, HistoryTyped, Stored
  <1>2. CASE NoSuitableHandler
    <2>1. ProviderTyped' /\ HistoryTyped' /\ StorageTyped'
      BY <1>2, FlowOnlyTyped DEF NoSuitableHandler, Awaits
    <2> QED
      BY <1>2, <2>1, OverTyped DEF NoSuitableHandler, Throw, Types
  <1>3. CASE Application
    BY <1>3, LoginTyped, LogoutTyped, FetchRefusedTyped, RestoreTyped
      DEF Application
  <1>4. CASE Reply
    BY <1>4, ConfigFetchedTyped, ValidatedTyped, ClientRegisteredTyped,
      ContextTyped, TokensObtainedTyped, KeysFetchedTyped, SavingStopsTyped,
      ProfileFetchedTyped, RequestFailsTyped DEF Reply
  <1>5. CASE RefreshAccess \/ RequestAuthorization
    BY <1>5, RefreshAccessTyped, RequestAuthorizationTyped
  <1>6. CASE Environment
    BY <1>6, ReturnTyped, OutsideTyped DEF Environment
  <1> QED
    BY <1>1, <1>2, <1>3, <1>4, <1>5, <1>6 DEF Next, Continuation

LEMMA TypesInvariant == Spec => [](IInv /\ Types)
  BY InitIInv, NextIInv, InitTypes, NextTypes, PTL DEF Spec

\* Whatever logins, restarts, failures and damage come one after the other,
\* the variables are of their types: in particular, no field is stored without
\* a value, and only the record in the storage given to the node package is
\* ever one that cannot be read.
THEOREM LoginTypeCorrect == Spec => []TypeOK
  <1>1. Types => TypeOK
    <2> SUFFICES ASSUME Types PROVE TypeOK
      OBVIOUS
    <2>1. /\ \A r \in DOMAIN requests : requests[r] \in Grants
          /\ \A k \in DOMAIN tokens : tokens[k] \in Grants
      BY DEF Types, ProviderTyped
    <2> QED
      BY <2>1 DEF Types, TypeOK, FlowTyped, ProviderTyped, StorageTyped,
        HistoryTyped, OrUndefined
  <1> QED
    BY <1>1, TypesInvariant, PTL

-----------------------------------------------------------------------------
(* What a step does to the stored fields, and to those of the flow.        *)

USE DEF AskedIssuer

\* The issuer may be given its own name, if it had another.
SameLogin ==
  /\ flow'.kind = flow.kind
  /\ IssuerOf[flow'.issuer] = IssuerOf[flow.issuer]
  /\ flow.issuer \in Issuers => flow'.issuer = flow.issuer
  /\ flow'.dpop = flow.dpop /\ flow'.code = flow.code

\* The fields that are read, but for those named.
Keeps(others) ==
  \A field \in DOMAIN FieldType \ others : Stored(field)' = Stored(field)

SameData ==
  UNCHANGED <<platform, record, states, requests, clients, tokens, asked,
              mixed, last>>

\* The flow goes on with the client that getClient found.
FindsClient(step) ==
  /\ Readable(record) /\ Stored("clientId") # Undefined
  /\ SameLogin /\ flow'.step = step /\ flow'.token = flow.token
  /\ flow'.client.clientId = Stored("clientId")
  /\ flow'.client.clientSecret = Stored("clientSecret")
  /\ platform = "node" =>
       flow'.client.idTokenSignedResponseAlg = Stored("idTokenSignedResponseAlg")

\* Or it has to register one.
AsksToRegister ==
  /\ Readable(record) /\ Stored("clientId") = Undefined
  /\ SameLogin /\ flow.step = "config" /\ flow'.step = "register"
  /\ flow'.token = flow.token

LEMMA OnwardGoesOn ==
  ASSUME IInv, Types, NEW config, NEW client, Onward(config, client),
         IsDocumentOf(flow.issuer, config), flow.step # "none", flow' # NoFlow
  PROVE  /\ SameLogin /\ flow'.step = NextStep /\ flow'.token = flow.token
         /\ flow'.client = client
  <1>1. DOMAIN flow = DOMAIN NoFlow /\ flow.issuer \in IssuerUrls
    BY DEF Types, IInv, Shapes, FlowStepped
  <1>2. /\ flow'.kind = flow.kind /\ flow'.step = NextStep
        /\ flow'.dpop = flow.dpop /\ flow'.client = client
        /\ flow'.code = flow.code /\ flow'.token = flow.token
        /\ flow'.issuer # Undefined
        /\ flow'.issuer = IF NextStep = "handle" THEN NamedIssuer(config)
                                                ELSE flow.issuer
    BY <1>1, OnwardDoes
  <1>3. flow'.issuer \in {flow.issuer, IssuerOf[flow.issuer]}
    BY <1>2 DEF IsDocumentOf
  <1> QED
    BY <1>1, <1>2, <1>3, IssuerNames DEF SameLogin

LEMMA GetClientDoes ==
  ASSUME IInv, Types, NEW config, GetClient(config),
         IsDocumentOf(flow.issuer, config),
         flow.step \in {"config", "context", "redirectConfig"}
  PROVE  \/ flow' = NoFlow
         \/ FindsClient(CASE flow.step = "config" -> "handle"
                          [] flow.step = "context" -> "refresh"
                          [] flow.step = "redirectConfig" -> "token")
         \/ AsksToRegister
  <1>0. /\ DOMAIN flow = DOMAIN NoFlow /\ StartsAsLogin /\ FlowStepped
    BY DEF Types, IInv, Shapes
  <1>1. CASE /\ Readable(record) /\ HasStoredClient(record)
             /\ Onward(config, StoredClient(platform, record))
             /\ flow' # NoFlow
    <2> DEFINE client == StoredClient(platform, record)
    <2>1. /\ client.clientId = Stored("clientId")
          /\ client.clientSecret = Stored("clientSecret")
          /\ platform = "node" =>
               client.idTokenSignedResponseAlg = Stored("idTokenSignedResponseAlg")
      BY DEF StoredClient, Stored
    <2>2. Onward(config, client)
      BY <1>1
    <2> HIDE DEF client
    <2>3. /\ SameLogin /\ flow'.step = NextStep /\ flow'.token = flow.token
          /\ flow'.client = client
      BY <1>1, <2>2, OnwardGoesOn
    <2>4. NextStep = CASE flow.step = "config" -> "handle"
                       [] flow.step = "context" -> "refresh"
                       [] flow.step = "redirectConfig" -> "token"
      BY <1>0, StepAfterClient
    <2>5. Stored("clientId") # Undefined
      BY <1>1 DEF HasStoredClient, Stored
    <2> QED
      BY <1>1, <2>1, <2>3, <2>4, <2>5 DEF FindsClient
  <1>2. CASE /\ Readable(record) /\ ~HasStoredClient(record)
             /\ flow' = [flow EXCEPT !.step = "register", !.config = config]
    <2>1. flow.step = "config"
      BY <1>2 DEF IInv, ClientIsStored, HasStoredClient, Stored
    <2> QED
      BY <1>0, <1>2, <2>1 DEF AsksToRegister, HasStoredClient, Stored, NoFlow,
        SameLogin
  <1> QED
    BY <1>1, <1>2 DEF GetClient, Throw

\* Whether an issuer dereferences Client WebIDs is seen in its configuration.
LEMMA SolidSupport ==
  ASSUME NEW url, NEW document \in DocumentsOf(url),
         FetchConfig(platform, document) # Undefined
  PROVE  "solid_oidc_supported" \in DOMAIN FetchConfig(platform, document)
           <=> IssuerOf[url] \in SolidIssuers
  <1>1. "solid_oidc_supported" \in DOMAIN document
          <=> IssuerOf[url] \in SolidIssuers
    <2> DEFINE named(d) == [key \in DOMAIN d |->
                             IF key = "issuer" THEN IssuerOf[url] ELSE d[key]]
               solid == IF IssuerOf[url] \in SolidIssuers
                          THEN [solid_oidc_supported |-> TRUE] ELSE NoData
    <2>1. PICK d \in Documents : document = Merged(named(d), solid)
      BY DEF DocumentsOf
    <2>2. /\ DOMAIN document = DOMAIN d \cup DOMAIN solid
          /\ "solid_oidc_supported" \notin DOMAIN d
      BY <2>1, LoginAssumption DEF Merged
    <2> QED
      BY <2>2 DEF NoData
  <1>2. FetchConfig(platform, document) = ProcessConfig(document)
    BY DEF FetchConfig, ConfigFromIssuerMetadata
  <1> QED
    BY <1>1, <1>2 DEF ProcessConfig, IssuerConfigKeys

\* The flow goes on with this client, or is over: no issuer is named.
GoesOnAs(clientId, clientSecret) ==
  \/ flow' = NoFlow
  \/ /\ SameLogin /\ flow'.step = "handle" /\ flow'.token = flow.token
     /\ flow'.client.clientId = clientId
     /\ flow'.client.clientSecret = clientSecret

\* The client of the application is used, and stored.
UsesGiven ==
  /\ flow.clientId # Undefined
  /\ flow.clientId \in UrlClients => IssuerOf[flow.issuer] \in SolidIssuers
  /\ GoesOnAs(flow.clientId, flow.clientSecret)
  /\ Readable(record)' /\ Keeps({"clientId", "clientSecret"})
  /\ Stored("clientId")' = flow.clientId
  /\ Stored("clientSecret")' = IF flow.clientSecret # Undefined
                                 THEN flow.clientSecret ELSE Stored("clientSecret")
  /\ UNCHANGED <<platform, states, requests, clients, tokens, session, asked,
                 mixed, last>>

LEMMA ConfigFetchedDoes ==
  ASSUME IInv, Types, ConfigFetched
  PROVE  /\ flow.step = "config"
         /\ \/ flow' = NoFlow /\ SameData /\ UNCHANGED session
            \/ FindsClient("handle") /\ SameData /\ UNCHANGED session
            \/ /\ AsksToRegister /\ SameData /\ UNCHANGED session
               /\ \/ flow.clientId = Undefined
                  \/ /\ flow.clientId \in UrlClients
                     /\ IssuerOf[flow.issuer] \notin SolidIssuers
            \/ UsesGiven
  <1>0. /\ flow.step = "config" /\ DOMAIN flow = DOMAIN NoFlow /\ StorageTyped
        /\ UNCHANGED <<platform, memory, states, session, provider, history>>
    BY DEF Types, IInv, Shapes, ConfigFetched, Awaits
  <1>1. PICK document \in DocumentsOf(flow.issuer) :
          LET config == FetchConfig(platform, document)
              given == GivenClient(flow.clientId, flow.clientSecret)
          IN IF config = Undefined THEN Throw /\ UNCHANGED record
             ELSE IF NeedsRegistration(flow.clientId, config)
               THEN GetClient(config) /\ UNCHANGED record
               ELSE /\ record' = SetForUser(record, ClientFields(given))
                    /\ Onward(config, given)
    BY DEF ConfigFetched
  <1> DEFINE config == FetchConfig(platform, document)
             given == GivenClient(flow.clientId, flow.clientSecret)
  <1>2. config # Undefined =>
          (NeedsRegistration(flow.clientId, config) <=>
             \/ flow.clientId = Undefined
             \/ /\ flow.clientId \in UrlClients
                /\ IssuerOf[flow.issuer] \notin SolidIssuers)
    BY SolidSupport DEF NeedsRegistration, IsValidUrl
  <1>6. config # Undefined => IsDocumentOf(flow.issuer, config)
    BY DocumentNames
  <1> HIDE DEF config
  <1>3. CASE Throw /\ UNCHANGED record
    BY <1>0, <1>3 DEF Throw, SameData, provider, history
  <1>4. CASE /\ config # Undefined /\ NeedsRegistration(flow.clientId, config)
             /\ GetClient(config) /\ UNCHANGED record
    <2>1. SameData /\ UNCHANGED session
      BY <1>0, <1>4 DEF SameData, provider, history
    <2> QED
      BY <1>0, <1>2, <1>4, <1>6, <2>1, GetClientDoes
  <1>5. CASE /\ config # Undefined /\ ~NeedsRegistration(flow.clientId, config)
             /\ record' = SetForUser(record, ClientFields(given))
             /\ Onward(config, given)
    <2>1. /\ DOMAIN given = DOMAIN NoClient
          /\ given.clientId = flow.clientId
          /\ given.clientSecret = flow.clientSecret
          /\ given.idTokenSignedResponseAlg = Undefined
      BY DEF GivenClient, NoClient
    <2> HIDE DEF given
    <2>2. GoesOnAs(flow.clientId, flow.clientSecret)
      <3>1. StartsAsLogin /\ FlowStepped
        BY DEF IInv, Types
      <3> QED
        BY <1>0, <1>5, <1>6, <2>1, <3>1, StepAfterClient, OnwardGoesOn
          DEF GoesOnAs
    <2>3. IsStore(record)
      BY <1>0, StoredTyped
    <2>4. \A field \in DOMAIN FieldType :
            Stored(field)' = IF /\ field \in DOMAIN NoClient
                                /\ field = "clientId" \/ given[field] # Undefined
                             THEN given[field] ELSE Stored(field)
      BY <1>5, <2>1, <2>3, WritesOfClient DEF Stored
    <2>5. /\ Keeps({"clientId", "clientSecret"})
          /\ Stored("clientId")' = flow.clientId
          /\ Stored("clientSecret")' = IF flow.clientSecret # Undefined
               THEN flow.clientSecret ELSE Stored("clientSecret")
      BY <2>1, <2>4, Fields DEF Keeps, NoClient
    <2>6. Readable(record)'
      BY <1>2, <1>5, <2>1, WritesClient, SetReadable
    <2> QED
      BY <1>0, <1>2, <1>5, <2>1, <2>2, <2>5, <2>6 DEF UsesGiven, provider, history
  <1> QED
    BY <1>1, <1>3, <1>4, <1>5 DEF config

\* A new client is registered, and stored.
Registers(clientId) ==
  /\ clientId = Len(clients) + 1
  /\ clientId \in DynamicClients
  /\ DOMAIN clients' = DOMAIN clients \cup {clientId}
  /\ \A c \in DOMAIN clients : clients'[c] = clients[c]
  /\ clientId \notin DOMAIN clients
  /\ clients'[clientId].issuer = IssuerOf[flow.issuer]
  /\ GoesOnAs(clientId, IF clients'[clientId].secret THEN clientId ELSE Undefined)
  /\ platform = "node" =>
       /\ flow' # NoFlow =>
            flow'.client.idTokenSignedResponseAlg = clients'[clientId].alg
       /\ Stored("idTokenSignedResponseAlg")' = clients'[clientId].alg
  /\ Readable(record)'
  /\ Keeps({"clientId", "clientSecret", "idTokenSignedResponseAlg"})
  /\ Stored("clientId")' = clientId
  /\ Stored("clientSecret")' = IF clients'[clientId].secret
                                 THEN clientId ELSE Stored("clientSecret")
  /\ UNCHANGED <<platform, states, requests, tokens, session, asked, mixed, last>>

LEMMA ClientRegisteredDoes ==
  ASSUME IInv, Types, NEW response, ClientRegistered(response)
  PROVE  /\ flow.step = "register"
         /\ \/ flow' = NoFlow /\ SameData /\ UNCHANGED session
            \/ Registers(Len(clients) + 1)
  <1>0. /\ FlowStepped /\ StartsAsLogin /\ StorageTyped
        /\ DOMAIN flow = DOMAIN NoFlow
        /\ flow.step = "register" /\ Len(clients) < MaxClients
        /\ UNCHANGED <<platform, memory, states, session, requests, open,
                       tokens, live, history>>
    BY DEF IInv, Shapes, Types, ClientRegistered, Awaits
  <1> DEFINE clientId == Len(clients) + 1
             asks == SigningAlg(flow.config)
  <1>1. CASE Throw /\ UNCHANGED <<record, clients>>
    BY <1>0, <1>1 DEF Throw, SameData, history
  <1>2. ASSUME NEW secret \in BOOLEAN, NEW answer \in {asks, Undefined} \ {NoAlg},
               clients' = Append(clients,
                 [issuer |-> IssuerOf[flow.issuer], secret |-> secret,
                  alg |-> asks]),
               record' = SetForUser(record, ClientFields(
                 [clientId |-> clientId,
                  clientSecret |-> IF secret THEN clientId ELSE Undefined,
                  idTokenSignedResponseAlg |->
                    RegisteredAlg(platform, asks, answer)])),
               Onward(flow.config,
                 [clientId |-> clientId,
                  clientSecret |-> IF secret THEN clientId ELSE Undefined,
                  idTokenSignedResponseAlg |->
                    RegisteredAlg(platform, asks, answer)])
        PROVE  Registers(clientId)
    <2> DEFINE client == [clientId |-> clientId,
                 clientSecret |-> IF secret THEN clientId ELSE Undefined,
                 idTokenSignedResponseAlg |->
                   RegisteredAlg(platform, asks, answer)]
               new == [issuer |-> IssuerOf[flow.issuer], secret |-> secret,
                       alg |-> asks]
    <2>1. PICK S : clients \in Seq(S)
      BY DEF IInv, Shapes
    <2>2. /\ clientId \in DynamicClients /\ clientId \notin DOMAIN clients
          /\ DOMAIN clients' = DOMAIN clients \cup {clientId}
          /\ \A c \in DOMAIN clients : clients'[c] = clients[c]
          /\ clients'[clientId] = new
      <3>1. clients' = Append(clients, new)
        BY <1>2
      <3> HIDE DEF new
      <3> QED
        BY <1>0, <2>1, <3>1, LoginAssumption DEF DynamicClients
    <2>3. /\ new.issuer = IssuerOf[flow.issuer]
          /\ new.secret = secret /\ new.alg = asks
      OBVIOUS
    <2>4. clientId # Undefined
      BY <2>2, LoginAssumption DEF ClientIds
    <2>5. platform = "node" =>
            /\ asks \in Algs
            /\ RegisteredAlg(platform, asks, answer) = asks
      <3>1. asks \in Algs \cup {NoAlg}
        BY AskedAlg
      <3>2. platform = "node" => asks # NoAlg
        BY <1>0 DEF FlowStepped, CanNegotiate
      <3> HIDE DEF asks
      <3> QED
        BY <1>2, <3>1, <3>2 DEF RegisteredAlg
    <2>6. /\ DOMAIN client = DOMAIN NoClient
          /\ client.clientId = clientId
          /\ client.clientSecret = IF secret THEN clientId ELSE Undefined
          /\ platform = "node" => client.idTokenSignedResponseAlg = asks
      BY <2>5 DEF NoClient
    <2>7. /\ record' = SetForUser(record, ClientFields(client))
          /\ Onward(flow.config, client)
      BY <1>2
    <2> HIDE DEF client, new, clientId
    <2>8. /\ GoesOnAs(clientId, IF secret THEN clientId ELSE Undefined)
          /\ flow' # NoFlow => flow'.client = client
      BY <1>0, <2>6, <2>7, StepAfterClient, OnwardGoesOn DEF GoesOnAs, FlowStepped
    <2>9. \A field \in DOMAIN FieldType :
            Stored(field)' = IF /\ field \in DOMAIN NoClient
                                /\ field = "clientId" \/ client[field] # Undefined
                             THEN client[field] ELSE Stored(field)
      BY <1>0, <2>6, <2>7, StoredTyped, WritesOfClient DEF Stored
    <2>10. /\ Keeps({"clientId", "clientSecret", "idTokenSignedResponseAlg"})
           /\ Stored("clientId")' = clientId
           /\ Stored("clientSecret")' = IF secret THEN clientId
                                                  ELSE Stored("clientSecret")
      BY <2>4, <2>6, <2>9, Fields DEF Keeps, NoClient
    <2>11. platform = "node" => Stored("idTokenSignedResponseAlg")' = asks
      <3>1. platform = "node" => asks # Undefined
        BY <2>5, UndefinedAssumption, Fields
      <3> QED
        BY <2>6, <2>9, <3>1, Fields DEF NoClient
    <2>12. Readable(record)'
      BY <2>4, <2>6, <2>7, WritesClient, SetReadable
    <2> QED
      BY <1>0, <2>2, <2>3, <2>6, <2>8, <2>10, <2>11, <2>12 DEF Registers,
        history, clientId
  <1> QED
    BY <1>0, <1>1, <1>2 DEF ClientRegistered

\* The token endpoint has accepted the grant.
Obtains(token) ==
  LET grant == Pair(flow.issuer, flow.client.clientId) IN
  /\ flow.step = "token" => requests[flow.code] = grant
  /\ flow.step = "refresh" => tokens[flow.token] = grant
  /\ DOMAIN tokens \subseteq DOMAIN tokens'
  /\ \A k \in DOMAIN tokens : tokens'[k] = tokens[k]
  /\ token = flow.token \/ (token \in DOMAIN tokens' /\ tokens'[token] = grant)
  /\ Keeps({"refreshToken"})
  /\ \/ record' = record
     \/ /\ flow.step = "refresh" /\ Readable(record)'
        /\ Stored("refreshToken")' = token
        /\ token \in DOMAIN tokens' /\ tokens'[token] = grant
  /\ \/ flow' = NoFlow
     \/ /\ SameLogin /\ flow'.step = "jwks" /\ flow'.token = token
        /\ flow'.client = flow.client /\ flow.kind # "fetch"
  /\ \/ session' = session
     \/ flow.kind = "fetch" /\ session'.token = token
  /\ UNCHANGED <<platform, states, requests, clients, asked, mixed, last>>

LEMMA TokensObtainedDoes ==
  ASSUME IInv, Types, NEW response, NEW fresh \in BOOLEAN,
         TokensObtained(response, fresh)
  PROVE  /\ flow.step \in {"token", "refresh"}
         /\ Obtains(IF fresh THEN Len(tokens) + 1 ELSE flow.token)
  <1> DEFINE token == IF fresh THEN Len(tokens) + 1 ELSE flow.token
             grant == Pair(flow.issuer, flow.client.clientId)
  <1>0. /\ StorageTyped /\ FlowTyped /\ DOMAIN flow = DOMAIN NoFlow
        /\ UNCHANGED <<platform, memory, states, requests, open, clients, history>>
    BY DEF Types, IInv, Shapes, TokensObtained
  <1>1. /\ flow.step \in {"token", "refresh"}
        /\ DOMAIN tokens \subseteq DOMAIN tokens'
        /\ \A k \in DOMAIN tokens : tokens'[k] = tokens[k]
        /\ fresh => token \in DOMAIN tokens' /\ tokens'[token] = grant
        /\ ~fresh => token = flow.token
    BY TokensGrow
  <1>2. /\ flow.step = "token" => requests[flow.code] = grant
        /\ flow.step = "refresh" => tokens[flow.token] = grant
    BY DEF TokensObtained, Accepted, Accepts, Awaits, Pair
  <1>3. /\ Keeps({"refreshToken"})
        /\ \/ record' = record
           \/ /\ flow.step = "refresh" /\ Readable(record)' /\ fresh
              /\ Stored("refreshToken")' = token
    <2>1. CASE record' = record
      BY <2>1 DEF Keeps, Stored
    <2>2. CASE /\ Awaits("refresh") /\ fresh
               /\ record' = SetForUser(record, [refreshToken |-> token])
      <3> DEFINE values == [refreshToken |-> token]
      <3>1. /\ DOMAIN values = {"refreshToken"}
            /\ values["refreshToken"] = token
            /\ record' = SetForUser(record, values)
        BY <2>2
      <3> HIDE DEF values, token
      <3>2. \A field \in DOMAIN FieldType :
              Stored(field)' = IF field = "refreshToken" THEN token
                                                         ELSE Stored(field)
        BY <1>0, <3>1, StoredTyped, Writes DEF Stored
      <3>3. Readable(record)'
        BY <3>1, SetReadable
      <3> QED
        BY <2>2, <3>2, <3>3, Fields DEF Keeps, Awaits
    <2> QED
      BY <2>1, <2>2 DEF TokensObtained
  <1>4. \/ flow' = NoFlow
        \/ /\ SameLogin /\ flow'.step = "jwks" /\ flow'.token = token
           /\ flow'.client = flow.client /\ flow.kind # "fetch"
    <2> HIDE DEF token
    <2>1. ASSUME NEW idToken,
                 flow' = [flow EXCEPT !.step = "jwks", !.token = token,
                                      !.idToken = idToken]
          PROVE  /\ SameLogin /\ flow'.step = "jwks" /\ flow'.token = token
                 /\ flow'.client = flow.client
      BY <1>0, <2>1 DEF NoFlow, SameLogin
    <2> QED
      BY <2>1 DEF TokensObtained, Throw, token
  <1>5. session' = session \/ (flow.kind = "fetch" /\ session'.token = token)
    <2> HIDE DEF token
    <2>1. session' = session
            \/ (flow.kind = "fetch" /\ session' = [session EXCEPT !.token = token])
      BY DEF TokensObtained, token
    <2> QED
      BY <1>0, <2>1 DEF StorageTyped
  <1> HIDE DEF token, grant
  <1>6. Obtains(token)
    BY <1>0, <1>1, <1>2, <1>3, <1>4, <1>5 DEF Obtains, history, grant
  <1> QED
    BY <1>1, <1>6 DEF token

\* The session has logged in, with the tokens of the flow.
LogsIn ==
  /\ flow' = NoFlow
  /\ session'.webId = [iss |-> flow.idToken.iss, aud |-> flow.idToken.aud]
  /\ session'.dpop = flow.dpop
  /\ session'.token = IF platform = "node" THEN flow.token ELSE None
  /\ last' = Grant

LEMMA LogInDoes ==
  ASSUME LogIn, flow' = NoFlow
  PROVE  LogsIn
  BY DEF LogIn, LogsIn, WebIdOf

Checked ==
  /\ IssuerToCheck # Undefined => flow.idToken.iss = flow.issuer
  /\ flow.idToken.aud = flow.client.clientId

LEMMA GivesChecked ==
  ASSUME Types, flow.step = "jwks", GivesWebId
  PROVE  Checked
  <1>1. IssuerToCheck \in {Undefined, flow.issuer}
    BY IssuerNames DEF Types, FlowStepped, IsDocumentOf, IssuerToCheck
  <1> QED
    BY <1>1 DEF GivesWebId, HasWebId, Verified, Checked

\* The browser keeps the ID token.
KeepsIdToken ==
  /\ platform = "browser"
  /\ SameLogin /\ flow'.step = "profile" /\ flow'.token = flow.token
  /\ flow'.client = flow.client /\ flow'.idToken = flow.idToken
  /\ flow'.config = flow.config
  /\ Keeps({"idToken"}) /\ Stored("idToken")' = flow.idToken
  /\ Readable(record)' /\ UNCHANGED <<session, last>>

\* The node package stores what completes a login, all or the first of it.
Saves ==
  /\ platform = "node" /\ flow' = NoFlow /\ Readable(record)'
  /\ Keeps({"isLoggedIn", "idToken", "webId", "refreshToken", "issuer", "dpop",
            "clientId", "clientSecret"})
  /\ \/ Stored("refreshToken")' = Stored("refreshToken")
     \/ Stored("refreshToken")' = flow.token /\ flow.token # None
  /\ Stored("issuer")' \in {Stored("issuer"), flow.issuer}
  /\ Stored("dpop")' \in {Stored("dpop"), flow.dpop}
  /\ Stored("clientId")' \in {Stored("clientId"), flow.client.clientId}
  /\ Stored("clientSecret")' \in {Stored("clientSecret"),
                                  flow.client.clientSecret}

LEMMA SavesCompleted ==
  ASSUME IInv, Types, flow.step = "jwks", platform = "node", flow' = NoFlow,
         NEW values, record' = SetForUser(record, values),
         DOMAIN values \subseteq DOMAIN CompletedFields,
         \A field \in DOMAIN values : values[field] = CompletedFields[field]
  PROVE  Saves
  <1>1. /\ DOMAIN flow.client = DOMAIN NoClient /\ StorageTyped
        /\ flow.kind = "redirect" \/ flow.token # None
        /\ DOMAIN CompletedFields \subseteq DOMAIN FieldType
    BY CompletedTyped DEF Types, IInv, Shapes, FlowStepped
  <1>2. /\ DOMAIN CompletedFields \subseteq
             {"isLoggedIn", "idToken", "webId", "refreshToken", "issuer",
              "dpop", "clientId", "clientSecret"}
        /\ "refreshToken" \in DOMAIN CompletedFields =>
             /\ CompletedFields["refreshToken"] = flow.token
             /\ flow.token # None
        /\ "issuer" \in DOMAIN CompletedFields =>
             CompletedFields["issuer"] = flow.issuer
        /\ "dpop" \in DOMAIN CompletedFields =>
             CompletedFields["dpop"] = flow.dpop
        /\ "clientId" \in DOMAIN CompletedFields =>
             CompletedFields["clientId"] = flow.client.clientId
        /\ "clientSecret" \in DOMAIN CompletedFields =>
             CompletedFields["clientSecret"] = flow.client.clientSecret
    <2>1. CASE flow.kind = "redirect"
      BY <1>1, <2>1, RedirectedHas DEF CompletedFields
    <2>2. CASE flow.kind # "redirect"
      BY <1>1, <2>2, RefreshedHas DEF CompletedFields
    <2> QED
      BY <2>1, <2>2
  <1>3. \A field \in DOMAIN FieldType :
          Stored(field)' = IF field \in DOMAIN values THEN values[field]
                                                      ELSE Stored(field)
    BY <1>1, StoredTyped, Writes DEF Stored
  <1>4. Readable(record)'
    BY <1>1, SetReadable, Fields
  <1>5. \A field \in DOMAIN FieldType :
          Stored(field)' \in {Stored(field)} \cup
            (IF field \in DOMAIN CompletedFields THEN {CompletedFields[field]}
                                                 ELSE {})
    BY <1>3
  <1> QED
    BY <1>2, <1>4, <1>5, Fields DEF Saves, Keeps

LEMMA KeysFetchedDoes ==
  ASSUME IInv, Types, KeysFetched
  PROVE  /\ flow.step = "jwks"
         /\ \/ flow' = NoFlow /\ SameData /\ UNCHANGED session
            \/ /\ Checked /\ (KeepsIdToken \/ (Saves /\ LogsIn))
               /\ UNCHANGED <<platform, states, requests, clients, tokens,
                              asked, mixed>>
  <1>0. /\ StorageTyped /\ FlowTyped /\ DOMAIN flow = DOMAIN NoFlow
        /\ flow.step = "jwks" /\ IsStore(record)
        /\ UNCHANGED <<platform, states, provider, asked, mixed>>
    BY StoredTyped DEF Types, IInv, Shapes, KeysFetched, Awaits
  <1>1. CASE Throw /\ UNCHANGED <<record, memory, session, last>>
    BY <1>0, <1>1 DEF Throw, SameData, provider
  <1>2. CASE /\ platform = "browser" /\ GivesWebId
             /\ record' = SetForUser(record, BrowserFields)
             /\ Goto("profile") /\ UNCHANGED <<session, last>>
    <2>1. /\ flow'.kind = flow.kind /\ flow'.issuer = flow.issuer
          /\ flow'.dpop = flow.dpop /\ flow'.code = flow.code
          /\ flow'.step = "profile" /\ flow'.token = flow.token
          /\ flow'.client = flow.client /\ flow'.idToken = flow.idToken
          /\ flow'.config = flow.config
      BY <1>0, <1>2 DEF Goto, NoFlow
    <2>2. \A field \in DOMAIN FieldType :
            Stored(field)' = IF field = "idToken" THEN flow.idToken
                                                  ELSE Stored(field)
      <3>1. /\ DOMAIN BrowserFields = {"idToken"}
            /\ BrowserFields["idToken"] = flow.idToken
        BY DEF BrowserFields
      <3> QED
        BY <1>0, <1>2, <3>1, Writes DEF Stored
    <2>3. Readable(record)'
      BY <1>2, SetReadable DEF BrowserFields
    <2> QED
      BY <1>0, <1>2, <2>1, <2>2, <2>3, GivesChecked, Fields DEF KeepsIdToken,
        Keeps, SameLogin, provider
  <1>3. CASE /\ platform # "browser" /\ GivesWebId
             /\ record' = SetForUser(record, CompletedFields)
             /\ LogIn /\ Throw /\ UNCHANGED memory
    <2>1. platform = "node" /\ LogsIn /\ flow' = NoFlow
      BY <1>0, <1>3, LogInDoes, LoginAssumption DEF StorageTyped, Throw
    <2> QED
      BY <1>0, <1>3, <2>1, GivesChecked, SavesCompleted DEF provider
  <1> QED
    BY <1>1, <1>2, <1>3 DEF KeysFetched

LEMMA SavingStopsDoes ==
  ASSUME IInv, Types, NEW count, SavingStops(count)
  PROVE  /\ flow.step = "jwks" /\ Saves /\ session' = NewSession
         /\ UNCHANGED <<platform, states, requests, clients, tokens, asked,
                        mixed, last>>
  <1> DEFINE values == FirstOfFields(count)
  <1>1. /\ DOMAIN values \subseteq DOMAIN CompletedFields
        /\ \A field \in DOMAIN values : values[field] = CompletedFields[field]
    BY DEF FirstOfFields
  <1>2. record' = SetForUser(record, values)
    BY DEF SavingStops
  <1> HIDE DEF values
  <1>3. Saves
    BY <1>1, <1>2, SavesCompleted DEF SavingStops, Awaits, Throw
  <1> QED
    BY <1>3 DEF SavingStops, Awaits, provider, history

\* The login goes on with the stored refresh token.
UsesRefreshToken ==
  /\ flow.step = "handle" /\ platform = "node"
  /\ Stored("refreshToken") \in DOMAIN tokens
  /\ SameLogin /\ flow'.step = "context"
  /\ flow'.token = Stored("refreshToken")
  /\ Keeps({"issuer", "dpop", "clientId", "clientSecret"})
  /\ Stored("issuer")' = flow.issuer /\ Stored("dpop")' = flow.dpop
  /\ Stored("clientId")' = flow.client.clientId
  /\ Stored("clientSecret")' = flow.client.clientSecret
  /\ Readable(record)'
  /\ asked'.issuer = asked.issuer /\ asked'.clientId = asked.clientId
  /\ asked'.dpop = flow.dpop
  /\ UNCHANGED <<platform, states, requests, clients, tokens, session, mixed,
                 last>>

LEMMA RefreshAccessDoes ==
  ASSUME IInv, Types, RefreshAccess
  PROVE  UsesRefreshToken
  <1> DEFINE values == [issuer |-> flow.issuer, dpop |-> flow.dpop,
                        clientId |-> flow.client.clientId,
                        clientSecret |-> flow.client.clientSecret]
  <1>0. /\ StorageTyped /\ HistoryTyped /\ FlowTyped
        /\ DOMAIN flow = DOMAIN NoFlow /\ flow.step = "handle"
        /\ record' = SetForUser(record, values)
        /\ asked' = [asked EXCEPT !.dpop = flow.dpop]
        /\ UNCHANGED <<platform, memory, states, session, provider, mixed, last>>
    BY DEF Types, IInv, Shapes, RefreshAccess, Awaits
  <1>1. Stored("refreshToken") \in DOMAIN tokens /\ platform = "node"
    <2>1. /\ OidcHandler(Stored("refreshToken"), flow.client.clientId,
                         flow.config) = "refreshToken"
          /\ platform # "browser"
      BY DEF RefreshAccess, Handler
    <2> QED
      BY <1>0, <2>1, RefreshNeedsToken, LoginAssumption DEF StorageTyped
  <1>2. /\ SameLogin /\ flow'.step = "context"
        /\ flow'.token = Stored("refreshToken")
    BY <1>0 DEF RefreshAccess, NoFlow, SameLogin
  <1>3. /\ asked'.issuer = asked.issuer /\ asked'.clientId = asked.clientId
        /\ asked'.dpop = flow.dpop
    <2>1. asked \in LoginOptions
      BY <1>0 DEF HistoryTyped, NoFlow
    <2> QED
      BY <1>0, <2>1 DEF LoginOptions
  <1>4. /\ DOMAIN values = {"issuer", "dpop", "clientId", "clientSecret"}
        /\ values["issuer"] = flow.issuer /\ values["dpop"] = flow.dpop
        /\ values["clientId"] = flow.client.clientId
        /\ values["clientSecret"] = flow.client.clientSecret
    OBVIOUS
  <1> HIDE DEF values
  <1>5. \A field \in DOMAIN FieldType :
          Stored(field)' = IF field \in DOMAIN values
                             THEN values[field] ELSE Stored(field)
    BY <1>0, StoredTyped, Writes DEF Stored
  <1>6. Readable(record)'
    BY <1>0, <1>4, SetReadable
  <1> QED
    BY <1>0, <1>1, <1>2, <1>3, <1>4, <1>5, <1>6, Fields DEF UsesRefreshToken,
      Keeps, provider

\* The user is sent to the issuer.
Requested(request) ==
  /\ flow.step = "handle" /\ flow' = NoFlow
  /\ platform = "node" => Stored("refreshToken") = Undefined
  /\ request = Len(requests) + 1
  /\ Len(requests') = request /\ request # 0
  /\ requests'[request] = Pair(flow.issuer, flow.client.clientId)
  /\ states' = states \cup {request}
  /\ Keeps({"codeVerifier", "issuer", "dpop"})
  /\ Stored("codeVerifier")' = request
  /\ Stored("issuer")' = flow.issuer /\ Stored("dpop")' = flow.dpop
  /\ Readable(record)'
  /\ UNCHANGED <<platform, clients, tokens, session, asked, mixed, last>>

LEMMA RequestAuthorizationDoes ==
  ASSUME IInv, Types, RequestAuthorization
  PROVE  Requested(Len(requests) + 1)
  <1> DEFINE request == Len(requests) + 1
             values == LoginContext(request)
             grant == Pair(flow.issuer, flow.client.clientId)
  <1>0. /\ StorageTyped /\ ProviderTyped /\ flow.step = "handle"
        /\ flow' = NoFlow /\ requests' = Append(requests, grant)
        /\ states' = states \cup {request}
        /\ record' = SetForUser(record, values)
        /\ UNCHANGED <<platform, memory, session, clients, tokens, live, history>>
    BY DEF Types, RequestAuthorization, Awaits, Throw, Pair
  <1>1. platform = "node" => Stored("refreshToken") = Undefined
    <2> SUFFICES ASSUME platform = "node"
                 PROVE  Stored("refreshToken") = Undefined
      OBVIOUS
    <2>1. /\ flow.client.clientId # Undefined
          /\ OidcHandler(Stored("refreshToken"), flow.client.clientId,
                         flow.config) = "authorizationCodeWithPkce"
      BY <1>0 DEF RequestAuthorization, Handler, IInv, FlowHasClient
    <2> QED
      BY <2>1, RefreshIsFirst
  <1>2. grant \in Grants
    <2>1. flow.issuer \in Issuers
      BY <1>0 DEF Types, FlowStepped
    <2>2. flow.client.clientId \in ClientIds
      BY <1>0 DEF IInv, FlowHasClient, Types, FlowTyped, OrUndefined
    <2> QED
      BY <2>1, <2>2 DEF Grants, Pair
  <1> HIDE DEF grant
  <1>3. /\ Len(requests') = request /\ requests'[request] = grant
        /\ request # 0
    BY <1>0, <1>2, AppendGrant DEF ProviderTyped
  <1>4. /\ DOMAIN values = {"codeVerifier", "issuer", "dpop"}
        /\ values["codeVerifier"] = request
        /\ values["issuer"] = flow.issuer /\ values["dpop"] = flow.dpop
    BY DEF LoginContext
  <1> HIDE DEF values
  <1>5. \A field \in DOMAIN FieldType :
          Stored(field)' = IF field \in DOMAIN values
                             THEN values[field] ELSE Stored(field)
    BY <1>0, StoredTyped, Writes DEF Stored
  <1>6. Readable(record)'
    BY <1>0, <1>4, SetReadable
  <1> QED
    BY <1>0, <1>1, <1>3, <1>4, <1>5, <1>6, Fields DEF Requested, Keeps,
      history, grant

\* No stored field is in a record that is cleared, or damaged.
NothingStored == \A field \in DOMAIN FieldType : Stored(field) = Undefined

LEMMA Cleared ==
  ASSUME record' = NoData \/ record' = Corrupted
  PROVE  NothingStored'
  BY NothingIsStored, CorruptedHasNoField DEF NothingStored, Stored

-----------------------------------------------------------------------------
(* The stored data fit together.                                           *)

\* An issuer is stored under its own name.
LEMMA StoredIssuer ==
  ASSUME Types, Stored("issuer") # Undefined
  PROVE  IssuerOf[Stored("issuer")] = Stored("issuer")
  BY StoredTyped, IssuerNames DEF Types, OrUndefined

\* The call is over, and nothing else has changed.
LEMMA OverFits ==
  ASSUME DataFits, flow' = NoFlow, SameData, session' \in {session, NewSession}
  PROVE  DataFits'
  <1>1. /\ \A field \in DOMAIN FieldType : Stored(field)' = Stored(field)
        /\ session' = session
             \/ (session'.token = None /\ session'.isLoggedIn = FALSE)
    BY DEF SameData, Stored, NewSession
  <1>2. /\ flow'.step = "none" /\ flow'.kind = "none"
    BY DEF NoFlow
  <1>3. Owned'
    BY <1>1, <1>2, Fields DEF DataFits, Owned, IssuerAsAsked, GrantOfFlow,
      TokenOfFlow, SameData
  <1>4. RecordFits'
    BY <1>1, <1>2, Fields DEF DataFits, RecordFits, ClientFits, TypeFits,
      RequestFits, RefreshTokenFits, LastFits, SessionFits, StatesFit,
      StoredPair, Pair, Suits, Named, SecretOf, WebIdOf, SameData
  <1>5. FlowFits'
    BY <1>2 DEF FlowFits, StartFits, FlowClientFits, FlowContextFits,
      FlowGrantFits
  <1> QED
    BY <1>3, <1>4, <1>5 DEF DataFits

LEMMA InitFits == Init => DataFits
  <1> SUFFICES ASSUME Init PROVE DataFits
    OBVIOUS
  <1>1. \A field : Stored(field) = Undefined
    BY NothingIsStored DEF Init, Stored
  <1>2. flow.step = "none" /\ flow.kind = "none" /\ session.token = None
    BY DEF Init, NoFlow, NewSession
  <1>3. last = Undefined /\ states = {}
    BY DEF Init
  <1>4. Owned
    BY <1>1, <1>2 DEF Owned, IssuerAsAsked, GrantOfFlow, TokenOfFlow
  <1>5. RecordFits
    BY <1>1, <1>2, <1>3 DEF RecordFits, ClientFits, TypeFits,
      RequestFits, RefreshTokenFits, LastFits, SessionFits, StatesFit
  <1>6. FlowFits
    BY <1>1, <1>2 DEF FlowFits, StartFits, FlowClientFits, FlowContextFits,
      FlowGrantFits
  <1> QED
    BY <1>4, <1>5, <1>6 DEF DataFits

\* A session that keeps a refresh token has something stored.
LEMMA TokenMeansData ==
  ASSUME Types, SessionFits, ~mixed, session.token # None
  PROVE  record # NoData
  <1>1. tokens[session.token] \in Grants
    BY DEF Types, StorageTyped, ProviderTyped
  <1>2. tokens[session.token].clientId # Undefined
    BY <1>1, LoginAssumption DEF Grants
  <1> QED
    BY <1>2, NothingIsStored DEF SessionFits, Stored

LEMMA LoginFits ==
  ASSUME Types, DataFits, NEW options \in Options, Login(options)
  PROVE  DataFits'
  <1>0. /\ Owned /\ RecordFits /\ FlowFits /\ SessionFits
        /\ platform \in {"browser", "node"}
        /\ ~mixed /\ options \in LoginOptions /\ asked' = options
        /\ last' = Undefined
        /\ mixed' = (record' # NoData /\ (mixed \/ options # asked))
        /\ UNCHANGED <<platform, session, requests, clients, tokens>>
    BY LoginAssumption DEF DataFits, RecordFits, Login, provider, Types,
      StorageTyped
  <1>1. /\ flow'.kind = "login" /\ flow'.step = "config"
        /\ flow'.issuer = options.issuer /\ flow'.clientId = options.clientId
        /\ flow'.dpop = options.dpop
        /\ flow'.clientSecret = IF options.clientId = OwnClient
                                  THEN OwnClient ELSE Undefined
        /\ platform = "browser" => record' = NoData
    BY DEF Login, StartLogin, NoFlow
  <1>2. options.clientId # Undefined =>
          flow'.clientSecret = SecretOf(options.clientId)
    BY <1>0, <1>1, LoginAssumption DEF LoginOptions, SecretOf
  <1>3. FlowFits'
    <2>1. (flow.clientId # Undefined =>
             flow.clientSecret = SecretOf(flow.clientId))'
      BY <1>0, <1>1, <1>2 DEF SecretOf
    <2> QED
      BY <1>0, <1>1, <2>1 DEF FlowFits, StartFits, FlowClientFits,
        FlowContextFits, FlowGrantFits
  <1>4. CASE record' = NoData
    <2>1. NothingStored'
      BY <1>4, Cleared
    <2>2. session'.token = None
      BY <1>0, <1>4, TokenMeansData DEF Login, StartLogin, SessionFits
    <2>3. Owned'
      BY <1>0, <1>1, <2>1, Fields DEF Owned, IssuerAsAsked, GrantOfFlow,
        TokenOfFlow, NothingStored
    <2>4. platform = "browser" => states' = {}
      BY DEF Login, StartLogin
    <2>5. RecordFits'
      BY <1>0, <1>1, <2>1, <2>2, <2>4, Fields DEF RecordFits, ClientFits,
        TypeFits, RequestFits, RefreshTokenFits, LastFits, SessionFits,
        StatesFit, NothingStored
    <2> QED
      BY <1>3, <2>3, <2>5 DEF DataFits
  <1>5. CASE record' # NoData
    <2>1. UNCHANGED <<record, states>> /\ platform = "node"
      BY <1>0, <1>5 DEF Login, StartLogin
    <2>2. mixed' \/ UNCHANGED asked
      BY <1>0, <1>5
    <2>3. \A field : Stored(field)' = Stored(field)
      BY <2>1 DEF Stored
    <2>4. Owned'
      BY <1>0, <1>1, <2>1, <2>2, <2>3 DEF Owned, IssuerAsAsked,
        GrantOfFlow, TokenOfFlow
    <2>5. RecordFits'
      BY <1>0, <1>1, <2>1, <2>2, <2>3 DEF RecordFits, ClientFits,
        TypeFits, RequestFits, RefreshTokenFits, LastFits, SessionFits,
        StatesFit, StoredPair, Pair, Suits, Named, SecretOf
    <2> QED
      BY <1>3, <2>4, <2>5 DEF DataFits
  <1> QED
    BY <1>4, <1>5

LEMMA LogoutFits ==
  ASSUME DataFits, Logout
  PROVE  DataFits'
  <1>1. /\ NothingStored' /\ flow'.step = "none" /\ flow'.kind = "none"
        /\ session'.token = None /\ last' = Undefined
        /\ UNCHANGED <<platform, requests>>
        /\ platform = "browser" => states' = {}
    BY Cleared DEF Logout, NewSession, provider, NoFlow
  <1>2. Owned'
    BY <1>1, Fields DEF Owned, IssuerAsAsked, GrantOfFlow, TokenOfFlow,
      NothingStored
  <1>3. RecordFits'
    BY <1>1, Fields DEF RecordFits, ClientFits, TypeFits, RequestFits,
      RefreshTokenFits, LastFits, SessionFits, StatesFit, NothingStored
  <1>4. FlowFits'
    BY <1>1 DEF FlowFits, StartFits, FlowClientFits, FlowContextFits,
      FlowGrantFits
  <1> QED
    BY <1>2, <1>3, <1>4 DEF DataFits

\* A step that changes nothing but the flow, and does not come back to the
\* first steps of a login.
LEMMA SameDataFits ==
  ASSUME RecordFits, SameData, UNCHANGED session,
         platform = "browser" =>
           /\ flow'.kind # "fetch"
           /\ flow'.kind = "redirect" => flow.kind = "redirect"
           /\ flow'.step \notin {"context", "refresh", "jwks", "profile"}
           /\ flow'.step \in {"config", "register", "handle"} =>
                flow.step \in {"config", "register"}
  PROVE  RecordFits'
  <1>1. \A field : Stored(field)' = Stored(field)
    BY DEF SameData, Stored
  <1> QED
    BY <1>1 DEF RecordFits, ClientFits, TypeFits, RequestFits,
      RefreshTokenFits, LastFits, SessionFits, StatesFit, StoredPair, Pair,
      Suits, Named, SecretOf, WebIdOf, SameData

LEMMA FetchRefusedFits ==
  ASSUME Types, DataFits, FetchRefused
  PROVE  DataFits'
  <1>0. /\ Owned /\ RecordFits /\ SameData /\ UNCHANGED session
        /\ session.token # None /\ Readable(record)
        /\ Stored("issuer") # Undefined
    BY DEF DataFits, FetchRefused, HasLoginContext, SameData, provider, history
  <1>1. /\ flow'.kind = "fetch" /\ flow'.step = "context"
        /\ flow'.issuer = Stored("issuer") /\ flow'.token = session.token
    BY DEF FetchRefused, NoFlow
  <1>2. \A field : Stored(field)' = Stored(field)
    BY <1>0 DEF SameData, Stored
  <1>3. Owned'
    BY <1>0, <1>1, <1>2, StoredIssuer DEF Owned, IssuerAsAsked, GrantOfFlow,
      TokenOfFlow, SameData
  <1>4. RecordFits'
    BY <1>0, <1>1, SameDataFits DEF RecordFits, SessionFits
  <1>5. ~mixed => tokens[session.token] = StoredPair
    <2>1. tokens[session.token] \in Grants
      BY <1>0 DEF Types, StorageTyped, ProviderTyped
    <2> QED
      BY <1>0, <2>1 DEF RecordFits, SessionFits, Owned, IssuerAsAsked,
        StoredPair, Pair, Grants
  <1>6. FlowFits'
    BY <1>0, <1>1, <1>2, <1>5 DEF FlowFits, StartFits, FlowClientFits,
      FlowContextFits, FlowGrantFits, SameData, StoredPair, Pair
  <1> QED
    BY <1>3, <1>4, <1>6 DEF DataFits

LEMMA RestoreFits ==
  ASSUME IInv, Types, DataFits, Restore
  PROVE  DataFits'
  <1>0. /\ Owned /\ RecordFits /\ SameData /\ UNCHANGED session
        /\ Readable(record) /\ Stored("issuer") # Undefined
        /\ platform \in {"browser", "node"}
    BY LoginAssumption DEF DataFits, Restore, Restorable, SameData, provider,
      history, Types, StorageTyped
  <1>1. /\ flow'.kind = "restore" /\ flow'.issuer = Stored("issuer")
        /\ flow'.dpop = TRUE
        /\ platform = "browser" =>
             /\ flow'.step = "validate" /\ flow'.clientId = Stored("clientId")
             /\ flow'.clientSecret = Stored("clientSecret")
             /\ Stored("clientId") # Undefined
        /\ platform = "node" =>
             /\ flow'.step = "config" /\ flow'.clientId = Undefined
             /\ Stored("refreshToken") # Undefined
    BY DEF Restore, RestoredFlow, Restorable, NoFlow
  <1>2. \A field : Stored(field)' = Stored(field)
    BY <1>0 DEF SameData, Stored
  <1>3. Owned'
    BY <1>0, <1>1, <1>2, StoredIssuer DEF Owned, IssuerAsAsked, GrantOfFlow,
      TokenOfFlow, SameData
  <1>4. RecordFits'
    BY <1>0, <1>1, SameDataFits
  <1>5. FlowFits'
    BY <1>0, <1>1, <1>2 DEF FlowFits, StartFits, FlowClientFits,
      FlowContextFits, FlowGrantFits, SameData, RecordFits, ClientFits,
      SecretOf, Suits, Named
  <1> QED
    BY <1>3, <1>4, <1>5 DEF DataFits

LEMMA ValidatedFits ==
  ASSUME IInv, Types, DataFits, NEW current, CurrentSessionValidated(current)
  PROVE  DataFits'
  <1>0. /\ Owned /\ RecordFits /\ FlowFits /\ SessionFits
        /\ flow.step = "validate" /\ DOMAIN flow = DOMAIN NoFlow
        /\ FlowTyped
        /\ UNCHANGED <<platform, session, provider, mixed>>
    BY DEF DataFits, RecordFits, CurrentSessionValidated, Awaits, IInv, Shapes,
      Types
  <1>1. CASE Throw /\ UNCHANGED <<record, memory, states, asked, last>>
    BY <1>0, <1>1, OverFits DEF Throw, SameData, provider
  <1>2. CASE /\ StartLogin([flow EXCEPT !.step = "config", !.idToken = Undefined])
             /\ asked' = [asked EXCEPT !.dpop = TRUE]
             /\ last' = Undefined
    <2>1. /\ platform = "browser" /\ flow.kind = "restore" /\ flow.dpop = TRUE
          /\ session.token = None
      BY <1>0 DEF FlowFits, StartFits, SessionFits
    <2>2. /\ record' = NoData /\ states' = {}
          /\ flow' = [flow EXCEPT !.step = "config", !.idToken = Undefined]
      BY <1>2, <2>1 DEF StartLogin
    <2>3. NothingStored'
      BY <2>2, Cleared
    <2>4. /\ flow'.step = "config" /\ flow'.kind = flow.kind
          /\ flow'.issuer = flow.issuer /\ flow'.dpop = flow.dpop
          /\ flow'.clientId = flow.clientId
          /\ flow'.clientSecret = flow.clientSecret
      BY <1>0, <2>2 DEF NoFlow
    <2>5. /\ asked'.issuer = asked.issuer /\ asked'.clientId = asked.clientId
          /\ asked'.dpop = TRUE
      <3>1. asked \in LoginOptions
        BY <1>0 DEF Types, HistoryTyped, NoFlow
      <3> QED
        BY <1>2, <3>1 DEF LoginOptions
    <2>6. Owned'
      BY <1>0, <2>3, <2>4, <2>5, Fields DEF Owned, IssuerAsAsked, GrantOfFlow,
        TokenOfFlow, NothingStored
    <2>7. RecordFits'
      BY <1>0, <1>2, <2>1, <2>2, <2>3, <2>4, Fields DEF RecordFits, ClientFits,
        TypeFits, RequestFits, RefreshTokenFits, LastFits, SessionFits,
        StatesFit, NothingStored
    <2>8. FlowFits'
      BY <1>0, <2>1, <2>2, <2>4, <2>5 DEF FlowFits, StartFits, FlowClientFits,
        FlowContextFits, FlowGrantFits, SecretOf, Suits, Named, provider
    <2> QED
      BY <2>6, <2>7, <2>8 DEF DataFits
  <1> QED
    BY <1>1, <1>2 DEF CurrentSessionValidated

\* Whoever finds a stored issuer finds a client: IInv, on Stored.
LEMMA StoredClientWithIssuer ==
  ASSUME IInv, Types, Stored("issuer") # Undefined
  PROVE  Stored("clientId") # Undefined
  <1>1. Readable(record)
    BY CorruptedHasNoField, UserDataReadable, Fields DEF Types, StorageTyped,
      Stored
  <1> QED
    BY <1>1 DEF IInv, ClientWithIssuer, Stored

LEMMA FindsClientFits ==
  ASSUME DataFits, SameData, UNCHANGED session,
         \/ flow.step = "config" /\ FindsClient("handle")
         \/ flow.step = "context" /\ FindsClient("refresh")
         \/ flow.step = "redirectConfig" /\ FindsClient("token"),
         flow.kind = "redirect" <=> flow.step = "redirectConfig", FlowStepped
  PROVE  DataFits'
  <1>0. /\ Owned /\ RecordFits /\ FlowFits /\ SameLogin
        /\ flow'.token = flow.token
        /\ flow.step # "config" => flow'.issuer = flow.issuer
    BY DEF DataFits, FindsClient, SameLogin, FlowStepped
  <1>1. \A field : Stored(field)' = Stored(field)
    BY DEF SameData, Stored
  <1>2. Owned'
    BY <1>0, <1>1 DEF Owned, IssuerAsAsked, GrantOfFlow, TokenOfFlow,
      SameData, FindsClient, SameLogin
  <1>3. RecordFits'
    <2>1. platform = "browser" =>
            /\ flow'.kind # "fetch" /\ flow'.kind = flow.kind
            /\ flow'.step \in {"handle", "token"}
            /\ flow'.step = "handle" => flow.step = "config"
      BY <1>0 DEF RecordFits, SessionFits, SameLogin, FindsClient
    <2> QED
      BY <1>0, <2>1, SameDataFits
  <1>4. StartFits'
    BY <1>0, <1>1 DEF FlowFits, StartFits, FindsClient, SameData, SameLogin
  <1>5. FlowClientFits'
    BY <1>0, <1>1 DEF RecordFits, ClientFits, FlowClientFits, FindsClient,
      SameData, SecretOf
  <1>6. FlowContextFits'
    BY <1>0, <1>1 DEF FlowFits, FlowContextFits, FindsClient, SameData,
      SameLogin
  <1>7. FlowGrantFits'
    BY <1>0, <1>1 DEF FlowFits, FlowGrantFits, FindsClient, SameData,
      SameLogin, StoredPair, Pair
  <1> QED
    BY <1>2, <1>3, <1>4, <1>5, <1>6, <1>7 DEF DataFits, FlowFits

\* Only a login that named no client of its own registers one.
LEMMA RegistersWhenUnnamed ==
  ASSUME IInv, Types, DataFits, AsksToRegister, ~mixed,
         \/ flow.clientId = Undefined
         \/ /\ flow.clientId \in UrlClients
            /\ IssuerOf[flow.issuer] \notin SolidIssuers
  PROVE  ~Named
  <1>0. /\ flow.step = "config" /\ Readable(record)
        /\ Stored("clientId") = Undefined
        /\ IssuerOf[flow.issuer] = AskedIssuer
        /\ StartFits /\ RefreshTokenFits
    BY DEF AsksToRegister, DataFits, Owned, IssuerAsAsked, FlowFits, RecordFits
  <1>1. CASE flow.clientId = asked.clientId
    BY <1>0, <1>1 DEF Named
  <1>2. CASE Suits(flow.clientId)
    <2>1. SUFFICES ASSUME Named PROVE FALSE
      OBVIOUS
    <2>2. flow.clientId = asked.clientId
      BY <1>2, <2>1 DEF Suits
    <2> QED
      BY <1>0, <2>1, <2>2 DEF Named
  <1>3. CASE platform = "node" /\ flow.kind = "restore"
    <2>1. Stored("issuer") # Undefined
      BY <1>0, <1>3 DEF StartFits, RefreshTokenFits
    <2> QED
      BY <1>0, <2>1, StoredClientWithIssuer
  <1> QED
    BY <1>0, <1>1, <1>2, <1>3 DEF StartFits

LEMMA AsksToRegisterFits ==
  ASSUME IInv, Types, DataFits, SameData, UNCHANGED session, AsksToRegister,
         \/ flow.clientId = Undefined
         \/ /\ flow.clientId \in UrlClients
            /\ IssuerOf[flow.issuer] \notin SolidIssuers
  PROVE  DataFits'
  <1>0. Owned /\ RecordFits /\ FlowFits /\ SameLogin
    BY DEF DataFits, AsksToRegister
  <1>1. \A field : Stored(field)' = Stored(field)
    BY DEF SameData, Stored
  <1>2. Owned'
    BY <1>0, <1>1 DEF Owned, IssuerAsAsked, GrantOfFlow, TokenOfFlow,
      SameData, AsksToRegister, SameLogin
  <1>3. RecordFits'
    <2>1. platform = "browser" =>
            flow'.kind # "fetch" /\ flow'.kind = flow.kind
      BY <1>0 DEF RecordFits, SessionFits, SameLogin
    <2> QED
      BY <1>0, <2>1, SameDataFits DEF AsksToRegister
  <1>4. StartFits'
    <2>1. mixed \/ ~Named
      BY RegistersWhenUnnamed
    <2> QED
      BY <1>0, <1>1, <2>1 DEF FlowFits, StartFits, AsksToRegister, SameData,
        SameLogin, Named
  <1>5. FlowClientFits' /\ FlowContextFits' /\ FlowGrantFits'
    BY <1>0, <1>1 DEF FlowFits, FlowClientFits, FlowContextFits,
      FlowGrantFits, AsksToRegister, SameData, SameLogin
  <1> QED
    BY <1>2, <1>3, <1>4, <1>5 DEF DataFits, FlowFits

\* A write of the client that a login uses over the one that is stored: it is
\* the same, if there is one.
LEMMA GivenSuits ==
  ASSUME Types, DataFits, UsesGiven, flow.step = "config", ~mixed
  PROVE  /\ Suits(flow.clientId)
         /\ flow.clientSecret = SecretOf(flow.clientId)
         /\ Stored("clientId") \in {Undefined, flow.clientId}
         /\ platform = "node" => Named /\ flow.clientId = asked.clientId
  <1>0. /\ IssuerOf[flow.issuer] = AskedIssuer /\ StartFits /\ ClientFits
        /\ flow.clientId # Undefined
        /\ flow.clientId \in UrlClients => IssuerOf[flow.issuer] \in SolidIssuers
        /\ platform \in {"browser", "node"}
    BY LoginAssumption DEF DataFits, Owned, IssuerAsAsked, FlowFits,
      RecordFits, UsesGiven, Types, StorageTyped
  <1>1. Suits(flow.clientId) /\ (platform = "node" => Named)
    BY <1>0 DEF StartFits, Suits, Named
  <1>2. platform = "node" => flow.clientId = asked.clientId
    BY <1>1 DEF Suits
  <1>3. Stored("clientId") \in {Undefined, flow.clientId}
    <2>1. CASE platform = "node"
      BY <1>0, <1>1, <2>1 DEF ClientFits, Suits
    <2>2. CASE platform = "browser"
      BY <1>0, <2>2, NothingIsStored DEF StartFits, Stored
    <2> QED
      BY <1>0, <2>1, <2>2
  <1> QED
    BY <1>0, <1>1, <1>2, <1>3 DEF StartFits

LEMMA UsesGivenFits ==
  ASSUME IInv, Types, DataFits, flow.step = "config", UsesGiven
  PROVE  DataFits'
  <1>0. /\ Owned /\ RecordFits /\ FlowFits
        /\ flow.clientId # Undefined /\ Readable(record)'
        /\ \/ flow'.step = "none" /\ flow'.kind = "none"
           \/ /\ SameLogin /\ flow'.step = "handle" /\ flow'.token = flow.token
              /\ flow'.client.clientId = flow.clientId
              /\ flow'.client.clientSecret = flow.clientSecret
        /\ Stored("clientId")' = flow.clientId
        /\ UNCHANGED <<platform, states, requests, clients, tokens, session,
                       asked, mixed, last>>
    BY DEF DataFits, UsesGiven, GoesOnAs, NoFlow
  <1>1. /\ Stored("issuer")' = Stored("issuer")
        /\ Stored("dpop")' = Stored("dpop")
        /\ Stored("codeVerifier")' = Stored("codeVerifier")
        /\ Stored("refreshToken")' = Stored("refreshToken")
        /\ Stored("idToken")' = Stored("idToken")
    BY Fields DEF UsesGiven, Keeps
  <1>2. ~mixed => /\ Suits(flow.clientId)
                  /\ flow.clientSecret = SecretOf(flow.clientId)
                  /\ Stored("clientId") \in {Undefined, flow.clientId}
                  /\ platform = "node" => Named /\ flow.clientId = asked.clientId
    BY GivenSuits
  <1>3. ~mixed => Stored("clientSecret")' = SecretOf(flow.clientId)
    BY <1>0, <1>2 DEF RecordFits, ClientFits, UsesGiven
  <1>4. ~mixed /\ platform = "node" => flow.clientId \notin DynamicClients
    <2>1. asked \in LoginOptions
      BY DEF Types, HistoryTyped, NoFlow
    <2> QED
      BY <1>0, <1>2, <2>1, LoginAssumption DEF LoginOptions
  <1>5. ~mixed /\ Stored("issuer") # Undefined => StoredPair' = StoredPair
    BY <1>0, <1>1, <1>2, StoredClientWithIssuer DEF StoredPair, Pair
  <1>6. Owned'
    BY <1>0, <1>1 DEF Owned, IssuerAsAsked, GrantOfFlow, TokenOfFlow, SameLogin
  <1>7. ClientFits' /\ FlowClientFits'
    BY <1>0, <1>2, <1>3, <1>4 DEF ClientFits, FlowClientFits, Suits, Named,
      SecretOf
  <1>8. TypeFits' /\ RequestFits' /\ RefreshTokenFits' /\ StatesFit'
    BY <1>0, <1>1, <1>5 DEF RecordFits, TypeFits, RequestFits,
      RefreshTokenFits, StatesFit
  <1>9. LastFits'
    <2>1. last # Undefined /\ ~mixed => Stored("issuer") # Undefined
      BY <1>0, LoginAssumption DEF Types, HistoryTyped, RecordFits, LastFits,
        StoredPair, Pair, Grants
    <2> QED
      BY <1>0, <1>1, <1>5, <2>1 DEF RecordFits, LastFits, WebIdOf
  <1>10. SessionFits'
    BY <1>0, <1>2, LoginAssumption DEF RecordFits, SessionFits, SameLogin,
      Named, Types, StorageTyped
  <1>11. StartFits' /\ FlowContextFits' /\ FlowGrantFits'
    BY <1>0, <1>1 DEF FlowFits, StartFits, FlowContextFits, FlowGrantFits,
      SameLogin
  <1> QED
    BY <1>6, <1>7, <1>8, <1>9, <1>10, <1>11 DEF DataFits, RecordFits, FlowFits

LEMMA RegistersFits ==
  ASSUME IInv, Types, DataFits, flow.step = "register",
         NEW clientId, Registers(clientId)
  PROVE  DataFits'
  <1>0. /\ Owned /\ RecordFits /\ FlowFits
        /\ Readable(record)' /\ Readable(record)
        /\ Stored("clientId") = Undefined
        /\ \/ flow'.step = "none" /\ flow'.kind = "none"
           \/ /\ SameLogin /\ flow'.step = "handle" /\ flow'.token = flow.token
              /\ flow'.client.clientId = clientId /\ flow' # NoFlow
        /\ UNCHANGED <<platform, states, requests, tokens, session, asked,
                       mixed, last>>
    BY DEF DataFits, FlowFits, StartFits, Registers, GoesOnAs, NoFlow
  <1>1. /\ clientId \in DynamicClients /\ clientId # Undefined
        /\ clientId # OwnClient /\ clientId \notin UrlClients
        /\ DOMAIN clients' = DOMAIN clients \cup {clientId}
        /\ \A c \in DOMAIN clients : clients'[c] = clients[c]
        /\ clients'[clientId].issuer = IssuerOf[flow.issuer]
        /\ Stored("clientId")' = clientId
    <2>1. clientId \in DynamicClients
      BY DEF Registers
    <2> QED
      BY <2>1, LoginAssumption DEF Registers, ClientIds
  <1>2. /\ Stored("issuer")' = Stored("issuer")
        /\ Stored("dpop")' = Stored("dpop")
        /\ Stored("codeVerifier")' = Stored("codeVerifier")
        /\ Stored("refreshToken")' = Stored("refreshToken")
        /\ Stored("idToken")' = Stored("idToken")
    BY Fields DEF Registers, Keeps
  <1>3. Stored("issuer") = Undefined /\ Stored("refreshToken") = Undefined
    BY <1>0, StoredClientWithIssuer DEF RecordFits, RefreshTokenFits
  <1>4. SecretOf(clientId)' =
          IF clients'[clientId].secret THEN clientId ELSE Undefined
    BY <1>1 DEF SecretOf
  <1>5. /\ Stored("clientSecret")' = SecretOf(clientId)'
        /\ flow'.step = "handle" =>
             flow'.client.clientSecret = SecretOf(clientId)'
        /\ platform = "node" =>
             /\ flow'.step = "handle" =>
                  flow'.client.idTokenSignedResponseAlg = clients'[clientId].alg
             /\ Stored("idTokenSignedResponseAlg")' = clients'[clientId].alg
    BY <1>0, <1>4 DEF RecordFits, ClientFits, Registers, GoesOnAs, NoFlow
  <1>6. ~mixed => ~Named /\ IssuerOf[flow.issuer] = AskedIssuer
    BY <1>0 DEF FlowFits, StartFits, Owned, IssuerAsAsked
  <1>7. Owned'
    BY <1>0, <1>2 DEF Owned, IssuerAsAsked, GrantOfFlow, TokenOfFlow, SameLogin
  <1>8. ClientFits' /\ FlowClientFits'
    <2>1. ~mixed => Suits(Stored("clientId"))'
      BY <1>0, <1>1, <1>6 DEF Suits, Named
    <2>2. /\ (SecretOf(Stored("clientId")))' =
               IF clients'[clientId].secret THEN clientId ELSE Undefined
          /\ flow'.step = "handle" =>
               (SecretOf(flow.client.clientId))' =
                 IF clients'[clientId].secret THEN clientId ELSE Undefined
      BY <1>0, <1>1 DEF SecretOf
    <2> QED
      BY <1>0, <1>1, <1>4, <1>5, <2>1, <2>2 DEF ClientFits, FlowClientFits
  <1>9. TypeFits' /\ RequestFits' /\ RefreshTokenFits' /\ StatesFit'
    BY <1>0, <1>2, <1>3 DEF RecordFits, TypeFits, RequestFits,
      RefreshTokenFits, StatesFit
  <1>10. LastFits'
    <2>1. last # Undefined /\ ~mixed => Stored("issuer") # Undefined
      BY <1>0, LoginAssumption DEF Types, HistoryTyped, RecordFits, LastFits,
        StoredPair, Pair, Grants
    <2> QED
      BY <1>0, <1>3, <2>1 DEF LastFits
  <1>11. SessionFits'
    <2>1. ~mixed => session.token = None
      <3>1. session.token # None => tokens[session.token] \in Grants
        BY DEF Types, StorageTyped, ProviderTyped
      <3> QED
        BY <1>0, <3>1, LoginAssumption DEF RecordFits, SessionFits, Grants
    <2> QED
      BY <1>0, <2>1 DEF RecordFits, SessionFits, SameLogin
  <1>12. StartFits' /\ FlowContextFits' /\ FlowGrantFits'
    BY <1>0, <1>2 DEF FlowFits, StartFits, FlowContextFits, FlowGrantFits,
      SameLogin
  <1> QED
    BY <1>7, <1>8, <1>9, <1>10, <1>11, <1>12 DEF DataFits, RecordFits, FlowFits

LEMMA ObtainsFits ==
  ASSUME IInv, Types, DataFits, flow.step \in {"token", "refresh"},
         NEW token, Obtains(token)
  PROVE  DataFits'
  <1> DEFINE grant == Pair(flow.issuer, flow.client.clientId)
  <1>0. /\ Owned /\ RecordFits /\ FlowFits /\ Readable(record)
        /\ flow.kind = "redirect" <=> flow.step = "token"
        /\ flow.step = "refresh" => flow.token \in DOMAIN tokens
        /\ flow.step = "token" => flow.token = None
        /\ flow.code \in {None} \cup DOMAIN requests
        /\ flow.issuer \in Issuers
        /\ UNCHANGED <<platform, states, requests, clients, asked, mixed, last>>
    BY DEF DataFits, FlowFits, FlowContextFits, FlowGrantFits, Types,
      FlowStepped, FlowTyped, Obtains
  <1>1. /\ Stored("issuer")' = Stored("issuer")
        /\ Stored("dpop")' = Stored("dpop")
        /\ Stored("codeVerifier")' = Stored("codeVerifier")
        /\ Stored("clientId")' = Stored("clientId")
        /\ Stored("clientSecret")' = Stored("clientSecret")
        /\ Stored("idTokenSignedResponseAlg")' = Stored("idTokenSignedResponseAlg")
        /\ Stored("idToken")' = Stored("idToken")
    BY Fields DEF Obtains, Keeps
  <1>2. /\ grant = StoredPair /\ Stored("issuer") # Undefined
        /\ Stored("clientId") # Undefined
    <2>1. flow.issuer \in Issuers /\ flow.client.clientId # Undefined
      BY DEF Types, FlowStepped, IInv, FlowHasClient
    <2> QED
      BY <1>0, <2>1, LoginAssumption DEF FlowFits, FlowContextFits,
        FlowClientFits, StoredPair, Pair
  <1>3. /\ flow.step = "token" => requests[flow.code] = grant
        /\ flow.step = "refresh" => tokens[flow.token] = grant
        /\ DOMAIN tokens \subseteq DOMAIN tokens'
        /\ \A k \in DOMAIN tokens : tokens'[k] = tokens[k]
        /\ \/ token = flow.token
           \/ token \in DOMAIN tokens' /\ tokens'[token] = grant
    BY DEF Obtains
  <1>4. flow.step = "refresh" \/ token # flow.token =>
          token \in DOMAIN tokens' /\ tokens'[token] = grant
    BY <1>0, <1>3
  <1>5. Readable(record)'
    BY <1>0 DEF Obtains
  <1>6. \/ flow'.step = "none" /\ flow'.kind = "none"
        \/ /\ SameLogin /\ flow'.step = "jwks" /\ flow'.token = token
           /\ flow'.client = flow.client /\ flow.kind # "fetch"
    BY DEF Obtains, NoFlow
  <1> HIDE DEF grant
  <1>7. Owned'
    <2>1. IssuerAsAsked' /\ TokenOfFlow'
      BY <1>0, <1>1, <1>6 DEF Owned, IssuerAsAsked, TokenOfFlow, SameLogin
    <2>2. flow'.step = "jwks" =>
            Grant' = IF flow.kind = "redirect" THEN requests[flow.code]
                                               ELSE tokens'[token]
      BY <1>0, <1>6 DEF Grant, SameLogin
    <2>3. flow'.step = "jwks" => Grant' = grant
      BY <1>0, <1>3, <1>4, <2>2
    <2>4. GrantOfFlow'
      BY <1>0, <1>6, <2>3 DEF GrantOfFlow, SameLogin, grant, Pair
    <2> QED
      BY <2>1, <2>4 DEF Owned
  <1>8. ClientFits' /\ TypeFits' /\ RequestFits' /\ StatesFit'
    BY <1>0, <1>1, <1>6 DEF RecordFits, ClientFits, TypeFits, RequestFits,
      StatesFit, StoredPair, Pair, Suits, Named, SecretOf
  <1>9. RefreshTokenFits'
    <2>1. CASE record' = record
      <3>1. Stored("refreshToken")' = Stored("refreshToken")
        BY <2>1 DEF Stored
      <3>2. Stored("refreshToken") \in {Undefined} \cup DOMAIN tokens
        BY DEF Types, StorageTyped
      <3> QED
        BY <1>0, <1>1, <1>3, <3>1, <3>2 DEF RecordFits, RefreshTokenFits,
          StoredPair, Pair
    <2>2. CASE /\ Stored("refreshToken")' = token
               /\ tokens'[token] = Pair(flow.issuer, flow.client.clientId)
      BY <1>0, <1>1, <1>2, <2>2 DEF RefreshTokenFits, StoredPair, Pair, grant
    <2> QED
      BY <2>1, <2>2 DEF Obtains
  <1>10. LastFits'
    <2>1. platform = "browser" => session' = session
      BY <1>0 DEF RecordFits, SessionFits, Obtains
    <2> QED
      BY <1>0, <1>1, <2>1 DEF RecordFits, LastFits, StoredPair, Pair, WebIdOf
  <1>11. SessionFits'
    <2>1. CASE session' = session
      <3>1. session.token \in {None} \cup DOMAIN tokens
        BY DEF Types, StorageTyped
      <3> QED
        BY <1>0, <1>1, <1>3, <1>6, <2>1, <3>1 DEF RecordFits, SessionFits,
          Named, SameLogin
    <2>2. CASE flow.kind = "fetch" /\ session'.token = token
      <3>1. flow.step = "refresh"
        BY <1>0, <2>2
      <3>2. tokens'[token] = StoredPair
        BY <1>2, <1>4, <3>1
      <3>3. platform # "browser"
        BY <1>0, <2>2 DEF RecordFits, SessionFits
      <3>4. ~mixed => /\ Stored("issuer") = AskedIssuer
                      /\ Named => Stored("clientId") = asked.clientId
        BY <1>0, <1>2 DEF Owned, IssuerAsAsked, RecordFits, ClientFits, Suits
      <3> QED
        BY <1>0, <1>1, <2>2, <3>2, <3>3, <3>4 DEF SessionFits, StoredPair,
          Pair, Named
    <2> QED
      BY <2>1, <2>2 DEF Obtains
  <1>12. StartFits'
    BY <1>6 DEF StartFits, SameLogin
  <1>13. FlowClientFits' /\ FlowContextFits'
    BY <1>0, <1>1, <1>5, <1>6 DEF FlowFits, FlowClientFits, FlowContextFits,
      SecretOf, SameLogin
  <1>14. FlowGrantFits'
    <2>1. flow'.step = "jwks" /\ token # None => tokens'[token] = grant
      BY <1>0, <1>4
    <2> QED
      BY <1>0, <1>6, <2>1 DEF FlowGrantFits, SameLogin, grant, Pair
  <1> QED
    BY <1>7, <1>8, <1>9, <1>10, <1>11, <1>12, <1>13, <1>14 DEF DataFits,
      RecordFits, FlowFits

LEMMA KeepsIdTokenFits ==
  ASSUME IInv, Types, DataFits, flow.step = "jwks", Checked, KeepsIdToken,
         UNCHANGED <<platform, states, requests, clients, tokens, asked, mixed>>
  PROVE  DataFits'
  <1>0. /\ Owned /\ RecordFits /\ FlowFits /\ SameLogin
        /\ flow'.step = "profile" /\ flow'.token = flow.token
        /\ flow'.client = flow.client /\ flow'.idToken = flow.idToken
        /\ Stored("idToken")' = flow.idToken /\ Readable(record)'
        /\ platform = "browser" /\ flow'.config = flow.config
        /\ flow'.issuer = flow.issuer
        /\ ~session.isLoggedIn /\ flow.kind = "redirect"
        /\ UNCHANGED <<session, last>>
    BY DEF DataFits, KeepsIdToken, RecordFits, SessionFits, SameLogin, Types,
      FlowStepped
  <1>1. /\ Stored("issuer")' = Stored("issuer")
        /\ Stored("dpop")' = Stored("dpop")
        /\ Stored("codeVerifier")' = Stored("codeVerifier")
        /\ Stored("clientId")' = Stored("clientId")
        /\ Stored("clientSecret")' = Stored("clientSecret")
        /\ Stored("refreshToken")' = Stored("refreshToken")
    BY Fields DEF KeepsIdToken, Keeps
  <1>2. Owned'
    <2>1. IssuerAsAsked' /\ TokenOfFlow'
      BY <1>0, <1>1 DEF Owned, IssuerAsAsked, TokenOfFlow, IssuerToCheck,
        SameLogin, Checked
    <2>2. Grant' = Grant
      BY <1>0 DEF Grant, SameLogin
    <2> QED
      BY <1>0, <2>1, <2>2 DEF Owned, GrantOfFlow, SameLogin
  <1>3. ClientFits' /\ TypeFits' /\ RequestFits' /\ StatesFit'
          /\ RefreshTokenFits' /\ SessionFits'
    BY <1>0, <1>1 DEF RecordFits, ClientFits, TypeFits, RequestFits, StatesFit,
      RefreshTokenFits, SessionFits, StoredPair, Pair, Suits, Named, SecretOf,
      SameLogin
  <1>4. LastFits'
    <2>1. flow.idToken # Undefined
      <3>1. flow.idToken \in IdTokenValues
        BY DEF Types, FlowStepped
      <3> QED
        BY <3>1, UndefinedAssumption, Fields
    <2>2. flow.idToken.aud = Stored("clientId")
      BY <1>0 DEF Checked, FlowFits, FlowClientFits
    <2>3. StoredPair' = StoredPair /\ StoredPair.clientId = Stored("clientId")
      BY <1>1 DEF StoredPair, Pair
    <2> QED
      BY <1>0, <2>1, <2>2, <2>3 DEF RecordFits, LastFits
  <1>5. FlowFits'
    BY <1>0, <1>1 DEF FlowFits, StartFits, FlowClientFits, FlowContextFits,
      FlowGrantFits, SameLogin, SecretOf
  <1> QED
    BY <1>2, <1>3, <1>4, <1>5 DEF DataFits, RecordFits

LEMMA SavesFits ==
  ASSUME IInv, Types, DataFits, flow.step = "jwks", Saves,
         session'.token \in {flow.token, None}, last' \in {Grant, last},
         UNCHANGED <<platform, states, requests, clients, tokens, asked, mixed>>
  PROVE  DataFits'
  <1> DEFINE grant == Pair(flow.issuer, flow.client.clientId)
  <1>0. /\ Owned /\ RecordFits /\ FlowFits
        /\ platform = "node" /\ Readable(record)'
        /\ flow'.step = "none" /\ flow'.kind = "none"
        /\ flow.kind # "fetch"
    BY DEF DataFits, Saves, NoFlow, FlowFits, StartFits
  <1>1. /\ Stored("issuer") # Undefined /\ Stored("clientId") # Undefined
        /\ Stored("issuer") = flow.issuer
        /\ Stored("clientId") = flow.client.clientId
        /\ grant = StoredPair /\ Grant = grant
    <2>1. flow.issuer \in Issuers /\ flow.client.clientId # Undefined
      BY DEF Types, FlowStepped, IInv, FlowHasClient
    <2> QED
      BY <1>0, <2>1, LoginAssumption DEF FlowFits, FlowContextFits,
        FlowClientFits, StoredPair, Pair, Owned, GrantOfFlow
  <1>2. /\ ~mixed => Stored("dpop") = asked.dpop /\ flow.dpop = asked.dpop
        /\ ~mixed => /\ Stored("clientSecret") = SecretOf(Stored("clientId"))
                     /\ flow.client.clientSecret = SecretOf(Stored("clientId"))
    BY <1>0, <1>1 DEF RecordFits, TypeFits, ClientFits, FlowFits,
      FlowContextFits, FlowClientFits
  <1>3. /\ Stored("issuer")' = Stored("issuer")
        /\ Stored("clientId")' = Stored("clientId")
        /\ Stored("codeVerifier")' = Stored("codeVerifier")
        /\ Stored("idTokenSignedResponseAlg")' = Stored("idTokenSignedResponseAlg")
        /\ ~mixed => Stored("dpop")' = Stored("dpop")
        /\ ~mixed => Stored("clientSecret")' = Stored("clientSecret")
        /\ \/ Stored("refreshToken")' = Stored("refreshToken")
           \/ Stored("refreshToken")' = flow.token /\ flow.token # None
    BY <1>1, <1>2, Fields DEF Saves, Keeps
  <1>4. StoredPair' = StoredPair
    BY <1>3 DEF StoredPair, Pair
  <1>5. flow.token # None => tokens[flow.token] = StoredPair
    BY <1>0, <1>1 DEF FlowFits, FlowGrantFits
  <1> HIDE DEF grant
  <1>6. Owned'
    BY <1>0, <1>3 DEF Owned, IssuerAsAsked, GrantOfFlow, TokenOfFlow
  <1>7. ClientFits' /\ TypeFits' /\ RequestFits' /\ StatesFit'
    BY <1>0, <1>1, <1>3, <1>4 DEF RecordFits, ClientFits, TypeFits,
      RequestFits, StatesFit, Suits, Named, SecretOf
  <1>8. RefreshTokenFits'
    BY <1>0, <1>1, <1>3, <1>4, <1>5 DEF RecordFits, RefreshTokenFits
  <1>9. LastFits'
    BY <1>0, <1>1, <1>4 DEF RecordFits, LastFits
  <1>10. SessionFits'
    <2>1. ~mixed => /\ Stored("issuer") = AskedIssuer
                    /\ Named => Stored("clientId") = asked.clientId
      BY <1>0, <1>1 DEF Owned, IssuerAsAsked, RecordFits, ClientFits, Suits
    <2> QED
      BY <1>0, <1>3, <1>5, <2>1 DEF SessionFits, StoredPair, Pair, Named
  <1>11. FlowFits'
    BY <1>0 DEF FlowFits, StartFits, FlowClientFits, FlowContextFits,
      FlowGrantFits
  <1> QED
    BY <1>6, <1>7, <1>8, <1>9, <1>10, <1>11 DEF DataFits, RecordFits

LEMMA ProfileFetchedDoes ==
  ASSUME ProfileFetched
  PROVE  /\ flow.step = "profile" /\ LogsIn
         /\ UNCHANGED <<platform, record, states, requests, clients, tokens,
                        asked, mixed>>
  BY LogInDoes DEF ProfileFetched, Awaits, Throw, provider

LEMMA ProfileFetchedFits ==
  ASSUME Types, DataFits, ProfileFetched
  PROVE  DataFits'
  <1>0. /\ Owned /\ RecordFits /\ FlowFits /\ flow.step = "profile"
        /\ platform = "browser" /\ session'.token = None
        /\ flow'.step = "none" /\ flow'.kind = "none" /\ last' = Grant
        /\ UNCHANGED <<platform, record, states, requests, clients, tokens,
                       asked, mixed>>
    BY ProfileFetchedDoes DEF DataFits, LogsIn, NoFlow, FlowFits, FlowGrantFits
  <1>1. \A field : Stored(field)' = Stored(field)
    BY <1>0 DEF Stored
  <1>2. Owned'
    BY <1>0, <1>1 DEF Owned, IssuerAsAsked, GrantOfFlow, TokenOfFlow
  <1>3. ClientFits' /\ TypeFits' /\ RequestFits' /\ RefreshTokenFits'
          /\ SessionFits' /\ StatesFit'
    BY <1>0, <1>1 DEF RecordFits, ClientFits, TypeFits, RequestFits,
      RefreshTokenFits, SessionFits, StatesFit, StoredPair, Pair, Suits,
      Named, SecretOf
  <1>4. LastFits'
    <2>1. Stored("idToken") = flow.idToken /\ flow.idToken # Undefined
      <3>1. flow.idToken \in IdTokenValues
        BY <1>0 DEF Types, FlowStepped
      <3> QED
        BY <1>0, <3>1, UndefinedAssumption, Fields DEF FlowFits, FlowGrantFits
    <2>2. /\ Grant = Pair(flow.issuer, flow.client.clientId)
          /\ StoredPair = Pair(flow.issuer, flow.client.clientId)
      BY <1>0 DEF Owned, GrantOfFlow, FlowFits, FlowClientFits,
        FlowContextFits, StoredPair, Pair
    <2>3. /\ flow.idToken.aud = flow.client.clientId
          /\ session'.webId = WebIdOf(flow.idToken)
      BY <1>0, ProfileFetchedDoes DEF Owned, TokenOfFlow, LogsIn, WebIdOf
    <2>4. Grant.clientId = flow.client.clientId
      BY <2>2 DEF Pair
    <2>5. StoredPair' = StoredPair
      BY <1>1 DEF StoredPair, Pair
    <2>6. (WebIdOf(Stored("idToken")))' = WebIdOf(Stored("idToken"))
      BY <1>1 DEF WebIdOf
    <2>7. /\ Stored("idToken")' = flow.idToken
          /\ last'.clientId = flow.client.clientId
      BY <1>0, <1>1, <2>1, <2>4
    <2> QED
      BY <1>0, <2>1, <2>2, <2>3, <2>5, <2>6, <2>7 DEF LastFits
  <1>5. FlowFits'
    BY <1>0 DEF FlowFits, StartFits, FlowClientFits, FlowContextFits,
      FlowGrantFits
  <1> QED
    BY <1>2, <1>3, <1>4, <1>5 DEF DataFits, RecordFits

LEMMA UsesRefreshTokenFits ==
  ASSUME IInv, Types, DataFits, UsesRefreshToken
  PROVE  DataFits'
  <1>0. /\ Owned /\ RecordFits /\ FlowFits /\ SameLogin
        /\ flow.step = "handle" /\ platform = "node" /\ Readable(record)'
        /\ flow'.step = "context" /\ flow'.token = Stored("refreshToken")
        /\ flow'.issuer = flow.issuer /\ flow.issuer \in Issuers
        /\ Stored("refreshToken") # Undefined
        /\ Stored("issuer") # Undefined
        /\ asked'.issuer = asked.issuer /\ asked'.clientId = asked.clientId
        /\ asked'.dpop = flow.dpop
        /\ UNCHANGED <<platform, states, requests, clients, tokens, session,
                       mixed, last>>
    <2>1. Stored("refreshToken") # Undefined
      <3>1. DOMAIN tokens \subseteq RefreshTokens
        BY LoginAssumption DEF Types, ProviderTyped, RefreshTokens
      <3> QED
        BY <3>1, UndefinedAssumption, Fields DEF UsesRefreshToken
    <2> QED
      BY <2>1 DEF DataFits, UsesRefreshToken, RecordFits, RefreshTokenFits,
        SameLogin, Types, FlowStepped
  <1>1. /\ Stored("codeVerifier")' = Stored("codeVerifier")
        /\ Stored("refreshToken")' = Stored("refreshToken")
        /\ Stored("idTokenSignedResponseAlg")' = Stored("idTokenSignedResponseAlg")
        /\ Stored("issuer")' = flow.issuer /\ Stored("dpop")' = flow.dpop
        /\ Stored("clientId")' = flow.client.clientId
        /\ Stored("clientSecret")' = flow.client.clientSecret
    BY Fields DEF UsesRefreshToken, Keeps
  <1>2. /\ flow.issuer # Undefined /\ flow.client.clientId # Undefined
        /\ flow.client.clientId = Stored("clientId")
        /\ ~mixed => flow.issuer = AskedIssuer /\ Stored("issuer") = AskedIssuer
    <2>1. flow.client.clientId # Undefined
      BY <1>0 DEF IInv, FlowHasClient
    <2> QED
      BY <1>0, <2>1, IssuerNames DEF Owned, IssuerAsAsked, FlowFits,
        FlowClientFits
  <1>3. ~mixed => StoredPair' = StoredPair
    BY <1>1, <1>2 DEF StoredPair, Pair
  <1>4. /\ Named' = Named
        /\ \A c : Suits(c)' = Suits(c)
        /\ \A c : SecretOf(c)' = SecretOf(c)
    <2>1. Named' = Named
      BY <1>0 DEF Named
    <2> QED
      BY <1>0, <2>1 DEF Suits, SecretOf
  <1>5. Owned'
    BY <1>0, <1>1, <1>2 DEF Owned, IssuerAsAsked, GrantOfFlow, TokenOfFlow,
      SameLogin
  <1>6. ClientFits'
    <2>1. ~mixed => /\ Suits(Stored("clientId"))
                    /\ flow.client.clientSecret = SecretOf(Stored("clientId"))
      BY <1>0, <1>2 DEF RecordFits, ClientFits, FlowFits, FlowClientFits
    <2>2. Stored("clientId")' = Stored("clientId")
      BY <1>1, <1>2
    <2>3. /\ Suits(Stored("clientId"))' <=> Suits(Stored("clientId"))
          /\ SecretOf(Stored("clientId"))' = SecretOf(Stored("clientId"))
      BY <1>0, <2>2 DEF Suits, Named, SecretOf
    <2> QED
      BY <1>0, <1>1, <1>2, <2>1, <2>2, <2>3 DEF RecordFits, ClientFits
  <1>7. TypeFits' /\ RequestFits' /\ RefreshTokenFits' /\ StatesFit'
    BY <1>0, <1>1, <1>2, <1>3 DEF RecordFits, TypeFits, RequestFits,
      RefreshTokenFits, StatesFit
  <1>8. LastFits'
    BY <1>0, <1>3 DEF RecordFits, LastFits
  <1>9. SessionFits'
    <2>1. ~mixed => Stored("clientId")' = Stored("clientId")
      BY <1>1, <1>2
    <2>2. Readable(record)
      BY <1>0 DEF IInv, ClientIsStored
    <2> QED
      BY <1>0, <2>1, <2>2 DEF RecordFits, SessionFits, Named
  <1>10. FlowGrantFits'
    <2>1. ~mixed => tokens[Stored("refreshToken")] = StoredPair
      BY <1>0 DEF RecordFits, RefreshTokenFits
    <2> QED
      BY <1>0, <1>3, <2>1 DEF FlowGrantFits
  <1>11. FlowClientFits' /\ FlowContextFits'
    BY <1>0, <1>1 DEF FlowClientFits, FlowContextFits, SameLogin
  <1>12. StartFits'
    BY <1>0 DEF StartFits
  <1> QED
    BY <1>5, <1>6, <1>7, <1>8, <1>9, <1>10, <1>11, <1>12 DEF DataFits,
      RecordFits, FlowFits

LEMMA RequestedFits ==
  ASSUME IInv, Types, DataFits, NEW request, Requested(request)
  PROVE  DataFits'
  <1>0. /\ Owned /\ RecordFits /\ FlowFits /\ flow.step = "handle"
        /\ flow'.step = "none" /\ flow'.kind = "none" /\ Readable(record)'
        /\ Len(requests') = request /\ request # 0
        /\ requests'[request] = Pair(flow.issuer, flow.client.clientId)
        /\ UNCHANGED <<platform, clients, tokens, session, asked, mixed, last>>
    BY DEF DataFits, Requested, NoFlow
  <1>1. /\ Stored("clientId")' = Stored("clientId")
        /\ Stored("clientSecret")' = Stored("clientSecret")
        /\ Stored("idTokenSignedResponseAlg")' = Stored("idTokenSignedResponseAlg")
        /\ Stored("refreshToken")' = Stored("refreshToken")
        /\ Stored("idToken")' = Stored("idToken")
        /\ Stored("codeVerifier")' = request
        /\ Stored("issuer")' = flow.issuer /\ Stored("dpop")' = flow.dpop
    BY Fields DEF Requested, Keeps
  <1>2. /\ flow.client.clientId = Stored("clientId")
        /\ flow.issuer # Undefined
        /\ ~mixed => /\ flow.issuer = AskedIssuer
                     /\ Stored("issuer") # Undefined =>
                          Stored("issuer") = AskedIssuer
    <2>1. flow.issuer \in Issuers
      BY <1>0 DEF Types, FlowStepped
    <2> QED
      BY <1>0, <2>1, IssuerNames DEF Owned, IssuerAsAsked, FlowFits,
        FlowClientFits
  <1>3. /\ StoredPair' = Pair(flow.issuer, flow.client.clientId)
        /\ ~mixed /\ Stored("issuer") # Undefined => StoredPair' = StoredPair
    BY <1>1, <1>2 DEF StoredPair, Pair
  <1>4. ~mixed => flow.dpop = asked.dpop
    <2>1. platform = "node" => flow.kind # "restore"
      BY <1>0 DEF FlowFits, StartFits, Requested
    <2> QED
      BY <1>0, <2>1 DEF FlowFits, FlowContextFits
  <1>5. Owned'
    BY <1>0, <1>1, <1>2 DEF Owned, IssuerAsAsked, GrantOfFlow, TokenOfFlow
  <1>6. ClientFits'
    BY <1>0, <1>1 DEF RecordFits, ClientFits, Suits, Named, SecretOf
  <1>7. TypeFits' /\ RequestFits'
    BY <1>0, <1>1, <1>3, <1>4 DEF TypeFits, RequestFits
  <1>8. RefreshTokenFits'
    BY <1>0, <1>1, <1>2, <1>3 DEF RecordFits, RefreshTokenFits
  <1>9. LastFits'
    <2>1. last # Undefined /\ ~mixed => Stored("issuer") # Undefined
      BY <1>0, LoginAssumption DEF Types, HistoryTyped, RecordFits, LastFits,
        StoredPair, Pair, Grants
    <2> QED
      BY <1>0, <1>1, <1>3, <2>1 DEF RecordFits, LastFits, WebIdOf
  <1>10. SessionFits'
    <2>1. Readable(record)
      BY <1>0 DEF IInv, ClientIsStored
    <2> QED
      BY <1>0, <1>1, <2>1 DEF RecordFits, SessionFits, Named
  <1>11. StatesFit'
    BY <1>0 DEF RecordFits, StatesFit, Requested
  <1>12. FlowFits'
    BY <1>0 DEF FlowFits, StartFits, FlowClientFits, FlowContextFits,
      FlowGrantFits
  <1> QED
    BY <1>5, <1>6, <1>7, <1>8, <1>9, <1>10, <1>11, <1>12 DEF DataFits,
      RecordFits

LEMMA ReturnFits ==
  ASSUME IInv, Types, DataFits, NEW code, ReturnWithCode(code)
  PROVE  DataFits'
  <1>0. /\ Owned /\ RecordFits /\ FlowFits /\ SameData
        /\ session' = NewSession /\ session'.token = None
        /\ session'.isLoggedIn = FALSE
    BY DEF DataFits, ReturnWithCode, SameData, NewSession, history
  <1>1. CASE flow' = flow
    BY <1>0, <1>1, OverFits DEF ReturnWithCode
  <1>2. CASE /\ HasContext(code)
             /\ flow' = [NoFlow EXCEPT
                  !.kind = "redirect", !.step = "redirectConfig", !.code = code,
                  !.issuer = Stored("issuer"), !.dpop = (Stored("dpop") = TRUE)]
    <2>1. /\ flow'.kind = "redirect" /\ flow'.step = "redirectConfig"
          /\ flow'.issuer = Stored("issuer") /\ flow'.code = code
          /\ flow'.dpop = (Stored("dpop") = TRUE) /\ flow'.token = None
      BY <1>2 DEF NoFlow
    <2>2. /\ code \in states /\ Readable(record)
          /\ Stored("issuer") # Undefined
      BY <1>2 DEF HasContext, HasLoginContext
    <2>3. \A field : Stored(field)' = Stored(field)
      BY <1>0 DEF SameData, Stored
    <2>4. ~mixed => flow'.dpop = asked.dpop
      <3>1. record # NoData
        BY <2>2, NothingIsStored DEF Stored
      <3>2. asked.dpop \in BOOLEAN
        BY <3>1 DEF Types, HistoryTyped, LoginOptions
      <3>3. ~mixed => Stored("dpop") = asked.dpop
        BY <1>0, <2>2 DEF RecordFits, TypeFits
      <3>4. CASE asked.dpop = TRUE
        BY <2>1, <3>3, <3>4
      <3>5. CASE asked.dpop = FALSE
        BY <2>1, <3>3, <3>5
      <3> QED
        BY <3>2, <3>4, <3>5
    <2>5. Owned'
      BY <1>0, <2>1, <2>2, <2>3, StoredIssuer DEF Owned, IssuerAsAsked,
        GrantOfFlow, TokenOfFlow, SameData
    <2>6. RecordFits'
      BY <1>0, <2>1, <2>3 DEF RecordFits, ClientFits, TypeFits, RequestFits,
        RefreshTokenFits, LastFits, SessionFits, StatesFit, StoredPair, Pair,
        Suits, Named, SecretOf, WebIdOf, SameData
    <2>7. FlowFits'
      BY <1>0, <2>1, <2>2, <2>3, <2>4 DEF FlowFits, StartFits, FlowClientFits,
        FlowContextFits, FlowGrantFits, SameData
    <2> QED
      BY <2>5, <2>6, <2>7 DEF DataFits
  <1> QED
    BY <1>1, <1>2 DEF ReturnWithCode

LEMMA CorruptFits ==
  ASSUME DataFits, Corrupt
  PROVE  DataFits'
  <1>1. /\ NothingStored' /\ flow'.step = "none" /\ flow'.kind = "none"
        /\ last' = Undefined /\ ~Readable(record)' /\ platform' = "node"
        /\ UNCHANGED <<platform, session, requests, tokens, asked, mixed>>
        /\ SessionFits
    BY Cleared, CorruptedHasNoField DEF Corrupt, provider, NoFlow, DataFits,
      RecordFits
  <1>2. Owned'
    BY <1>1, Fields DEF Owned, IssuerAsAsked, GrantOfFlow, TokenOfFlow,
      NothingStored
  <1>3. RecordFits'
    BY <1>1, Fields DEF RecordFits, ClientFits, TypeFits, RequestFits,
      RefreshTokenFits, LastFits, SessionFits, StatesFit, NothingStored, Named
  <1>4. FlowFits'
    BY <1>1 DEF FlowFits, StartFits, FlowClientFits, FlowContextFits,
      FlowGrantFits
  <1> QED
    BY <1>2, <1>3, <1>4 DEF DataFits

-----------------------------------------------------------------------------
(* The invariant.                                                          *)

LEMMA ConfigFetchedFits ==
  ASSUME IInv, Types, DataFits, ConfigFetched
  PROVE  DataFits'
  <1>1. flow.step = "config" /\ flow.kind # "redirect"
    BY ConfigFetchedDoes DEF IInv, StartsAsLogin
  <1>2. CASE flow' = NoFlow /\ SameData /\ UNCHANGED session
    BY <1>2, OverFits
  <1>3. CASE FindsClient("handle") /\ SameData /\ UNCHANGED session
    BY <1>1, <1>3, FindsClientFits DEF Types
  <1>4. CASE /\ AsksToRegister /\ SameData /\ UNCHANGED session
             /\ \/ flow.clientId = Undefined
                \/ /\ flow.clientId \in UrlClients
                   /\ IssuerOf[flow.issuer] \notin SolidIssuers
    BY <1>4, AsksToRegisterFits
  <1>5. CASE UsesGiven
    BY <1>1, <1>5, UsesGivenFits
  <1> QED
    BY <1>2, <1>3, <1>4, <1>5, ConfigFetchedDoes

LEMMA ClientRegisteredFits ==
  ASSUME IInv, Types, DataFits, NEW response, ClientRegistered(response)
  PROVE  DataFits'
  <1>1. CASE flow' = NoFlow /\ SameData /\ UNCHANGED session
    BY <1>1, OverFits
  <1>2. CASE Registers(Len(clients) + 1)
    BY <1>2, ClientRegisteredDoes, RegistersFits
  <1> QED
    BY <1>1, <1>2, ClientRegisteredDoes

\* A flow that exchanges a grant finds the client in storage, or is over.
LEMMA ContextFits ==
  ASSUME IInv, Types, DataFits, RefreshContextLoaded \/ RedirectConfigFetched
  PROVE  DataFits'
  <1>1. /\ flow.step \in {"context", "redirectConfig"}
        /\ SameData /\ UNCHANGED session
    BY DEF RefreshContextLoaded, RedirectConfigFetched, Awaits, SameData,
      provider, history
  <1>2. flow.kind = "redirect" <=> flow.step = "redirectConfig"
    BY <1>1 DEF Types, FlowStepped
  <1>3. CASE flow' = NoFlow
    BY <1>1, <1>3, OverFits
  <1>4. ASSUME NEW config, GetClient(config), IsDocumentOf(flow.issuer, config)
        PROVE  DataFits'
    <2>1. \/ flow' = NoFlow
          \/ flow.step = "context" /\ FindsClient("refresh")
          \/ flow.step = "redirectConfig" /\ FindsClient("token")
      BY <1>1, <1>4, GetClientDoes DEF AsksToRegister
    <2> QED
      BY <1>1, <1>2, <1>3, <2>1, FindsClientFits DEF Types
  <1> QED
    BY <1>3, <1>4, DocumentNames DEF RefreshContextLoaded,
      RedirectConfigFetched, Throw

LEMMA TokensObtainedFits ==
  ASSUME IInv, Types, DataFits, NEW response, NEW fresh \in BOOLEAN,
         TokensObtained(response, fresh)
  PROVE  DataFits'
  BY TokensObtainedDoes, ObtainsFits

LEMMA KeysFetchedFits ==
  ASSUME IInv, Types, DataFits, KeysFetched
  PROVE  DataFits'
  <1>1. CASE flow' = NoFlow /\ SameData /\ UNCHANGED session
    BY <1>1, OverFits
  <1>2. CASE /\ Checked /\ (KeepsIdToken \/ (Saves /\ LogsIn))
             /\ UNCHANGED <<platform, states, requests, clients, tokens,
                            asked, mixed>>
    BY <1>2, KeysFetchedDoes, KeepsIdTokenFits, SavesFits DEF LogsIn
  <1> QED
    BY <1>1, <1>2, KeysFetchedDoes

LEMMA SavingStopsFits ==
  ASSUME IInv, Types, DataFits, NEW count, SavingStops(count)
  PROVE  DataFits'
  BY SavingStopsDoes, SavesFits DEF NewSession

\* The call is over, and the data are as they were.
LEMMA EndsFits ==
  ASSUME DataFits, RequestFails \/ NoSuitableHandler \/ ReturnWithout
  PROVE  DataFits'
  <1>1. flow' = NoFlow /\ SameData
    BY DEF RequestFails, NoSuitableHandler, ReturnWithout, Throw, SameData,
      provider, history
  <1>2. session' \in {session, NewSession}
    BY DEF RequestFails, NoSuitableHandler, ReturnWithout
  <1> QED
    BY <1>1, <1>2, OverFits

LEMMA StutterFits ==
  ASSUME DataFits, UNCHANGED vars
  PROVE  DataFits'
  <1>1. /\ SameData /\ UNCHANGED <<session, flow>>
    BY DEF vars, provider, history, SameData
  <1>2. \A field : Stored(field)' = Stored(field)
    BY <1>1 DEF SameData, Stored
  <1>3. Owned'
    BY <1>1, <1>2 DEF DataFits, Owned, IssuerAsAsked, GrantOfFlow,
      TokenOfFlow, IssuerToCheck, Grant, SameData
  <1>4. RecordFits'
    BY <1>1, <1>2 DEF DataFits, RecordFits, ClientFits, TypeFits, RequestFits,
      RefreshTokenFits, LastFits, SessionFits, StatesFit, StoredPair, Pair,
      Suits, Named, SecretOf, WebIdOf, SameData
  <1>5. FlowFits'
    BY <1>1, <1>2 DEF DataFits, FlowFits, StartFits, FlowClientFits,
      FlowContextFits, FlowGrantFits, StoredPair, Pair, Suits, Named,
      SecretOf, SameData
  <1> QED
    BY <1>3, <1>4, <1>5 DEF DataFits

LEMMA NextFits == IInv /\ Types /\ DataFits /\ [Next]_vars => DataFits'
  <1> SUFFICES ASSUME IInv, Types, DataFits, [Next]_vars PROVE DataFits'
    OBVIOUS
  <1>1. CASE UNCHANGED vars
    BY <1>1, StutterFits
  <1>2. CASE Application
    BY <1>2, LoginFits, LogoutFits, FetchRefusedFits, RestoreFits
      DEF Application
  <1>3. CASE Reply
    BY <1>3, ConfigFetchedFits, ValidatedFits, ClientRegisteredFits,
      ContextFits, TokensObtainedFits, KeysFetchedFits, SavingStopsFits,
      ProfileFetchedFits, EndsFits DEF Reply
  <1>4. CASE Continuation
    BY <1>4, RefreshAccessDoes, UsesRefreshTokenFits,
      RequestAuthorizationDoes, RequestedFits, EndsFits DEF Continuation
  <1>5. CASE Environment
    BY <1>5, ReturnFits, CorruptFits, EndsFits DEF Environment
  <1> QED
    BY <1>1, <1>2, <1>3, <1>4, <1>5 DEF Next

LEMMA DataInvariant == Spec => [](IInv /\ Types /\ DataFits)
  BY InitIInv, NextIInv, InitTypes, NextTypes, InitFits, NextFits, PTL
    DEF Spec

-----------------------------------------------------------------------------
(* The theorems.                                                           *)

\* Only the last step of a login makes it the last that completed.
LEMMA LoginCompletes ==
  ASSUME IInv, Types, DataFits, [Next]_vars, last' # last, last' # Undefined
  PROVE  /\ flow.step \in {"jwks", "profile"} /\ flow.kind # "fetch"
         /\ LogsIn /\ Checked
         /\ UNCHANGED <<asked, mixed>>
         /\ last' = Pair(flow.issuer, flow.client.clientId)
  <1>1. KeysFetched \/ ProfileFetched
    BY DEF Next, Application, Reply, Continuation, Environment, vars, provider,
      history, Login, Logout, FetchRefused, Restore, ConfigFetched,
      CurrentSessionValidated, ClientRegistered, RefreshContextLoaded,
      RedirectConfigFetched, TokensObtained, SavingStops, RequestFails,
      RefreshAccess, RequestAuthorization, NoSuitableHandler, ReturnWithCode,
      ReturnWithout, Corrupt
  <1>2. /\ flow.step \in {"jwks", "profile"} /\ LogsIn /\ Checked
        /\ UNCHANGED <<asked, mixed>>
    <2>1. CASE KeysFetched
      BY <2>1, KeysFetchedDoes DEF SameData, KeepsIdToken
    <2>2. CASE ProfileFetched
      BY <2>2, ProfileFetchedDoes DEF DataFits, Owned, TokenOfFlow, Checked
    <2> QED
      BY <1>1, <2>1, <2>2
  <1>3. flow.kind # "fetch"
    BY <1>2 DEF DataFits, FlowFits, StartFits
  <1>4. last' = Pair(flow.issuer, flow.client.clientId)
    BY <1>2 DEF LogsIn, DataFits, Owned, GrantOfFlow, Pair
  <1> QED
    BY <1>2, <1>3, <1>4

\* Whatever was stored by earlier logins, pages and processes, and whichever
\* steps failed, the issuer of the grant that completes a login is the one whose
\* document is at the URL that the application last asked for, unless it asked
\* for another without a logout; the WebID is asserted to the client of that
\* grant, and by that issuer if the last document that was read names one.
THEOREM LoginAsAskedHolds == Spec => LoginAsAsked
  <1>1. ASSUME IInv, Types, DataFits, [Next]_vars, last' # last,
               last' # Undefined
        PROVE  /\ session'.webId.aud = last'.clientId
               /\ IssuerToCheck # Undefined => session'.webId.iss = last'.issuer
               /\ mixed \/ last'.issuer = AskedIssuer
    <2>1. /\ last'.issuer = flow.issuer
          /\ last'.clientId = flow.client.clientId
      BY <1>1, LoginCompletes DEF Pair
    <2>2. /\ session'.webId = [iss |-> flow.idToken.iss, aud |-> flow.idToken.aud]
          /\ IssuerToCheck # Undefined => flow.idToken.iss = flow.issuer
          /\ flow.idToken.aud = flow.client.clientId
      BY <1>1, LoginCompletes DEF LogsIn, Checked
    <2>3. mixed \/ flow.issuer = AskedIssuer
      BY <1>1, LoginCompletes, IssuerNames DEF DataFits, Owned, IssuerAsAsked,
        Types, FlowStepped
    <2> QED
      BY <2>1, <2>2, <2>3
  <1> QED
    BY <1>1, DataInvariant, PTL DEF Spec, LoginAsAsked

\* The fetch that a completed login gives sends tokens of the type asked for:
\* the type is in the flow from its start, or comes back from storage, where
\* it was stored for the request or the refresh token that is exchanged.
THEOREM TokenTypeAsAskedHolds == Spec => TokenTypeAsAsked
  <1>1. ASSUME IInv, Types, DataFits, [Next]_vars, last' # last,
               last' # Undefined, ~mixed
        PROVE  session'.dpop = asked.dpop
    BY <1>1, LoginCompletes DEF LogsIn, DataFits, FlowFits, FlowContextFits
  <1> QED
    BY <1>1, DataInvariant, PTL DEF Spec, TokenTypeAsAsked

\* The user is sent to the issuer that the application asked for, on behalf of
\* the client it named, or of one registered with that issuer in its stead.
THEOREM ClientAsAskedHolds == Spec => ClientAsAsked
  <1>1. ASSUME IInv, Types, DataFits, [Next]_vars, requests' # requests, ~mixed
        PROVE  RequestAsAsked(requests'[Len(requests')])
    <2>1. RequestAuthorization
      BY <1>1 DEF Next, Application, Reply, Continuation, Environment, vars,
        provider, Login, Logout, FetchRefused, Restore, ConfigFetched,
        CurrentSessionValidated, ClientRegistered, RefreshContextLoaded,
        RedirectConfigFetched, TokensObtained, KeysFetched, SavingStops,
        ProfileFetched, RequestFails, RefreshAccess, NoSuitableHandler,
        ReturnWithCode, ReturnWithout, Corrupt
    <2> DEFINE request == requests'[Len(requests')]
    <2>2. /\ flow.step = "handle"
          /\ request = Pair(flow.issuer, flow.client.clientId)
      BY <1>1, <2>1, RequestAuthorizationDoes DEF Requested
    <2>3. request.issuer = flow.issuer /\ request.clientId = flow.client.clientId
      BY <2>2 DEF Pair
    <2> HIDE DEF request
    <2>4. flow.issuer = AskedIssuer
      BY <1>1, <2>2, IssuerNames DEF DataFits, Owned, IssuerAsAsked, Types,
        FlowStepped
    <2>5. Suits(flow.client.clientId)
      <3>1. /\ flow.client.clientId # Undefined
            /\ flow.client.clientId = Stored("clientId")
        BY <1>1, <2>2 DEF IInv, FlowHasClient, DataFits, FlowFits, FlowClientFits
      <3> QED
        BY <1>1, <3>1 DEF DataFits, RecordFits, ClientFits
    <2> QED
      BY <2>3, <2>4, <2>5 DEF RequestAsAsked, Suits, Named, request
  <1> QED
    BY <1>1, DataInvariant, PTL DEF Spec, ClientAsAsked

\* What is read from storage to exchange a code or a refresh token is of the
\* login that obtained the grant: its issuer, its client with the secret and
\* the algorithm registered for it, and the verifier of the latest request.
THEOREM GrantsToTheirClientHolds == Spec => []GrantsToTheirClient
  <1>1. ASSUME IInv, Types, DataFits, ~mixed, flow.step \in {"token", "refresh"},
               NEW grant, grant = StoredPair
        PROVE  IsClientOf(grant)
    <2>1. /\ Stored("issuer") = flow.issuer
          /\ Stored("clientId") = flow.client.clientId
      BY <1>1 DEF DataFits, FlowFits, FlowClientFits, FlowContextFits
    <2>2. /\ flow.client.clientSecret = SecretOf(flow.client.clientId)
          /\ platform = "node" /\ flow.client.clientId \in DynamicClients =>
               flow.client.idTokenSignedResponseAlg =
                 clients[flow.client.clientId].alg
      BY <1>1 DEF DataFits, FlowFits, FlowClientFits
    <2>3. /\ grant = [issuer |-> flow.issuer, clientId |-> flow.client.clientId]
          /\ grant.clientId = flow.client.clientId
      BY <1>1, <2>1 DEF StoredPair, Pair
    <2> QED
      BY <2>2, <2>3 DEF IsClientOf, Accepts
  <1>2. ASSUME IInv, Types, DataFits, ~mixed, flow.step = "token",
               platform = "node" => flow.code = Len(requests)
        PROVE  /\ IsClientOf(requests[flow.code])
               /\ Stored("codeVerifier") = flow.code
    <2>1. flow.code = Len(requests)
      BY <1>2, LoginAssumption DEF Types, StorageTyped, DataFits, FlowFits,
        FlowGrantFits, RecordFits, StatesFit
    <2>2. Stored("issuer") # Undefined
      BY <1>2, LoginAssumption DEF Types, FlowStepped, DataFits, FlowFits,
        FlowContextFits
    <2>3. /\ requests[flow.code] = StoredPair
          /\ Stored("codeVerifier") = flow.code
      BY <1>2, <2>1, <2>2 DEF DataFits, RecordFits, RequestFits
    <2> QED
      BY <1>1, <1>2, <2>3
  <1>3. ASSUME IInv, Types, DataFits, ~mixed, flow.step = "refresh"
        PROVE  IsClientOf(tokens[flow.token])
    <2>1. tokens[flow.token] = StoredPair
      BY <1>3 DEF DataFits, FlowFits, FlowGrantFits
    <2> QED
      BY <1>1, <1>3, <2>1
  <1>4. IInv /\ Types /\ DataFits => GrantsToTheirClient
    BY <1>2, <1>3 DEF GrantsToTheirClient, Awaits
  <1> QED
    BY <1>4, DataInvariant, PTL

\* After a login that completed, and until the next one, a logout or damage to
\* the storage, what restores the session is there and belongs to its grant,
\* whichever fetches, refreshes and restarts fail in between.
THEOREM SessionAvailableHolds == Spec => []SessionAvailable
  <1>1. ASSUME IInv, Types, DataFits, last # Undefined, ~mixed
        PROVE  /\ Stored("issuer") = last.issuer
               /\ Stored("clientId") = last.clientId
               /\ Stored("clientSecret") = SecretOf(last.clientId)
               /\ platform = "browser" =>
                    /\ Restorable
                    /\ Stored("idToken").aud = last.clientId
                    /\ session.isLoggedIn =>
                         WebIdOf(Stored("idToken")) = session.webId
               /\ Stored("refreshToken") # Undefined =>
                    tokens[Stored("refreshToken")] = last
    <2>1. StoredPair = last /\ last \in Grants
      BY <1>1 DEF DataFits, RecordFits, LastFits, Types, HistoryTyped
    <2>2. /\ Stored("issuer") = last.issuer
          /\ Stored("clientId") = last.clientId
          /\ Stored("issuer") # Undefined /\ Stored("clientId") # Undefined
      BY <2>1, LoginAssumption DEF StoredPair, Pair, Grants
    <2>3. Stored("clientSecret") = SecretOf(last.clientId)
      BY <1>1, <2>2 DEF DataFits, RecordFits, ClientFits
    <2>4. ASSUME platform = "browser"
          PROVE  /\ Restorable
                 /\ Stored("idToken").aud = last.clientId
                 /\ session.isLoggedIn =>
                      WebIdOf(Stored("idToken")) = session.webId
      <3>1. Readable(record)
        BY <1>1, <2>4, UserDataReadable DEF Types, StorageTyped
      <3> QED
        BY <1>1, <2>2, <2>4, <3>1 DEF DataFits, RecordFits, LastFits, Restorable
    <2>5. Stored("refreshToken") # Undefined =>
            tokens[Stored("refreshToken")] = last
      BY <1>1, <2>1 DEF DataFits, RecordFits, RefreshTokenFits
    <2> QED
      BY <2>2, <2>3, <2>4, <2>5
  <1>2. IInv /\ Types /\ DataFits => SessionAvailable
    BY <1>1 DEF SessionAvailable
  <1> QED
    BY <1>2, DataInvariant, PTL

=============================================================================
