-------------------------- MODULE ClientRegistration --------------------------
(***************************************************************************)
(* Which client a login uses, and what is written for it: the              *)
(* handleRegistration of core, the ClientRegistrar of each package and the *)
(* registration request of oidc-client-ext.  A client is its identifier;   *)
(* the secret of a client that has one is written as that identifier too.  *)
(***************************************************************************)
EXTENDS IssuerConfig, Naturals, Sequences

CONSTANTS
  UrlClients,   \* client identifiers that are URLs (Client WebIDs)
  NoAlg         \* null

\* Ordered from most preferred to least preferred.
PREFERRED_SIGNING_ALG == <<"ES256", "RS256">>

\* The first of the preferred algorithms that is supported, or null.
DetermineSigningAlg(supported, preferred) ==
  IF \A i \in DOMAIN preferred : preferred[i] \notin supported THEN NoAlg
  ELSE LET first == CHOOSE i \in DOMAIN preferred :
             /\ preferred[i] \in supported
             /\ \A j \in 1..(i - 1) : preferred[j] \notin supported
       IN preferred[first]

SigningAlg(config) ==
  DetermineSigningAlg(config["id_token_signing_alg_values_supported"],
                      PREFERRED_SIGNING_ALG)

\* negotiateClientSigningAlg does not throw.
CanNegotiate(config) ==
  /\ "id_token_signing_alg_values_supported" \in DOMAIN config
  /\ SigningAlg(config) # NoAlg

IsValidUrl(clientId) == clientId \in UrlClients

\* The client named by the application, if any, is discarded when it is a URL
\* that the provider would not dereference.
NeedsRegistration(clientId, config) ==
  \/ clientId = Undefined
  \/ "solid_oidc_supported" \notin DOMAIN config /\ IsValidUrl(clientId)

NoClient == [clientId |-> Undefined, clientSecret |-> Undefined,
             idTokenSignedResponseAlg |-> Undefined]

\* What handleRegistration returns for the client of the application.
GivenClient(clientId, clientSecret) ==
  [NoClient EXCEPT !.clientId = clientId, !.clientSecret = clientSecret]

\* The fields of a client as the code stores them: the identifier always, the
\* secret and the algorithm when it has one.
ClientFields(client) ==
  [field \in {f \in DOMAIN client : f = "clientId" \/ client[f] # Undefined} |->
     client[field]]

\* getClient finds a client in storage.
HasStoredClient(data) == GetForUser(data, "clientId") # Undefined

\* Mutant: the secret is not looked up.
StoredClientWithoutSecret(platform, data) ==
  [clientId |-> GetForUser(data, "clientId"), clientSecret |-> Undefined,
   idTokenSignedResponseAlg |-> GetForUser(data, "idTokenSignedResponseAlg")]

\* The client that getClient finds; the browser does not look for its algorithm.
StoredClient(platform, data) ==
  [clientId |-> GetForUser(data, "clientId"),
   clientSecret |-> GetForUser(data, "clientSecret"),
   idTokenSignedResponseAlg |->
     IF platform = "browser" THEN Undefined
     ELSE GetForUser(data, "idTokenSignedResponseAlg")]

\* getClient sends a registration request.  The browser sends one even when
\* no algorithm matches, with null for it.
MayRegister(platform, config) ==
  /\ "registration_endpoint" \in DOMAIN ConfigToIssuerMetadata(config)
  /\ "id_token_signing_alg_values_supported" \in DOMAIN config
  /\ platform = "browser" \/ CanNegotiate(config)

\* A response: the status class, whether it names a client, and whether the
\* first redirect URI is the one asked for.
RegistrationResponses ==
  [status : {"ok", "badRequest", "other"}, clientId : BOOLEAN,
   redirectUris : BOOLEAN]

\* registerClient of oidc-client-ext returns a client: the response is not an
\* error (processErrorResponse only chooses the message) and it passes
\* validateRegistrationResponse.
ValidRegistration(response, hasRedirectUrl) ==
  /\ response.status = "ok"
  /\ response.clientId
  /\ hasRedirectUrl => response.redirectUris

\* The algorithm kept for a new client: what the response says, or, in the
\* node package, what was asked for.
RegisteredAlg(platform, asked, answered) ==
  IF answered = Undefined /\ platform = "node" THEN asked ELSE answered
=============================================================================
