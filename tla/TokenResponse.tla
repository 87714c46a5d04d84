---------------------------- MODULE TokenResponse ----------------------------
(***************************************************************************)
(* What the library makes of the replies of a provider that completes a    *)
(* login: the checks of the token endpoint's response, and the extraction  *)
(* of the WebID from the ID token with the provider's keys.                *)
(***************************************************************************)
EXTENDS IssuerConfig

CONSTANTS Keys, FirstKey   \* signing keys of a provider; the first published

\* The response of a token endpoint, field by field as the has... checks tell
\* them: a string, or anything else; of token_type also whether it is "bearer".
TokenResponses ==
  [error : {"undefined", "string"}, access_token : {"undefined", "string"},
   id_token : {"undefined", "string"},
   token_type : {"undefined", "string", "bearer"},
   expires_in : {"undefined", "number", "string"}]

\* validatePreconditions does not throw.
ValidPreconditions(config) ==
  /\ "grant_types_supported" \in DOMAIN config
  /\ "authorization_code" \in config["grant_types_supported"]
  /\ "token_endpoint" \in DOMAIN config

\* validateTokenEndpointResponse does not throw.  A DPoP token may be returned
\* with any token type: the check is disabled.
ValidTokenResponse(response, dpop) ==
  /\ response.error # "string"
  /\ response.access_token = "string"
  /\ response.id_token = "string"
  /\ response.token_type \in {"string", "bearer"}
  /\ response.expires_in \in {"undefined", "number"}
  /\ dpop \/ response.token_type = "bearer"

\* What getBearerToken, and the node package around openid-client, go on with.
HasIdToken(response) ==
  response.error # "string" /\ response.id_token = "string"
HasAccessToken(response) ==
  response.error # "string" /\ response.access_token = "string"

\* An ID token: who asserts it and to whom, the key that signed it, and what
\* it says of the user: a WebID, in its webid claim or else as the URL of its
\* sub claim, or none.
IdToken(issuer, audience) ==
  [iss |-> issuer, aud |-> audience, key |-> FirstKey, claim |-> "webid"]

\* fetchJwks keeps the first key of the set; jwtVerify checks the signature
\* with it, the issuer, if the configuration has one, and the audience.
Verified(token, issuer, clientId) ==
  /\ token.key = FirstKey
  /\ issuer # Undefined => token.iss = issuer
  /\ token.aud = clientId

\* getWebidFromTokenPayload returns a WebID.
HasWebId(token, issuer, clientId) ==
  /\ Verified(token, issuer, clientId)
  /\ token.claim = "webid"

\* A WebID is known by who asserted it, and to whom.
WebIdOf(token) == [iss |-> token.iss, aud |-> token.aud]
=============================================================================
