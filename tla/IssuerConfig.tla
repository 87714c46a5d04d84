----------------------------- MODULE IssuerConfig -----------------------------
(***************************************************************************)
(* How each package reads the discovery document of an issuer: a function  *)
(* from the keys present to their values.  The keys are those that some    *)
(* decision of the library depends on, and keep their names on the wire in *)
(* the IIssuerConfig they are read into.                                   *)
(***************************************************************************)
EXTENDS UserStorage

\* The keys that issuerConfigKeyMap renames; any other key is dropped.
IssuerConfigKeys ==
  {"issuer", "authorization_endpoint", "token_endpoint", "jwks_uri",
   "registration_endpoint", "subject_types_supported", "claims_supported",
   "grant_types_supported", "id_token_signing_alg_values_supported",
   "solid_oidc_supported"}

\* Mutant: the map misses the last key.
ConfigWithoutSolid(document) ==
  [key \in (DOMAIN document \cap IssuerConfigKeys) \ {"solid_oidc_supported"} |->
     document[key]]

\* processConfig of the browser.
ProcessConfig(document) ==
  [key \in DOMAIN document \cap IssuerConfigKeys |-> document[key]]

\* The keys without which the node package throws.
MandatoryKeys ==
  {"authorization_endpoint", "token_endpoint", "jwks_uri", "claims_supported",
   "subject_types_supported"}

\* configFromIssuerMetadata of the node package; Undefined when it throws.
ConfigFromIssuerMetadata(document) ==
  IF MandatoryKeys \subseteq DOMAIN document
    THEN ProcessConfig(document) ELSE Undefined

\* configToIssuerMetadata: what is given to openid-client, all but the last.
ConfigToIssuerMetadata(config) ==
  [key \in DOMAIN config \ {"solid_oidc_supported"} |-> config[key]]

\* IssuerConfigFetcher.fetchConfig.  The configuration is also stored, under
\* a key that nothing reads.
FetchConfig(platform, document) ==
  IF platform = "browser" THEN ProcessConfig(document)
                          ELSE ConfigFromIssuerMetadata(document)

\* issuerConfig.issuer: who a document says it is of.  Neither package compares
\* it with the URL the document was asked for, nor requires it to be there.
NamedIssuer(config) ==
  IF "issuer" \in DOMAIN config THEN config["issuer"] ELSE Undefined
=============================================================================
