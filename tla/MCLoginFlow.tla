----------------------------- MODULE MCLoginFlow -----------------------------
(* A small instance of LoginFlow for TLC.                                  *)
EXTENDS LoginFlow

CONSTANTS A, B, webid,  \* issuers, a Client WebID
          ASlash        \* another URL of A

MCIssuerOf == [url \in IssuerUrls |-> IF url = B THEN B ELSE A]

\* Discovery documents: one that has everything, and those that lack what one
\* decision of the library depends on.
MCComplete ==
  [key \in IssuerConfigKeys \ {"solid_oidc_supported"} |->
     CASE key = "grant_types_supported" -> {"authorization_code", "refresh_token"}
       [] key = "id_token_signing_alg_values_supported" -> {"ES256", "RS256"}
       [] OTHER -> {}]

MCWithout(key) == [k \in DOMAIN MCComplete \ {key} |-> MCComplete[k]]

MCDocuments ==
  {MCComplete, MCWithout("registration_endpoint"), MCWithout("jwks_uri"),
   MCWithout("grant_types_supported"), MCWithout("issuer"),
   [MCComplete EXCEPT !["id_token_signing_alg_values_supported"] = {"PS256"}]}

\* Each kind of client at an issuer that dereferences Client WebIDs and at one
\* that does not, both types of tokens, and an issuer asked for by another URL.
MCOptions ==
  {[issuer |-> A, clientId |-> OwnClient, dpop |-> TRUE],
   [issuer |-> A, clientId |-> webid, dpop |-> FALSE],
   [issuer |-> ASlash, clientId |-> Undefined, dpop |-> TRUE],
   [issuer |-> B, clientId |-> webid, dpop |-> TRUE]}

\* Without a logout, those with another issuer than before.
MCOtherOptions == {options \in MCOptions : options.issuer = B}
=============================================================================
