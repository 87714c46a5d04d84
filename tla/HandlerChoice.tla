---------------------------- MODULE HandlerChoice ----------------------------
(***************************************************************************)
(* AggregateHandler, the handlers each package wires into it, and what     *)
(* each of them can handle.                                                *)
(***************************************************************************)
EXTENDS IssuerConfig, Naturals, Sequences

NoHandler == "none"

\* The first handler that can handle the parameters, or none: handle throws.
ProperHandler(handlers, canHandle) ==
  IF \A i \in DOMAIN handlers : ~canHandle[handlers[i]] THEN NoHandler
  ELSE handlers[CHOOSE i \in DOMAIN handlers :
         /\ canHandle[handlers[i]]
         /\ \A j \in 1..(i - 1) : ~canHandle[handlers[j]]]

\* Mutant: wired in the other order.
HandlersTheOtherWay == <<"authorizationCodeWithPkce", "refreshToken">>

\* The handlers of the node package for a login; the browser has only the
\* second one, and does not ask it whether it can handle the login.
OidcHandlers == <<"refreshToken", "authorizationCodeWithPkce">>

\* validateOptions of RefreshTokenOidcHandler.
CanRefresh(refreshToken, clientId) ==
  refreshToken # Undefined /\ clientId # Undefined

\* canHandle of AuthorizationCodeWithPkceOidcHandler.
CanRedirect(config) ==
  /\ "grant_types_supported" \in DOMAIN config
  /\ "authorization_code" \in config["grant_types_supported"]

OidcHandler(refreshToken, clientId, config) ==
  ProperHandler(OidcHandlers,
    [refreshToken |-> CanRefresh(refreshToken, clientId),
     authorizationCodeWithPkce |-> CanRedirect(config)])

\* The handlers of a redirect, in both packages: the catch-all one is last.
RedirectHandlers == <<"authCode", "fallback">>

\* A URL the browser comes back to, by whether it has the two parameters.
RedirectHandler(hasCode, hasState) ==
  ProperHandler(RedirectHandlers,
    [authCode |-> hasCode /\ hasState, fallback |-> TRUE])
=============================================================================
