SPECIFICATION Spec
CONSTANTS
  Undefined = Undefined
  NoAlg = NoAlg
  OwnClient = own
  Platforms = {"browser", "node"}
  A = A
  B = B
  webid = webid
  Options <- MCOptions
  OtherOptions <- MCOtherOptions
  ASlash = ASlash
  Issuers = {A, B}
  IssuerUrls = {A, B, ASlash}
  IssuerOf <- MCIssuerOf
  SolidIssuers = {A}
  Documents <- MCDocuments
  UrlClients = {webid}
  Keys = {first, second}
  FirstKey = first
  MaxRequests = 2
  MaxClients = 1
  MaxTokens = 2
INVARIANTS
  TypeOK
  GrantsToTheirClient
  SessionAvailable
  RegistersToLogIn
PROPERTIES
  LoginAsAsked
  TokenTypeAsAsked
  ClientAsAsked
  NoNeedlessRedirect
CHECK_DEADLOCK FALSE
