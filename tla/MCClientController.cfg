SPECIFICATION ClientSpec
CONSTANTS
  NoObj = NoObj
  NoName = NoName
  NoKey = NoKey
  NoLocal = NoLocal
  NoClient = NoClient
  NoSecret = NoSecret
  NoCredential = NoCredential
  ra = ra
  web = web
  acme = acme
  initech = initech
  webSecret = webSecret
  login = login
  k1 = k1
  k2 = k2
  k3 = k3
  k4 = k4
  Realms = {ra}
  RealmNames = {acme, initech}
  Names = {acme, initech}
  PossibleNames <- MCPossibleNames
  AmbientRealms = {initech}
  MayStrip = TRUE
  Keys = {web}
  ClientIDs = {web}
  SecretNames = {webSecret}
  DefaultSecret <- MCDefaultSecret
  RedirectURIs = {login}
  Specs <- MCSpecs
  Credentials = {k1, k2, k3, k4}
  MaxEdits = 3
INVARIANTS
  QuietIsReady
  ClientTypeOK
  NoOrphanClient
  NoOrphanSecret
  ClientsStayInReferencedRealms
  QuietReadyClientWorks
PROPERTIES
  RecordedClientIsTornDown
CHECK_DEADLOCK FALSE
