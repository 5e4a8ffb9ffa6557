SPECIFICATION ClientFairSpec
CONSTANTS
  NoObj = NoObj
  NoName = NoName
  NoKey = NoKey
  NoLocal = NoLocal
  NoClient = NoClient
  NoSecret = NoSecret
  NoCredential = NoCredential
  ra = ra
  web = web
  acme = acme
  initech = initech
  webSecret = webSecret
  login = login
  k1 = k1
  k2 = k2
  k3 = k3
  k4 = k4
  Realms = {ra}
  RealmNames = {acme, initech}
  Names = {acme, initech}
  PossibleNames <- MCPossibleNames
  AmbientRealms = {initech}
  MayStrip = FALSE
  Keys = {web}
  ClientIDs = {web}
  SecretNames = {webSecret}
  DefaultSecret <- MCDefaultSecret
  RedirectURIs = {login}
  Specs <- MCSpecs
  Credentials = {k1, k2, k3, k4}
  MaxEdits = 2
PROPERTY
  ClientsConverge
CHECK_DEADLOCK FALSE
