SPECIFICATION RealmFairSpec
CONSTANTS
  NoObj = NoObj
  NoName = NoName
  NoKey = NoKey
  NoLocal = NoLocal
  NoRealm = NoRealm
  ra = ra
  rb = rb
  acme = acme
  globex = globex
  shown = shown
  Keys = {ra, rb}
  Names = {acme, globex}
  DisplayNames = {shown}
  Specs <- MCSpecs
  MaxEdits = 3
INVARIANTS
  QuietIsReady
  RealmTypeOK
  NoOrphanRealm
  ReadyRealmIsProvisioned
PROPERTIES
  RealmGoesOnlyWithItsResource
  RealmsImplementLifecycle
  RealmsServeClients
  RealmsConverge
CHECK_DEADLOCK FALSE
