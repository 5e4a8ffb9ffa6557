SPECIFICATION ItemFairSpec
CONSTANTS
  NoObj = NoObj
  NoName = NoName
  NoKey = NoKey
  NoLocal = NoLocal
  NoChild = NoChild
  issuer = issuer
  project = project
  left = left
  right = right
  letsEncrypt = letsEncrypt
  signingCa = signingCa
  git = git
  charts = charts
  apps = apps
  extra = extra
  Keys = {issuer, left, right, project}
  Issuers = {issuer, left, right}
  Projects = {project}
  Populations <- MCPopulations
  Tenants <- MCTenants
  Servers = {letsEncrypt}
  Cas = {signingCa}
  Repos = {git, charts}
  DexRepo = charts
  Namespaces = {apps, extra}
  NameOf <- MCNameOf
  Names <- MCNames
  Specs <- MCSpecs
  MaxEdits = 4
INVARIANTS
  ItemTypeOK
  NoOrphanChild
  ReadyItemIsRendered
PROPERTIES
  ItemsConverge
  ItemsImplementLifecycle
CHECK_DEADLOCK FALSE
