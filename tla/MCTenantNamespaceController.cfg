SPECIFICATION TenantFairSpec
CONSTANTS
  NoObj = NoObj
  NoName = NoName
  NoKey = NoKey
  NoLocal = NoLocal
  NoPart = NoPart
  tn = tn
  tenant = tenant
  apps = apps
  ops = ops
  small = small
  bad = bad
  Keys = {tn}
  Tenants = {tenant}
  Namespaces = {apps}
  Found = {apps}
  Names = {apps}
  Admins = {ops}
  Quotas = {small}
  BadQuotas = {bad}
  Specs <- MCSpecs
  MaxEdits = 3
INVARIANTS
  QuietIsReady
  TenantTypeOK
  NoOrphanNamespace
  FirstTenantIsConfined
PROPERTIES
  NamespaceGoesOnlyWithItsResource
  TenantsConverge
CHECK_DEADLOCK FALSE
