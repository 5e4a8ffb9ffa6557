SPECIFICATION TenantSpec
CONSTANTS
  NoObj = NoObj
  NoName = NoName
  NoKey = NoKey
  NoLocal = NoLocal
  NoPart = NoPart
  tn = tn
  tenant = tenant
  apps = apps
  ops = ops
  small = small
  bad = bad
  Keys = {tn}
  Tenants = {tenant}
  Namespaces = {apps}
  Found = {apps}
  Names = {apps}
  Admins = {ops}
  Quotas = {small}
  BadQuotas = {bad}
  Specs <- MCQuotaSpecs
  MaxEdits = 3
INVARIANT
  ReadyTenantIsConfined
CHECK_DEADLOCK FALSE
