SPECIFICATION DexFairSpec
CONSTANTS
  NoObj = NoObj
  NoName = NoName
  NoKey = NoKey
  NoLocal = NoLocal
  NoChild = NoChild
  Foreign = Foreign
  dx = dx
  edge = edge
  argocd = argocd
  dexConfig = dexConfig
  tagged = tagged
  digest = digest
  team = team
  Keys = {dx}
  Names = {edge}
  Clusters = {edge}
  Namespaces = {argocd}
  DefaultNamespace = argocd
  Installed = {argocd}
  SecretRefs = {dexConfig}
  Images = {tagged, digest}
  Groups = {team}
  Issuers = {}
  WellFormed = {tagged, team}
  Specs <- MCToggledSpecs
  MaxEdits = 3
INVARIANT
  EnabledIsRendered
CHECK_DEADLOCK FALSE
