SPECIFICATION DnsFairSpec
CONSTANTS
  NoObj = NoObj
  NoName = NoName
  NoKey = NoKey
  NoLocal = NoLocal
  NoEndpoint = NoEndpoint
  GuardedDeletes = TRUE
  zone = zone
  rec = rec
  Keys = {rec}
  Zones = {zone}
  Names = {}
  DnsNames <- MCDnsNames
  Specs <- MCSpecs
  ZoneSpecs <- MCZoneSpecs
  MaxEdits = 4
INVARIANTS
  DnsTypeOK
  ReadyRecordIsRendered
  RenderedInsideZone
PROPERTIES
  RecordsConverge
CHECK_DEADLOCK FALSE
