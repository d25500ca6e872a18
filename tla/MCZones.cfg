SPECIFICATION Spec
CONSTANTS
  h1 = h1
  h2 = h2
  ip = ip
  Owners <- MCNames
  Values <- MCNames
  Metas = {1}
  SerialSpace = 100
  Zone <- MCZone
  Rank <- MCRank
  ReverseZones <- MCReverse
  FirstZones <- MCFirst
  FirstRecs <- MCFirstRecs
  Labels <- MCLabels
  Hosts <- MCHosts
  ZoneOf <- MCZoneOf
  Addrs <- MCAddrs
  Covers <- MCCovers
  Extra <- MCExtra
  Days = {10, 20}
  MaxCommands = 2
  MaxFaults = 2
  MaxKills = 1
INVARIANTS TypeOK AliasesAlone FailedChangesNothing StaysServed ForwardReverseAgree SerialsMoveOn
