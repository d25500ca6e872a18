SPECIFICATION FairSpec
CONSTANTS
  Owners = {"zone", "www"}
  Values = {"zone", "ns", "ip1", "ip2"}
  Metas = {1}
  SerialSpace = 100
  Apex = "zone"
  Versions <- MCVersions
  LocalRecords <- MCLocal
  MaxCommands = 5
  MaxFaults = 2
  MaxKills = 2
INVARIANTS TypeOK SuccessMerges LocalRecordsKept FailureUndone
PROPERTY FilesConverge
CHECK_DEADLOCK FALSE
