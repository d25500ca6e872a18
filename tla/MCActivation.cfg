CONSTANTS
  plain = plain
  tls = tls
  bad = bad
  dead = dead
  NoConf = NoConf
  EmptyConf = EmptyConf
  Zones = {z1}
  Options <- AllOptions
  DefaultOption <- plain
  Rejected <- RejectedOptions
  Unstartable <- UnstartableOptions
  Startup <- StartupOf
  MaxCrashes = 0
  MaxUpsets = 1
SPECIFICATION FairSpec
INVARIANTS
  TypeOK
  ReferencedFilesExist
  DaemonServesActiveFile
  NeverTakesDaemonDown
  ConfigLoads
PROPERTIES
  ImplementsTransaction
  CommandEnds
