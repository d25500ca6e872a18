CONSTANTS
  plain = plain
  tls = tls
  bad = bad
  dead = dead
  NoConf = NoConf
  EmptyConf = EmptyConf
  Zones = {z1}
  Options <- FewOptions
  DefaultOption <- plain
  Rejected <- RejectedOptions
  Unstartable <- UnstartableOptions
  Startup <- StartupOf
  MaxCrashes = 1
  MaxUpsets = 1
SPECIFICATION Spec
INVARIANTS
  FailureRestores
  SuccessInstalls
