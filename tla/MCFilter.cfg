SPECIFICATION FairSpec
CONSTANTS
  Names = {"ads", "x.ads", "b"}
  Under <- MCUnder
  Lists = {"h", "d"}
  Format <- MCFormat
  Downloads <- MCDownloads
  ShrinkMin = 4
  Rules <- MCRules
  Unfetched = {"d"}
  MaxCommands = 2
  MaxFaults = 2
  MaxKills = 1
INVARIANTS TypeOK ExplainsServer RefreshUndone
PROPERTY FeedsConverge
CHECK_DEADLOCK FALSE
