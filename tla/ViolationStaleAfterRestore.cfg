SPECIFICATION Spec
CONSTANTS
  config = config
  zone = zone
  c1 = c1
  c2 = c2
  Gone = Gone
  Down = Down
  Files = {config, zone}
  Config = config
  Contents = {c1, c2}
  Keep = 2
  MaxTime = 1
  MaxCommands = 4
  MaxFaults = 1
  MaxKills = 0

INVARIANT PutBack
