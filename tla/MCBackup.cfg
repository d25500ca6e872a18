SPECIFICATION Spec
CONSTANTS
  config = config
  zone = zone
  c1 = c1
  c2 = c2
  Gone = Gone
  Down = Down
  Files = {config, zone}
  Config = config
  Contents = {c1, c2}
  Keep = 2
  MaxTime = 2
  MaxCommands = 4
  MaxFaults = 1
  MaxKills = 1
SYMMETRY Alike
INVARIANTS TypeOK RestoresWhole WayBack
