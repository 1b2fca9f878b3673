SPECIFICATION ScopedSpec
CONSTANTS
  Campaigns = {c1}
  Keywords = {k1}
  Procs = {p1, p2}
  Planners = {p1, p2}
  Generators = {}
  Percents = {1}
  Requested = 2
  DefaultCap = 2
  Dailies = {1}
  None = None
  MaxRows = 2
  MaxEdits = 1
  MaxDay = 0
  MaxFaults = 0
  Scopes = {"both"}
INVARIANT OneOpenPerTarget
CHECK_DEADLOCK FALSE
