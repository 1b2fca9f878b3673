SPECIFICATION ScopedSpec
CONSTANTS
  Campaigns = {c1, c2}
  Keywords = {k1}
  Procs = {p1, p2}
  Planners = {p1}
  Generators = {g1}
  Percents = {1}
  Requested = 2
  DefaultCap = 2
  Dailies = {1}
  None = None
  MaxRows = 2
  MaxEdits = 2
  MaxDay = 1
  MaxFaults = 1
  Scopes = {"campaigns", "content"}
INVARIANTS OneOpenPerTarget RunsOnceApproved OneBriefPerKeyword
PROPERTIES RefinesActionLife DailyCapHolds
SYMMETRY Symmetry
CHECK_DEADLOCK FALSE
