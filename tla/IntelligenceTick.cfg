SPECIFICATION FairSpec
CONSTANTS
  w1 = w1
  w2 = w2
  w3 = w3
  mer = mer
  fatigue = fatigue
  a = a
  b = b
  Workspaces <- MCW
  Broken = {}
  Alerts <- MCAlerts
  Signatures <- MCSig
  Quiet = Quiet
  Cadence <- MCCadence
  Watched <- MCWatched
  BatchMax = 1
  MaxFaults = 1
  MaxReads = 1
  MaxChanges = 2
INVARIANTS StandingIsSilent
PROPERTIES NobodyIsOvertaken EveryoneServed NewIsAlerted
CHECK_DEADLOCK FALSE
