SPECIFICATION FairSpec
CONSTANTS
  w1 = w1
  w2 = w2
  w3 = w3
  mer = mer
  fatigue = fatigue
  a = a
  b = b
  Workspaces <- MCW
  Broken = {w1}
  Alerts <- MCAlerts
  Signatures <- MCSig
  Quiet = Quiet
  Cadence <- MCCadence
  Watched = {}
  BatchMax = 1
  MaxFaults = 0
  MaxReads = 1
  MaxChanges = 0
PROPERTIES EveryoneServed
CHECK_DEADLOCK FALSE
