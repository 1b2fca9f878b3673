SPECIFICATION Spec
CONSTANTS
  Jobs = {j1}
  Workers = {w1}
  None = None
  MaxFaults = 0
INVARIANT ReportedFailedIsFinal
CHECK_DEADLOCK FALSE
