SPECIFICATION FairSpec
CONSTANTS
  Jobs = {j1, j2}
  Workers = {w1, w2}
  None = None
  MaxFaults = 1
INVARIANTS OneEnvelope WorkIsKept AckedIsSettled
PROPERTIES PushedIsHandled RowsSettle
CHECK_DEADLOCK FALSE
