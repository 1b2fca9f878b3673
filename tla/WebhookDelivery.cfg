SPECIFICATION FairSpec
CONSTANTS
  v1 = v1
  v2 = v2
  v3 = v3
  e1 = e1
  Events <- MCEvents
  Endpoints <- MCEndpoints
  Subscribed <- MCSubscribed
  MaxAttempts = 2
  FailureLimit = 2
  SweepBatch = 2
  None = None
  MaxFaults = 2
  MaxEnables = 1
INVARIANTS SweepInv DisabledForCause AttemptsBounded
PROPERTIES DisabledAfterStreak RefinesDeliveryLife EveryRowSettles
CHECK_DEADLOCK FALSE
