SPECIFICATION FairSpec
CONSTANTS
  Callers = {c1, c2}
  Ttl = 4
  AcquireTimeout = 1
  MaxRun = 2
  MaxTick = 2
INVARIANTS MutualExclusion
PROPERTIES RefinesTaskMutex NeverWedged EveryLeaseEnds
