CONSTANTS
  Runs = {"r1", "r2"}
  Calls = {"sweep", "c1", "c2"}
  Sweep = "sweep"
  NoCall = "none"
  Gates <- OneOfEach
  MaxConcurrent = 1
  Stale = 1
  MaxStarts = 1
  MaxFaults = 1
SPECIFICATION FairSpec
INVARIANTS TypeOK ExclusiveUnlessStale SlotsRespected OneClaimer
PROPERTIES QueuedRunSettles
CHECK_DEADLOCK FALSE
