SPECIFICATION SFairSpec
CONSTANTS
  a1 = a1
  c1 = c1
  Agents = {a1}
  Comments = {}
  MaxRows = 3
  Inputs = {"crash","done"}
  Facts = {"invokable"}
  MaxCrashes = 3
INVARIANTS SweepTypeOK OneRetry
PROPERTIES StrandedWorkContinues
CHECK_DEADLOCK FALSE
