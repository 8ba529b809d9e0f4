CONSTANTS
  Runs = {"r1", "r2", "r3"}
  Calls = {"sweep", "c1", "c2"}
  Sweep = "sweep"
  NoCall = "none"
  Gates <- OneHeld
  MaxConcurrent = 1
  Stale = 1
  MaxStarts = 1
  MaxFaults = 0
SPECIFICATION PromptSpec
INVARIANTS LimitHolds
CHECK_DEADLOCK FALSE
