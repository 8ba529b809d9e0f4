SPECIFICATION FairSpec
CONSTANTS
  i1 = i1
  i2 = i2
  Items <- MCItems
  RunDuringDrain = FALSE
  PausePassive = TRUE
  MaxFaults = 2
INVARIANTS
  TypeOK
  WorkIsScheduled
  DeadlineArmed
  HoldWhileUnresolved
PROPERTIES
  NothingAfterStop
  NoTaskAfterStop
  CommittedDelivered
  HoldReleased
  ImplementsQueue
CHECK_DEADLOCK FALSE
