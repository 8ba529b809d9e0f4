SPECIFICATION Spec
CONSTANTS
  p1 = p1
  p2 = p2
  NoBoot = NoBoot
  RandomBoot = RandomBoot
  Boots <- MCBoots
  Lease = 3
  Lateness = 1
  MaxTime = 9
INVARIANTS
  TypeOK
  RevokedControllerStops
  PreparingProvesNoWork
  DeadlineCoveredByLease
PROPERTIES
  StageFrozenByRevocation
CHECK_DEADLOCK FALSE
