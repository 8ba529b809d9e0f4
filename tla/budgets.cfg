CONSTANTS
  Runs = {"r1", "r2"}
  Policies = {"company"}
  Scopes <- OneScope
  ScopeOf <- CompanyOnly
  ScopesOf <- AllCompany
  Estimate <- OneCent
  MaxCost = 1
  MaxLimit = 2
  MaxEdits = 1
  MaxFaults = 1
SPECIFICATION TopSpec
INVARIANTS TypeOK HoldTracksSpend NoOverbooking SpendIsAccounted StopIsFinal
PROPERTIES StopIsDelivered
CHECK_DEADLOCK FALSE
