CONSTANTS
  Runs = {"r1"}
  Policies = {"company"}
  Scopes <- OneScope
  ScopeOf <- CompanyOnly
  ScopesOf <- AllCompany
  Estimate <- OneCent
  MaxCost = 2
  MaxLimit = 2
  MaxEdits = 1
  MaxFaults = 0
SPECIFICATION Spec
INVARIANT StopIsOwed
CHECK_DEADLOCK FALSE
