SPECIFICATION FairSpec
CONSTANTS
  a1 = a1
  a2 = a2
  c1 = c1
  c2 = c2
  Agents = {a1}
  Comments = {c1}
  MaxRows = 3
  Inputs = {"system","done","todo","blocked"}
  Facts = {"invokable"}
PROPERTIES QueuedRunSettles SavedMessageDelivered
CHECK_DEADLOCK FALSE
