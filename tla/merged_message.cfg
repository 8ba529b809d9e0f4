SPECIFICATION Spec
CONSTANTS
  a1 = a1
  a2 = a2
  c1 = c1
  c2 = c2
  Agents = {a1}
  Comments = {c1,c2}
  MaxRows = 3
  Inputs = {"system"}
  Facts = {"invokable"}
INVARIANTS MergedMessagesKept
CHECK_DEADLOCK FALSE
