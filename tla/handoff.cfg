SPECIFICATION Spec
CONSTANTS
  a1 = a1
  a2 = a2
  c1 = c1
  c2 = c2
  Agents = {a1,a2}
  Comments = {c1}
  MaxRows = 3
  Inputs = {"system","reassign"}
  Facts = {"invokable","gone"}
PROPERTIES DeferredFollowsOwner OwnersMessagesKept
SYMMETRY Symmetry
CHECK_DEADLOCK FALSE
