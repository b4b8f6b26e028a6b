CONSTANTS
  d1 = d1
  d2 = d2
  NoDrain = NoDrain
  Drains = {d1, d2}
  NRows = 1
  MaxAttempts = 2
  Cap = 1
  MaxFaults = 1
  MaxInbound = 1
SPECIFICATION Spec
CHECK_DEADLOCK FALSE
INVARIANT
  InviteAtMostOnce
