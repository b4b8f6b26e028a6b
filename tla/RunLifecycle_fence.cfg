CONSTANTS
  NoRun = NoRun
  NoProc = NoProc
  c1 = c1
  c2 = c2
  p1 = p1
  p2 = p2
  Runs = {r1}
  Conts = {c1, c2}
  Procs = {p1}
  ProcOf <- Shared
  NMsgs = 1
  MaxFaults = 1
  MaxFence = 2
  Wakes <- NoWakes
SPECIFICATION Spec
CHECK_DEADLOCK FALSE
PROPERTIES
  ReclaimRaisesFence
