CONSTANTS
  NoRun = NoRun
  NoProc = NoProc
  c1 = c1
  c2 = c2
  p1 = p1
  p2 = p2
  Runs = {r1, r2}
  Conts = {c1}
  Procs = {p1}
  ProcOf <- Single
  NMsgs = 2
  MaxFaults = 1
  MaxFence = 2
  Wakes <- NoWakes
SPECIFICATION Spec
SYMMETRY Symmetry
CHECK_DEADLOCK FALSE
PROPERTIES
  RacingSteeringContinues
