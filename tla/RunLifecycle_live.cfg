CONSTANTS
  NoRun = NoRun
  NoProc = NoProc
  c1 = c1
  c2 = c2
  p1 = p1
  p2 = p2
  Runs = {r1, r2}
  Conts = {c1}
  Procs = {p1}
  ProcOf <- Single
  NMsgs = 2
  MaxFaults = 1
  MaxFence = 0
  Wakes <- NoWakes
  Sharers = {"b1"}
  ScreenRequests = {"q1"}
  ExpiryWorkers = {"w"}
  RunsEach = 2
  MaxGrants = 2
  MaxSnags = 1
  Requests = {"q1"}
  Timers = {"w1"}
  MaxSessions = 2
  MaxControls = 1
  MaxHitches = 1
SPECIFICATION PartSpec
VIEW PartView
CHECK_DEADLOCK FALSE
INVARIANTS
  SessionTended
PROPERTIES
  NoSilentDrop
  KeepsPromise
  RunSettles
  SteeringSettles
  TakeoverSettles
  SessionSettles
