SPECIFICATION ComputerSpec
CONSTANTS
  Runs = {"r1", "r2"}
  Managers = {"m"}
  BotOf <- MCBotOf
  Jobs = {"sleep", "replace", "stop"}
  Boxes = {1, 2, 3}
  MaxFaults = 1
  MaxStamp = 3
  b1 = b1
  b2 = b2
  Sharers = {b1, b2}
  ScreenRequests = {"q1", "q2"}
  ExpiryWorkers = {"q2"}
  RunsEach = 1
  MaxGrants = 2
  MaxSnags = 1
SYMMETRY Symmetry
CHECK_DEADLOCK FALSE
INVARIANTS
  OneActivator
  OneSandbox
  SparesWork
  NoSandboxLost
  TeamTakeoverBinds
PROPERTIES
  HeldUntilGivenUp
