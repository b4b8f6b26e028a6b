CONSTANTS
  Sharers = {"b1"}
  ScreenRequests = {"q1"}
  ExpiryWorkers = {"w"}
  RunsEach = 1
  MaxGrants = 1
  MaxSnags = 0
SPECIFICATION ScreenSpec
CHECK_DEADLOCK FALSE
INVARIANT DedicatedTakeoverBinds
