CONSTANTS
  Delegated = {"r1", "r2"}
  OwedBatch = 1
  MaxErrors = 1
SPECIFICATION OutcomesSpec
CHECK_DEADLOCK FALSE
PROPERTIES
  SweptWaitAnswers
