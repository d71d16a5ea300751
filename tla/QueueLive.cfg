SPECIFICATION FairSpec
CONSTANTS
  FileIds = {f1}
  Requests = {r1}
  NoChange = NoChange
  MaxAttempts = 2
  MaxIOErrors = 1
  MaxRetries = 1
  MaxRestarts = 1
  MaxChanges = 2
  MaxFaults = 1
  MaxHangups = 0
CHECK_DEADLOCK FALSE
PROPERTIES
  JobsSettle
