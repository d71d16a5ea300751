SPECIFICATION Spec
CONSTANTS
  FileIds = {f1}
  Requests = {r1}
  NoChange = NoChange
  MaxAttempts = 2
  MaxIOErrors = 0
  MaxRetries = 0
  MaxRestarts = 0
  MaxChanges = 4
  MaxFaults = 0
  MaxHangups = 0
CHECK_DEADLOCK FALSE
INVARIANTS
  ClearQueueInSync
