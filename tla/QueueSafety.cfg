SPECIFICATION Spec
CONSTANTS
  FileIds = {f1}
  Requests = {r1, r2}
  NoChange = NoChange
  MaxAttempts = 2
  MaxIOErrors = 1
  MaxRetries = 1
  MaxRestarts = 1
  MaxChanges = 3
  MaxFaults = 0
  MaxHangups = 1
CHECK_DEADLOCK FALSE
SYMMETRY Interchangeable
INVARIANTS
  OwedJobsAreQueued
  CompletedMeansExecuted
  RunningHasWorker
  UndisturbedQueueInSync
