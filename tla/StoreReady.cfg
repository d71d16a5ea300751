SPECIFICATION Spec
CONSTANTS
  FileIds = {f1}
  UploadIds = {u1}
  NoFile = NoFile
  NoUpload = NoUpload
  UploadSize = 2
  UploadTTL = TRUE
  MaxFaults = 0
  MaxCrashes = 1
INVARIANTS
  ReadyAfterRecovery
CHECK_DEADLOCK FALSE
