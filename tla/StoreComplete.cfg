SPECIFICATION Spec
CONSTANTS
  FileIds = {f1}
  UploadIds = {u1}
  NoFile = NoFile
  NoUpload = NoUpload
  UploadSize = 2
  UploadTTL = TRUE
  MaxFaults = 1
  MaxCrashes = 0
INVARIANTS
  CompleteAtomic
CHECK_DEADLOCK FALSE
