SPECIFICATION UsageSpec
CONSTANTS
  FileIds = {f1, f2}
  UploadIds = {u1}
  NoFile = NoFile
  NoUpload = NoUpload
  UploadSize = 1
  UploadTTL = TRUE
  MaxFaults = 1
  MaxCrashes = 1
  Quota = 2
  PutSizes = {0, 1, 2}
SYMMETRY FileSymmetry
INVARIANTS
  UsageTypeOK
  BytesMatchRescan
  NeverUndercounts
  QuotaKept
CHECK_DEADLOCK FALSE
