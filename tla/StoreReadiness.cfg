SPECIFICATION ReadinessSpec
CONSTANTS
  FileIds = {f1}
  UploadIds = {u1}
  Probes = {p1, p2}
  NoFile = NoFile
  NoUpload = NoUpload
  UploadSize = 2
  UploadTTL = TRUE
  MaxFaults = 1
  MaxCrashes = 1
PROPERTIES
  LoneProbeReady
  ReadyMeansWhole
  ServesAgain
  LockReleased
CHECK_DEADLOCK FALSE
