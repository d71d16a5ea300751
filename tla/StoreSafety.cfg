SPECIFICATION Spec
CONSTANTS
  FileIds = {f1, f2}
  UploadIds = {u1}
  NoFile = NoFile
  NoUpload = NoUpload
  UploadSize = 2
  UploadTTL = TRUE
  MaxFaults = 1
  MaxCrashes = 2
SYMMETRY FileSymmetry
PROPERTIES
  RecoverKeepsData
  FollowsLifecycle
INVARIANTS
  TypeOK
  HeldBytesKept
  ManifestHasBytes
  OneCopy
  CompletedHasFile
  BytesUsedOnce
  ConfirmedBytesKept
  ManifestNeverAhead
  QuietStoreReady
  NoStrayTemporaries
CHECK_DEADLOCK FALSE
