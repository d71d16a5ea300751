SPECIFICATION Spec
CONSTANTS
  FileIds = {1, 2}
  UploadIds = {u1}
  Clients = {c1, c2}
  NoFile = NoFile
  NoUpload = NoUpload
  UploadSize = 2
  UploadTTL = TRUE
  MaxPage = 1
SYMMETRY ClientSymmetry
INVARIANTS
  ContentInOrder
  OneFilePerSession
  AbortedMakesNothing
  NoOrphans
  ListFindsAll
PROPERTIES
  AckedFilesStay
