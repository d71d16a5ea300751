SPECIFICATION FairSpec
CONSTANTS
  Chunks = {k1}
  Sizes = {1, 3}
  NoChunk = NoChunk
  BlockSize = 2
  DiskQuota = 6
  MaxStarts = 2
  MaxFaults = 1
  MaxCrashes = 1
INVARIANTS
  RunningHasHeartbeat
PROPERTIES
  FollowsChunkStore
  FreeSpaceIsReal
  StoppedHeartbeatsEnd
