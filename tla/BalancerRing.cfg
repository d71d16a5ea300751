SPECIFICATION FairSpec
CONSTANTS
  n1 = n1
  n2 = n2
  n3 = n3
  Nodes = {n1, n2, n3}
  NoNode = NoNode
  Replicas = 2
  Size = 4
  Hashes <- MCHashes
  MaxStarts = 2
INVARIANTS
  LookupsFindNodes
  NearestNodeServes
  RunningHasRoutine
PROPERTIES
  OnlyOwnKeysMove
  StoppedRoutinesEnd
CHECK_DEADLOCK FALSE
