CONSTANTS
  ChunkSize = 2
  MaxEmits = 2
  MaxExecutions = 2
  MaxLive = 1
  MaxFaults = 1
  TailSize = 1
  MaxDrops = 1
SPECIFICATION FairSpec
INVARIANTS
  ClosedLogIsWhole
  SkipsOnlyAcrossAChunk
PROPERTIES
  LogKeepsItsPromise
  EveryFeedEnds
CHECK_DEADLOCK FALSE
