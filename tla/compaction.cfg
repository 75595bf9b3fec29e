SPECIFICATION FairSpec
CONSTANTS
  IndexLen = 0
  FooterLen = 0
  SegmentSize = 5
  MergeBufMax = 40
  OverflowChecks = TRUE
  Keys = {1, 2}
  Flushes <- MCFlushes
  Readers = {r1}
  L0Target = 2
  LevelSizeFactor = 2
  IndexFactor = 1
  SpuriousWakeups = TRUE
  IoErrors = TRUE
  MaxFlushes = 3
  MaxCompactions = 2
  MaxLives = 2
INVARIANTS TypeOK LevelsOrdered SnapshotsAnswer PartitionedIntact
PROPERTIES MergesKeepNewest DeletedIsMerged StartKeepsNewest DropReturns
CHECK_DEADLOCK FALSE
