SPECIFICATION Spec
CONSTANTS
  IndexLen = 0
  FooterLen = 0
  SegmentSize = 5
  MergeBufMax = 40
  OverflowChecks = TRUE
  Keys = {1, 2}
  Flushes <- MCFlushes
  Readers = {r1}
  L0Target = 2
  LevelSizeFactor = 2
  IndexFactor = 1
  SpuriousWakeups = FALSE
  IoErrors = FALSE
  MaxFlushes = 3
  MaxCompactions = 1
  MaxLives = 1
PROPERTY FlushedKept
CHECK_DEADLOCK FALSE
