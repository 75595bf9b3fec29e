SPECIFICATION Spec
CONSTANTS
  IndexLen = 0
  FooterLen = 1
  SegmentSize = 4
  MergeBufMax = 4
  OverflowChecks = TRUE
  Keys = {1, 2, 3, 4}
  Sizes = {1}
  Factors = {1, 2, 3}
  MaxOld = 2
  MaxIncoming = 2
INVARIANT LevelPartitioned
CHECK_DEADLOCK FALSE
