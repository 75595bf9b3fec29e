SPECIFICATION Spec
CONSTANTS
  SegSize = 6
  HeaderSize = 2
  Sizes = {3, 4}
  TornWrites = TRUE
  WriteErrors = FALSE
  MaxFaults = 2
  MaxRecords = 3
  MaxCrashes = 2
INVARIANT LogRecovers
CHECK_DEADLOCK FALSE
