SPECIFICATION Spec
CONSTANTS
  SegSize = 6
  HeaderSize = 2
  Sizes = {3, 4, 6, 9}
  TornWrites = TRUE
  WriteErrors = TRUE
  MaxRecords = 4
  MaxFaults = 2
  MaxCrashes = 2
INVARIANTS TypeOK SoundLogRecovers SoundLogOpens SoundSequenceNumbersIncrease NothingRevived FirstLifeNumbersIncrease
PROPERTY LogAppendOnly
CHECK_DEADLOCK FALSE
