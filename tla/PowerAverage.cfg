SPECIFICATION MeterSpec
CONSTANTS
  Frames <- MCFrames
  Damages <- MCDamages
  Width = 3
  TEMP_COUNT = 10
  FifoSize = 128
  FullAt = 100
  MaxWaiting = 0
INVARIANT AverageIsTrimmedMean
