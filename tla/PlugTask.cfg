SPECIFICATION Spec
CONSTANTS
  PlugNum = 2
  TaskNum = 1
  MaxPress = 1
  Requests <- TaskRequests
  InitialFlash <- OldDevice
INVARIANTS
  OneShotStaysOff
  RelayAgrees
  FlashAgrees
  ReportAgrees
