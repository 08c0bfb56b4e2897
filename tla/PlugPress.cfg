SPECIFICATION Spec
CONSTANTS
  PlugNum = 3
  TaskNum = 1
  MaxPress = 1
  Requests <- PressRequests
  InitialFlash <- NewDevice
INVARIANTS
  TypeOK
  MasterRule
  ResetIsPending
PROPERTIES
  WriteBackIsIdle
