SPECIFICATION Spec
CONSTANTS
  PlugNum = 2
  TaskNum = 1
  MaxPress = 0
  Requests <- MasterOffRequests
  InitialFlash <- NewDevice
INVARIANTS
  ClosedMasterClosesAll
