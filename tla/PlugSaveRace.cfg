SPECIFICATION Spec
CONSTANTS
  PlugNum = 2
  TaskNum = 1
  MaxPress = 1
  Requests <- RenameRequests
  InitialFlash <- NewDevice
INVARIANTS
  SettingsPersist
