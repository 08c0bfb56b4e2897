SPECIFICATION Spec
CONSTANTS
  Div = 5
  Short = 10
  Smart = 50
  Reset = 100
INVARIANTS
  OneRestorePerHold
  ShortPressIsShort
  RestartAfterRestore
