SPECIFICATION Spec
CONSTANTS
  Size = 5
  BufSize = 1
  Packets <- TinyPackets
  MaxPress = 1
INVARIANTS
  RingIsSound
PROPERTIES
  ImplementsBytes
