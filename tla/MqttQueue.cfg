SPECIFICATION Spec
CONSTANTS
  Size = 6
  BufSize = 3
  Packets <- SmallPackets
  MaxPress = 0
PROPERTIES
  PublishReturns
  ImplementsFifo
