SPECIFICATION Spec
CONSTANTS
  KeepAlive = 2
  SendTimeout = 1
  ReconnectTimeout = 1
  TaskQueue = 2
  Room = 2
INVARIANTS
  TypeOK
  WorkIsPosted
  SessionIsAccepted
  SubscribeIsKept
  SessionAnnounces
PROPERTIES
  Reconnects
  QueueDrains
  SilenceIsNoticed
