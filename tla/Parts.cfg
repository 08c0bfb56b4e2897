SPECIFICATION SpecParts
CONSTANTS
  \* Schedule
  S = 3  M = 3  H = 2  W = 2
  Tasks <- MCTasks
  Drift = 1
  MaxOff = 2
  Intervals = {0, 2}
  \* WifiStation
  Div = 1  Short = 2  Smart = 3  Reset = 5
  MaxClients = 2
  MaxSets = 2
  \* WebServer
  Conns = {1, 2}
  Names <- MCNames
  SsidMax = 31
  PassMax = 63
  \* OtaUpdate
  Urls <- MCUrls
  DnsEntries = {1, 2}
  \* PowerMeter
  Frames <- MCFrames
  Width = 1
  TEMP_COUNT = 3
  FifoSize = 12
  FullAt = 12
  Damages <- MCDamages
  MaxWaiting = 1
  \* MqttReceive
  Packets <- MCPackets
  MaxPackets = 2
  Topics <- MCTopics
  Payloads <- MCPayloads
  Strings <- MCStrings
  InBuffer = 24
  BufferLength = 132
  IdMod = 3
  \* I2cMaster
  Values = {143, 79}
  Input = 253
  MaxDisturbances = 1
  \* CJsonTree
  Cells = {1, 2, 3, 4, 5, 6}
  MemberNames <- MCMemberNames
  Leaves <- MCLeaves
  HeapBudgets = {0, 1, 9}
  MaxCalls = 3
  \* CJsonText
  Documents <- MCDocuments
  Plenty = 1000
  IntMax = 99
  Nesting = 3
  TextBudgets = {0, 3, 1000}
  Texts <- MCTexts
  Spoilers = {34, 92}
  \* SpiOverlap
  Confs <- MCConfs
  ChipSize = 128
  ReadAddrs = {0, 100}
  ReadLengths = {0, 31, 66}
  \* KeyDriver
  Keys = {1, 2}
INVARIANTS
  PartsTypeOK
  TasksKeepTime
  WifiStatesTell
  RestartIsPending
  OneAnswer
  NetworkIsTyped
  OneUrlPerRequest
  MeterRecovers
  EncodedIsDecoded
  CommandsAreDelivered
  TrueMeansWritten
  SetRecovers
  TreesAreSound
  TextIsTheTree
  HeapIsKept
  BusIsSelected
  KeysAreHeard
