CONSTANTS
  c1 = c1 c2 = c2 c3 = c3 m1 = m1 m2 = m2 m3 = m3 i1 = i1 i2 = i2 NONE = NONE
  Channels = {c1, c2}
  Outs = {m1}
  Ins = {i1}
  EntityType = "Server"
  MsgType <- AllSubmits
  MsgIds <- OneEach
  Frames <- OneEach
  IsPriority = {m1}
  Unencodable = {}
  InType <- InDelivers
  NoReceipt = {}
  ReadOnly = {}
  ReadLimit = 1
  WriteLimit = 1
  SendBuffCap = 0
  MaxChannels = 2
  IndexCycle = 2
  Faults = {}
  MaxTries <- OneEach
  Requests = {}
  Timers = {}

SPECIFICATION FairSpec
PROPERTY EveryLoginWorks
CHECK_DEADLOCK FALSE
