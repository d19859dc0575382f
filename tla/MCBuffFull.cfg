CONSTANTS
  c1 = c1 c2 = c2 c3 = c3 m1 = m1 m2 = m2 m3 = m3 i1 = i1 i2 = i2 NONE = NONE
  Channels = {c1, c2}
  Outs = {m1, m2, m3}
  Ins = {}
  EntityType = "Server"
  MsgType <- AllSubmits
  MsgIds <- OneEach
  Frames <- OneEach
  IsPriority = {}
  Unencodable = {}
  InType <- InDelivers
  NoReceipt = {}
  ReadOnly = {}
  ReadLimit = 3
  WriteLimit = 1
  SendBuffCap = 1
  MaxChannels = 2
  IndexCycle = 2
  Faults = {"peer_close"}
  MaxTries <- OneEach
  Requests = {}
  Timers = {"answers"}

SPECIFICATION FairSpec
PROPERTY BufferFullEnds
CHECK_DEADLOCK FALSE
