CONSTANTS
  c1 = c1 c2 = c2 c3 = c3 m1 = m1 m2 = m2 m3 = m3 i1 = i1 i2 = i2 NONE = NONE
  Channels = {c1}
  Outs = {m1}
  Ins = {}
  EntityType = "Server"
  MsgType <- AllSubmits
  MsgIds <- LongFirst
  Frames <- LongFirst
  IsPriority = {}
  Unencodable = {}
  InType <- InDelivers
  NoReceipt = {}
  ReadOnly = {}
  ReadLimit = 2
  WriteLimit = 2
  SendBuffCap = 0
  MaxChannels = 2
  IndexCycle = 2
  Faults = {"limited"}
  MaxTries <- TwiceFirst
  Requests = {}
  Timers = {}

SPECIFICATION Spec
INVARIANT LongSentAgainOnce
CHECK_DEADLOCK FALSE
