CONSTANTS
  c1 = c1 c2 = c2 c3 = c3 m1 = m1 m2 = m2 m3 = m3 i1 = i1 i2 = i2 NONE = NONE
  Channels = {c1, c2}
  Outs = {m1, m2}
  Ins = {}
  EntityType = "Server"
  MsgType <- AllSubmits
  MsgIds <- LongFirst
  Frames <- LongFirst
  IsPriority = {m1}
  Unencodable = {}
  InType <- InDelivers
  NoReceipt = {}
  ReadOnly = {}
  ReadLimit = 2
  WriteLimit = 2
  SendBuffCap = 1
  MaxChannels = 2
  IndexCycle = 2
  Faults = {"peer_close", "limited"}
  MaxTries <- TwiceSecond
  Requests = {}
  Timers = {"answers"}

SPECIFICATION Spec
INVARIANT TypeOK
INVARIANT LoopBound
INVARIANT StaleHandleIsAnnounced
INVARIANT ParkedIsAnnounced
INVARIANT UnmatchedOnlyAfterTimeout
INVARIANT PartCustody
INVARIANT SingleCopy
CHECK_DEADLOCK FALSE
