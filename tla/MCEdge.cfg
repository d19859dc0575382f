CONSTANTS
  c1 = c1 c2 = c2 c3 = c3 m1 = m1 m2 = m2 m3 = m3 i1 = i1 i2 = i2 NONE = NONE
  Channels = {c1}
  Outs = {m1, m2}
  Ins = {i1, i2}
  EntityType = "Custom"
  MsgType <- DeliverAndReport
  MsgIds <- OneEach
  Frames <- OneEach
  IsPriority = {m1}
  Unencodable = {m2, "Terminate"}
  InType <- InSubmits
  NoReceipt = {i1}
  ReadOnly = {}
  ReadLimit = 1
  WriteLimit = 1
  SendBuffCap = 0
  MaxChannels = 1
  IndexCycle = 1
  Faults = {"write_error", "silence"}
  MaxTries <- OneEach
  Requests = {"state", "close"}
  Timers = {"answers", "days"}

SPECIFICATION Spec
INVARIANT ReportedIsCurrent
INVARIANT UnmatchedOnlyAfterTimeout
INVARIANT InboundCustody
CHECK_DEADLOCK FALSE
