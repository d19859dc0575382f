CONSTANTS
  c1 = c1 c2 = c2 c3 = c3 m1 = m1 m2 = m2 m3 = m3 i1 = i1 i2 = i2 NONE = NONE
  Channels = {c1, c2}
  Outs = {m1}
  Ins = {i1}
  EntityType = "Custom"
  MsgType <- DeliverAndReport
  MsgIds <- OneEach
  Frames <- OneEach
  IsPriority = {m1}
  Unencodable = {}
  InType <- InSubmits
  NoReceipt = {}
  ReadOnly = {}
  ReadLimit = 2
  WriteLimit = 1
  SendBuffCap = 0
  MaxChannels = 2
  IndexCycle = 2
  Faults = {"abort", "peer_terminate"}
  MaxTries <- OneEach
  Requests = {"close"}
  Timers = {"answers"}

SPECIFICATION Spec
INVARIANT ReportedIsCurrent
INVARIANT StaleHandleIsAnnounced
INVARIANT ParkedIsAnnounced
INVARIANT InboundCustody
INVARIANT SingleCopy
CHECK_DEADLOCK FALSE
