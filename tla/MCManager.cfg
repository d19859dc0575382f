CONSTANTS
  p = p ZERO = ZERO NONE = NONE
  add = add modify = modify bare = bare remove = remove send = send ask = ask
  Ids = {p, ZERO}
  Msgs = {add, modify, bare, send, ask}
  Topic <- TopicOf
  To <- ToOf
  NoAddress = {bare}
  Conns = {1, 2}
  Peers = {2}
  Late = {2}
  MaxGens = 2
  MaxConn = 1
  QueueCap = 1
  ServerConnectNumber = 0
  ReadLimit = 1
  MaxRestarts = 1
  MaxLag = 1

SPECIFICATION FairSpec
INVARIANT TypeOK
INVARIANT RegistriesAgree
INVARIANT NoOrphanTask
INVARIANT LoginSeesOpenEntity
INVARIANT LostOnePerRestart
PROPERTY ImplementsRegistry
PROPERTY ManagerReturns
PROPERTY ClosedEntityGoes
CHECK_DEADLOCK FALSE
