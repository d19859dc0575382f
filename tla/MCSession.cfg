CONSTANTS
  Configs <- MCConfigs
  Accounts <- MCAccounts
  Ip <- MCIp
  Messages <- MCMessages
  MaxSends = 2
  NOSEQ = NOSEQ

SPECIFICATION FairSpec
INVARIANT TypeOK
INVARIANT ProtocolsAgree
INVARIANT FramesUnderstood
INVARIANT AnswerFindsItsMessage
PROPERTY SentIsAnswered
CHECK_DEADLOCK FALSE
