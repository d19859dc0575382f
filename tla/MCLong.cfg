CONSTANTS
  Messages <- MCMessages
  One = 3
  HeadLen = 1
  Byte = 4
  MaxCopies <- MCCopies
  ClearDuration = 1
  MaxTime = 4
  MaxRestarts = 1

SPECIFICATION Spec
INVARIANT TypeOK
INVARIANT JoinedComplete
INVARIANT WholeWhenAlone
INVARIANT StaleBounded
CHECK_DEADLOCK FALSE
