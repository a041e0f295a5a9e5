SPECIFICATION Spec
CONSTANTS
  Capacity = 2
  MaxMessage = 3
  MaxBytes = 4
INVARIANTS
  TypeOK
  SendTrueIsWhole
PROPERTIES
  BlockedSendReturns
  CloseIsNoticed
  ChannelSpec
CHECK_DEADLOCK FALSE
