SPECIFICATION Spec
CONSTANTS
  Protocols = {4, 6}
  MainCalls = {"connect", "create", "close", "send", "setIOTimeout"}
  HandlerCalls = {"connect", "create", "close", "send"}
  ConnectTimeout = 2
  IOTimeout = 1
  MaxFrames = 3
INVARIANTS
  TypeOK
  FdMatchesState
  FailureEndsInClose
  ReportedErrorIsSet
  ConnectedMeansChecked
PROPERTIES
  ConnectResolves
  LifecycleUntilLoss
