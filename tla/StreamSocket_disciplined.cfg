SPECIFICATION Spec
CONSTANTS
  Protocols = {4, 6}
  MainCalls = {"connect", "create", "close", "send", "setIOTimeout"}
  HandlerCalls = {"close", "send", "setIOTimeout"}
  ConnectTimeout = 2
  IOTimeout = 1
  MaxFrames = 6
INVARIANTS
  NoDescriptorLost
  NoStaleVisit
  CleanupHitsFailedDescriptor
PROPERTIES
  CallsReturn
  RefusalEndsInClose
  LifecycleSpec
