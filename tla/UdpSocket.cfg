SPECIFICATION Spec
CONSTANTS
  Hosts4 = {a4, b4}
  Hosts6 = {a6}
  Groups = {g}
  CheckIpv6Only = {TRUE, FALSE}
  LookupFails = TRUE
  MainCalls = {"listen", "send", "addMembership", "dropMembership", "create", "close", "getIp"}
  MessageCalls = {"listen", "send", "reply", "addMembership", "dropMembership", "create", "close", "getIp"}
  OtherCalls = {"listen", "send", "addMembership", "dropMembership", "create", "close", "getIp"}
  MaxFrames = 3
INVARIANTS
  TypeOK
  BeliefIsTrue
  SentToPeer
  ReplyReachesSender
  FailureEndsInClose
PROPERTY
  LifecycleUntilLoss
