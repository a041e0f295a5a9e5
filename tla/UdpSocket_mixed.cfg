SPECIFICATION Spec
CONSTANTS
  Hosts4 = {a4, b4}
  Hosts6 = {a6, b6}
  Groups = {g}
  CheckIpv6Only = {TRUE}
  LookupFails = FALSE
  MainCalls = {"listen", "send", "close"}
  MessageCalls = {"send", "reply", "close"}
  OtherCalls = {"close", "getIp"}
  MaxFrames = 2
INVARIANT AlwaysSentToPeer
