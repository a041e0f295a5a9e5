SPECIFICATION Spec
CONSTANTS
  Conns = {c1, c2, c3, c4}
  Server = server
  MaxConnections = 3
  MaxFrames = 20
  MainCalls = {"listen", "close", "closeOne", "closeConnection", "closeAll", "delete"}
  ServerCalls = {"close", "closeOne", "closeConnection", "closeAll"}
  ConnCalls = {"closeOne"}
INVARIANTS
  ScratchNotShared
  WinSockCounted
PROPERTY
  PoolSpec
