SPECIFICATION Spec
CONSTANTS
  Conns = {c1, c2, c3}
  Server = server
  MaxConnections = 3
  MaxFrames = 4
  MainCalls = {"listen", "close", "closeOne", "closeConnection", "closeAll", "delete"}
  ServerCalls = {"listen", "close", "closeOne", "closeConnection", "closeAll"}
  ConnCalls = {"listen", "close", "closeOne", "closeConnection", "closeAll"}
INVARIANTS
  TypeOK
  NoDanglingFrame
  UnderminedIsFatal
  VectorOwnsConnections
  PolledOncePerWalk
PROPERTY
  DeletedOnlyWhenClosed
\* A frame that was undermined is not returned to.
CHECK_DEADLOCK FALSE
