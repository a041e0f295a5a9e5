SPECIFICATION Spec
CONSTANTS
  Events = {e1, e2}
  MaxHandlers = 4
  MaxDepth = 3
\* An emit with a stale iterator is not followed any further.
CHECK_DEADLOCK FALSE
INVARIANTS
  TypeOK
  StaleOnlyWhenOutgrown
  EachHandlerOnce
