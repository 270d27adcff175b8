SPECIFICATION Spec
CONSTANTS
  Requests = {r1, r2, r3}
  MaxReconnects = 1
INVARIANTS
  ExecutedOnce
PROPERTIES
  CallsReturn
  ImplementsCalls
CHECK_DEADLOCK FALSE
