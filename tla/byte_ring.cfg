SPECIFICATION Spec
CONSTANTS
  Size = 4
  Byte = {0, 1}
INVARIANTS EmptyWasTrue
PROPERTIES ActsAsByteQueue
