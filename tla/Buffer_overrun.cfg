CONSTANTS
  Byte = {0, 1}
  kPrepend = 1
  kInitialSize = 4
  kExtrabuf = 2
  MaxLen = 3
SPECIFICATION Spec
INVARIANTS NeverOverrun
CHECK_DEADLOCK FALSE
