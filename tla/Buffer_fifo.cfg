\* Four bytes of storage, data of up to three bytes of two values.
CONSTANTS
  Byte = {0, 1}
  kPrepend = 1
  kInitialSize = 4
  kExtrabuf = 2
  MaxLen = 3
SPECIFICATION Spec
INVARIANTS Fifo
\* After an overrun the behaviour is undefined and not described.
CHECK_DEADLOCK FALSE
