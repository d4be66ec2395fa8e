\* Eight-bit time stamps: no wrap within the modelled time.
CONSTANTS
  Addrs = {1, 2}
  W = 8
  Start = 1
  Delays = {1, 2}
  MaxTime = 5
  Grace = 0
  MaxTimers = 2
  MaxPending = 1
  Free = Free
SPECIFICATION Spec
INVARIANTS TimersArmed
\* The clock stops at MaxTime.
CHECK_DEADLOCK FALSE
