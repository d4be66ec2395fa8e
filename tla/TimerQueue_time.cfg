\* Three-bit time stamps: they start at 0, which is not valid(), and wrap
\* from 3 to -4 after four ticks.
CONSTANTS
  Addrs = {1, 2}
  W = 3
  Start = 8
  Delays = {1, 2}
  MaxTime = 12
  Grace = 2
  MaxTimers = 2
  MaxPending = 1
  Free = Free
SPECIFICATION FairSpec
INVARIANTS NeverEarly ArmedInTime
PROPERTIES TimersRun
\* The clock stops at MaxTime.
CHECK_DEADLOCK FALSE
