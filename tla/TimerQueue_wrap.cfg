\* Four-bit time stamps: the clock wraps from 7 to -8 after two ticks.
CONSTANTS
  Addrs = {1, 2}
  W = 4
  Start = 6
  Delays = {0, 2}
  MaxTime = 8
  Grace = 0
  MaxTimers = 3
  MaxPending = 2
  Free = Free
SPECIFICATION Spec
INVARIANTS SetsAgree OwnedOnce NoTimerLost CancelHolds
CHECK_DEADLOCK FALSE
