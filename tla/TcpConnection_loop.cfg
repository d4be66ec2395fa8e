\* User code on the I/O loop; the base loop is the same or another thread.
SPECIFICATION FairSpec
CONSTANTS
  kNew = kNew
  kAdded = kAdded
  kDeleted = kDeleted
  LoopUser = loopUser
  Users = {loopUser}
  Messages = {m1, m2}
  MaxCalls = 4
\* A destroyed connection takes no more steps.
CHECK_DEADLOCK FALSE
INVARIANTS OutputOrder WritingIffBuffered
PROPERTIES ImplementsBytePipe PeerCloseSeen ClosedIsFreed ShutdownEnds
