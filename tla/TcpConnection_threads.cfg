\* One user thread and user code on the I/O loop; the base loop is the same or another thread.
SPECIFICATION Spec
CONSTANTS
  kNew = kNew
  kAdded = kAdded
  kDeleted = kDeleted
  LoopUser = loopUser
  Users = {u1, loopUser}
  Messages = {m1}
  MaxCalls = 3
\* A destroyed connection takes no more steps.
CHECK_DEADLOCK FALSE
INVARIANTS EpollNeverFails CloseOnce ClosedIsSilent NoUseAfterFree
