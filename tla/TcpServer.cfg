SPECIFICATION FairSpec
CONSTANTS
  Clients = {c1, c2, c3}
  NumThreads = 1
  MaxFds = 3
  MaxOthers = 1
  Base = Base
INVARIANTS SpareKept DestroyedOnce AllReleased
PROPERTY ClientAnswered
CHECK_DEADLOCK FALSE
