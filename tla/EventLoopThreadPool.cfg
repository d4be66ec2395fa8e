\* Up to three loop threads.
CONSTANTS
  MaxThreads = 3
SPECIFICATION FairSpec
INVARIANTS LoopPointerValid JoinedBeforeFree
PROPERTIES StartReturns DestroyReturns
\* A destroyed pool takes no more steps.
CHECK_DEADLOCK FALSE
