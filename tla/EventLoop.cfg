\* Two callers, an event array that is full after one event.
CONSTANTS
  Callers = {t1, t2}
  UserChannels = {c1}
  wakeupChannel_ = wake
  Functors = {f1, f2}
  WakeupMax = 2
  kInitEventListSize = 1
SPECIFICATION FairSpec
INVARIANTS NoLostWakeup Conservation
PROPERTIES RunsPromptly QuitReturns LastBatchRuns ImplementsSerialExecutor
