SPECIFICATION Spec
CONSTANTS
  SIZE = 4000
  kMaxnumericSize = 48
  PrintedInts <- MCPrintedInts
  Threads = {t1, t2}
  Messages = {40, 3930}
  FuncLen = 4
  FileLen = 8
  LineNo = 35
  BufLines = 3
  rollSize_ = 2000
  flushInterval_ = 1
  checkEveryM_ = 2
  kRollPerseconds_ = 4
  StartTime = 1
  MaxTime = 4
  MaxLines = 4
INVARIANTS FatalReachesDisk RollsWhenDue FlushedInTime ConvertRight
CHECK_DEADLOCK FALSE
SYMMETRY Sym
