\* Two lines fill a buffer; three buffers exceed the drop limit.
CONSTANTS
  Lines = {l1, l2, l3, l4, big}
  big = big
  LineLen <- MCLineLen
  SIZE = 3
  DropLimit = 2
  Null = Null
SPECIFICATION FairSpec
INVARIANTS BuffersSuffice LinesConserved
PROPERTIES LinesReachFile StopReturns
