SPECIFICATION FairSpec
CONSTANTS
  Clients = {c1, c2}
  NPages = 3
  NFrames = 2
  Values = {0, 1}
  OldValue = 0
  Algos = {"LFU", "FIFO", "CLOCK"}
  MaxCalls = 4
  DumpEnd = 2
INVARIANTS OneToken OrderlyUseIsSafe
PROPERTIES NotAllStuck FlatUntilDisturbed
CHECK_DEADLOCK FALSE
