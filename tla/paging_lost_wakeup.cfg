SPECIFICATION FairSpec
CONSTANTS
  Clients = {c1, c2}
  NPages = 2
  NFrames = 2
  PageSize = 1
  Values = {0}
  Ops = {"read"}
  Algo = "FIFO"
  CountMod = 4
PROPERTY RequestReturns
CHECK_DEADLOCK FALSE
