SPECIFICATION ApplSpec
CONSTANTS
  Clients = {c1}
  NPages = 3
  NFrames = 2
  PageSize = 2
  Values = {0, 1, 2}
  Ops = {"read", "write"}
  Algo = "CLOCK2"
  CountMod = 4
  Length = 5
  Disks <- OneDisk
INVARIANTS SortedWhenDisplayed LoopsStayInRange PendingPartsAreApart
PROPERTIES Exits
CHECK_DEADLOCK FALSE
