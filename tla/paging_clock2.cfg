SPECIFICATION Spec
CONSTANTS
  Clients = {c1}
  NPages = 3
  NFrames = 2
  PageSize = 1
  Values = {v1, v2}
  Ops = {"read", "write"}
  Algo = "CLOCK2"
  CountMod = 4
INVARIANTS TypeOK TablesInverse CleanPagesMatchPagefile NoWildAccess OneAnswerPerFault ServedPageIsPresent
PROPERTIES ImplementsFlatMemory ImplementsSecondChance
SYMMETRY ValueSymmetry
