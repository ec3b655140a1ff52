SPECIFICATION Spec
CONSTANTS
  NPages = 4
  NFrames = 2
  Values = {7}
  Algos = {"CLOCK2"}
  MaxEvents = 5
INVARIANTS IndexesStayNear FaultsAreAccountedFor
PROPERTIES FlatButForVoid
CHECK_DEADLOCK FALSE
