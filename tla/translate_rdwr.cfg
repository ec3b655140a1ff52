SPECIFICATION Spec
CONSTANTS
  CaseSize = 2
  Users = {u1, u2}
  Modes = {"r", "w", "rw"}
  translate_bufsize = 2
  translate_subst <- SwapCase
  Inputs = {97, 66}
  Leftovers = {0, 97}
  MaxCount = 3
  GoOn = FALSE
  SMP = FALSE
INVARIANT PortsAreExclusive
SYMMETRY UserSymmetry
