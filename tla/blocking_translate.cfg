SPECIFICATION Spec
CONSTANTS
  Users = {u1, u2}
  translate_bufsize = 2
  translate_subst <- DefaultSubst
  TableSize = 52
  Modes = {"r", "rw"}
  Inputs = {97, 66}
  MaxCount = 2
  GoOn = FALSE
INVARIANTS RoomIsAccountedFor UseCountFollowsFiles
PROPERTIES ImplementsFifo CallsReturn
CHECK_DEADLOCK FALSE
