SPECIFICATION Spec
CONSTANTS
  Users = {u1, u2}
  NO_OF_DEVICES = 2
INVARIANTS NothingLeftBehind OpenableIsSetUp MishapsNeedFailedInit
CHECK_DEADLOCK FALSE
