SPECIFICATION FairSignalsSpec
CONSTANTS
  UserSignals = {"USR2", "INT"}
  ClientFaults = TRUE
INVARIANTS SkippedOnlyWhenHit FaultNumberHasOwner NoSurplusAnswer
PROPERTIES FaultIsServed SleepingManagerObeys
CHECK_DEADLOCK FALSE
