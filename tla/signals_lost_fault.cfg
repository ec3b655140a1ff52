SPECIFICATION SignalsSpec
CONSTANTS
  UserSignals = {"USR2", "INT"}
  ClientFaults = TRUE
INVARIANT CaughtFaultIsProcessed
CHECK_DEADLOCK FALSE
