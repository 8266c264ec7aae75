\* Two client threads and the signal handler, and a pipe of two bytes.
SPECIFICATION FairSpec
CONSTANTS
  Producers = {p1, p2, sig}
  Exiters = {sig}
  PipeSize = 2
  MaxPush = 2
CHECK_DEADLOCK FALSE
INVARIANTS NoLostWakeup
PROPERTIES ImplementsService TaskExecuted ShutdownStops
