\* Two operators with failures and an overflowing log; one operator.
SPECIFICATION PairSpec
CONSTANTS
  Threads = {t1, t2}
  Names = {n1, n2}
  Third = n3
  Addrs = {a1}
  None = None
  Commands <- AllCommands
  TotalUsers <- NoTotal
  LogMax = 1
  MaxUid = 1
  MaxWrites = 2
  MaxFailures = 1
CHECK_DEADLOCK FALSE
INVARIANTS StaleIfMissed OneOperatorExact
PROPERTIES CatchesUp
