\* A name is purged and added again by two operators.
SPECIFICATION Spec
CONSTANTS
  Threads = {t1, t2}
  Names = {n1, n2}
  Addrs = {a1}
  None = None
  Commands <- AddingPurging
  TotalUsers <- NoTotal
  LogMax = 3
  MaxUid = 2
  MaxWrites = 4
  MaxFailures = 0
SYMMETRY ReplicationSymmetry
CHECK_DEADLOCK FALSE
INVARIANTS NameFound
