\* A download whose data connection fails.
SPECIFICATION Spec
CONSTANTS
  Clients = {c1, c2}
  Users = {u1}
  UserOf <- OneUser
  NoEntry = NoEntry
  Credits <- Rich
  Allotted = {}
  MaxSim <- Unlimited
  MaxGlobal <- NoLimit
  Exempt = {}
  KB = 2
  Ratio = 1
  Overwrite = FALSE
  OpenFails = TRUE
  Garbage = {}
  Kinds = {"RETR"}
  Offsets = {0}
  FileLen = 3
  MaxLen = 3
  MaxTransfers = 2
  MaxTotal = 4
  MaxInodes = 3
SYMMETRY ClientSymmetry
CHECK_DEADLOCK FALSE
INVARIANTS PaidForBytes
