\* Uploads, resumed uploads and downloads of one file, with every failure; one transfer of a kind per user.
SPECIFICATION Spec
CONSTANTS
  Clients = {c1, c2}
  Users = {u1}
  UserOf <- OneUser
  NoEntry = NoEntry
  Credits <- NewUser
  Allotted = {}
  MaxSim <- OneTransfer
  MaxGlobal = 1
  Exempt = {}
  KB = 1
  Ratio = 1
  Overwrite = TRUE
  OpenFails = TRUE
  Garbage = {1}
  Kinds = {"RETR", "STOR"}
  Offsets = {0, 1}
  FileLen = 2
  MaxLen = 2
  MaxTransfers = 2
  MaxTotal = 3
  MaxInodes = 2
SYMMETRY ClientSymmetry
CHECK_DEADLOCK FALSE
INVARIANTS SlotsSound RecordedOnce NoPartialFile LedgerBalanced
