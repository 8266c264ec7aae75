\* Downloads of a poor user and of an exempt one, and uploads of one name.
SPECIFICATION Spec
CONSTANTS
  First = c1
  Others = {c2, c3}
  NoEntry = NoEntry
SYMMETRY OtherSymmetry
CHECK_DEADLOCK FALSE
INVARIANTS PaidForBytes NotOverdrawn UploadKept
