\* A user is deleted and readded while sessions log in, run and are kicked.
SPECIFICATION Spec
CONSTANTS
  Clients = {c1, c2}
  Users = {u1}
  None = None
  NumLogins <- OneLogin
  MaxPasswordAttempts = 1
  Commands <- UpdateCommands
  KickLogins = {FALSE}
  Sigterm = FALSE
  MaxQueue = 1
SYMMETRY ClientSymmetry
CHECK_DEADLOCK FALSE
INVARIANTS UpdateNotLost LoginLimit
