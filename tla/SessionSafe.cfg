\* Two clients of one user: logins and login kicks, SITE KICK and SHUTDOWN, SIGTERM.
SPECIFICATION Spec
CONSTANTS
  Clients = {c1, c2}
  Users = {u1}
  None = None
  NumLogins <- OneLogin
  MaxPasswordAttempts = 2
  Commands <- BusyCommands
  KickLogins = {TRUE}
  Sigterm = TRUE
  MaxQueue = 1
SYMMETRY ClientSymmetry
CHECK_DEADLOCK FALSE
INVARIANTS LogoutOnce LoginCountExact WaiterHasTask IInv
