\* Login kicks, transfers and QUIT of two clients under fairness.
SPECIFICATION FairSpec
CONSTANTS
  Clients = {c1, c2}
  Users = {u1}
  None = None
  NumLogins <- OneLogin
  MaxPasswordAttempts = 1
  Commands <- LiveCommands
  KickLogins = {TRUE}
  Sigterm = FALSE
  MaxQueue = 1
CHECK_DEADLOCK FALSE
INVARIANTS FaultNeedsInterrupt
PROPERTIES InterruptedEnds WaiterGoesOn
