\* A login kick races with a shutdown.
SPECIFICATION FairSpec
CONSTANTS
  Clients = {c1, c2}
  Users = {u1}
  None = None
  NumLogins <- OneLogin
  MaxPasswordAttempts = 1
  Commands <- LoginOnly
  KickLogins = {TRUE}
  Sigterm = TRUE
  MaxQueue = 1
CHECK_DEADLOCK FALSE
PROPERTIES ShutdownExits
