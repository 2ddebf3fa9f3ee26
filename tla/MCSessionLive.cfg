\* One account, two start-up checks and two sign-ins at once; liveness.
CONSTANTS
  Accounts = {a}
  None = None
  Checks = {1, 2}
  MaxLogins = 2
SPECIFICATION FairSpec
PROPERTIES
  SpinnerEnds
  
CHECK_DEADLOCK FALSE
