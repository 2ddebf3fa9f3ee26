\* Two accounts that take turns on one device.
CONSTANTS
  Accounts = {a, b}
  None = None
SPECIFICATION FairSpec
INVARIANTS
  OwnChatsOnly
  DotIsRight
PROPERTIES
  ChangeShows
CHECK_DEADLOCK FALSE
