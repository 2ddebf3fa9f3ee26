\* Two clients and one conversation.
CONSTANTS
  Users = {u1, u2}
  Chats = {c1}
  NoKey = NoKey
  Faulty = {u1, u2}
  Uploaders = {u1, u2}
  MaxKey = 2
  MaxOutbox = 3
SPECIFICATION Spec
SYMMETRY Symmetry
INVARIANTS
  
  SummaryIsNewest
  
CHECK_DEADLOCK FALSE
