\* Two conversations, one load or subscription, two pages in flight.
CONSTANTS
  Chats = {c1, c2}
  NoKey = NoKey
  MaxKey = 4
  Slots = {s1}
  NoSub = NoSub
  PageSlots = {p1, p2}
  FirstLimit = 2
  PageLimit = 2
SPECIFICATION Spec
SYMMETRY Symmetry
CONSTRAINT BeforeTheEnd
INVARIANTS
  ShownInOrder
  NothingMissing
PROPERTIES
  ShowsOneConversation
CHECK_DEADLOCK FALSE
