\* Two conversations, two loads or subscriptions at a time, no paging; with
\* liveness, so no symmetry.
CONSTANTS
  Chats = {c1, c2}
  NoKey = NoKey
  MaxKey = 2
  Slots = {s1, s2}
  NoSub = NoSub
  PageSlots = {}
  FirstLimit = 2
  PageLimit = 2
SPECIFICATION FairSpec
INVARIANTS
  OnlyThisChat
  SeenBelongs
PROPERTIES
  
  NoSeenAfterTheEnd
  
CHECK_DEADLOCK FALSE
