\* Two products, two pages on top of each other, two requests of a page; with
\* liveness, so no symmetry.
CONSTANTS
  Products = {p, q}
  Null = Null
  NoKey = NoKey
  MaxPages = 2
  MaxCreates = 2
SPECIFICATION FairSpec
INVARIANTS
  
  KeysExist
PROPERTIES
  ConversationAppears
CHECK_DEADLOCK FALSE
