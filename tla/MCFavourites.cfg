\* Five favourites on three pages, two removals at once.
CONSTANTS
  Limit = 2
  Total = 5
  MaxPage = 3
  MaxDeletes = 2
SPECIFICATION Spec
INVARIANTS
  NoRowTwice
  
  
CHECK_DEADLOCK FALSE
