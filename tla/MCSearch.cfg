\* Five texts, three requests in flight.
CONSTANTS
  MaxTyped = 5
  MaxRequests = 3
SPECIFICATION FairSpec
INVARIANTS
  RestShowsLatest
  SpinnerWaits
PROPERTIES
  SpinnerEnds
CHECK_DEADLOCK FALSE
