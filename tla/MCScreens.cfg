\* Pages of two products out of five, lists of up to two categories, two pages
\* of categories, a countdown of two seconds, two recordings.
SPECIFICATION MCSpec
CONSTANTS
  Limit = 2
  Total = 5
  MaxPage = 5
  Category = {c1, c2}
  NoList = NoList
  LastCatPage = 2
  MaxAsked = 5
  Countdown = 2
  MaxCodes = 3
  RecChats = {c1, c2}
  MaxRecordings = 2
  MaxCalls = 4
  MaxForms = 2
  MaxSaves = 3
  MaxLoads = 4
INVARIANTS
  PagesOnce
  ArrowTells
  RowShowsItsCategory
  HoldsItsPage
  CountdownOwned
  FieldMatchesCode
  MicrophoneOwned
  
  ProfileShown
  OneLanguage
PROPERTIES
  WaitingEnds
CHECK_DEADLOCK FALSE
