\* A screen whose requests failed really stops: no deadlock check.
\* A full page, a half one and an empty one, and room for two items published
\* in between.
CONSTANTS
  PageSize = 2
  MaxItem = 3
  MaxPage = 3
SPECIFICATION FairSpec
INVARIANTS
  TypeOK
  NoDuplicates
  InsertionsFit
  NoHole
  EndMeansComplete
  FlagsFollowRequests
PROPERTIES
  SpinnersStop
CHECK_DEADLOCK FALSE
