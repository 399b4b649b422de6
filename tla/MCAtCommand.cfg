SPECIFICATION FairSpec
CONSTANTS
  TableSize = 2
  Sequences = 2
  Ids = 4
  Backlog = 2
  List <- MCList
  Refresh = 2
  BuildTimeout = 2
  LocalTimeout = 2
  ReuseTimeout = 2
  MaxFaults = 3
INVARIANTS TypeOK AnswersOwn QueryNotStranded
PROPERTIES DoneMeansAll GetsOnline
CHECK_DEADLOCK FALSE
