\* Three centers that neither crash nor lose a message elect a leader.
SPECIFICATION FairSpec
CONSTANTS
  Centers = {1, 2, 3}
  CenterList <- FullList
  Times = {1, 2}
  MaxStarts = 3
  Lossy = FALSE
PROPERTY LeaderElected
CHECK_DEADLOCK FALSE
