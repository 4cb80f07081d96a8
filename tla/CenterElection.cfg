\* Three centers, crashes, losses, one restart; center 1 does not list center 3.
SPECIFICATION Spec
CONSTANTS
  Centers = {1, 2, 3}
  CenterList <- PartialList
  Times = {1}
  MaxStarts = 4
  Lossy = TRUE
INVARIANTS TypeOK LeaderHasQuorum NeverLeading InquiryAsksNobody VotesAreProposals
CHECK_DEADLOCK FALSE
