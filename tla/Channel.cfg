\* Two calls of a method, which may overlap, and two users who race for the answers.
SPECIFICATION FairSpec
CONSTANTS
  Methods = {m1}
  Users = {u1, u2}
  Limits = {1, 2}
  NumFds = 2
  MaxCalls = 2
  MaxUnder = 2
INVARIANTS NoResultConflict  OwnAnswer AnswersReachable
PROPERTIES CallsEnd
CHECK_DEADLOCK FALSE
