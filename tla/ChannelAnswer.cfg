\* Two calls that overlap get the answers of each other.
SPECIFICATION Spec
CONSTANTS
  Methods = {m1}
  Users = {u1, u2}
  Limits = {1, 2}
  NumFds = 2
  MaxCalls = 2
  MaxUnder = 2
INVARIANT AnswerIsOfCall
CHECK_DEADLOCK FALSE
