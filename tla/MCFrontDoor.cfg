SPECIFICATION Spec
CHECK_DEADLOCK FALSE
CONSTANTS
  None = None
  NoId = NoId
  Workers = {w1, w2}
  Addresses = {a}
  Supplied = {good, bad}
  Safe = {good}
  Debug = FALSE
  Second = 2
  Period = 4
  Rate = 1
  MaxClock = 5
  MaxRequests = 3
SYMMETRY Symmetry
INVARIANTS
  OneIdPerRequest
  SameAnswerOnEveryPath
PROPERTIES
  RetryIsExact
