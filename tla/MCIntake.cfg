SPECIFICATION FairSpec
CHECK_DEADLOCK FALSE
CONSTANTS
  None = None
  ana = ana
  bea = bea
  first = first
  second = second
  key = key
  Ana = Ana
  Anna = Anna
  Emails = {ana}
  Texts = {first, second}
  Keys = {key}
  Names = {Ana, Anna}
  Workers = {w1, w2}
  Submissions <- BothDoors
  Window = 0
  KeyWindow = 1
  Hour = 2
  Budget = 2
  MaxClock = 2
  MaxRequests = 3
INVARIANTS
  TypeOK
  RepeatsCollapse
  NoOrphanCustomer
  NameIsTrusted
PROPERTIES
  BudgetHeldOneByOne
  EverySubmissionEnds
