SPECIFICATION FairSpec
CONSTANTS
  None = None
  ana = ana
  bob = bob
  sam = sam
  short = short
  long = long
  AnaName = AnaName
  BobName = BobName
  SamName = SamName
  Users = {ana, bob, sam}
  Supervisors = {sam}
  Names <- MCNames
  DisplayName <- MCDisplayName
  Texts = {short, long}
  Tickets = {t1, t2}
  Workers = {w1, w2, w3}
  Intakes <- PublicForm
  Calls <- QueueCalls
  MayLeave = {}
  MaxRequests = 3
PROPERTIES
  EveryRequestEnds
CHECK_DEADLOCK FALSE
