SPECIFICATION Spec
CONSTANTS
  None = None
  ana = ana
  bob = bob
  sam = sam
  short = short
  long = long
  AnaName = AnaName
  BobName = BobName
  SamName = SamName
  Users = {ana, bob, sam}
  Supervisors = {sam}
  Names <- MCNames
  DisplayName <- MCDisplayName
  Texts = {short, long}
  Tickets = {t1}
  Workers = {w1, w2}
  Intakes <- PublicForm
  Calls <- WorkflowCalls
  MayLeave = {}
  MaxRequests = 4
SYMMETRY Symmetry
INVARIANTS
  RowsConsistent
  HistoryTellsTicket
  HistoryIsChained
  LockedCopyIsCurrent
PROPERTIES
  ClosedIsFrozen
CHECK_DEADLOCK FALSE
