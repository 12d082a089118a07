SPECIFICATION TurnoverSpec
CHECK_DEADLOCK FALSE
CONSTANTS
  None = None
  ana = ana
  bob = bob
  sam = sam
  short = short
  long = long
  AnaName = AnaName
  BobName = BobName
  SamName = SamName
  Users = {ana, bob, sam}
  Supervisors = {sam}
  Names <- MCNames
  DisplayName <- MCDisplayName
  Texts = {short, long}
  Tickets = {t1}
  Workers = {w1, w2}
  Intakes <- BothIntakes
  Calls <- TurnoverCalls
  MayLeave = {bob}
  MaxRequests = 3
SYMMETRY Symmetry
INVARIANTS
  ReferencesResolve
  WorkKeepsItsOwner
  OnlyDeletionOrphans
PROPERTIES
  StoryOnlyGrows
