SPECIFICATION TurnoverSpec
CONSTANTS
  None = None
  ana = ana
  bob = bob
  sam = sam
  short = short
  long = long
  AnaName = AnaName
  BobName = BobName
  SamName = SamName
  Users = {ana, bob, sam}
  Supervisors = {sam}
  Names <- MCNames
  DisplayName <- MCDisplayName
  Texts = {short, long}
  Tickets = {t1}
  Workers = {w1}
  Intakes <- BothIntakes
  Calls <- TurnoverCalls
  MayLeave = {bob}
  MaxRequests = 2
PROPERTIES
  NoChangeWithoutTrace
CHECK_DEADLOCK FALSE
