SPECIFICATION Spec
CHECK_DEADLOCK FALSE
CONSTANTS
  None = None
  marta = marta
  ana = ana
  luis = luis
  text = text
  MartaName = MartaName
  AnaName = AnaName
  LuisName = LuisName
  Users = {marta, ana, luis}
  Names = {MartaName, AnaName, LuisName}
  DisplayName <- MCDisplayName
  Texts = {text}
  Supervisor = marta
  Agents <- MCAgents
  Environments <- MCEnvironments
  Containers = {web1, web2, operator}
  Resetters = {operator}
  Migrations = 2
  Tickets = 25
INVARIANTS
  OneBatch
  DemoIsWhole
  NothingRefused
  NobodyWaitsInACircle
  PerProcessCacheIsRefused
PROPERTIES
  SomebodyServes
