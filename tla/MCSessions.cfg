SPECIFICATION Spec
CHECK_DEADLOCK FALSE
CONSTANTS
  None = None
  Users = {ana}
  Workers = {w1}
  AccessLifetime = 2
  RefreshLifetime = 3
  MaxClock = 6
  MaxChanges = 2
INVARIANTS
  SessionEnds
  NoRightsFromBefore
