SPECIFICATION Spec
CHECK_DEADLOCK FALSE
CONSTANTS
  None = None
  ana = ana
  bea = bea
  first = first
  second = second
  key = key
  Ana = Ana
  Anna = Anna
  Emails = {ana, bea}
  Texts = {first, second}
  Keys = {key}
  Names = {Ana, Anna}
  Workers = {w1, w2}
  Submissions <- PublicDoor
  Window = 0
  KeyWindow = 1
  Hour = 2
  Budget = 1
  MaxClock = 1
  MaxRequests = 3
SYMMETRY Symmetry
INVARIANTS
  BudgetHeld
