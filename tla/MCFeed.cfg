SPECIFICATION Spec
CHECK_DEADLOCK FALSE
CONSTANTS
  None = None
  Workers = {w1, w2}
  Readers = {r}
  PageSizes = {1, 2}
  MaxEntries = 7
  MaxClock = 2
SYMMETRY Symmetry
INVARIANTS
  FeedInv
  PagesAreThePrefix
  FeedsAgree
PROPERTIES
  LastPageIsTheEnd
  AppendsLandAtTheEnd
