CONSTANTS
  catalog = catalog
  own = own
  other = other
  Game = {catalog, own, other}
  Included = {catalog}
  damaged = damaged
  Damaged = damaged
  Extraction = {1}
  Total = 3
  Concurrent = 2
  Output = 1
  MaxSelect = 2
  MaxRequests = 4
  MaxBreaks = 1
  MaxDownloads = 1
  MaxChanges = 1

SPECIFICATION Spec
INVARIANTS BudgetExact NoFileLeft SelectionTruthful
PROPERTIES GuestGetsTheGame
CHECK_DEADLOCK FALSE
