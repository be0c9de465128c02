SPECIFICATION Spec
CONSTANTS
  Guest = {g}
  None = None
  HashInterval = 2
  History = 1
  Straying = {g}
  Reassigned = {g}
  Expiring = TRUE
  MaxFrame = 2
  MaxTransfer = 1
INVARIANTS StreamContiguous BlameIsDeserved
PROPERTIES TimelineIsShared HostNeverWaits PauseIsReached
CHECK_DEADLOCK FALSE
