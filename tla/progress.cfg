CONSTANTS
  None = None
  Tab = {a, b}
  MaxProgress = 2
  MaxWrites = 2
  MaxLoads = 3
  MaxRecoveries = 1
  MaxLoading = 1
  MaxClears = 1

SPECIFICATION Spec
INVARIANTS ClearedStaysCleared OwnProgressRead
PROPERTIES NoLostUpdate
SYMMETRY Symmetry
CHECK_DEADLOCK FALSE
