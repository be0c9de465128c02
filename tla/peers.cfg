CONSTANTS
  None = None
  HostSide = "offerer"
  Dropping = {"answerer"}
  RelayPairs = 1
  MaxEpoch = 2

SPECIFICATION Spec
INVARIANTS RelaySlots ViewsConverge
PROPERTIES RoundsSettle
