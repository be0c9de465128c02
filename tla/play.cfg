CONSTANTS
  h = h
  a = a
  b = b
  x = x
  y = y
  Member = {h, a}
  Host = h
  Hash = {x}
  MaxFrame = 0
  None = None
  SlotCount = 2
  MaxCartridge = 2
  Seating <- Pair
  Scope = {"load", "drop", "link", "file", "game"}
  MaxEpoch = 2
  MaxRevision = 2

SPECIFICATION Spec
INVARIANTS TypeOK StartAcknowledged LoadHoldsTimeline StagingCanFinish
PROPERTIES LoadAllOrNothing
