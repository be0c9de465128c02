CONSTANTS
  h = h
  a = a
  b = b
  x = x
  y = y
  Member = {h, a}
  Host = h
  Hash = {x}
  MaxFrame = 0
  None = None
  SlotCount = 2
  MaxCartridge = 1
  Seating <- Pair
  Scope = {"role", "join", "slot", "load"}
  MaxEpoch = 2
  MaxRevision = 2

SPECIFICATION FairSpec
INVARIANTS OffersCurrent
PROPERTIES AuthorityChanges BarriersResolve LoadResolves
