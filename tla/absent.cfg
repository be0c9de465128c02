CONSTANTS
  h = h
  g = g
  Tab = {h, g}
  None = None
  Creators = {h}
  Joiners = {g}
  Capacity = 1
  Active = 1
  Queue = 1
  Tombstones = 2
  Dropping = {h}
  Slow = {}
  Silent = {g, h}
  MaxCreate = 2
  MaxJoin = 1
  MaxSockets = 2
  MaxAccess = 0
  MaxRestarts = 1

SPECIFICATION FairSpec
PROPERTIES AbsentHostEnds
CHECK_DEADLOCK FALSE
