CONSTANTS
  h = h
  g = g
  Tab = {h, g}
  None = None
  Creators = {h}
  Joiners = {g}
  Capacity = 1
  Active = 1
  Queue = 1
  Tombstones = 2
  Dropping = {g}
  Slow = {h}
  Silent = {g}
  MaxCreate = 1
  MaxJoin = 2
  MaxSockets = 2
  MaxAccess = 0
  MaxRestarts = 0

SPECIFICATION Spec
PROPERTIES ReturnedGuestStays
CHECK_DEADLOCK FALSE
