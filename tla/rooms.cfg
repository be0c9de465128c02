CONSTANTS
  h = h
  g = g
  Tab = {h, g}
  None = None
  Creators = {h}
  Joiners = {g}
  Capacity = 1
  Active = 1
  Queue = 1
  Tombstones = 3
  Dropping = {g}
  Slow = {g, h}
  Silent = {}
  MaxCreate = 1
  MaxJoin = 2
  MaxSockets = 2
  MaxAccess = 2
  MaxRestarts = 0

SPECIFICATION Spec
INVARIANTS MembershipAgrees CancelledStaysOut ViewsAgree
PROPERTIES AdmittedByPassword
CHECK_DEADLOCK FALSE
