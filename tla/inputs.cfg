SPECIFICATION Spec
CONSTANTS
  None = None
  Button = {A}
  LeaseTicks = 2
  RenewTicks = 1
  Courses <- MCCourses
  MaxLink = 2
  MaxSync = 1
  MaxFlight = 1
INVARIANTS NoStuckButton NoOldControl InputKeepsItsSlot
PROPERTIES LeaseHonoured
