SPECIFICATION FairSpec
CONSTANTS
  a = a
  b = b
  None = None
  Devices <- OneDevice
  Served <- ServedOne
  Described <- DescribedOne
  Presses = {4}
  Steers = TRUE
  Expires = TRUE
  QueueSize = 2
  MaxTasks = 2
PROPERTIES
  FindBindEnds
  PressIsTakenUp
INVARIANTS
  BusyReleased
