SPECIFICATION Spec
CONSTANTS
  a = a
  b = b
  None = None
  Devices <- TwoDevices
  Served <- ServedTwo
  Described <- DescribedTwo
  Presses = {4}
  Steers = FALSE
  Expires = FALSE
  QueueSize = 2
  MaxTasks = 2
INVARIANTS
  BoundAtPressed
