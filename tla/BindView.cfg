SPECIFICATION FairSpec
CONSTANTS
  a = a
  b = b
  g = g
  zc1 = zc1
  None = None
  Devices <- TwoDevices
  Groups <- OneGroup
  Coordinators <- OneNetwork
  TableSize = 4
  MaxTasks = 2
  Presses <- AllPresses
  Outcomes <- AnyOutcome
INVARIANTS
  TypeOK
  StaleIsNoticed
  ViewHasAddress
PROPERTIES
  ControlEnvironmentKept
  ViewArrives
