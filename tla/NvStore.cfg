SPECIFICATION Spec
CONSTANTS
  report = report
  onoff = onoff
  new = new
  newer = newer
  None = None
  Items <- TwoItems
  Data <- TwoValues
  Slots = 3
  MaxWrites = 6
  MaxFailures = 2
INVARIANTS
  TypeOK
  StoredIsFound
  RoomForAll
PROPERTIES
  IsRegister
SYMMETRY Alike
CHECK_DEADLOCK FALSE
