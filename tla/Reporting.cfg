SPECIFICATION Spec
CONSTANTS
  temp = temp
  hum = hum
  Entries <- Both
  Default <- Defaults
  Requests <- Reconfigured
  Values <- Readings
  Unmeasured <- AtStart
  Erased <- AllOnes
  MaxCalls = 3
INVARIANTS
  TypeOK
  ReportedInTime
  ReportedAgain
  ChangeOnItsWay
PROPERTIES
  MinimumKept
