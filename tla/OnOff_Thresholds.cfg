SPECIFICATION Spec
CONSTANTS
  Actions <- Heating
  Measured <- InsideBand
  Written <- Thresholds
  Unchecked <- TempOnly
  LimitMin = 0
  LimitMax = 50
  StoredLow = 10
  StoredHigh = 30
  Rebinding = FALSE
  InitialViews <- NoView
INVARIANTS
  ThresholdsOrdered
  AttributesAgree
