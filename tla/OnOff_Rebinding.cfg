SPECIFICATION Spec
CONSTANTS
  Actions <- EveryAction
  Measured <- OutsideBand
  Written <- NoThresholds
  Unchecked <- TempOnly
  LimitMin = 0
  LimitMax = 50
  StoredLow = 10
  StoredHigh = 30
  Rebinding = TRUE
  InitialViews <- AnyView
INVARIANTS
  TypeOK
  TimerJustified
  LatchJustified

  
