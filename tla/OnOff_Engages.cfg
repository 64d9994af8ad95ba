SPECIFICATION FairSpec
CONSTANTS
  Actions <- Heating
  Measured <- AroundBand
  Written <- NoThresholds
  Unchecked <- NoChannel
  LimitMin = 0
  LimitMax = 50
  StoredLow = 10
  StoredHigh = 30
  Rebinding = FALSE
  InitialViews <- AnyView
PROPERTIES
  ControlEngages
