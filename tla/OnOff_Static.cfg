SPECIFICATION Spec
CONSTANTS
  Actions <- BothActions
  Measured <- AroundBand
  Written <- NoThresholds
  Unchecked <- NoChannel
  LimitMin = 0
  LimitMax = 50
  StoredLow = 10
  StoredHigh = 30
  Rebinding = FALSE
  InitialViews <- AnyView
INVARIANTS
  DecisionSent
  OneRepeater
  RepeaterArmed
  RepeatAgreesApart
  ProcIdempotent
PROPERTIES
  Hysteresis
  RepeatIsPutRight
