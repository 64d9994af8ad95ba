SPECIFICATION Spec
CONSTANTS
  Repeats = {1, 2}
  IdentifyTimes <- TimesToWrap
  MaxClicks = 2
  MaxSearches = 2
  Followed <- Uncancelled
INVARIANTS
  CancelsOwn
