SPECIFICATION Spec
CONSTANTS
  Repeats = {1}
  IdentifyTimes <- TimesToWrap
  MaxClicks = 2
  MaxSearches = 2
  Followed = {"findBind"}
INVARIANTS
  TypeOK
  HandlesLive
  IconGoesOut
  
PROPERTIES
  SearchGoesOn
  NetworkSought
