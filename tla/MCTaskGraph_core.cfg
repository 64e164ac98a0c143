SPECIFICATION GraphSpec
CONSTANTS
  Ids <- MCIds
  Kits <- MCKits
 
PROPERTIES SkipsExact RetryReaches ShapeRight
CHECK_DEADLOCK FALSE
