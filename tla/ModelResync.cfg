SPECIFICATION Spec
CONSTANTS
  MaxOperations = 3
  MaxDrops = 2
  MaxRefusals = 1
INVARIANTS
  EventsTellState
  EditsOnTheirWay
  OncePerEdit
  QuietIsUpToDate
CHECK_DEADLOCK FALSE
PROPERTIES
  ClosesWhenItCan
  ResyncEnds
