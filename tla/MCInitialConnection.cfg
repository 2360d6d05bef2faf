SPECIFICATION Spec
CONSTANTS
  Options <- SomeOptions
  Slots = {1, 2}
  MaxConnects = 2
  MaxOrphans = 2
  MaxFaults = 3
INVARIANT
  InitialConnectionKeepsTrying
CHECK_DEADLOCK FALSE
