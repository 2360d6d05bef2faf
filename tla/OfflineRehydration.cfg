SPECIFICATION Spec
CONSTANTS
  MaxEdits = 2
  MaxForeign = 1
  MaxCalls = 3
  MaxCrashes = 1
  SnapshotInterval = 2
INVARIANT RehydrationSucceeds
CHECK_DEADLOCK FALSE
