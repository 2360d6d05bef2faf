SPECIFICATION Spec
CONSTANTS
  Session = {a, b}
  InitialData <- MCInitialData
  LocalOperations <- MCLocalOperations
  Apply <- MCApply
  Transform <- MCTransform
  InitialLength = 1
  MaxEdits = 2
  MaxReentrantEdits = 0
INVARIANT IsCommittedAsDocumented
CHECK_DEADLOCK FALSE
