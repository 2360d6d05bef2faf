SPECIFICATION Spec
CONSTANTS
  Session = {a, b}
  InitialData <- MCInitialData
  LocalOperations <- MCLocalOperations
  Apply <- MCApply
  Transform <- MCTransform
  InitialLength = 1
  MaxEdits = 3
  MaxReentrantEdits = 1
INVARIANT EverybodySeesTheSame
CHECK_DEADLOCK FALSE
