SPECIFICATION Spec
CONSTANTS
  Session = {a, b}
  InitialData <- MCInitialData
  LocalOperations <- MCLocalOperations
  Apply <- MCApply
  Transform <- MCTransform
  InitialLength = 1
  MaxEdits = 3
  MaxReentrantEdits = 1
PROPERTIES EventuallyUpToDate ImplementsOrderedEdits
INVARIANTS
  TypeOK
  NoConcurrencyControlError
  EachLoggedOnceInOrder
  SeesServerDataWithOwnEdits
  AcknowledgedAsLogged
  CommitEventsTruthful
CHECK_DEADLOCK FALSE
