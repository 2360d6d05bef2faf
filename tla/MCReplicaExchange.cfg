SPECIFICATION Spec
CONSTANTS
  Transform <- RegistryTransform
  InitialData <- MCInitialData
  ServerOperations <- MCServerOperations
  ClientOperations <- MCClientOperations
  MaxServerOps = 2
  MaxClientOps = 2
  StringLength = 3
  ArrayLength = 3
  ServerTextLengths = {1}
  ClientTextLengths = {2}
  Families = {"String", "Array", "Object", "Scalar", "Two"}
INVARIANTS
  ConvergeOtherwise
  ApplyOtherwise
  ReferencesAgree
CHECK_DEADLOCK FALSE
