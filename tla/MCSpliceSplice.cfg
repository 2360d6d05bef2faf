SPECIFICATION Spec
CONSTANTS
  Transform <- RegistryTransform
  InitialData <- MCInitialData
  ServerOperations <- MCServerOperations
  ClientOperations <- MCClientOperations
  MaxServerOps = 1
  MaxClientOps = 1
  StringLength = 3
  ArrayLength = 0
  ServerTextLengths = {1}
  ClientTextLengths = {2}
  Families = {"String"}
INVARIANT ReplicasConverge
CHECK_DEADLOCK FALSE
