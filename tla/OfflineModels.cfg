SPECIFICATION Spec
CONSTANTS
  MaxEdits = 2
  MaxForeign = 1
  MaxCalls = 3
  MaxCrashes = 1
  SnapshotInterval = 2
INVARIANTS
  TellsListeners RecoversWhatWasStored StoredEditsAreFound EntryKnowsWhatIsUnsynced StoresAnOpenModel
PROPERTIES UnsyncedKept
CHECK_DEADLOCK FALSE
