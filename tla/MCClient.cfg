\* The connection with two sockets at a time and three faults; the model service with one
\* model the application calls for twice and another in the store; the domain with two
\* sessions of one user, and a page that is loaded again.
SPECIFICATION ClientSpec
CONSTANTS
  Options <- SomeOptions
  Slots = {1, 2}
  MaxConnects = 2
  MaxOrphans = 2
  MaxFaults = 3
  ModelId = {a, b}
  Called = {a}
  MaxCalls = 2
  MaxDrops = 1
  User = {u}
  Session = {s, t}
  Owner <- OneOwner
  MaxActs = 3
  MaxPages = 1
  MaxTold = 3
INVARIANTS
  ConnectionAlive
  ServicesFollow
  HeartbeatAlive
  CallsEnd
  SyncEnds
  OpenModelsWork
  KnowsIdentities
CHECK_DEADLOCK FALSE
