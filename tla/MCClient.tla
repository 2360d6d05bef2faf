------------------------------- MODULE MCClient -------------------------------
(***************************************************************************)
(* The connection, the model service and the domain, each explored on its  *)
(* own: what the others hear of the connection is that it is there or      *)
(* lost, which is what ServicesFollowConnection is about, and the model    *)
(* service does not look at identities.                                    *)
(***************************************************************************)
EXTENDS MCConnection

CONSTANTS ModelId, Called, MaxCalls, MaxDrops, User, Session, Owner, MaxActs, MaxPages, MaxTold

ASSUME DomainAssumption ==
  Owner \in [Session -> User] /\ {MaxActs, MaxPages, MaxTold} \subseteq Nat

VARIABLES
  component,
  service, stored, existing, hosted, lost, used,
  domain, inits, storage, cache, disk, queues, server, toClient, known, acts

\* Whatever is stored of one model, with another one that is changed or not there.
SomeStored ==
  {f \in [ModelId -> {"none", "clean", "dirty", "local", "deleted"}] :
     \A id \in ModelId \ Called : f[id] \in {"none", "dirty"}}

M == INSTANCE ModelService WITH InitiallyStored <- SomeStored

D == INSTANCE Domain

\* The sessions are one user's.
OneOwner == [s \in Session |-> CHOOSE u \in User : TRUE]

modelVars == <<service, stored, existing, hosted, lost, used>>

domainVars ==
  <<domain, inits, storage, cache, disk, queues, server, toClient, known, acts>>

clientVars == <<component, vars, modelVars, domainVars>>

WithoutConnection == conn = 0 /\ protocols = 0 /\ options = 0 /\ connects = 0 /\ faults = 0

WithoutModels ==
  service = 0 /\ stored = 0 /\ existing = 0 /\ hosted = 0 /\ lost = 0 /\ used = 0

WithoutDomain ==
  /\ domain = 0 /\ inits = 0 /\ storage = 0 /\ cache = 0 /\ disk = 0 /\ queues = 0
  /\ server = 0 /\ toClient = 0 /\ known = 0 /\ acts = 0

ClientInit ==
  \/ component = "connection" /\ Init /\ WithoutModels /\ WithoutDomain
  \/ component = "models" /\ M!Init /\ WithoutConnection /\ WithoutDomain
  \/ component = "domain" /\ D!Init /\ WithoutConnection /\ WithoutModels

ClientNext ==
  /\ UNCHANGED component
  /\ \/ component = "connection" /\ Next /\ UNCHANGED <<modelVars, domainVars>>
     \/ component = "models" /\ M!Next /\ UNCHANGED <<vars, domainVars>>
     \/ component = "domain" /\ D!Next /\ UNCHANGED <<vars, modelVars>>

ClientSpec == ClientInit /\ [][ClientNext]_clientVars

----------------------------------------------------------------------------
(* The properties of the components; each is stated where it is defined *)

\* Connection: its state is one it can have, and what is connecting will move on
\* (ConvergenceConnection._attemptConnection).
ConnectionAlive == component = "connection" => TypeOK /\ ConnectingIsAlive

\* Connection: the services last heard what is the case (ConvergenceConnection events).
ServicesFollow == component = "connection" => ServicesFollowConnection

\* Connection: every established socket is watched (ProtocolConnection, HeartbeatHelper).
HeartbeatAlive == component = "connection" => HeartbeatWatches

\* Models: calls to open, create and remove come to an end (ModelService._checkAndOpen).
CallsEnd == component = "models" => M!CallsEnd

\* Models: a sync comes to an end (ModelService._checkResyncQueue).
SyncEnds == component = "models" => M!SyncEnds

\* Models: what is open is open with the server (ModelService._getModelForResourceId).
OpenModelsWork == component = "models" => M!OpenModelsWork

\* Domain: whose a session is, in memory and stored (IdentityCache._processIdentityUpdate).
KnowsIdentities == component = "domain" => D!KnowsIdentities
=============================================================================
