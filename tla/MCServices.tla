------------------------------ MODULE MCServices ------------------------------
(***************************************************************************)
(* The parts of the client that share nothing with one another but the     *)
(* connection, each explored on its own: a behaviour is that of the        *)
(* component it starts with.  Components share the variables they name     *)
(* alike; those of the others are Unused.                                  *)
(***************************************************************************)
EXTENDS Integers

CONSTANTS
  User, LocalUser, OtherUser, Me, Other, Value,
  MaxCalls, MaxChanges, MaxActs, MaxUserChanges, MaxDrops, MaxEdits, MaxPlays

VARIABLES
  component,
  connected, requests, toServer, toClient, used, local, members, log,
  managers, subscribed, continuations, handles, server, misused,
  activities, joined, lurks, astray,
  tree, contents, opened, version, target, opRequests, plays,
  room, chats, title, seen, removed,
  phase, sessions, shown, attached, inFlight, effective, heard, told, deaf, early, removedHere,
  there, references, exists, replaced,
  sent, peerTree, received, copy, clashed

P == INSTANCE Presence WITH MaxChanges <- MaxUserChanges
A == INSTANCE Activity
H == INSTANCE HistoricalModel
C == INSTANCE Chat
R == INSTANCE References
E == INSTANCE RealTimeElements

Unused == "unused"

connectionVars == <<connected, requests>>
messageVars == <<toServer, toClient, used>>
presenceVars == <<managers, subscribed, continuations, handles, server, misused>>
activityVars == <<activities, joined, lurks, astray>>
historyVars == <<contents, opened, version, target, opRequests, plays>>
chatVars == <<room, chats, title, seen, removed>>
referencesVars ==
  <<phase, sessions, shown, attached, inFlight, effective, heard, told, deaf, early, removedHere,
    there, references, exists, replaced>>
elementsVars == <<sent, peerTree, received, copy, clashed>>

vars ==
  <<component, connectionVars, messageVars, local, members, log, tree, presenceVars, activityVars,
    historyVars, chatVars, referencesVars, elementsVars>>

----------------------------------------------------------------------------
WithoutConnection == connected = Unused /\ requests = Unused

WithoutMessages == toServer = Unused /\ toClient = Unused /\ used = Unused

WithoutPresence ==
  /\ managers = Unused /\ subscribed = Unused /\ continuations = Unused
  /\ handles = Unused /\ server = Unused /\ misused = Unused

WithoutActivity ==
  activities = Unused /\ joined = Unused /\ lurks = Unused /\ astray = Unused

WithoutHistory ==
  /\ contents = Unused /\ opened = Unused
  /\ version = Unused /\ target = Unused /\ opRequests = Unused /\ plays = Unused

WithoutChat ==
  /\ room = Unused /\ chats = Unused /\ title = Unused
  /\ seen = Unused /\ removed = Unused

WithoutReferences ==
  /\ phase = Unused /\ sessions = Unused /\ shown = Unused /\ attached = Unused
  /\ inFlight = Unused /\ effective = Unused /\ heard = Unused /\ told = Unused
  /\ deaf = Unused /\ early = Unused /\ removedHere = Unused
  /\ there = Unused /\ references = Unused /\ exists = Unused /\ replaced = Unused

WithoutElements ==
  /\ sent = Unused /\ peerTree = Unused /\ received = Unused
  /\ copy = Unused /\ clashed = Unused

Init ==
  \/ /\ component = "presence" /\ P!Init
     /\ members = Unused /\ log = Unused /\ tree = Unused
     /\ WithoutActivity /\ WithoutHistory /\ WithoutChat /\ WithoutReferences /\ WithoutElements
  \/ /\ component = "activity" /\ A!Init
     /\ local = Unused /\ log = Unused /\ tree = Unused
     /\ WithoutPresence /\ WithoutHistory /\ WithoutChat /\ WithoutReferences /\ WithoutElements
  \/ /\ component = "history" /\ H!Init
     /\ WithoutConnection /\ WithoutMessages /\ local = Unused /\ members = Unused
     /\ WithoutPresence /\ WithoutActivity /\ WithoutChat /\ WithoutReferences
     /\ WithoutElements
  \/ /\ component = "chat" /\ C!Init
     /\ local = Unused /\ tree = Unused
     /\ WithoutPresence /\ WithoutActivity /\ WithoutHistory /\ WithoutReferences
     /\ WithoutElements
  \/ /\ component = "references" /\ R!Init
     /\ WithoutConnection /\ members = Unused /\ log = Unused /\ tree = Unused
     /\ WithoutPresence /\ WithoutActivity /\ WithoutHistory /\ WithoutChat /\ WithoutElements
  \/ /\ component = "elements" /\ E!Init
     /\ WithoutConnection /\ WithoutMessages /\ local = Unused /\ members = Unused
     /\ log = Unused
     /\ WithoutPresence /\ WithoutActivity /\ WithoutHistory /\ WithoutChat
     /\ WithoutReferences

Next ==
  /\ UNCHANGED component
  /\ \/ /\ component = "presence" /\ P!Next
        /\ UNCHANGED <<members, log, tree, activityVars, historyVars, chatVars, referencesVars,
                       elementsVars>>
     \/ /\ component = "activity" /\ A!Next
        /\ UNCHANGED <<local, log, tree, presenceVars, historyVars, chatVars, referencesVars,
                       elementsVars>>
     \/ /\ component = "history" /\ H!Next
        /\ UNCHANGED <<connectionVars, messageVars, local, members, presenceVars,
                       activityVars, chatVars, referencesVars, elementsVars>>
     \/ /\ component = "chat" /\ C!Next
        /\ UNCHANGED <<local, tree, presenceVars, activityVars, historyVars, referencesVars,
                       elementsVars>>
     \/ /\ component = "references" /\ R!Next
        /\ UNCHANGED <<connectionVars, members, log, tree, presenceVars, activityVars, historyVars,
                       chatVars, elementsVars>>
     \/ /\ component = "elements" /\ E!Next
        /\ UNCHANGED <<connectionVars, messageVars, local, members, log, presenceVars, activityVars,
                       historyVars, chatVars, referencesVars>>

Spec == Init /\ [][Next]_vars

----------------------------------------------------------------------------
(* The properties of the components; each is stated where it is defined *)

\* Presence: a subscription tells the presence the server has (UserPresenceManager).
FollowsSubscribedUsers == component = "presence" => P!FollowsSubscribedUsers

\* Activities: a joined activity has the participants and states the server has.
FollowsActivity == component = "activity" => A!FollowsActivity

\* Historical models: the data is that of the version shown, and that is where playTo leads.
ShowsVersion == component = "history" => H!ShowsVersion

\* The tree of nodes: registered nodes and paths agree with the data (Model, ContainerNode).
RegistersItsTree == component = "history" => H!RegistersItsTree

\* Elements: the operations rebuild the data elsewhere (RealTimeElement, OperationMapper).
MirrorsEdits == component = "elements" => E!MirrorsEdits

\* Elements: the events of a model tell all there is to tell (ModelEventConverter).
EventsTellChanges == component = "elements" => E!EventsTellChanges

\* Chats: a joined chat has the members and the last event the server has.
FollowsChat == component = "chat" => C!FollowsChat

\* References: those shown are those shared (RealTimeModel._handleRemoteReferenceEvent).
ShowsReferences == component = "references" => R!ShowsReferences

\* References: the server has those that are shared here (LocalModelReference).
PublishesReferences == component = "references" => R!PublishesReferences

\* References: handlers throw only where they meet an edit of this session's.
ThrowsOnlyOverOwnEdits == [][component = "references" => R!ThrowsOverOwnEdit]_vars
=============================================================================
