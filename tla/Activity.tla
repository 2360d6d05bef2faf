------------------------------ MODULE Activity ------------------------------
(***************************************************************************)
(* ActivityService and its Activity objects, for one activity: joining it  *)
(* online and offline, the state this session and others have in it,       *)
(* leaving, deletion by the server, and rejoining on a new connection.     *)
(*                                                                         *)
(* The state of a participant is the value of one key.                     *)
(***************************************************************************)
EXTENDS Integers, Sequences, FiniteSets

LOCAL INSTANCE SequencesExt

CONSTANTS
  Me,          \* the session of this client
  Other,       \* other sessions
  MaxCalls,    \* bound: calls of the application
  MaxChanges,  \* bound: what other sessions and the server do
  MaxDrops     \* bound: how often the connection drops

VARIABLES
  connected,
  activities,  \* every Activity object there has been
  joined,      \* _joinedActivities: the index of the activity's object, or 0
  requests,    \* join and leave requests whose reply is awaited
  toServer, toClient,
  members,     \* external: the state of each session that takes part
  lurks,       \* external: this session is told what happens though it does not
  astray,      \* history: one that was left or had failed has joined, or one that is
               \* joined could not rejoin
  used         \* history: what of the bounds is used up

vars == <<connected, activities, joined, requests, toServer, toClient, members, lurks, astray,
          used>>

\* No value, the value true, any other value.
Absent == "absent"
True == "true"
StateValue == {Absent, True, "other"}

Session == Other \cup {Me}

NoParticipants == [s \in {} |-> Absent]

\* What the application knows by events, and by what it found when it joined.
NothingTold == [byKey |-> NoParticipants, byDelta |-> NoParticipants, left |-> FALSE,
                ended |-> FALSE]

Without(participants, s) == [t \in DOMAIN participants \ {s} |-> participants[t]]

With(participants, s, value) ==
  [t \in DOMAIN participants \cup {s} |-> IF t = s THEN value ELSE participants[t]]

Called == used.calls < MaxCalls /\ used' = [used EXCEPT !.calls = @ + 1]

Changed == used.changes < MaxChanges /\ used' = [used EXCEPT !.changes = @ + 1]

\* present: _localParticipant is there, with the value local.
NewActivity(lurking) ==
  [joined |-> TRUE, hears |-> TRUE, resource |-> FALSE, lurking |-> lurking,
   promise |-> "pending", present |-> FALSE, local |-> Absent,
   participants |-> NoParticipants, told |-> NothingTold]

----------------------------------------------------------------------------
(* Events *)

ActivitySessionJoinedEvent(session, state) ==
  [name |-> "session_joined", session |-> session, value |-> state]

ActivitySessionLeftEvent(session) == [name |-> "session_left", session |-> session]

ActivityStateSetEvent(session, value) ==
  [name |-> "state_set", session |-> session, value |-> value]

ActivityStateRemovedEvent(session) == [name |-> "state_removed", session |-> session]

ActivityStateClearedEvent(session) == [name |-> "state_cleared", session |-> session]

\* All of an update: the values set, on what is left when all or some are removed.
ActivityStateDeltaEvent(session, value) ==
  [name |-> "state_delta", session |-> session, value |-> value]

ActivityLeftEvent       == [name |-> "left"]
ActivityDeletedEvent    == [name |-> "deleted"]
ActivityForceLeaveEvent == [name |-> "force_leave"]

\* One listener follows the event of each key, another the deltas.
Hear(told, event) ==
  CASE event.name = "session_joined" ->
         [told EXCEPT !.byKey = With(@, event.session, event.value),
                      !.byDelta = With(@, event.session, event.value)]
    [] event.name = "session_left" ->
         [told EXCEPT !.byKey = Without(@, event.session), !.byDelta = Without(@, event.session)]
    [] event.name = "state_set" -> [told EXCEPT !.byKey = With(@, event.session, event.value)]
    [] event.name \in {"state_removed", "state_cleared"} ->
         [told EXCEPT !.byKey = With(@, event.session, Absent)]
    [] event.name = "state_delta" ->
         [told EXCEPT !.byDelta = With(@, event.session, event.value)]
    [] event.name = "left" -> [told EXCEPT !.left = TRUE]
    [] event.name \in {"deleted", "force_leave"} -> [told EXCEPT !.ended = TRUE]

\* Once left, its streams of events are complete.
EmitEvents(activity, events) ==
  IF activity.joined THEN [activity EXCEPT !.told = FoldLeft(Hear, @, events)] ELSE activity

JoinedEvents(participants) ==
  LET sessions == SetToSeq(DOMAIN participants)
  IN  [k \in DOMAIN sessions |->
         ActivitySessionJoinedEvent(sessions[k], participants[sessions[k]])]

LeftEvents(sessions) ==
  LET gone == SetToSeq(sessions) IN [k \in DOMAIN gone |-> ActivitySessionLeftEvent(gone[k])]

\* what: one key is set or removed, or all are.
StateEvents(s, what, value) ==
  <<ActivityStateDeltaEvent(s, value),
    CASE what = "set"     -> ActivityStateSetEvent(s, value)
      [] what = "removed" -> ActivityStateRemovedEvent(s)
      [] what = "cleared" -> ActivityStateClearedEvent(s)>>

----------------------------------------------------------------------------
(* Joining *)

JoinRequest(i, activity) ==
  [type |-> "join", activity |-> i, lurking |-> activity.lurking, value |-> activity.local]

\* _joinWhileOnline: its resource is not known until the reply comes.
JoinWhileOnline(all, i) == [all EXCEPT ![i].resource = FALSE]

Request(messages) ==
  /\ requests' = requests \o messages
  /\ toServer' = toServer \o messages

\* There is no event: the application finds itself to be in.
JoinWhileOffline(activity, value) ==
  LET alone == With(NoParticipants, Me, value)
  IN  [activity EXCEPT !.promise = "joined", !.present = TRUE, !.local = value,
                       !.participants = alone, !.told.byKey = alone, !.told.byDelta = alone]

\* ActivityService.join, when there is no object: one that failed to join stays.
Join(lurking, value) ==
  /\ Called /\ joined = 0 /\ (lurking => value = Absent)
  /\ LET activity == NewActivity(lurking)
         i        == Len(activities) + 1
     IN  /\ joined' = i
         /\ IF connected
            THEN /\ activities' = Append(activities, activity)
                 /\ Request(<<JoinRequest(i, [activity EXCEPT !.local = value])>>)
            ELSE /\ activities' = Append(activities, JoinWhileOffline(activity, value))
                 /\ UNCHANGED <<requests, toServer>>
  /\ UNCHANGED <<connected, toClient, members, lurks, astray>>

----------------------------------------------------------------------------
(* What the application does with an activity it has joined *)

InHand(i) == activities[i].promise = "joined" /\ activities[i].joined

\* An update tells the resource, if it is known.
SendStateUpdate(i, value) ==
  toServer' = IF connected
              THEN Append(toServer, [type |-> "state", known |-> activities[i].resource,
                                     value |-> value])
              ELSE toServer

\* _assertNotLurking; the local participant changes.
MutateLocalParticipant(i, what, value) ==
  /\ Called /\ InHand(i) /\ ~activities[i].lurking /\ activities[i].present
  /\ SendStateUpdate(i, value)
  /\ activities' = [activities EXCEPT
       ![i] = EmitEvents([@ EXCEPT !.local = value, !.participants = With(@, Me, value)],
                         StateEvents(Me, what, value))]
  /\ UNCHANGED <<connected, joined, requests, toClient, members, lurks, astray>>

SetState(i, value) == MutateLocalParticipant(i, "set", value)

RemoveState(i) == MutateLocalParticipant(i, "removed", Absent)

\* Nothing is done when there is nothing to clear.
ClearState(i) ==
  activities[i].local # Absent /\ MutateLocalParticipant(i, "cleared", Absent)

\* _completeLeave.  The left event makes the service forget the activity; the listeners
\* to the connection stay.
CompleteLeave(i, reasons) ==
  /\ activities' = [activities EXCEPT
       ![i] = [EmitEvents(@, reasons \o <<ActivityLeftEvent>>) EXCEPT
                 !.joined = FALSE, !.resource = FALSE, !.hears = FALSE]]
  /\ joined' = IF activities[i].promise = "joined" THEN 0 ELSE joined

Leave(i) ==
  /\ Called /\ InHand(i)
  /\ IF connected
     THEN /\ Request(<<[type |-> "leave", activity |-> i, known |-> activities[i].resource]>>)
          /\ UNCHANGED <<activities, joined>>
     ELSE CompleteLeave(i, <<>>) /\ UNCHANGED <<requests, toServer>>
  /\ UNCHANGED <<connected, toClient, members, lurks, astray>>

----------------------------------------------------------------------------
(* The connection *)

\* All but the local participant leave, each with an event.
SetOffline(activity) ==
  LET gone == IF activity.present THEN DOMAIN activity.participants \ {Me}
              ELSE DOMAIN activity.participants
  IN  EmitEvents([activity EXCEPT !.participants = [s \in DOMAIN @ \ gone |-> @[s]]],
                 LeftEvents(gone))

\* The requests whose reply the connection loses end with an error.
Drop ==
  /\ connected /\ used.drops < MaxDrops
  /\ connected' = FALSE
  /\ activities' = [i \in DOMAIN activities |->
       [SetOffline(activities[i]) EXCEPT !.promise = IF @ = "pending" THEN "failed" ELSE @]]
  /\ requests' = <<>> /\ toServer' = <<>> /\ toClient' = <<>>
  /\ members' = Without(members, Me) /\ lurks' = FALSE
  /\ used' = [used EXCEPT !.drops = @ + 1]
  /\ UNCHANGED <<joined, astray>>

\* Every object there has been is told of the connection.  One without a local
\* participant that does not lurk throws.
Rejoins == {i \in DOMAIN activities : activities[i].lurking \/ activities[i].present}

Connect ==
  /\ ~connected
  /\ connected' = TRUE
  /\ LET chosen == SelectSeq([i \in DOMAIN activities |-> i], LAMBDA i : i \in Rejoins)
     IN  /\ activities' = [i \in DOMAIN activities |->
              IF i \in Rejoins THEN JoinWhileOnline(activities, i)[i] ELSE activities[i]]
         /\ Request([k \in DOMAIN chosen |-> JoinRequest(chosen[k], activities[chosen[k]])])
  /\ astray' = (astray \/ \E i \in Rejoins : ~InHand(i))
  /\ UNCHANGED <<joined, toClient, members, lurks, used>>

----------------------------------------------------------------------------
(* Replies and messages *)

Deliver(type) ==
  /\ toClient # <<>> /\ Head(toClient).type = type
  /\ toClient' = Tail(toClient)
  /\ UNCHANGED <<connected, members, lurks, used>>

Answered == Head(requests).activity

\* _syncStateAfterJoinOnline.  The server's value is negated before it is compared: true
\* is taken for equal to no value.
SyncAfterJoin(serverValue, localValue) ==
  CASE localValue = Absent -> IF serverValue = Absent THEN <<>> ELSE <<Absent>>
    [] localValue = True /\ serverValue = Absent -> <<>>
    [] OTHER -> <<localValue>>

\* Slip: what was set while the request was under way is not sent.
SyncNothing(serverValue, localValue) == <<>>

StateUpdates(serverValue, localValue) == SyncAfterJoin(serverValue, localValue)

\* One joined offline has a local participant though it lurks: the server's reply has
\* none, and the handler throws once it has told that the old one left.
Confused ==
  activities[Answered].present /\ Me \notin DOMAIN Head(toClient).participants

JoinThrows ==
  /\ Deliver("joined") /\ Confused
  /\ requests' = Tail(requests)
  /\ activities' = [activities EXCEPT
       ![Answered] = EmitEvents([@ EXCEPT !.resource = TRUE], LeftEvents({Me}))]
  /\ UNCHANGED <<joined, toServer, astray>>

\* A rejoined local participant keeps its state and sends what the server lacks of it;
\* it leaves and joins again, by the events.
JoinReplied ==
  /\ Deliver("joined") /\ ~Confused
  /\ requests' = Tail(requests)
  /\ LET i        == Answered
         activity == activities[i]
         found    == Head(toClient).participants
         kept     == IF activity.present THEN With(found, Me, activity.local) ELSE found
     IN  /\ activities' = [activities EXCEPT ![i] = EmitEvents(
              [activity EXCEPT
                 !.resource = TRUE, !.participants = kept,
                 !.present = Me \in DOMAIN kept,
                 !.local = IF Me \in DOMAIN kept THEN kept[Me] ELSE Absent,
                 !.promise = IF @ = "pending" THEN "joined" ELSE @],
              LeftEvents(IF activity.present THEN {Me} ELSE {}) \o JoinedEvents(kept))]
         /\ toServer' = IF ~activity.present THEN toServer
                        ELSE toServer \o
                             LET updates == StateUpdates(found[Me], activity.local)
                             IN  [k \in DOMAIN updates |->
                                    [type |-> "state", known |-> TRUE, value |-> updates[k]]]
  /\ UNCHANGED <<joined, astray>>

\* The key the service would forget a failed activity by is not the one it is known by.
JoinRefused ==
  /\ Deliver("refused") /\ Head(requests).type = "join"
  /\ requests' = Tail(requests)
  /\ activities' = [activities EXCEPT
       ![Answered].promise = IF @ = "pending" THEN "failed" ELSE @]
  /\ astray' = (astray \/ activities[Answered].promise = "joined")
  /\ UNCHANGED <<joined, toServer>>

LeaveReplied ==
  /\ Deliver("left")
  /\ requests' = Tail(requests)
  /\ CompleteLeave(Answered, <<>>)
  /\ UNCHANGED <<toServer, astray>>

LeaveRefused ==
  /\ Deliver("refused") /\ Head(requests).type = "leave"
  /\ requests' = Tail(requests)
  /\ UNCHANGED <<activities, joined, toServer, astray>>

\* Those that listen and know the resource.
Hearing == {i \in DOMAIN activities : activities[i].hears /\ activities[i].resource}

SessionJoined ==
  /\ Deliver("sessionJoined")
  /\ LET s == Head(toClient).session
     IN  activities' = [i \in DOMAIN activities |->
           IF i \in Hearing
           THEN EmitEvents([activities[i] EXCEPT !.participants = With(@, s, Absent)],
                           <<ActivitySessionJoinedEvent(s, Absent)>>)
           ELSE activities[i]]
  /\ UNCHANGED <<joined, requests, toServer, astray>>

SessionLeft ==
  /\ Deliver("sessionLeft")
  /\ LET s == Head(toClient).session
     IN  activities' = [i \in DOMAIN activities |->
           IF i \in Hearing
           THEN EmitEvents([activities[i] EXCEPT !.participants = Without(@, s)],
                           <<ActivitySessionLeftEvent(s)>>)
           ELSE activities[i]]
  /\ UNCHANGED <<joined, requests, toServer, astray>>

StateSet(participants, s, value) == With(participants, s, value)

StateRemoved(participants, s) == With(participants, s, Absent)

StateCleared(participants, s) == With(participants, s, Absent)

\* _onRemoteStateUpdated
StateUpdated(participants, message) ==
  CASE message.what = "set"     -> StateSet(participants, message.session, message.value)
    [] message.what = "removed" -> StateRemoved(participants, message.session)
    [] message.what = "cleared" -> StateCleared(participants, message.session)

RemoteStateUpdated ==
  /\ Deliver("stateUpdated")
  /\ LET message == Head(toClient)
     IN  activities' = [i \in DOMAIN activities |->
           IF i \in Hearing
           THEN EmitEvents([activities[i] EXCEPT !.participants = StateUpdated(@, message)],
                           StateEvents(message.session, message.what, message.value))
           ELSE activities[i]]
  /\ UNCHANGED <<joined, requests, toServer, astray>>

\* _onDeleted and _onForceLeave
LeftByServer ==
  /\ \/ Deliver("deleted")
     \/ Deliver("forceLeave")
  /\ LET reason == IF Head(toClient).type = "deleted" THEN ActivityDeletedEvent
                   ELSE ActivityForceLeaveEvent
     IN  IF Hearing = {} THEN UNCHANGED <<activities, joined>>
         ELSE \E i \in Hearing : CompleteLeave(i, <<reason>>)
  /\ UNCHANGED <<requests, toServer, astray>>

----------------------------------------------------------------------------
(* The server *)

TakesPart == Me \in DOMAIN members \/ lurks

Reply(message) == toClient' = Append(toClient, message)

ServerReceives ==
  /\ toServer # <<>>
  /\ toServer' = Tail(toServer)
  /\ LET message == Head(toServer)
     IN  CASE message.type = "join" /\ ~TakesPart ->
                LET now == IF message.lurking THEN members ELSE With(members, Me, message.value)
                IN  /\ members' = now /\ lurks' = message.lurking
                    /\ Reply([type |-> "joined", participants |-> now])
           [] message.type = "join" /\ TakesPart ->
                Reply([type |-> "refused"]) /\ UNCHANGED <<members, lurks>>
           [] message.type = "leave" /\ ~(message.known /\ TakesPart) ->
                Reply([type |-> "refused"]) /\ UNCHANGED <<members, lurks>>
           [] message.type = "leave" /\ message.known /\ TakesPart ->
                /\ members' = Without(members, Me) /\ lurks' = FALSE
                /\ Reply([type |-> "left"])
           [] message.type = "state" ->
                /\ members' = IF message.known /\ Me \in DOMAIN members
                              THEN With(members, Me, message.value) ELSE members
                /\ UNCHANGED <<toClient, lurks>>
  /\ UNCHANGED <<connected, activities, joined, requests, astray, used>>

\* There is no such activity, or it may not be joined.
ServerRefuses ==
  /\ Changed /\ toServer # <<>> /\ Head(toServer).type = "join"
  /\ toServer' = Tail(toServer)
  /\ Reply([type |-> "refused"])
  /\ UNCHANGED <<connected, activities, joined, requests, members, lurks, astray>>

Notify(message) == toClient' = IF TakesPart THEN Append(toClient, message) ELSE toClient

OtherActs(s) ==
  /\ Changed
  /\ \/ /\ s \notin DOMAIN members
        /\ members' = With(members, s, Absent)
        /\ Notify([type |-> "sessionJoined", session |-> s])
     \/ /\ s \in DOMAIN members
        /\ members' = Without(members, s)
        /\ Notify([type |-> "sessionLeft", session |-> s])
     \/ /\ s \in DOMAIN members
        /\ \E what \in IF members[s] = Absent THEN {"set"} ELSE {"removed", "cleared"} :
             LET value == IF what = "set" THEN "other" ELSE Absent
             IN  /\ members' = With(members, s, value)
                 /\ Notify([type |-> "stateUpdated", what |-> what, session |-> s,
                            value |-> value])
  /\ UNCHANGED <<connected, activities, joined, requests, toServer, lurks, astray>>

\* Deleted, or this session made to leave.
ServerEnds ==
  /\ Changed /\ TakesPart
  /\ members' = Without(members, Me) /\ lurks' = FALSE
  /\ \E how \in {"deleted", "forceLeave"} : Reply([type |-> how])
  /\ UNCHANGED <<connected, activities, joined, requests, toServer, astray>>

----------------------------------------------------------------------------
Init ==
  /\ connected = TRUE
  /\ activities = <<>> /\ joined = 0 /\ requests = <<>>
  /\ toServer = <<>> /\ toClient = <<>>
  /\ members = NoParticipants /\ lurks = FALSE
  /\ astray = FALSE
  /\ used = [calls |-> 0, changes |-> 0, drops |-> 0]

Next ==
  \/ \E lurking \in BOOLEAN, value \in StateValue : Join(lurking, value)
  \/ \E i \in DOMAIN activities :
       \/ \E value \in StateValue \ {Absent} : SetState(i, value)
       \/ RemoveState(i) \/ ClearState(i)
       \/ Leave(i)
  \/ Drop \/ Connect
  \/ JoinReplied \/ JoinThrows \/ JoinRefused \/ LeaveReplied \/ LeaveRefused
  \/ SessionJoined \/ SessionLeft \/ RemoteStateUpdated \/ LeftByServer
  \/ ServerReceives \/ ServerRefuses
  \/ \E s \in Other : OtherActs(s)
  \/ ServerEnds

Spec == Init /\ [][Next]_vars

----------------------------------------------------------------------------
Settled == connected /\ requests = <<>> /\ toServer = <<>> /\ toClient = <<>>

\* Joined offline to lurk: never put right.
LurksWithParticipant(i) == activities[i].lurking /\ activities[i].present

(***************************************************************************)
(* Once everything is delivered an activity that is joined has the         *)
(* participants the server has and each one's state, its own as set,       *)
(* online, offline or while rejoining (_joinWhileOnline, _setOnline,       *)
(* _syncStateAfterJoinOnline), unless that is true, which is mistaken for  *)
(* sent; and the server has this session just when one is joined.  Apart   *)
(* from what went astray and from lurkers that joined offline.  And at     *)
(* all times its participants and their states are those an application    *)
(* knows that only follows the events from when it joined, those of each   *)
(* key or the deltas: none is missing, repeated or late, over changes of   *)
(* its own and of others and a lost connection (_setOffline,               *)
(* _joinWhileOnline, _onRemoteStateUpdated); and it has been told that it  *)
(* left just when it did.                                                  *)
(***************************************************************************)
FollowsActivity ==
  /\ Settled /\ ~astray =>
       /\ \A i \in DOMAIN activities :
            InHand(i) /\ ~LurksWithParticipant(i) =>
              IF activities[i].local = True
              THEN Without(activities[i].participants, Me) = Without(members, Me)
              ELSE activities[i].participants = members
       /\ TakesPart <=> \E i \in DOMAIN activities : InHand(i)
  /\ \A i \in DOMAIN activities :
       LET activity == activities[i]
       IN  /\ activity.joined /\ ~LurksWithParticipant(i) =>
                activity.participants = activity.told.byKey /\
                activity.participants = activity.told.byDelta
           /\ activity.told.left = ~activity.joined
===============================================================================
