------------------------------ MODULE Presence ------------------------------
(***************************************************************************)
(* PresenceService and its UserPresenceManagers: subscriptions to a user   *)
(* share a manager, the first asks the server and the last tells it to     *)
(* stop; a new connection asks for all of them again.                      *)
(*                                                                         *)
(* A promise's continuation runs before the next message or timer, but the *)
(* application may act before it does.  The state of a presence is the     *)
(* value of one key, 0 for none.                                           *)
(***************************************************************************)
EXTENDS Integers, Sequences, FiniteSets

CONSTANTS
  User,
  MaxCalls,    \* bound: calls of the application
  MaxChanges,  \* bound: changes of users' presence at the server
  MaxDrops     \* bound: how often the connection drops

VARIABLES
  connected,
  managers,       \* every UserPresenceManager there has been
  subscribed,     \* _subscribedManagers: by user, the index of its manager or 0
  requests,       \* the subscription requests whose reply is awaited
  continuations,  \* of calls of subscribe: the users they are for
  handles,        \* every UserPresenceSubscription there has been
  local,          \* the state of the local user's manager
  toServer, toClient,
  server,         \* external
  misused,        \* history: users whose subscriptions overlapped, see Overlaps
  used            \* history: what of the bounds is used up

vars == <<connected, managers, subscribed, requests, continuations, handles, local,
          toServer, toClient, server, misused, used>>

Called == used.calls < MaxCalls /\ used' = [used EXCEPT !.calls = @ + 1]

Send(message) == toServer' = Append(toServer, message)

OpenHandles(m) == {h \in DOMAIN handles : handles[h].open /\ handles[h].manager = m}

----------------------------------------------------------------------------
(* Subscriptions *)

NotSubscribed(users) == {u \in users : subscribed[u] = 0}

\* Calls of subscribe that are under way, by the users they are for.
UnderWay == {requests[i].call : i \in DOMAIN requests}
              \cup {continuations[i] : i \in DOMAIN continuations}

\* Two subscriptions to a user are under way at once, or its last one ends meanwhile.
Overlaps(users) == users \cap UNION UnderWay

\* asked: the users the server is asked for; call: those the application asks for, none
\* for a renewal.
SubscribeToServer(asked, call) ==
  /\ requests' = Append(requests, [asked |-> asked, call |-> call])
  /\ Send([type |-> "subscribe", users |-> asked])

Subscribe(users) ==
  /\ Called /\ connected
  /\ IF NotSubscribed(users) = {}
     THEN continuations' = Append(continuations, users) /\ UNCHANGED <<requests, toServer>>
     ELSE SubscribeToServer(NotSubscribed(users), users) /\ UNCHANGED continuations
  /\ misused' = misused \cup Overlaps(users)
  /\ UNCHANGED <<connected, managers, subscribed, handles, local, toClient, server>>

\* A handle for each user; one whose manager is gone ends the call with an error, and
\* those before it are never given to the application.
SubscriptionContinues ==
  /\ continuations # <<>>
  /\ continuations' = Tail(continuations)
  /\ LET users == Head(continuations)
     IN  \E got \in SUBSET (users \ NotSubscribed(users)) :
           /\ NotSubscribed(users) = {} => got = users
           /\ \E order \in [1 .. Cardinality(got) -> got] :
                /\ \A u \in got : \E i \in DOMAIN order : order[i] = u
                /\ handles' = handles \o [i \in DOMAIN order |->
                     [manager |-> subscribed[order[i]], open |-> TRUE, given |-> got = users]]
           /\ misused' = IF got = users THEN misused ELSE misused \cup users
  /\ UNCHANGED <<connected, managers, subscribed, requests, local, toServer, toClient, server,
                 used>>

\* The last of a manager: it hears no more, and the user is not subscribed, be it that
\* another manager has taken its place.
Unsubscribe(h) ==
  /\ Called /\ handles[h].open /\ handles[h].given
  /\ handles' = [handles EXCEPT ![h].open = FALSE]
  /\ LET m == handles[h].manager
         u == managers[m].user
     IN  IF OpenHandles(m) = {h}
         THEN /\ managers' = [managers EXCEPT ![m].hears = FALSE]
              /\ subscribed' = [subscribed EXCEPT ![u] = 0]
              /\ IF connected THEN Send([type |-> "unsubscribe", users |-> {u}])
                 ELSE UNCHANGED toServer
              /\ misused' = misused \cup Overlaps({u})
         ELSE UNCHANGED <<managers, subscribed, toServer, misused>>
  /\ UNCHANGED <<connected, requests, continuations, local, toClient, server>>

\* What is set offline is not sent.
LocalState(value) ==
  /\ Called
  /\ local' = value
  /\ IF connected THEN Send([type |-> "state", value |-> value]) ELSE UNCHANGED toServer
  /\ UNCHANGED <<connected, managers, subscribed, requests, continuations, handles, toClient,
                 server, misused>>

SetState(value) == LocalState(value)

\* Nothing is done about a key that there is not.
RemoveState == local # 0 /\ LocalState(0)

ClearState == LocalState(0)

----------------------------------------------------------------------------
(* The managers of the users subscribed to *)

UserPresence(available, value) == [available |-> available, value |-> value]

PresenceAvailabilityChangedEvent(available) ==
  [name |-> "availability_changed", available |-> available]

PresenceStateSetEvent(value) == [name |-> "state_set", value |-> value]

PresenceStateRemovedEvent == [name |-> "state_removed"]
PresenceStateClearedEvent == [name |-> "state_cleared"]

\* What a listener knows who follows the events of a subscription.
Hear(told, event) ==
  CASE event.name = "availability_changed" -> [told EXCEPT !.available = event.available]
    [] event.name = "state_set"            -> [told EXCEPT !.value = event.value]
    [] event.name \in {"state_removed", "state_cleared"} -> [told EXCEPT !.value = 0]

\* emitSubject: those that observe the presence, asObservable, are told as well.
Changes(m, presence, event, emitSubject) ==
  [m EXCEPT !.presence = presence,
            !.told     = Hear(@, event),
            !.observed = IF emitSubject THEN presence ELSE @]

Availability(m, available, emitSubject) ==
  Changes(m, UserPresence(available, m.presence.value),
          PresenceAvailabilityChangedEvent(available), emitSubject)

Set(m, value, emitSubject) ==
  Changes(m, UserPresence(m.presence.available, value), PresenceStateSetEvent(value),
          emitSubject)

Remove(m, emitSubject) ==
  Changes(m, UserPresence(m.presence.available, 0), PresenceStateRemovedEvent, emitSubject)

Clear(m, emitSubject) ==
  Changes(m, UserPresence(m.presence.available, 0), PresenceStateClearedEvent, emitSubject)

\* A subscription's listeners begin with what they find.
UserPresenceManager(user, presence) ==
  [user |-> user, presence |-> presence, told |-> presence, observed |-> presence,
   hears |-> TRUE]

\* _handleMessage
HandleMessage(m, message) ==
  CASE message.what = "available" -> Availability(m, message.available, TRUE)
    [] message.what = "set"       -> Set(m, message.value, TRUE)
    [] message.what = "cleared"   -> Clear(m, TRUE)
    [] message.what = "removed"   -> Remove(m, TRUE)

----------------------------------------------------------------------------
(* The connection.  Requests whose reply it loses end with an error. *)

Idle == continuations = <<>>

Drop ==
  /\ Idle /\ connected /\ used.drops < MaxDrops
  /\ connected' = FALSE
  /\ managers' = [m \in DOMAIN managers |->
       IF subscribed[managers[m].user] = m THEN Availability(managers[m], FALSE, FALSE)
       ELSE managers[m]]
  /\ requests' = <<>> /\ toServer' = <<>> /\ toClient' = <<>>
  /\ server' = [server EXCEPT !.subscribed = {}]
  /\ used' = [used EXCEPT !.drops = @ + 1]
  /\ UNCHANGED <<subscribed, continuations, handles, local, misused>>

\* _onAuthenticated: it comes with the handshake.
AuthenticatedState == server.local

\* _setOnline renews the subscriptions.
Connect ==
  /\ Idle /\ ~connected
  /\ connected' = TRUE
  /\ SubscribeToServer(User \ NotSubscribed(User), {})
  /\ local' = AuthenticatedState
  /\ UNCHANGED <<managers, subscribed, continuations, handles, toClient, server, misused,
                 used>>

----------------------------------------------------------------------------
(* Messages *)

Deliver(type) ==
  /\ Idle /\ toClient # <<>> /\ Head(toClient).type = type
  /\ toClient' = Tail(toClient)
  /\ UNCHANGED <<connected, local, toServer, server, used>>

IsRenewal == Head(requests).call = {}

\* Slip: only the availability is taken over.
TakeAvailability(m, presence) == Availability(m, presence.available, TRUE)

\* _setOnline of the manager
TakePresence(m, presence) ==
  Set(Clear(Availability(m, presence.available, FALSE), FALSE), presence.value, TRUE)

\* Those no longer subscribed to are skipped.
SubscriptionsRenewed ==
  /\ Deliver("subscribed") /\ IsRenewal
  /\ requests' = Tail(requests)
  /\ LET presences == Head(toClient).presences
         current(m) == subscribed[managers[m].user] = m
     IN  managers' = [m \in DOMAIN managers |->
           IF current(m) /\ managers[m].user \in DOMAIN presences
           THEN TakePresence(managers[m], presences[managers[m].user])
           ELSE managers[m]]
  /\ UNCHANGED <<subscribed, continuations, handles, misused>>

\* A manager for each, in the place of one there may be by now.
SubscribedTo ==
  /\ Deliver("subscribed") /\ ~IsRenewal
  /\ requests' = Tail(requests)
  /\ LET presences == Head(toClient).presences
     IN  \E order \in [1 .. Cardinality(DOMAIN presences) -> DOMAIN presences] :
           /\ \A u \in DOMAIN presences : \E i \in DOMAIN order : order[i] = u
           /\ managers' = managers \o [i \in DOMAIN order |->
                UserPresenceManager(order[i], presences[order[i]])]
           /\ subscribed' = [u \in User |->
                IF u \in DOMAIN presences
                THEN Len(managers) + CHOOSE i \in DOMAIN order : order[i] = u
                ELSE subscribed[u]]
  /\ continuations' = Append(continuations, Head(requests).call)
  /\ UNCHANGED <<handles, misused>>

\* _handleMessage of the managers of that user
PresenceHeard ==
  /\ Deliver("presence")
  /\ LET message == Head(toClient)
     IN  managers' = [m \in DOMAIN managers |->
           IF managers[m].hears /\ managers[m].user = message.user
           THEN HandleMessage(managers[m], message)
           ELSE managers[m]]
  /\ UNCHANGED <<subscribed, requests, continuations, handles, misused>>

----------------------------------------------------------------------------
(* The server *)

ServerReceives ==
  /\ toServer # <<>>
  /\ toServer' = Tail(toServer)
  /\ LET message == Head(toServer)
     IN  CASE message.type = "subscribe" ->
                /\ server' = [server EXCEPT !.subscribed = @ \cup message.users]
                /\ toClient' = Append(toClient,
                     [type |-> "subscribed",
                      presences |-> [u \in message.users |-> server.presence[u]]])
           [] message.type = "unsubscribe" ->
                /\ server' = [server EXCEPT !.subscribed = @ \ message.users]
                /\ UNCHANGED toClient
           [] message.type = "state" ->
                server' = [server EXCEPT !.local = message.value] /\ UNCHANGED toClient
  /\ UNCHANGED <<connected, managers, subscribed, requests, continuations, handles, local,
                 misused, used>>

\* A user's last session goes, its first one comes, or one sets or clears its state.
PresenceChanges(u) ==
  /\ used.changes < MaxChanges
  /\ used' = [used EXCEPT !.changes = @ + 1]
  /\ LET old == server.presence[u]
     IN  \E what \in {"available"} \cup IF old.value = 0 THEN {"set"} ELSE {"removed", "cleared"} :
           LET new == IF what = "available" THEN [old EXCEPT !.available = ~@]
                      ELSE [old EXCEPT !.value = 1 - @]
           IN  /\ server' = [server EXCEPT !.presence[u] = new]
               /\ toClient' = IF u \in server.subscribed
                              THEN Append(toClient, [type |-> "presence", user |-> u, what |-> what,
                                                     available |-> new.available, value |-> new.value])
                              ELSE toClient
  /\ UNCHANGED <<connected, managers, subscribed, requests, continuations, handles, local,
                 toServer, misused>>

----------------------------------------------------------------------------
Init ==
  /\ connected = TRUE
  /\ managers = <<>> /\ subscribed = [u \in User |-> 0]
  /\ requests = <<>> /\ continuations = <<>> /\ handles = <<>>
  /\ local = 0
  /\ toServer = <<>> /\ toClient = <<>>
  /\ server = [subscribed |-> {}, local |-> 0,
               presence |-> [u \in User |-> UserPresence(FALSE, 0)]]
  /\ misused = {}
  /\ used = [calls |-> 0, changes |-> 0, drops |-> 0]

Next ==
  \/ \E users \in SUBSET User \ {{}} : Subscribe(users)
  \/ SubscriptionContinues
  \/ \E h \in DOMAIN handles : Unsubscribe(h)
  \/ SetState(1) \/ RemoveState \/ ClearState
  \/ Drop \/ Connect
  \/ SubscriptionsRenewed \/ SubscribedTo \/ PresenceHeard
  \/ ServerReceives
  \/ \E u \in User : PresenceChanges(u)

Spec == Init /\ [][Next]_vars

----------------------------------------------------------------------------
\* With everything delivered.
Settled ==
  connected /\ Idle /\ requests = <<>> /\ toServer = <<>> /\ toClient = <<>>

(***************************************************************************)
(* Once everything is delivered each subscription tells the presence the   *)
(* server has, however often the connection dropped and whatever changed   *)
(* meanwhile (_setOnline, _handleMessage), and the server is subscribed to *)
(* exactly the users of whom there is a subscription (_subscribe,          *)
(* _unsubscribe); unless subscriptions to one user overlapped.  The local  *)
(* user's state is the one the server has: what was set offline has given  *)
(* way to it (_onAuthenticated, _setInternalState).  At all times the      *)
(* events of a subscription have told its presence, and so has what is     *)
(* observed of it, except while the connection is lost, which only events  *)
(* tell (availability).                                                    *)
(***************************************************************************)
FollowsSubscribedUsers ==
  /\ Settled =>
       /\ local = server.local
       /\ \A h \in DOMAIN handles :
            LET m == managers[handles[h].manager]
            IN  handles[h].open /\ m.user \notin misused =>
                  m.presence = server.presence[m.user] /\ m.observed = m.presence
       /\ \A u \in User \ misused :
            u \in server.subscribed <=>
              \E h \in DOMAIN handles : handles[h].open /\ managers[handles[h].manager].user = u
  /\ \A m \in DOMAIN managers :
       /\ managers[m].told = managers[m].presence
       /\ managers[m].hears /\ managers[m].observed # managers[m].presence =>
            \/ ~connected \/ \E i \in DOMAIN requests : requests[i].call = {}
            \/ managers[m].user \in misused
=============================================================================
