-------------------------------- MODULE Chat --------------------------------
(***************************************************************************)
(* ChatService and its Chat objects, for one chat, a room or a channel:    *)
(* finding and joining it, what its members do, and the rejoining of rooms *)
(* on a new connection.  Each call that finds or joins the chat makes one  *)
(* more object; all of them hear of the chat what this session is told,    *)
(* and its history can be asked for.                                       *)
(***************************************************************************)
EXTENDS Integers, Sequences

Seqs == INSTANCE SequencesExt

CONSTANTS
  LocalUser,
  OtherUser,   \* the other users
  MaxCalls,    \* bound: calls of the application
  MaxChanges,  \* bound: what other users do, and requests the server refuses
  MaxActs,     \* bound: both together
  MaxDrops     \* bound: how often the connection drops

VARIABLES
  room,        \* whether the chat is a ChatRoom; a channel if not
  connected,
  chats,       \* every Chat object there has been, its info
  requests,    \* those whose reply is awaited
  toServer, toClient,
  members, title, log,   \* external: the server's, log what happened since the creation
  seen,        \* external: the number up to which the local user has seen the chat
  removed,     \* external: the chat has been removed
  used         \* history: what of the bounds is used up

vars == <<room, connected, chats, requests, toServer, toClient, members, title, log, seen,
          removed, used>>

\* The server numbers events from the creation, which is the first.
LastEventNumber == Len(log) + 1

MayAct == used.calls + used.changes < MaxActs

Called == MayAct /\ used.calls < MaxCalls /\ used' = [used EXCEPT !.calls = @ + 1]

Changed == MayAct /\ used.changes < MaxChanges /\ used' = [used EXCEPT !.changes = @ + 1]

Request(messages) ==
  /\ requests' = requests \o messages
  /\ toServer' = toServer \o messages

NotRead == [upTo |-> 0, members |-> {}, title |-> [name |-> TRUE, topic |-> TRUE]]

\* createChatInfo.  follows: history: from then on the chat is what the server has: it was
\* found by a member who has not left or lost a channel's connection, or been kept from
\* rejoining a room since.
ChatInfo(info) ==
  [members |-> info.members, title |-> info.title, lastEventNumber |-> info.lastEventNumber,
   maxSeen |-> info.seen, history |-> NotRead,
   joined |-> LocalUser \in info.members, follows |-> LocalUser \in info.members]

\* Whether the name and the topic are as at first.
SetTitle(titled, what) == [titled EXCEPT ![what] = FALSE]

----------------------------------------------------------------------------
(* Events, by whom, and of which user *)

ChatEvent(name, number, by, user) ==
  [name |-> name, number |-> number, by |-> by, user |-> user]

UserJoinedEvent(number, user)          == ChatEvent("user_joined", number, user, user)
UserLeftEvent(number, user)            == ChatEvent("user_left", number, user, user)
UserAddedEvent(number, by, added)      == ChatEvent("user_added", number, by, added)
UserRemovedEvent(number, by, out)      == ChatEvent("user_removed", number, by, out)
ChatNameChangedEvent(number, by)       == ChatEvent("name_changed", number, by, by)
ChatTopicChangedEvent(number, by)      == ChatEvent("topic_changed", number, by, by)
ChatMessageEvent(number, by)           == ChatEvent("message", number, by, by)
ChatEventsMarkedSeenEvent(number, by)  == ChatEvent("events_seen", number, by, by)
ChatRemovedEvent                       == [name |-> "chat_removed"]

ProcessChatMessage(message) ==
  CASE message.what = "joined"      -> UserJoinedEvent(message.number, message.user)
    [] message.what = "left"        -> UserLeftEvent(message.number, message.user)
    [] message.what = "added"       -> UserAddedEvent(message.number, message.by, message.user)
    [] message.what = "removed"     -> UserRemovedEvent(message.number, message.by, message.user)
    [] message.what = "name"        -> ChatNameChangedEvent(message.number, message.by)
    [] message.what = "topic"       -> ChatTopicChangedEvent(message.number, message.by)
    [] message.what = "message"     -> ChatMessageEvent(message.number, message.by)
    [] message.what = "seen"        -> ChatEventsMarkedSeenEvent(message.number, message.by)
    [] message.what = "chatRemoved" -> ChatRemovedEvent

----------------------------------------------------------------------------
(* History *)

ChatHistoryEntry(type, number, by, user) ==
  [type |-> type, number |-> number, by |-> by, user |-> user]

UserJoinedChatHistoryEntry(number, user)     == ChatHistoryEntry("joined", number, user, user)
UserLeftChatHistoryEntry(number, user)       == ChatHistoryEntry("left", number, user, user)
UserAddedChatHistoryEntry(number, by, added) == ChatHistoryEntry("added", number, by, added)
UserRemovedChatHistoryEntry(number, by, out) == ChatHistoryEntry("removed", number, by, out)
NameChangedChatHistoryEntry(number, by)      == ChatHistoryEntry("name", number, by, by)
TopicChangedChatHistoryEntry(number, by)     == ChatHistoryEntry("topic", number, by, by)
MessageChatHistoryEntry(number, by)          == ChatHistoryEntry("message", number, by, by)

CreatedChatHistoryEntry(number, users) ==
  [type |-> "created", number |-> number, members |-> users]

ToChatHistoryEntry(data) ==
  CASE data.what = "created" -> CreatedChatHistoryEntry(data.number, data.members)
    [] data.what = "joined"  -> UserJoinedChatHistoryEntry(data.number, data.user)
    [] data.what = "left"    -> UserLeftChatHistoryEntry(data.number, data.user)
    [] data.what = "added"   -> UserAddedChatHistoryEntry(data.number, data.by, data.user)
    [] data.what = "removed" -> UserRemovedChatHistoryEntry(data.number, data.by, data.user)
    [] data.what = "name"    -> NameChangedChatHistoryEntry(data.number, data.by)
    [] data.what = "topic"   -> TopicChangedChatHistoryEntry(data.number, data.by)
    [] data.what = "message" -> MessageChatHistoryEntry(data.number, data.by)

\* An application that reads the history entry by entry.
Reads(read, entry) ==
  [upTo    |-> entry.number,
   members |-> CASE entry.type = "created"             -> entry.members
                 [] entry.type \in {"joined", "added"} -> read.members \cup {entry.user}
                 [] entry.type \in {"left", "removed"} -> read.members \ {entry.user}
                 [] OTHER -> read.members,
   title   |-> IF entry.type \in {"name", "topic"} THEN SetTitle(read.title, entry.type)
               ELSE read.title]

----------------------------------------------------------------------------
(* Calls *)

\* A call of the application's, of the service or a chat of its.
Call(message) ==
  /\ Called /\ connected
  /\ Request(<<message>>)
  /\ UNCHANGED <<room, connected, chats, toClient, members, title, log, seen, removed>>

\* Of the service; a new object comes of the reply to get and join.
Get    == Call([type |-> "get", chat |-> 0])
Join   == Call([type |-> "join", chat |-> 0])
Remove == Call([type |-> "removeChat", chat |-> 0])

\* leave of the service, and leave of a chat that is joined.
Leave == Call([type |-> "leave", chat |-> 0])

AssertJoined(i) == chats[i].joined

Send(i)     == AssertJoined(i) /\ Call([type |-> "message", chat |-> 0])
SetName(i)  == AssertJoined(i) /\ Call([type |-> "name", chat |-> 0])
SetTopic(i) == AssertJoined(i) /\ Call([type |-> "topic", chat |-> 0])

\* All the events the chat knows of are seen.
MarkSeen(i) ==
  AssertJoined(i) /\ Call([type |-> "seen", chat |-> 0, number |-> chats[i].lastEventNumber])

GetHistory(i) == AssertJoined(i) /\ Call([type |-> "history", chat |-> i])

RemoveUser(i, user) == AssertJoined(i) /\ Call([type |-> "remove", chat |-> 0, user |-> user])

\* A room has no such method.
Add(i, user) == ~room /\ AssertJoined(i) /\ Call([type |-> "add", chat |-> 0, user |-> user])

----------------------------------------------------------------------------
(* The connection *)

\* A channel knows nothing of the connection.
SetOffline(chat) == IF room THEN [chat EXCEPT !.joined = FALSE] ELSE chat

Drop ==
  /\ connected /\ used.drops < MaxDrops
  /\ connected' = FALSE
  /\ chats' = [i \in DOMAIN chats |-> [SetOffline(chats[i]) EXCEPT !.follows = @ /\ room]]
  /\ requests' = <<>> /\ toServer' = <<>> /\ toClient' = <<>>
  /\ members' = IF room THEN members \ {LocalUser} ELSE members
  /\ used' = [used EXCEPT !.drops = @ + 1]
  /\ UNCHANGED <<room, title, log, seen, removed>>

\* Every object of a room joins, also one that was left.
SetOnline == IF room THEN [i \in DOMAIN chats |-> [type |-> "join", chat |-> i]] ELSE <<>>

Connect ==
  /\ ~connected
  /\ connected' = TRUE
  /\ Request(SetOnline)
  /\ UNCHANGED <<room, chats, toClient, members, title, log, seen, removed, used>>

----------------------------------------------------------------------------
(* Replies and events *)

Deliver(type) ==
  /\ toClient # <<>> /\ Head(toClient).type = type
  /\ toClient' = Tail(toClient)
  /\ UNCHANGED <<room, connected, toServer, members, title, log, seen, removed, used>>

\* To get or join: a new object, or the info of the one that rejoins.
InfoReplied ==
  /\ Deliver("info")
  /\ requests' = Tail(requests)
  /\ LET chat == Head(requests).chat
         info == ChatInfo(Head(toClient).info)
     IN  chats' = IF chat = 0 THEN Append(chats, info) ELSE [chats EXCEPT ![chat] = info]

Done ==
  /\ Deliver("done")
  /\ requests' = Tail(requests)
  /\ UNCHANGED chats

Refused ==
  /\ Deliver("refused")
  /\ requests' = Tail(requests)
  /\ LET chat == Head(requests).chat
     IN  chats' = IF chat = 0 THEN chats ELSE [chats EXCEPT ![chat].follows = FALSE]

HistoryReplied ==
  /\ Deliver("history")
  /\ requests' = Tail(requests)
  /\ LET data    == Head(toClient).data
         entries == [k \in DOMAIN data |-> ToChatHistoryEntry(data[k])]
     IN  chats' = [chats EXCEPT
           ![Head(requests).chat].history = Seqs!FoldLeft(Reads, NotRead, entries)]

\* Slip: one who is removed stays.
RemovedStays(chat, event) ==
  CASE event.name \in {"user_joined", "user_added"} -> chat.members \cup {event.user}
    [] event.name = "user_left" -> chat.members \ {event.user}
    [] OTHER -> chat.members

\* Whoever is told to have joined is one more entry, all of which a leaving takes out.
MembersAfter(chat, event) ==
  CASE event.name \in {"user_joined", "user_added"}  -> chat.members \cup {event.user}
    [] event.name \in {"user_left", "user_removed"} -> chat.members \ {event.user}
    [] OTHER -> chat.members

\* _processEvent.  The local user has joined by joining and by adding others, but not by
\* being added.  An event that something was seen has no number of its own; of others'
\* it is put where nobody looks for it.
ProcessEvent(chat, event) ==
  CASE event.name = "chat_removed" -> chat
    [] event.name = "events_seen" ->
         IF event.by = LocalUser /\ LocalUser \in chat.members
         THEN [chat EXCEPT !.maxSeen = event.number] ELSE chat
    [] OTHER ->
         [chat EXCEPT
            !.lastEventNumber = event.number,
            !.members = MembersAfter(chat, event),
            !.title   = CASE event.name = "name_changed"  -> SetTitle(@, "name")
                          [] event.name = "topic_changed" -> SetTitle(@, "topic")
                          [] OTHER -> @,
            !.joined  =
              CASE event.name \in {"user_joined", "user_added"} /\ event.by = LocalUser -> TRUE
                [] event.name \in {"user_left", "user_removed"} /\ event.user = LocalUser -> FALSE
                [] OTHER -> @,
            !.follows = @ /\ ~(event.name \in {"user_left", "user_removed"}
                               /\ event.user = LocalUser)]

EventHeard ==
  /\ Deliver("event")
  /\ LET event == ProcessChatMessage(Head(toClient).event)
     IN  chats' = [i \in DOMAIN chats |-> ProcessEvent(chats[i], event)]
  /\ UNCHANGED requests

----------------------------------------------------------------------------
(* The server: it tells the members, one that leaves or is removed among them *)

Happening(what, user, by) ==
  [what |-> what, user |-> user, by |-> by, number |-> LastEventNumber + 1]

Happens(what, user, by) ==
  /\ members' = CASE what \in {"joined", "added"} -> members \cup {user}
                  [] what \in {"left", "removed"} -> members \ {user}
                  [] OTHER -> members
  /\ title' = IF what \in {"name", "topic"} THEN SetTitle(title, what) ELSE title
  /\ log' = Append(log, Happening(what, user, by))
  /\ seen' = IF LocalUser \in members' THEN seen ELSE 0

Tells(message) == [type |-> "event", event |-> message]

Told(message) == IF LocalUser \in members \cup members' THEN <<Tells(message)>> ELSE <<>>

RemovalTold == IF LocalUser \in members THEN <<Tells([what |-> "chatRemoved"])>> ELSE <<>>

Info ==
  [type |-> "info",
   info |-> [members |-> members', title |-> title', lastEventNumber |-> LastEventNumber',
             seen |-> IF LocalUser \in members' THEN seen' ELSE -1]]

History ==
  [type |-> "history",
   data |-> <<[what |-> "created", number |-> 1, members |-> OtherUser]>> \o log]

\* A reply, and what there is to tell before or after it.
Answer(reply, events) == toClient' \in {toClient \o <<reply>> \o events,
                                        toClient \o events \o <<reply>>}

Refuse == Answer([type |-> "refused"], <<>>) /\ UNCHANGED <<members, title, log, seen>>

Carries(what, user, reply) ==
  /\ UNCHANGED removed
  /\ Happens(what, user, LocalUser)
  /\ Answer(reply, Told(Happening(what, user, LocalUser)))

ServerReceives ==
  /\ toServer # <<>>
  /\ toServer' = Tail(toServer)
  /\ LET message == Head(toServer)
         isIn    == LocalUser \in members
         done    == [type |-> "done"]
     IN  \/ /\ message.type = "removeChat" /\ ~removed
            /\ removed' = TRUE /\ members' = {}
            /\ Answer(done, RemovalTold)
            /\ UNCHANGED <<title, log, seen>>
         \/ /\ message.type = "get" /\ ~removed
            /\ UNCHANGED <<members, title, log, seen>>
            /\ Answer(Info, <<>>) /\ UNCHANGED removed
         \/ /\ message.type = "history" /\ isIn
            /\ Answer(History, <<>>)
            /\ UNCHANGED <<members, title, log, seen, removed>>
         \/ /\ message.type = "seen" /\ isIn
            /\ seen' = message.number
            /\ Answer(done, <<Tells([what |-> "seen", number |-> message.number,
                                     by |-> LocalUser])>>)
            /\ UNCHANGED <<members, title, log, removed>>
         \/ message.type = "join" /\ ~removed /\ ~isIn /\ Carries("joined", LocalUser, Info)
         \/ message.type = "leave" /\ isIn /\ Carries("left", LocalUser, done)
         \/ /\ message.type \in {"message", "name", "topic"} /\ isIn
            /\ Carries(message.type, LocalUser, done)
         \/ /\ message.type = "add" /\ isIn /\ message.user \notin members
            /\ Carries("added", message.user, done)
         \/ /\ message.type = "remove" /\ isIn /\ message.user \in members
            /\ Carries("removed", message.user, done)
         \/ /\ CASE message.type = "get" -> removed
                 [] message.type = "join" -> removed \/ isIn
                 [] message.type \in {"leave", "message", "name", "topic", "seen", "history"} ->
                      ~isIn
                 [] message.type = "add" -> ~isIn \/ message.user \in members
                 [] message.type = "remove" -> ~isIn \/ message.user \notin members
                 [] message.type = "removeChat" -> removed
            /\ Refuse /\ UNCHANGED removed
  /\ UNCHANGED <<room, connected, chats, requests, used>>

\* For want of a permission, say.
ServerRefuses ==
  /\ Changed /\ toServer # <<>>
  /\ toServer' = Tail(toServer)
  /\ Refuse
  /\ UNCHANGED <<room, connected, chats, requests, removed>>

\* Another user joins, leaves or sets the name (a message does less), or adds or removes the
\* local one.
OtherActs(u) ==
  /\ Changed
  /\ ~removed
  /\ \E what \in {"joined", "left", "name", "added", "removed"} :
       LET user == IF what \in {"added", "removed"} THEN LocalUser ELSE u
       IN  /\ (u \in members) = (what # "joined")
           /\ what = "added" => ~room /\ LocalUser \notin members
           /\ what = "removed" => LocalUser \in members
           /\ Happens(what, user, u)
           /\ toClient' = IF connected THEN toClient \o Told(Happening(what, user, u))
                          ELSE toClient
  /\ UNCHANGED <<room, connected, chats, requests, toServer, removed>>

\* Another user removes the chat: an event that _processEvent does nothing about.
ChatRemoved ==
  /\ Changed /\ ~removed
  /\ removed' = TRUE
  /\ toClient' = IF connected THEN toClient \o RemovalTold ELSE toClient
  /\ members' = {}
  /\ UNCHANGED <<room, connected, chats, requests, toServer, title, log, seen>>

----------------------------------------------------------------------------
Init ==
  /\ room \in BOOLEAN
  /\ connected = TRUE
  /\ chats = <<>> /\ requests = <<>>
  /\ toServer = <<>> /\ toClient = <<>>
  /\ members = OtherUser /\ title = [name |-> TRUE, topic |-> TRUE]
  /\ log = <<>> /\ seen = 0 /\ removed = FALSE
  /\ used = [calls |-> 0, changes |-> 0, drops |-> 0]

Next ==
  \/ Get \/ Join \/ Leave \/ Remove
  \/ \E i \in DOMAIN chats :
       \/ Send(i) \/ SetName(i) \/ SetTopic(i) \/ MarkSeen(i) \/ GetHistory(i)
       \/ \E user \in OtherUser : RemoveUser(i, user) \/ Add(i, user)
  \/ Drop \/ Connect
  \/ InfoReplied \/ Done \/ Refused \/ HistoryReplied \/ EventHeard
  \/ ServerReceives \/ ServerRefuses
  \/ \E u \in OtherUser : OtherActs(u)
  \/ ChatRemoved

Spec == Init /\ [][Next]_vars

----------------------------------------------------------------------------
Settled == connected /\ requests = <<>> /\ toServer = <<>> /\ toClient = <<>>

(***************************************************************************)
(* Once everything is delivered a chat found or joined by a member has the *)
(* members, the name, the topic and the last event the server has, and is  *)
(* joined; a room also over a lost connection: "you will automatically     *)
(* rejoin" (ChatRoom.ts, 29), unless the server refuses (_processEvent,    *)
(* _updateWithData).  Each object of a room is joined just when this       *)
(* session is in the room, by whichever of them it came to be.  And who    *)
(* reads the history of a channel instead comes to the same members, name  *)
(* and topic (getHistory, ChatHistoryEventMapper).  Apart from a chat that *)
(* has been removed, which stays as it was.                                *)
(***************************************************************************)
AsRead(chat) ==
  chat.history.upTo = chat.lastEventNumber =>
    chat.history.members = chat.members /\ chat.history.title = chat.title

FollowsChat ==
  Settled /\ ~removed =>
    /\ \A i \in DOMAIN chats : chats[i].follows =>
         /\ chats[i].joined
         /\ chats[i].members = members /\ chats[i].title = title
         /\ chats[i].lastEventNumber = LastEventNumber /\ chats[i].maxSeen = seen
         /\ ~room => AsRead(chats[i])
    /\ room => \A i \in DOMAIN chats : chats[i].joined <=> LocalUser \in members
=============================================================================
