----------------------------- MODULE References -----------------------------
(***************************************************************************)
(* The references of one open model, on the model itself and on one string *)
(* element of it: those of this session (LocalModelReference), those of    *)
(* others as they are shown here (RealTimeModel, ReferenceManager), and    *)
(* what becomes of both when the text is replaced, the element removed, a  *)
(* session closes or the connection drops.                                 *)
(*                                                                         *)
(* One key.  A reference on the model is to elements, here to the one      *)
(* there is.  Values on the element are not transformed, but that a        *)
(* reference has no place in a text that was replaced.                     *)
(***************************************************************************)
EXTENDS Integers, Sequences

CONSTANTS
  Me,          \* this session
  Other,       \* the other sessions
  Value,       \* what a reference on the element can be set to
  MaxCalls,    \* bound: calls of the application
  MaxChanges,  \* bound: what other sessions do
  MaxDrops     \* bound: how often the connection drops

VARIABLES
  phase,       \* the model is offline, resynchronised but not open again, or online
  sessions,    \* _sessions and _referencesBySession: where each has had references
  shown,       \* ReferenceManager: the references of others
  local,       \* ReferenceManager: the references of this session
  attached,    \* the element is in the model
  inFlight,    \* replacements of the text that are not acknowledged
  effective,   \* as many of the last of them are not transformed away
  heard,       \* how many replacements by others have been applied
  told,        \* history: what an application that follows the events takes them to be
  deaf,        \* a handler threw, which ends the subscription of ModelService
  early,       \* history: the text was replaced or removed while the model was being
               \* opened again
  removedHere, \* history: this session has removed the element
  toServer, toClient,
  there, references,  \* external: the sessions that have the model open, and what they share
  exists, replaced,   \* external: the element is there; replacements by others
  used         \* history: what of the bounds is used up

text == <<inFlight, effective, heard>>

own == <<early, removedHere>>

server == <<there, references, exists, replaced>>

vars == <<phase, sessions, shown, local, attached, text, told, deaf, own, toServer, toClient,
          server, used>>

Place == {"model", "element"}

Cleared == "cleared"

\* The value of a reference on the model to the element.
Element == "element"

ValuesOf(place) == IF place = "model" THEN {Element} ELSE Value

NoReference == "none"

NoLocal == [is |-> FALSE, shared |-> FALSE, published |-> FALSE, value |-> Cleared]

Called == used.calls < MaxCalls /\ used' = [used EXCEPT !.calls = @ + 1]

Changed == used.changes < MaxChanges /\ used' = [used EXCEPT !.changes = @ + 1]

----------------------------------------------------------------------------
(* Events about others, and an application that follows them *)

CollaboratorOpenedEvent(session) == [name |-> "collaborator_opened", session |-> session]

CollaboratorClosedEvent(session) == [name |-> "collaborator_closed", session |-> session]

\* An event about a reference comes with the value the listener finds.
RemoteReferenceCreatedEvent(place, session, value) ==
  [name |-> "reference", place |-> place, session |-> session, value |-> value]

ReferenceSetEvent(place, session, value) ==
  [name |-> "set", place |-> place, session |-> session, value |-> value]

ReferenceClearedEvent(place, session) ==
  [name |-> "cleared", place |-> place, session |-> session, value |-> Cleared]

ReferenceDisposedEvent(place, session) ==
  [name |-> "disposed", place |-> place, session |-> session, value |-> NoReference]

Sessions(name, events) == {event.session : event \in {e \in events : e.name = name}}

\* It listens to each reference it has been told of.
Hears(place, session, event) ==
  /\ event.name \in {"reference", "set", "cleared", "disposed"}
  /\ event.place = place /\ event.session = session
  /\ event.name = "reference" \/ told.references[place][session] # NoReference

\* The events of a step are about different sessions and references.
Emit(events) ==
  told' = [collaborators |->
             (told.collaborators \cup Sessions("collaborator_opened", events))
               \ Sessions("collaborator_closed", events),
           references |-> [p \in Place |-> [s \in Other |->
             LET of == {event \in events : Hears(p, s, event)}
             IN  IF of = {} THEN told.references[p][s]
                 ELSE (CHOOSE event \in of : TRUE).value]]]

\* _dispose of the references others have at a place.
Disposed(place, these) ==
  {ReferenceDisposedEvent(place, s) : s \in {s \in these : shown[place][s] # NoReference}}

\* ElementReference._handleElementRemoved
HandleElementRemoved(value) == IF value = Element THEN Cleared ELSE value

\* The element takes the references on it with it; of those to it nothing is left.
Detached(all) ==
  [all EXCEPT !["element"] = [s \in DOMAIN @ |-> NoReference],
              !["model"] = [s \in DOMAIN @ |-> HandleElementRemoved(@[s])]]

DetachedEvents ==
  Disposed("element", Other)
    \cup {ReferenceSetEvent("model", s, Cleared) : s \in {s \in Other : shown["model"][s] = Element}}

\* The same of the references of this session.
LocallyDetached ==
  [local EXCEPT !["element"] = NoLocal, !["model"].value = HandleElementRemoved(@)]

----------------------------------------------------------------------------
(* The references of this session *)

\* _sendEvents
SendEvents == phase \in {"upToDate", "online"}

Sent(messages) == IF SendEvents THEN toServer \o messages ELSE toServer

\* _onShareReference, with the value it has.
Shared(place) == <<[type |-> "share", place |-> place, value |-> local[place].value]>>

\* _onUnshareReference
Unshared(place) == <<[type |-> "unshare", place |-> place]>>

\* _onSetReference
ValueSet(place, value) == <<[type |-> "set", place |-> place, value |-> value]>>

\* _onClearReference
ValueCleared(place) == <<[type |-> "clear", place |-> place]>>

Removal == [type |-> "remove", place |-> "element"]

Replacement(n) == [type |-> "replace", heard |-> n]

\* _ensureAttached
EnsureAttached(place) == place = "model" \/ attached

\* A call that makes a local reference, when there is none.
Create(place) ==
  /\ Called /\ ~local[place].is
  /\ local' = [local EXCEPT ![place] = [NoLocal EXCEPT !.is = TRUE]]
  /\ UNCHANGED <<phase, sessions, shown, attached, text, told, deaf, own, toServer, toClient,
                 server>>

\* elementReference of the model
ElementReference == Create("model")

\* indexReference and rangeReference of the string
IndexReference == Create("element")

\* A call on a local reference that changes it and may tell the server.
Use(place, reference, messages) ==
  /\ Called /\ local[place].is /\ EnsureAttached(place)
  /\ local' = [local EXCEPT ![place] = reference]
  /\ toServer' = Sent(messages)
  /\ UNCHANGED <<phase, sessions, shown, attached, text, told, deaf, own, toClient, server>>

\* published: history: the server has been told on this connection.
Share(place) ==
  /\ ~local[place].shared
  /\ Use(place, [local[place] EXCEPT !.shared = TRUE, !.published = SendEvents],
         Shared(place))

Unshare(place) ==
  /\ local[place].shared
  /\ Use(place, [local[place] EXCEPT !.shared = FALSE, !.published = FALSE],
         Unshared(place))

Set(place, value) ==
  /\ value = Element => attached
  /\ Use(place, [local[place] EXCEPT !.value = value],
         IF local[place].shared THEN ValueSet(place, value) ELSE <<>>)

\* Also of one that is not shared the server is told.
Clear(place) ==
  Use(place, [local[place] EXCEPT !.value = Cleared], ValueCleared(place))

\* Slip: the server is not told.
DisposeSilently(place, isAttached) == <<>>

\* _dispose: what the server is told.
Dispose(place, isAttached) ==
  IF isAttached /\ local[place].shared THEN Unshared(place) ELSE <<>>

DisposeReference(place) == Use(place, NoLocal, Dispose(place, TRUE))

\* removeAll of the element's ReferenceManager, the server being told first of something.
\* The session keeps what was removed in its list, which does nothing more.
RemoveAll(messages) ==
  /\ local' = [local EXCEPT !["element"] = NoLocal]
  /\ shown' = [shown EXCEPT !["element"] = [s \in Other |-> NoReference]]
  /\ Emit(Disposed("element", Other))
  /\ toServer' = Sent(messages \o Dispose("element", TRUE))

\* The element is detached, with removeAll of its ReferenceManager; it is too late to tell
\* the server of the references that go.
Detach(messages) ==
  /\ attached' = FALSE
  /\ local' = LocallyDetached
  /\ shown' = Detached(shown)
  /\ Emit(DetachedEvents)
  /\ toServer' = Sent(messages \o Dispose("element", FALSE))

\* The application sets the value of the string.
ReplaceText ==
  /\ Called /\ attached
  /\ inFlight' = inFlight + 1 /\ effective' = effective + 1
  /\ RemoveAll(<<Replacement(heard)>>)
  /\ early' = (early \/ phase = "upToDate")
  /\ UNCHANGED <<removedHere, phase, sessions, attached, heard, deaf, toClient, server>>

\* The application removes the element, or a value it is in.
RemoveElement ==
  /\ Called /\ attached
  /\ Detach(<<Removal>>)
  /\ early' = (early \/ phase = "upToDate") /\ removedHere' = TRUE
  /\ UNCHANGED <<phase, sessions, text, deaf, toClient, server>>

----------------------------------------------------------------------------
(* What the server tells *)

Deliver(type) ==
  /\ ~deaf /\ toClient # <<>> /\ Head(toClient).type = type
  /\ toClient' = Tail(toClient)
  /\ UNCHANGED <<own, server, used>>

\* A handler throws: what it has changed until then does not matter any more.
Throw ==
  /\ deaf' = TRUE
  /\ UNCHANGED <<phase, sessions, shown, local, attached, text, told, toServer>>

\* _handleClientOpen
ClientOpen ==
  /\ Deliver("opened")
  /\ LET session == Head(toClient).session
     IN  /\ sessions' = [s \in DOMAIN sessions \cup {session} |->
                           IF s = session THEN {} ELSE sessions[s]]
         /\ Emit({CollaboratorOpenedEvent(session)})
  /\ UNCHANGED <<phase, shown, local, attached, text, deaf, toServer>>

\* Slip: a session that closes leaves its references.
KeepReferences(all, session, places) == all

\* Those of the session's list are disposed.
DisposeReferences(all, session, places) ==
  [p \in Place |-> IF p \in places THEN [all[p] EXCEPT ![session] = NoReference] ELSE all[p]]

\* _handleClientClosed
ClientClosed ==
  /\ Deliver("closed")
  /\ LET session == Head(toClient).session
     IN  IF session \in DOMAIN sessions
         THEN /\ sessions' = [s \in DOMAIN sessions \ {session} |-> sessions[s]]
              /\ shown' = DisposeReferences(shown, session, sessions[session])
              /\ Emit(UNION {Disposed(p, {session}) : p \in sessions[session]}
                        \cup {CollaboratorClosedEvent(session)})
              /\ UNCHANGED <<phase, local, attached, text, deaf, toServer>>
         ELSE Throw

\* An element that is gone cannot be looked up: NodeWrapperFactory.wrap throws for it, which
\* is where _handleRemoteReferenceEvent and ReferenceManager._setReferenceValues look.
RefersToWhatIsGone(event) ==
  ~attached /\ (event.place = "element" \/ event.value = Element)

\* _handleRemoteReferenceEvent
Event(type) == Deliver(type) /\ ~RefersToWhatIsGone(Head(toClient))

\* processRemoteReferenceSet leaves nothing of a value meant for a text that is replaced.
NoPlace == Head(toClient).place = "element" /\ effective > 0

\* A message changes a reference, which tells of it.
Show(event, value, events) ==
  /\ shown' = [shown EXCEPT ![event.place][event.session] = value]
  /\ Emit(events)
  /\ UNCHANGED <<phase, local, attached, text, deaf, toServer>>

\* _onRemoteReferenceShared
OnRemoteReferenceShared(event) ==
  /\ sessions' = [sessions EXCEPT ![event.session] = @ \cup {event.place}]
  /\ Show(event, event.value,
          {RemoteReferenceCreatedEvent(event.place, event.session, event.value)})

\* _set of a reference
SetReference(event) ==
  Show(event, event.value, {ReferenceSetEvent(event.place, event.session, event.value)})

\* _clear of a reference
ClearReference(event) ==
  Show(event, Cleared, {ReferenceClearedEvent(event.place, event.session)})

ReferenceShared ==
  /\ Event("shared")
  /\ LET event == Head(toClient)
         known == event.session \in DOMAIN sessions
     IN  IF NoPlace \/ ~known \/ shown[event.place][event.session] # NoReference
         THEN Throw
         ELSE OnRemoteReferenceShared(event)

ReferenceSet ==
  /\ Event("set")
  /\ LET event   == Head(toClient)
         present == shown[event.place][event.session] # NoReference
     IN  CASE present /\ ~NoPlace -> SetReference(event) /\ UNCHANGED sessions
           [] present /\ NoPlace -> Throw
           [] ~present /\ event.place = "model" -> Throw
           [] ~present /\ event.place = "element" -> Show(event, NoReference, {}) /\ UNCHANGED sessions

ReferenceCleared ==
  /\ Event("cleared")
  /\ LET event == Head(toClient)
     IN  IF shown[event.place][event.session] # NoReference
         THEN ClearReference(event) /\ UNCHANGED sessions
         ELSE Throw

\* A reference on the model stays in the session's list.
ReferenceUnshared ==
  /\ Event("unshared")
  /\ LET event == Head(toClient)
     IN  IF shown[event.place][event.session] # NoReference
         THEN /\ Show(event, NoReference, {ReferenceDisposedEvent(event.place, event.session)})
              /\ sessions' = [sessions EXCEPT
                   ![event.session] = IF event.place = "element" THEN @ \ {"element"} ELSE @]
         ELSE Throw

EventThrows ==
  /\ toClient # <<>> /\ Head(toClient).type \in {"shared", "set", "cleared", "unshared"}
  /\ Deliver(Head(toClient).type)
  /\ RefersToWhatIsGone(Head(toClient))
  /\ Throw

\* Another session's operations.  They win over replacements in flight.
TextReplaced ==
  /\ Deliver("replaced")
  /\ heard' = heard + 1 /\ effective' = 0
  /\ IF attached THEN RemoveAll(<<>>) ELSE UNCHANGED <<local, shown, told, toServer>>
  /\ UNCHANGED <<phase, sessions, attached, inFlight, deaf>>

ElementRemoved ==
  /\ Deliver("removed")
  /\ IF attached THEN Detach(<<>>) ELSE UNCHANGED <<attached, local, shown, told, toServer>>
  /\ UNCHANGED <<phase, sessions, text, deaf>>

AtMost(n, most) == IF n < most THEN n ELSE most

Acknowledged ==
  /\ Deliver("ack")
  /\ inFlight' = inFlight - 1 /\ effective' = AtMost(effective, inFlight - 1)
  /\ UNCHANGED <<phase, sessions, shown, local, attached, heard, told, deaf, toServer>>

----------------------------------------------------------------------------
(* The connection *)

NoSessions == [s \in {} |-> {}]

NothingShown == [p \in Place |-> [s \in Other |-> NoReference]]

\* Slip: the references stay when the model goes offline.
SetOfflineOnly == sessions' = NoSessions /\ UNCHANGED <<shown, told>>

\* _setOffline: every session closes.
SetOffline ==
  /\ sessions' = NoSessions
  /\ shown' = [p \in Place |-> [s \in Other |->
                 IF s \in DOMAIN sessions /\ p \in sessions[s] THEN NoReference ELSE shown[p][s]]]
  /\ Emit(UNION {Disposed(p, {s \in DOMAIN sessions : p \in sessions[s]}) : p \in Place}
            \cup {CollaboratorClosedEvent(s) : s \in DOMAIN sessions})

\* What the server had got will be acknowledged in the resynchronisation.
Drop ==
  /\ phase # "offline" /\ used.drops < MaxDrops
  /\ phase' = "offline"
  /\ SetOffline
  /\ LET lost == SelectSeq(toServer, LAMBDA m : m.type = "replace")
     IN  inFlight' = Len(lost) /\ effective' = AtMost(effective, Len(lost))
  /\ local' = [p \in Place |-> [local[p] EXCEPT !.published = FALSE]]
  /\ early' = FALSE
  /\ toServer' = <<>> /\ toClient' = <<>>
  /\ there' = there \ {Me}
  /\ references' = [p \in Place |-> [references[p] EXCEPT ![Me] = NoReference]]
  /\ used' = [used EXCEPT !.drops = @ + 1]
  /\ UNCHANGED <<attached, heard, deaf, removedHere, exists, replaced>>

\* The connection is back and the operations missed have been applied:
\* _checkForReconnectUpToDate sends again what is in flight and asks for completion.
CheckForReconnectUpToDate ==
  LET removed == attached /\ ~exists
      void    == IF heard < replaced THEN inFlight ELSE inFlight - effective
  IN  /\ phase = "offline" /\ ~deaf
      /\ phase' = "upToDate"
      /\ attached' = (attached /\ exists)
      /\ effective' = inFlight - void /\ heard' = replaced
      /\ CASE removed -> local' = LocallyDetached /\ shown' = Detached(shown) /\ Emit(DetachedEvents)
           [] attached /\ ~removed /\ heard < replaced ->
                /\ local' = [local EXCEPT !["element"] = NoLocal]
                /\ shown' = [shown EXCEPT !["element"] = [s \in Other |-> NoReference]]
                /\ Emit(Disposed("element", Other))
           [] OTHER -> UNCHANGED <<local, shown, told>>
      /\ toServer' = [i \in 1..inFlight |-> Replacement(IF i <= void THEN -1 ELSE replaced)]
                       \o (IF ~attached /\ exists THEN <<Removal>> ELSE <<>>)
                       \o <<[type |-> "complete"]>>
      /\ UNCHANGED <<sessions, inFlight, deaf, own, toClient, server, used>>

\* _initializeReferences, which knows of nothing in flight.
InitializeReferences(message, given) ==
  /\ sessions' = [s \in message.sessions |-> {p \in Place : <<p, s>> \in given}]
  /\ shown' = [p \in Place |-> [s \in Other |->
                 IF <<p, s>> \in given THEN message.references[p][s] ELSE shown[p][s]]]
  /\ Emit({CollaboratorOpenedEvent(s) : s \in message.sessions} \cup
            {RemoteReferenceCreatedEvent(p, s, message.references[p][s]) : <<p, s>> \in given})

\* _handleModelResyncServerComplete, which throws for an element that is gone.  reShare
\* shares nothing: what is shared is not shared again.
ResyncServerComplete ==
  /\ Deliver("completed")
  /\ LET message == Head(toClient)
         given   == {<<p, s>> \in Place \X Other : message.references[p][s] # NoReference}
     IN  IF \E <<p, s>> \in given :
              \/ shown[p][s] # NoReference
              \/ RefersToWhatIsGone([place |-> p, value |-> message.references[p][s]])
         THEN Throw
         ELSE /\ phase' = "online"
              /\ InitializeReferences(message, given)
              /\ UNCHANGED <<local, attached, text, deaf, toServer>>

----------------------------------------------------------------------------
(* The server and the other sessions (external) *)

Notify(message) == toClient' = IF Me \in there THEN Append(toClient, message) ELSE toClient

\* Operations are also sent to a session that resynchronises.
NotifyOperation(message) ==
  toClient' = IF phase = "offline" THEN toClient ELSE Append(toClient, message)

\* What is on the element goes with its text; of what is gone nothing is kept.
Forget(all) == [all EXCEPT !["element"] = [s \in Other \cup {Me} |-> NoReference]]

Held(value) == IF exists THEN value ELSE HandleElementRemoved(value)

Keeps(place) == place = "model" \/ exists

Effect(message) ==
  CASE message.type = "share" /\ Keeps(message.place) ->
         [references EXCEPT ![message.place][Me] = Held(message.value)]
    [] message.type = "set" /\ references[message.place][Me] # NoReference ->
         [references EXCEPT ![message.place][Me] = Held(message.value)]
    [] message.type = "clear" /\ references[message.place][Me] # NoReference ->
         [references EXCEPT ![message.place][Me] = Cleared]
    [] message.type = "unshare" -> [references EXCEPT ![message.place][Me] = NoReference]
    [] message.type = "remove" -> Detached(references)
    [] message.type = "replace" /\ message.heard = replaced -> Forget(references)
    [] OTHER -> references

ServerReceives ==
  /\ toServer # <<>>
  /\ toServer' = Tail(toServer)
  /\ LET message == Head(toServer)
     IN  /\ references' = Effect(message)
         /\ exists' = (exists /\ message.type # "remove")
         /\ there' = IF message.type = "complete" THEN there \cup {Me} ELSE there
         /\ toClient' = CASE message.type = "replace" -> Append(toClient, [type |-> "ack"])
                          [] message.type = "complete" ->
                               Append(toClient, [type |-> "completed", sessions |-> there,
                                                 references |-> references])
                          [] OTHER -> toClient
  /\ UNCHANGED <<phase, sessions, shown, local, attached, text, told, deaf, own, replaced,
                 used>>

OtherAct ==
  /\ Changed
  /\ UNCHANGED <<phase, sessions, shown, local, attached, text, told, deaf, own, toServer>>

OtherOpens(s) ==
  /\ OtherAct /\ s \notin there
  /\ there' = there \cup {s}
  /\ Notify([type |-> "opened", session |-> s])
  /\ UNCHANGED <<references, exists, replaced>>

OtherCloses(s) ==
  /\ OtherAct /\ s \in there
  /\ there' = there \ {s}
  /\ references' = [p \in Place |-> [references[p] EXCEPT ![s] = NoReference]]
  /\ Notify([type |-> "closed", session |-> s])
  /\ UNCHANGED <<exists, replaced>>

OtherRefers(s, place, type, value) ==
  /\ OtherAct /\ s \in there /\ Keeps(place)
  /\ (references[place][s] = NoReference) <=> (type = "shared")
  /\ references' = [references EXCEPT ![place][s] = value]
  /\ Notify([type |-> type, place |-> place, session |-> s, value |-> value])
  /\ UNCHANGED <<there, exists, replaced>>

OtherReplaces ==
  /\ OtherAct /\ exists
  /\ replaced' = replaced + 1
  /\ references' = Forget(references)
  /\ NotifyOperation([type |-> "replaced"])
  /\ UNCHANGED <<there, exists>>

OtherRemoves ==
  /\ OtherAct /\ exists
  /\ exists' = FALSE
  /\ references' = Detached(references)
  /\ NotifyOperation([type |-> "removed"])
  /\ UNCHANGED <<there, replaced>>

----------------------------------------------------------------------------
\* The model has just been opened.
Init ==
  /\ phase = "online" /\ attached = TRUE
  /\ \E others \in SUBSET Other :
       /\ there = others \cup {Me}
       /\ references \in [Place -> [Other \cup {Me} -> Value \cup {Element, NoReference}]]
       /\ \A p \in Place, s \in others : references[p][s] \in ValuesOf(p) \cup {NoReference}
       /\ \A p \in Place, s \in (Other \ others) \cup {Me} : references[p][s] = NoReference
       /\ sessions = [s \in others |-> {p \in Place : references[p][s] # NoReference}]
  /\ shown = [p \in Place |-> [s \in Other |-> references[p][s]]]
  /\ local = [p \in Place |-> NoLocal]
  /\ inFlight = 0 /\ effective = 0 /\ heard = 0
  /\ told = [collaborators |-> DOMAIN sessions, references |-> shown]
  /\ deaf = FALSE /\ early = FALSE /\ removedHere = FALSE
  /\ toServer = <<>> /\ toClient = <<>>
  /\ exists = TRUE /\ replaced = 0
  /\ used = [calls |-> 0, changes |-> 0, drops |-> 0]

Next ==
  \/ ElementReference \/ IndexReference
  \/ \E p \in Place :
       \/ Share(p) \/ Unshare(p) \/ Clear(p) \/ DisposeReference(p)
       \/ \E value \in ValuesOf(p) : Set(p, value)
  \/ ReplaceText \/ RemoveElement
  \/ ClientOpen \/ ClientClosed
  \/ ReferenceShared \/ ReferenceSet \/ ReferenceCleared \/ ReferenceUnshared \/ EventThrows
  \/ TextReplaced \/ ElementRemoved \/ Acknowledged
  \/ Drop \/ CheckForReconnectUpToDate \/ ResyncServerComplete
  \/ ServerReceives
  \/ \E s \in Other :
       \/ OtherOpens(s) \/ OtherCloses(s)
       \/ \E p \in Place :
            \/ \E type \in {"shared", "set"}, value \in ValuesOf(p) :
                 OtherRefers(s, p, type, Held(value))
            \/ OtherRefers(s, p, "cleared", Cleared)
            \/ OtherRefers(s, p, "unshared", NoReference)
  \/ OtherReplaces \/ OtherRemoves

Spec == Init /\ [][Next]_vars

----------------------------------------------------------------------------
Settled == phase = "online" /\ toServer = <<>> /\ toClient = <<>>

(***************************************************************************)
(* Once everything is delivered the references that are shown are those    *)
(* that sessions which have the model open share, with their values, after *)
(* sessions came and went, the text was replaced, the element removed or   *)
(* the connection lost (_handleRemoteReferenceEvent, _handleClientClosed,  *)
(* _setOffline, _initializeReferences); unless a handler threw, or the     *)
(* element was changed while the model was being opened again.  And until  *)
(* a handler throws an application that follows the events knows of the    *)
(* sessions and references there are to be seen (CollaboratorOpenedEvent,  *)
(* RemoteReferenceCreatedEvent, the events of a reference).                *)
(***************************************************************************)
ShowsReferences ==
  /\ Settled /\ ~deaf /\ ~early =>
       /\ DOMAIN sessions = there \ {Me}
       /\ \A p \in Place, s \in Other : shown[p][s] = references[p][s]
  /\ ~deaf => told = [collaborators |-> DOMAIN sessions, references |-> shown]

(***************************************************************************)
(* Once everything is delivered the server has those references of this    *)
(* session that were shared on this connection, with the values they have  *)
(* here, and no other: one that is disposed, by the application or with    *)
(* the text it refers to, is withdrawn (LocalModelReference._dispose,      *)
(* ReferenceManager.removeAll, the callbacks of RealTimeModel).            *)
(***************************************************************************)
PublishesReferences ==
  Settled /\ ~deaf =>
    \A p \in Place :
      EnsureAttached(p) =>
        references[p][Me] = IF local[p].published THEN local[p].value ELSE NoReference

(***************************************************************************)
(* A handler of an event throws only where it meets an edit of this        *)
(* session: a replacement of the text that is under way, the element that  *)
(* it removed, or a change while the model was being opened again.  Never  *)
(* for sessions and references that come and go otherwise, nor for what    *)
(* others edit, whatever the connection does.                              *)
(***************************************************************************)
ThrowsOverOwnEdit == deaf' /\ ~deaf => inFlight > 0 \/ early \/ removedHere

ThrowsOnlyOverOwnEdits == [][ThrowsOverOwnEdit]_vars
=============================================================================
