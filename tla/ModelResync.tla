---------------------------- MODULE ModelResync ----------------------------
(***************************************************************************)
(* One open RealTimeModel over connections that come and go: it goes       *)
(* offline, is edited, comes back, is created at the server if that does   *)
(* not know it, asks to be resynchronised, catches up with the history it  *)
(* missed, sends its own operations again, and is closed by the            *)
(* application, by the server or over an error.                            *)
(*                                                                         *)
(* What operations do to data and to one another is ModelCollaboration's   *)
(* matter: here an operation is opaque, and only versions count, which     *)
(* are those of the code, as are sequence numbers.                         *)
(*                                                                         *)
(* An action is one task of the event loop: a message or a call, with all  *)
(* it leads to.  "tasks" are the continuations that wait, for the store or *)
(* for a reply; one that waits for a reply on an earlier connection ends   *)
(* with the timeout of its request, at any later time.  It may be a        *)
(* resynchronisation on a later connection that this ends: then the next   *)
(* that the server completes makes the service deaf.                       *)
(***************************************************************************)
EXTENDS Integers, Sequences, FiniteSets, Operation

CC == INSTANCE ClientConcurrencyControl WITH Transform <- OperationPair

CONSTANTS
  MaxOperations, \* bound: the operations of this client and of others
  MaxDrops,      \* bound: how often the connection drops
  MaxRefusals    \* bound: requests the server refuses, models it closes by force

ASSUME ResyncAssumption == {MaxOperations, MaxDrops, MaxRefusals} \subseteq Nat

VARIABLES
  client,    \* the model, its concurrency control, its connection and what it tells
  toServer, toClient,  \* messages on the connection
  server,    \* external: what the server holds of the model and of this client
  faults,
  deaf       \* a handler threw: ModelService hears no further message, for good

vars == <<client, toServer, toClient, server, faults, deaf>>

Unknown == -1

(***************************************************************************)
(* A method is an operator on the client.  sent: what it has sent so far.  *)
(* threw: the rest of the handler is skipped.                              *)
(***************************************************************************)
Becomes(c) ==
  \E d \in {c} : /\ client' = [d EXCEPT !.sent = <<>>, !.threw = FALSE]
                 /\ toServer' = toServer \o d.sent

Throws(c) == [c EXCEPT !.threw = TRUE]

\* A closed model has no connection: to use it throws.
Send(c, type, number, version) ==
  IF c.open
  THEN [c EXCEPT !.sent = Append(@, [type |-> type, number |-> number, version |-> version,
                                     resource |-> c.resource])]
  ELSE Throws(c)

\* since: the connection on which what the task belongs to began.
Waits(c, step, since, at) ==
  [c EXCEPT !.tasks = @ \cup {[step |-> step, since |-> since, at |-> at]}]

Request(c, step, since, version) ==
  Send(Waits(c, step, since, c.epoch), step, since, version)

\* IResyncData, or none.  A reconnectVersion that is undefined is Unknown.
Resyncing(c, on) ==
  [c EXCEPT !.resync = on, !.reconnectVersion = Unknown, !.buffered = <<>>,
            !.completed = FALSE, !.upToDate = FALSE, !.openAfterComplete = FALSE]

----------------------------------------------------------------------------
(* Events of the model's state.  Errors are heard of, but say nothing of   *)
(* it.  late: it is told of while the model is offline.                    *)

EmitState(c, name) == [c EXCEPT !.told = name, !.late = c.offline /\ name # "offline"]

EmitVersionChanged(c) == [c EXCEPT !.toldVersion = c.cc.contextVersion]

EmitClosed(c) == [c EXCEPT !.toldClosed = TRUE]

----------------------------------------------------------------------------
(* Closing *)

\* A model that closes after resynchronisation has no event to tell of it.
Close(c) ==
  LET closed == [c EXCEPT !.open = FALSE, !.closing = FALSE, !.resource = 0]
  IN  IF c.event THEN EmitClosed(closed) ELSE closed

CheckIfCanClose(c) ==
  IF /\ c.closing /\ ~c.waitingForServer
     /\ CC!IsCommitted(c.cc) \/ ~c.up
  THEN Close(c) ELSE c

\* Slip: left to the acknowledgements, which may all have come.
ClosedWithServerQuietly(c) == [c EXCEPT !.waitingForServer = FALSE]

ClosedWithServer(c) == CheckIfCanClose([c EXCEPT !.waitingForServer = FALSE])

\* Called of a model that is not closing.
InitiateClose(c, closeWithServer, event) ==
  LET closing == [c EXCEPT !.closing = TRUE, !.event = event]
  IN  CASE ~c.open -> Throws(closing)
        [] c.open /\ c.up /\ closeWithServer ->
             Request([closing EXCEPT !.waitingForServer = TRUE], "close", c.epoch, 0)
        [] OTHER -> CheckIfCanClose(closing)

\* _initiateClose throws when the model is closing already; telling of the error does when
\* it is closed.
HandleConcurrencyControlError(c) ==
  IF c.closing \/ ~c.open THEN [c EXCEPT !.failed = TRUE, !.threw = TRUE]
  ELSE InitiateClose([c EXCEPT !.failed = TRUE], TRUE, TRUE)

\* Closing, or about to once resynchronised (_mustCloseAfterResync).
IsClosing(c) == c.closing \/ (c.resync /\ c.completed /\ ~c.openAfterComplete)

----------------------------------------------------------------------------
(* Operations *)

\* Slip: operations are sent although the history is not applied yet.
SendWhileCatchingUp(c) == c.up /\ ~c.offline

\* Slip: nothing is sent before the server has confirmed.
SendOnlyOnceOnline(c) == c.up /\ ~c.offline /\ ~c.resync

SendEvents(c) == c.up /\ ~c.offline /\ (c.resync => c.upToDate)

\* A closed model has no connection to ask.
SendOperation(c, event) ==
  IF SendEvents(c) \/ ~c.open THEN Send(c, "op", event.seqNo, event.contextVersion) ELSE c

HandleOperationAck(c, version, seqNo) ==
  IF CC!AcknowledgementAccepted(c.cc, version, seqNo)
  THEN EmitVersionChanged(CheckIfCanClose([c EXCEPT !.cc = CC!ProcessAcknowledgement(c.cc)]))
  ELSE HandleConcurrencyControlError(
         [c EXCEPT !.cc = CC!RefuseAcknowledgement(c.cc, version)])

\* Slip: the version is told before the operation is taken.
TellsVersionFirst(c, event) ==
  IF CC!RemoteOperationAccepted(c.cc, event)
  THEN [EmitVersionChanged(c) EXCEPT
          !.cc = CC!TakeNextIncomingOperation(CC!ProcessRemoteOperation(c.cc, event))]
  ELSE HandleConcurrencyControlError(c)

ProcessServerOperationEvent(c, event) ==
  IF CC!RemoteOperationAccepted(c.cc, event)
  THEN EmitVersionChanged(
         [c EXCEPT !.cc = CC!TakeNextIncomingOperation(CC!ProcessRemoteOperation(c.cc, event))])
  ELSE HandleConcurrencyControlError(c)

ProcessRemoteOperation(c, message) ==
  ProcessServerOperationEvent(c, CC!ServerOperationEvent(message.session, message.version, <<>>))

----------------------------------------------------------------------------
(* Resynchronisation *)

\* Slip: the operations in flight are sent again, but for the last.
ResendButLast(c) ==
  LET resend == c.cc.inflightOperations
      sent[i \in 0 .. Len(resend)] ==
        IF i = 0 THEN c ELSE IF i = Len(resend) THEN sent[i - 1]
        ELSE SendOperation(sent[i - 1], resend[i])
  IN  sent[Len(resend)]

Resend(c) ==
  LET resend == c.cc.inflightOperations
      sent[i \in 0 .. Len(resend)] ==
        IF i = 0 THEN c ELSE SendOperation(sent[i - 1], resend[i])
  IN  sent[Len(resend)]

CompleteResynchronization(c) ==
  Send([c EXCEPT !.completed = TRUE, !.openAfterComplete = ~c.resyncOnly],
       "complete", 0, IF c.resyncOnly THEN 0 ELSE 1)

ProcessBuffered(c) ==
  LET processed[i \in 0 .. Len(c.buffered)] ==
        IF i = 0 THEN c
        ELSE IF processed[i - 1].threw THEN processed[i - 1]
        ELSE ProcessRemoteOperation(processed[i - 1], c.buffered[i])
  IN  processed[Len(c.buffered)]

UpToDate(c) ==
  LET processed == ProcessBuffered([c EXCEPT !.upToDate = TRUE])
  IN  IF processed.threw THEN processed ELSE CompleteResynchronization(Resend(processed))

CheckForReconnectUpToDate(c) ==
  IF c.resync /\ ~c.upToDate /\ ~c.threw /\ c.reconnectVersion = c.cc.contextVersion
  THEN UpToDate(c) ELSE c

IsNew(c, version) == c.reconnectVersion # Unknown /\ version > c.reconnectVersion

\* The session id tells this client's operations from those of others.
IsOwn(c, message) ==
  /\ CC!HasInflightOperation(c.cc)
  /\ Head(c.cc.inflightOperations).sessionId = message.session

\* The acknowledgement made up for an own operation has no sequence number: 0.
HandleRemoteOperation(c, message) ==
  CASE ~c.resync \/ c.upToDate -> ProcessRemoteOperation(c, message)
    [] c.resync /\ ~c.upToDate /\ IsNew(c, message.version) ->
         [c EXCEPT !.buffered = Append(@, message)]
    [] OTHER ->
         CheckForReconnectUpToDate(
           IF IsOwn(c, message) THEN HandleOperationAck(c, message.version, 0)
           ELSE ProcessRemoteOperation(c, message))

\* ModelService._resyncError, which throws, to no one, if there is no entry.
ResyncError(c) == [c EXCEPT !.entry = FALSE]

\* It tells of reconnecting whether there is a connection or not: without one, or once
\* closed, the request fails.
Resynchronize(c, since) ==
  LET told == EmitState(c, "reconnecting")
  IN  IF c.up /\ c.open THEN Request(told, "resync", since, c.cc.contextVersion)
      ELSE ResyncError(told)

SetOnline(c) ==
  IF c.local THEN Waits(c, "read", c.epoch, c.epoch) ELSE Resynchronize(c, c.epoch)

\* Slip: waits for history though there may be none.
AwaitHistory(c, message) ==
  IF ~c.resync THEN ResyncError(c)
  ELSE [c EXCEPT !.reconnectVersion = message.version, !.resource = message.resource]

\* Whatever throws, as it does without the data of a resynchronisation, ends in the catch.
HandleResyncResponse(c, message) ==
  LET started == EmitState(c, "resync_started")
      checked == CheckForReconnectUpToDate(
                   [started EXCEPT !.reconnectVersion = message.version,
                                   !.resource = message.resource])
  IN  CASE ~c.resync -> ResyncError(started)
        [] c.resync /\ checked.threw -> ResyncError(checked)
        [] OTHER -> checked

\* Without an entry _resyncCompleted throws, and the model is neither opened nor closed;
\* _initiateClose throws when the model is closing already.
HandleModelResyncServerComplete(c) ==
  LET done == [EmitState(Resyncing(c, FALSE), "resync_completed") EXCEPT !.entry = FALSE]
  IN  CASE ~c.entry -> Throws(done)
        [] c.entry /\ c.openAfterComplete /\ ~c.resyncOnly -> EmitState(done, "online")
        [] OTHER ->
             IF c.closing THEN Throws(done) ELSE InitiateClose(done, c.openAfterComplete, FALSE)

\* The server's MODEL_ALREADY_EXISTS, alone, tells the fingerprint of the model it has:
\* here always that of a creation of this client whose reply was lost.
SameFingerprint(error) == error = "exists"

\* _handleCreationErrorOnResync: whether the creation counts as done nevertheless.
Forgives(error) == error # "exists" /\ SameFingerprint(error)

Created(c, since) == Waits([c EXCEPT !.local = FALSE], "store", since, c.epoch)

----------------------------------------------------------------------------
(* The application *)

Issued(c) == SendOperation(c, c.cc.inflightOperations[Len(c.cc.inflightOperations)])

\* A model that is closing can still be edited.
Edit ==
  /\ client.open
  /\ client.cc.lastSequenceNumber + server.foreign < MaxOperations
  /\ Becomes(Issued([client EXCEPT
       !.cc = CC!ProcessOutgoingOperation(client.cc, client.session, "edit")]))
  /\ UNCHANGED <<toClient, server, faults, deaf>>

CloseModel ==
  /\ client.open /\ ~client.closing
  /\ Becomes(IF client.resync THEN [client EXCEPT !.resyncOnly = TRUE]
             ELSE InitiateClose(client, TRUE, TRUE))
  /\ UNCHANGED <<toClient, server, faults, deaf>>

----------------------------------------------------------------------------
(* The connection, and what ModelService tells the model of it *)

SetOffline(c) ==
  LET offline == EmitState([Resyncing(c, FALSE) EXCEPT !.offline = TRUE, !.resource = 0],
                           "offline")
  IN  IF c.closing THEN Close(offline) ELSE offline

\* Its closing request times out to no effect: the model has closed.
Dropped(c) ==
  [SetOffline([c EXCEPT !.up = FALSE]) EXCEPT
     !.entry = FALSE, !.tasks = {task \in c.tasks : task.step # "close"}]

\* Once the model is closed, what happens to the connection no longer matters.
Drop ==
  /\ client.up /\ client.open
  /\ client.epoch <= MaxDrops
  /\ client' = Dropped(client)
  /\ toServer' = <<>> /\ toClient' = <<>>
  /\ server' = [server EXCEPT !.phase = "absent"]
  /\ UNCHANGED <<faults, deaf>>

\* ModelService._resyncOpenModel
ResyncOpenModel(c) ==
  SetOnline([Resyncing(c, TRUE) EXCEPT !.entry = TRUE, !.offline = FALSE])

Reconnect ==
  /\ ~client.up /\ client.open
  /\ Becomes(ResyncOpenModel([client EXCEPT
       !.up = TRUE, !.epoch = @ + 1, !.session = IF client.keeps THEN @ ELSE @ + 1]))
  /\ UNCHANGED <<toClient, server, faults, deaf>>

----------------------------------------------------------------------------
(* Continuations of a task that waits for the store, or whose request failed *)

Ends(task) == [client EXCEPT !.tasks = @ \ {task}]

\* ModelService asks for the creation, whether the model is still open or not.  Offline it
\* would store the creation, which fails: the store has the model.
Read(task) ==
  /\ task.step = "read"
  /\ client' = Waits(Ends(task), "create", task.since, client.epoch)
  /\ toServer' = IF client.up
                 THEN Append(toServer, [type |-> "create", number |-> task.since,
                                        version |-> 0, resource |-> 0])
                 ELSE toServer

Stored(task) ==
  /\ task.step = "store"
  /\ Becomes(Resynchronize(Ends(task), task.since))

\* Requests of an earlier connection time out.
TimesOut(task) ==
  /\ task.step \in {"create", "resync"}
  /\ ~client.up \/ task.at < client.epoch
  /\ Becomes(ResyncError(Ends(task)))

TaskProceeds ==
  /\ \E task \in client.tasks : Read(task) \/ Stored(task) \/ TimesOut(task)
  /\ UNCHANGED <<toClient, server, faults, deaf>>

----------------------------------------------------------------------------
(* The server.  It gives the model a resource each time it resynchronises  *)
(* it, and takes only what is said of the present one.                     *)

Version == Len(server.log) + 1

Knows == server.phase \in {"resync", "open"}

IsOfResource(message) == Knows /\ message.resource = server.resource

Remote(i) == [type |-> "remote", session |-> server.log[i].session, version |-> i,
              resource |-> server.resource]

Answer(message, answer, version, resource) ==
  [type |-> answer, step |-> message.type, number |-> message.number, version |-> version,
   resource |-> resource]

Create(message) ==
  /\ toClient' = Append(toClient, Answer(message, IF server.exists THEN "exists" ELSE "reply", 0, 0))
  /\ server' = [server EXCEPT !.exists = TRUE]

\* It does not resynchronise what it knows already.  reopened: it did so although it had
\* closed the model by force on this very connection.
StartResync(message) ==
  IF Knows \/ ~server.exists
  THEN /\ toClient' = Append(toClient, Answer(message, "refusal", 0, 0))
       /\ UNCHANGED server
  ELSE /\ server' = [server EXCEPT !.phase = "resync", !.since = Version, !.resource = @ + 1,
                                   !.reopened = @ \/ server.phase = "closed"]
       /\ toClient' = Append(toClient, Answer(message, "reply", Version, server.resource + 1))
                        \o [i \in 1 .. Version - message.version |->
                              [Remote(message.version + i - 1) EXCEPT !.resource = @ + 1]]

TakeOperation(message) ==
  IF IsOfResource(message)
  THEN /\ toClient' = Append(toClient, [type |-> "ack", number |-> message.number,
                                        version |-> Version, resource |-> server.resource])
       /\ server' = [server EXCEPT !.log =
                       Append(@, [session |-> client.session, edit |-> message.number])]
  ELSE UNCHANGED <<toClient, server>>

EndResync(message) ==
  IF IsOfResource(message)
  THEN /\ toClient' = Append(toClient, [type |-> "serverComplete", resource |-> server.resource])
       /\ server' = [server EXCEPT !.phase = IF message.version = 1 THEN "open" ELSE "absent"]
  ELSE UNCHANGED <<toClient, server>>

TakeClose(message) ==
  /\ toClient' = Append(toClient, Answer(message, "reply", 0, 0))
  /\ server' = [server EXCEPT !.phase = IF IsOfResource(message) THEN "absent" ELSE @]

Serves(message) ==
  \/ message.type = "create" /\ Create(message)
  \/ message.type = "resync" /\ StartResync(message)
  \/ message.type = "op" /\ TakeOperation(message)
  \/ message.type = "complete" /\ EndResync(message)
  \/ message.type = "close" /\ TakeClose(message)

ServerReceives ==
  /\ toServer # <<>>
  /\ Serves(Head(toServer))
  /\ toServer' = Tail(toServer)
  /\ UNCHANGED <<client, faults, deaf>>

ServerRefuses ==
  /\ faults < MaxRefusals
  /\ toServer # <<>>
  /\ Head(toServer).type \in {"create", "resync", "close"}
  /\ toClient' = Append(toClient, Answer(Head(toServer), "refusal", 0, 0))
  /\ toServer' = Tail(toServer)
  /\ faults' = faults + 1
  /\ UNCHANGED <<client, server, deaf>>

\* Of the messages on their way, those of the history the client asked for.
IsHistory(message) ==
  message.type = "remote" /\ message.resource = server.resource /\ message.version < server.since

IsLive(message) ==
  /\ message.type \in {"remote", "ack"} /\ message.resource = server.resource
  /\ message.version >= server.since

Inserted(messages, n, message) ==
  [i \in 1 .. Len(messages) + 1 |->
     IF i < n THEN messages[i] ELSE IF i = n THEN message ELSE messages[i - 1]]

\* What is new keeps its order, but may overtake the history.
Delivered(message) ==
  \/ toClient' = Append(toClient, message)
  \/ \E n \in DOMAIN toClient :
       /\ IsHistory(toClient[n])
       /\ \A i \in DOMAIN toClient : (IsHistory(toClient[i]) => n <= i)
                                     /\ (IsLive(toClient[i]) => i < n)
       /\ toClient' = Inserted(toClient, n, message)

OtherEdits ==
  /\ server.exists /\ client.open
  /\ client.cc.lastSequenceNumber + server.foreign < MaxOperations
  /\ server' = [server EXCEPT !.log = Append(@, [session |-> 0, edit |-> 0]),
                              !.foreign = @ + 1]
  /\ IF Knows THEN Delivered([type |-> "remote", session |-> 0, version |-> Version,
                              resource |-> server.resource])
     ELSE UNCHANGED toClient
  /\ UNCHANGED <<client, toServer, faults, deaf>>

ForceClose ==
  /\ Knows
  /\ faults < MaxRefusals
  /\ server' = [server EXCEPT !.phase = "closed"]
  /\ toClient' = Append(toClient, [type |-> "forceClose", resource |-> server.resource])
  /\ faults' = faults + 1
  /\ UNCHANGED <<client, toServer, deaf>>

----------------------------------------------------------------------------
(* Messages *)

HandleForceClose(c) == IF IsClosing(c) THEN c ELSE InitiateClose(c, FALSE, TRUE)

\* Messages to a resource that is not registered, or whose model is neither open nor being
\* resynchronised, are dropped (ModelService._getModelForResourceId).
Handle(c, message) ==
  CASE message.resource # c.resource \/ ~(c.open \/ c.entry) -> c
    [] OTHER ->
       CASE message.type = "remote"     -> HandleRemoteOperation(c, message)
         [] message.type = "ack"        -> HandleOperationAck(c, message.version, message.number)
         [] message.type = "forceClose" -> HandleForceClose(c)
         [] message.type = "serverComplete" ->
              IF c.resync THEN HandleModelResyncServerComplete(c) ELSE c

Replied(c, task, message) ==
  CASE task.step = "create" ->
         IF message.type = "reply" \/ Forgives(message.type)
         THEN Created(c, task.since) ELSE ResyncError(c)
    [] task.step = "resync" ->
         IF message.type = "reply" THEN HandleResyncResponse(c, message) ELSE ResyncError(c)
    [] task.step = "close" ->
         IF message.type = "reply" THEN ClosedWithServer(c) ELSE c

Asked(message) ==
  {task \in client.tasks : task.step = message.step /\ task.since = message.number
                           /\ task.at = client.epoch}

IsAnswer(message) == message.type \in {"reply", "exists", "refusal"}

\* What throws in the continuation of a request is caught there.
TakeAnswer(message) ==
  /\ \E task \in Asked(message) : Becomes(Replied(Ends(task), task, message))
  /\ UNCHANGED deaf

\* What throws in the handler of a message ends the subscription to messages, which
\* ModelService makes but once: those that come later, on whatever connection, are lost.
TakeMessage(message) ==
  IF deaf THEN UNCHANGED <<client, toServer, deaf>>
  ELSE Becomes(Handle(client, message)) /\ deaf' = Handle(client, message).threw

ClientReceives ==
  /\ toClient # <<>>
  /\ LET message == Head(toClient)
     IN  \/ IsAnswer(message) /\ TakeAnswer(message)
         \/ ~IsAnswer(message) /\ TakeMessage(message)
  /\ toClient' = Tail(toClient)
  /\ UNCHANGED <<server, faults>>

----------------------------------------------------------------------------
\* Opened online, or created offline and never known to the server.
NewClient(local, keeps) ==
  [open |-> TRUE, offline |-> local, local |-> local, resource |-> IF local THEN 0 ELSE 1,
   closing |-> FALSE, event |-> FALSE, waitingForServer |-> FALSE, failed |-> FALSE,
   resyncOnly |-> FALSE, resync |-> FALSE, reconnectVersion |-> Unknown, buffered |-> <<>>,
   completed |-> FALSE, upToDate |-> FALSE, openAfterComplete |-> FALSE,
   cc |-> CC!NewConcurrencyControl(1, 0), entry |-> FALSE, tasks |-> {},
   up |-> ~local, epoch |-> 1, session |-> 1, keeps |-> keeps,
   told |-> IF local THEN "offline" ELSE "online", late |-> FALSE, toldVersion |-> 1,
   toldClosed |-> FALSE, sent |-> <<>>, threw |-> FALSE]

Init ==
  /\ \E local, keeps \in BOOLEAN :
       /\ client = NewClient(local, keeps)
       /\ server = [exists |-> ~local, phase |-> IF local THEN "absent" ELSE "open",
                    resource |-> IF local THEN 0 ELSE 1, since |-> 1, log |-> <<>>,
                    foreign |-> 0, reopened |-> FALSE]
  /\ toServer = <<>> /\ toClient = <<>>
  /\ faults = 0 /\ deaf = FALSE

Next ==
  \/ Edit \/ CloseModel
  \/ Drop \/ Reconnect
  \/ TaskProceeds
  \/ ServerReceives \/ ServerRefuses \/ OtherEdits \/ ForceClose
  \/ ClientReceives

\* What is sent arrives while the connection lasts, and the server answers.  Stated of
\* the channels, which nothing but the receiving of their messages shortens one by one.
ToServerArrives == toServer # <<>> /\ toServer' = Tail(toServer)
ToClientArrives == toClient # <<>> /\ toClient' = Tail(toClient)

Fairness == WF_toServer(ToServerArrives) /\ WF_toClient(ToClientArrives)

Spec == Init /\ [][Next]_vars /\ Fairness

----------------------------------------------------------------------------
(***************************************************************************)
(* A listener that follows the events knows how the model is: the version  *)
(* it shows, whether it is offline, catches up or is online, and whether   *)
(* it is closed; and a model it takes to be offline has no resource of the *)
(* server, no resynchronisation and no close that waits for an answer.     *)
(* Not every online model is said to be: a resynchronisation that ends     *)
(* without an entry of the service says "completed" only, and the          *)
(* continuation of an earlier connection's creation "reconnecting" once    *)
(* more, also of a model that is offline.  A model that closes when it is  *)
(* resynchronised says nothing of it.                                      *)
(***************************************************************************)
StateTold ==
  /\ client.offline => client.told = "offline" \/ (client.told = "reconnecting" /\ client.late)
  /\ client.resync => client.told \in {"offline", "reconnecting", "resync_started"}
  /\ ~client.offline /\ ~client.resync => client.told # "offline"
  /\ client.told = "offline" => client.resource = 0 /\ ~client.closing

EventsTellState ==
  /\ client.open => StateTold /\ ~client.toldClosed /\ client.toldVersion = client.cc.contextVersion
  /\ ~client.open => client.toldClosed \/ ~client.event

(***************************************************************************)
(* Nothing issued is forgotten: while the model may send, each operation   *)
(* in flight has its submission or its acknowledgement on the way, once    *)
(* and in the order of their numbers.  Holds through any number of drops   *)
(* and resynchronisations, unless an error or the server ended it, or the  *)
(* service became deaf over the completion of a resynchronisation that it  *)
(* had given up; which it cannot be as long as none was interrupted.       *)
(***************************************************************************)
Numbers(messages, type) ==
  {messages[i].number : i \in {j \in DOMAIN messages : /\ messages[j].type = type
                                                       /\ messages[j].resource = client.resource}}

InOrder(messages, type) ==
  \A i, j \in DOMAIN messages :
    i < j /\ messages[i].type = type /\ messages[j].type = type
          /\ messages[i].resource = client.resource /\ messages[j].resource = client.resource
      => messages[i].number < messages[j].number

Acknowledged == client.cc.lastSequenceNumber - Len(client.cc.inflightOperations)

\* The operations in flight are the last that were issued.
InFlightIsOnTheWay ==
  /\ \A i \in DOMAIN client.cc.inflightOperations :
       client.cc.inflightOperations[i].seqNo = Acknowledged + i
  /\ InOrder(toClient, "ack") /\ InOrder(toServer, "op")
  /\ \E n \in Acknowledged .. client.cc.lastSequenceNumber :
       /\ Numbers(toClient, "ack") = Acknowledged + 1 .. n
       /\ Numbers(toServer, "op") = n + 1 .. client.cc.lastSequenceNumber

Served == Knows /\ client.resource = server.resource

CanHear == ~deaf \/ client.epoch <= 2

EditsOnTheirWay ==
  client.open /\ SendEvents(client) /\ Served /\ ~IsClosing(client) /\ ~client.failed /\ CanHear
    => InFlightIsOnTheWay

(***************************************************************************)
(* An edit is one operation of the server's history, however often it was  *)
(* sent.  Where a reconnect gives the client a new session its own         *)
(* operations come back as those of a stranger, and are sent again: the    *)
(* property is about sessions that keep their id.  And where the server    *)
(* resynchronises at once what it has closed by force, a model that does   *)
(* not heed that, since it is to close after resynchronising, has          *)
(* operations acknowledged for others that went to the closed resource.    *)
(***************************************************************************)
OncePerEdit ==
  client.keeps /\ ~server.reopened =>
    \A i, j \in DOMAIN server.log :
      server.log[i].edit = server.log[j].edit /\ server.log[i].edit # 0 => i = j

(***************************************************************************)
(* A model that is online and has nothing to wait for has all the server   *)
(* has, and the server has all it has, unless its service is deaf.         *)
(***************************************************************************)
Quiet == toServer = <<>> /\ toClient = <<>>

QuietIsUpToDate ==
  Quiet /\ client.open /\ SendEvents(client) /\ Served /\ ~IsClosing(client)
      /\ ~client.failed /\ CanHear
    => client.cc.contextVersion = Version /\ client.cc.inflightOperations = <<>>

Among(messages, type) ==
  \E i \in DOMAIN messages : messages[i].type = type /\ messages[i].resource = client.resource

(***************************************************************************)
(* Closing ends: a model whose close the server will answer, and whose     *)
(* operations in flight it will acknowledge first, closes, whichever of    *)
(* the answers it hears last and whatever comes in between.  An edit made  *)
(* since, which the server no longer takes, is one more to wait for, and   *)
(* the server may still refuse, or close by force what it has not taken.   *)
(* A close over an error may wait for ever: what the model refuses next    *)
(* throws, and the service is deaf.                                        *)
(***************************************************************************)
CloseReplied ==
  /\ \E i \in DOMAIN toClient : toClient[i].type = "reply" /\ toClient[i].step = "close"
  /\ Numbers(toServer, "op") = {}

CloseArrives ==
  \E i \in DOMAIN toServer :
    /\ toServer[i].type = "close" /\ toServer[i].resource = client.resource
    /\ \A j \in DOMAIN toServer : toServer[j].type = "op" => j < i

CanStillClose ==
  /\ client.closing /\ ~client.failed /\ ~deaf
  /\ CloseReplied \/ (CloseArrives /\ Served)
  /\ InFlightIsOnTheWay

Refused == \E i \in DOMAIN toClient : toClient[i].type = "refusal"

ClosesWhenItCan ==
  \A n \in 0 .. MaxOperations :
    CanStillClose /\ client.cc.lastSequenceNumber = n ~>
      \/ ~client.closing
      \/ client.cc.lastSequenceNumber > n
      \/ Refused \/ Among(toClient, "forceClose")

(***************************************************************************)
(* Resynchronisation ends: once the server has answered, the model catches *)
(* up, fails or is closed, or the server gives it up; it does not wait for *)
(* ever, as that of a deaf service does.                                   *)
(***************************************************************************)
CatchingUp ==
  /\ client.resync /\ client.reconnectVersion # Unknown /\ ~client.closing /\ ~deaf
  /\ IF client.completed
     THEN Among(toClient, "serverComplete") \/ (Among(toServer, "complete") /\ Served)
     ELSE Served

ResyncEnds ==
  CatchingUp ~>
    ~client.resync \/ client.closing \/ ~client.open \/ Among(toClient, "forceClose")
=============================================================================
