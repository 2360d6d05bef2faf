------------------------- MODULE ModelCollaboration -------------------------
(***************************************************************************)
(* Sessions that have one RealTimeModel open and stay connected: local     *)
(* edits and batches, the operation submissions they send, the server that *)
(* orders them, the acknowledgements and remote operations it answers      *)
(* with, and the events applications listen to.                            *)
(*                                                                         *)
(* JavaScript runs one handler at a time, so each call into a model and    *)
(* each incoming message is one action.  Applications may edit the model   *)
(* from within an event: that edit is part of the handler it interrupts.   *)
(***************************************************************************)
EXTENDS ClientConcurrencyControl, AnySequence

LOCAL INSTANCE SequencesExt

CONSTANTS
  Session,
  InitialData,                \* the data of the model when every session opened it
  LocalOperations(_, _),      \* the discrete operations a session may issue on given data
  Apply(_, _),                \* RealTimeModel._applyOperation: data after an operation
  MaxEdits,                   \* how many discrete operations the sessions issue in all
  MaxReentrantEdits           \* how many of them are made from within an event

ASSUME CollaborationAssumption ==
  MaxEdits \in Nat /\ MaxReentrantEdits \in Nat

VARIABLES
  data,          \* data[s]: the contents of the model at session s
  cc,            \* cc[s]: its ClientConcurrencyControl
  error,         \* error[s]: a concurrency control error closed the model
  toServer,      \* toServer[s]: operation submissions on their way
  toClient,      \* toClient[s]: acknowledgements and remote operations on their way
  log,           \* the server's history of the model
  bridge,        \* bridge[s]: operations of others the server does not know s to have,
                 \* transformed over those of s it does have
  edits,         \* edits[s]: how many discrete operations s has issued
  reentrantEdits,
  misordered     \* misordered[s]: s has sent an operation ahead of an earlier one

vars == <<data, cc, error, toServer, toClient, log, bridge, edits, reentrantEdits,
          misordered>>

Init ==
  /\ data = [s \in Session |-> InitialData]
  /\ cc = [s \in Session |-> NewConcurrencyControl(0, 0)]
  /\ error = [s \in Session |-> FALSE]
  /\ toServer = [s \in Session |-> <<>>]
  /\ toClient = [s \in Session |-> <<>>]
  /\ log = <<>>
  /\ bridge = [s \in Session |-> <<>>]
  /\ edits = [s \in Session |-> 0]
  /\ reentrantEdits = 0
  /\ misordered = [s \in Session |-> FALSE]

----------------------------------------------------------------------------
(* Local edits *)

EditsLeft == MaxEdits - FoldFunction(+, 0, edits)

\* _sendOperation
OperationSubmission(event) ==
  [sequenceNumber |-> event.seqNo, contextVersion |-> event.contextVersion,
   operation |-> event.operation]

\* Slip: an operation issued while another is in flight waits for a call that never
\* comes.
SendOnlyTheFirst(queue, before, after) ==
  IF after.lastSequenceNumber = before.lastSequenceNumber \/ Len(after.inflightOperations) > 1
  THEN queue
  ELSE Append(queue, OperationSubmission(
                       after.inflightOperations[Len(after.inflightOperations)]))

\* The submissions sent once a call has turned before into after: that of the
\* operation it has put in flight, if any.
AfterSending(queue, before, after) ==
  IF after.lastSequenceNumber = before.lastSequenceNumber THEN queue
  ELSE Append(queue, OperationSubmission(
                       after.inflightOperations[Len(after.inflightOperations)]))

\* The concurrency control of s goes from before to after, and s sends what that puts
\* in flight.
BecomesAndSends(s, before, after) ==
  /\ cc' = [cc EXCEPT ![s] = after]
  /\ toServer' = [toServer EXCEPT ![s] = AfterSending(@, before, after)]

\* The same of two calls: what the first puts in flight is sent first,
SendsFirstThenSecond(s, first, second) ==
  /\ cc' = [cc EXCEPT ![s] = second]
  /\ toServer' = [toServer EXCEPT
                    ![s] = AfterSending(AfterSending(@, cc[s], first), first, second)]

\* or what the second does.
SendsSecondThenFirst(s, first, second) ==
  /\ cc' = [cc EXCEPT ![s] = second]
  /\ toServer' = [toServer EXCEPT
                    ![s] = AfterSending(AfterSending(@, first, second), cc[s], first)]

\* sendOperationCallback, called once the data has changed.
LocalOperation(s) ==
  /\ ~error[s] /\ EditsLeft > 0
  /\ \E op \in LocalOperations(s, data[s]) :
       /\ data' = [data EXCEPT ![s] = Apply(@, <<op>>)]
       /\ BecomesAndSends(s, cc[s], ProcessOutgoingOperation(cc[s], s, op))
  /\ edits' = [edits EXCEPT ![s] = @ + 1]
  /\ UNCHANGED <<error, toClient, log, bridge, reentrantEdits, misordered>>

(***************************************************************************)
(* With emitLocalEvents on, the application hears of a local edit before   *)
(* the element sends it: RealTimeElement subscribes to the node before the *)
(* subclass does.  An edit made from within that event is sent first.      *)
(***************************************************************************)
LocalOperationEditedWhenHeard(s) ==
  /\ ~error[s] /\ EditsLeft > 1 /\ reentrantEdits < MaxReentrantEdits
  /\ \E op \in LocalOperations(s, data[s]) :
       LET heard == Apply(data[s], <<op>>)
       IN  \E nested \in LocalOperations(s, heard) :
             LET first == ProcessOutgoingOperation(cc[s], s, nested)
             IN  /\ data' = [data EXCEPT ![s] = Apply(heard, <<nested>>)]
                 /\ SendsFirstThenSecond(s, first, ProcessOutgoingOperation(first, s, op))
  /\ edits' = [edits EXCEPT ![s] = @ + 2]
  /\ reentrantEdits' = reentrantEdits + 1
  /\ UNCHANGED <<error, toClient, log, bridge, misordered>>

(***************************************************************************)
(* The concurrency control emits the event that becomes the model's        *)
(* modified event before it returns the operation, which is sent after.    *)
(* An edit made from within that event takes the next sequence number, but *)
(* is sent first.                                                          *)
(***************************************************************************)
LocalOperationEditedWhenModified(s) ==
  /\ ~error[s] /\ EditsLeft > 1 /\ reentrantEdits < MaxReentrantEdits
  /\ NothingOutstanding(cc[s]) /\ ~cc[s].compoundOpInProgress
  /\ \E op \in LocalOperations(s, data[s]) :
       LET modified == Apply(data[s], <<op>>)
       IN  \E nested \in LocalOperations(s, modified) :
             LET first == ProcessOutgoingOperation(cc[s], s, op)
             IN  /\ data' = [data EXCEPT ![s] = Apply(modified, <<nested>>)]
                 /\ SendsSecondThenFirst(s, first, ProcessOutgoingOperation(first, s, nested))
  /\ edits' = [edits EXCEPT ![s] = @ + 2]
  /\ reentrantEdits' = reentrantEdits + 1
  /\ misordered' = [misordered EXCEPT ![s] = TRUE]
  /\ UNCHANGED <<error, toClient, log, bridge>>

StartBatch(s) ==
  /\ ~error[s] /\ EditsLeft > 0
  /\ ~cc[s].compoundOpInProgress
  /\ cc' = [cc EXCEPT ![s] = StartBatchOperation(@)]
  /\ UNCHANGED <<data, error, toServer, toClient, log, bridge, edits, reentrantEdits,
                 misordered>>

CancelBatch(s) ==
  /\ ~error[s]
  /\ CanCancelBatch(cc[s])
  /\ cc' = [cc EXCEPT ![s] = CancelBatchOperation(@)]
  /\ UNCHANGED <<data, error, toServer, toClient, log, bridge, edits, reentrantEdits,
                 misordered>>

CompleteBatch(s) ==
  /\ ~error[s]
  /\ cc[s].compoundOpInProgress
  /\ BecomesAndSends(s, cc[s], CompleteBatchOperation(cc[s], s))
  /\ UNCHANGED <<data, error, toClient, log, bridge, edits, reentrantEdits,
                 misordered>>

----------------------------------------------------------------------------
(* The server, as the client relies on it: it gives each submission the    *)
(* next version, transformed over what its session had not seen, and tells *)
(* the session and the others, in one order.                               *)

Acknowledgement(version, seqNo) ==
  [type |-> "operationAck", version |-> version, sequenceNumber |-> seqNo]

RemoteOperation(sessionId, version, operation) ==
  [type |-> "remoteOperation", sessionId |-> sessionId, contextVersion |-> version,
   operation |-> operation]

\* Of events, in the order of their versions, those of contextVersion and after.
NotSeenAt(events, contextVersion) ==
  LET seen == CHOOSE k \in 0 .. Len(events) :
                \A i \in 1 .. Len(events) : events[i].version < contextVersion <=> i <= k
  IN  SubSeq(events, seen + 1, Len(events))

\* The next submission of s is taken.
TakeSubmission(s) ==
  toServer[s] # <<>> /\ toServer' = [toServer EXCEPT ![s] = Tail(@)]

ServerReceives(s) ==
  /\ TakeSubmission(s)
  /\ LET submission == Head(toServer[s])
         version    == Len(log)
         passed     == TransformOutgoing(NotSeenAt(bridge[s], submission.contextVersion),
                                         submission.operation)
     IN  /\ log' = Append(log, [sessionId |-> s, seqNo |-> submission.sequenceNumber,
                                operation |-> passed.operation])
         /\ toClient' = [c \in Session |->
              Append(toClient[c],
                     IF c = s THEN Acknowledgement(version, submission.sequenceNumber)
                     ELSE RemoteOperation(s, version, passed.operation))]
         /\ bridge' = [c \in Session |->
              IF c = s THEN passed.serverOps
              ELSE Append(bridge[c], ServerOperationEvent(s, version, passed.operation))]
  /\ UNCHANGED <<data, cc, error, edits, reentrantEdits, misordered>>

----------------------------------------------------------------------------
(* Incoming messages *)

\* _handleConcurrencyControlError: an error event, and the model closes.  What it
\* does while it closes is not followed.
CloseWithError(s) ==
  /\ error' = [error EXCEPT ![s] = TRUE]
  /\ UNCHANGED <<data, toServer, edits, reentrantEdits, misordered>>

\* The next message for s is taken.
TakeMessage(s) ==
  ~error[s] /\ toClient[s] # <<>> /\ toClient' = [toClient EXCEPT ![s] = Tail(@)]

Incoming(s, type) ==
  /\ TakeMessage(s) /\ Head(toClient[s]).type = type
  /\ UNCHANGED <<log, bridge>>

HandleOperationAck(s) ==
  /\ Incoming(s, "operationAck")
  /\ LET ack == Head(toClient[s])
     IN  IF AcknowledgementAccepted(cc[s], ack.version, ack.sequenceNumber)
         THEN /\ cc' = [cc EXCEPT ![s] = ProcessAcknowledgement(@)]
              /\ UNCHANGED <<data, error, toServer, edits, reentrantEdits, misordered>>
         ELSE /\ cc' = [cc EXCEPT ![s] = RefuseAcknowledgement(@, ack.version)]
              /\ CloseWithError(s)

Remote(s) ==
  LET message == Head(toClient[s])
  IN  ServerOperationEvent(message.sessionId, message.contextVersion, message.operation)

\* _handleRemoteOperation: the operation is processed, taken at once, and applied.
HandleRemoteOperation(s) ==
  /\ Incoming(s, "remoteOperation")
  /\ IF RemoteOperationAccepted(cc[s], Remote(s))
     THEN LET processed == ProcessRemoteOperation(cc[s], Remote(s))
          IN  /\ cc' = [cc EXCEPT ![s] = TakeNextIncomingOperation(processed)]
              /\ data' = [data EXCEPT
                            ![s] = Apply(@, NextIncomingOperation(processed).operation)]
              /\ UNCHANGED <<error, toServer, edits, reentrantEdits, misordered>>
     ELSE UNCHANGED cc /\ CloseWithError(s)

\* The application edits the model when it hears of one of the remote operations ops,
\* but not the last, that the concurrency control, now taken, has given to apply.
EditsAmid(s, ops, taken) ==
  \E k \in 1 .. Len(ops) - 1 :
    LET heard == Apply(data[s], SubSeq(ops, 1, k))
    IN  \E nested \in LocalOperations(s, heard) :
          /\ ~ops[k].noOp
          /\ data' = [data EXCEPT
                        ![s] = Apply(Apply(heard, <<nested>>), SubSeq(ops, k + 1, Len(ops)))]
          /\ BecomesAndSends(s, taken, ProcessOutgoingOperation(taken, s, nested))

(***************************************************************************)
(* A remote batch is applied one discrete operation at a time, with an     *)
(* event for each.  An edit made from within an event but the last is      *)
(* issued on data that no version of the model ever had.                   *)
(***************************************************************************)
HandleRemoteOperationEditedWhenHeard(s) ==
  /\ Incoming(s, "remoteOperation") /\ RemoteOperationAccepted(cc[s], Remote(s))
  /\ EditsLeft > 0 /\ reentrantEdits < MaxReentrantEdits
  /\ LET processed == ProcessRemoteOperation(cc[s], Remote(s))
     IN  EditsAmid(s, NextIncomingOperation(processed).operation,
                   TakeNextIncomingOperation(processed))
  /\ edits' = [edits EXCEPT ![s] = @ + 1]
  /\ reentrantEdits' = reentrantEdits + 1
  /\ UNCHANGED <<error, misordered>>

HandleMessage(s) ==
  \/ HandleOperationAck(s)
  \/ HandleRemoteOperation(s)
  \/ HandleRemoteOperationEditedWhenHeard(s)

Next ==
  \E s \in Session :
    \/ LocalOperation(s)
    \/ LocalOperationEditedWhenHeard(s)
    \/ LocalOperationEditedWhenModified(s)
    \/ StartBatch(s) \/ CancelBatch(s) \/ CompleteBatch(s)
    \/ ServerReceives(s)
    \/ HandleMessage(s)

\* As long as the connection stands, messages are delivered, the server answers and
\* the event loop gets to the handlers.  Nobody has to edit or to complete a batch.
Fairness ==
  \A s \in Session : WF_toServer(TakeSubmission(s)) /\ WF_toClient(TakeMessage(s))

Spec == Init /\ [][Next]_vars /\ Fairness

----------------------------------------------------------------------------
(* Types *)

IsClientOperationEvent(event) ==
  /\ DOMAIN event = {"sessionId", "seqNo", "contextVersion", "operation"}
  /\ event.seqNo \in Nat /\ event.contextVersion \in Nat

IsConcurrencyControl(c) ==
  /\ DOMAIN c = {"lastSequenceNumber", "contextVersion", "compoundOpInProgress",
                 "pendingCompoundOperation", "inflightOperations", "unappliedOperations",
                 "committed"}
  /\ c.lastSequenceNumber \in Nat /\ c.contextVersion \in Nat
  /\ c.compoundOpInProgress \in BOOLEAN /\ c.committed \in BOOLEAN
  /\ IsSequence(c.inflightOperations)
  /\ \A i \in DOMAIN c.inflightOperations : IsClientOperationEvent(c.inflightOperations[i])

\* Every variable holds what its comment says; nothing is said of the contents of
\* operations.
TypeOK ==
  /\ data = [s \in Session |-> data[s]]
  /\ cc = [s \in Session |-> cc[s]]
  /\ \A s \in Session : IsConcurrencyControl(cc[s])
  /\ error \in [Session -> BOOLEAN]
  /\ toServer = [s \in Session |-> toServer[s]]
  /\ toClient = [s \in Session |-> toClient[s]]
  /\ \A s \in Session : IsSequence(toServer[s]) /\ IsSequence(toClient[s])
  /\ IsSequence(log)
  /\ bridge = [s \in Session |-> bridge[s]]
  /\ edits \in [Session -> Nat]
  /\ reentrantEdits \in Nat
  /\ misordered \in [Session -> BOOLEAN]

----------------------------------------------------------------------------
(* Safety *)

\* processAcknowledgement and processRemoteOperation never throw: no message finds
\* the version or the sequence number other than the session expects, whatever the
\* sessions edit and however their messages interleave, as long as the session has
\* sent its own operations in order.
NoConcurrencyControlError == \A s \in Session : misordered[s] \/ ~error[s]

LoggedBy(s) == {i \in DOMAIN log : log[i].sessionId = s}

\* The server's history holds each operation a session has put in flight at most
\* once and in the order of its sequence numbers, with none left out, again unless
\* the session sends them out of order: others' operations make no difference.
EachLoggedOnceInOrder ==
  \A s \in Session :
    misordered[s] \/
      /\ \A i, j \in LoggedBy(s) : i < j => log[i].seqNo < log[j].seqNo
      /\ \A n \in 1 .. cc[s].lastSequenceNumber - Len(toServer[s]) :
           \E i \in LoggedBy(s) : log[i].seqNo = n

\* The data at a version: the initial data after the operations before it.
DataAt(history, version) ==
  LET at[n \in 0 .. version] ==
        IF n = 0 THEN InitialData ELSE Apply(at[n - 1], history[n].operation)
  IN  at[version]

\* What a session has issued and the server has not acknowledged, in order.
Outstanding(c) ==
  LET issued[i \in 0 .. Len(c.inflightOperations)] ==
        IF i = 0 THEN <<>> ELSE issued[i - 1] \o c.inflightOperations[i].operation
  IN  issued[Len(c.inflightOperations)] \o c.pendingCompoundOperation

\* Every session sees, at all times, the server's data at its context version with
\* its own outstanding edits on top: so sessions with nothing outstanding see the
\* same thing.  Edits made from within events are set apart.
SeesServerDataWithOwnEdits ==
  reentrantEdits = 0 =>
    \A s \in Session :
      data[s] = Apply(DataAt(log, cc[s].contextVersion), Outstanding(cc[s]))

\* When an operation is acknowledged, the operation in flight has become, through
\* the transformations of the session, the very operation the server logged through
\* its own: processOperationAck stores the one as the other.
AcknowledgedAsLogged ==
  \A s \in Session :
    ~misordered[s] /\ toClient[s] # <<>> /\ Head(toClient[s]).type = "operationAck" =>
      Head(cc[s].inflightOperations).operation = log[cc[s].contextVersion + 1].operation

\* How many discrete operations of a session the history has before a version.
EditsLogged(s, history, version) ==
  LET logged[n \in 0 .. version] ==
        IF n = 0 THEN 0
        ELSE logged[n - 1] + IF history[n].sessionId = s THEN Len(history[n].operation) ELSE 0
  IN  logged[version]

\* How many of its discrete operations a session knows to be in the history.
EditsAcknowledged(s) == EditsLogged(s, log, cc[s].contextVersion)

AllAcknowledged(s) == EditsAcknowledged(s) = edits[s]

\* The last commit_state_changed event of each session tells the truth: committed
\* exactly when each of its edits is in the server's history and it knows.
CommitEventsTruthful == \A s \in Session : cc[s].committed <=> AllAcknowledged(s)

----------------------------------------------------------------------------
(* Liveness *)

\* Once a session has no batch open, everything it issued is acknowledged and every
\* operation of others reaches it.
EventuallyUpToDate ==
  \A s \in Session :
    []<>(\/ cc[s].compoundOpInProgress \/ misordered[s]
         \/ AllAcknowledged(s) /\ cc[s].contextVersion = Len(log))

----------------------------------------------------------------------------
(* What it implements *)

Ordered ==
  INSTANCE OrderedEdits WITH
    order <- [i \in DOMAIN log |-> [session |-> log[i].sessionId, number |-> log[i].seqNo]],
    issued <- [s \in Session |-> cc[s].lastSequenceNumber],
    unconfirmed <- [s \in Session |->
      IF error[s] THEN <<>>
      ELSE [i \in DOMAIN cc[s].inflightOperations |-> cc[s].inflightOperations[i].seqNo]],
    taken <- [s \in Session |-> cc[s].contextVersion],
    orderly <- [s \in Session |-> ~misordered[s]],
    closed <- error

\* With all that is sent, transformed and acknowledged, a step is at most one of
\* OrderedEdits: the server's history is the one order, a session's context version is
\* how much of it it has taken in, its operations in flight are those not confirmed.
ImplementsOrderedEdits == Ordered!Spec

----------------------------------------------------------------------------
(* What the documentation says and the code does not do *)

\* RealTimeModel.isCommitted: "true if the model has no unacknowledged changes,
\* false otherwise".
IsCommittedAsDocumented == \A s \in Session : IsCommitted(cc[s]) <=> AllAcknowledged(s)

\* ClientConcurrencyControl asserts, throwing otherwise, that each message has the
\* version and the sequence number it expects.
EveryMessageAsExpected == \A s \in Session : ~error[s]

\* RealTimeModel: conflicts are resolved "so that everybody sees the same thing", be
\* it with edits made from within events.
EverybodySeesTheSame ==
  (\A s \in Session : NothingOutstanding(cc[s]) /\ cc[s].contextVersion = Len(log)) =>
    \A s, t \in Session : data[s] = data[t]
=============================================================================
