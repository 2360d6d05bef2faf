---------------------- MODULE ClientConcurrencyControl ----------------------
(***************************************************************************)
(* ClientConcurrencyControl: what a client keeps, for one open model, to   *)
(* reconcile its own edits with the server's.  One instance is a record;   *)
(* each method is an operator from the record before the call to the       *)
(* record after it, and an operator that says whether it throws.           *)
(*                                                                         *)
(* An operation is the sequence of its discrete operations.                *)
(***************************************************************************)
EXTENDS OperationTransformer

ClientOperationEvent(sessionId, seqNo, contextVersion, operation) ==
  [sessionId |-> sessionId, seqNo |-> seqNo, contextVersion |-> contextVersion,
   operation |-> operation]

ServerOperationEvent(clientId, version, operation) ==
  [clientId |-> clientId, version |-> version, operation |-> operation]

\* Slip: told the next sequence number, it counts back to the last.
NumberedFromTheNext(contextVersion, lastSequenceNumber) ==
  [lastSequenceNumber       |-> lastSequenceNumber - 1,
   contextVersion           |-> contextVersion,
   compoundOpInProgress     |-> FALSE,
   pendingCompoundOperation |-> <<>>,
   inflightOperations       |-> <<>>,
   unappliedOperations      |-> <<>>,
   committed                |-> TRUE]

(***************************************************************************)
(* The instance.  committed is not a field of the class but what its last  *)
(* commit_state_changed event said.                                        *)
(***************************************************************************)
NewConcurrencyControl(contextVersion, lastSequenceNumber) ==
  [lastSequenceNumber       |-> lastSequenceNumber,
   contextVersion           |-> contextVersion,
   compoundOpInProgress     |-> FALSE,
   pendingCompoundOperation |-> <<>>,
   inflightOperations       |-> <<>>,
   unappliedOperations      |-> <<>>,
   committed                |-> TRUE]

HasInflightOperation(cc) == cc.inflightOperations # <<>>

\* isCommitted(), as the code computes it.
IsCommitted(cc) == ~HasInflightOperation(cc) \/ cc.pendingCompoundOperation # <<>>

\* What both commit_state_changed events mean by committed.
NothingOutstanding(cc) ==
  cc.inflightOperations = <<>> /\ cc.pendingCompoundOperation = <<>>

----------------------------------------------------------------------------
(* Batches *)

StartBatchOperation(cc) ==
  [cc EXCEPT !.pendingCompoundOperation = <<>>, !.compoundOpInProgress = TRUE]

CanCancelBatch(cc) == cc.compoundOpInProgress /\ cc.pendingCompoundOperation = <<>>

CancelBatchOperation(cc) == [cc EXCEPT !.compoundOpInProgress = FALSE]

\* Slip: numbers the event before it counts it.
PutInFlightThenCount(cc, sessionId, operation) ==
  [cc EXCEPT
     !.lastSequenceNumber = @ + 1,
     !.inflightOperations =
       Append(@, ClientOperationEvent(sessionId, cc.lastSequenceNumber,
                                      cc.contextVersion, operation))]

\* The next outgoing event goes in flight.
PutInFlight(cc, sessionId, operation) ==
  [cc EXCEPT
     !.lastSequenceNumber = @ + 1,
     !.inflightOperations =
       Append(@, ClientOperationEvent(sessionId, cc.lastSequenceNumber + 1,
                                      cc.contextVersion, operation))]

\* An empty batch throws, but has ended all the same.
CompleteBatchOperation(cc, sessionId) ==
  LET ended == [cc EXCEPT !.compoundOpInProgress = FALSE, !.pendingCompoundOperation = <<>>]
  IN  IF cc.pendingCompoundOperation = <<>> THEN ended
      ELSE PutInFlight(ended, sessionId, cc.pendingCompoundOperation)

----------------------------------------------------------------------------
(* Local operations *)

\* transformOutgoing: the operation passes the remote ones received but not yet
\* applied, and they pass it.
TransformOutgoing(serverOps, operation) ==
  LET pair[i \in 0 .. Len(serverOps)] ==
        IF i = 0 THEN OperationPair(<<>>, operation)
        ELSE TransformOperations(serverOps[i].operation, pair[i - 1].clientOp)
  IN  [serverOps |-> [i \in DOMAIN serverOps |->
                        [serverOps[i] EXCEPT !.operation = pair[i].serverOp]],
       operation |-> pair[Len(serverOps)].clientOp]

\* The operation joins the batch in progress, if any, or goes in flight.
Issue(cc, sessionId, operation) ==
  IF cc.compoundOpInProgress
  THEN [cc EXCEPT !.pendingCompoundOperation = @ \o operation]
  ELSE PutInFlight(cc, sessionId, operation)

\* processOutgoingOperation, of a discrete operation.
ProcessOutgoingOperation(cc, sessionId, op) ==
  LET outgoing == TransformOutgoing(cc.unappliedOperations, <<op>>)
  IN  Issue([cc EXCEPT !.unappliedOperations = outgoing.serverOps,
                       !.committed = IF NothingOutstanding(cc) THEN FALSE ELSE @],
            sessionId, outgoing.operation)

----------------------------------------------------------------------------
(* What the server sends *)

AcknowledgementAccepted(cc, version, seqNo) ==
  /\ cc.inflightOperations # <<>>
  /\ cc.contextVersion = version
  /\ Head(cc.inflightOperations).seqNo = seqNo

\* Slip: the version of one's own operation is not counted.
AcknowledgeWithoutVersion(cc) ==
  LET acked == [cc EXCEPT !.inflightOperations = Tail(@)]
  IN  IF NothingOutstanding(acked) THEN [acked EXCEPT !.committed = TRUE] ELSE acked

\* Slip: the batch in progress is forgotten when the last operation is acknowledged.
CommitOverPendingBatch(cc) ==
  LET acked == [cc EXCEPT !.inflightOperations = Tail(@), !.contextVersion = @ + 1]
  IN  IF acked.inflightOperations = <<>> THEN [acked EXCEPT !.committed = TRUE] ELSE acked

ProcessAcknowledgement(cc) ==
  LET acked == [cc EXCEPT !.inflightOperations = Tail(@), !.contextVersion = @ + 1]
  IN  IF NothingOutstanding(acked) THEN [acked EXCEPT !.committed = TRUE] ELSE acked

\* One that is not accepted over its sequence number alone has already taken the
\* operation it is not for.
RefuseAcknowledgement(cc, version) ==
  IF HasInflightOperation(cc) /\ cc.contextVersion = version
  THEN [cc EXCEPT !.inflightOperations = Tail(@)] ELSE cc

RemoteOperationAccepted(cc, event) == event.version = cc.contextVersion

\* Slip: each operation in flight meets the remote one as it came.
PassInflightUntransformed(inflight, operation) ==
  [i \in 0 .. Len(inflight) |->
     IF i = 0 THEN OperationPair(operation, <<>>)
     ELSE TransformOperations(operation, inflight[i].operation)]

\* transformInflightOperations: the remote operation passes the operations in
\* flight, in order, and they pass it.
PassInflight(inflight, operation) ==
  LET pair[i \in 0 .. Len(inflight)] ==
        IF i = 0 THEN OperationPair(operation, <<>>)
        ELSE TransformOperations(pair[i - 1].serverOp, inflight[i].operation)
  IN  pair

\* Slip: the remote operation is transformed, the ones in flight are not.
TransformOnlyTheRemote(inflight, event) ==
  LET pair == PassInflight(inflight, event.operation)
  IN  [inflight  |-> [i \in DOMAIN inflight |->
                        [inflight[i] EXCEPT !.contextVersion = event.version + 1]],
       operation |-> pair[Len(inflight)].serverOp]

TransformInflightOperations(inflight, event) ==
  LET pair == PassInflight(inflight, event.operation)
  IN  [inflight  |-> [i \in DOMAIN inflight |->
                        [inflight[i] EXCEPT !.contextVersion = event.version + 1,
                                            !.operation = pair[i].clientOp]],
       operation |-> pair[Len(inflight)].serverOp]

\* transformPendingCompoundOperations is TransformOperations over the pending
\* operations, each discrete: overPending is the pair it gives.
AfterPassing(cc, event, inflight, overPending) ==
  [cc EXCEPT
     !.inflightOperations       = inflight,
     !.pendingCompoundOperation = overPending.clientOp,
     !.contextVersion           = @ + 1,
     !.unappliedOperations      = Append(@, [event EXCEPT !.operation = overPending.serverOp])]

ProcessRemoteOperation(cc, event) ==
  LET overInflight == TransformInflightOperations(cc.inflightOperations, event)
  IN  AfterPassing(cc, event, overInflight.inflight,
        TransformOperations(overInflight.operation, cc.pendingCompoundOperation))

\* getNextIncomingOperation, when there is one: it is returned and forgotten.
NextIncomingOperation(cc) == Head(cc.unappliedOperations)
TakeNextIncomingOperation(cc) == [cc EXCEPT !.unappliedOperations = Tail(@)]
=============================================================================
