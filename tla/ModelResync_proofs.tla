------------------------- MODULE ModelResync_proofs -------------------------
(***************************************************************************)
(* Two things of one model over connections that come and go, over drops,  *)
(* resynchronisations, refusals, errors and closes, however many there are *)
(* and in whatever order: that a listener to its events always knows how   *)
(* it is, and that an edit is one operation of the server's history,       *)
(* however often it is sent.                                               *)
(*                                                                         *)
(* The methods of the model are operators on the client that call one      *)
(* another, so the proof follows the calls.  Each method has a contract, a *)
(* predicate on the client before and after it: its lemma, called Makes or *)
(* Does, shows that the method fulfils it.  Goes says of a method that it  *)
(* leaves a closed model closed, Fits that it leaves a model fit, as the   *)
(* invariant has it, Moves what it does to what the model knows of its     *)
(* operations and of its place in the history, and Utters that what it     *)
(* sends may be sent.  Keeps says of an action that it keeps the invariant *)
(* of the first theorem, Once that it keeps that of the second.            *)
(***************************************************************************)
EXTENDS ModelResync, AnySequenceLemmas

(***************************************************************************)
(* The client: what its methods make of it                                 *)
(***************************************************************************)

ConcurrencyControlFields ==
  {"lastSequenceNumber", "contextVersion", "compoundOpInProgress", "pendingCompoundOperation",
   "inflightOperations", "unappliedOperations", "committed"}

EventFields == {"sessionId", "seqNo", "contextVersion", "operation"}

\* The operations in flight are the last that were issued.
IsConcurrencyControl(cc) ==
  /\ cc = [f \in ConcurrencyControlFields |-> cc[f]]
  /\ cc.lastSequenceNumber \in Nat /\ cc.contextVersion \in Nat \ {0}
  /\ cc.compoundOpInProgress = FALSE
  /\ IsSequence(cc.inflightOperations)
  /\ Len(cc.inflightOperations) <= cc.lastSequenceNumber
  /\ \A i \in DOMAIN cc.inflightOperations :
       /\ cc.inflightOperations[i] = [f \in EventFields |-> cc.inflightOperations[i][f]]
       /\ cc.inflightOperations[i].seqNo =
            cc.lastSequenceNumber - Len(cc.inflightOperations) + i

InFlight(cc) == cc.inflightOperations

\* How many operations were issued and are not in flight any more
Acked(cc) == cc.lastSequenceNumber - Len(InFlight(cc))

\* What has been in flight stays so, whatever it has been transformed to.
StaysInFlight(cc, dd) ==
  /\ dd.lastSequenceNumber = cc.lastSequenceNumber
  /\ Len(InFlight(dd)) = Len(InFlight(cc))
  /\ \A i \in DOMAIN InFlight(dd) :
       i \in DOMAIN InFlight(cc) /\ InFlight(dd)[i].sessionId = InFlight(cc)[i].sessionId

\* The first operation in flight is so no more.
LeavesFlight(cc, dd) ==
  /\ dd.lastSequenceNumber = cc.lastSequenceNumber
  /\ InFlight(cc) # <<>> /\ Len(InFlight(dd)) = Len(InFlight(cc)) - 1
  /\ \A i \in DOMAIN InFlight(dd) :
       i + 1 \in DOMAIN InFlight(cc) /\ InFlight(dd)[i] = InFlight(cc)[i + 1]

\* The head of what is in flight is the first not acknowledged.
LEMMA InFlightIsNumbered ==
  ASSUME NEW cc, IsConcurrencyControl(cc)
  PROVE  /\ Len(InFlight(cc)) \in Nat /\ Acked(cc) \in Nat
         /\ DOMAIN InFlight(cc) = 1 .. Len(InFlight(cc))
         /\ \A i \in DOMAIN InFlight(cc) : InFlight(cc)[i].seqNo = Acked(cc) + i
         /\ InFlight(cc) # <<>> => /\ Len(InFlight(cc)) >= 1 /\ 1 \in DOMAIN InFlight(cc)
                                   /\ Head(InFlight(cc)) = InFlight(cc)[1]
                                   /\ Head(InFlight(cc)).seqNo = Acked(cc) + 1
         /\ InFlight(cc) = <<>> => Len(InFlight(cc)) = 0
<1>1. IsSequence(InFlight(cc)) /\ Len(InFlight(cc)) <= cc.lastSequenceNumber
      /\ cc.lastSequenceNumber \in Nat
  BY DEF IsConcurrencyControl, InFlight
<1>2. Len(InFlight(cc)) \in Nat /\ DOMAIN InFlight(cc) = 1 .. Len(InFlight(cc))
  BY <1>1, SequenceIsFunction
<1>3. Acked(cc) \in Nat
  BY <1>1, <1>2 DEF Acked
<1>4. \A i \in DOMAIN InFlight(cc) : InFlight(cc)[i].seqNo = Acked(cc) + i
  BY DEF IsConcurrencyControl, InFlight, Acked
<1>5. InFlight(cc) # <<>> => Len(InFlight(cc)) >= 1 /\ Head(InFlight(cc)) = InFlight(cc)[1]
  BY <1>1, TailOfSequence
<1>6. InFlight(cc) # <<>> => 1 \in DOMAIN InFlight(cc)
  BY <1>2, <1>5
<1>7. InFlight(cc) = <<>> => Len(InFlight(cc)) = 0
  BY EmptyIsSequence
<1> QED
  BY <1>2, <1>3, <1>4, <1>5, <1>6, <1>7

\* Taking the head out of flight
LEMMA TakesFirst ==
  ASSUME NEW cc, IsConcurrencyControl(cc), InFlight(cc) # <<>>,
         NEW dd, dd = [f \in ConcurrencyControlFields |-> dd[f]],
         dd.lastSequenceNumber = cc.lastSequenceNumber,
         dd.contextVersion \in Nat \ {0}, dd.compoundOpInProgress = FALSE,
         dd.inflightOperations = Tail(InFlight(cc))
  PROVE  IsConcurrencyControl(dd) /\ LeavesFlight(cc, dd)
<1>1. IsSequence(InFlight(cc)) /\ cc.lastSequenceNumber \in Nat
      /\ Len(InFlight(cc)) <= cc.lastSequenceNumber
  BY DEF IsConcurrencyControl, InFlight
<1>2. PICK q : q = Tail(InFlight(cc))
  OBVIOUS
<1>3. /\ IsSequence(q) /\ Len(InFlight(cc)) >= 1 /\ Len(q) = Len(InFlight(cc)) - 1
      /\ \A i \in 1 .. Len(InFlight(cc)) - 1 : q[i] = InFlight(cc)[i + 1]
  BY <1>1, <1>2, TailOfSequence
<1>4. /\ Len(InFlight(cc)) \in Nat /\ DOMAIN InFlight(cc) = 1 .. Len(InFlight(cc))
      /\ DOMAIN q = 1 .. Len(InFlight(cc)) - 1
  BY <1>1, <1>3, SequenceIsFunction
<1>5. \A i \in DOMAIN q : i + 1 \in DOMAIN InFlight(cc) /\ q[i] = InFlight(cc)[i + 1]
  BY <1>3, <1>4
<1>6. \A i \in DOMAIN q :
        q[i] = [f \in EventFields |-> q[i][f]]
        /\ q[i].seqNo = cc.lastSequenceNumber - Len(InFlight(cc)) + (i + 1)
  BY ZenonT(60), <1>5 DEF IsConcurrencyControl, InFlight
<1>7. \A i \in DOMAIN q : q[i].seqNo = cc.lastSequenceNumber - Len(q) + i
  <2> SUFFICES ASSUME NEW i \in DOMAIN q
               PROVE  q[i].seqNo = cc.lastSequenceNumber - Len(q) + i
    OBVIOUS
  <2>1. i \in Int /\ q[i].seqNo = cc.lastSequenceNumber - Len(InFlight(cc)) + (i + 1)
    BY <1>4, <1>6
  <2>2. PICK n \in Int, l \in Int : n = Len(InFlight(cc)) /\ l = cc.lastSequenceNumber
    BY <1>1, <1>4
  <2>3. Len(q) = n - 1
    BY <1>3, <2>2
  <2>4. \A a, b, k \in Int : a - b + (k + 1) = a - (b - 1) + k
    OBVIOUS
  <2>5. q[i].seqNo = l - n + (i + 1)
    BY Zenon, <2>1, <2>2
  <2>6. l - n + (i + 1) = l - (n - 1) + i
    BY <2>1, <2>2, <2>4
  <2> QED
    BY Zenon, <2>2, <2>3, <2>5, <2>6
<1>8. dd.inflightOperations = q
  BY <1>2
<1>9. Len(q) <= cc.lastSequenceNumber
  BY <1>1, <1>3, <1>4
<1>10. IsConcurrencyControl(dd)
  BY <1>1, <1>3, <1>6, <1>7, <1>8, <1>9 DEF IsConcurrencyControl
<1>11. LeavesFlight(cc, dd)
  BY <1>3, <1>5, <1>8 DEF LeavesFlight, InFlight
<1> QED
  BY <1>10, <1>11

\* An accepted acknowledgement takes the first operation out of flight and moves the
\* version on.
LEMMA AcknowledgementTakes ==
  ASSUME NEW cc, IsConcurrencyControl(cc), InFlight(cc) # <<>>,
         NEW dd, dd = CC!ProcessAcknowledgement(cc)
  PROVE  /\ IsConcurrencyControl(dd) /\ LeavesFlight(cc, dd)
         /\ dd.contextVersion = cc.contextVersion + 1
<1>1. PICK q : q = Tail(InFlight(cc))
  OBVIOUS
<1>2. PICK acked : acked = [cc EXCEPT !.inflightOperations = q, !.contextVersion = @ + 1]
  OBVIOUS
<1>3. dd = acked \/ dd = [acked EXCEPT !.committed = TRUE]
  BY <1>1, <1>2 DEF CC!ProcessAcknowledgement, InFlight, IsConcurrencyControl,
                    ConcurrencyControlFields
<1>4. /\ acked = [f \in ConcurrencyControlFields |-> acked[f]]
      /\ acked.lastSequenceNumber = cc.lastSequenceNumber
      /\ acked.contextVersion = cc.contextVersion + 1
      /\ acked.compoundOpInProgress = FALSE /\ acked.inflightOperations = q
  BY <1>2 DEF IsConcurrencyControl, ConcurrencyControlFields
<1>5. /\ dd = [f \in ConcurrencyControlFields |-> dd[f]]
      /\ dd.lastSequenceNumber = cc.lastSequenceNumber
      /\ dd.contextVersion = cc.contextVersion + 1
      /\ dd.compoundOpInProgress = FALSE /\ dd.inflightOperations = q
  BY <1>3, <1>4 DEF ConcurrencyControlFields
<1>6. cc.contextVersion + 1 \in Nat \ {0}
  BY DEF IsConcurrencyControl
<1> QED
  BY <1>1, <1>5, <1>6, TakesFirst

\* A refused acknowledgement leaves the version and what is in flight.
LEMMA RefusalTakes ==
  ASSUME NEW cc, IsConcurrencyControl(cc), NEW version,
         NEW dd, dd = CC!RefuseAcknowledgement(cc, version)
  PROVE  /\ IsConcurrencyControl(dd) /\ dd.contextVersion = cc.contextVersion
         /\ dd = cc \/ LeavesFlight(cc, dd)
<1>1. CASE dd = cc
  BY <1>1
<1>2. CASE InFlight(cc) # <<>> /\ dd # cc
  <2>1. PICK q : q = Tail(InFlight(cc))
    OBVIOUS
  <2>2. dd = [cc EXCEPT !.inflightOperations = q]
    BY <1>2, <2>1 DEF CC!RefuseAcknowledgement, InFlight, IsConcurrencyControl,
                      ConcurrencyControlFields
  <2>3. /\ dd = [f \in ConcurrencyControlFields |-> dd[f]]
        /\ dd.lastSequenceNumber = cc.lastSequenceNumber
        /\ dd.contextVersion = cc.contextVersion
        /\ dd.compoundOpInProgress = FALSE /\ dd.inflightOperations = q
    BY <2>2 DEF IsConcurrencyControl, ConcurrencyControlFields
  <2>4. cc.contextVersion \in Nat \ {0}
    BY DEF IsConcurrencyControl
  <2> QED
    BY <1>2, <2>1, <2>3, <2>4, TakesFirst
<1> QED
  BY <1>1, <1>2 DEF CC!RefuseAcknowledgement, CC!HasInflightOperation, InFlight

\* A remote operation passes those in flight, and is taken at once.
LEMMA RemoteTakes ==
  ASSUME NEW cc, IsConcurrencyControl(cc), NEW event,
         NEW dd, dd = CC!TakeNextIncomingOperation(CC!ProcessRemoteOperation(cc, event))
  PROVE  /\ IsConcurrencyControl(dd) /\ StaysInFlight(cc, dd)
         /\ dd.contextVersion = cc.contextVersion + 1
<1>1. PICK over : over = CC!TransformInflightOperations(InFlight(cc), event)
  OBVIOUS
<1>2. PICK pair : pair = CC!PassInflight(InFlight(cc), event.operation)
  OBVIOUS
<1>3. PICK q : q = [i \in DOMAIN InFlight(cc) |->
                      [InFlight(cc)[i] EXCEPT !.contextVersion = event.version + 1,
                                              !.operation = pair[i].clientOp]]
  OBVIOUS
<1>4. over.inflight = q
  BY <1>1, <1>2, <1>3 DEF CC!TransformInflightOperations
<1>5. PICK pending : pending = CC!TransformOperations(over.operation, cc.pendingCompoundOperation)
  OBVIOUS
<1>6. PICK after : after = CC!AfterPassing(cc, event, q, pending)
  OBVIOUS
<1>7. CC!ProcessRemoteOperation(cc, event) = after
  BY <1>1, <1>4, <1>5, <1>6 DEF CC!ProcessRemoteOperation, InFlight
<1>8. /\ after = [f \in ConcurrencyControlFields |-> after[f]]
      /\ after.lastSequenceNumber = cc.lastSequenceNumber
      /\ after.contextVersion = cc.contextVersion + 1
      /\ after.compoundOpInProgress = FALSE /\ after.inflightOperations = q
  BY <1>6 DEF CC!AfterPassing, IsConcurrencyControl, ConcurrencyControlFields
<1>9. /\ dd = [f \in ConcurrencyControlFields |-> dd[f]]
      /\ dd.lastSequenceNumber = cc.lastSequenceNumber
      /\ dd.contextVersion = cc.contextVersion + 1
      /\ dd.compoundOpInProgress = FALSE /\ dd.inflightOperations = q
  BY <1>7, <1>8 DEF CC!TakeNextIncomingOperation, ConcurrencyControlFields
<1>10. /\ Len(InFlight(cc)) \in Nat /\ DOMAIN InFlight(cc) = 1 .. Len(InFlight(cc))
  BY InFlightIsNumbered
<1>11. IsSequence(q) /\ Len(q) = Len(InFlight(cc)) /\ DOMAIN q = DOMAIN InFlight(cc)
  BY <1>3, <1>10, FunctionIsSequence
<1>12. \A i \in DOMAIN q :
         /\ q[i] = [f \in EventFields |-> q[i][f]]
         /\ q[i].seqNo = InFlight(cc)[i].seqNo /\ q[i].sessionId = InFlight(cc)[i].sessionId
  <2> SUFFICES ASSUME NEW i \in DOMAIN q
               PROVE  /\ q[i] = [f \in EventFields |-> q[i][f]]
                      /\ q[i].seqNo = InFlight(cc)[i].seqNo
                      /\ q[i].sessionId = InFlight(cc)[i].sessionId
    OBVIOUS
  <2>1. PICK e : e = InFlight(cc)[i]
    OBVIOUS
  <2>2. e = [f \in EventFields |-> e[f]]
    BY <1>11, <2>1 DEF IsConcurrencyControl, InFlight
  <2>3. q[i] = [e EXCEPT !.contextVersion = event.version + 1, !.operation = pair[i].clientOp]
    BY <1>3, <1>11, <2>1
  <2>4. /\ q[i] = [f \in EventFields |-> q[i][f]]
        /\ q[i].seqNo = e.seqNo /\ q[i].sessionId = e.sessionId
    BY <2>2, <2>3 DEF EventFields
  <2> QED
    BY <2>1, <2>4
<1>13. IsConcurrencyControl(dd)
  <2>1. \A i \in DOMAIN q : q[i].seqNo = cc.lastSequenceNumber - Len(q) + i
    BY <1>11, <1>12 DEF IsConcurrencyControl, InFlight
  <2>2. cc.lastSequenceNumber \in Nat /\ cc.contextVersion + 1 \in Nat \ {0}
        /\ Len(q) <= cc.lastSequenceNumber
    BY <1>11 DEF IsConcurrencyControl, InFlight
  <2> QED
    BY <1>9, <1>11, <1>12, <2>1, <2>2 DEF IsConcurrencyControl
<1> QED
  BY <1>9, <1>11, <1>12, <1>13 DEF StaysInFlight, InFlight

\* An edit goes in flight as the last.
LEMMA EditTakes ==
  ASSUME NEW cc, IsConcurrencyControl(cc), NEW session, NEW op,
         NEW dd, dd = CC!ProcessOutgoingOperation(cc, session, op)
  PROVE  /\ IsConcurrencyControl(dd)
         /\ dd.contextVersion = cc.contextVersion
         /\ dd.lastSequenceNumber = cc.lastSequenceNumber + 1
         /\ Len(InFlight(dd)) = Len(InFlight(cc)) + 1
         /\ InFlight(dd)[Len(InFlight(dd))].sessionId = session
         /\ \A i \in DOMAIN InFlight(cc) :
              i \in DOMAIN InFlight(dd) /\ InFlight(dd)[i] = InFlight(cc)[i]
<1>1. PICK outgoing : outgoing = CC!TransformOutgoing(cc.unappliedOperations, <<op>>)
  OBVIOUS
<1>2. PICK commit : commit = (IF CC!NothingOutstanding(cc) THEN FALSE ELSE cc.committed)
  OBVIOUS
<1>3. PICK noted : noted = [cc EXCEPT !.unappliedOperations = outgoing.serverOps,
                                      !.committed = commit]
  OBVIOUS
<1>4. /\ noted = [f \in ConcurrencyControlFields |-> noted[f]]
      /\ noted.lastSequenceNumber = cc.lastSequenceNumber
      /\ noted.contextVersion = cc.contextVersion /\ noted.compoundOpInProgress = FALSE
      /\ noted.inflightOperations = InFlight(cc)
  BY <1>3 DEF IsConcurrencyControl, ConcurrencyControlFields, InFlight
<1>5. dd = CC!PutInFlight(noted, session, outgoing.operation)
  BY <1>1, <1>2, <1>3, <1>4 DEF CC!ProcessOutgoingOperation, CC!Issue, IsConcurrencyControl,
                               ConcurrencyControlFields
<1>6. PICK event : event = CC!ClientOperationEvent(session, cc.lastSequenceNumber + 1,
                                                   cc.contextVersion, outgoing.operation)
  OBVIOUS
<1>7. event = [f \in EventFields |-> event[f]] /\ event.seqNo = cc.lastSequenceNumber + 1
      /\ event.sessionId = session
  BY <1>6 DEF CC!ClientOperationEvent, EventFields
<1>8. PICK q : q = Append(InFlight(cc), event)
  OBVIOUS
<1>9. dd = [noted EXCEPT !.lastSequenceNumber = cc.lastSequenceNumber + 1,
                         !.inflightOperations = q]
  BY <1>4, <1>5, <1>6, <1>8 DEF CC!PutInFlight, ConcurrencyControlFields
<1>10. /\ dd = [f \in ConcurrencyControlFields |-> dd[f]]
       /\ dd.lastSequenceNumber = cc.lastSequenceNumber + 1
       /\ dd.contextVersion = cc.contextVersion
       /\ dd.compoundOpInProgress = FALSE /\ dd.inflightOperations = q
  BY <1>4, <1>9 DEF ConcurrencyControlFields
<1>11. IsSequence(InFlight(cc)) /\ cc.lastSequenceNumber \in Nat /\ cc.contextVersion \in Nat \ {0}
       /\ Len(InFlight(cc)) <= cc.lastSequenceNumber
  BY DEF IsConcurrencyControl, InFlight
<1>12. /\ IsSequence(q) /\ Len(q) = Len(InFlight(cc)) + 1
       /\ \A i \in 1 .. Len(InFlight(cc)) : q[i] = InFlight(cc)[i]
       /\ q[Len(InFlight(cc)) + 1] = event
  BY <1>8, <1>11, AppendToSequence
<1>13. /\ Len(InFlight(cc)) \in Nat /\ DOMAIN InFlight(cc) = 1 .. Len(InFlight(cc))
       /\ DOMAIN q = 1 .. Len(InFlight(cc)) + 1
  BY <1>11, <1>12, SequenceIsFunction
<1>14. \A i \in DOMAIN q : i \in DOMAIN InFlight(cc) \/ i = Len(InFlight(cc)) + 1
  BY <1>13
<1>15. \A i \in DOMAIN InFlight(cc) :
         /\ InFlight(cc)[i] = [f \in EventFields |-> InFlight(cc)[i][f]]
         /\ InFlight(cc)[i].seqNo = cc.lastSequenceNumber - Len(InFlight(cc)) + i
  BY DEF IsConcurrencyControl, InFlight
<1>16. PICK l : l = cc.lastSequenceNumber + 1
  OBVIOUS
<1>17. \A i \in DOMAIN q : q[i] = [f \in EventFields |-> q[i][f]] /\ q[i].seqNo = l - Len(q) + i
  <2> SUFFICES ASSUME NEW i \in DOMAIN q
               PROVE  q[i] = [f \in EventFields |-> q[i][f]] /\ q[i].seqNo = l - Len(q) + i
    OBVIOUS
  <2>1. CASE i \in DOMAIN InFlight(cc)
    BY <1>11, <1>12, <1>13, <1>15, <1>16, <2>1
  <2>2. CASE i = Len(InFlight(cc)) + 1
    BY <1>7, <1>11, <1>12, <1>13, <1>16, <2>2
  <2> QED
    BY <1>14, <2>1, <2>2
<1>18. IsConcurrencyControl(dd)
  <2>1. l \in Nat /\ Len(q) <= l /\ dd.lastSequenceNumber = l
    BY <1>10, <1>11, <1>12, <1>13, <1>16
  <2> QED
    BY <1>10, <1>11, <1>12, <1>17, <2>1 DEF IsConcurrencyControl
<1> QED
  BY <1>7, <1>10, <1>12, <1>13, <1>18, SMTT(30) DEF InFlight

ClientFields ==
  {"open", "offline", "local", "resource", "closing", "event", "waitingForServer", "failed",
   "resyncOnly", "resync", "reconnectVersion", "buffered", "completed", "upToDate",
   "openAfterComplete", "cc", "entry", "tasks", "up", "epoch", "session", "keeps", "told",
   "late", "toldVersion", "toldClosed", "sent", "threw"}

IsClient(c) ==
  /\ c = [f \in ClientFields |-> c[f]]
  /\ c.resource \in Nat /\ c.reconnectVersion \in Int
  /\ IsSequence(c.buffered) /\ IsSequence(c.sent) /\ IsConcurrencyControl(c.cc)

VersionIsTold(c) == c.open => c.toldVersion = c.cc.contextVersion

\* What only the connection and a resynchronisation change
Frame(c) ==
  <<c.offline, c.local, c.resyncOnly, c.resync, c.reconnectVersion, c.buffered, c.completed,
    c.upToDate, c.openAfterComplete, c.entry, c.up, c.epoch, c.session, c.keeps, c.told, c.late>>

Message(c, type, number, version) ==
  [type |-> type, number |-> number, version |-> version, resource |-> c.resource]

Sent(messages, message) == Append(messages, message)

\* It has sent the message, or, closed, could not.
SendsTo(c, d, message) ==
  /\ IsClient(d) /\ Frame(d) = Frame(c) /\ d.cc = c.cc
  /\ (d.open <=> c.open) /\ d.resource = c.resource /\ (d.closing <=> c.closing)
  /\ (d.event <=> c.event) /\ (d.waitingForServer <=> c.waitingForServer)
  /\ (d.failed <=> c.failed) /\ d.toldVersion = c.toldVersion
  /\ (d.toldClosed <=> c.toldClosed)
  /\ c.open => d.sent = Sent(c.sent, message) /\ (d.threw <=> c.threw)
  /\ ~c.open => d.sent = c.sent /\ d.threw

\* Sending changes nothing of the client but what it has sent.
LEMMA SendMakes ==
  ASSUME NEW c, IsClient(c), NEW type, NEW number, NEW version,
         NEW d, d = Send(c, type, number, version)
  PROVE  SendsTo(c, d, Message(c, type, number, version))
<1>1. CASE c.open
  <2>1. PICK q : q = Append(c.sent, Message(c, type, number, version))
    OBVIOUS
  <2>2. d = [c EXCEPT !.sent = q]
    BY <1>1, <2>1 DEF Send, Message, IsClient, ClientFields
  <2>3. IsSequence(q)
    BY <2>1, AppendToSequence DEF IsClient
  <2>4. /\ IsClient(d) /\ Frame(d) = Frame(c) /\ d.cc = c.cc
        /\ (d.open <=> c.open) /\ d.resource = c.resource /\ (d.closing <=> c.closing)
        /\ (d.event <=> c.event) /\ (d.waitingForServer <=> c.waitingForServer)
        /\ (d.failed <=> c.failed) /\ d.toldVersion = c.toldVersion
        /\ (d.toldClosed <=> c.toldClosed) /\ d.sent = q /\ (d.threw <=> c.threw)
    BY <2>2, <2>3 DEF IsClient, ClientFields, Frame
  <2> QED
    BY <1>1, <2>1, <2>4 DEF Sent, SendsTo
<1>2. CASE ~c.open
  BY <1>2 DEF Send, Throws, IsClient, ClientFields, Frame, SendsTo
<1> QED
  BY <1>1, <1>2 DEF IsClient

\* The model is closing now, or closed.
Closes(c, d) ==
  /\ IsClient(d) /\ Frame(d) = Frame(c) /\ d.cc = c.cc /\ d.toldVersion = c.toldVersion
  /\ \/ (d.open <=> c.open) /\ d.closing /\ d.resource = c.resource /\ (d.toldClosed <=> c.toldClosed)
     \/ ~d.open /\ ~d.closing /\ d.resource = 0 /\ (d.toldClosed \/ ~d.event)

\* Closing leaves what is sent, and tells of it if there is an event for it.
LEMMA CloseMakes ==
  ASSUME NEW c, IsClient(c), NEW d, d = Close(c)
  PROVE  /\ Closes(c, d) /\ ~d.open /\ (d.failed <=> c.failed) /\ d.sent = c.sent
         /\ (d.threw <=> c.threw) /\ (d.event <=> c.event)
  BY ZenonT(60) DEF Close, EmitClosed, IsClient, ClientFields, Frame, Closes

\* Only a closing model closes by the check.
LEMMA CheckIfCanCloseMakes ==
  ASSUME NEW c, IsClient(c), NEW d, d = CheckIfCanClose(c)
  PROVE  d = c \/ (c.closing /\ d = Close(c))
  BY DEF CheckIfCanClose

(***************************************************************************)
(* What no error and no acknowledgement changes, field by field            *)
(***************************************************************************)

\* The frame field by field
LEMMA FrameMeans ==
  ASSUME NEW c, NEW d, Frame(d) = Frame(c)
  PROVE  /\ (d.offline <=> c.offline) /\ (d.local <=> c.local)
         /\ (d.resyncOnly <=> c.resyncOnly) /\ (d.resync <=> c.resync)
         /\ d.reconnectVersion = c.reconnectVersion /\ d.buffered = c.buffered
         /\ (d.completed <=> c.completed) /\ (d.upToDate <=> c.upToDate)
         /\ (d.openAfterComplete <=> c.openAfterComplete) /\ (d.entry <=> c.entry)
         /\ (d.up <=> c.up) /\ d.epoch = c.epoch /\ d.session = c.session /\ (d.keeps <=> c.keeps)
         /\ d.told = c.told /\ (d.late <=> c.late)
  BY DEF Frame

\* Which client it is, on which connection
Session(c) == <<c.up, c.epoch, c.session, c.keeps>>

\* The session is part of the frame.
LEMMA FrameHoldsSession ==
  ASSUME NEW c, NEW d, Frame(d) = Frame(c)
  PROVE  Session(d) = Session(c)
  BY DEF Frame, Session

\* Closed for good: who was to be told has been, or the service has no entry to close it by.
Gone(c) ==
  /\ IsClient(c) /\ ~c.open
  /\ c.toldClosed \/ (~c.event /\ ~c.entry /\ ~c.resync)

\* Closing tells of it, or is the last thing of a resynchronisation.
MayClose(c) == c.event \/ (~c.entry /\ ~c.resync)

\* It is closed, and has sent nothing over it.
GoneTo(c, d) ==
  /\ Gone(d) /\ d.sent = c.sent /\ Session(d) = Session(c)
  /\ d.cc.lastSequenceNumber = c.cc.lastSequenceNumber

\* What is gone over two steps is gone over both.
LEMMA GoneToIsTransitive ==
  ASSUME NEW c, NEW d, NEW e, GoneTo(c, d), GoneTo(d, e)
  PROVE  GoneTo(c, e)
  BY DEF GoneTo

\* A model that may close is gone when it does.
LEMMA CloseGoes ==
  ASSUME NEW c, IsClient(c), Gone(c) \/ MayClose(c), NEW d, d = Close(c)
  PROVE  GoneTo(c, d)
<1>1. /\ IsClient(d) /\ ~d.open /\ d.sent = c.sent /\ (d.event <=> c.event) /\ Frame(d) = Frame(c)
      /\ d.cc = c.cc
  BY CloseMakes DEF Closes
<1>2. (d.entry <=> c.entry) /\ (d.resync <=> c.resync) /\ Session(d) = Session(c)
  BY <1>1, FrameMeans, FrameHoldsSession
<1>3. d.toldClosed <=> (c.event \/ c.toldClosed)
  BY DEF Close, EmitClosed, IsClient, ClientFields
<1> QED
  BY <1>1, <1>2, <1>3 DEF GoneTo, Gone, MayClose

\* The check leaves a closed model closed.
LEMMA CheckIfCanCloseGoes ==
  ASSUME NEW c, Gone(c), NEW d, d = CheckIfCanClose(c)
  PROVE  GoneTo(c, d)
<1>1. d = c \/ d = Close(c)
  BY CheckIfCanCloseMakes DEF Gone
<1> QED
  BY <1>1, CloseGoes DEF Gone, GoneTo

(***************************************************************************)
(* Errors                                                                  *)
(***************************************************************************)

\* The server is asked to close the model.
Asks(c, d) ==
  /\ IsClient(d) /\ Frame(d) = Frame(c) /\ d.cc = c.cc /\ d.toldVersion = c.toldVersion
  /\ d.open /\ d.closing /\ d.resource = c.resource /\ (d.toldClosed <=> c.toldClosed)
  /\ d.sent = Sent(c.sent, Message(c, "close", c.epoch, 0))
  /\ (d.threw <=> c.threw) /\ (d.failed <=> c.failed)

\* With a connection, closing asks the server to close.
LEMMA InitiateCloseAsks ==
  ASSUME NEW c, IsClient(c), c.open, c.up, NEW closeWithServer, closeWithServer, NEW event,
         NEW d, d = InitiateClose(c, closeWithServer, event)
  PROVE  Asks(c, d) /\ (d.event <=> event)
<1>1. PICK waiting : waiting = Waits([c EXCEPT !.closing = TRUE, !.event = event,
                                               !.waitingForServer = TRUE],
                                     "close", c.epoch, c.epoch)
  OBVIOUS
<1>2. d = Send(waiting, "close", c.epoch, 0)
  BY <1>1 DEF InitiateClose, Request, IsClient, ClientFields
<1>3. /\ IsClient(waiting) /\ Frame(waiting) = Frame(c) /\ waiting.cc = c.cc
      /\ waiting.toldVersion = c.toldVersion
      /\ waiting.open /\ waiting.closing /\ waiting.resource = c.resource
      /\ (waiting.toldClosed <=> c.toldClosed) /\ waiting.sent = c.sent
      /\ (waiting.threw <=> c.threw) /\ (waiting.failed <=> c.failed)
      /\ (waiting.event <=> event)
  BY <1>1 DEF Waits, IsClient, ClientFields, Frame
<1>4. SendsTo(waiting, d, Message(waiting, "close", c.epoch, 0))
  BY <1>2, <1>3, SendMakes
<1>5. Message(waiting, "close", c.epoch, 0) = Message(c, "close", c.epoch, 0)
  BY <1>3 DEF Message
<1> QED
  BY Zenon, <1>3, <1>4, <1>5 DEF Asks, SendsTo

\* After an error the model is closing; one that was already takes no part any more.
Errs(c, d) ==
  /\ IsClient(d) /\ Frame(d) = Frame(c) /\ d.toldVersion = c.toldVersion
  /\ d.open /\ d.closing /\ d.failed /\ d.resource = c.resource /\ (d.toldClosed <=> c.toldClosed)
  /\ c.closing => d.threw /\ d.sent = c.sent /\ (d.event <=> c.event)
  /\ ~c.closing => /\ d.event /\ d.sent = Sent(c.sent, Message(c, "close", c.epoch, 0))
                   /\ (d.threw <=> c.threw)

\* An error makes a model that is not closing ask to close, and otherwise only throws.
LEMMA ErrorMakes ==
  ASSUME NEW c, IsClient(c), c.open, c.up, NEW d, d = HandleConcurrencyControlError(c)
  PROVE  Errs(c, d) /\ d.cc = c.cc
<1>1. CASE c.closing
  BY <1>1 DEF HandleConcurrencyControlError, IsClient, ClientFields, Frame, Errs
<1>2. CASE ~c.closing
  <2>1. PICK failed : failed = [c EXCEPT !.failed = TRUE]
    OBVIOUS
  <2>2. d = InitiateClose(failed, TRUE, TRUE)
    BY <1>2, <2>1 DEF HandleConcurrencyControlError
  <2>3. /\ IsClient(failed) /\ Frame(failed) = Frame(c) /\ failed.cc = c.cc
        /\ failed.toldVersion = c.toldVersion /\ failed.open /\ failed.resource = c.resource
        /\ (failed.toldClosed <=> c.toldClosed) /\ failed.sent = c.sent
        /\ (failed.threw <=> c.threw) /\ failed.failed /\ failed.epoch = c.epoch /\ failed.up
    BY <2>1 DEF IsClient, ClientFields, Frame
  <2>4. Asks(failed, d) /\ d.event
    BY <2>2, <2>3, InitiateCloseAsks
  <2>5. Message(failed, "close", failed.epoch, 0) = Message(c, "close", c.epoch, 0)
    BY <2>3 DEF Message
  <2> QED
    BY Zenon, <1>2, <2>3, <2>4, <2>5 DEF Asks, Errs
<1> QED
  BY <1>1, <1>2

\* An error leaves a closed model closed.
LEMMA ErrorGoes ==
  ASSUME NEW c, Gone(c), NEW d, d = HandleConcurrencyControlError(c)
  PROVE  GoneTo(c, d)
<1>1. d = [c EXCEPT !.failed = TRUE, !.threw = TRUE]
  BY DEF HandleConcurrencyControlError, Gone
<1> QED
  BY ZenonT(60), <1>1 DEF Gone, GoneTo, IsClient, ClientFields, Session

\* Closing that the server is not asked for: done at once, or when nothing is in flight.
Leaves(c, d) ==
  /\ IsClient(d) /\ Frame(d) = Frame(c) /\ d.cc = c.cc /\ d.toldVersion = c.toldVersion
  /\ d.open /\ d.closing /\ d.resource = c.resource /\ (d.toldClosed <=> c.toldClosed)
  /\ d.sent = c.sent /\ (d.threw <=> c.threw) /\ (d.failed <=> c.failed)

\* Closing without the server is over at once, unless something is in flight.
LEMMA InitiateCloseLeaves ==
  ASSUME NEW c, IsClient(c), c.open, NEW closeWithServer, ~(c.up /\ closeWithServer),
         NEW event, event \/ (~c.entry /\ ~c.resync),
         NEW d, d = InitiateClose(c, closeWithServer, event)
  PROVE  /\ (Leaves(c, d) /\ (d.event <=> event)) \/ GoneTo(c, d)
         /\ ~c.up => GoneTo(c, d) \/ c.waitingForServer
<1>1. PICK closing : closing = [c EXCEPT !.closing = TRUE, !.event = event]
  OBVIOUS
<1>2. /\ IsClient(closing) /\ Frame(closing) = Frame(c) /\ closing.cc = c.cc
      /\ closing.toldVersion = c.toldVersion /\ closing.open /\ closing.closing
      /\ closing.resource = c.resource /\ (closing.toldClosed <=> c.toldClosed)
      /\ closing.sent = c.sent /\ (closing.threw <=> c.threw) /\ (closing.failed <=> c.failed)
      /\ (closing.event <=> event) /\ (closing.waitingForServer <=> c.waitingForServer)
  BY <1>1 DEF IsClient, ClientFields, Frame
<1>3. d = CheckIfCanClose(closing)
  BY <1>1 DEF InitiateClose
<1>4. (closing.entry <=> c.entry) /\ (closing.resync <=> c.resync) /\ (closing.up <=> c.up)
      /\ Session(closing) = Session(c)
  BY <1>2, FrameMeans, FrameHoldsSession
<1>5. ASSUME d = Close(closing)
      PROVE  GoneTo(c, d)
  <2>1. GoneTo(closing, d)
    BY <1>2, <1>4, <1>5, CloseGoes DEF MayClose
  <2> QED
    BY <1>2, <1>4, <2>1 DEF GoneTo
<1>6. ASSUME d = closing
      PROVE  Leaves(c, d) /\ (d.event <=> event)
  BY <1>2, <1>6 DEF Leaves
<1>7. d = closing \/ d = Close(closing)
  BY <1>2, <1>3, CheckIfCanCloseMakes
<1>8. ASSUME ~c.up, ~c.waitingForServer
      PROVE  d = Close(closing)
  BY <1>2, <1>3, <1>4, <1>8 DEF CheckIfCanClose
<1> QED
  BY <1>5, <1>6, <1>7, <1>8

\* A closed model cannot be closed again.
LEMMA InitiateCloseGoes ==
  ASSUME NEW c, Gone(c), c.toldClosed, NEW closeWithServer, NEW event,
         NEW d, d = InitiateClose(c, closeWithServer, event)
  PROVE  GoneTo(c, d)
<1>1. d = Throws([c EXCEPT !.closing = TRUE, !.event = event])
  BY DEF InitiateClose, Gone, IsClient, ClientFields
<1> QED
  BY ZenonT(60), <1>1 DEF Throws, Gone, GoneTo, IsClient, ClientFields, Session

(***************************************************************************)
(* Operations acknowledged and operations of others                        *)
(***************************************************************************)

\* Nothing but the concurrency control, and what was told of its version, is another.
Keeps(c, d) ==
  /\ IsClient(d) /\ Frame(d) = Frame(c) /\ (d.open <=> c.open) /\ d.resource = c.resource
  /\ (d.closing <=> c.closing) /\ (d.event <=> c.event) /\ (d.failed <=> c.failed)
  /\ (d.waitingForServer <=> c.waitingForServer)
  /\ (d.toldClosed <=> c.toldClosed) /\ d.sent = c.sent /\ (d.threw <=> c.threw)

\* A new concurrency control changes nothing else of the client.
LEMMA ControlMakes ==
  ASSUME NEW c, IsClient(c), NEW cc, IsConcurrencyControl(cc), NEW d, d = [c EXCEPT !.cc = cc]
  PROVE  Keeps(c, d) /\ d.cc = cc /\ d.toldVersion = c.toldVersion
  BY DEF Keeps, IsClient, ClientFields, Frame

\* Telling the version changes nothing but what was told.
LEMMA TellsVersion ==
  ASSUME NEW c, IsClient(c), NEW d, d = EmitVersionChanged(c)
  PROVE  Keeps(c, d) /\ d.cc = c.cc /\ d.toldVersion = d.cc.contextVersion
  BY DEF EmitVersionChanged, Keeps, IsClient, ClientFields, Frame

\* A closed model stays closed over what the concurrency control does.
LEMMA KeepsGone ==
  ASSUME NEW c, NEW d, Gone(c), Keeps(c, d),
         d.cc.lastSequenceNumber = c.cc.lastSequenceNumber
  PROVE  GoneTo(c, d)
<1>1. (d.entry <=> c.entry) /\ (d.resync <=> c.resync) /\ Session(d) = Session(c)
  BY FrameMeans, FrameHoldsSession DEF Keeps
<1> QED
  BY <1>1 DEF Keeps, Gone, GoneTo

\* What is kept over two steps is kept over both.
LEMMA KeepsIsTransitive ==
  ASSUME NEW c, NEW d, NEW e, Keeps(c, d), Keeps(d, e)
  PROVE  Keeps(c, e)
  BY DEF Keeps

\* Whether the first operation in flight is the one acknowledged
AckMakes(c, version, seqNo, d) ==
  /\ CC!AcknowledgementAccepted(c.cc, version, seqNo) =>
       /\ d.cc = CC!ProcessAcknowledgement(c.cc)
       /\ \/ Keeps(c, d) /\ d.toldVersion = d.cc.contextVersion
          \/ c.closing /\ GoneTo(c, d)
  /\ ~CC!AcknowledgementAccepted(c.cc, version, seqNo) =>
       d.cc = CC!RefuseAcknowledgement(c.cc, version) /\ Errs(c, d)

\* An acknowledgement is taken, is refused with an error, or lets a closing model close.
LEMMA AckDoes ==
  ASSUME NEW c, IsClient(c), c.open, c.up, c.closing => MayClose(c),
         NEW version, NEW seqNo, NEW d, d = HandleOperationAck(c, version, seqNo)
  PROVE  AckMakes(c, version, seqNo, d)
<1>1. IsConcurrencyControl(c.cc)
  BY DEF IsClient
<1>2. ASSUME CC!AcknowledgementAccepted(c.cc, version, seqNo)
      PROVE  /\ d.cc = CC!ProcessAcknowledgement(c.cc)
             /\ \/ Keeps(c, d) /\ d.toldVersion = d.cc.contextVersion
                \/ c.closing /\ GoneTo(c, d)
  <2>1. PICK cc : cc = CC!ProcessAcknowledgement(c.cc)
    OBVIOUS
  <2>2. IsConcurrencyControl(cc) /\ cc.lastSequenceNumber = c.cc.lastSequenceNumber
    BY <1>1, <1>2, <2>1, AcknowledgementTakes DEF CC!AcknowledgementAccepted, InFlight, LeavesFlight
  <2>3. PICK e : e = [c EXCEPT !.cc = cc]
    OBVIOUS
  <2>4. PICK f : f = CheckIfCanClose(e)
    OBVIOUS
  <2>5. d = EmitVersionChanged(f)
    BY <1>2, <2>1, <2>3, <2>4 DEF HandleOperationAck
  <2>6. Keeps(c, e) /\ e.cc = cc
    BY <2>2, <2>3, ControlMakes
  <2>7. f = e \/ (e.closing /\ f = Close(e))
    BY <2>4, <2>6, CheckIfCanCloseMakes DEF Keeps
  <2>8. CASE f = e
    <3>1. Keeps(e, d) /\ d.cc = e.cc /\ d.toldVersion = d.cc.contextVersion
      BY <2>5, <2>6, <2>8, TellsVersion DEF Keeps
    <3> QED
      BY <2>1, <2>6, <3>1, KeepsIsTransitive
  <2>9. CASE e.closing /\ f = Close(e)
    <3>1. MayClose(e) /\ Session(e) = Session(c)
      BY <2>6, <2>9, FrameMeans, FrameHoldsSession DEF MayClose, Keeps
    <3>2. GoneTo(e, f) /\ f.cc = e.cc
      BY <2>6, <2>9, <3>1, CloseGoes, CloseMakes DEF Keeps, Closes
    <3>3. Keeps(f, d) /\ d.cc = f.cc
      BY <2>5, <3>2, TellsVersion DEF GoneTo, Gone
    <3>4. GoneTo(f, d)
      BY <3>2, <3>3, KeepsGone DEF GoneTo
    <3>5. GoneTo(e, d)
      BY <3>2, <3>4, GoneToIsTransitive
    <3>6. GoneTo(c, d)
      BY <2>2, <2>6, <3>1, <3>5 DEF GoneTo, Keeps
    <3> QED
      BY <2>1, <2>6, <2>9, <3>2, <3>3, <3>6 DEF Keeps
  <2> QED
    BY <2>7, <2>8, <2>9
<1>3. ASSUME ~CC!AcknowledgementAccepted(c.cc, version, seqNo)
      PROVE  d.cc = CC!RefuseAcknowledgement(c.cc, version) /\ Errs(c, d)
  <2>1. PICK cc : cc = CC!RefuseAcknowledgement(c.cc, version)
    OBVIOUS
  <2>2. IsConcurrencyControl(cc)
    BY <1>1, <2>1, RefusalTakes
  <2>3. PICK e : e = [c EXCEPT !.cc = cc]
    OBVIOUS
  <2>4. Keeps(c, e) /\ e.cc = cc /\ e.toldVersion = c.toldVersion
    BY <2>2, <2>3, ControlMakes
  <2>5. d = HandleConcurrencyControlError(e)
    BY <1>3, <2>1, <2>3 DEF HandleOperationAck
  <2>6. e.up /\ e.epoch = c.epoch
    BY <2>4, FrameMeans DEF Keeps
  <2>7. Errs(e, d) /\ d.cc = e.cc
    BY <2>4, <2>5, <2>6, ErrorMakes DEF Keeps
  <2>8. Message(e, "close", e.epoch, 0) = Message(c, "close", c.epoch, 0)
    BY <2>4, <2>6 DEF Message, Keeps
  <2> QED
    BY Zenon, <2>1, <2>4, <2>7, <2>8 DEF Errs, Keeps
<1> QED
  BY <1>2, <1>3 DEF AckMakes

\* A closed model stays closed over an acknowledgement.
LEMMA AckGoes ==
  ASSUME NEW c, Gone(c), NEW version, NEW seqNo, NEW d, d = HandleOperationAck(c, version, seqNo)
  PROVE  GoneTo(c, d)
<1>1. IsConcurrencyControl(c.cc) /\ IsClient(c)
  BY DEF IsClient, Gone
<1>2. CASE CC!AcknowledgementAccepted(c.cc, version, seqNo)
  <2>1. PICK cc : cc = CC!ProcessAcknowledgement(c.cc)
    OBVIOUS
  <2>2. IsConcurrencyControl(cc) /\ cc.lastSequenceNumber = c.cc.lastSequenceNumber
    BY <1>1, <1>2, <2>1, AcknowledgementTakes DEF CC!AcknowledgementAccepted, InFlight, LeavesFlight
  <2>3. PICK e : e = [c EXCEPT !.cc = cc]
    OBVIOUS
  <2>4. PICK f : f = CheckIfCanClose(e)
    OBVIOUS
  <2>5. d = EmitVersionChanged(f)
    BY <1>2, <2>1, <2>3, <2>4 DEF HandleOperationAck
  <2>6. GoneTo(c, e)
    BY <1>1, <2>2, <2>3, ControlMakes, KeepsGone
  <2>7. GoneTo(e, f)
    BY <2>4, <2>6, CheckIfCanCloseGoes DEF GoneTo
  <2>8. GoneTo(f, d)
    BY <2>5, <2>7, TellsVersion, KeepsGone DEF GoneTo, Gone
  <2> QED
    BY <2>6, <2>7, <2>8, GoneToIsTransitive
<1>3. CASE ~CC!AcknowledgementAccepted(c.cc, version, seqNo)
  <2>1. PICK cc : cc = CC!RefuseAcknowledgement(c.cc, version)
    OBVIOUS
  <2>2. IsConcurrencyControl(cc) /\ cc.lastSequenceNumber = c.cc.lastSequenceNumber
    BY <1>1, <2>1, RefusalTakes DEF LeavesFlight
  <2>3. PICK e : e = [c EXCEPT !.cc = cc]
    OBVIOUS
  <2>4. GoneTo(c, e)
    BY <1>1, <2>2, <2>3, ControlMakes, KeepsGone
  <2>5. d = HandleConcurrencyControlError(e)
    BY <1>3, <2>1, <2>3 DEF HandleOperationAck
  <2>6. GoneTo(e, d)
    BY <2>4, <2>5, ErrorGoes DEF GoneTo
  <2> QED
    BY <2>4, <2>6, GoneToIsTransitive
<1> QED
  BY <1>2, <1>3

\* An operation of another is taken if it is the next.
RemoteMakes(c, message, d) ==
  /\ message.version = c.cc.contextVersion =>
       /\ Keeps(c, d) /\ d.toldVersion = d.cc.contextVersion
       /\ StaysInFlight(c.cc, d.cc) /\ d.cc.contextVersion = c.cc.contextVersion + 1
  /\ message.version # c.cc.contextVersion => Errs(c, d) /\ d.cc = c.cc

\* A remote operation is taken and the version told, or refused with an error.
LEMMA RemoteDoes ==
  ASSUME NEW c, IsClient(c), c.open, c.up, NEW message, NEW d, d = ProcessRemoteOperation(c, message)
  PROVE  RemoteMakes(c, message, d)
<1>1. PICK event : event = CC!ServerOperationEvent(message.session, message.version, <<>>)
  OBVIOUS
<1>2. event.version = message.version
  BY <1>1 DEF CC!ServerOperationEvent
<1>3. d = ProcessServerOperationEvent(c, event)
  BY <1>1 DEF ProcessRemoteOperation
<1>4. ASSUME message.version = c.cc.contextVersion
      PROVE  /\ Keeps(c, d) /\ d.toldVersion = d.cc.contextVersion
             /\ StaysInFlight(c.cc, d.cc) /\ d.cc.contextVersion = c.cc.contextVersion + 1
  <2>1. PICK cc : cc = CC!TakeNextIncomingOperation(CC!ProcessRemoteOperation(c.cc, event))
    OBVIOUS
  <2>2. IsConcurrencyControl(c.cc)
    BY DEF IsClient
  <2>3. /\ IsConcurrencyControl(cc) /\ StaysInFlight(c.cc, cc)
        /\ cc.contextVersion = c.cc.contextVersion + 1
    BY <2>1, <2>2, RemoteTakes
  <2>4. PICK e : e = [c EXCEPT !.cc = cc]
    OBVIOUS
  <2>5. d = EmitVersionChanged(e)
    BY <1>2, <1>3, <1>4, <2>1, <2>4 DEF ProcessServerOperationEvent, CC!RemoteOperationAccepted
  <2>6. Keeps(c, e) /\ e.cc = cc
    BY <2>3, <2>4, ControlMakes
  <2>7. Keeps(e, d) /\ d.cc = e.cc /\ d.toldVersion = d.cc.contextVersion
    BY <2>5, <2>6, TellsVersion DEF Keeps
  <2> QED
    BY <2>3, <2>6, <2>7, KeepsIsTransitive
<1>5. ASSUME message.version # c.cc.contextVersion
      PROVE  Errs(c, d) /\ d.cc = c.cc
  <2>1. d = HandleConcurrencyControlError(c)
    BY <1>2, <1>3, <1>5 DEF ProcessServerOperationEvent, CC!RemoteOperationAccepted
  <2> QED
    BY <2>1, ErrorMakes
<1> QED
  BY <1>4, <1>5 DEF RemoteMakes

\* A closed model stays closed over a remote operation.
LEMMA RemoteGoes ==
  ASSUME NEW c, Gone(c), NEW message, NEW d, d = ProcessRemoteOperation(c, message)
  PROVE  GoneTo(c, d)
<1>1. PICK event : event = CC!ServerOperationEvent(message.session, message.version, <<>>)
  OBVIOUS
<1>2. d = ProcessServerOperationEvent(c, event)
  BY <1>1 DEF ProcessRemoteOperation
<1>3. CASE CC!RemoteOperationAccepted(c.cc, event)
  <2>1. PICK cc : cc = CC!TakeNextIncomingOperation(CC!ProcessRemoteOperation(c.cc, event))
    OBVIOUS
  <2>2. IsConcurrencyControl(c.cc) /\ IsClient(c)
    BY DEF IsClient, Gone
  <2>3. IsConcurrencyControl(cc) /\ cc.lastSequenceNumber = c.cc.lastSequenceNumber
    BY <2>1, <2>2, RemoteTakes DEF StaysInFlight
  <2>4. PICK e : e = [c EXCEPT !.cc = cc]
    OBVIOUS
  <2>5. d = EmitVersionChanged(e)
    BY <1>2, <1>3, <2>1, <2>4 DEF ProcessServerOperationEvent
  <2>6. GoneTo(c, e)
    BY <2>2, <2>3, <2>4, ControlMakes, KeepsGone
  <2>7. GoneTo(e, d)
    BY <2>5, <2>6, TellsVersion, KeepsGone DEF GoneTo, Gone
  <2> QED
    BY <2>6, <2>7, GoneToIsTransitive
<1>4. CASE ~CC!RemoteOperationAccepted(c.cc, event)
  BY <1>2, <1>4, ErrorGoes DEF ProcessServerOperationEvent
<1> QED
  BY <1>3, <1>4

(***************************************************************************)
(* The operations buffered while the model caught up                       *)
(***************************************************************************)

ProcessNext(c, i, processed) ==
  IF processed.threw THEN processed ELSE ProcessRemoteOperation(processed, c.buffered[i])

\* The client before the first of n operations and after each of them
ProcessesBuffered(c, p, n) ==
  p[0] = c /\ \A i \in 1 .. n : p[i] = ProcessNext(c, i, p[i - 1])

\* The loop over what is buffered, one by one
LEMMA BufferedOneByOne ==
  ASSUME NEW c, NEW n \in Nat, n = Len(c.buffered)
  PROVE  \E p : ProcessesBuffered(c, p, n) /\ ProcessBuffered(c) = p[n]
<1> DEFINE T == {k \in 0 .. n : \E p : ProcessesBuffered(c, p, k)}
<1>1. 0 \in T
  <2>1. ProcessesBuffered(c, [i \in {0} |-> c], 0)
    BY DEF ProcessesBuffered
  <2> QED
    BY <2>1
<1>2. ASSUME NEW k \in 0 .. n - 1, k \in T PROVE k + 1 \in T
  <2>1. PICK p : ProcessesBuffered(c, p, k)
    BY <1>2
  <2> DEFINE e == ProcessNext(c, k + 1, p[k])
             r == [i \in 0 .. n |-> IF i = k + 1 THEN e ELSE p[i]]
  <2>2. r[k + 1] = e /\ \A i \in 0 .. k : r[i] = p[i]
    OBVIOUS
  <2> HIDE DEF r
  <2>3. ASSUME NEW i \in 1 .. k + 1
        PROVE  r[i] = ProcessNext(c, i, r[i - 1])
    <3>1. CASE i = k + 1
      <4>1. r[i - 1] = p[k]
        BY <2>2, <3>1
      <4> QED
        BY <2>2, <3>1, <4>1
    <3>2. CASE i # k + 1
      <4>1. i \in 0 .. k /\ i - 1 \in 0 .. k /\ i \in 1 .. k
        BY <3>2
      <4> QED
        BY <2>1, <2>2, <4>1 DEF ProcessesBuffered
    <3> QED
      BY <3>1, <3>2
  <2>4. ProcessesBuffered(c, r, k + 1)
    BY <2>1, <2>2, <2>3 DEF ProcessesBuffered
  <2> QED
    BY <2>4
<1>3. n \in T
  <2> HIDE DEF T
  <2>1. 0 \in Nat /\ 0 <= n /\ \A k \in 0 .. n - 1 : k \in T => k + 1 \in T
    BY <1>2
  <2>2. 0 .. n \subseteq T
    BY <1>1, <2>1, UpTo
  <2> QED
    BY <2>2
<1>4. PICK p : ProcessesBuffered(c, p, n)
  BY <1>3
<1> DEFINE Body(f) == [i \in 0 .. n |->
             IF i = 0 THEN c
             ELSE IF f[i - 1].threw THEN f[i - 1]
             ELSE ProcessRemoteOperation(f[i - 1], c.buffered[i])]
           r == [i \in 0 .. n |-> p[i]]
<1>5. r = Body(r)
  <2>1. \A i \in 0 .. n : r[i] = p[i]
    OBVIOUS
  <2> HIDE DEF r
  <2>2. \A i \in 1 .. n : r[i] = ProcessNext(c, i, r[i - 1])
    <3> SUFFICES ASSUME NEW i \in 1 .. n PROVE r[i] = ProcessNext(c, i, r[i - 1])
      OBVIOUS
    <3>1. i \in 0 .. n /\ i - 1 \in 0 .. n
      OBVIOUS
    <3> QED
      BY <1>4, <2>1, <3>1 DEF ProcessesBuffered
  <2>3. r[0] = c
    BY <1>4, <2>1 DEF ProcessesBuffered
  <2>4. \A i \in 0 .. n : r[i] = Body(r)[i]
    BY <2>2, <2>3 DEF ProcessNext
  <2> QED
    BY <2>4 DEF r
<1> DEFINE f == CHOOSE g : g = Body(g)
<1>6. ProcessBuffered(c) = f[n]
  BY DEF ProcessBuffered
<1> HIDE DEF Body, r
<1>7. f = Body(f)
  BY <1>5
<1> HIDE DEF f
<1>8. f[0] = c /\ \A i \in 1 .. n : f[i] = ProcessNext(c, i, f[i - 1])
  BY <1>7 DEF Body, ProcessNext
<1>9. ProcessesBuffered(c, f, n)
  BY <1>8 DEF ProcessesBuffered
<1> QED
  BY <1>6, <1>9

\* What becomes of an open model that processes some of what it has buffered
Catches(c, d) ==
  /\ IsClient(d) /\ Frame(d) = Frame(c) /\ d.open /\ d.resource = c.resource
  /\ (d.toldClosed <=> c.toldClosed) /\ d.toldVersion = d.cc.contextVersion
  /\ StaysInFlight(c.cc, d.cc) /\ c.cc.contextVersion <= d.cc.contextVersion
  /\ c.closing => d.closing /\ (d.event <=> c.event) /\ d.sent = c.sent
  /\ ~c.closing /\ d.closing =>
       d.event /\ d.sent = Sent(c.sent, Message(c, "close", c.epoch, 0))
  /\ ~c.closing /\ ~d.closing =>
       /\ (d.event <=> c.event) /\ (d.failed <=> c.failed) /\ (d.threw <=> c.threw)
       /\ d.sent = c.sent /\ (d.waitingForServer <=> c.waitingForServer)

\* The versions it takes are those of operations it has buffered.
Takes(c, d) ==
  \A v \in Nat : c.cc.contextVersion <= v /\ v < d.cc.contextVersion =>
    \E i \in DOMAIN c.buffered : c.buffered[i].version = v

\* What stays in flight over two steps does over both.
LEMMA StaysInFlightIsTransitive ==
  ASSUME NEW cc, NEW dd, NEW ee, StaysInFlight(cc, dd), StaysInFlight(dd, ee)
  PROVE  StaysInFlight(cc, ee)
  BY DEF StaysInFlight

\* One more of what is buffered is taken.
LEMMA CatchesNext ==
  ASSUME NEW c, IsClient(c), c.open, c.up, NEW d, Catches(c, d), Takes(c, d),
         NEW i \in DOMAIN c.buffered, NEW e, e = ProcessNext(c, i, d)
  PROVE  Catches(c, e) /\ Takes(c, e)
<1>1. CASE d.threw
  BY <1>1 DEF ProcessNext
<1>2. CASE ~d.threw
  <2>1. e = ProcessRemoteOperation(d, c.buffered[i])
    BY <1>2 DEF ProcessNext
  <2>2. d.up /\ d.epoch = c.epoch /\ IsClient(d) /\ d.open
    BY FrameMeans DEF Catches
  <2>3. RemoteMakes(d, c.buffered[i], e)
    BY <2>1, <2>2, RemoteDoes
  <2>4. c.cc.contextVersion \in Nat /\ d.cc.contextVersion \in Nat
    BY <2>2 DEF IsClient, IsConcurrencyControl
  <2>5. ASSUME c.buffered[i].version = d.cc.contextVersion
        PROVE  Catches(c, e) /\ Takes(c, e)
    <3>1. /\ Keeps(d, e) /\ e.toldVersion = e.cc.contextVersion
          /\ StaysInFlight(d.cc, e.cc) /\ e.cc.contextVersion = d.cc.contextVersion + 1
      BY <2>3, <2>5 DEF RemoteMakes
    <3>2. StaysInFlight(c.cc, e.cc)
      BY <3>1, StaysInFlightIsTransitive DEF Catches
    <3>3. c.cc.contextVersion <= e.cc.contextVersion
      <4>1. c.cc.contextVersion <= d.cc.contextVersion
        BY DEF Catches
      <4> QED
        BY <2>4, <3>1, <4>1
    <3>4. Takes(c, e)
      <4> SUFFICES ASSUME NEW v \in Nat, c.cc.contextVersion <= v, v < e.cc.contextVersion
                   PROVE  \E j \in DOMAIN c.buffered : c.buffered[j].version = v
        BY DEF Takes
      <4>1. v = d.cc.contextVersion \/ v < d.cc.contextVersion
        BY <2>4, <3>1
      <4> QED
        BY <2>5, <4>1 DEF Takes
    <3>5. Catches(c, e)
      BY Zenon, <3>1, <3>2, <3>3 DEF Catches, Keeps
    <3> QED
      BY <3>4, <3>5
  <2>6. ASSUME c.buffered[i].version # d.cc.contextVersion
        PROVE  Catches(c, e) /\ Takes(c, e)
    <3>1. Errs(d, e) /\ e.cc = d.cc
      BY <2>3, <2>6 DEF RemoteMakes
    <3>2. Message(d, "close", d.epoch, 0) = Message(c, "close", c.epoch, 0)
      BY <2>2 DEF Catches, Message
    <3>3. Catches(c, e)
      BY Zenon, <3>1, <3>2 DEF Catches, Errs
    <3> QED
      BY <3>1, <3>3 DEF Takes
  <2> QED
    BY <2>5, <2>6
<1> QED
  BY <1>1, <1>2

\* Taking in what is buffered leaves all in flight, and ends early over an error.
LEMMA ProcessBufferedMakes ==
  ASSUME NEW c, IsClient(c), c.open, c.up, VersionIsTold(c), NEW d, d = ProcessBuffered(c)
  PROVE  Catches(c, d) /\ Takes(c, d)
<1>1. PICK n \in Nat : n = Len(c.buffered) /\ DOMAIN c.buffered = 1 .. n
  BY SequenceIsFunction DEF IsClient
<1>2. PICK p : ProcessesBuffered(c, p, n) /\ d = p[n]
  BY <1>1, BufferedOneByOne
<1> DEFINE T == {i \in 0 .. n : Catches(c, p[i]) /\ Takes(c, p[i])}
<1>3. 0 \in T
  <2>1. p[0] = c
    BY <1>2 DEF ProcessesBuffered
  <2>2. c.cc.contextVersion \in Nat /\ StaysInFlight(c.cc, c.cc)
    BY DEF IsClient, IsConcurrencyControl, StaysInFlight
  <2>3. Catches(c, c)
    BY <2>2 DEF Catches, VersionIsTold
  <2>4. Takes(c, c)
    BY <2>2 DEF Takes
  <2> QED
    BY <2>1, <2>3, <2>4
<1>4. ASSUME NEW i \in 0 .. n - 1, i \in T PROVE i + 1 \in T
  <2>1. i + 1 \in 1 .. n /\ (i + 1) - 1 = i /\ i + 1 \in 0 .. n
    OBVIOUS
  <2>2. p[i + 1] = ProcessNext(c, i + 1, p[i])
    BY <1>2, <2>1 DEF ProcessesBuffered
  <2>3. Catches(c, p[i]) /\ Takes(c, p[i])
    BY <1>4
  <2>4. Catches(c, p[i + 1]) /\ Takes(c, p[i + 1])
    BY <1>1, <2>1, <2>2, <2>3, CatchesNext
  <2> QED
    BY <2>1, <2>4
<1>5. 0 .. n \subseteq T
  <2> HIDE DEF T
  <2>1. 0 \in Nat /\ 0 <= n /\ \A i \in 0 .. n - 1 : i \in T => i + 1 \in T
    BY <1>4
  <2> QED
    BY <1>3, <2>1, UpTo
<1> QED
  BY <1>2, <1>5

\* A closed model stays closed over what it has buffered.
LEMMA ProcessBufferedGoes ==
  ASSUME NEW c, Gone(c), NEW d, d = ProcessBuffered(c)
  PROVE  GoneTo(c, d)
<1>1. PICK n \in Nat : n = Len(c.buffered)
  BY SequenceIsFunction DEF Gone, IsClient
<1>2. PICK p : ProcessesBuffered(c, p, n) /\ d = p[n]
  BY <1>1, BufferedOneByOne
<1> DEFINE T == {i \in 0 .. n : GoneTo(c, p[i])}
<1>3. 0 \in T
  BY <1>2 DEF ProcessesBuffered, GoneTo
<1>4. ASSUME NEW i \in 0 .. n - 1, i \in T PROVE i + 1 \in T
  <2>1. i + 1 \in 1 .. n /\ (i + 1) - 1 = i /\ i + 1 \in 0 .. n
    OBVIOUS
  <2>2. p[i + 1] = ProcessNext(c, i + 1, p[i])
    BY <1>2, <2>1 DEF ProcessesBuffered
  <2>3. GoneTo(c, p[i])
    BY <1>4
  <2>4. p[i + 1] = p[i] \/ GoneTo(p[i], p[i + 1])
    BY <2>2, <2>3, RemoteGoes DEF ProcessNext, GoneTo
  <2>5. GoneTo(c, p[i + 1])
    BY <2>3, <2>4, GoneToIsTransitive
  <2> QED
    BY <2>1, <2>5
<1>5. 0 .. n \subseteq T
  <2> HIDE DEF T
  <2>1. 0 \in Nat /\ 0 <= n /\ \A i \in 0 .. n - 1 : i \in T => i + 1 \in T
    BY <1>4
  <2> QED
    BY <1>3, <2>1, UpTo
<1> QED
  BY <1>2, <1>5

(***************************************************************************)
(* The operations in flight, sent again                                    *)
(***************************************************************************)

ResendNext(c, i, resent) == SendOperation(resent, InFlight(c.cc)[i])

\* The client before the first of n operations and after each of them
Resends(c, p, n) ==
  p[0] = c /\ \A i \in 1 .. n : p[i] = ResendNext(c, i, p[i - 1])

\* The loop over what is sent again, one by one
LEMMA ResentOneByOne ==
  ASSUME NEW c, NEW n \in Nat, n = Len(InFlight(c.cc))
  PROVE  \E p : Resends(c, p, n) /\ Resend(c) = p[n]
<1> DEFINE T == {k \in 0 .. n : \E p : Resends(c, p, k)}
<1>1. 0 \in T
  <2>1. Resends(c, [i \in {0} |-> c], 0)
    BY DEF Resends
  <2> QED
    BY <2>1
<1>2. ASSUME NEW k \in 0 .. n - 1, k \in T PROVE k + 1 \in T
  <2>1. PICK p : Resends(c, p, k)
    BY <1>2
  <2> DEFINE e == ResendNext(c, k + 1, p[k])
             r == [i \in 0 .. n |-> IF i = k + 1 THEN e ELSE p[i]]
  <2>2. r[k + 1] = e /\ \A i \in 0 .. k : r[i] = p[i]
    OBVIOUS
  <2> HIDE DEF r
  <2>3. ASSUME NEW i \in 1 .. k + 1
        PROVE  r[i] = ResendNext(c, i, r[i - 1])
    <3>1. CASE i = k + 1
      <4>1. r[i - 1] = p[k]
        BY <2>2, <3>1
      <4> QED
        BY <2>2, <3>1, <4>1
    <3>2. CASE i # k + 1
      <4>1. i \in 0 .. k /\ i - 1 \in 0 .. k /\ i \in 1 .. k
        BY <3>2
      <4> QED
        BY <2>1, <2>2, <4>1 DEF Resends
    <3> QED
      BY <3>1, <3>2
  <2>4. Resends(c, r, k + 1)
    BY <2>1, <2>2, <2>3 DEF Resends
  <2> QED
    BY <2>4
<1>3. n \in T
  <2> HIDE DEF T
  <2>1. 0 \in Nat /\ 0 <= n /\ \A k \in 0 .. n - 1 : k \in T => k + 1 \in T
    BY <1>2
  <2>2. 0 .. n \subseteq T
    BY <1>1, <2>1, UpTo
  <2> QED
    BY <2>2
<1>4. PICK p : Resends(c, p, n)
  BY <1>3
<1> DEFINE Body(f) == [i \in 0 .. n |->
             IF i = 0 THEN c
             ELSE SendOperation(f[i - 1], InFlight(c.cc)[i])]
           r == [i \in 0 .. n |-> p[i]]
<1>5. r = Body(r)
  <2>1. \A i \in 0 .. n : r[i] = p[i]
    OBVIOUS
  <2> HIDE DEF r
  <2>2. \A i \in 1 .. n : r[i] = ResendNext(c, i, r[i - 1])
    <3> SUFFICES ASSUME NEW i \in 1 .. n PROVE r[i] = ResendNext(c, i, r[i - 1])
      OBVIOUS
    <3>1. i \in 0 .. n /\ i - 1 \in 0 .. n
      OBVIOUS
    <3> QED
      BY <1>4, <2>1, <3>1 DEF Resends
  <2>3. r[0] = c
    BY <1>4, <2>1 DEF Resends
  <2>4. \A i \in 0 .. n : r[i] = Body(r)[i]
    BY <2>2, <2>3 DEF ResendNext
  <2> QED
    BY <2>4 DEF r
<1> DEFINE f == CHOOSE g : g = Body(g)
<1>6. Resend(c) = f[n]
  BY DEF Resend, InFlight
<1> HIDE DEF Body, r
<1>7. f = Body(f)
  BY <1>5
<1> HIDE DEF f
<1>8. f[0] = c /\ \A i \in 1 .. n : f[i] = ResendNext(c, i, f[i - 1])
  BY <1>7 DEF Body, ResendNext
<1>9. Resends(c, f, n)
  BY <1>8 DEF Resends
<1> QED
  BY <1>6, <1>9

Submission(c, event) == Message(c, "op", event.seqNo, event.contextVersion)

\* Nothing but what was sent is another.
Speaks(c, d) ==
  /\ IsClient(d) /\ Frame(d) = Frame(c) /\ d.cc = c.cc
  /\ (d.open <=> c.open) /\ d.resource = c.resource /\ (d.closing <=> c.closing)
  /\ (d.event <=> c.event) /\ (d.waitingForServer <=> c.waitingForServer)
  /\ (d.failed <=> c.failed) /\ d.toldVersion = c.toldVersion
  /\ (d.toldClosed <=> c.toldClosed) /\ (d.threw <=> c.threw)

\* The first n of the operations in flight are on their way, after what was sent before.
Submitted(c, d, n) ==
  /\ Len(d.sent) = Len(c.sent) + n
  /\ \A i \in 1 .. Len(c.sent) : d.sent[i] = c.sent[i]
  /\ \A i \in 1 .. n : d.sent[Len(c.sent) + i] = Submission(c, InFlight(c.cc)[i])

\* Whether a model may send depends on its frame only.
LEMMA SendEventsMeans ==
  ASSUME NEW c, NEW d, Frame(d) = Frame(c), SendEvents(c)
  PROVE  SendEvents(d)
  BY FrameMeans DEF SendEvents

\* One more of the operations in flight is sent again.
LEMMA SubmitsNext ==
  ASSUME NEW c, IsClient(c), c.open, SendEvents(c), NEW n \in Nat,
         NEW d, Speaks(c, d), Submitted(c, d, n), NEW e, e = ResendNext(c, n + 1, d)
  PROVE  Speaks(c, e) /\ Submitted(c, e, n + 1)
<1>1. PICK event : event = InFlight(c.cc)[n + 1]
  OBVIOUS
<1>2. SendEvents(d) /\ IsClient(d) /\ d.open
  BY SendEventsMeans DEF Speaks
<1>3. e = Send(d, "op", event.seqNo, event.contextVersion)
  BY <1>1, <1>2 DEF ResendNext, SendOperation
<1>4. SendsTo(d, e, Message(d, "op", event.seqNo, event.contextVersion))
  BY <1>2, <1>3, SendMakes
<1>5. Message(d, "op", event.seqNo, event.contextVersion) = Submission(c, event)
  BY DEF Message, Submission, Speaks
<1>6. Speaks(c, e)
  BY Zenon, <1>2, <1>4 DEF Speaks, SendsTo
<1>7. PICK q : q = d.sent
  OBVIOUS
<1>8. PICK message : message = Submission(c, event)
  OBVIOUS
<1>9. e.sent = Append(q, message)
  BY Zenon, <1>2, <1>4, <1>5, <1>7, <1>8 DEF SendsTo, Sent
<1>10. PICK m \in Nat : m = Len(c.sent)
  BY SequenceIsFunction DEF IsClient
<1>11. IsSequence(q) /\ Len(q) = m + n
  BY <1>2, <1>7, <1>10 DEF IsClient, Submitted
<1>12. PICK r : r = Append(q, message)
  OBVIOUS
<1>13. /\ Len(r) = m + n + 1 /\ r[m + n + 1] = message
       /\ \A i \in 1 .. m + n : r[i] = q[i]
  BY <1>11, <1>12, AppendToSequence
<1>14. \A i \in 1 .. m : r[i] = c.sent[i]
  BY <1>7, <1>10, <1>13 DEF Submitted
<1>15. \A i \in 1 .. n + 1 : r[m + i] = Submission(c, InFlight(c.cc)[i])
  <2> SUFFICES ASSUME NEW i \in 1 .. n + 1 PROVE r[m + i] = Submission(c, InFlight(c.cc)[i])
    OBVIOUS
  <2>1. CASE i = n + 1
    <3>1. m + i = m + n + 1
      BY <2>1
    <3> QED
      BY <1>1, <1>8, <1>13, <2>1, <3>1
  <2>2. CASE i \in 1 .. n
    <3>1. m + i \in 1 .. m + n
      BY <2>2
    <3>2. r[m + i] = q[m + i]
      BY <1>13, <3>1
    <3>3. q[m + i] = Submission(c, InFlight(c.cc)[i])
      BY <1>7, <1>10, <2>2 DEF Submitted
    <3> QED
      BY <3>2, <3>3
  <2> QED
    BY <2>1, <2>2
<1>16. Submitted(c, e, n + 1)
  <2>1. e.sent = r
    BY <1>9, <1>12
  <2>2. Len(r) = m + (n + 1)
    BY <1>13
  <2> QED
    BY <1>10, <1>14, <1>15, <2>1, <2>2 DEF Submitted
<1> QED
  BY <1>6, <1>16

\* All operations in flight are sent again, in their order.
LEMMA ResendMakes ==
  ASSUME NEW c, IsClient(c), c.open, SendEvents(c), NEW d, d = Resend(c)
  PROVE  Speaks(c, d) /\ Submitted(c, d, Len(InFlight(c.cc)))
<1>1. PICK n \in Nat : n = Len(InFlight(c.cc))
  BY InFlightIsNumbered DEF IsClient
<1>2. PICK p : Resends(c, p, n) /\ d = p[n]
  BY <1>1, ResentOneByOne
<1> DEFINE T == {i \in 0 .. n : Speaks(c, p[i]) /\ Submitted(c, p[i], i)}
<1>3. 0 \in T
  <2>1. p[0] = c
    BY <1>2 DEF Resends
  <2>2. Speaks(c, c)
    BY DEF Speaks
  <2>3. Submitted(c, c, 0)
    BY SequenceIsFunction DEF Submitted, IsClient
  <2> QED
    BY <2>1, <2>2, <2>3
<1>4. ASSUME NEW i \in 0 .. n - 1, i \in T PROVE i + 1 \in T
  <2>1. i + 1 \in 1 .. n /\ (i + 1) - 1 = i /\ i + 1 \in 0 .. n /\ i \in Nat
    OBVIOUS
  <2>2. p[i + 1] = ResendNext(c, i + 1, p[i])
    BY <1>2, <2>1 DEF Resends
  <2>3. Speaks(c, p[i]) /\ Submitted(c, p[i], i)
    BY <1>4
  <2>4. Speaks(c, p[i + 1]) /\ Submitted(c, p[i + 1], i + 1)
    BY <2>1, <2>2, <2>3, SubmitsNext
  <2> QED
    BY <2>1, <2>4
<1>5. 0 .. n \subseteq T
  <2> HIDE DEF T
  <2>1. 0 \in Nat /\ 0 <= n /\ \A i \in 0 .. n - 1 : i \in T => i + 1 \in T
    BY <1>4
  <2> QED
    BY <1>3, <2>1, UpTo
<1> QED
  BY <1>1, <1>2, <1>5

\* A closed model sends nothing.
LEMMA SendGoes ==
  ASSUME NEW c, Gone(c), NEW type, NEW number, NEW version,
         NEW d, d = Send(c, type, number, version)
  PROVE  GoneTo(c, d)
<1>1. SendsTo(c, d, Message(c, type, number, version))
  BY SendMakes DEF Gone
<1>2. (d.entry <=> c.entry) /\ (d.resync <=> c.resync) /\ Session(d) = Session(c)
  BY <1>1, FrameMeans, FrameHoldsSession DEF SendsTo
<1> QED
  BY Zenon, <1>1, <1>2 DEF SendsTo, Gone, GoneTo

\* A closed model sends nothing again.
LEMMA ResendGoes ==
  ASSUME NEW c, Gone(c), NEW d, d = Resend(c)
  PROVE  GoneTo(c, d)
<1>1. PICK n \in Nat : n = Len(InFlight(c.cc))
  BY InFlightIsNumbered DEF Gone, IsClient
<1>2. PICK p : Resends(c, p, n) /\ d = p[n]
  BY <1>1, ResentOneByOne
<1> DEFINE T == {i \in 0 .. n : GoneTo(c, p[i])}
<1>3. 0 \in T
  BY <1>2 DEF Resends, GoneTo
<1>4. ASSUME NEW i \in 0 .. n - 1, i \in T PROVE i + 1 \in T
  <2>1. i + 1 \in 1 .. n /\ (i + 1) - 1 = i /\ i + 1 \in 0 .. n
    OBVIOUS
  <2>2. p[i + 1] = ResendNext(c, i + 1, p[i])
    BY <1>2, <2>1 DEF Resends
  <2>3. GoneTo(c, p[i]) /\ Gone(p[i])
    BY <1>4 DEF GoneTo
  <2>4. p[i + 1] = p[i] \/ GoneTo(p[i], p[i + 1])
    BY <2>2, <2>3, SendGoes DEF ResendNext, SendOperation
  <2>5. GoneTo(c, p[i + 1])
    BY <2>3, <2>4, GoneToIsTransitive
  <2> QED
    BY <2>1, <2>5
<1>5. 0 .. n \subseteq T
  <2> HIDE DEF T
  <2>1. 0 \in Nat /\ 0 <= n /\ \A i \in 0 .. n - 1 : i \in T => i + 1 \in T
    BY <1>4
  <2> QED
    BY <1>3, <2>1, UpTo
<1> QED
  BY <1>2, <1>5

(***************************************************************************)
(* A model that has caught up                                              *)
(***************************************************************************)

\* What catching up does not change
Footing(c) ==
  <<c.offline, c.local, c.resyncOnly, c.resync, c.reconnectVersion, c.buffered, c.entry, c.up,
    c.epoch, c.session, c.keeps, c.told, c.late>>

\* The footing is part of the frame.
LEMMA FrameHoldsFooting ==
  ASSUME NEW c, NEW d, Frame(d) = Frame(c)
  PROVE  Footing(d) = Footing(c)
  BY DEF Frame, Footing

\* The footing field by field
LEMMA FootingMeans ==
  ASSUME NEW c, NEW d, Footing(d) = Footing(c)
  PROVE  /\ (d.offline <=> c.offline) /\ (d.local <=> c.local)
         /\ (d.resyncOnly <=> c.resyncOnly) /\ (d.resync <=> c.resync)
         /\ d.reconnectVersion = c.reconnectVersion /\ d.buffered = c.buffered
         /\ (d.entry <=> c.entry) /\ (d.up <=> c.up) /\ d.epoch = c.epoch
         /\ d.session = c.session /\ (d.keeps <=> c.keeps)
         /\ d.told = c.told /\ (d.late <=> c.late)
  BY DEF Footing

\* The session is part of the footing.
LEMMA FootingHoldsSession ==
  ASSUME NEW c, NEW d, Footing(d) = Footing(c)
  PROVE  Session(d) = Session(c)
  BY DEF Footing, Session

\* Neither changes, nor what concerns whether the model is open.
Stands(c, d) ==
  /\ IsClient(d) /\ Footing(d) = Footing(c) /\ (d.open <=> c.open) /\ d.resource = c.resource
  /\ (d.closing <=> c.closing) /\ (d.event <=> c.event) /\ (d.failed <=> c.failed)
  /\ (d.waitingForServer <=> c.waitingForServer) /\ (d.toldClosed <=> c.toldClosed)
  /\ d.cc = c.cc /\ d.toldVersion = c.toldVersion

\* Being up to date changes nothing else of the client.
LEMMA MarksUpToDate ==
  ASSUME NEW c, IsClient(c), NEW d, d = [c EXCEPT !.upToDate = TRUE]
  PROVE  /\ Stands(c, d) /\ d.upToDate /\ (d.completed <=> c.completed)
         /\ (d.openAfterComplete <=> c.openAfterComplete)
         /\ d.sent = c.sent /\ (d.threw <=> c.threw)
  BY DEF Stands, IsClient, ClientFields, Footing

\* Completing the resynchronisation says so to the server, after all that was sent.
LEMMA CompletionMakes ==
  ASSUME NEW c, IsClient(c), NEW d, d = CompleteResynchronization(c)
  PROVE  /\ Stands(c, d) /\ (d.upToDate <=> c.upToDate) /\ d.completed
         /\ d.openAfterComplete <=> ~c.resyncOnly
         /\ c.open => /\ d.sent = Sent(c.sent, Message(c, "complete", 0, IF c.resyncOnly THEN 0 ELSE 1))
                      /\ (d.threw <=> c.threw)
         /\ ~c.open => d.sent = c.sent /\ d.threw
<1>1. PICK version : version = IF c.resyncOnly THEN 0 ELSE 1
  OBVIOUS
<1>2. PICK e : e = [c EXCEPT !.completed = TRUE, !.openAfterComplete = ~c.resyncOnly]
  OBVIOUS
<1>3. d = Send(e, "complete", 0, version)
  BY <1>1, <1>2 DEF CompleteResynchronization
<1>4. /\ Stands(c, e) /\ (e.upToDate <=> c.upToDate) /\ e.completed
      /\ e.openAfterComplete <=> ~c.resyncOnly
      /\ e.sent = c.sent /\ (e.threw <=> c.threw)
  BY <1>2 DEF Stands, IsClient, ClientFields, Footing
<1>5. SendsTo(e, d, Message(e, "complete", 0, version))
  BY <1>3, <1>4, SendMakes DEF Stands
<1>6. Message(e, "complete", 0, version) = Message(c, "complete", 0, version)
  BY <1>4 DEF Message, Stands
<1>7. /\ Footing(d) = Footing(e) /\ (d.upToDate <=> e.upToDate) /\ (d.completed <=> e.completed)
      /\ (d.openAfterComplete <=> e.openAfterComplete)
  BY <1>5, FrameMeans, FrameHoldsFooting DEF SendsTo
<1>8. Stands(c, d)
  BY Zenon, <1>4, <1>5, <1>7 DEF Stands, SendsTo
<1>9. /\ c.open => /\ d.sent = Sent(c.sent, Message(c, "complete", 0, version))
                   /\ (d.threw <=> c.threw)
      /\ ~c.open => d.sent = c.sent /\ d.threw
  BY Zenon, <1>4, <1>5, <1>6 DEF Stands, SendsTo
<1> QED
  BY <1>1, <1>4, <1>7, <1>8, <1>9

\* What is sent when it has: everything in flight, unless it has closed over an error.
SaysItIsUpToDate(c, d) ==
  \E m \in {0, 1} :
    /\ m = 1 => d.closing /\ ~c.closing /\ d.sent[1] = Message(c, "close", c.epoch, 0)
    /\ d.threw => d.closing /\ Len(d.sent) = m
    /\ ~d.threw =>
         /\ d.completed /\ (d.openAfterComplete <=> ~c.resyncOnly)
         /\ Len(d.sent) = m + Len(InFlight(d.cc)) + 1
         /\ \A i \in DOMAIN InFlight(d.cc) : d.sent[m + i] = Submission(c, InFlight(d.cc)[i])
         /\ d.sent[m + Len(InFlight(d.cc)) + 1] =
              Message(c, "complete", 0, IF c.resyncOnly THEN 0 ELSE 1)

CaughtUp(c, d) ==
  /\ IsClient(d) /\ Footing(d) = Footing(c) /\ d.upToDate /\ d.open /\ d.resource = c.resource
  /\ (d.toldClosed <=> c.toldClosed) /\ d.toldVersion = d.cc.contextVersion
  /\ StaysInFlight(c.cc, d.cc) /\ c.cc.contextVersion <= d.cc.contextVersion /\ Takes(c, d)
  /\ c.closing => d.closing /\ (d.event <=> c.event)
  /\ ~c.closing /\ d.closing => d.event
  /\ ~d.closing => (d.failed <=> c.failed) /\ (d.waitingForServer <=> c.waitingForServer)
  /\ SaysItIsUpToDate(c, d)

\* One message sent after none
LEMMA OneMessage ==
  ASSUME NEW message
  PROVE  /\ IsSequence(Sent(<<>>, message)) /\ Len(Sent(<<>>, message)) = 1
         /\ Sent(<<>>, message)[1] = message
<1>1. PICK q : q = Append(<<>>, message)
  OBVIOUS
<1>2. IsSequence(q) /\ Len(q) = 0 + 1 /\ q[0 + 1] = message
  BY <1>1, EmptyIsSequence, AppendToSequence
<1> QED
  BY <1>1, <1>2 DEF Sent

\* One message sent after others
LEMMA LastMessage ==
  ASSUME NEW q, IsSequence(q), NEW message, NEW r, r = Sent(q, message)
  PROVE  /\ IsSequence(r) /\ Len(r) = Len(q) + 1 /\ r[Len(q) + 1] = message
         /\ \A i \in 1 .. Len(q) : r[i] = q[i]
  BY AppendToSequence DEF Sent

\* A model that comes to the end of the history takes in what it has buffered, sends again
\* what is in flight and says that it is up to date.
LEMMA UpToDateDoes ==
  ASSUME NEW c, IsClient(c), c.open, c.up, ~c.offline, VersionIsTold(c), c.sent = <<>>, ~c.threw,
         NEW d, d = UpToDate(c)
  PROVE  CaughtUp(c, d)
<1>1. PICK u : u = [c EXCEPT !.upToDate = TRUE]
  OBVIOUS
<1>2. /\ Stands(c, u) /\ u.upToDate /\ (u.completed <=> c.completed)
      /\ u.sent = <<>> /\ ~u.threw
  BY <1>1, MarksUpToDate
<1>3. /\ IsClient(u) /\ u.open /\ u.up /\ ~u.offline /\ u.epoch = c.epoch /\ VersionIsTold(u)
      /\ (u.resyncOnly <=> c.resyncOnly) /\ u.resource = c.resource /\ u.cc = c.cc
      /\ u.buffered = c.buffered /\ (u.closing <=> c.closing) /\ (u.event <=> c.event)
      /\ (u.failed <=> c.failed) /\ (u.toldClosed <=> c.toldClosed)
      /\ (u.waitingForServer <=> c.waitingForServer)
  BY <1>2, FootingMeans DEF Stands, VersionIsTold
<1>4. PICK b : b = ProcessBuffered(u)
  OBVIOUS
<1>5. Catches(u, b) /\ Takes(u, b)
  BY <1>3, <1>4, ProcessBufferedMakes
<1>6. /\ Footing(b) = Footing(c) /\ b.upToDate /\ ~b.offline /\ b.up /\ Takes(c, b)
      /\ (b.resyncOnly <=> c.resyncOnly) /\ b.resource = c.resource
  <2>1. Frame(b) = Frame(u) /\ b.resource = u.resource
    BY <1>5 DEF Catches
  <2>2. Footing(b) = Footing(u)
    BY <2>1, FrameHoldsFooting
  <2>3. Footing(b) = Footing(c)
    BY <1>2, <2>2 DEF Stands
  <2>4. Takes(c, b)
    BY <1>3, <1>5 DEF Takes
  <2> QED
    BY <1>2, <1>3, <2>1, <2>3, <2>4, FrameMeans
<1>7. Message(u, "close", u.epoch, 0) = Message(c, "close", c.epoch, 0)
  BY <1>3 DEF Message
<1>8. PICK m \in {0, 1} : /\ Len(b.sent) = m
                          /\ m = 1 => /\ b.closing /\ ~c.closing
                                      /\ b.sent[1] = Message(c, "close", c.epoch, 0)
  <2>1. CASE c.closing \/ ~b.closing
    <3>1. b.sent = <<>>
      BY <1>2, <1>3, <1>5, <2>1 DEF Catches
    <3> QED
      BY <3>1, EmptyIsSequence
  <2>2. CASE ~c.closing /\ b.closing
    <3>1. b.sent = Sent(<<>>, Message(c, "close", c.epoch, 0))
      BY <1>2, <1>3, <1>5, <1>7, <2>2 DEF Catches
    <3> QED
      BY <2>2, <3>1, OneMessage
  <2> QED
    BY <2>1, <2>2
<1>9. b.threw => b.closing
  BY <1>2, <1>3, <1>5 DEF Catches
<1>10. CASE b.threw
  <2>1. d = b
    BY <1>1, <1>4, <1>10 DEF UpToDate
  <2>2. SaysItIsUpToDate(c, d)
    BY <1>8, <1>9, <1>10, <2>1 DEF SaysItIsUpToDate
  <2> QED
    BY Zenon, <1>3, <1>5, <1>6, <2>1, <2>2 DEF CaughtUp, Catches
<1>11. CASE ~b.threw
  <2>1. PICK s : s = Resend(b)
    OBVIOUS
  <2>2. d = CompleteResynchronization(s)
    BY <1>1, <1>4, <1>11, <2>1 DEF UpToDate
  <2>3. IsClient(b) /\ b.open /\ SendEvents(b)
    BY <1>5, <1>6 DEF Catches, SendEvents
  <2>4. PICK n \in Nat : n = Len(InFlight(b.cc)) /\ DOMAIN InFlight(b.cc) = 1 .. n
    BY <2>3, InFlightIsNumbered DEF IsClient
  <2>5. Speaks(b, s) /\ Submitted(b, s, n)
    BY <2>1, <2>3, <2>4, ResendMakes
  <2>6. IsClient(s) /\ s.open /\ (s.resyncOnly <=> c.resyncOnly) /\ ~s.threw
    BY <1>6, <1>11, <2>3, <2>5, FrameMeans DEF Speaks
  <2>7. PICK version : version = IF c.resyncOnly THEN 0 ELSE 1
    OBVIOUS
  <2>8. /\ Stands(s, d) /\ (d.upToDate <=> s.upToDate) /\ d.completed
        /\ d.openAfterComplete <=> ~s.resyncOnly
        /\ d.sent = Sent(s.sent, Message(s, "complete", 0, IF s.resyncOnly THEN 0 ELSE 1))
        /\ (d.threw <=> s.threw)
    BY <2>2, <2>6, CompletionMakes
  <2>9. Message(s, "complete", 0, IF s.resyncOnly THEN 0 ELSE 1) = Message(c, "complete", 0, version)
    <3>1. s.resource = c.resource
      BY <1>6, <2>5 DEF Speaks
    <3>2. (IF s.resyncOnly THEN 0 ELSE 1) = version
      BY <2>6, <2>7
    <3> QED
      BY <3>1, <3>2 DEF Message
  <2>10. Footing(d) = Footing(c) /\ d.upToDate
    <3>1. Footing(s) = Footing(b) /\ (s.upToDate <=> b.upToDate)
      BY <2>5, FrameHoldsFooting, FrameMeans DEF Speaks
    <3> QED
      BY <1>6, <2>8, <3>1 DEF Stands
  <2>11. /\ (d.open <=> b.open) /\ d.resource = b.resource /\ (d.closing <=> b.closing)
         /\ (d.event <=> b.event) /\ (d.failed <=> b.failed) /\ (d.toldClosed <=> b.toldClosed)
         /\ (d.waitingForServer <=> b.waitingForServer)
         /\ d.cc = b.cc /\ d.toldVersion = b.toldVersion /\ IsClient(d) /\ ~d.threw
    BY Zenon, <2>5, <2>6, <2>8 DEF Stands, Speaks
  <2>12. PICK q : q = s.sent
    OBVIOUS
  <2>13. /\ IsSequence(q) /\ Len(q) = m + n
         /\ \A i \in 1 .. m : q[i] = b.sent[i]
         /\ \A i \in 1 .. n : q[m + i] = Submission(b, InFlight(b.cc)[i])
    BY <1>8, <2>5, <2>6, <2>12 DEF Submitted, IsClient
  <2>14. PICK r : r = d.sent
    OBVIOUS
  <2>15. /\ Len(r) = m + n + 1 /\ r[m + n + 1] = Message(c, "complete", 0, version)
         /\ \A i \in 1 .. m + n : r[i] = q[i]
    <3>1. PICK message : message = Message(c, "complete", 0, version)
      OBVIOUS
    <3>2. r = Sent(q, message)
      BY Zenon, <2>8, <2>9, <2>12, <2>14, <3>1
    <3>3. IsSequence(q) /\ Len(q) = m + n
      BY <2>13
    <3>4. Len(r) = Len(q) + 1 /\ r[Len(q) + 1] = message
      BY <3>2, <3>3, LastMessage
    <3>5. \A i \in 1 .. Len(q) : r[i] = q[i]
      BY <3>2, <3>3, LastMessage
    <3> QED
      BY <3>1, <3>3, <3>4, <3>5
  <2>16. ASSUME NEW i \in 1 .. n PROVE r[m + i] = Submission(c, InFlight(b.cc)[i])
    <3>1. m + i \in 1 .. m + n
      OBVIOUS
    <3>2. r[m + i] = q[m + i]
      BY <2>15, <3>1
    <3>3. q[m + i] = Submission(b, InFlight(b.cc)[i])
      BY <2>13
    <3>4. Submission(b, InFlight(b.cc)[i]) = Submission(c, InFlight(b.cc)[i])
      BY <1>6 DEF Submission, Message
    <3> QED
      BY <3>2, <3>3, <3>4
  <2>17. m = 1 => d.closing /\ ~c.closing /\ r[1] = Message(c, "close", c.epoch, 0)
    <3> SUFFICES ASSUME m = 1
                 PROVE  d.closing /\ ~c.closing /\ r[1] = Message(c, "close", c.epoch, 0)
      OBVIOUS
    <3>1. 1 \in 1 .. m + n /\ 1 \in 1 .. m
      OBVIOUS
    <3>2. r[1] = q[1] /\ q[1] = b.sent[1]
      BY <2>13, <2>15, <3>1
    <3> QED
      BY <1>8, <2>11, <3>2
  <2>18. SaysItIsUpToDate(c, d)
    <3>1. InFlight(d.cc) = InFlight(b.cc)
      BY <2>11
    <3>2. d.openAfterComplete <=> ~c.resyncOnly
      BY <2>6, <2>8
    <3> QED
      <4>1. ~d.threw
        BY <2>11
      <4>2. /\ d.completed /\ (d.openAfterComplete <=> ~c.resyncOnly)
            /\ Len(d.sent) = m + Len(InFlight(d.cc)) + 1
            /\ \A i \in DOMAIN InFlight(d.cc) : d.sent[m + i] = Submission(c, InFlight(d.cc)[i])
            /\ d.sent[m + Len(InFlight(d.cc)) + 1] =
                 Message(c, "complete", 0, IF c.resyncOnly THEN 0 ELSE 1)
        BY <2>4, <2>7, <2>8, <2>14, <2>15, <2>16, <3>1, <3>2
      <4>3. m = 1 => d.closing /\ ~c.closing /\ d.sent[1] = Message(c, "close", c.epoch, 0)
        BY <2>14, <2>17
      <4> QED
        BY <4>1, <4>2, <4>3 DEF SaysItIsUpToDate
  <2>19. /\ d.toldVersion = d.cc.contextVersion /\ StaysInFlight(c.cc, d.cc)
         /\ c.cc.contextVersion <= d.cc.contextVersion /\ Takes(c, d)
         /\ (d.toldClosed <=> c.toldClosed)
    BY <1>3, <1>5, <1>6, <2>11 DEF Catches, Takes
  <2>20. /\ c.closing => d.closing /\ (d.event <=> c.event)
         /\ ~c.closing /\ d.closing => d.event
         /\ ~d.closing => (d.failed <=> c.failed) /\ (d.waitingForServer <=> c.waitingForServer)
    BY Zenon, <1>3, <1>5, <2>11 DEF Catches
  <2> QED
    BY <1>6, <2>3, <2>10, <2>11, <2>18, <2>19, <2>20 DEF CaughtUp
<1> QED
  BY <1>10, <1>11

\* What neither begins nor ends with a resynchronisation
Remains(c, d) ==
  /\ IsClient(d) /\ Session(d) = Session(c) /\ (d.open <=> c.open) /\ (d.offline <=> c.offline)
  /\ (d.local <=> c.local) /\ d.resource = c.resource /\ (d.closing <=> c.closing)
  /\ (d.event <=> c.event) /\ (d.waitingForServer <=> c.waitingForServer)
  /\ (d.failed <=> c.failed) /\ (d.resyncOnly <=> c.resyncOnly) /\ d.cc = c.cc
  /\ (d.entry <=> c.entry) /\ d.told = c.told /\ (d.late <=> c.late)
  /\ d.toldVersion = c.toldVersion /\ (d.toldClosed <=> c.toldClosed)
  /\ d.sent = c.sent /\ (d.threw <=> c.threw)

\* What remains over two steps remains over both.
LEMMA RemainsIsTransitive ==
  ASSUME NEW c, NEW d, NEW e, Remains(c, d), Remains(d, e)
  PROVE  Remains(c, e)
  BY DEF Remains

\* The data of the resynchronisation are gone.
EndsResync(c, d) ==
  /\ Remains(c, d) /\ ~d.resync /\ ~d.completed /\ ~d.upToDate /\ ~d.openAfterComplete
  /\ d.reconnectVersion = Unknown /\ d.buffered = <<>>

\* They are as at the beginning.
BeginsResync(c, d) ==
  /\ Remains(c, d) /\ d.resync /\ ~d.completed /\ ~d.upToDate /\ ~d.openAfterComplete
  /\ d.reconnectVersion = Unknown /\ d.buffered = <<>>

\* Ending a resynchronisation resets its data and nothing else.
LEMMA ProgressEnds ==
  ASSUME NEW c, IsClient(c),
         NEW d, d = [c EXCEPT !.completed = FALSE, !.upToDate = FALSE, !.openAfterComplete = FALSE]
  PROVE  /\ Remains(c, d) /\ (d.resync <=> c.resync) /\ d.reconnectVersion = c.reconnectVersion
         /\ d.buffered = c.buffered /\ ~d.completed /\ ~d.upToDate /\ ~d.openAfterComplete
  BY DEF Remains, IsClient, ClientFields, Session

\* A model whose resynchronisation ends is as it was but for that.
LEMMA ResyncingEnds ==
  ASSUME NEW c, IsClient(c), NEW d, d = Resyncing(c, FALSE)
  PROVE  EndsResync(c, d)
<1>1. PICK none : none = <<>>
  OBVIOUS
<1>2. IsSequence(none) /\ Unknown \in Int
  BY <1>1, EmptyIsSequence DEF Unknown
<1>3. PICK x : x = [c EXCEPT !.resync = FALSE, !.reconnectVersion = Unknown, !.buffered = none]
  OBVIOUS
<1>4. d = [x EXCEPT !.completed = FALSE, !.upToDate = FALSE, !.openAfterComplete = FALSE]
  BY <1>1, <1>3 DEF Resyncing
<1>5. Remains(c, x) /\ ~x.resync /\ x.reconnectVersion = Unknown /\ x.buffered = none
  BY <1>2, <1>3 DEF Remains, IsClient, ClientFields, Session
<1>6. IsClient(x)
  BY <1>5 DEF Remains
<1>7. /\ Remains(x, d) /\ (d.resync <=> x.resync) /\ d.reconnectVersion = x.reconnectVersion
      /\ d.buffered = x.buffered /\ ~d.completed /\ ~d.upToDate /\ ~d.openAfterComplete
  BY <1>4, <1>6, ProgressEnds
<1>8. Remains(c, d)
  BY <1>5, <1>7, RemainsIsTransitive
<1> QED
  BY Zenon, <1>1, <1>5, <1>7, <1>8 DEF EndsResync

\* A model whose resynchronisation begins is as it was but for that.
LEMMA ResyncingBegins ==
  ASSUME NEW c, IsClient(c), NEW d, d = Resyncing(c, TRUE)
  PROVE  BeginsResync(c, d)
<1>1. PICK none : none = <<>>
  OBVIOUS
<1>2. IsSequence(none) /\ Unknown \in Int
  BY <1>1, EmptyIsSequence DEF Unknown
<1>3. PICK x : x = [c EXCEPT !.resync = TRUE, !.reconnectVersion = Unknown, !.buffered = none]
  OBVIOUS
<1>4. d = [x EXCEPT !.completed = FALSE, !.upToDate = FALSE, !.openAfterComplete = FALSE]
  BY <1>1, <1>3 DEF Resyncing
<1>5. Remains(c, x) /\ x.resync /\ x.reconnectVersion = Unknown /\ x.buffered = none
  BY <1>2, <1>3 DEF Remains, IsClient, ClientFields, Session
<1>6. IsClient(x)
  BY <1>5 DEF Remains
<1>7. /\ Remains(x, d) /\ (d.resync <=> x.resync) /\ d.reconnectVersion = x.reconnectVersion
      /\ d.buffered = x.buffered /\ ~d.completed /\ ~d.upToDate /\ ~d.openAfterComplete
  BY <1>4, <1>6, ProgressEnds
<1>8. Remains(c, d)
  BY <1>5, <1>7, RemainsIsTransitive
<1> QED
  BY Zenon, <1>1, <1>5, <1>7, <1>8 DEF BeginsResync

(***************************************************************************)
(* A closed model hears of the messages to it, but stays closed.           *)
(***************************************************************************)

\* A closed model stays closed when it comes to the end of the history.
LEMMA UpToDateGoes ==
  ASSUME NEW c, Gone(c), NEW d, d = UpToDate(c)
  PROVE  GoneTo(c, d)
<1>1. PICK u : u = [c EXCEPT !.upToDate = TRUE]
  OBVIOUS
<1>2. GoneTo(c, u)
  BY <1>1 DEF Gone, GoneTo, IsClient, ClientFields, Session
<1>3. PICK b : b = ProcessBuffered(u)
  OBVIOUS
<1>4. GoneTo(u, b)
  BY <1>2, <1>3, ProcessBufferedGoes DEF GoneTo
<1>5. PICK s : s = Resend(b)
  OBVIOUS
<1>6. GoneTo(b, s)
  BY <1>4, <1>5, ResendGoes DEF GoneTo
<1>7. PICK e : e = [s EXCEPT !.completed = TRUE, !.openAfterComplete = ~s.resyncOnly]
  OBVIOUS
<1>8. GoneTo(s, e)
  BY <1>6, <1>7 DEF Gone, GoneTo, IsClient, ClientFields, Session
<1>9. ASSUME NEW f, f = CompleteResynchronization(s)
      PROVE  GoneTo(e, f)
  <2>1. PICK version : version = IF s.resyncOnly THEN 0 ELSE 1
    OBVIOUS
  <2>2. f = Send(e, "complete", 0, version)
    BY <1>7, <1>9, <2>1 DEF CompleteResynchronization
  <2> QED
    BY <1>8, <2>2, SendGoes DEF GoneTo
<1>10. d = b \/ d = CompleteResynchronization(s)
  BY <1>1, <1>3, <1>5 DEF UpToDate
<1> QED
  BY <1>2, <1>4, <1>6, <1>8, <1>9, <1>10, GoneToIsTransitive

\* A closed model stays closed over the check for the end of the history.
LEMMA CheckGoes ==
  ASSUME NEW c, Gone(c), NEW d, d = CheckForReconnectUpToDate(c)
  PROVE  GoneTo(c, d)
<1>1. d = c \/ d = UpToDate(c)
  BY DEF CheckForReconnectUpToDate
<1> QED
  BY <1>1, UpToDateGoes DEF GoneTo

\* A closed model stays closed over a remote operation, resynchronising or not.
LEMMA HandleRemoteGoes ==
  ASSUME NEW c, Gone(c), NEW message, NEW d, d = HandleRemoteOperation(c, message)
  PROVE  GoneTo(c, d)
<1>1. CASE d = ProcessRemoteOperation(c, message)
  BY <1>1, RemoteGoes
<1>2. CASE d = [c EXCEPT !.buffered = Append(@, message)]
  <2>1. PICK q : q = Append(c.buffered, message)
    OBVIOUS
  <2>2. IsSequence(q)
    BY <2>1, AppendToSequence DEF Gone, IsClient
  <2>3. d = [c EXCEPT !.buffered = q]
    BY <1>2, <2>1 DEF Gone, IsClient, ClientFields
  <2> QED
    BY <2>2, <2>3 DEF Gone, GoneTo, IsClient, ClientFields, Session
<1>3. ASSUME NEW e, e = HandleOperationAck(c, message.version, 0) \/ e = ProcessRemoteOperation(c, message),
             d = CheckForReconnectUpToDate(e)
      PROVE  GoneTo(c, d)
  <2>1. GoneTo(c, e)
    BY <1>3, AckGoes, RemoteGoes
  <2>2. GoneTo(e, d)
    BY <1>3, <2>1, CheckGoes DEF GoneTo
  <2> QED
    BY <2>1, <2>2, GoneToIsTransitive
<1>4. PICK e : e = (IF IsOwn(c, message) THEN HandleOperationAck(c, message.version, 0)
                    ELSE ProcessRemoteOperation(c, message))
  OBVIOUS
<1>5. \/ d = ProcessRemoteOperation(c, message)
      \/ d = [c EXCEPT !.buffered = Append(@, message)]
      \/ d = CheckForReconnectUpToDate(e)
  BY <1>4 DEF HandleRemoteOperation
<1>6. e = HandleOperationAck(c, message.version, 0) \/ e = ProcessRemoteOperation(c, message)
  BY <1>4
<1> QED
  BY <1>1, <1>2, <1>3, <1>5, <1>6

\* A closed model stays closed when the server closes it.
LEMMA ForceCloseGoes ==
  ASSUME NEW c, Gone(c), c.entry, NEW d, d = HandleForceClose(c)
  PROVE  GoneTo(c, d)
<1>1. d = c \/ d = InitiateClose(c, FALSE, TRUE)
  BY DEF HandleForceClose
<1>2. c.toldClosed
  BY DEF Gone
<1>3. CASE d = c
  BY <1>3 DEF GoneTo
<1>4. CASE d = InitiateClose(c, FALSE, TRUE)
  BY Zenon, <1>2, <1>4, InitiateCloseGoes
<1> QED
  BY <1>1, <1>3, <1>4

\* A closed model stays closed when the resynchronisation ends.
LEMMA ServerCompleteGoes ==
  ASSUME NEW c, Gone(c), NEW d, d = HandleModelResyncServerComplete(c)
  PROVE  GoneTo(c, d)
<1>1. PICK done : done = [EmitState(Resyncing(c, FALSE), "resync_completed") EXCEPT !.entry = FALSE]
  OBVIOUS
<1>2. GoneTo(c, done) /\ (done.toldClosed <=> c.toldClosed)
  <2>1. PICK r : r = Resyncing(c, FALSE)
    OBVIOUS
  <2>2. EndsResync(c, r)
    BY <2>1, ResyncingEnds DEF Gone
  <2>3. done = [EmitState(r, "resync_completed") EXCEPT !.entry = FALSE]
    BY <1>1, <2>1
  <2>4. /\ IsClient(done) /\ ~done.open /\ (done.toldClosed <=> r.toldClosed)
        /\ (done.event <=> r.event) /\ ~done.entry /\ (done.resync <=> r.resync)
        /\ done.sent = r.sent /\ Session(done) = Session(r) /\ done.cc = r.cc
    <3>1. IsClient(r) /\ ~r.open
      BY <2>2 DEF EndsResync, Remains, Gone
    <3> QED
      BY <2>3, <3>1 DEF EmitState, IsClient, ClientFields, Session
  <2> QED
    BY <2>2, <2>4 DEF EndsResync, Remains, Gone, GoneTo
<1>3. CASE d = Throws(done)
  <2>1. GoneTo(done, d)
    BY ZenonT(60), <1>2, <1>3 DEF Gone, GoneTo, IsClient, ClientFields, Session, Throws
  <2> QED
    BY <1>2, <2>1, GoneToIsTransitive
<1>4. CASE d = EmitState(done, "online")
  <2>1. GoneTo(done, d)
    BY ZenonT(60), <1>2, <1>4 DEF Gone, GoneTo, IsClient, ClientFields, Session, EmitState
  <2> QED
    BY <1>2, <2>1, GoneToIsTransitive
<1>5. CASE c.entry /\ d = InitiateClose(done, c.openAfterComplete, FALSE)
  <2>1. done.toldClosed /\ Gone(done)
    BY <1>2, <1>5 DEF GoneTo, Gone
  <2>2. GoneTo(done, d)
    BY Zenon, <1>5, <2>1, InitiateCloseGoes
  <2> QED
    BY <1>2, <2>2, GoneToIsTransitive
<1>6. \/ d = Throws(done) \/ d = EmitState(done, "online")
      \/ (c.entry /\ d = InitiateClose(done, c.openAfterComplete, FALSE))
  BY <1>1 DEF HandleModelResyncServerComplete
<1> QED
  BY <1>3, <1>4, <1>5, <1>6

\* A closed model stays closed over any message.
LEMMA HandleGoes ==
  ASSUME NEW c, Gone(c), NEW message,
         message.type \in {"remote", "ack", "forceClose", "serverComplete"},
         NEW d, d = Handle(c, message)
  PROVE  GoneTo(c, d)
<1>1. CASE d = c
  BY <1>1 DEF GoneTo
<1>2. CASE d = HandleRemoteOperation(c, message)
  BY <1>2, HandleRemoteGoes
<1>3. CASE d = HandleOperationAck(c, message.version, message.number)
  BY <1>3, AckGoes
<1>4. CASE c.entry /\ d = HandleForceClose(c)
  BY <1>4, ForceCloseGoes
<1>5. CASE d = HandleModelResyncServerComplete(c)
  BY <1>5, ServerCompleteGoes
<1>6. \/ d = c \/ d = HandleRemoteOperation(c, message)
      \/ d = HandleOperationAck(c, message.version, message.number)
      \/ (c.entry /\ d = HandleForceClose(c)) \/ d = HandleModelResyncServerComplete(c)
  BY DEF Handle, Gone
<1> QED
  BY <1>1, <1>2, <1>3, <1>4, <1>5, <1>6

(***************************************************************************)
(* What an open model makes of the messages to it                          *)
(***************************************************************************)

\* Between two handlers, with a connection
Listening(c) ==
  /\ IsClient(c) /\ c.open /\ c.up /\ ~c.offline /\ VersionIsTold(c)
  /\ c.sent = <<>> /\ ~c.threw
  /\ c.closing => MayClose(c)

\* It waits for history, and has not come to the end of it.
Awaits(c) == c.resync /\ ~c.upToDate => c.reconnectVersion # c.cc.contextVersion

\* The operation is kept until the model has caught up.
Buffers(c, message, d) ==
  /\ Remains(c, d) /\ (d.resync <=> c.resync) /\ d.reconnectVersion = c.reconnectVersion
  /\ (d.completed <=> c.completed) /\ (d.upToDate <=> c.upToDate)
  /\ (d.openAfterComplete <=> c.openAfterComplete)
  /\ \A i \in DOMAIN d.buffered :
       d.buffered[i] = message \/ (i \in DOMAIN c.buffered /\ d.buffered[i] = c.buffered[i])

\* Another buffer changes nothing else of the client.
LEMMA BufferedIsReplaced ==
  ASSUME NEW c, IsClient(c), NEW q, IsSequence(q), NEW d, d = [c EXCEPT !.buffered = q]
  PROVE  /\ Remains(c, d) /\ d.buffered = q
         /\ (d.resync <=> c.resync) /\ d.reconnectVersion = c.reconnectVersion
         /\ (d.completed <=> c.completed) /\ (d.upToDate <=> c.upToDate)
         /\ (d.openAfterComplete <=> c.openAfterComplete)
<1>1. Remains(c, d) /\ d.buffered = q
  BY DEF Remains, IsClient, ClientFields, Session
<1>2. /\ (d.resync <=> c.resync) /\ d.reconnectVersion = c.reconnectVersion
      /\ (d.completed <=> c.completed) /\ (d.upToDate <=> c.upToDate)
      /\ (d.openAfterComplete <=> c.openAfterComplete)
  BY DEF IsClient, ClientFields
<1> QED
  BY <1>1, <1>2

\* A new operation is put last in the buffer.
LEMMA BufferingMakes ==
  ASSUME NEW c, IsClient(c), NEW message, NEW d, d = [c EXCEPT !.buffered = Append(@, message)]
  PROVE  Buffers(c, message, d)
<1>1. PICK q : q = Append(c.buffered, message)
  OBVIOUS
<1>2. PICK p : p = c.buffered
  OBVIOUS
<1>3. IsSequence(p)
  BY <1>2 DEF IsClient
<1>4. /\ IsSequence(q) /\ Len(q) = Len(p) + 1 /\ q[Len(p) + 1] = message
      /\ \A i \in 1 .. Len(p) : q[i] = p[i]
  BY <1>1, <1>2, <1>3, AppendToSequence
<1>5. \A i \in DOMAIN q : q[i] = message \/ (i \in DOMAIN p /\ q[i] = p[i])
  <2>1. Len(p) \in Nat /\ DOMAIN p = 1 .. Len(p) /\ DOMAIN q = 1 .. Len(p) + 1
    BY <1>3, <1>4, SequenceIsFunction
  <2> QED
    BY <1>4, <2>1
<1>6. d = [c EXCEPT !.buffered = q]
  BY <1>1
<1>7. IsSequence(q)
  BY <1>4
<1>8. /\ Remains(c, d) /\ d.buffered = q
      /\ (d.resync <=> c.resync) /\ d.reconnectVersion = c.reconnectVersion
      /\ (d.completed <=> c.completed) /\ (d.upToDate <=> c.upToDate)
      /\ (d.openAfterComplete <=> c.openAfterComplete)
  BY <1>6, <1>7, BufferedIsReplaced
<1> QED
  BY <1>2, <1>5, <1>8 DEF Buffers

\* The history has come to its end, or goes on.
Reaches(x, d) ==
  \/ d = x /\ (x.resync /\ ~x.upToDate => x.reconnectVersion # x.cc.contextVersion)
  \/ x.resync /\ ~x.upToDate /\ x.reconnectVersion = x.cc.contextVersion /\ CaughtUp(x, d)

\* The check reaches the end of the history, or changes nothing.
LEMMA CheckDoes ==
  ASSUME NEW c, IsClient(c), c.open, c.up, ~c.offline, VersionIsTold(c), c.sent = <<>>, ~c.threw,
         NEW d, d = CheckForReconnectUpToDate(c)
  PROVE  Reaches(c, d)
<1>1. CASE c.resync /\ ~c.upToDate /\ c.reconnectVersion = c.cc.contextVersion
  <2>1. d = UpToDate(c)
    BY <1>1 DEF CheckForReconnectUpToDate
  <2>2. CaughtUp(c, d)
    BY <2>1, UpToDateDoes
  <2> QED
    BY <1>1, <2>2 DEF Reaches
<1>2. CASE ~(c.resync /\ ~c.upToDate /\ c.reconnectVersion = c.cc.contextVersion)
  <2>1. d = c
    BY <1>2 DEF CheckForReconnectUpToDate
  <2> QED
    BY <1>2, <2>1 DEF Reaches
<1> QED
  BY <1>1, <1>2

\* An operation of the history
HistoryMakes(c, message, d) ==
  \/ IsOwn(c, message) /\ Errs(c, d) /\ d.cc = CC!RefuseAcknowledgement(c.cc, message.version)
  \/ ~IsOwn(c, message) /\ message.version # c.cc.contextVersion /\ Errs(c, d) /\ d.cc = c.cc
  \/ /\ ~IsOwn(c, message) /\ message.version = c.cc.contextVersion
     /\ \E x : /\ Keeps(c, x) /\ x.toldVersion = x.cc.contextVersion
               /\ StaysInFlight(c.cc, x.cc) /\ x.cc.contextVersion = c.cc.contextVersion + 1
               /\ Reaches(x, d)

\* After an error the check changes nothing.
LEMMA ErrorDoesNotReach ==
  ASSUME NEW c, Awaits(c), c.resync, ~c.upToDate, NEW e, Errs(c, e),
         e.cc.contextVersion = c.cc.contextVersion, NEW d, d = CheckForReconnectUpToDate(e)
  PROVE  d = e
<1>1. e.reconnectVersion = c.reconnectVersion
  BY FrameMeans DEF Errs
<1>2. e.reconnectVersion # e.cc.contextVersion
  BY <1>1 DEF Awaits
<1> QED
  BY <1>2 DEF CheckForReconnectUpToDate

\* The acknowledgement made up for an own operation is never accepted: there is no
\* operation with the number 0.
LEMMA OwnIsRefused ==
  ASSUME NEW cc, IsConcurrencyControl(cc), NEW version
  PROVE  ~CC!AcknowledgementAccepted(cc, version, 0)
<1>1. InFlight(cc) # <<>> => Head(InFlight(cc)).seqNo = Acked(cc) + 1 /\ Acked(cc) \in Nat
  BY InFlightIsNumbered
<1>2. InFlight(cc) # <<>> => Head(InFlight(cc)).seqNo # 0
  BY <1>1
<1> QED
  BY <1>2 DEF CC!AcknowledgementAccepted, InFlight

\* An operation of the history is taken, as one's own or as a remote one, or refused; then
\* the end may be reached.
LEMMA HistoryDoes ==
  ASSUME NEW c, Listening(c), Awaits(c), c.resync, ~c.upToDate, NEW message,
         ~IsNew(c, message.version), NEW d, d = HandleRemoteOperation(c, message)
  PROVE  HistoryMakes(c, message, d)
<1>1. IsClient(c) /\ IsConcurrencyControl(c.cc)
  BY DEF Listening, IsClient
<1>2. CASE IsOwn(c, message)
  <2>1. PICK e : e = HandleOperationAck(c, message.version, 0)
    OBVIOUS
  <2>2. d = CheckForReconnectUpToDate(e)
    BY <1>2, <2>1 DEF HandleRemoteOperation
  <2>3. AckMakes(c, message.version, 0, e)
    BY <1>1, <2>1, AckDoes DEF Listening
  <2>4. e.cc = CC!RefuseAcknowledgement(c.cc, message.version) /\ Errs(c, e)
    BY <1>1, <2>3, OwnIsRefused DEF AckMakes
  <2>5. e.cc.contextVersion = c.cc.contextVersion
    BY <1>1, <2>4, RefusalTakes
  <2>6. d = e
    BY <2>2, <2>4, <2>5, ErrorDoesNotReach
  <2> QED
    BY <1>2, <2>4, <2>6 DEF HistoryMakes
<1>3. CASE ~IsOwn(c, message)
  <2>1. PICK x : x = ProcessRemoteOperation(c, message)
    OBVIOUS
  <2>2. d = CheckForReconnectUpToDate(x)
    BY <1>3, <2>1 DEF HandleRemoteOperation
  <2>3. RemoteMakes(c, message, x)
    BY <1>1, <2>1, RemoteDoes DEF Listening
  <2>4. CASE message.version # c.cc.contextVersion
    <3>1. Errs(c, x) /\ x.cc = c.cc
      BY <2>3, <2>4 DEF RemoteMakes
    <3>2. d = x
      BY <2>2, <3>1, ErrorDoesNotReach
    <3> QED
      BY <1>3, <2>4, <3>1, <3>2 DEF HistoryMakes
  <2>5. CASE message.version = c.cc.contextVersion
    <3>1. /\ Keeps(c, x) /\ x.toldVersion = x.cc.contextVersion
          /\ StaysInFlight(c.cc, x.cc) /\ x.cc.contextVersion = c.cc.contextVersion + 1
      BY <2>3, <2>5 DEF RemoteMakes
    <3>2. (x.up <=> c.up) /\ (x.offline <=> c.offline)
      BY <3>1, FrameMeans DEF Keeps
    <3>3. IsClient(x) /\ x.open /\ x.up /\ ~x.offline /\ VersionIsTold(x) /\ x.sent = <<>> /\ ~x.threw
      BY <3>1, <3>2 DEF Keeps, VersionIsTold, Listening
    <3>4. Reaches(x, d)
      BY <2>2, <3>3, CheckDoes
    <3> QED
      BY <1>3, <2>5, <3>1, <3>4 DEF HistoryMakes
  <2> QED
    BY <2>4, <2>5
<1> QED
  BY <1>2, <1>3

(***************************************************************************)
(* What is told of the state, and of the entry of the service              *)
(***************************************************************************)

\* What telling of it does not change
Steps(c) ==
  <<c.offline, c.local, c.resyncOnly, c.resync, c.reconnectVersion, c.buffered, c.completed,
    c.upToDate, c.openAfterComplete, c.up, c.epoch, c.session, c.keeps>>

\* The steps of a resynchronisation field by field
LEMMA StepsMean ==
  ASSUME NEW c, NEW d, Steps(d) = Steps(c)
  PROVE  /\ (d.offline <=> c.offline) /\ (d.local <=> c.local)
         /\ (d.resyncOnly <=> c.resyncOnly) /\ (d.resync <=> c.resync)
         /\ d.reconnectVersion = c.reconnectVersion /\ d.buffered = c.buffered
         /\ (d.completed <=> c.completed) /\ (d.upToDate <=> c.upToDate)
         /\ (d.openAfterComplete <=> c.openAfterComplete)
         /\ (d.up <=> c.up) /\ d.epoch = c.epoch /\ d.session = c.session /\ (d.keeps <=> c.keeps)
         /\ Session(d) = Session(c)
  BY DEF Steps, Session

\* The steps are part of the frame.
LEMMA FrameHoldsSteps ==
  ASSUME NEW c, NEW d, Frame(d) = Frame(c)
  PROVE  Steps(d) = Steps(c)
  BY DEF Frame, Steps

\* Nor this, but what it says, to listeners and to the server, and its entry.
Steady(c, d) ==
  /\ IsClient(d) /\ Steps(d) = Steps(c) /\ d.cc = c.cc
  /\ (d.open <=> c.open) /\ d.resource = c.resource /\ (d.closing <=> c.closing)
  /\ (d.event <=> c.event) /\ (d.waitingForServer <=> c.waitingForServer)
  /\ (d.failed <=> c.failed) /\ d.toldVersion = c.toldVersion
  /\ (d.toldClosed <=> c.toldClosed)

\* What is steady over two steps is so over both.
LEMMA SteadyIsTransitive ==
  ASSUME NEW c, NEW d, NEW e, Steady(c, d), Steady(d, e)
  PROVE  Steady(c, e)
  BY DEF Steady

\* Throwing is steady.
LEMMA ThrowingIsSteady ==
  ASSUME NEW c, IsClient(c), NEW d, d = Throws(c)
  PROVE  /\ Steady(c, d) /\ d.told = c.told /\ (d.late <=> c.late)
         /\ (d.entry <=> c.entry) /\ d.sent = c.sent
<1>1. IsClient(d) /\ d.told = c.told /\ (d.late <=> c.late) /\ (d.entry <=> c.entry) /\ d.sent = c.sent
  BY ZenonT(60) DEF Throws, IsClient, ClientFields
<1> QED
  BY <1>1 DEF Throws, Steady, Steps, IsClient, ClientFields

\* Sending is steady.
LEMMA SpeaksIsSteady ==
  ASSUME NEW c, NEW d, Speaks(c, d)
  PROVE  Steady(c, d) /\ (d.entry <=> c.entry) /\ d.told = c.told /\ (d.late <=> c.late)
  BY FrameHoldsSteps, FrameMeans DEF Speaks, Steady

\* Telling of a state changes nothing but what was told.
LEMMA EmitStateMakes ==
  ASSUME NEW c, IsClient(c), NEW name, NEW d, d = EmitState(c, name)
  PROVE  /\ Steady(c, d) /\ d.told = name /\ (d.late <=> (c.offline /\ name # "offline"))
         /\ (d.entry <=> c.entry) /\ d.sent = c.sent /\ (d.threw <=> c.threw)
  BY DEF EmitState, Steady, IsClient, ClientFields, Steps

\* An error of the resynchronisation takes the entry, and nothing else.
LEMMA ResyncErrorMakes ==
  ASSUME NEW c, IsClient(c), NEW d, d = ResyncError(c)
  PROVE  /\ Steady(c, d) /\ d.told = c.told /\ (d.late <=> c.late)
         /\ ~d.entry /\ d.sent = c.sent /\ (d.threw <=> c.threw)
  BY DEF ResyncError, Steady, IsClient, ClientFields, Steps

\* Other tasks change nothing else of the client.
LEMMA TasksMake ==
  ASSUME NEW c, IsClient(c), NEW tasks, NEW d, d = [c EXCEPT !.tasks = tasks]
  PROVE  Speaks(c, d) /\ d.sent = c.sent
  BY DEF Speaks, IsClient, ClientFields, Frame

\* It asks to be resynchronised, or cannot.
Resumes(c, since, d) ==
  /\ Steady(c, d) /\ d.told = "reconnecting" /\ (d.late <=> c.offline) /\ (d.threw <=> c.threw)
  /\ c.up /\ c.open =>
       /\ (d.entry <=> c.entry)
       /\ d.sent = Sent(c.sent, Message(c, "resync", since, c.cc.contextVersion))
  /\ ~(c.up /\ c.open) => ~d.entry /\ d.sent = c.sent

\* To resynchronise tells of reconnecting and asks the server, if that is possible.
LEMMA ResynchronizeMakes ==
  ASSUME NEW c, IsClient(c), NEW since, NEW d, d = Resynchronize(c, since)
  PROVE  Resumes(c, since, d)
<1>1. PICK t : t = EmitState(c, "reconnecting")
  OBVIOUS
<1>2. /\ Steady(c, t) /\ t.told = "reconnecting" /\ (t.late <=> c.offline)
      /\ (t.entry <=> c.entry) /\ t.sent = c.sent /\ (t.threw <=> c.threw)
  BY <1>1, EmitStateMakes
<1>3. CASE c.up /\ c.open
  <2>1. PICK w : w = Waits(t, "resync", since, t.epoch)
    OBVIOUS
  <2>2. d = Send(w, "resync", since, c.cc.contextVersion)
    BY <1>1, <1>3, <2>1 DEF Resynchronize, Request
  <2>3. IsClient(t)
    BY <1>2 DEF Steady
  <2>4. Speaks(t, w) /\ w.sent = t.sent
    BY <2>1, <2>3, TasksMake DEF Waits
  <2>5. SendsTo(w, d, Message(w, "resync", since, c.cc.contextVersion))
    BY <2>2, <2>4, SendMakes DEF Speaks
  <2>6. Message(w, "resync", since, c.cc.contextVersion) = Message(c, "resync", since, c.cc.contextVersion)
    BY <1>2, <2>4 DEF Message, Speaks, Steady
  <2>7. w.open
    BY <1>2, <1>3, <2>4 DEF Speaks, Steady
  <2>8. Speaks(w, d)
    BY Zenon, <2>5, <2>7 DEF Speaks, SendsTo
  <2>9. Steady(t, w) /\ (w.entry <=> t.entry) /\ w.told = t.told /\ (w.late <=> t.late)
        /\ (w.threw <=> t.threw)
    BY <2>4, SpeaksIsSteady DEF Speaks
  <2>10. Steady(w, d) /\ (d.entry <=> w.entry) /\ d.told = w.told /\ (d.late <=> w.late)
         /\ (d.threw <=> w.threw)
    BY <2>8, SpeaksIsSteady DEF Speaks
  <2>11. Steady(c, d)
    BY <1>2, <2>9, <2>10, SteadyIsTransitive
  <2>12. d.sent = Sent(c.sent, Message(c, "resync", since, c.cc.contextVersion))
    BY Zenon, <1>2, <2>4, <2>5, <2>6, <2>7 DEF SendsTo
  <2> QED
    BY Zenon, <1>2, <1>3, <2>9, <2>10, <2>11, <2>12 DEF Resumes
<1>4. CASE ~(c.up /\ c.open)
  <2>1. d = ResyncError(t)
    BY <1>1, <1>4 DEF Resynchronize
  <2>2. /\ Steady(t, d) /\ d.told = t.told /\ (d.late <=> t.late)
        /\ ~d.entry /\ d.sent = t.sent /\ (d.threw <=> t.threw)
    BY <1>2, <2>1, ResyncErrorMakes DEF Steady
  <2>3. Steady(c, d)
    BY <1>2, <2>2, SteadyIsTransitive
  <2> QED
    BY Zenon, <1>2, <1>4, <2>2, <2>3 DEF Resumes
<1> QED
  BY <1>3, <1>4

(***************************************************************************)
(* The answer to a resynchronisation, and its end                          *)
(***************************************************************************)

\* What no answer of the server changes
Abides(c, d) ==
  /\ IsClient(d) /\ Session(d) = Session(c) /\ (d.open <=> c.open) /\ (d.offline <=> c.offline)
  /\ (d.local <=> c.local) /\ (d.closing <=> c.closing) /\ (d.event <=> c.event)
  /\ (d.waitingForServer <=> c.waitingForServer) /\ (d.failed <=> c.failed)
  /\ (d.resyncOnly <=> c.resyncOnly) /\ d.cc = c.cc /\ d.toldVersion = c.toldVersion
  /\ (d.toldClosed <=> c.toldClosed)
  /\ (d.resync <=> c.resync) /\ (d.completed <=> c.completed) /\ (d.upToDate <=> c.upToDate)
  /\ (d.openAfterComplete <=> c.openAfterComplete) /\ d.buffered = c.buffered

Answered(c, version, resource) ==
  [c EXCEPT !.reconnectVersion = version, !.resource = resource]

\* The answer sets the version and the resource.
LEMMA AnswerIsTaken ==
  ASSUME NEW c, IsClient(c), NEW version \in Int, NEW resource \in Nat,
         NEW d, d = Answered(c, version, resource)
  PROVE  /\ Abides(c, d) /\ d.reconnectVersion = version /\ d.resource = resource
         /\ (d.entry <=> c.entry) /\ d.told = c.told /\ (d.late <=> c.late)
         /\ d.sent = c.sent /\ (d.threw <=> c.threw)
<1>1. Abides(c, d)
  BY DEF Answered, Abides, IsClient, ClientFields, Session
<1>2. /\ d.reconnectVersion = version /\ d.resource = resource
      /\ (d.entry <=> c.entry) /\ d.told = c.told /\ (d.late <=> c.late)
      /\ d.sent = c.sent /\ (d.threw <=> c.threw)
  BY DEF Answered, IsClient, ClientFields
<1> QED
  BY <1>1, <1>2

\* What is steady abides.
LEMMA SteadyAbides ==
  ASSUME NEW c, NEW d, Steady(c, d)
  PROVE  Abides(c, d) /\ d.reconnectVersion = c.reconnectVersion
  BY StepsMean DEF Steady, Abides

\* What abides over two steps abides over both.
LEMMA AbidesIsTransitive ==
  ASSUME NEW c, NEW d, NEW e, Abides(c, d), Abides(d, e)
  PROVE  Abides(c, e)
  BY DEF Abides

\* An answer to a model that is not resynchronised is dropped; otherwise the history
\* begins, or is there already.
ResponseMakes(c, message, d) ==
  \/ /\ ~c.resync /\ Steady(c, d) /\ d.told = "resync_started" /\ (d.late <=> c.offline)
     /\ ~d.entry /\ d.sent = c.sent /\ (d.threw <=> c.threw)
  \/ /\ c.resync
     /\ \E x, y :
          /\ Abides(c, x) /\ x.reconnectVersion = message.version /\ x.resource = message.resource
          /\ x.told = "resync_started" /\ (x.late <=> c.offline) /\ (x.entry <=> c.entry)
          /\ x.sent = c.sent /\ (x.threw <=> c.threw)
          /\ Reaches(x, y)
          /\ \/ d = y
             \/ /\ Steady(y, d) /\ d.told = y.told /\ (d.late <=> y.late) /\ ~d.entry
                /\ d.sent = y.sent /\ y.threw /\ d.threw

\* What an open model makes of the answer to its request to be resynchronised
LEMMA ResponseDoes ==
  ASSUME NEW c, Listening(c), NEW message, message.version \in Nat, message.resource \in Nat,
         NEW d, d = HandleResyncResponse(c, message)
  PROVE  ResponseMakes(c, message, d)
<1>1. PICK s : s = EmitState(c, "resync_started")
  OBVIOUS
<1>2. /\ Steady(c, s) /\ s.told = "resync_started" /\ (s.late <=> c.offline)
      /\ (s.entry <=> c.entry) /\ s.sent = c.sent /\ (s.threw <=> c.threw)
  BY <1>1, EmitStateMakes DEF Listening
<1>3. IsClient(s)
  BY <1>2 DEF Steady
<1>4. CASE ~c.resync
  <2>1. d = ResyncError(s)
    BY <1>1, <1>4 DEF HandleResyncResponse
  <2>2. /\ Steady(s, d) /\ d.told = s.told /\ (d.late <=> s.late)
        /\ ~d.entry /\ d.sent = s.sent /\ (d.threw <=> s.threw)
    BY <1>3, <2>1, ResyncErrorMakes
  <2>3. Steady(c, d)
    BY <1>2, <2>2, SteadyIsTransitive
  <2> QED
    BY Zenon, <1>2, <1>4, <2>2, <2>3 DEF ResponseMakes
<1>5. CASE c.resync
  <2>1. PICK version \in Int : version = message.version
    OBVIOUS
  <2>2. PICK resource \in Nat : resource = message.resource
    OBVIOUS
  <2>3. PICK x : x = Answered(s, version, resource)
    OBVIOUS
  <2>4. /\ Abides(s, x) /\ x.reconnectVersion = version /\ x.resource = resource
        /\ (x.entry <=> s.entry) /\ x.told = s.told /\ (x.late <=> s.late)
        /\ x.sent = s.sent /\ (x.threw <=> s.threw)
    BY <1>3, <2>1, <2>2, <2>3, AnswerIsTaken
  <2>5. Abides(c, x)
    BY <1>2, <2>4, SteadyAbides, AbidesIsTransitive
  <2>6. PICK y : y = CheckForReconnectUpToDate(x)
    OBVIOUS
  <2>7. Reaches(x, y)
    <3>1. /\ IsClient(x) /\ (x.open <=> c.open) /\ (x.offline <=> c.offline) /\ x.cc = c.cc
          /\ x.toldVersion = c.toldVersion /\ x.up
      BY <2>5 DEF Abides, Listening, Session
    <3>2. x.sent = <<>> /\ ~x.threw /\ x.open /\ ~x.offline /\ VersionIsTold(x)
      BY <1>2, <2>4, <3>1 DEF Listening, VersionIsTold
    <3> QED
      BY <2>6, <3>1, <3>2, CheckDoes
  <2>8. d = y \/ (y.threw /\ d = ResyncError(y))
    BY <1>1, <1>5, <2>1, <2>2, <2>3, <2>6 DEF HandleResyncResponse, Answered
  <2>9. IsClient(y)
    BY <2>5, <2>7 DEF Reaches, CaughtUp, Abides
  <2>10. d = y \/ (/\ Steady(y, d) /\ d.told = y.told /\ (d.late <=> y.late) /\ ~d.entry
                   /\ d.sent = y.sent /\ y.threw /\ d.threw)
    <3>1. CASE d = y
      BY <3>1
    <3>2. CASE y.threw /\ d = ResyncError(y)
      BY <2>9, <3>2, ResyncErrorMakes
    <3> QED
      BY <2>8, <3>1, <3>2
  <2> QED
    BY Zenon, <1>2, <1>5, <2>1, <2>2, <2>4, <2>5, <2>7, <2>10 DEF ResponseMakes
<1> QED
  BY <1>4, <1>5

\* The model is opened, or closed, or left as it is.
ServerCompleteMakes(c, d) ==
  \E done :
    /\ \E r : EndsResync(c, r) /\ Steady(r, done) /\ (done.late <=> r.offline)
    /\ done.told = "resync_completed" /\ ~done.entry /\ done.sent = c.sent
    /\ \/ d = done /\ (c.entry => c.closing)
       \/ /\ c.openAfterComplete /\ ~c.resyncOnly
          /\ Steady(done, d) /\ d.told = "online" /\ (d.late <=> done.offline)
          /\ ~d.entry /\ d.sent = done.sent /\ (d.threw <=> done.threw)
       \/ /\ ~c.closing /\ c.openAfterComplete /\ Asks(done, d) /\ ~d.event
       \/ /\ ~c.closing /\ ~c.openAfterComplete
          /\ (Leaves(done, d) /\ ~d.event) \/ GoneTo(done, d)

\* The end of the resynchronisation opens the model, closes it, or leaves a closing one to
\* its closing.
LEMMA ServerCompleteDoes ==
  ASSUME NEW c, Listening(c), NEW d, d = HandleModelResyncServerComplete(c)
  PROVE  ServerCompleteMakes(c, d)
<1>1. PICK r : r = Resyncing(c, FALSE)
  OBVIOUS
<1>2. EndsResync(c, r) /\ IsClient(r)
  <2>1. IsClient(c)
    BY DEF Listening
  <2>2. EndsResync(c, r)
    BY <1>1, <2>1, ResyncingEnds
  <2> QED
    BY <2>2 DEF EndsResync, Remains
<1>3. PICK t : t = EmitState(r, "resync_completed")
  OBVIOUS
<1>4. /\ Steady(r, t) /\ t.told = "resync_completed" /\ (t.late <=> r.offline)
      /\ t.sent = r.sent /\ (t.threw <=> r.threw)
  BY <1>2, <1>3, EmitStateMakes
<1>5. PICK done : done = ResyncError(t)
  OBVIOUS
<1>6. /\ Steady(t, done) /\ done.told = t.told /\ (done.late <=> t.late)
      /\ ~done.entry /\ done.sent = t.sent /\ (done.threw <=> t.threw)
  BY <1>4, <1>5, ResyncErrorMakes DEF Steady
<1>7. Steady(r, done)
  BY <1>4, <1>6, SteadyIsTransitive
<1>8. /\ IsClient(done) /\ ~done.resync /\ done.open /\ done.up /\ (done.closing <=> c.closing)
  BY <1>2, <1>7, StepsMean DEF Steady, EndsResync, Remains, Listening, Session
<1>9. /\ Steady(r, done) /\ (done.late <=> r.offline) /\ done.told = "resync_completed"
      /\ ~done.entry /\ done.sent = c.sent /\ (done.threw <=> c.threw)
  BY Zenon, <1>2, <1>4, <1>6, <1>7 DEF EndsResync, Remains
<1>10. done = [EmitState(Resyncing(c, FALSE), "resync_completed") EXCEPT !.entry = FALSE]
  BY <1>1, <1>3, <1>5 DEF ResyncError
<1>11. CASE d = Throws(done) /\ (c.entry => c.closing)
  <2>1. /\ Steady(done, d) /\ d.told = done.told /\ (d.late <=> done.late)
        /\ (d.entry <=> done.entry) /\ d.sent = done.sent
    BY <1>8, <1>11, ThrowingIsSteady
  <2>2. Steady(r, d)
    BY <1>7, <2>1, SteadyIsTransitive
  <2>3. (d.late <=> r.offline) /\ d.told = "resync_completed" /\ ~d.entry /\ d.sent = c.sent
    BY <1>9, <2>1
  <2> QED
    BY <1>2, <1>11, <2>2, <2>3 DEF ServerCompleteMakes
<1>12. CASE c.openAfterComplete /\ ~c.resyncOnly /\ d = EmitState(done, "online")
  <2>1. /\ Steady(done, d) /\ d.told = "online" /\ (d.late <=> done.offline)
        /\ ~d.entry /\ d.sent = done.sent /\ (d.threw <=> done.threw)
    BY <1>8, <1>9, <1>12, EmitStateMakes
  <2> QED
    BY <1>2, <1>9, <1>12, <2>1 DEF ServerCompleteMakes
<1>13. CASE ~c.closing /\ d = InitiateClose(done, c.openAfterComplete, FALSE)
  <2>1. CASE c.openAfterComplete
    <3>1. Asks(done, d) /\ ~d.event
      BY Zenon, <1>8, <1>13, <2>1, InitiateCloseAsks
    <3> QED
      BY <1>2, <1>9, <1>13, <2>1, <3>1 DEF ServerCompleteMakes
  <2>2. CASE ~c.openAfterComplete
    <3>1. (Leaves(done, d) /\ ~d.event) \/ GoneTo(done, d)
      BY Zenon, <1>8, <1>9, <1>13, <2>2, InitiateCloseLeaves
    <3> QED
      BY <1>2, <1>9, <1>13, <2>2, <3>1 DEF ServerCompleteMakes
  <2> QED
    BY <2>1, <2>2
<1>14. \/ d = Throws(done) /\ (c.entry => c.closing)
       \/ c.openAfterComplete /\ ~c.resyncOnly /\ d = EmitState(done, "online")
       \/ ~c.closing /\ d = InitiateClose(done, c.openAfterComplete, FALSE)
  BY <1>10 DEF HandleModelResyncServerComplete
<1> QED
  BY <1>11, <1>12, <1>13, <1>14

\* A model that the server closes closes, at once or when nothing is in flight, unless it
\* is closing.
LEMMA ForceCloseDoes ==
  ASSUME NEW c, Listening(c), NEW d, d = HandleForceClose(c)
  PROVE  \/ d = c /\ IsClosing(c)
         \/ ~IsClosing(c) /\ ((Leaves(c, d) /\ d.event) \/ GoneTo(c, d))
<1>1. CASE IsClosing(c)
  BY <1>1 DEF HandleForceClose
<1>2. CASE ~IsClosing(c)
  <2>1. d = InitiateClose(c, FALSE, TRUE)
    BY <1>2 DEF HandleForceClose
  <2>2. (Leaves(c, d) /\ d.event) \/ GoneTo(c, d)
    BY Zenon, <2>1, InitiateCloseLeaves DEF Listening
  <2> QED
    BY <1>2, <2>2
<1> QED
  BY <1>1, <1>2

\* A closed model stays closed over what is told of it.
LEMMA SteadyGoes ==
  ASSUME NEW c, Gone(c), NEW d, Steady(c, d), d.entry => c.entry, d.sent = c.sent
  PROVE  GoneTo(c, d)
<1>1. (d.resync <=> c.resync) /\ Session(d) = Session(c)
  BY StepsMean DEF Steady
<1> QED
  BY <1>1 DEF Gone, GoneTo, Steady

\* A closed model stays closed over the answer to a resynchronisation.
LEMMA ResponseGoes ==
  ASSUME NEW c, Gone(c), NEW message, message.version \in Nat, message.resource \in Nat,
         NEW d, d = HandleResyncResponse(c, message)
  PROVE  GoneTo(c, d)
<1>1. PICK s : s = EmitState(c, "resync_started")
  OBVIOUS
<1>2. Steady(c, s) /\ (s.entry <=> c.entry) /\ s.sent = c.sent
  BY <1>1, EmitStateMakes DEF Gone
<1>3. IsClient(s) /\ GoneTo(c, s)
  BY <1>2, SteadyGoes DEF Steady
<1>4. CASE ~c.resync
  <2>1. d = ResyncError(s)
    BY <1>1, <1>4 DEF HandleResyncResponse
  <2>2. Steady(s, d) /\ ~d.entry /\ d.sent = s.sent
    BY <1>3, <2>1, ResyncErrorMakes
  <2>3. GoneTo(s, d)
    BY <1>3, <2>2, SteadyGoes DEF GoneTo
  <2> QED
    BY <1>3, <2>3, GoneToIsTransitive
<1>5. CASE c.resync
  <2>1. PICK version \in Int : version = message.version
    OBVIOUS
  <2>2. PICK resource \in Nat : resource = message.resource
    OBVIOUS
  <2>3. PICK x : x = Answered(s, version, resource)
    OBVIOUS
  <2>4. Abides(s, x) /\ (x.entry <=> s.entry) /\ x.sent = s.sent
    BY <1>3, <2>1, <2>2, <2>3, AnswerIsTaken
  <2>5. GoneTo(s, x)
    BY <1>3, <2>4 DEF Abides, GoneTo, Gone
  <2>6. PICK y : y = CheckForReconnectUpToDate(x)
    OBVIOUS
  <2>7. GoneTo(x, y)
    BY <2>5, <2>6, CheckGoes DEF GoneTo
  <2>8. d = y \/ d = ResyncError(y)
    BY <1>1, <1>5, <2>1, <2>2, <2>3, <2>6 DEF HandleResyncResponse, Answered
  <2>9. GoneTo(y, d)
    <3>1. CASE d = y
      BY <2>7, <3>1 DEF GoneTo
    <3>2. CASE d = ResyncError(y)
      <4>1. IsClient(y) /\ Gone(y)
        BY <2>7 DEF GoneTo, Gone
      <4>2. Steady(y, d) /\ ~d.entry /\ d.sent = y.sent
        BY <3>2, <4>1, ResyncErrorMakes
      <4> QED
        BY <4>1, <4>2, SteadyGoes
    <3> QED
      BY <2>8, <3>1, <3>2
  <2>10. GoneTo(s, d)
    BY <2>5, <2>7, <2>9, GoneToIsTransitive
  <2> QED
    BY <1>3, <2>10, GoneToIsTransitive
<1> QED
  BY <1>4, <1>5

\* All but whether it is known to the server, and the tasks that wait.
IsSaved(c, d) ==
  /\ IsClient(d) /\ Session(d) = Session(c) /\ (d.open <=> c.open) /\ (d.offline <=> c.offline)
  /\ d.resource = c.resource /\ (d.closing <=> c.closing)
  /\ (d.event <=> c.event) /\ (d.waitingForServer <=> c.waitingForServer)
  /\ (d.failed <=> c.failed) /\ (d.resyncOnly <=> c.resyncOnly) /\ d.cc = c.cc
  /\ (d.entry <=> c.entry) /\ d.told = c.told /\ (d.late <=> c.late)
  /\ d.toldVersion = c.toldVersion /\ (d.toldClosed <=> c.toldClosed)
  /\ (d.resync <=> c.resync) /\ d.reconnectVersion = c.reconnectVersion /\ d.buffered = c.buffered
  /\ (d.completed <=> c.completed) /\ (d.upToDate <=> c.upToDate)
  /\ (d.openAfterComplete <=> c.openAfterComplete) /\ d.sent = c.sent /\ (d.threw <=> c.threw)

\* A model that was created waits for the store, and is as it was.
LEMMA CreatedMakes ==
  ASSUME NEW c, IsClient(c), NEW since, NEW d, d = Created(c, since)
  PROVE  IsSaved(c, d)
<1>1. PICK t : t = c.tasks \cup {[step |-> "store", since |-> since, at |-> c.epoch]}
  OBVIOUS
<1>2. PICK x : x = [c EXCEPT !.local = FALSE]
  OBVIOUS
<1>3. x.tasks = c.tasks /\ x.epoch = c.epoch
  BY <1>2 DEF IsClient, ClientFields
<1>4. d = [x EXCEPT !.tasks = t]
  BY <1>1, <1>2, <1>3 DEF Created, Waits
<1>5. IsSaved(c, x)
  BY <1>2 DEF IsSaved, IsClient, ClientFields, Session
<1>6. IsSaved(x, d)
  <2>1. IsClient(x)
    BY <1>5 DEF IsSaved
  <2> QED
    BY <1>4, <2>1 DEF IsSaved, IsClient, ClientFields, Session
<1> QED
  BY <1>5, <1>6 DEF IsSaved

\* The server has closed the model: it no longer waits for that, and closes unless something
\* is in flight.
IsAnswered(c, d) ==
  /\ IsClient(d) /\ Frame(d) = Frame(c) /\ d.cc = c.cc /\ d.toldVersion = c.toldVersion
  /\ (d.open <=> c.open) /\ (d.closing <=> c.closing) /\ d.resource = c.resource
  /\ (d.event <=> c.event) /\ ~d.waitingForServer /\ (d.failed <=> c.failed)
  /\ (d.toldClosed <=> c.toldClosed) /\ d.sent = c.sent /\ (d.threw <=> c.threw)

\* With the server's answer a closing model waits for it no longer, or closes.
LEMMA ClosedWithServerMakes ==
  ASSUME NEW c, IsClient(c), Gone(c) \/ (c.closing => MayClose(c)), NEW d, d = ClosedWithServer(c)
  PROVE  IsAnswered(c, d) \/ (c.closing /\ GoneTo(c, d))
<1>1. PICK x : x = [c EXCEPT !.waitingForServer = FALSE]
  OBVIOUS
<1>2. IsAnswered(c, x)
  BY <1>1 DEF IsAnswered, IsClient, ClientFields, Frame
<1>3. d = x \/ (x.closing /\ d = Close(x))
  BY <1>1, <1>2, CheckIfCanCloseMakes DEF ClosedWithServer, IsAnswered
<1>4. ASSUME x.closing, d = Close(x) PROVE GoneTo(c, d)
  <2>1. Gone(x) \/ MayClose(x)
    BY <1>2, <1>4, FrameMeans DEF IsAnswered, Gone, MayClose
  <2>2. GoneTo(x, d)
    BY <1>2, <1>4, <2>1, CloseGoes DEF IsAnswered
  <2> QED
    BY <1>2, <2>2, FrameHoldsSession DEF IsAnswered, GoneTo
<1> QED
  BY <1>2, <1>3, <1>4 DEF IsAnswered

\* A closed model stays closed over a reply.
LEMMA RepliedGoes ==
  ASSUME NEW c, Gone(c), NEW task, task.step \in {"create", "resync", "close"}, NEW message,
         task.step = "resync" /\ message.type = "reply"
           => message.version \in Nat /\ message.resource \in Nat,
         NEW d, d = Replied(c, task, message)
  PROVE  GoneTo(c, d)
<1>1. IsClient(c)
  BY DEF Gone
<1>2. ASSUME NEW e, e = ResyncError(c) PROVE GoneTo(c, e)
  <2>1. Steady(c, e) /\ ~e.entry /\ e.sent = c.sent
    BY <1>1, <1>2, ResyncErrorMakes
  <2> QED
    BY <2>1, SteadyGoes
<1>3. CASE task.step = "create"
  <2>1. d = Created(c, task.since) \/ d = ResyncError(c)
    BY <1>3 DEF Replied
  <2>2. ASSUME d = Created(c, task.since) PROVE GoneTo(c, d)
    <3>1. IsSaved(c, d)
      BY <1>1, <2>2, CreatedMakes
    <3> QED
      BY <3>1 DEF IsSaved, Gone, GoneTo
  <2> QED
    BY <1>2, <2>1, <2>2
<1>4. CASE task.step = "resync"
  <2>1. CASE message.type = "reply"
    <3>1. d = HandleResyncResponse(c, message)
      BY <1>4, <2>1 DEF Replied
    <3> QED
      BY <1>4, <2>1, <3>1, ResponseGoes
  <2>2. CASE message.type # "reply"
    <3>1. d = ResyncError(c)
      BY <1>4, <2>2 DEF Replied
    <3> QED
      BY <1>2, <3>1
  <2> QED
    BY <2>1, <2>2
<1>5. CASE task.step = "close"
  <2>1. d = c \/ d = ClosedWithServer(c)
    BY <1>5 DEF Replied
  <2>2. ASSUME d = ClosedWithServer(c) PROVE GoneTo(c, d)
    <3>1. IsAnswered(c, d) \/ GoneTo(c, d)
      BY <1>1, <2>2, ClosedWithServerMakes
    <3>2. ASSUME IsAnswered(c, d) PROVE GoneTo(c, d)
      <4>1. (d.entry <=> c.entry) /\ (d.resync <=> c.resync) /\ Session(d) = Session(c)
        BY <3>2, FrameMeans, FrameHoldsSession DEF IsAnswered
      <4> QED
        BY <3>2, <4>1 DEF IsAnswered, Gone, GoneTo
    <3> QED
      BY <3>1, <3>2
  <2> QED
    BY <2>1, <2>2 DEF GoneTo
<1> QED
  BY <1>3, <1>4, <1>5

(***************************************************************************)
(* What a listener was told of an open model is what it is                 *)
(***************************************************************************)

\* Where an open model stands with its connection, with a resynchronisation and with closing
Standing(c) ==
  /\ c.offline <=> ~c.up
  /\ c.offline => ~c.resync /\ c.resource = 0
  /\ c.failed => c.closing
  /\ c.waitingForServer => c.closing
  /\ c.closing => MayClose(c) /\ c.resource # 0
  /\ c.up /\ c.resource = 0 => c.resync
  /\ c.resync => (c.reconnectVersion # Unknown <=> c.resource # 0)
  /\ c.upToDate => c.resync /\ c.reconnectVersion # Unknown
  /\ c.completed => c.upToDate
  /\ c.reconnectVersion = Unknown => c.buffered = <<>>

IsToldOf(c) ==
  /\ c.offline => c.told = "offline" \/ (c.told = "reconnecting" /\ c.late)
  /\ c.resync => c.told \in {"offline", "reconnecting", "resync_started"}
  /\ ~c.offline /\ ~c.resync => c.told # "offline"
  /\ c.told = "offline" => c.resource = 0
  /\ ~c.toldClosed
  /\ c.toldVersion = c.cc.contextVersion

\* An open model within a handler, and any model between two
Poised(c) == IsClient(c) /\ c.open /\ Standing(c) /\ IsToldOf(c)

Fit(c) == (c.open /\ Poised(c) /\ Awaits(c)) \/ Gone(c)

\* The model within a handler of a message to it
Hears(c) == Poised(c) /\ c.resource # 0

\* What there is of a model that hears messages
LEMMA HearsMeans ==
  ASSUME NEW c, Hears(c)
  PROVE  /\ IsClient(c) /\ c.open /\ c.up /\ ~c.offline /\ c.resource # 0
         /\ c.told # "offline" /\ VersionIsTold(c)
         /\ c.closing => MayClose(c)
  BY DEF Hears, Poised, Standing, IsToldOf, VersionIsTold

\* Awaiting history depends on the frame and on the version.
LEMMA FrameHoldsAwaits ==
  ASSUME NEW c, NEW d, Frame(d) = Frame(c), Awaits(c),
         d.cc.contextVersion = c.cc.contextVersion \/ ~c.resync \/ c.upToDate
  PROVE  Awaits(d)
  BY FrameMeans DEF Awaits

\* What the concurrency control does leaves the model fit, the version told.
LEMMA KeepsFits ==
  ASSUME NEW c, Hears(c), NEW d, Keeps(c, d), d.toldVersion = d.cc.contextVersion
  PROVE  Hears(d)
<1>1. IsClient(d) /\ d.open /\ d.resource # 0
  BY DEF Keeps, Hears, Poised
<1>2. Standing(d)
  BY FrameMeans DEF Keeps, Hears, Poised, Standing, MayClose
<1>3. IsToldOf(d)
  BY FrameMeans DEF Keeps, Hears, Poised, IsToldOf
<1> QED
  BY <1>1, <1>2, <1>3 DEF Hears, Poised

\* An error leaves the model fit, closing.
LEMMA ErrsFits ==
  ASSUME NEW c, Hears(c), NEW d, Errs(c, d), d.cc.contextVersion = c.cc.contextVersion
  PROVE  Hears(d)
<1>1. IsClient(d) /\ d.open /\ d.resource # 0
  BY DEF Errs, Hears, Poised
<1>2. Standing(d)
  BY FrameMeans DEF Errs, Hears, Poised, Standing, MayClose
<1>3. IsToldOf(d)
  BY FrameMeans DEF Errs, Hears, Poised, IsToldOf
<1> QED
  BY <1>1, <1>2, <1>3 DEF Hears, Poised

\* A model that leaves is fit, closing.
LEMMA LeavesFits ==
  ASSUME NEW c, Hears(c), NEW d, Leaves(c, d), d.event \/ (~c.entry /\ ~c.resync)
  PROVE  Hears(d)
<1>1. IsClient(d) /\ d.open /\ d.resource # 0
  BY DEF Leaves, Hears, Poised
<1>2. Standing(d)
  BY FrameMeans DEF Leaves, Hears, Poised, Standing, MayClose
<1>3. IsToldOf(d)
  BY FrameMeans DEF Leaves, Hears, Poised, IsToldOf
<1> QED
  BY <1>1, <1>2, <1>3 DEF Hears, Poised

\* A model that asks to close is fit, closing.
LEMMA AsksFits ==
  ASSUME NEW c, Hears(c), NEW d, Asks(c, d), d.event \/ (~c.entry /\ ~c.resync)
  PROVE  Hears(d)
<1>1. IsClient(d) /\ d.open /\ d.resource # 0
  BY DEF Asks, Hears, Poised
<1>2. Standing(d)
  BY FrameMeans DEF Asks, Hears, Poised, Standing, MayClose
<1>3. IsToldOf(d)
  BY FrameMeans DEF Asks, Hears, Poised, IsToldOf
<1> QED
  BY <1>1, <1>2, <1>3 DEF Hears, Poised

\* A model that has caught up is fit.
LEMMA CaughtUpFits ==
  ASSUME NEW c, Hears(c), c.resync, c.reconnectVersion # Unknown, NEW d, CaughtUp(c, d)
  PROVE  Hears(d)
<1>1. IsClient(d) /\ d.open /\ d.resource # 0
  BY DEF CaughtUp, Hears, Poised
<1>2. Standing(d)
  BY FootingMeans DEF CaughtUp, Hears, Poised, Standing, MayClose
<1>3. IsToldOf(d)
  BY FootingMeans DEF CaughtUp, Hears, Poised, IsToldOf
<1> QED
  BY <1>1, <1>2, <1>3 DEF Hears, Poised

\* A model that reaches the end of the history, or does not, is fit.
LEMMA ReachesFits ==
  ASSUME NEW c, Hears(c), NEW d, Reaches(c, d)
  PROVE  Hears(d) /\ Awaits(d)
<1>1. CASE d = c /\ (c.resync /\ ~c.upToDate => c.reconnectVersion # c.cc.contextVersion)
  BY <1>1 DEF Awaits
<1>2. CASE c.resync /\ ~c.upToDate /\ c.reconnectVersion = c.cc.contextVersion /\ CaughtUp(c, d)
  <2>1. c.reconnectVersion # Unknown
    BY <1>2 DEF Hears, Poised, Standing
  <2> QED
    BY <1>2, <2>1, CaughtUpFits DEF Awaits, CaughtUp
<1> QED
  BY <1>1, <1>2 DEF Reaches

\* Which says that the model may be told of as it is
LEMMA SteadyFits ==
  ASSUME NEW c, Hears(c), NEW d, Steady(c, d), d.entry => c.entry,
         d.resync => d.told \in {"reconnecting", "resync_started"}, d.told # "offline"
  PROVE  Hears(d)
<1>1. IsClient(d) /\ d.open /\ d.resource # 0
  BY DEF Steady, Hears, Poised
<1>2. Standing(d)
  BY StepsMean DEF Steady, Hears, Poised, Standing, MayClose
<1>3. IsToldOf(d)
  BY StepsMean DEF Steady, Hears, Poised, IsToldOf, Standing
<1> QED
  BY <1>1, <1>2, <1>3 DEF Hears, Poised

\* A model whose resynchronisation ends is fit.
LEMMA EndsFits ==
  ASSUME NEW c, Hears(c), c.resync, NEW d, EndsResync(c, d)
  PROVE  Hears(d)
<1>1. /\ IsClient(d) /\ d.open /\ d.resource # 0 /\ ~d.resync /\ d.up /\ ~d.offline
      /\ d.told # "offline"
  BY HearsMeans DEF EndsResync, Remains, Session
<1>2. Standing(d)
  BY <1>1, HearsMeans DEF EndsResync, Remains, Hears, Poised, Standing, MayClose
<1>3. IsToldOf(d)
  BY <1>1 DEF EndsResync, Remains, Hears, Poised, IsToldOf
<1> QED
  BY <1>1, <1>2, <1>3 DEF Hears, Poised

\* The end of the resynchronisation leaves the model fit.
LEMMA ServerCompleteFits ==
  ASSUME NEW c, Hears(c), c.resync, NEW d, ServerCompleteMakes(c, d)
  PROVE  Fit(d)
<1>1. PICK done :
        /\ \E r : EndsResync(c, r) /\ Steady(r, done) /\ (done.late <=> r.offline)
        /\ done.told = "resync_completed" /\ ~done.entry /\ done.sent = c.sent
        /\ \/ d = done /\ (c.entry => c.closing)
           \/ /\ c.openAfterComplete /\ ~c.resyncOnly
              /\ Steady(done, d) /\ d.told = "online" /\ (d.late <=> done.offline)
              /\ ~d.entry /\ d.sent = done.sent /\ (d.threw <=> done.threw)
           \/ /\ ~c.closing /\ c.openAfterComplete /\ Asks(done, d) /\ ~d.event
           \/ /\ ~c.closing /\ ~c.openAfterComplete
              /\ (Leaves(done, d) /\ ~d.event) \/ GoneTo(done, d)
  BY DEF ServerCompleteMakes
<1>2. PICK r : EndsResync(c, r) /\ Steady(r, done)
  BY <1>1
<1>3. Hears(r) /\ ~r.resync
  BY <1>2, EndsFits DEF EndsResync
<1>4. (done.resync <=> r.resync) /\ ~done.resync
  BY <1>2, <1>3, StepsMean DEF Steady
<1>5. Hears(done)
  <2>1. (done.entry => r.entry) /\ done.told # "offline"
    BY <1>1
  <2> QED
    BY <1>2, <1>3, <1>4, <2>1, SteadyFits
<1>6. ASSUME Hears(d), d.resync <=> done.resync PROVE Fit(d)
  BY <1>4, <1>6 DEF Fit, Hears, Awaits, Poised
<1>7. CASE d = done
  BY <1>5, <1>6, <1>7
<1>8. CASE Steady(done, d) /\ d.told = "online" /\ ~d.entry
  <2>1. d.resync <=> done.resync
    BY <1>8, StepsMean DEF Steady
  <2>2. (d.entry => done.entry) /\ d.told # "offline"
    BY <1>8
  <2>3. Hears(d)
    BY <1>4, <1>5, <1>8, <2>1, <2>2, SteadyFits
  <2> QED
    BY <1>6, <2>1, <2>3
<1>9. CASE Asks(done, d)
  <2>1. Hears(d)
    BY <1>1, <1>4, <1>5, <1>9, AsksFits
  <2> QED
    BY <1>6, <1>9, <2>1, FrameMeans DEF Asks
<1>10. CASE Leaves(done, d)
  <2>1. Hears(d)
    BY <1>1, <1>4, <1>5, <1>10, LeavesFits
  <2> QED
    BY <1>6, <1>10, <2>1, FrameMeans DEF Leaves
<1>11. CASE GoneTo(done, d)
  BY <1>11 DEF GoneTo, Fit
<1> QED
  BY <1>1, <1>7, <1>8, <1>9, <1>10, <1>11

\* The answer to its request to be resynchronised leaves the model fit.
LEMMA ResponseFits ==
  ASSUME NEW c, Poised(c), Awaits(c), c.up, NEW message,
         message.version \in Nat, message.resource \in Nat, message.resource # 0,
         NEW d, ResponseMakes(c, message, d)
  PROVE  Fit(d)
<1>1. CASE ~c.resync
  <2>1. /\ Steady(c, d) /\ d.told = "resync_started" /\ ~d.entry
    BY <1>1 DEF ResponseMakes
  <2>2. Hears(c)
    BY <1>1 DEF Poised, Standing, Hears
  <2>3. Hears(d)
    BY <2>1, <2>2, SteadyFits
  <2>4. ~d.resync
    BY <1>1, <2>1, StepsMean DEF Steady
  <2> QED
    BY <2>3, <2>4 DEF Fit, Hears, Poised, Awaits
<1>2. CASE c.resync
  <2>1. PICK x, y :
          /\ Abides(c, x) /\ x.reconnectVersion = message.version /\ x.resource = message.resource
          /\ x.told = "resync_started" /\ (x.entry <=> c.entry)
          /\ Reaches(x, y)
          /\ \/ d = y
             \/ Steady(y, d) /\ d.told = y.told /\ ~d.entry
    <3>1. \E x, y :
          /\ Abides(c, x) /\ x.reconnectVersion = message.version /\ x.resource = message.resource
          /\ x.told = "resync_started" /\ (x.late <=> c.offline) /\ (x.entry <=> c.entry)
          /\ x.sent = c.sent /\ (x.threw <=> c.threw)
          /\ Reaches(x, y)
          /\ \/ d = y
             \/ /\ Steady(y, d) /\ d.told = y.told /\ (d.late <=> y.late) /\ ~d.entry
                /\ d.sent = y.sent /\ y.threw /\ d.threw
      BY <1>2 DEF ResponseMakes
    <3> QED
      BY <3>1
  <2>2. /\ IsClient(x) /\ x.open /\ x.up /\ ~x.offline /\ x.resync /\ x.resource # 0
        /\ x.reconnectVersion # Unknown
    BY <1>2, <2>1 DEF Abides, Session, Poised, Standing, Unknown
  <2>3. Standing(x)
    BY <2>1, <2>2 DEF Abides, Poised, Standing, MayClose
  <2>4. IsToldOf(x)
    BY <2>1, <2>2 DEF Abides, Poised, IsToldOf
  <2>5. Hears(y) /\ Awaits(y)
    BY <2>1, <2>2, <2>3, <2>4, ReachesFits DEF Hears, Poised
  <2>6. ASSUME Steady(y, d), d.told = y.told, ~d.entry PROVE Fit(d)
    <3>1. (d.resync <=> y.resync) /\ (d.upToDate <=> y.upToDate)
          /\ d.reconnectVersion = y.reconnectVersion /\ d.cc = y.cc
      BY <2>6, StepsMean DEF Steady
    <3>2. y.told # "offline" /\ (y.resync => y.told \in {"reconnecting", "resync_started"})
      BY <2>5, HearsMeans DEF Hears, Poised, IsToldOf
    <3>3. Hears(d)
      BY <2>5, <2>6, <3>1, <3>2, SteadyFits
    <3> QED
      BY <2>5, <3>1, <3>3 DEF Fit, Hears, Poised, Awaits
  <2>7. ASSUME d = y PROVE Fit(d)
    BY <2>5, <2>7 DEF Fit, Hears, Poised
  <2> QED
    BY <2>1, <2>6, <2>7
<1> QED
  BY <1>1, <1>2

CatchesUp(c) == c.open /\ c.resync /\ ~c.upToDate

\* What an open model makes of a message to it
HandleMakes(c, message, d) ==
  \/ message.type = "remote" /\ ~CatchesUp(c) /\ RemoteMakes(c, message, d)
  \/ message.type = "remote" /\ CatchesUp(c) /\ IsNew(c, message.version) /\ Buffers(c, message, d)
  \/ message.type = "remote" /\ CatchesUp(c) /\ ~IsNew(c, message.version) /\ HistoryMakes(c, message, d)
  \/ message.type = "ack" /\ AckMakes(c, message.version, message.number, d)
  \/ message.type = "forceClose" /\ d = c /\ IsClosing(c)
  \/ message.type = "forceClose" /\ ~IsClosing(c) /\ ((Leaves(c, d) /\ d.event) \/ GoneTo(c, d))
  \/ message.type = "serverComplete" /\ ~c.resync /\ d = c
  \/ message.type = "serverComplete" /\ c.resync /\ ServerCompleteMakes(c, d)

\* What an open model makes of a message is one of the cases.
LEMMA HandleDoes ==
  ASSUME NEW c, Hears(c), Awaits(c), c.sent = <<>>, ~c.threw, NEW message,
         message.resource = c.resource,
         message.type \in {"remote", "ack", "forceClose", "serverComplete"},
         NEW d, d = Handle(c, message)
  PROVE  HandleMakes(c, message, d)
<1>1. /\ IsClient(c) /\ c.open /\ c.up /\ ~c.offline /\ VersionIsTold(c)
      /\ (c.closing => MayClose(c))
  BY HearsMeans
<1>2. Listening(c)
  BY <1>1 DEF Listening
<1>3. CASE message.type = "remote"
  <2>1. d = HandleRemoteOperation(c, message)
    BY <1>1, <1>3 DEF Handle
  <2>2. CASE ~CatchesUp(c)
    <3>1. d = ProcessRemoteOperation(c, message)
      BY <1>1, <2>1, <2>2 DEF HandleRemoteOperation, CatchesUp
    <3> QED
      BY <1>1, <1>3, <2>2, <3>1, RemoteDoes DEF HandleMakes
  <2>3. CASE CatchesUp(c) /\ IsNew(c, message.version)
    <3>1. d = [c EXCEPT !.buffered = Append(@, message)]
      BY <1>1, <2>1, <2>3 DEF HandleRemoteOperation, CatchesUp
    <3> QED
      BY <1>1, <1>3, <2>3, <3>1, BufferingMakes DEF HandleMakes
  <2>4. CASE CatchesUp(c) /\ ~IsNew(c, message.version)
    <3>1. c.resync /\ ~c.upToDate
      BY <2>4 DEF CatchesUp
    <3>2. HistoryMakes(c, message, d)
      BY <1>2, <2>1, <2>4, <3>1, HistoryDoes
    <3> QED
      BY <1>3, <2>4, <3>2 DEF HandleMakes
  <2> QED
    BY <2>2, <2>3, <2>4
<1>4. CASE message.type = "ack"
  <2>1. d = HandleOperationAck(c, message.version, message.number)
    BY <1>1, <1>4 DEF Handle
  <2> QED
    BY <1>1, <1>4, <2>1, AckDoes DEF HandleMakes
<1>5. CASE message.type = "forceClose"
  <2>1. d = HandleForceClose(c)
    BY <1>1, <1>5 DEF Handle
  <2> QED
    BY <1>2, <1>5, <2>1, ForceCloseDoes DEF HandleMakes
<1>6. CASE message.type = "serverComplete"
  <2>1. CASE ~c.resync
    BY <1>1, <1>6, <2>1 DEF Handle, HandleMakes
  <2>2. CASE c.resync
    <3>1. d = HandleModelResyncServerComplete(c)
      BY <1>1, <1>6, <2>2 DEF Handle
    <3> QED
      BY <1>2, <1>6, <2>2, <3>1, ServerCompleteDoes DEF HandleMakes
  <2> QED
    BY <2>1, <2>2
<1> QED
  BY <1>3, <1>4, <1>5, <1>6

\* A model that buffers is fit, and still awaits history.
LEMMA BuffersFits ==
  ASSUME NEW c, Hears(c), Awaits(c), NEW message, IsNew(c, message.version),
         NEW d, Buffers(c, message, d)
  PROVE  Hears(d) /\ Awaits(d)
<1>1. /\ d.reconnectVersion # Unknown /\ IsClient(d) /\ d.open /\ d.resource # 0 /\ (d.up <=> c.up)
      /\ d.cc = c.cc
  BY HearsMeans DEF Buffers, Remains, IsNew, Hears, Session
<1>2. Standing(d)
  BY <1>1 DEF Buffers, Remains, Hears, Poised, Standing, MayClose
<1>3. IsToldOf(d)
  BY <1>1 DEF Buffers, Remains, Hears, Poised, IsToldOf
<1>4. Awaits(d)
  BY <1>1 DEF Buffers, Awaits
<1> QED
  BY <1>1, <1>2, <1>3, <1>4 DEF Hears, Poised

\* A message to an open model leaves it fit: neither acknowledgements nor the end of the
\* resynchronisation come while it catches up.
LEMMA HandleFits ==
  ASSUME NEW c, Hears(c), Awaits(c), NEW message,
         CatchesUp(c) => message.type \in {"remote", "forceClose"},
         NEW d, HandleMakes(c, message, d)
  PROVE  Fit(d)
<1>1. IsClient(c) /\ c.open
  BY HearsMeans
<1>2. ASSUME NEW e, Errs(c, e), e.cc.contextVersion = c.cc.contextVersion PROVE Fit(e)
  BY <1>2, ErrsFits, FrameHoldsAwaits DEF Fit, Hears, Poised, Errs
<1>3. ASSUME ~CatchesUp(c), NEW e, Keeps(c, e), e.toldVersion = e.cc.contextVersion
      PROVE  Fit(e)
  BY <1>1, <1>3, KeepsFits, FrameHoldsAwaits DEF Fit, Hears, Poised, Keeps, CatchesUp
<1>4. ASSUME ~CatchesUp(c), RemoteMakes(c, message, d) PROVE Fit(d)
  BY <1>2, <1>3, <1>4 DEF RemoteMakes
<1>5. ASSUME IsNew(c, message.version), Buffers(c, message, d) PROVE Fit(d)
  BY <1>5, BuffersFits DEF Fit, Hears, Poised
<1>6. ASSUME HistoryMakes(c, message, d) PROVE Fit(d)
  <2>1. CASE Errs(c, d) /\ d.cc = CC!RefuseAcknowledgement(c.cc, message.version)
    <3>1. d.cc.contextVersion = c.cc.contextVersion
      BY <1>1, <2>1, RefusalTakes DEF IsClient
    <3> QED
      BY <1>2, <2>1, <3>1
  <2>2. CASE Errs(c, d) /\ d.cc = c.cc
    BY <1>2, <2>2
  <2>3. ASSUME NEW x, Keeps(c, x), x.toldVersion = x.cc.contextVersion, Reaches(x, d)
        PROVE  Fit(d)
    <3>1. Hears(x)
      BY <2>3, KeepsFits
    <3>2. Hears(d) /\ Awaits(d)
      BY <2>3, <3>1, ReachesFits
    <3> QED
      BY <3>2 DEF Fit, Hears, Poised
  <2> QED
    BY <1>6, <2>1, <2>2, <2>3 DEF HistoryMakes
<1>7. ASSUME ~CatchesUp(c), AckMakes(c, message.version, message.number, d) PROVE Fit(d)
  <2>1. CASE CC!AcknowledgementAccepted(c.cc, message.version, message.number)
    <3>1. CASE Keeps(c, d) /\ d.toldVersion = d.cc.contextVersion
      BY <1>3, <1>7, <3>1
    <3>2. CASE GoneTo(c, d)
      BY <3>2 DEF GoneTo, Fit
    <3> QED
      BY <1>7, <2>1, <3>1, <3>2 DEF AckMakes
  <2>2. CASE ~CC!AcknowledgementAccepted(c.cc, message.version, message.number)
    <3>1. d.cc = CC!RefuseAcknowledgement(c.cc, message.version) /\ Errs(c, d)
      BY <1>7, <2>2 DEF AckMakes
    <3>2. d.cc.contextVersion = c.cc.contextVersion
      BY <1>1, <3>1, RefusalTakes DEF IsClient
    <3> QED
      BY <1>2, <3>1, <3>2
  <2> QED
    BY <2>1, <2>2
<1>8. ASSUME (Leaves(c, d) /\ d.event) \/ GoneTo(c, d) PROVE Fit(d)
  <2>1. CASE Leaves(c, d) /\ d.event
    <3>1. Frame(d) = Frame(c) /\ d.cc = c.cc
      BY <2>1 DEF Leaves
    <3>2. Hears(d)
      BY <2>1, LeavesFits
    <3>3. Awaits(d)
      BY <3>1, FrameHoldsAwaits
    <3> QED
      BY <3>2, <3>3 DEF Fit, Hears, Poised
  <2>2. CASE GoneTo(c, d)
    BY <2>2 DEF GoneTo, Fit
  <2> QED
    BY <1>8, <2>1, <2>2
<1>9. ASSUME d = c PROVE Fit(d)
  BY <1>9 DEF Fit, Hears, Poised
<1>10. ASSUME c.resync, ServerCompleteMakes(c, d) PROVE Fit(d)
  BY <1>10, ServerCompleteFits
<1> QED
  BY <1>4, <1>5, <1>6, <1>7, <1>8, <1>9, <1>10 DEF HandleMakes

(***************************************************************************)
(* Replies, and what the application and the connection do to an open      *)
(* model                                                                   *)
(***************************************************************************)

\* The service no longer knows that it is being resynchronised.
LosesEntry(c, d) ==
  /\ Steady(c, d) /\ d.told = c.told /\ (d.late <=> c.late)
  /\ ~d.entry /\ d.sent = c.sent /\ (d.threw <=> c.threw)

\* What an open model makes of a reply
RepliedMakes(c, task, message, d) ==
  \/ task.step = "create" /\ IsSaved(c, d)
  \/ task.step \in {"create", "resync"} /\ LosesEntry(c, d)
  \/ task.step = "resync" /\ message.type = "reply" /\ ResponseMakes(c, message, d)
  \/ task.step = "close" /\ (d = c \/ IsAnswered(c, d) \/ (c.closing /\ GoneTo(c, d)))

\* What an open model makes of a reply is one of the cases.
LEMMA RepliedDoes ==
  ASSUME NEW c, Listening(c), NEW task, task.step \in {"create", "resync", "close"}, NEW message,
         task.step = "resync" /\ message.type = "reply"
           => message.version \in Nat /\ message.resource \in Nat,
         NEW d, d = Replied(c, task, message)
  PROVE  RepliedMakes(c, task, message, d)
<1>1. IsClient(c)
  BY DEF Listening
<1>2. ASSUME d = ResyncError(c) PROVE LosesEntry(c, d)
  BY <1>1, <1>2, ResyncErrorMakes DEF LosesEntry
<1>3. CASE task.step = "create"
  <2>1. d = Created(c, task.since) \/ d = ResyncError(c)
    BY <1>3 DEF Replied
  <2> QED
    BY <1>1, <1>2, <1>3, <2>1, CreatedMakes DEF RepliedMakes
<1>4. CASE task.step = "resync" /\ message.type = "reply"
  <2>1. d = HandleResyncResponse(c, message)
    BY <1>4 DEF Replied
  <2> QED
    BY <1>4, <2>1, ResponseDoes DEF RepliedMakes
<1>5. CASE task.step = "resync" /\ message.type # "reply"
  <2>1. d = ResyncError(c)
    BY <1>5 DEF Replied
  <2> QED
    BY <1>2, <1>5, <2>1 DEF RepliedMakes
<1>6. CASE task.step = "close"
  <2>1. d = c \/ d = ClosedWithServer(c)
    BY <1>6 DEF Replied
  <2>2. c.closing => MayClose(c)
    BY DEF Listening
  <2> QED
    BY <1>1, <1>6, <2>1, <2>2, ClosedWithServerMakes DEF RepliedMakes
<1> QED
  BY <1>3, <1>4, <1>5, <1>6

\* The edit is in flight, and sent if the model may send.
EditMakes(c, d) ==
  /\ IsClient(d) /\ Frame(d) = Frame(c)
  /\ (d.open <=> c.open) /\ d.resource = c.resource /\ (d.closing <=> c.closing)
  /\ (d.event <=> c.event) /\ (d.waitingForServer <=> c.waitingForServer)
  /\ (d.failed <=> c.failed) /\ d.toldVersion = c.toldVersion
  /\ (d.toldClosed <=> c.toldClosed) /\ (d.threw <=> c.threw)
  /\ d.cc = CC!ProcessOutgoingOperation(c.cc, c.session, "edit")
  /\ SendEvents(c) =>
       d.sent = Sent(c.sent, Submission(c, InFlight(d.cc)[Len(InFlight(d.cc))]))
  /\ ~SendEvents(c) => d.sent = c.sent

\* An edit is put in flight, and sent if that may be.
LEMMA EditDoes ==
  ASSUME NEW c, IsClient(c), c.open,
         NEW d, d = Issued([c EXCEPT !.cc = CC!ProcessOutgoingOperation(c.cc, c.session, "edit")])
  PROVE  EditMakes(c, d)
<1>1. PICK cc : cc = CC!ProcessOutgoingOperation(c.cc, c.session, "edit")
  OBVIOUS
<1>2. IsConcurrencyControl(cc)
  BY <1>1, EditTakes DEF IsClient
<1>3. PICK e : e = [c EXCEPT !.cc = cc]
  OBVIOUS
<1>4. Keeps(c, e) /\ e.cc = cc /\ e.toldVersion = c.toldVersion
  BY <1>2, <1>3, ControlMakes
<1>5. PICK event : event = InFlight(cc)[Len(InFlight(cc))]
  OBVIOUS
<1>6. d = SendOperation(e, event)
  BY <1>1, <1>3, <1>4, <1>5 DEF Issued, InFlight
<1>7. (SendEvents(e) <=> SendEvents(c)) /\ IsClient(e) /\ e.open
  BY <1>4, FrameMeans DEF Keeps, SendEvents
<1>8. CASE SendEvents(c)
  <2>1. d = Send(e, "op", event.seqNo, event.contextVersion)
    BY <1>6, <1>7, <1>8 DEF SendOperation
  <2>2. SendsTo(e, d, Message(e, "op", event.seqNo, event.contextVersion))
    BY <1>7, <2>1, SendMakes
  <2>3. Message(e, "op", event.seqNo, event.contextVersion) = Submission(c, event)
    BY <1>4 DEF Submission, Message, Keeps
  <2> QED
    BY <1>1, <1>4, <1>5, <1>7, <1>8, <2>2, <2>3 DEF EditMakes, SendsTo, Keeps
<1>9. CASE ~SendEvents(c)
  <2>1. d = e
    BY <1>6, <1>7, <1>9 DEF SendOperation
  <2> QED
    BY <1>1, <1>4, <1>9, <2>1 DEF EditMakes, Keeps
<1> QED
  BY <1>8, <1>9

\* It is to close once it has been resynchronised.
ClosesLater(c, d) ==
  /\ IsClient(d) /\ Session(d) = Session(c) /\ (d.open <=> c.open) /\ (d.offline <=> c.offline)
  /\ (d.local <=> c.local) /\ d.resource = c.resource /\ (d.closing <=> c.closing)
  /\ (d.event <=> c.event) /\ (d.waitingForServer <=> c.waitingForServer)
  /\ (d.failed <=> c.failed) /\ d.resyncOnly /\ d.cc = c.cc
  /\ (d.entry <=> c.entry) /\ d.told = c.told /\ (d.late <=> c.late)
  /\ d.toldVersion = c.toldVersion /\ (d.toldClosed <=> c.toldClosed)
  /\ (d.resync <=> c.resync) /\ d.reconnectVersion = c.reconnectVersion /\ d.buffered = c.buffered
  /\ (d.completed <=> c.completed) /\ (d.upToDate <=> c.upToDate)
  /\ (d.openAfterComplete <=> c.openAfterComplete) /\ d.sent = c.sent /\ (d.threw <=> c.threw)

\* Closing while resynchronising is put off.
LEMMA ClosesLaterMakes ==
  ASSUME NEW c, IsClient(c), NEW d, d = [c EXCEPT !.resyncOnly = TRUE]
  PROVE  ClosesLater(c, d)
  BY DEF ClosesLater, IsClient, ClientFields, Session

\* Without a connection the model has no resource, and none of its requests ends.
Drops(c, d) ==
  /\ IsClient(d) /\ ~d.up /\ d.epoch = c.epoch /\ d.session = c.session /\ (d.keeps <=> c.keeps)
  /\ d.cc = c.cc /\ ~d.entry /\ d.sent = c.sent /\ (d.threw <=> c.threw)
  /\ ~d.resync /\ ~d.completed /\ ~d.upToDate /\ d.reconnectVersion = Unknown /\ d.buffered = <<>>
  /\ d.offline /\ d.resource = 0 /\ ~d.closing
  /\ \/ ~c.closing /\ (d.open <=> c.open) /\ d.told = "offline" /\ d.toldVersion = c.toldVersion
        /\ (d.toldClosed <=> c.toldClosed) /\ (d.waitingForServer <=> c.waitingForServer)
        /\ (d.failed <=> c.failed)
     \/ c.closing /\ Gone(d)

\* What the loss of the connection makes of the model
LEMMA DroppedMakes ==
  ASSUME NEW c, IsClient(c), NEW d, d = Dropped(c)
  PROVE  Drops(c, d)
<1>1. PICK u : u = [c EXCEPT !.up = FALSE]
  OBVIOUS
<1>2. /\ IsClient(u) /\ ~u.up /\ u.epoch = c.epoch /\ u.session = c.session /\ (u.keeps <=> c.keeps)
      /\ u.cc = c.cc /\ u.sent = c.sent /\ (u.threw <=> c.threw) /\ (u.open <=> c.open)
      /\ (u.closing <=> c.closing) /\ u.toldVersion = c.toldVersion
      /\ (u.toldClosed <=> c.toldClosed) /\ (u.waitingForServer <=> c.waitingForServer)
      /\ (u.failed <=> c.failed)
  BY <1>1 DEF IsClient, ClientFields
<1>3. PICK r : r = Resyncing(u, FALSE)
  OBVIOUS
<1>4. EndsResync(u, r)
  BY <1>2, <1>3, ResyncingEnds
<1>5. IsClient(r)
  BY <1>4 DEF EndsResync, Remains
<1>6. PICK o : o = [r EXCEPT !.offline = TRUE, !.resource = 0]
  OBVIOUS
<1>7. /\ IsClient(o) /\ o.offline /\ o.resource = 0 /\ Session(o) = Session(r) /\ o.cc = r.cc
      /\ o.sent = r.sent /\ (o.threw <=> r.threw) /\ (o.open <=> r.open) /\ (o.closing <=> r.closing)
      /\ o.toldVersion = r.toldVersion /\ (o.toldClosed <=> r.toldClosed)
      /\ (o.waitingForServer <=> r.waitingForServer) /\ (o.failed <=> r.failed)
      /\ (o.resync <=> r.resync) /\ (o.completed <=> r.completed) /\ (o.upToDate <=> r.upToDate)
      /\ o.reconnectVersion = r.reconnectVersion /\ o.buffered = r.buffered
  BY <1>5, <1>6 DEF IsClient, ClientFields, Session
<1>8. PICK e : e = EmitState(o, "offline")
  OBVIOUS
<1>9. Steady(o, e) /\ e.told = "offline" /\ e.sent = o.sent /\ (e.threw <=> o.threw)
  BY <1>7, <1>8, EmitStateMakes
<1>10. PICK x : x = IF u.closing THEN Close(e) ELSE e
  OBVIOUS
<1>11. SetOffline(u) = x
  BY <1>3, <1>6, <1>8, <1>10 DEF SetOffline
<1>12. /\ IsClient(e) /\ ~e.up /\ e.epoch = c.epoch /\ e.session = c.session /\ (e.keeps <=> c.keeps)
       /\ e.cc = c.cc /\ e.sent = c.sent /\ (e.threw <=> c.threw) /\ (e.open <=> c.open)
       /\ (e.closing <=> c.closing) /\ e.toldVersion = c.toldVersion
       /\ (e.toldClosed <=> c.toldClosed) /\ (e.waitingForServer <=> c.waitingForServer)
       /\ (e.failed <=> c.failed) /\ ~e.resync /\ ~e.completed /\ ~e.upToDate
       /\ e.reconnectVersion = Unknown /\ e.buffered = <<>> /\ e.offline /\ e.resource = 0
       /\ e.told = "offline"
  <2>1. Steps(e) = Steps(o) /\ IsClient(e) /\ e.cc = o.cc /\ (e.open <=> o.open)
        /\ e.resource = o.resource
        /\ (e.closing <=> o.closing) /\ (e.waitingForServer <=> o.waitingForServer)
        /\ (e.failed <=> o.failed) /\ e.toldVersion = o.toldVersion
        /\ (e.toldClosed <=> o.toldClosed)
    BY <1>9 DEF Steady
  <2>2. (r.up <=> u.up) /\ r.epoch = u.epoch /\ r.session = u.session /\ (r.keeps <=> u.keeps)
    BY <1>4 DEF EndsResync, Remains, Session
  <2>3. (o.up <=> r.up) /\ o.epoch = r.epoch /\ o.session = r.session /\ (o.keeps <=> r.keeps)
    BY <1>7 DEF Session
  <2>4. /\ (e.offline <=> o.offline) /\ (e.resync <=> o.resync)
        /\ e.reconnectVersion = o.reconnectVersion /\ e.buffered = o.buffered
        /\ (e.completed <=> o.completed) /\ (e.upToDate <=> o.upToDate)
        /\ (e.up <=> o.up) /\ e.epoch = o.epoch /\ e.session = o.session /\ (e.keeps <=> o.keeps)
    BY <2>1, StepsMean
  <2>5. /\ ~r.resync /\ ~r.completed /\ ~r.upToDate /\ r.reconnectVersion = Unknown /\ r.buffered = <<>>
        /\ (r.open <=> u.open) /\ (r.closing <=> u.closing) /\ (r.waitingForServer <=> u.waitingForServer)
        /\ (r.failed <=> u.failed) /\ r.cc = u.cc /\ r.toldVersion = u.toldVersion
        /\ (r.toldClosed <=> u.toldClosed) /\ r.sent = u.sent /\ (r.threw <=> u.threw)
    BY <1>4 DEF EndsResync, Remains
  <2> QED
    BY <1>2, <1>7, <1>9, <2>1, <2>2, <2>3, <2>4, <2>5
<1>13. PICK t : t = {task \in c.tasks : task.step # "close"}
  OBVIOUS
<1>14. d = [x EXCEPT !.entry = FALSE, !.tasks = t]
  BY <1>1, <1>11, <1>13 DEF Dropped
<1>15. ASSUME IsClient(x)
       PROVE  /\ IsClient(d) /\ Session(d) = Session(x) /\ d.cc = x.cc /\ ~d.entry /\ d.sent = x.sent
              /\ (d.threw <=> x.threw) /\ (d.resync <=> x.resync) /\ (d.completed <=> x.completed)
              /\ (d.upToDate <=> x.upToDate) /\ d.reconnectVersion = x.reconnectVersion
              /\ d.buffered = x.buffered /\ (d.offline <=> x.offline) /\ d.resource = x.resource
              /\ (d.closing <=> x.closing) /\ (d.open <=> x.open) /\ d.told = x.told
              /\ d.toldVersion = x.toldVersion /\ (d.toldClosed <=> x.toldClosed)
              /\ (d.waitingForServer <=> x.waitingForServer) /\ (d.failed <=> x.failed)
              /\ (d.event <=> x.event)
  <2>1. PICK y : y = ResyncError(x)
    OBVIOUS
  <2>2. /\ Steady(x, y) /\ y.told = x.told /\ ~y.entry /\ y.sent = x.sent /\ (y.threw <=> x.threw)
    BY <1>15, <2>1, ResyncErrorMakes
  <2>3. d = [y EXCEPT !.tasks = t]
    BY <1>14, <2>1 DEF ResyncError
  <2>4. IsClient(y)
    BY <2>2 DEF Steady
  <2>5. Speaks(y, d) /\ d.sent = y.sent
    BY <2>3, <2>4, TasksMake
  <2>6. Steady(y, d) /\ (d.entry <=> y.entry) /\ d.told = y.told
    BY <2>5, SpeaksIsSteady
  <2>7. Steady(x, d) /\ Steps(d) = Steps(x)
    BY <2>2, <2>6, SteadyIsTransitive DEF Steady
  <2>8. /\ (d.offline <=> x.offline) /\ (d.resync <=> x.resync)
        /\ d.reconnectVersion = x.reconnectVersion /\ d.buffered = x.buffered
        /\ (d.completed <=> x.completed) /\ (d.upToDate <=> x.upToDate) /\ Session(d) = Session(x)
    BY <2>7, StepsMean
  <2>9. d.threw <=> y.threw
    BY <2>5 DEF Speaks
  <2> QED
    BY <2>2, <2>5, <2>6, <2>7, <2>8, <2>9 DEF Steady
<1>16. CASE ~c.closing
  <2>1. x = e
    BY <1>2, <1>10, <1>16
  <2>2. IsClient(x) /\ Session(d) = Session(x)
    BY <1>12, <1>15, <2>1
  <2>3. (d.up <=> x.up) /\ d.epoch = x.epoch /\ d.session = x.session /\ (d.keeps <=> x.keeps)
    BY <2>2 DEF Session
  <2> QED
    BY <1>12, <1>15, <1>16, <2>1, <2>2, <2>3 DEF Drops
<1>17. CASE c.closing
  <2>1. x = Close(e)
    BY <1>2, <1>10, <1>17
  <2>2. /\ Closes(e, x) /\ ~x.open /\ x.sent = e.sent /\ (x.threw <=> e.threw) /\ (x.event <=> e.event)
    BY <1>12, <2>1, CloseMakes
  <2>3. /\ IsClient(x) /\ Frame(x) = Frame(e) /\ x.cc = e.cc /\ ~x.closing /\ x.resource = 0
        /\ (x.toldClosed \/ ~x.event)
    <3>1. x = [e EXCEPT !.open = FALSE, !.closing = FALSE, !.resource = 0]
          \/ (e.event /\ x = [[e EXCEPT !.open = FALSE, !.closing = FALSE, !.resource = 0]
                                EXCEPT !.toldClosed = TRUE])
      BY <2>1 DEF Close, EmitClosed
    <3>2. ~x.closing /\ x.resource = 0
      BY ZenonT(60), <1>12, <3>1 DEF IsClient, ClientFields
    <3>3. x.toldClosed \/ ~x.event
      BY <1>12, <2>1, <2>2 DEF Close, EmitClosed, IsClient, ClientFields
    <3> QED
      BY <2>2, <3>2, <3>3 DEF Closes
  <2>4. /\ (x.offline <=> e.offline) /\ (x.resync <=> e.resync)
        /\ x.reconnectVersion = e.reconnectVersion /\ x.buffered = e.buffered
        /\ (x.completed <=> e.completed) /\ (x.upToDate <=> e.upToDate)
        /\ (x.up <=> e.up) /\ x.epoch = e.epoch /\ x.session = e.session /\ (x.keeps <=> e.keeps)
    BY <2>3, FrameMeans
  <2>5. (d.up <=> x.up) /\ d.epoch = x.epoch /\ d.session = x.session /\ (d.keeps <=> x.keeps)
    BY <1>15, <2>3 DEF Session
  <2>6. Gone(d)
    BY <1>12, <1>15, <2>2, <2>3, <2>4 DEF Gone
  <2> QED
    BY <1>12, <1>15, <1>17, <2>2, <2>3, <2>4, <2>5, <2>6 DEF Drops
<1> QED
  BY <1>16, <1>17

\* With a connection the model is resynchronised: first it asks for that, or, if it has to be
\* created, the store for its data.
Reconnects(c, d) ==
  /\ IsClient(d) /\ d.up /\ d.epoch = c.epoch + 1
  /\ d.session = (IF c.keeps THEN c.session ELSE c.session + 1) /\ (d.keeps <=> c.keeps)
  /\ ~d.offline /\ d.resync /\ ~d.upToDate /\ ~d.completed /\ ~d.openAfterComplete
  /\ d.reconnectVersion = Unknown /\ d.buffered = <<>>
  /\ (d.open <=> c.open) /\ (d.closing <=> c.closing) /\ (d.event <=> c.event)
  /\ (d.waitingForServer <=> c.waitingForServer) /\ (d.failed <=> c.failed)
  /\ (d.resyncOnly <=> c.resyncOnly)
  /\ d.resource = c.resource /\ d.cc = c.cc /\ d.toldVersion = c.toldVersion
  /\ (d.toldClosed <=> c.toldClosed) /\ (d.threw <=> c.threw)
  /\ \/ c.local /\ d.told = c.told /\ d.sent = c.sent
     \/ /\ ~c.local /\ d.told = "reconnecting"
        /\ d.sent = Sent(c.sent, Message(c, "resync", d.epoch, c.cc.contextVersion))

\* What a new connection makes of the model
LEMMA ReconnectMakes ==
  ASSUME NEW c, IsClient(c), c.open,
         NEW d, d = ResyncOpenModel([c EXCEPT !.up = TRUE, !.epoch = @ + 1,
                                              !.session = IF c.keeps THEN @ ELSE @ + 1])
  PROVE  Reconnects(c, d)
<1>1. PICK epoch : epoch = c.epoch + 1
  OBVIOUS
<1>2. PICK session : session = IF c.keeps THEN c.session ELSE c.session + 1
  OBVIOUS
<1>3. PICK k : k = [c EXCEPT !.up = TRUE, !.epoch = epoch, !.session = session]
  OBVIOUS
<1>4. d = ResyncOpenModel(k)
  BY <1>1, <1>2, <1>3 DEF IsClient, ClientFields
<1>5. /\ IsClient(k) /\ k.up /\ k.epoch = epoch /\ k.session = session /\ (k.keeps <=> c.keeps)
      /\ (k.open <=> c.open) /\ (k.closing <=> c.closing) /\ (k.event <=> c.event)
      /\ (k.waitingForServer <=> c.waitingForServer) /\ (k.failed <=> c.failed)
      /\ (k.resyncOnly <=> c.resyncOnly) /\ k.resource = c.resource /\ k.cc = c.cc
      /\ k.toldVersion = c.toldVersion /\ (k.toldClosed <=> c.toldClosed) /\ (k.threw <=> c.threw)
      /\ (k.local <=> c.local) /\ k.told = c.told /\ k.sent = c.sent
  BY <1>3 DEF IsClient, ClientFields
<1>6. PICK r : r = Resyncing(k, TRUE)
  OBVIOUS
<1>7. BeginsResync(k, r)
  BY <1>5, <1>6, ResyncingBegins
<1>8. IsClient(r)
  BY <1>7 DEF BeginsResync, Remains
<1>9. PICK e : e = [r EXCEPT !.entry = TRUE, !.offline = FALSE]
  OBVIOUS
<1>10. /\ IsClient(e) /\ ~e.offline /\ e.entry /\ Session(e) = Session(r) /\ (e.local <=> r.local)
       /\ (e.resyncOnly <=> r.resyncOnly) /\ (e.resync <=> r.resync)
       /\ e.reconnectVersion = r.reconnectVersion /\ e.buffered = r.buffered
       /\ (e.completed <=> r.completed) /\ (e.upToDate <=> r.upToDate)
       /\ (e.openAfterComplete <=> r.openAfterComplete)
  BY <1>8, <1>9 DEF IsClient, ClientFields, Session
<1>11. /\ (e.open <=> r.open) /\ (e.closing <=> r.closing) /\ (e.event <=> r.event)
       /\ (e.waitingForServer <=> r.waitingForServer) /\ (e.failed <=> r.failed)
       /\ e.resource = r.resource /\ e.cc = r.cc /\ e.toldVersion = r.toldVersion
       /\ (e.toldClosed <=> r.toldClosed) /\ (e.threw <=> r.threw) /\ e.told = r.told /\ e.sent = r.sent
  BY <1>8, <1>9 DEF IsClient, ClientFields
<1>12. d = SetOnline(e)
  BY <1>4, <1>6, <1>9 DEF ResyncOpenModel
<1>13. /\ IsClient(e) /\ e.up /\ e.epoch = epoch /\ e.session = session /\ (e.keeps <=> c.keeps)
       /\ (e.local <=> c.local) /\ e.open /\ (e.resyncOnly <=> c.resyncOnly)
       /\ (e.closing <=> c.closing) /\ (e.event <=> c.event)
       /\ (e.waitingForServer <=> c.waitingForServer) /\ (e.failed <=> c.failed)
       /\ e.resource = c.resource /\ e.cc = c.cc /\ e.toldVersion = c.toldVersion
       /\ (e.toldClosed <=> c.toldClosed) /\ (e.threw <=> c.threw) /\ e.told = c.told /\ e.sent = c.sent
       /\ ~e.offline /\ e.resync /\ ~e.upToDate /\ ~e.completed /\ ~e.openAfterComplete
       /\ e.reconnectVersion = Unknown /\ e.buffered = <<>>
  BY <1>5, <1>7, <1>10, <1>11 DEF BeginsResync, Remains, Session
<1>14. ASSUME Steady(e, d), d.threw <=> e.threw,
              \/ c.local /\ d.told = c.told /\ d.sent = c.sent
              \/ /\ ~c.local /\ d.told = "reconnecting"
                 /\ d.sent = Sent(c.sent, Message(c, "resync", epoch, c.cc.contextVersion))
       PROVE  Reconnects(c, d)
  <2>1. /\ (d.offline <=> e.offline) /\ (d.resyncOnly <=> e.resyncOnly) /\ (d.resync <=> e.resync)
        /\ d.reconnectVersion = e.reconnectVersion /\ d.buffered = e.buffered
        /\ (d.completed <=> e.completed) /\ (d.upToDate <=> e.upToDate)
        /\ (d.openAfterComplete <=> e.openAfterComplete)
        /\ (d.up <=> e.up) /\ d.epoch = e.epoch /\ d.session = e.session /\ (d.keeps <=> e.keeps)
    BY <1>14, StepsMean DEF Steady
  <2>2. /\ IsClient(d) /\ d.cc = e.cc
        /\ (d.open <=> e.open) /\ d.resource = e.resource /\ (d.closing <=> e.closing)
        /\ (d.event <=> e.event) /\ (d.waitingForServer <=> e.waitingForServer)
        /\ (d.failed <=> e.failed) /\ d.toldVersion = e.toldVersion
        /\ (d.toldClosed <=> e.toldClosed)
    BY <1>14 DEF Steady
  <2> QED
    BY <1>1, <1>2, <1>13, <1>14, <2>1, <2>2 DEF Reconnects
<1>15. CASE c.local
  <2>1. PICK t : t = e.tasks \cup {[step |-> "read", since |-> e.epoch, at |-> e.epoch]}
    OBVIOUS
  <2>2. d = [e EXCEPT !.tasks = t]
    BY <1>12, <1>13, <1>15, <2>1 DEF SetOnline, Waits
  <2>3. Speaks(e, d) /\ d.sent = e.sent
    BY <1>13, <2>2, TasksMake
  <2>4. Steady(e, d) /\ d.told = e.told /\ (d.threw <=> e.threw)
    BY <2>3, SpeaksIsSteady DEF Speaks
  <2> QED
    BY <1>13, <1>14, <1>15, <2>3, <2>4
<1>16. CASE ~c.local
  <2>1. d = Resynchronize(e, e.epoch)
    BY <1>12, <1>13, <1>16 DEF SetOnline
  <2>2. Resumes(e, e.epoch, d)
    BY <1>13, <2>1, ResynchronizeMakes
  <2>3. Message(e, "resync", e.epoch, e.cc.contextVersion) = Message(c, "resync", epoch, c.cc.contextVersion)
    BY <1>13 DEF Message
  <2> QED
    BY <1>13, <1>14, <1>16, <2>2, <2>3 DEF Resumes
<1> QED
  BY <1>15, <1>16

\* A task of the client is done.
LEMMA EndsMakes ==
  ASSUME IsClient(client), NEW task, NEW d, d = Ends(task)
  PROVE  Speaks(client, d) /\ d.sent = client.sent
<1>1. PICK t : t = client.tasks \ {task}
  OBVIOUS
<1>2. d = [client EXCEPT !.tasks = t]
  BY <1>1 DEF Ends
<1> QED
  BY <1>2, TasksMake

\* Nothing but what was sent, and whether the handler threw, is another.
Rests(c, d) ==
  /\ IsClient(d) /\ Frame(d) = Frame(c) /\ d.cc = c.cc
  /\ (d.open <=> c.open) /\ d.resource = c.resource /\ (d.closing <=> c.closing)
  /\ (d.event <=> c.event) /\ (d.waitingForServer <=> c.waitingForServer)
  /\ (d.failed <=> c.failed) /\ d.toldVersion = c.toldVersion
  /\ (d.toldClosed <=> c.toldClosed)

\* The end of a handler leaves the model fit.
LEMMA RestsFits ==
  ASSUME NEW c, Fit(c), NEW d, Rests(c, d)
  PROVE  Fit(d) /\ (d.open <=> c.open) /\ (d.up <=> c.up)
<1>1. /\ Frame(d) = Frame(c) /\ IsClient(d) /\ d.cc = c.cc /\ (d.open <=> c.open)
      /\ (d.up <=> c.up)
  BY FrameMeans DEF Rests
<1>2. CASE c.open /\ Poised(c) /\ Awaits(c)
  <2>1. Standing(d)
    BY <1>2, FrameMeans DEF Rests, Poised, Standing, MayClose
  <2>2. IsToldOf(d)
    BY <1>2, FrameMeans DEF Rests, Poised, IsToldOf
  <2>3. Awaits(d)
    BY <1>1, <1>2, FrameHoldsAwaits
  <2> QED
    BY <1>1, <1>2, <2>1, <2>2, <2>3 DEF Fit, Poised
<1>3. CASE Gone(c)
  BY <1>1, <1>3, FrameMeans DEF Fit, Gone, Rests
<1> QED
  BY <1>2, <1>3 DEF Fit

\* What is said leaves a model as fit as it was.
LEMMA SpeaksFits ==
  ASSUME NEW c, Fit(c), NEW d, Speaks(c, d)
  PROVE  Fit(d) /\ (d.open <=> c.open) /\ (d.up <=> c.up)
<1>1. Rests(c, d)
  BY DEF Speaks, Rests
<1> QED
  BY <1>1, RestsFits

\* A model whose entry is lost is fit.
LEMMA LosesEntryFits ==
  ASSUME NEW c, Poised(c), Awaits(c), NEW d, LosesEntry(c, d)
  PROVE  Fit(d)
<1>1. Steady(c, d) /\ Steps(d) = Steps(c) /\ d.cc = c.cc /\ IsClient(d) /\ d.open
  BY DEF LosesEntry, Steady, Poised
<1>2. Standing(d)
  BY <1>1, StepsMean DEF LosesEntry, Steady, Poised, Standing, MayClose
<1>3. IsToldOf(d)
  BY <1>1, StepsMean DEF LosesEntry, Steady, Poised, IsToldOf
<1>4. Awaits(d)
  BY <1>1, StepsMean DEF Awaits
<1> QED
  BY <1>1, <1>2, <1>3, <1>4 DEF Fit, Poised

\* A reply leaves the model fit.
LEMMA RepliedFits ==
  ASSUME NEW c, Poised(c), Awaits(c), c.up, NEW task, NEW message,
         task.step = "resync" /\ message.type = "reply"
           => message.version \in Nat /\ message.resource \in Nat /\ message.resource # 0,
         NEW d, RepliedMakes(c, task, message, d)
  PROVE  Fit(d)
<1>1. ASSUME IsSaved(c, d) PROVE Fit(d)
  <2>1. Standing(d)
    BY <1>1 DEF IsSaved, Poised, Standing, MayClose, Session
  <2>2. IsToldOf(d)
    BY <1>1 DEF IsSaved, Poised, IsToldOf
  <2> QED
    BY <1>1, <2>1, <2>2 DEF IsSaved, Fit, Poised, Awaits
<1>2. ASSUME IsAnswered(c, d) PROVE Fit(d)
  <2>1. Frame(d) = Frame(c) /\ d.cc = c.cc
    BY <1>2 DEF IsAnswered
  <2>2. Standing(d)
    BY <1>2, FrameMeans DEF IsAnswered, Poised, Standing, MayClose
  <2>3. IsToldOf(d)
    BY <1>2, FrameMeans DEF IsAnswered, Poised, IsToldOf
  <2>4. Awaits(d)
    BY <2>1, FrameHoldsAwaits
  <2> QED
    BY <1>2, <2>2, <2>3, <2>4 DEF IsAnswered, Fit, Poised
<1>3. ASSUME d = c PROVE Fit(d)
  BY <1>3 DEF Fit, Poised
<1>4. ASSUME GoneTo(c, d) PROVE Fit(d)
  BY <1>4 DEF GoneTo, Fit
<1> QED
  BY <1>1, <1>2, <1>3, <1>4, LosesEntryFits, ResponseFits DEF RepliedMakes

\* An edit leaves the model fit.
LEMMA EditFits ==
  ASSUME NEW c, Poised(c), Awaits(c), NEW d, EditMakes(c, d)
  PROVE  Fit(d)
<1>1. d.cc.contextVersion = c.cc.contextVersion
  BY EditTakes DEF EditMakes, Poised, IsClient
<1>2. Standing(d)
  BY FrameMeans DEF EditMakes, Poised, Standing, MayClose
<1>3. IsToldOf(d)
  BY <1>1, FrameMeans DEF EditMakes, Poised, IsToldOf
<1>4. Awaits(d)
  BY <1>1, FrameHoldsAwaits DEF EditMakes
<1> QED
  BY <1>2, <1>3, <1>4 DEF EditMakes, Fit, Poised

\* A model that is to close later is fit.
LEMMA ClosesLaterFits ==
  ASSUME NEW c, Poised(c), Awaits(c), NEW d, ClosesLater(c, d)
  PROVE  Fit(d)
<1>1. Standing(d)
  BY DEF ClosesLater, Poised, Standing, MayClose, Session
<1>2. IsToldOf(d)
  BY DEF ClosesLater, Poised, IsToldOf
<1> QED
  BY <1>1, <1>2 DEF ClosesLater, Fit, Poised, Awaits

\* A model that has lost its connection is fit.
LEMMA DropsFits ==
  ASSUME NEW c, Poised(c), NEW d, Drops(c, d)
  PROVE  Fit(d)
<1>1. CASE Gone(d)
  BY <1>1 DEF Fit
<1>2. CASE ~Gone(d)
  <2>1. /\ ~c.closing /\ d.open /\ d.told = "offline" /\ d.toldVersion = c.toldVersion
        /\ (d.toldClosed <=> c.toldClosed) /\ (d.waitingForServer <=> c.waitingForServer)
        /\ (d.failed <=> c.failed)
    BY <1>2 DEF Drops, Poised
  <2>2. Standing(d)
    BY <2>1 DEF Drops, Poised, Standing
  <2>3. IsToldOf(d)
    BY <2>1 DEF Drops, Poised, IsToldOf
  <2> QED
    BY <2>1, <2>2, <2>3 DEF Drops, Fit, Poised, Awaits
<1> QED
  BY <1>1, <1>2

\* A model with a new connection is fit.
LEMMA ReconnectsFits ==
  ASSUME NEW c, Poised(c), ~c.up, NEW d, Reconnects(c, d)
  PROVE  Fit(d)
<1>1. d.told \in {"offline", "reconnecting"} /\ c.offline /\ c.resource = 0 /\ ~c.closing
  BY DEF Reconnects, Poised, Standing, IsToldOf
<1>2. Standing(d)
  BY <1>1 DEF Reconnects, Poised, Standing
<1>3. IsToldOf(d)
  BY <1>1 DEF Reconnects, Poised, IsToldOf
<1>4. d.cc.contextVersion \in Nat
  BY DEF Reconnects, IsClient, IsConcurrencyControl
<1>5. Awaits(d)
  BY <1>4 DEF Reconnects, Awaits, Unknown
<1> QED
  BY <1>2, <1>3, <1>5 DEF Reconnects, Fit, Poised

\* A model that asks to be resynchronised is fit.
LEMMA ResumesFits ==
  ASSUME NEW c, Poised(c), Awaits(c), NEW since, NEW d, Resumes(c, since, d)
  PROVE  Fit(d)
<1>1. Steady(c, d) /\ Steps(d) = Steps(c) /\ d.cc = c.cc /\ IsClient(d) /\ d.open
      /\ d.told = "reconnecting" /\ (d.late <=> c.offline) /\ (d.entry => c.entry)
  BY DEF Resumes, Steady, Poised
<1>2. Standing(d)
  BY <1>1, StepsMean DEF Steady, Poised, Standing, MayClose
<1>3. IsToldOf(d)
  BY <1>1, StepsMean DEF Steady, Poised, IsToldOf
<1>4. Awaits(d)
  BY <1>1, StepsMean DEF Awaits
<1> QED
  BY <1>1, <1>2, <1>3, <1>4 DEF Fit, Poised

(***************************************************************************)
(* What a handler sends                                                    *)
(***************************************************************************)

Elements(messages) == {messages[i] : i \in DOMAIN messages}

\* Nothing is in the empty sequence.
LEMMA ElementsOfEmpty ==
  Elements(<<>>) = {}
  BY DEF Elements

\* Sending adds one message.
LEMMA ElementsOfSent ==
  ASSUME NEW q, IsSequence(q), NEW message, NEW r, r = Sent(q, message)
  PROVE  IsSequence(r) /\ Elements(r) = Elements(q) \cup {message}
<1>1. /\ IsSequence(r) /\ Len(r) = Len(q) + 1 /\ r[Len(q) + 1] = message
      /\ \A i \in 1 .. Len(q) : r[i] = q[i]
  BY LastMessage
<1>2. Len(q) \in Nat /\ DOMAIN q = 1 .. Len(q) /\ DOMAIN r = 1 .. Len(q) + 1
  BY <1>1, SequenceIsFunction
<1>3. 1 .. Len(q) + 1 = (1 .. Len(q)) \cup {Len(q) + 1}
  BY <1>2
<1> QED
  BY <1>1, <1>2, <1>3 DEF Elements

\* The tail has nothing new, and the head is the first.
LEMMA ElementsOfTail ==
  ASSUME NEW q, IsSequence(q), q # <<>>, NEW r, r = Tail(q)
  PROVE  /\ IsSequence(r) /\ Elements(r) \subseteq Elements(q)
         /\ Head(q) \in Elements(q) /\ Head(q) = q[1] /\ Len(q) >= 1
<1>1. /\ IsSequence(r) /\ Len(q) >= 1 /\ Len(r) = Len(q) - 1 /\ Head(q) = q[1]
      /\ \A i \in 1 .. Len(q) - 1 : r[i] = q[i + 1]
  BY TailOfSequence
<1>2. PICK n \in Nat : n = Len(q) /\ DOMAIN q = 1 .. n
  BY SequenceIsFunction
<1>3. DOMAIN r = 1 .. n - 1 /\ 1 \in DOMAIN q
  BY <1>1, <1>2, SequenceIsFunction
<1>4. \A i \in 1 .. n - 1 : r[i] = q[i + 1] /\ i + 1 \in DOMAIN q
  BY <1>1, <1>2
<1>5. Elements(r) \subseteq Elements(q)
  BY <1>2, <1>3, <1>4 DEF Elements
<1>6. Head(q) \in Elements(q)
  BY <1>1, <1>3 DEF Elements
<1> QED
  BY <1>1, <1>5, <1>6

\* One after the other, two sequences have what each has.
LEMMA ElementsOfConcat ==
  ASSUME NEW q, IsSequence(q), NEW r, IsSequence(r), NEW s, s = q \o r
  PROVE  IsSequence(s) /\ Elements(s) = Elements(q) \cup Elements(r)
<1>1. PICK m \in Nat : m = Len(q) /\ DOMAIN q = 1 .. m
  BY SequenceIsFunction
<1>2. PICK n \in Nat : n = Len(r) /\ DOMAIN r = 1 .. n
  BY SequenceIsFunction
<1>3. /\ IsSequence(s) /\ Len(s) = m + n
      /\ \A i \in 1 .. m : s[i] = q[i]
      /\ \A i \in 1 .. n : s[m + i] = r[i]
  BY <1>1, <1>2, ConcatOfSequences
<1>4. DOMAIN s = 1 .. m + n
  BY <1>3, SequenceIsFunction
<1>5. ASSUME NEW i \in 1 .. m + n PROVE s[i] \in Elements(q) \cup Elements(r)
  <2>1. CASE i <= m
    BY <1>1, <1>3, <2>1 DEF Elements
  <2>2. CASE i > m
    <3>1. PICK j \in 1 .. n : i = m + j
      <4>1. i - m \in 1 .. n /\ i = m + (i - m)
        BY <2>2
      <4> QED
        BY <4>1
    <3> QED
      BY <1>2, <1>3, <3>1 DEF Elements
  <2>3. i <= m \/ i > m
    OBVIOUS
  <2> QED
    BY Zenon, <2>1, <2>2, <2>3
<1>6. \A i \in 1 .. m : q[i] \in Elements(s)
  <2>1. \A i \in 1 .. m : i \in 1 .. m + n
    OBVIOUS
  <2> QED
    BY <1>3, <1>4, <2>1 DEF Elements
<1>7. ASSUME NEW i \in 1 .. n PROVE r[i] \in Elements(s)
  <2>1. m + i \in 1 .. m + n
    OBVIOUS
  <2> QED
    BY <1>3, <1>4, <2>1 DEF Elements
<1>8. Elements(s) \subseteq Elements(q) \cup Elements(r)
  BY <1>4, <1>5 DEF Elements
<1>9. Elements(q) \cup Elements(r) \subseteq Elements(s)
  <2>1. Elements(q) \subseteq Elements(s)
    BY <1>1, <1>6 DEF Elements
  <2>2. Elements(r) \subseteq Elements(s)
    BY <1>2, <1>7 DEF Elements
  <2> QED
    BY <2>1, <2>2
<1> QED
  BY <1>3, <1>8, <1>9

\* A message that a model may send as it is after the handler
May(d, message) ==
  /\ message.type \in {"op", "complete", "close", "resync"}
  /\ message.resource = d.resource
  /\ message.type = "resync" => message.version = d.cc.contextVersion
  /\ message.type # "resync" => d.resource # 0
  /\ message.type = "close" => d.closing
  /\ CatchesUp(d) => message.type \in {"close", "resync"}

\* Only an open model with a connection sends.
Utters(c, d) ==
  /\ IsSequence(d.sent) /\ Session(d) = Session(c)
  /\ d.sent # <<>> => d.open /\ d.up
  /\ \A message \in Elements(d.sent) : May(d, message)
  /\ CatchesUp(d) => CatchesUp(c)

\* Who sends nothing sends only what it may.
LEMMA QuietUtters ==
  ASSUME NEW c, NEW d, Session(d) = Session(c), d.sent = <<>>, CatchesUp(d) => CatchesUp(c)
  PROVE  Utters(c, d)
  BY ElementsOfEmpty, EmptyIsSequence DEF Utters

\* One message that may be sent
LEMMA OneUtters ==
  ASSUME NEW c, NEW d, Session(d) = Session(c), d.open, d.up, CatchesUp(d) => CatchesUp(c),
         NEW message, d.sent = Sent(<<>>, message), May(d, message)
  PROVE  Utters(c, d)
<1>1. IsSequence(d.sent) /\ Elements(d.sent) = {message}
  BY ElementsOfSent, ElementsOfEmpty, EmptyIsSequence
<1> QED
  BY <1>1 DEF Utters

\* A closed model sends nothing.
LEMMA GoneToUtters ==
  ASSUME NEW c, c.sent = <<>>, NEW d, GoneTo(c, d)
  PROVE  Utters(c, d)
  BY QuietUtters DEF GoneTo, Gone, CatchesUp

\* Catching up depends on the frame, and on being open.
LEMMA FrameHoldsCatchingUp ==
  ASSUME NEW c, NEW d, Frame(d) = Frame(c), d.open => c.open
  PROVE  CatchesUp(d) => CatchesUp(c)
  BY FrameMeans DEF CatchesUp

\* Taking an operation or an acknowledgement sends nothing.
LEMMA KeepsUtters ==
  ASSUME NEW c, c.sent = <<>>, NEW d, Keeps(c, d)
  PROVE  Utters(c, d)
  BY QuietUtters, FrameHoldsCatchingUp, FrameHoldsSession DEF Keeps

\* An error sends no more than a request to close.
LEMMA ErrsUtters ==
  ASSUME NEW c, Hears(c), c.sent = <<>>, NEW d, Errs(c, d)
  PROVE  Utters(c, d)
<1>1. /\ Session(d) = Session(c) /\ (CatchesUp(d) => CatchesUp(c)) /\ d.open /\ d.up /\ d.closing
      /\ d.resource = c.resource /\ c.resource # 0
  BY HearsMeans, FrameMeans, FrameHoldsCatchingUp, FrameHoldsSession DEF Errs
<1>2. CASE c.closing
  BY <1>1, <1>2, QuietUtters DEF Errs
<1>3. CASE ~c.closing
  <2>1. PICK message : message = Message(c, "close", c.epoch, 0)
    OBVIOUS
  <2>2. May(d, message)
    BY <1>1, <2>1 DEF May, Message
  <2>3. d.sent = Sent(<<>>, message)
    BY <1>3, <2>1 DEF Errs
  <2> QED
    BY <1>1, <2>2, <2>3, OneUtters
<1> QED
  BY <1>2, <1>3

\* A model that has caught up sends what it may: a request to close, its operations, and
\* that it is up to date.
LEMMA CaughtUpUtters ==
  ASSUME NEW c, Hears(c), NEW d, CaughtUp(c, d)
  PROVE  Utters(c, d)
<1>1. /\ Session(d) = Session(c) /\ ~CatchesUp(d) /\ d.open /\ d.up
      /\ d.resource = c.resource /\ c.resource # 0 /\ IsSequence(d.sent)
  BY HearsMeans, FootingMeans, FootingHoldsSession DEF CaughtUp, CatchesUp, IsClient
<1>2. PICK n \in Nat : n = Len(d.sent) /\ DOMAIN d.sent = 1 .. n
  BY <1>1, SequenceIsFunction
<1>3. PICK k \in Nat : k = Len(InFlight(d.cc)) /\ DOMAIN InFlight(d.cc) = 1 .. k
  BY InFlightIsNumbered DEF CaughtUp, IsClient
<1>4. PICK m \in {0, 1} :
        /\ m = 1 => d.closing /\ ~c.closing /\ d.sent[1] = Message(c, "close", c.epoch, 0)
        /\ d.threw => d.closing /\ n = m
        /\ ~d.threw =>
             /\ n = m + k + 1
             /\ \A i \in 1 .. k : d.sent[m + i] = Submission(c, InFlight(d.cc)[i])
             /\ d.sent[m + k + 1] = Message(c, "complete", 0, IF c.resyncOnly THEN 0 ELSE 1)
  BY <1>2, <1>3 DEF CaughtUp, SaysItIsUpToDate
<1>5. ASSUME NEW i \in 1 .. n PROVE May(d, d.sent[i])
  <2>1. CASE i = 1 /\ m = 1
    BY <1>1, <1>4, <2>1 DEF May, Message
  <2>2. CASE ~(i = 1 /\ m = 1)
    <3>1. ~d.threw /\ n = m + k + 1
      BY <1>4, <2>2
    <3>2. CASE i = n
      BY <1>1, <1>4, <3>1, <3>2 DEF May, Message
    <3>3. CASE i # n
      <4>1. i - m \in 1 .. k /\ m + (i - m) = i
        BY <2>2, <3>1, <3>3
      <4>2. d.sent[i] = Submission(c, InFlight(d.cc)[i - m])
        BY <1>4, <3>1, <4>1
      <4> QED
        BY <1>1, <4>2 DEF May, Message, Submission
    <3> QED
      BY <3>2, <3>3
  <2> QED
    BY <2>1, <2>2
<1>6. \A message \in Elements(d.sent) : May(d, message)
  BY <1>2, <1>5 DEF Elements
<1> QED
  BY <1>1, <1>6 DEF Utters

\* What may be sent after a silent step may be sent over both.
LEMMA UttersAfter ==
  ASSUME NEW c, NEW x, Session(x) = Session(c), CatchesUp(x) => CatchesUp(c), NEW d, Utters(x, d)
  PROVE  Utters(c, d)
  BY DEF Utters

\* A silent step after what was sent
LEMMA SteadyUtters ==
  ASSUME NEW c, NEW x, Utters(c, x), NEW d, Steady(x, d), d.sent = x.sent
  PROVE  Utters(c, d)
<1>1. /\ Session(d) = Session(x) /\ (d.up <=> x.up) /\ (d.open <=> x.open)
      /\ (CatchesUp(d) <=> CatchesUp(x))
      /\ d.resource = x.resource /\ d.cc = x.cc /\ (d.closing <=> x.closing)
  BY StepsMean DEF Steady, CatchesUp
<1>2. \A message : May(x, message) <=> May(d, message)
  BY <1>1 DEF May
<1> QED
  BY <1>1, <1>2 DEF Utters

\* Reaching the end of the history sends what may be sent, and so does not reaching it.
LEMMA ReachesUtters ==
  ASSUME NEW c, Hears(c), c.sent = <<>>, NEW d, Reaches(c, d)
  PROVE  Utters(c, d)
  BY QuietUtters, CaughtUpUtters DEF Reaches

\* A model that asks to close may.
LEMMA AsksUtters ==
  ASSUME NEW c, Hears(c), c.sent = <<>>, NEW d, Asks(c, d)
  PROVE  Utters(c, d)
<1>1. /\ Session(d) = Session(c) /\ (CatchesUp(d) => CatchesUp(c)) /\ d.open /\ d.up /\ d.closing
      /\ d.resource = c.resource /\ c.resource # 0
  BY HearsMeans, FrameMeans, FrameHoldsCatchingUp, FrameHoldsSession DEF Asks
<1>2. PICK message : message = Message(c, "close", c.epoch, 0)
  OBVIOUS
<1>3. May(d, message)
  BY <1>1, <1>2 DEF May, Message
<1>4. d.sent = Sent(<<>>, message)
  BY <1>2 DEF Asks
<1> QED
  BY <1>1, <1>3, <1>4, OneUtters

\* A model that leaves sends nothing.
LEMMA LeavesUtters ==
  ASSUME NEW c, Hears(c), c.sent = <<>>, NEW d, Leaves(c, d)
  PROVE  Utters(c, d)
  BY HearsMeans, QuietUtters, FrameHoldsCatchingUp, FrameHoldsSession DEF Leaves

\* What an acknowledgement makes a model send may be sent.
LEMMA AckUtters ==
  ASSUME NEW c, Hears(c), c.sent = <<>>, NEW version, NEW seqNo, NEW d, AckMakes(c, version, seqNo, d)
  PROVE  Utters(c, d)
  BY KeepsUtters, GoneToUtters, ErrsUtters DEF AckMakes

\* What an operation of the history makes a model send may be sent.
LEMMA HistoryUtters ==
  ASSUME NEW c, Hears(c), c.sent = <<>>, NEW message, NEW d, HistoryMakes(c, message, d)
  PROVE  Utters(c, d)
<1>1. ASSUME NEW x, Keeps(c, x), x.toldVersion = x.cc.contextVersion, Reaches(x, d)
      PROVE  Utters(c, d)
  <2>1. Hears(x)
    BY <1>1, KeepsFits
  <2>2. x.sent = <<>> /\ Session(x) = Session(c) /\ (CatchesUp(x) => CatchesUp(c))
    BY <1>1, FrameHoldsSession, FrameHoldsCatchingUp DEF Keeps
  <2>3. Utters(x, d)
    BY <1>1, <2>1, <2>2, ReachesUtters
  <2> QED
    BY <2>2, <2>3, UttersAfter
<1> QED
  BY <1>1, ErrsUtters DEF HistoryMakes

\* What the end of the resynchronisation makes a model send may be sent.
LEMMA ServerCompleteUtters ==
  ASSUME NEW c, Hears(c), c.resync, c.sent = <<>>, NEW d, ServerCompleteMakes(c, d)
  PROVE  Utters(c, d)
<1>1. PICK done, r :
        /\ EndsResync(c, r) /\ Steady(r, done)
        /\ done.told = "resync_completed" /\ ~done.entry /\ done.sent = c.sent
        /\ \/ d = done
           \/ Steady(done, d) /\ d.sent = done.sent
           \/ Asks(done, d)
           \/ Leaves(done, d) \/ GoneTo(done, d)
  BY DEF ServerCompleteMakes
<1>2. Hears(r) /\ ~r.resync /\ Session(r) = Session(c)
  BY <1>1, EndsFits DEF EndsResync, Remains
<1>3. ~done.resync /\ Session(done) = Session(c)
  BY <1>1, <1>2, StepsMean DEF Steady
<1>4. Hears(done)
  <2>1. (done.entry => r.entry) /\ done.told # "offline"
    BY <1>1
  <2> QED
    BY <1>1, <1>2, <1>3, <2>1, SteadyFits
<1>5. done.sent = <<>> /\ ~CatchesUp(done)
  BY <1>1, <1>3 DEF CatchesUp
<1>6. Utters(done, done)
  BY <1>5, QuietUtters
<1>7. Utters(done, d)
  BY <1>1, <1>4, <1>5, <1>6, SteadyUtters, AsksUtters, LeavesUtters, GoneToUtters
<1> QED
  BY <1>3, <1>5, <1>7, UttersAfter

\* What a message makes a model send may be sent.
LEMMA HandleUtters ==
  ASSUME NEW c, Hears(c), c.sent = <<>>, NEW message, NEW d, HandleMakes(c, message, d)
  PROVE  Utters(c, d)
<1>1. ASSUME Buffers(c, message, d) PROVE Utters(c, d)
  <2>1. Session(d) = Session(c) /\ d.sent = <<>> /\ (CatchesUp(d) => CatchesUp(c))
    BY <1>1 DEF Buffers, Remains, CatchesUp
  <2> QED
    BY <2>1, QuietUtters
<1>2. ASSUME RemoteMakes(c, message, d) PROVE Utters(c, d)
  BY <1>2, KeepsUtters, ErrsUtters DEF RemoteMakes
<1>3. ASSUME d = c PROVE Utters(c, d)
  BY <1>3, QuietUtters
<1>4. ASSUME c.resync, ServerCompleteMakes(c, d) PROVE Utters(c, d)
  BY <1>4, ServerCompleteUtters
<1> QED
  BY <1>1, <1>2, <1>3, <1>4, HistoryUtters, AckUtters, LeavesUtters, GoneToUtters DEF HandleMakes

\* An error of the resynchronisation sends nothing.
LEMMA LosesEntryUtters ==
  ASSUME NEW c, c.sent = <<>>, NEW d, LosesEntry(c, d)
  PROVE  Utters(c, d)
<1>1. Utters(c, c)
  BY QuietUtters
<1> QED
  BY <1>1, SteadyUtters DEF LosesEntry

\* What the answer to its request makes a model send may be sent.
LEMMA ResponseUtters ==
  ASSUME NEW c, Poised(c), c.up, c.sent = <<>>, NEW message,
         message.version \in Nat, message.resource \in Nat, message.resource # 0,
         NEW d, ResponseMakes(c, message, d)
  PROVE  Utters(c, d)
<1>1. CASE ~c.resync
  <2>1. Steady(c, d) /\ d.sent = c.sent
    BY <1>1 DEF ResponseMakes
  <2>2. Utters(c, c)
    BY QuietUtters
  <2> QED
    BY <2>1, <2>2, SteadyUtters
<1>2. CASE c.resync
  <2>1. PICK x, y :
          /\ Abides(c, x) /\ x.reconnectVersion = message.version /\ x.resource = message.resource
          /\ x.told = "resync_started" /\ (x.entry <=> c.entry) /\ x.sent = c.sent
          /\ Reaches(x, y)
          /\ \/ d = y
             \/ Steady(y, d) /\ d.sent = y.sent
    BY <1>2 DEF ResponseMakes
  <2>2. Hears(x)
    <3>1. /\ IsClient(x) /\ x.open /\ x.up /\ ~x.offline /\ x.resync /\ x.resource # 0
          /\ x.reconnectVersion # Unknown
      BY <1>2, <2>1 DEF Abides, Session, Poised, Standing, Unknown
    <3>2. Standing(x)
      BY <2>1, <3>1 DEF Abides, Poised, Standing, MayClose
    <3>3. IsToldOf(x)
      BY <2>1, <3>1 DEF Abides, Poised, IsToldOf
    <3> QED
      BY <3>1, <3>2, <3>3 DEF Hears, Poised
  <2>3. Utters(x, y)
    BY <2>1, <2>2, ReachesUtters
  <2>4. Utters(x, d)
    BY <2>1, <2>3, SteadyUtters
  <2>5. Session(x) = Session(c) /\ (CatchesUp(x) => CatchesUp(c))
    BY <2>1 DEF Abides, CatchesUp
  <2> QED
    BY <2>4, <2>5, UttersAfter
<1> QED
  BY <1>1, <1>2

\* What a reply makes a model send may be sent.
LEMMA RepliedUtters ==
  ASSUME NEW c, Poised(c), c.up, c.sent = <<>>, NEW task, NEW message,
         task.step = "resync" /\ message.type = "reply"
           => message.version \in Nat /\ message.resource \in Nat /\ message.resource # 0,
         NEW d, RepliedMakes(c, task, message, d)
  PROVE  Utters(c, d)
<1>1. ASSUME IsSaved(c, d) PROVE Utters(c, d)
  BY <1>1, QuietUtters DEF IsSaved, CatchesUp
<1>2. ASSUME IsAnswered(c, d) PROVE Utters(c, d)
  BY <1>2, QuietUtters, FrameHoldsSession, FrameHoldsCatchingUp DEF IsAnswered
<1>3. ASSUME d = c PROVE Utters(c, d)
  BY <1>3, QuietUtters
<1> QED
  BY <1>1, <1>2, <1>3, LosesEntryUtters, ResponseUtters, GoneToUtters DEF RepliedMakes

\* An edit sends no more than the operation.
LEMMA EditUtters ==
  ASSUME NEW c, Poised(c), c.sent = <<>>, NEW d, EditMakes(c, d)
  PROVE  Utters(c, d)
<1>1. /\ Session(d) = Session(c) /\ (CatchesUp(d) <=> CatchesUp(c)) /\ d.open
      /\ d.resource = c.resource /\ (d.up <=> c.up)
  BY FrameMeans, FrameHoldsSession DEF EditMakes, CatchesUp, Poised
<1>2. CASE SendEvents(c)
  <2>1. PICK message : message = Submission(c, InFlight(d.cc)[Len(InFlight(d.cc))])
    OBVIOUS
  <2>2. d.up /\ ~CatchesUp(d) /\ d.resource # 0
    BY <1>1, <1>2 DEF SendEvents, CatchesUp, Poised, Standing
  <2>3. May(d, message)
    BY <1>1, <2>1, <2>2 DEF May, Message, Submission
  <2>4. d.sent = Sent(<<>>, message)
    BY <1>2, <2>1 DEF EditMakes
  <2> QED
    BY <1>1, <2>2, <2>3, <2>4, OneUtters
<1>3. CASE ~SendEvents(c)
  BY <1>1, <1>3, QuietUtters DEF EditMakes
<1> QED
  BY <1>2, <1>3

\* Putting off the close sends nothing.
LEMMA ClosesLaterUtters ==
  ASSUME NEW c, c.sent = <<>>, NEW d, ClosesLater(c, d)
  PROVE  Utters(c, d)
  BY QuietUtters DEF ClosesLater, CatchesUp

\* To resynchronise sends no more than the request.
LEMMA ResumesUtters ==
  ASSUME NEW c, Poised(c), c.sent = <<>>, NEW since, NEW d, Resumes(c, since, d)
  PROVE  Utters(c, d)
<1>1. /\ Session(d) = Session(c) /\ (CatchesUp(d) => CatchesUp(c)) /\ d.open
      /\ d.resource = c.resource /\ (d.up <=> c.up) /\ d.cc = c.cc
  BY StepsMean DEF Resumes, Steady, CatchesUp, Poised
<1>2. CASE c.up
  <2>1. PICK message : message = Message(c, "resync", since, c.cc.contextVersion)
    OBVIOUS
  <2>2. May(d, message)
    BY <1>1, <2>1 DEF May, Message
  <2>3. d.sent = Sent(<<>>, message)
    BY <1>2, <2>1 DEF Resumes, Poised
  <2> QED
    BY <1>1, <1>2, <2>2, <2>3, OneUtters
<1>3. CASE ~c.up
  BY <1>1, <1>3, QuietUtters DEF Resumes
<1> QED
  BY <1>2, <1>3

(***************************************************************************)
(* The invariant: the client is fit, the server and the channels hold what *)
(* they may, and while the model catches up nothing of its own is on its   *)
(* way.                                                                    *)
(***************************************************************************)

ServerFields == {"exists", "phase", "resource", "since", "log", "foreign", "reopened"}

IsServer(s) ==
  /\ s = [f \in ServerFields |-> s[f]]
  /\ s.resource \in Nat /\ IsSequence(s.log)
  /\ s.phase \in {"resync", "open"} => s.resource # 0

IsRequest(message) ==
  /\ message.type \in {"create", "resync", "op", "complete", "close"}
  /\ message.type = "resync" => message.version \in Nat \ {0}

IsReplyToResync(message) == message.type = "reply" /\ message.step = "resync"

IsFromServer(message) ==
  /\ message.type \in {"remote", "ack", "forceClose", "serverComplete", "reply", "exists", "refusal"}
  /\ IsAnswer(message) => message.step \in {"create", "resync", "close"}
  /\ ~IsAnswer(message) \/ IsReplyToResync(message) => message.resource \in Nat /\ message.resource # 0
  /\ IsReplyToResync(message) => message.version \in Nat

IsSettled(c) == Fit(c) /\ c.sent = <<>> /\ ~c.threw

Wired(c, s, requests, messages) ==
  /\ IsServer(s) /\ IsSequence(requests) /\ IsSequence(messages)
  /\ \A message \in Elements(requests) :
       IsRequest(message) /\ (CatchesUp(c) => message.type \notin {"op", "complete"})
  /\ \A message \in Elements(messages) :
       IsFromServer(message) /\ (CatchesUp(c) => message.type \notin {"ack", "serverComplete"})
  /\ c.open /\ ~c.up => /\ requests = <<>> /\ messages = <<>>
                        /\ s.phase \notin {"resync", "open"}

TInv == IsSettled(client) /\ Wired(client, server, toServer, toClient)

\* The client between two handlers
LEMMA BecomesMakes ==
  ASSUME NEW d, IsClient(d), Becomes(d)
  PROVE  /\ Rests(d, client') /\ client'.sent = <<>> /\ ~client'.threw
         /\ toServer' = toServer \o d.sent
<1>1. toServer' = toServer \o d.sent
  BY DEF Becomes
<1>2. PICK none : none = <<>> /\ IsSequence(none)
  BY EmptyIsSequence
<1>3. client' = [d EXCEPT !.sent = none, !.threw = FALSE]
  BY <1>2 DEF Becomes
<1>4. Rests(d, client') /\ client'.sent = none /\ ~client'.threw
  BY <1>2, <1>3 DEF Rests, IsClient, ClientFields, Frame
<1> QED
  BY <1>1, <1>2, <1>4

\* A handler leaves a client that is fit and says only what it may.
LEMMA TurnKeeps ==
  ASSUME TInv, NEW d, Fit(d), Utters(client, d), Becomes(d), server' = server,
         IsSequence(toClient'), Elements(toClient') \subseteq Elements(toClient),
         client.open /\ ~client.up => toClient' = <<>>, d.open => client.open
  PROVE  TInv'
<1>1. IsClient(d)
  BY DEF Fit, Poised, Gone
<1>2. Rests(d, client') /\ client'.sent = <<>> /\ ~client'.threw /\ toServer' = toServer \o d.sent
  BY <1>1, BecomesMakes
<1>3. Fit(client') /\ (client'.open <=> d.open) /\ (client'.up <=> d.up)
  BY <1>2, RestsFits
<1>4. IsSettled(client')
  BY <1>2, <1>3 DEF IsSettled
<1>5. /\ CatchesUp(client') => CatchesUp(d)
      /\ d.up <=> client.up
  BY <1>2, <1>3, FrameMeans DEF Rests, CatchesUp, Utters, Session
<1>6. CatchesUp(d) => CatchesUp(client)
  BY DEF Utters
<1>7. IsSequence(toServer') /\ Elements(toServer') = Elements(toServer) \cup Elements(d.sent)
  BY <1>2, ElementsOfConcat DEF Utters, TInv, Wired
<1>8. ASSUME NEW message \in Elements(d.sent)
      PROVE  IsRequest(message) /\ (CatchesUp(d) => message.type \notin {"op", "complete"})
  <2>1. d.cc.contextVersion \in Nat \ {0}
    BY <1>1 DEF IsClient, IsConcurrencyControl
  <2>2. May(d, message)
    BY <1>8 DEF Utters
  <2> QED
    BY <2>1, <2>2 DEF May, IsRequest
<1>9. ASSUME client'.open, ~client'.up
      PROVE  toServer' = <<>> /\ toClient' = <<>> /\ server'.phase \notin {"resync", "open"}
  <2>1. client.open /\ ~client.up /\ ~d.up
    BY <1>3, <1>5, <1>9
  <2>2. d.sent = <<>> /\ toServer = <<>>
    BY <2>1 DEF Utters, TInv, Wired
  <2> QED
    BY <1>2, <2>1, <2>2 DEF TInv, Wired
<1>10. Wired(client', server', toServer', toClient')
  BY <1>5, <1>6, <1>7, <1>8, <1>9 DEF TInv, Wired
<1> QED
  BY <1>4, <1>10 DEF TInv

\* What the server does leaves the client alone.
LEMMA ServesKeeps ==
  ASSUME TInv, client' = client, IsServer(server'),
         IsSequence(toServer'), Elements(toServer') \subseteq Elements(toServer),
         IsSequence(toClient'),
         \A message \in Elements(toClient') :
           \/ message \in Elements(toClient)
           \/ IsFromServer(message) /\ (CatchesUp(client) => message.type \notin {"ack", "serverComplete"}),
         client.open /\ ~client.up => /\ toServer' = <<>> /\ toClient' = <<>>
                                      /\ server'.phase \notin {"resync", "open"}
  PROVE  TInv'
<1>1. IsSettled(client')
  BY DEF TInv
<1>2. Wired(client', server', toServer', toClient')
  BY DEF TInv, Wired
<1> QED
  BY <1>1, <1>2 DEF TInv

(***************************************************************************)
(* Each step of the server                                                 *)
(***************************************************************************)

\* Answers are of the kind they are asked for.
LEMMA AnswerMeans ==
  ASSUME NEW message, NEW kind, NEW version, NEW resource,
         NEW answer, answer = Answer(message, kind, version, resource)
  PROVE  /\ answer.type = kind /\ answer.step = message.type /\ answer.number = message.number
         /\ answer.version = version /\ answer.resource = resource
  BY DEF Answer

\* An operation of the history, as it is sent to a model that resynchronises.
History(i) == [Remote(i) EXCEPT !.resource = @ + 1]

\* The history is of remote operations to the resource to come.
LEMMA HistoryMeans ==
  ASSUME NEW i, NEW message, message = History(i)
  PROVE  /\ message.type = "remote" /\ message.session = server.log[i].session
         /\ message.version = i /\ message.resource = server.resource + 1
  BY DEF History, Remote

\* What the server sends for a request
CreateMakes(message) ==
  \E answer :
    /\ answer.type \in {"exists", "reply"} /\ answer.step = message.type
    /\ answer.number = message.number
    /\ toClient' = Sent(toClient, answer)
    /\ IsServer(server') /\ server'.phase = server.phase /\ server'.resource = server.resource
    /\ server'.log = server.log /\ server'.since = server.since /\ server'.foreign = server.foreign
    /\ (server'.reopened <=> server.reopened)

\* The server creates the model, or says that it exists.
LEMMA CreateDoes ==
  ASSUME IsServer(server), NEW message, Create(message)
  PROVE  CreateMakes(message)
<1>1. PICK kind : kind = (IF server.exists THEN "exists" ELSE "reply")
  OBVIOUS
<1>2. PICK answer : answer = Answer(message, kind, 0, 0)
  OBVIOUS
<1>3. toClient' = Sent(toClient, answer)
  BY <1>1, <1>2 DEF Create, Sent
<1>4. answer.type = kind /\ answer.step = message.type /\ answer.number = message.number
  BY <1>2, AnswerMeans
<1>5. server' = [server EXCEPT !.exists = TRUE]
  BY DEF Create
<1>6. /\ IsServer(server') /\ server'.phase = server.phase /\ server'.resource = server.resource
      /\ server'.log = server.log /\ server'.since = server.since /\ server'.foreign = server.foreign
      /\ (server'.reopened <=> server.reopened)
  BY <1>5 DEF IsServer, ServerFields
<1> QED
  BY <1>1, <1>3, <1>4, <1>6 DEF CreateMakes

\* A resynchronisation begins: its answer comes first, then the history that is missed.
StartMakes(message) ==
  \/ \E answer :
       /\ Knows \/ ~server.exists
       /\ answer.type = "refusal" /\ answer.step = message.type /\ answer.number = message.number
       /\ toClient' = Sent(toClient, answer) /\ server' = server
  \/ \E answer, history :
       /\ ~Knows
       /\ answer.type = "reply" /\ answer.step = message.type /\ answer.number = message.number
       /\ answer.version = Version /\ answer.resource = server.resource + 1
       /\ IsSequence(history)
       /\ \A i \in DOMAIN history :
            /\ message.version + i - 1 \in message.version .. Version - 1
            /\ history[i] = History(message.version + i - 1)
       /\ toClient' = Sent(toClient, answer) \o history
       /\ IsServer(server') /\ server'.phase = "resync" /\ server'.resource = server.resource + 1
       /\ server'.log = server.log /\ server'.since = Version /\ server'.foreign = server.foreign
       /\ (server'.reopened <=> (server.reopened \/ server.phase = "closed"))

\* The server answers with the version and the history, or refuses.
LEMMA StartDoes ==
  ASSUME IsServer(server), NEW message, message.version \in Nat, StartResync(message)
  PROVE  StartMakes(message)
<1>1. CASE Knows \/ ~server.exists
  <2>1. PICK answer : answer = Answer(message, "refusal", 0, 0)
    OBVIOUS
  <2>2. toClient' = Sent(toClient, answer) /\ server' = server
    BY <1>1, <2>1 DEF StartResync, Sent
  <2>3. answer.type = "refusal" /\ answer.step = message.type /\ answer.number = message.number
    BY <2>1, AnswerMeans
  <2> QED
    BY <1>1, <2>2, <2>3 DEF StartMakes
<1>2. CASE ~Knows /\ server.exists
  <2>1. PICK version \in Nat : version = Version
    <3>1. Len(server.log) \in Nat
      BY SequenceIsFunction DEF IsServer
    <3> QED
      BY <3>1 DEF Version
  <2>2. PICK answer : answer = Answer(message, "reply", version, server.resource + 1)
    OBVIOUS
  <2>3. PICK n \in Int : n = version - message.version
    OBVIOUS
  <2>4. PICK k \in Nat : 1 .. k = 1 .. n /\ (k > 0 => k = n)
    <3>1. CASE n >= 0
      BY <3>1
    <3>2. CASE n < 0
      BY <3>2
    <3> QED
      BY <3>1, <3>2
  <2>5. PICK history : history = [i \in 1 .. k |-> History(message.version + i - 1)]
    OBVIOUS
  <2>6. toClient' = Sent(toClient, answer) \o history
    BY <1>2, <2>1, <2>2, <2>3, <2>4, <2>5 DEF StartResync, Sent, History
  <2>7. IsSequence(history) /\ DOMAIN history = 1 .. k
    BY <2>5, FunctionIsSequence
  <2>8. ASSUME NEW i \in DOMAIN history
        PROVE  /\ message.version + i - 1 \in message.version .. Version - 1
               /\ history[i] = History(message.version + i - 1)
    <3>1. i \in 1 .. k /\ i <= n
      BY <2>4, <2>7
    <3>2. history[i] = History(message.version + i - 1)
      BY <2>5, <3>1
    <3>3. message.version + i - 1 \in message.version .. Version - 1
      BY <2>1, <2>3, <3>1
    <3> QED
      BY <3>2, <3>3
  <2>9. /\ answer.type = "reply" /\ answer.step = message.type /\ answer.number = message.number
        /\ answer.version = version /\ answer.resource = server.resource + 1
    BY <2>2, AnswerMeans
  <2>10. PICK reopened : reopened = (server.reopened \/ server.phase = "closed")
    OBVIOUS
  <2>11. PICK resource \in Nat : resource = server.resource + 1
    BY DEF IsServer
  <2>12. PICK x : x = [server EXCEPT !.phase = "resync", !.since = version]
    OBVIOUS
  <2>13. /\ IsSequence(x.log) /\ x.log = server.log /\ x.phase = "resync" /\ x.since = version
         /\ x.resource = server.resource /\ x.foreign = server.foreign
         /\ (x.reopened <=> server.reopened)
         /\ x = [f \in ServerFields |-> x[f]]
    BY <2>12 DEF IsServer, ServerFields
  <2>14. server' = [x EXCEPT !.resource = resource, !.reopened = reopened]
    <3>1. server' = [server EXCEPT !.phase = "resync", !.since = Version, !.resource = @ + 1,
                                   !.reopened = @ \/ server.phase = "closed"]
      BY <1>2 DEF StartResync
    <3> QED
      BY <2>1, <2>10, <2>11, <2>12, <3>1
  <2>15. /\ IsServer(server') /\ server'.phase = "resync" /\ server'.resource = server.resource + 1
         /\ server'.log = server.log /\ server'.since = version /\ server'.foreign = server.foreign
         /\ (server'.reopened <=> reopened)
    <3>1. /\ server'.phase = x.phase /\ server'.resource = resource
          /\ server'.log = x.log /\ server'.since = x.since /\ server'.foreign = x.foreign
          /\ (server'.reopened <=> reopened) /\ server' = [f \in ServerFields |-> server'[f]]
      BY <2>13, <2>14 DEF ServerFields
    <3>2. resource # 0
      BY <2>11 DEF IsServer
    <3> QED
      BY <2>11, <2>13, <3>1, <3>2 DEF IsServer
  <2> QED
    BY <1>2, <2>1, <2>6, <2>7, <2>8, <2>9, <2>10, <2>15 DEF StartMakes
<1> QED
  BY <1>1, <1>2

\* An operation of the present resource is the next of the log.
TakeMakes(message) ==
  \/ ~IsOfResource(message) /\ toClient' = toClient /\ server' = server
  \/ \E ack, entry :
       /\ IsOfResource(message)
       /\ ack.type = "ack" /\ ack.number = message.number /\ ack.version = Version
       /\ ack.resource = server.resource
       /\ entry.session = client.session /\ entry.edit = message.number
       /\ toClient' = Sent(toClient, ack)
       /\ IsServer(server') /\ server'.log = Sent(server.log, entry)
       /\ server'.phase = server.phase /\ server'.resource = server.resource
       /\ server'.since = server.since /\ server'.foreign = server.foreign
       /\ (server'.reopened <=> server.reopened) /\ (server'.exists <=> server.exists)

\* The server takes an operation of the present resource into its log, and no other.
LEMMA TakeDoes ==
  ASSUME IsServer(server), NEW message, TakeOperation(message)
  PROVE  TakeMakes(message)
<1>1. CASE ~IsOfResource(message)
  BY <1>1 DEF TakeOperation, TakeMakes
<1>2. CASE IsOfResource(message)
  <2>1. PICK ack : ack = [type |-> "ack", number |-> message.number,
                          version |-> Version, resource |-> server.resource]
    OBVIOUS
  <2>2. PICK entry : entry = [session |-> client.session, edit |-> message.number]
    OBVIOUS
  <2>3. PICK log : log = Sent(server.log, entry)
    OBVIOUS
  <2>4. IsSequence(log)
    BY <2>3, LastMessage DEF IsServer
  <2>5. toClient' = Sent(toClient, ack) /\ server' = [server EXCEPT !.log = log]
    BY <1>2, <2>1, <2>2, <2>3 DEF TakeOperation, Sent
  <2>6. /\ ack.type = "ack" /\ ack.number = message.number /\ ack.version = Version
        /\ ack.resource = server.resource
    BY <2>1
  <2>7. entry.session = client.session /\ entry.edit = message.number
    BY <2>2
  <2>8. /\ IsServer(server') /\ server'.log = log
        /\ server'.phase = server.phase /\ server'.resource = server.resource
        /\ server'.since = server.since /\ server'.foreign = server.foreign
        /\ (server'.reopened <=> server.reopened) /\ (server'.exists <=> server.exists)
    BY <2>4, <2>5 DEF IsServer, ServerFields
  <2> QED
    BY <1>2, <2>3, <2>5, <2>6, <2>7, <2>8 DEF TakeMakes
<1> QED
  BY <1>1, <1>2

\* Nothing of the server but the phase is another.
ChangesPhase(phase) ==
  /\ IsServer(server') /\ server'.log = server.log /\ server'.phase = phase
  /\ server'.resource = server.resource /\ server'.since = server.since
  /\ server'.foreign = server.foreign /\ (server'.reopened <=> server.reopened)
  /\ (server'.exists <=> server.exists)

\* Another phase changes nothing else of the server.
LEMMA PhaseChanges ==
  ASSUME IsServer(server), NEW phase,
         phase \in {"resync", "open"} => server.resource # 0,
         server' = [server EXCEPT !.phase = phase]
  PROVE  ChangesPhase(phase)
  BY DEF IsServer, ServerFields, ChangesPhase

EndMakes(message) ==
  \/ ~IsOfResource(message) /\ toClient' = toClient /\ server' = server
  \/ \E complete :
       /\ IsOfResource(message)
       /\ complete.type = "serverComplete" /\ complete.resource = server.resource
       /\ toClient' = Sent(toClient, complete)
       /\ ChangesPhase(IF message.version = 1 THEN "open" ELSE "absent")

\* The server confirms the end of the resynchronisation of the present resource.
LEMMA EndDoes ==
  ASSUME IsServer(server), NEW message, EndResync(message)
  PROVE  EndMakes(message)
<1>1. CASE ~IsOfResource(message)
  BY <1>1 DEF EndResync, EndMakes
<1>2. CASE IsOfResource(message)
  <2>1. PICK complete : complete = [type |-> "serverComplete", resource |-> server.resource]
    OBVIOUS
  <2>2. PICK phase : phase = (IF message.version = 1 THEN "open" ELSE "absent")
    OBVIOUS
  <2>3. toClient' = Sent(toClient, complete) /\ server' = [server EXCEPT !.phase = phase]
    BY <1>2, <2>1, <2>2 DEF EndResync, Sent
  <2>4. complete.type = "serverComplete" /\ complete.resource = server.resource
    BY <2>1
  <2>5. server.resource # 0
    BY <1>2 DEF IsOfResource, Knows, IsServer
  <2>6. ChangesPhase(phase)
    BY <2>3, <2>5, PhaseChanges
  <2> QED
    BY <1>2, <2>2, <2>3, <2>4, <2>6 DEF EndMakes
<1> QED
  BY <1>1, <1>2

TakeCloseMakes(message) ==
  \E answer :
    /\ answer.type = "reply" /\ answer.step = message.type /\ answer.number = message.number
    /\ toClient' = Sent(toClient, answer)
    /\ ChangesPhase(IF IsOfResource(message) THEN "absent" ELSE server.phase)

\* The server answers a close, and closes the present resource.
LEMMA TakeCloseDoes ==
  ASSUME IsServer(server), NEW message, TakeClose(message)
  PROVE  TakeCloseMakes(message)
<1>1. PICK answer : answer = Answer(message, "reply", 0, 0)
  OBVIOUS
<1>2. PICK phase : phase = (IF IsOfResource(message) THEN "absent" ELSE server.phase)
  OBVIOUS
<1>3. server' = [server EXCEPT !.phase = IF IsOfResource(message) THEN "absent" ELSE @]
  BY DEF TakeClose
<1>4. server' = [server EXCEPT !.phase = phase]
  <2>1. CASE IsOfResource(message)
    BY <1>2, <1>3, <2>1
  <2>2. CASE ~IsOfResource(message)
    BY <1>2, <1>3, <2>2 DEF IsServer, ServerFields
  <2> QED
    BY <2>1, <2>2
<1>5. phase \in {"resync", "open"} => server.resource # 0
  BY <1>2 DEF IsServer
<1>6. ChangesPhase(phase)
  BY <1>4, <1>5, PhaseChanges
<1>7. toClient' = Sent(toClient, answer)
  BY <1>1 DEF TakeClose, Sent
<1> QED
  BY <1>1, <1>2, <1>6, <1>7, AnswerMeans DEF TakeCloseMakes

\* An edit of another: the next of the log, and, if the server knows the model, told to the
\* client before the history or after all that is on its way.
OtherEditMakes ==
  \E entry, remote :
    /\ client.cc.lastSequenceNumber + server.foreign < MaxOperations
    /\ entry.session = 0 /\ entry.edit = 0
    /\ remote.type = "remote" /\ remote.session = 0 /\ remote.version = Version
    /\ remote.resource = server.resource
    /\ IsServer(server') /\ server'.log = Sent(server.log, entry)
    /\ server'.phase = server.phase /\ server'.resource = server.resource
    /\ server'.since = server.since /\ server'.foreign = server.foreign + 1
    /\ (server'.reopened <=> server.reopened) /\ (server'.exists <=> server.exists)
    /\ \/ ~Knows /\ toClient' = toClient
       \/ Knows /\ toClient' = Sent(toClient, remote)
       \/ /\ Knows
          /\ \E n \in DOMAIN toClient :
               /\ IsHistory(toClient[n])
               /\ \A i \in DOMAIN toClient : (IsHistory(toClient[i]) => n <= i)
                                             /\ (IsLive(toClient[i]) => i < n)
               /\ toClient' = Inserted(toClient, n, remote)

\* An edit of another goes to the log, and, where the model is known, to the client.
LEMMA OtherEditDoes ==
  ASSUME IsServer(server), OtherEdits
  PROVE  OtherEditMakes
<1>1. PICK remote : remote = [type |-> "remote", session |-> 0, version |-> Version,
                              resource |-> server.resource]
  OBVIOUS
<1>2. PICK entry : entry = [session |-> 0, edit |-> 0]
  OBVIOUS
<1>3. PICK log : log = Sent(server.log, entry)
  OBVIOUS
<1>4. IsSequence(log)
  BY <1>3, LastMessage DEF IsServer
<1>5. PICK foreign : foreign = server.foreign + 1
  OBVIOUS
<1>6. server' = [server EXCEPT !.log = log, !.foreign = foreign]
  BY <1>2, <1>3, <1>5 DEF OtherEdits, Sent, IsServer, ServerFields
<1>7. /\ IsServer(server') /\ server'.log = log
      /\ server'.phase = server.phase /\ server'.resource = server.resource
      /\ server'.since = server.since /\ server'.foreign = foreign
      /\ (server'.reopened <=> server.reopened) /\ (server'.exists <=> server.exists)
  BY <1>4, <1>6 DEF IsServer, ServerFields
<1>8. /\ remote.type = "remote" /\ remote.session = 0 /\ remote.version = Version
      /\ remote.resource = server.resource
  BY <1>1
<1>9. entry.session = 0 /\ entry.edit = 0
  BY <1>2
<1>10. IF Knows THEN Delivered(remote) ELSE UNCHANGED toClient
  BY <1>1 DEF OtherEdits
<1>11. client.cc.lastSequenceNumber + server.foreign < MaxOperations
  BY DEF OtherEdits
<1>12. CASE ~Knows
  <2>1. toClient' = toClient
    BY <1>10, <1>12
  <2> QED
    BY <1>3, <1>5, <1>7, <1>8, <1>9, <1>11, <1>12, <2>1 DEF OtherEditMakes
<1>13. CASE Knows
  <2>1. Delivered(remote)
    BY <1>10, <1>13
  <2>2. CASE toClient' = Append(toClient, remote)
    <3>1. toClient' = Sent(toClient, remote)
      BY <2>2 DEF Sent
    <3> QED
      BY <1>3, <1>5, <1>7, <1>8, <1>9, <1>11, <1>13, <3>1 DEF OtherEditMakes
  <2>3. ASSUME NEW n \in DOMAIN toClient,
               IsHistory(toClient[n]),
               \A i \in DOMAIN toClient : (IsHistory(toClient[i]) => n <= i)
                                          /\ (IsLive(toClient[i]) => i < n),
               toClient' = Inserted(toClient, n, remote)
        PROVE  OtherEditMakes
    BY <1>3, <1>5, <1>7, <1>8, <1>9, <1>11, <1>13, <2>3 DEF OtherEditMakes
  <2> QED
    BY <2>1, <2>2, <2>3 DEF Delivered
<1> QED
  BY <1>12, <1>13

\* What is inserted is new, and moves what follows.
LEMMA InsertedMakes ==
  ASSUME NEW q, IsSequence(q), NEW n \in DOMAIN q, NEW message, NEW r, r = Inserted(q, n, message)
  PROVE  /\ IsSequence(r) /\ Len(r) = Len(q) + 1 /\ Elements(r) = Elements(q) \cup {message}
         /\ DOMAIN r = 1 .. Len(q) + 1 /\ DOMAIN q = 1 .. Len(q) /\ Len(q) \in Nat
         /\ r[n] = message
         /\ \A i \in 1 .. Len(q) : /\ i < n => r[i] = q[i]
                                   /\ i >= n => r[i + 1] = q[i]
<1>1. PICK k \in Nat : k = Len(q) /\ DOMAIN q = 1 .. k
  BY SequenceIsFunction
<1>2. r = [i \in 1 .. k + 1 |->
             IF i < n THEN q[i] ELSE IF i = n THEN message ELSE q[i - 1]]
  BY <1>1 DEF Inserted
<1>3. IsSequence(r) /\ Len(r) = k + 1 /\ DOMAIN r = 1 .. k + 1
  BY <1>2, FunctionIsSequence
<1>4. n \in 1 .. k /\ n \in 1 .. k + 1
  BY <1>1
<1>5. r[n] = message
  BY <1>2, <1>4
<1>6. ASSUME NEW i \in 1 .. k PROVE (i < n => r[i] = q[i]) /\ (i >= n => r[i + 1] = q[i])
  <2>1. i \in 1 .. k + 1 /\ i + 1 \in 1 .. k + 1 /\ (i + 1) - 1 = i
    OBVIOUS
  <2>2. i < n => r[i] = q[i]
    BY <1>2, <2>1
  <2>3. i >= n => r[i + 1] = q[i]
    <3> SUFFICES ASSUME i >= n PROVE r[i + 1] = q[i]
      OBVIOUS
    <3>1. ~(i + 1 < n) /\ i + 1 # n
      BY <1>4
    <3> QED
      BY <1>2, <2>1, <3>1
  <2> QED
    BY <2>2, <2>3
<1>7. Elements(r) \subseteq Elements(q) \cup {message}
  <2> SUFFICES ASSUME NEW i \in 1 .. k + 1 PROVE r[i] \in Elements(q) \cup {message}
    BY <1>3 DEF Elements
  <2>1. i < n => i \in 1 .. k /\ r[i] = q[i]
    BY <1>2, <1>4
  <2>2. i = n => r[i] = message
    BY <1>5
  <2>3. i > n => i - 1 \in 1 .. k /\ r[i] = q[i - 1]
    BY <1>2, <1>4
  <2>4. i < n \/ i = n \/ i > n
    BY <1>4
  <2> QED
    BY <1>1, <2>1, <2>2, <2>3, <2>4 DEF Elements
<1>8. Elements(q) \cup {message} \subseteq Elements(r)
  <2>1. message \in Elements(r)
    BY <1>3, <1>4, <1>5 DEF Elements
  <2>2. ASSUME NEW i \in 1 .. k PROVE q[i] \in Elements(r)
    <3>1. i \in 1 .. k + 1 /\ i + 1 \in 1 .. k + 1 /\ (i < n \/ i >= n)
      BY <1>4
    <3> QED
      BY <1>3, <1>6, <3>1 DEF Elements
  <2>3. Elements(q) \subseteq Elements(r)
    BY <1>1, <2>2 DEF Elements
  <2> QED
    BY <2>1, <2>3
<1> QED
  BY <1>1, <1>3, <1>5, <1>6, <1>7, <1>8

(***************************************************************************)
(* Each step leaves the invariant                                          *)
(***************************************************************************)

\* An edit keeps the invariant.
LEMMA EditKeeps ==
  ASSUME TInv, Edit
  PROVE  TInv'
<1>1. client.open /\ Poised(client) /\ Awaits(client) /\ client.sent = <<>>
  BY DEF Edit, TInv, IsSettled, Fit, Gone
<1>2. PICK d : d = Issued([client EXCEPT
                     !.cc = CC!ProcessOutgoingOperation(client.cc, client.session, "edit")])
  OBVIOUS
<1>3. EditMakes(client, d)
  BY <1>1, <1>2, EditDoes DEF Poised
<1>4. Fit(d) /\ Utters(client, d)
  BY <1>1, <1>3, EditFits, EditUtters
<1>5. Becomes(d) /\ server' = server /\ toClient' = toClient
  BY <1>2 DEF Edit
<1>6. d.open => client.open
  BY <1>1
<1> QED
  BY <1>4, <1>5, <1>6, TurnKeeps DEF TInv, Wired

\* The application's close asks the server, is put off, or closes the model at once.
LEMMA CloseModelDoes ==
  ASSUME TInv, CloseModel
  PROVE  \E d : /\ Becomes(d) /\ Fit(d) /\ Utters(client, d)
                /\ ClosesLater(client, d) \/ Asks(client, d) \/ GoneTo(client, d)
<1>1. /\ client.open /\ Poised(client) /\ Awaits(client) /\ client.sent = <<>> /\ ~client.closing
      /\ IsClient(client)
  BY DEF CloseModel, TInv, IsSettled, Fit, Gone, Poised
<1>2. PICK d : d = (IF client.resync THEN [client EXCEPT !.resyncOnly = TRUE]
                    ELSE InitiateClose(client, TRUE, TRUE))
  OBVIOUS
<1>3. /\ Fit(d) /\ Utters(client, d)
      /\ ClosesLater(client, d) \/ Asks(client, d) \/ GoneTo(client, d)
  <2>1. CASE client.resync
    <3>1. ClosesLater(client, d)
      BY <1>1, <1>2, <2>1, ClosesLaterMakes
    <3> QED
      BY <1>1, <3>1, ClosesLaterFits, ClosesLaterUtters
  <2>2. CASE ~client.resync /\ client.up
    <3>1. PICK yes : yes = TRUE
      OBVIOUS
    <3>2. d = InitiateClose(client, yes, yes)
      BY <1>2, <2>2, <3>1
    <3>3. Asks(client, d) /\ d.event
      BY Zenon, <1>1, <2>2, <3>1, <3>2, InitiateCloseAsks
    <3>4. Hears(client)
      BY <1>1, <2>2 DEF Hears, Poised, Standing
    <3>5. Hears(d) /\ Utters(client, d)
      BY <1>1, <3>3, <3>4, AsksFits, AsksUtters
    <3>6. Awaits(d)
      BY <1>1, <3>3, FrameHoldsAwaits DEF Asks
    <3> QED
      BY <3>3, <3>5, <3>6 DEF Fit, Hears, Poised
  <2>3. CASE ~client.resync /\ ~client.up
    <3>1. PICK yes : yes = TRUE
      OBVIOUS
    <3>2. d = InitiateClose(client, yes, yes)
      BY <1>2, <2>3, <3>1
    <3>3. GoneTo(client, d) \/ client.waitingForServer
      BY Zenon, <1>1, <2>3, <3>1, <3>2, InitiateCloseLeaves
    <3>4. ~client.waitingForServer
      BY <1>1 DEF Poised, Standing
    <3>5. GoneTo(client, d)
      BY <3>3, <3>4
    <3> QED
      BY <1>1, <3>5, GoneToUtters DEF Fit, GoneTo
  <2> QED
    BY <2>1, <2>2, <2>3
<1>4. Becomes(d)
  BY <1>2 DEF CloseModel
<1> QED
  BY <1>3, <1>4

\* The application's close keeps the invariant.
LEMMA CloseModelKeeps ==
  ASSUME TInv, CloseModel
  PROVE  TInv'
<1>1. PICK d : Becomes(d) /\ Fit(d) /\ Utters(client, d)
  BY CloseModelDoes
<1>2. client.open /\ server' = server /\ toClient' = toClient
  BY DEF CloseModel
<1> QED
  BY <1>1, <1>2, TurnKeeps DEF TInv, Wired

\* The loss of the connection keeps the invariant.
LEMMA DropKeeps ==
  ASSUME TInv, Drop
  PROVE  TInv'
<1>1. client.open /\ Poised(client) /\ IsClient(client) /\ client.sent = <<>> /\ ~client.threw
  BY DEF Drop, TInv, IsSettled, Fit, Gone, Poised
<1>2. Drops(client, client')
  BY <1>1, DroppedMakes DEF Drop
<1>3. IsSettled(client')
  BY <1>1, <1>2, DropsFits DEF IsSettled, Drops
<1>4. toServer' = <<>> /\ toClient' = <<>> /\ server' = [server EXCEPT !.phase = "absent"]
  BY DEF Drop
<1>5. IsServer(server)
  BY DEF TInv, Wired
<1>6. PICK phase : phase = "absent"
  OBVIOUS
<1>7. ChangesPhase(phase)
  BY <1>4, <1>5, <1>6, PhaseChanges
<1>8. IsServer(server') /\ server'.phase = "absent"
  BY <1>6, <1>7 DEF ChangesPhase
<1>9. Wired(client', server', toServer', toClient')
  BY <1>4, <1>8, ElementsOfEmpty, EmptyIsSequence DEF Wired
<1> QED
  BY <1>3, <1>9 DEF TInv

\* With a new connection the model asks to be resynchronised, or the store for its data.
LEMMA ReconnectDoes ==
  ASSUME TInv, Reconnect
  PROVE  /\ client.open /\ ~client.up /\ Poised(client) /\ client.sent = <<>>
         /\ toServer = <<>> /\ toClient = <<>> /\ IsServer(server)
         /\ server' = server /\ toClient' = <<>>
         /\ \E d : Becomes(d) /\ Reconnects(client, d) /\ Fit(d) /\ IsClient(d)
         /\ IsSequence(toServer')
         /\ \A message \in Elements(toServer') :
              message.type = "resync" /\ message.version \in Nat \ {0}
<1>1. /\ client.open /\ ~client.up /\ Poised(client) /\ IsClient(client) /\ client.sent = <<>>
      /\ toServer = <<>> /\ toClient = <<>> /\ IsServer(server)
  BY DEF Reconnect, TInv, IsSettled, Fit, Gone, Poised, Wired
<1>2. PICK d : d = ResyncOpenModel([client EXCEPT
                     !.up = TRUE, !.epoch = @ + 1, !.session = IF client.keeps THEN @ ELSE @ + 1])
  OBVIOUS
<1>3. Reconnects(client, d)
  BY <1>1, <1>2, ReconnectMakes
<1>4. Fit(d) /\ IsClient(d)
  BY <1>1, <1>3, ReconnectsFits DEF Reconnects
<1>5. Becomes(d) /\ server' = server /\ toClient' = <<>>
  BY <1>1, <1>2 DEF Reconnect
<1>6. toServer' = <<>> \o d.sent
  BY <1>1, <1>4, <1>5, BecomesMakes
<1>7. IsSequence(d.sent) /\ IsSequence(<<>>)
  BY <1>4, EmptyIsSequence DEF IsClient
<1>8. IsSequence(toServer') /\ Elements(toServer') = Elements(<<>>) \cup Elements(d.sent)
  BY <1>6, <1>7, ElementsOfConcat
<1>9. \A message \in Elements(toServer') : message.type = "resync" /\ message.version \in Nat \ {0}
  <2>1. CASE d.sent = <<>>
    BY <1>8, <2>1, ElementsOfEmpty
  <2>2. CASE d.sent # <<>>
    <3>1. PICK message : message = Message(client, "resync", d.epoch, client.cc.contextVersion)
      OBVIOUS
    <3>2. d.sent = Sent(<<>>, message)
      BY <1>1, <1>3, <2>2, <3>1 DEF Reconnects
    <3>3. Elements(d.sent) = {message}
      BY <1>7, <3>2, ElementsOfSent, ElementsOfEmpty
    <3>4. message.type = "resync" /\ message.version = client.cc.contextVersion
      BY <3>1 DEF Message
    <3>5. client.cc.contextVersion \in Nat \ {0}
      BY <1>1 DEF IsClient, IsConcurrencyControl
    <3> QED
      BY <1>8, <3>3, <3>4, <3>5, ElementsOfEmpty
  <2> QED
    BY <2>1, <2>2
<1> QED
  BY <1>1, <1>3, <1>4, <1>5, <1>8, <1>9

\* A new connection keeps the invariant.
LEMMA ReconnectKeeps ==
  ASSUME TInv, Reconnect
  PROVE  TInv'
<1>1. /\ client.open /\ ~client.up /\ IsServer(server) /\ server' = server /\ toClient' = <<>>
      /\ IsSequence(toServer')
      /\ \A message \in Elements(toServer') :
           message.type = "resync" /\ message.version \in Nat \ {0}
  BY ReconnectDoes
<1>2. PICK d : Becomes(d) /\ Reconnects(client, d) /\ Fit(d) /\ IsClient(d)
  BY ReconnectDoes
<1>3. Rests(d, client') /\ client'.sent = <<>> /\ ~client'.threw
  BY <1>2, BecomesMakes
<1>4. IsSettled(client') /\ client'.up
  BY <1>2, <1>3, RestsFits DEF IsSettled, Reconnects
<1>5. \A message \in Elements(toServer') :
        IsRequest(message) /\ message.type \notin {"op", "complete"}
  BY <1>1 DEF IsRequest
<1>6. Wired(client', server', toServer', toClient')
  BY <1>1, <1>4, <1>5, ElementsOfEmpty, EmptyIsSequence DEF Wired
<1> QED
  BY <1>4, <1>6 DEF TInv

\* The client without a task that is done is fit.
LEMMA EndedIsFit ==
  ASSUME TInv, NEW task, NEW t, t = Ends(task)
  PROVE  /\ Speaks(client, t) /\ Fit(t) /\ IsClient(t) /\ (t.open <=> client.open)
         /\ (t.up <=> client.up) /\ t.sent = <<>> /\ ~t.threw
         /\ Session(t) = Session(client) /\ (CatchesUp(t) => CatchesUp(client))
<1>1. Fit(client) /\ client.sent = <<>> /\ IsClient(client) /\ ~client.threw
  BY DEF TInv, IsSettled, Fit, Poised, Gone
<1>2. Speaks(client, t) /\ t.sent = client.sent
  BY <1>1, EndsMakes
<1>3. /\ Fit(t) /\ (t.open <=> client.open) /\ (t.up <=> client.up) /\ t.sent = <<>> /\ ~t.threw
      /\ IsClient(t)
  BY <1>1, <1>2, SpeaksFits DEF Speaks
<1>4. Session(t) = Session(client) /\ (CatchesUp(t) => CatchesUp(client))
  BY <1>2, <1>3, FrameHoldsSession, FrameHoldsCatchingUp DEF Speaks
<1> QED
  BY <1>2, <1>3, <1>4

\* What was read from the store asks for the creation, whatever has become of the
\* connection.
LEMMA ReadDoes ==
  ASSUME TInv, NEW task, Read(task)
  PROVE  /\ Speaks(client, client') /\ Fit(client') /\ client'.sent = <<>> /\ ~client'.threw
         /\ \E request :
              /\ request.type = "create"
              /\ toServer' = IF client.up THEN Sent(toServer, request) ELSE toServer
<1>1. PICK t : t = Ends(task)
  OBVIOUS
<1>2. Speaks(client, t) /\ Fit(t) /\ IsClient(t) /\ t.sent = <<>> /\ ~t.threw
  BY <1>1, EndedIsFit
<1>3. PICK s : s = t.tasks \cup {[step |-> "create", since |-> task.since, at |-> client.epoch]}
  OBVIOUS
<1>4. client' = [t EXCEPT !.tasks = s]
  <2>1. client' = Waits(t, "create", task.since, client.epoch)
    BY <1>1 DEF Read
  <2> QED
    BY <1>2, <1>3, <2>1 DEF Waits, IsClient, ClientFields
<1>5. Speaks(t, client') /\ client'.sent = t.sent
  BY <1>2, <1>4, TasksMake
<1>6. Fit(client') /\ Speaks(client, client') /\ client'.sent = <<>> /\ ~client'.threw
  BY <1>2, <1>5, SpeaksFits DEF Speaks
<1>7. PICK request : request = [type |-> "create", number |-> task.since,
                                version |-> 0, resource |-> 0]
  OBVIOUS
<1>8. request.type = "create" /\ toServer' = IF client.up THEN Sent(toServer, request) ELSE toServer
  BY <1>7 DEF Read, Sent
<1> QED
  BY <1>6, <1>8

\* What was stored is followed by a resynchronisation, and a request without an answer by
\* none.
LEMMA ContinuationDoes ==
  ASSUME TInv, NEW task, Stored(task) \/ TimesOut(task)
  PROVE  \E t, d :
           /\ t = Ends(task) /\ Becomes(d) /\ Fit(d) /\ Utters(client, d) /\ (d.open => client.open)
           /\ \/ GoneTo(t, d)
              \/ t.open /\ (Resumes(t, task.since, d) \/ LosesEntry(t, d))
<1>1. PICK t : t = Ends(task)
  OBVIOUS
<1>2. /\ Fit(t) /\ IsClient(t) /\ (t.open <=> client.open) /\ t.sent = <<>>
      /\ Session(t) = Session(client) /\ (CatchesUp(t) => CatchesUp(client))
  BY <1>1, EndedIsFit
<1>3. ASSUME NEW d, GoneTo(t, d) PROVE Fit(d) /\ Utters(t, d) /\ ~d.open
  BY <1>2, <1>3, GoneToUtters DEF GoneTo, Gone, Fit
<1>4. CASE Stored(task)
  <2>1. PICK d : d = Resynchronize(t, task.since)
    OBVIOUS
  <2>2. Becomes(d)
    BY <1>1, <1>4, <2>1 DEF Stored
  <2>3. Resumes(t, task.since, d)
    BY <1>2, <2>1, ResynchronizeMakes
  <2>4. CASE Gone(t)
    <3>1. Steady(t, d) /\ ~d.entry /\ d.sent = t.sent
      BY <2>3, <2>4 DEF Resumes, Gone
    <3>2. GoneTo(t, d)
      BY <2>4, <3>1, SteadyGoes
    <3> QED
      BY <1>1, <1>2, <1>3, <2>2, <3>2, UttersAfter
  <2>5. CASE t.open /\ Poised(t) /\ Awaits(t)
    <3>1. Fit(d) /\ Utters(t, d)
      BY <1>2, <2>3, <2>5, ResumesFits, ResumesUtters
    <3> QED
      BY <1>1, <1>2, <2>2, <2>3, <2>5, <3>1, UttersAfter
  <2> QED
    BY <1>2, <2>4, <2>5 DEF Fit
<1>5. CASE TimesOut(task)
  <2>1. PICK d : d = ResyncError(t)
    OBVIOUS
  <2>2. Becomes(d)
    BY <1>1, <1>5, <2>1 DEF TimesOut
  <2>3. LosesEntry(t, d)
    BY <1>2, <2>1, ResyncErrorMakes DEF LosesEntry
  <2>4. CASE Gone(t)
    <3>1. GoneTo(t, d)
      BY <2>3, <2>4, SteadyGoes DEF LosesEntry
    <3> QED
      BY <1>1, <1>2, <1>3, <2>2, <3>1, UttersAfter
  <2>5. CASE t.open /\ Poised(t) /\ Awaits(t)
    <3>1. Fit(d) /\ Utters(t, d)
      BY <1>2, <2>3, <2>5, LosesEntryFits, LosesEntryUtters
    <3> QED
      BY <1>1, <1>2, <2>2, <2>3, <2>5, <3>1, UttersAfter
  <2> QED
    BY <1>2, <2>4, <2>5 DEF Fit
<1> QED
  BY <1>4, <1>5

\* A continuation keeps the invariant.
LEMMA TaskProceedsKeeps ==
  ASSUME TInv, TaskProceeds
  PROVE  TInv'
<1>1. PICK task \in client.tasks : Read(task) \/ Stored(task) \/ TimesOut(task)
  BY DEF TaskProceeds
<1>2. toClient' = toClient /\ server' = server
  BY DEF TaskProceeds
<1>3. CASE Read(task)
  <2>1. /\ Speaks(client, client') /\ Fit(client') /\ client'.sent = <<>> /\ ~client'.threw
    BY <1>3, ReadDoes
  <2>2. PICK request :
          /\ request.type = "create"
          /\ toServer' = IF client.up THEN Sent(toServer, request) ELSE toServer
    BY <1>3, ReadDoes
  <2>3. /\ (client'.open <=> client.open) /\ (client'.up <=> client.up)
        /\ CatchesUp(client') => CatchesUp(client)
    <3>1. Fit(client) /\ IsClient(client)
      BY DEF TInv, IsSettled, Fit, Poised, Gone
    <3> QED
      BY <2>1, <3>1, SpeaksFits, FrameHoldsCatchingUp DEF Speaks
  <2>4. IsSequence(toServer') /\ Elements(toServer') \subseteq Elements(toServer) \cup {request}
    BY <2>2, ElementsOfSent DEF TInv, Wired
  <2>5. IsRequest(request) /\ request.type \notin {"op", "complete"}
    BY <2>2 DEF IsRequest
  <2>6. ~client'.up => toServer' = toServer
    BY <2>2, <2>3
  <2>7. Wired(client', server', toServer', toClient')
    BY <1>2, <2>3, <2>4, <2>5, <2>6 DEF TInv, Wired
  <2> QED
    BY <2>1, <2>7 DEF TInv, IsSettled
<1>4. CASE Stored(task) \/ TimesOut(task)
  <2>1. PICK t, d : Becomes(d) /\ Fit(d) /\ Utters(client, d) /\ (d.open => client.open)
    BY <1>4, ContinuationDoes
  <2> QED
    BY <1>2, <2>1, TurnKeeps DEF TInv, Wired
<1> QED
  BY <1>1, <1>3, <1>4

\* The server takes the first request, and answers nothing.
LEMMA NoAnswerKeeps ==
  ASSUME TInv, client' = client, server' = server, toClient' = toClient,
         toServer # <<>>, toServer' = Tail(toServer)
  PROVE  TInv'
<1>1. IsSequence(toServer) /\ IsSequence(toClient) /\ IsServer(server)
  BY DEF TInv, Wired
<1>2. IsSequence(toServer') /\ Elements(toServer') \subseteq Elements(toServer)
  BY <1>1, ElementsOfTail
<1>3. ~(client.open /\ ~client.up)
  BY DEF TInv, Wired
<1> QED
  BY <1>1, <1>2, <1>3, ServesKeeps

\* The server takes the first request, and what it answers may be sent.
LEMMA OneAnswerKeeps ==
  ASSUME TInv, client' = client, IsServer(server'),
         toServer # <<>>, toServer' = Tail(toServer),
         NEW message, toClient' = Sent(toClient, message), IsFromServer(message),
         CatchesUp(client) => message.type \notin {"ack", "serverComplete"}
  PROVE  TInv'
<1>1. IsSequence(toServer) /\ IsSequence(toClient)
  BY DEF TInv, Wired
<1>2. IsSequence(toServer') /\ Elements(toServer') \subseteq Elements(toServer)
  BY <1>1, ElementsOfTail
<1>3. IsSequence(toClient') /\ Elements(toClient') = Elements(toClient) \cup {message}
  BY <1>1, ElementsOfSent
<1>4. ~(client.open /\ ~client.up)
  BY DEF TInv, Wired
<1> QED
  BY <1>2, <1>3, <1>4, ServesKeeps

\* A request that the server receives keeps the invariant.
LEMMA ServerReceivesKeeps ==
  ASSUME TInv, ServerReceives
  PROVE  TInv'
<1>1. /\ toServer # <<>> /\ toServer' = Tail(toServer) /\ client' = client
      /\ IsServer(server) /\ IsSequence(toClient) /\ IsSequence(toServer)
  BY DEF ServerReceives, TInv, Wired
<1>2. PICK message : message = Head(toServer)
  OBVIOUS
<1>3. message \in Elements(toServer)
  BY <1>1, <1>2, ElementsOfTail
<1>4. IsRequest(message) /\ (CatchesUp(client) => message.type \notin {"op", "complete"})
  BY <1>3 DEF TInv, Wired
<1>5. Serves(message)
  BY <1>2 DEF ServerReceives
<1>6. ASSUME toClient' = toClient, server' = server PROVE TInv'
  BY <1>1, <1>6, NoAnswerKeeps
<1>7. CASE message.type = "create" /\ Create(message)
  <2>1. PICK answer :
          /\ answer.type \in {"exists", "reply"} /\ answer.step = message.type
          /\ toClient' = Sent(toClient, answer) /\ IsServer(server')
    BY <1>1, <1>7, CreateDoes DEF CreateMakes
  <2>2. IsFromServer(answer) /\ answer.type \notin {"ack", "serverComplete"}
    BY <1>7, <2>1 DEF IsFromServer, IsAnswer, IsReplyToResync
  <2> QED
    BY <1>1, <2>1, <2>2, OneAnswerKeeps
<1>8. CASE message.type = "resync" /\ StartResync(message)
  <2>1. message.version \in Nat /\ StartMakes(message)
    BY <1>1, <1>4, <1>8, StartDoes DEF IsRequest
  <2>2. ASSUME NEW answer,
               answer.type = "refusal", answer.step = message.type,
               toClient' = Sent(toClient, answer), server' = server
        PROVE  TInv'
    <3>1. IsFromServer(answer) /\ answer.type \notin {"ack", "serverComplete"}
      BY <1>8, <2>2 DEF IsFromServer, IsAnswer, IsReplyToResync
    <3> QED
      BY <1>1, <2>2, <3>1, OneAnswerKeeps
  <2>3. ASSUME NEW answer, NEW history,
               answer.type = "reply", answer.step = message.type, answer.version = Version,
               answer.resource = server.resource + 1, IsSequence(history),
               \A i \in DOMAIN history :
                 /\ message.version + i - 1 \in message.version .. Version - 1
                 /\ history[i] = History(message.version + i - 1),
               toClient' = Sent(toClient, answer) \o history, IsServer(server')
        PROVE  TInv'
    <3>1. Version \in Nat /\ server.resource \in Nat
      <4>1. Len(server.log) \in Nat
        BY <1>1, SequenceIsFunction DEF IsServer
      <4> QED
        BY <1>1, <4>1 DEF Version, IsServer
    <3>2. server.resource + 1 \in Nat /\ server.resource + 1 # 0
      BY <3>1
    <3>3. IsFromServer(answer) /\ answer.type \notin {"ack", "serverComplete"}
      BY <1>8, <2>3, <3>1, <3>2 DEF IsFromServer, IsAnswer, IsReplyToResync
    <3>4. ASSUME NEW element \in Elements(history)
          PROVE  IsFromServer(element) /\ element.type \notin {"ack", "serverComplete"}
      <4>1. PICK i \in DOMAIN history : element = history[i]
        BY <3>4 DEF Elements
      <4>2. PICK k : element = History(k)
        BY <2>3, <4>1
      <4>3. element.type = "remote" /\ element.resource = server.resource + 1
        BY <4>2, HistoryMeans
      <4> QED
        BY <3>2, <4>3 DEF IsFromServer, IsAnswer, IsReplyToResync
    <3>5. PICK first : first = Sent(toClient, answer)
      OBVIOUS
    <3>6. IsSequence(first) /\ Elements(first) = Elements(toClient) \cup {answer}
      BY <1>1, <3>5, ElementsOfSent
    <3>7. IsSequence(toClient') /\ Elements(toClient') = Elements(first) \cup Elements(history)
      BY <2>3, <3>5, <3>6, ElementsOfConcat
    <3>8. IsSequence(toServer') /\ Elements(toServer') \subseteq Elements(toServer)
      BY <1>1, ElementsOfTail
    <3>9. ~(client.open /\ ~client.up)
      BY <1>1 DEF TInv, Wired
    <3> QED
      BY <1>1, <2>3, <3>3, <3>4, <3>6, <3>7, <3>8, <3>9, ServesKeeps
  <2> QED
    BY <2>1, <2>2, <2>3 DEF StartMakes
<1>9. CASE message.type = "op" /\ TakeOperation(message)
  <2>1. TakeMakes(message)
    BY <1>1, <1>9, TakeDoes
  <2>2. ASSUME NEW ack, IsOfResource(message), ack.type = "ack", ack.resource = server.resource,
               toClient' = Sent(toClient, ack), IsServer(server')
        PROVE  TInv'
    <3>1. server.resource \in Nat /\ server.resource # 0
      BY <1>1, <2>2 DEF IsServer, IsOfResource, Knows
    <3>2. IsFromServer(ack)
      BY <2>2, <3>1 DEF IsFromServer, IsAnswer, IsReplyToResync
    <3> QED
      BY <1>1, <1>4, <1>9, <2>2, <3>2, OneAnswerKeeps
  <2> QED
    BY <1>6, <2>1, <2>2 DEF TakeMakes
<1>10. CASE message.type = "complete" /\ EndResync(message)
  <2>1. EndMakes(message)
    BY <1>1, <1>10, EndDoes
  <2>2. ASSUME NEW complete, IsOfResource(message), complete.type = "serverComplete",
               complete.resource = server.resource, toClient' = Sent(toClient, complete),
               IsServer(server')
        PROVE  TInv'
    <3>1. server.resource \in Nat /\ server.resource # 0
      BY <1>1, <2>2 DEF IsServer, IsOfResource, Knows
    <3>2. IsFromServer(complete)
      BY <2>2, <3>1 DEF IsFromServer, IsAnswer, IsReplyToResync
    <3> QED
      BY <1>1, <1>4, <1>10, <2>2, <3>2, OneAnswerKeeps
  <2> QED
    BY <1>6, <2>1, <2>2 DEF EndMakes, ChangesPhase
<1>11. CASE message.type = "close" /\ TakeClose(message)
  <2>1. PICK answer : /\ answer.type = "reply" /\ answer.step = message.type
                      /\ toClient' = Sent(toClient, answer) /\ IsServer(server')
    BY <1>1, <1>11, TakeCloseDoes DEF TakeCloseMakes, ChangesPhase
  <2>2. IsFromServer(answer) /\ answer.type \notin {"ack", "serverComplete"}
    BY <1>11, <2>1 DEF IsFromServer, IsAnswer, IsReplyToResync
  <2> QED
    BY <1>1, <2>1, <2>2, OneAnswerKeeps
<1> QED
  BY <1>5, <1>7, <1>8, <1>9, <1>10, <1>11 DEF Serves

\* A request that the server refuses keeps the invariant.
LEMMA ServerRefusesKeeps ==
  ASSUME TInv, ServerRefuses
  PROVE  TInv'
<1>1. /\ toServer # <<>> /\ toServer' = Tail(toServer) /\ client' = client /\ server' = server
      /\ IsServer(server)
  BY DEF ServerRefuses, TInv, Wired
<1>2. PICK message : message = Head(toServer)
  OBVIOUS
<1>3. PICK answer : answer = Answer(message, "refusal", 0, 0)
  OBVIOUS
<1>4. toClient' = Sent(toClient, answer) /\ message.type \in {"create", "resync", "close"}
  BY <1>2, <1>3 DEF ServerRefuses, Sent
<1>5. answer.type = "refusal" /\ answer.step = message.type
  BY <1>3, AnswerMeans
<1>6. IsFromServer(answer) /\ answer.type \notin {"ack", "serverComplete"}
  BY <1>4, <1>5 DEF IsFromServer, IsAnswer, IsReplyToResync
<1> QED
  BY <1>1, <1>4, <1>6, OneAnswerKeeps

\* An edit of another keeps the invariant.
LEMMA OtherEditsKeeps ==
  ASSUME TInv, OtherEdits
  PROVE  TInv'
<1>1. /\ client' = client /\ toServer' = toServer /\ IsServer(server)
      /\ IsSequence(toServer) /\ IsSequence(toClient)
  BY DEF OtherEdits, TInv, Wired
<1>2. PICK remote :
        /\ remote.type = "remote" /\ remote.resource = server.resource
        /\ IsServer(server') /\ server'.phase = server.phase
        /\ \/ ~Knows /\ toClient' = toClient
           \/ Knows /\ toClient' = Sent(toClient, remote)
           \/ /\ Knows
              /\ \E n \in DOMAIN toClient : toClient' = Inserted(toClient, n, remote)
  BY <1>1, OtherEditDoes DEF OtherEditMakes
<1>3. IsSequence(toClient') /\ Elements(toClient') \subseteq Elements(toClient) \cup {remote}
  <2>1. CASE toClient' = toClient
    BY <1>1, <2>1
  <2>2. CASE toClient' = Sent(toClient, remote)
    BY <1>1, <2>2, ElementsOfSent
  <2>3. ASSUME NEW n \in DOMAIN toClient, toClient' = Inserted(toClient, n, remote)
        PROVE  IsSequence(toClient') /\ Elements(toClient') \subseteq Elements(toClient) \cup {remote}
    BY <1>1, <2>3, InsertedMakes
  <2> QED
    BY <1>2, <2>1, <2>2, <2>3
<1>4. CASE ~Knows
  BY <1>1, <1>2, <1>4, ServesKeeps DEF TInv, Wired
<1>5. CASE Knows
  <2>1. server.resource \in Nat /\ server.resource # 0
    BY <1>1, <1>5 DEF IsServer, Knows
  <2>2. IsFromServer(remote) /\ remote.type \notin {"ack", "serverComplete"}
    BY <1>2, <2>1 DEF IsFromServer, IsAnswer, IsReplyToResync
  <2>3. ~(client.open /\ ~client.up)
    BY <1>5 DEF TInv, Wired, Knows
  <2> QED
    BY <1>1, <1>2, <1>3, <2>2, <2>3, ServesKeeps
<1> QED
  BY <1>4, <1>5

\* That the server closes the model keeps the invariant.
LEMMA ForceCloseKeeps ==
  ASSUME TInv, ForceClose
  PROVE  TInv'
<1>1. /\ client' = client /\ toServer' = toServer /\ IsServer(server) /\ Knows
      /\ IsSequence(toServer) /\ IsSequence(toClient)
  BY DEF ForceClose, TInv, Wired
<1>2. PICK message : message = [type |-> "forceClose", resource |-> server.resource]
  OBVIOUS
<1>3. toClient' = Sent(toClient, message)
  BY <1>2 DEF ForceClose, Sent
<1>4. PICK phase : phase = "closed"
  OBVIOUS
<1>5. server' = [server EXCEPT !.phase = phase]
  BY <1>4 DEF ForceClose
<1>6. IsServer(server')
  BY <1>1, <1>4, <1>5, PhaseChanges DEF ChangesPhase
<1>7. server.resource \in Nat /\ server.resource # 0
  BY <1>1 DEF IsServer, Knows
<1>8. message.type = "forceClose" /\ message.resource = server.resource
  BY <1>2
<1>9. IsFromServer(message) /\ message.type \notin {"ack", "serverComplete"}
  BY <1>7, <1>8 DEF IsFromServer, IsAnswer, IsReplyToResync
<1>10. IsSequence(toClient') /\ Elements(toClient') = Elements(toClient) \cup {message}
  BY <1>1, <1>3, ElementsOfSent
<1>11. ~(client.open /\ ~client.up)
  BY <1>1 DEF TInv, Wired, Knows
<1> QED
  BY <1>1, <1>6, <1>9, <1>10, <1>11, ServesKeeps

\* An answer to a request, whether the model is still open or not
LEMMA AnswerDoes ==
  ASSUME TInv, toClient # <<>>, NEW message, message = Head(toClient), IsAnswer(message),
         NEW task \in Asked(message), Becomes(Replied(Ends(task), task, message))
  PROVE  \E t, d :
           /\ t = Ends(task) /\ Becomes(d) /\ Fit(d) /\ Utters(client, d) /\ (d.open => client.open)
           /\ \/ GoneTo(t, d)
              \/ t.open /\ Poised(t) /\ Awaits(t) /\ t.up /\ RepliedMakes(t, task, message, d)
<1>1. message \in Elements(toClient)
  BY ElementsOfTail DEF TInv, Wired
<1>2. client.open => client.up
  BY DEF TInv, Wired
<1>3. IsFromServer(message) /\ task.step = message.step
  BY <1>1 DEF TInv, Wired, Asked
<1>4. /\ task.step \in {"create", "resync", "close"}
      /\ task.step = "resync" /\ message.type = "reply"
           => message.version \in Nat /\ message.resource \in Nat /\ message.resource # 0
  BY <1>3 DEF IsFromServer, IsReplyToResync
<1>5. PICK t : t = Ends(task)
  OBVIOUS
<1>6. /\ Fit(t) /\ IsClient(t) /\ (t.open <=> client.open) /\ (t.up <=> client.up) /\ t.sent = <<>>
      /\ ~t.threw /\ Session(t) = Session(client) /\ (CatchesUp(t) => CatchesUp(client))
  BY <1>5, EndedIsFit
<1>7. PICK d : d = Replied(t, task, message)
  OBVIOUS
<1>8. Becomes(d)
  BY <1>5, <1>7
<1>9. CASE Gone(t)
  <2>1. GoneTo(t, d)
    BY <1>4, <1>7, <1>9, RepliedGoes
  <2>2. Fit(d) /\ ~d.open
    BY <2>1 DEF GoneTo, Gone, Fit
  <2>3. Utters(t, d)
    BY <1>6, <2>1, GoneToUtters
  <2> QED
    BY <1>5, <1>6, <1>8, <2>1, <2>2, <2>3, UttersAfter
<1>10. CASE t.open /\ Poised(t) /\ Awaits(t)
  <2>1. t.up
    BY <1>2, <1>6, <1>10
  <2>2. Listening(t)
    BY <1>6, <1>10, <2>1 DEF Listening, Poised, Standing, IsToldOf, VersionIsTold
  <2>3. RepliedMakes(t, task, message, d)
    BY <1>4, <1>7, <2>2, RepliedDoes
  <2>4. Fit(d)
    BY <1>4, <1>10, <2>1, <2>3, RepliedFits
  <2>5. Utters(t, d)
    BY <1>4, <1>6, <1>10, <2>1, <2>3, RepliedUtters
  <2> QED
    BY <1>5, <1>6, <1>8, <1>10, <2>1, <2>3, <2>4, <2>5, UttersAfter
<1> QED
  BY <1>6, <1>9, <1>10 DEF Fit

\* An answer to a request keeps the invariant.
LEMMA AnswerKeeps ==
  ASSUME TInv, toClient # <<>>, toClient' = Tail(toClient), server' = server,
         NEW message, message = Head(toClient), IsAnswer(message),
         NEW task \in Asked(message), Becomes(Replied(Ends(task), task, message))
  PROVE  TInv'
<1>1. PICK t, d : Becomes(d) /\ Fit(d) /\ Utters(client, d) /\ (d.open => client.open)
  BY AnswerDoes
<1>2. IsSequence(toClient') /\ Elements(toClient') \subseteq Elements(toClient)
  BY ElementsOfTail DEF TInv, Wired
<1>3. ~(client.open /\ ~client.up)
  BY DEF TInv, Wired
<1> QED
  BY <1>1, <1>2, <1>3, TurnKeeps

\* What a message that is no answer leads to
LEMMA MessageDoes ==
  ASSUME TInv, toClient # <<>>, NEW message, message = Head(toClient), ~IsAnswer(message),
         Becomes(Handle(client, message))
  PROVE  \E d :
           /\ Becomes(d) /\ Fit(d) /\ Utters(client, d) /\ (d.open => client.open)
           /\ \/ GoneTo(client, d)
              \/ d = client /\ message.resource # client.resource
              \/ /\ message.resource = client.resource /\ Hears(client)
                 /\ CatchesUp(client) => message.type \in {"remote", "forceClose"}
                 /\ HandleMakes(client, message, d)
<1>1. Fit(client) /\ client.sent = <<>> /\ ~client.threw /\ IsClient(client)
  BY DEF TInv, IsSettled, Fit, Poised, Gone
<1>2. message \in Elements(toClient)
  BY ElementsOfTail DEF TInv, Wired
<1>3. IsFromServer(message) /\ (CatchesUp(client) => message.type \notin {"ack", "serverComplete"})
  BY <1>2 DEF TInv, Wired
<1>4. /\ message.type \in {"remote", "ack", "forceClose", "serverComplete"}
      /\ message.resource \in Nat /\ message.resource # 0
  BY <1>3 DEF IsFromServer, IsAnswer
<1>5. PICK d : d = Handle(client, message)
  OBVIOUS
<1>6. Becomes(d)
  BY <1>5
<1>7. CASE Gone(client)
  <2>1. GoneTo(client, d)
    BY <1>4, <1>5, <1>7, HandleGoes
  <2>2. Fit(d) /\ ~d.open
    BY <2>1 DEF GoneTo, Gone, Fit
  <2>3. Utters(client, d)
    BY <1>1, <2>1, GoneToUtters
  <2> QED
    BY <1>6, <2>1, <2>2, <2>3
<1>8. CASE client.open /\ Poised(client) /\ Awaits(client)
  <2>1. CASE message.resource # client.resource
    <3>1. d = client
      BY <1>5, <2>1 DEF Handle
    <3>2. Utters(client, d)
      BY <1>1, <3>1, QuietUtters
    <3> QED
      BY <1>1, <1>6, <2>1, <3>1, <3>2
  <2>2. CASE message.resource = client.resource
    <3>1. Hears(client)
      BY <1>4, <1>8, <2>2 DEF Hears
    <3>2. HandleMakes(client, message, d)
      BY <1>1, <1>4, <1>5, <1>8, <2>2, <3>1, HandleDoes
    <3>3. CatchesUp(client) => message.type \in {"remote", "forceClose"}
      BY <1>3, <1>4
    <3>4. Fit(d)
      BY <1>8, <3>1, <3>2, <3>3, HandleFits
    <3>5. Utters(client, d)
      BY <1>1, <3>1, <3>2, HandleUtters
    <3> QED
      BY <1>6, <1>8, <2>2, <3>1, <3>2, <3>3, <3>4, <3>5
  <2> QED
    BY <2>1, <2>2
<1> QED
  BY <1>1, <1>7, <1>8 DEF Fit

\* A message that is no answer keeps the invariant.
LEMMA MessageKeeps ==
  ASSUME TInv, toClient # <<>>, toClient' = Tail(toClient), server' = server,
         NEW message, message = Head(toClient), ~IsAnswer(message),
         Becomes(Handle(client, message))
  PROVE  TInv'
<1>1. PICK d : Becomes(d) /\ Fit(d) /\ Utters(client, d) /\ (d.open => client.open)
  BY MessageDoes
<1>2. IsSequence(toClient') /\ Elements(toClient') \subseteq Elements(toClient)
  BY ElementsOfTail DEF TInv, Wired
<1>3. ~(client.open /\ ~client.up)
  BY DEF TInv, Wired
<1> QED
  BY <1>1, <1>2, <1>3, TurnKeeps

\* A message that is lost keeps the invariant.
LEMMA LossKeeps ==
  ASSUME TInv, toClient # <<>>, toClient' = Tail(toClient),
         client' = client, server' = server, toServer' = toServer
  PROVE  TInv'
<1>1. /\ IsSequence(toClient') /\ Elements(toClient') \subseteq Elements(toClient)
      /\ ~(client.open /\ ~client.up)
  BY ElementsOfTail DEF TInv, Wired
<1> QED
  BY <1>1 DEF TInv, IsSettled, Wired

\* A message that the client receives keeps the invariant.
LEMMA ClientReceivesKeeps ==
  ASSUME TInv, ClientReceives
  PROVE  TInv'
<1>1. PICK message : message = Head(toClient)
  OBVIOUS
<1>2. /\ toClient # <<>> /\ toClient' = Tail(toClient) /\ server' = server
      /\ \/ /\ IsAnswer(message)
            /\ \E task \in Asked(message) : Becomes(Replied(Ends(task), task, message))
         \/ ~IsAnswer(message) /\ Becomes(Handle(client, message))
         \/ client' = client /\ toServer' = toServer
  BY <1>1 DEF ClientReceives, TakeAnswer, TakeMessage
<1>3. CASE client' = client /\ toServer' = toServer
  BY <1>2, <1>3, LossKeeps
<1> QED
  BY <1>1, <1>2, <1>3, AnswerKeeps, MessageKeeps

\* That nothing happens keeps the invariant.
LEMMA StutterKeeps ==
  ASSUME TInv, UNCHANGED vars
  PROVE  TInv'
<1>1. client' = client /\ server' = server /\ toServer' = toServer /\ toClient' = toClient
  BY DEF vars
<1> QED
  BY <1>1 DEF TInv, IsSettled, Wired

\* Every step keeps the invariant.
LEMMA NextKeeps ==
  ASSUME TInv, [Next]_vars
  PROVE  TInv'
  BY EditKeeps, CloseModelKeeps, DropKeeps, ReconnectKeeps, TaskProceedsKeeps,
     ServerReceivesKeeps, ServerRefusesKeeps, OtherEditsKeeps, ForceCloseKeeps,
     ClientReceivesKeeps, StutterKeeps DEF Next

\* A new concurrency control has nothing in flight.
LEMMA NewControlIsControl ==
  ASSUME NEW cc, cc = CC!NewConcurrencyControl(1, 0)
  PROVE  /\ IsConcurrencyControl(cc) /\ cc.contextVersion = 1 /\ cc.inflightOperations = <<>>
         /\ cc.lastSequenceNumber = 0
<1>1. PICK none : none = <<>> /\ IsSequence(none) /\ Len(none) = 0
  BY EmptyIsSequence
<1>2. DOMAIN none = 1 .. 0
  BY <1>1, SequenceIsFunction
<1>3. /\ cc = [f \in ConcurrencyControlFields |-> cc[f]]
      /\ cc.lastSequenceNumber = 0 /\ cc.contextVersion = 1 /\ cc.compoundOpInProgress = FALSE
      /\ cc.inflightOperations = none
  BY <1>1 DEF CC!NewConcurrencyControl, ConcurrencyControlFields
<1> QED
  BY <1>1, <1>2, <1>3 DEF IsConcurrencyControl

\* A model that was opened online, or offline, is fit, and the server has nothing to say.
LEMMA InitHolds ==
  ASSUME Init
  PROVE  TInv
<1>1. PICK local \in BOOLEAN, keeps \in BOOLEAN :
        /\ client = NewClient(local, keeps)
        /\ server = [exists |-> ~local, phase |-> IF local THEN "absent" ELSE "open",
                     resource |-> IF local THEN 0 ELSE 1, since |-> 1, log |-> <<>>,
                     foreign |-> 0, reopened |-> FALSE]
  BY DEF Init
<1>2. toServer = <<>> /\ toClient = <<>>
  BY DEF Init
<1>3. PICK cc : cc = CC!NewConcurrencyControl(1, 0)
  OBVIOUS
<1>4. IsConcurrencyControl(cc) /\ cc.contextVersion = 1
  BY <1>3, NewControlIsControl
<1>5. PICK none : none = <<>> /\ IsSequence(none)
  BY EmptyIsSequence
<1>6. /\ client = [f \in ClientFields |-> client[f]]
      /\ client.resource = (IF local THEN 0 ELSE 1) /\ client.reconnectVersion = Unknown
      /\ client.buffered = none /\ client.sent = none /\ client.cc = cc /\ ~client.threw
      /\ client.open /\ (client.offline <=> local) /\ (client.up <=> ~local) /\ ~client.resync
      /\ ~client.failed /\ ~client.waitingForServer /\ ~client.closing /\ ~client.upToDate
      /\ ~client.completed /\ client.told = (IF local THEN "offline" ELSE "online")
      /\ ~client.toldClosed /\ client.toldVersion = 1
  BY <1>1, <1>3, <1>5 DEF NewClient, ClientFields
<1>7. IsClient(client)
  BY <1>4, <1>5, <1>6 DEF IsClient, Unknown
<1>8. Standing(client)
  BY <1>5, <1>6 DEF Standing
<1>9. IsToldOf(client)
  BY <1>4, <1>6 DEF IsToldOf
<1>10. IsSettled(client)
  BY <1>5, <1>6, <1>7, <1>8, <1>9 DEF IsSettled, Fit, Poised, Awaits
<1>11. IsServer(server) /\ (local => server.phase = "absent")
  BY <1>1, EmptyIsSequence DEF IsServer, ServerFields
<1>12. Wired(client, server, toServer, toClient)
  BY <1>2, <1>6, <1>11, ElementsOfEmpty, EmptyIsSequence DEF Wired
<1> QED
  BY <1>10, <1>12 DEF TInv

\* A listener that is told of what the invariant says knows how the model is.
LEMMA InvariantTells ==
  ASSUME TInv
  PROVE  EventsTellState
<1>1. CASE client.open /\ Poised(client)
  BY <1>1 DEF Poised, Standing, IsToldOf, EventsTellState, StateTold
<1>2. CASE Gone(client)
  BY <1>2 DEF Gone, EventsTellState
<1> QED
  BY <1>1, <1>2 DEF TInv, IsSettled, Fit

(***************************************************************************)
(* Whatever happens to the connection, at the server and in the            *)
(* application, and in whatever order: a listener that follows the events  *)
(* of the model (EmitState, EmitVersionChanged and EmitClosed in           *)
(* RealTimeModel) knows the version it shows, whether it is offline,       *)
(* catches up or is online, and whether it is closed.                      *)
(***************************************************************************)
THEOREM ResyncEventsTellState == Spec => []EventsTellState
<1>1. Init => TInv
  BY InitHolds
<1>2. TInv /\ [Next]_vars => TInv'
  BY NextKeeps
<1>3. TInv => EventsTellState
  BY InvariantTells
<1> QED
  BY <1>1, <1>2, <1>3, PTL DEF Spec

(***************************************************************************)
(* An edit is one operation of the history.  The model takes for           *)
(* acknowledged what the history has before its version; while it catches  *)
(* up all its operations of the history come before the version it is to   *)
(* reach, and afterwards they have all passed.                             *)
(***************************************************************************)

\* What is in flight and what the history has of this client bear its session id, and all
\* of it was issued.
OwnBearsSession(c, log) ==
  /\ \A i \in DOMAIN InFlight(c.cc) : InFlight(c.cc)[i].sessionId = c.session
  /\ \A i \in DOMAIN log : /\ log[i].edit \in 0 .. c.cc.lastSequenceNumber
                           /\ log[i].edit # 0 => log[i].session = c.session

\* A model that closes after an error lags behind what it has taken off the flight.
Current(c) == CatchesUp(c) \/ ~c.closing

PassedIsAcked(c, log) ==
  /\ c.cc.contextVersion <= Len(log) + 1
  /\ \A i \in DOMAIN log : i < c.cc.contextVersion => log[i].edit <= Acked(c.cc)

OwnIsBefore(log, version) == \A i \in DOMAIN log : log[i].edit # 0 => i < version

BufferedIsLogged(c, log) ==
  \A i \in DOMAIN c.buffered : c.buffered[i].version \in DOMAIN log

Sees(c, log) ==
  /\ OwnBearsSession(c, log)
  /\ Current(c) => PassedIsAcked(c, log)
  /\ CatchesUp(c) /\ c.reconnectVersion # Unknown => OwnIsBefore(log, c.reconnectVersion)
  /\ BufferedIsLogged(c, log)

\* No operation is among them.
Mute(messages) == \A i \in DOMAIN messages : messages[i].type # "op"

\* The operations among them are of the n that were issued, no two are the same, and the
\* history has none of them.
Fresh(messages, n, log) ==
  /\ \A i \in DOMAIN messages : messages[i].type = "op" =>
       /\ messages[i].number \in 1 .. n
       /\ \A j \in DOMAIN log : log[j].edit # messages[i].number
  /\ \A i, j \in DOMAIN messages :
       messages[i].type = "op" /\ messages[j].type = "op"
         /\ messages[i].number = messages[j].number => i = j

\* What any step of the model but an edit and those of the connection leads to.
Moves(c, d, resource, log) ==
  /\ Session(d) = Session(c) /\ d.cc.lastSequenceNumber = c.cc.lastSequenceNumber
  /\ Mute(d.sent) \/ (CatchesUp(c) /\ Fresh(d.sent, d.cc.lastSequenceNumber, log))
  /\ d.open =>
       /\ c.open /\ (c.closing => d.closing) /\ (d.resync => c.resync)
       /\ (CatchesUp(d) => CatchesUp(c)) /\ d.resource = resource
       /\ c.cc.contextVersion <= d.cc.contextVersion
       /\ Sees(d, log)
       /\ ~d.closing /\ CatchesUp(c) /\ ~CatchesUp(d) => OwnIsBefore(log, d.cc.contextVersion)

\* Two steps are one, if both are such.
LEMMA MovesIsTransitive ==
  ASSUME NEW c, NEW x, NEW d, NEW log, NEW resource, NEW r,
         IsSequence(log), IsClient(c), IsClient(x), IsClient(d),
         Moves(c, x, resource, log), Moves(x, d, r, log)
  PROVE  Moves(c, d, r, log)
<1>1. Session(d) = Session(c) /\ d.cc.lastSequenceNumber = c.cc.lastSequenceNumber
  BY DEF Moves
<1>2. CatchesUp(x) => CatchesUp(c)
  BY DEF Moves, CatchesUp
<1>3. Mute(d.sent) \/ (CatchesUp(c) /\ Fresh(d.sent, d.cc.lastSequenceNumber, log))
  BY <1>2 DEF Moves
<1>4. ASSUME d.open
      PROVE  /\ c.open /\ (c.closing => d.closing) /\ (d.resync => c.resync)
             /\ (CatchesUp(d) => CatchesUp(c)) /\ d.resource = r
             /\ c.cc.contextVersion <= x.cc.contextVersion
             /\ x.cc.contextVersion <= d.cc.contextVersion
             /\ Sees(d, log) /\ x.open
  BY <1>4 DEF Moves
<1>5. c.cc.contextVersion \in Nat /\ x.cc.contextVersion \in Nat /\ d.cc.contextVersion \in Nat
  BY DEF IsClient, IsConcurrencyControl
<1>6. d.open => c.cc.contextVersion <= d.cc.contextVersion
  BY <1>4, <1>5
<1>7. ASSUME d.open, ~d.closing, CatchesUp(c), ~CatchesUp(d)
      PROVE  OwnIsBefore(log, d.cc.contextVersion)
  <2>1. CASE CatchesUp(x)
    BY <1>7, <2>1 DEF Moves
  <2>2. CASE ~CatchesUp(x)
    <3>1. ~x.closing /\ x.open
      BY <1>7 DEF Moves
    <3>2. OwnIsBefore(log, x.cc.contextVersion)
      BY <1>7, <2>2, <3>1 DEF Moves
    <3>3. x.cc.contextVersion <= d.cc.contextVersion
      BY <1>4, <1>7
    <3> QED
      BY <1>5, <3>2, <3>3, SequenceIsFunction DEF OwnIsBefore
  <2> QED
    BY <2>1, <2>2
<1> QED
  BY <1>1, <1>3, <1>4, <1>6, <1>7 DEF Moves

\* What the model knows of its operations and of its place is as before, or more.
Learns(c, d) ==
  /\ d.session = c.session /\ (d.open => c.open) /\ (c.closing => d.closing)
  /\ (d.resync <=> c.resync) /\ (d.upToDate <=> c.upToDate)
  /\ d.reconnectVersion = c.reconnectVersion
  /\ d.cc.lastSequenceNumber = c.cc.lastSequenceNumber /\ Acked(c.cc) <= Acked(d.cc)
  /\ \A i \in DOMAIN InFlight(d.cc) :
       \E j \in DOMAIN InFlight(c.cc) : InFlight(d.cc)[i].sessionId = InFlight(c.cc)[j].sessionId

\* The version is as before, or has passed an operation of others or one acknowledged.
Passes(c, d, log) ==
  \/ d.cc.contextVersion = c.cc.contextVersion
  \/ /\ d.cc.contextVersion = c.cc.contextVersion + 1
     /\ Current(c) => /\ c.cc.contextVersion \in DOMAIN log
                      /\ log[c.cc.contextVersion].edit <= Acked(d.cc)

\* Who learns sees what there was to see.
LEMMA LearnsSees ==
  ASSUME NEW c, IsClient(c), NEW d, IsClient(d), NEW log, IsSequence(log),
         Sees(c, log), Learns(c, d), Passes(c, d, log), BufferedIsLogged(d, log)
  PROVE  Sees(d, log) /\ (d.open => (CatchesUp(d) <=> CatchesUp(c)))
<1>1. OwnBearsSession(d, log)
  BY DEF Sees, OwnBearsSession, Learns
<1>2. CatchesUp(d) => CatchesUp(c)
  BY DEF CatchesUp, Learns
<1>3. Current(d) => Current(c)
  BY <1>2 DEF Current, Learns
<1>4. /\ c.cc.contextVersion \in Nat /\ d.cc.contextVersion \in Nat
      /\ Acked(c.cc) \in Nat /\ Acked(d.cc) \in Nat /\ Acked(c.cc) <= Acked(d.cc)
  BY InFlightIsNumbered DEF IsClient, IsConcurrencyControl, Learns
<1>5. Len(log) \in Nat /\ DOMAIN log = 1 .. Len(log)
  BY SequenceIsFunction
<1>6. \A i \in DOMAIN log : log[i].edit \in Nat
  BY <1>4 DEF Sees, OwnBearsSession, IsClient, IsConcurrencyControl
<1>7. ASSUME Current(d) PROVE PassedIsAcked(d, log)
  <2>1. /\ c.cc.contextVersion <= Len(log) + 1
        /\ \A i \in DOMAIN log : i < c.cc.contextVersion => log[i].edit <= Acked(c.cc)
    BY <1>3, <1>7 DEF Sees, PassedIsAcked
  <2>2. \A i \in DOMAIN log : i < c.cc.contextVersion => log[i].edit <= Acked(d.cc)
    BY <1>4, <1>5, <1>6, <2>1
  <2>3. CASE d.cc.contextVersion = c.cc.contextVersion
    BY <2>1, <2>2, <2>3 DEF PassedIsAcked
  <2>4. CASE d.cc.contextVersion # c.cc.contextVersion
    <3>1. /\ d.cc.contextVersion = c.cc.contextVersion + 1
          /\ c.cc.contextVersion \in DOMAIN log
          /\ log[c.cc.contextVersion].edit <= Acked(d.cc)
      BY <1>3, <1>7, <2>4 DEF Passes
    <3>2. d.cc.contextVersion <= Len(log) + 1
      BY <1>4, <1>5, <3>1
    <3>3. ASSUME NEW i \in DOMAIN log, i < d.cc.contextVersion PROVE log[i].edit <= Acked(d.cc)
      <4>1. i < c.cc.contextVersion \/ i = c.cc.contextVersion
        BY <1>4, <1>5, <3>1, <3>3
      <4> QED
        BY <2>2, <3>1, <4>1
    <3> QED
      BY <3>2, <3>3 DEF PassedIsAcked
  <2> QED
    BY <2>3, <2>4
<1>8. CatchesUp(d) /\ d.reconnectVersion # Unknown => OwnIsBefore(log, d.reconnectVersion)
  BY <1>2 DEF Sees, Learns
<1>9. d.open => (CatchesUp(d) <=> CatchesUp(c))
  BY DEF CatchesUp, Learns
<1> QED
  BY <1>1, <1>7, <1>8, <1>9 DEF Sees

\* Who learns, sends no operation and stays with its resource, moves.
LEMMA LearnsMoves ==
  ASSUME NEW c, IsClient(c), NEW d, IsClient(d), NEW log, IsSequence(log),
         Sees(c, log), Learns(c, d), Passes(c, d, log), BufferedIsLogged(d, log),
         Session(d) = Session(c), Mute(d.sent), NEW resource, d.open => d.resource = resource
  PROVE  Moves(c, d, resource, log)
<1>1. Sees(d, log) /\ (d.open => (CatchesUp(d) <=> CatchesUp(c)))
  BY LearnsSees
<1>2. c.cc.contextVersion <= d.cc.contextVersion
  <2>1. c.cc.contextVersion \in Nat
    BY DEF IsClient, IsConcurrencyControl
  <2> QED
    BY <2>1 DEF Passes
<1> QED
  BY <1>1, <1>2 DEF Moves, Learns

\* A model that closes for good moves.
LEMMA GoneMoves ==
  ASSUME NEW c, c.sent = <<>>, NEW d, GoneTo(c, d), NEW log, NEW resource
  PROVE  Moves(c, d, resource, log)
<1>1. Mute(d.sent)
  BY EmptyIsSequence, SequenceIsFunction DEF GoneTo, Mute
<1> QED
  BY <1>1 DEF GoneTo, Gone, Moves

\* What has been sent, if it is one message that is no operation, or nothing
LEMMA OneIsMute ==
  ASSUME NEW q, NEW message, q = Sent(<<>>, message), message.type # "op"
  PROVE  Mute(q)
<1>1. IsSequence(q) /\ Len(q) = 1 /\ q[1] = message
  BY OneMessage
<1>2. DOMAIN q = 1 .. 1
  BY <1>1, SequenceIsFunction
<1> QED
  BY <1>1, <1>2 DEF Mute

\* Nothing is mute.
LEMMA NothingIsMute ==
  ASSUME NEW q, q = <<>>
  PROVE  Mute(q)
  BY EmptyIsSequence, SequenceIsFunction DEF Mute

\* A new concurrency control that has what the old one had
LEMMA ControlLearns ==
  ASSUME NEW cc, IsConcurrencyControl(cc), NEW dd, IsConcurrencyControl(dd),
         dd = cc \/ StaysInFlight(cc, dd) \/ LeavesFlight(cc, dd)
  PROVE  /\ dd.lastSequenceNumber = cc.lastSequenceNumber /\ Acked(cc) <= Acked(dd)
         /\ \A i \in DOMAIN InFlight(dd) :
              \E j \in DOMAIN InFlight(cc) : InFlight(dd)[i].sessionId = InFlight(cc)[j].sessionId
         /\ LeavesFlight(cc, dd) => Acked(dd) = Acked(cc) + 1
         /\ StaysInFlight(cc, dd) => Acked(dd) = Acked(cc)
<1>1. /\ Len(InFlight(cc)) \in Nat /\ Len(InFlight(dd)) \in Nat
      /\ cc.lastSequenceNumber \in Nat
  BY InFlightIsNumbered DEF IsConcurrencyControl
<1>2. dd.lastSequenceNumber = cc.lastSequenceNumber
  BY DEF StaysInFlight, LeavesFlight
<1>3. LeavesFlight(cc, dd) => Acked(dd) = Acked(cc) + 1
  BY <1>1, <1>2 DEF LeavesFlight, Acked
<1>4. StaysInFlight(cc, dd) => Acked(dd) = Acked(cc)
  BY <1>2 DEF StaysInFlight, Acked
<1>5. Acked(cc) <= Acked(dd)
  BY <1>1, <1>3, <1>4, InFlightIsNumbered DEF Acked
<1>6. \A i \in DOMAIN InFlight(dd) :
        \E j \in DOMAIN InFlight(cc) : InFlight(dd)[i].sessionId = InFlight(cc)[j].sessionId
  BY DEF StaysInFlight, LeavesFlight
<1> QED
  BY <1>2, <1>3, <1>4, <1>5, <1>6

\* The frame as it was, and a concurrency control that has what it had
LEMMA FrameLearns ==
  ASSUME NEW c, IsClient(c), NEW d, IsClient(d), Frame(d) = Frame(c),
         d.open => c.open, c.closing => d.closing,
         d.cc = c.cc \/ StaysInFlight(c.cc, d.cc) \/ LeavesFlight(c.cc, d.cc)
  PROVE  Learns(c, d) /\ Session(d) = Session(c) /\ d.buffered = c.buffered
<1>1. IsConcurrencyControl(c.cc) /\ IsConcurrencyControl(d.cc)
  BY DEF IsClient
<1>2. Session(d) = Session(c)
  BY FrameHoldsSession
<1> QED
  BY <1>1, <1>2, ControlLearns, FrameMeans DEF Learns

\* A step that leaves the frame and the concurrency control moves.
LEMMA FrameMoves ==
  ASSUME NEW c, IsClient(c), NEW d, IsClient(d), NEW log, IsSequence(log), Sees(c, log),
         Frame(d) = Frame(c), d.cc = c.cc, d.open => c.open, c.closing => d.closing, Mute(d.sent),
         d.resource = c.resource
  PROVE  Moves(c, d, c.resource, log)
<1>1. Learns(c, d) /\ Session(d) = Session(c) /\ d.buffered = c.buffered
  BY FrameLearns
<1>2. BufferedIsLogged(d, log) /\ Passes(c, d, log)
  BY <1>1 DEF Sees, BufferedIsLogged, Passes
<1> QED
  BY <1>1, <1>2, LearnsMoves

\* A step that tells, or changes the entry, moves.
LEMMA SteadyMoves ==
  ASSUME NEW c, IsClient(c), NEW d, NEW log, IsSequence(log), Sees(c, log),
         Steady(c, d), Mute(d.sent)
  PROVE  Moves(c, d, c.resource, log)
<1>1. IsClient(d) /\ Session(d) = Session(c) /\ d.buffered = c.buffered
  BY StepsMean DEF Steady
<1>2. IsConcurrencyControl(c.cc) /\ d.cc = c.cc
  BY DEF IsClient, Steady
<1>3. Learns(c, d)
  BY <1>2, ControlLearns, StepsMean DEF Learns, Steady
<1>4. BufferedIsLogged(d, log) /\ Passes(c, d, log)
  BY <1>1, <1>2 DEF Sees, BufferedIsLogged, Passes
<1>5. d.resource = c.resource
  BY DEF Steady
<1> QED
  BY <1>1, <1>3, <1>4, <1>5, LearnsMoves

\* An error moves the model nowhere, but it begins to close.
LEMMA ErrsMoves ==
  ASSUME NEW c, Hears(c), c.sent = <<>>, NEW log, IsSequence(log), Sees(c, log),
         NEW d, Errs(c, d),
         d.cc = c.cc \/ (LeavesFlight(c.cc, d.cc) /\ d.cc.contextVersion = c.cc.contextVersion)
  PROVE  Moves(c, d, c.resource, log)
<1>1. IsClient(c) /\ c.open /\ IsClient(d) /\ d.closing /\ d.resource = c.resource
  BY HearsMeans DEF Errs
<1>2. Learns(c, d) /\ Session(d) = Session(c) /\ d.buffered = c.buffered
  BY <1>1, FrameLearns DEF Errs
<1>3. Mute(d.sent)
  <2>1. CASE c.closing
    BY <2>1, NothingIsMute DEF Errs
  <2>2. CASE ~c.closing
    <3>1. PICK message : message = Message(c, "close", c.epoch, 0)
      OBVIOUS
    <3>2. d.sent = Sent(<<>>, message) /\ message.type # "op"
      BY <2>2, <3>1 DEF Errs, Message
    <3> QED
      BY <3>2, OneIsMute
  <2> QED
    BY <2>1, <2>2
<1>4. BufferedIsLogged(d, log) /\ Passes(c, d, log)
  BY <1>2 DEF Sees, BufferedIsLogged, Passes
<1> QED
  BY <1>1, <1>2, <1>3, <1>4, LearnsMoves

\* A refused acknowledgement may take an operation off the flight, but passes nothing.
LEMMA RefusalMoves ==
  ASSUME NEW c, Hears(c), c.sent = <<>>, NEW log, IsSequence(log), Sees(c, log),
         NEW version, NEW d, Errs(c, d), d.cc = CC!RefuseAcknowledgement(c.cc, version)
  PROVE  Moves(c, d, c.resource, log)
<1>1. IsConcurrencyControl(c.cc)
  BY HearsMeans DEF IsClient
<1>2. d.cc.contextVersion = c.cc.contextVersion /\ (d.cc = c.cc \/ LeavesFlight(c.cc, d.cc))
  BY <1>1, RefusalTakes
<1> QED
  BY <1>2, ErrsMoves

\* A remote operation that is taken is passed.
LEMMA KeepsMoves ==
  ASSUME NEW c, Hears(c), c.sent = <<>>, NEW log, IsSequence(log), Sees(c, log),
         NEW d, Keeps(c, d), StaysInFlight(c.cc, d.cc),
         d.cc.contextVersion = c.cc.contextVersion + 1, c.cc.contextVersion \in DOMAIN log,
         Current(c) => log[c.cc.contextVersion].edit <= Acked(c.cc)
  PROVE  Moves(c, d, c.resource, log)
<1>1. IsClient(c) /\ c.open /\ IsClient(d) /\ IsConcurrencyControl(c.cc) /\ IsConcurrencyControl(d.cc)
  BY HearsMeans DEF IsClient, Keeps
<1>2. Learns(c, d) /\ Session(d) = Session(c) /\ d.buffered = c.buffered
  BY <1>1, FrameLearns DEF Keeps
<1>3. Acked(d.cc) = Acked(c.cc)
  BY <1>1, ControlLearns
<1>4. Passes(c, d, log)
  BY <1>3 DEF Passes
<1>5. BufferedIsLogged(d, log) /\ Mute(d.sent) /\ d.resource = c.resource
  BY <1>2, NothingIsMute DEF Sees, BufferedIsLogged, Keeps
<1> QED
  BY <1>1, <1>2, <1>4, <1>5, LearnsMoves

\* What the server says of the history is so.
TellsOf(message, log) ==
  /\ message.type = "remote" => /\ message.version \in DOMAIN log
                                /\ message.session = log[message.version].session
  /\ message.type = "ack" => /\ message.version \in DOMAIN log
                             /\ message.number = log[message.version].edit

\* An acknowledgement moves the model past an operation of its own.
LEMMA AckMoves ==
  ASSUME NEW c, Hears(c), c.sent = <<>>, NEW log, IsSequence(log), Sees(c, log),
         NEW message, message.type = "ack", TellsOf(message, log),
         NEW d, IsClient(d), AckMakes(c, message.version, message.number, d)
  PROVE  Moves(c, d, c.resource, log)
<1>1. IsClient(c) /\ c.open /\ IsConcurrencyControl(c.cc) /\ IsConcurrencyControl(d.cc)
  BY HearsMeans DEF IsClient
<1>2. CASE CC!AcknowledgementAccepted(c.cc, message.version, message.number)
  <2>1. /\ InFlight(c.cc) # <<>> /\ message.version = c.cc.contextVersion
        /\ message.number = Head(InFlight(c.cc)).seqNo
    BY <1>2 DEF CC!AcknowledgementAccepted, CC!HasInflightOperation, InFlight
  <2>2. message.number = Acked(c.cc) + 1
    BY <1>1, <2>1, InFlightIsNumbered
  <2>3. /\ d.cc = CC!ProcessAcknowledgement(c.cc)
        /\ Keeps(c, d) \/ GoneTo(c, d)
    BY <1>2 DEF AckMakes
  <2>4. LeavesFlight(c.cc, d.cc) /\ d.cc.contextVersion = c.cc.contextVersion + 1
    BY <1>1, <2>1, <2>3, AcknowledgementTakes
  <2>5. Acked(d.cc) = Acked(c.cc) + 1
    BY <1>1, <2>4, ControlLearns
  <2>6. Passes(c, d, log)
    <3>1. c.cc.contextVersion \in DOMAIN log /\ log[c.cc.contextVersion].edit = Acked(c.cc) + 1
      BY <2>1, <2>2 DEF TellsOf
    <3>2. Acked(c.cc) \in Nat
      BY <1>1, InFlightIsNumbered
    <3> QED
      BY <2>4, <2>5, <3>1, <3>2 DEF Passes
  <2>7. CASE Keeps(c, d)
    <3>1. Learns(c, d) /\ Session(d) = Session(c) /\ d.buffered = c.buffered
      BY <1>1, <2>4, <2>7, FrameLearns DEF Keeps
    <3>2. BufferedIsLogged(d, log) /\ Mute(d.sent) /\ d.resource = c.resource
      BY <2>7, <3>1, NothingIsMute DEF Sees, BufferedIsLogged, Keeps
    <3> QED
      BY <1>1, <2>6, <3>1, <3>2, LearnsMoves
  <2> QED
    BY <2>3, <2>7, GoneMoves
<1>3. CASE ~CC!AcknowledgementAccepted(c.cc, message.version, message.number)
  <2>1. d.cc = CC!RefuseAcknowledgement(c.cc, message.version) /\ Errs(c, d)
    BY <1>3 DEF AckMakes
  <2> QED
    BY <1>1, <2>1, RefusalMoves
<1> QED
  BY <1>2, <1>3

\* An operation of others, or one that is acknowledged, is passed.
LEMMA RemoteMoves ==
  ASSUME NEW c, Hears(c), c.sent = <<>>, NEW log, IsSequence(log), Sees(c, log),
         NEW message, message.type = "remote", TellsOf(message, log),
         Current(c) /\ message.version = c.cc.contextVersion
           => log[message.version].edit <= Acked(c.cc),
         NEW d, RemoteMakes(c, message, d)
  PROVE  Moves(c, d, c.resource, log)
<1>1. IsClient(c) /\ c.open /\ IsClient(d) /\ IsConcurrencyControl(c.cc) /\ IsConcurrencyControl(d.cc)
  BY HearsMeans DEF IsClient, RemoteMakes, Keeps, Errs
<1>2. CASE message.version # c.cc.contextVersion
  <2>1. Errs(c, d) /\ d.cc = c.cc
    BY <1>2 DEF RemoteMakes
  <2> QED
    BY <1>1, <2>1, ErrsMoves
<1>3. CASE message.version = c.cc.contextVersion
  <2>1. Keeps(c, d) /\ StaysInFlight(c.cc, d.cc) /\ d.cc.contextVersion = c.cc.contextVersion + 1
    BY <1>3 DEF RemoteMakes
  <2> QED
    BY <1>1, <1>3, <2>1, KeepsMoves DEF TellsOf
<1> QED
  BY <1>2, <1>3

\* What is buffered is of the history.
LEMMA BuffersMoves ==
  ASSUME NEW c, Hears(c), c.sent = <<>>, NEW log, IsSequence(log), Sees(c, log),
         NEW message, message.type = "remote", TellsOf(message, log),
         NEW d, Buffers(c, message, d)
  PROVE  Moves(c, d, c.resource, log)
<1>1. IsClient(c) /\ c.open /\ IsClient(d) /\ Remains(c, d) /\ IsConcurrencyControl(c.cc)
  BY HearsMeans DEF IsClient, Buffers, Remains
<1>2. Learns(c, d)
  BY <1>1, ControlLearns DEF Learns, Buffers, Remains, Session
<1>3. BufferedIsLogged(d, log)
  BY DEF Sees, BufferedIsLogged, Buffers, TellsOf
<1>4. /\ Passes(c, d, log) /\ Mute(d.sent) /\ d.resource = c.resource
      /\ Session(d) = Session(c)
  BY <1>1, NothingIsMute DEF Passes, Remains
<1> QED
  BY <1>1, <1>2, <1>3, <1>4, LearnsMoves

\* The operations that are sent again are new to the history, and numbered one by one.
LEMMA ResentIsFresh ==
  ASSUME NEW c, Hears(c), NEW d, CaughtUp(c, d), NEW log, IsSequence(log),
         OwnBearsSession(d, log), PassedIsAcked(d, log), OwnIsBefore(log, d.cc.contextVersion)
  PROVE  Fresh(d.sent, d.cc.lastSequenceNumber, log)
<1>1. IsClient(d) /\ IsConcurrencyControl(d.cc) /\ IsSequence(d.sent)
  BY DEF CaughtUp, IsClient
<1>2. PICK n \in Nat : n = Len(d.sent) /\ DOMAIN d.sent = 1 .. n
  BY <1>1, SequenceIsFunction
<1>3. PICK k \in Nat : k = Len(InFlight(d.cc)) /\ DOMAIN InFlight(d.cc) = 1 .. k
  BY <1>1, InFlightIsNumbered
<1>4. PICK a \in Nat : a = Acked(d.cc)
  BY <1>1, InFlightIsNumbered
<1>5. PICK m \in {0, 1} :
        /\ m = 1 => d.closing /\ ~c.closing /\ d.sent[1] = Message(c, "close", c.epoch, 0)
        /\ d.threw => d.closing /\ n = m
        /\ ~d.threw =>
             /\ n = m + k + 1
             /\ \A i \in 1 .. k : d.sent[m + i] = Submission(c, InFlight(d.cc)[i])
             /\ d.sent[m + k + 1] = Message(c, "complete", 0, IF c.resyncOnly THEN 0 ELSE 1)
  BY <1>2, <1>3 DEF CaughtUp, SaysItIsUpToDate
<1>6. \A i \in 1 .. k : InFlight(d.cc)[i].seqNo = a + i
  BY <1>1, <1>3, <1>4, InFlightIsNumbered
<1>7. d.cc.lastSequenceNumber = a + k
  BY <1>1, <1>3, <1>4 DEF Acked, IsConcurrencyControl
<1>8. ASSUME NEW i \in 1 .. n, d.sent[i].type = "op"
      PROVE  i - m \in 1 .. k /\ d.sent[i].number = a + (i - m)
  <2>1. ~(i = 1 /\ m = 1)
    BY <1>5, <1>8 DEF Message
  <2>2. ~d.threw /\ n = m + k + 1
    BY <1>5, <2>1
  <2>3. i # n
    BY <1>5, <1>8, <2>2 DEF Message
  <2>4. i - m \in 1 .. k /\ m + (i - m) = i
    BY <2>1, <2>2, <2>3
  <2>5. d.sent[i] = Submission(c, InFlight(d.cc)[i - m])
    BY <1>5, <2>2, <2>4
  <2>6. d.sent[i].number = InFlight(d.cc)[i - m].seqNo
    BY <2>5 DEF Submission, Message
  <2> QED
    BY <1>6, <2>4, <2>6
<1>9. ASSUME NEW i \in 1 .. n, d.sent[i].type = "op"
      PROVE  /\ d.sent[i].number \in 1 .. d.cc.lastSequenceNumber
             /\ \A j \in DOMAIN log : log[j].edit # d.sent[i].number
  <2>1. d.sent[i].number \in Nat /\ d.sent[i].number > a /\ d.sent[i].number <= a + k
    BY <1>8, <1>9
  <2>2. ASSUME NEW j \in DOMAIN log PROVE log[j].edit <= a
    <3>1. CASE log[j].edit = 0
      BY <3>1
    <3>2. CASE log[j].edit # 0
      BY <1>4, <3>2 DEF OwnIsBefore, PassedIsAcked
    <3> QED
      BY <3>1, <3>2
  <2>3. \A j \in DOMAIN log : log[j].edit # d.sent[i].number
    BY <2>1, <2>2
  <2> QED
    BY <1>7, <2>1, <2>3
<1>10. ASSUME NEW i \in 1 .. n, NEW j \in 1 .. n, d.sent[i].type = "op", d.sent[j].type = "op",
              d.sent[i].number = d.sent[j].number
       PROVE  i = j
  <2>1. a + (i - m) = a + (j - m)
    BY <1>8, <1>10
  <2> QED
    BY <2>1
<1> QED
  BY <1>2, <1>9, <1>10 DEF Fresh

\* A model that reaches the end of the history has all its operations behind it, and those
\* in flight it sends again.
LEMMA CaughtUpMoves ==
  ASSUME NEW c, Hears(c), CatchesUp(c), c.reconnectVersion = c.cc.contextVersion,
         NEW log, IsSequence(log), Sees(c, log), NEW d, CaughtUp(c, d)
  PROVE  Moves(c, d, c.resource, log)
<1>1. /\ IsClient(c) /\ c.open /\ IsClient(d) /\ d.open /\ d.upToDate
      /\ IsConcurrencyControl(c.cc) /\ IsConcurrencyControl(d.cc)
  BY HearsMeans DEF IsClient, CaughtUp
<1>2. /\ c.cc.contextVersion \in Nat /\ c.cc.contextVersion # 0 /\ d.cc.contextVersion \in Nat
      /\ c.cc.contextVersion <= d.cc.contextVersion
      /\ Acked(c.cc) \in Nat
  BY <1>1, InFlightIsNumbered DEF IsConcurrencyControl, CaughtUp
<1>3. Session(d) = Session(c) /\ (d.resync <=> c.resync) /\ d.buffered = c.buffered
      /\ d.session = c.session
  BY FootingMeans, FootingHoldsSession DEF CaughtUp
<1>4. /\ d.cc.lastSequenceNumber = c.cc.lastSequenceNumber /\ Acked(d.cc) = Acked(c.cc)
      /\ \A i \in DOMAIN InFlight(d.cc) :
           \E j \in DOMAIN InFlight(c.cc) : InFlight(d.cc)[i].sessionId = InFlight(c.cc)[j].sessionId
  BY <1>1, ControlLearns DEF CaughtUp
<1>5. OwnIsBefore(log, c.cc.contextVersion) /\ PassedIsAcked(c, log)
  <2>1. c.reconnectVersion # Unknown
    BY <1>2 DEF Unknown
  <2> QED
    BY <2>1 DEF Sees, Current
<1>6. Len(log) \in Nat /\ DOMAIN log = 1 .. Len(log)
  BY SequenceIsFunction
<1>7. OwnBearsSession(d, log) /\ BufferedIsLogged(d, log)
  BY <1>3, <1>4 DEF Sees, OwnBearsSession, BufferedIsLogged
<1>8. OwnIsBefore(log, d.cc.contextVersion)
  BY <1>2, <1>5, <1>6 DEF OwnIsBefore
<1>9. d.cc.contextVersion <= Len(log) + 1
  <2> SUFFICES ASSUME d.cc.contextVersion > Len(log) + 1 PROVE FALSE
    BY <1>2, <1>6
  <2>1. PICK v \in Nat : v = d.cc.contextVersion - 1
    BY <1>2, <1>6
  <2>2. c.cc.contextVersion <= v /\ v < d.cc.contextVersion /\ v > Len(log)
    BY <1>2, <1>5, <1>6, <2>1 DEF PassedIsAcked
  <2>3. PICK i \in DOMAIN c.buffered : c.buffered[i].version = v
    BY <2>2 DEF CaughtUp, Takes
  <2>4. v \in 1 .. Len(log)
    BY <1>6, <2>3 DEF Sees, BufferedIsLogged
  <2> QED
    BY <1>6, <2>2, <2>4
<1>10. ASSUME NEW i \in DOMAIN log PROVE log[i].edit <= Acked(d.cc)
  <2>1. CASE log[i].edit = 0
    BY <1>2, <1>4, <2>1
  <2>2. CASE log[i].edit # 0
    BY <1>4, <1>5, <2>2 DEF OwnIsBefore, PassedIsAcked
  <2> QED
    BY <2>1, <2>2
<1>11. PassedIsAcked(d, log)
  BY <1>9, <1>10 DEF PassedIsAcked
<1>12. ~CatchesUp(d)
  BY <1>1 DEF CatchesUp
<1>13. Sees(d, log)
  BY <1>7, <1>11, <1>12 DEF Sees
<1>14. Fresh(d.sent, d.cc.lastSequenceNumber, log)
  BY <1>7, <1>8, <1>11, ResentIsFresh
<1> QED
  BY <1>1, <1>2, <1>3, <1>4, <1>8, <1>12, <1>13, <1>14 DEF Moves, CaughtUp

\* Nothing moves the model nowhere.
LEMMA StaysMoves ==
  ASSUME NEW c, IsClient(c), NEW log, IsSequence(log), Sees(c, log), Mute(c.sent)
  PROVE  Moves(c, c, c.resource, log)
  BY FrameMoves

\* The check, whether it reaches the end of the history or not
LEMMA ReachesMoves ==
  ASSUME NEW c, Hears(c), c.sent = <<>>, NEW log, IsSequence(log), Sees(c, log),
         NEW d, Reaches(c, d)
  PROVE  Moves(c, d, c.resource, log) /\ IsClient(d)
<1>1. IsClient(c) /\ c.open /\ Mute(c.sent)
  BY HearsMeans, NothingIsMute
<1>2. CASE d = c
  BY <1>1, <1>2, StaysMoves
<1>3. CASE /\ c.resync /\ ~c.upToDate /\ c.reconnectVersion = c.cc.contextVersion
           /\ CaughtUp(c, d)
  <2>1. CatchesUp(c)
    BY <1>1, <1>3 DEF CatchesUp
  <2> QED
    BY <1>3, <2>1, CaughtUpMoves DEF CaughtUp
<1> QED
  BY <1>2, <1>3 DEF Reaches

\* Of the history, own operations are told from others by their session as long as any is in
\* flight; if none is, all are acknowledged.
LEMMA HistoryMoves ==
  ASSUME NEW c, Hears(c), c.sent = <<>>, CatchesUp(c), NEW log, IsSequence(log), Sees(c, log),
         NEW message, message.type = "remote", TellsOf(message, log),
         NEW d, HistoryMakes(c, message, d)
  PROVE  Moves(c, d, c.resource, log) /\ IsClient(d)
<1>1. IsClient(c) /\ c.open /\ IsConcurrencyControl(c.cc)
  BY HearsMeans DEF IsClient
<1>2. ASSUME Errs(c, d), d.cc = CC!RefuseAcknowledgement(c.cc, message.version) \/ d.cc = c.cc
      PROVE  Moves(c, d, c.resource, log) /\ IsClient(d)
    BY <1>2, RefusalMoves, ErrsMoves DEF Errs
<1>3. ASSUME ~IsOwn(c, message), message.version = c.cc.contextVersion,
             NEW x, Keeps(c, x), x.toldVersion = x.cc.contextVersion,
             StaysInFlight(c.cc, x.cc), x.cc.contextVersion = c.cc.contextVersion + 1,
             Reaches(x, d)
      PROVE  Moves(c, d, c.resource, log) /\ IsClient(d)
  <2>1. log[message.version].edit <= Acked(c.cc)
    <3>1. Acked(c.cc) \in Nat /\ c.cc.lastSequenceNumber \in Nat
      BY <1>1, InFlightIsNumbered DEF IsConcurrencyControl
    <3>2. /\ message.version \in DOMAIN log
          /\ log[message.version].edit \in 0 .. c.cc.lastSequenceNumber
          /\ log[message.version].edit # 0 => message.session = c.session
      BY DEF TellsOf, Sees, OwnBearsSession
    <3>3. CASE InFlight(c.cc) = <<>>
      <4>1. Acked(c.cc) = c.cc.lastSequenceNumber
        BY <1>1, <3>1, <3>3, InFlightIsNumbered DEF Acked
      <4> QED
        BY <3>1, <3>2, <4>1
    <3>4. CASE InFlight(c.cc) # <<>>
      <4>1. Head(InFlight(c.cc)).sessionId = c.session
        BY <1>1, <3>4, InFlightIsNumbered DEF Sees, OwnBearsSession
      <4>2. log[message.version].edit = 0
        BY <1>3, <3>2, <3>4, <4>1 DEF IsOwn, CC!HasInflightOperation, InFlight
      <4> QED
        BY <3>1, <4>2
    <3> QED
      BY <3>3, <3>4
  <2>2. Moves(c, x, c.resource, log)
    BY <1>3, <2>1, KeepsMoves DEF TellsOf
  <2>3. Hears(x) /\ x.open /\ x.sent = <<>> /\ IsClient(x) /\ x.resource = c.resource
    BY <1>1, <1>3, KeepsFits DEF Keeps
  <2>4. Sees(x, log)
    BY <2>2, <2>3 DEF Moves
  <2>5. Moves(x, d, c.resource, log) /\ IsClient(d)
    BY <1>3, <2>3, <2>4, ReachesMoves
  <2> QED
    BY <1>1, <2>2, <2>3, <2>5, MovesIsTransitive
<1> QED
  BY <1>2, <1>3 DEF HistoryMakes

\* Asking to close moves the model nowhere.
LEMMA AsksMoves ==
  ASSUME NEW c, IsClient(c), c.open, c.sent = <<>>, NEW log, IsSequence(log), Sees(c, log),
         NEW d, Asks(c, d)
  PROVE  Moves(c, d, c.resource, log) /\ IsClient(d)
<1>1. PICK message : message = Message(c, "close", c.epoch, 0)
  OBVIOUS
<1>2. d.sent = Sent(<<>>, message) /\ message.type # "op"
  BY <1>1 DEF Asks, Message
<1>3. Mute(d.sent)
  BY <1>2, OneIsMute
<1> QED
  BY <1>3, FrameMoves DEF Asks

\* Nor does leaving without the server.
LEMMA LeavesMoves ==
  ASSUME NEW c, IsClient(c), c.open, c.sent = <<>>, NEW log, IsSequence(log), Sees(c, log),
         NEW d, Leaves(c, d)
  PROVE  Moves(c, d, c.resource, log) /\ IsClient(d)
<1>1. Mute(d.sent)
  BY NothingIsMute DEF Leaves
<1> QED
  BY <1>1, FrameMoves DEF Leaves

\* With the resynchronisation, which had come to the end of the history, its data end.
LEMMA EndsMoves ==
  ASSUME NEW c, IsClient(c), c.open, c.sent = <<>>, ~CatchesUp(c), c.resync,
         NEW log, IsSequence(log), Sees(c, log), NEW d, EndsResync(c, d)
  PROVE  Moves(c, d, c.resource, log) /\ IsClient(d) /\ ~d.resync /\ Sees(d, log)
<1>1. /\ IsClient(d) /\ Session(d) = Session(c) /\ d.cc = c.cc /\ (d.open <=> c.open)
      /\ (d.closing <=> c.closing) /\ d.resource = c.resource /\ d.sent = <<>>
      /\ ~d.resync /\ d.buffered = <<>>
  BY DEF EndsResync, Remains
<1>2. c.session = d.session
  BY <1>1 DEF Session
<1>3. ~CatchesUp(d) /\ (Current(d) => Current(c))
  BY <1>1 DEF CatchesUp, Current
<1>4. BufferedIsLogged(d, log)
  BY <1>1, EmptyIsSequence, SequenceIsFunction DEF BufferedIsLogged
<1>5. Sees(d, log)
  BY <1>1, <1>2, <1>3, <1>4 DEF Sees, OwnBearsSession, PassedIsAcked
<1>6. Mute(d.sent) /\ c.cc.contextVersion \in Nat
  BY <1>1, NothingIsMute DEF IsClient, IsConcurrencyControl
<1> QED
  BY <1>1, <1>3, <1>5, <1>6 DEF Moves

\* The end of the resynchronisation moves the model nowhere.
LEMMA ServerCompleteMoves ==
  ASSUME NEW c, Hears(c), c.resync, c.sent = <<>>, ~CatchesUp(c),
         NEW log, IsSequence(log), Sees(c, log), NEW d, ServerCompleteMakes(c, d)
  PROVE  /\ Moves(c, d, c.resource, log) /\ IsClient(d)
         /\ d.open => ~d.resync
<1>1. PICK done, r :
        /\ EndsResync(c, r) /\ Steady(r, done) /\ done.sent = c.sent
        /\ \/ d = done
           \/ Steady(done, d) /\ d.sent = done.sent
           \/ Asks(done, d)
           \/ Leaves(done, d) \/ GoneTo(done, d)
  BY DEF ServerCompleteMakes
<1>2. IsClient(c) /\ c.open
  BY HearsMeans
<1>3. Moves(c, r, c.resource, log) /\ IsClient(r) /\ ~r.resync /\ Sees(r, log)
  BY <1>1, <1>2, EndsMoves
<1>4. r.open /\ r.resource = c.resource
  BY <1>1, <1>2 DEF EndsResync, Remains
<1>5. IsClient(done) /\ done.open /\ ~done.resync /\ done.sent = <<>> /\ done.resource = c.resource
  BY <1>1, <1>3, <1>4, StepsMean DEF Steady
<1>6. Mute(done.sent)
  BY <1>5, NothingIsMute
<1>7. Moves(r, done, c.resource, log)
  BY <1>1, <1>3, <1>4, <1>6, SteadyMoves
<1>8. Moves(c, done, c.resource, log) /\ Sees(done, log)
  BY <1>2, <1>3, <1>5, <1>7, MovesIsTransitive DEF Moves
<1>9. Moves(done, d, c.resource, log) /\ IsClient(d) /\ (d.open => ~d.resync)
  <2>1. CASE d = done
    BY <1>5, <1>6, <1>8, <2>1, StaysMoves
  <2>2. CASE Steady(done, d) /\ d.sent = done.sent
    BY <1>5, <1>6, <1>8, <2>2, SteadyMoves, StepsMean DEF Steady
  <2>3. CASE Asks(done, d)
    BY <1>5, <1>8, <2>3, AsksMoves, FrameMeans DEF Asks
  <2>4. CASE Leaves(done, d)
    BY <1>5, <1>8, <2>4, LeavesMoves, FrameMeans DEF Leaves
  <2>5. CASE GoneTo(done, d)
    BY <1>5, <2>5, GoneMoves DEF GoneTo, Gone
  <2> QED
    BY <1>1, <2>1, <2>2, <2>3, <2>4, <2>5
<1> QED
  BY <1>2, <1>5, <1>8, <1>9, MovesIsTransitive

\* A step that tells, or changes the entry, sees the same.
LEMMA SteadySees ==
  ASSUME NEW c, IsClient(c), NEW d, NEW log, IsSequence(log), Sees(c, log), Steady(c, d)
  PROVE  Sees(d, log) /\ (d.open => (CatchesUp(d) <=> CatchesUp(c)))
<1>1. IsClient(d) /\ Session(d) = Session(c) /\ d.buffered = c.buffered
  BY StepsMean DEF Steady
<1>2. IsConcurrencyControl(c.cc) /\ d.cc = c.cc
  BY DEF IsClient, Steady
<1>3. Learns(c, d)
  BY <1>2, ControlLearns, StepsMean DEF Learns, Steady
<1>4. BufferedIsLogged(d, log) /\ Passes(c, d, log)
  BY <1>1, <1>2 DEF Sees, BufferedIsLogged, Passes
<1> QED
  BY <1>1, <1>3, <1>4, LearnsSees

\* With the answer the model hears messages to the resource it names.
LEMMA AnsweredHears ==
  ASSUME NEW c, Poised(c), Awaits(c), c.up, c.resync, NEW message,
         message.version \in Nat, message.resource \in Nat, message.resource # 0,
         NEW x, Abides(c, x), x.reconnectVersion = message.version, x.resource = message.resource,
         x.told = "resync_started", x.late <=> c.offline, x.entry <=> c.entry
  PROVE  Hears(x)
<1>1. /\ IsClient(x) /\ x.open /\ x.up /\ ~x.offline /\ x.resync /\ x.resource # 0
      /\ x.reconnectVersion # Unknown
  BY DEF Abides, Session, Poised, Standing, Unknown
<1>2. Standing(x)
  BY <1>1 DEF Abides, Poised, Standing, MayClose
<1>3. IsToldOf(x)
  BY <1>1 DEF Abides, Poised, IsToldOf
<1> QED
  BY <1>1, <1>2, <1>3 DEF Hears, Poised

\* A message, that tells of the history as it is, moves the model as it should.
LEMMA HandleMoves ==
  ASSUME NEW c, Hears(c), c.sent = <<>>, NEW log, IsSequence(log), Sees(c, log),
         NEW message, TellsOf(message, log),
         CatchesUp(c) => message.type \in {"remote", "forceClose"},
         ~CatchesUp(c) /\ ~c.closing /\ message.type = "remote" /\ log[message.version].edit # 0
           => message.version < c.cc.contextVersion,
         NEW d, IsClient(d), HandleMakes(c, message, d)
  PROVE  /\ Moves(c, d, c.resource, log)
         /\ message.type = "serverComplete" /\ d.open => ~d.resync
<1>1. IsClient(c) /\ c.open /\ Mute(c.sent) /\ IsConcurrencyControl(c.cc)
  BY HearsMeans, NothingIsMute DEF IsClient
<1>2. CASE message.type = "remote" /\ ~CatchesUp(c) /\ RemoteMakes(c, message, d)
  <2>1. ASSUME Current(c), message.version = c.cc.contextVersion
        PROVE  log[message.version].edit <= Acked(c.cc)
    <3>1. c.cc.contextVersion \in Nat /\ Acked(c.cc) \in Nat
      BY <1>1, InFlightIsNumbered DEF IsConcurrencyControl
    <3>2. log[message.version].edit = 0
      BY <1>2, <2>1, <3>1 DEF Current
    <3> QED
      BY <3>1, <3>2
  <2> QED
    BY <1>2, <2>1, RemoteMoves
<1>3. CASE message.type = "remote" /\ Buffers(c, message, d)
  BY <1>3, BuffersMoves
<1>4. CASE message.type = "remote" /\ CatchesUp(c) /\ HistoryMakes(c, message, d)
  BY <1>4, HistoryMoves
<1>5. CASE message.type = "ack" /\ AckMakes(c, message.version, message.number, d)
  BY <1>5, AckMoves
<1>6. CASE message.type = "forceClose" /\ d = c
  BY <1>1, <1>6, StaysMoves
<1>7. CASE message.type = "forceClose" /\ (Leaves(c, d) \/ GoneTo(c, d))
  BY <1>1, <1>7, LeavesMoves, GoneMoves
<1>8. CASE message.type = "serverComplete" /\ ~c.resync /\ d = c
  BY <1>1, <1>8, StaysMoves
<1>9. CASE message.type = "serverComplete" /\ c.resync /\ ServerCompleteMakes(c, d)
  <2>1. ~CatchesUp(c)
    BY <1>9
  <2> QED
    BY <1>9, <2>1, ServerCompleteMoves
<1>10. \/ message.type = "remote" /\ ~CatchesUp(c) /\ RemoteMakes(c, message, d)
       \/ message.type = "remote" /\ Buffers(c, message, d)
       \/ message.type = "remote" /\ CatchesUp(c) /\ HistoryMakes(c, message, d)
       \/ message.type = "ack" /\ AckMakes(c, message.version, message.number, d)
       \/ message.type = "forceClose" /\ d = c
       \/ message.type = "forceClose" /\ (Leaves(c, d) \/ GoneTo(c, d))
       \/ message.type = "serverComplete" /\ ~c.resync /\ d = c
       \/ message.type = "serverComplete" /\ c.resync /\ ServerCompleteMakes(c, d)
  BY DEF HandleMakes
<1>11. message.type \in {"remote", "ack", "forceClose"} => message.type # "serverComplete"
  OBVIOUS
<1> QED
  BY <1>2, <1>3, <1>4, <1>5, <1>6, <1>7, <1>8, <1>9, <1>10, <1>11

\* The answer says where the history ends, and all operations of this client come before.
LEMMA AnsweredMoves ==
  ASSUME NEW c, IsClient(c), c.open, c.resync, c.sent = <<>>,
         NEW log, IsSequence(log), Sees(c, log),
         NEW version, CatchesUp(c) => OwnIsBefore(log, version),
         NEW x, Abides(c, x), x.reconnectVersion = version, x.sent = c.sent
  PROVE  Moves(c, x, x.resource, log)
<1>1. /\ IsClient(x) /\ Session(x) = Session(c) /\ (x.open <=> c.open) /\ x.cc = c.cc
      /\ (x.closing <=> c.closing) /\ (x.resync <=> c.resync) /\ (x.upToDate <=> c.upToDate)
      /\ x.buffered = c.buffered
  BY DEF Abides
<1>2. x.session = c.session
  BY <1>1 DEF Session
<1>3. (CatchesUp(x) <=> CatchesUp(c)) /\ (Current(x) <=> Current(c))
  BY <1>1 DEF CatchesUp, Current
<1>4. OwnBearsSession(x, log) /\ BufferedIsLogged(x, log)
  BY <1>1, <1>2 DEF Sees, OwnBearsSession, BufferedIsLogged
<1>5. Current(x) => PassedIsAcked(x, log)
  BY <1>1, <1>3 DEF Sees, PassedIsAcked
<1>6. Sees(x, log)
  BY <1>3, <1>4, <1>5 DEF Sees
<1>7. Mute(x.sent) /\ c.cc.contextVersion \in Nat
  BY NothingIsMute DEF IsClient, IsConcurrencyControl
<1> QED
  BY <1>1, <1>3, <1>6, <1>7 DEF Moves

\* What the answer to its request leads the model to
LEMMA ResponseMoves ==
  ASSUME NEW c, Poised(c), Awaits(c), c.up, c.sent = <<>>, NEW log, IsSequence(log), Sees(c, log),
         NEW message, message.version \in Nat, message.resource \in Nat, message.resource # 0,
         CatchesUp(c) => OwnIsBefore(log, message.version),
         NEW d, ResponseMakes(c, message, d)
  PROVE  Moves(c, d, c.resource, log) \/ (c.resync /\ Moves(c, d, message.resource, log))
<1>1. IsClient(c) /\ c.open /\ ~c.offline
  BY DEF Poised, Standing
<1>2. CASE ~c.resync /\ Steady(c, d) /\ d.sent = c.sent
  <2>1. Mute(d.sent)
    BY <1>2, NothingIsMute
  <2> QED
    BY <1>1, <1>2, <2>1, SteadyMoves
<1>3. ASSUME c.resync, NEW x, NEW y,
             Abides(c, x), x.reconnectVersion = message.version, x.resource = message.resource,
             x.told = "resync_started", x.late <=> c.offline, x.entry <=> c.entry, x.sent = c.sent,
             Reaches(x, y), d = y \/ (Steady(y, d) /\ d.sent = y.sent)
      PROVE  Moves(c, d, message.resource, log)
  <2>1. Hears(x)
    BY <1>1, <1>3, AnsweredHears
  <2>2. Moves(c, x, message.resource, log)
    BY <1>1, <1>3, AnsweredMoves
  <2>3. x.open /\ IsClient(x)
    BY <2>1, HearsMeans
  <2>4. Sees(x, log)
    BY <2>2, <2>3 DEF Moves
  <2>5. Moves(x, y, message.resource, log) /\ IsClient(y)
    BY <1>3, <2>1, <2>4, ReachesMoves
  <2>6. Moves(c, y, message.resource, log)
    BY <1>1, <2>2, <2>3, <2>5, MovesIsTransitive
  <2>7. ASSUME Steady(y, d), d.sent = y.sent PROVE Moves(c, d, message.resource, log)
    <3>1. y.open /\ Sees(y, log) /\ y.resource = message.resource
      <4>1. y.open
        BY <1>3, <2>3 DEF Reaches, CaughtUp
      <4> QED
        BY <2>5, <4>1 DEF Moves
    <3>2. Sees(d, log) /\ (d.open => (CatchesUp(d) <=> CatchesUp(y)))
          /\ d.cc = y.cc /\ d.resource = y.resource
          /\ (d.resync <=> y.resync) /\ (d.closing <=> y.closing) /\ Session(d) = Session(y)
          /\ (d.open <=> y.open)
      BY <2>5, <2>7, <3>1, SteadySees, StepsMean DEF Steady
    <3> QED
      BY <2>6, <2>7, <3>1, <3>2 DEF Moves
  <2> QED
    BY <1>3, <2>6, <2>7
<1> QED
  BY <1>2, <1>3 DEF ResponseMakes

\* The reply to a request to be resynchronised tells where the history ends, and all
\* operations of this client come before.
TellsTheEnd(c, task, message, log) ==
  task.step = "resync" /\ message.type = "reply" =>
    /\ message.version \in Nat /\ message.resource \in Nat /\ message.resource # 0
    /\ CatchesUp(c) => OwnIsBefore(log, message.version)

\* What a reply leads the model to
LEMMA RepliedMoves ==
  ASSUME NEW c, Poised(c), Awaits(c), c.up, c.sent = <<>>, NEW log, IsSequence(log), Sees(c, log),
         NEW task, NEW message,
         TellsTheEnd(c, task, message, log),
         NEW d, RepliedMakes(c, task, message, d)
  PROVE  \/ Moves(c, d, c.resource, log)
         \/ /\ task.step = "resync" /\ message.type = "reply" /\ c.resync
            /\ Moves(c, d, message.resource, log)
<1>1. IsClient(c) /\ c.open /\ Mute(c.sent)
  BY NothingIsMute DEF Poised
<1>2. CASE task.step = "create" /\ IsSaved(c, d)
  <2>1. IsClient(d) /\ IsConcurrencyControl(c.cc) /\ d.cc = c.cc
    BY <1>1, <1>2 DEF IsClient, IsSaved
  <2>2. Learns(c, d)
    BY <1>2, <2>1, ControlLearns DEF Learns, IsSaved, Session
  <2>3. /\ BufferedIsLogged(d, log) /\ Passes(c, d, log) /\ Mute(d.sent)
        /\ d.resource = c.resource /\ Session(d) = Session(c)
    BY <1>1, <1>2 DEF Sees, BufferedIsLogged, Passes, IsSaved
  <2> QED
    BY <1>1, <2>1, <2>2, <2>3, LearnsMoves
<1>3. CASE LosesEntry(c, d)
  <2>1. Steady(c, d) /\ Mute(d.sent)
    BY <1>1, <1>3 DEF LosesEntry
  <2> QED
    BY <1>1, <2>1, SteadyMoves
<1>4. CASE task.step = "resync" /\ message.type = "reply" /\ ResponseMakes(c, message, d)
  BY <1>4, ResponseMoves DEF TellsTheEnd
<1>5. CASE d = c
  BY <1>1, <1>5, StaysMoves
<1>6. CASE IsAnswered(c, d)
  <2>1. Mute(d.sent)
    BY <1>1, <1>6 DEF IsAnswered
  <2> QED
    BY <1>1, <1>6, <2>1, FrameMoves DEF IsAnswered
<1>7. CASE GoneTo(c, d)
  BY <1>7, GoneMoves
<1> QED
  BY <1>2, <1>3, <1>4, <1>5, <1>6, <1>7 DEF RepliedMakes

\* Closing later moves the model nowhere.
LEMMA ClosesLaterMoves ==
  ASSUME NEW c, IsClient(c), c.open, c.sent = <<>>, NEW log, IsSequence(log), Sees(c, log),
         NEW d, ClosesLater(c, d)
  PROVE  Moves(c, d, c.resource, log)
<1>1. IsClient(d) /\ IsConcurrencyControl(c.cc) /\ d.cc = c.cc
  BY DEF IsClient, ClosesLater
<1>2. Learns(c, d)
  BY <1>1, ControlLearns DEF Learns, ClosesLater, Session
<1>3. /\ BufferedIsLogged(d, log) /\ Passes(c, d, log) /\ Mute(d.sent)
      /\ d.resource = c.resource /\ Session(d) = Session(c)
  BY NothingIsMute DEF Sees, BufferedIsLogged, Passes, ClosesLater
<1> QED
  BY <1>1, <1>2, <1>3, LearnsMoves

\* Asking to be resynchronised moves the model nowhere.
LEMMA ResumesMoves ==
  ASSUME NEW c, IsClient(c), c.sent = <<>>, NEW log, IsSequence(log), Sees(c, log),
         NEW since, NEW d, Resumes(c, since, d)
  PROVE  Moves(c, d, c.resource, log)
<1>1. Mute(d.sent)
  <2>1. PICK message : message = Message(c, "resync", since, c.cc.contextVersion)
    OBVIOUS
  <2>2. message.type # "op"
    BY <2>1 DEF Message
  <2>3. d.sent = <<>> \/ d.sent = Sent(<<>>, message)
    BY <2>1 DEF Resumes
  <2> QED
    BY <2>2, <2>3, OneIsMute, NothingIsMute
<1> QED
  BY <1>1, SteadyMoves DEF Resumes

\* An edit is numbered next, bears the session's id and, if it is sent, is sent alone.
EditSays(c, d) ==
  \/ d.sent = <<>>
  \/ ~CatchesUp(c) /\ \E message : /\ d.sent = Sent(<<>>, message) /\ message.type = "op"
                                   /\ message.number = d.cc.lastSequenceNumber

\* An edit leaves what the model sees.
LEMMA EditSees ==
  ASSUME NEW c, IsClient(c), c.open, c.sent = <<>>, NEW log, IsSequence(log), Sees(c, log),
         NEW d, EditMakes(c, d)
  PROVE  /\ IsClient(d) /\ d.open /\ Session(d) = Session(c) /\ d.resource = c.resource
         /\ (d.closing <=> c.closing) /\ (d.resync <=> c.resync) /\ (CatchesUp(d) <=> CatchesUp(c))
         /\ d.cc.lastSequenceNumber = c.cc.lastSequenceNumber + 1
         /\ d.cc.contextVersion = c.cc.contextVersion
         /\ Sees(d, log) /\ EditSays(c, d)
<1>1. /\ IsClient(d) /\ d.open /\ Session(d) = Session(c) /\ d.resource = c.resource
      /\ (d.closing <=> c.closing) /\ (d.resync <=> c.resync) /\ (d.upToDate <=> c.upToDate)
      /\ d.reconnectVersion = c.reconnectVersion /\ d.buffered = c.buffered
      /\ d.session = c.session
  BY FrameMeans, FrameHoldsSession DEF EditMakes
<1>2. IsConcurrencyControl(c.cc) /\ d.cc = CC!ProcessOutgoingOperation(c.cc, c.session, "edit")
  BY DEF IsClient, EditMakes
<1>3. /\ IsConcurrencyControl(d.cc) /\ d.cc.contextVersion = c.cc.contextVersion
      /\ d.cc.lastSequenceNumber = c.cc.lastSequenceNumber + 1
      /\ Len(InFlight(d.cc)) = Len(InFlight(c.cc)) + 1
      /\ InFlight(d.cc)[Len(InFlight(d.cc))].sessionId = c.session
      /\ \A i \in DOMAIN InFlight(c.cc) :
           i \in DOMAIN InFlight(d.cc) /\ InFlight(d.cc)[i] = InFlight(c.cc)[i]
  BY <1>2, EditTakes
<1>4. PICK k \in Nat : /\ k = Len(InFlight(c.cc)) /\ DOMAIN InFlight(c.cc) = 1 .. k
                       /\ DOMAIN InFlight(d.cc) = 1 .. k + 1 /\ Len(InFlight(d.cc)) = k + 1
  BY <1>2, <1>3, InFlightIsNumbered
<1>5. c.cc.lastSequenceNumber \in Nat /\ Acked(d.cc) = Acked(c.cc)
  <2>1. c.cc.lastSequenceNumber \in Nat
    BY <1>2 DEF IsConcurrencyControl
  <2>2. Acked(c.cc) = c.cc.lastSequenceNumber - k
    BY <1>4 DEF Acked
  <2>3. Acked(d.cc) = (c.cc.lastSequenceNumber + 1) - (k + 1)
    BY <1>3, <1>4 DEF Acked
  <2> QED
    BY <2>1, <2>2, <2>3
<1>6. OwnBearsSession(d, log)
  <2>1. \A i \in DOMAIN InFlight(d.cc) : InFlight(d.cc)[i].sessionId = d.session
    <3>1. \A i \in 1 .. k : InFlight(d.cc)[i].sessionId = d.session
      BY <1>1, <1>3, <1>4 DEF Sees, OwnBearsSession
    <3>2. InFlight(d.cc)[k + 1].sessionId = d.session
      BY <1>1, <1>3, <1>4
    <3>3. \A i \in 1 .. k + 1 : i \in 1 .. k \/ i = k + 1
      BY <1>4
    <3> QED
      BY <1>4, <3>1, <3>2, <3>3
  <2>2. \A i \in DOMAIN log : /\ log[i].edit \in 0 .. c.cc.lastSequenceNumber
                              /\ log[i].edit # 0 => log[i].session = c.session
    BY DEF Sees, OwnBearsSession
  <2>3. \A e \in 0 .. c.cc.lastSequenceNumber : e \in 0 .. d.cc.lastSequenceNumber
    BY <1>3, <1>5
  <2> QED
    BY <1>1, <2>1, <2>2, <2>3 DEF OwnBearsSession
<1>7. (CatchesUp(d) <=> CatchesUp(c)) /\ (Current(d) <=> Current(c))
  BY <1>1 DEF CatchesUp, Current
<1>8. Sees(d, log)
  <2>1. Current(d) => PassedIsAcked(d, log)
    BY <1>3, <1>5, <1>7 DEF Sees, PassedIsAcked
  <2>2. BufferedIsLogged(d, log)
    BY <1>1 DEF Sees, BufferedIsLogged
  <2> QED
    BY <1>1, <1>6, <1>7, <2>1, <2>2 DEF Sees
<1>9. EditSays(c, d)
  <2>1. CASE ~SendEvents(c)
    BY <2>1 DEF EditMakes, EditSays
  <2>2. CASE SendEvents(c)
    <3>1. PICK message : message = Submission(c, InFlight(d.cc)[Len(InFlight(d.cc))])
      OBVIOUS
    <3>2. d.sent = Sent(<<>>, message)
      BY <2>2, <3>1 DEF EditMakes
    <3>3. message.type = "op" /\ message.number = InFlight(d.cc)[k + 1].seqNo
      BY <1>4, <3>1 DEF Submission, Message
    <3>4. InFlight(d.cc)[k + 1].seqNo = d.cc.lastSequenceNumber
      <4>1. InFlight(d.cc)[k + 1].seqNo = Acked(d.cc) + (k + 1)
        BY <1>3, <1>4, InFlightIsNumbered
      <4>2. Acked(d.cc) = (c.cc.lastSequenceNumber + 1) - (k + 1)
        BY <1>3, <1>4 DEF Acked
      <4> QED
        BY <1>3, <1>5, <4>1, <4>2
    <3>5. ~CatchesUp(c)
      BY <2>2 DEF SendEvents, CatchesUp
    <3> QED
      BY <3>2, <3>3, <3>4, <3>5 DEF EditSays
  <2> QED
    BY <2>1, <2>2
<1> QED
  BY <1>1, <1>3, <1>7, <1>8, <1>9

\* The loss of the connection leaves what the model sees, if it leaves the model open.
LEMMA DropsSees ==
  ASSUME NEW c, IsClient(c), NEW log, IsSequence(log), Sees(c, log), NEW d, Drops(c, d), d.open
  PROVE  Sees(d, log) /\ ~CatchesUp(d) /\ c.open /\ ~c.closing /\ ~d.closing /\ ~d.resync
         /\ d.resource = 0
<1>1. /\ ~d.resync /\ d.buffered = <<>> /\ d.cc = c.cc /\ d.session = c.session /\ ~d.closing
      /\ d.resource = 0 /\ c.open /\ ~c.closing
  BY DEF Drops, Gone
<1>2. ~CatchesUp(d) /\ Current(c)
  BY <1>1 DEF CatchesUp, Current
<1>3. BufferedIsLogged(d, log)
  BY <1>1, EmptyIsSequence, SequenceIsFunction DEF BufferedIsLogged
<1> QED
  BY <1>1, <1>2, <1>3 DEF Sees, OwnBearsSession, PassedIsAcked

\* A new connection, if it keeps the session's id, too.
LEMMA ReconnectsSees ==
  ASSUME NEW c, Poised(c), ~c.up, c.keeps, NEW log, IsSequence(log), Sees(c, log),
         NEW d, Reconnects(c, d)
  PROVE  Sees(d, log) /\ d.open /\ CatchesUp(d) /\ ~d.closing /\ d.resource = 0
         /\ d.cc.lastSequenceNumber = c.cc.lastSequenceNumber
<1>1. c.open /\ ~c.closing /\ c.resource = 0
  BY DEF Poised, Standing
<1>2. /\ d.open /\ d.resync /\ ~d.upToDate /\ ~d.closing /\ d.buffered = <<>> /\ d.cc = c.cc
      /\ d.session = c.session /\ d.reconnectVersion = Unknown /\ d.resource = 0
  BY <1>1 DEF Reconnects
<1>3. Current(c) /\ CatchesUp(d)
  BY <1>1, <1>2 DEF CatchesUp, Current
<1>4. BufferedIsLogged(d, log)
  BY <1>2, EmptyIsSequence, SequenceIsFunction DEF BufferedIsLogged
<1> QED
  BY <1>2, <1>3, <1>4 DEF Sees, OwnBearsSession, PassedIsAcked

(***************************************************************************)
(* What is on its way while edits are operations once                      *)
(***************************************************************************)

\* The tail of what is fresh is fresh.
LEMMA FreshTail ==
  ASSUME NEW q, IsSequence(q), q # <<>>, NEW n, NEW log, Fresh(q, n, log), NEW r, r = Tail(q)
  PROVE  Fresh(r, n, log)
<1>1. /\ IsSequence(r) /\ Len(q) >= 1 /\ Len(r) = Len(q) - 1
      /\ \A i \in 1 .. Len(q) - 1 : r[i] = q[i + 1]
  BY TailOfSequence
<1>2. PICK m \in Nat : m = Len(q) /\ DOMAIN q = 1 .. m
  BY SequenceIsFunction
<1>3. DOMAIN r = 1 .. m - 1
  BY <1>1, <1>2, SequenceIsFunction
<1>4. \A i \in 1 .. m - 1 : i + 1 \in 1 .. m /\ r[i] = q[i + 1]
  BY <1>1, <1>2
<1>5. \A i \in DOMAIN r : r[i].type = "op" =>
         /\ r[i].number \in 1 .. n
         /\ \A j \in DOMAIN log : log[j].edit # r[i].number
  BY <1>2, <1>3, <1>4 DEF Fresh
<1>6. ASSUME NEW i \in DOMAIN r, NEW j \in DOMAIN r, r[i].type = "op", r[j].type = "op",
             r[i].number = r[j].number
      PROVE  i = j
  <2>1. i + 1 = j + 1
    BY <1>2, <1>3, <1>4, <1>6 DEF Fresh
  <2> QED
    BY <1>3, <2>1
<1> QED
  BY <1>5, <1>6 DEF Fresh

\* Fresh operations after none, or none after fresh ones
LEMMA FreshConcat ==
  ASSUME NEW q, IsSequence(q), NEW r, IsSequence(r), NEW n, NEW log,
         (Fresh(q, n, log) /\ Mute(r)) \/ (Mute(q) /\ Fresh(r, n, log)), NEW s, s = q \o r
  PROVE  Fresh(s, n, log)
<1>1. PICK k \in Nat, l \in Nat : /\ k = Len(q) /\ DOMAIN q = 1 .. k
                                  /\ l = Len(r) /\ DOMAIN r = 1 .. l
  BY SequenceIsFunction
<1>2. /\ IsSequence(s) /\ Len(s) = k + l
      /\ \A i \in 1 .. k : s[i] = q[i]
      /\ \A i \in 1 .. l : s[k + i] = r[i]
  BY <1>1, ConcatOfSequences
<1>3. DOMAIN s = 1 .. k + l
  BY <1>2, SequenceIsFunction
<1>4. \A i \in 1 .. k + l : i \in 1 .. k \/ (i - k \in 1 .. l /\ k + (i - k) = i)
  BY <1>1
<1>5. CASE Fresh(q, n, log) /\ Mute(r)
  <2>1. ASSUME NEW i \in DOMAIN s, s[i].type = "op" PROVE i \in DOMAIN q /\ s[i] = q[i]
    <3>1. CASE i \in 1 .. k
      BY <1>1, <1>2, <3>1
    <3>2. CASE i - k \in 1 .. l /\ k + (i - k) = i
      <4>1. s[i] = r[i - k]
        BY <1>2, <3>2
      <4> QED
        BY <1>1, <2>1, <3>2, <4>1, <1>5 DEF Mute
    <3> QED
      BY <1>3, <1>4, <3>1, <3>2
  <2> QED
    BY <1>5, <2>1 DEF Fresh
<1>6. CASE Mute(q) /\ Fresh(r, n, log)
  <2>1. ASSUME NEW i \in DOMAIN s, s[i].type = "op"
        PROVE  i \in Int /\ i - k \in DOMAIN r /\ s[i] = r[i - k]
    <3>1. CASE i \in 1 .. k
      <4>1. s[i] = q[i]
        BY <1>2, <3>1
      <4> QED
        BY <1>1, <1>6, <2>1, <3>1, <4>1 DEF Mute
    <3>2. CASE i - k \in 1 .. l /\ k + (i - k) = i
      <4>1. s[i] = r[i - k]
        BY <1>2, <3>2
      <4> QED
        BY <1>1, <1>3, <2>1, <3>2, <4>1
    <3> QED
      BY <1>3, <1>4, <3>1, <3>2
  <2>2. \A i \in DOMAIN s : s[i].type = "op" =>
           /\ s[i].number \in 1 .. n
           /\ \A j \in DOMAIN log : log[j].edit # s[i].number
    BY <1>6, <2>1 DEF Fresh
  <2>3. ASSUME NEW i \in DOMAIN s, NEW j \in DOMAIN s, s[i].type = "op", s[j].type = "op",
               s[i].number = s[j].number
        PROVE  i = j
    <3>1. i - k = j - k
      BY <1>6, <2>1, <2>3 DEF Fresh
    <3>2. i \in Int /\ j \in Int
      BY <2>1, <2>3
    <3> QED
      BY <1>1, <3>1, <3>2
  <2> QED
    BY <2>2, <2>3 DEF Fresh
<1> QED
  BY <1>5, <1>6

\* What is fresh of n is so of more.
LEMMA FreshOfMore ==
  ASSUME NEW q, NEW n \in Nat, NEW m \in Nat, n <= m, NEW log, Fresh(q, n, log)
  PROVE  Fresh(q, m, log)
<1>1. \A i \in 1 .. n : i \in 1 .. m
  OBVIOUS
<1> QED
  BY <1>1 DEF Fresh

\* The next operation after fresh ones is fresh.
LEMMA NextIsFresh ==
  ASSUME NEW q, IsSequence(q), NEW n \in Nat, NEW log, Fresh(q, n, log),
         \A j \in DOMAIN log : log[j].edit \in 0 .. n,
         NEW message, message.type = "op", message.number = n + 1,
         NEW r, r = Sent(<<>>, message), NEW s, s = q \o r
  PROVE  Fresh(s, n + 1, log)
<1>1. IsSequence(r) /\ Len(r) = 1 /\ r[1] = message
  BY OneMessage
<1>2. PICK k \in Nat : k = Len(q) /\ DOMAIN q = 1 .. k
  BY SequenceIsFunction
<1>3. /\ IsSequence(s) /\ Len(s) = k + 1
      /\ \A i \in 1 .. k : s[i] = q[i]
      /\ s[k + 1] = message
  <2>1. /\ IsSequence(s) /\ Len(s) = k + 1
        /\ \A i \in 1 .. k : s[i] = q[i]
        /\ \A i \in 1 .. 1 : s[k + i] = r[i]
    BY <1>1, <1>2, ConcatOfSequences, SMTT(30)
  <2> QED
    BY <1>1, <2>1
<1>4. DOMAIN s = 1 .. k + 1
  BY <1>3, SequenceIsFunction
<1>5. \A i \in 1 .. k + 1 : i \in 1 .. k \/ i = k + 1
  BY <1>2
<1>6. ASSUME NEW i \in 1 .. k, s[i].type = "op"
      PROVE  /\ s[i].number \in 1 .. n + 1 /\ s[i].number # n + 1
             /\ \A j \in DOMAIN log : log[j].edit # s[i].number
  <2>1. s[i] = q[i] /\ i \in DOMAIN q
    BY <1>2, <1>3
  <2>2. s[i].number \in 1 .. n /\ \A j \in DOMAIN log : log[j].edit # s[i].number
    BY <1>6, <2>1 DEF Fresh
  <2>3. \A x \in 1 .. n : x \in 1 .. n + 1 /\ x # n + 1
    OBVIOUS
  <2> QED
    BY <2>2, <2>3
<1>7. \A j \in DOMAIN log : log[j].edit # n + 1
  OBVIOUS
<1>8. \A i \in DOMAIN s : s[i].type = "op" =>
         /\ s[i].number \in 1 .. n + 1
         /\ \A j \in DOMAIN log : log[j].edit # s[i].number
  <2>1. n + 1 \in 1 .. n + 1
    OBVIOUS
  <2> QED
    BY <1>3, <1>4, <1>5, <1>6, <1>7, <2>1
<1>9. ASSUME NEW i \in DOMAIN s, NEW j \in DOMAIN s, s[i].type = "op", s[j].type = "op",
             s[i].number = s[j].number
      PROVE  i = j
  <2>1. CASE i \in 1 .. k /\ j \in 1 .. k
    BY <1>2, <1>3, <1>9, <2>1 DEF Fresh
  <2>2. CASE i = k + 1 /\ j \in 1 .. k
    BY <1>3, <1>6, <1>9, <2>2
  <2>3. CASE i \in 1 .. k /\ j = k + 1
    BY <1>3, <1>6, <1>9, <2>3
  <2>4. CASE i = k + 1 /\ j = k + 1
    BY <2>4
  <2> QED
    BY <1>4, <1>5, <2>1, <2>2, <2>3, <2>4
<1> QED
  BY <1>8, <1>9 DEF Fresh

\* Where the history takes in what is not an operation of this client, all stays fresh.
LEMMA FreshOfOthers ==
  ASSUME NEW q, NEW n \in Nat, NEW log, IsSequence(log), Fresh(q, n, log),
         NEW entry, entry.edit = 0, NEW more, more = Sent(log, entry)
  PROVE  Fresh(q, n, more)
<1>1. PICK k \in Nat : k = Len(log) /\ DOMAIN log = 1 .. k
  BY SequenceIsFunction
<1>2. DOMAIN more = 1 .. k + 1 /\ more[k + 1] = entry /\ \A j \in 1 .. k : more[j] = log[j]
  BY <1>1, LastMessage, SequenceIsFunction
<1>3. \A j \in 1 .. k + 1 : j \in 1 .. k \/ j = k + 1
  BY <1>1
<1>4. \A m \in 1 .. n : m # 0
  OBVIOUS
<1> QED
  BY <1>1, <1>2, <1>3, <1>4 DEF Fresh

\* Where it takes in the first of what is fresh, the rest stays so.
LEMMA FreshWithoutFirst ==
  ASSUME NEW q, IsSequence(q), q # <<>>, NEW n, NEW log, IsSequence(log), Fresh(q, n, log),
         Head(q).type = "op", NEW entry, entry.edit = Head(q).number,
         NEW more, more = Sent(log, entry), NEW r, r = Tail(q)
  PROVE  Fresh(r, n, more)
<1>1. PICK k \in Nat : k = Len(log) /\ DOMAIN log = 1 .. k
  BY SequenceIsFunction
<1>2. DOMAIN more = 1 .. k + 1 /\ more[k + 1] = entry /\ \A j \in 1 .. k : more[j] = log[j]
  BY <1>1, LastMessage, SequenceIsFunction
<1>3. \A j \in 1 .. k + 1 : j \in 1 .. k \/ j = k + 1
  BY <1>1
<1>4. Fresh(r, n, log)
  BY FreshTail
<1>5. /\ IsSequence(r) /\ Len(q) >= 1 /\ Len(r) = Len(q) - 1 /\ Head(q) = q[1]
      /\ \A i \in 1 .. Len(q) - 1 : r[i] = q[i + 1]
  BY TailOfSequence
<1>6. PICK m \in Nat : m = Len(q) /\ DOMAIN q = 1 .. m /\ DOMAIN r = 1 .. m - 1
  BY <1>5, SequenceIsFunction
<1>7. ASSUME NEW i \in 1 .. m - 1, r[i].type = "op" PROVE r[i].number # entry.edit
  <2>1. r[i] = q[i + 1] /\ i + 1 \in 1 .. m /\ 1 \in 1 .. m /\ i + 1 # 1
    BY <1>5, <1>6
  <2> QED
    BY <1>5, <1>6, <1>7, <2>1 DEF Fresh
<1> QED
  BY <1>1, <1>2, <1>3, <1>4, <1>6, <1>7 DEF Fresh

(***************************************************************************)
(* The invariant for operations                                            *)
(***************************************************************************)

OncePer(log) ==
  \A i, j \in DOMAIN log : log[i].edit = log[j].edit /\ log[i].edit # 0 => i = j

\* The server holds a resource for the model, or closed it by force.
Held(s) == s.phase \in {"resync", "open", "closed"}

NoReply(messages) == \A i \in DOMAIN messages : ~IsReplyToResync(messages[i])

OneReply(messages) ==
  \A i, j \in DOMAIN messages : IsReplyToResync(messages[i]) /\ IsReplyToResync(messages[j]) => i = j

\* The end of the resynchronisation is on its way, before the reply to any other.
Concludes(messages, resource) ==
  \E i \in DOMAIN messages :
    /\ messages[i].type = "serverComplete" /\ messages[i].resource = resource
    /\ \A j \in DOMAIN messages : IsReplyToResync(messages[j]) => i < j

\* A model that awaits the end of its resynchronisation has the server's resource, or is told
\* of the end before any other answer.
Ongoing(c, s, messages) ==
  \/ c.resource = s.resource /\ Held(s) /\ NoReply(messages)
  \/ Concludes(messages, c.resource)

\* A model that awaits the answer gets one, with the server's resource.
Prospect(s, messages) ==
  /\ OneReply(messages)
  /\ \A i \in DOMAIN messages :
       IsReplyToResync(messages[i]) => messages[i].resource = s.resource /\ Held(s)

\* Operations of this client come to the model as remote ones only if it has passed them.
OwnHasPassed(c, messages, log) ==
  \A i \in DOMAIN messages :
    messages[i].type = "remote" /\ messages[i].resource = c.resource
      /\ log[messages[i].version].edit # 0
      => messages[i].version < c.cc.contextVersion

NoClose(requests) == \A i \in DOMAIN requests : requests[i].type # "close"

\* How a model that is not closing is linked to what the server holds
Linked(c, s, requests, messages) ==
  /\ c.resource <= s.resource
  /\ c.resync /\ c.resource # 0 => Ongoing(c, s, messages)
  /\ c.resource = 0 => Prospect(s, messages)
  /\ ~CatchesUp(c) => OwnHasPassed(c, messages, s.log)
  /\ NoClose(requests)

\* All operations of this client come before the version an answer tells.
ReplyIsAfterOwn(messages, log) ==
  \A i \in DOMAIN messages : IsReplyToResync(messages[i]) => OwnIsBefore(log, messages[i].version)

Tells(messages, log) == \A i \in DOMAIN messages : TellsOf(messages[i], log)

\* What binds a model to what it is still to hear, binds none whose service is deaf.
OInv(c, s, requests, messages, deafened) ==
  /\ OncePer(s.log)
  /\ Fresh(requests, c.cc.lastSequenceNumber, s.log)
  /\ Tells(messages, s.log)
  /\ c.open =>
       /\ Sees(c, s.log)
       /\ CatchesUp(c) => ReplyIsAfterOwn(messages, s.log)
       /\ ~c.closing /\ ~deafened => Linked(c, s, requests, messages)

\* Where the client keeps its session, and the server has not opened what it closed by force
Regular == client.keeps /\ ~server.reopened

\* The longer one begins as the other.
Prolongs(q, r) ==
  /\ IsSequence(q) /\ IsSequence(r) /\ Len(q) <= Len(r)
  /\ \A i \in 1 .. Len(q) : r[i] = q[i]

\* The longer one has a message more, at some place.
Slips(q, r, n, message) ==
  /\ IsSequence(q) /\ IsSequence(r) /\ Len(r) = Len(q) + 1
  /\ n \in 1 .. Len(q) + 1 /\ r[n] = message
  /\ \A i \in 1 .. Len(q) : /\ i < n => r[i] = q[i]
                            /\ i >= n => r[i + 1] = q[i]

\* All of one is of the other.
IsOf(r, q) == \A i \in DOMAIN r : \E j \in DOMAIN q : r[i] = q[j]

\* All of one is of the other, or the new message.
IsOfOr(r, q, message) == \A i \in DOMAIN r : r[i] = message \/ \E j \in DOMAIN q : r[i] = q[j]

\* A message that is sent prolongs, at the end.
LEMMA SentSlips ==
  ASSUME NEW q, IsSequence(q), NEW message, NEW r, r = Sent(q, message)
  PROVE  /\ Slips(q, r, Len(q) + 1, message) /\ Prolongs(q, r) /\ IsOfOr(r, q, message)
         /\ Len(q) \in Nat /\ Len(q) + 1 \in DOMAIN r /\ r[Len(q) + 1] = message
<1>1. PICK k \in Nat : k = Len(q) /\ DOMAIN q = 1 .. k
  BY SequenceIsFunction
<1>2. /\ IsSequence(r) /\ Len(r) = k + 1 /\ r[k + 1] = message
      /\ \A i \in 1 .. k : r[i] = q[i]
  BY <1>1, LastMessage
<1>3. DOMAIN r = 1 .. k + 1
  BY <1>2, SequenceIsFunction
<1>4. Slips(q, r, k + 1, message)
  <2>1. k + 1 \in 1 .. k + 1 /\ \A i \in 1 .. k : ~(i >= k + 1)
    BY <1>1
  <2> QED
    BY <1>1, <1>2, <2>1 DEF Slips
<1>5. k <= k + 1 /\ k + 1 \in 1 .. k + 1
  OBVIOUS
<1>6. Prolongs(q, r)
  BY <1>1, <1>2, <1>5 DEF Prolongs
<1>7. IsOfOr(r, q, message)
  <2>1. \A i \in 1 .. k + 1 : i \in 1 .. k \/ i = k + 1
    BY <1>1
  <2> QED
    BY <1>1, <1>2, <1>3, <2>1 DEF IsOfOr
<1> QED
  BY <1>1, <1>2, <1>3, <1>4, <1>5, <1>6, <1>7

\* What is inserted slips in.
LEMMA InsertedSlips ==
  ASSUME NEW q, IsSequence(q), NEW n \in DOMAIN q, NEW message, NEW r, r = Inserted(q, n, message)
  PROVE  Slips(q, r, n, message) /\ IsOfOr(r, q, message)
<1>1. /\ IsSequence(r) /\ Len(r) = Len(q) + 1 /\ Elements(r) = Elements(q) \cup {message}
      /\ DOMAIN q = 1 .. Len(q) /\ Len(q) \in Nat /\ r[n] = message
      /\ \A i \in 1 .. Len(q) : /\ i < n => r[i] = q[i]
                                /\ i >= n => r[i + 1] = q[i]
  BY InsertedMakes
<1>2. n \in 1 .. Len(q) + 1
  BY <1>1
<1>3. IsOfOr(r, q, message)
  BY <1>1 DEF IsOfOr, Elements
<1> QED
  BY <1>1, <1>2, <1>3 DEF Slips

\* The tail has nothing new.
LEMMA TailIsOf ==
  ASSUME NEW q, IsSequence(q), q # <<>>, NEW r, r = Tail(q)
  PROVE  IsOf(r, q) /\ IsSequence(r)
<1>1. IsSequence(r) /\ Elements(r) \subseteq Elements(q)
  BY ElementsOfTail
<1>2. \A i \in DOMAIN r : r[i] \in Elements(q)
  BY <1>1 DEF Elements
<1> QED
  BY <1>1, <1>2 DEF IsOf, Elements

\* Each is of itself.
LEMMA EachIsOfItself ==
  ASSUME NEW q
  PROVE  IsOf(q, q)
  BY DEF IsOf

\* What follows takes no part in how a resynchronisation concludes.
LEMMA ProlongedConcludes ==
  ASSUME NEW q, NEW r, Prolongs(q, r), NEW resource, Concludes(q, resource)
  PROVE  Concludes(r, resource)
<1>1. PICK k \in Nat, l \in Nat : /\ k = Len(q) /\ DOMAIN q = 1 .. k
                                  /\ l = Len(r) /\ DOMAIN r = 1 .. l /\ k <= l
  BY SequenceIsFunction DEF Prolongs
<1>2. \A i \in 1 .. k : r[i] = q[i] /\ i \in 1 .. l
  BY <1>1 DEF Prolongs
<1>3. PICK i \in 1 .. k : /\ q[i].type = "serverComplete" /\ q[i].resource = resource
                          /\ \A j \in 1 .. k : IsReplyToResync(q[j]) => i < j
  BY <1>1 DEF Concludes
<1>4. ASSUME NEW j \in 1 .. l, IsReplyToResync(r[j]) PROVE i < j
  <2>1. CASE j \in 1 .. k
    BY <1>2, <1>3, <1>4, <2>1
  <2>2. CASE j \notin 1 .. k
    BY <1>1, <2>2
  <2> QED
    BY <2>1, <2>2
<1> QED
  BY <1>1, <1>2, <1>3, <1>4 DEF Concludes

\* Nor does what slips in, if it is no reply.
LEMMA SlippedConcludes ==
  ASSUME NEW q, NEW r, NEW n, NEW message, Slips(q, r, n, message), ~IsReplyToResync(message),
         NEW resource, Concludes(q, resource)
  PROVE  Concludes(r, resource)
<1>1. PICK k \in Nat : k = Len(q) /\ DOMAIN q = 1 .. k /\ Len(r) = k + 1 /\ DOMAIN r = 1 .. k + 1
  BY SequenceIsFunction DEF Slips
<1>2. /\ n \in 1 .. k + 1 /\ r[n] = message
      /\ \A i \in 1 .. k : i < n => r[i] = q[i]
      /\ \A i \in 1 .. k : i >= n => r[i + 1] = q[i]
  BY <1>1 DEF Slips
<1>3. PICK i \in 1 .. k : /\ q[i].type = "serverComplete" /\ q[i].resource = resource
                          /\ \A j \in 1 .. k : IsReplyToResync(q[j]) => i < j
  BY <1>1 DEF Concludes
<1>4. PICK m \in {i, i + 1} : r[m] = q[i] /\ m \in 1 .. k + 1 /\ (m = i + 1 => i >= n) /\ (m = i => i < n)
  <2>1. CASE i < n
    <3>1. r[i] = q[i] /\ i \in 1 .. k + 1 /\ i # i + 1
      BY <1>2, <2>1
    <3> QED
      BY <2>1, <3>1
  <2>2. CASE i >= n
    <3>1. r[i + 1] = q[i] /\ i + 1 \in 1 .. k + 1 /\ i + 1 # i
      BY <1>2, <2>2
    <3> QED
      BY <2>2, <3>1
  <2> QED
    BY <1>2, <2>1, <2>2
<1>5. ASSUME NEW j \in 1 .. k + 1, IsReplyToResync(r[j]) PROVE m < j
  <2>1. j # n
    BY <1>2, <1>5
  <2>2. CASE j < n
    <3>1. j \in 1 .. k
      BY <1>2, <2>2
    <3>2. i < j
      BY <1>2, <1>3, <1>5, <2>2, <3>1
    <3> QED
      BY <1>2, <1>4, <2>2, <3>1, <3>2
  <2>3. CASE j > n
    <3>1. j - 1 \in 1 .. k /\ j - 1 >= n /\ (j - 1) + 1 = j
      BY <1>2, <2>3
    <3>2. r[j] = q[j - 1]
      BY <1>2, <3>1
    <3>3. i < j - 1
      BY <1>3, <1>5, <3>1, <3>2
    <3> QED
      BY <1>4, <3>1, <3>3
  <2> QED
    BY <1>2, <2>1, <2>2, <2>3
<1> QED
  BY <1>1, <1>3, <1>4, <1>5 DEF Concludes

\* One reply stays one, if no other slips in.
LEMMA SlippedIsOneReply ==
  ASSUME NEW q, NEW r, NEW n, NEW message, Slips(q, r, n, message), ~IsReplyToResync(message),
         OneReply(q)
  PROVE  OneReply(r)
<1>1. PICK k \in Nat : k = Len(q) /\ DOMAIN q = 1 .. k /\ Len(r) = k + 1 /\ DOMAIN r = 1 .. k + 1
  BY SequenceIsFunction DEF Slips
<1>2. /\ n \in 1 .. k + 1 /\ r[n] = message
      /\ \A i \in 1 .. k : i < n => r[i] = q[i]
      /\ \A i \in 1 .. k : i >= n => r[i + 1] = q[i]
  BY <1>1 DEF Slips
<1>3. ASSUME NEW i \in 1 .. k + 1, IsReplyToResync(r[i])
      PROVE  (i < n /\ i \in 1 .. k /\ r[i] = q[i])
               \/ (i > n /\ i - 1 \in 1 .. k /\ r[i] = q[i - 1])
  <2>1. i # n
    BY <1>2, <1>3
  <2>2. CASE i < n
    <3>1. i \in 1 .. k
      BY <1>2, <2>2
    <3> QED
      BY <1>2, <2>2, <3>1
  <2>3. CASE i > n
    <3>1. i - 1 \in 1 .. k /\ i - 1 >= n /\ (i - 1) + 1 = i
      BY <1>2, <2>3
    <3> QED
      BY <1>2, <2>3, <3>1
  <2> QED
    BY <1>2, <2>1, <2>2, <2>3
<1>4. ASSUME NEW i \in 1 .. k + 1, NEW j \in 1 .. k + 1, IsReplyToResync(r[i]), IsReplyToResync(r[j])
      PROVE  i = j
  <2>1. CASE i < n /\ j < n
    <3>1. /\ i \in 1 .. k /\ r[i] = q[i] /\ j \in 1 .. k /\ r[j] = q[j]
      BY <1>2, <1>3, <1>4, <2>1
    <3> QED
      BY <1>1, <1>4, <3>1 DEF OneReply
  <2>2. CASE i > n /\ j > n
    <3>1. i - 1 = j - 1
      <4>1. /\ i - 1 \in 1 .. k /\ r[i] = q[i - 1] /\ j - 1 \in 1 .. k /\ r[j] = q[j - 1]
        BY <1>2, <1>3, <1>4, <2>2
      <4> QED
        BY <1>1, <1>4, <4>1 DEF OneReply
    <3> QED
      BY <3>1
  <2>3. CASE i < n /\ j > n
    <3>1. i = j - 1
      <4>1. /\ i \in 1 .. k /\ r[i] = q[i] /\ j - 1 \in 1 .. k /\ r[j] = q[j - 1]
        BY <1>2, <1>3, <1>4, <2>3
      <4> QED
        BY <1>1, <1>4, <4>1 DEF OneReply
    <3> QED
      BY <1>2, <2>3, <3>1
  <2>4. CASE i > n /\ j < n
    <3>1. i - 1 = j
      <4>1. /\ i - 1 \in 1 .. k /\ r[i] = q[i - 1] /\ j \in 1 .. k /\ r[j] = q[j]
        BY <1>2, <1>3, <1>4, <2>4
      <4> QED
        BY <1>1, <1>4, <4>1 DEF OneReply
    <3> QED
      BY <1>2, <2>4, <3>1
  <2>5. i # n /\ j # n
    BY <1>2, <1>4
  <2> QED
    BY <1>2, <2>1, <2>2, <2>3, <2>4, <2>5
<1> QED
  BY <1>1, <1>4 DEF OneReply

\* A reply after none is one.
LEMMA FirstReplyIsOne ==
  ASSUME NEW q, IsSequence(q), NoReply(q), NEW message, NEW r, r = Sent(q, message)
  PROVE  OneReply(r)
<1>1. PICK k \in Nat : k = Len(q) /\ DOMAIN q = 1 .. k
  BY SequenceIsFunction
<1>2. DOMAIN r = 1 .. k + 1 /\ \A i \in 1 .. k : r[i] = q[i]
  BY <1>1, LastMessage, SequenceIsFunction
<1>3. \A i \in 1 .. k + 1 : i \in 1 .. k \/ i = k + 1
  BY <1>1
<1> QED
  BY <1>1, <1>2, <1>3 DEF NoReply, OneReply

\* What is appended prolongs.
LEMMA ConcatProlongs ==
  ASSUME NEW q, IsSequence(q), NEW r, IsSequence(r), NEW s, s = q \o r
  PROVE  Prolongs(q, s)
<1>1. PICK k \in Nat, l \in Nat : k = Len(q) /\ l = Len(r)
  BY SequenceIsFunction
<1>2. IsSequence(s) /\ Len(s) = k + l /\ \A i \in 1 .. k : s[i] = q[i]
  BY <1>1, ConcatOfSequences
<1>3. k <= k + l
  OBVIOUS
<1> QED
  BY <1>1, <1>2, <1>3 DEF Prolongs

\* One reply stays one, if none follows.
LEMMA ProlongedIsOneReply ==
  ASSUME NEW q, IsSequence(q), OneReply(q), NEW r, IsSequence(r), NoReply(r), NEW s, s = q \o r
  PROVE  OneReply(s)
<1>1. PICK k \in Nat, l \in Nat : /\ k = Len(q) /\ DOMAIN q = 1 .. k
                                  /\ l = Len(r) /\ DOMAIN r = 1 .. l
  BY SequenceIsFunction
<1>2. /\ IsSequence(s) /\ Len(s) = k + l
      /\ \A i \in 1 .. k : s[i] = q[i]
      /\ \A i \in 1 .. l : s[k + i] = r[i]
  BY <1>1, ConcatOfSequences
<1>3. DOMAIN s = 1 .. k + l /\ k <= k + l
  BY <1>1, <1>2, SequenceIsFunction
<1>4. ASSUME NEW i \in 1 .. k + l, IsReplyToResync(s[i]) PROVE i \in 1 .. k /\ IsReplyToResync(q[i])
  <2>1. CASE i \in 1 .. k
    BY <1>2, <1>4, <2>1
  <2>2. CASE i \notin 1 .. k
    <3>1. i - k \in 1 .. l /\ k + (i - k) = i
      BY <2>2
    <3>2. s[i] = r[i - k]
      BY <1>2, <3>1
    <3> QED
      BY <1>1, <1>4, <3>1, <3>2 DEF NoReply
  <2> QED
    BY <2>1, <2>2
<1> QED
  BY <1>1, <1>3, <1>4 DEF OneReply

\* The end of a resynchronisation stays on its way until it comes.
LEMMA TailConcludes ==
  ASSUME NEW q, IsSequence(q), q # <<>>, NEW r, r = Tail(q), NEW resource, Concludes(q, resource),
         ~(Head(q).type = "serverComplete" /\ Head(q).resource = resource)
  PROVE  Concludes(r, resource)
<1>1. /\ IsSequence(r) /\ Len(q) >= 1 /\ Len(r) = Len(q) - 1 /\ Head(q) = q[1]
      /\ \A i \in 1 .. Len(q) - 1 : r[i] = q[i + 1]
  BY TailOfSequence
<1>2. PICK k \in Nat : k = Len(q) /\ DOMAIN q = 1 .. k /\ DOMAIN r = 1 .. k - 1 /\ k >= 1
  BY <1>1, SequenceIsFunction
<1>3. PICK i \in 1 .. k : /\ q[i].type = "serverComplete" /\ q[i].resource = resource
                          /\ \A j \in 1 .. k : IsReplyToResync(q[j]) => i < j
  BY <1>2 DEF Concludes
<1>4. i # 1
  BY <1>1, <1>3
<1>5. i - 1 \in 1 .. k - 1 /\ (i - 1) + 1 = i
  BY <1>4
<1>6. r[i - 1] = q[i]
  BY <1>1, <1>2, <1>5
<1>7. ASSUME NEW j \in 1 .. k - 1, IsReplyToResync(r[j]) PROVE i - 1 < j
  <2>1. j + 1 \in 1 .. k /\ r[j] = q[j + 1]
    BY <1>1, <1>2
  <2>2. i < j + 1
    BY <1>3, <1>7, <2>1
  <2> QED
    BY <2>2
<1> QED
  BY <1>2, <1>3, <1>5, <1>6, <1>7 DEF Concludes

\* One reply stays one until it comes, and then there is none.
LEMMA TailIsOneReply ==
  ASSUME NEW q, IsSequence(q), q # <<>>, NEW r, r = Tail(q), OneReply(q)
  PROVE  OneReply(r) /\ (IsReplyToResync(Head(q)) => NoReply(r))
<1>1. /\ IsSequence(r) /\ Len(q) >= 1 /\ Len(r) = Len(q) - 1 /\ Head(q) = q[1]
      /\ \A i \in 1 .. Len(q) - 1 : r[i] = q[i + 1]
  BY TailOfSequence
<1>2. PICK k \in Nat : k = Len(q) /\ DOMAIN q = 1 .. k /\ DOMAIN r = 1 .. k - 1 /\ k >= 1
  BY <1>1, SequenceIsFunction
<1>3. \A i \in 1 .. k - 1 : r[i] = q[i + 1] /\ i + 1 \in 1 .. k /\ i + 1 # 1
  BY <1>1, <1>2
<1>4. ASSUME NEW i \in 1 .. k - 1, NEW j \in 1 .. k - 1, IsReplyToResync(r[i]), IsReplyToResync(r[j])
      PROVE  i = j
  <2>1. i + 1 = j + 1
    BY <1>2, <1>3, <1>4 DEF OneReply
  <2> QED
    BY <2>1
<1>5. ASSUME NEW i \in 1 .. k - 1, IsReplyToResync(r[i]), IsReplyToResync(Head(q)) PROVE FALSE
  <2>1. 1 \in 1 .. k
    BY <1>2
  <2> QED
    BY <1>1, <1>2, <1>3, <1>5, <2>1 DEF OneReply
<1> QED
  BY <1>2, <1>4, <1>5 DEF OneReply, NoReply

\* Before the end of a resynchronisation no reply comes.
LEMMA NoReplyBeforeTheEnd ==
  ASSUME NEW q, IsSequence(q), q # <<>>, NEW resource, Concludes(q, resource)
  PROVE  ~IsReplyToResync(Head(q))
<1>1. Len(q) >= 1 /\ Head(q) = q[1]
  BY TailOfSequence
<1>2. PICK k \in Nat : k = Len(q) /\ DOMAIN q = 1 .. k /\ 1 \in 1 .. k
  BY <1>1, SequenceIsFunction
<1>3. PICK i \in 1 .. k : \A j \in 1 .. k : IsReplyToResync(q[j]) => i < j
  BY <1>2 DEF Concludes
<1>4. ~(i < 1)
  OBVIOUS
<1> QED
  BY <1>1, <1>2, <1>3, <1>4

\* The history with one operation more
LEMMA LogGrows ==
  ASSUME NEW log, IsSequence(log), NEW entry, NEW more, more = Sent(log, entry)
  PROVE  /\ IsSequence(more) /\ Len(log) \in Nat /\ DOMAIN log = 1 .. Len(log)
         /\ DOMAIN more = 1 .. Len(log) + 1 /\ Len(more) = Len(log) + 1
         /\ more[Len(log) + 1] = entry /\ \A i \in DOMAIN log : more[i] = log[i] /\ i \in DOMAIN more
         /\ \A i \in DOMAIN more : i \in DOMAIN log \/ i = Len(log) + 1
<1>1. PICK k \in Nat : k = Len(log) /\ DOMAIN log = 1 .. k
  BY SequenceIsFunction
<1>2. /\ IsSequence(more) /\ Len(more) = k + 1 /\ more[k + 1] = entry
      /\ \A i \in 1 .. k : more[i] = log[i]
  BY <1>1, LastMessage
<1>3. DOMAIN more = 1 .. k + 1
  BY <1>2, SequenceIsFunction
<1>4. /\ \A i \in 1 .. k : i \in 1 .. k + 1
      /\ \A i \in 1 .. k + 1 : i \in 1 .. k \/ i = k + 1
  BY <1>1
<1> QED
  BY <1>1, <1>2, <1>3, <1>4

\* A new operation, or one of others, leaves each edit once.
LEMMA GrowsOnce ==
  ASSUME NEW log, IsSequence(log), OncePer(log), NEW entry,
         entry.edit = 0 \/ \A j \in DOMAIN log : log[j].edit # entry.edit,
         NEW more, more = Sent(log, entry)
  PROVE  OncePer(more)
  BY LogGrows DEF OncePer

\* What was told stays so.
LEMMA GrowsTells ==
  ASSUME NEW log, IsSequence(log), NEW messages, Tells(messages, log), NEW entry,
         NEW more, more = Sent(log, entry)
  PROVE  Tells(messages, more)
<1>1. \A i \in DOMAIN log : more[i] = log[i] /\ i \in DOMAIN more
  BY LogGrows
<1> QED
  BY <1>1 DEF Tells, TellsOf

\* What has passed stays so.
LEMMA GrowsPassed ==
  ASSUME NEW log, IsSequence(log), NEW messages, Tells(messages, log), NEW entry,
         NEW more, more = Sent(log, entry), NEW c, OwnHasPassed(c, messages, log)
  PROVE  OwnHasPassed(c, messages, more)
<1>1. \A i \in DOMAIN log : more[i] = log[i] /\ i \in DOMAIN more
  BY LogGrows
<1> QED
  BY <1>1 DEF Tells, TellsOf, OwnHasPassed

\* An operation of others comes after no reply's version that matters.
LEMMA GrowsAfterOwn ==
  ASSUME NEW log, IsSequence(log), NEW version, OwnIsBefore(log, version), NEW entry,
         entry.edit = 0, NEW more, more = Sent(log, entry)
  PROVE  OwnIsBefore(more, version)
  BY LogGrows DEF OwnIsBefore

\* What the model sees it still sees, but an operation of its own only if it does not catch up.
LEMMA GrowsSees ==
  ASSUME NEW c, IsClient(c), NEW log, IsSequence(log), Sees(c, log), NEW entry,
         \/ entry.edit = 0
         \/ /\ ~CatchesUp(c) /\ entry.session = c.session
            /\ entry.edit \in 1 .. c.cc.lastSequenceNumber,
         NEW more, more = Sent(log, entry)
  PROVE  Sees(c, more)
<1>1. PICK k \in Nat : k = Len(log) /\ DOMAIN log = 1 .. k
  BY SequenceIsFunction
<1>2. /\ IsSequence(more) /\ DOMAIN more = 1 .. k + 1 /\ Len(more) = k + 1
      /\ more[k + 1] = entry /\ \A i \in DOMAIN log : more[i] = log[i] /\ i \in DOMAIN more
      /\ \A i \in DOMAIN more : i \in DOMAIN log \/ i = k + 1
  BY <1>1, LogGrows
<1>3. c.cc.lastSequenceNumber \in Nat /\ c.cc.contextVersion \in Nat
  BY DEF IsClient, IsConcurrencyControl
<1>4. entry.edit \in 0 .. c.cc.lastSequenceNumber /\ (entry.edit # 0 => entry.session = c.session)
  BY <1>3
<1>5. OwnBearsSession(c, more)
  BY <1>2, <1>4 DEF Sees, OwnBearsSession
<1>6. ASSUME Current(c) PROVE PassedIsAcked(c, more)
  <2>1. c.cc.contextVersion <= k + 1 /\ PassedIsAcked(c, log)
    BY <1>1, <1>6 DEF Sees, PassedIsAcked
  <2>2. c.cc.contextVersion <= k + 1 + 1 /\ ~(k + 1 < c.cc.contextVersion)
    BY <1>3, <2>1
  <2> QED
    BY <1>2, <2>1, <2>2 DEF PassedIsAcked
<1>7. ASSUME CatchesUp(c), c.reconnectVersion # Unknown PROVE OwnIsBefore(more, c.reconnectVersion)
  BY <1>7, GrowsAfterOwn DEF Sees
<1>8. BufferedIsLogged(c, more)
  BY <1>2 DEF Sees, BufferedIsLogged
<1> QED
  BY <1>5, <1>6, <1>7, <1>8 DEF Sees

\* What the channel from the server hands the model
Hands(c, d, resource, messages, rest) ==
  \/ resource = c.resource /\ rest = messages
  \/ /\ messages # <<>> /\ rest = Tail(messages)
     /\ \/ /\ resource = c.resource
           /\ Head(messages).type = "serverComplete" /\ Head(messages).resource = c.resource => ~d.resync
        \/ /\ CatchesUp(c) /\ c.resource = 0
           /\ IsReplyToResync(Head(messages)) /\ resource = Head(messages).resource

\* A model that moves is linked to the server as before.
LEMMA MovesLinks ==
  ASSUME NEW c, IsClient(c), NEW d, IsClient(d), NEW s, IsServer(s),
         NEW messages, IsSequence(messages), NEW requests, Linked(c, s, requests, messages),
         NEW resource, Moves(c, d, resource, s.log), d.open, ~d.closing,
         NEW rest, Hands(c, d, resource, messages, rest), Tells(messages, s.log),
         NEW asked, NoClose(asked)
  PROVE  Linked(d, s, asked, rest)
<1>1. /\ (d.resync => c.resync) /\ (CatchesUp(d) => CatchesUp(c)) /\ d.resource = resource
      /\ c.cc.contextVersion <= d.cc.contextVersion
      /\ CatchesUp(c) /\ ~CatchesUp(d) => OwnIsBefore(s.log, d.cc.contextVersion)
  BY DEF Moves
<1>2. c.cc.contextVersion \in Nat /\ d.cc.contextVersion \in Nat /\ s.resource \in Nat
      /\ c.resource \in Nat /\ c.resource <= s.resource
  BY DEF IsClient, IsConcurrencyControl, IsServer, Linked
<1>3. IsOf(rest, messages)
  BY TailIsOf, EachIsOfItself DEF Hands
<1>4. \A i \in DOMAIN s.log : i \in Nat
  BY SequenceIsFunction DEF IsServer
<1>5. ASSUME ~CatchesUp(d) PROVE OwnHasPassed(d, rest, s.log)
  <2>1. CASE CatchesUp(c)
    <3>1. OwnIsBefore(s.log, d.cc.contextVersion)
      BY <1>1, <1>5, <2>1
    <3> QED
      BY <1>3, <3>1 DEF OwnIsBefore, OwnHasPassed, Tells, TellsOf, IsOf
  <2>2. CASE ~CatchesUp(c)
    <3>1. OwnHasPassed(c, messages, s.log) /\ d.resource = c.resource
      BY <1>1, <2>2 DEF Linked, Hands
    <3>2. ASSUME NEW i \in DOMAIN rest, rest[i].type = "remote", rest[i].resource = d.resource,
                 s.log[rest[i].version].edit # 0
          PROVE  rest[i].version < d.cc.contextVersion
      <4>1. PICK j \in DOMAIN messages : rest[i] = messages[j]
        BY <1>3 DEF IsOf
      <4>2. messages[j].version < c.cc.contextVersion /\ messages[j].version \in DOMAIN s.log
        BY <3>1, <3>2, <4>1 DEF OwnHasPassed, Tells, TellsOf
      <4> QED
        BY <1>1, <1>2, <1>4, <4>1, <4>2
    <3> QED
      BY <3>2 DEF OwnHasPassed
  <2> QED
    BY <2>1, <2>2
<1>6. CASE resource = c.resource /\ rest = messages
  BY <1>1, <1>2, <1>5, <1>6 DEF Linked, Ongoing
<1>7. CASE /\ messages # <<>> /\ rest = Tail(messages)
           /\ resource = c.resource
           /\ Head(messages).type = "serverComplete" /\ Head(messages).resource = c.resource => ~d.resync
  <2>1. ASSUME d.resync, d.resource # 0 PROVE Ongoing(d, s, rest)
    <3>1. Ongoing(c, s, messages)
      BY <1>1, <1>7, <2>1 DEF Linked
    <3>2. CASE c.resource = s.resource /\ Held(s) /\ NoReply(messages)
      <4>1. NoReply(rest)
        BY <1>3, <3>2 DEF IsOf, NoReply
      <4> QED
        BY <1>1, <1>7, <3>2, <4>1 DEF Ongoing
    <3>3. CASE Concludes(messages, c.resource)
      <4>1. Concludes(rest, c.resource)
        BY <1>7, <2>1, <3>3, TailConcludes
      <4> QED
        BY <1>1, <1>7, <4>1 DEF Ongoing
    <3> QED
      BY <3>1, <3>2, <3>3 DEF Ongoing
  <2>2. ASSUME d.resource = 0 PROVE Prospect(s, rest)
    <3>1. Prospect(s, messages)
      BY <1>1, <1>7, <2>2 DEF Linked
    <3>2. OneReply(rest)
      BY <1>7, <3>1, TailIsOneReply DEF Prospect
    <3> QED
      BY <1>3, <3>1, <3>2 DEF Prospect, IsOf
  <2> QED
    BY <1>1, <1>2, <1>5, <1>7, <2>1, <2>2 DEF Linked
<1>8. CASE /\ messages # <<>> /\ rest = Tail(messages)
           /\ CatchesUp(c) /\ c.resource = 0
           /\ IsReplyToResync(Head(messages)) /\ resource = Head(messages).resource
  <2>1. Prospect(s, messages)
    BY <1>8 DEF Linked
  <2>2. OneReply(rest) /\ NoReply(rest)
    BY <1>8, <2>1, TailIsOneReply DEF Prospect
  <2>3. Head(messages) = messages[1] /\ 1 \in DOMAIN messages
    <3>1. Head(messages) = messages[1] /\ Len(messages) >= 1
      BY <1>8, TailOfSequence
    <3>2. PICK k \in Nat : k = Len(messages) /\ DOMAIN messages = 1 .. k
      BY SequenceIsFunction
    <3> QED
      BY <3>1, <3>2
  <2>4. resource = s.resource /\ Held(s)
    BY <1>8, <2>1, <2>3 DEF Prospect
  <2>5. Ongoing(d, s, rest) /\ Prospect(s, rest)
    BY <1>1, <2>2, <2>4 DEF Ongoing, Prospect, NoReply
  <2> QED
    BY <1>1, <1>2, <1>5, <2>4, <2>5 DEF Linked
<1> QED
  BY <1>6, <1>7, <1>8 DEF Hands

\* A model that is not closing asks for no close.
LEMMA AsksForNoClose ==
  ASSUME NEW requests, IsSequence(requests), NoClose(requests), NEW c, NEW d, Utters(c, d),
         ~d.closing, NEW asked, asked = requests \o d.sent
  PROVE  NoClose(asked)
<1>1. IsSequence(asked) /\ Elements(asked) = Elements(requests) \cup Elements(d.sent)
  BY ElementsOfConcat DEF Utters
<1>2. \A message \in Elements(requests) : message.type # "close"
  BY DEF NoClose, Elements
<1>3. \A message \in Elements(d.sent) : message.type # "close"
  BY DEF Utters, May
<1>4. \A i \in DOMAIN asked : asked[i] \in Elements(asked)
  BY DEF Elements
<1> QED
  BY <1>1, <1>2, <1>3, <1>4 DEF NoClose

\* What holds of a service that hears holds of one that is deaf.
LEMMA DeafIsLinkedLess ==
  ASSUME NEW c, NEW s, NEW requests, NEW messages, NEW b, NEW d, ~b, OInv(c, s, requests, messages, b)
  PROVE  OInv(c, s, requests, messages, d)
  BY DEF OInv

\* The invariant, where it is to hold
Once == Regular => OInv(client, server, toServer, toClient, deaf)

\* A handler changes nothing of the session.
LEMMA TurnIsRegular ==
  ASSUME NEW d, IsClient(d), Becomes(d), Session(d) = Session(client), server' = server, Regular'
  PROVE  Regular
<1>1. Rests(d, client')
  BY BecomesMakes
<1>2. (client'.keeps <=> d.keeps) /\ (d.keeps <=> client.keeps)
  BY <1>1, FrameMeans DEF Rests, Session
<1> QED
  BY <1>2 DEF Regular

\* A client that has moved keeps edits operations once.
LEMMA MovedOnce ==
  ASSUME TInv, Regular, Once, IsClient(client'), server' = server,
         toClient' = toClient \/ (toClient # <<>> /\ toClient' = Tail(toClient)),
         NEW resource, Moves(client, client', resource, server.log),
         Fresh(toServer', client.cc.lastSequenceNumber, server.log),
         client'.open /\ ~client'.closing /\ ~deaf =>
           /\ Hands(client, client', resource, toClient, toClient')
           /\ NoClose(toServer) => NoClose(toServer')
  PROVE  OInv(client', server', toServer', toClient', deaf)
<1>1. IsSequence(toClient) /\ IsServer(server) /\ IsClient(client)
  BY DEF TInv, Wired, IsSettled, Fit, Poised, Gone
<1>2. OInv(client, server, toServer, toClient, deaf)
  BY DEF Once
<1>3. IsOf(toClient', toClient)
  BY <1>1, TailIsOf, EachIsOfItself
<1>4. Tells(toClient', server.log)
  BY <1>2, <1>3 DEF OInv, Tells, IsOf
<1>5. client'.cc.lastSequenceNumber = client.cc.lastSequenceNumber
  BY DEF Moves
<1>6. ASSUME client'.open
      PROVE  /\ Sees(client', server.log)
             /\ CatchesUp(client') => ReplyIsAfterOwn(toClient', server.log)
             /\ ~client'.closing /\ ~deaf => Linked(client', server, toServer', toClient')
  <2>1. /\ client.open /\ Sees(client', server.log) /\ (CatchesUp(client') => CatchesUp(client))
        /\ (client.closing => client'.closing)
    BY <1>6 DEF Moves
  <2>2. ASSUME CatchesUp(client') PROVE ReplyIsAfterOwn(toClient', server.log)
    BY <1>2, <1>3, <2>1, <2>2 DEF OInv, ReplyIsAfterOwn, IsOf
  <2>3. ASSUME ~client'.closing, ~deaf
        PROVE  Linked(client', server, toServer', toClient')
    <3>1. Linked(client, server, toServer, toClient) /\ Tells(toClient, server.log)
      BY <1>2, <2>1, <2>3 DEF OInv
    <3>2. NoClose(toServer') /\ Hands(client, client', resource, toClient, toClient')
      BY <1>6, <2>3, <3>1 DEF Linked
    <3> QED
      BY <1>1, <1>6, <2>3, <3>1, <3>2, MovesLinks
  <2> QED
    BY <2>1, <2>2, <2>3
<1> QED
  BY <1>2, <1>4, <1>5, <1>6 DEF OInv

\* A handler that moves the model keeps edits operations once.
LEMMA TurnOnce ==
  ASSUME TInv, Regular, Once, NEW d, IsClient(d), Utters(client, d), Becomes(d), server' = server,
         toClient' = toClient \/ (toClient # <<>> /\ toClient' = Tail(toClient)),
         NEW resource, Moves(client, d, resource, server.log),
         d.open /\ ~d.closing /\ ~deaf => Hands(client, d, resource, toClient, toClient')
  PROVE  OInv(client', server', toServer', toClient', deaf)
<1>1. IsSequence(toServer) /\ IsSequence(server.log) /\ IsClient(client)
  BY DEF TInv, Wired, IsServer, IsSettled, Fit, Poised, Gone
<1>2. OInv(client, server, toServer, toClient, deaf)
  BY DEF Once
<1>3. Rests(d, client') /\ client'.sent = <<>> /\ toServer' = toServer \o d.sent
  BY BecomesMakes
<1>4. d.cc.lastSequenceNumber = client.cc.lastSequenceNumber
  BY DEF Moves
<1>5. Fresh(toServer', client.cc.lastSequenceNumber, server.log)
  <2>1. CASE Mute(d.sent)
    BY <1>1, <1>2, <1>3, <2>1, FreshConcat DEF OInv, Utters
  <2>2. CASE CatchesUp(client) /\ Fresh(d.sent, d.cc.lastSequenceNumber, server.log)
    <3>1. Mute(toServer)
      BY <2>2 DEF Mute, TInv, Wired, Elements
    <3> QED
      BY <1>1, <1>3, <1>4, <2>2, <3>1, FreshConcat DEF Utters
  <2> QED
    BY <2>1, <2>2 DEF Moves
<1>6. Mute(client'.sent) /\ IsClient(client') /\ (client'.open <=> d.open)
  BY <1>3, NothingIsMute DEF Rests
<1>7. Moves(client, client', resource, server.log)
  <2>1. CASE d.open
    <3>1. d.resource = resource /\ Sees(d, server.log)
      BY <2>1 DEF Moves
    <3>2. Moves(d, client', d.resource, server.log)
      BY <1>1, <1>3, <1>6, <3>1, FrameMoves DEF Rests
    <3> QED
      BY <1>1, <1>6, <3>1, <3>2, MovesIsTransitive
  <2>2. CASE ~d.open
    <3>1. Session(client') = Session(d) /\ client'.cc = d.cc
      BY <1>3, FrameHoldsSession DEF Rests
    <3> QED
      BY <1>6, <2>2, <3>1 DEF Moves
  <2> QED
    BY <2>1, <2>2
<1>8. ASSUME client'.open, ~client'.closing, ~deaf
      PROVE  /\ Hands(client, client', resource, toClient, toClient')
             /\ NoClose(toServer) => NoClose(toServer')
  <2>1. d.open /\ ~d.closing /\ (client'.resync <=> d.resync)
    BY <1>3, <1>8, FrameMeans DEF Rests
  <2>2. Hands(client, client', resource, toClient, toClient')
    BY <1>8, <2>1 DEF Hands
  <2>3. NoClose(toServer) => NoClose(toServer')
    BY <1>1, <1>3, <2>1, AsksForNoClose
  <2> QED
    BY <2>2, <2>3
<1> QED
  BY <1>5, <1>6, <1>7, <1>8, MovedOnce

\* What is said moves the model nowhere.
LEMMA SpeaksMoves ==
  ASSUME NEW c, IsClient(c), NEW log, IsSequence(log), Sees(c, log), NEW t, Speaks(c, t),
         t.sent = <<>>
  PROVE  /\ Moves(c, t, c.resource, log) /\ t.resource = c.resource
         /\ (CatchesUp(t) <=> CatchesUp(c)) /\ (t.open <=> c.open)
         /\ (t.open => Sees(t, log))
<1>1. Mute(t.sent)
  BY NothingIsMute
<1>2. Moves(c, t, c.resource, log) /\ t.resource = c.resource
  BY <1>1, FrameMoves DEF Speaks
<1>3. (CatchesUp(t) <=> CatchesUp(c)) /\ (t.open <=> c.open)
  BY FrameMeans DEF Speaks, CatchesUp
<1> QED
  BY <1>2, <1>3 DEF Moves

\* One message more, if it is no operation, leaves all fresh, and no close if it is none.
LEMMA FreshAndOther ==
  ASSUME NEW q, IsSequence(q), NEW message, message.type # "op", NEW r, r = Sent(q, message),
         NEW n, NEW log, Fresh(q, n, log)
  PROVE  Fresh(r, n, log) /\ (NoClose(q) /\ message.type # "close" => NoClose(r))
<1>1. /\ DOMAIN q = 1 .. Len(q) /\ Len(q) \in Nat /\ DOMAIN r = 1 .. Len(q) + 1
      /\ r[Len(q) + 1] = message
      /\ \A i \in DOMAIN q : r[i] = q[i]
      /\ \A i \in DOMAIN r : i \in DOMAIN q \/ i = Len(q) + 1
  BY LogGrows
<1>2. Fresh(r, n, log)
  BY <1>1 DEF Fresh
<1>3. NoClose(q) /\ message.type # "close" => NoClose(r)
  BY <1>1 DEF NoClose
<1> QED
  BY <1>2, <1>3

\* An edit keeps edits operations once: its number is new.
LEMMA EditOnce ==
  ASSUME TInv, Once, Edit
  PROVE  Once'
<1>1. /\ client.open /\ client.sent = <<>> /\ IsClient(client) /\ Poised(client) /\ Awaits(client)
      /\ IsSequence(toServer) /\ IsServer(server) /\ IsSequence(server.log)
  BY DEF Edit, TInv, IsSettled, Fit, Gone, Poised, Wired, IsServer
<1>2. PICK d : d = Issued([client EXCEPT
                     !.cc = CC!ProcessOutgoingOperation(client.cc, client.session, "edit")])
  OBVIOUS
<1>3. EditMakes(client, d)
  BY <1>1, <1>2, EditDoes
<1>4. Becomes(d) /\ server' = server /\ toClient' = toClient
  BY <1>2 DEF Edit
<1>5. Utters(client, d) /\ IsClient(d)
  BY <1>1, <1>3, EditUtters DEF EditMakes
<1>6. SUFFICES ASSUME Regular' PROVE OInv(client', server', toServer', toClient', deaf)
  BY DEF Once, Edit
<1>7. OInv(client, server, toServer, toClient, deaf)
  BY <1>4, <1>5, <1>6, TurnIsRegular DEF Once, Utters
<1>8. /\ d.open /\ d.resource = client.resource
      /\ (d.closing <=> client.closing) /\ (d.resync <=> client.resync)
      /\ (CatchesUp(d) <=> CatchesUp(client))
      /\ d.cc.lastSequenceNumber = client.cc.lastSequenceNumber + 1
      /\ d.cc.contextVersion = client.cc.contextVersion
      /\ Sees(d, server.log) /\ EditSays(client, d)
  BY <1>1, <1>3, <1>7, EditSees DEF OInv
<1>9. Rests(d, client') /\ client'.sent = <<>> /\ toServer' = toServer \o d.sent
  BY <1>4, <1>5, BecomesMakes
<1>10. Mute(client'.sent) /\ IsClient(client')
  BY <1>9, NothingIsMute DEF Rests
<1>11. Moves(d, client', d.resource, server.log)
  BY <1>1, <1>5, <1>8, <1>9, <1>10, FrameMoves DEF Rests
<1>12. /\ client'.open /\ Sees(client', server.log) /\ client'.resource = client.resource
       /\ (client'.closing <=> client.closing) /\ (client'.resync <=> client.resync)
       /\ (CatchesUp(client') <=> CatchesUp(client)) /\ client'.cc = d.cc
  BY <1>8, <1>9, <1>11, FrameMeans DEF Moves, Rests, CatchesUp
<1>13. PICK n \in Nat : n = client.cc.lastSequenceNumber /\ client'.cc.lastSequenceNumber = n + 1
  BY <1>1, <1>8, <1>12 DEF IsClient, IsConcurrencyControl
<1>14. Fresh(toServer', n + 1, server.log)
  <2>1. Fresh(toServer, n, server.log) /\ \A j \in DOMAIN server.log : server.log[j].edit \in 0 .. n
    BY <1>1, <1>7, <1>13 DEF OInv, Sees, OwnBearsSession
  <2>2. CASE d.sent = <<>>
    <3>1. Mute(d.sent)
      BY <2>2, NothingIsMute
    <3>2. Fresh(toServer', n, server.log)
      BY <1>1, <1>5, <1>9, <2>1, <3>1, FreshConcat DEF Utters
    <3>3. n + 1 \in Nat /\ n <= n + 1
      OBVIOUS
    <3> QED
      BY <3>2, <3>3, FreshOfMore
  <2>3. ASSUME NEW message, d.sent = Sent(<<>>, message), message.type = "op",
               message.number = d.cc.lastSequenceNumber
        PROVE  Fresh(toServer', n + 1, server.log)
    <3>1. message.number = n + 1
      BY <1>8, <1>13, <2>3
    <3> QED
      BY <1>1, <1>9, <2>1, <2>3, <3>1, NextIsFresh
  <2> QED
    BY <1>8, <2>2, <2>3 DEF EditSays
<1>15. ASSUME ~client'.closing, ~deaf PROVE Linked(client', server', toServer', toClient')
  <2>1. Linked(client, server, toServer, toClient)
    BY <1>1, <1>7, <1>12, <1>15 DEF OInv
  <2>2. NoClose(toServer')
    BY <1>1, <1>5, <1>8, <1>9, <1>12, <1>15, <2>1, AsksForNoClose DEF Linked
  <2> QED
    BY <1>4, <1>8, <1>12, <2>1, <2>2 DEF Linked, Ongoing, OwnHasPassed
<1> QED
  BY <1>1, <1>4, <1>7, <1>12, <1>13, <1>14, <1>15 DEF OInv

\* Closing keeps edits operations once.
LEMMA CloseModelOnce ==
  ASSUME TInv, Once, CloseModel
  PROVE  Once'
<1>1. PICK d : /\ Becomes(d) /\ Fit(d) /\ Utters(client, d)
               /\ ClosesLater(client, d) \/ Asks(client, d) \/ GoneTo(client, d)
  BY CloseModelDoes
<1>2. client.open /\ server' = server /\ toClient' = toClient
  BY DEF CloseModel
<1>3. client.sent = <<>> /\ IsClient(client) /\ IsSequence(server.log) /\ IsClient(d)
  BY <1>1 DEF TInv, IsSettled, Fit, Gone, Poised, Wired, IsServer
<1>4. SUFFICES ASSUME Regular' PROVE OInv(client', server', toServer', toClient', deaf)
  BY DEF Once, CloseModel
<1>5. Regular
  BY <1>1, <1>2, <1>3, <1>4, TurnIsRegular DEF Utters
<1>6. Sees(client, server.log)
  BY <1>2, <1>5 DEF Once, OInv
<1>7. Moves(client, d, client.resource, server.log)
  BY <1>1, <1>2, <1>3, <1>6, ClosesLaterMoves, AsksMoves, GoneMoves
<1>8. Hands(client, d, client.resource, toClient, toClient')
  BY <1>2 DEF Hands
<1> QED
  BY <1>1, <1>2, <1>3, <1>5, <1>7, <1>8, TurnOnce

\* What there is of the channels and the server
LEMMA WiredMeans ==
  ASSUME TInv
  PROVE  /\ IsSequence(toServer) /\ IsSequence(toClient) /\ IsServer(server)
         /\ IsSequence(server.log) /\ server.resource \in Nat
         /\ IsClient(client) /\ client.sent = <<>> /\ client.cc.lastSequenceNumber \in Nat
<1>1. IsClient(client)
  BY DEF TInv, IsSettled, Fit, Poised, Gone
<1>2. client.cc.lastSequenceNumber \in Nat
  BY <1>1 DEF IsClient, IsConcurrencyControl
<1> QED
  BY <1>1, <1>2 DEF TInv, IsSettled, Wired, IsServer

\* Nothing is among no messages.
LEMMA NoneAmongNone ==
  ASSUME NEW q, q = <<>>
  PROVE  \A i \in DOMAIN q : FALSE
  BY EmptyIsSequence, SequenceIsFunction

\* The loss of the connection keeps edits operations once.
LEMMA DropOnce ==
  ASSUME TInv, Once, Drop
  PROVE  Once'
<1>1. /\ IsServer(server) /\ IsSequence(server.log) /\ server.resource \in Nat /\ IsClient(client)
      /\ client.open
  BY WiredMeans DEF Drop
<1>2. Drops(client, client')
  BY <1>1, DroppedMakes DEF Drop
<1>3. toServer' = <<>> /\ toClient' = <<>> /\ server' = [server EXCEPT !.phase = "absent"]
  BY DEF Drop
<1>4. PICK phase : phase = "absent"
  OBVIOUS
<1>5. ChangesPhase(phase)
  BY <1>1, <1>3, <1>4, PhaseChanges
<1>6. /\ server'.log = server.log /\ server'.resource = server.resource
      /\ (server'.reopened <=> server.reopened)
  BY <1>5 DEF ChangesPhase
<1>7. (client'.keeps <=> client.keeps) /\ client'.cc = client.cc
  BY <1>2 DEF Drops
<1>8. SUFFICES ASSUME Regular' PROVE OInv(client', server', toServer', toClient', deaf)
  BY DEF Once, Drop
<1>9. OInv(client, server, toServer, toClient, deaf)
  BY <1>6, <1>7, <1>8 DEF Once, Regular
<1>10. (\A i \in DOMAIN toServer' : FALSE) /\ (\A i \in DOMAIN toClient' : FALSE)
  BY <1>3, NoneAmongNone
<1>11. OncePer(server'.log) /\ Fresh(toServer', client'.cc.lastSequenceNumber, server'.log)
       /\ Tells(toClient', server'.log)
  BY <1>6, <1>9, <1>10 DEF OInv, Fresh, Tells
<1>12. ASSUME client'.open
       PROVE  /\ Sees(client', server'.log) /\ ~CatchesUp(client')
              /\ Linked(client', server', toServer', toClient')
  <2>1. /\ Sees(client', server.log) /\ ~CatchesUp(client') /\ ~client'.resync
        /\ client'.resource = 0
    BY <1>1, <1>2, <1>9, <1>12, DropsSees DEF OInv
  <2>2. client'.resource <= server'.resource
    BY <1>1, <1>6, <2>1
  <2>3. Linked(client', server', toServer', toClient')
    BY <1>10, <2>1, <2>2 DEF Linked, Prospect, OneReply, OwnHasPassed, NoClose
  <2> QED
    BY <1>6, <2>1, <2>3
<1> QED
  BY <1>11, <1>12 DEF OInv

\* A new connection keeps edits operations once.
LEMMA ReconnectOnce ==
  ASSUME TInv, Once, Reconnect
  PROVE  Once'
<1>1. /\ client.open /\ ~client.up /\ Poised(client) /\ client.sent = <<>>
      /\ toServer = <<>> /\ toClient = <<>> /\ server' = server /\ toClient' = <<>>
      /\ IsSequence(toServer')
      /\ \A message \in Elements(toServer') : message.type = "resync"
  BY ReconnectDoes
<1>2. PICK d : Becomes(d) /\ Reconnects(client, d) /\ IsClient(d)
  BY ReconnectDoes
<1>3. Rests(d, client') /\ client'.sent = <<>>
  BY <1>2, BecomesMakes
<1>4. (client'.keeps <=> d.keeps) /\ (d.keeps <=> client.keeps)
  BY <1>2, <1>3, FrameMeans DEF Rests, Reconnects
<1>5. SUFFICES ASSUME Regular' PROVE OInv(client', server', toServer', toClient', deaf)
  BY DEF Once, Reconnect
<1>6. OInv(client, server, toServer, toClient, deaf) /\ client.keeps
  BY <1>1, <1>4, <1>5 DEF Once, Regular
<1>7. IsSequence(server.log) /\ server.resource \in Nat
  BY WiredMeans
<1>8. /\ Sees(d, server.log) /\ d.open /\ CatchesUp(d) /\ ~d.closing /\ d.resource = 0
      /\ d.cc.lastSequenceNumber = client.cc.lastSequenceNumber
  BY <1>1, <1>2, <1>6, <1>7, ReconnectsSees DEF OInv
<1>9. Mute(client'.sent)
  BY <1>3, NothingIsMute
<1>10. Moves(d, client', d.resource, server.log)
  BY <1>2, <1>3, <1>7, <1>8, <1>9, FrameMoves DEF Rests
<1>11. client'.open /\ client'.resource = 0 /\ client'.cc = d.cc /\ CatchesUp(client')
  BY <1>3, <1>8, FrameMeans DEF Rests, CatchesUp
<1>12. Sees(client', server.log)
  BY <1>10, <1>11 DEF Moves
<1>13. \A i \in DOMAIN toServer' : toServer'[i].type = "resync"
  BY <1>1 DEF Elements
<1>14. \A i \in DOMAIN toClient' : FALSE
  BY <1>1, NoneAmongNone
<1>15. Fresh(toServer', client'.cc.lastSequenceNumber, server.log) /\ NoClose(toServer')
  BY <1>13 DEF Fresh, NoClose
<1>16. Linked(client', server, toServer', toClient')
  <2>1. client'.resource <= server.resource
    BY <1>7, <1>11
  <2> QED
    BY <1>11, <1>14, <1>15, <2>1 DEF Linked, Prospect, OneReply, OwnHasPassed
<1>17. Tells(toClient', server.log) /\ ReplyIsAfterOwn(toClient', server.log)
  BY <1>14 DEF Tells, ReplyIsAfterOwn
<1> QED
  BY <1>1, <1>6, <1>12, <1>15, <1>16, <1>17 DEF OInv

\* What was read from the store keeps edits operations once.
LEMMA ReadOnce ==
  ASSUME TInv, Once, NEW task, Read(task), server' = server, toClient' = toClient, deaf' = deaf
  PROVE  Once'
<1>1. /\ Speaks(client, client') /\ client'.sent = <<>> /\ IsClient(client')
  BY ReadDoes DEF Speaks
<1>2. PICK request : /\ request.type = "create"
                     /\ toServer' = IF client.up THEN Sent(toServer, request) ELSE toServer
  BY ReadDoes
<1>3. SUFFICES ASSUME Regular' PROVE OInv(client', server', toServer', toClient', deaf)
  BY DEF Once
<1>4. client'.keeps <=> client.keeps
  BY <1>1, FrameMeans DEF Speaks
<1>5. Regular
  BY <1>3, <1>4 DEF Regular
<1>6. OInv(client, server, toServer, toClient, deaf)
  BY <1>5 DEF Once
<1>7. IsSequence(toServer) /\ IsSequence(server.log) /\ IsClient(client)
  BY WiredMeans
<1>8. /\ Fresh(toServer', client.cc.lastSequenceNumber, server.log)
      /\ NoClose(toServer) => NoClose(toServer')
  <2>1. CASE client.up
    BY <1>2, <1>6, <1>7, <2>1, FreshAndOther DEF OInv
  <2>2. CASE ~client.up
    BY <1>2, <1>6, <2>2 DEF OInv
  <2> QED
    BY <2>1, <2>2
<1>9. Moves(client, client', client.resource, server.log)
  <2>1. CASE client.open
    BY <1>1, <1>6, <1>7, <2>1, SpeaksMoves DEF OInv
  <2>2. CASE ~client.open
    <3>1. Mute(client'.sent) /\ Session(client') = Session(client) /\ client'.cc = client.cc
          /\ ~client'.open
      BY <1>1, <2>2, NothingIsMute, FrameHoldsSession DEF Speaks
    <3> QED
      BY <3>1 DEF Moves
  <2> QED
    BY <2>1, <2>2
<1>10. Hands(client, client', client.resource, toClient, toClient')
  BY DEF Hands
<1> QED
  BY <1>1, <1>5, <1>8, <1>9, <1>10, MovedOnce

\* A client without the task that is done has moved nowhere, and by what it leads to no further.
LEMMA EndedMoves ==
  ASSUME TInv, Regular, Once, NEW task, NEW t, t = Ends(task), NEW d, IsClient(d),
         NEW resource,
         \/ GoneTo(t, d) /\ resource = client.resource
         \/ t.open /\ Moves(t, d, resource, server.log)
  PROVE  Moves(client, d, resource, server.log)
<1>1. /\ Speaks(client, t) /\ IsClient(t) /\ (t.open <=> client.open) /\ t.sent = <<>>
      /\ Session(t) = Session(client)
  BY EndedIsFit
<1>2. IsSequence(server.log) /\ IsClient(client)
  BY WiredMeans
<1>3. CASE GoneTo(t, d) /\ resource = client.resource
  <2>1. Mute(d.sent) /\ Session(d) = Session(client) /\ ~d.open
        /\ d.cc.lastSequenceNumber = client.cc.lastSequenceNumber
    BY <1>1, <1>3, NothingIsMute DEF GoneTo, Gone, Speaks
  <2> QED
    BY <2>1 DEF Moves
<1>4. CASE t.open /\ Moves(t, d, resource, server.log)
  <2>1. Sees(client, server.log)
    BY <1>1, <1>4 DEF Once, OInv
  <2>2. Moves(client, t, client.resource, server.log)
    BY <1>1, <1>2, <2>1, SpeaksMoves
  <2> QED
    BY <1>1, <1>2, <1>4, <2>2, MovesIsTransitive
<1> QED
  BY <1>3, <1>4

\* The continuations keep edits operations once.
LEMMA TaskProceedsOnce ==
  ASSUME TInv, Once, TaskProceeds
  PROVE  Once'
<1>1. PICK task \in client.tasks : Read(task) \/ Stored(task) \/ TimesOut(task)
  BY DEF TaskProceeds
<1>2. toClient' = toClient /\ server' = server /\ deaf' = deaf
  BY DEF TaskProceeds
<1>3. CASE Read(task)
  BY <1>2, <1>3, ReadOnce
<1>4. CASE Stored(task) \/ TimesOut(task)
  <2>1. PICK t, d :
          /\ t = Ends(task) /\ Becomes(d) /\ Fit(d) /\ Utters(client, d)
          /\ \/ GoneTo(t, d)
             \/ t.open /\ (Resumes(t, task.since, d) \/ LosesEntry(t, d))
    BY <1>4, ContinuationDoes
  <2>2. SUFFICES ASSUME Regular' PROVE OInv(client', server', toServer', toClient', deaf)
    BY DEF Once, TaskProceeds
  <2>3. IsClient(d) /\ IsSequence(server.log)
    BY <2>1, WiredMeans DEF Fit, Poised, Gone
  <2>4. Regular
    BY <1>2, <2>1, <2>2, <2>3, TurnIsRegular DEF Utters
  <2>5. /\ IsClient(t) /\ t.sent = <<>> /\ (t.open <=> client.open) /\ Speaks(client, t)
    BY <2>1, EndedIsFit
  <2>6. Moves(client, d, client.resource, server.log)
    <3>1. CASE GoneTo(t, d)
      BY <2>1, <2>3, <2>4, <3>1, EndedMoves
    <3>2. CASE t.open /\ (Resumes(t, task.since, d) \/ LosesEntry(t, d))
      <4>1. IsClient(client) /\ Sees(client, server.log)
        BY <2>4, <2>5, <3>2, WiredMeans DEF Once, OInv
      <4>2. Sees(t, server.log) /\ t.resource = client.resource
        BY <2>3, <2>5, <3>2, <4>1, SpeaksMoves
      <4>3. LosesEntry(t, d) => Steady(t, d) /\ Mute(d.sent)
        BY <2>5, NothingIsMute DEF LosesEntry
      <4>4. Moves(t, d, t.resource, server.log)
        BY <2>3, <2>5, <3>2, <4>2, <4>3, ResumesMoves, SteadyMoves
      <4> QED
        BY <2>1, <2>3, <2>4, <3>2, <4>2, <4>4, EndedMoves
    <3> QED
      BY <2>1, <3>1, <3>2
  <2>7. Hands(client, d, client.resource, toClient, toClient')
    BY <1>2 DEF Hands
  <2> QED
    BY <1>2, <2>1, <2>3, <2>4, <2>6, <2>7, TurnOnce
<1> QED
  BY <1>1, <1>3, <1>4

\* The rest of the requests is as fresh as they were, and asks for no close if they did not.
LEMMA RestOfRequests ==
  ASSUME TInv, OInv(client, server, toServer, toClient, deaf), toServer # <<>>, toServer' = Tail(toServer)
  PROVE  /\ Fresh(toServer', client.cc.lastSequenceNumber, server.log)
         /\ NoClose(toServer) => NoClose(toServer') /\ Head(toServer).type # "close"
         /\ Head(toServer).type = "op" =>
              /\ Head(toServer).number \in 1 .. client.cc.lastSequenceNumber
              /\ \A j \in DOMAIN server.log : server.log[j].edit # Head(toServer).number
<1>1. IsSequence(toServer) /\ Fresh(toServer, client.cc.lastSequenceNumber, server.log)
  BY WiredMeans DEF OInv
<1>2. Len(toServer) >= 1 /\ Head(toServer) = toServer[1]
  BY <1>1, TailOfSequence
<1>3. 1 \in DOMAIN toServer
  <2>1. PICK k \in Nat : k = Len(toServer) /\ DOMAIN toServer = 1 .. k
    BY <1>1, SequenceIsFunction
  <2> QED
    BY <1>2, <2>1
<1>4. IsOf(toServer', toServer)
  BY <1>1, TailIsOf
<1>5. NoClose(toServer) => NoClose(toServer') /\ Head(toServer).type # "close"
  BY <1>2, <1>3, <1>4 DEF NoClose, IsOf
<1>6. Fresh(toServer', client.cc.lastSequenceNumber, server.log)
  BY <1>1, FreshTail
<1> QED
  BY <1>1, <1>2, <1>3, <1>5, <1>6 DEF Fresh

\* One message more, that is no reply to a resynchronisation and no own operation
LEMMA SaidMore ==
  ASSUME NEW messages, NEW more, NEW message, IsOfOr(more, messages, message),
         NEW log, Tells(messages, log), TellsOf(message, log), ~IsReplyToResync(message),
         message.type = "remote" => log[message.version].edit = 0, NEW c
  PROVE  /\ Tells(more, log)
         /\ ReplyIsAfterOwn(messages, log) => ReplyIsAfterOwn(more, log)
         /\ OwnHasPassed(c, messages, log) => OwnHasPassed(c, more, log)
<1>1. Tells(more, log)
  BY DEF IsOfOr, Tells
<1>2. ReplyIsAfterOwn(messages, log) => ReplyIsAfterOwn(more, log)
  BY DEF IsOfOr, ReplyIsAfterOwn
<1>3. OwnHasPassed(c, messages, log) => OwnHasPassed(c, more, log)
  BY DEF IsOfOr, OwnHasPassed
<1> QED
  BY <1>1, <1>2, <1>3

\* One message more leaves a model linked to the server that holds what it held.
LEMMA SlippedLinks ==
  ASSUME NEW c, NEW s, NEW t, t.resource = s.resource, Held(s) => Held(t),
         NEW requests, NEW messages, Linked(c, s, requests, messages),
         NEW message, ~IsReplyToResync(message), NEW more, NEW n, Slips(messages, more, n, message),
         IsOfOr(more, messages, message),
         ~CatchesUp(c) => OwnHasPassed(c, more, t.log), NEW asked, NoClose(asked)
  PROVE  Linked(c, t, asked, more)
<1>1. NoReply(messages) => NoReply(more)
  BY DEF NoReply, IsOfOr
<1>2. ASSUME c.resync, c.resource # 0 PROVE Ongoing(c, t, more)
  <2>1. Ongoing(c, s, messages)
    BY <1>2 DEF Linked
  <2>2. Concludes(messages, c.resource) => Concludes(more, c.resource)
    BY SlippedConcludes
  <2> QED
    BY <1>1, <2>1, <2>2 DEF Ongoing
<1>3. ASSUME c.resource = 0 PROVE Prospect(t, more)
  <2>1. Prospect(s, messages)
    BY <1>3 DEF Linked
  <2>2. OneReply(more)
    BY <2>1, SlippedIsOneReply DEF Prospect
  <2> QED
    BY <2>1, <2>2 DEF Prospect, IsOfOr
<1>4. c.resource <= t.resource
  BY DEF Linked
<1> QED
  BY <1>2, <1>3, <1>4 DEF Linked

\* What the server says, that has to do neither with the history nor with an answer to be
\* awaited, keeps edits operations once.
LEMMA SaidOnce ==
  ASSUME TInv, OInv(client, server, toServer, toClient, deaf), client' = client,
         server'.log = server.log, server'.resource = server.resource, Held(server) => Held(server'),
         NEW message, ~IsReplyToResync(message), message.type \notin {"remote", "ack"},
         toClient' = Sent(toClient, message),
         Fresh(toServer', client.cc.lastSequenceNumber, server.log),
         NoClose(toServer) => NoClose(toServer')
  PROVE  OInv(client', server', toServer', toClient', deaf)
<1>1. PICK n : Slips(toClient, toClient', n, message) /\ IsOfOr(toClient', toClient, message)
  BY WiredMeans, SentSlips
<1>2. TellsOf(message, server.log) /\ Tells(toClient, server.log)
  BY DEF TellsOf, OInv
<1>3. /\ Tells(toClient', server.log)
      /\ ReplyIsAfterOwn(toClient, server.log) => ReplyIsAfterOwn(toClient', server.log)
      /\ OwnHasPassed(client, toClient, server.log) => OwnHasPassed(client, toClient', server.log)
  BY <1>1, <1>2, SaidMore
<1>4. ASSUME client.open, ~client.closing, ~deaf
      PROVE  Linked(client, server', toServer', toClient')
  <2>1. Linked(client, server, toServer, toClient)
    BY <1>4 DEF OInv
  <2>2. NoClose(toServer') /\ (~CatchesUp(client) => OwnHasPassed(client, toClient', server'.log))
    BY <1>3, <2>1 DEF Linked
  <2> QED
    BY <1>1, <2>1, <2>2, SlippedLinks
<1> QED
  BY <1>3, <1>4 DEF OInv

\* What the server disregards keeps edits operations once.
LEMMA UnsaidOnce ==
  ASSUME TInv, OInv(client, server, toServer, toClient, deaf), client' = client, server' = server,
         toClient' = toClient, toServer # <<>>, toServer' = Tail(toServer)
  PROVE  OInv(client', server', toServer', toClient', deaf)
<1>1. /\ Fresh(toServer', client.cc.lastSequenceNumber, server.log)
      /\ NoClose(toServer) => NoClose(toServer')
  BY RestOfRequests
<1> QED
  BY <1>1 DEF OInv, Linked, Ongoing

\* A refused request keeps edits operations once.
LEMMA ServerRefusesOnce ==
  ASSUME TInv, Once, ServerRefuses
  PROVE  Once'
<1>1. /\ toServer # <<>> /\ toServer' = Tail(toServer) /\ client' = client /\ server' = server
  BY DEF ServerRefuses
<1>2. PICK message : message = Head(toServer)
  OBVIOUS
<1>3. PICK answer : answer = Answer(message, "refusal", 0, 0)
  OBVIOUS
<1>4. toClient' = Sent(toClient, answer)
  BY <1>2, <1>3 DEF ServerRefuses, Sent
<1>5. ~IsReplyToResync(answer) /\ answer.type \notin {"remote", "ack"}
  BY <1>3, AnswerMeans DEF IsReplyToResync
<1>6. SUFFICES ASSUME Regular' PROVE OInv(client', server', toServer', toClient', deaf)
  BY DEF Once, ServerRefuses
<1>7. OInv(client, server, toServer, toClient, deaf)
  BY <1>1, <1>6 DEF Once, Regular
<1>8. /\ Fresh(toServer', client.cc.lastSequenceNumber, server.log)
      /\ NoClose(toServer) => NoClose(toServer')
  BY <1>1, <1>7, RestOfRequests
<1> QED
  BY <1>1, <1>4, <1>5, <1>7, <1>8, SaidOnce

\* The server's closing by force keeps edits operations once.
LEMMA ForceCloseOnce ==
  ASSUME TInv, Once, ForceClose
  PROVE  Once'
<1>1. client' = client /\ toServer' = toServer /\ IsServer(server)
  BY WiredMeans DEF ForceClose
<1>2. PICK message : message = [type |-> "forceClose", resource |-> server.resource]
  OBVIOUS
<1>3. toClient' = Sent(toClient, message)
  BY <1>2 DEF ForceClose, Sent
<1>4. PICK phase : phase = "closed"
  OBVIOUS
<1>5. server' = [server EXCEPT !.phase = phase]
  BY <1>4 DEF ForceClose
<1>6. ChangesPhase(phase)
  BY <1>1, <1>4, <1>5, PhaseChanges
<1>7. /\ server'.log = server.log /\ server'.resource = server.resource /\ Held(server')
      /\ (server'.reopened <=> server.reopened)
  BY <1>4, <1>6 DEF ChangesPhase, Held
<1>8. ~IsReplyToResync(message) /\ message.type \notin {"remote", "ack"}
  BY <1>2 DEF IsReplyToResync
<1>9. SUFFICES ASSUME Regular' PROVE OInv(client', server', toServer', toClient', deaf)
  BY DEF Once, ForceClose
<1>10. OInv(client, server, toServer, toClient, deaf)
  BY <1>1, <1>7, <1>9 DEF Once, Regular
<1>11. Fresh(toServer', client.cc.lastSequenceNumber, server.log)
  BY <1>1, <1>10 DEF OInv
<1> QED
  BY <1>1, <1>3, <1>7, <1>8, <1>10, <1>11, SaidOnce

\* An edit of another keeps edits operations once.
LEMMA OtherEditsOnce ==
  ASSUME TInv, Once, OtherEdits
  PROVE  Once'
<1>1. /\ client' = client /\ toServer' = toServer /\ IsServer(server) /\ IsSequence(server.log)
      /\ IsSequence(toClient) /\ IsClient(client) /\ client.cc.lastSequenceNumber \in Nat
  BY WiredMeans DEF OtherEdits
<1>2. PICK entry, remote :
        /\ entry.edit = 0
        /\ remote.type = "remote" /\ remote.session = 0 /\ remote.version = Version
        /\ server'.log = Sent(server.log, entry) /\ entry.session = 0
        /\ server'.phase = server.phase /\ server'.resource = server.resource
        /\ (server'.reopened <=> server.reopened)
        /\ \/ toClient' = toClient
           \/ toClient' = Sent(toClient, remote)
           \/ \E n \in DOMAIN toClient : toClient' = Inserted(toClient, n, remote)
  BY <1>1, OtherEditDoes DEF OtherEditMakes
<1>3. SUFFICES ASSUME Regular' PROVE OInv(client', server', toServer', toClient', deaf)
  BY DEF Once, OtherEdits
<1>4. OInv(client, server, toServer, toClient, deaf)
  BY <1>1, <1>2, <1>3 DEF Once, Regular
<1>5. PICK more : more = Sent(server.log, entry) /\ server'.log = more
  BY <1>2
<1>6. OncePer(more) /\ Fresh(toServer', client.cc.lastSequenceNumber, more) /\ Tells(toClient, more)
  BY <1>1, <1>2, <1>4, <1>5, GrowsOnce, FreshOfOthers, GrowsTells DEF OInv
<1>7. client.open => Sees(client, more)
  BY <1>1, <1>2, <1>4, <1>5, GrowsSees DEF OInv
<1>8. TellsOf(remote, more) /\ ~IsReplyToResync(remote) /\ more[remote.version].edit = 0
  <2>1. Version \in DOMAIN more /\ more[Version] = entry
    <3>1. Len(server.log) + 1 \in 1 .. Len(server.log) + 1
      BY <1>1, <1>5, LogGrows
    <3> QED
      BY <1>1, <1>5, <3>1, LogGrows DEF Version
  <2> QED
    BY <1>2, <2>1 DEF TellsOf, IsReplyToResync
<1>9. ReplyIsAfterOwn(toClient, server.log) => ReplyIsAfterOwn(toClient, more)
  BY <1>1, <1>2, <1>5, GrowsAfterOwn DEF ReplyIsAfterOwn
<1>10. OwnHasPassed(client, toClient, server.log) => OwnHasPassed(client, toClient, more)
  BY <1>1, <1>4, <1>5, GrowsPassed DEF OInv
<1>11. Held(server) <=> Held(server')
  BY <1>2 DEF Held
<1>12. CASE toClient' = toClient
  <2>1. ASSUME client.open, ~client.closing, ~deaf
        PROVE  Linked(client, server', toServer', toClient')
    <3>1. Linked(client, server, toServer, toClient)
      BY <1>4, <2>1 DEF OInv
    <3> QED
      BY <1>1, <1>2, <1>5, <1>10, <1>11, <1>12, <3>1 DEF Linked, Ongoing, Prospect
  <2> QED
    BY <1>1, <1>4, <1>5, <1>6, <1>7, <1>9, <1>12, <2>1 DEF OInv
<1>13. ASSUME NEW n, Slips(toClient, toClient', n, remote), IsOfOr(toClient', toClient, remote)
       PROVE  OInv(client', server', toServer', toClient', deaf)
  <2>1. /\ Tells(toClient', more)
        /\ ReplyIsAfterOwn(toClient, more) => ReplyIsAfterOwn(toClient', more)
        /\ OwnHasPassed(client, toClient, more) => OwnHasPassed(client, toClient', more)
    BY <1>6, <1>8, <1>13, SaidMore
  <2>2. ASSUME client.open, ~client.closing, ~deaf
        PROVE  Linked(client, server', toServer', toClient')
    <3>1. Linked(client, server, toServer, toClient)
      BY <1>4, <2>2 DEF OInv
    <3>2. NoClose(toServer') /\ (~CatchesUp(client) => OwnHasPassed(client, toClient', server'.log))
      BY <1>1, <1>5, <1>10, <2>1, <3>1 DEF Linked
    <3> QED
      BY <1>2, <1>8, <1>11, <1>13, <3>1, <3>2, SlippedLinks
  <2> QED
    BY <1>1, <1>4, <1>5, <1>6, <1>7, <1>9, <2>1, <2>2 DEF OInv
<1> QED
  BY <1>1, <1>2, <1>12, <1>13, SentSlips, InsertedSlips

\* The beginning of a resynchronisation keeps edits operations once: nothing of this client
\* will be told as of others that the answer does not come after.
LEMMA StartOnce ==
  ASSUME TInv, OInv(client, server, toServer, toClient, deaf), client' = client,
         ~Held(server), NEW answer, IsReplyToResync(answer), answer.version = Version,
         answer.resource = server.resource + 1,
         NEW history, IsSequence(history), NEW from \in Nat \ {0},
         \A i \in DOMAIN history : /\ from + i - 1 \in from .. Version - 1
                                   /\ history[i] = History(from + i - 1),
         toClient' = Sent(toClient, answer) \o history,
         server'.phase = "resync", server'.resource = server.resource + 1,
         server'.log = server.log,
         Fresh(toServer', client.cc.lastSequenceNumber, server.log),
         NoClose(toServer) => NoClose(toServer')
  PROVE  OInv(client', server', toServer', toClient', deaf)
<1>1. /\ IsSequence(toClient) /\ IsSequence(server.log) /\ IsClient(client)
      /\ server.resource \in Nat
  BY WiredMeans
<1>2. PICK k \in Nat : k = Len(server.log) /\ DOMAIN server.log = 1 .. k /\ Version = k + 1
  BY <1>1, SequenceIsFunction DEF Version
<1>3. PICK first : first = Sent(toClient, answer)
  OBVIOUS
<1>4. IsSequence(first) /\ Elements(first) = Elements(toClient) \cup {answer}
  BY <1>1, <1>3, ElementsOfSent
<1>5. IsSequence(toClient') /\ Elements(toClient') = Elements(first) \cup Elements(history)
  BY <1>3, <1>4, ElementsOfConcat
<1>6. ASSUME NEW message \in Elements(history)
      PROVE  /\ message.type = "remote" /\ message.resource = server.resource + 1
             /\ TellsOf(message, server.log) /\ ~IsReplyToResync(message)
  <2>1. PICK i \in DOMAIN history : message = history[i]
    BY <1>6 DEF Elements
  <2>2. PICK n : n = from + i - 1 /\ n \in from .. k /\ message = History(n)
    <3>1. (k + 1) - 1 = k
      OBVIOUS
    <3> QED
      BY <1>2, <2>1, <3>1
  <2>3. n \in 1 .. k
    BY <2>2
  <2>4. /\ message.type = "remote" /\ message.session = server.log[n].session
        /\ message.version = n /\ message.resource = server.resource + 1
    BY <2>2, HistoryMeans
  <2> QED
    BY <1>2, <2>3, <2>4 DEF TellsOf, IsReplyToResync
<1>7. \A i \in DOMAIN toClient' : \/ \E j \in DOMAIN toClient : toClient'[i] = toClient[j]
                                  \/ toClient'[i] = answer
                                  \/ toClient'[i] \in Elements(history)
  <2>1. \A i \in DOMAIN toClient' : toClient'[i] \in Elements(toClient')
    BY DEF Elements
  <2>2. \A message \in Elements(toClient) : \E j \in DOMAIN toClient : message = toClient[j]
    BY DEF Elements
  <2> QED
    BY <1>4, <1>5, <2>1, <2>2
<1>8. TellsOf(answer, server.log) /\ answer.type = "reply"
  BY DEF TellsOf, IsReplyToResync
<1>9. Tells(toClient', server.log)
  BY <1>6, <1>7, <1>8 DEF OInv, Tells
<1>10. OwnIsBefore(server.log, answer.version)
  <2>1. \A i \in 1 .. k : i < k + 1
    OBVIOUS
  <2> QED
    BY <1>2, <2>1 DEF OwnIsBefore
<1>11. ReplyIsAfterOwn(toClient, server.log) => ReplyIsAfterOwn(toClient', server.log)
  BY <1>6, <1>7, <1>10 DEF ReplyIsAfterOwn
<1>12. ASSUME client.open, ~client.closing, ~deaf
       PROVE  Linked(client, server', toServer', toClient')
  <2>1. Linked(client, server, toServer, toClient)
    BY <1>12 DEF OInv
  <2>2. /\ client.resource <= server.resource + 1 /\ client.resource # server.resource + 1
    BY <1>1, <2>1 DEF Linked, IsClient
  <2>3. Prolongs(toClient, first) /\ Prolongs(first, toClient')
    BY <1>1, <1>3, <1>4, SentSlips, ConcatProlongs
  <2>4. ASSUME client.resync, client.resource # 0 PROVE Ongoing(client, server', toClient')
    <3>1. Concludes(toClient, client.resource)
      BY <2>1, <2>4 DEF Linked, Ongoing
    <3> QED
      BY <2>3, <3>1, ProlongedConcludes DEF Ongoing
  <2>5. ASSUME client.resource = 0 PROVE Prospect(server', toClient')
    <3>1. NoReply(toClient)
      BY <2>1, <2>5 DEF Linked, Prospect, NoReply
    <3>2. NoReply(history)
      BY <1>6 DEF NoReply, Elements
    <3>3. OneReply(first)
      BY <1>1, <1>3, <3>1, FirstReplyIsOne
    <3>4. OneReply(toClient')
      BY <1>3, <1>4, <3>2, <3>3, ProlongedIsOneReply
    <3> QED
      BY <1>6, <1>7, <3>1, <3>4 DEF Prospect, NoReply, Held
  <2>6. ASSUME ~CatchesUp(client) PROVE OwnHasPassed(client, toClient', server.log)
    <3>1. OwnHasPassed(client, toClient, server.log)
      BY <2>1, <2>6 DEF Linked
    <3> QED
      BY <1>6, <1>7, <1>8, <2>2, <3>1 DEF OwnHasPassed
  <2> QED
    BY <2>1, <2>2, <2>4, <2>5, <2>6 DEF Linked
<1> QED
  BY <1>9, <1>11, <1>12 DEF OInv

\* An operation that is taken is new to the history.
LEMMA TakeOnce ==
  ASSUME TInv, OInv(client, server, toServer, toClient, deaf), client' = client,
         toServer # <<>>, toServer' = Tail(toServer), NEW message, message = Head(toServer),
         message.type = "op", ~CatchesUp(client),
         NEW ack, ack.type = "ack", ack.number = message.number, ack.version = Version,
         NEW entry, entry.session = client.session, entry.edit = message.number,
         toClient' = Sent(toClient, ack), server'.log = Sent(server.log, entry),
         server'.phase = server.phase, server'.resource = server.resource
  PROVE  OInv(client', server', toServer', toClient', deaf)
<1>1. /\ IsSequence(server.log) /\ IsSequence(toClient) /\ IsSequence(toServer)
      /\ IsClient(client)
  BY WiredMeans
<1>2. PICK more : more = Sent(server.log, entry) /\ server'.log = more
  OBVIOUS
<1>3. /\ entry.edit \in 1 .. client.cc.lastSequenceNumber
      /\ \A j \in DOMAIN server.log : server.log[j].edit # entry.edit
      /\ NoClose(toServer) => NoClose(toServer')
  BY RestOfRequests
<1>4. OncePer(more) /\ Tells(toClient, more)
  BY <1>1, <1>2, <1>3, GrowsOnce, GrowsTells DEF OInv
<1>5. Fresh(toServer', client.cc.lastSequenceNumber, more)
  BY <1>1, <1>2, FreshWithoutFirst DEF OInv
<1>6. client.open => Sees(client, more)
  BY <1>1, <1>2, <1>3, GrowsSees DEF OInv
<1>7. TellsOf(ack, more) /\ ~IsReplyToResync(ack)
  <2>1. Version \in DOMAIN more /\ more[Version] = entry
    <3>1. Len(server.log) + 1 \in 1 .. Len(server.log) + 1
      BY <1>1, <1>2, LogGrows
    <3> QED
      BY <1>1, <1>2, <3>1, LogGrows DEF Version
  <2> QED
    BY <2>1 DEF TellsOf, IsReplyToResync
<1>8. PICK n : Slips(toClient, toClient', n, ack) /\ IsOfOr(toClient', toClient, ack)
  BY <1>1, SentSlips
<1>9. /\ Tells(toClient', more)
      /\ OwnHasPassed(client, toClient, more) => OwnHasPassed(client, toClient', more)
  BY <1>4, <1>7, <1>8, SaidMore
<1>10. ASSUME client.open, ~client.closing, ~deaf
       PROVE  Linked(client, server', toServer', toClient')
  <2>1. Linked(client, server, toServer, toClient)
    BY <1>10 DEF OInv
  <2>2. OwnHasPassed(client, toClient', more)
    BY <1>1, <1>2, <1>9, <2>1, GrowsPassed DEF Linked, OInv
  <2>3. NoClose(toServer') /\ (Held(server) => Held(server'))
    BY <1>3, <2>1 DEF Linked, Held
  <2> QED
    BY <1>2, <1>7, <1>8, <2>1, <2>2, <2>3, SlippedLinks
<1> QED
  BY <1>2, <1>4, <1>5, <1>6, <1>9, <1>10 DEF OInv

\* The server's end of a resynchronisation is on its way to the model, or the one it had is over.
LEMMA EndOnce ==
  ASSUME TInv, OInv(client, server, toServer, toClient, deaf), client' = client,
         toServer # <<>>, toServer' = Tail(toServer), Head(toServer).type = "complete",
         NEW complete, complete.type = "serverComplete", complete.resource = server.resource,
         toClient' = Sent(toClient, complete),
         server'.log = server.log, server'.resource = server.resource
  PROVE  OInv(client', server', toServer', toClient', deaf)
<1>1. /\ IsSequence(toClient) /\ IsSequence(toServer) /\ Head(toServer) \in Elements(toServer)
  BY WiredMeans, ElementsOfTail
<1>2. /\ Fresh(toServer', client.cc.lastSequenceNumber, server.log)
      /\ NoClose(toServer) => NoClose(toServer')
  BY RestOfRequests
<1>3. PICK n : /\ n = Len(toClient) + 1 /\ Slips(toClient, toClient', n, complete)
               /\ IsOfOr(toClient', toClient, complete)
               /\ n \in DOMAIN toClient' /\ toClient'[n] = complete
  BY <1>1, SentSlips
<1>4. TellsOf(complete, server.log) /\ Tells(toClient, server.log) /\ ~IsReplyToResync(complete)
  BY DEF TellsOf, OInv, IsReplyToResync
<1>5. /\ Tells(toClient', server.log)
      /\ ReplyIsAfterOwn(toClient, server.log) => ReplyIsAfterOwn(toClient', server.log)
      /\ OwnHasPassed(client, toClient, server.log) => OwnHasPassed(client, toClient', server.log)
  BY <1>3, <1>4, SaidMore
<1>6. ASSUME client.open, ~client.closing, ~deaf
      PROVE  Linked(client, server', toServer', toClient')
  <2>1. Linked(client, server, toServer, toClient)
    BY <1>6 DEF OInv
  <2>2. ASSUME client.resync, client.resource # 0 PROVE Ongoing(client, server', toClient')
    <3>1. Ongoing(client, server, toClient)
      BY <2>1, <2>2 DEF Linked
    <3>2. CASE client.resource = server.resource /\ NoReply(toClient)
      <4>1. NoReply(toClient')
        BY <1>3, <1>4, <3>2 DEF NoReply, IsOfOr
      <4>2. Concludes(toClient', client.resource)
        BY <1>3, <3>2, <4>1 DEF Concludes, NoReply
      <4> QED
        BY <4>2 DEF Ongoing
    <3>3. CASE Concludes(toClient, client.resource)
      BY <1>3, <1>4, <3>3, SlippedConcludes DEF Ongoing
    <3> QED
      BY <3>1, <3>2, <3>3 DEF Ongoing
  <2>3. client.resource # 0
    <3>1. Poised(client) /\ client.up
      BY <1>6 DEF TInv, IsSettled, Fit, Gone, Wired
    <3>2. ~CatchesUp(client)
      BY <1>1 DEF TInv, Wired
    <3> QED
      BY <1>6, <3>1, <3>2 DEF Poised, Standing, CatchesUp
  <2>4. client.resource <= server'.resource /\ NoClose(toServer')
    BY <1>2, <2>1 DEF Linked
  <2>5. ~CatchesUp(client) => OwnHasPassed(client, toClient', server'.log)
    BY <1>5, <2>1 DEF Linked
  <2> QED
    BY <2>2, <2>3, <2>4, <2>5 DEF Linked
<1> QED
  BY <1>2, <1>5, <1>6 DEF OInv

\* The answer to a close goes to a model that is closing, or closed.
LEMMA TakeCloseOnce ==
  ASSUME TInv, OInv(client, server, toServer, toClient, deaf), client' = client,
         toServer # <<>>, toServer' = Tail(toServer), Head(toServer).type = "close",
         NEW answer, answer.type = "reply", answer.step = "close",
         toClient' = Sent(toClient, answer), server'.log = server.log
  PROVE  OInv(client', server', toServer', toClient', deaf)
<1>1. /\ Fresh(toServer', client.cc.lastSequenceNumber, server.log)
      /\ ~NoClose(toServer)
  BY RestOfRequests
<1>2. IsOfOr(toClient', toClient, answer)
  BY WiredMeans, SentSlips
<1>3. TellsOf(answer, server.log) /\ Tells(toClient, server.log) /\ ~IsReplyToResync(answer)
  BY DEF TellsOf, OInv, IsReplyToResync
<1>4. /\ Tells(toClient', server.log)
      /\ ReplyIsAfterOwn(toClient, server.log) => ReplyIsAfterOwn(toClient', server.log)
  BY <1>2, <1>3, SaidMore
<1>5. client.open => client.closing \/ deaf
  BY <1>1 DEF OInv, Linked
<1> QED
  BY <1>1, <1>4, <1>5 DEF OInv

\* What the server does with a request keeps edits operations once.
LEMMA ServerReceivesOnce ==
  ASSUME TInv, Once, ServerReceives
  PROVE  Once'
<1>1. /\ toServer # <<>> /\ toServer' = Tail(toServer) /\ client' = client
      /\ IsServer(server) /\ IsSequence(toServer)
  BY WiredMeans DEF ServerReceives
<1>2. PICK message : message = Head(toServer) /\ Serves(message)
  BY DEF ServerReceives
<1>3. IsRequest(message) /\ (CatchesUp(client) => message.type \notin {"op", "complete"})
  <2>1. message \in Elements(toServer)
    BY <1>1, <1>2, ElementsOfTail
  <2> QED
    BY <2>1 DEF TInv, Wired
<1>4. SUFFICES ASSUME Regular' PROVE OInv(client', server', toServer', toClient', deaf)
  BY DEF Once, ServerReceives
<1>5. ASSUME server'.reopened <=> server.reopened PROVE OInv(client, server, toServer, toClient, deaf)
  BY <1>1, <1>4, <1>5 DEF Once, Regular
<1>6. ASSUME toClient' = toClient, server' = server
      PROVE  OInv(client', server', toServer', toClient', deaf)
  BY <1>1, <1>5, <1>6, UnsaidOnce
<1>7. ASSUME OInv(client, server, toServer, toClient, deaf)
      PROVE  /\ Fresh(toServer', client.cc.lastSequenceNumber, server.log)
             /\ NoClose(toServer) => NoClose(toServer')
  BY <1>1, <1>7, RestOfRequests
<1>8. CASE message.type = "create" /\ Create(message)
  <2>1. PICK answer :
          /\ answer.type \in {"exists", "reply"} /\ answer.step = message.type
          /\ toClient' = Sent(toClient, answer)
          /\ server'.phase = server.phase /\ server'.resource = server.resource
          /\ server'.log = server.log /\ (server'.reopened <=> server.reopened)
    BY <1>1, <1>8, CreateDoes DEF CreateMakes
  <2>2. ~IsReplyToResync(answer) /\ answer.type \notin {"remote", "ack"}
    BY <1>8, <2>1 DEF IsReplyToResync
  <2> QED
    BY <1>1, <1>5, <1>7, <2>1, <2>2, SaidOnce DEF Held
<1>9. CASE message.type = "resync" /\ StartResync(message)
  <2>1. message.version \in Nat \ {0} /\ StartMakes(message)
    BY <1>1, <1>3, <1>9, StartDoes DEF IsRequest
  <2>2. ASSUME NEW answer, answer.type = "refusal", toClient' = Sent(toClient, answer),
               server' = server
        PROVE  OInv(client', server', toServer', toClient', deaf)
    <3>1. ~IsReplyToResync(answer) /\ answer.type \notin {"remote", "ack"}
      BY <2>2 DEF IsReplyToResync
    <3> QED
      BY <1>1, <1>5, <1>7, <2>2, <3>1, SaidOnce
  <2>3. ASSUME NEW answer, NEW history, ~Knows,
               answer.type = "reply", answer.step = message.type, answer.version = Version,
               answer.resource = server.resource + 1, IsSequence(history),
               \A i \in DOMAIN history :
                 /\ message.version + i - 1 \in message.version .. Version - 1
                 /\ history[i] = History(message.version + i - 1),
               toClient' = Sent(toClient, answer) \o history,
               server'.phase = "resync", server'.resource = server.resource + 1,
               server'.log = server.log,
               server'.reopened <=> (server.reopened \/ server.phase = "closed")
        PROVE  OInv(client', server', toServer', toClient', deaf)
    <3>1. OInv(client, server, toServer, toClient, deaf) /\ server.phase # "closed"
      BY <1>1, <1>4, <2>3 DEF Once, Regular
    <3>2. ~Held(server) /\ IsReplyToResync(answer)
      BY <1>9, <2>3, <3>1 DEF Held, Knows, IsReplyToResync
    <3> QED
      BY <1>1, <1>7, <2>1, <2>3, <3>1, <3>2, StartOnce
  <2> QED
    BY <2>1, <2>2, <2>3 DEF StartMakes
<1>10. CASE message.type = "op" /\ TakeOperation(message)
  <2>1. TakeMakes(message)
    BY <1>1, <1>10, TakeDoes
  <2>2. ASSUME NEW ack, NEW entry, ack.type = "ack", ack.number = message.number,
               ack.version = Version, entry.session = client.session,
               entry.edit = message.number, toClient' = Sent(toClient, ack),
               server'.log = Sent(server.log, entry), server'.phase = server.phase,
               server'.resource = server.resource, server'.reopened <=> server.reopened
        PROVE  OInv(client', server', toServer', toClient', deaf)
    BY <1>1, <1>2, <1>3, <1>5, <1>10, <2>2, TakeOnce
  <2> QED
    BY <1>6, <2>1, <2>2 DEF TakeMakes
<1>11. CASE message.type = "complete" /\ EndResync(message)
  <2>1. EndMakes(message)
    BY <1>1, <1>11, EndDoes
  <2>2. ASSUME NEW complete, complete.type = "serverComplete",
               complete.resource = server.resource, toClient' = Sent(toClient, complete),
               server'.log = server.log, server'.resource = server.resource,
               server'.reopened <=> server.reopened
        PROVE  OInv(client', server', toServer', toClient', deaf)
    BY <1>1, <1>2, <1>5, <1>11, <2>2, EndOnce
  <2> QED
    BY <1>6, <2>1, <2>2 DEF EndMakes, ChangesPhase
<1>12. CASE message.type = "close" /\ TakeClose(message)
  <2>1. PICK answer : /\ answer.type = "reply" /\ answer.step = message.type
                      /\ toClient' = Sent(toClient, answer) /\ server'.log = server.log
                      /\ (server'.reopened <=> server.reopened)
    BY <1>1, <1>12, TakeCloseDoes DEF TakeCloseMakes, ChangesPhase
  <2> QED
    BY <1>1, <1>2, <1>5, <1>12, <2>1, TakeCloseOnce
<1> QED
  BY <1>2, <1>8, <1>9, <1>10, <1>11, <1>12 DEF Serves

\* An answer keeps edits operations once: a reply hands the resource to a model that catches up.
LEMMA AnswerOnce ==
  ASSUME TInv, Once, toClient # <<>>, toClient' = Tail(toClient), server' = server, deaf' = deaf,
         NEW message, message = Head(toClient), IsAnswer(message),
         NEW task \in Asked(message), Becomes(Replied(Ends(task), task, message))
  PROVE  Once'
<1>1. PICK t, d :
        /\ t = Ends(task) /\ Becomes(d) /\ Fit(d) /\ Utters(client, d)
        /\ \/ GoneTo(t, d)
           \/ t.open /\ Poised(t) /\ Awaits(t) /\ t.up /\ RepliedMakes(t, task, message, d)
  BY AnswerDoes
<1>2. IsSequence(toClient) /\ IsSequence(server.log) /\ IsClient(client) /\ IsClient(d)
  BY <1>1, WiredMeans DEF Fit, Poised, Gone
<1>3. SUFFICES ASSUME Regular' PROVE OInv(client', server', toServer', toClient', deaf)
  BY DEF Once
<1>4. Regular
  BY <1>1, <1>2, <1>3, TurnIsRegular DEF Utters
<1>5. OInv(client, server, toServer, toClient, deaf)
  BY <1>4 DEF Once
<1>6. /\ Speaks(client, t) /\ IsClient(t) /\ (t.open <=> client.open) /\ t.sent = <<>>
      /\ (CatchesUp(t) => CatchesUp(client))
  BY <1>1, EndedIsFit
<1>7. message = toClient[1] /\ 1 \in DOMAIN toClient /\ message \in Elements(toClient)
  <2>1. Len(toClient) >= 1 /\ message = toClient[1]
    BY <1>2, TailOfSequence
  <2>2. PICK k \in Nat : k = Len(toClient) /\ DOMAIN toClient = 1 .. k
    BY <1>2, SequenceIsFunction
  <2> QED
    BY <1>2, <2>1, <2>2, ElementsOfTail
<1>8. message.type # "serverComplete" /\ IsFromServer(message) /\ message.step = task.step
  BY <1>7 DEF IsAnswer, TInv, Wired, Asked
<1>9. ASSUME NEW resource, Moves(client, d, resource, server.log),
             d.open /\ ~d.closing /\ ~deaf => Hands(client, d, resource, toClient, toClient')
      PROVE  OInv(client', server', toServer', toClient', deaf)
  BY <1>1, <1>2, <1>4, <1>9, TurnOnce
<1>10. Hands(client, d, client.resource, toClient, toClient')
  BY <1>8 DEF Hands
<1>11. CASE GoneTo(t, d)
  BY <1>1, <1>2, <1>4, <1>9, <1>10, <1>11, EndedMoves
<1>12. CASE t.open /\ Poised(t) /\ Awaits(t) /\ t.up /\ RepliedMakes(t, task, message, d)
  <2>1. Sees(client, server.log) /\ client.open /\ Poised(client)
    BY <1>5, <1>6, <1>12 DEF OInv, TInv, IsSettled, Fit, Gone
  <2>2. Sees(t, server.log) /\ t.resource = client.resource /\ (t.resync <=> client.resync)
    BY <1>2, <1>6, <1>12, <2>1, SpeaksMoves, FrameMeans DEF Speaks
  <2>3. ASSUME task.step = "resync", message.type = "reply"
        PROVE  /\ IsReplyToResync(message)
               /\ message.version \in Nat /\ message.resource \in Nat /\ message.resource # 0
               /\ CatchesUp(t) => OwnIsBefore(server.log, message.version)
    <3>1. IsReplyToResync(message)
      BY <1>8, <2>3 DEF IsReplyToResync
    <3> QED
      BY <1>5, <1>6, <1>7, <1>8, <2>1, <3>1 DEF IsFromServer, OInv, ReplyIsAfterOwn
  <2>4. \/ Moves(t, d, t.resource, server.log)
        \/ /\ task.step = "resync" /\ message.type = "reply" /\ t.resync
           /\ Moves(t, d, message.resource, server.log)
    <3>1. TellsTheEnd(t, task, message, server.log)
      BY <2>3 DEF TellsTheEnd
    <3>2. /\ Poised(t) /\ Awaits(t) /\ t.up /\ t.sent = <<>> /\ IsSequence(server.log)
          /\ Sees(t, server.log) /\ RepliedMakes(t, task, message, d)
      BY <1>2, <1>6, <1>12, <2>2
    <3> QED
      BY <3>1, <3>2, RepliedMoves
  <2>5. CASE Moves(t, d, t.resource, server.log)
    BY <1>1, <1>2, <1>4, <1>9, <1>10, <1>12, <2>2, <2>5, EndedMoves
  <2>6. CASE /\ task.step = "resync" /\ message.type = "reply" /\ t.resync
             /\ Moves(t, d, message.resource, server.log)
    <3>1. Moves(client, d, message.resource, server.log)
      BY <1>1, <1>2, <1>4, <1>12, <2>6, EndedMoves
    <3>2. ASSUME d.open, ~d.closing, ~deaf
          PROVE  Hands(client, d, message.resource, toClient, toClient')
      <4>1. ~client.closing
        BY <3>1, <3>2 DEF Moves
      <4>2. Linked(client, server, toServer, toClient)
        BY <1>5, <2>1, <3>2, <4>1 DEF OInv
      <4>3. client.resource = 0
        <5>1. ASSUME client.resource # 0 PROVE FALSE
          <6>1. Ongoing(client, server, toClient)
            BY <2>2, <2>6, <4>2, <5>1 DEF Linked
          <6>2. ~NoReply(toClient)
            BY <1>7, <2>3, <2>6 DEF NoReply
          <6>3. ~Concludes(toClient, client.resource)
            BY <1>2, <2>3, <2>6, NoReplyBeforeTheEnd
          <6> QED
            BY <6>1, <6>2, <6>3 DEF Ongoing
        <5> QED
          BY <5>1
      <4>4. CatchesUp(client)
        BY <2>1, <2>2, <2>6, <4>3 DEF Poised, Standing, CatchesUp
      <4> QED
        BY <2>3, <2>6, <4>3, <4>4 DEF Hands
    <3> QED
      BY <1>9, <3>1, <3>2
  <2> QED
    BY <2>4, <2>5, <2>6
<1> QED
  BY <1>1, <1>11, <1>12

\* A message keeps edits operations once.
LEMMA MessageOnce ==
  ASSUME TInv, Once, toClient # <<>>, toClient' = Tail(toClient), server' = server, ~deaf,
         NEW message, message = Head(toClient), ~IsAnswer(message),
         Becomes(Handle(client, message))
  PROVE  Once'
<1>1. PICK d : /\ Becomes(d) /\ Fit(d) /\ Utters(client, d)
               /\ \/ GoneTo(client, d)
                  \/ d = client /\ message.resource # client.resource
                  \/ /\ message.resource = client.resource /\ Hears(client)
                     /\ CatchesUp(client) => message.type \in {"remote", "forceClose"}
                     /\ HandleMakes(client, message, d)
  BY MessageDoes
<1>2. /\ IsSequence(toClient) /\ IsSequence(server.log) /\ IsClient(client) /\ IsClient(d)
      /\ client.sent = <<>>
  BY <1>1, WiredMeans DEF Fit, Poised, Gone
<1>3. SUFFICES ASSUME Regular' PROVE OInv(client', server', toServer', toClient', deaf)
  BY DeafIsLinkedLess DEF Once
<1>4. Regular
  BY <1>1, <1>2, <1>3, TurnIsRegular DEF Utters
<1>5. OInv(client, server, toServer, toClient, deaf)
  BY <1>4 DEF Once
<1>6. message = toClient[1] /\ 1 \in DOMAIN toClient
  <2>1. Len(toClient) >= 1 /\ message = toClient[1]
    BY <1>2, TailOfSequence
  <2>2. PICK k \in Nat : k = Len(toClient) /\ DOMAIN toClient = 1 .. k
    BY <1>2, SequenceIsFunction
  <2> QED
    BY <2>1, <2>2
<1>7. ASSUME Moves(client, d, client.resource, server.log),
             d.open /\ ~d.closing => Hands(client, d, client.resource, toClient, toClient')
      PROVE  OInv(client', server', toServer', toClient', deaf)
  BY <1>1, <1>2, <1>4, <1>7, TurnOnce
<1>8. CASE GoneTo(client, d)
  <2>1. Moves(client, d, client.resource, server.log) /\ ~d.open
    BY <1>2, <1>8, GoneMoves DEF GoneTo, Gone
  <2> QED
    BY <1>7, <2>1
<1>9. CASE d = client /\ message.resource # client.resource
  <2>1. Mute(client.sent)
    BY <1>2, NothingIsMute
  <2>2. Moves(client, client, client.resource, server.log)
    <3>1. CASE client.open
      BY <1>2, <1>5, <2>1, <3>1, StaysMoves DEF OInv
    <3>2. CASE ~client.open
      BY <2>1, <3>2 DEF Moves
    <3> QED
      BY <3>1, <3>2
  <2>3. Hands(client, d, client.resource, toClient, toClient')
    BY <1>9 DEF Hands
  <2> QED
    BY <1>7, <1>9, <2>2, <2>3
<1>10. CASE /\ message.resource = client.resource /\ Hears(client)
            /\ CatchesUp(client) => message.type \in {"remote", "forceClose"}
            /\ HandleMakes(client, message, d)
  <2>1. client.open /\ Sees(client, server.log)
    BY <1>5, <1>10, HearsMeans DEF OInv
  <2>2. TellsOf(message, server.log)
    BY <1>5, <1>6 DEF OInv, Tells
  <2>3. ~CatchesUp(client) /\ ~client.closing /\ message.type = "remote"
          /\ server.log[message.version].edit # 0
          => message.version < client.cc.contextVersion
    BY <1>5, <1>6, <1>10, <2>1 DEF OInv, Linked, OwnHasPassed
  <2>4. /\ Moves(client, d, client.resource, server.log)
        /\ message.type = "serverComplete" /\ d.open => ~d.resync
    BY <1>2, <1>10, <2>1, <2>2, <2>3, HandleMoves
  <2>5. d.open => Hands(client, d, client.resource, toClient, toClient')
    BY <2>4 DEF Hands
  <2> QED
    BY <1>7, <2>4, <2>5
<1> QED
  BY <1>1, <1>8, <1>9, <1>10

\* A message that is lost on a deaf service keeps edits operations once.
LEMMA LossOnce ==
  ASSUME TInv, Once, toClient # <<>>, toClient' = Tail(toClient), deaf, deaf' = deaf,
         client' = client, server' = server, toServer' = toServer
  PROVE  Once'
<1>1. SUFFICES ASSUME Regular' PROVE OInv(client', server', toServer', toClient', deaf)
  BY DEF Once
<1>2. OInv(client, server, toServer, toClient, deaf)
  BY <1>1 DEF Once, Regular
<1>3. IsOf(toClient', toClient)
  BY WiredMeans, TailIsOf
<1>4. Tells(toClient', server.log)
  BY <1>2, <1>3 DEF OInv, Tells, IsOf
<1>5. ReplyIsAfterOwn(toClient, server.log) => ReplyIsAfterOwn(toClient', server.log)
  BY <1>3 DEF ReplyIsAfterOwn, IsOf
<1> QED
  BY <1>2, <1>4, <1>5 DEF OInv

\* What the client makes of what it receives keeps edits operations once.
LEMMA ClientReceivesOnce ==
  ASSUME TInv, Once, ClientReceives
  PROVE  Once'
<1>1. PICK message : message = Head(toClient)
  OBVIOUS
<1>2. /\ toClient # <<>> /\ toClient' = Tail(toClient) /\ server' = server
      /\ \/ /\ IsAnswer(message) /\ deaf' = deaf
            /\ \E task \in Asked(message) : Becomes(Replied(Ends(task), task, message))
         \/ ~IsAnswer(message) /\ ~deaf /\ Becomes(Handle(client, message))
         \/ client' = client /\ toServer' = toServer /\ deaf /\ deaf' = deaf
  BY <1>1 DEF ClientReceives, TakeAnswer, TakeMessage
<1>3. CASE client' = client /\ toServer' = toServer /\ deaf /\ deaf' = deaf
  BY <1>2, <1>3, LossOnce
<1> QED
  BY <1>1, <1>2, <1>3, AnswerOnce, MessageOnce

\* Nothing keeps edits operations once.
LEMMA StutterOnce ==
  ASSUME TInv, Once, UNCHANGED vars
  PROVE  Once'
<1>1. client' = client /\ server' = server /\ toServer' = toServer /\ toClient' = toClient /\ deaf' = deaf
  BY DEF vars
<1> QED
  BY <1>1 DEF Once, Regular

\* Every step keeps edits operations once.
LEMMA NextOnce ==
  ASSUME TInv, Once, [Next]_vars
  PROVE  Once'
  BY EditOnce, CloseModelOnce, DropOnce, ReconnectOnce, TaskProceedsOnce,
     ServerReceivesOnce, ServerRefusesOnce, OtherEditsOnce, ForceCloseOnce,
     ClientReceivesOnce, StutterOnce DEF Next

\* At the beginning nothing was edited.
LEMMA InitOnce ==
  ASSUME Init
  PROVE  Once
<1>1. PICK local, keeps \in BOOLEAN :
        /\ client = NewClient(local, keeps)
        /\ server = [exists |-> ~local, phase |-> IF local THEN "absent" ELSE "open",
                     resource |-> IF local THEN 0 ELSE 1, since |-> 1, log |-> <<>>,
                     foreign |-> 0, reopened |-> FALSE]
  BY DEF Init
<1>2. toServer = <<>> /\ toClient = <<>>
  BY DEF Init
<1>3. PICK cc : cc = CC!NewConcurrencyControl(1, 0)
  OBVIOUS
<1>4. cc.contextVersion = 1 /\ InFlight(cc) = <<>>
  BY <1>3 DEF CC!NewConcurrencyControl, InFlight
<1>5. PICK none : none = <<>> /\ DOMAIN none = {} /\ Len(none) = 0
  <2>1. PICK none : none = <<>> /\ IsSequence(none) /\ Len(none) = 0
    BY EmptyIsSequence
  <2> QED
    BY <2>1, SequenceIsFunction
<1>6. /\ client.buffered = none /\ client.cc = cc /\ ~client.resync
      /\ client.resource = server.resource /\ server.resource \in Nat /\ server.log = none
  BY <1>1, <1>3, <1>5 DEF NewClient
<1>7. ~CatchesUp(client)
  BY <1>6 DEF CatchesUp
<1>8. OncePer(server.log) /\ Fresh(toServer, client.cc.lastSequenceNumber, server.log)
      /\ Tells(toClient, server.log)
  BY <1>2, <1>5, <1>6 DEF OncePer, Fresh, Tells
<1>9. Sees(client, server.log)
  <2>1. OwnBearsSession(client, server.log) /\ BufferedIsLogged(client, server.log)
    BY <1>4, <1>5, <1>6 DEF OwnBearsSession, BufferedIsLogged
  <2>2. PassedIsAcked(client, server.log)
    BY <1>4, <1>5, <1>6 DEF PassedIsAcked
  <2> QED
    BY <1>7, <2>1, <2>2 DEF Sees
<1>10. Linked(client, server, toServer, toClient)
  BY <1>2, <1>5, <1>6, <1>7 DEF Linked, Prospect, OneReply, OwnHasPassed, NoClose
<1> QED
  BY <1>7, <1>8, <1>9, <1>10 DEF Once, OInv

(***************************************************************************)
(* Where a client keeps its session over all its connections, an edit is   *)
(* one operation of the server's history, however often it is sent: with   *)
(* any number of drops, resynchronisations, refusals and edits of others.  *)
(* What _handleRemoteOperation recognises as its own while it catches up,  *)
(* and what _checkForReconnectUpToDate sends again, are never the same.    *)
(***************************************************************************)
THEOREM ResyncOncePerEdit == Spec => []OncePerEdit
<1>1. Init => TInv /\ Once
  BY InitHolds, InitOnce
<1>2. TInv /\ Once /\ [Next]_vars => TInv' /\ Once'
  BY NextKeeps, NextOnce
<1>3. TInv /\ Once => OncePerEdit
  BY DEF Once, Regular, OInv, OncePer, OncePerEdit
<1> QED
  BY <1>1, <1>2, <1>3, PTL DEF Spec
=============================================================================
