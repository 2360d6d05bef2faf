---------------------- MODULE ModelCollaboration_proofs ----------------------
(***************************************************************************)
(* For any number of sessions, any operations and any transformation       *)
(* functions: as long as a session sends its operations in order, no       *)
(* message finds it in a state its concurrency control refuses it in, and  *)
(* the server's history holds what it issued once and in order, whatever   *)
(* the other sessions do.                                                  *)
(***************************************************************************)
EXTENDS ModelCollaboration, AnySequenceLemmas

----------------------------------------------------------------------------
(* The inductive invariant, for one session: its concurrency control c,    *)
(* the submissions q and the messages m on their way, and the length n of  *)
(* the server's history.                                                   *)

\* The sequence numbers up to which a session has been acknowledged, and up to
\* which the server has received.
Acked(c) == c.lastSequenceNumber - Len(c.inflightOperations)
Received(c, q) == c.lastSequenceNumber - Len(q)

\* In flight and on their way to the server are the last operations issued.
Numbered(c, q) ==
  /\ Len(q) <= Len(c.inflightOperations) /\ Len(c.inflightOperations) <= c.lastSequenceNumber
  /\ \A i \in 1 .. Len(c.inflightOperations) : c.inflightOperations[i].seqNo = Acked(c) + i
  /\ \A i \in 1 .. Len(q) : q[i].sequenceNumber = Received(c, q) + i

IsAck(message) == message.type = "operationAck"

VersionOf(message) == IF IsAck(message) THEN message.version ELSE message.contextVersion

\* On their way to the session are the versions from its context version on.
InStep(c, m, n) ==
  /\ c.contextVersion + Len(m) = n
  /\ \A i \in 1 .. Len(m) : VersionOf(m[i]) = c.contextVersion + i - 1

\* Among them, in order, the acknowledgements of what is in flight and received.
AcksDue(c, q, m) ==
  /\ \A i \in 1 .. Len(m) : IsAck(m[i]) => m[i].sequenceNumber \in Acked(c) + 1 .. Received(c, q)
  /\ \A i, j \in 1 .. Len(m) :
       IsAck(m[i]) /\ IsAck(m[j]) /\ i < j => m[i].sequenceNumber < m[j].sequenceNumber
  /\ \A k \in Acked(c) + 1 .. Received(c, q) :
       \E i \in 1 .. Len(m) : IsAck(m[i]) /\ m[i].sequenceNumber = k

SessionOK(c, q, m, n) ==
  /\ IsConcurrencyControl(c) /\ IsSequence(q) /\ IsSequence(m)
  /\ Numbered(c, q) /\ InStep(c, m, n) /\ AcksDue(c, q, m)

\* What the history holds of a session are the operations received of it.
LogOK(s) ==
  /\ \A i \in LoggedBy(s) : log[i].seqNo \in 1 .. Received(cc[s], toServer[s])
  /\ \A i, j \in LoggedBy(s) : i < j => log[i].seqNo < log[j].seqNo
  /\ \A n \in 1 .. Received(cc[s], toServer[s]) : \E i \in LoggedBy(s) : log[i].seqNo = n

\* A session that has sent its operations in order.
InOrder(s) ==
  ~error[s] /\ SessionOK(cc[s], toServer[s], toClient[s], Len(log)) /\ LogOK(s)

IInv == TypeOK /\ \A s \in Session : misordered[s] \/ InOrder(s)

----------------------------------------------------------------------------
(* A session that issues operations *)

\* What a local call makes of the concurrency control c: nothing that counts here,
\* or one more operation in flight.
Issues(c, d) ==
  /\ IsConcurrencyControl(d)
  /\ d.contextVersion = c.contextVersion
  /\ \/ /\ d.lastSequenceNumber = c.lastSequenceNumber
        /\ d.inflightOperations = c.inflightOperations
     \/ \E event :
          /\ IsClientOperationEvent(event) /\ event.seqNo = c.lastSequenceNumber + 1
          /\ d.lastSequenceNumber = c.lastSequenceNumber + 1
          /\ d.inflightOperations = Append(c.inflightOperations, event)

\* Putting an operation in flight issues it.
LEMMA PutInFlightIssues ==
  ASSUME NEW c, IsConcurrencyControl(c), NEW s, NEW operation
  PROVE  Issues(c, PutInFlight(c, s, operation))
<1> DEFINE event == ClientOperationEvent(s, c.lastSequenceNumber + 1, c.contextVersion, operation)
           d == PutInFlight(c, s, operation)
<1>1. IsClientOperationEvent(event) /\ event.seqNo = c.lastSequenceNumber + 1
  BY DEF IsClientOperationEvent, ClientOperationEvent, IsConcurrencyControl
<1>2. /\ DOMAIN d = DOMAIN c
      /\ d.lastSequenceNumber = c.lastSequenceNumber + 1
      /\ d.contextVersion = c.contextVersion
      /\ d.compoundOpInProgress = c.compoundOpInProgress
      /\ d.inflightOperations = Append(c.inflightOperations, event)
      /\ d.committed = c.committed
  BY DEF PutInFlight, IsConcurrencyControl
<1> HIDE DEF event, d
<1>3. IsSequence(c.inflightOperations)
  BY DEF IsConcurrencyControl
<1>4. /\ IsSequence(d.inflightOperations)
      /\ DOMAIN d.inflightOperations = 1 .. Len(c.inflightOperations) + 1
      /\ DOMAIN c.inflightOperations = 1 .. Len(c.inflightOperations)
      /\ Len(c.inflightOperations) \in Nat
      /\ \A i \in 1 .. Len(c.inflightOperations) :
           d.inflightOperations[i] = c.inflightOperations[i]
      /\ d.inflightOperations[Len(c.inflightOperations) + 1] = event
  BY <1>2, <1>3, AppendToSequence, SequenceIsFunction
<1>5. \A i \in DOMAIN d.inflightOperations : IsClientOperationEvent(d.inflightOperations[i])
  BY <1>1, <1>4 DEF IsConcurrencyControl
<1>6. IsConcurrencyControl(d)
  BY <1>2, <1>4, <1>5 DEF IsConcurrencyControl
<1> QED
  BY <1>1, <1>2, <1>6 DEF Issues, d

\* So do completing a batch and processing an outgoing operation, unless the
\* operation joins the batch in progress.
LEMMA CompleteBatchIssues ==
  ASSUME NEW c, IsConcurrencyControl(c), NEW s
  PROVE  Issues(c, CompleteBatchOperation(c, s))
<1> DEFINE ended == [c EXCEPT !.compoundOpInProgress = FALSE, !.pendingCompoundOperation = <<>>]
<1>1. /\ IsConcurrencyControl(ended)
      /\ ended.lastSequenceNumber = c.lastSequenceNumber
      /\ ended.contextVersion = c.contextVersion
      /\ ended.inflightOperations = c.inflightOperations
  BY DEF IsConcurrencyControl
<1> HIDE DEF ended
<1>2. Issues(c, ended) /\ Issues(c, PutInFlight(ended, s, c.pendingCompoundOperation))
  BY <1>1, PutInFlightIssues DEF Issues
<1> QED
  BY <1>2 DEF CompleteBatchOperation, ended

\* So does a local operation outside a batch; in one it joins the operation pending.
LEMMA ProcessOutgoingIssues ==
  ASSUME NEW c, IsConcurrencyControl(c), NEW s, NEW op
  PROVE  Issues(c, ProcessOutgoingOperation(c, s, op))
<1> DEFINE outgoing == TransformOutgoing(c.unappliedOperations, <<op>>)
           noted == [c EXCEPT !.unappliedOperations = outgoing.serverOps,
                              !.committed = IF NothingOutstanding(c) THEN FALSE ELSE @]
           batched == [noted EXCEPT !.pendingCompoundOperation = @ \o outgoing.operation]
<1> HIDE DEF outgoing
<1>1. /\ IsConcurrencyControl(noted)
      /\ noted.lastSequenceNumber = c.lastSequenceNumber
      /\ noted.contextVersion = c.contextVersion
      /\ noted.inflightOperations = c.inflightOperations
  BY DEF IsConcurrencyControl
<1> HIDE DEF noted
<1>2. /\ IsConcurrencyControl(batched)
      /\ batched.lastSequenceNumber = c.lastSequenceNumber
      /\ batched.contextVersion = c.contextVersion
      /\ batched.inflightOperations = c.inflightOperations
  BY <1>1 DEF IsConcurrencyControl
<1> HIDE DEF batched
<1>3. Issues(c, batched) /\ Issues(c, PutInFlight(noted, s, outgoing.operation))
  BY <1>1, <1>2, PutInFlightIssues DEF Issues
<1> QED
  BY <1>3 DEF ProcessOutgoingOperation, Issue, outgoing, noted, batched

\* What is issued is sent: the session stays as it should be, and no more is
\* acknowledged or received.
LEMMA IssuingKeepsSessionOK ==
  ASSUME NEW c, NEW q, NEW m, NEW n, SessionOK(c, q, m, n), NEW d, Issues(c, d)
  PROVE  /\ SessionOK(d, AfterSending(q, c, d), m, n)
         /\ Received(d, AfterSending(q, c, d)) = Received(c, q)
<1> DEFINE r == AfterSending(q, c, d)
<1>1. /\ IsSequence(c.inflightOperations) /\ Len(c.inflightOperations) \in Nat
      /\ c.lastSequenceNumber \in Nat /\ Len(q) \in Nat /\ IsSequence(q)
  BY SequenceIsFunction DEF SessionOK, IsConcurrencyControl
<1>2. CASE d.lastSequenceNumber = c.lastSequenceNumber
  <2>1. d.inflightOperations = c.inflightOperations
    BY <1>1, <1>2 DEF Issues
  <2>2. r = q
    BY <1>2 DEF AfterSending
  <2> QED
    BY <1>2, <2>1, <2>2 DEF SessionOK, Issues, Numbered, InStep, AcksDue, Acked, Received
<1>3. CASE d.lastSequenceNumber # c.lastSequenceNumber
  <2>1. PICK event :
          /\ event.seqNo = c.lastSequenceNumber + 1
          /\ d.lastSequenceNumber = c.lastSequenceNumber + 1
          /\ d.inflightOperations = Append(c.inflightOperations, event)
    BY <1>3 DEF Issues
  <2>2. /\ Len(d.inflightOperations) = Len(c.inflightOperations) + 1
        /\ \A i \in 1 .. Len(c.inflightOperations) :
             d.inflightOperations[i] = c.inflightOperations[i]
        /\ d.inflightOperations[Len(d.inflightOperations)] = event
    BY <1>1, <2>1, AppendToSequence
  <2>3. r = Append(q, OperationSubmission(event))
    BY <1>3, <2>2 DEF AfterSending
  <2>4. /\ IsSequence(r) /\ Len(r) = Len(q) + 1
        /\ \A i \in 1 .. Len(q) : r[i] = q[i]
        /\ r[Len(q) + 1].sequenceNumber = c.lastSequenceNumber + 1
    BY <1>1, <2>1, <2>3, AppendToSequence DEF OperationSubmission
  <2> HIDE DEF r
  <2>5. Acked(d) = Acked(c) /\ Received(d, r) = Received(c, q)
    <3>1. Len(d.inflightOperations) = Len(c.inflightOperations) + 1 /\ Len(r) = Len(q) + 1
      BY <2>2, <2>4
    <3>2. d.lastSequenceNumber = c.lastSequenceNumber + 1
      BY <2>1
    <3>3. \A a, b \in Nat : (a + 1) - (b + 1) = a - b
      OBVIOUS
    <3>4. d.lastSequenceNumber - Len(d.inflightOperations) =
            c.lastSequenceNumber - Len(c.inflightOperations)
      BY <1>1, <3>1, <3>2, <3>3
    <3>5. d.lastSequenceNumber - Len(r) = c.lastSequenceNumber - Len(q)
      BY <1>1, <3>1, <3>2, <3>3
    <3> QED
      BY <3>4, <3>5 DEF Acked, Received
  <2>6. Numbered(d, r)
    <3>1. /\ Len(r) <= Len(d.inflightOperations)
          /\ Len(d.inflightOperations) <= d.lastSequenceNumber
      BY <1>1, <2>1, <2>2, <2>4 DEF SessionOK, Numbered
    <3>2. \A i \in 1 .. Len(d.inflightOperations) : d.inflightOperations[i].seqNo = Acked(d) + i
      BY <1>1, <2>1, <2>2, <2>5 DEF SessionOK, Numbered, Acked
    <3>3. \A i \in 1 .. Len(r) : r[i].sequenceNumber = Received(d, r) + i
      <4> SUFFICES ASSUME NEW i \in 1 .. Len(r)
                   PROVE  r[i].sequenceNumber = Received(c, q) + i
        BY <2>5
      <4>1. CASE i \in 1 .. Len(q)
        BY <2>4, <4>1 DEF SessionOK, Numbered
      <4>2. CASE i = Len(q) + 1
        BY <1>1, <2>4, <4>2 DEF Received
      <4> QED
        BY <1>1, <2>4, <4>1, <4>2
    <3> QED
      BY <3>1, <3>2, <3>3 DEF Numbered
  <2>7. InStep(d, m, n) /\ AcksDue(d, r, m)
    BY <2>5 DEF SessionOK, Issues, InStep, AcksDue
  <2> QED
    BY <2>4, <2>5, <2>6, <2>7 DEF SessionOK, Issues, r
<1> QED
  BY <1>2, <1>3

\* Out of order or not, what is sent joins a queue.
LEMMA SendingKeepsType ==
  ASSUME NEW c, NEW d, Issues(c, d), NEW e, NEW q, IsSequence(q)
  PROVE  IsConcurrencyControl(d) /\ IsSequence(AfterSending(q, e, d))
  BY AppendToSequence DEF Issues, AfterSending

----------------------------------------------------------------------------
(* The server *)

\* Facts about the lengths that occur, for the arithmetic.
LEMMA SessionNumbers ==
  ASSUME NEW c, NEW q, NEW m, NEW n, SessionOK(c, q, m, n)
  PROVE  /\ c.lastSequenceNumber \in Nat /\ c.contextVersion \in Nat
         /\ Len(c.inflightOperations) \in Nat /\ Len(q) \in Nat /\ Len(m) \in Nat
         /\ Acked(c) \in Nat /\ Received(c, q) \in Nat /\ Acked(c) <= Received(c, q)
  BY SequenceIsFunction DEF SessionOK, IsConcurrencyControl, Numbered, Acked, Received

\* A message for the session with the next version keeps it in step.
LEMMA NextVersionKeepsInStep ==
  ASSUME NEW c, NEW q, NEW m, NEW n, SessionOK(c, q, m, n),
         NEW message, VersionOf(message) = n
  PROVE  /\ IsSequence(Append(m, message))
         /\ InStep(c, Append(m, message), n + 1)
<1>1. /\ IsSequence(Append(m, message)) /\ Len(Append(m, message)) = Len(m) + 1
      /\ \A i \in 1 .. Len(m) : Append(m, message)[i] = m[i]
      /\ Append(m, message)[Len(m) + 1] = message
  BY AppendToSequence DEF SessionOK
<1>2. /\ c.contextVersion \in Nat /\ Len(m) \in Nat /\ c.contextVersion + Len(m) = n
      /\ \A i \in 1 .. Len(m) : VersionOf(m[i]) = c.contextVersion + i - 1
  BY SessionNumbers DEF SessionOK, InStep
<1> DEFINE r == Append(m, message)
<1> HIDE DEF r
<1>3. c.contextVersion + Len(r) = n + 1
  <2>1. \A a, b \in Nat : a + (b + 1) = (a + b) + 1
    OBVIOUS
  <2>2. Len(r) = Len(m) + 1
    BY <1>1 DEF r
  <2> QED
    BY <1>2, <2>1, <2>2
<1>4. ASSUME NEW i \in 1 .. Len(r)
      PROVE  VersionOf(r[i]) = c.contextVersion + i - 1
  <2>1. CASE i \in 1 .. Len(m)
    BY <1>1, <1>2, <2>1 DEF r
  <2>2. CASE i = Len(m) + 1
    BY <1>1, <1>2, <2>2 DEF r
  <2> QED
    BY <1>1, <1>2, <2>1, <2>2 DEF r
<1> QED
  BY <1>1, <1>3, <1>4 DEF InStep, r

\* The session whose submission is received: the submission is the next one, and
\* its acknowledgement is due.
LEMMA ReceivingKeepsSessionOK ==
  ASSUME NEW c, NEW q, NEW m, NEW n, SessionOK(c, q, m, n), q # <<>>
  PROVE  LET k == Head(q).sequenceNumber
         IN  /\ k = Received(c, q) + 1
             /\ Received(c, Tail(q)) = k
             /\ SessionOK(c, Tail(q), Append(m, Acknowledgement(n, k)), n + 1)
<1> DEFINE k == Head(q).sequenceNumber
           ack == Acknowledgement(n, k)
           r == Append(m, ack)
<1>1. /\ c.lastSequenceNumber \in Nat /\ Len(c.inflightOperations) \in Nat
      /\ Len(q) \in Nat /\ Len(m) \in Nat
      /\ Acked(c) \in Nat /\ Received(c, q) \in Nat /\ Acked(c) <= Received(c, q)
  BY SessionNumbers
<1>2. /\ IsSequence(Tail(q)) /\ Len(q) >= 1 /\ Len(Tail(q)) = Len(q) - 1
      /\ Head(q) = q[1]
      /\ \A i \in 1 .. Len(q) - 1 : Tail(q)[i] = q[i + 1]
  BY TailOfSequence DEF SessionOK
<1>3. /\ Len(q) <= Len(c.inflightOperations) /\ Len(c.inflightOperations) <= c.lastSequenceNumber
      /\ \A i \in 1 .. Len(q) : q[i].sequenceNumber = Received(c, q) + i
  BY DEF SessionOK, Numbered
<1>4. k = Received(c, q) + 1
  BY <1>1, <1>2, <1>3
<1>5. Received(c, Tail(q)) = Received(c, q) + 1
  BY <1>1, <1>2 DEF Received
<1>6. VersionOf(ack) = n /\ IsAck(ack) /\ ack.sequenceNumber = k
  BY DEF VersionOf, IsAck, Acknowledgement
<1> HIDE DEF k, ack
<1>7. /\ IsSequence(r) /\ Len(r) = Len(m) + 1
      /\ \A i \in 1 .. Len(m) : r[i] = m[i]
      /\ r[Len(m) + 1] = ack
  BY AppendToSequence DEF SessionOK
<1>8. InStep(c, r, n + 1)
  BY <1>6, NextVersionKeepsInStep
<1> HIDE DEF r
<1>9. Numbered(c, Tail(q))
  <2>1. ASSUME NEW i \in 1 .. Len(Tail(q))
        PROVE  Tail(q)[i].sequenceNumber = Received(c, Tail(q)) + i
    <3>1. i \in 1 .. Len(q) - 1 /\ i + 1 \in 1 .. Len(q)
      BY <1>1, <1>2
    <3>2. Tail(q)[i].sequenceNumber = Received(c, q) + (i + 1)
      BY <1>2, <1>3, <3>1
    <3>3. \A a, b \in Nat : a + (b + 1) = (a + 1) + b
      OBVIOUS
    <3> QED
      BY <1>1, <1>5, <3>1, <3>2, <3>3
  <2>2. Len(Tail(q)) <= Len(c.inflightOperations)
    BY <1>1, <1>2, <1>3
  <2> QED
    BY <2>1, <2>2 DEF Numbered, SessionOK
<1>10. AcksDue(c, Tail(q), r)
  <2>1. \A i \in 1 .. Len(m) :
          IsAck(m[i]) => m[i].sequenceNumber \in Acked(c) + 1 .. Received(c, q)
    BY DEF SessionOK, AcksDue
  <2>2. ASSUME NEW i \in 1 .. Len(r), IsAck(r[i])
        PROVE  r[i].sequenceNumber \in Acked(c) + 1 .. Received(c, Tail(q))
    <3>1. CASE i \in 1 .. Len(m)
      BY <1>1, <1>5, <1>7, <2>1, <2>2, <3>1
    <3>2. CASE i = Len(m) + 1
      BY <1>1, <1>4, <1>5, <1>6, <1>7, <3>2
    <3> QED
      BY <1>1, <1>7, <3>1, <3>2
  <2>3. ASSUME NEW i \in 1 .. Len(r), NEW j \in 1 .. Len(r), IsAck(r[i]), IsAck(r[j]), i < j
        PROVE  r[i].sequenceNumber < r[j].sequenceNumber
    <3>1. i \in 1 .. Len(m)
      BY <1>1, <1>7, <2>3
    <3>2. CASE j \in 1 .. Len(m)
      BY <1>7, <2>3, <3>1, <3>2 DEF SessionOK, AcksDue
    <3>3. CASE j = Len(m) + 1
      BY <1>1, <1>4, <1>6, <1>7, <2>1, <2>3, <3>1, <3>3
    <3> QED
      BY <1>1, <1>7, <3>2, <3>3
  <2>4. ASSUME NEW l \in Acked(c) + 1 .. Received(c, Tail(q))
        PROVE  \E i \in 1 .. Len(r) : IsAck(r[i]) /\ r[i].sequenceNumber = l
    <3>1. CASE l = k
      <4>1. Len(m) + 1 \in 1 .. Len(r) /\ r[Len(m) + 1] = ack
        BY <1>1, <1>7
      <4> QED
        BY <1>6, <3>1, <4>1
    <3>2. CASE l # k
      <4>1. l \in Acked(c) + 1 .. Received(c, q)
        BY <1>1, <1>4, <1>5, <3>2
      <4>2. PICK i \in 1 .. Len(m) : IsAck(m[i]) /\ m[i].sequenceNumber = l
        BY <4>1 DEF SessionOK, AcksDue
      <4> QED
        BY <1>1, <1>7, <4>2
    <3> QED
      BY <3>1, <3>2
  <2> QED
    BY <2>2, <2>3, <2>4 DEF AcksDue
<1> QED
  BY <1>2, <1>4, <1>5, <1>7, <1>8, <1>9, <1>10 DEF SessionOK, k, ack, r

\* The other sessions: a remote operation is on its way to them.
LEMMA TellingKeepsSessionOK ==
  ASSUME NEW c, NEW q, NEW m, NEW n, SessionOK(c, q, m, n), NEW s, NEW operation
  PROVE  SessionOK(c, q, Append(m, RemoteOperation(s, n, operation)), n + 1)
<1> DEFINE message == RemoteOperation(s, n, operation)
           r == Append(m, message)
<1>1. VersionOf(message) = n /\ ~IsAck(message)
  BY DEF VersionOf, IsAck, RemoteOperation
<1> HIDE DEF message
<1>2. /\ Len(m) \in Nat /\ IsSequence(r) /\ Len(r) = Len(m) + 1
      /\ \A i \in 1 .. Len(m) : r[i] = m[i]
      /\ r[Len(m) + 1] = message
  BY AppendToSequence, SessionNumbers DEF SessionOK
<1>3. InStep(c, r, n + 1)
  BY <1>1, NextVersionKeepsInStep
<1> HIDE DEF r
<1>4. \A i \in 1 .. Len(r) : IsAck(r[i]) => i \in 1 .. Len(m)
  BY <1>1, <1>2
<1>5. 1 .. Len(m) \subseteq 1 .. Len(r)
  BY <1>2
<1>6. AcksDue(c, q, r)
  <2>1. \A i \in 1 .. Len(r) :
          IsAck(r[i]) => r[i].sequenceNumber \in Acked(c) + 1 .. Received(c, q)
    BY <1>2, <1>4 DEF SessionOK, AcksDue
  <2>2. \A i, j \in 1 .. Len(r) :
          IsAck(r[i]) /\ IsAck(r[j]) /\ i < j => r[i].sequenceNumber < r[j].sequenceNumber
    BY <1>2, <1>4 DEF SessionOK, AcksDue
  <2>3. \A l \in Acked(c) + 1 .. Received(c, q) :
          \E i \in 1 .. Len(r) : IsAck(r[i]) /\ r[i].sequenceNumber = l
    BY <1>2, <1>5 DEF SessionOK, AcksDue
  <2> QED
    BY <2>1, <2>2, <2>3 DEF AcksDue
<1> QED
  BY <1>2, <1>3, <1>6 DEF SessionOK, r, message

----------------------------------------------------------------------------
(* A session that is told *)

\* The next message has the version the session expects, and those behind it the
\* versions it expects then.
LEMMA NextMessageIsExpected ==
  ASSUME NEW c, NEW q, NEW m, NEW n, SessionOK(c, q, m, n), m # <<>>,
         NEW d, d.contextVersion = c.contextVersion + 1
  PROVE  /\ VersionOf(Head(m)) = c.contextVersion
         /\ IsSequence(Tail(m)) /\ InStep(d, Tail(m), n)
<1>1. /\ IsSequence(Tail(m)) /\ Len(m) >= 1 /\ Len(Tail(m)) = Len(m) - 1 /\ Head(m) = m[1]
      /\ \A i \in 1 .. Len(m) - 1 : Tail(m)[i] = m[i + 1]
  BY TailOfSequence DEF SessionOK
<1>2. /\ c.contextVersion \in Nat /\ Len(m) \in Nat /\ c.contextVersion + Len(m) = n
      /\ \A i \in 1 .. Len(m) : VersionOf(m[i]) = c.contextVersion + i - 1
  BY SessionNumbers DEF SessionOK, InStep
<1>3. VersionOf(Head(m)) = c.contextVersion
  BY <1>1, <1>2
<1>4. d.contextVersion + Len(Tail(m)) = n
  <2>1. \A a, b \in Nat : (a + 1) + (b - 1) = a + b
    OBVIOUS
  <2> QED
    BY <1>1, <1>2, <2>1
<1>5. ASSUME NEW i \in 1 .. Len(Tail(m))
      PROVE  VersionOf(Tail(m)[i]) = d.contextVersion + i - 1
  <2>1. i \in 1 .. Len(m) - 1 /\ i + 1 \in 1 .. Len(m)
    BY <1>1, <1>2
  <2>2. VersionOf(Tail(m)[i]) = c.contextVersion + (i + 1) - 1
    BY <1>1, <1>2, <2>1
  <2>3. \A a, b \in Nat : a + (b + 1) - 1 = (a + 1) + b - 1
    OBVIOUS
  <2> QED
    BY <1>2, <2>1, <2>2, <2>3
<1> QED
  BY <1>1, <1>3, <1>4, <1>5 DEF InStep

\* An acknowledgement is that of the first operation in flight.
LEMMA AcknowledgementIsExpected ==
  ASSUME NEW c, NEW q, NEW m, NEW n, SessionOK(c, q, m, n), m # <<>>, IsAck(Head(m))
  PROVE  /\ AcknowledgementAccepted(c, Head(m).version, Head(m).sequenceNumber)
         /\ Head(m).sequenceNumber = Acked(c) + 1
         /\ Len(q) + 1 <= Len(c.inflightOperations)
<1> DEFINE k == Head(m).sequenceNumber
<1>1. /\ c.lastSequenceNumber \in Nat /\ Len(c.inflightOperations) \in Nat
      /\ Len(q) \in Nat /\ Len(m) \in Nat
      /\ Acked(c) \in Nat /\ Received(c, q) \in Nat
  BY SessionNumbers
<1>2. Len(m) >= 1 /\ Head(m) = m[1]
  BY TailOfSequence DEF SessionOK
<1>3. k \in Acked(c) + 1 .. Received(c, q)
  BY <1>1, <1>2 DEF SessionOK, AcksDue
<1>4. PICK i \in 1 .. Len(m) : IsAck(m[i]) /\ m[i].sequenceNumber = Acked(c) + 1
  <2>1. Acked(c) + 1 \in Acked(c) + 1 .. Received(c, q)
    BY <1>1, <1>3
  <2> QED
    BY <2>1 DEF SessionOK, AcksDue
<1>5. k = Acked(c) + 1
  <2>1. CASE i = 1
    BY <1>2, <1>4, <2>1
  <2>2. CASE i # 1
    <3>1. k < Acked(c) + 1
      BY <1>1, <1>2, <1>4, <2>2 DEF SessionOK, AcksDue
    <3> QED
      BY <1>1, <1>3, <3>1
  <2> QED
    BY <2>1, <2>2
<1>6. Len(q) + 1 <= Len(c.inflightOperations)
  <2>1. \A a, b, e \in Nat : (a - b) + 1 <= a - e => e + 1 <= b
    OBVIOUS
  <2>2. Acked(c) + 1 <= Received(c, q)
    BY <1>1, <1>3
  <2> QED
    BY <1>1, <2>1, <2>2 DEF Acked, Received
<1>7. c.inflightOperations # <<>>
  BY <1>1, <1>6
<1>8. Head(c.inflightOperations).seqNo = Acked(c) + 1
  BY <1>1, <1>6, <1>7, TailOfSequence DEF SessionOK, IsConcurrencyControl, Numbered
<1>9. VersionOf(Head(m)) = c.contextVersion
  BY NextMessageIsExpected, [contextVersion |-> c.contextVersion + 1].contextVersion =
       c.contextVersion + 1
<1> QED
  BY <1>5, <1>6, <1>7, <1>8, <1>9 DEF AcknowledgementAccepted, VersionOf

\* Whatever is acknowledged, or taken for it, the concurrency control remains one.
LEMMA AcknowledgingKeepsType ==
  ASSUME NEW c, IsConcurrencyControl(c), c.inflightOperations # <<>>
  PROVE  /\ IsConcurrencyControl(ProcessAcknowledgement(c))
         /\ IsConcurrencyControl([c EXCEPT !.inflightOperations = Tail(@)])
<1> DEFINE d == ProcessAcknowledgement(c)
           t == Tail(c.inflightOperations)
           e == [c EXCEPT !.inflightOperations = Tail(@)]
<1>1. /\ IsSequence(c.inflightOperations) /\ Len(c.inflightOperations) \in Nat
      /\ c.contextVersion \in Nat /\ c.contextVersion + 1 \in Nat
      /\ \A i \in DOMAIN c.inflightOperations : IsClientOperationEvent(c.inflightOperations[i])
  BY SequenceIsFunction DEF IsConcurrencyControl
<1>2. /\ IsSequence(t)
      /\ \A i \in 1 .. Len(c.inflightOperations) - 1 : t[i] = c.inflightOperations[i + 1]
      /\ DOMAIN t = 1 .. Len(c.inflightOperations) - 1
      /\ DOMAIN c.inflightOperations = 1 .. Len(c.inflightOperations)
  BY <1>1, TailOfSequence, SequenceIsFunction
<1>3. ASSUME NEW i \in DOMAIN t PROVE IsClientOperationEvent(t[i])
  <2>1. i + 1 \in DOMAIN c.inflightOperations /\ i \in 1 .. Len(c.inflightOperations) - 1
    BY <1>1, <1>2
  <2> QED
    BY <1>1, <1>2, <2>1
<1>4. /\ DOMAIN d = DOMAIN c /\ DOMAIN e = DOMAIN c
      /\ d.lastSequenceNumber = c.lastSequenceNumber /\ e.lastSequenceNumber = c.lastSequenceNumber
      /\ d.contextVersion = c.contextVersion + 1 /\ e.contextVersion = c.contextVersion
      /\ d.compoundOpInProgress = c.compoundOpInProgress
      /\ e.compoundOpInProgress = c.compoundOpInProgress
      /\ d.inflightOperations = t /\ e.inflightOperations = t
      /\ d.committed \in {c.committed, TRUE} /\ e.committed = c.committed
  BY DEF ProcessAcknowledgement, IsConcurrencyControl
<1> HIDE DEF d, e, t
<1>5. d.committed \in BOOLEAN
  BY <1>4 DEF IsConcurrencyControl
<1>6. IsConcurrencyControl(d) /\ IsConcurrencyControl(e)
  BY <1>1, <1>2, <1>3, <1>4, <1>5 DEF IsConcurrencyControl
<1> QED
  BY <1>6 DEF d, e

\* Processed, it leaves the session as it should be.
LEMMA AcknowledgingKeepsSessionOK ==
  ASSUME NEW c, NEW q, NEW m, NEW n, SessionOK(c, q, m, n), m # <<>>, IsAck(Head(m))
  PROVE  /\ SessionOK(ProcessAcknowledgement(c), q, Tail(m), n)
         /\ Received(ProcessAcknowledgement(c), q) = Received(c, q)
<1> DEFINE d == ProcessAcknowledgement(c)
<1>1. /\ c.lastSequenceNumber \in Nat /\ c.contextVersion \in Nat
      /\ Len(c.inflightOperations) \in Nat /\ Len(q) \in Nat /\ Len(m) \in Nat
      /\ Acked(c) \in Nat /\ Received(c, q) \in Nat
  BY SessionNumbers
<1>2. /\ Head(m).sequenceNumber = Acked(c) + 1
      /\ Len(q) + 1 <= Len(c.inflightOperations)
  BY AcknowledgementIsExpected
<1>3. /\ IsSequence(Tail(m)) /\ Len(m) >= 1 /\ Len(Tail(m)) = Len(m) - 1 /\ Head(m) = m[1]
      /\ \A i \in 1 .. Len(m) - 1 : Tail(m)[i] = m[i + 1]
  BY TailOfSequence DEF SessionOK
<1>4. /\ DOMAIN d = DOMAIN c
      /\ d.lastSequenceNumber = c.lastSequenceNumber
      /\ d.contextVersion = c.contextVersion + 1
      /\ d.compoundOpInProgress = c.compoundOpInProgress
      /\ d.inflightOperations = Tail(c.inflightOperations)
      /\ d.committed \in {c.committed, TRUE}
  BY DEF ProcessAcknowledgement, SessionOK, IsConcurrencyControl
<1> HIDE DEF d
<1>5. IsSequence(c.inflightOperations) /\ c.inflightOperations # <<>>
  BY <1>1, <1>2 DEF SessionOK, IsConcurrencyControl
<1>6. /\ IsSequence(d.inflightOperations)
      /\ Len(d.inflightOperations) = Len(c.inflightOperations) - 1
      /\ \A i \in 1 .. Len(c.inflightOperations) - 1 :
           d.inflightOperations[i] = c.inflightOperations[i + 1]
      /\ DOMAIN d.inflightOperations = 1 .. Len(c.inflightOperations) - 1
      /\ DOMAIN c.inflightOperations = 1 .. Len(c.inflightOperations)
  BY <1>4, <1>5, TailOfSequence, SequenceIsFunction
<1>7. IsConcurrencyControl(d)
  BY <1>5, AcknowledgingKeepsType DEF SessionOK, d
<1>8. Acked(d) = Acked(c) + 1 /\ Received(d, q) = Received(c, q)
  <2>1. \A a, b \in Nat : a - (b - 1) = (a - b) + 1
    OBVIOUS
  <2>2. d.lastSequenceNumber - Len(d.inflightOperations) =
          (c.lastSequenceNumber - Len(c.inflightOperations)) + 1
    BY <1>1, <1>4, <1>6, <2>1
  <2> QED
    BY <1>4, <2>2 DEF Acked, Received
<1>9. Numbered(d, q)
  <2>1. ASSUME NEW i \in 1 .. Len(d.inflightOperations)
        PROVE  d.inflightOperations[i].seqNo = Acked(d) + i
    <3>1. i \in 1 .. Len(c.inflightOperations) - 1 /\ i + 1 \in 1 .. Len(c.inflightOperations)
      BY <1>1, <1>6
    <3>2. d.inflightOperations[i].seqNo = Acked(c) + (i + 1)
      BY <1>6, <3>1 DEF SessionOK, Numbered
    <3>3. \A a, b \in Nat : a + (b + 1) = (a + 1) + b
      OBVIOUS
    <3> QED
      BY <1>1, <1>8, <3>1, <3>2, <3>3
  <2>2. /\ Len(q) <= Len(d.inflightOperations)
        /\ Len(d.inflightOperations) <= d.lastSequenceNumber
    BY <1>1, <1>2, <1>4, <1>6 DEF SessionOK, Numbered
  <2>3. \A i \in 1 .. Len(q) : q[i].sequenceNumber = Received(d, q) + i
    BY <1>8 DEF SessionOK, Numbered
  <2> QED
    BY <2>1, <2>2, <2>3 DEF Numbered
<1>10. InStep(d, Tail(m), n)
  BY <1>4, NextMessageIsExpected
<1>11. AcksDue(d, q, Tail(m))
  <2>1. /\ \A i \in 1 .. Len(m) :
             IsAck(m[i]) => m[i].sequenceNumber \in Acked(c) + 1 .. Received(c, q)
        /\ \A i, j \in 1 .. Len(m) :
             IsAck(m[i]) /\ IsAck(m[j]) /\ i < j => m[i].sequenceNumber < m[j].sequenceNumber
        /\ \A l \in Acked(c) + 1 .. Received(c, q) :
             \E i \in 1 .. Len(m) : IsAck(m[i]) /\ m[i].sequenceNumber = l
    BY DEF SessionOK, AcksDue
  <2>2. \A i \in 1 .. Len(Tail(m)) :
          /\ i + 1 \in 1 .. Len(m) /\ 1 \in 1 .. Len(m) /\ 1 < i + 1
          /\ Tail(m)[i] = m[i + 1]
    BY <1>1, <1>3
  <2>3. ASSUME NEW i \in 1 .. Len(Tail(m)), IsAck(Tail(m)[i])
        PROVE  Tail(m)[i].sequenceNumber \in Acked(d) + 1 .. Received(d, q)
    <3>1. /\ Tail(m)[i].sequenceNumber \in Acked(c) + 1 .. Received(c, q)
          /\ Acked(c) + 1 < Tail(m)[i].sequenceNumber
      BY <1>2, <1>3, <2>1, <2>2, <2>3
    <3> QED
      BY <1>1, <1>8, <3>1
  <2>4. ASSUME NEW i \in 1 .. Len(Tail(m)), NEW j \in 1 .. Len(Tail(m)),
               IsAck(Tail(m)[i]), IsAck(Tail(m)[j]), i < j
        PROVE  Tail(m)[i].sequenceNumber < Tail(m)[j].sequenceNumber
    BY <2>1, <2>2, <2>4, i + 1 < j + 1
  <2>5. ASSUME NEW l \in Acked(d) + 1 .. Received(d, q)
        PROVE  \E i \in 1 .. Len(Tail(m)) : IsAck(Tail(m)[i]) /\ Tail(m)[i].sequenceNumber = l
    <3>1. l \in Acked(c) + 1 .. Received(c, q) /\ l # Acked(c) + 1
      BY <1>1, <1>8
    <3>2. PICK i \in 1 .. Len(m) : IsAck(m[i]) /\ m[i].sequenceNumber = l
      BY <2>1, <3>1
    <3>3. i # 1
      BY <1>2, <1>3, <3>1, <3>2
    <3>4. i - 1 \in 1 .. Len(Tail(m)) /\ Tail(m)[i - 1] = m[i]
      BY <1>1, <1>3, <3>3
    <3> QED
      BY <3>2, <3>4
  <2> QED
    BY <2>3, <2>4, <2>5 DEF AcksDue
<1> QED
  BY <1>3, <1>7, <1>8, <1>9, <1>10, <1>11 DEF SessionOK, d

\* The operations in flight are transformed in place: none comes or goes, and each
\* keeps its sequence number.
LEMMA TransformedInPlace ==
  ASSUME NEW inflight, IsSequence(inflight),
         \A i \in DOMAIN inflight : IsClientOperationEvent(inflight[i]),
         NEW event, event.version \in Nat
  PROVE  LET t == TransformInflightOperations(inflight, event).inflight
         IN  /\ IsSequence(t) /\ Len(t) = Len(inflight)
             /\ DOMAIN t = DOMAIN inflight
             /\ \A i \in DOMAIN t : /\ IsClientOperationEvent(t[i])
                                    /\ t[i].seqNo = inflight[i].seqNo
<1> DEFINE t == TransformInflightOperations(inflight, event).inflight
           pair == PassInflight(inflight, event.operation)
<1> HIDE DEF pair
<1>1. t = [i \in DOMAIN inflight |->
             [inflight[i] EXCEPT !.contextVersion = event.version + 1,
                                 !.operation = pair[i].clientOp]]
  BY DEF TransformInflightOperations, pair
<1> HIDE DEF t
<1>2. /\ Len(inflight) \in Nat /\ DOMAIN inflight = 1 .. Len(inflight)
  BY SequenceIsFunction
<1>3. DOMAIN t = 1 .. Len(inflight) /\ t = [i \in 1 .. Len(inflight) |-> t[i]]
  BY <1>1, <1>2
<1>4. IsSequence(t) /\ Len(t) = Len(inflight)
  BY <1>2, <1>3, FunctionIsSequence
<1>5. ASSUME NEW i \in DOMAIN t
      PROVE  IsClientOperationEvent(t[i]) /\ t[i].seqNo = inflight[i].seqNo
  <2>1. /\ IsClientOperationEvent(inflight[i])
        /\ t[i] = [inflight[i] EXCEPT !.contextVersion = event.version + 1,
                                      !.operation = pair[i].clientOp]
    BY <1>1
  <2>2. /\ DOMAIN t[i] = DOMAIN inflight[i]
        /\ t[i].seqNo = inflight[i].seqNo
        /\ t[i].contextVersion = event.version + 1
    BY <2>1 DEF IsClientOperationEvent
  <2> QED
    BY <2>1, <2>2 DEF IsClientOperationEvent
<1> QED
  BY <1>2, <1>3, <1>4, <1>5 DEF t

\* A remote operation the concurrency control accepts leaves it one.
LEMMA RemoteOperationKeepsType ==
  ASSUME NEW c, IsConcurrencyControl(c), NEW event, event.version = c.contextVersion
  PROVE  IsConcurrencyControl(TakeNextIncomingOperation(ProcessRemoteOperation(c, event)))
<1> DEFINE d == TakeNextIncomingOperation(ProcessRemoteOperation(c, event))
           t == TransformInflightOperations(c.inflightOperations, event).inflight
<1>1. c.contextVersion \in Nat /\ c.contextVersion + 1 \in Nat /\ event.version \in Nat
  BY DEF IsConcurrencyControl
<1>2. IsSequence(t) /\ \A i \in DOMAIN t : IsClientOperationEvent(t[i])
  BY <1>1, TransformedInPlace DEF IsConcurrencyControl
<1> HIDE DEF t
<1>3. /\ DOMAIN d = DOMAIN c
      /\ d.lastSequenceNumber = c.lastSequenceNumber
      /\ d.contextVersion = c.contextVersion + 1
      /\ d.compoundOpInProgress = c.compoundOpInProgress
      /\ d.inflightOperations = t
      /\ d.committed = c.committed
  BY DEF TakeNextIncomingOperation, ProcessRemoteOperation, AfterPassing,
         IsConcurrencyControl, t
<1> HIDE DEF d
<1>4. IsConcurrencyControl(d)
  BY <1>1, <1>2, <1>3 DEF IsConcurrencyControl
<1> QED
  BY <1>4 DEF d

\* A remote operation is accepted and, processed and taken, leaves the session as it
\* should be.
LEMMA RemoteOperationKeepsSessionOK ==
  ASSUME NEW c, NEW q, NEW m, NEW n, SessionOK(c, q, m, n), m # <<>>, ~IsAck(Head(m)),
         NEW event, event.version = Head(m).contextVersion
  PROVE  LET d == TakeNextIncomingOperation(ProcessRemoteOperation(c, event))
         IN  /\ RemoteOperationAccepted(c, event)
             /\ SessionOK(d, q, Tail(m), n)
             /\ Received(d, q) = Received(c, q)
<1> DEFINE d == TakeNextIncomingOperation(ProcessRemoteOperation(c, event))
           t == TransformInflightOperations(c.inflightOperations, event).inflight
<1>1. /\ c.lastSequenceNumber \in Nat /\ c.contextVersion \in Nat
      /\ Len(c.inflightOperations) \in Nat /\ Len(q) \in Nat /\ Len(m) \in Nat
      /\ Acked(c) \in Nat /\ Received(c, q) \in Nat
  BY SessionNumbers
<1>2. event.version = c.contextVersion
  <2>1. VersionOf(Head(m)) = c.contextVersion
    BY NextMessageIsExpected, [contextVersion |-> c.contextVersion + 1].contextVersion =
         c.contextVersion + 1
  <2> QED
    BY <2>1 DEF VersionOf
<1>3. /\ IsSequence(Tail(m)) /\ Len(m) >= 1 /\ Len(Tail(m)) = Len(m) - 1 /\ Head(m) = m[1]
      /\ \A i \in 1 .. Len(m) - 1 : Tail(m)[i] = m[i + 1]
  BY TailOfSequence DEF SessionOK
<1>4. /\ IsSequence(t) /\ Len(t) = Len(c.inflightOperations)
      /\ DOMAIN t = DOMAIN c.inflightOperations
      /\ \A i \in DOMAIN t : /\ IsClientOperationEvent(t[i])
                             /\ t[i].seqNo = c.inflightOperations[i].seqNo
  BY <1>1, <1>2, TransformedInPlace DEF SessionOK, IsConcurrencyControl
<1> HIDE DEF t
<1>5. /\ DOMAIN d = DOMAIN c
      /\ d.lastSequenceNumber = c.lastSequenceNumber
      /\ d.contextVersion = c.contextVersion + 1
      /\ d.compoundOpInProgress = c.compoundOpInProgress
      /\ d.inflightOperations = t
      /\ d.committed = c.committed
  BY DEF TakeNextIncomingOperation, ProcessRemoteOperation, AfterPassing, SessionOK,
         IsConcurrencyControl, t
<1> HIDE DEF d
<1>6. IsConcurrencyControl(d)
  BY <1>2, RemoteOperationKeepsType DEF SessionOK, d
<1>7. Acked(d) = Acked(c) /\ Received(d, q) = Received(c, q)
  BY <1>4, <1>5 DEF Acked, Received
<1>8. Numbered(d, q)
  <2>1. DOMAIN t = 1 .. Len(t)
    BY <1>4, SequenceIsFunction
  <2>2. \A i \in 1 .. Len(d.inflightOperations) : d.inflightOperations[i].seqNo = Acked(d) + i
    BY <1>4, <1>5, <1>7, <2>1 DEF SessionOK, Numbered
  <2> QED
    BY <1>4, <1>5, <1>7, <2>2 DEF SessionOK, Numbered
<1>9. InStep(d, Tail(m), n)
  BY <1>5, NextMessageIsExpected
<1>10. AcksDue(d, q, Tail(m))
  <2>1. /\ \A i \in 1 .. Len(m) :
             IsAck(m[i]) => m[i].sequenceNumber \in Acked(d) + 1 .. Received(d, q)
        /\ \A i, j \in 1 .. Len(m) :
             IsAck(m[i]) /\ IsAck(m[j]) /\ i < j => m[i].sequenceNumber < m[j].sequenceNumber
        /\ \A l \in Acked(d) + 1 .. Received(d, q) :
             \E i \in 1 .. Len(m) : IsAck(m[i]) /\ m[i].sequenceNumber = l
    BY <1>7 DEF SessionOK, AcksDue
  <2>2. \A i \in 1 .. Len(Tail(m)) : i + 1 \in 1 .. Len(m) /\ Tail(m)[i] = m[i + 1]
    BY <1>1, <1>3
  <2>3. \A i \in 1 .. Len(Tail(m)) :
          IsAck(Tail(m)[i]) => Tail(m)[i].sequenceNumber \in Acked(d) + 1 .. Received(d, q)
    BY <2>1, <2>2
  <2>4. ASSUME NEW i \in 1 .. Len(Tail(m)), NEW j \in 1 .. Len(Tail(m)),
               IsAck(Tail(m)[i]), IsAck(Tail(m)[j]), i < j
        PROVE  Tail(m)[i].sequenceNumber < Tail(m)[j].sequenceNumber
    BY <2>1, <2>2, <2>4, i + 1 < j + 1
  <2>5. ASSUME NEW l \in Acked(d) + 1 .. Received(d, q)
        PROVE  \E i \in 1 .. Len(Tail(m)) : IsAck(Tail(m)[i]) /\ Tail(m)[i].sequenceNumber = l
    <3>1. PICK i \in 1 .. Len(m) : IsAck(m[i]) /\ m[i].sequenceNumber = l
      BY <2>1
    <3>2. i # 1
      BY <1>3, <3>1
    <3>3. i - 1 \in 1 .. Len(Tail(m)) /\ Tail(m)[i - 1] = m[i]
      BY <1>1, <1>3, <3>2
    <3> QED
      BY <3>1, <3>3
  <2> QED
    BY <2>3, <2>4, <2>5 DEF AcksDue
<1> QED
  BY <1>2, <1>3, <1>6, <1>7, <1>8, <1>9, <1>10 DEF SessionOK, RemoteOperationAccepted, d

----------------------------------------------------------------------------
(* The whole system *)

\* Nothing is numbered yet.
THEOREM InitIInv == Init => IInv
<1> SUFFICES ASSUME Init PROVE IInv
  OBVIOUS
<1> DEFINE c == NewConcurrencyControl(0, 0)
<1>1. /\ IsConcurrencyControl(c)
      /\ c.lastSequenceNumber = 0 /\ c.contextVersion = 0 /\ c.inflightOperations = <<>>
  BY EmptyIsSequence DEF NewConcurrencyControl, IsConcurrencyControl
<1> HIDE DEF c
<1>2. /\ \A s \in Session : cc[s] = c /\ toServer[s] = <<>> /\ toClient[s] = <<>>
      /\ log = <<>>
  BY DEF Init, c
<1>3. SessionOK(c, <<>>, <<>>, 0)
  BY <1>1, EmptyIsSequence DEF SessionOK, Numbered, InStep, AcksDue, Acked, Received
<1>4. TypeOK
  BY <1>1, <1>2, EmptyIsSequence DEF Init, TypeOK, c
<1>5. \A s \in Session : ~error[s]
  BY DEF Init
<1>6. \A s \in Session : LogOK(s)
  BY <1>1, <1>2, EmptyIsSequence DEF LogOK, LoggedBy, Received
<1> QED
  BY <1>2, <1>3, <1>4, <1>5, <1>6, EmptyIsSequence DEF IInv, InOrder

\* What becomes of a variable that is updated for one session.
LEMMA UpdateOne ==
  ASSUME NEW f, f = [t \in Session |-> f[t]], NEW s \in Session, NEW e,
         NEW g, g = [f EXCEPT ![s] = e]
  PROVE  /\ g = [t \in Session |-> g[t]] /\ g[s] = e
         /\ \A t \in Session \ {s} : g[t] = f[t]
  OBVIOUS

\* A variable that does not change is updated by what it was.
LEMMA UpdateSame ==
  ASSUME IInv, NEW s \in Session
  PROVE  /\ data = [data EXCEPT ![s] = data[s]] /\ cc = [cc EXCEPT ![s] = cc[s]]
         /\ toServer = [toServer EXCEPT ![s] = toServer[s]]
         /\ toClient = [toClient EXCEPT ![s] = toClient[s]]
         /\ edits = [edits EXCEPT ![s] = edits[s]] /\ edits[s] \in Nat
         /\ reentrantEdits \in Nat
<1>1. /\ data = [t \in Session |-> data[t]] /\ cc = [t \in Session |-> cc[t]]
      /\ toServer = [t \in Session |-> toServer[t]]
      /\ toClient = [t \in Session |-> toClient[t]]
      /\ edits \in [Session -> Nat] /\ reentrantEdits \in Nat
  BY DEF IInv, TypeOK
<1>2. ASSUME NEW f, f = [t \in Session |-> f[t]] PROVE f = [f EXCEPT ![s] = f[s]]
  BY <1>2
<1> QED
  BY <1>1, <1>2

\* What every step of a session does with the other variables.
Kept(s) ==
  /\ data' = [t \in Session |-> data'[t]]
  /\ edits' \in [Session -> Nat] /\ reentrantEdits' \in Nat
  /\ error' \in [Session -> BOOLEAN] /\ misordered' \in [Session -> BOOLEAN]
  /\ \A t \in Session \ {s} : error'[t] = error[t] /\ misordered'[t] = misordered[t]
  /\ UNCHANGED <<log, bridge>>

\* A step that leaves the edits alone keeps them.
LEMMA NothingEditedIsKept ==
  ASSUME IInv, NEW s \in Session, UNCHANGED <<data, edits, reentrantEdits>>,
         UNCHANGED <<error, misordered, log, bridge>>
  PROVE  Kept(s)
  BY DEF IInv, TypeOK, Kept

\* A step that edits the data of one session and counts the edits does.
LEMMA EditedIsKept ==
  ASSUME IInv, NEW s \in Session, NEW x, data' = [data EXCEPT ![s] = x],
         NEW e \in Nat, edits' = [edits EXCEPT ![s] = e], reentrantEdits' \in Nat,
         UNCHANGED <<error, misordered, log, bridge>>
  PROVE  Kept(s)
  BY DEF IInv, TypeOK, Kept

\* A step that changes one session only and leaves the server alone.  Unless the
\* session is out of order, it is as it should be afterwards.
LEMMA SessionStep ==
  ASSUME IInv, NEW s \in Session,
         NEW d, NEW q, NEW m, IsConcurrencyControl(d), IsSequence(q), IsSequence(m),
         \/ misordered'[s]
         \/ /\ InOrder(s) /\ ~error'[s] /\ SessionOK(d, q, m, Len(log))
            /\ Received(d, q) = Received(cc[s], toServer[s]),
         cc' = [cc EXCEPT ![s] = d], toServer' = [toServer EXCEPT ![s] = q],
         toClient' = [toClient EXCEPT ![s] = m], Kept(s)
  PROVE  IInv'
<1>1. /\ data = [t \in Session |-> data[t]] /\ cc = [t \in Session |-> cc[t]]
      /\ toServer = [t \in Session |-> toServer[t]]
      /\ toClient = [t \in Session |-> toClient[t]]
      /\ edits \in [Session -> Nat]
  BY DEF IInv, TypeOK
<1>2. /\ cc' = [t \in Session |-> cc'[t]] /\ cc'[s] = d
      /\ \A t \in Session \ {s} : cc'[t] = cc[t]
  BY <1>1, UpdateOne
<1>3. /\ toServer' = [t \in Session |-> toServer'[t]] /\ toServer'[s] = q
      /\ \A t \in Session \ {s} : toServer'[t] = toServer[t]
  BY <1>1, UpdateOne
<1>4. /\ toClient' = [t \in Session |-> toClient'[t]] /\ toClient'[s] = m
      /\ \A t \in Session \ {s} : toClient'[t] = toClient[t]
  BY <1>1, UpdateOne
<1>5. Kept(s)
  OBVIOUS
<1>6. \A t \in Session : /\ IsConcurrencyControl(cc'[t])
                         /\ IsSequence(toServer'[t]) /\ IsSequence(toClient'[t])
  BY <1>2, <1>3, <1>4 DEF IInv, TypeOK
<1>7. TypeOK'
  BY <1>2, <1>3, <1>4, <1>5, <1>6 DEF IInv, TypeOK, Kept
<1>8. ASSUME NEW t \in Session, InOrder(t),
             SessionOK(cc'[t], toServer'[t], toClient'[t], Len(log)), ~error'[t],
             Received(cc'[t], toServer'[t]) = Received(cc[t], toServer[t])
      PROVE  InOrder(t)'
  <2>1. LogOK(t) /\ LoggedBy(t)' = LoggedBy(t)
    BY <1>8 DEF InOrder, LoggedBy, Kept
  <2>2. LogOK(t)'
    BY <1>8, <2>1 DEF LogOK, Kept
  <2> QED
    BY <1>8, <2>2 DEF InOrder, Kept
<1>9. ASSUME NEW t \in Session PROVE misordered'[t] \/ InOrder(t)'
  <2>1. CASE t = s
    BY <1>2, <1>3, <1>4, <1>8, <2>1
  <2>2. CASE t # s
    <3>1. /\ cc'[t] = cc[t] /\ toServer'[t] = toServer[t] /\ toClient'[t] = toClient[t]
          /\ error'[t] = error[t] /\ misordered'[t] = misordered[t]
      BY <1>2, <1>3, <1>4, <1>5, <2>2 DEF Kept
    <3> QED
      BY <1>8, <3>1 DEF IInv, InOrder
  <2> QED
    BY <2>1, <2>2
<1> QED
  BY <1>7, <1>9 DEF IInv

\* In particular when it neither fails nor falls out of order.
LEMMA OrderlyStep ==
  ASSUME IInv, NEW s \in Session,
         NEW d, NEW q, NEW m, IsConcurrencyControl(d), IsSequence(q), IsSequence(m),
         InOrder(s) => /\ SessionOK(d, q, m, Len(log))
                       /\ Received(d, q) = Received(cc[s], toServer[s]),
         cc' = [cc EXCEPT ![s] = d], toServer' = [toServer EXCEPT ![s] = q],
         toClient' = [toClient EXCEPT ![s] = m], Kept(s), UNCHANGED <<error, misordered>>
  PROVE  IInv'
<1>1. misordered[s] \/ InOrder(s)
  BY DEF IInv
<1>2. \/ misordered'[s]
      \/ /\ InOrder(s) /\ ~error'[s] /\ SessionOK(d, q, m, Len(log))
         /\ Received(d, q) = Received(cc[s], toServer[s])
  BY <1>1 DEF InOrder
<1> QED
  BY <1>2, SessionStep

\* A session as the invariant has it.
LEMMA SessionOfIInv ==
  ASSUME IInv, NEW s \in Session
  PROVE  /\ IsConcurrencyControl(cc[s]) /\ IsSequence(toServer[s]) /\ IsSequence(toClient[s])
         /\ InOrder(s) => SessionOK(cc[s], toServer[s], toClient[s], Len(log))
  BY DEF IInv, TypeOK, InOrder

\* Local edits, heard or not, and the end of a batch: operations are issued and sent.
LEMMA LocalOperationStep ==
  ASSUME IInv, NEW s \in Session, LocalOperation(s)
  PROVE  IInv'
<1>1. PICK op \in LocalOperations(s, data[s]) :
        LET after == ProcessOutgoingOperation(cc[s], s, op)
        IN  /\ data' = [data EXCEPT ![s] = Apply(data[s], <<op>>)]
            /\ cc' = [cc EXCEPT ![s] = after]
            /\ toServer' = [toServer EXCEPT ![s] = AfterSending(toServer[s], cc[s], after)]
  BY DEF LocalOperation, BecomesAndSends
<1> DEFINE after == ProcessOutgoingOperation(cc[s], s, op)
<1> DEFINE sent == AfterSending(toServer[s], cc[s], after)
<1>2. /\ IsConcurrencyControl(after) /\ IsSequence(sent) /\ IsSequence(toClient[s])
      /\ InOrder(s) => /\ SessionOK(after, sent, toClient[s], Len(log))
                       /\ Received(after, sent) = Received(cc[s], toServer[s])
  BY SessionOfIInv, ProcessOutgoingIssues, SendingKeepsType, IssuingKeepsSessionOK
<1>3. edits' = [edits EXCEPT ![s] = edits[s] + 1] /\ edits[s] + 1 \in Nat
  BY UpdateSame DEF LocalOperation
<1>4. UNCHANGED <<error, toClient, log, bridge, reentrantEdits, misordered>>
  BY DEF LocalOperation
<1>5. Kept(s)
  BY <1>1, <1>3, <1>4, UpdateSame, EditedIsKept
<1>6. /\ cc' = [cc EXCEPT ![s] = after] /\ toServer' = [toServer EXCEPT ![s] = sent]
      /\ toClient' = [toClient EXCEPT ![s] = toClient[s]]
  BY <1>1, <1>4, UpdateSame
<1> HIDE DEF after, sent
<1> QED
  BY <1>2, <1>4, <1>5, <1>6, OrderlyStep

\* Two operations, issued and sent in one order.
LEMMA LocalOperationEditedWhenHeardStep ==
  ASSUME IInv, NEW s \in Session, LocalOperationEditedWhenHeard(s)
  PROVE  IInv'
<1>1. PICK op \in LocalOperations(s, data[s]) :
        \E nested \in LocalOperations(s, Apply(data[s], <<op>>)) :
          LET heard == Apply(data[s], <<op>>)
              first == ProcessOutgoingOperation(cc[s], s, nested)
              both  == ProcessOutgoingOperation(first, s, op)
          IN  /\ data' = [data EXCEPT ![s] = Apply(heard, <<nested>>)]
              /\ cc' = [cc EXCEPT ![s] = both]
              /\ toServer' = [toServer EXCEPT
                    ![s] = AfterSending(AfterSending(toServer[s], cc[s], first), first, both)]
  BY DEF LocalOperationEditedWhenHeard, SendsFirstThenSecond
<1> DEFINE heard == Apply(data[s], <<op>>)
<1>2. PICK nested \in LocalOperations(s, heard) :
        LET first == ProcessOutgoingOperation(cc[s], s, nested)
            both  == ProcessOutgoingOperation(first, s, op)
        IN  /\ data' = [data EXCEPT ![s] = Apply(heard, <<nested>>)]
            /\ cc' = [cc EXCEPT ![s] = both]
            /\ toServer' = [toServer EXCEPT
                  ![s] = AfterSending(AfterSending(toServer[s], cc[s], first), first, both)]
  BY <1>1
<1> DEFINE first == ProcessOutgoingOperation(cc[s], s, nested)
           both  == ProcessOutgoingOperation(first, s, op)
           sent  == AfterSending(toServer[s], cc[s], first)
           resent == AfterSending(sent, first, both)
<1>3. /\ IsConcurrencyControl(first) /\ IsSequence(sent)
      /\ InOrder(s) => /\ SessionOK(first, sent, toClient[s], Len(log))
                       /\ Received(first, sent) = Received(cc[s], toServer[s])
  BY SessionOfIInv, ProcessOutgoingIssues, SendingKeepsType, IssuingKeepsSessionOK
<1> HIDE DEF first, sent
<1>4. /\ IsConcurrencyControl(both) /\ IsSequence(resent) /\ IsSequence(toClient[s])
      /\ InOrder(s) => /\ SessionOK(both, resent, toClient[s], Len(log))
                       /\ Received(both, resent) = Received(cc[s], toServer[s])
  BY <1>3, SessionOfIInv, ProcessOutgoingIssues, SendingKeepsType, IssuingKeepsSessionOK
<1> HIDE DEF both
<1>6. edits' = [edits EXCEPT ![s] = edits[s] + 2] /\ edits[s] + 2 \in Nat
  BY UpdateSame DEF LocalOperationEditedWhenHeard
<1>7. UNCHANGED <<error, toClient, log, bridge, misordered>> /\ reentrantEdits' \in Nat
  BY UpdateSame DEF LocalOperationEditedWhenHeard
<1>8. Kept(s)
  BY <1>2, <1>6, <1>7, EditedIsKept
<1>9. /\ cc' = [cc EXCEPT ![s] = both] /\ toServer' = [toServer EXCEPT ![s] = resent]
      /\ toClient' = [toClient EXCEPT ![s] = toClient[s]]
  BY <1>2, <1>7, UpdateSame DEF first, both, sent
<1> HIDE DEF resent
<1> QED
  BY <1>4, <1>7, <1>8, <1>9, OrderlyStep

\* An edit made when the model is modified puts its session out of order.
LEMMA LocalOperationEditedWhenModifiedStep ==
  ASSUME IInv, NEW s \in Session, LocalOperationEditedWhenModified(s)
  PROVE  IInv'
<1>1. PICK op \in LocalOperations(s, data[s]) :
        \E nested \in LocalOperations(s, Apply(data[s], <<op>>)) :
          LET modified == Apply(data[s], <<op>>)
              first == ProcessOutgoingOperation(cc[s], s, op)
              both  == ProcessOutgoingOperation(first, s, nested)
          IN  /\ data' = [data EXCEPT ![s] = Apply(modified, <<nested>>)]
              /\ cc' = [cc EXCEPT ![s] = both]
              /\ toServer' = [toServer EXCEPT
                    ![s] = AfterSending(AfterSending(toServer[s], first, both), cc[s], first)]
  BY DEF LocalOperationEditedWhenModified, SendsSecondThenFirst
<1> DEFINE modified == Apply(data[s], <<op>>)
<1>2. PICK nested \in LocalOperations(s, modified) :
        LET first == ProcessOutgoingOperation(cc[s], s, op)
            both  == ProcessOutgoingOperation(first, s, nested)
        IN  /\ data' = [data EXCEPT ![s] = Apply(modified, <<nested>>)]
            /\ cc' = [cc EXCEPT ![s] = both]
            /\ toServer' = [toServer EXCEPT
                  ![s] = AfterSending(AfterSending(toServer[s], first, both), cc[s], first)]
  BY <1>1
<1> DEFINE first == ProcessOutgoingOperation(cc[s], s, op)
           both  == ProcessOutgoingOperation(first, s, nested)
           x     == Apply(modified, <<nested>>)
           sent  == AfterSending(AfterSending(toServer[s], first, both), cc[s], first)
<1>3. Issues(cc[s], first) /\ IsConcurrencyControl(first)
  BY SessionOfIInv, ProcessOutgoingIssues DEF Issues
<1> HIDE DEF first
<1>4. Issues(first, both)
  BY <1>3, ProcessOutgoingIssues
<1> HIDE DEF both
<1>5. IsConcurrencyControl(both) /\ IsSequence(sent) /\ IsSequence(toClient[s])
  BY <1>3, <1>4, SessionOfIInv, SendingKeepsType
<1>6. /\ cc' = [cc EXCEPT ![s] = both] /\ toServer' = [toServer EXCEPT ![s] = sent]
      /\ data' = [data EXCEPT ![s] = x]
  BY <1>2 DEF first, both
<1> HIDE DEF sent, x
<1>7. /\ edits' = [edits EXCEPT ![s] = edits[s] + 2] /\ edits[s] + 2 \in Nat
      /\ reentrantEdits' \in Nat
      /\ misordered' = [misordered EXCEPT ![s] = TRUE]
      /\ UNCHANGED <<error, toClient, log, bridge>>
  BY UpdateSame DEF LocalOperationEditedWhenModified
<1>8. Kept(s) /\ misordered'[s]
  BY <1>6, <1>7 DEF IInv, TypeOK, Kept
<1>9. toClient' = [toClient EXCEPT ![s] = toClient[s]]
  BY <1>7, UpdateSame
<1> QED
  BY <1>5, <1>6, <1>8, <1>9, SessionStep

\* The operations of a batch, issued as one.
LEMMA CompleteBatchStep ==
  ASSUME IInv, NEW s \in Session, CompleteBatch(s)
  PROVE  IInv'
<1> DEFINE after == CompleteBatchOperation(cc[s], s)
           sent  == AfterSending(toServer[s], cc[s], after)
<1>1. /\ IsConcurrencyControl(after) /\ IsSequence(sent) /\ IsSequence(toClient[s])
      /\ InOrder(s) => /\ SessionOK(after, sent, toClient[s], Len(log))
                       /\ Received(after, sent) = Received(cc[s], toServer[s])
  BY SessionOfIInv, CompleteBatchIssues, SendingKeepsType, IssuingKeepsSessionOK
<1>2. /\ cc' = [cc EXCEPT ![s] = after]
      /\ toServer' = [toServer EXCEPT ![s] = sent]
      /\ UNCHANGED <<data, error, toClient, log, bridge, edits, reentrantEdits, misordered>>
  BY DEF CompleteBatch, BecomesAndSends
<1> HIDE DEF after, sent
<1>3. Kept(s) /\ toClient' = [toClient EXCEPT ![s] = toClient[s]]
  BY <1>2, UpdateSame, NothingEditedIsKept
<1> QED
  BY <1>1, <1>2, <1>3, OrderlyStep

\* Starting and cancelling a batch touches nothing that counts.
LEMMA BatchFlagStep ==
  ASSUME IInv, NEW s \in Session, StartBatch(s) \/ CancelBatch(s)
  PROVE  IInv'
<1>1. PICK d : /\ d \in {StartBatchOperation(cc[s]), CancelBatchOperation(cc[s])}
               /\ cc' = [cc EXCEPT ![s] = d]
  BY DEF StartBatch, CancelBatch
<1>2. /\ IsConcurrencyControl(d)
      /\ d.lastSequenceNumber = cc[s].lastSequenceNumber
      /\ d.contextVersion = cc[s].contextVersion
      /\ d.inflightOperations = cc[s].inflightOperations
  BY <1>1, SessionOfIInv DEF StartBatchOperation, CancelBatchOperation, IsConcurrencyControl
<1>3. /\ IsSequence(toServer[s]) /\ IsSequence(toClient[s])
      /\ InOrder(s) => /\ SessionOK(d, toServer[s], toClient[s], Len(log))
                       /\ Received(d, toServer[s]) = Received(cc[s], toServer[s])
  BY <1>2, SessionOfIInv DEF SessionOK, Numbered, InStep, AcksDue, Acked, Received
<1>4. UNCHANGED <<data, error, toServer, toClient, log, bridge, edits, reentrantEdits, misordered>>
  BY DEF StartBatch, CancelBatch
<1>5. /\ Kept(s)
      /\ toServer' = [toServer EXCEPT ![s] = toServer[s]]
      /\ toClient' = [toClient EXCEPT ![s] = toClient[s]]
  BY <1>4, UpdateSame, NothingEditedIsKept
<1> QED
  BY <1>1, <1>2, <1>3, <1>4, <1>5, OrderlyStep

\* A message that is refused was for a session out of order.
LEMMA RefusedStep ==
  ASSUME IInv, NEW s \in Session, ~InOrder(s), CloseWithError(s), UNCHANGED <<log, bridge>>,
         NEW d, IsConcurrencyControl(d), cc' = [cc EXCEPT ![s] = d],
         toClient' = [toClient EXCEPT ![s] = Tail(toClient[s])], toClient[s] # <<>>
  PROVE  IInv'
<1>1. /\ error' = [error EXCEPT ![s] = TRUE]
      /\ UNCHANGED <<data, toServer, edits, reentrantEdits, misordered>>
  BY DEF CloseWithError
<1>2. Kept(s) /\ misordered'[s]
  BY <1>1 DEF IInv, TypeOK, Kept
<1>3. IsSequence(toServer[s]) /\ IsSequence(Tail(toClient[s]))
  BY SessionOfIInv, TailOfSequence
<1>4. toServer' = [toServer EXCEPT ![s] = toServer[s]]
  BY <1>1, UpdateSame
<1> QED
  BY <1>2, <1>3, <1>4, SessionStep

\* An acknowledgement: for a session in order it is the one expected.
LEMMA HandleOperationAckStep ==
  ASSUME IInv, NEW s \in Session, HandleOperationAck(s)
  PROVE  IInv'
<1> DEFINE d == ProcessAcknowledgement(cc[s])
           ack == Head(toClient[s])
           e == RefuseAcknowledgement(cc[s], ack.version)
<1>1. /\ toClient[s] # <<>> /\ IsAck(ack)
      /\ toClient' = [toClient EXCEPT ![s] = Tail(toClient[s])]
      /\ UNCHANGED <<log, bridge>>
  BY DEF HandleOperationAck, Incoming, TakeMessage, IsAck
<1>2. CASE AcknowledgementAccepted(cc[s], ack.version, ack.sequenceNumber)
  <2>1. /\ cc' = [cc EXCEPT ![s] = d]
        /\ UNCHANGED <<data, error, toServer, edits, reentrantEdits, misordered>>
    BY <1>2 DEF HandleOperationAck
  <2>2. IsConcurrencyControl(d)
    BY <1>2, SessionOfIInv, AcknowledgingKeepsType DEF AcknowledgementAccepted
  <2>3. IsSequence(toServer[s]) /\ IsSequence(Tail(toClient[s]))
    BY <1>1, SessionOfIInv, TailOfSequence
  <2>4. InOrder(s) => /\ SessionOK(d, toServer[s], Tail(toClient[s]), Len(log))
                      /\ Received(d, toServer[s]) = Received(cc[s], toServer[s])
    BY <1>1, SessionOfIInv, AcknowledgingKeepsSessionOK
  <2> HIDE DEF d
  <2>5. Kept(s) /\ toServer' = [toServer EXCEPT ![s] = toServer[s]]
    BY <1>1, <2>1, UpdateSame, NothingEditedIsKept
  <2> QED
    BY <1>1, <2>1, <2>2, <2>3, <2>4, <2>5, OrderlyStep
<1>3. CASE ~AcknowledgementAccepted(cc[s], ack.version, ack.sequenceNumber)
  <2>1. cc' = [cc EXCEPT ![s] = e] /\ CloseWithError(s)
    BY <1>3 DEF HandleOperationAck
  <2>2. IsConcurrencyControl(e)
    BY SessionOfIInv, AcknowledgingKeepsType DEF RefuseAcknowledgement, HasInflightOperation
  <2>3. ~InOrder(s)
    BY <1>1, <1>3, SessionOfIInv, AcknowledgementIsExpected
  <2> HIDE DEF e
  <2> QED
    BY <1>1, <2>1, <2>2, <2>3, RefusedStep
<1> QED
  BY <1>2, <1>3

\* What the handlers of a remote operation find.
LEMMA RemoteOperationIsExpected ==
  ASSUME IInv, NEW s \in Session, Incoming(s, "remoteOperation")
  PROVE  LET taken == TakeNextIncomingOperation(ProcessRemoteOperation(cc[s], Remote(s)))
         IN  /\ RemoteOperationAccepted(cc[s], Remote(s)) => IsConcurrencyControl(taken)
             /\ InOrder(s) =>
                  /\ RemoteOperationAccepted(cc[s], Remote(s))
                  /\ SessionOK(taken, toServer[s], Tail(toClient[s]), Len(log))
                  /\ Received(taken, toServer[s]) = Received(cc[s], toServer[s])
             /\ toClient[s] # <<>> /\ IsSequence(Tail(toClient[s])) /\ IsSequence(toServer[s])
             /\ toClient' = [toClient EXCEPT ![s] = Tail(toClient[s])]
             /\ UNCHANGED <<log, bridge>>
<1>1. /\ toClient[s] # <<>> /\ ~IsAck(Head(toClient[s]))
      /\ toClient' = [toClient EXCEPT ![s] = Tail(toClient[s])]
      /\ UNCHANGED <<log, bridge>>
  BY DEF Incoming, TakeMessage, IsAck
<1>2. Remote(s).version = Head(toClient[s]).contextVersion
  BY DEF Remote, ServerOperationEvent
<1>3. IsSequence(Tail(toClient[s])) /\ IsSequence(toServer[s])
  BY <1>1, SessionOfIInv, TailOfSequence
<1>4. RemoteOperationAccepted(cc[s], Remote(s)) =>
        IsConcurrencyControl(TakeNextIncomingOperation(ProcessRemoteOperation(cc[s], Remote(s))))
  BY SessionOfIInv, RemoteOperationKeepsType DEF RemoteOperationAccepted
<1> QED
  BY <1>1, <1>2, <1>3, <1>4, SessionOfIInv, RemoteOperationKeepsSessionOK

\* A remote operation is taken in, or refused, by a session that is out of order.
LEMMA HandleRemoteOperationStep ==
  ASSUME IInv, NEW s \in Session, HandleRemoteOperation(s)
  PROVE  IInv'
<1> DEFINE processed == ProcessRemoteOperation(cc[s], Remote(s))
           d == TakeNextIncomingOperation(processed)
           x == Apply(data[s], NextIncomingOperation(processed).operation)
<1>1. /\ RemoteOperationAccepted(cc[s], Remote(s)) => IsConcurrencyControl(d)
      /\ InOrder(s) => /\ RemoteOperationAccepted(cc[s], Remote(s))
                       /\ SessionOK(d, toServer[s], Tail(toClient[s]), Len(log))
                       /\ Received(d, toServer[s]) = Received(cc[s], toServer[s])
      /\ toClient[s] # <<>> /\ IsSequence(Tail(toClient[s])) /\ IsSequence(toServer[s])
      /\ toClient' = [toClient EXCEPT ![s] = Tail(toClient[s])]
      /\ UNCHANGED <<log, bridge>>
  BY RemoteOperationIsExpected DEF HandleRemoteOperation
<1>2. CASE RemoteOperationAccepted(cc[s], Remote(s))
  <2>1. /\ cc' = [cc EXCEPT ![s] = d] /\ data' = [data EXCEPT ![s] = x]
        /\ UNCHANGED <<error, toServer, edits, reentrantEdits, misordered>>
    BY <1>2 DEF HandleRemoteOperation
  <2> HIDE DEF d, x
  <2>2. /\ toServer' = [toServer EXCEPT ![s] = toServer[s]]
        /\ edits' = [edits EXCEPT ![s] = edits[s]] /\ edits[s] \in Nat /\ reentrantEdits' \in Nat
    BY <2>1, UpdateSame
  <2>3. Kept(s)
    BY <1>1, <2>1, <2>2, EditedIsKept
  <2> QED
    BY <1>1, <1>2, <2>1, <2>2, <2>3, OrderlyStep
<1>3. CASE ~RemoteOperationAccepted(cc[s], Remote(s))
  <2>1. UNCHANGED cc /\ CloseWithError(s)
    BY <1>3 DEF HandleRemoteOperation
  <2>2. cc' = [cc EXCEPT ![s] = cc[s]] /\ IsConcurrencyControl(cc[s])
    BY <2>1, UpdateSame, SessionOfIInv
  <2> QED
    BY <1>1, <1>3, <2>1, <2>2, RefusedStep
<1> QED
  BY <1>2, <1>3

\* The operation of an edit made amid it is issued once it is taken in.
LEMMA HandleRemoteOperationEditedWhenHeardStep ==
  ASSUME IInv, NEW s \in Session, HandleRemoteOperationEditedWhenHeard(s)
  PROVE  IInv'
<1> DEFINE processed == ProcessRemoteOperation(cc[s], Remote(s))
           taken == TakeNextIncomingOperation(processed)
<1>1. /\ IsConcurrencyControl(taken)
      /\ InOrder(s) => /\ SessionOK(taken, toServer[s], Tail(toClient[s]), Len(log))
                       /\ Received(taken, toServer[s]) = Received(cc[s], toServer[s])
      /\ IsSequence(Tail(toClient[s])) /\ IsSequence(toServer[s])
      /\ toClient' = [toClient EXCEPT ![s] = Tail(toClient[s])]
      /\ UNCHANGED <<log, bridge>>
  BY RemoteOperationIsExpected DEF HandleRemoteOperationEditedWhenHeard
<1>2. \E nested, x :
        LET after == ProcessOutgoingOperation(taken, s, nested)
        IN  /\ cc' = [cc EXCEPT ![s] = after]
            /\ data' = [data EXCEPT ![s] = x]
            /\ toServer' = [toServer EXCEPT ![s] = AfterSending(toServer[s], taken, after)]
  BY DEF HandleRemoteOperationEditedWhenHeard, EditsAmid, BecomesAndSends
<1> HIDE DEF taken
<1>3. PICK nested, x :
        LET after == ProcessOutgoingOperation(taken, s, nested)
        IN  /\ cc' = [cc EXCEPT ![s] = after]
            /\ data' = [data EXCEPT ![s] = x]
            /\ toServer' = [toServer EXCEPT ![s] = AfterSending(toServer[s], taken, after)]
  BY <1>2
<1> DEFINE after == ProcessOutgoingOperation(taken, s, nested)
           sent == AfterSending(toServer[s], taken, after)
<1>4. /\ IsConcurrencyControl(after) /\ IsSequence(sent)
      /\ InOrder(s) => /\ SessionOK(after, sent, Tail(toClient[s]), Len(log))
                       /\ Received(after, sent) = Received(cc[s], toServer[s])
  BY <1>1, ProcessOutgoingIssues, SendingKeepsType, IssuingKeepsSessionOK
<1>5. cc' = [cc EXCEPT ![s] = after] /\ toServer' = [toServer EXCEPT ![s] = sent]
  BY <1>3
<1>6. /\ edits' = [edits EXCEPT ![s] = edits[s] + 1] /\ edits[s] + 1 \in Nat
      /\ reentrantEdits' \in Nat /\ UNCHANGED <<error, misordered>>
  BY UpdateSame DEF HandleRemoteOperationEditedWhenHeard
<1>7. Kept(s)
  BY <1>1, <1>3, <1>6, EditedIsKept
<1> HIDE DEF after, sent
<1> QED
  BY <1>1, <1>4, <1>5, <1>6, <1>7, OrderlyStep

\* The server: the submission it receives is the next of its session, so the history
\* goes on with the next sequence number, and everybody is told the next version.
LEMMA ServerReceivesStep ==
  ASSUME IInv, NEW s \in Session, ServerReceives(s)
  PROVE  IInv'
<1> DEFINE n == Len(log)
           k == Head(toServer[s]).sequenceNumber
<1>1. PICK operation :
        /\ toServer[s] # <<>> /\ toServer' = [toServer EXCEPT ![s] = Tail(toServer[s])]
        /\ log' = Append(log, [sessionId |-> s, seqNo |-> k, operation |-> operation])
        /\ toClient' = [c \in Session |->
             Append(toClient[c], IF c = s THEN Acknowledgement(n, k)
                                 ELSE RemoteOperation(s, n, operation))]
        /\ bridge' = [c \in Session |-> bridge'[c]]
        /\ UNCHANGED <<data, cc, error, edits, reentrantEdits, misordered>>
  BY DEF ServerReceives, TakeSubmission
<1>2. InOrder(s) =>
        /\ k = Received(cc[s], toServer[s]) + 1
        /\ Received(cc[s], Tail(toServer[s])) = k
        /\ SessionOK(cc[s], Tail(toServer[s]), Append(toClient[s], Acknowledgement(n, k)), n + 1)
  BY <1>1, SessionOfIInv, ReceivingKeepsSessionOK
<1>3. \A c \in Session : InOrder(c) =>
        SessionOK(cc[c], toServer[c], Append(toClient[c], RemoteOperation(s, n, operation)), n + 1)
  BY SessionOfIInv, TellingKeepsSessionOK
<1> HIDE DEF k
<1>4. IsSequence(log) /\ toServer = [t \in Session |-> toServer[t]]
  BY DEF IInv, TypeOK
<1>5. /\ IsSequence(log') /\ Len(log') = n + 1
      /\ \A i \in 1 .. n : log'[i] = log[i]
      /\ log'[n + 1] = [sessionId |-> s, seqNo |-> k, operation |-> operation]
      /\ n \in Nat /\ DOMAIN log = 1 .. n /\ DOMAIN log' = 1 .. n + 1
  BY <1>1, <1>4, AppendToSequence, SequenceIsFunction
<1>6. /\ toServer' = [t \in Session |-> toServer'[t]] /\ toServer'[s] = Tail(toServer[s])
      /\ \A t \in Session \ {s} : toServer'[t] = toServer[t]
  BY <1>1, <1>4, UpdateOne
<1>7. /\ toClient' = [t \in Session |-> toClient'[t]]
      /\ toClient'[s] = Append(toClient[s], Acknowledgement(n, k))
      /\ \A t \in Session \ {s} :
           toClient'[t] = Append(toClient[t], RemoteOperation(s, n, operation))
  BY <1>1
<1> HIDE DEF n
<1>8. ASSUME NEW t \in Session, InOrder(t)
      PROVE  SessionOK(cc[t], toServer[t], toClient[t], Len(log))'
  <2>1. cc'[t] = cc[t]
    BY <1>1
  <2>2. CASE t = s
    BY <1>2, <1>5, <1>6, <1>7, <1>8, <2>1, <2>2
  <2>3. CASE t # s
    BY <1>3, <1>5, <1>6, <1>7, <1>8, <2>1, <2>3
  <2> QED
    BY <2>2, <2>3
<1>9. TypeOK'
  <2>1. /\ data' = [t \in Session |-> data'[t]] /\ cc' = [t \in Session |-> cc'[t]]
        /\ error' \in [Session -> BOOLEAN] /\ edits' \in [Session -> Nat]
        /\ reentrantEdits' \in Nat /\ misordered' \in [Session -> BOOLEAN]
    BY <1>1 DEF IInv, TypeOK
  <2>2. ASSUME NEW t \in Session
        PROVE  /\ IsConcurrencyControl(cc[t])'
               /\ IsSequence(toServer[t])' /\ IsSequence(toClient[t])'
    <3>1. IsSequence(toServer'[t])
      BY <1>1, <1>6, SessionOfIInv, TailOfSequence
    <3>2. IsSequence(toClient'[t])
      <4>1. \E e : toClient'[t] = Append(toClient[t], e)
        BY <1>7
      <4> QED
        BY <4>1, SessionOfIInv, AppendToSequence
    <3>3. cc'[t] = cc[t]
      BY <1>1
    <3> QED
      BY <3>1, <3>2, <3>3, SessionOfIInv
  <2>3. bridge' = [c \in Session |-> bridge'[c]]
    BY <1>1
  <2> QED
    BY <1>5, <1>6, <1>7, <2>1, <2>2, <2>3 DEF TypeOK
<1>10. ASSUME NEW t \in Session, InOrder(t) PROVE LogOK(t)'
  <2>1. LogOK(t) /\ cc'[t] = cc[t]
    BY <1>1, <1>10 DEF InOrder
  <2>2. LoggedBy(t) \subseteq 1 .. n /\ \A i \in 1 .. n : i < n + 1 /\ i # n + 1 /\ i \in 1 .. n + 1
    BY <1>5 DEF LoggedBy
  <2>3. CASE t # s
    <3>1. LoggedBy(t)' = LoggedBy(t)
      <4>1. \A i \in 1 .. n : log'[i].sessionId = t <=> log[i].sessionId = t
        BY <1>5
      <4>2. log'[n + 1].sessionId # t
        BY <1>5, <2>3
      <4>3. \A i \in 1 .. n + 1 : i \in 1 .. n \/ i = n + 1
        BY <1>5
      <4> QED
        BY <1>5, <2>2, <4>1, <4>2, <4>3 DEF LoggedBy
    <3>2. Received(cc[t], toServer[t])' = Received(cc[t], toServer[t])
      BY <1>6, <2>1, <2>3
    <3>3. \A i \in LoggedBy(t) : log'[i] = log[i]
      BY <1>5, <2>2
    <3> QED
      BY <2>1, <3>1, <3>2, <3>3 DEF LogOK
  <2>4. CASE t = s
    <3>1. LoggedBy(t)' = LoggedBy(t) \cup {n + 1}
      <4>1. \A i \in 1 .. n : log'[i].sessionId = t <=> log[i].sessionId = t
        BY <1>5
      <4>2. log'[n + 1].sessionId = t
        BY <1>5, <2>4
      <4>3. \A i \in 1 .. n + 1 : i \in 1 .. n \/ i = n + 1
        BY <1>5
      <4>4. n + 1 \in 1 .. n + 1
        BY <1>5
      <4> QED
        BY <1>5, <2>2, <4>1, <4>2, <4>3, <4>4 DEF LoggedBy
    <3>2. /\ Received(cc[t], toServer[t])' = k /\ k = Received(cc[t], toServer[t]) + 1
          /\ Received(cc[t], toServer[t]) \in Nat
      BY <1>2, <1>6, <1>10, <2>1, <2>4, SessionOfIInv, SessionNumbers
    <3>3. (\A i \in LoggedBy(t) : log'[i] = log[i]) /\ log'[n + 1].seqNo = k
      BY <1>5, <2>2
    <3>4. \A i \in LoggedBy(t) :
            log'[i].seqNo \in 1 .. Received(cc[t], toServer[t]) /\ i < n + 1 /\ i # n + 1
      BY <2>1, <2>2, <3>3 DEF LogOK
    <3>5. \A i \in LoggedBy(t)' : log'[i].seqNo \in 1 .. Received(cc[t], toServer[t])'
      <4>1. ASSUME NEW r \in Nat
            PROVE  r + 1 \in 1 .. r + 1 /\ 1 .. r \subseteq 1 .. r + 1
        OBVIOUS
      <4> QED
        BY <3>1, <3>2, <3>3, <3>4, <4>1
    <3>6. \A i, j \in LoggedBy(t)' : i < j => log'[i].seqNo < log'[j].seqNo
      <4> SUFFICES ASSUME NEW i \in LoggedBy(t)', NEW j \in LoggedBy(t)', i < j
                   PROVE  log'[i].seqNo < log'[j].seqNo
        OBVIOUS
      <4>1. i \in LoggedBy(t)
        BY <1>5, <2>2, <3>1
      <4>2. CASE j \in LoggedBy(t)
        BY <2>1, <3>3, <4>1, <4>2 DEF LogOK
      <4>3. CASE j = n + 1
        <5>1. \A r \in Nat : \A l \in 1 .. r : l < r + 1
          OBVIOUS
        <5> QED
          BY <3>2, <3>3, <3>4, <4>1, <4>3, <5>1
      <4> QED
        BY <3>1, <4>2, <4>3
    <3>7. ASSUME NEW l \in 1 .. Received(cc[t], toServer[t])'
          PROVE  \E i \in LoggedBy(t)' : log'[i].seqNo = l
      <4>1. l = k \/ l \in 1 .. Received(cc[t], toServer[t])
        <5>1. \A r \in Nat : \A j \in 1 .. r + 1 : j = r + 1 \/ j \in 1 .. r
          OBVIOUS
        <5> QED
          BY <3>2, <5>1
      <4>2. CASE l = k
        BY <3>1, <3>3, <4>2
      <4>3. CASE l \in 1 .. Received(cc[t], toServer[t])
        BY <2>1, <3>1, <3>3, <4>3 DEF LogOK
      <4> QED
        BY <4>1, <4>2, <4>3
    <3> QED
      BY <3>5, <3>6, <3>7 DEF LogOK
  <2> QED
    BY <2>3, <2>4
<1>11. ASSUME NEW t \in Session PROVE misordered'[t] \/ InOrder(t)'
  BY <1>1, <1>8, <1>10 DEF IInv, InOrder
<1> QED
  BY <1>9, <1>11 DEF IInv

\* Every step preserves the invariant.
THEOREM NextIInv == IInv /\ [Next]_vars => IInv'
<1> SUFFICES ASSUME IInv, [Next]_vars PROVE IInv'
  OBVIOUS
<1>1. ASSUME NEW s \in Session, LocalOperation(s) PROVE IInv'
  BY <1>1, LocalOperationStep
<1>2. ASSUME NEW s \in Session, LocalOperationEditedWhenHeard(s) PROVE IInv'
  BY <1>2, LocalOperationEditedWhenHeardStep
<1>3. ASSUME NEW s \in Session, StartBatch(s) \/ CancelBatch(s) PROVE IInv'
  BY <1>3, BatchFlagStep
<1>4. ASSUME NEW s \in Session, CompleteBatch(s) PROVE IInv'
  BY <1>4, CompleteBatchStep
<1>5. ASSUME NEW s \in Session, ServerReceives(s) PROVE IInv'
  BY <1>5, ServerReceivesStep
<1>6. ASSUME NEW s \in Session, HandleOperationAck(s) PROVE IInv'
  BY <1>6, HandleOperationAckStep
<1>7. ASSUME NEW s \in Session, HandleRemoteOperation(s) PROVE IInv'
  BY <1>7, HandleRemoteOperationStep
<1>8. ASSUME NEW s \in Session, HandleRemoteOperationEditedWhenHeard(s) PROVE IInv'
  BY <1>8, HandleRemoteOperationEditedWhenHeardStep
<1>9. ASSUME NEW s \in Session, LocalOperationEditedWhenModified(s) PROVE IInv'
  BY <1>9, LocalOperationEditedWhenModifiedStep
<1>10. ASSUME UNCHANGED vars PROVE IInv'
  <2>1. TypeOK'
    BY <1>10 DEF vars, IInv, TypeOK
  <2>2. ASSUME NEW s \in Session PROVE LogOK(s)' <=> LogOK(s)
    BY <1>10 DEF vars, LogOK, LoggedBy
  <2>3. ASSUME NEW s \in Session PROVE misordered'[s] \/ InOrder(s)'
    BY <1>10, <2>2 DEF vars, IInv, InOrder
  <2> QED
    BY <2>1, <2>3 DEF IInv
<1> QED
  BY <1>1, <1>2, <1>3, <1>4, <1>5, <1>6, <1>7, <1>8, <1>9, <1>10 DEF Next, HandleMessage

\* The invariant holds throughout every behaviour.
THEOREM Invariance == Spec => []IInv
  BY InitIInv, NextIInv, PTL DEF Spec

----------------------------------------------------------------------------
(* What follows *)

\* Every variable always holds what its comment says.
THEOREM TypeCorrectness == Spec => []TypeOK
<1>1. IInv => TypeOK
  BY DEF IInv
<1> QED
  BY <1>1, Invariance, PTL

\* No acknowledgement and no remote operation makes the concurrency control of a
\* session that sends its operations in order throw: the model is never closed with
\* an error.
THEOREM NeverOutOfStep == Spec => []NoConcurrencyControlError
<1>1. IInv => NoConcurrencyControlError
  BY DEF IInv, InOrder, NoConcurrencyControlError
<1> QED
  BY <1>1, Invariance, PTL

\* The server's history holds each operation of such a session once, in the order it
\* was issued, with no gap.
THEOREM LoggedOnce == Spec => []EachLoggedOnceInOrder
<1>1. IInv => EachLoggedOnceInOrder
  BY DEF IInv, InOrder, LogOK, EachLoggedOnceInOrder, Received
<1> QED
  BY <1>1, Invariance, PTL

----------------------------------------------------------------------------
(***************************************************************************)
(* What the sessions and the server do, with all that is sent,             *)
(* transformed and acknowledged, is what OrderedEdits allows.              *)
(***************************************************************************)

(* The strengthened invariant.  Orderly sessions are as IInv has them; of the *)
(* others it says nothing, but OrderedEdits still holds them to a number   *)
(* of promises.                                                            *)

\* What a session has sent and the server has logged of it has numbers that it has
\* issued, no number twice: of its concurrency control c and its submissions q.
NumberedOnce(s, c, q) ==
  /\ \A i \in 1 .. Len(q) : q[i].sequenceNumber \in 1 .. c.lastSequenceNumber
  /\ \A i \in LoggedBy(s) : log[i].seqNo \in 1 .. c.lastSequenceNumber
  /\ \A i, j \in 1 .. Len(q) : i # j => q[i].sequenceNumber # q[j].sequenceNumber
  /\ \A i \in 1 .. Len(q), j \in LoggedBy(s) : q[i].sequenceNumber # log[j].seqNo

\* What is on its way to a session that has not closed tells of the history from its
\* context version on, to the end: its own operations are acknowledged, the others come
\* as remote operations.
TellsOf(s, message, entry) ==
  /\ IsAck(message) <=> entry.sessionId = s
  /\ IsAck(message) => message.sequenceNumber = entry.seqNo

Follows(s, c, m) ==
  /\ c.contextVersion + Len(m) = Len(log)
  /\ \A i \in 1 .. Len(m) : TellsOf(s, m[i], log[c.contextVersion + i])

Tracked(s) ==
  /\ NumberedOnce(s, cc[s], toServer[s])
  /\ ~error[s] => Follows(s, cc[s], toClient[s])

RInv == IInv /\ \A s \in Session : Tracked(s)

----------------------------------------------------------------------------
(* Numbers of operations in flight *)

Numbers(inflight) == [i \in DOMAIN inflight |-> inflight[i].seqNo]

\* They are a sequence of as many natural numbers.
LEMMA NumbersAreSequence ==
  ASSUME NEW c, IsConcurrencyControl(c)
  PROVE  /\ Numbers(c.inflightOperations) \in Seq(Nat)
         /\ Len(Numbers(c.inflightOperations)) = Len(c.inflightOperations)
         /\ Len(c.inflightOperations) \in Nat
         /\ \A i \in 1 .. Len(c.inflightOperations) :
              Numbers(c.inflightOperations)[i] = c.inflightOperations[i].seqNo
<1> DEFINE f == c.inflightOperations
           N == Numbers(f)
<1>1. Len(f) \in Nat /\ DOMAIN f = 1 .. Len(f)
  BY SequenceIsFunction DEF IsConcurrencyControl
<1>2. \A i \in 1 .. Len(f) : N[i] = f[i].seqNo /\ N[i] \in Nat
  BY <1>1 DEF IsConcurrencyControl, IsClientOperationEvent, Numbers
<1>3. N = [i \in 1 .. Len(f) |-> N[i]]
  BY <1>1 DEF Numbers
<1> HIDE DEF N
<1>4. N \in [1 .. Len(f) -> Nat]
  BY <1>2, <1>3
<1>5. N \in Seq(Nat)
  BY <1>1, <1>4, SeqDef
<1>6. Len(N) = Len(f)
  BY <1>1, <1>3, FunctionIsSequence
<1> QED
  BY <1>1, <1>2, <1>5, <1>6 DEF N

\* The concurrency control c has become d by issuing n operations.
IssuedMore(c, d, n) ==
  /\ IsConcurrencyControl(d)
  /\ d.contextVersion = c.contextVersion
  /\ d.lastSequenceNumber = c.lastSequenceNumber + n
  /\ Len(d.inflightOperations) = Len(c.inflightOperations) + n
  /\ \A i \in 1 .. Len(c.inflightOperations) :
       d.inflightOperations[i] = c.inflightOperations[i]
  /\ \A i \in 1 .. n :
       d.inflightOperations[Len(c.inflightOperations) + i].seqNo = c.lastSequenceNumber + i

\* The submissions q have become r: n more, with the numbers after k, in some order.
SentMore(q, r, k, n) ==
  /\ IsSequence(r) /\ Len(r) = Len(q) + n
  /\ \A i \in 1 .. Len(q) : r[i] = q[i]
  /\ \A i \in 1 .. n : r[Len(q) + i].sequenceNumber \in k + 1 .. k + n
  /\ \A i, j \in 1 .. n :
       i # j => r[Len(q) + i].sequenceNumber # r[Len(q) + j].sequenceNumber

\* The numbers issued follow those in flight.
LEMMA NumbersOfMore ==
  ASSUME NEW c, IsConcurrencyControl(c), NEW n \in Nat, NEW d, IssuedMore(c, d, n)
  PROVE  Numbers(d.inflightOperations) =
           Numbers(c.inflightOperations) \o [i \in 1 .. n |-> c.lastSequenceNumber + i]
<1> DEFINE l == c.lastSequenceNumber
           A == Numbers(c.inflightOperations)
           B == [i \in 1 .. n |-> l + i]
           C == Numbers(d.inflightOperations)
           a == Len(c.inflightOperations)
<1>1. /\ A \in Seq(Nat) /\ Len(A) = a /\ a \in Nat
      /\ \A i \in 1 .. a : A[i] = c.inflightOperations[i].seqNo
  BY NumbersAreSequence
<1>2. /\ C \in Seq(Nat) /\ Len(C) = a + n
      /\ \A i \in 1 .. a + n : C[i] = d.inflightOperations[i].seqNo
  BY NumbersAreSequence DEF IssuedMore
<1>3. /\ \A i \in 1 .. a : d.inflightOperations[i] = c.inflightOperations[i]
      /\ \A i \in 1 .. n : d.inflightOperations[a + i].seqNo = l + i
  BY DEF IssuedMore
<1>4. l \in Nat
  BY DEF IsConcurrencyControl
<1> HIDE DEF l, a, A, C
<1>5. B \in Seq(Nat) /\ Len(B) = n /\ \A i \in 1 .. n : B[i] = l + i
  <2>1. B \in [1 .. n -> Nat]
    BY <1>4
  <2>2. B \in Seq(Nat)
    BY <2>1, SeqDef
  <2>3. Len(B) = n
    BY FunctionIsSequence
  <2> QED
    BY <2>2, <2>3
<1> HIDE DEF B
<1>6. /\ A \o B \in Seq(Nat) /\ Len(A \o B) = a + n
      /\ \A i \in 1 .. a + n : (A \o B)[i] = IF i <= a THEN A[i] ELSE B[i - a]
  BY <1>1, <1>5, ConcatProperties
<1>7. ASSUME NEW i \in 1 .. a + n PROVE C[i] = (A \o B)[i]
  <2>1. CASE i <= a
    <3>1. i \in 1 .. a
      BY <1>1, <2>1
    <3>2. A[i] = d.inflightOperations[i].seqNo
      BY <1>1, <1>3, <3>1
    <3> QED
      BY <1>2, <1>6, <2>1, <3>2
  <2>2. CASE ~(i <= a)
    <3>1. i - a \in 1 .. n /\ a + (i - a) = i
      BY <1>1, <2>2
    <3>2. d.inflightOperations[a + (i - a)].seqNo = l + (i - a)
      BY <1>3, <3>1
    <3>3. B[i - a] = l + (i - a)
      BY <1>5, <3>1
    <3> QED
      BY <1>2, <1>6, <2>2, <3>1, <3>2, <3>3
  <2> QED
    BY <2>1, <2>2
<1>8. C = A \o B
  BY <1>2, <1>6, <1>7, SeqEqual
<1> QED
  BY <1>8 DEF A, B, C, l

\* The first in flight has the first number, and taken out, takes it along.
LEMMA NumbersOfTail ==
  ASSUME NEW c, IsConcurrencyControl(c), c.inflightOperations # <<>>
  PROVE  /\ Numbers(c.inflightOperations) # <<>>
         /\ Head(Numbers(c.inflightOperations)) = Head(c.inflightOperations).seqNo
         /\ Numbers(Tail(c.inflightOperations)) = Tail(Numbers(c.inflightOperations))
<1> DEFINE f == c.inflightOperations
           t == Tail(f)
           N == Numbers(f)
           M == Numbers(t)
<1>1. /\ N \in Seq(Nat) /\ Len(N) = Len(f) /\ Len(f) \in Nat
      /\ \A i \in 1 .. Len(f) : N[i] = f[i].seqNo
  BY NumbersAreSequence
<1>2. /\ IsSequence(t) /\ Len(f) >= 1 /\ Len(t) = Len(f) - 1 /\ Head(f) = f[1]
      /\ \A i \in 1 .. Len(f) - 1 : t[i] = f[i + 1]
  BY TailOfSequence DEF IsConcurrencyControl
<1>3. DOMAIN t = 1 .. Len(f) - 1
  BY <1>2, SequenceIsFunction
<1>4. M = [i \in 1 .. Len(f) - 1 |-> M[i]] /\ \A i \in 1 .. Len(f) - 1 : M[i] = f[i + 1].seqNo
  BY <1>2, <1>3 DEF Numbers
<1> HIDE DEF f, t, N, M
<1>5. N # <<>>
  BY <1>1, <1>2
<1>6. /\ Head(N) = N[1] /\ Tail(N) \in Seq(Nat) /\ Len(Tail(N)) = Len(f) - 1
      /\ \A i \in 1 .. Len(f) - 1 : Tail(N)[i] = N[i + 1]
  BY <1>1, <1>5, HeadTailProperties
<1>7. \A i \in 1 .. Len(f) - 1 : M[i] = Tail(N)[i]
  <2> SUFFICES ASSUME NEW i \in 1 .. Len(f) - 1 PROVE M[i] = Tail(N)[i]
    OBVIOUS
  <2>1. i + 1 \in 1 .. Len(f)
    BY <1>1
  <2> QED
    BY <1>1, <1>4, <1>6, <2>1
<1>8. Tail(N) = [i \in 1 .. Len(f) - 1 |-> Tail(N)[i]]
  BY <1>6, LenProperties
<1>9. M = Tail(N)
  BY <1>4, <1>7, <1>8
<1> QED
  BY <1>1, <1>2, <1>5, <1>6, <1>9 DEF f, t, N, M

----------------------------------------------------------------------------
(* A session that issues operations *)

\* None, or one more.
LEMMA IssuesAndSends ==
  ASSUME NEW c, IsConcurrencyControl(c), NEW d, Issues(c, d), NEW q, IsSequence(q)
  PROVE  \E n \in 0 .. 1 :
           /\ IssuedMore(c, d, n) /\ SentMore(q, AfterSending(q, c, d), c.lastSequenceNumber, n)
           /\ n = 0 <=> d.lastSequenceNumber = c.lastSequenceNumber
<1> DEFINE r == AfterSending(q, c, d)
           a == Len(c.inflightOperations)
           l == c.lastSequenceNumber
<1>1. IsSequence(c.inflightOperations) /\ a \in Nat /\ l \in Nat /\ Len(q) \in Nat
  BY SequenceIsFunction DEF IsConcurrencyControl
<1>2. CASE d.lastSequenceNumber = l
  <2>1. d.inflightOperations = c.inflightOperations /\ r = q
    BY <1>1, <1>2 DEF Issues, AfterSending
  <2>2. IssuedMore(c, d, 0)
    BY <1>1, <1>2, <2>1 DEF Issues, IssuedMore
  <2>3. SentMore(q, r, l, 0)
    BY <1>1, <2>1 DEF SentMore
  <2> QED
    BY <1>2, <2>2, <2>3
<1>3. CASE d.lastSequenceNumber # l
  <2>1. PICK event : /\ event.seqNo = l + 1 /\ d.lastSequenceNumber = l + 1
                     /\ d.inflightOperations = Append(c.inflightOperations, event)
    BY <1>3 DEF Issues
  <2>2. /\ Len(d.inflightOperations) = a + 1
        /\ \A i \in 1 .. a : d.inflightOperations[i] = c.inflightOperations[i]
        /\ d.inflightOperations[a + 1] = event
    BY <1>1, <2>1, AppendToSequence
  <2>3. r = Append(q, OperationSubmission(event))
    BY <1>3, <2>2 DEF AfterSending
  <2>4. /\ IsSequence(r) /\ Len(r) = Len(q) + 1
        /\ \A i \in 1 .. Len(q) : r[i] = q[i]
        /\ r[Len(q) + 1].sequenceNumber = l + 1
    BY <2>1, <2>3, AppendToSequence DEF OperationSubmission
  <2> HIDE DEF r
  <2>5. \A i \in 1 .. 1 : i = 1
    OBVIOUS
  <2>6. IssuedMore(c, d, 1)
    BY <1>1, <2>1, <2>2, <2>5 DEF Issues, IssuedMore
  <2>7. SentMore(q, r, l, 1)
    BY <1>1, <2>4, <2>5 DEF SentMore
  <2> QED
    BY <1>3, <2>6, <2>7 DEF r
<1> QED
  BY <1>2, <1>3

\* One call after the other.
LEMMA IssuedAfterIssued ==
  ASSUME NEW c, IsConcurrencyControl(c), NEW m \in Nat, NEW n \in Nat,
         NEW d, IssuedMore(c, d, m), NEW e, IssuedMore(d, e, n)
  PROVE  IssuedMore(c, e, m + n)
<1> DEFINE a == Len(c.inflightOperations)
           l == c.lastSequenceNumber
<1>1. a \in Nat /\ l \in Nat
  BY SequenceIsFunction DEF IsConcurrencyControl
<1>2. /\ Len(d.inflightOperations) = a + m /\ d.lastSequenceNumber = l + m
      /\ \A i \in 1 .. a : d.inflightOperations[i] = c.inflightOperations[i]
      /\ \A i \in 1 .. m : d.inflightOperations[a + i].seqNo = l + i
      /\ d.contextVersion = c.contextVersion
  BY DEF IssuedMore
<1>3. /\ Len(e.inflightOperations) = (a + m) + n /\ e.lastSequenceNumber = (l + m) + n
      /\ \A i \in 1 .. a + m : e.inflightOperations[i] = d.inflightOperations[i]
      /\ \A i \in 1 .. n : e.inflightOperations[(a + m) + i].seqNo = (l + m) + i
      /\ e.contextVersion = d.contextVersion
      /\ IsConcurrencyControl(e)
  BY <1>2 DEF IssuedMore
<1> HIDE DEF a, l
<1>4. Len(e.inflightOperations) = a + (m + n) /\ e.lastSequenceNumber = l + (m + n)
  BY <1>1, <1>3
<1>5. \A i \in 1 .. a : e.inflightOperations[i] = c.inflightOperations[i]
  <2>1. \A i \in 1 .. a : i \in 1 .. a + m
    BY <1>1
  <2> QED
    BY <1>2, <1>3, <2>1
<1>6. ASSUME NEW i \in 1 .. m + n PROVE e.inflightOperations[a + i].seqNo = l + i
  <2>1. CASE i <= m
    <3>1. i \in 1 .. m /\ a + i \in 1 .. a + m
      BY <1>1, <2>1
    <3> QED
      BY <1>2, <1>3, <3>1
  <2>2. CASE ~(i <= m)
    <3>1. i - m \in 1 .. n /\ (a + m) + (i - m) = a + i /\ (l + m) + (i - m) = l + i
      BY <1>1, <2>2
    <3>2. e.inflightOperations[(a + m) + (i - m)].seqNo = (l + m) + (i - m)
      BY <1>3, <3>1
    <3> QED
      BY <3>1, <3>2
  <2> QED
    BY <2>1, <2>2
<1> QED
  BY <1>2, <1>3, <1>4, <1>5, <1>6 DEF IssuedMore, a, l

\* One submission after another, whichever number comes first.
LEMMA SentAfterSent ==
  ASSUME NEW q, IsSequence(q), NEW k \in Nat, NEW m \in Nat, NEW n \in Nat,
         NEW j \in Nat, NEW l \in Nat, (j = k /\ l = k + m) \/ (j = k + n /\ l = k),
         NEW r, SentMore(q, r, j, m), NEW u, SentMore(r, u, l, n)
  PROVE  SentMore(q, u, k, m + n)
<1> DEFINE a == Len(q)
<1>1. a \in Nat
  BY SequenceIsFunction
<1>2. /\ Len(r) = a + m /\ \A i \in 1 .. a : r[i] = q[i]
      /\ \A i \in 1 .. m : r[a + i].sequenceNumber \in j + 1 .. j + m
      /\ \A x, y \in 1 .. m : x # y => r[a + x].sequenceNumber # r[a + y].sequenceNumber
  BY DEF SentMore
<1>3. /\ IsSequence(u) /\ Len(u) = (a + m) + n /\ \A i \in 1 .. a + m : u[i] = r[i]
      /\ \A i \in 1 .. n : u[(a + m) + i].sequenceNumber \in l + 1 .. l + n
      /\ \A x, y \in 1 .. n :
           x # y => u[(a + m) + x].sequenceNumber # u[(a + m) + y].sequenceNumber
  BY <1>2 DEF SentMore
<1> HIDE DEF a
<1>4. Len(u) = a + (m + n) /\ \A i \in 1 .. a : u[i] = q[i]
  BY <1>1, <1>2, <1>3
<1>5. ASSUME NEW i \in 1 .. m + n
      PROVE  \/ /\ i \in 1 .. m /\ u[a + i] = r[a + i]
                /\ u[a + i].sequenceNumber \in j + 1 .. j + m
             \/ /\ i - m \in 1 .. n /\ u[a + i] = u[(a + m) + (i - m)]
                /\ u[a + i].sequenceNumber \in l + 1 .. l + n
  <2>1. CASE i <= m
    <3>1. i \in 1 .. m /\ a + i \in 1 .. a + m
      BY <1>1, <2>1
    <3> QED
      BY <1>2, <1>3, <3>1
  <2>2. CASE ~(i <= m)
    <3>1. i - m \in 1 .. n /\ (a + m) + (i - m) = a + i
      BY <1>1, <2>2
    <3>2. u[(a + m) + (i - m)].sequenceNumber \in l + 1 .. l + n
      BY <1>3, <3>1
    <3> QED
      BY <3>1, <3>2
  <2> QED
    BY <2>1, <2>2
<1>6. \A i \in 1 .. m + n : u[a + i].sequenceNumber \in k + 1 .. k + (m + n)
  <2>1. \A x \in j + 1 .. j + m : x \in k + 1 .. k + (m + n)
    OBVIOUS
  <2>2. \A x \in l + 1 .. l + n : x \in k + 1 .. k + (m + n)
    OBVIOUS
  <2> QED
    BY <1>5, <2>1, <2>2
<1>7. ASSUME NEW x \in 1 .. m + n, NEW y \in 1 .. m + n, x # y
      PROVE  u[a + x].sequenceNumber # u[a + y].sequenceNumber
  <2>1. \A v \in j + 1 .. j + m : v \notin l + 1 .. l + n
    OBVIOUS
  <2>2. CASE x \in 1 .. m /\ y \in 1 .. m
    <3>1. u[a + x] = r[a + x] /\ u[a + y] = r[a + y]
      <4>1. \A i \in 1 .. m : a + i \in 1 .. a + m
        BY <1>1
      <4> QED
        BY <1>3, <2>2, <4>1
    <3> QED
      BY <1>2, <1>7, <2>2, <3>1
  <2>3. CASE x - m \in 1 .. n /\ y - m \in 1 .. n
    <3>1. x - m # y - m
      BY <1>7
    <3>2. (a + m) + (x - m) = a + x /\ (a + m) + (y - m) = a + y
      BY <1>1
    <3> QED
      BY <1>3, <2>3, <3>1, <3>2
  <2>4. CASE u[a + x].sequenceNumber \in j + 1 .. j + m /\ u[a + y].sequenceNumber \in l + 1 .. l + n
    BY <2>1, <2>4
  <2>5. CASE u[a + y].sequenceNumber \in j + 1 .. j + m /\ u[a + x].sequenceNumber \in l + 1 .. l + n
    BY <2>1, <2>5
  <2> QED
    BY <1>5, <2>2, <2>3, <2>4, <2>5
<1> QED
  BY <1>3, <1>4, <1>6, <1>7 DEF SentMore, a

\* Numbers issued and sent only now are no number twice.
LEMMA SendingKeepsNumbered ==
  ASSUME IInv, NEW s \in Session, NEW c, IsConcurrencyControl(c),
         NEW q, IsSequence(q), NumberedOnce(s, c, q),
         NEW n \in Nat, NEW d, IssuedMore(c, d, n),
         NEW r, SentMore(q, r, c.lastSequenceNumber, n)
  PROVE  NumberedOnce(s, d, r)
<1> DEFINE a == Len(q)
           l == c.lastSequenceNumber
<1>1. a \in Nat /\ l \in Nat /\ d.lastSequenceNumber = l + n
  BY SequenceIsFunction DEF IsConcurrencyControl, IssuedMore
<1>2. /\ Len(r) = a + n /\ \A i \in 1 .. a : r[i] = q[i]
      /\ \A i \in 1 .. n : r[a + i].sequenceNumber \in l + 1 .. l + n
      /\ \A i, j \in 1 .. n : i # j => r[a + i].sequenceNumber # r[a + j].sequenceNumber
  BY DEF SentMore
<1>3. /\ \A i \in 1 .. a : q[i].sequenceNumber \in 1 .. l
      /\ \A i \in LoggedBy(s) : log[i].seqNo \in 1 .. l
      /\ \A i, j \in 1 .. a : i # j => q[i].sequenceNumber # q[j].sequenceNumber
      /\ \A i \in 1 .. a, j \in LoggedBy(s) : q[i].sequenceNumber # log[j].seqNo
  BY DEF NumberedOnce
<1> HIDE DEF a, l
<1>4. ASSUME NEW i \in 1 .. a + n
      PROVE  \/ i \in 1 .. a /\ r[i] = q[i] /\ r[i].sequenceNumber \in 1 .. l
             \/ /\ i - a \in 1 .. n /\ r[i] = r[a + (i - a)]
                /\ r[i].sequenceNumber \in l + 1 .. l + n
  <2>1. CASE i <= a
    <3>1. i \in 1 .. a
      BY <1>1, <2>1
    <3> QED
      BY <1>2, <1>3, <3>1
  <2>2. CASE ~(i <= a)
    <3>1. i - a \in 1 .. n /\ a + (i - a) = i
      BY <1>1, <2>2
    <3>2. r[a + (i - a)].sequenceNumber \in l + 1 .. l + n
      BY <1>2, <3>1
    <3> QED
      BY <3>1, <3>2
  <2> QED
    BY <2>1, <2>2
<1>5. /\ \A v \in 1 .. l : v \in 1 .. l + n /\ v \notin l + 1 .. l + n
      /\ \A v \in l + 1 .. l + n : v \in 1 .. l + n
  BY <1>1
<1>6. \A i \in 1 .. a + n : r[i].sequenceNumber \in 1 .. l + n
  BY <1>4, <1>5
<1>7. \A i \in LoggedBy(s) : log[i].seqNo \in 1 .. l + n
  BY <1>3, <1>5
<1>8. ASSUME NEW i \in 1 .. a + n, NEW j \in 1 .. a + n, i # j
      PROVE  r[i].sequenceNumber # r[j].sequenceNumber
  <2>1. CASE i - a \in 1 .. n /\ j - a \in 1 .. n
    <3>1. i - a # j - a
      BY <1>1, <1>8
    <3>2. a + (i - a) = i /\ a + (j - a) = j
      BY <1>1
    <3> QED
      BY <1>2, <2>1, <3>1, <3>2
  <2>2. CASE i \in 1 .. a /\ j \in 1 .. a
    BY <1>2, <1>3, <1>8, <2>2
  <2> QED
    BY <1>4, <1>5, <2>1, <2>2
<1>9. \A i \in 1 .. a + n, j \in LoggedBy(s) : r[i].sequenceNumber # log[j].seqNo
  BY <1>3, <1>4, <1>5
<1> QED
  BY <1>1, <1>2, <1>6, <1>7, <1>8, <1>9 DEF NumberedOnce

----------------------------------------------------------------------------
(* Steps that keep the invariant *)

\* A step that changes one session only and leaves the server alone.
LEMMA TrackedAfterSessionStep ==
  ASSUME RInv, NEW s \in Session, NEW d, NEW q, NEW m, NumberedOnce(s, d, q),
         ~error'[s] => ~error[s] /\ Follows(s, d, m),
         cc' = [cc EXCEPT ![s] = d], toServer' = [toServer EXCEPT ![s] = q],
         toClient' = [toClient EXCEPT ![s] = m], UNCHANGED log,
         \A t \in Session \ {s} : error'[t] = error[t]
  PROVE  \A t \in Session : Tracked(t)'
<1>1. /\ cc = [t \in Session |-> cc[t]] /\ toServer = [t \in Session |-> toServer[t]]
      /\ toClient = [t \in Session |-> toClient[t]]
  BY DEF RInv, IInv, TypeOK
<1>2. /\ cc'[s] = d /\ toServer'[s] = q /\ toClient'[s] = m
      /\ \A t \in Session \ {s} :
           cc'[t] = cc[t] /\ toServer'[t] = toServer[t] /\ toClient'[t] = toClient[t]
  BY <1>1
<1>3. ASSUME NEW t \in Session PROVE Tracked(t)'
  <2>1. LoggedBy(t)' = LoggedBy(t)
    BY DEF LoggedBy
  <2>2. CASE t = s
    BY <1>2, <2>1, <2>2 DEF Tracked, NumberedOnce, Follows
  <2>3. CASE t # s
    <3>1. Tracked(t) /\ t \in Session \ {s}
      BY <2>3 DEF RInv
    <3>2. /\ cc'[t] = cc[t] /\ toServer'[t] = toServer[t] /\ toClient'[t] = toClient[t]
          /\ error'[t] = error[t]
      BY <1>2, <3>1
    <3> QED
      BY <2>1, <3>1, <3>2 DEF Tracked, NumberedOnce, Follows
  <2> QED
    BY <2>2, <2>3
<1> QED
  BY <1>3

\* The next message tells of the next entry of the history.
LEMMA NextMessageTells ==
  ASSUME NEW s, NEW c, c.contextVersion \in Nat, NEW m, IsSequence(m), m # <<>>,
         Follows(s, c, m), NEW d, d.contextVersion = c.contextVersion + 1
  PROVE  /\ c.contextVersion < Len(log)
         /\ TellsOf(s, Head(m), log[c.contextVersion + 1])
         /\ Follows(s, d, Tail(m))
<1> DEFINE v == c.contextVersion
<1>1. /\ Len(m) \in Nat /\ Len(m) >= 1 /\ Len(Tail(m)) = Len(m) - 1 /\ Head(m) = m[1]
      /\ \A i \in 1 .. Len(m) - 1 : Tail(m)[i] = m[i + 1]
  BY TailOfSequence, SequenceIsFunction
<1>2. v + Len(m) = Len(log) /\ \A i \in 1 .. Len(m) : TellsOf(s, m[i], log[v + i])
  BY DEF Follows
<1>3. v \in Nat /\ d.contextVersion = v + 1
  OBVIOUS
<1> HIDE DEF v
<1>4. v < Len(log) /\ TellsOf(s, Head(m), log[v + 1])
  BY <1>1, <1>2, <1>3
<1>5. (v + 1) + Len(Tail(m)) = Len(log)
  BY <1>1, <1>2, <1>3
<1>6. ASSUME NEW i \in 1 .. Len(Tail(m)) PROVE TellsOf(s, Tail(m)[i], log[(v + 1) + i])
  <2>1. i \in 1 .. Len(m) - 1 /\ i + 1 \in 1 .. Len(m) /\ (v + 1) + i = v + (i + 1)
    BY <1>1, <1>3
  <2>2. TellsOf(s, m[i + 1], log[v + (i + 1)])
    BY <1>2, <2>1
  <2> QED
    BY <1>1, <2>1, <2>2
<1> QED
  BY <1>3, <1>4, <1>5, <1>6 DEF Follows, v

\* What a submission received does: of its number, the history goes on with it, and
\* everybody is told.
LEMMA TrackedAfterServerReceives ==
  ASSUME RInv, NEW s \in Session, ServerReceives(s)
  PROVE  /\ \A t \in Session : Tracked(t)'
         /\ \E k \in 1 .. cc[s].lastSequenceNumber : \E operation :
              /\ k = Head(toServer[s]).sequenceNumber
              /\ log' = Append(log, [sessionId |-> s, seqNo |-> k, operation |-> operation])
              /\ \A i \in LoggedBy(s) : log[i].seqNo # k
<1> DEFINE n == Len(log)
           k == Head(toServer[s]).sequenceNumber
           q == toServer[s]
<1>1. PICK operation :
        /\ toServer[s] # <<>> /\ toServer' = [toServer EXCEPT ![s] = Tail(toServer[s])]
        /\ log' = Append(log, [sessionId |-> s, seqNo |-> k, operation |-> operation])
        /\ toClient' = [c \in Session |->
             Append(toClient[c], IF c = s THEN Acknowledgement(n, k)
                                 ELSE RemoteOperation(s, n, operation))]
        /\ UNCHANGED <<cc, error>>
  BY DEF ServerReceives, TakeSubmission
<1>2. /\ IsSequence(log) /\ IInv
      /\ \A t \in Session : /\ IsSequence(toServer[t]) /\ IsSequence(toClient[t])
                            /\ IsConcurrencyControl(cc[t]) /\ Tracked(t)
      /\ toServer = [t \in Session |-> toServer[t]]
  BY DEF RInv, IInv, TypeOK
<1>3. /\ Len(log') = n + 1 /\ DOMAIN log' = 1 .. n + 1 /\ DOMAIN log = 1 .. n /\ n \in Nat
      /\ \A i \in 1 .. n : log'[i] = log[i]
      /\ log'[n + 1] = [sessionId |-> s, seqNo |-> k, operation |-> operation]
  BY <1>1, <1>2, AppendToSequence, SequenceIsFunction
<1>4. /\ Len(q) \in Nat /\ Len(q) >= 1 /\ Len(Tail(q)) = Len(q) - 1 /\ Head(q) = q[1]
      /\ \A i \in 1 .. Len(q) - 1 : Tail(q)[i] = q[i + 1]
  BY <1>1, <1>2, TailOfSequence, SequenceIsFunction
<1>5. /\ toServer'[s] = Tail(q) /\ \A t \in Session \ {s} : toServer'[t] = toServer[t]
  BY <1>1, <1>2
<1>6. k = q[1].sequenceNumber
  BY <1>4
<1> HIDE DEF n, k, q
<1>7. NumberedOnce(s, cc[s], q)
  BY <1>2 DEF Tracked, q
<1>8. k \in 1 .. cc[s].lastSequenceNumber /\ \A i \in LoggedBy(s) : log[i].seqNo # k
  <2>1. 1 \in 1 .. Len(q)
    BY <1>4
  <2> QED
    BY <1>6, <1>7, <2>1 DEF NumberedOnce
<1>9. \A i \in 1 .. n + 1 : i \in 1 .. n \/ i = n + 1
  BY <1>3
<1>10. /\ \A t \in Session \ {s} : LoggedBy(t)' = LoggedBy(t)
       /\ LoggedBy(s)' = LoggedBy(s) \cup {n + 1}
       /\ \A t \in Session : LoggedBy(t) \subseteq 1 .. n
  <2>1. \A t \in Session : \A i \in 1 .. n : log'[i].sessionId = t <=> log[i].sessionId = t
    BY <1>3
  <2>2. log'[n + 1].sessionId = s /\ n + 1 \in 1 .. n + 1 /\ 1 .. n \subseteq 1 .. n + 1
    BY <1>3
  <2> QED
    BY <1>3, <1>9, <2>1, <2>2 DEF LoggedBy
<1>11. ASSUME NEW t \in Session PROVE NumberedOnce(t, cc[t], toServer[t])'
  <2>1. NumberedOnce(t, cc[t], toServer[t]) /\ cc'[t] = cc[t]
    BY <1>1, <1>2 DEF Tracked
  <2>2. CASE t # s
    <3>1. LoggedBy(t)' = LoggedBy(t) /\ toServer'[t] = toServer[t]
      BY <1>5, <1>10, <2>2
    <3>2. \A i \in LoggedBy(t) : log'[i] = log[i]
      BY <1>3, <1>10
    <3> QED
      BY <2>1, <3>1, <3>2 DEF NumberedOnce
  <2>3. CASE t = s
    <3>1. /\ toServer'[t] = Tail(q) /\ LoggedBy(t)' = LoggedBy(t) \cup {n + 1}
          /\ \A i \in LoggedBy(t) : log'[i] = log[i]
          /\ log'[n + 1].seqNo = k
      BY <1>3, <1>5, <1>10, <2>3
    <3>2. \A i \in 1 .. Len(Tail(q)) :
            Tail(q)[i] = q[i + 1] /\ i + 1 \in 1 .. Len(q) /\ i + 1 # 1 /\ 1 \in 1 .. Len(q)
      BY <1>4
    <3>3. /\ \A i \in 1 .. Len(q) : q[i].sequenceNumber \in 1 .. cc[t].lastSequenceNumber
          /\ \A i \in LoggedBy(t) : log[i].seqNo \in 1 .. cc[t].lastSequenceNumber
          /\ \A i, j \in 1 .. Len(q) : i # j => q[i].sequenceNumber # q[j].sequenceNumber
          /\ \A i \in 1 .. Len(q), j \in LoggedBy(t) : q[i].sequenceNumber # log[j].seqNo
      BY <2>1, <2>3 DEF NumberedOnce, q
    <3>4. \A i \in 1 .. Len(Tail(q)) : Tail(q)[i].sequenceNumber \in 1 .. cc[t].lastSequenceNumber
      BY <3>2, <3>3
    <3>5. \A i \in LoggedBy(t)' : log'[i].seqNo \in 1 .. cc[t].lastSequenceNumber
      BY <1>8, <2>3, <3>1, <3>3
    <3>6. ASSUME NEW i \in 1 .. Len(Tail(q)), NEW j \in 1 .. Len(Tail(q)), i # j
          PROVE  Tail(q)[i].sequenceNumber # Tail(q)[j].sequenceNumber
      <4>1. i + 1 # j + 1
        BY <3>6
      <4> QED
        BY <3>2, <3>3, <4>1
    <3>7. ASSUME NEW i \in 1 .. Len(Tail(q)), NEW j \in LoggedBy(t)'
          PROVE  Tail(q)[i].sequenceNumber # log'[j].seqNo
      <4>1. CASE j \in LoggedBy(t)
        BY <3>1, <3>2, <3>3, <4>1
      <4>2. CASE j = n + 1
        BY <1>6, <3>1, <3>2, <3>3, <4>2
      <4> QED
        BY <3>1, <4>1, <4>2
    <3> QED
      BY <2>1, <3>1, <3>4, <3>5, <3>6, <3>7 DEF NumberedOnce
  <2> QED
    BY <2>2, <2>3
<1>12. ASSUME NEW t \in Session, ~error'[t] PROVE Follows(t, cc[t], toClient[t])'
  <2> DEFINE m == toClient[t]
             message == IF t = s THEN Acknowledgement(n, k) ELSE RemoteOperation(s, n, operation)
             v == cc[t].contextVersion
  <2>1. /\ toClient'[t] = Append(m, message) /\ cc'[t] = cc[t] /\ ~error[t]
        /\ v \in Nat
    BY <1>1, <1>2, <1>12 DEF IsConcurrencyControl, n, k
  <2>2. /\ Len(m) \in Nat /\ Len(Append(m, message)) = Len(m) + 1
        /\ \A i \in 1 .. Len(m) : Append(m, message)[i] = m[i]
        /\ Append(m, message)[Len(m) + 1] = message
    BY <1>2, AppendToSequence, SequenceIsFunction
  <2>3. v + Len(m) = n /\ \A i \in 1 .. Len(m) : TellsOf(t, m[i], log[v + i])
    BY <1>2, <2>1 DEF Tracked, Follows, n
  <2>4. TellsOf(t, message, log'[n + 1])
    <3>1. /\ t = s => IsAck(message) /\ message.sequenceNumber = k
          /\ t # s => ~IsAck(message)
      BY DEF IsAck, Acknowledgement, RemoteOperation
    <3> QED
      BY <1>3, <3>1 DEF TellsOf
  <2> HIDE DEF m, message, v
  <2>5. v + (Len(m) + 1) = n + 1
    BY <2>1, <2>2, <2>3
  <2>6. ASSUME NEW i \in 1 .. Len(m) + 1 PROVE TellsOf(t, Append(m, message)[i], log'[v + i])
    <3>1. CASE i \in 1 .. Len(m)
      <4>1. v + i \in 1 .. n
        BY <2>1, <2>2, <2>3, <3>1
      <4> QED
        BY <1>3, <2>2, <2>3, <3>1, <4>1
    <3>2. CASE i = Len(m) + 1
      BY <2>2, <2>4, <2>5, <3>2
    <3> QED
      BY <2>2, <3>1, <3>2
  <2> QED
    BY <1>3, <2>1, <2>2, <2>5, <2>6 DEF Follows, v
<1> QED
  BY <1>1, <1>8, <1>11, <1>12 DEF Tracked, k

----------------------------------------------------------------------------
(* What the steps are to OrderedEdits *)

\* Its variables, by the names ImplementsOrderedEdits gives them their values.
Order == [i \in DOMAIN log |-> [session |-> log[i].sessionId, number |-> log[i].seqNo]]
Issued == [t \in Session |-> cc[t].lastSequenceNumber]
Unconfirmed ==
  [t \in Session |-> IF error[t] THEN <<>> ELSE Numbers(cc[t].inflightOperations)]
Taken == [t \in Session |-> cc[t].contextVersion]
Orderly == [t \in Session |-> ~misordered[t]]

\* The order is as long as the history, and tells of each of its entries.
LEMMA LengthOfOrder ==
  ASSUME IsSequence(log)
  PROVE  /\ DOMAIN Order = DOMAIN log /\ Len(Order) = Len(log) /\ IsSequence(Order)
         /\ \A i \in Nat : i < Len(log) =>
              Order[i + 1] = [session |-> log[i + 1].sessionId, number |-> log[i + 1].seqNo]
<1>1. Len(log) \in Nat /\ DOMAIN log = 1 .. Len(log)
  BY SequenceIsFunction
<1>2. Order = [i \in 1 .. Len(log) |-> Order[i]]
  BY <1>1 DEF Order
<1>3. Len(Order) = Len(log) /\ IsSequence(Order)
  BY <1>1, <1>2, FunctionIsSequence
<1>4. \A i \in Nat : i < Len(log) => i + 1 \in DOMAIN log
  BY <1>1
<1> QED
  BY <1>1, <1>3, <1>4 DEF Order

\* When one session changes, so do they.
LEMMA AbstractOfOne ==
  ASSUME IInv, NEW s \in Session, NEW d, cc' = [cc EXCEPT ![s] = d],
         \A t \in Session \ {s} : error'[t] = error[t]
  PROVE  /\ Issued' = [Issued EXCEPT ![s] = d.lastSequenceNumber]
         /\ Taken' = [Taken EXCEPT ![s] = d.contextVersion]
         /\ Unconfirmed' = [Unconfirmed EXCEPT
              ![s] = IF error'[s] THEN <<>> ELSE Numbers(d.inflightOperations)]
<1>1. cc = [t \in Session |-> cc[t]]
  BY DEF IInv, TypeOK
<1>2. cc'[s] = d /\ \A t \in Session \ {s} : cc'[t] = cc[t]
  BY <1>1
<1>3. Issued' = [Issued EXCEPT ![s] = d.lastSequenceNumber]
  <2>1. \A t \in Session : cc'[t].lastSequenceNumber =
                            IF t = s THEN d.lastSequenceNumber ELSE cc[t].lastSequenceNumber
    BY <1>2
  <2> QED
    BY <2>1 DEF Issued
<1>4. Taken' = [Taken EXCEPT ![s] = d.contextVersion]
  <2>1. \A t \in Session : cc'[t].contextVersion =
                            IF t = s THEN d.contextVersion ELSE cc[t].contextVersion
    BY <1>2
  <2> QED
    BY <2>1 DEF Taken
<1>5. Unconfirmed' = [Unconfirmed EXCEPT
        ![s] = IF error'[s] THEN <<>> ELSE Numbers(d.inflightOperations)]
  <2> DEFINE u(t) == IF error[t] THEN <<>> ELSE Numbers(cc[t].inflightOperations)
  <2>1. \A t \in Session \ {s} : u(t)' = u(t)
    BY <1>2 DEF Numbers
  <2>2. u(s)' = IF error'[s] THEN <<>> ELSE Numbers(d.inflightOperations)
    BY <1>2 DEF Numbers
  <2>3. Unconfirmed = [t \in Session |-> u(t)] /\ Unconfirmed' = [t \in Session |-> u(t)']
    BY DEF Unconfirmed, Numbers
  <2> HIDE DEF u
  <2> QED
    BY <2>1, <2>2, <2>3
<1> QED
  BY <1>3, <1>4, <1>5

\* Nothing that counts changes.
LEMMA AbstractStutter ==
  ASSUME UNCHANGED <<Order, Issued, Unconfirmed, Taken, Orderly, error>>
  PROVE  UNCHANGED Ordered!vars
  BY DEF Ordered!vars, Order, Issued, Unconfirmed, Taken, Orderly, Numbers

\* Operations are issued: OrderedEdits issues as many.
LEMMA AbstractIssue ==
  ASSUME IInv, NEW s \in Session, ~error[s], NEW n \in 0 .. 2,
         NEW d, IssuedMore(cc[s], d, n), cc' = [cc EXCEPT ![s] = d],
         log' = log, error' = error,
         \/ misordered' = misordered
         \/ n # 0 /\ misordered' = [misordered EXCEPT ![s] = TRUE]
  PROVE  Ordered!Next \/ UNCHANGED Ordered!vars
<1> DEFINE B == [i \in 1 .. n |-> cc[s].lastSequenceNumber + i]
<1>1. /\ misordered \in [Session -> BOOLEAN] /\ IsConcurrencyControl(cc[s])
      /\ error \in [Session -> BOOLEAN] /\ n \in Nat
  BY DEF IInv, TypeOK
<1>2. Numbers(d.inflightOperations) = Numbers(cc[s].inflightOperations) \o B
  BY <1>1, NumbersOfMore
<1>3. /\ Issued' = [Issued EXCEPT ![s] = @ + n]
      /\ Taken' = Taken /\ Order' = Order
      /\ Unconfirmed' = [Unconfirmed EXCEPT ![s] = @ \o B]
  <2>1. Issued' = [Issued EXCEPT ![s] = cc[s].lastSequenceNumber + n]
    BY AbstractOfOne DEF IssuedMore
  <2>2. Taken' = [Taken EXCEPT ![s] = cc[s].contextVersion]
    BY AbstractOfOne DEF IssuedMore
  <2>3. Unconfirmed' = [Unconfirmed EXCEPT ![s] = Numbers(cc[s].inflightOperations) \o B]
    BY <1>2, AbstractOfOne
  <2>4. Issued[s] = cc[s].lastSequenceNumber /\ Taken[s] = cc[s].contextVersion
    BY DEF Issued, Taken
  <2>5. Unconfirmed[s] = Numbers(cc[s].inflightOperations)
    BY DEF Unconfirmed
  <2>6. Taken = [t \in Session |-> Taken[t]] /\ Order' = Order
    BY DEF Taken, Order
  <2> HIDE DEF B
  <2> QED
    BY <2>1, <2>2, <2>3, <2>4, <2>5, <2>6
<1>4. CASE n = 0
  <2>1. Issued' = Issued
    BY <1>1, <1>3, <1>4 DEF Issued, IsConcurrencyControl
  <2>2. B = <<>>
    BY <1>4
  <2>3. Numbers(cc[s].inflightOperations) \o <<>> = Numbers(cc[s].inflightOperations)
    BY <1>1, NumbersAreSequence, ConcatEmptySeq
  <2>4. Unconfirmed' = Unconfirmed
    BY <1>3, <2>2, <2>3 DEF Unconfirmed
  <2>5. Orderly' = Orderly
    BY <1>4 DEF Orderly
  <2> QED
    BY <1>3, <2>1, <2>4, <2>5, AbstractStutter
<1>5. CASE n # 0
  <2>1. n \in 1 .. 2
    BY <1>5
  <2>2. PICK ways \in {Orderly[s], FALSE} : Orderly' = [Orderly EXCEPT ![s] = ways]
    <3>1. Orderly = [t \in Session |-> Orderly[t]]
      BY DEF Orderly
    <3>2. CASE misordered' = misordered
      BY <3>1, <3>2 DEF Orderly
    <3>3. CASE misordered' = [misordered EXCEPT ![s] = TRUE]
      BY <1>1, <3>3 DEF Orderly
    <3> QED
      BY <3>2, <3>3
  <2>3. B = [i \in 1 .. n |-> Issued[s] + i]
    BY DEF Issued
  <2> HIDE DEF B
  <2>4. Ordered!Issue(s, ways)
    BY <1>3, <2>1, <2>2, <2>3
    DEF Ordered!Issue, Order, Issued, Unconfirmed, Taken, Orderly, Numbers
  <2>5. ways \in {~misordered[s], FALSE}
    BY DEF Orderly
  <2> QED
    BY <2>4, <2>5 DEF Ordered!Next, Orderly
<1> QED
  BY <1>4, <1>5

\* The next entry of the history is taken in: one's own, confirmed first,
LEMMA AbstractTakeOwn ==
  ASSUME IInv, NEW s \in Session, ~error[s], NEW d, cc' = [cc EXCEPT ![s] = d],
         UNCHANGED <<log, error, misordered>>,
         cc[s].contextVersion < Len(log), log[cc[s].contextVersion + 1].sessionId = s,
         cc[s].inflightOperations # <<>>,
         log[cc[s].contextVersion + 1].seqNo = Head(cc[s].inflightOperations).seqNo,
         d.contextVersion = cc[s].contextVersion + 1,
         d.lastSequenceNumber = cc[s].lastSequenceNumber,
         d.inflightOperations = Tail(cc[s].inflightOperations)
  PROVE  Ordered!Next
<1> DEFINE v == cc[s].contextVersion
           f == cc[s].inflightOperations
<1>1. /\ v \in Nat /\ v < Len(log) /\ IsConcurrencyControl(cc[s]) /\ IsSequence(log)
      /\ Issued = [t \in Session |-> Issued[t]] /\ Taken[s] = v /\ Issued[s] = cc[s].lastSequenceNumber
      /\ Unconfirmed[s] = Numbers(f)
  BY DEF IInv, TypeOK, IsConcurrencyControl, Issued, Taken, Unconfirmed
<1>2. /\ Numbers(f) # <<>> /\ Head(Numbers(f)) = Head(f).seqNo
      /\ Numbers(Tail(f)) = Tail(Numbers(f))
  BY <1>1, NumbersOfTail
<1>3. /\ Taken[s] < Len(Order)
      /\ Order[Taken[s] + 1].session = s
      /\ Unconfirmed[s] # <<>> /\ Order[Taken[s] + 1].number = Head(Unconfirmed[s])
  <2>1. Order[v + 1] = [session |-> log[v + 1].sessionId, number |-> log[v + 1].seqNo]
    BY <1>1, LengthOfOrder
  <2> QED
    BY <1>1, <1>2, <2>1, LengthOfOrder
<1>4. /\ Taken' = [Taken EXCEPT ![s] = @ + 1]
      /\ Unconfirmed' = [Unconfirmed EXCEPT ![s] = Tail(@)]
      /\ Issued' = Issued /\ Order' = Order /\ Orderly' = Orderly
  <2>1. /\ Issued' = [Issued EXCEPT ![s] = d.lastSequenceNumber]
        /\ Taken' = [Taken EXCEPT ![s] = d.contextVersion]
        /\ Unconfirmed' = [Unconfirmed EXCEPT ![s] = Numbers(d.inflightOperations)]
    BY AbstractOfOne
  <2>2. Order' = Order /\ Orderly' = Orderly
    BY DEF Order, Orderly
  <2> QED
    BY <1>1, <1>2, <2>1, <2>2
<1> HIDE DEF f, v
<1>5. Ordered!TakeIn(s)
  BY <1>3, <1>4
  DEF Ordered!TakeIn, Order, Issued, Unconfirmed, Taken, Orderly, Numbers
<1> QED
  BY <1>5 DEF Ordered!Next

\* or another's, with the numbers in flight as they were, and at most one operation
\* issued in answer.
LEMMA AbstractTakeOther ==
  ASSUME IInv, NEW s \in Session, ~error[s], NEW d, cc' = [cc EXCEPT ![s] = d],
         UNCHANGED <<log, error, misordered>>,
         cc[s].contextVersion < Len(log), log[cc[s].contextVersion + 1].sessionId # s,
         NEW e, IsConcurrencyControl(e), NEW n \in 0 .. 1, IssuedMore(e, d, n),
         e.contextVersion = cc[s].contextVersion + 1,
         e.lastSequenceNumber = cc[s].lastSequenceNumber,
         Numbers(e.inflightOperations) = Numbers(cc[s].inflightOperations)
  PROVE  Ordered!Next
<1> DEFINE v == cc[s].contextVersion
           B == [i \in 1 .. n |-> cc[s].lastSequenceNumber + i]
<1>1. /\ v \in Nat /\ v < Len(log) /\ IsConcurrencyControl(cc[s]) /\ IsSequence(log)
      /\ Taken[s] = v /\ Issued[s] = cc[s].lastSequenceNumber
      /\ Unconfirmed[s] = Numbers(cc[s].inflightOperations)
  BY DEF IInv, TypeOK, IsConcurrencyControl, Issued, Taken, Unconfirmed
<1>2. Numbers(d.inflightOperations) = Numbers(cc[s].inflightOperations) \o B
  BY NumbersOfMore
<1>3. Taken[s] < Len(Order) /\ Order[Taken[s] + 1].session # s
  <2>1. Order[v + 1] = [session |-> log[v + 1].sessionId, number |-> log[v + 1].seqNo]
    BY <1>1, LengthOfOrder
  <2> QED
    BY <1>1, <2>1, LengthOfOrder
<1>4. /\ d.contextVersion = v + 1 /\ d.lastSequenceNumber = Issued[s] + n
  BY <1>1 DEF IssuedMore
<1> HIDE DEF v
<1>5. /\ Taken' = [Taken EXCEPT ![s] = @ + 1]
      /\ Unconfirmed' = [Unconfirmed EXCEPT ![s] = @ \o B]
      /\ Issued' = [Issued EXCEPT ![s] = @ + n]
      /\ Order' = Order /\ Orderly' = Orderly
  <2>1. Order' = Order /\ Orderly' = Orderly
    BY DEF Order, Orderly
  <2>2. /\ Issued' = [Issued EXCEPT ![s] = d.lastSequenceNumber]
        /\ Taken' = [Taken EXCEPT ![s] = d.contextVersion]
        /\ Unconfirmed' = [Unconfirmed EXCEPT ![s] = Numbers(d.inflightOperations)]
    BY AbstractOfOne
  <2> HIDE DEF B
  <2> QED
    BY <1>1, <1>2, <1>4, <2>1, <2>2
<1>6. B = [i \in 1 .. n |-> Issued[s] + i]
  BY <1>1
<1> HIDE DEF B
<1>7. Ordered!TakeIn(s)
  BY <1>3, <1>5, <1>6
  DEF Ordered!TakeIn, Order, Issued, Unconfirmed, Taken, Orderly, Numbers
<1> QED
  BY <1>7 DEF Ordered!Next

\* A session that has fallen out of order closes.
LEMMA AbstractGiveUp ==
  ASSUME IInv, NEW s \in Session, ~error[s], misordered[s],
         NEW d, cc' = [cc EXCEPT ![s] = d],
         d.contextVersion = cc[s].contextVersion,
         d.lastSequenceNumber = cc[s].lastSequenceNumber,
         error' = [error EXCEPT ![s] = TRUE], UNCHANGED <<log, misordered>>
  PROVE  Ordered!Next
<1>1. /\ error'[s] /\ \A t \in Session \ {s} : error'[t] = error[t]
      /\ Taken[s] = cc[s].contextVersion /\ Issued[s] = cc[s].lastSequenceNumber
      /\ Taken = [t \in Session |-> Taken[t]] /\ Issued = [t \in Session |-> Issued[t]]
  BY DEF IInv, TypeOK, Issued, Taken
<1>2. /\ Taken' = Taken /\ Issued' = Issued
      /\ Unconfirmed' = [Unconfirmed EXCEPT ![s] = <<>>]
      /\ Order' = Order /\ Orderly' = Orderly /\ ~Orderly[s]
  <2>1. /\ Issued' = [Issued EXCEPT ![s] = d.lastSequenceNumber]
        /\ Taken' = [Taken EXCEPT ![s] = d.contextVersion]
        /\ Unconfirmed' = [Unconfirmed EXCEPT ![s] = <<>>]
    BY <1>1, AbstractOfOne
  <2>2. Order' = Order /\ Orderly' = Orderly /\ ~Orderly[s]
    BY DEF Order, Orderly
  <2> QED
    BY <1>1, <2>1, <2>2
<1>3. Ordered!GiveUp(s)
  BY <1>2 DEF Ordered!GiveUp, Order, Issued, Unconfirmed, Taken, Orderly, Numbers
<1> QED
  BY <1>3 DEF Ordered!Next

\* The server puts the submission it receives in the order.
LEMMA AbstractPutInOrder ==
  ASSUME RInv, NEW s \in Session, ServerReceives(s)
  PROVE  Ordered!Next
<1>1. PICK k \in 1 .. cc[s].lastSequenceNumber :
        \E operation :
          /\ k = Head(toServer[s]).sequenceNumber
          /\ log' = Append(log, [sessionId |-> s, seqNo |-> k, operation |-> operation])
          /\ \A i \in LoggedBy(s) : log[i].seqNo # k
  BY TrackedAfterServerReceives
<1>2. PICK operation :
        /\ k = Head(toServer[s]).sequenceNumber
        /\ log' = Append(log, [sessionId |-> s, seqNo |-> k, operation |-> operation])
        /\ \A i \in LoggedBy(s) : log[i].seqNo # k
  BY <1>1
<1>3. toServer[s] # <<>> /\ UNCHANGED <<cc, error, misordered>>
  BY DEF ServerReceives, TakeSubmission
<1>4. IInv /\ IsSequence(log)
  BY DEF RInv, IInv, TypeOK
<1>5. /\ DOMAIN Order = DOMAIN log /\ DOMAIN log = 1 .. Len(log) /\ Len(log) \in Nat
      /\ Len(Order) = Len(log) /\ IsSequence(Order)
  BY <1>4, LengthOfOrder, SequenceIsFunction
<1>6. \A n : (\E i \in DOMAIN Order : Order[i] = [session |-> s, number |-> n])
               <=> \E i \in LoggedBy(s) : log[i].seqNo = n
  BY <1>5 DEF Order, LoggedBy
<1>7. Orderly[s] => \A n \in 1 .. k - 1 : \E i \in LoggedBy(s) : log[i].seqNo = n
  <2> SUFFICES ASSUME Orderly[s]
               PROVE  \A n \in 1 .. k - 1 : \E i \in LoggedBy(s) : log[i].seqNo = n
    OBVIOUS
  <2>1. InOrder(s)
    BY <1>4 DEF IInv, Orderly
  <2>2. k = Received(cc[s], toServer[s]) + 1 /\ Received(cc[s], toServer[s]) \in Nat
    BY <1>2, <1>3, <2>1, ReceivingKeepsSessionOK, SessionNumbers DEF InOrder
  <2>3. \A n \in 1 .. Received(cc[s], toServer[s]) : \E i \in LoggedBy(s) : log[i].seqNo = n
    BY <2>1 DEF InOrder, LogOK
  <2> QED
    BY <2>2, <2>3
<1>8. Order' = Append(Order, [session |-> s, number |-> k])
  <2> DEFINE n == Len(log)
             e == [session |-> s, number |-> k]
             A == Append(Order, e)
  <2>1. /\ Len(log') = n + 1 /\ DOMAIN log' = 1 .. n + 1
        /\ \A i \in 1 .. n : log'[i] = log[i]
        /\ log'[n + 1] = [sessionId |-> s, seqNo |-> k, operation |-> operation]
    BY <1>2, <1>4, AppendToSequence, SequenceIsFunction
  <2>2. /\ IsSequence(A) /\ Len(A) = n + 1 /\ A[n + 1] = e
        /\ \A i \in 1 .. n : A[i] = Order[i]
    BY <1>5, AppendToSequence
  <2>3. A = [i \in 1 .. n + 1 |-> A[i]]
    BY <2>2, SequenceIsFunction
  <2>4. Order' = [i \in 1 .. n + 1 |-> [session |-> log'[i].sessionId, number |-> log'[i].seqNo]]
    BY <2>1 DEF Order
  <2>5. \A i \in 1 .. n : Order[i] = [session |-> log[i].sessionId, number |-> log[i].seqNo]
    BY <1>5 DEF Order
  <2> HIDE DEF A
  <2>6. ASSUME NEW i \in 1 .. n + 1
        PROVE  A[i] = [session |-> log'[i].sessionId, number |-> log'[i].seqNo]
    <3>1. CASE i \in 1 .. n
      BY <2>1, <2>2, <2>5, <3>1
    <3>2. CASE i = n + 1
      BY <2>1, <2>2, <3>2
    <3> QED
      BY <1>5, <3>1, <3>2
  <2>7. A = [i \in 1 .. n + 1 |-> [session |-> log'[i].sessionId, number |-> log'[i].seqNo]]
    BY <2>3, <2>6
  <2> QED
    BY <2>4, <2>7 DEF A
<1>9. /\ k \in 1 .. Issued[s]
      /\ UNCHANGED <<Issued, Unconfirmed, Taken, Orderly>>
  BY <1>3 DEF Issued, Unconfirmed, Taken, Orderly, Numbers
<1>10. /\ ~ \E i \in DOMAIN Order : Order[i] = [session |-> s, number |-> k]
       /\ Orderly[s] => \A n \in 1 .. k - 1 :
            \E i \in DOMAIN Order : Order[i] = [session |-> s, number |-> n]
  BY <1>2, <1>6, <1>7
<1>11. Ordered!PutInOrder(s)
  <2>1. /\ ~Ordered!IsOrdered(s, k)
        /\ ~misordered[s] => \A n \in 1 .. k - 1 : Ordered!IsOrdered(s, n)
    BY <1>10 DEF Ordered!IsOrdered, Order, Orderly
  <2>2. k \in 1 .. cc[s].lastSequenceNumber
    OBVIOUS
  <2>3. error' = error
    BY <1>3
  <2> QED
    BY <1>8, <1>9, <2>1, <2>2, <2>3
    DEF Ordered!PutInOrder, Order, Issued, Unconfirmed, Taken, Orderly, Numbers
<1> QED
  BY <1>11 DEF Ordered!Next

----------------------------------------------------------------------------
(* Every step *)

\* A step keeps the invariant and is one of OrderedEdits, or nothing to it.
Simulated == (\A t \in Session : Tracked(t)') /\ (Ordered!Next \/ UNCHANGED Ordered!vars)

\* Operations issued and sent, in order or not, are so many issued in OrderedEdits.
LEMMA IssuingStep ==
  ASSUME RInv, NEW s \in Session, ~error[s], NEW n \in 0 .. 2,
         NEW d, IssuedMore(cc[s], d, n),
         NEW r, SentMore(toServer[s], r, cc[s].lastSequenceNumber, n),
         cc' = [cc EXCEPT ![s] = d], toServer' = [toServer EXCEPT ![s] = r],
         log' = log, error' = error, toClient' = toClient,
         \/ misordered' = misordered
         \/ n # 0 /\ misordered' = [misordered EXCEPT ![s] = TRUE]
  PROVE  Simulated
<1>1. /\ IInv /\ Tracked(s) /\ IsConcurrencyControl(cc[s]) /\ IsSequence(toServer[s])
      /\ n \in Nat
  BY DEF RInv, IInv, TypeOK
<1>2. NumberedOnce(s, d, r)
  BY <1>1, SendingKeepsNumbered DEF Tracked
<1>3. ~error'[s] => ~error[s] /\ Follows(s, d, toClient[s])
  BY <1>1 DEF Tracked, Follows, IssuedMore
<1>4. toClient' = [toClient EXCEPT ![s] = toClient[s]]
  BY <1>1, UpdateSame
<1>5. \A t \in Session : Tracked(t)'
  BY <1>2, <1>3, <1>4, TrackedAfterSessionStep
<1> QED
  BY <1>1, <1>5, AbstractIssue DEF Simulated

\* A local edit is issued, or joins the batch in progress.
LEMMA LocalOperationSimulated ==
  ASSUME RInv, NEW s \in Session, LocalOperation(s)
  PROVE  Simulated
<1>1. PICK op :
        LET after == ProcessOutgoingOperation(cc[s], s, op)
        IN  /\ cc' = [cc EXCEPT ![s] = after]
            /\ toServer' = [toServer EXCEPT ![s] = AfterSending(toServer[s], cc[s], after)]
  BY DEF LocalOperation, BecomesAndSends
<1>2. ~error[s] /\ UNCHANGED <<log, error, toClient>> /\ UNCHANGED misordered
  BY DEF LocalOperation
<1> DEFINE after == ProcessOutgoingOperation(cc[s], s, op)
<1>3. IsConcurrencyControl(cc[s]) /\ IsSequence(toServer[s])
  BY DEF RInv, IInv, TypeOK
<1>4. Issues(cc[s], after)
  BY <1>3, ProcessOutgoingIssues
<1>5. /\ cc' = [cc EXCEPT ![s] = after]
      /\ toServer' = [toServer EXCEPT ![s] = AfterSending(toServer[s], cc[s], after)]
  BY <1>1
<1> HIDE DEF after
<1>6. PICK n \in 0 .. 1 :
        /\ IssuedMore(cc[s], after, n)
        /\ SentMore(toServer[s], AfterSending(toServer[s], cc[s], after),
                    cc[s].lastSequenceNumber, n)
  BY <1>3, <1>4, IssuesAndSends
<1>7. n \in 0 .. 2
  OBVIOUS
<1> QED
  BY <1>2, <1>5, <1>6, <1>7, IssuingStep

\* The operations of a batch are issued as one.
LEMMA CompleteBatchSimulated ==
  ASSUME RInv, NEW s \in Session, CompleteBatch(s)
  PROVE  Simulated
<1> DEFINE after == CompleteBatchOperation(cc[s], s)
<1>1. IsConcurrencyControl(cc[s]) /\ IsSequence(toServer[s])
  BY DEF RInv, IInv, TypeOK
<1>2. Issues(cc[s], after)
  BY <1>1, CompleteBatchIssues
<1>3. /\ ~error[s] /\ UNCHANGED <<log, error, toClient>> /\ UNCHANGED misordered
      /\ cc' = [cc EXCEPT ![s] = after]
      /\ toServer' = [toServer EXCEPT ![s] = AfterSending(toServer[s], cc[s], after)]
  BY DEF CompleteBatch, BecomesAndSends
<1> HIDE DEF after
<1>4. PICK n \in 0 .. 1 :
        /\ IssuedMore(cc[s], after, n)
        /\ SentMore(toServer[s], AfterSending(toServer[s], cc[s], after),
                    cc[s].lastSequenceNumber, n)
  BY <1>1, <1>2, IssuesAndSends
<1>5. n \in 0 .. 2
  OBVIOUS
<1> QED
  BY <1>3, <1>4, <1>5, IssuingStep

\* To start or to cancel a batch issues nothing.
LEMMA BatchFlagSimulated ==
  ASSUME RInv, NEW s \in Session, StartBatch(s) \/ CancelBatch(s)
  PROVE  Simulated
<1>1. PICK d : /\ d \in {StartBatchOperation(cc[s]), CancelBatchOperation(cc[s])}
               /\ cc' = [cc EXCEPT ![s] = d]
  BY DEF StartBatch, CancelBatch
<1>2. /\ ~error[s] /\ UNCHANGED <<log, error, toClient>> /\ UNCHANGED misordered
      /\ UNCHANGED toServer
  BY DEF StartBatch, CancelBatch
<1>3. IInv /\ IsConcurrencyControl(cc[s]) /\ IsSequence(toServer[s])
  BY DEF RInv, IInv, TypeOK
<1>4. /\ IsConcurrencyControl(d)
      /\ d.lastSequenceNumber = cc[s].lastSequenceNumber
      /\ d.contextVersion = cc[s].contextVersion
      /\ d.inflightOperations = cc[s].inflightOperations
  BY <1>1, <1>3 DEF StartBatchOperation, CancelBatchOperation, IsConcurrencyControl
<1>5. /\ Len(cc[s].inflightOperations) \in Nat /\ Len(toServer[s]) \in Nat
      /\ cc[s].lastSequenceNumber \in Nat
  BY <1>3, SequenceIsFunction DEF IsConcurrencyControl
<1>6. /\ IssuedMore(cc[s], d, 0)
      /\ SentMore(toServer[s], toServer[s], cc[s].lastSequenceNumber, 0)
  BY <1>3, <1>4, <1>5 DEF IssuedMore, SentMore
<1>7. toServer' = [toServer EXCEPT ![s] = toServer[s]] /\ 0 \in 0 .. 2
  BY <1>2, <1>3, UpdateSame
<1> QED
  BY <1>1, <1>2, <1>6, <1>7, IssuingStep

\* An edit made when an edit is heard is issued and sent before it.
LEMMA EditedWhenHeardSimulated ==
  ASSUME RInv, NEW s \in Session, LocalOperationEditedWhenHeard(s)
  PROVE  Simulated
<1>1. PICK op, nested :
        LET first == ProcessOutgoingOperation(cc[s], s, nested)
            both  == ProcessOutgoingOperation(first, s, op)
        IN  /\ cc' = [cc EXCEPT ![s] = both]
            /\ toServer' = [toServer EXCEPT
                  ![s] = AfterSending(AfterSending(toServer[s], cc[s], first), first, both)]
  BY DEF LocalOperationEditedWhenHeard, SendsFirstThenSecond
<1> DEFINE first == ProcessOutgoingOperation(cc[s], s, nested)
           both  == ProcessOutgoingOperation(first, s, op)
           sent  == AfterSending(toServer[s], cc[s], first)
           resent == AfterSending(sent, first, both)
           l == cc[s].lastSequenceNumber
<1>2. IsConcurrencyControl(cc[s]) /\ IsSequence(toServer[s]) /\ l \in Nat
  BY DEF RInv, IInv, TypeOK, IsConcurrencyControl
<1>3. Issues(cc[s], first)
  BY <1>2, ProcessOutgoingIssues
<1>4. /\ cc' = [cc EXCEPT ![s] = both] /\ toServer' = [toServer EXCEPT ![s] = resent]
      /\ ~error[s] /\ log' = log /\ error' = error /\ toClient' = toClient
      /\ misordered' = misordered
  BY <1>1 DEF LocalOperationEditedWhenHeard
<1> HIDE DEF first
<1>5. Issues(first, both)
  BY <1>3, ProcessOutgoingIssues DEF Issues
<1> HIDE DEF both
<1>6. PICK m \in 0 .. 1 : IssuedMore(cc[s], first, m) /\ SentMore(toServer[s], sent, l, m)
  BY <1>2, <1>3, IssuesAndSends
<1>7. /\ IsConcurrencyControl(first) /\ IsSequence(sent)
      /\ first.lastSequenceNumber = l + m /\ m \in Nat /\ l + m \in Nat
  BY <1>2, <1>6 DEF IssuedMore, SentMore
<1> HIDE DEF sent
<1>8. PICK n \in 0 .. 1 : /\ IssuedMore(first, both, n)
                          /\ SentMore(sent, resent, first.lastSequenceNumber, n)
  BY <1>5, <1>7, IssuesAndSends
<1>9. n \in Nat /\ m + n \in 0 .. 2
  OBVIOUS
<1> HIDE DEF resent, l
<1>10. IssuedMore(cc[s], both, m + n)
  BY <1>2, <1>6, <1>7, <1>8, <1>9, IssuedAfterIssued
<1>11. SentMore(toServer[s], resent, l, m + n)
  <2>1. first.lastSequenceNumber \in Nat
    BY <1>7
  <2> QED
    BY <1>2, <1>6, <1>7, <1>8, <1>9, <2>1, SentAfterSent
<1> QED
  BY <1>4, <1>9, <1>10, <1>11, IssuingStep DEF l

\* An operation that joins no batch goes in flight.
LEMMA OutsideBatchIssues ==
  ASSUME NEW c, IsConcurrencyControl(c), ~c.compoundOpInProgress, NEW s, NEW op
  PROVE  ProcessOutgoingOperation(c, s, op).lastSequenceNumber # c.lastSequenceNumber
<1> DEFINE outgoing == TransformOutgoing(c.unappliedOperations, <<op>>)
           noted == [c EXCEPT !.unappliedOperations = outgoing.serverOps,
                              !.committed = IF NothingOutstanding(c) THEN FALSE ELSE @]
<1> HIDE DEF outgoing
<1>1. /\ DOMAIN noted = DOMAIN c /\ noted.lastSequenceNumber = c.lastSequenceNumber
      /\ noted.compoundOpInProgress = c.compoundOpInProgress /\ c.lastSequenceNumber \in Nat
  BY DEF IsConcurrencyControl
<1> HIDE DEF noted
<1>2. PutInFlight(noted, s, outgoing.operation).lastSequenceNumber = c.lastSequenceNumber + 1
  BY <1>1 DEF PutInFlight, IsConcurrencyControl
<1> QED
  BY <1>1, <1>2 DEF ProcessOutgoingOperation, Issue, outgoing, noted

\* One made when the model is modified is issued after, but sent before it: the session
\* is out of order from then on.
LEMMA EditedWhenModifiedSimulated ==
  ASSUME RInv, NEW s \in Session, LocalOperationEditedWhenModified(s)
  PROVE  Simulated
<1>1. PICK op, nested :
        LET first == ProcessOutgoingOperation(cc[s], s, op)
            both  == ProcessOutgoingOperation(first, s, nested)
        IN  /\ cc' = [cc EXCEPT ![s] = both]
            /\ toServer' = [toServer EXCEPT
                  ![s] = AfterSending(AfterSending(toServer[s], first, both), cc[s], first)]
  BY DEF LocalOperationEditedWhenModified, SendsSecondThenFirst
<1> DEFINE first == ProcessOutgoingOperation(cc[s], s, op)
           both  == ProcessOutgoingOperation(first, s, nested)
           sent  == AfterSending(toServer[s], first, both)
           resent == AfterSending(sent, cc[s], first)
           l == cc[s].lastSequenceNumber
<1>2. IsConcurrencyControl(cc[s]) /\ IsSequence(toServer[s]) /\ l \in Nat
  BY DEF RInv, IInv, TypeOK, IsConcurrencyControl
<1>3. Issues(cc[s], first) /\ first.lastSequenceNumber # l
  BY <1>2, ProcessOutgoingIssues, OutsideBatchIssues DEF LocalOperationEditedWhenModified
<1>4. /\ cc' = [cc EXCEPT ![s] = both] /\ toServer' = [toServer EXCEPT ![s] = resent]
      /\ ~error[s] /\ log' = log /\ error' = error /\ toClient' = toClient
      /\ misordered' = [misordered EXCEPT ![s] = TRUE]
  BY <1>1 DEF LocalOperationEditedWhenModified
<1> HIDE DEF first
<1>5. Issues(first, both) /\ IsConcurrencyControl(first)
  BY <1>3, ProcessOutgoingIssues DEF Issues
<1> HIDE DEF both
<1>6. PICK m \in 0 .. 1 :
        /\ IssuedMore(cc[s], first, m)
        /\ \A q : IsSequence(q) => SentMore(q, AfterSending(q, cc[s], first), l, m)
  <2>1. PICK m \in 0 .. 1 : /\ IssuedMore(cc[s], first, m)
                            /\ m = 0 <=> first.lastSequenceNumber = cc[s].lastSequenceNumber
    BY <1>2, <1>3, IssuesAndSends
  <2>2. ASSUME NEW q, IsSequence(q) PROVE SentMore(q, AfterSending(q, cc[s], first), l, m)
    <3>1. PICK i \in 0 .. 1 :
            /\ SentMore(q, AfterSending(q, cc[s], first), cc[s].lastSequenceNumber, i)
            /\ i = 0 <=> first.lastSequenceNumber = cc[s].lastSequenceNumber
      BY <1>2, <1>3, <2>2, IssuesAndSends
    <3>2. i = m
      BY <2>1, <3>1
    <3> QED
      BY <3>1, <3>2
  <2> QED
    BY <2>1, <2>2
<1>7. PICK n \in 0 .. 1 :
        /\ IssuedMore(first, both, n)
        /\ SentMore(toServer[s], sent, first.lastSequenceNumber, n)
  BY <1>2, <1>5, IssuesAndSends
<1>8. /\ first.lastSequenceNumber = l + m /\ m # 0 /\ m \in Nat /\ n \in Nat
      /\ l + m \in Nat /\ m + n \in 0 .. 2 /\ m + n # 0 /\ n + m = m + n
  BY <1>2, <1>3, <1>6 DEF IssuedMore
<1>9. SentMore(sent, resent, l, m)
  BY <1>6, <1>7 DEF SentMore
<1> HIDE DEF sent, resent, l
<1>10. IssuedMore(cc[s], both, m + n)
  BY <1>2, <1>6, <1>7, <1>8, IssuedAfterIssued
<1>11. SentMore(toServer[s], resent, l, m + n)
  BY <1>2, <1>7, <1>8, <1>9, SentAfterSent
<1> QED
  BY <1>4, <1>8, <1>10, <1>11, IssuingStep DEF l

\* What the server receives takes its place in the order.
LEMMA ServerReceivesSimulated ==
  ASSUME RInv, NEW s \in Session, ServerReceives(s)
  PROVE  Simulated
  BY TrackedAfterServerReceives, AbstractPutInOrder DEF Simulated

\* A message that is refused.
LEMMA RefusedSimulated ==
  ASSUME RInv, NEW s \in Session, ~InOrder(s), CloseWithError(s), log' = log,
         ~error[s], NEW d, cc' = [cc EXCEPT ![s] = d],
         d.contextVersion = cc[s].contextVersion,
         d.lastSequenceNumber = cc[s].lastSequenceNumber,
         toClient' = [toClient EXCEPT ![s] = Tail(toClient[s])]
  PROVE  Simulated
<1>1. /\ IInv /\ Tracked(s) /\ misordered[s] /\ error \in [Session -> BOOLEAN]
      /\ toServer' = [toServer EXCEPT ![s] = toServer[s]]
  BY UpdateSame DEF RInv, IInv, TypeOK, CloseWithError
<1>2. /\ error' = [error EXCEPT ![s] = TRUE] /\ misordered' = misordered
      /\ error'[s] /\ \A t \in Session \ {s} : error'[t] = error[t]
  BY <1>1 DEF CloseWithError
<1>3. NumberedOnce(s, d, toServer[s])
  BY <1>1 DEF Tracked, NumberedOnce
<1>4. \A t \in Session : Tracked(t)'
  BY <1>1, <1>2, <1>3, TrackedAfterSessionStep
<1>5. Ordered!Next
  BY <1>1, <1>2, AbstractGiveUp
<1> QED
  BY <1>4, <1>5 DEF Simulated

\* An acknowledgement confirms the operation in flight its session has issued first.
LEMMA HandleOperationAckSimulated ==
  ASSUME RInv, NEW s \in Session, HandleOperationAck(s)
  PROVE  Simulated
<1> DEFINE c == cc[s]
           m == toClient[s]
           ack == Head(m)
           d == ProcessAcknowledgement(c)
           e == RefuseAcknowledgement(c, ack.version)
<1>1. /\ IInv /\ Tracked(s) /\ IsConcurrencyControl(c) /\ IsSequence(m)
      /\ c.contextVersion \in Nat /\ error \in [Session -> BOOLEAN]
  BY DEF RInv, IInv, TypeOK, IsConcurrencyControl
<1>2. /\ ~error[s] /\ m # <<>> /\ IsAck(ack) /\ log' = log
      /\ toClient' = [toClient EXCEPT ![s] = Tail(m)]
  BY DEF HandleOperationAck, Incoming, TakeMessage, IsAck
<1>3. CASE AcknowledgementAccepted(c, ack.version, ack.sequenceNumber)
  <2>1. /\ cc' = [cc EXCEPT ![s] = d] /\ error' = error /\ misordered' = misordered
        /\ toServer' = toServer
    BY <1>3 DEF HandleOperationAck
  <2>2. /\ d.contextVersion = c.contextVersion + 1
        /\ d.lastSequenceNumber = c.lastSequenceNumber
        /\ d.inflightOperations = Tail(c.inflightOperations)
        /\ c.inflightOperations # <<>>
        /\ Head(c.inflightOperations).seqNo = ack.sequenceNumber
    BY <1>1, <1>3 DEF ProcessAcknowledgement, IsConcurrencyControl, AcknowledgementAccepted
  <2> HIDE DEF d
  <2>3. /\ c.contextVersion < Len(log)
        /\ TellsOf(s, ack, log[c.contextVersion + 1])
        /\ Follows(s, d, Tail(m))
    BY <1>1, <1>2, <2>2, NextMessageTells DEF Tracked
  <2>4. NumberedOnce(s, d, toServer[s])
    BY <1>1, <2>2 DEF Tracked, NumberedOnce
  <2>5. toServer' = [toServer EXCEPT ![s] = toServer[s]]
    BY <1>1, <2>1, UpdateSame
  <2>6. \A t \in Session : Tracked(t)'
    BY <1>2, <2>1, <2>3, <2>4, <2>5, TrackedAfterSessionStep
  <2>7. Ordered!Next
    BY <1>1, <1>2, <2>1, <2>2, <2>3, AbstractTakeOwn DEF TellsOf
  <2> QED
    BY <2>6, <2>7 DEF Simulated
<1>4. CASE ~AcknowledgementAccepted(c, ack.version, ack.sequenceNumber)
  <2>1. cc' = [cc EXCEPT ![s] = e] /\ CloseWithError(s)
    BY <1>4 DEF HandleOperationAck
  <2>2. e.contextVersion = c.contextVersion /\ e.lastSequenceNumber = c.lastSequenceNumber
    BY <1>1 DEF RefuseAcknowledgement, IsConcurrencyControl
  <2>3. ~InOrder(s)
    BY <1>1, <1>2, <1>4, SessionOfIInv, AcknowledgementIsExpected
  <2> HIDE DEF e
  <2> QED
    BY <1>2, <2>1, <2>2, <2>3, RefusedSimulated
<1> QED
  BY <1>3, <1>4

\* What a remote operation makes of the concurrency control, taken at once.
LEMMA TakenRemotely ==
  ASSUME RInv, NEW s \in Session, Incoming(s, "remoteOperation"),
         RemoteOperationAccepted(cc[s], Remote(s))
  PROVE  LET e == TakeNextIncomingOperation(ProcessRemoteOperation(cc[s], Remote(s)))
         IN  /\ IsConcurrencyControl(e)
             /\ e.contextVersion = cc[s].contextVersion + 1
             /\ e.lastSequenceNumber = cc[s].lastSequenceNumber
             /\ Numbers(e.inflightOperations) = Numbers(cc[s].inflightOperations)
             /\ cc[s].contextVersion < Len(log)
             /\ log[cc[s].contextVersion + 1].sessionId # s
             /\ Follows(s, e, Tail(toClient[s]))
             /\ NumberedOnce(s, e, toServer[s])
<1> DEFINE c == cc[s]
           m == toClient[s]
           event == Remote(s)
           e == TakeNextIncomingOperation(ProcessRemoteOperation(c, event))
           f == c.inflightOperations
           t == TransformInflightOperations(f, event).inflight
<1>1. /\ Tracked(s) /\ IsConcurrencyControl(c) /\ IsSequence(m)
      /\ c.contextVersion \in Nat /\ event.version = c.contextVersion
  BY DEF RInv, IInv, TypeOK, IsConcurrencyControl, RemoteOperationAccepted
<1>2. ~error[s] /\ m # <<>> /\ ~IsAck(Head(m))
  BY DEF Incoming, TakeMessage, IsAck
<1>3. IsConcurrencyControl(e)
  BY <1>1, RemoteOperationKeepsType
<1>4. /\ DOMAIN t = DOMAIN f /\ \A i \in DOMAIN f : t[i].seqNo = f[i].seqNo
  BY <1>1, TransformedInPlace DEF IsConcurrencyControl
<1>5. Numbers(t) = Numbers(f)
  BY <1>4 DEF Numbers
<1> HIDE DEF t, event
<1>6. /\ e.contextVersion = c.contextVersion + 1
      /\ e.lastSequenceNumber = c.lastSequenceNumber
      /\ e.inflightOperations = t
  BY <1>1 DEF TakeNextIncomingOperation, ProcessRemoteOperation, AfterPassing,
              IsConcurrencyControl, t
<1> HIDE DEF e
<1>7. /\ c.contextVersion < Len(log)
      /\ TellsOf(s, Head(m), log[c.contextVersion + 1])
      /\ Follows(s, e, Tail(m))
  BY <1>1, <1>2, <1>6, NextMessageTells DEF Tracked
<1>8. NumberedOnce(s, e, toServer[s])
  BY <1>1, <1>6 DEF Tracked, NumberedOnce
<1> QED
  BY <1>2, <1>3, <1>5, <1>6, <1>7, <1>8 DEF TellsOf, e, event

\* A remote operation is taken in, or the session gives up.
LEMMA HandleRemoteOperationSimulated ==
  ASSUME RInv, NEW s \in Session, HandleRemoteOperation(s)
  PROVE  Simulated
<1> DEFINE e == TakeNextIncomingOperation(ProcessRemoteOperation(cc[s], Remote(s)))
<1>1. /\ IInv /\ ~error[s] /\ Incoming(s, "remoteOperation") /\ log' = log
      /\ toClient' = [toClient EXCEPT ![s] = Tail(toClient[s])]
  BY DEF RInv, HandleRemoteOperation, Incoming, TakeMessage
<1>2. CASE RemoteOperationAccepted(cc[s], Remote(s))
  <2>1. /\ cc' = [cc EXCEPT ![s] = e] /\ error' = error /\ misordered' = misordered
        /\ toServer' = toServer
    BY <1>2 DEF HandleRemoteOperation
  <2>2. /\ IsConcurrencyControl(e)
        /\ e.contextVersion = cc[s].contextVersion + 1
        /\ e.lastSequenceNumber = cc[s].lastSequenceNumber
        /\ Numbers(e.inflightOperations) = Numbers(cc[s].inflightOperations)
        /\ cc[s].contextVersion < Len(log)
        /\ log[cc[s].contextVersion + 1].sessionId # s
        /\ Follows(s, e, Tail(toClient[s]))
        /\ NumberedOnce(s, e, toServer[s])
    BY <1>1, <1>2, TakenRemotely
  <2> HIDE DEF e
  <2>3. toServer' = [toServer EXCEPT ![s] = toServer[s]]
    BY <1>1, <2>1, UpdateSame
  <2>4. \A t \in Session : Tracked(t)'
    BY <1>1, <2>1, <2>2, <2>3, TrackedAfterSessionStep
  <2>5. IssuedMore(e, e, 0)
    <3>1. Len(e.inflightOperations) \in Nat /\ e.lastSequenceNumber \in Nat
      BY <2>2, SequenceIsFunction DEF IsConcurrencyControl
    <3> QED
      BY <2>2, <3>1 DEF IssuedMore
  <2>6. Ordered!Next
    <3>1. 0 \in 0 .. 1
      OBVIOUS
    <3> QED
      BY <1>1, <2>1, <2>2, <2>5, <3>1, AbstractTakeOther
  <2> QED
    BY <2>4, <2>6 DEF Simulated
<1>3. CASE ~RemoteOperationAccepted(cc[s], Remote(s))
  <2>1. cc' = cc /\ CloseWithError(s)
    BY <1>3 DEF HandleRemoteOperation
  <2>2. cc' = [cc EXCEPT ![s] = cc[s]]
    BY <1>1, <2>1, UpdateSame
  <2>3. ~InOrder(s)
    BY <1>1, <1>3, RemoteOperationIsExpected
  <2> QED
    BY <1>1, <2>1, <2>2, <2>3, RefusedSimulated
<1> QED
  BY <1>2, <1>3

\* An edit made amid a remote operation is issued once it is taken in.
LEMMA RemoteEditedWhenHeardSimulated ==
  ASSUME RInv, NEW s \in Session, HandleRemoteOperationEditedWhenHeard(s)
  PROVE  Simulated
<1> DEFINE e == TakeNextIncomingOperation(ProcessRemoteOperation(cc[s], Remote(s)))
           q == toServer[s]
<1>1. /\ IInv /\ ~error[s] /\ log' = log /\ error' = error /\ misordered' = misordered
      /\ Incoming(s, "remoteOperation") /\ RemoteOperationAccepted(cc[s], Remote(s))
      /\ toClient' = [toClient EXCEPT ![s] = Tail(toClient[s])]
      /\ IsSequence(q)
  BY DEF RInv, IInv, TypeOK, HandleRemoteOperationEditedWhenHeard, Incoming, TakeMessage
<1>2. PICK nested :
        LET after == ProcessOutgoingOperation(e, s, nested)
        IN  /\ cc' = [cc EXCEPT ![s] = after]
            /\ toServer' = [toServer EXCEPT ![s] = AfterSending(q, e, after)]
  BY DEF HandleRemoteOperationEditedWhenHeard, EditsAmid, BecomesAndSends
<1>3. /\ IsConcurrencyControl(e)
      /\ e.contextVersion = cc[s].contextVersion + 1
      /\ e.lastSequenceNumber = cc[s].lastSequenceNumber
      /\ Numbers(e.inflightOperations) = Numbers(cc[s].inflightOperations)
      /\ cc[s].contextVersion < Len(log)
      /\ log[cc[s].contextVersion + 1].sessionId # s
      /\ Follows(s, e, Tail(toClient[s]))
      /\ NumberedOnce(s, e, q)
  BY <1>1, TakenRemotely
<1> HIDE DEF e
<1> DEFINE after == ProcessOutgoingOperation(e, s, nested)
           r == AfterSending(q, e, after)
<1>4. Issues(e, after)
  BY <1>3, ProcessOutgoingIssues
<1>5. cc' = [cc EXCEPT ![s] = after] /\ toServer' = [toServer EXCEPT ![s] = r]
  BY <1>2
<1> HIDE DEF after
<1>6. PICK n \in 0 .. 1 :
        IssuedMore(e, after, n) /\ SentMore(q, r, e.lastSequenceNumber, n)
  BY <1>1, <1>3, <1>4, IssuesAndSends
<1> HIDE DEF r, q
<1>7. n \in Nat
  OBVIOUS
<1>8. NumberedOnce(s, after, r)
  BY <1>1, <1>3, <1>6, <1>7, SendingKeepsNumbered
<1>9. Follows(s, after, Tail(toClient[s]))
  BY <1>3, <1>6 DEF Follows, IssuedMore
<1>10. \A t \in Session : Tracked(t)'
  BY <1>1, <1>5, <1>8, <1>9, TrackedAfterSessionStep
<1>11. Ordered!Next
  BY <1>1, <1>3, <1>5, <1>6, AbstractTakeOther
<1> QED
  BY <1>10, <1>11 DEF Simulated

----------------------------------------------------------------------------
(* What follows *)

\* OrderedEdits starts where the sessions do.
THEOREM InitRefines == Init => RInv /\ Ordered!Init
<1> SUFFICES ASSUME Init PROVE RInv /\ Ordered!Init
  OBVIOUS
<1>1. /\ log = <<>> /\ DOMAIN log = {}
      /\ \A s \in Session : /\ cc[s] = NewConcurrencyControl(0, 0) /\ toServer[s] = <<>>
                            /\ toClient[s] = <<>> /\ ~error[s] /\ ~misordered[s]
  BY DEF Init
<1>2. \A s \in Session : /\ cc[s].lastSequenceNumber = 0 /\ cc[s].contextVersion = 0
                         /\ cc[s].inflightOperations = <<>>
  BY <1>1 DEF NewConcurrencyControl
<1>3. \A s \in Session : Tracked(s)
  BY <1>1, <1>2, EmptyIsSequence DEF Tracked, NumberedOnce, Follows, LoggedBy
<1>4. RInv
  BY <1>3, InitIInv DEF RInv
<1>5. /\ Order = <<>> /\ Unconfirmed = [s \in Session |-> <<>>]
      /\ Issued = [s \in Session |-> 0] /\ Taken = [s \in Session |-> 0]
      /\ Orderly = [s \in Session |-> TRUE] /\ error = [s \in Session |-> FALSE]
  <2>1. Order = <<>>
    BY <1>1 DEF Order
  <2>2. \A s \in Session : Numbers(cc[s].inflightOperations) = <<>>
    BY <1>2 DEF Numbers
  <2>3. Unconfirmed = [s \in Session |-> <<>>]
    BY <1>1, <2>2 DEF Unconfirmed
  <2> QED
    BY <1>1, <1>2, <2>1, <2>3 DEF Init, Issued, Taken, Orderly
<1>6. Ordered!Init
  BY <1>5 DEF Ordered!Init, Order, Issued, Unconfirmed, Taken, Orderly, Numbers
<1> QED
  BY <1>4, <1>6

\* Every step is one of OrderedEdits, or nothing to it.
THEOREM NextRefines == RInv /\ [Next]_vars => RInv' /\ [Ordered!Next]_(Ordered!vars)
<1> SUFFICES ASSUME RInv, [Next]_vars PROVE RInv' /\ [Ordered!Next]_(Ordered!vars)
  OBVIOUS
<1>1. IInv'
  BY NextIInv DEF RInv
<1>2. ASSUME UNCHANGED vars PROVE Simulated
  <2>1. ASSUME NEW t \in Session PROVE Tracked(t)'
    BY <1>2 DEF vars, RInv, Tracked, NumberedOnce, Follows, LoggedBy
  <2>2. UNCHANGED <<Order, Issued, Unconfirmed, Taken, Orderly, error>>
    BY <1>2 DEF vars, Order, Issued, Unconfirmed, Taken, Orderly, Numbers
  <2> QED
    BY <2>1, <2>2, AbstractStutter DEF Simulated
<1>3. ASSUME NEW s \in Session, HandleMessage(s) PROVE Simulated
  BY <1>3, HandleOperationAckSimulated, HandleRemoteOperationSimulated,
     RemoteEditedWhenHeardSimulated DEF HandleMessage
<1>4. Simulated
  BY <1>2, <1>3, LocalOperationSimulated, EditedWhenHeardSimulated,
     EditedWhenModifiedSimulated, BatchFlagSimulated, CompleteBatchSimulated,
     ServerReceivesSimulated DEF Next
<1> QED
  BY <1>1, <1>4 DEF RInv, Simulated

\* What the sessions, the server and the messages between them do, one after the other,
\* is a behaviour of OrderedEdits: one order of all edits comes to be, each session's in
\* the order issued, and every session takes it in from the beginning, its own confirmed
\* first issued, first confirmed.
THEOREM Refinement == Spec => ImplementsOrderedEdits
  BY InitRefines, NextRefines, PTL DEF Spec, ImplementsOrderedEdits, Ordered!Spec
=============================================================================
