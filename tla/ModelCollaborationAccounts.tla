---------------------- MODULE ModelCollaborationAccounts ----------------------
(***************************************************************************)
(* What commit_state_changed says is true: committed exactly when each of  *)
(* a session's edits is in the server's history and the session knows.     *)
(*                                                                         *)
(* An edit is counted where it is: in an operation in flight, in the batch *)
(* in progress, in a submission on its way, in the history.  Operations    *)
(* are transformed wherever they wait, but none gains or loses a discrete  *)
(* operation on the way, so that a count kept per sequence number, fixed   *)
(* when the operation is issued, holds of it wherever it is.  The          *)
(* invariant says that each session has such a count.  It needs nothing of *)
(* the transformation functions, and holds of sessions that send their     *)
(* operations out of order too.                                            *)
(***************************************************************************)
EXTENDS ModelCollaborationAgreement

----------------------------------------------------------------------------
(* How long operations are                                                 *)

\* An operation of as many discrete operations as l.
HasLength(operation, l) == IsSequence(operation) /\ Len(operation) = l

\* Discrete operations that pass one of the server remain as many.
LEMMA ClientCompoundLength ==
  ASSUME NEW s, NEW c, NEW n \in Nat, HasLength(c, n)
  PROVE  HasLength(TransformClientCompoundOperation(s, c).clientOp, n)
<1>1. PICK pair : ClientPairs(pair, s, c, n)
  BY ClientCompoundPairs DEF HasLength
<1> DEFINE T == {i \in 0 .. n : HasLength(pair[i].clientOp, i)}
<1>2. 0 \in T
  BY <1>1, EmptyIsSequence DEF ClientPairs, HasLength, OperationPair
<1>3. ASSUME NEW i \in 0 .. n - 1, i \in T PROVE i + 1 \in T
  <2> DEFINE j == i + 1
             before == pair[i].clientOp
  <2>1. j \in 1 .. n /\ j - 1 = i /\ j \in 0 .. n
    OBVIOUS
  <2>2. pair[j] = PassesDiscrete(pair[i], c[j])
    BY <1>1, <2>1 DEF ClientPairs
  <2>3. \E e : pair[j].clientOp = Append(before, e)
    BY <2>2 DEF PassesDiscrete, OperationPair
  <2>4. HasLength(before, i)
    BY <1>3
  <2> HIDE DEF j, before
  <2>5. HasLength(pair[j].clientOp, i + 1)
    BY <2>3, <2>4, AppendToSequence DEF HasLength
  <2> QED
    BY <2>1, <2>5 DEF j
<1>4. n \in T
  <2> HIDE DEF T
  <2>1. 0 \in Nat /\ 0 <= n /\ \A i \in 0 .. n - 1 : i \in T => i + 1 \in T
    BY <1>3
  <2>2. 0 .. n \subseteq T
    BY <1>2, <2>1, UpTo
  <2> QED
    BY <2>2
<1> QED
  BY <1>1, <1>4 DEF ClientPairs

\* So do those of both sides when operations pass each other.
LEMMA OperationsLength ==
  ASSUME NEW s, NEW m \in Nat, HasLength(s, m), NEW c, NEW n \in Nat, HasLength(c, n)
  PROVE  /\ HasLength(TransformOperations(s, c).serverOp, m)
         /\ HasLength(TransformOperations(s, c).clientOp, n)
<1>1. PICK pair : ServerPairs(pair, s, c, m)
  BY OperationsPairs DEF HasLength
<1> DEFINE T == {i \in 0 .. m : /\ HasLength(pair[i].serverOp, i)
                                /\ HasLength(pair[i].clientOp, n)}
<1>2. 0 \in T
  BY <1>1, EmptyIsSequence DEF ServerPairs, HasLength, OperationPair
<1>3. ASSUME NEW i \in 0 .. m - 1, i \in T PROVE i + 1 \in T
  <2> DEFINE j == i + 1
             before == pair[i].serverOp
             over == pair[i].clientOp
  <2>1. j \in 1 .. m /\ j - 1 = i /\ j \in 0 .. m
    OBVIOUS
  <2>2. pair[j] = PassedByDiscrete(pair[i], s[j])
    BY <1>1, <2>1 DEF ServerPairs
  <2>3. /\ \E e : pair[j].serverOp = Append(before, e)
        /\ pair[j].clientOp = TransformClientCompoundOperation(s[j], over).clientOp
    BY <2>2 DEF PassedByDiscrete, OperationPair
  <2>4. HasLength(before, i) /\ HasLength(over, n)
    BY <1>3
  <2> HIDE DEF j, before, over
  <2>5. HasLength(pair[j].serverOp, i + 1)
    BY <2>3, <2>4, AppendToSequence DEF HasLength
  <2>6. HasLength(pair[j].clientOp, n)
    BY <2>3, <2>4, ClientCompoundLength
  <2> QED
    BY <2>1, <2>5, <2>6 DEF j
<1>4. m \in T
  <2> HIDE DEF T
  <2>1. 0 \in Nat /\ 0 <= m /\ \A i \in 0 .. m - 1 : i \in T => i + 1 \in T
    BY <1>3
  <2>2. 0 .. m \subseteq T
    BY <1>2, <2>1, UpTo
  <2> QED
    BY <2>2
<1> QED
  BY <1>1, <1>4 DEF ServerPairs

\* Events of the server, each with a version and an operation.
AreEvents(w) ==
  /\ IsSequence(w)
  /\ \A i \in 1 .. Len(w) : /\ DOMAIN w[i] = {"clientId", "version", "operation"}
                            /\ IsSequence(w[i].operation)

\* The operation that passes all of w, and those it passes.
LEMMA OutgoingLength ==
  ASSUME NEW w, AreEvents(w), NEW operation, NEW n \in Nat, HasLength(operation, n)
  PROVE  LET passed == TransformOutgoing(w, operation)
         IN  /\ HasLength(passed.operation, n)
             /\ AreEvents(passed.serverOps) /\ Len(passed.serverOps) = Len(w)
             /\ \A i \in 1 .. Len(w) : passed.serverOps[i].version = w[i].version
<1> DEFINE l == Len(w)
           passed == TransformOutgoing(w, operation)
           others == passed.serverOps
<1>1. /\ l \in Nat /\ DOMAIN w = 1 .. l /\ \A i \in 1 .. l : IsSequence(w[i].operation)
  BY SequenceIsFunction DEF AreEvents
<1>2. PICK pair : PassesAll(pair, w, operation)
  BY <1>1, TransformOutgoingPairs
<1>3. /\ pair[0] = OperationPair(<<>>, operation)
      /\ \A i \in 1 .. l : pair[i] = TransformOperations(w[i].operation, pair[i - 1].clientOp)
      /\ passed.operation = pair[l].clientOp
      /\ others = [i \in 1 .. l |-> [w[i] EXCEPT !.operation = pair[i].serverOp]]
  BY <1>2 DEF PassesAll
<1> HIDE DEF passed, others
<1> DEFINE T == {i \in 0 .. l : /\ HasLength(pair[i].clientOp, n)
                                /\ i > 0 => IsSequence(pair[i].serverOp)}
<1>4. 0 \in T
  BY <1>1, <1>3 DEF OperationPair
<1>5. ASSUME NEW i \in 0 .. l - 1, i \in T PROVE i + 1 \in T
  <2> DEFINE j == i + 1
             op == w[j].operation
             over == pair[i].clientOp
  <2>1. j \in 1 .. l /\ j - 1 = i /\ j \in 0 .. l
    BY <1>1
  <2>2. pair[j] = TransformOperations(op, over)
    BY <1>3, <2>1
  <2>3. HasLength(op, Len(op)) /\ Len(op) \in Nat /\ HasLength(over, n)
    BY <1>1, <1>5, <2>1, SequenceIsFunction DEF HasLength
  <2> HIDE DEF j, op, over
  <2>4. HasLength(pair[j].serverOp, Len(op)) /\ HasLength(pair[j].clientOp, n)
    BY <2>2, <2>3, OperationsLength
  <2> QED
    BY <2>1, <2>4 DEF j, HasLength
<1>6. 0 .. l \subseteq T
  <2> HIDE DEF T
  <2>1. 0 \in Nat /\ 0 <= l /\ \A i \in 0 .. l - 1 : i \in T => i + 1 \in T
    BY <1>1, <1>5
  <2> QED
    BY <1>1, <1>4, <2>1, UpTo
<1>7. HasLength(passed.operation, n)
  BY <1>1, <1>3, <1>6
<1>8. IsSequence(others) /\ Len(others) = l
  BY <1>1, <1>3, FunctionIsSequence
<1>9. ASSUME NEW i \in 1 .. l
      PROVE  /\ DOMAIN others[i] = {"clientId", "version", "operation"}
             /\ IsSequence(others[i].operation) /\ others[i].version = w[i].version
  <2>1. DOMAIN w[i] = {"clientId", "version", "operation"}
    BY DEF AreEvents
  <2>2. others[i] = [w[i] EXCEPT !.operation = pair[i].serverOp]
    BY <1>3
  <2>3. IsSequence(pair[i].serverOp)
    <3>1. i \in T /\ i > 0
      BY <1>1, <1>6
    <3> QED
      BY <3>1
  <2> QED
    BY <2>1, <2>2, <2>3
<1> QED
  BY <1>7, <1>8, <1>9 DEF passed, others, AreEvents
----------------------------------------------------------------------------
(* How many edits of a session the history has                             *)

\* Those of its operation n.
OwnEdits(s, history, n) ==
  IF history[n].sessionId = s THEN Len(history[n].operation) ELSE 0

CountsUp(count, s, history, n) ==
  /\ count[0] = 0
  /\ \A i \in 1 .. n : count[i] = count[i - 1] + OwnEdits(s, history, i)
  /\ EditsLogged(s, history, n) = count[n]

\* What EditsLogged computes, version by version.
LEMMA EditsLoggedCounts ==
  ASSUME NEW s, NEW history, NEW n \in Nat
  PROVE  \E count : CountsUp(count, s, history, n)
<1> DEFINE Counts(p, k) ==
             p[0] = 0 /\ \A i \in 1 .. k : p[i] = p[i - 1] + OwnEdits(s, history, i)
           T == {k \in 0 .. n : \E p : Counts(p, k)}
<1>1. 0 \in T
  <2>1. Counts([i \in {0} |-> 0], 0)
    OBVIOUS
  <2>2. 0 \in 0 .. n
    OBVIOUS
  <2> HIDE DEF Counts
  <2> QED
    BY <2>1, <2>2
<1>2. ASSUME NEW k \in 0 .. n - 1, k \in T PROVE k + 1 \in T
  <2>1. PICK p : Counts(p, k)
    BY <1>2
  <2> DEFINE e == p[k] + OwnEdits(s, history, k + 1)
             r == [i \in 0 .. n |-> IF i = k + 1 THEN e ELSE p[i]]
  <2>2. /\ r[k + 1] = e /\ \A i \in 0 .. k : r[i] = p[i]
    OBVIOUS
  <2> HIDE DEF r
  <2>3. ASSUME NEW i \in 1 .. k + 1 PROVE r[i] = r[i - 1] + OwnEdits(s, history, i)
    <3>1. CASE i = k + 1
      <4>1. r[i - 1] = p[k]
        BY <2>2, <3>1
      <4> QED
        BY <2>2, <3>1, <4>1
    <3>2. CASE i # k + 1
      <4>1. i \in 0 .. k /\ i - 1 \in 0 .. k /\ i \in 1 .. k
        BY <3>2
      <4> QED
        BY <2>1, <2>2, <4>1
    <3> QED
      BY <3>1, <3>2
  <2>4. Counts(r, k + 1)
    BY <2>1, <2>2, <2>3
  <2>5. k + 1 \in 0 .. n
    OBVIOUS
  <2> HIDE DEF Counts
  <2> QED
    BY <2>4, <2>5
<1>3. n \in T
  <2> HIDE DEF T
  <2>1. 0 \in Nat /\ 0 <= n /\ \A k \in 0 .. n - 1 : k \in T => k + 1 \in T
    BY <1>2
  <2>2. 0 .. n \subseteq T
    BY <1>1, <2>1, UpTo
  <2> QED
    BY <2>2
<1>4. PICK p : Counts(p, n)
  BY <1>3
<1> DEFINE Body(g) == [i \in 0 .. n |->
                         IF i = 0 THEN 0 ELSE g[i - 1] + OwnEdits(s, history, i)]
           r == [i \in 0 .. n |-> p[i]]
           f == CHOOSE g : g = Body(g)
<1>5. r = Body(r)
  <2>1. \A i \in 0 .. n : r[i] = p[i]
    OBVIOUS
  <2> HIDE DEF r
  <2>2. \A i \in 1 .. n : r[i] = r[i - 1] + OwnEdits(s, history, i)
    BY <1>4, <2>1
  <2>3. r[0] = 0
    BY <1>4, <2>1
  <2>4. \A i \in 0 .. n : r[i] = Body(r)[i]
    BY <2>2, <2>3
  <2> QED
    BY <2>4 DEF r
<1>6. EditsLogged(s, history, n) = f[n]
  BY DEF EditsLogged, OwnEdits
<1> HIDE DEF Body
<1>7. f = Body(f)
  <2> HIDE DEF r
  <2> QED
    BY <1>5
<1> HIDE DEF f
<1>8. \A i \in 0 .. n : f[i] = IF i = 0 THEN 0 ELSE f[i - 1] + OwnEdits(s, history, i)
  BY <1>7 DEF Body
<1>9. f[0] = 0 /\ \A i \in 1 .. n : f[i] = f[i - 1] + OwnEdits(s, history, i)
  BY <1>8
<1> QED
  BY <1>6, <1>9 DEF CountsUp

\* It depends on the history before the version alone.
LEMMA SameCounts ==
  ASSUME NEW s, NEW h, NEW k, NEW n \in Nat, NEW l \in Nat, n <= l,
         \A i \in 1 .. n : k[i] = h[i],
         NEW p, CountsUp(p, s, h, n), NEW q, CountsUp(q, s, k, l)
  PROVE  p[n] = q[n]
<1> DEFINE T == {i \in 0 .. n : p[i] = q[i]}
<1>1. 0 \in T
  BY DEF CountsUp
<1>2. ASSUME NEW i \in 0 .. n - 1, i \in T PROVE i + 1 \in T
  <2>1. i + 1 \in 1 .. n /\ i + 1 \in 1 .. l /\ i + 1 \in 0 .. n /\ (i + 1) - 1 = i
    OBVIOUS
  <2>2. /\ p[i + 1] = p[i] + OwnEdits(s, h, i + 1)
        /\ q[i + 1] = q[i] + OwnEdits(s, k, i + 1)
    BY <2>1 DEF CountsUp
  <2>3. OwnEdits(s, h, i + 1) = OwnEdits(s, k, i + 1)
    BY <2>1 DEF OwnEdits
  <2> QED
    BY <1>2, <2>1, <2>2, <2>3
<1>3. n \in T
  <2> HIDE DEF T
  <2>1. 0 \in Nat /\ 0 <= n /\ \A i \in 0 .. n - 1 : i \in T => i + 1 \in T
    BY <1>2
  <2>2. 0 .. n \subseteq T
    BY <1>1, <2>1, UpTo
  <2> QED
    BY <2>2
<1> QED
  BY <1>3

\* At the first version and at the next one.
LEMMA EditsLoggedNext ==
  ASSUME NEW s, NEW history
  PROVE  /\ EditsLogged(s, history, 0) = 0
         /\ \A v \in Nat : EditsLogged(s, history, v + 1) =
                             EditsLogged(s, history, v) + OwnEdits(s, history, v + 1)
<1>1. EditsLogged(s, history, 0) = 0
  <2>1. PICK p : CountsUp(p, s, history, 0)
    BY EditsLoggedCounts
  <2> QED
    BY <2>1 DEF CountsUp
<1>2. ASSUME NEW v \in Nat
      PROVE  EditsLogged(s, history, v + 1) =
               EditsLogged(s, history, v) + OwnEdits(s, history, v + 1)
  <2>1. v + 1 \in Nat /\ v <= v + 1 /\ v + 1 \in 1 .. v + 1 /\ (v + 1) - 1 = v
    OBVIOUS
  <2>2. PICK p : CountsUp(p, s, history, v)
    BY EditsLoggedCounts
  <2>3. PICK q : CountsUp(q, s, history, v + 1)
    BY <2>1, EditsLoggedCounts
  <2>4. q[v] = p[v]
    BY <2>1, <2>2, <2>3, SameCounts
  <2>5. q[v + 1] = q[v] + OwnEdits(s, history, v + 1)
    BY <2>1, <2>3 DEF CountsUp
  <2> QED
    BY <2>2, <2>3, <2>4, <2>5 DEF CountsUp
<1> QED
  BY <1>1, <1>2

\* What comes later does not change it.
LEMMA EditsLoggedKept ==
  ASSUME NEW s, NEW h, NEW k, NEW v \in Nat, \A i \in 1 .. v : k[i] = h[i]
  PROVE  EditsLogged(s, k, v) = EditsLogged(s, h, v)
<1>1. v <= v
  OBVIOUS
<1>2. PICK p : CountsUp(p, s, h, v)
  BY EditsLoggedCounts
<1>3. PICK q : CountsUp(q, s, k, v)
  BY EditsLoggedCounts
<1>4. p[v] = q[v]
  BY <1>1, <1>2, <1>3, SameCounts
<1> QED
  BY <1>2, <1>3, <1>4 DEF CountsUp
----------------------------------------------------------------------------
(* What a session has issued, counted                                      *)

\* total[k] counts the edits in the first k of the operations of a session, numbered up
\* to last.
Totals(total, last) ==
  /\ last \in Nat /\ total[0] = 0
  /\ \A k \in 0 .. last : total[k] \in Nat
  /\ \A j, k \in 0 .. last : j < k => total[j] < total[k]

\* The operation is as long as that of this number.
IsOf(total, last, number, operation) ==
  number \in 1 .. last /\ HasLength(operation, total[number] - total[number - 1])

\* The edits made are those of the operations issued and those of the batch, and the
\* operations not acknowledged are in flight.
Accounts(c, made, total) ==
  /\ Totals(total, c.lastSequenceNumber)
  /\ Len(c.inflightOperations) <= c.lastSequenceNumber
  /\ \A i \in 1 .. Len(c.inflightOperations) :
       /\ c.inflightOperations[i].seqNo = Acked(c) + i
       /\ IsOf(total, c.lastSequenceNumber, Acked(c) + i, c.inflightOperations[i].operation)
  /\ IsSequence(c.pendingCompoundOperation)
  /\ made = total[c.lastSequenceNumber] + Len(c.pendingCompoundOperation)

\* Between two handlers, committed says whether anything is outstanding.
Tells(c) == Settled(c) /\ (c.committed <=> NothingOutstanding(c))

SentAs(q, total, last) ==
  \A i \in 1 .. Len(q) : IsOf(total, last, q[i].sequenceNumber, q[i].operation)

LoggedAs(s, history, total, last) ==
  \A i \in 1 .. Len(history) :
    history[i].sessionId = s => IsOf(total, last, history[i].seqNo, history[i].operation)

\* More operations are counted, the others as before.
Extends(total, last, more, next) ==
  /\ Totals(total, last) /\ Totals(more, next) /\ last <= next
  /\ \A k \in 0 .. last : more[k] = total[k]

\* What is of the operations counted remains so.
LEMMA ExtendingKeeps ==
  ASSUME NEW total, NEW last, NEW more, NEW next, Extends(total, last, more, next),
         NEW number, NEW operation, IsOf(total, last, number, operation)
  PROVE  IsOf(more, next, number, operation)
<1>1. number \in 1 .. last /\ last \in Nat /\ next \in Nat /\ last <= next
  BY DEF IsOf, Extends, Totals
<1>2. number \in 1 .. next /\ number \in 0 .. last /\ number - 1 \in 0 .. last
  BY <1>1
<1>3. more[number] = total[number] /\ more[number - 1] = total[number - 1]
  BY <1>2 DEF Extends
<1> QED
  BY <1>2, <1>3 DEF IsOf

\* An operation put in flight is counted.
LEMMA AccountsOncePutInFlight ==
  ASSUME NEW c, IsConcurrencyControl(c), NEW made, NEW total, Accounts(c, made, total),
         c.pendingCompoundOperation = <<>>,
         NEW s, NEW operation, NEW n \in Nat, n > 0, HasLength(operation, n)
  PROVE  LET d == PutInFlight(c, s, operation)
         IN  \E more : /\ Extends(total, c.lastSequenceNumber, more, d.lastSequenceNumber)
                       /\ Accounts(d, made + n, more)
<1> DEFINE event == ClientOperationEvent(s, c.lastSequenceNumber + 1, c.contextVersion, operation)
           d == PutInFlight(c, s, operation)
           f == c.inflightOperations
           g == d.inflightOperations
           a == Len(f)
           l == c.lastSequenceNumber
<1>1. /\ d.lastSequenceNumber = l + 1 /\ g = Append(f, event)
      /\ d.pendingCompoundOperation = <<>>
  BY DEF PutInFlight, IsConcurrencyControl
<1>2. event.seqNo = l + 1 /\ event.operation = operation
  BY DEF ClientOperationEvent
<1> HIDE DEF d, event
<1>3. /\ l \in Nat /\ a \in Nat /\ Len(g) = a + 1
      /\ \A i \in 1 .. a : g[i] = f[i]
      /\ g[a + 1] = event
  BY <1>1, AppendToSequence, SequenceIsFunction DEF IsConcurrencyControl
<1>4. /\ Totals(total, l) /\ a <= l /\ made = total[l]
      /\ \A i \in 1 .. a : /\ f[i].seqNo = l - a + i
                           /\ IsOf(total, l, l - a + i, f[i].operation)
  <2>1. Len(<<>>) = 0 /\ total[l] \in Nat
    BY <1>3 DEF Accounts, Totals
  <2> QED
    BY <2>1 DEF Accounts, Acked
<1> HIDE DEF f, g, a, l
<1> DEFINE more == [k \in 0 .. l + 1 |-> IF k = l + 1 THEN total[l] + n ELSE total[k]]
<1>5. more[l + 1] = total[l] + n /\ \A k \in 0 .. l : more[k] = total[k]
  BY <1>3
<1> HIDE DEF more
<1>6. Totals(more, l + 1)
  <2>1. /\ total[0] = 0 /\ \A k \in 0 .. l : total[k] \in Nat
        /\ \A j, k \in 0 .. l : j < k => total[j] < total[k]
    BY <1>4 DEF Totals
  <2>2. \A k \in 0 .. l + 1 : k = l + 1 \/ k \in 0 .. l
    BY <1>3
  <2>3. \A k \in 0 .. l + 1 : more[k] \in Nat
    BY <1>3, <1>5, <2>1, <2>2
  <2>4. ASSUME NEW j \in 0 .. l + 1, NEW k \in 0 .. l + 1, j < k PROVE more[j] < more[k]
    <3>1. j \in 0 .. l /\ more[j] = total[j]
      BY <1>3, <1>5, <2>2, <2>4
    <3>2. CASE k = l + 1
      <4>1. total[j] <= total[l] /\ total[j] \in Nat /\ total[l] \in Nat
        BY <1>3, <2>1, <3>1
      <4> QED
        BY <1>5, <3>1, <3>2, <4>1
    <3>3. CASE k \in 0 .. l
      BY <1>5, <2>1, <2>4, <3>1, <3>3
    <3> QED
      BY <2>2, <3>2, <3>3
  <2>5. more[0] = 0 /\ l + 1 \in Nat
    BY <1>3, <1>5, <2>1
  <2> QED
    BY <2>3, <2>4, <2>5 DEF Totals
<1>7. Extends(total, l, more, l + 1)
  BY <1>3, <1>4, <1>5, <1>6 DEF Extends
<1>8. Acked(d) = l - a
  <2>1. (l + 1) - (a + 1) = l - a
    BY <1>3
  <2> QED
    BY <1>1, <1>3, <2>1 DEF Acked, g
<1>9. ASSUME NEW i \in 1 .. a + 1
      PROVE  g[i].seqNo = l - a + i /\ IsOf(more, l + 1, l - a + i, g[i].operation)
  <2>1. CASE i \in 1 .. a
    BY <1>3, <1>4, <1>7, <2>1, ExtendingKeeps
  <2>2. CASE i \notin 1 .. a
    <3>1. i = a + 1 /\ l - a + i = l + 1 /\ l + 1 \in 1 .. l + 1 /\ (l + 1) - 1 = l
      BY <1>3, <2>2
    <3>2. total[l] \in Nat /\ (total[l] + n) - total[l] = n
      BY <1>3, <1>4 DEF Totals
    <3>3. more[l + 1] - more[l] = n
      BY <1>3, <1>5, <3>2
    <3>4. IsOf(more, l + 1, l + 1, operation)
      BY <3>1, <3>3 DEF IsOf
    <3> QED
      BY <1>2, <1>3, <3>1, <3>4
  <2> QED
    BY <2>1, <2>2
<1>10. Accounts(d, made + n, more)
  <2>1. /\ IsSequence(<<>>) /\ a + 1 <= l + 1
        /\ made + n = more[l + 1] + Len(<<>>)
    <3>1. Len(<<>>) = 0 /\ total[l] \in Nat
      BY <1>3, <1>4 DEF Totals
    <3> QED
      BY <1>3, <1>4, <1>5, <3>1, EmptyIsSequence
  <2> QED
    BY <1>1, <1>3, <1>6, <1>8, <1>9, <2>1 DEF Accounts, g
<1> QED
  BY <1>1, <1>7, <1>10 DEF d, l
\* A discrete operation is one of length one.
LEMMA DiscreteLength ==
  ASSUME NEW op
  PROVE  HasLength(<<op>>, 1)
  BY FunctionIsSequence DEF HasLength, IsSequence

\* Nothing outstanding means nothing but what is acknowledged.
LEMMA OutstandingCounts ==
  ASSUME NEW c, IsConcurrencyControl(c), IsSequence(c.pendingCompoundOperation)
  PROVE  NothingOutstanding(c) <=> /\ Len(c.inflightOperations) = 0
                                   /\ Len(c.pendingCompoundOperation) = 0
<1>1. ASSUME NEW w, IsSequence(w) PROVE w = <<>> <=> Len(w) = 0
  BY <1>1, EmptySeq DEF IsSequence
<1> QED
  BY <1>1 DEF NothingOutstanding, IsConcurrencyControl

\* A local operation is counted, in flight or in the batch.
LEMMA AccountsOnceIssued ==
  ASSUME NEW c, IsConcurrencyControl(c), Tells(c),
         NEW made, NEW total, Accounts(c, made, total), NEW s, NEW op
  PROVE  LET d == ProcessOutgoingOperation(c, s, op)
         IN  /\ Tells(d)
             /\ \E more : /\ Extends(total, c.lastSequenceNumber, more, d.lastSequenceNumber)
                          /\ Accounts(d, made + 1, more)
<1> DEFINE noted == [c EXCEPT !.unappliedOperations = <<>>,
                              !.committed = IF NothingOutstanding(c) THEN FALSE ELSE @]
           d == ProcessOutgoingOperation(c, s, op)
           pending == c.pendingCompoundOperation
           event == ClientOperationEvent(s, c.lastSequenceNumber + 1, c.contextVersion, <<op>>)
<1>1. c.unappliedOperations = <<>> /\ (c.compoundOpInProgress \/ pending = <<>>)
  BY DEF Tells, Settled
<1>2. d = Issue(noted, s, <<op>>)
  BY <1>1, NothingToPass DEF ProcessOutgoingOperation
<1>3. /\ IsConcurrencyControl(noted) /\ noted.unappliedOperations = <<>>
      /\ noted.lastSequenceNumber = c.lastSequenceNumber
      /\ noted.contextVersion = c.contextVersion
      /\ noted.inflightOperations = c.inflightOperations
      /\ noted.pendingCompoundOperation = pending
      /\ noted.compoundOpInProgress = c.compoundOpInProgress
      /\ ~noted.committed
  BY DEF IsConcurrencyControl, Tells
<1>4. Accounts(noted, made, total)
  BY <1>3 DEF Accounts, Acked
<1>5. HasLength(<<op>>, 1)
  BY DiscreteLength
<1>6. CASE c.compoundOpInProgress
  <2>1. d = [noted EXCEPT !.pendingCompoundOperation = pending \o <<op>>]
    BY <1>2, <1>3, <1>6 DEF Issue
  <2>2. /\ d.lastSequenceNumber = c.lastSequenceNumber /\ d.unappliedOperations = <<>>
        /\ d.inflightOperations = c.inflightOperations /\ d.compoundOpInProgress
        /\ d.pendingCompoundOperation = pending \o <<op>> /\ ~d.committed
    BY <1>3, <1>6, <2>1 DEF IsConcurrencyControl
  <2> HIDE DEF d, noted
  <2>3. /\ IsSequence(pending \o <<op>>) /\ Len(pending \o <<op>>) = Len(pending) + 1
        /\ Len(pending) \in Nat
    <3> DEFINE x == <<op>>
    <3>1. IsSequence(pending) /\ IsSequence(x) /\ Len(x) = 1
      BY <1>5 DEF Accounts, HasLength
    <3> HIDE DEF x
    <3>2. IsSequence(pending \o x) /\ Len(pending \o x) = Len(pending) + Len(x)
      BY <3>1, ConcatOfSequences
    <3>3. Len(pending) \in Nat
      BY <3>1, SequenceIsFunction
    <3> QED
      BY <3>1, <3>2, <3>3 DEF x
  <2> DEFINE joined == pending \o <<op>>
  <2>4. d.pendingCompoundOperation = joined /\ IsSequence(joined) /\ Len(joined) = Len(pending) + 1
    BY <2>2, <2>3
  <2> HIDE DEF joined
  <2>5. /\ Totals(total, c.lastSequenceNumber) /\ total[c.lastSequenceNumber] \in Nat
        /\ made = total[c.lastSequenceNumber] + Len(pending)
    BY DEF Accounts, Totals
  <2>6. made + 1 = total[c.lastSequenceNumber] + Len(joined)
    BY <2>3, <2>4, <2>5
  <2>7. Accounts(d, made + 1, total)
    BY <2>2, <2>4, <2>6 DEF Accounts, Acked
  <2>8. Extends(total, c.lastSequenceNumber, total, d.lastSequenceNumber)
    BY <2>2, <2>5 DEF Extends, Totals
  <2>9. joined # <<>>
    BY <2>3, <2>4
  <2>10. Tells(d)
    BY <2>2, <2>4, <2>9 DEF Tells, Settled, NothingOutstanding
  <2> QED
    BY <2>7, <2>8, <2>10 DEF d
<1>7. CASE ~c.compoundOpInProgress
  <2>1. d = PutInFlight(noted, s, <<op>>)
    BY <1>2, <1>3, <1>7 DEF Issue
  <2>2. pending = <<>>
    BY <1>1, <1>7
  <2>3. /\ d.unappliedOperations = <<>> /\ d.pendingCompoundOperation = <<>> /\ ~d.committed
        /\ d.inflightOperations = Append(noted.inflightOperations, event)
    BY <1>3, <2>1, <2>2 DEF PutInFlight, IsConcurrencyControl
  <2> HIDE DEF d, noted, event
  <2>4. PICK more : /\ Extends(total, noted.lastSequenceNumber, more, d.lastSequenceNumber)
                    /\ Accounts(d, made + 1, more)
    BY <1>3, <1>4, <1>5, <2>1, <2>2, AccountsOncePutInFlight
  <2>5. d.inflightOperations # <<>>
    <3>1. IsSequence(noted.inflightOperations) /\ Len(noted.inflightOperations) \in Nat
      BY <1>3, SequenceIsFunction DEF IsConcurrencyControl
    <3>2. Len(d.inflightOperations) = Len(noted.inflightOperations) + 1
      BY <2>3, <3>1, AppendToSequence
    <3> QED
      BY <3>1, <3>2, EmptyIsSequence
  <2>6. Tells(d)
    BY <2>3, <2>5 DEF Tells, Settled, NothingOutstanding
  <2> QED
    BY <1>3, <2>4, <2>6 DEF d
<1> QED
  BY <1>6, <1>7

\* So are those of a batch when it ends.
LEMMA AccountsOnceCompleted ==
  ASSUME NEW c, IsConcurrencyControl(c), Tells(c),
         NEW made, NEW total, Accounts(c, made, total), NEW s
  PROVE  LET d == CompleteBatchOperation(c, s)
         IN  /\ Tells(d)
             /\ \E more : /\ Extends(total, c.lastSequenceNumber, more, d.lastSequenceNumber)
                          /\ Accounts(d, made, more)
<1> DEFINE ended == [c EXCEPT !.compoundOpInProgress = FALSE, !.pendingCompoundOperation = <<>>]
           d == CompleteBatchOperation(c, s)
           pending == c.pendingCompoundOperation
           l == c.lastSequenceNumber
           event == ClientOperationEvent(s, l + 1, c.contextVersion, pending)
<1>1. /\ IsConcurrencyControl(ended) /\ ended.unappliedOperations = <<>>
      /\ ended.lastSequenceNumber = l /\ ended.contextVersion = c.contextVersion
      /\ ended.inflightOperations = c.inflightOperations
      /\ ended.pendingCompoundOperation = <<>>
      /\ ~ended.compoundOpInProgress /\ ended.committed = c.committed
  BY DEF IsConcurrencyControl, Tells, Settled
<1>2. d = IF pending = <<>> THEN ended ELSE PutInFlight(ended, s, pending)
  BY DEF CompleteBatchOperation
<1>3. /\ Totals(total, l) /\ l \in Nat /\ total[l] \in Nat /\ IsSequence(pending)
      /\ Len(pending) \in Nat /\ made = total[l] + Len(pending)
      /\ (c.committed <=> NothingOutstanding(c))
  BY SequenceIsFunction DEF Accounts, Totals, Tells
<1>4. Accounts(ended, total[l], total)
  <2>1. Len(<<>>) = 0 /\ IsSequence(<<>>) /\ total[l] = total[l] + 0
    BY <1>3, EmptyIsSequence
  <2> QED
    BY <1>1, <2>1 DEF Accounts, Acked
<1> HIDE DEF ended, d
<1>5. CASE pending = <<>>
  <2>1. made = total[l]
    BY <1>3, <1>5, EmptyIsSequence
  <2>2. Tells(d)
    BY <1>1, <1>2, <1>3, <1>5 DEF Tells, Settled, NothingOutstanding
  <2>3. Extends(total, l, total, d.lastSequenceNumber)
    BY <1>1, <1>2, <1>3, <1>5 DEF Extends
  <2> QED
    BY <1>2, <1>4, <1>5, <2>1, <2>2, <2>3 DEF d
<1>6. CASE pending # <<>>
  <2>1. Len(pending) > 0 /\ HasLength(pending, Len(pending)) /\ d = PutInFlight(ended, s, pending)
    BY <1>2, <1>3, <1>6, EmptySeq DEF HasLength, IsSequence
  <2>2. PICK more : /\ Extends(total, ended.lastSequenceNumber, more, d.lastSequenceNumber)
                    /\ Accounts(d, total[l] + Len(pending), more)
    BY <1>1, <1>3, <1>4, <2>1, AccountsOncePutInFlight
  <2>3. /\ d.unappliedOperations = <<>> /\ d.pendingCompoundOperation = <<>>
        /\ d.inflightOperations = Append(ended.inflightOperations, event)
        /\ d.committed = c.committed
    BY <1>1, <2>1 DEF PutInFlight, IsConcurrencyControl
  <2> HIDE DEF event
  <2>4. d.inflightOperations # <<>>
    BY <1>1, <2>3, AppendToSequence, SequenceIsFunction, EmptyIsSequence DEF IsConcurrencyControl
  <2>5. ~c.committed
    BY <1>3, <1>6 DEF NothingOutstanding
  <2>6. Tells(d)
    BY <2>3, <2>4, <2>5 DEF Tells, Settled, NothingOutstanding
  <2> QED
    BY <1>1, <1>3, <2>2, <2>6 DEF d
<1> QED
  BY <1>5, <1>6

\* What is sent of it is what was counted.
LEMMA SendingAsCounted ==
  ASSUME NEW c, IsConcurrencyControl(c), NEW d, Issues(c, d),
         NEW made, NEW total, Accounts(d, made, total),
         NEW more, NEW next, Extends(total, d.lastSequenceNumber, more, next),
         NEW q, IsSequence(q), SentAs(q, more, next)
  PROVE  /\ IsSequence(AfterSending(q, c, d))
         /\ SentAs(AfterSending(q, c, d), more, next)
<1> DEFINE r == AfterSending(q, c, d)
           g == d.inflightOperations
           a == Len(g)
           sent == OperationSubmission(g[a])
<1>1. CASE d.lastSequenceNumber = c.lastSequenceNumber
  BY <1>1 DEF AfterSending
<1>2. CASE d.lastSequenceNumber # c.lastSequenceNumber
  <2>1. r = Append(q, sent)
    BY <1>2 DEF AfterSending
  <2>2. sent.sequenceNumber = g[a].seqNo /\ sent.operation = g[a].operation
    BY DEF OperationSubmission
  <2>3. a >= 1 /\ a \in Nat
    <3>1. PICK event : g = Append(c.inflightOperations, event)
      BY <1>2 DEF Issues
    <3> QED
      BY <3>1, AppendToSequence, SequenceIsFunction DEF IsConcurrencyControl
  <2>4. a \in 1 .. a
    BY <2>3
  <2>5. IsOf(total, d.lastSequenceNumber, g[a].seqNo, g[a].operation)
    BY <2>4 DEF Accounts
  <2>6. IsOf(more, next, sent.sequenceNumber, sent.operation)
    BY <2>2, <2>5, ExtendingKeeps
  <2> HIDE DEF r, sent
  <2>7. /\ IsSequence(r) /\ Len(r) = Len(q) + 1 /\ Len(q) \in Nat
        /\ \A i \in 1 .. Len(q) : r[i] = q[i]
        /\ r[Len(q) + 1] = sent
    BY <2>1, AppendToSequence, SequenceIsFunction
  <2>8. \A i \in 1 .. Len(r) : i \in 1 .. Len(q) \/ i = Len(q) + 1
    BY <2>7
  <2>9. SentAs(r, more, next)
    BY <2>6, <2>7, <2>8 DEF SentAs
  <2> QED
    BY <2>7, <2>9 DEF r
<1> QED
  BY <1>1, <1>2
----------------------------------------------------------------------------
(* What a session reckons                                                  *)

\* The edits made, counted in its concurrency control, in the history, and in what
\* the session knows of the history.
Ledger(s, hist, c, made, total) ==
  /\ Accounts(c, made, total)
  /\ LoggedAs(s, hist, total, c.lastSequenceNumber)
  /\ EditsLogged(s, hist, c.contextVersion) = total[Acked(c)]

\* A session whose model is open.
Reckons(s, hist, c, made, q) ==
  /\ Tells(c)
  /\ \E total : Ledger(s, hist, c, made, total) /\ SentAs(q, total, c.lastSequenceNumber)

\* So committed says that the history has all the edits made, to its knowledge.
LEMMA ReckoningTells ==
  ASSUME NEW s, NEW hist, NEW c, IsConcurrencyControl(c), NEW made, NEW q,
         Reckons(s, hist, c, made, q)
  PROVE  c.committed <=> EditsLogged(s, hist, c.contextVersion) = made
<1>1. PICK total : Ledger(s, hist, c, made, total)
  BY DEF Reckons
<1> DEFINE l == c.lastSequenceNumber
           a == Len(c.inflightOperations)
           p == Len(c.pendingCompoundOperation)
<1>2. /\ Totals(total, l) /\ a <= l /\ made = total[l] + p
      /\ EditsLogged(s, hist, c.contextVersion) = total[l - a]
      /\ IsSequence(c.pendingCompoundOperation)
  BY <1>1 DEF Ledger, Accounts, Acked
<1>3. l \in Nat /\ a \in Nat /\ p \in Nat
  BY <1>2, SequenceIsFunction DEF IsConcurrencyControl
<1>4. c.committed <=> a = 0 /\ p = 0
  BY <1>2, OutstandingCounts DEF Reckons, Tells
<1> HIDE DEF l, a, p
<1>5. total[l - a] \in Nat /\ total[l] \in Nat /\ (a # 0 => total[l - a] < total[l])
  <2>1. l - a \in 0 .. l /\ l \in 0 .. l /\ (a # 0 => l - a < l)
    BY <1>2, <1>3
  <2> QED
    BY <1>2, <2>1 DEF Totals
<1>6. a = 0 => l - a = l
  BY <1>3
<1>7. a = 0 /\ p = 0 <=> total[l - a] = total[l] + p
  BY <1>3, <1>5, <1>6
<1> QED
  BY <1>2, <1>4, <1>7

\* Issuing changes nothing of the history, nor of what is known of it.
LEMMA LedgerOnceIssued ==
  ASSUME NEW s, NEW hist, NEW c, IsConcurrencyControl(c), NEW made, NEW total,
         Ledger(s, hist, c, made, total), NEW d, Issues(c, d), NEW next, NEW more,
         Extends(total, c.lastSequenceNumber, more, d.lastSequenceNumber),
         Accounts(d, next, more)
  PROVE  Ledger(s, hist, d, next, more)
<1> DEFINE l == c.lastSequenceNumber
           a == Len(c.inflightOperations)
<1>1. l \in Nat /\ a \in Nat /\ a <= l
  BY SequenceIsFunction DEF IsConcurrencyControl, Ledger, Accounts
<1>2. Acked(d) = l - a
  <2>1. CASE d.lastSequenceNumber = l /\ d.inflightOperations = c.inflightOperations
    BY <2>1 DEF Acked
  <2>2. ASSUME NEW event, d.lastSequenceNumber = l + 1,
               d.inflightOperations = Append(c.inflightOperations, event)
        PROVE  Acked(d) = l - a
    <3>1. Len(d.inflightOperations) = a + 1
      BY <2>2, AppendToSequence DEF IsConcurrencyControl
    <3>2. (l + 1) - (a + 1) = l - a
      BY <1>1
    <3> QED
      BY <2>2, <3>1, <3>2 DEF Acked
  <2> QED
    BY <2>1, <2>2 DEF Issues
<1>3. more[l - a] = total[l - a]
  <2>1. l - a \in 0 .. l
    BY <1>1
  <2> QED
    BY <2>1 DEF Extends
<1>4. EditsLogged(s, hist, d.contextVersion) = more[Acked(d)]
  BY <1>2, <1>3 DEF Ledger, Acked, Issues
<1>5. LoggedAs(s, hist, more, d.lastSequenceNumber)
  BY ExtendingKeeps DEF Ledger, LoggedAs
<1> QED
  BY <1>4, <1>5 DEF Ledger

\* What was sent is still what was counted.
LEMMA SentAsBefore ==
  ASSUME NEW total, NEW last, NEW more, NEW next, Extends(total, last, more, next),
         NEW q, SentAs(q, total, last)
  PROVE  SentAs(q, more, next)
  BY ExtendingKeeps DEF SentAs

\* An edit more.
LEMMA ReckonsOnceIssued ==
  ASSUME NEW s, NEW hist, NEW c, IsConcurrencyControl(c), NEW made, NEW q, IsSequence(q),
         Reckons(s, hist, c, made, q), NEW op
  PROVE  LET d == ProcessOutgoingOperation(c, s, op)
         IN  Reckons(s, hist, d, made + 1, AfterSending(q, c, d))
<1> DEFINE d == ProcessOutgoingOperation(c, s, op)
<1>1. PICK total : Ledger(s, hist, c, made, total) /\ SentAs(q, total, c.lastSequenceNumber)
  BY DEF Reckons
<1>2. Issues(c, d)
  BY ProcessOutgoingIssues
<1>3. /\ Tells(d)
      /\ \E more : /\ Extends(total, c.lastSequenceNumber, more, d.lastSequenceNumber)
                   /\ Accounts(d, made + 1, more)
  BY <1>1, AccountsOnceIssued DEF Ledger, Reckons
<1> HIDE DEF d
<1>4. PICK more : /\ Extends(total, c.lastSequenceNumber, more, d.lastSequenceNumber)
                  /\ Accounts(d, made + 1, more)
  BY <1>3
<1>5. Ledger(s, hist, d, made + 1, more)
  BY <1>1, <1>2, <1>4, LedgerOnceIssued
<1>6. Extends(more, d.lastSequenceNumber, more, d.lastSequenceNumber)
  BY <1>4 DEF Extends, Totals
<1>7. SentAs(q, more, d.lastSequenceNumber)
  BY <1>1, <1>4, SentAsBefore
<1>8. SentAs(AfterSending(q, c, d), more, d.lastSequenceNumber)
  BY <1>2, <1>4, <1>6, <1>7, SendingAsCounted
<1> QED
  BY <1>3, <1>5, <1>8 DEF Reckons, d

\* An edit more that another, made from within the event it causes, overtakes.
LEMMA ReckonsOnceOvertaken ==
  ASSUME NEW s, NEW hist, NEW c, IsConcurrencyControl(c), NEW made, NEW q, IsSequence(q),
         Reckons(s, hist, c, made, q), NEW op, NEW nested
  PROVE  LET d == ProcessOutgoingOperation(c, s, op)
             e == ProcessOutgoingOperation(d, s, nested)
         IN  Reckons(s, hist, e, made + 1 + 1, AfterSending(AfterSending(q, d, e), c, d))
<1> DEFINE d == ProcessOutgoingOperation(c, s, op)
           e == ProcessOutgoingOperation(d, s, nested)
           first == AfterSending(q, d, e)
<1>1. PICK total : Ledger(s, hist, c, made, total) /\ SentAs(q, total, c.lastSequenceNumber)
  BY DEF Reckons
<1>2. Issues(c, d) /\ IsConcurrencyControl(d)
  BY ProcessOutgoingIssues DEF Issues
<1>3. Issues(d, e)
  BY <1>2, ProcessOutgoingIssues
<1>4. /\ Tells(d)
      /\ \E more : /\ Extends(total, c.lastSequenceNumber, more, d.lastSequenceNumber)
                   /\ Accounts(d, made + 1, more)
  BY <1>1, AccountsOnceIssued DEF Ledger, Reckons
<1>5. PICK more : /\ Extends(total, c.lastSequenceNumber, more, d.lastSequenceNumber)
                  /\ Accounts(d, made + 1, more)
  BY <1>4
<1>6. /\ Tells(e)
      /\ \E most : /\ Extends(more, d.lastSequenceNumber, most, e.lastSequenceNumber)
                   /\ Accounts(e, made + 1 + 1, most)
  <2> HIDE DEF d
  <2> QED
    BY <1>2, <1>4, <1>5, AccountsOnceIssued
<1> HIDE DEF d, e
<1>7. PICK most : /\ Extends(more, d.lastSequenceNumber, most, e.lastSequenceNumber)
                  /\ Accounts(e, made + 1 + 1, most)
  BY <1>6
<1>8. Ledger(s, hist, d, made + 1, more)
  BY <1>1, <1>2, <1>5, LedgerOnceIssued
<1>9. Ledger(s, hist, e, made + 1 + 1, most)
  BY <1>2, <1>3, <1>7, <1>8, LedgerOnceIssued
<1>10. Extends(most, e.lastSequenceNumber, most, e.lastSequenceNumber)
  BY <1>7 DEF Extends, Totals
<1>11. SentAs(q, most, e.lastSequenceNumber)
  BY <1>1, <1>5, <1>7, SentAsBefore
<1>12. IsSequence(first) /\ SentAs(first, most, e.lastSequenceNumber)
  BY <1>2, <1>3, <1>7, <1>10, <1>11, SendingAsCounted
<1> HIDE DEF first
<1>13. SentAs(AfterSending(first, c, d), most, e.lastSequenceNumber)
  BY <1>2, <1>5, <1>7, <1>12, SendingAsCounted
<1> QED
  BY <1>6, <1>9, <1>13 DEF Reckons, d, e, first

\* The end of a batch makes no edit.
LEMMA ReckonsOnceCompleted ==
  ASSUME NEW s, NEW hist, NEW c, IsConcurrencyControl(c), NEW made, NEW q, IsSequence(q),
         Reckons(s, hist, c, made, q)
  PROVE  LET d == CompleteBatchOperation(c, s)
         IN  Reckons(s, hist, d, made, AfterSending(q, c, d))
<1> DEFINE d == CompleteBatchOperation(c, s)
<1>1. PICK total : Ledger(s, hist, c, made, total) /\ SentAs(q, total, c.lastSequenceNumber)
  BY DEF Reckons
<1>2. Issues(c, d)
  BY CompleteBatchIssues
<1>3. /\ Tells(d)
      /\ \E more : /\ Extends(total, c.lastSequenceNumber, more, d.lastSequenceNumber)
                   /\ Accounts(d, made, more)
  BY <1>1, AccountsOnceCompleted DEF Ledger, Reckons
<1> HIDE DEF d
<1>4. PICK more : /\ Extends(total, c.lastSequenceNumber, more, d.lastSequenceNumber)
                  /\ Accounts(d, made, more)
  BY <1>3
<1>5. Ledger(s, hist, d, made, more)
  BY <1>1, <1>2, <1>4, LedgerOnceIssued
<1>6. Extends(more, d.lastSequenceNumber, more, d.lastSequenceNumber)
  BY <1>4 DEF Extends, Totals
<1>7. SentAs(q, more, d.lastSequenceNumber)
  BY <1>1, <1>4, SentAsBefore
<1>8. SentAs(AfterSending(q, c, d), more, d.lastSequenceNumber)
  BY <1>2, <1>4, <1>6, <1>7, SendingAsCounted
<1> QED
  BY <1>3, <1>5, <1>8 DEF Reckons, d

\* So does its beginning, and giving it up.
LEMMA ReckonsOnceStarted ==
  ASSUME NEW s, NEW hist, NEW c, IsConcurrencyControl(c), NEW made, NEW q,
         Reckons(s, hist, c, made, q)
  PROVE  /\ ~c.compoundOpInProgress => Reckons(s, hist, StartBatchOperation(c), made, q)
         /\ CanCancelBatch(c) => Reckons(s, hist, CancelBatchOperation(c), made, q)
<1> SUFFICES ASSUME NEW d, \/ ~c.compoundOpInProgress /\ d = StartBatchOperation(c)
                           \/ CanCancelBatch(c) /\ d = CancelBatchOperation(c)
             PROVE  Reckons(s, hist, d, made, q)
  OBVIOUS
<1>1. /\ c.pendingCompoundOperation = <<>> /\ d.pendingCompoundOperation = <<>>
      /\ d.lastSequenceNumber = c.lastSequenceNumber /\ d.contextVersion = c.contextVersion
      /\ d.inflightOperations = c.inflightOperations /\ d.committed = c.committed
      /\ d.unappliedOperations = c.unappliedOperations
  BY DEF StartBatchOperation, CanCancelBatch, CancelBatchOperation, Reckons, Tells, Settled,
         IsConcurrencyControl
<1> QED
  BY <1>1 DEF Reckons, Tells, Settled, NothingOutstanding, Ledger, Accounts, Acked

\* The session learns that its next operation is in the history.
LEMMA ReckonsOnceAcknowledged ==
  ASSUME NEW s, NEW hist, NEW c, IsConcurrencyControl(c), NEW made, NEW q,
         Reckons(s, hist, c, made, q), c.inflightOperations # <<>>,
         c.contextVersion < Len(hist), hist[c.contextVersion + 1].sessionId = s,
         hist[c.contextVersion + 1].seqNo = Head(c.inflightOperations).seqNo, Len(hist) \in Nat
  PROVE  Reckons(s, hist, ProcessAcknowledgement(c), made, q)
<1> DEFINE d == ProcessAcknowledgement(c)
           f == c.inflightOperations
           a == Len(f)
           l == c.lastSequenceNumber
           v == c.contextVersion
           k == l - a
<1>1. PICK total : Ledger(s, hist, c, made, total) /\ SentAs(q, total, l)
  BY DEF Reckons
<1>2. /\ IsSequence(f) /\ a \in Nat /\ a >= 1 /\ l \in Nat /\ v \in Nat /\ a <= l /\ f[1] = Head(f)
  BY <1>1, TailOfSequence, SequenceIsFunction DEF IsConcurrencyControl, Ledger, Accounts
<1>3. /\ Len(Tail(f)) = a - 1 /\ \A i \in 1 .. a - 1 : Tail(f)[i] = f[i + 1]
  BY <1>2, TailOfSequence
<1>4. /\ d.inflightOperations = Tail(f) /\ d.lastSequenceNumber = l
      /\ d.contextVersion = v + 1
      /\ d.pendingCompoundOperation = c.pendingCompoundOperation
      /\ d.unappliedOperations = c.unappliedOperations
      /\ d.compoundOpInProgress = c.compoundOpInProgress
      /\ d.committed = IF NothingOutstanding(d) THEN TRUE ELSE c.committed
  BY DEF ProcessAcknowledgement, IsConcurrencyControl, NothingOutstanding
<1>5. ~c.committed
  BY DEF Reckons, Tells, NothingOutstanding
<1>6. Tells(d)
  BY <1>4, <1>5 DEF Reckons, Tells, Settled
<1>7. /\ Totals(total, l) /\ IsSequence(c.pendingCompoundOperation)
      /\ made = total[l] + Len(c.pendingCompoundOperation)
      /\ \A i \in 1 .. a : f[i].seqNo = k + i /\ IsOf(total, l, k + i, f[i].operation)
  BY <1>1 DEF Ledger, Accounts, Acked
<1> HIDE DEF d, f, a, l, v, k
<1>8. k = l - a /\ k \in Nat
  BY <1>2 DEF k
<1>9. Acked(d) = k + 1
  <2>1. l - (a - 1) = k + 1
    BY <1>2, <1>8
  <2> QED
    BY <1>3, <1>4, <2>1 DEF Acked
<1>10. ASSUME NEW i \in 1 .. a - 1
       PROVE  /\ Tail(f)[i].seqNo = (k + 1) + i
              /\ IsOf(total, l, (k + 1) + i, Tail(f)[i].operation)
  <2>1. i + 1 \in 1 .. a /\ k + (i + 1) = (k + 1) + i
    BY <1>2, <1>8
  <2> QED
    BY <1>3, <1>7, <2>1
<1>11. Accounts(d, made, total)
  <2>1. a - 1 <= l
    BY <1>2
  <2> QED
    BY <1>3, <1>4, <1>7, <1>9, <1>10, <2>1 DEF Accounts
<1>12. hist[v + 1].seqNo = k + 1 /\ v + 1 \in 1 .. Len(hist)
  <2>1. 1 \in 1 .. a
    BY <1>2
  <2> QED
    BY <1>2, <1>7, <2>1 DEF f, v
<1>13. IsOf(total, l, k + 1, hist[v + 1].operation)
  BY <1>1, <1>12 DEF Ledger, LoggedAs, v, l
<1>14. EditsLogged(s, hist, v + 1) = total[k + 1]
  <2>1. EditsLogged(s, hist, v) = total[k]
    BY <1>1 DEF Ledger, Acked, v, k, l, a, f
  <2>2. OwnEdits(s, hist, v + 1) = total[k + 1] - total[k]
    <3>1. (k + 1) - 1 = k
      BY <1>8
    <3> QED
      BY <1>13, <3>1 DEF OwnEdits, IsOf, HasLength, v
  <2>3. total[k] \in Nat /\ total[k + 1] \in Nat
    <3>1. k \in 0 .. l /\ k + 1 \in 0 .. l
      BY <1>2, <1>8
    <3> QED
      BY <1>7, <3>1 DEF Totals
  <2>4. EditsLogged(s, hist, v + 1) = EditsLogged(s, hist, v) + OwnEdits(s, hist, v + 1)
    BY <1>2, EditsLoggedNext
  <2> QED
    BY <2>1, <2>2, <2>3, <2>4
<1>15. Ledger(s, hist, d, made, total)
  BY <1>1, <1>4, <1>9, <1>11, <1>14 DEF Ledger, l
<1> QED
  BY <1>1, <1>4, <1>6, <1>15 DEF Reckons, d, l

\* What passes the operations in flight leaves them as long as they were.
LEMMA InflightLength ==
  ASSUME NEW inflight, IsSequence(inflight), NEW event, IsSequence(event.operation),
         \A i \in 1 .. Len(inflight) : /\ "operation" \in DOMAIN inflight[i]
                                       /\ IsSequence(inflight[i].operation)
  PROVE  LET over == TransformInflightOperations(inflight, event)
         IN  /\ \A i \in 1 .. Len(inflight) :
                  HasLength(over.inflight[i].operation, Len(inflight[i].operation))
             /\ IsSequence(over.operation)
<1> DEFINE n == Len(inflight)
           operation == event.operation
           pair == PassInflight(inflight, operation)
           over == TransformInflightOperations(inflight, event)
<1>1. n \in Nat /\ n = Len(inflight) /\ DOMAIN inflight = 1 .. n
  BY SequenceIsFunction
<1>2. /\ over.operation = pair[n].serverOp
      /\ over.inflight = [i \in 1 .. n |-> [inflight[i] EXCEPT !.contextVersion = event.version + 1,
                                                               !.operation = pair[i].clientOp]]
  BY <1>1 DEF TransformInflightOperations
<1> HIDE DEF over, n, pair
<1>3. /\ pair[0] = OperationPair(operation, <<>>)
      /\ \A i \in 1 .. n : pair[i] = TransformOperations(pair[i - 1].serverOp, inflight[i].operation)
  BY <1>1, PassInflightPairs DEF pair
<1> HIDE DEF operation
<1> DEFINE T == {i \in 0 .. n :
                   /\ IsSequence(pair[i].serverOp)
                   /\ i > 0 => HasLength(pair[i].clientOp, Len(inflight[i].operation))}
<1>4. 0 \in T
  BY <1>1, <1>3 DEF OperationPair, operation
<1>5. ASSUME NEW i \in 0 .. n - 1, i \in T PROVE i + 1 \in T
  <2> DEFINE j == i + 1
             over_ == pair[i].serverOp
             op == inflight[j].operation
  <2>1. j \in 1 .. n /\ j \in 0 .. n /\ j - 1 = i
    BY <1>1
  <2>2. pair[j] = TransformOperations(over_, op)
    BY <1>3, <2>1
  <2>3. /\ IsSequence(over_) /\ Len(over_) \in Nat /\ HasLength(over_, Len(over_))
        /\ IsSequence(op) /\ Len(op) \in Nat /\ HasLength(op, Len(op))
    BY <1>1, <1>5, <2>1, SequenceIsFunction DEF HasLength
  <2> HIDE DEF over_, op
  <2>4. HasLength(pair[j].serverOp, Len(over_)) /\ HasLength(pair[j].clientOp, Len(op))
    BY <2>2, <2>3, OperationsLength
  <2> HIDE DEF j
  <2>5. j \in T
    BY <2>1, <2>4 DEF HasLength, op
  <2> QED
    BY <2>5 DEF j
<1>6. 0 .. n \subseteq T
  <2> HIDE DEF T
  <2>1. 0 \in Nat /\ 0 <= n /\ \A i \in 0 .. n - 1 : i \in T => i + 1 \in T
    BY <1>1, <1>5
  <2> QED
    BY <1>1, <1>4, <2>1, UpTo
<1>7. IsSequence(pair[n].serverOp)
  BY <1>1, <1>6
<1>8. ASSUME NEW i \in 1 .. n
      PROVE  HasLength(over.inflight[i].operation, Len(inflight[i].operation))
  <2>1. i > 0 /\ i \in T
    BY <1>1, <1>6
  <2>2. HasLength(pair[i].clientOp, Len(inflight[i].operation))
    BY <2>1
  <2>3. over.inflight[i].operation = pair[i].clientOp
    BY <1>1, <1>2
  <2> QED
    BY <2>2, <2>3
<1> QED
  BY <1>2, <1>7, <1>8 DEF over, n

\* The session takes in an operation of another.
LEMMA ReckonsOnceTaken ==
  ASSUME NEW s, NEW hist, NEW c, IsConcurrencyControl(c), NEW made, NEW q,
         Reckons(s, hist, c, made, q), NEW event, IsSequence(event.operation),
         event.version \in Nat, DOMAIN event = {"clientId", "version", "operation"},
         hist[c.contextVersion + 1].sessionId # s
  PROVE  LET d == TakeNextIncomingOperation(ProcessRemoteOperation(c, event))
         IN  Reckons(s, hist, d, made, q)
<1> DEFINE over == TransformInflightOperations(c.inflightOperations, event)
           passed == TransformOperations(over.operation, c.pendingCompoundOperation)
           d == TakeNextIncomingOperation(ProcessRemoteOperation(c, event))
           f == c.inflightOperations
           a == Len(f)
           l == c.lastSequenceNumber
           v == c.contextVersion
           k == l - a
           p == c.pendingCompoundOperation
<1>1. PICK total : Ledger(s, hist, c, made, total) /\ SentAs(q, total, l)
  BY DEF Reckons
<1>2. /\ IsSequence(f) /\ a \in Nat /\ l \in Nat /\ v \in Nat /\ a <= l /\ DOMAIN f = 1 .. a
      /\ \A i \in 1 .. a : IsClientOperationEvent(f[i])
  BY <1>1, SequenceIsFunction DEF IsConcurrencyControl, Ledger, Accounts
<1>3. /\ Totals(total, l) /\ IsSequence(p) /\ made = total[l] + Len(p)
      /\ \A i \in 1 .. a : f[i].seqNo = k + i /\ IsOf(total, l, k + i, f[i].operation)
  BY <1>1 DEF Ledger, Accounts, Acked
<1>4. /\ c.unappliedOperations = <<>> /\ (c.committed <=> NothingOutstanding(c))
      /\ c.compoundOpInProgress \/ p = <<>>
  BY DEF Reckons, Tells, Settled
<1>5. /\ IsSequence(over.operation)
      /\ \A i \in 1 .. a : HasLength(over.inflight[i].operation, Len(f[i].operation))
  <2>1. \A i \in 1 .. a : "operation" \in DOMAIN f[i] /\ IsSequence(f[i].operation)
    BY <1>2, <1>3 DEF IsClientOperationEvent, IsOf, HasLength
  <2> HIDE DEF over
  <2> QED
    BY <1>2, <2>1, InflightLength DEF over
<1>6. /\ IsSequence(over.inflight) /\ Len(over.inflight) = a
      /\ \A i \in 1 .. a : over.inflight[i].seqNo = f[i].seqNo
  <2>1. \A i \in DOMAIN f : IsClientOperationEvent(f[i])
    BY <1>2
  <2>2. IsSequence(f)
    BY <1>2
  <2> HIDE DEF f, over
  <2>3. /\ IsSequence(over.inflight) /\ Len(over.inflight) = Len(f)
        /\ DOMAIN over.inflight = DOMAIN f
        /\ \A i \in DOMAIN over.inflight : over.inflight[i].seqNo = f[i].seqNo
    BY <2>1, <2>2, TransformedInPlace DEF over, f
  <2> QED
    BY <1>2, <2>3
<1>7. HasLength(passed.clientOp, Len(p))
  <2>1. Len(over.operation) \in Nat /\ HasLength(over.operation, Len(over.operation))
    BY <1>5, SequenceIsFunction DEF HasLength
  <2>2. Len(p) \in Nat /\ HasLength(p, Len(p))
    BY <1>3, SequenceIsFunction DEF HasLength
  <2> HIDE DEF over, p
  <2> QED
    BY <2>1, <2>2, OperationsLength DEF p
<1>8. /\ d.lastSequenceNumber = l /\ d.contextVersion = v + 1
      /\ d.inflightOperations = over.inflight /\ d.pendingCompoundOperation = passed.clientOp
      /\ d.unappliedOperations = <<>> /\ d.compoundOpInProgress = c.compoundOpInProgress
      /\ d.committed = c.committed
  <2> DEFINE one == [event EXCEPT !.operation = passed.serverOp]
  <2>1. Tail(Append(<<>>, one)) = <<>>
    OBVIOUS
  <2> HIDE DEF one, over
  <2> QED
    BY <1>4, <2>1 DEF TakeNextIncomingOperation, ProcessRemoteOperation, AfterPassing,
                      IsConcurrencyControl, over, one
<1> HIDE DEF over, passed, d, f, a, l, v, k, p
<1>9. IsSequence(d.inflightOperations) /\ IsSequence(d.pendingCompoundOperation)
  BY <1>6, <1>7, <1>8 DEF HasLength
<1>10. NothingOutstanding(d) <=> NothingOutstanding(c)
  <2>1. ASSUME NEW w, IsSequence(w) PROVE w = <<>> <=> Len(w) = 0
    BY <2>1, EmptySeq DEF IsSequence
  <2>2. Len(d.inflightOperations) = Len(f) /\ Len(d.pendingCompoundOperation) = Len(p)
    BY <1>6, <1>7, <1>8 DEF HasLength, a
  <2> QED
    BY <1>2, <1>3, <1>9, <2>1, <2>2 DEF NothingOutstanding, f, p
<1>11. Tells(d)
  <2>1. p = <<>> => d.pendingCompoundOperation = <<>>
    <3>1. ASSUME NEW w, IsSequence(w) PROVE w = <<>> <=> Len(w) = 0
      BY <3>1, EmptySeq DEF IsSequence
    <3> QED
      BY <1>3, <1>7, <1>8, <1>9, <3>1 DEF HasLength
  <2> QED
    BY <1>4, <1>8, <1>10, <2>1 DEF Tells, Settled
<1>12. Acked(d) = k
  BY <1>6, <1>8 DEF Acked, k
<1>13. Accounts(d, made, total)
  <2>1. ASSUME NEW i \in 1 .. a
        PROVE  /\ d.inflightOperations[i].seqNo = k + i
               /\ IsOf(total, l, k + i, d.inflightOperations[i].operation)
    BY <1>3, <1>5, <1>6, <1>8 DEF IsOf, HasLength
  <2>2. Len(d.pendingCompoundOperation) = Len(p) /\ Len(d.inflightOperations) = a
    BY <1>6, <1>7, <1>8 DEF HasLength
  <2> QED
    BY <1>2, <1>3, <1>8, <1>9, <1>12, <2>1, <2>2 DEF Accounts
<1>14. EditsLogged(s, hist, v + 1) = total[k]
  <2>1. EditsLogged(s, hist, v) = total[k]
    BY <1>1 DEF Ledger, Acked, v, k, l, a, f
  <2>2. total[k] \in Nat
    <3>1. k \in 0 .. l
      BY <1>2 DEF k
    <3> QED
      BY <1>3, <3>1 DEF Totals
  <2>3. EditsLogged(s, hist, v + 1) = EditsLogged(s, hist, v) + 0
    BY <1>2, EditsLoggedNext, ZenonT(30) DEF OwnEdits, v
  <2> QED
    BY <2>1, <2>2, <2>3
<1>15. Ledger(s, hist, d, made, total)
  BY <1>1, <1>8, <1>12, <1>13, <1>14 DEF Ledger, l
<1> QED
  BY <1>1, <1>8, <1>11, <1>15 DEF Reckons, d, l
----------------------------------------------------------------------------
(* The inductive invariant                                                 *)

\* Submissions, and messages, with their operations.
Submitted(q) ==
  \A i \in 1 .. Len(q) : q[i].contextVersion \in Nat /\ IsSequence(q[i].operation)

Told(m) == \A i \in 1 .. Len(m) : ~IsAck(m[i]) => IsSequence(m[i].operation)

\* The server's bridge, with versions of the history in order.
Bridged(b, n) ==
  /\ AreEvents(b)
  /\ \A i \in 1 .. Len(b) : b[i].version \in Nat /\ b[i].version < n
  /\ \A i, j \in 1 .. Len(b) : i < j => b[i].version < b[j].version

Carries(c, q, m, b, n) ==
  c.contextVersion <= n /\ Submitted(q) /\ Told(m) /\ Bridged(b, n)

\* A session whose model has closed reckons no more, but what it said last is still true.
Concludes(s, hist, c, made) == c.committed <=> EditsLogged(s, hist, c.contextVersion) = made

Booked(s) ==
  /\ Carries(cc[s], toServer[s], toClient[s], bridge[s], Len(log))
  /\ IF error[s] THEN Concludes(s, log, cc[s], edits[s])
     ELSE Reckons(s, log, cc[s], edits[s], toServer[s])

BInv == RInv /\ \A s \in Session : Booked(s)

----------------------------------------------------------------------------
(* The server                                                              *)

\* The history before a version is what it was.
LEMMA EditsLoggedBefore ==
  ASSUME NEW s, NEW hist, IsSequence(hist), NEW e, NEW v \in Nat, v <= Len(hist)
  PROVE  EditsLogged(s, Append(hist, e), v) = EditsLogged(s, hist, v)
<1> DEFINE more == Append(hist, e)
<1>1. Len(hist) \in Nat /\ \A i \in 1 .. Len(hist) : more[i] = hist[i]
  BY AppendToSequence, SequenceIsFunction
<1> HIDE DEF more
<1>2. \A i \in 1 .. v : more[i] = hist[i]
  BY <1>1
<1> QED
  BY <1>2, EditsLoggedKept DEF more

\* An operation more in the history is one the session has counted, or another's.
LEMMA LedgerOnceReceived ==
  ASSUME NEW s, NEW hist, IsSequence(hist), NEW c, c.contextVersion \in Nat,
         c.contextVersion <= Len(hist), NEW made, NEW total, Ledger(s, hist, c, made, total),
         NEW e, e.sessionId = s => IsOf(total, c.lastSequenceNumber, e.seqNo, e.operation)
  PROVE  Ledger(s, Append(hist, e), c, made, total)
<1> DEFINE more == Append(hist, e)
           n == Len(hist)
<1>1. /\ n \in Nat /\ Len(more) = n + 1 /\ more[n + 1] = e
      /\ \A i \in 1 .. n : more[i] = hist[i]
  BY AppendToSequence, SequenceIsFunction
<1>2. EditsLogged(s, more, c.contextVersion) = total[Acked(c)]
  BY EditsLoggedBefore DEF Ledger
<1> HIDE DEF more
<1>3. \A i \in 1 .. n + 1 : i \in 1 .. n \/ i = n + 1
  BY <1>1
<1>4. LoggedAs(s, more, total, c.lastSequenceNumber)
  BY <1>1, <1>3 DEF Ledger, LoggedAs
<1> QED
  BY <1>2, <1>4 DEF Ledger, more

\* What a submission passes is left as it was but for its operations, and so is it.
LEMMA PassingTheBridge ==
  ASSUME NEW b, NEW n \in Nat, Bridged(b, n), NEW x \in Nat, NEW operation,
         IsSequence(operation)
  PROVE  LET passed == TransformOutgoing(NotSeenAt(b, x), operation)
         IN  HasLength(passed.operation, Len(operation)) /\ Bridged(passed.serverOps, n)
<1> DEFINE w == NotSeenAt(b, x)
           passed == TransformOutgoing(w, operation)
<1>1. IsSequence(b) /\ \A i \in 1 .. Len(b) : b[i].version \in Nat
  BY DEF Bridged, AreEvents
<1>2. /\ IsSequence(w)
      /\ \A i \in 1 .. Len(w) : \E j \in 1 .. Len(b) : w[i] = b[j]
      /\ \A i, j \in 1 .. Len(w) : i < j => w[i].version < w[j].version
  <2>1. \A i, j \in 1 .. Len(b) : i < j => b[i].version < b[j].version
    BY DEF Bridged
  <2> QED
    BY <1>1, <2>1, NotSeenAtKeeps
<1> HIDE DEF w
<1>3. AreEvents(w) /\ \A i \in 1 .. Len(w) : w[i].version \in Nat /\ w[i].version < n
  BY <1>2 DEF Bridged, AreEvents
<1>4. Len(operation) \in Nat /\ HasLength(operation, Len(operation))
  BY SequenceIsFunction DEF HasLength
<1>5. /\ HasLength(passed.operation, Len(operation))
      /\ AreEvents(passed.serverOps) /\ Len(passed.serverOps) = Len(w)
      /\ \A i \in 1 .. Len(w) : passed.serverOps[i].version = w[i].version
  BY <1>3, <1>4, OutgoingLength
<1> HIDE DEF passed
<1>6. Bridged(passed.serverOps, n)
  BY <1>2, <1>3, <1>5 DEF Bridged
<1> QED
  BY <1>5, <1>6 DEF passed, w

\* One more version.
LEMMA BridgedFurther ==
  ASSUME NEW b, NEW n \in Nat, Bridged(b, n)
  PROVE  /\ Bridged(b, n + 1)
         /\ \A held : /\ DOMAIN held = {"clientId", "version", "operation"}
                      /\ held.version = n /\ IsSequence(held.operation)
                      => Bridged(Append(b, held), n + 1)
<1> DEFINE k == Len(b)
<1>1. /\ k \in Nat /\ IsSequence(b)
      /\ \A i \in 1 .. k : b[i].version \in Nat /\ b[i].version < n
      /\ \A i \in 1 .. k : /\ DOMAIN b[i] = {"clientId", "version", "operation"}
                           /\ IsSequence(b[i].operation)
      /\ \A i, j \in 1 .. k : i < j => b[i].version < b[j].version
  BY SequenceIsFunction DEF Bridged, AreEvents
<1>2. Bridged(b, n + 1)
  BY <1>1 DEF Bridged, AreEvents
<1>3. ASSUME NEW held, DOMAIN held = {"clientId", "version", "operation"},
             held.version = n, IsSequence(held.operation)
      PROVE  Bridged(Append(b, held), n + 1)
  <2> DEFINE r == Append(b, held)
  <2>1. /\ IsSequence(r) /\ Len(r) = k + 1 /\ r[k + 1] = held
        /\ \A i \in 1 .. k : r[i] = b[i]
    BY <1>1, AppendToSequence
  <2> HIDE DEF r, k
  <2>2. \A i \in 1 .. k + 1 : i \in 1 .. k \/ i = k + 1
    BY <1>1
  <2>3. \A i \in 1 .. k + 1 : r[i].version \in Nat /\ r[i].version < n + 1
    BY <1>1, <1>3, <2>1, <2>2
  <2>4. \A i \in 1 .. k + 1 : /\ DOMAIN r[i] = {"clientId", "version", "operation"}
                              /\ IsSequence(r[i].operation)
    BY <1>1, <1>3, <2>1, <2>2
  <2>5. ASSUME NEW i \in 1 .. k + 1, NEW j \in 1 .. k + 1, i < j
        PROVE  r[i].version < r[j].version
    <3>1. i \in 1 .. k
      BY <1>1, <2>5
    <3> QED
      BY <1>1, <1>3, <2>1, <2>2, <2>5, <3>1
  <2> QED
    BY <2>1, <2>3, <2>4, <2>5 DEF Bridged, AreEvents, r
<1> QED
  BY <1>2, <1>3

\* The submission of a session is logged, with as many operations as it had.
LEMMA ServerReceivesBooks ==
  ASSUME BInv, NEW s \in Session, ServerReceives(s)
  PROVE  \A t \in Session : Booked(t)'
<1> DEFINE submission == Head(toServer[s])
           n == Len(log)
           passed == TransformOutgoing(NotSeenAt(bridge[s], submission.contextVersion),
                                       submission.operation)
           e == [sessionId |-> s, seqNo |-> submission.sequenceNumber,
                 operation |-> passed.operation]
<1>1. /\ toServer[s] # <<>> /\ toServer' = [toServer EXCEPT ![s] = Tail(toServer[s])]
      /\ log' = Append(log, e)
      /\ toClient' = [c \in Session |->
           Append(toClient[c],
                  IF c = s THEN Acknowledgement(n, submission.sequenceNumber)
                  ELSE RemoteOperation(s, n, passed.operation))]
      /\ bridge' = [c \in Session |->
           IF c = s THEN passed.serverOps
           ELSE Append(bridge[c], ServerOperationEvent(s, n, passed.operation))]
      /\ cc' = cc /\ error' = error /\ edits' = edits
  BY DEF ServerReceives, TakeSubmission
<1>2. /\ toServer'[s] = Tail(toServer[s])
      /\ \A t \in Session \ {s} : toServer'[t] = toServer[t]
      /\ IsSequence(log) /\ IsSequence(toServer[s])
      /\ \A t \in Session : IsConcurrencyControl(cc[t]) /\ IsSequence(toClient[t])
  BY <1>1 DEF BInv, RInv, IInv, TypeOK
<1>3. n \in Nat
  BY <1>2, SequenceIsFunction
<1>4. Len(toServer[s]) >= 1 /\ submission = toServer[s][1] /\ 1 \in 1 .. Len(toServer[s])
  <2>1. Len(toServer[s]) \in Nat
    BY <1>2, SequenceIsFunction
  <2> QED
    BY <1>1, <1>2, <2>1, TailOfSequence
<1>5. submission.contextVersion \in Nat /\ IsSequence(submission.operation)
  BY <1>4 DEF BInv, Booked, Carries, Submitted
<1>6. /\ HasLength(passed.operation, Len(submission.operation))
      /\ Bridged(passed.serverOps, n)
  <2>1. Bridged(bridge[s], n)
    BY DEF BInv, Booked, Carries
  <2> HIDE DEF submission, n
  <2> QED
    BY <1>3, <1>5, <2>1, PassingTheBridge
<1>7. /\ e.sessionId = s /\ e.seqNo = submission.sequenceNumber
      /\ e.operation = passed.operation
  OBVIOUS
<1>8. Len(log') = n + 1
  BY <1>1, <1>2, AppendToSequence
<1> HIDE DEF e, passed, submission
<1>9. IsSequence(passed.operation)
  BY <1>6 DEF HasLength
<1>10. ASSUME NEW t \in Session
       PROVE  /\ cc[t].contextVersion \in Nat /\ cc[t].contextVersion <= n
              /\ cc[t].contextVersion <= n + 1
              /\ Submitted(toServer[t]) /\ Told(toClient[t]) /\ Bridged(bridge[t], n)
  BY <1>2, <1>3 DEF BInv, Booked, Carries, IsConcurrencyControl
<1>11. ASSUME NEW t \in Session PROVE Told(toClient'[t])
  <2> DEFINE m == toClient[t]
             x == IF t = s THEN Acknowledgement(n, submission.sequenceNumber)
                  ELSE RemoteOperation(s, n, passed.operation)
  <2>1. ~IsAck(x) => IsSequence(x.operation)
    BY <1>9 DEF IsAck, Acknowledgement, RemoteOperation
  <2>2. toClient'[t] = Append(m, x)
    BY <1>1
  <2> HIDE DEF x
  <2>3. /\ Len(Append(m, x)) = Len(m) + 1 /\ Append(m, x)[Len(m) + 1] = x /\ Len(m) \in Nat
        /\ \A i \in 1 .. Len(m) : Append(m, x)[i] = m[i]
    BY <1>2, AppendToSequence, SequenceIsFunction
  <2>4. \A i \in 1 .. Len(m) + 1 : i \in 1 .. Len(m) \/ i = Len(m) + 1
    BY <2>3
  <2> QED
    BY <1>10, <2>1, <2>2, <2>3, <2>4 DEF Told
<1>12. ASSUME NEW t \in Session PROVE Bridged(bridge'[t], n + 1)
  <2>1. CASE t = s
    <3>1. bridge'[t] = passed.serverOps
      BY <1>1, <2>1
    <3> QED
      BY <1>3, <1>6, <3>1, BridgedFurther
  <2>2. CASE t # s
    <3> DEFINE held == ServerOperationEvent(s, n, passed.operation)
    <3>1. bridge'[t] = Append(bridge[t], held)
      BY <1>1, <2>2
    <3>2. /\ DOMAIN held = {"clientId", "version", "operation"}
          /\ held.version = n /\ IsSequence(held.operation)
      BY <1>9 DEF ServerOperationEvent
    <3> HIDE DEF held
    <3> QED
      BY <1>3, <1>10, <3>1, <3>2, BridgedFurther
  <2> QED
    BY <2>1, <2>2
<1>13. Submitted(Tail(toServer[s]))
  <2>1. /\ Len(Tail(toServer[s])) = Len(toServer[s]) - 1 /\ Len(toServer[s]) \in Nat
        /\ \A i \in 1 .. Len(toServer[s]) - 1 : Tail(toServer[s])[i] = toServer[s][i + 1]
    BY <1>1, <1>2, TailOfSequence, SequenceIsFunction
  <2>2. \A i \in 1 .. Len(toServer[s]) - 1 : i + 1 \in 1 .. Len(toServer[s])
    BY <2>1
  <2> QED
    BY <1>10, <2>1, <2>2 DEF Submitted
<1>14. ASSUME NEW t \in Session
       PROVE  Carries(cc[t], toServer'[t], toClient'[t], bridge'[t], n + 1)
  BY <1>2, <1>10, <1>11, <1>12, <1>13 DEF Carries
<1>15. ASSUME NEW t \in Session, error[t]
       PROVE  Concludes(t, Append(log, e), cc[t], edits[t])
  BY <1>2, <1>10, <1>15, EditsLoggedBefore DEF BInv, Booked, Concludes
<1>16. ASSUME NEW t \in Session, ~error[t]
       PROVE  Reckons(t, Append(log, e), cc[t], edits[t], toServer'[t])
  <2>1. PICK total : /\ Ledger(t, log, cc[t], edits[t], total)
                     /\ SentAs(toServer[t], total, cc[t].lastSequenceNumber)
    BY <1>16 DEF BInv, Booked, Reckons
  <2>2. CASE t # s
    <3>1. Ledger(t, Append(log, e), cc[t], edits[t], total)
      BY <1>2, <1>7, <1>10, <2>1, <2>2, LedgerOnceReceived
    <3> QED
      BY <1>2, <1>16, <2>1, <2>2, <3>1 DEF BInv, Booked, Reckons
  <2>3. CASE t = s
    <3>1. IsOf(total, cc[s].lastSequenceNumber, submission.sequenceNumber, submission.operation)
      BY <1>4, <2>1, <2>3 DEF SentAs
    <3>2. IsOf(total, cc[s].lastSequenceNumber, e.seqNo, e.operation)
      BY <1>6, <1>7, <3>1 DEF IsOf, HasLength
    <3>3. Ledger(t, Append(log, e), cc[t], edits[t], total)
      BY <1>2, <1>10, <2>1, <2>3, <3>2, LedgerOnceReceived
    <3>4. SentAs(Tail(toServer[s]), total, cc[s].lastSequenceNumber)
      <4>1. /\ Len(Tail(toServer[s])) = Len(toServer[s]) - 1 /\ Len(toServer[s]) \in Nat
            /\ \A i \in 1 .. Len(toServer[s]) - 1 : Tail(toServer[s])[i] = toServer[s][i + 1]
        BY <1>1, <1>2, TailOfSequence, SequenceIsFunction
      <4>2. \A i \in 1 .. Len(toServer[s]) - 1 : i + 1 \in 1 .. Len(toServer[s])
        BY <4>1
      <4> QED
        BY <2>1, <2>3, <4>1, <4>2 DEF SentAs
    <3> QED
      BY <1>2, <1>16, <2>3, <3>3, <3>4 DEF BInv, Booked, Reckons
  <2> QED
    BY <2>2, <2>3
<1> QED
  BY <1>1, <1>8, <1>14, <1>15, <1>16 DEF Booked

----------------------------------------------------------------------------
(* The sessions                                                            *)

\* What the session of a step leaves to be shown.
LEMMA BookedAfterSessionStep ==
  ASSUME BInv, NEW s \in Session, NEW d, NEW q, NEW m, NEW made,
         cc' = [cc EXCEPT ![s] = d], toServer' = [toServer EXCEPT ![s] = q],
         toClient' = [toClient EXCEPT ![s] = m], edits' = [edits EXCEPT ![s] = made],
         UNCHANGED <<log, bridge>>, \A t \in Session \ {s} : error'[t] = error[t],
         d.contextVersion <= Len(log), Submitted(q), Told(m),
         IF error'[s] THEN Concludes(s, log, d, made) ELSE Reckons(s, log, d, made, q)
  PROVE  \A t \in Session : Booked(t)'
<1>1. /\ cc = [t \in Session |-> cc[t]] /\ toServer = [t \in Session |-> toServer[t]]
      /\ toClient = [t \in Session |-> toClient[t]] /\ edits = [t \in Session |-> edits[t]]
  BY DEF BInv, RInv, IInv, TypeOK
<1>2. /\ cc'[s] = d /\ toServer'[s] = q /\ toClient'[s] = m /\ edits'[s] = made
      /\ \A t \in Session \ {s} : /\ cc'[t] = cc[t] /\ toServer'[t] = toServer[t]
                                  /\ toClient'[t] = toClient[t] /\ edits'[t] = edits[t]
  BY <1>1
<1>3. Booked(s)'
  <2>1. Bridged(bridge[s], Len(log))
    BY DEF BInv, Booked, Carries
  <2>2. Carries(d, q, m, bridge[s], Len(log))
    BY <2>1 DEF Carries
  <2> QED
    BY <1>2, <2>2 DEF Booked
<1>4. ASSUME NEW t \in Session, t # s PROVE Booked(t)'
  <2>1. Booked(t)
    BY DEF BInv
  <2> QED
    BY <1>2, <1>4, <2>1 DEF Booked
<1> QED
  BY <1>3, <1>4

\* What is known of a session whose model is open.
LEMMA OpenIsBooked ==
  ASSUME BInv, NEW s \in Session
  PROVE  /\ IInv /\ IsConcurrencyControl(cc[s])
         /\ IsSequence(toServer[s]) /\ IsSequence(toClient[s]) /\ IsSequence(log)
         /\ Len(log) \in Nat /\ edits[s] \in Nat /\ error \in [Session -> BOOLEAN]
         /\ cc[s].contextVersion \in Nat /\ cc[s].contextVersion <= Len(log)
         /\ Submitted(toServer[s]) /\ Told(toClient[s])
         /\ toClient = [toClient EXCEPT ![s] = toClient[s]]
         /\ toServer = [toServer EXCEPT ![s] = toServer[s]]
         /\ cc = [cc EXCEPT ![s] = cc[s]] /\ edits = [edits EXCEPT ![s] = edits[s]]
         /\ ~error[s] => Reckons(s, log, cc[s], edits[s], toServer[s])
  BY UpdateSame, SequenceIsFunction
     DEF BInv, RInv, IInv, TypeOK, Booked, Carries, IsConcurrencyControl

\* Submissions, with the versions they were issued at.
Versioned(q) == \A i \in 1 .. Len(q) : q[i].contextVersion \in Nat

\* So is the one that is sent.
LEMMA SendingKeepsVersioned ==
  ASSUME NEW c, IsConcurrencyControl(c), NEW d, Issues(c, d),
         NEW q, IsSequence(q), Versioned(q)
  PROVE  IsSequence(AfterSending(q, c, d)) /\ Versioned(AfterSending(q, c, d))
<1> DEFINE r == AfterSending(q, c, d)
           g == d.inflightOperations
           f == c.inflightOperations
<1>1. CASE d.lastSequenceNumber = c.lastSequenceNumber
  BY <1>1 DEF AfterSending
<1>2. CASE d.lastSequenceNumber # c.lastSequenceNumber
  <2>1. PICK event : IsClientOperationEvent(event) /\ g = Append(f, event)
    BY <1>2 DEF Issues
  <2>2. g[Len(g)] = event
    BY <2>1, AppendToSequence DEF IsConcurrencyControl
  <2> DEFINE x == OperationSubmission(event)
  <2>3. r = Append(q, x)
    BY <1>2, <2>2 DEF AfterSending
  <2>4. x.contextVersion \in Nat
    BY <2>1 DEF OperationSubmission, IsClientOperationEvent
  <2> HIDE DEF x, r
  <2>5. /\ IsSequence(r) /\ Len(r) = Len(q) + 1 /\ r[Len(q) + 1] = x /\ Len(q) \in Nat
        /\ \A i \in 1 .. Len(q) : r[i] = q[i]
    BY <2>3, AppendToSequence, SequenceIsFunction
  <2>6. \A i \in 1 .. Len(q) + 1 : i \in 1 .. Len(q) \/ i = Len(q) + 1
    BY <2>5
  <2> QED
    BY <2>4, <2>5, <2>6 DEF Versioned, r
<1> QED
  BY <1>1, <1>2

\* A session whose model stays open.
LEMMA BookedWhenOpen ==
  ASSUME BInv, NEW s \in Session, ~error[s], NEW d, NEW q, NEW m, NEW made,
         cc' = [cc EXCEPT ![s] = d], toServer' = [toServer EXCEPT ![s] = q],
         toClient' = [toClient EXCEPT ![s] = m], edits' = [edits EXCEPT ![s] = made],
         UNCHANGED <<log, bridge, error>>,
         d.contextVersion <= Len(log), Versioned(q), Told(m), Reckons(s, log, d, made, q)
  PROVE  \A t \in Session : Booked(t)'
<1>1. Submitted(q)
  BY DEF Submitted, Versioned, Reckons, SentAs, IsOf, HasLength
<1> QED
  BY <1>1, BookedAfterSessionStep

\* It issues one edit,
LEMMA LocalOperationBooks ==
  ASSUME BInv, NEW s \in Session, LocalOperation(s)
  PROVE  \A t \in Session : Booked(t)'
<1>1. PICK op : /\ cc' = [cc EXCEPT ![s] = ProcessOutgoingOperation(cc[s], s, op)]
                /\ toServer' = [toServer EXCEPT
                     ![s] = AfterSending(toServer[s], cc[s],
                                         ProcessOutgoingOperation(cc[s], s, op))]
  BY DEF LocalOperation, BecomesAndSends
<1> DEFINE d == ProcessOutgoingOperation(cc[s], s, op)
           r == AfterSending(toServer[s], cc[s], d)
<1>2. ~error[s] /\ edits' = [edits EXCEPT ![s] = edits[s] + 1]
      /\ UNCHANGED <<log, bridge, error, toClient>>
  BY DEF LocalOperation
<1>3. Issues(cc[s], d)
  BY OpenIsBooked, ProcessOutgoingIssues
<1>4. Reckons(s, log, d, edits[s] + 1, r)
  BY <1>2, OpenIsBooked, ReckonsOnceIssued
<1>5. cc' = [cc EXCEPT ![s] = d] /\ toServer' = [toServer EXCEPT ![s] = r]
  BY <1>1
<1> HIDE DEF d
<1>6. Versioned(r) /\ d.contextVersion <= Len(log)
  BY <1>3, OpenIsBooked, SendingKeepsVersioned DEF Issues, Submitted, Versioned
<1> HIDE DEF r
<1>7. toClient' = [toClient EXCEPT ![s] = toClient[s]] /\ Told(toClient[s])
  BY <1>2, OpenIsBooked
<1> QED
  BY <1>2, <1>4, <1>5, <1>6, <1>7, BookedWhenOpen

\* or two, the second within the event of the first and sent first,
LEMMA EditedWhenHeardBooks ==
  ASSUME BInv, NEW s \in Session, LocalOperationEditedWhenHeard(s)
  PROVE  \A t \in Session : Booked(t)'
<1>1. PICK op, nested :
        LET first == ProcessOutgoingOperation(cc[s], s, nested)
            both  == ProcessOutgoingOperation(first, s, op)
        IN  /\ cc' = [cc EXCEPT ![s] = both]
            /\ toServer' = [toServer EXCEPT
                  ![s] = AfterSending(AfterSending(toServer[s], cc[s], first), first, both)]
  BY DEF LocalOperationEditedWhenHeard, SendsFirstThenSecond
<1> DEFINE first == ProcessOutgoingOperation(cc[s], s, nested)
           both  == ProcessOutgoingOperation(first, s, op)
           sent  == AfterSending(toServer[s], cc[s], first)
           r     == AfterSending(sent, first, both)
<1>2. ~error[s] /\ edits' = [edits EXCEPT ![s] = edits[s] + 2]
      /\ UNCHANGED <<log, bridge, error, toClient>>
  BY DEF LocalOperationEditedWhenHeard
<1>3. Issues(cc[s], first)
  BY OpenIsBooked, ProcessOutgoingIssues
<1>4. Reckons(s, log, first, edits[s] + 1, sent)
  BY <1>2, OpenIsBooked, ReckonsOnceIssued
<1>5. cc' = [cc EXCEPT ![s] = both] /\ toServer' = [toServer EXCEPT ![s] = r]
  BY <1>1
<1> HIDE DEF first
<1>6. IsSequence(sent) /\ Versioned(sent) /\ first.contextVersion <= Len(log)
      /\ IsConcurrencyControl(first)
  BY <1>3, OpenIsBooked, SendingKeepsVersioned DEF Issues, Submitted, Versioned
<1>7. Issues(first, both)
  BY <1>6, ProcessOutgoingIssues
<1> HIDE DEF sent
<1>8. Reckons(s, log, both, edits[s] + 1 + 1, r)
  BY <1>4, <1>6, ReckonsOnceIssued
<1> HIDE DEF both
<1>9. Versioned(r) /\ both.contextVersion <= Len(log)
  BY <1>6, <1>7, SendingKeepsVersioned DEF Issues
<1> HIDE DEF r
<1>10. toClient' = [toClient EXCEPT ![s] = toClient[s]] /\ Told(toClient[s])
  BY <1>2, OpenIsBooked
<1>11. edits[s] + 1 + 1 = edits[s] + 2
  BY OpenIsBooked
<1> QED
  BY <1>2, <1>5, <1>8, <1>9, <1>10, <1>11, BookedWhenOpen

\* or numbered second and sent first.
LEMMA EditedWhenModifiedBooks ==
  ASSUME BInv, NEW s \in Session, LocalOperationEditedWhenModified(s)
  PROVE  \A t \in Session : Booked(t)'
<1>1. PICK op, nested :
        LET first == ProcessOutgoingOperation(cc[s], s, op)
            both  == ProcessOutgoingOperation(first, s, nested)
        IN  /\ cc' = [cc EXCEPT ![s] = both]
            /\ toServer' = [toServer EXCEPT
                  ![s] = AfterSending(AfterSending(toServer[s], first, both), cc[s], first)]
  BY DEF LocalOperationEditedWhenModified, SendsSecondThenFirst
<1> DEFINE first == ProcessOutgoingOperation(cc[s], s, op)
           both  == ProcessOutgoingOperation(first, s, nested)
           sent  == AfterSending(toServer[s], first, both)
           r     == AfterSending(sent, cc[s], first)
<1>2. ~error[s] /\ edits' = [edits EXCEPT ![s] = edits[s] + 2]
      /\ UNCHANGED <<log, bridge, error, toClient>>
  BY DEF LocalOperationEditedWhenModified
<1>3. Issues(cc[s], first) /\ IsConcurrencyControl(first)
  BY OpenIsBooked, ProcessOutgoingIssues, SMTT(30) DEF Issues
<1>4. Reckons(s, log, both, edits[s] + 1 + 1, r)
  BY <1>2, OpenIsBooked, ReckonsOnceOvertaken
<1>5. cc' = [cc EXCEPT ![s] = both] /\ toServer' = [toServer EXCEPT ![s] = r]
  BY <1>1
<1> HIDE DEF first
<1>6. Issues(first, both)
  BY <1>3, ProcessOutgoingIssues
<1> HIDE DEF both
<1>7. IsSequence(sent) /\ Versioned(sent) /\ both.contextVersion <= Len(log)
  BY <1>3, <1>6, OpenIsBooked, SendingKeepsVersioned DEF Issues, Submitted, Versioned
<1> HIDE DEF sent
<1>8. Versioned(r)
  BY <1>3, <1>7, OpenIsBooked, SendingKeepsVersioned
<1> HIDE DEF r
<1>9. toClient' = [toClient EXCEPT ![s] = toClient[s]] /\ Told(toClient[s])
  BY <1>2, OpenIsBooked
<1>10. edits[s] + 1 + 1 = edits[s] + 2
  BY OpenIsBooked
<1> QED
  BY <1>2, <1>4, <1>5, <1>7, <1>8, <1>9, <1>10, BookedWhenOpen

\* A batch that ends goes in flight as it is,
LEMMA CompleteBatchBooks ==
  ASSUME BInv, NEW s \in Session, CompleteBatch(s)
  PROVE  \A t \in Session : Booked(t)'
<1> DEFINE d == CompleteBatchOperation(cc[s], s)
           r == AfterSending(toServer[s], cc[s], d)
<1>1. cc' = [cc EXCEPT ![s] = d] /\ toServer' = [toServer EXCEPT ![s] = r]
  BY DEF CompleteBatch, BecomesAndSends
<1>2. ~error[s] /\ UNCHANGED <<log, bridge, error, toClient, edits>>
  BY DEF CompleteBatch
<1>3. Issues(cc[s], d)
  BY OpenIsBooked, CompleteBatchIssues
<1>4. Reckons(s, log, d, edits[s], r)
  BY <1>2, OpenIsBooked, ReckonsOnceCompleted
<1> HIDE DEF d
<1>5. Versioned(r) /\ d.contextVersion <= Len(log)
  BY <1>3, OpenIsBooked, SendingKeepsVersioned DEF Issues, Submitted, Versioned
<1> HIDE DEF r
<1>6. /\ toClient' = [toClient EXCEPT ![s] = toClient[s]] /\ Told(toClient[s])
      /\ edits' = [edits EXCEPT ![s] = edits[s]]
  BY <1>2, OpenIsBooked
<1> QED
  BY <1>1, <1>2, <1>4, <1>5, <1>6, BookedWhenOpen

\* and one that begins, or is given up, is empty.
LEMMA BatchFlagBooks ==
  ASSUME BInv, NEW s \in Session, StartBatch(s) \/ CancelBatch(s)
  PROVE  \A t \in Session : Booked(t)'
<1>1. PICK d : /\ cc' = [cc EXCEPT ![s] = d]
               /\ \/ ~cc[s].compoundOpInProgress /\ d = StartBatchOperation(cc[s])
                  \/ CanCancelBatch(cc[s]) /\ d = CancelBatchOperation(cc[s])
  BY DEF StartBatch, CancelBatch
<1>2. ~error[s] /\ UNCHANGED <<log, bridge, error, toClient, toServer, edits>>
  BY DEF StartBatch, CancelBatch
<1>3. Reckons(s, log, d, edits[s], toServer[s])
  BY <1>1, <1>2, OpenIsBooked, ReckonsOnceStarted
<1>4. d.contextVersion = cc[s].contextVersion
  BY <1>1, OpenIsBooked DEF StartBatchOperation, CancelBatchOperation, IsConcurrencyControl
<1>5. d.contextVersion <= Len(log) /\ Versioned(toServer[s]) /\ Told(toClient[s])
  BY <1>4, OpenIsBooked DEF Submitted, Versioned
<1>6. /\ toClient' = [toClient EXCEPT ![s] = toClient[s]]
      /\ toServer' = [toServer EXCEPT ![s] = toServer[s]]
      /\ edits' = [edits EXCEPT ![s] = edits[s]]
  BY <1>2, OpenIsBooked
<1> QED
  BY <1>1, <1>2, <1>3, <1>5, <1>6, BookedWhenOpen

\* The messages left when one is taken.
LEMMA ToldTheRest ==
  ASSUME NEW m, IsSequence(m), m # <<>>, Told(m)
  PROVE  Told(Tail(m)) /\ (~IsAck(Head(m)) => IsSequence(Head(m).operation))
<1>1. /\ Len(m) \in Nat /\ Len(m) >= 1 /\ Len(Tail(m)) = Len(m) - 1 /\ Head(m) = m[1]
      /\ \A i \in 1 .. Len(m) - 1 : Tail(m)[i] = m[i + 1]
  BY TailOfSequence, SequenceIsFunction
<1>2. 1 \in 1 .. Len(m) /\ \A i \in 1 .. Len(m) - 1 : i + 1 \in 1 .. Len(m)
  BY <1>1
<1> QED
  BY <1>1, <1>2 DEF Told

\* A message that is refused closes the model: what was said last remains so.
LEMMA RefusedBooks ==
  ASSUME BInv, NEW s \in Session, ~error[s], NEW d, cc' = [cc EXCEPT ![s] = d],
         d.contextVersion = cc[s].contextVersion, d.committed = cc[s].committed,
         NEW m, toClient' = [toClient EXCEPT ![s] = m], Told(m),
         UNCHANGED <<log, bridge>>, CloseWithError(s)
  PROVE  \A t \in Session : Booked(t)'
<1>1. /\ error' = [error EXCEPT ![s] = TRUE] /\ toServer' = toServer /\ edits' = edits
  BY DEF CloseWithError
<1>2. error'[s] /\ \A t \in Session \ {s} : error'[t] = error[t]
  BY <1>1, OpenIsBooked
<1>3. Concludes(s, log, cc[s], edits[s])
  BY OpenIsBooked, ReckoningTells DEF Concludes
<1>4. Concludes(s, log, d, edits[s])
  BY <1>3 DEF Concludes
<1>5. /\ toServer' = [toServer EXCEPT ![s] = toServer[s]]
      /\ edits' = [edits EXCEPT ![s] = edits[s]]
      /\ Submitted(toServer[s]) /\ d.contextVersion <= Len(log)
  BY <1>1, OpenIsBooked
<1> QED
  BY <1>2, <1>4, <1>5, BookedAfterSessionStep

\* The acknowledgement is of the operation in flight longest.
LEMMA HandleOperationAckBooks ==
  ASSUME BInv, NEW s \in Session, HandleOperationAck(s)
  PROVE  \A t \in Session : Booked(t)'
<1> DEFINE c == cc[s]
           m == toClient[s]
           ack == Head(m)
           d == ProcessAcknowledgement(c)
           e == RefuseAcknowledgement(c, ack.version)
<1>1. /\ ~error[s] /\ m # <<>> /\ IsAck(ack) /\ UNCHANGED <<log, bridge>>
      /\ toClient' = [toClient EXCEPT ![s] = Tail(m)]
  BY DEF HandleOperationAck, Incoming, TakeMessage, IsAck
<1>2. Told(Tail(m))
  BY <1>1, OpenIsBooked, ToldTheRest
<1>3. CASE AcknowledgementAccepted(c, ack.version, ack.sequenceNumber)
  <2>1. /\ cc' = [cc EXCEPT ![s] = d] /\ error' = error /\ edits' = edits
        /\ toServer' = toServer
    BY <1>3 DEF HandleOperationAck
  <2>2. /\ d.contextVersion = c.contextVersion + 1 /\ c.inflightOperations # <<>>
        /\ Head(c.inflightOperations).seqNo = ack.sequenceNumber
    BY <1>3, OpenIsBooked DEF ProcessAcknowledgement, IsConcurrencyControl, AcknowledgementAccepted
  <2>3. Follows(s, c, m)
    BY <1>1 DEF BInv, RInv, Tracked
  <2>4. c.contextVersion < Len(log) /\ TellsOf(s, ack, log[c.contextVersion + 1])
    <3> HIDE DEF d
    <3> QED
      BY <1>1, <2>2, <2>3, OpenIsBooked, NextMessageTells
  <2>5. Reckons(s, log, d, edits[s], toServer[s])
    BY <1>1, <2>2, <2>4, OpenIsBooked, ReckonsOnceAcknowledged DEF TellsOf
  <2> HIDE DEF d
  <2>6. d.contextVersion <= Len(log) /\ Versioned(toServer[s])
    BY <2>2, <2>4, OpenIsBooked DEF Submitted, Versioned
  <2>7. /\ toServer' = [toServer EXCEPT ![s] = toServer[s]]
        /\ edits' = [edits EXCEPT ![s] = edits[s]]
    BY <2>1, OpenIsBooked
  <2> QED
    BY <1>1, <1>2, <2>1, <2>5, <2>6, <2>7, BookedWhenOpen
<1>4. CASE ~AcknowledgementAccepted(c, ack.version, ack.sequenceNumber)
  <2>1. cc' = [cc EXCEPT ![s] = e] /\ CloseWithError(s)
    BY <1>4 DEF HandleOperationAck
  <2>2. e.contextVersion = c.contextVersion /\ e.committed = c.committed
    BY OpenIsBooked DEF RefuseAcknowledgement, IsConcurrencyControl
  <2> HIDE DEF e
  <2> QED
    BY <1>1, <1>2, <2>1, <2>2, RefusedBooks
<1> QED
  BY <1>3, <1>4

\* A remote operation, taken in, changes nothing of what is reckoned.
LEMMA TakenRemotelyReckons ==
  ASSUME BInv, NEW s \in Session, Incoming(s, "remoteOperation"),
         RemoteOperationAccepted(cc[s], Remote(s))
  PROVE  LET e == TakeNextIncomingOperation(ProcessRemoteOperation(cc[s], Remote(s)))
         IN  /\ IsConcurrencyControl(e) /\ e.contextVersion <= Len(log)
             /\ Reckons(s, log, e, edits[s], toServer[s])
<1> DEFINE event == Remote(s)
           e == TakeNextIncomingOperation(ProcessRemoteOperation(cc[s], event))
<1>1. ~error[s] /\ toClient[s] # <<>> /\ ~IsAck(Head(toClient[s]))
  BY DEF Incoming, TakeMessage, IsAck
<1>2. /\ IsConcurrencyControl(e) /\ e.contextVersion = cc[s].contextVersion + 1
      /\ cc[s].contextVersion < Len(log) /\ log[cc[s].contextVersion + 1].sessionId # s
  BY TakenRemotely DEF BInv
<1>3. IsSequence(Head(toClient[s]).operation)
  BY <1>1, OpenIsBooked, ToldTheRest
<1>4. /\ IsSequence(event.operation) /\ event.version = cc[s].contextVersion
      /\ DOMAIN event = {"clientId", "version", "operation"}
  BY <1>3 DEF Remote, ServerOperationEvent, RemoteOperationAccepted
<1> HIDE DEF event
<1>5. Reckons(s, log, e, edits[s], toServer[s])
  BY <1>1, <1>2, <1>4, OpenIsBooked, ReckonsOnceTaken
<1> HIDE DEF e
<1>6. e.contextVersion <= Len(log)
  BY <1>2, OpenIsBooked
<1> QED
  BY <1>2, <1>5, <1>6 DEF e, event

\* It is applied,
LEMMA HandleRemoteOperationBooks ==
  ASSUME BInv, NEW s \in Session, HandleRemoteOperation(s)
  PROVE  \A t \in Session : Booked(t)'
<1> DEFINE e == TakeNextIncomingOperation(ProcessRemoteOperation(cc[s], Remote(s)))
<1>1. /\ ~error[s] /\ Incoming(s, "remoteOperation") /\ UNCHANGED <<log, bridge>>
      /\ toClient' = [toClient EXCEPT ![s] = Tail(toClient[s])] /\ toClient[s] # <<>>
  BY DEF HandleRemoteOperation, Incoming, TakeMessage
<1>2. Told(Tail(toClient[s]))
  BY <1>1, OpenIsBooked, ToldTheRest
<1>3. CASE RemoteOperationAccepted(cc[s], Remote(s))
  <2>1. /\ cc' = [cc EXCEPT ![s] = e] /\ error' = error /\ edits' = edits
        /\ toServer' = toServer
    BY <1>3 DEF HandleRemoteOperation
  <2>2. e.contextVersion <= Len(log) /\ Reckons(s, log, e, edits[s], toServer[s])
    BY <1>1, <1>3, TakenRemotelyReckons
  <2> HIDE DEF e
  <2>3. /\ toServer' = [toServer EXCEPT ![s] = toServer[s]]
        /\ edits' = [edits EXCEPT ![s] = edits[s]] /\ Versioned(toServer[s])
    BY <2>1, OpenIsBooked DEF Submitted, Versioned
  <2> QED
    BY <1>1, <1>2, <2>1, <2>2, <2>3, BookedWhenOpen
<1>4. CASE ~RemoteOperationAccepted(cc[s], Remote(s))
  <2>1. cc' = cc /\ CloseWithError(s)
    BY <1>4 DEF HandleRemoteOperation
  <2>2. cc' = [cc EXCEPT ![s] = cc[s]]
    BY <2>1, OpenIsBooked
  <2> QED
    BY <1>1, <1>2, <2>1, <2>2, RefusedBooks
<1> QED
  BY <1>3, <1>4

\* and an edit may be made amid it.
LEMMA RemoteEditedWhenHeardBooks ==
  ASSUME BInv, NEW s \in Session, HandleRemoteOperationEditedWhenHeard(s)
  PROVE  \A t \in Session : Booked(t)'
<1> DEFINE e == TakeNextIncomingOperation(ProcessRemoteOperation(cc[s], Remote(s)))
           q == toServer[s]
<1>1. /\ ~error[s] /\ Incoming(s, "remoteOperation")
      /\ RemoteOperationAccepted(cc[s], Remote(s)) /\ UNCHANGED <<log, bridge, error>>
      /\ toClient' = [toClient EXCEPT ![s] = Tail(toClient[s])] /\ toClient[s] # <<>>
      /\ edits' = [edits EXCEPT ![s] = edits[s] + 1]
  BY DEF HandleRemoteOperationEditedWhenHeard, Incoming, TakeMessage
<1>2. PICK nested :
        LET after == ProcessOutgoingOperation(e, s, nested)
        IN  /\ cc' = [cc EXCEPT ![s] = after]
            /\ toServer' = [toServer EXCEPT ![s] = AfterSending(q, e, after)]
  BY DEF HandleRemoteOperationEditedWhenHeard, EditsAmid, BecomesAndSends
<1>3. /\ IsConcurrencyControl(e) /\ e.contextVersion <= Len(log)
      /\ Reckons(s, log, e, edits[s], q)
  BY <1>1, TakenRemotelyReckons
<1>4. Told(Tail(toClient[s])) /\ IsSequence(q) /\ Versioned(q)
  BY <1>1, OpenIsBooked, ToldTheRest DEF Submitted, Versioned
<1> HIDE DEF e
<1> DEFINE after == ProcessOutgoingOperation(e, s, nested)
           r == AfterSending(q, e, after)
<1>5. cc' = [cc EXCEPT ![s] = after] /\ toServer' = [toServer EXCEPT ![s] = r]
  BY <1>2
<1>6. Issues(e, after)
  BY <1>3, ProcessOutgoingIssues
<1>7. Reckons(s, log, after, edits[s] + 1, r)
  BY <1>3, <1>4, ReckonsOnceIssued
<1> HIDE DEF after, q
<1>8. Versioned(r) /\ after.contextVersion <= Len(log)
  BY <1>3, <1>4, <1>6, SendingKeepsVersioned DEF Issues
<1> HIDE DEF r
<1> QED
  BY <1>1, <1>4, <1>5, <1>7, <1>8, BookedWhenOpen

----------------------------------------------------------------------------
(* What follows *)

\* Nothing is edited, and committed says so.
THEOREM InitBooks == Init => BInv
<1> SUFFICES ASSUME Init PROVE BInv
  OBVIOUS
<1>1. RInv
  BY InitRefines
<1>2. ASSUME NEW s \in Session PROVE Booked(s)
  <2> DEFINE c == cc[s]
             total == [k \in {0} |-> 0]
  <2>1. /\ log = <<>> /\ c = NewConcurrencyControl(0, 0) /\ toServer[s] = <<>>
        /\ toClient[s] = <<>> /\ bridge[s] = <<>> /\ ~error[s] /\ edits[s] = 0
    BY DEF Init
  <2>2. /\ c.lastSequenceNumber = 0 /\ c.contextVersion = 0 /\ c.committed
        /\ c.inflightOperations = <<>> /\ c.pendingCompoundOperation = <<>>
        /\ c.unappliedOperations = <<>>
    BY <2>1 DEF NewConcurrencyControl
  <2> HIDE DEF c
  <2>3. Len(<<>>) = 0 /\ IsSequence(<<>>) /\ \A i \in 1 .. 0 : FALSE
    BY EmptyIsSequence
  <2>4. EditsLogged(s, log, 0) = 0
    BY EditsLoggedNext
  <2>5. Totals(total, 0) /\ Acked(c) = 0 /\ total[0] = 0
    <3>1. total[0] = 0 /\ \A k \in 0 .. 0 : k = 0
      OBVIOUS
    <3> HIDE DEF total
    <3>2. \A k \in 0 .. 0 : total[k] \in Nat
      BY <3>1
    <3>3. \A j, k \in 0 .. 0 : j < k => total[j] < total[k]
      OBVIOUS
    <3>4. Acked(c) = 0
      <4>1. c.lastSequenceNumber = 0 /\ Len(c.inflightOperations) = 0
        BY <2>2, <2>3
      <4>2. c.lastSequenceNumber - Len(c.inflightOperations) = 0
        BY <4>1
      <4> QED
        BY <4>2 DEF Acked
    <3> QED
      BY <3>1, <3>2, <3>3, <3>4 DEF Totals
  <2> HIDE DEF total
  <2>6. Tells(c)
    BY <2>2 DEF Tells, Settled, NothingOutstanding
  <2>7. Accounts(c, 0, total)
    BY <2>2, <2>3, <2>5 DEF Accounts
  <2>8. LoggedAs(s, log, total, 0) /\ SentAs(toServer[s], total, 0)
    BY <2>1, <2>3 DEF LoggedAs, SentAs
  <2>9. Reckons(s, log, c, 0, toServer[s])
    BY <2>2, <2>4, <2>5, <2>6, <2>7, <2>8 DEF Reckons, Ledger
  <2>10. Carries(c, toServer[s], toClient[s], bridge[s], Len(log))
    BY <2>1, <2>2, <2>3 DEF Carries, Submitted, Told, Bridged, AreEvents
  <2> QED
    BY <2>1, <2>9, <2>10 DEF Booked, c
<1> QED
  BY <1>1, <1>2 DEF BInv

\* Every step keeps the books.
THEOREM NextBooks == BInv /\ [Next]_vars => BInv'
<1> SUFFICES ASSUME BInv, [Next]_vars PROVE BInv'
  OBVIOUS
<1>1. RInv'
  BY NextRefines DEF BInv
<1>2. ASSUME UNCHANGED vars PROVE \A s \in Session : Booked(s)'
  BY <1>2 DEF vars, BInv, Booked
<1>3. ASSUME NEW s \in Session, HandleMessage(s) PROVE \A t \in Session : Booked(t)'
  BY <1>3, HandleOperationAckBooks, HandleRemoteOperationBooks, RemoteEditedWhenHeardBooks
     DEF HandleMessage
<1>4. \A t \in Session : Booked(t)'
  BY <1>2, <1>3, LocalOperationBooks, EditedWhenHeardBooks, EditedWhenModifiedBooks,
     BatchFlagBooks, CompleteBatchBooks, ServerReceivesBooks DEF Next
<1> QED
  BY <1>1, <1>4 DEF BInv

\* Booked sessions tell the truth, open or closed.
LEMMA BooksTell == BInv => CommitEventsTruthful
<1> SUFFICES ASSUME BInv, NEW s \in Session PROVE cc[s].committed <=> AllAcknowledged(s)
  BY DEF CommitEventsTruthful
<1>1. Concludes(s, log, cc[s], edits[s])
  BY OpenIsBooked, ReckoningTells DEF BInv, Booked, Concludes
<1> QED
  BY <1>1 DEF Concludes, AllAcknowledged, EditsAcknowledged

\* processOutgoingOperation, completeBatchOperation and processAcknowledgement emit
\* commit_state_changed so that committed is always whether the server's history has each
\* edit of the session, and the session knows.  However many sessions, edits, batches and
\* messages there are, whatever the operations and however they are transformed, and even
\* if the session sends its operations out of order and the model closes over that.
THEOREM CommitEventsTellTheTruth == Spec => []CommitEventsTruthful
  BY InitBooks, NextBooks, BooksTell, PTL DEF Spec
=============================================================================
