--------------------- MODULE ModelCollaborationConvergence ---------------------
(***************************************************************************)
(* For any number of sessions: every session sees the server's data with   *)
(* its own outstanding edits on top, as long as no edit is made from       *)
(* within an event, provided that the transformation functions converge on *)
(* two discrete operations of one document.                                *)
(*                                                                         *)
(* Two steps lead there.  What converges for two discrete operations does  *)
(* for whole operations, and for an operation that passes any number of    *)
(* others.  And every operation the server logs is one of the document it  *)
(* has then, which the grid of ModelCollaborationAgreement shows: all that *)
(* stand in it are operations of the document at their place.              *)
(***************************************************************************)
EXTENDS Convergence, ModelCollaborationAgreement

----------------------------------------------------------------------------
(* Operations, and what they make of a document                            *)

\* No operation changes nothing.
LEMMA LeadsNowhere ==
  ASSUME NEW d
  PROVE  /\ d \in Document => Leads(d, <<>>, d)
         /\ \A e : Leads(d, <<>>, e) => d = e
<1>1. IsSequence(<<>>) /\ Len(<<>>) = 0
  BY EmptyIsSequence
<1>2. ASSUME d \in Document PROVE Leads(d, <<>>, d)
  <2> DEFINE f == [i \in {0} |-> d]
  <2>1. f[0] = d
    OBVIOUS
  <2> HIDE DEF f
  <2>2. f[Len(<<>>)] = d /\ \A i \in 1 .. Len(<<>>) : FALSE
    BY <1>1, <2>1
  <2> QED
    BY <1>1, <1>2, <2>1, <2>2 DEF Leads
<1>3. \A e : Leads(d, <<>>, e) => d = e
  BY <1>1 DEF Leads
<1> QED
  BY <1>2, <1>3

\* A discrete operation more.
LEMMA LeadsOn ==
  ASSUME NEW d, NEW operation, NEW e, Leads(d, operation, e), NEW op, NEW g, Edits(e, op, g)
  PROVE  Leads(d, Append(operation, op), g)
<1> DEFINE n == Len(operation)
           after == Append(operation, op)
<1>1. IsSequence(operation) /\ n \in Nat
  BY SequenceIsFunction DEF Leads
<1>2. /\ IsSequence(after) /\ Len(after) = n + 1 /\ after[n + 1] = op
      /\ \A i \in 1 .. n : after[i] = operation[i]
  BY <1>1, AppendToSequence
<1>3. PICK f : /\ f[0] = d /\ f[n] = e
               /\ \A i \in 1 .. n : Edits(f[i - 1], operation[i], f[i])
  BY DEF Leads
<1> HIDE DEF n, after
<1> DEFINE h == [i \in 0 .. n + 1 |-> IF i = n + 1 THEN g ELSE f[i]]
<1>4. h[n + 1] = g /\ \A i \in 0 .. n : h[i] = f[i]
  BY <1>1
<1> HIDE DEF h
<1>5. ASSUME NEW i \in 1 .. n + 1 PROVE Edits(h[i - 1], after[i], h[i])
  <2>1. CASE i = n + 1
    <3>1. i - 1 = n /\ n \in 0 .. n
      BY <1>1, <2>1
    <3> QED
      BY <1>2, <1>3, <1>4, <2>1, <3>1
  <2>2. CASE i # n + 1
    <3>1. i \in 1 .. n /\ i \in 0 .. n /\ i - 1 \in 0 .. n
      BY <1>1, <2>2
    <3> QED
      BY <1>2, <1>3, <1>4, <3>1
  <2> QED
    BY <2>1, <2>2
<1>6. h[0] = d /\ h[Len(after)] = g /\ \A i \in 1 .. Len(after) : Edits(h[i - 1], after[i], h[i])
  BY <1>1, <1>2, <1>3, <1>4, <1>5
<1>7. d \in Document /\ g \in Document
  BY DEF Leads, Edits
<1> QED
  BY <1>2, <1>6, <1>7 DEF Leads, after

\* One discrete operation.
LEMMA LeadsByOne ==
  ASSUME NEW d \in Document, NEW op, NEW e, Edits(d, op, e)
  PROVE  Leads(d, <<op>>, e)
<1>1. Leads(d, <<>>, d)
  BY LeadsNowhere
<1>2. Append(<<>>, op) = <<op>>
  OBVIOUS
<1>3. Leads(d, Append(<<>>, op), e)
  BY <1>1, LeadsOn
<1> QED
  BY <1>2, <1>3

\* One operation after the other.
LEMMA LeadsFurther ==
  ASSUME NEW d, NEW w, NEW e, Leads(d, w, e), NEW x, NEW g, Leads(e, x, g)
  PROVE  Leads(d, w \o x, g)
<1> DEFINE m == Len(w)
           n == Len(x)
           t == w \o x
<1>1. IsSequence(w) /\ IsSequence(x) /\ m \in Nat /\ n \in Nat
  BY SequenceIsFunction DEF Leads
<1>2. /\ IsSequence(t) /\ Len(t) = m + n
      /\ \A i \in 1 .. m : t[i] = w[i]
      /\ \A i \in 1 .. n : t[m + i] = x[i]
  BY <1>1, ConcatOfSequences
<1>3. PICK f : f[0] = d /\ f[m] = e /\ \A i \in 1 .. m : Edits(f[i - 1], w[i], f[i])
  BY DEF Leads
<1>4. PICK h : h[0] = e /\ h[n] = g /\ \A i \in 1 .. n : Edits(h[i - 1], x[i], h[i])
  BY DEF Leads
<1> HIDE DEF m, n, t
<1> DEFINE k == [i \in 0 .. m + n |-> IF i <= m THEN f[i] ELSE h[i - m]]
<1>5. \A i \in 0 .. m : i \in 0 .. m + n /\ i <= m
  BY <1>1
<1>6. \A i \in 0 .. m : k[i] = f[i]
  BY <1>5
<1>7. ASSUME NEW i \in 0 .. n PROVE k[m + i] = h[i]
  <2>1. m + i \in 0 .. m + n /\ (m + i) - m = i
    BY <1>1
  <2>2. CASE i = 0
    <3>1. m + i = m /\ m <= m
      BY <1>1, <2>2
    <3> QED
      BY <1>3, <1>4, <2>1, <2>2, <3>1
  <2>3. CASE i # 0
    <3>1. ~(m + i <= m)
      BY <1>1, <2>3
    <3> QED
      BY <2>1, <3>1
  <2> QED
    BY <2>2, <2>3
<1> HIDE DEF k
<1>8. ASSUME NEW i \in 1 .. m + n PROVE Edits(k[i - 1], t[i], k[i])
  <2>1. CASE i <= m
    <3>1. i \in 1 .. m /\ i \in 0 .. m /\ i - 1 \in 0 .. m
      BY <1>1, <2>1
    <3> QED
      BY <1>2, <1>3, <1>6, <3>1
  <2>2. CASE ~(i <= m)
    <3> DEFINE j == i - m
    <3>1. j \in 1 .. n /\ j \in 0 .. n /\ j - 1 \in 0 .. n /\ m + j = i /\ m + (j - 1) = i - 1
      BY <1>1, <2>2
    <3> HIDE DEF j
    <3>2. k[m + j] = h[j] /\ k[m + (j - 1)] = h[j - 1] /\ t[m + j] = x[j]
      BY <1>2, <1>7, <3>1
    <3>3. Edits(h[j - 1], x[j], h[j])
      BY <1>4, <3>1
    <3> QED
      BY <3>1, <3>2, <3>3
  <2> QED
    BY <2>1, <2>2
<1>9. k[0] = d /\ k[m + n] = g
  BY <1>1, <1>3, <1>4, <1>6, <1>7
<1>10. d \in Document /\ g \in Document
  BY DEF Leads
<1> QED
  BY <1>2, <1>8, <1>9, <1>10 DEF Leads, t

----------------------------------------------------------------------------
(* What converges for two discrete operations does for whole operations    *)

\* Two discrete operations of one document, each transformed over the other.
LEMMA DiscretePass ==
  ASSUME OperationsConverge, NEW d \in Document, NEW s, NEW c,
         NEW e, Edits(d, s, e), NEW f, Edits(d, c, f)
  PROVE  LET pair == TransformDiscrete(s, c)
         IN  \E g : Edits(e, pair.clientOp, g) /\ Edits(f, pair.serverOp, g)
<1>1. e = Apply(d, <<s>>) /\ f = Apply(d, <<c>>)
  BY DEF Edits
<1>2. Converge(d, s, c)
  BY <1>1 DEF OperationsConverge
<1> QED
  BY <1>1, <1>2 DEF Converge

\* A discrete operation and a whole one.
LEMMA ClientCompoundPass ==
  ASSUME OperationsConverge, NEW d \in Document, NEW s, NEW c,
         NEW e, Edits(d, s, e), NEW f, Leads(d, c, f)
  PROVE  LET pair == TransformClientCompoundOperation(s, c)
         IN  \E g : Leads(e, pair.clientOp, g) /\ Edits(f, pair.serverOp, g)
<1> DEFINE n == Len(c)
<1>1. n \in Nat
  BY SequenceIsFunction DEF Leads
<1>2. PICK h : h[0] = d /\ h[n] = f /\ \A i \in 1 .. n : Edits(h[i - 1], c[i], h[i])
  BY DEF Leads
<1>3. n = Len(c)
  OBVIOUS
<1> HIDE DEF n
<1>4. PICK pair : ClientPairs(pair, s, c, n)
  BY <1>1, <1>3, ClientCompoundPairs
<1> DEFINE T == {i \in 0 .. n : \E g : /\ Leads(e, pair[i].clientOp, g)
                                       /\ Edits(h[i], pair[i].serverOp, g)
                                       /\ h[i] \in Document}
<1>5. 0 \in T
  <2>1. pair[0].clientOp = <<>> /\ pair[0].serverOp = s
    BY <1>4 DEF OperationPair, ClientPairs
  <2>2. Leads(e, <<>>, e)
    BY LeadsNowhere DEF Edits
  <2> QED
    BY <1>1, <1>2, <2>1, <2>2
<1>6. ASSUME NEW i \in 0 .. n - 1, i \in T PROVE i + 1 \in T
  <2> DEFINE j == i + 1
             next == TransformDiscrete(pair[i].serverOp, c[j])
  <2>1. PICK g : Leads(e, pair[i].clientOp, g) /\ Edits(h[i], pair[i].serverOp, g)
                 /\ h[i] \in Document
    BY <1>6
  <2>2. j \in 1 .. n /\ j - 1 = i /\ j \in 0 .. n
    BY <1>1
  <2> HIDE DEF j
  <2>3. Edits(h[i], c[j], h[j])
    BY <1>2, <2>2
  <2>4. PICK k : Edits(g, next.clientOp, k) /\ Edits(h[j], next.serverOp, k)
    BY <2>1, <2>3, DiscretePass
  <2>5. pair[j] = PassesDiscrete(pair[i], c[j])
    BY <1>4, <2>2 DEF ClientPairs
  <2>6. /\ pair[j].serverOp = next.serverOp
        /\ pair[j].clientOp = Append(pair[i].clientOp, next.clientOp)
    BY <2>5 DEF PassesDiscrete, OperationPair
  <2> HIDE DEF next
  <2>7. Leads(e, pair[j].clientOp, k)
    BY <2>1, <2>4, <2>6, LeadsOn
  <2>8. h[j] \in Document
    BY <2>3 DEF Edits
  <2> QED
    BY <2>2, <2>4, <2>6, <2>7, <2>8 DEF j
<1>7. n \in T
  <2> HIDE DEF T
  <2>1. 0 \in Nat /\ 0 <= n /\ \A i \in 0 .. n - 1 : i \in T => i + 1 \in T
    BY <1>1, <1>6
  <2>2. 0 .. n \subseteq T
    BY <1>1, <1>5, <2>1, UpTo
  <2> QED
    BY <1>1, <2>2
<1> QED
  BY <1>2, <1>4, <1>7 DEF ClientPairs

\* Two whole operations.
LEMMA OperationsPass ==
  ASSUME OperationsConverge, NEW d, NEW s, NEW c,
         NEW e, Leads(d, s, e), NEW f, Leads(d, c, f)
  PROVE  LET pair == TransformOperations(s, c)
         IN  \E g : Leads(e, pair.clientOp, g) /\ Leads(f, pair.serverOp, g)
<1> DEFINE n == Len(s)
<1>1. n \in Nat /\ d \in Document /\ f \in Document
  BY SequenceIsFunction DEF Leads
<1>2. PICK h : h[0] = d /\ h[n] = e /\ \A i \in 1 .. n : Edits(h[i - 1], s[i], h[i])
  BY DEF Leads
<1>3. n = Len(s)
  OBVIOUS
<1> HIDE DEF n
<1>4. PICK pair : ServerPairs(pair, s, c, n)
  BY <1>1, <1>3, OperationsPairs
<1> DEFINE T == {i \in 0 .. n : \E g : /\ Leads(h[i], pair[i].clientOp, g)
                                       /\ Leads(f, pair[i].serverOp, g)}
<1>5. 0 \in T
  <2>1. pair[0].clientOp = c /\ pair[0].serverOp = <<>>
    BY <1>4 DEF OperationPair, ServerPairs
  <2>2. Leads(f, <<>>, f)
    BY <1>1, LeadsNowhere
  <2> QED
    BY <1>1, <1>2, <2>1, <2>2
<1>6. ASSUME NEW i \in 0 .. n - 1, i \in T PROVE i + 1 \in T
  <2> DEFINE j == i + 1
             next == TransformClientCompoundOperation(s[j], pair[i].clientOp)
  <2>1. PICK g : Leads(h[i], pair[i].clientOp, g) /\ Leads(f, pair[i].serverOp, g)
    BY <1>6
  <2>2. j \in 1 .. n /\ j - 1 = i /\ j \in 0 .. n
    BY <1>1
  <2> HIDE DEF j
  <2>3. Edits(h[i], s[j], h[j]) /\ h[i] \in Document
    BY <1>2, <2>1, <2>2 DEF Leads
  <2>4. PICK k : Leads(h[j], next.clientOp, k) /\ Edits(g, next.serverOp, k)
    BY <2>1, <2>3, ClientCompoundPass
  <2>5. pair[j] = PassedByDiscrete(pair[i], s[j])
    BY <1>4, <2>2 DEF ServerPairs
  <2>6. /\ pair[j].clientOp = next.clientOp
        /\ pair[j].serverOp = Append(pair[i].serverOp, next.serverOp)
    BY <2>5 DEF PassedByDiscrete, OperationPair
  <2> HIDE DEF next
  <2>7. Leads(f, pair[j].serverOp, k)
    BY <2>1, <2>4, <2>6, LeadsOn
  <2> QED
    BY <2>2, <2>4, <2>6, <2>7 DEF j
<1>7. n \in T
  <2> HIDE DEF T
  <2>1. 0 \in Nat /\ 0 <= n /\ \A i \in 0 .. n - 1 : i \in T => i + 1 \in T
    BY <1>1, <1>6
  <2>2. 0 .. n \subseteq T
    BY <1>1, <1>5, <2>1, UpTo
  <2> QED
    BY <1>1, <2>2
<1> QED
  BY <1>2, <1>4, <1>7 DEF ServerPairs

\* Of operations numbered from lo + 1 to hi, each makes the document before it the one
\* after it.
Walks(f, ops, lo, hi) == \A j \in lo + 1 .. hi : Leads(f[j - 1], ops[j], f[j])

\* An operation passes those, one after the other: over is what it becomes, next what they
\* become.
PassesRow(over, ops, next, lo, hi) ==
  \A j \in lo + 1 .. hi :
    /\ over[j] = TransformOperations(over[j - 1], ops[j]).serverOp
    /\ next[j] = TransformOperations(over[j - 1], ops[j]).clientOp

\* One operation that passes many of one document.
LEMMA RowPasses ==
  ASSUME OperationsConverge, NEW lo \in Nat, NEW hi \in Nat, lo <= hi,
         NEW f, NEW ops, NEW over, NEW next, Walks(f, ops, lo, hi),
         PassesRow(over, ops, next, lo, hi), NEW e, Leads(f[lo], over[lo], e)
  PROVE  \E g : g[lo] = e /\ Walks(g, next, lo, hi) /\ Leads(f[hi], over[hi], g[hi])
<1> DEFINE Reaches(g, k) == /\ g[lo] = e /\ Walks(g, next, lo, k)
                            /\ Leads(f[k], over[k], g[k])
           T == {k \in lo .. hi : \E g : Reaches(g, k)}
<1>1. lo \in T
  <2> DEFINE z == [i \in {lo} |-> e]
  <2>1. z[lo] = e /\ \A j \in lo + 1 .. lo : FALSE
    OBVIOUS
  <2> HIDE DEF z
  <2>2. Reaches(z, lo)
    BY <2>1 DEF Walks
  <2> HIDE DEF Reaches
  <2> QED
    BY <2>2
<1>2. ASSUME NEW k \in lo .. hi - 1, k \in T PROVE k + 1 \in T
  <2> DEFINE j == k + 1
             pair == TransformOperations(over[k], ops[j])
  <2>1. PICK g : Reaches(g, k)
    BY <1>2
  <2>2. j \in lo + 1 .. hi /\ j - 1 = k /\ j \in lo .. hi /\ k \in lo .. j /\ lo \in lo .. k
    OBVIOUS
  <2> HIDE DEF j
  <2>3. /\ Leads(f[k], ops[j], f[j])
        /\ over[j] = pair.serverOp /\ next[j] = pair.clientOp
    BY <2>2 DEF Walks, PassesRow
  <2>4. PICK h : Leads(g[k], pair.clientOp, h) /\ Leads(f[j], pair.serverOp, h)
    BY <2>1, <2>3, OperationsPass
  <2> HIDE DEF pair
  <2> DEFINE r == [i \in lo .. j |-> IF i = j THEN h ELSE g[i]]
  <2>5. r[j] = h /\ \A i \in lo .. k : r[i] = g[i]
    BY <2>2
  <2> HIDE DEF r
  <2>6. ASSUME NEW i \in lo + 1 .. j PROVE Leads(r[i - 1], next[i], r[i])
    <3>1. CASE i = j
      <4>1. r[i - 1] = g[k]
        BY <2>2, <2>5, <3>1
      <4> QED
        BY <2>3, <2>4, <2>5, <3>1, <4>1
    <3>2. CASE i # j
      <4>1. i \in lo + 1 .. k /\ i \in lo .. k /\ i - 1 \in lo .. k
        BY <2>2, <3>2
      <4> QED
        BY <2>1, <2>5, <4>1 DEF Walks
    <3> QED
      BY <3>1, <3>2
  <2>7. Reaches(r, j)
    BY <2>1, <2>2, <2>3, <2>4, <2>5, <2>6 DEF Walks
  <2> HIDE DEF Reaches
  <2> QED
    BY <2>2, <2>7 DEF j
<1>3. hi \in T
  <2> HIDE DEF T
  <2>1. \A k \in lo .. hi - 1 : k \in T => k + 1 \in T
    BY <1>2
  <2>2. lo .. hi \subseteq T
    BY <1>1, <2>1, UpTo
  <2> QED
    BY <2>2
<1> QED
  BY <1>3

----------------------------------------------------------------------------
(* The data at a version, and what a session has outstanding               *)

\* The data at each version up to n.
Versions(pair, history, n) ==
  /\ pair[0] = InitialData
  /\ \A i \in 1 .. n : pair[i] = Apply(pair[i - 1], history[i].operation)
  /\ DataAt(history, n) = pair[n]

\* What DataAt computes, version by version.
LEMMA DataPairs ==
  ASSUME NEW history, NEW n \in Nat
  PROVE  \E pair : Versions(pair, history, n)
<1> DEFINE first == InitialData
           Pairs(p, k) == /\ p[0] = first
                          /\ \A i \in 1 .. k : p[i] = Apply(p[i - 1], history[i].operation)
           T == {k \in 0 .. n : \E p : Pairs(p, k)}
<1> HIDE DEF first
<1>1. 0 \in T
  <2>1. Pairs([i \in {0} |-> first], 0)
    OBVIOUS
  <2>2. 0 \in 0 .. n
    OBVIOUS
  <2> HIDE DEF Pairs
  <2> QED
    BY <2>1, <2>2
<1>2. ASSUME NEW k \in 0 .. n - 1, k \in T PROVE k + 1 \in T
  <2>1. PICK p : Pairs(p, k)
    BY <1>2
  <2> DEFINE e == Apply(p[k], history[k + 1].operation)
             r == [i \in 0 .. n |-> IF i = k + 1 THEN e ELSE p[i]]
  <2>2. /\ r[k + 1] = e /\ \A i \in 0 .. k : r[i] = p[i]
    OBVIOUS
  <2> HIDE DEF r
  <2>3. ASSUME NEW i \in 1 .. k + 1 PROVE r[i] = Apply(r[i - 1], history[i].operation)
    <3>1. CASE i = k + 1
      <4>1. r[i - 1] = p[k]
        BY <2>2, <3>1
      <4> QED
        BY <2>2, <3>1, <4>1
    <3>2. CASE i # k + 1
      <4>1. i \in 0 .. k /\ i - 1 \in 0 .. k /\ i \in 1 .. k
        BY <3>2
      <4> QED
        BY <2>1, <2>2, <4>1
    <3> QED
      BY <3>1, <3>2
  <2>4. Pairs(r, k + 1)
    BY <2>1, <2>2, <2>3
  <2>5. k + 1 \in 0 .. n
    OBVIOUS
  <2> HIDE DEF Pairs
  <2> QED
    BY <2>4, <2>5
<1>3. n \in T
  <2> HIDE DEF T
  <2>1. 0 \in Nat /\ 0 <= n /\ \A k \in 0 .. n - 1 : k \in T => k + 1 \in T
    BY <1>2
  <2>2. 0 .. n \subseteq T
    BY <1>1, <2>1, UpTo
  <2> QED
    BY <2>2
<1>4. PICK p : Pairs(p, n)
  BY <1>3
<1> DEFINE Body(g) == [i \in 0 .. n |->
                         IF i = 0 THEN first ELSE Apply(g[i - 1], history[i].operation)]
           r == [i \in 0 .. n |-> p[i]]
           f == CHOOSE g : g = Body(g)
<1>5. r = Body(r)
  <2>1. \A i \in 0 .. n : r[i] = p[i]
    OBVIOUS
  <2> HIDE DEF r
  <2>2. \A i \in 1 .. n : r[i] = Apply(r[i - 1], history[i].operation)
    BY <1>4, <2>1
  <2>3. r[0] = first
    BY <1>4, <2>1
  <2>4. \A i \in 0 .. n : r[i] = Body(r)[i]
    BY <2>2, <2>3
  <2> QED
    BY <2>4 DEF r
<1>6. DataAt(history, n) = f[n]
  BY DEF DataAt, first
<1> HIDE DEF Body
<1>7. f = Body(f)
  <2> HIDE DEF r
  <2> QED
    BY <1>5
<1> HIDE DEF f
<1>8. \A i \in 0 .. n : f[i] = IF i = 0 THEN first ELSE Apply(f[i - 1], history[i].operation)
  BY <1>7 DEF Body
<1>9. f[0] = first /\ \A i \in 1 .. n : f[i] = Apply(f[i - 1], history[i].operation)
  BY <1>8
<1> QED
  BY <1>6, <1>9 DEF first, Versions

\* One operation after the other.
Joined(w, x) == w \o x

\* The first i operations in flight, one after the other.
InTurn(pair, c, n) ==
  /\ pair[0] = <<>>
  /\ \A i \in 1 .. n : pair[i] = Joined(pair[i - 1], c.inflightOperations[i].operation)
  /\ Outstanding(c) = pair[n] \o c.pendingCompoundOperation

\* What Outstanding computes, operation by operation.
LEMMA OutstandingPairs ==
  ASSUME NEW c, NEW n \in Nat, n = Len(c.inflightOperations)
  PROVE  \E pair : InTurn(pair, c, n)
<1> DEFINE first == <<>>
           Pairs(p, k) == /\ p[0] = first
                          /\ \A i \in 1 .. k : p[i] = Joined(p[i - 1], c.inflightOperations[i].operation)
           T == {k \in 0 .. n : \E p : Pairs(p, k)}
<1> HIDE DEF first
<1>1. 0 \in T
  <2>1. Pairs([i \in {0} |-> first], 0)
    OBVIOUS
  <2>2. 0 \in 0 .. n
    OBVIOUS
  <2> HIDE DEF Pairs
  <2> QED
    BY <2>1, <2>2
<1>2. ASSUME NEW k \in 0 .. n - 1, k \in T PROVE k + 1 \in T
  <2>1. PICK p : Pairs(p, k)
    BY <1>2
  <2> DEFINE e == Joined(p[k], c.inflightOperations[k + 1].operation)
             r == [i \in 0 .. n |-> IF i = k + 1 THEN e ELSE p[i]]
  <2>2. /\ r[k + 1] = e /\ \A i \in 0 .. k : r[i] = p[i]
    OBVIOUS
  <2> HIDE DEF r
  <2>3. ASSUME NEW i \in 1 .. k + 1 PROVE r[i] = Joined(r[i - 1], c.inflightOperations[i].operation)
    <3>1. CASE i = k + 1
      <4>1. r[i - 1] = p[k]
        BY <2>2, <3>1
      <4> QED
        BY <2>2, <3>1, <4>1
    <3>2. CASE i # k + 1
      <4>1. i \in 0 .. k /\ i - 1 \in 0 .. k /\ i \in 1 .. k
        BY <3>2
      <4> QED
        BY <2>1, <2>2, <4>1
    <3> QED
      BY <3>1, <3>2
  <2>4. Pairs(r, k + 1)
    BY <2>1, <2>2, <2>3
  <2>5. k + 1 \in 0 .. n
    OBVIOUS
  <2> HIDE DEF Pairs
  <2> QED
    BY <2>4, <2>5
<1>3. n \in T
  <2> HIDE DEF T
  <2>1. 0 \in Nat /\ 0 <= n /\ \A k \in 0 .. n - 1 : k \in T => k + 1 \in T
    BY <1>2
  <2>2. 0 .. n \subseteq T
    BY <1>1, <2>1, UpTo
  <2> QED
    BY <2>2
<1>4. PICK p : Pairs(p, n)
  BY <1>3
<1> DEFINE Body(g) == [i \in 0 .. n |->
                         IF i = 0 THEN first ELSE Joined(g[i - 1], c.inflightOperations[i].operation)]
           r == [i \in 0 .. n |-> p[i]]
           f == CHOOSE g : g = Body(g)
<1>5. r = Body(r)
  <2>1. \A i \in 0 .. n : r[i] = p[i]
    OBVIOUS
  <2> HIDE DEF r
  <2>2. \A i \in 1 .. n : r[i] = Joined(r[i - 1], c.inflightOperations[i].operation)
    BY <1>4, <2>1
  <2>3. r[0] = first
    BY <1>4, <2>1
  <2>4. \A i \in 0 .. n : r[i] = Body(r)[i]
    BY <2>2, <2>3
  <2> QED
    BY <2>4 DEF r
<1>6. Outstanding(c) = f[n] \o c.pendingCompoundOperation
  BY DEF Outstanding, Joined, first
<1> HIDE DEF Body
<1>7. f = Body(f)
  <2> HIDE DEF r
  <2> QED
    BY <1>5
<1> HIDE DEF f
<1>8. \A i \in 0 .. n : f[i] = IF i = 0 THEN first ELSE Joined(f[i - 1], c.inflightOperations[i].operation)
  BY <1>7 DEF Body
<1>9. f[0] = first /\ \A i \in 1 .. n : f[i] = Joined(f[i - 1], c.inflightOperations[i].operation)
  BY <1>8
<1> QED
  BY <1>6, <1>9 DEF first, InTurn

\* The data at the versions before n depends on the history before n.
SameOperations(h, k, n) == \A i \in 1 .. n : k[i].operation = h[i].operation

\* And on nothing else.
LEMMA SameVersions ==
  ASSUME NEW h, NEW k, NEW n \in Nat, NEW l \in Nat, n <= l, SameOperations(h, k, n),
         NEW p, Versions(p, h, n), NEW q, Versions(q, k, l)
  PROVE  p[n] = q[n]
<1> DEFINE T == {i \in 0 .. n : p[i] = q[i]}
<1>1. 0 \in T
  BY DEF Versions
<1>2. ASSUME NEW i \in 0 .. n - 1, i \in T PROVE i + 1 \in T
  <2>1. i + 1 \in 1 .. n /\ i + 1 \in 1 .. l /\ i + 1 \in 0 .. n /\ (i + 1) - 1 = i
    OBVIOUS
  <2>2. /\ p[i + 1] = Apply(p[i], h[i + 1].operation)
        /\ q[i + 1] = Apply(q[i], k[i + 1].operation)
    BY <2>1 DEF Versions, SameOperations
  <2> QED
    BY <1>2, <2>1, <2>2 DEF SameOperations
<1>3. n \in T
  <2> HIDE DEF T
  <2>1. 0 \in Nat /\ 0 <= n /\ \A i \in 0 .. n - 1 : i \in T => i + 1 \in T
    BY <1>2
  <2>2. 0 .. n \subseteq T
    BY <1>1, <2>1, UpTo
  <2> QED
    BY <2>2
<1> QED
  BY <1>3

\* The data at the first version and at the next one.
LEMMA DataNext ==
  ASSUME NEW history
  PROVE  /\ DataAt(history, 0) = InitialData
         /\ \A v \in Nat :
              DataAt(history, v + 1) = Apply(DataAt(history, v), history[v + 1].operation)
<1>1. DataAt(history, 0) = InitialData
  <2>1. PICK p : Versions(p, history, 0)
    BY DataPairs
  <2> QED
    BY <2>1 DEF Versions
<1>2. ASSUME NEW v \in Nat
      PROVE  DataAt(history, v + 1) = Apply(DataAt(history, v), history[v + 1].operation)
  <2>1. v + 1 \in Nat /\ v <= v + 1 /\ v <= v /\ v + 1 \in 1 .. v + 1 /\ (v + 1) - 1 = v
    OBVIOUS
  <2>2. PICK p : Versions(p, history, v)
    BY DataPairs
  <2>3. PICK q : Versions(q, history, v + 1)
    BY <2>1, DataPairs
  <2>4. q[v] = p[v]
    <3>1. SameOperations(history, history, v)
      BY DEF SameOperations
    <3> QED
      BY <2>1, <2>2, <2>3, <3>1, SameVersions
  <2>5. q[v + 1] = Apply(q[v], history[v + 1].operation)
    BY <2>1, <2>3 DEF Versions
  <2> QED
    BY <2>2, <2>3, <2>4, <2>5 DEF Versions
<1> QED
  BY <1>1, <1>2

\* What comes later does not change the data at a version.
LEMMA DataKept ==
  ASSUME NEW h, NEW k, NEW n \in Nat, SameOperations(h, k, n)
  PROVE  \A v \in 0 .. n : DataAt(k, v) = DataAt(h, v)
<1> SUFFICES ASSUME NEW v \in 0 .. n PROVE DataAt(k, v) = DataAt(h, v)
  OBVIOUS
<1>1. v \in Nat /\ v <= v /\ SameOperations(h, k, v)
  BY DEF SameOperations
<1>2. PICK p : Versions(p, h, v)
  BY <1>1, DataPairs
<1>3. PICK q : Versions(q, k, v)
  BY <1>1, DataPairs
<1>4. p[v] = q[v]
  BY <1>1, <1>2, <1>3, SameVersions
<1> QED
  BY <1>2, <1>3, <1>4 DEF Versions

\* The operations in flight, and then those of the batch, make the data at the context
\* version what the session with the concurrency control c sees.
Sees(history, c, seen) ==
  \E f : /\ f[0] = DataAt(history, c.contextVersion)
         /\ \A i \in 1 .. Len(c.inflightOperations) :
              Leads(f[i - 1], c.inflightOperations[i].operation, f[i])
         /\ Leads(f[Len(c.inflightOperations)], c.pendingCompoundOperation, seen)

\* So all that is outstanding does.
LEMMA OutstandingLeads ==
  ASSUME NEW history, NEW c, IsSequence(c.inflightOperations), NEW seen, Sees(history, c, seen),
         DataAt(history, c.contextVersion) \in Document
  PROVE  Leads(DataAt(history, c.contextVersion), Outstanding(c), seen)
<1> DEFINE n == Len(c.inflightOperations)
           start == DataAt(history, c.contextVersion)
<1>1. n \in Nat /\ n = Len(c.inflightOperations) /\ start \in Document
  BY SequenceIsFunction
<1>2. PICK f : /\ f[0] = start
               /\ \A i \in 1 .. n : Leads(f[i - 1], c.inflightOperations[i].operation, f[i])
               /\ Leads(f[n], c.pendingCompoundOperation, seen)
  BY DEF Sees
<1> HIDE DEF n, start
<1>3. PICK p : InTurn(p, c, n)
  BY <1>1, OutstandingPairs
<1> DEFINE T == {i \in 0 .. n : Leads(start, p[i], f[i])}
<1>4. 0 \in T
  BY <1>1, <1>2, <1>3, LeadsNowhere DEF InTurn
<1>5. ASSUME NEW i \in 0 .. n - 1, i \in T PROVE i + 1 \in T
  <2> DEFINE j == i + 1
  <2>1. j \in 1 .. n /\ j - 1 = i /\ j \in 0 .. n
    BY <1>1
  <2> HIDE DEF j
  <2>2. p[j] = p[i] \o c.inflightOperations[j].operation
    BY <1>3, <2>1 DEF InTurn, Joined
  <2>3. Leads(f[i], c.inflightOperations[j].operation, f[j])
    BY <1>2, <2>1
  <2>4. Leads(start, p[j], f[j])
    BY <1>5, <2>2, <2>3, LeadsFurther
  <2> QED
    BY <2>1, <2>4 DEF j
<1>6. n \in T
  <2> HIDE DEF T
  <2>1. 0 \in Nat /\ 0 <= n /\ \A i \in 0 .. n - 1 : i \in T => i + 1 \in T
    BY <1>1, <1>5
  <2>2. 0 .. n \subseteq T
    BY <1>1, <1>4, <2>1, UpTo
  <2> QED
    BY <1>1, <2>2
<1>7. Leads(start, p[n] \o c.pendingCompoundOperation, seen)
  BY <1>2, <1>6, LeadsFurther
<1> QED
  BY <1>3, <1>7 DEF InTurn, start

----------------------------------------------------------------------------
(* The inductive invariant                                                 *)

\* Each operation of the history is one of the document at its version.
Logged(history, n) ==
  \A v \in 0 .. n - 1 :
    Leads(DataAt(history, v), history[v + 1].operation, DataAt(history, v + 1))

SeesOwn(history, c, seen) == Settled(c) /\ Sees(history, c, seen)

Convergent ==
  reentrantEdits = 0 =>
    /\ Logged(log, Len(log))
    /\ \A s \in Session : ~misordered[s] /\ SeesOwn(log, cc[s], data[s])

CInv == AInv /\ Convergent

----------------------------------------------------------------------------
(* What a session sees                                                     *)

\* What an operation leads to is what applying it gives.
LEMMA LeadsWhereApplied ==
  ASSUME AppliesInOrder, NEW d, NEW operation, NEW e, Leads(d, operation, e)
  PROVE  e = Apply(d, operation)
BY DEF AppliesInOrder

\* Every version is a document.
LEMMA DataIsDocument ==
  ASSUME InitialData \in Document, NEW history, NEW n \in Nat, Logged(history, n)
  PROVE  \A v \in 0 .. n : DataAt(history, v) \in Document
<1> SUFFICES ASSUME NEW v \in 0 .. n PROVE DataAt(history, v) \in Document
  OBVIOUS
<1>1. CASE v = 0
  BY <1>1, DataNext
<1>2. CASE v # 0
  <2> DEFINE u == v - 1
  <2>1. u \in 0 .. n - 1 /\ u + 1 = v
    BY <1>2
  <2> HIDE DEF u
  <2>2. Leads(DataAt(history, u), history[u + 1].operation, DataAt(history, u + 1))
    BY <2>1 DEF Logged
  <2> QED
    BY <2>1, <2>2 DEF Leads
<1> QED
  BY <1>1, <1>2

\* A longer history is the same to a session that has not seen its end.
LEMMA SeesInLonger ==
  ASSUME NEW h, NEW k, NEW n \in Nat, SameOperations(h, k, n), NEW c,
         c.contextVersion \in 0 .. n, NEW seen, SeesOwn(h, c, seen)
  PROVE  SeesOwn(k, c, seen)
<1>1. DataAt(k, c.contextVersion) = DataAt(h, c.contextVersion)
  BY DataKept
<1> QED
  BY <1>1 DEF SeesOwn, Sees

\* Putting in flight what changes the document seen,
LEMMA SeesOncePutInFlight ==
  ASSUME NEW h, NEW c, IsConcurrencyControl(c), c.pendingCompoundOperation = <<>>,
         c.unappliedOperations = <<>>, NEW seen, Sees(h, c, seen),
         NEW s, NEW operation, NEW e, Leads(seen, operation, e)
  PROVE  SeesOwn(h, PutInFlight(c, s, operation), e)
<1> DEFINE event == ClientOperationEvent(s, c.lastSequenceNumber + 1, c.contextVersion, operation)
           d == PutInFlight(c, s, operation)
           f == c.inflightOperations
           n == Len(f)
<1>1. event.operation = operation
  BY DEF ClientOperationEvent
<1>2. /\ d.inflightOperations = Append(f, event)
      /\ d.contextVersion = c.contextVersion
      /\ d.pendingCompoundOperation = <<>> /\ d.unappliedOperations = <<>>
  BY DEF PutInFlight, IsConcurrencyControl
<1> HIDE DEF event
<1>3. /\ Len(Append(f, event)) = n + 1 /\ n \in Nat
      /\ \A i \in 1 .. n : Append(f, event)[i] = f[i]
      /\ Append(f, event)[n + 1] = event
  BY AppendToSequence, SequenceIsFunction DEF IsConcurrencyControl
<1>4. PICK p : /\ p[0] = DataAt(h, c.contextVersion)
               /\ \A i \in 1 .. n : Leads(p[i - 1], f[i].operation, p[i])
               /\ Leads(p[n], <<>>, seen)
  BY DEF Sees
<1>5. p[n] = seen
  BY <1>4, LeadsNowhere
<1> HIDE DEF d, f, n
<1> DEFINE r == [i \in 0 .. n + 1 |-> IF i = n + 1 THEN e ELSE p[i]]
<1>6. r[n + 1] = e /\ \A i \in 0 .. n : r[i] = p[i]
  BY <1>3
<1> HIDE DEF r
<1>7. ASSUME NEW i \in 1 .. n + 1
      PROVE  Leads(r[i - 1], d.inflightOperations[i].operation, r[i])
  <2>1. CASE i = n + 1
    <3>1. i - 1 = n /\ n \in 0 .. n
      BY <1>3, <2>1
    <3> QED
      BY <1>1, <1>2, <1>3, <1>5, <1>6, <2>1, <3>1
  <2>2. CASE i # n + 1
    <3>1. i \in 1 .. n /\ i \in 0 .. n /\ i - 1 \in 0 .. n
      BY <1>3, <2>2
    <3> QED
      BY <1>2, <1>3, <1>4, <1>6, <3>1
  <2> QED
    BY <2>1, <2>2
<1>8. Leads(e, <<>>, e)
  BY LeadsNowhere DEF Leads
<1>9. r[0] = DataAt(h, d.contextVersion)
  BY <1>2, <1>3, <1>4, <1>6
<1>10. Sees(h, d, e)
  BY <1>2, <1>3, <1>6, <1>7, <1>8, <1>9 DEF Sees
<1> QED
  BY <1>2, <1>10 DEF SeesOwn, Settled, d

\* issuing it, in flight or as part of the batch,
LEMMA SeesOnceIssued ==
  ASSUME NEW h, NEW c, IsConcurrencyControl(c), NEW seen, SeesOwn(h, c, seen),
         NEW s, NEW op, NEW e, Edits(seen, op, e)
  PROVE  SeesOwn(h, ProcessOutgoingOperation(c, s, op), e)
<1> DEFINE noted == [c EXCEPT !.unappliedOperations = <<>>,
                              !.committed = IF NothingOutstanding(c) THEN FALSE ELSE @]
           d == ProcessOutgoingOperation(c, s, op)
           pending == c.pendingCompoundOperation
<1>1. c.unappliedOperations = <<>>
  BY DEF SeesOwn, Settled
<1>2. d = Issue(noted, s, <<op>>)
  BY <1>1, NothingToPass DEF ProcessOutgoingOperation
<1>3. /\ IsConcurrencyControl(noted)
      /\ noted.contextVersion = c.contextVersion /\ noted.unappliedOperations = <<>>
      /\ noted.inflightOperations = c.inflightOperations
      /\ noted.pendingCompoundOperation = pending
      /\ noted.compoundOpInProgress = c.compoundOpInProgress
  BY DEF IsConcurrencyControl
<1>4. seen \in Document
  BY DEF SeesOwn, Sees, Leads
<1>5. Leads(seen, <<op>>, e)
  BY <1>4, LeadsByOne
<1>6. CASE c.compoundOpInProgress
  <2>1. d = [noted EXCEPT !.pendingCompoundOperation = pending \o <<op>>]
    BY <1>2, <1>3, <1>6 DEF Issue
  <2>2. /\ d.contextVersion = c.contextVersion /\ d.unappliedOperations = <<>>
        /\ d.inflightOperations = c.inflightOperations /\ d.compoundOpInProgress
        /\ d.pendingCompoundOperation = pending \o <<op>>
    BY <1>3, <1>6, <2>1 DEF IsConcurrencyControl
  <2> HIDE DEF d, noted
  <2>3. PICK p : /\ p[0] = DataAt(h, c.contextVersion)
                 /\ \A i \in 1 .. Len(c.inflightOperations) :
                      Leads(p[i - 1], c.inflightOperations[i].operation, p[i])
                 /\ Leads(p[Len(c.inflightOperations)], pending, seen)
    BY DEF SeesOwn, Sees
  <2>4. Leads(p[Len(c.inflightOperations)], pending \o <<op>>, e)
    BY <1>5, <2>3, LeadsFurther
  <2>5. Sees(h, d, e)
    BY <2>2, <2>3, <2>4 DEF Sees
  <2> QED
    BY <2>2, <2>5 DEF SeesOwn, Settled, d
<1>7. CASE ~c.compoundOpInProgress
  <2>1. d = PutInFlight(noted, s, <<op>>)
    BY <1>2, <1>3, <1>7 DEF Issue
  <2>2. noted.pendingCompoundOperation = <<>>
    BY <1>3, <1>7 DEF SeesOwn, Settled
  <2> HIDE DEF noted, d
  <2>3. Sees(h, noted, seen)
    BY <1>3 DEF SeesOwn, Sees
  <2>4. SeesOwn(h, PutInFlight(noted, s, <<op>>), e)
    BY <1>3, <1>5, <2>2, <2>3, SeesOncePutInFlight
  <2> QED
    BY <2>1, <2>4 DEF d
<1> QED
  BY <1>6, <1>7

\* and the end of the batch leave it to see just that.
LEMMA SeesOnceCompleted ==
  ASSUME NEW h, NEW c, IsConcurrencyControl(c), NEW seen, SeesOwn(h, c, seen), NEW s
  PROVE  SeesOwn(h, CompleteBatchOperation(c, s), seen)
<1> DEFINE ended == [c EXCEPT !.compoundOpInProgress = FALSE, !.pendingCompoundOperation = <<>>]
           d == CompleteBatchOperation(c, s)
           pending == c.pendingCompoundOperation
           n == Len(c.inflightOperations)
<1>1. /\ IsConcurrencyControl(ended) /\ ended.contextVersion = c.contextVersion
      /\ ended.inflightOperations = c.inflightOperations
      /\ ended.pendingCompoundOperation = <<>> /\ ended.unappliedOperations = <<>>
  BY DEF IsConcurrencyControl, SeesOwn, Settled
<1>2. d = IF pending = <<>> THEN ended ELSE PutInFlight(ended, s, pending)
  BY DEF CompleteBatchOperation
<1> HIDE DEF ended, d
<1>3. PICK p : /\ p[0] = DataAt(h, c.contextVersion)
               /\ \A i \in 1 .. n : Leads(p[i - 1], c.inflightOperations[i].operation, p[i])
               /\ Leads(p[n], pending, seen)
  BY DEF SeesOwn, Sees
<1>4. Sees(h, ended, p[n])
  <2>1. Leads(p[n], <<>>, p[n])
    BY <1>3, LeadsNowhere DEF Leads
  <2> QED
    BY <1>1, <1>3, <2>1 DEF Sees
<1>5. CASE pending = <<>>
  <2>1. p[n] = seen
    BY <1>3, <1>5, LeadsNowhere
  <2> QED
    BY <1>1, <1>2, <1>4, <1>5, <2>1 DEF SeesOwn, Settled, d
<1>6. CASE pending # <<>>
  <2> HIDE DEF n, pending
  <2>1. SeesOwn(h, PutInFlight(ended, s, pending), seen)
    BY <1>1, <1>3, <1>4, SeesOncePutInFlight
  <2> QED
    BY <1>2, <1>6, <2>1 DEF d
<1> QED
  BY <1>5, <1>6

\* Taking in the acknowledgement leaves it to see just that as well.
LEMMA SeesOnceAcknowledged ==
  ASSUME AppliesInOrder, NEW h, NEW c, IsConcurrencyControl(c), c.inflightOperations # <<>>,
         NEW seen, SeesOwn(h, c, seen),
         Head(c.inflightOperations).operation = h[c.contextVersion + 1].operation
  PROVE  SeesOwn(h, ProcessAcknowledgement(c), seen)
<1> DEFINE d == ProcessAcknowledgement(c)
           f == c.inflightOperations
           v == c.contextVersion
           n == Len(f)
<1>1. /\ d.contextVersion = v + 1 /\ d.inflightOperations = Tail(f)
      /\ d.pendingCompoundOperation = c.pendingCompoundOperation
      /\ d.unappliedOperations = c.unappliedOperations
      /\ d.compoundOpInProgress = c.compoundOpInProgress
  BY DEF ProcessAcknowledgement, IsConcurrencyControl
<1>2. /\ n \in Nat /\ n >= 1 /\ Len(Tail(f)) = n - 1 /\ Head(f) = f[1]
      /\ \A i \in 1 .. n - 1 : Tail(f)[i] = f[i + 1]
      /\ v \in Nat
  BY TailOfSequence, SequenceIsFunction DEF IsConcurrencyControl
<1>3. PICK p : /\ p[0] = DataAt(h, v)
               /\ \A i \in 1 .. n : Leads(p[i - 1], f[i].operation, p[i])
               /\ Leads(p[n], c.pendingCompoundOperation, seen)
  BY DEF SeesOwn, Sees
<1>4. h[v + 1].operation = f[1].operation
  BY <1>2
<1> HIDE DEF d, f, v, n
<1>5. p[1] = DataAt(h, v + 1)
  <2>1. 1 \in 1 .. n /\ 1 - 1 = 0
    BY <1>2
  <2>2. Leads(p[0], f[1].operation, p[1])
    BY <1>3, <2>1
  <2>3. p[1] = Apply(p[0], f[1].operation)
    BY <2>2, LeadsWhereApplied
  <2> QED
    BY <1>2, <1>3, <1>4, <2>3, DataNext
<1> DEFINE r == [i \in 0 .. n - 1 |-> p[i + 1]]
<1>6. /\ r[0] = p[1] /\ r[n - 1] = p[n]
      /\ \A i \in 1 .. n - 1 : r[i] = p[i + 1] /\ r[i - 1] = p[i]
  BY <1>2
<1> HIDE DEF r
<1>7. ASSUME NEW i \in 1 .. n - 1 PROVE Leads(r[i - 1], Tail(f)[i].operation, r[i])
  <2> DEFINE j == i + 1
  <2>1. j \in 1 .. n /\ j - 1 = i /\ Tail(f)[i] = f[j] /\ r[i] = p[j] /\ r[i - 1] = p[i]
    BY <1>2, <1>6
  <2> HIDE DEF j
  <2> QED
    BY <1>3, <2>1
<1>8. Sees(h, d, seen)
  BY <1>1, <1>2, <1>3, <1>5, <1>6, <1>7 DEF Sees
<1> QED
  BY <1>1, <1>8 DEF SeesOwn, Settled, d

\* What passes no operation of the session leaves none.
LEMMA NothingIsPassed ==
  ASSUME NEW operation, IsSequence(operation)
  PROVE  TransformOperations(operation, <<>>).clientOp = <<>>
<1> DEFINE n == Len(operation)
<1>1. n \in Nat /\ n = Len(operation)
  BY SequenceIsFunction
<1>2. ASSUME NEW op PROVE TransformClientCompoundOperation(op, <<>>).clientOp = <<>>
  <2>1. Len(<<>>) = 0 /\ 0 \in Nat
    OBVIOUS
  <2>2. PICK pair : ClientPairs(pair, op, <<>>, 0)
    BY <2>1, ClientCompoundPairs
  <2> QED
    BY <2>2 DEF ClientPairs, OperationPair
<1> HIDE DEF n
<1>3. PICK pair : ServerPairs(pair, operation, <<>>, n)
  BY <1>1, OperationsPairs
<1> DEFINE T == {i \in 0 .. n : pair[i].clientOp = <<>>}
<1>4. 0 \in T
  BY <1>1, <1>3 DEF ServerPairs, OperationPair
<1>5. ASSUME NEW i \in 0 .. n - 1, i \in T PROVE i + 1 \in T
  <2> DEFINE j == i + 1
  <2>1. j \in 1 .. n /\ j \in 0 .. n /\ j - 1 = i
    BY <1>1
  <2> HIDE DEF j
  <2>2. pair[j] = PassedByDiscrete(pair[i], operation[j])
    BY <1>3, <2>1 DEF ServerPairs
  <2>3. pair[j].clientOp = TransformClientCompoundOperation(operation[j], pair[i].clientOp).clientOp
    BY <2>2 DEF PassedByDiscrete, OperationPair
  <2> QED
    BY <1>2, <1>5, <2>1, <2>3 DEF j
<1>6. n \in T
  <2> HIDE DEF T
  <2>1. 0 \in Nat /\ 0 <= n /\ \A i \in 0 .. n - 1 : i \in T => i + 1 \in T
    BY <1>1, <1>5
  <2>2. 0 .. n \subseteq T
    BY <1>1, <1>4, <2>1, UpTo
  <2> QED
    BY <1>1, <2>2
<1> QED
  BY <1>3, <1>6 DEF ServerPairs

\* Each operation in flight makes the document before it the one after it,
InflightLead(p, f) == \A i \in 1 .. Len(f) : Leads(p[i - 1], f[i].operation, p[i])

\* as do the operations they become, the pairs tell, from the document e on.
PairsLead(p, pair, n, e) ==
  \E g : /\ g[0] = e /\ Leads(p[n], pair[n].serverOp, g[n])
         /\ \A i \in 1 .. n : Leads(g[i - 1], pair[i].clientOp, g[i])

\* The operations in flight, which a remote operation passes, and what it has become then.
LEMMA InflightPass ==
  ASSUME OperationsConverge, NEW f, IsSequence(f), NEW p, InflightLead(p, f),
         NEW operation, NEW e, Leads(p[0], operation, e)
  PROVE  PairsLead(p, PassInflight(f, operation), Len(f), e)
<1> DEFINE n == Len(f)
           pair == PassInflight(f, operation)
<1>1. n \in Nat /\ n = Len(f)
  BY SequenceIsFunction
<1> HIDE DEF n, pair
<1>2. /\ pair[0] = OperationPair(operation, <<>>)
      /\ \A i \in 1 .. n : pair[i] = TransformOperations(pair[i - 1].serverOp, f[i].operation)
  BY <1>1, PassInflightPairs DEF pair
<1> DEFINE ops == [i \in 1 .. n |-> f[i].operation]
           over == [i \in 0 .. n |-> pair[i].serverOp]
           next == [i \in 1 .. n |-> pair[i].clientOp]
<1>3. /\ over[0] = operation /\ 0 + 1 = 1 /\ 0 <= n /\ 0 \in Nat
      /\ over[n] = pair[n].serverOp
      /\ \A i \in 1 .. n : /\ ops[i] = f[i].operation /\ next[i] = pair[i].clientOp
                           /\ over[i] = pair[i].serverOp
                           /\ over[i - 1] = pair[i - 1].serverOp
  BY <1>1, <1>2 DEF OperationPair
<1> HIDE DEF ops, over, next
<1>4. Walks(p, ops, 0, n)
  BY <1>1, <1>3 DEF Walks, InflightLead
<1>5. PassesRow(over, ops, next, 0, n)
  BY <1>2, <1>3 DEF PassesRow
<1>6. PICK g : g[0] = e /\ Walks(g, next, 0, n) /\ Leads(p[n], over[n], g[n])
  <2>1. Leads(p[0], over[0], e) /\ 0 \in Nat /\ 0 <= n
    BY <1>3
  <2> HIDE <1>3
  <2> QED
    BY <1>1, <1>4, <1>5, <2>1, RowPasses
<1>7. \A i \in 1 .. n : Leads(g[i - 1], pair[i].clientOp, g[i])
  BY <1>3, <1>6 DEF Walks
<1> QED
  BY <1>1, <1>3, <1>6, <1>7 DEF pair, PairsLead

\* What a remote operation is applied as changes the document seen as it should.
LEMMA SeesOnceTaken ==
  ASSUME OperationsConverge, AppliesInOrder, NEW h, NEW c, IsConcurrencyControl(c),
         NEW seen, SeesOwn(h, c, seen), NEW a, NEW operation,
         Leads(DataAt(h, c.contextVersion), operation, DataAt(h, c.contextVersion + 1))
  PROVE  LET event == ServerOperationEvent(a, c.contextVersion, operation)
             processed == ProcessRemoteOperation(c, event)
         IN  SeesOwn(h, TakeNextIncomingOperation(processed),
                     Apply(seen, NextIncomingOperation(processed).operation))
<1> DEFINE v == c.contextVersion
           event == ServerOperationEvent(a, v, operation)
           processed == ProcessRemoteOperation(c, event)
           d == TakeNextIncomingOperation(processed)
           f == c.inflightOperations
           n == Len(f)
           pair == PassInflight(f, operation)
           pending == c.pendingCompoundOperation
           overPending == TransformOperations(pair[n].serverOp, pending)
           applied == [event EXCEPT !.operation = overPending.serverOp]
           inflight == TransformInflightOperations(f, event).inflight
<1>1. /\ event.version = v /\ event.operation = operation
      /\ applied.operation = overPending.serverOp
  BY DEF ServerOperationEvent
<1>2. /\ n \in Nat /\ DOMAIN f = 1 .. n /\ IsSequence(f) /\ v \in Nat
      /\ \A i \in 1 .. n : DOMAIN f[i] = {"sessionId", "seqNo", "contextVersion", "operation"}
  BY SequenceIsFunction DEF IsConcurrencyControl, IsClientOperationEvent
<1>3. /\ inflight = [i \in 1 .. n |-> [f[i] EXCEPT !.contextVersion = v + 1,
                                                   !.operation = pair[i].clientOp]]
      /\ TransformInflightOperations(f, event).operation = pair[n].serverOp
  BY <1>1, <1>2 DEF TransformInflightOperations
<1>4. Len(inflight) = n /\ \A i \in 1 .. n : inflight[i].operation = pair[i].clientOp
  <2>1. \A i \in 1 .. n : inflight[i].operation = pair[i].clientOp
    BY <1>2, <1>3, ZenonT(30)
  <2>2. inflight = [i \in 1 .. n |-> inflight[i]]
    BY <1>3
  <2> HIDE DEF inflight
  <2> QED
    BY <1>2, <2>1, <2>2, FunctionIsSequence
<1> HIDE DEF inflight, pair
<1>5. c.unappliedOperations = <<>>
  BY DEF SeesOwn, Settled
<1>6. processed = AfterPassing(c, event, inflight, overPending)
  BY <1>3 DEF ProcessRemoteOperation, inflight
<1> HIDE DEF overPending, event
<1>7. processed.unappliedOperations = <<applied>>
  BY <1>5, <1>6 DEF AfterPassing, IsConcurrencyControl
<1>8. /\ d.inflightOperations = inflight /\ d.contextVersion = v + 1
      /\ d.pendingCompoundOperation = overPending.clientOp
      /\ d.compoundOpInProgress = c.compoundOpInProgress
      /\ d.unappliedOperations = <<>>
  BY <1>5, <1>6 DEF AfterPassing, TakeNextIncomingOperation, IsConcurrencyControl
<1>9. NextIncomingOperation(processed) = applied
  BY <1>7 DEF NextIncomingOperation
<1> HIDE DEF processed, d, applied, f, n, v
<1>10. PICK p : /\ p[0] = DataAt(h, v)
                /\ \A i \in 1 .. n : Leads(p[i - 1], f[i].operation, p[i])
                /\ Leads(p[n], pending, seen)
  BY DEF SeesOwn, Sees, f, n, v
<1>11. PICK g : /\ g[0] = DataAt(h, v + 1) /\ Leads(p[n], pair[n].serverOp, g[n])
                /\ \A i \in 1 .. n : Leads(g[i - 1], pair[i].clientOp, g[i])
  <2> DEFINE e == DataAt(h, v + 1)
  <2>1. Leads(p[0], operation, e)
    BY <1>10 DEF v
  <2>2. InflightLead(p, f)
    BY <1>10 DEF n, InflightLead
  <2> HIDE DEF e
  <2>3. PairsLead(p, PassInflight(f, operation), Len(f), e)
    BY <1>2, <2>1, <2>2, InflightPass
  <2> QED
    BY <2>3 DEF e, n, pair, PairsLead
<1>12. PICK now : Leads(g[n], overPending.clientOp, now) /\ Leads(seen, overPending.serverOp, now)
  BY <1>10, <1>11, OperationsPass DEF overPending
<1>13. now = Apply(seen, applied.operation)
  BY <1>1, <1>12, LeadsWhereApplied
<1>14. Sees(h, d, now)
  BY <1>4, <1>8, <1>11, <1>12 DEF Sees
<1>15. Settled(d)
  <2>1. c.compoundOpInProgress \/ pending = <<>>
    BY DEF SeesOwn, Settled
  <2>2. IsSequence(pair[n].serverOp)
    BY <1>11 DEF Leads
  <2>3. pending = <<>> => overPending.clientOp = <<>>
    BY <2>2, NothingIsPassed DEF overPending
  <2> QED
    BY <1>8, <2>1, <2>3 DEF Settled
<1>16. SeesOwn(h, d, Apply(seen, applied.operation))
  BY <1>13, <1>14, <1>15 DEF SeesOwn
<1> QED
  BY <1>9, <1>16 DEF d, processed, event, v

----------------------------------------------------------------------------
(* What the server receives                                                *)

\* The operations of a session that the server had not received at version u, as of that
\* version, lead from its data to one document after the other.
RowLeads(hist, u, base, own, last) ==
  \E f : f[base[u]] = DataAt(hist, u) /\ Walks(f, own[u], base[u], last)

\* So do those in flight at the session, at its context version,
LEMMA RowOfInflight ==
  ASSUME NEW s, NEW hist, Len(hist) \in Nat, NEW c, NEW q, NEW m, NEW b,
         SessionOK(c, q, m, Len(hist)), NEW own, NEW other, NEW base, NEW context,
         LaidOut(s, hist, c, q, b, own, other, base, context), NEW seen, Sees(hist, c, seen)
  PROVE  RowLeads(hist, c.contextVersion, base, own, c.lastSequenceNumber)
<1> DEFINE v == c.contextVersion
           last == c.lastSequenceNumber
           k == Acked(c)
           n == Len(c.inflightOperations)
<1>1. /\ k \in Nat /\ n \in Nat /\ last \in Nat /\ k + n = last /\ last - k = n
  BY SessionCounts
<1>2. base[v] = k /\ \A i \in 1 .. n : c.inflightOperations[i].operation = own[v][k + i]
  BY DEF LaidOut, CountsOwn, HoldsOwn
<1>3. PICK p : /\ p[0] = DataAt(hist, v)
               /\ \A i \in 1 .. n : Leads(p[i - 1], c.inflightOperations[i].operation, p[i])
  BY DEF Sees
<1> HIDE DEF v, last, k, n
<1> DEFINE f == [j \in k .. last |-> p[j - k]]
<1>4. \A j \in k .. last : f[j] = p[j - k]
  OBVIOUS
<1>5. f[k] = DataAt(hist, v)
  BY <1>1, <1>3, <1>4
<1> HIDE DEF f
<1>6. ASSUME NEW j \in k + 1 .. last PROVE Leads(f[j - 1], own[v][j], f[j])
  <2> DEFINE i == j - k
  <2>1. i \in 1 .. n /\ k + i = j /\ (j - 1) - k = i - 1 /\ j \in k .. last /\ j - 1 \in k .. last
    BY <1>1
  <2>2. f[j] = p[j - k] /\ f[j - 1] = p[(j - 1) - k]
    BY <1>4, <2>1
  <2>3. f[j] = p[i] /\ f[j - 1] = p[i - 1]
    BY <2>1, <2>2
  <2> HIDE DEF i
  <2>4. Leads(p[i - 1], own[v][k + i], p[i])
    BY <1>2, <1>3, <2>1
  <2> QED
    BY <2>1, <2>3, <2>4
<1>7. Walks(f, own[v], k, last)
  BY <1>6 DEF Walks
<1> QED
  BY <1>2, <1>5, <1>7 DEF RowLeads, v, last

\* and from one version on to the next, whether it takes an operation of the session
LEMMA RowAfterOwn ==
  ASSUME AppliesInOrder, NEW s, NEW hist, NEW last \in Nat,
         NEW own, NEW other, NEW base, NEW context,
         Grid(s, hist, last, own, other, base, context),
         NEW u \in Past(hist), u \in Nat, IsOwn(s, hist, u), base[u] \in Nat,
         base[u + 1] = base[u] + 1, base[u] + 1 <= last,
         \A j \in 1 .. last : context[j] <= u, RowLeads(hist, u, base, own, last)
  PROVE  RowLeads(hist, u + 1, base, own, last)
<1> DEFINE k == base[u]
           j == k + 1
<1>1. /\ hist[u + 1].operation = own[u][j]
      /\ \A i \in k + 2 .. last : context[i] <= u => own[u + 1][i] = own[u][i]
  BY DEF Grid
<1>2. PICK f : f[k] = DataAt(hist, u) /\ Walks(f, own[u], k, last)
  BY DEF RowLeads
<1>3. j \in Nat /\ j - 1 = k /\ j \in k + 1 .. last
  OBVIOUS
<1>4. \A i \in j + 1 .. last : i \in k + 2 .. last /\ i \in k + 1 .. last /\ i \in 1 .. last
  OBVIOUS
<1>5. base[u + 1] = j
  OBVIOUS
<1> HIDE DEF j, k
<1>6. Leads(f[k], own[u][j], f[j])
  BY <1>2, <1>3 DEF Walks
<1>7. f[j] = DataAt(hist, u + 1)
  BY <1>1, <1>2, <1>6, LeadsWhereApplied, DataNext
<1>8. \A i \in j + 1 .. last : own[u + 1][i] = own[u][i]
  BY <1>1, <1>4
<1>9. Walks(f, own[u + 1], j, last)
  BY <1>2, <1>4, <1>8 DEF Walks
<1> QED
  BY <1>5, <1>7, <1>9 DEF RowLeads

\* or one of another session, which they pass.
LEMMA RowAfterOther ==
  ASSUME OperationsConverge, NEW s, NEW hist, NEW last \in Nat,
         NEW own, NEW other, NEW base, NEW context,
         Grid(s, hist, last, own, other, base, context),
         NEW u \in Past(hist), ~IsOwn(s, hist, u), base[u] \in Nat,
         base[u + 1] = base[u], base[u] <= last,
         \A j \in 1 .. last : context[j] <= u, RowLeads(hist, u, base, own, last),
         Leads(DataAt(hist, u), hist[u + 1].operation, DataAt(hist, u + 1))
  PROVE  RowLeads(hist, u + 1, base, own, last)
<1> DEFINE k == base[u]
<1>1. /\ hist[u + 1].operation = other[u][k]
      /\ \A j \in k + 1 .. last : context[j] <= u =>
           /\ other[u][j] = TransformOperations(other[u][j - 1], own[u][j]).serverOp
           /\ own[u + 1][j] = TransformOperations(other[u][j - 1], own[u][j]).clientOp
  BY DEF Grid
<1>2. PICK f : f[k] = DataAt(hist, u) /\ Walks(f, own[u], k, last)
  BY DEF RowLeads
<1>3. \A j \in k + 1 .. last : context[j] <= u
  OBVIOUS
<1>4. k \in Nat /\ k <= last /\ base[u + 1] = k
  OBVIOUS
<1> HIDE DEF k
<1>5. PassesRow(other[u], own[u], own[u + 1], k, last)
  BY <1>1, <1>3 DEF PassesRow
<1>6. Leads(f[k], other[u][k], DataAt(hist, u + 1))
  BY <1>1, <1>2
<1>7. PICK g : g[k] = DataAt(hist, u + 1) /\ Walks(g, own[u + 1], k, last)
  <2> DEFINE e == DataAt(hist, u + 1)
             ops == own[u]
             over == other[u]
             next == own[u + 1]
  <2>1. Walks(f, ops, k, last) /\ PassesRow(over, ops, next, k, last) /\ Leads(f[k], over[k], e)
    BY <1>2, <1>5, <1>6
  <2> HIDE DEF e, ops, over, next
  <2>2. \E g : g[k] = e /\ Walks(g, next, k, last) /\ Leads(f[last], over[last], g[last])
    BY <1>4, <2>1, RowPasses
  <2> QED
    BY <2>2 DEF e, next
<1> QED
  BY <1>4, <1>7 DEF RowLeads

\* So it is at every version the session has not seen, as far as operations are logged
\* of the document at theirs.
LEMMA RowsLead ==
  ASSUME OperationsConverge, AppliesInOrder,
         NEW s, NEW hist, Len(hist) \in Nat, NEW c, NEW q, NEW m, NEW b,
         SessionOK(c, q, m, Len(hist)), NEW own, NEW other, NEW base, NEW context,
         LaidOut(s, hist, c, q, b, own, other, base, context), NEW seen, Sees(hist, c, seen),
         NEW n \in Nat, c.contextVersion <= n, n <= Len(hist), Logged(hist, n)
  PROVE  RowLeads(hist, n, base, own, c.lastSequenceNumber)
<1> DEFINE v == c.contextVersion
           last == c.lastSequenceNumber
           T == {u \in v .. n : RowLeads(hist, u, base, own, last)}
<1>1. v \in Nat /\ last \in Nat /\ Received(c, q) \in 0 .. last
  BY SessionCounts
<1>2. v \in T
  BY <1>1, RowOfInflight
<1>3. ASSUME NEW u \in v .. n - 1, u \in T PROVE u + 1 \in T
  <2>1. u \in Nat /\ u \in 0 .. n - 1 /\ u + 1 \in v .. n /\ u \in 0 .. Len(hist)
        /\ u + 1 \in 0 .. Len(hist) /\ u \in Past(hist)
    BY <1>1 DEF Past
  <2>2. /\ base[u] \in 0 .. Received(c, q) /\ base[u + 1] \in 0 .. Received(c, q)
        /\ base[u + 1] = IF IsOwn(s, hist, u) THEN base[u] + 1 ELSE base[u]
    BY <2>1 DEF LaidOut, CountsOwn
  <2>3. base[u] \in Nat /\ base[u] <= last /\ base[u + 1] <= last
    BY <1>1, <2>2
  <2>4. ASSUME NEW j \in 1 .. last PROVE context[j] <= u
    <3>1. context[j] \in 0 .. v
      BY DEF LaidOut, IssuedInTurn
    <3> QED
      BY <1>1, <3>1
  <2>5. Grid(s, hist, last, own, other, base, context)
    BY DEF LaidOut
  <2>6. RowLeads(hist, u, base, own, last)
    BY <1>3
  <2>7. Leads(DataAt(hist, u), hist[u + 1].operation, DataAt(hist, u + 1))
    BY <2>1 DEF Logged
  <2> HIDE DEF last, v, T
  <2>8. CASE IsOwn(s, hist, u)
    <3>1. base[u + 1] = base[u] + 1 /\ base[u] + 1 <= last
      BY <2>2, <2>3, <2>8
    <3>2. RowLeads(hist, u + 1, base, own, last)
      BY <1>1, <2>1, <2>3, <2>4, <2>5, <2>6, <2>8, <3>1, RowAfterOwn
    <3> QED
      BY <2>1, <3>2 DEF T
  <2>9. CASE ~IsOwn(s, hist, u)
    <3>1. base[u + 1] = base[u]
      BY <2>2, <2>9
    <3>2. RowLeads(hist, u + 1, base, own, last)
      BY <1>1, <2>1, <2>3, <2>4, <2>5, <2>6, <2>7, <2>9, <3>1, RowAfterOther
    <3> QED
      BY <2>1, <3>2 DEF T
  <2> QED
    BY <2>8, <2>9
<1>4. v <= n
  OBVIOUS
<1> HIDE DEF T, v
<1>5. v .. n \subseteq T
  BY <1>1, <1>2, <1>3, <1>4, UpTo
<1> QED
  BY <1>1, <1>4, <1>5 DEF T

----------------------------------------------------------------------------
(* Steps                                                                   *)

\* What is true of a session as long as no edit is made from within an event.
LEMMA ConvergentSession ==
  ASSUME CInv, reentrantEdits = 0, NEW s \in Session
  PROVE  /\ ~misordered[s] /\ SeesOwn(log, cc[s], data[s]) /\ data[s] \in Document
         /\ Logged(log, Len(log)) /\ Len(log) \in Nat /\ IsSequence(log)
         /\ IsConcurrencyControl(cc[s]) /\ cc[s].contextVersion \in 0 .. Len(log)
         /\ SessionOK(cc[s], toServer[s], toClient[s], Len(log))
<1>1. ~misordered[s] /\ SeesOwn(log, cc[s], data[s]) /\ Logged(log, Len(log))
  BY DEF CInv, Convergent
<1>2. /\ IsSequence(log) /\ Len(log) \in Nat /\ IsConcurrencyControl(cc[s])
      /\ SessionOK(cc[s], toServer[s], toClient[s], Len(log))
  BY <1>1, OrderlyAgrees DEF CInv
<1>3. cc[s].contextVersion \in 0 .. Len(log)
  BY <1>2, SessionCounts
<1>4. data[s] \in Document
  BY <1>1 DEF SeesOwn, Sees, Leads
<1> QED
  BY <1>1, <1>2, <1>3, <1>4

\* A step of one session, after which it sees what it should.
LEMMA ConvergentAfterSessionStep ==
  ASSUME CInv, NEW s \in Session, NEW d, NEW x, cc' = [cc EXCEPT ![s] = d],
         data' = [data EXCEPT ![s] = x], UNCHANGED <<log, misordered, reentrantEdits>>,
         reentrantEdits = 0 => SeesOwn(log, d, x)
  PROVE  Convergent'
<1> SUFFICES ASSUME reentrantEdits = 0
             PROVE  /\ Logged(log, Len(log))
                    /\ \A t \in Session : ~misordered[t] /\ SeesOwn(log, cc'[t], data'[t])
  BY DEF Convergent
<1>1. Logged(log, Len(log)) /\ \A t \in Session : ~misordered[t] /\ SeesOwn(log, cc[t], data[t])
  BY DEF CInv, Convergent
<1>2. cc = [t \in Session |-> cc[t]] /\ data = [t \in Session |-> data[t]]
  BY DEF CInv, AInv, RInv, IInv, TypeOK
<1>3. /\ cc'[s] = d /\ data'[s] = x
      /\ \A t \in Session \ {s} : cc'[t] = cc[t] /\ data'[t] = data[t]
  BY <1>2
<1> QED
  BY <1>1, <1>3

\* An edit is one of the document the session sees.
LEMMA LocalOperationConverges ==
  ASSUME Converging, CInv, NEW s \in Session, LocalOperation(s)
  PROVE  Convergent'
<1>1. PICK op \in LocalOperations(s, data[s]) :
        /\ data' = [data EXCEPT ![s] = Apply(@, <<op>>)]
        /\ BecomesAndSends(s, cc[s], ProcessOutgoingOperation(cc[s], s, op))
  BY DEF LocalOperation
<1> DEFINE d == ProcessOutgoingOperation(cc[s], s, op)
           x == Apply(data[s], <<op>>)
<1>2. /\ cc' = [cc EXCEPT ![s] = d] /\ UNCHANGED <<log, misordered, reentrantEdits>>
      /\ data' = [data EXCEPT ![s] = x]
  BY <1>1 DEF BecomesAndSends, LocalOperation
<1>3. ASSUME reentrantEdits = 0 PROVE SeesOwn(log, d, x)
  <2>1. /\ SeesOwn(log, cc[s], data[s]) /\ IsConcurrencyControl(cc[s]) /\ data[s] \in Document
    BY <1>3, ConvergentSession
  <2>2. Edits(data[s], op, x)
    BY <1>1, <2>1 DEF Converging, IssuesAccepted
  <2> HIDE DEF x
  <2> QED
    BY <2>1, <2>2, SeesOnceIssued
<1> HIDE DEF d, x
<1> QED
  BY <1>2, <1>3, ConvergentAfterSessionStep

\* Completing a batch puts in flight what is seen already,
LEMMA CompleteBatchConverges ==
  ASSUME CInv, NEW s \in Session, CompleteBatch(s)
  PROVE  Convergent'
<1> DEFINE d == CompleteBatchOperation(cc[s], s)
           x == data[s]
<1>1. /\ cc' = [cc EXCEPT ![s] = d] /\ UNCHANGED <<log, misordered, reentrantEdits>>
      /\ data' = [data EXCEPT ![s] = x]
  <2>1. data = [data EXCEPT ![s] = data[s]]
    BY UpdateSame DEF CInv, AInv, RInv
  <2> QED
    BY <2>1 DEF CompleteBatch, BecomesAndSends
<1>2. ASSUME reentrantEdits = 0 PROVE SeesOwn(log, d, x)
  BY <1>2, ConvergentSession, SeesOnceCompleted
<1> HIDE DEF d, x
<1> QED
  BY <1>1, <1>2, ConvergentAfterSessionStep

\* starting or cancelling one nothing.
LEMMA BatchFlagConverges ==
  ASSUME CInv, NEW s \in Session, StartBatch(s) \/ CancelBatch(s)
  PROVE  Convergent'
<1> DEFINE c == cc[s]
           x == data[s]
<1>1. PICK d : /\ cc' = [cc EXCEPT ![s] = d]
               /\ \/ ~c.compoundOpInProgress /\ d = StartBatchOperation(c)
                  \/ CanCancelBatch(c) /\ d = CancelBatchOperation(c)
  BY DEF StartBatch, CancelBatch
<1>2. UNCHANGED <<log, misordered, reentrantEdits>> /\ data' = [data EXCEPT ![s] = x]
  <2>1. data = [data EXCEPT ![s] = data[s]]
    BY UpdateSame DEF CInv, AInv, RInv
  <2> QED
    BY <2>1 DEF StartBatch, CancelBatch
<1>3. ASSUME reentrantEdits = 0 PROVE SeesOwn(log, d, x)
  <2>1. SeesOwn(log, c, x) /\ IsConcurrencyControl(c)
    BY <1>3, ConvergentSession
  <2>2. /\ d.contextVersion = c.contextVersion /\ d.unappliedOperations = c.unappliedOperations
        /\ d.inflightOperations = c.inflightOperations
        /\ c.pendingCompoundOperation = <<>> /\ d.pendingCompoundOperation = <<>>
    BY <1>1, <2>1 DEF StartBatchOperation, CanCancelBatch, CancelBatchOperation,
                      IsConcurrencyControl, SeesOwn, Settled
  <2> QED
    BY <2>1, <2>2 DEF SeesOwn, Settled, Sees
<1> HIDE DEF x
<1> QED
  BY <1>1, <1>2, <1>3, ConvergentAfterSessionStep

\* An acknowledgement is of what is in flight first, as it is in flight.
LEMMA HandleOperationAckConverges ==
  ASSUME Converging, CInv, NEW s \in Session, HandleOperationAck(s)
  PROVE  Convergent'
<1> DEFINE c == cc[s]
           m == toClient[s]
           ack == Head(m)
           d == ProcessAcknowledgement(c)
           x == data[s]
<1>1. m # <<>> /\ IsAck(ack) /\ ack.type = "operationAck"
  BY DEF HandleOperationAck, Incoming, TakeMessage, IsAck
<1>2. UNCHANGED <<log, misordered, reentrantEdits>> /\ data' = [data EXCEPT ![s] = x]
  <2>1. data = [data EXCEPT ![s] = data[s]]
    BY UpdateSame DEF CInv, AInv, RInv
  <2> QED
    BY <2>1 DEF HandleOperationAck, Incoming, CloseWithError
<1>3. CASE reentrantEdits = 0
  <2>1. /\ SeesOwn(log, c, x) /\ IsConcurrencyControl(c) /\ ~misordered[s]
        /\ SessionOK(c, toServer[s], m, Len(log))
    BY <1>3, ConvergentSession
  <2>2. AcknowledgementAccepted(c, ack.version, ack.sequenceNumber)
    BY <1>1, <2>1, AcknowledgementIsExpected
  <2>3. c.inflightOperations # <<>> /\ cc' = [cc EXCEPT ![s] = d]
    BY <2>2 DEF HandleOperationAck, AcknowledgementAccepted
  <2>4. Head(c.inflightOperations).operation = log[c.contextVersion + 1].operation
    <3>1. AcknowledgedAsLogged
      BY AgreementTells DEF CInv
    <3> QED
      BY <1>1, <2>1, <3>1 DEF AcknowledgedAsLogged
  <2>5. SeesOwn(log, d, x)
    BY <2>1, <2>3, <2>4, SeesOnceAcknowledged DEF Converging
  <2> HIDE DEF d, x
  <2> QED
    BY <1>2, <2>3, <2>5, ConvergentAfterSessionStep
<1>4. CASE reentrantEdits # 0
  BY <1>2, <1>4 DEF Convergent
<1> QED
  BY <1>3, <1>4

\* A remote operation is the one the server has logged.
LEMMA HandleRemoteOperationConverges ==
  ASSUME Converging, CInv, NEW s \in Session, HandleRemoteOperation(s)
  PROVE  Convergent'
<1> DEFINE c == cc[s]
           v == c.contextVersion
           m == toClient[s]
           operation == Head(m).operation
           event == ServerOperationEvent(Head(m).sessionId, v, operation)
           processed == ProcessRemoteOperation(c, event)
           d == TakeNextIncomingOperation(processed)
           x == Apply(data[s], NextIncomingOperation(processed).operation)
<1>1. /\ Incoming(s, "remoteOperation") /\ m # <<>> /\ ~IsAck(Head(m))
      /\ log' = log /\ misordered' = misordered /\ reentrantEdits' = reentrantEdits
  BY DEF HandleRemoteOperation, Incoming, TakeMessage, IsAck, CloseWithError
<1>2. CASE reentrantEdits = 0
  <2>1. /\ SeesOwn(log, c, data[s]) /\ IsConcurrencyControl(c) /\ ~misordered[s]
        /\ SessionOK(c, toServer[s], m, Len(log)) /\ Logged(log, Len(log)) /\ Len(log) \in Nat
    BY <1>2, ConvergentSession
  <2>2. RemoteOperationAccepted(c, Remote(s))
    BY <1>1, <2>1, AgreesOnceTaken DEF CInv
  <2>3. Remote(s) = event
    BY <2>2 DEF RemoteOperationAccepted, Remote, ServerOperationEvent
  <2>4. cc' = [cc EXCEPT ![s] = d] /\ data' = [data EXCEPT ![s] = x]
    BY <2>2, <2>3 DEF HandleRemoteOperation
  <2>5. /\ v \in 0 .. Len(log) - 1 /\ 1 \in 1 .. Len(m) /\ Head(m) = m[1]
    <3>1. v \in 0 .. Len(log) /\ v + 1 \in 0 .. Len(log) /\ Len(m) >= 1
      BY <1>1, <2>1, SessionCounts
    <3>2. Head(m) = m[1] /\ Len(m) \in Nat
      BY <1>1, <2>1, TailOfSequence, SequenceIsFunction DEF SessionOK, InStep
    <3> QED
      BY <2>1, <3>1, <3>2
  <2>6. operation = log[v + 1].operation
    <3>1. Conveys(log, c, m)
      BY <2>1, OrderlyAgrees DEF CInv, Agreeing, Agrees
    <3> QED
      BY <1>1, <2>5, <3>1 DEF Conveys
  <2>7. Leads(DataAt(log, v), operation, DataAt(log, v + 1))
    BY <2>1, <2>5, <2>6 DEF Logged
  <2>8. SeesOwn(log, d, x)
    BY <2>1, <2>7, SeesOnceTaken DEF Converging
  <2> HIDE DEF d, x
  <2> QED
    BY <1>1, <2>4, <2>8, ConvergentAfterSessionStep
<1>3. CASE reentrantEdits # 0
  BY <1>1, <1>3 DEF Convergent
<1> QED
  BY <1>2, <1>3

\* What the server logs is an operation of the document it has then: it stands in the grid
\* among those the session had issued.
LEMMA ServerReceivesConverges ==
  ASSUME Converging, CInv, NEW s \in Session, ServerReceives(s), AInv'
  PROVE  Convergent'
<1> DEFINE n == Len(log)
           c == cc[s]
           q == toServer[s]
           m == toClient[s]
           passed == TransformOutgoing(NotSeenAt(bridge[s], Head(q).contextVersion),
                                       Head(q).operation)
           entry == [sessionId |-> s, seqNo |-> Head(q).sequenceNumber,
                     operation |-> passed.operation]
           x == Acknowledgement(n, Head(q).sequenceNumber)
<1>1. /\ q # <<>> /\ toServer' = [toServer EXCEPT ![s] = Tail(q)]
      /\ log' = Append(log, entry) /\ toClient'[s] = Append(m, x)
      /\ cc' = cc /\ misordered' = misordered /\ data' = data /\ reentrantEdits' = reentrantEdits
  BY DEF ServerReceives, TakeSubmission
<1>2. toServer'[s] = Tail(q) /\ entry.sessionId = s
  BY <1>1 DEF CInv, AInv, RInv, IInv, TypeOK
<1> HIDE DEF passed, entry
<1> SUFFICES ASSUME reentrantEdits = 0
             PROVE  /\ Logged(log', Len(log'))
                    /\ \A t \in Session : ~misordered[t] /\ SeesOwn(log', cc[t], data[t])
  BY <1>1 DEF Convergent
<1>3. /\ IsSequence(log) /\ n \in Nat /\ Logged(log, n)
      /\ SessionOK(c, q, m, n) /\ ~misordered[s]
  BY ConvergentSession
<1>4. /\ Len(log') = n + 1 /\ IsSequence(log') /\ log'[n + 1] = entry
      /\ SameOperations(log, log', n)
  BY <1>1, <1>3, AppendToSequence DEF SameOperations
<1>5. ASSUME NEW t \in Session PROVE ~misordered[t] /\ SeesOwn(log', cc[t], data[t])
  <2>1. ~misordered[t] /\ SeesOwn(log, cc[t], data[t]) /\ cc[t].contextVersion \in 0 .. n
    BY ConvergentSession
  <2> QED
    BY <1>3, <1>4, <2>1, SeesInLonger
<1>6. Logged(log', n)
  <2>1. \A v \in 0 .. n : DataAt(log', v) = DataAt(log, v)
    BY <1>3, <1>4, DataKept
  <2>2. ASSUME NEW v \in 0 .. n - 1
        PROVE  Leads(DataAt(log', v), log'[v + 1].operation, DataAt(log', v + 1))
    <3>1. v \in 0 .. n /\ v + 1 \in 0 .. n /\ v + 1 \in 1 .. n
      BY <1>3
    <3>2. log'[v + 1].operation = log[v + 1].operation
      BY <1>4, <3>1 DEF SameOperations
    <3>3. Leads(DataAt(log, v), log[v + 1].operation, DataAt(log, v + 1))
      BY <1>3 DEF Logged
    <3> QED
      BY <2>1, <3>1, <3>2, <3>3
  <2> QED
    BY <2>2 DEF Logged
<1>7. SessionOK(c, Tail(q), Append(m, x), n + 1)
  BY <1>1, <1>3, ReceivingKeepsSessionOK
<1> HIDE DEF x
<1>8. PICK own, other, base, context :
        LaidOut(s, log', c, Tail(q), bridge'[s], own, other, base, context)
  <2>1. Agrees(s, log', cc'[s], toServer'[s], toClient'[s], bridge'[s])
    BY <1>1, <1>3 DEF AInv, Agreement, Agreeing
  <2> QED
    BY <1>1, <1>2, <2>1 DEF Agrees
<1> DEFINE last == c.lastSequenceNumber
           hist == log'
           k == base[n]
<1>9. RowLeads(hist, n, base, own, last)
  <2> DEFINE rest == Tail(q)
             after == Append(m, x)
             held == bridge'[s]
             seen == data[s]
  <2>1. /\ LaidOut(s, hist, c, rest, held, own, other, base, context)
        /\ SessionOK(c, rest, after, Len(hist)) /\ Len(hist) \in Nat
        /\ Sees(hist, c, seen) /\ Logged(hist, n)
        /\ n \in Nat /\ n <= Len(hist)
    BY <1>3, <1>4, <1>5, <1>6, <1>7, <1>8 DEF SeesOwn
  <2>2. c.contextVersion <= n
    BY <1>3, SessionCounts
  <2>3. OperationsConverge /\ AppliesInOrder
    BY DEF Converging
  <2> HIDE DEF rest, after, held, seen, hist, c, n
  <2> QED
    BY <2>1, <2>2, <2>3, RowsLead
<1>10. /\ k \in Nat /\ k + 1 = base[n + 1] /\ k + 1 <= last /\ last \in Nat
       /\ entry.operation = own[n][k + 1]
  <2>1. n \in Past(hist) /\ n \in 0 .. Len(hist) /\ n + 1 \in 0 .. Len(hist)
    BY <1>3, <1>4 DEF Past
  <2>2. IsOwn(s, hist, n)
    BY <1>2, <1>4 DEF IsOwn
  <2>3. /\ base[n] \in 0 .. Received(c, Tail(q)) /\ base[n + 1] \in 0 .. Received(c, Tail(q))
        /\ base[n + 1] = base[n] + 1 /\ hist[n + 1].operation = own[n][base[n] + 1]
    BY <1>8, <2>1, <2>2 DEF LaidOut, CountsOwn, Grid
  <2>4. Received(c, Tail(q)) \in 0 .. last /\ last \in Nat
    <3>1. n + 1 \in Nat
      BY <1>3
    <3> QED
      BY <1>7, <3>1, SessionCounts
  <2> QED
    BY <1>4, <2>3, <2>4
<1>11. Leads(DataAt(hist, n), hist[n + 1].operation, DataAt(hist, n + 1))
  <2>1. PICK f : f[k] = DataAt(hist, n) /\ Walks(f, own[n], k, last)
    BY <1>9 DEF RowLeads
  <2> DEFINE j == k + 1
  <2>2. j \in k + 1 .. last /\ j - 1 = k
    BY <1>10
  <2>3. hist[n + 1].operation = own[n][j]
    BY <1>4, <1>10
  <2> HIDE DEF j, k, hist, last, n
  <2>4. Leads(f[k], own[n][j], f[j])
    BY <2>1, <2>2 DEF Walks
  <2>5. f[j] = DataAt(hist, n + 1)
    BY <1>3, <2>1, <2>3, <2>4, LeadsWhereApplied, DataNext DEF Converging
  <2> QED
    BY <2>1, <2>3, <2>4, <2>5
<1>12. Logged(hist, n + 1)
  <2>1. ASSUME NEW v \in 0 .. (n + 1) - 1
        PROVE  Leads(DataAt(hist, v), hist[v + 1].operation, DataAt(hist, v + 1))
    <3>1. v = n \/ v \in 0 .. n - 1
      BY <1>3
    <3> QED
      BY <1>6, <1>11, <3>1 DEF Logged
  <2> QED
    BY <2>1 DEF Logged
<1> QED
  BY <1>4, <1>5, <1>12

----------------------------------------------------------------------------
(* What follows *)

\* Every session starts with the server's data.
LEMMA InitConverges == Converging /\ Init => CInv
<1> SUFFICES ASSUME Converging, Init PROVE CInv
  OBVIOUS
<1>1. AInv
  BY InitAgrees
<1>2. Logged(log, Len(log))
  <2>1. Len(log) = 0 /\ \A v \in 0 .. 0 - 1 : FALSE
    BY DEF Init
  <2> QED
    BY <2>1 DEF Logged
<1>3. ASSUME NEW s \in Session PROVE ~misordered[s] /\ SeesOwn(log, cc[s], data[s])
  <2> DEFINE c == cc[s]
             f == [i \in {0} |-> InitialData]
  <2>1. /\ c = NewConcurrencyControl(0, 0) /\ data[s] = InitialData /\ ~misordered[s]
    BY DEF Init
  <2>2. /\ c.contextVersion = 0 /\ c.inflightOperations = <<>>
        /\ c.pendingCompoundOperation = <<>> /\ c.unappliedOperations = <<>>
    BY <2>1 DEF NewConcurrencyControl
  <2>3. Len(<<>>) = 0 /\ (\A i \in 1 .. 0 : FALSE) /\ f[0] = InitialData
    OBVIOUS
  <2>4. DataAt(log, 0) = InitialData
    BY DataNext
  <2>5. Leads(InitialData, <<>>, InitialData)
    BY LeadsNowhere DEF Converging, IssuesAccepted
  <2> HIDE DEF c, f
  <2>6. Sees(log, c, InitialData)
    BY <2>2, <2>3, <2>4, <2>5 DEF Sees
  <2> QED
    BY <2>1, <2>2, <2>6 DEF SeesOwn, Settled, c
<1> QED
  BY <1>1, <1>2, <1>3 DEF CInv, Convergent

\* Every step leaves every session to see what it should.
LEMMA NextConverges == Converging /\ CInv /\ [Next]_vars => CInv'
<1> SUFFICES ASSUME Converging, CInv, [Next]_vars PROVE CInv'
  OBVIOUS
<1>1. AInv'
  BY NextAgrees DEF CInv
<1>2. ASSUME UNCHANGED vars PROVE Convergent'
  <2>1. UNCHANGED <<reentrantEdits, log, misordered, cc, data>>
    BY <1>2 DEF vars
  <2>2. Convergent
    BY DEF CInv
  <2> QED
    BY <2>1, <2>2 DEF Convergent
<1>3. ASSUME reentrantEdits' = reentrantEdits + 1 PROVE Convergent'
  BY <1>3 DEF Convergent, CInv, AInv, RInv, IInv, TypeOK
<1>4. ASSUME NEW s \in Session,
             \/ LocalOperationEditedWhenHeard(s) \/ LocalOperationEditedWhenModified(s)
             \/ HandleRemoteOperationEditedWhenHeard(s)
      PROVE  Convergent'
  BY <1>3, <1>4 DEF LocalOperationEditedWhenHeard, LocalOperationEditedWhenModified,
                    HandleRemoteOperationEditedWhenHeard
<1>5. Convergent'
  BY <1>1, <1>2, <1>4, LocalOperationConverges, BatchFlagConverges, CompleteBatchConverges,
     ServerReceivesConverges, HandleOperationAckConverges, HandleRemoteOperationConverges
     DEF Next, HandleMessage
<1> QED
  BY <1>1, <1>5 DEF CInv

\* As long as no edit is made from within an event every session sees the server's data
\* with its own outstanding edits on top, so that sessions with nothing outstanding see
\* the same thing: of any number of sessions, edits and batches, with any transformation
\* functions that converge on two discrete operations.
THEOREM SessionsSeeTheSame ==
  ASSUME Converging
  PROVE  Spec => []SeesServerDataWithOwnEdits
<1>1. CInv => SeesServerDataWithOwnEdits
  <2> SUFFICES ASSUME CInv, reentrantEdits = 0, NEW s \in Session
               PROVE  data[s] = Apply(DataAt(log, cc[s].contextVersion), Outstanding(cc[s]))
    BY DEF SeesServerDataWithOwnEdits
  <2>1. /\ Sees(log, cc[s], data[s]) /\ Logged(log, Len(log)) /\ Len(log) \in Nat
        /\ cc[s].contextVersion \in 0 .. Len(log) /\ IsSequence(cc[s].inflightOperations)
    BY ConvergentSession DEF SeesOwn, IsConcurrencyControl
  <2>2. DataAt(log, cc[s].contextVersion) \in Document
    BY <2>1, DataIsDocument DEF Converging, IssuesAccepted
  <2>3. Leads(DataAt(log, cc[s].contextVersion), Outstanding(cc[s]), data[s])
    BY <2>1, <2>2, OutstandingLeads
  <2> QED
    BY <2>3, LeadsWhereApplied DEF Converging
<1>2. Init => CInv
  BY InitConverges
<1>3. CInv /\ [Next]_vars => CInv'
  BY NextConverges
<1> QED
  BY <1>1, <1>2, <1>3, PTL DEF Spec
=============================================================================
