---------------------- MODULE ModelCollaborationAgreement ----------------------
(***************************************************************************)
(* For any number of sessions, any operations and any transformation       *)
(* functions, whatever they compute: when an operation is acknowledged,    *)
(* the operation the session holds in flight, transformed there over each  *)
(* remote operation that came, is the very operation the server has        *)
(* logged, transformed there over what the session had not seen.           *)
(*                                                                         *)
(* The two sides transform the same pairs of operations, if at different   *)
(* times and in a different order.  The proof lays these pairs out in a    *)
(* grid, a row for each version of the model and a column for each         *)
(* operation of the session, and shows that either side walks along it.    *)
(***************************************************************************)
EXTENDS ModelCollaboration_proofs

----------------------------------------------------------------------------
(* One operation passing many, and many passing one                        *)

\* What the remote operation and the operations in flight become, one after the other.
LEMMA PassInflightPairs ==
  ASSUME NEW inflight, NEW n \in Nat, n = Len(inflight), NEW operation
  PROVE  LET pair == PassInflight(inflight, operation)
         IN  /\ pair[0] = OperationPair(operation, <<>>)
             /\ \A i \in 1 .. n :
                  pair[i] = TransformOperations(pair[i - 1].serverOp, inflight[i].operation)
<1> DEFINE first == OperationPair(operation, <<>>)
           Pairs(p, k) == /\ p[0] = first
                          /\ \A i \in 1 .. k : p[i] = TransformOperations(p[i - 1].serverOp,
                                                                          inflight[i].operation)
           T == {k \in 0 .. n : \E p : Pairs(p, k)}
<1> HIDE DEF first
<1>1. 0 \in T
  <2>1. Pairs([i \in {0} |-> first], 0)
    OBVIOUS
  <2>2. 0 \in 0 .. n
    OBVIOUS
  <2> HIDE DEF Pairs
  <2> QED
    BY <2>1, <2>2
<1>2. ASSUME NEW k \in 0 .. n - 1, k \in T PROVE k + 1 \in T
  <2>1. PICK p : Pairs(p, k)
    BY <1>2
  <2> DEFINE e == TransformOperations(p[k].serverOp, inflight[k + 1].operation)
             r == [i \in 0 .. n |-> IF i = k + 1 THEN e ELSE p[i]]
  <2>2. /\ r[k + 1] = e /\ \A i \in 0 .. k : r[i] = p[i]
    OBVIOUS
  <2> HIDE DEF r
  <2>3. ASSUME NEW i \in 1 .. k + 1
        PROVE  r[i] = TransformOperations(r[i - 1].serverOp, inflight[i].operation)
    <3>1. CASE i = k + 1
      <4>1. r[i - 1] = p[k]
        BY <2>2, <3>1
      <4> QED
        BY <2>2, <3>1, <4>1
    <3>2. CASE i # k + 1
      <4>1. i \in 0 .. k /\ i - 1 \in 0 .. k /\ i \in 1 .. k
        BY <3>2
      <4> QED
        BY <2>1, <2>2, <4>1
    <3> QED
      BY <3>1, <3>2
  <2>4. Pairs(r, k + 1)
    BY <2>1, <2>2, <2>3
  <2> QED
    BY <2>4
<1>3. n \in T
  <2> HIDE DEF T
  <2>1. 0 \in Nat /\ 0 <= n /\ \A k \in 0 .. n - 1 : k \in T => k + 1 \in T
    BY <1>2
  <2>2. 0 .. n \subseteq T
    BY <1>1, <2>1, UpTo
  <2> QED
    BY <2>2
<1>4. PICK p : Pairs(p, n)
  BY <1>3
<1> DEFINE Body(f) == [i \in 0 .. n |->
             IF i = 0 THEN first
             ELSE TransformOperations(f[i - 1].serverOp, inflight[i].operation)]
           r == [i \in 0 .. n |-> p[i]]
<1>5. r = Body(r)
  <2>1. \A i \in 0 .. n : r[i] = p[i]
    OBVIOUS
  <2> HIDE DEF r
  <2>2. \A i \in 1 .. n : r[i] = TransformOperations(r[i - 1].serverOp, inflight[i].operation)
    BY <1>4, <2>1
  <2>3. r[0] = first
    BY <1>4, <2>1
  <2>4. \A i \in 0 .. n : r[i] = Body(r)[i]
    BY <2>2, <2>3
  <2> QED
    BY <2>4 DEF r
<1> DEFINE f == PassInflight(inflight, operation)
<1>6. f = CHOOSE g : g = Body(g)
  BY DEF PassInflight, first
<1> HIDE DEF Body
<1>7. f = Body(f)
  <2> HIDE DEF f, r
  <2> QED
    BY <1>5, <1>6
<1> HIDE DEF f
<1>8. \A i \in 0 .. n :
        f[i] = IF i = 0 THEN first
               ELSE TransformOperations(f[i - 1].serverOp, inflight[i].operation)
  BY <1>7 DEF Body
<1>9. /\ f[0] = first
      /\ \A i \in 1 .. n : f[i] = TransformOperations(f[i - 1].serverOp, inflight[i].operation)
  BY <1>8
<1> QED
  BY <1>9 DEF f, first

\* What one operation and those it passes become, one after the other.
PassesAll(pair, w, operation) ==
  /\ pair[0] = OperationPair(<<>>, operation)
  /\ \A i \in 1 .. Len(w) :
       pair[i] = TransformOperations(w[i].operation, pair[i - 1].clientOp)
  /\ TransformOutgoing(w, operation).operation = pair[Len(w)].clientOp
  /\ TransformOutgoing(w, operation).serverOps =
       [i \in 1 .. Len(w) |-> [w[i] EXCEPT !.operation = pair[i].serverOp]]

\* What TransformOutgoing computes, pair by pair.
LEMMA TransformOutgoingPairs ==
  ASSUME NEW w, Len(w) \in Nat, DOMAIN w = 1 .. Len(w), NEW operation
  PROVE  \E pair : PassesAll(pair, w, operation)
<1> DEFINE n == Len(w)
<1>0. n \in Nat /\ n = Len(w) /\ DOMAIN w = 1 .. n
  OBVIOUS
<1> HIDE DEF n
<1> DEFINE first == OperationPair(<<>>, operation)
           Pairs(p, k) == /\ p[0] = first
                          /\ \A i \in 1 .. k : p[i] = TransformOperations(w[i].operation,
                                                                          p[i - 1].clientOp)
           T == {k \in 0 .. n : \E p : Pairs(p, k)}
<1> HIDE DEF first
<1>1. 0 \in T
  <2>1. Pairs([i \in {0} |-> first], 0)
    OBVIOUS
  <2>2. 0 \in 0 .. n
    BY <1>0
  <2> HIDE DEF Pairs
  <2> QED
    BY <2>1, <2>2
<1>2. ASSUME NEW k \in 0 .. n - 1, k \in T PROVE k + 1 \in T
  <2>1. PICK p : Pairs(p, k)
    BY <1>2
  <2> DEFINE e == TransformOperations(w[k + 1].operation, p[k].clientOp)
             r == [i \in 0 .. n |-> IF i = k + 1 THEN e ELSE p[i]]
  <2>2. /\ r[k + 1] = e /\ \A i \in 0 .. k : r[i] = p[i]
    BY <1>0
  <2> HIDE DEF r
  <2>3. ASSUME NEW i \in 1 .. k + 1
        PROVE  r[i] = TransformOperations(w[i].operation, r[i - 1].clientOp)
    <3>1. CASE i = k + 1
      <4>1. r[i - 1] = p[k]
        BY <2>2, <3>1
      <4> QED
        BY <2>2, <3>1, <4>1
    <3>2. CASE i # k + 1
      <4>1. i \in 0 .. k /\ i - 1 \in 0 .. k /\ i \in 1 .. k
        BY <3>2
      <4> QED
        BY <2>1, <2>2, <4>1
    <3> QED
      BY <3>1, <3>2
  <2>4. Pairs(r, k + 1)
    BY <2>1, <2>2, <2>3
  <2>5. k + 1 \in 0 .. n
    BY <1>0
  <2> HIDE DEF Pairs
  <2> QED
    BY <2>4, <2>5
<1>3. n \in T
  <2> HIDE DEF T
  <2>1. 0 \in Nat /\ 0 <= n /\ \A k \in 0 .. n - 1 : k \in T => k + 1 \in T
    BY <1>0, <1>2
  <2>2. 0 .. n \subseteq T
    BY <1>0, <1>1, <2>1, UpTo
  <2> QED
    BY <1>0, <2>2
<1>4. PICK p : Pairs(p, n)
  BY <1>3
<1> DEFINE Body(g) == [i \in 0 .. n |->
             IF i = 0 THEN first
             ELSE TransformOperations(w[i].operation, g[i - 1].clientOp)]
           r == [i \in 0 .. n |-> p[i]]
<1>5. r = Body(r)
  <2>1. \A i \in 0 .. n : r[i] = p[i]
    OBVIOUS
  <2> HIDE DEF r
  <2>2. \A i \in 1 .. n : r[i] = TransformOperations(w[i].operation, r[i - 1].clientOp)
    BY <1>0, <1>4, <2>1
  <2>3. r[0] = first
    BY <1>0, <1>4, <2>1
  <2>4. \A i \in 0 .. n : r[i] = Body(r)[i]
    BY <2>2, <2>3
  <2> QED
    BY <2>4 DEF r
<1> DEFINE f == CHOOSE g : g = Body(g)
<1>6. /\ TransformOutgoing(w, operation).operation = f[n].clientOp
      /\ TransformOutgoing(w, operation).serverOps =
           [i \in 1 .. n |-> [w[i] EXCEPT !.operation = f[i].serverOp]]
  BY <1>0 DEF TransformOutgoing, first
<1> HIDE DEF Body
<1>7. f = Body(f)
  <2> HIDE DEF r
  <2> QED
    BY <1>5
<1> HIDE DEF f
<1>8. \A i \in 0 .. n :
        f[i] = IF i = 0 THEN first ELSE TransformOperations(w[i].operation, f[i - 1].clientOp)
  BY <1>7 DEF Body
<1>9. /\ f[0] = first
      /\ \A i \in 1 .. n : f[i] = TransformOperations(w[i].operation, f[i - 1].clientOp)
  BY <1>0, <1>8
<1> QED
  BY <1>0, <1>6, <1>9 DEF PassesAll, first

\* What an operation of the server becomes over the first i of the client.
ClientPairs(pair, s, c, n) ==
  /\ pair[0] = OperationPair(s, <<>>)
  /\ \A i \in 1 .. n : pair[i] = PassesDiscrete(pair[i - 1], c[i])
  /\ TransformClientCompoundOperation(s, c) = pair[n]

\* What TransformClientCompoundOperation computes, pair by pair.
LEMMA ClientCompoundPairs ==
  ASSUME NEW s, NEW c, NEW n \in Nat, n = Len(c)
  PROVE  \E pair : ClientPairs(pair, s, c, n)
<1> DEFINE first == OperationPair(s, <<>>)
           Pairs(p, k) == /\ p[0] = first
                          /\ \A i \in 1 .. k : p[i] = PassesDiscrete(p[i - 1], c[i])
           T == {k \in 0 .. n : \E p : Pairs(p, k)}
<1> HIDE DEF first
<1>1. 0 \in T
  <2>1. Pairs([i \in {0} |-> first], 0)
    OBVIOUS
  <2>2. 0 \in 0 .. n
    OBVIOUS
  <2> HIDE DEF Pairs
  <2> QED
    BY <2>1, <2>2
<1>2. ASSUME NEW k \in 0 .. n - 1, k \in T PROVE k + 1 \in T
  <2>1. PICK p : Pairs(p, k)
    BY <1>2
  <2> DEFINE e == PassesDiscrete(p[k], c[k + 1])
             r == [i \in 0 .. n |-> IF i = k + 1 THEN e ELSE p[i]]
  <2>2. /\ r[k + 1] = e /\ \A i \in 0 .. k : r[i] = p[i]
    OBVIOUS
  <2> HIDE DEF r
  <2>3. ASSUME NEW i \in 1 .. k + 1 PROVE r[i] = PassesDiscrete(r[i - 1], c[i])
    <3>1. CASE i = k + 1
      <4>1. r[i - 1] = p[k]
        BY <2>2, <3>1
      <4> QED
        BY <2>2, <3>1, <4>1
    <3>2. CASE i # k + 1
      <4>1. i \in 0 .. k /\ i - 1 \in 0 .. k /\ i \in 1 .. k
        BY <3>2
      <4> QED
        BY <2>1, <2>2, <4>1
    <3> QED
      BY <3>1, <3>2
  <2>4. Pairs(r, k + 1)
    BY <2>1, <2>2, <2>3
  <2>5. k + 1 \in 0 .. n
    OBVIOUS
  <2> HIDE DEF Pairs
  <2> QED
    BY <2>4, <2>5
<1>3. n \in T
  <2> HIDE DEF T
  <2>1. 0 \in Nat /\ 0 <= n /\ \A k \in 0 .. n - 1 : k \in T => k + 1 \in T
    BY <1>2
  <2>2. 0 .. n \subseteq T
    BY <1>1, <2>1, UpTo
  <2> QED
    BY <2>2
<1>4. PICK p : Pairs(p, n)
  BY <1>3
<1> DEFINE Body(g) == [i \in 0 .. n |-> IF i = 0 THEN first ELSE PassesDiscrete(g[i - 1], c[i])]
           r == [i \in 0 .. n |-> p[i]]
           f == CHOOSE g : g = Body(g)
<1>5. r = Body(r)
  <2>1. \A i \in 0 .. n : r[i] = p[i]
    OBVIOUS
  <2> HIDE DEF r
  <2>2. \A i \in 1 .. n : r[i] = PassesDiscrete(r[i - 1], c[i])
    BY <1>4, <2>1
  <2>3. r[0] = first
    BY <1>4, <2>1
  <2>4. \A i \in 0 .. n : r[i] = Body(r)[i]
    BY <2>2, <2>3
  <2> QED
    BY <2>4 DEF r
<1>6. TransformClientCompoundOperation(s, c) = f[n]
  BY DEF TransformClientCompoundOperation, first
<1> HIDE DEF Body
<1>7. f = Body(f)
  <2> HIDE DEF r
  <2> QED
    BY <1>5
<1> HIDE DEF f
<1>8. \A i \in 0 .. n : f[i] = IF i = 0 THEN first ELSE PassesDiscrete(f[i - 1], c[i])
  BY <1>7 DEF Body
<1>9. f[0] = first /\ \A i \in 1 .. n : f[i] = PassesDiscrete(f[i - 1], c[i])
  BY <1>8
<1> QED
  BY <1>6, <1>9 DEF first, ClientPairs

\* What both become over the first i of the server.
ServerPairs(pair, s, c, n) ==
  /\ pair[0] = OperationPair(<<>>, c)
  /\ \A i \in 1 .. n : pair[i] = PassedByDiscrete(pair[i - 1], s[i])
  /\ TransformOperations(s, c) = pair[n]

\* What TransformOperations computes, pair by pair.
LEMMA OperationsPairs ==
  ASSUME NEW s, NEW c, NEW n \in Nat, n = Len(s)
  PROVE  \E pair : ServerPairs(pair, s, c, n)
<1> DEFINE first == OperationPair(<<>>, c)
           Pairs(p, k) == /\ p[0] = first
                          /\ \A i \in 1 .. k : p[i] = PassedByDiscrete(p[i - 1], s[i])
           T == {k \in 0 .. n : \E p : Pairs(p, k)}
<1> HIDE DEF first
<1>1. 0 \in T
  <2>1. Pairs([i \in {0} |-> first], 0)
    OBVIOUS
  <2>2. 0 \in 0 .. n
    OBVIOUS
  <2> HIDE DEF Pairs
  <2> QED
    BY <2>1, <2>2
<1>2. ASSUME NEW k \in 0 .. n - 1, k \in T PROVE k + 1 \in T
  <2>1. PICK p : Pairs(p, k)
    BY <1>2
  <2> DEFINE e == PassedByDiscrete(p[k], s[k + 1])
             r == [i \in 0 .. n |-> IF i = k + 1 THEN e ELSE p[i]]
  <2>2. /\ r[k + 1] = e /\ \A i \in 0 .. k : r[i] = p[i]
    OBVIOUS
  <2> HIDE DEF r
  <2>3. ASSUME NEW i \in 1 .. k + 1 PROVE r[i] = PassedByDiscrete(r[i - 1], s[i])
    <3>1. CASE i = k + 1
      <4>1. r[i - 1] = p[k]
        BY <2>2, <3>1
      <4> QED
        BY <2>2, <3>1, <4>1
    <3>2. CASE i # k + 1
      <4>1. i \in 0 .. k /\ i - 1 \in 0 .. k /\ i \in 1 .. k
        BY <3>2
      <4> QED
        BY <2>1, <2>2, <4>1
    <3> QED
      BY <3>1, <3>2
  <2>4. Pairs(r, k + 1)
    BY <2>1, <2>2, <2>3
  <2>5. k + 1 \in 0 .. n
    OBVIOUS
  <2> HIDE DEF Pairs
  <2> QED
    BY <2>4, <2>5
<1>3. n \in T
  <2> HIDE DEF T
  <2>1. 0 \in Nat /\ 0 <= n /\ \A k \in 0 .. n - 1 : k \in T => k + 1 \in T
    BY <1>2
  <2>2. 0 .. n \subseteq T
    BY <1>1, <2>1, UpTo
  <2> QED
    BY <2>2
<1>4. PICK p : Pairs(p, n)
  BY <1>3
<1> DEFINE Body(g) == [i \in 0 .. n |-> IF i = 0 THEN first ELSE PassedByDiscrete(g[i - 1], s[i])]
           r == [i \in 0 .. n |-> p[i]]
           f == CHOOSE g : g = Body(g)
<1>5. r = Body(r)
  <2>1. \A i \in 0 .. n : r[i] = p[i]
    OBVIOUS
  <2> HIDE DEF r
  <2>2. \A i \in 1 .. n : r[i] = PassedByDiscrete(r[i - 1], s[i])
    BY <1>4, <2>1
  <2>3. r[0] = first
    BY <1>4, <2>1
  <2>4. \A i \in 0 .. n : r[i] = Body(r)[i]
    BY <2>2, <2>3
  <2> QED
    BY <2>4 DEF r
<1>6. TransformOperations(s, c) = f[n]
  BY DEF TransformOperations, first
<1> HIDE DEF Body
<1>7. f = Body(f)
  <2> HIDE DEF r
  <2> QED
    BY <1>5
<1> HIDE DEF f
<1>8. \A i \in 0 .. n : f[i] = IF i = 0 THEN first ELSE PassedByDiscrete(f[i - 1], s[i])
  BY <1>7 DEF Body
<1>9. f[0] = first /\ \A i \in 1 .. n : f[i] = PassedByDiscrete(f[i - 1], s[i])
  BY <1>8
<1> QED
  BY <1>6, <1>9 DEF first, ServerPairs

\* With nothing left to apply an operation goes out as it is.
LEMMA NothingToPass ==
  ASSUME NEW operation
  PROVE  /\ TransformOutgoing(<<>>, operation).operation = operation
         /\ TransformOutgoing(<<>>, operation).serverOps = <<>>
<1>1. Len(<<>>) = 0 /\ DOMAIN <<>> = 1 .. Len(<<>>)
  OBVIOUS
<1>2. PICK pair : PassesAll(pair, <<>>, operation)
  BY <1>1, TransformOutgoingPairs
<1>3. pair[Len(<<>>)].clientOp = operation
  BY <1>1, <1>2 DEF PassesAll, OperationPair
<1>4. TransformOutgoing(<<>>, operation).serverOps = <<>>
  <2> DEFINE w == TransformOutgoing(<<>>, operation).serverOps
  <2>1. w = [i \in 1 .. 0 |-> [<<>>[i] EXCEPT !.operation = pair[i].serverOp]]
    BY <1>1, <1>2 DEF PassesAll
  <2> HIDE DEF w
  <2>2. w = [i \in 1 .. 0 |-> w[i]]
    BY <2>1
  <2>3. IsSequence(w) /\ Len(w) = 0
    BY <2>2, FunctionIsSequence
  <2>4. w \in Seq({w[i] : i \in DOMAIN w})
    BY <2>3 DEF IsSequence
  <2>5. w = <<>>
    BY <2>3, <2>4, EmptySeq
  <2> QED
    BY <2>5 DEF w
<1> QED
  BY <1>2, <1>3, <1>4 DEF PassesAll

\* An operation issued at version v, on its way over what the history holds from there
\* on: others is what it meets at each version of remote, and nothing at the rest.
Column(mine, over, operation, v, n, remote, others) ==
  /\ mine[v] = operation
  /\ \A u \in v .. n - 1 :
       IF u \in remote
       THEN /\ over[u] = TransformOperations(others[u], mine[u]).serverOp
            /\ mine[u + 1] = TransformOperations(others[u], mine[u]).clientOp
       ELSE mine[u + 1] = mine[u]

\* There is always such a way.
LEMMA ColumnExists ==
  ASSUME NEW v \in Nat, NEW n \in Nat, v <= n, NEW remote, NEW others, NEW operation
  PROVE  \E mine, over : Column(mine, over, operation, v, n, remote, others)
<1> DEFINE Goes(p, u) == p[u + 1] = IF u \in remote
                                    THEN TransformOperations(others[u], p[u]).clientOp
                                    ELSE p[u]
           Up(p, k) == p[v] = operation /\ \A u \in v .. k - 1 : Goes(p, u)
           T == {k \in v .. n : \E p : Up(p, k)}
<1>1. v \in T
  <2>1. Up([i \in {v} |-> operation], v)
    OBVIOUS
  <2>2. v \in v .. n
    OBVIOUS
  <2> HIDE DEF Up
  <2> QED
    BY <2>1, <2>2
<1>2. ASSUME NEW k \in v .. n - 1, k \in T PROVE k + 1 \in T
  <2>1. PICK p : Up(p, k)
    BY <1>2
  <2> DEFINE e == IF k \in remote THEN TransformOperations(others[k], p[k]).clientOp ELSE p[k]
             r == [i \in v .. n |-> IF i = k + 1 THEN e ELSE p[i]]
  <2>2. /\ r[k + 1] = e /\ \A i \in v .. k : r[i] = p[i]
    OBVIOUS
  <2> HIDE DEF r
  <2>3. ASSUME NEW u \in v .. k PROVE Goes(r, u)
    <3>1. CASE u = k
      BY <2>2, <3>1
    <3>2. CASE u # k
      <4>1. u \in v .. k - 1 /\ u \in v .. k /\ u + 1 \in v .. k
        BY <3>2
      <4>2. Goes(p, u) /\ r[u] = p[u] /\ r[u + 1] = p[u + 1]
        BY <2>1, <2>2, <4>1
      <4> QED
        BY <4>2
    <3> QED
      BY <3>1, <3>2
  <2>4. r[v] = operation
    BY <2>1, <2>2
  <2>5. Up(r, k + 1)
    <3>1. v .. (k + 1) - 1 = v .. k
      OBVIOUS
    <3> HIDE DEF Goes
    <3> QED
      BY <2>3, <2>4, <3>1
  <2>6. k + 1 \in v .. n
    OBVIOUS
  <2> HIDE DEF Up
  <2> QED
    BY <2>5, <2>6
<1>3. n \in T
  <2> HIDE DEF T
  <2>1. 0 \in Nat /\ \A k \in v .. n - 1 : k \in T => k + 1 \in T
    BY <1>2
  <2>2. v .. n \subseteq T
    BY <1>1, <2>1, UpTo
  <2> QED
    BY <2>2
<1>4. PICK p : Up(p, n)
  BY <1>3
<1> DEFINE over == [u \in v .. n |-> TransformOperations(others[u], p[u]).serverOp]
<1>5. ASSUME NEW u \in v .. n - 1
      PROVE  IF u \in remote
             THEN /\ over[u] = TransformOperations(others[u], p[u]).serverOp
                  /\ p[u + 1] = TransformOperations(others[u], p[u]).clientOp
             ELSE p[u + 1] = p[u]
  <2>1. Goes(p, u) /\ u \in v .. n
    BY <1>4
  <2> QED
    BY <2>1
<1>6. p[v] = operation
  BY <1>4
<1> HIDE DEF over
<1>7. Column(p, over, operation, v, n, remote, others)
  BY <1>5, <1>6 DEF Column
<1> QED
  BY <1>7

----------------------------------------------------------------------------
(* The inductive invariant, of one session: s, the history hist, its       *)
(* concurrency control c, the submissions q and the messages m on their    *)
(* way and the operations b the server holds for it.                       *)
(*                                                                         *)
(* own[v][j] is operation j of s as of version v, and other[v][j] the      *)
(* operation of another session that makes version v + 1, once it has      *)
(* passed those of s up to j.  base[v] counts the operations of s in the   *)
(* history before version v, context[j] is the version at which operation  *)
(* j was issued.                                                           *)

IsOwn(s, hist, v) == hist[v + 1].sessionId = s

\* The versions another has followed.
Past(hist) == 0 .. Len(hist) - 1

\* What is received and what is acknowledged is in the history.
CountsOwn(s, hist, c, q, base) ==
  /\ base[0] = 0 /\ base[Len(hist)] = Received(c, q) /\ base[c.contextVersion] = Acked(c)
  /\ \A v \in 0 .. Len(hist) : base[v] \in 0 .. Received(c, q)
  /\ \A v \in Past(hist) :
       base[v + 1] = IF IsOwn(s, hist, v) THEN base[v] + 1 ELSE base[v]

\* Operations are issued at one version after the other.
IssuedInTurn(c, context) ==
  /\ \A j \in 1 .. c.lastSequenceNumber : context[j] \in 0 .. c.contextVersion
  /\ \A i, j \in 1 .. c.lastSequenceNumber : i <= j => context[i] <= context[j]

\* An operation of s enters the history as it is at that version, and leaves the later
\* ones as they are; one of another session passes those s has issued and the server had
\* not received, and they pass it.
Grid(s, hist, last, own, other, base, context) ==
  \A v \in Past(hist) :
    /\ IsOwn(s, hist, v) =>
         /\ hist[v + 1].operation = own[v][base[v] + 1]
         /\ \A j \in base[v] + 2 .. last : context[j] <= v => own[v + 1][j] = own[v][j]
    /\ ~IsOwn(s, hist, v) =>
         /\ hist[v + 1].operation = other[v][base[v]]
         /\ \A j \in base[v] + 1 .. last : context[j] <= v =>
              /\ other[v][j] = TransformOperations(other[v][j - 1], own[v][j]).serverOp
              /\ own[v + 1][j] = TransformOperations(other[v][j - 1], own[v][j]).clientOp

\* In flight at the session are its operations as of its context version, on their way
\* to the server as they were issued.
HoldsOwn(c, q, own, context) ==
  /\ \A i \in 1 .. Len(c.inflightOperations) :
       c.inflightOperations[i].operation = own[c.contextVersion][Acked(c) + i]
  /\ \A i \in 1 .. Len(q) :
       /\ q[i].contextVersion = context[Received(c, q) + i]
       /\ q[i].operation = own[q[i].contextVersion][Received(c, q) + i]

\* What the server need not keep: what s had seen when it issued the last operation
\* received.
MaybeUnseen(r, context, v) == r = 0 \/ context[r] <= v

\* The server holds, in order, the operations of others that the session may not have
\* seen, past those received of it.
HoldsOthers(s, hist, b, other, r, context) ==
  /\ IsSequence(b)
  /\ \A k \in 1 .. Len(b) :
       /\ DOMAIN b[k] = {"clientId", "version", "operation"}
       /\ b[k].version \in Past(hist) /\ ~IsOwn(s, hist, b[k].version)
       /\ MaybeUnseen(r, context, b[k].version)
       /\ b[k].operation = other[b[k].version][r]
  /\ \A i, k \in 1 .. Len(b) : i < k => b[i].version < b[k].version
  /\ \A v \in Past(hist) : ~IsOwn(s, hist, v) /\ MaybeUnseen(r, context, v) =>
       \E k \in 1 .. Len(b) : b[k].version = v

\* The remote operations on their way are those of the history.
Conveys(hist, c, m) ==
  \A i \in 1 .. Len(m) :
    ~IsAck(m[i]) => m[i].operation = hist[c.contextVersion + i].operation

LaidOut(s, hist, c, q, b, own, other, base, context) ==
  /\ CountsOwn(s, hist, c, q, base)
  /\ IssuedInTurn(c, context)
  /\ Grid(s, hist, c.lastSequenceNumber, own, other, base, context)
  /\ HoldsOwn(c, q, own, context)
  /\ HoldsOthers(s, hist, b, other, Received(c, q), context)

Agrees(s, hist, c, q, m, b) ==
  /\ Conveys(hist, c, m)
  /\ \E own, other, base, context : LaidOut(s, hist, c, q, b, own, other, base, context)

Agreeing(s) == Agrees(s, log, cc[s], toServer[s], toClient[s], bridge[s])

Agreement == \A s \in Session : misordered[s] \/ Agreeing(s)

AInv == RInv /\ Agreement

----------------------------------------------------------------------------
(* The session takes in a message                                          *)

\* The numbers of a session as it should be.
LEMMA SessionCounts ==
  ASSUME NEW c, NEW q, NEW m, NEW n \in Nat, SessionOK(c, q, m, n)
  PROVE  /\ c.lastSequenceNumber \in Nat /\ c.contextVersion \in 0 .. n
         /\ Len(c.inflightOperations) \in Nat /\ Len(q) \in Nat /\ Len(m) \in Nat
         /\ Acked(c) \in 0 .. Received(c, q)
         /\ Received(c, q) \in 0 .. c.lastSequenceNumber
         /\ Acked(c) + Len(c.inflightOperations) = c.lastSequenceNumber
         /\ Received(c, q) + Len(q) = c.lastSequenceNumber
         /\ m # <<>> => Len(m) >= 1 /\ c.contextVersion + 1 \in 0 .. n
<1>1. /\ c.lastSequenceNumber \in Nat /\ c.contextVersion \in Nat
      /\ Len(c.inflightOperations) \in Nat /\ Len(q) \in Nat /\ Len(m) \in Nat
  BY SequenceIsFunction DEF SessionOK, IsConcurrencyControl
<1>2. /\ Len(q) <= Len(c.inflightOperations)
      /\ Len(c.inflightOperations) <= c.lastSequenceNumber
      /\ c.contextVersion + Len(m) = n
  BY DEF SessionOK, Numbered, InStep
<1>3. m # <<>> => Len(m) >= 1
  BY TailOfSequence DEF SessionOK
<1>4. \A l, a, r \in Nat : a <= l /\ r <= a =>
        l - a \in 0 .. l - r /\ l - r \in 0 .. l /\ (l - a) + a = l /\ (l - r) + r = l
  OBVIOUS
<1>5. /\ Acked(c) \in 0 .. Received(c, q)
      /\ Received(c, q) \in 0 .. c.lastSequenceNumber
      /\ Acked(c) + Len(c.inflightOperations) = c.lastSequenceNumber
      /\ Received(c, q) + Len(q) = c.lastSequenceNumber
  BY <1>1, <1>2, <1>4 DEF Acked, Received
<1>6. c.contextVersion \in 0 .. n /\ (m # <<>> => c.contextVersion + 1 \in 0 .. n)
  BY <1>1, <1>2, <1>3
<1> QED
  BY <1>1, <1>3, <1>5, <1>6

\* What is on its way is conveyed as long as the session takes it in one by one.
LEMMA ConveysTheRest ==
  ASSUME NEW hist, NEW c, NEW m, c.contextVersion \in Nat, IsSequence(m), m # <<>>,
         Conveys(hist, c, m), NEW d, d.contextVersion = c.contextVersion + 1
  PROVE  Conveys(hist, d, Tail(m))
<1>1. /\ Len(m) \in Nat /\ Len(Tail(m)) = Len(m) - 1
      /\ \A i \in 1 .. Len(m) - 1 : Tail(m)[i] = m[i + 1]
  BY TailOfSequence, SequenceIsFunction
<1>2. ASSUME NEW i \in 1 .. Len(Tail(m)), ~IsAck(Tail(m)[i])
      PROVE  Tail(m)[i].operation = hist[d.contextVersion + i].operation
  <2>1. i + 1 \in 1 .. Len(m) /\ Tail(m)[i] = m[i + 1]
        /\ d.contextVersion + i = c.contextVersion + (i + 1)
    BY <1>1
  <2> QED
    BY <1>2, <2>1 DEF Conveys
<1> QED
  BY <1>2 DEF Conveys

\* An acknowledgement takes the session one version on, where its other operations in
\* flight are what they were.
LEMMA AgreesOnceAcknowledged ==
  ASSUME NEW s, NEW hist, Len(hist) \in Nat, NEW c, NEW q, NEW m, NEW b,
         SessionOK(c, q, m, Len(hist)), m # <<>>, c.inflightOperations # <<>>,
         Agrees(s, hist, c, q, m, b), IsOwn(s, hist, c.contextVersion),
         NEW d, d.lastSequenceNumber = c.lastSequenceNumber,
         d.contextVersion = c.contextVersion + 1,
         d.inflightOperations = Tail(c.inflightOperations)
  PROVE  Agrees(s, hist, d, q, Tail(m), b)
<1> DEFINE v == c.contextVersion
           last == c.lastSequenceNumber
           f == c.inflightOperations
<1>1. PICK own, other, base, context :
        LaidOut(s, hist, c, q, b, own, other, base, context)
  BY DEF Agrees
<1>2. /\ last \in Nat /\ v \in 0 .. Len(hist) /\ v + 1 \in 0 .. Len(hist) /\ v \in Past(hist)
      /\ Len(f) \in Nat /\ Acked(c) \in Nat /\ Acked(c) + Len(f) = last
  BY SessionCounts DEF Past
<1>3. /\ Len(Tail(f)) = Len(f) - 1 /\ \A i \in 1 .. Len(f) - 1 : Tail(f)[i] = f[i + 1]
  BY TailOfSequence DEF SessionOK, IsConcurrencyControl
<1>4. Acked(d) = Acked(c) + 1 /\ Received(d, q) = Received(c, q)
  BY <1>2, <1>3 DEF Acked, Received
<1>5. base[v] = Acked(c) /\ base[v + 1] = base[v] + 1
  BY <1>1, <1>2 DEF LaidOut, CountsOwn
<1>6. CountsOwn(s, hist, d, q, base)
  BY <1>1, <1>4, <1>5 DEF LaidOut, CountsOwn
<1>7. IssuedInTurn(d, context) /\ \A j \in 1 .. last : context[j] <= v
  BY <1>1, <1>2 DEF LaidOut, IssuedInTurn
<1>8. ASSUME NEW i \in 1 .. Len(Tail(f))
      PROVE  Tail(f)[i].operation = own[v + 1][Acked(d) + i]
  <2> DEFINE j == Acked(c) + (i + 1)
  <2>0. \A l, a, k \in Nat : a + l = last /\ k \in 1 .. l - 1 =>
          /\ k + 1 \in 1 .. l /\ (a + 1) + k = a + (k + 1)
          /\ a + (k + 1) \in a + 2 .. last /\ a + (k + 1) \in 1 .. last
    BY <1>2
  <2>1. /\ i + 1 \in 1 .. Len(f) /\ Tail(f)[i] = f[i + 1] /\ Acked(d) + i = j
        /\ j \in base[v] + 2 .. last /\ j \in 1 .. last
    <3> HIDE DEF f, last, v, j
    <3>1. i \in 1 .. Len(f) - 1
      BY <1>3
    <3>2. /\ i + 1 \in 1 .. Len(f) /\ (Acked(c) + 1) + i = Acked(c) + (i + 1)
          /\ Acked(c) + (i + 1) \in Acked(c) + 2 .. last /\ Acked(c) + (i + 1) \in 1 .. last
      BY <1>2, <2>0, <3>1
    <3> QED
      BY <1>3, <1>4, <1>5, <3>1, <3>2 DEF j
  <2>2. f[i + 1].operation = own[v][j]
    BY <1>1, <2>1 DEF LaidOut, HoldsOwn
  <2>3. own[v + 1][j] = own[v][j]
    BY <1>1, <1>2, <1>7, <2>1 DEF LaidOut, Grid
  <2> QED
    BY <2>1, <2>2, <2>3
<1>9. HoldsOwn(d, q, own, context)
  BY <1>1, <1>4, <1>8 DEF LaidOut, HoldsOwn
<1>10. LaidOut(s, hist, d, q, b, own, other, base, context)
  BY <1>1, <1>4, <1>6, <1>7, <1>9 DEF LaidOut
<1>11. Conveys(hist, d, Tail(m))
  BY <1>2, ConveysTheRest DEF SessionOK, Agrees
<1> QED
  BY <1>10, <1>11 DEF Agrees

\* The operations in flight once they have passed the next of the history.
MovesToNextRow(hist, c, own) ==
  LET v    == c.contextVersion
      pair == PassInflight(c.inflightOperations, hist[v + 1].operation)
  IN  \A i \in 1 .. Len(c.inflightOperations) :
        pair[i].clientOp = own[v + 1][Acked(c) + i]

\* A remote operation meets the operations in flight at the context version.
LEMMA PassingWalksTheRow ==
  ASSUME NEW s, NEW hist, Len(hist) \in Nat, NEW c, NEW q, NEW b,
         NEW own, NEW other, NEW base, NEW context,
         LaidOut(s, hist, c, q, b, own, other, base, context),
         c.contextVersion \in Past(hist), ~IsOwn(s, hist, c.contextVersion),
         Len(c.inflightOperations) \in Nat, Acked(c) \in Nat,
         Acked(c) + Len(c.inflightOperations) = c.lastSequenceNumber
  PROVE  MovesToNextRow(hist, c, own)
<1> DEFINE v == c.contextVersion
           a == Acked(c)
           f == c.inflightOperations
           n == Len(f)
           pair == PassInflight(f, hist[v + 1].operation)
           T == {i \in 0 .. n : pair[i].serverOp = other[v][a + i]}
<1>0. /\ v = c.contextVersion /\ a = Acked(c) /\ f = c.inflightOperations /\ n = Len(f)
      /\ v \in Past(hist) /\ ~IsOwn(s, hist, v) /\ n \in Nat /\ a \in Nat
      /\ a + n = c.lastSequenceNumber
  OBVIOUS
<1> HIDE DEF v, a, f, n
<1>1. /\ pair[0] = OperationPair(hist[v + 1].operation, <<>>)
      /\ \A i \in 1 .. n :
           pair[i] = TransformOperations(pair[i - 1].serverOp, f[i].operation)
  BY <1>0, PassInflightPairs
<1> HIDE DEF pair
<1>2. base[v] = a /\ hist[v + 1].operation = other[v][a]
  BY <1>0 DEF LaidOut, CountsOwn, Grid
<1>3. ASSUME NEW i \in 1 .. n
      PROVE  /\ f[i].operation = own[v][a + i]
             /\ other[v][a + i] =
                  TransformOperations(other[v][a + (i - 1)], own[v][a + i]).serverOp
             /\ own[v + 1][a + i] =
                  TransformOperations(other[v][a + (i - 1)], own[v][a + i]).clientOp
  <2>1. /\ a + i \in a + 1 .. c.lastSequenceNumber /\ a + i \in 1 .. c.lastSequenceNumber
        /\ (a + i) - 1 = a + (i - 1)
    BY <1>0
  <2>2. context[a + i] <= v
    BY <1>0, <2>1 DEF LaidOut, IssuedInTurn
  <2>3. f[i].operation = own[v][a + i]
    BY <1>0 DEF LaidOut, HoldsOwn
  <2>4. /\ other[v][a + i] = TransformOperations(other[v][(a + i) - 1], own[v][a + i]).serverOp
        /\ own[v + 1][a + i] =
             TransformOperations(other[v][(a + i) - 1], own[v][a + i]).clientOp
    BY <1>0, <1>2, <2>1, <2>2 DEF LaidOut, Grid
  <2> QED
    BY <2>1, <2>3, <2>4
<1>4. 0 \in T
  <2>1. pair[0].serverOp = hist[v + 1].operation /\ a + 0 = a
    BY <1>0, <1>1 DEF OperationPair
  <2> QED
    BY <1>0, <1>2, <2>1
<1>5. ASSUME NEW i \in 0 .. n - 1, i \in T PROVE i + 1 \in T
  <2>1. i + 1 \in 1 .. n /\ (i + 1) - 1 = i /\ i + 1 \in 0 .. n
    BY <1>0
  <2>2. pair[i].serverOp = other[v][a + i]
    BY <1>5
  <2>3. pair[i + 1] = TransformOperations(pair[i].serverOp, f[i + 1].operation)
    BY <1>1, <2>1
  <2>4. pair[i + 1].serverOp = other[v][a + (i + 1)]
    BY <1>3, <2>1, <2>2, <2>3
  <2> QED
    BY <2>1, <2>4
<1>6. 0 .. n \subseteq T
  <2> HIDE DEF T
  <2>1. 0 \in Nat /\ 0 <= n /\ \A i \in 0 .. n - 1 : i \in T => i + 1 \in T
    BY <1>0, <1>5
  <2> QED
    BY <1>0, <1>4, <2>1, UpTo
<1>7. ASSUME NEW i \in 1 .. n PROVE pair[i].clientOp = own[v + 1][a + i]
  <2>1. i - 1 \in 0 .. n
    BY <1>0
  <2>2. pair[i - 1].serverOp = other[v][a + (i - 1)]
    BY <1>6, <2>1
  <2>3. pair[i] = TransformOperations(pair[i - 1].serverOp, f[i].operation)
    BY <1>1
  <2>4. pair[i] = TransformOperations(other[v][a + (i - 1)], own[v][a + i])
    BY <1>3, <2>2, <2>3
  <2> QED
    BY <1>3, <2>4
<1> QED
  BY <1>7 DEF MovesToNextRow, pair, v, a, f, n

\* A remote operation takes the session one version on, its operations in flight passing
\* it as they do in the grid.
LEMMA AgreesOncePassed ==
  ASSUME NEW s, NEW hist, Len(hist) \in Nat, NEW c, NEW q, NEW m, NEW b,
         SessionOK(c, q, m, Len(hist)), m # <<>>, ~IsAck(Head(m)),
         Agrees(s, hist, c, q, m, b), ~IsOwn(s, hist, c.contextVersion),
         NEW event, event.version \in Nat, event.operation = Head(m).operation,
         NEW d, d.lastSequenceNumber = c.lastSequenceNumber,
         d.contextVersion = c.contextVersion + 1,
         d.inflightOperations =
           TransformInflightOperations(c.inflightOperations, event).inflight
  PROVE  Agrees(s, hist, d, q, Tail(m), b)
<1> DEFINE v == c.contextVersion
           last == c.lastSequenceNumber
           f == c.inflightOperations
           g == TransformInflightOperations(f, event).inflight
           pair == PassInflight(f, hist[v + 1].operation)
<1>1. PICK own, other, base, context :
        LaidOut(s, hist, c, q, b, own, other, base, context)
  BY DEF Agrees
<1>2. /\ last \in Nat /\ v \in Nat /\ v \in Past(hist)
      /\ Len(f) \in Nat /\ Acked(c) \in Nat /\ Acked(c) + Len(f) = last
  BY SessionCounts DEF Past
<1>3. event.operation = hist[v + 1].operation
  <2>1. 1 \in 1 .. Len(m) /\ Head(m) = m[1]
    BY SessionCounts, TailOfSequence DEF SessionOK
  <2> QED
    BY <2>1 DEF Agrees, Conveys
<1>4. /\ IsSequence(f) /\ DOMAIN f = 1 .. Len(f)
      /\ \A i \in DOMAIN f : IsClientOperationEvent(f[i])
  BY SequenceIsFunction DEF SessionOK, IsConcurrencyControl
<1>5. Len(g) = Len(f)
  BY <1>4, TransformedInPlace
<1>6. \A i \in 1 .. Len(f) : pair[i].clientOp = own[v + 1][Acked(c) + i]
  <2>1. MovesToNextRow(hist, c, own)
    BY <1>1, <1>2, PassingWalksTheRow
  <2> QED
    BY <2>1 DEF MovesToNextRow
<1>7. \A i \in 1 .. Len(f) : g[i].operation = pair[i].clientOp
  <2> HIDE DEF pair
  <2>1. g = [i \in DOMAIN f |-> [f[i] EXCEPT !.contextVersion = event.version + 1,
                                            !.operation = pair[i].clientOp]]
    BY <1>3 DEF TransformInflightOperations, pair
  <2> HIDE DEF g
  <2>2. ASSUME NEW i \in 1 .. Len(f) PROVE g[i].operation = pair[i].clientOp
    <3>1. /\ DOMAIN f[i] = {"sessionId", "seqNo", "contextVersion", "operation"}
          /\ g[i] = [f[i] EXCEPT !.contextVersion = event.version + 1,
                                 !.operation = pair[i].clientOp]
      BY <1>4, <2>1 DEF IsClientOperationEvent
    <3> QED
      BY <3>1
  <2> QED
    BY <2>2
<1> HIDE DEF g, pair
<1>8. d.inflightOperations = g
  BY DEF g
<1>9. Acked(d) = Acked(c) /\ Received(d, q) = Received(c, q)
  BY <1>5, <1>8 DEF Acked, Received
<1>10. base[v] = Acked(c) /\ base[v + 1] = base[v]
  BY <1>1, <1>2 DEF LaidOut, CountsOwn
<1>11. CountsOwn(s, hist, d, q, base)
  BY <1>1, <1>9, <1>10 DEF LaidOut, CountsOwn
<1>12. IssuedInTurn(d, context)
  BY <1>1, <1>2 DEF LaidOut, IssuedInTurn
<1>13. HoldsOwn(d, q, own, context)
  BY <1>1, <1>5, <1>6, <1>7, <1>8, <1>9 DEF LaidOut, HoldsOwn
<1>14. LaidOut(s, hist, d, q, b, own, other, base, context)
  BY <1>1, <1>9, <1>11, <1>12, <1>13 DEF LaidOut
<1>15. Conveys(hist, d, Tail(m))
  BY <1>2, ConveysTheRest DEF SessionOK, Agrees
<1> QED
  BY <1>14, <1>15 DEF Agrees

----------------------------------------------------------------------------
(* The session issues an operation                                         *)

\* Remote operations are applied at once, and there is no batch but one in progress.
Settled(c) ==
  /\ c.unappliedOperations = <<>>
  /\ c.compoundOpInProgress \/ c.pendingCompoundOperation = <<>>

\* What a local call makes of the concurrency control c: what goes in flight is issued
\* at the context version.
IssuesHere(c, d) ==
  /\ Issues(c, d)
  /\ \/ d.lastSequenceNumber = c.lastSequenceNumber
     \/ \E event : /\ event.contextVersion = c.contextVersion
                   /\ d.inflightOperations = Append(c.inflightOperations, event)

\* Putting an operation in flight issues it at the context version,
LEMMA PutInFlightHere ==
  ASSUME NEW c, IsConcurrencyControl(c), NEW s, NEW operation
  PROVE  IssuesHere(c, PutInFlight(c, s, operation))
<1> DEFINE event == ClientOperationEvent(s, c.lastSequenceNumber + 1, c.contextVersion, operation)
           d == PutInFlight(c, s, operation)
<1>1. event.contextVersion = c.contextVersion
  BY DEF ClientOperationEvent
<1>2. d.inflightOperations = Append(c.inflightOperations, event)
  BY DEF PutInFlight, IsConcurrencyControl
<1> HIDE DEF event, d
<1>3. Issues(c, d)
  BY PutInFlightIssues DEF d
<1> QED
  BY <1>1, <1>2, <1>3 DEF IssuesHere, d

\* and so does the end of a batch
LEMMA CompleteBatchHere ==
  ASSUME NEW c, IsConcurrencyControl(c), NEW s
  PROVE  IssuesHere(c, CompleteBatchOperation(c, s))
<1> DEFINE ended == [c EXCEPT !.compoundOpInProgress = FALSE, !.pendingCompoundOperation = <<>>]
           operation == c.pendingCompoundOperation
<1>1. /\ IsConcurrencyControl(ended)
      /\ ended.lastSequenceNumber = c.lastSequenceNumber
      /\ ended.contextVersion = c.contextVersion
      /\ ended.inflightOperations = c.inflightOperations
  BY DEF IsConcurrencyControl
<1>2. \/ CompleteBatchOperation(c, s) = ended
      \/ CompleteBatchOperation(c, s) = PutInFlight(ended, s, operation)
  BY DEF CompleteBatchOperation
<1> HIDE DEF ended, operation
<1>3. IssuesHere(ended, PutInFlight(ended, s, operation))
  BY <1>1, PutInFlightHere
<1>4. Issues(c, CompleteBatchOperation(c, s))
  BY CompleteBatchIssues
<1> QED
  BY <1>1, <1>2, <1>3, <1>4 DEF IssuesHere

\* and a local operation.
LEMMA ProcessOutgoingHere ==
  ASSUME NEW c, IsConcurrencyControl(c), NEW s, NEW op
  PROVE  IssuesHere(c, ProcessOutgoingOperation(c, s, op))
<1> DEFINE outgoing == TransformOutgoing(c.unappliedOperations, <<op>>)
           noted == [c EXCEPT !.unappliedOperations = outgoing.serverOps,
                              !.committed = IF NothingOutstanding(c) THEN FALSE ELSE @]
           batched == [noted EXCEPT !.pendingCompoundOperation = @ \o outgoing.operation]
<1> HIDE DEF outgoing
<1>1. /\ IsConcurrencyControl(noted)
      /\ noted.lastSequenceNumber = c.lastSequenceNumber
      /\ noted.contextVersion = c.contextVersion
      /\ noted.inflightOperations = c.inflightOperations
      /\ batched.lastSequenceNumber = c.lastSequenceNumber
  BY DEF IsConcurrencyControl
<1>2. \/ ProcessOutgoingOperation(c, s, op) = batched
      \/ ProcessOutgoingOperation(c, s, op) = PutInFlight(noted, s, outgoing.operation)
  BY DEF ProcessOutgoingOperation, Issue, outgoing
<1> HIDE DEF noted, batched
<1>3. IssuesHere(noted, PutInFlight(noted, s, outgoing.operation))
  BY <1>1, PutInFlightHere
<1>4. Issues(c, ProcessOutgoingOperation(c, s, op))
  BY ProcessOutgoingIssues
<1> QED
  BY <1>1, <1>2, <1>3, <1>4 DEF IssuesHere

\* A column more: where the operation just issued is at each version from there on.
LEMMA AgreesOnceIssued ==
  ASSUME NEW s, NEW hist, Len(hist) \in Nat, NEW c, NEW q, NEW m, NEW b,
         SessionOK(c, q, m, Len(hist)), Agrees(s, hist, c, q, m, b),
         NEW d, IssuesHere(c, d)
  PROVE  Agrees(s, hist, d, AfterSending(q, c, d), m, b)
<1> DEFINE r == AfterSending(q, c, d)
           v == c.contextVersion
           l == c.lastSequenceNumber
           n == Len(hist)
           f == c.inflightOperations
           a == Acked(c)
           k == Received(c, q)
<1>1. PICK own, other, base, context :
        LaidOut(s, hist, c, q, b, own, other, base, context)
  BY DEF Agrees
<1>2. d.contextVersion = v /\ Conveys(hist, d, m)
  BY DEF IssuesHere, Issues, Agrees, Conveys
<1>3. /\ SessionOK(d, r, m, Len(hist)) /\ Received(d, r) = k
  BY IssuingKeepsSessionOK DEF IssuesHere
<1>4. /\ l \in Nat /\ v \in 0 .. n /\ n \in Nat /\ Len(f) \in Nat /\ Len(q) \in Nat
      /\ a \in 0 .. l /\ k \in 0 .. l /\ a + Len(f) = l /\ k + Len(q) = l
  BY SessionCounts
<1>5. CASE d.lastSequenceNumber = l
  <2>1. d.inflightOperations = f
    BY <1>4, <1>5 DEF IssuesHere, Issues
  <2>2. r = q /\ Acked(d) = a
    BY <1>5, <2>1 DEF AfterSending, Acked
  <2>3. LaidOut(s, hist, d, r, b, own, other, base, context)
    BY <1>1, <1>2, <1>3, <1>5, <2>1, <2>2
       DEF LaidOut, CountsOwn, IssuedInTurn, HoldsOwn
  <2> QED
    BY <1>2, <2>3 DEF Agrees
<1>6. CASE d.lastSequenceNumber # l
  <2>1. PICK event : /\ event.contextVersion = v
                     /\ d.inflightOperations = Append(f, event)
    BY <1>6 DEF IssuesHere
  <2>2. d.lastSequenceNumber = l + 1
    BY <1>6 DEF IssuesHere, Issues
  <2>3. IsSequence(f) /\ IsSequence(q)
    BY DEF SessionOK, IsConcurrencyControl
  <2>4. /\ Len(d.inflightOperations) = Len(f) + 1
        /\ \A i \in 1 .. Len(f) : d.inflightOperations[i] = f[i]
        /\ d.inflightOperations[Len(f) + 1] = event
    BY <2>1, <2>3, AppendToSequence
  <2>5. r = Append(q, OperationSubmission(event))
    BY <1>6, <2>4 DEF AfterSending
  <2>6. /\ Len(r) = Len(q) + 1
        /\ \A i \in 1 .. Len(q) : r[i] = q[i]
        /\ r[Len(q) + 1].contextVersion = v
        /\ r[Len(q) + 1].operation = event.operation
    BY <2>1, <2>3, <2>5, AppendToSequence DEF OperationSubmission
  <2>7. Acked(d) = a
    <3>1. \A x, y \in Nat : (x + 1) - (y + 1) = x - y
      OBVIOUS
    <3> QED
      BY <1>4, <2>2, <2>4, <3>1 DEF Acked
  <2> DEFINE remote == {u \in Past(hist) : ~IsOwn(s, hist, u)}
             others == [u \in Past(hist) |-> other[u][l]]
  <2>8. \E mine, over : Column(mine, over, event.operation, v, n, remote, others)
    <3>1. v \in Nat /\ n \in Nat /\ v <= n
      BY <1>4
    <3> HIDE DEF remote, others, v, n
    <3> QED
      BY <3>1, ColumnExists
  <2>9. PICK mine, over : Column(mine, over, event.operation, v, n, remote, others)
    BY <2>8
  <2>10. \A u \in Past(hist) : v <= u =>
           /\ IsOwn(s, hist, u) => mine[u + 1] = mine[u]
           /\ ~IsOwn(s, hist, u) =>
                /\ over[u] = TransformOperations(other[u][l], mine[u]).serverOp
                /\ mine[u + 1] = TransformOperations(other[u][l], mine[u]).clientOp
    BY <1>4, <2>9 DEF Past, Column
  <2> HIDE DEF remote, others
  <2> DEFINE own2 == [u \in 0 .. n |-> [j \in 1 .. l + 1 |->
                        IF j = l + 1 THEN mine[u] ELSE own[u][j]]]
             other2 == [u \in Past(hist) |-> [j \in 0 .. l + 1 |->
                          IF j = l + 1 THEN over[u] ELSE other[u][j]]]
             context2 == [j \in 1 .. l + 1 |-> IF j = l + 1 THEN v ELSE context[j]]
  <2>11. /\ \A u \in 0 .. n : \A j \in 1 .. l : own2[u][j] = own[u][j]
         /\ \A u \in 0 .. n : own2[u][l + 1] = mine[u]
         /\ \A u \in Past(hist) : \A j \in 0 .. l : other2[u][j] = other[u][j]
         /\ \A u \in Past(hist) : other2[u][l + 1] = over[u]
         /\ \A j \in 1 .. l : context2[j] = context[j]
         /\ context2[l + 1] = v
    <3>1. /\ l + 1 \in 1 .. l + 1 /\ l + 1 \in 0 .. l + 1
          /\ \A j \in 1 .. l : j \in 1 .. l + 1 /\ j # l + 1
          /\ \A j \in 0 .. l : j \in 0 .. l + 1 /\ j # l + 1
      BY <1>4, SMTT(30)
    <3> HIDE DEF l, n
    <3>2. /\ \A u \in 0 .. n : \A j \in 1 .. l : own2[u][j] = own[u][j]
          /\ \A u \in 0 .. n : own2[u][l + 1] = mine[u]
      BY <3>1
    <3>3. /\ \A u \in Past(hist) : \A j \in 0 .. l : other2[u][j] = other[u][j]
          /\ \A u \in Past(hist) : other2[u][l + 1] = over[u]
      BY <3>1
    <3>4. /\ \A j \in 1 .. l : context2[j] = context[j]
          /\ context2[l + 1] = v
      BY <3>1
    <3> QED
      BY <3>2, <3>3, <3>4
  <2> HIDE DEF own2, other2, context2
  <2>12. \A u \in Past(hist) : u \in 0 .. n /\ u + 1 \in 0 .. n
    BY <1>4 DEF Past
  <2>13. CountsOwn(s, hist, d, r, base)
    BY <1>1, <1>2, <1>3, <2>7 DEF LaidOut, CountsOwn
  <2>14. \A j \in 1 .. l : context[j] \in 0 .. v
    BY <1>1 DEF LaidOut, IssuedInTurn
  <2>15. IssuedInTurn(d, context2)
    <3>1. ASSUME NEW j \in 1 .. l + 1 PROVE context2[j] \in 0 .. v
      <4>1. j = l + 1 \/ j \in 1 .. l
        BY <1>4
      <4>2. v \in 0 .. v
        BY <1>4
      <4> QED
        BY <2>11, <2>14, <4>1, <4>2
    <3>2. ASSUME NEW i \in 1 .. l + 1, NEW j \in 1 .. l + 1, i <= j
          PROVE  context2[i] <= context2[j]
      <4>1. CASE j = l + 1
        BY <1>4, <2>11, <3>1, <4>1
      <4>2. CASE j # l + 1
        <5>1. i \in 1 .. l /\ j \in 1 .. l
          BY <1>4, <3>2, <4>2, SMTT(30)
        <5> QED
          BY <1>1, <2>11, <3>2, <5>1 DEF LaidOut, IssuedInTurn
      <4> QED
        BY <4>1, <4>2
    <3> QED
      BY <1>2, <2>2, <3>1, <3>2 DEF IssuedInTurn
  <2>16. Grid(s, hist, l + 1, own2, other2, base, context2)
    <3>1. ASSUME NEW u \in Past(hist), IsOwn(s, hist, u)
          PROVE  /\ hist[u + 1].operation = own2[u][base[u] + 1]
                 /\ \A j \in base[u] + 2 .. l + 1 : context2[j] <= u =>
                      own2[u + 1][j] = own2[u][j]
      <4>1. base[u + 1] = base[u] + 1 /\ base[u] \in 0 .. k /\ base[u + 1] \in 0 .. k
        BY <1>1, <2>12, <3>1 DEF LaidOut, CountsOwn
      <4>2. base[u] + 1 \in 1 .. l
        BY <1>4, <4>1
      <4>3. hist[u + 1].operation = own2[u][base[u] + 1]
        BY <1>1, <2>11, <2>12, <3>1, <4>2 DEF LaidOut, Grid
      <4>4. ASSUME NEW j \in base[u] + 2 .. l + 1, context2[j] <= u
            PROVE  own2[u + 1][j] = own2[u][j]
        <5>1. CASE j = l + 1
          <6>1. mine[u + 1] = mine[u]
            BY <2>10, <2>11, <3>1, <4>4, <5>1
          <6> QED
            BY <2>11, <2>12, <5>1, <6>1
        <5>2. CASE j # l + 1
          <6>1. j \in base[u] + 2 .. l /\ j \in 1 .. l
            <7> HIDE DEF l, k
            <7>1. base[u] \in Nat /\ l \in Nat
              BY <1>4, <4>1
            <7> QED
              BY <5>2, <7>1
          <6>2. own[u + 1][j] = own[u][j]
            BY <1>1, <2>11, <3>1, <4>4, <6>1 DEF LaidOut, Grid
          <6> QED
            BY <2>11, <2>12, <6>1, <6>2
        <5> QED
          BY <5>1, <5>2
      <4> QED
        BY <4>3, <4>4
    <3>2. ASSUME NEW u \in Past(hist), ~IsOwn(s, hist, u)
          PROVE  /\ hist[u + 1].operation = other2[u][base[u]]
                 /\ \A j \in base[u] + 1 .. l + 1 : context2[j] <= u =>
                      /\ other2[u][j] =
                           TransformOperations(other2[u][j - 1], own2[u][j]).serverOp
                      /\ own2[u + 1][j] =
                           TransformOperations(other2[u][j - 1], own2[u][j]).clientOp
      <4>1. base[u] \in 0 .. k
        BY <1>1, <2>12 DEF LaidOut, CountsOwn
      <4>2. base[u] \in 0 .. l
        BY <1>4, <4>1
      <4>3. hist[u + 1].operation = other2[u][base[u]]
        BY <1>1, <2>11, <3>2, <4>2 DEF LaidOut, Grid
      <4>4. ASSUME NEW j \in base[u] + 1 .. l + 1, context2[j] <= u
            PROVE  /\ other2[u][j] =
                        TransformOperations(other2[u][j - 1], own2[u][j]).serverOp
                   /\ own2[u + 1][j] =
                        TransformOperations(other2[u][j - 1], own2[u][j]).clientOp
        <5>1. CASE j = l + 1
          <6>1. /\ over[u] = TransformOperations(other[u][l], mine[u]).serverOp
                /\ mine[u + 1] = TransformOperations(other[u][l], mine[u]).clientOp
            BY <2>10, <2>11, <3>2, <4>4, <5>1
          <6>2. j - 1 = l /\ l \in 0 .. l
            BY <1>4, <5>1
          <6>3. /\ other2[u][j] = over[u] /\ other2[u][j - 1] = other[u][l]
                /\ own2[u][j] = mine[u] /\ own2[u + 1][j] = mine[u + 1]
            BY <2>11, <2>12, <5>1, <6>2
          <6> QED
            BY <6>1, <6>3
        <5>2. CASE j # l + 1
          <6>1. j \in base[u] + 1 .. l /\ j \in 1 .. l /\ j - 1 \in 0 .. l /\ j \in 0 .. l
            <7> HIDE DEF l, k
            <7>1. base[u] \in Nat /\ l \in Nat
              BY <1>4, <4>1
            <7> QED
              BY <5>2, <7>1
          <6>2. context[j] <= u
            BY <2>11, <4>4, <6>1
          <6>3. /\ other[u][j] = TransformOperations(other[u][j - 1], own[u][j]).serverOp
                /\ own[u + 1][j] = TransformOperations(other[u][j - 1], own[u][j]).clientOp
            BY <1>1, <3>2, <6>1, <6>2 DEF LaidOut, Grid
          <6>4. /\ other2[u][j] = other[u][j] /\ other2[u][j - 1] = other[u][j - 1]
                /\ own2[u][j] = own[u][j] /\ own2[u + 1][j] = own[u + 1][j]
            BY <2>11, <2>12, <6>1
          <6> QED
            BY <6>3, <6>4
        <5> QED
          BY <5>1, <5>2
      <4> QED
        BY <4>3, <4>4
    <3> QED
      BY <3>1, <3>2 DEF Grid
  <2>17. HoldsOwn(d, r, own2, context2)
    <3>1. ASSUME NEW i \in 1 .. Len(f) + 1
          PROVE  d.inflightOperations[i].operation = own2[v][a + i]
      <4>1. CASE i = Len(f) + 1
        <5>1. a + i = l + 1
          BY <1>4, <4>1
        <5> QED
          BY <1>4, <2>4, <2>9, <2>11, <4>1, <5>1 DEF Column
      <4>2. CASE i # Len(f) + 1
        <5>1. i \in 1 .. Len(f) /\ a + i \in 1 .. l
          <6> HIDE DEF a, f, l, k
          <6> QED
            BY <1>4, <4>2
        <5>2. f[i].operation = own[v][a + i]
          BY <1>1, <5>1 DEF LaidOut, HoldsOwn
        <5> QED
          BY <1>4, <2>4, <2>11, <5>1, <5>2
      <4> QED
        BY <4>1, <4>2
    <3>2. ASSUME NEW i \in 1 .. Len(q) + 1
          PROVE  /\ r[i].contextVersion = context2[k + i]
                 /\ r[i].operation = own2[r[i].contextVersion][k + i]
      <4>1. CASE i = Len(q) + 1
        <5>1. k + i = l + 1
          BY <1>4, <4>1
        <5> QED
          BY <1>4, <2>6, <2>9, <2>11, <4>1, <5>1 DEF Column
      <4>2. CASE i # Len(q) + 1
        <5>1. i \in 1 .. Len(q) /\ k + i \in 1 .. l
          <6> HIDE DEF a, f, l, k
          <6> QED
            BY <1>4, <4>2
        <5>2. /\ q[i].contextVersion = context[k + i]
              /\ q[i].operation = own[q[i].contextVersion][k + i]
          BY <1>1, <5>1 DEF LaidOut, HoldsOwn
        <5>3. q[i].contextVersion \in 0 .. n
          BY <1>4, <2>14, <5>1, <5>2, SMTT(30)
        <5> QED
          BY <2>6, <2>11, <5>1, <5>2, <5>3
      <4> QED
        BY <4>1, <4>2
    <3> QED
      BY <1>2, <1>3, <2>4, <2>6, <2>7, <3>1, <3>2 DEF HoldsOwn
  <2>18. HoldsOthers(s, hist, b, other2, k, context2)
    <3>1. \A u : MaybeUnseen(k, context2, u) <=> MaybeUnseen(k, context, u)
      <4>1. k # 0 => k \in 1 .. l
        BY <1>4
      <4> QED
        BY <2>11, <4>1 DEF MaybeUnseen
    <3>2. \A i \in 1 .. Len(b) : b[i].version \in Past(hist) =>
            other2[b[i].version][k] = other[b[i].version][k]
      BY <1>4, <2>11
    <3> QED
      BY <1>1, <3>1, <3>2 DEF LaidOut, HoldsOthers
  <2>19. LaidOut(s, hist, d, r, b, own2, other2, base, context2)
    BY <1>3, <2>2, <2>13, <2>15, <2>16, <2>17, <2>18 DEF LaidOut
  <2> QED
    BY <1>2, <2>19 DEF Agrees
<1> QED
  BY <1>5, <1>6

----------------------------------------------------------------------------
(* The server receives an operation of another session                     *)

\* What is said next is conveyed.
LEMMA ConveysOneMore ==
  ASSUME NEW hist, IsSequence(hist), NEW c, c.contextVersion \in Nat, NEW m, IsSequence(m),
         c.contextVersion + Len(m) = Len(hist), Conveys(hist, c, m),
         NEW e, NEW x, ~IsAck(x) => x.operation = e.operation
  PROVE  Conveys(Append(hist, e), c, Append(m, x))
<1> DEFINE v == c.contextVersion
           h == Append(hist, e)
           r == Append(m, x)
<1>1. Len(hist) \in Nat /\ Len(m) \in Nat
  BY SequenceIsFunction
<1>2. /\ \A i \in 1 .. Len(hist) : h[i] = hist[i]
      /\ h[Len(hist) + 1] = e
  BY AppendToSequence
<1>3. /\ Len(r) = Len(m) + 1 /\ \A i \in 1 .. Len(m) : r[i] = m[i]
      /\ r[Len(m) + 1] = x
  BY AppendToSequence
<1> HIDE DEF h, r
<1>4. ASSUME NEW i \in 1 .. Len(m) + 1, ~IsAck(r[i])
      PROVE  r[i].operation = h[v + i].operation
  <2>1. CASE i = Len(m) + 1
    <3>1. v + i = Len(hist) + 1
      BY <1>1, <2>1
    <3> QED
      BY <1>2, <1>3, <1>4, <2>1, <3>1
  <2>2. CASE i # Len(m) + 1
    <3>1. i \in 1 .. Len(m) /\ v + i \in 1 .. Len(hist)
      BY <1>1, <2>2
    <3> QED
      BY <1>2, <1>3, <1>4, <3>1 DEF Conveys
  <2> QED
    BY <2>1, <2>2
<1> QED
  BY <1>3, <1>4 DEF Conveys, h, r

\* In the rows up to n and the columns up to l nothing has changed.
SameUpTo(own, own2, n, l) == \A u \in 0 .. n : \A j \in 1 .. l : own2[u][j] = own[u][j]

\* What the session holds and has sent lies in the rows there were.
LEMMA HoldsOwnStays ==
  ASSUME NEW c, NEW q, NEW own, NEW context, HoldsOwn(c, q, own, context),
         NEW m, NEW n \in Nat, SessionOK(c, q, m, n), IssuedInTurn(c, context),
         NEW own2, SameUpTo(own, own2, n, c.lastSequenceNumber)
  PROVE  HoldsOwn(c, q, own2, context)
<1> DEFINE a == Acked(c)
           k == Received(c, q)
           f == c.inflightOperations
           v == c.contextVersion
           l == c.lastSequenceNumber
<1>0. /\ v \in 0 .. n /\ l \in Nat /\ Len(f) \in Nat /\ Len(q) \in Nat
      /\ a \in Nat /\ k \in Nat /\ a + Len(f) = l /\ k + Len(q) = l
      /\ \A j \in 1 .. l : context[j] \in 0 .. v
      /\ \A u \in 0 .. n : \A j \in 1 .. l : own2[u][j] = own[u][j]
  BY SessionCounts DEF IssuedInTurn, SameUpTo
<1>1. ASSUME NEW i \in 1 .. Len(f) PROVE f[i].operation = own2[v][a + i]
  <2>1. a + i \in 1 .. l
    <3> HIDE DEF a, f, l, v
    <3> QED
      BY <1>0
  <2> QED
    BY <1>0, <2>1 DEF HoldsOwn
<1>2. ASSUME NEW i \in 1 .. Len(q)
      PROVE  /\ q[i].contextVersion = context[k + i]
             /\ q[i].operation = own2[q[i].contextVersion][k + i]
  <2>1. k + i \in 1 .. l
    <3> HIDE DEF k, l, v
    <3> QED
      BY <1>0
  <2>2. /\ q[i].contextVersion = context[k + i]
        /\ q[i].operation = own[q[i].contextVersion][k + i]
    BY DEF HoldsOwn
  <2>3. q[i].contextVersion \in 0 .. v
    BY <1>0, <2>1, <2>2
  <2>4. q[i].contextVersion \in 0 .. n
    BY <1>0, <2>3
  <2> QED
    BY <1>0, <2>1, <2>2, <2>4
<1> QED
  BY <1>1, <1>2 DEF HoldsOwn

\* A row more: the operation of the other session, over those of s not yet received.
LEMMA AgreesOnceOtherReceived ==
  ASSUME NEW s, NEW hist, IsSequence(hist), NEW c, NEW q, NEW m, NEW b,
         SessionOK(c, q, m, Len(hist)), Agrees(s, hist, c, q, m, b),
         NEW e, e.sessionId # s, NEW x, x.operation = e.operation,
         NEW held, DOMAIN held = {"clientId", "version", "operation"},
         held.version = Len(hist), held.operation = e.operation
  PROVE  Agrees(s, Append(hist, e), c, q, Append(m, x), Append(b, held))
<1> DEFINE h == Append(hist, e)
           n == Len(hist)
           l == c.lastSequenceNumber
           k == Received(c, q)
           v == c.contextVersion
<1>1. PICK own, other, base, context :
        LaidOut(s, hist, c, q, b, own, other, base, context)
  BY DEF Agrees
<1>2. /\ l \in Nat /\ v \in 0 .. n /\ n \in Nat /\ Len(q) \in Nat /\ k \in 0 .. l
      /\ Len(c.inflightOperations) \in Nat /\ Acked(c) \in Nat
      /\ Acked(c) + Len(c.inflightOperations) = l /\ k + Len(q) = l
  BY SessionCounts, SequenceIsFunction
<1>3. /\ Len(h) = n + 1 /\ h[n + 1] = e
      /\ \A i \in 1 .. n : h[i] = hist[i]
  BY AppendToSequence
<1>4. /\ Past(hist) = 0 .. n - 1 /\ Past(h) = 0 .. n
      /\ \A u \in Past(hist) : u \in 0 .. n /\ u + 1 \in 0 .. n /\ u # n
                              /\ h[u + 1] = hist[u + 1]
      /\ \A u \in Past(h) : u = n \/ u \in Past(hist)
  BY <1>2, <1>3 DEF Past
<1>5. \A u \in Past(hist) : IsOwn(s, h, u) <=> IsOwn(s, hist, u)
  BY <1>4 DEF IsOwn
<1>6. ~IsOwn(s, h, n)
  BY <1>3 DEF IsOwn
<1>7. Conveys(h, c, Append(m, x))
  BY <1>2, ConveysOneMore DEF SessionOK, InStep, Agrees
<1> HIDE DEF h
<1> DEFINE fresh == [i \in 1 .. l - k |-> [operation |-> own[n][k + i]]]
           pair == PassInflight(fresh, e.operation)
<1>8. /\ pair[0].serverOp = e.operation
      /\ \A i \in 1 .. l - k :
           /\ pair[i].serverOp = TransformOperations(pair[i - 1].serverOp, own[n][k + i]).serverOp
           /\ pair[i].clientOp = TransformOperations(pair[i - 1].serverOp, own[n][k + i]).clientOp
  <2>1. l - k \in Nat
    BY <1>2
  <2>2. Len(fresh) = l - k
    BY <2>1, FunctionIsSequence
  <2>3. \A i \in 1 .. l - k : fresh[i].operation = own[n][k + i]
    OBVIOUS
  <2> HIDE DEF fresh
  <2>4. /\ pair[0] = OperationPair(e.operation, <<>>)
        /\ \A i \in 1 .. l - k :
             pair[i] = TransformOperations(pair[i - 1].serverOp, fresh[i].operation)
    BY <2>1, <2>2, PassInflightPairs
  <2> HIDE DEF pair
  <2> QED
    BY <2>3, <2>4 DEF OperationPair
<1> HIDE DEF fresh, pair
<1> DEFINE own2 == [u \in 0 .. n + 1 |-> [j \in 1 .. l |->
                      IF u # n + 1 THEN own[u][j]
                      ELSE IF j > k THEN pair[j - k].clientOp ELSE own[n][j]]]
           other2 == [u \in 0 .. n |-> [j \in 0 .. l |->
                        IF u # n THEN other[u][j] ELSE pair[j - k].serverOp]]
           base2 == [u \in 0 .. n + 1 |-> IF u # n + 1 THEN base[u] ELSE k]
<1>9. /\ \A u \in 0 .. n : \A j \in 1 .. l : own2[u][j] = own[u][j]
      /\ \A j \in 1 .. l : j > k => own2[n + 1][j] = pair[j - k].clientOp
  <2>1. /\ \A u \in 0 .. n : u \in 0 .. n + 1 /\ u # n + 1
        /\ n + 1 \in 0 .. n + 1
    BY <1>2
  <2> HIDE DEF n, l, k
  <2> QED
    BY <2>1
<1>10. /\ \A u \in Past(hist) : \A j \in 0 .. l : other2[u][j] = other[u][j]
       /\ \A j \in 0 .. l : other2[n][j] = pair[j - k].serverOp
  <2>1. n \in 0 .. n
    BY <1>2
  <2> HIDE DEF n, l, k
  <2> QED
    BY <1>4, <2>1
<1>11. /\ \A u \in 0 .. n : base2[u] = base[u]
       /\ base2[n + 1] = k
  <2>1. /\ \A u \in 0 .. n : u \in 0 .. n + 1 /\ u # n + 1
        /\ n + 1 \in 0 .. n + 1
    BY <1>2
  <2> HIDE DEF n, l, k
  <2> QED
    BY <2>1
<1> HIDE DEF own2, other2, base2
<1>12. base[n] = k /\ \A u \in 0 .. n : base[u] \in 0 .. k
  BY <1>1 DEF LaidOut, CountsOwn
<1>13. CountsOwn(s, h, c, q, base2)
  <2>1. 0 \in 0 .. n /\ n \in 0 .. n /\ k \in 0 .. k
    BY <1>2
  <2>2. base2[0] = 0 /\ base2[v] = Acked(c) /\ base2[Len(h)] = k
    BY <1>1, <1>2, <1>3, <1>11, <2>1 DEF LaidOut, CountsOwn
  <2>3. ASSUME NEW u \in 0 .. Len(h) PROVE base2[u] \in 0 .. k
    <3>1. u = n + 1 \/ u \in 0 .. n
      BY <1>2, <1>3
    <3> QED
      BY <1>11, <1>12, <2>1, <3>1
  <2>4. ASSUME NEW u \in Past(h)
        PROVE  base2[u + 1] = IF IsOwn(s, h, u) THEN base2[u] + 1 ELSE base2[u]
    <3>1. CASE u = n
      BY <1>6, <1>11, <1>12, <2>1, <3>1
    <3>2. CASE u \in Past(hist)
      <4>1. base[u + 1] = IF IsOwn(s, hist, u) THEN base[u] + 1 ELSE base[u]
        BY <1>1, <3>2 DEF LaidOut, CountsOwn
      <4> QED
        BY <1>4, <1>5, <1>11, <3>2, <4>1
    <3> QED
      BY <1>4, <3>1, <3>2
  <2> QED
    BY <2>2, <2>3, <2>4 DEF CountsOwn
<1>14. \A j \in 1 .. l : context[j] \in 0 .. v
  BY <1>1 DEF LaidOut, IssuedInTurn
<1>15. Grid(s, h, l, own2, other2, base2, context)
  <2>1. ASSUME NEW u \in Past(hist)
        PROVE  /\ base2[u] = base[u] /\ base[u] \in 0 .. l /\ h[u + 1] = hist[u + 1]
               /\ \A j \in 1 .. l : own2[u][j] = own[u][j] /\ own2[u + 1][j] = own[u + 1][j]
               /\ \A j \in 0 .. l : other2[u][j] = other[u][j]
    <3>1. base[u] \in 0 .. k /\ base2[u] = base[u]
      BY <1>4, <1>11, <1>12
    <3>2. base[u] \in 0 .. l
      BY <1>2, <3>1
    <3> QED
      BY <1>4, <1>9, <1>10, <3>1, <3>2
  <2>2. ASSUME NEW u \in Past(hist), IsOwn(s, hist, u)
        PROVE  /\ h[u + 1].operation = own2[u][base2[u] + 1]
               /\ \A j \in base2[u] + 2 .. l : context[j] <= u => own2[u + 1][j] = own2[u][j]
    <3>1. base[u + 1] = base[u] + 1 /\ base[u] \in 0 .. k /\ base[u + 1] \in 0 .. k
      BY <1>1, <1>4, <1>12, <2>2 DEF LaidOut, CountsOwn
    <3>2. base[u] + 1 \in 1 .. l
      BY <1>2, <3>1
    <3>3. \A j \in base[u] + 2 .. l : j \in 1 .. l
      BY <1>2, <3>1
    <3> QED
      BY <1>1, <2>1, <2>2, <3>2, <3>3 DEF LaidOut, Grid
  <2>3. ASSUME NEW u \in Past(hist), ~IsOwn(s, hist, u)
        PROVE  /\ h[u + 1].operation = other2[u][base2[u]]
               /\ \A j \in base2[u] + 1 .. l : context[j] <= u =>
                    /\ other2[u][j] = TransformOperations(other2[u][j - 1], own2[u][j]).serverOp
                    /\ own2[u + 1][j] =
                         TransformOperations(other2[u][j - 1], own2[u][j]).clientOp
    <3>1. \A j \in base[u] + 1 .. l : j \in 1 .. l /\ j \in 0 .. l /\ j - 1 \in 0 .. l
      BY <1>2, <2>1, SMTT(30)
    <3> QED
      BY <1>1, <2>1, <2>3, <3>1 DEF LaidOut, Grid
  <2>4. /\ h[n + 1].operation = other2[n][base2[n]]
        /\ \A j \in base2[n] + 1 .. l : context[j] <= n =>
             /\ other2[n][j] = TransformOperations(other2[n][j - 1], own2[n][j]).serverOp
             /\ own2[n + 1][j] = TransformOperations(other2[n][j - 1], own2[n][j]).clientOp
    <3>0. n \in 0 .. n /\ k - k = 0
      <4> HIDE DEF k, n
      <4> QED
        BY <1>2
    <3>1. base2[n] = k /\ k - k = 0 /\ n \in 0 .. n
      BY <1>11, <1>12, <3>0
    <3>2. h[n + 1].operation = other2[n][base2[n]]
      BY <1>2, <1>3, <1>8, <1>10, <3>1
    <3>3. ASSUME NEW j \in k + 1 .. l
          PROVE  /\ other2[n][j] = TransformOperations(other2[n][j - 1], own2[n][j]).serverOp
                 /\ own2[n + 1][j] = TransformOperations(other2[n][j - 1], own2[n][j]).clientOp
      <4>1. /\ j \in 1 .. l /\ j \in 0 .. l /\ j - 1 \in 0 .. l /\ j > k
            /\ j - k \in 1 .. l - k /\ (j - 1) - k = (j - k) - 1 /\ k + (j - k) = j
        <5> HIDE DEF k, l
        <5> QED
          BY <1>2
      <4>2. /\ other2[n][j] = pair[j - k].serverOp /\ own2[n + 1][j] = pair[j - k].clientOp
            /\ other2[n][j - 1] = pair[(j - k) - 1].serverOp /\ own2[n][j] = own[n][j]
        BY <1>9, <1>10, <3>1, <4>1
      <4>3. /\ pair[j - k].serverOp =
                 TransformOperations(pair[(j - k) - 1].serverOp, own[n][k + (j - k)]).serverOp
            /\ pair[j - k].clientOp =
                 TransformOperations(pair[(j - k) - 1].serverOp, own[n][k + (j - k)]).clientOp
        BY <1>8, <4>1
      <4> QED
        BY <4>1, <4>2, <4>3
    <3> QED
      BY <3>1, <3>2, <3>3
  <2> QED
    BY <1>4, <1>5, <1>6, <2>2, <2>3, <2>4 DEF Grid
<1>16. HoldsOwn(c, q, own2, context)
  <2>1. HoldsOwn(c, q, own, context)
    BY <1>1 DEF LaidOut
  <2>2. SameUpTo(own, own2, n, l) /\ IssuedInTurn(c, context)
    BY <1>1, <1>9 DEF SameUpTo, LaidOut
  <2> QED
    BY <1>2, <2>1, <2>2, HoldsOwnStays
<1>17. HoldsOthers(s, h, Append(b, held), other2, k, context)
  <2> DEFINE b2 == Append(b, held)
  <2>1. HoldsOthers(s, hist, b, other, k, context)
    BY <1>1 DEF LaidOut
  <2>2. /\ IsSequence(b2) /\ Len(b2) = Len(b) + 1 /\ Len(b) \in Nat
        /\ \A i \in 1 .. Len(b) : b2[i] = b[i]
        /\ b2[Len(b) + 1] = held
    BY <2>1, AppendToSequence, SequenceIsFunction DEF HoldsOthers
  <2> HIDE DEF b2
  <2>3. \A i \in 1 .. Len(b2) : i = Len(b) + 1 \/ i \in 1 .. Len(b)
    BY <2>2
  <2>4. ASSUME NEW i \in 1 .. Len(b2)
        PROVE  /\ DOMAIN b2[i] = {"clientId", "version", "operation"}
               /\ b2[i].version \in Past(h) /\ ~IsOwn(s, h, b2[i].version)
               /\ MaybeUnseen(k, context, b2[i].version)
               /\ b2[i].operation = other2[b2[i].version][k]
    <3>1. CASE i = Len(b) + 1
      <4>1. n \in Past(h) /\ k \in 0 .. l /\ k - k = 0
        BY <1>2, <1>4
      <4>2. MaybeUnseen(k, context, n)
        <5>1. k # 0 => k \in 1 .. l
          BY <1>2
        <5>2. k # 0 => context[k] \in 0 .. v
          BY <1>14, <5>1
        <5>3. k # 0 => context[k] <= n
          BY <1>2, <5>2
        <5> QED
          BY <5>3 DEF MaybeUnseen
      <4> QED
        BY <1>6, <1>8, <1>10, <2>2, <3>1, <4>1, <4>2
    <3>2. CASE i \in 1 .. Len(b)
      <4>1. b[i].version \in Past(hist) /\ k \in 0 .. l
        BY <1>2, <2>1, <3>2 DEF HoldsOthers
      <4>2. b[i].version \in Past(h)
        BY <1>2, <1>4, <4>1
      <4> QED
        BY <1>5, <1>10, <2>1, <2>2, <3>2, <4>1, <4>2, SMTT(30) DEF HoldsOthers
    <3> QED
      BY <2>3, <3>1, <3>2
  <2>5. ASSUME NEW i \in 1 .. Len(b2), NEW j \in 1 .. Len(b2), i < j
        PROVE  b2[i].version < b2[j].version
    <3>1. i \in 1 .. Len(b)
      BY <2>2, <2>5
    <3>2. CASE j = Len(b) + 1
      <4>1. b[i].version \in Past(hist)
        BY <2>1, <3>1 DEF HoldsOthers
      <4> QED
        BY <1>2, <1>4, <2>2, <3>1, <3>2, <4>1
    <3>3. CASE j \in 1 .. Len(b)
      BY <2>1, <2>2, <2>5, <3>1, <3>3 DEF HoldsOthers
    <3> QED
      BY <2>3, <3>2, <3>3
  <2>6. ASSUME NEW u \in Past(h), ~IsOwn(s, h, u), MaybeUnseen(k, context, u)
        PROVE  \E i \in 1 .. Len(b2) : b2[i].version = u
    <3>1. CASE u = n
      <4>1. Len(b) + 1 \in 1 .. Len(b2)
        BY <2>2
      <4> QED
        BY <2>2, <3>1, <4>1
    <3>2. CASE u \in Past(hist)
      <4>1. PICK i \in 1 .. Len(b) : b[i].version = u
        BY <1>5, <2>1, <2>6, <3>2 DEF HoldsOthers
      <4>2. i \in 1 .. Len(b2)
        BY <2>2
      <4> QED
        BY <2>2, <4>1, <4>2
    <3> QED
      BY <1>4, <3>1, <3>2
  <2> QED
    BY <2>2, <2>4, <2>5, <2>6 DEF HoldsOthers, b2
<1>18. LaidOut(s, h, c, q, Append(b, held), own2, other2, base2, context)
  BY <1>1, <1>13, <1>15, <1>16, <1>17 DEF LaidOut
<1> QED
  BY <1>7, <1>18 DEF Agrees, h

----------------------------------------------------------------------------
(* The server receives an operation of the session                         *)

\* Of what the server holds, in the order of the versions, it takes what is of a version
\* and after.
LEMMA NotSeenAtKeeps ==
  ASSUME NEW b, IsSequence(b), \A i \in 1 .. Len(b) : b[i].version \in Nat,
         \A i, j \in 1 .. Len(b) : i < j => b[i].version < b[j].version,
         NEW x \in Nat
  PROVE  LET w == NotSeenAt(b, x)
         IN  /\ IsSequence(w)
             /\ \A i \in 1 .. Len(w) :
                  \E j \in 1 .. Len(b) : w[i] = b[j] /\ b[j].version >= x
             /\ \A i, j \in 1 .. Len(w) : i < j => w[i].version < w[j].version
             /\ \A j \in 1 .. Len(b) : b[j].version >= x => \E i \in 1 .. Len(w) : w[i] = b[j]
<1> DEFINE n == Len(b)
           Splits(k) == \A i \in 1 .. n : b[i].version < x <=> i <= k
           T == {k \in 0 .. n : \A i \in 1 .. n : k < i => b[i].version >= x}
           w == NotSeenAt(b, x)
<1>1. n \in Nat /\ b = [i \in 1 .. n |-> b[i]]
  BY SequenceIsFunction
<1>2. n \in T /\ T \subseteq Nat
  BY <1>1
<1>3. PICK k \in T : \A y \in T : k <= y
  BY <1>2, LeastNatural
<1>4. k \in 0 .. n /\ \A i \in 1 .. n : k < i => b[i].version >= x
  BY <1>3
<1>5. k # 0 => b[k].version < x
  <2> SUFFICES ASSUME k # 0, ~(b[k].version < x) PROVE FALSE
    OBVIOUS
  <2>1. k \in 1 .. n /\ k - 1 \in 0 .. n /\ ~(k <= k - 1)
    BY <1>1, <1>4
  <2>2. b[k].version >= x
    BY <2>1
  <2>3. \A i \in 1 .. n : k - 1 < i => b[i].version >= x
    <3>1. ASSUME NEW i \in 1 .. n, k - 1 < i PROVE b[i].version >= x
      <4>1. i = k \/ k < i
        BY <1>4, <3>1
      <4> QED
        BY <1>4, <2>2, <4>1
    <3> QED
      BY <3>1
  <2>4. k - 1 \in T
    BY <2>1, <2>3
  <2> HIDE DEF T
  <2> QED
    BY <1>3, <2>1, <2>4
<1>6. Splits(k)
  <2>1. ASSUME NEW i \in 1 .. n PROVE b[i].version < x <=> i <= k
    <3>1. CASE k < i
      BY <1>4, <3>1
    <3>2. CASE i = k
      BY <1>5, <3>2
    <3>3. CASE i < k
      <4>1. k \in 1 .. n /\ k # 0
        BY <1>4, <3>3
      <4>2. b[i].version < b[k].version /\ b[k].version < x
        BY <1>5, <3>3, <4>1
      <4>3. b[i].version \in Nat /\ b[k].version \in Nat
        BY <4>1
      <4>4. b[i].version < x
        BY <4>2, <4>3
      <4> QED
        BY <1>4, <3>3, <4>4
    <3> QED
      BY <1>4, <3>1, <3>2, <3>3
  <2> QED
    BY <2>1
<1> DEFINE seen == CHOOSE p \in 0 .. n : Splits(p)
<1>7. w = SubSeq(b, seen + 1, n)
  BY DEF NotSeenAt
<1>8. seen \in 0 .. n /\ Splits(seen)
  <2>1. \E p \in 0 .. n : Splits(p)
    BY <1>4, <1>6
  <2> HIDE DEF Splits
  <2> QED
    BY <2>1
<1> HIDE DEF seen, w
<1> DEFINE S == {b[i] : i \in DOMAIN b}
<1>9. /\ w \in Seq(S) /\ Len(w) = n - seen
      /\ \A i \in 1 .. n - seen : w[i] = b[seen + i]
  <2>1. \A i \in seen + 1 .. n : b[i] \in S
    BY <1>1, <1>8
  <2>2. seen + 1 \in Int /\ n \in Int
    BY <1>1, <1>8
  <2> HIDE DEF S, Splits, n
  <2>3. /\ w \in Seq(S)
        /\ Len(w) = IF seen + 1 <= n THEN n - (seen + 1) + 1 ELSE 0
        /\ \A i \in 1 .. n - (seen + 1) + 1 : w[i] = b[(seen + 1) + i - 1]
    BY <1>7, <2>1, <2>2, SubSeqProperties
  <2>4. /\ n - (seen + 1) + 1 = n - seen
        /\ (IF seen + 1 <= n THEN n - (seen + 1) + 1 ELSE 0) = n - seen
    BY <1>1, <1>8
  <2>5. ASSUME NEW i \in 1 .. n - seen PROVE w[i] = b[seen + i]
    <3>1. i \in 1 .. n - (seen + 1) + 1 /\ (seen + 1) + i - 1 = seen + i
      BY <1>1, <1>8, <2>4
    <3>2. w[i] = b[(seen + 1) + i - 1]
      BY <2>3, <3>1
    <3> QED
      BY <3>1, <3>2
  <2>6. Len(w) = n - seen
    BY <2>3, <2>4
  <2> QED
    BY <2>3, <2>5, <2>6
<1>10. IsSequence(w)
  <2>1. Len(w) \in Nat /\ w = [i \in 1 .. Len(w) |-> w[i]]
    BY <1>9, LenProperties
  <2> QED
    BY <2>1, FunctionIsSequence
<1>11. ASSUME NEW i \in 1 .. Len(w)
       PROVE  seen + i \in 1 .. n /\ w[i] = b[seen + i] /\ b[seen + i].version >= x
  <2>1. i \in 1 .. n - seen /\ seen + i \in 1 .. n /\ ~(seen + i <= seen)
    BY <1>1, <1>8, <1>9
  <2>2. ~(b[seen + i].version < x) /\ b[seen + i].version \in Nat
    BY <1>8, <2>1
  <2> QED
    BY <1>9, <2>1, <2>2
<1>12. ASSUME NEW i \in 1 .. Len(w), NEW j \in 1 .. Len(w), i < j
       PROVE  w[i].version < w[j].version
  <2>1. seen + i < seen + j
    BY <1>8, <1>12
  <2> QED
    BY <1>11, <2>1
<1>13. ASSUME NEW j \in 1 .. n, b[j].version >= x PROVE \E i \in 1 .. Len(w) : w[i] = b[j]
  <2>1. ~(j <= seen)
    <3>1. b[j].version \in Nat /\ ~(b[j].version < x)
      BY <1>13
    <3> QED
      BY <1>8, <3>1
  <2>2. j - seen \in 1 .. Len(w) /\ seen + (j - seen) = j
    BY <1>1, <1>8, <1>9, <2>1
  <2> QED
    BY <1>9, <2>2
<1> QED
  BY <1>10, <1>11, <1>12, <1>13 DEF w

\* What the server has taken of what it holds, for the operation that follows the first
\* k of s, issued at version x.
TakenFor(s, hist, w, other, k, x) ==
  /\ IsSequence(w)
  /\ \A i \in 1 .. Len(w) :
       /\ DOMAIN w[i] = {"clientId", "version", "operation"}
       /\ w[i].version \in Past(hist) /\ ~IsOwn(s, hist, w[i].version) /\ w[i].version >= x
       /\ w[i].operation = other[w[i].version][k]
  /\ \A i, j \in 1 .. Len(w) : i < j => w[i].version < w[j].version
  /\ \A v \in Past(hist) : ~IsOwn(s, hist, v) /\ v >= x => \E i \in 1 .. Len(w) : w[i].version = v

\* Past all of it the operation is as of the last version, and all of it is past one more
\* operation of s.
MovesToNextColumn(s, hist, w, own, other, k, operation) ==
  LET passed == TransformOutgoing(w, operation)
  IN  /\ passed.operation = own[Len(hist)][k + 1]
      /\ IsSequence(passed.serverOps) /\ Len(passed.serverOps) = Len(w)
      /\ \A i \in 1 .. Len(w) :
           /\ DOMAIN passed.serverOps[i] = {"clientId", "version", "operation"}
           /\ passed.serverOps[i].version = w[i].version
           /\ passed.serverOps[i].operation = other[w[i].version][k + 1]

\* The server walks down the column of the operation it receives.
LEMMA PassingWalksTheColumn ==
  ASSUME NEW s, NEW hist, Len(hist) \in Nat, NEW own, NEW other, NEW k \in Nat,
         NEW x \in 0 .. Len(hist), NEW w, TakenFor(s, hist, w, other, k, x),
         NEW operation, operation = own[x][k + 1],
         \A v \in Past(hist) : v >= x =>
           /\ IsOwn(s, hist, v) => own[v + 1][k + 1] = own[v][k + 1]
           /\ ~IsOwn(s, hist, v) =>
                /\ other[v][k + 1] = TransformOperations(other[v][k], own[v][k + 1]).serverOp
                /\ own[v + 1][k + 1] = TransformOperations(other[v][k], own[v][k + 1]).clientOp
  PROVE  MovesToNextColumn(s, hist, w, own, other, k, operation)
<1> DEFINE n == Len(hist)
           l == Len(w)
<1>1. /\ IsSequence(w) /\ l \in Nat /\ DOMAIN w = 1 .. l /\ n \in Nat
      /\ \A i \in 1 .. l : w[i].version \in Nat /\ w[i].version < n /\ w[i].version >= x
      /\ \A i, j \in 1 .. l : i < j => w[i].version < w[j].version
  <2>1. IsSequence(w) /\ l \in Nat /\ DOMAIN w = 1 .. l
    BY SequenceIsFunction DEF TakenFor
  <2>2. \A i \in 1 .. l : w[i].version \in Nat /\ w[i].version < n
    BY DEF TakenFor, Past
  <2> QED
    BY <2>1, <2>2 DEF TakenFor
<1>2. PICK pair : PassesAll(pair, w, operation)
  BY <1>1, TransformOutgoingPairs
<1> DEFINE Before(y, v) == \A i \in 1 .. l : w[i].version < v <=> i <= y
           At(y, v) == pair[y].clientOp = own[v][k + 1] /\ Before(y, v)
           T == {v \in x .. n : \E y \in 0 .. l : At(y, v)}
<1>3. x \in T
  <2>1. At(0, x)
    <3>1. pair[0].clientOp = own[x][k + 1]
      BY <1>2 DEF PassesAll, OperationPair
    <3>2. Before(0, x)
      BY <1>1
    <3> QED
      BY <3>1, <3>2
  <2>2. 0 \in 0 .. l /\ x \in x .. n
    BY <1>1
  <2> HIDE DEF At
  <2> QED
    BY <2>1, <2>2
\* The next of another is the one after those before it.
<1>4. ASSUME NEW y \in 0 .. l, NEW i \in 1 .. l, Before(y, w[i].version)
      PROVE  i = y + 1
  <2>1. ~(i <= y)
    BY <1>1, <1>4
  <2>2. CASE i > y + 1
    <3>1. y + 1 \in 1 .. l /\ y + 1 < i
      BY <1>1, <2>2
    <3>2. w[y + 1].version < w[i].version
      BY <1>1, <3>1
    <3>3. y + 1 <= y
      BY <1>4, <3>1, <3>2
    <3> QED
      BY <3>3
  <2> QED
    BY <1>1, <2>1, <2>2
<1>5. ASSUME NEW y \in 0 .. l, NEW i \in 1 .. l, At(y, w[i].version)
      PROVE  /\ i = y + 1
             /\ pair[i].serverOp = other[w[i].version][k + 1]
             /\ pair[i].clientOp = own[w[i].version + 1][k + 1]
  <2> DEFINE v == w[i].version
  <2>1. i = y + 1
    BY <1>4, <1>5
  <2>2. /\ v \in Past(hist) /\ v >= x /\ ~IsOwn(s, hist, v) /\ w[i].operation = other[v][k]
    BY DEF TakenFor
  <2>3. pair[i] = TransformOperations(other[v][k], own[v][k + 1])
    <3>1. pair[i] = TransformOperations(w[i].operation, pair[i - 1].clientOp)
      BY <1>2 DEF PassesAll
    <3>2. i - 1 = y
      BY <2>1
    <3>3. pair[y].clientOp = own[v][k + 1]
      BY <1>5
    <3> QED
      BY <2>2, <3>1, <3>2, <3>3
  <2>4. /\ other[v][k + 1] = TransformOperations(other[v][k], own[v][k + 1]).serverOp
        /\ own[v + 1][k + 1] = TransformOperations(other[v][k], own[v][k + 1]).clientOp
    BY <2>2
  <2> HIDE DEF v
  <2> QED
    BY <2>1, <2>3, <2>4 DEF v
<1>6. ASSUME NEW v \in x .. n - 1, v \in T PROVE v + 1 \in T
  <2>1. PICK y \in 0 .. l : At(y, v)
    BY <1>6
  <2>2. v \in Past(hist) /\ v >= x /\ v + 1 \in x .. n /\ v \in Nat
    BY <1>1 DEF Past
  <2>3. CASE IsOwn(s, hist, v)
    <3>1. own[v + 1][k + 1] = own[v][k + 1]
      BY <2>2, <2>3
    <3>2. Before(y, v + 1)
      <4>1. ASSUME NEW i \in 1 .. l PROVE w[i].version < v + 1 <=> i <= y
        <5>1. w[i].version # v
          BY <2>3 DEF TakenFor
        <5>2. w[i].version < v <=> i <= y
          BY <2>1
        <5>3. w[i].version \in Nat
          BY <1>1
        <5> QED
          BY <2>2, <5>1, <5>2, <5>3
      <4> QED
        BY <4>1
    <3>3. At(y, v + 1)
      BY <2>1, <3>1, <3>2
    <3> HIDE DEF At
    <3> QED
      BY <2>2, <3>3
  <2>4. CASE ~IsOwn(s, hist, v)
    <3>1. PICK i \in 1 .. l : w[i].version = v
      BY <2>2, <2>4 DEF TakenFor
    <3>2. i = y + 1 /\ pair[i].clientOp = own[v + 1][k + 1]
      BY <1>5, <2>1, <3>1
    <3>3. Before(i, v + 1)
      <4>1. ASSUME NEW j \in 1 .. l PROVE w[j].version < v + 1 <=> j <= i
        <5>1. w[j].version < v <=> j <= y
          BY <2>1
        <5>2. i < j => v < w[j].version
          BY <1>1, <3>1
        <5>3. w[j].version \in Nat
          BY <1>1
        <5>4. CASE j <= y
          <6>1. j <= i /\ w[j].version < v
            BY <3>2, <5>1, <5>4
          <6> QED
            BY <2>2, <5>3, <6>1
        <5>5. CASE j = i
          BY <2>2, <3>1, <5>5
        <5>6. CASE i < j
          BY <2>2, <5>2, <5>3, <5>6
        <5>7. j <= y \/ j = i \/ i < j
          BY <1>1, <3>2
        <5> QED
          BY <5>4, <5>5, <5>6, <5>7
      <4> QED
        BY <4>1
    <3>4. At(i, v + 1) /\ i \in 0 .. l
      BY <3>2, <3>3
    <3> HIDE DEF At
    <3> QED
      BY <2>2, <3>4
  <2> QED
    BY <2>3, <2>4
<1>7. x .. n \subseteq T
  <2> HIDE DEF T
  <2>1. x \in Nat /\ x <= n /\ \A v \in x .. n - 1 : v \in T => v + 1 \in T
    BY <1>1, <1>6
  <2> QED
    BY <1>1, <1>3, <2>1, UpTo
<1>8. pair[l].clientOp = own[n][k + 1]
  <2>1. n \in x .. n
    BY <1>1
  <2>2. PICK y \in 0 .. l : At(y, n)
    BY <1>7, <2>1
  <2>3. \A i \in 1 .. l : i <= y
    BY <1>1, <2>2
  <2>4. l = 0 \/ l \in 1 .. l
    BY <1>1
  <2>5. y = l
    <3>1. l \in Nat /\ y \in Int /\ 0 <= y /\ y <= l
      BY <1>1
    <3>2. l = 0 \/ l <= y
      BY <2>3, <2>4
    <3> HIDE DEF l, At
    <3> QED
      BY <3>1, <3>2
  <2> QED
    BY <2>2, <2>5
<1>9. ASSUME NEW i \in 1 .. l PROVE pair[i].serverOp = other[w[i].version][k + 1]
  <2>1. w[i].version \in x .. n
    BY <1>1
  <2>2. PICK y \in 0 .. l : At(y, w[i].version)
    BY <1>7, <2>1
  <2> HIDE DEF At
  <2> QED
    BY <1>5, <2>2
<1> DEFINE r == TransformOutgoing(w, operation).serverOps
<1>10. r = [i \in 1 .. l |-> [w[i] EXCEPT !.operation = pair[i].serverOp]]
  BY <1>2 DEF PassesAll
<1> HIDE DEF r
<1>11. IsSequence(r) /\ Len(r) = l
  <2>1. r = [i \in 1 .. l |-> r[i]]
    BY <1>10
  <2> QED
    BY <1>1, <2>1, FunctionIsSequence
<1>12. ASSUME NEW i \in 1 .. l
       PROVE  /\ DOMAIN r[i] = {"clientId", "version", "operation"}
              /\ r[i].version = w[i].version
              /\ r[i].operation = other[w[i].version][k + 1]
  <2>1. DOMAIN w[i] = {"clientId", "version", "operation"}
    BY DEF TakenFor
  <2>2. r[i] = [w[i] EXCEPT !.operation = pair[i].serverOp]
    BY <1>10
  <2> QED
    BY <1>9, <2>1, <2>2
<1> QED
  BY <1>2, <1>8, <1>11, <1>12 DEF MovesToNextColumn, PassesAll, r

\* A row more: the operation of the session, past what the server holds and the session
\* had not seen; and a column less to receive.
LEMMA AgreesOnceOwnReceived ==
  ASSUME NEW s, NEW hist, IsSequence(hist), NEW c, NEW q, NEW m, NEW b,
         SessionOK(c, q, m, Len(hist)), q # <<>>, Agrees(s, hist, c, q, m, b),
         NEW passed,
         passed = TransformOutgoing(NotSeenAt(b, Head(q).contextVersion), Head(q).operation),
         NEW e, e.sessionId = s, e.operation = passed.operation, NEW x, IsAck(x)
  PROVE  Agrees(s, Append(hist, e), c, Tail(q), Append(m, x), passed.serverOps)
<1> DEFINE h == Append(hist, e)
           n == Len(hist)
           l == c.lastSequenceNumber
           k == Received(c, q)
           v == c.contextVersion
           y == Head(q).contextVersion
           w == NotSeenAt(b, y)
           r == Tail(q)
<1>1. PICK own, other, base, context :
        LaidOut(s, hist, c, q, b, own, other, base, context)
  BY DEF Agrees
<1>2. /\ l \in Nat /\ v \in 0 .. n /\ n \in Nat /\ Len(q) \in Nat /\ k \in 0 .. l
      /\ Len(c.inflightOperations) \in Nat /\ Acked(c) \in 0 .. k
      /\ Acked(c) + Len(c.inflightOperations) = l /\ k + Len(q) = l
  BY SessionCounts, SequenceIsFunction
<1>3. /\ Len(h) = n + 1 /\ h[n + 1] = e
      /\ \A i \in 1 .. n : h[i] = hist[i]
  BY AppendToSequence
<1>4. /\ Past(hist) = 0 .. n - 1 /\ Past(h) = 0 .. n
      /\ \A u \in Past(hist) : u \in 0 .. n /\ u + 1 \in 0 .. n /\ u # n
                              /\ h[u + 1] = hist[u + 1]
      /\ \A u \in Past(h) : u = n \/ u \in Past(hist)
  BY <1>2, <1>3 DEF Past
<1>5. \A u \in Past(hist) : IsOwn(s, h, u) <=> IsOwn(s, hist, u)
  BY <1>4 DEF IsOwn
<1>6. IsOwn(s, h, n)
  BY <1>3 DEF IsOwn
<1>7. Conveys(h, c, Append(m, x))
  BY <1>2, ConveysOneMore DEF SessionOK, InStep, Agrees
<1>8. /\ Len(q) >= 1 /\ Len(r) = Len(q) - 1 /\ Head(q) = q[1]
      /\ \A i \in 1 .. Len(q) - 1 : r[i] = q[i + 1]
  BY TailOfSequence DEF SessionOK, Numbered
<1> HIDE DEF h, r
<1>9. /\ k + 1 \in 1 .. l /\ Len(r) \in Nat /\ Received(c, r) = k + 1
      /\ Acked(c) \in Nat /\ k + 1 \in Nat /\ (k + 1) - 1 = k
  <2>1. /\ k + 1 \in 1 .. l /\ Len(r) \in Nat /\ l - (Len(q) - 1) = k + 1
        /\ Acked(c) \in Nat /\ k + 1 \in Nat /\ (k + 1) - 1 = k
    <3>1. \A i, j, z \in Nat : i <= j /\ z >= 1 /\ i + z = j =>
            i + 1 \in 1 .. j /\ z - 1 \in Nat /\ j - (z - 1) = i + 1 /\ (i + 1) - 1 = i
      OBVIOUS
    <3>2. k \in Nat /\ Acked(c) \in Nat /\ k <= l
      BY <1>2
    <3> HIDE DEF k, l
    <3> QED
      BY <1>2, <1>8, <3>1, <3>2
  <2> QED
    BY <1>8, <2>1 DEF Received
<1>10. \A j \in 1 .. l : context[j] \in 0 .. v
  BY <1>1 DEF LaidOut, IssuedInTurn
<1>11. /\ y = context[k + 1] /\ Head(q).operation = own[y][k + 1]
       /\ y \in 0 .. v /\ y \in 0 .. n /\ y \in Nat
  <2>1. 1 \in 1 .. Len(q)
    BY <1>2, <1>8
  <2>2. y = context[k + 1] /\ Head(q).operation = own[y][k + 1]
    BY <1>1, <1>8, <2>1 DEF LaidOut, HoldsOwn
  <2>3. y \in 0 .. v
    BY <1>9, <1>10, <2>2
  <2> HIDE DEF y, v, n
  <2> QED
    BY <1>2, <2>2, <2>3
<1>12. base[n] = k /\ \A u \in 0 .. n : base[u] \in 0 .. k
  BY <1>1 DEF LaidOut, CountsOwn
<1>13. TakenFor(s, hist, w, other, k, y)
  <2>1. HoldsOthers(s, hist, b, other, k, context)
    BY <1>1 DEF LaidOut
  <2>2. /\ IsSequence(b) /\ \A i \in 1 .. Len(b) : b[i].version \in Nat
        /\ \A i, j \in 1 .. Len(b) : i < j => b[i].version < b[j].version
    BY <1>2, <1>4, <2>1 DEF HoldsOthers
  <2> HIDE DEF y
  <2>3. /\ IsSequence(w)
        /\ \A i \in 1 .. Len(w) : \E j \in 1 .. Len(b) : w[i] = b[j] /\ b[j].version >= y
        /\ \A i, j \in 1 .. Len(w) : i < j => w[i].version < w[j].version
        /\ \A j \in 1 .. Len(b) : b[j].version >= y => \E i \in 1 .. Len(w) : w[i] = b[j]
    BY <1>11, <2>2, NotSeenAtKeeps
  <2> HIDE DEF w
  <2>4. ASSUME NEW u \in Past(hist), u >= y PROVE MaybeUnseen(k, context, u)
    <3>1. CASE k = 0
      BY <3>1 DEF MaybeUnseen
    <3>2. CASE k # 0
      <4>1. k \in 1 .. l /\ k <= k + 1
        BY <1>2, <3>2
      <4>2. context[k] <= context[k + 1] /\ context[k] \in 0 .. v
        BY <1>1, <1>9, <1>10, <4>1 DEF LaidOut, IssuedInTurn
      <4>3. context[k] <= y /\ context[k] \in Int /\ y \in Int /\ u \in Int
        BY <1>4, <1>11, <4>2
      <4> QED
        BY <2>4, <4>3 DEF MaybeUnseen
    <3> QED
      BY <3>1, <3>2
  <2>5. ASSUME NEW i \in 1 .. Len(w)
        PROVE  /\ DOMAIN w[i] = {"clientId", "version", "operation"}
               /\ w[i].version \in Past(hist) /\ ~IsOwn(s, hist, w[i].version)
               /\ w[i].version >= y /\ w[i].operation = other[w[i].version][k]
    BY <2>1, <2>3, SMTT(30) DEF HoldsOthers
  <2>6. ASSUME NEW u \in Past(hist), ~IsOwn(s, hist, u), u >= y
        PROVE  \E i \in 1 .. Len(w) : w[i].version = u
    <3>1. MaybeUnseen(k, context, u)
      BY <2>4, <2>6
    <3>2. PICK j \in 1 .. Len(b) : b[j].version = u
      BY <2>1, <2>6, <3>1 DEF HoldsOthers
    <3> QED
      BY <2>3, <2>6, <3>2
  <2> QED
    BY <2>3, <2>5, <2>6 DEF TakenFor
<1>14. MovesToNextColumn(s, hist, w, own, other, k, Head(q).operation)
  <2>1. ASSUME NEW u \in Past(hist), u >= y, IsOwn(s, hist, u)
        PROVE  own[u + 1][k + 1] = own[u][k + 1]
    <3>1. base[u + 1] = base[u] + 1 /\ base[u] \in 0 .. k /\ base[u + 1] \in 0 .. k
      BY <1>1, <1>4, <1>12, <2>1 DEF LaidOut, CountsOwn
    <3>2. k + 1 \in base[u] + 2 .. l
      <4> HIDE DEF k, l
      <4> QED
        BY <1>2, <1>9, <3>1, SMTT(30)
    <3>3. context[k + 1] <= u
      BY <1>4, <1>11, <2>1
    <3> QED
      BY <1>1, <2>1, <3>2, <3>3 DEF LaidOut, Grid
  <2>2. ASSUME NEW u \in Past(hist), u >= y, ~IsOwn(s, hist, u)
        PROVE  /\ other[u][k + 1] = TransformOperations(other[u][k], own[u][k + 1]).serverOp
               /\ own[u + 1][k + 1] =
                    TransformOperations(other[u][k], own[u][k + 1]).clientOp
    <3>1. base[u] \in 0 .. k
      BY <1>4, <1>12
    <3>2. k + 1 \in base[u] + 1 .. l
      <4> HIDE DEF k, l
      <4> QED
        BY <1>2, <1>9, <3>1
    <3>3. context[k + 1] <= u
      BY <1>4, <1>11, <2>2
    <3> QED
      BY <1>1, <1>9, <2>2, <3>2, <3>3 DEF LaidOut, Grid
  <2>3. Len(hist) \in Nat /\ k \in Nat /\ y \in 0 .. Len(hist)
    BY <1>2, <1>11
  <2> DEFINE operation == Head(q).operation
  <2>4. operation = own[y][k + 1]
    BY <1>11
  <2> HIDE DEF k, y, w, operation
  <2>5. MovesToNextColumn(s, hist, w, own, other, k, operation)
    BY <1>13, <2>1, <2>2, <2>3, <2>4, PassingWalksTheColumn
  <2> QED
    BY <2>5 DEF operation
<1> DEFINE own2 == [u \in 0 .. n + 1 |-> [j \in 1 .. l |->
                      IF u # n + 1 THEN own[u][j] ELSE own[n][j]]]
           base2 == [u \in 0 .. n + 1 |-> IF u # n + 1 THEN base[u] ELSE k + 1]
<1>15. /\ \A u \in 0 .. n : \A j \in 1 .. l : own2[u][j] = own[u][j]
       /\ \A j \in 1 .. l : own2[n + 1][j] = own[n][j]
       /\ \A u \in 0 .. n : base2[u] = base[u]
       /\ base2[n + 1] = k + 1
  <2>1. /\ \A u \in 0 .. n : u \in 0 .. n + 1 /\ u # n + 1
        /\ n + 1 \in 0 .. n + 1
    BY <1>2
  <2> HIDE DEF n, l, k
  <2> QED
    BY <2>1
<1> HIDE DEF own2, base2
<1>16. /\ n \in 0 .. n /\ 0 \in 0 .. n
       /\ \A u \in 0 .. n : base[u] \in 0 .. l /\ base[u] \in 0 .. k + 1
  <2>1. n \in 0 .. n /\ 0 \in 0 .. n
    BY <1>2
  <2> HIDE DEF k, l, n
  <2>2. \A z \in 0 .. k : z \in 0 .. l /\ z \in 0 .. k + 1
    BY <1>2
  <2> QED
    BY <1>12, <2>1, <2>2
<1>17. CountsOwn(s, h, c, r, base2)
  <2>1. base2[0] = 0 /\ base2[v] = Acked(c) /\ base2[Len(h)] = k + 1
    BY <1>1, <1>2, <1>3, <1>15, <1>16 DEF LaidOut, CountsOwn
  <2>2. ASSUME NEW u \in 0 .. Len(h) PROVE base2[u] \in 0 .. k + 1
    <3>1. u = n + 1 \/ u \in 0 .. n
      BY <1>2, <1>3
    <3>2. k + 1 \in 0 .. k + 1
      <4> HIDE DEF k
      <4> QED
        BY <1>9
    <3> QED
      BY <1>15, <1>16, <3>1, <3>2
  <2>3. ASSUME NEW u \in Past(h)
        PROVE  base2[u + 1] = IF IsOwn(s, h, u) THEN base2[u] + 1 ELSE base2[u]
    <3>1. CASE u = n
      BY <1>6, <1>12, <1>15, <1>16, <3>1
    <3>2. CASE u \in Past(hist)
      <4>1. base[u + 1] = IF IsOwn(s, hist, u) THEN base[u] + 1 ELSE base[u]
        BY <1>1, <3>2 DEF LaidOut, CountsOwn
      <4> QED
        BY <1>4, <1>5, <1>15, <3>2, <4>1
    <3> QED
      BY <1>4, <3>1, <3>2
  <2> QED
    BY <1>9, <2>1, <2>2, <2>3 DEF CountsOwn
<1>18. Grid(s, h, l, own2, other, base2, context)
  <2>1. ASSUME NEW u \in Past(hist)
        PROVE  /\ base2[u] = base[u] /\ base[u] \in 0 .. l /\ h[u + 1] = hist[u + 1]
               /\ \A j \in 1 .. l : own2[u][j] = own[u][j] /\ own2[u + 1][j] = own[u + 1][j]
    BY <1>4, <1>15, <1>16
  <2>2. ASSUME NEW u \in Past(hist), IsOwn(s, hist, u)
        PROVE  /\ h[u + 1].operation = own2[u][base2[u] + 1]
               /\ \A j \in base2[u] + 2 .. l : context[j] <= u => own2[u + 1][j] = own2[u][j]
    <3>1. base[u + 1] = base[u] + 1 /\ base[u] \in 0 .. k /\ base[u + 1] \in 0 .. k
      BY <1>1, <1>4, <1>12, <2>2 DEF LaidOut, CountsOwn
    <3>2. base[u] + 1 \in 1 .. l
      BY <1>2, <3>1
    <3>3. \A j \in base[u] + 2 .. l : j \in 1 .. l
      BY <1>2, <3>1
    <3> QED
      BY <1>1, <2>1, <2>2, <3>2, <3>3 DEF LaidOut, Grid
  <2>3. ASSUME NEW u \in Past(hist), ~IsOwn(s, hist, u)
        PROVE  /\ h[u + 1].operation = other[u][base2[u]]
               /\ \A j \in base2[u] + 1 .. l : context[j] <= u =>
                    /\ other[u][j] = TransformOperations(other[u][j - 1], own2[u][j]).serverOp
                    /\ own2[u + 1][j] =
                         TransformOperations(other[u][j - 1], own2[u][j]).clientOp
    <3>1. \A j \in base[u] + 1 .. l : j \in 1 .. l
      BY <1>2, <2>1
    <3> QED
      BY <1>1, <2>1, <2>3, <3>1 DEF LaidOut, Grid
  <2>4. /\ h[n + 1].operation = own2[n][base2[n] + 1]
        /\ \A j \in base2[n] + 2 .. l : own2[n + 1][j] = own2[n][j]
    <3>1. base2[n] = k
      BY <1>12, <1>15, <1>16
    <3>2. \A j \in k + 2 .. l : j \in 1 .. l
      <4> HIDE DEF k, l
      <4> QED
        BY <1>2
    <3>3. e.operation = own[n][k + 1]
      BY <1>14 DEF MovesToNextColumn
    <3> QED
      BY <1>3, <1>9, <1>15, <1>16, <3>1, <3>2, <3>3
  <2> QED
    BY <1>4, <1>5, <1>6, <2>2, <2>3, <2>4 DEF Grid
<1>19. HoldsOwn(c, r, own2, context)
  <2>1. HoldsOwn(c, q, own, context)
    BY <1>1 DEF LaidOut
  <2>2. SameUpTo(own, own2, n, l) /\ IssuedInTurn(c, context)
    BY <1>1, <1>15 DEF SameUpTo, LaidOut
  <2>3. HoldsOwn(c, q, own2, context)
    BY <1>2, <2>1, <2>2, HoldsOwnStays
  <2>4. ASSUME NEW i \in 1 .. Len(r)
        PROVE  /\ r[i].contextVersion = context[Received(c, r) + i]
               /\ r[i].operation = own2[r[i].contextVersion][Received(c, r) + i]
    <3>1. i \in 1 .. Len(q) - 1 /\ i + 1 \in 1 .. Len(q)
      BY <1>2, <1>8
    <3>2. k + (i + 1) = Received(c, r) + i
      <4> HIDE DEF k
      <4> QED
        BY <1>2, <1>9
    <3>3. /\ q[i + 1].contextVersion = context[k + (i + 1)]
          /\ q[i + 1].operation = own2[q[i + 1].contextVersion][k + (i + 1)]
      BY <2>3, <3>1 DEF HoldsOwn
    <3> QED
      BY <1>8, <3>1, <3>2, <3>3
  <2> QED
    BY <2>3, <2>4 DEF HoldsOwn
<1>20. HoldsOthers(s, h, passed.serverOps, other, k + 1, context)
  <2> DEFINE b2 == passed.serverOps
  <2>1. /\ IsSequence(b2) /\ Len(b2) = Len(w)
        /\ \A i \in 1 .. Len(w) :
             /\ DOMAIN b2[i] = {"clientId", "version", "operation"}
             /\ b2[i].version = w[i].version
             /\ b2[i].operation = other[w[i].version][k + 1]
    BY <1>14 DEF MovesToNextColumn
  <2> HIDE DEF b2, w
  <2>2. ASSUME NEW i \in 1 .. Len(b2)
        PROVE  /\ DOMAIN b2[i] = {"clientId", "version", "operation"}
               /\ b2[i].version \in Past(h) /\ ~IsOwn(s, h, b2[i].version)
               /\ MaybeUnseen(k + 1, context, b2[i].version)
               /\ b2[i].operation = other[b2[i].version][k + 1]
    <3>1. w[i].version \in Past(hist) /\ ~IsOwn(s, hist, w[i].version) /\ w[i].version >= y
      BY <1>13, <2>1 DEF TakenFor
    <3>2. w[i].version \in Past(h) /\ y <= w[i].version
      BY <1>2, <1>4, <1>11, <3>1
    <3> QED
      BY <1>5, <1>11, <2>1, <3>1, <3>2 DEF MaybeUnseen
  <2>3. ASSUME NEW i \in 1 .. Len(b2), NEW j \in 1 .. Len(b2), i < j
        PROVE  b2[i].version < b2[j].version
    BY <1>13, <2>1, <2>3 DEF TakenFor
  <2>4. ASSUME NEW u \in Past(h), ~IsOwn(s, h, u), MaybeUnseen(k + 1, context, u)
        PROVE  \E i \in 1 .. Len(b2) : b2[i].version = u
    <3>1. u \in Past(hist) /\ ~IsOwn(s, hist, u)
      BY <1>4, <1>5, <1>6, <2>4
    <3>2. k + 1 # 0
      BY <1>9
    <3>3. u >= y
      BY <1>4, <1>11, <2>4, <3>1, <3>2 DEF MaybeUnseen
    <3>4. PICK i \in 1 .. Len(w) : w[i].version = u
      BY <1>13, <3>1, <3>3 DEF TakenFor
    <3> QED
      BY <2>1, <3>4
  <2> QED
    BY <2>1, <2>2, <2>3, <2>4 DEF HoldsOthers, b2
<1>21. LaidOut(s, h, c, r, passed.serverOps, own2, other, base2, context)
  BY <1>1, <1>9, <1>17, <1>18, <1>19, <1>20 DEF LaidOut
<1> QED
  BY <1>7, <1>21 DEF Agrees, Conveys, h, r

----------------------------------------------------------------------------
(* One action after the other *)

\* What an orderly session comes with.
LEMMA OrderlyAgrees ==
  ASSUME AInv, NEW s \in Session, ~misordered[s]
  PROVE  /\ ~error[s] /\ Agreeing(s) /\ IsSequence(log) /\ Len(log) \in Nat
         /\ SessionOK(cc[s], toServer[s], toClient[s], Len(log))
         /\ IsConcurrencyControl(cc[s]) /\ IsSequence(toServer[s]) /\ IsSequence(toClient[s])
         /\ cc[s].contextVersion \in Nat /\ Follows(s, cc[s], toClient[s])
<1>1. /\ InOrder(s) /\ Agreeing(s) /\ Tracked(s) /\ TypeOK
  BY DEF AInv, Agreement, RInv, IInv
<1> QED
  BY <1>1, SequenceIsFunction DEF InOrder, SessionOK, Tracked, TypeOK, IsConcurrencyControl

\* A step of one session that leaves the server alone leaves the others as they were.
LEMMA AgreementAfterSessionStep ==
  ASSUME AInv, NEW s \in Session, NEW d, NEW q, NEW m,
         cc' = [cc EXCEPT ![s] = d], toServer' = [toServer EXCEPT ![s] = q],
         toClient' = [toClient EXCEPT ![s] = m], UNCHANGED <<log, bridge>>,
         \A t \in Session \ {s} : misordered'[t] = misordered[t],
         misordered'[s] \/ Agrees(s, log, d, q, m, bridge[s])
  PROVE  Agreement'
<1>1. /\ cc = [t \in Session |-> cc[t]] /\ toServer = [t \in Session |-> toServer[t]]
      /\ toClient = [t \in Session |-> toClient[t]]
  BY DEF AInv, RInv, IInv, TypeOK
<1>2. /\ cc'[s] = d /\ toServer'[s] = q /\ toClient'[s] = m
      /\ \A t \in Session \ {s} :
           cc'[t] = cc[t] /\ toServer'[t] = toServer[t] /\ toClient'[t] = toClient[t]
  BY <1>1
<1>3. ASSUME NEW t \in Session PROVE misordered'[t] \/ Agreeing(t)'
  <2>1. CASE t = s
    BY <1>2, <2>1 DEF Agreeing
  <2>2. CASE t # s
    <3>1. misordered[t] \/ Agreeing(t)
      BY DEF AInv, Agreement
    <3> QED
      BY <1>2, <2>2, <3>1 DEF Agreeing
  <2> QED
    BY <2>1, <2>2
<1> QED
  BY <1>3 DEF Agreement

\* What is issued at the context version and sent.
LEMMA AgreementAfterIssuing ==
  ASSUME AInv, NEW s \in Session, NEW d, IssuesHere(cc[s], d),
         cc' = [cc EXCEPT ![s] = d],
         toServer' = [toServer EXCEPT ![s] = AfterSending(toServer[s], cc[s], d)],
         UNCHANGED <<log, bridge, toClient, misordered>>
  PROVE  Agreement'
<1> DEFINE q == AfterSending(toServer[s], cc[s], d)
<1>1. toClient' = [toClient EXCEPT ![s] = toClient[s]]
  BY UpdateSame DEF AInv, RInv
<1>2. misordered[s] \/ Agrees(s, log, d, q, toClient[s], bridge[s])
  BY OrderlyAgrees, AgreesOnceIssued DEF Agreeing
<1>3. toServer' = [toServer EXCEPT ![s] = q]
  OBVIOUS
<1> HIDE DEF q
<1>4. /\ UNCHANGED <<log, bridge>> /\ \A t \in Session \ {s} : misordered'[t] = misordered[t]
      /\ misordered'[s] \/ Agrees(s, log, d, q, toClient[s], bridge[s])
  BY <1>2
<1> QED
  BY <1>1, <1>3, <1>4, AgreementAfterSessionStep, ZenonT(30)

\* Local edits, and the end of a batch.
LEMMA LocalOperationAgrees ==
  ASSUME AInv, NEW s \in Session, LocalOperation(s)
  PROVE  Agreement'
<1>1. PICK op :
        LET after == ProcessOutgoingOperation(cc[s], s, op)
        IN  /\ cc' = [cc EXCEPT ![s] = after]
            /\ toServer' = [toServer EXCEPT ![s] = AfterSending(toServer[s], cc[s], after)]
  BY DEF LocalOperation, BecomesAndSends
<1>2. UNCHANGED <<log, bridge, toClient, misordered>> /\ IsConcurrencyControl(cc[s])
  BY SessionOfIInv DEF LocalOperation, AInv, RInv
<1> DEFINE after == ProcessOutgoingOperation(cc[s], s, op)
<1>3. IssuesHere(cc[s], after)
  BY <1>2, ProcessOutgoingHere
<1> HIDE DEF after
<1> QED
  BY <1>1, <1>2, <1>3, AgreementAfterIssuing DEF after

\* The batch becomes one operation.
LEMMA CompleteBatchAgrees ==
  ASSUME AInv, NEW s \in Session, CompleteBatch(s)
  PROVE  Agreement'
<1> DEFINE after == CompleteBatchOperation(cc[s], s)
<1>1. /\ UNCHANGED <<log, bridge, toClient, misordered>> /\ IsConcurrencyControl(cc[s])
      /\ cc' = [cc EXCEPT ![s] = after]
      /\ toServer' = [toServer EXCEPT ![s] = AfterSending(toServer[s], cc[s], after)]
  BY SessionOfIInv DEF CompleteBatch, BecomesAndSends, AInv, RInv
<1>2. IssuesHere(cc[s], after)
  BY <1>1, CompleteBatchHere
<1> HIDE DEF after
<1> QED
  BY <1>1, <1>2, AgreementAfterIssuing

\* Whether a batch is in progress does not matter.
LEMMA BatchFlagAgrees ==
  ASSUME AInv, NEW s \in Session, StartBatch(s) \/ CancelBatch(s)
  PROVE  Agreement'
<1>1. PICK d : /\ d \in {StartBatchOperation(cc[s]), CancelBatchOperation(cc[s])}
               /\ cc' = [cc EXCEPT ![s] = d]
  BY DEF StartBatch, CancelBatch
<1>2. /\ UNCHANGED <<log, bridge, toClient, misordered, toServer>>
      /\ IsConcurrencyControl(cc[s]) /\ IInv
  BY SessionOfIInv DEF StartBatch, CancelBatch, AInv, RInv
<1>3. IssuesHere(cc[s], d) /\ d.lastSequenceNumber = cc[s].lastSequenceNumber
  BY <1>1, <1>2
     DEF StartBatchOperation, CancelBatchOperation, IsConcurrencyControl, IssuesHere, Issues
<1>4. toServer' = [toServer EXCEPT ![s] = AfterSending(toServer[s], cc[s], d)]
  BY <1>2, <1>3, UpdateSame DEF AfterSending
<1> QED
  BY <1>1, <1>2, <1>3, <1>4, AgreementAfterIssuing

\* Two edits, issued and sent in one order.
LEMMA EditedWhenHeardAgrees ==
  ASSUME AInv, NEW s \in Session, LocalOperationEditedWhenHeard(s)
  PROVE  Agreement'
<1>1. PICK op, nested :
        LET first == ProcessOutgoingOperation(cc[s], s, nested)
            both  == ProcessOutgoingOperation(first, s, op)
        IN  /\ cc' = [cc EXCEPT ![s] = both]
            /\ toServer' = [toServer EXCEPT
                  ![s] = AfterSending(AfterSending(toServer[s], cc[s], first), first, both)]
  BY DEF LocalOperationEditedWhenHeard, SendsFirstThenSecond
<1>2. UNCHANGED <<log, bridge, toClient, misordered>> /\ IsConcurrencyControl(cc[s]) /\ IInv
  BY SessionOfIInv DEF LocalOperationEditedWhenHeard, AInv, RInv
<1> DEFINE first == ProcessOutgoingOperation(cc[s], s, nested)
           both  == ProcessOutgoingOperation(first, s, op)
           sent  == AfterSending(toServer[s], cc[s], first)
           resent == AfterSending(sent, first, both)
<1>3. IssuesHere(cc[s], first)
  BY <1>2, ProcessOutgoingHere
<1>4. cc' = [cc EXCEPT ![s] = both] /\ toServer' = [toServer EXCEPT ![s] = resent]
  BY <1>1
<1> HIDE DEF first
<1>5. IssuesHere(first, both)
  BY <1>3, ProcessOutgoingHere DEF IssuesHere, Issues
<1> HIDE DEF both
<1>6. misordered[s] \/ Agrees(s, log, both, resent, toClient[s], bridge[s])
  <2> SUFFICES ASSUME ~misordered[s]
               PROVE  Agrees(s, log, both, resent, toClient[s], bridge[s])
    OBVIOUS
  <2>1. /\ Len(log) \in Nat /\ SessionOK(cc[s], toServer[s], toClient[s], Len(log))
        /\ Agrees(s, log, cc[s], toServer[s], toClient[s], bridge[s])
    BY OrderlyAgrees DEF Agreeing
  <2>2. Agrees(s, log, first, sent, toClient[s], bridge[s])
    BY <1>3, <2>1, AgreesOnceIssued
  <2>3. SessionOK(first, sent, toClient[s], Len(log))
    BY <1>3, <2>1, IssuingKeepsSessionOK DEF IssuesHere
  <2> HIDE DEF sent
  <2> QED
    BY <1>5, <2>1, <2>2, <2>3, AgreesOnceIssued
<1> HIDE DEF resent
<1>7. toClient' = [toClient EXCEPT ![s] = toClient[s]]
  BY <1>2, UpdateSame
<1> QED
  BY <1>2, <1>4, <1>6, <1>7, AgreementAfterSessionStep

\* The session is no longer orderly.
LEMMA EditedWhenModifiedAgrees ==
  ASSUME AInv, NEW s \in Session, LocalOperationEditedWhenModified(s)
  PROVE  Agreement'
<1>1. PICK d, q : cc' = [cc EXCEPT ![s] = d] /\ toServer' = [toServer EXCEPT ![s] = q]
  BY DEF LocalOperationEditedWhenModified, SendsSecondThenFirst
<1>2. /\ UNCHANGED <<log, bridge, toClient>> /\ misordered \in [Session -> BOOLEAN] /\ IInv
      /\ misordered' = [misordered EXCEPT ![s] = TRUE]
  BY DEF LocalOperationEditedWhenModified, AInv, RInv, IInv, TypeOK
<1>3. toClient' = [toClient EXCEPT ![s] = toClient[s]]
  BY <1>2, UpdateSame
<1>4. misordered'[s] /\ \A t \in Session \ {s} : misordered'[t] = misordered[t]
  BY <1>2
<1> QED
  BY <1>1, <1>2, <1>3, <1>4, AgreementAfterSessionStep

\* The server takes an operation of one session and tells the others.
LEMMA ServerReceivesAgrees ==
  ASSUME AInv, NEW s \in Session, ServerReceives(s)
  PROVE  Agreement'
<1> DEFINE submission == Head(toServer[s])
           n == Len(log)
           passed == TransformOutgoing(NotSeenAt(bridge[s], submission.contextVersion),
                                       submission.operation)
           e == [sessionId |-> s, seqNo |-> submission.sequenceNumber,
                 operation |-> passed.operation]
<1>1. /\ toServer[s] # <<>> /\ toServer' = [toServer EXCEPT ![s] = Tail(toServer[s])]
      /\ log' = Append(log, e)
      /\ toClient' = [c \in Session |->
           Append(toClient[c],
                  IF c = s THEN Acknowledgement(n, submission.sequenceNumber)
                  ELSE RemoteOperation(s, n, passed.operation))]
      /\ bridge' = [c \in Session |->
           IF c = s THEN passed.serverOps
           ELSE Append(bridge[c], ServerOperationEvent(s, n, passed.operation))]
      /\ cc' = cc /\ misordered' = misordered
  BY DEF ServerReceives, TakeSubmission
<1>2. /\ toServer'[s] = Tail(toServer[s])
      /\ \A t \in Session \ {s} : toServer'[t] = toServer[t]
  BY <1>1 DEF AInv, RInv, IInv, TypeOK
<1>3. e.sessionId = s /\ e.operation = passed.operation
  OBVIOUS
<1>4. passed = TransformOutgoing(NotSeenAt(bridge[s], Head(toServer[s]).contextVersion),
                                 Head(toServer[s]).operation)
  OBVIOUS
<1> HIDE DEF e, passed
<1>5. ASSUME ~misordered[s] PROVE Agreeing(s)'
  <2> DEFINE x == Acknowledgement(n, submission.sequenceNumber)
  <2>1. IsAck(x)
    BY DEF IsAck, Acknowledgement
  <2>2. toClient'[s] = Append(toClient[s], x) /\ bridge'[s] = passed.serverOps
    BY <1>1
  <2>3. /\ IsSequence(log) /\ SessionOK(cc[s], toServer[s], toClient[s], Len(log))
        /\ Agrees(s, log, cc[s], toServer[s], toClient[s], bridge[s])
    BY <1>5, OrderlyAgrees DEF Agreeing
  <2> HIDE DEF x
  <2>4. Agrees(s, Append(log, e), cc[s], Tail(toServer[s]), Append(toClient[s], x),
               passed.serverOps)
    BY <1>1, <1>3, <1>4, <2>1, <2>3, AgreesOnceOwnReceived
  <2> QED
    BY <1>1, <1>2, <2>2, <2>4 DEF Agreeing
<1>6. ASSUME NEW t \in Session, t # s, ~misordered[t] PROVE Agreeing(t)'
  <2> DEFINE x == RemoteOperation(s, n, passed.operation)
             held == ServerOperationEvent(s, n, passed.operation)
  <2>1. x.operation = e.operation /\ e.sessionId # t
    BY <1>3, <1>6 DEF RemoteOperation
  <2>2. /\ DOMAIN held = {"clientId", "version", "operation"}
        /\ held.version = Len(log) /\ held.operation = e.operation
    BY <1>3 DEF ServerOperationEvent
  <2>3. toClient'[t] = Append(toClient[t], x) /\ bridge'[t] = Append(bridge[t], held)
    BY <1>1, <1>6
  <2>4. /\ IsSequence(log) /\ SessionOK(cc[t], toServer[t], toClient[t], Len(log))
        /\ Agrees(t, log, cc[t], toServer[t], toClient[t], bridge[t])
    BY <1>6, OrderlyAgrees DEF Agreeing
  <2> HIDE DEF x, held
  <2>5. Agrees(t, Append(log, e), cc[t], toServer[t], Append(toClient[t], x),
               Append(bridge[t], held))
    BY <2>1, <2>2, <2>4, AgreesOnceOtherReceived
  <2>6. toServer'[t] = toServer[t]
    BY <1>2, <1>6
  <2> QED
    BY <1>1, <2>3, <2>5, <2>6 DEF Agreeing
<1> QED
  BY <1>1, <1>5, <1>6 DEF Agreement

\* The acknowledgement an orderly session takes in is that of its first in flight.
LEMMA HandleOperationAckAgrees ==
  ASSUME AInv, NEW s \in Session, HandleOperationAck(s)
  PROVE  Agreement'
<1> DEFINE c == cc[s]
           m == toClient[s]
           ack == Head(m)
           d == ProcessAcknowledgement(c)
           e == RefuseAcknowledgement(c, ack.version)
<1>1. /\ m # <<>> /\ IsAck(ack) /\ UNCHANGED <<log, bridge>> /\ IInv
      /\ toClient' = [toClient EXCEPT ![s] = Tail(m)]
  BY DEF HandleOperationAck, Incoming, TakeMessage, IsAck, AInv, RInv
<1>2. /\ UNCHANGED <<toServer, misordered>> /\ \E z \in {d, e} : cc' = [cc EXCEPT ![s] = z]
      /\ AcknowledgementAccepted(c, ack.version, ack.sequenceNumber) =>
           cc' = [cc EXCEPT ![s] = d]
  BY DEF HandleOperationAck, CloseWithError
<1>3. toServer' = [toServer EXCEPT ![s] = toServer[s]]
  BY <1>1, <1>2, UpdateSame
<1>4. CASE misordered[s]
  <2>1. PICK z : cc' = [cc EXCEPT ![s] = z]
    BY <1>2
  <2> QED
    BY <1>1, <1>2, <1>3, <1>4, <2>1, AgreementAfterSessionStep
<1>5. CASE ~misordered[s]
  <2>1. /\ Len(log) \in Nat /\ SessionOK(c, toServer[s], m, Len(log))
        /\ Agrees(s, log, c, toServer[s], m, bridge[s])
        /\ IsConcurrencyControl(c) /\ IsSequence(m)
        /\ c.contextVersion \in Nat /\ Follows(s, c, m)
    BY <1>5, OrderlyAgrees DEF Agreeing
  <2>2. AcknowledgementAccepted(c, ack.version, ack.sequenceNumber)
    BY <1>1, <2>1, AcknowledgementIsExpected
  <2>3. /\ d.contextVersion = c.contextVersion + 1
        /\ d.lastSequenceNumber = c.lastSequenceNumber
        /\ d.inflightOperations = Tail(c.inflightOperations)
        /\ c.inflightOperations # <<>>
    BY <2>1, <2>2 DEF ProcessAcknowledgement, IsConcurrencyControl, AcknowledgementAccepted
  <2> HIDE DEF d
  <2>4. IsOwn(s, log, c.contextVersion)
    BY <1>1, <2>1, <2>3, NextMessageTells DEF TellsOf, IsOwn
  <2>5. Agrees(s, log, d, toServer[s], Tail(m), bridge[s])
    BY <1>1, <2>1, <2>3, <2>4, AgreesOnceAcknowledged
  <2> QED
    BY <1>1, <1>2, <1>3, <2>2, <2>5, AgreementAfterSessionStep
<1> QED
  BY <1>4, <1>5

\* A remote operation an orderly session takes in, to go on from there.
LEMMA AgreesOnceTaken ==
  ASSUME AInv, NEW s \in Session, ~misordered[s], Incoming(s, "remoteOperation")
  PROVE  LET e == TakeNextIncomingOperation(ProcessRemoteOperation(cc[s], Remote(s)))
         IN  /\ RemoteOperationAccepted(cc[s], Remote(s))
             /\ SessionOK(e, toServer[s], Tail(toClient[s]), Len(log))
             /\ Agrees(s, log, e, toServer[s], Tail(toClient[s]), bridge[s])
<1> DEFINE c == cc[s]
           m == toClient[s]
           event == Remote(s)
           e == TakeNextIncomingOperation(ProcessRemoteOperation(c, event))
<1>1. m # <<>> /\ ~IsAck(Head(m))
  BY DEF Incoming, TakeMessage, IsAck
<1>2. /\ Len(log) \in Nat /\ SessionOK(c, toServer[s], m, Len(log))
      /\ Agrees(s, log, c, toServer[s], m, bridge[s])
      /\ IsConcurrencyControl(c) /\ IsSequence(m)
      /\ c.contextVersion \in Nat /\ Follows(s, c, m)
  BY OrderlyAgrees DEF Agreeing
<1>3. event.version = Head(m).contextVersion /\ event.operation = Head(m).operation
  BY DEF Remote, ServerOperationEvent
<1> HIDE DEF event
<1>4. /\ RemoteOperationAccepted(c, event)
      /\ SessionOK(e, toServer[s], Tail(m), Len(log))
  BY <1>1, <1>2, <1>3, RemoteOperationKeepsSessionOK
<1>5. event.version = c.contextVersion
  BY <1>4 DEF RemoteOperationAccepted
<1>6. /\ e.contextVersion = c.contextVersion + 1
      /\ e.lastSequenceNumber = c.lastSequenceNumber
      /\ e.inflightOperations = TransformInflightOperations(c.inflightOperations, event).inflight
  BY <1>2, <1>5 DEF TakeNextIncomingOperation, ProcessRemoteOperation, AfterPassing,
                    IsConcurrencyControl
<1> HIDE DEF e
<1>7. ~IsOwn(s, log, c.contextVersion)
  <2>1. TellsOf(s, Head(m), log[c.contextVersion + 1])
    BY <1>1, <1>2, <1>6, NextMessageTells
  <2> QED
    BY <1>1, <2>1 DEF TellsOf, IsOwn
<1>8. Agrees(s, log, e, toServer[s], Tail(m), bridge[s])
  BY <1>1, <1>2, <1>3, <1>5, <1>6, <1>7, AgreesOncePassed
<1> QED
  BY <1>4, <1>8 DEF e, event

\* An orderly session takes it in, another may refuse it.
LEMMA HandleRemoteOperationAgrees ==
  ASSUME AInv, NEW s \in Session, HandleRemoteOperation(s)
  PROVE  Agreement'
<1> DEFINE e == TakeNextIncomingOperation(ProcessRemoteOperation(cc[s], Remote(s)))
<1>1. /\ Incoming(s, "remoteOperation") /\ UNCHANGED <<log, bridge, misordered, toServer>>
      /\ toClient' = [toClient EXCEPT ![s] = Tail(toClient[s])] /\ IInv
      /\ cc' = cc \/ cc' = [cc EXCEPT ![s] = e]
      /\ RemoteOperationAccepted(cc[s], Remote(s)) => cc' = [cc EXCEPT ![s] = e]
  BY DEF HandleRemoteOperation, Incoming, TakeMessage, CloseWithError, AInv, RInv
<1>2. /\ toServer' = [toServer EXCEPT ![s] = toServer[s]]
      /\ \E z : cc' = [cc EXCEPT ![s] = z]
  BY <1>1, UpdateSame
<1>3. CASE misordered[s]
  <2>1. PICK z : cc' = [cc EXCEPT ![s] = z]
    BY <1>2
  <2> QED
    BY <1>1, <1>2, <1>3, <2>1, AgreementAfterSessionStep
<1>4. CASE ~misordered[s]
  <2>1. /\ RemoteOperationAccepted(cc[s], Remote(s))
        /\ Agrees(s, log, e, toServer[s], Tail(toClient[s]), bridge[s])
    BY <1>1, <1>4, AgreesOnceTaken
  <2> HIDE DEF e
  <2> QED
    BY <1>1, <1>2, <2>1, AgreementAfterSessionStep
<1> QED
  BY <1>3, <1>4

\* An edit made amid it is issued once it is taken in.
LEMMA RemoteEditedWhenHeardAgrees ==
  ASSUME AInv, NEW s \in Session, HandleRemoteOperationEditedWhenHeard(s)
  PROVE  Agreement'
<1> DEFINE e == TakeNextIncomingOperation(ProcessRemoteOperation(cc[s], Remote(s)))
           q == toServer[s]
<1>1. /\ Incoming(s, "remoteOperation") /\ UNCHANGED <<log, bridge, misordered>>
      /\ toClient' = [toClient EXCEPT ![s] = Tail(toClient[s])]
  BY DEF HandleRemoteOperationEditedWhenHeard, Incoming, TakeMessage
<1>2. PICK nested :
        LET after == ProcessOutgoingOperation(e, s, nested)
        IN  /\ cc' = [cc EXCEPT ![s] = after]
            /\ toServer' = [toServer EXCEPT ![s] = AfterSending(q, e, after)]
  BY DEF HandleRemoteOperationEditedWhenHeard, EditsAmid, BecomesAndSends
<1> DEFINE after == ProcessOutgoingOperation(e, s, nested)
           r == AfterSending(q, e, after)
<1>3. cc' = [cc EXCEPT ![s] = after] /\ toServer' = [toServer EXCEPT ![s] = r]
  BY <1>2
<1>4. CASE misordered[s]
  <2> HIDE DEF after, r
  <2> QED
    BY <1>1, <1>3, <1>4, AgreementAfterSessionStep
<1>5. CASE ~misordered[s]
  <2>1. /\ SessionOK(e, q, Tail(toClient[s]), Len(log)) /\ Len(log) \in Nat
        /\ Agrees(s, log, e, q, Tail(toClient[s]), bridge[s])
    BY <1>1, <1>5, AgreesOnceTaken, OrderlyAgrees
  <2> HIDE DEF e
  <2>2. IssuesHere(e, after)
    BY <2>1, ProcessOutgoingHere DEF SessionOK
  <2> HIDE DEF after
  <2>3. Agrees(s, log, after, r, Tail(toClient[s]), bridge[s])
    BY <2>1, <2>2, AgreesOnceIssued
  <2> HIDE DEF r
  <2> QED
    BY <1>1, <1>3, <2>3, AgreementAfterSessionStep
<1> QED
  BY <1>4, <1>5

----------------------------------------------------------------------------
(* What follows *)

\* Nothing is laid out yet.
THEOREM InitAgrees == Init => AInv
<1> SUFFICES ASSUME Init PROVE AInv
  OBVIOUS
<1>1. RInv
  BY InitRefines
<1>2. ASSUME NEW s \in Session PROVE Agreeing(s)
  <2> DEFINE none == [i \in {0} |-> 0]
             c == cc[s]
  <2>1. /\ log = <<>> /\ c = NewConcurrencyControl(0, 0) /\ toServer[s] = <<>>
        /\ toClient[s] = <<>> /\ bridge[s] = <<>>
    BY DEF Init
  <2>2. /\ c.lastSequenceNumber = 0 /\ c.contextVersion = 0
        /\ c.inflightOperations = <<>>
    BY <2>1 DEF NewConcurrencyControl
  <2>3. /\ Acked(c) = 0 /\ Received(c, <<>>) = 0 /\ Past(<<>>) = {} /\ none[0] = 0
        /\ Len(<<>>) = 0 /\ IsSequence(<<>>) /\ 0 \in 0 .. 0
        /\ \A v \in 0 .. 0 : none[v] \in 0 .. 0
        /\ \A i \in 1 .. 0 : FALSE
    <3>1. Len(<<>>) = 0 /\ IsSequence(<<>>)
      BY EmptyIsSequence
    <3>2. Acked(c) = 0 /\ Received(c, <<>>) = 0
      <4>1. Len(c.inflightOperations) = 0 /\ 0 - 0 = 0
        BY <2>2
      <4>2. c.lastSequenceNumber - Len(c.inflightOperations) = 0
        BY <2>2, <4>1
      <4>3. c.lastSequenceNumber - Len(<<>>) = 0
        BY <2>2, <3>1, <4>1
      <4> HIDE DEF c
      <4> QED
        BY <4>2, <4>3 DEF Acked, Received
    <3>3. Past(<<>>) = {}
      BY <3>1 DEF Past
    <3> QED
      BY <3>1, <3>2, <3>3
  <2> HIDE DEF c, none
  <2>4. CountsOwn(s, <<>>, c, <<>>, none)
    BY <2>2, <2>3 DEF CountsOwn
  <2>5. IssuedInTurn(c, none) /\ HoldsOwn(c, <<>>, none, none)
    BY <2>2, <2>3 DEF IssuedInTurn, HoldsOwn
  <2>6. Grid(s, <<>>, c.lastSequenceNumber, none, none, none, none)
    BY <2>3 DEF Grid
  <2>7. HoldsOthers(s, <<>>, <<>>, none, Received(c, <<>>), none)
    BY <2>3 DEF HoldsOthers
  <2>8. LaidOut(s, <<>>, c, <<>>, <<>>, none, none, none, none)
    BY <2>4, <2>5, <2>6, <2>7 DEF LaidOut
  <2>9. Conveys(<<>>, c, <<>>)
    BY <2>3 DEF Conveys
  <2> QED
    BY <2>1, <2>8, <2>9 DEF Agreeing, Agrees, c
<1> QED
  BY <1>1, <1>2 DEF AInv, Agreement

\* Every step keeps to the grid.
THEOREM NextAgrees == AInv /\ [Next]_vars => AInv'
<1> SUFFICES ASSUME AInv, [Next]_vars PROVE AInv'
  OBVIOUS
<1>1. RInv'
  BY NextRefines DEF AInv
<1>2. ASSUME UNCHANGED vars PROVE Agreement'
  <2>1. ASSUME NEW t \in Session PROVE misordered'[t] \/ Agreeing(t)'
    BY <1>2 DEF vars, AInv, Agreement, Agreeing
  <2> QED
    BY <2>1 DEF Agreement
<1>3. ASSUME NEW s \in Session, HandleMessage(s) PROVE Agreement'
  BY <1>3, HandleOperationAckAgrees, HandleRemoteOperationAgrees,
     RemoteEditedWhenHeardAgrees DEF HandleMessage
<1>4. Agreement'
  BY <1>2, <1>3, LocalOperationAgrees, EditedWhenHeardAgrees, EditedWhenModifiedAgrees,
     BatchFlagAgrees, CompleteBatchAgrees, ServerReceivesAgrees DEF Next
<1> QED
  BY <1>1, <1>4 DEF AInv

\* On the grid, the first operation in flight and the one logged stand in one place.
LEMMA AgreementTells ==
  ASSUME AInv
  PROVE  AcknowledgedAsLogged
<1> SUFFICES ASSUME AInv, NEW s \in Session, ~misordered[s], toClient[s] # <<>>,
                    Head(toClient[s]).type = "operationAck"
             PROVE  Head(cc[s].inflightOperations).operation =
                      log[cc[s].contextVersion + 1].operation
  BY DEF AcknowledgedAsLogged
<1> DEFINE c == cc[s]
           m == toClient[s]
           f == c.inflightOperations
           v == c.contextVersion
           d == [contextVersion |-> v + 1]
<1>1. /\ Len(log) \in Nat /\ SessionOK(c, toServer[s], m, Len(log))
      /\ Agrees(s, log, c, toServer[s], m, bridge[s])
      /\ IsConcurrencyControl(c) /\ IsSequence(m) /\ v \in Nat /\ Follows(s, c, m)
  BY OrderlyAgrees DEF Agreeing
<1>2. IsAck(Head(m)) /\ m # <<>>
  BY DEF IsAck
<1>3. v < Len(log) /\ IsOwn(s, log, v)
  <2>1. d.contextVersion = v + 1
    OBVIOUS
  <2> HIDE DEF d
  <2>2. v < Len(log) /\ TellsOf(s, Head(m), log[v + 1])
    BY <1>1, <1>2, <2>1, NextMessageTells
  <2> QED
    BY <1>2, <2>2 DEF TellsOf, IsOwn
<1>4. f # <<>> /\ IsSequence(f)
  BY <1>1, <1>2, AcknowledgementIsExpected DEF AcknowledgementAccepted, IsConcurrencyControl
<1>5. PICK own, other, base, context :
        LaidOut(s, log, c, toServer[s], bridge[s], own, other, base, context)
  BY <1>1 DEF Agrees
<1>6. v \in Past(log)
  BY <1>1, <1>3 DEF Past
<1>7. log[v + 1].operation = own[v][Acked(c) + 1]
  BY <1>3, <1>5, <1>6 DEF LaidOut, Grid, CountsOwn
<1>8. Head(f) = f[1] /\ 1 \in 1 .. Len(f)
  BY <1>4, TailOfSequence, SequenceIsFunction
<1>9. f[1].operation = own[v][Acked(c) + 1]
  BY <1>5, <1>8 DEF LaidOut, HoldsOwn
<1> QED
  BY <1>7, <1>8, <1>9

\* What a session holds in flight first when its acknowledgement comes is what the server
\* has logged, whatever the transformation functions compute: what processOperationAck
\* stores as acknowledged is what every other session is sent.
THEOREM AcknowledgementsAgree == Spec => []AcknowledgedAsLogged
<1>1. AInv => AcknowledgedAsLogged
  BY AgreementTells
<1> QED
  BY <1>1, InitAgrees, NextAgrees, PTL DEF Spec
=============================================================================
