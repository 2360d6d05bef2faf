------------------------- MODULE AnySequenceLemmas -------------------------
(***************************************************************************)
(* What Append, Tail and an element-wise change make of a sequence of      *)
(* anything, and the induction over positions that proofs about sequences  *)
(* need, stated of sets.                                                   *)
(***************************************************************************)
EXTENDS AnySequence, SequenceTheorems, WellFoundedInduction, TLAPS

\* A nonempty set of natural numbers has a least element.
LEMMA LeastNatural ==
  ASSUME NEW T, T \subseteq Nat, T # {}
  PROVE  \E x \in T : \A y \in T : x <= y
<1> DEFINE R == {ss \in Nat \X Nat : ss[1] < ss[2]}
<1>1. OpToRel(<, Nat) = R BY DEF OpToRel
<1>2. IsWellFoundedOn(R, Nat) BY <1>1, NatLessThanWellFounded
<1>3. PICK x \in T : \A y \in T : ~ <<y, x>> \in R
  <2> HIDE DEF R
  <2> QED BY <1>2, WFMin
<1>4. ASSUME NEW y \in T PROVE x <= y
  <2>1. x \in Nat /\ y \in Nat OBVIOUS
  <2>2. ~(y < x) BY <1>3, <2>1
  <2> QED BY <2>1, <2>2
<1> QED BY <1>4

\* What holds of lo, and of i + 1 if of i, holds up to hi.
LEMMA UpTo ==
  ASSUME NEW lo \in Nat, NEW hi \in Nat, lo <= hi, NEW T, lo \in T,
         \A i \in lo .. hi - 1 : i \in T => i + 1 \in T
  PROVE  lo .. hi \subseteq T
<1> DEFINE Bad == {i \in lo .. hi : i \notin T}
<1> SUFFICES ASSUME Bad # {} PROVE FALSE
  OBVIOUS
<1>1. Bad \subseteq Nat
  OBVIOUS
<1>2. PICK x \in Bad : \A y \in Bad : x <= y
  BY <1>1, LeastNatural
<1>3. x # lo /\ x \in lo .. hi /\ x \notin T
  OBVIOUS
<1>4. x - 1 \in lo .. hi - 1 /\ (x - 1) + 1 = x
  BY <1>3
<1>5. x - 1 \in T
  BY <1>2, <1>4
<1> QED
  BY <1>3, <1>4, <1>5

\* A sequence is a function from 1 .. n, and nothing more is needed.
LEMMA SequenceIsFunction ==
  ASSUME NEW q, IsSequence(q)
  PROVE  /\ Len(q) \in Nat /\ DOMAIN q = 1 .. Len(q)
         /\ q = [i \in 1 .. Len(q) |-> q[i]]
  BY LenProperties DEF IsSequence

\* Conversely, whatever is a function from 1 .. n is a sequence.
LEMMA FunctionIsSequence ==
  ASSUME NEW n \in Nat, NEW q, q = [i \in 1 .. n |-> q[i]]
  PROVE  IsSequence(q) /\ Len(q) = n
<1> DEFINE S == {q[i] : i \in DOMAIN q}
<1>1. q \in [1 .. n -> S]
  OBVIOUS
<1>2. q \in Seq(S)
  BY <1>1, SeqDef
<1>3. Len(q) = n
  BY <1>1, <1>2, LenProperties
<1> QED
  BY <1>2, <1>3 DEF IsSequence

\* The empty sequence is one.
LEMMA EmptyIsSequence ==
  IsSequence(<<>>) /\ Len(<<>>) = 0
  BY DEF IsSequence

\* Appending keeps what was there and puts the new element last.
LEMMA AppendToSequence ==
  ASSUME NEW q, IsSequence(q), NEW e
  PROVE  /\ IsSequence(Append(q, e))
         /\ Len(Append(q, e)) = Len(q) + 1
         /\ \A i \in 1 .. Len(q) : Append(q, e)[i] = q[i]
         /\ Append(q, e)[Len(q) + 1] = e
<1> DEFINE S == {q[i] : i \in DOMAIN q} \cup {e}
           r == Append(q, e)
<1>1. q \in Seq(S)
  BY SeqMonotonic DEF IsSequence
<1>2. /\ r \in Seq(S) /\ Len(r) = Len(q) + 1
      /\ \A i \in 1 .. Len(q) : r[i] = q[i]
      /\ r[Len(q) + 1] = e
  BY <1>1, AppendProperties
<1>3. Len(r) \in Nat /\ r = [i \in 1 .. Len(r) |-> r[i]]
  BY <1>2, LenProperties
<1>4. IsSequence(r)
  BY <1>3, FunctionIsSequence
<1> QED
  BY <1>2, <1>4

\* The tail of a nonempty sequence lacks its head, and the rest moves up.
LEMMA TailOfSequence ==
  ASSUME NEW q, IsSequence(q), q # <<>>
  PROVE  /\ IsSequence(Tail(q))
         /\ Len(q) >= 1 /\ Len(Tail(q)) = Len(q) - 1
         /\ Head(q) = q[1]
         /\ \A i \in 1 .. Len(q) - 1 : Tail(q)[i] = q[i + 1]
<1> DEFINE S == {q[i] : i \in DOMAIN q}
           r == Tail(q)
<1>1. q \in Seq(S)
  BY DEF IsSequence
<1>2. /\ r \in Seq(S) /\ Len(r) = Len(q) - 1
      /\ Len(q) >= 1 /\ Head(q) = q[1]
      /\ \A i \in 1 .. Len(q) - 1 : r[i] = q[i + 1]
  BY <1>1, HeadTailProperties, EmptySeq
<1>3. Len(r) \in Nat /\ r = [i \in 1 .. Len(r) |-> r[i]]
  BY <1>2, LenProperties
<1>4. IsSequence(r)
  BY <1>3, FunctionIsSequence
<1> QED
  BY <1>2, <1>4

\* One sequence after the other.
LEMMA ConcatOfSequences ==
  ASSUME NEW q, IsSequence(q), NEW r, IsSequence(r)
  PROVE  /\ IsSequence(q \o r)
         /\ Len(q \o r) = Len(q) + Len(r)
         /\ \A i \in 1 .. Len(q) : (q \o r)[i] = q[i]
         /\ \A i \in 1 .. Len(r) : (q \o r)[Len(q) + i] = r[i]
<1> DEFINE S == {q[i] : i \in DOMAIN q} \cup {r[i] : i \in DOMAIN r}
           t == q \o r
           m == Len(q)
           n == Len(r)
<1>1. q \in Seq(S) /\ r \in Seq(S)
  BY SeqMonotonic DEF IsSequence
<1>0. m \in Nat /\ n \in Nat
  BY SequenceIsFunction
<1> HIDE DEF S
<1>2. /\ t \in Seq(S) /\ Len(t) = m + n
      /\ \A i \in 1 .. m + n : t[i] = IF i <= m THEN q[i] ELSE r[i - m]
  BY <1>1, ConcatProperties
<1> HIDE DEF t, m, n
<1>3. t = [i \in 1 .. m + n |-> t[i]] /\ m + n \in Nat
  BY <1>0, <1>2, LenProperties
<1>4. IsSequence(t) /\ Len(t) = m + n
  BY <1>3, FunctionIsSequence
<1>5. \A i \in 1 .. m : t[i] = q[i]
  BY <1>0, <1>2
<1>6. \A i \in 1 .. n : m + i \in 1 .. m + n /\ ~(m + i <= m) /\ (m + i) - m = i
  BY <1>0
<1>7. \A i \in 1 .. n : t[m + i] = r[i]
  BY <1>2, <1>6
<1> QED
  BY <1>4, <1>5, <1>7 DEF t, m, n
=============================================================================
