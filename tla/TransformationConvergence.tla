----------------------- MODULE TransformationConvergence -----------------------
(***************************************************************************)
(* Of which operations the transformation functions converge, for strings  *)
(* of any length.                                                          *)
(***************************************************************************)
EXTENDS ModelCollaborationConvergence, ModelData

CONSTANTS
  Character  \* what strings are made of

----------------------------------------------------------------------------
(* Splices, position by position                                           *)

\* In r, the d characters of str after the first i have given way to v.
Spliced(r, str, i, d, v) ==
  /\ r \in Seq(Character) /\ Len(r) = Len(str) - d + Len(v)
  /\ \A k \in 1 .. Len(r) :
       r[k] = IF k <= i THEN str[k]
              ELSE IF k <= i + Len(v) THEN v[k - i] ELSE str[k - Len(v) + d]

\* They are there to do so.
Fits(str, i, d, v) ==
  /\ str \in Seq(Character) /\ v \in Seq(Character)
  /\ i \in Nat /\ d \in Nat /\ i + d <= Len(str)

\* What a splice makes of a string.
LEMMA SplicedByStringApply ==
  ASSUME NEW str, NEW op, op.type = "StringSplice",
         Fits(str, op.index, op.deleteCount, op.insertValue)
  PROVE  Spliced(StringApply(str, op), str, op.index, op.deleteCount, op.insertValue)
<1> DEFINE i == op.index
           d == op.deleteCount
           v == op.insertValue
           l == Len(str)
           n == Len(v)
           before == SubSeq(str, 1, i)
           after == SubSeq(str, i + d + 1, l)
           first == before \o v
           r == StringApply(str, op)
<1>1. /\ str \in Seq(Character) /\ v \in Seq(Character) /\ l \in Nat /\ n \in Nat
      /\ i \in Nat /\ d \in Nat /\ i + d <= l
  BY LenProperties DEF Fits
<1>2. r = first \o after
  BY DEF StringApply
<1>3. \A k \in 1 .. l : str[k] \in Character
  BY <1>1, ElementOfSeq
<1> HIDE DEF i, d, v, l, n, r
<1>4. /\ before \in Seq(Character) /\ Len(before) = i /\ \A k \in 1 .. i : before[k] = str[k]
  <2>1. (\A k \in 1 .. i : str[k] \in Character) /\ 1 \in Int /\ i \in Int
    BY <1>1, <1>3
  <2>2. /\ before \in Seq(Character) /\ Len(before) = IF 1 <= i THEN i - 1 + 1 ELSE 0
        /\ \A k \in 1 .. i - 1 + 1 : before[k] = str[1 + k - 1]
    BY <2>1, SubSeqProperties
  <2> QED
    BY <1>1, <2>2
<1>5. /\ after \in Seq(Character) /\ Len(after) = l - (i + d)
      /\ \A k \in 1 .. l - (i + d) : after[k] = str[i + d + k]
  <2> DEFINE m == i + d + 1
  <2>1. (\A k \in m .. l : str[k] \in Character) /\ m \in Int /\ l \in Int
    BY <1>1, <1>3
  <2>2. /\ after \in Seq(Character) /\ Len(after) = IF m <= l THEN l - m + 1 ELSE 0
        /\ \A k \in 1 .. l - m + 1 : after[k] = str[m + k - 1]
    BY <2>1, SubSeqProperties
  <2> QED
    BY <1>1, <2>2
<1> HIDE DEF before, after
<1>6. /\ first \in Seq(Character) /\ Len(first) = i + n
      /\ \A k \in 1 .. i + n : first[k] = IF k <= i THEN before[k] ELSE v[k - i]
  BY <1>1, <1>4, ConcatProperties DEF n
<1> HIDE DEF first
<1>7. /\ r \in Seq(Character) /\ Len(r) = i + n + (l - (i + d))
      /\ \A k \in 1 .. i + n + (l - (i + d)) :
           r[k] = IF k <= i + n THEN first[k] ELSE after[k - (i + n)]
  <2>1. first \in Seq(Character) /\ Len(first) = i + n /\ Len(after) = l - (i + d)
        /\ after \in Seq(Character)
    BY <1>5, <1>6
  <2>2. /\ first \o after \in Seq(Character)
        /\ Len(first \o after) = Len(first) + Len(after)
        /\ \A k \in 1 .. Len(first) + Len(after) :
             (first \o after)[k] = IF k <= Len(first) THEN first[k] ELSE after[k - Len(first)]
    BY <2>1, ConcatProperties
  <2> QED
    BY <1>2, <2>1, <2>2
<1>8. Len(r) = l - d + n
  BY <1>1, <1>7
<1>9. ASSUME NEW k \in 1 .. Len(r)
      PROVE  r[k] = IF k <= i THEN str[k] ELSE IF k <= i + n THEN v[k - i] ELSE str[k - n + d]
  <2>1. CASE k <= i
    BY <1>1, <1>4, <1>6, <1>7, <2>1
  <2>2. CASE ~(k <= i) /\ k <= i + n
    BY <1>1, <1>6, <1>7, <2>2, SMTT(30)
  <2>3. CASE ~(k <= i) /\ ~(k <= i + n)
    <3> DEFINE j == k - (i + n)
    <3>1. j \in 1 .. l - (i + d) /\ i + d + j = k - n + d
      BY <1>1, <1>8, <2>3
    <3>2. r[k] = after[j]
      BY <1>1, <1>7, <2>3
    <3> HIDE DEF j
    <3> QED
      BY <1>5, <2>3, <3>1, <3>2
  <2> QED
    BY <2>1, <2>2, <2>3
<1> QED
  BY <1>7, <1>8, <1>9 DEF Spliced, i, d, v, l, n, r

\* Two insertions, the one that comes first before the other.
LEMMA InsertionsConverge ==
  ASSUME NEW str, NEW i, NEW v, NEW j, NEW w,
         Fits(str, i, 0, v), Fits(str, j, 0, w), i <= j,
         NEW r, Spliced(r, str, i, 0, v), NEW q, Spliced(q, str, j, 0, w)
  PROVE  /\ Fits(r, j + Len(v), 0, w) /\ Fits(q, i, 0, v)
         /\ \A t, u : Spliced(t, r, j + Len(v), 0, w) /\ Spliced(u, q, i, 0, v) => t = u
<1> DEFINE l == Len(str)
           n == Len(v)
           m == Len(w)
<1>n. /\ l \in Nat /\ i \in Nat /\ j \in Nat /\ n \in Nat /\ m \in Nat
      /\ i <= l /\ j <= l
  BY LenProperties DEF Fits
<1>1. str \in Seq(Character) /\ v \in Seq(Character) /\ w \in Seq(Character)
  BY DEF Fits
<1>2. <<>> \in Seq(Character) /\ Len(<<>>) = 0
  OBVIOUS
<1>3. /\ r \in Seq(Character) /\ q \in Seq(Character)
      /\ Len(r) = l + n /\ Len(q) = l + m
  BY <1>n, <1>1, <1>2 DEF Spliced
<1>4. Fits(r, j + Len(v), 0, w) /\ Fits(q, i, 0, v)
  BY <1>n, <1>1, <1>2, <1>3 DEF Fits
<1>5. \A k \in 1 .. l + n :
           r[k] = IF k <= i THEN str[k] ELSE IF k <= i + n THEN v[k - i] ELSE str[k - n]
  BY <1>n, <1>1, <1>2, <1>3 DEF Spliced
<1>6. \A k \in 1 .. l + m :
           q[k] = IF k <= j THEN str[k] ELSE IF k <= j + m THEN w[k - j] ELSE str[k - m]
  BY <1>n, <1>1, <1>2, <1>3 DEF Spliced
<1>7. ASSUME NEW t, Spliced(t, r, j + Len(v), 0, w), NEW u, Spliced(u, q, i, 0, v)
      PROVE  t = u
  <2>1. /\ t \in Seq(Character) /\ Len(t) = l + n + m /\ u \in Seq(Character) /\ Len(u) = l + n + m
    BY <1>n, <1>1, <1>2, <1>3, <1>7 DEF Spliced
  <2>2. \A k \in 1 .. l + n + m :
             t[k] = IF k <= j + n THEN r[k] ELSE IF k <= j + n + m THEN w[k - (j + n)] ELSE r[k - m]
    BY <1>n, <1>1, <1>2, <1>3, <1>7, <2>1 DEF Spliced
  <2>4. \A k \in 1 .. l + n + m :
             u[k] = IF k <= i THEN q[k] ELSE IF k <= i + n THEN v[k - i] ELSE q[k - n]
    BY <1>n, <1>1, <1>2, <1>3, <1>7, <2>1, SMTT(30) DEF Spliced
  <2> HIDE DEF l, n, m
  <2>3. ASSUME NEW k \in 1 .. l + n + m PROVE t[k] = u[k]
    <3>1. CASE k <= i
      BY <1>n, <1>5, <1>6, <2>2, <2>4, <3>1
    <3>2. CASE i < k /\ k <= i + n
      BY <1>n, <1>5, <1>6, <2>2, <2>4, <3>2
    <3>3. CASE i + n < k /\ k <= j + n
      BY <1>n, <1>5, <1>6, <2>2, <2>4, <3>3
    <3>4. CASE j + n < k /\ k <= j + n + m
      BY <1>n, <1>5, <1>6, <2>2, <2>4, <3>4
    <3>5. CASE j + n + m < k
      BY <1>n, <1>5, <1>6, <2>2, <2>4, <3>5
    <3> QED
      BY <1>n, <3>1, <3>2, <3>3, <3>4, <3>5
  <2> QED
    BY <1>3, <2>1, <2>3, SeqEqual
<1> QED
  BY <1>4, <1>7 DEF l, n, m

\* What a removal leaves moves up.
LEMMA RemovedCloses ==
  ASSUME NEW r, NEW str, NEW i \in Nat, NEW d \in Nat, Spliced(r, str, i, d, <<>>)
  PROVE  \A k \in 1 .. Len(r) : r[k] = IF k <= i THEN str[k] ELSE str[k + d]
<1>1. Len(<<>>) = 0
  OBVIOUS
<1> SUFFICES ASSUME NEW k \in 1 .. Len(r)
             PROVE  r[k] = IF k <= i THEN str[k] ELSE str[k + d]
  OBVIOUS
<1>2. Len(r) \in Nat
  BY LenProperties DEF Spliced
<1>3. k \in Nat
  BY <1>2
<1>4. r[k] = IF k <= i THEN str[k]
             ELSE IF k <= i + 0 THEN <<>>[k - i] ELSE str[k - 0 + d]
  BY <1>1 DEF Spliced
<1>5. CASE k <= i
  BY <1>4, <1>5
<1>6. CASE ~(k <= i)
  BY <1>3, <1>4, <1>6
<1> QED
  BY <1>5, <1>6

\* An insertion before a removal,
LEMMA InsertionBeforeRemoval ==
  ASSUME NEW str, NEW i, NEW v, NEW j, NEW e,
         Fits(str, i, 0, v), Fits(str, j, e, <<>>), i <= j,
         NEW r, Spliced(r, str, i, 0, v), NEW q, Spliced(q, str, j, e, <<>>)
  PROVE  /\ Fits(r, j + Len(v), e, <<>>) /\ Fits(q, i, 0, v)
         /\ \A t, u : Spliced(t, r, j + Len(v), e, <<>>) /\ Spliced(u, q, i, 0, v) => t = u
<1> DEFINE l == Len(str)
           n == Len(v)
<1>n. /\ l \in Nat /\ i \in Nat /\ j \in Nat /\ e \in Nat /\ n \in Nat
      /\ i <= l /\ j + e <= l
  BY LenProperties DEF Fits
<1>1. str \in Seq(Character) /\ v \in Seq(Character)
  BY DEF Fits
<1>2. <<>> \in Seq(Character) /\ Len(<<>>) = 0
  OBVIOUS
<1>3. /\ r \in Seq(Character) /\ q \in Seq(Character)
      /\ Len(r) = l + n /\ Len(q) = l - e
  BY <1>n, <1>1, <1>2 DEF Spliced
<1>4. Fits(r, j + Len(v), e, <<>>) /\ Fits(q, i, 0, v)
  BY <1>n, <1>1, <1>2, <1>3 DEF Fits
<1>5. \A k \in 1 .. l + n :
           r[k] = IF k <= i THEN str[k] ELSE IF k <= i + n THEN v[k - i] ELSE str[k - n]
  BY <1>n, <1>1, <1>2, <1>3 DEF Spliced
<1>6. \A k \in 1 .. l - e : q[k] = IF k <= j THEN str[k] ELSE str[k + e]
  BY <1>n, <1>1, <1>2, <1>3 DEF Spliced
<1>7. ASSUME NEW t, Spliced(t, r, j + Len(v), e, <<>>), NEW u, Spliced(u, q, i, 0, v)
      PROVE  t = u
  <2>1. /\ t \in Seq(Character) /\ Len(t) = l + n - e /\ u \in Seq(Character) /\ Len(u) = l + n - e
    BY <1>n, <1>1, <1>2, <1>3, <1>7 DEF Spliced
  <2>2. \A k \in 1 .. l + n - e : t[k] = IF k <= j + n THEN r[k] ELSE r[k + e]
    BY <1>n, <1>1, <1>2, <1>3, <1>7, <2>1 DEF Spliced
  <2>4. \A k \in 1 .. l + n - e :
             u[k] = IF k <= i THEN q[k] ELSE IF k <= i + n THEN v[k - i] ELSE q[k - n]
    BY <1>n, <1>1, <1>2, <1>3, <1>7, <2>1 DEF Spliced
  <2> HIDE DEF l, n
  <2>3. ASSUME NEW k \in 1 .. l + n - e PROVE t[k] = u[k]
    <3>1. CASE k <= i
      BY <1>n, <1>5, <1>6, <2>2, <2>4, <3>1
    <3>2. CASE i < k /\ k <= i + n
      BY <1>n, <1>5, <1>6, <2>2, <2>4, <3>2
    <3>3. CASE i + n < k /\ k <= j + n
      BY <1>n, <1>5, <1>6, <2>2, <2>4, <3>3
    <3>4. CASE j + n < k
      BY <1>n, <1>5, <1>6, <2>2, <2>4, <3>4
    <3> QED
      BY <1>n, <3>1, <3>2, <3>3, <3>4
  <2> QED
    BY <1>3, <2>1, <2>3, SeqEqual
<1> QED
  BY <1>4, <1>7 DEF l, n

\* or after one,
LEMMA InsertionAfterRemoval ==
  ASSUME NEW str, NEW i, NEW v, NEW j, NEW e,
         Fits(str, i, 0, v), Fits(str, j, e, <<>>), j + e <= i,
         NEW r, Spliced(r, str, i, 0, v), NEW q, Spliced(q, str, j, e, <<>>)
  PROVE  /\ Fits(r, j, e, <<>>) /\ Fits(q, i - e, 0, v)
         /\ \A t, u : Spliced(t, r, j, e, <<>>) /\ Spliced(u, q, i - e, 0, v) => t = u
<1> DEFINE l == Len(str)
           n == Len(v)
<1>n. /\ l \in Nat /\ i \in Nat /\ j \in Nat /\ e \in Nat /\ n \in Nat
      /\ i <= l /\ j + e <= l
  BY LenProperties DEF Fits
<1>1. str \in Seq(Character) /\ v \in Seq(Character)
  BY DEF Fits
<1>2. <<>> \in Seq(Character) /\ Len(<<>>) = 0
  OBVIOUS
<1>3. /\ r \in Seq(Character) /\ q \in Seq(Character)
      /\ Len(r) = l + n /\ Len(q) = l - e
  BY <1>n, <1>1, <1>2 DEF Spliced
<1>4. Fits(r, j, e, <<>>) /\ Fits(q, i - e, 0, v)
  BY <1>n, <1>1, <1>2, <1>3 DEF Fits
<1>5. \A k \in 1 .. l + n :
           r[k] = IF k <= i THEN str[k] ELSE IF k <= i + n THEN v[k - i] ELSE str[k - n]
  BY <1>n, <1>1, <1>2, <1>3 DEF Spliced
<1>6. \A k \in 1 .. l - e : q[k] = IF k <= j THEN str[k] ELSE str[k + e]
  BY <1>n, <1>1, <1>2, <1>3 DEF Spliced
<1>7. ASSUME NEW t, Spliced(t, r, j, e, <<>>), NEW u, Spliced(u, q, i - e, 0, v)
      PROVE  t = u
  <2>1. /\ t \in Seq(Character) /\ Len(t) = l + n - e /\ u \in Seq(Character) /\ Len(u) = l + n - e
    BY <1>n, <1>1, <1>2, <1>3, <1>7 DEF Spliced
  <2>2. \A k \in 1 .. l + n - e : t[k] = IF k <= j THEN r[k] ELSE r[k + e]
    BY <1>n, <1>7, <2>1, RemovedCloses, SMTT(30)
  <2>5. i - e \in Nat /\ Len(u) = Len(q) - 0 + n
    BY <1>n, <1>3, <2>1
  <2>4. \A k \in 1 .. l + n - e :
             u[k] = IF k <= i - e THEN q[k] ELSE IF k <= i - e + n THEN v[k - (i - e)] ELSE q[k - n]
    BY <1>n, <1>1, <1>2, <1>3, <1>7, <2>1 DEF Spliced
  <2> HIDE DEF l, n
  <2>3. ASSUME NEW k \in 1 .. l + n - e PROVE t[k] = u[k]
    <3>1. CASE k <= j
      BY <1>n, <1>5, <1>6, <2>2, <2>4, <3>1
    <3>2. CASE j < k /\ k <= i - e
      BY <1>n, <1>5, <1>6, <2>2, <2>4, <3>2
    <3>3. CASE i - e < k /\ k <= i - e + n
      BY <1>n, <1>5, <1>6, <2>2, <2>4, <3>3
    <3>4. CASE i - e + n < k
      BY <1>n, <1>5, <1>6, <2>2, <2>4, <3>4
    <3> QED
      BY <1>n, <3>1, <3>2, <3>3, <3>4
  <2> QED
    BY <1>3, <2>1, <2>3, SeqEqual
<1> QED
  BY <1>4, <1>7 DEF l, n

\* or within one, which takes with it what was inserted.
LEMMA InsertionWithinRemoval ==
  ASSUME NEW str, NEW i, NEW v, NEW j, NEW e,
         Fits(str, i, 0, v), Fits(str, j, e, <<>>), j <= i, i <= j + e,
         NEW r, Spliced(r, str, i, 0, v), NEW q, Spliced(q, str, j, e, <<>>)
  PROVE  /\ Fits(r, j, e + Len(v), <<>>)
         /\ \A t : Spliced(t, r, j, e + Len(v), <<>>) => t = q
<1> DEFINE l == Len(str)
           n == Len(v)
<1>n. /\ l \in Nat /\ i \in Nat /\ j \in Nat /\ e \in Nat /\ n \in Nat
      /\ i <= l /\ j + e <= l
  BY LenProperties DEF Fits
<1>1. str \in Seq(Character) /\ v \in Seq(Character)
  BY DEF Fits
<1>2. <<>> \in Seq(Character) /\ Len(<<>>) = 0
  OBVIOUS
<1>3. /\ r \in Seq(Character) /\ q \in Seq(Character)
      /\ Len(r) = l + n /\ Len(q) = l - e
  BY <1>n, <1>1, <1>2 DEF Spliced
<1>4. Fits(r, j, e + Len(v), <<>>)
  BY <1>n, <1>1, <1>2, <1>3 DEF Fits
<1>5. \A k \in 1 .. l + n :
           r[k] = IF k <= i THEN str[k] ELSE IF k <= i + n THEN v[k - i] ELSE str[k - n]
  BY <1>n, <1>1, <1>2, <1>3 DEF Spliced
<1>6. \A k \in 1 .. l - e : q[k] = IF k <= j THEN str[k] ELSE str[k + e]
  BY <1>n, <1>1, <1>2, <1>3 DEF Spliced
<1>7. ASSUME NEW t, Spliced(t, r, j, e + Len(v), <<>>)
      PROVE  t = q
  <2>1. /\ t \in Seq(Character) /\ Len(t) = l - e /\ Len(q) = l - e
    BY <1>n, <1>1, <1>2, <1>3, <1>7 DEF Spliced
  <2>2. \A k \in 1 .. l - e : t[k] = IF k <= j THEN r[k] ELSE r[k + (e + n)]
    BY <1>n, <1>1, <1>2, <1>3, <1>7, <2>1 DEF Spliced
  <2> HIDE DEF l, n
  <2>3. ASSUME NEW k \in 1 .. l - e PROVE t[k] = q[k]
    <3>1. CASE k <= j
      <4>1. k \in 1 .. l + n /\ k <= i
        BY <1>n, <3>1
      <4> QED
        BY <1>5, <1>6, <2>2, <3>1, <4>1
    <3>2. CASE j < k
      BY <1>n, <1>5, <1>6, <2>2, <3>2
    <3> QED
      BY <1>n, <3>1, <3>2
  <2> QED
    BY <1>3, <2>1, <2>3, SeqEqual
<1> QED
  BY <1>4, <1>7 DEF l, n

\* A removal before another,
LEMMA RemovalsApart ==
  ASSUME NEW str, NEW i, NEW d, NEW j, NEW e,
         Fits(str, i, d, <<>>), Fits(str, j, e, <<>>), i + d <= j,
         NEW r, Spliced(r, str, i, d, <<>>), NEW q, Spliced(q, str, j, e, <<>>)
  PROVE  /\ Fits(r, j - d, e, <<>>) /\ Fits(q, i, d, <<>>)
         /\ \A t, u : Spliced(t, r, j - d, e, <<>>) /\ Spliced(u, q, i, d, <<>>) => t = u
<1> DEFINE l == Len(str)
<1>n. /\ l \in Nat /\ i \in Nat /\ d \in Nat /\ j \in Nat /\ e \in Nat
      /\ i + d <= l /\ j + e <= l
  BY LenProperties DEF Fits
<1>1. str \in Seq(Character)
  BY DEF Fits
<1>2. <<>> \in Seq(Character) /\ Len(<<>>) = 0
  OBVIOUS
<1>3. /\ r \in Seq(Character) /\ q \in Seq(Character)
      /\ Len(r) = l - d /\ Len(q) = l - e
  BY <1>n, <1>1, <1>2 DEF Spliced
<1>4. Fits(r, j - d, e, <<>>) /\ Fits(q, i, d, <<>>)
  BY <1>n, <1>1, <1>2, <1>3 DEF Fits
<1>5. \A k \in 1 .. l - d : r[k] = IF k <= i THEN str[k] ELSE str[k + d]
  BY <1>n, <1>1, <1>2, <1>3 DEF Spliced
<1>6. \A k \in 1 .. l - e : q[k] = IF k <= j THEN str[k] ELSE str[k + e]
  BY <1>n, <1>1, <1>2, <1>3 DEF Spliced
<1>7. ASSUME NEW t, Spliced(t, r, j - d, e, <<>>), NEW u, Spliced(u, q, i, d, <<>>)
      PROVE  t = u
  <2>1. /\ t \in Seq(Character) /\ Len(t) = l - d - e /\ u \in Seq(Character) /\ Len(u) = l - d - e
    BY <1>n, <1>1, <1>2, <1>3, <1>7 DEF Spliced
  <2>2. \A k \in 1 .. l - d - e : t[k] = IF k <= j - d THEN r[k] ELSE r[k + e]
    BY <1>n, <1>1, <1>2, <1>3, <1>7, <2>1 DEF Spliced
  <2>4. \A k \in 1 .. l - d - e : u[k] = IF k <= i THEN q[k] ELSE q[k + d]
    BY <1>n, <1>1, <1>2, <1>3, <1>7, <2>1 DEF Spliced
  <2> HIDE DEF l
  <2>3. ASSUME NEW k \in 1 .. l - d - e PROVE t[k] = u[k]
    <3>1. CASE k <= i
      <4>1. k \in 1 .. l - d /\ k \in 1 .. l - e /\ k <= j - d /\ k <= j
        BY <1>n, <3>1
      <4> QED
        BY <1>5, <1>6, <2>2, <2>4, <3>1, <4>1
    <3>2. CASE i < k /\ k <= j - d
      BY <1>n, <1>5, <1>6, <2>2, <2>4, <3>2
    <3>3. CASE j - d < k
      BY <1>n, <1>5, <1>6, <2>2, <2>4, <3>3
    <3> QED
      BY <1>n, <3>1, <3>2, <3>3
  <2> QED
    BY <1>3, <2>1, <2>3, SeqEqual
<1> QED
  BY <1>4, <1>7 DEF l

\* one whose end the other begins with,
LEMMA RemovalsOverlap ==
  ASSUME NEW str, NEW i, NEW d, NEW j, NEW e,
         Fits(str, i, d, <<>>), Fits(str, j, e, <<>>), i <= j, j <= i + d, i + d <= j + e,
         NEW r, Spliced(r, str, i, d, <<>>), NEW q, Spliced(q, str, j, e, <<>>)
  PROVE  /\ Fits(r, i, e - (i + d - j), <<>>) /\ Fits(q, i, d - (i + d - j), <<>>)
         /\ \A t, u : Spliced(t, r, i, e - (i + d - j), <<>>) /\ Spliced(u, q, i, d - (i + d - j), <<>>)
                      => t = u
<1> DEFINE l == Len(str)
<1>n. /\ l \in Nat /\ i \in Nat /\ d \in Nat /\ j \in Nat /\ e \in Nat
      /\ i + d <= l /\ j + e <= l
  BY LenProperties DEF Fits
<1>1. str \in Seq(Character)
  BY DEF Fits
<1>2. <<>> \in Seq(Character) /\ Len(<<>>) = 0
  OBVIOUS
<1>3. /\ r \in Seq(Character) /\ q \in Seq(Character)
      /\ Len(r) = l - d /\ Len(q) = l - e
  BY <1>n, <1>1, <1>2 DEF Spliced
<1>4. Fits(r, i, e - (i + d - j), <<>>) /\ Fits(q, i, d - (i + d - j), <<>>)
  BY <1>n, <1>1, <1>2, <1>3 DEF Fits
<1>5. \A k \in 1 .. l - d : r[k] = IF k <= i THEN str[k] ELSE str[k + d]
  BY <1>n, <1>1, <1>2, <1>3 DEF Spliced
<1>6. \A k \in 1 .. l - e : q[k] = IF k <= j THEN str[k] ELSE str[k + e]
  BY <1>n, <1>1, <1>2, <1>3 DEF Spliced
<1>7. ASSUME NEW t, Spliced(t, r, i, e - (i + d - j), <<>>),
             NEW u, Spliced(u, q, i, d - (i + d - j), <<>>)
      PROVE  t = u
  <2>1. /\ t \in Seq(Character) /\ Len(t) = l - d - e + (i + d - j)
        /\ u \in Seq(Character) /\ Len(u) = l - d - e + (i + d - j)
    BY <1>n, <1>1, <1>2, <1>3, <1>7 DEF Spliced
  <2>2. \A k \in 1 .. l - d - e + (i + d - j) :
             t[k] = IF k <= i THEN r[k] ELSE r[k + (e - (i + d - j))]
    BY <1>n, <1>1, <1>2, <1>3, <1>7, <2>1, SMTT(30) DEF Spliced
  <2>4. \A k \in 1 .. l - d - e + (i + d - j) :
             u[k] = IF k <= i THEN q[k] ELSE q[k + (d - (i + d - j))]
    BY <1>n, <1>1, <1>2, <1>3, <1>7, <2>1 DEF Spliced
  <2> HIDE DEF l
  <2>3. ASSUME NEW k \in 1 .. l - d - e + (i + d - j) PROVE t[k] = u[k]
    <3>1. CASE k <= i
      <4>1. k \in 1 .. l - d /\ k \in 1 .. l - e /\ k <= j
        BY <1>n, <3>1
      <4>2. t[k] = r[k] /\ u[k] = q[k]
        BY <2>2, <2>4, <3>1
      <4>3. r[k] = str[k] /\ q[k] = str[k]
        BY <1>5, <1>6, <3>1, <4>1
      <4> QED
        BY <4>2, <4>3
    <3>2. CASE i < k
      <4> DEFINE x == k + (e - (i + d - j))
                 y == k + (d - (i + d - j))
      <4>1. /\ x \in 1 .. l - d /\ ~(x <= i) /\ y \in 1 .. l - e /\ ~(y <= j) /\ ~(k <= i)
            /\ x + d = y + e
        BY <1>n, <3>2
      <4>2. t[k] = r[x] /\ u[k] = q[y]
        BY <2>2, <2>4, <4>1
      <4> HIDE DEF x, y
      <4>3. r[x] = str[x + d] /\ q[y] = str[y + e]
        BY <1>5, <1>6, <4>1
      <4> QED
        BY <4>1, <4>2, <4>3
    <3> QED
      BY <1>n, <3>1, <3>2
  <2> QED
    BY <1>3, <2>1, <2>3, SeqEqual
<1> QED
  BY <1>4, <1>7 DEF l

\* one within the other,
LEMMA RemovalWithinRemoval ==
  ASSUME NEW str, NEW i, NEW d, NEW j, NEW e,
         Fits(str, i, d, <<>>), Fits(str, j, e, <<>>), j <= i, i + d <= j + e,
         NEW r, Spliced(r, str, i, d, <<>>), NEW q, Spliced(q, str, j, e, <<>>)
  PROVE  /\ Fits(r, j, e - d, <<>>)
         /\ \A t : Spliced(t, r, j, e - d, <<>>) => t = q
<1> DEFINE l == Len(str)
<1>n. /\ l \in Nat /\ i \in Nat /\ d \in Nat /\ j \in Nat /\ e \in Nat
      /\ i + d <= l /\ j + e <= l
  BY LenProperties DEF Fits
<1>1. str \in Seq(Character)
  BY DEF Fits
<1>2. <<>> \in Seq(Character) /\ Len(<<>>) = 0
  OBVIOUS
<1>3. /\ r \in Seq(Character) /\ q \in Seq(Character)
      /\ Len(r) = l - d /\ Len(q) = l - e
  BY <1>n, <1>1, <1>2 DEF Spliced
<1>4. Fits(r, j, e - d, <<>>)
  BY <1>n, <1>1, <1>2, <1>3 DEF Fits
<1>5. \A k \in 1 .. l - d : r[k] = IF k <= i THEN str[k] ELSE str[k + d]
  BY <1>n, <1>1, <1>2, <1>3 DEF Spliced
<1>6. \A k \in 1 .. l - e : q[k] = IF k <= j THEN str[k] ELSE str[k + e]
  BY <1>n, <1>1, <1>2, <1>3 DEF Spliced
<1>7. ASSUME NEW t, Spliced(t, r, j, e - d, <<>>)
      PROVE  t = q
  <2>1. /\ t \in Seq(Character) /\ Len(t) = l - e /\ Len(q) = l - e
    BY <1>n, <1>1, <1>2, <1>3, <1>7 DEF Spliced
  <2>2. \A k \in 1 .. l - e : t[k] = IF k <= j THEN r[k] ELSE r[k + (e - d)]
    BY <1>n, <1>1, <1>2, <1>3, <1>7, <2>1 DEF Spliced
  <2> HIDE DEF l
  <2>3. ASSUME NEW k \in 1 .. l - e PROVE t[k] = q[k]
    <3>1. CASE k <= j
      BY <1>n, <1>5, <1>6, <2>2, <3>1
    <3>2. CASE j < k
      BY <1>n, <1>5, <1>6, <2>2, <3>2
    <3> QED
      BY <1>n, <3>1, <3>2
  <2> QED
    BY <1>3, <2>1, <2>3, SeqEqual
<1> QED
  BY <1>4, <1>7 DEF l

\* or one that is the other.
LEMMA RemovalsEqual ==
  ASSUME NEW str, NEW i, NEW d,
         Fits(str, i, d, <<>>), Fits(str, i, d, <<>>), d \in Nat,
         NEW r, Spliced(r, str, i, d, <<>>), NEW q, Spliced(q, str, i, d, <<>>)
  PROVE  r = q
<1> DEFINE l == Len(str)
<1>n. /\ l \in Nat /\ i \in Nat /\ d \in Nat
      /\ i + d <= l /\ i + d <= l
  BY LenProperties DEF Fits
<1>1. str \in Seq(Character)
  BY DEF Fits
<1>2. <<>> \in Seq(Character) /\ Len(<<>>) = 0
  OBVIOUS
<1>3. /\ r \in Seq(Character) /\ q \in Seq(Character)
      /\ Len(r) = l - d /\ Len(q) = l - d
  BY <1>n, <1>1, <1>2 DEF Spliced
<1>5. \A k \in 1 .. l - d : r[k] = IF k <= i THEN str[k] ELSE str[k + d]
  BY <1>n, <1>1, <1>2, <1>3 DEF Spliced
<1>6. \A k \in 1 .. l - d : q[k] = IF k <= i THEN str[k] ELSE str[k + d]
  BY <1>n, <1>1, <1>2, <1>3 DEF Spliced
<1> HIDE DEF l
<1>7. ASSUME NEW k \in 1 .. l - d PROVE r[k] = q[k]
  <2>1. CASE k <= i
    BY <1>n, <1>5, <1>6, <2>1
  <2>2. CASE i < k
    BY <1>n, <1>5, <1>6, <2>2
  <2> QED
    BY <1>n, <2>1, <2>2
<1> QED
  BY <1>3, <1>7, SeqEqual DEF l

----------------------------------------------------------------------------
(* Operations on a string                                                  *)

CONSTANTS
  StringId  \* the strings of the model

Insertion ==
  [type : {"StringSplice"}, id : StringId, noOp : BOOLEAN, index : Nat,
   deleteCount : {0}, insertValue : Seq(Character) \ {<<>>}]

Removal ==
  [type : {"StringSplice"}, id : StringId, noOp : BOOLEAN, index : Nat,
   deleteCount : Nat \ {0}, insertValue : {<<>>}]

Replacement ==
  [type : {"StringSet"}, id : StringId, noOp : BOOLEAN, value : Seq(Character)]

Splice == Insertion \cup Removal
TextOperation == Splice \cup Replacement

\* A cancelled operation is always in order, any other if its value takes it.
Possible(str, op) == op.noOp \/ StringAccepts(str, op)
Effect(str, op) == IF op.noOp THEN str ELSE StringApply(str, op)

\* Operation op can be issued on str, and makes it text.
TextIssued(str, op) ==
  /\ str \in Seq(Character) /\ op \in TextOperation /\ Possible(str, op)
  /\ Effect(str, op) \in Seq(Character)

\* With x and y, what s and c have become, both orders make str the same text.
Meet(str, s, c, x, y) ==
  /\ TextIssued(Effect(str, c), x) /\ x.id = s.id
  /\ TextIssued(Effect(str, s), y) /\ y.id = c.id
  /\ Effect(Effect(str, s), y) = Effect(Effect(str, c), x)

\* It does not matter which of them is the server's.
LEMMA MeetIsSymmetric ==
  ASSUME NEW str, NEW s, NEW c, NEW x, NEW y, Meet(str, c, s, y, x)
  PROVE  Meet(str, s, c, x, y)
BY DEF Meet

\* A splice that fits its string is possible, and does what Spliced says.
LEMMA SpliceFits ==
  ASSUME NEW str, NEW op, op \in Splice, ~op.noOp,
         Fits(str, op.index, op.deleteCount, op.insertValue)
  PROVE  /\ TextIssued(str, op)
         /\ Spliced(Effect(str, op), str, op.index, op.deleteCount, op.insertValue)
<1>1. op.type = "StringSplice"
  BY DEF Splice, Insertion, Removal
<1>2. Effect(str, op) = StringApply(str, op)
  BY DEF Effect
<1>3. Spliced(StringApply(str, op), str, op.index, op.deleteCount, op.insertValue)
  BY <1>1, SplicedByStringApply
<1>4. StringApply(str, op) \in Seq(Character)
  BY <1>3 DEF Spliced
<1>5. StringAccepts(str, op)
  BY LenProperties DEF StringAccepts, Fits
<1> QED
  BY <1>2, <1>3, <1>4, <1>5 DEF TextIssued, Possible, TextOperation, Fits

\* A splice that is possible fits its string.
LEMMA PossibleFits ==
  ASSUME NEW str \in Seq(Character), NEW op \in Splice, ~op.noOp, Possible(str, op)
  PROVE  Fits(str, op.index, op.deleteCount, op.insertValue)
<1>1. CASE op \in Insertion
  BY <1>1, LenProperties DEF Insertion, Possible, StringAccepts, Fits
<1>2. CASE op \in Removal
  <2>1. <<>> \in Seq(Character) /\ Len(str) \in Nat
    BY LenProperties
  <2>2. /\ op.type = "StringSplice" /\ op.index \in Nat /\ op.deleteCount \in Nat
        /\ op.insertValue = <<>>
    BY <1>2 DEF Removal
  <2>3. op.index + op.deleteCount \in 0 .. Len(str)
    BY <2>2 DEF Possible, StringAccepts
  <2>4. op.index + op.deleteCount <= Len(str)
    BY <2>1, <2>2, <2>3
  <2> QED
    BY <2>1, <2>2, <2>4 DEF Fits
<1> QED
  BY <1>1, <1>2 DEF Splice

\* Whatever is possible leaves text.
LEMMA PossibleIsIssued ==
  ASSUME NEW str \in Seq(Character), NEW op \in TextOperation, Possible(str, op)
  PROVE  TextIssued(str, op)
<1>1. CASE op.noOp
  BY <1>1 DEF TextIssued, Effect
<1>2. CASE ~op.noOp /\ op \in Splice
  BY <1>2, PossibleFits, SpliceFits
<1>3. CASE ~op.noOp /\ op \in Replacement
  BY <1>3 DEF TextIssued, Effect, StringApply, Replacement
<1> QED
  BY <1>1, <1>2, <1>3 DEF TextOperation

\* A cancelled operation changes nothing.
LEMMA CancelledIsIssued ==
  ASSUME NEW str \in Seq(Character), NEW op \in TextOperation
  PROVE  TextIssued(str, NoOp(op)) /\ NoOp(op).id = op.id /\ Effect(str, NoOp(op)) = str
<1>1. CASE op \in Insertion
  BY <1>1 DEF NoOp, TextOperation, Splice, Insertion, TextIssued, Effect, Possible
<1>2. CASE op \in Removal
  BY <1>2 DEF NoOp, TextOperation, Splice, Removal, TextIssued, Effect, Possible
<1>3. CASE op \in Replacement
  BY <1>3 DEF NoOp, TextOperation, Replacement, TextIssued, Effect, Possible
<1> QED
  BY <1>1, <1>2, <1>3 DEF TextOperation, Splice

\* Two splices meet when those they become fit and do the same,
LEMMA SplicesMeet ==
  ASSUME NEW str, NEW s, NEW c,
         NEW x \in Splice, ~x.noOp, x.id = s.id, NEW y \in Splice, ~y.noOp, y.id = c.id,
         Fits(Effect(str, s), y.index, y.deleteCount, y.insertValue),
         Fits(Effect(str, c), x.index, x.deleteCount, x.insertValue),
         \A t, u : Spliced(t, Effect(str, s), y.index, y.deleteCount, y.insertValue)
                     /\ Spliced(u, Effect(str, c), x.index, x.deleteCount, x.insertValue) => t = u
  PROVE  Meet(str, s, c, x, y)
<1>1. /\ TextIssued(Effect(str, s), y)
      /\ Spliced(Effect(Effect(str, s), y), Effect(str, s), y.index, y.deleteCount, y.insertValue)
  BY SpliceFits
<1>2. /\ TextIssued(Effect(str, c), x)
      /\ Spliced(Effect(Effect(str, c), x), Effect(str, c), x.index, x.deleteCount, x.insertValue)
  BY SpliceFits
<1>3. Effect(Effect(str, s), y) = Effect(Effect(str, c), x)
  BY <1>1, <1>2
<1> QED
  BY <1>1, <1>2, <1>3 DEF Meet

\* or when one is cancelled and the other makes good for it.
LEMMA OneCancelled ==
  ASSUME NEW str, NEW s \in TextOperation, NEW c,
         NEW y \in Splice, ~y.noOp, y.id = c.id, Effect(str, c) \in Seq(Character),
         Fits(Effect(str, s), y.index, y.deleteCount, y.insertValue),
         \A t : Spliced(t, Effect(str, s), y.index, y.deleteCount, y.insertValue)
                  => t = Effect(str, c)
  PROVE  Meet(str, s, c, NoOp(s), y)
<1>1. /\ TextIssued(Effect(str, s), y)
      /\ Spliced(Effect(Effect(str, s), y), Effect(str, s), y.index, y.deleteCount, y.insertValue)
  BY SpliceFits
<1>2. Effect(Effect(str, s), y) = Effect(str, c)
  BY <1>1
<1> QED
  BY <1>1, <1>2, CancelledIsIssued DEF Meet

\* Two splices of str by two sessions.
TwoSplices(str, s, c) ==
  /\ str \in Seq(Character)
  /\ s \in Splice /\ ~s.noOp /\ Possible(str, s)
  /\ c \in Splice /\ ~c.noOp /\ Possible(str, c)
  /\ s.id = c.id

\* What each of them makes of it.
LEMMA TwoSplicesDo ==
  ASSUME NEW str, NEW s, NEW c, TwoSplices(str, s, c)
  PROVE  /\ Fits(str, s.index, s.deleteCount, s.insertValue)
         /\ Fits(str, c.index, c.deleteCount, c.insertValue)
         /\ Spliced(Effect(str, s), str, s.index, s.deleteCount, s.insertValue)
         /\ Spliced(Effect(str, c), str, c.index, c.deleteCount, c.insertValue)
         /\ Effect(str, s) \in Seq(Character) /\ Effect(str, c) \in Seq(Character)
<1>1. Fits(str, s.index, s.deleteCount, s.insertValue)
  BY PossibleFits DEF TwoSplices
<1>2. Fits(str, c.index, c.deleteCount, c.insertValue)
  BY PossibleFits DEF TwoSplices
<1>3. Spliced(Effect(str, s), str, s.index, s.deleteCount, s.insertValue)
  BY <1>1, SpliceFits DEF TwoSplices
<1>4. Spliced(Effect(str, c), str, c.index, c.deleteCount, c.insertValue)
  BY <1>2, SpliceFits DEF TwoSplices
<1> QED
  BY <1>1, <1>2, <1>3, <1>4 DEF Spliced

----------------------------------------------------------------------------
(* Splices of one string                                                   *)

\* The operations of a splice: what changes, and that it stays what it is.
LEMMA ShiftedSplice ==
  ASSUME NEW op \in Splice, NEW n \in Int, op.index + n \in Nat
  PROVE  /\ Shift(op, n) \in Splice /\ Shift(op, n).index = op.index + n
         /\ Shift(op, n).deleteCount = op.deleteCount
         /\ Shift(op, n).insertValue = op.insertValue
         /\ Shift(op, n).id = op.id /\ Shift(op, n).noOp = op.noOp
<1>1. CASE op \in Insertion
  BY <1>1 DEF Shift, Splice, Insertion
<1>2. CASE op \in Removal
  BY <1>2 DEF Shift, Splice, Removal
<1> QED
  BY <1>1, <1>2 DEF Splice

\* A removal, made longer and moved,
LEMMA GrownRemoval ==
  ASSUME NEW op \in Removal, NEW i \in Nat, NEW n \in Int, op.deleteCount + n \in Nat \ {0}
  PROVE  /\ At(Grow(op, n), i) \in Removal /\ At(Grow(op, n), i).index = i
         /\ At(Grow(op, n), i).deleteCount = op.deleteCount + n
         /\ At(Grow(op, n), i).insertValue = <<>>
         /\ At(Grow(op, n), i).id = op.id /\ At(Grow(op, n), i).noOp = op.noOp
         /\ Grow(op, n) = At(Grow(op, n), op.index)
<1> DEFINE d == op.deleteCount + n
<1>1. d \in Nat \ {0}
  BY DEF Removal
<1>2. Grow(op, n) = [op EXCEPT !.deleteCount = d]
  BY <1>1 DEF Grow
<1> HIDE DEF d
<1>3. /\ At([op EXCEPT !.deleteCount = d], i) \in Removal
      /\ At([op EXCEPT !.deleteCount = d], i).index = i
      /\ At([op EXCEPT !.deleteCount = d], i).deleteCount = d
      /\ At([op EXCEPT !.deleteCount = d], i).insertValue = <<>>
      /\ At([op EXCEPT !.deleteCount = d], i).id = op.id
      /\ At([op EXCEPT !.deleteCount = d], i).noOp = op.noOp
  BY <1>1 DEF At, Removal
<1>4. [op EXCEPT !.deleteCount = d] = At([op EXCEPT !.deleteCount = d], op.index)
  BY DEF At, Removal
<1> QED
  BY <1>2, <1>3, <1>4 DEF d

\* or made shorter, is still one.
LEMMA ShrunkRemoval ==
  ASSUME NEW op \in Removal, NEW i \in Nat, NEW n \in Int, op.deleteCount - n \in Nat \ {0}
  PROVE  /\ At(Shrink(op, n), i) \in Removal /\ At(Shrink(op, n), i).index = i
         /\ At(Shrink(op, n), i).deleteCount = op.deleteCount - n
         /\ At(Shrink(op, n), i).insertValue = <<>>
         /\ At(Shrink(op, n), i).id = op.id /\ At(Shrink(op, n), i).noOp = op.noOp
         /\ Shrink(op, n) = At(Shrink(op, n), op.index)
<1> DEFINE d == op.deleteCount - n
<1>1. d \in Nat \ {0}
  BY DEF Removal
<1>2. Shrink(op, n) = [op EXCEPT !.deleteCount = d]
  BY <1>1 DEF Shrink
<1> HIDE DEF d
<1>3. /\ At([op EXCEPT !.deleteCount = d], i) \in Removal
      /\ At([op EXCEPT !.deleteCount = d], i).index = i
      /\ At([op EXCEPT !.deleteCount = d], i).deleteCount = d
      /\ At([op EXCEPT !.deleteCount = d], i).insertValue = <<>>
      /\ At([op EXCEPT !.deleteCount = d], i).id = op.id
      /\ At([op EXCEPT !.deleteCount = d], i).noOp = op.noOp
  BY <1>1 DEF At, Removal
<1>4. [op EXCEPT !.deleteCount = d] = At([op EXCEPT !.deleteCount = d], op.index)
  BY DEF At, Removal
<1> QED
  BY <1>2, <1>3, <1>4 DEF d

\* Two insertions.
LEMMA InsertionsMeet ==
  ASSUME NEW str, NEW s \in Insertion, NEW c \in Insertion, TwoSplices(str, s, c),
         s.index <= c.index
  PROVE  Meet(str, s, c, s, Shift(c, Inserted(s)))
<1> DEFINE y == Shift(c, Inserted(s))
<1>1. /\ s.index \in Nat /\ c.index \in Nat /\ s.deleteCount = 0 /\ c.deleteCount = 0
      /\ s.insertValue \in Seq(Character) /\ s.id = c.id /\ ~s.noOp /\ ~c.noOp
      /\ s \in Splice /\ c \in Splice
  BY DEF Insertion, TwoSplices
<1>2. Inserted(s) = Len(s.insertValue) /\ Inserted(s) \in Nat
  BY <1>1, LenProperties DEF Inserted
<1>3. /\ y \in Splice /\ y.index = c.index + Len(s.insertValue) /\ y.deleteCount = 0
      /\ y.insertValue = c.insertValue /\ y.id = c.id /\ ~y.noOp
  BY <1>1, <1>2, ShiftedSplice
<1>4. /\ Fits(Effect(str, s), c.index + Len(s.insertValue), 0, c.insertValue)
      /\ Fits(Effect(str, c), s.index, 0, s.insertValue)
      /\ \A t, u : Spliced(t, Effect(str, s), c.index + Len(s.insertValue), 0, c.insertValue)
                     /\ Spliced(u, Effect(str, c), s.index, 0, s.insertValue) => t = u
  <2>1. /\ Fits(str, s.index, 0, s.insertValue) /\ Fits(str, c.index, 0, c.insertValue)
        /\ Spliced(Effect(str, s), str, s.index, 0, s.insertValue)
        /\ Spliced(Effect(str, c), str, c.index, 0, c.insertValue)
    BY <1>1, TwoSplicesDo
  <2> QED
    BY <2>1, InsertionsConverge
<1> HIDE DEF y
<1>5. Meet(str, s, c, s, y)
  BY <1>1, <1>3, <1>4, SplicesMeet
<1> QED
  BY <1>5 DEF y

\* An insertion and a removal.
LEMMA InsertionMeetsRemoval ==
  ASSUME NEW str, NEW s \in Insertion, NEW c \in Removal, TwoSplices(str, s, c)
  PROVE  /\ s.index <= c.index => Meet(str, s, c, s, Shift(c, Inserted(s)))
         /\ SpliceEnd(c) <= s.index => Meet(str, s, c, Shift(s, -c.deleteCount), c)
         /\ c.index < s.index /\ s.index < SpliceEnd(c) =>
              Meet(str, s, c, NoOp(s), Grow(c, Inserted(s)))
<1>1. /\ s.index \in Nat /\ c.index \in Nat /\ s.deleteCount = 0 /\ c.deleteCount \in Nat \ {0}
      /\ s.insertValue \in Seq(Character) /\ c.insertValue = <<>>
      /\ s.id = c.id /\ ~s.noOp /\ ~c.noOp /\ s \in Splice /\ c \in Splice
  BY DEF Insertion, Removal, TwoSplices
<1>2. Inserted(s) = Len(s.insertValue) /\ Inserted(s) \in Nat
  BY <1>1, LenProperties DEF Inserted
<1>3. SpliceEnd(c) = c.index + c.deleteCount
  BY DEF SpliceEnd
<1>4. /\ Fits(str, s.index, 0, s.insertValue) /\ Fits(str, c.index, c.deleteCount, <<>>)
      /\ Spliced(Effect(str, s), str, s.index, 0, s.insertValue)
      /\ Spliced(Effect(str, c), str, c.index, c.deleteCount, <<>>)
      /\ Effect(str, s) \in Seq(Character) /\ Effect(str, c) \in Seq(Character)
  BY <1>1, TwoSplicesDo
<1>5. ASSUME s.index <= c.index PROVE Meet(str, s, c, s, Shift(c, Inserted(s)))
  <2> DEFINE y == Shift(c, Inserted(s))
  <2>0. c.index + Inserted(s) \in Nat /\ Inserted(s) \in Int
    BY <1>1, <1>2
  <2>1. /\ y \in Splice /\ y.index = c.index + Len(s.insertValue)
        /\ y.deleteCount = c.deleteCount /\ y.insertValue = <<>> /\ y.id = c.id /\ ~y.noOp
    BY <1>1, <1>2, <2>0, ShiftedSplice
  <2>2. /\ Fits(Effect(str, s), c.index + Len(s.insertValue), c.deleteCount, <<>>)
        /\ Fits(Effect(str, c), s.index, 0, s.insertValue)
        /\ \A t, u : Spliced(t, Effect(str, s), c.index + Len(s.insertValue), c.deleteCount, <<>>)
                       /\ Spliced(u, Effect(str, c), s.index, 0, s.insertValue) => t = u
    BY <1>4, <1>5, InsertionBeforeRemoval
  <2> HIDE DEF y
  <2>3. Meet(str, s, c, s, y)
    BY <1>1, <2>1, <2>2, SplicesMeet
  <2> QED
    BY <2>3 DEF y
<1>6. ASSUME SpliceEnd(c) <= s.index PROVE Meet(str, s, c, Shift(s, -c.deleteCount), c)
  <2> DEFINE x == Shift(s, -c.deleteCount)
  <2>1. s.index + (-c.deleteCount) = s.index - c.deleteCount /\ s.index - c.deleteCount \in Nat
        /\ -c.deleteCount \in Int
    BY <1>1, <1>3, <1>6
  <2>2. /\ x \in Splice /\ x.index = s.index - c.deleteCount
        /\ x.deleteCount = 0 /\ x.insertValue = s.insertValue /\ x.id = s.id /\ ~x.noOp
    BY <1>1, <2>1, ShiftedSplice
  <2>3. /\ Fits(Effect(str, s), c.index, c.deleteCount, <<>>)
        /\ Fits(Effect(str, c), s.index - c.deleteCount, 0, s.insertValue)
        /\ \A t, u : Spliced(t, Effect(str, s), c.index, c.deleteCount, <<>>)
                       /\ Spliced(u, Effect(str, c), s.index - c.deleteCount, 0, s.insertValue) => t = u
    BY <1>3, <1>4, <1>6, InsertionAfterRemoval
  <2> HIDE DEF x
  <2>4. Meet(str, s, c, x, c)
    BY <1>1, <2>2, <2>3, SplicesMeet
  <2> QED
    BY <2>4 DEF x
<1>7. ASSUME c.index < s.index, s.index < SpliceEnd(c)
      PROVE  Meet(str, s, c, NoOp(s), Grow(c, Inserted(s)))
  <2> DEFINE y == Grow(c, Inserted(s))
  <2>1. c.deleteCount + Inserted(s) \in Nat \ {0}
    BY <1>1, <1>2
  <2>2. /\ y \in Splice /\ y.index = c.index /\ y.deleteCount = c.deleteCount + Len(s.insertValue)
        /\ y.insertValue = <<>> /\ y.id = c.id /\ ~y.noOp
    BY <1>1, <1>2, <2>1, GrownRemoval DEF Splice
  <2>3. /\ Fits(Effect(str, s), c.index, c.deleteCount + Len(s.insertValue), <<>>)
        /\ \A t : Spliced(t, Effect(str, s), c.index, c.deleteCount + Len(s.insertValue), <<>>)
                    => t = Effect(str, c)
    <3>1. c.index <= s.index /\ s.index <= c.index + c.deleteCount
      BY <1>1, <1>3, <1>7
    <3> QED
      BY <1>4, <3>1, InsertionWithinRemoval
  <2> HIDE DEF y
  <2>4. Meet(str, s, c, NoOp(s), y)
    BY <1>1, <1>4, <2>2, <2>3, OneCancelled DEF TextOperation
  <2> QED
    BY <2>4 DEF y
<1> QED
  BY <1>5, <1>6, <1>7

\* Two removals: one before the other,
LEMMA RemovalsMeet ==
  ASSUME NEW str, NEW s \in Removal, NEW c \in Removal, TwoSplices(str, s, c)
  PROVE  /\ SpliceEnd(s) <= c.index => Meet(str, s, c, s, Shift(c, -s.deleteCount))
         /\ s.index < c.index /\ c.index <= SpliceEnd(s) /\ SpliceEnd(s) < SpliceEnd(c) =>
              LET overlap == SpliceEnd(s) - c.index
              IN  Meet(str, s, c, Shrink(s, overlap), At(Shrink(c, overlap), s.index))
         /\ c.index <= s.index /\ SpliceEnd(s) <= SpliceEnd(c) /\ s.deleteCount < c.deleteCount =>
              Meet(str, s, c, NoOp(s), Shrink(c, s.deleteCount))
         /\ s.index = c.index /\ SpliceEnd(s) = SpliceEnd(c) => Meet(str, s, c, NoOp(s), NoOp(c))
<1>1. /\ s.index \in Nat /\ c.index \in Nat
      /\ s.deleteCount \in Nat \ {0} /\ c.deleteCount \in Nat \ {0}
      /\ s.insertValue = <<>> /\ c.insertValue = <<>>
      /\ s.id = c.id /\ ~s.noOp /\ ~c.noOp /\ s \in Splice /\ c \in Splice
  BY DEF Removal, TwoSplices
<1>2. SpliceEnd(c) = c.index + c.deleteCount /\ SpliceEnd(s) = s.index + s.deleteCount
  BY DEF SpliceEnd
<1>3. /\ Fits(str, s.index, s.deleteCount, <<>>) /\ Fits(str, c.index, c.deleteCount, <<>>)
      /\ Spliced(Effect(str, s), str, s.index, s.deleteCount, <<>>)
      /\ Spliced(Effect(str, c), str, c.index, c.deleteCount, <<>>)
      /\ Effect(str, s) \in Seq(Character) /\ Effect(str, c) \in Seq(Character)
  BY <1>1, TwoSplicesDo
<1>4. ASSUME SpliceEnd(s) <= c.index PROVE Meet(str, s, c, s, Shift(c, -s.deleteCount))
  <2> DEFINE y == Shift(c, -s.deleteCount)
  <2>1. c.index + (-s.deleteCount) = c.index - s.deleteCount /\ c.index - s.deleteCount \in Nat
        /\ -s.deleteCount \in Int
    BY <1>1, <1>2, <1>4
  <2>2. /\ y \in Splice /\ y.index = c.index - s.deleteCount
        /\ y.deleteCount = c.deleteCount /\ y.insertValue = <<>> /\ y.id = c.id /\ ~y.noOp
    BY <1>1, <2>1, ShiftedSplice
  <2>3. /\ Fits(Effect(str, s), c.index - s.deleteCount, c.deleteCount, <<>>)
        /\ Fits(Effect(str, c), s.index, s.deleteCount, <<>>)
        /\ \A t, u : Spliced(t, Effect(str, s), c.index - s.deleteCount, c.deleteCount, <<>>)
                       /\ Spliced(u, Effect(str, c), s.index, s.deleteCount, <<>>) => t = u
    BY <1>2, <1>3, <1>4, RemovalsApart
  <2> HIDE DEF y
  <2>4. Meet(str, s, c, s, y)
    BY <1>1, <2>2, <2>3, SplicesMeet
  <2> QED
    BY <2>4 DEF y
<1>5. ASSUME s.index < c.index, c.index <= SpliceEnd(s), SpliceEnd(s) < SpliceEnd(c)
      PROVE  LET overlap == SpliceEnd(s) - c.index
             IN  Meet(str, s, c, Shrink(s, overlap), At(Shrink(c, overlap), s.index))
  <2> DEFINE o == SpliceEnd(s) - c.index
             x == Shrink(s, o)
             y == At(Shrink(c, o), s.index)
  <2>1. /\ o = s.index + s.deleteCount - c.index /\ o \in Int
        /\ s.deleteCount - o \in Nat \ {0}
        /\ c.deleteCount - o \in Nat \ {0}
    BY <1>1, <1>2, <1>5
  <2> HIDE DEF o
  <2>2. /\ x \in Splice /\ x.index = s.index
        /\ x.deleteCount = s.deleteCount - o /\ x.insertValue = <<>> /\ x.id = s.id /\ ~x.noOp
    <3>1. /\ At(Shrink(s, o), s.index) \in Removal /\ x = At(Shrink(s, o), s.index)
          /\ At(Shrink(s, o), s.index).index = s.index
          /\ At(Shrink(s, o), s.index).deleteCount = s.deleteCount - o
          /\ At(Shrink(s, o), s.index).insertValue = <<>>
          /\ At(Shrink(s, o), s.index).id = s.id /\ At(Shrink(s, o), s.index).noOp = s.noOp
      BY <1>1, <2>1, ShrunkRemoval, SMTT(30)
    <3> QED
      BY <1>1, <3>1 DEF Splice
  <2>3. /\ y \in Splice /\ y.index = s.index
        /\ y.deleteCount = c.deleteCount - o /\ y.insertValue = <<>> /\ y.id = c.id /\ ~y.noOp
    <3>0. /\ c \in Removal /\ s.index \in Nat /\ o \in Int
          /\ c.deleteCount - o \in Nat \ {0}
      BY <1>1, <2>1
    <3>1. /\ At(Shrink(c, o), s.index) \in Removal
          /\ At(Shrink(c, o), s.index).index = s.index
          /\ At(Shrink(c, o), s.index).deleteCount = c.deleteCount - o
          /\ At(Shrink(c, o), s.index).insertValue = <<>>
          /\ At(Shrink(c, o), s.index).id = c.id /\ At(Shrink(c, o), s.index).noOp = c.noOp
      BY <3>0, ShrunkRemoval
    <3> QED
      BY <1>1, <3>1 DEF Splice
  <2>4. /\ Fits(Effect(str, s), s.index, c.deleteCount - o, <<>>)
        /\ Fits(Effect(str, c), s.index, s.deleteCount - o, <<>>)
        /\ \A t, u : Spliced(t, Effect(str, s), s.index, c.deleteCount - o, <<>>)
                       /\ Spliced(u, Effect(str, c), s.index, s.deleteCount - o, <<>>) => t = u
    <3>1. /\ s.index <= c.index /\ c.index <= s.index + s.deleteCount
          /\ s.index + s.deleteCount <= c.index + c.deleteCount
      BY <1>1, <1>2, <1>5
    <3> QED
      BY <1>3, <2>1, <3>1, RemovalsOverlap
  <2> HIDE DEF x, y
  <2>5. Meet(str, s, c, x, y)
    BY <1>1, <2>2, <2>3, <2>4, SplicesMeet
  <2> QED
    BY <2>5 DEF x, y, o
<1>6. ASSUME c.index <= s.index, SpliceEnd(s) <= SpliceEnd(c), s.deleteCount < c.deleteCount
      PROVE  Meet(str, s, c, NoOp(s), Shrink(c, s.deleteCount))
  <2> DEFINE d == s.deleteCount
             y == Shrink(c, d)
  <2>1. /\ d = s.deleteCount /\ d \in Int /\ c.deleteCount - d \in Nat \ {0}
    BY <1>1, <1>6
  <2> HIDE DEF d
  <2>2. /\ y \in Splice /\ y.index = c.index
        /\ y.deleteCount = c.deleteCount - d /\ y.insertValue = <<>> /\ y.id = c.id /\ ~y.noOp
    <3>0. /\ c \in Removal /\ c.index \in Nat /\ d \in Int
          /\ c.deleteCount - d \in Nat \ {0}
      BY <1>1, <2>1
    <3>1. /\ At(Shrink(c, d), c.index) \in Removal /\ y = At(Shrink(c, d), c.index)
          /\ At(Shrink(c, d), c.index).index = c.index
          /\ At(Shrink(c, d), c.index).deleteCount = c.deleteCount - d
          /\ At(Shrink(c, d), c.index).insertValue = <<>>
          /\ At(Shrink(c, d), c.index).id = c.id /\ At(Shrink(c, d), c.index).noOp = c.noOp
      BY <3>0, ShrunkRemoval
    <3> QED
      BY <1>1, <3>1 DEF Splice
  <2>3. /\ Fits(Effect(str, s), c.index, c.deleteCount - d, <<>>)
        /\ \A t : Spliced(t, Effect(str, s), c.index, c.deleteCount - d, <<>>) => t = Effect(str, c)
    BY <1>2, <1>3, <1>6, <2>1, RemovalWithinRemoval
  <2> HIDE DEF y
  <2>4. Meet(str, s, c, NoOp(s), y)
    BY <1>1, <1>3, <2>2, <2>3, OneCancelled DEF TextOperation
  <2> QED
    BY <2>4 DEF y, d
<1>7. ASSUME s.index = c.index, SpliceEnd(s) = SpliceEnd(c)
      PROVE  Meet(str, s, c, NoOp(s), NoOp(c))
  <2>1. s.deleteCount = c.deleteCount /\ s.deleteCount \in Nat
    BY <1>1, <1>2, <1>7
  <2>2. Effect(str, s) = Effect(str, c)
    BY <1>3, <1>7, <2>1, RemovalsEqual
  <2> QED
    BY <1>1, <1>3, <2>2, CancelledIsIssued DEF Meet, TextOperation
<1> QED
  BY <1>4, <1>5, <1>6, <1>7

\* What sessions issue on str, and what the transformation makes of it, meet.
LEMMA SplicesConverge ==
  ASSUME NEW str, NEW s, NEW c, TwoSplices(str, s, c)
  PROVE  LET pair == StringSpliceSplice(s, c)
         IN  Meet(str, s, c, pair.serverOp, pair.clientOp)
<1> DEFINE pair == StringSpliceSplice(s, c)
           Met == Meet(str, s, c, pair.serverOp, pair.clientOp)
<1>1. TwoSplices(str, c, s)
  BY DEF TwoSplices
<1>2. ASSUME s \in Insertion, c \in Insertion PROVE Met
  <2>1. s.index \in Nat /\ c.index \in Nat
    BY <1>2 DEF Insertion
  <2>2. pair = TransformInsertInsert(s, c)
    BY <1>2 DEF StringSpliceSplice, SpliceType, Insertion
  <2>3. CASE s.index <= c.index
    BY <1>2, <2>2, <2>3, InsertionsMeet DEF TransformInsertInsert, OperationPair
  <2>4. CASE ~(s.index <= c.index)
    <3>1. Meet(str, c, s, c, Shift(s, Inserted(c)))
      BY <1>1, <1>2, <2>1, <2>4, InsertionsMeet
    <3> QED
      BY <2>2, <2>4, <3>1, MeetIsSymmetric DEF TransformInsertInsert, OperationPair
  <2> QED
    BY <2>3, <2>4
<1>3. ASSUME s \in Insertion, c \in Removal PROVE Met
  <2>1. s.index \in Nat /\ c.index \in Nat /\ c.deleteCount \in Nat \ {0}
        /\ SpliceEnd(c) = c.index + c.deleteCount
    BY <1>3 DEF Insertion, Removal, SpliceEnd
  <2>2. pair = TransformInsertRemove(s, c)
    BY <1>3 DEF StringSpliceSplice, SpliceType, Insertion, Removal
  <2> QED
    BY <1>3, <2>1, <2>2, InsertionMeetsRemoval DEF TransformInsertRemove, OperationPair
<1>4. ASSUME s \in Removal, c \in Insertion PROVE Met
  <2>1. s.index \in Nat /\ c.index \in Nat /\ s.deleteCount \in Nat \ {0}
        /\ SpliceEnd(s) = s.index + s.deleteCount
    BY <1>4 DEF Insertion, Removal, SpliceEnd
  <2>2. pair = TransformRemoveInsert(s, c)
    BY <1>4 DEF StringSpliceSplice, SpliceType, Insertion, Removal
  <2>3. Meet(str, c, s, pair.clientOp, pair.serverOp)
    BY <1>1, <1>4, <2>1, <2>2, InsertionMeetsRemoval DEF TransformRemoveInsert, OperationPair
  <2> QED
    BY <2>3, MeetIsSymmetric
<1>5. ASSUME s \in Removal, c \in Removal PROVE Met
  <2> DEFINE i == s.index
             d == s.deleteCount
             j == c.index
             e == c.deleteCount
             rel == SpliceRelationship(s, c)
  <2>1. /\ i \in Nat /\ j \in Nat /\ d \in Nat \ {0} /\ e \in Nat \ {0}
        /\ SpliceEnd(s) = i + d /\ SpliceEnd(c) = j + e
    BY <1>5 DEF Removal, SpliceEnd
  <2>2. pair = TransformRemoveRemove(s, c, rel)
    BY <1>5 DEF StringSpliceSplice, SpliceType, Removal
  <2>3. rel = RangeRangeRelationship(i, i + d, j, j + e)
    BY <2>1 DEF SpliceRelationship
  <2>4. CASE i + d < j
    <3>1. rel = "Precedes"
      BY <2>1, <2>3, <2>4 DEF RangeRangeRelationship
    <3> QED
      BY <1>5, <2>1, <2>2, <2>4, <3>1, RemovalsMeet DEF TransformRemoveRemove, OperationPair
  <2>5. CASE i < j /\ j <= i + d /\ i + d < j + e
    <3>1. rel \in {"Meets", "Overlaps"}
      BY <2>1, <2>3, <2>5 DEF RangeRangeRelationship
    <3> QED
      BY <1>5, <2>1, <2>2, <2>5, <3>1, RemovalsMeet DEF TransformRemoveRemove, OperationPair
  <2>6. CASE j <= i /\ i + d <= j + e /\ d < e
    <3>1. rel \in {"Starts", "ContainedBy", "Finishes"}
      BY <2>1, <2>3, <2>6 DEF RangeRangeRelationship
    <3> QED
      BY <1>5, <2>1, <2>2, <2>6, <3>1, RemovalsMeet DEF TransformRemoveRemove, OperationPair
  <2>7. CASE i = j /\ d = e
    <3>1. rel = "EqualTo"
      BY <2>1, <2>3, <2>7 DEF RangeRangeRelationship
    <3> QED
      BY <1>5, <2>1, <2>2, <2>7, <3>1, RemovalsMeet
      DEF TransformRemoveRemove, OperationPair, BothVanish
  <2>8. CASE i <= j /\ j + e <= i + d /\ e < d
    <3>1. rel \in {"StartedBy", "Contains", "FinishedBy"}
      BY <2>1, <2>3, <2>8 DEF RangeRangeRelationship
    <3>2. Meet(str, c, s, NoOp(c), Shrink(s, e))
      BY <1>1, <1>5, <2>1, <2>8, RemovalsMeet
    <3> QED
      BY <2>2, <3>1, <3>2, MeetIsSymmetric DEF TransformRemoveRemove, OperationPair
  <2>9. CASE j < i /\ i <= j + e /\ j + e < i + d
    <3>1. rel \in {"MetBy", "OverlappedBy"}
      BY <2>1, <2>3, <2>9 DEF RangeRangeRelationship
    <3>2. Meet(str, c, s, Shrink(c, SpliceEnd(c) - i), At(Shrink(s, SpliceEnd(c) - i), j))
      BY <1>1, <1>5, <2>1, <2>9, RemovalsMeet
    <3> QED
      BY <2>2, <3>1, <3>2, MeetIsSymmetric DEF TransformRemoveRemove, OperationPair
  <2>10. CASE j + e < i
    <3>1. rel = "PrecededBy"
      BY <2>1, <2>3, <2>10 DEF RangeRangeRelationship
    <3>2. Meet(str, c, s, c, Shift(s, -e))
      BY <1>1, <1>5, <2>1, <2>10, RemovalsMeet
    <3> QED
      BY <2>2, <3>1, <3>2, MeetIsSymmetric DEF TransformRemoveRemove, OperationPair
  <2> QED
    BY <2>1, <2>4, <2>5, <2>6, <2>7, <2>8, <2>9, <2>10
<1> QED
  BY <1>2, <1>3, <1>4, <1>5 DEF TwoSplices, Splice

\* A new value takes the place of what there was.
LEMMA ReplacementReplaces ==
  ASSUME NEW str, NEW op \in Replacement, ~op.noOp
  PROVE  TextIssued(str, op) <=> str \in Seq(Character)
<1>1. op.type = "StringSet" /\ op.value \in Seq(Character) /\ op \in TextOperation
  BY DEF Replacement, TextOperation
<1>2. Effect(str, op) = op.value /\ Possible(str, op)
  BY <1>1 DEF Effect, StringApply, Possible, StringAccepts
<1> QED
  BY <1>1, <1>2 DEF TextIssued

\* Two operations of one string.
LEMMA StringsConverge ==
  ASSUME NEW str, NEW s, NEW c, TextIssued(str, s), TextIssued(str, c), s.id = c.id, ~s.noOp, ~c.noOp
  PROVE  LET pair == StringTransform(s, c)
         IN  Meet(str, s, c, pair.serverOp, pair.clientOp)
<1> DEFINE pair == StringTransform(s, c)
           Met == Meet(str, s, c, pair.serverOp, pair.clientOp)
<1>1. /\ str \in Seq(Character) /\ s \in TextOperation /\ c \in TextOperation
      /\ Possible(str, s) /\ Possible(str, c)
      /\ Effect(str, s) \in Seq(Character) /\ Effect(str, c) \in Seq(Character)
  BY DEF TextIssued
<1>2. /\ \A op \in Splice : op.type = "StringSplice"
      /\ \A op \in Replacement : op.type = "StringSet"
  BY DEF Splice, Insertion, Removal, Replacement
<1>3. \A op \in Replacement : ~op.noOp => \A t : Effect(t, op) = op.value
  BY <1>2 DEF Effect, StringApply
\* A replacement, to which the other gives way, whichever comes first.
<1>4. ASSUME NEW x, NEW y, x \in Replacement, ~x.noOp, TextIssued(str, x), TextIssued(str, y)
      PROVE  Meet(str, x, y, x, NoOp(y))
  <2>1. Effect(str, x) \in Seq(Character) /\ Effect(str, y) \in Seq(Character) /\ y \in TextOperation
    BY <1>4 DEF TextIssued
  <2>2. TextIssued(Effect(str, y), x)
    BY <1>4, <2>1, ReplacementReplaces
  <2>3. /\ TextIssued(Effect(str, x), NoOp(y)) /\ NoOp(y).id = y.id
        /\ Effect(Effect(str, x), NoOp(y)) = Effect(str, x)
    BY <2>1, CancelledIsIssued
  <2>4. Effect(Effect(str, y), x) = Effect(str, x)
    BY <1>3, <1>4
  <2> QED
    BY <2>2, <2>3, <2>4 DEF Meet
<1>5. CASE s \in Splice /\ c \in Splice
  <2>1. pair = StringSpliceSplice(s, c)
    BY <1>2, <1>5 DEF StringTransform
  <2>2. TwoSplices(str, s, c)
    BY <1>1, <1>5 DEF TwoSplices
  <2> QED
    BY <2>1, <2>2, SplicesConverge
<1>6. CASE s \in Splice /\ c \in Replacement
  <2>1. pair = ClientWins(s, c)
    BY <1>2, <1>6 DEF StringTransform
  <2>2. Meet(str, c, s, c, NoOp(s))
    BY <1>4, <1>6
  <2> QED
    BY <2>1, <2>2, MeetIsSymmetric DEF ClientWins, OperationPair
<1>7. CASE s \in Replacement /\ c \in Splice
  <2>1. pair = ServerWins(s, c)
    BY <1>2, <1>7 DEF StringTransform
  <2>2. Meet(str, s, c, s, NoOp(c))
    BY <1>4, <1>7
  <2> QED
    BY <2>1, <2>2 DEF ServerWins, OperationPair
<1>8. CASE s \in Replacement /\ c \in Replacement
  <2>1. pair = StringSetSet(s, c)
    BY <1>2, <1>8 DEF StringTransform
  <2>2. CASE s.value = c.value
    <3>1. pair = OperationPair(NoOp(s), NoOp(c))
      BY <2>1, <2>2 DEF StringSetSet, BothVanish
    <3>2. Effect(str, s) = Effect(str, c)
      BY <1>3, <1>8, <2>2
    <3>3. Meet(str, s, c, NoOp(s), NoOp(c))
      BY <1>1, <3>2, CancelledIsIssued DEF Meet
    <3> QED
      BY <3>1, <3>3 DEF OperationPair
  <2>3. CASE s.value # c.value
    <3>1. pair = OperationPair(s, NoOp(c))
      BY <2>1, <2>3 DEF StringSetSet, ServerWins
    <3>2. Meet(str, s, c, s, NoOp(c))
      BY <1>4, <1>8
    <3> QED
      BY <3>1, <3>2 DEF OperationPair
  <2> QED
    BY <2>2, <2>3
<1> QED
  BY <1>1, <1>5, <1>6, <1>7, <1>8 DEF TextOperation

----------------------------------------------------------------------------
(* What ApplyOperation makes of a model of strings                         *)

Unthrown(d) == [data |-> d, thrown |-> FALSE]

\* One discrete operation more.
NextDone(before, op) ==
  IF before.thrown \/ ~(Skipped(before.data, op) \/ Accepts(before.data, op))
  THEN [data |-> before.data, thrown |-> TRUE]
  ELSE [data |-> ApplyDiscrete(before.data, op), thrown |-> FALSE]

\* What n discrete operations leave, one after the other.
Steps(done, d, operation, n) ==
  /\ done[0] = Unthrown(d)
  /\ \A i \in 1 .. n : done[i] = NextDone(done[i - 1], operation[i])
  /\ ApplyOperation(d, operation) = done[n].data

\* What ApplyOperation computes, step by step.
LEMMA ApplyOperationSteps ==
  ASSUME NEW d, NEW operation, NEW n \in Nat, n = Len(operation)
  PROVE  \E done : Steps(done, d, operation, n)
<1> DEFINE first == Unthrown(d)
           Pairs(p, k) == /\ p[0] = first
                          /\ \A i \in 1 .. k : p[i] = NextDone(p[i - 1], operation[i])
           T == {k \in 0 .. n : \E p : Pairs(p, k)}
<1> HIDE DEF first
<1>1. 0 \in T
  <2>1. Pairs([i \in {0} |-> first], 0)
    OBVIOUS
  <2>2. 0 \in 0 .. n
    OBVIOUS
  <2> HIDE DEF Pairs
  <2> QED
    BY <2>1, <2>2
<1>2. ASSUME NEW k \in 0 .. n - 1, k \in T PROVE k + 1 \in T
  <2>1. PICK p : Pairs(p, k)
    BY <1>2
  <2> DEFINE e == NextDone(p[k], operation[k + 1])
             r == [i \in 0 .. n |-> IF i = k + 1 THEN e ELSE p[i]]
  <2>2. /\ r[k + 1] = e /\ \A i \in 0 .. k : r[i] = p[i]
    OBVIOUS
  <2> HIDE DEF r
  <2>3. ASSUME NEW i \in 1 .. k + 1 PROVE r[i] = NextDone(r[i - 1], operation[i])
    <3>1. CASE i = k + 1
      <4>1. r[i - 1] = p[k]
        BY <2>2, <3>1
      <4> QED
        BY <2>2, <3>1, <4>1
    <3>2. CASE i # k + 1
      <4>1. i \in 0 .. k /\ i - 1 \in 0 .. k /\ i \in 1 .. k
        BY <3>2
      <4> QED
        BY <2>1, <2>2, <4>1
    <3> QED
      BY <3>1, <3>2
  <2>4. Pairs(r, k + 1)
    BY <2>1, <2>2, <2>3
  <2>5. k + 1 \in 0 .. n
    OBVIOUS
  <2> HIDE DEF Pairs
  <2> QED
    BY <2>4, <2>5
<1>3. n \in T
  <2> HIDE DEF T
  <2>1. 0 \in Nat /\ 0 <= n /\ \A k \in 0 .. n - 1 : k \in T => k + 1 \in T
    BY <1>2
  <2>2. 0 .. n \subseteq T
    BY <1>1, <2>1, UpTo
  <2> QED
    BY <2>2
<1>4. PICK p : Pairs(p, n)
  BY <1>3
<1> DEFINE Body(g) == [i \in 0 .. n |-> IF i = 0 THEN first ELSE NextDone(g[i - 1], operation[i])]
           r == [i \in 0 .. n |-> p[i]]
           f == CHOOSE g : g = Body(g)
<1>5. r = Body(r)
  <2>1. \A i \in 0 .. n : r[i] = p[i]
    OBVIOUS
  <2> HIDE DEF r
  <2>2. \A i \in 1 .. n : r[i] = NextDone(r[i - 1], operation[i])
    BY <1>4, <2>1
  <2>3. r[0] = first
    BY <1>4, <2>1
  <2>4. \A i \in 0 .. n : r[i] = Body(r)[i]
    BY <2>2, <2>3
  <2> QED
    BY <2>4 DEF r
<1>6. ApplyOperation(d, operation) = f[n].data
  BY DEF ApplyOperation, NextDone, Unthrown, first
<1> HIDE DEF Body
<1>7. f = Body(f)
  <2> HIDE DEF r
  <2> QED
    BY <1>5
<1> HIDE DEF f
<1>8. \A i \in 0 .. n : f[i] = IF i = 0 THEN first ELSE NextDone(f[i - 1], operation[i])
  BY <1>7 DEF Body
<1>9. f[0] = first /\ \A i \in 1 .. n : f[i] = NextDone(f[i - 1], operation[i])
  BY <1>8
<1> QED
  BY <1>6, <1>9 DEF first, Steps

Strings == [StringId -> Seq(Character)]

\* A discrete operation edits the string it names, and that one only.
Edited(d, op) == [d EXCEPT ![op.id] = Effect(d[op.id], op)]

\* It can be issued on the model.
IssuedOn(d, op) == d \in Strings /\ op.id \in StringId /\ TextIssued(d[op.id], op)

\* An edit changes one string, and it stays a string.
LEMMA EditedIsStrings ==
  ASSUME NEW d, NEW op, IssuedOn(d, op)
  PROVE  /\ Edited(d, op) \in Strings
         /\ Edited(d, op)[op.id] = Effect(d[op.id], op)
         /\ \A id \in StringId : id # op.id => Edited(d, op)[id] = d[id]
BY DEF IssuedOn, TextIssued, Edited, Strings

\* One that can be issued is applied and throws nothing.
LEMMA IssuedIsDone ==
  ASSUME NEW d, NEW op, IssuedOn(d, op)
  PROVE  NextDone(Unthrown(d), op) = Unthrown(Edited(d, op))
<1>1. op.type \in {"StringSplice", "StringSet"}
  BY DEF IssuedOn, TextIssued, TextOperation, Splice, Insertion, Removal, Replacement
<1>2. Family(op) = "String"
  BY <1>1 DEF Family
<1>3. op.id \in DOMAIN d
  BY DEF IssuedOn, Strings
<1>4. Skipped(d, op) \/ Accepts(d, op)
  BY <1>2, <1>3 DEF IssuedOn, TextIssued, Possible, Skipped, Accepts
<1>5. ApplyDiscrete(d, op) = Edited(d, op)
  <2>1. CASE op.noOp
    <3>1. Edited(d, op) = d
      BY <1>3, <2>1 DEF Edited, Effect, IssuedOn, Strings
    <3> QED
      BY <2>1, <3>1 DEF ApplyDiscrete, Skipped
  <2>2. CASE ~op.noOp
    BY <1>2, <1>3, <2>2 DEF ApplyDiscrete, Skipped, ApplyToValue, Edited, Effect
  <2> QED
    BY <2>1, <2>2
<1> QED
  BY <1>4, <1>5 DEF NextDone, Unthrown

\* Two operations of one string, then each transformed over the other.
LEMMA SameString ==
  ASSUME NEW d, NEW s, NEW c, IssuedOn(d, s), IssuedOn(d, c),
         NEW x, NEW y, Meet(d[s.id], s, c, x, y), s.id = c.id
  PROVE  /\ IssuedOn(Edited(d, s), y) /\ IssuedOn(Edited(d, c), x)
         /\ Edited(Edited(d, s), y) = Edited(Edited(d, c), x)
<1> DEFINE str == d[s.id]
           ds == Edited(d, s)
           dc == Edited(d, c)
<1>1. /\ ds \in Strings /\ ds[s.id] = Effect(str, s)
      /\ dc \in Strings /\ dc[s.id] = Effect(str, c)
      /\ \A id \in StringId : id # s.id => ds[id] = d[id] /\ dc[id] = d[id]
  BY EditedIsStrings
<1>2. s.id \in StringId /\ x.id = s.id /\ y.id = s.id
      /\ TextIssued(Effect(str, s), y) /\ TextIssued(Effect(str, c), x)
      /\ Effect(Effect(str, s), y) = Effect(Effect(str, c), x)
  BY DEF IssuedOn, Meet
<1> HIDE DEF str, ds, dc
<1>3. IssuedOn(ds, y) /\ IssuedOn(dc, x)
  BY <1>1, <1>2 DEF IssuedOn
<1>4. /\ Edited(ds, y) \in Strings /\ Edited(dc, x) \in Strings
      /\ Edited(ds, y)[s.id] = Effect(Effect(str, s), y)
      /\ Edited(dc, x)[s.id] = Effect(Effect(str, c), x)
      /\ \A id \in StringId : id # s.id => Edited(ds, y)[id] = d[id] /\ Edited(dc, x)[id] = d[id]
  BY <1>1, <1>2, <1>3, EditedIsStrings
<1>5. \A id \in StringId : Edited(ds, y)[id] = Edited(dc, x)[id]
  BY <1>2, <1>4
<1>6. Edited(ds, y) = Edited(dc, x)
  BY <1>4, <1>5 DEF Strings
<1> QED
  BY <1>3, <1>6 DEF ds, dc

\* Operations of two strings do not touch each other.
LEMMA TwoStrings ==
  ASSUME NEW d, NEW s, NEW c, IssuedOn(d, s), IssuedOn(d, c), s.id # c.id
  PROVE  /\ IssuedOn(Edited(d, s), c) /\ IssuedOn(Edited(d, c), s)
         /\ Edited(Edited(d, s), c) = Edited(Edited(d, c), s)
<1> DEFINE ds == Edited(d, s)
           dc == Edited(d, c)
<1>1. /\ ds \in Strings /\ ds[s.id] = Effect(d[s.id], s) /\ ds[c.id] = d[c.id]
      /\ dc \in Strings /\ dc[c.id] = Effect(d[c.id], c) /\ dc[s.id] = d[s.id]
      /\ \A id \in StringId : (id # s.id => ds[id] = d[id]) /\ (id # c.id => dc[id] = d[id])
  BY EditedIsStrings DEF IssuedOn
<1> HIDE DEF ds, dc
<1>2. IssuedOn(ds, c) /\ IssuedOn(dc, s)
  BY <1>1 DEF IssuedOn
<1>3. /\ Edited(ds, c) \in Strings /\ Edited(dc, s) \in Strings
      /\ Edited(ds, c)[c.id] = Effect(d[c.id], c) /\ Edited(dc, s)[s.id] = Effect(d[s.id], s)
      /\ \A id \in StringId : /\ id # c.id => Edited(ds, c)[id] = ds[id]
                              /\ id # s.id => Edited(dc, s)[id] = dc[id]
  BY <1>1, <1>2, EditedIsStrings
<1>4. \A id \in StringId : Edited(ds, c)[id] = Edited(dc, s)[id]
  BY <1>1, <1>3 DEF IssuedOn
<1>5. Edited(ds, c) = Edited(dc, s)
  BY <1>3, <1>4 DEF Strings
<1> QED
  BY <1>2, <1>5 DEF ds, dc

----------------------------------------------------------------------------
(* A model of strings                                                      *)

\* The model holds strings and nothing else; sessions insert text, remove text or
\* replace all of it, where the string they see has it.
PlainStrings ==
  /\ Document = Strings
  /\ Accepted = {p \in Strings \X TextOperation : Possible(p[1][p[2].id], p[2])}
  /\ \A s, c \in TextOperation : Transform(s, c) = RegistryTransform(s, c)
  /\ \A d, operation : Apply(d, operation) = ApplyOperation(d, operation)
  /\ InitialData \in Strings
  /\ \A s \in Session : \A d \in Strings : \A op \in LocalOperations(s, d) :
       op \in TextOperation /\ Possible(d[op.id], op)

\* What Edits says of it.
LEMMA EditsOfStrings ==
  ASSUME PlainStrings, NEW d, NEW op, NEW e
  PROVE  /\ Edits(d, op, e) <=> IssuedOn(d, op) /\ e = Edited(d, op)
         /\ IssuedOn(d, op) => Apply(d, <<op>>) = Edited(d, op)
<1>1. \A o \in TextOperation : o.id \in StringId
  BY DEF TextOperation, Splice, Insertion, Removal, Replacement
<1>2. <<d, op>> \in Accepted <=> d \in Strings /\ op \in TextOperation /\ Possible(d[op.id], op)
  BY DEF PlainStrings
<1>3. ASSUME d \in Strings, op \in TextOperation
      PROVE  op.id \in StringId /\ d[op.id] \in Seq(Character)
  BY <1>1, <1>3 DEF Strings
<1>4. <<d, op>> \in Accepted <=> IssuedOn(d, op)
  <2>1. ASSUME <<d, op>> \in Accepted PROVE IssuedOn(d, op)
    BY <1>2, <1>3, <2>1, PossibleIsIssued DEF IssuedOn
  <2>2. ASSUME IssuedOn(d, op) PROVE <<d, op>> \in Accepted
    BY <1>2, <2>2 DEF IssuedOn, TextIssued
  <2> QED
    BY <2>1, <2>2
<1>5. ASSUME IssuedOn(d, op) PROVE Apply(d, <<op>>) = Edited(d, op) /\ Edited(d, op) \in Document
  <2>1. Len(<<op>>) = 1 /\ <<op>>[1] = op /\ 1 \in Nat
    OBVIOUS
  <2>2. PICK done : Steps(done, d, <<op>>, 1)
    BY <2>1, ApplyOperationSteps
  <2>3. done[1] = NextDone(done[0], op) /\ done[0] = Unthrown(d)
        /\ ApplyOperation(d, <<op>>) = done[1].data
    BY <2>1, <2>2 DEF Steps
  <2>4. done[1] = Unthrown(Edited(d, op))
    BY <1>5, <2>3, IssuedIsDone
  <2>5. ApplyOperation(d, <<op>>) = Edited(d, op)
    BY <2>3, <2>4 DEF Unthrown
  <2> QED
    BY <1>5, <2>5, EditedIsStrings DEF PlainStrings
<1> QED
  BY <1>4, <1>5 DEF Edits

\* They are applied in order.
LEMMA StringsApplyInOrder ==
  ASSUME PlainStrings
  PROVE  AppliesInOrder
<1> SUFFICES ASSUME NEW d, NEW operation, NEW e, Leads(d, operation, e)
             PROVE  Apply(d, operation) = e
  BY DEF AppliesInOrder
<1> DEFINE n == Len(operation)
<1>1. n \in Nat
  BY SequenceIsFunction DEF Leads
<1>2. PICK f : /\ f[0] = d /\ f[n] = e
               /\ \A i \in 1 .. n : Edits(f[i - 1], operation[i], f[i])
  BY DEF Leads
<1>3. PICK done : Steps(done, d, operation, n)
  BY <1>1, ApplyOperationSteps
<1> HIDE DEF n
<1> DEFINE T == {i \in 0 .. n : done[i] = Unthrown(f[i])}
<1>4. 0 \in T
  BY <1>1, <1>2, <1>3 DEF Steps
<1>5. ASSUME NEW i \in 0 .. n - 1, i \in T PROVE i + 1 \in T
  <2>1. i + 1 \in 1 .. n /\ i + 1 \in 0 .. n /\ (i + 1) - 1 = i
    BY <1>1
  <2>2. IssuedOn(f[i], operation[i + 1]) /\ f[i + 1] = Edited(f[i], operation[i + 1])
    BY <1>2, <2>1, EditsOfStrings
  <2>3. done[i + 1] = NextDone(Unthrown(f[i]), operation[i + 1])
    BY <1>3, <1>5, <2>1 DEF Steps
  <2> QED
    BY <2>1, <2>2, <2>3, IssuedIsDone
<1>6. n \in T
  <2>1. 0 \in Nat /\ 0 <= n /\ \A i \in 0 .. n - 1 : i \in T => i + 1 \in T
    BY <1>1, <1>5
  <2> HIDE DEF T
  <2>2. 0 .. n \subseteq T
    BY <1>1, <1>4, <2>1, UpTo
  <2> QED
    BY <1>1, <2>2
<1>7. done[n].data = e
  BY <1>2, <1>6 DEF Unthrown
<1> QED
  BY <1>3, <1>7 DEF Steps, PlainStrings

\* Operations of one model converge.
LEMMA StringOperationsConverge ==
  ASSUME PlainStrings
  PROVE  OperationsConverge
<1> SUFFICES ASSUME NEW d, NEW s, NEW c, IssuedOn(d, s), IssuedOn(d, c)
             PROVE  Converge(d, s, c)
  BY EditsOfStrings DEF OperationsConverge
<1> DEFINE pair == TransformDiscrete(s, c)
           x == pair.serverOp
           y == pair.clientOp
<1>1. /\ IssuedOn(Edited(d, s), y) /\ IssuedOn(Edited(d, c), x)
      /\ Edited(Edited(d, s), y) = Edited(Edited(d, c), x)
  <2>1. CASE s.id # c.id
    <3>1. x = s /\ y = c
      BY <2>1 DEF TransformDiscrete, OperationPair
    <3> QED
      BY <2>1, <3>1, TwoStrings
  <2>2. CASE s.id = c.id /\ (s.noOp \/ c.noOp)
    <3>1. x = s /\ y = c
      BY <2>2 DEF TransformDiscrete, OperationPair
    <3>2. Meet(d[s.id], s, c, s, c)
      <4>1. TextIssued(d[s.id], s) /\ TextIssued(d[s.id], c) /\ s \in TextOperation /\ c \in TextOperation
            /\ Effect(d[s.id], s) \in Seq(Character) /\ Effect(d[s.id], c) \in Seq(Character)
        BY <2>2 DEF IssuedOn, TextIssued
      <4>2. CASE s.noOp
        <5>1. \A str : Effect(str, s) = str /\ Possible(str, s)
          BY <4>2 DEF Effect, Possible
        <5> QED
          BY <4>1, <5>1 DEF Meet, TextIssued
      <4>3. CASE c.noOp
        <5>1. \A str : Effect(str, c) = str /\ Possible(str, c)
          BY <4>3 DEF Effect, Possible
        <5> QED
          BY <4>1, <5>1 DEF Meet, TextIssued
      <4> QED
        BY <2>2, <4>2, <4>3
    <3> QED
      BY <2>2, <3>1, <3>2, SameString
  <2>3. CASE s.id = c.id /\ ~s.noOp /\ ~c.noOp
    <3>1. s.type \in {"StringSplice", "StringSet"} /\ c.type \in {"StringSplice", "StringSet"}
      BY DEF IssuedOn, TextIssued, TextOperation, Splice, Insertion, Removal, Replacement
    <3>2. pair = StringTransform(s, c)
      <4>0. s \in TextOperation /\ c \in TextOperation
        BY DEF IssuedOn, TextIssued
      <4>1. pair = RegistryTransform(s, c)
        BY <2>3, <4>0 DEF TransformDiscrete, PlainStrings
      <4> QED
        BY <3>1, <4>1 DEF RegistryTransform, Family
    <3>3. Meet(d[s.id], s, c, x, y)
      BY <2>3, <3>2, StringsConverge DEF IssuedOn
    <3> QED
      BY <2>3, <3>3, SameString
  <2> QED
    BY <2>1, <2>2, <2>3
<1> HIDE DEF x, y
<1>2. Apply(d, <<s>>) = Edited(d, s) /\ Apply(d, <<c>>) = Edited(d, c)
  BY EditsOfStrings
<1>3. /\ Edits(Edited(d, s), y, Edited(Edited(d, s), y))
      /\ Edits(Edited(d, c), x, Edited(Edited(d, s), y))
  BY <1>1, EditsOfStrings
<1>4. Edited(Edited(d, s), y) \in Document
  BY <1>3 DEF Edits
<1> QED
  BY <1>2, <1>3, <1>4 DEF Converge, x, y

\* Strings of any length converge, under any number of operations that insert text,
\* remove text or replace all of it: transformation does what the sessions ask of it.
THEOREM StringsDoConverge ==
  ASSUME PlainStrings
  PROVE  Converging
<1>1. IssuesAccepted
  <2>1. ASSUME NEW s \in Session, NEW d \in Strings, NEW op \in LocalOperations(s, d)
        PROVE  Edits(d, op, Apply(d, <<op>>))
    <3>1. op \in TextOperation /\ Possible(d[op.id], op)
      BY <2>1 DEF PlainStrings
    <3>2. op.id \in StringId /\ d[op.id] \in Seq(Character)
      BY <3>1 DEF TextOperation, Splice, Insertion, Removal, Replacement, Strings
    <3>3. IssuedOn(d, op)
      BY <3>1, <3>2, PossibleIsIssued DEF IssuedOn
    <3> QED
      BY <3>3, EditsOfStrings
  <2> QED
    BY <2>1 DEF IssuesAccepted, PlainStrings
<1> QED
  BY <1>1, StringsApplyInOrder, StringOperationsConverge DEF Converging

\* So all sessions see the same strings: what the server has, with their own
\* outstanding edits on top.
THEOREM SessionsSeeTheSameStrings ==
  ASSUME PlainStrings
  PROVE  Spec => []SeesServerDataWithOwnEdits
BY StringsDoConverge, SessionsSeeTheSame
=============================================================================
