---------------------------- MODULE OrderedEdits ----------------------------
(***************************************************************************)
(* What the concurrency controls and the server promise, without data,     *)
(* messages or transformations: sessions number what they issue, one order *)
(* of it all comes to be, each session's in the order it was issued, and   *)
(* every session takes it in from the beginning, one after the other.  On  *)
(* the way one's own are confirmed, first issued, first confirmed.         *)
(*                                                                         *)
(* A session that sends in another order than it issues is on its own: its *)
(* edits are still ordered once each, but it may have to close.            *)
(***************************************************************************)
EXTENDS Integers, Sequences

CONSTANT Session

VARIABLES
  order,        \* the edits, each by its session and number, in the order that counts
  issued,       \* issued[s]: how many s has issued
  unconfirmed,  \* unconfirmed[s]: those it has not seen in the order, oldest first
  taken,        \* taken[s]: how many of the order s has taken in
  orderly,      \* orderly[s]: s sends in the order it issues
  closed        \* closed[s]: s has given up

vars == <<order, issued, unconfirmed, taken, orderly, closed>>

Init ==
  /\ order = <<>>
  /\ issued = [s \in Session |-> 0]
  /\ unconfirmed = [s \in Session |-> <<>>]
  /\ taken = [s \in Session |-> 0]
  /\ orderly = [s \in Session |-> TRUE]
  /\ closed = [s \in Session |-> FALSE]

\* One edit, or two that go the wrong way round.
Issue(s, ways) ==
  /\ ~closed[s]
  /\ \E n \in 1 .. 2 :
       /\ issued' = [issued EXCEPT ![s] = @ + n]
       /\ unconfirmed' = [unconfirmed EXCEPT ![s] = @ \o [i \in 1 .. n |-> issued[s] + i]]
  /\ orderly' = [orderly EXCEPT ![s] = ways]
  /\ UNCHANGED <<order, taken, closed>>

IsOrdered(s, n) == \E i \in DOMAIN order : order[i] = [session |-> s, number |-> n]

PutInOrder(s) ==
  /\ \E n \in 1 .. issued[s] :
       /\ ~IsOrdered(s, n)
       /\ orderly[s] => \A k \in 1 .. n - 1 : IsOrdered(s, k)
       /\ order' = Append(order, [session |-> s, number |-> n])
  /\ UNCHANGED <<issued, unconfirmed, taken, orderly, closed>>

\* One's own is the oldest that is not confirmed; with another's an edit may be issued
\* in answer to it.
TakeIn(s) ==
  /\ ~closed[s] /\ taken[s] < Len(order)
  /\ taken' = [taken EXCEPT ![s] = @ + 1]
  /\ LET next == order[taken[s] + 1]
     IN  \/ /\ next.session = s
            /\ unconfirmed[s] # <<>> /\ next.number = Head(unconfirmed[s])
            /\ unconfirmed' = [unconfirmed EXCEPT ![s] = Tail(@)]
            /\ UNCHANGED issued
         \/ /\ next.session # s
            /\ \E n \in 0 .. 1 :
                 /\ issued' = [issued EXCEPT ![s] = @ + n]
                 /\ unconfirmed' = [unconfirmed EXCEPT
                                      ![s] = @ \o [i \in 1 .. n |-> issued[s] + i]]
  /\ UNCHANGED <<order, orderly, closed>>

GiveUp(s) ==
  /\ ~orderly[s] /\ ~closed[s]
  /\ closed' = [closed EXCEPT ![s] = TRUE]
  /\ unconfirmed' = [unconfirmed EXCEPT ![s] = <<>>]
  /\ UNCHANGED <<order, issued, taken, orderly>>

Next ==
  \E s \in Session :
    \/ \E ways \in {orderly[s], FALSE} : Issue(s, ways)
    \/ PutInOrder(s)
    \/ TakeIn(s)
    \/ GiveUp(s)

Spec == Init /\ [][Next]_vars
=============================================================================
