---------------------------- MODULE Convergence ----------------------------
(***************************************************************************)
(* What ModelCollaboration asks of transformation for its sessions to see  *)
(* the same thing, apart from the protocol: that two discrete operations   *)
(* issued on the same document, each transformed over the other, lead to   *)
(* the same document.  Not all of the registered functions do.             *)
(***************************************************************************)
EXTENDS ModelCollaboration

CONSTANTS
  Document,  \* the contents a model may have
  Accepted   \* the pairs of a document and a discrete operation one may issue on it

\* Operation op is one of d and makes it e.
Edits(d, op, e) == <<d, op>> \in Accepted /\ e \in Document /\ e = Apply(d, <<op>>)

\* The discrete operations of operation, one after the other, make d e.
Leads(d, operation, e) ==
  /\ d \in Document /\ e \in Document /\ IsSequence(operation)
  /\ \E f : /\ f[0] = d /\ f[Len(operation)] = e
            /\ \A i \in 1 .. Len(operation) : Edits(f[i - 1], operation[i], f[i])

\* Whichever of s and c comes first, the other, transformed, makes d the same document.
Converge(d, s, c) ==
  LET pair == TransformDiscrete(s, c)
  IN  \E e \in Document : /\ Edits(Apply(d, <<s>>), pair.clientOp, e)
                          /\ Edits(Apply(d, <<c>>), pair.serverOp, e)

\* Sessions issue operations of the document they see, and it stays a document.
IssuesAccepted ==
  /\ InitialData \in Document
  /\ \A s \in Session : \A d \in Document : \A op \in LocalOperations(s, d) :
       Edits(d, op, Apply(d, <<op>>))

\* Operations of one document converge.
OperationsConverge ==
  \A d \in Document : \A s, c :
    Edits(d, s, Apply(d, <<s>>)) /\ Edits(d, c, Apply(d, <<c>>)) => Converge(d, s, c)

\* Discrete operations are applied in order, all of them if each is accepted.
AppliesInOrder == \A d, operation, e : Leads(d, operation, e) => Apply(d, operation) = e

Converging == IssuesAccepted /\ OperationsConverge /\ AppliesInOrder
=============================================================================
