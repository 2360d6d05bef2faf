------------------------ MODULE OperationTransformer ------------------------
(***************************************************************************)
(* OperationTransformer: the transformation of two whole operations.       *)
(*                                                                         *)
(* An operation is the sequence of its discrete operations: one for a      *)
(* plain operation, one or more for a compound operation (a batch).        *)
(***************************************************************************)
EXTENDS Integers, Sequences, Operation

CONSTANT
  \* The OTF the registry holds for two discrete operations on the same value:
  \* gives an OperationPair.
  Transform(_, _)

\* transformTwoDiscreteOps
TransformDiscrete(s, c) ==
  IF s.noOp \/ c.noOp \/ s.id # c.id THEN OperationPair(s, c) ELSE Transform(s, c)

\* An operation of the server that has passed some of the client, and one more.
PassesDiscrete(passed, op) ==
  LET Then(opPair) ==
        OperationPair(opPair.serverOp, Append(passed.clientOp, opPair.clientOp))
  IN  Then(TransformDiscrete(passed.serverOp, op))

\* The server's discrete operation passes those of the client, in order, and they pass it.
TransformClientCompoundOperation(s, c) ==
  LET pair[j \in 0 .. Len(c)] ==
        IF j = 0 THEN OperationPair(s, <<>>) ELSE PassesDiscrete(pair[j - 1], c[j])
  IN  pair[Len(c)]

\* The client's operation, which some of the server have passed, and one more.
PassedByDiscrete(passed, op) ==
  LET Then(opPair) ==
        OperationPair(Append(passed.serverOp, opPair.serverOp), opPair.clientOp)
  IN  Then(TransformClientCompoundOperation(op, passed.clientOp))

\* transformServerCompoundOperation: those of the server, in order, pass the client's.
TransformOperations(s, c) ==
  LET pair[i \in 0 .. Len(s)] ==
        IF i = 0 THEN OperationPair(<<>>, c) ELSE PassedByDiscrete(pair[i - 1], s[i])
  IN  pair[Len(s)]
=============================================================================
