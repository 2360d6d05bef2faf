----------------------------- MODULE Operation -----------------------------
(***************************************************************************)
(* What every discrete operation of a model has in common, and the pair    *)
(* an operational transformation function (an OTF) returns.                *)
(*                                                                         *)
(* A discrete operation is a record with the fields                        *)
(*   type   the operation's kind ("StringSplice", "ArrayInsert", ...),     *)
(*   id     the id of the value (string, array, object...) it edits,       *)
(*   noOp   whether transformation has cancelled its effect,               *)
(* and the operands of its kind.                                           *)
(***************************************************************************)

\* An OTF takes a server operation and a client operation issued on the same
\* state and returns each of them transformed to apply after the other.
OperationPair(s, c) == [serverOp |-> s, clientOp |-> c]

\* op.copy({noOp: true})
NoOp(op) == [op EXCEPT !.noOp = TRUE]

\* The two shapes most functions end in: one operation gives way to the other.
ServerWins(s, c) == OperationPair(s, NoOp(c))
ClientWins(s, c) == OperationPair(NoOp(s), c)
BothVanish(s, c) == OperationPair(NoOp(s), NoOp(c))
=============================================================================
