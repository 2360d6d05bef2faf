---------------------------- MODULE StringXform ----------------------------
(***************************************************************************)
(* Operations on a RealTimeString, their effect on a StringNode, and the   *)
(* transformation functions of xform/string.  A string is a sequence of    *)
(* characters; a character is any value.                                   *)
(***************************************************************************)
EXTENDS Integers, Sequences, Operation, RangeRelationship

StringSplice(id, index, deleteCount, insertValue) ==
  [type |-> "StringSplice", id |-> id, noOp |-> FALSE, index |-> index,
   deleteCount |-> deleteCount, insertValue |-> insertValue]

StringSet(id, value) ==
  [type |-> "StringSet", id |-> id, noOp |-> FALSE, value |-> value]

(***************************************************************************)
(* StringNode._applySplice and _applySetValue.  A splice outside the       *)
(* string fails an assertion and throws.                                   *)
(***************************************************************************)
StringAccepts(str, op) ==
  op.type = "StringSplice" =>
    /\ op.index \in 0 .. Len(str)
    /\ op.index + op.deleteCount \in 0 .. Len(str)

StringApply(str, op) ==
  IF op.type = "StringSet" THEN op.value
  ELSE SubSeq(str, 1, op.index) \o op.insertValue
         \o SubSeq(str, op.index + op.deleteCount + 1, Len(str))

----------------------------------------------------------------------------
(* StringSpliceSpliceOTF: one function for each pair of splice types.      *)

SpliceType(op) ==
  CASE op.deleteCount = 0 /\ op.insertValue # <<>> -> "Insert"
    [] op.deleteCount > 0 /\ op.insertValue = <<>> -> "Remove"
    [] op.deleteCount > 0 /\ op.insertValue # <<>> -> "Splice"
    [] OTHER -> "NoOp"

Inserted(op) == Len(op.insertValue)
SpliceEnd(op) == op.index + op.deleteCount
At(op, i) == [op EXCEPT !.index = i]
Shift(op, n) == [op EXCEPT !.index = @ + n]
Grow(op, n) == [op EXCEPT !.deleteCount = @ + n]
Shrink(op, n) == [op EXCEPT !.deleteCount = @ - n]

SpliceRelationship(s, c) ==
  RangeRangeRelationship(s.index, SpliceEnd(s), c.index, SpliceEnd(c))

\* How far an operation moves what follows the range it edits.
Displacement(op) == Inserted(op) - op.deleteCount

TransformInsertInsert(s, c) ==
  IF s.index <= c.index
    THEN OperationPair(s, Shift(c, Inserted(s)))
    ELSE OperationPair(Shift(s, Inserted(c)), c)

\* Insert against remove and insert against splice differ only in what the
\* client's operation itself inserts.
TransformInsertRemove(s, c) ==
  CASE s.index <= c.index -> OperationPair(s, Shift(c, Inserted(s)))
    [] s.index >= SpliceEnd(c) /\ s.index > c.index -> OperationPair(Shift(s, -c.deleteCount), c)
    [] OTHER -> OperationPair(NoOp(s), Grow(c, Inserted(s)))

TransformInsertSplice(s, c) ==
  CASE s.index <= c.index -> OperationPair(s, Shift(c, Inserted(s)))
    [] s.index > c.index /\ SpliceEnd(c) > s.index -> OperationPair(NoOp(s), Grow(c, Inserted(s)))
    [] OTHER -> OperationPair(Shift(s, Displacement(c)), c)

TransformRemoveInsert(s, c) ==
  CASE c.index <= s.index -> OperationPair(Shift(s, Inserted(c)), c)
    [] c.index >= SpliceEnd(s) /\ c.index > s.index -> OperationPair(s, Shift(c, -s.deleteCount))
    [] OTHER -> OperationPair(Grow(s, Inserted(c)), NoOp(c))

TransformSpliceInsert(s, c) ==
  CASE c.index <= s.index -> OperationPair(Shift(s, Inserted(c)), c)
    [] c.index > s.index /\ SpliceEnd(s) > c.index -> OperationPair(Grow(s, Inserted(c)), NoOp(c))
    [] OTHER -> OperationPair(s, Shift(c, Displacement(s)))

\* Slip: a removal whose beginning the server removed stays where it was.
RemoveRemoveInPlace(s, c, r) ==
  CASE r = "Precedes" -> OperationPair(s, Shift(c, -s.deleteCount))
    [] r = "PrecededBy" -> OperationPair(Shift(s, -c.deleteCount), c)
    [] r \in {"Meets", "Overlaps"} ->
         LET overlap == SpliceEnd(s) - c.index
         IN  OperationPair(Shrink(s, overlap), Shrink(c, overlap))
    [] r \in {"MetBy", "OverlappedBy"} ->
         LET overlap == SpliceEnd(c) - s.index
         IN  OperationPair(At(Shrink(s, overlap), c.index), Shrink(c, overlap))
    [] r \in {"Starts", "ContainedBy", "Finishes"} ->
         OperationPair(NoOp(s), Shrink(c, s.deleteCount))
    [] r \in {"StartedBy", "Contains", "FinishedBy"} ->
         OperationPair(Shrink(s, c.deleteCount), NoOp(c))
    [] r = "EqualTo" -> BothVanish(s, c)

TransformRemoveRemove(s, c, r) ==
  CASE r = "Precedes" -> OperationPair(s, Shift(c, -s.deleteCount))
    [] r = "PrecededBy" -> OperationPair(Shift(s, -c.deleteCount), c)
    [] r \in {"Meets", "Overlaps"} ->
         LET overlap == SpliceEnd(s) - c.index
         IN  OperationPair(Shrink(s, overlap), At(Shrink(c, overlap), s.index))
    [] r \in {"MetBy", "OverlappedBy"} ->
         LET overlap == SpliceEnd(c) - s.index
         IN  OperationPair(At(Shrink(s, overlap), c.index), Shrink(c, overlap))
    [] r \in {"Starts", "ContainedBy", "Finishes"} ->
         OperationPair(NoOp(s), Shrink(c, s.deleteCount))
    [] r \in {"StartedBy", "Contains", "FinishedBy"} ->
         OperationPair(Shrink(s, c.deleteCount), NoOp(c))
    [] r = "EqualTo" -> BothVanish(s, c)

TransformRemoveSplice(s, c, r) ==
  CASE r = "Precedes" -> OperationPair(s, Shift(c, -s.deleteCount))
    [] r = "PrecededBy" -> OperationPair(Shift(s, Displacement(c)), c)
    [] r \in {"Meets", "Overlaps"} ->
         LET overlap == SpliceEnd(s) - c.index
         IN  OperationPair(Shrink(s, overlap), At(Shrink(c, overlap), s.index))
    [] r \in {"MetBy", "OverlappedBy"} ->
         LET overlap == SpliceEnd(c) - s.index
         IN  OperationPair(At(Shrink(s, overlap), c.index + Inserted(c)), Shrink(c, overlap))
    [] r \in {"Starts", "Finishes", "ContainedBy"} ->
         OperationPair(NoOp(s), Shrink(c, s.deleteCount))
    [] r = "StartedBy" ->
         OperationPair(Shift(Shrink(s, c.deleteCount), Inserted(c)),
                       At(Shrink(c, c.deleteCount), s.index))
    [] r = "FinishedBy" ->
         OperationPair(Shrink(s, c.deleteCount), At(Shrink(c, c.deleteCount), s.index))
    [] r = "Contains" -> OperationPair(Grow(s, Displacement(c)), NoOp(c))
    [] r = "EqualTo" -> OperationPair(NoOp(s), Shrink(c, c.deleteCount))

TransformSpliceRemove(s, c, r) ==
  CASE r = "Precedes" -> OperationPair(s, Shift(c, Displacement(s)))
    [] r = "PrecededBy" -> OperationPair(Shift(s, -c.deleteCount), c)
    [] r \in {"Meets", "Overlaps"} ->
         LET overlap == SpliceEnd(s) - c.index
         IN  OperationPair(Shrink(s, overlap), At(Shrink(c, overlap), s.index + Inserted(s)))
    [] r \in {"MetBy", "OverlappedBy"} ->
         LET overlap == SpliceEnd(c) - s.index
         IN  OperationPair(At(Shrink(s, overlap), c.index), Shrink(c, overlap))
    [] r = "Starts" ->
         OperationPair(Shrink(s, s.deleteCount), Shift(Shrink(c, s.deleteCount), Inserted(s)))
    [] r = "Finishes" ->
         OperationPair(At(Shrink(s, s.deleteCount), c.index), Shrink(c, s.deleteCount))
    [] r = "ContainedBy" -> OperationPair(NoOp(s), Grow(c, Displacement(s)))
    [] r \in {"StartedBy", "FinishedBy", "Contains"} ->
         OperationPair(Shrink(s, c.deleteCount), Shrink(c, c.deleteCount))
    [] r = "EqualTo" -> OperationPair(Shrink(s, s.deleteCount), NoOp(c))

\* When the server's splice lies after the client's, the code moves it by the
\* length of its OWN inserted text (s.insertValue), not of the client's.
TransformSpliceSplice(s, c, r) ==
  CASE r = "Precedes" -> OperationPair(s, Shift(c, Displacement(s)))
    [] r = "PrecededBy" -> OperationPair(Shift(s, Inserted(s) - c.deleteCount), c)
    [] r \in {"Meets", "Overlaps"} ->
         LET overlap == SpliceEnd(s) - c.index
         IN  OperationPair(Shrink(s, overlap), At(Shrink(c, overlap), s.index + Inserted(s)))
    [] r \in {"MetBy", "OverlappedBy"} ->
         LET overlap == SpliceEnd(c) - s.index
         IN  OperationPair(At(Shrink(s, overlap), c.index + Inserted(c)), Shrink(c, overlap))
    [] r = "Starts" ->
         OperationPair(Shrink(s, s.deleteCount), Shift(Shrink(c, s.deleteCount), Inserted(s)))
    [] r = "ContainedBy" -> OperationPair(NoOp(s), Grow(c, Displacement(s)))
    [] r = "Finishes" ->
         OperationPair(At(Shrink(s, s.deleteCount), c.index + Inserted(c)),
                       Shrink(c, s.deleteCount))
    [] r = "StartedBy" ->
         OperationPair(Shift(Shrink(s, c.deleteCount), Inserted(c)), Shrink(c, c.deleteCount))
    [] r = "Contains" -> OperationPair(Grow(s, Displacement(c)), NoOp(c))
    [] r = "FinishedBy" ->
         OperationPair(Shrink(s, c.deleteCount),
                       At(Shrink(c, c.deleteCount), s.index + Inserted(s)))
    [] r = "EqualTo" ->
         OperationPair(Shrink(s, s.deleteCount), Shift(Shrink(c, c.deleteCount), Inserted(s)))

StringSpliceSplice(s, c) ==
  LET types == <<SpliceType(s), SpliceType(c)>>
  IN  CASE "NoOp" \in {types[1], types[2]} -> OperationPair(s, c)
        [] types = <<"Insert", "Insert">> -> TransformInsertInsert(s, c)
        [] types = <<"Insert", "Remove">> -> TransformInsertRemove(s, c)
        [] types = <<"Insert", "Splice">> -> TransformInsertSplice(s, c)
        [] types = <<"Remove", "Insert">> -> TransformRemoveInsert(s, c)
        [] types = <<"Remove", "Remove">> -> TransformRemoveRemove(s, c, SpliceRelationship(s, c))
        [] types = <<"Remove", "Splice">> -> TransformRemoveSplice(s, c, SpliceRelationship(s, c))
        [] types = <<"Splice", "Insert">> -> TransformSpliceInsert(s, c)
        [] types = <<"Splice", "Remove">> -> TransformSpliceRemove(s, c, SpliceRelationship(s, c))
        [] types = <<"Splice", "Splice">> -> TransformSpliceSplice(s, c, SpliceRelationship(s, c))

\* StringSetSetOTF returns the server's operation, cancelled, on both sides;
\* cancelled operations have no effect, so either copy will do.
StringSetSet(s, c) == IF s.value = c.value THEN BothVanish(s, c) ELSE ServerWins(s, c)

StringTransform(s, c) ==
  CASE s.type = "StringSplice" /\ c.type = "StringSplice" -> StringSpliceSplice(s, c)
    [] s.type = "StringSplice" /\ c.type = "StringSet"    -> ClientWins(s, c)
    [] s.type = "StringSet"    /\ c.type = "StringSplice" -> ServerWins(s, c)
    [] s.type = "StringSet"    /\ c.type = "StringSet"    -> StringSetSet(s, c)
=============================================================================
