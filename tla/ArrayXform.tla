----------------------------- MODULE ArrayXform -----------------------------
(***************************************************************************)
(* Operations on a RealTimeArray, their effect on an ArrayNode, and the    *)
(* transformation functions of xform/array.  An array is a sequence, its   *)
(* indices start at 0 as in the code.                                      *)
(***************************************************************************)
EXTENDS Integers, Sequences, Operation, RangeRelationship

LOCAL INSTANCE SequencesExt

ArrayInsert(id, index, value) ==
  [type |-> "ArrayInsert", id |-> id, noOp |-> FALSE, index |-> index, value |-> value]
ArrayRemove(id, index) ==
  [type |-> "ArrayRemove", id |-> id, noOp |-> FALSE, index |-> index]
ArrayReplace(id, index, value) ==
  [type |-> "ArrayReplace", id |-> id, noOp |-> FALSE, index |-> index, value |-> value]
ArrayMove(id, from, to) ==
  [type |-> "ArrayMove", id |-> id, noOp |-> FALSE, fromIndex |-> from, toIndex |-> to]
ArraySet(id, value) ==
  [type |-> "ArraySet", id |-> id, noOp |-> FALSE, value |-> value]

(***************************************************************************)
(* ArrayNode: _validateInsert, _validateRemove, _validateReplace and       *)
(* _validateMove throw on an index outside the array.                      *)
(***************************************************************************)
ArrayAccepts(array, op) ==
  LET existing == 0 .. Len(array) - 1
  IN  CASE op.type = "ArrayInsert" -> op.index \in 0 .. Len(array)
        [] op.type \in {"ArrayRemove", "ArrayReplace"} -> op.index \in existing
        [] op.type = "ArrayMove" -> op.fromIndex \in existing /\ op.toIndex \in existing
        [] op.type = "ArraySet" -> TRUE

ArrayApply(array, op) ==
  CASE op.type = "ArrayInsert"  -> InsertAt(array, op.index + 1, op.value)
    [] op.type = "ArrayRemove"  -> RemoveAt(array, op.index + 1)
    [] op.type = "ArrayReplace" -> ReplaceAt(array, op.index + 1, op.value)
    [] op.type = "ArrayMove"    ->
         InsertAt(RemoveAt(array, op.fromIndex + 1), op.toIndex + 1, array[op.fromIndex + 1])
    [] op.type = "ArraySet"     -> op.value

----------------------------------------------------------------------------
(* Functions on pairs without a move.                                      *)

Right(op) == [op EXCEPT !.index = @ + 1]
Left(op) == [op EXCEPT !.index = @ - 1]
AsInsert(op) == [ArrayInsert(op.id, op.index, op.value) EXCEPT !.noOp = op.noOp]

InsertInsert(s, c) ==
  IF s.index <= c.index THEN OperationPair(s, Right(c)) ELSE OperationPair(Right(s), c)

InsertRemove(s, c) ==
  IF s.index <= c.index THEN OperationPair(s, Right(c)) ELSE OperationPair(Left(s), c)

InsertReplace(s, c) ==
  IF s.index <= c.index THEN OperationPair(s, Right(c)) ELSE OperationPair(s, c)

RemoveInsert(s, c) ==
  IF s.index < c.index THEN OperationPair(s, Left(c)) ELSE OperationPair(Right(s), c)

\* Slip: an element both removed is removed twice.
RemoveRemoveTwice(s, c) ==
  IF s.index < c.index THEN OperationPair(s, Left(c))
  ELSE IF s.index > c.index THEN OperationPair(Left(s), c) ELSE OperationPair(s, c)

RemoveRemove(s, c) ==
  CASE s.index = c.index -> BothVanish(s, c)
    [] s.index < c.index -> OperationPair(s, Left(c))
    [] s.index > c.index -> OperationPair(Left(s), c)

RemoveReplace(s, c) ==
  CASE s.index < c.index -> OperationPair(s, Left(c))
    [] s.index = c.index -> OperationPair(NoOp(s), AsInsert(c))
    [] s.index > c.index -> OperationPair(s, c)

ReplaceInsert(s, c) ==
  IF s.index < c.index THEN OperationPair(s, c) ELSE OperationPair(Right(s), c)

ReplaceRemove(s, c) ==
  CASE s.index < c.index -> OperationPair(s, c)
    [] s.index = c.index -> OperationPair(AsInsert(s), NoOp(c))
    [] s.index > c.index -> OperationPair(Left(s), c)

ReplaceReplace(s, c) ==
  CASE s.index # c.index -> OperationPair(s, c)
    [] s.index = c.index /\ s.value # c.value -> ServerWins(s, c)
    [] s.index = c.index /\ s.value = c.value -> BothVanish(s, c)

SetSet(s, c) == IF s.value = c.value THEN BothVanish(s, c) ELSE ServerWins(s, c)

----------------------------------------------------------------------------
(* ArrayMoveHelper.                                                        *)

Direction(move) ==
  CASE move.fromIndex < move.toIndex -> "Forward"
    [] move.fromIndex > move.toIndex -> "Backward"
    [] OTHER -> "Identity"

RangeMin(move) == IF move.fromIndex < move.toIndex THEN move.fromIndex ELSE move.toIndex
RangeMax(move) == IF move.fromIndex < move.toIndex THEN move.toIndex ELSE move.fromIndex

IndexIn(move, index) == RangeIndexRelationship(RangeMin(move), RangeMax(move), index)

MoveRelationship(s, c) ==
  RangeRangeRelationship(RangeMin(s), RangeMax(s), RangeMin(c), RangeMax(c))

\* op.copy({fromIndex: op.fromIndex + from, toIndex: op.toIndex + to})
ShiftMove(move, from, to) == [move EXCEPT !.fromIndex = @ + from, !.toIndex = @ + to]
MoveFrom(move, from) == [move EXCEPT !.fromIndex = from]
MoveWithin(move, i) == [move EXCEPT !.fromIndex = i, !.toIndex = i]

----------------------------------------------------------------------------
(* A move against an operation at one index.  The code writes each of      *)
(* these twice, with the roles of server and client exchanged; here the    *)
(* move m and the other operation o come back in [move, other].            *)

Moved(m, o) == [move |-> m, other |-> o]
ServerMoved(p) == OperationPair(p.move, p.other)
ClientMoved(p) == OperationPair(p.other, p.move)

MoveOverInsert(m, o) ==
  LET r == IndexIn(m, o.index)
  IN  CASE r = "After" -> Moved(m, o)
        [] r \in {"Before", "Start"} -> Moved(ShiftMove(m, 1, 1), o)
        [] r \in {"Within", "End"} /\ Direction(m) = "Forward" ->
             Moved(ShiftMove(m, 0, 1), Left(o))
        [] r \in {"Within", "End"} /\ Direction(m) = "Backward" ->
             Moved(ShiftMove(m, 1, 0), Right(o))

MoveOverRemove(m, o) ==
  LET r == IndexIn(m, o.index)
      source == IF Direction(m) = "Backward" THEN "End" ELSE "Start"
  IN  CASE r = "After" -> Moved(m, o)
        [] r = "Before" -> Moved(ShiftMove(m, -1, -1), o)
        [] r = source -> Moved(NoOp(m), [o EXCEPT !.index = m.toIndex])
        [] r \notin {"After", "Before", source} /\ Direction(m) = "Forward" ->
             Moved(ShiftMove(m, 0, -1), Left(o))
        [] r \notin {"After", "Before", source} /\ Direction(m) = "Backward" ->
             Moved(ShiftMove(m, -1, 0), Right(o))

MoveOverReplace(m, o) ==
  LET r == IndexIn(m, o.index)
      source == IF Direction(m) = "Backward" THEN "End" ELSE "Start"
  IN  CASE r \in {"Before", "After"} \/ Direction(m) = "Identity" -> Moved(m, o)
        [] r = source /\ Direction(m) # "Identity" -> Moved(m, [o EXCEPT !.index = m.toIndex])
        [] r \notin {"After", "Before", source} /\ Direction(m) = "Forward" -> Moved(m, Left(o))
        [] r \notin {"After", "Before", source} /\ Direction(m) = "Backward" -> Moved(m, Right(o))

----------------------------------------------------------------------------
(* ArrayMoveMoveOTF.  Shifted(s, c, sf, st, cf, ct) adds sf, st to the     *)
(* server's indices and cf, ct to the client's.                            *)

Shifted(s, c, sf, st, cf, ct) == OperationPair(ShiftMove(s, sf, st), ShiftMove(c, cf, ct))

\* Both move the same element: the server's move starts where the client's ended.
SameElement(s, c) == OperationPair(MoveFrom(s, c.toIndex), NoOp(c))

ForwardForward(s, c) ==
  LET r == MoveRelationship(s, c)
  IN  CASE r \in {"Precedes", "PrecededBy"} -> OperationPair(s, c)
        [] r \in {"Meets", "Overlaps"} -> Shifted(s, c, 0, -1, -1, 0)
        [] r \in {"MetBy", "OverlappedBy", "Finishes"} -> Shifted(s, c, -1, 0, 0, -1)
        [] r \in {"Starts", "StartedBy"} -> SameElement(s, c)
        [] r \in {"Contains", "FinishedBy"} -> Shifted(s, c, 0, 0, -1, -1)
        [] r = "ContainedBy" -> Shifted(s, c, -1, -1, 0, 0)
        [] r = "EqualTo" -> BothVanish(s, c)

ForwardBackward(s, c) ==
  LET r == MoveRelationship(s, c)
  IN  CASE r \in {"Precedes", "PrecededBy"} -> OperationPair(s, c)
        [] r \in {"Meets", "Overlaps"} -> Shifted(s, c, 0, 1, 0, -1)
        [] r = "MetBy" -> SameElement(s, c)
        [] r \in {"OverlappedBy", "StartedBy", "Finishes", "EqualTo"} ->
             Shifted(s, c, 1, 0, -1, 0)
        [] r \in {"Starts", "ContainedBy"} -> Shifted(s, c, 1, 1, 0, 0)
        [] r \in {"Contains", "FinishedBy"} -> Shifted(s, c, 0, 0, -1, -1)

BackwardForward(s, c) ==
  LET r == MoveRelationship(s, c)
  IN  CASE r \in {"Precedes", "PrecededBy"} -> OperationPair(s, c)
        [] r = "Meets" -> SameElement(s, c)
        [] r \in {"MetBy", "OverlappedBy"} -> Shifted(s, c, 0, -1, 0, 1)
        [] r \in {"Overlaps", "Starts", "FinishedBy", "EqualTo"} -> Shifted(s, c, -1, 0, 1, 0)
        [] r \in {"StartedBy", "Contains"} -> Shifted(s, c, 0, 0, 1, 1)
        [] r \in {"ContainedBy", "Finishes"} -> Shifted(s, c, -1, -1, 0, 0)

BackwardBackward(s, c) ==
  LET r == MoveRelationship(s, c)
  IN  CASE r \in {"Precedes", "PrecededBy"} -> OperationPair(s, c)
        [] r \in {"Meets", "Overlaps"} -> Shifted(s, c, 1, 0, 0, 1)
        [] r \in {"MetBy", "OverlappedBy"} -> Shifted(s, c, 0, 1, 1, 0)
        [] r \in {"Starts", "ContainedBy"} -> Shifted(s, c, 1, 1, 0, 0)
        [] r \in {"StartedBy", "Contains"} -> Shifted(s, c, 0, 0, 1, 1)
        [] r \in {"Finishes", "FinishedBy"} -> SameElement(s, c)
        [] r = "EqualTo" -> BothVanish(s, c)

\* A move m against a move of one element onto itself, which follows the element.
MoveOverIdentity(m, o) ==
  LET r == IndexIn(m, o.fromIndex)
      source == IF Direction(m) = "Backward" THEN "End" ELSE "Start"
  IN  CASE r \in {"Before", "After"} \/ Direction(m) = "Identity" -> Moved(m, o)
        [] r = source /\ Direction(m) # "Identity" -> Moved(m, MoveWithin(o, m.toIndex))
        [] r \notin {"After", "Before", source} /\ Direction(m) = "Forward" ->
             Moved(m, ShiftMove(o, -1, -1))
        [] r \notin {"After", "Before", source} /\ Direction(m) = "Backward" ->
             Moved(m, ShiftMove(o, 1, 1))

MoveMove(s, c) ==
  LET d == <<Direction(s), Direction(c)>>
  IN  CASE d = <<"Forward", "Forward">>   -> ForwardForward(s, c)
        [] d = <<"Forward", "Backward">>  -> ForwardBackward(s, c)
        [] d = <<"Backward", "Forward">>  -> BackwardForward(s, c)
        [] d = <<"Backward", "Backward">> -> BackwardBackward(s, c)
        [] d[2] = "Identity" -> ServerMoved(MoveOverIdentity(s, c))
        [] d[1] = "Identity" /\ d[2] # "Identity" -> ClientMoved(MoveOverIdentity(c, s))

----------------------------------------------------------------------------
ArrayTransform(s, c) ==
  CASE s.type = "ArraySet" /\ c.type = "ArraySet" -> SetSet(s, c)
    [] s.type = "ArraySet" /\ c.type # "ArraySet" -> ServerWins(s, c)
    [] s.type # "ArraySet" /\ c.type = "ArraySet" -> ClientWins(s, c)
    [] s.type = "ArrayInsert"  /\ c.type = "ArrayInsert"  -> InsertInsert(s, c)
    [] s.type = "ArrayInsert"  /\ c.type = "ArrayRemove"  -> InsertRemove(s, c)
    [] s.type = "ArrayInsert"  /\ c.type = "ArrayReplace" -> InsertReplace(s, c)
    [] s.type = "ArrayInsert"  /\ c.type = "ArrayMove"    -> ClientMoved(MoveOverInsert(c, s))
    [] s.type = "ArrayRemove"  /\ c.type = "ArrayInsert"  -> RemoveInsert(s, c)
    [] s.type = "ArrayRemove"  /\ c.type = "ArrayRemove"  -> RemoveRemove(s, c)
    [] s.type = "ArrayRemove"  /\ c.type = "ArrayReplace" -> RemoveReplace(s, c)
    [] s.type = "ArrayRemove"  /\ c.type = "ArrayMove"    -> ClientMoved(MoveOverRemove(c, s))
    [] s.type = "ArrayReplace" /\ c.type = "ArrayInsert"  -> ReplaceInsert(s, c)
    [] s.type = "ArrayReplace" /\ c.type = "ArrayRemove"  -> ReplaceRemove(s, c)
    [] s.type = "ArrayReplace" /\ c.type = "ArrayReplace" -> ReplaceReplace(s, c)
    [] s.type = "ArrayReplace" /\ c.type = "ArrayMove"    -> ClientMoved(MoveOverReplace(c, s))
    [] s.type = "ArrayMove"    /\ c.type = "ArrayInsert"  -> ServerMoved(MoveOverInsert(s, c))
    [] s.type = "ArrayMove"    /\ c.type = "ArrayRemove"  -> ServerMoved(MoveOverRemove(s, c))
    [] s.type = "ArrayMove"    /\ c.type = "ArrayReplace" -> ServerMoved(MoveOverReplace(s, c))
    [] s.type = "ArrayMove"    /\ c.type = "ArrayMove"    -> MoveMove(s, c)
=============================================================================
