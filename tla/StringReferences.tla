-------------------------- MODULE StringReferences --------------------------
(***************************************************************************)
(* What operations on a string do to the places references to it hold:     *)
(* where the reference is transformed over operations in flight when it    *)
(* arrives (ReferenceTransformer), and where it follows the events of the  *)
(* string (RealTimeString).  A place is an index; a range is two of them.  *)
(***************************************************************************)
EXTENDS StringXform

LOCAL INSTANCE SequencesExt

\* The reference is gone with the text it pointed into.
NoPlace == -1

AtMost(n, most) == IF n < most THEN n ELSE most

\* IndexTransformer
HandleInsert(place, index, length) == IF place >= index THEN place + length ELSE place

HandleRemove(place, index, length) ==
  IF place > index THEN place - AtMost(place - index, length) ELSE place

\* The comparison that should leave places before the index alone compares the place with
\* itself: such a place jumps to the end of what is inserted.
HandleSplice(place, index, deleteCount, insertCount) ==
  place - AtMost(place - index, deleteCount) + insertCount

\* Slip: the text inserted at a place does not move it.
TransformBeforeInserted(place, op) ==
  IF op.type = "StringSet" THEN NoPlace
  ELSE HandleSplice(place, op.index, op.deleteCount,
                    IF place = op.index THEN 0 ELSE Inserted(op))

\* StringSpliceIndexTransformationFunction and StringSetIndexTransformationFunction
TransformPlace(place, op) ==
  IF op.type = "StringSet" THEN NoPlace
  ELSE HandleSplice(place, op.index, op.deleteCount, Inserted(op))

\* RealTimeString._handleDelegateModelEvents: by what event StringNode tells of the
\* operation, if it tells.
FollowEvent(place, op) ==
  CASE op.type = "StringSet"       -> NoPlace
    [] SpliceType(op) = "Insert" -> HandleInsert(place, op.index, Inserted(op))
    [] SpliceType(op) = "Remove" -> HandleRemove(place, op.index, op.deleteCount)
    [] SpliceType(op) = "Splice" -> HandleSplice(place, op.index, op.deleteCount, Inserted(op))
    [] SpliceType(op) = "NoOp"   -> place

\* ReferenceTransformer.transform: stops when nothing is left of the reference, and leaves
\* it to operations that are cancelled or on another value.
TransformReference(place, id, operation) ==
  FoldLeft(LAMBDA p, op : IF p = NoPlace \/ op.noOp \/ op.id # id THEN p ELSE TransformPlace(p, op),
           place, operation)

\* The same by the events the operation makes where it is applied.
FollowOperation(place, id, operation) ==
  FoldLeft(LAMBDA p, op : IF p = NoPlace \/ op.noOp \/ op.id # id THEN p ELSE FollowEvent(p, op),
           place, operation)
=============================================================================
