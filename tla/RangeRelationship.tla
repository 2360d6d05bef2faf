------------------------- MODULE RangeRelationship -------------------------
(***************************************************************************)
(* RangeRelationshipUtil: how an index lies to a range, and how two ranges *)
(* lie to each other.  The order of the tests is the code's; it decides    *)
(* what an empty range and a shared end point count as.                    *)
(***************************************************************************)
EXTENDS Integers

RangeIndexRelationship(rStart, rEnd, index) ==
  CASE index < rStart -> "Before"
    [] index > rEnd   -> "After"
    [] index = rStart -> "Start"
    [] index = rEnd /\ index # rStart -> "End"
    [] OTHER -> "Within"

RangeRangeRelationship(sStart, sEnd, cStart, cEnd) ==
  IF sStart = cStart
    THEN CASE sEnd = cEnd -> "EqualTo"
           [] cEnd > sEnd -> "Starts"
           [] cEnd < sEnd -> "StartedBy"
  ELSE IF sStart > cStart
    THEN IF sStart > cEnd THEN "PrecededBy"
         ELSE IF cEnd = sEnd THEN "Finishes"
         ELSE IF sEnd < cEnd THEN "ContainedBy"
         ELSE IF sStart = cEnd THEN "MetBy"
         ELSE "OverlappedBy"
  ELSE IF sEnd < cStart THEN "Precedes"
       ELSE IF cEnd = sEnd THEN "FinishedBy"
       ELSE IF sEnd > cEnd THEN "Contains"
       ELSE IF sEnd = cStart THEN "Meets"
       ELSE "Overlaps"
=============================================================================
