---------------------------- MODULE ObjectXform ----------------------------
(***************************************************************************)
(* Operations on a RealTimeObject, their effect on an ObjectNode, and the  *)
(* transformation functions of xform/object.  An object is a function from *)
(* the properties it has to their values.                                  *)
(***************************************************************************)
EXTENDS Operation

LOCAL INSTANCE TLC
LOCAL INSTANCE Functions

ObjectAddProperty(id, prop, value) ==
  [type |-> "ObjectAddProperty", id |-> id, noOp |-> FALSE, prop |-> prop, value |-> value]
ObjectSetProperty(id, prop, value) ==
  [type |-> "ObjectSetProperty", id |-> id, noOp |-> FALSE, prop |-> prop, value |-> value]
ObjectRemoveProperty(id, prop) ==
  [type |-> "ObjectRemoveProperty", id |-> id, noOp |-> FALSE, prop |-> prop]
ObjectSet(id, value) ==
  [type |-> "ObjectSet", id |-> id, noOp |-> FALSE, value |-> value]

\* ObjectNode.set issues an add or a set by whether the object has the property;
\* setting is the same assignment in both, and removing what is not there does nothing.
ObjectApply(obj, op) ==
  CASE op.type \in {"ObjectAddProperty", "ObjectSetProperty"} -> (op.prop :> op.value) @@ obj
    [] op.type = "ObjectRemoveProperty" -> Restrict(obj, DOMAIN obj \ {op.prop})
    [] op.type = "ObjectSet" -> op.value

----------------------------------------------------------------------------
AsAdd(op) == [ObjectAddProperty(op.id, op.prop, op.value) EXCEPT !.noOp = op.noOp]
AsSet(op) == [ObjectSetProperty(op.id, op.prop, op.value) EXCEPT !.noOp = op.noOp]

\* Two clients added the property: the server's addition becomes an assignment.
AddAdd(s, c) ==
  IF s.value = c.value THEN BothVanish(s, c) ELSE OperationPair(AsSet(s), NoOp(c))

SetPropertySetProperty(s, c) ==
  IF s.value = c.value THEN BothVanish(s, c) ELSE ServerWins(s, c)

SetPropertyRemove(s, c) == OperationPair(AsAdd(s), NoOp(c))
RemoveSetProperty(s, c) == OperationPair(NoOp(s), AsAdd(c))

\* One operation presumes the property present and the other absent: the code throws
\* "can not target the same property", and here there is no case.
SamePropertyTransform(s, c) ==
  CASE s.type = "ObjectAddProperty" /\ c.type = "ObjectAddProperty" -> AddAdd(s, c)
    [] s.type = "ObjectSetProperty" /\ c.type = "ObjectSetProperty" ->
         SetPropertySetProperty(s, c)
    [] s.type = "ObjectSetProperty" /\ c.type = "ObjectRemoveProperty" -> SetPropertyRemove(s, c)
    [] s.type = "ObjectRemoveProperty" /\ c.type = "ObjectSetProperty" -> RemoveSetProperty(s, c)
    [] s.type = "ObjectRemoveProperty" /\ c.type = "ObjectRemoveProperty" -> BothVanish(s, c)

ObjectTransform(s, c) ==
  CASE s.type = "ObjectSet" /\ c.type = "ObjectSet" ->
         IF s.value = c.value THEN BothVanish(s, c) ELSE ServerWins(s, c)
    [] s.type = "ObjectSet" /\ c.type # "ObjectSet" -> ServerWins(s, c)
    [] s.type # "ObjectSet" /\ c.type = "ObjectSet" -> ClientWins(s, c)
    [] s.type # "ObjectSet" /\ c.type # "ObjectSet" ->
         IF s.prop = c.prop THEN SamePropertyTransform(s, c) ELSE OperationPair(s, c)
=============================================================================
