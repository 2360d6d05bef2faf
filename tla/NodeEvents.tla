------------------------------ MODULE NodeEvents ------------------------------
(***************************************************************************)
(* The events by which nodes tell of their changes (internal/events.ts),   *)
(* how they bubble to the root, the events the application hears of them   *)
(* (ModelEventConverter), and a listener of the root that keeps a copy of  *)
(* the model's data by them alone.                                         *)
(*                                                                         *)
(* Nodes, and the elements that wrap them, are their ids.  The session and *)
(* the user are left out.                                                  *)
(***************************************************************************)
EXTENDS ModelTree

LOCAL INSTANCE SequencesExt

----------------------------------------------------------------------------
(* Node events *)

ValueEvent(name, src, local, more) == [name |-> name, src |-> src, local |-> local] @@ more

ArrayNodeInsertEvent(src, local, index, value) ==
  ValueEvent("array insert", src, local, [index |-> index, value |-> value])

ArrayNodeRemoveEvent(src, local, index, oldValue) ==
  ValueEvent("array remove", src, local, [index |-> index, oldValue |-> oldValue])

ArrayNodeSetEvent(src, local, index, value, oldValue) ==
  ValueEvent("array set", src, local,
             [index |-> index, value |-> value, oldValue |-> oldValue])

ArrayNodeReorderEvent(src, local, fromIndex, toIndex) ==
  ValueEvent("array reorder", src, local, [fromIndex |-> fromIndex, toIndex |-> toIndex])

ArrayNodeSetValueEvent(src, local, value) ==
  ValueEvent("array value", src, local, [value |-> value])

BooleanNodeSetValueEvent(src, local, value) ==
  ValueEvent("boolean value", src, local, [value |-> value])

NumberNodeSetValueEvent(src, local, value) ==
  ValueEvent("number value", src, local, [value |-> value])

NumberNodeDeltaEvent(src, local, value) ==
  ValueEvent("number delta", src, local, [value |-> value])

ObjectNodeSetEvent(src, local, key, value, oldValue) ==
  ValueEvent("object set", src, local, [key |-> key, value |-> value, oldValue |-> oldValue])

ObjectNodeRemoveEvent(src, local, key, oldValue) ==
  ValueEvent("object remove", src, local, [key |-> key, oldValue |-> oldValue])

ObjectNodeSetValueEvent(src, local, value) ==
  ValueEvent("object value", src, local, [value |-> value])

StringNodeSpliceEvent(src, local, index, deleteCount, insertValue) ==
  ValueEvent("string splice", src, local,
             [index |-> index, deleteCount |-> deleteCount, insertValue |-> insertValue])

StringNodeInsertEvent(src, local, index, value) ==
  ValueEvent("string insert", src, local, [index |-> index, value |-> value])

StringNodeRemoveEvent(src, local, index, value) ==
  ValueEvent("string remove", src, local, [index |-> index, value |-> value])

StringNodeSetValueEvent(src, local, value) ==
  ValueEvent("string value", src, local, [value |-> value])

DateNodeSetValueEvent(src, local, value) ==
  ValueEvent("date value", src, local, [value |-> value])

\* What a change did not emit an event of.
NoEvent == [name |-> "none"]

ArrayEvent(tree, after, op, local) ==
  LET old(index) == tree.node[op.id].children[index]
  IN  CASE op.type = "ArrayInsert"  ->
             ArrayNodeInsertEvent(op.id, local, op.index, op.value.id)
        [] op.type = "ArrayRemove"  ->
             ArrayNodeRemoveEvent(op.id, local, op.index, old(op.index))
        [] op.type = "ArrayReplace" ->
             ArrayNodeSetEvent(op.id, local, op.index, op.value.id, old(op.index))
        [] op.type = "ArrayMove"    -> ArrayNodeReorderEvent(op.id, local, op.from, op.to)
        [] op.type = "ArraySet"     ->
             ArrayNodeSetValueEvent(op.id, local, DataValue(after, op.id).value)

\* The old value of a property that was not there is an undefined node.
ObjectEvent(tree, after, op, local) ==
  LET children  == tree.node[op.id].children
      old(prop) == IF prop \in DOMAIN children THEN children[prop] ELSE 0
  IN  CASE op.type \in {"ObjectAddProperty", "ObjectSetProperty"} ->
             ObjectNodeSetEvent(op.id, local, op.prop, op.value.id, old(op.prop))
        [] op.type = "ObjectRemoveProperty" ->
             IF old(op.prop) = 0 THEN NoEvent
             ELSE ObjectNodeRemoveEvent(op.id, local, op.prop, old(op.prop))
        [] op.type = "ObjectSet" ->
             ObjectNodeSetValueEvent(op.id, local, DataValue(after, op.id).value)

SpliceRemoved(tree, op) ==
  SubSeq(tree.node[op.id].children, op.index, op.index + op.deleteCount - 1)

\* Slip: a splice that removes is told as a removal.
SpliceEventOfRemoval(tree, op, local) ==
  CASE op.deleteCount > 0 ->
         StringNodeRemoveEvent(op.id, local, op.index, SpliceRemoved(tree, op))
    [] op.deleteCount = 0 /\ op.inserted # <<>> ->
         StringNodeInsertEvent(op.id, local, op.index, op.inserted)
    [] OTHER -> NoEvent

SpliceEvent(tree, op, local) ==
  CASE op.deleteCount > 0 /\ op.inserted = <<>> ->
         StringNodeRemoveEvent(op.id, local, op.index, SpliceRemoved(tree, op))
    [] op.deleteCount = 0 /\ op.inserted # <<>> ->
         StringNodeInsertEvent(op.id, local, op.index, op.inserted)
    [] op.deleteCount > 0 /\ op.inserted # <<>> ->
         StringNodeSpliceEvent(op.id, local, op.index, op.deleteCount, op.inserted)
    [] OTHER -> NoEvent

StringEvent(tree, op, local) ==
  CASE op.type = "StringSplice" -> SpliceEvent(tree, op, local)
    [] op.type = "StringSet"    -> StringNodeSetValueEvent(op.id, local, op.all)

NumberEvent(op, local) ==
  CASE op.type = "NumberDelta" -> IF op.delta = 0 THEN NoEvent
                                  ELSE NumberNodeDeltaEvent(op.id, local, op.delta)
    [] op.type = "NumberSet"   -> NumberNodeSetValueEvent(op.id, local, op.all)

\* The event of the change that takes the tree to after.
NodeEvent(tree, after, op, local) ==
  IF op.id \notin tree.registered THEN NoEvent
  ELSE LET kind == tree.node[op.id].kind
       IN  CASE kind = "array"   -> ArrayEvent(tree, after, op, local)
             [] kind = "object"  -> ObjectEvent(tree, after, op, local)
             [] kind = "string"  -> StringEvent(tree, op, local)
             [] kind = "number"  -> NumberEvent(op, local)
             [] kind = "boolean" -> BooleanNodeSetValueEvent(op.id, local, op.all)
             [] kind = "date"    -> DateNodeSetValueEvent(op.id, local, op.all)

NodeChangedEvent(src, relativePath, childEvent) ==
  [name |-> "node_changed", src |-> src, local |-> childEvent.local,
   relativePath |-> relativePath, childEvent |-> childEvent]

\* _nodeChangedHandler: each container puts the child it hears from before the path.
RECURSIVE Bubbles(_, _)
Bubbles(tree, event) ==
  IF event.src = tree.root THEN event
  ELSE LET parent == tree.node[event.src].parent
           path   == <<tree.node[parent].at[event.src]>> \o event.relativePath
       IN  Bubbles(tree, NodeChangedEvent(parent, path, event.childEvent))

\* _emitValueEvent
RootHears(tree, event) == Bubbles(tree, NodeChangedEvent(event.src, <<>>, event))

----------------------------------------------------------------------------
(* The events of the application *)

ElementEvent(event, more) ==
  [name |-> event.name, element |-> event.src, local |-> event.local] @@ more

ArrayInsertEvent(event)  == ElementEvent(event, [index |-> event.index, value |-> event.value])
ArrayRemoveEvent(event)  ==
  ElementEvent(event, [index |-> event.index, oldValue |-> event.oldValue])
ArrayReorderEvent(event) ==
  ElementEvent(event, [fromIndex |-> event.fromIndex, toIndex |-> event.toIndex])
ArraySetEvent(event) ==
  ElementEvent(event,
               [index |-> event.index, value |-> event.value, oldValue |-> event.oldValue])
ObjectRemoveEvent(event) == ElementEvent(event, [key |-> event.key, oldValue |-> event.oldValue])
ObjectSetEvent(event) ==
  ElementEvent(event, [key |-> event.key, value |-> event.value, oldValue |-> event.oldValue])
NumberDeltaEvent(event)  == ElementEvent(event, [value |-> event.value])
StringInsertEvent(event) == ElementEvent(event, [index |-> event.index, value |-> event.value])
StringRemoveEvent(event) == ElementEvent(event, [index |-> event.index, value |-> event.value])
StringSpliceEvent(event) ==
  ElementEvent(event, [index |-> event.index, deleteCount |-> event.deleteCount,
                       insertValue |-> event.insertValue])

\* Of a value that is set as a whole only the element is told.
ArraySetValueEvent(event)   == ElementEvent(event, [whole |-> TRUE])
BooleanSetValueEvent(event) == ElementEvent(event, [whole |-> TRUE])
NumberSetValueEvent(event)  == ElementEvent(event, [whole |-> TRUE])
ObjectSetValueEvent(event)  == ElementEvent(event, [whole |-> TRUE])
StringSetValueEvent(event)  == ElementEvent(event, [whole |-> TRUE])
DateSetValueEvent(event)    == ElementEvent(event, [whole |-> TRUE])

ModelChangedEvent(element, local, relativePath, childEvent) ==
  [name |-> "model_changed", element |-> element, local |-> local,
   relativePath |-> relativePath, childEvent |-> childEvent]

ConvertValueEvent(event) ==
  CASE event.name = "array insert"  -> ArrayInsertEvent(event)
    [] event.name = "array remove"  -> ArrayRemoveEvent(event)
    [] event.name = "array reorder" -> ArrayReorderEvent(event)
    [] event.name = "array set"     -> ArraySetEvent(event)
    [] event.name = "array value"   -> ArraySetValueEvent(event)
    [] event.name = "boolean value" -> BooleanSetValueEvent(event)
    [] event.name = "number value"  -> NumberSetValueEvent(event)
    [] event.name = "number delta"  -> NumberDeltaEvent(event)
    [] event.name = "object value"  -> ObjectSetValueEvent(event)
    [] event.name = "object remove" -> ObjectRemoveEvent(event)
    [] event.name = "object set"    -> ObjectSetEvent(event)
    [] event.name = "string splice" -> StringSpliceEvent(event)
    [] event.name = "string insert" -> StringInsertEvent(event)
    [] event.name = "string remove" -> StringRemoveEvent(event)
    [] event.name = "string value"  -> StringSetValueEvent(event)
    [] event.name = "date value"    -> DateSetValueEvent(event)

\* ModelEventConverter.convertEvent, of what the root hears.
ConvertEvent(event) ==
  ModelChangedEvent(event.src, event.local, event.relativePath,
                    ConvertValueEvent(event.childEvent))

----------------------------------------------------------------------------
(* A listener: a copy of the data, without ids *)

RECURSIVE CopyOf(_)
CopyOf(data) ==
  [kind |-> data.kind,
   value |-> IF IsContainer(data.kind)
             THEN [e \in DOMAIN data.value |-> CopyOf(data.value[e])] ELSE data.value]

\* What the element has when the listener asks for its value.
ValueNow(tree, id) == CopyOf(DataValue(tree, id))

\* The change an event tells of, to the copy of its element.
Follow(tree, copy, event) ==
  LET Now(value)   == [copy EXCEPT !.value = value]
      after(index) == SubSeq(copy.value, index, Len(copy.value))
  IN  CASE event.name = "array insert"  ->
             Now(InsertAt(copy.value, event.index, ValueNow(tree, event.value)))
        [] event.name = "array remove"  -> Now(RemoveAt(copy.value, event.index))
        [] event.name = "array reorder" ->
             Now(InsertAt(RemoveAt(copy.value, event.fromIndex), event.toIndex,
                          copy.value[event.fromIndex]))
        [] event.name = "array set"     ->
             Now([copy.value EXCEPT ![event.index] = ValueNow(tree, event.value)])
        [] event.name = "object set"    ->
             Now((event.key :> ValueNow(tree, event.value)) @@ copy.value)
        [] event.name = "object remove" ->
             Now([k \in DOMAIN copy.value \ {event.key} |-> copy.value[k]])
        [] event.name = "number delta"  -> Now(copy.value + event.value)
        [] event.name = "string insert" ->
             Now(SubSeq(copy.value, 1, event.index - 1) \o event.value \o after(event.index))
        [] event.name = "string remove" ->
             Now(SubSeq(copy.value, 1, event.index - 1) \o after(event.index + Len(event.value)))
        [] event.name = "string splice" ->
             Now(SubSeq(copy.value, 1, event.index - 1) \o event.insertValue
                   \o after(event.index + event.deleteCount))
        [] OTHER -> ValueNow(tree, event.element)

RECURSIVE FollowAt(_, _, _, _)
FollowAt(tree, copy, path, event) ==
  IF path = <<>> THEN Follow(tree, copy, event)
  ELSE [copy EXCEPT !.value[Head(path)] = FollowAt(tree, @, Tail(path), event)]

\* The copy after the change from the tree to after.
Copied(copy, tree, after, op) ==
  LET event == NodeEvent(tree, after, op, FALSE)
      heard == ConvertEvent(RootHears(after, event))
  IN  IF event = NoEvent THEN copy
      ELSE FollowAt(after, copy, heard.relativePath, heard.childEvent)
=============================================================================
