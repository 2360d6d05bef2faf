----------------------------- MODULE ModelTree -----------------------------
(***************************************************************************)
(* The tree of nodes that holds a model's data (Model, ModelNode,          *)
(* ContainerNode, ArrayNode, ObjectNode), what an operation does to it,    *)
(* and the inverse of an operation that has been applied.                  *)
(*                                                                         *)
(* A data value is [id, kind, value]: a sequence of data values for an     *)
(* array, a function from keys to data values for an object, or what a     *)
(* leaf holds.  Indices count from 1.                                      *)
(***************************************************************************)
EXTENDS Integers, Sequences, FiniteSets

LOCAL INSTANCE SequencesExt
LOCAL INSTANCE Functions

Data(id, kind, value) == [id |-> id, kind |-> kind, value |-> value]

\* A node: its children in place of its value, the container whose _pathCB gives its path,
\* and the container's _idToPathElement.
Node(kind, children, parent) ==
  [kind |-> kind, children |-> children, parent |-> parent, at |-> [id \in {} |-> 0]]

NoTree == [node |-> [id \in {} |-> 0], registered |-> {}, root |-> 0]

IsContainer(kind) == kind \in {"array", "object"}

\* _idToPathElement.set(id, element)
Place(tree, container, id, element) ==
  [tree EXCEPT !.node[container].at = (id :> element) @@ @]

----------------------------------------------------------------------------
\* ModelNode's constructor: a node registers itself.
Register(tree, id, node) ==
  [tree EXCEPT !.node = (id :> node) @@ @, !.registered = @ \cup {id}]

Ids(values) == FoldLeft(LAMBDA ids, value : Append(ids, value.id), <<>>, values)

\* A container knows where each child is, and its children are created before it is done.
ArrayNode(data, parent) ==
  LET ids == Ids(data.value)
  IN  [Node("array", ids, parent) EXCEPT
         !.at = [id \in Range(ids) |-> CHOOSE i \in DOMAIN ids : ids[i] = id]]

ObjectNode(data, parent) ==
  LET ids == [prop \in DOMAIN data.value |-> data.value[prop].id]
  IN  [Node("object", ids, parent) EXCEPT
         !.at = [id \in Range(ids) |-> CHOOSE prop \in DOMAIN ids : ids[prop] = id]]

\* ModelNodeFactory.create
RECURSIVE Create(_, _, _)
Create(tree, data, parent) ==
  LET node == CASE data.kind = "array"  -> ArrayNode(data, parent)
                [] data.kind = "object" -> ObjectNode(data, parent)
                [] OTHER -> Node(data.kind, data.value, parent)
      with == Register(tree, data.id, node)
  IN  IF IsContainer(data.kind)
      THEN FoldLeft(LAMBDA t, e : Create(t, data.value[e], data.id), with,
                    SetToSeq(DOMAIN data.value))
      ELSE with

NewTree(data) == [Create(NoTree, data, 0) EXCEPT !.root = data.id]

\* ModelNode._detach
Unregister(tree, id) == [tree EXCEPT !.registered = @ \ {id}]

\* ContainerNode._detach: the children first.
RECURSIVE Detach(_, _)
DetachAll(tree, ids) == FoldLeft(Detach, tree, SetToSeq(ids))
DetachChildren(tree, id) ==
  LET node == tree.node[id]
  IN  DetachAll(IF node.kind = "array" THEN [tree EXCEPT !.node[id].at = [i \in {} |-> 0]]
                ELSE tree,
                Range(node.children))
Detach(tree, id) ==
  Unregister(IF IsContainer(tree.node[id].kind) THEN DetachChildren(tree, id) ELSE tree, id)

\* dataValue
RECURSIVE DataValue(_, _)
ArrayValue(tree, children) == [i \in DOMAIN children |-> DataValue(tree, children[i])]
ObjectValue(tree, children) == [prop \in DOMAIN children |-> DataValue(tree, children[prop])]
DataValue(tree, id) ==
  LET node == tree.node[id]
  IN  Data(id, node.kind,
           CASE node.kind = "array"  -> ArrayValue(tree, node.children)
             [] node.kind = "object" -> ObjectValue(tree, node.children)
             [] OTHER -> node.children)

\* path, by _pathCB of the containers
RECURSIVE Path(_, _)
Path(tree, id) ==
  IF id = tree.root THEN <<>>
  ELSE LET parent == tree.node[id].parent
       IN  Append(Path(tree, parent), tree.node[parent].at[id])

\* The child a container has at an element of a path: 0 for what is not there.
Child(tree, id, element) ==
  IF id # 0 /\ IsContainer(tree.node[id].kind) /\ element \in DOMAIN tree.node[id].children
  THEN tree.node[id].children[element] ELSE 0

ValueAt(tree, path) == FoldLeft(LAMBDA id, element : Child(tree, id, element), tree.root, path)

----------------------------------------------------------------------------
(* Arrays *)

\* _updateIdToPathElementMap
PlaceFrom(tree, id, start) ==
  LET children == tree.node[id].children
      moved    == {i \in DOMAIN children : i >= start}
  IN  [tree EXCEPT !.node[id].at =
         [c \in {children[i] : i \in moved} |-> CHOOSE i \in moved : children[i] = c] @@ @]

ApplyInsert(tree, id, index, data) ==
  PlaceFrom([Create(tree, data, id) EXCEPT !.node[id].children = InsertAt(@, index, data.id)],
            id, index)

ApplyRemove(tree, id, index) ==
  LET gone == Detach(tree, tree.node[id].children[index])
  IN  PlaceFrom([gone EXCEPT !.node[id].children = RemoveAt(@, index)], id, index)

ApplySet(tree, id, index, data) ==
  LET gone == Detach(tree, tree.node[id].children[index])
  IN  PlaceFrom([Create(gone, data, id) EXCEPT !.node[id].children[index] = data.id], id, index)

Moved(children, from, to) == InsertAt(RemoveAt(children, from), to, children[from])

\* Slip: an element moved back leaves those it passes where they were.
ReorderedFromSource(from, to) == from

ReorderedFrom(from, to) == IF from < to THEN from ELSE to

ApplyReorder(tree, id, from, to) ==
  PlaceFrom([tree EXCEPT !.node[id].children = Moved(@, from, to)], id,
            ReorderedFrom(from, to))

ApplySetValue(tree, id, values) ==
  LET gone == DetachChildren(tree, id)
      ids  == Ids(values)
      all  == FoldLeft(LAMBDA t, value : Create(t, value, id), gone, values)
  IN  [all EXCEPT !.node[id].children = ids,
                  !.node[id].at = [c \in Range(ids) |-> CHOOSE i \in DOMAIN ids : ids[i] = c]]

\* ArrayNode._handleModelOperationEvent
HandleArray(tree, op) ==
  CASE op.type = "ArrayInsert"  -> ApplyInsert(tree, op.id, op.index, op.value)
    [] op.type = "ArrayMove"    -> ApplyReorder(tree, op.id, op.from, op.to)
    [] op.type = "ArrayRemove"  -> ApplyRemove(tree, op.id, op.index)
    [] op.type = "ArrayReplace" -> ApplySet(tree, op.id, op.index, op.value)
    [] op.type = "ArraySet"     -> ApplySetValue(tree, op.id, op.all)

----------------------------------------------------------------------------
(* Objects *)

ApplySetProperty(tree, id, prop, data) ==
  LET children == tree.node[id].children
      gone     == IF prop \in DOMAIN children THEN Detach(tree, children[prop]) ELSE tree
  IN  Place([Create(gone, data, id) EXCEPT !.node[id].children = (prop :> data.id) @@ @],
            id, data.id, prop)

\* What is deleted from _idToPathElement is the key, which it is not indexed by.
ApplyRemoveProperty(tree, id, prop) ==
  LET children == tree.node[id].children
  IN  IF prop \notin DOMAIN children THEN tree
      ELSE [Detach(tree, children[prop]) EXCEPT
              !.node[id].children = [p \in DOMAIN children \ {prop} |-> children[p]]]

\* The elements it knew of stay in _idToPathElement.
ApplySetProperties(tree, id, values) ==
  LET gone  == DetachChildren(tree, id)
      props == SetToSeq(DOMAIN values)
      all   == FoldLeft(LAMBDA t, prop : Place(Create(t, values[prop], id), id, values[prop].id, prop),
                        gone, props)
  IN  [all EXCEPT !.node[id].children = [prop \in DOMAIN values |-> values[prop].id]]

\* ObjectNode._handleModelOperationEvent
HandleObject(tree, op) ==
  CASE op.type \in {"ObjectAddProperty", "ObjectSetProperty"} ->
         ApplySetProperty(tree, op.id, op.prop, op.value)
    [] op.type = "ObjectRemoveProperty" -> ApplyRemoveProperty(tree, op.id, op.prop)
    [] op.type = "ObjectSet" -> ApplySetProperties(tree, op.id, op.all)

----------------------------------------------------------------------------
(* Leaves *)

SetLeaf(tree, id, value) == [tree EXCEPT !.node[id].children = value]

ApplySplice(tree, id, index, deleteCount, inserted) ==
  LET text == tree.node[id].children
  IN  SetLeaf(tree, id, SubSeq(text, 1, index - 1) \o inserted
                          \o SubSeq(text, index + deleteCount, Len(text)))

\* StringNode._handleModelOperationEvent
HandleString(tree, op) ==
  CASE op.type = "StringSplice" ->
         ApplySplice(tree, op.id, op.index, op.deleteCount, op.inserted)
    [] op.type = "StringSet" -> SetLeaf(tree, op.id, op.all)

ApplyDelta(tree, id, delta) == SetLeaf(tree, id, tree.node[id].children + delta)

\* NumberNode._handleModelOperationEvent
HandleNumber(tree, op) ==
  CASE op.type = "NumberDelta" -> ApplyDelta(tree, op.id, op.delta)
    [] op.type = "NumberSet"   -> SetLeaf(tree, op.id, op.all)

HandleBoolean(tree, op) == CASE op.type = "BooleanSet" -> SetLeaf(tree, op.id, op.all)

HandleDate(tree, op) == CASE op.type = "DateSet" -> SetLeaf(tree, op.id, op.all)

\* Model.handleModelOperationEvent
HandleModelOperation(tree, op) ==
  IF op.id \notin tree.registered THEN tree
  ELSE LET kind == tree.node[op.id].kind
       IN  CASE kind = "array"   -> HandleArray(tree, op)
             [] kind = "object"  -> HandleObject(tree, op)
             [] kind = "string"  -> HandleString(tree, op)
             [] kind = "number"  -> HandleNumber(tree, op)
             [] kind = "boolean" -> HandleBoolean(tree, op)
             [] kind = "date"    -> HandleDate(tree, op)

----------------------------------------------------------------------------
(* Operations, as applied: they remember the value they took the place of *)

ArrayInsert(id, index, value) ==
  [type |-> "ArrayInsert", id |-> id, noOp |-> FALSE, index |-> index, value |-> value]

ArrayRemove(id, index, oldValue) ==
  [type |-> "ArrayRemove", id |-> id, noOp |-> FALSE, index |-> index, oldValue |-> oldValue]

ArrayReplace(id, index, value, oldValue) ==
  [type |-> "ArrayReplace", id |-> id, noOp |-> FALSE, index |-> index, value |-> value,
   oldValue |-> oldValue]

ArrayMove(id, from, to) ==
  [type |-> "ArrayMove", id |-> id, noOp |-> FALSE, from |-> from, to |-> to]

ObjectAddProperty(id, prop, value) ==
  [type |-> "ObjectAddProperty", id |-> id, noOp |-> FALSE, prop |-> prop, value |-> value]

ObjectSetProperty(id, prop, value, oldValue) ==
  [type |-> "ObjectSetProperty", id |-> id, noOp |-> FALSE, prop |-> prop, value |-> value,
   oldValue |-> oldValue]

ObjectRemoveProperty(id, prop, oldValue) ==
  [type |-> "ObjectRemoveProperty", id |-> id, noOp |-> FALSE, prop |-> prop,
   oldValue |-> oldValue]

StringSplice(id, index, deleted, inserted) ==
  [type |-> "StringSplice", id |-> id, noOp |-> FALSE, index |-> index,
   deleteCount |-> Len(deleted), deleted |-> deleted, inserted |-> inserted]

NumberDelta(id, delta) == [type |-> "NumberDelta", id |-> id, noOp |-> FALSE, delta |-> delta]

\* The operations that put a value in the place of all that is there.
SetAll(type, id, value, oldValue) ==
  [type |-> type, id |-> id, noOp |-> FALSE, all |-> value, oldAll |-> oldValue]

ArraySet(id, value, oldValue)   == SetAll("ArraySet", id, value, oldValue)
ObjectSet(id, value, oldValue)  == SetAll("ObjectSet", id, value, oldValue)
StringSet(id, value, oldValue)  == SetAll("StringSet", id, value, oldValue)
NumberSet(id, value, oldValue)  == SetAll("NumberSet", id, value, oldValue)
BooleanSet(id, value, oldValue) == SetAll("BooleanSet", id, value, oldValue)
DateSet(id, value, oldValue)    == SetAll("DateSet", id, value, oldValue)

\* inverse()
InverseOperation(op) ==
  CASE op.type = "ArrayInsert"  -> ArrayRemove(op.id, op.index, op.value)
    [] op.type = "ArrayRemove"  -> ArrayInsert(op.id, op.index, op.oldValue)
    [] op.type = "ArrayReplace" -> ArrayReplace(op.id, op.index, op.oldValue, op.value)
    [] op.type = "ArrayMove"    -> ArrayMove(op.id, op.to, op.from)
    [] op.type = "ObjectAddProperty"    -> ObjectRemoveProperty(op.id, op.prop, op.value)
    [] op.type = "ObjectRemoveProperty" -> ObjectAddProperty(op.id, op.prop, op.oldValue)
    [] op.type = "ObjectSetProperty" ->
         ObjectSetProperty(op.id, op.prop, op.oldValue, op.value)
    [] op.type = "StringSplice" -> StringSplice(op.id, op.index, op.inserted, op.deleted)
    [] op.type = "NumberDelta"  -> NumberDelta(op.id, 0 - op.delta)
    [] "all" \in DOMAIN op      -> SetAll(op.type, op.id, op.oldAll, op.all)

----------------------------------------------------------------------------
\* The ids of the nodes of a data value.
RECURSIVE IdsIn(_)
IdsIn(data) ==
  {data.id} \cup IF IsContainer(data.kind)
                 THEN UNION {IdsIn(data.value[e]) : e \in DOMAIN data.value} ELSE {}

\* The nodes registered are those of the data, and each one's path leads to it.
Sound(tree) ==
  /\ tree.registered = IdsIn(DataValue(tree, tree.root))
  /\ \A id \in tree.registered : ValueAt(tree, Path(tree, id)) = id
=============================================================================
