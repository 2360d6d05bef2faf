--------------------------- MODULE RealTimeElements ---------------------------
(***************************************************************************)
(* The methods by which the application edits a model's elements           *)
(* (RealTimeArray, RealTimeObject, RealTimeString, ...), each of which     *)
(* changes the tree at once and then, from the event the change emits,     *)
(* makes the operation that is sent.  With emitLocalEvents the             *)
(* application hears the same event before, and may edit within it.  The   *)
(* operations reach another client, one by one, over the wire; its         *)
(* application keeps a copy of the data by the events it hears.            *)
(*                                                                         *)
(* The user may write; nobody else edits.                                  *)
(***************************************************************************)
EXTENDS ModelTree, NodeEvents, OperationMapper

LOCAL INSTANCE SequencesExt
LOCAL INSTANCE Functions

CONSTANT MaxEdits   \* bound: the operations sent

VARIABLES
  tree,       \* the model's nodes
  sent,       \* history: the operations, as sent
  peerTree,   \* the other client's nodes
  received,   \* how many operations it has received
  copy,       \* what a listener of its root has by the events alone
  clashed     \* history: an element was edited within an event of its own

vars == <<tree, sent, peerTree, received, copy, clashed>>

----------------------------------------------------------------------------
(* What the application passes *)

Plain(kind, value) == [kind |-> kind, value |-> value]

Undefined == Plain("undefined", 0)

Values ==
  <<Plain("date", 0 - 1500),
    Plain("array", <<Undefined, Plain("number", 0)>>),
    Plain("object", [p |-> Plain("null", 0), u |-> Undefined])>>

\* DataValueFactory.createDataValue, with the options that turn what is undefined into null
\* in an array and leave it out of an object.  The ids are unique: the n-th edit's are n and
\* those that n begins.
RECURSIVE CreateDataValue(_, _)
CreateDataValue(plain, id) ==
  CASE plain.kind = "array" ->
         Data(id, "array", [i \in DOMAIN plain.value |-> CreateDataValue(plain.value[i], 10 * id + i)])
    [] plain.kind = "object" ->
         LET props == {prop \in DOMAIN plain.value : plain.value[prop] # Undefined}
             order == SetToSeq(props)
         IN  Data(id, "object",
               [prop \in props |->
                  CreateDataValue(plain.value[prop],
                                  10 * id + CHOOSE i \in DOMAIN order : order[i] = prop)])
    [] plain.kind = "undefined" -> Data(id, "null", 0)
    [] OTHER -> Data(id, plain.kind, plain.value)

InitialData ==
  Data(1, "object",
    [k |-> Data(11, "array", <<Data(12, "string", <<"x", "y">>), Data(13, "number", 1)>>),
     b |-> Data(14, "boolean", TRUE)])

----------------------------------------------------------------------------
(* Calls: what they change, and the event that tells of it *)

\* A call of method on the element with the id; what it does not pass is 0 or "".
Call(method, id) ==
  [method |-> method, id |-> id, index |-> 0, to |-> 0, key |-> "", value |-> 0]

ArrayCalls(id, length) ==
  {[Call("insert", id) EXCEPT !.index = i, !.value = v] : i \in 1 .. length + 1, v \in DOMAIN Values}
    \cup {[Call("set", id) EXCEPT !.index = i, !.value = v] : i \in 1 .. length, v \in DOMAIN Values}
    \cup {[Call("remove", id) EXCEPT !.index = i] : i \in 1 .. length}
    \cup {[Call("reorder", id) EXCEPT !.index = i, !.to = j] : i, j \in 1 .. length}
    \cup {[Call(method, id) EXCEPT !.value = v] : method \in {"push", "unshift"}, v \in DOMAIN Values}
    \cup {Call(method, id) : method \in IF length = 0 THEN {} ELSE {"pop", "shift"}}
    \cup {Call("value", id)}

ObjectCalls(id) ==
  {[Call("set", id) EXCEPT !.key = k, !.value = v] : k \in {"k", "q"}, v \in DOMAIN Values}
    \cup {[Call("remove", id) EXCEPT !.key = k] : k \in {"k", "q"}}
    \cup {Call("value", id)}

StringCalls(id, length) ==
  {[Call("insert", id) EXCEPT !.index = i, !.value = 1] : i \in 1 .. length + 1}
    \cup {[Call("remove", id) EXCEPT !.index = i, !.to = n] : i, n \in 1 .. length}
    \cup {[Call("splice", id) EXCEPT !.index = 1, !.to = n, !.value = v] :
            n \in 0 .. length, v \in {0, 1}}
    \cup {Call("value", id)}

NumberCalls(id) == {Call(m, id) : m \in {"add", "subtract", "increment", "decrement", "value"}}

\* The calls that an attached element accepts: _assertWritable, _validateIndex.
Calls(t, id) ==
  LET node == t.node[id]
      own  == CASE node.kind = "array"  -> ArrayCalls(id, Len(node.children))
                [] node.kind = "object" -> ObjectCalls(id)
                [] node.kind = "string" ->
                     {c \in StringCalls(id, Len(node.children)) :
                        c.method = "remove" => c.index + c.to - 1 <= Len(node.children)}
                [] node.kind = "number" -> NumberCalls(id)
                [] node.kind \in {"boolean", "date"} -> {Call("value", id)}
                [] OTHER -> {}
  IN  own \cup IF id = t.root THEN {} ELSE {Call("removeFromParent", id)}

\* The change a method makes, as the operation that would make it; n numbers the edit.
Edit(type, id, operands) == [type |-> type, id |-> id, noOp |-> FALSE] @@ operands

Insert(id, index, plain, n) ==
  Edit("ArrayInsert", id, [index |-> index, value |-> CreateDataValue(plain, n)])

RemoveElement(id, index) == Edit("ArrayRemove", id, [index |-> index])

ArrayEdit(children, c, n) ==
  CASE c.method = "insert"  -> Insert(c.id, c.index, Values[c.value], n)
    [] c.method = "push"    -> Insert(c.id, Len(children) + 1, Values[c.value], n)
    [] c.method = "unshift" -> Insert(c.id, 1, Values[c.value], n)
    [] c.method = "set"     ->
         Edit("ArrayReplace", c.id,
              [index |-> c.index, value |-> CreateDataValue(Values[c.value], n)])
    [] c.method = "remove"  -> RemoveElement(c.id, c.index)
    [] c.method = "pop"     -> RemoveElement(c.id, Len(children))
    [] c.method = "shift"   -> RemoveElement(c.id, 1)
    [] c.method = "reorder" -> Edit("ArrayMove", c.id, [from |-> c.index, to |-> c.to])
    [] c.method = "value"   ->
         Edit("ArraySet", c.id,
              [all |-> [i \in DOMAIN Values |-> CreateDataValue(Values[i], 10 * n + i)]])

RemoveProperty(id, prop) == Edit("ObjectRemoveProperty", id, [prop |-> prop])

SetType(children, key) ==
  IF key \in DOMAIN children THEN "ObjectSetProperty" ELSE "ObjectAddProperty"

ObjectEdit(children, c, n) ==
  CASE c.method = "set"    ->
         Edit(SetType(children, c.key), c.id,
              [prop |-> c.key, value |-> CreateDataValue(Values[c.value], n)])
    [] c.method = "remove" -> RemoveProperty(c.id, c.key)
    [] c.method = "value"  ->
         Edit("ObjectSet", c.id, [all |-> [q |-> CreateDataValue(Values[3], 10 * n)]])

Splice(id, index, deleteCount, inserted) ==
  Edit("StringSplice", id, [index |-> index, deleteCount |-> deleteCount, inserted |-> inserted])

StringEdit(c) ==
  LET text == IF c.value = 0 THEN <<>> ELSE <<"z">>
  IN  CASE c.method = "insert" -> Splice(c.id, c.index, 0, text)
        [] c.method = "remove" -> Splice(c.id, c.index, c.to, <<>>)
        [] c.method = "splice" -> Splice(c.id, c.index, c.to, text)
        [] c.method = "value"  -> Edit("StringSet", c.id, [all |-> <<>>])

Add(id, value) == Edit("NumberDelta", id, [delta |-> value])

NumberEdit(c) ==
  CASE c.method = "add"       -> Add(c.id, 0)
    [] c.method = "subtract"  -> Add(c.id, 0 - 2)
    [] c.method = "increment" -> Add(c.id, 1)
    [] c.method = "decrement" -> Add(c.id, 0 - 1)
    [] c.method = "value"     -> Edit("NumberSet", c.id, [all |-> 0])

\* The parent is the element at the path without its last element.
RemoveFromParent(t, id) ==
  LET path   == Path(t, id)
      parent == ValueAt(t, Front(path))
  IN  IF t.node[parent].kind = "array" THEN RemoveElement(parent, Last(path))
      ELSE RemoveProperty(parent, Last(path))

EditOf(t, c, n) ==
  LET node == t.node[c.id]
  IN  CASE c.method = "removeFromParent" -> RemoveFromParent(t, c.id)
        [] node.kind = "array"   -> ArrayEdit(node.children, c, n)
        [] node.kind = "object"  -> ObjectEdit(node.children, c, n)
        [] node.kind = "string"  -> StringEdit(c)
        [] node.kind = "number"  -> NumberEdit(c)
        [] node.kind = "boolean" -> Edit("BooleanSet", c.id, [all |-> FALSE])
        [] node.kind = "date"    -> Edit("DateSet", c.id, [all |-> 0])

\* Whether the node emits an event of the change; if not there is no operation.
Emits(t, edit) ==
  CASE edit.type = "StringSplice" -> edit.deleteCount > 0 \/ edit.inserted # <<>>
    [] edit.type = "NumberDelta"  -> edit.delta # 0
    [] edit.type = "ObjectRemoveProperty" -> edit.prop \in DOMAIN t.node[edit.id].children
    [] OTHER -> TRUE

\* Slip: the operation has the value that was passed.
OperationAsPassed(t, edit) == edit

\* The operation made from the event, of what is there when it is made: for an array what is
\* at the index, for an object the child it has been given.
OperationFor(t, edit) ==
  CASE edit.type \in {"ArrayInsert", "ArrayReplace"} ->
         [edit EXCEPT !.value = DataValue(t, t.node[edit.id].children[edit.index])]
    [] edit.type \in {"ObjectAddProperty", "ObjectSetProperty"} ->
         [edit EXCEPT !.value = DataValue(t, edit.value.id)]
    [] edit.type \in {"ArraySet", "ObjectSet"} ->
         [edit EXCEPT !.all = DataValue(t, edit.id).value]
    [] OTHER -> edit

\* There is nothing at the index any more: making the operation throws.
Lost(t, edit) ==
  edit.type \in {"ArrayInsert", "ArrayReplace"} /\ edit.index > Len(t.node[edit.id].children)

----------------------------------------------------------------------------
(* Steps *)

\* A call of the application, with nothing done in the event.
Do(c) ==
  LET edit == EditOf(tree, c, Len(sent) + 2)
  IN  /\ Len(sent) < MaxEdits /\ ~clashed
      /\ Emits(tree, edit)
      /\ tree' = HandleModelOperation(tree, edit)
      /\ sent' = Append(sent, OperationFor(tree', edit))
      /\ UNCHANGED <<peerTree, received, copy, clashed>>

\* A call, with another in the event it emits: the operation of that one is sent first.
DoWithin(c) ==
  LET edit  == EditOf(tree, c, Len(sent) + 2)
      after == HandleModelOperation(tree, edit)
  IN  /\ Len(sent) + 2 <= MaxEdits /\ ~clashed
      /\ Emits(tree, edit)
      /\ \E id \in after.registered : \E d \in Calls(after, id) :
           LET nested == EditOf(after, d, Len(sent) + 3)
           IN  /\ Emits(after, nested)
               /\ tree' = HandleModelOperation(after, nested)
               /\ sent' = sent \o <<OperationFor(tree', nested)>>
                            \o (IF Lost(tree', edit) THEN <<>> ELSE <<OperationFor(tree', edit)>>)
               /\ clashed' = (nested.id = edit.id)
      /\ UNCHANGED <<peerTree, received, copy>>

\* The other client reads the operation off the wire and applies it.  What becomes of
\* operations in the wrong order is left open.
Receive ==
  /\ ~clashed
  /\ received < Len(sent)
  /\ LET operation == ToOperation(Encoded(ToIOperationData(sent[received + 1])))
     IN  /\ peerTree' = HandleModelOperation(peerTree, operation)
         /\ copy' = Copied(copy, peerTree, peerTree', operation)
  /\ received' = received + 1
  /\ UNCHANGED <<tree, sent, clashed>>

----------------------------------------------------------------------------
Init ==
  /\ tree = NewTree(InitialData) /\ peerTree = NewTree(InitialData)
  /\ copy = CopyOf(InitialData)
  /\ sent = <<>> /\ received = 0
  /\ clashed = FALSE

Next ==
  \/ \E id \in tree.registered : \E c \in Calls(tree, id) : Do(c) \/ DoWithin(c)
  \/ Receive

Spec == Init /\ [][Next]_vars

----------------------------------------------------------------------------
\* The model opened from the store: its data and the operations stored with it.
Rehydrated ==
  FoldLeft(LAMBDA t, op : HandleModelOperation(t, FromOfflineOperationData(ToOfflineOperationData(op))),
           NewTree(InitialData), sent)

(***************************************************************************)
(* Whatever the application calls, in whatever order and within whatever   *)
(* event, the operations made of it rebuild its data: at another client    *)
(* that reads them off the wire, and from the offline store                *)
(* (RealTimeElement._sendOperation, OperationMapper,                       *)
(* OfflineOperationMapper).  Except where an element is edited within an   *)
(* event of its own: its operations are then sent in the wrong order.      *)
(***************************************************************************)
MirrorsEdits ==
  ~clashed /\ received = Len(sent) =>
    LET data == DataValue(tree, tree.root)
    IN  /\ DataValue(peerTree, peerTree.root) = data
        /\ Sound(peerTree)
        /\ DataValue(Rehydrated, Rehydrated.root) = data

(***************************************************************************)
(* The events of a model tell all there is to tell: an application that    *)
(* listens to the root alone, and changes its copy of the data as each     *)
(* event says, at the path it gives, always has the model's data           *)
(* (ModelEventConverter, ContainerNode._nodeChangedHandler).               *)
(***************************************************************************)
EventsTellChanges == copy = CopyOf(DataValue(peerTree, peerTree.root))
===============================================================================
