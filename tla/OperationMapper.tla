--------------------------- MODULE OperationMapper ---------------------------
(***************************************************************************)
(* How an operation is written for the server and for the offline store,   *)
(* and read again (OperationMapper, OfflineOperationMapper,                 *)
(* ModelMessageConverter).  Operations and data values are those of        *)
(* ModelTree.  A message names its case in "is"; its fields are optional,  *)
(* and its indices count from 0.                                           *)
(***************************************************************************)
EXTENDS Integers, Sequences

LOCAL INSTANCE SequencesExt
LOCAL INSTANCE Functions

----------------------------------------------------------------------------
(* ProtocolUtil *)

GetOrDefault(message, field, default) ==
  IF field \in DOMAIN message THEN message[field] ELSE default

NumberOf(message, field)  == GetOrDefault(message, field, 0)
BooleanOf(message, field) == GetOrDefault(message, field, FALSE)
StringOf(message, field)  == GetOrDefault(message, field, <<>>)
ArrayOf(message, field)   == GetOrDefault(message, field, <<>>)
ObjectOf(message, field)  == GetOrDefault(message, field, [prop \in {} |-> 0])

\* A date is a number of milliseconds.
DateToTimestamp(date) ==
  LET seconds == date \div 1000
  IN  [seconds |-> seconds, nanos |-> (date - seconds * 1000) * 1000000]

TimestampToDate(timestamp) ==
  NumberOf(timestamp, "seconds") * 1000 + (NumberOf(timestamp, "nanos") + 500000) \div 1000000

----------------------------------------------------------------------------
(* Data values *)

RECURSIVE ToIDataValue(_)
ToIDataValue(val) ==
  CASE val.kind = "array" ->
         [is |-> "arrayValue", id |-> val.id,
          children |-> [i \in DOMAIN val.value |-> ToIDataValue(val.value[i])]]
    [] val.kind = "object" ->
         [is |-> "objectValue", id |-> val.id,
          children |-> [prop \in DOMAIN val.value |-> ToIDataValue(val.value[prop])]]
    [] val.kind = "boolean" -> [is |-> "booleanValue", id |-> val.id, value |-> val.value]
    [] val.kind = "date" ->
         [is |-> "dateValue", id |-> val.id, value |-> DateToTimestamp(val.value)]
    [] val.kind = "number" -> [is |-> "doubleValue", id |-> val.id, value |-> val.value]
    [] val.kind = "null"   -> [is |-> "nullValue", id |-> val.id]
    [] val.kind = "string" -> [is |-> "stringValue", id |-> val.id, value |-> val.value]

DataRead(kind, id, value) == [id |-> id, kind |-> kind, value |-> value]

RECURSIVE ToDataValue(_)
ToDataValue(val) ==
  CASE val.is = "arrayValue" ->
         LET children == ArrayOf(val, "children")
         IN  DataRead("array", val.id, [i \in DOMAIN children |-> ToDataValue(children[i])])
    [] val.is = "objectValue" ->
         LET children == ObjectOf(val, "children")
         IN  DataRead("object", val.id, [prop \in DOMAIN children |-> ToDataValue(children[prop])])
    [] val.is = "booleanValue" -> DataRead("boolean", val.id, BooleanOf(val, "value"))
    [] val.is = "dateValue"    -> DataRead("date", val.id, TimestampToDate(val.value))
    [] val.is = "doubleValue"  -> DataRead("number", val.id, NumberOf(val, "value"))
    [] val.is = "stringValue"  -> DataRead("string", val.id, StringOf(val, "value"))
    [] val.is = "nullValue"    -> DataRead("null", val.id, 0)

----------------------------------------------------------------------------
(* Operations, to and from the server *)

Message(case, op, operands) == [is |-> case, id |-> op.id, noOp |-> op.noOp] @@ operands

ToIOperationData(op) ==
  CASE op.type = "ArrayInsert" ->
         Message("arrayInsertOperation", op,
                 [index |-> op.index - 1, value |-> ToIDataValue(op.value)])
    [] op.type = "ArrayRemove" ->
         Message("arrayRemoveOperation", op, [index |-> op.index - 1])
    [] op.type = "ArrayMove" ->
         Message("arrayMoveOperation", op, [fromIndex |-> op.from - 1, toIndex |-> op.to - 1])
    [] op.type = "ArrayReplace" ->
         Message("arrayReplaceOperation", op,
                 [index |-> op.index - 1, value |-> ToIDataValue(op.value)])
    [] op.type = "ArraySet" ->
         Message("arraySetOperation", op,
                 [values |-> [i \in DOMAIN op.all |-> ToIDataValue(op.all[i])]])
    [] op.type = "ObjectAddProperty" ->
         Message("objectAddPropertyOperation", op,
                 [key |-> op.prop, value |-> ToIDataValue(op.value)])
    [] op.type = "ObjectSetProperty" ->
         Message("objectSetPropertyOperation", op,
                 [key |-> op.prop, value |-> ToIDataValue(op.value)])
    [] op.type = "ObjectRemoveProperty" ->
         Message("objectRemovePropertyOperation", op, [key |-> op.prop])
    [] op.type = "ObjectSet" ->
         Message("objectSetOperation", op,
                 [values |-> [prop \in DOMAIN op.all |-> ToIDataValue(op.all[prop])]])
    [] op.type = "StringSplice" ->
         Message("stringSpliceOperation", op,
                 [index |-> op.index - 1, deleteCount |-> op.deleteCount,
                  insertedValue |-> op.inserted])
    [] op.type = "StringSet"   -> Message("stringSetOperation", op, [value |-> op.all])
    [] op.type = "NumberDelta" -> Message("numberDeltaOperation", op, [delta |-> op.delta])
    [] op.type = "NumberSet"   -> Message("numberSetOperation", op, [value |-> op.all])
    [] op.type = "BooleanSet"  -> Message("booleanSetOperation", op, [value |-> op.all])
    [] op.type = "DateSet"     ->
         Message("dateSetOperation", op, [value |-> DateToTimestamp(op.all)])

\* The operation with its operands, which are all there.
Read(type, message, operands) ==
  [type |-> type, id |-> message.id, noOp |-> BooleanOf(message, "noOp")] @@ operands

IndexOf(message, field) == NumberOf(message, field) + 1

ToOperation(data) ==
  CASE data.is = "arrayInsertOperation" ->
         Read("ArrayInsert", data,
              [index |-> IndexOf(data, "index"), value |-> ToDataValue(data.value)])
    [] data.is = "arrayRemoveOperation" ->
         Read("ArrayRemove", data, [index |-> IndexOf(data, "index")])
    [] data.is = "arrayMoveOperation" ->
         Read("ArrayMove", data,
              [from |-> IndexOf(data, "fromIndex"), to |-> IndexOf(data, "toIndex")])
    [] data.is = "arrayReplaceOperation" ->
         Read("ArrayReplace", data,
              [index |-> IndexOf(data, "index"), value |-> ToDataValue(data.value)])
    [] data.is = "arraySetOperation" ->
         LET values == ArrayOf(data, "values")
         IN  Read("ArraySet", data, [all |-> [i \in DOMAIN values |-> ToDataValue(values[i])]])
    [] data.is = "objectAddPropertyOperation" ->
         Read("ObjectAddProperty", data, [prop |-> data.key, value |-> ToDataValue(data.value)])
    [] data.is = "objectSetPropertyOperation" ->
         Read("ObjectSetProperty", data, [prop |-> data.key, value |-> ToDataValue(data.value)])
    [] data.is = "objectRemovePropertyOperation" ->
         Read("ObjectRemoveProperty", data, [prop |-> data.key])
    [] data.is = "objectSetOperation" ->
         LET values == ObjectOf(data, "values")
         IN  Read("ObjectSet", data,
                  [all |-> [prop \in DOMAIN values |-> ToDataValue(values[prop])]])
    [] data.is = "stringSpliceOperation" ->
         Read("StringSplice", data,
              [index |-> IndexOf(data, "index"), deleteCount |-> NumberOf(data, "deleteCount"),
               inserted |-> StringOf(data, "insertedValue")])
    [] data.is = "stringSetOperation" ->
         Read("StringSet", data, [all |-> StringOf(data, "value")])
    [] data.is = "numberDeltaOperation" ->
         Read("NumberDelta", data, [delta |-> NumberOf(data, "delta")])
    [] data.is = "numberSetOperation" ->
         Read("NumberSet", data, [all |-> NumberOf(data, "value")])
    [] data.is = "booleanSetOperation" ->
         Read("BooleanSet", data, [all |-> BooleanOf(data, "value")])
    [] data.is = "dateSetOperation" ->
         Read("DateSet", data, [all |-> TimestampToDate(data.value)])

----------------------------------------------------------------------------
(* External: a field that holds its type's default is not sent on *)

EmptyFields == {"insertedValue", "values", "children"}
ZeroFields  == {"index", "fromIndex", "toIndex", "deleteCount", "delta", "seconds", "nanos"}

IsDefault(message, field) ==
  LET held == message[field]
  IN  \/ field \in EmptyFields /\ DOMAIN held = {}
      \/ field \in ZeroFields /\ held = 0
      \/ field = "noOp" /\ ~held
      \/ /\ field = "value"
         /\ \/ message.is \in {"numberSetOperation", "doubleValue"} /\ held = 0
            \/ message.is \in {"booleanSetOperation", "booleanValue"} /\ ~held
            \/ message.is \in {"stringSetOperation", "stringValue"} /\ held = <<>>

\* What is inside is encoded likewise: a value, the values of a container, a timestamp.
RECURSIVE Encoded(_)
Encoded(message) ==
  LET Inner(field) ==
        CASE field \in {"values", "children"} ->
               [i \in DOMAIN message[field] |-> Encoded(message[field][i])]
          [] field = "value" /\ message.is \in
               {"arrayInsertOperation", "arrayReplaceOperation", "objectAddPropertyOperation",
                "objectSetPropertyOperation", "dateSetOperation", "dateValue"} ->
               Encoded(message.value)
          [] OTHER -> message[field]
  IN  [field \in {f \in DOMAIN message : ~IsDefault(message, f)} |-> Inner(field)]

----------------------------------------------------------------------------
(* Operations, to and from the offline store; data values are stored as they are *)

Stored(type, op, operands) == [type |-> type, id |-> op.id, noOp |-> op.noOp] @@ operands

ArrayInsertData(op)  == Stored("array_insert", op, [index |-> op.index, value |-> op.value])
ArrayReplaceData(op) == Stored("array_replace", op, [index |-> op.index, value |-> op.value])
ArrayRemoveData(op)  == Stored("array_remove", op, [index |-> op.index])
ArrayMoveData(op)    == Stored("array_move", op, [fromIndex |-> op.from, toIndex |-> op.to])
ArraySetData(op)     == Stored("array_set", op, [value |-> op.all])

ObjectAddPropertyData(op) ==
  Stored("object_add_property", op, [key |-> op.prop, value |-> op.value])
ObjectSetPropertyData(op) ==
  Stored("object_set_property", op, [key |-> op.prop, value |-> op.value])
ObjectRemovePropertyData(op) == Stored("object_remove_property", op, [key |-> op.prop])
ObjectSetData(op)            == Stored("object_set", op, [value |-> op.all])

StringSpliceData(op) ==
  Stored("string_splice", op,
         [index |-> op.index, deleteCount |-> op.deleteCount, insertedValue |-> op.inserted])
StringSetData(op)   == Stored("string_set", op, [value |-> op.all])
NumberDeltaData(op) == Stored("number_delta", op, [value |-> op.delta])
NumberSetData(op)   == Stored("number_set", op, [value |-> op.all])
BooleanSetData(op)  == Stored("boolean_set", op, [value |-> op.all])
DateSetData(op)     == Stored("date_set", op, [value |-> op.all])

ToOfflineOperationData(op) ==
  CASE op.type = "ArrayInsert"          -> ArrayInsertData(op)
    [] op.type = "ArrayReplace"         -> ArrayReplaceData(op)
    [] op.type = "ArrayRemove"          -> ArrayRemoveData(op)
    [] op.type = "ArrayMove"            -> ArrayMoveData(op)
    [] op.type = "ArraySet"             -> ArraySetData(op)
    [] op.type = "ObjectAddProperty"    -> ObjectAddPropertyData(op)
    [] op.type = "ObjectSetProperty"    -> ObjectSetPropertyData(op)
    [] op.type = "ObjectRemoveProperty" -> ObjectRemovePropertyData(op)
    [] op.type = "ObjectSet"            -> ObjectSetData(op)
    [] op.type = "StringSplice"         -> StringSpliceData(op)
    [] op.type = "StringSet"            -> StringSetData(op)
    [] op.type = "NumberDelta"          -> NumberDeltaData(op)
    [] op.type = "NumberSet"            -> NumberSetData(op)
    [] op.type = "BooleanSet"           -> BooleanSetData(op)
    [] op.type = "DateSet"              -> DateSetData(op)

FromOfflineOperationData(op) ==
  CASE op.type = "array_insert" ->
         Stored("ArrayInsert", op, [index |-> op.index, value |-> op.value])
    [] op.type = "array_remove" -> Stored("ArrayRemove", op, [index |-> op.index])
    [] op.type = "array_replace" ->
         Stored("ArrayReplace", op, [index |-> op.index, value |-> op.value])
    [] op.type = "array_move" ->
         Stored("ArrayMove", op, [from |-> op.fromIndex, to |-> op.toIndex])
    [] op.type = "array_set" -> Stored("ArraySet", op, [all |-> op.value])
    [] op.type = "object_add_property" ->
         Stored("ObjectAddProperty", op, [prop |-> op.key, value |-> op.value])
    [] op.type = "object_set_property" ->
         Stored("ObjectSetProperty", op, [prop |-> op.key, value |-> op.value])
    [] op.type = "object_remove_property" ->
         Stored("ObjectRemoveProperty", op, [prop |-> op.key])
    [] op.type = "object_set" -> Stored("ObjectSet", op, [all |-> op.value])
    [] op.type = "string_splice" ->
         Stored("StringSplice", op, [index |-> op.index, deleteCount |-> op.deleteCount,
                                     inserted |-> op.insertedValue])
    [] op.type = "string_set"   -> Stored("StringSet", op, [all |-> op.value])
    [] op.type = "number_delta" -> Stored("NumberDelta", op, [delta |-> op.value])
    [] op.type = "number_set"   -> Stored("NumberSet", op, [all |-> op.value])
    [] op.type = "boolean_set"  -> Stored("BooleanSet", op, [all |-> op.value])
    [] op.type = "date_set"     -> Stored("DateSet", op, [all |-> op.value])
=============================================================================
