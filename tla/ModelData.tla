----------------------------- MODULE ModelData -----------------------------
(***************************************************************************)
(* The data of a model: a function from the ids of its values to their     *)
(* contents, what a discrete operation does to it, and the registry of     *)
(* transformation functions.                                               *)
(***************************************************************************)
EXTENDS Integers, Sequences, StringXform, ArrayXform, ObjectXform, ScalarXform

Family(op) ==
  CASE op.type \in {"StringSplice", "StringSet"} -> "String"
    [] op.type \in {"ArrayInsert", "ArrayRemove", "ArrayReplace", "ArrayMove", "ArraySet"} ->
         "Array"
    [] op.type \in {"ObjectAddProperty", "ObjectSetProperty", "ObjectRemoveProperty",
                    "ObjectSet"} -> "Object"
    [] op.type \in {"NumberDelta", "ValueSet"} -> "Scalar"

\* TransformationFunctionRegistry.  Both operations are on the same value, so of
\* one family.
RegistryTransform(s, c) ==
  CASE Family(s) = "String" -> StringTransform(s, c)
    [] Family(s) = "Array"  -> ArrayTransform(s, c)
    [] Family(s) = "Object" -> ObjectTransform(s, c)
    [] Family(s) = "Scalar" -> ScalarTransform(s, c)

\* Whether applying the operation throws nothing.
Accepts(data, op) ==
  CASE Family(op) = "String" -> StringAccepts(data[op.id], op)
    [] Family(op) = "Array"  -> ArrayAccepts(data[op.id], op)
    [] OTHER -> TRUE

ApplyToValue(content, op) ==
  CASE Family(op) = "String" -> StringApply(content, op)
    [] Family(op) = "Array"  -> ArrayApply(content, op)
    [] Family(op) = "Object" -> ObjectApply(content, op)
    [] Family(op) = "Scalar" -> ScalarApply(content, op)

\* RealTimeModel._applyDiscreteOperation and Model.handleModelOperationEvent:
\* a cancelled operation and one on a value that is gone are skipped.
Skipped(data, op) == op.noOp \/ op.id \notin DOMAIN data

ApplyDiscrete(data, op) ==
  IF Skipped(data, op) THEN data ELSE [data EXCEPT ![op.id] = ApplyToValue(@, op)]

\* RealTimeModel._applyOperation: the discrete operations in order, up to the first
\* whose value rejects it and throws, if any.
ApplyOperation(data, operation) ==
  LET done[i \in 0 .. Len(operation)] ==
        IF i = 0 THEN [data |-> data, thrown |-> FALSE]
        ELSE LET before == done[i - 1]
                 op == operation[i]
             IN  IF before.thrown \/ ~(Skipped(before.data, op) \/ Accepts(before.data, op))
                 THEN [data |-> before.data, thrown |-> TRUE]
                 ELSE [data |-> ApplyDiscrete(before.data, op), thrown |-> FALSE]
  IN  done[Len(operation)].data

\* Whether every discrete operation, in order, finds its index in range.
AcceptsOperation(data, operation) ==
  \A i \in DOMAIN operation :
    LET before == ApplyOperation(data, SubSeq(operation, 1, i - 1))
    IN  operation[i].noOp \/ Accepts(before, operation[i])
=============================================================================
