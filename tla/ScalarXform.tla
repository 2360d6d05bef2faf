---------------------------- MODULE ScalarXform ----------------------------
(***************************************************************************)
(* Operations on a RealTimeNumber, RealTimeBoolean and RealTimeDate, their *)
(* effect, and the functions of xform/number, xform/bool and xform/date.   *)
(***************************************************************************)
EXTENDS Integers, Operation

NumberDelta(id, delta) ==
  [type |-> "NumberDelta", id |-> id, noOp |-> FALSE, delta |-> delta]

\* NumberSet, BooleanSet and DateSet differ in the value's type only.
ValueSet(id, value) ==
  [type |-> "ValueSet", id |-> id, noOp |-> FALSE, value |-> value]

ScalarApply(data, op) ==
  CASE op.type = "NumberDelta" -> data + op.delta
    [] op.type = "ValueSet"    -> op.value

SetSetTransform(s, c) == IF s.value = c.value THEN BothVanish(s, c) ELSE ServerWins(s, c)

ScalarTransform(s, c) ==
  CASE s.type = "NumberDelta" /\ c.type = "NumberDelta" -> OperationPair(s, c)
    [] s.type = "NumberDelta" /\ c.type = "ValueSet"    -> ClientWins(s, c)
    [] s.type = "ValueSet"    /\ c.type = "NumberDelta" -> ServerWins(s, c)
    [] s.type = "ValueSet"    /\ c.type = "ValueSet"    -> SetSetTransform(s, c)
=============================================================================
