------------------------ MODULE MCModelCollaboration ------------------------
(***************************************************************************)
(* A few sessions at one short string.  They insert a character, their own *)
(* name, or remove one.                                                    *)
(***************************************************************************)
EXTENDS ModelCollaboration

CONSTANT InitialLength  \* the length of the string the sessions start with

Model == INSTANCE ModelData

MCTransform(s, c) == Model!StringTransform(s, c)
MCApply(data_, operation) == Model!ApplyOperation(data_, operation)

MCInitialData == [string |-> [i \in 1 .. InitialLength |-> i]]

MCLocalOperations(s, data_) ==
  LET length == Len(data_.string)
  IN  {Model!StringSplice("string", i, 0, <<s>>) : i \in 0 .. length}
      \cup {Model!StringSplice("string", i, 1, <<>>) : i \in 0 .. length - 1}
=============================================================================
