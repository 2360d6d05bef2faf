-------------------------- MODULE MCReplicaExchange --------------------------
(***************************************************************************)
(* Every pair of short runs of operations on one small string, array,      *)
(* object or number.  Values a replica inserts are its own, so that an     *)
(* element cannot be taken for another.                                    *)
(***************************************************************************)
EXTENDS ReplicaExchange, TLC

CONSTANTS
  StringLength, ArrayLength,  \* the longest initial string and array
  ServerTextLengths,          \* how many characters the server's side may insert at once
  ClientTextLengths,          \* and the client's
  Families                    \* the families of values tried

\* The text <<x, x, ...>> of n characters.
Text(x, n) == [i \in 1 .. n |-> x]

Initial(family) ==
  CASE family = "String" -> {[string |-> [i \in 1 .. n |-> i]] : n \in 0 .. StringLength}
    [] family = "Array"  -> {[array |-> [i \in 1 .. n |-> i]] : n \in 0 .. ArrayLength}
    [] family = "Object" -> {[object |-> o] : o \in [{"p", "q"} -> {0}] \cup [{"p"} -> {0}]}
    [] family = "Scalar" -> {[number |-> 0]}
    [] family = "Two"    -> {[string |-> <<1>>, number |-> 0]}

MCInitialData == UNION {Initial(family) : family \in Families}

\* A splice that changes nothing emits no event and is never sent.
StringOps(x, lengths, str) ==
  {op \in {StringSplice("string", i, d, Text(x, n)) :
              i \in 0 .. Len(str), d \in 0 .. Len(str), n \in lengths \cup {0}} :
     StringAccepts(str, op) /\ SpliceType(op) # "NoOp"}
  \cup {StringSet("string", <<x>>)}

ArrayOps(x, array) ==
  LET existing == 0 .. Len(array) - 1
  IN  {ArrayInsert("array", i, x) : i \in 0 .. Len(array)}
      \cup {ArrayRemove("array", i) : i \in existing}
      \cup {ArrayReplace("array", i, x) : i \in existing}
      \cup {ArrayMove("array", i, j) : i \in existing, j \in existing}
      \cup {ArraySet("array", <<x>>)}

\* ObjectNode.set: an add when the property is absent, a set when it is there.
ObjectOps(x, obj) ==
  {IF p \in DOMAIN obj THEN ObjectSetProperty("object", p, x)
   ELSE ObjectAddProperty("object", p, x) : p \in {"p", "q"}}
  \cup {ObjectRemoveProperty("object", p) : p \in DOMAIN obj}
  \cup {ObjectSet("object", "p" :> x)}

ScalarOps(n) == {NumberDelta("number", n), ValueSet("number", n), ValueSet("number", 7)}

Operations(x, n, lengths, data) ==
  (IF "string" \in DOMAIN data THEN StringOps(x, lengths, data.string) ELSE {})
  \cup (IF "array" \in DOMAIN data THEN ArrayOps(x, data.array) ELSE {})
  \cup (IF "object" \in DOMAIN data THEN ObjectOps(x, data.object) ELSE {})
  \cup (IF "number" \in DOMAIN data THEN ScalarOps(n) ELSE {})

MCServerOperations(data) == Operations(10, 3, ServerTextLengths, data)
MCClientOperations(data) == Operations(20, 5, ClientTextLengths, data)
=============================================================================
