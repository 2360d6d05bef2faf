--------------------------- MODULE ReplicaExchange ---------------------------
(***************************************************************************)
(* What the transformation functions promise, as a small system: two       *)
(* replicas of one model, the server's and the client's, start equal, each *)
(* issues operations on its own copy, then they exchange them through the  *)
(* OperationTransformer.  Every run of operations the constants allow is   *)
(* tried, so the functions are exercised on each pair of operations, on    *)
(* what they return themselves, and on compound operations.                *)
(***************************************************************************)
EXTENDS ModelData, OperationTransformer, StringReferences

CONSTANTS
  InitialData,          \* the data a model may start with
  ServerOperations(_),  \* the discrete operations the server's side may issue on given data
  ClientOperations(_),  \* and the client's
  MaxServerOps, MaxClientOps

VARIABLES
  serverData, clientData,  \* the two replicas
  serverOps, clientOps,    \* the operations each has issued since they were equal
  exchanged

vars == <<serverData, clientData, serverOps, clientOps, exchanged>>

Init ==
  /\ serverData \in InitialData
  /\ clientData = serverData
  /\ serverOps = <<>> /\ clientOps = <<>>
  /\ exchanged = FALSE

ServerEdits ==
  /\ ~exchanged /\ clientOps = <<>> /\ Len(serverOps) < MaxServerOps
  /\ \E op \in ServerOperations(serverData) :
       /\ serverOps' = Append(serverOps, op)
       /\ serverData' = ApplyDiscrete(serverData, op)
  /\ UNCHANGED <<clientData, clientOps, exchanged>>

ClientEdits ==
  /\ ~exchanged /\ Len(clientOps) < MaxClientOps
  /\ \E op \in ClientOperations(clientData) :
       /\ clientOps' = Append(clientOps, op)
       /\ clientData' = ApplyDiscrete(clientData, op)
  /\ UNCHANGED <<serverData, serverOps, exchanged>>

Transformed == TransformOperations(serverOps, clientOps)

\* Each replica applies what the other issued, transformed over what it issued
\* itself.
Exchange ==
  /\ ~exchanged /\ serverOps # <<>> /\ clientOps # <<>>
  /\ serverData' = ApplyOperation(serverData, Transformed.clientOp)
  /\ clientData' = ApplyOperation(clientData, Transformed.serverOp)
  /\ exchanged' = TRUE
  /\ UNCHANGED <<serverOps, clientOps>>

Next == ServerEdits \/ ClientEdits \/ Exchange

Spec == Init /\ [][Next]_vars

----------------------------------------------------------------------------
(***************************************************************************)
(* The pairs of string operations the code transforms wrongly: a splice    *)
(* over an earlier splice (TransformSpliceSplice shifts by the wrong       *)
(* length), and a splice over a removal within it (TransformSpliceRemove   *)
(* empties the removal without cancelling it: at its old index, which may  *)
(* now lie beyond the string, and no later operation moves it).            *)
(***************************************************************************)
WronglyTransformed(s, c) ==
  /\ s.type = "StringSplice" /\ c.type = "StringSplice" /\ ~s.noOp /\ ~c.noOp /\ s.id = c.id
  /\ SpliceType(s) = "Splice"
  /\ \/ /\ SpliceType(c) = "Splice"
        /\ SpliceRelationship(s, c) = "PrecededBy" /\ Inserted(s) # Inserted(c)
     \/ /\ SpliceType(c) = "Remove"
        /\ SpliceRelationship(s, c) \in {"StartedBy", "FinishedBy", "Contains"}

\* Whether the exchange transforms such a pair, at its start or on its way.
MeetsWronglyTransformed ==
  \E i \in DOMAIN serverOps :
    LET before == TransformOperations(SubSeq(serverOps, 1, i - 1), clientOps).clientOp
    IN  \E j \in DOMAIN clientOps :
          LET passed == TransformClientCompoundOperation(serverOps[i], SubSeq(before, 1, j - 1))
          IN  WronglyTransformed(passed.serverOp, before[j])

\* RealTimeModel promises that co-modification conflicts are resolved "so that
\* everybody sees the same thing": the replicas end equal whatever was issued.
ReplicasConverge == exchanged => serverData = clientData

\* Every transformed operation still addresses something that exists where it is
\* applied: an index out of range would throw out of the message handler.
TransformedOperationsApply ==
  ~exchanged /\ serverOps # <<>> /\ clientOps # <<>> =>
    /\ AcceptsOperation(clientData, Transformed.serverOp)
    /\ AcceptsOperation(serverData, Transformed.clientOp)

\* Apart from those pairs, all of the functions converge...
ConvergeOtherwise == MeetsWronglyTransformed \/ ReplicasConverge

\* ... and yield operations that apply.
ApplyOtherwise == MeetsWronglyTransformed \/ TransformedOperationsApply

\* Whether a place that is transformed meets a splice after it, which makes it jump.
MeetsLaterSplice(place, id, operation) ==
  \E i \in DOMAIN operation :
    /\ ~operation[i].noOp /\ operation[i].type = "StringSplice" /\ operation[i].id = id
    /\ LET before == TransformReference(place, id, SubSeq(operation, 1, i - 1))
       IN  before # NoPlace /\ before < operation[i].index

(***************************************************************************)
(* A reference set on the server's side, to a place in the string as it is *)
(* there, is shown on the client at the same place as its owner sees it    *)
(* move: the client transforms it over what it has in flight               *)
(* (processRemoteReferenceSet), the owner's follows the events of those    *)
(* operations when they arrive.  Apart from places before a splice, which  *)
(* IndexTransformer.handleSplice moves, and for which the two differ.      *)
(***************************************************************************)
ReferencesAgree ==
  ~exchanged /\ serverOps # <<>> /\ clientOps # <<>> /\ "string" \in DOMAIN serverData =>
    \A place \in 0 .. Len(serverData.string) :
      LET inFlight == Transformed.clientOp
      IN  \/ MeetsLaterSplice(place, "string", inFlight)
          \/ TransformReference(place, "string", inFlight)
               = FollowOperation(place, "string", inFlight)
=============================================================================
