--------------------------- MODULE HistoricalModel ---------------------------
(***************************************************************************)
(* A model is edited, by operations and batches of them; then its history  *)
(* is opened and played back and forth.  Each play asks the server for the *)
(* operations in between; replies are played in the order they were asked  *)
(* for, whichever comes first.                                             *)
(*                                                                         *)
(* The tree is that of the open model, and then that of its history.       *)
(***************************************************************************)
EXTENDS ModelTree

LOCAL INSTANCE SequencesExt

CONSTANTS
  MaxEdits,   \* bound: the discrete operations of the model
  MaxPlays    \* bound: the requests for operations

VARIABLES
  tree,
  log,        \* external: log[v] takes the model from version v to v + 1
  contents,   \* history: the data at each version
  opened,     \* whether there is a HistoricalModel
  version, target,
  opRequests, \* _opRequests
  plays       \* history: how many requests there were

vars == <<tree, log, contents, opened, version, target, opRequests, plays>>

----------------------------------------------------------------------------
(* Editing *)

InitialData ==
  Data(1, "object",
    [k |-> Data(2, "array", <<Data(3, "string", <<"x">>), Data(4, "number", 0)>>)])

Edits == FoldLeft(LAMBDA n, ops : n + Len(ops), 0, log)

FreshId == 10 * (Edits + 1)

Leaf == Data(FreshId, "boolean", TRUE)

Nested == Data(FreshId + 1, "object", [p |-> Data(FreshId + 2, "date", 3)])

Removed(id, element) == DataValue(tree, tree.node[id].children[element])

Values(id) == DataValue(tree, id).value

ArrayEdits(id) ==
  LET indices == DOMAIN tree.node[id].children
  IN  {ArrayInsert(id, i, Nested) : i \in {1, Len(tree.node[id].children) + 1}}
        \cup {ArrayRemove(id, i, Removed(id, i)) : i \in indices}
        \cup {ArrayReplace(id, i, Leaf, Removed(id, i)) : i \in indices}
        \cup {ArrayMove(id, m[1], m[2]) : m \in {n \in indices \X indices : n[1] # n[2]}}
        \cup {ArraySet(id, <<Leaf>>, Values(id))}

ObjectEdits(id) ==
  LET props == DOMAIN tree.node[id].children
  IN  {ObjectAddProperty(id, p, Leaf) : p \in {"q"} \ props}
        \cup {ObjectSetProperty(id, p, Leaf, Removed(id, p)) : p \in props}
        \cup {ObjectRemoveProperty(id, p, Removed(id, p)) : p \in props}
        \cup {ObjectSet(id, [p |-> Leaf], Values(id))}

LeafEdits(id) ==
  LET held == tree.node[id].children
  IN  CASE tree.node[id].kind = "string" ->
             {StringSplice(id, 1, held, <<"y">>), StringSet(id, <<"z">>, held)}
        [] tree.node[id].kind = "number" ->
             {NumberDelta(id, 1), [NumberDelta(id, 1) EXCEPT !.noOp = TRUE],
              NumberSet(id, 5, held)}
        [] tree.node[id].kind = "boolean" -> {BooleanSet(id, FALSE, held)}
        [] tree.node[id].kind = "date"    -> {DateSet(id, 7, held)}

EditsOf(id) ==
  CASE tree.node[id].kind = "array"  -> ArrayEdits(id)
    [] tree.node[id].kind = "object" -> ObjectEdits(id)
    [] OTHER -> LeafEdits(id)

\* An operation on its own, or one more of a batch.  One that was cancelled changes nothing.
Edit(op, batched) ==
  /\ ~opened /\ Edits < MaxEdits
  /\ batched => log # <<>>
  /\ tree' = IF op.noOp THEN tree ELSE HandleModelOperation(tree, op)
  /\ LET data == DataValue(tree', tree.root)
     IN  IF batched
         THEN /\ log' = [log EXCEPT ![Len(log)] = Append(@, op)]
              /\ contents' = [contents EXCEPT ![Len(contents)] = data]
         ELSE log' = Append(log, <<op>>) /\ contents' = Append(contents, data)
  /\ UNCHANGED <<opened, version, target, opRequests, plays>>

\* ModelService.history
OpenHistory ==
  /\ ~opened
  /\ opened' = TRUE
  /\ version' = Len(contents) /\ target' = Len(contents)
  /\ tree' = NewTree(contents[Len(contents)])
  /\ UNCHANGED <<log, contents, opRequests, plays>>

----------------------------------------------------------------------------
(* Playing *)

\* playTo, forward, backward and, once the server has told the version, playToTime.
PlayTo(to) ==
  /\ opened /\ plays < MaxPlays /\ to # target
  /\ LET forward == to > target
     IN  opRequests' = Append(opRequests,
           [forward |-> forward, state |-> "sent",
            first |-> IF forward THEN target + 1 ELSE to,
            last  |-> IF forward THEN to ELSE target])
  /\ target' = to
  /\ plays' = plays + 1
  /\ UNCHANGED <<tree, log, contents, opened, version>>

\* The versions of the operations the server has.
Operations(request) == (request.first .. request.last) \cap (2 .. Len(log) + 1)

\* toDiscreteOperation looks for the removal of a property in the wrong place and throws.
Unreadable(request) ==
  \E v \in Operations(request) : \E i \in DOMAIN log[v - 1] :
    log[v - 1][i].type = "ObjectRemoveProperty"

\* Slip: what was done first is undone first.
UndoneInOrder(ops) == ops

Undone(ops) == Reverse(ops)

PlayDiscrete(t, op) == IF op.noOp THEN t ELSE HandleModelOperation(t, op)

Redo(shown, v) ==
  [tree |-> FoldLeft(PlayDiscrete, shown.tree, log[v - 1]), version |-> v]

\* The version is that of the operation before, which comes with those to undo.
Undo(shown, v) ==
  [tree |-> FoldLeft(LAMBDA t, op : PlayDiscrete(t, [InverseOperation(op) EXCEPT !.noOp = op.noOp]),
                     shown.tree, Undone(log[v - 1])),
   version |-> v - 1]

\* _playOperations: backwards the first is taken off and only tells the version, unless all
\* are to be undone.
Play(shown, request) ==
  LET versions == SetToSortSeq(Operations(request), <)
  IN  IF request.forward THEN FoldLeft(Redo, shown, versions)
      ELSE FoldLeft(Undo, shown,
                    Reverse(IF request.first = 1 THEN versions ELSE Tail(versions)))

\* How many at the head of the queue are complete.
Complete(requests) ==
  CHOOSE n \in 0 .. Len(requests) :
    /\ \A i \in 1 .. n : requests[i].state = "completed"
    /\ n < Len(requests) => requests[n + 1].state # "completed"

\* _checkAndProcess; it throws at one that could not be read, which stays.
CheckAndProcess(requests) ==
  LET n     == Complete(requests)
      shown == FoldLeft(Play, [tree |-> tree, version |-> version], SubSeq(requests, 1, n))
  IN  /\ tree' = shown.tree
      /\ version' = shown.version
      /\ opRequests' = SubSeq(requests, n + 1, Len(requests))

Answer(i, state) == [opRequests EXCEPT ![i].state = state]

Answered(i) ==
  /\ opRequests[i].state = "sent"
  /\ IF Unreadable(opRequests[i])
     THEN opRequests' = Answer(i, "unreadable") /\ UNCHANGED <<tree, version>>
     ELSE CheckAndProcess(Answer(i, "completed"))
  /\ UNCHANGED <<log, contents, opened, target, plays>>

\* The request fails: it stays, and whatever comes after waits for it.
Failed(i) ==
  /\ opRequests[i].state = "sent"
  /\ opRequests' = Answer(i, "failed")
  /\ UNCHANGED <<tree, log, contents, opened, version, target, plays>>

----------------------------------------------------------------------------
Init ==
  /\ tree = NewTree(InitialData)
  /\ log = <<>> /\ contents = <<InitialData>>
  /\ opened = FALSE
  /\ version = 1 /\ target = 1
  /\ opRequests = <<>> /\ plays = 0

Next ==
  \/ \E id \in tree.registered : \E op \in EditsOf(id), batched \in BOOLEAN : Edit(op, batched)
  \/ OpenHistory
  \/ \E to \in 1 .. Len(contents) : PlayTo(to)
  \/ \E i \in DOMAIN opRequests : Answered(i) \/ Failed(i)

Spec == Init /\ [][Next]_vars

----------------------------------------------------------------------------
(***************************************************************************)
(* Wherever history has been played to and however, over operations and    *)
(* batches, the data is what the model had at the version shown            *)
(* (_playOperations, the inverses of the applied operations).  And once    *)
(* every request is answered, in whatever order the replies came, the      *)
(* version shown is the one last asked for (playTo, _checkAndProcess),     *)
(* unless one failed or could not be read.                                 *)
(***************************************************************************)
ShowsVersion ==
  opened =>
    /\ DataValue(tree, tree.root) = contents[version]
    /\ (\A i \in DOMAIN opRequests : opRequests[i].state = "completed") =>
         opRequests = <<>> /\ version = target

(***************************************************************************)
(* Whatever was inserted, moved, replaced, removed or undone, the nodes an *)
(* operation can find by their id are those of the tree, and each node's   *)
(* path leads to it (_registerValue, _detach, _idToPathElement).           *)
(***************************************************************************)
RegistersItsTree == Sound(tree)
=============================================================================
