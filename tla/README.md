# Convergence JavaScript client: a TLA+ development

The Convergence client lets applications edit a shared JSON-like model at once. Each
client applies its own edits at once, sends them to the server, which orders them, and
reconciles the edits of others with those the server has not acknowledged yet by
operational transformation (OT). Around that core are a connection that reconnects,
models that may be opened, edited and created offline, and the presence, activity, chat
and identity services.

This directory holds TLA+ modules that model that code, TLC configurations that check
them on small instances, and proofs that TLAPS checks for all instances. Paths below are
relative to `src/src/main`. `PROJECT.json` lists, for each definition, the lines it
models; for each property, a mistake in the code that violates it; and what can go wrong
in the code and is hard to test, at its line.

## 1. The system

### Components

| Component | State | Operations | Hard because of | Correct if |
|---|---|---|---|---|
| **Operational transformation** (`model/ot/xform`, `model/ot/ops`) | none | transform a pair of discrete operations; of compound operations; a reference over an operation | the number of cases; boundaries of ranges; cancelled operations | both orders lead to the same data; what results can be applied |
| **Client concurrency control** (`model/ot/ClientConcurrencyControl.ts`) | sequence number, context version, operations in flight, batch, unapplied remote operations | local operation, batch start, cancel, complete, acknowledgement, remote operation, `setState` | acknowledgements and remote operations interleave with edits; events call back into it | never refuses a message; no edit is lost, doubled or overtaken; commit events tell the truth |
| **Real time model** (`model/rt/RealTimeModel.ts`) | the data, offline and resynchronisation data, closing data, references by session | local edits, message handlers, open, close, offline, online, resynchronise, rehydrate | reconnects between any two steps; re-entrant listeners; a close that waits | sessions agree once everything is acknowledged, also over reconnects; every close ends |
| **Nodes and elements** (`model/internal`, `model/rt`) | the tree of values, listeners | apply an operation, edit, emit and bubble events | order of listeners; values that are detached; ids and paths kept beside the tree | what is announced, sent and stored rebuilds the data |
| **References** (`model/reference`, `model/ot/xform/reference`) | local and remote references, shared or not | share, set, clear, unshare, dispose, transform | positions that move under edits; elements and sessions that go | every session shows a reference at the same place; none outlives what it is on |
| **Model service** (`model/ModelService.ts`) | open models, open requests, resource ids, the entries and the queue of models to resynchronise | open, auto-create, create, close, remove, online, offline | concurrent opens; a queue worked off while the connection comes and goes | each call ends; the sync ends; what is open works |
| **Offline models** (`model/ModelOfflineManager.ts`, `storage/`) | subscriptions, flags, snapshots and operations stored by model | subscribe, download, store operations, snapshot, create and delete offline | awaits between reads and writes; tabs closed at any time | what is loaded is what was edited; nothing unsynchronised is deleted |
| **Connection** (`connection/ConvergenceConnection.ts`) | state, attempt counter, timers, protocol connection | connect, disconnect, reconnect, time out, online and offline of the window | timers against answers; the failure of an attempt that was given up | something moves it on; the services hear what is the case |
| **Protocol connection** (`connection/ProtocolConnection.ts`, `HeartbeatHelper.ts`, `ConvergenceSocket.ts`) | pending requests, heartbeat timers, socket | request, reply, ping, abort, close | timeouts and drops with requests pending | a dead socket is noticed |
| **Domain and session** (`ConvergenceDomain.ts`) | initialised or not, the services | connect, initialise offline, dispose | initialisation awaits the stores | initialised once; identities known |
| **Identity** (`identity/`) | cached users and sessions, and those stored | messages, restoring | messages during initialisation | whose a session is, is known |
| **Presence** (`presence/`) | a manager per user, subscriptions counted | subscribe, unsubscribe, resubscribe, set state | subscriptions while a request is pending | as long as somebody subscribes, the server does, and its word is shown |
| **Activities** (`activity/`) | participants, their state | join, leave, set state, rejoin | joining offline; rejoining after a reconnect | participants and states agree with the server |
| **Chat** (`chat/`) | members, event numbers | get, join, leave, send, mark seen, history | events of the same user elsewhere; several objects for one room | members and events agree with the server |
| **Historical models** (`model/historical`) | a version, the operations loaded | play to a version | loads that overlap; inverses | the data is that of the version shown |
| Fallback authentication, observable wrappers, rich text, query, permissions, utilities, message conversion | little or none | | | |

Everything runs in one JavaScript thread: a handler, a call of the application or the
continuation of a promise runs to its end before the next. Interleavings therefore happen
at messages, promises, timers and calls of the application, and by re-entrance: events are
delivered synchronously, so a listener may call back into an object that is in the middle
of a method.

### How they interact

An application edits an element (`RealTimeString.insert`). The element's node changes the
data and emits an event; the element, subscribed to it, calls
`RealTimeModel.sendOperationCallback`, which passes the operation to the concurrency
control and sends what comes back as an operation submission. The server acknowledges it
to the session and sends it to the others as a remote operation, with the version it has
given it, over one ordered channel per session. `RealTimeModel._handleMessage` passes both
to the concurrency control and applies what it returns. With offline models enabled each of
these steps also writes to the store. When the connection is lost, every open model goes
offline; when it comes back, `ModelService` makes each ask for what it missed
(`modelResyncRequest`), apply it, send again what is in flight, and complete. The
connection emits `ONLINE` and `OFFLINE` to the services through events; messages reach the
services through one shared stream, so a handler that throws ends its service's
subscription for good (rxjs 6).

## 2. What is modelled

| Module | What it is | Composed with |
|---|---|---|
| `Operation` | what discrete operations have in common, pairs of them, cancelled ones | |
| `RangeRelationship` | how an index or a range lies to a range (`RangeRelationshipUtil`) | |
| `StringXform`, `ArrayXform`, `ObjectXform`, `ScalarXform` | for each kind of value: its operations, what they do to it, when the node refuses them, and all transformation functions of the registry | |
| `StringReferences` | what operations on a string do to the places references hold, when transformed and when followed by events | `StringXform` |
| `ModelData` | a model's data as a function from value ids to contents; the registry; applying an operation | the four above |
| `OperationTransformer` | the transformation of compound operations, over any pairwise function `Transform` | |
| `ClientConcurrencyControl` | the class, as a record and an operator for each method | `OperationTransformer` |
| `ReplicaExchange` | two replicas that edit apart and then exchange their operations | `ModelData` |
| `ModelCollaboration` | sessions, each with data and concurrency control, the messages on their way and the server | `ClientConcurrencyControl` |
| `OrderedEdits` | the abstract specification of the latter: one order of edits, taken in by every session | |
| `ModelResync` | one open model through drops, resynchronisation, creation, closing, refusals | |
| `OfflineModels` | one model, the manager's entry for it, the store's transactions, crashes | |
| `ModelService` | opening, creating, removing, closing models by id; the sync after a reconnect | |
| `Connection` | the connection with its protocol connections, sockets, timers, continuations and events | |
| `Domain` | initialisation of the domain, the identity cache and its stores, pages reloaded | |
| `ModelTree` | the tree of nodes: subtrees, registration, paths, operations and inverses | |
| `NodeEvents` | node events, their bubbling and what the application hears of them | `ModelTree` |
| `OperationMapper` | operations and values as messages and as stored records, both ways | |
| `RealTimeElements` | the methods that edit elements, the operations they send, another client | `NodeEvents`, `OperationMapper` |
| `HistoricalModel` | playing a model's history back and forth | `ModelTree` |
| `References` | the references of a model and an element, local and remote | |
| `Presence`, `Activity`, `Chat` | the services of these names with the server as they rely on it | |
| `MC…` | the values, operations and bounds for TLC | |
| `Convergence` | what `ModelCollaboration` needs of transformation functions | `ModelCollaboration` |
| `AnySequence`, `AnySequenceLemmas` | sequences of which it does not matter what they hold, and what is so of them | |
| `ModelCollaboration_proofs`, `ModelCollaborationAgreement`, `ModelCollaborationConvergence`, `ModelCollaborationAccounts` | proofs about the collaboration, each building on those before (the last only on the second) | `ModelCollaboration` |
| `TransformationConvergence` | proofs about the transformation of strings | `ModelCollaborationConvergence`, `ModelData` |
| `Client_proofs` | proofs about the connection and about the domain | `MCClient` |
| `ModelResync_proofs` | proofs about one model over connections | `ModelResync` |

`PROJECT.json` maps definitions to the lines they model; it leaves out helpers whose lines
are those of a definition they serve, and helpers of what is external. Operators that the
proofs reason about (`NotSeenAt`, `DataAt`, `Outstanding`, `EditsLogged`, those of
`OperationTransformer`, `Refused` and `ApplyOperation`) are recursive functions rather than
folds, which the prover cannot look into. `MCModelCollaboration` uses the registry's
functions for strings only, since its data is one string.

The definitions that begin with a comment "Slip" are not part of the model: each is a
definition with a plausible mistake, kept beside it to show that the properties notice.
Variables marked *external* stand for the server, the disk or the application; those
marked *history* are not in the code and only serve to state properties. Parts of the
program that are not in the repository, first of all the server, are modelled as the code
relies on them, and with everything the code does not exclude.

### The collaboration: `ModelCollaboration`

An **operation** is the sequence of its discrete operations: of length one for a plain
operation, longer for a compound one. A discrete operation is a record with type, id,
`noOp` and operands. Texts and arrays are sequences of values that need not be characters.
The functions for boolean and date values are those for numbers without the delta, so
`ScalarXform` stands for all three.

`data[s]` is the tree of nodes of session `s`; `cc[s]` is its `ClientConcurrencyControl`,
with the last commit event it emitted as a field `committed`; `error[s]` says that
`_handleConcurrencyControlError` has closed the model; `toServer[s]` and `toClient[s]` are
the messages between `RealTimeModel` and the server. `log`, `bridge` are the server: the
history, and for each session the operations it is not known to have, transformed over its
own, so that its next submission can be transformed over them: consecutive versions, one
order of messages per session, operations transformed by the same functions.

| Action | Code |
|---|---|
| `LocalOperation` | `sendOperationCallback`, `processOutgoingOperation`, `_sendOperation` |
| `LocalOperationEditedWhenHeard` | the same with another edit made by a listener of the first edit's event, which is emitted (`RealTimeElement.ts` 128-139) before the first edit is sent |
| `LocalOperationEditedWhenModified` | the same with another edit made by a listener of `ModelModifiedEvent`, which `processOutgoingOperation` emits (224-231) before it returns the operation |
| `StartBatch`, `CancelBatch`, `CompleteBatch` | the methods of those names; completing an empty batch throws but ends it |
| `ServerReceives` | the server |
| `HandleOperationAck`, `HandleRemoteOperation` | `_handleOperationAck`, `_handleRemoteOperation`, each with its error path |
| `HandleRemoteOperationEditedWhenHeard` | a remote batch applied part by part, with an edit made by a listener of a part's event |

Batches are documented to be started and completed without returning to the event loop
(`RealTimeModel.ts` 800-802), but nothing enforces it and the concurrency control has code
for messages that come during a batch (`transformPendingCompoundOperations`), so messages
may come during a batch in the model. What a model that closes with an error does while it
closes is not followed: its messages are left unread.

`OrderedEdits` is what all that amounts to: sessions number what they issue; one order of
it all comes to be; each session takes it in from the beginning; its own are confirmed
first issued, first confirmed. `Ordered` in `ModelCollaboration` is the refinement mapping:
the order is `log`, what a session has taken in its `contextVersion`, what is unconfirmed
its operations in flight.

### One model over connections: `ModelResync`

An operation is opaque; versions and sequence numbers are those of the code. `client` is
the client of one model: the `RealTimeModel` with its offline, resynchronising, creating
and closing data, its concurrency control, its entry in `ModelService`, the connection, the
continuations that wait for the store or for a reply (`tasks`), and what a listener has
been told. It is one record because the methods call one another: each is an operator on
it, `sent` collects what they send and `threw` says that the rest of a handler is skipped.
A closed model has no connection, so to send throws. `toServer` and `toClient` are the
messages on the connection that stands, `server` is the server's history with the resource
it has open for this client, one for each resynchronisation. `epoch` counts connections: a
request of an earlier one (`at`) ends by its timeout, at any later time. What a message's
handler throws ends the service's only subscription to the messages: then it is `deaf`, and
`TakeMessage` loses what comes, on any later connection too, whereas what the continuation
of a reply throws is caught (`TakeAnswer`). `Edit`,
`CloseModel` (application); `Drop`, `Reconnect` (`_setOffline`, `_setOnline`);
`TaskProceeds` (the steps of `_initiateResync`, `_createLocalModel`, `_resynchronize`,
`_initiateClose`); `ClientReceives` (`_handleMessage`, with the buffering of what is newer
than the reconnect version, the acknowledgement made up for an own operation found in the
history, completion); the server answers, refuses, edits, closes by force. A reconnect may
keep the session's id or give a new one (`keeps` says that none has); the server may
resynchronise at once what it has closed by force (`reopened`).

### The offline store: `OfflineModels`

`disk` is what `IdbModelStore`'s object stores hold of the model, `queue` its transactions
in the order they were made, `entry` the record of `ModelOfflineManager._offlineModels`,
`record` that of `_openModels`. `StorageStep` runs the transaction at the head, or aborts
it, with the continuation that waits for it; `Crash` loses everything but `disk`. Data is
how often each edit has been applied to it, so that a lost or doubled edit shows. The
actions are the application's calls (open, edit, close, remove, subscribe, unsubscribe,
replace the subscriptions), the connection, the sync, downloads and updates by the server
and the messages of an open model. `told` is what an application makes of the events.

### The model service: `ModelService`

The service is one record, because its methods call one another; `Continue` runs what is
ready before any other task. `calls` are the application's (with where each waits),
`entries` the resynchronisation entries with their deferreds, `queue`, `resyncing`,
`openModels` and the resource ids are the fields of the class. What goes on in a model that
resynchronises, and in the store, is left to the two modules above: here the model asks,
and says when it is done. `deaf` is as there: a completion without an entry makes the service so,
and one for a model that is closed or closing. A completion reaches whatever model of the id
the service has by then, which need not be the one it was sent for. Assumed: the store is first in, first out and, but for offline
opens, faster than connecting; what is stored is subscribed to; the server answers in order.

### Connection and domain: `Connection`, `Domain`

Actions of `Connection` are tasks of the event loop, or continuations of promises, which run before
the next task; the continuations of an attempt form a chain (see the module). Several
protocol connections may be alive, each with its socket and heartbeat, since attempts that
were given up go on. `conn.online` is what the services were told, `conn.told` the last
event of the domain.

`Domain` has the two initialisations (offline and on connecting), the storage they open,
the transactions of the identity store and what the server tells of users and sessions, in
any order; `Reload` starts a new page with what is on disk.

### Data: `ModelTree`, `NodeEvents`, `OperationMapper`, `RealTimeElements`, `HistoricalModel`

A node is a record in a function from ids, with its parent and path as the code keeps them,
beside the set of those registered; `Sound` says that all that agrees. `RealTimeElements`
has the methods of all elements; `DoWithin` is one with an edit made by a listener of its
event. The other client reads the operations off the wire and applies them; a listener of
its root keeps a copy. `HistoricalModel` edits a model first, then opens its history and
plays it; replies come in any order or fail.

### The services: `References`, `Presence`, `Activity`, `Chat`

Each has the objects of the application (handles, activities, chats, references), the
requests whose reply is awaited, one channel each way and the server. The keys and values
that do not matter are one key and a few values. `References` has the model itself and one
string element as places; the connection may drop, after which the model resynchronises
and the references come anew. A reference on the model is to the element, and loses it when
the element is detached. The server is taken to drop an element that is removed from what
refers to it, as the client does.

## 3. What is checked

Twelve runs: six pass, six find the code to disagree with what its documentation, its
comments or its assertions say. Each passing run takes from half a minute to four minutes.

### `replica_exchange` (passes)

Each replica issues up to two operations on a string or array of up to three elements, an
object with up to two properties, a number, or a string and a number at once; then both
exchange. Every pair of operations of a kind at every position is tried, and every pair of
compound operations of two. Three elements are enough for every relation of two ranges the
code distinguishes, the two sides insert texts of different lengths, and what they insert
is of their own, so equal results are not equal by accident.

* `ConvergeOtherwise`: the replicas are equal after the exchange, and
* `ApplyOtherwise`: no transformed operation is refused by the node it is applied to,

unless the exchange meets a splice that both removes and inserts at the server with a
splice or a removal at the client, in the relations that the code transforms wrongly
(`WronglyTransformed` names them exactly). The two disagreements are

* `TransformSpliceSplice`: see `splice_splice` below;
* `TransformSpliceRemove`: a removal that lies within the server's splice is emptied but
  not cancelled and keeps its old index (`StringSpliceSpliceOTF.ts` 334-340), which may lie
  beyond the end of the string, so that `StringNode` throws (109-110). There is nothing in
  the documentation to quote against it, so it has no run of its own;
  `TransformedOperationsApply`, without the exception, is the property it breaks.

* `ReferencesAgree`: a reference into the string is shown where its owner sees it move,
  whether it is transformed over operations in flight or follows their events; apart from
  places before a splice, which `IndexTransformer.handleSplice` moves to the end of what is
  inserted, because it compares an index with itself (22).

### `model_collaboration` (passes)

Two sessions edit a string of initially one element: three edits in all, each an insertion
of the session's name or a removal at any place, alone or in batches, at most one of them
from within an event. With three edits a session can have two operations in flight, or one
in flight and a batch open or pending, while the operation of the other passes both; with
one nested edit every re-entrant action occurs, followed by another edit. A third session
would only see remote operations, as the second does. Sessions are not declared symmetric,
because liveness is checked.

* `TypeOK`
* `NoConcurrencyControlError`: no message is refused.
* `EachLoggedOnceInOrder`: the history holds each operation of a session that the server
  has received once, in order, without a gap.
* `SeesServerDataWithOwnEdits`: the data of a session is the data of the server at the
  session's context version with its outstanding edits applied on top. This is what "everybody
  sees the same thing" means at any time, not just once everything has come to rest.
* `AcknowledgedAsLogged`: the operation that is acknowledged is, as the session has
  transformed it, what the server logged. `_handleOperationAck` stores it as the server's
  operation.
* `CommitEventsTruthful`: the last commit event says "committed" exactly when all edits
  are in the history and the session knows. An edit in an open batch is not.
* `EventuallyUpToDate`: infinitely often, a session either has a batch open or has
  everything acknowledged and has received all there is.
* `ImplementsOrderedEdits`: every behaviour is one of `OrderedEdits`.

Edits from within events break some of these, so each is stated as narrowly as that
demands: those from within the modified event set `misordered` of the session that makes
them, and the first two and the fifth and seventh hold for all other sessions, whatever
the misordered ones do; `SeesServerDataWithOwnEdits` is stated for behaviours without edits
from within events.

**Fairness.** `EventuallyUpToDate` assumes weak fairness of the server taking submissions
and of the client taking messages. While the connection stands, the transport delivers,
the server answers, and the event loop runs a handler for each message. Nothing is assumed
of applications: they need neither edit nor complete a batch.

### `model_resync` (passes)

An open model, created online or offline, through two drops (so that a request of an
earlier connection may end in a later resynchronisation), three operations of its own and
of others (one in flight, one issued offline, one by somebody else), and one refusal or
forced close.

* `EventsTellState`: a listener of the model's events knows its version, whether it is
  offline, catching up or online, and whether it is closed; a model it takes to be offline
  has nothing open at the server and no close pending.
* `EditsOnTheirWay`: each operation in flight has its submission or its acknowledgement on
  the way, once and in order, through any number of drops.
  Like `QuietIsUpToDate` it is of a service that hears the server, and it says that this one
  does at least until a resynchronisation has been interrupted: a deaf service is excused
  only from its third connection on (`CanHear`).
* `OncePerEdit`: an edit is in the server's history once, where a reconnect keeps the
  session's id and the server does not resynchronise at once what it closed by force.
* `QuietIsUpToDate`: with nothing on its way the model has all the server has and the
  server all it has.
* `ClosesWhenItCan`: a close that the server has answered or will, of a model whose operations it has
  acknowledged or will, ends, whichever of the answers comes last. Excused is
  only one with an edit made since, with a refusal or forced close on the way, or of a model that
  had failed or whose service was deaf.
* `ResyncEnds`: so does a resynchronisation that a service which hears waits for.

A deaf service occurs with two drops: the request of the second connection ends, by its
timeout, the entry made on the third, and the completion there finds none. A second
resynchronisation on that connection then goes unheard. A third drop, after which the next
resynchronisation would, is more than a run can explore with two edits of its own; it
would only add a wait which the properties leave to a service that hears.


**Fairness.** The last two assume weak fairness of messages being received in either
direction, over the channel of the connection that stands; nothing of connections coming
back, timers or applications.

### `offline_store` (passes)

One model through three calls or changes of the connection, two edits, one edit of others
and a crash between any two transactions; a snapshot is due after two operations, so that
it is with, before and after each. Three calls are what open, edit and close take; two
edits are one acknowledged and one that is not.

* `RecoversWhatWasStored`: whenever the process ends, what is loaded is the model as the
  last transaction left it: version, data, each edit once, and what is still to be sent.
* `StoredEditsAreFound`: a model is to be synchronised exactly if it was deleted, created or
  edited, and one with an edit in the store is, unless a download came while it was being opened.
* `UnsyncedKept`: no transaction takes an edit or creation away that the server has not got.
* `EntryKnowsWhatIsUnsynced`: the entry in memory does not lag behind the disk in the
  direction that would let it be deleted.
* `StoresAnOpenModel`: what happens to an open model can be stored.
* `TellsListeners`: the status, version and download events tell what is.

`spoiled` says what is known not to be survived and exempted, such as an acknowledgement
with another operation in flight (see `offline_rehydration`).

### `client` (passes): `Connection`, `ModelService`, `Domain`

The three are explored side by side, each on its own: `component` says which a behaviour is of.
They share nothing but that the connection is there or not, which `ServicesFollow` is about.

Connection, with two sockets at a time, two connects and three faults (an attempt replaced
by the next, which fails in turn):
* `ConnectionAlive`: what is connecting has something left that moves it on.
* `ServicesFollow`: what services and application heard last is the case.
* `HeartbeatAlive`: every established socket is watched, and no timer outlives its socket.

Model service, with two calls for one model, another one in the store, one drop, and each
model initially stored in each possible way:
* `CallsEnd`, `SyncEnds`: once all is answered, no call waits and the sync is over; the
  application has been told.
* `OpenModelsWork`: what is open is open with the server and hears of it; the server has
  none open that the service does not know.

`SyncEnds` and `OpenModelsWork` are of a service that is not `deaf`; `CallsEnd` is not
restricted so, since calls wait for replies, which still come.
These are invariants of states in which nothing is left to happen, rather than liveness
under fairness: that such states are reached follows from the bounds. They are stated for
what does not meet the known ways to fail (section 5).

Domain, with two sessions of one user, three calls, three messages and a page loaded again:
* `KnowsIdentities`: the cache tells whose every session is that the server told of or was
  stored, and the stores hold what was told, however messages, transactions and
  initialisations overlap.

### `services` (passes): `Presence`, `Activity`, `Chat`, `References`, `HistoricalModel`, `RealTimeElements`

As in `client`, each component on its own; they share nothing but the connection. Three
calls (subscribe twice and unsubscribe; join, leave, join), two changes by others, one lost
connection, at most four acts together in a chat; two edits of elements and one nested;
two edits and two plays of a history, so that a play can be overtaken.

* `FollowsSubscribedUsers`, `FollowsActivity`, `FollowsChat`, `ShowsReferences`: once
  everything is delivered, what each shows is what the server has; and who follows
  the events knows it.
* `PublishesReferences`: and the server has of this session what is shared, and no more.
* `ThrowsOnlyOverOwnEdits`: a handler of reference events throws only where it meets an
  edit of this session that is under way, or made while the model was opened again.
* `ShowsVersion`: the data is that of the version shown, and plays end where asked to.
* `RegistersItsTree`: registered nodes and paths agree with the tree.
* `MirrorsEdits`: the operations sent, and those stored, rebuild the data elsewhere.
* `EventsTellChanges`: a copy kept by the root's events alone equals the model's data.

Larger bounds were tried where they are feasible: `RealTimeElements` holds with three edits,
`References` alone, with all its events, in a run of its own. `CHECK_DEADLOCK FALSE`
is set in every configuration, because the systems stop: sessions run out of edits and
calls.

### Runs that find a disagreement

| Run | Says | Found |
|---|---|---|
| `splice_splice` | conflicts are resolved "so that everybody sees the same thing" | two concurrent splices of a string, both replacing text: a shift by the length of the wrong text (`StringSpliceSpliceOTF.ts` 368) |
| `is_committed` | `isCommitted` is "true if the model has no unacknowledged changes" | true with edits in an open batch (`ClientConcurrencyControl.ts` 101) |
| `everybody_sees_the_same` | as the first, with edits from within events | an edit from within the event of an edit (with `emitLocalEvents`) is sent first; an edit from within the event of a part of a remote batch is sent as if made after all of it |
| `every_message_as_expected` | the acknowledgement has the sequence number of the first operation in flight, as the code asserts | an edit from within `ModelModifiedEvent` is numbered after but sent before the edit it follows; its acknowledgement is refused and the model closes |
| `initial_connection` | `autoReconnectOnInitial`: "Whether to automatically reconnect if the initial connection fails" | the initial connection times out: the drop that reports makes it `DISCONNECTED`, in which nothing is scheduled, and the promise of connect never settles (`ConvergenceConnection.ts` 566) |
| `offline_rehydration` | "The rehydration process will then take us to the current version" | two edits, the first acknowledged, then the tab is closed: the second fits no version and the model cannot be opened again (`RealTimeModel.ts` 1126) |

## 4. What is proved

For any set of sessions, any initial data, any number of edits, and any operations these
may be; for the connection, for any number of sockets, connects and faults; for the
domain, for any users, sessions, calls, messages and pages; for one model over connections,
for any number of operations, drops and refusals:

| Theorem | Module | Proves | Supposing |
|---|---|---|---|
| `TypeCorrectness` | `ModelCollaboration_proofs` | `TypeOK` | |
| `NeverOutOfStep` | | `NoConcurrencyControlError` | |
| `LoggedOnce` | | `EachLoggedOnceInOrder` | |
| `Refinement` | | `ImplementsOrderedEdits` | |
| `AcknowledgementsAgree` | `ModelCollaborationAgreement` | `AcknowledgedAsLogged` | |
| `CommitEventsTellTheTruth` | `ModelCollaborationAccounts` | `CommitEventsTruthful` | |
| `SessionsSeeTheSame` | `ModelCollaborationConvergence` | `SeesServerDataWithOwnEdits` | `Converging` |
| `SessionsSeeTheSameStrings` | `TransformationConvergence` | `SeesServerDataWithOwnEdits` | `PlainStrings` |
| `ConnectionStaysAlive` | `Client_proofs` | `ConnectionAlive` | |
| `ServicesHearTheTruth` | | `ServicesFollow` | |
| `SocketsAreWatched` | | `HeartbeatAlive` | |
| `DomainKnowsIdentities` | | `KnowsIdentities` | |
| `ResyncEventsTellState` | `ModelResync_proofs` | `EventsTellState` | |
| `ResyncOncePerEdit` | | `OncePerEdit` | |

So every invariant of `model_collaboration` is proved, its refinement, the four invariants
about the connection and the domain in `client`, and two of the four of `model_resync`.
Where nothing is supposed, the transformation function is any at all. The assumptions on
constants are `CollaborationAssumption`, `DomainAssumption` and `ResyncAssumption` (the
bounds are natural numbers, and who owns a session is a user) and those of `Connection`:
finitely many slots for sockets, the options are options, and the bounds are natural
numbers.

### Sequence numbers and versions

`TypeCorrectness`, `NeverOutOfStep` and `LoggedOnce` follow from `Invariance`:
`Spec => []IInv`, and that from `InitIInv` and `NextIInv`. `NoConcurrencyControlError` is
not inductive: that the next message is accepted depends on all messages behind it and on
the submissions the server has not received. `IInv` says that the sequence numbers of a
session form consecutive stretches:

    1 ... acknowledged ... received by the server ... issued
                         | in toServer, in order      |
          | in cc.inflightOperations, in order        |

* `Numbered`: what is in flight is numbered from what was acknowledged on, and what is on
  its way to the server from what was received on;
* `InStep`: the messages on their way to the session carry consecutive versions, from its
  context version to the end of the history;
* `AcksDue`: among them are the acknowledgements of what is received and not yet
  acknowledged, each once and in order;
* `LogOK`: the history holds of the session what was received.

Then the first message, if an acknowledgement, is for the first operation in flight at the
current version (`AcknowledgementIsExpected`), and if a remote operation, has the current
version. These hold for a session as long as it has not been misordered, independently of
all others, so the invariant is `TypeOK` and, for each session, `misordered` or `InOrder`.
This is also what the theorems say beyond the runs: the misordering of one session never
reaches another.

A step of one session changes only its concurrency control and its two queues, so each is
proved about these alone, and `SessionStep` lifts it to the system. What an operation
contains plays no role, which is why the queues are sequences of anything (`AnySequence`):
`TypeOK` speaks of their shape and not of a set of all operations.

### The abstract specification

`OrderedEdits` has also promises about misordered sessions, of which `IInv` says nothing.
`RInv` adds to it, for all sessions, that no number is sent twice (`NumberedOnce`), and that
the messages on their way to an open session tell of the history from its context version
to its end (`Follows`). With it every action is an `Issue`, `PutInOrder`, `TakeIn` or
`GiveUp` of `OrderedEdits`, or a stutter (`NextRefines`).

### Acknowledged as logged

The server transforms what it receives over what the session had not seen, and the session
what it hears over what is in flight: two walks, at different times, over one grid. Its
rows are the versions of the history and its columns the operations of the session;
`own[v][j]` is the session's j-th operation as of version v, `other[v][j]` the operation
logged at v past the session's first j, and `Grid` says that neighbours come from one
another by `TransformOperations`. `HoldsOwn` places what is in flight and on its way,
`HoldsOthers` what the server has left to transform over. The session, taking in a remote
operation, walks a row (`PassingWalksTheRow`), the server, receiving one, a column
(`PassingWalksTheColumn`, in a column that `ColumnExists` provides). So both have the same
at the crossing, whatever the transformation functions are. The grid is quantified in the
invariant `AInv`, so TLC checks what follows from it and not `AInv` itself.

### Seeing the same

`Converging` (module `Convergence`) supposes, of two *discrete* operations on one document
only, that transforming each past the other leads to the same document, and that sessions
edit within the document and operations are applied in order. That it follows for batches,
for any number in flight and any number of sessions is the theorem: the rows of the grid
lead from one document to the next (`RowsLead`).

It is supposed and not proved outright because not all registered functions converge (see
`splice_splice`). `StringsDoConverge` proves it for models of strings of any length that are
edited by inserting, removing and replacing all text (`PlainStrings`; splices that do both
are the ones of `splice_splice`). The model of `model_collaboration` is one of these. The
proof compares the two results position by position, in each relationship of the ranges.

### Commit events

Whether `commit_state_changed` tells the truth depends on how many edits each operation
stands for, and transformation must not change that. `BInv` has a `Ledger`: to every
sequence number the edits made up to it (`total`), from which what is in flight
(`InflightLength`), on its way (`SentAs`) and in the history (`LoggedAs`) have their lengths,
`OutgoingLength` being that the server's transformation keeps them. `ReckoningTells` is
that the session's own count then says what the history has; of a session that closed with
an error it is kept as it was last (`Concludes`). Nothing depends on the order of numbers, so
misordered sessions are included.

### The connection

`ConnectionInv` is of the state that every operator of `Connection` maps to another:
what is connecting has a waiting caller and a task or continuation that moves it on
(`MovesIn`; the timeout only while it has a protocol connection to abort), a socket's
continuation runs before anything can close it (`OpenedIn`), the protocol connection in use is
listened to (`SubscribedIn`), requests that wait were sent (`SentIn`), and only an open
socket is watched (`Watched`). Each is inductive only with the others. `ConnectionSound` is
about `Connection` alone, and `ClientConnection` carries the invariant to `MCClient`.

### The domain

`DomainInv` is of what is cached, stored, in the queues of the two stores and on its way.
`MessagesSound`: whose a session is, is told with it or before. `CacheSound`: whoever was
told or read is cached; a session that was read is cached only after all users were, and
a user once stored is never forgotten. `StoresSound`: what was told is stored, or the last
transaction on it that waits puts it (`WillBeStored`), which is where the order of
the queue counts. `KnownSound`: a message that does not find the storage closed finds it
open for good, so no initialisation that puts older details over newer ones begins after
it. A transaction belongs to one initialisation only (`GetsDiffer`), or one could be
continued twice. `KnowsIdentities` names when it does not hold (section 5), and so do these.

### One model over connections

The methods of the model call one another, and the proof follows the calls: each method has
a contract between the client before and after it (`Goes`, `Fits`, `Moves`, `Utters`), its
lemma shows that it fulfils it, from the contracts of those it calls, and for each action
one lemma (`…Keeps`, `…Once`) shows that it keeps an invariant.

*What is told.* `TInv` is that the client is settled and that server and channels are fit
for it. A settled client's flags agree with one another and with what was told
(`Standing`, `IsToldOf`), and one that catches up has something to wait for (`Awaits`), or
the model is closed (`Gone`). `Wired` is what makes that so: of a client that catches up
none of its own operations, no completion and no acknowledgement is on the way, and the
channels of a model that is open and offline are empty. `EventsTellState` is the part of it
that a listener can observe.

*Once per edit.* An operation is sent again after each resynchronisation, and the server
does not recognise it: that it is not in the history already is because the client, catching
up, meets it there first and takes it as acknowledged. `OInv` is what this takes:

* `OncePer`: the property, and `Fresh`: the operations on their way to the server were
  issued, are distinct, and are new to its history;
* `Tells`: what is on its way to the client tells of the history as it is, at the versions
  it says;
* `Sees`, for an open model: all operations of its own that the history has before its
  version are acknowledged, and while it catches up those it still has to meet come before
  the version to reach (`ReplyIsAfterOwn` for one that still waits for that version);
* `Linked`, for one that is not closing and whose service hears: what it has open at the server is not newer than
  what the server has open; a model that awaits the history's end has the same, and what
  ends it comes before any other answer; one that awaits an answer gets at most one; and no
  operation of its own comes as another's but one it has passed.

A deaf service takes nothing in any more, so that it needs no more than the first three
(`DeafIsLinkedLess`): a message that is lost takes nothing away from them (`LossOnce`).

The invariant is of behaviours in which the session is kept and nothing is `reopened` (`Regular`), the
hypotheses of `OncePerEdit`. `TInv` and `OInv` were model-checked before they were
proved: exhaustively with three operations, two drops and one refusal, and in random
behaviours with eight, five and three.

### Only model-checked

* **Liveness** under fairness (`EventuallyUpToDate`, `ClosesWhenItCan`, `ResyncEnds`), out of
  the prover's reach.
* `ConvergeOtherwise`, `ApplyOtherwise`, `ReferencesAgree`: all pairs of operation types; of
  these only strings have a proof.
* `EditsOnTheirWay` and `QuietIsUpToDate` of `ModelResync`, and the invariants of
  `OfflineModels` and `ModelService`: no proof so far. They are about what is under way in
  several queues at once.
* `NodeEvents`, `RealTimeElements` and `HistoricalModel` are on `ModelTree`, whose operators
  are recursive, and so is what they compute for trees of any depth: out of reach.
* `Presence`, `Activity`, `Chat`, `References`: properties of states in which everything is
  delivered, of small state; the runs reach what can happen.

## 5. What the code does that the properties leave out

While modelling, ways were met in which the code does not do what one would like, and which no
document speaks of. The models have them as they are; the properties name them and hold
for everything else.

* **Resynchronisation.** A renewed session doubles its own edits. The acknowledgement made
  up for an operation found in the history has sequence number 0. A live message of exactly
  the reconnect version that overtakes the history fails the model. A resynchronisation
  request of an earlier connection that times out removes the new entry; the completion
  that finds none throws in the handler of the message (`ModelService.ts` 846), and the
  service hears no message any more, on any connection (367-369). So does a model that
  closes over an error when it refuses another message, and one already closing that was to
  close after the completion (`RealTimeModel.ts` 966). The error of a
  failed one stays, so that a later `close()` resolves at once and the model does not
  close. A creation whose reply was lost is never forgiven (1278). `ONLINE` is documented to
  come as a `ModelOfflineEvent`; a close during a resynchronisation has no `ModelClosedEvent`.
  `ModelReconnectingEvent` is documented to be "emitted when a [[RealTimeModel]] is attempting
  to reconnect to the server after being offline" (`ModelReconnectingEvent.ts` 19-20), but is
  also emitted while the model is offline, when the connection has gone again while the
  store was read (`RealTimeModel.ts` 1266, 1350).
* **Model service.** Removing a model made offline while the completion of its creation is on its way closes it;
  the completion then closes it again, which throws (`RealTimeModel.ts` 966), and the service
  hears nothing more: the synchronisation does not end. A completion meant for one object
  of a model reaches the next one of that id. A model opened while it is only resynchronising is not among the open
  models afterwards, so its messages are dropped. An open that waits for an entry whose
  connection drops waits for ever, and later opens of that id join it. Two opens that wait
  for one closing model make two objects. A model that is removed after it was taken from
  the queue is deleted under its own resynchronisation, which does not end. The open that
  follows a deletion is not returned (1085). `OFFLINE_MODEL_SYNC_COMPLETED` is documented
  for all models but told per model, also after an error; the model that is being
  synchronised is not counted in the progress.
* **Offline models.** A model unsubscribed while it is opened is deleted under it. A download
  that comes while it is opened takes its edits away, and the next operation of the server's
  puts them back unmarked. One whose synchronisation was given up is made nevertheless. A
  snapshot with operations in flight forgets them. Deleting a model offline leaves the
  entry as it was, so that a later unsubscription forgets the deletion. Replacing
  subscriptions filters by the wrong condition (201). The subscription request names the
  versions by other fields than the protocol has, so the server always sees 0. An update on
  its way undoes an unsubscription. A model deleted offline counts as still to be downloaded.
* **Connection.** `disconnect()` between attempts leaves it disconnecting for ever; an
  attempt that was given up goes on to tell "connecting" and "failed"; the listener for the
  window's `online` is removed by `disconnect()` and never added again; requests are not
  rejected by a drop but by their timeout. A refused reconnect without `fallbackAuth`
  resolves with the error (271).
* **Domain and identity.** Messages about identities that come between configuring the
  storage and opening it make the cache deaf. Initialisation puts older details over newer
  ones. A second connect before the first has initialised resolves early, and opens the
  store twice. A domain that was disposed can connect again.
* **Presence.** Overlapping subscriptions to one user replace the manager: the first hears
  nothing more. Observables are not told of the loss of the connection, events are.
* **Activities.** A failed join deletes by the wrong key (`ActivityService.ts` 166), so the
  activity cannot be joined again. One that was left rejoins on reconnect (704). A local
  state `true` is not sent on rejoining (1086).
* **Chat.** Being added by somebody else does not set `joined` (316). Each object of a room
  rejoins on reconnect, also after leaving. The reply to a join and the event of it add the
  member twice. `markSeen` of others goes into a field nobody reads. `getHistory()` throws
  without its optional options.
* **References.** Clearing tells the server though nothing is shared; sharing while offline
  is never made up for; events of a reference whose text is being replaced throw, which
  ends the model service's subscription. So does an event about, or a reference to, an
  element this session has removed: the handlers mean to pass over it (1493,
  `ReferenceManager.ts` 189), but `NodeWrapperFactory.wrap` reads the id of the node that is
  missing. `_handleRemoteClientResyncCompleted` adds to the
  list it should remove from.
* **History.** The removal of a property cannot be read (139), and a request that fails
  blocks all after it. Playing to version 0 leaves the first operation as it is.
* **Elements.** With `emitLocalEvents` an edit made in the event of an element is sent
  before the edit it follows. `NumberDeltaEvent.value` is documented as the new value and is
  the delta.

## 6. What is not modelled, and the plan

Not modelled, and why:

* **Rich text** is unfinished, imported by nothing and left out of the build.
* **Query, permission managers, identity lookups, chat search**: a request and the
  conversion of its reply; no state, no order to get wrong.
* **Observable wrappers** are interfaces.
* **Utilities**: emitters, deferreds and type checks are used by the models through the
  order in which events and replies are heard.
* **Creating chats and direct chats**: a request to the server; the chat is then one found
  by `get`. **Historical elements** only read.
* **Permissions of a model** and the list of collaborators that resynchronise.
* The lengths of intervals and timeouts; the encoding of frames.

A model that is closed while a snapshot of it is written is put back among the open ones
of the manager (`ModelOfflineManager.ts` 665), so that operations whose transaction is still
to come lead to another snapshot of the closed model; it takes more edits than the run has,
and `OfflineModels` does not keep what a closed model held. Several models at once in `OfflineModels`, and several elements in `References`, are
left out because they do not interact but for counts; `ModelService` has two ids for those
that do.

Next: proofs.

1. `ModelResync`: `EditsOnTheirWay`, from the numbers in its channels and what makes the
   service deaf, and from it
   `QuietIsUpToDate`.
2. `OfflineModels`: `StoredEditsAreFound`, an invariant of the transactions alone.
3. `TransformationConvergence`: the operations of numbers, booleans, dates, objects and
   arrays; then `Converging` for models of them.

## 7. Running

The proofs of `ModelResync_proofs` and of `Client_proofs` take ten minutes or more, the others less.

    tlc -workers 2 -config MCModelCollaboration.cfg MCModelCollaboration
    tlc -workers 2 -config MCReplicaExchange.cfg MCReplicaExchange
    tlc -workers 2 -config ModelResync.cfg ModelResync
    tlc -workers 2 -config OfflineModels.cfg OfflineModels
    tlc -workers 2 -config MCClient.cfg MCClient
    tlc -workers 2 -config MCServices.cfg MCServices
    tlapm ModelCollaboration_proofs.tla
    tlapm AnySequenceLemmas.tla
    tlapm ModelCollaborationAgreement.tla
    tlapm ModelCollaborationConvergence.tla
    tlapm ModelCollaborationAccounts.tla
    tlapm TransformationConvergence.tla
    tlapm Client_proofs.tla
    tlapm ModelResync_proofs.tla
