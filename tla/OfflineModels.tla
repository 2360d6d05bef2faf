--------------------------- MODULE OfflineModels ---------------------------
(***************************************************************************)
(* One model and the offline store: IdbModelStore's transactions, the      *)
(* ModelOfflineManager's record of the model, the RealTimeModel that       *)
(* stores what happens to it, and its recovery after a crash.              *)
(*                                                                         *)
(* A call of the store appends a transaction to "queue"; transactions of   *)
(* overlapping stores take place whole and in the order they were created. *)
(* With the transaction the continuation that waits for it runs.  A crash  *)
(* loses all but the disk.                                                 *)
(*                                                                         *)
(* Data is how often each edit has been applied to it.  Resynchronisation  *)
(* and transformation are the matter of ModelResync and ModelCollaboration;*)
(* here an open model that is online receives, one by one and in order,    *)
(* the operations it lacks and its acknowledgements.                       *)
(***************************************************************************)
EXTENDS Integers, Sequences, FiniteSets

CONSTANTS
  MaxEdits,         \* bound: edits of this client
  MaxForeign,       \* bound: edits of others
  MaxCalls,         \* bound: calls of the application, and changes of the connection
  MaxCrashes,       \* bound: crashes and restarts
  SnapshotInterval  \* operations after which an open model is snapshotted

ASSUME OfflineAssumption ==
  /\ {MaxEdits, MaxForeign, MaxCalls, MaxCrashes} \subseteq Nat
  /\ SnapshotInterval \in Nat \ {0}

VARIABLES
  disk,     \* what the stores hold of the model
  queue,    \* transactions that wait
  entry,    \* the manager's entry in _offlineModels
  record,   \* the manager's record in _openModels
  model,    \* the open RealTimeModel
  session,  \* the connection, and where opening and synchronising are
  server,   \* external
  toServer, \* subscription requests on their way
  stored,   \* history: the model as of the last of its transactions that took place
  spoiled,  \* history: what happened that recovery is known not to survive
  told,     \* external: what the application made of the manager's events
  used      \* history: what of the bounds is used up

vars ==
  <<disk, queue, entry, record, model, session, server, toServer, stored, spoiled, told, used>>

Edits == (1 .. MaxEdits) \cup {-n : n \in 1 .. MaxForeign}

NoData == [e \in Edits |-> 0]

Applied(data, edit) == [data EXCEPT ![edit] = @ + 1]

NoDisk ==
  [meta |-> FALSE, subscribed |-> FALSE, available |-> FALSE, created |-> FALSE,
   deleted |-> FALSE, uncommitted |-> FALSE, syncRequired |-> FALSE,
   details |-> FALSE, version |-> 0, seq |-> 0, snapVersion |-> 0, snapSeq |-> 0,
   creation |-> FALSE, hasData |-> FALSE, data |-> NoData, local |-> <<>>, server |-> <<>>]

NoEntry == [present |-> FALSE, subscribed |-> FALSE, available |-> FALSE, created |-> FALSE,
            deleted |-> FALSE, uncommitted |-> FALSE, version |-> 0]

NoRecord == [present |-> FALSE, ops |-> 0]

NoModel == [open |-> FALSE, version |-> 0, seq |-> 0, inflight |-> <<>>, data |-> NoData,
            local |-> FALSE, online |-> FALSE, resyncOnly |-> FALSE]

NoSession == [started |-> FALSE, up |-> FALSE, epoch |-> 0, manager |-> FALSE,
              opening |-> FALSE, sync |-> "none", downloading |-> FALSE, toDownload |-> 0]

NoStatus == [subscribed |-> FALSE, available |-> FALSE, synchronized |-> FALSE, local |-> FALSE]

\* unchecked: what is to be downloaded changed without the manager looking;
\* overwritten: an update on its way has undone what happened to the model since.
NothingTold ==
  [status |-> NoStatus, version |-> 0, downloading |-> FALSE, toDownload |-> 0,
   unchecked |-> FALSE, overwritten |-> FALSE]

----------------------------------------------------------------------------
(* IdbModelStore: a transaction is an operator on the disk. *)

SetSyncRequired(d) == [d EXCEPT !.syncRequired = d.deleted \/ d.created \/ d.uncommitted]

\* Of the metadata only the subscription and a pending deletion are kept.
MergeAndPutModelState(d, state) ==
  SetSyncRequired(
    [d EXCEPT !.meta = TRUE, !.available = TRUE, !.details = TRUE,
              !.created = state.local, !.uncommitted = state.inflight # <<>>,
              !.version = state.version, !.snapVersion = state.version,
              !.seq = state.seq, !.snapSeq = state.seq,
              !.hasData = TRUE, !.data = state.data,
              !.local = state.inflight, !.server = <<>>])

NewLocal == [version |-> 1, seq |-> 0, local |-> TRUE, inflight |-> <<>>, data |-> NoData]

InitiateModelCreation(d) == MergeAndPutModelState([d EXCEPT !.creation = TRUE], NewLocal)

CompleteModelCreation(d) ==
  SetSyncRequired([d EXCEPT !.creation = FALSE, !.available = TRUE, !.created = FALSE])

\* A model the server never heard of need not be deleted there.
InitiateModelDeletion(d) ==
  LET gone == [NoDisk EXCEPT !.meta = TRUE, !.deleted = d.deleted]
  IN  SetSyncRequired(IF d.created THEN gone ELSE [gone EXCEPT !.deleted = TRUE])

CompleteModelDeletion(d) ==
  IF d.meta THEN SetSyncRequired([d EXCEPT !.deleted = FALSE]) ELSE d

AddSubscription(d) == [d EXCEPT !.meta = TRUE, !.subscribed = TRUE]

RemoveSubscription(d) ==
  IF d.meta THEN SetSyncRequired([d EXCEPT !.subscribed = FALSE]) ELSE d

UpdateStoredSubscriptions(d, arg) ==
  CASE arg.change = "add" -> AddSubscription(d)
    [] arg.change = "remove" -> RemoveSubscription(d)
    [] arg.change = "none" -> d

\* Without metadata there is nothing to update.
ProcessOfflineModelUpdate(d, arg) ==
  IF ~d.meta THEN d
  ELSE [d EXCEPT !.server = <<>>, !.version = arg.version, !.snapVersion = arg.version,
                 !.snapSeq = d.seq, !.hasData = TRUE, !.data = arg.data]

\* Slip: the operations in flight stay as they were before the server's.
KeepLocalOperations(d, arg) ==
  [d EXCEPT !.version = arg.op.version + 1, !.server = Append(@, arg.op)]

ProcessServerOperation(d, arg) ==
  [d EXCEPT !.version = arg.op.version + 1, !.server = Append(@, arg.op),
            !.local = arg.inflight]

\* Slip: counted, but not marked as something to synchronise.
StoreLocalUnmarked(d, arg) == [d EXCEPT !.seq = arg.op.seq, !.local = Append(@, arg.op)]

ProcessLocalOperation(d, arg) ==
  SetSyncRequired([d EXCEPT !.uncommitted = TRUE, !.seq = arg.op.seq,
                            !.local = Append(@, arg.op)])

\* The operations with these numbers, as they follow one another.
Numbered(ops, numbers) ==
  LET kept[n \in 0 .. Len(ops)] ==
        IF n = 0 THEN <<>>
        ELSE IF ops[n].seq \in numbers THEN Append(kept[n - 1], ops[n]) ELSE kept[n - 1]
  IN  kept[Len(ops)]

ProcessOperationAck(d, arg) ==
  LET left == Numbered(d.local, Int \ {arg.seq})
  IN  SetSyncRequired([d EXCEPT !.version = arg.op.version + 1, !.local = left,
                                !.server = Append(@, arg.op), !.uncommitted = left # <<>>])

\* Local operations stay: those the data contains are recognised by their number.
SnapshotModel(d, arg) ==
  [d EXCEPT !.snapVersion = arg.version, !.snapSeq = arg.seq, !.hasData = TRUE,
            !.data = arg.data, !.server = <<>>]

\* What makes a transaction abort.
Aborts(d, tx) ==
  CASE tx.op = "initiateModelCreation" -> d.meta /\ d.available
    [] tx.op = "completeModelCreation" -> ~d.creation
    [] tx.op = "initiateModelDeletion" -> ~d.meta
    [] tx.op = "processOfflineModelUpdate" -> d.meta /\ (d.uncommitted \/ ~d.details)
    [] tx.op \in {"processServerOperation", "processLocalOperation", "processOperationAck",
                  "claimValueIdPrefix"} -> ~d.meta \/ ~d.details
    [] tx.op = "snapshotModel" -> ~d.meta \/ ~d.available
    [] OTHER -> FALSE

Committed(d, tx) ==
  CASE tx.op = "initiateModelCreation" -> InitiateModelCreation(d)
    [] tx.op = "completeModelCreation" -> CompleteModelCreation(d)
    [] tx.op = "initiateModelDeletion" -> InitiateModelDeletion(d)
    [] tx.op = "completeModelDeletion" -> CompleteModelDeletion(d)
    [] tx.op = "deleteModels" -> IF tx.arg.gone THEN NoDisk ELSE d
    [] tx.op = "updateSubscriptions" -> UpdateStoredSubscriptions(d, tx.arg)
    [] tx.op = "setModelState" -> MergeAndPutModelState(d, tx.arg)
    [] tx.op = "processOfflineModelUpdate" -> ProcessOfflineModelUpdate(d, tx.arg)
    [] tx.op = "processServerOperation" -> ProcessServerOperation(d, tx.arg)
    [] tx.op = "processLocalOperation" -> ProcessLocalOperation(d, tx.arg)
    [] tx.op = "processOperationAck" -> ProcessOperationAck(d, tx.arg)
    [] tx.op = "snapshotModel" -> SnapshotModel(d, tx.arg)
    [] OTHER -> d

----------------------------------------------------------------------------
(* Recovery: the model that what is on disk becomes. *)

Readable(d) == d.meta /\ d.hasData

\* Sorted as they are stored; those the snapshot contains are dropped, from the front.
LocalOperations(d) == Numbered(d.local, {n \in Nat : n > d.snapSeq})

ServerEventFits(s) ==
  /\ s.serverOps # <<>>
  /\ s.clientOps = <<>> \/ Head(s.serverOps).version <= Head(s.clientOps).context

ClientEventFits(s) == s.clientOps # <<>> /\ Head(s.clientOps).context = s.version

\* One event; the operations of this client follow one another as long as they fit.
ApplyNext(s) ==
  CASE ClientEventFits(s) /\ (s.inClientLoop \/ ~ServerEventFits(s)) ->
         [s EXCEPT !.data = Applied(@, Head(s.clientOps).edit),
                   !.seq = Head(s.clientOps).seq,
                   !.inflight = Append(@, Head(s.clientOps)),
                   !.clientOps = Tail(@), !.inClientLoop = TRUE]
    [] ServerEventFits(s) /\ ~(ClientEventFits(s) /\ s.inClientLoop) ->
         [s EXCEPT !.data = Applied(@, Head(s.serverOps).edit), !.version = @ + 1,
                   !.serverOps = Tail(@), !.inClientLoop = FALSE]
    [] OTHER -> s

Rehydrate(d) ==
  LET start == [version |-> d.snapVersion, seq |-> d.snapSeq, data |-> d.data,
                inflight |-> <<>>, serverOps |-> d.server,
                clientOps |-> LocalOperations(d), inClientLoop |-> FALSE]
      events == Len(d.server) + Len(d.local)
      after[n \in 0 .. events] == IF n = 0 THEN start ELSE ApplyNext(after[n - 1])
  IN  after[events]

\* Otherwise _rehydrateFromOfflineState throws.
Rehydrated(d) ==
  LET s == Rehydrate(d)
  IN  s.serverOps = <<>> /\ s.clientOps = <<>> /\ s.version = d.version

----------------------------------------------------------------------------
(* A method is an operator on the client's part of the state. *)

Client == [disk |-> disk, queue |-> queue, entry |-> entry, record |-> record,
           model |-> model, session |-> session, server |-> server, out |-> toServer,
           told |-> told]

Becomes(c) ==
  \E d \in {c} : /\ disk' = d.disk /\ queue' = d.queue /\ entry' = d.entry
                 /\ record' = d.record /\ model' = d.model /\ session' = d.session
                 /\ server' = d.server /\ toServer' = d.out /\ told' = d.told

Transaction(c, op, arg) == [c EXCEPT !.queue = Append(@, [op |-> op, arg |-> arg])]

\* The model as it is when it calls the store, for the history.
AsIs(m) == [version |-> m.version, inflight |-> m.inflight, data |-> m.data]

ServerVersion(s) == Len(s.log) + 1

ServerData(s) == [e \in Edits |-> Cardinality({i \in DOMAIN s.log : s.log[i] = e})]

----------------------------------------------------------------------------
(* The events of the ModelOfflineManager, and an application that follows them. *)

Status(e) ==
  IF e.present THEN [subscribed |-> e.subscribed, available |-> e.available,
                     synchronized |-> ~e.uncommitted, local |-> e.created]
  ELSE NoStatus

OfflineModelStatusChangedEvent(e) == [name |-> "status_changed", status |-> Status(e)]

OfflineModelDownloadedEvent(version) == [name |-> "downloaded", version |-> version]

OfflineModelUpdatedEvent(version) == [name |-> "updated", version |-> version]

OfflineModelDeletedEvent == [name |-> "deleted"]

OfflineModelPermissionsRevokedEvent == [name |-> "permissions_revoked"]

OfflineModelsDownloadStartedEvent(count) == [name |-> "download_started", count |-> count]

OfflineModelsDownloadStatusChangedEvent(count) == [name |-> "download_status", count |-> count]

OfflineModelsDownloadStoppedEvent == [name |-> "download_stopped"]

Hear(t, event) ==
  CASE event.name = "status_changed" ->
         [t EXCEPT !.status = event.status, !.overwritten = FALSE,
                   !.version = IF event.status.available /\ ~event.status.local THEN @ ELSE 0]
    [] event.name \in {"downloaded", "updated"} -> [t EXCEPT !.version = event.version]
    [] event.name \in {"deleted", "permissions_revoked"} -> [t EXCEPT !.version = 0]
    [] event.name = "download_started" ->
         [t EXCEPT !.downloading = TRUE, !.toDownload = event.count]
    [] event.name = "download_status" -> [t EXCEPT !.toDownload = event.count]
    [] event.name = "download_stopped" -> [t EXCEPT !.downloading = FALSE]

Emit(c, event) == [c EXCEPT !.told = Hear(@, event)]

EmitOfflineStatusChanged(c) == Emit(c, OfflineModelStatusChangedEvent(c.entry))

\* A record without data counts, be it of a model that is to be deleted.
HowManyModelsToDownload(c) == IF c.entry.present /\ ~c.entry.available THEN 1 ELSE 0

HandleDownloadStatusChanged(c, count) ==
  [Emit(c, OfflineModelsDownloadStatusChangedEvent(count)) EXCEPT !.session.toDownload = count]

HandleDownloadStarted(c, count) ==
  [Emit(c, OfflineModelsDownloadStartedEvent(count)) EXCEPT !.session.downloading = TRUE]

HandleDownloadStopped(c) ==
  [Emit(c, OfflineModelsDownloadStoppedEvent) EXCEPT !.session.downloading = FALSE]

\* Slip: the last download does not end the downloading.
CheckCountOnly(c) ==
  LET count == HowManyModelsToDownload(c)
  IN  IF c.session.toDownload # count THEN HandleDownloadStatusChanged(c, count) ELSE c

CheckAndUpdateModelDownloadStatus(c) ==
  LET count   == HowManyModelsToDownload(c)
      counted == IF c.session.toDownload # count THEN HandleDownloadStatusChanged(c, count) ELSE c
      checked == [counted EXCEPT !.told.unchecked = FALSE]
  IN  CASE c.session.manager /\ c.session.downloading /\ count = 0 ->
             HandleDownloadStopped(checked)
        [] c.session.manager /\ ~c.session.downloading /\ count > 0 ->
             HandleDownloadStarted(checked, count)
        [] OTHER -> checked

----------------------------------------------------------------------------
(* ModelOfflineManager: what is needed *)

\* Slip: edits that are not committed do not count.
CanBeDeletedUncommitted(c) ==
  c.entry.present /\ ~c.entry.subscribed /\ ~c.entry.created /\ ~c.entry.deleted
  /\ ~c.record.present

\* Slip: of a model that is open, too.
CanBeDeletedOpen(c) ==
  c.entry.present /\ ~c.entry.subscribed /\ ~c.entry.created /\ ~c.entry.uncommitted
  /\ ~c.entry.deleted

CanBeDeleted(c) ==
  /\ c.entry.present
  /\ ~c.entry.subscribed /\ ~c.entry.created /\ ~c.entry.uncommitted /\ ~c.entry.deleted
  /\ ~c.record.present

Withdrawn(c, event) == CheckAndUpdateModelDownloadStatus(EmitOfflineStatusChanged(Emit(c, event)))

\* A client that has started asks how things are before it follows the events.
Started(c) ==
  CheckAndUpdateModelDownloadStatus(
    [c EXCEPT !.session.started = TRUE, !.told.status = Status(c.entry)])

AfterDeletion(c, then) ==
  CASE then = "nothing" -> c
    [] then = "start" -> Started(c)
    [] then = "deleted" -> Withdrawn(c, OfflineModelDeletedEvent)
    [] then = "revoked" -> Withdrawn(c, OfflineModelPermissionsRevokedEvent)

DeleteIfNotNeeded(c, then) ==
  IF CanBeDeleted(c)
  THEN Transaction(c, "deleteModels", [gone |-> TRUE, then |-> "forget", next |-> then])
  ELSE AfterDeletion(c, then)

\* What is to be downloaded is not looked at again.
Forgotten(c) ==
  EmitOfflineStatusChanged([c EXCEPT !.entry = NoEntry, !.told.unchecked = @ \/ c.entry.present])

\* A subscription tells no version, by a field of another name than the message has;
\* what is asked for all over again tells the entry's.
SendSubscriptionRequest(c, subscribe, version) ==
  IF c.session.manager
  THEN [c EXCEPT !.out = Append(@, [subscribe |-> subscribe, version |-> version])]
  ELSE c

IsSubscribed(c) == c.entry.present /\ c.entry.subscribed

\* change: what is asked of the one model; then: the request to send, or what is told
\* of a model withdrawn.
UpdateSubscriptions(c, change, then) ==
  LET changed == [c EXCEPT
        !.entry = CASE change = "add" /\ ~c.entry.present ->
                         [NoEntry EXCEPT !.present = TRUE, !.subscribed = TRUE]
                    [] change = "add" /\ c.entry.present -> [@ EXCEPT !.subscribed = TRUE]
                    [] change = "remove" -> [@ EXCEPT !.subscribed = FALSE]
                    [] change = "none" -> @]
      gone    == change = "remove" /\ CanBeDeleted(changed)
      left    == [changed EXCEPT !.entry = IF gone THEN NoEntry ELSE @]
      emitted == IF change = "none" /\ ~IsSubscribed(c) THEN left ELSE EmitOfflineStatusChanged(left)
  IN  Transaction(CheckAndUpdateModelDownloadStatus(emitted),
                  "updateSubscriptions", [change |-> change, gone |-> gone, then |-> then])

\* An entry there is stays as it is.
ModelOpened(c, ops) ==
  LET opened == [c EXCEPT !.record = [present |-> TRUE, ops |-> ops]]
  IN  IF c.entry.present THEN opened
      ELSE EmitOfflineStatusChanged(
             [opened EXCEPT !.entry = [NoEntry EXCEPT !.present = TRUE, !.available = TRUE,
                                                      !.created = c.model.local,
                                                      !.version = c.model.version,
                                                      !.uncommitted = c.model.inflight # <<>>]])

ModelClosed(c) == DeleteIfNotNeeded([c EXCEPT !.model = NoModel, !.record = NoRecord], "nothing")

\* Slip: the first acknowledgement commits the model.
CommitStateAtOnce(c) == [c EXCEPT !.entry.uncommitted = FALSE]

\* The commit state, as the model's events or the storing of an operation tell it.
CommitState(c) ==
  IF c.entry.present /\ ~c.model.local
  THEN EmitOfflineStatusChanged([c EXCEPT !.entry.uncommitted = c.model.inflight # <<>>])
  ELSE c

Snapshot(c) ==
  Transaction(c, "snapshotModel",
    [version |-> c.model.version, seq |-> c.model.seq, data |-> c.model.data,
     ops |-> c.record.ops + 1,
     as |-> AsIs(c.model)])

\* _handleOperation: the snapshot is of the model as it is by now.
HandleOperation(c) ==
  IF ~c.record.present THEN c
  ELSE IF c.record.ops + 1 >= SnapshotInterval THEN Snapshot(c)
  ELSE [c EXCEPT !.record.ops = @ + 1]

----------------------------------------------------------------------------
(* ModelService and RealTimeModel, where they meet the store *)

RequestOpenFromServer(c) ==
  LET opened == [NoModel EXCEPT !.open = TRUE, !.version = ServerVersion(c.server),
                                !.data = ServerData(c.server), !.online = TRUE]
  IN  Transaction([c EXCEPT !.model = opened], "setModelState",
        [version |-> opened.version, seq |-> 0, local |-> FALSE, inflight |-> <<>>,
         data |-> opened.data, then |-> "opened", as |-> AsIs(opened)])

\* The auto-create options: the model is open before it is stored.
CreateNewModelOffline(c) ==
  Transaction(ModelOpened([c EXCEPT !.model =
      [NoModel EXCEPT !.open = TRUE, !.version = 1, !.local = TRUE]], 0),
    "initiateModelCreation",
    [as |-> [version |-> 1, inflight |-> <<>>, data |-> NoData]])

\* d: the store as it was read; d.ops counts what came since its snapshot.
CreateModelFromOfflineState(c, d, resyncOnly) ==
  LET s == Rehydrate(d)
  IN  ModelOpened([c EXCEPT !.model =
        [open |-> TRUE, version |-> s.version, seq |-> s.seq, inflight |-> s.inflight,
         data |-> s.data, local |-> d.created, online |-> FALSE,
         resyncOnly |-> resyncOnly]],
        (d.version - d.snapVersion) + (d.seq - d.snapSeq))

NotAtServer == [exists |-> FALSE, log |-> <<>>, subscribed |-> FALSE, told |-> 0]

RemoveOnline(c) ==
  IF c.session.up
  THEN Transaction([c EXCEPT !.server = NotAtServer], "getModelMetaData",
                   [then |-> "modelDeleted"])
  ELSE c

----------------------------------------------------------------------------
(* Continuations, by the transaction they wait for. *)

DownloadedEntry(version) ==
  [NoEntry EXCEPT !.present = TRUE, !.subscribed = TRUE, !.available = TRUE, !.version = version]

\* An entry that went meanwhile, or never had data, stays as it is.
Updated(c, version) ==
  IF c.entry.present /\ c.entry.available
  THEN Emit([c EXCEPT !.entry = DownloadedEntry(version),
                      !.told.overwritten = @ \/ Status(c.entry) # Status(DownloadedEntry(version))],
            OfflineModelUpdatedEvent(version))
  ELSE c

Downloaded(c, version) ==
  CheckAndUpdateModelDownloadStatus(EmitOfflineStatusChanged(
    Emit([c EXCEPT !.entry = DownloadedEntry(version)], OfflineModelDownloadedEvent(version))))

\* The entries of a restarted client; what is not needed is deleted.
InitOfflineModels(c, d) ==
  LET read == [c EXCEPT !.entry =
                 IF d.meta THEN [present |-> TRUE, subscribed |-> d.subscribed,
                                 available |-> d.available, created |-> d.created,
                                 deleted |-> d.deleted, uncommitted |-> d.uncommitted,
                                 version |-> d.version]
                 ELSE NoEntry]
  IN  DeleteIfNotNeeded(read, "start")

\* The connection on which it began stands.
IsCurrent(c, epoch) == c.session.up /\ epoch = c.session.epoch

\* Those that need it are read and synchronised, or deleted at the server.
SyncDirtyModels(c, d, epoch) ==
  CASE ~IsCurrent(c, epoch) -> c
    [] OTHER ->
       IF ~d.syncRequired \/ c.model.open \/ c.session.opening
       THEN [c EXCEPT !.session.sync = "over"]
       ELSE IF d.available
       THEN Transaction([c EXCEPT !.session.sync = "models"], "getModelState",
                        [then |-> "sync", epoch |-> epoch])
       ELSE RemoveOnline([c EXCEPT !.session.sync = "deleting"])

\* Auto-create options come with the id of a model that the server has not got.  A state
\* that is missing for a synchronisation given up throws.
StateRead(c, d, arg) ==
  CASE Readable(d) ->
         Transaction(c, "claimValueIdPrefix", [d |-> d, then |-> arg.then, epoch |-> arg.epoch])
    [] ~Readable(d) /\ arg.then = "open" ->
         IF c.server.exists THEN [c EXCEPT !.session.opening = FALSE]
         ELSE CreateNewModelOffline(c)
    [] ~Readable(d) /\ arg.then = "sync" /\ IsCurrent(c, arg.epoch) ->
         [c EXCEPT !.session.sync = "over"]
    [] OTHER -> c

\* A model that cannot be rehydrated fails to open, and its synchronisation never ends.  One
\* whose synchronisation was given up is made nevertheless, and its record stays.
PrefixClaimed(c, arg) ==
  CASE ~Rehydrated(arg.d) /\ arg.then = "open" -> [c EXCEPT !.session.opening = FALSE]
    [] Rehydrated(arg.d) /\ arg.then = "open" ->
         CreateModelFromOfflineState([c EXCEPT !.session.opening = FALSE], arg.d, FALSE)
    [] Rehydrated(arg.d) /\ arg.then = "sync" ->
         LET made == CreateModelFromOfflineState(c, arg.d, TRUE)
         IN  IF IsCurrent(c, arg.epoch) THEN made ELSE [made EXCEPT !.model = c.model]
    [] OTHER -> c

\* createOfflineModel: a subscription that the entry had is not in the new one.
CreatedOffline(c, deleted) ==
  EmitOfflineStatusChanged(
    [c EXCEPT !.entry = [NoEntry EXCEPT !.present = TRUE, !.available = TRUE,
                                        !.deleted = deleted, !.created = TRUE],
              !.told.unchecked = @ \/ ~c.entry.available])

DeletionSynchronised(c) ==
  [c EXCEPT !.session.sync = IF @ = "deleting" THEN "over" ELSE @]

MetaDataRead(c, d, then) ==
  CASE then = "mark" -> IF d.meta THEN Transaction(c, "initiateModelDeletion", [gone |-> TRUE])
                        ELSE RemoveOnline(c)
    [] then = "modelDeleted" ->
         IF d.meta THEN Transaction(c, "completeModelDeletion", [gone |-> TRUE])
         ELSE DeletionSynchronised(c)

\* d: the disk, as the transaction left it.
Then(c, d, tx) ==
  CASE tx.op = "getAllModelMetaData" -> InitOfflineModels(c, d)
    [] tx.op = "getModelsRequiringSync" -> SyncDirtyModels(c, d, tx.arg.epoch)
    [] tx.op = "getModelState" -> StateRead(c, d, tx.arg)
    [] tx.op = "claimValueIdPrefix" -> PrefixClaimed(c, tx.arg)
    [] tx.op = "getModelMetaData" -> MetaDataRead(c, d, tx.arg.then)
    [] tx.op = "initiateModelCreation" ->
         CreatedOffline([c EXCEPT !.session.opening = FALSE], d.deleted)
    [] tx.op = "completeModelCreation" ->
         DeleteIfNotNeeded([c EXCEPT !.entry.created = FALSE], "nothing")
    [] tx.op = "initiateModelDeletion" -> RemoveOnline(DeleteIfNotNeeded(c, "nothing"))
    [] tx.op = "completeModelDeletion" -> DeleteIfNotNeeded(DeletionSynchronised(c), "nothing")
    [] tx.op = "updateSubscriptions" ->
         Transaction(c, "deleteModels", [gone |-> tx.arg.gone, then |-> tx.arg.then])
    [] tx.op = "deleteModels" ->
         CASE tx.arg.then = "forget" -> AfterDeletion(Forgotten(c), tx.arg.next)
           [] tx.arg.then \in {"deleted", "revoked"} -> DeleteIfNotNeeded(c, tx.arg.then)
           [] OTHER -> SendSubscriptionRequest(c, tx.arg.then = "subscribe", 0)
    [] tx.op = "setModelState" ->
         IF tx.arg.then = "opened" THEN ModelOpened([c EXCEPT !.session.opening = FALSE], 0)
         ELSE Downloaded(c, tx.arg.version)
    [] tx.op = "processOfflineModelUpdate" -> Updated(c, tx.arg.version)
    [] tx.op \in {"processServerOperation", "processLocalOperation"} -> HandleOperation(c)
    [] tx.op = "snapshotModel" -> [c EXCEPT !.record = [present |-> TRUE, ops |-> 0]]
    [] tx.op = "processOperationAck" -> c

\* Where a failure is caught and the continuation runs all the same.
OrElse(c, tx) ==
  CASE tx.op = "processOfflineModelUpdate" -> Updated(c, tx.arg.version)
    [] tx.op = "initiateModelDeletion" -> RemoveOnline(c)
    [] tx.op = "snapshotModel" -> [c EXCEPT !.record = [present |-> TRUE, ops |-> tx.arg.ops]]
    [] tx.op = "initiateModelCreation" -> [c EXCEPT !.session.opening = FALSE, !.model = NoModel]
    [] tx.op = "claimValueIdPrefix" ->
         [c EXCEPT !.session.opening = IF tx.arg.then = "open" THEN FALSE ELSE @]
    [] OTHER -> c

\* The operations that remain in flight after an acknowledgement are of the version before
\* it; a snapshot taken while operations are in flight forgets that they are; a download may
\* take place when the model has been opened since its message came; and what is being
\* opened may be removed, or deleted as not needed, for it has no record before it is open.
Spoils(tx) ==
  CASE tx.op = "processOperationAck" /\ tx.arg.as.inflight # <<>> -> {"acknowledgement"}
    [] tx.op = "snapshotModel" /\ tx.arg.as.inflight # <<>> -> {"snapshot"}
    [] tx.op \in {"setModelState", "processOfflineModelUpdate"} /\ tx.arg.then = "downloaded"
         /\ (model.open \/ session.opening) -> {"download"}
    [] tx.op = "initiateModelDeletion" /\ (model.open \/ session.opening) -> {"removal"}
    [] tx.op = "deleteModels" /\ tx.arg.gone /\ (model.open \/ session.opening) -> {"unneeded"}
    [] OTHER -> {}

SpoilsOpening(reason) == spoiled' = IF session.opening THEN spoiled \cup {reason} ELSE spoiled

\* A transaction takes place, or aborts, and what waits for it goes on.
StorageStep ==
  /\ queue # <<>>
  /\ LET tx    == Head(queue)
         fails == Aborts(disk, tx)
         after == IF fails THEN disk ELSE Committed(disk, tx)
         c     == [Client EXCEPT !.queue = Tail(@), !.disk = after]
     IN  /\ Becomes(IF fails THEN OrElse(c, tx) ELSE Then(c, after, tx))
         /\ stored' = IF ~fails /\ "as" \in DOMAIN tx.arg THEN tx.arg.as ELSE stored
         /\ spoiled' = spoiled \cup Spoils(tx)
  /\ UNCHANGED used

----------------------------------------------------------------------------
(* The application *)

Called == used.calls < MaxCalls /\ used' = [used EXCEPT !.calls = @ + 1]

\* Calls that open or remove wait while the models to synchronise are being read.
Ready == session.started /\ session.sync \notin {"reading", "models", "deleting"}

Open ==
  /\ Called /\ Ready /\ ~model.open /\ ~session.opening
  /\ session.up => server.exists
  /\ LET c == [Client EXCEPT !.session.opening = TRUE]
     IN  Becomes(IF session.up THEN RequestOpenFromServer(c)
                 ELSE Transaction(c, "getModelState", [then |-> "open", epoch |-> 0]))
  /\ UNCHANGED <<stored, spoiled>>

Usable == model.open /\ ~session.opening /\ ~model.resyncOnly

LocalOperation == [seq |-> model.seq + 1, context |-> model.version, edit |-> used.edits + 1]

Edit ==
  /\ Usable /\ used.edits < MaxEdits
  /\ LET edited == [model EXCEPT !.seq = @ + 1, !.inflight = Append(@, LocalOperation),
                                 !.data = Applied(@, LocalOperation.edit)]
         c      == CommitState([Client EXCEPT !.model = edited])
     IN  Becomes(Transaction([c EXCEPT !.entry.uncommitted = @ \/ c.entry.present],
                   "processLocalOperation", [op |-> LocalOperation, as |-> AsIs(edited)]))
  /\ used' = [used EXCEPT !.edits = @ + 1]
  /\ UNCHANGED <<stored, spoiled>>

\* On a connection a model closes once it is resynchronised and committed.
CanClose == session.up => model.online /\ model.inflight = <<>>

CloseModel ==
  /\ Called /\ Usable /\ CanClose
  /\ Becomes(ModelClosed(Client))
  /\ UNCHANGED <<stored, spoiled>>

\* An open model is closed first.
Remove ==
  /\ Called /\ Ready /\ (model.open => Usable /\ CanClose)
  /\ LET c == IF model.open THEN ModelClosed(Client) ELSE Client
     IN  Becomes(Transaction(c, "getModelMetaData", [then |-> "mark"]))
  /\ UNCHANGED <<stored, spoiled>>

IsModelSubscribed == entry.present /\ entry.subscribed

Subscribe ==
  /\ Called /\ session.started /\ ~IsModelSubscribed
  /\ Becomes(UpdateSubscriptions(Client, "add", "subscribe"))
  /\ UNCHANGED <<stored, spoiled>>

Unsubscribe ==
  /\ Called /\ session.started /\ IsModelSubscribed
  /\ Becomes(UpdateSubscriptions(Client, "remove", "unsubscribe"))
  /\ SpoilsOpening("unneeded")
  /\ UNCHANGED stored

\* To all, which keeps the subscribed ones alone; to none is refused when there is one.
SetSubscriptions ==
  /\ Called /\ session.started
  /\ Becomes(UpdateSubscriptions(Client, "none",
               IF IsModelSubscribed THEN "subscribe" ELSE "unsubscribe"))
  /\ UNCHANGED <<stored, spoiled>>

----------------------------------------------------------------------------
(* The connection *)

Connect ==
  /\ Called /\ session.started /\ ~session.up
  /\ Becomes(Transaction([Client EXCEPT !.session.up = TRUE, !.session.epoch = @ + 1,
                                        !.session.sync = "reading"],
               "getModelsRequiringSync", [epoch |-> session.epoch + 1]))
  /\ UNCHANGED <<stored, spoiled>>

Drop ==
  /\ Called /\ session.up
  /\ LET stopped == IF session.downloading THEN HandleDownloadStopped(Client) ELSE Client
         offline == [stopped EXCEPT !.session.up = FALSE, !.session.manager = FALSE,
                                    !.session.sync = "none", !.out = <<>>,
                                    !.model.online = FALSE, !.server.subscribed = FALSE]
     IN  Becomes(IF model.open /\ model.resyncOnly THEN ModelClosed(offline) ELSE offline)
  /\ UNCHANGED <<stored, spoiled>>

\* A model whose operations the server has not, unknown to it, resynchronises without error.
Resynchronised ==
  /\ session.up /\ model.open /\ ~model.online /\ ~session.opening
  /\ session.sync # "reading"
  /\ \A i \in DOMAIN model.inflight : \A j \in DOMAIN server.log :
       model.inflight[i].edit # server.log[j]
  /\ model.local => ~server.exists
  /\ ~model.local => server.exists
  /\ LET c == [Client EXCEPT !.model.online = TRUE, !.model.local = FALSE, !.server.exists = TRUE]
     IN  Becomes(IF model.local THEN Transaction(c, "completeModelCreation", [gone |-> FALSE])
                 ELSE c)
  /\ UNCHANGED <<stored, spoiled, used>>

\* A model opened to be synchronised closes afterwards, and the next thing follows.
SyncEnds ==
  /\ model.open /\ model.resyncOnly /\ model.online
  /\ model.version = ServerVersion(server) /\ model.inflight = <<>>
  /\ Becomes(ModelClosed([Client EXCEPT !.session.sync = "over"]))
  /\ UNCHANGED <<stored, spoiled, used>>

\* setOnline of the manager: it asks for all it has an entry of.
ManagerOnline ==
  /\ session.up /\ ~session.manager /\ session.sync = "over"
  /\ model.open => model.online
  /\ LET c == CheckAndUpdateModelDownloadStatus([Client EXCEPT !.session.manager = TRUE])
     IN  Becomes(SendSubscriptionRequest(c, entry.present, entry.version))
  /\ UNCHANGED <<stored, spoiled, used>>

\* The process ends, at any time, and starts again.
Crash ==
  /\ used.crashes < MaxCrashes
  /\ used' = [used EXCEPT !.crashes = @ + 1]
  /\ Becomes([Client EXCEPT !.queue = <<[op |-> "getAllModelMetaData", arg |-> [gone |-> FALSE]]>>,
                            !.entry = NoEntry, !.record = NoRecord, !.model = NoModel,
                            !.session = NoSession, !.out = <<>>, !.server.subscribed = FALSE,
                            !.told = NothingTold])
  /\ UNCHANGED <<stored, spoiled>>

----------------------------------------------------------------------------
(* What comes from the server *)

OtherEdits ==
  /\ server.exists /\ used.foreign < MaxForeign
  /\ server' = [server EXCEPT !.log = Append(@, -(used.foreign + 1))]
  /\ used' = [used EXCEPT !.foreign = @ + 1]
  /\ UNCHANGED <<disk, queue, entry, record, model, session, toServer, stored, spoiled, told>>

\* An operation of another client, which those in flight are transformed against.
RemoteOperation ==
  /\ model.open /\ model.online /\ model.version < ServerVersion(server)
  /\ LET edit     == server.log[model.version]
         inflight == [i \in DOMAIN model.inflight |->
                        [model.inflight[i] EXCEPT !.context = model.version + 1]]
         received == [model EXCEPT !.version = @ + 1, !.data = Applied(@, edit),
                                   !.inflight = inflight]
     IN  Becomes(Transaction([Client EXCEPT !.model = received], "processServerOperation",
                   [op |-> [version |-> model.version, edit |-> edit],
                    inflight |-> inflight, as |-> AsIs(received)]))
  /\ UNCHANGED <<stored, spoiled, used>>

\* The server takes the next operation in flight, and says so.
Acknowledgement ==
  /\ model.open /\ model.online /\ model.inflight # <<>> /\ server.exists
  /\ model.version = ServerVersion(server)
  /\ LET op    == Head(model.inflight)
         acked == [model EXCEPT !.version = @ + 1, !.inflight = Tail(@)]
         c     == [Client EXCEPT !.model = acked, !.server.log = Append(@, op.edit)]
     IN  Becomes(Transaction(CommitState(c), "processOperationAck",
                   [seq |-> op.seq, op |-> [version |-> model.version, edit |-> op.edit],
                    as |-> AsIs(acked)]))
  /\ UNCHANGED <<stored, spoiled, used>>

ServerHears ==
  /\ toServer # <<>>
  /\ toServer' = Tail(toServer)
  /\ server' = [server EXCEPT !.subscribed = Head(toServer).subscribe,
                              !.told = Head(toServer).version]
  /\ UNCHANGED <<disk, queue, entry, record, model, session, stored, spoiled, told, used>>

\* State of the server's, without operations of this client in flight.
AsAtServer ==
  [version |-> ServerVersion(server), inflight |-> <<>>, data |-> ServerData(server)]

\* A model that is open, or not subscribed any more, ignores what it is told.
Ignores(c) == c.record.present \/ ~(c.entry.present /\ c.entry.subscribed)

\* The first data of a subscribed model, and later versions.
Downloads(c) ==
  IF Ignores(c) THEN c
  ELSE Transaction(c, IF server.told = 0 THEN "setModelState" ELSE "processOfflineModelUpdate",
         [version |-> ServerVersion(server), seq |-> 0, local |-> FALSE, inflight |-> <<>>,
          data |-> ServerData(server), then |-> "downloaded", as |-> AsAtServer])

ServerTells ==
  /\ server.subscribed /\ server.exists
  /\ server.told < ServerVersion(server)
  /\ Becomes([Downloads(Client) EXCEPT !.server.told = ServerVersion(server)])
  /\ SpoilsOpening("download")
  /\ UNCHANGED <<stored, used>>

\* Deleted at the server, or its permissions revoked.
OfflineModelWithdrawn ==
  /\ server.subscribed /\ server.exists
  /\ LET c == [Client EXCEPT !.server = NotAtServer]
     IN  \E then \in {"deleted", "revoked"} :
           Becomes(IF record.present THEN c ELSE UpdateSubscriptions(c, "remove", then))
  /\ SpoilsOpening("unneeded")
  /\ UNCHANGED <<stored, used>>

----------------------------------------------------------------------------
\* Nothing stored, or subscribed and downloaded earlier.
InitialDisk == {NoDisk, MergeAndPutModelState(AddSubscription(NoDisk),
                          [NewLocal EXCEPT !.local = FALSE])}

Init ==
  /\ disk \in InitialDisk
  /\ queue = <<>>
  /\ entry = IF disk.meta THEN DownloadedEntry(1) ELSE NoEntry
  /\ record = NoRecord /\ model = NoModel
  /\ session = [NoSession EXCEPT !.started = TRUE]
  /\ \E exists \in BOOLEAN :
       /\ disk.meta => exists
       /\ server = [NotAtServer EXCEPT !.exists = exists]
  /\ toServer = <<>>
  /\ stored = [version |-> disk.version, inflight |-> <<>>, data |-> NoData]
  /\ spoiled = {}
  /\ told = [NothingTold EXCEPT !.status = Status(entry)]
  /\ used = [edits |-> 0, foreign |-> 0, calls |-> 0, crashes |-> 0]

Next ==
  \/ StorageStep
  \/ Open \/ Edit \/ CloseModel \/ Remove \/ Subscribe \/ Unsubscribe \/ SetSubscriptions
  \/ Connect \/ Drop \/ Resynchronised \/ SyncEnds \/ ManagerOnline \/ Crash
  \/ OtherEdits \/ RemoteOperation \/ Acknowledgement
  \/ ServerHears \/ ServerTells \/ OfflineModelWithdrawn

Spec == Init /\ [][Next]_vars

----------------------------------------------------------------------------
(***************************************************************************)
(* What an application knows that follows the manager's events: a          *)
(* model's status is that of the entry, save that nothing tells it that a  *)
(* model was created at the server, that one only here was edited, or that *)
(* an update on its way undid an unsubscription or an edit (modelCreated,  *)
(* processLocalOperation, _handleOfflineModelUpdated); the version last    *)
(* told is the entry's; and a download is under way just while the manager *)
(* is online and data is missing, unless an entry went that nobody looked  *)
(* at (_emitOfflineStatusChanged, _checkAndUpdateModelDownloadStatus).     *)
(***************************************************************************)
TellsListeners ==
  session.started =>
    /\ \/ told.status = Status(entry)
       \/ told.overwritten
       \/ /\ told.status.local
          /\ [told.status EXCEPT !.local = entry.created, !.synchronized = ~entry.uncommitted]
               = Status(entry)
    /\ told.version # 0 /\ entry.present => told.version = entry.version
    /\ ~told.unchecked =>
         (told.downloading <=> session.manager /\ entry.present /\ ~entry.available)

(***************************************************************************)
(* Whenever the process ends, the model can be recovered, as               *)
(* _creteModelFromOfflineState has it: initialised with the version of the *)
(* data, the rehydration takes it to the current version.                  *)
(***************************************************************************)
RehydrationSucceeds == Readable(disk) => Rehydrated(disk)

(***************************************************************************)
(* Whenever the process ends, what is recovered (getModelState,            *)
(* _rehydrateFromOfflineState) is the model as the last transaction left   *)
(* it: version, data, each edit once, and the operations the server has    *)
(* still to be told; unless what is known not to be survived happened.     *)
(***************************************************************************)
RecoversWhatWasStored ==
  Readable(disk) /\ spoiled = {} =>
    LET s == Rehydrate(disk)
    IN  /\ Rehydrated(disk)
        /\ s.version = stored.version /\ s.data = stored.data /\ s.inflight = stored.inflight

(***************************************************************************)
(* A model that was deleted, created or edited and not synchronised, and   *)
(* no other, is one that getModelsRequiringSync finds, and one with an     *)
(* edit in the store is such: whatever happens to the process, the server  *)
(* will be told (_setSyncRequired in all of the store's transactions).     *)
(* A download that came while the model was being opened takes its edits   *)
(* away, and the next operation of the server's puts them back unmarked.   *)
(***************************************************************************)
StoredEditsAreFound ==
  /\ disk.syncRequired <=> disk.deleted \/ disk.created \/ disk.uncommitted
  /\ "download" \notin spoiled /\ disk.local # <<>> => disk.uncommitted

(***************************************************************************)
(* An edit in the store stays there until the server has it, and a model   *)
(* created offline until it is created at the server, unless the model is  *)
(* removed: no deletion of what is not needed, no download and no          *)
(* subscription change takes it away (_canBeDeleted, the checks of         *)
(* processOfflineModelUpdate).                                             *)
(***************************************************************************)
EditsOf(ops) == {ops[i].edit : i \in DOMAIN ops}

Releases(tx) ==
  CASE tx.op = "initiateModelDeletion" -> Edits
    [] tx.op = "processOperationAck" -> {tx.arg.op.edit}
    [] OTHER -> {}

UnsyncedKept ==
  [][queue # <<>> /\ spoiled' \subseteq {"acknowledgement"} =>
       /\ EditsOf(disk.local) \subseteq EditsOf(disk'.local) \cup Releases(Head(queue))
       /\ disk.creation /\ ~disk'.creation =>
            Head(queue).op \in {"completeModelCreation", "initiateModelDeletion"}]_vars

(***************************************************************************)
(* With no transaction under way the manager's entry, by which             *)
(* _canBeDeleted decides, knows of every edit and every creation that the  *)
(* store has to synchronise: memory never lags behind the disk in the      *)
(* direction that loses data.                                              *)
(***************************************************************************)
EntryKnowsWhatIsUnsynced ==
  queue = <<>> /\ session.started /\ ~session.opening /\ disk.available
  /\ spoiled \subseteq {"acknowledgement"}
    => /\ disk.uncommitted => entry.present /\ entry.uncommitted
       /\ disk.created => entry.present /\ entry.created

(***************************************************************************)
(* What happens to an open model can be stored: its metadata and details   *)
(* stay for as long as it is open, whatever is unsubscribed, downloaded or *)
(* synchronised meanwhile.                                                 *)
(***************************************************************************)
StoresAnOpenModel ==
  ~(/\ queue # <<>> /\ model.open /\ spoiled \subseteq {"acknowledgement", "snapshot"}
    /\ Head(queue).op \in {"processServerOperation", "processLocalOperation", "processOperationAck"}
    /\ Aborts(disk, Head(queue)))
=============================================================================
