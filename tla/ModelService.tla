----------------------------- MODULE ModelService -----------------------------
(***************************************************************************)
(* ModelService: opening, creating and removing models by their id, and    *)
(* bringing models back in step with the server after a connection was     *)
(* lost, those that are open and those that have changed in the offline    *)
(* store.                                                                  *)
(*                                                                         *)
(* The service is one record, since its operations call one another.  What *)
(* happens within a RealTimeModel while it resynchronises is in            *)
(* ModelResync, how models are stored in OfflineModels: here a model asks  *)
(* to resynchronise, with the creation of a local one as part of that, and *)
(* then tells that it has finished.  Every model in the offline store is   *)
(* subscribed to, and an id is always given.                               *)
(***************************************************************************)
EXTENDS Integers, Sequences, FiniteSets

LOCAL INSTANCE SequencesExt
LOCAL INSTANCE FiniteSetsExt

CONSTANTS
  ModelId,
  InitiallyStored,  \* what the offline store may have of each model to begin with
  Called,    \* bound: the models the application calls for
  MaxCalls,  \* bound: its calls
  MaxDrops   \* bound: how often the connection drops

VARIABLES
  service,
  stored,    \* external: what the offline store has of each model
  existing,  \* external: the models the server has
  hosted,    \* external: the model objects whose resource the server has open
  lost,      \* requests the connection was lost with, that are to time out
  used       \* history: what of the bounds is used up

vars == <<service, stored, existing, hosted, lost, used>>

offline == service.offlineEnabled

----------------------------------------------------------------------------
(* The service *)

None == 0

\* waiting: for the server to close it; taken: it was handed out while it was only there
\* to resynchronise.  Its resource is known as its own number.
NewModel(id, online, local, resyncOnly) ==
  [id |-> id, offline |-> ~online, local |-> local, only |-> resyncOnly,
   resync |-> "no", openAfter |-> FALSE, closing |-> FALSE, waiting |-> "no", open |-> TRUE,
   taken |-> FALSE]

\* History: the models that could not hear of something or heard it instead of another,
\* that nobody waits for or that the service has forgotten, and None once a sync began too
\* late or ended with what the one before had asked for.
Strays(s, ms) == [s EXCEPT !.astray = @ \cup ms]

AddModel(s, model) == [s EXCEPT !.models = Append(@, model)]

Ask(s, request) == [s EXCEPT !.requests = Append(@, request)]

Store(s, task) == [s EXCEPT !.storage = Append(@, task)]

\* A call waits for the sync to start, for a model to be closed, for the call it joins,
\* for an entry, for the store or for the server.
Await(s, k, what, on) == [s EXCEPT !.calls[k].at = what, !.calls[k].on = on]

CallFails(s, k) == Await(s, k, "failed", None)

Ends(s, k) == Await(s, k, "ended", None)

Opened(s, k, m) == [Ends(s, k) EXCEPT !.calls[k].model = m]

IsPending(s, k) == s.calls[k].at \notin {"ended", "failed"}

\* mustCloseAfterResync is part of it.
IsClosing(model) == model.closing \/ (model.resync = "completing" /\ ~model.openAfter)

----------------------------------------------------------------------------
(* The events of the sync, and an application that shows from them whether *)
(* there is one, how many models are left and which are at it.             *)

NothingTold == [syncing |-> FALSE, left |-> 0, models |-> {}]

OfflineModelsSyncStartedEvent(s) == [s EXCEPT !.told.syncing = TRUE]

OfflineModelsSyncCompletedEvent(s) == [s EXCEPT !.told.syncing = FALSE]

OfflineModelsSyncAbortedEvent(s) == [s EXCEPT !.told = NothingTold]

OfflineModelsSyncProgressEvent(s, modelsToSync) == [s EXCEPT !.told.left = modelsToSync]

OfflineModelSyncStartedEvent(s, id) == [s EXCEPT !.told.models = @ \cup {id}]

OfflineModelSyncCompletedEvent(s, id) == [s EXCEPT !.told.models = @ \ {id}]

OfflineModelSyncErrorEvent(s, id) == [s EXCEPT !.told.models = @ \ {id}]

----------------------------------------------------------------------------
(* Models that resynchronise *)

NewEntry(id, action, m) ==
  [id |-> id, action |-> action, inProgress |-> m # None, done |-> FALSE, model |-> m,
   ready |-> IF m # None THEN "resolved" ELSE "pending"]

AddResyncModel(s, id, action, m) ==
  LET e     == Len(s.entries) + 1
      added == [s EXCEPT !.entries = Append(@, NewEntry(id, action, m)), !.resyncing[id] = e]
  IN  IF m = None THEN [added EXCEPT !.queue = Append(@, e)] ELSE added

\* A request that cannot be sent throws, after the model has set out to resynchronise.
ModelSetOnline(s, m) ==
  LET online == [s EXCEPT !.models[m].offline = FALSE, !.models[m].resync = "requested",
                              !.models[m].openAfter = FALSE]
  IN  IF s.connected THEN Ask(online, [type |-> "resync", model |-> m]) ELSE online

ResyncOpenModel(s, m) == ModelSetOnline(AddResyncModel(s, s.models[m].id, "resync", m), m)

\* It is asked for by call k, or for the entry e and k waits for that.
RemoveOnline(s, id, e, k) == Ask(s, [type |-> "delete", id |-> id, entry |-> e, call |-> k])

InitiationFails(s, k) == IF k = None THEN s ELSE CallFails(s, k)

\* k: the call that waits for it, or none.
InitiateModelResync(s, id, k) ==
  LET e       == s.resyncing[id]
      started == OfflineModelSyncStartedEvent(s, id)
      waiting == IF k = None THEN started ELSE Await(started, k, "initiated", e)
  IN  CASE e = None -> InitiationFails(s, k)
        [] e # None /\ s.entries[e].action = "resync" ->
             Store(waiting, [what |-> "load", id |-> id, entry |-> e, call |-> k])
        [] e # None /\ s.entries[e].action = "delete" -> RemoveOnline(waiting, id, e, k)

InProgress(s) ==
  {id \in ModelId : s.resyncing[id] # None /\ s.entries[s.resyncing[id]].inProgress}

\* There is no progress before the start.
Progress(s) ==
  IF s.syncStarting THEN s
  ELSE OfflineModelsSyncProgressEvent(s, Cardinality(InProgress(s)) + Len(s.queue))

SyncIsOver(s) ==
  IF s.syncing THEN [OfflineModelsSyncCompletedEvent(s) EXCEPT !.syncing = FALSE] ELSE s

\* Whatever comes off the queue is not marked as in progress.
CheckResyncQueue(s) ==
  CASE ~s.connected -> s
    [] s.connected /\ InProgress(s) # {} -> Progress(s)
    [] s.connected /\ InProgress(s) = {} /\ s.queue # <<>> ->
         InitiateModelResync([Progress(s) EXCEPT !.queue = Front(@)],
                             s.entries[Last(s.queue)].id, None)
    [] s.connected /\ InProgress(s) = {} /\ s.queue = <<>> ->
         IF s.syncStarting THEN [s EXCEPT !.rechecks = @ + 1] ELSE SyncIsOver(Progress(s))

\* With no entry left the rest is not done.
ResyncCompleted(s, id) ==
  LET e    == s.resyncing[id]
      told == OfflineModelSyncCompletedEvent(s, id)
  IN  IF e = None THEN told
      ELSE CheckResyncQueue([told EXCEPT !.entries[e].done = TRUE, !.resyncing[id] = None])

ResyncError(s, id) ==
  LET e    == s.resyncing[id]
      told == OfflineModelSyncErrorEvent(s, id)
  IN  IF e = None THEN told
      ELSE ResyncCompleted([told EXCEPT !.entries[e].ready = "rejected"], id)

----------------------------------------------------------------------------
(* Closing a model *)

\* The service forgets whichever model it has open by that id.
FinishClose(s, m) ==
  LET id == s.models[m].id
  IN  [Strays(s, {s.openModels[id]} \ {None, m}) EXCEPT
         !.models[m].closing = FALSE, !.models[m].open = FALSE,
         !.openModels[id] = None, !.registered = @ \ {m}]

InitiateClose(s, m, closeWithServer) ==
  LET closing == [s EXCEPT !.models[m].closing = TRUE]
  IN  IF s.connected /\ closeWithServer
      THEN Ask([closing EXCEPT !.models[m].waiting = "yes"], [type |-> "close", model |-> m])
      ELSE FinishClose(closing, m)

----------------------------------------------------------------------------
(* Opening a model *)

ClearOpenRequest(s, id) == [s EXCEPT !.opening[id] = None]

OpenFails(s, k) == CallFails(ClearOpenRequest(s, s.calls[k].id), k)

\* Whichever model the service had by that id is forgotten.
OpenIsDone(s, k, m) ==
  LET id    == s.calls[k].id
      known == Strays(s, {s.openModels[id]} \ {None, m})
  IN  [Opened(ClearOpenRequest(known, id), k, m) EXCEPT !.openModels[id] = m]

\* What is done once there is a model: the connection may be back.
OpenSucceeds(s, k, m) ==
  LET opened == OpenIsDone(s, k, m)
  IN  IF s.models[m].offline /\ s.connected THEN ResyncOpenModel(opened, m) ELSE opened

AskToOpen(s, k) == Ask(s, [type |-> "open", call |-> k])

RequestOpenFromServer(s, k) ==
  IF s.connected THEN AskToOpen(Await(s, k, "server", None), k) ELSE OpenFails(s, k)

AfterInitiation(s, k) ==
  LET e == s.resyncing[s.calls[k].id]
  IN  IF e # None THEN Await(s, k, "ready", e) ELSE RequestOpenFromServer(s, k)

OpenOnlineWithOfflineEnabled(s, k) ==
  LET id     == s.calls[k].id
      queued == {i \in DOMAIN s.queue : s.entries[s.queue[i]].id = id}
  IN  IF queued # {}
      THEN InitiateModelResync([s EXCEPT !.queue = RemoveAt(@, Min(queued))], id, k)
      ELSE AfterInitiation(s, k)

\* When what was resynchronised was deleted, the model is opened and the call is left
\* without it.
EntryReady(s, k) ==
  LET entry == s.entries[s.calls[k].on]
  IN  CASE entry.ready = "rejected" -> OpenFails(s, k)
        [] entry.ready = "resolved" /\ entry.action = "resync" ->
             OpenSucceeds(s, k, entry.model)
        [] entry.ready = "resolved" /\ entry.action = "delete" ->
             IF s.connected THEN OpenFails(AskToOpen(s, k), k) ELSE OpenFails(s, k)

Open(s, k) ==
  LET asked == [s EXCEPT !.opening[s.calls[k].id] = k]
  IN  CASE s.connected /\ s.offlineEnabled  -> OpenOnlineWithOfflineEnabled(asked, k)
        [] s.connected /\ ~s.offlineEnabled -> RequestOpenFromServer(asked, k)
        [] ~s.connected /\ s.offlineEnabled ->
             Store(Await(asked, k, "store", None), [what |-> "openOffline", call |-> k])
        [] ~s.connected /\ ~s.offlineEnabled -> OpenFails(asked, k)

ResyncModel(s, id) ==
  IF s.resyncing[id] = None THEN None ELSE s.entries[s.resyncing[id]].model

\* A model that is only there to resynchronise is told to stay open.
CheckAndOpen(s, k) ==
  LET id       == s.calls[k].id
      m        == s.openModels[id]
      resynced == ResyncModel(s, id)
      Take(found, opened) ==
        IF IsClosing(s.models[found]) THEN Await(s, k, "closing", found) ELSE opened
  IN  CASE m # None -> Take(m, Opened(s, k, m))
        [] m = None /\ s.opening[id] # None -> Await(s, k, "joined", s.opening[id])
        [] m = None /\ s.opening[id] = None /\ resynced # None ->
             Take(resynced, [Opened(s, k, resynced) EXCEPT !.models[resynced].only = FALSE,
                                                          !.models[resynced].taken = TRUE])
        [] m = None /\ s.opening[id] = None /\ resynced = None -> Open(s, k)

----------------------------------------------------------------------------
(* Removing and creating a model *)

RemoveAtLast(s, k) ==
  CASE s.connected -> RemoveOnline(Await(s, k, "server", None), s.calls[k].id, None, k)
    [] ~s.connected -> IF s.offlineEnabled THEN Ends(s, k) ELSE CallFails(s, k)

RemoveStored(s, k) ==
  IF s.offlineEnabled
  THEN Store(Await(s, k, "store", None), [what |-> "mark", call |-> k])
  ELSE RemoveAtLast(s, k)

\* _handleLocallyDeleted throws if the model is closing.
RemoveOpen(s, k) ==
  LET m == s.openModels[s.calls[k].id]
  IN  CASE m = None -> RemoveStored(s, k)
        [] m # None -> IF s.models[m].closing THEN CallFails(s, k)
                       ELSE InitiateClose(Await(s, k, "closing", m), m, TRUE)

RemoveModel(s, k) ==
  LET e == s.resyncing[s.calls[k].id]
  IN  CASE e = None -> RemoveOpen(s, k)
        [] e # None /\ s.entries[e].action = "delete" -> CallFails(s, k)
        [] e # None /\ s.entries[e].action = "resync" ->
             IF s.entries[e].inProgress THEN Await(s, k, "done", e)
             ELSE RemoveOpen([s EXCEPT !.entries[e].action = "delete"], k)

Create(s, k) ==
  CASE s.connected -> Ask(Await(s, k, "server", None), [type |-> "create", call |-> k])
    [] ~s.connected -> IF s.offlineEnabled
                       THEN Store(Await(s, k, "store", None), [what |-> "create", call |-> k])
                       ELSE CallFails(s, k)

\* The deletion that is under way is not waited for.
CheckAndCreate(s, k) ==
  LET e == s.resyncing[s.calls[k].id]
  IN  IF e # None /\ s.entries[e].action = "resync" THEN CallFails(s, k) ELSE Create(s, k)

----------------------------------------------------------------------------
(* Calls that go on *)

Start(s, k) ==
  CASE s.calls[k].what = "open"   -> CheckAndOpen(s, k)
    [] s.calls[k].what = "remove" -> RemoveModel(s, k)
    [] s.calls[k].what = "create" -> CheckAndCreate(s, k)

\* What the call waits for is there.
IsDue(s, k) ==
  LET call == s.calls[k]
  IN  \/ call.at = "sync"    /\ ~s.syncStarting
      \/ call.at = "closing" /\ (~s.models[call.on].open \/ s.models[call.on].waiting = "refused")
      \/ call.at = "joined"  /\ ~IsPending(s, call.on)
      \/ call.at = "ready"   /\ s.entries[call.on].ready # "pending"
      \/ call.at = "done"    /\ s.entries[call.on].done

JoinedEnds(s, k) ==
  LET other == s.calls[s.calls[k].on]
  IN  IF other.at = "failed" THEN CallFails(s, k) ELSE Opened(s, k, other.model)

Closed(s, k) ==
  CASE s.models[s.calls[k].on].open -> CallFails(s, k)
    [] ~s.models[s.calls[k].on].open ->
         IF s.calls[k].what = "open" THEN Open(s, k) ELSE RemoveStored(s, k)

GoOn(s, k) ==
  CASE s.calls[k].at = "sync"    -> Start(s, k)
    [] s.calls[k].at = "closing" -> Closed(s, k)
    [] s.calls[k].at = "joined"  -> JoinedEnds(s, k)
    [] s.calls[k].at = "ready"   -> EntryReady(s, k)
    [] s.calls[k].at = "done"    -> RemoveOpen(s, k)

Due == {k \in DOMAIN service.calls : IsDue(service, k)}

IsRecheckDue == service.rechecks > 0 /\ ~service.syncStarting

\* Promises are settled before anything else happens.
Idle == Due = {} /\ ~IsRecheckDue

Continue ==
  /\ Due # {}
  /\ service' = GoOn(service, Min(Due))
  /\ UNCHANGED <<stored, existing, hosted, lost, used>>

Recheck ==
  /\ Due = {} /\ IsRecheckDue
  /\ service' = CheckResyncQueue([service EXCEPT !.rechecks = @ - 1])
  /\ UNCHANGED <<stored, existing, hosted, lost, used>>

----------------------------------------------------------------------------
(* Calls of the application *)

NewCall(what, id, auto) ==
  [what |-> what, id |-> id, auto |-> auto, at |-> "sync", on |-> None, model |-> None]

CallCounts == used.calls < MaxCalls /\ used' = [used EXCEPT !.calls = @ + 1]

\* Nothing starts while a sync is about to; create() has looked for an open model first.
Call(what, id, auto) ==
  /\ Idle /\ CallCounts
  /\ LET k    == Len(service.calls) + 1
         made == [service EXCEPT !.calls = Append(@, NewCall(what, id, auto))]
     IN  service' = CASE what = "create" /\ service.openModels[id] # None -> CallFails(made, k)
                      [] OTHER -> IF service.syncStarting THEN made ELSE Start(made, k)
  /\ UNCHANGED <<stored, existing, hosted, lost>>

CallOpen(id)           == Call("open", id, FALSE)
CallOpenAutoCreate(id) == Call("open", id, TRUE)
CallRemove(id)         == Call("remove", id, FALSE)

\* A model deleted offline is not created again while offline.
CallCreate(id) == (service.connected \/ stored[id] # "deleted") /\ Call("create", id, FALSE)

InHand(m) == \E k \in DOMAIN service.calls : service.calls[k].model = m

\* A model that is resynchronising is to close when that is done.
Close(m) ==
  /\ Idle /\ CallCounts /\ InHand(m)
  /\ service.models[m].open /\ ~service.models[m].closing
  /\ service' = IF service.models[m].resync # "no"
                THEN [service EXCEPT !.models[m].only = TRUE]
                ELSE InitiateClose(service, m, TRUE)
  /\ UNCHANGED <<stored, existing, hosted, lost>>

----------------------------------------------------------------------------
(* The connection *)

ModelSetOffline(model) ==
  [model EXCEPT !.offline = TRUE, !.resync = "no", !.closing = FALSE, !.open = @ /\ ~model.closing]

\* Slip: the queue is kept.
SetOfflineKeepingQueue(s) ==
  [s EXCEPT !.connected = FALSE, !.requests = <<>>, !.registered = {}]

\* Models that are open go on offline, those that only resynchronise are closed.
SetOffline(s) ==
  LET opened   == {s.openModels[id] : id \in ModelId}
      resynced == {ResyncModel(s, id) : id \in {i \in ModelId : s.openModels[i] = None}}
      After(m) == CASE m \in opened -> ModelSetOffline(s.models[m])
                    [] m \in resynced ->
                         [ModelSetOffline(s.models[m]) EXCEPT !.open = FALSE]
                    [] OTHER -> s.models[m]
      told == IF s.syncing THEN OfflineModelsSyncAbortedEvent(s) ELSE s
  IN  [told EXCEPT
        !.connected = FALSE, !.requests = <<>>, !.registered = {}, !.queue = <<>>,
        !.models = [m \in DOMAIN @ |-> After(m)],
        !.openModels = [id \in ModelId |->
                          IF @[id] # None /\ s.models[@[id]].closing THEN None ELSE @[id]],
        !.resyncing = [id \in ModelId |-> None],
        !.syncStarting = FALSE, !.syncing = FALSE]

\* External: what the server has after the requests that have reached it.
ExistingAfter(ids, request) ==
  CASE request.type = "create" \/ (request.type = "open" /\ service.calls[request.call].auto) ->
         ids \cup {service.calls[request.call].id}
    [] request.type = "resync" /\ service.models[request.model].local ->
         ids \cup {service.models[request.model].id}
    [] request.type = "delete" -> ids \ {request.id}
    [] OTHER -> ids

\* Opened, but not known to the service yet.
BeingStored == {task.model : task \in {t \in ToSet(service.storage) : t.what = "store"}}

Drop ==
  /\ Idle /\ service.connected /\ used.drops < MaxDrops
  /\ used' = [used EXCEPT !.drops = @ + 1]
  /\ service' = LET s == SetOffline(service) IN Strays(s, BeingStored)
  /\ hosted' = {}
  /\ lost' = lost \cup
       {r \in ToSet(service.requests) : r.type \in {"open", "resync", "create", "delete"}}
  /\ \E n \in 0..Len(service.requests) :
       existing' = FoldLeft(ExistingAfter, existing, SubSeq(service.requests, 1, n))
  /\ UNCHANGED stored

SetOnline(s) ==
  LET opened == {id \in ModelId : s.openModels[id] # None}
      online == FoldSet(LAMBDA id, t : ResyncOpenModel(t, t.openModels[id]),
                        [s EXCEPT !.connected = TRUE], opened)
      needs  == [online EXCEPT !.syncing = opened # {} \/ s.offlineEnabled,
                               !.syncStarting = s.offlineEnabled]
  IN  IF s.offlineEnabled THEN Store(needs, [what |-> "syncNeeded"]) ELSE needs

\* The store has answered what was asked of it before the connection was lost.
Connect ==
  /\ Idle /\ ~service.connected
  /\ \A task \in ToSet(service.storage) : task.what \in {"openOffline", "createOpen"}
  /\ service' = SetOnline(service)
  /\ UNCHANGED <<stored, existing, hosted, lost, used>>

\* It ends the entry there is now.
ResyncErrorOfBefore(id) ==
  ResyncError(IF service.resyncing[id] = None THEN service ELSE Strays(service, {None}), id)

\* A request the connection was lost with fails, whatever has happened since.
TimeOut(request) ==
  /\ Idle
  /\ lost' = lost \ {request}
  /\ service' =
       CASE request.type = "open" ->
              IF IsPending(service, request.call) THEN OpenFails(service, request.call)
                                                  ELSE service
         [] request.type = "resync" ->
              ResyncErrorOfBefore(service.models[request.model].id)
         [] request.type = "create" -> CallFails(service, request.call)
         [] request.type = "delete" ->
              InitiationFails(IF request.entry = None THEN service
                              ELSE ResyncErrorOfBefore(request.id), request.call)
  /\ UNCHANGED <<stored, existing, hosted, used>>

----------------------------------------------------------------------------
(* The offline store answers, in the order it was asked *)

Available(id) == stored[id] \in {"clean", "dirty", "local"}

Stored(what) ==
  /\ Idle /\ service.storage # <<>> /\ Head(service.storage).what = what
  /\ UNCHANGED <<existing, hosted, lost, used>>

Rest == [service EXCEPT !.storage = Tail(@)]

Task == Head(service.storage)

\* _syncDirtyModelsToServer.  When there is no sync any more the rest is not done.
SyncDirtyModels ==
  /\ Stored("syncNeeded")
  /\ LET needed == {id \in ModelId :
                      /\ stored[id] \in {"dirty", "local", "deleted"}
                      /\ service.openModels[id] = None
                      /\ service.opening[id] = None
                      /\ service.resyncing[id] = None}
         added  == FoldSet(LAMBDA id, t :
                             AddResyncModel(t, id, IF Available(id) THEN "resync" ELSE "delete",
                                            None),
                           OfflineModelsSyncStartedEvent(Rest), needed)
     IN  service' = IF service.syncing
                    THEN CheckResyncQueue([added EXCEPT !.syncStarting = FALSE])
                    ELSE Strays(added, {None})
  /\ UNCHANGED stored

\* Slip: whoever waits for the model is not told that it is there.
CreateAndSyncSilently(s, task) ==
  LET m    == Len(s.models) + 1
      made == ModelSetOnline(AddModel(s, NewModel(task.id, FALSE, stored[task.id] = "local",
                                                  TRUE)), m)
      known == [made EXCEPT !.entries[task.entry].model = m]
  IN  IF task.call = None THEN known ELSE AfterInitiation(known, task.call)

\* _createAndSyncModel throws when the connection is lost, but for a local model, whose
\* creation fails.
CreateAndSyncModel(s, task) ==
  LET local == stored[task.id] = "local"
      m     == Len(s.models) + 1
      made  == ModelSetOnline(AddModel(s, NewModel(task.id, FALSE, local, TRUE)), m)
      ready == [made EXCEPT !.entries[task.entry].model = m,
                            !.entries[task.entry].ready = "resolved"]
      known == IF s.connected THEN ready ELSE ResyncError(ready, task.id)
  IN  CASE ~s.connected /\ ~local -> InitiationFails(made, task.call)
        [] OTHER -> IF task.call = None THEN known ELSE AfterInitiation(known, task.call)

Loaded ==
  /\ Stored("load")
  /\ service' = IF Available(Task.id) THEN CreateAndSyncModel(Rest, Task)
                ELSE InitiationFails(ResyncError(Rest, Task.id), Task.call)
  /\ UNCHANGED stored

OpenOffline ==
  /\ Stored("openOffline")
  /\ LET k  == Task.call
         id == service.calls[k].id
         m  == Len(service.models) + 1
     IN  service' =
           CASE Available(id) ->
                  OpenSucceeds(AddModel(Rest, NewModel(id, FALSE, stored[id] = "local", FALSE)),
                               k, m)
             [] ~Available(id) /\ service.calls[k].auto ->
                  Store(AddModel(Rest, NewModel(id, FALSE, TRUE, FALSE)),
                        [what |-> "createOpen", call |-> k, model |-> m])
             [] ~Available(id) /\ ~service.calls[k].auto -> OpenFails(Rest, k)
  /\ UNCHANGED stored

CreatedOpen ==
  /\ Stored("createOpen")
  /\ LET id == service.calls[Task.call].id
     IN  IF Available(id)
         THEN service' = OpenFails(Rest, Task.call) /\ UNCHANGED stored
         ELSE /\ stored' = [stored EXCEPT ![id] = "local"]
              /\ service' = OpenSucceeds(Rest, Task.call, Task.model)

\* storeOpenModelOffline, and the call that asked goes on unless it has failed.
OpenStored ==
  /\ Stored("store")
  /\ stored' = [stored EXCEPT ![service.models[Task.model].id] = "clean"]
  /\ service' = IF IsPending(service, Task.call) THEN OpenSucceeds(Rest, Task.call, Task.model)
                ELSE Strays(Rest, {Task.model})

Marked ==
  /\ Stored("mark")
  /\ LET id == service.calls[Task.call].id
     IN  stored' = [stored EXCEPT ![id] = IF @ \in {"none", "local"} THEN "none" ELSE "deleted"]
  /\ service' = RemoveAtLast(Rest, Task.call)

\* The connection may be back by now.
CreatedOffline ==
  /\ Stored("create")
  /\ LET k     == Task.call
         id    == service.calls[k].id
         ended == Ends(Rest, k)
         added == AddResyncModel(ended, id, "resync", None)
         synced == service.queue # <<>> \/ \E i \in ModelId : service.resyncing[i] # None
     IN  IF Available(id)
         THEN service' = CallFails(Rest, k) /\ UNCHANGED stored
         ELSE /\ stored' = [stored EXCEPT ![id] = "local"]
              /\ service' = CASE ~service.connected -> ended
                              [] service.connected /\ synced -> added
                              [] service.connected /\ ~synced -> CheckResyncQueue(added)

----------------------------------------------------------------------------
(* The server answers, in the order it was asked *)

Answer(type) ==
  /\ Idle /\ service.requests # <<>> /\ Head(service.requests).type = type
  /\ UNCHANGED <<lost, used>>

Remaining == [service EXCEPT !.requests = Tail(@)]

Asked == Head(service.requests)

\* The model object a message for the resource of m gets to, while the service hears any.
GetModelForResourceId(s, m) ==
  LET id == s.models[m].id
  IN  CASE m \notin s.registered \/ s.deaf -> None
        [] m \in s.registered /\ ~s.deaf ->
             IF s.openModels[id] # None THEN s.openModels[id] ELSE ResyncModel(s, id)

\* The data of a model that is created automatically is asked for while the call is pending.
HandleModelDataRequest(k) == service.calls[k].auto /\ IsPending(service, k) /\ ~service.deaf

OpenAnswered ==
  /\ Answer("open")
  /\ LET k    == Asked.call
         id   == service.calls[k].id
         m    == Len(service.models) + 1
         made == [AddModel(Remaining, NewModel(id, TRUE, FALSE, FALSE)) EXCEPT
                    !.registered = @ \cup {m}]
     IN  IF id \in existing \/ HandleModelDataRequest(k)
         THEN /\ existing' = existing \cup {id}
              /\ hosted' = hosted \cup {m}
              /\ service' = IF offline
                            THEN Store(made, [what |-> "store", call |-> k, model |-> m])
                            ELSE OpenSucceeds(made, k, m)
         ELSE /\ service' = IF IsPending(service, k) THEN OpenFails(Remaining, k) ELSE Remaining
              /\ UNCHANGED <<existing, hosted>>
  /\ UNCHANGED stored

\* With the operations of both sides exchanged the model tells that it has finished; one
\* that was closed cannot, and one that cannot hear may miss the server's.
ResyncAnswered ==
  /\ Answer("resync")
  /\ LET m     == Asked.model
         model == service.models[m]
         known == [Remaining EXCEPT !.models[m].local = FALSE, !.registered = @ \cup {m}]
         exchanged == Ask([known EXCEPT !.models[m].resync = "completing",
                                        !.models[m].openAfter = ~model.only],
                          [type |-> "complete", model |-> m])
     IN  IF (model.id \in existing) # model.local
         THEN /\ existing' = existing \cup {model.id}
              /\ hosted' = hosted \cup {m}
              /\ IF model.open
                 THEN service' \in {exchanged} \cup (IF service.deaf THEN {known} ELSE {})
                 ELSE service' = ResyncError(Remaining, model.id)
         ELSE service' = ResyncError(Remaining, model.id) /\ UNCHANGED <<existing, hosted>>
  /\ UNCHANGED stored

\* What the handler of a message throws ends the subscription to the messages.
Throws(s) == [s EXCEPT !.deaf = TRUE]

\* A model that is closing or closed cannot be closed.
HandlerCloses(s, m, closeWithServer) ==
  IF s.models[m].open /\ ~s.models[m].closing THEN InitiateClose(s, m, closeWithServer)
  ELSE Throws([s EXCEPT !.models[m].closing = TRUE])

\* It throws where the model does not resynchronise, and where the service has no entry.
ResyncServerComplete(s, m) ==
  LET model     == s.models[m]
      completed == ResyncCompleted([s EXCEPT !.models[m].resync = "no"], model.id)
  IN  CASE model.resync = "no" -> Throws(s)
        [] model.resync # "no" /\ s.resyncing[model.id] = None -> Throws(completed)
        [] model.resync # "no" /\ s.resyncing[model.id] # None ->
             IF model.openAfter /\ ~model.only THEN completed
             ELSE HandlerCloses(completed, m, model.openAfter)

\* It may get to another model of that id.
CompleteAnswered ==
  /\ Answer("complete")
  /\ LET m     == Asked.model
         model == service.models[m]
         hears == GetModelForResourceId(service, m)
         told  == IF hears = m THEN Remaining ELSE Strays(Remaining, {m, hears} \ {None})
     IN  /\ hosted' = IF model.openAfter THEN hosted ELSE hosted \ {m}
         /\ service' = IF hears = None THEN told ELSE ResyncServerComplete(told, hears)
         /\ stored' = IF hears = m /\ offline /\ Available(model.id)
                      THEN [stored EXCEPT ![model.id] = "clean"] ELSE stored
  /\ UNCHANGED existing

CloseAnswered ==
  /\ Answer("close")
  /\ LET m == Asked.model
     IN  /\ hosted' = hosted \ {m}
         /\ service' = CASE m \notin hosted -> [Remaining EXCEPT !.models[m].waiting = "refused"]
                         [] m \in hosted ->
                              IF service.models[m].closing THEN FinishClose(Remaining, m)
                                                           ELSE Remaining
  /\ UNCHANGED <<stored, existing>>

CreateAnswered ==
  /\ Answer("create")
  /\ LET k  == Asked.call
         id == service.calls[k].id
     IN  /\ service' = IF id \in existing THEN CallFails(Remaining, k) ELSE Ends(Remaining, k)
         /\ existing' = existing \cup {id}
  /\ UNCHANGED <<stored, hosted>>

\* The server closes a model that is deleted.
ForceClose(s, id) ==
  LET Closes(m, t) ==
        LET h    == GetModelForResourceId(t, m)
            told == IF h = m THEN t ELSE Strays(t, {m, h} \ {None})
        IN  IF h = None \/ IsClosing(t.models[h]) THEN told ELSE HandlerCloses(told, h, FALSE)
  IN  FoldSet(Closes, s, {m \in hosted : s.models[m].id = id})

\* For an entry a model the server does not have is as good as deleted.
Deleted(s, found) ==
  CASE Asked.entry = None -> IF found THEN Ends(s, Asked.call) ELSE CallFails(s, Asked.call)
    [] Asked.entry # None ->
         LET completed == ResyncCompleted(s, Asked.id)
             ready     == [completed EXCEPT !.entries[Asked.entry].ready = "resolved"]
         IN  CASE s.resyncing[Asked.id] = None -> InitiationFails(s, Asked.call)
               [] OTHER -> IF Asked.call = None THEN ready ELSE AfterInitiation(ready, Asked.call)

DeleteAnswered ==
  /\ Answer("delete")
  /\ existing' = existing \ {Asked.id}
  /\ hosted' = {m \in hosted : service.models[m].id # Asked.id}
  /\ stored' = [stored EXCEPT ![Asked.id] = IF @ = "deleted" THEN "none" ELSE @]
  /\ service' = Deleted(ForceClose(Remaining, Asked.id), Asked.id \in existing)

----------------------------------------------------------------------------
Init ==
  /\ existing \in SUBSET ModelId
  /\ \E offlineEnabled \in BOOLEAN :
       /\ stored \in IF offlineEnabled THEN InitiallyStored ELSE [ModelId -> {"none"}]
       /\ \A id \in ModelId : stored[id] = "local" => id \notin existing
       /\ \A id \in ModelId : stored[id] \in {"clean", "deleted"} => id \in existing
       /\ service = [offlineEnabled |-> offlineEnabled, connected |-> FALSE,
                     models |-> <<>>, calls |-> <<>>, entries |-> <<>>,
                     openModels |-> [id \in ModelId |-> None],
                     opening |-> [id \in ModelId |-> None],
                     resyncing |-> [id \in ModelId |-> None],
                     queue |-> <<>>, syncStarting |-> FALSE, syncing |-> FALSE, rechecks |-> 0,
                     storage |-> <<>>, requests |-> <<>>, registered |-> {}, deaf |-> FALSE,
                     astray |-> {}, told |-> NothingTold]
  /\ hosted = {} /\ lost = {}
  /\ used = [calls |-> 0, drops |-> 0]

Next ==
  \/ Continue \/ Recheck
  \/ \E id \in Called :
       CallOpen(id) \/ CallOpenAutoCreate(id) \/ CallRemove(id) \/ CallCreate(id)
  \/ \E m \in DOMAIN service.models : Close(m)
  \/ Drop \/ Connect
  \/ \E request \in lost : TimeOut(request)
  \/ SyncDirtyModels \/ Loaded \/ OpenOffline \/ CreatedOpen \/ OpenStored \/ Marked
  \/ CreatedOffline
  \/ OpenAnswered \/ ResyncAnswered \/ CompleteAnswered \/ CloseAnswered \/ CreateAnswered
  \/ DeleteAnswered

Spec == Init /\ [][Next]_vars

----------------------------------------------------------------------------
Quiet == Idle /\ service.storage = <<>> /\ service.requests = <<>> /\ lost = {}

\* The connection was lost with it, or its model has been removed under it.
IsForgotten(e) == service.resyncing[service.entries[e].id] # e /\ ~service.entries[e].done

WaitsInVain(k) ==
  service.calls[k].at \in {"ready", "done"} /\ IsForgotten(service.calls[k].on)

(***************************************************************************)
(* Every call to open, create or remove a model comes to an end once       *)
(* everything is answered and connected, with whatever it joined or waited *)
(* for, by whichever order connections, answers and the resynchronisation  *)
(* of the same model came (_checkAndOpen, _openOnlineWithOfflineEnabled,   *)
(* remove, _checkAndCreate); unless it waits for an entry that was dropped *)
(* with a connection, which nobody settles, or a request of an earlier     *)
(* connection ended an entry of this one.                                  *)
(***************************************************************************)
CallsEnd ==
  Quiet /\ service.connected /\ None \notin service.astray => \A k \in DOMAIN service.calls :
    LET call == service.calls[k]
    IN  IsPending(service, k) =>
          WaitsInVain(IF call.at = "joined" THEN call.on ELSE k)

ClosedResyncing ==
  \E id \in ModelId : LET m == ResyncModel(service, id)
                      IN  m # None /\ ~service.models[m].open

(***************************************************************************)
(* Once everything is answered the sync that a connection started is over: *)
(* no model is left in the queue or in progress, and the service does not  *)
(* say that it is resyncing (_checkResyncQueue, _resyncCompleted), nor has *)
(* it left an application that follows the events to show so; unless a     *)
(* model was closed while it was resynchronising, which leaves its entry   *)
(* for ever, or what an earlier connection asked for came in between, or   *)
(* the service has stopped hearing the server.                             *)
(***************************************************************************)
SyncEnds ==
  Quiet /\ service.connected /\ ~service.deaf /\ ~ClosedResyncing /\ None \notin service.astray =>
    /\ ~service.syncing /\ ~service.syncStarting /\ service.queue = <<>>
    /\ \A id \in ModelId : service.resyncing[id] = None
    /\ service.told = NothingTold

(***************************************************************************)
(* Once everything is answered each model the service has open is open     *)
(* with the server, and its messages get to it, whether it was opened      *)
(* online or offline, lost a connection or was created while offline; and  *)
(* the server has no model open that the service does not know             *)
(* (_getModelForResourceId, _close, _setOnline); unless the model still    *)
(* asks to resynchronise, was handed out while it was only resynchronising *)
(* or did not hear what was meant for it and no other, and until the       *)
(* service stops hearing the server at all.                                *)
(***************************************************************************)
OpenModelsWork ==
  Quiet /\ service.connected /\ ~service.deaf =>
    /\ \A id \in ModelId : service.openModels[id] # None =>
         LET m == service.openModels[id]
         IN  \/ service.models[m].resync = "requested" \/ service.models[m].waiting = "refused"
             \/ m \in service.astray
             \/ m \in hosted /\ GetModelForResourceId(service, m) = m
    /\ \A m \in hosted \ service.astray :
         service.models[m].taken \/ service.openModels[service.models[m].id] = m
=============================================================================
