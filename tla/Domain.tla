------------------------------ MODULE Domain ------------------------------
(***************************************************************************)
(* The domain and the identities it knows: ConvergenceDomain's connecting, *)
(* disconnecting and initialisation, the StorageEngine it opens, and the   *)
(* IdentityCache that remembers who the sessions of others belong to, in   *)
(* memory and in the stores of IdbIdentityStore.                           *)
(*                                                                         *)
(* A page is loaded, makes a domain and may be closed at any time; only    *)
(* the disk outlives it.  How a connection is made is the matter of        *)
(* Connection, what the model stores hold that of OfflineModels.  The      *)
(* details of a user are a version, 0 if they are not known.               *)
(***************************************************************************)
EXTENDS Naturals, Sequences, FiniteSets

CONSTANTS
  User, Session,  \* the others of the domain, and their sessions
  Owner,          \* whose a session is, a function from Session to User
  MaxActs,        \* bound: calls of the application, and losses of the connection
  MaxPages,       \* bound: pages loaded
  MaxTold         \* bound: messages about identities, and versions of a user

VARIABLES
  domain,    \* where the connection stands, and whether the domain is initialised
  inits,     \* where the initialisations of this page stand, a sequence
  storage,   \* the StorageEngine and its adapter
  cache,     \* the IdentityCache
  disk,      \* what the two stores hold
  queues,    \* the transactions that wait, for each store
  server,    \* external: the users' details, and whose this connection was told
  toClient,  \* messages on their way
  known,     \* history: what this page has been told, or has found stored
  acts       \* history: what of the bounds is used up

vars ==
  <<domain, inits, storage, cache, disk, queues, server, toClient, known, acts>>

DomainUser == 0 .. MaxTold + 1

Unknown == 0

NoUsers == [u \in User |-> Unknown]

NoSessions == [s \in Session |-> Unknown]

\* A session is cached with the details its user had when it was.
NewCache == [users |-> NoUsers, sessions |-> NoSessions, deaf |-> FALSE]

EmptyStores == [users |-> NoUsers, sessions |-> {}]

NoTransactions == [users |-> <<>>, sessions |-> <<>>]

\* overlaps: a message came while the domain was being initialised;
\* early: a message came when there was a storage that was not open.
NothingKnown ==
  [users |-> NoUsers, sessions |-> {}, restored |-> {}, overlaps |-> FALSE, early |-> FALSE]

NewDomain == [connection |-> "disconnected", initialized |-> FALSE]

\* A domain made by Convergence.connect and the like connects at once.
MadeToConnect == [NewDomain EXCEPT !.connection = "connecting"]

\* With options.storageAdapter there is a storage from the start.
Configure(adapter) == [enabled |-> adapter, open |-> FALSE]

----------------------------------------------------------------------------
(* IdbIdentityStore, as tasks of the database.  The transactions of a store *)
(* take place one by one, those of different stores in any order.           *)

\* With the transaction the continuation that waits for it runs.
With(q, store, transaction) == [q EXCEPT ![store] = Append(@, transaction)]

PutUser(q, user, details) == With(q, "users", [put |-> <<user, details>>])

PutSession(q, session) == With(q, "sessions", [put |-> <<session>>])

GetUsers(q, i) == With(q, "users", [get |-> i])

GetSessions(q, i) == With(q, "sessions", [get |-> i])

IsPut(transaction) == "put" \in DOMAIN transaction

Done(store) == queues' = [queues EXCEPT ![store] = Tail(@)]

UserStored ==
  /\ queues.users # <<>> /\ IsPut(Head(queues.users))
  /\ LET put == Head(queues.users).put
     IN  disk' = [disk EXCEPT !.users[put[1]] = put[2]]
  /\ Done("users")
  /\ UNCHANGED <<domain, inits, storage, cache, server, toClient, known, acts>>

SessionStored ==
  /\ queues.sessions # <<>> /\ IsPut(Head(queues.sessions))
  /\ disk' = [disk EXCEPT !.sessions = @ \cup {Head(queues.sessions).put[1]}]
  /\ Done("sessions")
  /\ UNCHANGED <<domain, inits, storage, cache, server, toClient, known, acts>>

AllUsers == {u \in User : disk.users[u] # Unknown}

\* The first half of IdentityCache.init: what is stored replaces what is cached.
UsersRead ==
  /\ queues.users # <<>> /\ ~IsPut(Head(queues.users))
  /\ LET i == Head(queues.users).get
     IN  /\ inits' = [inits EXCEPT ![i] = "sessions"]
         /\ queues' = GetSessions([queues EXCEPT !.users = Tail(@)], i)
  /\ cache' = [cache EXCEPT !.users = [u \in User |-> IF u \in AllUsers
                                                     THEN disk.users[u] ELSE @[u]]]
  /\ UNCHANGED <<domain, storage, disk, server, toClient, known, acts>>

\* The second half: a session whose user was never stored stays unknown.
SessionsRead ==
  /\ queues.sessions # <<>> /\ ~IsPut(Head(queues.sessions))
  /\ inits' = [inits EXCEPT ![Head(queues.sessions).get] = "done"]
  /\ cache' = [cache EXCEPT !.sessions = [s \in Session |-> IF s \in disk.sessions
                                                           THEN cache.users[Owner[s]] ELSE @[s]]]
  /\ known' = [known EXCEPT !.restored =
                 @ \cup {s \in disk.sessions : Owner[s] \in AllUsers}]
  /\ Done("sessions")
  /\ UNCHANGED <<domain, storage, disk, server, toClient, acts>>

----------------------------------------------------------------------------
(* ConvergenceDomain._init *)

Initialize(d, is) ==
  IF d.initialized THEN is ELSE IF storage.enabled THEN Append(is, "opening") ELSE is

\* Without a storage there is nothing to wait for.
Initialized(d) == [d EXCEPT !.initialized = @ \/ ~storage.enabled]

Opening == {i \in DOMAIN inits : inits[i] = "opening"}

IsNext(i) == i \in Opening /\ \A j \in Opening : i <= j

\* A second initialisation that began before the first had opened the store
\* opens it again.
StoreOpens(i) ==
  /\ IsNext(i)
  /\ storage' = [storage EXCEPT !.open = TRUE]
  /\ domain' = [domain EXCEPT !.initialized = TRUE]
  /\ inits' = [inits EXCEPT ![i] = "models"]
  /\ UNCHANGED <<cache, disk, queues, server, toClient, known, acts>>

\* The call to connect is rejected; the next one initialises the domain.
StoreFails(i) ==
  /\ IsNext(i)
  /\ inits' = [inits EXCEPT ![i] = "failed"]
  /\ acts.calls < MaxActs /\ acts' = [acts EXCEPT !.calls = @ + 1]
  /\ UNCHANGED <<domain, storage, cache, disk, queues, server, toClient, known>>

\* ModelOfflineManager.init is done.
ModelsRead(i) ==
  /\ inits[i] = "models"
  /\ inits' = [inits EXCEPT ![i] = "users"]
  /\ queues' = GetUsers(queues, i)
  /\ UNCHANGED <<domain, storage, cache, disk, server, toClient, known, acts>>

UnderWay == \E i \in DOMAIN inits : inits[i] \notin {"done", "failed"}

----------------------------------------------------------------------------
(* Calls of the application, and the connection *)

Act == acts.calls < MaxActs /\ acts' = [acts EXCEPT !.calls = @ + 1]

\* It throws unless there is a storage.
InitializeOffline ==
  /\ storage.enabled
  /\ inits' = Initialize(domain, inits)
  /\ Act
  /\ UNCHANGED <<domain, storage, cache, disk, queues, server, toClient, known>>

\* connectWithPassword and the like, reconnect.
ConnectWith ==
  /\ domain.connection = "disconnected"
  /\ domain' = [domain EXCEPT !.connection = "connecting"]
  /\ Act
  /\ UNCHANGED <<inits, storage, cache, disk, queues, server, toClient, known>>

\* The server starts afresh with every connection.
NewConnection(d) ==
  /\ domain' = [d EXCEPT !.connection = "connected"]
  /\ server' = [server EXCEPT !.told = {}]

Connected ==
  /\ domain.connection = "connecting"
  /\ NewConnection(Initialized(domain))
  /\ inits' = Initialize(domain, inits)
  /\ UNCHANGED <<storage, cache, disk, queues, toClient, known, acts>>

\* The connection comes back by itself, which initialises nothing.
Reconnected ==
  /\ domain.connection = "reconnecting"
  /\ NewConnection(domain)
  /\ UNCHANGED <<inits, storage, cache, disk, queues, toClient, known, acts>>

Lose(connection) ==
  /\ domain' = [domain EXCEPT !.connection = connection]
  /\ toClient' = <<>>
  /\ Act
  /\ UNCHANGED <<inits, storage, cache, disk, queues, server, known>>

Drop == domain.connection = "connected" /\ Lose("reconnecting")

Disconnect == domain.connection # "disconnected" /\ Lose("disconnected")

\* A domain that is connecting goes on, and nothing keeps it from being used
\* again.
Dispose == domain.connection = "connected" /\ Lose("disconnected")

\* Making a domain that connects is a call to connect.
CallsOf(d) == IF d.connection = "connecting" THEN 1 ELSE 0

\* The page is closed, and another one loaded.
Reload ==
  /\ acts.pages < MaxPages
  /\ domain' \in {NewDomain, MadeToConnect} /\ inits' = <<>> /\ cache' = NewCache
  /\ acts' = [acts EXCEPT !.pages = @ + 1, !.calls = @ + CallsOf(domain')]
  /\ acts'.calls <= MaxActs
  /\ storage' = [storage EXCEPT !.open = FALSE]
  /\ queues' = NoTransactions /\ toClient' = <<>>
  /\ known' = NothingKnown
  /\ UNCHANGED <<disk, server>>

----------------------------------------------------------------------------
(* The server, and IdentityCache._processIdentityUpdate *)

\* External: the details of a user change.
DetailsChange(u) ==
  /\ acts.told < MaxTold /\ acts' = [acts EXCEPT !.told = @ + 1]
  /\ server' = [server EXCEPT !.users[u] = @ + 1, !.told = @ \ {u}]
  /\ UNCHANGED <<domain, inits, storage, cache, disk, queues, toClient, known>>

\* External: before anything of a session the client is told whose it is, and
\* of its user the details it was not told yet.
ServerTells(s) ==
  /\ domain.connection = "connected"
  /\ acts.told < MaxTold /\ acts' = [acts EXCEPT !.told = @ + 1]
  /\ LET users == {Owner[s]} \ server.told
     IN  /\ toClient' = Append(toClient,
                               [users |-> [u \in users |-> server.users[u]], session |-> s])
         /\ server' = [server EXCEPT !.told = @ \cup users]
  /\ UNCHANGED <<domain, inits, storage, cache, disk, queues, known>>

\* A state of cache and queues is changed by operators; with a storage that is
\* not open the first access throws, and an observer that threw is not called
\* again.
CannotStore == storage.enabled /\ ~storage.open

Queued(c, q) == IF storage.enabled THEN q ELSE c.queues

ToDomainUser(message, u) == message.users[u]

UpdateUsers(c, message) ==
  LET named == DOMAIN message.users
      cached == [c EXCEPT !.cache.users = [u \in User |-> IF u \in named
                                                         THEN ToDomainUser(message, u) ELSE @[u]]]
  IN  IF named = {} \/ c.cache.deaf THEN c
      ELSE IF CannotStore THEN [cached EXCEPT !.cache.deaf = TRUE]
      ELSE LET u == CHOOSE u \in named : TRUE
           IN  [cached EXCEPT !.queues = Queued(c, PutUser(@, u, ToDomainUser(message, u)))]

UpdateSessions(c, message) ==
  LET user == c.cache.users[Owner[message.session]]
      cached == [c EXCEPT !.cache.sessions[message.session] = user]
  IN  IF c.cache.deaf THEN c
      ELSE IF CannotStore \/ (storage.enabled /\ user = Unknown)
           THEN [cached EXCEPT !.cache.deaf = TRUE]
      ELSE [cached EXCEPT !.queues = Queued(c, PutSession(@, message.session))]

\* Slip: the sessions are looked at before the users they belong to.
SessionsFirst(c, message) == UpdateUsers(UpdateSessions(c, message), message)

ProcessIdentityUpdate(c, message) == UpdateSessions(UpdateUsers(c, message), message)

Deliver ==
  /\ toClient # <<>>
  /\ LET message == Head(toClient)
         c == ProcessIdentityUpdate([cache |-> cache, queues |-> queues], message)
     IN  /\ cache' = c.cache /\ queues' = c.queues
         /\ known' = [known EXCEPT
                        !.users = [u \in User |-> IF u \in DOMAIN message.users
                                                 THEN message.users[u] ELSE @[u]],
                        !.sessions = @ \cup {message.session},
                        !.overlaps = @ \/ UnderWay,
                        !.early = @ \/ CannotStore]
  /\ toClient' = Tail(toClient)
  /\ UNCHANGED <<domain, inits, storage, disk, server, acts>>

----------------------------------------------------------------------------
Init ==
  /\ \E adapter \in BOOLEAN : storage = Configure(adapter)
  /\ domain \in {NewDomain, MadeToConnect} /\ inits = <<>> /\ cache = NewCache
  /\ disk = EmptyStores /\ queues = NoTransactions
  /\ server = [users |-> [u \in User |-> 1], told |-> {}]
  /\ toClient = <<>> /\ known = NothingKnown
  /\ acts = [calls |-> CallsOf(domain), pages |-> 0, told |-> 0]

Next ==
  \/ InitializeOffline \/ ConnectWith \/ Connected \/ Reconnected
  \/ Drop \/ Disconnect \/ Dispose \/ Reload
  \/ UserStored \/ SessionStored \/ UsersRead \/ SessionsRead
  \/ \E i \in DOMAIN inits : StoreOpens(i) \/ StoreFails(i) \/ ModelsRead(i)
  \/ \E u \in User : DetailsChange(u)
  \/ \E s \in Session : ServerTells(s)
  \/ Deliver

Spec == Init /\ [][Next]_vars

----------------------------------------------------------------------------
(* Properties *)

TypeOK ==
  /\ domain \in [connection : {"disconnected", "connecting", "connected", "reconnecting"},
                 initialized : BOOLEAN]
  /\ inits \in Seq({"opening", "models", "users", "sessions", "done", "failed"})
  /\ storage \in [enabled : BOOLEAN, open : BOOLEAN]
  /\ cache \in [users : [User -> DomainUser], sessions : [Session -> DomainUser], deaf : BOOLEAN]
  /\ disk \in [users : [User -> DomainUser], sessions : SUBSET Session]

(***************************************************************************)
(* The cache tells whose every session is that the server has told of or   *)
(* that was stored with its user, whatever messages, transactions and      *)
(* initialisations overlapped; and the details of a user are those last    *)
(* told, unless a message came during an initialisation, which puts back   *)
(* what was stored.  The cache ends up deaf only if a message came before  *)
(* the storage was open (IdentityCache).                                   *)
(***************************************************************************)
CacheIsRight ==
  /\ cache.deaf => known.early
  /\ \A s \in known.restored : cache.sessions[s] # Unknown
  /\ ~cache.deaf => \A s \in known.sessions : cache.sessions[s] # Unknown
  /\ ~cache.deaf /\ ~known.overlaps =>
       \A u \in User : known.users[u] # Unknown => cache.users[u] = known.users[u]

(***************************************************************************)
(* Once no transaction waits the stores hold what this page was told, so   *)
(* that the next page, which starts from them, knows it too.               *)
(***************************************************************************)
StoresWhatItWasTold ==
  storage.open /\ ~cache.deaf /\ queues = NoTransactions =>
    /\ known.sessions \subseteq disk.sessions
    /\ \A u \in User : known.users[u] # Unknown => disk.users[u] = known.users[u]

KnowsIdentities == TypeOK /\ CacheIsRight /\ StoresWhatItWasTold
=============================================================================
