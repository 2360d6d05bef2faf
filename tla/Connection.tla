----------------------------- MODULE Connection -----------------------------
(***************************************************************************)
(* The connection of a client: ConvergenceConnection with the protocol     *)
(* connections, sockets and heartbeats it makes, one per attempt.          *)
(*                                                                         *)
(* The program is single threaded.  An action is one task of the event     *)
(* loop (a timer, a socket event, a call of the application) or one        *)
(* continuation of a promise; continuations run before the next task.      *)
(* The continuations of one attempt form a chain, and "chain" says where   *)
(* it stands:                                                              *)
(*                                                                         *)
(*   opening -> opened -> generating -> requested -> accepted -> done      *)
(*                                               \-> refused, retry        *)
(*   any of them -> failed -> done   (the catch of _openConnection)        *)
(*                                                                         *)
(* Every task sees the connection as it is when it runs: an attempt that   *)
(* has been replaced goes on and acts on the connection of its successor.  *)
(***************************************************************************)
EXTENDS Naturals, FiniteSets, FiniteSetsExt

CONSTANTS
  Slots,        \* the protocol connections alive at a time, a set of 1 .. n
  Options,      \* the reconnect options to choose from
  MaxOrphans,   \* bound: attempt timers whose handle has been overwritten
  MaxConnects,  \* bound: calls of the application to connect
  MaxFaults     \* bound: failures, silences and refusals of the environment

ASSUME SlotsAssumption == Slots \subseteq Nat \ {0} /\ IsFiniteSet(Slots)
ASSUME OptionsAssumption ==
  Options \subseteq [autoReconnect : BOOLEAN, autoReconnectOnInitial : BOOLEAN,
                     fallbackAuth : BOOLEAN]
ASSUME BoundsAssumption == MaxOrphans \in Nat /\ MaxConnects \in Nat /\ MaxFaults \in Nat

VARIABLES
  conn,         \* the ConvergenceConnection
  protocols,    \* its protocol connections with their sockets
  options,      \* the reconnect options, chosen once
  connects,     \* the calls of the application to connect
  faults        \* the faults the environment has made

vars == <<conn, protocols, options, connects, faults>>

None == 0

States == {"disconnected", "connecting", "connected", "interrupted", "disconnecting"}

\* Continuations that are ready to run; the rest of the chain waits for a task.
Jobs == {"opened", "accepted", "refused", "retry", "failed"}

Chains == Jobs \cup {"opening", "generating", "requested", "done"}

Protocol ==
  [socket : {"none", "connecting", "open", "closing", "closed"},
   subscribed : BOOLEAN,     \* events reach the connection
   connected : BOOLEAN,
   disconnecting : BOOLEAN,  \* disconnect() waits for its close
   chain : Chains,
   via : Slots \cup {None},  \* where the connection request was sent
   heartbeat : {"off", "ping", "pong"}]  \* the timer that runs

Unused == [socket |-> "none", subscribed |-> FALSE, connected |-> FALSE,
           disconnecting |-> FALSE,
           chain |-> "done", via |-> None, heartbeat |-> "off"]

(***************************************************************************)
(* A state of the two, c.conn and c.protocols, is changed by operators     *)
(* from states to states, one per method; an action composes them.         *)
(***************************************************************************)
Now == [conn |-> conn, protocols |-> protocols]

Waiting(c, p) == {q \in Slots : c.protocols[q].chain = "requested" /\ c.protocols[q].via = p}

FreeSlots(c) ==
  {p \in Slots : /\ c.protocols[p].socket \in {"none", "closed"}
                 /\ c.protocols[p].chain = "done"
                 /\ ~c.protocols[p].disconnecting
                 /\ Waiting(c, p) = {}}

(***************************************************************************)
(* The events, which the domain passes on to the application, and their    *)
(* listeners: an application that shows the last one, and the services,    *)
(* online on CONNECTED and offline on INTERRUPTED and DISCONNECTED.        *)
(***************************************************************************)
ConnectionScheduledEvent == "connection_scheduled"
ConnectingEvent == "connecting"
AuthenticatingEvent == "authenticating"
ConnectedEvent == "connected"
ConnectionFailedEvent == "connection_failed"
InterruptedEvent == "interrupted"
DisconnectedEvent == "disconnected"

Events ==
  {ConnectionScheduledEvent, ConnectingEvent, AuthenticatingEvent, ConnectedEvent,
   ConnectionFailedEvent, InterruptedEvent, DisconnectedEvent}

Emit(c, event) ==
  [c EXCEPT !.conn.told = event,
            !.conn.online = (@ \/ event = ConnectedEvent)
                              /\ event \notin {InterruptedEvent, DisconnectedEvent}]

\* A protocol connection that nothing will use again is forgotten.
Becomes(c) ==
  /\ conn' = c.conn
  /\ protocols' = [p \in Slots |-> IF p \in FreeSlots(c) \ {c.conn.current}
                                  THEN Unused ELSE c.protocols[p]]

\* Slip: the services are not told when the connection was being closed.
DisconnectedQuietly(c) ==
  IF c.conn.state = "disconnecting" THEN [c EXCEPT !.conn.state = "disconnected"]
  ELSE IF c.conn.state = "disconnected" THEN c
  ELSE Emit([c EXCEPT !.conn.state = "disconnected"], DisconnectedEvent)

HandleDisconnected(c) ==
  IF c.conn.state = "disconnected" THEN c
  ELSE Emit([c EXCEPT !.conn.state = "disconnected"], DisconnectedEvent)

\* Slip: only the first attempt is watched by the connection timeout.
AttemptUnwatched(c, p) ==
  [Emit(c, ConnectingEvent) EXCEPT
            !.conn.attemptTask = FALSE,
            !.conn.timeoutTask = c.conn.initial,
            !.conn.current = p,
            !.protocols[p] = [Unused EXCEPT !.socket = "connecting",
                                            !.subscribed = TRUE,
                                            !.chain = "opening"]]

AttemptIn(c, p) ==
  [Emit(c, ConnectingEvent) EXCEPT
            !.conn.attemptTask = FALSE,
            !.conn.timeoutTask = TRUE,
            !.conn.current = p,
            !.protocols[p] = [Unused EXCEPT !.socket = "connecting",
                                            !.subscribed = TRUE,
                                            !.chain = "opening"]]

AttemptConnection(c) == AttemptIn(c, Min(FreeSlots(c)))

ConnectToServer(c, method) ==
  AttemptConnection([c EXCEPT !.conn.state = "connecting",
                              !.conn.deferred = "pending",
                              !.conn.generator = TRUE,
                              !.conn.method = method])

ScheduleConnection(c) ==
  IF c.conn.state # "connecting" THEN c
  ELSE [Emit(c, ConnectionScheduledEvent) EXCEPT
          !.conn.attemptTask = TRUE,
          !.conn.orphans = IF c.conn.attemptTask THEN @ + 1 ELSE @]

Reconnects(c) == options.autoReconnect /\ c.conn.token

HandleInterrupted(c) ==
  LET interrupted == Emit([c EXCEPT !.conn.state = "interrupted"], InterruptedEvent)
  IN  IF Reconnects(c) THEN ConnectToServer(interrupted, "reconnect")
      ELSE HandleDisconnected(interrupted)

\* What a socket does to its opening promise when it is closed or fails.
ChainEnds(chain) == IF chain = "opening" THEN "failed" ELSE chain

OnSocketDropped(c, p) ==
  LET d == [c EXCEPT !.protocols[p].connected = FALSE, !.protocols[p].heartbeat = "off"]
  IN  IF c.protocols[p].subscribed THEN HandleInterrupted(d) ELSE d

Abort(c, p) ==
  OnSocketDropped(
    IF c.protocols[p].socket \in {"connecting", "open"}
    THEN [c EXCEPT !.protocols[p].socket = "closing",
                   !.protocols[p].chain = ChainEnds(@)]
    ELSE c,
    p)

CanClose(c, p) == c.protocols[p].socket \in {"connecting", "open"}

\* Slip: closing does not stop the heartbeat.
CloseStillBeating(c, p) ==
  [c EXCEPT !.protocols =
     [q \in Slots |->
        [@[q] EXCEPT
           !.chain = IF q \in Waiting(c, p) THEN "failed"
                     ELSE IF q = p THEN ChainEnds(@) ELSE @,
           !.socket = IF q = p /\ CanClose(c, p) THEN "closing" ELSE @]]]

\* Requests that wait for an answer on p fail, whoever made them.
Closed(c, p, q) ==
  [c.protocols[q] EXCEPT
     !.chain = IF q \in Waiting(c, p) THEN "failed" ELSE IF q = p THEN ChainEnds(@) ELSE @,
     !.socket = IF q = p /\ CanClose(c, p) THEN "closing" ELSE @,
     !.heartbeat = IF q = p THEN "off" ELSE @]

Close(c, p) == [c EXCEPT !.protocols = [q \in Slots |-> Closed(c, p, q)]]

ChainAt(c, p, chain) == [c EXCEPT !.protocols[p].chain = chain]

\* Settling a promise that is not there throws, and the chain's catch runs.
RejectDeferred(c, p, then(_)) ==
  IF c.conn.deferred = "none" THEN ChainAt(c, p, "failed")
  ELSE then([c EXCEPT !.conn.deferred = "settled"])

-----------------------------------------------------------------------------
(* Continuations *)

\* .then of _openConnection and the first half of _sendConnectionRequest: the
\* credentials are asked for, which fails at once when disconnect() has been
\* called.
Opened(p) ==
  /\ protocols[p].chain = "opened"
  /\ LET c == [Now EXCEPT !.conn.timeoutTask = FALSE, !.conn.initial = FALSE,
                          !.protocols[p].connected = TRUE,
                          !.protocols[p].heartbeat = "ping"]
     IN  Becomes(ChainAt(c, p, IF conn.generator THEN "generating" ELSE "failed"))
  /\ UNCHANGED <<options, connects, faults>>

\* _handleConnectionSuccess
Accepted(p) ==
  /\ protocols[p].chain = "accepted"
  /\ LET c == Emit([Now EXCEPT !.conn.state = "connected", !.conn.token = TRUE], ConnectedEvent)
     IN  Becomes(IF conn.deferred = "none" THEN ChainAt(c, p, "failed")
                 ELSE ChainAt([c EXCEPT !.conn.deferred = "none"], p, "done"))
  /\ UNCHANGED <<options, connects, faults>>

\* A reconnect that is refused is put to the application: _handleReconnectFailure.
Challenged(c) ==
  options.fallbackAuth /\ c.conn.method = "reconnect" /\ c.conn.deferred = "pending"

\* _handleConnectionFailure
AfterRefusal(c, p, retryOk) ==
  IF retryOk /\ (~c.conn.initial \/ options.autoReconnectOnInitial)
  THEN ChainAt(ScheduleConnection(c), p, "done")
  ELSE RejectDeferred([c EXCEPT !.conn.generator = @ /\ ~retryOk,
                                !.conn.challenge = @ \/ (~retryOk /\ Challenged(c))],
                      p, LAMBDA d : ChainAt(HandleDisconnected(d), p, "done"))

Refused(p) ==
  /\ protocols[p].chain \in {"refused", "retry"}
  /\ LET c == Emit([Now EXCEPT !.conn.timeoutTask = FALSE], ConnectionFailedEvent)
     IN  IF conn.current = None THEN Becomes(ChainAt(c, p, "failed"))
         ELSE Becomes(AfterRefusal([Close(c, conn.current) EXCEPT
                                      !.protocols[conn.current].subscribed = FALSE,
                                      !.conn.current = None],
                                   p, protocols[p].chain = "retry"))
  /\ conn.attemptTask => conn.orphans < MaxOrphans
  /\ UNCHANGED <<options, connects, faults>>

\* .catch of _openConnection
Failed(p) ==
  /\ protocols[p].chain = "failed"
  /\ LET c == ChainAt(Emit([Now EXCEPT !.conn.timeoutTask = FALSE], ConnectionFailedEvent),
                      p, "done")
     IN  Becomes(IF ~conn.initial \/ options.autoReconnectOnInitial
                 THEN ScheduleConnection(c)
                 ELSE IF conn.deferred = "none" THEN c   \* it throws
                 ELSE HandleDisconnected([c EXCEPT !.conn.deferred = "settled"]))
  /\ conn.attemptTask => conn.orphans < MaxOrphans
  /\ UNCHANGED <<options, connects, faults>>

\* .then of disconnect(): it forgets the protocol connection of the moment,
\* which is another one when the application has connected again.
DisconnectCompletes(p) ==
  /\ protocols[p].disconnecting /\ protocols[p].socket = "closed"
  /\ LET c == [Now EXCEPT !.protocols[p].disconnecting = FALSE]
     IN  Becomes(IF conn.current = None THEN c   \* it throws
                 ELSE HandleDisconnected([c EXCEPT !.protocols[conn.current].subscribed = FALSE,
                                                   !.conn.current = None]))
  /\ UNCHANGED <<options, connects, faults>>

Continuation(p) ==
  Opened(p) \/ Accepted(p) \/ Refused(p) \/ Failed(p) \/ DisconnectCompletes(p)

ContinuationsRan ==
  \A p \in Slots : /\ protocols[p].chain \notin Jobs
                   /\ ~(protocols[p].disconnecting /\ protocols[p].socket = "closed")

\* A task starts when no continuation is left.
Task == ContinuationsRan

\* Bound: a task that connects needs a slot.
Room == FreeSlots(Now) # {}

-----------------------------------------------------------------------------
(* Calls of the application *)

\* connectWithPassword and the like, or reconnect().  A listener of the
\* DISCONNECTED event may call it, before the continuation of disconnect().
Connect(method) ==
  /\ conn.state \in {"disconnected", "interrupted"}
  /\ \A p \in Slots : protocols[p].chain \notin Jobs
  /\ Room
  /\ method = "reconnect" => conn.token
  /\ Becomes(ConnectToServer(Now, method))
  /\ connects < MaxConnects /\ connects' = connects + 1
  /\ UNCHANGED <<options, faults>>

\* disconnect(): with no protocol connection, or with one whose socket has
\* closed, it fails after the state has changed.
Disconnect ==
  /\ ContinuationsRan
  /\ conn.state # "disconnected"
  /\ LET c == [Now EXCEPT !.conn.generator = FALSE, !.conn.timeoutTask = FALSE,
                          !.conn.attemptTask = FALSE, !.conn.deferred = "none",
                          !.conn.state = "disconnecting", !.conn.initial = TRUE,
                          !.conn.windowListener = FALSE]
     IN  Becomes(IF conn.current = None THEN c
                 ELSE [Close(c, conn.current) EXCEPT
                         !.protocols[conn.current].disconnecting =
                            @ \/ CanClose(c, conn.current)])
  /\ UNCHANGED <<options, connects, faults>>

\* The application answers the challenge of fallbackAuth, or cancels it.
AnswerChallenge ==
  /\ Task /\ Room
  /\ conn.challenge
  /\ LET c == [Now EXCEPT !.conn.challenge = FALSE]
     IN  \/ conn.state \in {"disconnected", "interrupted"} /\ Becomes(ConnectToServer(c, "password"))
         \/ Becomes(c)
  /\ UNCHANGED <<options, connects, faults>>

\* The promise of the credentials settles; the request goes to the protocol
\* connection of the moment.
Credentials(p, given) ==
  /\ Task
  /\ protocols[p].chain = "generating"
  /\ LET c == IF given THEN Emit(Now, AuthenticatingEvent) ELSE Now
     IN  Becomes(IF given /\ conn.current # None /\ protocols[conn.current].socket = "open"
                 THEN [c EXCEPT !.protocols[p].chain = "requested",
                                !.protocols[p].via = conn.current]
                 ELSE ChainAt(c, p, "failed"))
  /\ faults' = IF given THEN faults ELSE faults + 1
  /\ faults' <= MaxFaults
  /\ UNCHANGED <<options, connects>>

-----------------------------------------------------------------------------
(* Timers *)

\* _attemptConnection looks at no state and cancels the timer whose handle is
\* kept, be it its own or another.
AttemptTimer ==
  /\ Task /\ Room
  /\ \/ conn.attemptTask /\ Becomes(AttemptConnection(Now))
     \/ conn.orphans > 0 /\ Becomes(AttemptConnection([Now EXCEPT !.conn.orphans = @ - 1]))
  /\ UNCHANGED <<options, connects, faults>>

Fault == faults < MaxFaults /\ faults' = faults + 1 /\ UNCHANGED <<options, connects>>

\* _onConnectionTimeout
ConnectionTimeout ==
  /\ Task /\ Room
  /\ conn.timeoutTask
  /\ LET c == [Now EXCEPT !.conn.timeoutTask = FALSE]
     IN  Becomes(IF conn.current = None THEN c ELSE Abort(c, conn.current))
  /\ Fault

RequestTimeout(p) ==
  /\ Task
  /\ protocols[p].chain = "requested"
  /\ Becomes(ChainAt(Now, p, "failed"))
  /\ \/ Fault
     \/ protocols[protocols[p].via].socket # "open" /\ UNCHANGED <<options, connects, faults>>

\* HeartbeatHelper._sendPing and, when nothing is heard, its _onTimeout.
Ping(p) ==
  /\ Task
  /\ protocols[p].heartbeat = "ping" /\ protocols[p].socket = "open"
  /\ Becomes([Now EXCEPT !.protocols[p].heartbeat = "pong"])
  /\ UNCHANGED <<options, connects, faults>>

PongTimeout(p) ==
  /\ Task /\ Room
  /\ protocols[p].heartbeat = "pong"
  /\ Becomes(Abort(Now, p))
  /\ Fault

\* _onWindowOnline
WindowOnline ==
  /\ Task /\ Room
  /\ conn.windowListener /\ conn.state = "connecting"
  /\ Becomes(AttemptConnection(Now))
  /\ Fault

-----------------------------------------------------------------------------
(* The socket and the server *)

SocketOpens(p) ==
  /\ Task
  /\ protocols[p].socket = "connecting"
  /\ Becomes([Now EXCEPT !.protocols[p].socket = "open",
                         !.protocols[p].chain = "opened"])
  /\ UNCHANGED <<options, connects, faults>>

SocketFails(p) ==
  /\ Task
  /\ protocols[p].socket = "connecting"
  /\ Becomes([Now EXCEPT !.protocols[p].socket = "closed",
                         !.protocols[p].chain = "failed"])
  /\ Fault

\* onclose without a close of ours
SocketDrops(p) ==
  /\ Task /\ Room
  /\ protocols[p].socket = "open" /\ protocols[p].connected
  /\ Becomes(OnSocketDropped([Now EXCEPT !.protocols[p].socket = "closed"], p))
  /\ Fault

\* onclose after a close of ours
SocketClosed(p) ==
  /\ Task
  /\ protocols[p].socket = "closing"
  /\ LET c == [Now EXCEPT !.protocols[p].socket = "closed", !.protocols[p].connected = FALSE]
     IN  Becomes(IF protocols[p].connected /\ protocols[p].subscribed
                 THEN HandleDisconnected(c) ELSE c)
  /\ UNCHANGED <<options, connects, faults>>

\* Any message proves the server alive; ProtocolConnection._onSocketMessage.
Hears(c, p) == IF c.protocols[p].connected THEN [c EXCEPT !.protocols[p].heartbeat = "ping"] ELSE c

Pong(p) ==
  /\ Task
  /\ protocols[p].heartbeat = "pong" /\ protocols[p].socket = "open"
  /\ Becomes(Hears(Now, p))
  /\ UNCHANGED <<options, connects, faults>>

Reply(p, answer) ==
  /\ Task
  /\ protocols[p].chain = "requested"
  /\ protocols[protocols[p].via].socket = "open"
  /\ Becomes(ChainAt(Hears(Now, protocols[p].via), p, answer))
  /\ faults' = IF answer = "accepted" THEN faults ELSE faults + 1
  /\ faults' <= MaxFaults
  /\ UNCHANGED <<options, connects>>

-----------------------------------------------------------------------------
Init ==
  /\ conn = [state |-> "disconnected", current |-> None, initial |-> TRUE,
             token |-> FALSE, generator |-> FALSE, method |-> "password",
             deferred |-> "none", attemptTask |-> FALSE,
             orphans |-> 0, timeoutTask |-> FALSE, windowListener |-> TRUE,
             challenge |-> FALSE, online |-> FALSE, told |-> DisconnectedEvent]
  /\ protocols = [p \in Slots |-> Unused]
  /\ options \in Options
  /\ connects = 0
  /\ faults = 0

Answers == {"accepted", "refused", "retry"}

Next ==
  \/ \E method \in {"password", "reconnect"} : Connect(method)
  \/ Disconnect
  \/ AnswerChallenge
  \/ AttemptTimer
  \/ ConnectionTimeout
  \/ WindowOnline
  \/ \E p \in Slots :
       \/ Continuation(p)
       \/ \E given \in BOOLEAN : Credentials(p, given)
       \/ RequestTimeout(p) \/ Ping(p) \/ Pong(p) \/ PongTimeout(p)
       \/ SocketOpens(p) \/ SocketFails(p) \/ SocketDrops(p) \/ SocketClosed(p)
       \/ \E answer \in Answers : Reply(p, answer)

Spec == Init /\ [][Next]_vars

(***************************************************************************)
(* Properties                                                              *)
(***************************************************************************)

TypeOK ==
  /\ conn \in [state : States, current : Slots \cup {None}, initial : BOOLEAN,
               token : BOOLEAN, generator : BOOLEAN, method : {"password", "reconnect"},
               deferred : {"none", "pending", "settled"},
               attemptTask : BOOLEAN, orphans : 0 .. MaxOrphans, timeoutTask : BOOLEAN,
               windowListener : BOOLEAN, challenge : BOOLEAN, online : BOOLEAN,
               told : Events]
  /\ protocols \in [Slots -> Protocol]
  /\ options \in Options
  /\ connects \in 0 .. MaxConnects
  /\ faults \in 0 .. MaxFaults

(***************************************************************************)
(* Whatever attempts, timers and sockets have piled up, a connection that  *)
(* is "connecting" has something left that will move it on: a timer that   *)
(* runs, or a chain that is past the opening of its socket (a socket that  *)
(* never opens is ended by the connection timeout only).                   *)
(***************************************************************************)
ConnectingIsAlive ==
  conn.state = "connecting" =>
    \/ conn.attemptTask \/ conn.orphans > 0 \/ conn.timeoutTask
    \/ \E p \in Slots : protocols[p].chain \notin {"opening", "done"}
    \/ ~ContinuationsRan

(***************************************************************************)
(* The services hear of the connection through events, which several       *)
(* attempts may raise in any order: what they last heard agrees with the   *)
(* state of the connection, except while it is being closed.  And an       *)
(* application that shows the last event is right when it shows that it is *)
(* connected, disconnected, or about to try again.                         *)
(***************************************************************************)
ServicesFollowConnection ==
  /\ conn.online => conn.state \in {"connected", "disconnecting"}
  /\ conn.state = "connected" => conn.online
  /\ conn.told = ConnectedEvent => conn.state \in {"connected", "disconnecting"}
  /\ conn.told = DisconnectedEvent => conn.state = "disconnected"
  /\ conn.told = ConnectionScheduledEvent =>
       conn.state = "disconnecting" \/ conn.attemptTask \/ conn.orphans > 0
  /\ conn.told # InterruptedEvent

(***************************************************************************)
(* An established socket is always watched, by the ping timer or the pong  *)
(* timeout, and no heartbeat timer outlives its socket, whichever of the   *)
(* sockets alive it belongs to.                                            *)
(***************************************************************************)
HeartbeatWatches ==
  \A p \in Slots :
     /\ protocols[p].connected /\ protocols[p].socket = "open" => protocols[p].heartbeat # "off"
     /\ protocols[p].socket # "open" => protocols[p].heartbeat = "off"

(***************************************************************************)
(* "Whether to automatically reconnect if the initial connection fails":   *)
(* with autoReconnectOnInitial a caller that still waits for its promise   *)
(* is not left with a connection that has been given up.                   *)
(***************************************************************************)
InitialConnectionKeepsTrying ==
  /\ conn.deferred = "pending" /\ options.autoReconnectOnInitial
  /\ ContinuationsRan
  => conn.state # "disconnected"
=============================================================================
