----------------------------- MODULE Client_proofs -----------------------------
(***************************************************************************)
(* That the connection tells its services the truth, watches every socket  *)
(* it has and is never stuck while it is connecting, for any number of     *)
(* sockets, connects and faults.  And that the domain knows whose the      *)
(* sessions are that it was told of, in memory and stored, for any number  *)
(* of users, sessions, pages, messages and initialisations, whatever       *)
(* transactions of the stores overlap.                                     *)
(*                                                                         *)
(* Every action of Connection composes operators from states to states, so *)
(* the invariant is a conjunction of predicates on such a state, and there *)
(* is one lemma per predicate and operator that can disturb it.            *)
(***************************************************************************)
EXTENDS MCClient, AnySequenceLemmas

(***************************************************************************)
(* The connection: the inductive invariant                                 *)
(***************************************************************************)

Conns ==
  [state : States, current : Slots \cup {None}, initial : BOOLEAN,
   token : BOOLEAN, generator : BOOLEAN, method : {"password", "reconnect"},
   deferred : {"none", "pending", "settled"},
   attemptTask : BOOLEAN, orphans : 0 .. MaxOrphans, timeoutTask : BOOLEAN,
   windowListener : BOOLEAN, challenge : BOOLEAN, online : BOOLEAN,
   told : Events]

CStates == [conn : Conns, protocols : [Slots -> Protocol]]

\* A socket that is still connecting is not used yet, on top of HeartbeatWatches.
Watched(s) ==
  /\ s.connected /\ s.socket = "open" => s.heartbeat # "off"
  /\ s.socket # "open" => s.heartbeat = "off"
  /\ s.socket = "connecting" => ~s.connected

WatchedIn(c) == \A p \in Slots : Watched(c.protocols[p])

\* The continuation of a socket that has just opened runs before any other, so
\* that nothing closes the socket under it.
OpenedIn(c) ==
  \A p \in Slots :
     c.protocols[p].chain = "opened" =>
       /\ c.protocols[p].socket = "open"
       /\ \A q \in Slots \ {p} : c.protocols[q].chain \notin Jobs

\* What ServicesFollowConnection says, of a state of the two.
ToldIn(c) ==
  /\ c.conn.online => c.conn.state \in {"connected", "disconnecting"}
  /\ c.conn.state = "connected" => c.conn.online
  /\ c.conn.told = ConnectedEvent => c.conn.state \in {"connected", "disconnecting"}
  /\ c.conn.told = DisconnectedEvent => c.conn.state = "disconnected"
  /\ c.conn.told = ConnectionScheduledEvent =>
       c.conn.state = "disconnecting" \/ c.conn.attemptTask \/ c.conn.orphans > 0
  /\ c.conn.told # InterruptedEvent

PastOpening(c) == \E p \in Slots : c.protocols[p].chain \notin {"opening", "done"}

\* A connection that is connecting has a caller that waits, and something that
\* moves it on; the connection timeout does that only while it has a protocol
\* connection to abort.
MovesIn(c) ==
  c.conn.state = "connecting" =>
    /\ c.conn.deferred = "pending"
    /\ \/ c.conn.attemptTask \/ c.conn.orphans > 0
       \/ c.conn.timeoutTask /\ c.conn.current # None
       \/ PastOpening(c)

\* The events of the protocol connection of the moment are listened to.
SubscribedIn(c) == c.conn.current # None => c.protocols[c.conn.current].subscribed

\* A request that waits has been sent somewhere.
SentIn(c) ==
  \A p \in Slots : c.protocols[p].chain = "requested" => c.protocols[p].via # None

ProtocolsSound(c) == WatchedIn(c) /\ OpenedIn(c) /\ SentIn(c)

Sound(c) == ProtocolsSound(c) /\ ToldIn(c) /\ MovesIn(c) /\ SubscribedIn(c)

Counted == options \in Options /\ connects \in 0 .. MaxConnects /\ faults \in 0 .. MaxFaults

ConnectionInv == Now \in CStates /\ Sound(Now) /\ Counted

(***************************************************************************)
(* The least of a set of numbers                                           *)
(***************************************************************************)

\* _attemptConnection's choice of a free protocol connection is the least of those free.
LEMMA MinOfNaturals ==
  ASSUME NEW T, T \subseteq Nat, T # {}
  PROVE  Min(T) \in T
<1>1. \E x \in T : \A y \in T : x =< y BY LeastNatural
<1> QED BY <1>1 DEF Min

(***************************************************************************)
(* What the operators do to a state                                        *)
(***************************************************************************)

\* A state is its two parts.
LEMMA Parts ==
  ASSUME NEW c \in CStates
  PROVE  /\ c = [conn |-> c.conn, protocols |-> c.protocols]
         /\ c.conn \in Conns /\ c.protocols \in [Slots -> Protocol]
BY DEF CStates

\* If there is a free protocol connection, the one chosen is free.
LEMMA FreeSlotIsOne ==
  ASSUME NEW c, FreeSlots(c) # {}
  PROVE  Min(FreeSlots(c)) \in FreeSlots(c) /\ Min(FreeSlots(c)) \in Slots
<1>1. FreeSlots(c) \subseteq Slots BY DEF FreeSlots
<1>2. FreeSlots(c) \subseteq Nat BY <1>1, SlotsAssumption
<1>3. Min(FreeSlots(c)) \in FreeSlots(c) BY <1>2, MinOfNaturals
<1> QED BY <1>1, <1>3

\* What no socket uses has its type.
LEMMA UnusedType == Unused \in Protocol
BY DEF Unused, Protocol, Chains, Jobs, None

\* An event of the connection changes what the domain and the services were told.
LEMMA EmitDoes ==
  ASSUME NEW c \in CStates, NEW event \in Events
  PROVE  /\ Emit(c, event) \in CStates
         /\ Emit(c, event).protocols = c.protocols
         /\ Emit(c, event).conn =
              [c.conn EXCEPT !.told = event,
                             !.online = (@ \/ event = ConnectedEvent)
                                /\ event \notin {InterruptedEvent, DisconnectedEvent}]
<1> DEFINE heard == (c.conn.online \/ event = ConnectedEvent)
                       /\ event \notin {InterruptedEvent, DisconnectedEvent}
           told == [c.conn EXCEPT !.told = event, !.online = heard]
<1>1. c.conn \in Conns /\ c.protocols \in [Slots -> Protocol] BY DEF CStates
<1>2. heard \in BOOLEAN OBVIOUS
<1>3. told \in Conns
  <2> HIDE DEF heard
  <2> QED BY <1>1, <1>2 DEF Conns
<1>4. Emit(c, event) = [c EXCEPT !.conn = told]
  BY DEF Emit
<1> HIDE DEF told
<1>5. [c EXCEPT !.conn = told] \in CStates
        /\ [c EXCEPT !.conn = told].protocols = c.protocols
        /\ [c EXCEPT !.conn = told].conn = told
  BY <1>3 DEF CStates
<1> QED BY <1>4, <1>5 DEF told

\* _handleDisconnected tells of it unless the connection is disconnected already.
LEMMA HandleDisconnectedDoes ==
  ASSUME NEW c \in CStates
  PROVE  /\ HandleDisconnected(c) \in CStates
         /\ HandleDisconnected(c).protocols = c.protocols
         /\ HandleDisconnected(c).conn =
              IF c.conn.state = "disconnected" THEN c.conn
              ELSE [c.conn EXCEPT !.state = "disconnected", !.told = DisconnectedEvent,
                                  !.online = FALSE]
<1> DEFINE d == [c EXCEPT !.conn.state = "disconnected"]
<1>1. d \in CStates /\ d.protocols = c.protocols
        /\ d.conn = [c.conn EXCEPT !.state = "disconnected"]
  BY DEF CStates, Conns, States
<1>2. DisconnectedEvent \in Events BY DEF Events
<1> HIDE DEF d
<1>3. /\ Emit(d, DisconnectedEvent) \in CStates
      /\ Emit(d, DisconnectedEvent).protocols = d.protocols
      /\ Emit(d, DisconnectedEvent).conn =
           [d.conn EXCEPT !.told = DisconnectedEvent, !.online = FALSE]
  <2>1. (d.conn.online \/ DisconnectedEvent = ConnectedEvent)
           /\ DisconnectedEvent \notin {InterruptedEvent, DisconnectedEvent} <=> FALSE
    OBVIOUS
  <2> QED BY <1>1, <1>2, <2>1, EmitDoes
<1>4. [d.conn EXCEPT !.told = DisconnectedEvent, !.online = FALSE] =
        [c.conn EXCEPT !.state = "disconnected", !.told = DisconnectedEvent, !.online = FALSE]
  BY <1>1 DEF CStates, Conns
<1> QED BY <1>1, <1>3, <1>4 DEF HandleDisconnected, d

\* What an attempt to connect does to the ConvergenceConnection.
AttemptOf(k, p) ==
  [k EXCEPT !.told = ConnectingEvent, !.attemptTask = FALSE,
            !.timeoutTask = TRUE, !.current = p,
            !.online = @]

\* An attempt uses a protocol connection of its own.
LEMMA AttemptInDoes ==
  ASSUME NEW c \in CStates, NEW p \in Slots
  PROVE  /\ AttemptIn(c, p) \in CStates
         /\ AttemptIn(c, p).conn = AttemptOf(c.conn, p)
         /\ AttemptIn(c, p).protocols =
              [c.protocols EXCEPT ![p] = [Unused EXCEPT !.socket = "connecting",
                                                        !.subscribed = TRUE,
                                                        !.chain = "opening"]]
<1> DEFINE d == Emit(c, ConnectingEvent)
           new == [Unused EXCEPT !.socket = "connecting", !.subscribed = TRUE,
                                 !.chain = "opening"]
<1>1. ConnectingEvent \in Events /\ ConnectingEvent # ConnectedEvent
        /\ ConnectingEvent \notin {InterruptedEvent, DisconnectedEvent}
  BY DEF Events, ConnectingEvent, ConnectedEvent, InterruptedEvent, DisconnectedEvent
<1>2. /\ d \in CStates /\ d.protocols = c.protocols
      /\ d.conn = [c.conn EXCEPT !.told = ConnectingEvent,
                                 !.online = (@ \/ ConnectingEvent = ConnectedEvent)
                                   /\ ConnectingEvent \notin {InterruptedEvent, DisconnectedEvent}]
  BY <1>1, EmitDoes
<1>3. c.conn \in Conns BY DEF CStates
<1>4. d.conn = [c.conn EXCEPT !.told = ConnectingEvent, !.online = @]
  <2>1. c.conn.online \in BOOLEAN BY <1>3 DEF Conns
  <2>2. ((c.conn.online \/ ConnectingEvent = ConnectedEvent)
           /\ ConnectingEvent \notin {InterruptedEvent, DisconnectedEvent}) = c.conn.online
    BY <1>1, <2>1
  <2> QED BY <1>2, <2>2
<1>5. new \in Protocol
  BY DEF Unused, Protocol, Chains, Jobs, None
<1>6. AttemptIn(c, p) =
        [d EXCEPT !.conn = [@ EXCEPT !.attemptTask = FALSE, !.timeoutTask = TRUE, !.current = p],
                  !.protocols = [@ EXCEPT ![p] = new]]
  <2> HIDE DEF d
  <2>1. AttemptIn(c, p) = [d EXCEPT !.conn.attemptTask = FALSE, !.conn.timeoutTask = TRUE,
                                    !.conn.current = p, !.protocols[p] = new]
    BY DEF AttemptIn, d
  <2> HIDE DEF new
  <2> QED BY <2>1, <1>2 DEF CStates, Conns
<1>7. [d.conn EXCEPT !.attemptTask = FALSE, !.timeoutTask = TRUE, !.current = p]
        = AttemptOf(c.conn, p)
  <2> HIDE DEF d
  <2> QED BY <1>3, <1>4 DEF AttemptOf, Conns
<1>8. AttemptOf(c.conn, p) \in Conns
  BY <1>1, <1>3 DEF Conns, AttemptOf
<1>9. [c.protocols EXCEPT ![p] = new] \in [Slots -> Protocol]
  BY <1>5 DEF CStates
<1>10. AttemptIn(c, p) = [conn |-> AttemptOf(c.conn, p),
                          protocols |-> [c.protocols EXCEPT ![p] = new]]
  <2> HIDE DEF d, new
  <2> QED BY <1>2, <1>6, <1>7 DEF CStates
<1> HIDE DEF d, new
<1>11. AttemptIn(c, p) \in CStates BY <1>8, <1>9, <1>10 DEF CStates
<1> QED BY <1>10, <1>11 DEF new

\* _scheduleConnection sets a timer as long as the connection is connecting; one that was set
\* already is forgotten and runs on.
LEMMA ScheduleDoes ==
  ASSUME NEW c \in CStates, c.conn.attemptTask => c.conn.orphans < MaxOrphans
  PROVE  /\ ScheduleConnection(c) \in CStates
         /\ ScheduleConnection(c).protocols = c.protocols
         /\ ScheduleConnection(c).conn =
              IF c.conn.state # "connecting" THEN c.conn
              ELSE [c.conn EXCEPT !.told = ConnectionScheduledEvent, !.attemptTask = TRUE,
                                  !.orphans = IF c.conn.attemptTask THEN @ + 1 ELSE @]
<1> DEFINE d == Emit(c, ConnectionScheduledEvent)
           n == IF c.conn.attemptTask THEN c.conn.orphans + 1 ELSE c.conn.orphans
           scheduled == [c.conn EXCEPT !.told = ConnectionScheduledEvent, !.attemptTask = TRUE,
                                       !.orphans = n]
<1>1. ConnectionScheduledEvent \in Events /\ ConnectionScheduledEvent # ConnectedEvent
        /\ ConnectionScheduledEvent \notin {InterruptedEvent, DisconnectedEvent}
  BY DEF Events, ConnectionScheduledEvent, ConnectedEvent, InterruptedEvent, DisconnectedEvent
<1>2. c.conn \in Conns BY DEF CStates
<1>3. d.conn = [c.conn EXCEPT !.told = ConnectionScheduledEvent, !.online = @]
  <2>1. c.conn.online \in BOOLEAN BY <1>2 DEF Conns
  <2>2. ((c.conn.online \/ ConnectionScheduledEvent = ConnectedEvent)
           /\ ConnectionScheduledEvent \notin {InterruptedEvent, DisconnectedEvent}) = c.conn.online
    BY <1>1, <2>1
  <2>3. d.conn = [c.conn EXCEPT !.told = ConnectionScheduledEvent,
                    !.online = (@ \/ ConnectionScheduledEvent = ConnectedEvent)
                       /\ ConnectionScheduledEvent \notin {InterruptedEvent, DisconnectedEvent}]
    BY <1>1, EmitDoes
  <2> QED BY <2>2, <2>3
<1>4. d \in CStates /\ d.protocols = c.protocols BY <1>1, EmitDoes
<1>5. scheduled \in Conns
  <2>1. n \in 0 .. MaxOrphans BY <1>2, BoundsAssumption DEF Conns
  <2> HIDE DEF n
  <2> QED BY <1>1, <1>2, <2>1 DEF Conns
<1>6. [d EXCEPT !.conn.attemptTask = TRUE,
                !.conn.orphans = IF c.conn.attemptTask THEN @ + 1 ELSE @]
        = [conn |-> scheduled, protocols |-> c.protocols]
  <2>1. d.conn.orphans = c.conn.orphans BY <1>2, <1>3 DEF Conns
  <2>2. [d EXCEPT !.conn.attemptTask = TRUE,
                  !.conn.orphans = IF c.conn.attemptTask THEN @ + 1 ELSE @]
          = [d EXCEPT !.conn.attemptTask = TRUE, !.conn.orphans = n]
    <3> HIDE DEF d
    <3> QED BY <1>4, <2>1 DEF CStates, Conns
  <2>3. [d.conn EXCEPT !.attemptTask = TRUE, !.orphans = n] = scheduled
    <3> HIDE DEF d, n
    <3> QED BY <1>2, <1>3 DEF Conns
  <2> HIDE DEF scheduled, d, n
  <2>4. [d EXCEPT !.conn.attemptTask = TRUE, !.conn.orphans = n]
          = [d EXCEPT !.conn = [d.conn EXCEPT !.attemptTask = TRUE, !.orphans = n]]
    BY <1>4 DEF CStates, Conns
  <2>5. [d EXCEPT !.conn = scheduled] = [conn |-> scheduled, protocols |-> c.protocols]
    BY <1>4 DEF CStates
  <2> QED BY <2>2, <2>3, <2>4, <2>5
<1>7. CASE c.conn.state = "connecting"
  <2>1. ScheduleConnection(c) = [conn |-> scheduled, protocols |-> c.protocols]
    BY <1>6, <1>7 DEF ScheduleConnection
  <2> HIDE DEF scheduled, d
  <2>2. ScheduleConnection(c) \in CStates BY <1>5, <2>1 DEF CStates
  <2> QED BY <1>7, <2>1, <2>2 DEF scheduled
<1>8. CASE c.conn.state # "connecting"
  BY <1>8 DEF ScheduleConnection
<1> QED BY <1>7, <1>8

\* What an attempt to connect does to the protocol connection it takes.
Fresh(f, p) ==
  [f EXCEPT ![p] = [Unused EXCEPT !.socket = "connecting", !.subscribed = TRUE,
                                  !.chain = "opening"]]

\* Which protocol connections are free they decide alone.
LEMMA FreeSlotsOfProtocols ==
  ASSUME NEW c, NEW d, c.protocols = d.protocols
  PROVE  FreeSlots(c) = FreeSlots(d)
BY DEF FreeSlots, Waiting

\* _attemptConnection uses one that is free.
LEMMA AttemptConnectionDoes ==
  ASSUME NEW c \in CStates, FreeSlots(c) # {}
  PROVE  /\ AttemptConnection(c) \in CStates
         /\ \E p \in Slots : /\ AttemptConnection(c).conn = AttemptOf(c.conn, p)
                             /\ AttemptConnection(c).protocols = Fresh(c.protocols, p)
BY FreeSlotIsOne, AttemptInDoes DEF AttemptConnection, Fresh

\* _connectToServer, of the ConvergenceConnection.
ConnectOf(k, method) ==
  [k EXCEPT !.state = "connecting", !.deferred = "pending", !.generator = TRUE,
            !.method = method]

\* connect and reconnect, which both call it.
LEMMA ConnectToServerDoes ==
  ASSUME NEW c \in CStates, NEW method \in {"password", "reconnect"}, FreeSlots(c) # {}
  PROVE  /\ ConnectToServer(c, method) \in CStates
         /\ \E p \in Slots :
              /\ ConnectToServer(c, method).conn = AttemptOf(ConnectOf(c.conn, method), p)
              /\ ConnectToServer(c, method).protocols = Fresh(c.protocols, p)
<1> DEFINE d == [c EXCEPT !.conn.state = "connecting", !.conn.deferred = "pending",
                          !.conn.generator = TRUE, !.conn.method = method]
<1>1. c.conn \in Conns /\ c.protocols \in [Slots -> Protocol] BY DEF CStates
<1>2. ConnectOf(c.conn, method) \in Conns
  BY <1>1 DEF Conns, ConnectOf, States
<1>3. d = [c EXCEPT !.conn = ConnectOf(c.conn, method)]
  BY <1>1 DEF CStates, Conns, ConnectOf
<1>4. d \in CStates /\ d.conn = ConnectOf(c.conn, method) /\ d.protocols = c.protocols
  BY <1>1, <1>2, <1>3 DEF CStates
<1>5. ConnectToServer(c, method) = AttemptConnection(d)
  BY DEF ConnectToServer
<1> HIDE DEF d
<1>6. FreeSlots(d) # {} BY <1>4, FreeSlotsOfProtocols
<1> QED BY <1>4, <1>5, <1>6, AttemptConnectionDoes

\* The events of a lost connection, before anything is done about it.
Interrupted(c) == Emit([c EXCEPT !.conn.state = "interrupted"], InterruptedEvent)

\* A connection that is interrupted tells so.
LEMMA InterruptedDoes ==
  ASSUME NEW c \in CStates
  PROVE  /\ Interrupted(c) \in CStates
         /\ Interrupted(c).protocols = c.protocols
         /\ Interrupted(c).conn =
              [c.conn EXCEPT !.state = "interrupted", !.told = InterruptedEvent, !.online = FALSE]
<1> DEFINE d == [c EXCEPT !.conn.state = "interrupted"]
<1>1. d \in CStates /\ d.protocols = c.protocols
        /\ d.conn = [c.conn EXCEPT !.state = "interrupted"]
  BY DEF CStates, Conns, States
<1>2. InterruptedEvent \in Events BY DEF Events
<1> HIDE DEF d
<1>3. /\ Emit(d, InterruptedEvent) \in CStates
      /\ Emit(d, InterruptedEvent).protocols = d.protocols
      /\ Emit(d, InterruptedEvent).conn =
           [d.conn EXCEPT !.told = InterruptedEvent, !.online = FALSE]
  <2>1. (d.conn.online \/ InterruptedEvent = ConnectedEvent)
           /\ InterruptedEvent \notin {InterruptedEvent, DisconnectedEvent} <=> FALSE
    OBVIOUS
  <2> QED BY <1>1, <1>2, <2>1, EmitDoes
<1>4. [d.conn EXCEPT !.told = InterruptedEvent, !.online = FALSE] =
        [c.conn EXCEPT !.state = "interrupted", !.told = InterruptedEvent, !.online = FALSE]
  BY <1>1 DEF CStates, Conns
<1> QED BY <1>1, <1>3, <1>4 DEF Interrupted, d

\* A protocol connection used afresh is watched as the others are.
LEMMA FreshKeeps ==
  ASSUME NEW c \in CStates, NEW d \in CStates, NEW p \in Slots,
         ProtocolsSound(c), d.protocols = Fresh(c.protocols, p)
  PROVE  ProtocolsSound(d) /\ d.protocols[p].subscribed
<1>1. c.protocols \in [Slots -> Protocol] BY DEF CStates
<1>2. /\ d.protocols[p].socket = "connecting" /\ d.protocols[p].subscribed
      /\ d.protocols[p].chain = "opening" /\ d.protocols[p].heartbeat = "off"
      /\ ~d.protocols[p].connected
  BY <1>1 DEF Fresh, Unused
<1>3. \A q \in Slots \ {p} : d.protocols[q] = c.protocols[q]
  BY <1>1 DEF Fresh
<1>4. WatchedIn(d) BY <1>2, <1>3 DEF Watched, WatchedIn, ProtocolsSound
<1>5. OpenedIn(d)
  <2>1. "opening" \notin Jobs BY DEF Jobs
  <2> QED BY <1>2, <1>3, <2>1 DEF OpenedIn, ProtocolsSound
<1>6. SentIn(d) BY <1>2, <1>3 DEF SentIn, ProtocolsSound
<1> QED BY <1>2, <1>4, <1>5, <1>6 DEF ProtocolsSound

(***************************************************************************)
(* What the operators keep of the invariant                                *)
(***************************************************************************)

\* An attempt leaves something that moves the connection on, whichever timer has
\* been used up for it (_attemptConnection).
LEMMA AttemptSound ==
  ASSUME NEW c \in CStates, FreeSlots(c) # {}, ProtocolsSound(c),
         c.conn.online => c.conn.state \in {"connected", "disconnecting"},
         c.conn.state = "connected" => c.conn.online,
         c.conn.state = "connecting" => c.conn.deferred = "pending"
  PROVE  AttemptConnection(c) \in CStates /\ Sound(AttemptConnection(c))
<1> DEFINE d == AttemptConnection(c)
<1>1. d \in CStates BY AttemptConnectionDoes
<1>2. PICK p \in Slots : d.conn = AttemptOf(c.conn, p) /\ d.protocols = Fresh(c.protocols, p)
  BY AttemptConnectionDoes
<1> HIDE DEF d
<1>3. ProtocolsSound(d) /\ d.protocols[p].subscribed
  BY <1>1, <1>2, FreshKeeps
<1>4. /\ d.conn.state = c.conn.state /\ d.conn.told = ConnectingEvent
      /\ d.conn.deferred = c.conn.deferred /\ d.conn.online = c.conn.online
      /\ d.conn.timeoutTask /\ d.conn.current = p
  BY <1>2 DEF CStates, Conns, AttemptOf
<1>5. ToldIn(d)
  BY <1>4 DEF ToldIn, ConnectingEvent, ConnectedEvent, DisconnectedEvent,
       ConnectionScheduledEvent, InterruptedEvent
<1>6. MovesIn(d)
  <2>1. p # None BY SlotsAssumption DEF None
  <2> QED BY <1>4, <2>1 DEF MovesIn
<1>7. SubscribedIn(d) BY <1>3, <1>4 DEF SubscribedIn
<1> QED BY <1>1, <1>3, <1>5, <1>6, <1>7 DEF Sound, d

\* Connecting starts from scratch, once the services are offline (_connectToServer).
LEMMA ConnectSound ==
  ASSUME NEW c \in CStates, NEW method \in {"password", "reconnect"}, FreeSlots(c) # {},
         ProtocolsSound(c), ~c.conn.online
  PROVE  ConnectToServer(c, method) \in CStates /\ Sound(ConnectToServer(c, method))
<1> DEFINE d == ConnectToServer(c, method)
<1>1. d \in CStates BY ConnectToServerDoes
<1>2. PICK p \in Slots : /\ d.conn = AttemptOf(ConnectOf(c.conn, method), p)
                         /\ d.protocols = Fresh(c.protocols, p)
  BY ConnectToServerDoes
<1> HIDE DEF d
<1>3. ProtocolsSound(d) /\ d.protocols[p].subscribed
  BY <1>1, <1>2, FreshKeeps
<1>4. /\ d.conn.state = "connecting" /\ d.conn.told = ConnectingEvent
      /\ d.conn.deferred = "pending" /\ ~d.conn.online
      /\ d.conn.timeoutTask /\ d.conn.current = p
  BY <1>2 DEF CStates, Conns, AttemptOf, ConnectOf
<1>5. ToldIn(d)
  BY <1>4 DEF ToldIn, ConnectingEvent, ConnectedEvent, DisconnectedEvent,
       ConnectionScheduledEvent, InterruptedEvent
<1>6. MovesIn(d)
  <2>1. p # None BY SlotsAssumption DEF None
  <2> QED BY <1>4, <2>1 DEF MovesIn
<1>7. SubscribedIn(d) BY <1>3, <1>4 DEF SubscribedIn
<1> QED BY <1>1, <1>3, <1>5, <1>6, <1>7 DEF Sound, d

\* The same protocol connections are as well watched.
LEMMA SameProtocols ==
  ASSUME NEW c, NEW d, d.protocols = c.protocols, ProtocolsSound(c)
  PROVE  ProtocolsSound(d)
BY DEF ProtocolsSound, Watched, WatchedIn, OpenedIn, SentIn

\* Being disconnected is always told (_handleDisconnected).
LEMMA DisconnectedSound ==
  ASSUME NEW c \in CStates, ProtocolsSound(c), SubscribedIn(c),
         c.conn.state = "disconnected" => ToldIn(c)
  PROVE  /\ HandleDisconnected(c) \in CStates /\ Sound(HandleDisconnected(c))
<1> DEFINE d == HandleDisconnected(c)
<1>1. /\ d \in CStates /\ d.protocols = c.protocols
      /\ d.conn = IF c.conn.state = "disconnected" THEN c.conn
                  ELSE [c.conn EXCEPT !.state = "disconnected", !.told = DisconnectedEvent,
                                      !.online = FALSE]
  BY HandleDisconnectedDoes
<1> HIDE DEF d
<1>2. ProtocolsSound(d) BY <1>1, SameProtocols
<1>3. d.conn.state = "disconnected" /\ d.conn.current = c.conn.current
  BY <1>1 DEF CStates, Conns
<1>4. ToldIn(d)
  <2>1. CASE c.conn.state = "disconnected"
    BY <1>1, <2>1 DEF ToldIn
  <2>2. CASE c.conn.state # "disconnected"
    <3>1. d.conn.told = DisconnectedEvent /\ ~d.conn.online
      BY <1>1, <2>2 DEF CStates, Conns
    <3> QED BY <1>3, <3>1 DEF ToldIn, DisconnectedEvent, ConnectedEvent,
              ConnectionScheduledEvent, InterruptedEvent
  <2> QED BY <2>1, <2>2
<1>5. MovesIn(d) BY <1>3 DEF MovesIn
<1>6. SubscribedIn(d) BY <1>1, <1>3 DEF SubscribedIn
<1> QED BY <1>1, <1>2, <1>4, <1>5, <1>6 DEF Sound, d

\* Losing the connection ends in a new attempt or in being disconnected
\* (_handleInterrupted).
LEMMA InterruptedSound ==
  ASSUME NEW c \in CStates, FreeSlots(c) # {}, ProtocolsSound(c), SubscribedIn(c)
  PROVE  HandleInterrupted(c) \in CStates /\ Sound(HandleInterrupted(c))
<1> DEFINE i == Interrupted(c)
<1>1. /\ i \in CStates /\ i.protocols = c.protocols
      /\ i.conn = [c.conn EXCEPT !.state = "interrupted", !.told = InterruptedEvent,
                                 !.online = FALSE]
  BY InterruptedDoes
<1>2. HandleInterrupted(c) = IF Reconnects(c) THEN ConnectToServer(i, "reconnect")
                             ELSE HandleDisconnected(i)
  BY DEF HandleInterrupted, Interrupted
<1> HIDE DEF i
<1>3. i.conn.state = "interrupted" /\ ~i.conn.online /\ i.conn.current = c.conn.current
  BY <1>1 DEF CStates, Conns
<1>4. ProtocolsSound(i) BY <1>1, SameProtocols
<1>5. SubscribedIn(i) BY <1>1, <1>3 DEF SubscribedIn
<1>6. FreeSlots(i) # {} BY <1>1, FreeSlotsOfProtocols
<1>7. ConnectToServer(i, "reconnect") \in CStates /\ Sound(ConnectToServer(i, "reconnect"))
  BY <1>1, <1>3, <1>4, <1>6, ConnectSound
<1>8. HandleDisconnected(i) \in CStates /\ Sound(HandleDisconnected(i))
  BY <1>1, <1>3, <1>4, <1>5, DisconnectedSound
<1> QED BY <1>2, <1>7, <1>8

\* What Becomes makes of the protocol connections: those nothing uses are forgotten.
Tidied(c) ==
  [c EXCEPT !.protocols = [p \in Slots |-> IF p \in FreeSlots(c) \ {c.conn.current}
                                           THEN Unused ELSE c.protocols[p]]]

\* So they are without those that nothing refers to any more.
LEMMA TidiedSound ==
  ASSUME NEW c \in CStates, Sound(c)
  PROVE  Tidied(c) \in CStates /\ Sound(Tidied(c))
<1> DEFINE f == [p \in Slots |-> IF p \in FreeSlots(c) \ {c.conn.current}
                                 THEN Unused ELSE c.protocols[p]]
           d == Tidied(c)
<1>1. f \in [Slots -> Protocol] BY UnusedType DEF CStates
<1>2. d.conn = c.conn /\ d.protocols = f /\ d \in CStates
  <2> HIDE DEF f
  <2>1. Tidied(c) = [c EXCEPT !.protocols = f] BY DEF Tidied, f
  <2> QED BY <1>1, <2>1 DEF CStates
<1> HIDE DEF d
<1>3. \A p \in Slots :
        \/ d.protocols[p] = c.protocols[p]
        \/ /\ d.protocols[p] = Unused /\ c.protocols[p].chain = "done"
           /\ p # c.conn.current
  BY <1>2 DEF FreeSlots
<1>4. /\ Unused.socket = "none" /\ Unused.heartbeat = "off" /\ Unused.chain = "done"
      /\ ~Unused.connected
  BY DEF Unused
<1> HIDE DEF f
<1>5. WatchedIn(d) BY <1>3, <1>4 DEF Watched, WatchedIn, Sound, ProtocolsSound
<1>6. OpenedIn(d)
  <2>1. "done" \notin Jobs /\ "done" # "opened" BY DEF Jobs
  <2> QED BY <1>3, <1>4, <2>1 DEF OpenedIn, Sound, ProtocolsSound
<1>7. SentIn(d) BY <1>3, <1>4 DEF SentIn, Sound, ProtocolsSound
<1>8. ToldIn(d) BY <1>2 DEF ToldIn, Sound
<1>9. MovesIn(d)
  <2>1. PastOpening(c) => PastOpening(d) BY <1>3 DEF PastOpening
  <2> QED BY <1>2, <2>1 DEF MovesIn, Sound
<1>10. SubscribedIn(d)
  <2>1. c.conn \in Conns BY DEF CStates
  <2>2. c.conn.current \in Slots \cup {None} BY <2>1 DEF Conns
  <2> QED BY <1>2, <1>3, <2>2 DEF SubscribedIn, Sound
<1> QED BY <1>2, <1>5, <1>6, <1>7, <1>8, <1>9, <1>10 DEF Sound, ProtocolsSound, d

\* An action that becomes a sound state ends in one.
LEMMA BecomesSound ==
  ASSUME NEW c \in CStates, Sound(c), Becomes(c)
  PROVE  Now' \in CStates /\ Sound(Now')
<1>1. Now' = Tidied(c) BY DEF Becomes, Now, Tidied, CStates
<1> QED BY <1>1, TidiedSound

\* What closing and losing a socket leave of the states protocol connections are in.
LEMMA ProtocolSet ==
  ASSUME NEW c \in CStates, NEW f \in [Slots -> Protocol]
  PROVE  /\ [c EXCEPT !.protocols = f] \in CStates
         /\ [c EXCEPT !.protocols = f].conn = c.conn
         /\ [c EXCEPT !.protocols = f].protocols = f
BY DEF CStates

\* The chain of callbacks of a protocol connection goes on, and nothing else.
LEMMA ChainAtDoes ==
  ASSUME NEW c \in CStates, NEW p \in Slots, NEW chain \in Chains
  PROVE  /\ ChainAt(c, p, chain) \in CStates
         /\ ChainAt(c, p, chain).conn = c.conn
         /\ ChainAt(c, p, chain).protocols = [c.protocols EXCEPT ![p].chain = chain]
<1> DEFINE f == [c.protocols EXCEPT ![p].chain = chain]
<1>1. c.protocols \in [Slots -> Protocol] BY DEF CStates
<1>2. f \in [Slots -> Protocol]
  BY <1>1 DEF Protocol
<1>3. ChainAt(c, p, chain) = [c EXCEPT !.protocols = f]
  BY DEF ChainAt, CStates
<1> HIDE DEF f
<1>4. /\ [c EXCEPT !.protocols = f] \in CStates
      /\ [c EXCEPT !.protocols = f].conn = c.conn
      /\ [c EXCEPT !.protocols = f].protocols = f
  BY <1>2, ProtocolSet
<1> QED BY <1>3, <1>4 DEF f

\* A chain goes on: to where it is not opened again, after the opening of its socket
\* or at the end of it.
LEMMA ChainAtSound ==
  ASSUME NEW c \in CStates, NEW p \in Slots, NEW chain \in Chains \ {"opened", "requested"},
         ProtocolsSound(c),
         chain \in Jobs => \A q \in Slots \ {p} : c.protocols[q].chain # "opened"
  PROVE  /\ ChainAt(c, p, chain) \in CStates
         /\ ChainAt(c, p, chain).conn = c.conn
         /\ ProtocolsSound(ChainAt(c, p, chain))
         /\ SubscribedIn(c) => SubscribedIn(ChainAt(c, p, chain))
         /\ ToldIn(c) => ToldIn(ChainAt(c, p, chain))
         /\ MovesIn(c) /\ chain \notin {"opening", "done"} => MovesIn(ChainAt(c, p, chain))
<1> DEFINE d == ChainAt(c, p, chain)
<1>1. d \in CStates /\ d.conn = c.conn /\ d.protocols = [c.protocols EXCEPT ![p].chain = chain]
  BY ChainAtDoes
<1> HIDE DEF d
<1>2. c.protocols \in [Slots -> Protocol] BY DEF CStates
<1>3. \A q \in Slots \ {p} : d.protocols[q] = c.protocols[q]
  BY <1>1, <1>2
<1>4. /\ d.protocols[p].chain = chain /\ d.protocols[p].socket = c.protocols[p].socket
      /\ d.protocols[p].subscribed = c.protocols[p].subscribed
      /\ d.protocols[p].connected = c.protocols[p].connected
      /\ d.protocols[p].heartbeat = c.protocols[p].heartbeat
  BY <1>1, <1>2 DEF Protocol
<1>5. WatchedIn(d) BY <1>3, <1>4 DEF Watched, WatchedIn, ProtocolsSound
<1>6. OpenedIn(d) BY <1>3, <1>4 DEF OpenedIn, ProtocolsSound
<1>7. SentIn(d) BY <1>3, <1>4 DEF SentIn, ProtocolsSound
<1>8. SubscribedIn(c) => SubscribedIn(d)
  <2>1. c.conn.current \in Slots \cup {None} BY DEF CStates, Conns
  <2> QED BY <1>1, <1>3, <1>4, <2>1 DEF SubscribedIn
<1>9. ToldIn(c) => ToldIn(d) BY <1>1 DEF ToldIn
<1>10. MovesIn(c) /\ chain \notin {"opening", "done"} => MovesIn(d)
  <2>1. chain \notin {"opening", "done"} => PastOpening(d) BY <1>4 DEF PastOpening
  <2> QED BY <1>1, <2>1 DEF MovesIn
<1> QED BY <1>1, <1>5, <1>6, <1>7, <1>8, <1>9, <1>10 DEF ProtocolsSound, d

\* A protocol connection that is free stays so while others are closed or lost.
LEMMA StaysFree ==
  ASSUME NEW c, NEW d,
         \A q \in Slots :
           /\ c.protocols[q].socket \in {"none", "closed"} =>
                d.protocols[q].socket \in {"none", "closed"}
           /\ c.protocols[q].chain = "done" => d.protocols[q].chain = "done"
           /\ d.protocols[q].disconnecting => c.protocols[q].disconnecting
           /\ d.protocols[q].chain = "requested" =>
                c.protocols[q].chain = "requested" /\ c.protocols[q].via = d.protocols[q].via
  PROVE  FreeSlots(c) \subseteq FreeSlots(d)
<1> SUFFICES ASSUME NEW p \in FreeSlots(c) PROVE p \in FreeSlots(d) OBVIOUS
<1>1. p \in Slots /\ Waiting(c, p) = {} BY DEF FreeSlots
<1>2. Waiting(d, p) = {} BY <1>1 DEF Waiting
<1> QED BY <1>1, <1>2 DEF FreeSlots

\* What losing a socket does before the connection hears of it.
Dropped(c, p) == [c EXCEPT !.protocols[p].connected = FALSE, !.protocols[p].heartbeat = "off"]

\* A protocol connection that is dropped stops its heartbeat.
LEMMA DroppedDoes ==
  ASSUME NEW c \in CStates, NEW p \in Slots
  PROVE  /\ Dropped(c, p) \in CStates
         /\ Dropped(c, p).conn = c.conn
         /\ Dropped(c, p).protocols = [c.protocols EXCEPT ![p].connected = FALSE,
                                                          ![p].heartbeat = "off"]
<1> DEFINE f == [c.protocols EXCEPT ![p].connected = FALSE, ![p].heartbeat = "off"]
<1>1. c.protocols \in [Slots -> Protocol] BY DEF CStates
<1>2. f \in [Slots -> Protocol]
  BY <1>1, ZenonT(30) DEF Protocol
<1>3. Dropped(c, p) = [c EXCEPT !.protocols = f]
  BY DEF Dropped, CStates
<1> HIDE DEF f
<1>4. /\ [c EXCEPT !.protocols = f] \in CStates
      /\ [c EXCEPT !.protocols = f].conn = c.conn
      /\ [c EXCEPT !.protocols = f].protocols = f
  BY <1>2, ProtocolSet
<1> QED BY <1>3, <1>4 DEF f

\* A lost socket is not watched any longer, and it is followed by an attempt or by being
\* disconnected when its events are listened to (ProtocolConnection.onSocketDropped).
LEMMA DroppedSound ==
  ASSUME NEW c \in CStates, NEW p \in Slots, FreeSlots(c) # {},
         OpenedIn(c), SentIn(c), SubscribedIn(c),
         \A q \in Slots \ {p} : Watched(c.protocols[q]),
         c.protocols[p].subscribed \/ (ToldIn(c) /\ MovesIn(c))
  PROVE  OnSocketDropped(c, p) \in CStates /\ Sound(OnSocketDropped(c, p))
<1> DEFINE d == Dropped(c, p)
<1>1. /\ d \in CStates /\ d.conn = c.conn
      /\ d.protocols = [c.protocols EXCEPT ![p].connected = FALSE, ![p].heartbeat = "off"]
  BY DroppedDoes
<1>2. OnSocketDropped(c, p) = IF c.protocols[p].subscribed THEN HandleInterrupted(d) ELSE d
  BY DEF OnSocketDropped, Dropped
<1> HIDE DEF d
<1>3. c.protocols \in [Slots -> Protocol] BY DEF CStates
<1>4. \A q \in Slots \ {p} : d.protocols[q] = c.protocols[q]
  BY <1>1, <1>3
<1>5. /\ ~d.protocols[p].connected /\ d.protocols[p].heartbeat = "off"
      /\ d.protocols[p].socket = c.protocols[p].socket
      /\ d.protocols[p].chain = c.protocols[p].chain
      /\ d.protocols[p].via = c.protocols[p].via
      /\ d.protocols[p].subscribed = c.protocols[p].subscribed
      /\ d.protocols[p].disconnecting = c.protocols[p].disconnecting
  BY <1>1, <1>3 DEF Protocol
<1>6. ProtocolsSound(d)
  <2>1. WatchedIn(d) BY <1>4, <1>5 DEF Watched, WatchedIn
  <2>2. OpenedIn(d) BY <1>4, <1>5 DEF OpenedIn
  <2>3. SentIn(d) BY <1>4, <1>5 DEF SentIn
  <2> QED BY <2>1, <2>2, <2>3 DEF ProtocolsSound
<1>7. SubscribedIn(d)
  <2>1. c.conn.current \in Slots \cup {None} BY DEF CStates, Conns
  <2> QED BY <1>1, <1>4, <1>5, <2>1 DEF SubscribedIn
<1>8. FreeSlots(d) # {} BY <1>4, <1>5, StaysFree
<1>9. CASE c.protocols[p].subscribed
  BY <1>1, <1>2, <1>6, <1>7, <1>8, <1>9, InterruptedSound
<1>10. CASE ~c.protocols[p].subscribed
  <2>1. ToldIn(d) BY <1>1, <1>10 DEF ToldIn
  <2>2. MovesIn(d)
    <3>1. PastOpening(c) => PastOpening(d) BY <1>4, <1>5 DEF PastOpening
    <3> QED BY <1>1, <1>10, <3>1 DEF MovesIn
  <2> QED BY <1>1, <1>2, <1>6, <1>7, <1>10, <2>1, <2>2 DEF Sound
<1> QED BY <1>9, <1>10

\* Aborting closes a socket and treats it as lost, when no continuation is left to run
\* (WebSocket.terminate and _onConnectionTimeout).
LEMMA AbortSound ==
  ASSUME NEW c \in CStates, NEW p \in Slots, FreeSlots(c) # {},
         ProtocolsSound(c), SubscribedIn(c),
         \A q \in Slots : c.protocols[q].chain \notin Jobs,
         c.protocols[p].subscribed \/ (ToldIn(c) /\ MovesIn(c))
  PROVE  Abort(c, p) \in CStates /\ Sound(Abort(c, p))
<1> DEFINE s == [c.protocols[p] EXCEPT !.socket = "closing", !.chain = ChainEnds(@)]
           f == [c.protocols EXCEPT ![p] = s]
           x == IF c.protocols[p].socket \in {"connecting", "open"}
                THEN [c EXCEPT !.protocols = f] ELSE c
<1>1. c.protocols \in [Slots -> Protocol] BY DEF CStates
<1>2. s \in Protocol /\ s.chain = ChainEnds(c.protocols[p].chain) /\ s.socket = "closing"
        /\ s.subscribed = c.protocols[p].subscribed
        /\ s.disconnecting = c.protocols[p].disconnecting
        /\ s.via = c.protocols[p].via
  <2>1. ChainEnds(c.protocols[p].chain) \in Chains
    BY <1>1 DEF ChainEnds, Protocol, Chains, Jobs
  <2> QED BY <1>1, <2>1 DEF Protocol
<1>3. Abort(c, p) = OnSocketDropped(x, p)
  <2>1. [c EXCEPT !.protocols[p].socket = "closing", !.protocols[p].chain = ChainEnds(@)]
          = [c EXCEPT !.protocols = f]
    BY <1>1 DEF CStates, Protocol
  <2> QED BY <2>1 DEF Abort
<1> HIDE DEF s
<1>4. f \in [Slots -> Protocol] /\ f[p] = s /\ \A q \in Slots \ {p} : f[q] = c.protocols[q]
  BY <1>1, <1>2
<1> HIDE DEF f
<1>5. x \in CStates /\ x.conn = c.conn
  BY <1>4, ProtocolSet
<1>6. \A q \in Slots \ {p} : x.protocols[q] = c.protocols[q]
  BY <1>4, ProtocolSet
<1>7. \/ x.protocols[p] = c.protocols[p]
      \/ x.protocols[p] = s /\ c.protocols[p].socket \in {"connecting", "open"}
  BY <1>4, ProtocolSet
<1> HIDE DEF x
<1>8. s.chain = c.protocols[p].chain \/ (s.chain = "failed" /\ c.protocols[p].chain = "opening")
  BY <1>2 DEF ChainEnds
<1>9. OpenedIn(x)
  <2>1. "opened" \in Jobs BY DEF Jobs
  <2>2. \A q \in Slots : x.protocols[q].chain # "opened"
    BY <1>6, <1>7, <1>8, <2>1
  <2> QED BY <2>2 DEF OpenedIn
<1>10. SentIn(x)
  <2>1. s.chain = "requested" => c.protocols[p].chain = "requested" BY <1>8
  <2> QED BY <1>2, <1>6, <1>7, <2>1 DEF SentIn, ProtocolsSound
<1>11. SubscribedIn(x)
  <2>1. c.conn.current \in Slots \cup {None} BY DEF CStates, Conns
  <2> QED BY <1>2, <1>5, <1>6, <1>7, <2>1 DEF SubscribedIn
<1>12. \A q \in Slots \ {p} : Watched(x.protocols[q])
  BY <1>6 DEF ProtocolsSound, WatchedIn
<1>13. FreeSlots(x) # {}
  <2>1. \A q \in Slots : /\ c.protocols[q].socket \in {"none", "closed"} =>
                              x.protocols[q].socket \in {"none", "closed"}
                         /\ c.protocols[q].chain = "done" => x.protocols[q].chain = "done"
                         /\ x.protocols[q].disconnecting => c.protocols[q].disconnecting
                         /\ x.protocols[q].chain = "requested" =>
                              /\ c.protocols[q].chain = "requested"
                              /\ c.protocols[q].via = x.protocols[q].via
    BY <1>2, <1>6, <1>7, <1>8
  <2> QED BY <2>1, StaysFree
<1>14. x.protocols[p].subscribed \/ (ToldIn(x) /\ MovesIn(x))
  <2>1. x.protocols[p].subscribed = c.protocols[p].subscribed BY <1>2, <1>7
  <2>2. ToldIn(c) => ToldIn(x) BY <1>5 DEF ToldIn
  <2>3. PastOpening(c) => PastOpening(x) BY <1>6, <1>7, <1>8 DEF PastOpening
  <2>4. MovesIn(c) => MovesIn(x) BY <1>5, <2>3 DEF MovesIn
  <2> QED BY <2>1, <2>2, <2>4
<1> QED BY <1>3, <1>5, <1>9, <1>10, <1>11, <1>12, <1>13, <1>14, DroppedSound

\* Closing the socket of p ends its heartbeat and the requests that wait on it
\* (ProtocolConnection.close and handleClosed).
LEMMA CloseDoes ==
  ASSUME NEW c \in CStates, NEW p \in Slots, ProtocolsSound(c),
         \A q \in Slots : c.protocols[q].chain # "opened"
  PROVE  /\ Close(c, p) \in CStates
         /\ Close(c, p).conn = c.conn
         /\ ProtocolsSound(Close(c, p))
         /\ \A q \in Slots :
              /\ Close(c, p).protocols[q].subscribed = c.protocols[q].subscribed
              /\ \/ Close(c, p).protocols[q].chain = c.protocols[q].chain
                 \/ Close(c, p).protocols[q].chain = "failed"
<1> DEFINE s(q) == Closed(c, p, q)
           f == [q \in Slots |-> s(q)]
           d == Close(c, p)
<1>1. c.protocols \in [Slots -> Protocol] BY DEF CStates
<1>2. ASSUME NEW q \in Slots
      PROVE  /\ s(q) \in Protocol
             /\ s(q).chain = c.protocols[q].chain \/ s(q).chain = "failed"
             /\ s(q).socket = IF q = p /\ CanClose(c, p) THEN "closing" ELSE c.protocols[q].socket
             /\ s(q).heartbeat = IF q = p THEN "off" ELSE c.protocols[q].heartbeat
             /\ s(q).connected = c.protocols[q].connected
             /\ s(q).subscribed = c.protocols[q].subscribed
             /\ s(q).via = c.protocols[q].via
  <2> DEFINE chain == IF q \in Waiting(c, p) THEN "failed"
                      ELSE IF q = p THEN ChainEnds(c.protocols[q].chain) ELSE c.protocols[q].chain
             socket == IF q = p /\ CanClose(c, p) THEN "closing" ELSE c.protocols[q].socket
             heartbeat == IF q = p THEN "off" ELSE c.protocols[q].heartbeat
  <2>1. c.protocols[q] \in Protocol BY <1>1
  <2>2. chain \in Chains /\ (chain = c.protocols[q].chain \/ chain = "failed")
    BY <2>1 DEF Protocol, Chains, Jobs, ChainEnds
  <2>3. socket \in {"none", "connecting", "open", "closing", "closed"}
    BY <2>1 DEF Protocol
  <2>4. heartbeat \in {"off", "ping", "pong"} BY <2>1 DEF Protocol
  <2>5. s(q) = [c.protocols[q] EXCEPT !.chain = chain, !.socket = socket, !.heartbeat = heartbeat]
    BY <2>1 DEF Protocol, Closed
  <2> HIDE DEF chain, socket, heartbeat, s
  <2>6. /\ [c.protocols[q] EXCEPT !.chain = chain, !.socket = socket, !.heartbeat = heartbeat]
             \in Protocol
        /\ s(q).chain = chain /\ s(q).socket = socket /\ s(q).heartbeat = heartbeat
        /\ s(q).connected = c.protocols[q].connected
        /\ s(q).subscribed = c.protocols[q].subscribed
        /\ s(q).via = c.protocols[q].via
    BY <2>1, <2>2, <2>3, <2>4, <2>5 DEF Protocol
  <2> QED BY <2>2, <2>5, <2>6 DEF socket, heartbeat
<1>3. d = [c EXCEPT !.protocols = f]
  BY DEF Close
<1> HIDE DEF s
<1>4. f \in [Slots -> Protocol] /\ \A q \in Slots : f[q] = s(q)
  BY <1>2
<1> HIDE DEF f, d
<1>5. d \in CStates /\ d.conn = c.conn /\ \A q \in Slots : d.protocols[q] = s(q)
  BY <1>3, <1>4, ProtocolSet
<1>6. WatchedIn(d)
  <2> SUFFICES ASSUME NEW q \in Slots PROVE Watched(d.protocols[q])
    BY DEF WatchedIn
  <2>1. Watched(c.protocols[q]) BY DEF ProtocolsSound, WatchedIn
  <2>2. CASE q # p
    <3>1. s(q).socket = c.protocols[q].socket /\ s(q).heartbeat = c.protocols[q].heartbeat
            /\ s(q).connected = c.protocols[q].connected
      BY <1>2, <2>2
    <3> QED BY <1>5, <2>1, <3>1 DEF Watched
  <2>3. CASE q = p
    <3>1. s(q).heartbeat = "off" /\ s(q).socket \notin {"open", "connecting"}
      BY <1>2, <2>3 DEF CanClose
    <3> QED BY <1>5, <3>1 DEF Watched
  <2> QED BY <2>2, <2>3
<1>7. OpenedIn(d)
  <2>1. \A q \in Slots : d.protocols[q].chain # "opened" BY <1>2, <1>5
  <2> QED BY <2>1 DEF OpenedIn
<1>8. SentIn(d)
  <2> SUFFICES ASSUME NEW q \in Slots, d.protocols[q].chain = "requested"
               PROVE  d.protocols[q].via # None
    BY DEF SentIn
  <2>1. c.protocols[q].chain = "requested" /\ d.protocols[q].via = c.protocols[q].via
    BY <1>2, <1>5
  <2> QED BY <2>1 DEF SentIn, ProtocolsSound
<1> QED BY <1>2, <1>5, <1>6, <1>7, <1>8 DEF ProtocolsSound, d

(***************************************************************************)
(* The actions keep the invariant                                          *)
(***************************************************************************)

\* The state of the moment.
LEMMA NowIs == Now.conn = conn /\ Now.protocols = protocols
BY DEF Now

\* The socket has opened: authentication starts, or the connection was given up.
LEMMA OpenedSound ==
  ASSUME ConnectionInv, NEW p \in Slots, Opened(p)
  PROVE  Now' \in CStates /\ Sound(Now')
<1> DEFINE c == [Now EXCEPT !.conn.timeoutTask = FALSE, !.conn.initial = FALSE,
                            !.protocols[p].connected = TRUE,
                            !.protocols[p].heartbeat = "ping"]
           k == [conn EXCEPT !.timeoutTask = FALSE, !.initial = FALSE]
           f == [protocols EXCEPT ![p].connected = TRUE, ![p].heartbeat = "ping"]
           chain == IF conn.generator THEN "generating" ELSE "failed"
<1>1. conn \in Conns /\ protocols \in [Slots -> Protocol] /\ Sound(Now)
        /\ protocols[p].chain = "opened"
  BY DEF ConnectionInv, CStates, Now, Opened
<1>2. c = [conn |-> k, protocols |-> f]
  <2> DEFINE d == [Now EXCEPT !.conn.timeoutTask = FALSE, !.conn.initial = FALSE]
  <2>1. d \in CStates /\ d.conn = k /\ d.protocols = protocols
    BY <1>1 DEF Now, CStates, Conns
  <2>2. c = [d EXCEPT !.protocols[p].connected = TRUE, !.protocols[p].heartbeat = "ping"]
    OBVIOUS
  <2> HIDE DEF c, d, k
  <2>3. [d EXCEPT !.protocols[p].connected = TRUE, !.protocols[p].heartbeat = "ping"]
          = [d EXCEPT !.protocols = f]
    BY <2>1 DEF CStates
  <2> HIDE DEF f
  <2> QED BY <2>1, <2>2, <2>3 DEF CStates
<1>3. k \in Conns BY <1>1 DEF Conns
<1>4. f \in [Slots -> Protocol] BY <1>1, ZenonT(30) DEF Protocol
<1>5. /\ k.current = conn.current /\ k.state = conn.state /\ k.deferred = conn.deferred
      /\ k.told = conn.told /\ k.online = conn.online /\ k.attemptTask = conn.attemptTask
      /\ k.orphans = conn.orphans
  BY <1>1 DEF Conns
<1>6. /\ \A q \in Slots \ {p} : f[q] = protocols[q]
      /\ f[p].connected /\ f[p].heartbeat = "ping" /\ f[p].chain = "opened"
      /\ f[p].socket = protocols[p].socket /\ f[p].subscribed = protocols[p].subscribed
  BY <1>1 DEF Protocol
<1> HIDE DEF c, k, f
<1>7. c \in CStates /\ c.conn = k /\ c.protocols = f
  BY <1>2, <1>3, <1>4 DEF CStates
<1>8. ProtocolsSound(c)
  <2>1. protocols[p].socket = "open" /\ \A q \in Slots \ {p} : protocols[q].chain \notin Jobs
    BY <1>1, NowIs DEF Sound, ProtocolsSound, OpenedIn
  <2>2. WatchedIn(c)
    BY <1>1, <1>6, <1>7, <2>1, NowIs DEF Sound, ProtocolsSound, WatchedIn, Watched
  <2>3. OpenedIn(c)
    BY <1>1, <1>6, <1>7, <2>1, NowIs DEF Sound, ProtocolsSound, OpenedIn
  <2>4. SentIn(c)
    BY <1>1, <1>6, <1>7, NowIs DEF Sound, ProtocolsSound, SentIn
  <2> QED BY <2>2, <2>3, <2>4 DEF ProtocolsSound
<1>9. SubscribedIn(c)
  <2>1. conn.current \in Slots \cup {None} BY <1>1 DEF Conns
  <2> QED BY <1>1, <1>5, <1>6, <1>7, <2>1, NowIs DEF Sound, SubscribedIn
<1>10. ToldIn(c) BY <1>1, <1>5, <1>7, NowIs DEF Sound, ToldIn
<1>11. MovesIn(c)
  <2>1. PastOpening(c) BY <1>6, <1>7 DEF PastOpening
  <2> QED BY <1>1, <1>5, <1>7, <2>1, NowIs DEF Sound, MovesIn
<1>12. \A q \in Slots \ {p} : c.protocols[q].chain # "opened"
  <2>1. "opened" \in Jobs BY DEF Jobs
  <2> QED BY <1>1, <1>6, <1>7, <2>1, NowIs DEF Sound, ProtocolsSound, OpenedIn
<1>13. chain \in Chains \ {"opened", "requested"} /\ chain \notin {"opening", "done"}
  BY DEF Chains, Jobs
<1>14. ChainAt(c, p, chain) \in CStates /\ Sound(ChainAt(c, p, chain))
  <2> HIDE DEF chain
  <2> QED BY <1>7, <1>8, <1>9, <1>10, <1>11, <1>12, <1>13, ChainAtSound DEF Sound
<1>15. Becomes(ChainAt(c, p, chain)) BY DEF Opened, c
<1> QED BY <1>14, <1>15, BecomesSound

\* Of a continuation that is not the opening of a socket: nothing is being opened.
LEMMA NoneOpened ==
  ASSUME ConnectionInv, NEW p \in Slots, protocols[p].chain \in Jobs \ {"opened"}
  PROVE  \A q \in Slots : protocols[q].chain # "opened"
BY NowIs DEF ConnectionInv, Sound, ProtocolsSound, OpenedIn

\* The server accepts the client: connected.
LEMMA AcceptedSound ==
  ASSUME ConnectionInv, NEW p \in Slots, Accepted(p)
  PROVE  Now' \in CStates /\ Sound(Now')
<1> DEFINE k0 == [conn EXCEPT !.state = "connected", !.token = TRUE]
           d == [Now EXCEPT !.conn.state = "connected", !.conn.token = TRUE]
           c == Emit(d, ConnectedEvent)
           e == [c EXCEPT !.conn.deferred = "none"]
<1>1. conn \in Conns /\ protocols \in [Slots -> Protocol] /\ Sound(Now)
        /\ protocols[p].chain = "accepted"
  BY DEF ConnectionInv, CStates, Now, Accepted
<1>2. d \in CStates /\ d.conn = k0 /\ d.protocols = protocols
  BY <1>1 DEF Now, CStates, Conns, States
<1>3. ConnectedEvent \in Events /\ ConnectedEvent \notin {InterruptedEvent, DisconnectedEvent}
  BY DEF Events, ConnectedEvent, InterruptedEvent, DisconnectedEvent
<1>4. k0.current = conn.current /\ k0.state = "connected" /\ k0 \in Conns
  BY <1>1 DEF Conns, States
<1> HIDE DEF d, k0
<1>5. /\ c \in CStates /\ c.protocols = protocols
      /\ c.conn = [k0 EXCEPT !.told = ConnectedEvent, !.online = TRUE]
  <2>1. (k0.online \/ ConnectedEvent = ConnectedEvent)
          /\ ConnectedEvent \notin {InterruptedEvent, DisconnectedEvent} <=> TRUE
    BY <1>3
  <2> QED BY <1>2, <1>3, <2>1, EmitDoes
<1> HIDE DEF c
<1>6. /\ c.conn.state = "connected" /\ c.conn.online /\ c.conn.told = ConnectedEvent
      /\ c.conn.current = conn.current
  BY <1>4, <1>5 DEF Conns
<1>7. /\ e \in CStates /\ e.protocols = protocols /\ e.conn.state = "connected"
      /\ e.conn.online /\ e.conn.told = ConnectedEvent /\ e.conn.current = conn.current
  BY <1>5, <1>6 DEF CStates, Conns
<1> HIDE DEF e
<1>8. \A q \in Slots : protocols[q].chain # "opened"
  BY <1>1, NoneOpened DEF Jobs
<1>9. ASSUME NEW x \in {c, e}, NEW chain \in {"failed", "done"}
      PROVE  ChainAt(x, p, chain) \in CStates /\ Sound(ChainAt(x, p, chain))
  <2>1. /\ x \in CStates /\ x.protocols = protocols /\ x.conn.state = "connected"
        /\ x.conn.online /\ x.conn.told = ConnectedEvent /\ x.conn.current = conn.current
    BY <1>5, <1>6, <1>7
  <2>2. ProtocolsSound(x) BY <1>1, <2>1, NowIs, SameProtocols DEF Sound
  <2>3. SubscribedIn(x) BY <1>1, <2>1, NowIs DEF Sound, SubscribedIn
  <2>4. ToldIn(x)
    BY <2>1 DEF ToldIn, ConnectedEvent, DisconnectedEvent, ConnectionScheduledEvent,
         InterruptedEvent
  <2>5. chain \in Chains \ {"opened", "requested"} BY DEF Chains, Jobs
  <2>6. /\ ChainAt(x, p, chain) \in CStates /\ ChainAt(x, p, chain).conn = x.conn
        /\ ProtocolsSound(ChainAt(x, p, chain)) /\ SubscribedIn(ChainAt(x, p, chain))
        /\ ToldIn(ChainAt(x, p, chain))
    BY <1>8, <2>1, <2>2, <2>3, <2>4, <2>5, ChainAtSound
  <2>7. MovesIn(ChainAt(x, p, chain)) BY <2>1, <2>6 DEF MovesIn
  <2> QED BY <2>6, <2>7 DEF Sound
<1>10. Becomes(IF conn.deferred = "none" THEN ChainAt(c, p, "failed") ELSE ChainAt(e, p, "done"))
  <2>1. c.conn.deferred = conn.deferred
    BY <1>1, <1>5 DEF k0, Conns
  <2> QED BY <2>1 DEF Accepted, c, d, e
<1> QED BY <1>9, <1>10, BecomesSound

\* That an attempt has failed, or that credentials are sent, changes nothing else.
LEMMA EmitQuietly ==
  ASSUME NEW c \in CStates, NEW event \in {ConnectionFailedEvent, AuthenticatingEvent},
         ToldIn(c)
  PROVE  /\ Emit(c, event) \in CStates
         /\ Emit(c, event).protocols = c.protocols
         /\ Emit(c, event).conn = [c.conn EXCEPT !.told = event]
         /\ ToldIn(Emit(c, event))
<1>1. event \in Events /\ event # ConnectedEvent /\ event # ConnectionScheduledEvent
        /\ event \notin {InterruptedEvent, DisconnectedEvent}
  BY DEF Events, ConnectionFailedEvent, AuthenticatingEvent, ConnectedEvent, InterruptedEvent,
     DisconnectedEvent, ConnectionScheduledEvent
<1>2. c.conn \in Conns BY DEF CStates
<1>3. /\ Emit(c, event) \in CStates /\ Emit(c, event).protocols = c.protocols
      /\ Emit(c, event).conn =
           [c.conn EXCEPT !.told = event,
                          !.online = (@ \/ event = ConnectedEvent)
                             /\ event \notin {InterruptedEvent, DisconnectedEvent}]
  BY <1>1, EmitDoes
<1>4. Emit(c, event).conn = [c.conn EXCEPT !.told = event]
  <2>1. ((c.conn.online \/ event = ConnectedEvent)
           /\ event \notin {InterruptedEvent, DisconnectedEvent}) = c.conn.online
    <3>1. c.conn.online \in BOOLEAN BY <1>2 DEF Conns
    <3> QED BY <1>1, <3>1
  <2>2. Emit(c, event).conn = [c.conn EXCEPT !.told = event, !.online = c.conn.online]
    BY <1>3, <2>1
  <2>3. [c.conn EXCEPT !.told = event, !.online = c.conn.online] = [c.conn EXCEPT !.told = event]
    BY <1>2 DEF Conns
  <2> QED BY <2>2, <2>3
<1>5. ToldIn(Emit(c, event))
  <2>1. LET k == [c.conn EXCEPT !.told = event]
        IN  k.told = event /\ k.state = c.conn.state /\ k.online = c.conn.online
    BY <1>2 DEF Conns
  <2> QED BY <1>1, <1>4, <2>1 DEF ToldIn
<1> QED BY <1>3, <1>4, <1>5

\* A retry that is scheduled ends the chain (_scheduleConnection).
LEMMA RetrySound ==
  ASSUME NEW c \in CStates, NEW p \in Slots, ProtocolsSound(c), SubscribedIn(c), ToldIn(c),
         c.conn.state = "connecting" => c.conn.deferred = "pending",
         c.conn.attemptTask => c.conn.orphans < MaxOrphans
  PROVE  /\ ScheduleConnection(c) \in CStates /\ ScheduleConnection(c).protocols = c.protocols
         /\ Sound(ScheduleConnection(c))
<1> DEFINE d == ScheduleConnection(c)
<1>1. /\ d \in CStates /\ d.protocols = c.protocols
      /\ d.conn = IF c.conn.state # "connecting" THEN c.conn
                  ELSE [c.conn EXCEPT !.told = ConnectionScheduledEvent, !.attemptTask = TRUE,
                                      !.orphans = IF c.conn.attemptTask THEN @ + 1 ELSE @]
  BY ScheduleDoes
<1> HIDE DEF d
<1>2. ProtocolsSound(d) BY <1>1, SameProtocols
<1>3. d.conn.state = c.conn.state /\ d.conn.current = c.conn.current
  BY <1>1 DEF CStates, Conns
<1>4. SubscribedIn(d) BY <1>1, <1>3 DEF SubscribedIn
<1>5. CASE c.conn.state = "connecting"
  <2>1. /\ d.conn.told = ConnectionScheduledEvent /\ d.conn.attemptTask
        /\ d.conn.online = c.conn.online /\ d.conn.deferred = c.conn.deferred
    BY <1>1, <1>5 DEF CStates, Conns
  <2>2. ToldIn(d)
    BY <1>3, <1>5, <2>1 DEF ToldIn, ConnectionScheduledEvent, ConnectedEvent, DisconnectedEvent,
      InterruptedEvent
  <2>3. MovesIn(d) BY <1>5, <2>1 DEF MovesIn
  <2> QED BY <1>1, <1>2, <1>4, <2>2, <2>3 DEF Sound, d
<1>6. CASE c.conn.state # "connecting"
  <2>1. ToldIn(d) BY <1>1, <1>6 DEF ToldIn
  <2>2. MovesIn(d) BY <1>3, <1>6 DEF MovesIn
  <2> QED BY <1>1, <1>2, <1>4, <2>1, <2>2 DEF Sound, d
<1> QED BY <1>5, <1>6

\* The end of a chain changes no property when something else moves a connection that is
\* connecting.
LEMMA ChainEndSound ==
  ASSUME NEW c \in CStates, NEW p \in Slots, Sound(c),
         c.conn.state = "connecting" => c.conn.attemptTask
  PROVE  ChainAt(c, p, "done") \in CStates /\ Sound(ChainAt(c, p, "done"))
<1>1. "done" \in Chains \ {"opened", "requested"} /\ "done" \notin Jobs
  BY DEF Chains, Jobs
<1>2. /\ ChainAt(c, p, "done") \in CStates /\ ChainAt(c, p, "done").conn = c.conn
      /\ ProtocolsSound(ChainAt(c, p, "done")) /\ SubscribedIn(ChainAt(c, p, "done"))
      /\ ToldIn(ChainAt(c, p, "done"))
  BY <1>1, ChainAtSound DEF Sound
<1>3. MovesIn(ChainAt(c, p, "done")) BY <1>2 DEF MovesIn, Sound
<1> QED BY <1>2, <1>3 DEF Sound

\* The attempt has failed: the next one is scheduled, or the connection is given up.
LEMMA FailedSound ==
  ASSUME ConnectionInv, NEW p \in Slots, Failed(p)
  PROVE  Now' \in CStates /\ Sound(Now')
<1> DEFINE a == [Now EXCEPT !.conn.timeoutTask = FALSE]
           b == Emit(a, ConnectionFailedEvent)
           c == ChainAt(b, p, "done")
           d == [c EXCEPT !.conn.deferred = "settled"]
<1>1. conn \in Conns /\ protocols \in [Slots -> Protocol] /\ Sound(Now)
        /\ protocols[p].chain = "failed"
  BY DEF ConnectionInv, CStates, Now, Failed
<1>2. a \in CStates /\ a.protocols = protocols /\ a.conn = [conn EXCEPT !.timeoutTask = FALSE]
  BY <1>1 DEF Now, CStates, Conns
<1> HIDE DEF a
<1>3. /\ a.conn.state = conn.state /\ a.conn.online = conn.online /\ a.conn.told = conn.told
      /\ a.conn.attemptTask = conn.attemptTask /\ a.conn.orphans = conn.orphans
      /\ a.conn.deferred = conn.deferred /\ a.conn.current = conn.current
  BY <1>1, <1>2 DEF Conns
<1>4. ToldIn(a) BY <1>1, <1>3, NowIs DEF Sound, ToldIn
<1>5. /\ b \in CStates /\ b.protocols = protocols /\ ToldIn(b)
      /\ b.conn = [a.conn EXCEPT !.told = ConnectionFailedEvent]
  BY <1>2, <1>4, EmitQuietly
<1> HIDE DEF b
<1>6. ProtocolsSound(b) /\ SubscribedIn(b)
  <2>1. b.conn.current = conn.current BY <1>2, <1>3, <1>5 DEF CStates, Conns
  <2> QED BY <1>1, <1>5, <2>1, NowIs, SameProtocols DEF Sound, SubscribedIn
<1>7. /\ c \in CStates /\ c.conn = b.conn /\ ProtocolsSound(c) /\ SubscribedIn(c) /\ ToldIn(c)
  <2>1. "done" \in Chains \ {"opened", "requested"} /\ "done" \notin Jobs
    BY DEF Chains, Jobs
  <2> QED BY <1>5, <1>6, <2>1, ChainAtSound
<1> HIDE DEF c
<1>8. /\ c.conn.state = conn.state /\ c.conn.attemptTask = conn.attemptTask
      /\ c.conn.orphans = conn.orphans /\ c.conn.deferred = conn.deferred
  BY <1>2, <1>3, <1>5, <1>7 DEF CStates, Conns
<1>9. conn.state = "connecting" => conn.deferred = "pending"
  BY <1>1, NowIs DEF Sound, MovesIn
<1>10. ScheduleConnection(c) \in CStates /\ Sound(ScheduleConnection(c))
  <2>1. conn.attemptTask => conn.orphans < MaxOrphans BY DEF Failed
  <2> QED BY <1>7, <1>8, <1>9, <2>1, RetrySound
<1>11. ASSUME conn.deferred = "none" PROVE Sound(c)
  <2>1. MovesIn(c) BY <1>8, <1>9, <1>11 DEF MovesIn
  <2> QED BY <1>7, <2>1 DEF Sound
<1>12. HandleDisconnected(d) \in CStates /\ Sound(HandleDisconnected(d))
  <2>1. d \in CStates /\ d.protocols = c.protocols /\ d.conn.current = c.conn.current
          /\ d.conn.told = c.conn.told /\ d.conn.state = c.conn.state
          /\ d.conn.online = c.conn.online /\ d.conn.attemptTask = c.conn.attemptTask
          /\ d.conn.orphans = c.conn.orphans
    BY <1>7 DEF CStates, Conns
  <2> HIDE DEF d
  <2>2. ProtocolsSound(d) BY <1>7, <2>1, SameProtocols
  <2>3. SubscribedIn(d) /\ ToldIn(d) BY <1>7, <2>1 DEF SubscribedIn, ToldIn
  <2> QED BY <2>1, <2>2, <2>3, DisconnectedSound
<1>13. Becomes(IF ~conn.initial \/ options.autoReconnectOnInitial THEN ScheduleConnection(c)
               ELSE IF conn.deferred = "none" THEN c ELSE HandleDisconnected(d))
  BY DEF Failed, a, b, c, d
<1> QED BY <1>7, <1>10, <1>11, <1>12, <1>13, BecomesSound

\* After a refusal the connection tries again, or the caller and the services hear that it
\* is given up (_handleConnectionFailure).
LEMMA AfterRefusalSound ==
  ASSUME NEW c \in CStates, NEW p \in Slots, NEW retryOk \in BOOLEAN,
         Sound(c), options \in Options,
         \A q \in Slots : c.protocols[q].chain # "opened",
         c.conn.attemptTask => c.conn.orphans < MaxOrphans
  PROVE  AfterRefusal(c, p, retryOk) \in CStates /\ Sound(AfterRefusal(c, p, retryOk))
<1> DEFINE y == [c EXCEPT !.conn.generator = @ /\ ~retryOk,
                          !.conn.challenge = @ \/ (~retryOk /\ Challenged(c))]
           z == [y EXCEPT !.conn.deferred = "settled"]
           g == c.conn.generator /\ ~retryOk
           h == c.conn.challenge \/ (~retryOk /\ Challenged(c))
           s == ScheduleConnection(c)
<1>1. c.conn \in Conns BY DEF CStates
<1>2. g \in BOOLEAN /\ h \in BOOLEAN OBVIOUS
<1>3. y = [c EXCEPT !.conn = [c.conn EXCEPT !.generator = g, !.challenge = h]]
  <2>1. y = [c EXCEPT !.conn.generator = g, !.conn.challenge = h]
    BY <1>1 DEF CStates, Conns
  <2> HIDE DEF g, h, y
  <2> QED BY <1>1, <2>1 DEF CStates, Conns
<1> HIDE DEF g, h
<1>4. [c.conn EXCEPT !.generator = g, !.challenge = h] \in Conns
  BY <1>1, <1>2 DEF Conns
<1> HIDE DEF y
<1>5. /\ y \in CStates /\ y.protocols = c.protocols
      /\ y.conn = [c.conn EXCEPT !.generator = g, !.challenge = h]
  BY <1>3, <1>4 DEF CStates
<1>6. /\ y.conn.state = c.conn.state /\ y.conn.current = c.conn.current
      /\ y.conn.deferred = c.conn.deferred /\ y.conn.told = c.conn.told
      /\ y.conn.online = c.conn.online /\ y.conn.attemptTask = c.conn.attemptTask
      /\ y.conn.orphans = c.conn.orphans /\ y.conn.timeoutTask = c.conn.timeoutTask
  BY <1>1, <1>5 DEF Conns
<1>7. Sound(y)
  <2>1. ProtocolsSound(y) BY <1>5, SameProtocols DEF Sound
  <2>2. SubscribedIn(y) /\ ToldIn(y)
    BY <1>5, <1>6 DEF Sound, SubscribedIn, ToldIn
  <2>3. MovesIn(y) BY <1>5, <1>6 DEF Sound, MovesIn, PastOpening
  <2> QED BY <2>1, <2>2, <2>3 DEF Sound
<1>8. ChainAt(s, p, "done") \in CStates /\ Sound(ChainAt(s, p, "done"))
  <2>1. c.conn.state = "connecting" => c.conn.deferred = "pending"
    BY DEF Sound, MovesIn
  <2>2. s \in CStates /\ Sound(s)
    BY <2>1, RetrySound DEF Sound
  <2>3. s.conn.state = "connecting" => s.conn.attemptTask
    <3>1. s.conn = IF c.conn.state # "connecting" THEN c.conn
                   ELSE [c.conn EXCEPT !.told = ConnectionScheduledEvent, !.attemptTask = TRUE,
                                       !.orphans = IF c.conn.attemptTask THEN @ + 1 ELSE @]
      BY ScheduleDoes
    <3> HIDE DEF s
    <3> QED BY <1>1, <3>1 DEF Conns
  <2> QED BY <2>2, <2>3, ChainEndSound
<1>9. ChainAt(y, p, "failed") \in CStates /\ Sound(ChainAt(y, p, "failed"))
  <2>1. "failed" \in Chains \ {"opened", "requested"} BY DEF Chains, Jobs
  <2>2. \A q \in Slots \ {p} : y.protocols[q].chain # "opened" BY <1>5
  <2> QED BY <1>5, <1>7, <2>1, <2>2, ChainAtSound DEF Sound
<1>10. /\ ChainAt(HandleDisconnected(z), p, "done") \in CStates
       /\ Sound(ChainAt(HandleDisconnected(z), p, "done"))
  <2>1. z \in CStates /\ z.protocols = y.protocols /\ z.conn.current = y.conn.current
          /\ z.conn.told = y.conn.told /\ z.conn.state = y.conn.state
          /\ z.conn.online = y.conn.online /\ z.conn.attemptTask = y.conn.attemptTask
          /\ z.conn.orphans = y.conn.orphans
    BY <1>5 DEF CStates, Conns
  <2> HIDE DEF z
  <2>2. ProtocolsSound(z) BY <1>7, <2>1, SameProtocols DEF Sound
  <2>3. SubscribedIn(z) /\ ToldIn(z) BY <1>7, <2>1 DEF Sound, SubscribedIn, ToldIn
  <2>4. HandleDisconnected(z) \in CStates /\ Sound(HandleDisconnected(z))
    BY <2>1, <2>2, <2>3, DisconnectedSound
  <2>5. HandleDisconnected(z).conn.state = "disconnected"
    <3>1. HandleDisconnected(z).conn =
            IF z.conn.state = "disconnected" THEN z.conn
            ELSE [z.conn EXCEPT !.state = "disconnected", !.told = DisconnectedEvent,
                                !.online = FALSE]
      BY <2>1, HandleDisconnectedDoes
    <3> QED BY <2>1, <3>1 DEF CStates, Conns
  <2> QED BY <2>4, <2>5, ChainEndSound
<1>11. \/ AfterRefusal(c, p, retryOk) = ChainAt(s, p, "done")
       \/ AfterRefusal(c, p, retryOk) = ChainAt(y, p, "failed")
       \/ AfterRefusal(c, p, retryOk) = ChainAt(HandleDisconnected(z), p, "done")
  BY DEF AfterRefusal, RejectDeferred, y, s, z
<1> QED BY <1>8, <1>9, <1>10, <1>11

\* The server refuses the client: disconnected, or the fallback of a reconnect.
LEMMA RefusedSound ==
  ASSUME ConnectionInv, NEW p \in Slots, Refused(p)
  PROVE  Now' \in CStates /\ Sound(Now')
<1> DEFINE a == [Now EXCEPT !.conn.timeoutTask = FALSE]
           c == Emit(a, ConnectionFailedEvent)
           d == Close(c, conn.current)
           x == [d EXCEPT !.protocols[conn.current].subscribed = FALSE,
                          !.conn.current = None]
           retryOk == protocols[p].chain = "retry"
<1>1. conn \in Conns /\ protocols \in [Slots -> Protocol] /\ Sound(Now)
        /\ protocols[p].chain \in {"refused", "retry"}
  BY DEF ConnectionInv, CStates, Now, Refused
<1>2. a \in CStates /\ a.protocols = protocols /\ a.conn = [conn EXCEPT !.timeoutTask = FALSE]
  BY <1>1 DEF Now, CStates, Conns
<1> HIDE DEF a
<1>3. /\ a.conn.state = conn.state /\ a.conn.online = conn.online /\ a.conn.told = conn.told
      /\ a.conn.attemptTask = conn.attemptTask /\ a.conn.orphans = conn.orphans
      /\ a.conn.deferred = conn.deferred /\ a.conn.current = conn.current
  BY <1>1, <1>2 DEF Conns
<1>4. ToldIn(a) BY <1>1, <1>3, NowIs DEF Sound, ToldIn
<1>5. /\ c \in CStates /\ c.protocols = protocols /\ ToldIn(c)
      /\ c.conn = [a.conn EXCEPT !.told = ConnectionFailedEvent]
  BY <1>2, <1>4, EmitQuietly
<1> HIDE DEF c
<1>6. /\ c.conn.current = conn.current /\ c.conn.state = conn.state
      /\ c.conn.deferred = conn.deferred /\ c.conn.attemptTask = conn.attemptTask
      /\ c.conn.orphans = conn.orphans
  BY <1>2, <1>3, <1>5 DEF CStates, Conns
<1>7. ProtocolsSound(c) /\ SubscribedIn(c)
  BY <1>1, <1>5, <1>6, NowIs, SameProtocols DEF Sound, SubscribedIn
<1>8. MovesIn(c)
  <2>1. PastOpening(c) BY <1>1, <1>5 DEF PastOpening
  <2> QED BY <1>1, <1>6, <2>1, NowIs DEF Sound, MovesIn
<1>9. \A q \in Slots : c.protocols[q].chain # "opened"
  <2>1. protocols[p].chain \in Jobs \ {"opened"} BY <1>1 DEF Jobs
  <2> QED BY <1>5, <2>1, NoneOpened
<1>10. CASE conn.current = None
  <2>1. "failed" \in Chains \ {"opened", "requested"} BY DEF Chains, Jobs
  <2>2. ChainAt(c, p, "failed") \in CStates /\ Sound(ChainAt(c, p, "failed"))
    BY <1>5, <1>7, <1>8, <1>9, <2>1, ChainAtSound DEF Sound
  <2>3. Becomes(ChainAt(c, p, "failed")) BY <1>10 DEF Refused, a, c
  <2> QED BY <2>2, <2>3, BecomesSound
<1>11. CASE conn.current # None
  <2>1. conn.current \in Slots BY <1>1, <1>11 DEF Conns
  <2>2. /\ d \in CStates /\ d.conn = c.conn /\ ProtocolsSound(d)
        /\ \A q \in Slots : d.protocols[q].chain = c.protocols[q].chain
                              \/ d.protocols[q].chain = "failed"
    BY <1>5, <1>7, <1>9, <2>1, CloseDoes
  <2> HIDE DEF d
  <2>3. /\ x \in CStates /\ x.conn = [c.conn EXCEPT !.current = None]
        /\ x.protocols = [d.protocols EXCEPT ![conn.current].subscribed = FALSE]
    <3> DEFINE f == [d.protocols EXCEPT ![conn.current].subscribed = FALSE]
               e == [d EXCEPT !.protocols = f]
    <3>1. f \in [Slots -> Protocol] BY <2>1, <2>2, ZenonT(30) DEF CStates, Protocol
    <3>2. x = [e EXCEPT !.conn.current = None]
      BY <2>2 DEF CStates
    <3> HIDE DEF f
    <3>3. e \in CStates /\ e.conn = d.conn /\ e.protocols = f
      BY <2>2, <3>1, ProtocolSet
    <3> HIDE DEF e, x
    <3>4. x \in CStates /\ x.conn = [e.conn EXCEPT !.current = None] /\ x.protocols = f
      BY <3>2, <3>3 DEF CStates, Conns
    <3> QED BY <2>2, <3>3, <3>4 DEF f
  <2> HIDE DEF x
  <2>4. /\ x.conn.current = None /\ x.conn.state = conn.state /\ x.conn.told = c.conn.told
        /\ x.conn.online = c.conn.online /\ x.conn.deferred = conn.deferred
        /\ x.conn.attemptTask = conn.attemptTask /\ x.conn.orphans = conn.orphans
    BY <1>5, <1>6, <2>3 DEF CStates, Conns
  <2>5. \A q \in Slots : /\ x.protocols[q].socket = d.protocols[q].socket
                         /\ x.protocols[q].connected = d.protocols[q].connected
                         /\ x.protocols[q].heartbeat = d.protocols[q].heartbeat
                         /\ x.protocols[q].chain = d.protocols[q].chain
                         /\ x.protocols[q].via = d.protocols[q].via
    BY <2>2, <2>3 DEF CStates, Protocol
  <2>6. ProtocolsSound(x)
    BY <2>2, <2>5 DEF ProtocolsSound, WatchedIn, Watched, OpenedIn, SentIn
  <2>7. SubscribedIn(x) BY <2>4 DEF SubscribedIn
  <2>8. ToldIn(x) BY <1>5, <1>6, <2>4 DEF ToldIn
  <2>9. MovesIn(x)
    <3>1. x.protocols[p].chain \in {"refused", "retry", "failed"} BY <1>1, <1>5, <2>2, <2>5
    <3>2. PastOpening(x) BY <3>1 DEF PastOpening
    <3> QED BY <1>1, <2>4, <3>2, NowIs DEF Sound, MovesIn
  <2>10. \A q \in Slots : x.protocols[q].chain # "opened" BY <1>9, <2>2, <2>5
  <2>11. x.conn.attemptTask => x.conn.orphans < MaxOrphans BY <2>4 DEF Refused
  <2>12. options \in Options BY DEF ConnectionInv, Counted
  <2>13. Sound(x) BY <2>6, <2>7, <2>8, <2>9 DEF Sound
  <2>14. retryOk \in BOOLEAN OBVIOUS
  <2>15. Becomes(AfterRefusal(x, p, retryOk)) BY <1>11 DEF Refused, a, c, d, x
  <2> HIDE DEF retryOk
  <2>16. AfterRefusal(x, p, retryOk) \in CStates /\ Sound(AfterRefusal(x, p, retryOk))
    BY <2>3, <2>10, <2>11, <2>12, <2>13, <2>14, AfterRefusalSound
  <2> QED BY <2>15, <2>16, BecomesSound
<1> QED BY <1>10, <1>11

\* The end of disconnect() (ConvergenceConnection.disconnect).
LEMMA DisconnectCompletesSound ==
  ASSUME ConnectionInv, NEW p \in Slots, DisconnectCompletes(p)
  PROVE  Now' \in CStates /\ Sound(Now')
<1> DEFINE f == [protocols EXCEPT ![p].disconnecting = FALSE]
           c == [Now EXCEPT !.protocols[p].disconnecting = FALSE]
           x == [c EXCEPT !.protocols[conn.current].subscribed = FALSE,
                          !.conn.current = None]
<1>1. conn \in Conns /\ protocols \in [Slots -> Protocol] /\ Sound(Now)
  BY DEF ConnectionInv, CStates, Now
<1>2. f \in [Slots -> Protocol] BY <1>1 DEF Protocol
<1>3. c \in CStates /\ c.conn = conn /\ c.protocols = f
  <2>1. c = [Now EXCEPT !.protocols = f] BY <1>1 DEF Now
  <2>2. Now \in CStates BY DEF ConnectionInv
  <2> HIDE DEF f, c
  <2> QED BY <1>2, <2>1, <2>2, NowIs, ProtocolSet
<1>4. \A q \in Slots : /\ f[q].socket = protocols[q].socket
                       /\ f[q].connected = protocols[q].connected
                       /\ f[q].heartbeat = protocols[q].heartbeat
                       /\ f[q].chain = protocols[q].chain
                       /\ f[q].via = protocols[q].via
                       /\ f[q].subscribed = protocols[q].subscribed
  BY <1>1 DEF Protocol
<1> HIDE DEF f, c
<1>5. ProtocolsSound(c)
  BY <1>1, <1>3, <1>4, NowIs
  DEF Sound, ProtocolsSound, WatchedIn, Watched, OpenedIn, SentIn
<1>6. ToldIn(c) BY <1>1, <1>3, NowIs DEF Sound, ToldIn
<1>7. CASE conn.current = None
  <2>1. SubscribedIn(c) BY <1>3, <1>7 DEF SubscribedIn
  <2>2. MovesIn(c)
    BY <1>1, <1>3, <1>4, NowIs DEF Sound, MovesIn, PastOpening
  <2>3. Sound(c) BY <1>5, <1>6, <2>1, <2>2 DEF Sound
  <2>4. Becomes(c) BY <1>7 DEF DisconnectCompletes, c
  <2> QED BY <1>3, <2>3, <2>4, BecomesSound
<1>8. CASE conn.current # None
  <2>1. conn.current \in Slots BY <1>1, <1>8 DEF Conns
  <2>2. /\ x \in CStates /\ x.conn = [conn EXCEPT !.current = None]
        /\ x.protocols = [f EXCEPT ![conn.current].subscribed = FALSE]
    <3> DEFINE g == [f EXCEPT ![conn.current].subscribed = FALSE]
               e == [c EXCEPT !.protocols = g]
    <3>1. g \in [Slots -> Protocol] BY <1>2, <2>1 DEF Protocol
    <3>2. x = [e EXCEPT !.conn.current = None]
      BY <1>3 DEF CStates
    <3> HIDE DEF g
    <3>3. e \in CStates /\ e.conn = conn /\ e.protocols = g
      BY <1>3, <3>1, ProtocolSet
    <3> HIDE DEF e, x
    <3>4. x \in CStates /\ x.conn = [e.conn EXCEPT !.current = None] /\ x.protocols = g
      BY <3>2, <3>3 DEF CStates, Conns
    <3> QED BY <3>3, <3>4 DEF g
  <2> HIDE DEF x
  <2>3. /\ x.conn.current = None /\ x.conn.state = conn.state /\ x.conn.told = conn.told
        /\ x.conn.online = conn.online /\ x.conn.attemptTask = conn.attemptTask
        /\ x.conn.orphans = conn.orphans
    BY <1>1, <2>2 DEF Conns
  <2>4. \A q \in Slots : /\ x.protocols[q].socket = f[q].socket
                         /\ x.protocols[q].connected = f[q].connected
                         /\ x.protocols[q].heartbeat = f[q].heartbeat
                         /\ x.protocols[q].chain = f[q].chain
                         /\ x.protocols[q].via = f[q].via
    BY <1>2, <2>1, <2>2 DEF Protocol
  <2>5. ProtocolsSound(x)
    BY <1>3, <1>5, <2>4 DEF ProtocolsSound, WatchedIn, Watched, OpenedIn, SentIn
  <2>6. SubscribedIn(x) BY <2>3 DEF SubscribedIn
  <2>7. ToldIn(x) BY <1>1, <2>3, NowIs DEF Sound, ToldIn
  <2>8. Becomes(HandleDisconnected(x)) BY <1>8 DEF DisconnectCompletes, c, x
  <2> QED BY <2>2, <2>5, <2>6, <2>7, <2>8, DisconnectedSound, BecomesSound
<1> QED BY <1>7, <1>8

\* The application connects or reconnects.
LEMMA ConnectActionSound ==
  ASSUME ConnectionInv, NEW method \in {"password", "reconnect"}, Connect(method)
  PROVE  Now' \in CStates /\ Sound(Now')
<1>1. Now \in CStates /\ Sound(Now) BY DEF ConnectionInv
<1>2. ~Now.conn.online
  BY <1>1, NowIs DEF Connect, Sound, ToldIn
<1>3. FreeSlots(Now) # {} BY DEF Connect, Room
<1>4. Becomes(ConnectToServer(Now, method)) BY DEF Connect
<1> QED BY <1>1, <1>2, <1>3, <1>4, ConnectSound, BecomesSound DEF Sound

\* disconnect() is called when no continuation is left to run.
LEMMA DisconnectSound ==
  ASSUME ConnectionInv, Disconnect
  PROVE  Now' \in CStates /\ Sound(Now')
<1> DEFINE k == [conn EXCEPT !.generator = FALSE, !.timeoutTask = FALSE,
                             !.attemptTask = FALSE, !.deferred = "none",
                             !.state = "disconnecting", !.initial = TRUE,
                             !.windowListener = FALSE]
           c == [Now EXCEPT !.conn.generator = FALSE, !.conn.timeoutTask = FALSE,
                            !.conn.attemptTask = FALSE, !.conn.deferred = "none",
                            !.conn.state = "disconnecting", !.conn.initial = TRUE,
                            !.conn.windowListener = FALSE]
           d == Close(c, conn.current)
           x == [d EXCEPT !.protocols[conn.current].disconnecting =
                             @ \/ CanClose(c, conn.current)]
<1>1. conn \in Conns /\ protocols \in [Slots -> Protocol] /\ Sound(Now)
        /\ conn.state # "disconnected"
  BY DEF ConnectionInv, CStates, Now, Disconnect
<1>2. k \in Conns BY <1>1 DEF Conns, States
<1>3. c = [Now EXCEPT !.conn = k] BY <1>1 DEF Now, Conns
<1>4. /\ k.state = "disconnecting" /\ k.told = conn.told /\ k.online = conn.online
      /\ k.current = conn.current
  BY <1>1 DEF Conns
<1> HIDE DEF k, c
<1>5. c \in CStates /\ c.conn = k /\ c.protocols = protocols
  BY <1>1, <1>2, <1>3 DEF CStates, Now
<1>6. ProtocolsSound(c) BY <1>1, <1>5, NowIs, SameProtocols DEF Sound
<1>7. ToldIn(c) BY <1>1, <1>4, <1>5, NowIs DEF Sound, ToldIn
<1>8. SubscribedIn(c) BY <1>1, <1>4, <1>5, NowIs DEF Sound, SubscribedIn
<1>9. \A q \in Slots : c.protocols[q].chain # "opened"
  BY <1>5 DEF Disconnect, ContinuationsRan, Jobs
<1>10. CASE conn.current = None
  <2>1. MovesIn(c) BY <1>4, <1>5 DEF MovesIn
  <2>2. Sound(c) BY <1>6, <1>7, <1>8, <2>1 DEF Sound
  <2>3. Becomes(c) BY <1>10 DEF Disconnect, c
  <2> QED BY <1>5, <2>2, <2>3, BecomesSound
<1>11. CASE conn.current # None
  <2>1. conn.current \in Slots BY <1>1, <1>11 DEF Conns
  <2>2. /\ d \in CStates /\ d.conn = c.conn /\ ProtocolsSound(d)
        /\ \A q \in Slots : d.protocols[q].subscribed = c.protocols[q].subscribed
    BY <1>5, <1>6, <1>9, <2>1, CloseDoes
  <2> HIDE DEF d
  <2>3. PICK closing \in BOOLEAN :
          x = [d EXCEPT !.protocols = [d.protocols EXCEPT ![conn.current].disconnecting = closing]]
    <3> DEFINE closing == d.protocols[conn.current].disconnecting \/ CanClose(c, conn.current)
    <3>1. closing \in BOOLEAN OBVIOUS
    <3>2. x = [d EXCEPT !.protocols = [d.protocols EXCEPT ![conn.current].disconnecting = closing]]
      BY <2>1, <2>2 DEF CStates
    <3> QED BY <3>1, <3>2
  <2> DEFINE f == [d.protocols EXCEPT ![conn.current].disconnecting = closing]
  <2>4. f \in [Slots -> Protocol] BY <2>1, <2>2 DEF CStates, Protocol
  <2>5. \A q \in Slots : /\ f[q].socket = d.protocols[q].socket
                         /\ f[q].connected = d.protocols[q].connected
                         /\ f[q].heartbeat = d.protocols[q].heartbeat
                         /\ f[q].chain = d.protocols[q].chain
                         /\ f[q].via = d.protocols[q].via
                         /\ f[q].subscribed = d.protocols[q].subscribed
    BY <2>1, <2>2 DEF CStates, Protocol
  <2>6. x = [d EXCEPT !.protocols = f] BY <2>3
  <2> HIDE DEF x, f
  <2>7. x \in CStates /\ x.conn = k /\ x.protocols = f
    BY <1>5, <2>2, <2>4, <2>6, ProtocolSet
  <2>8. ProtocolsSound(x)
    BY <2>2, <2>5, <2>7 DEF ProtocolsSound, WatchedIn, Watched, OpenedIn, SentIn
  <2>9. SubscribedIn(x)
    BY <1>4, <1>5, <1>8, <2>1, <2>2, <2>5, <2>7 DEF SubscribedIn
  <2>10. ToldIn(x) /\ MovesIn(x) BY <1>4, <1>5, <1>7, <2>7 DEF ToldIn, MovesIn
  <2>11. Becomes(x) BY <1>11 DEF Disconnect, c, d, x
  <2> QED BY <2>7, <2>8, <2>9, <2>10, <2>11, BecomesSound DEF Sound
<1> QED BY <1>10, <1>11

\* A step of one protocol connection that leaves the ConvergenceConnection alone.
LEMMA OneProtocolSound ==
  ASSUME NEW c \in CStates, Sound(c), NEW p \in Slots, NEW s \in Protocol,
         Watched(s), s.subscribed = c.protocols[p].subscribed,
         s.chain = c.protocols[p].chain \/ s.chain \notin {"opening", "done"},
         s.chain = "requested" => s.via # None,
         s.chain = "opened" => s.socket = "open",
         s.chain \in Jobs => \A q \in Slots \ {p} : c.protocols[q].chain \notin Jobs
  PROVE  /\ [c EXCEPT !.protocols = [c.protocols EXCEPT ![p] = s]] \in CStates
         /\ Sound([c EXCEPT !.protocols = [c.protocols EXCEPT ![p] = s]])
<1> DEFINE f == [c.protocols EXCEPT ![p] = s]
           d == [c EXCEPT !.protocols = f]
<1>1. c.protocols \in [Slots -> Protocol] BY DEF CStates
<1>2. f \in [Slots -> Protocol] /\ f[p] = s /\ \A q \in Slots \ {p} : f[q] = c.protocols[q]
  BY <1>1
<1> HIDE DEF f
<1>3. d \in CStates /\ d.conn = c.conn /\ d.protocols = f
  BY <1>2, ProtocolSet
<1> HIDE DEF d
<1>4. WatchedIn(d) BY <1>2, <1>3 DEF Sound, ProtocolsSound, WatchedIn
<1>5. OpenedIn(d)
  <2>1. "opened" \in Jobs BY DEF Jobs
  <2> QED BY <1>2, <1>3, <2>1 DEF Sound, ProtocolsSound, OpenedIn
<1>6. SentIn(d) BY <1>2, <1>3 DEF Sound, ProtocolsSound, SentIn
<1>7. SubscribedIn(d)
  <2>1. c.conn.current \in Slots \cup {None} BY DEF CStates, Conns
  <2> QED BY <1>2, <1>3, <2>1 DEF Sound, SubscribedIn
<1>8. ToldIn(d) BY <1>3 DEF Sound, ToldIn
<1>9. MovesIn(d)
  <2>1. PastOpening(c) => PastOpening(d) BY <1>2, <1>3 DEF PastOpening
  <2> QED BY <1>3, <2>1 DEF Sound, MovesIn
<1>10. d \in CStates /\ Sound(d)
  BY <1>3, <1>4, <1>5, <1>6, <1>7, <1>8, <1>9 DEF Sound, ProtocolsSound
<1> QED BY <1>10 DEF d, f

\* A task starts when no continuation is left.
LEMMA NoJobs ==
  ASSUME Task
  PROVE  \A q \in Slots : protocols[q].chain \notin Jobs
BY DEF Task, ContinuationsRan

\* The application answers the challenge for new credentials.
LEMMA AnswerChallengeSound ==
  ASSUME ConnectionInv, AnswerChallenge
  PROVE  Now' \in CStates /\ Sound(Now')
<1> DEFINE c == [Now EXCEPT !.conn.challenge = FALSE]
<1>1. conn \in Conns /\ protocols \in [Slots -> Protocol] /\ Sound(Now)
  BY DEF ConnectionInv, CStates, Now
<1>2. c \in CStates /\ c.protocols = protocols /\ c.conn = [conn EXCEPT !.challenge = FALSE]
  BY <1>1 DEF Now, CStates, Conns
<1> HIDE DEF c
<1>3. /\ c.conn.state = conn.state /\ c.conn.online = conn.online /\ c.conn.told = conn.told
      /\ c.conn.attemptTask = conn.attemptTask /\ c.conn.orphans = conn.orphans
      /\ c.conn.deferred = conn.deferred /\ c.conn.current = conn.current
      /\ c.conn.timeoutTask = conn.timeoutTask
  BY <1>1, <1>2 DEF Conns
<1>4. ProtocolsSound(c) BY <1>1, <1>2, NowIs, SameProtocols DEF Sound
<1>5. ToldIn(c) /\ SubscribedIn(c) BY <1>1, <1>2, <1>3, NowIs DEF Sound, ToldIn, SubscribedIn
<1>6. MovesIn(c) BY <1>1, <1>2, <1>3, NowIs DEF Sound, MovesIn, PastOpening
<1>7. CASE Becomes(c)
  BY <1>2, <1>4, <1>5, <1>6, <1>7, BecomesSound DEF Sound
<1>8. CASE conn.state \in {"disconnected", "interrupted"} /\ Becomes(ConnectToServer(c, "password"))
  <2>1. FreeSlots(c) # {}
    BY <1>2, NowIs, FreeSlotsOfProtocols DEF AnswerChallenge, Room
  <2>2. ~c.conn.online BY <1>1, <1>3, <1>8, NowIs DEF Sound, ToldIn
  <2> QED BY <1>2, <1>4, <1>8, <2>1, <2>2, ConnectSound, BecomesSound
<1>9. \/ conn.state \in {"disconnected", "interrupted"} /\ Becomes(ConnectToServer(c, "password"))
      \/ Becomes(c)
  BY DEF AnswerChallenge, c
<1> QED BY <1>7, <1>8, <1>9

\* The credentials are there, or the application gave none.
LEMMA CredentialsSound ==
  ASSUME ConnectionInv, NEW p \in Slots, NEW given \in BOOLEAN, Credentials(p, given)
  PROVE  Now' \in CStates /\ Sound(Now')
<1> DEFINE e == Emit(Now, AuthenticatingEvent)
           c == IF given THEN e ELSE Now
           s == [protocols[p] EXCEPT !.chain = "requested", !.via = conn.current]
           x == [c EXCEPT !.protocols[p].chain = "requested", !.protocols[p].via = conn.current]
<1>1. conn \in Conns /\ protocols \in [Slots -> Protocol] /\ Sound(Now) /\ Now \in CStates
        /\ protocols[p].chain = "generating"
  BY DEF ConnectionInv, CStates, Now, Credentials
<1>2. /\ e \in CStates /\ e.protocols = protocols /\ ToldIn(e)
      /\ e.conn = [conn EXCEPT !.told = AuthenticatingEvent]
  BY <1>1, NowIs, EmitQuietly DEF Sound
<1> HIDE DEF e
<1>3. /\ e.conn.state = conn.state /\ e.conn.attemptTask = conn.attemptTask
      /\ e.conn.orphans = conn.orphans /\ e.conn.timeoutTask = conn.timeoutTask
      /\ e.conn.deferred = conn.deferred /\ e.conn.current = conn.current
  BY <1>1, <1>2 DEF Conns
<1>4. Sound(e)
  <2>1. ProtocolsSound(e) BY <1>1, <1>2, NowIs, SameProtocols DEF Sound
  <2>2. SubscribedIn(e) BY <1>1, <1>2, <1>3, NowIs DEF Sound, SubscribedIn
  <2>3. MovesIn(e) BY <1>1, <1>2, <1>3, NowIs DEF Sound, MovesIn, PastOpening
  <2> QED BY <1>2, <2>1, <2>2, <2>3 DEF Sound
<1>5. c \in CStates /\ Sound(c) /\ c.protocols = protocols
  BY <1>1, <1>2, <1>4, NowIs
<1>6. \A q \in Slots : protocols[q].chain \notin Jobs BY NoJobs DEF Credentials
<1> HIDE DEF c
<1>7. ChainAt(c, p, "failed") \in CStates /\ Sound(ChainAt(c, p, "failed"))
  <2>1. "failed" \in Chains \ {"opened", "requested"} /\ "opened" \in Jobs BY DEF Chains, Jobs
  <2>2. \A q \in Slots \ {p} : c.protocols[q].chain # "opened" BY <1>5, <1>6, <2>1
  <2> QED BY <1>5, <2>1, <2>2, ChainAtSound DEF Sound
<1>8. ASSUME conn.current # None PROVE x \in CStates /\ Sound(x)
  <2>1. conn.current \in Slots BY <1>1, <1>8 DEF Conns
  <2>2. /\ s \in Protocol /\ s.chain = "requested" /\ s.via = conn.current
        /\ s.socket = protocols[p].socket /\ s.connected = protocols[p].connected
        /\ s.heartbeat = protocols[p].heartbeat /\ s.subscribed = protocols[p].subscribed
    BY <1>1, <2>1 DEF Protocol, Chains
  <2>3. x = [c EXCEPT !.protocols = [c.protocols EXCEPT ![p] = s]]
    BY <1>1, <1>5 DEF CStates, Protocol
  <2> HIDE DEF s, x
  <2>4. Watched(s)
    BY <1>1, <2>2, NowIs DEF Sound, ProtocolsSound, WatchedIn, Watched
  <2>5. "requested" \notin Jobs BY DEF Jobs
  <2> QED BY <1>5, <1>8, <2>2, <2>3, <2>4, <2>5, OneProtocolSound
<1>9. \/ Becomes(ChainAt(c, p, "failed"))
      \/ conn.current # None /\ Becomes(x)
  BY DEF Credentials, c, e, x
<1> QED BY <1>7, <1>8, <1>9, BecomesSound

\* The timer of an attempt, whose handle may have been lost (_attemptConnection).
LEMMA AttemptTimerSound ==
  ASSUME ConnectionInv, AttemptTimer
  PROVE  Now' \in CStates /\ Sound(Now')
<1> DEFINE c == [Now EXCEPT !.conn.orphans = @ - 1]
<1>1. conn \in Conns /\ protocols \in [Slots -> Protocol] /\ Sound(Now) /\ Now \in CStates
  BY DEF ConnectionInv, CStates, Now
<1>2. FreeSlots(Now) # {} BY DEF AttemptTimer, Room
<1>3. /\ conn.online => conn.state \in {"connected", "disconnecting"}
      /\ conn.state = "connected" => conn.online
      /\ conn.state = "connecting" => conn.deferred = "pending"
  BY <1>1, NowIs DEF Sound, ToldIn, MovesIn
<1>4. CASE Becomes(AttemptConnection(Now))
  BY <1>1, <1>2, <1>3, <1>4, NowIs, AttemptSound, BecomesSound DEF Sound
<1>5. CASE conn.orphans > 0 /\ Becomes(AttemptConnection(c))
  <2>1. conn.orphans - 1 \in 0 .. MaxOrphans BY <1>1, <1>5, BoundsAssumption DEF Conns
  <2>2. c = [Now EXCEPT !.conn = [conn EXCEPT !.orphans = conn.orphans - 1]]
    BY <1>1 DEF Now, Conns
  <2>3. [conn EXCEPT !.orphans = conn.orphans - 1] \in Conns BY <1>1, <2>1 DEF Conns
  <2> HIDE DEF c
  <2>4. /\ c \in CStates /\ c.protocols = protocols
        /\ c.conn = [conn EXCEPT !.orphans = conn.orphans - 1]
    BY <1>1, <2>2, <2>3 DEF CStates, Now
  <2>5. /\ c.conn.state = conn.state /\ c.conn.online = conn.online
        /\ c.conn.deferred = conn.deferred
    BY <1>1, <2>4 DEF Conns
  <2>6. ProtocolsSound(c) BY <1>1, <2>4, NowIs, SameProtocols DEF Sound
  <2>7. FreeSlots(c) # {} BY <1>2, <2>4, NowIs, FreeSlotsOfProtocols
  <2> QED BY <1>3, <1>5, <2>4, <2>5, <2>6, <2>7, AttemptSound, BecomesSound
<1> QED BY <1>4, <1>5 DEF AttemptTimer

\* The connection timeout aborts the protocol connection of the moment (_onConnectionTimeout).
LEMMA ConnectionTimeoutSound ==
  ASSUME ConnectionInv, ConnectionTimeout
  PROVE  Now' \in CStates /\ Sound(Now')
<1> DEFINE c == [Now EXCEPT !.conn.timeoutTask = FALSE]
<1>1. conn \in Conns /\ protocols \in [Slots -> Protocol] /\ Sound(Now)
  BY DEF ConnectionInv, CStates, Now
<1>2. c \in CStates /\ c.protocols = protocols /\ c.conn = [conn EXCEPT !.timeoutTask = FALSE]
  BY <1>1 DEF Now, CStates, Conns
<1> HIDE DEF c
<1>3. /\ c.conn.state = conn.state /\ c.conn.online = conn.online /\ c.conn.told = conn.told
      /\ c.conn.attemptTask = conn.attemptTask /\ c.conn.orphans = conn.orphans
      /\ c.conn.deferred = conn.deferred /\ c.conn.current = conn.current
  BY <1>1, <1>2 DEF Conns
<1>4. ProtocolsSound(c) BY <1>1, <1>2, NowIs, SameProtocols DEF Sound
<1>5. ToldIn(c) /\ SubscribedIn(c) BY <1>1, <1>2, <1>3, NowIs DEF Sound, ToldIn, SubscribedIn
<1>6. CASE conn.current = None
  <2>1. MovesIn(c)
    BY <1>1, <1>2, <1>3, <1>6, NowIs DEF Sound, MovesIn, PastOpening
  <2>2. Becomes(c) BY <1>6 DEF ConnectionTimeout, c
  <2> QED BY <1>2, <1>4, <1>5, <2>1, <2>2, BecomesSound DEF Sound
<1>7. CASE conn.current # None
  <2>1. conn.current \in Slots BY <1>1, <1>7 DEF Conns
  <2>2. c.protocols[conn.current].subscribed
    BY <1>3, <1>5, <1>7 DEF SubscribedIn
  <2>3. FreeSlots(c) # {} BY <1>2, NowIs, FreeSlotsOfProtocols DEF ConnectionTimeout, Room
  <2>4. \A q \in Slots : c.protocols[q].chain \notin Jobs
    BY <1>2, NoJobs DEF ConnectionTimeout
  <2>5. Abort(c, conn.current) \in CStates /\ Sound(Abort(c, conn.current))
    BY <1>2, <1>4, <1>5, <2>1, <2>2, <2>3, <2>4, AbortSound
  <2>6. Becomes(Abort(c, conn.current)) BY <1>7 DEF ConnectionTimeout, c
  <2> QED BY <2>5, <2>6, BecomesSound
<1> QED BY <1>6, <1>7

\* The answer to a request does not come in time.
LEMMA RequestTimeoutSound ==
  ASSUME ConnectionInv, NEW p \in Slots, RequestTimeout(p)
  PROVE  Now' \in CStates /\ Sound(Now')
<1>1. Now \in CStates /\ Sound(Now) BY DEF ConnectionInv
<1>2. "failed" \in Chains \ {"opened", "requested"} /\ "opened" \in Jobs BY DEF Chains, Jobs
<1>3. \A q \in Slots \ {p} : Now.protocols[q].chain # "opened"
  BY <1>2, NowIs, NoJobs DEF RequestTimeout
<1>4. ChainAt(Now, p, "failed") \in CStates /\ Sound(ChainAt(Now, p, "failed"))
  BY <1>1, <1>2, <1>3, ChainAtSound DEF Sound
<1>5. Becomes(ChainAt(Now, p, "failed")) BY DEF RequestTimeout
<1> QED BY <1>4, <1>5, BecomesSound

\* The heartbeat pings and waits for the answer.
LEMMA PingSound ==
  ASSUME ConnectionInv, NEW p \in Slots, Ping(p)
  PROVE  Now' \in CStates /\ Sound(Now')
<1> DEFINE s == [protocols[p] EXCEPT !.heartbeat = "pong"]
           c == [Now EXCEPT !.protocols[p].heartbeat = "pong"]
<1>1. conn \in Conns /\ protocols \in [Slots -> Protocol] /\ Sound(Now) /\ Now \in CStates
        /\ protocols[p].socket = "open"
  BY DEF ConnectionInv, CStates, Now, Ping
<1>2. /\ s \in Protocol /\ s.heartbeat = "pong" /\ s.chain = protocols[p].chain
      /\ s.via = protocols[p].via
      /\ s.socket = "open" /\ s.subscribed = protocols[p].subscribed
  BY <1>1 DEF Protocol
<1>3. c = [Now EXCEPT !.protocols = [Now.protocols EXCEPT ![p] = s]]
  BY <1>1 DEF Now, Protocol
<1> HIDE DEF s, c
<1>4. Watched(s) BY <1>2 DEF Watched
<1>5. \A q \in Slots : protocols[q].chain \notin Jobs BY NoJobs DEF Ping
<1>6. s.chain = "requested" => s.via # None
  BY <1>1, <1>2, NowIs DEF Sound, ProtocolsSound, SentIn
<1>7. c \in CStates /\ Sound(c)
  BY <1>1, <1>2, <1>3, <1>4, <1>5, <1>6, NowIs, OneProtocolSound
<1>8. Becomes(c) BY DEF Ping, c
<1> QED BY <1>7, <1>8, BecomesSound

\* The answer to a ping does not come in time: the socket is closed.
LEMMA PongTimeoutSound ==
  ASSUME ConnectionInv, NEW p \in Slots, PongTimeout(p)
  PROVE  Now' \in CStates /\ Sound(Now')
<1>1. Now \in CStates /\ Sound(Now) BY DEF ConnectionInv
<1>2. FreeSlots(Now) # {} BY DEF PongTimeout, Room
<1>3. \A q \in Slots : Now.protocols[q].chain \notin Jobs BY NowIs, NoJobs DEF PongTimeout
<1>4. Abort(Now, p) \in CStates /\ Sound(Abort(Now, p))
  BY <1>1, <1>2, <1>3, AbortSound DEF Sound
<1>5. Becomes(Abort(Now, p)) BY DEF PongTimeout
<1> QED BY <1>4, <1>5, BecomesSound

\* The browser is online again: the attempt is brought forward.
LEMMA WindowOnlineSound ==
  ASSUME ConnectionInv, WindowOnline
  PROVE  Now' \in CStates /\ Sound(Now')
<1>1. Now \in CStates /\ Sound(Now) BY DEF ConnectionInv
<1>2. FreeSlots(Now) # {} BY DEF WindowOnline, Room
<1>3. Becomes(AttemptConnection(Now)) BY DEF WindowOnline
<1> QED BY <1>1, <1>2, <1>3, AttemptSound, BecomesSound DEF Sound, ToldIn, MovesIn

\* The browser opens the socket.
LEMMA SocketOpensSound ==
  ASSUME ConnectionInv, NEW p \in Slots, SocketOpens(p)
  PROVE  Now' \in CStates /\ Sound(Now')
<1> DEFINE s == [protocols[p] EXCEPT !.socket = "open", !.chain = "opened"]
           c == [Now EXCEPT !.protocols[p].socket = "open", !.protocols[p].chain = "opened"]
<1>1. conn \in Conns /\ protocols \in [Slots -> Protocol] /\ Sound(Now) /\ Now \in CStates
        /\ protocols[p].socket = "connecting"
  BY DEF ConnectionInv, CStates, Now, SocketOpens
<1>2. /\ s \in Protocol /\ s.chain = "opened" /\ s.socket = "open"
      /\ s.connected = protocols[p].connected /\ s.heartbeat = protocols[p].heartbeat
      /\ s.subscribed = protocols[p].subscribed
  BY <1>1 DEF Protocol, Chains, Jobs
<1>3. c = [Now EXCEPT !.protocols = [Now.protocols EXCEPT ![p] = s]]
  BY <1>1 DEF Now, Protocol
<1> HIDE DEF s, c
<1>4. Watched(s)
  BY <1>1, <1>2, NowIs DEF Watched, WatchedIn, Sound, ProtocolsSound
<1>5. \A q \in Slots : protocols[q].chain \notin Jobs BY NoJobs DEF SocketOpens
<1>6. c \in CStates /\ Sound(c)
  BY <1>1, <1>2, <1>3, <1>4, <1>5, NowIs, OneProtocolSound
<1>7. Becomes(c) BY DEF SocketOpens, c
<1> QED BY <1>6, <1>7, BecomesSound

\* The browser cannot open it.
LEMMA SocketFailsSound ==
  ASSUME ConnectionInv, NEW p \in Slots, SocketFails(p)
  PROVE  Now' \in CStates /\ Sound(Now')
<1> DEFINE s == [protocols[p] EXCEPT !.socket = "closed", !.chain = "failed"]
           c == [Now EXCEPT !.protocols[p].socket = "closed", !.protocols[p].chain = "failed"]
<1>1. conn \in Conns /\ protocols \in [Slots -> Protocol] /\ Sound(Now) /\ Now \in CStates
        /\ protocols[p].socket = "connecting"
  BY DEF ConnectionInv, CStates, Now, SocketFails
<1>2. /\ s \in Protocol /\ s.chain = "failed" /\ s.socket = "closed"
      /\ s.connected = protocols[p].connected /\ s.heartbeat = protocols[p].heartbeat
      /\ s.subscribed = protocols[p].subscribed
  BY <1>1 DEF Protocol, Chains, Jobs
<1>3. c = [Now EXCEPT !.protocols = [Now.protocols EXCEPT ![p] = s]]
  BY <1>1 DEF Now, Protocol
<1> HIDE DEF s, c
<1>4. Watched(s)
  BY <1>1, <1>2, NowIs DEF Watched, WatchedIn, Sound, ProtocolsSound
<1>5. \A q \in Slots : protocols[q].chain \notin Jobs BY NoJobs DEF SocketFails
<1>6. c \in CStates /\ Sound(c)
  BY <1>1, <1>2, <1>3, <1>4, <1>5, NowIs, OneProtocolSound
<1>7. Becomes(c) BY DEF SocketFails, c
<1> QED BY <1>6, <1>7, BecomesSound

\* The server or the network closes a socket (ProtocolConnection.onSocketDropped).
LEMMA SocketDropsSound ==
  ASSUME ConnectionInv, NEW p \in Slots, SocketDrops(p)
  PROVE  Now' \in CStates /\ Sound(Now')
<1> DEFINE f == [protocols EXCEPT ![p].socket = "closed"]
           c == [Now EXCEPT !.protocols[p].socket = "closed"]
<1>1. conn \in Conns /\ protocols \in [Slots -> Protocol] /\ Sound(Now) /\ Now \in CStates
  BY DEF ConnectionInv, CStates, Now
<1>2. /\ f \in [Slots -> Protocol] /\ \A q \in Slots \ {p} : f[q] = protocols[q]
      /\ f[p].chain = protocols[p].chain /\ f[p].via = protocols[p].via
      /\ f[p].subscribed = protocols[p].subscribed /\ f[p].socket = "closed"
      /\ f[p].disconnecting = protocols[p].disconnecting
  BY <1>1 DEF Protocol
<1>3. c = [Now EXCEPT !.protocols = f] BY <1>1 DEF Now
<1> HIDE DEF f, c
<1>4. c \in CStates /\ c.conn = conn /\ c.protocols = f
  BY <1>1, <1>2, <1>3, NowIs, ProtocolSet
<1>5. \A q \in Slots : protocols[q].chain \notin Jobs BY NoJobs DEF SocketDrops
<1>6. OpenedIn(c)
  <2>1. "opened" \in Jobs BY DEF Jobs
  <2>2. \A q \in Slots : c.protocols[q].chain # "opened" BY <1>2, <1>4, <1>5, <2>1
  <2> QED BY <2>2 DEF OpenedIn
<1>7. SentIn(c) BY <1>1, <1>2, <1>4, NowIs DEF Sound, ProtocolsSound, SentIn
<1>8. SubscribedIn(c)
  <2>1. conn.current \in Slots \cup {None} BY <1>1 DEF Conns
  <2> QED BY <1>1, <1>2, <1>4, <2>1, NowIs DEF Sound, SubscribedIn
<1>9. \A q \in Slots \ {p} : Watched(c.protocols[q])
  BY <1>1, <1>2, <1>4, NowIs DEF Sound, ProtocolsSound, WatchedIn
<1>10. ToldIn(c) BY <1>1, <1>4, NowIs DEF Sound, ToldIn
<1>11. MovesIn(c)
  <2>1. PastOpening(Now) => PastOpening(c) BY <1>2, <1>4, NowIs DEF PastOpening
  <2> QED BY <1>1, <1>4, <2>1, NowIs DEF Sound, MovesIn
<1>12. FreeSlots(c) # {}
  <2>1. FreeSlots(Now) # {} BY DEF SocketDrops, Room
  <2>2. FreeSlots(Now) \subseteq FreeSlots(c) BY <1>2, <1>4, NowIs, StaysFree
  <2> QED BY <2>1, <2>2
<1>13. Becomes(OnSocketDropped(c, p)) BY DEF SocketDrops, c
<1> QED BY <1>4, <1>6, <1>7, <1>8, <1>9, <1>10, <1>11, <1>12, <1>13, DroppedSound, BecomesSound

\* The socket is closed by the other side.
LEMMA SocketClosedSound ==
  ASSUME ConnectionInv, NEW p \in Slots, SocketClosed(p)
  PROVE  Now' \in CStates /\ Sound(Now')
<1> DEFINE s == [protocols[p] EXCEPT !.socket = "closed", !.connected = FALSE]
           c == [Now EXCEPT !.protocols[p].socket = "closed", !.protocols[p].connected = FALSE]
<1>1. conn \in Conns /\ protocols \in [Slots -> Protocol] /\ Sound(Now) /\ Now \in CStates
        /\ protocols[p].socket = "closing"
  BY DEF ConnectionInv, CStates, Now, SocketClosed
<1>2. /\ s \in Protocol /\ s.socket = "closed" /\ ~s.connected
      /\ s.chain = protocols[p].chain /\ s.heartbeat = protocols[p].heartbeat
      /\ s.subscribed = protocols[p].subscribed /\ s.via = protocols[p].via
  BY <1>1 DEF Protocol
<1>3. c = [Now EXCEPT !.protocols = [Now.protocols EXCEPT ![p] = s]]
  BY <1>1 DEF Now, Protocol
<1> HIDE DEF s, c
<1>4. Watched(s)
  BY <1>1, <1>2, NowIs DEF Watched, WatchedIn, Sound, ProtocolsSound
<1>5. \A q \in Slots : protocols[q].chain \notin Jobs BY NoJobs DEF SocketClosed
<1>6. s.chain # "opened" /\ (s.chain = "requested" => s.via # None)
  <2>1. "opened" \in Jobs BY DEF Jobs
  <2> QED BY <1>1, <1>2, <1>5, <2>1, NowIs DEF Sound, ProtocolsSound, SentIn
<1>7. c \in CStates /\ Sound(c)
  BY <1>1, <1>2, <1>3, <1>4, <1>5, <1>6, NowIs, OneProtocolSound
<1>8. HandleDisconnected(c) \in CStates /\ Sound(HandleDisconnected(c))
  BY <1>7, DisconnectedSound DEF Sound
<1>9. Becomes(HandleDisconnected(c)) \/ Becomes(c)
  BY DEF SocketClosed, c
<1> QED BY <1>7, <1>8, <1>9, BecomesSound

\* A message of the server winds the heartbeat up again (_onSocketMessage).
LEMMA HearsSound ==
  ASSUME NEW c \in CStates, NEW p \in Slots, Sound(c), c.protocols[p].socket = "open",
         \A q \in Slots : c.protocols[q].chain \notin Jobs
  PROVE  /\ Hears(c, p) \in CStates /\ Sound(Hears(c, p))
         /\ \A q \in Slots : Hears(c, p).protocols[q].chain \notin Jobs
<1> DEFINE s == [c.protocols[p] EXCEPT !.heartbeat = "ping"]
           d == [c EXCEPT !.protocols = [c.protocols EXCEPT ![p] = s]]
<1>1. c.protocols \in [Slots -> Protocol] BY DEF CStates
<1>2. /\ s \in Protocol /\ s.heartbeat = "ping" /\ s.socket = "open"
      /\ s.chain = c.protocols[p].chain /\ s.via = c.protocols[p].via
      /\ s.subscribed = c.protocols[p].subscribed
  BY <1>1 DEF Protocol
<1>3. Hears(c, p) = IF c.protocols[p].connected THEN d ELSE c
  BY <1>1 DEF Hears, CStates, Protocol
<1> HIDE DEF s
<1>4. Watched(s) BY <1>2 DEF Watched
<1>5. s.chain # "opened" /\ (s.chain = "requested" => s.via # None)
  <2>1. "opened" \in Jobs BY DEF Jobs
  <2> QED BY <1>2, <2>1 DEF Sound, ProtocolsSound, SentIn
<1>6. d \in CStates /\ Sound(d)
  BY <1>2, <1>4, <1>5, OneProtocolSound
<1>7. \A q \in Slots : d.protocols[q].chain \notin Jobs
  BY <1>1, <1>2 DEF CStates
<1> QED BY <1>3, <1>6, <1>7

\* The server answers a ping.
LEMMA PongSound ==
  ASSUME ConnectionInv, NEW p \in Slots, Pong(p)
  PROVE  Now' \in CStates /\ Sound(Now')
<1>1. Now \in CStates /\ Sound(Now) BY DEF ConnectionInv
<1>2. Now.protocols[p].socket = "open" BY NowIs DEF Pong
<1>3. \A q \in Slots : Now.protocols[q].chain \notin Jobs BY NowIs, NoJobs DEF Pong
<1>4. Hears(Now, p) \in CStates /\ Sound(Hears(Now, p)) BY <1>1, <1>2, <1>3, HearsSound
<1>5. Becomes(Hears(Now, p)) BY DEF Pong
<1> QED BY <1>4, <1>5, BecomesSound

\* The server answers the request to authenticate.
LEMMA ReplySound ==
  ASSUME ConnectionInv, NEW p \in Slots, NEW answer \in Answers, Reply(p, answer)
  PROVE  Now' \in CStates /\ Sound(Now')
<1> DEFINE via == protocols[p].via
           c == Hears(Now, via)
<1>1. Now \in CStates /\ Sound(Now) /\ protocols \in [Slots -> Protocol]
        /\ protocols[p].chain = "requested"
  BY DEF ConnectionInv, CStates, Now, Reply
<1>2. via \in Slots
  <2>1. via # None BY <1>1, NowIs DEF Sound, ProtocolsSound, SentIn
  <2>2. via \in Slots \cup {None} BY <1>1 DEF Protocol
  <2> QED BY <2>1, <2>2
<1>3. Now.protocols[via].socket = "open" BY NowIs DEF Reply
<1>4. \A q \in Slots : Now.protocols[q].chain \notin Jobs BY NowIs, NoJobs DEF Reply
<1> HIDE DEF via
<1>5. c \in CStates /\ Sound(c) /\ \A q \in Slots : c.protocols[q].chain \notin Jobs
  BY <1>1, <1>2, <1>3, <1>4, HearsSound
<1>6. answer \in Chains \ {"opened", "requested"} /\ answer \notin {"opening", "done"}
        /\ "opened" \in Jobs
  BY DEF Answers, Chains, Jobs
<1> HIDE DEF c
<1>7. \A q \in Slots \ {p} : c.protocols[q].chain # "opened" BY <1>5, <1>6
<1>8. ChainAt(c, p, answer) \in CStates /\ Sound(ChainAt(c, p, answer))
  BY <1>5, <1>6, <1>7, ChainAtSound DEF Sound
<1>9. Becomes(ChainAt(c, p, answer)) BY DEF Reply, c, via
<1> QED BY <1>8, <1>9, BecomesSound

(***************************************************************************)
(* The invariant                                                           *)
(***************************************************************************)

\* A connection starts disconnected, without sockets.
LEMMA InitSound ==
  ASSUME Init
  PROVE  ConnectionInv
<1>1. conn \in Conns
  BY BoundsAssumption DEF Init, Conns, States, Events, None
<1>2. protocols \in [Slots -> Protocol] BY UnusedType DEF Init
<1>3. Now \in CStates BY <1>1, <1>2 DEF Now, CStates
<1>4. \A p \in Slots : protocols[p] = Unused BY DEF Init
<1>5. ProtocolsSound(Now)
  BY <1>4, NowIs DEF ProtocolsSound, WatchedIn, Watched, OpenedIn, SentIn, Unused
<1>6. ToldIn(Now)
  BY NowIs DEF ToldIn, Init, DisconnectedEvent, ConnectedEvent, ConnectionScheduledEvent,
     InterruptedEvent
<1>7. MovesIn(Now) /\ SubscribedIn(Now) BY NowIs DEF MovesIn, SubscribedIn, Init
<1>8. Counted BY BoundsAssumption DEF Counted, Init
<1> QED BY <1>3, <1>5, <1>6, <1>7, <1>8 DEF ConnectionInv, Sound

\* The bounds of the calls and the faults.
LEMMA NextCounts ==
  ASSUME Counted, Next
  PROVE  options' = options /\ connects' \in 0 .. MaxConnects /\ faults' \in 0 .. MaxFaults
<1>1. options \in Options /\ connects \in 0 .. MaxConnects /\ faults \in 0 .. MaxFaults
        /\ MaxConnects \in Nat /\ MaxFaults \in Nat
  BY BoundsAssumption DEF Counted
<1> DEFINE Goal == /\ options' = options
                   /\ connects' \in 0 .. MaxConnects /\ faults' \in 0 .. MaxFaults
<1>2. ASSUME UNCHANGED <<options, connects, faults>> PROVE Goal BY <1>1, <1>2
<1>3. ASSUME Fault PROVE Goal BY <1>1, <1>3 DEF Fault
<1>4. ASSUME NEW method \in {"password", "reconnect"}, Connect(method) PROVE Goal
  BY <1>1, <1>4 DEF Connect
<1>5. ASSUME Disconnect \/ AnswerChallenge \/ AttemptTimer PROVE Goal
  BY <1>2, <1>5 DEF Disconnect, AnswerChallenge, AttemptTimer
<1>6. ASSUME ConnectionTimeout \/ WindowOnline PROVE Goal
  BY <1>3, <1>6 DEF ConnectionTimeout, WindowOnline
<1>7. ASSUME NEW p \in Slots, Continuation(p) PROVE Goal
  BY <1>2, <1>7 DEF Continuation, Opened, Accepted, Refused, Failed, DisconnectCompletes
<1>8. ASSUME NEW p \in Slots, NEW given \in BOOLEAN, Credentials(p, given) PROVE Goal
  BY <1>1, <1>8 DEF Credentials
<1>9. ASSUME NEW p \in Slots,
             RequestTimeout(p) \/ Ping(p) \/ Pong(p) \/ PongTimeout(p) \/ SocketOpens(p)
               \/ SocketFails(p) \/ SocketDrops(p) \/ SocketClosed(p)
      PROVE  Goal
  BY <1>2, <1>3, <1>9 DEF RequestTimeout, Ping, Pong, PongTimeout, SocketOpens, SocketFails,
     SocketDrops, SocketClosed
<1>10. ASSUME NEW p \in Slots, NEW answer \in Answers, Reply(p, answer) PROVE Goal
  BY <1>1, <1>10 DEF Reply
<1> HIDE DEF Goal
<1>11. Goal BY <1>4, <1>5, <1>6, <1>7, <1>8, <1>9, <1>10 DEF Next
<1> QED BY <1>11 DEF Goal

\* Every action leads from a sound state to one.
LEMMA NextSound ==
  ASSUME ConnectionInv, Next
  PROVE  Now' \in CStates /\ Sound(Now')
<1>1. ASSUME NEW p \in Slots, Continuation(p) PROVE Now' \in CStates /\ Sound(Now')
  BY <1>1, OpenedSound, AcceptedSound, RefusedSound, FailedSound, DisconnectCompletesSound
  DEF Continuation
<1> QED
  BY <1>1, ConnectActionSound, DisconnectSound, AnswerChallengeSound, AttemptTimerSound,
     ConnectionTimeoutSound, WindowOnlineSound, CredentialsSound, RequestTimeoutSound,
     PingSound, PongSound, PongTimeoutSound, SocketOpensSound, SocketFailsSound,
     SocketDropsSound, SocketClosedSound, ReplySound
  DEF Next

\* Every step of the program keeps the connection sound.
THEOREM ConnectionStep == ConnectionInv /\ [Next]_vars => ConnectionInv'
<1> SUFFICES ASSUME ConnectionInv, [Next]_vars PROVE ConnectionInv' OBVIOUS
<1>1. CASE Next
  <2>1. Now' \in CStates /\ Sound(Now') BY <1>1, NextSound
  <2>2. Counted' BY <1>1, NextCounts DEF ConnectionInv, Counted
  <2> QED BY <2>1, <2>2
      DEF ConnectionInv, Now, Sound, ProtocolsSound, WatchedIn, Watched, OpenedIn, SentIn,
          ToldIn, MovesIn, PastOpening, SubscribedIn
<1>2. CASE UNCHANGED vars
  BY <1>2 DEF ConnectionInv, Now, Sound, ProtocolsSound, WatchedIn, Watched, OpenedIn, SentIn,
          ToldIn, MovesIn, PastOpening, SubscribedIn, Counted, vars
<1> QED BY <1>1, <1>2

\* The invariant says what Connection promises.
LEMMA ConnectionInvImplies ==
  ASSUME ConnectionInv
  PROVE  TypeOK /\ ConnectingIsAlive /\ ServicesFollowConnection /\ HeartbeatWatches
<1>1. Now \in CStates /\ Sound(Now) /\ Counted BY DEF ConnectionInv
<1>2. TypeOK BY <1>1 DEF Now, CStates, Conns, Counted, TypeOK
<1>3. ConnectingIsAlive
  BY <1>1, NowIs DEF Sound, MovesIn, PastOpening, ConnectingIsAlive
<1>4. ServicesFollowConnection
  BY <1>1, NowIs DEF Sound, ToldIn, ServicesFollowConnection
<1>5. HeartbeatWatches
  BY <1>1, NowIs DEF Sound, ProtocolsSound, WatchedIn, Watched, HeartbeatWatches
<1> QED BY <1>2, <1>3, <1>4, <1>5

\* A connection is in a state it can have, and one that is connecting is never stuck; the
\* services last heard what is the case; every established socket is watched: of
\* ConvergenceConnection and ProtocolConnection, whatever is called and whatever fails.
THEOREM ConnectionSound ==
  Spec => [](TypeOK /\ ConnectingIsAlive /\ ServicesFollowConnection /\ HeartbeatWatches)
<1>1. Init => ConnectionInv BY InitSound
<1>2. ConnectionInv /\ [Next]_vars => ConnectionInv' BY ConnectionStep
<1>3. ConnectionInv =>
        TypeOK /\ ConnectingIsAlive /\ ServicesFollowConnection /\ HeartbeatWatches
  BY ConnectionInvImplies
<1> QED BY <1>1, <1>2, <1>3, PTL DEF Spec

(***************************************************************************)
(* In a client, where the connection is one of the parts checked           *)
(***************************************************************************)

ClientConnectionInv == component = "connection" => ConnectionInv

\* When the part checked is the connection, it starts
LEMMA ClientStarts == ClientInit => ClientConnectionInv
BY InitSound DEF ClientInit, ClientConnectionInv

\* and goes on as Connection does,
LEMMA ClientSteps == ClientConnectionInv /\ [ClientNext]_clientVars => ClientConnectionInv'
<1> SUFFICES ASSUME ClientConnectionInv, [ClientNext]_clientVars, component' = "connection"
             PROVE  ConnectionInv'
  BY DEF ClientConnectionInv
<1>1. component = "connection" /\ [Next]_vars
  BY DEF ClientNext, clientVars
<1> QED BY <1>1, ConnectionStep DEF ClientConnectionInv

\* and has its invariant.
LEMMA ClientConnection == ClientSpec => []ClientConnectionInv
BY ClientStarts, ClientSteps, PTL DEF ClientSpec

\* A connection is in a state it can have, and one that is connecting has a timer or a chain
\* of callbacks that moves it on (ConvergenceConnection._attemptConnection and the catch of
\* _openConnection).
THEOREM ConnectionStaysAlive == ClientSpec => []ConnectionAlive
<1>1. ClientConnectionInv => ConnectionAlive
  BY ConnectionInvImplies DEF ClientConnectionInv, ConnectionAlive
<1> QED BY <1>1, ClientConnection, PTL

\* The services last heard what is the case, whatever attempts overlap (the events of
\* ConvergenceConnection).
THEOREM ServicesHearTheTruth == ClientSpec => []ServicesFollow
<1>1. ClientConnectionInv => ServicesFollow
  BY ConnectionInvImplies DEF ClientConnectionInv, ServicesFollow
<1> QED BY <1>1, ClientConnection, PTL

\* Every established socket is watched and no heartbeat outlives its socket
\* (ProtocolConnection and HeartbeatHelper).
THEOREM SocketsAreWatched == ClientSpec => []HeartbeatAlive
<1>1. ClientConnectionInv => HeartbeatAlive
  BY ConnectionInvImplies DEF ClientConnectionInv, HeartbeatAlive
<1> QED BY <1>1, ClientConnection, PTL

(***************************************************************************)
(* The domain: the inductive invariant                                     *)
(***************************************************************************)

\* The details of a user that are known
Details == 1 .. MaxTold + 1

\* What waits for the store of users: a put is of a user that is cached, and a get belongs
\* to an initialisation that has come this far.
UserTransaction(t) ==
  \/ \E u \in User, n \in Details : t = [put |-> <<u, n>>] /\ cache.users[u] # D!Unknown
  \/ \E i \in DOMAIN inits : t = [get |-> i] /\ inits[i] = "users"

\* What waits for the store of sessions: a session, or a get
SessionTransaction(t) ==
  \/ \E s \in Session : t = [put |-> <<s>>]
  \/ \E i \in DOMAIN inits : t = [get |-> i] /\ inits[i] = "sessions"

\* An initialisation reads a store once.
GetsDiffer(q) == \A j, k \in DOMAIN q : j # k /\ ~D!IsPut(q[j]) => q[j] # q[k]

\* The queues of the two stores
QueuesSound ==
  /\ queues = [users |-> queues.users, sessions |-> queues.sessions]
  /\ IsSequence(queues.users) /\ IsSequence(queues.sessions)
  /\ \A k \in DOMAIN queues.users : UserTransaction(queues.users[k])
  /\ \A k \in DOMAIN queues.sessions : SessionTransaction(queues.sessions[k])
  /\ GetsDiffer(queues.users) /\ GetsDiffer(queues.sessions)

\* The types, of what TypeOK does not cover too
DomainTypes ==
  /\ D!TypeOK
  /\ acts \in [calls : Nat, pages : Nat, told : 0 .. MaxTold]
  /\ server \in [users : [User -> 1 .. acts.told + 1], told : SUBSET User]
  /\ known \in [users : [User -> D!DomainUser], sessions : SUBSET Session,
                restored : SUBSET Session, overlaps : BOOLEAN, early : BOOLEAN]

\* A message names the user of its session, or nobody.
IdentityMessage(m) ==
  /\ m = [users |-> m.users, session |-> m.session]
  /\ m.session \in Session /\ DOMAIN m.users \subseteq {Owner[m.session]}
  /\ m.users = [u \in DOMAIN m.users |-> m.users[u]]
  /\ \A u \in DOMAIN m.users : m.users[u] \in Details

\* The client knows the user, or will once it has the first k messages.
WillKnow(u, k) ==
  known.users[u] # D!Unknown \/ \E j \in 1 .. k : u \in DOMAIN toClient[j].users

\* Whose a session is, is told before the session.
MessagesSound ==
  /\ IsSequence(toClient)
  /\ \A k \in 1 .. Len(toClient) :
       IdentityMessage(toClient[k]) /\ WillKnow(Owner[toClient[k].session], k)
  /\ domain.connection = "connected" => \A u \in server.told : WillKnow(u, Len(toClient))
  /\ domain.connection # "connected" => toClient = <<>>

\* A storage that is open has been opened by an initialisation.
InitsSound ==
  /\ storage.open => storage.enabled /\ domain.initialized
  /\ ~storage.enabled => inits = <<>>

\* An initialisation that has read the users
HasRead(i) == inits[i] \in {"sessions", "done"}

\* A user is never forgotten: once the users were read, all that are stored are cached.
CacheSound ==
  /\ cache.deaf => known.early
  /\ (\E i \in DOMAIN inits : HasRead(i)) =>
        \A u \in User : disk.users[u] # D!Unknown => cache.users[u] # D!Unknown
  /\ \A s \in known.restored :
       cache.sessions[s] # D!Unknown /\ cache.users[Owner[s]] # D!Unknown
  /\ ~cache.deaf =>
       /\ \A s \in known.sessions :
            cache.sessions[s] # D!Unknown /\ cache.users[Owner[s]] # D!Unknown
       /\ \A u \in User : known.users[u] # D!Unknown => cache.users[u] # D!Unknown

\* The page was told of somebody.
KnowsSomething == known.sessions # {} \/ \E u \in User : known.users[u] # D!Unknown

\* A message that does not find the storage closed finds it open for good, so no
\* initialisation begins after it.
KnownSound ==
  ~cache.deaf =>
    /\ D!CannotStore => ~KnowsSomething
    /\ ~known.overlaps /\ KnowsSomething =>
         /\ ~D!UnderWay
         /\ \A u \in User : known.users[u] # D!Unknown => cache.users[u] = known.users[u]

\* A transaction that stores the details of this user
PutsUser(t, u) == D!IsPut(t) /\ t.put[1] = u

\* The details last told are stored, or put by the last transaction of this user.
WillBeStored(u) ==
  \/ /\ disk.users[u] = known.users[u]
     /\ \A k \in DOMAIN queues.users : ~PutsUser(queues.users[k], u)
  \/ \E k \in DOMAIN queues.users :
       /\ queues.users[k] = [put |-> <<u, known.users[u]>>]
       /\ \A j \in DOMAIN queues.users : j > k => ~PutsUser(queues.users[j], u)

\* The session is stored, or a transaction that does it waits.
SessionWillBeStored(s) ==
  \/ s \in disk.sessions
  \/ \E k \in DOMAIN queues.sessions : queues.sessions[k] = [put |-> <<s>>]

\* What the page was told is stored, or will be.
StoresSound ==
  storage.open /\ ~cache.deaf =>
    /\ \A s \in known.sessions : SessionWillBeStored(s)
    /\ \A u \in User : known.users[u] # D!Unknown => WillBeStored(u)

\* All of it
DomainInv ==
  /\ DomainTypes /\ QueuesSound /\ MessagesSound /\ InitsSound
  /\ CacheSound /\ KnownSound /\ StoresSound

(***************************************************************************)
(* Queues                                                                  *)
(***************************************************************************)

\* What becomes of the places of a queue when its head is taken
LEMMA TakeFirst ==
  ASSUME NEW q, IsSequence(q), q # <<>>
  PROVE  /\ IsSequence(Tail(q)) /\ 1 \in DOMAIN q /\ Head(q) = q[1]
         /\ \A k \in DOMAIN Tail(q) :
              k \in Nat \ {0} /\ k + 1 \in DOMAIN q /\ Tail(q)[k] = q[k + 1]
         /\ \A k \in DOMAIN q :
              k \in Nat /\ (k # 1 => k - 1 \in DOMAIN Tail(q) /\ q[k] = Tail(q)[k - 1])
<1>1. /\ IsSequence(Tail(q)) /\ Len(q) >= 1 /\ Len(Tail(q)) = Len(q) - 1 /\ Head(q) = q[1]
      /\ \A i \in 1 .. Len(q) - 1 : Tail(q)[i] = q[i + 1]
  BY TailOfSequence
<1>2. Len(q) \in Nat /\ DOMAIN q = 1 .. Len(q) /\ DOMAIN Tail(q) = 1 .. Len(q) - 1
  BY <1>1, SequenceIsFunction
<1> DEFINE n == Len(q)
           r == Tail(q)
<1>3. \A k \in DOMAIN r : k \in Nat \ {0} /\ k + 1 \in DOMAIN q /\ r[k] = q[k + 1]
  <2> TAKE k \in DOMAIN r
  <2>1. k \in 1 .. n - 1 /\ n \in Nat
    BY <1>2
  <2> QED BY <2>1, <1>1, <1>2
<1>4. ASSUME NEW k \in DOMAIN q
      PROVE  k \in Nat /\ (k # 1 => k - 1 \in DOMAIN r /\ q[k] = r[k - 1])
  <2>1. k \in 1 .. n /\ n \in Nat
    BY <1>2
  <2>2. CASE k # 1
    <3>1. k - 1 \in 1 .. n - 1 /\ (k - 1) + 1 = k
      BY <2>1, <2>2
    <3> QED BY <3>1, <2>1, <1>1, <1>2
  <2> QED BY <2>1, <2>2
<1>5. 1 \in DOMAIN q
  BY <1>1, <1>2
<1> QED BY <1>1, <1>3, <1>4, <1>5

\* and when something is added to its end.
LEMMA AddLast ==
  ASSUME NEW q, IsSequence(q), NEW e
  PROVE  /\ IsSequence(Append(q, e)) /\ Len(q) + 1 \in DOMAIN Append(q, e)
         /\ Append(q, e)[Len(q) + 1] = e
         /\ \A k \in DOMAIN q :
              k \in Nat /\ k < Len(q) + 1 /\ k \in DOMAIN Append(q, e) /\ Append(q, e)[k] = q[k]
         /\ \A k \in DOMAIN Append(q, e) : k \in DOMAIN q \/ k = Len(q) + 1
<1> DEFINE r == Append(q, e)
           n == Len(q)
<1>1. /\ IsSequence(r) /\ Len(r) = n + 1
      /\ \A i \in 1 .. n : r[i] = q[i]
      /\ r[n + 1] = e
  BY AppendToSequence
<1>2. n \in Nat /\ DOMAIN q = 1 .. n /\ DOMAIN r = 1 .. n + 1
  BY <1>1, SequenceIsFunction
<1> HIDE DEF r, n
<1>3. /\ n + 1 \in DOMAIN r
      /\ \A k \in DOMAIN q : k \in Nat /\ k < n + 1 /\ k \in DOMAIN r /\ r[k] = q[k]
      /\ \A k \in DOMAIN r : k \in DOMAIN q \/ k = n + 1
  BY <1>1, <1>2
<1> QED BY <1>1, <1>3 DEF r, n

\* A get that was taken does not wait any more, and those that wait differ.
LEMMA GetsTail ==
  ASSUME NEW q, IsSequence(q), q # <<>>, GetsDiffer(q)
  PROVE  /\ GetsDiffer(Tail(q))
         /\ ~D!IsPut(Head(q)) => \A k \in DOMAIN Tail(q) : Tail(q)[k] # Head(q)
<1>1. GetsDiffer(Tail(q))
  <2> SUFFICES ASSUME NEW j \in DOMAIN Tail(q), NEW k \in DOMAIN Tail(q), j # k,
                      ~D!IsPut(Tail(q)[j])
               PROVE  Tail(q)[j] # Tail(q)[k]
    BY DEF GetsDiffer
  <2>1. /\ j \in Nat /\ k \in Nat /\ j + 1 \in DOMAIN q /\ k + 1 \in DOMAIN q
        /\ Tail(q)[j] = q[j + 1] /\ Tail(q)[k] = q[k + 1]
    BY TakeFirst
  <2>2. j + 1 # k + 1
    BY <2>1
  <2> QED BY <2>1, <2>2 DEF GetsDiffer
<1>2. ASSUME ~D!IsPut(Head(q)), NEW k \in DOMAIN Tail(q) PROVE Tail(q)[k] # Head(q)
  <2>1. /\ k \in Nat \ {0} /\ k + 1 \in DOMAIN q /\ 1 \in DOMAIN q
        /\ Tail(q)[k] = q[k + 1] /\ Head(q) = q[1]
    BY TakeFirst
  <2>2. k + 1 # 1
    BY <2>1
  <2> QED BY <1>2, <2>1, <2>2 DEF GetsDiffer
<1> QED BY <1>1, <1>2

\* They still do when a put, or a get that does not wait yet, is added.
LEMMA GetsAppend ==
  ASSUME NEW q, IsSequence(q), GetsDiffer(q), NEW t,
         D!IsPut(t) \/ \A k \in DOMAIN q : q[k] # t
  PROVE  GetsDiffer(Append(q, t))
<1> SUFFICES ASSUME NEW j \in DOMAIN Append(q, t), NEW k \in DOMAIN Append(q, t), j # k,
                    ~D!IsPut(Append(q, t)[j])
             PROVE  Append(q, t)[j] # Append(q, t)[k]
  BY DEF GetsDiffer
<1>1. \A i \in DOMAIN q : Append(q, t)[i] = q[i]
  BY AddLast
<1>2. CASE j \in DOMAIN q /\ k \in DOMAIN q
  BY <1>1, <1>2 DEF GetsDiffer
<1>3. CASE j \in DOMAIN q /\ k \notin DOMAIN q
  <2>1. Append(q, t)[k] = t
    BY <1>3, AddLast
  <2> QED BY <1>1, <1>3, <2>1
<1>4. CASE j \notin DOMAIN q
  <2>1. Append(q, t)[j] = t /\ k \in DOMAIN q
    BY <1>4, AddLast
  <2> QED BY <1>1, <2>1
<1> QED BY <1>2, <1>3, <1>4

(***************************************************************************)
(* Initialisations                                                         *)
(***************************************************************************)

\* Where an initialisation stands
Phases == {"opening", "models", "users", "sessions", "done", "failed"}

\* Unless the domain is initialised and has a storage one more is begun.
LEMMA InitializeDoes ==
  ASSUME DomainInv, inits' = D!Initialize(domain, inits)
  PROVE  /\ inits' \in Seq(Phases)
         /\ \A i \in DOMAIN inits : i \in DOMAIN inits' /\ inits'[i] = inits[i]
         /\ \A i \in DOMAIN inits' : i \in DOMAIN inits \/ inits'[i] = "opening"
         /\ inits' # inits => storage.enabled /\ ~storage.open
<1>1. inits \in Seq(Phases)
  BY DEF DomainInv, DomainTypes, D!TypeOK, Phases
<1>2. CASE inits' = inits
  BY <1>1, <1>2
<1>3. CASE inits' = Append(inits, "opening") /\ storage.enabled /\ ~domain.initialized
  <2>1. inits' \in Seq(Phases)
    BY <1>1, <1>3, AppendProperties DEF Phases
  <2>2. IsSequence(inits)
    BY <1>1, LenProperties, SeqMonotonic DEF IsSequence
  <2>3. ~storage.open
    BY <1>3 DEF DomainInv, InitsSound
  <2> QED BY <1>3, <2>1, <2>2, <2>3, AddLast
<1> QED BY <1>2, <1>3 DEF D!Initialize

\* Moving one on leaves the others where they are.
LEMMA MovesOn ==
  ASSUME DomainInv, NEW i \in DOMAIN inits, NEW p \in Phases, inits' = [inits EXCEPT ![i] = p]
  PROVE  /\ inits' \in Seq(Phases) /\ DOMAIN inits' = DOMAIN inits
         /\ inits'[i] = p /\ \A j \in DOMAIN inits : j # i => inits'[j] = inits[j]
<1>1. inits \in Seq(Phases)
  BY DEF DomainInv, DomainTypes, D!TypeOK, Phases
<1>2. i \in 1 .. Len(inits) /\ DOMAIN inits = 1 .. Len(inits)
  BY <1>1, LenProperties
<1> QED BY <1>1, <1>2, ExceptSeq

(***************************************************************************)
(* Steps that tell, cache and store nothing                                *)
(***************************************************************************)

\* What the cache can be
Caches == [users : [User -> D!DomainUser], sessions : [Session -> D!DomainUser], deaf : BOOLEAN]

\* Where the domain stands
DomainStates ==
  [connection : {"disconnected", "connecting", "connected", "reconnecting"}, initialized : BOOLEAN]

\* A new domain is one of these,
LEMMA NewDomains == {D!NewDomain, D!MadeToConnect} \subseteq DomainStates
<1>1. D!NewDomain \in DomainStates
  BY DEF D!NewDomain, DomainStates
<1>2. D!MadeToConnect \in DomainStates
  BY <1>1 DEF D!MadeToConnect, DomainStates
<1> QED BY <1>1, <1>2

\* and to count pages and calls changes nothing else.
LEMMA CallsCounted ==
  ASSUME acts \in [calls : Nat, pages : Nat, told : 0 .. MaxTold], NEW n \in Nat, NEW m \in Nat,
         acts' = [acts EXCEPT !.pages = @ + n, !.calls = @ + m]
  PROVE  acts' \in [calls : Nat, pages : Nat, told : 0 .. MaxTold] /\ acts'.told = acts.told
<1> DEFINE T == [calls : Nat, pages : Nat, told : 0 .. MaxTold]
           a == [acts EXCEPT !.pages = @ + n]
<1>1. a \in T /\ a.told = acts.told /\ a.calls = acts.calls
  OBVIOUS
<1>2. acts' = [a EXCEPT !.calls = @ + m]
  BY <1>1
<1> HIDE DEF a
<1> QED BY <1>1, <1>2

\* The domain starts as the invariant says.
LEMMA DomainStarts == D!Init => DomainInv
<1> SUFFICES ASSUME D!Init PROVE DomainInv
  OBVIOUS
<1> USE DEF D!Init, D!NewCache, D!EmptyStores, D!NoTransactions, D!NothingKnown, D!NewDomain,
            D!MadeToConnect, D!Configure, D!CallsOf
<1>1. DomainTypes
  <2>1. domain \in DomainStates
    BY NewDomains
  <2>2. storage \in [enabled : BOOLEAN, open : BOOLEAN]
    OBVIOUS
  <2>3. inits \in Seq(Phases)
    BY EmptySeq
  <2>4. MaxTold \in Nat /\ 0 \in D!DomainUser /\ 0 \in 0 .. MaxTold
    BY DomainAssumption DEF D!DomainUser
  <2>5. D!NoUsers \in [User -> D!DomainUser] /\ D!NoSessions \in [Session -> D!DomainUser]
    BY <2>4 DEF D!NoUsers, D!NoSessions, D!Unknown
  <2>6. acts.told = 0 /\ acts \in [calls : Nat, pages : Nat, told : 0 .. MaxTold]
    BY <2>4
  <2>7. server \in [users : [User -> 1 .. acts.told + 1], told : SUBSET User]
    BY <2>6
  <2>8. D!TypeOK
    BY <2>1, <2>2, <2>3, <2>5 DEF D!TypeOK, Phases, DomainStates
  <2>9. known \in [users : [User -> D!DomainUser], sessions : SUBSET Session,
                   restored : SUBSET Session, overlaps : BOOLEAN, early : BOOLEAN]
    BY <2>5
  <2> QED BY <2>6, <2>7, <2>8, <2>9 DEF DomainTypes
<1>2. QueuesSound
  BY EmptyIsSequence DEF QueuesSound, GetsDiffer
<1>3. MessagesSound
  BY EmptyIsSequence DEF MessagesSound
<1>4. InitsSound /\ CacheSound /\ KnownSound /\ StoresSound
  BY DEF InitsSound, CacheSound, KnownSound, StoresSound, D!NoUsers, KnowsSomething, D!Unknown
<1> QED BY <1>1, <1>2, <1>3, <1>4 DEF DomainInv

\* A new page starts from what is stored.
LEMMA ReloadSound == DomainInv /\ D!Reload => DomainInv'
<1> SUFFICES ASSUME DomainInv, D!Reload PROVE DomainInv'
  OBVIOUS
<1> USE DEF D!Reload, D!NewCache, D!NoTransactions, D!NothingKnown, D!NewDomain,
            D!MadeToConnect, D!CallsOf
<1>1. DomainTypes'
  <2>1. DomainTypes
    BY DEF DomainInv
  <2>2. storage' \in [enabled : BOOLEAN, open : BOOLEAN]
    BY <2>1 DEF DomainTypes, D!TypeOK
  <2>3. acts' \in [calls : Nat, pages : Nat, told : 0 .. MaxTold] /\ acts'.told = acts.told
    <3>1. D!CallsOf(domain') \in Nat
      BY DEF D!CallsOf
    <3> HIDE DEF D!CallsOf
    <3>2. acts' = [acts EXCEPT !.pages = @ + 1, !.calls = @ + D!CallsOf(domain')]
      OBVIOUS
    <3>3. acts \in [calls : Nat, pages : Nat, told : 0 .. MaxTold]
      BY <2>1 DEF DomainTypes
    <3> QED BY <3>1, <3>2, <3>3, CallsCounted
  <2>4. domain' \in DomainStates
    BY NewDomains
  <2>5. inits' \in Seq(Phases)
    BY EmptySeq
  <2>6. D!NoUsers \in [User -> D!DomainUser] /\ D!NoSessions \in [Session -> D!DomainUser]
    BY DomainAssumption DEF D!NoUsers, D!NoSessions, D!Unknown, D!DomainUser
  <2>7. D!TypeOK'
    BY <2>1, <2>2, <2>4, <2>5, <2>6 DEF D!TypeOK, Phases, DomainTypes, D!DomainUser, DomainStates
  <2>8. known' \in [users : [User -> D!DomainUser], sessions : SUBSET Session,
                    restored : SUBSET Session, overlaps : BOOLEAN, early : BOOLEAN]
    BY <2>6
  <2> QED BY <2>1, <2>3, <2>7, <2>8 DEF DomainTypes, D!DomainUser
<1>2. QueuesSound'
  BY EmptyIsSequence DEF QueuesSound, GetsDiffer
<1>3. MessagesSound'
  BY EmptyIsSequence DEF MessagesSound
<1>4. ~storage'.open
  BY DEF DomainInv, DomainTypes, D!TypeOK
<1>5. InitsSound' /\ CacheSound' /\ KnownSound' /\ StoresSound'
  BY <1>4 DEF InitsSound, CacheSound, KnownSound, StoresSound, D!NoUsers, KnowsSomething,
              D!Unknown
<1> QED BY <1>1, <1>2, <1>3, <1>5 DEF DomainInv

\* Whatever the domain does about its connection and its initialisations, while no message
\* and no transaction is dealt with, but a connection may be lost or made.
LEMMA QuietStep ==
  ASSUME DomainInv, UNCHANGED <<cache, disk, queues, known>>,
         DomainTypes', MessagesSound', InitsSound',
         storage'.enabled = storage.enabled, storage.open => storage'.open,
         \A i \in DOMAIN inits : i \in DOMAIN inits' /\
           (inits[i] \in {"users", "sessions", "done"} => inits'[i] = inits[i]),
         \A i \in DOMAIN inits' : HasRead(i)' => i \in DOMAIN inits /\ inits[i] = inits'[i],
         (storage'.enabled /\ ~storage'.open) \/ (D!UnderWay' => D!UnderWay),
         storage'.open => storage.open \/ cache.deaf \/ ~KnowsSomething
  PROVE  DomainInv'
<1>2. QueuesSound'
  <2>1. \A t : UserTransaction(t) => UserTransaction(t)'
    BY DEF UserTransaction
  <2>2. \A t : SessionTransaction(t) => SessionTransaction(t)'
    BY DEF SessionTransaction
  <2> QED BY <2>1, <2>2 DEF DomainInv, QueuesSound, GetsDiffer, D!IsPut
<1>3. CacheSound'
  BY DEF DomainInv, CacheSound, HasRead
<1>4. KnownSound'
  BY DEF DomainInv, KnownSound, KnowsSomething, D!CannotStore
<1>5. StoresSound'
  <2>1. CASE storage.open
    BY <2>1 DEF DomainInv, StoresSound, SessionWillBeStored, WillBeStored, PutsUser, D!IsPut
  <2>2. CASE ~KnowsSomething
    BY <2>2 DEF DomainInv, StoresSound, KnowsSomething
  <2>3. CASE cache.deaf
    BY <2>3 DEF StoresSound
  <2>4. CASE ~storage'.open
    BY <2>4 DEF StoresSound
  <2> QED BY <2>1, <2>2, <2>3, <2>4
<1> QED BY <1>2, <1>3, <1>4, <1>5 DEF DomainInv

\* A call of the application is counted.
LEMMA ActCounts ==
  ASSUME DomainInv, D!Act
  PROVE  acts' \in [calls : Nat, pages : Nat, told : 0 .. MaxTold] /\ acts'.told = acts.told
  BY DEF DomainInv, DomainTypes, D!Act

\* Calls that begin an initialisation or a connection, and connections that are made
LEMMA InitializeOfflineSound == DomainInv /\ D!InitializeOffline => DomainInv'
<1> SUFFICES ASSUME DomainInv, D!InitializeOffline PROVE DomainInv'
  OBVIOUS
<1>1. /\ inits' = D!Initialize(domain, inits) /\ D!Act /\ storage.enabled
      /\ UNCHANGED <<domain, storage, cache, disk, queues, server, toClient, known>>
  BY DEF D!InitializeOffline
<1>2. DomainTypes'
  BY <1>1, ActCounts, InitializeDoes DEF DomainInv, DomainTypes, D!TypeOK, Phases
<1>3. MessagesSound' /\ InitsSound'
  BY <1>1 DEF DomainInv, MessagesSound, InitsSound, WillKnow, IdentityMessage
<1>4. (storage'.enabled /\ ~storage'.open) \/ (D!UnderWay' => D!UnderWay)
  <2>1. CASE inits' = inits
    BY <2>1 DEF D!UnderWay
  <2> QED BY <1>1, <2>1, InitializeDoes
<1> QED BY <1>1, <1>2, <1>3, <1>4, InitializeDoes, QuietStep DEF HasRead

\* To connect is only to begin with it.
LEMMA ConnectWithSound == DomainInv /\ D!ConnectWith => DomainInv'
<1> SUFFICES ASSUME DomainInv, D!ConnectWith PROVE DomainInv'
  OBVIOUS
<1>1. /\ domain.connection = "disconnected" /\ D!Act
      /\ domain' = [domain EXCEPT !.connection = "connecting"]
      /\ UNCHANGED <<inits, storage, cache, disk, queues, server, toClient, known>>
  BY DEF D!ConnectWith
<1>2. DomainTypes'
  BY <1>1, ActCounts DEF DomainInv, DomainTypes, D!TypeOK
<1>3. domain'.connection = "connecting" /\ domain'.initialized = domain.initialized
  BY <1>1 DEF DomainInv, DomainTypes, D!TypeOK
<1>4. MessagesSound' /\ InitsSound'
  BY <1>1, <1>3 DEF DomainInv, MessagesSound, InitsSound
<1> QED BY <1>1, <1>2, <1>4, QuietStep DEF HasRead, D!UnderWay

\* A connection begins with nothing told and nothing on its way.
LEMMA NewConnectionSound ==
  ASSUME DomainInv, domain.connection # "connected", NEW d \in DomainStates,
         domain.initialized => d.initialized, D!NewConnection(d),
         UNCHANGED <<storage, toClient>>, storage.enabled \/ inits' = inits
  PROVE  /\ domain' \in DomainStates
         /\ server' \in [users : [User -> 1 .. acts.told + 1], told : SUBSET User]
         /\ MessagesSound' /\ InitsSound'
<1>1. /\ domain' \in DomainStates
      /\ domain'.connection = "connected" /\ domain'.initialized = d.initialized
  BY DEF D!NewConnection, DomainStates
<1>2. server' \in [users : [User -> 1 .. acts.told + 1], told : SUBSET User] /\ server'.told = {}
  BY DEF D!NewConnection, DomainInv, DomainTypes
<1>3. MessagesSound'
  BY <1>1, <1>2, EmptyIsSequence DEF DomainInv, MessagesSound
<1>4. InitsSound'
  BY <1>1 DEF DomainInv, InitsSound
<1> QED BY <1>1, <1>2, <1>3, <1>4

\* The first connection initialises the domain,
LEMMA ConnectedSound == DomainInv /\ D!Connected => DomainInv'
<1> SUFFICES ASSUME DomainInv, D!Connected PROVE DomainInv'
  OBVIOUS
<1> DEFINE d == D!Initialized(domain)
<1>1. /\ domain.connection = "connecting" /\ D!NewConnection(d)
      /\ inits' = D!Initialize(domain, inits)
      /\ UNCHANGED <<storage, cache, disk, queues, toClient, known, acts>>
  BY DEF D!Connected
<1>2. d \in DomainStates /\ (domain.initialized => d.initialized)
  BY DEF DomainInv, DomainTypes, D!TypeOK, DomainStates, D!Initialized
<1> HIDE DEF d
<1>3. storage.enabled \/ inits' = inits
  BY <1>1 DEF D!Initialize
<1>4. /\ domain' \in DomainStates /\ MessagesSound' /\ InitsSound'
      /\ server' \in [users : [User -> 1 .. acts.told + 1], told : SUBSET User]
  BY <1>1, <1>2, <1>3, NewConnectionSound
<1>5. DomainTypes'
  BY <1>1, <1>4, InitializeDoes DEF DomainInv, DomainTypes, D!TypeOK, Phases, DomainStates
<1>6. (storage'.enabled /\ ~storage'.open) \/ (D!UnderWay' => D!UnderWay)
  <2>1. CASE inits' = inits
    BY <2>1 DEF D!UnderWay
  <2> QED BY <1>1, <2>1, InitializeDoes
<1> QED BY <1>1, <1>4, <1>5, <1>6, InitializeDoes, QuietStep DEF HasRead

\* the others do not.
LEMMA ReconnectedSound == DomainInv /\ D!Reconnected => DomainInv'
<1> SUFFICES ASSUME DomainInv, D!Reconnected PROVE DomainInv'
  OBVIOUS
<1>1. /\ domain.connection = "reconnecting" /\ D!NewConnection(domain)
      /\ UNCHANGED <<inits, storage, cache, disk, queues, toClient, known, acts>>
  BY DEF D!Reconnected
<1>2. domain \in DomainStates
  BY DEF DomainInv, DomainTypes, D!TypeOK, DomainStates
<1>3. /\ domain' \in DomainStates /\ MessagesSound' /\ InitsSound'
      /\ server' \in [users : [User -> 1 .. acts.told + 1], told : SUBSET User]
  BY <1>1, <1>2, NewConnectionSound
<1>4. DomainTypes'
  BY <1>1, <1>3 DEF DomainInv, DomainTypes, D!TypeOK, DomainStates
<1> QED BY <1>1, <1>3, <1>4, QuietStep DEF HasRead, D!UnderWay

\* What was on its way is lost with the connection.
LEMMA LoseSound ==
  ASSUME DomainInv, NEW connection \in {"reconnecting", "disconnected"}, D!Lose(connection)
  PROVE  DomainInv'
<1>1. /\ domain' = [domain EXCEPT !.connection = connection] /\ toClient' = <<>> /\ D!Act
      /\ UNCHANGED <<inits, storage, cache, disk, queues, server, known>>
  BY DEF D!Lose
<1>2. DomainTypes' /\ domain'.connection # "connected" /\ domain'.initialized = domain.initialized
  BY <1>1, ActCounts DEF DomainInv, DomainTypes, D!TypeOK
<1>3. MessagesSound' /\ InitsSound'
  BY <1>1, <1>2, EmptyIsSequence DEF DomainInv, MessagesSound, InitsSound
<1> QED BY <1>1, <1>2, <1>3, QuietStep DEF HasRead, D!UnderWay

\* What was known when the storage opens was known to a cache that is deaf.
LEMMA StoreOpensSound ==
  ASSUME DomainInv, NEW i \in DOMAIN inits, D!StoreOpens(i)
  PROVE  DomainInv'
<1>1. /\ inits[i] = "opening" /\ inits' = [inits EXCEPT ![i] = "models"]
      /\ storage' = [storage EXCEPT !.open = TRUE]
      /\ domain' = [domain EXCEPT !.initialized = TRUE]
      /\ UNCHANGED <<cache, disk, queues, server, toClient, known, acts>>
  BY DEF D!StoreOpens, D!IsNext, D!Opening
<1>2. /\ inits' \in Seq(Phases) /\ DOMAIN inits' = DOMAIN inits
      /\ inits'[i] = "models" /\ \A j \in DOMAIN inits : j # i => inits'[j] = inits[j]
  BY <1>1, MovesOn DEF Phases
<1>3. inits # <<>> /\ storage.enabled
  BY DEF DomainInv, InitsSound
<1>4. /\ storage'.open /\ storage'.enabled
      /\ domain'.initialized /\ domain'.connection = domain.connection
  BY <1>1, <1>3 DEF DomainInv, DomainTypes, D!TypeOK
<1>5. DomainTypes'
  BY <1>1, <1>2 DEF DomainInv, DomainTypes, D!TypeOK, Phases
<1>6. MessagesSound' /\ InitsSound'
  BY <1>1, <1>4 DEF DomainInv, MessagesSound, InitsSound, WillKnow, IdentityMessage
<1>7. D!UnderWay
  BY <1>1 DEF D!UnderWay
<1>8. storage.open \/ cache.deaf \/ ~KnowsSomething
  BY <1>3 DEF DomainInv, KnownSound, D!CannotStore
<1> QED BY <1>1, <1>2, <1>3, <1>4, <1>5, <1>6, <1>7, <1>8, QuietStep DEF HasRead

\* An initialisation that failed is not under way.
LEMMA StoreFailsSound ==
  ASSUME DomainInv, NEW i \in DOMAIN inits, D!StoreFails(i)
  PROVE  DomainInv'
<1>1. /\ inits[i] = "opening" /\ inits' = [inits EXCEPT ![i] = "failed"] /\ D!Act
      /\ UNCHANGED <<domain, storage, cache, disk, queues, server, toClient, known>>
  BY DEF D!StoreFails, D!IsNext, D!Opening, D!Act
<1>2. /\ inits' \in Seq(Phases) /\ DOMAIN inits' = DOMAIN inits
      /\ inits'[i] = "failed" /\ \A j \in DOMAIN inits : j # i => inits'[j] = inits[j]
  BY <1>1, MovesOn DEF Phases
<1>3. inits # <<>> /\ storage.enabled
  BY DEF DomainInv, InitsSound
<1>4. DomainTypes'
  BY <1>1, <1>2, ActCounts DEF DomainInv, DomainTypes, D!TypeOK, Phases
<1>5. MessagesSound' /\ InitsSound'
  BY <1>1, <1>3 DEF DomainInv, MessagesSound, InitsSound, WillKnow, IdentityMessage
<1>6. D!UnderWay
  BY <1>1 DEF D!UnderWay
<1> QED BY <1>1, <1>2, <1>4, <1>5, <1>6, QuietStep DEF HasRead

\* Details that changed have to be told again.
LEMMA DetailsChangeSound ==
  ASSUME DomainInv, NEW u \in User, D!DetailsChange(u)
  PROVE  DomainInv'
<1>1. /\ acts.told < MaxTold /\ acts' = [acts EXCEPT !.told = @ + 1]
      /\ server' = [server EXCEPT !.users[u] = @ + 1, !.told = @ \ {u}]
      /\ UNCHANGED <<domain, inits, storage, cache, disk, queues, toClient, known>>
  BY DEF D!DetailsChange
<1>2. acts \in [calls : Nat, pages : Nat, told : 0 .. MaxTold] /\ MaxTold \in Nat
  BY DomainAssumption DEF DomainInv, DomainTypes
<1>3. acts' \in [calls : Nat, pages : Nat, told : 0 .. MaxTold] /\ acts'.told = acts.told + 1
  BY <1>1, <1>2
<1>4. server \in [users : [User -> 1 .. acts.told + 1], told : SUBSET User]
  BY DEF DomainInv, DomainTypes
<1>5. /\ server' \in [users : [User -> 1 .. acts'.told + 1], told : SUBSET User]
      /\ server'.told = server.told \ {u}
  <2> DEFINE sv == [server EXCEPT !.users[u] = @ + 1]
  <2>1. sv \in [users : [User -> 1 .. acts'.told + 1], told : SUBSET User] /\ sv.told = server.told
    BY <1>2, <1>3, <1>4
  <2>2. server' = [sv EXCEPT !.told = @ \ {u}]
    BY <1>1
  <2> HIDE DEF sv
  <2> QED BY <2>1, <2>2
<1>6. DomainTypes'
  BY <1>1, <1>3, <1>5 DEF DomainInv, DomainTypes, D!TypeOK, D!DomainUser
<1>7. MessagesSound' /\ InitsSound'
  BY <1>1, <1>5 DEF DomainInv, MessagesSound, InitsSound, WillKnow, IdentityMessage
<1> QED BY <1>1, <1>6, <1>7, QuietStep DEF HasRead, D!UnderWay

\* Before a session the client is told of its user, now or earlier.
LEMMA ServerTellsSound ==
  ASSUME DomainInv, NEW s \in Session, D!ServerTells(s)
  PROVE  DomainInv'
<1> DEFINE users == {Owner[s]} \ server.told
           m == [users |-> [u \in users |-> server.users[u]], session |-> s]
<1>1. /\ domain.connection = "connected" /\ acts.told < MaxTold
      /\ acts' = [acts EXCEPT !.told = @ + 1]
      /\ toClient' = Append(toClient, m) /\ server' = [server EXCEPT !.told = @ \cup users]
      /\ UNCHANGED <<domain, inits, storage, cache, disk, queues, known>>
  BY DEF D!ServerTells
<1>2. /\ acts \in [calls : Nat, pages : Nat, told : 0 .. MaxTold] /\ MaxTold \in Nat
      /\ Owner[s] \in User
  BY DomainAssumption DEF DomainInv, DomainTypes
<1>3. acts' \in [calls : Nat, pages : Nat, told : 0 .. MaxTold] /\ acts'.told = acts.told + 1
  BY <1>1, <1>2
<1>4. server \in [users : [User -> 1 .. acts.told + 1], told : SUBSET User]
  BY DEF DomainInv, DomainTypes
<1>5. /\ server' \in [users : [User -> 1 .. acts'.told + 1], told : SUBSET User]
      /\ server'.told = server.told \cup users
  <2>1. /\ server' \in [users : [User -> 1 .. acts.told + 1], told : SUBSET User]
        /\ server'.told = server.told \cup users
    BY <1>1, <1>2, <1>4
  <2>2. 1 .. acts.told + 1 \subseteq 1 .. acts'.told + 1
    BY <1>2, <1>3
  <2> QED BY <2>1, <2>2
<1>6. DomainTypes'
  BY <1>1, <1>3, <1>5 DEF DomainInv, DomainTypes, D!TypeOK, D!DomainUser
<1>7. IdentityMessage(m) /\ DOMAIN m.users = users
  BY <1>2, <1>4 DEF IdentityMessage, Details
<1>8. IsSequence(toClient)
  BY DEF DomainInv, MessagesSound
<1> HIDE DEF m
<1> PICK n \in Nat : n = Len(toClient)
  BY <1>8, SequenceIsFunction
<1>9. /\ IsSequence(toClient') /\ Len(toClient') = n + 1
      /\ \A k \in 1 .. n : toClient'[k] = toClient[k]
      /\ toClient'[n + 1] = m
  BY <1>1, <1>8, AppendToSequence, SequenceIsFunction
<1>10. ASSUME NEW u, NEW k \in 1 .. n, WillKnow(u, k)
       PROVE  WillKnow(u, k)' /\ WillKnow(u, n + 1)'
  BY <1>1, <1>9, <1>10 DEF WillKnow
<1>11. \A u \in users : WillKnow(u, n + 1)'
  BY <1>7, <1>9 DEF WillKnow
<1>12. \A u \in server.told : WillKnow(u, n + 1)'
  <2> TAKE u \in server.told
  <2>1. WillKnow(u, n)
    BY <1>1 DEF DomainInv, MessagesSound
  <2>2. CASE n = 0
    BY <2>1, <2>2, <1>1 DEF WillKnow
  <2>3. CASE n # 0
    BY <2>1, <2>3, <1>9, <1>10
  <2> QED BY <2>2, <2>3
<1>13. m.session = s
  BY DEF m
<1>14. MessagesSound'
  <2>1. ASSUME NEW k \in 1 .. n + 1
        PROVE  (IdentityMessage(toClient[k]) /\ WillKnow(Owner[toClient[k].session], k))'
    <3>1. CASE k = n + 1
      <4>1. IdentityMessage(toClient'[k]) /\ toClient'[k].session = s
        BY <3>1, <1>7, <1>9, <1>13
      <4>2. WillKnow(Owner[s], n + 1)'
        BY <1>11, <1>12
      <4> QED BY <3>1, <4>1, <4>2 DEF IdentityMessage, Details
    <3>2. CASE k # n + 1
      <4>1. k \in 1 .. n
        BY <3>2, <1>9
      <4>2. IdentityMessage(toClient[k]) /\ WillKnow(Owner[toClient[k].session], k)
        BY <4>1 DEF DomainInv, MessagesSound
      <4>3. \A u : u = Owner[toClient[k].session] => WillKnow(u, k)'
        BY <4>1, <4>2, <1>10
      <4>4. Owner[toClient'[k].session] = Owner[toClient[k].session]
        BY <4>1, <1>9
      <4> QED BY <4>1, <4>2, <4>3, <4>4, <1>9 DEF IdentityMessage, Details, WillKnow
    <3> QED BY <3>1, <3>2
  <2>2. \A u \in server'.told : WillKnow(u, n + 1)'
    BY <1>5, <1>11, <1>12
  <2>3. domain'.connection = "connected"
    BY <1>1
  <2> QED BY <2>1, <2>2, <2>3, <1>9 DEF MessagesSound, IdentityMessage, Details, WillKnow
<1>15. InitsSound'
  BY <1>1 DEF DomainInv, InitsSound
<1> QED BY <1>1, <1>6, <1>14, <1>15, QuietStep DEF HasRead, D!UnderWay

(***************************************************************************)
(* The stores                                                              *)
(***************************************************************************)

\* While an initialisation is under way, what is known may be put back.
LEMMA UnderWayKnows ==
  ASSUME DomainInv, NEW i \in DOMAIN inits, inits[i] \notin {"done", "failed"}
  PROVE  ~cache.deaf => ~KnowsSomething \/ known.overlaps
  BY DEF DomainInv, KnownSound, D!UnderWay

\* Changing one of the two queues leaves the other,
LEMMA TwoQueues ==
  ASSUME NEW q, NEW a, NEW b, q = [users |-> a, sessions |-> b], NEW c
  PROVE  /\ [q EXCEPT !.users = c] = [users |-> c, sessions |-> b]
         /\ [q EXCEPT !.sessions = c] = [users |-> a, sessions |-> c]
  OBVIOUS

\* and changing the one after the other changes both.
LEMMA BothQueues ==
  ASSUME NEW q, NEW a, NEW b, q = [users |-> a, sessions |-> b], NEW c, NEW d
  PROVE  [[q EXCEPT !.users = c] EXCEPT !.sessions = d] = [users |-> c, sessions |-> d]
<1> DEFINE x == [q EXCEPT !.users = c]
<1>1. x = [users |-> c, sessions |-> b]
  BY TwoQueues
<1> HIDE DEF x
<1>2. [x EXCEPT !.sessions = d] = [users |-> c, sessions |-> d]
  BY <1>1
<1> QED BY <1>2 DEF x

\* A queue of users whose head is taken
LEMMA UsersQueue ==
  ASSUME DomainInv, queues.users # <<>>
  PROVE  /\ UserTransaction(Head(queues.users))
         /\ [queues EXCEPT !.users = Tail(@)] =
              [users |-> Tail(queues.users), sessions |-> queues.sessions]
<1>1. queues = [users |-> queues.users, sessions |-> queues.sessions]
  BY DEF DomainInv, QueuesSound
<1>2. Head(queues.users) = queues.users[1] /\ 1 \in DOMAIN queues.users
  BY TakeFirst DEF DomainInv, QueuesSound
<1>3. UserTransaction(Head(queues.users))
  BY <1>2 DEF DomainInv, QueuesSound
<1>4. \A c : [queues EXCEPT !.users = c] = [users |-> c, sessions |-> queues.sessions]
  BY <1>1, TwoQueues
<1> QED BY <1>3, <1>4

\* A queue of sessions whose head is taken
LEMMA SessionsQueue ==
  ASSUME DomainInv, queues.sessions # <<>>
  PROVE  /\ SessionTransaction(Head(queues.sessions))
         /\ [queues EXCEPT !.sessions = Tail(@)] =
              [users |-> queues.users, sessions |-> Tail(queues.sessions)]
<1>1. queues = [users |-> queues.users, sessions |-> queues.sessions]
  BY DEF DomainInv, QueuesSound
<1>2. Head(queues.sessions) = queues.sessions[1] /\ 1 \in DOMAIN queues.sessions
  BY TakeFirst DEF DomainInv, QueuesSound
<1>3. SessionTransaction(Head(queues.sessions))
  BY <1>2 DEF DomainInv, QueuesSound
<1>4. \A c : [queues EXCEPT !.sessions = c] = [users |-> queues.users, sessions |-> c]
  BY <1>1, TwoQueues
<1> QED BY <1>3, <1>4

\* What the transactions that wait can be
LEMMA TransactionKinds ==
  ASSUME NEW t
  PROVE  /\ UserTransaction(t) /\ D!IsPut(t) =>
              \E u \in User, n \in Details : t = [put |-> <<u, n>>] /\ cache.users[u] # D!Unknown
         /\ UserTransaction(t) /\ ~D!IsPut(t) =>
              \E i \in DOMAIN inits : t = [get |-> i] /\ inits[i] = "users"
         /\ SessionTransaction(t) /\ D!IsPut(t) => \E s \in Session : t = [put |-> <<s>>]
         /\ SessionTransaction(t) /\ ~D!IsPut(t) =>
              \E i \in DOMAIN inits : t = [get |-> i] /\ inits[i] = "sessions"
  BY DEF UserTransaction, SessionTransaction, D!IsPut

\* A get belongs to an initialisation that waits for it.
LEMMA GetsBelong ==
  ASSUME NEW i
  PROVE  /\ UserTransaction([get |-> i]) => i \in DOMAIN inits /\ inits[i] = "users"
         /\ SessionTransaction([get |-> i]) => i \in DOMAIN inits /\ inits[i] = "sessions"
<1>1. ~D!IsPut([get |-> i])
  BY DEF D!IsPut
<1>2. \A j : [get |-> i] = [get |-> j] => i = j
  <2> TAKE j
  <2>1. [get |-> i].get = i /\ [get |-> j].get = j
    OBVIOUS
  <2> QED BY <2>1
<1> QED BY <1>1, <1>2, TransactionKinds

\* What is stored of a user is cached, and is what was told last if nothing else waits.
LEMMA UserStoredSound == DomainInv /\ D!UserStored => DomainInv'
<1> SUFFICES ASSUME DomainInv, D!UserStored PROVE DomainInv'
  OBVIOUS
<1> DEFINE q == queues.users
<1>1. /\ q # <<>> /\ D!IsPut(Head(q))
      /\ disk' = [disk EXCEPT !.users[Head(q).put[1]] = Head(q).put[2]]
      /\ queues' = [queues EXCEPT !.users = Tail(@)]
      /\ UNCHANGED <<domain, inits, storage, cache, server, toClient, known, acts>>
  BY DEF D!UserStored, D!Done
<1>2. PICK u \in User, n \in Details : Head(q) = [put |-> <<u, n>>] /\ cache.users[u] # D!Unknown
  BY <1>1, UsersQueue, TransactionKinds
<1>3. queues'.users = Tail(q) /\ queues'.sessions = queues.sessions
      /\ queues' = [users |-> queues'.users, sessions |-> queues'.sessions]
  BY <1>1, UsersQueue
<1>4. disk' = [disk EXCEPT !.users[u] = n] /\ n \in D!DomainUser
  BY <1>1, <1>2, DomainAssumption DEF D!DomainUser, Details
<1>5. disk \in [users : [User -> D!DomainUser], sessions : SUBSET Session]
  BY DEF DomainInv, DomainTypes, D!TypeOK
<1>6. /\ disk' \in [users : [User -> D!DomainUser], sessions : SUBSET Session]
      /\ disk'.sessions = disk.sessions /\ disk'.users[u] = n
      /\ \A v \in User : v # u => disk'.users[v] = disk.users[v]
  BY <1>4, <1>5
<1>7. /\ IsSequence(q) /\ GetsDiffer(q)
      /\ \A k \in DOMAIN q : UserTransaction(q[k])
  BY DEF DomainInv, QueuesSound
<1>8. /\ IsSequence(Tail(q)) /\ 1 \in DOMAIN q /\ Head(q) = q[1]
      /\ \A k \in DOMAIN Tail(q) : k \in Nat \ {0} /\ k + 1 \in DOMAIN q /\ Tail(q)[k] = q[k + 1]
      /\ \A k \in DOMAIN q :
           k \in Nat /\ (k # 1 => k - 1 \in DOMAIN Tail(q) /\ q[k] = Tail(q)[k - 1])
  BY <1>1, <1>7, TakeFirst
<1>9. DomainTypes'
  BY <1>1, <1>6 DEF DomainInv, DomainTypes, D!TypeOK, D!DomainUser
<1>10. QueuesSound'
  <2>1. GetsDiffer(Tail(q))
    BY <1>1, <1>7, GetsTail
  <2>2. \A t : /\ UserTransaction(t) => UserTransaction(t)'
               /\ SessionTransaction(t) => SessionTransaction(t)'
    BY <1>1 DEF UserTransaction, SessionTransaction
  <2> QED BY <2>1, <2>2, <1>3, <1>7, <1>8 DEF DomainInv, QueuesSound, GetsDiffer, D!IsPut
<1>11. MessagesSound' /\ InitsSound'
  BY <1>1 DEF DomainInv, MessagesSound, InitsSound, WillKnow, IdentityMessage
<1>12. CacheSound'
  <2>1. \A v \in User : disk'.users[v] # D!Unknown =>
          disk.users[v] # D!Unknown \/ cache.users[v] # D!Unknown
    BY <1>2, <1>6
  <2> QED BY <2>1, <1>1 DEF DomainInv, CacheSound, HasRead
<1>13. KnownSound'
  BY <1>1 DEF DomainInv, KnownSound, KnowsSomething, D!CannotStore, D!UnderWay
<1>14. ASSUME NEW v \in User, WillBeStored(v) PROVE WillBeStored(v)'
  <2>1. CASE disk.users[v] = known.users[v] /\ \A k \in DOMAIN q : ~PutsUser(q[k], v)
    <3>1. v # u
      BY <2>1, <1>1, <1>2, <1>8 DEF PutsUser
    <3>2. \A k \in DOMAIN Tail(q) : ~PutsUser(Tail(q)[k], v)
      BY <2>1, <1>8
    <3>3. disk'.users[v] = known'.users[v]
      BY <2>1, <3>1, <1>1, <1>6
    <3> QED BY <3>2, <3>3, <1>3 DEF WillBeStored, PutsUser, D!IsPut
  <2>2. ASSUME NEW k \in DOMAIN q, q[k] = [put |-> <<v, known.users[v]>>],
               \A j \in DOMAIN q : j > k => ~PutsUser(q[j], v)
        PROVE  WillBeStored(v)'
    <3>1. CASE k = 1
      <4>1. u = v /\ n = known.users[v]
        BY <2>2, <3>1, <1>2, <1>8
      <4>2. \A j \in DOMAIN Tail(q) : ~PutsUser(Tail(q)[j], v)
        <5> TAKE j \in DOMAIN Tail(q)
        <5>1. j + 1 > 1 /\ j + 1 \in DOMAIN q /\ Tail(q)[j] = q[j + 1]
          BY <1>8
        <5> QED BY <5>1, <2>2, <3>1
      <4> QED BY <4>1, <4>2, <1>1, <1>3, <1>6 DEF WillBeStored, PutsUser, D!IsPut
    <3>2. CASE k # 1
      <4>1. k \in Nat /\ k - 1 \in DOMAIN Tail(q) /\ Tail(q)[k - 1] = [put |-> <<v, known.users[v]>>]
        BY <2>2, <3>2, <1>8
      <4>2. \A j \in DOMAIN Tail(q) : j > k - 1 => ~PutsUser(Tail(q)[j], v)
        <5> TAKE j \in DOMAIN Tail(q)
        <5>1. j \in Nat /\ j + 1 \in DOMAIN q /\ Tail(q)[j] = q[j + 1]
          BY <1>8
        <5>2. j > k - 1 => j + 1 > k
          BY <5>1, <4>1
        <5> QED BY <5>1, <5>2, <2>2
      <4> QED BY <4>1, <4>2, <1>1, <1>3 DEF WillBeStored, PutsUser, D!IsPut
    <3> QED BY <3>1, <3>2
  <2> QED BY <1>14, <2>1, <2>2 DEF WillBeStored
<1>15. StoresSound'
  BY <1>1, <1>3, <1>6, <1>14 DEF DomainInv, StoresSound, SessionWillBeStored, DomainTypes
<1> QED BY <1>9, <1>10, <1>11, <1>12, <1>13, <1>15 DEF DomainInv

\* A session that waited to be stored is.
LEMMA SessionStoredSound == DomainInv /\ D!SessionStored => DomainInv'
<1> SUFFICES ASSUME DomainInv, D!SessionStored PROVE DomainInv'
  OBVIOUS
<1> DEFINE q == queues.sessions
<1>1. /\ q # <<>> /\ D!IsPut(Head(q))
      /\ disk' = [disk EXCEPT !.sessions = @ \cup {Head(q).put[1]}]
      /\ queues' = [queues EXCEPT !.sessions = Tail(@)]
      /\ UNCHANGED <<domain, inits, storage, cache, server, toClient, known, acts>>
  BY DEF D!SessionStored, D!Done
<1>2. PICK s \in Session : Head(q) = [put |-> <<s>>]
  BY <1>1, SessionsQueue, TransactionKinds
<1>3. /\ queues'.users = queues.users /\ queues'.sessions = Tail(q)
      /\ queues' = [users |-> queues'.users, sessions |-> queues'.sessions]
  BY <1>1, SessionsQueue
<1>4. disk \in [users : [User -> D!DomainUser], sessions : SUBSET Session]
  BY DEF DomainInv, DomainTypes, D!TypeOK
<1>5. /\ disk' \in [users : [User -> D!DomainUser], sessions : SUBSET Session]
      /\ disk'.users = disk.users /\ disk'.sessions = disk.sessions \cup {s}
  <2>1. Head(q).put[1] = s
    BY <1>2
  <2>2. disk' = [disk EXCEPT !.sessions = @ \cup {s}]
    BY <1>1, <2>1
  <2> QED BY <1>4, <2>2
<1>6. /\ IsSequence(q) /\ GetsDiffer(q)
      /\ \A k \in DOMAIN q : SessionTransaction(q[k])
  BY DEF DomainInv, QueuesSound
<1>7. /\ IsSequence(Tail(q)) /\ 1 \in DOMAIN q /\ Head(q) = q[1]
      /\ \A k \in DOMAIN Tail(q) : k \in Nat \ {0} /\ k + 1 \in DOMAIN q /\ Tail(q)[k] = q[k + 1]
      /\ \A k \in DOMAIN q :
           k \in Nat /\ (k # 1 => k - 1 \in DOMAIN Tail(q) /\ q[k] = Tail(q)[k - 1])
  BY <1>1, <1>6, TakeFirst
<1>8. DomainTypes'
  BY <1>1, <1>5 DEF DomainInv, DomainTypes, D!TypeOK, D!DomainUser
<1>9. QueuesSound'
  <2>1. GetsDiffer(Tail(q))
    BY <1>1, <1>6, GetsTail
  <2>2. \A t : /\ UserTransaction(t) => UserTransaction(t)'
               /\ SessionTransaction(t) => SessionTransaction(t)'
    BY <1>1 DEF UserTransaction, SessionTransaction
  <2> QED BY <2>1, <2>2, <1>3, <1>6, <1>7 DEF DomainInv, QueuesSound, GetsDiffer, D!IsPut
<1>10. MessagesSound' /\ InitsSound'
  BY <1>1 DEF DomainInv, MessagesSound, InitsSound, WillKnow, IdentityMessage
<1>11. CacheSound'
  BY <1>1, <1>5 DEF DomainInv, CacheSound, HasRead
<1>12. KnownSound'
  BY <1>1 DEF DomainInv, KnownSound, KnowsSomething, D!CannotStore, D!UnderWay
<1>13. ASSUME NEW r \in Session, SessionWillBeStored(r) PROVE SessionWillBeStored(r)'
  <2>1. CASE r \in disk.sessions
    BY <2>1, <1>5 DEF SessionWillBeStored
  <2>2. ASSUME NEW k \in DOMAIN q, q[k] = [put |-> <<r>>] PROVE SessionWillBeStored(r)'
    <3>1. CASE k = 1
      BY <2>2, <3>1, <1>2, <1>5, <1>7 DEF SessionWillBeStored
    <3>2. CASE k # 1
      BY <2>2, <3>2, <1>3, <1>7 DEF SessionWillBeStored
    <3> QED BY <3>1, <3>2
  <2> QED BY <1>13, <2>1, <2>2 DEF SessionWillBeStored
<1>14. ASSUME NEW u, WillBeStored(u) PROVE WillBeStored(u)'
  <2>1. queues'.users = queues.users /\ disk'.users = disk.users /\ known' = known
    BY <1>1, <1>3, <1>5
  <2> QED BY <1>14, <2>1 DEF WillBeStored, PutsUser, D!IsPut
<1>15. StoresSound'
  BY <1>1, <1>13, <1>14 DEF DomainInv, StoresSound, DomainTypes
<1> QED BY <1>8, <1>9, <1>10, <1>11, <1>12, <1>15 DEF DomainInv

\* The users are read after what was put before.
LEMMA ModelsReadSound ==
  ASSUME DomainInv, NEW i \in DOMAIN inits, D!ModelsRead(i)
  PROVE  DomainInv'
<1> PICK q : q = queues.users
  OBVIOUS
<1> DEFINE t == [get |-> i]
<1>1. /\ inits[i] = "models" /\ inits' = [inits EXCEPT ![i] = "users"]
      /\ queues' = [queues EXCEPT !.users = Append(@, t)]
      /\ UNCHANGED <<domain, storage, cache, disk, server, toClient, known, acts>>
  BY DEF D!ModelsRead, D!GetUsers, D!With
<1>2. /\ inits' \in Seq(Phases) /\ DOMAIN inits' = DOMAIN inits
      /\ inits'[i] = "users" /\ \A j \in DOMAIN inits : j # i => inits'[j] = inits[j]
  BY <1>1, MovesOn DEF Phases
<1>3. /\ queues = [users |-> q, sessions |-> queues.sessions]
      /\ IsSequence(q) /\ GetsDiffer(q)
      /\ \A k \in DOMAIN q : UserTransaction(q[k])
      /\ \A k \in DOMAIN queues.sessions : SessionTransaction(queues.sessions[k])
  BY DEF DomainInv, QueuesSound
<1>4. queues' = [users |-> Append(q, t), sessions |-> queues.sessions]
  <2>1. \A c : [queues EXCEPT !.users = c] = [users |-> c, sessions |-> queues.sessions]
    BY <1>3, TwoQueues
  <2> QED BY <1>1, <2>1
<1>5. inits # <<>> /\ storage.enabled
  BY DEF DomainInv, InitsSound
<1>6. ~D!IsPut(t) /\ \A k \in DOMAIN q : q[k] # t
  BY <1>1, <1>3, GetsBelong DEF D!IsPut
<1>7. /\ IsSequence(Append(q, t)) /\ Append(q, t)[Len(q) + 1] = t
      /\ \A k \in DOMAIN q :
           k \in Nat /\ k < Len(q) + 1 /\ k \in DOMAIN Append(q, t) /\ Append(q, t)[k] = q[k]
      /\ \A k \in DOMAIN Append(q, t) : k \in DOMAIN q \/ k = Len(q) + 1
  BY <1>3, AddLast
<1>8. GetsDiffer(Append(q, t))
  BY <1>3, <1>6, GetsAppend
<1> HIDE DEF t
<1>9. DomainTypes'
  BY <1>1, <1>2 DEF DomainInv, DomainTypes, D!TypeOK, Phases
<1>10. QueuesSound'
  <2>1. \A x : UserTransaction(x) => UserTransaction(x)'
    BY <1>1, <1>2 DEF UserTransaction
  <2>2. \A x : SessionTransaction(x) => SessionTransaction(x)'
    BY <1>1, <1>2 DEF SessionTransaction
  <2>3. UserTransaction(t)'
    BY <1>1, <1>2 DEF UserTransaction, t
  <2>4. \A k \in DOMAIN Append(q, t) : UserTransaction(Append(q, t)[k])'
    BY <2>1, <2>3, <1>3, <1>7
  <2>5. \A k \in DOMAIN queues.sessions : SessionTransaction(queues.sessions[k])'
    BY <2>2, <1>3, <1>4
  <2>6. queues'.users = Append(q, t) /\ queues'.sessions = queues.sessions
    BY <1>4
  <2>7. IsSequence(queues.sessions) /\ GetsDiffer(queues.sessions)
    BY DEF DomainInv, QueuesSound
  <2>8. GetsDiffer(queues'.users) /\ GetsDiffer(queues'.sessions)
    BY <1>8, <2>6, <2>7
  <2>9. (\A k \in DOMAIN queues.users : UserTransaction(queues.users[k]))'
    BY <2>4, <2>6 DEF UserTransaction
  <2>10. (\A k \in DOMAIN queues.sessions : SessionTransaction(queues.sessions[k]))'
    BY <2>5, <2>6 DEF SessionTransaction
  <2>11. /\ IsSequence(queues'.users) /\ IsSequence(queues'.sessions)
         /\ queues' = [users |-> queues'.users, sessions |-> queues'.sessions]
    BY <2>6, <2>7, <1>4, <1>7
  <2> QED BY <2>8, <2>9, <2>10, <2>11 DEF QueuesSound, IsSequence, GetsDiffer, D!IsPut
<1>11. MessagesSound' /\ InitsSound'
  BY <1>1, <1>5 DEF DomainInv, MessagesSound, InitsSound, WillKnow, IdentityMessage
<1>12. CacheSound'
  BY <1>1, <1>2 DEF DomainInv, CacheSound, HasRead
<1>13. ~cache.deaf => ~KnowsSomething \/ known.overlaps
  BY <1>1, UnderWayKnows
<1>14. KnownSound'
  BY <1>1, <1>13 DEF DomainInv, KnownSound, KnowsSomething, D!CannotStore
<1>15. ASSUME NEW v \in User, WillBeStored(v) PROVE WillBeStored(v)'
  <2>1. CASE disk.users[v] = known.users[v] /\ \A k \in DOMAIN q : ~PutsUser(q[k], v)
    <3>1. \A k \in DOMAIN Append(q, t) : ~PutsUser(Append(q, t)[k], v)
      BY <2>1, <1>6, <1>7 DEF PutsUser
    <3> QED BY <2>1, <3>1, <1>1, <1>4 DEF WillBeStored, PutsUser, D!IsPut
  <2>2. ASSUME NEW k \in DOMAIN q, q[k] = [put |-> <<v, known.users[v]>>],
               \A j \in DOMAIN q : j > k => ~PutsUser(q[j], v)
        PROVE  WillBeStored(v)'
    <3>1. \A j \in DOMAIN Append(q, t) : j > k => ~PutsUser(Append(q, t)[j], v)
      BY <2>2, <1>6, <1>7 DEF PutsUser
    <3>2. queues'.users = Append(q, t) /\ known' = known
      BY <1>1, <1>4
    <3>3. k \in DOMAIN Append(q, t) /\ Append(q, t)[k] = [put |-> <<v, known.users[v]>>]
      BY <2>2, <1>7
    <3> QED BY <3>1, <3>2, <3>3 DEF WillBeStored, PutsUser, D!IsPut
  <2> QED BY <1>15, <2>1, <2>2 DEF WillBeStored
<1>16. StoresSound'
  BY <1>1, <1>4, <1>15 DEF DomainInv, StoresSound, SessionWillBeStored, DomainTypes
<1> QED BY <1>9, <1>10, <1>11, <1>12, <1>14, <1>16 DEF DomainInv

\* What is stored replaces what is cached, and is known.
LEMMA UsersReadSound == DomainInv /\ D!UsersRead => DomainInv'
<1> SUFFICES ASSUME DomainInv, D!UsersRead PROVE DomainInv'
  OBVIOUS
<1> PICK q, r : q = queues.users /\ r = queues.sessions
  OBVIOUS
<1> DEFINE read == [u \in User |-> IF u \in D!AllUsers THEN disk.users[u] ELSE cache.users[u]]
<1>1. /\ q # <<>> /\ ~D!IsPut(Head(q))
      /\ inits' = [inits EXCEPT ![Head(q).get] = "sessions"]
      /\ queues' = [[queues EXCEPT !.users = Tail(@)] EXCEPT
                      !.sessions = Append(@, [get |-> Head(q).get])]
      /\ cache' = [cache EXCEPT !.users = read]
      /\ UNCHANGED <<domain, storage, disk, server, toClient, known, acts>>
  BY DEF D!UsersRead, D!GetSessions, D!With
<1>2. PICK i \in DOMAIN inits : Head(q) = [get |-> i] /\ inits[i] = "users"
  BY <1>1, UsersQueue, TransactionKinds
<1> DEFINE t == [get |-> i]
<1>3. /\ inits' \in Seq(Phases) /\ DOMAIN inits' = DOMAIN inits
      /\ inits'[i] = "sessions" /\ \A j \in DOMAIN inits : j # i => inits'[j] = inits[j]
  <2>1. Head(q).get = i
    BY <1>2
  <2> QED BY <1>1, <2>1, MovesOn DEF Phases
<1>4. queues' = [users |-> Tail(q), sessions |-> Append(r, t)]
  <2>1. queues = [users |-> q, sessions |-> r]
    BY DEF DomainInv, QueuesSound
  <2>2. queues' = [[queues EXCEPT !.users = Tail(q)] EXCEPT !.sessions = Append(r, t)]
    <3>1. Head(q).get = i
      BY <1>2
    <3>2. [queues EXCEPT !.users = Tail(@)] = [users |-> Tail(q), sessions |-> r]
      BY <1>1, UsersQueue
    <3> QED BY <1>1, <3>1, <3>2
  <2> QED BY <2>1, <2>2, BothQueues
<1>5. /\ IsSequence(q) /\ GetsDiffer(q) /\ IsSequence(r) /\ GetsDiffer(r)
      /\ \A k \in DOMAIN q : UserTransaction(q[k])
      /\ \A k \in DOMAIN r : SessionTransaction(r[k])
  BY DEF DomainInv, QueuesSound
<1>6. /\ IsSequence(Tail(q)) /\ 1 \in DOMAIN q /\ Head(q) = q[1]
      /\ \A k \in DOMAIN Tail(q) : k \in Nat \ {0} /\ k + 1 \in DOMAIN q /\ Tail(q)[k] = q[k + 1]
      /\ \A k \in DOMAIN q :
           k \in Nat /\ (k # 1 => k - 1 \in DOMAIN Tail(q) /\ q[k] = Tail(q)[k - 1])
  BY <1>1, <1>5, TakeFirst
<1>7. \A k \in DOMAIN r : r[k] # t
  BY <1>2, <1>5, GetsBelong
<1>8. /\ IsSequence(Append(r, t)) /\ Append(r, t)[Len(r) + 1] = t
      /\ \A k \in DOMAIN r : k \in DOMAIN Append(r, t) /\ Append(r, t)[k] = r[k]
      /\ \A k \in DOMAIN Append(r, t) : k \in DOMAIN r \/ k = Len(r) + 1
  BY <1>5, AddLast
<1>9. /\ GetsDiffer(Append(r, t)) /\ GetsDiffer(Tail(q))
      /\ \A k \in DOMAIN Tail(q) : Tail(q)[k] # t
  BY <1>1, <1>2, <1>5, <1>7, GetsAppend, GetsTail
<1> HIDE DEF t, read
<1>10. /\ cache \in Caches
       /\ disk \in [users : [User -> D!DomainUser], sessions : SUBSET Session]
  BY DEF Caches, DomainInv, DomainTypes, D!TypeOK
<1>11. /\ read \in [User -> D!DomainUser]
       /\ \A u \in User : disk.users[u] # D!Unknown \/ cache.users[u] # D!Unknown => read[u] # D!Unknown
  BY <1>10 DEF Caches, read, D!AllUsers
<1>12. /\ cache' \in Caches
       /\ cache'.users = read /\ cache'.sessions = cache.sessions /\ cache'.deaf = cache.deaf
  BY <1>1, <1>10, <1>11 DEF Caches
<1>13. DomainTypes'
  BY <1>1, <1>3, <1>12 DEF Caches, DomainInv, DomainTypes, D!TypeOK, D!DomainUser, Phases
<1>14. QueuesSound'
  <2>1. \A x : UserTransaction(x) /\ x # t => UserTransaction(x)'
    <3> SUFFICES ASSUME NEW x, UserTransaction(x), x # t PROVE UserTransaction(x)'
      OBVIOUS
    <3>1. CASE D!IsPut(x)
      <4>1. PICK u \in User, n \in Details : x = [put |-> <<u, n>>] /\ cache.users[u] # D!Unknown
        BY <3>1, TransactionKinds
      <4>2. cache'.users[u] # D!Unknown
        BY <4>1, <1>11, <1>12
      <4> QED BY <4>1, <4>2 DEF UserTransaction, Details, D!Unknown
    <3>2. CASE ~D!IsPut(x)
      <4>1. PICK j \in DOMAIN inits : x = [get |-> j] /\ inits[j] = "users"
        BY <3>2, TransactionKinds
      <4> QED BY <4>1, <1>3 DEF UserTransaction, t
    <3> QED BY <3>1, <3>2
  <2>2. \A x : SessionTransaction(x) => SessionTransaction(x)'
    BY <1>2, <1>3 DEF SessionTransaction
  <2>3. SessionTransaction(t)'
    BY <1>3 DEF SessionTransaction, t
  <2>4. \A k \in DOMAIN Tail(q) : UserTransaction(Tail(q)[k])'
    BY <2>1, <1>5, <1>6, <1>9
  <2>5. \A k \in DOMAIN Append(r, t) : SessionTransaction(Append(r, t)[k])'
    BY <2>2, <2>3, <1>5, <1>8
  <2>6. queues'.users = Tail(q) /\ queues'.sessions = Append(r, t)
    BY <1>4
  <2>7. (\A k \in DOMAIN queues.users : UserTransaction(queues.users[k]))'
    BY <2>4, <2>6 DEF UserTransaction
  <2>8. (\A k \in DOMAIN queues.sessions : SessionTransaction(queues.sessions[k]))'
    BY <2>5, <2>6 DEF SessionTransaction
  <2>9. GetsDiffer(queues'.users) /\ GetsDiffer(queues'.sessions)
    BY <2>6, <1>9
  <2>10. /\ IsSequence(queues'.users) /\ IsSequence(queues'.sessions)
         /\ queues' = [users |-> queues'.users, sessions |-> queues'.sessions]
    BY <2>6, <1>4, <1>6, <1>8
  <2> QED BY <2>7, <2>8, <2>9, <2>10 DEF QueuesSound, IsSequence, GetsDiffer, D!IsPut
<1>15. MessagesSound' /\ InitsSound'
  <2>1. inits # <<>> /\ storage.enabled
    BY DEF DomainInv, InitsSound
  <2> QED BY <1>1, <2>1 DEF DomainInv, MessagesSound, InitsSound, WillKnow, IdentityMessage
<1>16. CacheSound'
  <2>1. \A s \in Session : Owner[s] \in User
    BY DomainAssumption
  <2>2. known.restored \subseteq Session /\ known.sessions \subseteq Session
    BY DEF DomainInv, DomainTypes
  <2> QED BY <2>1, <2>2, <1>1, <1>11, <1>12 DEF DomainInv, CacheSound
<1>17. ~cache.deaf => ~KnowsSomething \/ known.overlaps
  BY <1>2, UnderWayKnows
<1>18. KnownSound'
  BY <1>1, <1>12, <1>17 DEF DomainInv, KnownSound, KnowsSomething, D!CannotStore
<1>19. ASSUME NEW v \in User, WillBeStored(v) PROVE WillBeStored(v)'
  <2>1. CASE disk.users[v] = known.users[v] /\ \A k \in DOMAIN q : ~PutsUser(q[k], v)
    <3>1. \A k \in DOMAIN Tail(q) : ~PutsUser(Tail(q)[k], v)
      BY <2>1, <1>6
    <3> QED BY <2>1, <3>1, <1>1, <1>4 DEF WillBeStored, PutsUser, D!IsPut
  <2>2. ASSUME NEW k \in DOMAIN q, q[k] = [put |-> <<v, known.users[v]>>],
               \A j \in DOMAIN q : j > k => ~PutsUser(q[j], v)
        PROVE  WillBeStored(v)'
    <3>1. k # 1
      BY <2>2, <1>1, <1>6 DEF D!IsPut
    <3>2. k \in Nat /\ k - 1 \in DOMAIN Tail(q) /\ Tail(q)[k - 1] = [put |-> <<v, known.users[v]>>]
      BY <2>2, <3>1, <1>6
    <3>3. \A j \in DOMAIN Tail(q) : j > k - 1 => ~PutsUser(Tail(q)[j], v)
      <4> TAKE j \in DOMAIN Tail(q)
      <4>1. j \in Nat /\ j + 1 \in DOMAIN q /\ Tail(q)[j] = q[j + 1]
        BY <1>6
      <4>2. j > k - 1 => j + 1 > k
        BY <4>1, <3>2
      <4> QED BY <4>1, <4>2, <2>2
    <3> QED BY <3>2, <3>3, <1>1, <1>4 DEF WillBeStored, PutsUser, D!IsPut
  <2> QED BY <1>19, <2>1, <2>2 DEF WillBeStored
<1>20. ASSUME NEW s \in Session, SessionWillBeStored(s) PROVE SessionWillBeStored(s)'
  BY <1>20, <1>1, <1>4, <1>8 DEF SessionWillBeStored
<1>21. StoresSound'
  BY <1>1, <1>12, <1>19, <1>20 DEF DomainInv, StoresSound, DomainTypes
<1> QED BY <1>13, <1>14, <1>15, <1>16, <1>18, <1>21 DEF DomainInv

\* A session that was stored is known if its user was.
LEMMA SessionsReadSound == DomainInv /\ D!SessionsRead => DomainInv'
<1> SUFFICES ASSUME DomainInv, D!SessionsRead PROVE DomainInv'
  OBVIOUS
<1> PICK p, q : p = queues.users /\ q = queues.sessions
  OBVIOUS
<1> DEFINE read == [s \in Session |-> IF s \in disk.sessions THEN cache.users[Owner[s]]
                                      ELSE cache.sessions[s]]
           found == {s \in disk.sessions : Owner[s] \in D!AllUsers}
<1>1. /\ q # <<>> /\ ~D!IsPut(Head(q))
      /\ inits' = [inits EXCEPT ![Head(q).get] = "done"]
      /\ queues' = [queues EXCEPT !.sessions = Tail(@)]
      /\ cache' = [cache EXCEPT !.sessions = read]
      /\ known' = [known EXCEPT !.restored = @ \cup found]
      /\ UNCHANGED <<domain, storage, disk, server, toClient, acts>>
  BY DEF D!SessionsRead, D!Done
<1>2. PICK i \in DOMAIN inits : Head(q) = [get |-> i] /\ inits[i] = "sessions"
  BY <1>1, SessionsQueue, TransactionKinds
<1>3. /\ inits' \in Seq(Phases) /\ DOMAIN inits' = DOMAIN inits
      /\ inits'[i] = "done" /\ \A j \in DOMAIN inits : j # i => inits'[j] = inits[j]
  <2>1. Head(q).get = i
    BY <1>2
  <2> QED BY <1>1, <2>1, MovesOn DEF Phases
<1>4. queues' = [users |-> p, sessions |-> Tail(q)]
  BY <1>1, SessionsQueue
<1>5. /\ IsSequence(q) /\ GetsDiffer(q)
      /\ \A k \in DOMAIN q : SessionTransaction(q[k])
      /\ IsSequence(p) /\ GetsDiffer(p)
      /\ \A k \in DOMAIN p : UserTransaction(p[k])
  BY DEF DomainInv, QueuesSound
<1>6. /\ IsSequence(Tail(q)) /\ 1 \in DOMAIN q /\ Head(q) = q[1]
      /\ \A k \in DOMAIN Tail(q) : k \in Nat \ {0} /\ k + 1 \in DOMAIN q /\ Tail(q)[k] = q[k + 1]
      /\ \A k \in DOMAIN q :
           k \in Nat /\ (k # 1 => k - 1 \in DOMAIN Tail(q) /\ q[k] = Tail(q)[k - 1])
  BY <1>1, <1>5, TakeFirst
<1>7. GetsDiffer(Tail(q)) /\ \A k \in DOMAIN Tail(q) : Tail(q)[k] # [get |-> i]
  BY <1>1, <1>2, <1>5, GetsTail
<1> HIDE DEF read, found
<1>8. /\ cache \in Caches
      /\ disk \in [users : [User -> D!DomainUser], sessions : SUBSET Session]
      /\ known \in [users : [User -> D!DomainUser], sessions : SUBSET Session,
                    restored : SUBSET Session, overlaps : BOOLEAN, early : BOOLEAN]
      /\ \A s \in Session : Owner[s] \in User
  BY DomainAssumption DEF Caches, DomainInv, DomainTypes, D!TypeOK
<1>9. read \in [Session -> D!DomainUser] /\ found \subseteq Session
  BY <1>8 DEF Caches, read, found
<1>10. /\ cache' \in Caches
       /\ cache'.users = cache.users /\ cache'.sessions = read /\ cache'.deaf = cache.deaf
  BY <1>1, <1>8, <1>9 DEF Caches
<1>11. /\ known' \in [users : [User -> D!DomainUser], sessions : SUBSET Session,
                      restored : SUBSET Session, overlaps : BOOLEAN, early : BOOLEAN]
       /\ known'.users = known.users /\ known'.sessions = known.sessions
       /\ known'.restored = known.restored \cup found
       /\ known'.overlaps = known.overlaps /\ known'.early = known.early
  BY <1>1, <1>8, <1>9
<1>12. DomainTypes'
  BY <1>1, <1>3, <1>10, <1>11 DEF Caches, DomainInv, DomainTypes, D!TypeOK, D!DomainUser, Phases
<1>13. QueuesSound'
  <2>1. \A x : UserTransaction(x) => UserTransaction(x)'
    BY <1>2, <1>3, <1>10 DEF UserTransaction
  <2>2. ASSUME NEW x, SessionTransaction(x), x # [get |-> i] PROVE SessionTransaction(x)'
    BY <2>2, <1>3 DEF SessionTransaction
  <2>3. \A k \in DOMAIN Tail(q) : SessionTransaction(Tail(q)[k])'
    BY <2>2, <1>5, <1>6, <1>7
  <2>4. /\ queues'.users = p /\ queues'.sessions = Tail(q)
        /\ \A k \in DOMAIN p : UserTransaction(p[k])'
    BY <2>1, <1>4, <1>5
  <2>5. (\A k \in DOMAIN queues.users : UserTransaction(queues.users[k]))'
    BY <2>4 DEF UserTransaction
  <2>6. (\A k \in DOMAIN queues.sessions : SessionTransaction(queues.sessions[k]))'
    BY <2>3, <2>4 DEF SessionTransaction
  <2>7. GetsDiffer(queues'.users) /\ GetsDiffer(queues'.sessions)
    BY <2>4, <1>5, <1>7
  <2>8. /\ IsSequence(queues'.users) /\ IsSequence(queues'.sessions)
        /\ queues' = [users |-> queues'.users, sessions |-> queues'.sessions]
    BY <2>4, <1>4, <1>5, <1>6
  <2> QED BY <2>5, <2>6, <2>7, <2>8 DEF QueuesSound, IsSequence, GetsDiffer, D!IsPut
<1>14. MessagesSound' /\ InitsSound'
  <2>1. inits # <<>> /\ storage.enabled
    BY DEF DomainInv, InitsSound
  <2> QED BY <1>1, <1>11, <2>1 DEF DomainInv, MessagesSound, InitsSound, WillKnow, IdentityMessage
<1>15. \A u \in User : disk.users[u] # D!Unknown => cache.users[u] # D!Unknown
  BY <1>2 DEF DomainInv, CacheSound, HasRead
<1>16. CacheSound'
  <2>1. \A s \in found : read[s] # D!Unknown /\ cache.users[Owner[s]] # D!Unknown
    BY <1>8, <1>9, <1>15 DEF found, read, D!AllUsers
  <2>2. ASSUME NEW s \in Session, cache.sessions[s] # D!Unknown, cache.users[Owner[s]] # D!Unknown
        PROVE  read[s] # D!Unknown
    BY <2>2 DEF read
  <2>3. cache.deaf => known.early
    BY DEF DomainInv, CacheSound
  <2>4. \A s \in known.restored : read[s] # D!Unknown /\ cache.users[Owner[s]] # D!Unknown
    BY <2>2, <1>8 DEF DomainInv, CacheSound
  <2>5. ~cache.deaf =>
          /\ \A s \in known.sessions : read[s] # D!Unknown /\ cache.users[Owner[s]] # D!Unknown
          /\ \A u \in User : known.users[u] # D!Unknown => cache.users[u] # D!Unknown
    BY <2>2, <1>8 DEF DomainInv, CacheSound
  <2> QED BY <2>1, <2>3, <2>4, <2>5, <1>1, <1>10, <1>11, <1>15 DEF CacheSound
<1>17. ~cache.deaf => ~KnowsSomething \/ known.overlaps
  BY <1>2, UnderWayKnows
<1>18. KnownSound'
  BY <1>1, <1>10, <1>11, <1>17 DEF DomainInv, KnownSound, KnowsSomething, D!CannotStore
<1>19. ASSUME NEW s \in Session, SessionWillBeStored(s) PROVE SessionWillBeStored(s)'
  <2>1. CASE s \in disk.sessions
    BY <2>1, <1>1 DEF SessionWillBeStored
  <2>2. ASSUME NEW k \in DOMAIN q, q[k] = [put |-> <<s>>] PROVE SessionWillBeStored(s)'
    <3>1. k # 1
      BY <2>2, <1>1, <1>6 DEF D!IsPut
    <3>2. k - 1 \in DOMAIN Tail(q) /\ Tail(q)[k - 1] = [put |-> <<s>>] /\ queues'.sessions = Tail(q)
      BY <2>2, <3>1, <1>4, <1>6
    <3> QED BY <3>2 DEF SessionWillBeStored
  <2> QED BY <1>19, <2>1, <2>2 DEF SessionWillBeStored
<1>20. ASSUME NEW u, WillBeStored(u) PROVE WillBeStored(u)'
  <2>1. queues'.users = queues.users /\ disk' = disk /\ known'.users = known.users
    BY <1>1, <1>4, <1>11
  <2> QED BY <1>20, <2>1 DEF WillBeStored, PutsUser, D!IsPut
<1>21. StoresSound'
  BY <1>1, <1>8, <1>10, <1>11, <1>19, <1>20 DEF DomainInv, StoresSound
<1> QED BY <1>12, <1>13, <1>14, <1>16, <1>18, <1>21 DEF DomainInv

(***************************************************************************)
(* A message is delivered                                                  *)
(***************************************************************************)

\* What the users of a message make of the users known or cached
Merged(f, m) == [u \in User |-> IF u \in DOMAIN m.users THEN m.users[u] ELSE f[u]]

\* A state of the cache and the queues, one part of it changed
LEMMA Updates ==
  ASSUME NEW us, NEW ss, NEW deaf, NEW q, NEW f, NEW c,
         c = [cache |-> [users |-> us, sessions |-> ss, deaf |-> deaf], queues |-> q]
  PROVE  /\ [c EXCEPT !.cache.users = f] =
              [cache |-> [users |-> f, sessions |-> ss, deaf |-> deaf], queues |-> q]
         /\ [c EXCEPT !.cache.deaf = f] =
              [cache |-> [users |-> us, sessions |-> ss, deaf |-> f], queues |-> q]
         /\ [c EXCEPT !.queues = f] =
              [cache |-> [users |-> us, sessions |-> ss, deaf |-> deaf], queues |-> f]
         /\ \A s : [c EXCEPT !.cache.sessions[s] = f] =
              [cache |-> [users |-> us, sessions |-> [ss EXCEPT ![s] = f], deaf |-> deaf], queues |-> q]
  OBVIOUS

\* A state of the cache and the queues, part by part
Holds(c, us, ss, deaf, a, b) ==
  c = [cache |-> [users |-> us, sessions |-> ss, deaf |-> deaf],
       queues |-> [users |-> a, sessions |-> b]]

\* The message names this user, or nobody.
NamesOnly(m, u) == DOMAIN m.users \subseteq {u}

\* What IdentityCache does with the users of a message
LEMMA UpdateUsersDoes ==
  ASSUME NEW us, NEW ss, NEW deaf \in BOOLEAN, NEW a, NEW b, NEW c, Holds(c, us, ss, deaf, a, b),
         NEW m, NEW u, NamesOnly(m, u)
  PROVE  /\ u \notin DOMAIN m.users \/ deaf => Holds(D!UpdateUsers(c, m), us, ss, deaf, a, b)
         /\ u \in DOMAIN m.users /\ ~deaf /\ D!CannotStore =>
              Holds(D!UpdateUsers(c, m), Merged(us, m), ss, TRUE, a, b)
         /\ u \in DOMAIN m.users /\ ~deaf /\ ~D!CannotStore =>
              Holds(D!UpdateUsers(c, m), Merged(us, m), ss, FALSE,
                    IF storage.enabled THEN Append(a, [put |-> <<u, m.users[u]>>]) ELSE a, b)
<1> DEFINE named == DOMAIN m.users
           d == [c EXCEPT !.cache.users = Merged(us, m)]
           q == [users |-> a, sessions |-> b]
<1> HIDE DEF q
<1>q. q = [users |-> a, sessions |-> b]
  BY DEF q
<1>c. c = [cache |-> [users |-> us, sessions |-> ss, deaf |-> deaf], queues |-> q]
  BY DEF Holds, q
<1>0. c.cache.deaf = deaf /\ c.cache.users = us /\ c.queues = q
  BY <1>c
<1>1. [c EXCEPT !.cache.users = [v \in User |-> IF v \in named THEN D!ToDomainUser(m, v) ELSE @[v]]] = d
  BY <1>0 DEF Merged, D!ToDomainUser
<1>2. d = [cache |-> [users |-> Merged(us, m), sessions |-> ss, deaf |-> deaf], queues |-> q]
  BY <1>c, Updates
<1> HIDE DEF d
<1>3. D!UpdateUsers(c, m) =
        IF named = {} \/ deaf THEN c
        ELSE IF D!CannotStore THEN [d EXCEPT !.cache.deaf = TRUE]
        ELSE LET v == CHOOSE v \in named : TRUE
             IN  [d EXCEPT !.queues = D!Queued(c, D!PutUser(@, v, D!ToDomainUser(m, v)))]
  BY <1>0, <1>1 DEF D!UpdateUsers
<1>4. CASE u \notin named \/ deaf
  BY <1>3, <1>4 DEF NamesOnly
<1>5. CASE u \in named /\ ~deaf /\ D!CannotStore
  <2>1. [d EXCEPT !.cache.deaf = TRUE] =
          [cache |-> [users |-> Merged(us, m), sessions |-> ss, deaf |-> TRUE], queues |-> q]
    <3>1. ASSUME NEW t, NEW x,
                 x = [cache |-> [users |-> Merged(us, m), sessions |-> ss, deaf |-> deaf], queues |-> q]
          PROVE  [x EXCEPT !.cache.deaf = t] =
                   [cache |-> [users |-> Merged(us, m), sessions |-> ss, deaf |-> t], queues |-> q]
      BY <3>1
    <3> QED BY <3>1, <1>2
  <2> QED BY <1>3, <1>5, <2>1 DEF Holds, q
<1>6. CASE u \in named /\ ~deaf /\ ~D!CannotStore
  <2>1. named = {u}
    BY <1>6 DEF NamesOnly
  <2>2. (CHOOSE v \in named : TRUE) = u
    BY <2>1
  <2>3. d.queues = q
    BY <1>2
  <2> DEFINE p == D!Queued(c, D!PutUser(q, u, m.users[u]))
  <2>4. D!UpdateUsers(c, m) = [d EXCEPT !.queues = p]
    BY <1>3, <1>6, <2>2, <2>3 DEF D!ToDomainUser
  <2>5. p = [users |-> IF storage.enabled THEN Append(a, [put |-> <<u, m.users[u]>>]) ELSE a,
             sessions |-> b]
    <3>1. D!PutUser(q, u, m.users[u]) = [q EXCEPT !.users = Append(a, [put |-> <<u, m.users[u]>>])]
      BY <1>q DEF D!PutUser, D!With
    <3>2. \A x : [q EXCEPT !.users = x] = [users |-> x, sessions |-> b]
      BY <1>q, TwoQueues
    <3> QED BY <1>0, <1>q, <3>1, <3>2 DEF D!Queued
  <2> HIDE DEF p
  <2>6. [d EXCEPT !.queues = p] =
          [cache |-> [users |-> Merged(us, m), sessions |-> ss, deaf |-> FALSE], queues |-> p]
    <3>1. ASSUME NEW x,
                 x = [cache |-> [users |-> Merged(us, m), sessions |-> ss, deaf |-> deaf], queues |-> q]
          PROVE  [x EXCEPT !.queues = p] =
                   [cache |-> [users |-> Merged(us, m), sessions |-> ss, deaf |-> deaf], queues |-> p]
      BY <3>1
    <3>2. deaf = FALSE
      BY <1>6
    <3> QED BY <3>1, <3>2, <1>2
  <2> QED BY <1>6, <2>4, <2>5, <2>6 DEF Holds
<1> QED BY <1>4, <1>5, <1>6

\* and with its session.
LEMMA UpdateSessionsDoes ==
  ASSUME NEW us, NEW ss, NEW deaf \in BOOLEAN, NEW a, NEW b, NEW c, Holds(c, us, ss, deaf, a, b),
         NEW m, NEW s, s = m.session, NEW user, user = us[Owner[s]]
  PROVE  /\ deaf => Holds(D!UpdateSessions(c, m), us, ss, deaf, a, b)
         /\ ~deaf /\ (D!CannotStore \/ (storage.enabled /\ user = D!Unknown)) =>
              Holds(D!UpdateSessions(c, m), us, [ss EXCEPT ![s] = user], TRUE, a, b)
         /\ ~deaf /\ ~D!CannotStore /\ user # D!Unknown =>
              Holds(D!UpdateSessions(c, m), us, [ss EXCEPT ![s] = user], FALSE, a,
                    IF storage.enabled THEN Append(b, [put |-> <<s>>]) ELSE b)
<1> DEFINE set == [ss EXCEPT ![s] = user]
           d == [c EXCEPT !.cache.sessions[s] = user]
           q == [users |-> a, sessions |-> b]
<1> HIDE DEF q
<1>q. q = [users |-> a, sessions |-> b]
  BY DEF q
<1>c. c = [cache |-> [users |-> us, sessions |-> ss, deaf |-> deaf], queues |-> q]
  BY DEF Holds, q
<1>0. c.cache.deaf = deaf /\ c.cache.users = us /\ c.queues = q
  BY <1>c
<1>1. d = [cache |-> [users |-> us, sessions |-> set, deaf |-> deaf], queues |-> q]
  BY <1>c, Updates
<1> HIDE DEF d, set
<1>2. D!UpdateSessions(c, m) =
        IF deaf THEN c
        ELSE IF D!CannotStore \/ (storage.enabled /\ user = D!Unknown) THEN [d EXCEPT !.cache.deaf = TRUE]
        ELSE [d EXCEPT !.queues = D!Queued(c, D!PutSession(@, s))]
  BY <1>0 DEF D!UpdateSessions, d
<1>3. [d EXCEPT !.cache.deaf = TRUE] =
        [cache |-> [users |-> us, sessions |-> set, deaf |-> TRUE], queues |-> q]
  <2>1. ASSUME NEW t, NEW x,
               x = [cache |-> [users |-> us, sessions |-> set, deaf |-> deaf], queues |-> q]
        PROVE  [x EXCEPT !.cache.deaf = t] =
                 [cache |-> [users |-> us, sessions |-> set, deaf |-> t], queues |-> q]
    BY <2>1
  <2> QED BY <2>1, <1>1
<1>4. CASE ~deaf /\ ~D!CannotStore /\ user # D!Unknown
  <2> DEFINE p == D!Queued(c, D!PutSession(q, s))
  <2>1. D!UpdateSessions(c, m) = [d EXCEPT !.queues = p]
    <3>1. d.queues = q
      BY <1>1
    <3> QED BY <1>2, <1>4, <3>1
  <2>2. p = [users |-> a, sessions |-> IF storage.enabled THEN Append(b, [put |-> <<s>>]) ELSE b]
    <3>1. D!PutSession(q, s) = [q EXCEPT !.sessions = Append(b, [put |-> <<s>>])]
      BY <1>q DEF D!PutSession, D!With
    <3>2. \A x : [q EXCEPT !.sessions = x] = [users |-> a, sessions |-> x]
      BY <1>q, TwoQueues
    <3> QED BY <1>0, <1>q, <3>1, <3>2 DEF D!Queued
  <2> HIDE DEF p
  <2>3. [d EXCEPT !.queues = p] =
          [cache |-> [users |-> us, sessions |-> set, deaf |-> FALSE], queues |-> p]
    <3>1. ASSUME NEW x, x = [cache |-> [users |-> us, sessions |-> set, deaf |-> deaf], queues |-> q]
          PROVE  [x EXCEPT !.queues = p] =
                   [cache |-> [users |-> us, sessions |-> set, deaf |-> deaf], queues |-> p]
      BY <3>1
    <3>2. deaf = FALSE
      BY <1>4
    <3> QED BY <3>1, <3>2, <1>1
  <2> QED BY <1>4, <2>1, <2>2, <2>3 DEF set, Holds
<1>5. CASE deaf
  BY <1>2, <1>5
<1>6. CASE ~deaf /\ (D!CannotStore \/ (storage.enabled /\ user = D!Unknown))
  BY <1>2, <1>3, <1>6 DEF set, q, Holds
<1> QED BY <1>4, <1>5, <1>6

\* What is delivered is told in this order: a user first.
LEMMA NextMessage ==
  ASSUME DomainInv, toClient # <<>>
  PROVE  /\ IdentityMessage(Head(toClient))
         /\ Head(toClient) = toClient[1] /\ Len(toClient) >= 1
         /\ \/ known.users[Owner[Head(toClient).session]] # D!Unknown
            \/ Owner[Head(toClient).session] \in DOMAIN Head(toClient).users
<1>1. IsSequence(toClient)
  BY DEF DomainInv, MessagesSound
<1>2. Head(toClient) = toClient[1] /\ Len(toClient) >= 1 /\ Len(toClient) \in Nat
  BY <1>1, TailOfSequence, SequenceIsFunction
<1>3. IdentityMessage(toClient[1]) /\ WillKnow(Owner[toClient[1].session], 1)
  BY <1>2 DEF DomainInv, MessagesSound
<1> QED BY <1>2, <1>3 DEF WillKnow

\* A deaf cache keeps what it has; another takes what it is told, and becomes deaf if the
\* storage is not open.
LEMMA DeliverDoes ==
  ASSUME DomainInv, D!Deliver, NEW m, m = Head(toClient), NEW s, s = m.session,
         NEW u, u = Owner[s]
  PROVE  /\ s \in Session /\ u \in User /\ NamesOnly(m, u)
         /\ \A v \in DOMAIN m.users : m.users[v] \in Details
         /\ cache.deaf => cache' = cache /\ queues' = queues
         /\ ~cache.deaf =>
              /\ Merged(cache.users, m)[u] # D!Unknown
              /\ \E deaf \in BOOLEAN : \E ss, a, b :
                   /\ Holds([cache |-> cache', queues |-> queues'],
                            Merged(cache.users, m), ss, deaf, a, b)
                   /\ deaf <=> D!CannotStore
                   /\ \/ ss = [cache.sessions EXCEPT ![s] = Merged(cache.users, m)[u]]
                      \/ D!CannotStore /\ ss = cache.sessions
                   /\ a = IF ~D!CannotStore /\ storage.enabled /\ u \in DOMAIN m.users
                          THEN Append(queues.users, [put |-> <<u, m.users[u]>>]) ELSE queues.users
                   /\ b = IF ~D!CannotStore /\ storage.enabled
                          THEN Append(queues.sessions, [put |-> <<s>>]) ELSE queues.sessions
<1>1. toClient # <<>>
  BY DEF D!Deliver
<1>2. IdentityMessage(m) /\ (known.users[u] # D!Unknown \/ u \in DOMAIN m.users)
  BY <1>1, NextMessage
<1>3. /\ s \in Session /\ u \in User /\ NamesOnly(m, u)
      /\ \A v \in DOMAIN m.users : m.users[v] \in Details
  BY <1>2, DomainAssumption DEF IdentityMessage, NamesOnly
<1> PICK a, b, us, ss, deaf :
      /\ a = queues.users /\ b = queues.sessions
      /\ us = cache.users /\ ss = cache.sessions /\ deaf = cache.deaf
  OBVIOUS
<1>4. /\ queues = [users |-> a, sessions |-> b]
      /\ cache = [users |-> us, sessions |-> ss, deaf |-> deaf]
      /\ deaf \in BOOLEAN /\ us \in [User -> D!DomainUser]
  BY DEF DomainInv, QueuesSound, DomainTypes, D!TypeOK
<1> PICK c : c = [cache |-> cache, queues |-> queues]
  OBVIOUS
<1>5. Holds(c, us, ss, deaf, a, b)
  BY <1>4 DEF Holds
<1> PICK d : d = D!UpdateUsers(c, m)
  OBVIOUS
<1> PICK e : e = D!UpdateSessions(d, m)
  OBVIOUS
<1>6. cache' = e.cache /\ queues' = e.queues
  BY DEF D!Deliver, D!ProcessIdentityUpdate
<1>7. \A us1, ss1, deaf1, a1, b1 : Holds(e, us1, ss1, deaf1, a1, b1) =>
        Holds([cache |-> cache', queues |-> queues'], us1, ss1, deaf1, a1, b1)
  BY <1>6 DEF Holds
<1>8. CASE deaf
  <2>1. Holds(d, us, ss, deaf, a, b)
    BY <1>3, <1>4, <1>5, <1>8, UpdateUsersDoes
  <2>2. Holds(e, us, ss, deaf, a, b)
    BY <1>4, <1>8, <2>1, UpdateSessionsDoes
  <2>3. e = c
    BY <1>5, <2>2 DEF Holds
  <2>4. cache' = cache /\ queues' = queues
    BY <1>6, <2>3
  <2> QED BY <1>3, <1>8, <2>4
<1>9. CASE ~deaf
  <2> PICK ms : ms = Merged(us, m)
    OBVIOUS
  <2>1. ms[u] # D!Unknown
    <3>1. CASE u \in DOMAIN m.users
      BY <3>1, <1>3, DomainAssumption DEF Merged, Details, D!Unknown
    <3>2. CASE u \notin DOMAIN m.users
      <4>1. us[u] # D!Unknown
        BY <3>2, <1>2, <1>3, <1>9 DEF DomainInv, CacheSound
      <4> QED BY <3>2, <4>1, <1>3 DEF Merged
    <3> QED BY <3>1, <3>2
  <2> PICK set : set = [ss EXCEPT ![s] = ms[u]]
    OBVIOUS
  <2>2. ASSUME NEW deaf1 \in BOOLEAN, NEW ss1, NEW a1, NEW b1, Holds(e, ms, ss1, deaf1, a1, b1),
               deaf1 <=> D!CannotStore, ss1 = set \/ (D!CannotStore /\ ss1 = ss),
               a1 = IF ~D!CannotStore /\ storage.enabled /\ u \in DOMAIN m.users
                    THEN Append(a, [put |-> <<u, m.users[u]>>]) ELSE a,
               b1 = IF ~D!CannotStore /\ storage.enabled THEN Append(b, [put |-> <<s>>]) ELSE b
        PROVE  /\ Merged(cache.users, m)[u] # D!Unknown
               /\ \E dx \in BOOLEAN : \E sx, ax, bx :
                    /\ Holds([cache |-> cache', queues |-> queues'],
                             Merged(cache.users, m), sx, dx, ax, bx)
                    /\ dx <=> D!CannotStore
                    /\ \/ sx = [cache.sessions EXCEPT ![s] = Merged(cache.users, m)[u]]
                       \/ D!CannotStore /\ sx = cache.sessions
                    /\ ax = IF ~D!CannotStore /\ storage.enabled /\ u \in DOMAIN m.users
                            THEN Append(queues.users, [put |-> <<u, m.users[u]>>]) ELSE queues.users
                    /\ bx = IF ~D!CannotStore /\ storage.enabled
                            THEN Append(queues.sessions, [put |-> <<s>>]) ELSE queues.sessions
    <3>1. Holds([cache |-> cache', queues |-> queues'], Merged(cache.users, m), ss1, deaf1, a1, b1)
      BY <1>7, <2>2
    <3>2. \/ ss1 = [cache.sessions EXCEPT ![s] = Merged(cache.users, m)[u]]
          \/ D!CannotStore /\ ss1 = cache.sessions
      BY <2>2
    <3>3. a1 = IF ~D!CannotStore /\ storage.enabled /\ u \in DOMAIN m.users
               THEN Append(queues.users, [put |-> <<u, m.users[u]>>]) ELSE queues.users
      BY <2>2
    <3>4. b1 = IF ~D!CannotStore /\ storage.enabled
               THEN Append(queues.sessions, [put |-> <<s>>]) ELSE queues.sessions
      BY <2>2
    <3>5. Merged(cache.users, m)[u] # D!Unknown
      BY <2>1
    <3> SUFFICES \E dx \in BOOLEAN : \E sx, ax, bx :
                   /\ Holds([cache |-> cache', queues |-> queues'],
                            Merged(cache.users, m), sx, dx, ax, bx)
                   /\ dx <=> D!CannotStore
                   /\ \/ sx = [cache.sessions EXCEPT ![s] = Merged(cache.users, m)[u]]
                      \/ D!CannotStore /\ sx = cache.sessions
                   /\ ax = IF ~D!CannotStore /\ storage.enabled /\ u \in DOMAIN m.users
                           THEN Append(queues.users, [put |-> <<u, m.users[u]>>]) ELSE queues.users
                   /\ bx = IF ~D!CannotStore /\ storage.enabled
                           THEN Append(queues.sessions, [put |-> <<s>>]) ELSE queues.sessions
      BY <3>5
    <3> WITNESS deaf1 \in BOOLEAN
    <3> WITNESS ss1, a1, b1
    <3> QED BY <2>2, <3>1, <3>2, <3>3, <3>4
  <2> HIDE DEF Holds
  <2>3. CASE D!CannotStore /\ u \in DOMAIN m.users
    <3>1. Holds(d, ms, ss, TRUE, a, b)
      BY <1>3, <1>4, <1>5, <1>9, <2>3, UpdateUsersDoes
    <3>2. Holds(e, ms, ss, TRUE, a, b)
      BY <3>1, UpdateSessionsDoes
    <3> QED BY <1>3, <1>9, <2>2, <2>3, <3>2
  <2>4. CASE u \notin DOMAIN m.users
    <3>1. ms = us
      BY <1>3, <1>4, <2>4 DEF Merged, NamesOnly
    <3>2. Holds(d, us, ss, deaf, a, b)
      BY <1>3, <1>4, <1>5, <2>4, UpdateUsersDoes
    <3>3. Holds(d, ms, ss, FALSE, a, b)
      BY <1>4, <1>9, <3>1, <3>2
    <3>4. CASE D!CannotStore
      <4>1. Holds(e, ms, set, TRUE, a, b)
        BY <3>3, <3>4, UpdateSessionsDoes
      <4> QED BY <1>3, <1>9, <2>2, <2>4, <3>4, <4>1
    <3>5. CASE ~D!CannotStore
      <4> PICK b1 : b1 = IF storage.enabled THEN Append(b, [put |-> <<s>>]) ELSE b
        OBVIOUS
      <4>1. Holds(e, ms, set, FALSE, a, b1)
        BY <2>1, <3>3, <3>5, UpdateSessionsDoes
      <4> QED BY <1>3, <1>9, <2>2, <2>4, <3>5, <4>1
    <3> QED BY <3>4, <3>5
  <2>5. CASE ~D!CannotStore /\ u \in DOMAIN m.users
    <3> PICK a1 : a1 = IF storage.enabled THEN Append(a, [put |-> <<u, m.users[u]>>]) ELSE a
      OBVIOUS
    <3> PICK b1 : b1 = IF storage.enabled THEN Append(b, [put |-> <<s>>]) ELSE b
      OBVIOUS
    <3>1. Holds(d, ms, ss, FALSE, a1, b)
      BY <1>3, <1>4, <1>5, <1>9, <2>5, UpdateUsersDoes
    <3>2. Holds(e, ms, set, FALSE, a1, b1)
      BY <2>1, <2>5, <3>1, UpdateSessionsDoes
    <3> QED BY <1>3, <1>9, <2>2, <2>5, <3>2
  <2> QED BY <2>3, <2>4, <2>5
<1> QED BY <1>8, <1>9

\* The types of what has been told and found stored
Knowns ==
  [users : [User -> D!DomainUser], sessions : SUBSET Session, restored : SUBSET Session,
   overlaps : BOOLEAN, early : BOOLEAN]

\* What the page has been told after a message
LEMMA DeliverTells ==
  ASSUME DomainInv, D!Deliver, NEW m, m = Head(toClient), m.session \in Session,
         \A v \in DOMAIN m.users : m.users[v] \in Details
  PROVE  /\ known' \in Knowns /\ known'.users = Merged(known.users, m)
         /\ known'.sessions = known.sessions \cup {m.session}
         /\ known'.restored = known.restored
         /\ known'.overlaps = (known.overlaps \/ D!UnderWay)
         /\ known'.early = (known.early \/ D!CannotStore)
<1> DEFINE k1 == [known EXCEPT !.users = Merged(@, m)]
           k2 == [k1 EXCEPT !.sessions = @ \cup {m.session}]
           k3 == [k2 EXCEPT !.overlaps = @ \/ D!UnderWay]
           k4 == [k3 EXCEPT !.early = @ \/ D!CannotStore]
<1>1. known' = k4
  BY DEF D!Deliver, Merged
<1>2. known \in Knowns
  BY DEF DomainInv, DomainTypes, Knowns
<1>3. Merged(known.users, m) \in [User -> D!DomainUser]
  BY <1>2, DomainAssumption DEF Merged, Knowns, Details, D!DomainUser
<1>4. /\ k1 \in Knowns /\ k1.users = Merged(known.users, m) /\ k1.sessions = known.sessions
      /\ k1.restored = known.restored /\ k1.overlaps = known.overlaps /\ k1.early = known.early
  BY <1>2, <1>3 DEF Knowns
<1> HIDE DEF k1
<1>5. /\ k2 \in Knowns /\ k2.users = k1.users /\ k2.sessions = k1.sessions \cup {m.session}
      /\ k2.restored = k1.restored /\ k2.overlaps = k1.overlaps /\ k2.early = k1.early
  BY <1>4 DEF Knowns
<1> HIDE DEF k2
<1>6. /\ k3 \in Knowns /\ k3.users = k2.users /\ k3.sessions = k2.sessions
      /\ k3.restored = k2.restored /\ k3.overlaps = (k2.overlaps \/ D!UnderWay) /\ k3.early = k2.early
  <2> HIDE DEF D!UnderWay
  <2> QED BY <1>5 DEF Knowns
<1> HIDE DEF k3
<1>7. /\ k4 \in Knowns /\ k4.users = k3.users /\ k4.sessions = k3.sessions
      /\ k4.restored = k3.restored /\ k4.overlaps = k3.overlaps
      /\ k4.early = (k3.early \/ D!CannotStore)
  BY <1>6 DEF Knowns
<1> HIDE DEF k4
<1> QED BY <1>1, <1>4, <1>5, <1>6, <1>7

\* A message keeps all of the invariant.
LEMMA DeliverSound == DomainInv /\ D!Deliver => DomainInv'
<1> SUFFICES ASSUME DomainInv, D!Deliver PROVE DomainInv'
  OBVIOUS
<1> PICK m : m = Head(toClient)
  OBVIOUS
<1> PICK s : s = m.session
  OBVIOUS
<1> PICK u : u = Owner[s]
  OBVIOUS
<1>1. /\ toClient # <<>> /\ toClient' = Tail(toClient)
      /\ UNCHANGED <<domain, inits, storage, disk, server, acts>>
  BY DEF D!Deliver
<1>2. /\ s \in Session /\ u \in User /\ NamesOnly(m, u)
      /\ \A v \in DOMAIN m.users : m.users[v] \in Details
      /\ cache.deaf => cache' = cache /\ queues' = queues
  BY DeliverDoes
<1>3. /\ known' \in Knowns /\ known'.users = Merged(known.users, m)
      /\ known'.sessions = known.sessions \cup {s}
      /\ known'.restored = known.restored
      /\ known'.overlaps = (known.overlaps \/ D!UnderWay)
      /\ known'.early = (known.early \/ D!CannotStore)
  BY <1>2, DeliverTells
<1>4. /\ cache \in Caches
      /\ known \in Knowns
  BY DEF Caches, DomainInv, DomainTypes, D!TypeOK, Knowns
<1>5. InitsSound'
  BY <1>1 DEF DomainInv, InitsSound
<1>6. /\ IsSequence(toClient) /\ IsSequence(Tail(toClient))
      /\ Len(Tail(toClient)) = Len(toClient) - 1 /\ Len(toClient) \in Nat /\ Len(toClient) >= 1
      /\ Head(toClient) = toClient[1]
      /\ \A k \in 1 .. Len(toClient) - 1 : Tail(toClient)[k] = toClient[k + 1]
  BY <1>1, TailOfSequence, SequenceIsFunction DEF DomainInv, MessagesSound
<1>7. \A v \in User : known.users[v] # D!Unknown \/ v \in DOMAIN m.users => known'.users[v] # D!Unknown
  BY <1>2, <1>3, DomainAssumption DEF Merged, Details, D!Unknown
<1> PICK n \in Nat : n = Len(toClient) - 1
  BY <1>6
<1>8. ASSUME NEW v \in User, NEW k \in 0 .. n, WillKnow(v, k + 1)
      PROVE  WillKnow(v, k)'
  <2>1. CASE known.users[v] # D!Unknown
    BY <2>1, <1>7 DEF WillKnow
  <2>2. ASSUME NEW j \in 1 .. k + 1, v \in DOMAIN toClient[j].users
        PROVE  WillKnow(v, k)'
    <3>1. CASE j = 1
      BY <2>2, <3>1, <1>6, <1>7 DEF WillKnow
    <3>2. CASE j # 1
      <4>1. j - 1 \in 1 .. k /\ j - 1 \in 1 .. Len(toClient) - 1 /\ (j - 1) + 1 = j
        BY <3>2, <1>6
      <4>2. toClient'[j - 1] = toClient[j]
        BY <4>1, <1>1, <1>6
      <4> QED BY <4>1, <4>2, <2>2 DEF WillKnow
    <3> QED BY <3>1, <3>2
  <2> QED BY <1>8, <2>1, <2>2 DEF WillKnow
<1>9. MessagesSound'
  <2>1. Len(toClient') = n /\ Len(toClient) = n + 1
    BY <1>1, <1>6
  <2>2. ASSUME NEW k \in 1 .. n
        PROVE  (IdentityMessage(toClient[k]) /\ WillKnow(Owner[toClient[k].session], k))'
    <3>1. k + 1 \in 1 .. Len(toClient) /\ toClient'[k] = toClient[k + 1] /\ k \in 0 .. n
      BY <1>1, <1>6, <2>1
    <3> PICK mk : mk = toClient[k + 1]
      OBVIOUS
    <3>2. IdentityMessage(mk) /\ WillKnow(Owner[mk.session], k + 1)
      BY <3>1 DEF DomainInv, MessagesSound
    <3> PICK o : o = Owner[mk.session]
      OBVIOUS
    <3>3. o \in User
      BY <3>2, DomainAssumption DEF IdentityMessage
    <3>4. WillKnow(o, k)'
      BY <3>1, <3>2, <3>3, <1>8
    <3>5. toClient'[k] = mk
      BY <3>1
    <3> QED BY <3>2, <3>4, <3>5 DEF IdentityMessage, Details, WillKnow
  <2>3. domain.connection = "connected" => \A v \in server.told : WillKnow(v, n)'
    <3> SUFFICES ASSUME domain.connection = "connected", NEW v \in server.told PROVE WillKnow(v, n)'
      OBVIOUS
    <3>1. v \in User /\ n \in 0 .. n
      BY DEF DomainInv, DomainTypes
    <3>2. WillKnow(v, n + 1)
      BY <2>1 DEF DomainInv, MessagesSound
    <3> QED BY <3>1, <3>2, <1>8
  <2>4. domain.connection = "connected"
    BY <1>1 DEF DomainInv, MessagesSound
  <2> QED BY <1>1, <1>6, <2>1, <2>2, <2>3, <2>4
          DEF MessagesSound, WillKnow, IdentityMessage, Details
<1>10. CASE cache.deaf
  <2>1. cache' = cache /\ queues' = queues
    BY <1>2, <1>10
  <2>2. DomainTypes'
    BY <1>1, <1>3, <2>1 DEF DomainInv, DomainTypes, D!TypeOK, D!DomainUser, Knowns
  <2>3. QueuesSound'
    BY <1>1, <2>1 DEF DomainInv, QueuesSound, UserTransaction, SessionTransaction, GetsDiffer,
                      D!IsPut, IsSequence
  <2>4. CacheSound' /\ KnownSound' /\ StoresSound'
    BY <1>1, <1>3, <1>10, <2>1 DEF DomainInv, CacheSound, KnownSound, StoresSound, HasRead
  <2> QED BY <1>5, <1>9, <2>2, <2>3, <2>4 DEF DomainInv
<1>11. CASE ~cache.deaf
  <2> PICK us : us = Merged(cache.users, m)
    OBVIOUS
  <2> PICK p, r : p = queues.users /\ r = queues.sessions
    OBVIOUS
  <2>1. PICK deaf, ss, a, b :
          /\ deaf \in BOOLEAN
          /\ Holds([cache |-> cache', queues |-> queues'], us, ss, deaf, a, b)
          /\ deaf <=> D!CannotStore
          /\ \/ ss = [cache.sessions EXCEPT ![s] = us[u]]
             \/ D!CannotStore /\ ss = cache.sessions
          /\ a = IF ~D!CannotStore /\ storage.enabled /\ u \in DOMAIN m.users
                 THEN Append(p, [put |-> <<u, m.users[u]>>]) ELSE p
          /\ b = IF ~D!CannotStore /\ storage.enabled THEN Append(r, [put |-> <<s>>]) ELSE r
    BY <1>11, DeliverDoes
  <2>2. /\ cache' = [users |-> us, sessions |-> ss, deaf |-> deaf]
        /\ queues' = [users |-> a, sessions |-> b]
    BY <2>1 DEF Holds
  <2>3. /\ cache'.users = us /\ cache'.sessions = ss /\ cache'.deaf = deaf
        /\ queues'.users = a /\ queues'.sessions = b
    BY <2>2
  <2>4. us[u] # D!Unknown
    BY <1>11, DeliverDoes, ZenonT(40)
  <2>5. us \in [User -> D!DomainUser]
    BY <1>2, <1>4, DomainAssumption DEF Caches, Merged, Details, D!DomainUser
  <2>6. ss \in [Session -> D!DomainUser]
    BY <1>2, <1>4, <2>1, <2>5 DEF Caches
  <2>7. DomainTypes'
    <3>1. cache' \in Caches
      BY <2>1, <2>2, <2>5, <2>6 DEF Caches
    <3> QED BY <1>1, <1>3, <3>1 DEF Caches, DomainInv, DomainTypes, D!TypeOK, D!DomainUser, Knowns
  <2>8. \A v \in User : cache.users[v] # D!Unknown => us[v] # D!Unknown
    BY <1>2, DomainAssumption DEF Merged, Details, D!Unknown
  <2>9. \A t \in Session : (cache.sessions[t] # D!Unknown => ss[t] # D!Unknown)
    BY <1>2, <1>4, <2>1, <2>4 DEF Caches
  <2>10. \A v \in User : known'.users[v] # D!Unknown => us[v] # D!Unknown
    <3> SUFFICES ASSUME NEW v \in User, known'.users[v] # D!Unknown PROVE us[v] # D!Unknown
      OBVIOUS
    <3>1. CASE v \in DOMAIN m.users
      BY <3>1, <1>2, DomainAssumption DEF Merged, Details, D!Unknown
    <3>2. CASE v \notin DOMAIN m.users
      <4>1. known.users[v] # D!Unknown
        BY <3>2, <1>3 DEF Merged
      <4> QED BY <4>1, <2>8, <1>11 DEF DomainInv, CacheSound
    <3> QED BY <3>1, <3>2
  <2>11. CacheSound'
    <3>1. \A t \in Session : Owner[t] \in User
      BY DomainAssumption
    <3>2. cache'.deaf => known'.early
      BY <1>3, <2>1, <2>3
    <3>3. (\E i \in DOMAIN inits : HasRead(i)) =>
            \A v \in User : disk.users[v] # D!Unknown => us[v] # D!Unknown
      BY <2>8 DEF DomainInv, CacheSound
    <3>4. \A t \in known.restored : ss[t] # D!Unknown /\ us[Owner[t]] # D!Unknown
      BY <1>4, <2>8, <2>9, <3>1 DEF DomainInv, CacheSound, Knowns
    <3>5. ~deaf => \A t \in known.sessions \cup {s} : ss[t] # D!Unknown /\ us[Owner[t]] # D!Unknown
      <4> SUFFICES ASSUME ~deaf, NEW t \in known.sessions \cup {s}
                   PROVE  ss[t] # D!Unknown /\ us[Owner[t]] # D!Unknown
        OBVIOUS
      <4>1. CASE t = s
        BY <4>1, <1>2, <1>4, <2>1, <2>4 DEF Caches
      <4>2. CASE t \in known.sessions
        BY <4>2, <1>4, <1>11, <2>8, <2>9, <3>1 DEF DomainInv, CacheSound, Knowns
      <4> QED BY <4>1, <4>2
    <3> QED BY <1>1, <1>3, <2>3, <2>10, <3>2, <3>3, <3>4, <3>5 DEF CacheSound, HasRead
  <2>12. KnownSound'
    <3> SUFFICES ASSUME ~cache'.deaf PROVE KnownSound'
      BY DEF KnownSound
    <3>1. ~D!CannotStore /\ ~D!CannotStore'
      BY <1>1, <2>1, <2>3 DEF D!CannotStore
    <3>2. ASSUME ~known'.overlaps, NEW v \in User, known'.users[v] # D!Unknown
          PROVE  us[v] = known'.users[v]
      <4>1. CASE v \in DOMAIN m.users
        BY <4>1, <1>3 DEF Merged
      <4>2. CASE v \notin DOMAIN m.users
        <5>1. known.users[v] # D!Unknown /\ known'.users[v] = known.users[v]
          BY <4>2, <3>2, <1>3 DEF Merged
        <5>2. cache.users[v] = known.users[v]
          BY <5>1, <3>2, <1>3, <1>11 DEF DomainInv, KnownSound, KnowsSomething
        <5> QED BY <4>2, <5>1, <5>2 DEF Merged
      <4> QED BY <4>1, <4>2
    <3>3. ~known'.overlaps => ~D!UnderWay'
      BY <1>1, <1>3 DEF D!UnderWay
    <3> QED BY <2>3, <3>1, <3>2, <3>3 DEF KnownSound
  <2>13. QueuesSound'
    <3>1. /\ IsSequence(p) /\ IsSequence(r) /\ GetsDiffer(p) /\ GetsDiffer(r)
          /\ \A k \in DOMAIN p : UserTransaction(p[k])
          /\ \A k \in DOMAIN r : SessionTransaction(r[k])
      BY DEF DomainInv, QueuesSound
    <3>2. ASSUME NEW x, UserTransaction(x) PROVE UserTransaction(x)'
      BY <3>2, <1>1, <2>3, <2>8 DEF UserTransaction
    <3>3. ASSUME NEW x, SessionTransaction(x) PROVE SessionTransaction(x)'
      BY <3>3, <1>1 DEF SessionTransaction
    <3>4. IsSequence(a) /\ GetsDiffer(a) /\ \A k \in DOMAIN a : UserTransaction(a[k])'
      <4>1. CASE a = p
        BY <4>1, <3>1, <3>2
      <4>2. CASE u \in DOMAIN m.users /\ a = Append(p, [put |-> <<u, m.users[u]>>])
        <5> PICK t : t = [put |-> <<u, m.users[u]>>]
          OBVIOUS
        <5>1. UserTransaction(t)' /\ D!IsPut(t)
          BY <4>2, <1>2, <2>3, <2>4 DEF UserTransaction, D!IsPut
        <5>2. IsSequence(a) /\ GetsDiffer(a)
          BY <4>2, <5>1, <3>1, GetsAppend, AddLast, SMTT(30)
        <5>3. \A k \in DOMAIN a : UserTransaction(a[k])'
          BY <4>2, <5>1, <3>1, <3>2, AddLast
        <5> QED BY <5>2, <5>3
      <4> QED BY <4>1, <4>2, <2>1
    <3>5. IsSequence(b) /\ GetsDiffer(b) /\ \A k \in DOMAIN b : SessionTransaction(b[k])'
      <4>1. CASE b = r
        BY <4>1, <3>1, <3>3
      <4>2. CASE b = Append(r, [put |-> <<s>>])
        <5> PICK t : t = [put |-> <<s>>]
          OBVIOUS
        <5>1. SessionTransaction(t)' /\ D!IsPut(t)
          BY <1>2 DEF SessionTransaction, D!IsPut
        <5>2. IsSequence(b) /\ GetsDiffer(b)
          BY <4>2, <5>1, <3>1, GetsAppend, AddLast
        <5>3. \A k \in DOMAIN b : SessionTransaction(b[k])'
          BY <4>2, <5>1, <3>1, <3>3, AddLast
        <5> QED BY <5>2, <5>3
      <4> QED BY <4>1, <4>2, <2>1
    <3>6. (\A k \in DOMAIN queues.users : UserTransaction(queues.users[k]))'
      BY <3>4, <2>3 DEF UserTransaction
    <3>7. (\A k \in DOMAIN queues.sessions : SessionTransaction(queues.sessions[k]))'
      BY <3>5, <2>3 DEF SessionTransaction
    <3>8. /\ queues' = [users |-> queues'.users, sessions |-> queues'.sessions]
          /\ IsSequence(queues'.users) /\ IsSequence(queues'.sessions)
          /\ GetsDiffer(queues'.users) /\ GetsDiffer(queues'.sessions)
      BY <2>2, <2>3, <3>4, <3>5
    <3> QED BY <3>6, <3>7, <3>8 DEF QueuesSound, IsSequence, GetsDiffer, D!IsPut
  <2>14. StoresSound'
    <3> SUFFICES ASSUME storage.open, ~deaf
                 PROVE  /\ \A t \in known'.sessions : SessionWillBeStored(t)'
                        /\ \A v \in User : known'.users[v] # D!Unknown => WillBeStored(v)'
      BY <1>1, <2>3 DEF StoresSound
    <3>1. storage.enabled /\ ~D!CannotStore
      BY <2>1 DEF DomainInv, InitsSound
    <3>2. /\ IsSequence(p) /\ IsSequence(r) /\ b = Append(r, [put |-> <<s>>])
          /\ a = IF u \in DOMAIN m.users THEN Append(p, [put |-> <<u, m.users[u]>>]) ELSE p
      BY <3>1, <2>1 DEF DomainInv, QueuesSound
    <3>3. ASSUME NEW t \in known'.sessions PROVE SessionWillBeStored(t)'
      <4>1. CASE t = s
        <5>1. Len(r) + 1 \in DOMAIN b /\ b[Len(r) + 1] = [put |-> <<s>>]
          BY <3>2, AddLast
        <5> QED BY <4>1, <5>1, <2>3 DEF SessionWillBeStored
      <4>2. CASE t \in known.sessions
        <5>1. t \in disk.sessions \/ \E k \in DOMAIN r : r[k] = [put |-> <<t>>]
          BY <4>2, <1>11 DEF DomainInv, StoresSound, SessionWillBeStored
        <5>2. \A k \in DOMAIN r : k \in DOMAIN b /\ b[k] = r[k]
          BY <3>2, AddLast, SMTT(30)
        <5> QED BY <5>1, <5>2, <1>1, <2>3 DEF SessionWillBeStored
      <4> QED BY <4>1, <4>2, <1>3
    <3>4. ASSUME NEW v \in User, known'.users[v] # D!Unknown PROVE WillBeStored(v)'
      <4>1. CASE v \in DOMAIN m.users
        <5>1. v = u /\ known'.users[v] = m.users[u] /\ u \in DOMAIN m.users
          BY <4>1, <1>2, <1>3 DEF NamesOnly, Merged
        <5>2. /\ Len(p) + 1 \in DOMAIN a /\ a[Len(p) + 1] = [put |-> <<v, known'.users[v]>>]
              /\ \A j \in DOMAIN a : ~(j > Len(p) + 1)
          <6>1. Len(p) \in Nat
            BY <3>2, SequenceIsFunction
          <6>2. /\ Len(p) + 1 \in DOMAIN a /\ a[Len(p) + 1] = [put |-> <<u, m.users[u]>>]
                /\ \A j \in DOMAIN a : j \in DOMAIN p \/ j = Len(p) + 1
                /\ \A j \in DOMAIN p : j \in Nat /\ j < Len(p) + 1
            <7>1. IsSequence(p) /\ a = Append(p, [put |-> <<u, m.users[u]>>])
              BY <3>2, <5>1
            <7> QED BY <7>1, AddLast
          <6> QED BY <5>1, <6>1, <6>2
        <5> QED BY <5>2, <2>3 DEF WillBeStored
      <4>2. CASE v \notin DOMAIN m.users
        <5>1. known'.users[v] = known.users[v] /\ WillBeStored(v)
          BY <4>2, <3>4, <1>3, <1>11 DEF Merged, DomainInv, StoresSound
        <5>2. /\ \A k \in DOMAIN p : k \in DOMAIN a /\ a[k] = p[k]
              /\ \A k \in DOMAIN a : k \in DOMAIN p \/ ~PutsUser(a[k], v)
          <6>1. CASE u \in DOMAIN m.users
            <7> PICK x : x = [put |-> <<u, m.users[u]>>]
              OBVIOUS
            <7>1. ~PutsUser(x, v) /\ a = Append(p, x)
              BY <4>2, <6>1, <3>2 DEF PutsUser
            <7>2. /\ \A k \in DOMAIN p : k \in DOMAIN a /\ a[k] = p[k]
                  /\ \A k \in DOMAIN a : k \in DOMAIN p \/ k = Len(p) + 1
                  /\ a[Len(p) + 1] = x
              <8>1. ASSUME NEW e
                    PROVE  /\ \A k \in DOMAIN p : k \in DOMAIN Append(p, e) /\ Append(p, e)[k] = p[k]
                           /\ \A k \in DOMAIN Append(p, e) : k \in DOMAIN p \/ k = Len(p) + 1
                           /\ Append(p, e)[Len(p) + 1] = e
                BY <3>2, AddLast
              <8> QED BY <7>1, <8>1
            <7> QED BY <7>1, <7>2, ZenonT(40)
          <6>2. CASE u \notin DOMAIN m.users
            BY <6>2, <3>2
          <6> QED BY <6>1, <6>2
        <5>3. CASE disk.users[v] = known.users[v] /\ \A k \in DOMAIN p : ~PutsUser(p[k], v)
          <6>1. \A k \in DOMAIN a : ~PutsUser(a[k], v)
            BY <5>2, <5>3
          <6> QED BY <5>1, <5>3, <6>1, <1>1, <2>3 DEF WillBeStored, PutsUser, D!IsPut
        <5>4. ASSUME NEW k \in DOMAIN p, p[k] = [put |-> <<v, known.users[v]>>],
                     \A j \in DOMAIN p : j > k => ~PutsUser(p[j], v)
              PROVE  WillBeStored(v)'
          <6>1. \A j \in DOMAIN a : j > k => ~PutsUser(a[j], v)
            BY <5>2, <5>4
          <6>2. k \in DOMAIN a /\ a[k] = [put |-> <<v, known'.users[v]>>]
            BY <5>1, <5>2, <5>4
          <6> QED BY <6>1, <6>2, <2>3 DEF WillBeStored, PutsUser, D!IsPut
        <5> QED BY <5>1, <5>3, <5>4 DEF WillBeStored
      <4> QED BY <4>1, <4>2
    <3> QED BY <3>3, <3>4
  <2> QED BY <1>5, <1>9, <2>7, <2>11, <2>12, <2>13, <2>14 DEF DomainInv
<1> QED BY <1>10, <1>11

(***************************************************************************)
(* The domain knows whose its sessions are                                 *)
(***************************************************************************)

\* Every step of the domain keeps the invariant,
LEMMA DomainStep == DomainInv /\ [D!Next]_domainVars => DomainInv'
<1> SUFFICES ASSUME DomainInv, [D!Next]_domainVars PROVE DomainInv'
  OBVIOUS
<1>1. CASE UNCHANGED domainVars
  <2>1. /\ domain' = domain /\ inits' = inits /\ storage' = storage /\ cache' = cache
        /\ disk' = disk /\ queues' = queues /\ server' = server /\ toClient' = toClient
        /\ known' = known /\ acts' = acts
    BY <1>1 DEF domainVars
  <2>2. DomainTypes' /\ MessagesSound' /\ InitsSound'
    BY <2>1 DEF DomainInv, DomainTypes, D!TypeOK, MessagesSound, InitsSound, IdentityMessage,
                WillKnow, Details, D!DomainUser
  <2> QED BY <2>1, <2>2, QuietStep DEF HasRead, D!UnderWay
<1>2. CASE D!InitializeOffline
  BY <1>2, InitializeOfflineSound
<1>3. CASE D!ConnectWith
  BY <1>3, ConnectWithSound
<1>4. CASE D!Connected
  BY <1>4, ConnectedSound
<1>5. CASE D!Reconnected
  BY <1>5, ReconnectedSound
<1>6. CASE D!Drop \/ D!Disconnect \/ D!Dispose
  BY <1>6, LoseSound DEF D!Drop, D!Disconnect, D!Dispose
<1>7. CASE D!Reload
  BY <1>7, ReloadSound
<1>8. CASE D!UserStored
  BY <1>8, UserStoredSound
<1>9. CASE D!SessionStored
  BY <1>9, SessionStoredSound
<1>10. CASE D!UsersRead
  BY <1>10, UsersReadSound
<1>11. CASE D!SessionsRead
  BY <1>11, SessionsReadSound
<1>12. CASE \E i \in DOMAIN inits : D!StoreOpens(i) \/ D!StoreFails(i) \/ D!ModelsRead(i)
  BY <1>12, StoreOpensSound, StoreFailsSound, ModelsReadSound
<1>13. CASE \E u \in User : D!DetailsChange(u)
  BY <1>13, DetailsChangeSound
<1>14. CASE \E s \in Session : D!ServerTells(s)
  BY <1>14, ServerTellsSound
<1>15. CASE D!Deliver
  BY <1>15, DeliverSound
<1> QED BY <1>1, <1>2, <1>3, <1>4, <1>5, <1>6, <1>7, <1>8, <1>9, <1>10, <1>11, <1>12, <1>13,
           <1>14, <1>15 DEF D!Next

\* which says what it should.
LEMMA DomainInvImplies == DomainInv => D!KnowsIdentities
<1> SUFFICES ASSUME DomainInv PROVE D!KnowsIdentities
  OBVIOUS
<1>1. D!TypeOK
  BY DEF DomainInv, DomainTypes
<1>2. D!CacheIsRight
  BY DEF DomainInv, CacheSound, KnownSound, KnowsSomething, D!CacheIsRight
<1>3. ASSUME storage.open, ~cache.deaf, queues = D!NoTransactions
      PROVE  /\ known.sessions \subseteq disk.sessions
             /\ \A u \in User : known.users[u] # D!Unknown => disk.users[u] = known.users[u]
  <2>1. queues.users = <<>> /\ queues.sessions = <<>>
    BY <1>3 DEF D!NoTransactions
  <2>2. DOMAIN queues.users = {} /\ DOMAIN queues.sessions = {}
    BY <2>1
  <2> QED BY <1>3, <2>2 DEF DomainInv, StoresSound, SessionWillBeStored, WillBeStored
<1>4. D!StoresWhatItWasTold
  BY <1>3 DEF D!StoresWhatItWasTold
<1> QED BY <1>1, <1>2, <1>4 DEF D!KnowsIdentities

\* The invariant, of the part that is explored
ClientDomainInv == component = "domain" => DomainInv

\* When the part checked is the domain, it starts
LEMMA ClientDomainStarts == ClientInit => ClientDomainInv
BY DomainStarts DEF ClientInit, ClientDomainInv

\* and goes on as Domain does.
LEMMA ClientDomainSteps == ClientDomainInv /\ [ClientNext]_clientVars => ClientDomainInv'
<1> SUFFICES ASSUME ClientDomainInv, [ClientNext]_clientVars, component' = "domain"
             PROVE  DomainInv'
  BY DEF ClientDomainInv
<1>1. component = "domain" /\ [D!Next]_domainVars
  BY DEF ClientNext, clientVars
<1> QED BY <1>1, DomainStep DEF ClientDomainInv

\* The domain knows whose every session is that it was told of, in memory and stored
\* (IdentityCache._processIdentityUpdate and init).
THEOREM DomainKnowsIdentities == ClientSpec => []KnowsIdentities
<1>1. ClientDomainInv => KnowsIdentities
  BY DomainInvImplies DEF ClientDomainInv, KnowsIdentities
<1> QED BY <1>1, ClientDomainStarts, ClientDomainSteps, PTL DEF ClientSpec
=============================================================================
