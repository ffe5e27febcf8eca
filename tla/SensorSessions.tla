--------------------------- MODULE SensorSessions ---------------------------
(***************************************************************************)
(* The session service of the daemon and the client library that uses it.  *)
(*                                                                         *)
(* Daemon: SensorManager (requestSensor, releaseSensor, lostClient,        *)
(* dbusClientUnregistered), SocketHandler (socketReadable,                 *)
(* socketDisconnected, removeSession) and the session part of              *)
(* AbstractSensorChannel (start, stop).  All handlers run on the main      *)
(* thread, each to its end.                                                *)
(*                                                                         *)
(* Clients: a client owns a D-Bus name and holds interfaces                *)
(* (AbstractSensorChannelInterface).  An interface waits for the reply of  *)
(* each D-Bus call it makes.  Its data socket is a second, independent     *)
(* channel: nothing orders a socket event with a D-Bus message.            *)
(***************************************************************************)
EXTENDS Integers, FiniteSets

CONSTANTS Clients,      \* owners of a D-Bus name
          Ifaces,       \* interface objects of the client library
          Owner,        \* the client an interface belongs to
          Sensors,
          SensorOf,     \* the sensor an interface is for
          MaxSessions,  \* bound on the session ids handed out
          MayFail,      \* TRUE: a sensor may turn out invalid when created
          MayTimeOut,   \* TRUE: the 10 s connection timer may beat a client
          StopFirst     \* TRUE: the applications stop() before they release

ASSUME OwnerAssumption == Owner \in [Ifaces -> Clients]
ASSUME SensorOfAssumption == SensorOf \in [Ifaces -> Sensors]
ASSUME MaxSessionsAssumption == MaxSessions \in Nat

Ids == 0 .. MaxSessions - 1
NoId == -1

VARIABLES
  \* SensorManager
  sessionIdCount, \* the next session id
  registered,     \* keys of sensorInstanceMap_
  instantiated,   \* those whose sensor_ exists
  sessions,       \* SensorInstanceEntry::sessions_, per sensor
  instances,      \* keys of sessionInstanceMap_
  clientOf,       \* SessionInstanceEntry::m_clientName
  timers,         \* sessions whose connection timer is running
  watched,        \* names watched by serviceWatcher_
  \* AbstractSensorChannel
  active,         \* activeSessions_, per sensor
  cnt,            \* cnt_, per sensor
  props,          \* sessions with a property request at the sensor
  \* SocketHandler
  idMap,          \* keys of m_idMap
  \* clients
  alive,
  sid,            \* session id of an interface
  running,        \* interfaces with m_running set
  call,           \* the D-Bus call an interface waits for
  linked,         \* sessions whose socket the client holds open
  \* in flight
  hello,          \* sockets with a session id written and not yet read
  hangup,         \* sockets closed by the client, not yet noticed
  gone            \* NameOwnerChanged signals under way to the daemon

managerVars == <<sessionIdCount, registered, instantiated, sessions, instances,
                 clientOf, timers, watched>>
sensorVars == <<active, cnt, props>>
clientVars == <<alive, sid, running, call, linked>>
flightVars == <<hello, hangup, gone>>
vars == <<managerVars, sensorVars, idMap, clientVars, flightVars>>

Calls == {"none", "requestSensor", "start", "stop", "setProperty", "releaseSensor"}

TypeOK ==
  /\ sessionIdCount \in 0 .. MaxSessions
  /\ instantiated \subseteq registered /\ registered \subseteq Sensors
  /\ sessions \in [Sensors -> SUBSET Ids]
  /\ instances \subseteq Ids /\ timers \subseteq instances
  /\ clientOf \in [Ids -> Clients \cup {NoId}]
  /\ watched \subseteq Clients
  /\ active \in [Sensors -> SUBSET Ids]
  /\ cnt \in [Sensors -> Nat]
  /\ props \in [Sensors -> SUBSET Ids]
  /\ idMap \subseteq Ids
  /\ alive \subseteq Clients /\ gone \subseteq Clients
  /\ sid \in [Ifaces -> Ids \cup {NoId}]
  /\ running \subseteq Ifaces
  /\ call \in [Ifaces -> Calls]
  /\ linked \subseteq Ids /\ hello \subseteq Ids /\ hangup \subseteq Ids

Init ==
  /\ sessionIdCount = 0
  /\ registered = Sensors /\ instantiated = {}
  /\ sessions = [q \in Sensors |-> {}]
  /\ instances = {} /\ timers = {} /\ watched = {}
  /\ clientOf = [s \in Ids |-> NoId]
  /\ active = [q \in Sensors |-> {}]
  /\ cnt = [q \in Sensors |-> 0]
  /\ props = [q \in Sensors |-> {}]
  /\ idMap = {}
  /\ alive = Clients
  /\ sid = [i \in Ifaces |-> NoId]
  /\ running = {}
  /\ call = [i \in Ifaces |-> "none"]
  /\ linked = {} /\ hello = {} /\ hangup = {} /\ gone = {}

-----------------------------------------------------------------------------
(* The client library. *)

idle(i) == Owner[i] \in alive /\ call[i] = "none"

\* An interface sends a call and waits for its reply.
send(i, method) == call' = [call EXCEPT ![i] = method]

\* SensorManagerInterface::interface(); at most MaxSessions sessions are asked for.
requestInterface(i) ==
  /\ idle(i) /\ sid[i] = NoId
  /\ sessionIdCount + Cardinality({j \in Ifaces : call[j] = "requestSensor"})
       < MaxSessions
  /\ send(i, "requestSensor")
  /\ UNCHANGED <<managerVars, sensorVars, idMap, alive, sid, running, linked, flightVars>>

\* SocketReader::initiateConnection(): connect and write the session id.
initiateConnection(i) ==
  /\ idle(i) /\ sid[i] # NoId /\ sid[i] \notin linked
  /\ linked' = linked \cup {sid[i]}
  /\ hello' = hello \cup {sid[i]}
  /\ UNCHANGED <<managerVars, sensorVars, idMap, alive, sid, running, call, hangup, gone>>

\* start() and stop() of the interface do nothing when repeated.
clientStart(i) ==
  /\ idle(i) /\ sid[i] \in linked /\ i \notin running
  /\ running' = running \cup {i}
  /\ send(i, "start")
  /\ UNCHANGED <<managerVars, sensorVars, idMap, alive, sid, linked, flightVars>>

clientStop(i) ==
  /\ idle(i) /\ i \in running
  /\ running' = running \ {i}
  /\ send(i, "stop")
  /\ UNCHANGED <<managerVars, sensorVars, idMap, alive, sid, linked, flightVars>>

\* setStandbyOverride() and setDownsampling() are sent by a stopped interface too.
clientSetProperty(i) ==
  /\ idle(i) /\ sid[i] \in linked
  /\ send(i, "setProperty")
  /\ UNCHANGED <<managerVars, sensorVars, idMap, alive, sid, running, linked, flightVars>>

\* The destructor of the interface: it does not stop the sensor.
clientRelease(i) ==
  /\ idle(i) /\ sid[i] \in linked
  /\ StopFirst => i \notin running
  /\ send(i, "releaseSensor")
  /\ UNCHANGED <<managerVars, sensorVars, idMap, alive, sid, running, linked, flightVars>>

\* A client exits or crashes: its sockets close, its calls stay under way and
\* the bus tells the daemon if the daemon watches the name.
clientDies(c) ==
  LET own == {s \in linked : \E i \in Ifaces : Owner[i] = c /\ sid[i] = s}
  IN  /\ c \in alive
      /\ alive' = alive \ {c}
      /\ linked' = linked \ own
      /\ hangup' = hangup \cup own
      /\ gone' = gone \cup ({c} \cap watched)
      /\ UNCHANGED <<managerVars, sensorVars, idMap, sid, running, call, hello>>

-----------------------------------------------------------------------------
(* The daemon. *)

\* A handler answers the call it was entered for.
reply(i) == call' = [call EXCEPT ![i] = "none"]

\* SensorManager::requestSensor(): the id is used up before the sensor is
\* created, and a sensor that proves invalid is removed from the registry.
requestUnknown(i) ==
  /\ SensorOf[i] \notin registered
  /\ UNCHANGED <<managerVars, sid>>

requestFails(i) ==
  /\ MayFail /\ SensorOf[i] \in registered \ instantiated
  /\ sessionIdCount' = sessionIdCount + 1
  /\ registered' = registered \ {SensorOf[i]}
  /\ UNCHANGED <<instantiated, sessions, instances, clientOf, timers, watched, sid>>

\* Mutant: the lowest id not in use is handed out again.
requestGranted_Reuses(i) ==
  LET s == CHOOSE t \in Ids \ instances :
             \A r \in Ids \ instances : t <= r
  IN  /\ SensorOf[i] \in registered
      /\ sessionIdCount' = sessionIdCount + 1
      /\ instantiated' = instantiated \cup {SensorOf[i]}
      /\ sessions' = [sessions EXCEPT ![SensorOf[i]] = @ \cup {s}]
      /\ instances' = instances \cup {s}
      /\ clientOf' = [clientOf EXCEPT ![s] = Owner[i]]
      /\ timers' = timers \cup {s}
      /\ watched' = watched \cup {Owner[i]}
      /\ sid' = [sid EXCEPT ![i] = s]
      /\ UNCHANGED registered

requestGranted(i) ==
  /\ SensorOf[i] \in registered
  /\ sessionIdCount' = sessionIdCount + 1
  /\ instantiated' = instantiated \cup {SensorOf[i]}
  /\ sessions' = [sessions EXCEPT ![SensorOf[i]] = @ \cup {sessionIdCount}]
  /\ instances' = instances \cup {sessionIdCount}
  /\ clientOf' = [clientOf EXCEPT ![sessionIdCount] = Owner[i]]
  /\ timers' = timers \cup {sessionIdCount}
  /\ watched' = watched \cup {Owner[i]}
  /\ sid' = [sid EXCEPT ![i] = sessionIdCount]
  /\ UNCHANGED registered

requestSensor(i) ==
  /\ call[i] = "requestSensor"
  /\ requestUnknown(i) \/ requestFails(i) \/ requestGranted(i)
  /\ reply(i)
  /\ UNCHANGED <<sensorVars, idMap, alive, running, linked, flightVars>>

\* AbstractSensorChannel::start(int): no check that the session is open.
start(i) ==
  LET q == SensorOf[i]
  IN  /\ call[i] = "start"
      /\ active' = [active EXCEPT ![q] = @ \cup {sid[i]}]
      /\ cnt' = [cnt EXCEPT ![q] = IF sid[i] \in active[q] THEN @ ELSE @ + 1]
      /\ props' = [props EXCEPT ![q] = @ \cup {sid[i]}]
      /\ reply(i)
      /\ UNCHANGED <<managerVars, idMap, alive, sid, running, linked, flightVars>>

\* Mutant: stop() is counted for sessions that were not active.
stopSessions_Inactive(S) ==
  LET left(q) == cnt[q] - Cardinality(sessions[q] \cap S)
  IN  /\ active' = [q \in Sensors |-> active[q] \ S]
      /\ cnt' = [q \in Sensors |-> IF left(q) < 0 THEN 0 ELSE left(q)]

\* AbstractSensorChannel::stop(int) for the sessions in S, and stop() below
\* it, whose count never falls under zero.
stopSessions(S) ==
  LET stopped(q) == active[q] \cap S
      left(q) == cnt[q] - Cardinality(stopped(q))
  IN  /\ active' = [q \in Sensors |-> active[q] \ S]
      /\ cnt' = [q \in Sensors |-> IF left(q) < 0 THEN 0 ELSE left(q)]

stop(i) ==
  /\ call[i] = "stop"
  /\ stopSessions({sid[i]})
  /\ props' = [q \in Sensors |-> props[q] \ (active[q] \cap {sid[i]})]
  /\ reply(i)
  /\ UNCHANGED <<managerVars, idMap, alive, sid, running, linked, flightVars>>

\* setDataRate(), setStandbyOverride(), ...: stored at the sensor by session id.
setProperty(i) ==
  /\ call[i] = "setProperty"
  /\ props' = [props EXCEPT ![SensorOf[i]] = @ \cup {sid[i]}]
  /\ reply(i)
  /\ UNCHANGED <<managerVars, active, cnt, idMap, alive, sid, running, linked, flightVars>>

\* Mutant: removeSession() is not called on the sensor.
releaseSessions_KeepsProps(S) ==
  /\ UNCHANGED props
  /\ sessions' = [q \in Sensors |-> sessions[q] \ S]
  /\ instances' = instances \ S
  /\ timers' = timers \ S
  /\ idMap' = idMap \ S

\* SensorManager::releaseSensor() for the open sessions in S: properties,
\* session, instance with its timer, and the socket session.
releaseSessions(S) ==
  /\ props' = [q \in Sensors |-> props[q] \ S]
  /\ sessions' = [q \in Sensors |-> sessions[q] \ S]
  /\ instances' = instances \ S
  /\ timers' = timers \ S
  /\ idMap' = idMap \ S

\* Mutant: the name is unwatched with any of its sessions.
releaseOwned_Unwatches(i) ==
  /\ sid[i] \in instances /\ clientOf[sid[i]] = Owner[i]
  /\ releaseSessions({sid[i]})
  /\ watched' = watched \ {Owner[i]}

\* releaseSensor() called over D-Bus: only the owner's call is served, and the
\* client's name is no longer watched after its last session.  The interface
\* then drops its connection and is gone.
releaseOwned(i) ==
  /\ sid[i] \in instances /\ clientOf[sid[i]] = Owner[i]
  /\ releaseSessions({sid[i]})
  /\ watched' = IF \E s \in instances' : clientOf[s] = Owner[i]
                THEN watched ELSE watched \ {Owner[i]}

releaseIgnored(i) ==
  /\ sid[i] \notin instances \/ clientOf[sid[i]] # Owner[i]
  /\ UNCHANGED <<props, sessions, instances, timers, idMap, watched>>

releaseSensor(i) ==
  /\ call[i] = "releaseSensor"
  /\ releaseOwned(i) \/ releaseIgnored(i)
  /\ reply(i)
  /\ sid' = [sid EXCEPT ![i] = NoId]
  /\ running' = running \ {i}
  /\ linked' = linked \ {sid[i]}
  /\ hangup' = hangup \cup ({sid[i]} \cap linked)
  /\ UNCHANGED <<sessionIdCount, registered, instantiated, clientOf, active, cnt,
                 alive, hello, gone>>

\* SensorManager::lostClient() for each session of S: stop and release those
\* that some sensor still has, and do nothing about the others.
lostClients(S) ==
  LET found == S \cap UNION {sessions[q] : q \in Sensors}
  IN  /\ stopSessions(found)
      /\ releaseSessions(found)
      /\ UNCHANGED <<sessionIdCount, registered, instantiated, clientOf, watched>>

\* SocketHandler::socketReadable(): the session id arrives.
socketReadable(s) ==
  /\ s \in hello
  /\ hello' = hello \ {s}
  /\ idMap' = idMap \cup {s}
  /\ UNCHANGED <<managerVars, sensorVars, clientVars, hangup, gone>>

\* SocketHandler::socketDisconnected(): a session is lost only if the socket
\* is the one in m_idMap.
socketDisconnected(s) ==
  /\ s \in hangup \ hello
  /\ hangup' = hangup \ {s}
  /\ lostClients({s} \cap idMap)
  /\ UNCHANGED <<clientVars, hello, gone>>

\* Mutant: the timer runs out without a check of the connection.
timerTimeout_Unchecked(s) ==
  /\ s \in timers
  /\ timers' = timers \ {s}
  /\ UNCHANGED <<sessionIdCount, registered, instantiated, sessions, instances,
                 clientOf, watched, sensorVars, idMap, clientVars, flightVars>>

\* SessionInstanceEntry::timerTimeout(): connectedSession() is never emitted,
\* so every timer runs out and checkConnectionEstablished() decides.  Without
\* MayTimeOut the 10 s are longer than anything a client has under way.
timerTimeout(s) ==
  /\ s \in timers
  /\ \/ MayTimeOut
     \/ s \in idMap
     \/ /\ clientOf[s] \notin alive /\ s \notin hello
        /\ \A i \in Ifaces : Owner[i] = clientOf[s] => call[i] = "none"
  /\ IF s \in idMap
     THEN /\ timers' = timers \ {s}
          /\ UNCHANGED <<sessionIdCount, registered, instantiated, sessions, instances,
                         clientOf, watched, sensorVars, idMap>>
     ELSE lostClients({s})
  /\ UNCHANGED <<clientVars, flightVars>>

\* Mutant: the sessions are not filtered by the client's name.
dbusClientUnregistered_All(c) ==
  /\ c \in gone
  /\ gone' = gone \ {c}
  /\ lostClients(instances)
  /\ UNCHANGED <<clientVars, hello, hangup>>

\* SensorManager::dbusClientUnregistered(): the bus delivers a client's last
\* calls before it tells of the client's end.
dbusClientUnregistered(c) ==
  /\ c \in gone /\ \A i \in Ifaces : Owner[i] = c => call[i] = "none"
  /\ gone' = gone \ {c}
  /\ lostClients({s \in instances : clientOf[s] = c})
  /\ UNCHANGED <<clientVars, hello, hangup>>

Daemon ==
  \/ \E i \in Ifaces : \/ requestSensor(i) \/ start(i) \/ stop(i)
                       \/ setProperty(i) \/ releaseSensor(i)
  \/ \E s \in Ids : socketReadable(s) \/ socketDisconnected(s) \/ timerTimeout(s)
  \/ \E c \in Clients : dbusClientUnregistered(c)

Client ==
  \/ \E i \in Ifaces : \/ requestInterface(i) \/ initiateConnection(i)
                       \/ clientStart(i) \/ clientStop(i)
                       \/ clientSetProperty(i) \/ clientRelease(i)
  \/ \E c \in Clients : clientDies(c)

Next == Daemon \/ Client

Spec == Init /\ [][Next]_vars

\* The event loop of the daemon serves every call, socket event, timer and bus
\* signal; nothing obliges a client to do anything.
Fairness ==
  /\ \A i \in Ifaces : /\ WF_vars(requestSensor(i)) /\ WF_vars(start(i))
                       /\ WF_vars(stop(i)) /\ WF_vars(setProperty(i))
                       /\ WF_vars(releaseSensor(i))
  /\ \A s \in Ids : /\ WF_vars(socketReadable(s)) /\ WF_vars(socketDisconnected(s))
                    /\ WF_vars(timerTimeout(s))
  /\ \A c \in Clients : WF_vars(dbusClientUnregistered(c))

FairSpec == Spec /\ Fairness

-----------------------------------------------------------------------------
open == UNION {sessions[q] : q \in Sensors}

\* A session is one thing kept in three places: it is in sessions_ of exactly
\* one sensor and in sessionInstanceMap_, and the name of its client is watched,
\* whichever way other sessions came and went.
SessionsAgree ==
  /\ instances = open
  /\ \A p, q \in Sensors : p # q => sessions[p] \cap sessions[q] = {}
  /\ \A s \in instances : s < sessionIdCount /\ clientOf[s] \in watched

\* cnt_ counts the active sessions: no order of start, stop and lost clients
\* makes it drift, so the sensor is stopped exactly at its last session.
CountIsActive == \A q \in Sensors : cnt[q] = Cardinality(active[q])

\* Two interfaces of live clients never hold the same session, nor does one hold the session
\* of another client.
SessionsPrivate ==
  \A i, j \in {k \in Ifaces : Owner[k] \in alive} : sid[i] # NoId =>
    /\ clientOf[sid[i]] = Owner[i]
    /\ sid[i] = sid[j] => i = j

\* An interface of a live client that has started its sensor and waits for no
\* reply is served: no other client's stop, release, crash or timeout stops it.
\* (For clients that connect in time.)
StartedIsActive ==
  \A i \in running : idle(i) =>
    sid[i] \in active[SensorOf[i]] \cap sessions[SensorOf[i]] \cap props[SensorOf[i]]

\* What the daemon keeps for a live client's session, it keeps for an open
\* session: the sensor's active set, its property requests and the socket map
\* hold no session that was closed.  (For applications that stop before they
\* release and connect in time.)
NothingLeftBehind ==
  \A q \in Sensors : \A s \in active[q] \cup props[q] :
    clientOf[s] \in alive => s \in open

\* A session of a client that is gone is closed, by the socket, the bus signal
\* or the connection timer, whichever the client's last moment left to the
\* daemon.
DeadClientsReleased ==
  \A s \in Ids : (s \in instances /\ clientOf[s] \notin alive) ~> (s \notin instances)

\* core/abstractsensor.h:88-89: a sensor is running if there are any open
\* sessions for it.
RunningHasSession == \A q \in Sensors : cnt[q] > 0 => sessions[q] # {}

\* The registry of sessions is what this service promises its clients.
Registry == INSTANCE SessionRegistry
              WITH granted <- sessionIdCount, owner <- [s \in open |-> clientOf[s]]
ImplementsRegistry == Registry!Spec

=============================================================================
