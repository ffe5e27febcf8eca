------------------------ MODULE SensorSessions_proofs -----------------------
(***************************************************************************)
(* The sessions of any number of clients, interfaces and sensors: the      *)
(* records of a session agree, ids are private, a sensor counts its active *)
(* sessions, and the service implements SessionRegistry, whatever D-Bus    *)
(* calls, socket events, timers and bus signals come in between.           *)
(* If no client is beaten by the connection timer, a live client's started *)
(* session stays active whatever the others do; and if applications stop   *)
(* before they release, a closed session leaves nothing behind.            *)
(***************************************************************************)
EXTENDS SensorSessions, FiniteSetTheorems, TLAPS

Pending == {j \in Ifaces : call[j] = "requestSensor"}

\* The requests under way leave room for the ids they will be given.
PendingInv ==
  IsFiniteSet(Pending) /\ sessionIdCount + Cardinality(Pending) <= MaxSessions

\* A call is under way for an interface that has a session, or asks for one.
CallInv ==
  \A i \in Ifaces :
    /\ call[i] = "requestSensor" => sid[i] = NoId
    /\ call[i] \in {"start", "stop", "setProperty", "releaseSensor"} => sid[i] # NoId

\* Only an interface that has a session is running.
RunInv == \A i \in running : sid[i] # NoId

\* An interface's id was given to it by the daemon, and to it alone.
IdInv ==
  /\ \A i \in Ifaces : sid[i] # NoId =>
       sid[i] < sessionIdCount /\ clientOf[sid[i]] = Owner[i]
  /\ \A i, j \in Ifaces : sid[i] # NoId /\ sid[i] = sid[j] => i = j

IInv == TypeOK /\ PendingInv /\ CallInv /\ RunInv /\ IdInv /\ SessionsAgree /\ CountIsActive

LEMMA IdsAreNumbers ==
  /\ IsFiniteSet(Ids) /\ NoId \notin Ids
  /\ \A s \in Ids : s \in Nat /\ s < MaxSessions
<1>1. MaxSessions - 1 \in Int /\ 0 \in Int
  BY MaxSessionsAssumption
<1>2. IsFiniteSet(0 .. MaxSessions - 1)
  <2>1. \A b \in Int : IsFiniteSet(0 .. b)
    BY FS_Interval
  <2> QED
    BY <1>1, <2>1
<1> QED
  BY <1>2, MaxSessionsAssumption DEF Ids, NoId

LEMMA InitInv == Init => IInv
<1> SUFFICES ASSUME Init PROVE IInv
  OBVIOUS
<1> USE DEF Init
<1>1. TypeOK
  BY MaxSessionsAssumption DEF TypeOK, Calls
<1>2. PendingInv
  <2>1. Pending = {}
    BY DEF Pending
  <2> QED
    BY <2>1, FS_EmptySet, MaxSessionsAssumption DEF PendingInv
<1>3. CallInv /\ RunInv /\ IdInv
  BY DEF CallInv, RunInv, IdInv
<1>4. SessionsAgree
  BY DEF SessionsAgree, open
<1>5. CountIsActive
  BY FS_EmptySet DEF CountIsActive
<1> QED
  BY <1>1, <1>2, <1>3, <1>4, <1>5 DEF IInv

-----------------------------------------------------------------------------
(* What the helpers of the daemon's handlers do. *)

\* A reply ends a call, and the requests under way are no more than before.
LEMMA ReplyStep ==
  ASSUME TypeOK, PendingInv, CallInv, NEW i \in Ifaces, reply(i),
         \/ sid' = sid
         \/ \E s \in Ids : sid' = [sid EXCEPT ![i] = s]
         \/ sid' = [sid EXCEPT ![i] = NoId],
         sessionIdCount' \in Nat,
         \/ sessionIdCount' = sessionIdCount
         \/ sessionIdCount' = sessionIdCount + 1 /\ call[i] = "requestSensor"
  PROVE  call' \in [Ifaces -> Calls] /\ PendingInv' /\ CallInv'
<1>1. call' = [call EXCEPT ![i] = "none"] /\ call \in [Ifaces -> Calls] /\ sid \in [Ifaces -> Ids \cup {NoId}]
  BY DEF reply, TypeOK
<1>2. call' \in [Ifaces -> Calls]
  BY <1>1 DEF Calls
<1>3. Pending' = Pending \ {i}
  BY <1>1 DEF Pending
<1>4. /\ IsFiniteSet(Pending) /\ Cardinality(Pending) \in Nat
      /\ IsFiniteSet(Pending \ {i})
      /\ Cardinality(Pending \ {i}) = IF i \in Pending THEN Cardinality(Pending) - 1
                                                      ELSE Cardinality(Pending)
  BY FS_CardinalityType, FS_RemoveElement DEF PendingInv
<1>5. PendingInv'
  <2>1. sessionIdCount + Cardinality(Pending) <= MaxSessions /\ sessionIdCount \in Nat
    BY MaxSessionsAssumption DEF PendingInv, TypeOK
  <2>2. CASE sessionIdCount' = sessionIdCount
    BY <1>3, <1>4, <2>1, <2>2, MaxSessionsAssumption DEF PendingInv
  <2>3. CASE sessionIdCount' = sessionIdCount + 1 /\ i \in Pending
    BY <1>3, <1>4, <2>1, <2>3, MaxSessionsAssumption DEF PendingInv
  <2> QED
    BY <2>2, <2>3 DEF Pending
<1>6. CallInv'
  <2> SUFFICES ASSUME NEW j \in Ifaces
               PROVE  /\ call'[j] = "requestSensor" => sid'[j] = NoId
                      /\ call'[j] \in {"start", "stop", "setProperty", "releaseSensor"}
                           => sid'[j] # NoId
    BY DEF CallInv
  <2>1. CASE j = i
    BY <1>1, <2>1
  <2>2. CASE j # i
    BY <1>1, <2>2 DEF CallInv
  <2> QED
    BY <2>1, <2>2
<1> QED
  BY <1>2, <1>5, <1>6

\* stopSessions(): the count follows the active sessions.
LEMMA StopCounts ==
  ASSUME TypeOK, CountIsActive, NEW S, stopSessions(S)
  PROVE  /\ active' \in [Sensors -> SUBSET Ids] /\ cnt' \in [Sensors -> Nat]
         /\ CountIsActive'
<1>1. active' = [q \in Sensors |-> active[q] \ S] /\ active \in [Sensors -> SUBSET Ids]
  BY DEF stopSessions, TypeOK
<1>2. ASSUME NEW q \in Sensors
      PROVE  cnt'[q] = Cardinality(active[q] \ S) /\ cnt'[q] \in Nat
  <2>1. IsFiniteSet(active[q])
    BY <1>1, IdsAreNumbers, FS_Subset
  <2>2. /\ Cardinality(active[q] \ S) = Cardinality(active[q]) - Cardinality(active[q] \cap S)
        /\ IsFiniteSet(active[q] \ S)
    BY <2>1, FS_Difference
  <2>3. Cardinality(active[q] \ S) \in Nat
    BY <2>2, FS_CardinalityType
  <2>4. cnt[q] = Cardinality(active[q])
    BY DEF CountIsActive
  <2>5. cnt'[q] = IF cnt[q] - Cardinality(active[q] \cap S) < 0 THEN 0
                  ELSE cnt[q] - Cardinality(active[q] \cap S)
    BY DEF stopSessions
  <2> QED
    BY <2>2, <2>3, <2>4, <2>5
<1>3. cnt' = [q \in Sensors |-> cnt'[q]]
  BY DEF stopSessions
<1> QED
  BY <1>1, <1>2, <1>3 DEF CountIsActive

\* releaseSessions(): sessions and instances go together.
LEMMA ReleaseAgrees ==
  ASSUME TypeOK, SessionsAgree, NEW S, releaseSessions(S),
         UNCHANGED <<sessionIdCount, clientOf>>,
         \A s \in instances \ S : clientOf[s] \in watched'
  PROVE  /\ SessionsAgree'
         /\ props' \in [Sensors -> SUBSET Ids] /\ sessions' \in [Sensors -> SUBSET Ids]
         /\ instances' \subseteq Ids /\ timers' \subseteq instances' /\ idMap' \subseteq Ids
<1>1. /\ sessions' = [q \in Sensors |-> sessions[q] \ S] /\ instances' = instances \ S
      /\ props' = [q \in Sensors |-> props[q] \ S] /\ timers' = timers \ S /\ idMap' = idMap \ S
  BY DEF releaseSessions
<1>2. open' = open \ S
  BY <1>1 DEF open
<1>3. SessionsAgree'
  BY <1>1, <1>2 DEF SessionsAgree
<1> QED
  BY <1>1, <1>3 DEF TypeOK

LEMMA LostStep ==
  ASSUME TypeOK, SessionsAgree, CountIsActive, NEW S, lostClients(S)
  PROVE  /\ SessionsAgree' /\ CountIsActive'
         /\ active' \in [Sensors -> SUBSET Ids] /\ cnt' \in [Sensors -> Nat]
         /\ props' \in [Sensors -> SUBSET Ids] /\ sessions' \in [Sensors -> SUBSET Ids]
         /\ instances' \subseteq Ids /\ timers' \subseteq instances' /\ idMap' \subseteq Ids
         /\ UNCHANGED <<sessionIdCount, registered, instantiated, clientOf, watched>>
<1> DEFINE found == S \cap UNION {sessions[q] : q \in Sensors}
<1>1. /\ stopSessions(found) /\ releaseSessions(found)
      /\ UNCHANGED <<sessionIdCount, registered, instantiated, clientOf, watched>>
  BY DEF lostClients
<1> HIDE DEF found
<1>2. \A s \in instances \ found : clientOf[s] \in watched'
  BY <1>1 DEF SessionsAgree
<1> QED
  BY <1>1, <1>2, StopCounts, ReleaseAgrees

\* Ids stay as they were.
LEMMA IdsKept ==
  ASSUME IdInv, UNCHANGED <<sessionIdCount, clientOf, sid>>
  PROVE  IdInv'
BY DEF IdInv

LEMMA RecordsKept ==
  ASSUME SessionsAgree, UNCHANGED <<sessionIdCount, sessions, instances, clientOf, watched>>
  PROVE  SessionsAgree'
BY DEF SessionsAgree, open

LEMMA CountKept ==
  ASSUME CountIsActive, UNCHANGED <<active, cnt>>
  PROVE  CountIsActive'
BY DEF CountIsActive

-----------------------------------------------------------------------------
(* The client's steps. *)

\* A client sends a call other than a request.
LEMMA SendStep ==
  ASSUME TypeOK, PendingInv, CallInv, NEW i \in Ifaces, call[i] = "none", sid[i] # NoId,
         NEW m \in {"start", "stop", "setProperty", "releaseSensor"}, send(i, m),
         UNCHANGED <<sid, sessionIdCount>>
  PROVE  call' \in [Ifaces -> Calls] /\ PendingInv' /\ CallInv'
<1>1. call' = [call EXCEPT ![i] = m] /\ call \in [Ifaces -> Calls]
  BY DEF send, TypeOK
<1>2. Pending' = Pending
  BY <1>1 DEF Pending
<1>3. PendingInv'
  BY <1>2 DEF PendingInv
<1>4. CallInv'
  BY <1>1 DEF CallInv
<1> QED
  BY <1>1, <1>3, <1>4 DEF Calls

LEMMA requestInterfaceStep ==
  ASSUME IInv, NEW i \in Ifaces, requestInterface(i)
  PROVE  IInv'
<1>1. /\ call' = [call EXCEPT ![i] = "requestSensor"] /\ call \in [Ifaces -> Calls]
      /\ call[i] = "none" /\ sid[i] = NoId
      /\ sessionIdCount + Cardinality(Pending) < MaxSessions
      /\ UNCHANGED <<managerVars, sensorVars, idMap, alive, sid, running, linked, flightVars>>
  BY DEF requestInterface, send, idle, Pending, IInv, TypeOK
<1>2. Pending' = Pending \cup {i} /\ i \notin Pending
  BY <1>1 DEF Pending
<1>3. PendingInv'
  <2>1. IsFiniteSet(Pending) /\ Cardinality(Pending) \in Nat
    BY FS_CardinalityType DEF IInv, PendingInv
  <2>2. /\ IsFiniteSet(Pending \cup {i})
        /\ Cardinality(Pending \cup {i}) = Cardinality(Pending) + 1
    BY <1>2, <2>1, FS_AddElement
  <2>3. sessionIdCount' = sessionIdCount /\ sessionIdCount \in Nat
    BY <1>1, MaxSessionsAssumption DEF managerVars, IInv, TypeOK
  <2> QED
    BY <1>1, <1>2, <2>1, <2>2, <2>3, MaxSessionsAssumption DEF PendingInv
<1>4. CallInv'
  BY <1>1 DEF IInv, CallInv
<1>5. TypeOK'
  BY <1>1 DEF IInv, TypeOK, Calls, managerVars, sensorVars, flightVars
<1>6. IdInv' /\ SessionsAgree' /\ CountIsActive'
  BY <1>1, IdsKept, RecordsKept, CountKept DEF IInv, managerVars, sensorVars
<1>7. RunInv'
  BY <1>1 DEF IInv, RunInv
<1> QED
  BY <1>3, <1>4, <1>5, <1>6, <1>7 DEF IInv

LEMMA SendersStep ==
  ASSUME IInv, NEW i \in Ifaces,
         \/ clientStart(i) \/ clientStop(i) \/ clientSetProperty(i) \/ clientRelease(i)
  PROVE  IInv'
<1>0. sid[i] # NoId
  BY IdsAreNumbers DEF clientStart, clientStop, clientSetProperty, clientRelease,
                       IInv, TypeOK, RunInv
<1>1. PICK m \in {"start", "stop", "setProperty", "releaseSensor"} : send(i, m)
  BY DEF clientStart, clientStop, clientSetProperty, clientRelease
<1>2. /\ call[i] = "none" /\ running' \subseteq Ifaces
      /\ UNCHANGED <<managerVars, sensorVars, idMap, alive, sid, linked, flightVars>>
  BY DEF clientStart, clientStop, clientSetProperty, clientRelease, idle, IInv, TypeOK
<1>3. call' \in [Ifaces -> Calls] /\ PendingInv' /\ CallInv'
  BY <1>0, <1>1, <1>2, SendStep DEF IInv, managerVars
<1>4. TypeOK'
  BY <1>2, <1>3 DEF IInv, TypeOK, managerVars, sensorVars, flightVars
<1>5. IdInv' /\ SessionsAgree' /\ CountIsActive'
  BY <1>2, IdsKept, RecordsKept, CountKept DEF IInv, managerVars, sensorVars
<1>6. RunInv'
  <2>1. running' \subseteq running \cup {i}
    BY DEF clientStart, clientStop, clientSetProperty, clientRelease
  <2> QED
    BY <1>0, <1>2, <2>1 DEF IInv, RunInv
<1> QED
  BY <1>3, <1>4, <1>5, <1>6 DEF IInv

\* Steps that touch neither a session nor a call.
LEMMA QuietStep ==
  ASSUME IInv, TypeOK',
         UNCHANGED <<managerVars, active, cnt, call, sid, running>>
  PROVE  IInv'
<1>1. PendingInv' /\ CallInv' /\ RunInv'
  BY DEF IInv, PendingInv, CallInv, RunInv, Pending, managerVars
<1>2. IdInv' /\ SessionsAgree' /\ CountIsActive'
  BY IdsKept, RecordsKept, CountKept DEF IInv, managerVars
<1> QED
  BY <1>1, <1>2 DEF IInv

LEMMA initiateConnectionStep ==
  ASSUME IInv, NEW i \in Ifaces, initiateConnection(i)
  PROVE  IInv'
<1>1. TypeOK'
  BY DEF initiateConnection, IInv, TypeOK, managerVars, sensorVars
<1> QED
  BY <1>1, QuietStep DEF initiateConnection, sensorVars

LEMMA clientDiesStep ==
  ASSUME IInv, NEW c \in Clients, clientDies(c)
  PROVE  IInv'
<1>1. TypeOK'
  BY DEF clientDies, IInv, TypeOK, managerVars, sensorVars
<1> QED
  BY <1>1, QuietStep DEF clientDies, sensorVars

-----------------------------------------------------------------------------
(* The daemon's steps. *)

\* An interface that is being answered has an id, unless it asked for one.
LEMMA AnsweredHasId ==
  ASSUME IInv, NEW i \in Ifaces,
         call[i] \in {"start", "stop", "setProperty", "releaseSensor"}
  PROVE  sid[i] \in Ids
BY DEF IInv, TypeOK, CallInv

\* A request that is being answered finds an id left, one nobody has.
LEMMA RequestHasRoom ==
  ASSUME IInv, NEW i \in Ifaces, call[i] = "requestSensor"
  PROVE  /\ sessionIdCount \in Ids /\ sessionIdCount + 1 \in 0 .. MaxSessions
         /\ sessionIdCount \in Nat
         /\ sessionIdCount \notin instances /\ \A j \in Ifaces : sid[j] # sessionIdCount
         /\ \A q \in Sensors : sessionIdCount \notin sessions[q]
<1>1. sessionIdCount \in Nat /\ sessionIdCount + Cardinality(Pending) <= MaxSessions
  BY MaxSessionsAssumption DEF IInv, TypeOK, PendingInv
<1>2. Cardinality(Pending) \in Nat /\ Cardinality(Pending) # 0
  BY FS_CardinalityType, FS_EmptySet DEF IInv, PendingInv, Pending
<1>3. sessionIdCount < MaxSessions
  BY <1>1, <1>2, MaxSessionsAssumption
<1>4. \A s \in instances : s < sessionIdCount /\ s \in Nat
  BY IdsAreNumbers DEF IInv, SessionsAgree, TypeOK
<1>5. sessionIdCount \notin instances
  BY <1>1, <1>4
<1>6. \A j \in Ifaces : sid[j] # sessionIdCount
  BY <1>1, IdsAreNumbers DEF IInv, IdInv, TypeOK, NoId
<1>7. \A q \in Sensors : sessionIdCount \notin sessions[q]
  BY <1>5 DEF IInv, SessionsAgree, open
<1> QED
  BY <1>1, <1>3, <1>5, <1>6, <1>7, MaxSessionsAssumption DEF Ids

\* SensorManager::requestSensor(), granted: the new session enters every record.
LEMMA requestGrantedStep ==
  ASSUME IInv, NEW i \in Ifaces, requestSensor(i), requestGranted(i)
  PROVE  IInv'
<1> DEFINE n == sessionIdCount
           s == SensorOf[i]
<1>1. /\ n \in Ids /\ n + 1 \in 0 .. MaxSessions /\ n \in Nat /\ n \notin instances
      /\ \A j \in Ifaces : sid[j] # n
      /\ call[i] = "requestSensor" /\ s \in Sensors /\ Owner[i] \in Clients
  BY RequestHasRoom, OwnerAssumption, SensorOfAssumption DEF requestSensor
<1>2. /\ s \in registered
      /\ sessionIdCount' = n + 1
      /\ instantiated' = instantiated \cup {s}
      /\ sessions' = [sessions EXCEPT ![s] = @ \cup {n}]
      /\ instances' = instances \cup {n}
      /\ clientOf' = [clientOf EXCEPT ![n] = Owner[i]]
      /\ timers' = timers \cup {n}
      /\ watched' = watched \cup {Owner[i]}
      /\ sid' = [sid EXCEPT ![i] = n]
      /\ UNCHANGED registered
      /\ reply(i)
      /\ UNCHANGED <<sensorVars, idMap, alive, running, linked, flightVars>>
  BY DEF requestSensor, requestGranted
<1>3. call' \in [Ifaces -> Calls] /\ PendingInv' /\ CallInv'
  <2>1. sessionIdCount' \in Nat /\ sessionIdCount' = sessionIdCount + 1
    BY <1>1, <1>2
  <2>2. \E t \in Ids : sid' = [sid EXCEPT ![i] = t]
    BY <1>1, <1>2
  <2> QED
    BY <1>1, <1>2, <2>1, <2>2, ReplyStep DEF IInv
<1>4. TypeOK'
  BY <1>1, <1>2, <1>3 DEF IInv, TypeOK, sensorVars, flightVars
<1>5. RunInv'
  BY <1>1, <1>2, IdsAreNumbers DEF IInv, RunInv, TypeOK
<1>6. IdInv'
  <2>1. ASSUME NEW j \in Ifaces, sid'[j] # NoId
        PROVE  sid'[j] < sessionIdCount' /\ clientOf'[sid'[j]] = Owner[j]
    <3>1. CASE j = i
      BY <1>1, <1>2, <3>1 DEF IInv, TypeOK
    <3>2. CASE j # i
      <4>1. sid'[j] = sid[j] /\ sid[j] \in Ids /\ sid[j] # n
        BY <1>1, <1>2, <2>1, <3>2 DEF IInv, TypeOK
      <4>2. sid[j] < n /\ clientOf[sid[j]] = Owner[j]
        BY <2>1, <4>1 DEF IInv, IdInv
      <4>3. clientOf'[sid[j]] = clientOf[sid[j]]
        BY <1>2, <4>1 DEF IInv, TypeOK
      <4>4. sid[j] \in Nat /\ n \in Nat
        BY <1>1, <4>1, IdsAreNumbers
      <4>5. sid[j] < n + 1
        BY <4>2, <4>4
      <4> QED
        BY <1>2, <4>1, <4>2, <4>3, <4>5
    <3> QED
      BY <3>1, <3>2
  <2>2. ASSUME NEW j \in Ifaces, NEW k \in Ifaces, sid'[j] # NoId, sid'[j] = sid'[k]
        PROVE  j = k
    BY <1>1, <1>2, <2>2 DEF IInv, IdInv, TypeOK
  <2> QED
    BY <2>1, <2>2 DEF IdInv
<1>7. SessionsAgree'
  <2>1. open' = open \cup {n}
    BY <1>1, <1>2 DEF open, IInv, TypeOK
  <2>2. ASSUME NEW p \in Sensors, NEW q \in Sensors, p # q
        PROVE  sessions'[p] \cap sessions'[q] = {}
    <3>1. sessions[p] \cap sessions[q] = {} /\ n \notin sessions[p] /\ n \notin sessions[q]
      BY <2>2, RequestHasRoom, <1>1 DEF IInv, SessionsAgree
    <3> QED
      BY <1>2, <2>2, <3>1 DEF IInv, TypeOK
  <2>3. ASSUME NEW t \in instances'
        PROVE  t < sessionIdCount' /\ clientOf'[t] \in watched'
    <3>1. CASE t = n
      BY <1>1, <1>2, <3>1 DEF IInv, TypeOK
    <3>2. CASE t # n
      <4>1. t \in instances /\ t \in Ids
        BY <1>2, <2>3, <3>2 DEF IInv, TypeOK
      <4>2. t < n /\ clientOf[t] \in watched
        BY <4>1 DEF IInv, SessionsAgree
      <4>3. clientOf'[t] = clientOf[t]
        BY <1>2, <3>2, <4>1 DEF IInv, TypeOK
      <4> QED
        BY <1>1, <1>2, <4>1, <4>2, <4>3, IdsAreNumbers
    <3> QED
      BY <3>1, <3>2
  <2> QED
    BY <1>2, <2>1, <2>2, <2>3 DEF IInv, SessionsAgree
<1>8. CountIsActive'
  BY <1>2, CountKept DEF IInv, sensorVars
<1> QED
  BY <1>3, <1>4, <1>5, <1>6, <1>7, <1>8 DEF IInv

LEMMA requestSensorStep ==
  ASSUME IInv, NEW i \in Ifaces, requestSensor(i)
  PROVE  IInv'
<1>1. CASE requestUnknown(i) \/ requestFails(i)
  <2>1. /\ call[i] = "requestSensor" /\ reply(i)
        /\ (registered' \subseteq registered /\ SensorOf[i] \notin instantiated) \/ registered' = registered
        /\ registered \ {SensorOf[i]} \subseteq registered'
        /\ sessionIdCount' = sessionIdCount \/ sessionIdCount' = sessionIdCount + 1
        /\ UNCHANGED <<instantiated, sessions, instances, clientOf, timers, watched, sid>>
        /\ UNCHANGED <<sensorVars, idMap, alive, running, linked, flightVars>>
    BY <1>1 DEF requestSensor, requestUnknown, requestFails, managerVars
  <2>2. /\ sessionIdCount \in Nat /\ sessionIdCount + 1 \in 0 .. MaxSessions
        /\ sessionIdCount \in 0 .. MaxSessions
    BY <2>1, RequestHasRoom DEF IInv, TypeOK
  <2>3. sessionIdCount' \in Nat /\ sessionIdCount' \in 0 .. MaxSessions
        /\ sessionIdCount' >= sessionIdCount
    BY <2>1, <2>2, MaxSessionsAssumption
  <2>4. call' \in [Ifaces -> Calls] /\ PendingInv' /\ CallInv'
    BY <2>1, <2>3, ReplyStep DEF IInv
  <2>5. TypeOK'
    BY <2>1, <2>3, <2>4 DEF IInv, TypeOK, sensorVars, flightVars
  <2>6. RunInv' /\ CountIsActive'
    BY <2>1, CountKept DEF IInv, RunInv, sensorVars
  <2>7. \A s \in Ids : s < sessionIdCount => s < sessionIdCount'
    BY <2>2, <2>3, IdsAreNumbers
  <2>8. IdInv'
    BY <2>1, <2>7 DEF IInv, IdInv, TypeOK
  <2>9. SessionsAgree'
    BY <2>1, <2>7 DEF IInv, SessionsAgree, open, TypeOK
  <2> QED
    BY <2>4, <2>5, <2>6, <2>8, <2>9 DEF IInv
<1>2. CASE requestGranted(i)
  BY <1>2, requestGrantedStep
<1> QED
  BY <1>1, <1>2 DEF requestSensor

\* AbstractSensorChannel::start(int): a session is counted when it is new.
LEMMA startStep ==
  ASSUME IInv, NEW i \in Ifaces, start(i)
  PROVE  IInv'
<1> DEFINE q == SensorOf[i]
           s == sid[i]
<1>1. /\ s \in Ids /\ q \in Sensors
      /\ active' = [active EXCEPT ![q] = @ \cup {s}]
      /\ cnt' = [cnt EXCEPT ![q] = IF s \in active[q] THEN @ ELSE @ + 1]
      /\ props' = [props EXCEPT ![q] = @ \cup {s}]
      /\ reply(i)
      /\ UNCHANGED <<managerVars, idMap, alive, sid, running, linked, flightVars>>
  BY AnsweredHasId, SensorOfAssumption DEF start
<1>2. call' \in [Ifaces -> Calls] /\ PendingInv' /\ CallInv'
  BY <1>1, ReplyStep, MaxSessionsAssumption DEF IInv, TypeOK, managerVars
<1>3. CountIsActive'
  <2>1. IsFiniteSet(active[q]) /\ Cardinality(active[q]) = cnt[q]
    BY <1>1, IdsAreNumbers, FS_Subset DEF IInv, TypeOK, CountIsActive
  <2>2. Cardinality(active[q] \cup {s}) = IF s \in active[q] THEN Cardinality(active[q])
                                                             ELSE Cardinality(active[q]) + 1
    BY <2>1, FS_AddElement
  <2>3. cnt'[q] = Cardinality(active'[q])
    BY <1>1, <2>1, <2>2 DEF IInv, TypeOK
  <2>4. \A p \in Sensors : p # q => cnt'[p] = cnt[p] /\ active'[p] = active[p]
    BY <1>1 DEF IInv, TypeOK
  <2> QED
    BY <2>3, <2>4 DEF IInv, CountIsActive
<1>4. TypeOK'
  BY <1>1, <1>2 DEF IInv, TypeOK, managerVars, flightVars
<1>5. RunInv' /\ IdInv' /\ SessionsAgree'
  BY <1>1, IdsKept, RecordsKept DEF IInv, RunInv, managerVars
<1> QED
  BY <1>2, <1>3, <1>4, <1>5 DEF IInv

LEMMA stopStep ==
  ASSUME IInv, NEW i \in Ifaces, stop(i)
  PROVE  IInv'
<1>1. /\ stopSessions({sid[i]})
      /\ props' = [q \in Sensors |-> props[q] \ (active[q] \cap {sid[i]})]
      /\ reply(i)
      /\ UNCHANGED <<managerVars, idMap, alive, sid, running, linked, flightVars>>
  BY DEF stop
<1>2. call' \in [Ifaces -> Calls] /\ PendingInv' /\ CallInv'
  BY <1>1, ReplyStep, MaxSessionsAssumption DEF IInv, TypeOK, managerVars
<1>3. active' \in [Sensors -> SUBSET Ids] /\ cnt' \in [Sensors -> Nat] /\ CountIsActive'
  BY <1>1, StopCounts DEF IInv
<1>4. TypeOK'
  BY <1>1, <1>2, <1>3 DEF IInv, TypeOK, managerVars, flightVars
<1>5. RunInv' /\ IdInv' /\ SessionsAgree'
  BY <1>1, IdsKept, RecordsKept DEF IInv, RunInv, managerVars
<1> QED
  BY <1>2, <1>3, <1>4, <1>5 DEF IInv

LEMMA setPropertyStep ==
  ASSUME IInv, NEW i \in Ifaces, setProperty(i)
  PROVE  IInv'
<1>1. /\ sid[i] \in Ids /\ SensorOf[i] \in Sensors
      /\ props' = [props EXCEPT ![SensorOf[i]] = @ \cup {sid[i]}]
      /\ reply(i)
      /\ UNCHANGED <<managerVars, active, cnt, idMap, alive, sid, running, linked, flightVars>>
  BY AnsweredHasId, SensorOfAssumption DEF setProperty
<1>2. call' \in [Ifaces -> Calls] /\ PendingInv' /\ CallInv'
  BY <1>1, ReplyStep, MaxSessionsAssumption DEF IInv, TypeOK, managerVars
<1>3. TypeOK'
  BY <1>1, <1>2 DEF IInv, TypeOK, managerVars, flightVars
<1>4. RunInv' /\ IdInv' /\ SessionsAgree' /\ CountIsActive'
  BY <1>1, IdsKept, RecordsKept, CountKept DEF IInv, RunInv, managerVars
<1> QED
  BY <1>2, <1>3, <1>4 DEF IInv

\* SensorManager::releaseSensor(): the owner's name is unwatched only with the
\* last of its sessions.
LEMMA releaseSensorStep ==
  ASSUME IInv, NEW i \in Ifaces, releaseSensor(i)
  PROVE  IInv'
<1>1. /\ sid[i] \in Ids /\ reply(i)
      /\ sid' = [sid EXCEPT ![i] = NoId]
      /\ running' = running \ {i}
      /\ linked' = linked \ {sid[i]}
      /\ hangup' = hangup \cup ({sid[i]} \cap linked)
      /\ UNCHANGED <<sessionIdCount, registered, instantiated, clientOf, active, cnt,
                     alive, hello, gone>>
  BY AnsweredHasId DEF releaseSensor
<1>2. call' \in [Ifaces -> Calls] /\ PendingInv' /\ CallInv'
  <2>1. sessionIdCount' \in Nat /\ sessionIdCount' = sessionIdCount
    BY <1>1, MaxSessionsAssumption DEF IInv, TypeOK
  <2> QED
    BY <1>1, <2>1, ReplyStep DEF IInv
<1>3. /\ SessionsAgree' /\ watched' \subseteq Clients
      /\ props' \in [Sensors -> SUBSET Ids] /\ sessions' \in [Sensors -> SUBSET Ids]
      /\ instances' \subseteq Ids /\ timers' \subseteq instances' /\ idMap' \subseteq Ids
  <2>1. CASE releaseOwned(i)
    <3>1. /\ releaseSessions({sid[i]})
          /\ watched' = IF \E s \in instances' : clientOf[s] = Owner[i]
                        THEN watched ELSE watched \ {Owner[i]}
      BY <2>1 DEF releaseOwned
    <3>2. instances' = instances \ {sid[i]}
      BY <3>1 DEF releaseSessions
    <3>3. \A s \in instances \ {sid[i]} : clientOf[s] \in watched'
      BY <3>1, <3>2 DEF IInv, SessionsAgree
    <3>4. UNCHANGED <<sessionIdCount, clientOf>> /\ TypeOK /\ SessionsAgree
      BY <1>1 DEF IInv
    <3>5. watched' \subseteq Clients
      BY <3>1, <3>4 DEF TypeOK
    <3> QED
      BY <3>1, <3>3, <3>4, <3>5, ReleaseAgrees
  <2>2. CASE releaseIgnored(i)
    BY <1>1, <2>2, RecordsKept DEF releaseIgnored, IInv, TypeOK
  <2> QED
    BY <2>1, <2>2 DEF releaseSensor
<1>4. TypeOK'
  BY <1>1, <1>2, <1>3 DEF IInv, TypeOK
<1>5. RunInv' /\ CountIsActive'
  BY <1>1, CountKept DEF IInv, RunInv, TypeOK
<1>6. IdInv'
  BY <1>1 DEF IInv, IdInv, TypeOK
<1> QED
  BY <1>2, <1>3, <1>4, <1>5, <1>6 DEF IInv

LEMMA socketReadableStep ==
  ASSUME IInv, NEW s \in Ids, socketReadable(s)
  PROVE  IInv'
<1>1. TypeOK'
  BY DEF socketReadable, IInv, TypeOK, managerVars, sensorVars, clientVars
<1> QED
  BY <1>1, QuietStep DEF socketReadable, sensorVars, clientVars

\* SensorManager::lostClient(), from wherever it is called.
LEMMA LostKeepsInv ==
  ASSUME IInv, NEW S, lostClients(S), UNCHANGED <<clientVars, hello>>,
         hangup' \subseteq Ids, gone' \subseteq Clients
  PROVE  IInv'
<1>1. /\ SessionsAgree' /\ CountIsActive'
      /\ active' \in [Sensors -> SUBSET Ids] /\ cnt' \in [Sensors -> Nat]
      /\ props' \in [Sensors -> SUBSET Ids] /\ sessions' \in [Sensors -> SUBSET Ids]
      /\ instances' \subseteq Ids /\ timers' \subseteq instances' /\ idMap' \subseteq Ids
      /\ UNCHANGED <<sessionIdCount, registered, instantiated, clientOf, watched>>
  BY LostStep DEF IInv
<1>2. TypeOK'
  BY <1>1 DEF IInv, TypeOK, clientVars
<1>3. PendingInv' /\ CallInv' /\ RunInv' /\ IdInv'
  BY <1>1, IdsKept DEF IInv, PendingInv, Pending, CallInv, RunInv, clientVars
<1> QED
  BY <1>1, <1>2, <1>3 DEF IInv

LEMMA LosersStep ==
  ASSUME IInv,
         \/ \E s \in Ids : socketDisconnected(s) \/ timerTimeout(s)
         \/ \E c \in Clients : dbusClientUnregistered(c)
  PROVE  IInv'
<1>1. ASSUME NEW s \in Ids, socketDisconnected(s)
      PROVE  IInv'
  BY <1>1, LostKeepsInv DEF socketDisconnected, IInv, TypeOK
<1>2. ASSUME NEW s \in Ids, timerTimeout(s)
      PROVE  IInv'
  <2>1. CASE s \in idMap
    <3>1. TypeOK'
      BY <1>2, <2>1 DEF timerTimeout, IInv, TypeOK, clientVars, sensorVars, flightVars
    <3>2. /\ UNCHANGED <<sessionIdCount, registered, instantiated, sessions, instances,
                         clientOf, watched, sensorVars, clientVars>>
      BY <1>2, <2>1 DEF timerTimeout
    <3>3. PendingInv' /\ CallInv' /\ RunInv'
      BY <3>2 DEF IInv, PendingInv, Pending, CallInv, RunInv, clientVars
    <3>4. IdInv' /\ SessionsAgree' /\ CountIsActive'
      BY <3>2, IdsKept, RecordsKept, CountKept DEF IInv, clientVars, sensorVars
    <3> QED
      BY <3>1, <3>3, <3>4 DEF IInv
  <2>2. CASE s \notin idMap
    BY <1>2, <2>2, LostKeepsInv DEF timerTimeout, flightVars, IInv, TypeOK
  <2> QED
    BY <2>1, <2>2
<1>3. ASSUME NEW c \in Clients, dbusClientUnregistered(c)
      PROVE  IInv'
  BY <1>3, LostKeepsInv DEF dbusClientUnregistered, IInv, TypeOK
<1> QED
  BY <1>1, <1>2, <1>3

LEMMA NextInv == IInv /\ [Next]_vars => IInv'
<1> SUFFICES ASSUME IInv, [Next]_vars PROVE IInv'
  OBVIOUS
<1>1. CASE UNCHANGED vars
  <2>1. TypeOK'
    BY <1>1 DEF IInv, TypeOK, vars, managerVars, sensorVars, clientVars, flightVars
  <2> QED
    BY <1>1, <2>1, QuietStep DEF vars, sensorVars, clientVars
<1>2. CASE Client
  BY <1>2, requestInterfaceStep, initiateConnectionStep, SendersStep, clientDiesStep
     DEF Client
<1>3. CASE Daemon
  BY <1>3, requestSensorStep, startStep, stopStep, setPropertyStep, releaseSensorStep,
     socketReadableStep, LosersStep DEF Daemon
<1> QED
  BY <1>1, <1>2, <1>3 DEF Next

\* The inductive invariant holds in every reachable state.
THEOREM SessionsInvariant == Spec => []IInv
BY InitInv, NextInv, PTL DEF Spec

\* The variables keep their types: there are never more ids than the bound allows.
THEOREM SessionsTypeCorrect == Spec => []TypeOK
<1>1. IInv => TypeOK
  BY DEF IInv
<1> QED
  BY <1>1, SessionsInvariant, PTL

\* A session is in sessions_ of one sensor and in sessionInstanceMap_, and its
\* client is watched.
THEOREM RecordsAgree == Spec => []SessionsAgree
<1>1. IInv => SessionsAgree
  BY DEF IInv
<1> QED
  BY <1>1, SessionsInvariant, PTL

\* cnt_ is the number of active sessions.
THEOREM ActiveCounted == Spec => []CountIsActive
<1>1. IInv => CountIsActive
  BY DEF IInv
<1> QED
  BY <1>1, SessionsInvariant, PTL

\* No two interfaces share a session, and none has another client's.
THEOREM IdsPrivate == Spec => []SessionsPrivate
<1>1. IInv => SessionsPrivate
  BY DEF IInv, IdInv, SessionsPrivate
<1> QED
  BY <1>1, SessionsInvariant, PTL

-----------------------------------------------------------------------------
(* What a live client's session keeps: the session itself, its activity and *)
(* its requests, when no client is beaten by the connection timer.          *)

\* An interface that has a session has it open, on a socket nobody closed.
OpenInv ==
  \A i \in Ifaces : Owner[i] \in alive /\ sid[i] # NoId =>
    sid[i] \in sessions[SensorOf[i]] /\ sid[i] \notin hangup

\* A running interface is served as soon as its start() has been.
ServedInv ==
  \A i \in running :
    /\ call[i] # "stop"
    /\ Owner[i] \in alive /\ call[i] # "start" =>
         sid[i] \in active[SensorOf[i]] \cap props[SensorOf[i]]

\* Nothing is kept under an id that has not been handed out.
KnownInv ==
  /\ \A s \in hangup : s < sessionIdCount
  /\ \A q \in Sensors : \A s \in active[q] \cup props[q] : s < sessionIdCount

GoneInv == gone \cap alive = {}

HeldInv == OpenInv /\ ServedInv /\ KnownInv /\ GoneInv

LEMMA HeldInit == Init => HeldInv
BY DEF Init, HeldInv, OpenInv, ServedInv, KnownInv, GoneInv

\* The client's calls change neither what the daemon keeps nor any id.
LEMMA CallersHold ==
  ASSUME IInv, HeldInv, NEW i \in Ifaces, NEW m \in Calls \ {"none"}, send(i, m),
         call[i] = "none", UNCHANGED <<managerVars, sensorVars, alive, sid, flightVars>>,
         \/ m \notin {"start", "stop"} /\ running' = running
         \/ m = "start" /\ running' = running \cup {i}
         \/ m = "stop" /\ running' = running \ {i}
  PROVE  HeldInv'
<1>1. OpenInv' /\ KnownInv' /\ GoneInv'
  BY DEF HeldInv, OpenInv, KnownInv, GoneInv, managerVars, sensorVars, flightVars
<1>2. ServedInv'
  <2> SUFFICES ASSUME NEW j \in running'
               PROVE  /\ call'[j] # "stop"
                      /\ Owner[j] \in alive' /\ call'[j] # "start" =>
                           sid'[j] \in active'[SensorOf[j]] \cap props'[SensorOf[j]]
    BY DEF ServedInv
  <2>1. call' = [call EXCEPT ![i] = m] /\ call \in [Ifaces -> Calls] /\ j \in Ifaces
        /\ UNCHANGED <<alive, sid, active, props>>
    BY DEF send, IInv, TypeOK, sensorVars
  <2>2. CASE j = i
    BY <2>1, <2>2 DEF HeldInv, ServedInv
  <2>3. CASE j # i
    BY <2>1, <2>3 DEF HeldInv, ServedInv
  <2> QED
    BY <2>2, <2>3
<1> QED
  BY <1>1, <1>2 DEF HeldInv

LEMMA ClientHolds ==
  ASSUME IInv, HeldInv, Client
  PROVE  HeldInv'
<1>1. ASSUME NEW i \in Ifaces,
             \/ requestInterface(i) \/ clientStart(i) \/ clientStop(i)
             \/ clientSetProperty(i) \/ clientRelease(i)
      PROVE  HeldInv'
  <2>1. PICK m \in Calls \ {"none"} :
          /\ send(i, m)
          /\ \/ m \notin {"start", "stop"} /\ running' = running
             \/ m = "start" /\ running' = running \cup {i}
             \/ m = "stop" /\ running' = running \ {i}
    BY <1>1 DEF requestInterface, clientStart, clientStop, clientSetProperty,
                clientRelease, Calls
  <2>2. call[i] = "none" /\ UNCHANGED <<managerVars, sensorVars, alive, sid, flightVars>>
    BY <1>1 DEF requestInterface, clientStart, clientStop, clientSetProperty,
                clientRelease, idle
  <2> QED
    BY <2>1, <2>2, CallersHold
<1>2. ASSUME NEW i \in Ifaces, initiateConnection(i) PROVE HeldInv'
  BY <1>2 DEF initiateConnection, HeldInv, OpenInv, ServedInv, KnownInv, GoneInv,
              managerVars, sensorVars
<1>3. ASSUME NEW c \in Clients, clientDies(c) PROVE HeldInv'
  <2> DEFINE own == {s \in linked : \E i \in Ifaces : Owner[i] = c /\ sid[i] = s}
  <2>1. /\ alive' = alive \ {c} /\ hangup' = hangup \cup own
        /\ gone' = gone \cup ({c} \cap watched)
        /\ UNCHANGED <<managerVars, sensorVars, sid, running, call>>
    BY <1>3 DEF clientDies
  <2>2. \A s \in own : s < sessionIdCount
                       /\ \E i \in Ifaces : Owner[i] = c /\ sid[i] = s /\ sid[i] # NoId
    BY IdsAreNumbers DEF IInv, IdInv, TypeOK
  <2> HIDE DEF own
  <2>3. OpenInv'
    BY <2>1, <2>2 DEF IInv, IdInv, HeldInv, OpenInv, managerVars
  <2>4. ServedInv' /\ KnownInv' /\ GoneInv'
    BY <2>1, <2>2 DEF HeldInv, ServedInv, KnownInv, GoneInv, managerVars, sensorVars
  <2> QED
    BY <2>3, <2>4 DEF HeldInv
<1> QED
  BY <1>1, <1>2, <1>3 DEF Client

\* The new session is known, and held by the interface that asked.
LEMMA RequestHolds ==
  ASSUME IInv, HeldInv, NEW i \in Ifaces, requestSensor(i)
  PROVE  HeldInv'
<1>0. /\ call[i] = "requestSensor" /\ call' = [call EXCEPT ![i] = "none"]
      /\ UNCHANGED <<active, props, alive, running, hangup, gone>>
      /\ sid[i] = NoId /\ i \notin running /\ call \in [Ifaces -> Calls]
  BY DEF requestSensor, reply, sensorVars, flightVars, IInv, CallInv, RunInv, TypeOK
<1>1. /\ sessionIdCount \in Nat /\ sessionIdCount \in Ids /\ SensorOf[i] \in Sensors
      /\ \A s \in Ids : s \in Nat
  BY <1>0, RequestHasRoom, IdsAreNumbers, SensorOfAssumption
<1>2. /\ sessionIdCount' \in {sessionIdCount, sessionIdCount + 1}
      /\ \/ UNCHANGED <<sessions, sid>>
         \/ /\ sessions' = [sessions EXCEPT ![SensorOf[i]] = @ \cup {sessionIdCount}]
            /\ sid' = [sid EXCEPT ![i] = sessionIdCount]
  BY DEF requestSensor, requestUnknown, requestFails, requestGranted, managerVars
<1>3. KnownInv' /\ GoneInv'
  BY <1>0, <1>1, <1>2 DEF IInv, TypeOK, HeldInv, KnownInv, GoneInv
<1>4. ServedInv'
  <2>1. \A j \in running : j # i /\ j \in Ifaces /\ sid'[j] = sid[j] /\ call'[j] = call[j]
    BY <1>0, <1>2 DEF IInv, TypeOK
  <2> QED
    BY <1>0, <2>1 DEF HeldInv, ServedInv
<1>5. OpenInv'
  <2> SUFFICES ASSUME NEW j \in Ifaces, Owner[j] \in alive, sid'[j] # NoId
               PROVE  sid'[j] \in sessions'[SensorOf[j]] /\ sid'[j] \notin hangup
    BY <1>0 DEF OpenInv
  <2>1. SensorOf[j] \in Sensors /\ sessions[SensorOf[j]] \subseteq sessions'[SensorOf[j]]
    BY <1>1, <1>2, SensorOfAssumption DEF IInv, TypeOK
  <2>2. CASE sid'[j] = sid[j]
    BY <2>1, <2>2 DEF HeldInv, OpenInv
  <2>3. CASE sid'[j] # sid[j]
    <3>1. /\ j = i /\ sid'[j] = sessionIdCount
          /\ sessions'[SensorOf[i]] = sessions[SensorOf[i]] \cup {sessionIdCount}
      BY <1>1, <1>2, <2>3 DEF IInv, TypeOK
    <3>2. sessionIdCount \notin hangup
      BY <1>1 DEF HeldInv, KnownInv
    <3> QED
      BY <3>1, <3>2
  <2> QED
    BY <2>2, <2>3
<1> QED
  BY <1>3, <1>4, <1>5 DEF HeldInv

\* start(), stop() and the property calls touch the caller's session alone.
LEMMA CallsHold ==
  ASSUME IInv, HeldInv, NEW i \in Ifaces, start(i) \/ stop(i) \/ setProperty(i)
  PROVE  HeldInv'
<1>0. /\ sid[i] \in Ids /\ sid[i] # NoId /\ SensorOf[i] \in Sensors
      /\ call' = [call EXCEPT ![i] = "none"] /\ call \in [Ifaces -> Calls]
      /\ UNCHANGED <<managerVars, alive, sid, running, flightVars>>
      /\ sid[i] < sessionIdCount
  BY AnsweredHasId, IdsAreNumbers, SensorOfAssumption
     DEF start, stop, setProperty, reply, IInv, TypeOK, IdInv
<1>1. OpenInv' /\ GoneInv'
  BY <1>0 DEF HeldInv, OpenInv, GoneInv, managerVars, flightVars
<1>2. CASE start(i) \/ setProperty(i)
  <2>1. \A q \in Sensors :
          /\ active[q] \subseteq active'[q] /\ props[q] \subseteq props'[q]
          /\ active'[q] \cup props'[q] \subseteq active[q] \cup props[q] \cup {sid[i]}
    BY <1>2 DEF start, setProperty, IInv, TypeOK
  <2>2. KnownInv'
    BY <1>0, <2>1 DEF HeldInv, KnownInv, managerVars, flightVars
  <2>3. ServedInv'
    <3> SUFFICES ASSUME NEW j \in running
                 PROVE  /\ call'[j] # "stop"
                        /\ Owner[j] \in alive /\ call'[j] # "start" =>
                             sid[j] \in active'[SensorOf[j]] \cap props'[SensorOf[j]]
      BY <1>0 DEF ServedInv
    <3>1. j \in Ifaces /\ SensorOf[j] \in Sensors
      BY SensorOfAssumption DEF IInv, TypeOK
    <3>2. CASE j = i /\ start(i)
      BY <1>0, <3>2 DEF start, IInv, TypeOK
    <3>3. CASE ~(j = i /\ start(i))
      <4>1. call'[j] = call[j] \/ (j = i /\ call[j] = "setProperty")
        BY <1>0, <1>2, <3>1, <3>3 DEF setProperty
      <4> QED
        BY <1>0, <2>1, <3>1, <4>1 DEF HeldInv, ServedInv
    <3> QED
      BY <3>2, <3>3
  <2> QED
    BY <1>1, <2>2, <2>3 DEF HeldInv
<1>3. CASE stop(i)
  <2>1. /\ active' = [q \in Sensors |-> active[q] \ {sid[i]}]
        /\ props' = [q \in Sensors |-> props[q] \ (active[q] \cap {sid[i]})]
        /\ call[i] = "stop"
    BY <1>3 DEF stop, stopSessions
  <2>2. KnownInv'
    BY <1>0, <2>1 DEF HeldInv, KnownInv, managerVars, flightVars
  <2>3. ServedInv'
    <3> SUFFICES ASSUME NEW j \in running
                 PROVE  /\ call'[j] # "stop"
                        /\ Owner[j] \in alive /\ call'[j] # "start" =>
                             sid[j] \in active'[SensorOf[j]] \cap props'[SensorOf[j]]
      BY <1>0 DEF ServedInv
    <3>1. j \in Ifaces /\ SensorOf[j] \in Sensors /\ j # i
      BY <2>1, SensorOfAssumption DEF IInv, TypeOK, HeldInv, ServedInv
    <3>2. sid[j] # sid[i] /\ call'[j] = call[j]
      BY <1>0, <3>1 DEF IInv, IdInv
    <3> QED
      BY <2>1, <3>1, <3>2 DEF HeldInv, ServedInv
  <2> QED
    BY <1>1, <2>2, <2>3 DEF HeldInv
<1> QED
  BY <1>2, <1>3

\* A release ends one session; the other interfaces have others.
LEMMA ReleaseHolds ==
  ASSUME IInv, HeldInv, NEW i \in Ifaces, releaseSensor(i)
  PROVE  HeldInv'
<1>0. /\ sid[i] \in Ids /\ sid[i] # NoId /\ sid[i] < sessionIdCount
      /\ call' = [call EXCEPT ![i] = "none"] /\ call \in [Ifaces -> Calls]
      /\ sid' = [sid EXCEPT ![i] = NoId] /\ sid \in [Ifaces -> Ids \cup {NoId}]
      /\ running' = running \ {i} /\ running \subseteq Ifaces
      /\ hangup' \subseteq hangup \cup {sid[i]}
      /\ UNCHANGED <<sessionIdCount, active, alive, gone>>
  BY AnsweredHasId, IdsAreNumbers DEF releaseSensor, reply, IInv, TypeOK, IdInv
<1>1. \A q \in Sensors : /\ sessions[q] \ {sid[i]} \subseteq sessions'[q]
                         /\ props[q] \ {sid[i]} \subseteq props'[q]
                         /\ props'[q] \subseteq props[q]
  BY DEF releaseSensor, releaseOwned, releaseIgnored, releaseSessions
<1>2. \A j \in Ifaces : j # i /\ sid[j] # NoId => sid[j] # sid[i]
  BY DEF IInv, IdInv
<1>3. OpenInv'
  BY <1>0, <1>1, <1>2, SensorOfAssumption DEF HeldInv, OpenInv
<1>4. ServedInv'
  <2> SUFFICES ASSUME NEW j \in running'
               PROVE  /\ call'[j] # "stop"
                      /\ Owner[j] \in alive' /\ call'[j] # "start" =>
                           sid'[j] \in active'[SensorOf[j]] \cap props'[SensorOf[j]]
    BY DEF ServedInv
  <2>1. j \in Ifaces /\ j \in running /\ j # i /\ sid'[j] = sid[j] /\ call'[j] = call[j]
    BY <1>0
  <2>2. sid[j] # NoId /\ sid[j] # sid[i] /\ SensorOf[j] \in Sensors
    BY <1>2, <2>1, SensorOfAssumption DEF IInv, RunInv
  <2> QED
    BY <1>0, <1>1, <2>1, <2>2 DEF HeldInv, ServedInv
<1>5. KnownInv' /\ GoneInv'
  BY <1>0, <1>1 DEF HeldInv, KnownInv, GoneInv
<1> QED
  BY <1>3, <1>4, <1>5 DEF HeldInv

\* Losing sessions that no live client has.
LEMMA LostHolds ==
  ASSUME IInv, HeldInv, NEW S, lostClients(S), UNCHANGED clientVars,
         \A i \in Ifaces : Owner[i] \in alive /\ sid[i] # NoId => sid[i] \notin S,
         hangup' \subseteq hangup, gone' \subseteq gone
  PROVE  HeldInv'
<1>1. \A q \in Sensors : /\ sessions[q] \ S \subseteq sessions'[q]
                         /\ props[q] \ S \subseteq props'[q] /\ props'[q] \subseteq props[q]
                         /\ active[q] \ S \subseteq active'[q] /\ active'[q] \subseteq active[q]
  BY DEF lostClients, stopSessions, releaseSessions
<1>2. UNCHANGED <<sessionIdCount, alive, sid, running, call>>
  BY DEF lostClients, clientVars
<1>3. OpenInv'
  BY <1>1, <1>2, SensorOfAssumption DEF HeldInv, OpenInv
<1>4. ServedInv'
  <2> SUFFICES ASSUME NEW j \in running
               PROVE  /\ call[j] # "stop"
                      /\ Owner[j] \in alive /\ call[j] # "start" =>
                           sid[j] \in active'[SensorOf[j]] \cap props'[SensorOf[j]]
    BY <1>2 DEF ServedInv
  <2>1. j \in Ifaces /\ SensorOf[j] \in Sensors /\ sid[j] # NoId
    BY SensorOfAssumption DEF IInv, TypeOK, RunInv
  <2> QED
    BY <1>1, <2>1 DEF HeldInv, ServedInv
<1>5. KnownInv' /\ GoneInv'
  BY <1>1, <1>2 DEF HeldInv, KnownInv, GoneInv
<1> QED
  BY <1>3, <1>4, <1>5 DEF HeldInv

\* The sessions that a closed socket, the timer or the bus gives up are of
\* clients that are gone.
LEMMA LosersAreDead ==
  ASSUME ~MayTimeOut, IInv, HeldInv, NEW i \in Ifaces, Owner[i] \in alive, sid[i] # NoId
  PROVE  /\ \A s \in Ids : socketDisconnected(s) => sid[i] # s
         /\ \A s \in Ids : timerTimeout(s) /\ s \notin idMap => sid[i] # s
         /\ \A c \in Clients : dbusClientUnregistered(c) => clientOf[sid[i]] # c
<1>1. clientOf[sid[i]] = Owner[i] /\ sid[i] \notin hangup /\ Owner[i] \notin gone
  BY DEF IInv, IdInv, HeldInv, OpenInv, GoneInv
<1> QED
  BY <1>1 DEF socketDisconnected, timerTimeout, dbusClientUnregistered

LEMMA LosersHold ==
  ASSUME ~MayTimeOut, IInv, HeldInv,
         \/ \E s \in Ids : socketDisconnected(s) \/ timerTimeout(s)
         \/ \E c \in Clients : dbusClientUnregistered(c)
  PROVE  HeldInv'
<1>1. ASSUME NEW s \in Ids, socketDisconnected(s) PROVE HeldInv'
  <2>1. /\ lostClients({s} \cap idMap) /\ UNCHANGED clientVars
        /\ hangup' \subseteq hangup /\ gone' \subseteq gone
    BY <1>1 DEF socketDisconnected
  <2> QED
    BY <1>1, <2>1, LostHolds, LosersAreDead
<1>2. ASSUME NEW s \in Ids, timerTimeout(s) PROVE HeldInv'
  <2>1. CASE s \in idMap
    BY <1>2, <2>1 DEF timerTimeout, HeldInv, OpenInv, ServedInv, KnownInv, GoneInv,
                      sensorVars, clientVars, flightVars
  <2>2. CASE s \notin idMap
    <3>1. /\ lostClients({s}) /\ UNCHANGED clientVars
          /\ hangup' \subseteq hangup /\ gone' \subseteq gone
      BY <1>2, <2>2 DEF timerTimeout, flightVars
    <3> QED
      BY <1>2, <2>2, <3>1, LostHolds, LosersAreDead
  <2> QED
    BY <2>1, <2>2
<1>3. ASSUME NEW c \in Clients, dbusClientUnregistered(c) PROVE HeldInv'
  <2>1. /\ lostClients({s \in instances : clientOf[s] = c}) /\ UNCHANGED clientVars
        /\ hangup' \subseteq hangup /\ gone' \subseteq gone
    BY <1>3 DEF dbusClientUnregistered
  <2> QED
    BY <1>3, <2>1, LostHolds, LosersAreDead
<1> QED
  BY <1>1, <1>2, <1>3

LEMMA HeldNext ==
  ASSUME ~MayTimeOut, IInv, HeldInv, [Next]_vars
  PROVE  HeldInv'
<1>1. CASE UNCHANGED vars
  BY <1>1 DEF vars, managerVars, sensorVars, clientVars, flightVars,
              HeldInv, OpenInv, ServedInv, KnownInv, GoneInv
<1>2. CASE Client
  BY <1>2, ClientHolds
<1>3. CASE Daemon
  <2>1. ASSUME NEW s \in Ids, socketReadable(s) PROVE HeldInv'
    BY <2>1 DEF socketReadable, HeldInv, OpenInv, ServedInv, KnownInv, GoneInv,
                managerVars, sensorVars, clientVars
  <2> QED
    BY <1>3, <2>1, RequestHolds, CallsHold, ReleaseHolds, LosersHold DEF Daemon
<1> QED
  BY <1>1, <1>2, <1>3 DEF Next

\* While no connection timer beats a client, the daemon keeps every session,
\* activity and request of a live client (lostClient(), releaseSensor()).
THEOREM HeldInvariant == ASSUME ~MayTimeOut PROVE Spec => []HeldInv
<1>1. Init => IInv /\ HeldInv
  BY InitInv, HeldInit
<1>2. (IInv /\ HeldInv) /\ [Next]_vars => (IInv /\ HeldInv)'
  BY NextInv, HeldNext
<1> QED
  BY <1>1, <1>2, PTL DEF Spec

\* A started interface of a live client is active, open and has its requests
\* at its sensor: no other client's stop, release or end takes them away.
THEOREM StartedStaysActive == ASSUME ~MayTimeOut PROVE Spec => []StartedIsActive
<1>1. IInv /\ HeldInv => StartedIsActive
  <2> SUFFICES ASSUME IInv, HeldInv, NEW i \in running, idle(i)
               PROVE  sid[i] \in active[SensorOf[i]] \cap sessions[SensorOf[i]]
                                   \cap props[SensorOf[i]]
    BY DEF StartedIsActive
  <2>1. i \in Ifaces /\ sid[i] # NoId /\ Owner[i] \in alive /\ call[i] = "none"
    BY DEF idle, IInv, TypeOK, RunInv
  <2> QED
    BY <2>1 DEF HeldInv, OpenInv, ServedInv
<1> QED
  BY <1>1, HeldInvariant, SessionsInvariant, PTL

-----------------------------------------------------------------------------
(* What is closed leaves nothing behind, when the applications stop before *)
(* they release.                                                           *)

CallsRun ==
  \A i \in Ifaces : /\ call[i] = "start" => i \in running
                    /\ call[i] = "releaseSensor" => i \notin running

\* The session of an interface that is not running is not active.
StoppedInv ==
  \A i \in Ifaces :
    Owner[i] \in alive /\ sid[i] # NoId /\ i \notin running /\ call[i] # "stop" =>
      \A q \in Sensors : sid[i] \notin active[q]

CleanInv == CallsRun /\ StoppedInv /\ NothingLeftBehind

LEMMA CleanInit == Init => CleanInv
BY DEF Init, CleanInv, CallsRun, StoppedInv, NothingLeftBehind

\* Only an open session of a live client is added to what a sensor keeps.
LEMMA BehindKept ==
  ASSUME NothingLeftBehind, UNCHANGED <<sessions, clientOf>>, alive' \subseteq alive,
         \A q \in Sensors : \A s \in active'[q] \cup props'[q] :
           clientOf[s] \in alive => s \in active[q] \cup props[q] \/ s \in open
  PROVE  NothingLeftBehind'
<1>1. open' = open
  BY DEF open
<1> QED
  BY <1>1 DEF NothingLeftBehind

LEMMA ClientIsClean ==
  ASSUME StopFirst, IInv, CleanInv, Client
  PROVE  CleanInv'
<1>1. NothingLeftBehind'
  <2>1. UNCHANGED <<sessions, clientOf, active, props>> /\ alive' \subseteq alive
    BY DEF Client, requestInterface, initiateConnection, clientStart, clientStop,
           clientSetProperty, clientRelease, clientDies, managerVars, sensorVars
  <2> QED
    BY <2>1, BehindKept DEF CleanInv
<1>2. ASSUME NEW i \in Ifaces,
             \/ requestInterface(i) \/ clientStart(i) \/ clientStop(i)
             \/ clientSetProperty(i) \/ clientRelease(i)
      PROVE  CallsRun' /\ StoppedInv'
  <2>1. PICK m \in Calls \ {"none"} :
          /\ call' = [call EXCEPT ![i] = m] /\ call[i] = "none"
          /\ \/ m = "start" /\ running' = running \cup {i}
             \/ m = "stop" /\ running' = running \ {i}
             \/ m = "releaseSensor" /\ running' = running /\ i \notin running
             \/ m \in {"requestSensor", "setProperty"} /\ running' = running
    BY <1>2 DEF requestInterface, clientStart, clientStop, clientSetProperty,
                clientRelease, Calls, send, idle
  <2>2. call \in [Ifaces -> Calls] /\ UNCHANGED <<active, alive, sid>>
    BY <1>2 DEF requestInterface, clientStart, clientStop, clientSetProperty,
                clientRelease, sensorVars, IInv, TypeOK
  <2>3. CallsRun'
    BY <2>1, <2>2 DEF CleanInv, CallsRun
  <2>4. StoppedInv'
    BY <2>1, <2>2 DEF CleanInv, StoppedInv
  <2> QED
    BY <2>3, <2>4
<1>3. ASSUME NEW i \in Ifaces, initiateConnection(i) PROVE CallsRun' /\ StoppedInv'
  BY <1>3 DEF initiateConnection, CleanInv, CallsRun, StoppedInv, sensorVars
<1>4. ASSUME NEW c \in Clients, clientDies(c) PROVE CallsRun' /\ StoppedInv'
  BY <1>4 DEF clientDies, CleanInv, CallsRun, StoppedInv, sensorVars
<1> QED
  BY <1>1, <1>2, <1>3, <1>4 DEF Client, CleanInv

LEMMA RequestIsClean ==
  ASSUME IInv, HeldInv, CleanInv, NEW i \in Ifaces, requestSensor(i)
  PROVE  CleanInv'
<1> DEFINE n == sessionIdCount
<1>0. /\ call[i] = "requestSensor" /\ call' = [call EXCEPT ![i] = "none"]
      /\ UNCHANGED <<active, props, alive, running>>
      /\ sid[i] = NoId /\ call \in [Ifaces -> Calls]
      /\ n \in Nat /\ n \in Ids /\ SensorOf[i] \in Sensors
  BY RequestHasRoom, SensorOfAssumption
     DEF requestSensor, reply, sensorVars, IInv, CallInv, TypeOK
<1>1. \/ UNCHANGED <<sessions, clientOf, sid>>
      \/ /\ sessions' = [sessions EXCEPT ![SensorOf[i]] = @ \cup {n}]
         /\ clientOf' = [clientOf EXCEPT ![n] = Owner[i]]
         /\ sid' = [sid EXCEPT ![i] = n]
  BY DEF requestSensor, requestUnknown, requestFails, requestGranted, managerVars
<1>2. \A q \in Sensors : n \notin active[q] \cup props[q]
  BY <1>0 DEF HeldInv, KnownInv
<1>3. CallsRun'
  BY <1>0 DEF CleanInv, CallsRun
<1>4. StoppedInv'
  <2> SUFFICES ASSUME NEW j \in Ifaces, Owner[j] \in alive, sid'[j] # NoId,
                      j \notin running, call'[j] # "stop", NEW q \in Sensors
               PROVE  sid'[j] \notin active[q]
    BY <1>0 DEF StoppedInv
  <2>1. CASE sid'[j] = sid[j]
    BY <1>0, <2>1 DEF CleanInv, StoppedInv
  <2>2. CASE sid'[j] # sid[j]
    BY <1>1, <1>2, <2>2 DEF IInv, TypeOK
  <2> QED
    BY <2>1, <2>2
<1>5. NothingLeftBehind'
  <2> SUFFICES ASSUME NEW q \in Sensors, NEW s \in active[q] \cup props[q],
                      clientOf'[s] \in alive
               PROVE  s \in open'
    BY <1>0 DEF NothingLeftBehind
  <2>1. s # n /\ clientOf'[s] = clientOf[s]
    BY <1>0, <1>1, <1>2 DEF IInv, TypeOK
  <2>2. s \in open
    BY <2>1 DEF CleanInv, NothingLeftBehind
  <2>3. open \subseteq open'
    BY <1>0, <1>1 DEF open, IInv, TypeOK
  <2> QED
    BY <2>2, <2>3
<1> QED
  BY <1>3, <1>4, <1>5 DEF CleanInv

LEMMA CallsAreClean ==
  ASSUME IInv, HeldInv, CleanInv, NEW i \in Ifaces, start(i) \/ stop(i) \/ setProperty(i)
  PROVE  CleanInv'
<1>0. /\ sid[i] \in Ids /\ sid[i] # NoId /\ SensorOf[i] \in Sensors
      /\ call' = [call EXCEPT ![i] = "none"] /\ call \in [Ifaces -> Calls]
      /\ UNCHANGED <<managerVars, alive, sid, running>>
      /\ clientOf[sid[i]] = Owner[i]
  BY AnsweredHasId, IdsAreNumbers, SensorOfAssumption
     DEF start, stop, setProperty, reply, IInv, TypeOK, IdInv
<1>1. CallsRun'
  BY <1>0 DEF CleanInv, CallsRun
<1>2. /\ \A q \in Sensors : active'[q] \cup props'[q] \subseteq active[q] \cup props[q] \cup {sid[i]}
      /\ \A q \in Sensors : active'[q] \subseteq active[q] \cup
                              (IF start(i) THEN {sid[i]} ELSE {})
      /\ stop(i) => \A q \in Sensors : sid[i] \notin active'[q]
  BY DEF start, stop, stopSessions, setProperty, IInv, TypeOK
<1>3. StoppedInv'
  <2> SUFFICES ASSUME NEW j \in Ifaces, Owner[j] \in alive, sid[j] # NoId,
                      j \notin running, call'[j] # "stop", NEW q \in Sensors
               PROVE  sid[j] \notin active'[q]
    BY <1>0 DEF StoppedInv
  <2>1. CASE j = i
    <3>1. CASE stop(i)
      BY <1>2, <2>1, <3>1
    <3>2. CASE start(i)
      BY <2>1, <3>2 DEF start, CleanInv, CallsRun
    <3>3. CASE setProperty(i)
      <4>1. call[i] # "stop" /\ active' = active
        BY <3>3 DEF setProperty
      <4> QED
        BY <2>1, <4>1 DEF CleanInv, StoppedInv
    <3> QED
      BY <3>1, <3>2, <3>3
  <2>2. CASE j # i
    <3>1. sid[j] # sid[i] /\ call[j] # "stop"
      BY <1>0, <2>2 DEF IInv, IdInv
    <3> QED
      BY <1>2, <3>1 DEF CleanInv, StoppedInv
  <2> QED
    BY <2>1, <2>2
<1>4. NothingLeftBehind'
  <2>1. Owner[i] \in alive => sid[i] \in open
    BY <1>0 DEF HeldInv, OpenInv, open
  <2>2. \A q \in Sensors : \A s \in active'[q] \cup props'[q] :
          clientOf[s] \in alive => s \in active[q] \cup props[q] \/ s \in open
    BY <1>0, <1>2, <2>1
  <2> QED
    BY <1>0, <2>2, BehindKept DEF CleanInv, managerVars
<1> QED
  BY <1>1, <1>3, <1>4 DEF CleanInv

\* A live client releases a session that it has stopped before.
LEMMA ReleaseIsClean ==
  ASSUME IInv, CleanInv, NEW i \in Ifaces, releaseSensor(i)
  PROVE  CleanInv'
<1>0. /\ sid[i] # NoId /\ clientOf[sid[i]] = Owner[i] /\ call[i] = "releaseSensor"
      /\ call' = [call EXCEPT ![i] = "none"] /\ call \in [Ifaces -> Calls]
      /\ sid' = [sid EXCEPT ![i] = NoId] /\ sid \in [Ifaces -> Ids \cup {NoId}]
      /\ running' = running \ {i}
      /\ UNCHANGED <<active, alive, clientOf>>
  BY AnsweredHasId, IdsAreNumbers DEF releaseSensor, reply, IInv, TypeOK, IdInv
<1>1. CallsRun' /\ StoppedInv'
  BY <1>0 DEF CleanInv, CallsRun, StoppedInv
<1>2. Owner[i] \in alive => \A q \in Sensors : sid[i] \notin active[q]
  BY <1>0 DEF CleanInv, CallsRun, StoppedInv
<1>3. CASE releaseOwned(i)
  <2>1. /\ props' = [q \in Sensors |-> props[q] \ {sid[i]}]
        /\ sessions' = [q \in Sensors |-> sessions[q] \ {sid[i]}]
    BY <1>3 DEF releaseOwned, releaseSessions
  <2>2. open' = open \ {sid[i]}
    BY <2>1 DEF open
  <2>3. NothingLeftBehind'
    BY <1>0, <1>2, <2>1, <2>2 DEF CleanInv, NothingLeftBehind
  <2> QED
    BY <1>1, <2>3 DEF CleanInv
<1>4. CASE releaseIgnored(i)
  <2>1. NothingLeftBehind'
    BY <1>0, <1>4, BehindKept DEF releaseIgnored, CleanInv
  <2> QED
    BY <1>1, <2>1 DEF CleanInv
<1> QED
  BY <1>3, <1>4 DEF releaseSensor

\* lostClient() stops what it releases.
LEMMA LostIsClean ==
  ASSUME CleanInv, NEW S, lostClients(S), UNCHANGED clientVars
  PROVE  CleanInv'
<1> DEFINE found == S \cap UNION {sessions[q] : q \in Sensors}
<1>1. /\ active' = [q \in Sensors |-> active[q] \ found]
      /\ props' = [q \in Sensors |-> props[q] \ found]
      /\ sessions' = [q \in Sensors |-> sessions[q] \ found]
      /\ UNCHANGED <<clientOf, alive, sid, running, call>>
  BY DEF lostClients, stopSessions, releaseSessions, clientVars
<1> HIDE DEF found
<1>2. open' = open \ found
  BY <1>1 DEF open
<1> QED
  BY <1>1, <1>2 DEF CleanInv, CallsRun, StoppedInv, NothingLeftBehind

LEMMA CleanNext ==
  ASSUME StopFirst, IInv, HeldInv, CleanInv, [Next]_vars
  PROVE  CleanInv'
<1>0. ASSUME UNCHANGED <<sessions, clientOf, active, props, alive, sid, running, call>>
      PROVE  CleanInv'
  BY <1>0 DEF CleanInv, CallsRun, StoppedInv, NothingLeftBehind, open
<1>1. CASE UNCHANGED vars
  BY <1>0, <1>1 DEF vars, managerVars, sensorVars, clientVars
<1>2. CASE Client
  BY <1>2, ClientIsClean
<1>3. ASSUME NEW s \in Ids, socketReadable(s) PROVE CleanInv'
  BY <1>0, <1>3 DEF socketReadable, managerVars, sensorVars, clientVars
<1>4. ASSUME NEW s \in Ids, socketDisconnected(s) PROVE CleanInv'
  BY <1>4, LostIsClean DEF socketDisconnected
<1>5. ASSUME NEW s \in Ids, timerTimeout(s) PROVE CleanInv'
  <2>1. CASE s \in idMap
    BY <1>0, <1>5, <2>1 DEF timerTimeout, sensorVars, clientVars
  <2>2. CASE s \notin idMap
    BY <1>5, <2>2, LostIsClean DEF timerTimeout
  <2> QED
    BY <2>1, <2>2
<1>6. ASSUME NEW c \in Clients, dbusClientUnregistered(c) PROVE CleanInv'
  BY <1>6, LostIsClean DEF dbusClientUnregistered
<1>7. CASE Daemon
  BY <1>3, <1>4, <1>5, <1>6, <1>7, RequestIsClean, CallsAreClean, ReleaseIsClean DEF Daemon
<1> QED
  BY <1>1, <1>2, <1>7 DEF Next

\* What a sensor keeps for a live client, it keeps for an open session: no
\* activity and no property request outlives its session, for clients that
\* connect in time and stop before they release.
THEOREM ClosedLeavesNothing ==
  ASSUME ~MayTimeOut, StopFirst PROVE Spec => []NothingLeftBehind
<1> DEFINE Inv == IInv /\ HeldInv /\ CleanInv
<1>1. Init => Inv
  BY InitInv, HeldInit, CleanInit
<1>2. Inv /\ [Next]_vars => Inv'
  BY NextInv, HeldNext, CleanNext
<1>3. Inv => NothingLeftBehind
  BY DEF CleanInv
<1> QED
  BY <1>1, <1>2, <1>3, PTL DEF Spec

-----------------------------------------------------------------------------
(* The service implements the registry it promises. *)

registryVars == <<sessionIdCount, [s \in open |-> clientOf[s]]>>

\* A step of the registry, or one it does not see.
registryStep == Registry!Next \/ UNCHANGED registryVars

LEMMA UnseenStep ==
  ASSUME UNCHANGED <<sessionIdCount, sessions, clientOf>>
  PROVE  registryStep
BY DEF registryStep, registryVars, open

\* releaseSessions() closes the open sessions among those it is given.
LEMMA ReleaseCloses ==
  ASSUME NEW S, releaseSessions(S), UNCHANGED <<sessionIdCount, clientOf>>
  PROVE  registryStep
<1>0. PICK closed : closed = open \cap S
  OBVIOUS
<1>1. open' = open \ closed
  BY <1>0 DEF releaseSessions, open
<1>2. CASE closed = {}
  <2>1. open' = open
    BY <1>1, <1>2
  <2> QED
    BY <2>1 DEF registryStep, registryVars
<1>3. CASE closed # {}
  <2> DEFINE o == [s \in open |-> clientOf[s]]
  <2>1. closed \subseteq open
    BY <1>0
  <2>2. DOMAIN o = open
    OBVIOUS
  <2>3. [s \in open' |-> clientOf'[s]] = [s \in DOMAIN o \ closed |-> o[s]]
    BY <1>1, <2>2
  <2>4. closed \in SUBSET DOMAIN o /\ closed # {} /\ closed \subseteq DOMAIN o
    BY <1>3, <2>1, <2>2
  <2>5. Registry!Close(closed)
    BY <2>3, <2>4 DEF Registry!Close
  <2>6. \E T \in SUBSET DOMAIN o : Registry!Close(T)
    BY <2>4, <2>5
  <2>7. Registry!Next
    BY <2>6 DEF Registry!Next
  <2> QED
    BY <2>7 DEF registryStep
<1> QED
  BY <1>2, <1>3

LEMMA LostCloses ==
  ASSUME NEW S, lostClients(S)
  PROVE  registryStep
BY ReleaseCloses DEF lostClients

\* A granted request opens the next session, for the client that asked.
LEMMA GrantOpens ==
  ASSUME IInv, NEW i \in Ifaces, requestSensor(i), requestGranted(i)
  PROVE  registryStep
<1> DEFINE n == sessionIdCount
           q == SensorOf[i]
           o == [s \in open |-> clientOf[s]]
<1>1. /\ n \in Ids /\ n \notin instances /\ q \in Sensors /\ Owner[i] \in Clients
      /\ call[i] = "requestSensor"
  BY RequestHasRoom, OwnerAssumption, SensorOfAssumption DEF requestSensor
<1>2. /\ sessionIdCount' = n + 1
      /\ sessions' = [sessions EXCEPT ![q] = @ \cup {n}]
      /\ clientOf' = [clientOf EXCEPT ![n] = Owner[i]]
  BY DEF requestGranted
<1>3. open' = open \cup {n}
  BY <1>1, <1>2 DEF open, IInv, TypeOK
<1>4. open = instances /\ open \subseteq Ids
  BY DEF IInv, SessionsAgree, TypeOK
<1>5. \A s \in open' : clientOf'[s] = IF s = n THEN Owner[i] ELSE clientOf[s]
  BY <1>1, <1>2, <1>3, <1>4 DEF IInv, TypeOK
<1>6. DOMAIN o = open
  OBVIOUS
<1>7. [s \in open' |-> clientOf'[s]]
        = [s \in DOMAIN o \cup {n} |-> IF s = n THEN Owner[i] ELSE o[s]]
  BY <1>3, <1>5, <1>6
<1>8. Registry!Open(Owner[i])
  BY <1>2, <1>7 DEF Registry!Open
<1> QED
  BY <1>1, <1>8 DEF Registry!Next, registryStep

LEMMA RequestMaps ==
  ASSUME IInv, NEW i \in Ifaces, requestSensor(i)
  PROVE  registryStep
<1>1. CASE requestUnknown(i)
  BY <1>1, UnseenStep DEF requestUnknown, managerVars
<1>2. CASE requestFails(i)
  <2>1. UNCHANGED <<sessions, clientOf>> /\ sessionIdCount' = sessionIdCount + 1
    BY <1>2 DEF requestFails
  <2>2. Registry!Refuse
    BY <2>1 DEF Registry!Refuse, open
  <2> QED
    BY <2>2 DEF Registry!Next, registryStep
<1>3. CASE requestGranted(i)
  BY <1>3, GrantOpens
<1> QED
  BY <1>1, <1>2, <1>3 DEF requestSensor

LEMMA StepMaps == IInv /\ [Next]_vars => registryStep
<1> SUFFICES ASSUME IInv, [Next]_vars PROVE registryStep
  OBVIOUS
<1>1. CASE UNCHANGED vars
  BY <1>1, UnseenStep DEF vars, managerVars
<1>2. CASE Client
  <2>1. UNCHANGED managerVars
    BY <1>2 DEF Client, requestInterface, initiateConnection, clientStart, clientStop,
                clientSetProperty, clientRelease, clientDies
  <2> QED
    BY <2>1, UnseenStep DEF managerVars
<1>3. ASSUME NEW i \in Ifaces, releaseSensor(i)
      PROVE  registryStep
  <2>1. UNCHANGED <<sessionIdCount, clientOf>>
    BY <1>3 DEF releaseSensor
  <2>2. CASE releaseOwned(i)
    BY <2>1, <2>2, ReleaseCloses DEF releaseOwned
  <2>3. CASE releaseIgnored(i)
    BY <2>1, <2>3, UnseenStep DEF releaseIgnored
  <2> QED
    BY <1>3, <2>2, <2>3 DEF releaseSensor
<1>4. ASSUME NEW i \in Ifaces, start(i) \/ stop(i) \/ setProperty(i)
      PROVE  registryStep
  BY <1>4, UnseenStep DEF start, stop, setProperty, managerVars
<1>5. ASSUME NEW s \in Ids, socketReadable(s) \/ socketDisconnected(s)
      PROVE  registryStep
  BY <1>5, UnseenStep, LostCloses DEF socketReadable, socketDisconnected, managerVars
<1>6. ASSUME NEW s \in Ids, timerTimeout(s)
      PROVE  registryStep
  BY <1>6, UnseenStep, LostCloses DEF timerTimeout
<1>7. ASSUME NEW c \in Clients, dbusClientUnregistered(c)
      PROVE  registryStep
  BY <1>7, LostCloses DEF dbusClientUnregistered
<1>8. CASE Daemon
  BY <1>8, <1>3, <1>4, <1>5, <1>6, <1>7, RequestMaps DEF Daemon
<1> QED
  BY <1>1, <1>2, <1>8 DEF Next

\* Every behaviour of the service is one of the registry: ids go up, each is
\* opened once for one client, and a session once closed stays closed.
THEOREM ServiceImplementsRegistry == Spec => ImplementsRegistry
<1>1. Init => Registry!Init
  <2> SUFFICES ASSUME Init PROVE Registry!Init
    OBVIOUS
  <2>1. open = {}
    BY DEF Init, open
  <2> QED
    BY <2>1 DEF Init, Registry!Init
<1>2. IInv /\ [Next]_vars => [Registry!Next]_registryVars
  BY StepMaps DEF registryStep
<1> QED
  BY <1>1, <1>2, SessionsInvariant, PTL DEF Spec, ImplementsRegistry, Registry!Spec, registryVars

=============================================================================
