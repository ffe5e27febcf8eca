----------------------------- MODULE Calibration -----------------------------
(***************************************************************************)
(* The background calibration of the magnetometer                          *)
(* (sensord/calibrationhandler.cpp).                                       *)
(*                                                                         *)
(* The handler uses the magnetometer sensor beside the clients' sessions:  *)
(* its session has an id and requests, but it starts and stops the sensor  *)
(* without it, in the same count.  Whether the handler has the sensor      *)
(* started is remembered in its timer only: it stops, and refuses to       *)
(* resume, when the timer is active.  The display, the power save mode,    *)
(* the samples and the timeout all work on that timer.                     *)
(*                                                                         *)
(* A sysfs adaptor reads on a thread of its own.  Its samples reach the    *)
(* handler, which lives on the main thread, through the main thread's      *)
(* event queue, and what is in that queue is delivered even when the       *)
(* handler has been disconnected since.  A HAL adaptor's samples reach it  *)
(* at once.                                                                *)
(***************************************************************************)
EXTENDS Naturals, Sequences, FiniteSets

CONSTANTS Sessions,   \* sessions of clients
          Levels,     \* levels of calibration a sample may have
          MaxQueued   \* bound on the samples in the main thread's queue

ASSUME SessionsAssumption == IsFiniteSet(Sessions)
ASSUME QueuedAssumption == MaxQueued \in Nat

VARIABLES
  threaded,   \* samples come from a thread other than the main thread
  granted,    \* the handler has got its session: m_sensor is set
  timer,      \* m_timer is active
  level,      \* m_level
  connected,  \* sampleReceived() is connected to the sensor
  overriding, \* the handler's session overrides standby
  cnt,        \* AbstractSensorChannel::cnt_
  sessions,   \* AbstractSensorChannel::activeSessions_
  queue,      \* samples in the main thread's event queue
  display,    \* MceWatcher::displayState
  powerSave,  \* MceWatcher::powerSave
  stray       \* a sample of an ended calibration has started the timer

handlerVars == <<timer, connected, overriding>>
sensorVars == <<cnt, sessions>>
deviceVars == <<display, powerSave>>
vars == <<threaded, granted, handlerVars, level, sensorVars, queue, deviceVars, stray>>

Unknown == "unknown"  \* -1, before the first sample

\* Flags, the count of starts, levels of samples.
TypeOK ==
  /\ threaded \in BOOLEAN /\ granted \in BOOLEAN /\ stray \in BOOLEAN
  /\ timer \in BOOLEAN /\ connected \in BOOLEAN /\ overriding \in BOOLEAN
  /\ display \in BOOLEAN /\ powerSave \in BOOLEAN
  /\ cnt \in Nat /\ sessions \subseteq Sessions
  /\ level \in Levels \cup {Unknown} /\ queue \in Seq(Levels)

-----------------------------------------------------------------------------
\* AbstractSensorChannel::start() and stop(), and how many have asked for them.
Start == cnt' = cnt + 1
Stop == cnt' = IF cnt = 0 THEN 0 ELSE cnt - 1

\* Mutant: the override is not withdrawn.
StopSensor_KeepsOverride ==
  /\ connected' = FALSE
  /\ Stop
  /\ UNCHANGED overriding

\* m_sensor->setStandbyOverrideRequest(), stop() and disconnect().
StopSensor ==
  /\ overriding' = FALSE /\ connected' = FALSE
  /\ Stop

\* Mutant: the sensor is started although it has not been stopped.
resumeCalibration_Again ==
  /\ IF granted
     THEN Start /\ overriding' = TRUE /\ connected' = TRUE
     ELSE UNCHANGED <<cnt, overriding, connected>>
  /\ timer' = TRUE

resumeCalibration ==
  /\ IF granted /\ ~timer
     THEN Start /\ overriding' = TRUE /\ connected' = TRUE
     ELSE UNCHANGED <<cnt, overriding, connected>>
  /\ timer' = TRUE

stopCalibration ==
  IF granted /\ timer THEN timer' = FALSE /\ StopSensor
                      ELSE UNCHANGED <<handlerVars, cnt>>

\* initiateSession() ends with resumeCalibration(), with or without a session.
Init ==
  /\ threaded \in BOOLEAN /\ granted \in BOOLEAN
  /\ timer = TRUE /\ level = Unknown
  /\ connected = granted /\ overriding = granted
  /\ cnt = (IF granted THEN 1 ELSE 0) /\ sessions = {}
  /\ queue = <<>> /\ stray = FALSE
  /\ display \in BOOLEAN /\ powerSave = FALSE

-----------------------------------------------------------------------------
\* The timer is a single shot.
calibrationTimeout ==
  /\ timer /\ timer' = FALSE
  /\ IF granted THEN StopSensor ELSE UNCHANGED <<connected, overriding, cnt>>
  /\ UNCHANGED <<threaded, granted, level, sessions, queue, deviceVars, stray>>

\* A sample of a new level starts the timer anew, whether or not it is active.
sampleReceived(l) ==
  /\ level' = l
  /\ timer' = (timer \/ l # level)
  /\ stray' = (stray \/ (l # level /\ ~connected))

\* MagnetometerSensorChannel::emitData().
emitData(l) ==
  /\ cnt > 0 /\ connected
  /\ IF threaded
     THEN /\ Len(queue) < MaxQueued /\ queue' = Append(queue, l)
          /\ UNCHANGED <<timer, level, stray>>
     ELSE sampleReceived(l) /\ UNCHANGED queue
  /\ UNCHANGED <<threaded, granted, connected, overriding, sensorVars, deviceVars>>

deliverSample ==
  /\ queue # <<>> /\ queue' = Tail(queue)
  /\ sampleReceived(Head(queue))
  /\ UNCHANGED <<threaded, granted, connected, overriding, sensorVars, deviceVars>>

\* SensorManager::displayStateChanged(), for a change only: calibration goes
\* on when the display is turned on, not in power save mode.
displayStateChanged ==
  /\ display' = ~display
  /\ IF display' /\ ~powerSave THEN resumeCalibration ELSE UNCHANGED <<handlerVars, cnt>>
  /\ UNCHANGED <<threaded, granted, level, sessions, queue, powerSave, stray>>

\* Mutant: power save mode does not end a calibration.
devicePSMStateChanged_Ignored ==
  /\ powerSave' = ~powerSave
  /\ UNCHANGED <<threaded, granted, handlerVars, level, sensorVars, queue, display, stray>>

\* SensorManager::devicePSMStateChanged(), for a change only.
devicePSMStateChanged ==
  /\ powerSave' = ~powerSave
  /\ IF powerSave' THEN stopCalibration ELSE UNCHANGED <<handlerVars, cnt>>
  /\ UNCHANGED <<threaded, granted, level, sessions, queue, display, stray>>

\* AbstractSensorChannel::start(int) and stop(int), for a client's session.
startSession(s) ==
  /\ s \notin sessions /\ sessions' = sessions \cup {s}
  /\ Start
  /\ UNCHANGED <<threaded, granted, handlerVars, level, queue, deviceVars, stray>>

stopSession(s) ==
  /\ s \in sessions /\ sessions' = sessions \ {s}
  /\ Stop
  /\ UNCHANGED <<threaded, granted, handlerVars, level, queue, deviceVars, stray>>

Next ==
  \/ calibrationTimeout \/ deliverSample
  \/ displayStateChanged \/ devicePSMStateChanged
  \/ \E l \in Levels : emitData(l)
  \/ \E s \in Sessions : startSession(s) \/ stopSession(s)

Spec == Init /\ [][Next]_vars

-----------------------------------------------------------------------------
\* As long as no sample of an ended calibration has started the timer, the
\* sensor's count is that of its sessions and one for the handler while its
\* timer is active, in any order of timeouts, samples, display and power save.
StartsBalanced ==
  ~stray => cnt = Cardinality(sessions) + (IF granted /\ timer THEN 1 ELSE 0)

\* The handler keeps the magnetometer awake in the dark only while the timer
\* that ends it is active, strays or not.
OverrideIsLimited == overriding => timer /\ connected /\ granted

\* In power save mode the handler neither reads the sensor nor keeps it awake:
\* no sample, timeout or display brings a calibration back.
QuietInPowerSave == powerSave => ~connected /\ ~overriding

\* core/abstractsensor.h:88: "Sensor is running if there are any open sessions
\* for it."  The sensor runs while its count is not zero.
SessionsServed == sessions # {} => cnt > 0
=============================================================================
