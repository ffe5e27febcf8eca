---------------------------- MODULE HybrisAdaptor ----------------------------
(***************************************************************************)
(* Life cycle of an adaptor of the Android HAL: HybrisAdaptor and the part *)
(* of HybrisManager that activates its sensor (core/hybrisadaptor.cpp).    *)
(*                                                                         *)
(* It answers the same calls as a SysfsAdaptor, from the same main thread, *)
(* and decides in one place, evaluateSensor(), whether to run.  The sensor *)
(* itself can refuse an activation, fail a deactivation and, when it is a  *)
(* one-shot sensor, stop on its own after an event.                        *)
(***************************************************************************)
EXTENDS Integers, FiniteSets

CONSTANTS Users,     \* chains, sensors and bins that start and stop the adaptor
          Sessions,  \* client sessions that may ask for standby override
          Results    \* what the HAL may answer to setActive

ASSUME ResultsAssumption == Results \subseteq BOOLEAN /\ TRUE \in Results

VARIABLES
  users,       \* the users between their startSensor() and stopSensor()
  overriders,  \* NodeBase::m_standbyRequestList
  blanked,     \* DeviceAdaptor::screenBlanked_
  inStandby,   \* HybrisAdaptor::m_inStandbyMode
  shouldRun,   \* HybrisAdaptor::m_shouldBeRunning
  isRunning,   \* HybrisAdaptor::m_isRunning
  count,       \* AdaptedSensorEntry::count_
  entryRunning,\* AdaptedSensorEntry::running_
  active,      \* HybrisSensorState::m_active, the state the HAL was left in
  refused,     \* the HAL failed the last activation or deactivation
  fired        \* the running sensor has delivered its one event

runVars == <<isRunning, count, entryRunning, active, refused, fired>>
vars == <<users, overriders, blanked, inStandby, shouldRun, isRunning, count,
          entryRunning, active, refused, fired>>

RequestsOK == users \subseteq Users /\ overriders \subseteq Sessions /\ blanked \in BOOLEAN

ModesOK == inStandby \in BOOLEAN /\ shouldRun \in BOOLEAN

RunFlagsOK ==
  /\ isRunning \in BOOLEAN /\ entryRunning \in BOOLEAN
  /\ active \in BOOLEAN /\ refused \in BOOLEAN /\ fired \in BOOLEAN

\* The entry's references are counted and never below zero; the rest are
\* requests and flags.
TypeOK == RequestsOK /\ ModesOK /\ RunFlagsOK /\ count \in Nat

Init ==
  /\ users = {} /\ overriders = {}
  /\ blanked \in BOOLEAN
  /\ inStandby = FALSE /\ shouldRun = FALSE
  /\ isRunning = FALSE /\ count = 0 /\ entryRunning = FALSE
  /\ active = FALSE /\ refused = FALSE /\ fired = FALSE

-----------------------------------------------------------------------------
deviceStandbyOverride == overriders # {}

\* HybrisManager::setActive(): nothing to do when the bookkeeping agrees.
setActive(on, ok) == active' = (IF ok THEN on ELSE active)

\* evaluateSensor() turned on: startReader(), then one reference.
startReader(ok) ==
  /\ isRunning' = TRUE
  /\ setActive(TRUE, ok)
  /\ count' = count + 1
  /\ entryRunning' = (entryRunning \/ count' = 1)
  /\ refused' = ~active'
  /\ fired' = FALSE

\* evaluateSensor() turned off.
stopReader(ok) ==
  /\ isRunning' = FALSE
  /\ setActive(FALSE, ok)
  /\ count' = count - 1
  /\ entryRunning' = (entryRunning /\ count' # 0)
  /\ refused' = active'
  /\ fired' = FALSE

\* evaluateSensor(), run with the new values of the flags it reads.
evaluateSensor ==
  LET startRunning == shouldRun' /\ (overriders' # {} \/ ~inStandby')
  IN  \/ startRunning = isRunning /\ UNCHANGED runVars
      \/ startRunning /\ ~isRunning /\ \E ok \in Results : startReader(ok)
      \/ ~startRunning /\ isRunning /\ \E ok \in Results : stopReader(ok)

startSensor(u) ==
  /\ u \notin users
  /\ users' = users \cup {u}
  /\ shouldRun' = TRUE
  /\ UNCHANGED <<overriders, blanked, inStandby>>
  /\ IF shouldRun THEN UNCHANGED runVars ELSE evaluateSensor

\* The first stop clears the only flag, however many users there are.
stopSensor(u) ==
  /\ u \in users
  /\ users' = users \ {u}
  /\ shouldRun' = FALSE
  /\ UNCHANGED <<overriders, blanked, inStandby>>
  /\ IF shouldRun THEN evaluateSensor ELSE UNCHANGED runVars

\* Mutant: only resume() evaluates.
setStandbyMode_ResumeOnly(standby) ==
  /\ inStandby' = standby
  /\ IF inStandby = standby \/ standby THEN UNCHANGED runVars ELSE evaluateSensor

\* Mutant: only standby() evaluates.
setStandbyMode_StandbyOnly(standby) ==
  /\ inStandby' = standby
  /\ IF inStandby = standby \/ ~standby THEN UNCHANGED runVars ELSE evaluateSensor

\* standby() and resume() do nothing when the mode does not change.
setStandbyMode(standby) ==
  /\ inStandby' = standby
  /\ IF inStandby = standby THEN UNCHANGED runVars ELSE evaluateSensor

\* SensorManager::displayStateChanged(), for this adaptor.
displayStateChanged(on) ==
  /\ blanked' = ~on
  /\ UNCHANGED <<users, overriders, shouldRun>>
  /\ setStandbyMode(~on)

\* NodeBase::setStandbyOverrideRequest() of a leaf node, which always ends in
\* DeviceAdaptor::setStandbyOverride().
setStandbyOverride(s, override) ==
  /\ overriders' = IF override THEN overriders \cup {s} ELSE overriders \ {s}
  /\ UNCHANGED <<users, blanked, shouldRun>>
  /\ IF blanked THEN setStandbyMode(overriders' = {})
                ELSE UNCHANGED <<inStandby, runVars>>

\* processEvents(): the event of a one-shot sensor is pushed to the adaptor
\* and the sensor is then taken as stopped.
OneshotEvent ==
  /\ active
  /\ \E ok \in Results : setActive(FALSE, ok)
  /\ fired' = isRunning
  /\ refused' = active'
  /\ UNCHANGED <<users, overriders, blanked, inStandby, shouldRun, isRunning,
                 count, entryRunning>>

\* The calls of the sensors and chains above, of the display and of sessions.
Called ==
  \/ \E u \in Users : startSensor(u)
  \/ \E u \in Users : stopSensor(u)
  \/ \E on \in BOOLEAN : blanked = on /\ displayStateChanged(on)
  \/ \E s \in Sessions, override \in BOOLEAN : setStandbyOverride(s, override)

Next == Called \/ OneshotEvent

Spec == Init /\ [][Next]_vars

-----------------------------------------------------------------------------
\* A wanted sensor runs whenever the display is lit or overridden: no order of
\* start, blanking and override requests leaves it off.
WantedRuns ==
  shouldRun /\ (~blanked \/ deviceStandbyOverride) => isRunning

\* An unused sensor never runs, standby or not: unlike a sysfs adaptor, a stop
\* that arrives in standby is remembered.
UnusedStops == isRunning => users # {}

\* The entry's count and flag follow the adaptor, so that stopAdaptor(), which
\* asks the entry, stops exactly a running sensor.
EntryFollows == (entryRunning <=> isRunning) /\ count = (IF isRunning THEN 1 ELSE 0)

\* The HAL's sensor is active exactly while the adaptor runs it, one-shot
\* events included, unless the HAL failed the last change.
ActiveFollows == ~refused => (active <=> isRunning /\ ~fired)

\* Display off with no override outstanding stops the sensor.
DisplayOffStops ==
  [][ ~blanked /\ blanked' /\ overriders' = {} => ~isRunning' ]_vars
=============================================================================
