---------------------------- MODULE SysfsAdaptor ----------------------------
(***************************************************************************)
(* Life cycle of an adaptor that reads a device through sysfs files        *)
(* (core/sysfsadaptor.cpp on top of core/deviceadaptor.cpp).               *)
(*                                                                         *)
(* The chains and bins that use the adaptor call startSensor() and         *)
(* stopSensor(); SensorManager::displayStateChanged() calls standby() and  *)
(* resume(); a session's standbyOverride request reaches                   *)
(* DeviceAdaptor::setStandbyOverride().  All of them run on the main       *)
(* thread of the daemon, one call at a time.  The reader thread is here    *)
(* only as "alive or not": stopReaderThread() joins it before returning.   *)
(***************************************************************************)
EXTENDS Integers, FiniteSets

CONSTANTS Users,      \* chains and bins that start and stop the adaptor
          Sessions,   \* client sessions that may ask for standby override
          OpenResults, \* what opening the device may return
          MaxDrift    \* bound on the references lost: |users| - count

ASSUME UsersAssumption == IsFiniteSet(Users)
ASSUME OpenAssumption == OpenResults \subseteq BOOLEAN /\ TRUE \in OpenResults
ASSUME DriftAssumption == MaxDrift \in Nat

VARIABLES
  users,         \* the users between their startSensor() and stopSensor()
  overriders,    \* NodeBase::m_standbyRequestList
  blanked,       \* DeviceAdaptor::screenBlanked_
  count,         \* AdaptedSensorEntry::count_
  entryRunning,  \* AdaptedSensorEntry::running_
  running,       \* SysfsAdaptor::m_running
  shouldRun,     \* SysfsAdaptor::m_shouldBeRunning
  inStandby,     \* SysfsAdaptor::m_inStandbyMode
  reader,        \* the reader thread is alive
  fds,           \* how many times openFds() succeeded since closeAllFds()
  openFailed     \* the last startReaderThread() could not open the device

requestVars == <<users, overriders, blanked>>
deviceVars  == <<reader, fds, openFailed>>
flagVars    == <<count, entryRunning, running, shouldRun, inStandby>>
vars == <<users, overriders, blanked, count, entryRunning, running, shouldRun,
          inStandby, reader, fds, openFailed>>

RequestsOK == users \subseteq Users /\ overriders \subseteq Sessions /\ blanked \in BOOLEAN

CountersOK == count \in Int /\ fds \in Nat

FlagsOK ==
  /\ entryRunning \in BOOLEAN /\ running \in BOOLEAN /\ shouldRun \in BOOLEAN
  /\ inStandby \in BOOLEAN /\ reader \in BOOLEAN /\ openFailed \in BOOLEAN

\* References and descriptor sets are counted, the rest are requests and flags.
TypeOK == RequestsOK /\ CountersOK /\ FlagsOK

\* The display may already be blank when the adaptor is created.
Init ==
  /\ users = {} /\ overriders = {}
  /\ blanked \in BOOLEAN
  /\ count = 0 /\ fds = 0
  /\ entryRunning = FALSE /\ running = FALSE /\ shouldRun = FALSE
  /\ inStandby = FALSE /\ reader = FALSE /\ openFailed = FALSE

-----------------------------------------------------------------------------
deviceStandbyOverride == overriders # {}

\* A failed start and a standby each lose a reference, without limit.
DriftBound == Cardinality(users) - count < MaxDrift

\* openFds() appends to the descriptor list, closeAllFds() empties it; a
\* failed open closes whatever the adaptor holds.
startReaderThread(opened) ==
  /\ openFailed' = ~opened
  /\ fds' = IF opened THEN fds + 1 ELSE 0
  /\ reader' = (opened \/ reader)

stopReaderThread ==
  /\ reader' = FALSE
  /\ fds' = 0
  /\ UNCHANGED openFailed

-----------------------------------------------------------------------------
\* startSensor(): already running, or put off until the adaptor resumes.
StartCounted ==
  /\ count' = count + 1
  /\ IF running
     THEN UNCHANGED shouldRun
     ELSE /\ inStandby /\ ~deviceStandbyOverride
          /\ shouldRun' = TRUE
  /\ UNCHANGED <<entryRunning, running, inStandby, reader, fds, openFailed>>

\* Mutant: the early return of a running adaptor is missing.
StartReading_Again(opened) ==
  /\ ~inStandby \/ deviceStandbyOverride
  /\ startReaderThread(opened)
  /\ count' = IF opened THEN count + 1 ELSE count
  /\ entryRunning' = opened /\ running' = opened /\ shouldRun' = opened
  /\ inStandby' = FALSE

\* startSensor(): the reader thread is started, or the device cannot be opened.
StartReading(opened) ==
  /\ ~running
  /\ ~inStandby \/ deviceStandbyOverride
  /\ opened \/ DriftBound
  /\ startReaderThread(opened)
  /\ count' = IF opened THEN count + 1 ELSE count
  /\ entryRunning' = opened /\ running' = opened /\ shouldRun' = opened
  /\ inStandby' = FALSE

startSensor(u) ==
  /\ u \notin users
  /\ users' = users \cup {u}
  /\ StartCounted \/ \E opened \in OpenResults : StartReading(opened)
  /\ UNCHANGED <<overriders, blanked>>

\* Mutant: the last reference is taken for one too many (< 0 for <= 0).
DropReference_OffByOne ==
  /\ count' = count - 1
  /\ IF count' >= 0
     THEN UNCHANGED <<entryRunning, running, reader, fds, openFailed>>
     ELSE /\ IF inStandby THEN UNCHANGED deviceVars ELSE stopReaderThread
          /\ entryRunning' = FALSE /\ running' = FALSE
  /\ UNCHANGED <<shouldRun, inStandby>>

\* Mutant: the reader is stopped with one reference left.
DropReference_TooEarly ==
  /\ count' = count - 1
  /\ IF count' > 1
     THEN UNCHANGED <<entryRunning, running, reader, fds, openFailed>>
     ELSE /\ IF inStandby THEN UNCHANGED deviceVars ELSE stopReaderThread
          /\ entryRunning' = FALSE /\ running' = FALSE
  /\ UNCHANGED <<shouldRun, inStandby>>

\* The body of stopSensor(); m_shouldBeRunning keeps its value.
DropReference ==
  /\ count' = count - 1
  /\ IF count' > 0
     THEN UNCHANGED <<entryRunning, running, reader, fds, openFailed>>
     ELSE /\ IF inStandby THEN UNCHANGED deviceVars ELSE stopReaderThread
          /\ entryRunning' = FALSE /\ running' = FALSE
  /\ UNCHANGED <<shouldRun, inStandby>>

stopSensor(u) ==
  /\ u \in users
  /\ users' = users \ {u}
  /\ DropReference
  /\ UNCHANGED <<overriders, blanked>>

\* Mutant: standby() does not look at the override.
standby_Overridden(overridden) ==
  IF inStandby \/ ~running
  THEN UNCHANGED <<flagVars, deviceVars>>
  ELSE /\ inStandby' = TRUE /\ shouldRun' = TRUE /\ running' = FALSE
       /\ stopReaderThread
       /\ count' = IF entryRunning THEN count - 1 ELSE count
       /\ entryRunning' = (entryRunning /\ count' > 0)

\* standby() releases the device and then runs stopAdaptor(), whose
\* stopSensor() takes a reference away from a user that still counts on it.
standby(overridden) ==
  IF inStandby \/ overridden \/ ~running
  THEN UNCHANGED <<flagVars, deviceVars>>
  ELSE /\ inStandby' = TRUE /\ shouldRun' = TRUE /\ running' = FALSE
       /\ stopReaderThread
       /\ count' = IF entryRunning THEN count - 1 ELSE count
       /\ entryRunning' = (entryRunning /\ count' > 0)

\* resume(): startAdaptor() does nothing for a sysfs adaptor.
resume(opened) ==
  IF ~inStandby \/ ~shouldRun
  THEN UNCHANGED <<flagVars, deviceVars>>
  ELSE /\ inStandby' = FALSE
       /\ startReaderThread(opened)
       /\ running' = (opened \/ running)
       /\ UNCHANGED <<count, entryRunning, shouldRun>>

-----------------------------------------------------------------------------
\* SensorManager::displayStateChanged(), for this adaptor.
DisplayOff ==
  /\ ~blanked /\ DriftBound
  /\ blanked' = TRUE
  /\ standby(deviceStandbyOverride)
  /\ UNCHANGED <<users, overriders>>

DisplayOn ==
  /\ blanked
  /\ blanked' = FALSE
  /\ \E opened \in OpenResults : resume(opened)
  /\ UNCHANGED <<users, overriders>>

\* Mutant: withdrawing the override in the dark does not put to standby.
setStandbyOverride_ResumeOnly(s, override) ==
  /\ DriftBound
  /\ overriders' = IF override THEN overriders \cup {s} ELSE overriders \ {s}
  /\ IF blanked /\ overriders' # {}
     THEN \E opened \in OpenResults : resume(opened)
     ELSE UNCHANGED <<flagVars, deviceVars>>
  /\ UNCHANGED <<users, blanked>>

\* NodeBase::setStandbyOverrideRequest() of a node without override sources:
\* every request, a repeated one included, ends in setStandbyOverride().
setStandbyOverride(s, override) ==
  /\ DriftBound
  /\ overriders' = IF override THEN overriders \cup {s} ELSE overriders \ {s}
  /\ IF ~blanked
     THEN UNCHANGED <<flagVars, deviceVars>>
     ELSE IF overriders' # {} THEN \E opened \in OpenResults : resume(opened)
                              ELSE standby(FALSE)
  /\ UNCHANGED <<users, blanked>>

Next ==
  \/ \E u \in Users : startSensor(u)
  \/ \E u \in Users : stopSensor(u)
  \/ DisplayOff
  \/ DisplayOn
  \/ \E s \in Sessions, override \in BOOLEAN : setStandbyOverride(s, override)

Spec == Init /\ [][Next]_vars

-----------------------------------------------------------------------------
\* The device's files are open exactly while the reader thread lives, once,
\* and m_running says so: no second openFds() appends to a list in use, no
\* thread polls descriptors that were closed under it.
ReaderOwnsDescriptors ==
  /\ running <=> reader
  /\ fds = (IF reader THEN 1 ELSE 0)

\* A blanked display has released the device: an adaptor in standby has no
\* reader, remembers that it has to come back, and is there only for a dark
\* display that no session overrides.
StandbyReleasesDevice ==
  inStandby => /\ ~reader /\ shouldRun
               /\ blanked /\ ~deviceStandbyOverride

\* The reference count may drop below the number of users (standby() takes
\* one away) but never exceeds it, so a count can not keep a device alive
\* that nobody uses.
CountWithinUsers == count <= Cardinality(users)

\* The stop of the last user, with the adaptor not in standby, releases the
\* device whatever happened before.
LastStopReleases ==
  [][ users # {} /\ users' = {} /\ ~inStandby => ~reader' ]_vars

\* doc/PLUGIN-GUIDE:197-201: the display going blank releases the device unless
\* a session overrides it, and so does dropping the last override in the dark.
Dark == blanked /\ ~deviceStandbyOverride
GoingDarkReleases == [][ ~Dark /\ Dark' => ~reader' ]_vars

\* A reference is never left waiting: while the count says that somebody uses
\* the adaptor and the display is lit or overridden, the device is read, unless
\* it could not be opened, also when the start came in standby.
CountedIsServed ==
  count > 0 /\ (~blanked \/ deviceStandbyOverride) => reader \/ openFailed

=============================================================================
