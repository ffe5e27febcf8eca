------------------------ MODULE HybrisManager_proofs ------------------------
(***************************************************************************)
(* The properties of HybrisAdaptor for any users and sessions, continuous  *)
(* and one-shot sensors, whether or not the HAL may refuse; then those of  *)
(* HybrisManager for any bound sensors and number of events under way:     *)
(* that it is a HybrisAdaptor, and that the sensors in the HAL follow what *)
(* the daemon believes of them.                                            *)
(***************************************************************************)
EXTENDS HybrisManager, SequenceTheorems, TLAPS

(* The adaptor alone. *)

\* What evaluateSensor() is asked to establish.
StartRunning == shouldRun /\ (deviceStandbyOverride \/ ~inStandby)

\* The mode is left while the display is lit, the wish to run is a user's.
ModeInv ==
  /\ inStandby => blanked
  /\ shouldRun => users # {}
  /\ StartRunning => isRunning
  /\ isRunning => shouldRun

RunInv == RunFlagsOK /\ count \in Nat /\ EntryFollows /\ ActiveFollows

IInv == RequestsOK /\ ModesOK /\ ModeInv /\ RunInv

\* A state of a freshly created adaptor satisfies the invariant.
LEMMA InitInv == Init => IInv
<1> SUFFICES ASSUME Init PROVE IInv
  OBVIOUS
<1>1. RequestsOK /\ ModesOK
  BY DEF Init, RequestsOK, ModesOK
<1>2. ModeInv
  BY DEF Init, ModeInv, StartRunning
<1>3. RunFlagsOK
  BY DEF Init, RunFlagsOK
<1>4. count \in Nat /\ EntryFollows
  BY DEF Init, EntryFollows
<1>5. ActiveFollows
  BY DEF Init, ActiveFollows
<1> QED
  BY <1>1, <1>2, <1>3, <1>4, <1>5 DEF IInv, RunInv

-----------------------------------------------------------------------------
\* A sensor turned on, activated or not, has one reference more than none.
LEMMA StartReaderStep ==
  ASSUME RunInv, ~isRunning, NEW ok \in Results, startReader(ok)
  PROVE  RunInv' /\ isRunning'
<1>1. ok \in BOOLEAN
  BY ResultsAssumption
<1>2. /\ isRunning' = TRUE
      /\ active' = IF ok THEN TRUE ELSE active
      /\ count' = count + 1
      /\ entryRunning' = (entryRunning \/ count' = 1)
      /\ refused' = ~active'
      /\ fired' = FALSE
  BY DEF startReader, setActive
<1>3. count' = 1
  BY <1>2 DEF RunInv, EntryFollows
<1>4. entryRunning' = TRUE
  BY <1>2, <1>3
<1>5. RunFlagsOK'
  BY <1>1, <1>2, <1>4 DEF RunInv, RunFlagsOK
<1>6. ActiveFollows'
  BY <1>2, <1>5 DEF ActiveFollows, RunFlagsOK
<1>7. count' \in Nat /\ EntryFollows'
  <2>1. entryRunning' <=> isRunning'
    BY <1>2, <1>4
  <2> QED
    BY <1>2, <1>3, <2>1 DEF EntryFollows
<1> QED
  BY <1>2, <1>5, <1>6, <1>7 DEF RunInv

\* A sensor turned off gives its one reference back.
LEMMA StopReaderStep ==
  ASSUME RunInv, isRunning, NEW ok \in Results, stopReader(ok)
  PROVE  RunInv' /\ ~isRunning'
<1>1. ok \in BOOLEAN
  BY ResultsAssumption
<1>2. /\ isRunning' = FALSE
      /\ active' = IF ok THEN FALSE ELSE active
      /\ count' = count - 1
      /\ entryRunning' = (entryRunning /\ count' # 0)
      /\ refused' = active'
      /\ fired' = FALSE
  BY DEF stopReader, setActive
<1>3. count' = 0
  BY <1>2 DEF RunInv, EntryFollows
<1>4. entryRunning' = FALSE
  BY <1>2, <1>3
<1>5. RunFlagsOK'
  BY <1>1, <1>2, <1>4 DEF RunInv, RunFlagsOK
<1>6. ActiveFollows'
  BY <1>2, <1>5 DEF ActiveFollows, RunFlagsOK
<1>7. count' \in Nat /\ EntryFollows'
  <2>1. ~isRunning' /\ ~entryRunning'
    BY <1>2, <1>4
  <2> QED
    BY <1>3, <2>1 DEF EntryFollows
<1> QED
  BY <1>2, <1>5, <1>6, <1>7 DEF RunInv

LEMMA RunUnchanged ==
  ASSUME RunInv, UNCHANGED runVars
  PROVE  RunInv' /\ (isRunning' <=> isRunning)
BY DEF RunInv, RunFlagsOK, EntryFollows, ActiveFollows, runVars

\* evaluateSensor() leaves the sensor as the flags want it.
LEMMA EvaluateStep ==
  ASSUME RunInv, evaluateSensor
  PROVE  RunInv' /\ (isRunning' <=> StartRunning')
<1> DEFINE wanted == shouldRun' /\ (overriders' # {} \/ ~inStandby')
<1>1. StartRunning' <=> wanted
  BY DEF StartRunning, deviceStandbyOverride
<1>2. CASE (wanted = isRunning) /\ UNCHANGED runVars
  <2>1. wanted <=> isRunning
    BY <1>2
  <2> QED
    BY <1>1, <1>2, <2>1, RunUnchanged
<1>3. CASE wanted /\ ~isRunning /\ \E ok \in Results : startReader(ok)
  BY <1>1, <1>3, StartReaderStep
<1>4. CASE ~wanted /\ isRunning /\ \E ok \in Results : stopReader(ok)
  BY <1>1, <1>4, StopReaderStep
<1> QED
  BY <1>2, <1>3, <1>4 DEF evaluateSensor

\* standby() and resume(), once the requests and the display have changed.
LEMMA StandbyModeStep ==
  ASSUME RunInv, NEW standby \in BOOLEAN, setStandbyMode(standby), inStandby \in BOOLEAN
  PROVE  /\ RunInv' /\ inStandby' = standby
         /\ IF inStandby = standby THEN isRunning' <=> isRunning
                                   ELSE isRunning' <=> StartRunning'
<1>1. inStandby' = standby
  BY DEF setStandbyMode
<1>2. CASE inStandby = standby
  BY <1>1, <1>2, RunUnchanged DEF setStandbyMode
<1>3. CASE inStandby # standby
  BY <1>1, <1>3, EvaluateStep DEF setStandbyMode
<1> QED
  BY <1>2, <1>3

-----------------------------------------------------------------------------
LEMMA StartSensorStep ==
  ASSUME IInv, NEW u \in Users, startSensor(u)
  PROVE  IInv'
<1>1. /\ RequestsOK' /\ ModesOK'
      /\ users' # {} /\ shouldRun' = TRUE
      /\ overriders' = overriders /\ blanked' = blanked /\ inStandby' = inStandby
  BY DEF startSensor, IInv, RequestsOK, ModesOK
<1>2. CASE shouldRun
  <2>1. RunInv' /\ (isRunning' <=> isRunning)
    BY <1>2, RunUnchanged DEF startSensor, IInv
  <2> QED
    BY <1>1, <1>2, <2>1 DEF IInv, ModeInv, StartRunning, deviceStandbyOverride
<1>3. CASE ~shouldRun
  <2>1. RunInv' /\ (isRunning' <=> StartRunning')
    BY <1>3, EvaluateStep DEF startSensor, IInv
  <2> QED
    BY <1>1, <2>1 DEF IInv, ModeInv, StartRunning
<1> QED
  BY <1>2, <1>3

LEMMA StopSensorStep ==
  ASSUME IInv, NEW u \in Users, stopSensor(u)
  PROVE  IInv'
<1>1. /\ RequestsOK' /\ ModesOK' /\ shouldRun' = FALSE
      /\ overriders' = overriders /\ blanked' = blanked /\ inStandby' = inStandby
  BY DEF stopSensor, IInv, RequestsOK, ModesOK
<1>2. CASE shouldRun
  <2>1. RunInv' /\ (isRunning' <=> StartRunning')
    BY <1>2, EvaluateStep DEF stopSensor, IInv
  <2> QED
    BY <1>1, <2>1 DEF IInv, ModeInv, StartRunning
<1>3. CASE ~shouldRun
  <2>1. RunInv' /\ (isRunning' <=> isRunning)
    BY <1>3, RunUnchanged DEF stopSensor, IInv
  <2> QED
    BY <1>1, <1>3, <2>1 DEF IInv, ModeInv, StartRunning
<1> QED
  BY <1>2, <1>3

LEMMA DisplayStep ==
  ASSUME IInv, NEW on \in BOOLEAN, blanked = on, displayStateChanged(on)
  PROVE  /\ IInv'
         /\ ~blanked /\ overriders' = {} => ~isRunning'
<1>1. /\ RequestsOK' /\ blanked' = ~on
      /\ users' = users /\ overriders' = overriders /\ shouldRun' = shouldRun
  BY DEF displayStateChanged, IInv, RequestsOK
<1>2. /\ RunInv' /\ inStandby' = ~on
      /\ IF inStandby = ~on THEN isRunning' <=> isRunning
                            ELSE isRunning' <=> StartRunning'
  BY StandbyModeStep DEF displayStateChanged, IInv, ModesOK
<1>3. ModesOK'
  BY <1>1, <1>2 DEF IInv, ModesOK
<1>4. CASE on
  <2>1. blanked' = FALSE /\ inStandby' = FALSE
    BY <1>1, <1>2, <1>4
  <2>2. CASE inStandby
    BY <1>1, <1>2, <1>3, <1>4, <2>1, <2>2 DEF IInv, ModeInv, StartRunning
  <2>3. CASE ~inStandby
    <3>1. isRunning' <=> isRunning
      BY <1>2, <1>4, <2>3 DEF IInv, ModesOK
    <3> QED
      BY <1>1, <1>2, <1>3, <1>4, <2>1, <2>3, <3>1 DEF IInv, ModeInv, StartRunning
  <2> QED
    BY <2>2, <2>3
<1>5. CASE ~on
  <2>1. inStandby = FALSE /\ inStandby' = TRUE /\ blanked' = TRUE
    BY <1>1, <1>2, <1>5 DEF IInv, ModeInv, ModesOK
  <2>2. isRunning' <=> StartRunning'
    BY <1>2, <1>5, <2>1
  <2> QED
    BY <1>1, <1>2, <1>3, <2>1, <2>2 DEF IInv, ModeInv, StartRunning, deviceStandbyOverride
<1> QED
  BY <1>4, <1>5

LEMMA OverrideStep ==
  ASSUME IInv, NEW s \in Sessions, NEW override \in BOOLEAN,
         setStandbyOverride(s, override)
  PROVE  IInv'
<1>1. /\ RequestsOK'
      /\ users' = users /\ blanked' = blanked /\ shouldRun' = shouldRun
  BY DEF setStandbyOverride, IInv, RequestsOK
<1>2. CASE ~blanked
  <2>1. RunInv' /\ (isRunning' <=> isRunning) /\ inStandby' = inStandby
    BY <1>2, RunUnchanged DEF setStandbyOverride, IInv
  <2>2. ~inStandby
    BY <1>2 DEF IInv, ModeInv
  <2> QED
    BY <1>1, <2>1, <2>2 DEF IInv, ModesOK, ModeInv, StartRunning
<1>3. CASE blanked
  <2> DEFINE standby == overriders' = {}
  <2>1. /\ RunInv' /\ inStandby' = standby
        /\ IF inStandby = standby THEN isRunning' <=> isRunning
                                  ELSE isRunning' <=> StartRunning'
    <3>1. standby \in BOOLEAN
      OBVIOUS
    <3> QED
      BY <1>3, <3>1, StandbyModeStep DEF setStandbyOverride, IInv, ModesOK
  <2>2. ModesOK'
    BY <1>1, <2>1 DEF IInv, ModesOK
  <2>3. CASE inStandby # standby
    BY <1>1, <1>3, <2>1, <2>2, <2>3 DEF IInv, ModeInv, StartRunning
  <2>4. CASE inStandby = standby
    <3>1. StartRunning' => StartRunning
      BY <1>1, <2>1, <2>4 DEF StartRunning, deviceStandbyOverride
    <3> QED
      BY <1>1, <1>3, <2>1, <2>2, <2>4, <3>1 DEF IInv, ModeInv
  <2> QED
    BY <2>3, <2>4
<1> QED
  BY <1>2, <1>3 DEF IInv, RequestsOK

LEMMA OneshotStep ==
  ASSUME IInv, OneshotEvent
  PROVE  IInv'
<1>1. /\ active
      /\ UNCHANGED <<users, overriders, blanked, inStandby, shouldRun, isRunning,
                     count, entryRunning>>
      /\ fired' = isRunning /\ refused' = active'
  BY DEF OneshotEvent
<1>2. PICK ok \in Results : active' = IF ok THEN FALSE ELSE active
  BY DEF OneshotEvent, setActive
<1>3. ok \in BOOLEAN
  BY ResultsAssumption
<1>4. RunFlagsOK'
  BY <1>1, <1>2, <1>3 DEF IInv, RunInv, RunFlagsOK
<1>5. count' \in Nat /\ EntryFollows'
  BY <1>1 DEF IInv, RunInv, EntryFollows
<1>6. ActiveFollows'
  BY <1>1, <1>4 DEF ActiveFollows, RunFlagsOK
<1>7. RequestsOK' /\ ModesOK' /\ ModeInv'
  BY <1>1 DEF IInv, RequestsOK, ModesOK, ModeInv, StartRunning, deviceStandbyOverride
<1> QED
  BY <1>4, <1>5, <1>6, <1>7 DEF IInv, RunInv

\* Every step keeps the invariant.
LEMMA NextInv == IInv /\ [Next]_vars => IInv'
<1> SUFFICES ASSUME IInv, [Next]_vars PROVE IInv'
  OBVIOUS
<1>1. ASSUME NEW u \in Users, startSensor(u) PROVE IInv'
  BY <1>1, StartSensorStep
<1>2. ASSUME NEW u \in Users, stopSensor(u) PROVE IInv'
  BY <1>2, StopSensorStep
<1>3. ASSUME NEW on \in BOOLEAN, blanked = on, displayStateChanged(on) PROVE IInv'
  BY <1>3, DisplayStep
<1>4. ASSUME NEW s \in Sessions, NEW override \in BOOLEAN, setStandbyOverride(s, override)
      PROVE  IInv'
  BY <1>4, OverrideStep
<1>5. CASE OneshotEvent
  BY <1>5, OneshotStep
<1>6. CASE UNCHANGED vars
  <2>1. RunInv'
    BY <1>6, RunUnchanged DEF vars, runVars, IInv
  <2> QED
    BY <1>6, <2>1 DEF vars, IInv, RequestsOK, ModesOK, ModeInv, StartRunning,
                      deviceStandbyOverride
<1> QED
  BY <1>1, <1>2, <1>3, <1>4, <1>5, <1>6 DEF Next, Called

-----------------------------------------------------------------------------
THEOREM Invariant == Spec => []IInv
BY InitInv, NextInv, PTL DEF Spec

\* The adaptor's variables keep their types: the entry's count, incremented
\* and decremented by evaluateSensor(), never falls below zero.
THEOREM TypeCorrect == Spec => []TypeOK
<1>1. IInv => TypeOK
  BY DEF IInv, RunInv, TypeOK
<1> QED
  BY <1>1, Invariant, PTL

\* A wanted sensor runs on a lit or overridden display
\* (HybrisAdaptor::evaluateSensor(), standby(), resume()).
THEOREM WantedSensorRuns == Spec => []WantedRuns
<1>1. IInv => WantedRuns
  BY DEF IInv, ModeInv, StartRunning, WantedRuns
<1> QED
  BY <1>1, Invariant, PTL

\* A sensor without users does not run, whatever order of standby, override
\* and stop came before (HybrisAdaptor::stopSensor()).
THEOREM UnusedSensorStops == Spec => []UnusedStops
<1>1. IInv => UnusedStops
  BY DEF IInv, ModeInv, UnusedStops
<1> QED
  BY <1>1, Invariant, PTL

\* The entry's count and flag follow the adaptor.
THEOREM EntryInStep == Spec => []EntryFollows
<1>1. IInv => EntryFollows
  BY DEF IInv, RunInv
<1> QED
  BY <1>1, Invariant, PTL

\* The HAL's sensor is active exactly while the adaptor runs it, unless the
\* HAL failed the last change (HybrisManager::setActive(), processEvents()).
THEOREM ActiveInStep == Spec => []ActiveFollows
<1>1. IInv => ActiveFollows
  BY DEF IInv, RunInv
<1> QED
  BY <1>1, Invariant, PTL

\* The display going off with no override outstanding stops the sensor.
THEOREM DisplayOffReleases == Spec => DisplayOffStops
<1>1. ASSUME IInv, [Next]_vars
      PROVE  [~blanked /\ blanked' /\ overriders' = {} => ~isRunning']_vars
  <2>1. ASSUME NEW on \in BOOLEAN, blanked = on, displayStateChanged(on)
        PROVE  ~blanked /\ overriders' = {} => ~isRunning'
    BY <1>1, <2>1, DisplayStep
  <2>2. ASSUME \/ \E u \in Users : startSensor(u) \/ stopSensor(u)
               \/ \E s \in Sessions, override \in BOOLEAN : setStandbyOverride(s, override)
               \/ OneshotEvent
        PROVE  blanked' = blanked
    BY <2>2 DEF startSensor, stopSensor, setStandbyOverride, OneshotEvent
  <2> QED
    BY <1>1, <2>1, <2>2 DEF Next, Called
<1> QED
  BY <1>1, Invariant, PTL DEF Spec, DisplayOffStops

-----------------------------------------------------------------------------
(* The adaptor with its manager. *)

EventUnderWay == \E i \in 1..Len(events) : events[i] \in OneshotMembers
AllMeasure == {Primary} \cup Secondaries \subseteq hal

\* While nothing disturbed it, the HAL is as the daemon believes, but for the
\* one-shot sensors whose events the daemon has not taken yet.
HalFollows ==
  ~disturbed => /\ ~refused
                /\ ~active => hal = {}
                /\ active => AllMeasure \/ EventUnderWay

ManagerInv ==
  /\ IInv /\ HalTypeOK /\ HalFollows
  /\ hal \subseteq {Primary} \cup Secondaries

LEMMA MembersKinds ==
  /\ Secondaries \subseteq Members /\ OneshotMembers \subseteq Members
  /\ \A taken \in Accepting : taken \subseteq Secondaries
BY DEF Secondaries, OneshotMembers, Members, Accepting

\* The initial states of the manager are initial states of the adaptor.
LEMMA ManagerInitInv == ManagerInit => ManagerInv
<1> SUFFICES ASSUME ManagerInit PROVE ManagerInv
  OBVIOUS
<1>1. IInv
  BY InitInv DEF ManagerInit
<1>2. HalTypeOK /\ hal \subseteq {Primary} \cup Secondaries
  BY EmptySeq DEF ManagerInit, HalTypeOK
<1>3. HalFollows
  BY DEF ManagerInit, Init, HalFollows
<1> QED
  BY <1>1, <1>2, <1>3 DEF ManagerInv

\* A step of the manager is a step of the adaptor or leaves it alone.
LEMMA ManagerStepMaps == [ManagerNext]_managerVars => [Next]_vars
<1> SUFFICES ASSUME [ManagerNext]_managerVars PROVE [Next]_vars
  OBVIOUS
<1>1. CASE call
  BY <1>1 DEF call, Next
<1>2. ASSUME NEW m \in Members, queueEvents(m) PROVE UNCHANGED vars
  BY <1>2 DEF queueEvents
<1>3. ASSUME NEW m \in Members, loseEvents(m) PROVE UNCHANGED vars
  BY <1>3 DEF loseEvents
<1>4. CASE processEvents
  BY <1>4 DEF processEvents, processMeasurement, processOneshot, Next
<1>5. CASE UNCHANGED managerVars
  BY <1>5 DEF managerVars
<1> QED
  BY <1>1, <1>2, <1>3, <1>4, <1>5 DEF ManagerNext

-----------------------------------------------------------------------------
\* What the HAL half of the invariant says once the adaptor has moved.
HalInv == HalTypeOK /\ HalFollows /\ hal \subseteq {Primary} \cup Secondaries

\* Turning on: the bookkeeping of an active sensor agrees already.
LEMMA SwitchOnStep ==
  ASSUME ManagerInv, NEW ok \in Results, startReader(ok), switchOn,
         UNCHANGED <<oneshot, events>>
  PROVE  HalInv'
<1>1. refused' = ~active' /\ active' = IF ok THEN TRUE ELSE active
  BY DEF startReader, setActive
<1>2. active \in BOOLEAN /\ ok \in BOOLEAN
  BY ResultsAssumption DEF ManagerInv, IInv, RunInv, RunFlagsOK
<1>3. /\ Secondaries' = Secondaries /\ OneshotMembers' = OneshotMembers
      /\ EventUnderWay' <=> EventUnderWay
  BY DEF Secondaries, OneshotMembers, EventUnderWay
<1>4. CASE active
  <2>1. UNCHANGED <<hal, disturbed>> /\ active'
    BY <1>1, <1>4 DEF switchOn
  <2>2. AllMeasure' <=> AllMeasure
    BY <1>3, <2>1 DEF AllMeasure
  <2> QED
    BY <1>1, <1>3, <1>4, <2>1, <2>2 DEF ManagerInv, HalInv, HalTypeOK, HalFollows
<1>5. CASE ~active
  <2>1. PICK taken \in Accepting :
          /\ hal' = hal \cup taken \cup (IF active' THEN {Primary} ELSE {})
          /\ disturbed' = ~(active' /\ taken = Secondaries)
    BY <1>5 DEF switchOn
  <2>2. taken \subseteq Secondaries
    BY MembersKinds
  <2>3. hal' \subseteq {Primary} \cup Secondaries
    BY <2>1, <2>2 DEF ManagerInv
  <2>4. HalTypeOK'
    BY <2>1, <2>3, MembersKinds DEF ManagerInv, HalTypeOK, Members
  <2>5. ~disturbed' => active' /\ ~refused' /\ AllMeasure'
    BY <1>1, <1>3, <2>1 DEF AllMeasure
  <2> QED
    BY <1>3, <2>3, <2>4, <2>5 DEF HalInv, HalFollows
<1> QED
  BY <1>4, <1>5

\* Turning off, by the adaptor or after the event of a one-shot sensor.
LEMMA SwitchOffStep ==
  ASSUME HalInv, active \in BOOLEAN, switchOff, UNCHANGED oneshot,
         events' \in Seq(Members), refused' = active',
         \E ok \in BOOLEAN : active' = IF ok THEN FALSE ELSE active
  PROVE  HalInv'
<1>1. Secondaries' = Secondaries
  BY DEF Secondaries
<1>2. CASE ~active
  <2>1. UNCHANGED <<hal, disturbed>> /\ ~active' /\ ~refused'
    BY <1>2 DEF switchOff
  <2> QED
    BY <1>1, <1>2, <2>1 DEF HalInv, HalTypeOK, HalFollows
<1>3. CASE active
  <2>1. PICK taken \in Accepting :
          /\ hal' = hal \ (taken \cup (IF active' THEN {} ELSE {Primary}))
          /\ disturbed' = ~(~active' /\ taken = Secondaries)
    BY <1>3 DEF switchOff
  <2>2. hal' \subseteq {Primary} \cup Secondaries
    BY <2>1 DEF HalInv
  <2>3. HalTypeOK'
    BY <2>1 DEF HalInv, HalTypeOK
  <2>4. ~disturbed' => ~active' /\ ~refused' /\ hal' = {}
    BY <2>1 DEF HalInv
  <2> QED
    BY <1>1, <2>2, <2>3, <2>4 DEF HalInv, HalFollows
<1> QED
  BY <1>2, <1>3

\* Nothing changes when the adaptor's sensor is left as it is.
LEMMA HalUnchanged ==
  ASSUME HalInv, UNCHANGED <<active, refused>>, UNCHANGED halVars
  PROVE  HalInv'
<1>1. /\ Secondaries' = Secondaries /\ OneshotMembers' = OneshotMembers
  BY DEF halVars, Secondaries, OneshotMembers
<1>2. (AllMeasure' <=> AllMeasure) /\ (EventUnderWay' <=> EventUnderWay)
  BY <1>1 DEF halVars, AllMeasure, EventUnderWay
<1> QED
  BY <1>1, <1>2 DEF halVars, HalInv, HalTypeOK, HalFollows

\* What a call does to the running sensor is decided by evaluateSensor().
LEMMA CalledRuns ==
  ASSUME Called
  PROVE  evaluateSensor \/ UNCHANGED runVars
<1>1. ASSUME NEW u \in Users, startSensor(u) PROVE evaluateSensor \/ UNCHANGED runVars
  BY <1>1 DEF startSensor
<1>2. ASSUME NEW u \in Users, stopSensor(u) PROVE evaluateSensor \/ UNCHANGED runVars
  BY <1>2 DEF stopSensor
<1>3. ASSUME NEW on \in BOOLEAN, displayStateChanged(on)
      PROVE  evaluateSensor \/ UNCHANGED runVars
  BY <1>3 DEF displayStateChanged, setStandbyMode
<1>4. ASSUME NEW s \in Sessions, NEW override \in BOOLEAN, setStandbyOverride(s, override)
      PROVE  evaluateSensor \/ UNCHANGED runVars
  BY <1>4 DEF setStandbyOverride, setStandbyMode
<1> QED
  BY <1>1, <1>2, <1>3, <1>4 DEF Called

LEMMA CallStep ==
  ASSUME ManagerInv, call
  PROVE  HalInv'
<1>0. HalInv /\ isRunning \in BOOLEAN /\ active \in BOOLEAN
  BY DEF ManagerInv, HalInv, IInv, RunInv, RunFlagsOK
<1>1. \/ UNCHANGED runVars
      \/ ~isRunning /\ \E ok \in Results : startReader(ok)
      \/ isRunning /\ \E ok \in Results : stopReader(ok)
  BY CalledRuns DEF call, evaluateSensor
<1>2. CASE UNCHANGED runVars
  BY <1>0, <1>2, HalUnchanged DEF call, evaluateHal, runVars, halVars
<1>3. ASSUME ~isRunning, NEW ok \in Results, startReader(ok) PROVE HalInv'
  <2>1. isRunning' /\ ~isRunning
    BY <1>3 DEF startReader
  <2>2. switchOn /\ UNCHANGED <<oneshot, events>>
    BY <1>0, <2>1 DEF call, evaluateHal
  <2> QED
    BY <1>3, <2>2, SwitchOnStep
<1>4. ASSUME isRunning, NEW ok \in Results, stopReader(ok) PROVE HalInv'
  <2>1. ~isRunning' /\ isRunning
    BY <1>4 DEF stopReader
  <2>2. switchOff /\ UNCHANGED <<oneshot, events>>
    BY <1>0, <2>1 DEF call, evaluateHal
  <2>3. ok \in BOOLEAN /\ refused' = active' /\ active' = IF ok THEN FALSE ELSE active
    BY <1>4, ResultsAssumption DEF stopReader, setActive
  <2>4. events' \in Seq(Members)
    BY <1>0, <2>2 DEF HalInv, HalTypeOK
  <2> QED
    BY <1>0, <2>2, <2>3, <2>4, SwitchOffStep
<1> QED
  BY <1>1, <1>2, <1>3, <1>4

\* A report turns a one-shot sensor off and is on its way.
LEMMA QueueStep ==
  ASSUME ManagerInv, NEW m \in Members, queueEvents(m)
  PROVE  HalInv'
<1>1. /\ m \in hal /\ hal' = hal \ ({m} \cap OneshotMembers)
      /\ events' = Append(events, m)
      /\ UNCHANGED <<vars, oneshot, disturbed>>
  BY DEF queueEvents
<1>2. /\ Secondaries' = Secondaries /\ OneshotMembers' = OneshotMembers
  BY <1>1 DEF Secondaries, OneshotMembers
<1>3. /\ events \in Seq(Members) /\ events' \in Seq(Members)
      /\ Len(events') = Len(events) + 1
      /\ events'[Len(events) + 1] = m
      /\ \A i \in 1..Len(events) : events'[i] = events[i]
  BY <1>1, AppendProperties DEF ManagerInv, HalTypeOK
<1>4. EventUnderWay => EventUnderWay'
  BY <1>2, <1>3, LenProperties DEF EventUnderWay
<1>5. m \in OneshotMembers => EventUnderWay'
  <2>1. Len(events) + 1 \in 1..Len(events')
    BY <1>3, LenProperties
  <2> QED
    BY <1>2, <1>3, <2>1 DEF EventUnderWay
<1>6. m \notin OneshotMembers => (AllMeasure => AllMeasure')
  BY <1>1, <1>2 DEF AllMeasure
<1>7. active' = active /\ refused' = refused /\ disturbed' = disturbed /\ oneshot' = oneshot
  BY <1>1 DEF vars
<1>8. HalTypeOK' /\ hal' \subseteq {Primary} \cup Secondaries
  BY <1>1, <1>3, <1>7 DEF ManagerInv, HalTypeOK
<1>9. ASSUME ~disturbed PROVE active /\ ~refused
  BY <1>1, <1>9 DEF ManagerInv, HalFollows
<1>10. ASSUME ~disturbed PROVE AllMeasure' \/ EventUnderWay'
  BY <1>4, <1>5, <1>6, <1>9, <1>10 DEF ManagerInv, HalFollows
<1> QED
  BY <1>2, <1>7, <1>8, <1>9, <1>10 DEF HalInv, HalFollows

LEMMA LoseStep ==
  ASSUME ManagerInv, NEW m \in Members, loseEvents(m)
  PROVE  HalInv'
<1>1. /\ hal' = hal \ ({m} \cap OneshotMembers) /\ disturbed' = TRUE
      /\ UNCHANGED <<oneshot, events>>
  BY DEF loseEvents
<1>2. Secondaries' = Secondaries
  BY <1>1 DEF Secondaries
<1> QED
  BY <1>1, <1>2 DEF ManagerInv, HalInv, HalTypeOK, HalFollows

LEMMA ProcessStep ==
  ASSUME ManagerInv, processEvents
  PROVE  HalInv'
<1>0. HalInv /\ active \in BOOLEAN /\ events \in Seq(Members)
  BY DEF ManagerInv, HalInv, IInv, RunInv, RunFlagsOK, HalTypeOK
<1>1. events # <<>> /\ events' = Tail(events) /\ oneshot' = oneshot
  BY DEF processEvents
<1>2. /\ events' \in Seq(Members) /\ Len(events') = Len(events) - 1
      /\ \A i \in 1..Len(events') : events'[i] = events[i + 1]
      /\ Head(events) = events[1] /\ Len(events) \in Nat /\ Len(events) # 0
  BY <1>0, <1>1, HeadTailProperties, LenProperties, EmptySeq
<1>3. Secondaries' = Secondaries /\ OneshotMembers' = OneshotMembers
  BY <1>1 DEF Secondaries, OneshotMembers
<1>4. CASE Head(events) \notin OneshotMembers /\ UNCHANGED <<vars, hal, disturbed>>
  <2>1. EventUnderWay => EventUnderWay'
    <3> SUFFICES ASSUME NEW i \in 1..Len(events), events[i] \in OneshotMembers
                 PROVE  EventUnderWay'
      BY DEF EventUnderWay
    <3>1. i # 1
      BY <1>2, <1>4
    <3>2. i - 1 \in 1..Len(events') /\ events'[i - 1] = events[(i - 1) + 1]
      BY <1>2, <3>1
    <3>3. (i - 1) + 1 = i
      OBVIOUS
    <3> QED
      BY <1>3, <3>2, <3>3 DEF EventUnderWay
  <2>2. AllMeasure' <=> AllMeasure
    BY <1>3, <1>4 DEF AllMeasure
  <2>3. active' = active /\ refused' = refused /\ hal' = hal /\ disturbed' = disturbed
    BY <1>4 DEF vars
  <2> QED
    BY <1>0, <1>1, <1>2, <1>3, <2>1, <2>2, <2>3 DEF HalInv, HalTypeOK, HalFollows
<1>5. CASE active /\ OneshotEvent /\ switchOff
  <2>1. PICK ok \in Results : active' = IF ok THEN FALSE ELSE active
    BY <1>5 DEF OneshotEvent, setActive
  <2>2. refused' = active' /\ ok \in BOOLEAN
    BY <1>5, ResultsAssumption DEF OneshotEvent
  <2> QED
    BY <1>0, <1>1, <1>2, <1>5, <2>1, <2>2, SwitchOffStep
<1>6. CASE ~active /\ UNCHANGED <<vars, hal, disturbed>>
  <2>1. active' = active /\ refused' = refused /\ hal' = hal /\ disturbed' = disturbed
    BY <1>6 DEF vars
  <2> QED
    BY <1>0, <1>1, <1>2, <1>3, <1>6, <2>1 DEF HalInv, HalTypeOK, HalFollows
<1> QED
  BY <1>0, <1>4, <1>5, <1>6 DEF processEvents, processMeasurement, processOneshot

\* Every step keeps the invariant.
LEMMA ManagerNextInv == ManagerInv /\ [ManagerNext]_managerVars => ManagerInv'
<1> SUFFICES ASSUME ManagerInv, [ManagerNext]_managerVars PROVE ManagerInv'
  OBVIOUS
<1>1. IInv'
  BY ManagerStepMaps, NextInv DEF ManagerInv
<1>2. HalInv'
  <2>1. CASE call
    BY <2>1, CallStep
  <2>2. ASSUME NEW m \in Members, queueEvents(m) PROVE HalInv'
    BY <2>2, QueueStep
  <2>3. ASSUME NEW m \in Members, loseEvents(m) PROVE HalInv'
    BY <2>3, LoseStep
  <2>4. CASE processEvents
    BY <2>4, ProcessStep
  <2>5. CASE UNCHANGED managerVars
    <3>1. HalInv /\ UNCHANGED <<active, refused>> /\ UNCHANGED halVars
      BY <2>5 DEF managerVars, vars, ManagerInv, HalInv
    <3> QED
      BY <3>1, HalUnchanged
  <2> QED
    BY <2>1, <2>2, <2>3, <2>4, <2>5 DEF ManagerNext
<1> QED
  BY <1>1, <1>2 DEF ManagerInv, HalInv

-----------------------------------------------------------------------------
THEOREM ManagerInvariant == ManagerSpec => []ManagerInv
BY ManagerInitInv, ManagerNextInv, PTL DEF ManagerSpec

\* The manager's adaptor is a HybrisAdaptor: whatever the HAL and its events
\* do, it behaves as HybrisAdaptor's specification says, whose theorems
\* therefore hold of it (HybrisManager::processEvents(), startReader()).
THEOREM ManagerIsAdaptor == ManagerSpec => Spec
<1>1. ManagerInit => Init
  BY DEF ManagerInit
<1> QED
  BY <1>1, ManagerStepMaps, PTL DEF ManagerSpec, Spec

\* The HAL's variables keep their types.
THEOREM HalTypeCorrect == ManagerSpec => []HalTypeOK
<1>1. ManagerInv => HalTypeOK
  BY DEF ManagerInv
<1> QED
  BY <1>1, ManagerInvariant, PTL

\* A running sensor that has not had its event can still get one
\* (HybrisManager::setActive(), queueEvents(), processEvents()).
THEOREM RunningCanFire == ManagerSpec => []CanFire
<1>1. ManagerInv => CanFire
  <2> SUFFICES ASSUME ManagerInv, isRunning, ~fired, ~disturbed
               PROVE  AllMeasure \/ EventUnderWay
    BY DEF CanFire, AllMeasure, EventUnderWay
  <2>1. ~refused
    BY DEF ManagerInv, HalFollows
  <2>2. active
    BY <2>1 DEF ManagerInv, IInv, RunInv, ActiveFollows
  <2> QED
    BY <2>2 DEF ManagerInv, HalFollows
<1> QED
  BY <1>1, ManagerInvariant, PTL

\* No sensor is left measuring by a stop or after the one event, the bound
\* sensors included (HybrisManager::setActive()).
THEOREM StoppedStaysOff == ManagerSpec => []StoppedIsOff
<1>1. ManagerInv => StoppedIsOff
  <2> SUFFICES ASSUME ManagerInv, ~isRunning \/ fired, ~disturbed PROVE hal = {}
    BY DEF StoppedIsOff
  <2>1. ~refused
    BY DEF ManagerInv, HalFollows
  <2>2. ~active
    BY <2>1 DEF ManagerInv, IInv, RunInv, ActiveFollows
  <2> QED
    BY <2>2 DEF ManagerInv, HalFollows
<1> QED
  BY <1>1, ManagerInvariant, PTL

=============================================================================
