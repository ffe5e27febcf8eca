---------------------------- MODULE HybrisManager ----------------------------
(***************************************************************************)
(* A HybrisAdaptor together with its sensor in the HAL, the sensors that   *)
(* the configuration binds to it (wakeup/secondary_sensor_types) and the   *)
(* pipe of events between the thread that reads the HAL and the main       *)
(* thread (HybrisManager in core/hybrisadaptor.cpp).                       *)
(*                                                                         *)
(* HybrisAdaptor knows what the daemon believes of the sensor (active);    *)
(* here the HAL has a state of its own (hal).  A one-shot sensor turns     *)
(* itself off when it reports, and the main thread learns of it later.     *)
(***************************************************************************)
EXTENDS HybrisAdaptor, Sequences

CONSTANTS Primary,             \* the adaptor's sensor
          OneshotSecondaries,  \* sensors bound to a one-shot Primary,
          OtherSecondaries,    \* of either kind
          MaxEvents            \* bound on the events under way

Members == {Primary} \cup OneshotSecondaries \cup OtherSecondaries

ASSUME MembersAssumption ==
  /\ Primary \notin OneshotSecondaries \cup OtherSecondaries
  /\ OneshotSecondaries \cap OtherSecondaries = {}
ASSUME MaxEventsAssumption == MaxEvents \in Nat

VARIABLES
  oneshot,    \* isOneshotSensor() of Primary
  hal,        \* the sensors that measure
  events,     \* the sensors that reported, from the HAL to the end of the pipe
  disturbed   \* since all sensors last changed as asked, the HAL refused or an event was lost

halVars == <<oneshot, hal, events, disturbed>>
managerVars == <<vars, halVars>>

\* initWakeupSensorConfig() binds sensors to a one-shot sensor only.
Secondaries == IF oneshot THEN OneshotSecondaries \cup OtherSecondaries ELSE {}
OneshotMembers == IF oneshot THEN {Primary} \cup OneshotSecondaries ELSE {}

HalTypeOK ==
  /\ oneshot \in BOOLEAN /\ disturbed \in BOOLEAN
  /\ hal \subseteq Members
  /\ events \in Seq(Members)

\* initManager() has turned everything off.
ManagerInit ==
  /\ Init
  /\ oneshot \in BOOLEAN
  /\ hal = {} /\ events = <<>> /\ disturbed = FALSE

-----------------------------------------------------------------------------
\* The secondaries that accept a change.
Accepting == IF FALSE \in Results THEN SUBSET Secondaries ELSE {Secondaries}

\* setActive(Primary, TRUE), unless it is on already by the bookkeeping:
\* secondaries first, whether or not the primary follows.
switchOn ==
  IF active THEN UNCHANGED <<hal, disturbed>>
  ELSE \E taken \in Accepting :
         /\ hal' = hal \cup taken \cup (IF active' THEN {Primary} ELSE {})
         /\ disturbed' = ~(active' /\ taken = Secondaries)

\* Mutant: secondaries stay on.
switchOff_PrimaryOnly ==
  IF ~active THEN UNCHANGED <<hal, disturbed>>
  ELSE /\ hal' = hal \ (IF active' THEN {} ELSE {Primary})
       /\ disturbed' = active'

\* setActive(Primary, FALSE), unless it is off already by the bookkeeping:
\* secondaries last, whether or not the primary obeys.
switchOff ==
  IF ~active THEN UNCHANGED <<hal, disturbed>>
  ELSE \E taken \in Accepting :
         /\ hal' = hal \ (taken \cup (IF active' THEN {} ELSE {Primary}))
         /\ disturbed' = ~(~active' /\ taken = Secondaries)

\* evaluateSensor() in the HAL, whoever called it.
evaluateHal ==
  /\ UNCHANGED <<oneshot, events>>
  /\ \/ isRunning' = isRunning /\ UNCHANGED <<hal, disturbed>>
     \/ isRunning' /\ ~isRunning /\ switchOn
     \/ ~isRunning' /\ isRunning /\ switchOff

call == Called /\ evaluateHal

\* A sensor reports; a one-shot sensor thereby turns itself off.  The thread
\* that reads the HAL writes the event into the pipe (queueEvents()).
queueEvents(m) ==
  /\ m \in hal /\ Len(events) < MaxEvents
  /\ hal' = hal \ ({m} \cap OneshotMembers)
  /\ events' = Append(events, m)
  /\ UNCHANGED <<vars, oneshot, disturbed>>

\* As above, but the event is invalid or the pipe does not take it.
loseEvents(m) ==
  /\ m \in hal
  /\ hal' = hal \ ({m} \cap OneshotMembers)
  /\ disturbed' = TRUE
  /\ UNCHANGED <<vars, oneshot, events>>

\* A measurement, or a state change of a secondary that is not a one-shot
\* sensor, changes nothing here.
processMeasurement ==
  /\ Head(events) \notin OneshotMembers
  /\ UNCHANGED <<vars, hal, disturbed>>

\* Mutant: the event of a secondary stops the secondary only.
processOneshot_Reporter ==
  /\ Head(events) \in OneshotMembers
  /\ IF active /\ Head(events) = Primary
     THEN OneshotEvent /\ switchOff
     ELSE UNCHANGED <<vars, hal, disturbed>>

\* The event of a one-shot secondary counts as one of the primary.  The
\* bookkeeping is synchronised with a sensor that is taken as stopped.
processOneshot ==
  /\ Head(events) \in OneshotMembers
  /\ IF active THEN OneshotEvent /\ switchOff
               ELSE UNCHANGED <<vars, hal, disturbed>>

\* processEvents() on the main thread.  Events are taken one at a time: that
\* the next one is not read with it is the same as that it came later.
processEvents ==
  /\ events # <<>> /\ events' = Tail(events)
  /\ processMeasurement \/ processOneshot
  /\ UNCHANGED oneshot

ManagerNext ==
  \/ call
  \/ \E m \in Members : queueEvents(m)
  \/ \E m \in Members : loseEvents(m)
  \/ processEvents

ManagerSpec == ManagerInit /\ [][ManagerNext]_managerVars

-----------------------------------------------------------------------------
\* An adaptor that runs and has not had its event can still get one: all its
\* sensors measure or an event is under way.  Start, stop and start again may
\* overtake the events, and a refusal or a loss is made good by the next
\* complete switch.
CanFire ==
  isRunning /\ ~fired /\ ~disturbed =>
    \/ {Primary} \cup Secondaries \subseteq hal
    \/ \E i \in 1..Len(events) : events[i] \in OneshotMembers

\* After the last stop, the display going off or the one event, no sensor is
\* left measuring, the bound ones included.
StoppedIsOff == (~isRunning \/ fired) /\ ~disturbed => hal = {}

=============================================================================
