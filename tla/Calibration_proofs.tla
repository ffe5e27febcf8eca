------------------------- MODULE Calibration_proofs -------------------------
(***************************************************************************)
(* The safety properties of Calibration, for any finite set of sessions,   *)
(* any levels and a queue of any length.                                   *)
(***************************************************************************)
EXTENDS Calibration, FiniteSetTheorems, TLAPS

\* The handler has the sensor started: it is connected and overrides standby.
\* Then its timer is active, and while no stray sample has started the timer,
\* an active timer says so.
HandlerInStep ==
  /\ connected <=> overriding
  /\ connected => granted /\ timer
  /\ ~stray /\ granted /\ timer => connected

IInv == TypeOK /\ HandlerInStep /\ StartsBalanced /\ QuietInPowerSave

\* The sessions are finitely many, and one more or less counts for one.
LEMMA SessionCount ==
  ASSUME NEW S \in SUBSET Sessions
  PROVE  /\ Cardinality(S) \in Nat
         /\ \A s \in Sessions \ S : Cardinality(S \cup {s}) = Cardinality(S) + 1
         /\ \A s \in S : Cardinality(S \ {s}) = Cardinality(S) - 1
<1>1. IsFiniteSet(S)
  BY SessionsAssumption, FS_Subset
<1>2. Cardinality(S) \in Nat
  BY <1>1, FS_CardinalityType
<1>3. ASSUME NEW s \in Sessions \ S PROVE Cardinality(S \cup {s}) = Cardinality(S) + 1
  BY <1>1, FS_AddElement
<1>4. ASSUME NEW s \in S PROVE Cardinality(S \ {s}) = Cardinality(S) - 1
  BY <1>1, FS_RemoveElement
<1> QED
  BY <1>2, <1>3, <1>4

\* initiateSession() leaves the handler in step.
LEMMA InitInv == Init => IInv
<1> SUFFICES ASSUME Init PROVE IInv
  OBVIOUS
<1>1. Cardinality({}) = 0
  BY FS_EmptySet
<1>2. TypeOK
  <2>1. cnt \in Nat
    BY DEF Init
  <2>2. connected \in BOOLEAN /\ overriding \in BOOLEAN
    BY DEF Init
  <2>3. queue \in Seq(Levels) /\ level \in Levels \cup {Unknown} /\ sessions \subseteq Sessions
    BY DEF Init
  <2> QED
    BY <2>1, <2>2, <2>3, Zenon DEF Init, TypeOK
<1>3. StartsBalanced
  BY <1>1 DEF Init, StartsBalanced
<1> QED
  BY <1>2, <1>3 DEF Init, IInv, HandlerInStep, QuietInPowerSave

-----------------------------------------------------------------------------
(* The handler starts and stops its sensor.                                *)

\* resumeCalibration() counts the handler once, and only if it was not counted.
LEMMA ResumeStep ==
  ASSUME IInv, resumeCalibration, UNCHANGED <<granted, stray, sessions>>
  PROVE  /\ cnt' \in Nat /\ timer' /\ connected' \in BOOLEAN /\ overriding' \in BOOLEAN
         /\ HandlerInStep' /\ StartsBalanced'
<1> USE DEF IInv, TypeOK, HandlerInStep, StartsBalanced, resumeCalibration, Start
<1>1. Cardinality(sessions) \in Nat
  BY SessionCount
<1>2. CASE granted /\ ~timer
  BY <1>1, <1>2
<1>3. CASE ~(granted /\ ~timer)
  BY <1>1, <1>3
<1> QED
  BY <1>2, <1>3

\* StopSensor, with the timer stopped, takes the handler's start back.
LEMMA StopStep ==
  ASSUME IInv, granted, timer, StopSensor, ~timer', UNCHANGED <<granted, stray, sessions>>
  PROVE  /\ cnt' \in Nat /\ ~connected' /\ ~overriding'
         /\ HandlerInStep' /\ StartsBalanced'
<1> USE DEF IInv, TypeOK, HandlerInStep, StartsBalanced, StopSensor, Stop
<1>1. Cardinality(sessions) \in Nat
  BY SessionCount
<1>2. cnt' \in Nat /\ ~connected' /\ ~overriding'
  OBVIOUS
<1>3. StartsBalanced'
  BY <1>1
<1> QED
  BY <1>2, <1>3

\* A sample starts the timer; it is a stray one if the handler did not expect it.
LEMMA SampleStep ==
  ASSUME IInv, NEW l \in Levels, sampleReceived(l),
         UNCHANGED <<granted, connected, overriding, sensorVars>>
  PROVE  /\ timer' \in BOOLEAN /\ stray' \in BOOLEAN /\ level' \in Levels
         /\ HandlerInStep' /\ StartsBalanced'
<1> USE DEF IInv, TypeOK, HandlerInStep, StartsBalanced, sampleReceived, sensorVars
<1>1. timer' \in BOOLEAN /\ stray' \in BOOLEAN /\ level' \in Levels
  OBVIOUS
<1>2. HandlerInStep'
  BY <1>1
<1>3. StartsBalanced'
  <2>1. CASE timer' = timer
    BY <2>1
  <2>2. CASE ~timer /\ timer'
    BY <2>2
  <2> QED
    BY <1>1, <2>1, <2>2
<1> QED
  BY <1>1, <1>2, <1>3

-----------------------------------------------------------------------------
LEMMA NextInv == IInv /\ [Next]_vars => IInv'
<1> SUFFICES ASSUME IInv, [Next]_vars PROVE IInv'
  OBVIOUS
<1> USE DEF IInv
<1>1. CASE calibrationTimeout
  <2>1. CASE granted
    <3>1. StopSensor /\ timer' = FALSE /\ UNCHANGED <<granted, stray, sessions>>
      BY <1>1, <2>1 DEF calibrationTimeout
    <3>2. cnt' \in Nat /\ ~connected' /\ ~overriding' /\ HandlerInStep' /\ StartsBalanced'
      BY <1>1, <2>1, <3>1, StopStep DEF calibrationTimeout
    <3>3. TypeOK'
      <4>1. UNCHANGED <<threaded, granted, level, sessions, queue, deviceVars, stray>>
        BY <1>1 DEF calibrationTimeout
      <4>2. timer' \in BOOLEAN /\ connected' \in BOOLEAN /\ overriding' \in BOOLEAN
        BY <3>1, Zenon DEF StopSensor
      <4> QED
        BY <3>2, <4>1, <4>2 DEF deviceVars, TypeOK
    <3> QED
      BY <3>2, <3>3 DEF QuietInPowerSave
  <2>2. CASE ~granted
    BY <1>1, <2>2
    DEF calibrationTimeout, deviceVars, TypeOK, HandlerInStep, StartsBalanced, QuietInPowerSave
  <2> QED
    BY <2>1, <2>2
<1>2. CASE deliverSample
  <2>1. Head(queue) \in Levels /\ Tail(queue) \in Seq(Levels)
    BY <1>2 DEF deliverSample, TypeOK
  <2> QED
    BY <1>2, <2>1, SampleStep DEF deliverSample, sensorVars, deviceVars, TypeOK, QuietInPowerSave
<1>3. ASSUME NEW l \in Levels, emitData(l) PROVE IInv'
  <2>1. CASE threaded
    BY <1>3, <2>1
    DEF emitData, sensorVars, deviceVars, TypeOK, HandlerInStep, StartsBalanced, QuietInPowerSave
  <2>2. CASE ~threaded
    BY <1>3, <2>2, SampleStep DEF emitData, sensorVars, deviceVars, TypeOK, QuietInPowerSave
  <2> QED
    BY <2>1, <2>2
<1>4. CASE displayStateChanged
  <2>1. CASE display' /\ ~powerSave
    BY <1>4, <2>1, ResumeStep DEF displayStateChanged, TypeOK, QuietInPowerSave
  <2>2. CASE ~(display' /\ ~powerSave)
    BY <1>4, <2>2
    DEF displayStateChanged, handlerVars, TypeOK, HandlerInStep, StartsBalanced, QuietInPowerSave
  <2> QED
    BY <2>1, <2>2
<1>5. CASE devicePSMStateChanged
  <2>1. CASE powerSave' /\ granted /\ timer
    <3>1. StopSensor /\ timer' = FALSE /\ UNCHANGED <<granted, stray, sessions>>
      BY <1>5, <2>1 DEF devicePSMStateChanged, stopCalibration
    <3>2. cnt' \in Nat /\ ~connected' /\ ~overriding' /\ HandlerInStep' /\ StartsBalanced'
      BY <2>1, <3>1, StopStep
    <3>3. TypeOK'
      <4>1. /\ powerSave' = ~powerSave
            /\ UNCHANGED <<threaded, granted, level, sessions, queue, display, stray>>
        BY <1>5 DEF devicePSMStateChanged
      <4>2. timer' \in BOOLEAN /\ connected' \in BOOLEAN /\ overriding' \in BOOLEAN
        BY <3>1, Zenon DEF StopSensor
      <4> QED
        BY <3>2, <4>1, <4>2 DEF TypeOK
    <3> QED
      BY <3>2, <3>3 DEF QuietInPowerSave
  <2>2. CASE ~(powerSave' /\ granted /\ timer)
    BY <1>5, <2>2
    DEF devicePSMStateChanged, stopCalibration, handlerVars, TypeOK, HandlerInStep,
        StartsBalanced, QuietInPowerSave
  <2> QED
    BY <2>1, <2>2
<1>6. ASSUME NEW s \in Sessions, startSession(s) PROVE IInv'
  BY <1>6, SessionCount
  DEF startSession, Start, handlerVars, deviceVars, TypeOK, HandlerInStep, StartsBalanced,
      QuietInPowerSave
<1>7. ASSUME NEW s \in Sessions, stopSession(s) PROVE IInv'
  BY <1>7, SessionCount
  DEF stopSession, Stop, handlerVars, deviceVars, TypeOK, HandlerInStep, StartsBalanced,
      QuietInPowerSave
<1>8. CASE UNCHANGED vars
  BY <1>8 DEF vars, handlerVars, sensorVars, deviceVars, TypeOK, HandlerInStep,
              StartsBalanced, QuietInPowerSave
<1> QED
  BY <1>1, <1>2, <1>3, <1>4, <1>5, <1>6, <1>7, <1>8 DEF Next

-----------------------------------------------------------------------------
\* What the handler, its timer and the sensor's count have to do with each
\* other (sensord/calibrationhandler.cpp), in every reachable state.
THEOREM CalibrationInvariant == Spec => []IInv
  BY InitInv, NextInv, PTL DEF Spec

\* Every variable keeps to its type; the count never drops below zero.
THEOREM CalibrationTypeCorrect == Spec => []TypeOK
<1>1. IInv => TypeOK
  BY DEF IInv
<1> QED
  BY <1>1, CalibrationInvariant, PTL

\* The sensor's count is that of its sessions and the handler's, as long as no
\* sample of an ended calibration is about.
THEOREM StartsAlwaysBalanced == Spec => []StartsBalanced
<1>1. IInv => StartsBalanced
  BY DEF IInv
<1> QED
  BY <1>1, CalibrationInvariant, PTL

\* The handler's standby override is always limited by its timer.
THEOREM OverrideAlwaysLimited == Spec => []OverrideIsLimited
<1>1. IInv => OverrideIsLimited
  BY DEF IInv, HandlerInStep, OverrideIsLimited
<1> QED
  BY <1>1, CalibrationInvariant, PTL

\* Power save mode keeps the handler from the sensor.
THEOREM AlwaysQuietInPowerSave == Spec => []QuietInPowerSave
<1>1. IInv => QuietInPowerSave
  BY DEF IInv
<1> QED
  BY <1>1, CalibrationInvariant, PTL
=============================================================================
