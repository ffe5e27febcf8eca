---------------------------- MODULE PoweredAdaptor ----------------------------
(***************************************************************************)
(* The adaptors of input devices that switch the power of their device     *)
(* (adaptors/*-evdev, accelerometeradaptor, humidityadaptor,               *)
(* pressureadaptor and temperatureadaptor), on top of SysfsAdaptor.        *)
(*                                                                         *)
(* They replace startSensor() and stopSensor() by ones that first write    *)
(* the power state, and standby() and resume() by a plain stop and start:  *)
(* no flag remembers a standby, and nobody asks for the override or for    *)
(* users.  Each of them has one user, the sensor or chain of its name, but *)
(* the accelerometer's, while StabilityBin of the context plugin runs      *)
(* beside the chain: that case is outside this module.                     *)
(***************************************************************************)
EXTENDS SysfsAdaptor

CONSTANT MaxCount    \* bound on the references that resume() adds

ASSUME MaxCountAssumption == MaxCount \in Nat
\* As SingleUser of SensorGraph has it, but for StabilityBin.
ASSUME OneUserAssumption == \A u, v \in Users : u = v

VARIABLE power       \* what was last written to the power state

poweredVars == <<vars, power>>

PoweredInit == Init /\ power = FALSE

-----------------------------------------------------------------------------
\* startSensor() and stopSensor() on behalf of the adaptor's user.
startPowered(u) == startSensor(u) /\ power' = TRUE
stopPowered(u) == stopSensor(u) /\ power' = FALSE

\* standby() is stopSensor(), whoever uses or overrides the adaptor.
standbyPowered == DropReference /\ power' = FALSE

\* Mutant: resume() forgets the power state.
resumePowered_NoPower ==
  /\ count < MaxCount
  /\ StartCounted \/ \E opened \in OpenResults : StartReading(opened)
  /\ UNCHANGED power

\* Mutant: the thread of an adaptor that runs is started a second time.
resumePowered_Again ==
  /\ count < MaxCount
  /\ \E opened \in OpenResults : StartReading_Again(opened)
  /\ power' = TRUE

\* resume() is startSensor(), with or without a user.
resumePowered ==
  /\ count < MaxCount
  /\ StartCounted \/ \E opened \in OpenResults : StartReading(opened)
  /\ power' = TRUE

\* SensorManager::displayStateChanged(), for this adaptor.
displayStateChanged ==
  /\ DriftBound
  /\ blanked' = ~blanked
  /\ IF blanked' THEN standbyPowered ELSE resumePowered
  /\ UNCHANGED <<users, overriders>>

\* DeviceAdaptor::setStandbyOverride() by way of a session's request.
overridePowered(s, override) ==
  /\ DriftBound
  /\ overriders' = IF override THEN overriders \cup {s} ELSE overriders \ {s}
  /\ IF ~blanked THEN UNCHANGED <<flagVars, deviceVars, power>>
     ELSE IF overriders' # {} THEN resumePowered
                              ELSE standbyPowered
  /\ UNCHANGED <<users, blanked>>

PoweredNext ==
  \/ \E u \in Users : startPowered(u) \/ stopPowered(u)
  \/ displayStateChanged
  \/ \E s \in Sessions, override \in BOOLEAN : overridePowered(s, override)

PoweredSpec == PoweredInit /\ [][PoweredNext]_poweredVars

-----------------------------------------------------------------------------
\* However far the count has drifted, the user of an adaptor has its device on
\* and read while the display is lit, unless the device could not be opened.
ServedWhenLit == users # {} /\ ~blanked => power /\ (reader \/ openFailed)
=============================================================================
