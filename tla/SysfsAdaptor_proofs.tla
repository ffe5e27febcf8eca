------------------------ MODULE SysfsAdaptor_proofs ------------------------
(***************************************************************************)
(* The safety properties of SysfsAdaptor, for any finite set of users, any *)
(* sessions and whether or not the device always opens; and those of the   *)
(* adaptors of PoweredAdaptor, which have one user.                        *)
(***************************************************************************)
EXTENDS PoweredAdaptor, FiniteSetTheorems, TLAPS

\* What startReaderThread() decided last: outside standby a counted user has
\* the device read, or it could not be opened.
CountedOutsideStandby == count > 0 /\ ~inStandby => reader \/ openFailed

IInv ==
  /\ TypeOK
  /\ ReaderOwnsDescriptors
  /\ StandbyReleasesDevice
  /\ CountWithinUsers
  /\ CountedOutsideStandby

\* The users are finitely many, and a user more or less counts for one.
LEMMA UserCount ==
  ASSUME NEW S \in SUBSET Users
  PROVE  /\ Cardinality(S) \in Nat
         /\ \A u \in Users \ S : Cardinality(S \cup {u}) = Cardinality(S) + 1
         /\ \A u \in S : Cardinality(S \ {u}) = Cardinality(S) - 1
<1>1. IsFiniteSet(S)
  BY FS_Subset, UsersAssumption
<1>2. Cardinality(S) \in Nat
  BY <1>1, FS_CardinalityType
<1>3. ASSUME NEW u \in Users \ S PROVE Cardinality(S \cup {u}) = Cardinality(S) + 1
  BY <1>1, FS_AddElement
<1>4. ASSUME NEW u \in S PROVE Cardinality(S \ {u}) = Cardinality(S) - 1
  BY <1>1, FS_RemoveElement
<1> QED
  BY <1>2, <1>3, <1>4

\* A state of a freshly created adaptor satisfies the invariant.
LEMMA InitInv == Init => IInv
<1>1. Cardinality({}) = 0
  BY FS_EmptySet
<1> SUFFICES ASSUME Init PROVE IInv
  OBVIOUS
<1>2. TypeOK
  <2>1. RequestsOK
    BY DEF Init, RequestsOK
  <2>2. CountersOK
    BY DEF Init, CountersOK
  <2>3. FlagsOK
    BY DEF Init, FlagsOK
  <2> QED
    BY <2>1, <2>2, <2>3 DEF TypeOK
<1>3. ReaderOwnsDescriptors
  BY DEF Init, ReaderOwnsDescriptors
<1>4. StandbyReleasesDevice
  BY DEF Init, StandbyReleasesDevice
<1>5. CountWithinUsers
  BY <1>1 DEF Init, CountWithinUsers
<1>6. CountedOutsideStandby
  BY DEF Init, CountedOutsideStandby
<1> QED
  BY <1>2, <1>3, <1>4, <1>5, <1>6 DEF IInv

-----------------------------------------------------------------------------
\* What the two mode changes keep, whatever happens to the requests.
ModeInv ==
  /\ CountersOK'
  /\ FlagsOK'
  /\ ReaderOwnsDescriptors'
  /\ inStandby' => ~reader' /\ shouldRun'
  /\ count' <= count
  /\ CountedOutsideStandby'

\* standby() releases the device unless it is overridden, and then does not
\* enter standby.
LEMMA StandbyStep ==
  ASSUME IInv, NEW overridden \in BOOLEAN, standby(overridden)
  PROVE  /\ ModeInv
         /\ overridden => inStandby' = inStandby
         /\ ~overridden => ~reader'
<1>1. CASE inStandby \/ overridden \/ ~running
  <2>1. UNCHANGED <<flagVars, deviceVars>>
    BY <1>1 DEF standby
  <2>2. FlagsOK' /\ CountersOK' /\ ReaderOwnsDescriptors' /\ CountedOutsideStandby'
    BY <2>1 DEF IInv, TypeOK, FlagsOK, CountersOK, ReaderOwnsDescriptors,
                CountedOutsideStandby, flagVars, deviceVars
  <2>3. ~overridden => ~reader
    BY <1>1 DEF IInv, ReaderOwnsDescriptors, StandbyReleasesDevice
  <2> QED
    BY <2>1, <2>2, <2>3 DEF ModeInv, IInv, TypeOK, CountersOK, StandbyReleasesDevice,
                            flagVars, deviceVars
<1>2. CASE ~(inStandby \/ overridden \/ ~running)
  <2>1. /\ inStandby' = TRUE /\ shouldRun' = TRUE /\ running' = FALSE
        /\ reader' = FALSE /\ fds' = 0 /\ openFailed' = openFailed
        /\ count' = IF entryRunning THEN count - 1 ELSE count
        /\ entryRunning' = (entryRunning /\ count' > 0)
    BY <1>2 DEF standby, stopReaderThread
  <2>2. FlagsOK'
    BY <2>1 DEF IInv, TypeOK, FlagsOK
  <2>3. CountersOK' /\ count' <= count
    BY <2>1 DEF IInv, TypeOK, CountersOK
  <2> QED
    BY <1>2, <2>1, <2>2, <2>3 DEF ModeInv, ReaderOwnsDescriptors, CountedOutsideStandby
<1> QED
  BY <1>1, <1>2

\* resume() always leaves standby: an adaptor in standby should be running.
LEMMA ResumeStep ==
  ASSUME IInv, NEW opened \in OpenResults, resume(opened)
  PROVE  ModeInv /\ ~inStandby'
<1>1. opened \in BOOLEAN
  BY OpenAssumption
<1>2. CASE ~inStandby \/ ~shouldRun
  <2>1. UNCHANGED <<flagVars, deviceVars>>
    BY <1>2 DEF resume
  <2>2. FlagsOK' /\ CountersOK' /\ ReaderOwnsDescriptors' /\ CountedOutsideStandby'
    BY <2>1 DEF IInv, TypeOK, FlagsOK, CountersOK, ReaderOwnsDescriptors,
                CountedOutsideStandby, flagVars, deviceVars
  <2> QED
    BY <1>2, <2>1, <2>2 DEF ModeInv, IInv, TypeOK, CountersOK, StandbyReleasesDevice,
                            flagVars, deviceVars
<1>3. CASE inStandby /\ shouldRun
  <2>1. /\ inStandby' = FALSE
        /\ openFailed' = ~opened
        /\ fds' = IF opened THEN fds + 1 ELSE 0
        /\ reader' = (opened \/ reader)
        /\ running' = (opened \/ running)
        /\ UNCHANGED <<count, entryRunning, shouldRun>>
    BY <1>3 DEF resume, startReaderThread
  <2>2. ~reader /\ ~running /\ fds = 0
    BY <1>3 DEF IInv, ReaderOwnsDescriptors, StandbyReleasesDevice
  <2>3. FlagsOK'
    BY <1>1, <2>1 DEF IInv, TypeOK, FlagsOK
  <2>4. CountersOK' /\ count' <= count
    BY <2>1 DEF IInv, TypeOK, CountersOK
  <2>5. ReaderOwnsDescriptors' /\ CountedOutsideStandby'
    <3>1. CASE opened
      <4>1. fds' = 1
        BY <2>1, <2>2, <3>1
      <4>2. reader' /\ running'
        BY <2>1, <3>1
      <4> QED
        BY <4>1, <4>2 DEF ReaderOwnsDescriptors, CountedOutsideStandby
    <3>2. CASE ~opened
      BY <2>1, <2>2, <3>2 DEF ReaderOwnsDescriptors, CountedOutsideStandby
    <3> QED
      BY <3>1, <3>2
  <2> QED
    BY <2>1, <2>3, <2>4, <2>5 DEF ModeInv
<1> QED
  BY <1>2, <1>3

\* A mode change adds no reference.
LEMMA CountKept ==
  ASSUME IInv, ModeInv, users' = users
  PROVE  CountWithinUsers'
<1>1. Cardinality(users) \in Nat
  BY UserCount DEF IInv, TypeOK, RequestsOK
<1> QED
  BY <1>1 DEF IInv, TypeOK, CountersOK, ModeInv, CountWithinUsers

-----------------------------------------------------------------------------
LEMMA StartSensorStep ==
  ASSUME IInv, NEW u \in Users, startSensor(u)
  PROVE  IInv'
<1>1. /\ Cardinality(users) \in Nat
      /\ Cardinality(users') = Cardinality(users) + 1
  BY UserCount DEF startSensor, IInv, TypeOK, RequestsOK
<1>2. RequestsOK' /\ overriders' = overriders /\ blanked' = blanked
  BY DEF startSensor, IInv, TypeOK, RequestsOK
<1>3. CASE StartCounted
  <2>1. /\ count' = count + 1
        /\ UNCHANGED <<entryRunning, running, inStandby, reader, fds, openFailed>>
        /\ shouldRun' = shouldRun \/ shouldRun' = TRUE
        /\ running \/ inStandby
    BY <1>3 DEF StartCounted
  <2>2. FlagsOK' /\ CountersOK'
    <3>1. FlagsOK'
      BY <2>1 DEF IInv, TypeOK, FlagsOK
    <3>2. CountersOK'
      BY <2>1 DEF IInv, TypeOK, CountersOK
    <3> QED
      BY <3>1, <3>2
  <2>3. ReaderOwnsDescriptors' /\ StandbyReleasesDevice'
    BY <1>2, <2>1 DEF IInv, ReaderOwnsDescriptors, StandbyReleasesDevice,
                      deviceStandbyOverride
  <2>4. CountWithinUsers'
    BY <1>1, <2>1 DEF IInv, TypeOK, CountersOK, CountWithinUsers
  <2>5. CountedOutsideStandby'
    BY <2>1 DEF IInv, ReaderOwnsDescriptors, CountedOutsideStandby
  <2> QED
    BY <1>2, <2>2, <2>3, <2>4, <2>5 DEF IInv, TypeOK
<1>4. ASSUME NEW opened \in OpenResults, StartReading(opened)
      PROVE  IInv'
  <2>1. opened \in BOOLEAN
    BY OpenAssumption
  <2>2. /\ openFailed' = ~opened
        /\ fds' = IF opened THEN fds + 1 ELSE 0
        /\ reader' = (opened \/ reader)
        /\ count' = IF opened THEN count + 1 ELSE count
        /\ entryRunning' = opened /\ running' = opened /\ shouldRun' = opened
        /\ inStandby' = FALSE
    BY <1>4 DEF StartReading, startReaderThread
  <2>3. ~reader /\ fds = 0
    BY <1>4 DEF StartReading, IInv, ReaderOwnsDescriptors
  <2>4. FlagsOK'
    BY <2>1, <2>2 DEF IInv, TypeOK, FlagsOK
  <2>5. CountersOK'
    BY <2>1, <2>2 DEF IInv, TypeOK, CountersOK
  <2>6. ReaderOwnsDescriptors' /\ StandbyReleasesDevice' /\ CountedOutsideStandby'
    <3>1. CASE opened
      <4>1. fds' = 1
        BY <2>2, <2>3, <3>1
      <4>2. reader' /\ running' /\ ~inStandby'
        BY <2>2, <3>1
      <4> QED
        BY <4>1, <4>2 DEF ReaderOwnsDescriptors, StandbyReleasesDevice,
                          CountedOutsideStandby
    <3>2. CASE ~opened
      BY <2>2, <2>3, <3>2 DEF ReaderOwnsDescriptors, StandbyReleasesDevice,
                              CountedOutsideStandby
    <3> QED
      BY <3>1, <3>2
  <2>7. CountWithinUsers'
    BY <1>1, <2>2 DEF IInv, TypeOK, CountersOK, CountWithinUsers
  <2> QED
    BY <1>2, <2>4, <2>5, <2>6, <2>7 DEF IInv, TypeOK
<1> QED
  BY <1>3, <1>4 DEF startSensor

LEMMA StopSensorStep ==
  ASSUME IInv, NEW u \in Users, stopSensor(u)
  PROVE  /\ IInv'
         /\ users' = {} /\ ~inStandby => ~reader'
<1>1. /\ Cardinality(users) \in Nat
      /\ Cardinality(users') = Cardinality(users) - 1
  BY UserCount DEF stopSensor, IInv, TypeOK, RequestsOK
<1>2. RequestsOK' /\ overriders' = overriders /\ blanked' = blanked
  BY DEF stopSensor, IInv, TypeOK, RequestsOK
<1>3. count' = count - 1 /\ shouldRun' = shouldRun /\ inStandby' = inStandby
  BY DEF stopSensor, DropReference
<1>4. CountWithinUsers'
  BY <1>1, <1>3 DEF IInv, TypeOK, CountersOK, CountWithinUsers
<1>5. users' = {} => ~(count' > 0)
  <2>1. Cardinality({}) = 0
    BY FS_EmptySet
  <2> QED
    BY <1>1, <1>3, <1>4, <2>1 DEF CountWithinUsers, IInv, TypeOK, CountersOK
<1>6. CASE count' > 0
  <2>1. UNCHANGED <<entryRunning, running, reader, fds, openFailed>>
    BY <1>6 DEF stopSensor, DropReference
  <2>2. FlagsOK' /\ CountersOK'
    BY <1>3, <2>1 DEF IInv, TypeOK, FlagsOK, CountersOK
  <2>3. ReaderOwnsDescriptors' /\ StandbyReleasesDevice'
    BY <1>2, <1>3, <2>1 DEF IInv, ReaderOwnsDescriptors, StandbyReleasesDevice,
                            deviceStandbyOverride
  <2>4. CountedOutsideStandby'
    BY <1>3, <1>6, <2>1 DEF IInv, TypeOK, CountersOK, CountedOutsideStandby
  <2> QED
    BY <1>2, <1>4, <1>5, <1>6, <2>2, <2>3, <2>4 DEF IInv, TypeOK
<1>7. CASE ~(count' > 0)
  <2>1. /\ entryRunning' = FALSE /\ running' = FALSE
        /\ IF inStandby THEN UNCHANGED <<reader, fds, openFailed>>
                        ELSE reader' = FALSE /\ fds' = 0 /\ openFailed' = openFailed
    BY <1>7 DEF stopSensor, DropReference, stopReaderThread, deviceVars
  <2>2. ~reader' /\ fds' = 0
    BY <2>1 DEF IInv, ReaderOwnsDescriptors, StandbyReleasesDevice
  <2>3. FlagsOK' /\ CountersOK'
    <3>1. FlagsOK'
      BY <1>3, <2>1 DEF IInv, TypeOK, FlagsOK
    <3>2. CountersOK'
      BY <1>3, <2>1, <2>2 DEF IInv, TypeOK, CountersOK
    <3> QED
      BY <3>1, <3>2
  <2>4. ReaderOwnsDescriptors' /\ StandbyReleasesDevice' /\ CountedOutsideStandby'
    BY <1>2, <1>3, <1>7, <2>1, <2>2 DEF IInv, ReaderOwnsDescriptors,
       StandbyReleasesDevice, CountedOutsideStandby, deviceStandbyOverride
  <2> QED
    BY <1>2, <1>4, <2>2, <2>3, <2>4 DEF IInv, TypeOK
<1> QED
  BY <1>6, <1>7

LEMMA DisplayOffStep ==
  ASSUME IInv, DisplayOff
  PROVE  IInv' /\ (~deviceStandbyOverride => ~reader')
<1>1. deviceStandbyOverride \in BOOLEAN
  BY DEF deviceStandbyOverride
<1>2. /\ ModeInv
      /\ deviceStandbyOverride => inStandby' = inStandby
      /\ ~deviceStandbyOverride => ~reader'
  BY <1>1, StandbyStep DEF DisplayOff
<1>3. RequestsOK' /\ users' = users /\ overriders' = overriders /\ blanked' = TRUE
  BY DEF DisplayOff, IInv, TypeOK, RequestsOK
<1>4. StandbyReleasesDevice'
  BY <1>2, <1>3 DEF DisplayOff, ModeInv, IInv, StandbyReleasesDevice, deviceStandbyOverride
<1>5. CountWithinUsers'
  BY <1>2, <1>3, CountKept
<1> QED
  BY <1>2, <1>3, <1>4, <1>5 DEF ModeInv, IInv, TypeOK

LEMMA DisplayOnStep ==
  ASSUME IInv, DisplayOn
  PROVE  IInv' /\ ~blanked'
<1>1. ModeInv /\ ~inStandby'
  BY ResumeStep DEF DisplayOn
<1>2. RequestsOK' /\ users' = users /\ blanked' = FALSE
  BY DEF DisplayOn, IInv, TypeOK, RequestsOK
<1>3. CountWithinUsers'
  BY <1>1, <1>2, CountKept
<1> QED
  BY <1>1, <1>2, <1>3 DEF ModeInv, IInv, TypeOK, StandbyReleasesDevice

LEMMA OverrideStep ==
  ASSUME IInv, NEW s \in Sessions, NEW override \in BOOLEAN,
         setStandbyOverride(s, override)
  PROVE  IInv' /\ (blanked /\ overriders' = {} => ~reader')
<1>1. RequestsOK' /\ users' = users /\ blanked' = blanked
  BY DEF setStandbyOverride, IInv, TypeOK, RequestsOK
<1>2. CASE ~blanked
  <2>1. UNCHANGED <<flagVars, deviceVars>>
    BY <1>2 DEF setStandbyOverride
  <2>2. FlagsOK' /\ CountersOK'
    BY <2>1 DEF IInv, TypeOK, FlagsOK, CountersOK, flagVars, deviceVars
  <2>3. ReaderOwnsDescriptors' /\ StandbyReleasesDevice'
        /\ CountWithinUsers' /\ CountedOutsideStandby'
    BY <1>1, <1>2, <2>1 DEF IInv, ReaderOwnsDescriptors, StandbyReleasesDevice,
       CountWithinUsers, CountedOutsideStandby, flagVars, deviceVars
  <2> QED
    BY <1>1, <1>2, <2>2, <2>3 DEF IInv, TypeOK
<1>3. CASE blanked /\ overriders' # {}
  <2>1. ModeInv /\ ~inStandby'
    BY <1>3, ResumeStep DEF setStandbyOverride
  <2>2. CountWithinUsers'
    BY <1>1, <2>1, CountKept
  <2> QED
    BY <1>1, <1>3, <2>1, <2>2 DEF ModeInv, IInv, TypeOK, StandbyReleasesDevice
<1>4. CASE blanked /\ overriders' = {}
  <2>1. ModeInv /\ ~reader'
    BY <1>4, StandbyStep DEF setStandbyOverride
  <2>2. CountWithinUsers'
    BY <1>1, <2>1, CountKept
  <2> QED
    BY <1>1, <1>4, <2>1, <2>2 DEF ModeInv, IInv, TypeOK, StandbyReleasesDevice,
                                  deviceStandbyOverride
<1> QED
  BY <1>2, <1>3, <1>4

\* Every step keeps the invariant.
LEMMA NextInv == IInv /\ [Next]_vars => IInv'
<1> SUFFICES ASSUME IInv, [Next]_vars PROVE IInv'
  OBVIOUS
<1>1. ASSUME NEW u \in Users, startSensor(u) PROVE IInv'
  BY <1>1, StartSensorStep
<1>2. ASSUME NEW u \in Users, stopSensor(u) PROVE IInv'
  BY <1>2, StopSensorStep
<1>3. CASE DisplayOff
  BY <1>3, DisplayOffStep
<1>4. CASE DisplayOn
  BY <1>4, DisplayOnStep
<1>5. ASSUME NEW s \in Sessions, NEW override \in BOOLEAN, setStandbyOverride(s, override)
      PROVE  IInv'
  BY <1>5, OverrideStep
<1>6. CASE UNCHANGED vars
  BY <1>6 DEF vars, IInv, TypeOK, RequestsOK, CountersOK, FlagsOK, ReaderOwnsDescriptors,
     StandbyReleasesDevice, CountWithinUsers, CountedOutsideStandby, deviceStandbyOverride
<1> QED
  BY <1>1, <1>2, <1>3, <1>4, <1>5, <1>6 DEF Next

-----------------------------------------------------------------------------
THEOREM Invariant == Spec => []IInv
BY InitInv, NextInv, PTL DEF Spec

\* The adaptor's variables keep their types; the reference count may be any
\* integer, the number of descriptors sets never goes below zero.
THEOREM TypeCorrect == Spec => []TypeOK
<1>1. IInv => TypeOK
  BY DEF IInv
<1> QED
  BY <1>1, Invariant, PTL

\* The reader thread owns exactly one set of open descriptors
\* (SysfsAdaptor::startReaderThread(), stopReaderThread(), closeAllFds()).
THEOREM DescriptorsOwned == Spec => []ReaderOwnsDescriptors
<1>1. IInv => ReaderOwnsDescriptors
  BY DEF IInv
<1> QED
  BY <1>1, Invariant, PTL

\* An adaptor in standby has released the device, for a dark display that no
\* session overrides (SysfsAdaptor::standby(), resume()).
THEOREM StandbyReleases == Spec => []StandbyReleasesDevice
<1>1. IInv => StandbyReleasesDevice
  BY DEF IInv
<1> QED
  BY <1>1, Invariant, PTL

\* The reference count never exceeds the number of users.
THEOREM CountBounded == Spec => []CountWithinUsers
<1>1. IInv => CountWithinUsers
  BY DEF IInv
<1> QED
  BY <1>1, Invariant, PTL

\* A counted user is served on a lit or overridden display.
THEOREM CountedServed == Spec => []CountedIsServed
<1>1. IInv => CountedIsServed
  BY DEF IInv, StandbyReleasesDevice, CountedOutsideStandby, CountedIsServed
<1> QED
  BY <1>1, Invariant, PTL

\* The stop of the last user outside standby releases the device
\* (SysfsAdaptor::stopSensor()).
THEOREM LastStop == Spec => LastStopReleases
<1>1. ASSUME IInv, [Next]_vars
      PROVE  [users # {} /\ users' = {} /\ ~inStandby => ~reader']_vars
  <2>1. ASSUME NEW u \in Users, startSensor(u) PROVE users' # {}
    BY <2>1 DEF startSensor
  <2>2. ASSUME NEW u \in Users, stopSensor(u)
        PROVE  users' = {} /\ ~inStandby => ~reader'
    BY <1>1, <2>2, StopSensorStep
  <2>3. ASSUME DisplayOff \/ DisplayOn
               \/ \E s \in Sessions, override \in BOOLEAN : setStandbyOverride(s, override)
        PROVE  users' = users
    BY <2>3 DEF DisplayOff, DisplayOn, setStandbyOverride
  <2> QED
    BY <1>1, <2>1, <2>2, <2>3 DEF Next
<1> QED
  BY <1>1, Invariant, PTL DEF Spec, LastStopReleases

\* Going dark, by the display or by the last override withdrawn, releases the
\* device (DeviceAdaptor::setStandbyOverride(), SensorManager::displayStateChanged()).
THEOREM DarkReleases == Spec => GoingDarkReleases
<1>1. ASSUME IInv, [Next]_vars
      PROVE  [~Dark /\ Dark' => ~reader']_vars
  <2>1. ASSUME NEW u \in Users, startSensor(u) \/ stopSensor(u) PROVE Dark' = Dark
    BY <2>1 DEF startSensor, stopSensor, Dark, deviceStandbyOverride
  <2>2. ASSUME DisplayOff PROVE Dark' => ~reader'
    BY <1>1, <2>2, DisplayOffStep DEF DisplayOff, Dark, deviceStandbyOverride
  <2>3. ASSUME DisplayOn PROVE ~Dark'
    BY <1>1, <2>3, DisplayOnStep DEF Dark
  <2>4. ASSUME NEW s \in Sessions, NEW override \in BOOLEAN,
               setStandbyOverride(s, override)
        PROVE  Dark' => ~reader'
    BY <1>1, <2>4, OverrideStep DEF setStandbyOverride, Dark, deviceStandbyOverride
  <2> QED
    BY <1>1, <2>1, <2>2, <2>3, <2>4 DEF Next
<1> QED
  BY <1>1, Invariant, PTL DEF Spec, GoingDarkReleases

-----------------------------------------------------------------------------
(* Adaptors that switch the power of their device.                         *)

\* The invariant of a powered adaptor: it is never in standby, and its user is
\* served on a lit display.
PInv ==
  /\ RequestsOK /\ count \in Int /\ power \in BOOLEAN
  /\ ~inStandby
  /\ ReaderOwnsDescriptors /\ ServedWhenLit

\* A start that is not put off opens the device or notes that it could not.
LEMMA StartReadingStep ==
  ASSUME PInv, NEW opened \in OpenResults, StartReading(opened)
  PROVE  /\ count' \in Int /\ ~inStandby'
         /\ ReaderOwnsDescriptors' /\ (reader' \/ openFailed')
<1> USE DEF PInv, ReaderOwnsDescriptors, StartReading, startReaderThread
<1>1. opened \in BOOLEAN
  BY OpenAssumption
<1>2. CASE opened
  <2>1. count' \in Int /\ ~inStandby'
    BY <1>2
  <2>2. ~reader /\ fds = 0
    BY Zenon
  <2>3. reader' /\ running'
    BY <1>2, Zenon
  <2>4. fds' = 1
    BY <1>2, <2>2
  <2> QED
    BY <2>1, <2>3, <2>4
<1>3. CASE ~opened
  <2>1. count' \in Int /\ ~inStandby'
    BY <1>3
  <2>2. ~reader
    BY Zenon
  <2>3. ~reader' /\ ~running' /\ fds' = 0 /\ openFailed'
    BY <1>3, <2>2
  <2> QED
    BY <2>1, <2>3
<1> QED
  BY <1>1, <1>2, <1>3

\* resume() leaves the device on and read, or not to be opened.
LEMMA ResumePoweredStep ==
  ASSUME PInv, resumePowered
  PROVE  /\ count' \in Int /\ power' /\ ~inStandby'
         /\ ReaderOwnsDescriptors' /\ (reader' \/ openFailed')
<1> USE DEF PInv, ReaderOwnsDescriptors
<1>1. CASE StartCounted /\ power'
  BY <1>1 DEF StartCounted
<1>2. ASSUME NEW opened \in OpenResults, StartReading(opened), power'
      PROVE  /\ count' \in Int /\ ~inStandby'
             /\ ReaderOwnsDescriptors' /\ (reader' \/ openFailed')
  BY <1>2, StartReadingStep
<1> QED
  BY <1>1, <1>2 DEF resumePowered

\* A stop or a standby leaves an adaptor that is not in standby consistent.
LEMMA DropReferenceStep ==
  ASSUME PInv, DropReference
  PROVE  count' \in Int /\ ~inStandby' /\ ReaderOwnsDescriptors'
  BY DEF PInv, ReaderOwnsDescriptors, DropReference, stopReaderThread, deviceVars

LEMMA PoweredInitInv == PoweredInit => PInv
<1> SUFFICES ASSUME PoweredInit PROVE PInv
  OBVIOUS
<1>1. RequestsOK
  BY Zenon DEF PoweredInit, Init, RequestsOK
<1>2. count \in Int /\ ReaderOwnsDescriptors /\ ServedWhenLit
  BY DEF PoweredInit, Init, ReaderOwnsDescriptors, ServedWhenLit
<1>3. power \in BOOLEAN /\ ~inStandby
  BY Zenon DEF PoweredInit, Init
<1> QED
  BY <1>1, <1>2, <1>3 DEF PInv

LEMMA PoweredNextInv == PInv /\ [PoweredNext]_poweredVars => PInv'
<1> SUFFICES ASSUME PInv, [PoweredNext]_poweredVars PROVE PInv'
  OBVIOUS
<1>1. ASSUME NEW u \in Users, startPowered(u) PROVE PInv'
  <2>1. users' \subseteq Users /\ UNCHANGED <<overriders, blanked>> /\ power'
    BY <1>1 DEF startPowered, startSensor, PInv, RequestsOK
  <2>2. CASE StartCounted
    BY <2>1, <2>2 DEF PInv, RequestsOK, ReaderOwnsDescriptors, ServedWhenLit, StartCounted
  <2>3. ASSUME NEW opened \in OpenResults, StartReading(opened) PROVE PInv'
    BY <2>1, <2>3, StartReadingStep DEF PInv, RequestsOK, ServedWhenLit
  <2> QED
    BY <1>1, <2>2, <2>3 DEF startPowered, startSensor
<1>2. ASSUME NEW u \in Users, stopPowered(u) PROVE PInv'
  <2>1. users' = {}
    BY <1>2, OneUserAssumption DEF stopPowered, stopSensor, PInv, RequestsOK
  <2> QED
    BY <1>2, <2>1, DropReferenceStep DEF stopPowered, stopSensor, PInv, RequestsOK, ServedWhenLit
<1>3. CASE displayStateChanged
  <2>1. CASE blanked' /\ standbyPowered
    BY <1>3, <2>1, DropReferenceStep
    DEF displayStateChanged, standbyPowered, PInv, RequestsOK, ServedWhenLit
  <2>2. CASE ~blanked' /\ resumePowered
    BY <1>3, <2>2, ResumePoweredStep DEF displayStateChanged, PInv, RequestsOK, ServedWhenLit
  <2> QED
    BY <1>3, <2>1, <2>2 DEF displayStateChanged
<1>4. ASSUME NEW s \in Sessions, NEW override \in BOOLEAN, overridePowered(s, override)
      PROVE  PInv'
  <2>1. overriders' \subseteq Sessions /\ UNCHANGED <<users, blanked>>
    BY <1>4 DEF overridePowered, PInv, RequestsOK
  <2>2. CASE UNCHANGED <<flagVars, deviceVars, power>>
    BY <2>1, <2>2
    DEF PInv, RequestsOK, ReaderOwnsDescriptors, ServedWhenLit, flagVars, deviceVars
  <2>3. CASE blanked /\ resumePowered
    BY <2>1, <2>3, ResumePoweredStep DEF PInv, RequestsOK, ServedWhenLit
  <2>4. CASE blanked /\ standbyPowered
    BY <2>1, <2>4, DropReferenceStep DEF standbyPowered, PInv, RequestsOK, ServedWhenLit
  <2> QED
    BY <1>4, <2>2, <2>3, <2>4 DEF overridePowered
<1>5. CASE UNCHANGED poweredVars
  BY <1>5 DEF poweredVars, vars, PInv, RequestsOK, ReaderOwnsDescriptors, ServedWhenLit
<1> QED
  BY <1>1, <1>2, <1>3, <1>4, <1>5 DEF PoweredNext

\* What is known of an adaptor that switches its device's power, in every
\* reachable state.
THEOREM PoweredInvariant == PoweredSpec => []PInv
  BY PoweredInitInv, PoweredNextInv, PTL DEF PoweredSpec

\* The user of such an adaptor is served on a lit display, however many starts
\* and stops standby() and resume() have added.
THEOREM PoweredServed == PoweredSpec => []ServedWhenLit
<1>1. PInv => ServedWhenLit
  BY DEF PInv
<1> QED
  BY <1>1, PoweredInvariant, PTL

\* Its reader thread owns its descriptors all the same.
THEOREM PoweredDescriptorsOwned == PoweredSpec => []ReaderOwnsDescriptors
<1>1. PInv => ReaderOwnsDescriptors
  BY DEF PInv
<1> QED
  BY <1>1, PoweredInvariant, PTL
=============================================================================
