------------------------ MODULE BinderBackend_proofs ------------------------
(***************************************************************************)
(* The safety properties of BinderBackend, for any number of starts of the *)
(* service, failed transactions and events, and pipes of any size.         *)
(***************************************************************************)
EXTENDS BinderBackend, TLAPS

\* Before the main loop there is no reader thread, no poll and no event.
NothingYet ==
  pc \in {"connect", "initialize", "list"} =>
    reader = "none" /\ inHand = 0 /\ posted = 0 /\ polls = 0

\* Whoever the daemon talks to is watched, and is there or reported as lost.
Watching ==
  pc \in {"initialize", "list", "loop"} =>
    watched = client /\ (Connected \/ notice)

\* A service is polled or has a reader thread, and nobody talks to one that is
\* still to come.
KindsApart ==
  /\ polled => reader = "none"
  /\ polls > 0 => polled
  /\ client <= incarnation

IInv == TypeOK /\ OnePoll /\ NothingYet /\ KindsApart /\ Watching /\ AwakeForEvents

LEMMA InitInv == Init => IInv
<1> SUFFICES ASSUME Init PROVE IInv
  OBVIOUS
<1>1. TypeOK
  <2>1. pc = "connect" /\ reader = "none" /\ incarnation = 1
    BY DEF Init
  <2>2. /\ polled \in BOOLEAN /\ up \in BOOLEAN /\ notice \in BOOLEAN
        /\ cancelled \in BOOLEAN
    BY Zenon DEF Init
  <2>3. /\ client \in Nat /\ watched \in Nat /\ failures \in Nat /\ polls \in Nat
        /\ posted \in Nat /\ inHand \in Nat /\ pipe \in Nat /\ locks \in Nat
    BY DEF Init
  <2> QED
    BY <2>1, <2>2, <2>3 DEF TypeOK
<1>2. ~Connected
  BY DEF Init, Connected
<1>3. OnePoll /\ NothingYet /\ KindsApart /\ Watching /\ AwakeForEvents
  BY <1>2 DEF Init, OnePoll, NothingYet, KindsApart, Watching, AwakeForEvents
<1> QED
  BY <1>1, <1>3 DEF IInv

-----------------------------------------------------------------------------
(* One lemma for the service, one for each thread.                         *)

LEMMA ServiceSteps ==
  ASSUME IInv, serviceDies \/ serviceStarts \/ servicePosts
  PROVE  IInv'
<1> USE DEF serviceVars, linkVars, threadVars
<1>1. CASE serviceDies
  <2>1. TypeOK'
    BY <1>1 DEF IInv, TypeOK, serviceDies
  <2>2. OnePoll'
    BY <1>1 DEF IInv, TypeOK, OnePoll, NothingYet, serviceDies
  <2>3. NothingYet' /\ KindsApart'
    BY <1>1 DEF IInv, TypeOK, OnePoll, NothingYet, KindsApart, serviceDies
  <2>4. Watching'
    BY <1>1 DEF IInv, TypeOK, Watching, Connected, serviceDies
  <2>5. AwakeForEvents'
    BY <1>1 DEF IInv, TypeOK, NothingYet, KindsApart, Watching, AwakeForEvents, Connected, serviceDies
  <2> QED
    BY <2>1, <2>2, <2>3, <2>4, <2>5 DEF IInv
<1>2. CASE serviceStarts
  <2>1. TypeOK'
    BY <1>2 DEF IInv, TypeOK, serviceStarts
  <2>2. OnePoll'
    BY <1>2 DEF IInv, TypeOK, OnePoll, NothingYet, serviceStarts
  <2>3. NothingYet' /\ KindsApart'
    BY <1>2 DEF IInv, TypeOK, OnePoll, NothingYet, KindsApart, serviceStarts
  <2>4. Watching'
    BY <1>2 DEF IInv, TypeOK, Watching, Connected, serviceStarts
  <2>5. AwakeForEvents'
    BY <1>2 DEF IInv, TypeOK, NothingYet, KindsApart, Watching, AwakeForEvents, Connected, serviceStarts
  <2> QED
    BY <2>1, <2>2, <2>3, <2>4, <2>5 DEF IInv
<1>3. CASE servicePosts
  <2>1. TypeOK'
    BY <1>3 DEF IInv, TypeOK, servicePosts
  <2>2. OnePoll'
    BY <1>3 DEF IInv, TypeOK, OnePoll, NothingYet, servicePosts
  <2>3. NothingYet' /\ KindsApart'
    BY <1>3 DEF IInv, TypeOK, OnePoll, NothingYet, KindsApart, servicePosts
  <2>4. Watching'
    BY <1>3 DEF IInv, TypeOK, Watching, Connected, servicePosts
  <2>5. AwakeForEvents'
    BY <1>3 DEF IInv, TypeOK, NothingYet, KindsApart, Watching, AwakeForEvents, Connected, servicePosts
  <2> QED
    BY <2>1, <2>2, <2>3, <2>4, <2>5 DEF IInv
<1> QED
  BY <1>1, <1>2, <1>3

LEMMA ConnectingSteps ==
  ASSUME IInv, retryConnect \/ finishConnect \/ initialize \/ getSensorList
  PROVE  IInv'
<1> USE DEF serviceVars, linkVars, threadVars
<1>1. CASE retryConnect
  <2>1. TypeOK'
    BY <1>1 DEF IInv, TypeOK, retryConnect, vars
  <2>2. OnePoll'
    BY <1>1 DEF IInv, TypeOK, OnePoll, NothingYet, retryConnect, vars
  <2>3. NothingYet' /\ KindsApart'
    BY <1>1 DEF IInv, TypeOK, OnePoll, NothingYet, KindsApart, retryConnect, vars
  <2>4. Watching'
    BY <1>1 DEF IInv, TypeOK, Watching, Connected, retryConnect, vars
  <2>5. AwakeForEvents'
    BY <1>1 DEF IInv, TypeOK, NothingYet, KindsApart, Watching, AwakeForEvents, Connected, retryConnect, vars
  <2> QED
    BY <2>1, <2>2, <2>3, <2>4, <2>5 DEF IInv
<1>2. CASE finishConnect
  <2>1. TypeOK'
    BY <1>2 DEF IInv, TypeOK, finishConnect
  <2>2. OnePoll'
    BY <1>2 DEF IInv, TypeOK, OnePoll, NothingYet, finishConnect
  <2>3. NothingYet' /\ KindsApart'
    BY <1>2 DEF IInv, TypeOK, OnePoll, NothingYet, KindsApart, finishConnect
  <2>4. Watching'
    BY <1>2 DEF IInv, TypeOK, Watching, Connected, finishConnect
  <2>5. AwakeForEvents'
    BY <1>2 DEF IInv, TypeOK, NothingYet, KindsApart, Watching, AwakeForEvents, Connected, finishConnect
  <2> QED
    BY <2>1, <2>2, <2>3, <2>4, <2>5 DEF IInv
<1>3. CASE initialize
  <2>1. TypeOK'
    <3>1. CASE pc' = "list"
      BY <1>3, <3>1 DEF IInv, TypeOK, initialize, reconnect
    <3>2. CASE TransactionFails /\ reconnect
      <4>1. failures' \in Nat
        BY <3>2 DEF IInv, TypeOK, TransactionFails
      <4> QED
        BY <1>3, <3>2, <4>1 DEF IInv, TypeOK, initialize, reconnect
    <3> QED
      BY <1>3, <3>1, <3>2 DEF initialize
  <2>2. OnePoll'
    BY <1>3 DEF IInv, TypeOK, OnePoll, NothingYet, initialize, TransactionFails, reconnect
  <2>3. NothingYet' /\ KindsApart'
    BY <1>3 DEF IInv, TypeOK, OnePoll, NothingYet, KindsApart, initialize, TransactionFails, reconnect
  <2>4. Watching'
    BY <1>3 DEF IInv, TypeOK, Watching, Connected, initialize, TransactionFails, reconnect
  <2>5. AwakeForEvents'
    BY <1>3 DEF IInv, TypeOK, NothingYet, KindsApart, Watching, AwakeForEvents, Connected, initialize, TransactionFails, reconnect
  <2> QED
    BY <2>1, <2>2, <2>3, <2>4, <2>5 DEF IInv
<1>4. CASE getSensorList
  <2>1. TypeOK'
    <3>1. CASE initManager
      BY <1>4, <3>1 DEF IInv, TypeOK, getSensorList, initManager
    <3>2. CASE TransactionFails /\ reconnect /\ UNCHANGED reader
      <4>1. failures' \in Nat
        BY <3>2 DEF IInv, TypeOK, TransactionFails
      <4> QED
        BY <1>4, <3>2, <4>1 DEF IInv, TypeOK, getSensorList, reconnect
    <3> QED
      BY <1>4, <3>1, <3>2 DEF getSensorList
  <2>2. OnePoll'
    BY <1>4 DEF IInv, TypeOK, OnePoll, NothingYet, getSensorList, TransactionFails, reconnect, initManager
  <2>3. NothingYet' /\ KindsApart'
    BY <1>4 DEF IInv, TypeOK, OnePoll, NothingYet, KindsApart, getSensorList, TransactionFails, reconnect, initManager
  <2>4. Watching'
    BY <1>4 DEF IInv, TypeOK, Watching, Connected, getSensorList, TransactionFails, reconnect, initManager
  <2>5. AwakeForEvents'
    BY <1>4 DEF IInv, TypeOK, NothingYet, KindsApart, Watching, AwakeForEvents, Connected, getSensorList, TransactionFails, reconnect, initManager
  <2> QED
    BY <2>1, <2>2, <2>3, <2>4, <2>5 DEF IInv
<1> QED
  BY <1>1, <1>2, <1>3, <1>4

LEMMA LoopSteps ==
  ASSUME IInv, pollEventsCallback \/ eventPipeWakeup \/ binderDied \/ signalINT
  PROVE  IInv'
<1> USE DEF serviceVars, linkVars, threadVars
<1>1. CASE pollEventsCallback
  <2>1. TypeOK'
    BY <1>1 DEF IInv, TypeOK, pollEventsCallback, pollReply, TransactionFails
  <2>2. OnePoll'
    BY <1>1 DEF IInv, TypeOK, OnePoll, NothingYet, pollEventsCallback, pollReply, TransactionFails
  <2>3. NothingYet' /\ KindsApart'
    BY <1>1 DEF IInv, TypeOK, OnePoll, NothingYet, KindsApart, pollEventsCallback, pollReply, TransactionFails
  <2>4. Watching'
    BY <1>1 DEF IInv, TypeOK, Watching, Connected, pollEventsCallback, pollReply, TransactionFails
  <2>5. AwakeForEvents'
    BY <1>1 DEF IInv, TypeOK, NothingYet, KindsApart, Watching, AwakeForEvents, Connected, pollEventsCallback, pollReply, TransactionFails
  <2> QED
    BY <2>1, <2>2, <2>3, <2>4, <2>5 DEF IInv
<1>2. CASE eventPipeWakeup
  <2>1. TypeOK'
    BY <1>2 DEF IInv, TypeOK, eventPipeWakeup
  <2>2. OnePoll'
    BY <1>2 DEF IInv, TypeOK, OnePoll, NothingYet, eventPipeWakeup
  <2>3. NothingYet' /\ KindsApart'
    BY <1>2 DEF IInv, TypeOK, OnePoll, NothingYet, KindsApart, eventPipeWakeup
  <2>4. Watching'
    BY <1>2 DEF IInv, TypeOK, Watching, Connected, eventPipeWakeup
  <2>5. AwakeForEvents'
    BY <1>2 DEF IInv, TypeOK, NothingYet, KindsApart, Watching, AwakeForEvents, Connected, eventPipeWakeup
  <2> QED
    BY <2>1, <2>2, <2>3, <2>4, <2>5 DEF IInv
<1>3. CASE binderDied
  <2>1. TypeOK'
    BY <1>3 DEF IInv, TypeOK, binderDied
  <2>2. OnePoll'
    BY <1>3 DEF IInv, TypeOK, OnePoll, NothingYet, binderDied
  <2>3. NothingYet' /\ KindsApart'
    BY <1>3 DEF IInv, TypeOK, OnePoll, NothingYet, KindsApart, binderDied
  <2>4. Watching'
    BY <1>3 DEF IInv, TypeOK, Watching, Connected, binderDied
  <2>5. AwakeForEvents'
    BY <1>3 DEF IInv, TypeOK, NothingYet, KindsApart, Watching, AwakeForEvents, Connected, binderDied
  <2> QED
    BY <2>1, <2>2, <2>3, <2>4, <2>5 DEF IInv
<1>4. CASE signalINT
  <2>1. TypeOK'
    BY <1>4 DEF IInv, TypeOK, signalINT
  <2>2. OnePoll'
    BY <1>4 DEF IInv, TypeOK, OnePoll, NothingYet, signalINT
  <2>3. NothingYet' /\ KindsApart'
    BY <1>4 DEF IInv, TypeOK, OnePoll, NothingYet, KindsApart, signalINT
  <2>4. Watching'
    BY <1>4 DEF IInv, TypeOK, Watching, Connected, signalINT
  <2>5. AwakeForEvents'
    BY <1>4 DEF IInv, TypeOK, NothingYet, KindsApart, Watching, AwakeForEvents, Connected, signalINT
  <2> QED
    BY <2>1, <2>2, <2>3, <2>4, <2>5 DEF IInv
<1> QED
  BY <1>1, <1>2, <1>3, <1>4

LEMMA CleanupSteps ==
  ASSUME IInv, deleteBackend \/ cancelReader \/ join \/ useDeletedBackend
  PROVE  IInv'
<1> USE DEF serviceVars, linkVars, threadVars
<1>1. CASE deleteBackend
  <2>1. TypeOK'
    BY <1>1 DEF IInv, TypeOK, deleteBackend
  <2>2. OnePoll'
    BY <1>1 DEF IInv, TypeOK, OnePoll, NothingYet, deleteBackend
  <2>3. NothingYet' /\ KindsApart'
    BY <1>1 DEF IInv, TypeOK, OnePoll, NothingYet, KindsApart, deleteBackend
  <2>4. Watching'
    BY <1>1 DEF IInv, TypeOK, Watching, Connected, deleteBackend
  <2>5. AwakeForEvents'
    BY <1>1 DEF IInv, TypeOK, NothingYet, KindsApart, Watching, AwakeForEvents, Connected, deleteBackend
  <2> QED
    BY <2>1, <2>2, <2>3, <2>4, <2>5 DEF IInv
<1>2. CASE cancelReader
  <2>1. TypeOK'
    BY <1>2 DEF IInv, TypeOK, cancelReader
  <2>2. OnePoll'
    BY <1>2 DEF IInv, TypeOK, OnePoll, NothingYet, cancelReader
  <2>3. NothingYet' /\ KindsApart'
    BY <1>2 DEF IInv, TypeOK, OnePoll, NothingYet, KindsApart, cancelReader
  <2>4. Watching'
    BY <1>2 DEF IInv, TypeOK, Watching, Connected, cancelReader
  <2>5. AwakeForEvents'
    BY <1>2 DEF IInv, TypeOK, NothingYet, KindsApart, Watching, AwakeForEvents, Connected, cancelReader
  <2> QED
    BY <2>1, <2>2, <2>3, <2>4, <2>5 DEF IInv
<1>3. CASE join
  <2>1. TypeOK'
    BY <1>3 DEF IInv, TypeOK, join
  <2>2. OnePoll'
    BY <1>3 DEF IInv, TypeOK, OnePoll, NothingYet, join
  <2>3. NothingYet' /\ KindsApart'
    BY <1>3 DEF IInv, TypeOK, OnePoll, NothingYet, KindsApart, join
  <2>4. Watching'
    BY <1>3 DEF IInv, TypeOK, Watching, Connected, join
  <2>5. AwakeForEvents'
    BY <1>3 DEF IInv, TypeOK, NothingYet, KindsApart, Watching, AwakeForEvents, Connected, join
  <2> QED
    BY <2>1, <2>2, <2>3, <2>4, <2>5 DEF IInv
<1>4. CASE useDeletedBackend
  <2>1. TypeOK'
    BY <1>4 DEF IInv, TypeOK, useDeletedBackend
  <2>2. OnePoll'
    BY <1>4 DEF IInv, TypeOK, OnePoll, NothingYet, useDeletedBackend
  <2>3. NothingYet' /\ KindsApart'
    BY <1>4 DEF IInv, TypeOK, OnePoll, NothingYet, KindsApart, useDeletedBackend
  <2>4. Watching'
    BY <1>4 DEF IInv, TypeOK, Watching, Connected, useDeletedBackend
  <2>5. AwakeForEvents'
    BY <1>4 DEF IInv, TypeOK, NothingYet, KindsApart, Watching, AwakeForEvents, Connected, useDeletedBackend
  <2> QED
    BY <2>1, <2>2, <2>3, <2>4, <2>5 DEF IInv
<1> QED
  BY <1>1, <1>2, <1>3, <1>4

LEMMA ReaderSteps ==
  ASSUME IInv, readerStep \/ loseEvents
  PROVE  IInv'
<1> USE DEF serviceVars, linkVars, threadVars
<1>1. CASE readEvents
  <2>1. TypeOK'
    BY <1>1 DEF IInv, TypeOK, readEvents
  <2>2. OnePoll'
    BY <1>1 DEF IInv, TypeOK, OnePoll, NothingYet, readEvents
  <2>3. NothingYet' /\ KindsApart'
    BY <1>1 DEF IInv, TypeOK, OnePoll, NothingYet, KindsApart, readEvents
  <2>4. Watching'
    BY <1>1 DEF IInv, TypeOK, Watching, Connected, readEvents
  <2>5. AwakeForEvents'
    BY <1>1 DEF IInv, TypeOK, NothingYet, KindsApart, Watching, AwakeForEvents, Connected, readEvents
  <2> QED
    BY <2>1, <2>2, <2>3, <2>4, <2>5 DEF IInv
<1>2. CASE queueEvents
  <2>1. TypeOK'
    BY <1>2 DEF IInv, TypeOK, queueEvents
  <2>2. OnePoll'
    BY <1>2 DEF IInv, TypeOK, OnePoll, NothingYet, queueEvents
  <2>3. NothingYet' /\ KindsApart'
    BY <1>2 DEF IInv, TypeOK, OnePoll, NothingYet, KindsApart, queueEvents
  <2>4. Watching'
    BY <1>2 DEF IInv, TypeOK, Watching, Connected, queueEvents
  <2>5. AwakeForEvents'
    BY <1>2 DEF IInv, TypeOK, NothingYet, KindsApart, Watching, AwakeForEvents, Connected, queueEvents
  <2> QED
    BY <2>1, <2>2, <2>3, <2>4, <2>5 DEF IInv
<1>3. CASE acknowledge
  <2>1. TypeOK'
    BY <1>3 DEF IInv, TypeOK, acknowledge
  <2>2. OnePoll'
    BY <1>3 DEF IInv, TypeOK, OnePoll, NothingYet, acknowledge
  <2>3. NothingYet' /\ KindsApart'
    BY <1>3 DEF IInv, TypeOK, OnePoll, NothingYet, KindsApart, acknowledge
  <2>4. Watching'
    BY <1>3 DEF IInv, TypeOK, Watching, Connected, acknowledge
  <2>5. AwakeForEvents'
    BY <1>3 DEF IInv, TypeOK, NothingYet, KindsApart, Watching, AwakeForEvents, Connected, acknowledge
  <2> QED
    BY <2>1, <2>2, <2>3, <2>4, <2>5 DEF IInv
<1>4. CASE readerEnds
  <2>1. TypeOK'
    BY <1>4 DEF IInv, TypeOK, readerEnds
  <2>2. OnePoll'
    BY <1>4 DEF IInv, TypeOK, OnePoll, NothingYet, readerEnds
  <2>3. NothingYet' /\ KindsApart'
    BY <1>4 DEF IInv, TypeOK, OnePoll, NothingYet, KindsApart, readerEnds
  <2>4. Watching'
    BY <1>4 DEF IInv, TypeOK, Watching, Connected, readerEnds
  <2>5. AwakeForEvents'
    BY <1>4 DEF IInv, TypeOK, NothingYet, KindsApart, Watching, AwakeForEvents, Connected, readerEnds
  <2> QED
    BY <2>1, <2>2, <2>3, <2>4, <2>5 DEF IInv
<1>5. CASE loseEvents
  <2>1. TypeOK'
    BY <1>5 DEF IInv, TypeOK, loseEvents
  <2>2. OnePoll'
    BY <1>5 DEF IInv, TypeOK, OnePoll, NothingYet, loseEvents
  <2>3. NothingYet' /\ KindsApart'
    BY <1>5 DEF IInv, TypeOK, OnePoll, NothingYet, KindsApart, loseEvents
  <2>4. Watching'
    BY <1>5 DEF IInv, TypeOK, Watching, Connected, loseEvents
  <2>5. AwakeForEvents'
    BY <1>5 DEF IInv, TypeOK, NothingYet, KindsApart, Watching, AwakeForEvents, Connected, loseEvents
  <2> QED
    BY <2>1, <2>2, <2>3, <2>4, <2>5 DEF IInv
<1> QED
  BY <1>1, <1>2, <1>3, <1>4, <1>5 DEF readerStep

LEMMA NextInv == IInv /\ [Next]_vars => IInv'
<1>1. IInv /\ UNCHANGED vars => IInv'
  BY DEF vars, serviceVars, linkVars, threadVars, IInv, TypeOK, OnePoll,
         NothingYet, KindsApart, Watching, AwakeForEvents, Connected
<1> QED
  BY <1>1, ServiceSteps, ConnectingSteps, LoopSteps, CleanupSteps, ReaderSteps
  DEF Next, mainStep

-----------------------------------------------------------------------------
\* All that is known of the two threads, the service and the events between
\* them (core/hybrisbackend_binder*.cpp), in every reachable state.
THEOREM BinderInvariant == Spec => []IInv
  BY InitInv, NextInv, PTL DEF Spec

\* Every variable keeps to its type.
THEOREM BinderTypeCorrect == Spec => []TypeOK
<1>1. IInv => TypeOK
  BY DEF IInv
<1> QED
  BY <1>1, BinderInvariant, PTL

\* There is never a second poll, and in the main loop never none
\* (pollEventsCallback()).
THEOREM PollGoesOn == Spec => []OnePoll
<1>1. IInv => OnePoll
  BY DEF IInv
<1> QED
  BY <1>1, BinderInvariant, PTL

\* The service keeps the system awake for every wake-up event until
\* queueEvents() has put it into the pipe or given it up (readEvents()).
THEOREM AwakeForAllEvents == Spec => []AwakeForEvents
<1>1. IInv => AwakeForEvents
  BY DEF IInv
<1> QED
  BY <1>1, BinderInvariant, PTL

\* The main loop never runs without the service and without its notice
\* (finishConnect(), cleanup()).
THEOREM LossAlwaysNoticed == Spec => []LossNoticed
<1>1. IInv => LossNoticed
  BY DEF IInv, Watching, LossNoticed
<1> QED
  BY <1>1, BinderInvariant, PTL
=============================================================================
